-------------------------- MODULE MCDecryptSummary ---------------------------
(* Captures with a few sessions and keylogs of one or both of their ends.   *)
EXTENDS DecryptSummary

CONSTANTS s1, s2, ghost

BothWays == {"sent", "received"}

\* All keylogs of up to three entries about two of the three sessions.
Mixed == UNION {{k \in [1..n -> [session : {s1, s2}, end : {"near", "far"}]] :
                   \A i, j \in 1..n : k[i] = k[j] => i = j} : n \in 1..3}
=============================================================================
