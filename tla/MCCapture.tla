------------------------------ MODULE MCCapture ------------------------------
(* Small links for Capture.                                                 *)
EXTENDS Capture, TLC

CONSTANTS le, br, c1, c2, i1, i2

Services == {"fips", "other"}

\* No definition tells one CID, or one identifier, from another.
NameSymmetry == Permutations(Cid) \cup Permutations(Ident)

\* Bound: long frames, and more of them and of losses, on one channel only,
\* where what passes for signalling has few names.
Channel1 == INSTANCE Capture WITH
    Handle <- {le}, Classic <- {}, Cid <- {c1}, Ident <- {i1}, Size <- {1, 3},
    MaxSetups <- 1, MaxFrames <- 3, MaxLost <- 2

\* Bound: the local side sets up the first channel.  The sides differ only in
\* the flag of a start, and both flags are starts.
LocalFirst == setups = 1 => \A x \in channels \cup requests : x.init = "local"

MCInit == (Init \/ Channel1!Init) /\ LocalFirst
MCNext == /\ \/ DOMAIN air = Handle /\ Next
             \/ DOMAIN air = {le} /\ Channel1!Next
          /\ LocalFirst'
MCSpec == MCInit /\ [][MCNext]_vars
=============================================================================
