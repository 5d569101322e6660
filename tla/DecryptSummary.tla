--------------------------- MODULE DecryptSummary ----------------------------
(***************************************************************************)
(* decrypt_btsnoop_capture (lab/capture/btsnoop_decrypt.py) from the FMP   *)
(* frames on: which keylog entry opens a frame, what is counted, and how   *)
(* _build_summary spreads the failures over the rekey groups.              *)
(*                                                                         *)
(* A session has two keys, one per direction; the keylog of either end     *)
(* holds both, as its send and its receive key.  Keylogs of both ends may  *)
(* be in the run directory, in any order, and some sessions in none.       *)
(***************************************************************************)
EXTENDS Integers, Sequences, FiniteSetsExt, Functions

CONSTANTS
    Session,      \* Noise sessions of the capture
    Direction,    \* of the frames: "sent", "received" or both
    Keylogs,      \* the sequences of entries _collect_keys may read
    MaxFrames     \* bound on the FMP frames

\* An entry's end is "near" when its send key is that of frames sent.
Entry == [session : Session, end : {"near", "far"}]

ASSUME SummaryAssumption ==
    /\ Direction \subseteq {"sent", "received"}
    /\ Keylogs \subseteq Seq(Entry)
    /\ MaxFrames \in Nat

VARIABLES
    keys,        \* _collect_keys: the entries, in the order they are tried
    frames,      \* FMP frames handled so far
    phases,      \* phase_counts
    decrypted,   \* per key_index and direction
    failed,      \* failed frames per direction
    opened       \* history: <<session, key_index>> pairs that occurred

vars == <<keys, frames, phases, decrypted, failed, opened>>

Phase == {"established", "handshake_msg1", "handshake_msg2"}

-----------------------------------------------------------------------------
(* _decrypt_established_frame: the first entry one of whose keys            *)
(* authenticates the frame.  Mutant: the receive key is not tried.          *)

Sends(entry, dir) == (entry.end = "near") = (dir = "sent")
SendKeyOnly(entry, session, dir) == entry.session = session /\ Sends(entry, dir)
Opens(entry, session, dir) == entry.session = session

KeyIndex(session, dir) ==
    {k \in DOMAIN keys : /\ Opens(keys[k], session, dir)
                         /\ \A j \in 1..k - 1 : ~Opens(keys[j], session, dir)}

-----------------------------------------------------------------------------
(* _build_summary *)

\* Python's round() of n / d: halves go to the even neighbour.
RoundHalfEven(n, d) ==
    LET q == n \div d
        r == n % d
    IN  IF 2 * r > d \/ (2 * r = d /\ q % 2 = 1) THEN q + 1 ELSE q

GroupSize(k) == SumFunction(decrypted[k])
Groups == {k \in DOMAIN keys : GroupSize(k) > 0}
Failed == SumFunction(failed)
TotalDecrypted == SumFunction([k \in DOMAIN keys |-> GroupSize(k)])

Share(k) == RoundHalfEven(Failed * GroupSize(k), TotalDecrypted)

\* frames_failed of each group: its rounded share, the last group gets what
\* remains.  Mutant: its own rounded share too.
RoundedShare(k) == Share(k)
LastShare(k) == Failed - SumFunction([j \in Groups \ {k} |-> Share(j)])
FramesFailed == [k \in Groups |-> IF k = Max(Groups) THEN LastShare(k) ELSE Share(k)]

\* decryption_by_direction: attempted counts the parsed frames of the
\* direction, succeeded the decrypted ones.
Succeeded(dir) == SumFunction([k \in DOMAIN keys |-> decrypted[k][dir]])
Attempted(dir) == phases["established"][dir]

-----------------------------------------------------------------------------
Count(f, a, b) == [f EXCEPT ![a][b] = @ + 1]

Handshake(phase, dir) ==
    /\ phase # "established"
    /\ phases' = Count(phases, phase, dir)
    /\ UNCHANGED <<decrypted, failed, opened>>

Opened(session, dir) ==
    /\ phases' = Count(phases, "established", dir)
    /\ \E k \in KeyIndex(session, dir) :
         /\ decrypted' = Count(decrypted, k, dir)
         /\ opened' = opened \cup {<<session, k>>}
    /\ UNCHANGED failed

\* `result.sent` is set from the frame's record only when it decrypts; a
\* failed frame's direction goes to its detail record.  Mutant: it is not
\* counted, as if only what was decrypted had been attempted.
ForgetFailure(dir) == failed
CountFailure(dir) == [failed EXCEPT ![dir] = @ + 1]

NotOpened(session, dir) ==
    /\ KeyIndex(session, dir) = {}
    /\ phases' = Count(phases, "established", dir)
    /\ failed' = CountFailure(dir)
    /\ UNCHANGED <<decrypted, opened>>

\* Without keylog entries or capture nothing is decrypted and no summary is
\* written.
Init ==
    /\ keys \in Keylogs \ {<<>>}
    /\ frames = 0
    /\ phases = [p \in Phase |-> [d \in Direction |-> 0]]
    /\ decrypted = [k \in DOMAIN keys |-> [d \in Direction |-> 0]]
    /\ failed = [d \in Direction |-> 0]
    /\ opened = {}

Next ==
    /\ frames < MaxFrames
    /\ frames' = frames + 1
    /\ UNCHANGED keys
    /\ \E dir \in Direction :
         \/ \E phase \in Phase : Handshake(phase, dir)
         \/ \E session \in Session : Opened(session, dir) \/ NotOpened(session, dir)

SummarySpec == Init /\ [][Next]_vars

-----------------------------------------------------------------------------
(* Properties *)

\* frames_failed adds up to decryption_failed over the groups, whatever the
\* rounding of the shares.
SharesAddUp == Groups # {} => SumFunction(FramesFailed) = Failed

\* In each direction what was attempted and did not succeed is what failed,
\* though attempted is recounted from the parsed frames.
DirectionsAddUp == \A d \in Direction : Attempted(d) - Succeeded(d) = failed[d]

\* One session is one rekey group, also when the keylogs of both its ends
\* are there and in whatever order.
OneGroupPerSession == \A x, y \in opened : x[1] = y[1] <=> x[2] = y[2]
=============================================================================
