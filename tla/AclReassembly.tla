---------------------------- MODULE AclReassembly ----------------------------
(***************************************************************************)
(* Reassembly of HCI ACL fragments into L2CAP frames:                      *)
(* reassemble_acl_packets (lab/capture/btsnoop_decrypt.py), which keeps    *)
(* one buffer per connection handle.  Bytes are counted in units; unit 1   *)
(* of a frame holds the L2CAP header that declares its length.             *)
(***************************************************************************)
EXTENDS Naturals, Sequences

CONSTANT Size        \* frame lengths, in units

ASSUME AclAssumption == Size \subseteq Nat \ {0}

FrameUnits(frame, size) == [i \in 1..size |-> [frame |-> frame, size |-> size, i |-> i]]

\* The packet-boundary flags of a start: 0 from the host, 2 from the
\* controller; 1 marks a continuation.
PbFlag(sent, i) == IF i > 1 THEN 1 ELSE IF sent THEN 0 ELSE 2

\* The length the first unit declares; when that is payload instead of a
\* header its bytes can say anything, more than there is included.
Declared(buf) == IF Head(buf).i = 1 THEN {Head(buf).size} ELSE 1 .. Len(buf) + 1

\* What stays in the buffer behind a frame of n units.  Mutant: all of it.
CutNothing(buf, n) == buf
Remainder(buf, n) == SubSeq(buf, n + 1, Len(buf))

\* `if len(buf) >= total_frame_len`: the frame is cut off the buffer.
Completed(buf, n) ==
    IF Len(buf) >= n THEN [buf |-> Remainder(buf, n), out |-> <<SubSeq(buf, 1, n)>>]
                     ELSE [buf |-> buf, out |-> <<>>]

StartFlag(pb) == pb \in {0, 2}

\* The possible outcomes of feeding a fragment to the buffer of its handle
\* (<<>>: there is no entry): the buffer left and the frames returned.  A
\* start overwrites the buffer, a continuation without one is ignored, what
\* exceeds the frame stays.
Feed(buf, fragment, pb) ==
    IF ~StartFlag(pb) /\ buf = <<>> THEN {[buf |-> buf, out |-> <<>>]}
    ELSE LET new == IF StartFlag(pb) THEN fragment ELSE buf \o fragment
         IN  {Completed(new, n) : n \in Declared(new)}
=============================================================================
