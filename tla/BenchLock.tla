------------------------------ MODULE BenchLock ------------------------------
(***************************************************************************)
(* acquire_board_lock (fips_lab/bench.py): a composite of the BenchLock    *)
(* flock, the legacy HardwareLock record and a session-registry entry,     *)
(* taken and freed by several sessions of one unix user, next to consumers *)
(* of another user that know the legacy record only.                       *)
(*                                                                         *)
(* The three parts come from the tollgate_lab package, outside this        *)
(* repository: they are modelled from what bench.py says of them.  No part *)
(* blocks: a session that cannot take one gets an exception.               *)
(***************************************************************************)
CONSTANTS
    Session,     \* pytest processes of this user
    Consumer,    \* other users' programs that take the HardwareLock record
    Nobody

ASSUME LockAssumption ==
    /\ Session \cap Consumer = {}
    /\ Nobody \notin Session \cup Consumer

VARIABLES
    flock,       \* holder of the kernel flock "amperstrand-bench"
    record,      \* name in the legacy hardware.lock file
    registry,    \* sessions announced in the session registry
    pc           \* how far each actor has got

vars == <<flock, record, registry, pc>>

Goto(a, step) == pc' = [pc EXCEPT ![a] = step]

-----------------------------------------------------------------------------
(* The parts, external *)

\* A flock belongs to an open file: the process that holds it cannot take it
\* a second time through a new descriptor either.
CanFlock == flock = Nobody

\* HardwareLock is same-user-permissive: a record of a session of this user
\* is replaced, one of another user refuses.
CanTakeRecord(a) == record \in (IF a \in Session THEN Session ELSE {}) \cup {Nobody}

\* Releasing removes the file, whichever session of this user wrote it.
\* Mutant: it is truncated and stays.
RecordEmptied == ""
RecordAfterRelease == IF record \in Consumer THEN record ELSE Nobody

-----------------------------------------------------------------------------
(* acquire_board_lock *)

\* The parts in the order they are taken ("taken FIRST -- never reverse
\* it") and freed.  Mutants: either order reversed.
LegacyFirst == <<"legacy", "bench">>
BenchFirst == <<"bench", "legacy">>
AcquireOrder == <<"bench", "legacy">>
ReleaseOrder == <<"legacy", "bench">>

CanTake(s, part) == IF part = "bench" THEN CanFlock ELSE CanTakeRecord(s)

Take(s, part) ==
    IF part = "bench" THEN flock' = s /\ UNCHANGED record
                      ELSE record' = s /\ UNCHANGED flock

Free(s, part) ==
    IF part = "bench" THEN /\ flock' = (IF flock = s THEN Nobody ELSE flock)
                           /\ UNCHANGED record
                      ELSE record' = RecordAfterRelease /\ UNCHANGED flock

TakePart(s, i, from, to) ==
    /\ pc[s] = from
    /\ CanTake(s, AcquireOrder[i])
    /\ Take(s, AcquireOrder[i])
    /\ Goto(s, to)
    /\ UNCHANGED registry

\* session_begin: from here on the test uses the boards.
Announce(s) ==
    /\ pc[s] = "locked"
    /\ registry' = registry \cup {s}
    /\ Goto(s, "using")
    /\ UNCHANGED <<flock, record>>

\* A part is held by somebody (BenchLockHeldError and its legacy
\* counterpart), or session_begin raises: the parts taken so far stay taken
\* and nobody has a handle to free them.
AcquireRaises(s) ==
    /\ \/ pc[s] = "out" /\ ~CanTake(s, AcquireOrder[1])
       \/ pc[s] = "first" /\ ~CanTake(s, AcquireOrder[2])
       \/ pc[s] = "locked"
    /\ Goto(s, "failed")
    /\ UNCHANGED <<flock, record, registry>>

-----------------------------------------------------------------------------
(* release() of the composite, in the finally block of every test *)

EndSession(s) ==
    /\ pc[s] = "using"
    /\ registry' = registry \ {s}
    /\ Goto(s, "ended")
    /\ UNCHANGED <<flock, record>>

FreePart(s, i, from, to) ==
    /\ pc[s] = from
    /\ Free(s, ReleaseOrder[i])
    /\ Goto(s, to)
    /\ UNCHANGED registry

\* daemon.stop(), session.end() or legacy.release() raises first: the rest of
\* the finally block is skipped and the remaining parts stay taken.
FinallyRaises(s) ==
    /\ pc[s] \in {"using", "ended"}
    /\ Goto(s, "failed")
    /\ UNCHANGED <<flock, record, registry>>

\* The process ends, or is killed at any point: the kernel drops its flock,
\* the record and the registry entry stay behind.  Another run may follow.
Exit(s) ==
    /\ flock' = (IF flock = s THEN Nobody ELSE flock)
    /\ Goto(s, "out")
    /\ UNCHANGED <<record, registry>>

\* The next test of the same process asks for the lock again.
NextTest(s) ==
    /\ pc[s] = "failed"
    /\ Goto(s, "out")
    /\ UNCHANGED <<flock, record, registry>>

-----------------------------------------------------------------------------
(* The other users' consumers of hardware.lock *)

ConsumerTakes(c) ==
    /\ pc[c] = "out"
    /\ CanTakeRecord(c)
    /\ record' = c
    /\ Goto(c, "using")
    /\ UNCHANGED <<flock, registry>>

ConsumerFrees(c) ==
    /\ pc[c] = "using"
    /\ record' = Nobody
    /\ Goto(c, "out")
    /\ UNCHANGED <<flock, registry>>

-----------------------------------------------------------------------------
Steps == {"out", "first", "locked", "using", "ended", "unhanded", "failed"}

Init ==
    /\ flock = Nobody
    /\ record = Nobody
    /\ registry = {}
    /\ pc = [a \in Session \cup Consumer |-> "out"]

SessionNext(s) ==
    \/ TakePart(s, 1, "out", "first") \/ TakePart(s, 2, "first", "locked")
    \/ Announce(s) \/ AcquireRaises(s)
    \/ EndSession(s)
    \/ FreePart(s, 1, "ended", "unhanded") \/ FreePart(s, 2, "unhanded", "out")
    \/ FinallyRaises(s) \/ Exit(s) \/ NextTest(s)

Next == \/ \E s \in Session : SessionNext(s)
        \/ \E c \in Consumer : ConsumerTakes(c) \/ ConsumerFrees(c)

Spec == Init /\ [][Next]_vars

-----------------------------------------------------------------------------
(* Properties *)

Using == {a \in Session \cup Consumer : pc[a] = "using"}

TypeOK ==
    /\ flock \in Session \cup {Nobody}
    /\ record \in Session \cup Consumer \cup {Nobody}
    /\ registry \subseteq Session
    /\ pc \in [Session \cup Consumer -> Steps]

\* One actor at a time uses the boards, be it a session of this user or a
\* consumer that knows the legacy lock only.
ExclusiveUse == \A a, b \in Using : a = b

\* While a session uses the boards both layers name it: the flock, the
\* record other users read and the registry other sessions read.
HolderIsNamed ==
    \A s \in Session : pc[s] = "using" => flock = s /\ record = s /\ s \in registry
=============================================================================
