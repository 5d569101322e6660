--------------------------- MODULE FirmwareProofs ---------------------------
(***************************************************************************)
(* The bench, for any sessions, consumers, scenarios and boards.           *)
(*                                                                         *)
(* The board lock keeps the boards to one actor.  The scenarios take and   *)
(* free it as module BenchLock says, so its theorems carry over.  What a   *)
(* scenario measures is its own, if its ports kept their boards while it   *)
(* flashed: the scripts have a shape (GoodScript) that makes each call     *)
(* prepare the next, and a session inside the lock is not disturbed by the *)
(* others, who only build.                                                 *)
(***************************************************************************)
EXTENDS Firmware, WellFoundedInduction, TLAPS

USE DEF bench

-----------------------------------------------------------------------------
(* The board lock *)

\* From the flock on, a session owns it until it lets go of it last; the
\* record is its own for as long as both parts are taken.
HoldingInv ==
    \A s \in Session :
        /\ pc[s] \in {"first", "locked", "using", "ended", "unhanded"} => flock = s
        /\ pc[s] \in {"locked", "using", "ended"} => record = s
        /\ pc[s] = "using" => s \in registry

ConsumerInv == \A c \in Consumer : pc[c] = "using" => record = c

LockInv == TypeOK /\ HoldingInv /\ ConsumerInv

USE LockAssumption DEF Goto, CanFlock, CanTakeRecord, RecordAfterRelease, AcquireOrder,
    ReleaseOrder

LEMMA InitLockInv == Init => LockInv
BY DEF Init, LockInv, TypeOK, HoldingInv, ConsumerInv, Steps

LEMMA SessionPreserves ==
  ASSUME LockInv, NEW s \in Session, SessionNext(s) PROVE LockInv'
<1> USE DEF LockInv, TypeOK, HoldingInv, ConsumerInv, Steps
<1>1. CASE TakePart(s, 1, "out", "first") \/ TakePart(s, 2, "first", "locked")
  BY <1>1 DEF TakePart, CanTake, Take
<1>2. CASE Announce(s)
  BY <1>2 DEF Announce
<1>3. CASE AcquireRaises(s)
  BY <1>3 DEF AcquireRaises
<1>4. CASE EndSession(s)
  BY <1>4 DEF EndSession
<1>5. CASE FreePart(s, 1, "ended", "unhanded") \/ FreePart(s, 2, "unhanded", "out")
  BY <1>5 DEF FreePart, Free
<1>6. CASE FinallyRaises(s)
  BY <1>6 DEF FinallyRaises
<1>7. CASE Exit(s)
  BY <1>7 DEF Exit
<1>8. CASE NextTest(s)
  BY <1>8 DEF NextTest
<1> QED
  BY <1>1, <1>2, <1>3, <1>4, <1>5, <1>6, <1>7, <1>8 DEF SessionNext

LEMMA ConsumerPreserves ==
  ASSUME LockInv, NEW c \in Consumer, ConsumerTakes(c) \/ ConsumerFrees(c) PROVE LockInv'
BY DEF LockInv, TypeOK, HoldingInv, ConsumerInv, Steps, ConsumerTakes, ConsumerFrees

LEMMA NextLockInv == LockInv /\ [Next]_vars => LockInv'
<1> SUFFICES ASSUME LockInv, [Next]_vars PROVE LockInv'
  OBVIOUS
<1>1. CASE UNCHANGED vars
  BY <1>1 DEF vars, LockInv, TypeOK, HoldingInv, ConsumerInv
<1> QED
  BY <1>1, SessionPreserves, ConsumerPreserves DEF Next

\* The inductive invariant of the lock: who has got how far owns the parts it
\* has taken.
THEOREM LockInvariant == Spec => []LockInv
BY InitLockInv, NextLockInv, PTL DEF Spec

\* The type invariant of the specification.
THEOREM TypeCorrect == Spec => []TypeOK
BY LockInvariant, PTL DEF LockInv

LEMMA OneUser == LockInv => ExclusiveUse
BY DEF LockInv, TypeOK, HoldingInv, ConsumerInv, ExclusiveUse, Using

\* Whatever raises, crashes or is left behind, the boards have one user.
THEOREM MutualExclusion == Spec => []ExclusiveUse
BY LockInvariant, OneUser, PTL

\* Both layers of the lock and the registry name the session in possession.
THEOREM HolderNamed == Spec => []HolderIsNamed
<1>1. LockInv => HolderIsNamed
  BY DEF LockInv, HoldingInv, HolderIsNamed
<1> QED
  BY <1>1, LockInvariant, PTL

HIDE LockAssumption DEF Goto, CanFlock, CanTakeRecord, RecordAfterRelease, AcquireOrder,
    ReleaseOrder

-----------------------------------------------------------------------------
(* The scenarios implement the lock *)

LEMMA WorkKeepsLock ==
    ASSUME NEW s \in Session,
           \/ Clean(s) \/ Compile(s) \/ Verify(s) \/ Lookup(s) \/ Open(s) \/ Store(s)
           \/ Ask(s) \/ Flash(s) \/ Silence(s) \/ Tap(s) \/ Measure(s) \/ StepRaises(s)
    PROVE  UNCHANGED vars
<1>1. CASE Clean(s) BY <1>1 DEF Clean, Advance, Goes
<1>2. CASE Compile(s) BY <1>2 DEF Compile, Advance, Goes
<1>3. CASE Verify(s) BY <1>3 DEF Verify, Advance, Goes
<1>4. CASE Lookup(s) BY <1>4 DEF Lookup, Advance, Goes
<1>5. CASE Open(s) BY <1>5 DEF Open, Advance, Goes
<1>6. CASE Store(s) BY <1>6 DEF Store, Advance, Goes
<1>7. ASSUME NEW image, FlashImage(s, image) PROVE UNCHANGED vars
      BY <1>7 DEF FlashImage, Advance, FlashFailed, EndTest, Goes
<1>8. CASE Flash(s) BY <1>7, <1>8 DEF Flash
<1>9. CASE Silence(s) BY <1>7, <1>9 DEF Silence
<1>10. CASE Tap(s) BY <1>10 DEF Tap, Advance, Goes
<1>11. CASE Measure(s) BY <1>11 DEF Measure, Advance, Goes
<1>12. CASE StepRaises(s) BY <1>12 DEF StepRaises, EndTest, Goes
<1>13. CASE Ask(s) BY <1>13 DEF Ask
<1> QED BY <1>1, <1>2, <1>3, <1>4, <1>5, <1>6, <1>8, <1>9, <1>10, <1>11, <1>12, <1>13

LEMMA LockSteps ==
    ASSUME NEW s \in Session, Acquire(s) \/ Finally(s) \/ Release(s) \/ Proceed(s) \/ Killed(s)
    PROVE  SessionNext(s) \/ UNCHANGED vars
<1>1. CASE Acquire(s) BY <1>1 DEF Acquire, SessionNext
<1>2. CASE Finally(s) BY <1>2 DEF Finally, SessionNext
<1>3. CASE Release(s) BY <1>3 DEF Release, SessionNext
<1>4. CASE Proceed(s) BY <1>4 DEF Proceed, SessionNext
<1>5. CASE Killed(s) BY <1>5 DEF Killed, SessionNext
<1> QED BY <1>1, <1>2, <1>3, <1>4, <1>5

\* Every step of a scenario is a step of acquire_board_lock or release(), or
\* leaves the lock alone.
LEMMA StepsOfTheLock == [FirmwareNext]_allVars => [Next]_vars
<1> SUFFICES ASSUME [FirmwareNext]_allVars PROVE [Next]_vars
    OBVIOUS
<1>1. CASE UNCHANGED allVars BY <1>1 DEF allVars
<1>2. ASSUME NEW s \in Session, ScenarioNext(s) PROVE [Next]_vars
      BY <1>2, WorkKeepsLock, LockSteps DEF ScenarioNext, Next
<1>3. ASSUME NEW c \in Consumer, Elsewhere(c) PROVE [Next]_vars
      BY <1>3 DEF Elsewhere, Next
<1> QED BY <1>1, <1>2, <1>3 DEF FirmwareNext

\* Whatever the scenarios do, and wherever they fail or are killed, they use
\* the lock as specified.
THEOREM ScenariosKeepTheLock == FirmwareSpec => Spec
<1>1. FirmwareInit => Init BY DEF FirmwareInit
<1> QED BY <1>1, StepsOfTheLock, PTL DEF FirmwareSpec, Spec

\* So the boards have one user at a time while scenarios build, flash and
\* measure.
THEOREM ScenariosAreAlone == FirmwareSpec => []ExclusiveUse
BY ScenariosKeepTheLock, MutualExclusion, PTL

\* And the one at work is the one that every layer of the lock names.
THEOREM ScenarioIsNamed == FirmwareSpec => []HolderIsNamed
BY ScenariosKeepTheLock, HolderNamed, PTL

-----------------------------------------------------------------------------
(* Concatenation of any number of sequences *)

\* A set of naturals has a least element.
LEMMA LeastOf ==
    ASSUME NEW T \in SUBSET Nat, T # {}
    PROVE  \E x \in T : \A y \in T : x <= y
<1>1. PICK x \in T : \A y \in T : ~(<<y, x>> \in OpToRel(<, Nat))
      BY NatLessThanWellFounded, WFMin
<1>2. \A y \in T : ~(y < x) BY <1>1 DEF OpToRel
<1> QED BY <1>2

\* w stands in r after its first o elements.
StandsIn(w, r, o) ==
    o \in Nat /\ o + Len(w) <= Len(r) /\ \A x \in 1 .. Len(w) : r[o + x] = w[x]

LEMMA ConcatIs ==
    ASSUME NEW S, NEW r \in Seq(S), NEW w \in Seq(S)
    PROVE  /\ r \o w \in Seq(S) /\ Len(r \o w) = Len(r) + Len(w)
           /\ \A i \in 1 .. Len(r) + Len(w) :
                 (r \o w)[i] = IF i <= Len(r) THEN r[i] ELSE w[i - Len(r)]
OBVIOUS

LEMMA Concatenation ==
    ASSUME NEW S, NEW r \in Seq(S), NEW w \in Seq(S)
    PROVE  /\ r \o w \in Seq(S) /\ Len(r \o w) = Len(r) + Len(w)
           /\ StandsIn(w, r \o w, Len(r)) /\ StandsIn(r, r \o w, 0)
           /\ \A v \in Seq(S), o \in Nat : StandsIn(v, r, o) => StandsIn(v, r \o w, o)
           /\ \A i \in 1 .. Len(r) : (r \o w)[i] = r[i]
BY DEF StandsIn

\* Each sequence stands somewhere in the whole, and nothing else does.
LEMMA Flatten ==
    ASSUME NEW S, NEW seqs \in Seq(Seq(S))
    PROVE  /\ FlattenSeq(seqs) \in Seq(S)
           /\ \A k \in DOMAIN seqs : \E o \in Nat : StandsIn(seqs[k], FlattenSeq(seqs), o)
           /\ \A i \in DOMAIN FlattenSeq(seqs) : \E k \in DOMAIN seqs, o \in Nat :
                 StandsIn(seqs[k], FlattenSeq(seqs), o) /\ i - o \in 1 .. Len(seqs[k])
<1> DEFINE N == Len(seqs)
           Rec(f, n) == f = [i \in 1 .. n |-> IF i = 1 THEN seqs[i] ELSE f[i - 1] \o seqs[i]]
           Flat == CHOOSE f : Rec(f, N)
           Whole(n) ==
               /\ Flat[n] \in Seq(S)
               /\ \A k \in 1 .. n : \E o \in Nat : StandsIn(seqs[k], Flat[n], o)
               /\ \A i \in 1 .. Len(Flat[n]) : \E k \in 1 .. n, o \in Nat :
                     StandsIn(seqs[k], Flat[n], o) /\ i - o \in 1 .. Len(seqs[k])
<1>0. N \in Nat /\ DOMAIN seqs = 1 .. N /\ \A k \in 1 .. N : seqs[k] \in Seq(S)
      OBVIOUS
<1>1. CASE N = 0
  <2>1. FlattenSeq(seqs) = seqs BY <1>1 DEF FlattenSeq
  <2>2. seqs = << >> BY <1>1
  <2> QED BY <2>1, <2>2
<1>2. CASE N # 0
  <2>0. ASSUME NEW f, NEW n \in Nat, Rec(f, n), NEW i \in 1 .. n
        PROVE  f[i] = IF i = 1 THEN seqs[i] ELSE f[i - 1] \o seqs[i]
    <3>1. f[i] = [j \in 1 .. n |-> IF j = 1 THEN seqs[j] ELSE f[j - 1] \o seqs[j]][i]
          BY <2>0
    <3> QED BY <3>1
  <2>1. \E f : Rec(f, N)
    <3> DEFINE Has(n) == \E f : Rec(f, n)
               Bad == {n \in 1 .. N : ~ Has(n)}
    <3> HIDE DEF Has
    <3> SUFFICES ASSUME Bad # {} PROVE FALSE
      <4>1. Has(N) => \E f : Rec(f, N) BY DEF Has
      <4>2. N \in 1 .. N BY <1>0, <1>2
      <4> QED BY <4>1, <4>2
    <3>1. PICK n \in Bad : \A m \in Bad : n <= m
      <4>1. Bad \in SUBSET Nat BY <1>0
      <4> QED BY <4>1, LeastOf
    <3>4. n \in 1 .. N /\ ~ Has(n) BY <3>1
    <3>2. CASE n = 1
      <4>1. Rec([i \in 1 .. 1 |-> seqs[1]], 1) OBVIOUS
      <4> QED BY <3>2, <3>4, <4>1 DEF Has
    <3>3. CASE n # 1
      <4>1. n - 1 \in 1 .. N /\ Has(n - 1) BY <1>0, <3>1, <3>3, <3>4
      <4>2. PICK f : Rec(f, n - 1) BY <4>1 DEF Has
      <4> DEFINE g == [i \in 1 .. n |-> IF i < n THEN f[i] ELSE f[n - 1] \o seqs[n]]
      <4>3. \A i \in 1 .. n : g[i] = IF i = 1 THEN seqs[i] ELSE g[i - 1] \o seqs[i]
        <5> SUFFICES ASSUME NEW i \in 1 .. n
                     PROVE  g[i] = IF i = 1 THEN seqs[i] ELSE g[i - 1] \o seqs[i]
            OBVIOUS
        <5>1. CASE i = n
          <6>1. n - 1 \in 1 .. n /\ n - 1 < n BY <1>0, <3>3, <3>4
          <6>2. g[n - 1] = f[n - 1] /\ g[n] = f[n - 1] \o seqs[n] BY <1>0, <3>4, <6>1
          <6> QED BY <3>3, <5>1, <6>2
        <5>2. CASE i # n
          <6>1. i \in 1 .. n - 1 /\ n - 1 \in Nat BY <1>0, <3>4, <5>2
          <6>2. f[i] = IF i = 1 THEN seqs[i] ELSE f[i - 1] \o seqs[i]
            <7> HIDE DEF Rec
            <7> QED BY <2>0, <4>2, <6>1
          <6>3. g[i] = f[i] BY <1>0, <3>4, <6>1
          <6>4. i # 1 => g[i - 1] = f[i - 1] BY <1>0, <3>4, <6>1
          <6> QED BY <6>2, <6>3, <6>4
        <5> QED BY <5>1, <5>2
      <4>4. Rec(g, n) BY <4>3
      <4> QED BY <3>4, <4>4 DEF Has
    <3> QED BY <3>2, <3>3
  <2>2. Rec(Flat, N) BY <2>1
  <2>3. FlattenSeq(seqs) = Flat[N] BY <1>2 DEF FlattenSeq
  <2>4. /\ Flat[1] = seqs[1]
        /\ \A n \in 2 .. N : Flat[n] = Flat[n - 1] \o seqs[n]
    <3> HIDE DEF Flat, Rec
    <3>1. \A n \in 1 .. N : Flat[n] = IF n = 1 THEN seqs[n] ELSE Flat[n - 1] \o seqs[n]
          BY <1>0, <2>0, <2>2
    <3> HIDE DEF N
    <3>2. 1 \in 1 .. N /\ \A n \in 2 .. N : n \in 1 .. N /\ n # 1 BY <1>0, <1>2
    <3> QED BY <3>1, <3>2
  <2> HIDE DEF Flat
  <2>5. Whole(1)
    <3>1. Flat[1] \in Seq(S) /\ StandsIn(seqs[1], Flat[1], 0)
          BY <1>0, <1>2, <2>4 DEF StandsIn
    <3> QED BY <2>4, <3>1
  <2>6. ASSUME NEW n \in 2 .. N, Whole(n - 1) PROVE Whole(n)
    <3> DEFINE r == Flat[n - 1]
    <3>0. n - 1 \in Nat /\ seqs[n] \in Seq(S) /\ r \in Seq(S) /\ Flat[n] = r \o seqs[n]
      <4>1. n \in 1 .. N BY <1>0
      <4>2. Flat[n] = r \o seqs[n] BY <2>4
      <4> QED BY <1>0, <2>6, <4>1, <4>2
    <3>1. /\ Flat[n] \in Seq(S) /\ Len(Flat[n]) = Len(r) + Len(seqs[n])
          /\ StandsIn(seqs[n], Flat[n], Len(r))
          /\ \A v \in Seq(S), o \in Nat : StandsIn(v, r, o) => StandsIn(v, Flat[n], o)
          BY <3>0, Concatenation
    <3>2. \A k \in 1 .. n - 1, o \in Nat : StandsIn(seqs[k], r, o) => StandsIn(seqs[k], Flat[n], o)
          BY <1>0, <3>1
    <3>3. Len(r) \in Nat BY <3>0
    <3> HIDE DEF r
    <3>4. ASSUME NEW k \in 1 .. n PROVE \E o \in Nat : StandsIn(seqs[k], Flat[n], o)
      <4>1. CASE k = n BY <3>1, <3>3, <4>1
      <4>2. CASE k # n
        <5>1. k \in 1 .. n - 1 BY <1>0, <4>2
        <5>2. PICK o \in Nat : StandsIn(seqs[k], r, o) BY <2>6, <5>1 DEF r
        <5> QED BY <3>2, <5>1, <5>2
      <4> QED BY <4>1, <4>2
    <3>5. ASSUME NEW i \in 1 .. Len(Flat[n])
          PROVE  \E k \in 1 .. n, o \in Nat :
                    StandsIn(seqs[k], Flat[n], o) /\ i - o \in 1 .. Len(seqs[k])
      <4>1. CASE i <= Len(r)
        <5>1. i \in 1 .. Len(r) BY <3>3, <4>1
        <5>2. PICK k \in 1 .. n - 1, o \in Nat : StandsIn(seqs[k], r, o) /\ i - o \in 1 .. Len(seqs[k])
              BY <2>6, <5>1 DEF r
        <5> QED BY <3>2, <5>2
      <4>2. CASE i > Len(r)
        <5>1. i - Len(r) \in 1 .. Len(seqs[n]) BY <3>0, <3>1, <3>3, <4>2
        <5> QED BY <3>1, <3>3, <5>1
      <4> QED BY <3>3, <4>1, <4>2
    <3> QED BY <3>1, <3>4, <3>5
  <2> HIDE DEF Whole
  <2>7. \A n \in 1 .. N : Whole(n)
    <3> DEFINE Bad == {n \in 1 .. N : ~ Whole(n)}
    <3> SUFFICES ASSUME Bad # {} PROVE FALSE
        OBVIOUS
    <3>1. PICK n \in Bad : \A m \in Bad : n <= m
      <4>1. Bad \in SUBSET Nat OBVIOUS
      <4> QED BY <4>1, LeastOf
    <3>2. n \in 1 .. N /\ ~ Whole(n) /\ n # 1 BY <2>5
    <3>3. n \in 2 .. N /\ n - 1 \in 1 .. N /\ n - 1 \notin Bad BY <1>0, <3>1, <3>2
    <3> QED BY <2>6, <3>2, <3>3
  <2>8. Whole(N) BY <1>0, <1>2, <2>7
  <2>9. Flat[N] \in Seq(S) => DOMAIN Flat[N] = 1 .. Len(Flat[N]) OBVIOUS
  <2> HIDE DEF N
  <2> QED BY <1>0, <2>3, <2>8, <2>9 DEF Whole
<1> QED BY <1>1, <1>2

-----------------------------------------------------------------------------
(* The scripts *)

Op == {"lock", "clean", "compile", "verify", "lookup", "open", "store", "silence", "flash",
       "tap", "measure"}
Key == Session \cup Atom \cup {"fixed"}
Call == [op : Op, bin : Bin \cup {"none"}, board : Atom \cup {S3}, keys : Key]

\* Where a scenario asks for the lock.
LockAt(name) == IF name \in {"mcu_to_mcu", "l2cap"} THEN 4 ELSE 1

\* What stands in front of a call, and what a call is about.
Follows(w, i, op, j) ==
    j \in 1 .. Len(w) /\ w[j].op = op /\ w[j].bin = w[i].bin /\ w[j].keys = w[i].keys

OrderedAt(w, i) ==
    /\ w[i].op = "compile" => Follows(w, i, "clean", i - 1)
    /\ w[i].op = "verify" => Follows(w, i, "compile", i - 1)
    /\ w[i].op = "open" => Follows(w, i, "verify", i - 1)
    /\ w[i].op = "store" => Follows(w, i, "open", i - 1)
    /\ w[i].op = "silence" => Follows(w, i, "store", i - 1)
    /\ w[i].op = "tap" => Follows(w, i, "flash", i - 1) /\ w[i - 1].board = w[i].board
    /\ w[i].op \in {"clean", "compile", "verify", "flash"} => w[i].bin \in Bin
    /\ w[i].op = "flash" => w[i].bin # "uart"
    /\ w[i].op \in {"lookup", "open", "store", "silence"} =>
          w[i].bin = "uart" /\ w[i].board \in Atom /\ w[i].keys = w[i].board
    /\ w[i].op = "lookup" =>
          /\ Follows(w, i, "silence", i + 6)
          /\ \A j \in i + 1 .. i + 5 :
                w[j].op \in {"clean", "compile", "verify", "open", "store"} /\ w[j].bin = "uart"

Ordered(w) == w \in Seq(Call) /\ \A i \in 1 .. Len(w) : OrderedAt(w, i)

\* A script asks for the lock once, and in front of it only builds, no image
\* to silence a board with.
LocksOnce(w, lock) ==
    /\ lock \in 1 .. Len(w)
    /\ \A i \in 1 .. Len(w) :
        /\ w[i].op = "lock" <=> i = lock
        /\ i < lock => w[i].op \in {"clean", "compile", "verify"} /\ w[i].bin # "uart"

\* A board that was flashed is left alone.
FlashesLast(w) ==
    \A i, j \in 1 .. Len(w) :
        w[i].op = "flash" /\ i < j /\ w[j].op \in {"flash", "silence"} => w[j].board # w[i].board

\* When it measures, each radio board was flashed or silenced.
Quietens(w) ==
    \A m \in 1 .. Len(w) : w[m].op = "measure" =>
        \A b \in Atom : \E i \in 1 .. m - 1 : w[i].op \in {"flash", "silence"} /\ w[i].board = b

\* What it flashes is the last it compiled to that path.
Compiles(w, i, bin) == w[i].op = "compile" /\ w[i].bin = bin

LastCompiled(w, n, bin, keys) ==
    \E c \in 1 .. n : /\ Compiles(w, c, bin) /\ w[c].keys = keys
                      /\ \A d \in c + 1 .. n : ~ Compiles(w, d, bin)

FlashesOwn(w) ==
    \A f \in 1 .. Len(w) : w[f].op = "flash" => LastCompiled(w, f, w[f].bin, w[f].keys)

GoodScript(w, lock) ==
    Ordered(w) /\ LocksOnce(w, lock) /\ FlashesLast(w) /\ Quietens(w) /\ FlashesOwn(w)

\* What is in order in a part is in order in the whole.
LEMMA OrderedWithin ==
    ASSUME NEW r \in Seq(Call), NEW w, Ordered(w), NEW o, StandsIn(w, r, o), NEW i \in 1 .. Len(w)
    PROVE  OrderedAt(r, o + i)
<1>1. w \in Seq(Call) /\ OrderedAt(w, i) BY DEF Ordered
<1>2. /\ Len(w) \in Nat /\ Len(r) \in Nat /\ o \in Nat /\ o + Len(w) <= Len(r)
      /\ \A x \in 1 .. Len(w) : r[o + x] = w[x]
      BY <1>1 DEF StandsIn
<1>3. ASSUME NEW op, NEW j \in Int, Follows(w, i, op, j) PROVE Follows(r, o + i, op, o + j)
      BY <1>2, <1>3 DEF Follows
<1>4. /\ r[o + i] = w[i] /\ (o + i) - 1 = o + (i - 1) /\ (o + i) + 6 = o + (i + 6)
      /\ i \in Nat /\ i - 1 \in Int /\ i + 6 \in Int
      BY <1>2
<1>5. w[i].op = "tap" => r[(o + i) - 1] = w[i - 1]
  <2>1. w[i].op = "tap" => i - 1 \in 1 .. Len(w) BY <1>1 DEF OrderedAt, Follows
  <2> QED BY <1>2, <1>4, <2>1
<1>6. w[i].op = "lookup" => \A j \in (o + i) + 1 .. (o + i) + 5 :
         r[j].op \in {"clean", "compile", "verify", "open", "store"} /\ r[j].bin = "uart"
  <2> SUFFICES ASSUME w[i].op = "lookup", NEW j \in (o + i) + 1 .. (o + i) + 5
               PROVE  r[j].op \in {"clean", "compile", "verify", "open", "store"} /\ r[j].bin = "uart"
      OBVIOUS
  <2>1. i + 6 \in 1 .. Len(w) BY <1>1 DEF OrderedAt, Follows
  <2>2. PICK m \in i + 1 .. i + 5 : j = o + m
    <3>1. j - o \in i + 1 .. i + 5 /\ j = o + (j - o) BY <1>2
    <3> QED BY <3>1
  <2>3. m \in 1 .. Len(w) BY <1>2, <2>1
  <2>4. r[j] = w[m] BY <1>2, <2>2, <2>3
  <2> QED BY <1>1, <2>2, <2>4 DEF OrderedAt
<1>7. \A op : /\ Follows(w, i, op, i - 1) => Follows(r, o + i, op, (o + i) - 1)
              /\ Follows(w, i, op, i + 6) => Follows(r, o + i, op, (o + i) + 6)
      BY <1>3, <1>4
<1> QED BY <1>1, <1>4, <1>5, <1>6, <1>7 DEF OrderedAt

LEMMA OrderedConcat ==
    ASSUME NEW u, NEW w, Ordered(u), Ordered(w)
    PROVE  Ordered(u \o w)
<1> DEFINE t == u \o w
<1>1. u \in Seq(Call) /\ w \in Seq(Call) BY DEF Ordered
<1>2. /\ t \in Seq(Call) /\ Len(t) = Len(u) + Len(w) /\ Len(u) \in Nat /\ Len(w) \in Nat
      /\ StandsIn(u, t, 0) /\ StandsIn(w, t, Len(u))
      BY <1>1, Concatenation
<1> HIDE DEF t
<1>3. ASSUME NEW k \in 1 .. Len(t) PROVE OrderedAt(t, k)
  <2>1. CASE k \in 1 .. Len(u)
    <3>1. OrderedAt(t, 0 + k) BY <1>2, <2>1, OrderedWithin
    <3> QED BY <3>1, <2>1, <1>2
  <2>2. CASE k \notin 1 .. Len(u)
    <3>1. k - Len(u) \in 1 .. Len(w) /\ k = Len(u) + (k - Len(u)) BY <1>2, <2>2
    <3> QED BY <1>2, <3>1, OrderedWithin
  <2> QED BY <2>1, <2>2
<1> QED BY <1>2, <1>3 DEF Ordered, t

\* The parts of the scripts.
LEMMA OrderedParts ==
    /\ Ordered(<<Do("lock")>>) /\ Ordered(<<Do("measure")>>)
    /\ \A bin \in Bin, keys \in Key : Ordered(Build(bin, keys))
    /\ \A bin \in Bin \ {"uart"}, b \in Atom \cup {S3}, keys \in Key : Ordered(FlashAndTap(bin, b, keys))
<1> USE DEF Ordered, OrderedAt, Follows, Call, Op, Key
<1>1. Ordered(<<Do("lock")>>) /\ Ordered(<<Do("measure")>>)
      BY DEF Do
<1>2. ASSUME NEW bin \in Bin, NEW keys \in Key PROVE Ordered(Build(bin, keys))
  <2>1. Build(bin, keys) \in Seq(Call) BY DEF Build, On
  <2>2. Len(Build(bin, keys)) = 3 BY DEF Build, On
  <2> QED BY <2>1, <2>2 DEF Build, On
<1>3. ASSUME NEW bin \in Bin \ {"uart"}, NEW b \in Atom \cup {S3}, NEW keys \in Key
      PROVE  Ordered(FlashAndTap(bin, b, keys))
  <2>1. FlashAndTap(bin, b, keys) \in Seq(Call) BY DEF FlashAndTap, On
  <2>2. Len(FlashAndTap(bin, b, keys)) = 2 BY DEF FlashAndTap, On
  <2> QED BY <2>1, <2>2 DEF FlashAndTap, On
<1> QED BY <1>1, <1>2, <1>3

\* One board of quiesce_peer_radios, call by call.
LEMMA QuiesceOneIs ==
    ASSUME NEW b \in Atom
    PROVE  /\ QuiesceOne(b) \in Seq(Call) /\ Len(QuiesceOne(b)) = 7
           /\ QuiesceOne(b)[1] = On("lookup", "uart", b, b)
           /\ QuiesceOne(b)[2] = On("clean", "uart", S3, b)
           /\ QuiesceOne(b)[3] = On("compile", "uart", S3, b)
           /\ QuiesceOne(b)[4] = On("verify", "uart", S3, b)
           /\ QuiesceOne(b)[5] = On("open", "uart", b, b)
           /\ QuiesceOne(b)[6] = On("store", "uart", b, b)
           /\ QuiesceOne(b)[7] = On("silence", "uart", b, b)
           /\ Ordered(QuiesceOne(b))
<1> DEFINE l == <<On("lookup", "uart", b, b)>>
           m == Build("uart", b)
           n == <<On("open", "uart", b, b), On("store", "uart", b, b), On("silence", "uart", b, b)>>
<1>1. l \in Seq(Call) /\ m \in Seq(Call) /\ n \in Seq(Call)
      BY DEF Build, On, Call, Op, Key, Bin
<1>2. Len(l) = 1 /\ Len(m) = 3 /\ Len(n) = 3 BY DEF Build
<1>3. l[1] = On("lookup", "uart", b, b)
      BY DEF On
<1>4. /\ m[1] = On("clean", "uart", S3, b) /\ m[2] = On("compile", "uart", S3, b)
      /\ m[3] = On("verify", "uart", S3, b)
      BY DEF Build
<1>5. /\ n[1] = On("open", "uart", b, b) /\ n[2] = On("store", "uart", b, b)
      /\ n[3] = On("silence", "uart", b, b)
      OBVIOUS
<1>6. QuiesceOne(b) = (l \o m) \o n BY DEF QuiesceOne
<1> HIDE DEF l, m, n
<1>7. /\ QuiesceOne(b) \in Seq(Call) /\ Len(QuiesceOne(b)) = 7
      /\ \A i \in 1 .. 7 : QuiesceOne(b)[i] =
            IF i = 1 THEN l[1] ELSE IF i <= 4 THEN m[i - 1] ELSE n[i - 4]
  <2> DEFINE k == l \o m
  <2>1. /\ k \in Seq(Call) /\ Len(k) = 4
        /\ \A i \in 1 .. 4 : k[i] = IF i <= 1 THEN l[i] ELSE m[i - 1]
    <3>1. /\ k \in Seq(Call) /\ Len(k) = Len(l) + Len(m)
          /\ \A i \in 1 .. Len(l) + Len(m) : k[i] = IF i <= Len(l) THEN l[i] ELSE m[i - Len(l)]
          BY <1>1, ConcatIs
    <3> HIDE DEF k
    <3> QED BY <1>2, <3>1
  <2>2. QuiesceOne(b) = k \o n BY <1>6
  <2> HIDE DEF k
  <2>3. /\ k \o n \in Seq(Call) /\ Len(k \o n) = 7
        /\ \A i \in 1 .. 7 : (k \o n)[i] = IF i <= 4 THEN k[i] ELSE n[i - 4]
    <3>1. k \in Seq(Call) /\ n \in Seq(Call) BY <1>1, <2>1
    <3>2. /\ k \o n \in Seq(Call) /\ Len(k \o n) = Len(k) + Len(n)
          /\ \A i \in 1 .. Len(k) + Len(n) : (k \o n)[i] = IF i <= Len(k) THEN k[i] ELSE n[i - Len(k)]
          BY <3>1, ConcatIs
    <3> QED BY <1>2, <2>1, <3>2
  <2> QED BY <2>1, <2>2, <2>3, SMTT(30)
<1>8. \A i \in 1 .. 7 : OrderedAt(QuiesceOne(b), i)
      BY <1>3, <1>4, <1>5, <1>7, SMTT(30) DEF OrderedAt, Follows, On, Bin
<1> QED BY <1>3, <1>4, <1>5, <1>7, <1>8 DEF Ordered

\* What quiesce_peer_radios does, for any map and any boards left out: every
\* call belongs to one of the other boards, and each of them has its calls.
LEMMA QuiesceIs ==
    ASSUME NEW used
    PROVE  /\ Quiesce(used) \in Seq(Call)
           /\ \A i \in 1 .. Len(Quiesce(used)) : \E b \in Atom \ used, o \in Nat :
                 StandsIn(QuiesceOne(b), Quiesce(used), o) /\ i - o \in 1 .. 7
           /\ \A b \in Atom \ used : \E o \in Nat : StandsIn(QuiesceOne(b), Quiesce(used), o)
<1> DEFINE block(i) == IF QuiesceMap[i] \in used THEN << >> ELSE QuiesceOne(QuiesceMap[i])
           blocks == [i \in DOMAIN QuiesceMap |-> block(i)]
           r == FlattenSeq(blocks)
<1>1. Quiesce(used) = r BY DEF Quiesce
<1>2. QuiesceMap \in Seq(Atom) BY FirmwareAssumption
<1>3. /\ blocks \in Seq(Seq(Call)) /\ DOMAIN blocks = DOMAIN QuiesceMap
      /\ \A i \in DOMAIN QuiesceMap : blocks[i] = block(i)
  <2>1. \A i \in DOMAIN QuiesceMap : block(i) \in Seq(Call)
    <3>1. \A i \in DOMAIN QuiesceMap : QuiesceMap[i] \in Atom BY <1>2
    <3>2. << >> \in Seq(Call) OBVIOUS
    <3> QED BY <3>1, <3>2, QuiesceOneIs
  <2> HIDE DEF block
  <2>2. DOMAIN QuiesceMap = 1 .. Len(QuiesceMap) /\ Len(QuiesceMap) \in Nat BY <1>2
  <2> QED BY <2>1, <2>2
<1> HIDE DEF blocks, r
<1>4. /\ r \in Seq(Call)
      /\ \A k \in DOMAIN blocks : \E o \in Nat : StandsIn(blocks[k], r, o)
      /\ \A i \in DOMAIN r : \E k \in DOMAIN blocks, o \in Nat :
            StandsIn(blocks[k], r, o) /\ i - o \in 1 .. Len(blocks[k])
      BY <1>3, Flatten DEF r
<1>5. ASSUME NEW i \in 1 .. Len(r)
      PROVE  \E b \in Atom \ used, o \in Nat : StandsIn(QuiesceOne(b), r, o) /\ i - o \in 1 .. 7
  <2>1. DOMAIN r = 1 .. Len(r) BY <1>4
  <2>2. PICK k \in DOMAIN blocks, o \in Nat :
              StandsIn(blocks[k], r, o) /\ i - o \in 1 .. Len(blocks[k])
        BY <1>4, <2>1
  <2>3. QuiesceMap[k] \in Atom BY <1>2, <1>3, <2>2
  <2>4. QuiesceMap[k] \notin used
    <3>1. Len(<< >>) = 0 OBVIOUS
    <3> QED BY <1>3, <2>2, <3>1
  <2>5. blocks[k] = QuiesceOne(QuiesceMap[k]) BY <1>3, <2>2, <2>4
  <2>6. StandsIn(QuiesceOne(QuiesceMap[k]), r, o) /\ i - o \in 1 .. 7 /\ o \in Nat
        BY <2>2, <2>3, <2>5, QuiesceOneIs
  <2> HIDE DEF block
  <2> QED BY <2>3, <2>4, <2>6
<1>6. ASSUME NEW b \in Atom \ used PROVE \E o \in Nat : StandsIn(QuiesceOne(b), r, o)
  <2>1. PICK k \in DOMAIN QuiesceMap : QuiesceMap[k] = b BY DEF Atom, Range
  <2>2. blocks[k] = QuiesceOne(b) BY <1>3, <2>1
  <2> QED BY <1>3, <1>4, <2>2
<1> QED BY <1>1, <1>4, <1>5, <1>6

LEMMA OrderedQuiesce == ASSUME NEW used PROVE Ordered(Quiesce(used))
<1> DEFINE r == Quiesce(used)
<1>1. r \in Seq(Call) BY QuiesceIs
<1>2. ASSUME NEW i \in 1 .. Len(r) PROVE OrderedAt(r, i)
  <2>0. \A k \in 1 .. Len(r) : \E b \in Atom \ used, o \in Nat :
           StandsIn(QuiesceOne(b), r, o) /\ k - o \in 1 .. 7
        BY QuiesceIs
  <2> HIDE DEF r
  <2>1. PICK b \in Atom \ used, o \in Nat : StandsIn(QuiesceOne(b), r, o) /\ i - o \in 1 .. 7
        BY <2>0
  <2>2. Ordered(QuiesceOne(b)) /\ i - o \in 1 .. Len(QuiesceOne(b)) BY <2>1, QuiesceOneIs
  <2>3. OrderedAt(r, o + (i - o)) BY <1>1, <2>1, <2>2, OrderedWithin
  <2>4. o + (i - o) = i BY <1>1
  <2> QED BY <2>3, <2>4
<1> QED BY <1>1, <1>2 DEF Ordered

\* What a script's opening and closing have to be for the script to be good.
GoodOpening(a, lock) ==
    /\ Ordered(a) /\ LocksOnce(a, lock)
    /\ \A i \in 1 .. Len(a) :
          a[i].op \in {"lock", "clean", "compile", "verify"} /\ a[i].bin # "uart"

GoodClosing(a, z, used) ==
    /\ Ordered(z) /\ FlashesLast(z)
    /\ \A i \in 1 .. Len(z) : z[i].op \in {"clean", "compile", "verify", "flash", "tap", "measure"}
    /\ \A m \in 1 .. Len(z) : z[m].op = "measure" =>
          \A b \in used \cap Atom : \E i \in 1 .. m - 1 : z[i].op = "flash" /\ z[i].board = b
    /\ \A f \in 1 .. Len(z) : z[f].op = "flash" =>
          \/ LastCompiled(z, f, z[f].bin, z[f].keys)
          \/ /\ LastCompiled(a, Len(a), z[f].bin, z[f].keys)
             /\ \A d \in 1 .. f : ~ Compiles(z, d, z[f].bin)

LEMMA QuiesceOps ==
    ASSUME NEW used, NEW i \in 1 .. Len(Quiesce(used))
    PROVE  /\ Quiesce(used)[i].op \in {"lookup", "clean", "compile", "verify", "open", "store", "silence"}
           /\ Quiesce(used)[i].bin = "uart"
<1> DEFINE r == Quiesce(used)
<1>1. r \in Seq(Call) /\ \A k \in 1 .. Len(r) : \E b \in Atom \ used, o \in Nat :
           StandsIn(QuiesceOne(b), r, o) /\ k - o \in 1 .. 7
      BY QuiesceIs
<1> HIDE DEF r
<1>2. PICK b \in Atom \ used, o \in Nat : StandsIn(QuiesceOne(b), r, o) /\ i - o \in 1 .. 7
      BY <1>1 DEF r
<1>3. r[i] = QuiesceOne(b)[i - o]
  <2>1. o + (i - o) = i BY <1>1, <1>2 DEF r
  <2> QED BY <1>2, <2>1, QuiesceOneIs DEF StandsIn
<1>4. \A x \in 1 .. 7 :
         /\ QuiesceOne(b)[x].op \in {"lookup", "clean", "compile", "verify", "open", "store", "silence"}
         /\ QuiesceOne(b)[x].bin = "uart"
  <2> SUFFICES ASSUME NEW x \in 1 .. 7
      PROVE /\ QuiesceOne(b)[x].op \in {"lookup", "clean", "compile", "verify", "open", "store", "silence"}
            /\ QuiesceOne(b)[x].bin = "uart"
      OBVIOUS
  <2>1. x = 1 \/ x = 2 \/ x = 3 \/ x = 4 \/ x = 5 \/ x = 6 \/ x = 7 OBVIOUS
  <2>2. /\ QuiesceOne(b)[1].op = "lookup" /\ QuiesceOne(b)[2].op = "clean"
        /\ QuiesceOne(b)[3].op = "compile" /\ QuiesceOne(b)[4].op = "verify"
        /\ QuiesceOne(b)[5].op = "open" /\ QuiesceOne(b)[6].op = "store"
        /\ QuiesceOne(b)[7].op = "silence"
    <3>1. \A op, bin, board, keys : On(op, bin, board, keys).op = op BY DEF On
    <3> QED BY <3>1, QuiesceOneIs
  <2>3. /\ QuiesceOne(b)[1].bin = "uart" /\ QuiesceOne(b)[2].bin = "uart"
        /\ QuiesceOne(b)[3].bin = "uart" /\ QuiesceOne(b)[4].bin = "uart"
        /\ QuiesceOne(b)[5].bin = "uart" /\ QuiesceOne(b)[6].bin = "uart"
        /\ QuiesceOne(b)[7].bin = "uart"
    <3>1. \A op, bin, board, keys : On(op, bin, board, keys).bin = bin BY DEF On
    <3> QED BY <3>1, QuiesceOneIs
  <2> QED BY <2>1, <2>2, <2>3
<1> QED BY <1>2, <1>3, <1>4 DEF r

LEMMA GoodWhole ==
    ASSUME NEW a, NEW z, NEW used, NEW lock, GoodOpening(a, lock), GoodClosing(a, z, used)
    PROVE  GoodScript(a \o Quiesce(used) \o z, lock)
<1> DEFINE r == Quiesce(used)
           w == a \o r \o z
           p == Len(a)
           q == Len(a) + Len(r)
<1>1. a \in Seq(Call) /\ r \in Seq(Call) /\ z \in Seq(Call)
      BY QuiesceIs DEF GoodOpening, GoodClosing, Ordered
<1>2. /\ w \in Seq(Call) /\ Len(w) = q + Len(z) /\ p \in Nat /\ q \in Nat /\ p <= q
      /\ \A i \in 1 .. p : w[i] = a[i]
      /\ \A i \in p + 1 .. q : w[i] = r[i - p]
      /\ \A i \in q + 1 .. Len(w) : w[i] = z[i - q]
  <2>1. /\ a \o r \in Seq(Call) /\ Len(a \o r) = q
        /\ \A i \in 1 .. q : (a \o r)[i] = IF i <= p THEN a[i] ELSE r[i - p]
        BY <1>1, ConcatIs
  <2> DEFINE v == a \o r
  <2>2. /\ v \o z \in Seq(Call) /\ Len(v \o z) = Len(v) + Len(z)
        /\ \A i \in 1 .. Len(v) + Len(z) : (v \o z)[i] = IF i <= Len(v) THEN v[i] ELSE z[i - Len(v)]
    <3> HIDE DEF v
    <3> QED BY <1>1, <2>1, ConcatIs DEF v
  <2>3. p \in Nat /\ Len(r) \in Nat /\ Len(z) \in Nat BY <1>1
  <2>4. w = v \o z OBVIOUS
  <2> HIDE DEF r, w, v
  <2> QED BY <2>1, <2>2, <2>3, <2>4 DEF v
<1>3. Ordered(w) BY OrderedQuiesce, OrderedConcat DEF GoodOpening, GoodClosing
<1>4. \A i \in p + 1 .. q :
         /\ w[i].op \in {"lookup", "clean", "compile", "verify", "open", "store", "silence"}
         /\ w[i].bin = "uart"
  <2> SUFFICES ASSUME NEW i \in p + 1 .. q
      PROVE /\ w[i].op \in {"lookup", "clean", "compile", "verify", "open", "store", "silence"}
            /\ w[i].bin = "uart"
      OBVIOUS
  <2>0. Len(r) \in Nat BY <1>1
  <2> HIDE DEF r, w
  <2>1. i - p \in 1 .. Len(r) /\ w[i] = r[i - p] BY <1>2, <2>0
  <2> QED BY <2>1, QuiesceOps DEF r
<1>5. \A b \in Atom \ used : \E i \in p + 1 .. q : w[i].op = "silence" /\ w[i].board = b
  <2> SUFFICES ASSUME NEW b \in Atom \ used
               PROVE  \E i \in p + 1 .. q : w[i].op = "silence" /\ w[i].board = b
      OBVIOUS
  <2>1. PICK o \in Nat : StandsIn(QuiesceOne(b), r, o) BY QuiesceIs
  <2>2. Len(r) \in Nat BY <1>1
  <2> HIDE DEF r, w
  <2>3. o + 7 \in 1 .. Len(r) /\ r[o + 7] = On("silence", "uart", b, b)
        BY <2>1, <2>2, QuiesceOneIs DEF StandsIn
  <2>4. p + o + 7 \in p + 1 .. q /\ (p + o + 7) - p = o + 7 BY <1>2, <2>2, <2>3
  <2>5. w[p + o + 7] = On("silence", "uart", b, b) BY <1>2, <2>3, <2>4
  <2> QED BY <2>4, <2>5 DEF On
<1> HIDE DEF r, w, p, q
<1>6. \A i \in 1 .. Len(w) : i \in 1 .. p \/ i \in p + 1 .. q \/ i \in q + 1 .. Len(w)
      BY <1>2
<1>7. \A i \in 1 .. p : w[i].op \in {"lock", "clean", "compile", "verify"} /\ w[i].bin # "uart"
      BY <1>2 DEF GoodOpening, p
<1>8. \A i \in q + 1 .. Len(w) : i - q \in 1 .. Len(z) /\ w[i] = z[i - q]
                             /\ w[i].op \in {"clean", "compile", "verify", "flash", "tap", "measure"}
  <2>1. Len(z) \in Nat BY <1>1
  <2> QED BY <1>2, <2>1 DEF GoodClosing
<1>9. LocksOnce(w, lock)
  <2>1. lock \in 1 .. p /\ \A i \in 1 .. p : w[i].op = "lock" <=> i = lock
        BY <1>2 DEF GoodOpening, LocksOnce, p
  <2>2. lock \in 1 .. Len(w) BY <1>1, <1>2, <2>1
  <2>3. \A i \in 1 .. Len(w) : i \notin 1 .. p => i # lock /\ w[i].op # "lock" /\ ~(i < lock)
        BY <1>2, <1>4, <1>6, <1>8, <2>1, SMTT(30)
  <2>4. \A i \in 1 .. p : i < lock => w[i].op \in {"clean", "compile", "verify"}
        BY <1>7, <2>1
  <2> QED BY <1>7, <2>1, <2>2, <2>3, <2>4 DEF LocksOnce
<1>10. FlashesLast(w)
  <2> SUFFICES ASSUME NEW i \in 1 .. Len(w), NEW j \in 1 .. Len(w), w[i].op = "flash", i < j,
                      w[j].op \in {"flash", "silence"}
               PROVE  w[j].board # w[i].board
      BY DEF FlashesLast
  <2>1. i \in q + 1 .. Len(w) BY <1>4, <1>6, <1>7
  <2>2. j \in q + 1 .. Len(w) BY <1>2, <2>1
  <2>3. i - q < j - q BY <1>2, <2>1, <2>2
  <2> QED BY <1>8, <2>1, <2>2, <2>3 DEF GoodClosing, FlashesLast
<1>11. Quietens(w)
  <2> SUFFICES ASSUME NEW m \in 1 .. Len(w), w[m].op = "measure", NEW b \in Atom
               PROVE  \E i \in 1 .. m - 1 : w[i].op \in {"flash", "silence"} /\ w[i].board = b
      BY DEF Quietens
  <2>1. m \in q + 1 .. Len(w) BY <1>4, <1>6, <1>7
  <2>2. CASE b \in used
    <3>1. PICK i \in 1 .. (m - q) - 1 : z[i].op = "flash" /\ z[i].board = b
          BY <1>8, <2>1, <2>2 DEF GoodClosing
    <3>2. q + i \in q + 1 .. Len(w) /\ q + i \in 1 .. m - 1 /\ (q + i) - q = i BY <1>2, <2>1, <3>1
    <3>3. w[q + i] = z[i] BY <1>2, <3>2
    <3> QED BY <3>1, <3>2, <3>3
  <2>3. CASE b \notin used
    <3>1. PICK i \in p + 1 .. q : w[i].op = "silence" /\ w[i].board = b BY <1>5, <2>3
    <3>2. i \in 1 .. m - 1 BY <1>2, <2>1, <3>1
    <3> QED BY <3>1, <3>2
  <2> QED BY <2>2, <2>3
<1>12. FlashesOwn(w)
  <2> SUFFICES ASSUME NEW f \in 1 .. Len(w), w[f].op = "flash"
               PROVE  LastCompiled(w, f, w[f].bin, w[f].keys)
      BY DEF FlashesOwn
  <2>1. f \in q + 1 .. Len(w) /\ f - q \in 1 .. Len(z) /\ w[f] = z[f - q] BY <1>4, <1>6, <1>7, <1>8
  <2>2. w[f].bin # "uart" BY <1>3 DEF Ordered, OrderedAt
  <2>3. CASE LastCompiled(z, f - q, w[f].bin, w[f].keys)
    <3>1. PICK c \in 1 .. f - q : /\ Compiles(z, c, w[f].bin) /\ z[c].keys = w[f].keys
                                /\ \A d \in c + 1 .. f - q : ~ Compiles(z, d, w[f].bin)
          BY <2>3 DEF LastCompiled
    <3>2. q + c \in 1 .. f /\ w[q + c] = z[c]
      <4>1. q + c \in q + 1 .. Len(w) /\ (q + c) - q = c /\ q + c \in 1 .. f BY <1>2, <2>1
      <4> QED BY <1>2, <4>1
    <3>3. \A d \in (q + c) + 1 .. f : d \in q + 1 .. Len(w) /\ d - q \in c + 1 .. f - q /\ w[d] = z[d - q]
          BY <1>2, <2>1
    <3>4. \A d \in (q + c) + 1 .. f : ~ Compiles(w, d, w[f].bin)
          BY <3>1, <3>3 DEF Compiles
    <3> QED BY <3>1, <3>2, <3>4 DEF LastCompiled, Compiles
  <2>4. CASE /\ LastCompiled(a, Len(a), w[f].bin, w[f].keys)
             /\ \A d \in 1 .. f - q : ~ Compiles(z, d, w[f].bin)
    <3>1. PICK c \in 1 .. p : /\ Compiles(a, c, w[f].bin) /\ a[c].keys = w[f].keys
                             /\ \A d \in c + 1 .. p : ~ Compiles(a, d, w[f].bin)
          BY <2>4 DEF LastCompiled, p
    <3>2. c \in 1 .. f /\ w[c] = a[c] BY <1>2, <2>1
    <3>3. ASSUME NEW d \in c + 1 .. f PROVE ~ Compiles(w, d, w[f].bin)
      <4>0. d \in 1 .. Len(w) BY <1>2, <2>1
      <4>1. CASE d \in 1 .. p
        <5>1. d \in c + 1 .. p /\ w[d] = a[d] BY <1>2, <4>1
        <5> QED BY <3>1, <5>1 DEF Compiles
      <4>2. CASE d \in p + 1 .. q BY <1>4, <2>2, <4>2 DEF Compiles
      <4>3. CASE d \in q + 1 .. Len(w)
        <5>1. d - q \in 1 .. f - q /\ w[d] = z[d - q] BY <1>2, <2>1, <4>3
        <5> QED BY <2>4, <5>1 DEF Compiles
      <4> QED BY <1>6, <4>0, <4>1, <4>2, <4>3
    <3> QED BY <3>1, <3>2, <3>3 DEF LastCompiled, Compiles
  <2> QED BY <2>1, <2>3, <2>4 DEF GoodClosing
<1> QED BY <1>3, <1>9, <1>10, <1>11, <1>12 DEF GoodScript, w, r

LEMMA BuildIs ==
    ASSUME NEW bin \in Bin, NEW keys \in Key
    PROVE  /\ Build(bin, keys) \in Seq(Call) /\ Len(Build(bin, keys)) = 3
           /\ Build(bin, keys)[1] = On("clean", bin, S3, keys)
           /\ Build(bin, keys)[2] = On("compile", bin, S3, keys)
           /\ Build(bin, keys)[3] = On("verify", bin, S3, keys)
BY DEF Build, On, Call, Op

LEMMA OnIs ==
    \A op, bin, board, keys :
        /\ On(op, bin, board, keys).op = op /\ On(op, bin, board, keys).bin = bin
        /\ On(op, bin, board, keys).board = board /\ On(op, bin, board, keys).keys = keys
BY DEF On

\* The scripts begin with the lock, and with a build if they have one.
LEMMA Openings ==
    ASSUME NEW bin \in Bin \ {"uart"}, NEW keys \in Key
    PROVE  /\ GoodOpening(<<Do("lock")>>, 1)
           /\ GoodOpening(<<Do("lock")>> \o Build(bin, keys), 1)
           /\ GoodOpening(Build(bin, keys) \o <<Do("lock")>>, 4)
           /\ LET a == <<Do("lock")>> \o Build(bin, keys) IN LastCompiled(a, Len(a), bin, keys)
           /\ LET a == Build(bin, keys) \o <<Do("lock")>> IN LastCompiled(a, Len(a), bin, keys)
<1> DEFINE l == <<Do("lock")>>
           m == Build(bin, keys)
<1>1. /\ l \in Seq(Call) /\ Len(l) = 1 /\ l[1].op = "lock" /\ l[1].bin = "none"
      BY DEF Do, Call, Op, Key
<1>2. /\ m \in Seq(Call) /\ Len(m) = 3
      /\ m[1].op = "clean" /\ m[2].op = "compile" /\ m[3].op = "verify"
      /\ m[2].bin = bin /\ m[2].keys = keys /\ \A i \in 1 .. 3 : m[i].bin = bin
  <2>1. \A i \in 1 .. 3 : i = 1 \/ i = 2 \/ i = 3 OBVIOUS
  <2>2. /\ m \in Seq(Call) /\ Len(m) = 3 /\ m[1] = On("clean", bin, S3, keys)
        /\ m[2] = On("compile", bin, S3, keys) /\ m[3] = On("verify", bin, S3, keys)
        BY BuildIs
  <2> HIDE DEF m
  <2> QED BY <2>1, <2>2, OnIs
<1>3. Ordered(l) /\ Ordered(m) BY OrderedParts
<1>4. Ordered(l \o m) /\ Ordered(m \o l) BY <1>3, OrderedConcat
<1> HIDE DEF l, m
<1>5. /\ Len(l \o m) = 4
      /\ (l \o m)[1] = l[1] /\ (l \o m)[2] = m[1] /\ (l \o m)[3] = m[2] /\ (l \o m)[4] = m[3]
  <2>1. l \in Seq(Call) /\ m \in Seq(Call) BY <1>1, <1>2
  <2>2. /\ Len(l \o m) = Len(l) + Len(m)
        /\ \A i \in 1 .. Len(l) + Len(m) :
              (l \o m)[i] = IF i <= Len(l) THEN l[i] ELSE m[i - Len(l)]
        BY <2>1, ConcatIs
  <2> QED BY <1>1, <1>2, <2>2
<1>6. /\ Len(m \o l) = 4
      /\ (m \o l)[1] = m[1] /\ (m \o l)[2] = m[2] /\ (m \o l)[3] = m[3] /\ (m \o l)[4] = l[1]
  <2>1. m \in Seq(Call) /\ l \in Seq(Call) BY <1>1, <1>2
  <2>2. /\ Len(m \o l) = Len(m) + Len(l)
        /\ \A i \in 1 .. Len(m) + Len(l) :
              (m \o l)[i] = IF i <= Len(m) THEN m[i] ELSE l[i - Len(m)]
        BY <2>1, ConcatIs
  <2> QED BY <1>1, <1>2, <2>2
<1>7. GoodOpening(l, 1) BY <1>1, <1>3 DEF GoodOpening, LocksOnce
<1>8. \A i \in 1 .. 4 : i = 1 \/ i = 2 \/ i = 3 \/ i = 4 OBVIOUS
<1>9. GoodOpening(l \o m, 1) BY <1>1, <1>2, <1>4, <1>5, <1>8 DEF GoodOpening, LocksOnce
<1>10. GoodOpening(m \o l, 4) BY <1>1, <1>2, <1>4, <1>6, <1>8 DEF GoodOpening, LocksOnce
<1>11. LastCompiled(l \o m, 4, bin, keys)
  <2>1. Compiles(l \o m, 3, bin) /\ (l \o m)[3].keys = keys BY <1>2, <1>5 DEF Compiles
  <2>2. \A d \in 3 + 1 .. 4 : ~ Compiles(l \o m, d, bin) BY <1>2, <1>5 DEF Compiles
  <2>3. 3 \in 1 .. 4 OBVIOUS
  <2> QED BY <2>1, <2>2, <2>3 DEF LastCompiled
<1>12. LastCompiled(m \o l, 4, bin, keys)
  <2>1. Compiles(m \o l, 2, bin) /\ (m \o l)[2].keys = keys BY <1>2, <1>6 DEF Compiles
  <2>2. \A d \in 2 + 1 .. 4 : ~ Compiles(m \o l, d, bin)
    <3>1. \A d \in 2 + 1 .. 4 : d = 3 \/ d = 4 OBVIOUS
    <3> QED BY <1>1, <1>2, <1>6, <3>1 DEF Compiles
  <2>3. 2 \in 1 .. 4 OBVIOUS
  <2> QED BY <2>1, <2>2, <2>3 DEF LastCompiled
<1> QED BY <1>5, <1>6, <1>7, <1>9, <1>10, <1>11, <1>12 DEF l, m

\* The scripts end with a flash and a tap for each board in use, built
\* before, and then they measure.
LEMMA ShortClosing ==
    ASSUME NEW a, NEW bin \in Bin \ {"uart"}, NEW keys \in Key, NEW b \in Atom \cup {S3},
           NEW used, used \cap Atom \subseteq {b},
           LastCompiled(a, Len(a), bin, keys)
    PROVE  GoodClosing(a, FlashAndTap(bin, b, keys) \o <<Do("measure")>>, used)
<1> DEFINE z == FlashAndTap(bin, b, keys) \o <<Do("measure")>>
<1>1. Ordered(z) BY OrderedParts, OrderedConcat
<1>2. /\ Len(z) = 3 /\ z[1] = On("flash", bin, b, keys) /\ z[2] = On("tap", bin, b, keys)
      /\ z[3] = Do("measure")
      BY DEF FlashAndTap
<1>3. z[3].op = "measure" BY <1>2 DEF Do
<1>4. \A i \in 1 .. 3 : i = 1 \/ i = 2 \/ i = 3 OBVIOUS
<1> HIDE DEF z
<1>5. /\ z[1].op = "flash" /\ z[1].board = b /\ z[1].bin = bin /\ z[1].keys = keys
      /\ z[2].op = "tap"
      BY <1>2, OnIs
<1>6. FlashesLast(z) BY <1>2, <1>3, <1>4, <1>5 DEF FlashesLast
<1>7. \A i \in 1 .. Len(z) : z[i].op \in {"clean", "compile", "verify", "flash", "tap", "measure"}
      BY <1>2, <1>3, <1>4, <1>5
<1>8. \A m \in 1 .. Len(z) : z[m].op = "measure" =>
          \A c \in used \cap Atom : \E i \in 1 .. m - 1 : z[i].op = "flash" /\ z[i].board = c
  <2>1. \A m \in 1 .. Len(z) : z[m].op = "measure" => 1 \in 1 .. m - 1
        BY <1>2, <1>4, <1>5
  <2> QED BY <1>5, <2>1
<1>9. \A f \in 1 .. Len(z) : z[f].op = "flash" =>
          f = 1 /\ \A d \in 1 .. f : ~ Compiles(z, d, z[f].bin)
      BY <1>2, <1>3, <1>4, <1>5, SMTT(30) DEF Compiles
<1> QED BY <1>1, <1>5, <1>6, <1>7, <1>8, <1>9, SMTT(30) DEF GoodClosing, z

\* Put builds the image, flashes it and taps the console.
LEMMA PutIs ==
    ASSUME NEW bin \in Bin \ {"uart"}, NEW keys \in Key, NEW b \in Atom \cup {S3}
    PROVE  /\ Ordered(Put(bin, b, keys)) /\ Len(Put(bin, b, keys)) = 5
           /\ Put(bin, b, keys)[1] = On("clean", bin, S3, keys)
           /\ Put(bin, b, keys)[2] = On("compile", bin, S3, keys)
           /\ Put(bin, b, keys)[3] = On("verify", bin, S3, keys)
           /\ Put(bin, b, keys)[4] = On("flash", bin, b, keys)
           /\ Put(bin, b, keys)[5] = On("tap", bin, b, keys)
<1> DEFINE m == Build(bin, keys)
           n == FlashAndTap(bin, b, keys)
<1>1. Ordered(m) /\ Ordered(n) /\ Put(bin, b, keys) = m \o n BY OrderedParts DEF Put
<1>2. m \in Seq(Call) /\ n \in Seq(Call) BY <1>1 DEF Ordered
<1>3. /\ Len(m) = 3 /\ Len(n) = 2
      /\ m[1] = On("clean", bin, S3, keys) /\ m[2] = On("compile", bin, S3, keys)
      /\ m[3] = On("verify", bin, S3, keys)
      /\ n[1] = On("flash", bin, b, keys) /\ n[2] = On("tap", bin, b, keys)
      BY BuildIs DEF FlashAndTap
<1> HIDE DEF m, n
<1>4. Ordered(m \o n) BY <1>1, OrderedConcat
<1>5. /\ Len(m \o n) = Len(m) + Len(n)
      /\ \A i \in 1 .. Len(m) + Len(n) : (m \o n)[i] = IF i <= Len(m) THEN m[i] ELSE n[i - Len(m)]
      BY <1>2, ConcatIs
<1> QED BY <1>1, <1>3, <1>4, <1>5

FlashedIn(z) == {z[i].board : i \in {k \in 1 .. Len(z) : z[k].op = "flash"}}

\* One more board, not flashed yet.
LEMMA ClosingPuts ==
    ASSUME NEW a, NEW z, NEW used, GoodClosing(a, z, used),
           NEW bin \in Bin \ {"uart"}, NEW keys \in Key, NEW b \in Atom \cup {S3},
           b \notin FlashedIn(z)
    PROVE  /\ GoodClosing(a, z \o Put(bin, b, keys), used)
           /\ FlashedIn(z \o Put(bin, b, keys)) = FlashedIn(z) \cup {b}
<1> DEFINE m == Put(bin, b, keys)
           w == z \o m
           n == Len(z)
<1>1. Ordered(z) /\ Ordered(m) /\ z \in Seq(Call) /\ m \in Seq(Call) /\ n \in Nat
      BY PutIs DEF GoodClosing, Ordered
<1>2. /\ Len(m) = 5
      /\ m[1].op = "clean" /\ m[2].op = "compile" /\ m[3].op = "verify"
      /\ m[4].op = "flash" /\ m[5].op = "tap"
      /\ m[2].bin = bin /\ m[2].keys = keys /\ m[4].bin = bin /\ m[4].keys = keys /\ m[4].board = b
  <2>1. /\ Len(m) = 5
        /\ m[1] = On("clean", bin, S3, keys) /\ m[2] = On("compile", bin, S3, keys)
        /\ m[3] = On("verify", bin, S3, keys)
        /\ m[4] = On("flash", bin, b, keys) /\ m[5] = On("tap", bin, b, keys)
        BY PutIs
  <2> HIDE DEF m
  <2> QED BY <2>1, OnIs
<1>3. Ordered(w) BY <1>1, OrderedConcat
<1> HIDE DEF m
<1>4. /\ w \in Seq(Call) /\ Len(w) = n + 5 /\ \A i \in 1 .. n : w[i] = z[i]
      /\ w[n + 1] = m[1] /\ w[n + 2] = m[2] /\ w[n + 3] = m[3] /\ w[n + 4] = m[4] /\ w[n + 5] = m[5]
  <2>1. /\ w \in Seq(Call) /\ Len(w) = Len(z) + Len(m)
        /\ \A i \in 1 .. Len(z) + Len(m) : w[i] = IF i <= Len(z) THEN z[i] ELSE m[i - Len(z)]
        BY <1>1, ConcatIs
  <2> HIDE DEF w, n
  <2>2. /\ w \in Seq(Call) /\ Len(w) = n + 5
        /\ \A i \in 1 .. n + 5 : w[i] = IF i <= n THEN z[i] ELSE m[i - n]
        BY <1>2, <2>1 DEF n
  <2>3. \A k \in 1 .. 5 : n + k \in 1 .. n + 5 /\ ~(n + k <= n) /\ (n + k) - n = k
        BY <1>1
  <2>4. \A k \in 1 .. 5 : w[n + k] = m[k] BY <2>2, <2>3
  <2>5. \A i \in 1 .. n : w[i] = z[i] BY <1>1, <2>2
  <2> QED BY <2>2, <2>4, <2>5
<1> HIDE DEF w
<1>5. \A i \in 1 .. Len(w) : \/ i \in 1 .. n \/ i = n + 1 \/ i = n + 2 \/ i = n + 3 \/ i = n + 4
                            \/ i = n + 5
  <2>1. n \in Nat /\ Len(w) = n + 5 BY <1>1, <1>4
  <2> QED BY <2>1
<1>6. \A i \in 1 .. Len(w) : w[i].op \in {"clean", "compile", "verify", "flash", "tap", "measure"}
      BY <1>2, <1>4, <1>5, SMTT(30) DEF GoodClosing
<1>7. \A i \in 1 .. n : z[i].op = "flash" => z[i].board # b BY DEF FlashedIn
<1>8. FlashesLast(w)
  <2> SUFFICES ASSUME NEW i \in 1 .. Len(w), NEW j \in 1 .. Len(w), w[i].op = "flash", i < j,
                      w[j].op \in {"flash", "silence"}
               PROVE  w[j].board # w[i].board
      BY DEF FlashesLast
  <2>1. j \in 1 .. n \/ j = n + 4 BY <1>2, <1>4, <1>5
  <2>2. i \in 1 .. n
    <3>1. n \in Nat BY <1>1
    <3>2. i < n + 4 BY <2>1, <3>1
    <3>3. i \notin {n + 1, n + 2, n + 3} BY <1>2, <1>4
    <3> QED BY <1>5, <3>1, <3>2, <3>3
  <2>3. CASE j \in 1 .. n BY <1>4, <2>2, <2>3, SMTT(30) DEF GoodClosing, FlashesLast
  <2>4. CASE j = n + 4
    <3>1. w[j].board = b BY <1>2, <1>4, <2>4
    <3>2. w[i] = z[i] BY <1>4, <2>2
    <3> QED BY <1>7, <2>2, <3>1, <3>2
  <2> QED BY <2>1, <2>3, <2>4
<1>9. \A k \in 1 .. Len(w) : w[k].op = "measure" =>
          \A c \in used \cap Atom : \E i \in 1 .. k - 1 : w[i].op = "flash" /\ w[i].board = c
  <2> SUFFICES ASSUME NEW k \in 1 .. Len(w), w[k].op = "measure", NEW c \in used \cap Atom
               PROVE  \E i \in 1 .. k - 1 : w[i].op = "flash" /\ w[i].board = c
      OBVIOUS
  <2>1. k \in 1 .. n BY <1>2, <1>4, <1>5
  <2>2. PICK i \in 1 .. k - 1 : z[i].op = "flash" /\ z[i].board = c BY <1>4, <2>1, SMTT(60) DEF GoodClosing
  <2>3. i \in 1 .. n
    <3>1. n \in Nat /\ k \in 1 .. n BY <1>1, <2>1
    <3> QED BY <3>1
  <2>4. w[i] = z[i] BY <1>4, <2>3
  <2> QED BY <2>2, <2>4
<1>10. \A f \in 1 .. Len(w) : w[f].op = "flash" =>
          \/ LastCompiled(w, f, w[f].bin, w[f].keys)
          \/ /\ LastCompiled(a, Len(a), w[f].bin, w[f].keys)
             /\ \A d \in 1 .. f : ~ Compiles(w, d, w[f].bin)
  <2> SUFFICES ASSUME NEW f \in 1 .. Len(w), w[f].op = "flash"
               PROVE  \/ LastCompiled(w, f, w[f].bin, w[f].keys)
                      \/ /\ LastCompiled(a, Len(a), w[f].bin, w[f].keys)
                         /\ \A d \in 1 .. f : ~ Compiles(w, d, w[f].bin)
      OBVIOUS
  <2>1. f \in 1 .. n \/ f = n + 4 BY <1>2, <1>4, <1>5
  <2>2. CASE f = n + 4
    <3>1. Compiles(w, n + 2, bin) /\ w[n + 2].keys = keys /\ w[f].bin = bin /\ w[f].keys = keys
          BY <1>2, <1>4, <2>2 DEF Compiles
    <3>2. \A d \in (n + 2) + 1 .. n + 4 : d = n + 3 \/ d = n + 4 BY <1>1
    <3>3. \A d \in (n + 2) + 1 .. n + 4 : ~ Compiles(w, d, bin) BY <1>2, <1>4, <3>2 DEF Compiles
    <3>4. n + 2 \in 1 .. n + 4 BY <1>1
    <3> QED BY <2>2, <3>1, <3>3, <3>4 DEF LastCompiled
  <2>3. CASE f \in 1 .. n
    <3>1. \A d \in 1 .. f : w[d] = z[d] BY <1>1, <1>4, <2>3
    <3>2. w[f] = z[f] BY <1>4, <2>3
    <3>3. \A bn : \A d \in 1 .. f : Compiles(w, d, bn) <=> Compiles(z, d, bn)
          BY <3>1 DEF Compiles
    <3>4. ASSUME NEW bn, NEW ky, LastCompiled(z, f, bn, ky) PROVE LastCompiled(w, f, bn, ky)
      <4>1. PICK c \in 1 .. f : /\ Compiles(z, c, bn) /\ z[c].keys = ky
                               /\ \A d \in c + 1 .. f : ~ Compiles(z, d, bn)
            BY <3>4 DEF LastCompiled
      <4>2. \A d \in c + 1 .. f : d \in 1 .. f BY <1>1, <2>3, <4>1
      <4> QED BY <3>1, <3>3, <4>1, <4>2 DEF LastCompiled
    <3> QED BY <2>3, <3>2, <3>3, <3>4 DEF GoodClosing
  <2> QED BY <2>1, <2>2, <2>3
<1>11. FlashedIn(w) = FlashedIn(z) \cup {b}
  <2>1. \A i \in 1 .. Len(w) : w[i].op = "flash" => w[i].board \in FlashedIn(z) \cup {b}
        BY <1>2, <1>4, <1>5 DEF FlashedIn
  <2>2. \A i \in 1 .. n : z[i].op = "flash" => z[i].board \in FlashedIn(w)
    <3>1. \A i \in 1 .. n : i \in 1 .. Len(w) BY <1>1, <1>4
    <3> QED BY <1>4, <3>1 DEF FlashedIn
  <2>3. b \in FlashedIn(w)
    <3>1. n + 4 \in 1 .. Len(w) BY <1>1, <1>4
    <3> QED BY <1>2, <1>4, <3>1 DEF FlashedIn
  <2>4. FlashedIn(w) \subseteq FlashedIn(z) \cup {b} BY <2>1 DEF FlashedIn
  <2>5. FlashedIn(z) \subseteq FlashedIn(w) BY <2>2 DEF FlashedIn
  <2> QED BY <2>3, <2>4, <2>5
<1> QED BY <1>3, <1>6, <1>8, <1>9, <1>10, <1>11 DEF GoodClosing, w, m

\* Nothing is measured before the boards in use are flashed.
LEMMA ClosingMeasures ==
    ASSUME NEW a, NEW z, NEW used, GoodClosing(a, z, used), used \cap Atom \subseteq FlashedIn(z)
    PROVE  /\ GoodClosing(a, z \o <<Do("measure")>>, used)
           /\ FlashedIn(z \o <<Do("measure")>>) = FlashedIn(z)
<1> DEFINE m == <<Do("measure")>>
           w == z \o m
           n == Len(z)
<1>1. Ordered(z) /\ Ordered(m) /\ z \in Seq(Call) /\ m \in Seq(Call) /\ n \in Nat
      BY OrderedParts DEF GoodClosing, Ordered
<1>2. Len(m) = 1 /\ m[1].op = "measure" BY DEF Do
<1>3. Ordered(w) BY <1>1, OrderedConcat
<1> HIDE DEF m
<1>4. /\ w \in Seq(Call) /\ Len(w) = n + 1 /\ \A i \in 1 .. n : w[i] = z[i]
      /\ w[n + 1] = m[1]
  <2>1. /\ w \in Seq(Call) /\ Len(w) = Len(z) + Len(m)
        /\ \A i \in 1 .. Len(z) + Len(m) : w[i] = IF i <= Len(z) THEN z[i] ELSE m[i - Len(z)]
        BY <1>1, ConcatIs
  <2> HIDE DEF w
  <2> QED BY <1>1, <1>2, <2>1
<1> HIDE DEF w
<1>5. \A i \in 1 .. Len(w) : i \in 1 .. n \/ i = n + 1
      BY <1>1, <1>4
<1>6. \A i \in 1 .. Len(w) : w[i].op \in {"clean", "compile", "verify", "flash", "tap", "measure"}
      BY <1>2, <1>4, <1>5 DEF GoodClosing
<1>8. FlashesLast(w)
  <2> SUFFICES ASSUME NEW i \in 1 .. Len(w), NEW j \in 1 .. Len(w), w[i].op = "flash", i < j,
                      w[j].op \in {"flash", "silence"}
               PROVE  w[j].board # w[i].board
      BY DEF FlashesLast
  <2>1. i \in 1 .. n /\ j \in 1 .. n BY <1>2, <1>4, <1>5
  <2> QED BY <1>4, <2>1 DEF GoodClosing, FlashesLast
<1>9. \A k \in 1 .. Len(w) : w[k].op = "measure" =>
          \A c \in used \cap Atom : \E i \in 1 .. k - 1 : w[i].op = "flash" /\ w[i].board = c
  <2> SUFFICES ASSUME NEW k \in 1 .. Len(w), w[k].op = "measure", NEW c \in used \cap Atom
               PROVE  \E i \in 1 .. k - 1 : w[i].op = "flash" /\ w[i].board = c
      OBVIOUS
  <2>1. CASE k \in 1 .. n
    <3>1. PICK i \in 1 .. k - 1 : z[i].op = "flash" /\ z[i].board = c BY <1>4, <2>1 DEF GoodClosing
    <3>2. w[i] = z[i] BY <1>1, <1>4, <2>1
    <3> QED BY <3>1, <3>2
  <2>2. CASE k = n + 1
    <3>1. PICK i \in 1 .. n : z[i].op = "flash" /\ z[i].board = c BY DEF FlashedIn
    <3>2. i \in 1 .. k - 1 /\ w[i] = z[i] BY <1>1, <1>4, <2>2
    <3> QED BY <3>1, <3>2
  <2> QED BY <1>5, <2>1, <2>2
<1>10. \A f \in 1 .. Len(w) : w[f].op = "flash" =>
          \/ LastCompiled(w, f, w[f].bin, w[f].keys)
          \/ /\ LastCompiled(a, Len(a), w[f].bin, w[f].keys)
             /\ \A d \in 1 .. f : ~ Compiles(w, d, w[f].bin)
  <2> SUFFICES ASSUME NEW f \in 1 .. Len(w), w[f].op = "flash"
               PROVE  \/ LastCompiled(w, f, w[f].bin, w[f].keys)
                      \/ /\ LastCompiled(a, Len(a), w[f].bin, w[f].keys)
                         /\ \A d \in 1 .. f : ~ Compiles(w, d, w[f].bin)
      OBVIOUS
  <2>1. f \in 1 .. n BY <1>2, <1>4, <1>5
  <2>2. \A d \in 1 .. f : w[d] = z[d] BY <1>1, <1>4, <2>1
  <2>3. w[f] = z[f] BY <1>4, <2>1
  <2>4. \A bn : \A d \in 1 .. f : Compiles(w, d, bn) <=> Compiles(z, d, bn)
        BY <2>2 DEF Compiles
  <2>5. ASSUME NEW bn, NEW ky, LastCompiled(z, f, bn, ky) PROVE LastCompiled(w, f, bn, ky)
    <3>1. PICK c \in 1 .. f : /\ Compiles(z, c, bn) /\ z[c].keys = ky
                             /\ \A d \in c + 1 .. f : ~ Compiles(z, d, bn)
          BY <2>5 DEF LastCompiled
    <3>2. \A d \in c + 1 .. f : d \in 1 .. f BY <1>1, <2>1, <3>1
    <3> QED BY <2>2, <2>4, <3>1, <3>2 DEF LastCompiled
  <2> QED BY <2>1, <2>3, <2>4, <2>5 DEF GoodClosing
<1>11. FlashedIn(w) = FlashedIn(z)
  <2>1. \A i \in 1 .. Len(w) : w[i].op = "flash" => w[i].board \in FlashedIn(z)
        BY <1>2, <1>4, <1>5 DEF FlashedIn
  <2>2. \A i \in 1 .. n : z[i].op = "flash" => z[i].board \in FlashedIn(w)
    <3>1. \A i \in 1 .. n : i \in 1 .. Len(w) BY <1>1, <1>4
    <3> QED BY <1>4, <3>1 DEF FlashedIn
  <2>4. FlashedIn(w) \subseteq FlashedIn(z) BY <2>1 DEF FlashedIn
  <2>5. FlashedIn(z) \subseteq FlashedIn(w) BY <2>2 DEF FlashedIn
  <2> QED BY <2>4, <2>5
<1> QED BY <1>3, <1>6, <1>8, <1>9, <1>10, <1>11 DEF GoodClosing, w, m

\* The scripts of tests/ are good, for any session, board map and target.
LEMMA Scripts ==
    ASSUME NEW name \in Scenario, NEW s \in Session, name = "dos_floor" => Atom # {Target}
    PROVE  GoodScript(Calls(name, s), LockAt(name))
<1> DEFINE a == Opening(name, s)
           z == Closing(name, s)
           used == Used(name)
<1>1. /\ s \in Key /\ "fixed" \in Key /\ Atom \subseteq Key
      /\ Target \in Atom /\ S3 \notin Atom
      /\ {"s3", "gateway", "espnow", "l2cap"} \subseteq Bin \ {"uart"}
      BY FirmwareAssumption DEF Key, Bin
<1>2. GoodOpening(a, LockAt(name)) /\ GoodClosing(a, z, used)
  <2>1. CASE name = "soak"
    <3>1. a = <<Do("lock")>> \o Build("s3", s) /\ used = {S3}
          /\ z = FlashAndTap("s3", S3, s) \o <<Do("measure")>> /\ LockAt(name) = 1
          BY <2>1 DEF Opening, Closing, Used, LockAt
    <3> HIDE DEF a, z, used
    <3>2. GoodOpening(a, 1) /\ LastCompiled(a, Len(a), "s3", s) BY <1>1, <3>1, Openings
    <3>3. GoodClosing(a, z, used) BY <1>1, <3>1, <3>2, ShortClosing
    <3> QED BY <3>1, <3>2, <3>3
  <2>2. CASE name = "mcu_to_mcu"
    <3>1. a = Build("s3", "fixed") \o <<Do("lock")>> /\ used = {S3}
          /\ z = FlashAndTap("s3", S3, "fixed") \o <<Do("measure")>> /\ LockAt(name) = 4
          BY <2>2 DEF Opening, Closing, Used, LockAt
    <3> HIDE DEF a, z, used
    <3>2. GoodOpening(a, 4) /\ LastCompiled(a, Len(a), "s3", "fixed") BY <1>1, <3>1, Openings
    <3>3. GoodClosing(a, z, used) BY <1>1, <3>1, <3>2, ShortClosing
    <3> QED BY <3>1, <3>2, <3>3
  <2>3. CASE name = "l2cap"
    <3>1. a = Build("l2cap", "fixed") \o <<Do("lock")>> /\ used = {Target}
          /\ z = FlashAndTap("l2cap", Target, "fixed") \o <<Do("measure")>> /\ LockAt(name) = 4
          BY <2>3 DEF Opening, Closing, Used, LockAt
    <3> HIDE DEF a, z, used
    <3>2. GoodOpening(a, 4) /\ LastCompiled(a, Len(a), "l2cap", "fixed") BY <1>1, <3>1, Openings
    <3>3. GoodClosing(a, z, used) BY <1>1, <3>1, <3>2, ShortClosing
    <3> QED BY <3>1, <3>2, <3>3
  <2>4. ASSUME NEW bin \in Bin \ {"uart"}, NEW b \in Atom \cup {S3}, NEW keys \in Key, NEW out
        PROVE  /\ GoodClosing(a, Put(bin, b, keys), out)
               /\ FlashedIn(Put(bin, b, keys)) = {b}
    <3> HIDE DEF a
    <3>1. GoodClosing(a, << >>, out) /\ FlashedIn(<< >>) = {}
      <4>1. Ordered(<< >>) BY DEF Ordered
      <4>2. \A i \in 1 .. Len(<< >>) : FALSE OBVIOUS
      <4> HIDE DEF Ordered
      <4> QED BY <4>1, <4>2 DEF GoodClosing, FlashesLast, FlashedIn
    <3>2. << >> \o Put(bin, b, keys) = Put(bin, b, keys)
      <4>1. Put(bin, b, keys) \in Seq(Call) BY PutIs DEF Ordered
      <4> QED BY <4>1
    <3> DEFINE none == << >>
    <3>3. GoodClosing(a, none, out) /\ FlashedIn(none) = {} BY <3>1
    <3>4. none \o Put(bin, b, keys) = Put(bin, b, keys) BY <3>2
    <3> HIDE DEF none
    <3>5. /\ GoodClosing(a, none \o Put(bin, b, keys), out)
          /\ FlashedIn(none \o Put(bin, b, keys)) = FlashedIn(none) \cup {b}
          BY <3>3, ClosingPuts
    <3> QED BY <3>3, <3>4, <3>5
  <2>5. CASE name = "hybrid"
    <3>1. a = <<Do("lock")>> /\ used = {Target} /\ LockAt(name) = 1
          /\ z = (Put("gateway", Target, "fixed") \o Put("s3", S3, "fixed")) \o <<Do("measure")>>
          BY <2>5 DEF Opening, Closing, Used, LockAt
    <3> DEFINE y == Put("gateway", Target, "fixed")
               x == y \o Put("s3", S3, "fixed")
    <3>2. GoodOpening(a, 1)
      <4> HIDE DEF a
      <4> QED BY <1>1, <3>1, Openings
    <3>3. GoodClosing(a, y, used) /\ FlashedIn(y) = {Target} BY <1>1, <2>4
    <3> HIDE DEF a, z, used, y
    <3>4. GoodClosing(a, x, used) /\ FlashedIn(x) = {Target, S3}
          BY <1>1, <3>3, ClosingPuts
    <3> HIDE DEF x
    <3>5. z = x \o <<Do("measure")>> BY <3>1 DEF x, y
    <3>6. GoodClosing(a, z, used)
      <4>1. used \cap Atom \subseteq FlashedIn(x) BY <3>1, <3>4
      <4>2. GoodClosing(a, x \o <<Do("measure")>>, used) BY <3>4, <4>1, ClosingMeasures
      <4> QED BY <3>5, <4>2
    <3> QED BY <3>1, <3>2, <3>6
  <2>6. CASE name = "dos_floor"
    <3>1. a = <<Do("lock")>> /\ used = {Target} /\ LockAt(name) = 1
          /\ z = (((Put("s3", S3, "fixed") \o Put("espnow", Target, Target)) \o <<Do("measure")>>)
                    \o Put("espnow", Foreign, Foreign)) \o <<Do("measure")>>
          BY <2>6 DEF Opening, Closing, Used, LockAt
    <3>0. Foreign \in Atom /\ Foreign # Target
      <4>1. \E b \in Atom : b # Target BY <1>1, <2>6
      <4> QED BY <4>1 DEF Foreign
    <3> DEFINE y == Put("s3", S3, "fixed")
               x == y \o Put("espnow", Target, Target)
               v == x \o <<Do("measure")>>
               u == v \o Put("espnow", Foreign, Foreign)
    <3>2. GoodOpening(a, 1)
      <4> HIDE DEF a
      <4> QED BY <1>1, <3>1, Openings
    <3>3. GoodClosing(a, y, used) /\ FlashedIn(y) = {S3} BY <1>1, <2>4
    <3>7. z = u \o <<Do("measure")>> BY <3>1
    <3> HIDE DEF a, z, used, y
    <3>4. GoodClosing(a, x, used) /\ FlashedIn(x) = {S3, Target}
          BY <1>1, <3>3, ClosingPuts
    <3> HIDE DEF x
    <3>5. GoodClosing(a, v, used) /\ FlashedIn(v) = {S3, Target}
          BY <3>1, <3>4, ClosingMeasures
    <3> HIDE DEF v
    <3>6. GoodClosing(a, u, used) /\ FlashedIn(u) = {S3, Target, Foreign}
          BY <1>1, <3>0, <3>5, ClosingPuts
    <3> HIDE DEF u
    <3>8. GoodClosing(a, z, used)
      <4>1. used \cap Atom \subseteq FlashedIn(u) BY <3>1, <3>6
      <4>2. GoodClosing(a, u \o <<Do("measure")>>, used) BY <3>6, <4>1, ClosingMeasures
      <4> QED BY <3>7, <4>2
    <3> QED BY <3>1, <3>2, <3>8
  <2> QED BY <2>1, <2>2, <2>3, <2>5, <2>6 DEF Scenario
<1>3. Calls(name, s) = a \o Quiesce(used) \o z BY DEF Calls
<1> HIDE DEF a, z, used
<1> QED BY <1>2, <1>3, GoodWhole

-----------------------------------------------------------------------------
(* What the scenarios keep true *)

Image == [bin : Bin \cup {"none", "own", "other", "torn"}, by : Session \cup {Earlier},
          keys : Key \cup {Earlier}]

FirmwareTypeOK ==
    /\ test \in [Session -> Scenario] /\ \A s \in Session : test[s] \in Suite[s]
    /\ at \in [Session -> Nat \ {0}]
    /\ target \in [Bin -> Image] /\ cache \in [Atom -> Image] /\ fw \in [Boards -> Image]
    /\ taps \in [Boards -> SUBSET (Session \cup {Earlier})]
    /\ asked \in [Session -> (Boards \ {OffLimits}) \cup {Nobody}] /\ astray \subseteq Session

LEMMA TodoIs ==
    ASSUME FirmwareTypeOK, NEW s \in Session
    PROVE  Todo(s) = Calls(test[s], s) /\ GoodScript(Todo(s), LockAt(test[s]))
<1>1. test[s] \in Scenario /\ test[s] \in Suite[s] BY DEF FirmwareTypeOK
<1>2. Todo(s) = Calls(test[s], s) BY <1>1 DEF Todo, Script
<1>3. test[s] = "dos_floor" => Atom # {Target} BY <1>1, FirmwareAssumption
<1> QED BY <1>1, <1>2, <1>3, Scripts

\* The step at hand: a member of the script.
LEMMA StepIs ==
    ASSUME FirmwareTypeOK, NEW s \in Session, ~Finished(s)
    PROVE  /\ at[s] \in 1 .. Len(Todo(s)) /\ Len(Todo(s)) \in Nat
           /\ Step(s) = Todo(s)[at[s]] /\ Step(s) \in Call
<1>1. Todo(s) \in Seq(Call) BY TodoIs DEF GoodScript, Ordered
<1>2. at[s] \in Nat \ {0} BY DEF FirmwareTypeOK
<1>3. at[s] \in 1 .. Len(Todo(s)) BY <1>1, <1>2 DEF Finished
<1> QED BY <1>1, <1>3 DEF Step

LEMMA ImageIs ==
    /\ NoImage \in Image /\ Unknown \in Image /\ \A b : Left(b) \in Image
    /\ \A keys \in Key \cup {Earlier} : Torn(keys) \in Image
    /\ \A image \in Image, s \in Session :
          /\ Age(s, image) \in Image
          /\ Age(s, image).bin = image.bin
          /\ Age(s, image).by = IF image.by = s THEN Earlier ELSE image.by
          /\ Age(s, image).keys = IF image.keys = s THEN Earlier ELSE image.keys
BY DEF NoImage, Unknown, Own, Left, Torn, Age, Image

LEMMA NextScenarioType ==
    ASSUME FirmwareTypeOK, NEW s \in Session, NextScenario(s)
    PROVE  /\ test' \in [Session -> Scenario] /\ \A t \in Session : test'[t] \in Suite[t]
           /\ at' \in [Session -> Nat \ {0}]
           /\ target' \in [Bin -> Image] /\ cache' \in [Atom -> Image] /\ fw' \in [Boards -> Image]
           /\ \A t \in Session : t # s => test'[t] = test[t] /\ at'[t] = at[t]
           /\ at'[s] = 1
           /\ asked' \in [Session -> (Boards \ {OffLimits}) \cup {Nobody}] /\ astray' \subseteq Session
<1>1. PICK name \in Suite[s] : test' = [test EXCEPT ![s] = name] BY DEF NextScenario
<1>2. name \in Scenario BY FirmwareAssumption
<1>3. target' \in [Bin -> Image] BY ImageIs DEF FirmwareTypeOK, NextScenario
<1>4. fw' \in [Boards -> Image] BY ImageIs DEF FirmwareTypeOK, NextScenario
<1> QED BY <1>1, <1>2, <1>3, <1>4 DEF FirmwareTypeOK, NextScenario

\* Builds leave the boards alone, and everything of the right kind.
LEMMA BuildType ==
    ASSUME FirmwareTypeOK, NEW s \in Session, Clean(s) \/ Compile(s) \/ Verify(s)
    PROVE  FirmwareTypeOK'
<1>1. ~Finished(s) BY DEF Clean, Compile, Verify, At, Before, Inside
<1>2. at' \in [Session -> Nat \ {0}] /\ UNCHANGED <<test, cache, fw, taps>>
      BY DEF FirmwareTypeOK, Clean, Compile, Verify, Advance, Goes, bench
<1>6. asked' \in [Session -> (Boards \ {OffLimits}) \cup {Nobody}] /\ astray' \subseteq Session
      BY DEF FirmwareTypeOK, Clean, Compile, Verify, Advance, Goes
<1>3. CASE Clean(s)
  <2>1. target' \in [Bin -> Image] BY <1>3, ImageIs DEF Clean, FirmwareTypeOK
  <2> QED BY <1>2, <1>6, <2>1 DEF FirmwareTypeOK
<1>4. CASE Compile(s)
  <2>1. Step(s).op = "compile" BY <1>4 DEF Compile, At
  <2>2. Step(s).bin \in Bin /\ Step(s).keys \in Key
    <3>1. OrderedAt(Todo(s), at[s]) BY <1>1, StepIs, TodoIs DEF GoodScript, Ordered
    <3> QED BY <1>1, <2>1, <3>1, StepIs DEF OrderedAt, Call
  <2> DEFINE new == [bin |-> Step(s).bin, by |-> s, keys |-> Step(s).keys]
  <2>3. new \in Image BY <2>2 DEF Image
  <2> HIDE DEF new
  <2>4. target' = [target EXCEPT ![Step(s).bin] = IF @ = NoImage THEN new ELSE @]
        BY <1>4 DEF Compile, new
  <2>5. target' \in [Bin -> Image] BY <2>3, <2>4 DEF FirmwareTypeOK
  <2> QED BY <1>2, <1>6, <2>5 DEF FirmwareTypeOK
<1>5. CASE Verify(s) BY <1>2, <1>5, <1>6 DEF Verify, bench, FirmwareTypeOK
<1> QED BY <1>3, <1>4, <1>5

\* flash() writes to one board on the port it was given, or fails and ends
\* the test.
LEMMA FlashMoves ==
    ASSUME FirmwareTypeOK, NEW s \in Session, NEW image \in Image, FlashImage(s, image), ~Finished(s)
    PROVE  /\ UNCHANGED <<vars, test, target, cache>>
           /\ at' = [at EXCEPT ![s] = @ + 1] \/ at' = [at EXCEPT ![s] = Len(Todo(s)) + 1]
           /\ asked' = [asked EXCEPT ![s] = Nobody]
           /\ astray' = astray \/ astray' = astray \cup {s}
           /\ \E b \in Boards, other \in Image :
                fw' \in {fw, [fw EXCEPT ![b] = other]}
           /\ \E b \in Boards : taps' = [taps EXCEPT ![b] = {}]
<1>1. OnPort(Step(s).board) \subseteq Boards BY StepIs DEF Call, OnPort, Boards
<1>2. PICK cleared, b \in OnPort(Step(s).board) :
        /\ taps' = KillTaps(cleared)
        /\ astray' = IF cleared = asked[s] /\ b = asked[s] THEN astray ELSE astray \cup {s}
        /\ \/ /\ Flashable(image) /\ Advance(s, 1)
              /\ fw' = [fw EXCEPT ![b] = Written(s, b, image)]
           \/ /\ Flashable(image) /\ FlashFailed(s)
              /\ fw' = [fw EXCEPT ![b] = Written(s, b, Unknown)]
           \/ ~Flashable(image) /\ UNCHANGED fw /\ FlashFailed(s)
        /\ UNCHANGED <<target, cache>>
      BY DEF FlashImage
<1>3. Written(s, b, image) \in Image /\ Written(s, b, Unknown) \in Image
  <2>1. Unknown \in Image BY ImageIs
  <2> QED BY <2>1 DEF Written, Unknown, Image
<1>4. fw' \in {fw, [fw EXCEPT ![b] = Written(s, b, image)], [fw EXCEPT ![b] = Written(s, b, Unknown)]}
      BY <1>2
<1>5. Advance(s, 1) \/ FlashFailed(s) BY <1>2
<1>7. /\ UNCHANGED <<vars, test>> /\ asked' = [asked EXCEPT ![s] = Nobody]
      /\ at' = [at EXCEPT ![s] = @ + 1] \/ at' = [at EXCEPT ![s] = Len(Todo(s)) + 1]
      BY <1>5 DEF Advance, FlashFailed, EndTest, Goes
<1>8. \E c \in Boards : taps' = [taps EXCEPT ![c] = {}] BY <1>1, <1>2 DEF KillTaps
<1>9. b \in Boards BY <1>1
<1>10. \E c \in Boards, other \in Image : fw' \in {fw, [fw EXCEPT ![c] = other]}
  <2>1. CASE fw' \in {fw, [fw EXCEPT ![b] = Written(s, b, image)]} BY <1>3, <1>9, <2>1
  <2>2. CASE fw' = [fw EXCEPT ![b] = Written(s, b, Unknown)] BY <1>3, <1>9, <2>2
  <2> QED BY <1>4, <2>1, <2>2
<1> QED BY <1>2, <1>7, <1>8, <1>10

\* If its port kept its board, that is the one flash() was called for; the
\* taps on it are gone.
LEMMA FlashIs ==
    ASSUME FirmwareTypeOK, NEW s \in Session, NEW image \in Image, FlashImage(s, image), ~Finished(s),
           s \notin astray'
    PROVE  LET b == Step(s).board IN
           /\ b \in Atom \cup {S3} /\ taps' = [taps EXCEPT ![b] = {}]
           /\ \/ Flashable(image) /\ fw' = [fw EXCEPT ![b] = image]
              \/ at' = [at EXCEPT ![s] = Len(Todo(s)) + 1]
<1>1. Step(s).board \in Atom \cup {S3} BY StepIs DEF Call
<1>2. PICK cleared, b \in OnPort(Step(s).board) :
        /\ taps' = KillTaps(cleared)
        /\ astray' = IF cleared = asked[s] /\ b = asked[s] THEN astray ELSE astray \cup {s}
        /\ \/ /\ Flashable(image) /\ Advance(s, 1)
              /\ fw' = [fw EXCEPT ![b] = Written(s, b, image)]
           \/ FlashFailed(s)
      BY DEF FlashImage
<1>3. cleared = asked[s] /\ b = asked[s] BY <1>2
<1>4. asked[s] # OffLimits BY FirmwareAssumption DEF FirmwareTypeOK, Boards
<1>5. b = Step(s).board /\ cleared = b /\ b # OffLimits BY <1>2, <1>3, <1>4 DEF OnPort
<1>6. taps' = [taps EXCEPT ![b] = {}] BY <1>2, <1>5 DEF KillTaps
<1>7. Written(s, b, image) = image BY <1>5 DEF Written
<1> QED BY <1>1, <1>2, <1>5, <1>6, <1>7 DEF FlashFailed, EndTest, Goes

\* The registry answers for a board it permits.
LEMMA AskIs ==
    ASSUME FirmwareTypeOK, NEW s \in Session, Ask(s)
    PROVE  FirmwareTypeOK' /\ UNCHANGED <<vars, test, at, target, cache, fw, taps, astray>>
<1>1. ~Finished(s) BY DEF Ask, At, Before, Inside
<1>2. OnPort(Step(s).board) \subseteq Boards BY <1>1, StepIs DEF Call, OnPort, Boards
<1>3. asked' \in [Session -> (Boards \ {OffLimits}) \cup {Nobody}]
      BY <1>2 DEF Ask, Permitted, FirmwareTypeOK
<1> QED BY <1>3 DEF Ask, bench, FirmwareTypeOK

LEMMA FlashType ==
    ASSUME FirmwareTypeOK, NEW s \in Session, Flash(s) \/ Silence(s)
    PROVE  FirmwareTypeOK'
<1>0. ~Finished(s) BY DEF Flash, Silence, At, Before, Inside
<1>1. ASSUME NEW image \in Image, FlashImage(s, image) PROVE FirmwareTypeOK'
  <2>1. /\ UNCHANGED <<vars, test, target, cache>>
        /\ at' = [at EXCEPT ![s] = @ + 1] \/ at' = [at EXCEPT ![s] = Len(Todo(s)) + 1]
        /\ asked' = [asked EXCEPT ![s] = Nobody]
        /\ astray' = astray \/ astray' = astray \cup {s}
        /\ \E b \in Boards, other \in Image : fw' \in {fw, [fw EXCEPT ![b] = other]}
        /\ \E b \in Boards : taps' = [taps EXCEPT ![b] = {}]
        BY <1>0, <1>1, FlashMoves
  <2>2. Len(Todo(s)) \in Nat BY <1>0, StepIs
  <2>4. at' \in [Session -> Nat \ {0}]
    <3>1. at[s] + 1 \in Nat \ {0} /\ Len(Todo(s)) + 1 \in Nat \ {0} BY <2>2 DEF FirmwareTypeOK
    <3> QED BY <2>1, <3>1 DEF FirmwareTypeOK
  <2>5. fw' \in [Boards -> Image] BY <2>1 DEF FirmwareTypeOK
  <2>6. taps' \in [Boards -> SUBSET (Session \cup {Earlier})] BY <2>1 DEF FirmwareTypeOK
  <2>7. asked' \in [Session -> (Boards \ {OffLimits}) \cup {Nobody}] /\ astray' \subseteq Session
        BY <2>1 DEF FirmwareTypeOK
  <2> QED BY <2>1, <2>4, <2>5, <2>6, <2>7 DEF FirmwareTypeOK
<1>2. OrderedAt(Todo(s), at[s]) BY <1>0, StepIs, TodoIs DEF GoodScript, Ordered
<1>3. CASE Flash(s)
  <2>1. Step(s).bin \in Bin BY <1>0, <1>2, <1>3, StepIs DEF OrderedAt, Flash, At
  <2> QED BY <1>1, <1>3, <2>1 DEF Flash, FirmwareTypeOK
<1>4. CASE Silence(s)
  <2>1. Step(s).board \in Atom BY <1>0, <1>2, <1>4, StepIs DEF OrderedAt, Silence, At
  <2>2. cache[Step(s).board] \in Image BY <2>1 DEF FirmwareTypeOK
  <2>3. [cache[Step(s).board] EXCEPT !.by = s] \in Image BY <2>2 DEF Image
  <2> QED BY <1>1, <1>4, <2>3 DEF Silence
<1> QED BY <1>3, <1>4

LEMMA WorkType ==
    ASSUME FirmwareTypeOK, NEW s \in Session,
           Lookup(s) \/ Open(s) \/ Store(s) \/ Tap(s) \/ Measure(s) \/ StepRaises(s)
    PROVE  FirmwareTypeOK'
<1>0. ~Finished(s) BY DEF Lookup, Open, Store, Tap, Measure, StepRaises, At, Before, Inside
<1>1. OrderedAt(Todo(s), at[s]) /\ Len(Todo(s)) \in Nat /\ Step(s) = Todo(s)[at[s]] /\ Step(s) \in Call
      BY <1>0, StepIs, TodoIs DEF GoodScript, Ordered
<1>2. at' \in [Session -> Nat \ {0}] /\ UNCHANGED <<test, target, fw>>
      BY <1>1 DEF FirmwareTypeOK, Lookup, Open, Store, Tap, Measure, StepRaises, Advance, EndTest,
         Goes, AfterBuild, bench
<1>3. cache' \in [Atom -> Image]
  <2>1. CASE Open(s)
    <3>1. target["uart"].keys \in Key \cup {Earlier} BY DEF FirmwareTypeOK, Image, Bin
    <3>2. Torn(target["uart"].keys) \in Image BY <3>1, ImageIs
    <3> QED BY <2>1, <3>2 DEF Open, FirmwareTypeOK
  <2>2. CASE Store(s)
    <3>1. Step(s).board \in Atom BY <1>1, <2>2 DEF OrderedAt, Store, At
    <3>2. cache' = [cache EXCEPT ![Step(s).board] = [cache[Step(s).board] EXCEPT !.bin = "uart"]]
          BY <2>2 DEF Store
    <3>4. cache[Step(s).board] \in Image BY <3>1 DEF FirmwareTypeOK
    <3>3. [cache[Step(s).board] EXCEPT !.bin = "uart"] \in Image BY <3>4 DEF Image, Bin
    <3> QED BY <3>2, <3>3 DEF FirmwareTypeOK
  <2>3. CASE UNCHANGED cache BY <2>3 DEF FirmwareTypeOK
  <2> QED BY <2>1, <2>2, <2>3 DEF Lookup, Tap, Measure, StepRaises, bench
<1>4. taps' \in [Boards -> SUBSET (Session \cup {Earlier})]
      BY DEF FirmwareTypeOK, Lookup, Open, Store, Tap, Measure, StepRaises, bench
<1>5. asked' \in [Session -> (Boards \ {OffLimits}) \cup {Nobody}] /\ astray' \subseteq Session
      BY DEF FirmwareTypeOK, Lookup, Open, Store, Tap, Measure, StepRaises, Advance, EndTest, Goes
<1> QED BY <1>2, <1>3, <1>4, <1>5 DEF FirmwareTypeOK

LEMMA LockType ==
    ASSUME FirmwareTypeOK, NEW s \in Session,
           Acquire(s) \/ Finally(s) \/ Release(s) \/ Proceed(s) \/ Killed(s)
    PROVE  FirmwareTypeOK'
<1>1. CASE UNCHANGED fwVars BY <1>1 DEF fwVars, bench, FirmwareTypeOK
<1>2. CASE Acquire(s) BY <1>1, <1>2 DEF Acquire, bench, FirmwareTypeOK
<1>3. CASE Finally(s) BY <1>3 DEF Finally, FirmwareTypeOK
<1>4. CASE NextScenario(s) /\ UNCHANGED taps BY <1>4, NextScenarioType DEF FirmwareTypeOK
<1>5. CASE Killed(s)
  <2>1. taps' \in [Boards -> SUBSET (Session \cup {Earlier})] BY <1>5 DEF Killed, FirmwareTypeOK
  <2>2. NextScenario(s) BY <1>5 DEF Killed
  <2> QED BY <2>1, <2>2, NextScenarioType DEF FirmwareTypeOK
<1> QED BY <1>1, <1>2, <1>3, <1>4, <1>5 DEF Release, Proceed

LEMMA ElsewhereType ==
    ASSUME FirmwareTypeOK, NEW c \in Consumer, Elsewhere(c)
    PROVE  FirmwareTypeOK'
<1>1. CASE UNCHANGED fwVars BY <1>1 DEF fwVars, bench, FirmwareTypeOK
<1>2. CASE UNCHANGED <<test, at, target, cache, taps, asked, astray>>
  <2>1. PICK b \in Boards : UNCHANGED fw \/ fw' = [fw EXCEPT ![b] = Unknown]
    <3>1. S3 \in Boards BY DEF Boards
    <3> QED BY <1>2, <3>1 DEF Elsewhere, fwVars, bench
  <2>2. fw' \in [Boards -> Image] BY <2>1, ImageIs DEF FirmwareTypeOK
  <2> QED BY <1>2, <2>2 DEF FirmwareTypeOK
<1> QED BY <1>1, <1>2 DEF Elsewhere

-----------------------------------------------------------------------------
(* Where a session is, and what the others leave alone *)

\* In front of the lock, at it or behind it, as its script has it.
PlaceInv(s) ==
    ~Finished(s) =>
        /\ pc[s] \in {"first", "locked"} => at[s] = LockAt(test[s])
        /\ pc[s] = "out" => at[s] <= LockAt(test[s])
        /\ pc[s] = "using" => at[s] > LockAt(test[s])

LEMMA BeforeIs ==
    ASSUME FirmwareTypeOK, NEW s \in Session, PlaceInv(s), Before(s)
    PROVE  /\ at[s] < LockAt(test[s]) /\ Step(s).bin # "uart"
           /\ Step(s).op \in {"clean", "compile", "verify"}
<1>1. ~Finished(s) /\ pc[s] = "out" /\ Step(s).op # "lock" BY DEF Before, Locking
<1>2. /\ LocksOnce(Todo(s), LockAt(test[s])) /\ at[s] \in 1 .. Len(Todo(s)) /\ Len(Todo(s)) \in Nat
      /\ Step(s) = Todo(s)[at[s]]
      BY <1>1, StepIs, TodoIs DEF GoodScript
<1>3. at[s] <= LockAt(test[s]) BY <1>1 DEF PlaceInv
<1>4. at[s] # LockAt(test[s]) BY <1>1, <1>2 DEF LocksOnce
<1>5. LockAt(test[s]) \in Nat BY DEF LockAt
<1> QED BY <1>2, <1>3, <1>4, <1>5 DEF LocksOnce

LEMMA InsideIs ==
    ASSUME FirmwareTypeOK, NEW s \in Session, PlaceInv(s), Inside(s)
    PROVE  /\ at[s] > LockAt(test[s]) /\ at[s] \in 1 .. Len(Todo(s)) /\ Len(Todo(s)) \in Nat
           /\ Step(s) = Todo(s)[at[s]] /\ Step(s).op # "lock"
<1>1. ~Finished(s) /\ pc[s] = "using" BY DEF Inside
<1>2. /\ LocksOnce(Todo(s), LockAt(test[s])) /\ at[s] \in 1 .. Len(Todo(s)) /\ Len(Todo(s)) \in Nat
      /\ Step(s) = Todo(s)[at[s]]
      BY <1>1, StepIs, TodoIs DEF GoodScript
<1>3. at[s] > LockAt(test[s]) BY <1>1 DEF PlaceInv
<1>4. LockAt(test[s]) \in Nat BY DEF LockAt
<1> QED BY <1>2, <1>3, <1>4 DEF LocksOnce

\* What a step of the work does to the session's own place.
Advances(s, n) ==
    /\ at' = [at EXCEPT ![s] = @ + n] /\ UNCHANGED <<vars, test>>
Ends(s) ==
    /\ at' = [at EXCEPT ![s] = Len(Todo(s)) + 1] /\ UNCHANGED <<vars, test>>

Work(s) ==
    \/ Clean(s) \/ Compile(s) \/ Verify(s) \/ Lookup(s) \/ Open(s) \/ Store(s)
    \/ Flash(s) \/ Silence(s) \/ Tap(s) \/ Measure(s) \/ StepRaises(s)

\* A step that does more than ask the registry.
Moves(s) == ScenarioNext(s) /\ ~Ask(s)

LEMMA ImageOfFlash ==
    ASSUME FirmwareTypeOK, NEW s \in Session, Flash(s) \/ Silence(s)
    PROVE  \/ /\ Flash(s) /\ target[Step(s).bin] \in Image /\ FlashImage(s, target[Step(s).bin])
              /\ Step(s).bin \in Bin \ {"uart"}
           \/ /\ Silence(s) /\ Step(s).board \in Atom
              /\ [cache[Step(s).board] EXCEPT !.by = s] \in Image
              /\ FlashImage(s, [cache[Step(s).board] EXCEPT !.by = s])
<1>0. ~Finished(s) BY DEF Flash, Silence, At, Before, Inside
<1>1. OrderedAt(Todo(s), at[s]) BY <1>0, StepIs, TodoIs DEF GoodScript, Ordered
<1>2. CASE Flash(s)
  <2>1. Step(s).bin \in Bin \ {"uart"} BY <1>0, <1>1, <1>2, StepIs DEF OrderedAt, Flash, At
  <2> QED BY <1>2, <2>1 DEF Flash, FirmwareTypeOK
<1>3. CASE Silence(s)
  <2>1. Step(s).board \in Atom BY <1>0, <1>1, <1>3, StepIs DEF OrderedAt, Silence, At
  <2>2. cache[Step(s).board] \in Image BY <2>1 DEF FirmwareTypeOK
  <2>3. [cache[Step(s).board] EXCEPT !.by = s] \in Image BY <2>2 DEF Image
  <2> QED BY <1>3, <2>1, <2>3 DEF Silence
<1> QED BY <1>2, <1>3

LEMMA WorkMoves ==
    ASSUME FirmwareTypeOK, NEW s \in Session, Work(s)
    PROVE  /\ Before(s) \/ Inside(s)
           /\ Advances(s, 1) \/ (Lookup(s) /\ Advances(s, 6)) \/ Ends(s)
<1>1. Before(s) \/ Inside(s)
      BY DEF Work, Clean, Compile, Verify, Lookup, Open, Store, Flash, Silence, Tap, Measure,
         StepRaises, At
<1>2. ~Finished(s) BY <1>1 DEF Before, Inside
<1>3. CASE Flash(s) \/ Silence(s)
  <2>1. PICK image \in Image : FlashImage(s, image) BY <1>3, ImageOfFlash
  <2>2. /\ UNCHANGED <<vars, test>>
        /\ at' = [at EXCEPT ![s] = @ + 1] \/ at' = [at EXCEPT ![s] = Len(Todo(s)) + 1]
        BY <1>2, <2>1, FlashMoves
  <2> QED BY <1>1, <2>2 DEF Advances, Ends
<1>4. CASE \/ Clean(s) \/ Compile(s) \/ Verify(s) \/ Open(s) \/ Store(s)
           \/ Tap(s) \/ Measure(s)
  <2>1. Advances(s, 1)
        BY <1>4 DEF Clean, Compile, Verify, Open, Store, Tap, Measure, Advance, Goes, Advances
  <2> QED BY <1>1, <2>1
<1>5. CASE StepRaises(s) BY <1>1, <1>5 DEF StepRaises, EndTest, Goes, Ends
<1>6. CASE Lookup(s)
  <2>1. PICK hit \in CacheHit(Step(s).board) : Advance(s, IF hit THEN AfterBuild ELSE 1)
        BY <1>6 DEF Lookup
  <2> QED BY <1>1, <1>6, <2>1 DEF Advance, Goes, Advances, AfterBuild
<1> QED BY <1>3, <1>4, <1>5, <1>6 DEF Work

LEMMA SameScript ==
    ASSUME NEW s \in Session, test'[s] = test[s], at'[s] = at[s]
    PROVE  /\ Todo(s)' = Todo(s) /\ Finished(s)' = Finished(s) /\ Step(s)' = Step(s)
BY DEF Todo, Finished, Step

\* A step of one session does not move another.
LEMMA OthersStay ==
    ASSUME LockInv, FirmwareTypeOK, NEW t \in Session, Moves(t), NEW s \in Session, s # t
    PROVE  /\ at'[s] = at[s] /\ test'[s] = test[s] /\ pc'[s] = pc[s]
<1> USE DEF LockInv, TypeOK, FirmwareTypeOK
<1>1. CASE Work(t)
  <2>1. Advances(t, 1) \/ Advances(t, 6) \/ Ends(t) BY <1>1, WorkMoves
  <2> QED BY <2>1 DEF Advances, Ends, vars
<1>3. CASE Acquire(t) BY <1>3 DEF Acquire, TakePart, AcquireRaises, Announce, Goto, fwVars, bench
<1>4. CASE Finally(t) BY <1>4 DEF Finally, EndSession, FinallyRaises, Goto
<1>5. NextScenario(t) => at'[s] = at[s] /\ test'[s] = test[s] BY NextScenarioType
<1>6. CASE Release(t) BY <1>5, <1>6 DEF Release, FreePart, FinallyRaises, Goto, fwVars
<1>7. CASE Proceed(t) BY <1>5, <1>7 DEF Proceed, NextTest, Goto, vars
<1>8. CASE Killed(t) BY <1>5, <1>8 DEF Killed, Exit, Goto
<1> QED BY <1>1, <1>3, <1>4, <1>6, <1>7, <1>8 DEF Moves, ScenarioNext, Work

LEMMA PlaceOwn ==
    ASSUME LockInv, FirmwareTypeOK, NEW s \in Session, PlaceInv(s), Moves(s)
    PROVE  PlaceInv(s)'
<1> DEFINE l == LockAt(test[s])
<1>0. /\ l \in Nat \ {0} /\ at[s] \in Nat \ {0} /\ Len(Todo(s)) \in Nat
      /\ pc \in [Session \cup Consumer -> Steps]
  <2>1. Todo(s) \in Seq(Call) BY TodoIs DEF GoodScript, Ordered
  <2> QED BY <2>1 DEF LockAt, FirmwareTypeOK, LockInv, TypeOK
<1>1. CASE Work(s)
  <2>1. test'[s] = test[s] /\ pc'[s] = pc[s] /\ Todo(s)' = Todo(s)
    <3>1. UNCHANGED <<vars, test>> BY <1>1, WorkMoves DEF Advances, Ends
    <3> QED BY <3>1 DEF vars, Todo
  <2>2. CASE Ends(s)
    <3>1. Finished(s)' BY <1>0, <2>1, <2>2 DEF Ends, Finished, FirmwareTypeOK
    <3> QED BY <3>1 DEF PlaceInv
  <2>3. CASE Before(s) /\ ~Ends(s)
    <3>1. at[s] < l /\ ~Lookup(s) BY <2>3, BeforeIs DEF Lookup, At
    <3>2. at'[s] = at[s] + 1 BY <1>1, <2>3, <3>1, WorkMoves DEF Advances, FirmwareTypeOK
    <3>3. pc[s] = "out" BY <2>3 DEF Before
    <3> QED BY <1>0, <2>1, <3>1, <3>2, <3>3 DEF PlaceInv
  <2>4. CASE Inside(s) /\ ~Ends(s)
    <3>1. at[s] > l BY <2>4, InsideIs
    <3>2. at'[s] \in Nat /\ at'[s] > at[s]
          BY <1>0, <1>1, <2>4, WorkMoves DEF Advances, FirmwareTypeOK
    <3>3. pc[s] = "using" BY <2>4 DEF Inside
    <3> QED BY <1>0, <2>1, <3>1, <3>2, <3>3 DEF PlaceInv
  <2> QED BY <1>1, <2>2, <2>3, <2>4, WorkMoves
<1>2. CASE Acquire(s)
  <2>1. ~Finished(s) /\ Step(s).op = "lock" BY <1>2 DEF Acquire, Locking
  <2>2. at[s] = l BY <2>1, StepIs, TodoIs DEF GoodScript, LocksOnce
  <2>3. CASE UNCHANGED fwVars
    <3>1. at'[s] = l /\ test'[s] = test[s] BY <2>2, <2>3 DEF fwVars
    <3>2. pc'[s] \in {"first", "locked", "failed"} \/ Announce(s)
          BY <1>0, <1>2 DEF Acquire, TakePart, AcquireRaises, Goto
    <3>3. Announce(s) => at' = [at EXCEPT ![s] = @ + 1]
      <4>1. CASE Announce(s)
        <5>1. pc[s] = "locked" BY <4>1 DEF Announce
        <5>2. pc'[s] = "using" BY <1>0, <4>1 DEF Announce, Goto
        <5>3. ~ (TakePart(s, 1, "out", "first") \/ TakePart(s, 2, "first", "locked"))
              BY <5>1 DEF TakePart
        <5>4. ~ AcquireRaises(s) BY <1>0, <5>2 DEF AcquireRaises, Goto
        <5> QED BY <1>2, <5>3, <5>4 DEF Acquire
      <4> QED BY <4>1
    <3>4. ~ Announce(s) BY <1>0, <2>2, <3>1, <3>3 DEF FirmwareTypeOK
    <3> QED BY <1>0, <3>1, <3>2, <3>4 DEF PlaceInv
  <2>4. CASE Announce(s) /\ at' = [at EXCEPT ![s] = @ + 1] /\ UNCHANGED test
    <3>1. pc'[s] = "using" /\ at'[s] = l + 1 /\ test'[s] = test[s]
          BY <1>0, <2>2, <2>4 DEF Announce, Goto, FirmwareTypeOK
    <3> QED BY <1>0, <3>1 DEF PlaceInv
  <2> QED BY <1>2, <2>3, <2>4 DEF Acquire
<1>3. CASE Finally(s)
  <2>1. pc'[s] \in {"ended", "failed"} BY <1>0, <1>3 DEF Finally, EndSession, FinallyRaises, Goto
  <2> QED BY <2>1 DEF PlaceInv
<1>4. NextScenario(s) => (pc'[s] = "out" => PlaceInv(s)')
  <2>1. NextScenario(s) => at'[s] = 1 BY NextScenarioType
  <2>2. LockAt(test[s])' >= 1 BY DEF LockAt
  <2> QED BY <2>1, <2>2 DEF PlaceInv
<1>5. CASE Release(s)
  <2>1. pc'[s] \in {"unhanded", "failed"} \/ (pc'[s] = "out" /\ NextScenario(s))
        BY <1>0, <1>5 DEF Release, FreePart, FinallyRaises, Goto
  <2> QED BY <1>4, <2>1 DEF PlaceInv
<1>6. CASE Proceed(s)
  <2>1. pc'[s] = "out" /\ NextScenario(s) BY <1>0, <1>6 DEF Proceed, NextTest, Goto, vars
  <2> QED BY <1>4, <2>1
<1>7. CASE Killed(s)
  <2>1. pc'[s] = "out" /\ NextScenario(s) BY <1>0, <1>7 DEF Killed, Exit, Goto
  <2> QED BY <1>4, <2>1
<1> QED BY <1>1, <1>2, <1>3, <1>5, <1>6, <1>7 DEF Moves, ScenarioNext, Work

LEMMA PlaceOther ==
    ASSUME LockInv, FirmwareTypeOK, NEW t \in Session, Moves(t), NEW s \in Session, s # t,
           PlaceInv(s)
    PROVE  PlaceInv(s)'
BY OthersStay, SameScript DEF PlaceInv

\* Two sessions are never inside together, nor is one with a consumer.
LEMMA Alone ==
    ASSUME LockInv, NEW s \in Session, pc[s] = "using"
    PROVE  /\ \A t \in Session : pc[t] = "using" => t = s
           /\ \A c \in Consumer : pc[c] # "using"
BY LockAssumption DEF LockInv, HoldingInv, ConsumerInv

\* While a session is inside, the others leave the cached images alone, and
\* the boards and taps that are not theirs.
LEMMA OtherStep ==
    ASSUME LockInv, FirmwareTypeOK, NEW t \in Session, Moves(t), PlaceInv(t), pc[t] # "using"
    PROVE  /\ cache' = cache
           /\ \A b \in Boards : fw[b].by # t => fw'[b] = fw[b]
           /\ \A b \in Boards : t \notin taps[b] => taps'[b] = taps[b]
<1>1. CASE UNCHANGED <<cache, fw, taps>> BY <1>1
<1>2. CASE Work(t)
  <2>1. Before(t) BY <1>2, WorkMoves DEF Inside
  <2>2. Step(t).op \in {"clean", "compile", "verify"} BY <2>1, BeforeIs
  <2>3. Clean(t) \/ Compile(t) \/ Verify(t) \/ StepRaises(t)
        BY <1>2, <2>2 DEF Work, Lookup, Open, Store, Flash, Silence, Tap, Measure, At
  <2> QED BY <1>1, <2>3 DEF Clean, Compile, Verify, StepRaises
<1>3. CASE Acquire(t) BY <1>1, <1>3 DEF Acquire, fwVars
<1>4. ~Finally(t) BY DEF Finally
<1>5. NextScenario(t) => cache' = cache /\ \A b \in Boards : fw[b].by # t => fw'[b] = fw[b]
      BY DEF NextScenario
<1>6. CASE Release(t) BY <1>1, <1>5, <1>6 DEF Release, fwVars
<1>7. CASE Proceed(t) BY <1>5, <1>7 DEF Proceed
<1>8. CASE Killed(t)
  <2>1. \A b \in Boards : t \notin taps[b] => taps'[b] = taps[b] BY <1>8 DEF Killed
  <2> QED BY <1>5, <1>8, <2>1 DEF Killed
<1> QED BY <1>2, <1>3, <1>4, <1>6, <1>7, <1>8 DEF Moves, ScenarioNext, Work

\* An image in target/ is replaced by one compiled where there is none, is
\* removed, or grows old.
LEMMA TargetStep ==
    ASSUME FirmwareTypeOK, NEW t \in Session, Moves(t), NEW bin \in Bin
    PROVE  \/ target'[bin] \in {target[bin], NoImage}
           \/ NextScenario(t) /\ target'[bin] = Age(t, target[bin])
           \/ /\ Compile(t) /\ Step(t).bin = bin /\ target[bin] = NoImage
              /\ target'[bin] = [bin |-> bin, by |-> t, keys |-> Step(t).keys]
<1>1. CASE UNCHANGED target BY <1>1
<1>2. CASE Clean(t) BY <1>2 DEF Clean
<1>3. CASE Compile(t)
  <2> DEFINE new == [bin |-> Step(t).bin, by |-> t, keys |-> Step(t).keys]
  <2>1. target' = [target EXCEPT ![Step(t).bin] = IF @ = NoImage THEN new ELSE @]
        BY <1>3 DEF Compile
  <2> HIDE DEF new
  <2>2. \/ target'[bin] = target[bin]
        \/ Step(t).bin = bin /\ target[bin] = NoImage /\ target'[bin] = new
        BY <2>1 DEF FirmwareTypeOK
  <2> QED BY <1>3, <2>2 DEF new
<1>4. CASE Verify(t) \/ Lookup(t) \/ Open(t) \/ Store(t) \/ Tap(t) \/ Measure(t) \/ StepRaises(t)
      BY <1>1, <1>4 DEF Verify, Lookup, Open, Store, Tap, Measure, StepRaises
<1>5. CASE Flash(t) \/ Silence(t) BY <1>1, <1>5 DEF Flash, Silence, FlashImage
<1>6. CASE Acquire(t) \/ Finally(t) BY <1>1, <1>6 DEF Acquire, Finally, fwVars
<1>7. NextScenario(t) => target'[bin] = Age(t, target[bin]) BY DEF NextScenario
<1>8. CASE Release(t) \/ Proceed(t) \/ Killed(t)
      BY <1>1, <1>7, <1>8 DEF Release, Proceed, Killed, fwVars
<1> QED BY <1>2, <1>3, <1>4, <1>5, <1>6, <1>8 DEF Moves, ScenarioNext

\* A session goes astray by its own flash only, and until its next test.
LEMMA AstrayStep ==
    ASSUME FirmwareTypeOK, NEW t \in Session, Moves(t)
    PROVE  \/ astray' = astray \/ astray' = astray \cup {t}
           \/ NextScenario(t) /\ astray' = astray \ {t}
<1>1. CASE UNCHANGED astray BY <1>1
<1>2. CASE \/ Clean(t) \/ Compile(t) \/ Verify(t) \/ Lookup(t) \/ Open(t) \/ Store(t)
           \/ Tap(t) \/ Measure(t) \/ StepRaises(t)
      BY <1>1, <1>2 DEF Clean, Compile, Verify, Lookup, Open, Store, Tap, Measure, StepRaises
<1>3. CASE Flash(t) \/ Silence(t)
  <2>1. PICK image \in Image : FlashImage(t, image) BY <1>3, ImageOfFlash
  <2>2. ~Finished(t) BY <1>3 DEF Flash, Silence, At, Before, Inside
  <2> QED BY <2>1, <2>2, FlashMoves
<1>4. CASE Acquire(t) \/ Finally(t) BY <1>1, <1>4 DEF Acquire, Finally, fwVars
<1>5. CASE Release(t) \/ Proceed(t) \/ Killed(t)
  <2>1. NextScenario(t) => astray' = astray \ {t} BY DEF NextScenario
  <2> QED BY <1>1, <1>5, <2>1 DEF Release, Proceed, Killed, fwVars
<1> QED BY <1>2, <1>3, <1>4, <1>5 DEF Moves, ScenarioNext

-----------------------------------------------------------------------------
(* What a session inside has ready *)

\* A cached image is whole, or known to be torn.
CacheInv == \A b \in Atom : cache[b].bin \in {"none", "torn", "uart"}

\* What the step at hand finds: the build of the board it is about, the
\* cached image with the board's own key, the console that nobody reads.
NowInv(s) ==
    Inside(s) =>
        /\ Step(s).op = "open" =>
              target["uart"] = NoImage \/ target["uart"].keys = Step(s).board
        /\ Step(s).op \in {"store", "silence"} => cache[Step(s).board].keys = Step(s).board
        /\ Step(s).op = "tap" /\ s \notin astray => taps[Step(s).board] = {}

\* What its calls so far have left on the boards, if they found them.
Flashes(w, n, b) == \E j \in 1 .. n : w[j].op = "flash" /\ w[j].board = b
Silent(s, b) == [bin |-> "uart", by |-> s, keys |-> b]

DoneInv(s) ==
    Inside(s) /\ s \notin astray => \A i \in 1 .. at[s] - 1 :
        /\ Todo(s)[i].op = "tap" => taps[Todo(s)[i].board] = {s}
        /\ Todo(s)[i].op = "silence" /\ ~ Flashes(Todo(s), at[s] - 1, Todo(s)[i].board) =>
              fw[Todo(s)[i].board] = Silent(s, Todo(s)[i].board)

\* A session is inside because the lock was announced, or was inside before.
LEMMA InsideStep ==
    ASSUME LockInv, FirmwareTypeOK, NEW s \in Session, PlaceInv(s), Moves(s), Inside(s)'
    PROVE  /\ Todo(s)' = Todo(s) /\ Len(Todo(s)) \in Nat /\ at[s] \in 1 .. Len(Todo(s))
           /\ GoodScript(Todo(s), LockAt(test[s])) /\ astray \subseteq astray'
           /\ \/ /\ at[s] = LockAt(test[s]) /\ at'[s] = at[s] + 1
                 /\ UNCHANGED <<target, cache, fw, taps>>
              \/ /\ Inside(s) /\ Work(s) /\ ~StepRaises(s)
                 /\ at'[s] = at[s] + 1 \/ (Lookup(s) /\ at'[s] = at[s] + 6)
                 /\ at'[s] \in 1 .. Len(Todo(s)) /\ Step(s)' = Todo(s)[at'[s]]
<1>0. pc'[s] = "using" /\ ~Finished(s)' BY DEF Inside
<1>1. pc \in [Session \cup Consumer -> Steps] /\ at \in [Session -> Nat \ {0}]
      BY DEF LockInv, TypeOK, FirmwareTypeOK
<1>3. ~Finally(s) BY <1>0, <1>1 DEF Finally, EndSession, FinallyRaises, Goto
<1>4. ~Release(s) BY <1>0, <1>1 DEF Release, FreePart, FinallyRaises, Goto
<1>5. ~Proceed(s) BY <1>0, <1>1 DEF Proceed, NextTest, Goto, vars
<1>6. ~Killed(s) BY <1>0, <1>1 DEF Killed, Exit, Goto
<1>7. CASE Acquire(s)
  <2>1. ~Finished(s) /\ Step(s).op = "lock" BY <1>7 DEF Acquire, Locking
  <2>2. /\ at[s] = LockAt(test[s]) /\ GoodScript(Todo(s), LockAt(test[s]))
        /\ Len(Todo(s)) \in Nat /\ at[s] \in 1 .. Len(Todo(s))
        BY <2>1, StepIs, TodoIs DEF GoodScript, LocksOnce
  <2>3. ~ (TakePart(s, 1, "out", "first") \/ TakePart(s, 2, "first", "locked") \/ AcquireRaises(s))
        BY <1>0, <1>1 DEF TakePart, AcquireRaises, Goto
  <2>4. at' = [at EXCEPT ![s] = @ + 1] /\ UNCHANGED <<test, target, cache, fw, taps, astray>>
        BY <1>7, <2>3 DEF Acquire
  <2>5. Todo(s)' = Todo(s) BY <2>4 DEF Todo
  <2> QED BY <1>1, <2>2, <2>4, <2>5
<1>8. CASE Work(s)
  <2>1. UNCHANGED <<vars, test>> BY <1>8, WorkMoves DEF Advances, Ends
  <2>2. Todo(s)' = Todo(s) /\ pc' = pc BY <2>1 DEF vars, Todo
  <2>3. Inside(s) BY <1>0, <1>8, <2>2, WorkMoves DEF Before
  <2>4. Len(Todo(s)) \in Nat /\ at[s] \in 1 .. Len(Todo(s)) /\ GoodScript(Todo(s), LockAt(test[s]))
        BY <2>3, InsideIs, TodoIs
  <2>5. ~Ends(s)
    <3>1. Ends(s) => at'[s] = Len(Todo(s)) + 1 BY <1>1 DEF Ends
    <3> QED BY <1>0, <2>2, <2>4, <3>1 DEF Finished
  <2>6. ~StepRaises(s) BY <2>5 DEF StepRaises, EndTest, Goes, Ends
  <2>7. at'[s] = at[s] + 1 \/ (Lookup(s) /\ at'[s] = at[s] + 6)
        BY <1>1, <1>8, <2>5, WorkMoves DEF Advances
  <2>8. at'[s] \in 1 .. Len(Todo(s)) /\ Step(s)' = Todo(s)[at'[s]]
    <3>1. at'[s] <= Len(Todo(s)) BY <1>0, <2>2, <2>4, <2>7 DEF Finished
    <3>2. at'[s] \in Nat /\ at'[s] >= 1 BY <2>4, <2>7
    <3> QED BY <2>2, <2>4, <3>1, <3>2 DEF Step
  <2>9. astray \subseteq astray'
    <3>1. NextScenario(s) => at'[s] = 1 BY NextScenarioType
    <3>2. at[s] \in Nat /\ at[s] >= 1 BY <1>1
    <3>3. ~NextScenario(s) BY <2>7, <3>1, <3>2
    <3> QED BY <3>3, AstrayStep
  <2> QED BY <1>8, <2>2, <2>3, <2>4, <2>6, <2>7, <2>8, <2>9
<1> QED BY <1>3, <1>4, <1>5, <1>6, <1>7, <1>8 DEF Moves, ScenarioNext, Work

\* The op of the step at hand tells which action it is.
LEMMA WorkIs ==
    ASSUME NEW s \in Session, Work(s), ~StepRaises(s)
    PROVE  /\ Step(s).op = "clean" => Clean(s)
           /\ Step(s).op = "compile" => Compile(s)
           /\ Step(s).op = "verify" => Verify(s)
           /\ Step(s).op = "lookup" => Lookup(s)
           /\ Step(s).op = "open" => Open(s)
           /\ Step(s).op = "store" => Store(s)
           /\ Step(s).op = "flash" => Flash(s)
           /\ Step(s).op = "silence" => Silence(s)
           /\ Step(s).op = "tap" => Tap(s)
           /\ Step(s).op = "measure" => Measure(s)
BY DEF Work, Clean, Compile, Verify, Lookup, Open, Store, Flash, Silence, Tap, Measure, At

LEMMA CacheStep ==
    ASSUME LockInv, FirmwareTypeOK, NEW s \in Session, Moves(s), CacheInv
    PROVE  CacheInv'
<1>1. CASE UNCHANGED cache BY <1>1 DEF CacheInv
<1>2. CASE Open(s)
  <2>1. cache' = [cache EXCEPT ![Step(s).board] = Torn(target["uart"].keys)] BY <1>2 DEF Open
  <2> QED BY <2>1 DEF CacheInv, Torn, FirmwareTypeOK
<1>3. CASE Store(s)
  <2>1. cache' = [cache EXCEPT ![Step(s).board].bin = "uart"] BY <1>3 DEF Store
  <2>2. \A b \in Atom : cache'[b] = IF b = Step(s).board THEN [cache[b] EXCEPT !.bin = "uart"] ELSE cache[b]
        BY <2>1 DEF FirmwareTypeOK
  <2>3. \A b \in Atom : cache[b] \in Image BY DEF FirmwareTypeOK
  <2> QED BY <2>2, <2>3, ZenonT(40) DEF CacheInv, Image
<1>4. CASE Clean(s) \/ Compile(s) \/ Verify(s) \/ Lookup(s) \/ Tap(s) \/ Measure(s) \/ StepRaises(s)
      BY <1>1, <1>4 DEF Clean, Compile, Verify, Lookup, Tap, Measure, StepRaises
<1>5. CASE Flash(s) \/ Silence(s) BY <1>1, <1>5 DEF Flash, Silence, FlashImage
<1>6. CASE Acquire(s) \/ Finally(s) BY <1>1, <1>6 DEF Acquire, Finally, fwVars
<1>7. CASE Release(s) \/ Proceed(s) \/ Killed(s)
      BY <1>1, <1>7 DEF Release, Proceed, Killed, NextScenario, fwVars
<1> QED BY <1>2, <1>3, <1>4, <1>5, <1>6, <1>7 DEF Moves, ScenarioNext

\* A step prepares the next one of its session.
LEMMA NowOwn ==
    ASSUME LockInv, FirmwareTypeOK, NEW s \in Session, PlaceInv(s), Moves(s),
           NowInv(s)
    PROVE  NowInv(s)'
<1> DEFINE w == Todo(s)
           p == at[s]
           q == at'[s]
<1> SUFFICES ASSUME Inside(s)'
             PROVE  LET c == Step(s)' IN
                    /\ c.op = "open" => target'["uart"] = NoImage \/ target'["uart"].keys = c.board
                    /\ c.op \in {"store", "silence"} => cache'[c.board].keys = c.board
                    /\ c.op = "tap" /\ s \notin astray' => taps'[c.board] = {}
    BY DEF NowInv
<1>1. /\ w' = w /\ Len(w) \in Nat /\ p \in 1 .. Len(w) /\ GoodScript(w, LockAt(test[s]))
      BY InsideStep
<1>2. w \in Seq(Call) /\ \A i \in 1 .. Len(w) : OrderedAt(w, i) /\ w[i] \in Call
      BY <1>1 DEF GoodScript, Ordered
<1>3. CASE p = LockAt(test[s]) /\ q = p + 1
  <2>1. q \in 1 .. Len(w) /\ Step(s)' = w[q]
    <3>1. ~Finished(s)' BY DEF Inside
    <3>2. q <= Len(w) BY <1>1, <1>3, <3>1 DEF Finished
    <3> QED BY <1>1, <1>3, <3>2 DEF Step
  <2>2. w[p].op = "lock" BY <1>1, <1>3 DEF GoodScript, LocksOnce
  <2>3. OrderedAt(w, q) /\ q - 1 = p BY <1>1, <1>2, <1>3, <2>1
  <2>4. w[q].op \notin {"open", "store", "silence", "tap"}
        BY <2>2, <2>3 DEF OrderedAt, Follows
  <2> QED BY <2>1, <2>4
<1>4. CASE /\ Inside(s) /\ Work(s) /\ ~StepRaises(s) /\ q = p + 1
           /\ q \in 1 .. Len(w) /\ Step(s)' = w[q]
  <2>1. OrderedAt(w, q) /\ OrderedAt(w, p) /\ q - 1 = p BY <1>1, <1>2, <1>4
  <2>2. Step(s) = w[p] BY DEF Step
  <2>3. CASE w[q].op = "open"
    <3>1. /\ w[p].op = "verify" /\ w[p].bin = "uart" /\ w[p].keys = w[q].board
          BY <2>1, <2>3 DEF OrderedAt, Follows
    <3>2. Verify(s) BY <1>4, <2>2, <3>1, WorkIs
    <3>3. target'["uart"].keys = w[q].board BY <2>2, <3>1, <3>2 DEF Verify
    <3> QED BY <1>4, <2>3, <3>3
  <2>4. CASE w[q].op = "store"
    <3>1. /\ w[p].op = "open" /\ w[p].board = w[q].board /\ w[p].board \in Atom
          BY <2>1, <2>4 DEF OrderedAt, Follows
    <3>2. Open(s) BY <1>4, <2>2, <3>1, WorkIs
    <3>3. target["uart"].keys = w[q].board BY <1>4, <2>2, <3>1, <3>2 DEF Open, NowInv
    <3>4. cache' = [cache EXCEPT ![w[q].board] = Torn(w[q].board)]
          BY <2>2, <3>1, <3>2, <3>3 DEF Open
    <3>5. cache'[w[q].board].keys = w[q].board BY <3>1, <3>4 DEF Torn, FirmwareTypeOK
    <3> QED BY <1>4, <2>4, <3>5
  <2>5. CASE w[q].op = "silence"
    <3>1. /\ w[p].op = "store" /\ w[p].board = w[q].board /\ w[p].board \in Atom
          BY <2>1, <2>5 DEF OrderedAt, Follows
    <3>2. Store(s) BY <1>4, <2>2, <3>1, WorkIs
    <3>3. cache[w[q].board].keys = w[q].board BY <1>4, <2>2, <3>1 DEF NowInv
    <3>4. cache' = [cache EXCEPT ![w[q].board].bin = "uart"] BY <2>2, <3>1, <3>2 DEF Store
    <3>5. cache'[w[q].board] = [cache[w[q].board] EXCEPT !.bin = "uart"]
          BY <3>1, <3>4 DEF FirmwareTypeOK
    <3>6. cache[w[q].board] \in Image BY <3>1 DEF FirmwareTypeOK
    <3>7. cache'[w[q].board].keys = w[q].board BY <3>3, <3>5, <3>6 DEF Image
    <3> QED BY <1>4, <2>5, <3>7
  <2>6. CASE w[q].op = "tap" /\ s \notin astray'
    <3>1. w[p].op = "flash" /\ w[p].board = w[q].board BY <2>1, <2>6 DEF OrderedAt, Follows
    <3>2. Flash(s) /\ ~Finished(s) BY <1>4, <2>2, <3>1, WorkIs DEF Inside
    <3>3. PICK image \in Image : FlashImage(s, image) BY <3>2, ImageOfFlash
    <3>4. w[p].board \in Atom \cup {S3} /\ taps' = [taps EXCEPT ![w[p].board] = {}]
          BY <2>2, <2>6, <3>2, <3>3, FlashIs
    <3>5. taps'[w[q].board] = {} BY <3>1, <3>4 DEF FirmwareTypeOK, Boards
    <3> QED BY <1>4, <2>6, <3>5
  <2> QED BY <1>4, <2>3, <2>4, <2>5, <2>6
<1>5. CASE /\ Inside(s) /\ Lookup(s) /\ q = p + 6
           /\ q \in 1 .. Len(w) /\ Step(s)' = w[q]
  <2>1. Step(s) = w[p] /\ w[p].op = "lookup" BY <1>5 DEF Step, Lookup, At
  <2>2. /\ w[q].op = "silence" /\ w[q].board = w[p].board /\ w[p].board \in Atom
    <3>1. w[q].op = "silence" /\ w[q].keys = w[p].keys /\ w[p].keys = w[p].board /\ w[p].board \in Atom
          BY <1>1, <1>2, <1>5, <2>1 DEF OrderedAt, Follows
    <3>2. OrderedAt(w, q) BY <1>2, <1>5
    <3> QED BY <3>1, <3>2 DEF OrderedAt
  <2>3. cache' = cache BY <1>5 DEF Lookup
  <2>4. PICK hit \in CacheHit(Step(s).board) : Advance(s, IF hit THEN AfterBuild ELSE 1)
        BY <1>5 DEF Lookup
  <2>5. hit
    <3>1. at[s] \in Nat BY DEF FirmwareTypeOK
    <3>2. ~hit => at'[s] = at[s] + 1 BY <2>4, <3>1 DEF FirmwareTypeOK, Advance, Goes
    <3> QED BY <1>5, <3>1, <3>2
  <2>6. cache[w[p].board].keys = w[p].board BY <2>1, <2>4, <2>5 DEF CacheHit
  <2> QED BY <1>5, <2>2, <2>3, <2>6
<1> QED BY <1>3, <1>4, <1>5, InsideStep

\* What a step that is not cut short does to the boards.
BoardStep(s) ==
    \/ Step(s).op \notin {"tap", "flash", "silence"} /\ fw' = fw /\ taps' = taps
    \/ Step(s).op = "tap" /\ fw' = fw /\ taps' = [taps EXCEPT ![Step(s).board] = {s}]
    \/ /\ Step(s).op = "flash" /\ Flashable(target[Step(s).bin])
       /\ fw' = [fw EXCEPT ![Step(s).board] = target[Step(s).bin]]
       /\ taps' = [taps EXCEPT ![Step(s).board] = {}]
    \/ /\ Step(s).op = "silence"
       /\ fw' = [fw EXCEPT ![Step(s).board] = Silent(s, Step(s).board)]
       /\ taps' = [taps EXCEPT ![Step(s).board] = {}]

LEMMA BoardStepIs ==
    ASSUME FirmwareTypeOK, CacheInv, NEW s \in Session, NowInv(s), Inside(s), Work(s),
           ~StepRaises(s), at'[s] # Len(Todo(s)) + 1, s \notin astray'
    PROVE  BoardStep(s)
<1>0. ~Finished(s) BY DEF Inside
<1>1. CASE Clean(s) \/ Compile(s) \/ Verify(s) \/ Lookup(s) \/ Open(s) \/ Store(s) \/ Measure(s)
      BY <1>1 DEF Clean, Compile, Verify, Lookup, Open, Store, Measure, At, BoardStep
<1>2. CASE Tap(s)
  <2>1. Step(s).op = "tap" /\ fw' = fw /\ s \notin astray BY <1>2 DEF Tap, At
  <2>2. taps[Step(s).board] = {} BY <2>1 DEF NowInv
  <2>3. taps' = [taps EXCEPT ![Step(s).board] = {s}] BY <1>2, <2>2 DEF Tap
  <2> QED BY <2>1, <2>3 DEF BoardStep
<1>3. at' # [at EXCEPT ![s] = Len(Todo(s)) + 1] BY DEF FirmwareTypeOK
<1>4. CASE Flash(s)
  <2>1. Step(s).op = "flash" /\ FlashImage(s, target[Step(s).bin]) /\ target[Step(s).bin] \in Image
        BY <1>4, ImageOfFlash DEF Flash, Silence, At
  <2>2. /\ Flashable(target[Step(s).bin]) /\ taps' = [taps EXCEPT ![Step(s).board] = {}]
        /\ fw' = [fw EXCEPT ![Step(s).board] = target[Step(s).bin]]
        BY <1>0, <1>3, <2>1, FlashIs
  <2> QED BY <2>1, <2>2 DEF BoardStep
<1>5. CASE Silence(s)
  <2> DEFINE b == Step(s).board
             image == [cache[b] EXCEPT !.by = s]
  <2>1. Step(s).op = "silence" /\ FlashImage(s, image) /\ image \in Image /\ b \in Atom
        BY <1>5, ImageOfFlash DEF Flash, Silence, At
  <2>2. /\ Flashable(image) /\ taps' = [taps EXCEPT ![b] = {}]
        /\ fw' = [fw EXCEPT ![b] = image]
    <3> HIDE DEF image
    <3> QED BY <1>0, <1>3, <2>1, FlashIs
  <2>3. image = Silent(s, b)
    <3>1. cache[b] \in Image BY <2>1 DEF FirmwareTypeOK
    <3>2. cache[b].keys = b BY <2>1 DEF NowInv
    <3>3. cache[b].bin \in {"none", "torn", "uart"} BY <2>1 DEF CacheInv
    <3>4. image = [bin |-> cache[b].bin, by |-> s, keys |-> cache[b].keys] BY <3>1 DEF Image
    <3>5. cache[b].bin = "uart" BY <2>2, <3>3, <3>4 DEF Flashable
    <3> QED BY <3>2, <3>4, <3>5 DEF Silent
  <2> QED BY <2>1, <2>2, <2>3 DEF BoardStep
<1> QED BY <1>1, <1>2, <1>4, <1>5 DEF Work

\* What it has done stays done: a board is not touched after its flash, and
\* what quiesce_peer_radios flashed only by a flash of its own.
LEMMA DoneOwn ==
    ASSUME LockInv, FirmwareTypeOK, CacheInv, NEW s \in Session, PlaceInv(s), Moves(s),
           NowInv(s), DoneInv(s)
    PROVE  DoneInv(s)'
<1> DEFINE w == Todo(s)
           p == at[s]
           q == at'[s]
<1>1. CASE ~(Inside(s)' /\ s \notin astray') BY <1>1 DEF DoneInv
<1> SUFFICES ASSUME Inside(s)', s \notin astray', NEW i \in 1 .. q - 1
             PROVE  /\ w[i].op = "tap" => taps'[w[i].board] = {s}
                    /\ w[i].op = "silence" /\ ~ Flashes(w, q - 1, w[i].board) =>
                          fw'[w[i].board] = Silent(s, w[i].board)
    BY <1>1, InsideStep, ZenonT(80) DEF DoneInv, Flashes, Silent
<1>2. /\ w' = w /\ Len(w) \in Nat /\ p \in 1 .. Len(w) /\ GoodScript(w, LockAt(test[s]))
      /\ s \notin astray
      BY InsideStep
<1>3. w \in Seq(Call) /\ \A k \in 1 .. Len(w) : OrderedAt(w, k) /\ w[k] \in Call
      BY <1>2 DEF GoodScript, Ordered
<1>4. CASE p = LockAt(test[s]) /\ q = p + 1
  <2>1. i <= p /\ i \in 1 .. Len(w) BY <1>2, <1>4
  <2>2. w[i].op \in {"lock", "clean", "compile", "verify"}
        BY <1>2, <1>4, <2>1 DEF GoodScript, LocksOnce
  <2> QED BY <2>2
<1>5. CASE /\ Inside(s) /\ Work(s) /\ ~StepRaises(s) /\ q = p + 1 /\ q \in 1 .. Len(w)
  <2>1. Step(s) = w[p] /\ p \in Nat /\ i \in 1 .. Len(w) /\ q - 1 = p BY <1>2, <1>5 DEF Step
  <2>2. ~ Flashes(w, p, w[i].board) => ~ Flashes(w, p - 1, w[i].board)
        BY <2>1 DEF Flashes
  <2>3. w[i].board \in Boards /\ w[p].board \in Boards BY <1>2, <1>3, <2>1 DEF Call, Boards
  <2>4. BoardStep(s) BY <1>2, <1>5, BoardStepIs
  <2>5. i < p =>
          /\ w[i].op = "tap" => taps[w[i].board] = {s}
          /\ w[i].op = "silence" /\ ~ Flashes(w, p - 1, w[i].board) =>
                fw[w[i].board] = Silent(s, w[i].board)
    <3>1. i < p => i \in 1 .. p - 1 BY <2>1
    <3> QED BY <1>2, <1>5, <3>1 DEF DoneInv
  <2>6. i < p \/ i = p BY <2>1
  <2>7. ASSUME w[i].op = "tap" PROVE taps'[w[i].board] = {s}
    <3>1. CASE i = p
      <4>1. taps' = [taps EXCEPT ![w[i].board] = {s}] BY <2>1, <2>4, <2>7, <3>1 DEF BoardStep
      <4> QED BY <2>3, <4>1 DEF FirmwareTypeOK
    <3>2. CASE i < p
      <4>1. i - 1 \in 1 .. Len(w) /\ w[i - 1].op = "flash" /\ w[i - 1].board = w[i].board
            BY <1>3, <2>1, <2>7 DEF OrderedAt, Follows
      <4>2. w[p].op \in {"flash", "silence"} => w[p].board # w[i].board
        <5>1. i - 1 < p BY <2>1, <3>2
        <5> QED BY <1>2, <4>1, <5>1 DEF GoodScript, FlashesLast
      <4>3. taps[w[i].board] = {s} BY <2>5, <2>7, <3>2
      <4> QED BY <2>1, <2>3, <2>4, <4>2, <4>3 DEF BoardStep, FirmwareTypeOK
    <3> QED BY <2>6, <3>1, <3>2
  <2>8. ASSUME w[i].op = "silence", ~ Flashes(w, p, w[i].board)
        PROVE  fw'[w[i].board] = Silent(s, w[i].board)
    <3>1. CASE i = p
      <4>1. fw' = [fw EXCEPT ![w[i].board] = Silent(s, w[i].board)]
            BY <2>1, <2>4, <2>8, <3>1 DEF BoardStep
      <4> QED BY <2>3, <4>1 DEF FirmwareTypeOK
    <3>2. CASE i < p
      <4>1. fw[w[i].board] = Silent(s, w[i].board) BY <2>2, <2>5, <2>8, <3>2
      <4>2. w[p].op = "flash" => w[p].board # w[i].board BY <1>2, <2>8 DEF Flashes
      <4> QED BY <2>1, <2>3, <2>4, <4>1, <4>2 DEF BoardStep, FirmwareTypeOK
    <3> QED BY <2>6, <3>1, <3>2
  <2> QED BY <2>1, <2>7, <2>8
<1>6. CASE /\ Inside(s) /\ Lookup(s) /\ q = p + 6 /\ q \in 1 .. Len(w)
  <2>1. w[p].op = "lookup" /\ fw' = fw /\ taps' = taps BY <1>6 DEF Step, Lookup, At
  <2>2. \A j \in p + 1 .. p + 5 : w[j].op \in {"clean", "compile", "verify", "open", "store"}
        BY <1>2, <1>3, <2>1 DEF OrderedAt
  <2>3. i \in 1 .. p - 1 \/ i = p \/ i \in p + 1 .. p + 5 BY <1>2, <1>6
  <2>4. CASE i \in 1 .. p - 1
    <3>1. ~ Flashes(w, q - 1, w[i].board) => ~ Flashes(w, p - 1, w[i].board)
          BY <1>2, <1>6 DEF Flashes
    <3> QED BY <1>2, <1>6, <2>1, <2>4, <3>1 DEF DoneInv
  <2> QED BY <2>1, <2>2, <2>3, <2>4
<1> QED BY <1>4, <1>5, <1>6, InsideStep

\* While a session is inside, the steps of the others leave what it has
\* ready and what it has done: they hold no lock, so they only build, and not
\* the image to silence a board with.
LEMMA InsideOther ==
    ASSUME LockInv, FirmwareTypeOK, NEW t \in Session, Moves(t), PlaceInv(t),
           NEW s \in Session, s # t, PlaceInv(s), NowInv(s), DoneInv(s)
    PROVE  NowInv(s)' /\ DoneInv(s)'
<1> SUFFICES ASSUME Inside(s)' PROVE NowInv(s)' /\ DoneInv(s)'
    BY DEF NowInv, DoneInv
<1>1. /\ Todo(s)' = Todo(s) /\ Finished(s)' = Finished(s) /\ Step(s)' = Step(s)
      /\ at'[s] = at[s] /\ pc'[s] = pc[s]
      BY OthersStay, SameScript
<1>2. Inside(s) /\ pc[s] = "using" BY <1>1 DEF Inside
<1>10. s \in astray' <=> s \in astray BY AstrayStep
<1>3. pc[t] # "using" BY <1>2, Alone
<1>4. /\ cache' = cache
      /\ \A b \in Boards : fw[b].by # t => fw'[b] = fw[b]
      /\ \A b \in Boards : t \notin taps[b] => taps'[b] = taps[b]
      BY <1>3, OtherStep
<1>5. Todo(s) \in Seq(Call) /\ at[s] \in 1 .. Len(Todo(s)) /\ Len(Todo(s)) \in Nat /\ Step(s) = Todo(s)[at[s]]
      BY <1>2, InsideIs, TodoIs DEF GoodScript, Ordered
<1>6. \A i \in 1 .. at[s] : Todo(s)[i].board \in Boards
  <2>1. \A i \in 1 .. at[s] : Todo(s)[i] \in Call BY <1>5
  <2>2. \A call \in Call : call.board \in Boards BY DEF Call, Boards
  <2> QED BY <2>1, <2>2
<1>7. Step(s).op = "open" => target'["uart"] = NoImage \/ target'["uart"].keys = Step(s).board
  <2>1. SUFFICES ASSUME Step(s).op = "open"
                 PROVE  target'["uart"] = NoImage \/ target'["uart"].keys = Step(s).board
        OBVIOUS
  <2>2. Step(s).board \in Atom
        BY <1>5, <2>1, TodoIs DEF GoodScript, Ordered, OrderedAt
  <2>3. target["uart"] = NoImage \/ target["uart"].keys = Step(s).board
        BY <1>2, <2>1 DEF NowInv
  <2>4. "uart" \in Bin /\ target["uart"] \in Image BY DEF Bin, FirmwareTypeOK
  <2>5. ~ (Compile(t) /\ Step(t).bin = "uart") BY <1>3, BeforeIs DEF Compile, At, Inside
  <2>6. target'["uart"] \in {target["uart"], NoImage, Age(t, target["uart"])}
        BY <2>4, <2>5, TargetStep
  <2>7. Age(t, NoImage) = NoImage BY FirmwareAssumption DEF Age, NoImage
  <2>8. Age(t, target["uart"]).keys = IF target["uart"].keys = t THEN Earlier ELSE target["uart"].keys
        BY <2>4, ImageIs
  <2>9. Step(s).board # t BY <2>2, FirmwareAssumption DEF Boards
  <2> QED BY <2>3, <2>6, <2>7, <2>8, <2>9
<1>8. NowInv(s)'
  <2>1. Step(s).op = "tap" /\ s \notin astray => taps'[Step(s).board] = {}
        BY <1>2, <1>4, <1>5, <1>6 DEF NowInv
  <2> QED BY <1>1, <1>2, <1>4, <1>7, <1>10, <2>1 DEF NowInv
<1>9. DoneInv(s)'
  <2>1. ASSUME s \notin astray, NEW i \in 1 .. at[s] - 1
        PROVE  /\ Todo(s)[i].op = "tap" => taps'[Todo(s)[i].board] = {s}
               /\ Todo(s)[i].op = "silence" /\ ~ Flashes(Todo(s), at[s] - 1, Todo(s)[i].board) =>
                     fw'[Todo(s)[i].board] = Silent(s, Todo(s)[i].board)
    <3>1. Todo(s)[i].board \in Boards BY <1>5, <1>6
    <3>2. Silent(s, Todo(s)[i].board).by = s BY DEF Silent
    <3> QED BY <1>2, <1>4, <2>1, <3>1, <3>2 DEF DoneInv
  <2> QED BY <1>1, <1>10, <2>1 DEF DoneInv, Flashes, Silent
<1> QED BY <1>8, <1>9

\* A consumer that uses the boards is alone, like a session.
LEMMA InsideElsewhere ==
    ASSUME LockInv, FirmwareTypeOK, NEW c \in Consumer, Elsewhere(c), CacheInv,
           NEW s \in Session, PlaceInv(s), NowInv(s), DoneInv(s)
    PROVE  CacheInv' /\ PlaceInv(s)' /\ NowInv(s)' /\ DoneInv(s)'
<1>1. UNCHANGED <<test, at, target, cache, taps, astray>> /\ pc'[s] = pc[s]
  <2>1. c # s BY LockAssumption
  <2> QED BY <2>1 DEF Elsewhere, ConsumerTakes, ConsumerFrees, Goto, fwVars, vars, LockInv, TypeOK
<1>2. pc[s] = "using" => fw' = fw
      BY Alone DEF Elsewhere, ConsumerTakes, ConsumerFrees, fwVars
<1>3. Todo(s)' = Todo(s) /\ Finished(s)' = Finished(s) /\ Step(s)' = Step(s)
      BY <1>1, SameScript
<1>4. Inside(s)' = Inside(s) BY <1>1, <1>3 DEF Inside
<1>5. CacheInv' BY <1>1 DEF CacheInv
<1>6. PlaceInv(s)' BY <1>1, <1>3 DEF PlaceInv
<1>7. NowInv(s)' BY <1>1, <1>3, <1>4 DEF NowInv
<1>8. DoneInv(s)' BY <1>1, <1>2, <1>3, <1>4 DEF DoneInv, Inside, Flashes, Silent
<1> QED BY <1>5, <1>6, <1>7, <1>8

-----------------------------------------------------------------------------
(* The bench is quiet, and each console has one reader *)

BenchInv ==
    /\ LockInv /\ FirmwareTypeOK /\ CacheInv
    /\ \A s \in Session : PlaceInv(s) /\ NowInv(s) /\ DoneInv(s)

LEMMA FirmwareInitType == FirmwareInit => FirmwareTypeOK
<1> SUFFICES ASSUME FirmwareInit PROVE FirmwareTypeOK
    OBVIOUS
<1>1. test \in [Session -> Scenario] /\ \A s \in Session : test[s] \in Suite[s]
      BY FirmwareAssumption DEF FirmwareInit
<1>2. at \in [Session -> Nat \ {0}] BY DEF FirmwareInit
<1>3. target \in [Bin -> Image] /\ cache \in [Atom -> Image] /\ fw \in [Boards -> Image]
      BY ImageIs DEF FirmwareInit
<1>4. /\ taps \in [Boards -> SUBSET (Session \cup {Earlier})] /\ astray \subseteq Session
      /\ asked \in [Session -> (Boards \ {OffLimits}) \cup {Nobody}]
      BY DEF FirmwareInit
<1> QED BY <1>1, <1>2, <1>3, <1>4 DEF FirmwareTypeOK

LEMMA InitBench == FirmwareInit => BenchInv
<1> SUFFICES ASSUME FirmwareInit PROVE BenchInv
    OBVIOUS
<1>1. LockInv BY InitLockInv DEF FirmwareInit
<1>2. FirmwareTypeOK BY FirmwareInitType
<1>3. CacheInv BY DEF FirmwareInit, CacheInv, NoImage
<1>4. ASSUME NEW s \in Session PROVE PlaceInv(s) /\ NowInv(s) /\ DoneInv(s)
  <2>1. pc[s] = "out" /\ at[s] = 1 BY DEF FirmwareInit, Init
  <2>2. LockAt(test[s]) >= 1 BY DEF LockAt
  <2> QED BY <2>1, <2>2 DEF PlaceInv, NowInv, DoneInv, Inside
<1> QED BY <1>1, <1>2, <1>3, <1>4 DEF BenchInv

LEMMA NextBench == BenchInv /\ [FirmwareNext]_allVars => BenchInv'
<1> SUFFICES ASSUME BenchInv, [FirmwareNext]_allVars PROVE BenchInv'
    OBVIOUS
<1> USE DEF BenchInv
<1>1. LockInv' BY NextLockInv, StepsOfTheLock
<1>2. CASE UNCHANGED allVars \/ \E t \in Session : Ask(t)
  <2>1. UNCHANGED <<flock, record, registry, pc, test, at, target, cache, fw, taps, astray>>
        BY <1>2, AskIs DEF allVars, vars, fwVars
  <2>4. FirmwareTypeOK'
    <3>1. CASE UNCHANGED allVars BY <3>1 DEF allVars, vars, fwVars, FirmwareTypeOK
    <3> QED BY <1>2, <3>1, AskIs
  <2>2. FirmwareTypeOK' /\ CacheInv' BY <2>1, <2>4 DEF CacheInv
  <2>3. ASSUME NEW s \in Session PROVE PlaceInv(s)' /\ NowInv(s)' /\ DoneInv(s)'
    <3>1. Todo(s)' = Todo(s) /\ Finished(s)' = Finished(s) /\ Step(s)' = Step(s)
          BY <2>1, SameScript
    <3>2. Inside(s)' = Inside(s) BY <2>1, <3>1 DEF Inside
    <3>3. PlaceInv(s)' BY <2>1, <3>1 DEF PlaceInv
    <3>4. NowInv(s)' BY <2>1, <3>1, <3>2 DEF NowInv
    <3>5. at'[s] = at[s] /\ fw' = fw /\ taps' = taps /\ astray' = astray BY <2>1
    <3>6. DoneInv(s)' BY <3>1, <3>2, <3>5 DEF DoneInv, Inside, Flashes, Silent
    <3> QED BY <3>3, <3>4, <3>6
  <2> QED BY <1>1, <2>2, <2>3
<1>3. ASSUME NEW t \in Session, Moves(t) PROVE BenchInv'
  <2>1. FirmwareTypeOK' BY <1>3, BuildType, FlashType, WorkType, LockType DEF Moves, ScenarioNext
  <2>2. CacheInv' BY <1>3, CacheStep
  <2>3. ASSUME NEW s \in Session PROVE PlaceInv(s)' /\ NowInv(s)' /\ DoneInv(s)'
    <3>1. CASE s = t BY <1>3, <3>1, PlaceOwn, NowOwn, DoneOwn
    <3>2. CASE s # t BY <1>3, <3>2, PlaceOther, InsideOther
    <3> QED BY <3>1, <3>2
  <2> QED BY <1>1, <2>1, <2>2, <2>3
<1>4. ASSUME NEW c \in Consumer, Elsewhere(c) PROVE BenchInv'
  <2>1. FirmwareTypeOK' BY <1>4, ElsewhereType
  <2>2. \A s \in Session : CacheInv' /\ PlaceInv(s)' /\ NowInv(s)' /\ DoneInv(s)'
        BY <1>4, InsideElsewhere
  <2>3. CacheInv' BY <1>4 DEF Elsewhere, fwVars, CacheInv
  <2> QED BY <1>1, <2>1, <2>2, <2>3
<1> QED BY <1>2, <1>3, <1>4 DEF FirmwareNext, Moves

\* The inductive invariant of the bench: what a scenario inside the lock has
\* prepared and done is still so at its next step.
THEOREM BenchInvariant == FirmwareSpec => []BenchInv
BY InitBench, NextBench, PTL DEF FirmwareSpec

\* A board that boards.toml does not permit is written to only by an espflash
\* for which the registry had been asked about another board and permitted it:
\* the question is never left out, nor asked about the board that was meant,
\* for any boards and suites and wherever the ports move.
THEOREM OffLimitsIsGated == FirmwareSpec => OffLimitsGated
<1> DEFINE Gated ==
      fw'[OffLimits] \notin {Own, fw[OffLimits]} =>
          \E s \in Session : asked[s] \notin {Nobody, OffLimits} /\ at'[s] # at[s]
<1>1. BenchInv /\ [FirmwareNext]_allVars => [Gated]_allVars
  <2> SUFFICES ASSUME BenchInv, FirmwareNext, fw'[OffLimits] \notin {Own, fw[OffLimits]}
               PROVE  \E s \in Session : asked[s] \notin {Nobody, OffLimits} /\ at'[s] # at[s]
      OBVIOUS
  <2>1. FirmwareTypeOK /\ OffLimits \in Boards /\ fw' # fw BY DEF BenchInv, Boards
  <2>2. \A s \in Session : ~NextScenario(s) BY <2>1 DEF NextScenario, Left
  <2>3. \A c \in Consumer : ~Elsewhere(c) BY <2>1 DEF Elsewhere, fwVars, FirmwareTypeOK
  <2>4. PICK s \in Session : ScenarioNext(s) BY <2>3 DEF FirmwareNext
  <2>5. Flash(s) \/ Silence(s)
    <3>1. ~(Clean(s) \/ Compile(s) \/ Verify(s) \/ Lookup(s) \/ Open(s) \/ Store(s))
          BY <2>1 DEF Clean, Compile, Verify, Lookup, Open, Store
    <3>2. ~(Ask(s) \/ Tap(s) \/ Measure(s) \/ StepRaises(s) \/ Acquire(s) \/ Finally(s))
          BY <2>1 DEF Ask, Tap, Measure, StepRaises, Acquire, Finally, fwVars
    <3>3. ~(Release(s) \/ Proceed(s) \/ Killed(s))
          BY <2>1, <2>2 DEF Release, Proceed, Killed, fwVars
    <3> QED BY <2>4, <3>1, <3>2, <3>3 DEF ScenarioNext
  <2>6. PICK image \in Image : FlashImage(s, image) BY <2>1, <2>5, ImageOfFlash
  <2>7. ~Finished(s) BY <2>5 DEF Flash, Silence, At, Before, Inside
  <2>8. asked[s] \notin {Nobody, OffLimits}
        BY <2>1, <2>6, FirmwareAssumption DEF FlashImage, FirmwareTypeOK
  <2>9. at'[s] # at[s]
    <3>1. at' = [at EXCEPT ![s] = @ + 1] \/ at' = [at EXCEPT ![s] = Len(Todo(s)) + 1]
          BY <2>1, <2>6, <2>7, FlashMoves
    <3>2. at[s] \in 1 .. Len(Todo(s)) /\ Len(Todo(s)) \in Nat BY <2>1, <2>7, StepIs
    <3>3. at'[s] \in {at[s] + 1, Len(Todo(s)) + 1} BY <2>1, <3>1 DEF FirmwareTypeOK
    <3> QED BY <3>2, <3>3
  <2> QED BY <2>8, <2>9
<1> QED BY <1>1, BenchInvariant, PTL DEF FirmwareSpec, OffLimitsGated

\* A scenario that measures is the only reader of the consoles it tapped:
\* whatever sessions were killed before, whatever tests run next to it.
THEOREM ReadersAlone == FirmwareSpec => []SoleReader
<1>1. BenchInv => SoleReader
  <2> SUFFICES ASSUME BenchInv, NEW s \in Session, Measuring(s), NEW call \in Done(s, "tap")
               PROVE  taps[call.board] = {s}
      BY DEF SoleReader
  <2>1. PICK i \in 1 .. at[s] - 1 : Todo(s)[i].op = "tap" /\ call = Todo(s)[i] BY DEF Done
  <2> QED BY <2>1 DEF BenchInv, DoneInv, Measuring
<1> QED BY <1>1, BenchInvariant, PTL

\* A scenario that measures has no foreign radio next to it: each atom it did
\* not flash runs the silent firmware with that atom's own identity.
THEOREM QuietBench == FirmwareSpec => []BenchIsQuiet
<1>1. BenchInv => BenchIsQuiet
  <2> SUFFICES ASSUME BenchInv, NEW s \in Session, Measuring(s), NEW b \in Atom,
                      \A call \in Done(s, "flash") : call.board # b
               PROVE  fw[b].bin = "uart" /\ fw[b].keys = b
      BY DEF BenchIsQuiet
  <2>1. FirmwareTypeOK /\ PlaceInv(s) /\ Inside(s) /\ Step(s).op = "measure" /\ s \notin astray
        BY DEF BenchInv, Measuring
  <2>2. /\ GoodScript(Todo(s), LockAt(test[s])) /\ at[s] \in 1 .. Len(Todo(s))
        /\ Step(s) = Todo(s)[at[s]]
        BY <2>1, InsideIs, TodoIs
  <2>3. PICK i \in 1 .. at[s] - 1 : Todo(s)[i].op \in {"flash", "silence"} /\ Todo(s)[i].board = b
        BY <2>1, <2>2 DEF GoodScript, Quietens
  <2>4. \A j \in 1 .. at[s] - 1 : Todo(s)[j].op = "flash" => Todo(s)[j].board # b
        BY DEF Done
  <2>5. ~ Flashes(Todo(s), at[s] - 1, b) BY <2>4 DEF Flashes
  <2>6. fw[b] = Silent(s, b) BY <2>1, <2>3, <2>4, <2>5 DEF BenchInv, DoneInv
  <2> QED BY <2>6 DEF Silent
<1> QED BY <1>1, BenchInvariant, PTL

-----------------------------------------------------------------------------
(* Every board runs what the test built for it *)

\* A scenario's calls are about its own keys, an atom's or the public ones.
OwnKeys(w, s) ==
    w \in Seq(Call) /\ \A i \in 1 .. Len(w) : w[i].keys \in {s, "fixed"} \cup Atom

LEMMA OwnKeysConcat ==
    ASSUME NEW u, NEW w, NEW s, OwnKeys(u, s), OwnKeys(w, s)
    PROVE  OwnKeys(u \o w, s)
<1>1. /\ u \o w \in Seq(Call) /\ Len(u \o w) = Len(u) + Len(w)
      /\ \A i \in 1 .. Len(u) + Len(w) : (u \o w)[i] = IF i <= Len(u) THEN u[i] ELSE w[i - Len(u)]
      BY ConcatIs DEF OwnKeys
<1>2. Len(u) \in Nat /\ Len(w) \in Nat BY DEF OwnKeys
<1>3. \A i \in 1 .. Len(u) + Len(w) : i <= Len(u) \/ i - Len(u) \in 1 .. Len(w) BY <1>2
<1> QED BY <1>1, <1>2, <1>3 DEF OwnKeys

LEMMA OwnKeysParts ==
    ASSUME NEW s \in Session
    PROVE  /\ OwnKeys(<<Do("lock")>>, s) /\ OwnKeys(<<Do("measure")>>, s)
           /\ \A bin \in Bin, keys \in {s, "fixed"} \cup Atom :
                 /\ OwnKeys(Build(bin, keys), s)
                 /\ \A b \in Atom \cup {S3} :
                       OwnKeys(FlashAndTap(bin, b, keys), s) /\ OwnKeys(Put(bin, b, keys), s)
           /\ \A used : OwnKeys(Quiesce(used), s)
<1>1. OwnKeys(<<Do("lock")>>, s) /\ OwnKeys(<<Do("measure")>>, s)
  <2>1. Do("lock") \in Call /\ Do("measure") \in Call BY DEF Do, Call, Op, Key
  <2>2. Do("lock").keys = "fixed" /\ Do("measure").keys = "fixed" BY DEF Do
  <2> QED BY <2>1, <2>2 DEF OwnKeys
<1>2. ASSUME NEW bin \in Bin, NEW keys \in {s, "fixed"} \cup Atom
      PROVE  OwnKeys(Build(bin, keys), s)
  <2>1. keys \in Key BY <1>2 DEF Key
  <2> QED BY <2>1, BuildIs, OnIs DEF OwnKeys
<1>3. ASSUME NEW bin \in Bin, NEW keys \in {s, "fixed"} \cup Atom, NEW b \in Atom \cup {S3}
      PROVE  OwnKeys(FlashAndTap(bin, b, keys), s)
  <2>1. keys \in Key BY <1>3 DEF Key
  <2>2. FlashAndTap(bin, b, keys) \in Seq(Call) /\ Len(FlashAndTap(bin, b, keys)) = 2
        BY <2>1 DEF FlashAndTap, On, Call, Op
  <2>3. \A i \in 1 .. 2 : FlashAndTap(bin, b, keys)[i].keys = keys BY DEF FlashAndTap, On
  <2> QED BY <2>2, <2>3 DEF OwnKeys
<1>4. ASSUME NEW bin \in Bin, NEW keys \in {s, "fixed"} \cup Atom, NEW b \in Atom \cup {S3}
      PROVE  OwnKeys(Put(bin, b, keys), s)
  BY <1>2, <1>3, OwnKeysConcat DEF Put
<1>5. ASSUME NEW used PROVE OwnKeys(Quiesce(used), s)
  <2>1. Quiesce(used) \in Seq(Call) BY QuiesceIs
  <2>2. ASSUME NEW i \in 1 .. Len(Quiesce(used)) PROVE Quiesce(used)[i].keys \in Atom
    <3>1. PICK b \in Atom \ used, o \in Nat :
             StandsIn(QuiesceOne(b), Quiesce(used), o) /\ i - o \in 1 .. 7
          BY QuiesceIs
    <3>2. Len(QuiesceOne(b)) = 7 /\ \A x \in 1 .. 7 : QuiesceOne(b)[x].keys = b
      <4>1. \A x \in 1 .. 7 : x \in {1, 2, 3, 4, 5, 6, 7} OBVIOUS
      <4> QED BY <4>1, QuiesceOneIs, OnIs
    <3>3. Len(Quiesce(used)) \in Nat BY <2>1
    <3>4. i = o + (i - o) BY <3>1, <3>3
    <3>5. Quiesce(used)[o + (i - o)] = QuiesceOne(b)[i - o] BY <3>1, <3>2 DEF StandsIn
    <3> QED BY <3>1, <3>2, <3>4, <3>5
  <2> QED BY <2>1, <2>2 DEF OwnKeys
<1> QED BY <1>1, <1>2, <1>3, <1>4, <1>5

LEMMA OwnKeysCalls ==
    ASSUME NEW name \in Scenario, NEW s \in Session, name = "dos_floor" => Atom # {Target}
    PROVE  OwnKeys(Calls(name, s), s)
<1> DEFINE a == Opening(name, s)
           z == Closing(name, s)
           key == {s, "fixed"} \cup Atom
<1>1. /\ s \in key /\ "fixed" \in key /\ Atom \subseteq key /\ Target \in Atom
      /\ {"s3", "gateway", "espnow", "l2cap"} \subseteq Bin
      BY FirmwareAssumption DEF Bin
<1>2. OwnKeys(a, s)
  <2>1. \/ a = <<Do("lock")>> \o Build("s3", s)
        \/ a = <<Do("lock")>>
        \/ a = Build("s3", "fixed") \o <<Do("lock")>>
        \/ a = Build("l2cap", "fixed") \o <<Do("lock")>>
        BY DEF Scenario, Opening
  <2> HIDE DEF a, key
  <2>2. /\ OwnKeys(<<Do("lock")>>, s) /\ OwnKeys(Build("s3", s), s)
        /\ OwnKeys(Build("s3", "fixed"), s) /\ OwnKeys(Build("l2cap", "fixed"), s)
        BY <1>1, OwnKeysParts DEF key
  <2> QED BY <2>1, <2>2, OwnKeysConcat
<1>3. OwnKeys(z, s)
  <2>1. name = "dos_floor" => Foreign \in Atom
    <3>1. name = "dos_floor" => \E b \in Atom : b # Target BY <1>1
    <3> QED BY <3>1 DEF Foreign
  <2>2. \/ \E keys \in key : z = FlashAndTap("s3", S3, keys) \o <<Do("measure")>>
        \/ z = FlashAndTap("l2cap", Target, "fixed") \o <<Do("measure")>>
        \/ z = (Put("gateway", Target, "fixed") \o Put("s3", S3, "fixed")) \o <<Do("measure")>>
        \/ /\ name = "dos_floor"
           /\ z = (((Put("s3", S3, "fixed") \o Put("espnow", Target, Target)) \o <<Do("measure")>>)
                     \o Put("espnow", Foreign, Foreign)) \o <<Do("measure")>>
        BY DEF Scenario, Closing
  <2> HIDE DEF z
  <2>3. OwnKeys(<<Do("measure")>>, s) BY OwnKeysParts
  <2>4. \A bin \in Bin, b \in Atom \cup {S3}, keys \in key :
           OwnKeys(FlashAndTap(bin, b, keys), s) /\ OwnKeys(Put(bin, b, keys), s)
        BY OwnKeysParts
  <2> HIDE DEF key
  <2>5. CASE \/ \E keys \in key : z = FlashAndTap("s3", S3, keys) \o <<Do("measure")>>
             \/ z = FlashAndTap("l2cap", Target, "fixed") \o <<Do("measure")>>
    <3>1. \/ \E keys \in key : OwnKeys(FlashAndTap("s3", S3, keys), s)
                              /\ z = FlashAndTap("s3", S3, keys) \o <<Do("measure")>>
          \/ OwnKeys(FlashAndTap("l2cap", Target, "fixed"), s)
                /\ z = FlashAndTap("l2cap", Target, "fixed") \o <<Do("measure")>>
          BY <1>1, <2>4, <2>5
    <3> QED BY <2>3, <3>1, OwnKeysConcat
  <2>6. CASE z = (Put("gateway", Target, "fixed") \o Put("s3", S3, "fixed")) \o <<Do("measure")>>
    <3>1. OwnKeys(Put("gateway", Target, "fixed"), s) /\ OwnKeys(Put("s3", S3, "fixed"), s)
          BY <1>1, <2>4
    <3>2. OwnKeys(Put("gateway", Target, "fixed") \o Put("s3", S3, "fixed"), s)
          BY <3>1, OwnKeysConcat
    <3> QED BY <2>3, <2>6, <3>2, OwnKeysConcat
  <2>7. CASE /\ name = "dos_floor"
             /\ z = (((Put("s3", S3, "fixed") \o Put("espnow", Target, Target)) \o <<Do("measure")>>)
                     \o Put("espnow", Foreign, Foreign)) \o <<Do("measure")>>
    <3>1. /\ OwnKeys(Put("s3", S3, "fixed"), s) /\ OwnKeys(Put("espnow", Target, Target), s)
          /\ OwnKeys(Put("espnow", Foreign, Foreign), s)
          BY <1>1, <2>1, <2>4, <2>7
    <3>2. OwnKeys(Put("s3", S3, "fixed") \o Put("espnow", Target, Target), s)
          BY <3>1, OwnKeysConcat
    <3>3. OwnKeys((Put("s3", S3, "fixed") \o Put("espnow", Target, Target)) \o <<Do("measure")>>, s)
          BY <2>3, <3>2, OwnKeysConcat
    <3>4. OwnKeys(((Put("s3", S3, "fixed") \o Put("espnow", Target, Target)) \o <<Do("measure")>>)
                     \o Put("espnow", Foreign, Foreign), s)
          BY <3>1, <3>3, OwnKeysConcat
    <3> QED BY <2>3, <2>7, <3>4, OwnKeysConcat
  <2> QED BY <2>2, <2>5, <2>6, <2>7
<1>4. OwnKeys(Quiesce(Used(name)), s) BY OwnKeysParts
<1> HIDE DEF a, z
<1> QED BY <1>2, <1>3, <1>4, OwnKeysConcat DEF Calls, a, z

\* A session whose test is at work, in front of the lock, at it or inside.
Active(s) == pc[s] \in {"out", "first", "locked", "using"} /\ ~Finished(s)

Built(s, call) == [bin |-> call.bin, by |-> s, keys |-> call.keys]

\* What the session compiled last to a path is there, or nothing is; and
\* nothing is where it compiles next.
BuiltInv(s) ==
    Active(s) =>
        /\ Step(s).op = "compile" /\ Step(s).bin # "uart" => target[Step(s).bin] = NoImage
        /\ \A i \in 1 .. at[s] - 1 :
              /\ Todo(s)[i].op = "compile" /\ Todo(s)[i].bin # "uart"
              /\ \A j \in i + 1 .. at[s] - 1 : ~ Compiles(Todo(s), j, Todo(s)[i].bin)
              => target[Todo(s)[i].bin] \in {NoImage, Built(s, Todo(s)[i])}

FlashedInv(s) ==
    Inside(s) /\ s \notin astray => \A i \in 1 .. at[s] - 1 :
        Todo(s)[i].op = "flash" => fw[Todo(s)[i].board] = Built(s, Todo(s)[i])

\* If builds are kept apart, nobody compiles what an active session compiles.
LEMMA Apart ==
    ASSUME SeparateBuilds, LockInv, FirmwareTypeOK,
           NEW s \in Session, NEW t \in Session, s # t, PlaceInv(s), PlaceInv(t),
           Active(s), Compile(t), NEW i \in 1 .. at[s], Todo(s)[i].op = "compile"
    PROVE  Todo(s)[i].bin # Step(t).bin
<1> DEFINE w == Todo(s)
           v == Todo(t)
<1>1. /\ w = Calls(test[s], s) /\ v = Calls(test[t], t)
      /\ test[s] \in Suite[s] /\ test[t] \in Suite[t]
      BY TodoIs DEF FirmwareTypeOK
<1>2. /\ GoodScript(w, LockAt(test[s])) /\ at[s] \in 1 .. Len(w) /\ Len(w) \in Nat
      BY StepIs, TodoIs DEF Active
<1>3. ~Finished(t) /\ Step(t).op = "compile" /\ (Before(t) \/ Inside(t))
      BY DEF Compile, At, Before, Inside
<1>4. /\ GoodScript(v, LockAt(test[t])) /\ at[t] \in 1 .. Len(v) /\ Len(v) \in Nat
      /\ Step(t) = v[at[t]]
      BY <1>3, StepIs, TodoIs
<1>5. i \in 1 .. Len(w) /\ w \in Seq(Call) /\ v \in Seq(Call)
      BY <1>2, <1>4 DEF GoodScript, Ordered
<1>6. /\ LockAt(test[s]) \in 1 .. Len(w) /\ w[LockAt(test[s])].op = "lock"
      /\ LockAt(test[t]) \in 1 .. Len(v) /\ v[LockAt(test[t])].op = "lock"
      BY <1>2, <1>4 DEF GoodScript, LocksOnce
<1>7. w[i].bin \in Builds(test[s], s) /\ v[at[t]].bin \in Builds(test[t], t)
  <2>1. i \in DOMAIN w /\ at[t] \in DOMAIN v BY <1>4, <1>5
  <2> QED BY <1>1, <1>3, <1>4, <2>1 DEF Builds
<1>8. CASE Inside(t)
  <2>1. pc[s] # "using" BY <1>8, Alone DEF Inside
  <2>2. i < LockAt(test[s])
    <3>1. at[s] <= LockAt(test[s]) BY <1>2, <1>6, <2>1 DEF Active, PlaceInv
    <3>2. i # LockAt(test[s]) BY <1>6
    <3> QED BY <1>2, <1>6, <3>1, <3>2
  <2>3. w[i].bin \in BuildsUnlocked(test[s], s)
    <3>1. i \in DOMAIN w /\ LockAt(test[s]) \in DOMAIN w BY <1>5, <1>6
    <3> QED BY <1>1, <1>6, <2>2, <3>1 DEF BuildsUnlocked
  <2> QED BY <1>1, <1>4, <1>7, <2>3 DEF SeparateBuilds
<1>9. CASE Before(t)
  <2>1. at[t] < LockAt(test[t]) BY <1>9, BeforeIs
  <2>2. v[at[t]].bin \in BuildsUnlocked(test[t], t)
    <3>1. at[t] \in DOMAIN v /\ LockAt(test[t]) \in DOMAIN v BY <1>4, <1>5, <1>6
    <3> QED BY <1>1, <1>3, <1>4, <1>6, <2>1, <3>1 DEF BuildsUnlocked
  <2> QED BY <1>1, <1>4, <1>7, <2>2 DEF SeparateBuilds
<1> QED BY <1>3, <1>8, <1>9

\* A test is at work because it was before, or because it has just begun.
LEMMA ActiveStep ==
    ASSUME LockInv, FirmwareTypeOK, NEW s \in Session, PlaceInv(s), Moves(s), Active(s)'
    PROVE  \/ at'[s] = 1
           \/ /\ Active(s) /\ Todo(s)' = Todo(s) /\ Len(Todo(s)) \in Nat
              /\ at[s] \in 1 .. Len(Todo(s)) /\ at'[s] \in 1 .. Len(Todo(s))
              /\ Step(s) = Todo(s)[at[s]] /\ Step(s)' = Todo(s)[at'[s]]
              /\ GoodScript(Todo(s), LockAt(test[s]))
              /\ \/ Todo(s)[at[s]].op = "lock" /\ at'[s] \in {at[s], at[s] + 1} /\ target' = target
                 \/ /\ Work(s) /\ ~StepRaises(s)
                    /\ at'[s] = at[s] + 1 \/ (Lookup(s) /\ at'[s] = at[s] + 6)
<1>0. pc'[s] \in {"out", "first", "locked", "using"} /\ ~Finished(s)' BY DEF Active
<1>1. pc \in [Session \cup Consumer -> Steps] /\ at \in [Session -> Nat \ {0}]
      BY DEF LockInv, TypeOK, FirmwareTypeOK
<1>2. NextScenario(s) => at'[s] = 1 BY NextScenarioType
<1>3. ~Finally(s) BY <1>0, <1>1 DEF Finally, EndSession, FinallyRaises, Goto
<1>4. CASE Release(s)
  <2>1. NextScenario(s)
        BY <1>0, <1>1, <1>4 DEF Release, FreePart, FinallyRaises, Goto
  <2> QED BY <1>2, <2>1
<1>5. CASE Proceed(s) \/ Killed(s) BY <1>2, <1>5 DEF Proceed, Killed
<1>6. CASE Acquire(s)
  <2>1. ~Finished(s) /\ Step(s).op = "lock" BY <1>6 DEF Acquire, Locking
  <2>2. /\ GoodScript(Todo(s), LockAt(test[s])) /\ Step(s) = Todo(s)[at[s]]
        /\ Len(Todo(s)) \in Nat /\ at[s] \in 1 .. Len(Todo(s))
        BY <2>1, StepIs, TodoIs
  <2>3. pc[s] \in {"out", "first", "locked"}
        BY <1>6 DEF Acquire, TakePart, AcquireRaises, Announce
  <2>4. test' = test /\ target' = target /\ at'[s] \in {at[s], at[s] + 1}
        BY <1>1, <1>6 DEF Acquire, fwVars
  <2>5. Todo(s)' = Todo(s) BY <2>4 DEF Todo
  <2>6. at'[s] \in 1 .. Len(Todo(s)) /\ Step(s)' = Todo(s)[at'[s]]
        BY <1>0, <2>2, <2>4, <2>5 DEF Finished, Step
  <2> QED BY <2>1, <2>2, <2>3, <2>4, <2>5, <2>6 DEF Active
<1>8. CASE Work(s)
  <2>1. UNCHANGED <<vars, test>> BY <1>8, WorkMoves DEF Advances, Ends
  <2>2. Todo(s)' = Todo(s) /\ pc' = pc BY <2>1 DEF vars, Todo
  <2>3. ~Finished(s) /\ Active(s) BY <1>8, WorkMoves DEF Before, Inside, Active
  <2>4. /\ Len(Todo(s)) \in Nat /\ at[s] \in 1 .. Len(Todo(s)) /\ GoodScript(Todo(s), LockAt(test[s]))
        /\ Step(s) = Todo(s)[at[s]]
        BY <2>3, StepIs, TodoIs
  <2>5. ~Ends(s)
    <3>1. Ends(s) => at'[s] = Len(Todo(s)) + 1 BY <1>1 DEF Ends
    <3> QED BY <1>0, <2>2, <2>4, <3>1 DEF Finished
  <2>6. ~StepRaises(s) BY <2>5 DEF StepRaises, EndTest, Goes, Ends
  <2>7. at'[s] = at[s] + 1 \/ (Lookup(s) /\ at'[s] = at[s] + 6)
        BY <1>1, <1>8, <2>5, WorkMoves DEF Advances
  <2>8. at'[s] \in 1 .. Len(Todo(s)) /\ Step(s)' = Todo(s)[at'[s]]
    <3>1. at'[s] <= Len(Todo(s)) BY <1>0, <2>2, <2>4, <2>7 DEF Finished
    <3>2. at'[s] \in Nat /\ at'[s] >= 1 BY <2>4, <2>7
    <3> QED BY <2>2, <2>4, <3>1, <3>2 DEF Step
  <2> QED BY <1>8, <2>2, <2>3, <2>4, <2>6, <2>7, <2>8
<1> QED BY <1>3, <1>4, <1>5, <1>6, <1>8 DEF Moves, ScenarioNext, Work

LEMMA BuiltOwn ==
    ASSUME LockInv, FirmwareTypeOK, FirmwareTypeOK', NEW s \in Session, PlaceInv(s), Moves(s),
           BuiltInv(s)
    PROVE  BuiltInv(s)'
<1> DEFINE w == Todo(s)
           p == at[s]
           q == at'[s]
<1>1. CASE ~Active(s)' BY <1>1 DEF BuiltInv
<1>2. CASE Active(s)' /\ q = 1
  <2>1. Todo(s)' = Calls(test'[s], s) /\ test'[s] \in Scenario /\ test'[s] \in Suite[s]
        BY DEF FirmwareTypeOK, Todo, Script
  <2>2. test'[s] = "dos_floor" => Atom # {Target} BY <2>1, FirmwareAssumption
  <2>3. Ordered(Todo(s)') BY <2>1, <2>2, Scripts DEF GoodScript
  <2>4. Len(Todo(s)') \in Nat BY <2>3 DEF Ordered
  <2>5. 1 <= Len(Todo(s)') BY <1>2, <2>4 DEF Active, Finished
  <2>6. OrderedAt(Todo(s)', 1) BY <2>3, <2>4, <2>5 DEF Ordered
  <2>7. Step(s)' = Todo(s)'[1] BY <1>2 DEF Step
  <2>8. Step(s)'.op # "compile" BY <2>6, <2>7 DEF OrderedAt, Follows
  <2> QED BY <1>2, <2>8 DEF BuiltInv
<1>3. CASE /\ Active(s) /\ w' = w /\ Len(w) \in Nat /\ p \in 1 .. Len(w) /\ q \in 1 .. Len(w)
           /\ Step(s) = w[p] /\ Step(s)' = w[q] /\ GoodScript(w, LockAt(test[s]))
           /\ \/ w[p].op = "lock" /\ q \in {p, p + 1} /\ target' = target
              \/ /\ Work(s) /\ ~StepRaises(s)
                 /\ q = p + 1 \/ (Lookup(s) /\ q = p + 6)
  <2>1. /\ w \in Seq(Call)
        /\ \A k \in 1 .. Len(w) : OrderedAt(w, k) /\ (w[k].op = "compile" => w[k].bin \in Bin)
        BY <1>3 DEF GoodScript, Ordered, OrderedAt
  <2>2. \A i \in 1 .. p - 1 :
           /\ w[i].op = "compile" /\ w[i].bin # "uart"
           /\ \A j \in i + 1 .. p - 1 : ~ Compiles(w, j, w[i].bin)
           => target[w[i].bin] \in {NoImage, Built(s, w[i])}
        BY <1>3 DEF BuiltInv
  <2>3. SUFFICES
          /\ w[q].op = "compile" /\ w[q].bin # "uart" => target'[w[q].bin] = NoImage
          /\ \A i \in 1 .. q - 1 :
                /\ w[i].op = "compile" /\ w[i].bin # "uart"
                /\ \A j \in i + 1 .. q - 1 : ~ Compiles(w, j, w[i].bin)
                => target'[w[i].bin] \in {NoImage, Built(s, w[i])}
        BY <1>3 DEF BuiltInv, Compiles, Built
  <2>4. CASE w[p].op = "lock" /\ q \in {p, p + 1} /\ target' = target
    <3>1. w[q].op # "compile"
      <4>1. q = p + 1 => OrderedAt(w, q) /\ q - 1 = p BY <1>3, <2>1
      <4> QED BY <2>4, <4>1 DEF OrderedAt, Follows
    <3>2. ASSUME NEW i \in 1 .. q - 1, w[i].op = "compile", w[i].bin # "uart",
                 \A j \in i + 1 .. q - 1 : ~ Compiles(w, j, w[i].bin)
          PROVE  target'[w[i].bin] \in {NoImage, Built(s, w[i])}
      <4>1. i # p BY <2>4, <3>2
      <4>2. i \in 1 .. p - 1 /\ \A j \in i + 1 .. p - 1 : j \in i + 1 .. q - 1
            BY <1>3, <2>4, <4>1
      <4> QED BY <2>2, <2>4, <3>2, <4>2
    <3> QED BY <3>1, <3>2
  <2>5. CASE Lookup(s) /\ q = p + 6
    <3>1. w[p].op = "lookup" /\ target' = target BY <1>3, <2>5 DEF Lookup, At
    <3>2. /\ w[q].op = "silence"
          /\ \A j \in p + 1 .. p + 5 : w[j].bin = "uart"
          BY <1>3, <2>1, <2>5, <3>1 DEF OrderedAt, Follows
    <3>3. ASSUME NEW i \in 1 .. q - 1, w[i].op = "compile", w[i].bin # "uart",
                 \A j \in i + 1 .. q - 1 : ~ Compiles(w, j, w[i].bin)
          PROVE  target'[w[i].bin] \in {NoImage, Built(s, w[i])}
      <4>1. i \in 1 .. p - 1 \/ i = p \/ i \in p + 1 .. p + 5 BY <1>3, <2>5
      <4>2. i \in 1 .. p - 1 BY <3>1, <3>2, <3>3, <4>1
      <4>3. \A j \in i + 1 .. p - 1 : j \in i + 1 .. q - 1 BY <1>3, <2>5, <4>2
      <4> QED BY <2>2, <3>1, <3>3, <4>2, <4>3
    <3> QED BY <3>2, <3>3
  <2>6. CASE Work(s) /\ ~StepRaises(s) /\ q = p + 1
    <3>1. w[q].op = "compile" => target'[w[q].bin] = NoImage
      <4>1. SUFFICES ASSUME w[q].op = "compile" PROVE target'[w[q].bin] = NoImage
            OBVIOUS
      <4>2. OrderedAt(w, q) /\ q - 1 = p BY <1>3, <2>1, <2>6
      <4>3. w[p].op = "clean" /\ w[p].bin = w[q].bin /\ w[q].bin \in Bin
            BY <1>3, <2>1, <4>1, <4>2 DEF OrderedAt, Follows
      <4>4. Clean(s) BY <1>3, <2>6, <4>3, WorkIs
      <4> QED BY <1>3, <4>3, <4>4 DEF Clean
    <3>2. ASSUME NEW i \in 1 .. q - 1, w[i].op = "compile", w[i].bin # "uart",
                 \A j \in i + 1 .. q - 1 : ~ Compiles(w, j, w[i].bin)
          PROVE  target'[w[i].bin] \in {NoImage, Built(s, w[i])}
      <4>0. i \in 1 .. Len(w) /\ w[i].bin \in Bin BY <1>3, <2>1, <2>6, <3>2
      <4>1. CASE i = p
        <5>1. Compile(s) BY <1>3, <2>6, <3>2, <4>1, WorkIs
        <5>2. target[w[i].bin] = NoImage BY <1>3, <3>2, <4>1 DEF BuiltInv
        <5>3. target' = [target EXCEPT ![w[i].bin] = Built(s, w[i])]
              BY <1>3, <4>1, <5>1, <5>2 DEF Compile, Built
        <5> QED BY <4>0, <5>3 DEF FirmwareTypeOK
      <4>2. CASE i # p
        <5>1. i \in 1 .. p - 1 /\ (\A j \in i + 1 .. p - 1 : j \in i + 1 .. q - 1)
                 /\ p \in i + 1 .. q - 1
              BY <1>3, <2>6, <4>2
        <5>2. target[w[i].bin] \in {NoImage, Built(s, w[i])} BY <2>2, <3>2, <5>1
        <5>3. ~ (Compile(s) /\ Step(s).bin = w[i].bin)
          <6>1. ~ Compiles(w, p, w[i].bin) BY <3>2, <5>1
          <6>2. Compile(s) => w[p].op = "compile" BY <1>3 DEF Compile, At
          <6> QED BY <1>3, <6>1, <6>2 DEF Compiles
        <5>4. ~NextScenario(s)
          <6>1. NextScenario(s) => q = 1 BY NextScenarioType
          <6> QED BY <1>3, <2>6, <6>1
        <5>5. target'[w[i].bin] \in {target[w[i].bin], NoImage}
              BY <4>0, <5>3, <5>4, TargetStep
        <5> QED BY <5>2, <5>5
      <4> QED BY <4>1, <4>2
    <3> QED BY <3>1, <3>2
  <2> QED BY <1>3, <2>4, <2>5, <2>6
<1> QED BY <1>1, <1>2, <1>3, ActiveStep

\* The others leave it, once builds are kept apart.
LEMMA BuiltOther ==
    ASSUME SeparateBuilds, LockInv, FirmwareTypeOK, NEW t \in Session, Moves(t), PlaceInv(t),
           NEW s \in Session, s # t, PlaceInv(s), BuiltInv(s)
    PROVE  BuiltInv(s)'
<1>1. /\ Todo(s)' = Todo(s) /\ Finished(s)' = Finished(s) /\ Step(s)' = Step(s)
      /\ at'[s] = at[s] /\ pc'[s] = pc[s]
      BY OthersStay, SameScript
<1>2. Active(s)' = Active(s) BY <1>1 DEF Active
<1>3. CASE ~Active(s) BY <1>2, <1>3 DEF BuiltInv
<1>4. CASE Active(s)
  <2> DEFINE w == Todo(s)
             p == at[s]
  <2>1. /\ p \in 1 .. Len(w) /\ Len(w) \in Nat /\ Step(s) = w[p] /\ GoodScript(w, LockAt(test[s]))
        BY <1>4, StepIs, TodoIs DEF Active
  <2>2. /\ w \in Seq(Call)
        /\ \A k \in 1 .. Len(w) : w[k].op = "compile" => w[k].bin \in Bin
        BY <2>1 DEF GoodScript, Ordered, OrderedAt
  <2>3. \A k \in 1 .. Len(w) : w[k].keys # t
    <3>1. w = Calls(test[s], s) /\ test[s] \in Scenario /\ test[s] \in Suite[s]
          BY TodoIs DEF FirmwareTypeOK
    <3>2. OwnKeys(w, s) BY <3>1, OwnKeysCalls, FirmwareAssumption
    <3>3. t \notin {s, "fixed"} \cup Atom BY FirmwareAssumption DEF Boards
    <3> QED BY <3>2, <3>3 DEF OwnKeys
  <2>4. ASSUME NEW i \in 1 .. p, w[i].op = "compile"
        PROVE  target'[w[i].bin] \in {target[w[i].bin], NoImage, Age(t, target[w[i].bin])}
    <3>1. w[i].bin \in Bin BY <2>1, <2>2, <2>4
    <3>2. ~ (Compile(t) /\ Step(t).bin = w[i].bin) BY <1>4, <2>4, Apart
    <3> QED BY <3>1, <3>2, TargetStep
  <2>5. Age(t, NoImage) = NoImage BY FirmwareAssumption DEF Age, NoImage
  <2>6. ASSUME NEW i \in 1 .. p PROVE Age(t, Built(s, w[i])) = Built(s, w[i])
    <3>1. w[i].keys # t BY <2>1, <2>3
    <3> QED BY <3>1 DEF Age, Built
  <2>7. w[p].op = "compile" /\ w[p].bin # "uart" => target'[w[p].bin] = NoImage
    <3>1. p \in 1 .. p BY <2>1
    <3> QED BY <1>4, <2>1, <2>4, <2>5, <3>1 DEF BuiltInv
  <2>8. ASSUME NEW i \in 1 .. p - 1, w[i].op = "compile", w[i].bin # "uart",
               \A j \in i + 1 .. p - 1 : ~ Compiles(w, j, w[i].bin)
        PROVE  target'[w[i].bin] \in {NoImage, Built(s, w[i])}
    <3>1. i \in 1 .. p BY <2>1
    <3>2. target[w[i].bin] \in {NoImage, Built(s, w[i])} BY <1>4, <2>8 DEF BuiltInv
    <3> QED BY <2>4, <2>5, <2>6, <2>8, <3>1, <3>2
  <2> QED BY <1>1, <2>1, <2>7, <2>8 DEF BuiltInv, Compiles, Built
<1> QED BY <1>3, <1>4

\* What is flashed is what was built: nothing else is at the path.
LEMMA FlashedOwn ==
    ASSUME LockInv, FirmwareTypeOK, CacheInv, NEW s \in Session, PlaceInv(s), Moves(s),
           NowInv(s), BuiltInv(s), FlashedInv(s)
    PROVE  FlashedInv(s)'
<1> DEFINE w == Todo(s)
           p == at[s]
           q == at'[s]
<1>1. CASE ~(Inside(s)' /\ s \notin astray') BY <1>1 DEF FlashedInv
<1> SUFFICES ASSUME Inside(s)', s \notin astray', NEW i \in 1 .. q - 1, w[i].op = "flash"
             PROVE  fw'[w[i].board] = Built(s, w[i])
    BY <1>1, InsideStep DEF FlashedInv, Built
<1>2. /\ w' = w /\ Len(w) \in Nat /\ p \in 1 .. Len(w) /\ GoodScript(w, LockAt(test[s]))
      /\ s \notin astray
      BY InsideStep
<1>3. w \in Seq(Call) /\ \A k \in 1 .. Len(w) : OrderedAt(w, k) /\ w[k] \in Call
      BY <1>2 DEF GoodScript, Ordered
<1>4. CASE p = LockAt(test[s]) /\ q = p + 1
  <2>1. i <= p /\ i \in 1 .. Len(w) BY <1>2, <1>4
  <2>2. w[i].op \in {"lock", "clean", "compile", "verify"}
        BY <1>2, <1>4, <2>1 DEF GoodScript, LocksOnce
  <2> QED BY <2>2
<1>5. CASE /\ Inside(s) /\ Work(s) /\ ~StepRaises(s) /\ q = p + 1 /\ q \in 1 .. Len(w)
  <2>1. Step(s) = w[p] /\ p \in Nat /\ i \in 1 .. Len(w) /\ q - 1 = p BY <1>2, <1>5 DEF Step
  <2>3. w[i].board \in Boards /\ w[p].board \in Boards BY <1>2, <1>3, <2>1 DEF Call, Boards
  <2>4. BoardStep(s) BY <1>2, <1>5, BoardStepIs
  <2>5. CASE i = p
    <3>1. PICK c \in 1 .. p : /\ Compiles(w, c, w[p].bin) /\ w[c].keys = w[p].keys
                              /\ \A d \in c + 1 .. p : ~ Compiles(w, d, w[p].bin)
          BY <1>2, <2>5 DEF GoodScript, FlashesOwn, LastCompiled
    <3>2. c \in 1 .. p - 1 BY <2>1, <2>5, <3>1 DEF Compiles
    <3>3. w[p].bin # "uart" /\ w[p].bin \in Bin BY <1>2, <1>3, <2>5 DEF OrderedAt
    <3>4. \A d \in c + 1 .. p - 1 : d \in c + 1 .. p BY <2>1
    <3>5. target[w[p].bin] \in {NoImage, Built(s, w[c])}
          BY <1>5, <3>1, <3>2, <3>3, <3>4 DEF BuiltInv, Active, Inside, Compiles
    <3>6. Built(s, w[c]) = Built(s, w[p]) BY <3>1 DEF Built, Compiles
    <3>7. /\ Flashable(target[w[p].bin])
          /\ fw' = [fw EXCEPT ![w[p].board] = target[w[p].bin]]
          BY <2>1, <2>4, <2>5 DEF BoardStep
    <3>8. target[w[p].bin] # NoImage BY <3>7 DEF Flashable, NoImage
    <3> QED BY <2>3, <2>5, <3>5, <3>6, <3>7, <3>8 DEF FirmwareTypeOK
  <2>6. CASE i < p
    <3>1. i \in 1 .. p - 1 BY <2>1, <2>6
    <3>2. fw[w[i].board] = Built(s, w[i]) BY <1>2, <1>5, <3>1 DEF FlashedInv
    <3>3. w[p].op \in {"flash", "silence"} => w[p].board # w[i].board
          BY <1>2, <2>1, <2>6 DEF GoodScript, FlashesLast
    <3> QED BY <2>1, <2>3, <2>4, <3>2, <3>3 DEF BoardStep, FirmwareTypeOK
  <2> QED BY <2>1, <2>5, <2>6
<1>6. CASE /\ Inside(s) /\ Lookup(s) /\ q = p + 6 /\ q \in 1 .. Len(w)
  <2>1. w[p].op = "lookup" /\ fw' = fw BY <1>6 DEF Step, Lookup, At
  <2>2. \A j \in p + 1 .. p + 5 : w[j].op \in {"clean", "compile", "verify", "open", "store"}
        BY <1>2, <1>3, <2>1 DEF OrderedAt
  <2>3. i \in 1 .. p - 1 \/ i = p \/ i \in p + 1 .. p + 5 BY <1>2, <1>6
  <2> QED BY <1>2, <1>6, <2>1, <2>2, <2>3 DEF FlashedInv
<1> QED BY <1>4, <1>5, <1>6, InsideStep

LEMMA FlashedOther ==
    ASSUME LockInv, FirmwareTypeOK, NEW t \in Session, Moves(t), PlaceInv(t),
           NEW s \in Session, s # t, PlaceInv(s), FlashedInv(s)
    PROVE  FlashedInv(s)'
<1>1. /\ Todo(s)' = Todo(s) /\ Finished(s)' = Finished(s) /\ at'[s] = at[s] /\ pc'[s] = pc[s]
      BY OthersStay, SameScript
<1>2. Inside(s)' = Inside(s) BY <1>1 DEF Inside
<1>5. s \in astray' <=> s \in astray BY AstrayStep
<1>3. CASE ~(Inside(s) /\ s \notin astray) BY <1>2, <1>3, <1>5 DEF FlashedInv
<1>4. CASE Inside(s) /\ s \notin astray
  <2>1. pc[s] = "using" BY <1>4 DEF Inside
  <2>2. \A b \in Boards : fw[b].by # t => fw'[b] = fw[b] BY <2>1, Alone, OtherStep
  <2>3. Todo(s) \in Seq(Call) /\ at[s] \in 1 .. Len(Todo(s)) /\ Len(Todo(s)) \in Nat
        BY <1>4, InsideIs, TodoIs DEF GoodScript, Ordered
  <2>4. \A i \in 1 .. at[s] - 1 : Todo(s)[i].board \in Boards
    <3>1. \A i \in 1 .. at[s] - 1 : Todo(s)[i] \in Call BY <2>3
    <3>2. \A call \in Call : call.board \in Boards BY DEF Call, Boards
    <3> QED BY <3>1, <3>2
  <2>5. ASSUME NEW i \in 1 .. at[s] - 1, Todo(s)[i].op = "flash"
        PROVE  fw'[Todo(s)[i].board] = Built(s, Todo(s)[i])
    <3>1. fw[Todo(s)[i].board] = Built(s, Todo(s)[i]) BY <1>4, <2>5 DEF FlashedInv
    <3>2. Built(s, Todo(s)[i]).by = s BY DEF Built
    <3> QED BY <2>2, <2>4, <3>1, <3>2
  <2> QED BY <1>1, <2>5 DEF FlashedInv, Built
<1> QED BY <1>3, <1>4

LEMMA ImagesElsewhere ==
    ASSUME LockInv, FirmwareTypeOK, NEW c \in Consumer, Elsewhere(c),
           NEW s \in Session, BuiltInv(s), FlashedInv(s)
    PROVE  BuiltInv(s)' /\ FlashedInv(s)'
<1>1. UNCHANGED <<test, at, target, astray>> /\ pc'[s] = pc[s]
  <2>1. c # s BY LockAssumption
  <2> QED BY <2>1 DEF Elsewhere, ConsumerTakes, ConsumerFrees, Goto, fwVars, vars, LockInv, TypeOK
<1>2. pc[s] = "using" => fw' = fw
      BY Alone DEF Elsewhere, ConsumerTakes, ConsumerFrees, fwVars
<1>3. Todo(s)' = Todo(s) /\ Finished(s)' = Finished(s) /\ Step(s)' = Step(s)
      BY <1>1, SameScript
<1>4. Inside(s)' = Inside(s) /\ Active(s)' = Active(s) BY <1>1, <1>3 DEF Inside, Active
<1>5. at'[s] = at[s] /\ target' = target BY <1>1
<1>6. BuiltInv(s)' BY <1>3, <1>4, <1>5 DEF BuiltInv, Compiles, Built
<1>7. FlashedInv(s)' BY <1>1, <1>2, <1>3, <1>4 DEF FlashedInv, Inside, Built
<1> QED BY <1>6, <1>7

ImageInv == BenchInv /\ \A s \in Session : BuiltInv(s) /\ FlashedInv(s)

LEMMA InitImages == FirmwareInit => ImageInv
<1> SUFFICES ASSUME FirmwareInit, NEW s \in Session PROVE BuiltInv(s) /\ FlashedInv(s)
    BY InitBench DEF ImageInv
<1>1. FirmwareTypeOK BY FirmwareInitType
<1>2. pc[s] = "out" /\ at[s] = 1 BY DEF FirmwareInit, Init
<1>3. ~Finished(s) => Step(s).op # "compile"
  <2>1. ASSUME ~Finished(s) PROVE OrderedAt(Todo(s), 1) /\ Step(s) = Todo(s)[1]
        BY <1>1, <1>2, <2>1, StepIs, TodoIs DEF GoodScript, Ordered
  <2> QED BY <2>1 DEF OrderedAt, Follows
<1> QED BY <1>2, <1>3 DEF BuiltInv, FlashedInv, Inside, Active

LEMMA NextImages ==
    ASSUME SeparateBuilds, ImageInv, [FirmwareNext]_allVars PROVE ImageInv'
<1> USE DEF ImageInv
<1>1. BenchInv' BY NextBench
<1>2. LockInv /\ FirmwareTypeOK /\ FirmwareTypeOK' /\ CacheInv BY <1>1 DEF BenchInv
<1>3. \A s \in Session : PlaceInv(s) /\ NowInv(s) BY DEF BenchInv
<1>4. CASE UNCHANGED allVars \/ \E t \in Session : Ask(t)
  <2>1. UNCHANGED <<pc, test, at, target, fw, astray>>
        BY <1>2, <1>4, AskIs DEF allVars, vars, fwVars
  <2>2. ASSUME NEW s \in Session PROVE BuiltInv(s)' /\ FlashedInv(s)'
    <3>1. Todo(s)' = Todo(s) /\ Finished(s)' = Finished(s) /\ Step(s)' = Step(s)
          BY <2>1, SameScript
    <3>2. Inside(s)' = Inside(s) /\ Active(s)' = Active(s) BY <2>1, <3>1 DEF Inside, Active
    <3>3. at'[s] = at[s] /\ fw' = fw /\ target' = target /\ astray' = astray BY <2>1
    <3>4. BuiltInv(s)'
      <4>1. BuiltInv(s) OBVIOUS
      <4> HIDE DEF ImageInv
      <4> QED BY <3>1, <3>2, <3>3, <4>1 DEF BuiltInv, Compiles, Built
    <3>5. FlashedInv(s)' BY <3>1, <3>2, <3>3 DEF FlashedInv, Inside, Built
    <3> QED BY <3>4, <3>5
  <2> QED BY <1>1, <2>2
<1>5. ASSUME NEW t \in Session, Moves(t), NEW s \in Session
      PROVE  BuiltInv(s)' /\ FlashedInv(s)'
  <2>1. CASE s = t BY <1>2, <1>3, <1>5, <2>1, BuiltOwn, FlashedOwn
  <2>2. CASE s # t BY <1>2, <1>3, <1>5, <2>2, BuiltOther, FlashedOther
  <2> QED BY <2>1, <2>2
<1>6. ASSUME NEW c \in Consumer, Elsewhere(c), NEW s \in Session
      PROVE  BuiltInv(s)' /\ FlashedInv(s)'
      BY <1>2, <1>6, ImagesElsewhere
<1> QED BY <1>1, <1>4, <1>5, <1>6 DEF FirmwareNext, Moves

\* If the sessions build different things in front of the lock, a scenario
\* that measures has on each board it flashed what it built for that board:
\* the lock and the build calls are enough to keep stale and foreign images
\* away.
THEOREM OwnImages == SeparateBuilds => (FirmwareSpec => []MeasuresOwnImage)
<1> SUFFICES ASSUME SeparateBuilds PROVE FirmwareSpec => []MeasuresOwnImage
    OBVIOUS
<1>1. ImageInv => MeasuresOwnImage
  <2> SUFFICES ASSUME ImageInv, NEW s \in Session, Measuring(s), NEW call \in Done(s, "flash")
               PROVE  fw[call.board] = [bin |-> call.bin, by |-> s, keys |-> call.keys]
      BY DEF MeasuresOwnImage
  <2>1. PICK i \in 1 .. at[s] - 1 : Todo(s)[i].op = "flash" /\ call = Todo(s)[i] BY DEF Done
  <2> QED BY <2>1 DEF ImageInv, FlashedInv, Measuring, Built
<1>2. ImageInv /\ [FirmwareNext]_allVars => ImageInv' BY NextImages
<1> QED BY <1>1, <1>2, InitImages, PTL DEF FirmwareSpec

=============================================================================
