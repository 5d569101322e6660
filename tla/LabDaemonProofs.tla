--------------------------- MODULE LabDaemonProofs ---------------------------
(***************************************************************************)
(* Theorems about LabDaemon, for any objects, outsiders, ports and bounds. *)
(***************************************************************************)
EXTENDS LabDaemon, TLAPS

StartSteps == {"wait_std", "preflight", "spawn", "wait_ready"}

\* A process that has not bound yet is the one start() waits for, or was
\* left behind by a start() that timed out; it has written no success.
StartingInv ==
    \A d \in Daemon : proc[d] = "starting" =>
        /\ ~spawnBound[d]
        /\ bind[PortOf[d]] # d
        /\ phase[d] = "raised" \/ (pc = "wait_ready" /\ cur = d)
        /\ PortOf[d] = LabPort => std = "down"

\* "UDP transport started" in the log is this spawn's.
LogInv == \A d \in Daemon : log[d] = "started" => spawnBound[d]

\* What the call in progress may rely on.
CallInv ==
    /\ pc \in StartSteps => phase[cur] \in {"new", "stopped"}
    /\ pc = "spawn" => /\ bind[PortOf[cur]] # cur
                       /\ PortOf[cur] = LabPort => std = "down"
    /\ pc \in {"reap", "restore"} /\ restoring
          => \A d \in Daemon : phase[d] = "done"

\* A standard daemon that did not run at the start is never seen or started.
UninvitedInv == ~stdAtStart => std = "down" /\ \A d \in Daemon : ~seen[d]

IInv == /\ TypeOK /\ BindConsistent /\ StartingInv /\ LogInv /\ ReadyIsMine
        /\ CallInv /\ UninvitedInv

LEMMA InitIInv == Init => IInv
<1> SUFFICES ASSUME Init PROVE IInv
  OBVIOUS
<1> USE DaemonAssumption
<1>1. TypeOK
  <2>1. stdAtStart \in BOOLEAN
    BY Zenon DEF Init
  <2>2. std \in {"down", "up"} /\ bind \in [Port -> Holder \cup {Nobody}]
    BY DEF Init, Holder
  <2>3. /\ proc = [d \in Daemon |-> "none"] /\ log = [d \in Daemon |-> "absent"]
        /\ spawnBound = [d \in Daemon |-> FALSE] /\ seen = [d \in Daemon |-> FALSE]
        /\ phase = [d \in Daemon |-> "new"] /\ pc = "idle" /\ cur = Lead
        /\ restoring = FALSE /\ failing = FALSE /\ restarts = 0
    BY DEF Init
  <2>4. /\ spawnBound \in [Daemon -> BOOLEAN] /\ seen \in [Daemon -> BOOLEAN]
        /\ restoring \in BOOLEAN /\ failing \in BOOLEAN
    BY <2>3
  <2>5. /\ proc \in [Daemon -> {"none", "starting", "bound", "terminating", "killed", "exited"}]
        /\ log \in [Daemon -> {"absent", "empty", "started", "failed"}]
        /\ phase \in [Daemon -> {"new", "ready", "stopped", "raised", "done"}]
        /\ restarts \in 0 .. MaxRestarts
    BY <2>3
  <2> QED
    BY <2>1, <2>2, <2>3, <2>4, <2>5 DEF TypeOK
<1>2. BindConsistent
  BY DEF Init, Holder, BindConsistent, Alive
<1>3. StartingInv /\ LogInv /\ ReadyIsMine /\ CallInv /\ UninvitedInv
  BY DEF Init, StartingInv, LogInv, ReadyIsMine, CallInv, UninvitedInv, StartSteps
<1> QED
  BY <1>1, <1>2, <1>3 DEF IInv

LEMMA StartPreserves ==
  ASSUME IInv, NEW d \in Daemon, Start(d) PROVE IInv'
<1> USE DaemonAssumption DEF IInv, Start, test, PgrepStandard
<1>1. TypeOK'
  BY DEF TypeOK
<1>2. BindConsistent'
  BY DEF TypeOK, BindConsistent, Alive
<1>3. StartingInv' /\ LogInv' /\ ReadyIsMine' /\ CallInv' /\ UninvitedInv'
  BY DEF TypeOK, StartingInv, LogInv, ReadyIsMine, CallInv, UninvitedInv, StartSteps
<1> QED
  BY <1>1, <1>2, <1>3

LEMMA StartStepPreserves ==
  ASSUME IInv, StartStep PROVE IInv'
<1> USE DaemonAssumption DEF IInv, StartStep, test, StartRaises
<1>1. CASE WaitStd
  BY <1>1 DEF WaitStd, TypeOK, BindConsistent, Alive, StartingInv, LogInv, ReadyIsMine,
     CallInv, UninvitedInv, StartSteps
<1>2. CASE PreflightRefuses
  BY <1>2 DEF PreflightRefuses, TypeOK, BindConsistent, Alive, StartingInv, LogInv,
     ReadyIsMine, CallInv, UninvitedInv, StartSteps
<1>3. CASE PreflightPasses
  <2>1. bind[PortOf[cur]] \notin Daemon \cup {Standard}
    BY <1>3 DEF PreflightPasses, BindIsFree, PortHolder
  <2>2. bind[PortOf[cur]] # cur /\ (PortOf[cur] = LabPort => std = "down")
    BY <2>1 DEF TypeOK, BindConsistent
  <2> QED
    BY <1>3, <2>2 DEF PreflightPasses, TypeOK, BindConsistent, Alive, StartingInv, LogInv,
       ReadyIsMine, CallInv, UninvitedInv, StartSteps
<1>4. CASE Spawn
  <2>1. TypeOK' /\ BindConsistent'
    BY <1>4 DEF Spawn, TruncatedLog, TypeOK, BindConsistent, Alive, CallInv
  <2>2. StartingInv' /\ LogInv' /\ ReadyIsMine' /\ CallInv' /\ UninvitedInv'
    BY <1>4 DEF Spawn, TruncatedLog, TypeOK, StartingInv, LogInv, ReadyIsMine, CallInv,
       UninvitedInv, StartSteps
  <2> QED
    BY <2>1, <2>2
<1>5. CASE PrepareRaises
  BY <1>5 DEF PrepareRaises, TypeOK, BindConsistent, Alive, StartingInv, LogInv,
     ReadyIsMine, CallInv, UninvitedInv, StartSteps
<1>6. CASE ReadyReturns
  BY <1>6 DEF ReadyReturns, TypeOK, BindConsistent, Alive, StartingInv, LogInv,
     ReadyIsMine, CallInv, UninvitedInv, StartSteps
<1>7. CASE ReadyRaises
  BY <1>7 DEF ReadyRaises, TypeOK, BindConsistent, Alive, StartingInv, LogInv,
     ReadyIsMine, CallInv, UninvitedInv, StartSteps
<1> QED
  BY <1>1, <1>2, <1>3, <1>4, <1>5, <1>6, <1>7

\* What either use of stop() does before it waits.
StopEffect(d) ==
    /\ proc' \in [Daemon -> {"none", "starting", "bound", "terminating", "killed", "exited"}]
    /\ \A e \in Daemon : e # d => proc'[e] = proc[e]
    /\ proc'[d] \notin {"starting", "bound"}
    /\ (\E p \in Port : bind[p] = d) => proc'[d] \in {"terminating", "killed"}
    /\ pc = "idle" /\ pc' \in {"reap", "restore"} /\ cur' = d
    /\ UNCHANGED <<std, bind, log, spawnBound, seen, stdAtStart, failing>>

LEMMA StopPreserves ==
  ASSUME IInv, NEW d \in Daemon,
         StopFinally(d) \/ \E g \in BOOLEAN : StopForRestart(d, g)
  PROVE  IInv'
<1> USE DaemonAssumption DEF IInv
<1>1. CASE StopFinally(d)
  <2>1. StopEffect(d)
    BY <1>1 DEF StopFinally, Stop, StopEffect, TypeOK, BindConsistent, Alive
  <2>2. /\ phase' = [phase EXCEPT ![d] = "done"]
        /\ UNCHANGED restarts
        /\ restoring' => \A e \in Daemon \ {d} : phase[e] = "done"
    BY <1>1 DEF StopFinally, Stop
  <2>3. restoring' \in BOOLEAN
    BY <1>1, Zenon DEF StopFinally, Stop
  <2>4. TypeOK'
    BY <2>1, <2>2, <2>3 DEF StopEffect, TypeOK
  <2>5. BindConsistent'
    BY <2>1 DEF StopEffect, TypeOK, BindConsistent, Alive
  <2>6. StartingInv' /\ LogInv' /\ ReadyIsMine' /\ CallInv' /\ UninvitedInv'
    BY <2>1, <2>2 DEF StopEffect, TypeOK, StartingInv, LogInv, ReadyIsMine, CallInv,
       UninvitedInv, StartSteps
  <2> QED
    BY <2>4, <2>5, <2>6
<1>2. ASSUME NEW g \in BOOLEAN, StopForRestart(d, g) PROVE IInv'
  <2>1. StopEffect(d)
    BY <1>2 DEF StopForRestart, Stop, StopEffect, TypeOK, BindConsistent, Alive
  <2>2. /\ phase' = [phase EXCEPT ![d] = "stopped"]
        /\ restarts < MaxRestarts /\ restarts' = restarts + 1
        /\ phase[d] = "ready" /\ ~restoring'
    BY <1>2 DEF StopForRestart, Stop
  <2>3. restoring' \in BOOLEAN
    BY <1>2, Zenon DEF StopForRestart, Stop
  <2>4. TypeOK'
    BY <2>1, <2>2, <2>3 DEF StopEffect, TypeOK
  <2>5. BindConsistent'
    BY <2>1 DEF StopEffect, TypeOK, BindConsistent, Alive
  <2>6. StartingInv' /\ LogInv' /\ ReadyIsMine' /\ CallInv' /\ UninvitedInv'
    BY <2>1, <2>2 DEF StopEffect, TypeOK, StartingInv, LogInv, ReadyIsMine, CallInv,
       UninvitedInv, StartSteps
  <2> QED
    BY <2>4, <2>5, <2>6
<1> QED
  BY <1>1, <1>2

LEMMA StopStepPreserves ==
  ASSUME IInv, StopStep PROVE IInv'
<1> USE DaemonAssumption DEF IInv, StopStep, test
<1>1. CASE Reap
  BY <1>1 DEF Reap, WaitExpires, TypeOK, BindConsistent, Alive, StartingInv, LogInv,
     ReadyIsMine, CallInv, UninvitedInv, StartSteps
<1>2. CASE NoRestore
  BY <1>2 DEF NoRestore, TypeOK, BindConsistent, Alive, StartingInv, LogInv, ReadyIsMine,
     CallInv, UninvitedInv, StartSteps
<1>3. CASE Restore
  <2>1. TypeOK' /\ BindConsistent'
    BY <1>3 DEF Restore, RunLabDaemonScript, TypeOK, BindConsistent, Alive, Holder
  <2>2. StartingInv'
    BY <1>3 DEF Restore, RunLabDaemonScript, MustRestore, TypeOK, StartingInv, CallInv
  <2>3. LogInv' /\ ReadyIsMine' /\ CallInv' /\ UninvitedInv'
    BY <1>3 DEF Restore, RunLabDaemonScript, MustRestore, TypeOK, LogInv, ReadyIsMine,
       CallInv, UninvitedInv, StartSteps
  <2> QED
    BY <2>1, <2>2, <2>3
<1> QED
  BY <1>1, <1>2, <1>3

LEMMA EnvironmentPreserves ==
  ASSUME IInv, Environment PROVE IInv'
<1> USE DaemonAssumption DEF IInv, Environment, call, test, Free
<1>1. CASE StdExits
  BY <1>1 DEF StdExits, TypeOK, BindConsistent, Alive, StartingInv, LogInv, ReadyIsMine,
     CallInv, UninvitedInv, StartSteps
<1>2. ASSUME NEW d \in Daemon, DaemonBinds(d) PROVE IInv'
  <2>1. TypeOK' /\ BindConsistent'
    BY <1>2 DEF DaemonBinds, TypeOK, BindConsistent, Alive, StartingInv, Holder
  <2>2. StartingInv' /\ LogInv' /\ ReadyIsMine' /\ CallInv' /\ UninvitedInv'
    BY <1>2 DEF DaemonBinds, TypeOK, StartingInv, LogInv, ReadyIsMine, CallInv,
       UninvitedInv, StartSteps
  <2> QED
    BY <2>1, <2>2
<1>3. ASSUME NEW d \in Daemon, DaemonCannotBind(d) PROVE IInv'
  BY <1>3 DEF DaemonCannotBind, TypeOK, BindConsistent, Alive, StartingInv, LogInv,
     ReadyIsMine, CallInv, UninvitedInv, StartSteps
<1>4. ASSUME NEW d \in Daemon, DaemonExits(d) PROVE IInv'
  BY <1>4 DEF DaemonExits, TypeOK, BindConsistent, Alive, StartingInv, LogInv,
     ReadyIsMine, CallInv, UninvitedInv, StartSteps
<1>5. ASSUME NEW f \in Foreign, NEW p \in Port, ForeignBinds(f, p) PROVE IInv'
  BY <1>5 DEF ForeignBinds, TypeOK, BindConsistent, Alive, StartingInv, LogInv,
     ReadyIsMine, CallInv, UninvitedInv, StartSteps, Holder
<1>6. ASSUME NEW f \in Foreign, ForeignExits(f) PROVE IInv'
  BY <1>6 DEF ForeignExits, TypeOK, BindConsistent, Alive, StartingInv, LogInv,
     ReadyIsMine, CallInv, UninvitedInv, StartSteps
<1>7. CASE OperatorSweep
  <2> DEFINE h == PortHolder(LabPort)
  <2>1. h \in Daemon \cup Foreign
    BY <1>7 DEF OperatorSweep, LooksStale
  <2>2. CASE h \in Daemon
    BY <1>7, <2>2 DEF OperatorSweep, TypeOK, BindConsistent, Alive, StartingInv, LogInv,
       ReadyIsMine, CallInv, UninvitedInv, StartSteps
  <2>3. CASE h \in Foreign
    BY <1>7, <2>3 DEF OperatorSweep, TypeOK, BindConsistent, Alive, StartingInv, LogInv,
       ReadyIsMine, CallInv, UninvitedInv, StartSteps
  <2> QED
    BY <2>1, <2>2, <2>3
<1> QED
  BY <1>1, <1>2, <1>3, <1>4, <1>5, <1>6, <1>7

LEMMA NextIInv == IInv /\ [Next]_vars => IInv'
<1> SUFFICES ASSUME IInv, [Next]_vars PROVE IInv'
  OBVIOUS
<1>1. CASE UNCHANGED vars
  BY <1>1 DEF vars, IInv, TypeOK, BindConsistent, Alive, StartingInv, LogInv, ReadyIsMine,
     CallInv, UninvitedInv
<1>2. CASE BodyEnds
  BY <1>2 DEF BodyEnds, call, IInv, TypeOK, BindConsistent, Alive, StartingInv, LogInv,
     ReadyIsMine, CallInv, UninvitedInv, StartSteps
<1> QED
  BY <1>1, <1>2, StartPreserves, StartStepPreserves, StopPreserves, StopStepPreserves,
     EnvironmentPreserves DEF Next, Session, TestStep

\* Ports, processes, logs and the call in progress agree at every step of
\* start(), stop() and of whatever else happens on the machine.
THEOREM Invariant == Spec => []IInv
BY InitIInv, NextIInv, PTL DEF Spec

\* The type invariant of the specification.
THEOREM TypeCorrect == Spec => []TypeOK
BY Invariant, PTL DEF IInv

\* start() never returns for a process that did not bind its port.
THEOREM ReadyMeansBound == Spec => []ReadyIsMine
BY Invariant, PTL DEF IInv

\* No scenario daemon is spawned on the lab bind beside the standard daemon.
THEOREM ExclusiveBind == Spec => []NeverBesideStandard
<1>1. IInv => NeverBesideStandard
  BY DEF IInv, StartingInv, NeverBesideStandard
<1> QED
  BY <1>1, Invariant, PTL

\* A session leaves no standard daemon behind that it did not find.
THEOREM OnlyRestores == Spec => []NoUninvitedStandard
<1>1. IInv => NoUninvitedStandard
  BY DEF IInv, UninvitedInv, NoUninvitedStandard
<1> QED
  BY <1>1, Invariant, PTL

-----------------------------------------------------------------------------
(* The teardown *)

\* Until the session's first start() looks, a standard daemon that ran at the
\* start is still up; the object that looked is not started again unless the
\* test restarts it.
SeenInv ==
    stdAtStart /\ restarts = 0 =>
        /\ phase[Lead] # "stopped"
        /\ \/ /\ seen[Lead]
              /\ phase[Lead] = "new" => pc \in StartSteps /\ cur = Lead
           \/ /\ log[Lead] = "absent"
              /\ phase[Lead] \in {"new", "done"}
              /\ pc \in StartSteps => cur # Lead
              /\ phase[Lead] = "new" => std = "up"

LEMMA StartKeepsSeen ==
  ASSUME IInv, SeenInv, NEW d \in Daemon, Start(d) PROVE SeenInv'
<1> USE DaemonAssumption DEF Start, test, PgrepStandard, SeenInv, StartSteps
<1>1. CASE d = Lead
  BY <1>1 DEF IInv, TypeOK
<1>2. CASE d # Lead
  BY <1>2 DEF IInv, TypeOK
<1> QED
  BY <1>1, <1>2

LEMMA SessionKeepsSeen ==
  ASSUME IInv, SeenInv, StartStep \/ StopStep \/ BodyEnds PROVE SeenInv'
<1> USE DaemonAssumption DEF IInv, TypeOK, CallInv, SeenInv, StartSteps, test, call
<1>1. CASE StartStep
  <2>1. CASE WaitStd \/ PreflightPasses
    BY <2>1 DEF WaitStd, PreflightPasses
  <2>2. CASE PreflightRefuses \/ PrepareRaises \/ ReadyRaises
    BY <2>2 DEF PreflightRefuses, PrepareRaises, ReadyRaises, StartRaises
  <2>3. CASE Spawn
    BY <2>3 DEF Spawn, TruncatedLog
  <2>4. CASE ReadyReturns
    BY <2>4 DEF ReadyReturns
  <2> QED
    BY <1>1, <2>1, <2>2, <2>3, <2>4 DEF StartStep
<1>2. CASE Reap \/ NoRestore
  BY <1>2 DEF Reap, NoRestore
<1>3. CASE Restore
  BY <1>3 DEF Restore, RunLabDaemonScript
<1>4. CASE BodyEnds
  BY <1>4 DEF BodyEnds
<1> QED
  BY <1>1, <1>2, <1>3, <1>4 DEF StopStep

LEMMA StopKeepsSeen ==
  ASSUME IInv, SeenInv, NEW d \in Daemon,
         StopFinally(d) \/ \E g \in BOOLEAN : StopForRestart(d, g)
  PROVE  SeenInv'
<1> USE DaemonAssumption DEF IInv, TypeOK, SeenInv, StartSteps, Stop
<1>1. CASE StopFinally(d)
  BY <1>1 DEF StopFinally
<1>2. ASSUME NEW g \in BOOLEAN, StopForRestart(d, g) PROVE SeenInv'
  BY <1>2 DEF StopForRestart
<1> QED
  BY <1>1, <1>2

LEMMA EnvironmentKeepsSeen ==
  ASSUME IInv, SeenInv, Environment PROVE SeenInv'
<1> USE DaemonAssumption DEF IInv, TypeOK, StartingInv, SeenInv, StartSteps, call, test
<1>1. CASE StdExits
  BY <1>1 DEF StdExits
<1>2. ASSUME NEW d \in Daemon, DaemonBinds(d) \/ DaemonCannotBind(d) \/ DaemonExits(d)
      PROVE  SeenInv'
  <2>1. UNCHANGED <<std, seen, call, test>>
    BY <1>2 DEF DaemonBinds, DaemonCannotBind, DaemonExits
  <2>2. log[Lead] = "absent" /\ phase[Lead] \in {"new", "done"}
        /\ (pc \in StartSteps => cur # Lead) => log'[Lead] = "absent"
    BY <1>2 DEF DaemonBinds, DaemonCannotBind, DaemonExits
  <2> QED
    BY <2>1, <2>2
<1>3. ASSUME NEW f \in Foreign, ForeignExits(f) \/ \E p \in Port : ForeignBinds(f, p)
      PROVE  SeenInv'
  <2>1. UNCHANGED <<std, log, seen, call, test>>
    BY <1>3, Zenon DEF ForeignBinds, ForeignExits
  <2> QED
    BY <2>1
<1>4. CASE OperatorSweep
  <2>1. UNCHANGED <<std, log, spawnBound, seen, call, test>>
    BY <1>4, Zenon DEF OperatorSweep
  <2> QED
    BY <2>1
<1> QED
  BY <1>1, <1>2, <1>3, <1>4 DEF Environment

LEMMA NextSeen == IInv /\ SeenInv /\ [Next]_vars => SeenInv'
<1> SUFFICES ASSUME IInv, SeenInv, [Next]_vars PROVE SeenInv'
  OBVIOUS
<1>1. CASE UNCHANGED vars
  BY <1>1 DEF vars, SeenInv
<1> QED
  BY <1>1, StartKeepsSeen, SessionKeepsSeen, StopKeepsSeen, EnvironmentKeepsSeen
     DEF Next, Session, TestStep

LEMMA TeardownStep ==
  ASSUME IInv, SeenInv, [Next]_vars, PlainTeardown PROVE std' = "up"
<1>1. pc = "restore" /\ pc' = "idle" /\ cur = Lead /\ MustRestore /\ bind[LabPort] = Nobody
  BY DEF PlainTeardown, SeenInv, MustRestore
<1>2. NoRestore \/ Restore
  BY <1>1 DEF Next, Session, StartStep, WaitStd, PreflightRefuses, PreflightPasses, Spawn,
     PrepareRaises, ReadyReturns, ReadyRaises, StopStep, Reap, TestStep, Start, StopFinally,
     StopForRestart, BodyEnds, Environment, StdExits, DaemonBinds, DaemonCannotBind,
     DaemonExits, ForeignBinds, ForeignExits, OperatorSweep, call, vars
<1> QED
  BY <1>1, <1>2 DEF NoRestore, Restore, RunLabDaemonScript

\* A teardown without a restart in the test brings the standard daemon back
\* that ran when the session began, unless somebody else has its port.
THEOREM TeardownIsRestore == Spec => TeardownRestores
<1>1. Init => SeenInv
  <2> SUFFICES ASSUME Init PROVE SeenInv
    OBVIOUS
  <2>1. stdAtStart => std = "up"
    BY Zenon DEF Init
  <2>2. log[Lead] = "absent" /\ phase[Lead] = "new" /\ pc = "idle"
    BY DaemonAssumption DEF Init
  <2> QED
    BY <2>1, <2>2 DEF SeenInv, StartSteps
<1>2. IInv /\ SeenInv /\ [Next]_vars => [PlainTeardown => std' = "up"]_vars
  BY TeardownStep
<1> QED
  BY <1>1, <1>2, NextSeen, Invariant, PTL DEF Spec, TeardownRestores
=============================================================================
