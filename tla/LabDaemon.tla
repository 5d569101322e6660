------------------------------ MODULE LabDaemon ------------------------------
(***************************************************************************)
(* The scenario daemons of the physical bench (fips_lab/bench.py, class    *)
(* LabDaemon) against the standard lab daemon whose UDP bind they borrow.  *)
(*                                                                         *)
(* One pytest session drives the objects in Daemon, one call at a time     *)
(* (pc is the step of the call in progress, cur its object).  The          *)
(* operating system interleaves with every step: daemons bind, fail, exit  *)
(* late or crash, processes outside the session take and free ports, and   *)
(* an operator may run kill_stale_lab_daemon.                              *)
(***************************************************************************)
EXTENDS Naturals, FiniteSets

CONSTANTS
    Daemon,       \* LabDaemon objects of the session
    Lead,         \* the object whose teardown stop() restores the standard daemon
    Port, LabPort,
    PortOf,       \* the UDP bind of each object
    Foreign,      \* processes outside the session that may hold a bind
    Visible,      \* those of them whose pid `ss -ulnp` can name (same user)
    Stale,        \* those of them whose command line is a scenario daemon's
    Standard, Nobody,
    Stubborn,     \* objects, or Standard, whose process may outlive the wait
                  \* that follows its SIGTERM (5 s, 10 s for Standard)
    MaxRestarts   \* bound on stop(restore=False); start() pairs in one test

ASSUME DaemonAssumption ==
    /\ Lead \in Daemon
    /\ LabPort \in Port
    /\ PortOf \in [Daemon -> Port]
    /\ PortOf[Lead] = LabPort
    /\ Visible \subseteq Foreign
    /\ Stale \subseteq Foreign
    /\ Stubborn \subseteq Daemon \cup {Standard}
    /\ Daemon \cap Foreign = {}
    /\ Standard \notin Daemon \cup Foreign
    /\ Nobody \notin Daemon \cup Foreign \cup {Standard}
    /\ MaxRestarts \in Nat

VARIABLES
    std,       \* the standard lab daemon: down, up or terminating
    bind,      \* which process holds each UDP port
    proc,      \* the process behind each object's _proc
    log,       \* what daemon.log says since it was last truncated
    spawnBound,\* history: the process of the last spawn did bind its port
    seen,      \* _standard_was_running of each object
    phase,     \* how far the test has taken each object
    pc, cur,   \* step of the call in progress, and its object
    restoring, \* the `restore` argument of the stop() in progress
    failing,   \* the test body is over: only the finally block is left
    restarts,
    stdAtStart \* history: the standard daemon ran when the session began

vars == <<std, bind, proc, log, spawnBound, seen, phase, pc, cur, restoring,
          failing, restarts, stdAtStart>>
call == <<pc, cur, restoring>>
test == <<phase, failing, restarts, stdAtStart>>

Holder == Daemon \cup Foreign \cup {Standard}
Alive(d) == proc[d] \in {"starting", "bound", "terminating", "killed"}

Free(h) == [p \in Port |-> IF bind[p] = h THEN Nobody ELSE bind[p]]

\* _udp_port_holder: the holder ss names, or Nobody -- also when the holder
\* belongs to another user and ss prints no users:(...) column for it.
PortHolder(p) == IF bind[p] \in Foreign \ Visible THEN Nobody ELSE bind[p]

\* _is_stale_scenario_daemon: a command line with a config under results/.
\* The session's own daemons match it as well as the left-over ones.
LooksStale(h) == h \in Daemon \cup Stale

\* pgrep -f "fips --config <standard config>" finds a process, dying or not.
PgrepStandard == std # "down"

\* Mutant: no pre-flight, as before fips-lab #9.
NoPreflight == TRUE
BindIsFree == PortHolder(PortOf[cur]) = Nobody

\* daemon.log is truncated before the spawn.  Mutants: it is appended to;
\* it is deleted.
AppendedLog == log
DeletedLog == [log EXCEPT ![cur] = "deleted"]
TruncatedLog == [log EXCEPT ![cur] = "empty"]

\* Mutants: restore whatever start() saw; forget to restore.
RestoreAlways == restoring
RestoreNever == FALSE
MustRestore == restoring /\ seen[cur]

\* stop() gives a signalled process 5 s.  Mutant: wait() without a timeout.
WaitForever == FALSE
WaitExpires == Alive(cur) /\ cur \in Stubborn

-----------------------------------------------------------------------------
(* start() *)

\* pgrep the standard daemon, remember the answer, send it SIGTERM.
Start(d) ==
    /\ pc = "idle" /\ ~failing
    /\ phase[d] \in {"new", "stopped"}
    /\ d # Lead => phase[Lead] # "new"
    /\ seen' = [seen EXCEPT ![d] = PgrepStandard]
    /\ std' = IF std = "up" THEN "terminating" ELSE std
    /\ cur' = d
    /\ pc' = "wait_std"
    /\ UNCHANGED <<bind, proc, log, spawnBound, restoring, test>>

\* The wait ends when the pid is gone or after 10 s, whichever comes first.
WaitStd ==
    /\ pc = "wait_std"
    /\ std = "down" \/ Standard \in Stubborn
    /\ pc' = "preflight"
    /\ UNCHANGED <<std, bind, proc, log, spawnBound, seen, cur, restoring, test>>

StartRaises ==
    /\ pc' = "idle"
    /\ failing' = TRUE
    /\ phase' = [phase EXCEPT ![cur] = "raised"]
    /\ UNCHANGED <<std, bind, proc, log, spawnBound, seen, cur, restoring,
                   restarts, stdAtStart>>

PreflightRefuses ==
    /\ pc = "preflight"
    /\ ~BindIsFree
    /\ StartRaises

PreflightPasses ==
    /\ pc = "preflight"
    /\ BindIsFree
    /\ pc' = "spawn"
    /\ UNCHANGED <<std, bind, proc, log, spawnBound, seen, cur, restoring, test>>

\* Render the config, truncate the log, Popen.
Spawn ==
    /\ pc = "spawn"
    /\ log' = TruncatedLog
    /\ proc' = [proc EXCEPT ![cur] = "starting"]
    /\ spawnBound' = [spawnBound EXCEPT ![cur] = FALSE]
    /\ pc' = "wait_ready"
    /\ UNCHANGED <<std, bind, seen, cur, restoring, test>>

\* The template is unreadable or no identity can be derived.
PrepareRaises ==
    /\ pc = "spawn"
    /\ StartRaises

ReadyReturns ==
    /\ pc = "wait_ready"
    /\ log[cur] = "started"
    /\ pc' = "idle"
    /\ phase' = [phase EXCEPT ![cur] = "ready"]
    /\ UNCHANGED <<std, bind, proc, log, spawnBound, seen, cur, restoring,
                   failing, restarts, stdAtStart>>

\* "Failed to start node", an exited process, or 20 s without the line.
ReadyRaises ==
    /\ pc = "wait_ready"
    /\ log[cur] # "started"
    /\ StartRaises

-----------------------------------------------------------------------------
(* stop(restore, graceful) *)

Stop(d, restore, graceful) ==
    /\ cur' = d
    /\ restoring' = restore
    /\ IF Alive(d)
         THEN /\ proc' = [proc EXCEPT ![d] = IF @ = "killed" \/ ~graceful
                                               THEN "killed" ELSE "terminating"]
              /\ pc' = "reap"
         ELSE /\ pc' = "restore"
              /\ UNCHANGED proc
    /\ UNCHANGED <<std, bind, log, spawnBound, seen, stdAtStart>>

\* Mid-test: stop(restore=False), graceful or SIGKILL (link-death scenarios).
StopForRestart(d, graceful) ==
    /\ pc = "idle" /\ ~failing
    /\ phase[d] = "ready"
    /\ restarts < MaxRestarts
    /\ restarts' = restarts + 1
    /\ phase' = [phase EXCEPT ![d] = "stopped"]
    /\ UNCHANGED failing
    /\ Stop(d, FALSE, graceful)

\* The finally block: every object is stopped, Lead last and restoring.
StopFinally(d) ==
    /\ pc = "idle" /\ failing
    /\ phase[d] # "done"
    /\ d = Lead => \A e \in Daemon \ {Lead} : phase[e] = "done"
    /\ phase' = [phase EXCEPT ![d] = "done"]
    /\ UNCHANGED <<restarts, failing>>
    /\ Stop(d, d = Lead, TRUE)

\* wait(timeout=5): the process is gone, or it is sent SIGKILL -- and not
\* waited for again.
Reap ==
    /\ pc = "reap"
    /\ \/ /\ ~Alive(cur)
          /\ UNCHANGED proc
       \/ /\ WaitExpires
          /\ proc' = [proc EXCEPT ![cur] = "killed"]
    /\ pc' = "restore"
    /\ UNCHANGED <<std, bind, log, spawnBound, seen, cur, restoring, test>>

NoRestore ==
    /\ pc = "restore"
    /\ ~MustRestore
    /\ pc' = "idle"
    /\ UNCHANGED <<std, bind, proc, log, spawnBound, seen, cur, restoring, test>>

\* scripts/run_lab_daemon.sh of the firmware repository: it starts the
\* standard daemon, which comes up when it can bind; nobody reads its status.
RunLabDaemonScript ==
    IF bind[LabPort] = Nobody
      THEN /\ bind' = [bind EXCEPT ![LabPort] = Standard]
           /\ std' = "up"
      ELSE UNCHANGED <<bind, std>>

Restore ==
    /\ pc = "restore"
    /\ MustRestore
    /\ RunLabDaemonScript
    /\ pc' = "idle"
    /\ UNCHANGED <<proc, log, spawnBound, seen, cur, restoring, test>>

\* The test body ends, by returning or by an assertion.
BodyEnds ==
    /\ pc = "idle" /\ ~failing
    /\ failing' = TRUE
    /\ UNCHANGED <<std, bind, proc, log, spawnBound, seen, call, phase,
                   restarts, stdAtStart>>

SessionOver == pc = "idle" /\ \A d \in Daemon : phase[d] = "done"

-----------------------------------------------------------------------------
(* The operating system and the other users of the machine *)

StdExits ==
    /\ std = "terminating"
    /\ std' = "down"
    /\ bind' = Free(Standard)
    /\ UNCHANGED <<proc, log, spawnBound, seen, call, test>>

DaemonBinds(d) ==
    /\ proc[d] = "starting"
    /\ bind[PortOf[d]] = Nobody
    /\ bind' = [bind EXCEPT ![PortOf[d]] = d]
    /\ proc' = [proc EXCEPT ![d] = "bound"]
    /\ log' = [log EXCEPT ![d] = "started"]
    /\ spawnBound' = [spawnBound EXCEPT ![d] = TRUE]
    /\ UNCHANGED <<std, seen, call, test>>

\* EADDRINUSE: the daemon logs the failure and exits.
DaemonCannotBind(d) ==
    /\ proc[d] = "starting"
    /\ bind[PortOf[d]] # Nobody
    /\ proc' = [proc EXCEPT ![d] = "exited"]
    /\ log' = [log EXCEPT ![d] = "failed"]
    /\ UNCHANGED <<std, bind, spawnBound, seen, call, test>>

\* A signalled daemon exits, or a running one crashes.
DaemonExits(d) ==
    /\ Alive(d)
    /\ proc' = [proc EXCEPT ![d] = "exited"]
    /\ bind' = Free(d)
    /\ UNCHANGED <<std, log, spawnBound, seen, call, test>>

ForeignBinds(f, p) ==
    /\ bind[p] = Nobody
    /\ \A q \in Port : bind[q] # f
    /\ bind' = [bind EXCEPT ![p] = f]
    /\ UNCHANGED <<std, proc, log, spawnBound, seen, call, test>>

ForeignExits(f) ==
    /\ \E p \in Port : bind[p] = f
    /\ bind' = Free(f)
    /\ UNCHANGED <<std, proc, log, spawnBound, seen, call, test>>

\* kill_stale_lab_daemon from another shell: SIGTERM, then SIGKILL, to a
\* holder that looks like a scenario daemon; any other holder is refused.
OperatorSweep ==
    LET h == PortHolder(LabPort)
    IN  /\ LooksStale(h)
        /\ IF h \in Daemon
             THEN /\ proc' = [proc EXCEPT ![h] = "killed"]
                  /\ UNCHANGED bind
             ELSE /\ bind' = Free(h)
                  /\ UNCHANGED proc
        /\ UNCHANGED <<std, log, spawnBound, seen, call, test>>

-----------------------------------------------------------------------------
Init ==
    /\ std \in {"down", "up"}
    /\ bind = [p \in Port |-> IF p = LabPort /\ std = "up" THEN Standard ELSE Nobody]
    /\ proc = [d \in Daemon |-> "none"]
    /\ log = [d \in Daemon |-> "absent"]
    /\ spawnBound = [d \in Daemon |-> FALSE]
    /\ seen = [d \in Daemon |-> FALSE]
    /\ phase = [d \in Daemon |-> "new"]
    /\ pc = "idle"
    /\ cur = Lead
    /\ restoring = FALSE
    /\ failing = FALSE
    /\ restarts = 0
    /\ stdAtStart = (std = "up")

StartStep == WaitStd \/ PreflightRefuses \/ PreflightPasses \/ Spawn
             \/ PrepareRaises \/ ReadyReturns \/ ReadyRaises
StopStep == Reap \/ NoRestore \/ Restore
TestStep == \/ \E d \in Daemon : Start(d) \/ StopFinally(d)
            \/ \E d \in Daemon, g \in BOOLEAN : StopForRestart(d, g)
            \/ BodyEnds
Session == StartStep \/ StopStep \/ TestStep
Environment ==
    \/ StdExits
    \/ \E d \in Daemon : DaemonBinds(d) \/ DaemonCannotBind(d) \/ DaemonExits(d)
    \/ \E f \in Foreign, p \in Port : ForeignBinds(f, p)
    \/ \E f \in Foreign : ForeignExits(f)
    \/ OperatorSweep

\* A finished session only watches its environment.
Next == Session \/ Environment

Doomed(d) == proc[d] = "killed" \/ (proc[d] = "terminating" /\ d \notin Stubborn)

\* The interpreter runs the session to its end (pytest executes the finally
\* block); a signalled daemon that is not stubborn exits.
Fairness ==
    /\ WF_vars(Session)
    /\ WF_vars(Standard \notin Stubborn /\ StdExits)
    /\ \A d \in Daemon : WF_vars(Doomed(d) /\ DaemonExits(d))

Spec == Init /\ [][Next]_vars /\ Fairness

-----------------------------------------------------------------------------
(* Properties *)

\* Every variable stays in its domain; the counter respects its bound.
TypeOK ==
    /\ std \in {"down", "up", "terminating"}
    /\ bind \in [Port -> Holder \cup {Nobody}]
    /\ proc \in [Daemon -> {"none", "starting", "bound", "terminating", "killed", "exited"}]
    /\ log \in [Daemon -> {"absent", "empty", "started", "failed"}]
    /\ spawnBound \in [Daemon -> BOOLEAN]
    /\ seen \in [Daemon -> BOOLEAN]
    /\ phase \in [Daemon -> {"new", "ready", "stopped", "raised", "done"}]
    /\ pc \in {"idle", "wait_std", "preflight", "spawn", "wait_ready", "reap", "restore"}
    /\ cur \in Daemon
    /\ restoring \in BOOLEAN
    /\ failing \in BOOLEAN
    /\ restarts \in 0 .. MaxRestarts
    /\ stdAtStart \in BOOLEAN

\* Ports and processes agree: a bind belongs to a live process on its own
\* port, a daemon that runs holds its port, and so does the standard daemon.
BindConsistent ==
    /\ \A p \in Port, d \in Daemon : bind[p] = d => Alive(d) /\ PortOf[d] = p
    /\ \A d \in Daemon : proc[d] = "bound" => bind[PortOf[d]] = d
    /\ std # "down" <=> bind[LabPort] = Standard
    /\ \A p \in Port : bind[p] = Standard => p = LabPort

\* start() returns only for a process of its own that did bind the port
\* ("UDP transport started" was written by this spawn, not by an earlier one).
ReadyIsMine == \A d \in Daemon : phase[d] = "ready" => spawnBound[d]

\* The start() of the object that borrows the standard daemon's bind never
\* spawns next to it: by then the standard daemon has given the port up.
NeverBesideStandard ==
    \A d \in Daemon : proc[d] = "starting" /\ PortOf[d] = LabPort
                         => std = "down"

\* The class promises to restore the standard daemon "if one was running":
\* a session never leaves one behind that it did not find.
NoUninvitedStandard == SessionOver /\ ~stdAtStart => std = "down"

\* ... and one that was running is running again when the session is over
\* ("the final teardown stop() restores it once").
StandardRestored == SessionOver /\ stdAtStart => std = "up"

\* So it is without a mid-test restart: the teardown of a session that came
\* as far as spawning its daemon brings the standard one back, unless somebody
\* else has the port by then.
PlainTeardown ==
    /\ pc = "restore" /\ pc' = "idle"
    /\ restoring /\ cur = Lead
    /\ stdAtStart /\ restarts = 0
    /\ log[Lead] # "absent"
    /\ bind[LabPort] = Nobody
TeardownRestores == [][PlainTeardown => std' = "up"]_vars

\* Every call returns or raises, and the session ends, whatever its
\* daemons and the other users of the ports do.
SessionEnds == <>SessionOver
=============================================================================
