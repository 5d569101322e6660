-------------------------------- MODULE Deploy --------------------------------
(***************************************************************************)
(* DeployManager (lab/deploy.py): restart_all and stop_all over the FIPS   *)
(* nodes of a scenario, command by command, while the nodes run, die and   *)
(* are respawned by systemd on their own.                                  *)
(*                                                                         *)
(* A phase handles the nodes of todo one after the other; the model takes  *)
(* any order, the code the order of the topology.  A command may fail on a *)
(* node without anybody looking at its status, and on a Flaky node it may  *)
(* time out: TimeoutExpired leaves the call in progress.                   *)
(***************************************************************************)
EXTENDS FiniteSets, Naturals

CONSTANTS
    Node,          \* FIPS devices of the scenario
    Systemd,       \* those that run as a systemd unit
    Reachable,     \* those whose processes and files the lab may kill and remove
    Crashy,        \* those whose daemon may die on its own
    Flaky          \* those where a command may exceed its timeout

ASSUME DeployAssumption ==
    /\ IsFiniteSet(Node) /\ Node # {}
    /\ Systemd \subseteq Node /\ Reachable \subseteq Node
    /\ Crashy \subseteq Node /\ Flaky \subseteq Node

Age == {"stale", "fresh"}    \* started before, or by, the latest restart_all
None == "none"

VARIABLES
    procs,      \* ages of the fips processes alive on each node
    unit,       \* whether systemd keeps the service of the node alive
    sock,       \* age of the process that answers on the control socket
    keylog,     \* ages of the secrets in the node's keylog file
    outdated,   \* nodes whose binary is not built from the expected commit
    op,         \* the call in progress, or the last one
    dpc, todo,  \* its phase, and the nodes the phase has not handled
    args,       \* arguments keylog and expected_commit (given or not)
    compared,   \* nodes whose version _verify_binary_versions could compare
    mismatch,   \* and whether one of them differed
    dret        \* how the last call ended

nodeVars == <<procs, unit, sock, keylog, outdated>>
checked == <<compared, mismatch>>
callVars == <<op, dpc, todo, args, checked, dret>>

-----------------------------------------------------------------------------
(* Control of a call *)

\* The phases in order.  Mutant: keylogs are cleared before the daemons stop.
ClearFirst == [call |-> "clear", clear |-> "stop", stop |-> "reset", reset |-> "start",
               start |-> "poll", poll |-> "verify", verify |-> "idle"]
RestartOrder == [call |-> "stop", stop |-> "reset", reset |-> "clear", clear |-> "start",
                 start |-> "poll", poll |-> "verify", verify |-> "idle"]

NextPhase(p) ==
    IF op = "stop_all" \/ (RestartOrder[p] = "verify" /\ ~args.commit)
      THEN "idle" ELSE RestartOrder[p]

Return(result) ==
    /\ dpc' = "idle" /\ dret' = result /\ todo' = {}
    /\ UNCHANGED <<op, args>>

\* One node of the phase is done; after the last one the call goes on.
Handled(n) ==
    \/ /\ todo # {n} /\ todo' = todo \ {n}
       /\ UNCHANGED <<op, dpc, args, dret>>
    \/ /\ todo = {n} /\ NextPhase(dpc) # "idle"
       /\ todo' = Node /\ dpc' = NextPhase(dpc)
       /\ UNCHANGED <<op, args, dret>>
    \/ /\ todo = {n} /\ NextPhase(dpc) = "idle"
       /\ Return(IF mismatch' THEN "raised" ELSE "ok")

Call(name, a) ==
    /\ dpc = "idle"
    /\ op' = name /\ args' = a
    /\ dpc' = (IF name = "restart_all" THEN RestartOrder["call"] ELSE "stop")
    /\ todo' = Node /\ dret' = None /\ compared' = {} /\ mismatch' = FALSE

\* What ran and was written before a restart_all is stale from then on.
Aged(S) == IF S = {} THEN {} ELSE {"stale"}

\* behind: the nodes whose binary reports another commit than the expected.
CallRestart(a, behind) ==
    /\ Call("restart_all", a)
    /\ procs' = [n \in Node |-> Aged(procs[n])]
    /\ keylog' = [n \in Node |-> Aged(keylog[n])]
    /\ sock' = [n \in Node |-> IF sock[n] = None THEN None ELSE "stale"]
    /\ outdated' = behind
    /\ UNCHANGED unit

CallStop == Call("stop_all", args) /\ UNCHANGED nodeVars

-----------------------------------------------------------------------------
(* stop_all, per node: stop the unit, kill, remove the socket *)

\* Mutant: the unit is left active.
UnitLeftActive(n) == unit[n]
UnitStopped(n) == IF n \in Reachable THEN FALSE ELSE unit[n]

\* Mutant: the killed process stays as a zombie.
ZombieLeft == {"zombie"}
NothingLeft == {}

\* The node after the first k commands.
StopCommands(n, k) ==
    /\ unit' = [unit EXCEPT ![n] = IF k >= 1 THEN UnitStopped(n) ELSE @]
    /\ procs' = [procs EXCEPT ![n] =
                   IF n \in Reachable /\ (k = 2 \/ (k = 1 /\ unit[n])) THEN NothingLeft ELSE @]
    /\ sock' = [sock EXCEPT ![n] = IF procs'[n] = {} THEN None ELSE @]
    /\ UNCHANGED <<keylog, outdated>>

StopNode(n) ==
    /\ dpc = "stop" /\ n \in todo
    /\ StopCommands(n, 2)
    /\ UNCHANGED checked
    /\ Handled(n)

StopTimesOut(n) ==
    /\ dpc = "stop" /\ n \in todo \cap Flaky
    /\ \E k \in 0..2 : StopCommands(n, k)
    /\ UNCHANGED checked
    /\ Return("raised")

-----------------------------------------------------------------------------
(* The other phases of restart_all *)

\* _reset_esp32_devices catches everything and touches no FIPS node.
ResetMicrofips(n) ==
    /\ dpc = "reset" /\ n \in todo
    /\ UNCHANGED <<nodeVars, checked>>
    /\ Handled(n)

\* _clear_keylogs and _clear_event_logs.
ClearNode(n) ==
    /\ dpc = "clear" /\ n \in todo
    /\ keylog' = [keylog EXCEPT ![n] = IF args.keylog /\ n \in Reachable THEN {} ELSE @]
    /\ UNCHANGED <<procs, unit, sock, outdated, checked>>
    /\ Handled(n)

UnitStarted(n) == IF n \in Systemd THEN TRUE ELSE unit[n]

\* _start_local, _start_ssh_systemd, _start_ssh_nohup: nobody looks at the
\* remote status.  The command may come to nothing, or to a unit whose process
\* fails at once; an active unit is not started again.
StartCommand(n) ==
    /\ \/ UNCHANGED procs
       \/ procs' = [procs EXCEPT ![n] =
                      IF n \in Systemd /\ unit[n] THEN @ ELSE @ \cup {"fresh"}]
    /\ \/ unit' = [unit EXCEPT ![n] = UnitStarted(n)]
       \/ UNCHANGED <<procs, unit>>
    /\ UNCHANGED <<sock, keylog, outdated, checked>>

StartNode(n) ==
    /\ dpc = "start" /\ n \in todo
    /\ StartCommand(n)
    /\ Handled(n)

\* OSError or a timeout of ssh while starting: RuntimeError, whether or not
\* the command has been carried out.
StartRaises(n) ==
    /\ dpc = "start" /\ n \in todo
    /\ StartCommand(n)
    /\ Return("raised")

\* _poll_ready: whoever owns the control socket answers.
PollReady(n) ==
    /\ dpc = "poll" /\ n \in todo
    /\ sock[n] # None
    /\ UNCHANGED <<nodeVars, checked>>
    /\ Handled(n)

\* 60 s without a good answer.  Mutant: the deadline is never reached.
NoDeadline == FALSE
DeadlinePasses == TRUE

PollTimesOut(n) ==
    /\ dpc = "poll" /\ n \in todo
    /\ DeadlinePasses
    /\ UNCHANGED <<nodeVars, checked>>
    /\ Return("raised")

\* What the version a node reports may say: that of a daemon of this run is
\* its binary's, an older one may report any.
Differs(n) == IF sock[n] = "fresh" THEN {n \in outdated} ELSE BOOLEAN

\* Mutant: the last node's version decides.
LastDecides(d) == d
AnyDecides(d) == mismatch \/ d

\* _verify_binary_versions: a node that does not answer, or not with a version
\* that can be parsed, is only warned about.
VerifyNode(n) ==
    /\ dpc = "verify" /\ n \in todo
    /\ \/ UNCHANGED checked
       \/ /\ sock[n] # None /\ compared' = compared \cup {n}
          /\ \E d \in Differs(n) : mismatch' = AnyDecides(d)
    /\ UNCHANGED nodeVars
    /\ Handled(n)

\* A command of these phases exceeds its timeout; nobody catches it.
CommandTimesOut(n) ==
    /\ dpc \in {"clear", "poll", "verify"} /\ n \in todo \cap Flaky
    /\ UNCHANGED <<nodeVars, checked>>
    /\ Return("raised")

-----------------------------------------------------------------------------
(* The nodes on their own *)

\* A daemon binds the control socket at start, unless somebody answers on it.
BindsSocket(n, a) ==
    /\ a \in procs[n] /\ sock[n] = None
    /\ sock' = [sock EXCEPT ![n] = a]
    /\ UNCHANGED <<procs, unit, keylog, outdated, callVars>>

\* A daemon appends the secrets of every handshake.
WritesKeylog(n, a) ==
    /\ a \in procs[n]
    /\ keylog' = [keylog EXCEPT ![n] = @ \cup {a}]
    /\ UNCHANGED <<procs, unit, sock, outdated, callVars>>

Dies(n, a) ==
    /\ n \in Crashy /\ a \in procs[n]
    /\ procs' = [procs EXCEPT ![n] = @ \ {a}]
    /\ sock' = [sock EXCEPT ![n] = IF @ = a THEN None ELSE @]
    /\ UNCHANGED <<unit, keylog, outdated, callVars>>

\* systemd restarts the process of an active unit, with the environment the
\* unit was activated with.
Respawns(n) ==
    /\ unit[n] /\ procs[n] = {}
    /\ procs' = [procs EXCEPT ![n] =
                   {IF dpc \in {"stop", "reset", "clear"} THEN "stale" ELSE "fresh"}]
    /\ UNCHANGED <<unit, sock, keylog, outdated, callVars>>

-----------------------------------------------------------------------------
DeployInit ==
    /\ procs \in [Node -> {{}, {"stale"}}]
    /\ unit = [n \in Node |-> n \in Systemd /\ procs[n] # {}]
    /\ sock = [n \in Node |-> IF procs[n] = {} THEN None ELSE "stale"]
    /\ keylog \in [Node -> {{}, {"stale"}}]
    /\ outdated = {}
    /\ op = None /\ dpc = "idle" /\ todo = {} /\ dret = None
    /\ args = [keylog |-> FALSE, commit |-> FALSE] /\ compared = {} /\ mismatch = FALSE

DeployStep ==
    \E n \in Node :
        \/ StopNode(n) \/ StopTimesOut(n) \/ ResetMicrofips(n) \/ ClearNode(n)
        \/ StartNode(n) \/ StartRaises(n) \/ PollReady(n) \/ PollTimesOut(n)
        \/ VerifyNode(n) \/ CommandTimesOut(n)

NodeStep ==
    \E n \in Node :
        \/ Respawns(n)
        \/ \E a \in Age : BindsSocket(n, a) \/ WritesKeylog(n, a) \/ Dies(n, a)

deployVars == <<nodeVars, callVars>>

-----------------------------------------------------------------------------
(* Properties *)

Phases == {"idle", "stop", "reset", "clear", "start", "poll", "verify"}

DeployTypeOK ==
    /\ procs \in [Node -> SUBSET Age]
    /\ unit \in [Node -> BOOLEAN]
    /\ sock \in [Node -> Age \cup {None}]
    /\ keylog \in [Node -> SUBSET Age]
    /\ outdated \in SUBSET Node
    /\ op \in {None, "restart_all", "stop_all"}
    /\ dpc \in Phases
    /\ todo \in SUBSET Node
    /\ args \in [keylog : BOOLEAN, commit : BOOLEAN]
    /\ compared \in SUBSET Node /\ mismatch \in BOOLEAN
    /\ dret \in {None, "ok", "raised"}

Restarted == op = "restart_all" /\ dret = "ok"

\* After a restart_all that returned, no daemon of an earlier run is left on a
\* node the lab can reach, and none answers for the new one.
FreshAnswers ==
    Restarted => \A n \in Reachable : sock[n] # "stale" /\ "stale" \notin procs[n]

\* After a restart_all with keylog, a keylog holds secrets of this run only:
\* nothing that was running may write between the rm and the kill.
KeylogFresh ==
    Restarted /\ args.keylog => \A n \in Reachable : "stale" \notin keylog[n]
=============================================================================
