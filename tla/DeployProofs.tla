----------------------------- MODULE DeployProofs -----------------------------
(***************************************************************************)
(* What every step of DeployManager and of the nodes preserves, for any    *)
(* nodes; RunnerProofs uses this part too.  Then the program that builds a *)
(* commit and deploys it, for any nodes, commits and clones: the restarted *)
(* nodes run what was built on them, those whose versions were compared run *)
(* one, and their keylogs hold secrets of the run only.                    *)
(***************************************************************************)
EXTENDS Build, TLAPS

\* Nothing runs on the node and systemd brings nothing back.
Down(n) == procs[n] = {} /\ sock[n] = None /\ unit[n] = FALSE

\* Nothing of an earlier run is left on the node.
Clean(n) == procs[n] \subseteq {"fresh"} /\ sock[n] # "stale"

Restarting == op = "restart_all"
AfterStart == dpc \in {"start", "poll", "verify"}

\* The call in progress: which phases it has, and that it has no result yet.
CallInv ==
    /\ dpc # "idle" => dret = None /\ op # None
    /\ op = "stop_all" => dpc \in {"stop", "idle"}

\* What stop_all has done to the nodes it has handled lasts until
\* restart_all starts them, and is what a returned stop_all leaves.
StopInv ==
    \A n \in Reachable :
        /\ dpc = "stop" /\ n \notin todo => Down(n)
        /\ Restarting /\ dpc \in {"reset", "clear"} => Down(n)
        /\ Restarting /\ (AfterStart \/ dret = "ok") => Clean(n)
        /\ op = "stop_all" /\ dret = "ok" => Down(n)

\* A keylog cleared while nothing runs gets fresh secrets only.
KeyInv ==
    \A n \in Reachable : Restarting /\ args.keylog = TRUE =>
        /\ dpc = "clear" /\ n \notin todo => "stale" \notin keylog[n]
        /\ AfterStart \/ dret = "ok" => "stale" \notin keylog[n]

\* Nothing is compared before the version check, and a node that was compared
\* while outdated has been found.
VersionInv ==
    /\ dpc \in {"stop", "reset", "clear", "start", "poll"} => compared = {}
    /\ \A n \in compared \cap Reachable : n \in outdated =>
          /\ dpc = "verify" => mismatch = TRUE
          /\ dret # "ok"

DeployInv == DeployTypeOK /\ CallInv /\ StopInv /\ KeyInv /\ VersionInv

-----------------------------------------------------------------------------
\* No call is in progress and none has returned.
LEMMA InitDeployInv == DeployInit => DeployInv
<1> SUFFICES ASSUME DeployInit PROVE DeployInv
  OBVIOUS
<1>1. DeployTypeOK
  <2>1. unit \in [Node -> BOOLEAN]
    BY Zenon DEF DeployInit
  <2>2. QED
    BY <2>1 DEF DeployInit, DeployTypeOK, Phases, Age, None
<1>2. CallInv /\ StopInv /\ KeyInv /\ VersionInv
  BY DEF DeployInit, CallInv, StopInv, KeyInv, VersionInv, Restarting, AfterStart, None
<1>3. QED
  BY <1>1, <1>2 DEF DeployInv

\* restart_all begins: what was there is stale from now on.
LEMMA CallRestartInv ==
  ASSUME DeployInv, NEW a \in [keylog : BOOLEAN, commit : BOOLEAN],
         NEW behind \in SUBSET Node, CallRestart(a, behind)
  PROVE  DeployInv'
<1> USE DEF CallRestart, Call, RestartOrder, Aged
<1>1. DeployTypeOK'
  BY DEF DeployInv, DeployTypeOK, Phases, Age, None
<1>2. CallInv' /\ StopInv' /\ KeyInv' /\ VersionInv'
  BY DeployAssumption
     DEF CallInv, StopInv, KeyInv, VersionInv, Restarting, AfterStart, None
<1>3. QED
  BY <1>1, <1>2 DEF DeployInv

\* stop_all begins with no node handled.
LEMMA CallStopInv == ASSUME DeployInv, CallStop PROVE DeployInv'
<1> USE DEF CallStop, Call, nodeVars
<1>1. DeployTypeOK'
  BY DEF DeployInv, DeployTypeOK, Phases, Age, None
<1>2. CallInv' /\ StopInv' /\ KeyInv' /\ VersionInv'
  BY DeployAssumption
     DEF CallInv, StopInv, KeyInv, VersionInv, Restarting, AfterStart, None
<1>3. QED
  BY <1>1, <1>2 DEF DeployInv

-----------------------------------------------------------------------------
\* Where a call goes after a node of a phase is handled: to the next node, to
\* the next phase, or back to its caller.
LEMMA HandledStop ==
  ASSUME DeployInv, NEW n \in Node, dpc = "stop", n \in todo, Handled(n)
  PROVE  /\ op' = op /\ args' = args
         /\ \/ todo' = todo \ {n} /\ dpc' = "stop" /\ dret' = dret
            \/ Restarting /\ todo = {n} /\ todo' = Node /\ dpc' = "reset" /\ dret' = dret
            \/ op = "stop_all" /\ todo = {n} /\ todo' = {} /\ dpc' = "idle"
               /\ dret' \in {"ok", "raised"}
  BY DEF Handled, NextPhase, RestartOrder, Return, Restarting, DeployInv, DeployTypeOK,
         CallInv, None

\* The phases of restart_all only: stop_all ends with the first.
LEMMA HandledReset ==
  ASSUME DeployInv, NEW n \in Node, dpc = "reset", n \in todo, Handled(n)
  PROVE  /\ op' = op /\ args' = args /\ Restarting
         /\ \/ todo' = todo \ {n} /\ dpc' = "reset" /\ dret' = dret
            \/ todo = {n} /\ todo' = Node /\ dpc' = "clear" /\ dret' = dret
  BY DEF Handled, NextPhase, RestartOrder, Return, Restarting, DeployInv, DeployTypeOK,
         CallInv, None

LEMMA HandledClear ==
  ASSUME DeployInv, NEW n \in Node, dpc = "clear", n \in todo, Handled(n)
  PROVE  /\ op' = op /\ args' = args /\ Restarting
         /\ \/ todo' = todo \ {n} /\ dpc' = "clear" /\ dret' = dret
            \/ todo = {n} /\ todo' = Node /\ dpc' = "start" /\ dret' = dret
  BY DEF Handled, NextPhase, RestartOrder, Return, Restarting, DeployInv, DeployTypeOK,
         CallInv, None

LEMMA HandledStart ==
  ASSUME DeployInv, NEW n \in Node, dpc = "start", n \in todo, Handled(n)
  PROVE  /\ op' = op /\ args' = args /\ Restarting
         /\ \/ todo' = todo \ {n} /\ dpc' = "start" /\ dret' = dret
            \/ todo = {n} /\ todo' = Node /\ dpc' = "poll" /\ dret' = dret
  BY DEF Handled, NextPhase, RestartOrder, Return, Restarting, DeployInv, DeployTypeOK,
         CallInv, None

LEMMA HandledPoll ==
  ASSUME DeployInv, NEW n \in Node, dpc = "poll", n \in todo, Handled(n)
  PROVE  /\ op' = op /\ args' = args /\ Restarting
         /\ \/ todo' = todo \ {n} /\ dpc' = "poll" /\ dret' = dret
            \/ todo = {n} /\ todo' = Node /\ dpc' = "verify" /\ dret' = dret
            \/ todo = {n} /\ args.commit = FALSE /\ todo' = {} /\ dpc' = "idle"
               /\ dret' \in {"ok", "raised"}
  BY DEF Handled, NextPhase, RestartOrder, Return, Restarting, DeployInv, DeployTypeOK,
         CallInv, None

LEMMA HandledVerify ==
  ASSUME DeployInv, NEW n \in Node, dpc = "verify", n \in todo, Handled(n)
  PROVE  /\ op' = op /\ args' = args /\ Restarting
         /\ \/ todo' = todo \ {n} /\ dpc' = "verify" /\ dret' = dret
            \/ todo = {n} /\ todo' = {} /\ dpc' = "idle" /\ dret' \in {"ok", "raised"}
               /\ (dret' = "ok" => mismatch' # TRUE)
  BY DEF Handled, NextPhase, RestartOrder, Return, Restarting, DeployInv, DeployTypeOK,
         CallInv, None

-----------------------------------------------------------------------------
\* The commands of stop_all: what they stop stays stopped.
LEMMA StopNodeInv ==
  ASSUME DeployInv, NEW n \in Node, StopNode(n)
  PROVE  DeployInv'
<1> USE DEF StopNode, checked, StopCommands, UnitStopped, NothingLeft
<1>1. DeployTypeOK'
  BY HandledStop DEF DeployInv, DeployTypeOK, Phases, Age, None
<1>2. CallInv'
  BY HandledStop DEF DeployInv, CallInv, DeployTypeOK, Restarting, None
<1>3. StopInv'
  <2>1. \A m \in Reachable : Down(m) => Down(m)'
    BY DeployAssumption DEF DeployInv, DeployTypeOK, Down
  <2>2. n \in Reachable => Down(n)'
    <3> SUFFICES ASSUME n \in Reachable PROVE Down(n)'
      OBVIOUS
    <3>1. procs'[n] = {} /\ unit'[n] = FALSE
      BY DEF DeployInv, DeployTypeOK
    <3>2. sock'[n] = None
      BY <3>1 DEF DeployInv, DeployTypeOK
    <3>3. QED
      BY <3>1, <3>2 DEF Down
  <2>3. QED
    BY <2>1, <2>2, HandledStop, DeployAssumption
       DEF DeployInv, CallInv, StopInv, Restarting, AfterStart, None
<1>4. KeyInv'
  BY HandledStop, DeployAssumption
     DEF DeployInv, DeployTypeOK, CallInv, StopInv, KeyInv, Restarting, AfterStart,
         Down, Clean, Age, None
<1>5. VersionInv'
  BY HandledStop, DeployAssumption
     DEF DeployInv, DeployTypeOK, CallInv, StopInv, VersionInv, Restarting, AfterStart,
         Down, Clean, Age, None
<1>6. QED
  BY <1>1, <1>2, <1>3, <1>4, <1>5 DEF DeployInv

\* A command that times out: stop_all raises, no result to rely on.
LEMMA StopTimesOutInv ==
  ASSUME DeployInv, NEW n \in Node, StopTimesOut(n)
  PROVE  DeployInv'
<1> USE DEF StopTimesOut, checked, StopCommands, UnitStopped, NothingLeft, Return
<1>1. DeployTypeOK'
  <2>1. procs' \in [Node -> SUBSET Age]
    BY DEF DeployInv, DeployTypeOK
  <2>2. unit' \in [Node -> BOOLEAN]
    BY Zenon DEF DeployInv, DeployTypeOK
  <2>3. sock' \in [Node -> Age \cup {None}]
    BY DEF DeployInv, DeployTypeOK
  <2>4. QED
    BY <2>1, <2>2, <2>3 DEF DeployInv, DeployTypeOK, Phases
<1>2. CallInv'
  BY DEF DeployInv, CallInv, DeployTypeOK, None
<1>3. StopInv'
  BY DeployAssumption
     DEF DeployInv, DeployTypeOK, CallInv, StopInv, Restarting, AfterStart, Down, Clean,
         Age, None
<1>4. KeyInv'
  BY DeployAssumption
     DEF DeployInv, DeployTypeOK, CallInv, StopInv, KeyInv, Restarting, AfterStart,
         Down, Clean, Age, None
<1>5. VersionInv'
  BY DeployAssumption
     DEF DeployInv, DeployTypeOK, CallInv, StopInv, VersionInv, Restarting, AfterStart,
         Down, Clean, Age, None
<1>6. QED
  BY <1>1, <1>2, <1>3, <1>4, <1>5 DEF DeployInv

\* The boards are reset while all nodes are down.
LEMMA ResetMicrofipsInv ==
  ASSUME DeployInv, NEW n \in Node, ResetMicrofips(n)
  PROVE  DeployInv'
<1> USE DEF ResetMicrofips, checked, nodeVars
<1>1. DeployTypeOK'
  BY HandledReset DEF DeployInv, DeployTypeOK, Phases, Age, None
<1>2. CallInv'
  BY HandledReset DEF DeployInv, CallInv, DeployTypeOK, None
<1>3. StopInv'
  BY HandledReset, DeployAssumption
     DEF DeployInv, DeployTypeOK, CallInv, StopInv, Restarting, AfterStart, Down, Clean,
         Age, None
<1>4. KeyInv'
  BY HandledReset, DeployAssumption
     DEF DeployInv, DeployTypeOK, CallInv, StopInv, KeyInv, Restarting, AfterStart,
         Down, Clean, Age, None
<1>5. VersionInv'
  BY HandledReset, DeployAssumption
     DEF DeployInv, DeployTypeOK, CallInv, StopInv, VersionInv, Restarting, AfterStart,
         Down, Clean, Age, None
<1>6. QED
  BY <1>1, <1>2, <1>3, <1>4, <1>5 DEF DeployInv

\* The keylog of a node is cleared while nothing runs there.
LEMMA ClearNodeInv ==
  ASSUME DeployInv, NEW n \in Node, ClearNode(n)
  PROVE  DeployInv'
<1> USE DEF ClearNode, checked
<1>1. DeployTypeOK'
  BY HandledClear DEF DeployInv, DeployTypeOK, Phases, Age, None
<1>2. CallInv'
  BY HandledClear DEF DeployInv, CallInv, DeployTypeOK, None
<1>3. StopInv'
  BY HandledClear, DeployAssumption
     DEF DeployInv, DeployTypeOK, CallInv, StopInv, Restarting, AfterStart, Down, Clean,
         Age, None
<1>4. KeyInv'
  <2>1. n \in Reachable /\ args.keylog = TRUE => "stale" \notin keylog'[n]
    BY DEF DeployInv, DeployTypeOK
  <2>2. \A m \in Reachable : "stale" \notin keylog[m] => "stale" \notin keylog'[m]
    BY DeployAssumption DEF DeployInv, DeployTypeOK
  <2>3. QED
    BY <2>1, <2>2, HandledClear, DeployAssumption
       DEF DeployInv, CallInv, KeyInv, Restarting, AfterStart, None
<1>5. VersionInv'
  BY HandledClear, DeployAssumption
     DEF DeployInv, DeployTypeOK, CallInv, StopInv, VersionInv, Restarting, AfterStart,
         Down, Clean, Age, None
<1>6. QED
  BY <1>1, <1>2, <1>3, <1>4, <1>5 DEF DeployInv

\* What is started, by the lab or by systemd, is of this run.
LEMMA StartNodeInv ==
  ASSUME DeployInv, NEW n \in Node, StartNode(n)
  PROVE  DeployInv'
<1> USE DEF StartNode, checked, StartCommand, UnitStarted
<1>1. DeployTypeOK'
  <2>1. procs' \in [Node -> SUBSET Age]
    BY DEF DeployInv, DeployTypeOK, Age
  <2>2. unit' \in [Node -> BOOLEAN]
    BY Zenon DEF DeployInv, DeployTypeOK
  <2>3. QED
    BY <2>1, <2>2, HandledStart DEF DeployInv, DeployTypeOK, Phases
<1>2. CallInv'
  BY HandledStart DEF DeployInv, CallInv, DeployTypeOK, None
<1>3. StopInv'
  BY HandledStart, DeployAssumption
     DEF DeployInv, DeployTypeOK, CallInv, StopInv, Restarting, AfterStart, Down, Clean,
         Age, None
<1>4. KeyInv'
  BY HandledStart, DeployAssumption
     DEF DeployInv, DeployTypeOK, CallInv, StopInv, KeyInv, Restarting, AfterStart,
         Down, Clean, Age, None
<1>5. VersionInv'
  BY HandledStart, DeployAssumption
     DEF DeployInv, DeployTypeOK, CallInv, StopInv, VersionInv, Restarting, AfterStart,
         Down, Clean, Age, None
<1>6. QED
  BY <1>1, <1>2, <1>3, <1>4, <1>5 DEF DeployInv

\* A start that raises may have been carried out; no result to rely on.
LEMMA StartRaisesInv ==
  ASSUME DeployInv, NEW n \in Node, StartRaises(n)
  PROVE  DeployInv'
<1> USE DEF StartRaises, checked, StartCommand, Return, UnitStarted
<1>1. DeployTypeOK'
  <2>1. procs' \in [Node -> SUBSET Age]
    BY DEF DeployInv, DeployTypeOK, Age
  <2>2. unit' \in [Node -> BOOLEAN]
    BY Zenon DEF DeployInv, DeployTypeOK
  <2>3. QED
    BY <2>1, <2>2 DEF DeployInv, DeployTypeOK, Phases
<1>2. CallInv'
  BY DEF DeployInv, CallInv, DeployTypeOK, None
<1>3. StopInv'
  BY DeployAssumption
     DEF DeployInv, DeployTypeOK, CallInv, StopInv, Restarting, AfterStart, Down, Clean,
         Age, None
<1>4. KeyInv'
  BY DeployAssumption
     DEF DeployInv, DeployTypeOK, CallInv, StopInv, KeyInv, Restarting, AfterStart,
         Down, Clean, Age, None
<1>5. VersionInv'
  BY DeployAssumption
     DEF DeployInv, DeployTypeOK, CallInv, StopInv, VersionInv, Restarting, AfterStart,
         Down, Clean, Age, None
<1>6. QED
  BY <1>1, <1>2, <1>3, <1>4, <1>5 DEF DeployInv

\* Whoever is ready is of this run: nothing else is left.
LEMMA PollReadyInv ==
  ASSUME DeployInv, NEW n \in Node, PollReady(n)
  PROVE  DeployInv'
<1> USE DEF PollReady, checked, nodeVars
<1>1. DeployTypeOK'
  BY HandledPoll DEF DeployInv, DeployTypeOK, Phases, Age, None
<1>2. CallInv'
  BY HandledPoll DEF DeployInv, CallInv, DeployTypeOK, None
<1>3. StopInv'
  BY HandledPoll, DeployAssumption
     DEF DeployInv, DeployTypeOK, CallInv, StopInv, Restarting, AfterStart, Down, Clean,
         Age, None
<1>4. KeyInv'
  BY HandledPoll, DeployAssumption
     DEF DeployInv, DeployTypeOK, CallInv, StopInv, KeyInv, Restarting, AfterStart,
         Down, Clean, Age, None
<1>5. VersionInv'
  BY HandledPoll, DeployAssumption
     DEF DeployInv, DeployTypeOK, CallInv, StopInv, VersionInv, checked, None
<1>6. QED
  BY <1>1, <1>2, <1>3, <1>4, <1>5 DEF DeployInv

\* An outdated node that reports a version sets mismatch, and the call raises.
LEMMA VerifyNodeInv ==
  ASSUME DeployInv, NEW n \in Node, VerifyNode(n)
  PROVE  DeployInv'
<1> USE DEF VerifyNode, checked, Differs, AnyDecides, nodeVars
<1>1. DeployTypeOK'
  <2>1. mismatch' \in BOOLEAN
    BY Zenon DEF checked, DeployInv, DeployTypeOK
  <2>2. QED
    BY <2>1, HandledVerify DEF checked, DeployInv, DeployTypeOK, Phases, Age, None
<1>2. CallInv'
  BY HandledVerify DEF DeployInv, CallInv, DeployTypeOK, None
<1>3. StopInv'
  BY HandledVerify, DeployAssumption
     DEF DeployInv, DeployTypeOK, CallInv, StopInv, Restarting, AfterStart, Down, Clean,
         Age, None
<1>4. KeyInv'
  BY HandledVerify, DeployAssumption
     DEF DeployInv, DeployTypeOK, CallInv, StopInv, KeyInv, Restarting, AfterStart,
         Down, Clean, Age, None
<1>5. VersionInv'
  <2>1. Restarting /\ outdated' = outdated /\ dret = None
    BY HandledVerify DEF DeployInv, CallInv
  <2>2. \A m \in compared \cap Reachable : m \in outdated => mismatch = TRUE
    BY DEF DeployInv, VersionInv
  <2>3. \A m \in compared' \cap Reachable : m \in outdated => mismatch' = TRUE
    <3>1. CASE UNCHANGED checked
      BY <2>2, <3>1 DEF checked
    <3>2. CASE ~UNCHANGED checked
      <4>1. compared' = compared \cup {n} /\ sock[n] # None
        BY <3>2
      <4>2. n \in Reachable => sock[n] = "fresh"
        BY <2>1, <4>1 DEF DeployInv, DeployTypeOK, StopInv, AfterStart, Clean, Age
      <4>3. mismatch = TRUE => mismatch' = TRUE
        BY <3>2, Zenon
      <4>4. sock[n] = "fresh" /\ n \in outdated => mismatch' = TRUE
        BY <3>2, Zenon
      <4>5. QED
        BY <2>2, <4>1, <4>2, <4>3, <4>4
    <3>3. QED
      BY <3>1, <3>2
  <2>4. \/ dpc' = "verify" /\ dret' = None
        \/ dpc' = "idle" /\ (dret' = "ok" => mismatch' # TRUE)
    BY <2>1, HandledVerify
  <2>5. QED
    BY <2>1, <2>3, <2>4 DEF VersionInv, None
<1>6. QED
  BY <1>1, <1>2, <1>3, <1>4, <1>5 DEF DeployInv

\* A call that raises leaves the nodes as they are.
LEMMA RaisesInv ==
  ASSUME DeployInv, NEW n \in Node, PollTimesOut(n) \/ CommandTimesOut(n)
  PROVE  DeployInv'
<1> USE DEF PollTimesOut, checked, CommandTimesOut, DeadlinePasses, Return, nodeVars
<1>1. DeployTypeOK'
  BY DEF DeployInv, DeployTypeOK, Phases, Age, None
<1>2. CallInv'
  BY DEF DeployInv, CallInv, DeployTypeOK, None
<1>3. StopInv'
  BY DeployAssumption
     DEF DeployInv, DeployTypeOK, CallInv, StopInv, Restarting, AfterStart, Down, Clean,
         Age, None
<1>4. KeyInv'
  BY DeployAssumption
     DEF DeployInv, DeployTypeOK, CallInv, StopInv, KeyInv, Restarting, AfterStart,
         Down, Clean, Age, None
<1>5. VersionInv'
  BY DeployAssumption
     DEF DeployInv, DeployTypeOK, CallInv, StopInv, VersionInv, Restarting, AfterStart,
         Down, Clean, Age, None
<1>6. QED
  BY <1>1, <1>2, <1>3, <1>4, <1>5 DEF DeployInv


-----------------------------------------------------------------------------
\* A node that is down stays down, one that is clean stays clean.
LEMMA BindsSocketInv ==
  ASSUME DeployInv, NEW n \in Node, NEW a \in Age, BindsSocket(n, a)
  PROVE  DeployInv'
<1> USE DeployAssumption DEF BindsSocket, checked, callVars, DeployInv, DeployTypeOK, Age, None
<1>1. DeployTypeOK'
  OBVIOUS
<1>2. CallInv'
  BY DEF CallInv
<1>3. StopInv'
  BY DEF StopInv, Restarting, AfterStart, Down, Clean
<1>4. KeyInv'
  BY DEF CallInv, StopInv, KeyInv, Restarting, AfterStart, Down, Clean
<1>5. VersionInv'
  BY DEF VersionInv, Restarting
<1>6. QED
  BY <1>1, <1>2, <1>3, <1>4, <1>5

\* Only a daemon that is alive writes, and those left are of this run.
LEMMA WritesKeylogInv ==
  ASSUME DeployInv, NEW n \in Node, NEW a \in Age, WritesKeylog(n, a)
  PROVE  DeployInv'
<1> USE DeployAssumption DEF WritesKeylog, checked, callVars, DeployInv, DeployTypeOK, Age, None
<1>1. DeployTypeOK'
  OBVIOUS
<1>2. CallInv'
  BY DEF CallInv
<1>3. StopInv'
  BY DEF StopInv, Restarting, AfterStart, Down, Clean
<1>4. KeyInv'
  BY DEF CallInv, StopInv, KeyInv, Restarting, AfterStart, Down, Clean
<1>5. VersionInv'
  BY DEF VersionInv, Restarting
<1>6. QED
  BY <1>1, <1>2, <1>3, <1>4, <1>5

\* A node that dies leaves no socket behind; VersionInv excludes it.
LEMMA DiesInv ==
  ASSUME DeployInv, NEW n \in Node, NEW a \in Age, Dies(n, a)
  PROVE  DeployInv'
<1> USE DeployAssumption DEF Dies, checked, callVars, DeployInv, DeployTypeOK, Age, None
<1>1. DeployTypeOK'
  OBVIOUS
<1>2. CallInv'
  BY DEF CallInv
<1>3. StopInv'
  BY DEF StopInv, Restarting, AfterStart, Down, Clean
<1>4. KeyInv'
  BY DEF CallInv, StopInv, KeyInv, Restarting, AfterStart, Down, Clean
<1>5. VersionInv'
  BY DEF VersionInv, Restarting
<1>6. QED
  BY <1>1, <1>2, <1>3, <1>4, <1>5

\* Systemd brings back no unit that was stopped.
LEMMA RespawnsInv ==
  ASSUME DeployInv, NEW n \in Node, Respawns(n)
  PROVE  DeployInv'
<1> USE DeployAssumption DEF Respawns, checked, callVars, DeployInv, DeployTypeOK, Age, None
<1>1. DeployTypeOK'
  OBVIOUS
<1>2. CallInv'
  BY DEF CallInv
<1>3. StopInv'
  <2>1. ~Down(n)
    <3>1. unit[n] # FALSE
      BY Zenon
    <3>2. QED
      BY <3>1 DEF Down
  <2>2. \A m \in Reachable : Down(m) => Down(m)'
    BY <2>1 DEF Down
  <2>3. AfterStart \/ dpc = "idle" => \A m \in Reachable : Clean(m) => Clean(m)'
    BY DEF AfterStart, Clean
  <2>4. QED
    BY <2>2, <2>3 DEF CallInv, StopInv, Restarting, AfterStart
<1>4. KeyInv'
  BY DEF CallInv, StopInv, KeyInv, Restarting, AfterStart, Down, Clean
<1>5. VersionInv'
  BY DEF VersionInv, Restarting
<1>6. QED
  BY <1>1, <1>2, <1>3, <1>4, <1>5

-----------------------------------------------------------------------------
\* Every step of a call, and every step of a node on its own.
LEMMA DeployStepInv == DeployInv /\ DeployStep => DeployInv'
  BY StopNodeInv, StopTimesOutInv, ResetMicrofipsInv, ClearNodeInv, StartNodeInv,
     StartRaisesInv, PollReadyInv, VerifyNodeInv, RaisesInv DEF DeployStep

LEMMA NodeStepInv == DeployInv /\ NodeStep => DeployInv'
  BY BindsSocketInv, WritesKeylogInv, DiesInv, RespawnsInv DEF NodeStep

\* Steps of the programs above DeployManager.
LEMMA StutterInv == DeployInv /\ UNCHANGED deployVars => DeployInv'
  BY DEF deployVars, nodeVars, callVars, checked, DeployInv, DeployTypeOK, CallInv, StopInv,
         KeyInv,
         VersionInv, Restarting, AfterStart, Down, Clean

\* What the invariant says of a call that has returned.
LEMMA InvFresh == DeployInv => FreshAnswers
  BY DeployAssumption
     DEF DeployInv, StopInv, Clean, FreshAnswers, Restarted, Restarting

\* After a restart_all with keylog no old secret is left.
LEMMA InvKeylog == DeployInv => KeylogFresh
<1> SUFFICES ASSUME DeployInv, Restarted, args.keylog, NEW n \in Reachable
             PROVE  "stale" \notin keylog[n]
  BY DEF KeylogFresh
<1>1. args.keylog = TRUE
  <2>1. args.keylog \in BOOLEAN
    BY DEF DeployInv, DeployTypeOK
  <2>2. QED
    BY <2>1, Zenon
<1>2. QED
  BY <1>1 DEF DeployInv, KeyInv, Restarted, Restarting

-----------------------------------------------------------------------------
(* A run with --commit *)

Building == {"next", "checkout", "resolve", "cargo"}

BuildTypeOK ==
    /\ step \in Building \cup {"built", "raised", "deployed", "stopping"}
    /\ head \in [Node -> Commit] /\ binary \in [Node -> Commit]
    /\ result \in [Node -> Commit \cup {Failed, None}]
    /\ at \in Node /\ left \in SUBSET Node
    /\ upstream \in Commit /\ fetched \in Commit \cup {None}
    /\ branch \in [Node -> Commit \cup {None}]
    /\ request \in Commit \cup {Branch, None}
    /\ step \in Building => request # None

\* The node's result is the commit its binary was built from.
Built(n) == result[n] \in Commit /\ binary[n] = result[n]

\* A node that build_all is done with was built, or its failure is noted.
ResultInv ==
    /\ step \in Building => \A n \in Node \ left :
           n # at \/ step = "next" => Built(n) \/ result[n] = Failed
    /\ step = "cargo" => result[at] = head[at] /\ head[at] \in Commit
    /\ request # None /\ step \in {"built", "deployed"} => \A n \in Node : Built(n)

\* restart_all is called once, for all that was built, and nothing is checked
\* out or built any more.
RestartInv ==
    /\ op = "restart_all" => step = "deployed"
    /\ op = "restart_all" => outdated = Behind

BuildInv == DeployInv /\ BuildTypeOK /\ ResultInv /\ RestartInv

-----------------------------------------------------------------------------
\* Nothing is built yet, or the run does not build.
LEMMA InitBuildInv == BuildInit => BuildInv
  BY InitDeployInv
     DEF BuildInit, BuildInv, BuildTypeOK, ResultInv, RestartInv, Building, DeployInit, None

\* build_all: one node after the other, nothing is restarted yet.
LEMMA BuildStepInv ==
  ASSUME BuildInv, BuildStep, UNCHANGED deployVars
  PROVE  BuildInv'
<1> USE DEF BuildInv, BuildTypeOK, Building
<1>1. DeployInv'
  BY StutterInv
<1>2. op' = op /\ outdated' = outdated /\ args' = args
  BY DEF deployVars, nodeVars, callVars, checked
<1>3. op # "restart_all"
  BY DEF RestartInv, BuildStep, StartBuild, Checkout, Resolve, Cargo, BuildFails,
         BuildTimesOut, Collect, Push
<1>4. RestartInv'
  BY <1>2, <1>3 DEF RestartInv
<1>5. BuildTypeOK' /\ ResultInv'
  <2>1. ASSUME NEW n \in Node, StartBuild(n) PROVE BuildTypeOK' /\ ResultInv'
    BY <2>1 DEF StartBuild, Fetched, gitVars, ResultInv, Built
  <2>2. CASE Checkout
    <3>1. Named \subseteq Commit
      BY <2>2 DEF Named, Checkout, None
    <3>2. BuildTypeOK'
      BY <2>2, <3>1 DEF Checkout
    <3>3. ResultInv'
      BY <2>2 DEF Checkout, ResultInv, Built
    <3>4. QED
      BY <3>2, <3>3
  <2>3. CASE Resolve
    BY <2>3 DEF Resolve, gitVars, ResultInv, Built
  <2>4. CASE Cargo
    BY <2>4 DEF Cargo, ResultInv, Built
  <2>5. CASE BuildFails
    BY <2>5 DEF BuildFails, gitVars, ResultInv, Built
  <2>6. CASE BuildTimesOut
    BY <2>6 DEF BuildTimesOut, gitVars, ResultInv, Built
  <2>7. CASE Collect
    BY <2>7 DEF Collect, AllBuilt, gitVars, ResultInv, Built
  <2>8. CASE Push
    BY <2>8 DEF Push, ResultInv, Built
  <2>9. QED
    BY <2>1, <2>2, <2>3, <2>4, <2>5, <2>6, <2>7, <2>8 DEF BuildStep
<1>6. QED
  BY <1>1, <1>4, <1>5

\* LabRunner._deploy: the one restart_all of the run.
LEMMA DeploymentInv ==
  ASSUME BuildInv, Deployment
  PROVE  BuildInv'
<1> PICK a \in [keylog : BOOLEAN, commit : BOOLEAN] :
       CallRestart(a, Behind)
  BY DEF Deployment
<1>1. DeployInv'
  BY CallRestartInv DEF BuildInv, Behind
<1>2. BuildTypeOK' /\ ResultInv'
  BY DEF BuildInv, BuildTypeOK, Building, ResultInv, Built, Deployment, gitVars
<1>3. RestartInv'
  <2>1. step' = "deployed" /\ Expected' = Expected /\ Behind' = Behind
    BY DEF Deployment, gitVars, Expected, Behind
  <2>2. outdated' = Behind
    BY DEF CallRestart
  <2>3. QED
    BY <2>1, <2>2 DEF RestartInv
<1>4. QED
  BY <1>1, <1>2, <1>3 DEF BuildInv

\* _deploy_cleanup ends the claims about the restart.
LEMMA StopAfterwardsInv ==
  ASSUME BuildInv, StopAfterwards
  PROVE  BuildInv'
<1>1. DeployInv'
  BY CallStopInv DEF StopAfterwards, BuildInv
<1>2. BuildTypeOK' /\ ResultInv'
  BY DEF BuildInv, BuildTypeOK, Building, ResultInv, Built, StopAfterwards, gitVars
<1>3. RestartInv'
  BY DEF StopAfterwards, CallStop, Call, RestartInv
<1>4. QED
  BY <1>1, <1>2, <1>3 DEF BuildInv

\* While the nodes run, nothing is built.
LEMMA NodesRunInv ==
  ASSUME BuildInv, DeployInv', UNCHANGED <<op, args, outdated, buildVars>>
  PROVE  BuildInv'
<1>1. BuildTypeOK' /\ ResultInv'
  BY DEF BuildInv, BuildTypeOK, Building, ResultInv, Built, buildVars, gitVars
<1>2. RestartInv'
  BY DEF BuildInv, RestartInv, Expected, Behind, buildVars, gitVars
<1>3. QED
  BY <1>1, <1>2 DEF BuildInv

\* No step of a call or of a node changes what was asked for.
LEMMA CallKept ==
  ASSUME DeployInv, DeployStep \/ NodeStep
  PROVE  UNCHANGED <<op, args, outdated>>
  BY DEF DeployStep, StopNode, StopTimesOut, StopCommands, ResetMicrofips, ClearNode,
         StartNode, StartRaises, StartCommand, PollReady, PollTimesOut, VerifyNode, CommandTimesOut,
         Handled, Return, NodeStep, Respawns, BindsSocket, WritesKeylog, Dies,
         nodeVars, callVars, checked

\* Every step of a run with --commit.
LEMMA NextBuildInv ==
  ASSUME BuildInv, [BuildNext]_<<deployVars, buildVars>>
  PROVE  BuildInv'
<1>1. CASE (DeployStep \/ NodeStep) /\ UNCHANGED buildVars
  BY <1>1, CallKept, DeployStepInv, NodeStepInv, NodesRunInv DEF BuildInv
<1>2. CASE UNCHANGED <<deployVars, buildVars>>
  <2>1. UNCHANGED <<op, args, outdated>>
    BY <1>2 DEF deployVars, nodeVars, callVars, checked
  <2>2. QED
    BY <1>2, <2>1, StutterInv, NodesRunInv DEF BuildInv
<1>3. QED
  BY <1>1, <1>2, BuildStepInv, DeploymentInv, StopAfterwardsInv DEF BuildNext

\* The invariant that the theorems below follow from.
THEOREM BuildInvariant == BuildSpec => []BuildInv
  BY InitBuildInv, NextBuildInv, PTL DEF BuildSpec

-----------------------------------------------------------------------------
\* Every variable of DeployManager keeps its type.
THEOREM DeployTypeCorrect == BuildSpec => []DeployTypeOK
<1>1. BuildInv => DeployTypeOK
  BY DEF BuildInv, DeployInv
<1>2. QED
  BY <1>1, BuildInvariant, PTL

\* Every keylog of a run with keylogs holds secrets of this run only, whatever
\* the daemons and systemd do while restart_all works.
THEOREM KeylogsOfThisRun == BuildSpec => []KeylogFresh
<1>1. BuildInv => KeylogFresh
  BY InvKeylog DEF BuildInv
<1>2. QED
  BY <1>1, BuildInvariant, PTL

\* The restarted nodes run what resolved_commits says was built on them.
THEOREM BinariesAreBuilt == BuildSpec => []RunsWhatWasBuilt
<1>1. BuildInv => RunsWhatWasBuilt
  BY DEF BuildInv, ResultInv, RestartInv, Built, RunsWhatWasBuilt
<1>2. QED
  BY <1>1, BuildInvariant, PTL

\* restart_all returns only if every node the lab can restart whose version
\* was compared runs the one commit that the lab machine's checkout is at.
THEOREM OneVersionRuns == BuildSpec => []OneVersion
<1>1. BuildInv => OneVersion
  <2> SUFFICES ASSUME BuildInv, Restarted, NEW n \in compared \cap Reachable
               PROVE  binary[n] = Expected
    BY DEF OneVersion
  <2>1. n \notin outdated /\ n \in Node
    BY DeployAssumption DEF BuildInv, DeployInv, VersionInv, Restarted
  <2>2. outdated = Behind
    BY DEF BuildInv, RestartInv, Restarted
  <2>3. QED
    BY <2>1, <2>2 DEF Behind
<1>2. QED
  BY <1>1, BuildInvariant, PTL
=============================================================================
