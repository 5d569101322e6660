----------------------------- MODULE RunnerProofs -----------------------------
(***************************************************************************)
(* LabRunner.run, for any nodes, scenarios and flags: the keylogs it pulls *)
(* hold secrets of this run only, and a run that is to stop the nodes has  *)
(* stopped them when it returns.                                           *)
(***************************************************************************)
EXTENDS LabRunner, DeployProofs

\* The steps of run() after a restart of the nodes, and those after the
\* keylogs are pulled.
Testing == {"rssi1", "btmon", "initial", "rssi2", "loop", "final", "stop", "keylogs",
            "events", "iperf", "decrypt", "analysis", "charts", "cleanup"}
Collected == {"events", "iperf", "decrypt", "analysis", "charts", "cleanup", "cleaning",
              "publish"}
InCall == {"deploying", "cleaning", "cleaning1"}
Steps == Testing \cup Collected \cup InCall
           \cup {"prepare", "serial", "flash", "deploy", "fallback", "cleanup1", "done"}

RunnerTypeOK ==
    /\ cfg \in Scenarios
    /\ pc \in Steps
    /\ rc \in {None, "success", "failure", "raised"}
    /\ pulled \in [Node -> SUBSET Age]

\* A call of DeployManager is in progress only while run() waits for it.
WaitInv ==
    /\ pc \notin InCall => dpc = "idle"
    /\ pc = "deploying" => op = "restart_all"
    /\ pc \in {"cleaning", "cleaning1"} => op = "stop_all"
    /\ pc # "done" => rc = None

KeylogRun == cfg.restart = TRUE /\ cfg.keylog = TRUE /\ cfg.dry = FALSE

\* Between the restart and the cleanup the last call is the restart, and what
\* is pulled meanwhile is of this run.
PullInv ==
    KeylogRun =>
        /\ pc = "deploying" => args.keylog = TRUE
        /\ pc \in Testing => op = "restart_all" /\ dret = "ok" /\ args.keylog = TRUE
        /\ pc \in Collected \/ rc = "success" =>
              \A n \in Reachable : "stale" \notin pulled[n]

\* A run that is to stop the nodes returns after a stop_all that worked.
StoppedInv ==
    cfg.stop = TRUE /\ cfg.dry = FALSE =>
        (pc = "publish" \/ rc \in {"success", "failure"} => op = "stop_all" /\ dret = "ok")

RunnerInv == DeployInv /\ RunnerTypeOK /\ WaitInv /\ PullInv /\ StoppedInv

-----------------------------------------------------------------------------
\* A run begins with no call in progress and nothing pulled.
LEMMA InitRunnerInv == RunInit => RunnerInv
  BY InitDeployInv
     DEF RunInit, RunnerInv, RunnerTypeOK, Steps, Testing, Collected, InCall, WaitInv,
         PullInv, StoppedInv, DeployInit, Age, None

\* The settings are Booleans.
LEMMA Flags ==
  ASSUME cfg \in Scenarios
  PROVE  /\ cfg.dry \in BOOLEAN /\ cfg.restart \in BOOLEAN /\ cfg.keylog \in BOOLEAN
         /\ cfg.stop \in BOOLEAN
  BY RunnerAssumption

\* A step of run() that neither calls DeployManager nor pulls a keylog goes on
\* in order or fails.
LEMMA PlainInv ==
  ASSUME RunnerInv, UNCHANGED <<cfg, rc, pulled, deployVars>>, pc \notin InCall \cup {"done"},
         \/ pc' = "fallback"
         \/ pc = "fallback" /\ pc' = "cleanup1"
         \/ /\ pc' = RunOrder[pc]
            /\ pc \in DOMAIN RunOrder \ {"deploy", "keylogs", "cleanup", "publish"}
  PROVE  RunnerInv'
<1>1. DeployInv'
  BY StutterInv DEF RunnerInv
<1>2. RunnerTypeOK'
  BY DEF RunnerInv, RunnerTypeOK, RunOrder, Steps, Testing, Collected, InCall
<1>3. WaitInv'
  BY DEF RunnerInv, WaitInv, RunOrder, InCall, deployVars, callVars
<1>4. PullInv' /\ StoppedInv'
  BY DEF RunnerInv, WaitInv, PullInv, StoppedInv, KeylogRun, Testing, Collected,
         RunOrder, InCall, deployVars, callVars
<1>5. QED
  BY <1>1, <1>2, <1>3, <1>4 DEF RunnerInv

Plain ==
    \/ QuietStep \/ Raises \/ FlashBoards \/ SkipRssi \/ StartRssi \/ StartSerial
    \/ StartBtmon \/ StopCaptures \/ CollectEvents \/ Decrypt \/ Analyse \/ Fallback

\* The steps of run() that are of that kind.
LEMMA PlainStepInv ==
  ASSUME RunnerInv, Plain, pc # "publish" \/ pc' = "fallback"
  PROVE  RunnerInv'
<1>1. UNCHANGED <<cfg, rc, pulled, deployVars>>
  BY DEF Plain, QuietStep, Raises, FlashBoards, SkipRssi, StartRssi, StartSerial,
         StartBtmon,
         StopCaptures, CollectEvents, Decrypt, Analyse, Fallback, Continue, Goto, Done, After,
         RunOrder, Unchanged, outVars, Quiet
<1>2. /\ pc \notin InCall \cup {"done"}
      /\ \/ pc' = "fallback"
         \/ pc = "fallback" /\ pc' = "cleanup1"
         \/ /\ pc' = RunOrder[pc]
            /\ pc \in DOMAIN RunOrder \ {"deploy", "keylogs", "cleanup", "publish"}
  BY DEF Plain, QuietStep, Raises, FlashBoards, SkipRssi, StartRssi, StartSerial,
         StartBtmon,
         StopCaptures, CollectEvents, Decrypt, Analyse, Fallback, Continue, Goto, Done, After,
         RunOrder, InCall, Quiet
<1>3. QED
  BY <1>1, <1>2, PlainInv

\* The last step of run().
LEMMA PublishInv ==
  ASSUME RunnerInv, QuietStep, pc = "publish"
  PROVE  RunnerInv'
<1>1. /\ UNCHANGED <<cfg, pulled, deployVars>>
      /\ pc' = "done" /\ rc' = "success"
  BY DEF QuietStep, Continue, After, RunOrder, Done, Unchanged, outVars
<1>2. DeployInv'
  BY <1>1, StutterInv DEF RunnerInv
<1>3. RunnerTypeOK' /\ WaitInv'
  BY <1>1 DEF RunnerInv, RunnerTypeOK, WaitInv, Steps, InCall, deployVars, callVars
<1>4. PullInv' /\ StoppedInv'
  BY <1>1
     DEF RunnerInv, PullInv, StoppedInv, KeylogRun, Testing, Collected, deployVars,
         callVars
<1>5. QED
  BY <1>2, <1>3, <1>4 DEF RunnerInv

\* _deploy: a run that restarts the nodes with keylog asks for fresh keylogs.
LEMMA RestartStepInv ==
  ASSUME RunnerInv, Restart
  PROVE  RunnerInv'
<1> PICK c \in BOOLEAN, behind \in SUBSET Node :
       CallRestart([keylog |-> KeylogArgument, commit |-> c], behind)
  BY DEF Restart
<1>1. [keylog |-> cfg.keylog, commit |-> c] \in [keylog : BOOLEAN, commit : BOOLEAN]
  BY Flags DEF RunnerInv, RunnerTypeOK
<1>2. DeployInv'
  BY <1>1, CallRestartInv DEF RunnerInv, KeylogArgument
<1>3. /\ UNCHANGED <<cfg, rc, pulled>> /\ pc = "deploy" /\ pc' = "deploying"
      /\ op' = "restart_all" /\ args'.keylog = cfg.keylog
  BY DEF Restart, Goto, outVars, CallRestart, Call, KeylogArgument
<1>4. RunnerTypeOK' /\ WaitInv'
  BY <1>3 DEF RunnerInv, RunnerTypeOK, WaitInv, Steps, InCall
<1>5. PullInv' /\ StoppedInv'
  BY <1>3
     DEF RunnerInv, WaitInv, PullInv, StoppedInv, KeylogRun, Testing, Collected, None
<1>6. QED
  BY <1>2, <1>4, <1>5 DEF RunnerInv

\* A run that skips the restart is no keylog run.
LEMMA SkipRestartInv ==
  ASSUME RunnerInv, SkipRestart
  PROVE  RunnerInv'
<1>1. /\ UNCHANGED <<cfg, rc, pulled, deployVars>> /\ pc = "deploy"
      /\ pc' \in {"rssi1", "btmon"}
  BY DEF SkipRestart, Goto, Unchanged, outVars
<1>2. ~KeylogRun
  BY Zenon DEF SkipRestart, KeylogRun
<1>3. DeployInv'
  BY <1>1, StutterInv DEF RunnerInv
<1>4. RunnerTypeOK' /\ WaitInv'
  BY <1>1
     DEF RunnerInv, RunnerTypeOK, WaitInv, Steps, Testing, InCall, deployVars, callVars
<1>5. PullInv' /\ StoppedInv'
  BY <1>1, <1>2
     DEF RunnerInv, WaitInv, PullInv, StoppedInv, KeylogRun, deployVars, callVars, None
<1>6. QED
  BY <1>3, <1>4, <1>5 DEF RunnerInv

\* Only a restart_all that returned lets the test begin.
LEMMA RestartReturnsInv ==
  ASSUME RunnerInv, RestartReturns
  PROVE  RunnerInv'
<1>1. /\ UNCHANGED <<cfg, rc, pulled, deployVars>> /\ pc = "deploying" /\ dpc = "idle"
      /\ (pc' = "rssi1" /\ dret = "ok") \/ pc' = "fallback"
  BY DEF RestartReturns, Goto, Unchanged, outVars
<1>3. DeployInv'
  BY <1>1, StutterInv DEF RunnerInv
<1>4. RunnerTypeOK' /\ WaitInv'
  BY <1>1
     DEF RunnerInv, RunnerTypeOK, WaitInv, Steps, Testing, InCall, deployVars, callVars
<1>5. PullInv' /\ StoppedInv'
  BY <1>1 DEF RunnerInv, WaitInv, PullInv, StoppedInv, KeylogRun, Testing, Collected,
              deployVars, callVars, None
<1>6. QED
  BY <1>3, <1>4, <1>5 DEF RunnerInv

\* The keylogs are pulled from nodes where only secrets of this run are left.
LEMMA CollectKeylogsInv ==
  ASSUME RunnerInv, CollectKeylogs
  PROVE  RunnerInv'
<1>1. /\ UNCHANGED <<cfg, rc, deployVars>> /\ pc = "keylogs" /\ pc' = "events"
      /\ pulled' = [n \in Node |-> keylog[n]]
  BY DEF CollectKeylogs, Continue, After, RunOrder, Goto
<1>2. DeployInv'
  BY <1>1, StutterInv DEF RunnerInv
<1>3. RunnerTypeOK' /\ WaitInv'
  BY <1>1
     DEF RunnerInv, RunnerTypeOK, WaitInv, Steps, Testing, InCall, deployVars, callVars,
              DeployInv, DeployTypeOK
<1>4. PullInv'
  <2>1. KeylogRun => \A n \in Reachable : "stale" \notin pulled'[n]
    BY <1>1, DeployAssumption
       DEF RunnerInv, PullInv, Testing, DeployInv, KeyInv, Restarting
  <2>2. QED
    BY <1>1, <2>1
       DEF RunnerInv, PullInv, KeylogRun, Testing, deployVars, callVars
<1>5. StoppedInv'
  BY <1>1 DEF RunnerInv, StoppedInv, deployVars, callVars
<1>6. QED
  BY <1>2, <1>3, <1>4, <1>5 DEF RunnerInv

\* _deploy_cleanup, after the test and in the exception handler.
LEMMA SkipCleanupInv ==
  ASSUME RunnerInv, SkipCleanup
  PROVE  RunnerInv'
<1>1. /\ UNCHANGED <<cfg, pulled, deployVars>>
      /\ \/ pc = "cleanup" /\ pc' = "publish" /\ rc' = rc
         \/ pc = "cleanup" /\ pc' = "done" /\ rc' = "success"
         \/ pc = "cleanup1" /\ pc' = "done" /\ rc' = "failure"
  BY DEF SkipCleanup, Finish, Goto, Done, Unchanged, outVars
<1>2. ~(cfg.stop = TRUE /\ cfg.dry = FALSE)
  BY Zenon DEF SkipCleanup, MustClean
<1>3. DeployInv'
  BY <1>1, StutterInv DEF RunnerInv
<1>4. RunnerTypeOK' /\ WaitInv'
  BY <1>1
     DEF RunnerInv, RunnerTypeOK, WaitInv, Steps, Collected, InCall, deployVars,
         callVars
<1>5. PullInv' /\ StoppedInv'
  BY <1>1, <1>2
     DEF RunnerInv, WaitInv, PullInv, StoppedInv, KeylogRun, Testing, Collected,
                    deployVars, callVars, None
<1>6. QED
  BY <1>3, <1>4, <1>5 DEF RunnerInv

\* stop_all is called; what was pulled stays.
LEMMA CleanUpInv ==
  ASSUME RunnerInv, CleanUp
  PROVE  RunnerInv'
<1>1. /\ UNCHANGED <<cfg, rc, pulled>> /\ op' = "stop_all" /\ dret' = None
      /\ \/ pc = "cleanup" /\ pc' = "cleaning"
         \/ pc = "cleanup1" /\ pc' = "cleaning1"
  BY DEF CleanUp, Goto, outVars, CallStop, Call
<1>2. DeployInv'
  BY CallStopInv DEF RunnerInv, CleanUp
<1>3. RunnerTypeOK' /\ WaitInv'
  BY <1>1 DEF RunnerInv, RunnerTypeOK, WaitInv, Steps, Collected, InCall
<1>4. PullInv' /\ StoppedInv'
  BY <1>1
     DEF RunnerInv, WaitInv, PullInv, StoppedInv, KeylogRun, Testing, Collected, None
<1>5. QED
  BY <1>2, <1>3, <1>4 DEF RunnerInv

\* run() returns only from a stop_all that returned.
LEMMA CleanUpReturnsInv ==
  ASSUME RunnerInv, CleanUpReturns
  PROVE  RunnerInv'
<1>1. /\ UNCHANGED <<cfg, pulled, deployVars>> /\ dpc = "idle"
      /\ \/ pc = "cleaning" /\ pc' = "publish" /\ rc' = rc /\ dret = "ok"
         \/ pc = "cleaning" /\ pc' = "done" /\ rc' = "success" /\ dret = "ok"
         \/ pc = "cleaning" /\ pc' = "fallback" /\ rc' = rc
         \/ pc = "cleaning1" /\ pc' = "done" /\ rc' = "failure" /\ dret = "ok"
         \/ pc = "cleaning1" /\ pc' = "done" /\ rc' = "raised"
  BY DEF CleanUpReturns, Finish, Goto, Done, Unchanged, outVars
<1>2. DeployInv'
  BY <1>1, StutterInv DEF RunnerInv
<1>3. RunnerTypeOK' /\ WaitInv'
  BY <1>1
     DEF RunnerInv, RunnerTypeOK, WaitInv, Steps, Collected, InCall, deployVars,
         callVars
<1>4. PullInv' /\ StoppedInv'
  BY <1>1 DEF RunnerInv, WaitInv, PullInv, StoppedInv, KeylogRun, Testing, Collected,
              deployVars, callVars, None
<1>5. QED
  BY <1>2, <1>3, <1>4 DEF RunnerInv

\* DeployManager works only while run() waits for it.
LEMMA CallStepInv ==
  ASSUME RunnerInv, DeployStep, UNCHANGED runVars
  PROVE  RunnerInv'
<1>1. UNCHANGED <<cfg, pc, rc, pulled>>
  BY DEF runVars, outVars
<1>2. DeployInv'
  BY DeployStepInv DEF RunnerInv
<1>3. dpc # "idle" /\ op' = op
  BY DEF DeployStep, StopNode, StopTimesOut, ResetMicrofips, ClearNode, StartNode,
         StartRaises, PollReady, PollTimesOut, VerifyNode, CommandTimesOut, Handled, Return
<1>4. args' = args
  BY DEF DeployStep, StopNode, StopTimesOut, ResetMicrofips, ClearNode, StartNode,
         StartRaises, PollReady, PollTimesOut, VerifyNode, CommandTimesOut, Handled, Return
<1>5. pc \in InCall
  BY <1>3 DEF RunnerInv, WaitInv
<1>6. RunnerTypeOK' /\ WaitInv'
  BY <1>1, <1>3, <1>5 DEF RunnerInv, RunnerTypeOK, WaitInv
<1>7. PullInv' /\ StoppedInv'
  BY <1>1, <1>4, <1>5
     DEF RunnerInv, WaitInv, PullInv, StoppedInv, KeylogRun, Testing, InCall, None
<1>8. QED
  BY <1>2, <1>6, <1>7 DEF RunnerInv

\* The nodes and the threads of the captures go on beside run().
LEMMA BesideInv ==
  ASSUME RunnerInv, DeployInv', UNCHANGED <<callVars, cfg, pc, rc, pulled>>
  PROVE  RunnerInv'
  BY DEF RunnerInv, RunnerTypeOK, WaitInv, PullInv, StoppedInv, KeylogRun, callVars

\* Every step of run(), of DeployManager, of the nodes and of the threads.
LEMMA NextRunnerInv ==
  ASSUME RunnerInv, [RunNext]_vars
  PROVE  RunnerInv'
<1>1. CASE RunStep
  BY <1>1, PlainStepInv, PublishInv, SkipRestartInv, RestartStepInv, RestartReturnsInv,
     CollectKeylogsInv, SkipCleanupInv, CleanUpInv, CleanUpReturnsInv
     DEF RunStep, Plain, Raises, FlashBoards, SkipRssi, StartRssi, StartSerial, StartBtmon,
         StopCaptures, CollectEvents, Decrypt, Analyse, Fallback, Goto
<1>2. CASE DeployStep /\ UNCHANGED runVars
  BY <1>2, CallStepInv
<1>3. CASE NodeStep /\ UNCHANGED runVars
  <2>1. UNCHANGED callVars
    BY <1>3 DEF NodeStep, Respawns, BindsSocket, WritesKeylog, Dies
  <2>2. QED
    BY <1>3, <2>1, NodeStepInv, BesideInv DEF RunnerInv, runVars, outVars
<1>4. CASE \/ \E n \in SshNode : SamplerEnds(n)
           \/ \E t \in {"local", "ssh"} : ReaderEnds(t)
  BY <1>4, StutterInv, BesideInv
     DEF SamplerEnds, ReaderEnds, outVars, deployVars, RunnerInv
<1>5. CASE UNCHANGED vars
  BY <1>5, StutterInv, BesideInv DEF vars, runVars, outVars, deployVars, RunnerInv
<1>6. QED
  BY <1>1, <1>2, <1>3, <1>4, <1>5 DEF RunNext, MainThread

\* The invariant that the theorems below follow from.
THEOREM RunnerInvariant == RunSpec => []RunnerInv
  BY InitRunnerInv, NextRunnerInv, PTL DEF RunSpec

-----------------------------------------------------------------------------
\* After a restart_all that returned, whatever died or was respawned
\* meanwhile, no daemon of an earlier run is left where the lab can reach it,
\* and none answers on a control socket.
THEOREM AnswersAreFresh == RunSpec => []FreshAnswers
<1>1. RunnerInv => FreshAnswers
  BY InvFresh DEF RunnerInv
<1>2. QED
  BY <1>1, RunnerInvariant, PTL

\* A successful run with keylog has pulled secrets of this run only.
THEOREM PulledOfThisRun == RunSpec => []PulledKeysAreFresh
<1>1. RunnerInv => PulledKeysAreFresh
  <2> SUFFICES ASSUME RunnerInv, cfg.restart, cfg.keylog, ~cfg.dry, rc = "success"
               PROVE  \A n \in Reachable : "stale" \notin pulled[n]
    BY DEF PulledKeysAreFresh
  <2>1. cfg.dry \in BOOLEAN /\ cfg.restart \in BOOLEAN /\ cfg.keylog \in BOOLEAN
    BY Flags DEF RunnerInv, RunnerTypeOK
  <2>2. KeylogRun
    BY <2>1, Zenon DEF KeylogRun
  <2>3. QED
    BY <2>2 DEF RunnerInv, PullInv
<1>2. QED
  BY <1>1, RunnerInvariant, PTL

\* A run that is to stop the nodes has stopped them if it returns at all.
THEOREM NodesAreDown == RunSpec => []NodesDown
<1>1. RunnerInv => NodesDown
  <2> SUFFICES ASSUME RunnerInv, cfg.stop, ~cfg.dry, rc \in {"success", "failure"},
                      NEW n \in Reachable
               PROVE  procs[n] = {} /\ ~unit[n]
    BY DEF NodesDown
  <2>1. cfg.dry \in BOOLEAN /\ cfg.stop \in BOOLEAN
    BY Flags DEF RunnerInv, RunnerTypeOK
  <2>2. cfg.stop = TRUE /\ cfg.dry = FALSE
    BY <2>1, Zenon
  <2>3. Down(n)
    BY <2>2 DEF RunnerInv, StoppedInv, DeployInv, StopInv
  <2>4. QED
    BY <2>3, Zenon DEF Down
<1>2. QED
  BY <1>1, RunnerInvariant, PTL

-----------------------------------------------------------------------------
(* The recorders on the nodes *)

\* The steps of a run whose captures have been stopped.
CapturesStopped == {"keylogs"} \cup Collected

RecorderInv ==
    pc \in CapturesStopped \/ rc = "success" => \A n \in SshNode : btmon[n] # "on"

\* A step that leaves btmon alone and does not jump behind _stop_captures.
LEMMA NoRecorder ==
  ASSUME RunnerInv, RecorderInv, UNCHANGED btmon,
         pc' \in CapturesStopped \/ rc' = "success" => pc \in CapturesStopped \/ rc = "success"
  PROVE  RecorderInv'
  BY DEF RecorderInv

\* Only StartBtmon starts a recorder, long before; StopCaptures leaves none
\* that the lab knows of.
LEMMA NextRecorderInv ==
  ASSUME RunnerInv, RecorderInv, [RunNext]_vars
  PROVE  RecorderInv'
<1>1. CASE StopCaptures
  <2>1. PICK copied : btmon' = [n \in SshNode |-> BtmonStopped(n, copied)]
    BY <1>1 DEF StopCaptures
  <2>2. \A n \in SshNode : btmon'[n] # "on"
    BY <2>1 DEF BtmonStopped
  <2>3. QED
    BY <2>2 DEF RecorderInv
<1>2. CASE StartBtmon
  <2>1. pc' \in {"initial", "fallback"} /\ rc' = None
    BY <1>2 DEF StartBtmon, Continue, After, RunOrder, Goto, Done, RunnerInv, WaitInv
  <2>2. QED
    BY <2>1 DEF RecorderInv, CapturesStopped, Collected, None
<1>3. CASE RunStep /\ ~StopCaptures /\ ~StartBtmon
  <2>1. UNCHANGED btmon
    BY <1>3 DEF RunStep, QuietStep, Raises, FlashBoards, SkipRestart, Restart,
       RestartReturns, SkipRssi, StartRssi, StartSerial, CollectKeylogs, CollectEvents,
       Decrypt, Analyse, Fallback, SkipCleanup, CleanUp, CleanUpReturns, Unchanged,
       captureVars
  <2>2. pc' \in CapturesStopped \/ rc' = "success"
          => pc \in CapturesStopped \/ rc = "success"
    BY <1>3 DEF RunStep, QuietStep, Quiet, Raises, FlashBoards, SkipRestart, Restart,
       RestartReturns, SkipRssi, StartRssi, StartSerial, CollectKeylogs, CollectEvents,
       Decrypt, Analyse, Fallback, SkipCleanup, CleanUp, CleanUpReturns, Continue, After,
       RunOrder, Goto, Done, CapturesStopped, Collected
  <2>3. QED
    BY <2>1, <2>2, NoRecorder
<1>4. CASE ~RunStep
  <2>1. UNCHANGED <<pc, rc, btmon>>
    BY <1>4 DEF RunNext, MainThread, SamplerEnds, ReaderEnds, vars, runVars, captureVars
  <2>2. QED
    BY <2>1, NoRecorder
<1>5. QED
  BY <1>1, <1>2, <1>3, <1>4

\* After a successful run no btmon that the lab knows of goes on recording,
\* whatever copy of its file failed and whatever died beside the run.
THEOREM NoRecorderLeft == RunSpec => []RecordersStopped
<1>1. RunInit => RecorderInv
  BY DEF RunInit, RecorderInv, CapturesStopped, Collected, None
<1>2. RecorderInv => RecordersStopped
  BY DEF RecorderInv, RecordersStopped
<1>3. QED
  BY <1>1, <1>2, RunnerInvariant, NextRecorderInv, PTL DEF RunSpec

-----------------------------------------------------------------------------
(* The run keeps the contract of module RunContract                         *)

\* The steps before the analysis has been written, and those after it.
Gathering == {"prepare", "serial", "flash", "deploy", "deploying", "rssi1", "btmon",
              "initial", "rssi2", "loop", "final", "stop", "keylogs", "events", "iperf",
              "decrypt", "analysis"}
Judged == {"charts", "cleanup", "cleaning", "publish"}

ContractInv ==
    /\ pc \in Gathering => "analysis" \notin arts
    /\ pc \in Judged \/ rc = "success" => "analysis" \in arts

\* A step that leaves the artifacts and the outcome alone is none of the
\* contract's, and goes on in order or to the handler.
LEMMA NoArtifact ==
  ASSUME RunnerInv, ContractInv, UNCHANGED <<arts, rc>>,
         \/ pc' = pc
         \/ pc \in Gathering \ {"analysis"} /\ pc' \in Gathering
         \/ pc \in Judged /\ pc' \in Judged
         \/ pc' \in {"fallback", "cleanup1", "cleaning1"}
  PROVE  ContractInv' /\ UNCHANGED Contract!vars
<1>1. ContractInv'
  BY DEF ContractInv, Gathering, Judged, RunnerInv, WaitInv, None
<1>2. UNCHANGED Contract!vars
  BY DEF Contract!vars
<1>3. QED
  BY <1>1, <1>2

\* Captures, keylogs, event logs and the decryption come before the analysis.
LEMMA GatherSteps ==
  ASSUME RunnerInv, ContractInv, StopCaptures \/ CollectKeylogs \/ CollectEvents \/ Decrypt
  PROVE  ContractInv' /\ Contract!Gather
<1>1. /\ rc = None /\ rc' = None
      /\ pc \in Gathering \ {"analysis"} /\ pc' \in Gathering
  BY DEF StopCaptures, CollectKeylogs, CollectEvents, Decrypt, Continue, After, RunOrder,
         Goto, Done, Gathering, RunnerInv, WaitInv
<1>2. \E new \in SUBSET Gathered : arts' = arts \cup new
  <2>1. CASE StopCaptures
    <3>1. PICK copied : arts' = arts \cup {"captures"} \cup
                                  (IF copied = {} THEN {} ELSE {"btsnoop"})
      BY <2>1 DEF StopCaptures
    <3>2. arts' = arts \cup ({"captures"} \cup (IF copied = {} THEN {} ELSE {"btsnoop"}))
      BY <3>1
    <3>3. QED
      BY <3>2 DEF Gathered
  <2>2. CASE CollectKeylogs
    BY <2>2 DEF CollectKeylogs, Gathered
  <2>3. CASE CollectEvents
    BY <2>3 DEF CollectEvents, Gathered
  <2>4. CASE Decrypt
    <3>1. arts' = arts \cup {"decrypt"} \/ arts' = arts \cup {}
      BY <2>4 DEF Decrypt
    <3>2. QED
      BY <3>1 DEF Gathered
  <2>5. QED
    BY <2>1, <2>2, <2>3, <2>4
<1>3. "analysis" \notin arts /\ "analysis" \notin arts'
  BY <1>1, <1>2 DEF ContractInv, Gathered
<1>4. ContractInv'
  BY <1>1, <1>3 DEF ContractInv, Gathering, Judged, None
<1>5. Contract!Gather
  BY <1>1, <1>2, <1>3 DEF Contract!Gather
<1>6. QED
  BY <1>4, <1>5

\* The analysis is written once, and adds nothing to what it judges.
LEMMA JudgeStep ==
  ASSUME RunnerInv, ContractInv, Analyse
  PROVE  ContractInv' /\ Contract!Judge
<1>1. /\ rc = None /\ rc' = None
      /\ pc = "analysis" /\ pc' = "charts"
      /\ arts' = arts \cup {"analysis"}
  BY DEF Analyse, Continue, After, RunOrder, Goto, Done, RunnerInv, WaitInv
<1>2. "analysis" \notin arts /\ "analysis" \in arts'
  BY <1>1 DEF ContractInv, Gathering
<1>3. arts' \cap Gathered = arts \cap Gathered
  BY <1>1 DEF Gathered
<1>4. ContractInv'
  BY <1>1, <1>2 DEF ContractInv, Gathering, Judged
<1>5. Contract!Judge
  BY <1>1, <1>2, <1>3 DEF Contract!Judge
<1>6. QED
  BY <1>4, <1>5

\* A run ends; as a success only after the analysis.
LEMMA EndStep ==
  ASSUME RunnerInv, ContractInv, pc \notin {"done"}, pc' = "done", UNCHANGED arts,
         rc' \in {"failure", "raised"} \/ (rc' = "success" /\ pc \in Judged)
  PROVE  ContractInv' /\ Contract!End
<1>1. rc = None
  BY DEF RunnerInv, WaitInv
<1>2. rc' = "success" => "analysis" \in arts
  BY DEF ContractInv, Judged
<1>3. ContractInv'
  BY <1>2 DEF ContractInv, Gathering, Judged
<1>4. Contract!End
  BY <1>1, <1>2 DEF Contract!End
<1>5. QED
  BY <1>3, <1>4

\* Every step of run() is one of the contract or none of its business.
LEMMA RunStepContract ==
  ASSUME RunnerInv, ContractInv, RunStep
  PROVE  ContractInv' /\ [Contract!Next]_(Contract!vars)
<1>1. CASE StopCaptures \/ CollectKeylogs \/ CollectEvents \/ Decrypt
  BY <1>1, GatherSteps DEF Contract!Next
<1>2. CASE Analyse
  BY <1>2, JudgeStep DEF Contract!Next
<1>3. CASE QuietStep
  <2>1. CASE pc = "publish"
    <3>1. pc' = "done" /\ rc' = "success" /\ UNCHANGED arts
      BY <1>3, <2>1 DEF QuietStep, Continue, After, RunOrder, Done, Unchanged, outVars
    <3>2. pc \in Judged /\ pc \notin {"done"}
      BY <2>1 DEF Judged
    <3>3. QED
      BY <3>1, <3>2, EndStep DEF Contract!Next
  <2>2. CASE pc # "publish"
    <3>1. /\ UNCHANGED <<arts, rc>>
          /\ \/ pc \in Gathering \ {"analysis"} /\ pc' \in Gathering
             \/ pc \in Judged /\ pc' \in Judged
      BY <1>3, <2>2 DEF QuietStep, Quiet, Continue, After, RunOrder, Goto, Unchanged, outVars,
         Gathering, Judged
    <3>2. QED
      BY <3>1, NoArtifact
  <2>3. QED
    BY <2>1, <2>2
<1>4. CASE Raises \/ FlashBoards \/ SkipRestart \/ Restart \/ RestartReturns \/ SkipRssi
  <2>1. /\ UNCHANGED <<arts, rc>>
        /\ \/ pc' = "fallback"
           \/ pc \in Gathering \ {"analysis"} /\ pc' \in Gathering
    BY <1>4 DEF Raises, FlashBoards, SkipRestart, Restart, RestartReturns, SkipRssi,
       Continue, After, RunOrder, Goto, Done, Unchanged, outVars, Gathering
  <2>2. QED
    BY <2>1, NoArtifact
<1>5. CASE StartRssi \/ StartSerial \/ StartBtmon
  <2>1. /\ UNCHANGED <<arts, rc>>
        /\ \/ pc' = "fallback"
           \/ pc \in Gathering \ {"analysis"} /\ pc' \in Gathering
    BY <1>5 DEF StartRssi, StartSerial, StartBtmon,
       Continue, After, RunOrder, Goto, Done, outVars, Gathering
  <2>2. QED
    BY <2>1, NoArtifact
<1>6. CASE Fallback
  <2>1. /\ rc' = rc /\ pc' = "cleanup1" /\ rc = None
        /\ "analysis" \in arts' <=> "analysis" \in arts
        /\ arts' \cap Gathered = arts \cap Gathered
    BY <1>6 DEF Fallback, Goto, Gathered, RunnerInv, WaitInv
  <2>2. ContractInv'
    BY <2>1 DEF ContractInv, Gathering, Judged, None
  <2>3. UNCHANGED Contract!vars
    BY <2>1 DEF Contract!vars
  <2>4. QED
    BY <2>2, <2>3
<1>7. CASE SkipCleanup \/ CleanUp \/ CleanUpReturns
  <2>1. UNCHANGED arts
    BY <1>7 DEF SkipCleanup, CleanUp, CleanUpReturns, Unchanged, outVars
  <2>2. \/ pc' = "done" /\ rc' \in {"failure", "raised"} /\ pc # "done"
        \/ pc' = "done" /\ rc' = "success" /\ pc \in Judged
        \/ rc' = rc /\ pc \in Judged /\ pc' \in Judged
        \/ rc' = rc /\ pc' \in {"fallback", "cleaning1"}
    BY <1>7 DEF SkipCleanup, CleanUp, CleanUpReturns, Finish, Goto, Done, Judged
  <2>3. pc \in Judged => pc # "done"
    BY DEF Judged
  <2>4. QED
    BY <2>1, <2>2, <2>3, EndStep, NoArtifact DEF Contract!Next
<1>8. QED
  BY <1>1, <1>2, <1>3, <1>4, <1>5, <1>6, <1>7 DEF RunStep

\* Every step keeps the contract.
LEMMA NextContract ==
  ASSUME RunnerInv, ContractInv, [RunNext]_vars
  PROVE  ContractInv' /\ [Contract!Next]_(Contract!vars)
<1>1. CASE RunStep
  BY <1>1, RunStepContract
<1>2. CASE ~RunStep
  <2>1. UNCHANGED <<pc, rc, arts>>
    BY <1>2 DEF RunNext, MainThread, SamplerEnds, ReaderEnds, vars, runVars, outVars
  <2>2. QED
    BY <2>1, NoArtifact
<1>3. QED
  BY <1>1, <1>2

\* LabRunner.run implements RunContract for any nodes, scenarios and flags:
\* everything it gathers is there before the analysis, nothing is
\* added after it, and no run is a success unless it has been judged.
THEOREM RunKeepsContract == RunSpec => RunsByContract
<1>1. RunInit => ContractInv /\ Contract!Init
  BY DEF RunInit, ContractInv, Gathering, Judged, Contract!Init, None
<1>2. QED
  BY <1>1, RunnerInvariant, NextContract, PTL DEF RunSpec, RunsByContract, Contract!Spec
=============================================================================
