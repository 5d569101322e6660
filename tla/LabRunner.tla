------------------------------ MODULE LabRunner ------------------------------
(***************************************************************************)
(* LabRunner.run (lab/runner.py): one scenario from the run directory to   *)
(* the return code, on top of the DeployManager of module Deploy.  Every   *)
(* step may raise; the handler writes a fallback analysis, cleans up and   *)
(* returns 1.  The threads of the RSSI collectors and serial captures and  *)
(* btmon on the nodes (lab/capture) run beside.  Runs with --commit are   *)
(* in module Build.                                                        *)
(***************************************************************************)
EXTENDS Deploy

CONSTANTS
    Scenarios,   \* scenario settings and command line flags to run with
    SshNode      \* Linux nodes reached by ssh: RSSI samples and btmon

ASSUME RunnerAssumption ==
    /\ Scenarios \subseteq [dry : BOOLEAN, restart : BOOLEAN, keylog : BOOLEAN,
                            rssi : BOOLEAN, stop : BOOLEAN, capture : BOOLEAN,
                            publish : BOOLEAN]
    /\ SshNode \subseteq Node

VARIABLES
    cfg,         \* the scenario and flags of this run
    pc,          \* the step of run() in progress
    rc,          \* how run() ended
    collectors,  \* RssiCollectors in the list, per node
    samplers,    \* live sampling threads, per node
    halted,      \* whether stop() has set the collectors' stop event
    btmon,       \* per node: off, on, or running after a start taken for failed
    readers,     \* live threads reading a board's console, here or by ssh
    released,    \* whether the serial captures' stop flag is set
    pulled,      \* what each keylog-<alias>.txt of the run directory holds
    arts         \* artifacts in the run directory

rssiVars == <<collectors, samplers, halted>>
captureVars == <<btmon, readers, released>>
outVars == <<pulled, arts>>
runVars == <<cfg, pc, rc, rssiVars, captureVars, outVars>>

-----------------------------------------------------------------------------
(* Control *)

\* What follows a step that does not raise.
RunOrder == [
    prepare |-> "serial", serial |-> "flash", flash |-> "deploy", deploy |-> "rssi1",
    rssi1 |-> "btmon", btmon |-> "initial", initial |-> "rssi2", rssi2 |-> "loop",
    loop |-> "final", final |-> "stop", stop |-> "keylogs", keylogs |-> "events",
    events |-> "iperf", iperf |-> "decrypt", decrypt |-> "analysis",
    analysis |-> "charts", charts |-> "cleanup", cleanup |-> "publish", publish |-> "done"]

\* Mutant: the analysis runs before the capture is decrypted.
EarlyAnalysis(step) ==
    [RunOrder EXCEPT !.iperf = "analysis", !.analysis = "decrypt", !.decrypt = "charts"][step]
After(step) == RunOrder[step]

Goto(next) == pc' = next /\ UNCHANGED <<cfg, rc>>
Done(result) == pc' = "done" /\ rc' = result /\ UNCHANGED cfg
Unchanged == UNCHANGED <<rssiVars, captureVars, outVars, deployVars>>
Continue == IF After(pc) = "done" THEN Done("success") ELSE Goto(After(pc))

\* After _deploy_cleanup.
Finish == IF cfg.publish THEN Goto("publish") ELSE Done("success")

\* A step without effect on what is modelled: artifacts and settings, the
\* isolation list, snapshots, iperf, charts, the publishing script.
Quiet == {"prepare", "initial", "loop", "final", "iperf", "charts", "publish"}

QuietStep ==
    /\ pc \in Quiet
    /\ Continue
    /\ Unchanged

\* Any step of the try block may raise; tshark and the decryption may not.
Raises ==
    /\ pc \in Quiet \cup {"deploy", "stop", "keylogs", "analysis"}
    /\ Goto("fallback")
    /\ Unchanged

-----------------------------------------------------------------------------
(* _deploy *)

\* flash_all_microfips and run_stm32_hil: the boards are no FIPS nodes.  Any
\* failure raises, a dry run skips it.
FlashBoards ==
    /\ pc = "flash"
    /\ Continue \/ (~cfg.dry /\ Goto("fallback"))
    /\ Unchanged

SkipRestart ==
    /\ pc = "deploy"
    /\ cfg.dry \/ ~cfg.restart
    /\ Goto(IF cfg.restart THEN "rssi1" ELSE "btmon")
    /\ Unchanged

\* Mutant: restart_all is called without the scenario's keylog setting.
KeylogForgotten == FALSE
KeylogArgument == cfg.keylog

\* The expected commit is the local checkout's HEAD, when there is one.
Restart ==
    /\ pc = "deploy"
    /\ ~cfg.dry /\ cfg.restart
    /\ \E c \in BOOLEAN, behind \in SUBSET Node :
          CallRestart([keylog |-> KeylogArgument, commit |-> c], behind)
    /\ Goto("deploying")
    /\ UNCHANGED <<rssiVars, captureVars, outVars>>

RestartReturns ==
    /\ pc = "deploying" /\ dpc = "idle"
    /\ Goto(IF dret = "ok" THEN "rssi1" ELSE "fallback")
    /\ Unchanged

-----------------------------------------------------------------------------
(* _start_rssi_if_ready: called by _deploy and again by run() *)

SkipRssi ==
    /\ pc \in {"rssi1", "rssi2"} /\ ~cfg.rssi
    /\ Continue
    /\ Unchanged

\* One per node, for its first BLE peer.
PerNode(n, found) == IF n \in found THEN 1 ELSE 0

\* A collector is added for every node that reports a BLE peer, then all of
\* the list are started, those of an earlier call too.  A start that raises
\* (its first sample times out) leaves the threads running.
StartRssi ==
    /\ pc \in {"rssi1", "rssi2"} /\ cfg.rssi
    /\ \E found \in SUBSET (IF cfg.dry THEN {} ELSE SshNode) :
          /\ collectors' = [n \in SshNode |-> collectors[n] + PerNode(n, found)]
          /\ samplers' = IF cfg.dry THEN samplers
                         ELSE [n \in SshNode |-> samplers[n] + collectors'[n]]
    /\ Continue \/ Goto("fallback")
    /\ UNCHANGED <<halted, captureVars, outVars, deployVars>>

\* A thread notices the stop event, or its ssh times out and kills it.
SamplerEnds(n) ==
    /\ samplers[n] > 0
    /\ samplers' = [samplers EXCEPT ![n] = @ - 1]
    /\ UNCHANGED <<cfg, pc, rc, collectors, halted, captureVars, outVars, deployVars>>

-----------------------------------------------------------------------------
(* SerialLogCapture and BtmonCapture *)

Capturing == cfg.capture /\ ~cfg.dry

\* One thread per board: on a port of this machine, or on the output of a
\* remote cat.  It ends on its own when the port or the ssh does.
StartSerial ==
    /\ pc = "serial"
    /\ readers' \in IF Capturing THEN SUBSET {"local", "ssh"} ELSE {{}}
    /\ Continue
    /\ UNCHANGED <<btmon, released, rssiVars, outVars, deployVars>>

\* A read of a local port returns within a second; readline on an ssh pipe
\* returns with the board's next line, or never.
ReaderEnds(t) ==
    /\ t \in readers
    /\ readers' = readers \ {t}
    /\ UNCHANGED <<cfg, pc, rc, btmon, released, rssiVars, outVars, deployVars>>

\* Launch, take the pid, ask whether it is alive: a "no" forgets the pid,
\* whether or not btmon runs.  An exception leaves those started before.
StartBtmon ==
    /\ pc = "btmon"
    /\ btmon' \in IF Capturing THEN [SshNode -> {"off", "on", "forgotten"}] ELSE {btmon}
    /\ Continue \/ (Capturing /\ Goto("fallback"))
    /\ UNCHANGED <<readers, released, rssiVars, outVars, deployVars>>

\* Mutant: btmon is stopped only where the copy of its file will work.
BtmonWhereCopied(n, copied) == IF btmon[n] = "on" /\ n \in copied THEN "off" ELSE btmon[n]
BtmonStopped(n, copied) == IF btmon[n] = "on" THEN "off" ELSE btmon[n]

-----------------------------------------------------------------------------
(* Collecting results *)

\* Mutant: stop() returns the samples without setting the event.
EventNotSet == halted
EventSet == [n \in SshNode |-> collectors[n] > 0]

\* _stop_captures: stop() of every collector saves what there is; the join
\* is bounded, a thread may outlive it.  btmon.btsnoop is there if a copy
\* worked.
StopCaptures ==
    /\ pc = "stop"
    /\ halted' = EventSet /\ released' = Capturing
    /\ \E copied \in SUBSET {n \in SshNode : btmon[n] = "on"} :
          /\ btmon' = [n \in SshNode |-> BtmonStopped(n, copied)]
          /\ arts' = arts \cup {"captures"} \cup (IF copied = {} THEN {} ELSE {"btsnoop"})
    /\ Continue
    /\ UNCHANGED <<readers, collectors, samplers, pulled, deployVars>>

\* _collect_keylogs reads the nodes' files, in a dry run too.
CollectKeylogs ==
    /\ pc = "keylogs"
    /\ pulled' = [n \in Node |-> keylog[n]]
    /\ arts' = arts \cup {"keylogs"}
    /\ Continue
    /\ UNCHANGED <<rssiVars, captureVars, deployVars>>

\* _collect_event_logs catches its timeouts; reads in a dry run too.
CollectEvents ==
    /\ pc = "events"
    /\ arts' = arts \cup {"events"}
    /\ Continue
    /\ UNCHANGED <<rssiVars, captureVars, pulled, deployVars>>

\* _run_btsnoop_decrypt and _run_tshark_analysis catch everything.
Decrypt ==
    /\ pc = "decrypt"
    /\ \/ "btsnoop" \in arts /\ arts' = arts \cup {"decrypt"}
       \/ UNCHANGED arts
    /\ Continue
    /\ UNCHANGED <<rssiVars, captureVars, pulled, deployVars>>

Analyse ==
    /\ pc = "analysis"
    /\ arts' = arts \cup {"analysis"}
    /\ Continue
    /\ UNCHANGED <<rssiVars, captureVars, pulled, deployVars>>

-----------------------------------------------------------------------------
(* The exception handler and _deploy_cleanup *)

Fallback ==
    /\ pc = "fallback"
    /\ arts' = arts \cup {"fallback"}
    /\ Goto("cleanup1")
    /\ UNCHANGED <<rssiVars, captureVars, pulled, deployVars>>

\* Mutant: a failed run leaves the nodes alone.
CleanAfterSuccess == cfg.stop /\ ~cfg.dry /\ pc = "cleanup"
MustClean == cfg.stop /\ ~cfg.dry

\* "cleanup" ends a successful run, "cleanup1" is the handler's.
SkipCleanup ==
    /\ pc \in {"cleanup", "cleanup1"} /\ ~MustClean
    /\ IF pc = "cleanup" THEN Finish ELSE Done("failure")
    /\ Unchanged

CleanUp ==
    /\ pc \in {"cleanup", "cleanup1"} /\ MustClean
    /\ CallStop
    /\ Goto(IF pc = "cleanup" THEN "cleaning" ELSE "cleaning1")
    /\ UNCHANGED <<rssiVars, captureVars, outVars>>

\* stop_all raised in the try block: the handler tries again.  In the
\* handler: the exception leaves run().
CleanUpReturns ==
    /\ pc \in {"cleaning", "cleaning1"} /\ dpc = "idle"
    /\ \/ pc = "cleaning" /\ IF dret = "ok" THEN Finish ELSE Goto("fallback")
       \/ pc = "cleaning1" /\ Done(IF dret = "ok" THEN "failure" ELSE "raised")
    /\ Unchanged

-----------------------------------------------------------------------------
RunInit ==
    /\ DeployInit
    /\ cfg \in Scenarios
    /\ pc = "prepare" /\ rc = None
    /\ collectors = [n \in SshNode |-> 0]
    /\ samplers = [n \in SshNode |-> 0]
    /\ halted = [n \in SshNode |-> FALSE]
    /\ btmon = [n \in SshNode |-> "off"] /\ readers = {} /\ released = FALSE
    /\ pulled = [n \in Node |-> {}]
    /\ arts = {}

RunStep ==
    \/ QuietStep \/ Raises \/ FlashBoards
    \/ SkipRestart \/ Restart \/ RestartReturns
    \/ SkipRssi \/ StartRssi \/ StartSerial \/ StartBtmon
    \/ StopCaptures \/ CollectKeylogs \/ CollectEvents \/ Decrypt \/ Analyse
    \/ Fallback \/ SkipCleanup \/ CleanUp \/ CleanUpReturns

MainThread == RunStep \/ (DeployStep /\ UNCHANGED runVars)

RunNext ==
    \/ MainThread
    \/ NodeStep /\ UNCHANGED runVars
    \/ \E n \in SshNode : SamplerEnds(n)
    \/ \E t \in {"local", "ssh"} : ReaderEnds(t)

vars == <<deployVars, runVars>>

\* The main thread goes on, since every wait of it has a timeout, but that for
\* the publishing script (subprocess.run without one, of a script whose own
\* commands have none); a sampling thread whose event is set leaves its
\* loop, as does a reader of a local port; nothing is assumed of one that waits
\* for a remote board.
RunSpec ==
    /\ RunInit /\ [][RunNext]_vars
    /\ WF_vars(pc # "publish" /\ MainThread)
    /\ \A n \in SshNode : WF_vars(halted[n] /\ SamplerEnds(n))
    /\ WF_vars(released /\ ReaderEnds("local"))

-----------------------------------------------------------------------------
(* Properties *)

\* The keylogs of a run that restarted its nodes with keylog hold secrets of
\* this run only: none a daemon of an earlier run wrote, whatever the
\* interleaving of its writes, its death and its respawn with the restart.
PulledKeysAreFresh ==
    cfg.restart /\ cfg.keylog /\ ~cfg.dry /\ rc = "success" =>
        \A n \in Reachable : "stale" \notin pulled[n]

\* The run keeps its contract: captures, keylogs, event logs and decryption
\* are there before the analysis judges them, none comes after it, on any
\* path, and a run that was not judged is no success.
Gathered == {"captures", "btsnoop", "keylogs", "events", "decrypt"}

Contract == INSTANCE RunContract WITH
    Evidence <- Gathered,
    evidence <- arts \cap Gathered,
    judged <- "analysis" \in arts,
    outcome <- rc

RunsByContract == Contract!Spec

\* Every run comes to an end, or to waiting for the publishing script, for
\* which no time is set: whatever times out, raises, dies or respawns before,
\* and if the script is what raises, after it too.
RunEnds == <>[](pc \in {"publish", "done"})

\* However a run with stop_after_test ended, if run() returned at all then
\* nothing runs on the nodes it can reach.
NodesDown ==
    cfg.stop /\ ~cfg.dry /\ rc \in {"success", "failure"} =>
        \A n \in Reachable : procs[n] = {} /\ ~unit[n]

\* After a successful run no thread goes on sampling or reading a port of
\* this machine.
ThreadsEnd ==
    rc = "success" ~> "local" \notin readers /\ \A n \in SshNode : samplers[n] = 0

\* Nor does a btmon the lab knows of go on recording on a node.
RecordersStopped == rc = "success" => \A n \in SshNode : btmon[n] # "on"
=============================================================================
