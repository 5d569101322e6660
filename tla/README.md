# A TLA+ verification project for fips-lab

fips-lab runs FIPS mesh nodes and microfips boards through physical lab
scenarios: it deploys daemons, flashes boards, captures traffic, and turns
what it collected into verdicts. This directory holds TLA+ models of the
parts of it where the order of events decides the outcome, the TLC runs that
check them on small instances and TLAPS proofs of the properties that matter
most. `PROJECT.json` lists the runs, the lines every definition models, the
hazards and the properties that cover them, and the theorems.

Paths are relative to the repository. Checking needs SANY/TLC with the
community modules and tlapm: `tlc -config MCX.cfg MCX` for a run,
`tlapm XProofs.tla` for the proofs of a module.

## 1. The system

Two programs share the repository.

* The **physical bench** (`fips_lab/`, `tests/`): pytest scenarios that take
  the board lock, build and flash firmware, borrow the lab's UDP bind from a
  standard daemon (`LabDaemon`), tap board consoles and decrypt captures
  (`lib/fips_decrypt.py`). A labgrid environment drives nodes through
  `FipsStrategy` and its drivers.
* The **scenario runner** (`lab/`): `python -m lab` loads a scenario and an
  inventory; `LabRunner.run` builds and deploys the nodes (`BuildManager`,
  `DeployManager`), starts and stops captures (btmon over ssh, serial and RSSI
  threads), polls the nodes for metrics, pulls keylogs, decrypts the btsnoop
  capture, analyses the artifacts into a verdict and cleans up.
  `CampaignRunner` runs several scenarios and combines their verdicts.

### Inventory

| Component | Source | State | Operations | Interacts with | What is hard |
|---|---|---|---|---|---|
| LabDaemon, stale sweep | `fips_lab/bench.py` 900-1135 | process, log file, "standard was running" | start, stop(restore), sweep | standard daemon, ports, operator | late exits, held binds, restarts |
| Board lock | `fips_lab/bench.py` 1291-1328 | flock, legacy record, registry | acquire, release | other sessions and users | three layers, exceptions in between, killed sessions |
| Bench firmware | `fips_lab/bench.py` 200-900, `tests/` | shared build tree, quiesce cache, boards, taps | build, verify, quiesce, flash, tap, measure | sessions, boards, USB port names | stale builds, sessions that build without the lock |
| DeployManager, Device | `lab/deploy.py`, `lab/device.py` | none of its own: it changes the nodes | restart_all, stop_all, flash, HIL | systemd, ssh, daemons | commands without status, timeouts, respawns |
| BuildManager | `lab/build.py` | clones and binaries on the nodes | build_all | git remotes, cargo | stale branches, partial failure |
| LabRunner | `lab/runner.py` | captures, collectors, run directory | run() and its twenty steps | all of `lab/` | exceptions at every step, threads |
| Captures | `lab/capture/{rssi,serial_log,btmon,keylog}.py` | threads, remote processes, files | start, stop, collect | LabRunner, nodes | double start, threads and processes that outlive the run |
| btsnoop decoder | `lab/capture/btsnoop_decrypt.py` | buffers, channel tables, counters | reassemble, track, decrypt, summarise | keylogs | lost records, reused identifiers, late captures |
| Offline decryptor, rig | `lib/fips_decrypt.py`, `lib/rig_loopback.py` | keylog generations, counters | decrypt, gate | rig processes | a ratio that must not lie |
| Analysis | `lab/analysis.py` | none (a function of the artifacts) | analyze_run | run directory | which sample is read, duplicates of one event |
| CampaignRunner | `lab/campaign.py` | results | run | LabRunner, run directories | look-up by name, partial failure |
| FipsStrategy, drivers | `fips_lab/strategy`, `fips_lab/drivers` | status | transition | labgrid | stale status |
| Charts, publishing, tshark, iperf, correlate, dissector, loaders, BLE spike, set-up scripts | see `PROJECT.json` | files | format, copy, parse | outside tools | nothing concurrent |

What makes each component correct, in a sentence:

* *LabDaemon*: start() returns only for a process of its own that holds the
  bind, never beside the standard daemon, and whatever happens the session
  leaves the standard daemon as it found it.
* *Board lock*: one user of the boards at a time, and every layer names it.
* *Firmware*: what a scenario measures is what it built, on boards that are
  quiet around it, and never a board it must not touch.
* *Deploy, Build, LabRunner*: after a restart only this run's daemons, of the
  version asked for, answer and write keylogs; a run ends, and ends clean.
* *Decoder, decryptor*: frames come back whole, once, in order; only FIPS
  traffic is published; every counter adds up and the gate cannot be fooled.
* *Analysis, campaign*: PASS means that the links were up and that this run,
  not another, earned it.

### Behaviours that are hard to test

1. Concurrency with what the code does not control: a standard daemon that
   exits late, an operator's sweep, systemd respawns, a push to the branch
   under test, a second bench session, boards that change port names.
2. Failure between two steps: an exception after the flock, a node that times
   out in the middle of stop_all, a session killed while it fills a cache.
3. State read early and used late: the standard daemon seen at start, a log
   file with an earlier success in it, a path to a binary that is rebuilt, a
   port looked up before a long build, a run directory found by its name.
4. Threads and processes started at one step and stopped at another.
5. Captures that start late, lose records or interleave connections.
6. Rounding and ratios on small counts.

`PROJECT.json` "hazards" names the line of each.

## 2. Modules

| Module | Models | State and how it maps |
|---|---|---|
| `LabDaemon` | `LabDaemon`, `_stop_standard`, `stale_lab_daemons` | `proc`, `log`, `phase` per object: its process, log file and life cycle; `std`, `bind`: the machine; `seen` is `_standard_was_running`; `pc`, `cur` the call in progress |
| `BenchLock` | `acquire_board_lock`, its release, legacy consumers | `flock`, `record`, `registry`, one `pc` per actor |
| `Firmware` | what scenarios do under (and outside) the lock; EXTENDS `BenchLock` | `test`, `at` the scenario each pytest session is at and its next call; `target` (the shared target/release), `cache` (/tmp/fips-lab-quiesce), `fw`, `taps`; `asked` the board a session's flash() has asked the registry about; `astray` (history) the sessions whose port had another board by the time of espflash |
| `Deploy` | `restart_all`, `stop_all` phase by phase; nodes and systemd as environment | `procs`, `unit`, `sock`, `keylog` per node, by age relative to the restart; `dpc`, `todo` the phase and the nodes it has not handled; `compared`, `mismatch` the nodes whose version was compared, and whether one differed |
| `Build` | `BuildManager`, `_build`, `_deploy` with `--commit`; EXTENDS `Deploy` | `branch`, `head`, `binary` per node; `result` is the `BuildResult`; `step`, `at`, `left` the loop |
| `RunContract` | what a run promises: evidence, one judgement, then no more evidence | `evidence`, `judged`, `outcome` |
| `LabRunner` | `run()` with its handler, RSSI, serial, btmon; EXTENDS `Deploy`, implements `RunContract` | `pc` the step, `arts` files of the run directory, `samplers`, `readers`, `btmon` what runs beside |
| `AclReassembly` | the operators of `reassemble_acl_packets` | none; `buffers` is in `Capture` |
| `CocTracker` | `extract_fips_l2cap_frames`, `_process_signalling`, `_detect_fips_cids` | the tables keyed as in the code; `log` the data frames read and the verdict on each |
| `Capture` | hosts, controller and btmon around the two above; EXTENDS both | `requests`, `channels` the hosts' view, `air` the frame each side of each handle has under way, `lost`, `buffers`; history: `captured`, `unanswered`, `crossed`, `shared`, `garbled` |
| `DecryptSummary` | key selection, counters, rekey groups | `keys`, `decrypted`, `failed`, `phases` |
| `RigGate` | the frame walk and the loopback gate | `lines` (keylog), `stats` (the code's counters), `wire` (what was sent) |
| `Analysis` | `analyze_run`: connections, disconnects, key coverage, rekeys, verdict | none: operators on a series of samples and the keylogs |
| `CampaignContract` | what a campaign promises: scenarios settled in order, each by its own run or as a failure | `left`, `own`, `verdicts`, `end` |
| `Campaign` | `CampaignRunner.run`, `create_run_dir`, the polls of a run; EXTENDS `Analysis`, implements `CampaignContract` | `dirs`, `results`, `todo`; `series`, `report` the run in progress |

Each specification has an `MC` module with its model values (`Capture`'s
serves reassembly and tracker, `Campaign`'s the analysis, `Build`'s the
deployment, `Firmware`'s the lock). Modelled data is reduced
to what the properties tell apart: an image is the binary it is, who built it
and whose keys it has; a keylog is the set of ages of the processes that wrote
it, or in `Analysis` a set of keys, each of a kind and a peer; a frame is its stream, number and
units; a commit is a model value.
Operators named in a comment as *Mutant* are deliberately wrong variants of
the definition that follows them; they show that a property can fail.

### How the modules compose

`Capture` is one pipeline: the hosts' actions put fragments on the air, each
fragment becomes a record or is lost, `AclReassembly!Feed` turns records into
frames and `CocTracker!Track` follows the signalling among them. So a lost
record can cost the tracker a set-up, a frame put together from pieces of
two may pass for signalling, and reassembly must cope with a capture that starts
in the middle of a frame. `Firmware` does the same for the bench:
each call of a test function is a step, the lock's actions are `BenchLock`'s,
and the quiesce cache and the build tree connect sessions that never hold the
lock together. `LabRunner` and `Build` share the deployment of `Deploy`.

## 3. Runs

| Run | Bounds | Why they are enough | Shows |
|---|---|---|---|
| `lab_daemon` | two objects (lab bind, rogue bind), one foreign stale holder, one mid-test restart | every pair of participants on one port occurs, each with and without the will to exit | the start/stop protocol, restoring, termination |
| `lab_daemon_restart` | one object, one restart | the shortest session with a restart | **violated**: a restart forgets the standard daemon |
| `firmware` | two sessions, one with soak and l2cap in any order, one with dos_floor, for ever; a foreign consumer, two atoms, the S3, an off-limits board | two sessions suffice for every overlap; each scenario may follow each other one and find what it left in the build tree, the cache and on the boards; hybrid, which does nothing to a board that dos_floor and l2cap do not, is left to the proofs | lock and firmware together, with exceptions, failed flashes, ports that change boards and kills anywhere |
| `firmware_unlocked` | two sessions, soak beside mcu_to_mcu, which builds before the lock | the shortest pair that shares an S3 image | **violated**: it replaces the image the other has verified |
| `build` | local node and remote node, two commits, one branch; no daemon dies | two clones differ or not; two commits suffice for "different" | with and without `--commit`, in every state of the clones, a push at any moment; nodes whose version nobody learns |
| `lab_runner` | one systemd node that may die and be respawned, one by hand whose commands may time out | each kind of node, each order of them | the life cycle with an exception at every step, and that it implements `RunContract` |
| `capture` | in one scope an LE and a BR/EDR handle, two CIDs, two identifiers, two channels or requests, two data frames of one unit, one lost record; in the other one channel, three frames of one or three units in both directions, two lost records | set-ups overlap on one connection or across two, with equal or different identifiers and CIDs; either is postponed, refused or closed, and its names are used again; the lost record is a request, a response or data. A gap lies within, before and after a frame, the other direction's start or continuation anywhere in between, and a second gap lets two pieces fit together | a frame with contiguous records comes out whole and once; tracked traffic is FIPS traffic, and all of it; late captures |
| `coc_shared_cid` | two handles, two channels, nothing lost | the shortest pair of channels with a CID in common | **violated**: two services with a CID in common |
| `decrypt_summary` | three sessions (one without keys), keylogs of up to three entries, five frames | shares of 5 among 2 groups round both ways | counters add up |
| `rig_gate` | three datagrams of up to two frames, a gate of 0.6667 | two of three frames and four of six pass only because the report rounds 2/3 up | a pass speaks for the link layer, to the half of a ten-thousandth; healthy captures pass |
| `campaign` | two scenarios, one named like the end of the other, up to three polls of eight views of three nodes, default assertions or one of each kind, five collections of keylogs | a drop needs two samples, a reconnect three; the name clash needs two; the keylogs are none, one end's with a key of another peer, both ends' with link keys, session keys or nothing in either, a rekey | verdicts are earned, and the campaign implements `CampaignContract` |
| `campaign_reconnect` | one scenario, six polls, `within_secs` of three polls | longer than the deadline and back again | **violated**: a link that came back too late passes |

Six configurations beside these belong to no run: each lets TLC find the
counterexample to a further claim of section 5 (`tlc -config MCFirmwarePort.cfg
MCFirmware` and so on).

| Configuration | Property | Claim that the code does not keep |
|---|---|---|
| `MCFirmwarePort.cfg` | `OffLimitsUntouched` | the port changes hands between the registry's answer and espflash, which writes to a board off limits |
| `MCCaptureFallback.cfg` | `OnlyFipsDetected` | the fallback returns other channels of the connection |
| `MCCaptureOverlap.cfg` | `AllFipsOverlapping` | two requests with one identifier: one direction of a channel is dropped |
| `MCCaptureDeferred.cfg` | `AllFipsWhenDeferred` | a pending response uses up the request: the channel is not tracked |
| `MCCaptureDuplex.cfg` | `FramesWhole` | the directions of a connection mix in one buffer |
| `MCRigGateSession.cfg` | `EveryLayer` | session frames that no key opens do not count |

Bounds a reader should know of:

* `lab_daemon` checks `TeardownRestores` of sessions without a restart (the
  property says so); sessions with one are in `lab_daemon_restart`, where the
  claim of the docstring fails.
* `build`: the initial clones share one HEAD, and `Crashy` is empty: a daemon
  that dies and is respawned in the middle of a restart is in `lab_runner`, and
  for `KeylogFresh` and `OneVersion` in the proofs. `OneVersion` speaks of the
  nodes whose version was compared: `_verify_binary_versions` only warns of
  one that gives no status or no version it can parse, and compares nothing
  when git gave no commit. `StartRaises` may have started the node: an ssh
  that times out says nothing of what it did.
* `lab_runner`: RSSI and captures are sampled in different runs.
* `firmware`: there is no bound on the scenarios a session runs; what a run
  built is *aged* when the next one starts, which keeps the model finite. A
  session that has flashed through a port that changed hands (`astray`) is
  exempt from `MeasuresOwnImage` and `BenchIsQuiet`: it measures a board of
  which the code knows nothing. The only board that takes another's port name
  is the one off limits.
* `capture`, what the environment may do: either side of either connection
  sends one frame after the other, and all four interleave fragment by
  fragment in any order; set-ups overlap as they like; btmon loses what it
  likes up to `MaxLost`. A signalling command fits one fragment (at most 27
  octets, the smallest LE fragment). What a frame without its header is read as
  is chosen freely (`Strays`): data of any CID, or any signalling command.
* `capture`, what the properties ask of a capture: `captured` are the data
  frames whose records are all in the file with no record of the same
  connection between them, `FramesIntact` is about those. `AllFips` and
  `OnlyFipsWhenTracked` further ask that the capture can be followed
  (`Followed`). That excludes three things. In the first two, and by way of
  mixed directions in the third, TLC shows the code to fail: two outstanding
  requests with one identifier or one CID (`crossed`; `MCCaptureOverlap.cfg`), open
  channels of two services with a CID in common, be it on different connections
  (`shared`; the run `coc_shared_cid`), and frames read without their header, or
  after their channel was closed (`garbled`; `MCCaptureDuplex.cfg`). `AllFips`
  does not speak of channels whose response was first "pending"
  (`MCCaptureDeferred.cfg`).
* `capture`: the local side sets up the first channel. The sides differ only in
  the flag of a start, and the code treats both flags alike.
* `capture`: `MaxSetups` counts the channels open at the start too.
  `LateCaptureReturned` excludes captures in which another connection has more
  than four times the FMP frames of this one, which two data frames cannot
  reach: `_detect_fips_cids` drops a connection below a quarter of the best. The
  proof covers any number of frames.
* `campaign`: `duration_secs` is positive, as in every shipped scenario: a run
  that is not dry polls at least once, since `_test_loop` polls before it
  looks at the clock.
* `campaign`: run directories are named by the local time (`datetime.now()`).
  The model's seconds never go back: a clock set back between two runs, as at
  the end of daylight saving time, can give an older directory the greater
  name, and `KeepsContract` says nothing of that.

`CHECK_DEADLOCK FALSE` stands where a run simply ends (a program that has
returned) or the input is used up.

### Fairness

Only what the code's own waiting justifies:

* `LabDaemon`: the Python session goes on (every wait in it is a bounded
  poll), a daemon that was killed dies, and one that was asked to terminate
  does unless it is `Stubborn`.
* `LabRunner`: the main thread goes on, since every subprocess call of it has a
  timeout, except in the last step: `_publish_results` (`lab/runner.py:574`)
  runs a script without one, and the script's own commands have none either.
  So the step `publish` is not fair, and `RunEnds` says that a run ends or
  waits for that script for ever. A sampling thread whose event is set ends (its sleep is an
  `Event.wait`, its ssh has a timeout), a reader of a local port too (it reads
  with a timeout of 1 s). Nothing is assumed of a reader of a remote console,
  of systemd or of the daemons.

All other runs check safety only and assume no fairness.

## 4. Proofs

TLAPS proves every invariant, every action property and both refinements (of
`RunContract` and `CampaignContract`) that the passing runs check, for every value of the constants, under the named
assumptions of the modules (`DaemonAssumption`, `LockAssumption`,
`FirmwareAssumption`, `DeployAssumption`, `BuildAssumption`,
`RunnerAssumption`, `AclAssumption`, `CocAssumption`, `CaptureAssumption`,
`SummaryAssumption`, `RigAssumption`, `AnalysisAssumption`,
`CampaignAssumption`: sets are disjoint or contain each other, bounds are
naturals, a topology is finite; TLC evaluates them in every run). One theorem
has a further hypothesis, named below, and says less for it: `OwnImages`.

None of the properties is inductive by itself; what follows says which
invariant each module adds, and why.

* `LabDaemonProofs`: `TypeCorrect`, `ReadyMeansBound`, `ExclusiveBind`,
  `OnlyRestores` and the action property `TeardownIsRestore`. The invariant
  `IInv` adds: ports and processes agree (`BindConsistent`); a process that
  has not bound is the one start() waits for and wrote no success
  (`StartingInv`); a success in a log is this spawn's (`LogInv`), which is
  where truncating the log on each spawn is needed; what start() has checked
  still holds when it spawns (`CallInv`), which is where the order "wait for
  the standard daemon, then check the port, then spawn" is needed; and a
  standard daemon that never ran is never restored (`UninvitedInv`). One lemma
  per group of actions shows that it is preserved. For the teardown, `SeenInv`
  says that the standard daemon stays up until the session's first start()
  looks, and that without a restart nobody looks again on behalf of that
  object: with a restart this fails, and so does `StandardRestored`.
* `FirmwareProofs`, the lock: `TypeCorrect`, `MutualExclusion` and
  `HolderNamed` are about `BenchLock` alone. `LockInv` says which layers a session holds at each step
  of acquire and release, and that a consumer at work is in the record. Mutual
  exclusion rests on the flock between sessions and on the record between
  users; neither suffices alone. `ScenariosKeepTheLock` shows that every step
  of a scenario is a step of the lock or leaves it alone, so `ScenariosAreAlone`
  and `ScenarioIsNamed` follow.
* `FirmwareProofs`, the bench: `OffLimitsIsGated` says that espflash writes to
  a board off limits only in a call of flash() that had asked the registry and
  been answered for another board: no path to espflash goes around the
  question, and the question is about the board found, not the one meant. More
  is not true (`MCFirmwarePort.cfg`). The others start from the shape of the scripts, proved once for all of them
  (`GoodScript`): one lock, every store behind an open and every tap behind a
  flash of its board, all boards silenced or flashed before the first
  measurement. `PlaceInv` ties the call a session is at to its part of the
  lock, so that nobody else can disturb what a session inside has ready
  (`NowInv`) or done (`DoneInv`); `ReadersAlone` and `QuietBench` follow, for
  any suites and boards and whatever was killed or torn before. `OwnImages`
  holds if `SeparateBuilds`: no session builds in front of the lock what
  another one builds. The suite of `MCFirmware` is of that kind and that of
  `firmware_unlocked` is not (`SuiteAssumption`, which TLC evaluates in both
  runs), and there the property is violated. `BuiltInv` says that the last
  thing a session compiled to a path is there or was cleaned away.
* `DeployProofs`: `restart_all` and `stop_all` are called by two programs, and
  the lemmas say that every step of a call and of the nodes preserves
  `DeployInv`. `StopInv` says that a node stop_all has handled is down (no
  process, no socket, unit inactive) until restart_all starts it, and that only
  daemons of this run are left from then on; `KeyInv` needs it, since nothing
  may write between the clearing of a keylog and the start; `VersionInv` says
  that what was compared differed from nothing, and that the daemon compared is
  the one of this run. A call that raised
  promises nothing, and the invariant says so. `DeployTypeCorrect`,
  `KeylogsOfThisRun`, `BinariesAreBuilt` and `OneVersionRuns` are about the run
  with `--commit`. `ResultInv`: whatever node build_all is done with has its
  binary from the commit of its result, or a failure that keeps `_build` from
  returning. `RestartInv`: after the restart nothing is checked out any more,
  so what it compared is still what runs.
* `RunnerProofs`: `AnswersAreFresh`, `PulledOfThisRun`, `NodesAreDown`,
  `NoRecorderLeft` and `RunKeepsContract` for `run()`. `WaitInv` ties the step
  of `run()` to the call in progress; `PullInv` carries the promise of
  restart_all to the step that pulls the keylogs and from there to the end;
  `StoppedInv` says that only a stop_all that worked leads to a return;
  `RecorderInv` that the captures are stopped on the only path to success.
  `RunKeepsContract` is the refinement of `RunContract`: `ContractInv` ties the
  steps before and after the analysis to whether analysis.json is there.
* `CaptureProofs`: `CaptureInv` has two parts beside the types. `FrameInv`
  follows a frame: while its records are contiguous the buffer of its handle
  holds exactly the units that have crossed (`AirInv`), nothing of it is
  anywhere else and no other frame in the air has its number (`AloneInv`), and
  once it is captured it has been read, whole and once, and no rest of it can
  come out again (`ReadInv`). It needs no bound on what is lost, since a
  start overwrites whatever a loss has left in the buffer, and `FramesAreIntact`
  follows for full-duplex traffic and any losses. `TrackInv` follows the
  tables: as long as requests can be told apart, each outstanding one is there
  under its identifier and CID and nothing else is, so a response finds its own
  (`RequestInv`); as long as the capture can be followed, an open channel whose
  set-up was read is there under both CIDs (`ChannelInv`), and the verdict on
  its frames was right (`VerdictInv`). `FipsIsReturned` and
  `OnlyFipsIsReturned` follow; `LateCapturesWork` needs the first part and that
  without a known channel nothing was taken (`BlankInv`): the fallback's
  counts are compared on what was read, however much is missing.
* `SummaryProofs`: `SessionsAreGroups` because a frame is filed under the first
  entry of its session (`FirstInv`), `DirectionsAgree` because that is itself
  inductive together with the types, `SharesAgree` from the definition of the
  last share. The last two need that a sum over a finite set does not depend
  on the order in which `SumFunctionOnSet` takes its elements.
* `RigGateProofs`: `GateIsHonest` and `NoAlarmIsFalse`. The report rounds the
  link ratio to four decimals and the gate compares what was rounded; `LinkGate`
  therefore allows for half a ten-thousandth, and says nothing of the session
  layer. `CountInv` says that the
  code's counters are those of the wire: each datagram adds as many frames to
  both, coalesced ones included. `NoAlarmIsFalse` does not use the hypothesis
  that session frames open: no sealed one is counted (section 5).
* `CampaignProofs`: `PassIsUp`, `PassHasKeys` and `DropsReported` are about
  `analyze_run` and hold for any topology, polls and keylogs. `PassIsUp` says
  that every link is *listed* by one of its ends in the last poll, not that it is
  connected: a drop is a peer no longer listed. `PassHasKeys` says that one end
  of every link ever listed has a keylog that is not empty: keys are counted
  per device, so they may be of another peer, or session keys alone
  (`analysis.py:404`), which do not open the link's frames. `DropsReported`
  says of `reconnected` that it is never claimed wrongly; a pair that
  is listed again only by its other end is reported as gone (`analysis.py:50`,
  `:467`), which the property does not cover. The argument: the verdict
  passes only if no link was dropped, the best sample therefore lists every
  link and so does the last. `CampaignKeepsContract` is the refinement of
  `CampaignContract`. `OrderInv` says why looking up a directory by its name
  finds the right one: a poll takes a second, so of several directories of one
  second only the last can have a verdict that counts, and the last is the one
  of the run that has just returned.

The provers cannot instantiate the library's induction theorems. Where an
induction over numbers or finite sets is needed (sums, the concatenation of
the parts of a script, the greatest of some places) the proofs take a least
counterexample instead, which `NatLessThanWellFounded` and `WFMin` provide.

Out of reach, and left to TLC: liveness under fairness (`SessionEnds`,
`RunEnds`, `ThreadsEnd`) and everything with ENABLED. The violated properties
(`StandardRestored`, `MeasuresOwnImage` without `SeparateBuilds`,
`OffLimitsUntouched`, `OnlyFipsDetected`, `OnlyFipsCids`, `AllFipsOverlapping`,
`AllFipsWhenDeferred`, `FramesWhole`, `EveryLayer`, `ReconnectsInTime`) have TLC
counterexamples.

## 5. Disagreements between code and documentation

Four have a run of their own ("findings" in `PROJECT.json`):

* `start()` after `stop(restore=False)` forgets the standard daemon
  (`lab_daemon_restart`).
* Scenarios that build before they take the lock replace verified images
  (`firmware_unlocked`).
* The table of channels is keyed by CID alone, which both sides of every
  connection allocate for themselves: another service passes for FIPS
  (`btsnoop_decrypt.py:435`; `coc_shared_cid`), against "If signalling was
  captured, filter by known PSM 133 CIDs" (`:408`).
* `reconnect_within` passes a link that came back after its deadline
  (`campaign_reconnect`).

Six have a configuration (section 3):

* `flash()` asks the registry about the serial on the port, and hands espflash
  the port's name a second and a half later (`bench.py:287-304`), against
  "Refuses boards not registered for 'flash' in boards.toml" (`:281`).
* `_detect_fips_cids` is given handles for CIDs (`btsnoop_decrypt.py:449`,
  `:473`) and returns every channel of a connection, against "Identify CIDs
  carrying FIPS traffic by probing payloads for valid FMP frames" (`:468`).
* Outstanding requests are keyed by identifier and CID alone (`:506`): when two
  connections set up a channel at once, one direction of one is dropped,
  against "Extract L2CAP frames carrying FIPS traffic" (`:404`).
* A pending response takes the request out of the tables (`:534-541`), so that
  the channel is not tracked, against "Track L2CAP CoC connections via
  signalling" (`:407`).
* ACL buffers are keyed by handle only (`:323`): a full-duplex connection mixes
  frames, against "Reassemble HCI ACL continuation fragments into complete
  L2CAP frames" (`:313`).
* The session ratio of the loopback gate does not count what no key opens
  (`fips_decrypt.py:365`, `rig_loopback.py:167`), against "Exit is non-zero if
  any layer's decrypt ratio drops below --min-ratio" (`rig_loopback.py:8`).

Others were met while modelling and have no run:

*Deployment and build*
* `stop_all` says "Best-effort — log errors but don't raise"
  (`lab/deploy.py:66`) but lets `TimeoutExpired` out; the nodes after the one
  that timed out stay up.
* `--commit` builds also with `--dry-run` (`lab/runner.py:459`), whose help
  says "Create artifacts without touching devices" (`lab/__main__.py:19`);
  keylogs and event logs are read in a dry run too.
* The commit that `_build` resolved is overwritten (`lab/runner.py:491`) by
  the HEAD of a local checkout. Where every node is remote that is `../fips`,
  which the build did not touch: right nodes are reported as stale, or nothing
  is compared. This is why `OneVersion` needs a local node.
* Clones that resolve a branch differently are only warned about
  (`lab/runner.py:524`); a fetch does not move a branch the clone has; a local
  clone is not fetched at all.
* `TimeoutExpired` of a build is no `BuildError`: the other nodes are not
  built, and the remote cargo may replace the binary after the run.

*Runner and captures*
* RSSI collection starts twice (`lab/runner.py:66` and `:497`): two threads
  fill one collector and two collectors write one file.
* Serial captures are open while `_deploy` flashes and resets the boards
  (`lab/runner.py:61-62`; `scenarios/microfips-smoke.yaml` does both).
* `BtmonCapture.start` probes `sudo btmon` with an unprivileged `kill -0`; any
  answer but "alive" forgets the pid and leaves btmon running
  (`lab/capture/btmon.py:68`). All captures of a run copy to one
  `btmon.btsnoop`, so a second Linux node would overwrite the first's.
* A run that fails stops no capture at all.
* `_udp_port_holder` returns None for other users' holders
  (`fips_lab/bench.py:926`).

*Decoder and decryptor*
* Drop counts are ignored (`btsnoop_decrypt.py:248`): pieces from around a gap
  are joined, and pass for frames or signalling.
* The failure share of the last group can be negative (`:900`).
* `lib/fips_decrypt.py:178` treats packet boundary flags the other way round
  than its comment (18-19).
* `decrypt_fsp` returns None for a sealed frame no key opens
  (`fips_decrypt.py:365`), so lines 516-517 are unreachable.
* The gate compares a ratio rounded to four decimals (`fips_decrypt.py:549`):
  0.98996 passes a `--min-ratio` of 0.99. A session record in the clear counts as
  established and not as decrypted.
* `correlate.py` puts no keylog entry into its time line, although it says
  that it merges them (docstring) and that they "go first" (comment at the
  sort); it follows BR/EDR signalling only, from the first fragments of one
  direction, and drops a record with the time stamp of the one before.

*Analysis and campaign*
* `mmp_counters_advancing` (`analysis.py:889-928`) takes the first and the
  last counter of either end, so a link that froze in the middle of the run,
  or on one end, may pass, against its comment "Catches zombie links".
* `peer_connected` ignores its `within_secs`; a failed query counts as a
  disconnect; `mmp_loss` looks for its peer as a substring of a name;
  `no_serial_crash` passes when no console was captured.
* "No loop errors" cannot fail: a poll that raised is stored under the
  command's key (`lab/device.py:51-74`), and the check looks at the keys
  (`analysis.py:618-627`).
* `_build_key_exchange` takes any node with a keylog entry, also of no keys,
  although its docstring speaks of one "that has keylog entries"
  (`analysis.py:370-374`); rekeys and keys are counted per node, so a node
  with two links counts both for each.
* A scenario that does not load, two runs of one scenario in a second or a
  clean-up that raises end the campaign without a summary.

*Bench*
* `cargo clean -p microfips-esp32` during a quiesce with a cold cache
  (`bench.py:375`) deletes the L2CAP binary a scenario built before. The flash
  that follows fails, which ends the scenario (in `firmware`).
* `build_stm32` (`bench.py:774-792`) neither cleans nor looks for the pins,
  against the playbook's section 4 ("`option_env!` values are invisible to
  cargo change detection").
* `test_cdc_bringup` starts a daemon without the `quiesce_peer_radios` the
  playbook's section 13 asks of every such scenario; `flash_stm32` does not
  kill readers of the port.
* The quiesce cache in /tmp outlives the process although it is said to build
  "once per process", and may be of an older commit.
* A permitted board swapped onto another's port between look-up and flash gets
  the wrong image: the gate reads the serial of the port, and only asks whether
  that board may be flashed at all. `pkill` and `fuser` name the port as well.
* A board without a USB serial (the CYD) is flashed on the word of the caller,
  who names its registry key (`registry_serial`, `bench.py:290`). The off-limits
  board of `Firmware` has a serial; one without would pass for the CYD.
* `FipsStrategy` goes down from `ready` to `connected` by stopping and
  starting the daemon, and a failed step leaves its status at an earlier rung.

## 6. Not modelled

| Part | Why |
|---|---|
| FipsStrategy, labgrid drivers | a sequential ladder over one blocking command each |
| loaders, boards.toml, scenarios, inventories | data; the models' constants come from them |
| JSON, markdown, charts, publishing, dissector | formatting |
| iperf, tshark, correlate | parsing of foreign tools' output; a step of `LabRunner` each |
| AEAD, Noise, key derivation | cryptography: "this key opens this frame" is a relation |
| figures in the analysis (loss, packet counters, serial crashes) | one Boolean in `Analysis` |
| STM32 boards, SerialBridge, the XX daemons of `bench.py` | variants of what `Firmware` and `LabDaemon` model, with one blocking command each |
| chaos storms, BLE spike, set-up scripts | no state that anything else reads |

The FIPS daemons, systemd, git remotes, the kernel's locks and ports and the
Bluetooth stack are environment: modelled from how the code uses them and
marked external in `PROJECT.json`.

## 7. Plan

Done: all modules of section 2, in the order LabDaemon, BenchLock, Firmware,
Deploy, LabRunner, the decoder, the decryptor, Analysis, Campaign, Build; then
the composition of the decoder with its hosts (`Capture`), the contracts of a
run and of a campaign with their refinements, the scenarios that share one
build path or build before they lock, key coverage; and the proofs of every
safety property, action property and refinement of the passing runs.

Next, in this order:

1. A tracker keyed by connection, side and direction, as a second module beside
   `CocTracker` and `AclReassembly`: that it satisfies `AllFips` and
   `OnlyFipsWhenTracked` without `Followed`, which would show that the keys are
   all that is missing.
2. Models: packet counters of the analysis over both ends of a link; tshark
   and correlate, which merge time lines of several captures.
3. The STM32 boards and the XX daemons of `bench.py` as further instances of
   `Firmware` and `LabDaemon`.
