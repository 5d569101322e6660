------------------------------ MODULE Firmware ------------------------------
(***************************************************************************)
(* What a hardware scenario does to the bench between acquire_board_lock   *)
(* and lock.release() (fips_lab/bench.py, tests/): it builds firmware in   *)
(* the one microfips checkout all sessions share, silences the radios of   *)
(* the boards it does not use, flashes, taps consoles and measures.        *)
(*                                                                         *)
(* A session is a pytest process; it runs scenarios one after another, each *)
(* a sequence of steps, the calls of its test function.  Any step may raise *)
(* or the process be killed.  The lock is module BenchLock.                *)
(***************************************************************************)
EXTENDS BenchLock, SequencesExt

CONSTANTS
    Suite,       \* Suite[s]: the scenarios session s runs, in any order, for ever
    QuiesceMap,  \* the boards of quiesce_map that are attached, in its order
    Target,      \* the atom that the scenarios on atoms flash
    S3,          \* the ESP32-S3 board
    OffLimits,   \* a board that boards.toml does not permit to flash
    Earlier      \* marks what an earlier run left behind

Scenario == {"soak", "hybrid", "dos_floor", "mcu_to_mcu", "l2cap"}
Atom == Range(QuiesceMap)
Boards == Atom \cup {S3, OffLimits}

ASSUME FirmwareAssumption ==
    /\ Suite \in [Session -> SUBSET Scenario]
    /\ \A s \in Session : Suite[s] # {}
    /\ QuiesceMap \in Seq(Atom)
    /\ Target \in Atom /\ S3 \notin Atom /\ OffLimits \notin Atom \cup {S3}
    /\ (\E s \in Session : "dos_floor" \in Suite[s]) => Atom # {Target}
    /\ ({Earlier, "fixed"} \cup Boards) \cap Session = {} /\ Nobody \notin Boards

VARIABLES
    test,        \* the scenario each session is at
    at,          \* index of its next step
    target,      \* the image at each path of target/<triple>/release
    cache,       \* /tmp/fips-lab-quiesce: the image cached for each atom
    fw,          \* firmware each board runs
    taps,        \* console taps reading each board, by session
    asked,       \* the board whose serial each session's flash() was permitted
    \* For the properties only:
    astray       \* sessions whose port had another board when espflash ran

bench == <<target, cache, fw, taps>>
fwVars == <<test, at, bench, asked, astray>>
allVars == <<vars, fwVars>>

-----------------------------------------------------------------------------
(* Images *)

\* An image carries the keys it was built with: a run's own, the public
\* ones of the bench, or an atom's.
NoImage == [bin |-> "none", by |-> Earlier, keys |-> Earlier]
\* What the off-limits board runs.
Own == [bin |-> "own", by |-> Earlier, keys |-> Earlier]
\* What a board runs when no running test flashed it, or half of it.
Unknown == [bin |-> "other", by |-> Earlier, keys |-> Earlier]
Left(b) == IF b = OffLimits THEN Own ELSE Unknown
Torn(keys) == [bin |-> "torn", by |-> Earlier, keys |-> keys]

Bin == {"s3", "uart", "gateway", "espnow", "l2cap"}
Package(bin) == IF bin = "s3" THEN "esp32s3" ELSE "esp32"

\* The same image, once the run that built it is over.
Age(s, image) ==
    LET aged(name) == IF name = s THEN Earlier ELSE name
    IN  [bin |-> image.bin, by |-> aged(image.by), keys |-> aged(image.keys)]

-----------------------------------------------------------------------------
(* The scenarios of tests/ *)

Do(op) == [op |-> op, bin |-> "none", board |-> S3, keys |-> "fixed"]
On(op, bin, board, keys) == [op |-> op, bin |-> bin, board |-> board, keys |-> keys]

\* build_firmware and its siblings.  Mutant: without cargo clean.
BuildOnly(bin, keys) == <<On("compile", bin, S3, keys), On("verify", bin, S3, keys)>>
Build(bin, keys) ==
    <<On("clean", bin, S3, keys), On("compile", bin, S3, keys), On("verify", bin, S3, keys)>>

\* One board of quiesce_peer_radios: _quiesce_binary, then flash.
QuiesceOne(b) ==
    <<On("lookup", "uart", b, b)>> \o Build("uart", b)
        \o <<On("open", "uart", b, b), On("store", "uart", b, b), On("silence", "uart", b, b)>>
AfterBuild == 6   \* from "lookup" to "silence", when the cache has the image

Quiesce(used) ==
    FlattenSeq([i \in DOMAIN QuiesceMap |->
                   IF QuiesceMap[i] \in used THEN <<>> ELSE QuiesceOne(QuiesceMap[i])])

FlashAndTap(bin, b, keys) == <<On("flash", bin, b, keys), On("tap", bin, b, keys)>>
Put(bin, b, keys) == Build(bin, keys) \o FlashAndTap(bin, b, keys)

\* The atom that plays the foreign node in test_espnow_dos_floor.
Foreign == CHOOSE b \in Atom : b # Target

\* test_rekey_soak and its kin; test_hybrid_switch; test_espnow_dos_floor;
\* test_mcu_to_mcu_fsp; test_l2cap_bringup and test_key_capture: what each
\* does up to the call of quiesce_peer_radios, the boards it leaves out of
\* that call, and what follows.
Opening(name, s) ==
    CASE name = "soak" -> <<Do("lock")>> \o Build("s3", s)
      [] name \in {"hybrid", "dos_floor"} -> <<Do("lock")>>
      [] name = "mcu_to_mcu" -> Build("s3", "fixed") \o <<Do("lock")>>
      [] name = "l2cap" -> Build("l2cap", "fixed") \o <<Do("lock")>>

Used(name) == IF name \in {"soak", "mcu_to_mcu"} THEN {S3} ELSE {Target}

Closing(name, s) ==
    CASE name = "soak" -> FlashAndTap("s3", S3, s) \o <<Do("measure")>>
      [] name = "hybrid" ->
           Put("gateway", Target, "fixed") \o Put("s3", S3, "fixed") \o <<Do("measure")>>
      [] name = "dos_floor" ->
           Put("s3", S3, "fixed") \o Put("espnow", Target, Target) \o <<Do("measure")>>
               \o Put("espnow", Foreign, Foreign) \o <<Do("measure")>>
      [] name = "mcu_to_mcu" -> FlashAndTap("s3", S3, "fixed") \o <<Do("measure")>>
      [] name = "l2cap" -> FlashAndTap("l2cap", Target, "fixed") \o <<Do("measure")>>

Calls(name, s) == Opening(name, s) \o Quiesce(Used(name)) \o Closing(name, s)

-----------------------------------------------------------------------------
(* One step *)

Script == [name \in Scenario |-> [s \in Session |-> Calls(name, s)]]
Todo(s) == Script[test[s]][s]
Step(s) == Todo(s)[at[s]]
Finished(s) == at[s] > Len(Todo(s))

\* The step is next, and the session is where the scenario has it: in front
\* of the lock or inside.
Locking(s) == ~Finished(s) /\ Step(s).op = "lock"
Before(s) == ~Finished(s) /\ pc[s] = "out" /\ ~Locking(s)
Inside(s) == ~Finished(s) /\ pc[s] = "using"
At(s, op) == (Before(s) \/ Inside(s)) /\ Step(s).op = op

\* What the registry said is good for one call.
Goes(s, place) ==
    /\ at' = [at EXCEPT ![s] = place]
    /\ asked' = [asked EXCEPT ![s] = Nobody]
    /\ UNCHANGED <<vars, test>>
Advance(s, n) == Goes(s, at[s] + n)
EndTest(s) == Goes(s, Len(Todo(s)) + 1)

\* The test ends with an exception: the finally block follows if it has the
\* lock, else that is all.
StepRaises(s) ==
    (Before(s) \/ Inside(s)) /\ EndTest(s) /\ UNCHANGED <<bench, astray>>

-----------------------------------------------------------------------------
(* build_firmware, build_d0wd_*, build_s3_* *)

\* cargo clean -p removes every binary of the package.
Clean(s) ==
    /\ At(s, "clean")
    /\ target' = [bin \in Bin |-> IF Package(bin) = Package(Step(s).bin) THEN NoImage ELSE target[bin]]
    /\ Advance(s, 1) /\ UNCHANGED <<cache, fw, taps, astray>>

\* A binary that is there counts as fresh, whatever its keys and knobs.
Compile(s) ==
    /\ At(s, "compile")
    /\ target' = [target EXCEPT ![Step(s).bin] =
                    IF @ = NoImage THEN [bin |-> Step(s).bin, by |-> s, keys |-> Step(s).keys] ELSE @]
    /\ Advance(s, 1) /\ UNCHANGED <<cache, fw, taps, astray>>

\* The keys are looked for in the binary's bytes; knobs cannot be.
Verify(s) ==
    /\ At(s, "verify")
    /\ target[Step(s).bin] # NoImage /\ target[Step(s).bin].keys = Step(s).keys
    /\ Advance(s, 1) /\ UNCHANGED <<bench, astray>>

-----------------------------------------------------------------------------
(* _quiesce_binary *)

\* The cached file is taken if it contains the board's key; a torn one may
\* or may not.
CacheHit(b) ==
    IF cache[b] = NoImage \/ cache[b].keys # b THEN {FALSE}
    ELSE IF cache[b].bin = "torn" THEN BOOLEAN ELSE {TRUE}

Lookup(s) ==
    /\ At(s, "lookup")
    /\ \E hit \in CacheHit(Step(s).board) : Advance(s, IF hit THEN AfterBuild ELSE 1)
    /\ UNCHANGED <<bench, astray>>

\* The build is read, then write_bytes opens the cached file and writes it.
Open(s) ==
    /\ At(s, "open") /\ target["uart"] # NoImage
    /\ cache' = [cache EXCEPT ![Step(s).board] = Torn(target["uart"].keys)]
    /\ Advance(s, 1) /\ UNCHANGED <<target, fw, taps, astray>>

Store(s) ==
    /\ At(s, "store")
    /\ cache' = [cache EXCEPT ![Step(s).board].bin = "uart"]
    /\ Advance(s, 1) /\ UNCHANGED <<target, fw, taps, astray>>

-----------------------------------------------------------------------------
(* flash, ConsoleTap *)

\* The port was found before the last build, and its name goes to whatever
\* is plugged in: the board may be gone and the off-limits one have it, each
\* time the name is used.
OnPort(b) == {b, OffLimits}

\* The registry is asked about the board found on the port.  Mutant: about
\* the one the caller meant.
GateByCaller(found, meant) == meant # OffLimits
Permitted(found, meant) == found # OffLimits

\* require_board passes; a refusal is StepRaises.
Ask(s) ==
    /\ At(s, "flash") \/ At(s, "silence")
    /\ asked[s] = Nobody
    /\ \E b \in OnPort(Step(s).board) :
          Permitted(b, Step(s).board) /\ asked' = [asked EXCEPT ![s] = b]
    /\ UNCHANGED <<vars, test, at, bench, astray>>

\* Taps on the port are killed first.  Mutant: they are left alone.
KeepTaps(b) == taps
KillTaps(b) == [taps EXCEPT ![b] = {}]

\* A failed espflash raises.  Mutant: without check=True the test goes on.
GoOn(s) == Advance(s, 1)
FlashFailed(s) == EndTest(s)

\* espflash takes no torn file, and may fail halfway.
Flashable(image) == image.bin \notin {"none", "torn"}

\* Whose the write was is all that matters of the off-limits board.
Written(s, b, image) == IF b = OffLimits THEN [Unknown EXCEPT !.by = s] ELSE image

\* Seconds after the question: pkill and fuser clear the port, a second later
\* espflash writes to it, each on the board that has it by then.
FlashImage(s, image) ==
    /\ asked[s] # Nobody
    /\ \E cleared, b \in OnPort(Step(s).board) :
        /\ taps' = KillTaps(cleared)
        /\ astray' = IF cleared = asked[s] /\ b = asked[s] THEN astray ELSE astray \cup {s}
        /\ \/ /\ Flashable(image) /\ Advance(s, 1)
              /\ fw' = [fw EXCEPT ![b] = Written(s, b, image)]
           \/ /\ Flashable(image) /\ FlashFailed(s)
              /\ fw' = [fw EXCEPT ![b] = Written(s, b, Unknown)]
           \/ ~Flashable(image) /\ UNCHANGED fw /\ FlashFailed(s)
        /\ UNCHANGED <<target, cache>>

Flash(s) == At(s, "flash") /\ FlashImage(s, target[Step(s).bin])
Silence(s) == At(s, "silence") /\ FlashImage(s, [cache[Step(s).board] EXCEPT !.by = s])

Tap(s) ==
    /\ At(s, "tap")
    /\ taps' = [taps EXCEPT ![Step(s).board] = @ \cup {s}]
    /\ Advance(s, 1) /\ UNCHANGED <<target, cache, fw, astray>>

Measure(s) ==
    /\ At(s, "measure")
    /\ Advance(s, 1) /\ UNCHANGED <<bench, astray>>

-----------------------------------------------------------------------------
(* The lock around it, and the next test *)

\* The images of the last test are an earlier run's from now on; whoever owns
\* the off-limits board puts its firmware back, so that every write shows.
NextScenario(s) ==
    /\ \E name \in Suite[s] : test' = [test EXCEPT ![s] = name]
    /\ at' = [at EXCEPT ![s] = 1]
    /\ target' = [bin \in Bin |-> Age(s, target[bin])]
    /\ fw' = [b \in Boards |-> IF fw[b].by = s THEN Left(b) ELSE fw[b]]
    /\ asked' = [asked EXCEPT ![s] = Nobody] /\ astray' = astray \ {s}
    /\ UNCHANGED cache

Acquire(s) ==
    /\ Locking(s)
    /\ \/ (TakePart(s, 1, "out", "first") \/ TakePart(s, 2, "first", "locked") \/ AcquireRaises(s))
          /\ UNCHANGED fwVars
       \/ Announce(s) /\ at' = [at EXCEPT ![s] = @ + 1]
          /\ UNCHANGED <<test, bench, asked, astray>>

\* finally: the taps are stopped first, the lock is released last.
Finally(s) ==
    /\ Finished(s) /\ pc[s] = "using"
    /\ EndSession(s) \/ FinallyRaises(s)
    /\ taps' = [b \in Boards |-> taps[b] \ {s}]
    /\ UNCHANGED <<test, at, target, cache, fw, asked, astray>>

Release(s) ==
    \/ FreePart(s, 1, "ended", "unhanded") /\ UNCHANGED fwVars
    \/ FreePart(s, 2, "unhanded", "out") /\ NextScenario(s) /\ UNCHANGED taps
    \/ pc[s] = "ended" /\ FinallyRaises(s) /\ UNCHANGED fwVars

\* Another test follows one that never had the lock, or lost its way.
Proceed(s) ==
    /\ \/ NextTest(s)
       \/ pc[s] = "out" /\ Finished(s) /\ UNCHANGED vars
    /\ NextScenario(s) /\ UNCHANGED taps

\* A killed session's taps go on reading.
Killed(s) ==
    /\ Exit(s)
    /\ NextScenario(s)
    /\ taps' = [b \in Boards |-> IF s \in taps[b] THEN (taps[b] \ {s}) \cup {Earlier} ELSE taps[b]]

\* Another user's program does what it likes with the boards it took.
Elsewhere(c) ==
    \/ (ConsumerTakes(c) \/ ConsumerFrees(c)) /\ UNCHANGED fwVars
    \/ /\ pc[c] = "using"
       /\ \E b \in Boards \ {OffLimits} : fw' = [fw EXCEPT ![b] = Unknown]
       /\ UNCHANGED <<vars, test, at, target, cache, taps, asked, astray>>

-----------------------------------------------------------------------------
FirmwareInit ==
    /\ Init
    /\ test \in {run \in [Session -> Scenario] : \A s \in Session : run[s] \in Suite[s]}
    /\ at = [s \in Session |-> 1]
    /\ target = [bin \in Bin |-> NoImage] /\ cache = [b \in Atom |-> NoImage]
    /\ fw = [b \in Boards |-> Left(b)]
    /\ taps = [b \in Boards |-> {}]
    /\ asked = [s \in Session |-> Nobody] /\ astray = {}

ScenarioNext(s) ==
    \/ Clean(s) \/ Compile(s) \/ Verify(s) \/ Lookup(s) \/ Open(s) \/ Store(s)
    \/ Ask(s) \/ Flash(s) \/ Silence(s) \/ Tap(s) \/ Measure(s) \/ StepRaises(s)
    \/ Acquire(s) \/ Finally(s) \/ Release(s) \/ Proceed(s) \/ Killed(s)

FirmwareNext == \/ \E s \in Session : ScenarioNext(s)
                \/ \E c \in Consumer : Elsewhere(c)

FirmwareSpec == FirmwareInit /\ [][FirmwareNext]_allVars

-----------------------------------------------------------------------------
(* Properties *)

\* A scenario measures, and its ports kept their boards while it flashed: the
\* code cannot tell, and what it then measures is another board.
Measuring(s) == Inside(s) /\ Step(s).op = "measure" /\ s \notin astray
\* What s has done by then.
Done(s, op) == {Todo(s)[i] : i \in {k \in 1 .. at[s] - 1 : Todo(s)[k].op = op}}

\* While a scenario measures, the boards it has flashed run what it built, in
\* this run and for that board: verified against stale pins at a path that
\* several builds share, and not replaced there by anybody, nor by the next
\* build of the scenario itself, between the check and the flash.
MeasuresOwnImage ==
    \A s \in Session : Measuring(s) =>
        \A call \in Done(s, "flash") :
            fw[call.board] = [bin |-> call.bin, by |-> s, keys |-> call.keys]

\* What a scenario compiles, and what of it in front of the lock.
Builds(name, s) ==
    LET w == Calls(name, s) IN {w[i].bin : i \in {k \in DOMAIN w : w[k].op = "compile"}}
BuildsUnlocked(name, s) ==
    LET w == Calls(name, s)
    IN  {w[i].bin : i \in {k \in DOMAIN w : /\ w[k].op = "compile"
                                            /\ \E l \in DOMAIN w : k < l /\ w[l].op = "lock"}}

\* No session builds in front of the lock what another one builds: nothing
\* but this keeps two builds of one path apart.
SeparateBuilds ==
    \A s, t \in Session : s # t =>
        \A n \in Suite[s], m \in Suite[t] : BuildsUnlocked(n, s) \cap Builds(m, t) = {}

\* While a scenario measures, every attached radio board it has not flashed
\* runs the silent firmware with that board's own identity, whether cached
\* by an earlier session, killed in between or not, or built.
BenchIsQuiet ==
    \A s \in Session : Measuring(s) =>
        \A b \in Atom : (\A call \in Done(s, "flash") : call.board # b) =>
            fw[b].bin = "uart" /\ fw[b].keys = b

\* While a scenario measures, its tap is the only reader of each console it
\* reads: a killed session's tap would take bytes from it.
SoleReader ==
    \A s \in Session : Measuring(s) =>
        \A call \in Done(s, "tap") : taps[call.board] = {s}

\* A board that boards.toml does not permit is only written to by an espflash
\* that was permitted for another board, whatever the ports are found to be
\* when flash() asks: nothing but the seconds after the question is unguarded.
OffLimitsGated ==
    [][fw'[OffLimits] \notin {Own, fw[OffLimits]} =>
          \E s \in Session : asked[s] \notin {Nobody, OffLimits} /\ at'[s] # at[s]]_allVars

\* What flash() says of itself: it "refuses boards not registered for 'flash'
\* in boards.toml", so that such a board keeps its firmware.
OffLimitsUntouched == fw[OffLimits] = Own
=============================================================================
