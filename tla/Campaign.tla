------------------------------ MODULE Campaign ------------------------------
(***************************************************************************)
(* CampaignRunner.run (lab/campaign.py) around the polls of                *)
(* LabRunner._test_loop and the verdicts of module Analysis: scenarios one *)
(* after another, each in a run directory named by second and scenario,    *)
(* whose analysis.json the campaign looks up by name afterwards.           *)
(***************************************************************************)
EXTENDS Analysis

CONSTANTS
    Plan,        \* names of the campaign's scenarios, in order
    Rank,        \* Rank[name]: place of the name in string order
    Suffix,      \* <<m, n>>: the name m ends in "-n", so "*-n" matches it
    Knowns,      \* sets of nodes whose alias the analysis may know
    Checks,      \* sets of assertion types scenarios may carry
    Keylogs,     \* keylogs a run may collect: the keys of each, by node
    Views,       \* samples a poll may return
    Within,      \* within_secs of a reconnect_within assertion, in polls
    MaxPolls     \* bound on the polls of a scenario

Scenario == {Plan[i] : i \in DOMAIN Plan}

ASSUME CampaignAssumption ==
    /\ Plan \in Seq(Scenario)
    /\ \A name \in Scenario : Rank[name] \in 1 .. Len(Plan)
    /\ Knowns \subseteq SUBSET Node
    /\ \A keylog \in Keylogs : DOMAIN keylog \subseteq Node
    /\ \A keylog \in Keylogs : \A n \in DOMAIN keylog :
          keylog[n] \subseteq Key /\ IsFiniteSet(keylog[n])
    /\ Views \subseteq Sample

VARIABLES
    todo,        \* the scenarios left
    dry,         \* --dry-run
    pc,          \* campaign step, or how run() ended
    tick,        \* a second has begun since the last run directory
    dirs,        \* run directories, oldest first, with their analysis.json
    series,      \* the polls of the run in progress
    report,      \* what its analysis had to go by
    results      \* the _ScenarioResults so far

vars == <<todo, dry, pc, tick, dirs, series, report, results>>

NoReport == [checks |-> {}, figures |-> FALSE, keylog |-> [n \in {} |-> {}], known |-> {}]
Last == dirs[Len(dirs)]

-----------------------------------------------------------------------------
(* run(): the loop over the scenarios *)

Result(verdict, rc) == [verdict |-> verdict, rc |-> rc]

Missing ==
    /\ pc = "next" /\ todo # <<>>
    /\ results' = Append(results, Result("FAIL", 1))
    /\ todo' = Tail(todo)
    /\ UNCHANGED <<dry, pc, tick, dirs, series, report>>

\* The clock shows seconds: a directory may get the second of the last one.
Second == IF dirs = <<>> THEN 1 ELSE IF tick THEN Last.at + 1 ELSE Last.at

\* create_run_dir refuses a directory that is there.
Taken == \E i \in DOMAIN dirs : dirs[i].at = Second /\ dirs[i].name = Head(todo)

Start ==
    /\ pc = "next" /\ todo # <<>> /\ ~Taken
    /\ dirs' = Append(dirs, [at |-> Second, name |-> Head(todo), verdict |-> "none", rc |-> 0])
    /\ tick' = FALSE
    /\ pc' = "run"
    /\ UNCHANGED <<todo, dry, series, report, results>>

\* A scenario that does not load, a directory of the same second, or a run
\* whose clean-up raises in the exception handler ends the campaign with a
\* traceback and without a summary.
Abort ==
    /\ (pc = "next" /\ todo # <<>>) \/ (pc \in {"run", "analysed"} /\ ~dry)
    /\ pc' = "aborted"
    /\ UNCHANGED <<todo, dry, tick, dirs, series, report, results>>

TimePasses ==
    /\ pc \in {"next", "run"} /\ ~tick /\ dirs # <<>>
    /\ tick' = TRUE
    /\ UNCHANGED <<todo, dry, pc, dirs, series, report, results>>

-----------------------------------------------------------------------------
(* LabRunner.run, reduced to what decides the verdict *)

\* Every poll sleeps for a second at least.  A dry run does not poll.
Poll ==
    /\ pc = "run" /\ ~dry /\ Len(series) < MaxPolls
    /\ \E s \in Views : series' = Append(series, s)
    /\ tick' = TRUE
    /\ UNCHANGED <<todo, dry, pc, dirs, report, results>>

\* The loop polls first and then looks at the clock: a run that is not dry
\* has a poll.  The verdict goes to analysis.json.
Analyse ==
    /\ pc = "run" /\ (dry \/ series # <<>>)
    /\ \E checks \in Checks, figures \in BOOLEAN, keylog \in Keylogs, known \in Knowns :
          /\ report' = [checks |-> checks, figures |-> figures, keylog |-> keylog, known |-> known]
          /\ dirs' = [dirs EXCEPT ![Len(dirs)].verdict =
                        Verdict(checks, figures, keylog, series, known)]
    /\ pc' = "analysed"
    /\ UNCHANGED <<todo, dry, tick, series, results>>

\* Charts, clean-up and publishing follow; they may still raise, and the
\* run then returns 1 with analysis.json in place.
Return ==
    /\ pc = "analysed"
    /\ \E rc \in {0, 1} : dirs' = [dirs EXCEPT ![Len(dirs)].rc = rc]
    /\ series' = <<>> /\ report' = NoReport
    /\ pc' = "judge"
    /\ UNCHANGED <<todo, dry, tick, results>>

\* A step before the analysis raised: analysis.txt only.
Fallback ==
    /\ pc = "run"
    /\ dirs' = [dirs EXCEPT ![Len(dirs)].rc = 1]
    /\ series' = <<>> /\ pc' = "judge"
    /\ UNCHANGED <<todo, dry, tick, report, results>>

-----------------------------------------------------------------------------
(* Judging the run *)

Matches(i, name) == dirs[i].name = name \/ <<dirs[i].name, name>> \in Suffix

\* Mutant: sorted without reverse, the oldest directory comes first.
OldestRunDir(name) ==
    CHOOSE i \in DOMAIN dirs : Matches(i, name) /\ \A j \in DOMAIN dirs : Matches(j, name) =>
        \/ dirs[i].at < dirs[j].at
        \/ dirs[i].at = dirs[j].at /\ Rank[dirs[i].name] <= Rank[dirs[j].name]

\* _find_latest_run_dir: the last by name, that is by second, then scenario.
LatestRunDir(name) ==
    CHOOSE i \in DOMAIN dirs : Matches(i, name) /\ \A j \in DOMAIN dirs : Matches(j, name) =>
        \/ dirs[i].at > dirs[j].at
        \/ dirs[i].at = dirs[j].at /\ Rank[dirs[i].name] >= Rank[dirs[j].name]

\* The verdict counts only if the run returned 0.  Mutant: it always does.
FromFileAlone(verdict, rc) == IF verdict = "none" THEN "FAIL" ELSE verdict
JudgedVerdict(verdict, rc) == IF verdict = "none" \/ rc # 0 THEN "FAIL" ELSE verdict

Judge ==
    /\ pc = "judge"
    /\ LET found == LatestRunDir(Head(todo))
           rc == Last.rc
       IN results' = Append(results, Result(JudgedVerdict(dirs[found].verdict, rc), rc))
    /\ todo' = Tail(todo)
    /\ pc' = "next"
    /\ UNCHANGED <<dry, tick, dirs, series, report>>

\* _overall_verdict, and the return code.
Verdicts == {results[i].verdict : i \in DOMAIN results}
Overall == IF "FAIL" \in Verdicts \/ Verdicts = {} THEN "FAIL"
           ELSE IF "DEGRADED" \in Verdicts THEN "DEGRADED"
           ELSE IF Verdicts = {"PASS"} THEN "PASS" ELSE "FAIL"

Summarise ==
    /\ pc = "next" /\ todo = <<>>
    /\ pc' = IF Overall = "PASS" THEN "success" ELSE "failure"
    /\ UNCHANGED <<todo, dry, tick, dirs, series, report, results>>

-----------------------------------------------------------------------------
Init ==
    /\ todo = Plan /\ dry \in BOOLEAN /\ pc = "next" /\ tick = FALSE
    /\ dirs = <<>> /\ series = <<>> /\ report = NoReport /\ results = <<>>

Next == \/ Missing \/ Start \/ Abort \/ TimePasses \/ Poll \/ Analyse \/ Return \/ Fallback
        \/ Judge \/ Summarise

Spec == Init /\ [][Next]_vars

-----------------------------------------------------------------------------
(* Properties *)

\* A run that passes the default assertions ends with every link of the
\* topology listed by one of its ends: _build_connections looks at one
\* sample only, and _detect_disconnects must catch whatever came after it.
PassMeansUp ==
    pc = "analysed" /\ Last.verdict = "PASS" /\ report.checks = {} =>
        \A link \in Links : \E n, p \in link :
            n \in Fips /\ n # p /\ series[Len(series)][n][p] # "absent"

\* A run that passes the default assertions has collected, for every link its
\* polls ever listed, whichever of them, a keylog of one of the two ends that
\* is not empty: coverage is judged on the pairs of one sample, and on one
\* keylog of two.  It does not say that the link's own capture can be opened:
\* the keys may be those of another peer, or session keys alone.
PassMeansKeys ==
    pc = "analysed" /\ Last.verdict = "PASS" /\ report.checks = {} =>
        \A i \in DOMAIN series, n \in Fips, p \in Node : series[i][n][p] # "absent" =>
            \E end \in {n, p} \cap DOMAIN report.keylog : report.keylog[end] # {}

\* Whatever one end of a link stops listing is an event of that sample's
\* time, and an event said to be reconnected is followed by a sample that
\* lists the pair again.
DropsAreReported ==
    pc = "analysed" =>
        LET events == Disconnects(series, report.known)
        IN /\ \A i \in 1 .. Len(series) - 1, n \in Fips, p \in Node :
                series[i][n][p] # "absent" /\ series[i + 1][n][p] = "absent" =>
                    \E e \in events : e.at = i + 1 /\ e.pair = Pair(report.known, n, p)
           /\ \A e \in events : e.reconnected =>
                \E j \in e.at + 1 .. Len(series), n \in Fips, p \in Node :
                    e.pair = Pair(report.known, n, p) /\ series[j][n][p] # "absent"

\* The campaign keeps its contract: every scenario of the plan is settled
\* once, in order, with the verdict of its own run or FAIL, and FAIL if that
\* did not return 0; success means that all passed.  No lookup by name lets
\* one run vouch for another, no analysis file for a run that failed later.
OwnOutcome ==
    IF pc # "judge" THEN "none"
    ELSE IF Last.rc = 0 /\ Last.verdict # "none" THEN Last.verdict ELSE "FAIL"

Contract == INSTANCE CampaignContract WITH
    left <- todo,
    own <- OwnOutcome,
    verdicts <- [i \in DOMAIN results |-> results[i].verdict],
    end <- IF pc \in {"success", "failure", "aborted"} THEN pc ELSE "running"

KeepsContract == Contract!Spec

\* What a passing reconnect_within assertion reports, "all reconnect within
\* {within_secs}s" (analysis.py): an outage of a link of the topology is over
\* Within polls after the one that first missed it.
ReconnectsInTime ==
    pc = "analysed" /\ Last.verdict = "PASS" /\ "reconnect_within" \in report.checks =>
        \A e \in Disconnects(series, report.known) : e.pair \in Links =>
            \E j \in e.at + 1 .. e.at + Within, n, p \in Node :
                /\ j <= Len(series) /\ n \in Fips
                /\ e.pair = Pair(report.known, n, p) /\ series[j][n][p] # "absent"
=============================================================================
