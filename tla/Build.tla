-------------------------------- MODULE Build --------------------------------
(***************************************************************************)
(* A run with --commit (lab/build.py, LabRunner._build and _deploy): check *)
(* out and build the commit on every node, then restart the nodes and      *)
(* compare the versions they report with the HEAD of the local checkout.   *)
(* Somebody may push to the branch meanwhile.  The nodes are built in any  *)
(* order, the code takes that of the topology.                             *)
(***************************************************************************)
EXTENDS Deploy

CONSTANTS
    Commit,      \* commits, by hash
    Branch,      \* the name of a branch
    Local        \* nodes of transport "local": this machine's own checkout

ASSUME BuildAssumption ==
    /\ Commit # {} /\ {Branch, None} \cap Commit = {}
    /\ Local \subseteq Node /\ Cardinality(Local) <= 1

Failed == "failed"

VARIABLES
    request,     \* --commit: a hash, the branch, or None
    upstream,    \* where the branch points at origin
    branch,      \* where it points in each node's clone, None if it is not there
    head,        \* each node's HEAD
    binary,      \* the commit each node's fips binary was built from
    sibling,     \* HEAD of the lab machine's ../fips, None if there is none
    result,      \* BuildResult.commit of each node, Failed, or None so far
    step, at,    \* what build_all does, and on which node
    left,        \* nodes it has not come to
    fetched      \* where the last fetch found the branch, None if it failed

gitVars == <<request, upstream, branch, head, binary, sibling>>
buildVars == <<gitVars, result, step, at, left, fetched>>

-----------------------------------------------------------------------------
(* build_device *)

\* _git_checkout_ssh fetches first and goes on if that fails;
\* _git_checkout_local does not.
Fetched(n) == IF n \in Local THEN {None} ELSE {upstream, None}

StartBuild(n) ==
    /\ step = "next" /\ n \in left
    /\ at' = n /\ left' = left \ {n}
    /\ fetched' \in Fetched(n)
    /\ step' = "checkout"
    /\ UNCHANGED <<gitVars, result>>

\* What git checkout finds: a branch the clone has stays where it is, whatever
\* was fetched; one it has not is taken from the last fetch there was.
Named ==
    IF request # Branch THEN {request}
    ELSE IF branch[at] # None THEN {branch[at]}
    ELSE IF fetched # None THEN {fetched} ELSE Commit

Checkout ==
    /\ step = "checkout"
    /\ \E c \in Named :
          /\ head' = [head EXCEPT ![at] = c]
          /\ branch' = [branch EXCEPT ![at] = IF request = Branch THEN c ELSE @]
    /\ step' = "resolve"
    /\ UNCHANGED <<request, upstream, binary, sibling, result, at, left, fetched>>

\* git rev-parse HEAD.
Resolve ==
    /\ step = "resolve"
    /\ result' = [result EXCEPT ![at] = head[at]]
    /\ step' = "cargo"
    /\ UNCHANGED <<gitVars, at, left, fetched>>

Cargo ==
    /\ step = "cargo"
    /\ binary' = [binary EXCEPT ![at] = head[at]]
    /\ step' = "next"
    /\ UNCHANGED <<request, upstream, branch, head, sibling, result, at, left, fetched>>

\* BuildError on this node, the others are built all the same.
BuildFails ==
    /\ step \in {"checkout", "resolve", "cargo"}
    /\ result' = [result EXCEPT ![at] = Failed]
    /\ step' = "next"
    /\ UNCHANGED <<gitVars, at, left, fetched>>

\* A command that exceeds its timeout is not a BuildError: build_all ends.
BuildTimesOut ==
    /\ step \in {"checkout", "resolve", "cargo"} /\ at \in Flaky
    /\ step' = "raised"
    /\ UNCHANGED <<gitVars, result, at, left, fetched>>

-----------------------------------------------------------------------------
(* LabRunner._build and _deploy *)

\* Mutant: one node that built is enough.
SomeBuilt == \E n \in Node : result[n] # Failed
AllBuilt == \A n \in Node : result[n] # Failed

\* Clones at different commits are only warned about.
Collect ==
    /\ step = "next" /\ left = {}
    /\ step' = IF AllBuilt THEN "built" ELSE "raised"
    /\ UNCHANGED <<gitVars, result, at, left, fetched>>

\* _fips_git_metadata: HEAD of the local node's repository, else of ../fips.
\* What _build resolved is not used.
Expected == IF Local # {} THEN head[CHOOSE n \in Local : TRUE] ELSE sibling

Behind == {n \in Node : binary[n] # Expected}

\* Without a repository, or if git fails in it, there is no commit to expect
\* and no comparison.
Deployment ==
    /\ step = "built"
    /\ \E a \in [keylog : BOOLEAN, commit : BOOLEAN] :
          /\ a.commit => Expected # None
          /\ CallRestart(a, Behind)
    /\ step' = "deployed"
    /\ UNCHANGED <<gitVars, result, at, left, fetched>>

\* _deploy_cleanup, at the end of the test or after an exception.
StopAfterwards ==
    /\ step = "raised" \/ (step = "deployed" /\ dpc = "idle")
    /\ CallStop
    /\ step' = "stopping"
    /\ UNCHANGED <<gitVars, result, at, left, fetched>>

Push ==
    /\ upstream' \in Commit \ {upstream}
    /\ step \in {"next", "checkout"}
    /\ UNCHANGED <<request, branch, head, binary, sibling, result, step, at, left, fetched>>

-----------------------------------------------------------------------------
BuildInit ==
    /\ DeployInit
    /\ request \in Commit \cup {Branch, None}
    /\ upstream \in Commit
    /\ branch \in [Node -> Commit \cup {None}]
    /\ head \in [Node -> Commit] /\ binary \in [Node -> Commit]
    /\ sibling \in Commit \cup {None}
    /\ result = [n \in Node |-> None]
    /\ step = IF request = None THEN "built" ELSE "next"
    /\ left = Node /\ at \in Node /\ fetched = None

BuildStep ==
    \/ \E n \in Node : StartBuild(n)
    \/ Checkout \/ Resolve \/ Cargo \/ BuildFails \/ BuildTimesOut \/ Collect \/ Push

BuildNext ==
    \/ BuildStep /\ UNCHANGED deployVars
    \/ Deployment \/ StopAfterwards
    \/ (DeployStep \/ NodeStep) /\ UNCHANGED buildVars

BuildSpec == BuildInit /\ [][BuildNext]_<<deployVars, buildVars>>

-----------------------------------------------------------------------------
(* Properties *)

\* The nodes restarted after a build run what the run's metadata
\* (resolved_commits) says was built on them: a node whose build failed, or
\* was cut off, never gets as far as a restart.
RunsWhatWasBuilt ==
    request # None /\ op = "restart_all" =>
        \A n \in Node : result[n] \in Commit /\ binary[n] = result[n]

\* The clones may resolve a branch to different commits, by a stale local
\* branch, a failed fetch or a push between two fetches; that is only
\* logged.  The version check after the restart catches it where it can: all
\* nodes whose versions were compared run the one commit the lab machine is at.
\* It says nothing of a node that reported no version, nor of any node when
\* git gave no commit to compare with.
OneVersion == Restarted => \A n \in compared \cap Reachable : binary[n] = Expected
=============================================================================
