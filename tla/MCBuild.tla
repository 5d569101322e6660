------------------------------- MODULE MCBuild -------------------------------
(* The lab machine's own node and a remote one, in clones where the branch   *)
(* may be missing or behind.                                                 *)
EXTENDS Build

\* Bound: what ran before the run does not matter to the versions, and a node
\* starts on its clone's only commit.
MCInit ==
    /\ BuildInit
    /\ at \in Local /\ sibling = None
    /\ \A m, n \in Node : keylog[m] = keylog[n] /\ head[m] = head[n]
    /\ request # None => binary = head

MCSpec == MCInit /\ [][BuildNext]_<<deployVars, buildVars>>
=============================================================================
