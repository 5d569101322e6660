--------------------------- MODULE CampaignContract ---------------------------
(***************************************************************************)
(* What a campaign promises: its scenarios are settled one by one, in      *)
(* order, each with the outcome of its own run or as a failure, and the    *)
(* campaign succeeds if every one has passed.  It may be aborted any time. *)
(***************************************************************************)
EXTENDS Sequences

CONSTANT Plan        \* the scenarios

VARIABLES
    left,        \* those not yet settled
    own,         \* the outcome of the run just ended, "none" before
    verdicts,    \* the outcomes so far
    end          \* "running", or how the campaign ended

vars == <<left, own, verdicts, end>>

Outcome == {"PASS", "DEGRADED", "FAIL", "INSUFFICIENT_DATA"}

Init == left = Plan /\ own = "none" /\ verdicts = <<>> /\ end = "running"

RunEnds ==
    /\ end = "running" /\ left # <<>> /\ own = "none"
    /\ own' \in Outcome
    /\ UNCHANGED <<left, verdicts, end>>

Settle(verdict) ==
    /\ end = "running" /\ left # <<>>
    /\ verdicts' = Append(verdicts, verdict)
    /\ left' = Tail(left)
    /\ own' = "none"
    /\ UNCHANGED end

SettleRun == own # "none" /\ (Settle(own) \/ Settle("FAIL"))
NotRun == own = "none" /\ Settle("FAIL")

Conclude ==
    /\ end = "running" /\ left = <<>>
    /\ end' = IF verdicts # <<>> /\ \A i \in DOMAIN verdicts : verdicts[i] = "PASS"
              THEN "success" ELSE "failure"
    /\ UNCHANGED <<left, own, verdicts>>

Abort ==
    /\ end = "running"
    /\ end' = "aborted"
    /\ UNCHANGED <<left, own, verdicts>>

Next == RunEnds \/ SettleRun \/ NotRun \/ Conclude \/ Abort

Spec == Init /\ [][Next]_vars
=============================================================================
