------------------------------- MODULE GatedRun -------------------------------
(***************************************************************************)
(* What one repricing run promises, without its waves, retries and stores: *)
(* it decides on one plan, once; it publishes that plan only when the      *)
(* request is LIVE and the plan is safe; it ends, and how it ends says     *)
(* what happened.                                                          *)
(*                                                                         *)
(* A store whose reads may be stale can reopen a decision before anything  *)
(* is published.  The run then vouches for the request only: it publishes  *)
(* one plan at most, and only when LIVE, but perhaps not one it judged.    *)
(***************************************************************************)
CONSTANTS
    Plans,        \* what a run may decide on
    SafePlan(_),  \* the safety gate
    None          \* no plan yet

VARIABLES
    request,      \* "DRY_RUN" or "LIVE"
    plan,         \* the plan decided on, or None
    reopened,     \* has a decision been taken back?
    published,    \* the plans sent to CardTrader
    outcome       \* "running", or how the run ended

vars == <<request, plan, reopened, published, outcome>>

Init ==
    /\ request \in {"DRY_RUN", "LIVE"}
    /\ plan = None /\ ~reopened
    /\ published = {}
    /\ outcome = "running"

Decide ==
    /\ outcome = "running" /\ plan = None
    /\ plan' \in Plans
    /\ UNCHANGED <<request, reopened, published, outcome>>

Reopen ==
    /\ outcome = "running" /\ plan # None /\ published = {}
    /\ reopened' = TRUE
    /\ plan' \in Plans \cup {None}
    /\ UNCHANGED <<request, published, outcome>>

Publish ==
    /\ outcome = "running" /\ request = "LIVE"
    /\ \E p \in Plans :
          /\ reopened \/ (p = plan /\ SafePlan(p))
          /\ published \subseteq {p}
          /\ published' = {p}
    /\ UNCHANGED <<request, plan, reopened, outcome>>

\* How a run may end in the present state.
Endings ==
    {"failed"}
    \cup (IF published # {} THEN {"published"} ELSE {})
    \cup (IF reopened \/ (plan # None /\ ~SafePlan(plan)) THEN {"refused"} ELSE {})
    \cup (IF (reopened \/ (plan # None /\ SafePlan(plan))) /\ request = "DRY_RUN"
          THEN {"finished"} ELSE {})

End ==
    /\ outcome = "running"
    /\ outcome' \in Endings
    /\ UNCHANGED <<request, plan, reopened, published>>

Next == Decide \/ Reopen \/ Publish \/ End

\* What a run may never do, and that it ends.
Safety == Init /\ [][Next]_vars

Spec == Safety /\ WF_vars(End)
===============================================================================
