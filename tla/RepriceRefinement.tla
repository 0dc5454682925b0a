-------------------------- MODULE RepriceRefinement --------------------------
(***************************************************************************)
(* RepriceRun implements GatedRun: the waves, the checkpoint, the crashes  *)
(* and the retries do not show in what a run decides and publishes.        *)
(***************************************************************************)
EXTENDS RepriceRun

\* A run has decided once its checkpoint is completed, and may decide again
\* once a read has missed that.
Decided ==
    IF payload = None THEN None
    ELSE IF ckpt[payload.run] = None THEN None
    ELSE IF ckpt[payload.run].status = "completed" THEN planFile[payload.run]
    ELSE None

Reopened == payload # None /\ payload.run \in redone

Outcome ==
    CASE sfn = "Failed"           -> "failed"
      [] sfn = "PlanSafetyFailed" -> "refused"
      [] sfn = "Finalize"         -> "finished"
      [] sfn = "Applied"          -> "published"
      [] OTHER                    -> "running"

Promise == INSTANCE GatedRun
    WITH request <- mode, plan <- Decided, reopened <- Reopened,
         published <- {a.plan : a \in applied}, outcome <- Outcome

\* The whole state machine, crashes, retries and stale reads included, decides
\* on one plan, publishes it only when LIVE and safe, and ends saying what it
\* did; a run whose completed checkpoint a read has missed is reopened first.
ImplementsGatedRun == Promise!Spec
===============================================================================
