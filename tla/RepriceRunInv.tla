----------------------------- MODULE RepriceRunInv -----------------------------
(***************************************************************************)
(* The inductive invariants behind the safety properties of RepriceRun, in *)
(* the parts their proofs use.                                             *)
(***************************************************************************)
EXTENDS RepriceRefinement

-------------------------------------------------------------------------------
(***************************************************************************)
(* Control: which local variables a program counter promises, and which    *)
(* handler the current task state waits for.                               *)
(***************************************************************************)

\* Where the handler holds a PlanCheckpoint object.
HoldsCheckpoint == (PreparePCs \ {"export"}) \cup (PlanPCs \ {"get"})

LocalsOK ==
    \A s \in Slots :
        /\ pc[s] # "idle" => run[s] \in Runs
        /\ pc[s] \in HoldsCheckpoint => loc[s] # None
        /\ pc[s] = "save_progress" => loc[s].next < loc[s].count

TaskOK ==
    /\ sfn \in {"PlanAll", "PlanMore", "Apply"} => payload # None
    /\ task # None => sfn \in TaskStates
    /\ \A s \in Slots : task = s =>
          /\ sfn = "Prepare" => pc[s] \in PreparePCs \cup {"return"}
          /\ sfn = "PlanAll" => pc[s] \in PlanPCs \cup {"return"}
          /\ sfn = "Apply" => pc[s] \in ApplyPCs \cup {"return"}
          /\ sfn # "Apply" /\ pc[s] = "return" => loc[s] # None

TypeInv == TypeOK /\ LocalsOK /\ TaskOK

-------------------------------------------------------------------------------
(***************************************************************************)
(* Durability: what is in S3 whenever a checkpoint says so.                *)
(***************************************************************************)

\* The artifacts that checkpoint c of run r vouches for are there.
Backed(r, c) ==
    /\ r \in listings
    /\ manifest[r] = c.count
    /\ c.next <= c.count
    /\ \A i \in Chunks : i < c.next => chunkPlan[r][i] # None
    /\ c.status = "completed" => planFile[r] # None

CheckpointsBacked == \A r \in Runs : \A c \in Readable(r) : Backed(r, c)

\* What a PlanAll handler may put as the next checkpoint is backed too.
LocalsBacked ==
    \A s \in Slots :
        /\ pc[s] \in PlanPCs \ {"get"} => Backed(run[s], loc[s])
        /\ pc[s] = "save_progress" => chunkPlan[run[s]][loc[s].next] # None
        /\ pc[s] = "merge" => loc[s].next = loc[s].count

\* Prepare works on a run of its own, and fills it in order.
PrepareOwnsRun ==
    \A s \in Slots : pc[s] \in PreparePCs =>
        /\ run[s] \in drawn
        /\ ckpt[run[s]] = None
        /\ \A t \in Slots : t # s /\ pc[t] \in PreparePCs => run[t] # run[s]
        /\ pc[s] \in {"put_manifest", "put_checkpoint"} => run[s] \in listings
        /\ pc[s] = "put_checkpoint" => manifest[run[s]] = loc[s].count
        /\ pc[s] \in PreparePCs \ {"export"} =>
              loc[s].next = 0 /\ loc[s].status = "pending"

\* Only Prepare runs without a checkpoint.
OthersHaveCheckpoint ==
    /\ \A r \in Runs : r \notin drawn => ckpt[r] = None
    /\ \A r \in Runs : ckpt[r] = None => older[r] = {}
    /\ \A s \in Slots : pc[s] \in PlanPCs \cup ApplyPCs \cup {"return"} =>
          ckpt[run[s]] # None
    /\ payload # None => ckpt[payload.run] # None

\* plan.jsonl, and the copy Apply works on, cover the manifest.
PlansWhole ==
    /\ \A r \in Runs : planFile[r] # None =>
          ckpt[r] # None /\ Covers(r, planFile[r])
    /\ \A s \in Slots : pc[s] = "submit" => Covers(run[s], buf[s])
    /\ \A a \in applied : ckpt[a.run] # None /\ Covers(a.run, a.plan)

DurableInv ==
    /\ TypeInv
    /\ CheckpointsBacked /\ LocalsBacked
    /\ PrepareOwnsRun /\ OthersHaveCheckpoint
    /\ PlansWhole

-------------------------------------------------------------------------------
(***************************************************************************)
(* One weekly discount for the whole of a run's plan.                      *)
(***************************************************************************)

\* Every priced row a plan of run r holds carries discount pct.
PricedAt(p, pct) == \A i \in Chunks : p[i] # None => p[i].pct = pct

DiscountKept ==
    /\ \A r \in Runs : ckpt[r] = None => chunkPlan[r] = NoPlan
    /\ \A r \in Runs : ckpt[r] # None =>
          /\ PricedAt(chunkPlan[r], ckpt[r].pct)
          /\ planFile[r] # None => PricedAt(planFile[r], ckpt[r].pct)
          /\ \A c \in older[r] : c.pct = ckpt[r].pct
    /\ \A s \in Slots : pc[s] \in PlanPCs \ {"get"} => loc[s].pct = ckpt[run[s]].pct
    /\ \A s \in Slots : pc[s] = "merge" => PricedAt(buf[s], ckpt[run[s]].pct)

DiscountInv == DurableInv /\ DiscountKept

-------------------------------------------------------------------------------
(***************************************************************************)
(* What PlanMore chooses on: the execution's mode and a known verdict.     *)
(***************************************************************************)

\* The execution's mode travels unchanged through checkpoint and payload.
ModeKept ==
    /\ payload # None => payload.mode = mode
    /\ \A r \in Runs : \A c \in Readable(r) : c.mode = mode
    /\ \A s \in Slots : loc[s] # None => loc[s].mode = mode

\* A completed item says whether the plan is safe.
VerdictKnown ==
    /\ \A r \in Runs : \A c \in Readable(r) :
          c.status = "completed" => c.safety # None
    /\ \A s \in Slots :
          /\ loc[s] # None /\ loc[s].status = "completed" => loc[s].safety # None
          /\ pc[s] = "save_final" => loc[s].status = "completed"

\* PlanAll answers "more", or with a verdict.
AnswerDecides ==
    /\ \A s \in Slots : task = s /\ sfn = "PlanAll" /\ pc[s] = "return" =>
          loc[s].status = "completed" \/ More(loc[s])
    /\ sfn = "PlanMore" /\ ~payload.more => payload.safety # None

ChoiceInv == TypeInv /\ ModeKept /\ VerdictKnown /\ AnswerDecides /\ LiveNeverFinalizes

-------------------------------------------------------------------------------
(***************************************************************************)
(* The gate, when no invocation outlives its task state.  What is known of *)
(* a run's verdict holds while no read has missed its completed item.      *)
(***************************************************************************)

OneInvocation == \A s \in Slots : pc[s] # "idle" => task = s

Completed(r) == ckpt[r] # None /\ ckpt[r].status = "completed"

\* A completed checkpoint carries the verdict on the plan.jsonl that stands,
\* and until then no read can return a verdict.
VerdictStands ==
    \A r \in Runs \ redone :
        /\ Completed(r) => planFile[r] # None /\ ckpt[r].safety = SafePlan(planFile[r])
        /\ \A c \in older[r] : c.status # "completed"

\* Only a handler that was given an older item plans a completed run again.
OnlyStaleRedo ==
    \A s \in Slots : pc[s] \in PlanPCs \ {"get"} /\ Completed(run[s]) =>
        s \in behind /\ run[s] \in redone

\* Before the last save the verdict is only in the handler.
VerdictPending ==
    \A s \in Slots :
        /\ pc[s] = "save_final" =>
              /\ loc[s].status = "completed"
              /\ planFile[run[s]] # None
              /\ loc[s].safety = SafePlan(planFile[run[s]])
        /\ pc[s] \in {"wave", "save_progress", "merge"} => loc[s].status = "in_progress"
        /\ pc[s] \in PreparePCs \ {"export"} => loc[s].status = "pending"

\* The answer under way to Step Functions is the checkpoint just saved.
AnswerIsCheckpoint ==
    \A s \in Slots : pc[s] = "return" /\ sfn \in {"Prepare", "PlanAll"} =>
        loc[s] = ckpt[run[s]] \/ run[s] \in redone

\* Past PlanAll, the payload repeats a completed checkpoint.
PayloadIsVerdict ==
    /\ sfn \in {"PlanMore", "Apply", "Applied"} /\ ~payload.more =>
          /\ payload # None
          /\ payload.run \notin redone =>
                /\ ckpt[payload.run].status = "completed"
                /\ payload.safety = ckpt[payload.run].safety
    /\ sfn \in {"Apply", "Applied"} =>
          payload.more = FALSE /\ payload.safety = TRUE /\ payload.mode = "LIVE"

ApplySafe ==
    /\ \A s \in Slots : pc[s] \in ApplyPCs => sfn = "Apply" /\ run[s] = payload.run
    /\ \A s \in Slots : pc[s] = "submit" =>
          SafePlan(buf[s]) \/ run[s] \in redone
    /\ AppliedOnlyIfGated

GateInv ==
    /\ DurableInv /\ ChoiceInv
    /\ OneInvocation
    /\ VerdictStands /\ OnlyStaleRedo /\ VerdictPending
    /\ AnswerIsCheckpoint /\ PayloadIsVerdict
    /\ ApplySafe

-------------------------------------------------------------------------------
(***************************************************************************)
(* Progress that is never lost, and the decision that is published.        *)
(***************************************************************************)

\* The progress of a handler that was given the last item is no older than the
\* checkpoint it will replace.
LocalsCurrent ==
    \A s \in Slots \ behind :
        pc[s] \in PlanPCs \ {"get"} => ckpt[run[s]].next <= loc[s].next

ProgressInv == GateInv /\ LocalsCurrent

\* Every task works for the run in the payload, and Prepare decides nothing.
TaskRun ==
    /\ sfn = "Prepare" => payload = None /\ redone = {}
    /\ \A s \in Slots :
          /\ pc[s] \in PlanPCs => run[s] = payload.run
          /\ pc[s] = "return" /\ sfn = "PlanAll" => run[s] = payload.run
          /\ pc[s] = "return" /\ sfn = "Prepare" => loc[s].status = "pending"

\* What Apply holds and what was applied is the plan decided on, and Apply
\* answers once it has applied that.
AppliedIsDecided ==
    /\ \A s \in Slots : pc[s] = "submit" => buf[s] = planFile[run[s]]
    /\ \A a \in applied :
          /\ sfn \in {"Apply", "Applied", "Failed"}
          /\ payload # None /\ a.run = payload.run
          /\ a.plan = planFile[a.run]
          /\ a.run \notin redone => ckpt[a.run].status = "completed"
    /\ \A s \in Slots : pc[s] = "return" /\ sfn = "Apply" => applied # {}
    /\ sfn = "Applied" => applied # {}

RefineInv == GateInv /\ TaskRun /\ AppliedIsDecided
===============================================================================
