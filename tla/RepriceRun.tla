------------------------------ MODULE RepriceRun ------------------------------
(***************************************************************************)
(* One execution of the RepriceStateMachine of template.yaml: Prepare, as  *)
(* many PlanAll waves as the catalogue needs, the PlanMore gate and the    *)
(* LIVE Apply, with the Lambda handlers they invoke, the checkpoint those  *)
(* handlers keep in DynamoDB and the artifacts they keep in S3.            *)
(*                                                                         *)
(* A handler runs in a slot, one store access per step, so that it can     *)
(* crash, raise, or be retried between any two of them.  With Zombies, an  *)
(* invocation Step Functions has given up on (Lambda.SdkClientException)   *)
(* keeps running beside its retry.                                         *)
(*                                                                         *)
(* The checkpoint is read with an eventually consistent get_item, so that  *)
(* PlanAll may be given an item that a later put has already replaced.     *)
(***************************************************************************)
EXTENDS Integers

CONSTANTS
    Slots,        \* places for Lambda invocations that run at the same time
    Runs,         \* pricing run ids an execution may draw, in order
    MaxChunks,    \* bound on the chunks of one catalogue
    Rows,         \* what pricing one chunk's listings may produce
    Discounts,    \* weekly discounts, in percent
    SafePlan(_),  \* the verdict of safety_check_plan on a merged plan
    MaxAttempts,  \* Retry.MaxAttempts of the task states
    Zombies,      \* may an abandoned invocation keep running?
    None          \* an absent object, item or attribute

Modes == {"DRY_RUN", "LIVE"}
Chunks == 0 .. MaxChunks - 1

\* One chunk's plan: its priced rows, computed under one discount.
ChunkRows == [rows : Rows, pct : Discounts]
\* A merged plan holds the rows of every chunk; None where a chunk is absent.
Plans == [Chunks -> ChunkRows \cup {None}]

\* PlanCheckpoint: the fields that control the waves.
Checkpoint == [status   : {"pending", "in_progress", "completed"},
               mode     : Modes,
               next     : 0 .. MaxChunks,      \* next_index
               count    : 0 .. MaxChunks,      \* chunk_count
               pct      : Discounts,           \* discount_pct
               safety   : BOOLEAN \cup {None}] \* safety_ok

\* The "$" document of the execution after the first task.
Payload == [run : Runs, mode : Modes, more : BOOLEAN,
            safety : BOOLEAN \cup {None}]

TaskStates == {"Prepare", "PlanAll", "Apply"}
EndStates == {"Finalize", "Applied", "PlanSafetyFailed", "Failed"}

PreparePCs == {"export", "put_listings", "put_manifest", "put_checkpoint"}
PlanPCs == {"get", "wave", "save_progress", "merge", "save_final"}
ApplyPCs == {"load", "submit"}
PCs == PreparePCs \cup PlanPCs \cup ApplyPCs \cup {"return", "idle"}

ASSUME ConstantsAssumption ==
    /\ MaxChunks \in Nat
    /\ Runs \subseteq Nat
    /\ MaxAttempts \in Nat
    /\ Zombies \in BOOLEAN
    /\ 0 \in Discounts
    /\ \A p \in Plans : SafePlan(p) \in BOOLEAN
    /\ None \notin Runs \cup Slots \cup Nat \cup BOOLEAN
    /\ None \notin ChunkRows \cup Plans \cup Checkpoint \cup Payload

VARIABLES
    \* Step Functions
    mode,       \* mode of the execution's input
    sfn,        \* current state of the state machine
    attempt,    \* retries used up in the current task state
    task,       \* slot whose answer the current task state waits for
    payload,    \* the "$" document
    \* S3 and DynamoDB, by run id
    drawn,      \* run ids drawn so far
    listings,   \* runs whose listings.jsonl is in S3
    manifest,   \* chunk count in the manifest
    chunkPlan,  \* chunks/NNN.plan.jsonl
    planFile,   \* plan.jsonl
    ckpt,       \* plan#checkpoint item
    older,      \* replaced checkpoint items that a read may still return
    redone,     \* history: runs whose completed item was missed by a read
    \* the Lambda invocations, by slot
    pc, run,
    loc,        \* the handler's PlanCheckpoint object
    worked,     \* chunks_this_wave > 0
    replaced,   \* history: checkpoint items this wave has replaced
    behind,     \* history: slots whose handler was given an older item
    buf,        \* chunk plans merged so far, or the plan Apply loaded
    \* what reached CardTrader
    applied

sfnVars == <<mode, sfn, attempt, task, payload>>
storeVars == <<drawn, listings, manifest, chunkPlan, planFile, ckpt, older, redone>>
slotVars == <<run, loc, worked, replaced, behind, buf>>
vars == <<sfnVars, storeVars, pc, slotVars, applied>>

NoPlan == [i \in Chunks |-> None]
NewCheckpoint(m, n, d) ==
    [status |-> "pending", mode |-> m, next |-> 0, count |-> n,
     pct |-> d, safety |-> None]

Init ==
    /\ mode \in Modes
    /\ sfn = "Prepare" /\ attempt = 0 /\ task = None /\ payload = None
    /\ drawn = {} /\ listings = {}
    /\ manifest = [r \in Runs |-> None]
    /\ chunkPlan = [r \in Runs |-> NoPlan]
    /\ planFile = [r \in Runs |-> None]
    /\ ckpt = [r \in Runs |-> None]
    /\ older = [r \in Runs |-> {}] /\ redone = {}
    /\ pc = [s \in Slots |-> "idle"]
    /\ run = [s \in Slots |-> None]
    /\ loc = [s \in Slots |-> None]
    /\ worked = [s \in Slots |-> FALSE]
    /\ replaced = [s \in Slots |-> {}] /\ behind = {}
    /\ buf = [s \in Slots |-> NoPlan]
    /\ applied = {}

-------------------------------------------------------------------------------
(***************************************************************************)
(* Step Functions: invoking a task and choosing after PlanAll.             *)
(***************************************************************************)

\* Put the handler of the current task state into slot s, for run r.
Invoke(s, r, first) ==
    /\ task = None /\ pc[s] = "idle"
    /\ task' = s
    /\ pc' = [pc EXCEPT ![s] = first]
    /\ run' = [run EXCEPT ![s] = r]
    /\ UNCHANGED <<mode, sfn, attempt, payload, loc, worked, replaced, behind, buf, applied>>

\* The invocation in slot s is over: its local state is gone.
Vacate(s) ==
    /\ pc' = [pc EXCEPT ![s] = "idle"]
    /\ run' = [run EXCEPT ![s] = None]
    /\ loc' = [loc EXCEPT ![s] = None]
    /\ worked' = [worked EXCEPT ![s] = FALSE]
    /\ replaced' = [replaced EXCEPT ![s] = {}]
    /\ behind' = behind \ {s}
    /\ buf' = [buf EXCEPT ![s] = NoPlan]

\* Each Prepare draws a new pricing_run_id, its time stamp: retries are seconds
\* apart, and runs are numbered in the order of their stamps.
StartPrepare(s) ==
    /\ sfn = "Prepare"
    /\ \E r \in Runs \ drawn :
          /\ drawn = {d \in Runs : d < r}
          /\ Invoke(s, r, "export")
          /\ drawn' = drawn \cup {r}
    /\ UNCHANGED <<listings, manifest, chunkPlan, planFile, ckpt, older, redone>>

StartPlanAll(s) ==
    /\ sfn = "PlanAll"
    /\ Invoke(s, payload.run, "get")
    /\ UNCHANGED storeVars

StartApply(s) ==
    /\ sfn = "Apply"
    /\ Invoke(s, payload.run, "load")
    /\ UNCHANGED storeVars

\* Mutant: the Choice has no LIVE branch.
ChoiceWithoutApply ==
    IF payload.more THEN "PlanAll"
    ELSE IF payload.safety = FALSE THEN "PlanSafetyFailed"
    ELSE "Finalize"

\* Where the Choice state goes; its Default is Finalize.
Choice ==
    IF payload.more THEN "PlanAll"
    ELSE IF payload.safety = TRUE /\ payload.mode = "LIVE" THEN "Apply"
    ELSE IF payload.safety = FALSE THEN "PlanSafetyFailed"
    ELSE "Finalize"

PlanMore ==
    /\ sfn = "PlanMore"
    /\ sfn' = Choice
    /\ UNCHANGED <<mode, attempt, task, payload, storeVars, pc, slotVars, applied>>

-------------------------------------------------------------------------------
(***************************************************************************)
(* prepare_handler                                                         *)
(***************************************************************************)

\* Export, validate, slice the fetch keys into chunks, and look up the
\* weekly discount (0 when that lookup fails).
Export(s) ==
    /\ pc[s] = "export"
    /\ \E n \in 1 .. MaxChunks, d \in Discounts :
          loc' = [loc EXCEPT ![s] = NewCheckpoint(mode, n, d)]
    /\ pc' = [pc EXCEPT ![s] = "put_listings"]
    /\ UNCHANGED <<sfnVars, storeVars, run, worked, replaced, behind, buf, applied>>

PutListings(s) ==
    /\ pc[s] = "put_listings"
    /\ listings' = listings \cup {run[s]}
    /\ pc' = [pc EXCEPT ![s] = "put_manifest"]
    /\ UNCHANGED <<sfnVars, drawn, manifest, chunkPlan, planFile, ckpt, older,
                   redone, slotVars, applied>>

PutManifest(s) ==
    /\ pc[s] = "put_manifest"
    /\ manifest' = [manifest EXCEPT ![run[s]] = loc[s].count]
    /\ pc' = [pc EXCEPT ![s] = "put_checkpoint"]
    /\ UNCHANGED <<sfnVars, drawn, listings, chunkPlan, planFile, ckpt, older,
                   redone, slotVars, applied>>

\* put_item: of the items replaced so far a read may return those in kept and
\* the one that c replaces now.
PutItem(r, kept, c) ==
    /\ ckpt' = [ckpt EXCEPT ![r] = c]
    /\ older' = [older EXCEPT ![r] = (kept \cup {ckpt[r]}) \ {None, c}]

PutNewCheckpoint(s) ==
    /\ pc[s] = "put_checkpoint"
    /\ PutItem(run[s], older[run[s]], loc[s])
    /\ pc' = [pc EXCEPT ![s] = "return"]
    /\ UNCHANGED <<sfnVars, drawn, listings, manifest, chunkPlan, planFile,
                   redone, slotVars, applied>>

-------------------------------------------------------------------------------
(***************************************************************************)
(* plan_all_handler.  A missing object makes get_json or get_text raise:   *)
(* the steps below are then disabled and only Raise is left.               *)
(***************************************************************************)

\* What get_item may return besides nothing at all, on which the handler raises.
Readable(r) == (older[r] \cup {ckpt[r]}) \ {None}

\* get_item returns c: was that the last item put, and if not, was that one
\* completed?
Read(s, r, c) ==
    /\ behind' = IF c = ckpt[r] THEN behind \ {s} ELSE behind \cup {s}
    /\ redone' = IF c # ckpt[r] /\ ckpt[r].status = "completed"
                 THEN redone \cup {r} ELSE redone

GetCompleted(s) ==
    /\ pc[s] = "get"
    /\ \E c \in Readable(run[s]) :
          /\ c.status = "completed"
          /\ Read(s, run[s], c)
          /\ loc' = [loc EXCEPT ![s] = c]
    /\ pc' = [pc EXCEPT ![s] = "return"]
    /\ UNCHANGED <<sfnVars, drawn, listings, manifest, chunkPlan, planFile, ckpt,
                   older, run, worked, replaced, buf, applied>>

\* Mutant: every invocation starts again at the first chunk.
ResumedFromStart(c, n) == [c EXCEPT !.status = "in_progress", !.count = n, !.next = 0]

\* The checkpoint a wave works from: the manifest decides the chunk count.
Resumed(c, n) == [c EXCEPT !.status = "in_progress", !.count = n]

GetCheckpoint(s) ==
    LET r == run[s] IN
    /\ pc[s] = "get"
    /\ manifest[r] # None /\ r \in listings
    /\ \E c \in Readable(r) :
          /\ c.status # "completed"
          /\ Read(s, r, c)
          /\ loc' = [loc EXCEPT ![s] = Resumed(c, manifest[r])]
    /\ worked' = [worked EXCEPT ![s] = FALSE]
    /\ pc' = [pc EXCEPT ![s] = "wave"]
    /\ UNCHANGED <<sfnVars, drawn, listings, manifest, chunkPlan, planFile, ckpt,
                   older, run, replaced, buf, applied>>

\* Price the next chunk at today's market and put its plan into S3.
PlanChunk(s) ==
    /\ pc[s] = "wave"
    /\ loc[s].next < loc[s].count
    /\ \E rows \in Rows :
          chunkPlan' = [chunkPlan EXCEPT ![run[s]][loc[s].next] =
                                        [rows |-> rows, pct |-> loc[s].pct]]
    /\ pc' = [pc EXCEPT ![s] = "save_progress"]
    /\ UNCHANGED <<sfnVars, drawn, listings, manifest, planFile, ckpt, older,
                   redone, slotVars, applied>>

\* Mutants: an item that is one chunk ahead, or that lacks an attribute.
SavedItemAhead(c) == [c EXCEPT !.next = c.next + 1]
SavedItemWithoutDiscount(c) == [c EXCEPT !.pct = 0]
SavedItemWithoutSafety(c) == [c EXCEPT !.safety = None]

\* The item save_progress puts: every field of the handler's checkpoint.
SavedItem(c) == c

SaveProgress(s) ==
    LET c == [loc[s] EXCEPT !.next = loc[s].next + 1] IN
    /\ pc[s] = "save_progress"
    /\ loc' = [loc EXCEPT ![s] = c]
    /\ worked' = [worked EXCEPT ![s] = TRUE]
    /\ replaced' = [replaced EXCEPT ![s] = @ \cup {ckpt[run[s]]}]
    /\ PutItem(run[s], older[run[s]], SavedItem(c))
    /\ pc' = [pc EXCEPT ![s] = "wave"]
    /\ UNCHANGED <<sfnVars, drawn, listings, manifest, chunkPlan, planFile,
                   redone, run, behind, buf, applied>>

\* Mutant: a wave may pause before it has planned a chunk.
MayPauseAtOnce(s) == TRUE

\* Too little Lambda time is left to start another chunk, but never before
\* the wave has planned one.
MayPause(s) == worked[s]

\* A wave that pauses has run for minutes: no read returns what had been
\* replaced before it began.  An abandoned handler may be slower than that.
StillRead(s) ==
    IF Zombies THEN older[run[s]] ELSE older[run[s]] \cap replaced[s]

PauseWave(s) ==
    /\ pc[s] = "wave"
    /\ loc[s].next < loc[s].count
    /\ MayPause(s)
    /\ PutItem(run[s], StillRead(s), SavedItem(loc[s]))
    /\ pc' = [pc EXCEPT ![s] = "return"]
    /\ UNCHANGED <<sfnVars, drawn, listings, manifest, chunkPlan, planFile,
                   redone, slotVars, applied>>

BeginMerge(s) ==
    /\ pc[s] = "wave"
    /\ loc[s].next >= loc[s].count
    /\ buf' = [buf EXCEPT ![s] = NoPlan]
    /\ pc' = [pc EXCEPT ![s] = "merge"]
    /\ UNCHANGED <<sfnVars, storeVars, run, loc, worked, replaced, behind, applied>>

\* _finalize_merged_plan reads the chunk plans one by one, in manifest order.
ReadChunkPlan(s) ==
    /\ pc[s] = "merge"
    /\ \E i \in Chunks :
          /\ i < manifest[run[s]]
          /\ buf[s][i] = None
          /\ \A j \in Chunks : j < i => buf[s][j] # None
          /\ chunkPlan[run[s]][i] # None
          /\ buf' = [buf EXCEPT ![s][i] = chunkPlan[run[s]][i]]
    /\ UNCHANGED <<sfnVars, storeVars, pc, run, loc, worked, replaced, behind, applied>>

\* Mutant: the merge leaves out the last chunk of the manifest.
MergedButLast(s) == \A i \in Chunks : i + 1 < manifest[run[s]] => buf[s][i] # None

\* Every chunk of the manifest has been read.
Merged(s) == \A i \in Chunks : i < manifest[run[s]] => buf[s][i] # None

\* Mutant: the safety check sees one chunk's plan, not the merged plan.
VerdictOnFirstChunk(p) == SafePlan([i \in Chunks |-> IF i = 0 THEN p[i] ELSE None])

\* safety_check_plan, on the merged plan.
Verdict(p) == SafePlan(p)

PutPlan(s) ==
    /\ pc[s] = "merge"
    /\ Merged(s)
    /\ planFile' = [planFile EXCEPT ![run[s]] = buf[s]]
    /\ loc' = [loc EXCEPT ![s].status = "completed",
                          ![s].next = loc[s].count,
                          ![s].safety = Verdict(buf[s])]
    /\ pc' = [pc EXCEPT ![s] = "save_final"]
    /\ UNCHANGED <<sfnVars, drawn, listings, manifest, chunkPlan, ckpt, older,
                   redone, run, worked, replaced, behind, buf, applied>>

SaveFinal(s) ==
    /\ pc[s] = "save_final"
    /\ PutItem(run[s], older[run[s]], SavedItem(loc[s]))
    /\ pc' = [pc EXCEPT ![s] = "return"]
    /\ UNCHANGED <<sfnVars, drawn, listings, manifest, chunkPlan, planFile,
                   redone, slotVars, applied>>

-------------------------------------------------------------------------------
(***************************************************************************)
(* apply_handler, its updates taken as one step (see ApplyUpdates).        *)
(***************************************************************************)

LoadPlan(s) ==
    /\ pc[s] = "load"
    /\ payload.mode = "LIVE"
    /\ payload.safety # FALSE
    /\ planFile[run[s]] # None
    /\ buf' = [buf EXCEPT ![s] = planFile[run[s]]]
    /\ pc' = [pc EXCEPT ![s] = "submit"]
    /\ UNCHANGED <<sfnVars, storeVars, run, loc, worked, replaced, behind, applied>>

SubmitPlan(s) ==
    /\ pc[s] = "submit"
    /\ applied' = applied \cup {[run |-> run[s], plan |-> buf[s]]}
    /\ pc' = [pc EXCEPT ![s] = "return"]
    /\ UNCHANGED <<sfnVars, storeVars, slotVars>>

-------------------------------------------------------------------------------
(***************************************************************************)
(* How an invocation ends.                                                 *)
(***************************************************************************)

\* PlanCheckpoint.more; plan_all_handler's constants agree with it.
More(c) == c.status # "completed" /\ c.next < c.count

\* _run_context_payload
RunContext(s) ==
    [run |-> run[s], mode |-> loc[s].mode, more |-> More(loc[s]),
     safety |-> loc[s].safety]

\* The handler returns; an answer nobody waits for is dropped.
Return(s) ==
    /\ pc[s] = "return"
    /\ Vacate(s)
    /\ \/ /\ task # s
          /\ UNCHANGED sfnVars
       \/ /\ task = s
          /\ task' = None /\ attempt' = 0
          /\ sfn' = CASE sfn = "Prepare" -> "PlanAll"
                      [] sfn = "PlanAll" -> "PlanMore"
                      [] sfn = "Apply"   -> "Applied"
          /\ payload' = IF sfn = "Apply" THEN payload ELSE RunContext(s)
          /\ UNCHANGED mode
    /\ UNCHANGED <<storeVars, applied>>

\* The handler raises, or hits the 900 s timeout: no Retry matches.
Raise(s) ==
    /\ pc[s] # "idle"
    /\ Vacate(s)
    /\ IF task = s
       THEN sfn' = "Failed" /\ task' = None
       ELSE UNCHANGED <<sfn, task>>
    /\ UNCHANGED <<mode, attempt, payload, storeVars, applied>>

\* Step Functions sees a retryable Lambda error instead of an answer.
LoseInvocation(s) ==
    /\ task = s
    /\ task' = None
    /\ IF attempt < MaxAttempts
       THEN attempt' = attempt + 1 /\ UNCHANGED sfn
       ELSE sfn' = "Failed" /\ UNCHANGED attempt
    /\ \/ Vacate(s)
       \/ Zombies /\ UNCHANGED <<pc, slotVars>>
    /\ UNCHANGED <<mode, payload, storeVars, applied>>

\* The execution is over and no invocation is left.
Ended ==
    /\ sfn \in EndStates
    /\ \A s \in Slots : pc[s] = "idle"
    /\ UNCHANGED vars

-------------------------------------------------------------------------------
Start(s) == StartPrepare(s) \/ StartPlanAll(s) \/ StartApply(s)

Prepare(s) == Export(s) \/ PutListings(s) \/ PutManifest(s) \/ PutNewCheckpoint(s)

PlanAll(s) ==
    \/ GetCompleted(s) \/ GetCheckpoint(s)
    \/ PlanChunk(s) \/ SaveProgress(s) \/ PauseWave(s)
    \/ BeginMerge(s) \/ ReadChunkPlan(s) \/ PutPlan(s) \/ SaveFinal(s)

Apply(s) == LoadPlan(s) \/ SubmitPlan(s)

Handler(s) == Prepare(s) \/ PlanAll(s) \/ Apply(s) \/ Return(s) \/ Raise(s)

Next ==
    \/ PlanMore
    \/ \E s \in Slots : Start(s) \/ Handler(s) \/ LoseInvocation(s)
    \/ Ended

Spec == Init /\ [][Next]_vars

\* Step Functions moves on, and no invocation outlives its Lambda timeout.
Fairness ==
    /\ WF_vars(PlanMore \/ \E s \in Slots : Start(s))
    /\ \A s \in Slots : WF_vars(Handler(s))

FairSpec == Spec /\ Fairness

-------------------------------------------------------------------------------
(***************************************************************************)
(* Properties                                                              *)
(***************************************************************************)

\* Every variable holds a value of its type.
TypeOK ==
    /\ mode \in Modes
    /\ sfn \in TaskStates \cup EndStates \cup {"PlanMore"}
    /\ attempt \in 0 .. MaxAttempts
    /\ task \in Slots \cup {None}
    /\ payload \in Payload \cup {None}
    /\ drawn \subseteq Runs /\ listings \subseteq Runs
    /\ manifest \in [Runs -> (0 .. MaxChunks) \cup {None}]
    /\ chunkPlan \in [Runs -> Plans]
    /\ planFile \in [Runs -> Plans \cup {None}]
    /\ ckpt \in [Runs -> Checkpoint \cup {None}]
    /\ older \in [Runs -> SUBSET Checkpoint] /\ redone \subseteq Runs
    /\ pc \in [Slots -> PCs]
    /\ run \in [Slots -> Runs \cup {None}]
    /\ loc \in [Slots -> Checkpoint \cup {None}]
    /\ worked \in [Slots -> BOOLEAN]
    /\ replaced \in [Slots -> SUBSET (Checkpoint \cup {None})]
    /\ behind \subseteq Slots
    /\ buf \in [Slots -> Plans]
    /\ applied \subseteq [run : Runs, plan : Plans]

\* A crash between two writes never leaves a checkpoint ahead of the
\* artifacts it vouches for: listings, manifest, and the plan of every chunk
\* below next_index (put_bytes comes before save_progress).
CheckpointBehindArtifacts ==
    \A r \in Runs : ckpt[r] # None =>
        /\ r \in listings
        /\ manifest[r] = ckpt[r].count
        /\ \A i \in Chunks : i < ckpt[r].next => chunkPlan[r][i] # None
        /\ ckpt[r].status = "completed" => planFile[r] # None

\* A plan p of run r leaves no chunk of the manifest out.
Covers(r, p) == \A i \in Chunks : i < manifest[r] => p[i] # None

\* Whatever reaches CardTrader was planned from the whole catalogue, however
\* many waves, crashes and retries it took to plan it.
AppliedPlanIsWhole == \A a \in applied : manifest[a.run] # None /\ Covers(a.run, a.plan)

\* The README's gate: "only if safety_ok (LIVE)".  Only a LIVE execution
\* applies, and only plans that pass the safety check, unless a read missed
\* the completed checkpoint and the run was planned once more.
AppliedOnlyIfGated ==
    \A a \in applied : mode = "LIVE" /\ (SafePlan(a.plan) \/ a.run \in redone)

\* All the rows of a plan are priced under one weekly discount, the one
\* Prepare stored, although each wave rereads it from the checkpoint.
OneDiscountPerPlan ==
    \A r \in Runs : planFile[r] # None =>
        \A i \in Chunks : planFile[r][i] # None => planFile[r][i].pct = ckpt[r].pct

\* PlanMore's Default is for dry runs: a LIVE execution never falls through to
\* Finalize, silently applying nothing, for want of safety_ok in the payload.
LiveNeverFinalizes == sfn = "Finalize" => mode = "DRY_RUN"

\* Run r keeps the chunks it has planned, and what it has completed.
KeepsProgress(r) ==
    /\ ckpt'[r].next >= ckpt[r].next
    /\ ckpt[r].status = "completed" =>
          ckpt'[r] = ckpt[r] /\ planFile'[r] = planFile[r]

\* A retry or a later wave never undoes planned work: next_index never goes
\* back, and a completed checkpoint with its plan.jsonl is final, except by a
\* handler that was itself given an older item.
CheckpointNeverRegresses ==
    [][\A r \in Runs : ckpt[r] # None =>
          /\ ckpt'[r] # None
          /\ KeepsProgress(r) \/ \E s \in behind : run[s] = r]_vars

\* Every execution ends: a wave that answers "more" has planned a chunk, so
\* the PlanAll loop cannot go round for ever.
RunTerminates == <>(sfn \in EndStates)

\* A safe plan of a LIVE execution is applied unless a task fails for good.
SafePlanIsApplied ==
    (sfn = "PlanMore" /\ ~payload.more /\ payload.safety = TRUE /\ mode = "LIVE")
        ~> (sfn = "Failed" \/ \E a \in applied : a.run = payload.run)
===============================================================================
