--------------------------- MODULE RepriceRunProofs ---------------------------
(***************************************************************************)
(* Proofs about RepriceRun, for every number of slots, run ids, chunks and *)
(* retries, every safety gate, and (unless said otherwise) with or without *)
(* zombie invocations.                                                     *)
(***************************************************************************)
EXTENDS RepriceRunInv, TLAPS

(***************************************************************************)
(* Type correctness                                                        *)
(***************************************************************************)

\* The empty plan, in which every chunk is absent, is a plan.
LEMMA NoPlanType == NoPlan \in Plans
  BY DEF NoPlan, Plans

\* The bound on chunks is a natural number.
LEMMA MaxChunksNat == MaxChunks \in Nat
  BY ConstantsAssumption

\* A checkpoint is something.
LEMMA CheckpointIsSome == \A c \in Checkpoint : c # None
  BY ConstantsAssumption

\* A put changes the items of one run only; reads of that run may return the
\* new item and, besides, what they could return before.
PutEffect(r, c) ==
    /\ ckpt' = [ckpt EXCEPT ![r] = c] /\ ckpt'[r] = c /\ ckpt'[r] # None
    /\ ckpt' \in [Runs -> Checkpoint \cup {None}]
    /\ older' \in [Runs -> SUBSET Checkpoint]
    /\ \A q \in Runs \ {r} : ckpt'[q] = ckpt[q] /\ older'[q] = older[q]
    /\ \A q \in Runs : ckpt[q] # None => ckpt'[q] # None
    /\ older'[r] \subseteq Readable(r) /\ c \notin older'[r]
    /\ \A q \in Runs : \A d \in Readable(q)' : d \in Readable(q) \/ (q = r /\ d = c)

LEMMA PutItemReads ==
    ASSUME ckpt \in [Runs -> Checkpoint \cup {None}],
           older \in [Runs -> SUBSET Checkpoint],
           NEW r \in Runs, NEW kept \in SUBSET older[r], NEW c \in Checkpoint,
           PutItem(r, kept, c)
    PROVE  PutEffect(r, c)
  <1>1. /\ ckpt' = [ckpt EXCEPT ![r] = c] /\ ckpt'[r] = c
        /\ ckpt' \in [Runs -> Checkpoint \cup {None}]
    BY DEF PutItem
  <1>2. /\ older'[r] = (kept \cup {ckpt[r]}) \ {None, c}
        /\ older' \in [Runs -> SUBSET Checkpoint]
        /\ \A q \in Runs \ {r} : ckpt'[q] = ckpt[q] /\ older'[q] = older[q]
    BY DEF PutItem
  <1>3. older'[r] \subseteq Readable(r) /\ c \notin older'[r]
    BY <1>2 DEF Readable
  <1>4. ASSUME NEW q \in Runs, NEW d, d \in Readable(q)'
        PROVE  d \in Readable(q) \/ (q = r /\ d = c)
    BY <1>1, <1>2, <1>3, <1>4 DEF Readable
  <1>5. ckpt'[r] # None /\ \A q \in Runs : ckpt[q] # None => ckpt'[q] # None
    BY <1>1, <1>2, CheckpointIsSome
  <1>6. QED
    BY <1>1, <1>2, <1>3, <1>4, <1>5 DEF PutEffect

\* Without a put, reads of a run that has an item return items only.
LEMMA ReadableItems ==
    ASSUME ckpt \in [Runs -> Checkpoint \cup {None}],
           older \in [Runs -> SUBSET Checkpoint],
           NEW r \in Runs
    PROVE  /\ Readable(r) \subseteq Checkpoint
           /\ ckpt[r] # None => ckpt[r] \in Readable(r)
           /\ older[r] \subseteq Readable(r)
  BY ConstantsAssumption DEF Readable

\* A wave resumes from an item as a checkpoint of its own.
LEMMA ResumedType ==
    ASSUME NEW c \in Checkpoint, NEW n \in 0 .. MaxChunks
    PROVE  Resumed(c, n) \in Checkpoint
  BY DEF Resumed, Checkpoint

\* PutPlan completes its own slot's checkpoint, and leaves the others alone.
LEMMA CompletedLocal ==
    ASSUME loc \in [Slots -> Checkpoint \cup {None}], buf \in [Slots -> Plans],
           NEW s \in Slots, loc[s] \in Checkpoint, PutPlan(s)
    PROVE  /\ loc' \in [Slots -> Checkpoint \cup {None}] /\ loc'[s] \in Checkpoint
           /\ \A t \in Slots \ {s} : loc'[t] = loc[t]
           /\ loc'[s].status = "completed" /\ loc'[s].safety = SafePlan(buf[s])
           /\ loc'[s].next = loc[s].count /\ loc'[s].count = loc[s].count
           /\ loc'[s].pct = loc[s].pct /\ loc'[s].mode = loc[s].mode
  <1> DEFINE c == [loc[s] EXCEPT !.status = "completed", !.next = loc[s].count,
                                 !.safety = SafePlan(buf[s])]
  <1>1. SafePlan(buf[s]) \in BOOLEAN
    BY ConstantsAssumption
  <1>2. loc' = [loc EXCEPT ![s] = c]
    BY DEF PutPlan, Verdict, Checkpoint
  <1>3. /\ c \in Checkpoint
        /\ c.status = "completed" /\ c.safety = SafePlan(buf[s])
        /\ c.next = loc[s].count /\ c.count = loc[s].count
        /\ c.pct = loc[s].pct /\ c.mode = loc[s].mode
    BY <1>1 DEF Checkpoint
  <1> HIDE DEF c
  <1>4. QED
    BY <1>2, <1>3

\* A new execution is well typed.
LEMMA InitType == Init => TypeInv
  BY ConstantsAssumption, NoPlanType
  DEF Init, TypeInv, TypeOK, LocalsOK, TaskOK, TaskStates, EndStates, PCs,
      HoldsCheckpoint, PreparePCs, PlanPCs

\* Every step keeps types, and leaves a handler the locals its next step reads.
LEMMA TypeStep == TypeInv /\ [Next]_vars => TypeInv'
  <1> SUFFICES ASSUME TypeInv, [Next]_vars PROVE TypeInv'
    OBVIOUS
  <1> USE DEF TypeInv, TypeOK, LocalsOK, TaskOK, HoldsCheckpoint
  <1> USE DEF PCs, PreparePCs, PlanPCs, ApplyPCs, TaskStates, EndStates, Chunks
  <1> USE ConstantsAssumption, NoPlanType
  <1>1. CASE PlanMore
    BY <1>1 DEF PlanMore, Choice, storeVars, slotVars
  <1>2. ASSUME NEW s \in Slots, Start(s) PROVE TypeInv'
    <2> USE DEF Invoke
    <2>1. CASE StartPrepare(s)
      BY <2>1 DEF StartPrepare
    <2>2. CASE StartPlanAll(s)
      BY <2>2 DEF StartPlanAll, storeVars, Payload
    <2>3. CASE StartApply(s)
      BY <2>3 DEF StartApply, storeVars, Payload
    <2>4. QED
      BY <1>2, <2>1, <2>2, <2>3 DEF Start
  <1>3. ASSUME NEW s \in Slots, Prepare(s) PROVE TypeInv'
    <2> USE DEF sfnVars, slotVars
    <2>1. CASE Export(s)
      BY <2>1 DEF Export, storeVars, NewCheckpoint, Checkpoint
    <2>2. CASE PutListings(s)
      BY <2>2 DEF PutListings
    <2>3. CASE PutManifest(s)
      BY <2>3 DEF PutManifest, Checkpoint
    <2>4. CASE PutNewCheckpoint(s)
      <3>1. /\ run[s] \in Runs /\ loc[s] \in Checkpoint
            /\ PutItem(run[s], older[run[s]], loc[s])
        BY <2>4 DEF PutNewCheckpoint
      <3>2. /\ ckpt' \in [Runs -> Checkpoint \cup {None}]
            /\ older' \in [Runs -> SUBSET Checkpoint]
        BY <3>1, PutItemReads DEF PutEffect
      <3>3. QED
        BY <2>4, <3>2 DEF PutNewCheckpoint
    <2>5. QED
      BY <1>3, <2>1, <2>2, <2>3, <2>4 DEF Prepare
  <1>4. ASSUME NEW s \in Slots, PlanAll(s) PROVE TypeInv'
    <2> USE DEF sfnVars
    <2>1. CASE GetCompleted(s)
      <3>1. run[s] \in Runs /\ Readable(run[s]) \subseteq Checkpoint
        BY <2>1, ReadableItems DEF GetCompleted
      <3>2. PICK c \in Readable(run[s]) :
               Read(s, run[s], c) /\ loc' = [loc EXCEPT ![s] = c]
        BY <2>1 DEF GetCompleted
      <3>3. loc'[s] \in Checkpoint /\ loc' \in [Slots -> Checkpoint \cup {None}]
        BY <3>1, <3>2
      <3>4. behind' \subseteq Slots /\ redone' \subseteq Runs
        BY <3>1, <3>2 DEF Read
      <3>5. QED
        BY <2>1, <3>1, <3>2, <3>3, <3>4 DEF GetCompleted
    <2>2. CASE GetCheckpoint(s)
      <3>1. /\ run[s] \in Runs /\ Readable(run[s]) \subseteq Checkpoint
            /\ manifest[run[s]] \in 0 .. MaxChunks
        BY <2>2, ReadableItems DEF GetCheckpoint
      <3>2. PICK c \in Readable(run[s]) :
               Read(s, run[s], c) /\ loc' = [loc EXCEPT ![s] = Resumed(c, manifest[run[s]])]
        BY <2>2 DEF GetCheckpoint
      <3>3. Resumed(c, manifest[run[s]]) \in Checkpoint
        BY <3>1, ResumedType
      <3>4. loc'[s] \in Checkpoint /\ loc' \in [Slots -> Checkpoint \cup {None}]
        BY <3>2, <3>3
      <3>5. behind' \subseteq Slots /\ redone' \subseteq Runs
        BY <3>1, <3>2 DEF Read
      <3>6. QED
        BY <2>2, <3>1, <3>4, <3>5 DEF GetCheckpoint
    <2>3. CASE PlanChunk(s)
      <3>1. run[s] \in Runs /\ loc[s] \in Checkpoint
        BY <2>3 DEF PlanChunk
      <3>2. PICK x \in ChunkRows :
               chunkPlan' = [chunkPlan EXCEPT ![run[s]][loc[s].next] = x]
        BY <2>3, <3>1 DEF PlanChunk, Checkpoint, ChunkRows
      <3>3. chunkPlan' \in [Runs -> Plans]
        BY <3>1, <3>2 DEF Plans
      <3>4. QED
        BY <2>3, <3>3 DEF PlanChunk, slotVars
    <2>4. CASE SaveProgress(s)
      <3> DEFINE c == [loc[s] EXCEPT !.next = loc[s].next + 1]
      <3>1. run[s] \in Runs /\ c \in Checkpoint
        BY <2>4 DEF SaveProgress, Checkpoint
      <3>2. /\ PutItem(run[s], older[run[s]], c)
            /\ loc' = [loc EXCEPT ![s] = c]
        BY <2>4 DEF SaveProgress, SavedItem
      <3>3. replaced' \in [Slots -> SUBSET (Checkpoint \cup {None})]
        BY <2>4, <3>1 DEF SaveProgress
      <3> HIDE DEF c
      <3>4. /\ ckpt' \in [Runs -> Checkpoint \cup {None}]
            /\ older' \in [Runs -> SUBSET Checkpoint]
        BY <3>1, <3>2, PutItemReads DEF PutEffect
      <3>5. loc'[s] \in Checkpoint /\ loc' \in [Slots -> Checkpoint \cup {None}]
        BY <3>1, <3>2
      <3>6. LocalsOK' /\ TaskOK'
        BY <2>4, <3>1, <3>2, <3>5, ConstantsAssumption DEF SaveProgress
      <3>7. TypeOK'
        BY <2>4, <3>3, <3>4, <3>5 DEF SaveProgress
      <3>8. QED
        BY <3>6, <3>7
    <2>5. CASE PauseWave(s)
      <3>1. /\ run[s] \in Runs /\ loc[s] \in Checkpoint
            /\ StillRead(s) \subseteq older[run[s]]
            /\ PutItem(run[s], StillRead(s), loc[s])
        BY <2>5 DEF PauseWave, SavedItem, StillRead
      <3>2. /\ ckpt' \in [Runs -> Checkpoint \cup {None}]
            /\ older' \in [Runs -> SUBSET Checkpoint]
        BY <3>1, PutItemReads DEF PutEffect
      <3>3. QED
        BY <2>5, <3>2 DEF PauseWave, slotVars
    <2>6. CASE BeginMerge(s)
      BY <2>6 DEF BeginMerge, storeVars
    <2>7. CASE ReadChunkPlan(s)
      BY <2>7 DEF ReadChunkPlan, storeVars, Plans
    <2>8. CASE PutPlan(s)
      <3>1. run[s] \in Runs /\ loc[s] \in Checkpoint /\ buf[s] \in Plans
        BY <2>8 DEF PutPlan
      <3>2. /\ loc'[s] \in Checkpoint /\ loc' \in [Slots -> Checkpoint \cup {None}]
            /\ \A t \in Slots \ {s} : loc'[t] = loc[t]
        BY <2>8, <3>1, CompletedLocal
      <3>3. loc'[s] # None /\ loc[s] # None
        BY <3>1, <3>2, CheckpointIsSome
      <3>4. /\ planFile' = [planFile EXCEPT ![run[s]] = buf[s]]
            /\ pc' = [pc EXCEPT ![s] = "save_final"]
            /\ UNCHANGED <<sfnVars, drawn, listings, manifest, chunkPlan, ckpt,
                           older, redone, run, worked, replaced, behind, buf,
                           applied>>
        BY <2>8 DEF PutPlan
      <3>5. planFile' \in [Runs -> Plans \cup {None}]
        BY <3>1, <3>4
      <3>6. TypeOK'
        BY <3>2, <3>4, <3>5
      <3>7. LocalsOK'
        <4>1. pc'[s] = "save_final" /\ pc[s] = "merge" /\ run'[s] = run[s]
          BY <2>8, <3>4 DEF PutPlan
        <4>2. \A t \in Slots \ {s} :
                 pc'[t] = pc[t] /\ run'[t] = run[t] /\ loc'[t] = loc[t]
          BY <3>2, <3>4
        <4>3. QED
          BY <3>3, <4>1, <4>2
      <3>8. TaskOK'
        BY <2>8, <3>2, <3>3, <3>4 DEF PutPlan
      <3>9. QED
        BY <3>6, <3>7, <3>8
    <2>9. CASE SaveFinal(s)
      <3>1. /\ run[s] \in Runs /\ loc[s] \in Checkpoint
            /\ PutItem(run[s], older[run[s]], loc[s])
        BY <2>9 DEF SaveFinal, SavedItem
      <3>2. /\ ckpt' \in [Runs -> Checkpoint \cup {None}]
            /\ older' \in [Runs -> SUBSET Checkpoint]
        BY <3>1, PutItemReads DEF PutEffect
      <3>3. QED
        BY <2>9, <3>2 DEF SaveFinal, slotVars
    <2>10. QED
      BY <1>4, <2>1, <2>2, <2>3, <2>4, <2>5, <2>6, <2>7, <2>8, <2>9 DEF PlanAll
  <1>5. ASSUME NEW s \in Slots, Apply(s) PROVE TypeInv'
    <2> USE DEF sfnVars, storeVars
    <2>1. CASE LoadPlan(s)
      <3>1. buf' \in [Slots -> Plans]
        BY <2>1 DEF LoadPlan
      <3>2. QED
        BY <2>1, <3>1 DEF LoadPlan
    <2>2. CASE SubmitPlan(s)
      BY <2>2 DEF SubmitPlan, slotVars
    <2>3. QED
      BY <1>5, <2>1, <2>2 DEF Apply
  <1>6. ASSUME NEW s \in Slots, Return(s) PROVE TypeInv'
    <2> USE DEF Return, Vacate, storeVars
    <2>1. CASE task # s
      BY <1>6, <2>1 DEF sfnVars
    <2>2. CASE task = s
      <3>1. sfn \in TaskStates
        BY <2>2
      <3>2. CASE sfn = "Apply"
        BY <1>6, <2>2, <3>2
      <3>3. CASE sfn \in {"Prepare", "PlanAll"}
        <4>1. run[s] \in Runs /\ loc[s] \in Checkpoint
          BY <1>6, <2>2, <3>3
        <4>2. RunContext(s) \in Payload
          BY <4>1 DEF RunContext, More, Payload, Checkpoint
        <4>3. QED
          BY <1>6, <2>2, <3>3, <4>2
      <3>4. QED
        BY <3>1, <3>2, <3>3
    <2>3. QED
      BY <2>1, <2>2
  <1>7. ASSUME NEW s \in Slots, Raise(s) PROVE TypeInv'
    BY <1>7 DEF Raise, Vacate, storeVars
  <1>8. ASSUME NEW s \in Slots, LoseInvocation(s) PROVE TypeInv'
    <2> USE DEF LoseInvocation, storeVars
    <2>1. attempt' \in 0 .. MaxAttempts /\ sfn' \in {sfn, "Failed"}
      BY <1>8
    <2>2. CASE Vacate(s)
      BY <1>8, <2>1, <2>2 DEF Vacate
    <2>3. CASE UNCHANGED <<pc, slotVars>>
      BY <1>8, <2>1, <2>3 DEF slotVars
    <2>4. QED
      BY <1>8, <2>2, <2>3
  <1>9. CASE UNCHANGED vars
    BY <1>9 DEF vars, sfnVars, storeVars, slotVars
  <1>10. QED
    BY <1>1, <1>2, <1>3, <1>4, <1>5, <1>6, <1>7, <1>8, <1>9 DEF Next, Handler, Ended

\* Every handler always finds the local variables its next step needs.
THEOREM LocalsHold == Spec => []TypeInv
  BY InitType, TypeStep, PTL DEF Spec

\* Every variable always holds a value of its type.
THEOREM TypeCorrect == Spec => []TypeOK
  <1>1. TypeInv => TypeOK
    BY DEF TypeInv
  <1>2. QED
    BY <1>1, LocalsHold, PTL

-------------------------------------------------------------------------------
(***************************************************************************)
(* Durability: a checkpoint is never ahead of its artifacts                *)
(***************************************************************************)

\* A new execution has no checkpoint, so none is ahead of its artifacts.
LEMMA InitDurable == Init => DurableInv
  <1> SUFFICES ASSUME Init PROVE DurableInv
    OBVIOUS
  <1>1. TypeInv
    BY InitType
  <1>2. QED
    BY <1>1, ConstantsAssumption
    DEF Init, DurableInv, CheckpointsBacked, LocalsBacked, PrepareOwnsRun,
        OthersHaveCheckpoint, PlansWhole, PreparePCs, PlanPCs, ApplyPCs, Readable

\* No step, of the state machine or of any invocation, puts a checkpoint ahead
\* of its artifacts.
LEMMA DurableStep == DurableInv /\ [Next]_vars => DurableInv'
  <1> SUFFICES ASSUME DurableInv, [Next]_vars PROVE DurableInv'
    OBVIOUS
  <1> USE DEF DurableInv, CheckpointsBacked, LocalsBacked, PrepareOwnsRun,
              OthersHaveCheckpoint, PlansWhole
  <1> USE DEF PreparePCs, PlanPCs, ApplyPCs
  <1>0. TypeInv /\ TypeInv'
    BY TypeStep
  <1>a. /\ run \in [Slots -> Runs \cup {None}] /\ pc \in [Slots -> PCs]
        /\ loc \in [Slots -> Checkpoint \cup {None}]
        /\ ckpt \in [Runs -> Checkpoint \cup {None}]
        /\ older \in [Runs -> SUBSET Checkpoint]
        /\ manifest \in [Runs -> (0 .. MaxChunks) \cup {None}]
        /\ chunkPlan \in [Runs -> Plans]
        /\ planFile \in [Runs -> Plans \cup {None}]
        /\ buf \in [Slots -> Plans]
        /\ \A s \in Slots : pc[s] # "idle" => run[s] \in Runs
        /\ \A s \in Slots : pc[s] \in HoldsCheckpoint => loc[s] # None
    BY <1>0 DEF TypeInv, TypeOK, LocalsOK
  <1>b. /\ \A r \in Runs : Readable(r) \subseteq Checkpoint
        /\ \A r \in Runs : ckpt[r] # None => ckpt[r] \in Readable(r)
    BY <1>a, ReadableItems
  <1>1. CASE PlanMore
    BY <1>0, <1>1 DEF PlanMore, storeVars, slotVars, Backed, Covers, Readable
  <1>2. ASSUME NEW s \in Slots, Start(s) PROVE DurableInv'
    <2> USE DEF Invoke, Backed, Covers, Readable
    <2>1. CASE StartPrepare(s)
      BY <1>0, <1>a, <2>1 DEF StartPrepare
    <2>2. CASE StartPlanAll(s)
      BY <1>0, <1>a, <2>2 DEF StartPlanAll, storeVars, TypeInv, TaskOK
    <2>3. CASE StartApply(s)
      BY <1>0, <1>a, <2>3 DEF StartApply, storeVars, TypeInv, TaskOK
    <2>4. QED
      BY <1>2, <2>1, <2>2, <2>3 DEF Start
  <1>3. ASSUME NEW s \in Slots, Prepare(s) PROVE DurableInv'
    <2> USE DEF sfnVars, slotVars, Backed, Covers
    <2>1. CASE Export(s)
      BY <1>0, <1>a, <2>1 DEF Export, storeVars, NewCheckpoint, Checkpoint, Readable
    <2>2. CASE PutListings(s)
      BY <1>0, <1>a, <2>2 DEF PutListings, Readable
    <2>3. CASE PutManifest(s)
      BY <1>0, <1>a, <2>3 DEF PutManifest, Checkpoint, Readable
    <2>4. CASE PutNewCheckpoint(s)
      <3>1. run[s] \in Runs /\ loc[s] \in Checkpoint /\ loc[s] # None
        BY <1>a, <2>4 DEF PutNewCheckpoint, HoldsCheckpoint
      <3>2. /\ older[run[s]] \subseteq older[run[s]]
            /\ PutItem(run[s], older[run[s]], loc[s])
            /\ pc' = [pc EXCEPT ![s] = "return"]
            /\ UNCHANGED <<drawn, listings, manifest, chunkPlan, planFile, run, loc,
                           buf, payload, applied>>
        BY <2>4 DEF PutNewCheckpoint, SavedItem, slotVars
      <3>3. Backed(run[s], loc[s]) /\ run[s] \in drawn
        BY <1>a, <2>4, <3>1, MaxChunksNat DEF PutNewCheckpoint, Checkpoint, Chunks
      <3>4. PutEffect(run[s], loc[s])
        BY <1>a, <3>1, <3>2, PutItemReads
      <3>5. CheckpointsBacked'
        BY <3>1, <3>2, <3>3, <3>4 DEF PutEffect
      <3>6. LocalsBacked'
        BY <1>a, <2>4, <3>1, <3>2, <3>3, <3>4 DEF PutNewCheckpoint, PutEffect
      <3>7. PrepareOwnsRun'
        BY <1>a, <2>4, <3>1, <3>2, <3>3, <3>4 DEF PutNewCheckpoint, PutEffect
      <3>8. OthersHaveCheckpoint'
        BY <1>a, <2>4, <3>1, <3>2, <3>3, <3>4 DEF PutNewCheckpoint, PutEffect
      <3>9. PlansWhole'
        BY <1>a, <2>4, <3>1, <3>2, <3>3, <3>4 DEF PutNewCheckpoint, PutEffect
      <3>10. QED
        BY <1>0, <3>5, <3>6, <3>7, <3>8, <3>9
    <2>5. QED
      BY <1>3, <2>1, <2>2, <2>3, <2>4 DEF Prepare
  <1>4. ASSUME NEW s \in Slots, PlanAll(s) PROVE DurableInv'
    <2> USE DEF sfnVars, Backed, Covers
    <2>1. CASE GetCompleted(s)
      BY <1>0, <1>a, <2>1 DEF GetCompleted, Readable
    <2>2. CASE GetCheckpoint(s)
      <3>1. run[s] \in Runs /\ ckpt[run[s]] # None
        BY <1>a, <2>2 DEF GetCheckpoint
      <3>2. PICK c \in Readable(run[s]) : loc' = [loc EXCEPT ![s] = Resumed(c, manifest[run[s]])]
        BY <2>2 DEF GetCheckpoint
      <3>3. Backed(run[s], c) /\ c \in Checkpoint
        BY <1>b, <3>1, <3>2
      <3>4. /\ loc'[s].next = c.next /\ loc'[s].count = c.count
            /\ loc'[s].status = "in_progress"
            /\ \A t \in Slots \ {s} : loc'[t] = loc[t]
        BY <1>a, <3>2, <3>3 DEF Resumed, Checkpoint
      <3>5. /\ pc' = [pc EXCEPT ![s] = "wave"]
            /\ UNCHANGED <<drawn, listings, manifest, chunkPlan, planFile, ckpt, older,
                           run, buf, payload, applied>>
        BY <2>2 DEF GetCheckpoint
      <3>6. CheckpointsBacked'
        BY <3>5 DEF Readable
      <3>7. LocalsBacked'
        BY <1>a, <3>3, <3>4, <3>5
      <3>8. PrepareOwnsRun'
        BY <1>a, <2>2, <3>4, <3>5 DEF GetCheckpoint
      <3>9. OthersHaveCheckpoint'
        BY <1>a, <3>1, <3>5
      <3>10. PlansWhole'
        BY <1>a, <2>2, <3>5 DEF GetCheckpoint
      <3>11. QED
        BY <1>0, <3>6, <3>7, <3>8, <3>9, <3>10
    <2>3. CASE PlanChunk(s)
      <3>1. /\ run[s] \in Runs /\ loc[s] \in Checkpoint
            /\ loc[s].next \in Chunks
        BY <1>a, <2>3, MaxChunksNat DEF PlanChunk, Checkpoint, HoldsCheckpoint, Chunks
      <3>2. PICK x \in ChunkRows :
               chunkPlan' = [chunkPlan EXCEPT ![run[s]][loc[s].next] = x]
        BY <2>3, <3>1 DEF PlanChunk, Checkpoint, ChunkRows
      <3>3. /\ pc' = [pc EXCEPT ![s] = "save_progress"]
            /\ UNCHANGED <<drawn, listings, manifest, ckpt, older, planFile, run, loc,
                           buf, payload, applied>>
        BY <2>3 DEF PlanChunk, slotVars
      <3>4. /\ chunkPlan'[run[s]][loc[s].next] # None
            /\ \A r \in Runs, i \in Chunks :
                  chunkPlan[r][i] # None => chunkPlan'[r][i] # None
        BY <1>a, <3>1, <3>2, ConstantsAssumption DEF Plans
      <3>5. CheckpointsBacked'
        BY <1>a, <2>3, <3>1, <3>2, <3>3, <3>4 DEF PlanChunk, Readable
      <3>6. LocalsBacked'
        BY <1>a, <2>3, <3>1, <3>2, <3>3, <3>4 DEF PlanChunk
      <3>7. PrepareOwnsRun'
        BY <1>a, <2>3, <3>1, <3>2, <3>3, <3>4 DEF PlanChunk
      <3>8. OthersHaveCheckpoint'
        BY <1>a, <2>3, <3>1, <3>2, <3>3, <3>4 DEF PlanChunk
      <3>9. PlansWhole'
        BY <1>a, <2>3, <3>1, <3>2, <3>3, <3>4 DEF PlanChunk
      <3>10. QED
        BY <1>0, <3>5, <3>6, <3>7, <3>8, <3>9
    <2>4. CASE SaveProgress(s)
      <3> DEFINE c == [loc[s] EXCEPT !.next = loc[s].next + 1]
      <3>1. run[s] \in Runs /\ loc[s] \in Checkpoint /\ loc[s].next < loc[s].count
        BY <1>0, <1>a, <2>4 DEF SaveProgress, HoldsCheckpoint, TypeInv, LocalsOK
      <3>2. /\ c \in Checkpoint /\ c # None
            /\ c.count = loc[s].count /\ c.next = loc[s].next + 1
            /\ c.status = loc[s].status
        BY <3>1, ConstantsAssumption DEF Checkpoint
      <3>3. /\ PutItem(run[s], older[run[s]], c)
            /\ loc' = [loc EXCEPT ![s] = c]
            /\ pc' = [pc EXCEPT ![s] = "wave"]
            /\ UNCHANGED <<drawn, listings, manifest, chunkPlan, planFile, run,
                           buf, payload, applied>>
        BY <2>4 DEF SaveProgress, SavedItem
      <3> HIDE DEF c
      <3>4. /\ Backed(run[s], loc[s]) /\ run[s] \in drawn
            /\ chunkPlan[run[s]][loc[s].next] # None
        BY <2>4, <3>1 DEF SaveProgress
      <3>5. Backed(run[s], c)
        BY <3>1, <3>2, <3>4 DEF Checkpoint, Chunks
      <3>6. PutEffect(run[s], c)
        BY <1>a, <3>1, <3>2, <3>3, PutItemReads
      <3>7. CheckpointsBacked'
        BY <3>1, <3>3, <3>5, <3>6 DEF PutEffect
      <3>8. LocalsBacked'
        BY <1>a, <2>4, <3>1, <3>2, <3>3, <3>4, <3>5, <3>6 DEF SaveProgress, PutEffect
      <3>9. PrepareOwnsRun'
        BY <1>a, <2>4, <3>1, <3>2, <3>3, <3>4, <3>5, <3>6 DEF SaveProgress, PutEffect
      <3>10. OthersHaveCheckpoint'
        BY <1>a, <2>4, <3>1, <3>2, <3>3, <3>4, <3>5, <3>6 DEF SaveProgress, PutEffect
      <3>11. PlansWhole'
        BY <1>a, <2>4, <3>1, <3>2, <3>3, <3>4, <3>5, <3>6 DEF SaveProgress, PutEffect
      <3>12. QED
        BY <1>0, <3>7, <3>8, <3>9, <3>10, <3>11
    <2>5. CASE PauseWave(s)
      <3>1. run[s] \in Runs /\ loc[s] \in Checkpoint /\ loc[s] # None
        BY <1>a, <2>5 DEF PauseWave, HoldsCheckpoint
      <3>2. /\ StillRead(s) \subseteq older[run[s]]
            /\ PutItem(run[s], StillRead(s), loc[s])
            /\ pc' = [pc EXCEPT ![s] = "return"]
            /\ UNCHANGED <<drawn, listings, manifest, chunkPlan, planFile, run, loc,
                           buf, payload, applied>>
        BY <2>5 DEF PauseWave, SavedItem, slotVars, StillRead
      <3>3. Backed(run[s], loc[s]) /\ run[s] \in drawn
        BY <1>a, <2>5, <3>1 DEF PauseWave, HoldsCheckpoint
      <3>4. PutEffect(run[s], loc[s])
        BY <1>a, <3>1, <3>2, PutItemReads
      <3>5. CheckpointsBacked'
        BY <3>1, <3>2, <3>3, <3>4 DEF PutEffect
      <3>6. LocalsBacked'
        BY <1>a, <2>5, <3>1, <3>2, <3>3, <3>4 DEF PauseWave, PutEffect
      <3>7. PrepareOwnsRun'
        BY <1>a, <2>5, <3>1, <3>2, <3>3, <3>4 DEF PauseWave, PutEffect
      <3>8. OthersHaveCheckpoint'
        BY <1>a, <2>5, <3>1, <3>2, <3>3, <3>4 DEF PauseWave, PutEffect
      <3>9. PlansWhole'
        BY <1>a, <2>5, <3>1, <3>2, <3>3, <3>4 DEF PauseWave, PutEffect
      <3>10. QED
        BY <1>0, <3>5, <3>6, <3>7, <3>8, <3>9
    <2>6. CASE BeginMerge(s)
      <3>1. loc[s] \in Checkpoint /\ loc[s].next = loc[s].count
        <4>1. loc[s] \in Checkpoint
          BY <1>a, <2>6 DEF BeginMerge, HoldsCheckpoint
        <4>2. loc[s].next <= loc[s].count /\ loc[s].next >= loc[s].count
          BY <2>6 DEF BeginMerge
        <4>3. QED
          BY <4>1, <4>2, MaxChunksNat DEF Checkpoint
      <3>2. /\ pc' = [pc EXCEPT ![s] = "merge"]
            /\ UNCHANGED <<sfnVars, storeVars, run, loc, applied>>
        BY <2>6 DEF BeginMerge
      <3>3. \A t \in Slots \ {s} : buf'[t] = buf[t]
        BY <1>a, <2>6 DEF BeginMerge
      <3>4. QED
        BY <1>0, <1>a, <2>6, <3>1, <3>2, <3>3 DEF BeginMerge, storeVars, Readable
    <2>7. CASE ReadChunkPlan(s)
      BY <1>0, <1>a, <2>7 DEF ReadChunkPlan, storeVars, Plans, Readable
    <2>8. CASE PutPlan(s)
      <3>1. /\ run[s] \in Runs /\ loc[s] \in Checkpoint /\ buf[s] \in Plans
            /\ Backed(run[s], loc[s]) /\ Covers(run[s], buf[s])
            /\ planFile' = [planFile EXCEPT ![run[s]] = buf[s]]
            /\ pc' = [pc EXCEPT ![s] = "save_final"]
            /\ UNCHANGED <<drawn, listings, manifest, chunkPlan, ckpt, older, run,
                           buf, payload, applied>>
        BY <1>0, <1>a, <2>8 DEF PutPlan, Merged, HoldsCheckpoint
      <3>2. /\ planFile'[run[s]] # None
            /\ \A r \in Runs : planFile[r] # None => planFile'[r] # None
        BY <1>a, <3>1, ConstantsAssumption
      <3>3. /\ loc'[s].count = loc[s].count
            /\ loc'[s].next = loc[s].count
            /\ \A t \in Slots \ {s} : loc'[t] = loc[t]
        BY <1>a, <2>8, <3>1, CompletedLocal
      <3>4. \A i \in Chunks : i < loc[s].count => chunkPlan[run[s]][i] # None
        BY <1>0, <1>a, <2>8, <3>1 DEF PutPlan, Checkpoint
      <3>5. CheckpointsBacked'
        BY <3>1, <3>2 DEF Readable
      <3>6. LocalsBacked'
        BY <1>0, <1>a, <2>8, <3>1, <3>2, <3>3, <3>4 DEF PutPlan
      <3>7. PrepareOwnsRun'
        BY <1>0, <1>a, <2>8, <3>1, <3>2, <3>3, <3>4 DEF PutPlan
      <3>8. OthersHaveCheckpoint'
        BY <1>0, <1>a, <2>8, <3>1, <3>2, <3>3, <3>4 DEF PutPlan
      <3>9. PlansWhole'
        BY <1>0, <1>a, <2>8, <3>1, <3>2, <3>3, <3>4 DEF PutPlan
      <3>10. QED
        BY <1>0, <3>5, <3>6, <3>7, <3>8, <3>9
    <2>9. CASE SaveFinal(s)
      <3>1. run[s] \in Runs /\ loc[s] \in Checkpoint /\ loc[s] # None
        BY <1>a, <2>9 DEF SaveFinal, HoldsCheckpoint
      <3>2. /\ older[run[s]] \subseteq older[run[s]]
            /\ PutItem(run[s], older[run[s]], loc[s])
            /\ pc' = [pc EXCEPT ![s] = "return"]
            /\ UNCHANGED <<drawn, listings, manifest, chunkPlan, planFile, run, loc,
                           buf, payload, applied>>
        BY <2>9 DEF SaveFinal, SavedItem, slotVars
      <3>3. Backed(run[s], loc[s]) /\ run[s] \in drawn
        BY <1>a, <2>9, <3>1 DEF SaveFinal, HoldsCheckpoint
      <3>4. PutEffect(run[s], loc[s])
        BY <1>a, <3>1, <3>2, PutItemReads
      <3>5. CheckpointsBacked'
        BY <3>1, <3>2, <3>3, <3>4 DEF PutEffect
      <3>6. LocalsBacked'
        BY <1>a, <2>9, <3>1, <3>2, <3>3, <3>4 DEF SaveFinal, PutEffect
      <3>7. PrepareOwnsRun'
        BY <1>a, <2>9, <3>1, <3>2, <3>3, <3>4 DEF SaveFinal, PutEffect
      <3>8. OthersHaveCheckpoint'
        BY <1>a, <2>9, <3>1, <3>2, <3>3, <3>4 DEF SaveFinal, PutEffect
      <3>9. PlansWhole'
        BY <1>a, <2>9, <3>1, <3>2, <3>3, <3>4 DEF SaveFinal, PutEffect
      <3>10. QED
        BY <1>0, <3>5, <3>6, <3>7, <3>8, <3>9
    <2>10. QED
      BY <1>4, <2>1, <2>2, <2>3, <2>4, <2>5, <2>6, <2>7, <2>8, <2>9 DEF PlanAll
  <1>5. ASSUME NEW s \in Slots, Apply(s) PROVE DurableInv'
    <2> USE DEF sfnVars, storeVars, Backed, Covers, Readable
    <2>1. CASE LoadPlan(s)
      BY <1>0, <1>a, <2>1 DEF LoadPlan
    <2>2. CASE SubmitPlan(s)
      BY <1>0, <1>a, <2>2 DEF SubmitPlan, slotVars
    <2>3. QED
      BY <1>5, <2>1, <2>2 DEF Apply
  <1>6. ASSUME NEW s \in Slots, Return(s) PROVE DurableInv'
    BY <1>0, <1>a, <1>6 DEF Return, Vacate, sfnVars, storeVars, RunContext, Backed, Covers, Readable
  <1>7. ASSUME NEW s \in Slots, Raise(s) PROVE DurableInv'
    BY <1>0, <1>a, <1>7 DEF Raise, Vacate, storeVars, Backed, Covers, Readable
  <1>8. ASSUME NEW s \in Slots, LoseInvocation(s) PROVE DurableInv'
    <2>1. CASE Vacate(s)
      BY <1>0, <1>a, <1>8, <2>1 DEF LoseInvocation, Vacate, storeVars, Backed, Covers, Readable
    <2>2. CASE UNCHANGED <<pc, slotVars>>
      BY <1>0, <1>a, <1>8, <2>2 DEF LoseInvocation, storeVars, slotVars, Backed, Covers, Readable
    <2>3. QED
      BY <1>8, <2>1, <2>2 DEF LoseInvocation
  <1>9. CASE UNCHANGED vars
    BY <1>0, <1>9 DEF vars, sfnVars, storeVars, slotVars, Backed, Covers, Readable
  <1>10. QED
    BY <1>1, <1>2, <1>3, <1>4, <1>5, <1>6, <1>7, <1>8, <1>9 DEF Next, Handler, Ended

\* Checkpoints, handlers and plans are always backed by what is in S3.
THEOREM Durable == Spec => []DurableInv
  BY InitDurable, DurableStep, PTL DEF Spec

\* However an execution crashes, retries or overlaps with its zombies, no
\* checkpoint is ahead of the artifacts it vouches for.
THEOREM CheckpointNeverAhead == Spec => []CheckpointBehindArtifacts
  <1>1. DurableInv => CheckpointBehindArtifacts
    BY DEF DurableInv, CheckpointsBacked, Backed, CheckpointBehindArtifacts, Readable
  <1>2. QED
    BY <1>1, Durable, PTL

\* What reaches CardTrader was always planned from every chunk of the manifest.
THEOREM AppliedIsWhole == Spec => []AppliedPlanIsWhole
  <1>1. ASSUME DurableInv PROVE AppliedPlanIsWhole
    <2> SUFFICES ASSUME NEW a \in applied
                 PROVE  manifest[a.run] # None /\ Covers(a.run, a.plan)
      BY DEF AppliedPlanIsWhole
    <2>1. /\ a.run \in Runs /\ ckpt[a.run] # None /\ Covers(a.run, a.plan)
          /\ ckpt \in [Runs -> Checkpoint \cup {None}]
      BY <1>1 DEF DurableInv, PlansWhole, TypeInv, TypeOK
    <2>2. manifest[a.run] = ckpt[a.run].count
      BY <1>1, <2>1 DEF DurableInv, CheckpointsBacked, Backed, Readable
    <2>3. ckpt[a.run].count \in Nat
      BY <2>1, MaxChunksNat DEF Checkpoint
    <2>4. QED
      BY <2>1, <2>2, <2>3, ConstantsAssumption
  <1>2. QED
    BY <1>1, Durable, PTL

-------------------------------------------------------------------------------
(***************************************************************************)
(* One weekly discount for the whole of a run's plan                       *)
(***************************************************************************)

\* The empty plan is priced at any discount.
LEMMA NoPlanPricedAt == \A pct : PricedAt(NoPlan, pct)
  BY DEF PricedAt, NoPlan

\* A new execution has priced nothing.
LEMMA InitDiscount == Init => DiscountInv
  <1> SUFFICES ASSUME Init PROVE DiscountInv
    OBVIOUS
  <1>1. DurableInv
    BY InitDurable
  <1>2. DiscountKept
    BY DEF Init, DiscountKept, PlanPCs
  <1>3. QED
    BY <1>1, <1>2 DEF DiscountInv

\* Every wave prices at the discount of the checkpoint it resumed from, every
\* save puts that discount back, and the merge keeps it.
LEMMA DiscountStep == DiscountInv /\ [Next]_vars => DiscountInv'
  <1> SUFFICES ASSUME DiscountInv, [Next]_vars PROVE DiscountKept'
    BY DurableStep DEF DiscountInv
  <1> USE DEF DiscountKept, PlanPCs, PreparePCs, ApplyPCs
  <1>0. DurableInv /\ TypeInv /\ TypeInv' /\ DiscountKept
    BY TypeStep DEF DiscountInv, DurableInv
  <1>a. /\ run \in [Slots -> Runs \cup {None}] /\ pc \in [Slots -> PCs]
        /\ loc \in [Slots -> Checkpoint \cup {None}]
        /\ ckpt \in [Runs -> Checkpoint \cup {None}]
        /\ older \in [Runs -> SUBSET Checkpoint]
        /\ chunkPlan \in [Runs -> Plans]
        /\ planFile \in [Runs -> Plans \cup {None}]
        /\ buf \in [Slots -> Plans]
        /\ \A s \in Slots : pc[s] # "idle" => run[s] \in Runs
        /\ \A s \in Slots : pc[s] \in HoldsCheckpoint => loc[s] # None
    BY <1>0 DEF TypeInv, TypeOK, LocalsOK
  <1>b. /\ \A s \in Slots : pc[s] \in PlanPCs => ckpt[run[s]] # None
        /\ \A s \in Slots : pc[s] \in PreparePCs => ckpt[run[s]] = None
        /\ \A r \in Runs : planFile[r] # None => ckpt[r] # None
        /\ \A r \in Runs : ckpt[r] = None => older[r] = {}
    BY <1>0 DEF DurableInv, OthersHaveCheckpoint, PrepareOwnsRun, PlansWhole
  <1>1. CASE PlanMore
    BY <1>0, <1>1 DEF PlanMore, storeVars, slotVars, PricedAt
  <1>2. ASSUME NEW s \in Slots, Start(s) PROVE DiscountKept'
    BY <1>0, <1>a, <1>2
    DEF Start, StartPrepare, StartPlanAll, StartApply, Invoke, storeVars, PricedAt
  <1>3. ASSUME NEW s \in Slots, Prepare(s) PROVE DiscountKept'
    <2>1. CASE Export(s) \/ PutListings(s) \/ PutManifest(s)
      BY <1>0, <1>a, <2>1
      DEF Export, PutListings, PutManifest, storeVars, slotVars, PricedAt
    <2>2. CASE PutNewCheckpoint(s)
      <3>1. run[s] \in Runs /\ loc[s] \in Checkpoint /\ ckpt[run[s]] = None
        BY <1>a, <1>b, <2>2 DEF PutNewCheckpoint, HoldsCheckpoint
      <3>2. /\ PutItem(run[s], older[run[s]], loc[s])
            /\ pc' = [pc EXCEPT ![s] = "return"]
            /\ UNCHANGED <<chunkPlan, planFile, run, loc, buf>>
        BY <2>2 DEF PutNewCheckpoint, slotVars
      <3>3. chunkPlan[run[s]] = NoPlan /\ planFile[run[s]] = None
        BY <1>0, <1>b, <3>1
      <3>4. PricedAt(chunkPlan[run[s]], loc[s].pct)
        BY <3>3, NoPlanPricedAt
      <3>5. \A t \in Slots : pc'[t] \in PlanPCs => run[t] \in Runs /\ run[t] # run[s]
        BY <1>a, <1>b, <3>1, <3>2
      <3>9. PutEffect(run[s], loc[s])
        BY <1>a, <3>1, <3>2, PutItemReads
      <3>6. /\ ckpt'[run[s]] = loc[s] /\ loc[s] # None
            /\ \A r \in Runs \ {run[s]} : ckpt'[r] = ckpt[r] /\ older'[r] = older[r]
        BY <3>1, <3>9, CheckpointIsSome DEF PutEffect
      <3>7. older'[run[s]] = {}
        BY <1>a, <1>b, <3>1, <3>2 DEF PutItem
      <3>8. QED
        BY <1>0, <1>a, <3>1, <3>2, <3>3, <3>4, <3>5, <3>6, <3>7 DEF PricedAt
    <2>3. QED
      BY <1>3, <2>1, <2>2 DEF Prepare
  <1>4. ASSUME NEW s \in Slots, PlanAll(s) PROVE DiscountKept'
    <2>1. CASE GetCompleted(s)
      BY <1>0, <1>a, <2>1 DEF GetCompleted, PricedAt
    <2>2. CASE GetCheckpoint(s)
      <3>1. /\ run[s] \in Runs /\ ckpt[run[s]] # None
            /\ pc' = [pc EXCEPT ![s] = "wave"]
            /\ UNCHANGED <<chunkPlan, planFile, ckpt, older, run, buf>>
        BY <1>a, <1>b, <2>2 DEF GetCheckpoint
      <3>2. PICK c \in Readable(run[s]) :
               loc' = [loc EXCEPT ![s] = Resumed(c, manifest[run[s]])]
        BY <2>2 DEF GetCheckpoint
      <3>3. c \in Checkpoint /\ c.pct = ckpt[run[s]].pct
        BY <1>0, <1>a, <3>1, <3>2, ReadableItems DEF Readable
      <3>4. loc'[s].pct = ckpt[run[s]].pct
        BY <1>a, <3>2, <3>3 DEF Resumed, Checkpoint
      <3>5. \A t \in Slots \ {s} : loc'[t] = loc[t]
        BY <1>a, <3>2
      <3>6. QED
        BY <1>0, <1>a, <3>1, <3>4, <3>5 DEF PricedAt
    <2>3. CASE PlanChunk(s)
      <3>1. /\ run[s] \in Runs /\ loc[s] \in Checkpoint /\ ckpt[run[s]] # None
            /\ loc[s].pct = ckpt[run[s]].pct
            /\ pc' = [pc EXCEPT ![s] = "save_progress"]
            /\ UNCHANGED <<planFile, ckpt, older, run, loc, buf>>
        BY <1>0, <1>a, <1>b, <2>3 DEF PlanChunk, slotVars, HoldsCheckpoint
      <3>2. PICK rows \in Rows :
               chunkPlan' = [chunkPlan EXCEPT ![run[s]][loc[s].next] =
                                             [rows |-> rows, pct |-> loc[s].pct]]
        BY <2>3 DEF PlanChunk
      <3>3. \A r \in Runs : r # run[s] => chunkPlan'[r] = chunkPlan[r]
        BY <1>a, <3>1, <3>2
      <3>4. \A i \in Chunks : chunkPlan'[run[s]][i] = chunkPlan[run[s]][i]
                              \/ chunkPlan'[run[s]][i].pct = loc[s].pct
        BY <1>a, <3>1, <3>2 DEF Plans
      <3>5. PricedAt(chunkPlan'[run[s]], ckpt[run[s]].pct)
        BY <1>0, <3>1, <3>4 DEF PricedAt
      <3>6. QED
        BY <1>0, <1>a, <3>1, <3>3, <3>5 DEF PricedAt
    <2>4. CASE SaveProgress(s) \/ PauseWave(s) \/ SaveFinal(s)
      <3>1. /\ run[s] \in Runs /\ loc[s] \in Checkpoint /\ ckpt[run[s]] # None
            /\ loc[s].pct = ckpt[run[s]].pct
        BY <1>0, <1>a, <1>b, <2>4 DEF SaveProgress, PauseWave, SaveFinal, HoldsCheckpoint
      <3>2. PICK c \in {loc[s], [loc[s] EXCEPT !.next = loc[s].next + 1]},
                 where \in {"wave", "return"} :
               /\ \E kept \in SUBSET older[run[s]] : PutItem(run[s], kept, c)
               /\ loc' = [loc EXCEPT ![s] = c]
               /\ pc' = [pc EXCEPT ![s] = where]
               /\ c = loc[s] \/ SaveProgress(s)
        <4>1. CASE SaveProgress(s)
          BY <4>1 DEF SaveProgress, SavedItem
        <4>2. CASE PauseWave(s) \/ SaveFinal(s)
          <5>1. /\ \E kept \in SUBSET older[run[s]] : PutItem(run[s], kept, loc[s])
                /\ pc' = [pc EXCEPT ![s] = "return"]
                /\ loc' = loc
            BY <4>2 DEF PauseWave, SaveFinal, SavedItem, StillRead, slotVars
          <5>2. loc = [loc EXCEPT ![s] = loc[s]]
            BY <1>a
          <5>3. QED
            BY <5>1, <5>2
        <4>3. QED
          BY <2>4, <4>1, <4>2
      <3>3. UNCHANGED <<chunkPlan, planFile, run, buf>>
        BY <2>4 DEF SaveProgress, PauseWave, SaveFinal, slotVars
      <3>4. c \in Checkpoint /\ c.pct = ckpt[run[s]].pct
        <4>1. CASE c = loc[s]
          BY <3>1, <4>1
        <4>2. CASE c = [loc[s] EXCEPT !.next = loc[s].next + 1] /\ SaveProgress(s)
          <5>1. loc[s].next < loc[s].count
            BY <1>0, <4>2 DEF SaveProgress, TypeInv, LocalsOK
          <5>2. c \in Checkpoint
            BY <3>1, <4>2, <5>1, MaxChunksNat DEF Checkpoint
          <5>3. c.pct = loc[s].pct
            BY <3>1, <4>2 DEF Checkpoint
          <5>4. QED
            BY <3>1, <5>2, <5>3
        <4>3. QED
          BY <3>2, <4>1, <4>2
      <3>a. PutEffect(run[s], c)
        BY <1>a, <3>1, <3>2, <3>4, PutItemReads
      <3>5. \A r \in Runs : ckpt[r] # None => ckpt'[r].pct = ckpt[r].pct
        BY <3>1, <3>4, <3>a DEF PutEffect
      <3>6. \A r \in Runs : ckpt'[r] = None => ckpt[r] = None
        BY <3>a DEF PutEffect
      <3>7. \A r \in Runs : ckpt'[r] # None => ckpt[r] # None
        BY <3>1, <3>a DEF PutEffect
      <3>b. \A r \in Runs : ckpt[r] # None => \A d \in older'[r] : d.pct = ckpt[r].pct
        BY <1>0, <3>1, <3>a DEF PutEffect, Readable
      <3>8. \A t \in Slots : pc'[t] \in PlanPCs \ {"get"} =>
               ckpt[run[t]] # None /\ run[t] \in Runs /\ loc'[t].pct = ckpt[run[t]].pct
        BY <1>0, <1>a, <1>b, <3>1, <3>2, <3>4
      <3>9. \A t \in Slots : pc'[t] = "merge" => pc[t] = "merge"
        BY <1>a, <3>2
      <3>10. QED
        BY <1>0, <1>a, <1>b, <3>3, <3>5, <3>6, <3>7, <3>b, <3>8, <3>9 DEF PricedAt
    <2>5. CASE BeginMerge(s)
      <3>1. /\ buf' = [buf EXCEPT ![s] = NoPlan]
            /\ pc[s] = "wave" /\ pc' = [pc EXCEPT ![s] = "merge"]
            /\ UNCHANGED <<chunkPlan, planFile, ckpt, older, run, loc>>
        BY <2>5 DEF BeginMerge, storeVars
      <3>2. PricedAt(buf'[s], ckpt[run[s]].pct)
        BY <1>a, <3>1, NoPlanPricedAt
      <3>3. QED
        BY <1>0, <1>a, <3>1, <3>2 DEF PricedAt
    <2>6. CASE ReadChunkPlan(s)
      <3>1. PICK i \in Chunks : /\ chunkPlan[run[s]][i] # None
                                /\ buf' = [buf EXCEPT ![s][i] = chunkPlan[run[s]][i]]
        BY <2>6 DEF ReadChunkPlan
      <3>2. /\ run[s] \in Runs /\ pc[s] = "merge" /\ ckpt[run[s]] # None
            /\ UNCHANGED <<pc, chunkPlan, planFile, ckpt, older, run, loc>>
        BY <1>a, <1>b, <2>6 DEF ReadChunkPlan, storeVars
      <3>3. chunkPlan[run[s]][i].pct = ckpt[run[s]].pct
        BY <1>0, <3>1, <3>2 DEF PricedAt
      <3>4. PricedAt(buf'[s], ckpt[run[s]].pct)
        BY <1>0, <1>a, <3>1, <3>2, <3>3 DEF PricedAt, Plans
      <3>5. QED
        BY <1>0, <1>a, <3>1, <3>2, <3>4 DEF PricedAt
    <2>7. CASE PutPlan(s)
      <3>1. /\ run[s] \in Runs /\ loc[s] \in Checkpoint /\ ckpt[run[s]] # None
            /\ loc[s].pct = ckpt[run[s]].pct /\ PricedAt(buf[s], ckpt[run[s]].pct)
        BY <1>0, <1>a, <1>b, <2>7 DEF PutPlan, HoldsCheckpoint
      <3>2. /\ planFile' = [planFile EXCEPT ![run[s]] = buf[s]]
            /\ pc' = [pc EXCEPT ![s] = "save_final"]
            /\ UNCHANGED <<chunkPlan, ckpt, older, run, buf>>
        BY <2>7 DEF PutPlan
      <3>3. loc'[s].pct = loc[s].pct /\ \A t \in Slots \ {s} : loc'[t] = loc[t]
        BY <1>a, <2>7, <3>1, CompletedLocal
      <3>4. QED
        BY <1>0, <1>a, <3>1, <3>2, <3>3 DEF PricedAt
    <2>8. QED
      BY <1>4, <2>1, <2>2, <2>3, <2>4, <2>5, <2>6, <2>7 DEF PlanAll
  <1>5. ASSUME NEW s \in Slots, Apply(s) PROVE DiscountKept'
    <2>1. UNCHANGED <<chunkPlan, planFile, ckpt, older, run, loc>>
      BY <1>5 DEF Apply, LoadPlan, SubmitPlan, storeVars, slotVars
    <2>2. \A t \in Slots : pc'[t] \in PlanPCs =>
             pc'[t] = pc[t] /\ buf'[t] = buf[t]
      BY <1>a, <1>5 DEF Apply, LoadPlan, SubmitPlan, slotVars
    <2>3. QED
      BY <1>0, <2>1, <2>2 DEF PricedAt
  <1>6. ASSUME NEW s \in Slots, Vacate(s), UNCHANGED storeVars PROVE DiscountKept'
    <2>1. UNCHANGED <<chunkPlan, planFile, ckpt, older>>
      BY <1>6 DEF storeVars
    <2>2. \A t \in Slots : pc'[t] # "idle" =>
             pc'[t] = pc[t] /\ run'[t] = run[t] /\ loc'[t] = loc[t] /\ buf'[t] = buf[t]
      BY <1>a, <1>6 DEF Vacate
    <2>3. QED
      BY <1>0, <2>1, <2>2 DEF PricedAt
  <1>7. CASE UNCHANGED <<storeVars, pc, slotVars>>
    BY <1>0, <1>7 DEF storeVars, slotVars, PricedAt
  <1>8. QED
    BY <1>1, <1>2, <1>3, <1>4, <1>5, <1>6, <1>7
    DEF Next, Handler, Return, Raise, LoseInvocation, Ended, vars

\* However many waves, crashes, retries and zombies priced its chunks, a plan
\* is priced under the one discount that Prepare stored.
THEOREM OneDiscount == Spec => []OneDiscountPerPlan
  <1>1. ASSUME DiscountInv PROVE OneDiscountPerPlan
    <2>1. \A r \in Runs : planFile[r] # None => ckpt[r] # None
      BY <1>1 DEF DiscountInv, DurableInv, PlansWhole
    <2>2. \A r \in Runs : ckpt[r] # None /\ planFile[r] # None =>
                             PricedAt(planFile[r], ckpt[r].pct)
      BY <1>1 DEF DiscountInv, DiscountKept
    <2>3. QED
      BY <2>1, <2>2 DEF PricedAt, OneDiscountPerPlan
  <1>2. QED
    BY <1>1, InitDiscount, DiscountStep, PTL DEF Spec

-------------------------------------------------------------------------------
(***************************************************************************)
(* A LIVE execution never ends as a dry run                                *)
(***************************************************************************)

\* A new execution has chosen nothing.
LEMMA InitChoice == Init => ChoiceInv
  <1> SUFFICES ASSUME Init PROVE ChoiceInv
    OBVIOUS
  <1>1. TypeInv
    BY InitType
  <1>2. QED
    BY <1>1
    DEF Init, ChoiceInv, ModeKept, VerdictKnown, AnswerDecides, LiveNeverFinalizes,
        Readable

\* The mode travels with checkpoint and payload, and PlanAll never answers
\* "no more" without a verdict.
LEMMA ChoiceStep == ChoiceInv /\ [Next]_vars => ChoiceInv'
  <1> SUFFICES ASSUME ChoiceInv, [Next]_vars
               PROVE  ModeKept' /\ VerdictKnown' /\ AnswerDecides' /\ LiveNeverFinalizes'
    BY TypeStep DEF ChoiceInv
  <1> USE DEF ModeKept, VerdictKnown, AnswerDecides, LiveNeverFinalizes
  <1> USE DEF PlanPCs, PreparePCs, ApplyPCs
  <1> DEFINE Kept == ModeKept' /\ VerdictKnown' /\ AnswerDecides' /\ LiveNeverFinalizes'
  <1>0. TypeInv /\ TypeInv' /\ ModeKept /\ VerdictKnown /\ AnswerDecides /\ LiveNeverFinalizes
    BY TypeStep DEF ChoiceInv
  <1>a. /\ run \in [Slots -> Runs \cup {None}] /\ pc \in [Slots -> PCs]
        /\ loc \in [Slots -> Checkpoint \cup {None}]
        /\ ckpt \in [Runs -> Checkpoint \cup {None}]
        /\ older \in [Runs -> SUBSET Checkpoint]
        /\ buf \in [Slots -> Plans]
        /\ \A s \in Slots : pc[s] # "idle" => run[s] \in Runs
        /\ \A s \in Slots : pc[s] \in HoldsCheckpoint => loc[s] # None
        /\ \A s \in Slots : task = s => sfn \in TaskStates
    BY <1>0, ConstantsAssumption DEF TypeInv, TypeOK, LocalsOK, TaskOK
  <1>1. CASE PlanMore
    <2>1. /\ sfn = "PlanMore" /\ payload \in Payload /\ payload.mode = mode
          /\ ~payload.more => payload.safety # None
      BY <1>0, <1>1 DEF PlanMore, TypeInv, TypeOK, TaskOK
    <2>2. sfn' = Choice /\ UNCHANGED <<mode, task, payload, ckpt, older, pc, loc>>
      BY <1>1 DEF PlanMore, storeVars, slotVars
    <2>3. Choice = "Finalize" => mode = "DRY_RUN"
      BY <1>0, <2>1 DEF Choice, Payload, Modes, TypeInv, TypeOK
    <2>4. Choice # "PlanMore"
      BY DEF Choice
    <2>5. \A s \in Slots : task # s
      BY <1>a, <2>1 DEF TaskStates
    <2>6. QED
      BY <1>0, <2>2, <2>3, <2>4, <2>5 DEF Readable
  <1>2. ASSUME NEW s \in Slots, Start(s) PROVE Kept
    <2>1. /\ task' = s /\ pc'[s] \in {"export", "get", "load"}
          /\ \A t \in Slots \ {s} : pc'[t] = pc[t]
          /\ UNCHANGED <<mode, sfn, payload, ckpt, older, loc>>
      BY <1>a, <1>2 DEF Start, StartPrepare, StartPlanAll, StartApply, Invoke, storeVars
    <2>2. QED
      BY <1>0, <2>1 DEF Readable
  <1>3. ASSUME NEW s \in Slots, Prepare(s) PROVE Kept
    <2>1. CASE Export(s)
      <3>1. PICK n \in 1 .. MaxChunks, d \in Discounts :
               loc' = [loc EXCEPT ![s] = NewCheckpoint(mode, n, d)]
        BY <2>1 DEF Export
      <3>2. /\ loc'[s].mode = mode /\ loc'[s].status = "pending"
            /\ \A t \in Slots \ {s} : loc'[t] = loc[t]
        BY <1>a, <3>1 DEF NewCheckpoint
      <3>3. /\ pc'[s] = "put_listings" /\ \A t \in Slots \ {s} : pc'[t] = pc[t]
            /\ UNCHANGED <<mode, sfn, task, payload, ckpt, older>>
        BY <1>a, <2>1 DEF Export, sfnVars, storeVars
      <3>4. QED
        BY <1>0, <3>2, <3>3 DEF Readable
    <2>2. CASE PutListings(s) \/ PutManifest(s)
      <3>1. /\ pc'[s] \in {"put_manifest", "put_checkpoint"}
            /\ \A t \in Slots \ {s} : pc'[t] = pc[t]
            /\ UNCHANGED <<mode, sfn, task, payload, ckpt, older, loc>>
        BY <1>a, <2>2 DEF PutListings, PutManifest, sfnVars, slotVars
      <3>2. QED
        BY <1>0, <3>1 DEF Readable
    <2>3. CASE PutNewCheckpoint(s)
      <3>1. /\ run[s] \in Runs /\ loc[s] # None /\ pc[s] = "put_checkpoint"
            /\ loc[s] \in Checkpoint /\ PutItem(run[s], older[run[s]], loc[s])
            /\ pc' = [pc EXCEPT ![s] = "return"]
            /\ UNCHANGED <<mode, sfn, task, payload, loc>>
        BY <1>a, <2>3 DEF PutNewCheckpoint, HoldsCheckpoint, sfnVars, slotVars
      <3>2. ~(task = s /\ sfn = "PlanAll")
        BY <1>0, <3>1 DEF TypeInv, TaskOK
      <3>3. PutEffect(run[s], loc[s])
        BY <1>a, <3>1, PutItemReads
      <3>4. QED
        BY <1>0, <1>a, <3>1, <3>2, <3>3 DEF PutEffect
    <2>4. QED
      BY <1>3, <2>1, <2>2, <2>3 DEF Prepare
  <1>4. ASSUME NEW s \in Slots, PlanAll(s) PROVE Kept
    <2>0. /\ run[s] \in Runs
          /\ UNCHANGED <<mode, sfn, task, payload, run>>
      BY <1>a, <1>4
      DEF PlanAll, GetCompleted, GetCheckpoint, PlanChunk, SaveProgress, PauseWave,
          BeginMerge, ReadChunkPlan, PutPlan, SaveFinal, sfnVars, slotVars
    <2>1. CASE GetCompleted(s)
      <3>1. PICK c \in Readable(run[s]) :
               c.status = "completed" /\ loc' = [loc EXCEPT ![s] = c]
        BY <2>1 DEF GetCompleted
      <3>2. pc' = [pc EXCEPT ![s] = "return"] /\ UNCHANGED <<ckpt, older>>
        BY <2>1 DEF GetCompleted
      <3>3. c.mode = mode /\ c.safety # None
        BY <1>0, <2>0, <3>1
      <3>4. loc'[s] = c /\ \A t \in Slots \ {s} : loc'[t] = loc[t]
        BY <1>a, <3>1
      <3>5. QED
        BY <1>0, <1>a, <2>0, <3>1, <3>2, <3>3, <3>4 DEF Readable
    <2>2. CASE GetCheckpoint(s)
      <3>1. PICK c \in Readable(run[s]) :
               loc' = [loc EXCEPT ![s] = Resumed(c, manifest[run[s]])]
        BY <2>2 DEF GetCheckpoint
      <3>2. c \in Checkpoint /\ c.mode = mode
        BY <1>0, <1>a, <2>0, <3>1, ReadableItems
      <3>3. /\ loc'[s].mode = mode /\ loc'[s].status = "in_progress"
            /\ \A t \in Slots \ {s} : loc'[t] = loc[t]
        BY <1>a, <3>1, <3>2 DEF Resumed, Checkpoint
      <3>4. pc' = [pc EXCEPT ![s] = "wave"] /\ UNCHANGED <<ckpt, older>>
        BY <2>2 DEF GetCheckpoint
      <3>5. QED
        BY <1>0, <1>a, <2>0, <3>3, <3>4 DEF Readable
    <2>3. CASE PlanChunk(s) \/ BeginMerge(s) \/ ReadChunkPlan(s)
      <3>1. /\ pc'[s] \in {"save_progress", "merge"}
            /\ \A t \in Slots \ {s} : pc'[t] = pc[t]
            /\ UNCHANGED <<ckpt, older, loc>>
        BY <1>a, <2>3 DEF PlanChunk, BeginMerge, ReadChunkPlan, storeVars, slotVars
      <3>2. QED
        BY <1>0, <2>0, <3>1 DEF Readable
    <2>4. CASE SaveProgress(s)
      <3> DEFINE c == [loc[s] EXCEPT !.next = loc[s].next + 1]
      <3>1. loc[s] \in Checkpoint /\ loc[s] # None /\ loc[s].next < loc[s].count
        BY <1>0, <1>a, <2>4 DEF SaveProgress, HoldsCheckpoint, TypeInv, LocalsOK
      <3>2. /\ c.mode = loc[s].mode /\ c.status = loc[s].status /\ c.safety = loc[s].safety
            /\ c \in Checkpoint
        BY <3>1, MaxChunksNat DEF Checkpoint
      <3>3. /\ PutItem(run[s], older[run[s]], c)
            /\ loc' = [loc EXCEPT ![s] = c]
            /\ pc' = [pc EXCEPT ![s] = "wave"]
        BY <2>4 DEF SaveProgress, SavedItem
      <3> HIDE DEF c
      <3>4. PutEffect(run[s], c)
        BY <1>a, <2>0, <3>2, <3>3, PutItemReads
      <3>5. QED
        BY <1>0, <1>a, <2>0, <3>1, <3>2, <3>3, <3>4 DEF PutEffect
    <2>5. CASE PauseWave(s)
      <3>1. /\ loc[s] # None /\ loc[s] \in Checkpoint /\ loc[s].next < loc[s].count
            /\ StillRead(s) \subseteq older[run[s]]
            /\ PutItem(run[s], StillRead(s), loc[s])
            /\ pc' = [pc EXCEPT ![s] = "return"] /\ loc' = loc
        BY <1>a, <2>5 DEF PauseWave, SavedItem, HoldsCheckpoint, StillRead, slotVars
      <3>2. (loc[s].status = "completed" \/ More(loc[s]))'
        BY <3>1 DEF More
      <3>3. PutEffect(run[s], loc[s])
        BY <1>a, <2>0, <3>1, PutItemReads
      <3>4. QED
        BY <1>0, <1>a, <2>0, <3>1, <3>2, <3>3 DEF PutEffect
    <2>6. CASE PutPlan(s)
      <3>1. buf[s] \in Plans /\ SafePlan(buf[s]) # None
        BY <1>a, ConstantsAssumption
      <3>2. loc[s] \in Checkpoint /\ loc[s] # None
        BY <1>a, <2>6 DEF PutPlan, HoldsCheckpoint
      <3>3. /\ loc'[s].mode = loc[s].mode /\ loc'[s].status = "completed"
            /\ loc'[s].safety # None
            /\ \A t \in Slots \ {s} : loc'[t] = loc[t]
        BY <1>a, <2>6, <3>1, <3>2, CompletedLocal
      <3>4. /\ pc'[s] = "save_final" /\ \A t \in Slots \ {s} : pc'[t] = pc[t]
            /\ UNCHANGED <<ckpt, older>>
        BY <1>a, <2>6 DEF PutPlan
      <3>5. QED
        BY <1>0, <1>a, <2>0, <3>2, <3>3, <3>4 DEF Readable
    <2>7. CASE SaveFinal(s)
      <3>1. /\ loc[s] # None /\ loc[s] \in Checkpoint /\ loc[s].status = "completed"
            /\ PutItem(run[s], older[run[s]], loc[s])
            /\ pc' = [pc EXCEPT ![s] = "return"] /\ loc' = loc
        BY <1>0, <1>a, <2>7 DEF SaveFinal, SavedItem, HoldsCheckpoint, slotVars
      <3>2. PutEffect(run[s], loc[s])
        BY <1>a, <2>0, <3>1, PutItemReads
      <3>3. QED
        BY <1>0, <1>a, <2>0, <3>1, <3>2 DEF PutEffect
    <2>8. QED
      BY <1>4, <2>1, <2>2, <2>3, <2>4, <2>5, <2>6, <2>7 DEF PlanAll
  <1>5. ASSUME NEW s \in Slots, Apply(s) PROVE Kept
    <2>1. /\ pc[s] \in {"load", "submit"} /\ pc'[s] \in {"submit", "return"}
          /\ \A t \in Slots \ {s} : pc'[t] = pc[t]
          /\ UNCHANGED <<mode, sfn, task, payload, ckpt, older, loc>>
      BY <1>a, <1>5 DEF Apply, LoadPlan, SubmitPlan, sfnVars, storeVars, slotVars
    <2>2. ~(task = s /\ sfn = "PlanAll")
      BY <1>0, <2>1 DEF TypeInv, TaskOK
    <2>3. QED
      BY <1>0, <2>1, <2>2 DEF Readable
  <1>6. ASSUME NEW s \in Slots, Vacate(s), UNCHANGED <<mode, ckpt, older>> PROVE
           /\ \A r \in Runs : \A c \in Readable(r)' : c.mode = mode'
           /\ \A t \in Slots : loc'[t] # None => loc'[t].mode = mode'
           /\ VerdictKnown'
           /\ \A t \in Slots : pc'[t] = "return" => t # s /\ pc[t] = "return" /\ loc'[t] = loc[t]
    <2>1. /\ pc'[s] = "idle" /\ loc'[s] = None
          /\ \A t \in Slots \ {s} : pc'[t] = pc[t] /\ loc'[t] = loc[t]
      BY <1>a, <1>6 DEF Vacate
    <2>2. QED
      BY <1>0, <1>6, <2>1 DEF Readable
  <1>7. ASSUME NEW s \in Slots, Return(s) PROVE Kept
    <2>1. Vacate(s) /\ pc[s] = "return" /\ UNCHANGED <<mode, ckpt, older>>
      BY <1>7 DEF Return, sfnVars, storeVars
    <2>2. CASE task # s
      BY <1>0, <1>6, <1>7, <2>1, <2>2 DEF Return, sfnVars
    <2>3. CASE task = s /\ sfn = "Prepare"
      <3>1. loc[s] # None /\ loc[s].mode = mode
        BY <1>0, <2>1, <2>3 DEF TypeInv, TaskOK
      <3>2. /\ sfn' = "PlanAll" /\ payload' = RunContext(s) /\ task' = None
        BY <1>7, <2>3 DEF Return
      <3>3. payload'.mode = mode
        BY <3>1, <3>2 DEF RunContext
      <3>4. \A t \in Slots : task' # t
        BY <3>2, ConstantsAssumption
      <3>5. QED
        BY <1>6, <2>1, <3>2, <3>3, <3>4
    <2>4. CASE task = s /\ sfn = "PlanAll"
      <3>1. /\ loc[s] # None /\ loc[s].mode = mode
            /\ loc[s].status = "completed" \/ More(loc[s])
        BY <1>0, <2>1, <2>4 DEF TypeInv, TaskOK
      <3>2. /\ sfn' = "PlanMore" /\ payload' = RunContext(s) /\ task' = None
        BY <1>7, <2>4 DEF Return
      <3>3. /\ payload'.mode = mode
            /\ ~payload'.more => payload'.safety # None
        BY <1>0, <3>1, <3>2 DEF RunContext
      <3>4. \A t \in Slots : task' # t
        BY <3>2, ConstantsAssumption
      <3>5. QED
        BY <1>6, <2>1, <3>2, <3>3, <3>4
    <2>5. CASE task = s /\ sfn = "Apply"
      <3>1. sfn' = "Applied" /\ payload' = payload /\ task' = None
        BY <1>7, <2>5 DEF Return
      <3>2. QED
        BY <1>0, <1>6, <2>1, <3>1
    <2>6. QED
      BY <1>a, <2>2, <2>3, <2>4, <2>5 DEF TaskStates
  <1>8. ASSUME NEW s \in Slots, Raise(s) PROVE Kept
    <2>1. /\ Vacate(s) /\ UNCHANGED <<mode, ckpt, older, payload>>
          /\ sfn' = "Failed" \/ UNCHANGED <<sfn, task>>
      BY <1>8 DEF Raise, storeVars
    <2>2. QED
      BY <1>0, <1>6, <2>1
  <1>9. ASSUME NEW s \in Slots, LoseInvocation(s) PROVE Kept
    <2>1. /\ UNCHANGED <<mode, ckpt, older, payload>>
          /\ task = s /\ task' = None
          /\ sfn' \in {sfn, "Failed"}
      BY <1>9 DEF LoseInvocation, storeVars
    <2>2. sfn # "PlanMore" /\ \A t \in Slots : task' # t
      BY <1>a, <2>1, ConstantsAssumption DEF TaskStates
    <2>3. CASE Vacate(s)
      BY <1>0, <1>6, <2>1, <2>2, <2>3
    <2>4. CASE UNCHANGED <<pc, slotVars>>
      BY <1>0, <2>1, <2>2, <2>4 DEF slotVars, Readable
    <2>5. QED
      BY <1>9, <2>3, <2>4 DEF LoseInvocation
  <1>10. CASE UNCHANGED vars
    BY <1>0, <1>10 DEF vars, sfnVars, storeVars, slotVars, Readable
  <1>11. QED
    BY <1>1, <1>2, <1>3, <1>4, <1>5, <1>7, <1>8, <1>9, <1>10
    DEF Next, Handler, Ended

\* A LIVE execution never falls through PlanMore's Default to Finalize, even
\* with zombies writing checkpoints beside the handlers it waits for.
THEOREM LiveIsGated == Spec => []LiveNeverFinalizes
  <1>1. ChoiceInv => LiveNeverFinalizes
    BY DEF ChoiceInv
  <1>2. QED
    BY <1>1, InitChoice, ChoiceStep, PTL DEF Spec

-------------------------------------------------------------------------------
(***************************************************************************)
(* The gate, when an invocation never outlives its task state              *)
(***************************************************************************)

\* A new execution has judged and applied nothing.
LEMMA InitGate == Init => GateInv
  <1> SUFFICES ASSUME Init PROVE GateInv
    OBVIOUS
  <1>1. DurableInv /\ ChoiceInv
    BY InitDurable, InitChoice
  <1>2. OneInvocation /\ VerdictStands /\ OnlyStaleRedo /\ VerdictPending
    BY DEF Init, OneInvocation, VerdictStands, OnlyStaleRedo, VerdictPending,
           Completed, PreparePCs, PlanPCs
  <1>3. AnswerIsCheckpoint /\ PayloadIsVerdict /\ ApplySafe
    BY DEF Init, AnswerIsCheckpoint, PayloadIsVerdict, ApplySafe,
           AppliedOnlyIfGated, ApplyPCs
  <1>4. QED
    BY <1>1, <1>2, <1>3 DEF GateInv

\* Without abandoned invocations, every step keeps the verdict with the plan it
\* is about, unless a read has missed that verdict.
LEMMA GateStep ==
    ASSUME ~Zombies
    PROVE  GateInv /\ [Next]_vars => GateInv'
  <1> DEFINE Kept == /\ OneInvocation' /\ VerdictStands' /\ OnlyStaleRedo'
                     /\ VerdictPending' /\ AnswerIsCheckpoint'
                     /\ PayloadIsVerdict' /\ ApplySafe'
  <1> SUFFICES ASSUME GateInv, [Next]_vars PROVE Kept
    BY DurableStep, ChoiceStep DEF GateInv
  <1> USE DEF PreparePCs, PlanPCs, ApplyPCs
  <1> USE DEF OneInvocation, VerdictPending, AnswerIsCheckpoint
  <1>0. /\ TypeInv /\ DurableInv /\ ModeKept /\ AnswerDecides
        /\ OneInvocation /\ VerdictStands /\ OnlyStaleRedo /\ VerdictPending
        /\ AnswerIsCheckpoint /\ PayloadIsVerdict /\ ApplySafe
    BY DEF GateInv, ChoiceInv
  <1>a. /\ run \in [Slots -> Runs \cup {None}] /\ pc \in [Slots -> PCs]
        /\ loc \in [Slots -> Checkpoint \cup {None}]
        /\ ckpt \in [Runs -> Checkpoint \cup {None}]
        /\ older \in [Runs -> SUBSET Checkpoint]
        /\ planFile \in [Runs -> Plans \cup {None}]
        /\ buf \in [Slots -> Plans]
        /\ applied \subseteq [run : Runs, plan : Plans]
        /\ \A s \in Slots : pc[s] # "idle" => run[s] \in Runs
        /\ \A s \in Slots : pc[s] \in HoldsCheckpoint => loc[s] # None
    BY <1>0 DEF TypeInv, TypeOK, LocalsOK
  <1>b. /\ \A s \in Slots : pc[s] \in PreparePCs =>
              sfn = "Prepare" /\ ckpt[run[s]] = None /\ older[run[s]] = {}
        /\ \A s \in Slots : pc[s] \in PlanPCs => sfn = "PlanAll" /\ ckpt[run[s]] # None
        /\ \A s \in Slots : pc[s] \in ApplyPCs => sfn = "Apply"
        /\ sfn \in {"PlanAll", "Apply"} => payload # None
        /\ \A s \in Slots : pc[s] # "idle" => task = s /\ sfn \in TaskStates
        /\ task = None => \A s \in Slots : pc[s] = "idle"
    <2>1. \A s \in Slots : pc[s] # "idle" => task = s /\ sfn \in TaskStates
      BY <1>0, ConstantsAssumption DEF TypeInv, TaskOK
    <2>2. \A s \in Slots : pc[s] \in PreparePCs =>
              ckpt[run[s]] = None /\ older[run[s]] = {}
      BY <1>0, <1>a DEF DurableInv, PrepareOwnsRun, OthersHaveCheckpoint
    <2>3. \A s \in Slots : pc[s] \in PlanPCs => ckpt[run[s]] # None
      BY <1>0 DEF DurableInv, OthersHaveCheckpoint
    <2>4. QED
      BY <1>0, <2>1, <2>2, <2>3, ConstantsAssumption DEF TypeInv, TaskOK, TaskStates
  <1>c. ASSUME NEW s \in Slots, pc[s] # "idle" PROVE \A t \in Slots \ {s} : pc[t] = "idle"
    BY <1>b, <1>c
  <1>d. ASSUME UNCHANGED <<ckpt, older, planFile>>, redone \subseteq redone'
        PROVE  VerdictStands'
    BY <1>0, <1>d DEF VerdictStands, Completed
  <1>e. ASSUME UNCHANGED <<mode, sfn, payload, applied, run, buf>>, redone \subseteq redone',
               \A t \in Slots : pc'[t] \in ApplyPCs => pc'[t] = pc[t]
        PROVE  ApplySafe'
    BY <1>0, <1>e DEF ApplySafe, AppliedOnlyIfGated
  <1>1. CASE PlanMore
    <2>1. /\ sfn = "PlanMore" /\ sfn' = Choice
          /\ UNCHANGED <<mode, task, payload, ckpt, older, planFile, redone, pc, run,
                         loc, behind, buf, applied>>
      BY <1>1 DEF PlanMore, storeVars, slotVars
    <2>2. \A s \in Slots : pc[s] = "idle"
      BY <1>b, <2>1 DEF TaskStates
    <2>3. VerdictStands' /\ OnlyStaleRedo'
      BY <1>d, <2>1, <2>2 DEF OnlyStaleRedo
    <2>4. payload \in Payload
      BY <1>0, <2>1 DEF AnswerDecides, TypeInv, TypeOK, TaskOK, PayloadIsVerdict
    <2>5. PayloadIsVerdict'
      BY <1>0, <2>1, <2>4 DEF PayloadIsVerdict, Choice, Payload
    <2>6. ApplySafe'
      BY <1>0, <2>1, <2>2 DEF ApplySafe, AppliedOnlyIfGated
    <2>7. QED
      BY <2>1, <2>2, <2>3, <2>5, <2>6
  <1>2. ASSUME NEW s \in Slots, Start(s) PROVE Kept
    <2>1. /\ task = None /\ task' = s /\ pc'[s] \in {"export", "get", "load"}
          /\ \A t \in Slots \ {s} : pc'[t] = pc[t] /\ run'[t] = run[t]
          /\ pc'[s] = "load" => sfn = "Apply" /\ run'[s] = payload.run
          /\ UNCHANGED <<mode, sfn, payload, ckpt, older, planFile, redone, loc,
                         behind, buf, applied>>
      BY <1>a, <1>2 DEF Start, StartPrepare, StartPlanAll, StartApply, Invoke, storeVars
    <2>2. \A t \in Slots : pc[t] = "idle"
      BY <1>b, <2>1
    <2>3. VerdictStands' /\ OnlyStaleRedo'
      BY <1>d, <2>1, <2>2 DEF OnlyStaleRedo
    <2>4. PayloadIsVerdict'
      BY <1>0, <2>1 DEF PayloadIsVerdict
    <2>5. ApplySafe'
      BY <1>0, <2>1, <2>2 DEF ApplySafe, AppliedOnlyIfGated
    <2>6. QED
      BY <2>1, <2>2, <2>3, <2>4, <2>5
  <1>3. ASSUME NEW s \in Slots, Prepare(s) PROVE Kept
    <2>1. /\ sfn = "Prepare" /\ pc[s] \in PreparePCs /\ run[s] \in Runs
          /\ ckpt[run[s]] = None /\ older[run[s]] = {}
          /\ \A t \in Slots \ {s} : pc[t] = "idle" /\ pc'[t] = "idle"
          /\ pc'[s] \in {"put_listings", "put_manifest", "put_checkpoint", "return"}
          /\ pc'[s] = "return" => PutNewCheckpoint(s)
          /\ UNCHANGED <<mode, sfn, task, payload, planFile, redone, run, behind, buf, applied>>
      BY <1>a, <1>b, <1>3
      DEF Prepare, Export, PutListings, PutManifest, PutNewCheckpoint, sfnVars, storeVars, slotVars
    <2>2. OneInvocation' /\ OnlyStaleRedo' /\ PayloadIsVerdict'
      BY <1>0, <2>1 DEF OnlyStaleRedo, PayloadIsVerdict
    <2>3. ApplySafe'
      BY <1>e, <2>1
    <2>4. VerdictStands' /\ VerdictPending' /\ AnswerIsCheckpoint'
      <3>1. CASE Export(s)
        <4>1. loc'[s].status = "pending" /\ pc'[s] = "put_listings"
          BY <1>a, <3>1 DEF Export, NewCheckpoint
        <4>2. UNCHANGED <<ckpt, older>>
          BY <3>1 DEF Export, storeVars
        <4>3. QED
          BY <1>d, <2>1, <4>1, <4>2
      <3>2. CASE PutListings(s) \/ PutManifest(s)
        <4>1. /\ UNCHANGED <<ckpt, older, loc>> /\ loc[s].status = "pending"
              /\ pc'[s] \in {"put_manifest", "put_checkpoint"}
          BY <1>0, <1>a, <3>2 DEF PutListings, PutManifest, slotVars
        <4>2. QED
          BY <1>d, <2>1, <4>1
      <3>3. CASE PutNewCheckpoint(s)
        <4>1. /\ loc[s] \in Checkpoint /\ loc[s].status = "pending"
              /\ PutItem(run[s], older[run[s]], loc[s])
              /\ pc'[s] = "return" /\ loc' = loc
          BY <1>0, <1>a, <3>3 DEF PutNewCheckpoint, HoldsCheckpoint, slotVars
        <4>2. PutEffect(run[s], loc[s])
          BY <1>a, <2>1, <4>1, PutItemReads
        <4>3. VerdictStands'
          BY <1>0, <1>a, <2>1, <4>1, <4>2
          DEF PutEffect, VerdictStands, Completed, Readable
        <4>4. QED
          BY <2>1, <4>1, <4>2, <4>3 DEF PutEffect
      <3>4. QED
        BY <1>3, <3>1, <3>2, <3>3 DEF Prepare
    <2>5. QED
      BY <2>2, <2>3, <2>4
  <1>4. ASSUME NEW s \in Slots, PlanAll(s) PROVE Kept
    <2>0. /\ sfn = "PlanAll" /\ pc[s] \in PlanPCs /\ run[s] \in Runs
          /\ ckpt[run[s]] # None /\ task = s
          /\ \A t \in Slots \ {s} : pc[t] = "idle" /\ pc'[t] = "idle"
          /\ pc'[s] \in (PlanPCs \ {"get"}) \cup {"return"}
          /\ UNCHANGED <<mode, sfn, task, payload, run, applied>>
      BY <1>a, <1>b, <1>4
      DEF PlanAll, GetCompleted, GetCheckpoint, PlanChunk, SaveProgress, PauseWave,
          BeginMerge, ReadChunkPlan, PutPlan, SaveFinal, sfnVars, slotVars
    <2>a. redone \subseteq redone'
      BY <1>4
      DEF PlanAll, GetCompleted, GetCheckpoint, PlanChunk, SaveProgress, PauseWave,
          BeginMerge, ReadChunkPlan, PutPlan, SaveFinal, Read, storeVars
    <2>b. OneInvocation' /\ PayloadIsVerdict'
      BY <2>0 DEF PayloadIsVerdict
    <2>c. ApplySafe'
      BY <1>0, <2>0, <2>a DEF ApplySafe, AppliedOnlyIfGated
    <2>1. OneInvocation' /\ PayloadIsVerdict' /\ ApplySafe'
      BY <2>b, <2>c
    <2>2. CASE GetCompleted(s)
      <3>1. PICK c \in Readable(run[s]) :
               /\ c.status = "completed" /\ loc' = [loc EXCEPT ![s] = c]
               /\ Read(s, run[s], c)
        BY <2>2 DEF GetCompleted
      <3>2. pc'[s] = "return" /\ UNCHANGED <<ckpt, older, planFile>> /\ loc'[s] = c
        BY <1>a, <2>2, <3>1 DEF GetCompleted
      <3>3. redone \subseteq redone'
        BY <3>1 DEF Read
      <3>4. run[s] \notin redone => c = ckpt[run[s]]
        BY <1>0, <2>0, <3>1 DEF VerdictStands, Readable
      <3>5. QED
        BY <1>d, <2>0, <2>1, <3>2, <3>3, <3>4 DEF OnlyStaleRedo
    <2>3. CASE GetCheckpoint(s)
      <3>1. PICK c \in Readable(run[s]) :
               /\ c.status # "completed"
               /\ loc' = [loc EXCEPT ![s] = Resumed(c, manifest[run[s]])]
               /\ Read(s, run[s], c)
        BY <2>3 DEF GetCheckpoint
      <3>2. c \in Checkpoint
        BY <1>a, <2>0, <3>1, ReadableItems
      <3>3. /\ pc'[s] = "wave" /\ UNCHANGED <<ckpt, older, planFile>>
            /\ loc'[s].status = "in_progress"
        BY <1>a, <2>3, <3>1, <3>2 DEF GetCheckpoint, Resumed, Checkpoint
      <3>4. redone \subseteq redone'
        BY <3>1 DEF Read
      <3>5. Completed(run[s]) => s \in behind' /\ run[s] \in redone'
        BY <3>1 DEF Read, Completed
      <3>6. OnlyStaleRedo'
        BY <2>0, <3>3, <3>5 DEF OnlyStaleRedo, Completed
      <3>7. QED
        BY <1>d, <2>0, <2>1, <3>3, <3>4, <3>6
    <2>4. ASSUME run[s] \notin redone, pc[s] # "get"
          PROVE  /\ ckpt[run[s]].status # "completed"
                 /\ \A c \in Readable(run[s]) : c.status # "completed"
      BY <1>0, <2>0, <2>4 DEF OnlyStaleRedo, Completed, VerdictStands, Readable
    <2>5. CASE PlanChunk(s) \/ BeginMerge(s) \/ ReadChunkPlan(s)
      <3>1. /\ pc[s] \in {"wave", "merge"} /\ pc'[s] \in {"save_progress", "merge"}
            /\ UNCHANGED <<ckpt, older, planFile, loc, behind, redone>>
        BY <1>a, <2>5 DEF PlanChunk, BeginMerge, ReadChunkPlan, storeVars, slotVars
      <3>2. OnlyStaleRedo'
        BY <1>0, <2>0, <3>1 DEF OnlyStaleRedo, Completed
      <3>3. QED
        BY <1>0, <1>d, <2>0, <2>1, <3>1, <3>2
    <2>6. CASE SaveProgress(s)
      <3> DEFINE c == [loc[s] EXCEPT !.next = loc[s].next + 1]
      <3>1. /\ loc[s] \in Checkpoint /\ loc[s].next < loc[s].count
            /\ loc[s].status = "in_progress" /\ pc[s] = "save_progress"
        BY <1>0, <1>a, <2>6 DEF SaveProgress, HoldsCheckpoint, TypeInv, LocalsOK
      <3>2. c.status = "in_progress" /\ c \in Checkpoint
        BY <3>1, MaxChunksNat DEF Checkpoint
      <3>3. /\ PutItem(run[s], older[run[s]], c)
            /\ loc' = [loc EXCEPT ![s] = c]
            /\ pc'[s] = "wave" /\ UNCHANGED <<planFile, redone>>
        BY <1>a, <2>6 DEF SaveProgress, SavedItem
      <3> HIDE DEF c
      <3>4. PutEffect(run[s], c)
        BY <1>a, <2>0, <3>2, <3>3, PutItemReads
      <3>5. VerdictStands'
        BY <1>0, <2>0, <2>4, <3>1, <3>2, <3>3, <3>4 DEF VerdictStands, Completed, PutEffect
      <3>6. OnlyStaleRedo'
        BY <2>0, <3>2, <3>4 DEF OnlyStaleRedo, Completed, PutEffect
      <3>7. QED
        BY <1>a, <2>0, <2>1, <3>2, <3>3, <3>5, <3>6
    <2>7. CASE PauseWave(s)
      <3>1. /\ loc[s] \in Checkpoint /\ loc[s].status = "in_progress" /\ pc[s] = "wave"
            /\ StillRead(s) \subseteq older[run[s]]
            /\ PutItem(run[s], StillRead(s), loc[s])
            /\ pc'[s] = "return" /\ UNCHANGED <<loc, planFile, redone>>
        BY <1>0, <1>a, <2>7 DEF PauseWave, SavedItem, HoldsCheckpoint, StillRead, slotVars
      <3>2. PutEffect(run[s], loc[s])
        BY <1>a, <2>0, <3>1, PutItemReads
      <3>3. VerdictStands'
        BY <1>0, <2>0, <2>4, <3>1, <3>2 DEF VerdictStands, Completed, PutEffect
      <3>4. QED
        BY <2>0, <2>1, <3>1, <3>2, <3>3 DEF OnlyStaleRedo, PutEffect
    <2>8. CASE PutPlan(s)
      <3>1. /\ loc[s] \in Checkpoint /\ buf[s] \in Plans /\ buf[s] # None
            /\ pc[s] = "merge" /\ pc'[s] = "save_final"
            /\ planFile' = [planFile EXCEPT ![run[s]] = buf[s]]
            /\ UNCHANGED <<ckpt, older, redone, behind>>
        BY <1>a, <2>8, ConstantsAssumption DEF PutPlan, HoldsCheckpoint
      <3>2. loc'[s].status = "completed" /\ loc'[s].safety = SafePlan(buf[s])
        BY <1>a, <2>8, <3>1, CompletedLocal
      <3>3. planFile'[run[s]] = buf[s] /\ \A r \in Runs \ {run[s]} : planFile'[r] = planFile[r]
        BY <1>a, <2>0, <3>1
      <3>4. VerdictStands'
        BY <1>0, <2>0, <2>4, <3>1, <3>3 DEF VerdictStands, Completed
      <3>5. OnlyStaleRedo'
        BY <1>0, <2>0, <3>1 DEF OnlyStaleRedo, Completed
      <3>6. VerdictPending'
        BY <2>0, <3>1, <3>2, <3>3
      <3>7. QED
        BY <2>0, <2>1, <3>1, <3>4, <3>5, <3>6
    <2>9. CASE SaveFinal(s)
      <3>1. /\ loc[s] \in Checkpoint /\ loc[s].status = "completed" /\ pc[s] = "save_final"
            /\ planFile[run[s]] # None /\ loc[s].safety = SafePlan(planFile[run[s]])
            /\ PutItem(run[s], older[run[s]], loc[s])
            /\ pc'[s] = "return" /\ UNCHANGED <<loc, planFile, redone>>
        BY <1>0, <1>a, <2>9 DEF SaveFinal, SavedItem, HoldsCheckpoint, slotVars
      <3>2. PutEffect(run[s], loc[s])
        BY <1>a, <2>0, <3>1, PutItemReads
      <3>3. VerdictStands'
        BY <1>0, <2>0, <2>4, <3>1, <3>2 DEF VerdictStands, Completed, PutEffect
      <3>4. QED
        BY <2>0, <2>1, <3>1, <3>2, <3>3 DEF OnlyStaleRedo, PutEffect
    <2>10. QED
      BY <1>4, <2>2, <2>3, <2>5, <2>6, <2>7, <2>8, <2>9 DEF PlanAll
  <1>5. ASSUME NEW s \in Slots, Apply(s) PROVE Kept
    <2>0. /\ sfn = "Apply" /\ pc[s] \in ApplyPCs /\ run[s] \in Runs
          /\ run[s] = payload.run /\ task = s
          /\ \A t \in Slots \ {s} : pc[t] = "idle" /\ pc'[t] = "idle"
          /\ pc'[s] \in {"submit", "return"}
          /\ UNCHANGED <<mode, sfn, task, payload, run, ckpt, older, planFile, redone, behind>>
      <3>1. pc[s] \in ApplyPCs /\ run[s] \in Runs
        BY <1>a, <1>5 DEF Apply, LoadPlan, SubmitPlan
      <3>2. /\ sfn = "Apply" /\ run[s] = payload.run /\ task = s
            /\ \A t \in Slots \ {s} : pc[t] = "idle"
        BY <1>0, <1>b, <3>1 DEF ApplySafe
      <3>3. /\ \A t \in Slots \ {s} : pc'[t] = pc[t]
            /\ pc'[s] \in {"submit", "return"}
        BY <1>a, <1>5 DEF Apply, LoadPlan, SubmitPlan
      <3>4. UNCHANGED <<mode, sfn, task, payload, run, ckpt, older, planFile, redone, behind>>
        BY <1>5 DEF Apply, LoadPlan, SubmitPlan, sfnVars, storeVars, slotVars
      <3>5. QED
        BY <3>1, <3>2, <3>3, <3>4
    <2>1. VerdictStands' /\ OnlyStaleRedo' /\ PayloadIsVerdict'
      BY <1>0, <1>d, <2>0 DEF OnlyStaleRedo, PayloadIsVerdict
    <2>2. OneInvocation' /\ VerdictPending' /\ AnswerIsCheckpoint'
      BY <1>0, <2>0
    <2>3. CASE LoadPlan(s)
      <3>1. /\ buf'[s] = planFile[run[s]] /\ pc'[s] = "submit" /\ UNCHANGED applied
        BY <1>a, <2>3 DEF LoadPlan
      <3>2. SafePlan(planFile[run[s]]) \/ run[s] \in redone
        BY <1>0, <1>b, <2>0 DEF PayloadIsVerdict, VerdictStands, Completed, DurableInv, OthersHaveCheckpoint
      <3>3. ApplySafe'
        BY <1>0, <2>0, <3>1, <3>2 DEF ApplySafe, AppliedOnlyIfGated
      <3>4. QED
        BY <2>1, <2>2, <3>3
    <2>4. CASE SubmitPlan(s)
      <3>1. /\ applied' = applied \cup {[run |-> run[s], plan |-> buf[s]]}
            /\ pc[s] = "submit" /\ pc'[s] = "return"
        BY <1>a, <2>4 DEF SubmitPlan
      <3>2. mode = "LIVE"
        BY <1>0, <1>b, <2>0 DEF PayloadIsVerdict, ModeKept
      <3>3. ApplySafe'
        BY <1>0, <2>0, <3>1, <3>2 DEF ApplySafe, AppliedOnlyIfGated
      <3>4. QED
        BY <2>1, <2>2, <3>3
    <2>5. QED
      BY <1>5, <2>3, <2>4 DEF Apply
  <1>6. ASSUME NEW s \in Slots, Vacate(s), task = s,
               UNCHANGED <<mode, ckpt, older, planFile, redone, applied>>
        PROVE  /\ \A t \in Slots : pc'[t] = "idle"
               /\ OneInvocation' /\ VerdictStands' /\ OnlyStaleRedo'
               /\ VerdictPending' /\ AnswerIsCheckpoint'
               /\ ApplySafe'
    <2>1. \A t \in Slots : pc'[t] = "idle"
      BY <1>a, <1>b, <1>6 DEF Vacate
    <2>2. VerdictStands'
      BY <1>d, <1>6
    <2>3. QED
      BY <1>0, <1>6, <2>1, <2>2 DEF ApplySafe, AppliedOnlyIfGated, OnlyStaleRedo
  <1>7. ASSUME NEW s \in Slots, Return(s) PROVE Kept
    <2>1. /\ Vacate(s) /\ task = s /\ pc[s] = "return" /\ run[s] \in Runs
          /\ UNCHANGED <<mode, ckpt, older, planFile, redone, applied>>
      BY <1>a, <1>b, <1>7 DEF Return, storeVars, sfnVars
    <2>2. PayloadIsVerdict'
      <3>1. CASE sfn = "Prepare"
        BY <1>7, <2>1, <3>1 DEF Return, PayloadIsVerdict
      <3>2. CASE sfn = "PlanAll"
        <4>1. sfn' = "PlanMore" /\ payload' = RunContext(s)
          BY <1>7, <2>1, <3>2 DEF Return
        <4>2. /\ loc[s].status = "completed" \/ More(loc[s])
              /\ run[s] \notin redone => loc[s] = ckpt[run[s]]
          BY <1>0, <2>1, <3>2 DEF AnswerDecides
        <4>3. /\ payload'.run = run[s] /\ payload'.safety = loc[s].safety
              /\ ~payload'.more => loc[s].status = "completed"
          BY <4>1, <4>2 DEF RunContext
        <4>4. payload' # None
          BY <1>0, TypeStep, <4>1 DEF TypeInv, TaskOK
        <4>5. QED
          BY <2>1, <4>1, <4>2, <4>3, <4>4 DEF PayloadIsVerdict
      <3>3. CASE sfn = "Apply"
        BY <1>0, <1>7, <2>1, <3>3 DEF Return, PayloadIsVerdict
      <3>4. QED
        BY <1>b, <2>1, <3>1, <3>2, <3>3 DEF TaskStates
    <2>3. QED
      BY <1>6, <2>1, <2>2
  <1>8. ASSUME NEW s \in Slots, Raise(s) PROVE Kept
    <2>1. /\ Vacate(s) /\ task = s /\ sfn' = "Failed"
          /\ UNCHANGED <<mode, ckpt, older, planFile, redone, applied>>
      BY <1>b, <1>8 DEF Raise, storeVars
    <2>2. QED
      BY <1>6, <2>1 DEF PayloadIsVerdict
  <1>9. ASSUME NEW s \in Slots, LoseInvocation(s) PROVE Kept
    <2>1. /\ Vacate(s) /\ task = s /\ sfn' \in {"Failed", sfn}
          /\ UNCHANGED <<mode, payload, ckpt, older, planFile, redone, applied>>
      BY <1>9 DEF LoseInvocation, storeVars
    <2>2. PayloadIsVerdict'
      BY <1>0, <2>1 DEF PayloadIsVerdict
    <2>3. QED
      BY <1>6, <2>1, <2>2
  <1>10. CASE UNCHANGED vars
    <2>1. UNCHANGED <<mode, sfn, task, payload, ckpt, older, planFile, redone, pc, run,
                      loc, behind, buf, applied>>
      BY <1>10 DEF vars, sfnVars, storeVars, slotVars
    <2>2. QED
      BY <1>0, <1>d, <1>e, <2>1 DEF OnlyStaleRedo, Completed, PayloadIsVerdict
  <1>11. QED
    BY <1>1, <1>2, <1>3, <1>4, <1>5, <1>7, <1>8, <1>9, <1>10 DEF Next, Handler, Ended

\* The gate: unless an abandoned invocation keeps running, only LIVE executions
\* apply, and only plans that pass the safety check, whatever retries happen
\* between the merge that judged the plan and the Apply that loads it; or else
\* the get of checkpoint missed that the run was completed.
THEOREM GateHolds ==
    ASSUME ~Zombies
    PROVE  Spec => []AppliedOnlyIfGated
  <1>1. GateInv => AppliedOnlyIfGated
    BY DEF GateInv, ApplySafe
  <1>2. GateInv /\ [Next]_vars => GateInv'
    BY GateStep
  <1>3. QED
    BY <1>1, <1>2, InitGate, PTL DEF Spec

-------------------------------------------------------------------------------
(***************************************************************************)
(* When an invocation never outlives its task state: retries lose no       *)
(* progress, and the safety part of the refinement RepriceRun => GatedRun. *)
(***************************************************************************)

\* What the gate's invariant says of types and of who is at work.
LEMMA GateControl ==
    ASSUME GateInv
    PROVE  /\ run \in [Slots -> Runs \cup {None}] /\ pc \in [Slots -> PCs]
           /\ loc \in [Slots -> Checkpoint \cup {None}]
           /\ ckpt \in [Runs -> Checkpoint \cup {None}]
           /\ planFile \in [Runs -> Plans \cup {None}]
           /\ buf \in [Slots -> Plans]
           /\ payload \in Payload \cup {None}
           /\ \A s \in Slots : pc[s] # "idle" =>
                 /\ run[s] \in Runs /\ task = s /\ sfn \in TaskStates
                 /\ \A t \in Slots \ {s} : pc[t] = "idle"
           /\ \A s \in Slots : pc[s] \in HoldsCheckpoint => loc[s] # None
           /\ \A s \in Slots : pc[s] \in PreparePCs => sfn = "Prepare" /\ ckpt[run[s]] = None
           /\ \A s \in Slots : pc[s] \in PlanPCs => sfn = "PlanAll" /\ ckpt[run[s]] # None
           /\ \A s \in Slots : pc[s] \in ApplyPCs => sfn = "Apply"
           /\ sfn \in {"PlanMore", "PlanAll", "Apply"} =>
                 payload \in Payload /\ ckpt[payload.run] # None
  <1> USE DEF GateInv, OneInvocation, DurableInv
  <1>1. TypeOK /\ LocalsOK /\ TaskOK /\ PrepareOwnsRun /\ OthersHaveCheckpoint
    BY DEF TypeInv
  <1>2. \A s \in Slots : pc[s] # "idle" =>
           /\ run[s] \in Runs /\ task = s /\ sfn \in TaskStates
           /\ \A t \in Slots \ {s} : pc[t] = "idle"
    BY <1>1, ConstantsAssumption DEF LocalsOK, TaskOK
  <1>3. /\ \A s \in Slots : pc[s] \in PreparePCs => sfn = "Prepare"
        /\ \A s \in Slots : pc[s] \in PlanPCs => sfn = "PlanAll"
        /\ \A s \in Slots : pc[s] \in ApplyPCs => sfn = "Apply"
    BY <1>1, <1>2 DEF TaskOK, TaskStates, PreparePCs, PlanPCs, ApplyPCs
  <1>4. /\ \A s \in Slots : pc[s] \in PreparePCs => ckpt[run[s]] = None
        /\ \A s \in Slots : pc[s] \in PlanPCs => ckpt[run[s]] # None
        /\ payload # None => ckpt[payload.run] # None
    BY <1>1 DEF PrepareOwnsRun, OthersHaveCheckpoint
  <1>5. QED
    BY <1>1, <1>2, <1>3, <1>4 DEF TypeOK, LocalsOK, TaskOK

-------------------------------------------------------------------------------
(***************************************************************************)
(* Retries lose no progress                                                *)
(***************************************************************************)

\* Only three steps change a checkpoint that is there, and each puts the
\* handler's own progress in its place.
LEMMA CheckpointWrites ==
    ASSUME GateInv, [Next]_vars
    PROVE  \/ UNCHANGED ckpt
           \/ \E s \in Slots :
                 /\ run[s] \in Runs /\ ckpt' = [ckpt EXCEPT ![run[s]] = loc'[s]]
                 /\ pc[s] = "put_checkpoint" /\ pc'[s] = "return" /\ UNCHANGED loc
           \/ \E s \in Slots :
                 /\ run[s] \in Runs /\ ckpt' = [ckpt EXCEPT ![run[s]] = loc'[s]]
                 /\ pc[s] \in {"wave", "save_progress", "save_final"}
                 /\ loc'[s] # None
                 /\ loc'[s].next \in {loc[s].next, loc[s].next + 1}
                 /\ \A t \in Slots \ {s} : loc'[t] = loc[t]
  <1>a. /\ \A s \in Slots : pc[s] # "idle" => run[s] \in Runs
        /\ \A s \in Slots : pc[s] \in HoldsCheckpoint => loc[s] # None
        /\ loc \in [Slots -> Checkpoint \cup {None}] /\ pc \in [Slots -> PCs]
        /\ TypeInv'
    BY GateControl, TypeStep DEF GateInv, DurableInv
  <1>1. ASSUME NEW s \in Slots, Prepare(s)
        PROVE  \/ UNCHANGED ckpt
               \/ /\ run[s] \in Runs /\ ckpt' = [ckpt EXCEPT ![run[s]] = loc'[s]]
                  /\ pc[s] = "put_checkpoint" /\ pc'[s] = "return" /\ UNCHANGED loc
    BY <1>a, <1>1
    DEF Prepare, Export, PutListings, PutManifest, PutNewCheckpoint, PutItem, storeVars, slotVars
  <1>2. ASSUME NEW s \in Slots, PlanAll(s)
        PROVE  \/ UNCHANGED ckpt
               \/ /\ run[s] \in Runs /\ ckpt' = [ckpt EXCEPT ![run[s]] = loc'[s]]
                  /\ pc[s] \in {"wave", "save_progress", "save_final"}
                  /\ loc'[s] # None
                  /\ loc'[s].next \in {loc[s].next, loc[s].next + 1}
                  /\ \A t \in Slots \ {s} : loc'[t] = loc[t]
    <2>1. CASE SaveProgress(s)
      <3> DEFINE c == [loc[s] EXCEPT !.next = loc[s].next + 1]
      <3>1. /\ pc[s] = "save_progress" /\ pc' = [pc EXCEPT ![s] = "wave"]
            /\ loc' = [loc EXCEPT ![s] = c] /\ ckpt' = [ckpt EXCEPT ![run[s]] = c]
        BY <2>1 DEF SaveProgress, SavedItem, PutItem
      <3>2. run[s] \in Runs /\ loc[s] \in Checkpoint
        BY <1>a, <3>1 DEF HoldsCheckpoint, PlanPCs
      <3>3. c.next = loc[s].next + 1
        BY <3>2 DEF Checkpoint
      <3>4. pc'[s] \in HoldsCheckpoint
        BY <1>a, <3>1 DEF HoldsCheckpoint, PlanPCs
      <3>5. loc'[s] # None
        BY <1>a, <3>4 DEF TypeInv, LocalsOK
      <3>6. QED
        BY <1>a, <3>1, <3>2, <3>3, <3>5
    <2>2. CASE PauseWave(s) \/ SaveFinal(s)
      BY <1>a, <2>2
      DEF PauseWave, SaveFinal, SavedItem, PutItem, slotVars, HoldsCheckpoint, PlanPCs
    <2>3. CASE ~SaveProgress(s) /\ ~PauseWave(s) /\ ~SaveFinal(s)
      BY <1>2, <2>3
      DEF PlanAll, GetCompleted, GetCheckpoint, PlanChunk, BeginMerge, ReadChunkPlan,
          PutPlan, storeVars
    <2>4. QED
      BY <2>1, <2>2, <2>3
  <1>3. CASE PlanMore \/ Ended \/ UNCHANGED vars
    BY <1>3 DEF PlanMore, Ended, vars, storeVars
  <1>4. ASSUME NEW s \in Slots,
               Start(s) \/ Apply(s) \/ Return(s) \/ Raise(s) \/ LoseInvocation(s)
        PROVE  UNCHANGED ckpt
    BY <1>4
    DEF Start, StartPrepare, StartPlanAll, StartApply, Apply, LoadPlan, SubmitPlan,
        Return, Raise, LoseInvocation, storeVars
  <1>5. QED
    BY <1>1, <1>2, <1>3, <1>4 DEF Next, Handler

\* A new execution has no handler at work.
LEMMA InitProgress == Init => ProgressInv
  <1>1. Init => LocalsCurrent
    BY DEF Init, LocalsCurrent, PlanPCs
  <1>2. QED
    BY <1>1, InitGate DEF ProgressInv

\* A handler starts from the checkpoint it was given, moves on from there, and
\* is the only one to save.
LEMMA ProgressStep ==
    ASSUME ~Zombies
    PROVE  ProgressInv /\ [Next]_vars => ProgressInv'
  <1> SUFFICES ASSUME ProgressInv, [Next]_vars PROVE LocalsCurrent'
    BY GateStep DEF ProgressInv
  <1> USE DEF LocalsCurrent, PlanPCs, PreparePCs, ApplyPCs
  <1>0. GateInv /\ LocalsCurrent /\ LocalsBacked
    BY DEF ProgressInv, GateInv, DurableInv
  <1>a. /\ run \in [Slots -> Runs \cup {None}] /\ pc \in [Slots -> PCs]
        /\ loc \in [Slots -> Checkpoint \cup {None}]
        /\ ckpt \in [Runs -> Checkpoint \cup {None}]
        /\ \A s \in Slots : pc[s] # "idle" =>
              run[s] \in Runs /\ \A t \in Slots \ {s} : pc[t] = "idle"
        /\ \A s \in Slots : pc[s] \in HoldsCheckpoint => loc[s] # None
        /\ \A s \in Slots : pc[s] \in PlanPCs => ckpt[run[s]] # None
    BY <1>0, GateControl
  <1>b. \A c \in Checkpoint : c.next \in Nat /\ c.count \in Nat
    BY MaxChunksNat DEF Checkpoint
  <1>1. CASE PlanMore \/ Ended \/ UNCHANGED vars
    BY <1>0, <1>1 DEF PlanMore, Ended, vars, storeVars, slotVars
  <1>2. ASSUME NEW s \in Slots, Start(s) PROVE LocalsCurrent'
    <2>1. /\ pc'[s] \in {"export", "get", "load"} /\ UNCHANGED <<ckpt, loc>>
          /\ \A t \in Slots \ {s} : pc'[t] = pc[t] /\ run'[t] = run[t]
          /\ behind' = behind
      BY <1>a, <1>2 DEF Start, StartPrepare, StartPlanAll, StartApply, Invoke, storeVars
    <2>2. QED
      BY <1>0, <2>1
  <1>3. ASSUME NEW s \in Slots, Prepare(s) PROVE LocalsCurrent'
    <2>1. pc[s] \in PreparePCs /\ pc'[s] \in PreparePCs \cup {"return"}
          /\ \A t \in Slots \ {s} : pc'[t] = pc[t]
      BY <1>a, <1>3 DEF Prepare, Export, PutListings, PutManifest, PutNewCheckpoint
    <2>2. QED
      BY <1>a, <2>1
  <1>4. ASSUME NEW s \in Slots, PlanAll(s) PROVE LocalsCurrent'
    <2>0. /\ run[s] \in Runs /\ run' = run /\ ckpt[run[s]] \in Checkpoint
          /\ \A t \in Slots \ {s} : pc'[t] = "idle"
      BY <1>a, <1>4
      DEF PlanAll, GetCompleted, GetCheckpoint, PlanChunk, SaveProgress, PauseWave,
          BeginMerge, ReadChunkPlan, PutPlan, SaveFinal, slotVars
    <2>1. CASE GetCheckpoint(s)
      <3>1. PICK c \in Readable(run[s]) :
               /\ Read(s, run[s], c)
               /\ loc' = [loc EXCEPT ![s] = Resumed(c, manifest[run[s]])]
        BY <2>1 DEF GetCheckpoint
      <3>2. ckpt' = ckpt
        BY <2>1 DEF GetCheckpoint
      <3>3. s \notin behind' => c = ckpt[run[s]]
        BY <3>1 DEF Read
      <3>4. s \notin behind' => loc'[s].next = ckpt[run[s]].next
        BY <1>a, <2>0, <3>1, <3>3 DEF Resumed, Checkpoint
      <3>5. QED
        BY <1>b, <2>0, <3>2, <3>4
    <2>2. CASE PlanChunk(s) \/ BeginMerge(s) \/ ReadChunkPlan(s)
      <3>1. pc[s] \in {"wave", "merge"} /\ UNCHANGED <<ckpt, loc, behind>>
        BY <2>2 DEF PlanChunk, BeginMerge, ReadChunkPlan, storeVars, slotVars
      <3>2. QED
        BY <1>0, <2>0, <3>1
    <2>3. CASE SaveProgress(s)
      <3> DEFINE c == [loc[s] EXCEPT !.next = loc[s].next + 1]
      <3>1. loc' = [loc EXCEPT ![s] = c] /\ ckpt' = [ckpt EXCEPT ![run[s]] = c]
        BY <2>3 DEF SaveProgress, SavedItem, PutItem
      <3>2. loc'[s] = c /\ ckpt'[run[s]] = c
        BY <1>a, <2>0, <3>1
      <3>3. c.next \in Nat
        <4>1. loc[s] \in Checkpoint
          BY <1>a, <2>3 DEF SaveProgress, HoldsCheckpoint
        <4>2. c.next = loc[s].next + 1
          BY <4>1 DEF Checkpoint
        <4>3. QED
          BY <1>b, <4>1, <4>2
      <3> HIDE DEF c
      <3>4. QED
        BY <2>0, <3>2, <3>3
    <2>4. CASE PutPlan(s)
      <3>1. /\ loc[s] \in Checkpoint /\ pc[s] = "merge"
            /\ UNCHANGED <<ckpt, behind>>
        BY <1>a, <2>4 DEF PutPlan, HoldsCheckpoint
      <3>2. loc'[s].next = loc[s].count
        BY <1>a, <2>4, <3>1 DEF PutPlan, Checkpoint
      <3>3. /\ s \notin behind => ckpt[run[s]].next <= loc[s].next
            /\ loc[s].next = loc[s].count
        BY <1>0, <3>1 DEF LocalsBacked
      <3>4. QED
        BY <2>0, <3>1, <3>2, <3>3
    <2>5. CASE GetCompleted(s) \/ PauseWave(s) \/ SaveFinal(s)
      <3>1. pc'[s] = "return"
        BY <1>a, <2>5 DEF GetCompleted, PauseWave, SaveFinal
      <3>2. QED
        BY <2>0, <3>1
    <2>6. QED
      BY <1>4, <2>1, <2>2, <2>3, <2>4, <2>5 DEF PlanAll
  <1>5. ASSUME NEW s \in Slots, Apply(s) PROVE LocalsCurrent'
    <2>1. pc[s] # "idle" /\ pc'[s] \in {"submit", "return"}
          /\ \A t \in Slots \ {s} : pc'[t] = pc[t]
      BY <1>a, <1>5 DEF Apply, LoadPlan, SubmitPlan
    <2>2. QED
      BY <1>a, <2>1
  <1>6. ASSUME NEW s \in Slots, Return(s) \/ Raise(s) \/ LoseInvocation(s)
        PROVE LocalsCurrent'
    <2>1. /\ UNCHANGED ckpt
          /\ \/ Vacate(s)
             \/ UNCHANGED <<pc, slotVars>>
      BY <1>6 DEF Return, Raise, LoseInvocation, storeVars
    <2>2. \A t \in Slots : pc'[t] # "idle" =>
             /\ pc'[t] = pc[t] /\ run'[t] = run[t] /\ loc'[t] = loc[t]
             /\ t \in behind' <=> t \in behind
      BY <1>a, <2>1 DEF Vacate, slotVars
    <2>3. QED
      BY <1>0, <2>1, <2>2
  <1>7. QED
    BY <1>1, <1>2, <1>3, <1>4, <1>5, <1>6 DEF Next, Handler

\* What one step may do to the checkpoint and the plan of one run.
NeverRegresses(r) ==
    ckpt[r] # None =>
        /\ ckpt'[r] # None
        /\ KeepsProgress(r) \/ \E s \in behind : run[s] = r

\* plan.jsonl changes only where a handler has merged and not yet saved.
LEMMA PlanWrites ==
    ASSUME [Next]_vars, planFile \in [Runs -> Plans \cup {None}]
    PROVE  \/ UNCHANGED planFile
           \/ \E s \in Slots : pc[s] = "merge" /\ \A r \in Runs :
                 r # run[s] => planFile'[r] = planFile[r]
  <1>1. ASSUME NEW s \in Slots, PutPlan(s)
        PROVE  pc[s] = "merge" /\ \A r \in Runs : r # run[s] => planFile'[r] = planFile[r]
    BY <1>1 DEF PutPlan
  <1>2. ASSUME NEW s \in Slots, PlanAll(s), ~PutPlan(s) PROVE UNCHANGED planFile
    BY <1>2
    DEF PlanAll, GetCompleted, GetCheckpoint, PlanChunk, SaveProgress, PauseWave,
        BeginMerge, ReadChunkPlan, SaveFinal, storeVars
  <1>3. ASSUME NEW s \in Slots, Prepare(s) PROVE UNCHANGED planFile
    BY <1>3 DEF Prepare, Export, PutListings, PutManifest, PutNewCheckpoint, storeVars
  <1>4. ASSUME NEW s \in Slots, Apply(s) \/ Return(s) \/ Raise(s) \/ LoseInvocation(s)
        PROVE  UNCHANGED planFile
    BY <1>4 DEF Apply, LoadPlan, SubmitPlan, Return, Raise, LoseInvocation, storeVars
  <1>5. ASSUME NEW s \in Slots, Start(s) PROVE UNCHANGED planFile
    BY <1>5 DEF Start, StartPrepare, StartPlanAll, StartApply, storeVars
  <1>6. CASE PlanMore \/ Ended \/ UNCHANGED vars
    BY <1>6 DEF PlanMore, Ended, storeVars, vars
  <1>7. ASSUME NEW s \in Slots, Handler(s), ~PutPlan(s) PROVE UNCHANGED planFile
    BY <1>2, <1>3, <1>4, <1>7 DEF Handler
  <1>8. QED
    BY <1>1, <1>4, <1>5, <1>6, <1>7 DEF Next

\* Retries, crashes and late answers lose no progress: next_index never goes
\* back, and a completed checkpoint and its plan never change, unless the get of
\* checkpoint gave the handler an item that had already been replaced.
THEOREM NoProgressIsLost ==
    ASSUME ~Zombies
    PROVE  Spec => CheckpointNeverRegresses
  <1>1. Spec => []ProgressInv
    BY InitProgress, ProgressStep, PTL DEF Spec
  <1>2. ASSUME ProgressInv, [Next]_vars, NEW r \in Runs PROVE NeverRegresses(r)
    <2> SUFFICES ASSUME ckpt[r] # None
                 PROVE  ckpt'[r] # None /\ (KeepsProgress(r) \/ \E s \in behind : run[s] = r)
      BY DEF NeverRegresses
    <2>0. GateInv /\ LocalsCurrent /\ OnlyStaleRedo
      BY <1>2 DEF ProgressInv, GateInv
    <2>a. /\ ckpt \in [Runs -> Checkpoint \cup {None}]
          /\ planFile \in [Runs -> Plans \cup {None}]
          /\ loc \in [Slots -> Checkpoint \cup {None}]
          /\ \A s \in Slots : pc[s] \in PreparePCs => ckpt[run[s]] = None
          /\ \A s \in Slots : pc[s] \in HoldsCheckpoint => loc[s] # None
      BY <2>0, GateControl
    <2>b. \A c \in Checkpoint : c.next \in Nat
      BY MaxChunksNat DEF Checkpoint
    <2>1. ckpt'[r] # None
      BY <1>2, <2>0, <2>a, CheckpointWrites DEF PreparePCs
    <2>2. SUFFICES ASSUME \A s \in Slots : run[s] = r => s \notin behind
                   PROVE  KeepsProgress(r)
      <3>1. behind \subseteq Slots
        BY <2>0 DEF GateInv, DurableInv, TypeInv, TypeOK
      <3>2. QED
        BY <2>1, <3>1
    <2>c. ckpt[r].status = "completed" =>
             \A s \in Slots : pc[s] \in {"wave", "save_progress", "merge", "save_final"} =>
                run[s] # r
      BY <2>0, <2>2 DEF OnlyStaleRedo, Completed, PlanPCs
    <2>d. ckpt[r].status = "completed" => planFile'[r] = planFile[r]
      BY <1>2, <2>a, <2>c, PlanWrites
    <2>e. CASE UNCHANGED ckpt
      BY <2>d, <2>e, <2>a, <2>b DEF KeepsProgress
    <2>3. ASSUME NEW s \in Slots, run[s] \in Runs, pc[s] = "put_checkpoint",
                 ckpt' = [ckpt EXCEPT ![run[s]] = loc'[s]]
          PROVE  ckpt'[r] = ckpt[r]
      BY <2>3, <2>a DEF PreparePCs
    <2>4. ASSUME NEW s \in Slots, run[s] \in Runs,
                 ckpt' = [ckpt EXCEPT ![run[s]] = loc'[s]],
                 pc[s] \in {"wave", "save_progress", "save_final"},
                 loc'[s] # None, loc'[s].next \in {loc[s].next, loc[s].next + 1}
          PROVE  /\ ckpt'[r] # None /\ ckpt'[r].next >= ckpt[r].next
                 /\ ckpt[r].status = "completed" => ckpt'[r] = ckpt[r]
      <3>1. CASE run[s] = r
        <4>1. ckpt'[r] = loc'[s]
          BY <2>4, <2>a, <3>1
        <4>2. ckpt[r].next <= loc[s].next
          BY <2>0, <2>2, <2>4, <3>1 DEF LocalsCurrent, PlanPCs
        <4>3. loc[s] \in Checkpoint /\ loc[s].next \in Nat /\ ckpt[r].next \in Nat
          BY <2>4, <2>a, <2>b DEF HoldsCheckpoint, PlanPCs
        <4>4. ckpt[r].next <= loc'[s].next
          BY <2>4, <4>2, <4>3
        <4>5. ckpt[r].status # "completed"
          BY <2>4, <2>c, <3>1
        <4>6. QED
          BY <2>4, <4>1, <4>4, <4>5
      <3>2. CASE run[s] # r
        BY <2>4, <2>a, <2>b, <3>2
      <3>3. QED
        BY <3>1, <3>2
    <2>5. QED
      BY <1>2, <2>0, <2>d, <2>e, <2>3, <2>4, <2>a, <2>b, CheckpointWrites DEF KeepsProgress
  <1>3. ProgressInv /\ [Next]_vars =>
          [\A r \in Runs : ckpt[r] # None =>
              /\ ckpt'[r] # None
              /\ KeepsProgress(r) \/ \E s \in behind : run[s] = r]_vars
    BY <1>2 DEF NeverRegresses
  <1>4. QED
    BY <1>1, <1>3, PTL DEF Spec, CheckpointNeverRegresses

-------------------------------------------------------------------------------
(***************************************************************************)
(* The refinement: what a run decides, publishes and ends as               *)
(***************************************************************************)

\* A new execution works for no run and has applied nothing.
LEMMA InitRefine == Init => RefineInv
  <1>1. Init => TaskRun /\ AppliedIsDecided
    BY DEF Init, TaskRun, AppliedIsDecided, PlanPCs
  <1>2. QED
    BY <1>1, InitGate DEF RefineInv

\* The run in the payload is the one every later task works for, and Apply
\* applies the plan decided on, and nothing else.
LEMMA RefineStep ==
    ASSUME ~Zombies
    PROVE  RefineInv /\ [Next]_vars => RefineInv'
  <1> SUFFICES ASSUME RefineInv, [Next]_vars PROVE TaskRun' /\ AppliedIsDecided'
    BY GateStep DEF RefineInv
  <1> USE DEF TaskRun, AppliedIsDecided, PlanPCs, PreparePCs, ApplyPCs, TaskStates
  <1>0. GateInv /\ TaskRun /\ AppliedIsDecided
    BY DEF RefineInv
  <1>a. /\ run \in [Slots -> Runs \cup {None}] /\ pc \in [Slots -> PCs]
        /\ loc \in [Slots -> Checkpoint \cup {None}]
        /\ ckpt \in [Runs -> Checkpoint \cup {None}]
        /\ planFile \in [Runs -> Plans \cup {None}]
        /\ buf \in [Slots -> Plans]
        /\ \A s \in Slots : pc[s] # "idle" =>
              /\ run[s] \in Runs /\ task = s /\ sfn \in TaskStates
              /\ \A t \in Slots \ {s} : pc[t] = "idle"
        /\ \A s \in Slots : pc[s] \in HoldsCheckpoint => loc[s] # None
        /\ \A s \in Slots : pc[s] \in PreparePCs => sfn = "Prepare"
        /\ \A s \in Slots : pc[s] \in PlanPCs => sfn = "PlanAll"
        /\ \A s \in Slots : pc[s] \in ApplyPCs => sfn = "Apply"
        /\ sfn \in {"PlanMore", "PlanAll", "Apply"} => payload # None
    BY <1>0, GateControl, ConstantsAssumption
  <1>b. sfn \notin {"Apply", "Applied", "Failed"} => applied = {}
    BY <1>0
  <1>1. CASE PlanMore
    <2>1. sfn = "PlanMore" /\ \A s \in Slots : pc[s] = "idle"
      BY <1>a, <1>1 DEF PlanMore
    <2>2. sfn' \in {"PlanAll", "Apply", "PlanSafetyFailed", "Finalize"}
      BY <1>1 DEF PlanMore, Choice
    <2>3. UNCHANGED <<payload, planFile, ckpt, redone, applied, pc>>
      BY <1>1 DEF PlanMore, storeVars
    <2>4. QED
      BY <1>b, <2>1, <2>2, <2>3
  <1>2. ASSUME NEW s \in Slots, Start(s) PROVE TaskRun' /\ AppliedIsDecided'
    <2>1. /\ task = None
          /\ UNCHANGED <<sfn, payload, planFile, applied, ckpt, redone, loc, buf>>
          /\ pc'[s] \in {"export", "get", "load"}
          /\ pc'[s] = "get" => run'[s] = payload.run
          /\ \A t \in Slots \ {s} : pc'[t] = pc[t] /\ run'[t] = run[t]
      BY <1>a, <1>2 DEF Start, StartPrepare, StartPlanAll, StartApply, Invoke, storeVars
    <2>2. QED
      BY <1>0, <1>a, <2>1
  <1>3. ASSUME NEW s \in Slots, Prepare(s) PROVE TaskRun' /\ AppliedIsDecided'
    <2>1. /\ pc[s] \in PreparePCs /\ pc'[s] \in PreparePCs \cup {"return"}
          /\ \A t \in Slots \ {s} : pc'[t] = pc[t]
          /\ UNCHANGED <<sfn, payload, planFile, redone, applied, run>>
          /\ pc'[s] = "return" => loc' = loc /\ pc[s] = "put_checkpoint"
      BY <1>a, <1>3
      DEF Prepare, Export, PutListings, PutManifest, PutNewCheckpoint, sfnVars,
          storeVars, slotVars
    <2>2. sfn = "Prepare" /\ applied = {} /\ \A t \in Slots \ {s} : pc'[t] = "idle"
      BY <1>a, <1>b, <2>1
    <2>3. pc[s] = "put_checkpoint" => loc[s].status = "pending"
      BY <1>0 DEF GateInv, VerdictPending
    <2>4. QED
      BY <1>0, <2>1, <2>2, <2>3
  <1>4. ASSUME NEW s \in Slots, PlanAll(s) PROVE TaskRun' /\ AppliedIsDecided'
    <2>1. /\ pc[s] \in PlanPCs /\ pc'[s] \in PlanPCs \cup {"return"}
          /\ \A t \in Slots \ {s} : pc'[t] = pc[t]
          /\ UNCHANGED <<sfn, payload, applied, run>>
      BY <1>a, <1>4
      DEF PlanAll, GetCompleted, GetCheckpoint, PlanChunk, SaveProgress, PauseWave,
          BeginMerge, ReadChunkPlan, PutPlan, SaveFinal, sfnVars, slotVars
    <2>2. sfn = "PlanAll" /\ applied = {} /\ \A t \in Slots \ {s} : pc'[t] = "idle"
      BY <1>a, <1>b, <2>1
    <2>3. QED
      BY <1>0, <2>1, <2>2
  <1>5. ASSUME NEW s \in Slots, Apply(s) PROVE TaskRun' /\ AppliedIsDecided'
    <2>1. /\ sfn = "Apply" /\ payload # None /\ run[s] \in Runs /\ run[s] = payload.run
          /\ payload.run \notin redone => ckpt[payload.run].status = "completed"
          /\ \A t \in Slots \ {s} : pc[t] = "idle"
          /\ UNCHANGED <<sfn, payload, planFile, ckpt, redone, run, loc>>
      <3>1. pc[s] \in ApplyPCs
        BY <1>5 DEF Apply, LoadPlan, SubmitPlan
      <3>2. sfn = "Apply" /\ payload # None /\ run[s] \in Runs
            /\ \A t \in Slots \ {s} : pc[t] = "idle"
        BY <1>a, <3>1
      <3>3. /\ run[s] = payload.run
            /\ payload.run \notin redone => ckpt[payload.run].status = "completed"
        BY <1>0, <3>1, <3>2 DEF GateInv, ApplySafe, PayloadIsVerdict
      <3>4. UNCHANGED <<sfn, payload, planFile, ckpt, redone, run, loc>>
        BY <1>5 DEF Apply, LoadPlan, SubmitPlan, sfnVars, storeVars, slotVars
      <3>5. QED
        BY <3>2, <3>3, <3>4
    <2>2. CASE LoadPlan(s)
      <3>1. /\ buf'[s] = planFile[run[s]] /\ applied' = applied
            /\ pc'[s] = "submit" /\ \A t \in Slots \ {s} : pc'[t] = pc[t]
        BY <1>a, <2>2 DEF LoadPlan
      <3>2. QED
        BY <1>0, <2>1, <3>1
    <2>3. CASE SubmitPlan(s)
      <3>1. /\ buf[s] = planFile[run[s]] /\ buf' = buf
            /\ applied' = applied \cup {[run |-> run[s], plan |-> buf[s]]}
            /\ pc'[s] = "return" /\ \A t \in Slots \ {s} : pc'[t] = "idle"
        BY <1>0, <1>a, <2>1, <2>3 DEF SubmitPlan, slotVars
      <3>2. \A a \in applied' : a.run = payload.run /\ a.plan = planFile[a.run]
        BY <1>0, <2>1, <3>1
      <3>3. applied' # {}
        BY <3>1
      <3>4. TaskRun'
        BY <1>0, <2>1, <3>1
      <3>5. AppliedIsDecided'
        BY <1>0, <2>1, <3>1, <3>2, <3>3
      <3>6. QED
        BY <3>4, <3>5
    <2>4. QED
      BY <1>5, <2>2, <2>3 DEF Apply
  <1>6. ASSUME NEW s \in Slots, Return(s) PROVE TaskRun' /\ AppliedIsDecided'
    <2>1. /\ pc[s] = "return" /\ task = s /\ run[s] \in Runs
          /\ \A t \in Slots \ {s} : pc[t] = "idle"
          /\ UNCHANGED <<planFile, ckpt, redone, applied>>
      BY <1>a, <1>6 DEF Return, storeVars
    <2>2. \A t \in Slots : pc'[t] = "idle"
      BY <1>a, <1>6, <2>1 DEF Return, Vacate
    <2>3. CASE sfn = "Prepare"
      BY <1>6, <1>b, <2>1, <2>2, <2>3 DEF Return
    <2>4. CASE sfn = "PlanAll"
      BY <1>6, <1>b, <2>1, <2>2, <2>4 DEF Return
    <2>5. CASE sfn = "Apply"
      BY <1>0, <1>6, <2>1, <2>2, <2>5 DEF Return
    <2>6. QED
      BY <1>a, <2>1, <2>3, <2>4, <2>5
  <1>7. ASSUME NEW s \in Slots, Raise(s) \/ LoseInvocation(s)
        PROVE  TaskRun' /\ AppliedIsDecided'
    <2>1. /\ task = s \/ pc[s] # "idle"
          /\ UNCHANGED <<payload, planFile, ckpt, redone, applied>>
          /\ Vacate(s)
          /\ sfn' \in {sfn, "Failed"}
      BY <1>7, ConstantsAssumption DEF Raise, LoseInvocation, storeVars
    <2>a. pc[s] # "idle" /\ sfn \in TaskStates
      <3>1. task = s => pc[s] # "idle"
        <4>1. TaskOK
          BY <1>0 DEF GateInv, DurableInv, TypeInv
        <4>2. task = s => task # None
          BY ConstantsAssumption
        <4>3. QED
          BY <4>1, <4>2 DEF TaskOK
      <3>2. QED
        BY <1>a, <2>1, <3>1
    <2>2. \A t \in Slots : pc'[t] = "idle"
      <3>1. \A t \in Slots \ {s} : pc[t] = "idle"
        BY <1>a, <2>a
      <3>2. QED
        BY <1>a, <2>1, <3>1 DEF Vacate
    <2>3. QED
      BY <1>0, <2>1, <2>2, <2>a
  <1>8. CASE UNCHANGED vars
    BY <1>0, <1>8 DEF vars, sfnVars, storeVars, slotVars
  <1>9. QED
    BY <1>1, <1>2, <1>3, <1>4, <1>5, <1>6, <1>7, <1>8 DEF Next, Handler, Ended

\* A new execution is a new run of the abstract machine.
LEMMA InitRefines == Init => Promise!Init
  BY DEF Init, Promise!Init, Decided, Reopened, Outcome, Modes

\* A step that changes none of the abstract variables is a stutter.
LEMMA Stutter ==
    ASSUME UNCHANGED <<mode, Decided, Reopened, applied, Outcome>>
    PROVE  UNCHANGED Promise!vars
  BY DEF Promise!vars

\* What the abstract variables are, under the invariant.
LEMMA AbstractState ==
    ASSUME RefineInv
    PROVE  /\ sfn \in TaskStates \cup {"PlanMore"} <=> Outcome = "running"
           /\ payload # None => ckpt[payload.run] # None
           /\ payload # None /\ ckpt[payload.run].status = "completed" =>
                 /\ Decided = planFile[payload.run] /\ Decided \in Plans /\ Decided # None
                 /\ ~Reopened => ckpt[payload.run].safety = SafePlan(Decided)
           /\ payload # None /\ ckpt[payload.run].status # "completed" => Decided = None
           /\ payload = None => Decided = None /\ ~Reopened
           /\ sfn \in {"Prepare", "PlanAll", "PlanMore"} => applied = {}
  <1>1. /\ payload # None => payload.run \in Runs
        /\ ckpt \in [Runs -> Checkpoint \cup {None}]
        /\ planFile \in [Runs -> Plans \cup {None}]
    BY GateControl DEF RefineInv, Payload
  <1>2. sfn \in TaskStates \cup {"PlanMore"} \cup EndStates
    BY DEF RefineInv, GateInv, DurableInv, TypeInv, TypeOK
  <1>3. VerdictStands /\ AppliedIsDecided /\ CheckpointsBacked
    BY DEF RefineInv, GateInv, DurableInv
  <1>4. sfn \in TaskStates \cup {"PlanMore"} <=> Outcome = "running"
    BY <1>2 DEF Outcome, TaskStates, EndStates
  <1>5. payload # None => ckpt[payload.run] # None
    BY DEF RefineInv, GateInv, DurableInv, OthersHaveCheckpoint
  <1>6. payload # None /\ ckpt[payload.run].status = "completed" =>
           /\ Decided = planFile[payload.run] /\ Decided \in Plans /\ Decided # None
           /\ ~Reopened => ckpt[payload.run].safety = SafePlan(Decided)
    BY <1>1, <1>3, <1>5
    DEF Decided, Reopened, VerdictStands, Completed, CheckpointsBacked, Backed, Readable
  <1>7. payload # None /\ ckpt[payload.run].status # "completed" => Decided = None
    BY <1>5 DEF Decided
  <1>8. payload = None => Decided = None /\ ~Reopened
    BY DEF Decided, Reopened
  <1>9. sfn \in {"Prepare", "PlanAll", "PlanMore"} => applied = {}
    BY <1>3 DEF AppliedIsDecided
  <1>10. QED
    BY <1>4, <1>5, <1>6, <1>7, <1>8, <1>9

\* Between two tasks only the Choice happens: it refuses an unsafe plan, lets a
\* safe dry run finish, and otherwise goes on.
LEMMA ChoiceRefines ==
    ASSUME RefineInv, PlanMore
    PROVE  [Promise!Next]_(Promise!vars)
  <1>1. /\ sfn = "PlanMore" /\ sfn' = Choice
        /\ UNCHANGED <<mode, payload, planFile, ckpt, redone, applied>>
    BY DEF PlanMore, storeVars
  <1>2. UNCHANGED <<mode, Decided, Reopened, applied>>
    BY <1>1 DEF Decided, Reopened
  <1>3. Outcome = "running"
    BY <1>1, AbstractState
  <1>4. payload \in Payload /\ payload # None
    BY <1>1, GateControl, ConstantsAssumption DEF RefineInv
  <1>5. ~payload.more =>
           Reopened \/ (Decided # None /\ payload.safety = SafePlan(Decided))
    BY <1>1, <1>4, AbstractState DEF RefineInv, GateInv, PayloadIsVerdict, Reopened
  <1>6. /\ payload.mode = mode /\ mode \in Modes
        /\ ~payload.more => payload.safety # None
    BY <1>1, <1>4
    DEF RefineInv, GateInv, ChoiceInv, ModeKept, AnswerDecides, TypeInv, TypeOK
  <1>7. CASE payload.more \/ (~payload.more /\ payload.safety = TRUE /\ payload.mode = "LIVE")
    <2>1. Choice \in {"PlanAll", "Apply"}
      BY <1>7 DEF Choice
    <2>2. Outcome' = "running"
      BY <1>1, <2>1 DEF Outcome
    <2>3. QED
      BY <1>2, <1>3, <2>2, Stutter
  <1>8. CASE ~payload.more /\ payload.safety = FALSE
    <2>1. Outcome' = "refused"
      BY <1>1, <1>8 DEF Choice, Outcome
    <2>2. Reopened \/ (Decided # None /\ ~SafePlan(Decided))
      BY <1>5, <1>8
    <2>3. Promise!End
      BY <1>2, <1>3, <2>1, <2>2 DEF Promise!End, Promise!Endings
    <2>4. QED
      BY <2>3 DEF Promise!Next
  <1>9. CASE ~payload.more /\ payload.safety = TRUE /\ payload.mode # "LIVE"
    <2>1. Outcome' = "finished"
      BY <1>1, <1>9 DEF Choice, Outcome
    <2>2. (Reopened \/ (Decided # None /\ SafePlan(Decided))) /\ mode = "DRY_RUN"
      BY <1>5, <1>6, <1>9 DEF Modes
    <2>3. Promise!End
      BY <1>2, <1>3, <2>1, <2>2 DEF Promise!End, Promise!Endings
    <2>4. QED
      BY <2>3 DEF Promise!Next
  <1>10. QED
    BY <1>4, <1>6, <1>7, <1>8, <1>9 DEF Payload

\* Starting a task, preparing, and everything PlanAll does before its last
\* save, leave the decision open; the last save decides.  A handler that plans
\* a completed run again, for want of the last item, reopens the decision.
LEMMA HandlerRefines ==
    ASSUME RefineInv, NEW s \in Slots, Start(s) \/ Prepare(s) \/ PlanAll(s)
    PROVE  [Promise!Next]_(Promise!vars)
  <1>0. GateInv /\ TaskRun /\ OnlyStaleRedo /\ VerdictPending /\ LocalsBacked
    BY DEF RefineInv, GateInv, DurableInv
  <1>a. /\ \A t \in Slots : pc[t] # "idle" => run[t] \in Runs
        /\ loc \in [Slots -> Checkpoint \cup {None}]
        /\ ckpt \in [Runs -> Checkpoint \cup {None}]
        /\ planFile \in [Runs -> Plans \cup {None}]
        /\ buf \in [Slots -> Plans]
        /\ \A t \in Slots : pc[t] \in HoldsCheckpoint => loc[t] \in Checkpoint /\ loc[t] # None
        /\ \A t \in Slots : pc[t] \in PreparePCs => sfn = "Prepare"
        /\ \A t \in Slots : pc[t] \in PlanPCs => sfn = "PlanAll"
        /\ sfn = "PlanAll" => payload # None
    BY <1>0, GateControl, ConstantsAssumption DEF HoldsCheckpoint, PreparePCs, PlanPCs, PCs
  <1> USE DEF PreparePCs, PlanPCs
  <1>1. ASSUME UNCHANGED <<mode, sfn, payload, applied, ckpt, planFile, redone>>
        PROVE  UNCHANGED Promise!vars
    <2>1. UNCHANGED <<Decided, Reopened, Outcome>>
      BY <1>1 DEF Decided, Reopened, Outcome
    <2>2. QED
      BY <1>1, <2>1, Stutter
  <1>2. CASE Start(s)
    BY <1>1, <1>2 DEF Start, StartPrepare, StartPlanAll, StartApply, Invoke, storeVars
  <1>3. CASE Prepare(s)
    <2>1. /\ pc[s] \in PreparePCs
          /\ UNCHANGED <<mode, sfn, payload, applied, planFile, redone>>
      BY <1>3 DEF Prepare, Export, PutListings, PutManifest, PutNewCheckpoint, sfnVars, storeVars
    <2>2. payload = None
      BY <1>0, <1>a, <2>1 DEF TaskRun
    <2>3. UNCHANGED <<Decided, Reopened, Outcome>>
      BY <2>1, <2>2 DEF Decided, Reopened, Outcome
    <2>4. QED
      BY <2>1, <2>3, Stutter
  <1>4. CASE PlanAll(s)
    <2>0. /\ pc[s] \in PlanPCs /\ run[s] \in Runs
          /\ UNCHANGED <<mode, sfn, payload, applied>>
      BY <1>a, <1>4
      DEF PlanAll, GetCompleted, GetCheckpoint, PlanChunk, SaveProgress, PauseWave,
          BeginMerge, ReadChunkPlan, PutPlan, SaveFinal, sfnVars
    <2>a. /\ sfn = "PlanAll" /\ payload # None /\ run[s] = payload.run
          /\ ckpt[run[s]] # None /\ applied = {}
      BY <1>0, <1>a, <2>0, AbstractState DEF TaskRun
    <2>b. Outcome = "running" /\ Outcome' = "running"
      BY <2>0, <2>a DEF Outcome
    <2>c. pc[s] # "get" /\ ckpt[run[s]].status = "completed" => run[s] \in redone
      BY <1>0, <2>0, <2>a DEF OnlyStaleRedo, Completed
    <2>d. ASSUME ckpt[run[s]].status = "completed", run[s] \in redone',
                 Decided' \in Plans \cup {None}
          PROVE  Promise!Reopen
      <3>1. Decided # None
        BY <2>a, <2>d, AbstractState
      <3>2. Reopened' /\ {p.plan : p \in applied} = {}
        BY <2>0, <2>a, <2>d DEF Reopened
      <3>3. Reopened' = TRUE
        BY <3>2 DEF Reopened
      <3>4. QED
        BY <2>0, <2>b, <2>d, <3>1, <3>2, <3>3 DEF Promise!Reopen
    <2>e. ASSUME UNCHANGED <<Decided, redone>> PROVE UNCHANGED Promise!vars
      <3>1. UNCHANGED Reopened
        BY <2>0, <2>e DEF Reopened
      <3>2. QED
        BY <2>0, <2>b, <2>e, <3>1, Stutter
    <2>1. CASE GetCompleted(s) \/ GetCheckpoint(s)
      <3>1. PICK c : Read(s, run[s], c)
        BY <2>1 DEF GetCompleted, GetCheckpoint
      <3>2. UNCHANGED <<ckpt, planFile>>
        BY <2>1 DEF GetCompleted, GetCheckpoint
      <3>3. Decided' = Decided
        BY <2>0, <3>2 DEF Decided
      <3>4. CASE redone' = redone
        BY <2>e, <3>3, <3>4
      <3>5. CASE redone' # redone
        <4>1. ckpt[run[s]].status = "completed" /\ run[s] \in redone'
          BY <3>1, <3>5 DEF Read
        <4>2. Decided \in Plans
          BY <2>a, <4>1, AbstractState
        <4>3. Promise!Reopen
          BY <2>d, <3>3, <4>1, <4>2
        <4>4. QED
          BY <4>3 DEF Promise!Next
      <3>6. QED
        BY <3>4, <3>5
    <2>2. CASE PlanChunk(s) \/ BeginMerge(s) \/ ReadChunkPlan(s)
      <3>1. UNCHANGED <<ckpt, planFile, redone>>
        BY <2>2 DEF PlanChunk, BeginMerge, ReadChunkPlan, storeVars
      <3>2. QED
        BY <1>1, <2>0, <3>1
    <2>3. CASE SaveProgress(s) \/ PauseWave(s)
      <3>1. /\ pc[s] \in {"wave", "save_progress"} /\ loc[s] \in Checkpoint
            /\ loc[s].status = "in_progress" /\ redone' = redone
        BY <1>0, <1>a, <2>3 DEF SaveProgress, PauseWave, VerdictPending, HoldsCheckpoint
      <3>2. [loc[s] EXCEPT !.next = loc[s].next + 1].status = "in_progress"
        BY <3>1 DEF Checkpoint
      <3>3. ckpt'[run[s]].status = "in_progress"
        BY <1>a, <2>0, <2>3, <3>1, <3>2 DEF SaveProgress, PauseWave, SavedItem, PutItem
      <3>4. Decided' = None
        BY <2>0, <2>a, <3>3 DEF Decided
      <3>5. CASE ckpt[run[s]].status = "completed"
        <4>1. Promise!Reopen
          BY <2>c, <2>d, <3>1, <3>4, <3>5
        <4>2. QED
          BY <4>1 DEF Promise!Next
      <3>6. CASE ckpt[run[s]].status # "completed"
        BY <2>a, <2>e, <3>1, <3>4, <3>6, AbstractState
      <3>7. QED
        BY <3>5, <3>6
    <2>4. CASE PutPlan(s)
      <3>1. /\ pc[s] = "merge" /\ UNCHANGED <<ckpt, redone>>
            /\ planFile' = [planFile EXCEPT ![run[s]] = buf[s]]
        BY <2>4 DEF PutPlan
      <3>2. CASE ckpt[run[s]].status = "completed"
        <4>1. Decided' = buf[s]
          BY <1>a, <2>0, <2>a, <3>1, <3>2 DEF Decided
        <4>2. Promise!Reopen
          BY <1>a, <2>c, <2>d, <3>1, <3>2, <4>1
        <4>3. QED
          BY <4>2 DEF Promise!Next
      <3>3. CASE ckpt[run[s]].status # "completed"
        <4>1. Decided' = None /\ Decided = None
          BY <2>0, <2>a, <3>1, <3>3 DEF Decided
        <4>2. QED
          BY <2>e, <3>1, <4>1
      <3>4. QED
        BY <3>2, <3>3
    <2>5. CASE SaveFinal(s)
      <3>1. /\ pc[s] = "save_final" /\ ckpt' = [ckpt EXCEPT ![run[s]] = loc[s]]
            /\ UNCHANGED <<planFile, redone>>
        BY <2>5 DEF SaveFinal, SavedItem, PutItem
      <3>2. /\ loc[s].status = "completed" /\ planFile[run[s]] # None
            /\ loc[s] # None
        BY <1>0, <1>a, <3>1 DEF VerdictPending, HoldsCheckpoint
      <3>3. ckpt'[payload'.run] = loc[s]
        BY <1>a, <2>0, <2>a, <3>1
      <3>4. Decided' = planFile[run[s]] /\ Decided' \in Plans
        BY <1>a, <2>0, <2>a, <3>1, <3>2, <3>3 DEF Decided
      <3>5. CASE ckpt[run[s]].status = "completed"
        <4>1. Decided' = Decided
          BY <2>a, <3>4, <3>5, AbstractState
        <4>2. QED
          BY <2>e, <3>1, <4>1
      <3>6. CASE ckpt[run[s]].status # "completed"
        <4>1. Decided = None
          BY <2>a, <3>6, AbstractState
        <4>2. UNCHANGED Reopened
          BY <2>0, <3>1 DEF Reopened
        <4>3. Promise!Decide
          BY <2>0, <2>b, <3>4, <4>1, <4>2 DEF Promise!Decide
        <4>4. QED
          BY <4>3 DEF Promise!Next
      <3>7. QED
        BY <3>5, <3>6
    <2>6. QED
      BY <1>4, <2>1, <2>2, <2>3, <2>4, <2>5 DEF PlanAll
  <1>5. QED
    BY <1>2, <1>3, <1>4

\* Apply publishes the plan decided on, of a LIVE run and found safe, unless
\* that decision was reopened.
LEMMA ApplyRefines ==
    ASSUME RefineInv, RefineInv', NEW s \in Slots, Apply(s)
    PROVE  [Promise!Next]_(Promise!vars)
  <1>1. /\ sfn = "Apply" /\ payload # None /\ run[s] = payload.run
        /\ UNCHANGED <<mode, sfn, payload, ckpt, planFile, redone>>
    <2>1. pc[s] \in ApplyPCs /\ UNCHANGED <<mode, sfn, payload, ckpt, planFile, redone>>
      BY DEF Apply, LoadPlan, SubmitPlan, ApplyPCs, sfnVars, storeVars
    <2>2. QED
      BY <2>1, GateControl, ConstantsAssumption DEF RefineInv, GateInv, ApplySafe
  <1>2. UNCHANGED <<Decided, Reopened, Outcome>>
    BY <1>1 DEF Decided, Reopened, Outcome
  <1>3. CASE LoadPlan(s)
    BY <1>1, <1>2, <1>3, Stutter DEF LoadPlan
  <1>4. CASE SubmitPlan(s)
    <2>1. /\ Reopened \/ (ckpt[payload.run].status = "completed" /\ ckpt[payload.run].safety = TRUE)
          /\ mode = "LIVE"
      BY <1>1 DEF RefineInv, GateInv, ChoiceInv, PayloadIsVerdict, ModeKept, Reopened
    <2>2. /\ pc[s] = "submit" /\ buf[s] \in Plans /\ buf[s] = planFile[payload.run]
          /\ applied' = applied \cup {[run |-> run[s], plan |-> buf[s]]}
      BY <1>1, <1>4, GateControl DEF SubmitPlan, RefineInv, AppliedIsDecided
    <2>3. Reopened \/ (buf[s] = Decided /\ SafePlan(buf[s]))
      BY <1>1, <2>1, <2>2, AbstractState
    <2>4. \A a \in applied' : a.plan = buf[s]
      <3>1. \A a \in applied' : a.run = payload'.run /\ a.plan = planFile'[a.run]
        BY DEF RefineInv, AppliedIsDecided
      <3>2. QED
        BY <1>1, <2>2, <3>1
    <2>5. /\ {a.plan : a \in applied'} = {buf[s]}
          /\ {a.plan : a \in applied} \subseteq {buf[s]}
      BY <2>2, <2>4
    <2>6. Outcome = "running"
      BY <1>1 DEF Outcome
    <2>7. Promise!Publish
      BY <1>1, <1>2, <2>1, <2>2, <2>3, <2>5, <2>6 DEF Promise!Publish
    <2>8. QED
      BY <2>7 DEF Promise!Next
  <1>5. QED
    BY <1>3, <1>4 DEF Apply

\* An answer, an error or a lost invocation moves the execution on, ends it as
\* published once Apply has applied, or ends it as failed.
LEMMA EndingRefines ==
    ASSUME RefineInv, NEW s \in Slots, Return(s) \/ Raise(s) \/ LoseInvocation(s)
    PROVE  [Promise!Next]_(Promise!vars)
  <1>0. GateInv /\ TaskRun /\ AppliedIsDecided /\ AnswerIsCheckpoint /\ TaskOK
    BY DEF RefineInv, GateInv, DurableInv, TypeInv
  <1>a. /\ pc[s] # "idle" => run[s] \in Runs /\ task = s /\ sfn \in TaskStates
        /\ ckpt \in [Runs -> Checkpoint \cup {None}]
        /\ sfn = "PlanAll" => payload # None
        /\ task = s => sfn \in TaskStates
    BY <1>0, GateControl, ConstantsAssumption DEF TaskOK
  <1> USE DEF TaskStates
  <1>1. UNCHANGED <<mode, ckpt, planFile, redone, applied>>
    BY DEF Return, Raise, LoseInvocation, sfnVars, storeVars
  <1>2. sfn \in TaskStates /\ Outcome = "running"
    <2>1. task = s \/ pc[s] # "idle"
      BY DEF Return, Raise, LoseInvocation
    <2>2. sfn \in TaskStates
      BY <1>a, <2>1
    <2>3. QED
      BY <2>2 DEF Outcome
  <1>3. CASE Return(s)
    <2>1. task = s /\ pc[s] = "return" /\ run[s] \in Runs
      BY <1>3, <1>a DEF Return
    <2>2. CASE sfn = "Prepare"
      <3>1. /\ payload = None /\ redone = {}
            /\ loc[s].status = "pending" /\ loc[s] = ckpt[run[s]]
        BY <1>0, <2>1, <2>2 DEF TaskRun, AnswerIsCheckpoint
      <3>2. sfn' = "PlanAll" /\ payload'.run = run[s]
        BY <1>3, <2>1, <2>2 DEF Return, RunContext
      <3>3. UNCHANGED <<Decided, Reopened>>
        BY <1>1, <3>1, <3>2 DEF Decided, Reopened
      <3>4. Outcome' = "running"
        BY <3>2 DEF Outcome
      <3>5. QED
        BY <1>1, <1>2, <3>3, <3>4, Stutter
    <2>3. CASE sfn = "PlanAll"
      <3>1. sfn' = "PlanMore" /\ payload'.run = run[s] /\ payload' = RunContext(s)
        BY <1>3, <2>1, <2>3 DEF Return, RunContext
      <3>2. payload # None /\ run[s] = payload.run
        BY <1>0, <1>a, <2>1, <2>3 DEF TaskRun
      <3>3. payload' # None
        <4>1. loc[s] \in Checkpoint
          BY <1>0, <2>1, <2>3, GateControl DEF TaskOK
        <4>2. RunContext(s) \in Payload
          BY <2>1, <4>1 DEF RunContext, More, Payload, Checkpoint
        <4>3. QED
          BY <3>1, <4>2, ConstantsAssumption
      <3>4. UNCHANGED <<Decided, Reopened>>
        BY <1>1, <3>1, <3>2, <3>3 DEF Decided, Reopened
      <3>5. Outcome' = "running"
        BY <3>1 DEF Outcome
      <3>6. QED
        BY <1>1, <1>2, <3>4, <3>5, Stutter
    <2>4. CASE sfn = "Apply"
      <3>1. applied # {}
        BY <1>0, <2>1, <2>4 DEF AppliedIsDecided
      <3>2. sfn' = "Applied" /\ payload' = payload
        BY <1>3, <2>1, <2>4 DEF Return
      <3>3. UNCHANGED <<Decided, Reopened>> /\ Outcome' = "published"
        BY <1>1, <3>2 DEF Decided, Reopened, Outcome
      <3>4. {a.plan : a \in applied} # {}
        BY <3>1
      <3>5. Promise!End
        BY <1>1, <1>2, <3>3, <3>4 DEF Promise!End, Promise!Endings
      <3>6. QED
        BY <3>5 DEF Promise!Next
    <2>5. QED
      BY <1>2, <2>2, <2>3, <2>4
  <1>4. CASE Raise(s) \/ LoseInvocation(s)
    <2>1. payload' = payload /\ sfn' \in {sfn, "Failed"}
      BY <1>4 DEF Raise, LoseInvocation
    <2>2. UNCHANGED <<Decided, Reopened>>
      BY <1>1, <2>1 DEF Decided, Reopened
    <2>3. CASE sfn' = sfn
      <3>1. UNCHANGED Outcome
        BY <2>3 DEF Outcome
      <3>2. QED
        BY <1>1, <2>2, <3>1, Stutter
    <2>4. CASE sfn' = "Failed"
      <3>1. Outcome' = "failed"
        BY <2>4 DEF Outcome
      <3>2. Promise!End
        BY <1>1, <1>2, <2>2, <3>1 DEF Promise!End, Promise!Endings
      <3>3. QED
        BY <3>2 DEF Promise!Next
    <2>5. QED
      BY <2>1, <2>3, <2>4
  <1>5. QED
    BY <1>3, <1>4

\* Every step of the state machine and its handlers is a step of the abstract
\* run, or does not show there.
LEMMA StepRefines ==
    ASSUME RefineInv, RefineInv', [Next]_vars
    PROVE  [Promise!Next]_(Promise!vars)
  <1>1. CASE Ended \/ UNCHANGED vars
    <2>1. UNCHANGED <<mode, sfn, payload, ckpt, planFile, redone, applied>>
      BY <1>1 DEF Ended, vars, sfnVars, storeVars
    <2>2. UNCHANGED <<Decided, Reopened, Outcome>>
      BY <2>1 DEF Decided, Reopened, Outcome
    <2>3. QED
      BY <2>1, <2>2, Stutter
  <1>2. QED
    BY <1>1, ChoiceRefines, HandlerRefines, ApplyRefines, EndingRefines DEF Next, Handler

\* The whole state machine, its waves, crashes and retries included, decides on
\* one plan, once; publishes that plan and no other, only when LIVE and safe;
\* and ends saying what it did.  Only a read that missed the completed checkpoint
\* reopens the decision, and never once a plan is published.
THEOREM RefinesGatedRun ==
    ASSUME ~Zombies
    PROVE  Spec => Promise!Safety
  <1>1. Spec => []RefineInv
    BY InitRefine, RefineStep, PTL DEF Spec
  <1>2. RefineInv /\ RefineInv' /\ [Next]_vars => [Promise!Next]_(Promise!vars)
    BY StepRefines
  <1>3. []RefineInv /\ [][Next]_vars => [][Promise!Next]_(Promise!vars)
    BY <1>2, PTL
  <1>4. QED
    BY <1>1, <1>3, InitRefines, PTL DEF Spec, Promise!Safety
===============================================================================
