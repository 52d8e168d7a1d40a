------------------------ MODULE ProjectPipeline_proofs ------------------------
(***************************************************************************)
(* Proofs about ChangeBatcher, for every set of paths, every exclusion     *)
(* policy and every maximum: its types, the agreement of its two path      *)
(* collections, its settling timer and the wholeness of what it settles.   *)
(* Then about ProjectPipeline: its batcher behaves as a ChangeBatcher, a   *)
(* stop or a recovery leaves no broadcast live, and no decision reaches    *)
(* the browsers twice; and it implements ReloadDecisions.                  *)
(***************************************************************************)
EXTENDS ProjectPipeline, FiniteSetTheorems, TLAPS

USE DEF burstVars, timerVars, ClearBurst, Included

(* What appending one new element does to a duplicate-free sequence.       *)
LEMMA AppendNew ==
    ASSUME NEW S, NEW s \in Seq(S), NEW x \in S, x \notin ToSet(s), IsInjective(s)
    PROVE  /\ Append(s, x) \in Seq(S)
           /\ Len(Append(s, x)) = Len(s) + 1
           /\ ToSet(Append(s, x)) = ToSet(s) \union {x}
           /\ IsInjective(Append(s, x))
  <1>1. Append(s, x) \in Seq(S) /\ Len(Append(s, x)) = Len(s) + 1 /\ Len(s) \in Nat
    OBVIOUS
  <1>2. DOMAIN s = 1 .. Len(s) /\ DOMAIN Append(s, x) = 1 .. Len(s) + 1
    BY <1>1
  <1>3. /\ \A i \in DOMAIN s : Append(s, x)[i] = s[i]
        /\ Append(s, x)[Len(s) + 1] = x
    OBVIOUS
  <1>4. \A i \in 1 .. Len(s) + 1 : i \in DOMAIN s \/ i = Len(s) + 1
    BY <1>1, <1>2
  <1>5. ToSet(Append(s, x)) = ToSet(s) \union {x}
    BY <1>1, <1>2, <1>3, <1>4 DEF ToSet
  <1>6. \A i \in DOMAIN s : s[i] # x
    BY DEF ToSet
  <1>7. IsInjective(Append(s, x))
    BY <1>1, <1>2, <1>3, <1>4, <1>6 DEF IsInjective
  <1> QED BY <1>1, <1>5, <1>7

(* An empty sequence has no elements and no duplicates.                    *)
LEMMA EmptySequence == ToSet(<<>>) = {} /\ IsInjective(<<>>) /\ Len(<<>>) = 0
  BY DEF ToSet, IsInjective

(* Every variable of the batcher keeps its type.                           *)
THEOREM BatcherTypeCorrect == BatcherSpec => []BatcherTypeOK
  <1>1. BatcherInit => BatcherTypeOK
    BY DEF BatcherInit, BatcherTypeOK, NoGeneration
  <1>2. BatcherTypeOK /\ [BatcherNext]_batcherVars => BatcherTypeOK'
    <2> SUFFICES ASSUME BatcherTypeOK, [BatcherNext]_batcherVars
                 PROVE  BatcherTypeOK'
      OBVIOUS
    <2> USE DEF BatcherTypeOK, TaskRecords, NoGeneration
    <2>0. CancelHeldTask \subseteq TaskRecords
      BY DEF CancelHeldTask
    <2>1. ASSUME NEW p \in Paths, Submit(p) PROVE BatcherTypeOK'
      <3>1. Append(orderedPaths, p) \in Seq(Paths \ Excluded)
        BY <2>1 DEF Submit
      <3>2. CASE p \notin paths /\ Len(orderedPaths) >= MaximumPathCount
        BY <2>1, <3>2, BatcherConstants DEF Submit
      <3>3. ASSUME RestartTimer
            PROVE  generation' \in Nat /\ scheduledGeneration' \in Nat
                   /\ settleTask' \in Nat /\ tasks' \subseteq TaskRecords
        <4>1. generation + 1 \in Nat
          OBVIOUS
        <4>2. Task(generation + 1, "mark") \in TaskRecords
          BY <4>1 DEF Task
        <4> QED BY <4>1, <4>2, <2>0, <3>3 DEF RestartTimer
      <3> QED BY <2>1, <3>1, <3>2, <3>3 DEF Submit
    <2>2. ASSUME NEW p \in Paths, SubmitExcluded(p) PROVE BatcherTypeOK'
      BY <2>2 DEF SubmitExcluded, batcherVars
    <2>3. CASE Cancel
      BY <2>3, <2>0 DEF Cancel
    <2>4. ASSUME NEW t \in tasks, MarkSettlementScheduled(t) PROVE BatcherTypeOK'
      BY <2>4 DEF MarkSettlementScheduled
    <2>5. ASSUME NEW t \in tasks, SleepElapses(t) PROVE BatcherTypeOK'
      BY <2>5 DEF SleepElapses
    <2>6. ASSUME NEW t \in tasks, SleepThrows(t) PROVE BatcherTypeOK'
      BY <2>6 DEF SleepThrows
    <2>7. ASSUME NEW t \in tasks, Settle(t) PROVE BatcherTypeOK'
      <3>1. CASE MaySettle(t)
        <4>1. orderedPaths \in Seq(Paths)
          OBVIOUS
        <4>2. [generation |-> t.generation, paths |-> orderedPaths,
               classification |-> Classification(ToSet(orderedPaths))] \in Batch
          BY <4>1 DEF Batch, Classification
        <4> QED BY <2>7, <3>1, <4>2 DEF Settle
      <3>2. CASE ~MaySettle(t)
        BY <2>7, <3>2 DEF Settle
      <3> QED BY <3>1, <3>2
    <2>8. ASSUME NEW b \in settled, Handle(b) PROVE BatcherTypeOK'
      BY <2>8 DEF Handle
    <2>9. CASE UNCHANGED batcherVars
      BY <2>9 DEF batcherVars
    <2> QED BY <2>1, <2>2, <2>3, <2>4, <2>5, <2>6, <2>7, <2>8, <2>9
            DEF BatcherNext, TaskStep
  <1> QED BY <1>1, <1>2, PTL DEF BatcherSpec

(* The de-duplication set and the ordered list agree, whatever the limit.  *)
THEOREM PathsAlwaysMatchOrder == BatcherSpec => []PathsMatchOrder
  <1>1. BatcherInit => PathsMatchOrder
    BY EmptySequence, BatcherConstants DEF BatcherInit, PathsMatchOrder
  <1>2. BatcherTypeOK /\ PathsMatchOrder /\ [BatcherNext]_batcherVars => PathsMatchOrder'
    <2> SUFFICES ASSUME BatcherTypeOK, PathsMatchOrder, [BatcherNext]_batcherVars
                 PROVE  PathsMatchOrder'
      OBVIOUS
    <2>1. ASSUME UNCHANGED <<orderedPaths, paths>> PROVE PathsMatchOrder'
      BY <2>1 DEF PathsMatchOrder
    <2>2. ASSUME orderedPaths' = <<>>, paths' = {} PROVE PathsMatchOrder'
      BY <2>2, EmptySequence, BatcherConstants DEF PathsMatchOrder
    <2>3. ASSUME NEW p \in Paths, Submit(p) PROVE PathsMatchOrder'
      <3>1. CASE p \notin paths /\ Len(orderedPaths) < MaximumPathCount
        <4>1. /\ ToSet(Append(orderedPaths, p)) = ToSet(orderedPaths) \union {p}
              /\ IsInjective(Append(orderedPaths, p))
              /\ Len(Append(orderedPaths, p)) = Len(orderedPaths) + 1
          BY <2>3, <3>1, AppendNew DEF Submit, BatcherTypeOK, PathsMatchOrder
        <4>2. orderedPaths' = Append(orderedPaths, p) /\ paths' = paths \union {p}
          BY <2>3, <3>1, BatcherConstants DEF Submit, BatcherTypeOK
        <4>3. Len(orderedPaths) + 1 <= MaximumPathCount
          BY <3>1, BatcherConstants DEF BatcherTypeOK
        <4> QED BY <4>1, <4>2, <4>3 DEF PathsMatchOrder
      <3>2. CASE p \in paths \/ Len(orderedPaths) >= MaximumPathCount
        BY <2>1, <2>3, <3>2, BatcherConstants DEF Submit, BatcherTypeOK
      <3> QED BY <3>1, <3>2, BatcherConstants DEF BatcherTypeOK
    <2>4. CASE \E p \in Paths : SubmitExcluded(p)
      BY <2>1, <2>4 DEF SubmitExcluded, batcherVars
    <2>5. CASE Cancel
      BY <2>2, <2>5 DEF Cancel
    <2>6. CASE TaskStep
      BY <2>1, <2>2, <2>6
         DEF TaskStep, MarkSettlementScheduled, SleepElapses, SleepThrows, Settle
    <2>7. CASE (\E b \in settled : Handle(b)) \/ UNCHANGED batcherVars
      BY <2>1, <2>7 DEF Handle, batcherVars
    <2> QED BY <2>3, <2>4, <2>5, <2>6, <2>7 DEF BatcherNext
  <1> QED BY <1>1, <1>2, BatcherTypeCorrect, PTL DEF BatcherSpec

(* A pending burst is never left without a timer that will settle it.      *)
THEOREM PendingAlwaysHasTimer == BatcherSpec => []PendingHasTimer
  <1>1. BatcherInit => PendingHasTimer
    BY DEF BatcherInit, PendingHasTimer
  <1>2. BatcherTypeOK /\ PendingHasTimer /\ [BatcherNext]_batcherVars => PendingHasTimer'
    <2> SUFFICES ASSUME BatcherTypeOK, PendingHasTimer, [BatcherNext]_batcherVars,
                        orderedPaths' # <<>>
                 PROVE  \E t \in tasks' : t.generation = generation' /\ ~t.cancelled
      BY DEF PendingHasTimer
    <2> DEFINE Live(t) == t.generation = generation /\ ~t.cancelled
    <2>1. ASSUME RestartTimer
          PROVE  \E t \in tasks' : t.generation = generation' /\ ~t.cancelled
      <3>1. Task(generation + 1, "mark") \in tasks'
        BY <2>1 DEF RestartTimer
      <3> QED BY <2>1, <3>1 DEF RestartTimer, Task
    <2>2. ASSUME UNCHANGED <<orderedPaths, generation, tasks>>
          PROVE  \E t \in tasks' : t.generation = generation' /\ ~t.cancelled
      BY <2>2 DEF PendingHasTimer
    <2>3. ASSUME NEW p \in Paths, Submit(p)
          PROVE  \E t \in tasks' : t.generation = generation' /\ ~t.cancelled
      BY <2>1, <2>2, <2>3 DEF Submit
    <2>4. CASE \E p \in Paths : SubmitExcluded(p)
      BY <2>2, <2>4 DEF SubmitExcluded, batcherVars
    <2>5. CASE Cancel
      BY <2>5 DEF Cancel
    <2>6. CASE TaskStep
      <3>1. PICK t \in tasks : \/ MarkSettlementScheduled(t)
                              \/ SleepElapses(t)
                              \/ SleepThrows(t)
                              \/ Settle(t)
        BY <2>6 DEF TaskStep
      <3>2. orderedPaths # <<>> /\ generation' = generation
        BY <3>1 DEF MarkSettlementScheduled, SleepElapses, SleepThrows, Settle
      <3>3. PICK live \in tasks : Live(live)
        BY <3>2 DEF PendingHasTimer
      <3>4. ASSUME live # t PROVE live \in tasks'
        BY <3>1, <3>4 DEF MarkSettlementScheduled, SleepElapses, SleepThrows, Settle
      <3>5. CASE live = t
        <4>1. ASSUME NEW step, tasks' = (tasks \ {t}) \union {[t EXCEPT !.step = step]}
              PROVE  \E u \in tasks' : u.generation = generation' /\ ~u.cancelled
          <5>1. [t EXCEPT !.step = step] \in tasks'
            BY <4>1
          <5>2. /\ [t EXCEPT !.step = step].generation = generation'
                /\ ~[t EXCEPT !.step = step].cancelled
            BY <3>2, <3>3, <3>5 DEF BatcherTypeOK, TaskRecords
          <5> QED BY <5>1, <5>2
        <4>2. ~SleepThrows(t) /\ ~Settle(t)
          BY <3>2, <3>3, <3>5 DEF SleepThrows, Settle, MaySettle
        <4> QED BY <3>1, <4>1, <4>2 DEF MarkSettlementScheduled, SleepElapses
      <3> QED BY <3>2, <3>3, <3>4, <3>5
    <2>7. CASE (\E b \in settled : Handle(b)) \/ UNCHANGED batcherVars
      BY <2>2, <2>7 DEF Handle, batcherVars
    <2> QED BY <2>3, <2>4, <2>5, <2>6, <2>7 DEF BatcherNext
  <1> QED BY <1>1, <1>2, BatcherTypeCorrect, PTL DEF BatcherSpec

(* What the batcher holds is typed, in order, and never without a timer.   *)
THEOREM BatcherInvariant == BatcherSpec => []BatcherInv
  <1>1. BatcherTypeOK /\ PathsMatchOrder /\ PendingHasTimer => BatcherInv
    BY DEF BatcherInv
  <1> QED BY <1>1, BatcherTypeCorrect, PathsAlwaysMatchOrder, PendingAlwaysHasTimer, PTL

(* A duplicate-free sequence has as many elements as places.               *)
LEMMA LengthIsCardinality ==
    ASSUME NEW S, NEW s \in Seq(S), IsInjective(s)
    PROVE  IsFiniteSet(ToSet(s)) /\ Cardinality(ToSet(s)) = Len(s)
  <1> DEFINE n == Len(s)
             T == ToSet(s)
  <1>1. s \in Bijection(1 .. n, T)
    BY DEF IsInjective, ToSet, Bijection, Injection, Surjection
  <1>2. n \in Nat
    OBVIOUS
  <1> HIDE DEF n, T
  <1>3. IsFiniteSet(1 .. n) /\ Cardinality(1 .. n) = n
    BY <1>2, FS_Interval
  <1>4. IsFiniteSet(T) /\ Cardinality(T) = Cardinality(1 .. n)
    BY <1>1, <1>3, FS_Bijection DEF ExistsBijection
  <1> QED BY <1>3, <1>4 DEF n, T

(* The pending paths are of the burst, and all of it unless it is larger   *)
(* than a batch may be.                                                    *)
BurstPending ==
    /\ IsFiniteSet(burst)
    /\ ToSet(orderedPaths) \subseteq burst
    /\ WithinLimit => ToSet(orderedPaths) = burst

(* What is pending is of the burst since the last clear, and is the whole  *)
(* burst unless the maximum of paths has been reached.                     *)
THEOREM BurstAlwaysPending == BatcherSpec => []BurstPending
  <1>1. BatcherInit => BurstPending
    BY EmptySequence, FS_EmptySet DEF BatcherInit, BurstPending
  <1>2. BatcherTypeOK /\ PathsMatchOrder /\ BurstPending /\ [BatcherNext]_batcherVars
        => BurstPending'
    <2> SUFFICES ASSUME BatcherTypeOK, PathsMatchOrder, BurstPending,
                        [BatcherNext]_batcherVars
                 PROVE  BurstPending'
      OBVIOUS
    <2>1. ASSUME UNCHANGED <<orderedPaths, burst>> PROVE BurstPending'
      BY <2>1 DEF BurstPending, WithinLimit
    <2>2. ASSUME orderedPaths' = <<>>, burst' = {} PROVE BurstPending'
      BY <2>2, EmptySequence, FS_EmptySet DEF BurstPending
    <2>3. ASSUME NEW p \in Paths, Submit(p) PROVE BurstPending'
      <3>1. burst' = burst \union {p} /\ IsFiniteSet(burst')
        BY <2>3, FS_AddElement DEF Submit, BurstPending
      <3>2. Cardinality(burst) <= Cardinality(burst')
            /\ Cardinality(burst) \in Nat /\ Cardinality(burst') \in Nat
        BY <3>1, FS_Subset, FS_CardinalityType
      <3>3. WithinLimit' => WithinLimit
        BY <3>2, BatcherConstants DEF WithinLimit
      <3>4. CASE p \in paths
        BY <2>1, <2>3, <3>1, <3>4 DEF Submit, BurstPending, PathsMatchOrder
      <3>5. CASE p \notin paths /\ Len(orderedPaths) < MaximumPathCount
        <4>1. orderedPaths' = Append(orderedPaths, p)
          BY <2>3, <3>5, BatcherConstants DEF Submit, BatcherTypeOK
        <4>2. ToSet(Append(orderedPaths, p)) = ToSet(orderedPaths) \union {p}
          BY <2>3, <3>5, AppendNew DEF Submit, BatcherTypeOK, PathsMatchOrder
        <4> QED BY <3>1, <3>3, <4>1, <4>2 DEF BurstPending
      <3>6. CASE p \notin paths /\ Len(orderedPaths) >= MaximumPathCount
        <4>1. orderedPaths' = orderedPaths
          BY <2>3, <3>6, BatcherConstants DEF Submit, BatcherTypeOK
        <4>2. /\ IsFiniteSet(ToSet(orderedPaths))
              /\ Cardinality(ToSet(orderedPaths)) = Len(orderedPaths)
          BY LengthIsCardinality DEF BatcherTypeOK, PathsMatchOrder
        <4>3. Cardinality(ToSet(orderedPaths) \union {p}) = Len(orderedPaths) + 1
          BY <3>6, <4>2, FS_AddElement DEF PathsMatchOrder
        <4>4. ToSet(orderedPaths) \union {p} \subseteq burst'
          BY <3>1 DEF BurstPending
        <4>5. Len(orderedPaths) + 1 <= Cardinality(burst')
          BY <3>1, <4>3, <4>4, FS_Subset
        <4>6. ~WithinLimit'
          BY <3>2, <3>6, <4>5, BatcherConstants DEF WithinLimit, BatcherTypeOK
        <4> QED BY <3>1, <4>1, <4>6 DEF BurstPending
      <3> QED BY <3>4, <3>5, <3>6, BatcherConstants DEF BatcherTypeOK
    <2>4. CASE \E p \in Paths : SubmitExcluded(p)
      BY <2>1, <2>4 DEF SubmitExcluded, batcherVars
    <2>5. CASE Cancel
      BY <2>2, <2>5 DEF Cancel
    <2>6. CASE TaskStep
      BY <2>1, <2>2, <2>6
         DEF TaskStep, MarkSettlementScheduled, SleepElapses, SleepThrows, Settle
    <2>7. CASE (\E b \in settled : Handle(b)) \/ UNCHANGED batcherVars
      BY <2>1, <2>7 DEF Handle, batcherVars
    <2> QED BY <2>3, <2>4, <2>5, <2>6, <2>7 DEF BatcherNext
  <1> QED BY <1>1, <1>2, BatcherTypeCorrect, PathsAlwaysMatchOrder, PTL DEF BatcherSpec

(* What a step hands over is all that is pending, classified as such.      *)
LEMMA SettledIsPending ==
    ASSUME [BatcherNext]_batcherVars, NEW b \in settled' \ settled
    PROVE  b.paths = orderedPaths /\ b.classification = Classification(ToSet(orderedPaths))
  BY DEF BatcherNext, Submit, SubmitExcluded, Cancel, TaskStep, MarkSettlementScheduled,
         SleepElapses, SleepThrows, Settle, Handle, batcherVars

(* A settled batch is the whole burst, whatever the timers did: no path    *)
(* that was submitted since the last clear is missing, up to and including *)
(* the maximum, and browsers are told to reload stylesheets only if        *)
(* nothing else changed.                                                   *)
THEOREM BurstAlwaysSettledWhole == BatcherSpec => BurstSettledWhole
  <1>1. BurstPending /\ [BatcherNext]_batcherVars =>
          [WithinLimit => \A b \in settled' \ settled :
              /\ ToSet(b.paths) = burst
              /\ b.classification = "stylesheetOnly" <=> burst \subseteq Stylesheets]_batcherVars
    BY SettledIsPending DEF BurstPending, Classification
  <1> QED BY <1>1, BurstAlwaysPending, PTL DEF BatcherSpec, BurstSettledWhole

(* No settling task is of a later generation than the batcher.             *)
TasksNotNewer == \A t \in tasks : t.generation <= generation

(* A batch always waits for the timer of its latest change: a task that    *)
(* was overtaken after its sleep settles nothing.                          *)
THEOREM SettlingAlwaysWaits == BatcherSpec => SettlesAfterQuiet
  <1>1. BatcherInit => TasksNotNewer
    BY DEF BatcherInit, TasksNotNewer
  <1>2. BatcherTypeOK /\ TasksNotNewer /\ [BatcherNext]_batcherVars => TasksNotNewer'
    <2> SUFFICES ASSUME BatcherTypeOK, TasksNotNewer, [BatcherNext]_batcherVars
                 PROVE  TasksNotNewer'
      OBVIOUS
    <2>1. generation \in Nat /\ \A t \in tasks : t.generation \in Nat
      BY DEF BatcherTypeOK, TaskRecords
    <2>2. \A u \in CancelHeldTask : \E t \in tasks : u.generation = t.generation
      BY DEF CancelHeldTask, BatcherTypeOK, TaskRecords
    <2>3. ASSUME NEW p \in Paths, Submit(p) PROVE TasksNotNewer'
      <3>1. CASE RestartTimer
        BY <3>1, <2>1, <2>2 DEF RestartTimer, TasksNotNewer, Task
      <3>2. CASE UNCHANGED <<tasks, generation>>
        BY <3>2 DEF TasksNotNewer
      <3> QED BY <2>3, <3>1, <3>2 DEF Submit
    <2>4. CASE Cancel
      BY <2>4, <2>1, <2>2 DEF Cancel, TasksNotNewer
    <2>5. CASE TaskStep
      BY <2>5, <2>1 DEF TaskStep, MarkSettlementScheduled, SleepElapses, SleepThrows, Settle,
                       TasksNotNewer, BatcherTypeOK, TaskRecords
    <2>6. CASE UNCHANGED <<tasks, generation>>
      BY <2>6 DEF TasksNotNewer
    <2> QED BY <2>3, <2>4, <2>5, <2>6 DEF BatcherNext, SubmitExcluded, Handle, batcherVars
  <1>3. TasksNotNewer /\ [BatcherNext]_batcherVars =>
            [\A b \in settled' \ settled, t \in tasks : t.generation <= b.generation]_batcherVars
    BY DEF BatcherNext, Submit, SubmitExcluded, Cancel, TaskStep, MarkSettlementScheduled,
           SleepElapses, SleepThrows, Settle, MaySettle, Handle, TasksNotNewer
  <1> QED BY <1>1, <1>2, <1>3, BatcherTypeCorrect, PTL DEF BatcherSpec, SettlesAfterQuiet
------------------------------------------------------------------------------

(* Whatever the pipeline does, its batcher takes a step of its own or none. *)
LEMMA PipelineStepsBatcher == [Next]_vars => [BatcherNext]_batcherVars
  <1> SUFFICES ASSUME [Next]_vars PROVE [BatcherNext]_batcherVars
    OBVIOUS
  <1>1. ASSUME NEW s \in States, SetMonitoringState(s) PROVE UNCHANGED batcherVars
    BY <1>1 DEF SetMonitoringState, batcherVars
  <1>2. CASE Stop
    BY <1>2 DEF Stop, batcherVars
  <1>3. ASSUME NEW p \in Paths, Receive(p) PROVE UNCHANGED batcherVars
    BY <1>3 DEF Receive, batcherVars
  <1>4. CASE ManualReload
    BY <1>4 DEF ManualReload, batcherVars
  <1>5. ASSUME NEW p \in submitting, SubmitArrives(p) PROVE [BatcherNext]_batcherVars
    <2>1. CASE Submit(p)
      <3>1. p \in Paths
        BY <2>1 DEF Submit
      <3> QED BY <2>1, <3>1 DEF BatcherNext
    <2>2. CASE SubmitExcluded(p)
      BY <2>2 DEF SubmitExcluded
    <2> QED BY <1>5, <2>1, <2>2 DEF SubmitArrives
  <1>6. CASE CancelArrives
    BY <1>6 DEF CancelArrives, BatcherNext
  <1>7. CASE BatcherStep
    BY <1>7 DEF BatcherStep, BatcherNext
  <1>8. ASSUME NEW b \in settled, BroadcastBatch(b) PROVE BatcherNext
    BY <1>8 DEF BroadcastBatch, BatcherNext
  <1>9. ASSUME NEW d \in Decisions, BroadcastStep(d) PROVE UNCHANGED batcherVars
    BY <1>9 DEF BroadcastStep, BeginBroadcast, ServerDelivers, ServerSkips, FinishBroadcast,
                batcherVars
  <1>10. CASE UNCHANGED vars
    BY <1>10 DEF vars, batcherVars
  <1> QED BY <1>1, <1>2, <1>3, <1>4, <1>5, <1>6, <1>7, <1>8, <1>9, <1>10 DEF Next

(* Every behaviour of the pipeline is one of its batcher, so that what is  *)
(* proved of the batcher holds here.                                       *)
LEMMA PipelineRunsBatcher == Spec => BatcherSpec
  <1>1. Init => BatcherInit
    BY DEF Init
  <1> QED BY <1>1, PipelineStepsBatcher, PTL DEF Spec, BatcherSpec

(* The pipeline's batcher has its types, its order and its timer.          *)
THEOREM PipelineKeepsBatcher == Spec => []BatcherInv
  BY PipelineRunsBatcher, BatcherInvariant, PTL

(* A batch is the whole burst, and classified as its paths deserve.        *)
THEOREM PipelineSettlesWhole == Spec => BurstSettledWhole
  BY PipelineRunsBatcher, BurstAlwaysSettledWhole, PTL

(* A burst settles only after the timer of its latest change.              *)
THEOREM PipelineSettlesAfterQuiet == Spec => SettlesAfterQuiet
  BY PipelineRunsBatcher, SettlingAlwaysWaits, PTL

-------------------------------------------------------------------------------
(* The variables begin with their types.                                   *)
LEMMA InitTypes == Init => TypeOK
  <1> SUFFICES ASSUME Init PROVE TypeOK
    OBVIOUS
  <1>1. BatcherTypeOK
    BY DEF Init, BatcherInit, BatcherTypeOK, NoGeneration
  <1> QED BY <1>1 DEF Init, TypeOK, States, NoGeneration

(* A task that is created, moved or cancelled is still one.                *)
LEMMA BroadcastsAreTyped ==
    ASSUME TypeOK
    PROVE  /\ \A d \in Nat : Broadcast(d) \in BroadcastRecords
           /\ \A x \in broadcasts, s \in {"created", "sending", "returned"} :
                  At(x, s) \subseteq BroadcastRecords
           /\ {[x EXCEPT !.cancelled = TRUE] : x \in broadcasts} \subseteq BroadcastRecords
  <1>1. ASSUME NEW d \in Nat PROVE Broadcast(d) \in BroadcastRecords
    BY DEF TypeOK, Broadcast, BroadcastRecords
  <1>2. ASSUME NEW x \in broadcasts, NEW s \in {"created", "sending", "returned"}
        PROVE  At(x, s) \subseteq BroadcastRecords
    BY DEF TypeOK, At, BroadcastRecords
  <1>3. {[x EXCEPT !.cancelled = TRUE] : x \in broadcasts} \subseteq BroadcastRecords
    BY DEF TypeOK, BroadcastRecords
  <1> QED BY <1>1, <1>2, <1>3

(* Every variable of the pipeline and its batcher keeps its type.          *)
THEOREM PipelineTypeCorrect == Spec => []TypeOK
  <1>1. TypeOK /\ BatcherTypeOK' /\ [Next]_vars => TypeOK'
    <2> SUFFICES ASSUME TypeOK, BatcherTypeOK', [Next]_vars PROVE TypeOK'
      OBVIOUS
    <2> USE BroadcastsAreTyped
    <2>0. ASSUME CancelEverything
          PROVE  /\ broadcastGeneration' \in Nat /\ cancelsDue' \in Nat
                 /\ broadcasts' \subseteq BroadcastRecords
      BY <2>0 DEF CancelEverything, TypeOK
    <2>1. ASSUME NEW s \in States, SetMonitoringState(s) PROVE TypeOK'
      BY <2>0, <2>1 DEF SetMonitoringState, TypeOK
    <2>2. CASE Stop
      BY <2>0, <2>2 DEF Stop, TypeOK, States
    <2>3. ASSUME NEW p \in Paths, Receive(p) PROVE TypeOK'
      BY <2>3 DEF Receive, TypeOK
    <2>4. CASE ManualReload
      <3>1. Broadcast(Manual) \in BroadcastRecords
        BY DEF Manual
      <3> QED BY <2>4, <3>1 DEF ManualReload, TypeOK
    <2>5. ASSUME NEW p \in submitting, SubmitArrives(p) PROVE TypeOK'
      BY <2>5 DEF SubmitArrives, TypeOK
    <2>6. CASE CancelArrives
      BY <2>6 DEF CancelArrives, TypeOK
    <2>7. CASE BatcherStep
      BY <2>7 DEF BatcherStep, pipelineVars, TypeOK
    <2>8. ASSUME NEW b \in settled, BroadcastBatch(b) PROVE TypeOK'
      <3>1. b.generation \in Nat
        BY DEF TypeOK, BatcherTypeOK, Batch
      <3>2. Broadcast(b.generation) \in BroadcastRecords
        BY <3>1
      <3> QED BY <2>8, <3>2 DEF BroadcastBatch, TypeOK
    <2>9. ASSUME NEW x \in broadcasts,
                 BeginBroadcast(x) \/ ServerDelivers(x) \/ ServerSkips(x) \/ FinishBroadcast(x)
          PROVE  TypeOK'
      <3>1. x.decision \in Nat
        BY DEF TypeOK, BroadcastRecords
      <3>2. CASE BeginBroadcast(x) \/ ServerSkips(x)
        BY <3>2 DEF BeginBroadcast, ServerSkips, TypeOK
      <3>3. CASE ServerDelivers(x)
        BY <3>1, <3>3 DEF ServerDelivers, TypeOK
      <3>4. CASE FinishBroadcast(x)
        BY <3>1, <3>4 DEF FinishBroadcast, TypeOK
      <3> QED BY <2>9, <3>2, <3>3, <3>4
    <2>10. CASE UNCHANGED vars
      BY <2>10 DEF vars, pipelineVars, TypeOK
    <2> QED BY <2>1, <2>2, <2>3, <2>4, <2>5, <2>6, <2>7, <2>8, <2>9, <2>10
            DEF Next, BroadcastStep
  <1> QED BY <1>1, InitTypes, PipelineRunsBatcher, BatcherTypeCorrect, PTL DEF Spec

(* A broadcast that is not cancelled belongs to the current watch, however *)
(* many state changes and stops there are.                                 *)
THEOREM OnlyCurrentBroadcastsAlwaysLive == Spec => []OnlyCurrentBroadcastsLive
  <1>1. Init => OnlyCurrentBroadcastsLive
    BY DEF Init, OnlyCurrentBroadcastsLive
  <1>2. TypeOK /\ OnlyCurrentBroadcastsLive /\ [Next]_vars => OnlyCurrentBroadcastsLive'
    <2> SUFFICES ASSUME TypeOK, OnlyCurrentBroadcastsLive, [Next]_vars
                 PROVE  OnlyCurrentBroadcastsLive'
      OBVIOUS
    <2> USE DEF OnlyCurrentBroadcastsLive, TypeOK, BroadcastRecords
    <2>1. ASSUME CancelEverything PROVE OnlyCurrentBroadcastsLive'
      BY <2>1 DEF CancelEverything
    <2>2. ASSUME UNCHANGED <<broadcasts, broadcastGeneration, monitoringState>>
          PROVE  OnlyCurrentBroadcastsLive'
      BY <2>2
    <2>3. ASSUME NEW s \in States, SetMonitoringState(s) PROVE OnlyCurrentBroadcastsLive'
      BY <2>1, <2>3 DEF SetMonitoringState
    <2>4. CASE Stop
      BY <2>1, <2>4 DEF Stop
    <2>5. CASE ManualReload
      BY <2>5 DEF ManualReload, Broadcast
    <2>6. ASSUME NEW b \in settled, BroadcastBatch(b) PROVE OnlyCurrentBroadcastsLive'
      BY <2>6 DEF BroadcastBatch, Broadcast
    <2>7. ASSUME NEW x \in broadcasts,
                 BeginBroadcast(x) \/ ServerDelivers(x) \/ ServerSkips(x) \/ FinishBroadcast(x)
          PROVE  OnlyCurrentBroadcastsLive'
      BY <2>7 DEF BeginBroadcast, ServerDelivers, ServerSkips, FinishBroadcast, At
    <2>8. CASE \/ \E p \in Paths : Receive(p)
               \/ \E p \in submitting : SubmitArrives(p)
               \/ CancelArrives \/ BatcherStep \/ UNCHANGED vars
      BY <2>2, <2>8 DEF Receive, SubmitArrives, CancelArrives, BatcherStep, pipelineVars, vars
    <2> QED BY <2>3, <2>4, <2>5, <2>6, <2>7, <2>8 DEF Next, BroadcastStep
  <1> QED BY <1>1, <1>2, PipelineTypeCorrect, PTL DEF Spec
-------------------------------------------------------------------------------
(* Why no decision is sent twice.  A generation that was settled is past:  *)
(* it has nothing pending any more, so that it is not settled again.       *)
Past(d) == d \in 1 .. generation /\ (d = generation => orderedPaths = <<>>)

PendingNumbered == orderedPaths # <<>> => generation # 0

DecisionsPast ==
    /\ \A b \in settled : Past(b.generation)
    /\ \A x \in broadcasts : x.decision # Manual => Past(x.decision)
    /\ \A i \in DOMAIN delivered : delivered[i] # Manual => Past(delivered[i])

(* A decision is in one place only: in a batch that is not handled, or in  *)
(* a broadcast that is not sent, or sent.                                  *)
DecisionsApart ==
    /\ \A b, c \in settled : b.generation = c.generation => b = c
    /\ \A x, y \in broadcasts : x.decision = y.decision => x = y
    /\ \A b \in settled, x \in broadcasts : x.decision # b.generation
    /\ \A b \in settled, i \in DOMAIN delivered : delivered[i] # b.generation
    /\ \A x \in broadcasts, i \in DOMAIN delivered :
           x.step # "returned" => delivered[i] # x.decision

DecisionInv == PendingNumbered /\ DecisionsPast /\ DecisionsApart /\ IsInjective(delivered)

(* What a step of the batcher does to batches and generations.             *)
LEMMA BatcherKeepsPast ==
    ASSUME BatcherTypeOK, PendingNumbered, [BatcherNext]_batcherVars
    PROVE  /\ PendingNumbered'
           /\ generation \in Nat /\ generation' \in Nat /\ generation <= generation'
           /\ generation' = generation =>
                  orderedPaths' = orderedPaths \/ orderedPaths' = <<>>
           /\ \/ settled' \subseteq settled
              \/ /\ generation # 0 /\ generation' = generation
                 /\ orderedPaths # <<>> /\ orderedPaths' = <<>>
                 /\ \E b : b.generation = generation /\ settled' = settled \union {b}
  <1> USE DEF PendingNumbered, BatcherTypeOK
  <1> DEFINE Goal == /\ PendingNumbered'
                     /\ generation \in Nat /\ generation' \in Nat /\ generation <= generation'
                     /\ generation' = generation =>
                            orderedPaths' = orderedPaths \/ orderedPaths' = <<>>
  <1>1. ASSUME NEW p \in Paths, Submit(p) PROVE Goal /\ settled' = settled
    BY <1>1 DEF Submit, RestartTimer
  <1>2. ASSUME UNCHANGED <<orderedPaths, generation, settled>> PROVE Goal /\ settled' = settled
    BY <1>2
  <1>3. CASE Cancel
    BY <1>3 DEF Cancel
  <1>4. ASSUME NEW t \in tasks, Settle(t) PROVE Goal
    BY <1>4 DEF Settle
  <1>5. ASSUME NEW t \in tasks, Settle(t), MaySettle(t)
        PROVE  \E b : b.generation = generation /\ settled' = settled \union {b}
    <2>1. settled' = settled \union
                {[generation |-> t.generation, paths |-> orderedPaths,
                  classification |-> Classification(ToSet(orderedPaths))]}
      BY <1>5 DEF Settle
    <2>2. t.generation = generation
      BY <1>5 DEF MaySettle
    <2> WITNESS [generation |-> t.generation, paths |-> orderedPaths,
                 classification |-> Classification(ToSet(orderedPaths))]
    <2> QED BY <2>1, <2>2
  <1>6. ASSUME NEW t \in tasks, Settle(t), MaySettle(t)
        PROVE  /\ generation # 0 /\ generation' = generation
               /\ orderedPaths # <<>> /\ orderedPaths' = <<>>
    BY <1>6 DEF Settle, MaySettle
  <1>7. ASSUME NEW t \in tasks, Settle(t), ~MaySettle(t) PROVE settled' = settled
    BY <1>7 DEF Settle
  <1>8. ASSUME NEW b \in settled, Handle(b) PROVE Goal /\ settled' \subseteq settled
    BY <1>8 DEF Handle
  <1>9. ASSUME NEW t \in tasks,
               MarkSettlementScheduled(t) \/ SleepElapses(t) \/ SleepThrows(t)
        PROVE  UNCHANGED <<orderedPaths, generation, settled>>
    BY <1>9 DEF MarkSettlementScheduled, SleepElapses, SleepThrows
  <1>10. CASE (\E p \in Paths : SubmitExcluded(p)) \/ UNCHANGED batcherVars
    BY <1>2, <1>10 DEF SubmitExcluded, batcherVars
  <1> QED BY <1>1, <1>2, <1>3, <1>4, <1>5, <1>6, <1>7, <1>8, <1>9, <1>10 DEF BatcherNext, TaskStep

(* What is past stays so.                                                  *)
LEMMA PastStaysPast ==
    ASSUME BatcherTypeOK, PendingNumbered, [BatcherNext]_batcherVars
    PROVE  \A d : Past(d) => Past(d)'
  <1> SUFFICES ASSUME NEW d, Past(d) PROVE Past(d)'
    OBVIOUS
  <1>1. d \in Nat /\ d <= generation /\ 1 <= d
    BY DEF Past, BatcherTypeOK
  <1>2. d <= generation' /\ generation' \in Nat
    BY <1>1, BatcherKeepsPast
  <1>3. ASSUME d = generation' PROVE orderedPaths' = <<>>
    <2>1. generation' = generation
      BY <1>1, <1>3, BatcherKeepsPast
    <2> QED BY <1>3, <2>1, BatcherKeepsPast DEF Past
  <1> QED BY <1>1, <1>2, <1>3 DEF Past

(* A step of the batcher alone keeps the decisions in their places.        *)
LEMMA BatcherKeepsDecisions ==
    ASSUME TypeOK, DecisionInv, [BatcherNext]_batcherVars, UNCHANGED <<broadcasts, delivered>>
    PROVE  DecisionInv'
  <1> BatcherTypeOK /\ PendingNumbered
    BY DEF TypeOK, DecisionInv
  <1> USE DEF DecisionInv
  <1>1. PendingNumbered'
    BY BatcherKeepsPast
  <1>2. (\A x \in broadcasts : x.decision # Manual => Past(x.decision))'
    BY PastStaysPast DEF DecisionsPast, Past
  <1>3. (\A i \in DOMAIN delivered : delivered[i] # Manual => Past(delivered[i]))'
    <2>1. \A i \in DOMAIN delivered : delivered[i] # Manual => Past(delivered[i])
      BY DEF DecisionsPast
    <2> QED BY <2>1, PastStaysPast DEF Past
  <1>4. CASE settled' \subseteq settled
    <2>1. (\A b \in settled : Past(b.generation))'
      BY <1>4, PastStaysPast DEF DecisionsPast, Past
    <2>2. DecisionsApart'
      BY <1>4 DEF DecisionsApart
    <2> QED BY <1>1, <1>2, <1>3, <2>1, <2>2 DEF DecisionsPast
  <1>5. ASSUME NEW n, n.generation = generation, settled' = settled \union {n},
               generation # 0, generation' = generation, orderedPaths # <<>>, orderedPaths' = <<>>
        PROVE  DecisionInv'
    <2>1. ~Past(generation) /\ generation \in Nat /\ generation # Manual
      BY <1>5 DEF Past, BatcherTypeOK, Manual
    <2>2. (\A b \in settled : Past(b.generation))'
      <3>1. Past(generation)'
        BY <1>5, <2>1 DEF Past
      <3>2. \A b \in settled : Past(b.generation)'
        BY PastStaysPast DEF DecisionsPast, Past
      <3> QED BY <1>5, <3>1, <3>2
    <2>3. /\ \A b \in settled : b.generation # generation
          /\ \A x \in broadcasts : x.decision # generation
          /\ \A i \in DOMAIN delivered : delivered[i] # generation
      BY <2>1 DEF DecisionsPast
    <2>4. DecisionsApart'
      BY <1>5, <2>3 DEF DecisionsApart
    <2> QED BY <1>1, <1>2, <1>3, <2>2, <2>4 DEF DecisionsPast
  <1> QED BY <1>4, <1>5, BatcherKeepsPast

(* No decision is sent twice, however often batches are settled, handed    *)
(* over, broadcast and cancelled.                                          *)
LEMMA DecisionsSentOnce == Spec => []DecisionInv
  <1>1. Init => DecisionInv
    BY DEF Init, BatcherInit, DecisionInv, PendingNumbered, DecisionsPast, DecisionsApart, IsInjective
  <1>2. TypeOK /\ DecisionInv /\ [Next]_vars => DecisionInv'
    <2> SUFFICES ASSUME TypeOK, DecisionInv, [Next]_vars PROVE DecisionInv'
      OBVIOUS
    <2>1. ASSUME [BatcherNext]_batcherVars, UNCHANGED <<broadcasts, delivered>>
          PROVE  DecisionInv'
      BY <2>1, BatcherKeepsDecisions
    <2>2. ASSUME CancelEverything, UNCHANGED <<batcherVars, delivered>>
          PROVE  DecisionInv'
      <3>1. \A x \in broadcasts' : \E y \in broadcasts : x = [y EXCEPT !.cancelled = TRUE]
        BY <2>2 DEF CancelEverything
      <3>2. \A y \in broadcasts : y \in BroadcastRecords
        BY DEF TypeOK
      <3>3. UNCHANGED <<settled, generation, orderedPaths, delivered>>
        BY <2>2 DEF batcherVars
      <3>4. \A x \in broadcasts' : \E y \in broadcasts :
                 /\ x = [y EXCEPT !.cancelled = TRUE]
                 /\ x.decision = y.decision /\ x.step = y.step
        BY <3>1, <3>2 DEF BroadcastRecords
      <3>5. DecisionsPast'
        BY <3>3, <3>4 DEF DecisionInv, DecisionsPast, Past
      <3>6. DecisionsApart'
        <4>1. ASSUME NEW x \in broadcasts', NEW y \in broadcasts', x.decision = y.decision
              PROVE  x = y
          <5>1. PICK a \in broadcasts : x = [a EXCEPT !.cancelled = TRUE] /\ x.decision = a.decision
            BY <3>4
          <5>2. PICK c \in broadcasts : y = [c EXCEPT !.cancelled = TRUE] /\ y.decision = c.decision
            BY <3>4
          <5>3. a = c
            BY <4>1, <5>1, <5>2 DEF DecisionInv, DecisionsApart
          <5> QED BY <5>1, <5>2, <5>3
        <4>2. \A x \in broadcasts' : \A b \in settled : x.decision # b.generation
          BY <3>4 DEF DecisionInv, DecisionsApart
        <4>3. \A x \in broadcasts', i \in DOMAIN delivered :
                  x.step # "returned" => delivered[i] # x.decision
          BY <3>4 DEF DecisionInv, DecisionsApart
        <4> QED BY <3>3, <4>1, <4>2, <4>3 DEF DecisionInv, DecisionsApart
      <3> QED BY <3>3, <3>5, <3>6 DEF DecisionInv, PendingNumbered
    <2>3. ASSUME NEW s \in States, SetMonitoringState(s) PROVE DecisionInv'
      <3>1. CASE CancelEverything
        BY <2>2, <2>3, <3>1 DEF SetMonitoringState
      <3>2. CASE UNCHANGED broadcasts
        BY <2>1, <2>3, <3>2 DEF SetMonitoringState
      <3> QED BY <2>3, <3>1, <3>2 DEF SetMonitoringState
    <2>4. CASE Stop
      BY <2>2, <2>4 DEF Stop
    <2>5. CASE ManualReload
      <3>1. UNCHANGED <<settled, generation, orderedPaths, delivered>>
        BY <2>5 DEF ManualReload, batcherVars
      <3>2. /\ broadcasts' = broadcasts \union {Broadcast(Manual)}
            /\ \A x \in broadcasts : x.decision # Manual
            /\ \A i \in DOMAIN delivered : delivered[i] # Manual
        BY <2>5 DEF ManualReload, ToSet
      <3>3. Broadcast(Manual).decision = Manual
        BY DEF Broadcast
      <3>4. \A b \in settled : b.generation # Manual
        BY DEF DecisionInv, DecisionsPast, Past, Manual
      <3>5. DecisionsPast'
        BY <3>1, <3>2, <3>3 DEF DecisionInv, DecisionsPast, Past
      <3>6. DecisionsApart'
        BY <3>1, <3>2, <3>3, <3>4 DEF DecisionInv, DecisionsApart
      <3> QED BY <3>1, <3>5, <3>6 DEF DecisionInv, PendingNumbered
    <2>6. ASSUME NEW b \in settled, BroadcastBatch(b) PROVE DecisionInv'
      <3>1. /\ settled' = settled \ {b}
            /\ UNCHANGED <<generation, orderedPaths, delivered>>
        BY <2>6 DEF BroadcastBatch, Handle
      <3>2. broadcasts' \subseteq broadcasts \union {Broadcast(b.generation)}
        BY <2>6 DEF BroadcastBatch
      <3>3. Broadcast(b.generation).decision = b.generation
        BY DEF Broadcast
      <3>4. DecisionsPast'
        BY <3>1, <3>2, <3>3 DEF DecisionInv, DecisionsPast, Past
      <3>5. DecisionsApart'
        BY <3>1, <3>2, <3>3 DEF DecisionInv, DecisionsApart
      <3> QED BY <3>1, <3>4, <3>5 DEF DecisionInv, PendingNumbered
    <2>7. ASSUME NEW x \in broadcasts, NEW s \in {"sending", "returned"},
                 x.step # "returned", broadcasts' = At(x, s),
                 UNCHANGED <<batcherVars, delivered>>
          PROVE  DecisionInv'
      <3>1. UNCHANGED <<settled, generation, orderedPaths, delivered>>
        BY <2>7 DEF batcherVars
      <3>2. \A y \in broadcasts' : y \in broadcasts \/ (y.decision = x.decision /\ y = [x EXCEPT !.step = s])
        BY <2>7 DEF At, TypeOK, BroadcastRecords
      <3>3. \A y \in broadcasts' : y = [x EXCEPT !.step = s] \/ (y \in broadcasts /\ y.decision # x.decision)
        BY <2>7 DEF At, DecisionInv, DecisionsApart
      <3>4. DecisionsPast'
        BY <3>1, <3>2 DEF DecisionInv, DecisionsPast, Past
      <3>5. \A y, z \in broadcasts' : y.decision = z.decision => y = z
        BY <3>2, <3>3 DEF DecisionInv, DecisionsApart
      <3>6. DecisionsApart'
        BY <2>7, <3>1, <3>2, <3>5 DEF DecisionInv, DecisionsApart
      <3> QED BY <3>1, <3>4, <3>6 DEF DecisionInv, PendingNumbered
    <2>8. ASSUME NEW x \in broadcasts, ServerDelivers(x) PROVE DecisionInv'
      <3>1. UNCHANGED <<settled, generation, orderedPaths>>
        BY <2>8 DEF ServerDelivers, batcherVars
      <3>2. x.decision \in Nat /\ delivered \in Seq(Nat)
        BY DEF TypeOK, BroadcastRecords
      <3>3. /\ \A i \in DOMAIN delivered : delivered[i] # x.decision
            /\ \A b \in settled : x.decision # b.generation
        BY <2>8 DEF ServerDelivers, DecisionInv, DecisionsApart
      <3>4. /\ \A i \in DOMAIN delivered' :
                    delivered'[i] = x.decision \/ (i \in DOMAIN delivered /\ delivered'[i] = delivered[i])
            /\ IsInjective(delivered')
        BY <2>8, <3>2, <3>3 DEF ServerDelivers, DecisionInv, IsInjective
      <3>5. \A y \in broadcasts' : \/ y = [x EXCEPT !.step = "returned"]
                                   \/ y \in broadcasts /\ y.decision # x.decision
        BY <2>8 DEF ServerDelivers, At, DecisionInv, DecisionsApart
      <3>6. /\ [x EXCEPT !.step = "returned"].decision = x.decision
            /\ [x EXCEPT !.step = "returned"].step = "returned"
        BY DEF TypeOK, BroadcastRecords
      <3>7. DecisionsPast'
        BY <3>1, <3>4, <3>5, <3>6 DEF DecisionInv, DecisionsPast, Past
      <3>8. /\ \A y, z \in broadcasts' : y.decision = z.decision => y = z
            /\ \A b \in settled', y \in broadcasts' : y.decision # b.generation
        BY <3>1, <3>5, <3>6 DEF DecisionInv, DecisionsApart
      <3>9. /\ \A b \in settled', i \in DOMAIN delivered' : delivered'[i] # b.generation
            /\ \A y \in broadcasts', i \in DOMAIN delivered' :
                   y.step # "returned" => delivered'[i] # y.decision
        BY <3>1, <3>3, <3>4, <3>5, <3>6 DEF DecisionInv, DecisionsApart
      <3>10. DecisionsApart'
        BY <3>1, <3>8, <3>9 DEF DecisionInv, DecisionsApart
      <3> QED BY <3>1, <3>4, <3>7, <3>10 DEF DecisionInv, PendingNumbered
    <2>9. ASSUME NEW x \in broadcasts, FinishBroadcast(x) PROVE DecisionInv'
      <3>1. UNCHANGED <<settled, generation, orderedPaths, delivered>> /\ broadcasts' \subseteq broadcasts
        BY <2>9 DEF FinishBroadcast, batcherVars
      <3>2. DecisionsPast'
        BY <3>1 DEF DecisionInv, DecisionsPast, Past
      <3>3. DecisionsApart'
        BY <3>1 DEF DecisionInv, DecisionsApart
      <3> QED BY <3>1, <3>2, <3>3 DEF DecisionInv, PendingNumbered
    <2>10. ASSUME NEW x \in broadcasts, BeginBroadcast(x) \/ ServerSkips(x) PROVE DecisionInv'
      BY <2>7, <2>10 DEF BeginBroadcast, ServerSkips
    <2>11. CASE \/ \E p \in Paths : Receive(p)
                \/ \E p \in submitting : SubmitArrives(p)
                \/ CancelArrives \/ BatcherStep \/ UNCHANGED vars
      <3>1. UNCHANGED <<broadcasts, delivered>>
        BY <2>11 DEF Receive, SubmitArrives, CancelArrives, BatcherStep, pipelineVars, vars
      <3> QED BY <2>1, <3>1, PipelineStepsBatcher
    <2> QED BY <2>3, <2>4, <2>5, <2>6, <2>8, <2>9, <2>10, <2>11 DEF Next, BroadcastStep
  <1> QED BY <1>1, <1>2, PipelineTypeCorrect, PTL DEF Spec

(* The types, no live broadcast of an earlier watch, and no decision sent   *)
(* twice, for every set of paths, every maximum and every bound.            *)
THEOREM PipelineInvariant == Spec => []PipelineInv
  <1>1. TypeOK /\ OnlyCurrentBroadcastsLive /\ DecisionInv => PipelineInv
    BY DEF DecisionInv, PipelineInv
  <1> QED BY <1>1, PipelineTypeCorrect, OnlyCurrentBroadcastsAlwaysLive, DecisionsSentOnce, PTL
-------------------------------------------------------------------------------
(* What a watch starts from and keeps.  Nothing is left of an earlier one  *)
(* when it begins, no cancellation is on its way while it lasts, and the   *)
(* generation stays within its bound.                                      *)
NotYetWatched == monitoringState \in {"stopped", "starting"}

WatchInv ==
    /\ NotYetWatched => /\ orderedPaths = <<>> /\ tasks = {} /\ settled = {}
                        /\ broadcasts = {} /\ submitting = {}
    /\ Watching => cancelsDue = 0
    /\ generation <= MaxGeneration

(* The batcher never exceeds the bound on its generations.                 *)
LEMMA BatcherKeepsBound ==
    ASSUME generation <= MaxGeneration, generation \in Nat, [BatcherNext]_batcherVars
    PROVE  generation' <= MaxGeneration
  <1> USE BatcherConstants
  <1>1. CASE (\E p \in Paths : Submit(p)) \/ Cancel
    BY <1>1 DEF Submit, RestartTimer, Cancel
  <1>2. CASE UNCHANGED generation
    BY <1>2
  <1>3. CASE TaskStep
    BY <1>3 DEF TaskStep, MarkSettlementScheduled, SleepElapses, SleepThrows, Settle
  <1> QED BY <1>1, <1>2, <1>3 DEF BatcherNext, SubmitExcluded, Handle, batcherVars

(* Before the first watch there is nothing under way, and while the        *)
(* project is watched no cancel() of an earlier watch is.                  *)
LEMMA WatchesStartEmpty == Spec => []WatchInv
  <1>1. Init => WatchInv
    BY BatcherConstants DEF Init, BatcherInit, WatchInv, Watching
  <1>2. TypeOK /\ WatchInv /\ [Next]_vars => WatchInv'
    <2> SUFFICES ASSUME TypeOK, WatchInv, [Next]_vars PROVE WatchInv'
      OBVIOUS
    <2> USE DEF WatchInv, NotYetWatched, Watching
    <2>1. generation' <= MaxGeneration
      BY PipelineStepsBatcher, BatcherKeepsBound DEF TypeOK, BatcherTypeOK
    <2>2. broadcastGeneration \in Nat /\ cancelsDue \in Nat
      BY DEF TypeOK
    <2>3. ASSUME NEW s \in States, SetMonitoringState(s) PROVE WatchInv'
      <3>1. UNCHANGED <<orderedPaths, tasks, settled, submitting>>
        BY <2>3 DEF SetMonitoringState, batcherVars
      <3>2. CASE s = "watching"
        BY <2>1, <2>3, <3>1, <3>2 DEF SetMonitoringState, Successors
      <3>3. CASE s # "watching"
        <4>1. monitoringState' = s
          BY <2>3, <3>3 DEF SetMonitoringState, CancelEverything
        <4>2. broadcasts = {} => broadcasts' = {}
          BY <2>3, <3>3 DEF SetMonitoringState, CancelEverything
        <4>3. s \in {"stopped", "starting"} => NotYetWatched
          BY <2>3 DEF SetMonitoringState, Successors
        <4> QED BY <2>1, <2>2, <3>1, <3>3, <4>1, <4>2, <4>3
      <3> QED BY <3>2, <3>3
    <2>4. CASE Stop
      BY <2>1, <2>2, <2>4 DEF Stop, CancelEverything
    <2>5. CASE (\E p \in Paths : Receive(p)) \/ ManualReload
      BY <2>1, <2>5 DEF Receive, ManualReload, batcherVars
    <2>6. CASE \/ \E p \in submitting : SubmitArrives(p)
               \/ \E b \in settled : BroadcastBatch(b)
               \/ \E d \in Decisions : BroadcastStep(d)
      <3>1. ~NotYetWatched
        BY <2>6 DEF BroadcastStep
      <3>2. UNCHANGED <<monitoringState, broadcastGeneration, cancelsDue>>
        BY <2>6 DEF SubmitArrives, BroadcastBatch, BroadcastStep, BeginBroadcast, ServerDelivers,
                    ServerSkips, FinishBroadcast
      <3> QED BY <2>1, <3>1, <3>2
    <2>7. CASE CancelArrives
      <3>1. /\ orderedPaths' = <<>> /\ settled' = settled
            /\ UNCHANGED <<monitoringState, broadcastGeneration, broadcasts, submitting>>
            /\ ~Watching
        BY <2>2, <2>7 DEF CancelArrives, Cancel
      <3>2. tasks = {} => tasks' = {}
        BY <2>7 DEF CancelArrives, Cancel, CancelHeldTask
      <3> QED BY <2>1, <3>1, <3>2
    <2>8. CASE BatcherStep
      <3>1. tasks # {} /\ UNCHANGED pipelineVars
        BY <2>8 DEF BatcherStep, TaskStep
      <3> QED BY <2>1, <3>1 DEF pipelineVars
    <2>9. CASE UNCHANGED vars
      BY <2>1, <2>9 DEF vars, batcherVars, pipelineVars
    <2> QED BY <2>3, <2>4, <2>5, <2>6, <2>7, <2>8, <2>9 DEF Next
  <1> QED BY <1>1, <1>2, PipelineTypeCorrect, PTL DEF Spec
-------------------------------------------------------------------------------
(* The refinement mapping, by name, and its steps.                         *)
AbstractPending == IF Watching THEN ToSet(orderedPaths) ELSE {}

Undecided == {b.generation : b \in settled} \union
             {x.decision : x \in {y \in broadcasts : y.step # "returned" /\ y.decision # Manual}}

AbstractDecided == IF Watching THEN Undecided ELSE {}

AbstractSent == ToSet(delivered) \ {Manual}

(* The changes of the mapped state that are steps of ReloadDecisions.      *)
LEMMA AbstractSteps ==
    /\ UNCHANGED <<Watching, AbstractPending, AbstractDecided, AbstractSent>>
           => UNCHANGED Abstract!vars
    /\ ~Watching /\ Watching' /\ UNCHANGED <<AbstractPending, AbstractDecided, AbstractSent>>
           => Abstract!BeginWatch
    /\ Watching /\ ~Watching' /\ AbstractPending' = {} /\ AbstractDecided' = {}
         /\ UNCHANGED AbstractSent
           => Abstract!EndWatch
    /\ \A c \in Paths \ Excluded :
           Watching /\ AbstractPending' = AbstractPending \union {c}
             /\ UNCHANGED <<Watching, AbstractDecided, AbstractSent>>
               => Abstract!Accept
    /\ \A d \in (1 .. MaxGeneration) \ (AbstractDecided \union AbstractSent) :
           Watching /\ AbstractDecided' = AbstractDecided \union {d}
             /\ AbstractPending' = {} /\ AbstractPending # {} /\ UNCHANGED <<Watching, AbstractSent>>
               => Abstract!Decide
    /\ \A d \in AbstractDecided :
           Watching /\ AbstractDecided' = AbstractDecided \ {d}
             /\ AbstractSent' = AbstractSent \union {d} /\ UNCHANGED <<Watching, AbstractPending>>
               => Abstract!Send(d)
    /\ \A d \in AbstractDecided :
           AbstractDecided' = AbstractDecided \ {d}
             /\ UNCHANGED <<Watching, AbstractPending, AbstractSent>>
               => Abstract!Drop(d)
  <1> USE DEF AbstractPending, AbstractDecided, Undecided, AbstractSent
  <1>1. UNCHANGED <<Watching, AbstractPending, AbstractDecided, AbstractSent>>
            => UNCHANGED Abstract!vars
    BY DEF Abstract!vars
  <1>2. ~Watching /\ Watching' /\ UNCHANGED <<AbstractPending, AbstractDecided, AbstractSent>>
            => Abstract!BeginWatch
    BY DEF Abstract!BeginWatch
  <1>3. Watching /\ ~Watching' /\ AbstractPending' = {} /\ AbstractDecided' = {}
          /\ UNCHANGED AbstractSent
            => Abstract!EndWatch
    BY DEF Abstract!EndWatch
  <1>4. ASSUME NEW c \in Paths \ Excluded,
               Watching /\ AbstractPending' = AbstractPending \union {c},
               UNCHANGED <<Watching, AbstractDecided, AbstractSent>>
        PROVE  Abstract!Accept
    BY <1>4 DEF Abstract!Accept
  <1>5. ASSUME NEW d \in (1 .. MaxGeneration) \ (AbstractDecided \union AbstractSent),
               Watching /\ AbstractDecided' = AbstractDecided \union {d},
               AbstractPending' = {} /\ AbstractPending # {}, UNCHANGED <<Watching, AbstractSent>>
        PROVE  Abstract!Decide
    BY <1>5 DEF Abstract!Decide
  <1>6. ASSUME NEW d \in AbstractDecided, Watching, AbstractDecided' = AbstractDecided \ {d},
               AbstractSent' = AbstractSent \union {d}, UNCHANGED <<Watching, AbstractPending>>
        PROVE  Abstract!Send(d)
    BY <1>6 DEF Abstract!Send
  <1>7. ASSUME NEW d \in AbstractDecided, AbstractDecided' = AbstractDecided \ {d},
               UNCHANGED <<Watching, AbstractPending, AbstractSent>>
        PROVE  Abstract!Drop(d)
    BY <1>7 DEF Abstract!Drop
  <1> QED BY <1>1, <1>2, <1>3, <1>4, <1>5, <1>6, <1>7

(* The decisions that are not sent yet, one by one.                        *)
Open(d) ==
    \/ \E b \in settled : b.generation = d
    \/ d # Manual /\ \E x \in broadcasts : x.decision = d /\ x.step # "returned"

(* The decisions still to be taken are those of settled batches and of     *)
(* broadcasts that have not returned.                                      *)
LEMMA UndecidedIsOpen ==
    /\ \A d : d \in Undecided <=> Open(d)
    /\ \A d : d \in Undecided' <=> Open(d)'
  BY DEF Undecided, Open

(* Steps that change neither what is open nor what is pending or sent.     *)
LEMMA InvisibleStep ==
    ASSUME UNCHANGED <<monitoringState, orderedPaths, delivered>>, \A d : Open(d)' <=> Open(d)
    PROVE  UNCHANGED <<Watching, AbstractPending, AbstractDecided, AbstractSent>>
  <1>1. Undecided' = Undecided
    BY UndecidedIsOpen
  <1> QED BY <1>1 DEF Watching, AbstractPending, AbstractDecided, AbstractSent

(* Outside of a watch nothing is visible but what is sent.                 *)
LEMMA UnwatchedStep ==
    ASSUME ~Watching, UNCHANGED <<monitoringState, delivered>>
    PROVE  UNCHANGED <<Watching, AbstractPending, AbstractDecided, AbstractSent>>
  BY DEF Watching, AbstractPending, AbstractDecided, AbstractSent

(* A broadcast that is over, or will not send any more, is at most dropped. *)
LEMMA ClosingStep ==
    ASSUME NEW x \in broadcasts, x.step # "returned", DecisionInv, TypeOK,
           broadcasts' = At(x, "returned"), UNCHANGED <<settled, orderedPaths, monitoringState>>
    PROVE  /\ UNCHANGED <<Watching, AbstractPending>>
           /\ ~Watching \/ x.decision = Manual =>
                  UNCHANGED AbstractDecided
           /\ Watching /\ x.decision # Manual =>
                  x.decision \in AbstractDecided /\ AbstractDecided' = AbstractDecided \ {x.decision}
  <1>1. \A y \in broadcasts' :
            y.step = "returned" \/ (y \in broadcasts /\ y.decision # x.decision)
    BY DEF At, TypeOK, BroadcastRecords, DecisionInv, DecisionsApart
  <1>2. \A y \in broadcasts : y \in broadcasts' \/ y = x
    BY DEF At
  <1>3. \A b \in settled : b.generation # x.decision
    BY DEF DecisionInv, DecisionsApart
  <1>4. \A d : Open(d)' <=> Open(d) /\ (d # x.decision \/ d = Manual)
    <2> SUFFICES ASSUME NEW d PROVE Open(d)' <=> Open(d) /\ (d # x.decision \/ d = Manual)
      OBVIOUS
    <2>1. Open(d)' => Open(d) /\ (d # x.decision \/ d = Manual)
      BY <1>1, <1>3 DEF Open
    <2>2. Open(d) /\ (d # x.decision \/ d = Manual) => Open(d)'
      BY <1>2 DEF Open
    <2> QED BY <2>1, <2>2
  <1>5. x.decision # Manual => Open(x.decision)
    BY DEF Open
  <1>6. UNCHANGED <<Watching, AbstractPending>>
    BY DEF Watching, AbstractPending
  <1>7. x.decision = Manual => UNCHANGED Undecided
    BY <1>4, UndecidedIsOpen
  <1>8. x.decision # Manual => Undecided' = Undecided \ {x.decision} /\ x.decision \in Undecided
    <2>1. x.decision # Manual => \A d : d \in Undecided' <=> d \in Undecided /\ d # x.decision
      BY <1>4, UndecidedIsOpen
    <2> QED BY <2>1, <1>5, UndecidedIsOpen
  <1> QED BY <1>6, <1>7, <1>8 DEF AbstractDecided

(* Each step of the pipeline is a step of ReloadDecisions, or invisible.   *)
LEMMA StepImplements ==
    ASSUME TypeOK, BatcherInv, DecisionInv, WatchInv, OnlyCurrentBroadcastsLive, [Next]_vars
    PROVE  [Abstract!Next]_(Abstract!vars)
  <1>1. ASSUME UNCHANGED <<Watching, AbstractPending, AbstractDecided, AbstractSent>>
        PROVE  [Abstract!Next]_(Abstract!vars)
    BY <1>1, AbstractSteps
  <1>2. ASSUME NEW s \in States, SetMonitoringState(s) PROVE [Abstract!Next]_(Abstract!vars)
    <2>1. UNCHANGED <<orderedPaths, settled, delivered>> /\ AbstractSent' = AbstractSent
      BY <1>2 DEF SetMonitoringState, batcherVars, AbstractSent
    <2>2. CASE Watching
      <3>1. ~Watching'
        BY <1>2, <2>2 DEF SetMonitoringState, Successors, Watching
      <3>2. AbstractPending' = {} /\ AbstractDecided' = {}
        BY <3>1 DEF AbstractPending, AbstractDecided
      <3> QED BY <2>1, <2>2, <3>1, <3>2, AbstractSteps DEF Abstract!Next
    <2>3. CASE ~Watching /\ Watching'
      <3>1. NotYetWatched /\ UNCHANGED broadcasts
        BY <1>2, <2>3 DEF SetMonitoringState, Successors, NotYetWatched, Watching
      <3>2. orderedPaths = <<>> /\ settled = {} /\ broadcasts = {}
        BY <3>1 DEF WatchInv
      <3>3. AbstractPending = {} /\ AbstractDecided = {}
        BY <2>3 DEF AbstractPending, AbstractDecided
      <3>4. AbstractPending' = {} /\ AbstractDecided' = {}
        BY <2>1, <3>1, <3>2, EmptySequence DEF AbstractPending, AbstractDecided, Undecided
      <3> QED BY <2>1, <2>3, <3>3, <3>4, AbstractSteps DEF Abstract!Next
    <2>4. CASE ~Watching /\ ~Watching'
      BY <1>1, <2>1, <2>4 DEF AbstractPending, AbstractDecided, Watching
    <2> QED BY <2>2, <2>3, <2>4
  <1>3. CASE Stop
    <2>1. ~Watching /\ ~Watching' /\ delivered' = delivered
      BY <1>3 DEF Stop, Watching
    <2> QED BY <1>1, <2>1 DEF AbstractPending, AbstractDecided, AbstractSent, Watching
  <1>4. CASE \E p \in Paths : Receive(p)
    <2>1. UNCHANGED <<monitoringState, orderedPaths, delivered, settled, broadcasts>>
      BY <1>4 DEF Receive, batcherVars
    <2>2. \A d : Open(d)' <=> Open(d)
      BY <2>1 DEF Open
    <2> QED BY <1>1, <2>1, <2>2, InvisibleStep
  <1>5. CASE ManualReload
    <2>1. /\ UNCHANGED <<monitoringState, orderedPaths, delivered, settled>>
          /\ broadcasts' = broadcasts \union {Broadcast(Manual)}
      BY <1>5 DEF ManualReload, batcherVars
    <2>2. \A d : Open(d)' <=> Open(d)
      BY <2>1 DEF Open, Broadcast
    <2> QED BY <1>1, <2>1, <2>2, InvisibleStep
  <1>6. ASSUME NEW p \in submitting, SubmitArrives(p) PROVE [Abstract!Next]_(Abstract!vars)
    <2>1. UNCHANGED <<monitoringState, delivered, broadcasts, settled>>
      BY <1>6 DEF SubmitArrives, Submit, SubmitExcluded, batcherVars
    <2>2. \A d : Open(d)' <=> Open(d)
      BY <2>1 DEF Open
    <2>3. CASE orderedPaths' = orderedPaths
      BY <1>1, <2>1, <2>2, <2>3, InvisibleStep
    <2>4. CASE ~Watching
      BY <1>1, <2>1, <2>4, UnwatchedStep
    <2>5. CASE Watching /\ orderedPaths' # orderedPaths
      <3>1. /\ p \in Paths \ Excluded /\ p \notin paths
            /\ orderedPaths' = Append(orderedPaths, p)
        BY <1>6, <2>5 DEF SubmitArrives, Submit, SubmitExcluded, batcherVars
      <3>2. ToSet(orderedPaths') = ToSet(orderedPaths) \union {p}
        BY <3>1, AppendNew DEF BatcherInv, BatcherTypeOK, PathsMatchOrder
      <3>3. Undecided' = Undecided
        BY <2>2, UndecidedIsOpen
      <3>4. /\ AbstractPending' = AbstractPending \union {p}
            /\ UNCHANGED <<Watching, AbstractDecided, AbstractSent>>
        BY <2>1, <2>5, <3>2, <3>3 DEF AbstractPending, AbstractDecided, AbstractSent, Watching
      <3> QED BY <2>5, <3>1, <3>4, AbstractSteps DEF Abstract!Next
    <2> QED BY <2>3, <2>4, <2>5
  <1>7. CASE CancelArrives
    <2>1. ~Watching /\ UNCHANGED <<monitoringState, delivered>>
      BY <1>7 DEF CancelArrives, WatchInv, TypeOK
    <2> QED BY <1>1, <2>1, UnwatchedStep
  <1>8. ASSUME NEW t \in tasks, Settle(t), MaySettle(t), UNCHANGED pipelineVars
        PROVE  [Abstract!Next]_(Abstract!vars)
    <2>1. UNCHANGED <<monitoringState, delivered, broadcasts>>
      BY <1>8 DEF pipelineVars
    <2>2. CASE ~Watching
      BY <1>1, <2>1, <2>2, UnwatchedStep
    <2>3. CASE Watching
      <3>1. /\ orderedPaths # <<>> /\ orderedPaths' = <<>>
            /\ \E b : b.generation = generation /\ settled' = settled \union {b}
        <4>1. settled' = settled \union
                    {[generation |-> t.generation, paths |-> orderedPaths,
                      classification |-> Classification(ToSet(orderedPaths))]}
          BY <1>8 DEF Settle
        <4>2. t.generation = generation
          BY <1>8 DEF MaySettle
        <4>3. orderedPaths # <<>> /\ orderedPaths' = <<>>
          BY <1>8 DEF Settle, MaySettle
        <4> DEFINE b == [generation |-> t.generation, paths |-> orderedPaths,
                         classification |-> Classification(ToSet(orderedPaths))]
        <4>4. b.generation = generation /\ settled' = settled \union {b}
          BY <4>1, <4>2
        <4> QED BY <4>3, <4>4
      <3>2. generation \in 1 .. MaxGeneration
        BY <3>1 DEF DecisionInv, PendingNumbered, WatchInv, TypeOK, BatcherTypeOK
      <3>3. ~Past(generation) /\ generation # Manual
        BY <3>1, <3>2 DEF Past, Manual
      <3>4. ~Open(generation) /\ generation \notin ToSet(delivered)
        BY <3>3 DEF Open, DecisionInv, DecisionsPast, ToSet
      <3>5. Undecided' = Undecided \union {generation}
        <4>1. \A d : Open(d)' <=> Open(d) \/ d = generation
          BY <2>1, <3>1 DEF Open
        <4>2. \A d : d \in Undecided' <=> d \in Undecided \/ d = generation
          BY <4>1, UndecidedIsOpen
        <4> QED BY <4>2
      <3>6. generation \notin AbstractDecided \union AbstractSent
        BY <3>4, UndecidedIsOpen DEF AbstractDecided, AbstractSent
      <3>7. AbstractPending # {} /\ AbstractPending' = {}
        <4>1. ToSet(orderedPaths) # {}
          <5>1. orderedPaths \in Seq(Paths \ Excluded)
            BY DEF BatcherInv, BatcherTypeOK
          <5>2. 1 \in DOMAIN orderedPaths
            BY <3>1, <5>1
          <5>3. orderedPaths[1] \in ToSet(orderedPaths)
            BY <5>2 DEF ToSet
          <5> QED BY <5>3
        <4> QED BY <2>1, <2>3, <3>1, <4>1, EmptySequence DEF AbstractPending
      <3>8. /\ AbstractDecided' = AbstractDecided \union {generation}
            /\ UNCHANGED <<Watching, AbstractSent>>
        BY <2>1, <2>3, <3>5 DEF AbstractDecided, AbstractSent, Watching
      <3>9. Abstract!Decide
        BY <2>3, <3>2, <3>6, <3>7, <3>8, AbstractSteps
      <3> QED BY <3>9 DEF Abstract!Next
    <2> QED BY <2>2, <2>3
  <1>9. CASE BatcherStep
    <2>1. ASSUME NEW t \in tasks,
                 \/ MarkSettlementScheduled(t) \/ SleepElapses(t) \/ SleepThrows(t)
                 \/ Settle(t) /\ ~MaySettle(t)
          PROVE  [Abstract!Next]_(Abstract!vars)
      <3>1. UNCHANGED <<monitoringState, orderedPaths, delivered, settled, broadcasts>>
        BY <1>9, <2>1 DEF BatcherStep, pipelineVars, MarkSettlementScheduled, SleepElapses,
                          SleepThrows, Settle
      <3>2. \A d : Open(d)' <=> Open(d)
        BY <3>1 DEF Open
      <3> QED BY <1>1, <3>1, <3>2, InvisibleStep
    <2> QED BY <1>8, <1>9, <2>1 DEF BatcherStep, TaskStep
  <1>10. ASSUME NEW b \in settled, BroadcastBatch(b) PROVE [Abstract!Next]_(Abstract!vars)
    <2>1. UNCHANGED <<monitoringState, orderedPaths, delivered>> /\ settled' = settled \ {b}
      BY <1>10 DEF BroadcastBatch, Handle
    <2>2. CASE ~Watching
      BY <1>1, <2>1, <2>2, UnwatchedStep
    <2>3. CASE Watching
      <3>1. broadcasts' = broadcasts \union {Broadcast(b.generation)}
        BY <1>10, <2>3 DEF BroadcastBatch, Watching
      <3>2. /\ Broadcast(b.generation).decision = b.generation
            /\ Broadcast(b.generation).step = "created"
        BY DEF Broadcast
      <3>3. b.generation # Manual
        BY DEF DecisionInv, DecisionsPast, Past, Manual
      <3>4. \A d : Open(d)' <=> Open(d)
        BY <2>1, <3>1, <3>2, <3>3 DEF Open
      <3> QED BY <1>1, <2>1, <3>4, InvisibleStep
    <2> QED BY <2>2, <2>3
  <1>11. ASSUME NEW x \in broadcasts, x.step # "returned", broadcasts' = At(x, "returned"),
                UNCHANGED batcherVars, UNCHANGED <<monitoringState, delivered>>
         PROVE  [Abstract!Next]_(Abstract!vars)
    <2>1. UNCHANGED <<settled, orderedPaths>> /\ AbstractSent' = AbstractSent
      BY <1>11 DEF batcherVars, AbstractSent
    <2>2. CASE ~Watching \/ x.decision = Manual
      BY <1>1, <1>11, <2>1, <2>2, ClosingStep
    <2>3. CASE Watching /\ x.decision # Manual
      <3>1. x.decision \in AbstractDecided /\ Abstract!Drop(x.decision)
        BY <1>11, <2>1, <2>3, ClosingStep, AbstractSteps
      <3> QED BY <3>1 DEF Abstract!Next, AbstractDecided, Undecided
    <2> QED BY <2>2, <2>3
  <1>12. ASSUME NEW x \in broadcasts, BeginBroadcast(x) PROVE [Abstract!Next]_(Abstract!vars)
    <2>1. /\ UNCHANGED batcherVars /\ UNCHANGED <<monitoringState, delivered>>
          /\ x.step = "created"
      BY <1>12 DEF BeginBroadcast
    <2>2. CASE broadcasts' = At(x, "returned")
      BY <1>11, <2>1, <2>2
    <2>3. CASE broadcasts' = At(x, "sending")
      <3>1. /\ [x EXCEPT !.step = "sending"].decision = x.decision
            /\ [x EXCEPT !.step = "sending"].step = "sending"
        BY DEF TypeOK, BroadcastRecords
      <3>2. UNCHANGED <<settled, orderedPaths>>
        BY <2>1 DEF batcherVars
      <3>3. \A d : Open(d)' <=> Open(d)
        BY <2>1, <2>3, <3>1, <3>2 DEF Open, At
      <3> QED BY <1>1, <2>1, <3>2, <3>3, InvisibleStep
    <2> QED BY <1>12, <2>2, <2>3 DEF BeginBroadcast
  <1>13. ASSUME NEW x \in broadcasts, ServerSkips(x) PROVE [Abstract!Next]_(Abstract!vars)
    BY <1>11, <1>13 DEF ServerSkips
  <1>14. ASSUME NEW x \in broadcasts, ServerDelivers(x) PROVE [Abstract!Next]_(Abstract!vars)
    <2>1. /\ x.step = "sending" /\ broadcasts' = At(x, "returned")
          /\ delivered' = Append(delivered, x.decision)
          /\ UNCHANGED <<monitoringState, settled, orderedPaths>>
      BY <1>14 DEF ServerDelivers, batcherVars
    <2>2. Watching
      BY <1>14 DEF ServerDelivers, OnlyCurrentBroadcastsLive, Watching
    <2>3. ToSet(delivered') = ToSet(delivered) \union {x.decision}
      <3>1. x.decision \in Nat /\ delivered \in Seq(Nat) /\ IsInjective(delivered)
        BY DEF TypeOK, BroadcastRecords, DecisionInv
      <3>2. x.decision \notin ToSet(delivered)
        BY <2>1 DEF DecisionInv, DecisionsApart, ToSet
      <3> QED BY <2>1, <3>1, <3>2, AppendNew
    <2>4. CASE x.decision = Manual
      <3>1. AbstractSent' = AbstractSent
        BY <2>3, <2>4 DEF AbstractSent
      <3> QED BY <1>1, <2>1, <2>4, <3>1, ClosingStep
    <2>5. CASE x.decision # Manual
      <3>1. AbstractSent' = AbstractSent \union {x.decision}
        BY <2>3, <2>5 DEF AbstractSent
      <3>2. x.decision \in AbstractDecided /\ Abstract!Send(x.decision)
        BY <2>1, <2>2, <2>5, <3>1, ClosingStep, AbstractSteps
      <3> QED BY <3>2 DEF Abstract!Next, AbstractDecided, Undecided
    <2> QED BY <2>4, <2>5
  <1>15. ASSUME NEW x \in broadcasts, FinishBroadcast(x) PROVE [Abstract!Next]_(Abstract!vars)
    <2>1. /\ UNCHANGED <<monitoringState, orderedPaths, delivered, settled>>
          /\ broadcasts' = broadcasts \ {x} /\ x.step = "returned"
      BY <1>15 DEF FinishBroadcast, batcherVars
    <2>2. \A d : Open(d)' <=> Open(d)
      BY <2>1 DEF Open
    <2> QED BY <1>1, <2>1, <2>2, InvisibleStep
  <1>16. CASE UNCHANGED vars
    <2>1. UNCHANGED <<monitoringState, orderedPaths, delivered, settled, broadcasts>>
      BY <1>16 DEF vars, batcherVars, pipelineVars
    <2>2. \A d : Open(d)' <=> Open(d)
      BY <2>1 DEF Open
    <2> QED BY <1>1, <2>1, <2>2, InvisibleStep
  <1> QED BY <1>2, <1>3, <1>4, <1>5, <1>6, <1>7, <1>9, <1>10, <1>12, <1>13, <1>14, <1>15, <1>16
          DEF Next, BroadcastStep

(* The pipeline implements ReloadDecisions: whatever the interleaving of   *)
(* its actor with the batcher, the settling tasks and the broadcast tasks, *)
(* a change is pending until it is decided, a decision is sent once and    *)
(* only while the project is watched, and the end of a watch discards it.  *)
THEOREM PipelineImplementsDecisions == Spec => ImplementsReloadDecisions
  <1>1. Init => Abstract!Init
    BY EmptySequence DEF Init, BatcherInit, Abstract!Init, Watching
  <1>2. /\ TypeOK /\ BatcherInv /\ DecisionInv /\ WatchInv /\ OnlyCurrentBroadcastsLive
        /\ [Next]_vars
        => [Abstract!Next]_(Abstract!vars)
    BY StepImplements
  <1> QED BY <1>1, <1>2, PipelineTypeCorrect, PipelineKeepsBatcher, DecisionsSentOnce,
             WatchesStartEmpty, OnlyCurrentBroadcastsAlwaysLive, PTL
          DEF Spec, ImplementsReloadDecisions, Abstract!Spec
===============================================================================
