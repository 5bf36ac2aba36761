-------------------------- MODULE ExecutionProofs --------------------------
(***************************************************************************)
(* Proofs about Execution, for every set of tasks, goroutines, responses   *)
(* and handlers' inputs, and every bound.                                  *)
(***************************************************************************)
EXTENDS Execution, FiniteSetTheorems, TLAPS

\* A goroutine that exists has a task and a pointer to an object of it, and a
\* free slot has no background goroutine left.
ExecOK ==
    \A p \in Procs :
        IF exec[p].pc = "idle"
        THEN exec[p].jobs = {}
        ELSE exec[p].id \in Ids /\ exec[p].task \in 1 .. MaxInc

TypeInv == TypeOK /\ ExecOK

-----------------------------------------------------------------------------
(* What the pure computations on a task return.                            *)

LEMMA RetryTypes ==
    ASSUME NEW task \in TaskType, NEW n \in Int, NEW t \in Nat
    PROVE  /\ Reset(task, n, t) \in TaskType
           /\ Retried(task, n) \in TaskType
  BY DEF TaskType, Reset, Retried

LEMMA UpdatedType ==
    ASSUME NEW task \in TaskType, NEW u \in UpdateType
    PROVE  Updated(task, u) \in TaskType
  <1>1. /\ Given(u.attempts, task.attempts) \in Int
        /\ Given(u.paused, task.paused) \in BOOLEAN
        /\ Given(u.complete, task.complete) \in BOOLEAN
        /\ Given(u.runAfter, task.runAfter) \in Nat
        /\ Given(u.errorDelay, task.errorDelay) \in Nat
        /\ Given(u.worker, task.worker) \in Workers \cup {NoWorker}
        /\ Given(u.output, task.output) \in Ids \cup {NoOutput}
    BY DEF TaskType, UpdateType, Given
  <1> HIDE DEF Given
  <1> QED
    BY <1>1 DEF TaskType, Updated

LEMMA ChildOfType ==
    ASSUME NEW task \in TaskType, NEW creator \in Ids
    PROVE  ChildOf(creator, task) \in TaskType
  <1>1. OrDefault(task.attempts, DefaultAttempts) \in Int
    BY DefaultsAssumption DEF TaskType, OrDefault
  <1>2. OrDefault(task.errorDelay, DefaultErrorDelay) \in Nat
    BY DefaultsAssumption DEF TaskType, OrDefault
  <1> QED
    BY <1>1, <1>2 DEF TaskType, ChildOf

LEMMA AttemptedType ==
    ASSUME NEW task \in TaskType, NEW left \in Int, NEW output \in Ids \cup {NoOutput}
    PROVE  Attempted(task, left, output) \in TaskType
  BY DEF TaskType, Attempted

LEMMA ResultType ==
    ASSUME NEW task \in TaskType, NEW t \in Nat
    PROVE  /\ [task EXCEPT !.complete = TRUE] \in TaskType
           /\ Failed(task, t) \in TaskType
  <1>1. t + task.errorDelay \in Nat
    BY DEF TaskType
  <1>2. [task EXCEPT !.complete = TRUE] \in TaskType
    BY DEF TaskType
  <1> QED
    BY <1>1, <1>2 DEF TaskType, Failed

LEMMA IdleExecType == IdleExec \in ExecType
  BY BoundsAssumption DEF ExecType, IdleExec, Pcs, Jobs, NoResponse, ResponseType

\* Freeing a slot when it has nothing left to do.
LEMMA FreedType ==
    ASSUME NEW e \in ExecType
    PROVE  /\ Freed(e) \in ExecType
           /\ Freed(e).pc = "idle" => Freed(e).jobs = {} \/ e.pc = "idle"
           /\ Freed(e).pc # "idle" => Freed(e) = e
  BY IdleExecType DEF Freed, IdleExec

-----------------------------------------------------------------------------
(* Type correctness.                                                       *)

FitsSlot(e) ==
    IF e.pc = "idle" THEN e.jobs = {} ELSE e.id \in Ids /\ e.task \in 1 .. MaxInc

\* A step that rewrites one slot.
LEMMA SlotUpdate ==
    ASSUME TypeInv, NEW p \in Procs, NEW e \in ExecType, FitsSlot(e),
           exec' = [exec EXCEPT ![p] = e]
    PROVE  exec' \in [Procs -> ExecType] /\ ExecOK'
  BY DEF TypeInv, TypeOK, ExecOK, FitsSlot

LEMMA FreedFits ==
    ASSUME NEW e \in ExecType, e.id \in Ids, e.task \in 1 .. MaxInc, e.pc # "idle"
    PROVE  Freed(e) \in ExecType /\ FitsSlot(Freed(e))
  BY FreedType DEF FitsSlot

\* A slot in use points to a task object.
LEMMA SlotInUse ==
    ASSUME TypeInv, NEW p \in Procs, exec[p].pc # "idle"
    PROVE  /\ exec[p] \in ExecType
           /\ exec[p].id \in Ids
           /\ exec[p].task \in 1 .. MaxInc
           /\ Task(p) \in Refs
           /\ heap[Task(p)] \in TaskType
  BY DEF TypeInv, TypeOK, ExecOK, Task, Refs

LEMMA StoredTaskType ==
    ASSUME TypeInv, NEW id \in Ids, IsStored(id)
    PROVE  /\ stored[id] \in 1 .. MaxInc
           /\ stored[id] \in 0 .. MaxInc
           /\ Ref(id) \in Refs
           /\ StoredTask(id) \in TaskType
  <1>1. stored[id] \in 1 .. MaxInc
    BY BoundsAssumption DEF TypeInv, TypeOK, IsStored
  <1> QED
    BY <1>1 DEF TypeInv, TypeOK, Ref, Refs, StoredTask

LEMMA TriggerType ==
    ASSUME TypeInv, NEW ids
    PROVE  Trigger(ids) \in [Ids -> Nat]
  BY DEF TypeInv, TypeOK, Trigger

LEMMA ParentsType ==
    ASSUME TypeInv, NEW id \in Ids
    PROVE  GetTaskParents(id) \subseteq Refs
  <1>1. CASE ~IsStored(id)
    BY <1>1 DEF GetTaskParents
  <1>2. CASE IsStored(id)
    <2>1. StoredTask(id).parents \subseteq Ids
      BY <1>2, StoredTaskType DEF TaskType
    <2> QED
      BY <1>2, <2>1, StoredTaskType DEF GetTaskParents
  <1> QED
    BY <1>1, <1>2

LEMMA CreatedFinite ==
    ASSUME TypeInv
    PROVE  Cardinality(Created) \in Nat
  <1>1. IsFiniteSet(1 .. MaxInc)
    BY FS_Interval, BoundsAssumption
  <1>2. IsFiniteSet(Refs)
    BY <1>1, FS_Product, BoundsAssumption DEF Refs
  <1>3. IsFiniteSet(Created)
    BY <1>2, FS_Subset DEF Created
  <1> QED
    BY <1>3, FS_CardinalityType

\* SaveTask keeps the types of what it writes.
LEMMA SaveNewTaskType ==
    ASSUME TypeInv, NEW id \in Ids, NEW task \in TaskType, SaveNewTask(id, task)
    PROVE  /\ heap' \in [Refs -> TaskType]
           /\ stored' \in [Ids -> 0 .. MaxInc]
           /\ made' \in [Ids -> 0 .. MaxInc]
           /\ born' \in [Refs -> Nat]
  <1>1. CASE IsStored(id)
    BY <1>1 DEF SaveNewTask, TypeInv, TypeOK
  <1>2. CASE ~IsStored(id)
    <2>1. made[id] + 1 \in 1 .. MaxInc
      BY <1>2, BoundsAssumption DEF SaveNewTask, TypeInv, TypeOK
    <2>2. <<id, made[id] + 1>> \in Refs
      BY <2>1 DEF Refs
    <2>3. Cardinality(Created) + 1 \in Nat
      BY CreatedFinite
    <2> QED
      BY <1>2, <2>1, <2>2, <2>3 DEF SaveNewTask, TypeInv, TypeOK
  <1> QED
    BY <1>1, <1>2

\* Evaluating a task keeps the types.
LEMMA EvaluateTypes ==
    ASSUME TypeInv, NEW id \in Ids
    PROVE  /\ EvaluateDrops(id) => TypeInv'
           /\ \A p \in Procs : EvaluateExecutes(id, p) => TypeInv'
  <1>1. evals[id] > 0 => [evals EXCEPT ![id] = @ - 1] \in [Ids -> Nat]
    BY DEF TypeInv, TypeOK
  <1>2. ASSUME EvaluateDrops(id) PROVE TypeInv'
    BY <1>1, <1>2 DEF EvaluateDrops, TypeInv, TypeOK, ExecOK
  <1>3. ASSUME NEW p \in Procs, EvaluateExecutes(id, p) PROVE TypeInv'
    <2> DEFINE e == [IdleExec EXCEPT !.pc = "execute", !.id = id, !.task = stored[id]]
    <2>1. stored[id] \in 1 .. MaxInc /\ stored[id] \in 0 .. MaxInc
      BY <1>3, StoredTaskType DEF EvaluateExecutes, CanExecuteNow
    <2>2. e \in ExecType
      BY <2>1, IdleExecType DEF ExecType, Pcs
    <2>3. FitsSlot(e)
      BY <2>1 DEF FitsSlot, IdleExec
    <2>4. exec' = [exec EXCEPT ![p] = e]
      BY <1>3 DEF EvaluateExecutes
    <2>5. exec' \in [Procs -> ExecType] /\ ExecOK'
      BY <2>2, <2>3, <2>4, SlotUpdate
    <2> QED
      BY <1>1, <1>3, <2>5 DEF EvaluateExecutes, TypeInv, TypeOK
  <1> QED
    BY <1>2, <1>3

\* The steps from the timer to the throttler keep the types.
LEMMA LockingTypes ==
    ASSUME TypeInv, NEW p \in Procs,
           \/ Execute(p) \/ LockPanics(p) \/ LockFails(p) \/ LockAcquired(p)
           \/ RecheckEnds(p) \/ RecheckGoesOn(p)
    PROVE  TypeInv'
  <1>1. CASE Execute(p)
    <2> DEFINE e == [exec[p] EXCEPT !.pc = "timer",
                                    !.parents = GetTaskParents(exec[p].id),
                                    !.timer = Later(now, heap[Task(p)].runAfter)]
    <2>1. exec[p].pc # "idle"
      BY <1>1 DEF Execute, At
    <2>2. Later(now, heap[Task(p)].runAfter) \in Nat
      BY <2>1, SlotInUse DEF Later, TypeInv, TypeOK, TaskType
    <2>3. GetTaskParents(exec[p].id) \subseteq Refs
      BY <2>1, SlotInUse, ParentsType
    <2>4. e \in ExecType
      BY <2>1, <2>2, <2>3, SlotInUse DEF ExecType, Pcs
    <2>5. FitsSlot(e)
      BY <2>1, SlotInUse DEF FitsSlot, ExecType
    <2>6. exec' = [exec EXCEPT ![p] = e]
      BY <1>1 DEF Execute
    <2>7. exec' \in [Procs -> ExecType] /\ ExecOK'
      BY <2>4, <2>5, <2>6, SlotUpdate
    <2> QED
      BY <1>1, <2>7 DEF Execute, TypeInv, TypeOK
  <1>2. CASE LockPanics(p)
    BY <1>2 DEF LockPanics, TypeInv, TypeOK, ExecOK
  <1>3. CASE LockFails(p)
    <2>1. FitsSlot(IdleExec)
      BY DEF FitsSlot, IdleExec
    <2>2. exec' \in [Procs -> ExecType] /\ ExecOK'
      BY <1>3, <2>1, IdleExecType, SlotUpdate DEF LockFails
    <2> QED
      BY <1>3, <2>2 DEF LockFails, TypeInv, TypeOK
  <1>4. CASE LockAcquired(p)
    <2> DEFINE e == [exec[p] EXCEPT !.pc = "locked", !.lock = stored[exec[p].id]]
    <2>1. exec[p].pc # "idle"
      BY <1>4 DEF LockAcquired, TimerFires, At
    <2>2. stored[exec[p].id] \in 1 .. MaxInc /\ stored[exec[p].id] \in 0 .. MaxInc
      BY <1>4, <2>1, SlotInUse, StoredTaskType DEF LockAcquired
    <2>3. e \in ExecType
      BY <2>1, <2>2, SlotInUse DEF ExecType, Pcs
    <2>4. FitsSlot(e)
      BY <2>1, SlotInUse DEF FitsSlot, ExecType
    <2>5. exec' = [exec EXCEPT ![p] = e]
      BY <1>4 DEF LockAcquired
    <2>6. exec' \in [Procs -> ExecType] /\ ExecOK'
      BY <2>3, <2>4, <2>5, SlotUpdate
    <2> QED
      BY <1>4, <2>6 DEF LockAcquired, TypeInv, TypeOK
  <1>5. CASE RecheckEnds(p)
    <2> DEFINE e == [exec[p] EXCEPT !.pc = "unlock"]
    <2>1. exec[p].pc # "idle"
      BY <1>5 DEF RecheckEnds, At
    <2>2. e \in ExecType
      BY <2>1, SlotInUse DEF ExecType, Pcs
    <2>3. FitsSlot(e)
      BY <2>1, SlotInUse DEF FitsSlot, ExecType
    <2>4. exec' = [exec EXCEPT ![p] = e]
      BY <1>5 DEF RecheckEnds
    <2>5. exec' \in [Procs -> ExecType] /\ ExecOK'
      BY <2>2, <2>3, <2>4, SlotUpdate
    <2>6. evals' \in [Ids -> Nat]
      BY <1>5, TriggerType DEF RecheckEnds, TypeInv, TypeOK
    <2> QED
      BY <1>5, <2>5, <2>6 DEF RecheckEnds, TypeInv, TypeOK
  <1>6. CASE RecheckGoesOn(p)
    <2> DEFINE e == [exec[p] EXCEPT !.pc = "throttled", !.task = stored[exec[p].id]]
    <2>1. exec[p].pc # "idle"
      BY <1>6 DEF RecheckGoesOn, At
    <2>2. stored[exec[p].id] \in 1 .. MaxInc /\ stored[exec[p].id] \in 0 .. MaxInc
      BY <1>6, <2>1, SlotInUse, StoredTaskType DEF RecheckGoesOn, StillFit
    <2>3. e \in ExecType
      BY <2>1, <2>2, SlotInUse DEF ExecType, Pcs
    <2>4. FitsSlot(e)
      BY <2>1, <2>2, SlotInUse DEF FitsSlot, ExecType
    <2>5. exec' = [exec EXCEPT ![p] = e]
      BY <1>6 DEF RecheckGoesOn
    <2>6. exec' \in [Procs -> ExecType] /\ ExecOK'
      BY <2>3, <2>4, <2>5, SlotUpdate
    <2> QED
      BY <1>6, <2>6 DEF RecheckGoesOn, TypeInv, TypeOK
  <1> QED
    BY <1>1, <1>2, <1>3, <1>4, <1>5, <1>6

\* The steps from the worker call to the unlock keep the types.
LEMMA CallingTypes ==
    ASSUME TypeInv, NEW p \in Procs,
           \/ Start(p) \/ (\E resp \in Responses : PostReturns(p, resp)) \/ Settle(p)
           \/ CreateChild(p) \/ Finish(p) \/ Unlock(p)
    PROVE  TypeInv'
  <1>1. CASE Start(p)
    <2> DEFINE e == [exec[p] EXCEPT !.pc = "posting"]
    <2>1. exec[p].pc # "idle"
      BY <1>1 DEF Start, At
    <2>2. e \in ExecType /\ FitsSlot(e)
      BY <2>1, SlotInUse DEF ExecType, Pcs, FitsSlot
    <2>3. exec' = [exec EXCEPT ![p] = e]
      BY <1>1 DEF Start
    <2>4. exec' \in [Procs -> ExecType] /\ ExecOK'
      BY <2>2, <2>3, SlotUpdate
    <2>5. [heap[Task(p)] EXCEPT !.busy = TRUE] \in TaskType
      BY <2>1, SlotInUse DEF TaskType
    <2>6. heap' \in [Refs -> TaskType]
      BY <1>1, <2>1, <2>5, SlotInUse DEF Start, TypeInv, TypeOK
    <2> QED
      BY <1>1, <2>4, <2>6 DEF Start, TypeInv, TypeOK
  <1>2. ASSUME NEW resp \in Responses, PostReturns(p, resp) PROVE TypeInv'
    <2> DEFINE e == [exec[p] EXCEPT !.pc = "settling", !.resp = resp, !.parents = {},
                                    !.timer = 0, !.left = heap[Task(p)].attempts - 1]
    <2>1. exec[p].pc # "idle"
      BY <1>2 DEF PostReturns, At
    <2>2. heap[Task(p)].attempts - 1 \in Int
      BY <2>1, SlotInUse DEF TaskType
    <2>3. resp \in ResponseType
      BY InstanceAssumption
    <2>4. e \in ExecType /\ FitsSlot(e)
      BY <2>1, <2>2, <2>3, SlotInUse DEF ExecType, Pcs, FitsSlot
    <2>5. exec' = [exec EXCEPT ![p] = e]
      BY <1>2 DEF PostReturns
    <2>6. exec' \in [Procs -> ExecType] /\ ExecOK'
      BY <2>4, <2>5, SlotUpdate
    <2> QED
      BY <1>2, <2>6 DEF PostReturns, TypeInv, TypeOK
  <1>3. CASE Settle(p)
    <2> DEFINE todo == IF exec[p].resp.ok THEN Continuation[exec[p].id] ELSE <<>>
               e == [exec[p] EXCEPT !.pc = "finishing", !.left = 0, !.todo = todo]
    <2>1. exec[p].pc # "idle"
      BY <1>3 DEF Settle, At
    <2>2. todo \in Seq(Ids)
      BY <2>1, SlotInUse, InstanceAssumption
    <2> HIDE DEF todo
    <2>3. e \in ExecType
      <3> DEFINE s == [exec[p] EXCEPT !.pc = "finishing", !.left = 0]
      <3>1. exec[p] \in ExecType /\ 0 \in Int /\ "finishing" \in Pcs
        BY <2>1, SlotInUse DEF Pcs
      <3>2. s \in ExecType
        BY <3>1 DEF ExecType
      <3>3. e = [s EXCEPT !.todo = todo]
        OBVIOUS
      <3> HIDE DEF s
      <3> QED
        BY <2>2, <3>2, <3>3 DEF ExecType
    <2>4. FitsSlot(e)
      BY <2>1, SlotInUse DEF ExecType, FitsSlot
    <2>5. exec' = [exec EXCEPT ![p] = e]
      BY <1>3 DEF Settle, todo
    <2>6. exec' \in [Procs -> ExecType] /\ ExecOK'
      BY <2>3, <2>4, <2>5, SlotUpdate
    <2>7. Result(p) \in TaskType
      <3> DEFINE output == IF exec[p].resp.ok THEN exec[p].id ELSE NoOutput
      <3>1. exec[p].left \in Int /\ output \in Ids \cup {NoOutput}
        BY <2>1, SlotInUse DEF ExecType
      <3>2. Attempted(heap[Task(p)], exec[p].left, output) \in TaskType
        BY <2>1, <3>1, SlotInUse, AttemptedType
      <3>3. now \in Nat
        BY DEF TypeInv, TypeOK
      <3> QED
        BY <3>2, <3>3, ResultType DEF Result
    <2>8. heap' \in [Refs -> TaskType]
      BY <1>3, <2>1, <2>7, SlotInUse DEF Settle, TypeInv, TypeOK
    <2> QED
      BY <1>3, <2>6, <2>8 DEF Settle, TypeInv, TypeOK
  <1>4. CASE CreateChild(p)
    <2> DEFINE child == Head(exec[p].todo)
               e == [exec[p] EXCEPT !.todo = Tail(exec[p].todo)]
    <2>1. exec[p].pc # "idle" /\ exec[p].todo # <<>>
      BY <1>4 DEF CreateChild, At
    <2>2. exec[p].todo \in Seq(Ids)
      BY <2>1, SlotInUse DEF ExecType
    <2>3. child \in Ids /\ Tail(exec[p].todo) \in Seq(Ids)
      BY <2>1, <2>2
    <2>4. e \in ExecType /\ FitsSlot(e)
      BY <2>1, <2>3, SlotInUse DEF ExecType, FitsSlot
    <2>5. exec' = [exec EXCEPT ![p] = e]
      BY <1>4 DEF CreateChild
    <2>6. exec' \in [Procs -> ExecType] /\ ExecOK'
      BY <2>4, <2>5, SlotUpdate
    <2>7. ChildOf(exec[p].id, Blueprint[child]) \in TaskType
      BY <2>1, <2>3, SlotInUse, ChildOfType, InstanceAssumption
    <2>8. SaveNewTask(child, ChildOf(exec[p].id, Blueprint[child]))
      BY <1>4 DEF CreateChild
    <2>9. /\ heap' \in [Refs -> TaskType]
          /\ stored' \in [Ids -> 0 .. MaxInc]
          /\ made' \in [Ids -> 0 .. MaxInc]
          /\ born' \in [Refs -> Nat]
      BY <2>3, <2>7, <2>8, SaveNewTaskType
    <2>10. evals' \in [Ids -> Nat]
      BY <1>4, TriggerType DEF CreateChild
    <2> QED
      BY <1>4, <2>6, <2>9, <2>10 DEF CreateChild, TypeInv, TypeOK
  <1>5. CASE Finish(p)
    <2> DEFINE jobs == DelayJobs(exec[p].resp) \cup
                         (IF heap[Task(p)].complete THEN DoneJobs(exec[p].id) ELSE {})
               e == [exec[p] EXCEPT !.pc = "unlock", !.jobs = jobs]
    <2>1. exec[p].pc # "idle"
      BY <1>5 DEF Finish, At
    <2>2. jobs \subseteq Jobs
      BY DEF DelayJobs, DoneJobs, Jobs
    <2> HIDE DEF jobs
    <2>3. e \in ExecType /\ FitsSlot(e)
      BY <2>1, <2>2, SlotInUse DEF ExecType, Pcs, FitsSlot
    <2>4. exec' = [exec EXCEPT ![p] = e]
      BY <1>5 DEF Finish, jobs
    <2>5. exec' \in [Procs -> ExecType] /\ ExecOK'
      BY <2>3, <2>4, SlotUpdate
    <2>6. evals' \in [Ids -> Nat]
      BY <1>5, TriggerType DEF Finish
    <2> QED
      BY <1>5, <2>5, <2>6 DEF Finish, TypeInv, TypeOK
  <1>6. CASE Unlock(p)
    <2> DEFINE e == [exec[p] EXCEPT !.pc = "background", !.lock = 0]
    <2>1. exec[p].pc # "idle"
      BY <1>6 DEF Unlock, At
    <2>2. 0 \in 0 .. MaxInc
      BY BoundsAssumption
    <2>3. e \in ExecType
      BY <2>1, <2>2, SlotInUse DEF ExecType, Pcs
    <2>4. e.id \in Ids /\ e.task \in 1 .. MaxInc /\ e.pc # "idle"
      BY <2>1, SlotInUse DEF ExecType
    <2>5. Freed(e) \in ExecType /\ FitsSlot(Freed(e))
      BY <2>3, <2>4, FreedFits
    <2>6. exec' = [exec EXCEPT ![p] = Freed(e)]
      BY <1>6 DEF Unlock
    <2>7. exec' \in [Procs -> ExecType] /\ ExecOK'
      BY <2>5, <2>6, SlotUpdate
    <2> QED
      BY <1>6, <2>7 DEF Unlock, TypeInv, TypeOK
  <1> QED
    BY <1>1, <1>2, <1>3, <1>4, <1>5, <1>6

\* A slot with a job to do is in use, and fits when the job is done.
LEMMA JobTypes ==
    ASSUME TypeInv, NEW p \in Procs, NEW job, HasJob(p, job)
    PROVE  /\ exec[p].pc # "idle"
           /\ JobDone(p, job) => exec' \in [Procs -> ExecType] /\ ExecOK'
  <1> DEFINE e == [exec[p] EXCEPT !.jobs = exec[p].jobs \ {job}]
  <1>1. exec[p].pc # "idle"
    BY DEF HasJob, TypeInv, ExecOK
  <1>2. e \in ExecType
    BY <1>1, SlotInUse DEF ExecType
  <1>3. e.id \in Ids /\ e.task \in 1 .. MaxInc /\ e.pc # "idle"
    BY <1>1, SlotInUse DEF ExecType
  <1>4. Freed(e) \in ExecType /\ FitsSlot(Freed(e))
    BY <1>2, <1>3, FreedFits
  <1>5. JobDone(p, job) => exec' = [exec EXCEPT ![p] = Freed(e)]
    BY DEF JobDone
  <1> QED
    BY <1>1, <1>4, <1>5, SlotUpdate

\* Writing runAfter of some tasks keeps the types.
LEMMA DelayedType ==
    ASSUME TypeInv, NEW refs, NEW delay \in Nat
    PROVE  Delayed(refs, delay) \in [Refs -> TaskType]
  <1>1. now + delay \in Nat
    BY DEF TypeInv, TypeOK
  <1>2. \A r \in Refs : [heap[r] EXCEPT !.runAfter = now + delay] \in TaskType
    BY <1>1 DEF TypeInv, TypeOK, TaskType
  <1> QED
    BY <1>2 DEF Delayed, TypeInv, TypeOK

\* Completing a duplicate keeps the types.
LEMMA MergedType ==
    ASSUME TypeInv, NEW match \in Refs, NEW source \in Refs
    PROVE  Merged(match, source) \in [Refs -> TaskType]
  <1>1. heap[source].output \in Ids \cup {NoOutput}
    BY DEF TypeInv, TypeOK, TaskType
  <1>2. heap[match] \in TaskType
    BY DEF TypeInv, TypeOK
  <1>3. [heap[match] EXCEPT !.complete = TRUE, !.output = heap[source].output] \in TaskType
    BY <1>1, <1>2 DEF TaskType
  <1>4. Merged(match, source) =
          [heap EXCEPT ![match] = [heap[match] EXCEPT !.complete = TRUE,
                                                      !.output = heap[source].output]]
    BY DEF Merged, TypeInv, TypeOK
  <1> QED
    BY <1>3, <1>4 DEF TypeInv, TypeOK

\* The duplicates found fit the slot of the goroutine that looked for them.
LEMMA DuplicatesFoundType ==
    ASSUME TypeInv, NEW p \in Procs, FindDuplicates(p)
    PROVE  [exec[p] EXCEPT !.matches = Duplicates(p),
                           !.jobs = (exec[p].jobs \ {"match"}) \cup
                               {j \in {"merge"} : Duplicates(p) # {}}] \in ExecType
  <1> DEFINE jobs == (exec[p].jobs \ {"match"}) \cup
                         {j \in {"merge"} : Duplicates(p) # {}}
  <1>1. exec[p] \in ExecType
    BY DEF TypeInv, TypeOK
  <1>2. jobs \in SUBSET Jobs
    BY <1>1 DEF ExecType, Jobs
  <1>3. TasksWithKey(Key[exec[p].id]) \subseteq Refs
    BY StoredTaskType DEF TasksWithKey
  <1>4. Duplicates(p) \in SUBSET Refs
    BY <1>3 DEF Duplicates
  <1> HIDE DEF jobs
  <1>5. [exec[p] EXCEPT !.matches = Duplicates(p), !.jobs = jobs] \in ExecType
    BY <1>1, <1>2, <1>4 DEF ExecType
  <1> QED
    BY <1>5 DEF jobs

\* The goroutines an attempt leaves behind keep the types.
LEMMA BackgroundTypes ==
    ASSUME TypeInv, NEW p \in Procs, BackgroundStep(p)
    PROVE  TypeInv'
  <1>1. CASE NotifyChildren(p)
    <2>1. exec' \in [Procs -> ExecType] /\ ExecOK'
      BY <1>1, JobTypes DEF NotifyChildren
    <2>2. evals' \in [Ids -> Nat]
      BY <1>1, TriggerType DEF NotifyChildren
    <2> QED
      BY <1>1, <2>1, <2>2 DEF NotifyChildren, TypeInv, TypeOK
  <1>2. CASE ApplyChildrenDelay(p)
    <2>1. exec' \in [Procs -> ExecType] /\ ExecOK'
      BY <1>2, JobTypes DEF ApplyChildrenDelay
    <2>2. heap' = heap
      BY <1>2 DEF ApplyChildrenDelay, GetTaskChildrenFails
    <2> QED
      BY <1>2, <2>1, <2>2 DEF ApplyChildrenDelay, TypeInv, TypeOK
  <1>3. CASE ApplyWorkgroupDelay(p)
    <2>1. exec' \in [Procs -> ExecType] /\ ExecOK'
      BY <1>3, JobTypes DEF ApplyWorkgroupDelay
    <2>2. heap' = heap
      BY <1>3 DEF ApplyWorkgroupDelay, GetTasksInWorkgroupFails
    <2> QED
      BY <1>3, <2>1, <2>2 DEF ApplyWorkgroupDelay, TypeInv, TypeOK
  <1>4. CASE FindDuplicates(p)
    <2> DEFINE jobs == (exec[p].jobs \ {"match"}) \cup
                           {j \in {"merge"} : Duplicates(p) # {}}
               e == [exec[p] EXCEPT !.matches = Duplicates(p), !.jobs = jobs]
    <2>1. exec[p].pc # "idle" /\ e \in ExecType
      BY <1>4, JobTypes, DuplicatesFoundType DEF FindDuplicates
    <2>2. e.id \in Ids /\ e.task \in 1 .. MaxInc /\ e.pc # "idle"
      BY <2>1, SlotInUse DEF ExecType
    <2>3. exec' = [exec EXCEPT ![p] = Freed(e)]
      BY <1>4 DEF FindDuplicates
    <2> HIDE DEF e
    <2>4. Freed(e) \in ExecType /\ FitsSlot(Freed(e))
      BY <2>1, <2>2, FreedFits
    <2>5. exec' \in [Procs -> ExecType] /\ ExecOK'
      BY <2>3, <2>4, SlotUpdate
    <2> QED
      BY <1>4, <2>5 DEF FindDuplicates, TypeInv, TypeOK
  <1>5. ASSUME NEW match \in Refs, MergeOne(p, match) PROVE TypeInv'
    <2> DEFINE rest == exec[p].matches \ {match}
               jobs == IF rest = {} THEN exec[p].jobs \ {"merge"} ELSE exec[p].jobs
               e == [exec[p] EXCEPT !.matches = rest, !.jobs = jobs]
    <2>1. exec[p].pc # "idle"
      BY <1>5, JobTypes DEF MergeOne
    <2>2. jobs \in SUBSET Jobs /\ rest \in SUBSET Refs
      BY <2>1, SlotInUse DEF ExecType
    <2>3. exec' = [exec EXCEPT ![p] = Freed(e)]
      BY <1>5 DEF MergeOne
    <2> HIDE DEF jobs, rest
    <2>4. e \in ExecType
      BY <2>1, <2>2, SlotInUse DEF ExecType
    <2>5. e.id \in Ids /\ e.task \in 1 .. MaxInc /\ e.pc # "idle"
      BY <2>1, SlotInUse DEF ExecType
    <2>6. Freed(e) \in ExecType /\ FitsSlot(Freed(e))
      BY <2>4, <2>5, FreedFits
    <2>7. exec' \in [Procs -> ExecType] /\ ExecOK'
      BY <2>3, <2>6, SlotUpdate
    <2>8. heap' \in [Refs -> TaskType]
      BY <1>5, <2>1, SlotInUse, MergedType DEF MergeOne
    <2>9. evals' = evals
      BY <1>5 DEF MergeOne, GetTaskChildrenFails
    <2> QED
      BY <1>5, <2>7, <2>8, <2>9 DEF MergeOne, TypeInv, TypeOK
  <1> QED
    BY <1>1, <1>2, <1>3, <1>4, <1>5 DEF BackgroundStep

\* Counting a call, and leaving the goroutines alone, keeps the types.
LEMMA CallTypes ==
    ASSUME TypeInv, NEW op, Call(op)
    PROVE  /\ calls' \in Nat
           /\ exec' = exec => exec' \in [Procs -> ExecType] /\ ExecOK'
  BY DEF Call, TypeInv, TypeOK, ExecOK

\* The API handlers keep the types.
LEMMA ApiTypes ==
    ASSUME TypeInv, ApiCall
    PROVE  TypeInv'
  <1> PICK id \in Ids :
        \/ CreateTask(id)
        \/ DeleteTask(id)
        \/ \E n \in Grants : ResetTask(id, n) \/ RetryTask(id, n)
        \/ \E u \in Updates : UpdateTask(id, u)
    BY DEF ApiCall
  <1>1. CASE CreateTask(id)
    <2>1. Blueprint[id] \in TaskType
      BY InstanceAssumption
    <2>2. SaveNewTask(id, Blueprint[id])
      BY <1>1 DEF CreateTask
    <2>3. /\ heap' \in [Refs -> TaskType]
          /\ stored' \in [Ids -> 0 .. MaxInc]
          /\ made' \in [Ids -> 0 .. MaxInc]
          /\ born' \in [Refs -> Nat]
      BY <2>1, <2>2, SaveNewTaskType
    <2>4. evals' \in [Ids -> Nat]
      BY <1>1, TriggerType DEF CreateTask
    <2>6. calls' \in Nat /\ exec' \in [Procs -> ExecType] /\ ExecOK'
      BY <1>1, CallTypes DEF CreateTask
    <2> QED
      BY <1>1, <2>3, <2>4, <2>6 DEF CreateTask, TypeInv, TypeOK
  <1>2. CASE DeleteTask(id)
    <2>1. 0 \in 0 .. MaxInc
      BY BoundsAssumption
    <2>6. calls' \in Nat /\ exec' \in [Procs -> ExecType] /\ ExecOK'
      BY <1>2, CallTypes DEF DeleteTask
    <2> QED
      BY <1>2, <2>1, <2>6 DEF DeleteTask, TypeInv, TypeOK
  <1>3. ASSUME NEW n \in Grants, ResetTask(id, n) PROVE TypeInv'
    <2>1. IsStored(id)
      BY <1>3 DEF ResetTask
    <2>2. Reset(heap[Ref(id)], n, now) \in TaskType
      <3>1. n \in Int /\ now \in Nat
        BY InstanceAssumption DEF TypeInv, TypeOK
      <3> QED
        BY <2>1, <3>1, StoredTaskType, RetryTypes DEF StoredTask
    <2>3. heap' \in [Refs -> TaskType]
      BY <1>3, <2>1, <2>2, StoredTaskType DEF ResetTask, TypeInv, TypeOK
    <2>4. evals' \in [Ids -> Nat]
      BY <1>3, TriggerType DEF ResetTask
    <2>6. calls' \in Nat /\ exec' \in [Procs -> ExecType] /\ ExecOK'
      BY <1>3, CallTypes DEF ResetTask
    <2> QED
      BY <1>3, <2>3, <2>4, <2>6 DEF ResetTask, TypeInv, TypeOK
  <1>4. ASSUME NEW n \in Grants, RetryTask(id, n) PROVE TypeInv'
    <2>1. IsStored(id)
      BY <1>4 DEF RetryTask
    <2>2. Retried(heap[Ref(id)], n) \in TaskType
      <3>1. n \in Int /\ now \in Nat
        BY InstanceAssumption DEF TypeInv, TypeOK
      <3> QED
        BY <2>1, <3>1, StoredTaskType, RetryTypes DEF StoredTask
    <2>3. heap' \in [Refs -> TaskType]
      BY <1>4, <2>1, <2>2, StoredTaskType DEF RetryTask, TypeInv, TypeOK
    <2>4. evals' \in [Ids -> Nat]
      BY <1>4, TriggerType DEF RetryTask
    <2>6. calls' \in Nat /\ exec' \in [Procs -> ExecType] /\ ExecOK'
      BY <1>4, CallTypes DEF RetryTask
    <2> QED
      BY <1>4, <2>3, <2>4, <2>6 DEF RetryTask, TypeInv, TypeOK
  <1>5. ASSUME NEW u \in Updates, UpdateTask(id, u) PROVE TypeInv'
    <2>1. IsStored(id)
      BY <1>5 DEF UpdateTask
    <2>2. u \in UpdateType
      BY InstanceAssumption
    <2>3. Updated(StoredTask(id), u) \in TaskType
      BY <2>1, <2>2, StoredTaskType, UpdatedType
    <2>4. heap' \in [Refs -> TaskType]
      BY <1>5, <2>1, <2>3, StoredTaskType DEF UpdateTask, TypeInv, TypeOK
    <2>5. evals' \in [Ids -> Nat]
      BY <1>5, TriggerType DEF UpdateTask, TypeInv, TypeOK
    <2>6. calls' \in Nat /\ exec' \in [Procs -> ExecType] /\ ExecOK'
      BY <1>5, CallTypes DEF UpdateTask
    <2> QED
      BY <1>5, <2>4, <2>5, <2>6 DEF UpdateTask, TypeInv, TypeOK
  <1> QED
    BY <1>1, <1>2, <1>3, <1>4, <1>5

\* A fresh server is well typed.
LEMMA InitTypes ==
    ASSUME Init
    PROVE  TypeInv
  <1>1. 0 \in 0 .. MaxInc /\ 1 \in 0 .. MaxInc
    BY BoundsAssumption
  <1>2. heap \in [Refs -> TaskType]
    BY InstanceAssumption DEF Init, Refs
  <1>3. stored \in [Ids -> 0 .. MaxInc] /\ made \in [Ids -> 0 .. MaxInc]
    BY <1>1 DEF Init
  <1>4. born \in [Refs -> Nat]
    BY InstanceAssumption DEF Init, Refs
  <1>5. exec \in [Procs -> ExecType]
    BY IdleExecType DEF Init
  <1>6. ExecOK
    BY DEF Init, ExecOK, IdleExec
  <1>7. /\ sem \in [Refs -> BOOLEAN]
        /\ evals \in [Ids -> Nat]
        /\ now \in Nat /\ calls \in Nat /\ crashed \in BOOLEAN
        /\ pausedCalls \in [Refs -> Nat]
    BY DEF Init
  <1> QED
    BY <1>2, <1>3, <1>4, <1>5, <1>6, <1>7 DEF TypeInv, TypeOK

LEMMA NextTypes ==
    ASSUME TypeInv, [Next]_vars
    PROVE  TypeInv'
  <1>1. CASE \E id \in Ids : EvaluateDrops(id)
    BY <1>1, EvaluateTypes
  <1>2. CASE \E id \in Ids, p \in Procs : EvaluateExecutes(id, p)
    BY <1>2, EvaluateTypes
  <1>3. ASSUME NEW p \in Procs, ExecuteStep(p) PROVE TypeInv'
    BY <1>3, LockingTypes, CallingTypes DEF ExecuteStep
  <1>4. ASSUME NEW p \in Procs, BackgroundStep(p) PROVE TypeInv'
    BY <1>4, BackgroundTypes
  <1>5. CASE ApiCall
    BY <1>5, ApiTypes
  <1>6. CASE Tick
    BY <1>6 DEF Tick, TypeInv, TypeOK, ExecOK
  <1>7. CASE Rest
    BY <1>7 DEF Rest, vars, TypeInv, TypeOK, ExecOK
  <1>8. CASE UNCHANGED vars
    BY <1>8 DEF vars, TypeInv, TypeOK, ExecOK
  <1> QED
    BY <1>1, <1>2, <1>3, <1>4, <1>5, <1>6, <1>7, <1>8 DEF Next

\* Every reachable state is well typed, and every goroutine has a task object.
THEOREM TypeInvariant == Spec => []TypeInv
  <1>1. Init => TypeInv
    BY InitTypes
  <1>2. TypeInv /\ [Next]_vars => TypeInv'
    BY NextTypes
  <1> QED
    BY <1>1, <1>2, PTL DEF Spec

\* TypeOK holds of every server, whatever its tasks, workers and callers do:
\* no handler or goroutine writes a field out of its range or through a
\* pointer that leads nowhere.
THEOREM TypeCorrect == Spec => []TypeOK
  <1>1. TypeInv => TypeOK
    BY DEF TypeInv
  <1> QED
    BY <1>1, TypeInvariant, PTL

-----------------------------------------------------------------------------
(* The locking protocol is right for every number of tasks, goroutines and *)
(* handlers: the semaphores of the storage are held by one goroutine each, *)
(* are never lost, and keep a task from being given to two workers at a    *)
(* time, which is what they are for.                                       *)

\* The two halves of LockDiscipline: no goroutine takes itself for the holder
\* of a semaphore that is free or another's, and no semaphore is left behind.
HoldersExclude ==
    /\ \A p \in Procs : Holding(p) => Lock(p) \in Refs /\ sem[Lock(p)]
    /\ \A p, q \in Procs : Holding(p) /\ Holding(q) /\ p # q => Lock(p) # Lock(q)

NoneLeaked == \A r \in Refs : sem[r] => \E p \in Procs : Holding(p) /\ Lock(p) = r

\* What a goroutine holds after a step that puts e in its slot.
Holds(e) == e.pc \in HoldingPcs

\* A step that leaves the semaphores alone and what every goroutine holds.
LEMMA LockFrame ==
    ASSUME LockDiscipline, sem' = sem,
           \A p \in Procs : Holding(p)' <=> Holding(p),
           \A p \in Procs : Holding(p) => Lock(p)' = Lock(p)
    PROVE  LockDiscipline'
  <1>1. HoldersExclude'
    BY DEF LockDiscipline, HoldersExclude
  <1>2. NoneLeaked'
    BY DEF LockDiscipline, NoneLeaked
  <1> QED
    BY <1>1, <1>2 DEF LockDiscipline, HoldersExclude, NoneLeaked

\* The same, for a step that rewrites one slot.
LEMMA LockFrameSlot ==
    ASSUME TypeInv, LockDiscipline, sem' = sem, NEW p \in Procs, NEW e,
           exec' = [exec EXCEPT ![p] = e],
           Holds(e) <=> Holding(p),
           Holding(p) => e.id = exec[p].id /\ e.lock = exec[p].lock
    PROVE  LockDiscipline'
  <1>1. \A q \in Procs : exec'[q] = IF q = p THEN e ELSE exec[q]
    BY DEF TypeInv, TypeOK
  <1>2. \A q \in Procs : Holding(q)' <=> Holding(q)
    BY <1>1 DEF Holding, Holds
  <1>3. \A q \in Procs : Holding(q) => Lock(q)' = Lock(q)
    BY <1>1 DEF Lock
  <1> QED
    BY <1>2, <1>3, LockFrame

\* The semaphore a waiting goroutine acquires had no holder.
LEMMA AcquireKeepsDiscipline ==
    ASSUME TypeInv, LockDiscipline, NEW p \in Procs, LockAcquired(p)
    PROVE  LockDiscipline'
  <1> DEFINE r == Ref(exec[p].id)
  <1>1. exec[p].pc = "timer" /\ IsStored(exec[p].id) /\ ~sem[r]
    BY DEF LockAcquired, TimerFires, At, TryAcquire
  <1>2. r \in Refs
    BY <1>1, SlotInUse, StoredTaskType
  <1>3. sem' = [sem EXCEPT ![r] = TRUE]
    BY DEF LockAcquired
  <1>4. \A s \in Refs : sem'[s] <=> (s = r \/ sem[s])
    BY <1>2, <1>3 DEF TypeInv, TypeOK
  <1>5. /\ \A q \in Procs \ {p} : exec'[q] = exec[q]
        /\ exec'[p] = [exec[p] EXCEPT !.pc = "locked", !.lock = stored[exec[p].id]]
    BY DEF LockAcquired, TypeInv, TypeOK
  <1>6. exec[p] \in ExecType
    BY DEF TypeInv, TypeOK
  <1>7. exec'[p].pc = "locked" /\ exec'[p].id = exec[p].id /\ exec'[p].lock = stored[exec[p].id]
    BY <1>5, <1>6 DEF ExecType
  <1>8. Holding(p)' /\ Lock(p)' = r
    BY <1>7 DEF Holding, HoldingPcs, Lock, Ref
  <1>9. ~Holding(p)
    BY <1>1 DEF Holding, HoldingPcs
  <1>10. \A q \in Procs \ {p} : (Holding(q)' <=> Holding(q)) /\ Lock(q)' = Lock(q)
    BY <1>5 DEF Holding, Lock
  <1>11. \A q \in Procs \ {p} : Holding(q) => Lock(q) \in Refs /\ sem[Lock(q)] /\ Lock(q) # r
    BY <1>1 DEF LockDiscipline
  <1> HIDE DEF r
  <1>12. HoldersExclude'
    <2>1. \A q \in Procs : Holding(q)' => Lock(q)' \in Refs /\ sem'[Lock(q)']
      BY <1>2, <1>4, <1>8, <1>10, <1>11
    <2>2. \A q, s \in Procs : Holding(q)' /\ Holding(s)' /\ q # s => Lock(q)' # Lock(s)'
      BY <1>8, <1>10, <1>11 DEF LockDiscipline
    <2> QED
      BY <2>1, <2>2 DEF HoldersExclude
  <1>13. NoneLeaked'
    <2> SUFFICES ASSUME NEW s \in Refs, sem'[s]
                 PROVE  \E q \in Procs : Holding(q)' /\ Lock(q)' = s
      BY DEF NoneLeaked, Refs
    <2>1. CASE s = r
      BY <2>1, <1>8
    <2>2. CASE s # r
      <3>1. PICK q \in Procs : Holding(q) /\ Lock(q) = s
        BY <2>2, <1>4 DEF LockDiscipline
      <3> QED
        BY <3>1, <1>9, <1>10
    <2> QED
      BY <2>1, <2>2
  <1> QED
    BY <1>12, <1>13 DEF LockDiscipline, HoldersExclude, NoneLeaked

\* The deferred unlock frees the holder's own semaphore, and nobody else's.
LEMMA UnlockKeepsDiscipline ==
    ASSUME TypeInv, LockDiscipline, NEW p \in Procs, Unlock(p)
    PROVE  LockDiscipline'
  <1> DEFINE r == Lock(p)
             e == [exec[p] EXCEPT !.pc = "background", !.lock = 0]
  <1>1. Holding(p)
    BY DEF Unlock, At, Holding, HoldingPcs
  <1>2. r \in Refs
    BY <1>1 DEF LockDiscipline
  <1>3. sem' = [sem EXCEPT ![r] = FALSE]
    BY DEF Unlock, Released
  <1>4. \A s \in Refs : sem'[s] <=> (s # r /\ sem[s])
    BY <1>2, <1>3 DEF TypeInv, TypeOK
  <1>5. /\ \A q \in Procs \ {p} : exec'[q] = exec[q]
        /\ exec'[p] = Freed(e)
    BY DEF Unlock, TypeInv, TypeOK
  <1>6. exec[p] \in ExecType
    BY DEF TypeInv, TypeOK
  <1>7. e.pc = "background"
    BY <1>6 DEF ExecType
  <1>8. Freed(e).pc \in {"background", "idle"}
    BY <1>7 DEF Freed, IdleExec
  <1>9. ~Holding(p)'
    BY <1>5, <1>8 DEF Holding, HoldingPcs
  <1>10. \A q \in Procs \ {p} : (Holding(q)' <=> Holding(q)) /\ Lock(q)' = Lock(q)
    BY <1>5 DEF Holding, Lock
  <1>11. \A q \in Procs \ {p} : Holding(q) => Lock(q) \in Refs /\ sem[Lock(q)] /\ Lock(q) # r
    BY <1>1 DEF LockDiscipline
  <1> HIDE DEF r, e
  <1>12. HoldersExclude'
    <2>1. \A q \in Procs : Holding(q)' => Lock(q)' \in Refs /\ sem'[Lock(q)']
      BY <1>4, <1>9, <1>10, <1>11
    <2>2. \A q, s \in Procs : Holding(q)' /\ Holding(s)' /\ q # s => Lock(q)' # Lock(s)'
      BY <1>9, <1>10 DEF LockDiscipline
    <2> QED
      BY <2>1, <2>2 DEF HoldersExclude
  <1>13. NoneLeaked'
    <2> SUFFICES ASSUME NEW s \in Refs, sem'[s]
                 PROVE  \E q \in Procs : Holding(q)' /\ Lock(q)' = s
      BY DEF NoneLeaked, Refs
    <2>1. s # r /\ sem[s]
      BY <1>4
    <2>2. PICK q \in Procs : Holding(q) /\ Lock(q) = s
      BY <2>1 DEF LockDiscipline
    <2>3. q # p
      BY <2>1, <2>2 DEF r
    <2> QED
      BY <2>2, <2>3, <1>10
  <1> QED
    BY <1>12, <1>13 DEF LockDiscipline, HoldersExclude, NoneLeaked

\* A background goroutine that ends leaves its parent's lock alone.
LEMMA JobKeepsDiscipline ==
    ASSUME TypeInv, LockDiscipline, sem' = sem, NEW p \in Procs, NEW e \in ExecType,
           exec' = [exec EXCEPT ![p] = Freed(e)],
           e.pc = exec[p].pc, e.id = exec[p].id, e.lock = exec[p].lock
    PROVE  LockDiscipline'
  <1>1. CASE Freed(e) = e
    BY <1>1, LockFrameSlot DEF Holds, Holding
  <1>2. CASE Freed(e) # e
    <2>1. e.pc = "background" /\ Freed(e) = IdleExec
      BY <1>2 DEF Freed
    <2>2. ~Holds(IdleExec)
      BY DEF Holds, HoldingPcs, IdleExec
    <2>3. ~Holding(p)
      BY <2>1 DEF Holding, HoldingPcs
    <2> QED
      BY <2>1, <2>2, <2>3, LockFrameSlot
  <1> QED
    BY <1>1, <1>2

\* The steps of Execute keep the locking protocol.
LEMMA ExecuteKeepsDiscipline ==
    ASSUME TypeInv, LockDiscipline, NEW p \in Procs, ExecuteStep(p)
    PROVE  LockDiscipline'
  <1>0. exec[p] \in ExecType
    BY DEF TypeInv, TypeOK
  <1>1. CASE Execute(p)
    <2> DEFINE e == [exec[p] EXCEPT !.pc = "timer",
                                    !.parents = GetTaskParents(exec[p].id),
                                    !.timer = Later(now, heap[Task(p)].runAfter)]
    <2>1. exec' = [exec EXCEPT ![p] = e] /\ sem' = sem
      BY <1>1 DEF Execute
    <2>2. ~Holding(p)
      BY <1>1 DEF Execute, At, Holding, HoldingPcs
    <2>3. ~Holds(e)
      BY <1>0 DEF ExecType, Holds, HoldingPcs
    <2> QED
      BY <2>1, <2>2, <2>3, LockFrameSlot
  <1>2. CASE LockPanics(p)
    BY <1>2, LockFrame DEF LockPanics, Holding, Lock
  <1>3. CASE LockFails(p)
    <2>1. exec' = [exec EXCEPT ![p] = IdleExec] /\ sem' = sem
      BY <1>3 DEF LockFails
    <2>2. ~Holding(p)
      BY <1>3 DEF LockFails, TimerFires, At, Holding, HoldingPcs
    <2>3. ~Holds(IdleExec)
      BY DEF IdleExec, Holds, HoldingPcs
    <2> QED
      BY <2>1, <2>2, <2>3, LockFrameSlot
  <1>4. CASE LockAcquired(p)
    BY <1>4, AcquireKeepsDiscipline
  <1>5. CASE RecheckEnds(p)
    <2> DEFINE e == [exec[p] EXCEPT !.pc = "unlock"]
    <2>1. exec' = [exec EXCEPT ![p] = e] /\ sem' = sem
      BY <1>5 DEF RecheckEnds
    <2>2. Holding(p)
      BY <1>5 DEF RecheckEnds, At, Holding, HoldingPcs
    <2>3. Holds(e) /\ e.id = exec[p].id /\ e.lock = exec[p].lock
      BY <1>0 DEF ExecType, Holds, HoldingPcs
    <2> QED
      BY <2>1, <2>2, <2>3, LockFrameSlot
  <1>6. CASE RecheckGoesOn(p)
    <2> DEFINE e == [exec[p] EXCEPT !.pc = "throttled", !.task = stored[exec[p].id]]
    <2>1. exec' = [exec EXCEPT ![p] = e] /\ sem' = sem
      BY <1>6 DEF RecheckGoesOn
    <2>2. Holding(p)
      BY <1>6 DEF RecheckGoesOn, At, Holding, HoldingPcs
    <2>3. Holds(e) /\ e.id = exec[p].id /\ e.lock = exec[p].lock
      BY <1>0 DEF ExecType, Holds, HoldingPcs
    <2> QED
      BY <2>1, <2>2, <2>3, LockFrameSlot
  <1>7. CASE Start(p)
    <2> DEFINE e == [exec[p] EXCEPT !.pc = "posting"]
    <2>1. exec' = [exec EXCEPT ![p] = e] /\ sem' = sem
      BY <1>7 DEF Start
    <2>2. Holding(p)
      BY <1>7 DEF Start, At, Holding, HoldingPcs
    <2>3. Holds(e) /\ e.id = exec[p].id /\ e.lock = exec[p].lock
      BY <1>0 DEF ExecType, Holds, HoldingPcs
    <2> QED
      BY <2>1, <2>2, <2>3, LockFrameSlot
  <1>8. ASSUME NEW resp \in Responses, PostReturns(p, resp) PROVE LockDiscipline'
    <2> DEFINE e == [exec[p] EXCEPT !.pc = "settling", !.resp = resp, !.parents = {},
                                    !.timer = 0, !.left = heap[Task(p)].attempts - 1]
    <2>1. exec' = [exec EXCEPT ![p] = e] /\ sem' = sem
      BY <1>8 DEF PostReturns
    <2>2. Holding(p)
      BY <1>8 DEF PostReturns, At, Holding, HoldingPcs
    <2>3. Holds(e) /\ e.id = exec[p].id /\ e.lock = exec[p].lock
      BY <1>0 DEF ExecType, Holds, HoldingPcs
    <2> QED
      BY <2>1, <2>2, <2>3, LockFrameSlot
  <1>9. CASE Settle(p)
    <2> DEFINE e == [exec[p] EXCEPT !.pc = "finishing", !.left = 0,
                                    !.todo = IF exec[p].resp.ok THEN Continuation[exec[p].id]
                                             ELSE <<>>]
    <2>1. exec' = [exec EXCEPT ![p] = e] /\ sem' = sem
      BY <1>9 DEF Settle
    <2>2. Holding(p)
      BY <1>9 DEF Settle, At, Holding, HoldingPcs
    <2>3. Holds(e) /\ e.id = exec[p].id /\ e.lock = exec[p].lock
      BY <1>0 DEF ExecType, Holds, HoldingPcs
    <2> QED
      BY <2>1, <2>2, <2>3, LockFrameSlot
  <1>10. CASE CreateChild(p)
    <2> DEFINE e == [exec[p] EXCEPT !.todo = Tail(exec[p].todo)]
    <2>1. exec' = [exec EXCEPT ![p] = e] /\ sem' = sem
      BY <1>10 DEF CreateChild
    <2>2. (Holds(e) <=> Holding(p)) /\ e.id = exec[p].id /\ e.lock = exec[p].lock
      BY <1>0 DEF ExecType, Holds, Holding
    <2> QED
      BY <2>1, <2>2, LockFrameSlot
  <1>11. CASE Finish(p)
    <2> DEFINE e == [exec[p] EXCEPT !.pc = "unlock",
                                    !.jobs = DelayJobs(exec[p].resp) \cup
                                        (IF heap[Task(p)].complete
                                         THEN DoneJobs(exec[p].id) ELSE {})]
    <2>1. exec' = [exec EXCEPT ![p] = e] /\ sem' = sem
      BY <1>11 DEF Finish
    <2>2. Holding(p)
      BY <1>11 DEF Finish, At, Holding, HoldingPcs
    <2>3. Holds(e) /\ e.id = exec[p].id /\ e.lock = exec[p].lock
      BY <1>0 DEF ExecType, Holds, HoldingPcs
    <2> QED
      BY <2>1, <2>2, <2>3, LockFrameSlot
  <1>12. CASE Unlock(p)
    BY <1>12, UnlockKeepsDiscipline
  <1> QED
    BY <1>1, <1>2, <1>3, <1>4, <1>5, <1>6, <1>7, <1>8, <1>9, <1>10, <1>11, <1>12
    DEF ExecuteStep

\* So do the goroutines it leaves behind.
LEMMA BackgroundKeepsDiscipline ==
    ASSUME TypeInv, LockDiscipline, NEW p \in Procs, BackgroundStep(p)
    PROVE  LockDiscipline'
  <1>0. exec[p] \in ExecType
    BY DEF TypeInv, TypeOK
  <1>1. ASSUME NEW job, JobDone(p, job), sem' = sem PROVE LockDiscipline'
    <2> DEFINE e == [exec[p] EXCEPT !.jobs = exec[p].jobs \ {job}]
    <2>1. exec' = [exec EXCEPT ![p] = Freed(e)]
      BY <1>1 DEF JobDone
    <2>2. e \in ExecType /\ e.pc = exec[p].pc /\ e.id = exec[p].id /\ e.lock = exec[p].lock
      BY <1>0 DEF ExecType
    <2> QED
      BY <1>1, <2>1, <2>2, JobKeepsDiscipline
  <1>2. CASE NotifyChildren(p) \/ ApplyChildrenDelay(p) \/ ApplyWorkgroupDelay(p)
    BY <1>1, <1>2 DEF NotifyChildren, ApplyChildrenDelay, ApplyWorkgroupDelay
  <1>3. CASE FindDuplicates(p)
    <2> DEFINE jobs == (exec[p].jobs \ {"match"}) \cup
                           {j \in {"merge"} : Duplicates(p) # {}}
               e == [exec[p] EXCEPT !.matches = Duplicates(p), !.jobs = jobs]
    <2>1. exec' = [exec EXCEPT ![p] = Freed(e)] /\ sem' = sem
      BY <1>3 DEF FindDuplicates
    <2>2. e.pc = exec[p].pc /\ e.id = exec[p].id /\ e.lock = exec[p].lock
      BY <1>0 DEF ExecType
    <2>3. e \in ExecType
      BY <1>3, DuplicatesFoundType
    <2> QED
      BY <2>1, <2>2, <2>3, JobKeepsDiscipline
  <1>4. ASSUME NEW match \in Refs, MergeOne(p, match) PROVE LockDiscipline'
    <2> DEFINE rest == exec[p].matches \ {match}
               jobs == IF rest = {} THEN exec[p].jobs \ {"merge"} ELSE exec[p].jobs
               e == [exec[p] EXCEPT !.matches = rest, !.jobs = jobs]
    <2>1. exec' = [exec EXCEPT ![p] = Freed(e)] /\ sem' = sem
      BY <1>4 DEF MergeOne
    <2>2. jobs \in SUBSET Jobs /\ rest \in SUBSET Refs
      BY <1>0 DEF ExecType
    <2> HIDE DEF jobs, rest
    <2>3. e \in ExecType /\ e.pc = exec[p].pc /\ e.id = exec[p].id /\ e.lock = exec[p].lock
      BY <1>0, <2>2 DEF ExecType
    <2> QED
      BY <2>1, <2>3, JobKeepsDiscipline
  <1> QED
    BY <1>2, <1>3, <1>4 DEF BackgroundStep

\* No handler touches a semaphore or a goroutine.
LEMMA ApiLeavesLocks ==
    ASSUME ApiCall
    PROVE  sem' = sem /\ exec' = exec
  <1>1. ASSUME NEW id \in Ids, CreateTask(id) \/ DeleteTask(id)
        PROVE  sem' = sem /\ exec' = exec
    BY <1>1 DEF CreateTask, DeleteTask
  <1>2. ASSUME NEW id \in Ids, NEW n \in Grants, ResetTask(id, n) \/ RetryTask(id, n)
        PROVE  sem' = sem /\ exec' = exec
    BY <1>2 DEF ResetTask, RetryTask
  <1>3. ASSUME NEW id \in Ids, NEW u \in Updates, UpdateTask(id, u)
        PROVE  sem' = sem /\ exec' = exec
    BY <1>3 DEF UpdateTask
  <1> QED
    BY <1>1, <1>2, <1>3 DEF ApiCall

\* Each step keeps the locking protocol.
LEMMA NextKeepsDiscipline ==
    ASSUME TypeInv, LockDiscipline, [Next]_vars
    PROVE  LockDiscipline'
  <1>1. ASSUME NEW id \in Ids, EvaluateDrops(id) PROVE LockDiscipline'
    BY <1>1, LockFrame DEF EvaluateDrops, Holding, Lock
  <1>2. ASSUME NEW id \in Ids, NEW p \in Procs, EvaluateExecutes(id, p)
        PROVE  LockDiscipline'
    <2> DEFINE e == [IdleExec EXCEPT !.pc = "execute", !.id = id, !.task = stored[id]]
    <2>1. exec' = [exec EXCEPT ![p] = e] /\ sem' = sem
      BY <1>2 DEF EvaluateExecutes
    <2>2. ~Holding(p)
      BY <1>2 DEF EvaluateExecutes, At, Holding, HoldingPcs
    <2>3. ~Holds(e)
      BY DEF IdleExec, Holds, HoldingPcs
    <2> HIDE DEF e
    <2> QED
      BY <2>1, <2>2, <2>3, LockFrameSlot
  <1>3. ASSUME NEW p \in Procs, ExecuteStep(p) PROVE LockDiscipline'
    BY <1>3, ExecuteKeepsDiscipline
  <1>4. ASSUME NEW p \in Procs, BackgroundStep(p) PROVE LockDiscipline'
    BY <1>4, BackgroundKeepsDiscipline
  <1>5. CASE ApiCall
    <2>1. sem' = sem /\ exec' = exec
      BY <1>5, ApiLeavesLocks
    <2> QED
      BY <2>1, LockFrame DEF Holding, Lock
  <1>6. CASE Tick
    BY <1>6, LockFrame DEF Tick, Holding, Lock
  <1>7. CASE Rest
    BY <1>7, LockFrame DEF Rest, vars, Holding, Lock
  <1>8. CASE UNCHANGED vars
    BY <1>8, LockFrame DEF vars, Holding, Lock
  <1> QED
    BY <1>1, <1>2, <1>3, <1>4, <1>5, <1>6, <1>7, <1>8 DEF Next

\* TryLockTask and the deferred unlock, for any number of goroutines and whatever
\* is deleted and created under them: a semaphore is held by at most one, is
\* taken as long as it is held, and is never left taken for good.
THEOREM LocksAreDisciplined == Spec => []LockDiscipline
  <1>1. Init => LockDiscipline
    <2> SUFFICES ASSUME Init PROVE LockDiscipline
      OBVIOUS
    <2>1. \A p \in Procs : ~Holding(p)
      BY DEF Init, Holding, HoldingPcs, IdleExec
    <2>2. \A r \in Refs : ~sem[r]
      BY DEF Init
    <2> QED
      BY <2>1, <2>2 DEF LockDiscipline
  <1>2. TypeInv /\ LockDiscipline /\ [Next]_vars => LockDiscipline'
    BY NextKeepsDiscipline
  <1> QED
    BY <1>1, <1>2, TypeInvariant, PTL DEF Spec
-----------------------------------------------------------------------------
(* One worker call at a time.  The lock is on an object and not on an id,  *)
(* so the argument counts the objects made under each id: a goroutine only *)
(* holds and points to some of those, so where there was only one, two     *)
(* holders would share a lock.                                             *)

\* Pointers and held semaphores lead to objects that were made.
MadeInv ==
    /\ \A id \in Ids : stored[id] <= made[id]
    /\ \A p \in Procs : exec[p].pc # "idle" =>
          /\ exec[p].lock <= made[exec[p].id]
          /\ exec[p].task <= made[exec[p].id]

PointsToMade(e) == e.pc # "idle" => e.lock <= made[e.id] /\ e.task <= made[e.id]

\* A step after which the slots hold what they held or point to made objects.
LEMMA MadeSlot ==
    ASSUME TypeInv, TypeInv', MadeInv,
           \A id \in Ids : made[id] <= made'[id] /\ stored'[id] <= made'[id],
           NEW p \in Procs, NEW e, exec' = [exec EXCEPT ![p] = e], PointsToMade(e)
    PROVE  MadeInv'
  <1>1. \A q \in Procs : exec'[q].pc # "idle" =>
           exec'[q].lock <= made[exec'[q].id] /\ exec'[q].task <= made[exec'[q].id]
    BY DEF TypeInv, TypeOK, MadeInv, PointsToMade
  <1>2. \A q \in Procs : exec'[q].pc # "idle" =>
           /\ exec'[q].id \in Ids
           /\ exec'[q].lock \in 0 .. MaxInc /\ exec'[q].task \in 0 .. MaxInc
    BY DEF TypeInv, TypeOK, ExecOK, ExecType
  <1>3. \A id \in Ids : made[id] \in 0 .. MaxInc /\ made'[id] \in 0 .. MaxInc
    BY DEF TypeInv, TypeOK
  <1>4. \A q \in Procs : exec'[q].pc # "idle" =>
           exec'[q].lock <= made'[exec'[q].id] /\ exec'[q].task <= made'[exec'[q].id]
    BY <1>1, <1>2, <1>3
  <1> QED
    BY <1>4 DEF MadeInv

\* The same, when the goroutines are left alone.
LEMMA MadeNoSlot ==
    ASSUME TypeInv, TypeInv', MadeInv, exec' = exec,
           \A id \in Ids : made[id] <= made'[id] /\ stored'[id] <= made'[id]
    PROVE  MadeInv'
  <1>1. \A p \in Procs : exec[p].pc # "idle" =>
           /\ exec[p].id \in Ids
           /\ exec[p].lock \in 0 .. MaxInc /\ exec[p].task \in 0 .. MaxInc
    BY DEF TypeInv, TypeOK, ExecOK, ExecType
  <1>2. \A id \in Ids : made[id] \in 0 .. MaxInc /\ made'[id] \in 0 .. MaxInc
    BY DEF TypeInv, TypeOK
  <1> QED
    BY <1>1, <1>2 DEF MadeInv

\* Nothing but SaveTask makes objects, and it stores the one it made.
LEMMA SaveNewTaskMade ==
    ASSUME TypeInv, MadeInv, NEW child \in Ids, NEW task, SaveNewTask(child, task)
    PROVE  \A id \in Ids : made[id] <= made'[id] /\ stored'[id] <= made'[id]
  <1>1. CASE IsStored(child)
    BY <1>1 DEF SaveNewTask, MadeInv, TypeInv, TypeOK
  <1>2. CASE ~IsStored(child)
    BY <1>2 DEF SaveNewTask, MadeInv, TypeInv, TypeOK
  <1> QED
    BY <1>1, <1>2

LEMMA MadeUnchanged ==
    ASSUME TypeInv, MadeInv, made' = made, stored' = stored
    PROVE  \A id \in Ids : made[id] <= made'[id] /\ stored'[id] <= made'[id]
  BY DEF TypeInv, TypeOK, MadeInv

\* A slot whose pointers are old or lead to the stored object.
LEMMA PointersKept ==
    ASSUME TypeInv, MadeInv, NEW p \in Procs, exec[p].pc # "idle", NEW e,
           e.id = exec[p].id,
           e.lock \in {exec[p].lock, 0, stored[exec[p].id]},
           e.task \in {exec[p].task, stored[exec[p].id]}
    PROVE  PointsToMade(e)
  <1>1. exec[p].id \in Ids
    BY SlotInUse
  <1>2. made[exec[p].id] \in Nat
    BY <1>1, BoundsAssumption DEF TypeInv, TypeOK
  <1> QED
    BY <1>1, <1>2 DEF MadeInv, PointsToMade

LEMMA IdlePoints == PointsToMade(IdleExec)
  BY DEF PointsToMade, IdleExec

LEMMA FreedPoints ==
    ASSUME NEW e, PointsToMade(e)
    PROVE  PointsToMade(Freed(e))
  BY IdlePoints DEF Freed

\* The steps of Execute keep MadeInv.
LEMMA ExecuteKeepsMade ==
    ASSUME TypeInv, TypeInv', MadeInv, NEW p \in Procs, ExecuteStep(p)
    PROVE  MadeInv'
  <1>0. exec[p] \in ExecType
    BY DEF TypeInv, TypeOK
  <1>1. CASE Execute(p)
    <2> DEFINE e == [exec[p] EXCEPT !.pc = "timer",
                                    !.parents = GetTaskParents(exec[p].id),
                                    !.timer = Later(now, heap[Task(p)].runAfter)]
    <2>1. exec' = [exec EXCEPT ![p] = e] /\ made' = made /\ stored' = stored
      BY <1>1 DEF Execute
    <2>2. exec[p].pc # "idle"
      BY <1>1 DEF Execute, At
    <2>3. /\ e.id = exec[p].id
          /\ e.lock \in {exec[p].lock, 0, stored[exec[p].id]}
          /\ e.task \in {exec[p].task, stored[exec[p].id]}
      BY <1>0 DEF ExecType
    <2> HIDE DEF e
    <2> QED
      BY <2>1, <2>2, <2>3, PointersKept, MadeUnchanged, MadeSlot
  <1>2. CASE LockAcquired(p)
    <2> DEFINE e == [exec[p] EXCEPT !.pc = "locked", !.lock = stored[exec[p].id]]
    <2>1. exec' = [exec EXCEPT ![p] = e] /\ made' = made /\ stored' = stored
      BY <1>2 DEF LockAcquired
    <2>2. exec[p].pc # "idle"
      BY <1>2 DEF LockAcquired, TimerFires, At
    <2>3. /\ e.id = exec[p].id
          /\ e.lock \in {exec[p].lock, 0, stored[exec[p].id]}
          /\ e.task \in {exec[p].task, stored[exec[p].id]}
      BY <1>0 DEF ExecType
    <2> HIDE DEF e
    <2> QED
      BY <2>1, <2>2, <2>3, PointersKept, MadeUnchanged, MadeSlot
  <1>3. CASE RecheckEnds(p)
    <2> DEFINE e == [exec[p] EXCEPT !.pc = "unlock"]
    <2>1. exec' = [exec EXCEPT ![p] = e] /\ made' = made /\ stored' = stored
      BY <1>3 DEF RecheckEnds
    <2>2. exec[p].pc # "idle"
      BY <1>3 DEF RecheckEnds, At
    <2>3. /\ e.id = exec[p].id
          /\ e.lock \in {exec[p].lock, 0, stored[exec[p].id]}
          /\ e.task \in {exec[p].task, stored[exec[p].id]}
      BY <1>0 DEF ExecType
    <2> HIDE DEF e
    <2> QED
      BY <2>1, <2>2, <2>3, PointersKept, MadeUnchanged, MadeSlot
  <1>4. CASE RecheckGoesOn(p)
    <2> DEFINE e == [exec[p] EXCEPT !.pc = "throttled", !.task = stored[exec[p].id]]
    <2>1. exec' = [exec EXCEPT ![p] = e] /\ made' = made /\ stored' = stored
      BY <1>4 DEF RecheckGoesOn
    <2>2. exec[p].pc # "idle"
      BY <1>4 DEF RecheckGoesOn, At
    <2>3. /\ e.id = exec[p].id
          /\ e.lock \in {exec[p].lock, 0, stored[exec[p].id]}
          /\ e.task \in {exec[p].task, stored[exec[p].id]}
      BY <1>0 DEF ExecType
    <2> HIDE DEF e
    <2> QED
      BY <2>1, <2>2, <2>3, PointersKept, MadeUnchanged, MadeSlot
  <1>5. CASE Start(p)
    <2> DEFINE e == [exec[p] EXCEPT !.pc = "posting"]
    <2>1. exec' = [exec EXCEPT ![p] = e] /\ made' = made /\ stored' = stored
      BY <1>5 DEF Start
    <2>2. exec[p].pc # "idle"
      BY <1>5 DEF Start, At
    <2>3. /\ e.id = exec[p].id
          /\ e.lock \in {exec[p].lock, 0, stored[exec[p].id]}
          /\ e.task \in {exec[p].task, stored[exec[p].id]}
      BY <1>0 DEF ExecType
    <2> HIDE DEF e
    <2> QED
      BY <2>1, <2>2, <2>3, PointersKept, MadeUnchanged, MadeSlot
  <1>6. ASSUME NEW resp \in Responses, PostReturns(p, resp) PROVE MadeInv'
    <2> DEFINE e == [exec[p] EXCEPT !.pc = "settling", !.resp = resp, !.parents = {},
                                    !.timer = 0, !.left = heap[Task(p)].attempts - 1]
    <2>1. exec' = [exec EXCEPT ![p] = e] /\ made' = made /\ stored' = stored
      BY <1>6 DEF PostReturns
    <2>2. exec[p].pc # "idle"
      BY <1>6 DEF PostReturns, At
    <2>3. /\ e.id = exec[p].id
          /\ e.lock \in {exec[p].lock, 0, stored[exec[p].id]}
          /\ e.task \in {exec[p].task, stored[exec[p].id]}
      BY <1>0 DEF ExecType
    <2> HIDE DEF e
    <2> QED
      BY <2>1, <2>2, <2>3, PointersKept, MadeUnchanged, MadeSlot
  <1>7. CASE Settle(p)
    <2> DEFINE e == [exec[p] EXCEPT !.pc = "finishing", !.left = 0,
                                    !.todo = IF exec[p].resp.ok THEN Continuation[exec[p].id]
                                             ELSE <<>>]
    <2>1. exec' = [exec EXCEPT ![p] = e] /\ made' = made /\ stored' = stored
      BY <1>7 DEF Settle
    <2>2. exec[p].pc # "idle"
      BY <1>7 DEF Settle, At
    <2>3. /\ e.id = exec[p].id
          /\ e.lock \in {exec[p].lock, 0, stored[exec[p].id]}
          /\ e.task \in {exec[p].task, stored[exec[p].id]}
      BY <1>0 DEF ExecType
    <2> HIDE DEF e
    <2> QED
      BY <2>1, <2>2, <2>3, PointersKept, MadeUnchanged, MadeSlot
  <1>8. CASE Finish(p)
    <2> DEFINE e == [exec[p] EXCEPT !.pc = "unlock",
                                    !.jobs = DelayJobs(exec[p].resp) \cup
                                        (IF heap[Task(p)].complete
                                         THEN DoneJobs(exec[p].id) ELSE {})]
    <2>1. exec' = [exec EXCEPT ![p] = e] /\ made' = made /\ stored' = stored
      BY <1>8 DEF Finish
    <2>2. exec[p].pc # "idle"
      BY <1>8 DEF Finish, At
    <2>3. /\ e.id = exec[p].id
          /\ e.lock \in {exec[p].lock, 0, stored[exec[p].id]}
          /\ e.task \in {exec[p].task, stored[exec[p].id]}
      BY <1>0 DEF ExecType
    <2> HIDE DEF e
    <2> QED
      BY <2>1, <2>2, <2>3, PointersKept, MadeUnchanged, MadeSlot
  <1>9. CASE LockPanics(p)
    BY <1>9, MadeUnchanged, MadeNoSlot DEF LockPanics
  <1>10. CASE LockFails(p)
    BY <1>10, IdlePoints, MadeUnchanged, MadeSlot DEF LockFails
  <1>11. CASE CreateChild(p)
    <2> DEFINE child == Head(exec[p].todo)
               e == [exec[p] EXCEPT !.todo = Tail(exec[p].todo)]
    <2>1. /\ exec' = [exec EXCEPT ![p] = e]
          /\ SaveNewTask(child, ChildOf(exec[p].id, Blueprint[child]))
          /\ exec[p].pc # "idle" /\ exec[p].todo # <<>>
      BY <1>11 DEF CreateChild, At
    <2>2. child \in Ids
      BY <1>0, <2>1 DEF ExecType
    <2>3. e.id = exec[p].id /\ e.lock = exec[p].lock /\ e.task = exec[p].task
      BY <1>0 DEF ExecType
    <2> HIDE DEF e, child
    <2>4. PointsToMade(e)
      BY <2>1, <2>3, PointersKept
    <2> QED
      BY <2>1, <2>2, <2>4, SaveNewTaskMade, MadeSlot
  <1>12. CASE Unlock(p)
    <2> DEFINE e == [exec[p] EXCEPT !.pc = "background", !.lock = 0]
    <2>1. exec' = [exec EXCEPT ![p] = Freed(e)] /\ made' = made /\ stored' = stored
      BY <1>12 DEF Unlock
    <2>2. exec[p].pc # "idle"
      BY <1>12 DEF Unlock, At
    <2>3. e.id = exec[p].id /\ e.lock = 0 /\ e.task = exec[p].task
      BY <1>0 DEF ExecType
    <2> HIDE DEF e
    <2>4. PointsToMade(Freed(e))
      BY <2>2, <2>3, PointersKept, FreedPoints
    <2> QED
      BY <2>1, <2>4, MadeUnchanged, MadeSlot
  <1> QED
    BY <1>1, <1>2, <1>3, <1>4, <1>5, <1>6, <1>7, <1>8, <1>9, <1>10, <1>11, <1>12
    DEF ExecuteStep

\* So do the goroutines it leaves behind.
LEMMA BackgroundKeepsMade ==
    ASSUME TypeInv, TypeInv', MadeInv, NEW p \in Procs, BackgroundStep(p)
    PROVE  MadeInv'
  <1>0. exec[p] \in ExecType
    BY DEF TypeInv, TypeOK
  <1>1. ASSUME NEW e, exec' = [exec EXCEPT ![p] = Freed(e)], made' = made,
               stored' = stored, e.pc = exec[p].pc, e.id = exec[p].id,
               e.lock = exec[p].lock, e.task = exec[p].task
        PROVE  MadeInv'
    <2>1. PointsToMade(e)
      BY <1>1 DEF PointsToMade, MadeInv
    <2> QED
      BY <1>1, <2>1, FreedPoints, MadeUnchanged, MadeSlot
  <1>2. ASSUME NEW job, JobDone(p, job), made' = made, stored' = stored PROVE MadeInv'
    <2> DEFINE e == [exec[p] EXCEPT !.jobs = exec[p].jobs \ {job}]
    <2>1. exec' = [exec EXCEPT ![p] = Freed(e)]
      BY <1>2 DEF JobDone
    <2>2. /\ e.pc = exec[p].pc /\ e.id = exec[p].id
          /\ e.lock = exec[p].lock /\ e.task = exec[p].task
      BY <1>0 DEF ExecType
    <2> HIDE DEF e
    <2> QED
      BY <1>1, <1>2, <2>1, <2>2
  <1>3. CASE NotifyChildren(p) \/ ApplyChildrenDelay(p) \/ ApplyWorkgroupDelay(p)
    BY <1>2, <1>3 DEF NotifyChildren, ApplyChildrenDelay, ApplyWorkgroupDelay
  <1>4. CASE FindDuplicates(p)
    <2> DEFINE jobs == (exec[p].jobs \ {"match"}) \cup
                           {j \in {"merge"} : Duplicates(p) # {}}
               e == [exec[p] EXCEPT !.matches = Duplicates(p), !.jobs = jobs]
    <2>1. exec' = [exec EXCEPT ![p] = Freed(e)] /\ made' = made /\ stored' = stored
      BY <1>4 DEF FindDuplicates
    <2>2. /\ e.pc = exec[p].pc /\ e.id = exec[p].id
          /\ e.lock = exec[p].lock /\ e.task = exec[p].task
      BY <1>0 DEF ExecType
    <2> HIDE DEF e
    <2> QED
      BY <1>1, <2>1, <2>2
  <1>5. ASSUME NEW match \in Refs, MergeOne(p, match) PROVE MadeInv'
    <2> DEFINE rest == exec[p].matches \ {match}
               jobs == IF rest = {} THEN exec[p].jobs \ {"merge"} ELSE exec[p].jobs
               e == [exec[p] EXCEPT !.matches = rest, !.jobs = jobs]
    <2>1. exec' = [exec EXCEPT ![p] = Freed(e)] /\ made' = made /\ stored' = stored
      BY <1>5 DEF MergeOne
    <2>2. /\ e.pc = exec[p].pc /\ e.id = exec[p].id
          /\ e.lock = exec[p].lock /\ e.task = exec[p].task
      BY <1>0 DEF ExecType
    <2> HIDE DEF e
    <2> QED
      BY <1>1, <2>1, <2>2
  <1> QED
    BY <1>3, <1>4, <1>5 DEF BackgroundStep

\* And the handlers: deleting a task unstores its object and makes none.
LEMMA ApiKeepsMade ==
    ASSUME TypeInv, TypeInv', MadeInv, ApiCall
    PROVE  MadeInv'
  <1>0. exec' = exec
    BY ApiLeavesLocks
  <1>1. ASSUME NEW id \in Ids, CreateTask(id) PROVE MadeInv'
    BY <1>0, <1>1, SaveNewTaskMade, MadeNoSlot DEF CreateTask
  <1>2. ASSUME NEW id \in Ids, DeleteTask(id) PROVE MadeInv'
    <2>1. made' = made /\ stored' = [stored EXCEPT ![id] = 0]
      BY <1>2 DEF DeleteTask
    <2>2. \A t \in Ids : made[t] <= made'[t] /\ stored'[t] <= made'[t]
      BY <2>1 DEF MadeInv, TypeInv, TypeOK
    <2> QED
      BY <1>0, <2>2, MadeNoSlot
  <1>3. ASSUME NEW id \in Ids, NEW n \in Grants, ResetTask(id, n) \/ RetryTask(id, n)
        PROVE  MadeInv'
    BY <1>0, <1>3, MadeUnchanged, MadeNoSlot DEF ResetTask, RetryTask
  <1>4. ASSUME NEW id \in Ids, NEW u \in Updates, UpdateTask(id, u) PROVE MadeInv'
    BY <1>0, <1>4, MadeUnchanged, MadeNoSlot DEF UpdateTask
  <1> QED
    BY <1>1, <1>2, <1>3, <1>4 DEF ApiCall

LEMMA NextKeepsMade ==
    ASSUME TypeInv, TypeInv', MadeInv, [Next]_vars
    PROVE  MadeInv'
  <1>1. ASSUME NEW id \in Ids, EvaluateDrops(id) PROVE MadeInv'
    BY <1>1, MadeUnchanged, MadeNoSlot DEF EvaluateDrops
  <1>2. ASSUME NEW id \in Ids, NEW p \in Procs, EvaluateExecutes(id, p)
        PROVE  MadeInv'
    <2> DEFINE e == [IdleExec EXCEPT !.pc = "execute", !.id = id, !.task = stored[id]]
    <2>1. exec' = [exec EXCEPT ![p] = e] /\ made' = made /\ stored' = stored
      BY <1>2 DEF EvaluateExecutes
    <2>2. e.id = id /\ e.lock = 0 /\ e.task = stored[id]
      BY DEF IdleExec
    <2>3. made[id] \in Nat
      BY BoundsAssumption DEF TypeInv, TypeOK
    <2> HIDE DEF e
    <2>4. PointsToMade(e)
      BY <2>2, <2>3 DEF PointsToMade, MadeInv
    <2> QED
      BY <2>1, <2>4, MadeUnchanged, MadeSlot
  <1>3. ASSUME NEW p \in Procs, ExecuteStep(p) PROVE MadeInv'
    BY <1>3, ExecuteKeepsMade
  <1>4. ASSUME NEW p \in Procs, BackgroundStep(p) PROVE MadeInv'
    BY <1>4, BackgroundKeepsMade
  <1>5. CASE ApiCall
    BY <1>5, ApiKeepsMade
  <1>6. CASE Tick
    BY <1>6, MadeUnchanged, MadeNoSlot DEF Tick
  <1>7. CASE Rest
    BY <1>7, MadeUnchanged, MadeNoSlot DEF Rest, vars
  <1>8. CASE UNCHANGED vars
    BY <1>8, MadeUnchanged, MadeNoSlot DEF vars
  <1> QED
    BY <1>1, <1>2, <1>3, <1>4, <1>5, <1>6, <1>7, <1>8 DEF Next

\* No goroutine points to, or holds the semaphore of, an object nobody made.
THEOREM PointersLeadToMade == Spec => []MadeInv
  <1>1. Init => MadeInv
    <2> SUFFICES ASSUME Init PROVE MadeInv
      OBVIOUS
    <2>1. \A id \in Ids : stored[id] <= made[id]
      <3> TAKE id \in Ids
      <3>1. made[id] = stored[id]
        BY DEF Init
      <3>2. made[id] \in Nat
        BY InitTypes, BoundsAssumption DEF TypeInv, TypeOK
      <3> QED
        BY <3>1, <3>2
    <2>2. \A p \in Procs : exec[p].pc = "idle"
      BY DEF Init, IdleExec
    <2> QED
      BY <2>1, <2>2 DEF MadeInv
  <1>2. TypeInv /\ TypeInv' /\ MadeInv /\ [Next]_vars => MadeInv'
    BY NextKeepsMade
  <1> QED
    BY <1>1, <1>2, TypeInvariant, PTL DEF Spec

\* Two goroutines that hold semaphores of one id hold those of two objects.
LEMMA HoldersHaveObjects ==
    ASSUME TypeInv, LockDiscipline, MadeInv,
           NEW p \in Procs, NEW q \in Procs, p # q,
           Holding(p), Holding(q), exec[p].id = exec[q].id
    PROVE  made[exec[p].id] > 1
  <1>1. exec[p].lock # exec[q].lock
    BY DEF LockDiscipline, Lock
  <1>2. exec[p].pc # "idle" /\ exec[q].pc # "idle"
    BY DEF Holding, HoldingPcs
  <1>3. exec[p].lock \in 1 .. MaxInc /\ exec[q].lock \in 1 .. MaxInc
    BY DEF LockDiscipline, Lock, Refs
  <1>4. exec[p].lock <= made[exec[p].id] /\ exec[q].lock <= made[exec[p].id]
    BY <1>2 DEF MadeInv
  <1>5. made[exec[p].id] \in Nat
    BY <1>2, SlotInUse, BoundsAssumption DEF TypeInv, TypeOK
  <1> QED
    BY <1>1, <1>3, <1>4, <1>5, BoundsAssumption

\* The worker of a task is never called while another call for the task is
\* under way, for any number of goroutines, as long as no task was created
\* anew under its id.
THEOREM OneWorkerCallAtATime == Spec => []OneWorkerCall
  <1>1. ASSUME TypeInv, LockDiscipline, MadeInv PROVE OneWorkerCall
    <2>1. \A p \in Procs : InCall(p) => Holding(p)
      BY DEF InCall, Holding, HoldingPcs
    <2> QED
      BY <1>1, <2>1, HoldersHaveObjects DEF OneWorkerCall
  <1> QED
    BY <1>1, TypeInvariant, LocksAreDisciplined, PointersLeadToMade, PTL
=============================================================================
