--------------------------- MODULE AttemptProofs ---------------------------
(***************************************************************************)
(* What one worker call at a time is good for: BusyExecuting is true       *)
(* during a call and at no other time, a pause admits one more call at     *)
(* most, attempts are not overdrawn, delays are kept, completed tasks are  *)
(* not called, and tasks created anew get one call per object, for every   *)
(* instance of Execution.                                                  *)
(*                                                                         *)
(* Four steps take an attempt from one stage to the next.  All others      *)
(* leave the stages alone, and what they may do to the task objects is     *)
(* said once (Around).                                                     *)
(*                                                                         *)
(* Then the order of attempts within a family of tasks: parents before     *)
(* their children, and the children of a response after the last of them   *)
(* was created, for every instance in which callers do not undo            *)
(* completions.  What a step does to a goroutine (Onward), to the tasks    *)
(* (Grows) and to the evaluations to come (Triggered) is said once, action *)
(* by action; the inductions then follow from these three alone.           *)
(***************************************************************************)
EXTENDS ExecutionProofs

Stages == {"throttled", "posting", "settling"}

InStage(e) == e.pc \in Stages

\* Is e at the same stage of an attempt as f, or at none like it?
SameStage(e, f) ==
    /\ InStage(e) <=> InStage(f)
    /\ InStage(e) => e.pc = f.pc /\ e.id = f.id /\ e.task = f.task /\ e.left = f.left

\* What handlers and merges leave in an object.
Kept(r) ==
    /\ heap'[r].busy = heap[r].busy
    /\ \/ heap'[r].paused = heap[r].paused /\ pausedCalls'[r] = pausedCalls[r]
       \/ pausedCalls'[r] = IF heap'[r].paused THEN pausedCalls[r] ELSE 0
    /\ \/ heap'[r].attempts = heap[r].attempts
       \/ heap'[r].attempts \in Grants
       \/ \E u \in Updates : u.attempts # Keep /\ heap'[r].attempts = u.attempts
    /\ \/ heap'[r].runAfter = heap[r].runAfter
       \/ heap'[r].runAfter = now
       \/ \E u \in Updates : u.runAfter # Keep
    /\ heap'[r].complete =>
          \/ heap[r].complete
          \/ \E p \in Procs : "merge" \in exec[p].jobs
          \/ \E u \in Updates : u.complete # Keep /\ u.complete

\* The first object made under an id.
Born(r) ==
    /\ made[r[1]] = 0 /\ r[2] = made'[r[1]]
    /\ ~heap'[r].busy /\ pausedCalls'[r] = pausedCalls[r]
    /\ heap'[r].attempts \in {Blueprint[r[1]].attempts, DefaultAttempts}

Around ==
    /\ \A p \in Procs : SameStage(exec'[p], exec[p])
    /\ \A id \in Ids : made[id] <= made'[id]
    /\ now <= now'
    /\ \A r \in Refs : made'[r[1]] <= 1 => Kept(r) \/ Born(r)

-----------------------------------------------------------------------------
(* The steps around the attempts.                                          *)

\* A step that rewrites one slot and leaves the objects alone.
LEMMA SlotAround ==
    ASSUME TypeInv, NEW p \in Procs, NEW e, exec' = [exec EXCEPT ![p] = e],
           SameStage(e, exec[p]), heap' = heap, pausedCalls' = pausedCalls,
           made' = made, now' = now
    PROVE  Around
  <1>1. \A q \in Procs : exec'[q] = IF q = p THEN e ELSE exec[q]
    BY DEF TypeInv, TypeOK
  <1>2. \A q \in Procs : SameStage(exec'[q], exec[q])
    BY <1>1 DEF SameStage
  <1>3. \A id \in Ids : made[id] <= made'[id]
    BY DEF TypeInv, TypeOK
  <1>4. now <= now'
    BY DEF TypeInv, TypeOK
  <1>5. \A r \in Refs : Kept(r)
    BY DEF Kept
  <1> QED
    BY <1>2, <1>3, <1>4, <1>5 DEF Around

\* A step that rewrites objects and leaves the slots alone.
LEMMA ObjectsAround ==
    ASSUME TypeInv, \A p \in Procs : SameStage(exec'[p], exec[p]),
           made' = made, now' = now, \A r \in Refs : Kept(r)
    PROVE  Around
  <1>1. \A id \in Ids : made[id] <= made'[id]
    BY DEF TypeInv, TypeOK
  <1>2. now <= now'
    BY DEF TypeInv, TypeOK
  <1> QED
    BY <1>1, <1>2 DEF Around

LEMMA StagesUntouched ==
    ASSUME exec' = exec
    PROVE  \A p \in Procs : SameStage(exec'[p], exec[p])
  BY DEF SameStage

LEMMA FreedStage ==
    ASSUME NEW e, NEW f, SameStage(e, f)
    PROVE  SameStage(Freed(e), f)
  <1>1. CASE e.pc = "background" /\ e.jobs = {}
    <2>1. ~InStage(e) /\ ~InStage(IdleExec)
      BY <1>1 DEF InStage, Stages, IdleExec
    <2> QED
      BY <1>1, <2>1 DEF SameStage, Freed
  <1>2. CASE ~(e.pc = "background" /\ e.jobs = {})
    BY <1>2 DEF Freed
  <1> QED
    BY <1>1, <1>2

\* Nobody makes a second object under an id but by making more than one.
LEMMA SavedAround ==
    ASSUME TypeInv, NEW id \in Ids, NEW task \in TaskType, SaveNewTask(id, task),
           ~task.busy, task.attempts \in {Blueprint[id].attempts, DefaultAttempts},
           \A p \in Procs : SameStage(exec'[p], exec[p]),
           now' = now, pausedCalls' = pausedCalls
    PROVE  Around
  <1>1. CASE IsStored(id)
    <2>1. heap' = heap /\ made' = made
      BY <1>1 DEF SaveNewTask
    <2>2. \A r \in Refs : Kept(r)
      BY <2>1 DEF Kept
    <2> QED
      BY <2>1, <2>2, ObjectsAround
  <1>2. CASE ~IsStored(id)
    <2> DEFINE new == <<id, made[id] + 1>>
    <2>1. /\ heap' = [heap EXCEPT ![new] = task]
          /\ made' = [made EXCEPT ![id] = @ + 1]
          /\ made[id] < MaxInc
      BY <1>2 DEF SaveNewTask
    <2>2. \A t \in Ids : made[t] \in Nat /\ made'[t] = IF t = id THEN made[t] + 1 ELSE made[t]
      BY <2>1, BoundsAssumption DEF TypeInv, TypeOK
    <2>3. new \in Refs
      BY <2>1, <2>2, BoundsAssumption DEF Refs
    <2>4. \A r \in Refs : heap'[r] = IF r = new THEN task ELSE heap[r]
      BY <2>1, <2>3 DEF TypeInv, TypeOK
    <2>5. ASSUME NEW r \in Refs, made'[r[1]] <= 1 PROVE Kept(r) \/ Born(r)
      <3>1. CASE r = new
        <4>1. r[1] = id /\ r[2] = made[id] + 1
          BY <3>1
        <4>2. made[id] = 0 /\ made'[id] = 1
          BY <2>2, <2>5, <4>1
        <4>3. heap'[r] = task
          BY <2>4, <3>1
        <4> QED
          BY <4>1, <4>2, <4>3 DEF Born
      <3>2. CASE r # new
        BY <2>4, <3>2 DEF Kept
      <3> QED
        BY <3>1, <3>2
    <2>6. now <= now'
      BY DEF TypeInv, TypeOK
    <2> QED
      BY <2>2, <2>5, <2>6 DEF Around
  <1> QED
    BY <1>1, <1>2

\* The steps from one stage to the next.
Advances(p) ==
    \/ RecheckGoesOn(p)
    \/ Start(p)
    \/ \E resp \in Responses : PostReturns(p, resp)
    \/ Settle(p)

LEMMA ExecuteAround ==
    ASSUME TypeInv, NEW p \in Procs, ExecuteStep(p)
    PROVE  Around \/ Advances(p)
  <1>0. exec[p] \in ExecType
    BY DEF TypeInv, TypeOK
  <1>1. CASE Execute(p)
    <2> DEFINE e == [exec[p] EXCEPT !.pc = "timer",
                                    !.parents = GetTaskParents(exec[p].id),
                                    !.timer = Later(now, heap[Task(p)].runAfter)]
    <2>1. e.pc = "timer" /\ exec[p].pc = "execute"
      BY <1>0, <1>1 DEF Execute, At, ExecType
    <2>2. SameStage(e, exec[p])
      BY <2>1 DEF SameStage, InStage, Stages
    <2> QED
      BY <1>1, <2>2, SlotAround DEF Execute
  <1>2. CASE LockPanics(p)
    <2>1. \A q \in Procs : SameStage(exec'[q], exec[q])
      BY <1>2, StagesUntouched DEF LockPanics
    <2> QED
      BY <1>2, <2>1, ObjectsAround DEF LockPanics, Kept
  <1>3. CASE LockFails(p)
    <2>1. SameStage(IdleExec, exec[p])
      BY <1>3 DEF LockFails, TimerFires, At, SameStage, InStage, Stages, IdleExec
    <2> QED
      BY <1>3, <2>1, SlotAround DEF LockFails
  <1>4. CASE LockAcquired(p)
    <2> DEFINE e == [exec[p] EXCEPT !.pc = "locked", !.lock = stored[exec[p].id]]
    <2>1. e.pc = "locked" /\ exec[p].pc = "timer"
      BY <1>0, <1>4 DEF LockAcquired, TimerFires, At, ExecType
    <2>2. SameStage(e, exec[p])
      BY <2>1 DEF SameStage, InStage, Stages
    <2> QED
      BY <1>4, <2>2, SlotAround DEF LockAcquired
  <1>5. CASE RecheckEnds(p)
    <2> DEFINE e == [exec[p] EXCEPT !.pc = "unlock"]
    <2>1. e.pc = "unlock" /\ exec[p].pc = "locked"
      BY <1>0, <1>5 DEF RecheckEnds, At, ExecType
    <2>2. SameStage(e, exec[p])
      BY <2>1 DEF SameStage, InStage, Stages
    <2> QED
      BY <1>5, <2>2, SlotAround DEF RecheckEnds
  <1>6. CASE Finish(p)
    <2> DEFINE e == [exec[p] EXCEPT !.pc = "unlock",
                                    !.jobs = DelayJobs(exec[p].resp) \cup
                                        (IF heap[Task(p)].complete
                                         THEN DoneJobs(exec[p].id) ELSE {})]
    <2>1. e.pc = "unlock" /\ exec[p].pc = "finishing"
      BY <1>0, <1>6 DEF Finish, At, ExecType
    <2>2. SameStage(e, exec[p])
      BY <2>1 DEF SameStage, InStage, Stages
    <2>3. exec' = [exec EXCEPT ![p] = e]
      BY <1>6 DEF Finish
    <2> HIDE DEF e
    <2> QED
      BY <1>6, <2>2, <2>3, SlotAround DEF Finish
  <1>7. CASE Unlock(p)
    <2> DEFINE e == [exec[p] EXCEPT !.pc = "background", !.lock = 0]
    <2>1. e.pc = "background" /\ exec[p].pc = "unlock"
      BY <1>0, <1>7 DEF Unlock, At, ExecType
    <2>2. SameStage(e, exec[p])
      BY <2>1 DEF SameStage, InStage, Stages
    <2>3. exec' = [exec EXCEPT ![p] = Freed(e)]
      BY <1>7 DEF Unlock
    <2> HIDE DEF e
    <2> QED
      BY <1>7, <2>2, <2>3, FreedStage, SlotAround DEF Unlock
  <1>8. CASE CreateChild(p)
    <2> DEFINE child == Head(exec[p].todo)
               task == ChildOf(exec[p].id, Blueprint[child])
               e == [exec[p] EXCEPT !.todo = Tail(exec[p].todo)]
    <2>1. /\ exec' = [exec EXCEPT ![p] = e]
          /\ SaveNewTask(child, task)
          /\ exec[p].pc = "finishing" /\ exec[p].todo # <<>>
      BY <1>8 DEF CreateChild, At
    <2>2. child \in Ids /\ exec[p].id \in Ids
      BY <1>0, <2>1, SlotInUse DEF ExecType
    <2>3. Blueprint[child] \in TaskType
      BY <2>2, InstanceAssumption
    <2>4. task \in TaskType
      BY <2>2, <2>3, ChildOfType
    <2>5. ~task.busy /\ task.attempts \in {Blueprint[child].attempts, DefaultAttempts}
      BY <2>3 DEF ChildOf, OrDefault, TaskType
    <2>6. e.pc = "finishing"
      BY <1>0, <2>1 DEF ExecType
    <2>7. \A q \in Procs : exec'[q] = IF q = p THEN e ELSE exec[q]
      BY <2>1 DEF TypeInv, TypeOK
    <2> HIDE DEF e, child, task
    <2>8. \A q \in Procs : SameStage(exec'[q], exec[q])
      BY <2>1, <2>6, <2>7 DEF SameStage, InStage, Stages
    <2>9. now' = now /\ pausedCalls' = pausedCalls
      BY <1>8 DEF CreateChild
    <2> QED
      BY <2>1, <2>2, <2>4, <2>5, <2>8, <2>9, SavedAround
  <1> QED
    BY <1>1, <1>2, <1>3, <1>4, <1>5, <1>6, <1>7, <1>8 DEF ExecuteStep, Advances

LEMMA JobAround ==
    ASSUME TypeInv, NEW p \in Procs, NEW e \in ExecType,
           exec' = [exec EXCEPT ![p] = Freed(e)],
           e.pc = exec[p].pc, e.id = exec[p].id, e.task = exec[p].task, e.left = exec[p].left,
           made' = made, now' = now, \A r \in Refs : Kept(r)
    PROVE  Around
  <1>1. SameStage(e, exec[p])
    BY DEF SameStage, InStage
  <1>2. SameStage(Freed(e), exec[p])
    BY <1>1, FreedStage
  <1>3. \A q \in Procs : exec'[q] = IF q = p THEN Freed(e) ELSE exec[q]
    BY DEF TypeInv, TypeOK
  <1>4. \A q \in Procs : SameStage(exec'[q], exec[q])
    BY <1>2, <1>3 DEF SameStage
  <1> QED
    BY <1>4, ObjectsAround

LEMMA BackgroundAround ==
    ASSUME TypeInv, NEW p \in Procs, BackgroundStep(p)
    PROVE  Around
  <1>0. exec[p] \in ExecType
    BY DEF TypeInv, TypeOK
  <1>1. ASSUME NEW job, JobDone(p, job), heap' = heap, pausedCalls' = pausedCalls,
               made' = made, now' = now
        PROVE  Around
    <2> DEFINE e == [exec[p] EXCEPT !.jobs = exec[p].jobs \ {job}]
    <2>1. exec' = [exec EXCEPT ![p] = Freed(e)]
      BY <1>1 DEF JobDone
    <2>2. /\ e \in ExecType /\ e.pc = exec[p].pc /\ e.id = exec[p].id
          /\ e.task = exec[p].task /\ e.left = exec[p].left
      BY <1>0 DEF ExecType
    <2>3. \A r \in Refs : Kept(r)
      BY <1>1 DEF Kept
    <2> HIDE DEF e
    <2> QED
      BY <1>1, <2>1, <2>2, <2>3, JobAround
  <1>2. CASE NotifyChildren(p)
    BY <1>1, <1>2 DEF NotifyChildren
  <1>3. CASE ApplyChildrenDelay(p)
    BY <1>1, <1>3 DEF ApplyChildrenDelay, GetTaskChildrenFails
  <1>4. CASE ApplyWorkgroupDelay(p)
    BY <1>1, <1>4 DEF ApplyWorkgroupDelay, GetTasksInWorkgroupFails
  <1>5. CASE FindDuplicates(p)
    <2> DEFINE jobs == (exec[p].jobs \ {"match"}) \cup
                           {j \in {"merge"} : Duplicates(p) # {}}
               e == [exec[p] EXCEPT !.matches = Duplicates(p), !.jobs = jobs]
    <2>1. exec' = [exec EXCEPT ![p] = Freed(e)]
      BY <1>5 DEF FindDuplicates
    <2>2. e \in ExecType
      BY <1>5, DuplicatesFoundType
    <2>3. /\ e.pc = exec[p].pc /\ e.id = exec[p].id
          /\ e.task = exec[p].task /\ e.left = exec[p].left
      BY <1>0 DEF ExecType
    <2>4. \A r \in Refs : Kept(r)
      BY <1>5 DEF FindDuplicates, Kept
    <2> HIDE DEF e
    <2> QED
      BY <1>5, <2>1, <2>2, <2>3, <2>4, JobAround DEF FindDuplicates
  <1>6. ASSUME NEW match \in Refs, MergeOne(p, match) PROVE Around
    <2> DEFINE rest == exec[p].matches \ {match}
               jobs == IF rest = {} THEN exec[p].jobs \ {"merge"} ELSE exec[p].jobs
               e == [exec[p] EXCEPT !.matches = rest, !.jobs = jobs]
    <2>1. exec' = [exec EXCEPT ![p] = Freed(e)]
      BY <1>6 DEF MergeOne
    <2>2. jobs \in SUBSET Jobs /\ rest \in SUBSET Refs
      BY <1>0 DEF ExecType
    <2> HIDE DEF jobs, rest
    <2>3. /\ e \in ExecType /\ e.pc = exec[p].pc /\ e.id = exec[p].id
          /\ e.task = exec[p].task /\ e.left = exec[p].left
      BY <1>0, <2>2 DEF ExecType
    <2> HIDE DEF e
    <2>4. ASSUME NEW r \in Refs PROVE Kept(r)
      <3>1. heap' = [heap EXCEPT ![match] =
                         [heap[match] EXCEPT !.complete = TRUE, !.output = heap[Task(p)].output]]
        BY <1>6 DEF MergeOne, Merged, TypeInv, TypeOK, TaskType
      <3>2. heap[r] \in TaskType
        BY DEF TypeInv, TypeOK
      <3>3. /\ heap'[r].busy = heap[r].busy /\ heap'[r].paused = heap[r].paused
            /\ heap'[r].attempts = heap[r].attempts /\ heap'[r].runAfter = heap[r].runAfter
        BY <3>1, <3>2 DEF TypeInv, TypeOK, TaskType
      <3>4. "merge" \in exec[p].jobs /\ pausedCalls' = pausedCalls
        BY <1>6 DEF MergeOne, HasJob
      <3> QED
        BY <3>3, <3>4 DEF Kept
    <2> QED
      BY <1>6, <2>1, <2>3, <2>4, JobAround DEF MergeOne
  <1> QED
    BY <1>2, <1>3, <1>4, <1>5, <1>6 DEF BackgroundStep

LEMMA ApiAround ==
    ASSUME TypeInv, ApiCall
    PROVE  Around
  <1>0. \A p \in Procs : SameStage(exec'[p], exec[p])
    BY ApiLeavesLocks, StagesUntouched
  <1>1. ASSUME NEW id \in Ids, CreateTask(id) PROVE Around
    <2>1. Blueprint[id] \in TaskType /\ ~Blueprint[id].busy
      BY InstanceAssumption
    <2> QED
      BY <1>0, <1>1, <2>1, SavedAround DEF CreateTask
  <1>2. ASSUME NEW id \in Ids, DeleteTask(id) PROVE Around
    BY <1>0, <1>2, ObjectsAround DEF DeleteTask, Kept
  <1>3. ASSUME NEW id \in Ids, IsStored(id), NEW task, heap' = [heap EXCEPT ![Ref(id)] = task],
               made' = made, now' = now,
               \A r \in Refs : r = Ref(id) => Kept(r),
               \A r \in Refs : r # Ref(id) => pausedCalls'[r] = pausedCalls[r]
        PROVE  Around
    <2>1. ASSUME NEW r \in Refs, r # Ref(id) PROVE Kept(r)
      <3>1. heap'[r] = heap[r]
        BY <1>3, <2>1 DEF TypeInv, TypeOK
      <3> QED
        BY <1>3, <2>1, <3>1 DEF Kept
    <2> QED
      BY <1>0, <1>3, <2>1, ObjectsAround
  <1>4. ASSUME NEW id \in Ids, NEW n \in Grants, ResetTask(id, n) PROVE Around
    <2>1. IsStored(id) /\ Ref(id) \in Refs /\ heap[Ref(id)] \in TaskType
      BY <1>4, StoredTaskType DEF ResetTask, StoredTask
    <2>2. heap' = [heap EXCEPT ![Ref(id)] = Reset(heap[Ref(id)], n, now)]
      BY <1>4 DEF ResetTask
    <2>3. heap'[Ref(id)] = Reset(heap[Ref(id)], n, now)
      BY <2>1, <2>2 DEF TypeInv, TypeOK
    <2>4. Kept(Ref(id))
      BY <1>4, <2>1, <2>3 DEF ResetTask, Kept, Reset, TaskType
    <2> QED
      BY <1>3, <1>4, <2>1, <2>2, <2>4 DEF ResetTask
  <1>5. ASSUME NEW id \in Ids, NEW n \in Grants, RetryTask(id, n) PROVE Around
    <2>1. IsStored(id) /\ Ref(id) \in Refs /\ heap[Ref(id)] \in TaskType
      BY <1>5, StoredTaskType DEF RetryTask, StoredTask
    <2>2. heap' = [heap EXCEPT ![Ref(id)] = Retried(heap[Ref(id)], n)]
      BY <1>5 DEF RetryTask
    <2>3. heap'[Ref(id)] = Retried(heap[Ref(id)], n)
      BY <2>1, <2>2 DEF TypeInv, TypeOK
    <2>4. Kept(Ref(id))
      BY <1>5, <2>1, <2>3 DEF RetryTask, Kept, Retried, TaskType
    <2> QED
      BY <1>3, <1>5, <2>1, <2>2, <2>4 DEF RetryTask
  <1>6. ASSUME NEW id \in Ids, NEW u \in Updates, UpdateTask(id, u) PROVE Around
    <2> DEFINE task == Updated(StoredTask(id), u)
    <2>1. IsStored(id) /\ Ref(id) \in Refs /\ heap[Ref(id)] \in TaskType
      BY <1>6, StoredTaskType DEF UpdateTask, StoredTask
    <2>2. /\ heap' = [heap EXCEPT ![Ref(id)] = task]
          /\ pausedCalls' = [pausedCalls EXCEPT ![Ref(id)] = IF task.paused THEN @ ELSE 0]
      BY <1>6 DEF UpdateTask
    <2>3. /\ task.busy = heap[Ref(id)].busy
          /\ task.attempts = Given(u.attempts, heap[Ref(id)].attempts)
          /\ task.runAfter = Given(u.runAfter, heap[Ref(id)].runAfter)
          /\ task.complete = Given(u.complete, heap[Ref(id)].complete)
      BY <2>1 DEF Updated, StoredTask, TaskType
    <2> HIDE DEF task
    <2>4. heap'[Ref(id)] = task
      BY <2>1, <2>2 DEF TypeInv, TypeOK
    <2>5. pausedCalls'[Ref(id)] = IF heap'[Ref(id)].paused THEN pausedCalls[Ref(id)] ELSE 0
      BY <2>1, <2>2, <2>4 DEF TypeInv, TypeOK
    <2>6. Kept(Ref(id))
      BY <2>3, <2>4, <2>5 DEF Kept, Given
    <2>7. \A r \in Refs : r # Ref(id) => pausedCalls'[r] = pausedCalls[r]
      BY <2>2 DEF TypeInv, TypeOK
    <2> QED
      BY <1>3, <1>6, <2>1, <2>2, <2>6, <2>7 DEF UpdateTask
  <1> QED
    BY <1>1, <1>2, <1>4, <1>5, <1>6 DEF ApiCall

LEMMA NextAround ==
    ASSUME TypeInv, [Next]_vars
    PROVE  Around \/ \E p \in Procs : Advances(p)
  <1>1. ASSUME exec' = exec, heap' = heap, pausedCalls' = pausedCalls, made' = made, now' = now
        PROVE  Around
    BY <1>1, StagesUntouched, ObjectsAround DEF Kept
  <1>2. ASSUME NEW id \in Ids, EvaluateDrops(id) PROVE Around
    BY <1>1, <1>2 DEF EvaluateDrops
  <1>3. ASSUME NEW id \in Ids, NEW p \in Procs, EvaluateExecutes(id, p) PROVE Around
    <2> DEFINE e == [IdleExec EXCEPT !.pc = "execute", !.id = id, !.task = stored[id]]
    <2>1. e.pc = "execute" /\ exec[p].pc = "idle"
      BY <1>3 DEF EvaluateExecutes, At, IdleExec
    <2>2. SameStage(e, exec[p])
      BY <2>1 DEF SameStage, InStage, Stages
    <2> QED
      BY <1>3, <2>2, SlotAround DEF EvaluateExecutes
  <1>4. CASE Tick
    <2>1. \A p \in Procs : SameStage(exec'[p], exec[p])
      BY <1>4, StagesUntouched DEF Tick
    <2>2. \A id \in Ids : made[id] <= made'[id]
      BY <1>4 DEF Tick, TypeInv, TypeOK
    <2>3. now <= now'
      BY <1>4 DEF Tick, TypeInv, TypeOK
    <2> QED
      BY <1>4, <2>1, <2>2, <2>3 DEF Tick, Around, Kept
  <1>5. CASE Rest \/ UNCHANGED vars
    BY <1>1, <1>5 DEF Rest, vars
  <1> QED
    BY <1>2, <1>3, <1>4, <1>5, ExecuteAround, BackgroundAround, ApiAround DEF Next

-----------------------------------------------------------------------------
(* The four steps of an attempt, and who else is in one.                   *)

\* Two goroutines in an attempt at one task work on two objects of its id, or
\* on one that shares its id with another.
LEMMA StagesExclude ==
    ASSUME TypeInv, LockDiscipline, MadeInv,
           NEW p \in Procs, NEW q \in Procs, p # q,
           InStage(exec[p]), InStage(exec[q]), Task(p) = Task(q)
    PROVE  made[Task(p)[1]] > 1
  <1>1. Holding(p) /\ Holding(q)
    BY DEF InStage, Stages, Holding, HoldingPcs
  <1>2. exec[p].id = exec[q].id /\ Task(p)[1] = exec[p].id
    BY DEF Task
  <1> QED
    BY <1>1, <1>2, HoldersHaveObjects

\* Nobody works on an object before the first one of its id is made.
LEMMA UnbornUntouched ==
    ASSUME TypeInv, MadeInv, NEW r \in Refs, made[r[1]] = 0,
           NEW p \in Procs, InStage(exec[p])
    PROVE  Task(p) # r
  <1>1. exec[p].pc # "idle"
    BY DEF InStage, Stages
  <1>2. exec[p].id \in Ids /\ exec[p].task \in 1 .. MaxInc
    BY <1>1, SlotInUse
  <1>3. exec[p].task <= made[exec[p].id]
    BY <1>1 DEF MadeInv
  <1> QED
    BY <1>2, <1>3, BoundsAssumption DEF Task

\* Around the attempts, who is in one now was in the same one before.
LEMMA AroundStages ==
    ASSUME Around, NEW p \in Procs, InStage(exec'[p])
    PROVE  /\ InStage(exec[p])
           /\ exec'[p].pc = exec[p].pc /\ exec'[p].left = exec[p].left
           /\ Task(p)' = Task(p)
  BY DEF Around, SameStage, Task

\* The first step of an attempt: the task fits it, and is left as it is.
LEMMA GoesOnEffect ==
    ASSUME TypeInv, NEW p \in Procs, RecheckGoesOn(p)
    PROVE  /\ heap' = heap /\ pausedCalls' = pausedCalls /\ made' = made /\ now' = now
           /\ \A q \in Procs : q # p => exec'[q] = exec[q]
           /\ exec[p].pc = "locked" /\ exec'[p].pc = "throttled"
           /\ Task(p)' \in Refs
           /\ ~heap[Task(p)'].paused /\ heap[Task(p)'].attempts > 0
           /\ ~heap[Task(p)'].complete
           /\ heap[Task(p)'].runAfter <= now
  <1>1. /\ exec' = [exec EXCEPT ![p] = [exec[p] EXCEPT !.pc = "throttled",
                                                      !.task = stored[exec[p].id]]]
        /\ exec[p].pc = "locked" /\ StillFit(p)
        /\ heap' = heap /\ pausedCalls' = pausedCalls /\ made' = made /\ now' = now
    BY DEF RecheckGoesOn, At
  <1>2. exec[p] \in ExecType
    BY DEF TypeInv, TypeOK
  <1>3. exec'[p] = [exec[p] EXCEPT !.pc = "throttled", !.task = stored[exec[p].id]]
    BY <1>1 DEF TypeInv, TypeOK
  <1>4. \A q \in Procs : q # p => exec'[q] = exec[q]
    BY <1>1 DEF TypeInv, TypeOK
  <1>5. /\ exec'[p].pc = "throttled" /\ exec'[p].id = exec[p].id
        /\ exec'[p].task = stored[exec[p].id]
    BY <1>2, <1>3 DEF ExecType
  <1>6. Task(p)' = Ref(exec[p].id)
    BY <1>5 DEF Task, Ref
  <1>7. exec[p].id \in Ids
    BY <1>1, SlotInUse
  <1>8. /\ IsStored(exec[p].id) /\ ~NotYet(exec[p].id)
        /\ Executable(StoredTask(exec[p].id), exec[p].parents)
    BY <1>1 DEF StillFit
  <1>9. Ref(exec[p].id) \in Refs /\ heap[Ref(exec[p].id)] \in TaskType
    BY <1>7, <1>8, StoredTaskType DEF StoredTask
  <1>10. /\ ~heap[Ref(exec[p].id)].paused /\ heap[Ref(exec[p].id)].attempts > 0
         /\ ~heap[Ref(exec[p].id)].complete
    BY <1>8 DEF Executable, CanExecute, StoredTask
  <1>11. heap[Ref(exec[p].id)].runAfter <= now
    BY <1>8, <1>9 DEF NotYet, StoredTask, TypeInv, TypeOK, TaskType
  <1> QED
    BY <1>1, <1>4, <1>5, <1>6, <1>9, <1>10, <1>11

\* The second: nothing but busy is written.
LEMMA StartEffect ==
    ASSUME TypeInv, NEW p \in Procs, Start(p)
    PROVE  /\ made' = made /\ now' = now
           /\ \A q \in Procs : q # p => exec'[q] = exec[q]
           /\ exec[p].pc = "throttled" /\ exec'[p].pc = "posting"
           /\ Task(p)' = Task(p) /\ Task(p) \in Refs
           /\ \A r \in Refs :
                 /\ heap'[r].busy = (heap[r].busy \/ r = Task(p))
                 /\ heap'[r].paused = heap[r].paused
                 /\ heap'[r].attempts = heap[r].attempts
                 /\ heap'[r].runAfter = heap[r].runAfter
                 /\ heap'[r].complete = heap[r].complete
                 /\ pausedCalls'[r] = IF r = Task(p) /\ heap[r].paused
                                      THEN pausedCalls[r] + 1 ELSE pausedCalls[r]
  <1>1. /\ exec' = [exec EXCEPT ![p] = [exec[p] EXCEPT !.pc = "posting"]]
        /\ heap' = [heap EXCEPT ![Task(p)].busy = TRUE]
        /\ pausedCalls' =
              [pausedCalls EXCEPT ![Task(p)] = IF heap[Task(p)].paused THEN @ + 1 ELSE @]
        /\ exec[p].pc = "throttled" /\ made' = made /\ now' = now
    BY DEF Start, At
  <1>2. Task(p) \in Refs /\ exec[p] \in ExecType
    BY <1>1, SlotInUse
  <1>3. exec'[p] = [exec[p] EXCEPT !.pc = "posting"]
    BY <1>1 DEF TypeInv, TypeOK
  <1>4. \A q \in Procs : q # p => exec'[q] = exec[q]
    BY <1>1 DEF TypeInv, TypeOK
  <1>5. exec'[p].pc = "posting" /\ exec'[p].id = exec[p].id /\ exec'[p].task = exec[p].task
    BY <1>2, <1>3 DEF ExecType
  <1>6. ASSUME NEW r \in Refs
        PROVE  /\ heap'[r].busy = (heap[r].busy \/ r = Task(p))
               /\ heap'[r].paused = heap[r].paused
               /\ heap'[r].attempts = heap[r].attempts
               /\ heap'[r].runAfter = heap[r].runAfter
               /\ heap'[r].complete = heap[r].complete
    <2>1. heap[r] \in TaskType
      BY DEF TypeInv, TypeOK
    <2>2. CASE r = Task(p)
      <3>1. heap'[r] = [heap[r] EXCEPT !.busy = TRUE]
        BY <1>1, <1>2, <2>2 DEF TypeInv, TypeOK
      <3> QED
        BY <2>1, <2>2, <3>1 DEF TaskType
    <2>3. CASE r # Task(p)
      <3>1. heap'[r] = heap[r]
        BY <1>1, <1>2, <2>3 DEF TypeInv, TypeOK
      <3> QED
        BY <2>1, <2>3, <3>1 DEF TaskType
    <2> QED
      BY <2>2, <2>3
  <1>7. \A r \in Refs : pausedCalls'[r] = IF r = Task(p) /\ heap[r].paused
                                          THEN pausedCalls[r] + 1 ELSE pausedCalls[r]
    BY <1>1, <1>2 DEF TypeInv, TypeOK
  <1> QED
    BY <1>1, <1>2, <1>4, <1>5, <1>6, <1>7 DEF Task

\* The third: the attempts are loaded and nothing is written.
LEMMA PostEffect ==
    ASSUME TypeInv, NEW p \in Procs, NEW resp \in Responses, PostReturns(p, resp)
    PROVE  /\ heap' = heap /\ pausedCalls' = pausedCalls /\ made' = made /\ now' = now
           /\ \A q \in Procs : q # p => exec'[q] = exec[q]
           /\ exec[p].pc = "posting" /\ exec'[p].pc = "settling"
           /\ Task(p)' = Task(p) /\ Task(p) \in Refs
           /\ exec'[p].left = heap[Task(p)].attempts - 1
  <1> DEFINE e == [exec[p] EXCEPT !.pc = "settling", !.resp = resp, !.parents = {},
                                  !.timer = 0, !.left = heap[Task(p)].attempts - 1]
  <1>1. /\ exec' = [exec EXCEPT ![p] = e] /\ exec[p].pc = "posting"
        /\ heap' = heap /\ pausedCalls' = pausedCalls /\ made' = made /\ now' = now
    BY DEF PostReturns, At
  <1>2. Task(p) \in Refs /\ exec[p] \in ExecType
    BY <1>1, SlotInUse
  <1>3. /\ e.pc = "settling" /\ e.id = exec[p].id /\ e.task = exec[p].task
        /\ e.left = heap[Task(p)].attempts - 1
    BY <1>2 DEF ExecType
  <1> HIDE DEF e
  <1>4. \A q \in Procs : exec'[q] = IF q = p THEN e ELSE exec[q]
    BY <1>1 DEF TypeInv, TypeOK
  <1> QED
    BY <1>1, <1>2, <1>3, <1>4 DEF Task

\* The fourth: the outcome is written to the task of the attempt.
LEMMA SettleEffect ==
    ASSUME TypeInv, NEW p \in Procs, Settle(p)
    PROVE  /\ pausedCalls' = pausedCalls /\ made' = made /\ now' = now
           /\ \A q \in Procs : q # p => exec'[q] = exec[q]
           /\ exec[p].pc = "settling" /\ ~InStage(exec'[p])
           /\ Task(p) \in Refs
           /\ ~heap'[Task(p)].busy
           /\ heap'[Task(p)].paused = heap[Task(p)].paused
           /\ heap'[Task(p)].attempts = exec[p].left
           /\ \A r \in Refs : r # Task(p) => heap'[r] = heap[r]
  <1> DEFINE e == [exec[p] EXCEPT !.pc = "finishing", !.left = 0,
                                  !.todo = IF exec[p].resp.ok THEN Continuation[exec[p].id]
                                           ELSE <<>>]
  <1>1. /\ exec' = [exec EXCEPT ![p] = e] /\ exec[p].pc = "settling"
        /\ heap' = [heap EXCEPT ![Task(p)] = Result(p)]
        /\ pausedCalls' = pausedCalls /\ made' = made /\ now' = now
    BY DEF Settle, At
  <1>2. Task(p) \in Refs /\ exec[p] \in ExecType /\ heap[Task(p)] \in TaskType
    BY <1>1, SlotInUse
  <1>3. e.pc = "finishing"
    BY <1>2 DEF ExecType
  <1> HIDE DEF e
  <1>4. \A q \in Procs : exec'[q] = IF q = p THEN e ELSE exec[q]
    BY <1>1 DEF TypeInv, TypeOK
  <1>5. ~InStage(exec'[p])
    BY <1>3, <1>4 DEF InStage, Stages
  <1>6. heap'[Task(p)] = Result(p) /\ \A r \in Refs : r # Task(p) => heap'[r] = heap[r]
    BY <1>1, <1>2 DEF TypeInv, TypeOK
  <1>7. /\ ~Result(p).busy /\ Result(p).paused = heap[Task(p)].paused
        /\ Result(p).attempts = exec[p].left
    <2>1. ASSUME NEW out
          PROVE  LET tried == Attempted(heap[Task(p)], exec[p].left, out)
                     done == [tried EXCEPT !.complete = TRUE]
                     failed == Failed(tried, now)
                 IN  /\ ~done.busy /\ ~failed.busy
                     /\ done.paused = heap[Task(p)].paused
                     /\ failed.paused = heap[Task(p)].paused
                     /\ done.attempts = exec[p].left /\ failed.attempts = exec[p].left
      BY <1>2 DEF Attempted, Failed, TaskType
    <2>2. CASE exec[p].resp.ok
      <3>1. Result(p) = [Attempted(heap[Task(p)], exec[p].left, exec[p].id)
                            EXCEPT !.complete = TRUE]
        BY <2>2 DEF Result
      <3> QED
        BY <2>1, <3>1
    <2>3. CASE ~exec[p].resp.ok
      <3>1. Result(p) = Failed(Attempted(heap[Task(p)], exec[p].left, NoOutput), now)
        BY <2>3 DEF Result
      <3> QED
        BY <2>1, <3>1
    <2> QED
      BY <2>2, <2>3
  <1> QED
    BY <1>1, <1>2, <1>4, <1>5, <1>6, <1>7

-----------------------------------------------------------------------------
(* BusyExecuting.                                                          *)

\* Objects of an id that has at most one are those of one that had.
LEMMA StillSingle ==
    ASSUME TypeInv, Around, NEW r \in Refs, made'[r[1]] <= 1, TypeInv'
    PROVE  made[r[1]] <= 1
  <1>1. r[1] \in Ids
    BY DEF Refs
  <1>2. made[r[1]] \in Nat /\ made'[r[1]] \in Nat /\ made[r[1]] <= made'[r[1]]
    BY <1>1, BoundsAssumption DEF TypeInv, TypeOK, Around
  <1> QED
    BY <1>2

LEMMA NextKeepsBusy ==
    ASSUME TypeInv, TypeInv', LockDiscipline, MadeInv, BusyTellsTheTruth, [Next]_vars
    PROVE  BusyTellsTheTruth'
  <1> DEFINE Busy(r) == \E p \in Procs : exec[p].pc \in {"posting", "settling"} /\ Task(p) = r
  <1> SUFFICES ASSUME NEW r \in Refs, made'[r[1]] <= 1
               PROVE  heap'[r].busy <=> Busy(r)'
    BY DEF BusyTellsTheTruth
  <1>1. CASE Around
    <2>1. \A p \in Procs : exec'[p].pc \in {"posting", "settling"} /\ Task(p)' = r
             <=> exec[p].pc \in {"posting", "settling"} /\ Task(p) = r
      BY <1>1 DEF Around, SameStage, InStage, Stages, Task
    <2>2. Busy(r)' <=> Busy(r)
      BY <2>1
    <2>3. CASE Kept(r)
      BY <1>1, <2>2, <2>3, StillSingle DEF Kept, BusyTellsTheTruth
    <2>4. CASE Born(r)
      <3>1. ~Busy(r)
        BY <2>4, UnbornUntouched DEF Born, InStage, Stages
      <3> QED
        BY <2>2, <2>4, <3>1 DEF Born
    <2> QED
      BY <1>1, <2>3, <2>4 DEF Around
  <1>2. ASSUME NEW p \in Procs, RecheckGoesOn(p) PROVE heap'[r].busy <=> Busy(r)'
    <2>1. \A q \in Procs : exec'[q].pc \in {"posting", "settling"} /\ Task(q)' = r
             <=> exec[q].pc \in {"posting", "settling"} /\ Task(q) = r
      BY <1>2, GoesOnEffect DEF Task
    <2> QED
      BY <1>2, <2>1, GoesOnEffect DEF BusyTellsTheTruth
  <1>3. ASSUME NEW p \in Procs, Start(p) PROVE heap'[r].busy <=> Busy(r)'
    <2>1. \A q \in Procs : exec'[q].pc \in {"posting", "settling"} /\ Task(q)' = r
             <=> \/ exec[q].pc \in {"posting", "settling"} /\ Task(q) = r
                 \/ q = p /\ r = Task(p)
      <3>1. \A q \in Procs : q # p => exec'[q].pc = exec[q].pc /\ Task(q)' = Task(q)
        BY <1>3, StartEffect DEF Task
      <3>2. exec'[p].pc = "posting" /\ exec[p].pc = "throttled" /\ Task(p)' = Task(p)
        BY <1>3, StartEffect
      <3> QED
        BY <3>1, <3>2
    <2>2. Busy(r)' <=> Busy(r) \/ r = Task(p)
      BY <2>1
    <2> QED
      BY <1>3, <2>2, StartEffect DEF BusyTellsTheTruth
  <1>4. ASSUME NEW p \in Procs, NEW resp \in Responses, PostReturns(p, resp)
        PROVE  heap'[r].busy <=> Busy(r)'
    <2>1. \A q \in Procs : exec'[q].pc \in {"posting", "settling"} /\ Task(q)' = r
             <=> exec[q].pc \in {"posting", "settling"} /\ Task(q) = r
      BY <1>4, PostEffect DEF Task
    <2> QED
      BY <1>4, <2>1, PostEffect DEF BusyTellsTheTruth
  <1>5. ASSUME NEW p \in Procs, Settle(p) PROVE heap'[r].busy <=> Busy(r)'
    <2>1. \A q \in Procs : exec'[q].pc \in {"posting", "settling"} /\ Task(q)' = r
             <=> q # p /\ exec[q].pc \in {"posting", "settling"} /\ Task(q) = r
      BY <1>5, SettleEffect DEF Task, InStage, Stages
    <2>2. CASE r = Task(p)
      <3>1. InStage(exec[p])
        BY <1>5, SettleEffect DEF InStage, Stages
      <3>2. made[r[1]] <= 1
        BY <1>5, SettleEffect
      <3>3. made[r[1]] \in Nat
        BY BoundsAssumption DEF TypeInv, TypeOK, Refs
      <3>4. \A q \in Procs : q # p /\ exec[q].pc \in {"posting", "settling"} => Task(q) # r
        BY <2>2, <3>1, <3>2, <3>3, StagesExclude DEF InStage, Stages
      <3> QED
        BY <1>5, <2>1, <2>2, <3>4, SettleEffect
    <2>3. CASE r # Task(p)
      BY <1>5, <2>1, <2>3, SettleEffect DEF BusyTellsTheTruth
    <2> QED
      BY <2>2, <2>3
  <1> QED
    BY <1>1, <1>2, <1>3, <1>4, <1>5, NextAround DEF Advances

\* BusyExecuting, which clients and the UI show, is set when a worker call
\* begins and stays set until its result is written, and at no other time:
\* whatever handlers, merges and other goroutines do to the task meanwhile.
THEOREM BusyIsTrue == Spec => []BusyTellsTheTruth
  <1>1. Init => BusyTellsTheTruth
    <2> SUFFICES ASSUME Init, NEW r \in Refs
                 PROVE  ~heap[r].busy /\ \A p \in Procs : exec[p].pc = "idle"
      BY DEF BusyTellsTheTruth
    <2>1. r[1] \in Ids /\ heap[r] = Blueprint[r[1]]
      BY DEF Init, Refs
    <2> QED
      BY <2>1, InstanceAssumption DEF Init, IdleExec
  <1>2. TypeInv /\ TypeInv' /\ LockDiscipline /\ MadeInv /\ BusyTellsTheTruth /\ [Next]_vars
           => BusyTellsTheTruth'
    BY NextKeepsBusy
  <1> QED
    BY <1>1, <1>2, TypeInvariant, LocksAreDisciplined, PointersLeadToMade, PTL DEF Spec

-----------------------------------------------------------------------------
(* Pausing.                                                                *)

Single(r) == made[r[1]] <= 1

\* A call is only ever begun for a paused task by the goroutine that had passed
\* the check before the pause: after it, nobody is waiting for the throttler.
PauseInv ==
    \A r \in Refs :
        Single(r) =>
            /\ pausedCalls[r] <= 1
            /\ ~heap[r].paused => pausedCalls[r] = 0
            /\ pausedCalls[r] = 1 =>
                  \A p \in Procs : exec[p].pc = "throttled" => Task(p) # r
            /\ made[r[1]] = 0 => pausedCalls[r] = 0

LEMMA NextKeepsPause ==
    ASSUME TypeInv, TypeInv', LockDiscipline, MadeInv, PauseInv, [Next]_vars
    PROVE  PauseInv'
  <1> DEFINE Waiting(r) == \E p \in Procs : exec[p].pc = "throttled" /\ Task(p) = r
             Good(r) == /\ pausedCalls[r] <= 1
                        /\ ~heap[r].paused => pausedCalls[r] = 0
                        /\ pausedCalls[r] = 1 => ~Waiting(r)
                        /\ made[r[1]] = 0 => pausedCalls[r] = 0
  <1> SUFFICES ASSUME NEW r \in Refs, made'[r[1]] <= 1 PROVE Good(r)'
    BY DEF PauseInv, Single
  <1>0. /\ made[r[1]] <= 1 => Good(r)
        /\ made[r[1]] \in Nat /\ made'[r[1]] \in Nat
        /\ pausedCalls[r] \in Nat /\ pausedCalls'[r] \in Nat
    BY BoundsAssumption DEF PauseInv, Single, TypeInv, TypeOK, Refs
  <1>1. CASE Around
    <2>1. Waiting(r)' => Waiting(r)
      BY <1>1 DEF Around, SameStage, InStage, Stages, Task
    <2>2. made[r[1]] <= 1 /\ made[r[1]] <= made'[r[1]]
      BY <1>1, StillSingle DEF Around, Refs
    <2>3. CASE Kept(r)
      BY <1>0, <2>1, <2>2, <2>3 DEF Kept
    <2>4. CASE Born(r)
      BY <1>0, <2>1, <2>2, <2>4 DEF Born
    <2> QED
      BY <1>1, <2>3, <2>4 DEF Around
  <1>2. ASSUME NEW p \in Procs, RecheckGoesOn(p) PROVE Good(r)'
    <2>1. Waiting(r)' => Waiting(r) \/ ~heap[r].paused
      BY <1>2, GoesOnEffect DEF Task
    <2> QED
      BY <1>0, <1>2, <2>1, GoesOnEffect
  <1>3. ASSUME NEW p \in Procs, Start(p) PROVE Good(r)'
    <2>1. CASE r = Task(p)
      <3>1. Waiting(r) /\ InStage(exec[p])
        BY <1>3, <2>1, StartEffect DEF InStage, Stages
      <3>2. made[r[1]] <= 1 /\ made' = made
        BY <1>3, StartEffect
      <3>3. \A q \in Procs : q # p /\ exec[q].pc = "throttled" => Task(q) # r
        BY <1>0, <2>1, <3>1, <3>2, StagesExclude DEF InStage, Stages
      <3>4. ~Waiting(r)'
        <4>1. \A q \in Procs : q # p => exec'[q].pc = exec[q].pc /\ Task(q)' = Task(q)
          BY <1>3, StartEffect DEF Task
        <4>2. exec'[p].pc = "posting"
          BY <1>3, StartEffect
        <4> QED
          BY <3>3, <4>1, <4>2
      <3>5. made[r[1]] # 0
        BY <2>1, <3>1, UnbornUntouched
      <3>6. pausedCalls[r] = 0
        BY <1>0, <3>1, <3>2
      <3> QED
        BY <1>3, <2>1, <3>2, <3>4, <3>5, <3>6, StartEffect
    <2>2. CASE r # Task(p)
      <3>1. Waiting(r)' => Waiting(r)
        <4>1. \A q \in Procs : q # p => exec'[q].pc = exec[q].pc /\ Task(q)' = Task(q)
          BY <1>3, StartEffect DEF Task
        <4>2. exec'[p].pc = "posting"
          BY <1>3, StartEffect
        <4> QED
          BY <4>1, <4>2
      <3> QED
        BY <1>0, <1>3, <2>2, <3>1, StartEffect
    <2> QED
      BY <2>1, <2>2
  <1>4. ASSUME NEW p \in Procs, NEW resp \in Responses, PostReturns(p, resp) PROVE Good(r)'
    <2>1. Waiting(r)' => Waiting(r)
      BY <1>4, PostEffect DEF Task
    <2> QED
      BY <1>0, <1>4, <2>1, PostEffect
  <1>5. ASSUME NEW p \in Procs, Settle(p) PROVE Good(r)'
    <2>1. Waiting(r)' => Waiting(r)
      BY <1>5, SettleEffect DEF Task, InStage, Stages
    <2>2. heap'[r].paused = heap[r].paused
      BY <1>5, SettleEffect
    <2> QED
      BY <1>0, <1>5, <2>1, <2>2, SettleEffect
  <1> QED
    BY <1>1, <1>2, <1>3, <1>4, <1>5, NextAround DEF Advances

\* After a task was paused, at most one more worker call is begun for it until
\* it is resumed: the one that was already past the check under the lock.
THEOREM PauseIsKept == Spec => []PauseAdmitsAtMostOne
  <1>1. Init => PauseInv
    <2> SUFFICES ASSUME Init PROVE PauseInv
      OBVIOUS
    <2>1. \A r \in Refs : pausedCalls[r] = 0
      BY DEF Init
    <2> QED
      BY <2>1 DEF PauseInv
  <1>2. TypeInv /\ TypeInv' /\ LockDiscipline /\ MadeInv /\ PauseInv /\ [Next]_vars
           => PauseInv'
    BY NextKeepsPause
  <1>3. PauseInv => PauseAdmitsAtMostOne
    BY DEF PauseInv, Single, PauseAdmitsAtMostOne
  <1> QED
    BY <1>1, <1>2, <1>3, TypeInvariant, LocksAreDisciplined, PointersLeadToMade, PTL DEF Spec

-----------------------------------------------------------------------------
(* RemainingAttempts.                                                      *)

\* Callers send positive attempts and tasks start with none that are negative.
PositiveGrants ==
    /\ \A n \in Grants : n > 0
    /\ \A u \in Updates : u.attempts # Keep => u.attempts > 0
    /\ \A id \in Ids : Blueprint[id].attempts >= 0

\* The attempt of whoever passed the check under the lock is still to be paid
\* for, by what the task has left or by what was loaded from it.
OverdraftInv ==
    \A r \in Refs :
        Single(r) =>
            /\ heap[r].attempts >= 0
            /\ \A p \in Procs :
                  Task(p) = r =>
                      /\ exec[p].pc \in {"throttled", "posting"} => heap[r].attempts >= 1
                      /\ exec[p].pc = "settling" => exec[p].left >= 0

LEMMA NextKeepsOverdraft ==
    ASSUME PositiveGrants,
           TypeInv, TypeInv', LockDiscipline, MadeInv, OverdraftInv, [Next]_vars
    PROVE  OverdraftInv'
  <1> DEFINE Paid(r) == \A p \in Procs :
                 Task(p) = r =>
                     /\ exec[p].pc \in {"throttled", "posting"} => heap[r].attempts >= 1
                     /\ exec[p].pc = "settling" => exec[p].left >= 0
             Good(r) == heap[r].attempts >= 0 /\ Paid(r)
  <1> SUFFICES ASSUME NEW r \in Refs, made'[r[1]] <= 1 PROVE Good(r)'
    BY DEF OverdraftInv, Single
  <1>0. /\ made[r[1]] <= 1 => Good(r)
        /\ made[r[1]] \in Nat /\ heap[r].attempts \in Int /\ heap'[r].attempts \in Int
    BY BoundsAssumption DEF OverdraftInv, Single, TypeInv, TypeOK, Refs, TaskType
  <1>1. CASE Around
    <2>0. Good(r)
      BY <1>0, <1>1, StillSingle
    <2>1. ASSUME NEW p \in Procs, InStage(exec'[p])
          PROVE  /\ InStage(exec[p])
                 /\ exec'[p].pc = exec[p].pc /\ exec'[p].left = exec[p].left
                 /\ Task(p)' = Task(p)
      BY <1>1, <2>1, AroundStages
    <2>2. CASE Kept(r)
      <3>1. heap'[r].attempts = heap[r].attempts \/ heap'[r].attempts >= 1
        <4>1. ASSUME heap'[r].attempts \in Grants PROVE heap'[r].attempts >= 1
          BY <1>0, <4>1 DEF PositiveGrants
        <4>2. ASSUME NEW u \in Updates, u.attempts # Keep, heap'[r].attempts = u.attempts
              PROVE  heap'[r].attempts >= 1
          BY <1>0, <4>2 DEF PositiveGrants
        <4> QED
          BY <2>2, <4>1, <4>2 DEF Kept
      <3> QED
        BY <1>0, <2>0, <2>1, <3>1 DEF InStage, Stages
    <2>3. CASE Born(r)
      <3>1. heap'[r].attempts >= 0
        BY <2>3, DefaultsAssumption DEF Born, PositiveGrants, Refs
      <3>2. \A p \in Procs : InStage(exec'[p]) => Task(p)' # r
        BY <2>1, <2>3, UnbornUntouched DEF Born
      <3> QED
        BY <3>1, <3>2 DEF InStage, Stages
    <2> QED
      BY <1>1, <2>2, <2>3 DEF Around
  <1>2. ASSUME NEW p \in Procs, RecheckGoesOn(p) PROVE Good(r)'
    <2>1. \A q \in Procs : q # p => exec'[q] = exec[q] /\ Task(q)' = Task(q)
      BY <1>2, GoesOnEffect DEF Task
    <2>2. Good(r) /\ heap' = heap
      BY <1>0, <1>2, GoesOnEffect
    <2>3. exec'[p].pc = "throttled" /\ (Task(p)' = r => heap[r].attempts >= 1)
      BY <1>0, <1>2, GoesOnEffect
    <2> QED
      BY <2>1, <2>2, <2>3
  <1>3. ASSUME NEW p \in Procs, Start(p) PROVE Good(r)'
    <2>1. \A q \in Procs : q # p => exec'[q] = exec[q] /\ Task(q)' = Task(q)
      BY <1>3, StartEffect DEF Task
    <2>2. Good(r) /\ heap'[r].attempts = heap[r].attempts
      BY <1>0, <1>3, StartEffect
    <2>3. exec'[p].pc = "posting" /\ exec[p].pc = "throttled" /\ Task(p)' = Task(p)
      BY <1>3, StartEffect
    <2> QED
      BY <2>1, <2>2, <2>3
  <1>4. ASSUME NEW p \in Procs, NEW resp \in Responses, PostReturns(p, resp) PROVE Good(r)'
    <2>1. \A q \in Procs : q # p => exec'[q] = exec[q] /\ Task(q)' = Task(q)
      BY <1>4, PostEffect DEF Task
    <2>2. Good(r) /\ heap' = heap
      BY <1>0, <1>4, PostEffect
    <2>3. /\ exec'[p].pc = "settling" /\ exec[p].pc = "posting" /\ Task(p)' = Task(p)
          /\ exec'[p].left = heap[Task(p)].attempts - 1
      BY <1>4, PostEffect
    <2> QED
      BY <1>0, <2>1, <2>2, <2>3
  <1>5. ASSUME NEW p \in Procs, Settle(p) PROVE Good(r)'
    <2>1. \A q \in Procs : q # p => exec'[q] = exec[q] /\ Task(q)' = Task(q)
      BY <1>5, SettleEffect DEF Task
    <2>2. made[r[1]] <= 1 /\ Good(r) /\ exec[p].pc = "settling" /\ ~InStage(exec'[p])
      BY <1>0, <1>5, SettleEffect
    <2>3. CASE r = Task(p)
      <3>1. heap'[r].attempts = exec[p].left /\ exec[p].left >= 0
        BY <1>5, <2>2, <2>3, SettleEffect
      <3>2. \A q \in Procs : q # p /\ InStage(exec[q]) => Task(q) # r
        BY <1>0, <2>2, <2>3, StagesExclude DEF InStage, Stages
      <3> QED
        BY <2>1, <2>2, <3>1, <3>2 DEF InStage, Stages
    <2>4. CASE r # Task(p)
      <3>1. heap'[r] = heap[r]
        BY <1>5, <2>4, SettleEffect
      <3> QED
        BY <2>1, <2>2, <3>1 DEF InStage, Stages
    <2> QED
      BY <2>3, <2>4
  <1> QED
    BY <1>1, <1>2, <1>3, <1>4, <1>5, NextAround DEF Advances

\* Every worker call is paid for: however retries, resets and updates that
\* grant attempts interleave with the goroutines of a task, what it has left
\* never becomes negative, if all callers send positive numbers.
THEOREM AttemptsNotOverdrawn ==
    ASSUME PositiveGrants
    PROVE  Spec => []NoOverdraft
  <1>1. Init => OverdraftInv
    <2> SUFFICES ASSUME Init PROVE OverdraftInv
      OBVIOUS
    <2>1. \A r \in Refs : heap[r].attempts >= 0
      BY DEF Init, PositiveGrants, Refs
    <2>2. \A p \in Procs : exec[p].pc = "idle"
      BY DEF Init, IdleExec
    <2> QED
      BY <2>1, <2>2 DEF OverdraftInv
  <1>2. TypeInv /\ TypeInv' /\ LockDiscipline /\ MadeInv /\ OverdraftInv /\ [Next]_vars
           => OverdraftInv'
    BY NextKeepsOverdraft
  <1>3. OverdraftInv => NoOverdraft
    BY DEF OverdraftInv, Single, NoOverdraft
  <1> QED
    BY <1>1, <1>2, <1>3, TypeInvariant, LocksAreDisciplined, PointersLeadToMade, PTL DEF Spec

-----------------------------------------------------------------------------
(* RunAfter.                                                               *)

\* Callers leave runAfter to the server.
RunAfterIsTheServers == \A u \in Updates : u.runAfter = Keep

\* Whoever passed the check under the lock did so after the task's instant, and
\* nobody moves that instant before the call returns.
RetryInv ==
    \A r \in Refs :
        Single(r) =>
            \A p \in Procs :
                Task(p) = r /\ exec[p].pc \in {"throttled", "posting"}
                    => heap[r].runAfter <= now

LEMMA NextKeepsRetry ==
    ASSUME RunAfterIsTheServers,
           TypeInv, TypeInv', LockDiscipline, MadeInv, RetryInv, [Next]_vars
    PROVE  RetryInv'
  <1> DEFINE Waits(p) == exec[p].pc \in {"throttled", "posting"}
  <1> SUFFICES ASSUME NEW r \in Refs, made'[r[1]] <= 1,
                      NEW q \in Procs, Task(q)' = r, Waits(q)'
               PROVE  heap'[r].runAfter <= now'
    BY DEF RetryInv, Single
  <1>0. /\ made[r[1]] <= 1 /\ Task(q) = r /\ Waits(q) => heap[r].runAfter <= now
        /\ made[r[1]] \in Nat /\ now \in Nat /\ now' \in Nat
        /\ heap[r].runAfter \in Nat /\ heap'[r].runAfter \in Nat
    <2>1. made[r[1]] <= 1 /\ Task(q) = r /\ Waits(q) => heap[r].runAfter <= now
      BY DEF RetryInv, Single
    <2>2. /\ made[r[1]] \in Nat /\ now \in Nat /\ now' \in Nat
          /\ heap[r].runAfter \in Nat /\ heap'[r].runAfter \in Nat
      BY BoundsAssumption DEF TypeInv, TypeOK, Refs, TaskType
    <2> QED
      BY <2>1, <2>2
  <1>1. CASE Around
    <2>1. InStage(exec[q]) /\ exec'[q].pc = exec[q].pc /\ Task(q) = r
      BY <1>1, AroundStages DEF InStage, Stages
    <2>2. heap[r].runAfter <= now /\ now <= now'
      BY <1>0, <1>1, <2>1, StillSingle DEF Around
    <2>3. ~Born(r)
      BY <2>1, UnbornUntouched DEF Born
    <2>4. Kept(r)
      BY <1>1, <2>3 DEF Around
    <2>5. heap'[r].runAfter \in {heap[r].runAfter, now}
      BY <2>4 DEF Kept, RunAfterIsTheServers
    <2> QED
      BY <1>0, <2>2, <2>5
  <1>2. ASSUME NEW p \in Procs, RecheckGoesOn(p) PROVE heap'[r].runAfter <= now'
    <2>1. q # p => exec'[q] = exec[q] /\ Task(q)' = Task(q)
      BY <1>2, GoesOnEffect DEF Task
    <2>2. q = p => heap[r].runAfter <= now
      BY <1>2, GoesOnEffect
    <2> QED
      BY <1>0, <1>2, <2>1, <2>2, GoesOnEffect
  <1>3. ASSUME NEW p \in Procs, Start(p) PROVE heap'[r].runAfter <= now'
    <2>1. q # p => exec'[q] = exec[q] /\ Task(q)' = Task(q)
      BY <1>3, StartEffect DEF Task
    <2>2. q = p => exec[q].pc = "throttled" /\ Task(q)' = Task(q)
      BY <1>3, StartEffect
    <2> QED
      BY <1>0, <1>3, <2>1, <2>2, StartEffect
  <1>4. ASSUME NEW p \in Procs, NEW resp \in Responses, PostReturns(p, resp)
        PROVE  heap'[r].runAfter <= now'
    <2>1. q # p /\ exec'[q] = exec[q] /\ Task(q)' = Task(q)
      BY <1>4, PostEffect DEF Task
    <2> QED
      BY <1>0, <1>4, <2>1, PostEffect
  <1>5. ASSUME NEW p \in Procs, Settle(p) PROVE heap'[r].runAfter <= now'
    <2>1. q # p /\ exec'[q] = exec[q] /\ Task(q)' = Task(q)
      BY <1>5, SettleEffect DEF Task, InStage, Stages
    <2>2. made[r[1]] <= 1 /\ InStage(exec[q]) /\ InStage(exec[p])
      BY <1>5, <2>1, SettleEffect DEF InStage, Stages
    <2>3. r # Task(p)
      BY <1>0, <2>1, <2>2, StagesExclude
    <2> QED
      BY <1>0, <1>5, <2>1, <2>2, <2>3, SettleEffect
  <1> QED
    BY <1>1, <1>2, <1>3, <1>4, <1>5, NextAround DEF Advances

\* No attempt is made before the error delay of the last one is over, not even
\* by a goroutine whose timer was set before the error, unless a caller moves
\* the task's runAfter itself.
THEOREM RetriesWait ==
    ASSUME RunAfterIsTheServers
    PROVE  Spec => []RetryWaits
  <1>1. Init => RetryInv
    <2> SUFFICES ASSUME Init PROVE RetryInv
      OBVIOUS
    <2>1. \A p \in Procs : exec[p].pc = "idle"
      BY DEF Init, IdleExec
    <2> QED
      BY <2>1 DEF RetryInv
  <1>2. TypeInv /\ TypeInv' /\ LockDiscipline /\ MadeInv /\ RetryInv /\ [Next]_vars
           => RetryInv'
    BY NextKeepsRetry
  <1>3. TypeInv /\ RetryInv => RetryWaits
    <2> SUFFICES ASSUME TypeInv, RetryInv, NEW p \in Procs, InCall(p), made[exec[p].id] <= 1
                 PROVE  heap[Task(p)].runAfter <= now
      BY DEF RetryWaits
    <2>1. Task(p) \in Refs /\ Task(p)[1] = exec[p].id
      BY SlotInUse DEF InCall, Task
    <2> QED
      BY <2>1 DEF RetryInv, Single, InCall
  <1> QED
    BY <1>1, <1>2, <1>3, TypeInvariant, LocksAreDisciplined, PointersLeadToMade, PTL DEF Spec

-----------------------------------------------------------------------------
(* Completed tasks.                                                        *)

\* Only worker calls complete tasks: no update does and no task has a key.
WorkersComplete ==
    /\ \A u \in Updates : u.complete # Keep => ~u.complete
    /\ \A id \in Ids : Key[id] = NoKey

NoMerge(e) == e.jobs \cap {"match", "merge"} = {}

\* Without keys nothing is ever matched or merged.
NoMerges == \A p \in Procs : NoMerge(exec[p])

LEMMA NoMergeSlot ==
    ASSUME TypeInv, NoMerges, NEW p \in Procs, NEW e, exec' = [exec EXCEPT ![p] = e],
           NoMerge(e)
    PROVE  NoMerges'
  BY DEF TypeInv, TypeOK, NoMerges, NoMerge

LEMMA FreedNoMerge ==
    ASSUME NEW e, NoMerge(e)
    PROVE  NoMerge(Freed(e))
  BY DEF NoMerge, Freed, IdleExec

LEMMA ExecuteKeepsNoMerges ==
    ASSUME WorkersComplete, TypeInv, NoMerges, NEW p \in Procs, ExecuteStep(p)
    PROVE  NoMerges'
  <1>0. exec[p] \in ExecType /\ NoMerge(exec[p])
    BY DEF TypeInv, TypeOK, NoMerges
  <1>1. ASSUME NEW e, exec' = [exec EXCEPT ![p] = e], e.jobs = exec[p].jobs
        PROVE  NoMerges'
    BY <1>0, <1>1, NoMergeSlot DEF NoMerge
  <1>2. CASE Execute(p)
    BY <1>0, <1>1, <1>2 DEF Execute, ExecType
  <1>3. CASE LockPanics(p)
    BY <1>3 DEF LockPanics, NoMerges
  <1>4. CASE LockFails(p)
    <2>1. NoMerge(IdleExec)
      BY DEF NoMerge, IdleExec
    <2> QED
      BY <1>4, <2>1, NoMergeSlot DEF LockFails
  <1>5. CASE LockAcquired(p) \/ RecheckEnds(p) \/ RecheckGoesOn(p) \/ Start(p)
    BY <1>0, <1>1, <1>5 DEF LockAcquired, RecheckEnds, RecheckGoesOn, Start, ExecType
  <1>6. ASSUME NEW resp \in Responses, PostReturns(p, resp) PROVE NoMerges'
    BY <1>0, <1>1, <1>6 DEF PostReturns, ExecType
  <1>7. CASE Settle(p)
    BY <1>0, <1>1, <1>7 DEF Settle, ExecType
  <1>8. CASE CreateChild(p)
    BY <1>0, <1>1, <1>8 DEF CreateChild, ExecType
  <1>9. CASE Finish(p)
    <2> DEFINE jobs == DelayJobs(exec[p].resp) \cup
                           (IF heap[Task(p)].complete THEN DoneJobs(exec[p].id) ELSE {})
               e == [exec[p] EXCEPT !.pc = "unlock", !.jobs = jobs]
    <2>1. exec' = [exec EXCEPT ![p] = e]
      BY <1>9 DEF Finish
    <2>2. Key[exec[p].id] = NoKey
      BY <1>9, SlotInUse DEF Finish, At, WorkersComplete
    <2>3. jobs \cap {"match", "merge"} = {}
      BY <2>2 DEF DelayJobs, DoneJobs
    <2> HIDE DEF jobs
    <2>4. e.jobs = jobs
      BY <1>0 DEF ExecType
    <2> HIDE DEF e
    <2> QED
      BY <2>1, <2>3, <2>4, NoMergeSlot DEF NoMerge
  <1>10. CASE Unlock(p)
    <2> DEFINE e == [exec[p] EXCEPT !.pc = "background", !.lock = 0]
    <2>1. e.jobs = exec[p].jobs /\ exec' = [exec EXCEPT ![p] = Freed(e)]
      BY <1>0, <1>10 DEF Unlock, ExecType
    <2> HIDE DEF e
    <2>2. NoMerge(e)
      BY <1>0, <2>1 DEF NoMerge
    <2> QED
      BY <2>1, <2>2, FreedNoMerge, NoMergeSlot
  <1> QED
    BY <1>2, <1>3, <1>4, <1>5, <1>6, <1>7, <1>8, <1>9, <1>10 DEF ExecuteStep

LEMMA NextKeepsNoMerges ==
    ASSUME WorkersComplete, TypeInv, NoMerges, [Next]_vars
    PROVE  NoMerges'
  <1>1. ASSUME exec' = exec PROVE NoMerges'
    BY <1>1 DEF NoMerges
  <1>2. ASSUME NEW id \in Ids, EvaluateDrops(id) PROVE NoMerges'
    BY <1>1, <1>2 DEF EvaluateDrops
  <1>3. ASSUME NEW id \in Ids, NEW p \in Procs, EvaluateExecutes(id, p) PROVE NoMerges'
    <2> DEFINE e == [IdleExec EXCEPT !.pc = "execute", !.id = id, !.task = stored[id]]
    <2>1. NoMerge(e) /\ exec' = [exec EXCEPT ![p] = e]
      BY <1>3 DEF EvaluateExecutes, NoMerge, IdleExec
    <2> HIDE DEF e
    <2> QED
      BY <2>1, NoMergeSlot
  <1>4. ASSUME NEW p \in Procs, BackgroundStep(p) PROVE NoMerges'
    <2>0. exec[p] \in ExecType /\ NoMerge(exec[p])
      BY DEF TypeInv, TypeOK, NoMerges
    <2>1. ~HasJob(p, "match") /\ ~HasJob(p, "merge")
      BY <2>0 DEF HasJob, NoMerge
    <2>2. ASSUME NEW job, JobDone(p, job) PROVE NoMerges'
      <3> DEFINE e == [exec[p] EXCEPT !.jobs = exec[p].jobs \ {job}]
      <3>1. e.jobs = exec[p].jobs \ {job} /\ exec' = [exec EXCEPT ![p] = Freed(e)]
        BY <2>0, <2>2 DEF JobDone, ExecType
      <3> HIDE DEF e
      <3>2. NoMerge(e)
        BY <2>0, <3>1 DEF NoMerge
      <3> QED
        BY <3>1, <3>2, FreedNoMerge, NoMergeSlot
    <2> QED
      BY <1>4, <2>1, <2>2
      DEF BackgroundStep, NotifyChildren, ApplyChildrenDelay, ApplyWorkgroupDelay,
          FindDuplicates, MergeOne
  <1>5. CASE ApiCall
    BY <1>1, <1>5, ApiLeavesLocks
  <1>6. CASE Tick \/ Rest \/ UNCHANGED vars
    BY <1>1, <1>6 DEF Tick, Rest, vars
  <1> QED
    BY <1>2, <1>3, <1>4, <1>5, <1>6, ExecuteKeepsNoMerges DEF Next

\* A task stays incomplete while somebody is in an attempt at it.
CompleteInv ==
    \A r \in Refs :
        Single(r) => \A p \in Procs : Task(p) = r /\ InStage(exec[p]) => ~heap[r].complete

LEMMA NextKeepsIncomplete ==
    ASSUME WorkersComplete, NoMerges,
           TypeInv, TypeInv', LockDiscipline, MadeInv, CompleteInv, [Next]_vars
    PROVE  CompleteInv'
  <1> SUFFICES ASSUME NEW r \in Refs, made'[r[1]] <= 1,
                      NEW q \in Procs, Task(q)' = r, InStage(exec'[q])
               PROVE  ~heap'[r].complete
    BY DEF CompleteInv, Single
  <1>0. /\ made[r[1]] <= 1 /\ Task(q) = r /\ InStage(exec[q]) => ~heap[r].complete
        /\ made[r[1]] \in Nat
    BY BoundsAssumption DEF CompleteInv, Single, TypeInv, TypeOK, Refs
  <1>1. CASE Around
    <2>1. InStage(exec[q]) /\ Task(q) = r
      BY <1>1, AroundStages
    <2>2. ~heap[r].complete
      BY <1>0, <1>1, <2>1, StillSingle
    <2>3. ~Born(r)
      BY <2>1, UnbornUntouched DEF Born
    <2>4. Kept(r)
      BY <1>1, <2>3 DEF Around
    <2>5. ~ \E p \in Procs : "merge" \in exec[p].jobs
      BY DEF NoMerges, NoMerge
    <2> QED
      BY <2>2, <2>4, <2>5 DEF Kept, WorkersComplete
  <1>2. ASSUME NEW p \in Procs, RecheckGoesOn(p) PROVE ~heap'[r].complete
    <2>1. q # p => exec'[q] = exec[q] /\ Task(q)' = Task(q)
      BY <1>2, GoesOnEffect DEF Task
    <2>2. q = p => ~heap[r].complete
      BY <1>2, GoesOnEffect
    <2> QED
      BY <1>0, <1>2, <2>1, <2>2, GoesOnEffect
  <1>3. ASSUME NEW p \in Procs, Start(p) PROVE ~heap'[r].complete
    <2>1. q # p => exec'[q] = exec[q] /\ Task(q)' = Task(q)
      BY <1>3, StartEffect DEF Task
    <2>2. q = p => InStage(exec[q]) /\ Task(q)' = Task(q)
      BY <1>3, StartEffect DEF InStage, Stages
    <2> QED
      BY <1>0, <1>3, <2>1, <2>2, StartEffect
  <1>4. ASSUME NEW p \in Procs, NEW resp \in Responses, PostReturns(p, resp)
        PROVE  ~heap'[r].complete
    <2>1. q # p => exec'[q] = exec[q] /\ Task(q)' = Task(q)
      BY <1>4, PostEffect DEF Task
    <2>2. q = p => InStage(exec[q]) /\ Task(q)' = Task(q)
      BY <1>4, PostEffect DEF InStage, Stages
    <2> QED
      BY <1>0, <1>4, <2>1, <2>2, PostEffect
  <1>5. ASSUME NEW p \in Procs, Settle(p) PROVE ~heap'[r].complete
    <2>1. q # p /\ exec'[q] = exec[q] /\ Task(q)' = Task(q)
      BY <1>5, SettleEffect DEF Task
    <2>2. made[r[1]] <= 1 /\ InStage(exec[q]) /\ InStage(exec[p])
      BY <1>5, <2>1, SettleEffect DEF InStage, Stages
    <2>3. r # Task(p)
      BY <1>0, <2>1, <2>2, StagesExclude
    <2> QED
      BY <1>0, <1>5, <2>1, <2>2, <2>3, SettleEffect
  <1> QED
    BY <1>1, <1>2, <1>3, <1>4, <1>5, NextAround DEF Advances

\* However many goroutines were started for a task, its worker is not called
\* once the task is complete, if only worker calls complete tasks.
THEOREM CompletedNotCalled ==
    ASSUME WorkersComplete
    PROVE  Spec => []CompleteNotCalled
  <1>1. Init => NoMerges /\ CompleteInv
    <2> SUFFICES ASSUME Init PROVE NoMerges /\ CompleteInv
      OBVIOUS
    <2>1. \A p \in Procs : exec[p] = IdleExec
      BY DEF Init
    <2> QED
      BY <2>1 DEF IdleExec, NoMerges, NoMerge, CompleteInv, InStage, Stages
  <1>2. TypeInv /\ NoMerges /\ [Next]_vars => NoMerges'
    BY NextKeepsNoMerges
  <1>3. TypeInv /\ TypeInv' /\ LockDiscipline /\ MadeInv /\ NoMerges /\ CompleteInv
           /\ [Next]_vars => CompleteInv'
    BY NextKeepsIncomplete
  <1>4. TypeInv /\ CompleteInv => CompleteNotCalled
    <2> SUFFICES ASSUME TypeInv, CompleteInv, NEW p \in Procs, InCall(p), made[exec[p].id] <= 1
                 PROVE  ~heap[Task(p)].complete
      BY DEF CompleteNotCalled
    <2>1. Task(p) \in Refs /\ Task(p)[1] = exec[p].id
      BY SlotInUse DEF InCall, Task
    <2> QED
      BY <2>1 DEF CompleteInv, Single, InCall, InStage, Stages
  <1> QED
    BY <1>1, <1>2, <1>3, <1>4, TypeInvariant, LocksAreDisciplined, PointersLeadToMade, PTL
    DEF Spec

-----------------------------------------------------------------------------
(* Tasks created anew.                                                     *)

\* Deleting and creating tasks while goroutines of the old ones are alive lets
\* no more worker calls run for an id than objects were made under it: the
\* semaphores that the callers hold are as many objects.
THEOREM CallsStayWithinObjects == Spec => []CallsWithinObjects
  <1>1. ASSUME TypeInv, LockDiscipline, MadeInv PROVE CallsWithinObjects
    <2> SUFFICES ASSUME NEW id \in Ids
                 PROVE  Cardinality({p \in Procs : InCall(p) /\ exec[p].id = id}) <= made[id]
      BY DEF CallsWithinObjects
    <2> DEFINE callers == {p \in Procs : InCall(p) /\ exec[p].id = id}
               lock == [p \in callers |-> exec[p].lock]
    <2>1. made[id] \in Nat
      BY <1>1, BoundsAssumption DEF TypeInv, TypeOK
    <2>2. ASSUME NEW p \in callers
          PROVE  Holding(p) /\ exec[p].lock \in 1 .. made[id]
      <3>1. Holding(p) /\ exec[p].pc # "idle"
        BY DEF InCall, Holding, HoldingPcs
      <3>2. exec[p].lock \in 1 .. MaxInc
        BY <1>1, <3>1 DEF LockDiscipline, Lock, Refs
      <3>3. exec[p].lock <= made[id]
        BY <1>1, <3>1 DEF MadeInv
      <3> QED
        BY <2>1, <3>1, <3>2, <3>3, BoundsAssumption
    <2>3. ASSUME NEW p \in callers, NEW q \in callers, exec[p].lock = exec[q].lock
          PROVE  p = q
      <3>1. Lock(p) = Lock(q)
        BY <2>3 DEF Lock
      <3> QED
        BY <1>1, <2>2, <3>1 DEF LockDiscipline
    <2>4. lock \in Injection(callers, 1 .. made[id])
      BY <2>2, <2>3 DEF Injection, IsInjective
    <2>5. IsFiniteSet(1 .. made[id]) /\ Cardinality(1 .. made[id]) = made[id]
      BY <2>1, FS_Interval
    <2> HIDE DEF callers, lock
    <2>6. Cardinality(callers) <= made[id]
      BY <2>4, <2>5, FS_Injection
    <2> QED
      BY <2>6 DEF callers
  <1> QED
    BY <1>1, TypeInvariant, LocksAreDisciplined, PointersLeadToMade, PTL

-----------------------------------------------------------------------------
(* The order within a family.                                              *)

\* Tasks are created after the parents they name: those created by callers
\* after preloaded tasks, a child of a response after its creator and its
\* elder siblings.
ParentsComeFirst ==
    /\ \A id \in Preloaded : Blueprint[id].parents \subseteq Preloaded
    /\ "create" \in ApiOps => \A id \in Ids : Blueprint[id].parents \subseteq Preloaded
    /\ \A id \in Ids : \A i \in DOMAIN Continuation[id] :
          \A q \in Blueprint[Continuation[id][i]].parents :
             \/ q = id
             \/ q \in Preloaded
             \/ \E j \in 1 .. (i - 1) : Continuation[id][j] = q

\* Only responses make tasks depend on a task that has one: every child is
\* returned by one creator, waits for nothing outside the response, and no
\* other task waits for that creator.
FamiliesApart ==
    /\ ApiOps = {}
    /\ \A x, y \in Ids : \A i \in DOMAIN Continuation[x], j \in DOMAIN Continuation[y] :
          Continuation[x][i] = Continuation[y][j] => x = y
    /\ \A x \in Ids : \A i \in DOMAIN Continuation[x] :
          /\ Continuation[x][i] \notin Preloaded
          /\ \A q \in Blueprint[Continuation[x][i]].parents :
                q = x \/ \E j \in DOMAIN Continuation[x] : Continuation[x][j] = q
    /\ \A x, t \in Ids :
          x \in Blueprint[t].parents /\ Continuation[x] # <<>> =>
             \E i \in DOMAIN Continuation[x] : Continuation[x][i] = t

-----------------------------------------------------------------------------
(* The inductive invariants.                                               *)

\* While it creates children, a goroutine is at some place in the list of its
\* task, and those before that place are stored.
Resumes(e, s) ==
    LET all  == Continuation[e.id]
        done == Len(all) - Len(e.todo)
    IN  /\ e.pc = "finishing"
        /\ done >= 0
        /\ \A i \in 1 .. Len(e.todo) : e.todo[i] = all[done + i]
        /\ \A j \in 1 .. done : s[all[j]] # 0

\* A goroutine works on the one object that is stored under its id.
Placed(e, s) ==
    e.pc # "idle" =>
        /\ s[e.id] # 0
        /\ e.task = s[e.id]
        /\ e.todo # <<>> => Resumes(e, s)

PlacedInv ==
    /\ \A id \in Ids : made[id] = stored[id] /\ made[id] <= 1
    /\ \A id \in Preloaded : stored[id] # 0
    /\ \A p \in Procs : Placed(exec[p], stored)

\* Whoever creates children has made those before its place in the list; the
\* object that is stored is the last one made; the parents of the first object
\* under an id were made before it.
OrderInv ==
    /\ \A id \in Ids : stored[id] \in {0, made[id]}
    /\ \A id \in Preloaded : made[id] # 0
    /\ \A p \in Procs :
          exec[p].pc # "idle" /\ exec[p].todo # <<>> => Resumes(exec[p], made)
    /\ \A id \in Ids : stored[id] = 1 => \A q \in heap[<<id, 1>>].parents : made[q] # 0

\* A goroutine that has read the parents has all that are still there.
HasRead(e, s, h) ==
    e.pc \in {"timer", "locked"} /\ s[e.id] = 1 =>
        \A q \in h[<<e.id, 1>>].parents : s[q] = 1 => <<q, 1>> \in e.parents

ReadInv == \A p \in Procs : HasRead(exec[p], stored, heap)

\* The goroutine may still call the worker or create a child.
Unfinished(e) ==
    \/ e.pc \in {"throttled", "posting", "settling"}
    \/ e.pc # "idle" /\ e.todo # <<>>

\* The task is complete and nobody can still be at work on it.
Closed(x) ==
    /\ IsStored(x) /\ StoredTask(x).complete
    /\ \A p \in Procs : exec[p].pc # "idle" /\ exec[p].id = x => ~Unfinished(exec[p])

Started(t) ==
    evals[t] > 0 \/ \E p \in Procs : exec[p].pc # "idle" /\ exec[p].id = t

\* No child of a response is evaluated before its creator is closed: the one
\* who notifies children of a task does so when the task is closed, and
\* parents are only the declared ones and creators.
ClosedInv ==
    /\ \A x \in Ids : \A i \in DOMAIN Continuation[x] :
          Started(Continuation[x][i]) => Closed(x)
    /\ \A x \in Ids, p \in Procs :
          exec[p].id = x /\ "notify" \in exec[p].jobs => Closed(x)
    /\ \A t \in Ids : IsStored(t) =>
          \A y \in StoredTask(t).parents :
             \/ y \in Blueprint[t].parents
             \/ y \in Ids /\ \E i \in DOMAIN Continuation[y] : Continuation[y][i] = t

-----------------------------------------------------------------------------
(* What a step does.                                                       *)

\* From f to e: a slot is freed, taken for a task to be evaluated, or goes on
\* with its task.
Continues(e, f) ==
    e.pc # "idle" =>
        \/ /\ f.pc = "idle" /\ e.pc = "execute"
           /\ evals[e.id] > 0 /\ stored[e.id] # 0 /\ e.task = stored[e.id]
           /\ e.todo = <<>> /\ e.jobs = {}
        \/ f.pc # "idle" /\ e.id = f.id /\ e.task \in {f.task, stored[f.id]}

\* The parents are read once, and the check under the lock goes by them.
ReadsOn(e, f) ==
    /\ e.pc \in {"timer", "locked"} =>
          \/ f.pc \in {"timer", "locked"} /\ e.parents = f.parents
          \/ f.pc = "execute" /\ e.parents = GetTaskParents(f.id)
    /\ e.pc = "throttled" =>
          \/ f.pc = "throttled"
          \/ f.pc = "locked" /\ Executable(StoredTask(f.id), f.parents)
    /\ e.pc \in {"posting", "settling"} => f.pc \in {"throttled", "posting", "settling"}

\* The children are those of the response, created one after the other.
CreatesOn(e, f) ==
    e.todo # <<>> =>
        \/ e.todo = f.todo /\ (f.pc = "finishing" => e.pc = "finishing")
        \/ f.pc = "settling" /\ e.pc = "finishing" /\ e.todo = Continuation[f.id]
        \/ /\ e.pc = "finishing" /\ f.todo # <<>> /\ e.todo = Tail(f.todo)
           /\ stored'[Head(f.todo)] # 0

\* Only the end of an attempt at a task that is complete notifies its children.
NotifiesOn(e, f) ==
    "notify" \in e.jobs =>
        \/ "notify" \in f.jobs
        \/ /\ f.pc = "finishing" /\ heap[<<f.id, f.task>>].complete
           /\ e.pc = "unlock" /\ e.todo = <<>>

Onward(e, f) ==
    Continues(e, f) /\ ReadsOn(e, f) /\ CreatesOn(e, f) /\ NotifiesOn(e, f)

\* What a step may do to an object that is stored.
Ripens(r) ==
    /\ heap'[r].parents = heap[r].parents
    /\ heap[r].complete => heap'[r].complete

\* A task is created by a caller or by the goroutine of its creator.
Adopted(id) ==
    /\ stored[id] = 0
    /\ stored'[id] = made[id] + 1 /\ made'[id] = made[id] + 1
    /\ \/ /\ "create" \in ApiOps
          /\ heap'[<<id, stored'[id]>>].parents = Blueprint[id].parents
       \/ \E p \in Procs :
             /\ exec[p].pc = "finishing" /\ exec[p].todo # <<>> /\ id = Head(exec[p].todo)
             /\ heap'[<<id, stored'[id]>>].parents = Blueprint[id].parents \cup {exec[p].id}

Grows ==
    \A id \in Ids :
        \/ /\ stored'[id] = stored[id] /\ made'[id] = made[id]
           /\ IsStored(id) => Ripens(Ref(id))
        \/ Adopted(id)

\* Without API calls a task is evaluated after an attempt at it, or when a
\* parent notifies it.
Triggered ==
    ApiOps = {} =>
        \A id \in Ids : evals'[id] > 0 =>
            \/ evals[id] > 0
            \/ \E p \in Procs : exec[p].pc # "idle" /\ exec[p].id = id
            \/ \E p \in Procs : /\ "notify" \in exec[p].jobs
                                /\ IsStored(id) /\ exec[p].id \in StoredTask(id).parents

Orderly == (\A p \in Procs : Onward(exec'[p], exec[p])) /\ Grows /\ Triggered

\* The other calls of the API: a task is taken out of the storage or its fields
\* are written, but not its parents.
Revises ==
    /\ calls' = calls + 1 /\ calls \in Nat
    /\ exec' = exec /\ made' = made
    /\ \A id \in Ids : stored'[id] \in {0, stored[id]}
    /\ \A r \in Refs : heap'[r].parents = heap[r].parents

LEMMA StayOnward ==
    ASSUME NEW f
    PROVE  Onward(f, f)
  <1>1. Continues(f, f)
    BY DEF Continues
  <1>2. ReadsOn(f, f)
    BY DEF ReadsOn
  <1>3. CreatesOn(f, f)
    BY Zenon DEF CreatesOn
  <1>4. NotifiesOn(f, f)
    BY Zenon DEF NotifiesOn
  <1> QED
    BY <1>1, <1>2, <1>3, <1>4 DEF Onward

LEMMA IdleOnward ==
    ASSUME NEW f
    PROVE  Onward(IdleExec, f)
  BY DEF Onward, Continues, ReadsOn, CreatesOn, NotifiesOn, IdleExec

LEMMA FreedOnward ==
    ASSUME NEW e, NEW f, Onward(e, f)
    PROVE  Onward(Freed(e), f)
  BY IdleOnward DEF Freed

LEMMA SlotOnward ==
    ASSUME TypeInv, NEW p \in Procs, NEW e, exec' = [exec EXCEPT ![p] = e],
           Onward(e, exec[p])
    PROVE  \A q \in Procs : Onward(exec'[q], exec[q])
  <1>1. \A q \in Procs : exec'[q] = IF q = p THEN e ELSE exec[q]
    BY DEF TypeInv, TypeOK
  <1> QED
    BY <1>1, StayOnward

LEMMA SlotsOnward ==
    ASSUME exec' = exec
    PROVE  \A q \in Procs : Onward(exec'[q], exec[q])
  BY StayOnward

\* The frame of the tasks.
LEMMA TasksGrow ==
    ASSUME stored' = stored, made' = made, TypeInv, \A r \in Refs : Ripens(r)
    PROVE  Grows
  BY StoredTaskType DEF Grows

LEMMA TasksStay ==
    ASSUME stored' = stored, made' = made, heap' = heap
    PROVE  Grows
  BY DEF Grows, Ripens

LEMMA EvalsStay ==
    ASSUME evals' = evals
    PROVE  Triggered
  BY DEF Triggered

\* An evaluation of the task of a goroutine.
LEMMA TriggerOwn ==
    ASSUME TypeInv, NEW p \in Procs, exec[p].pc # "idle", NEW ids, ids \subseteq {exec[p].id},
           evals' = Trigger(ids)
    PROVE  Triggered
  BY DEF Triggered, Trigger

\* SaveTask with the parents of the blueprint and perhaps the creator.
LEMMA SaveGrows ==
    ASSUME TypeInv, NEW id \in Ids, NEW task, SaveNewTask(id, task),
           \/ "create" \in ApiOps /\ task.parents = Blueprint[id].parents
           \/ \E p \in Procs :
                 /\ exec[p].pc = "finishing" /\ exec[p].todo # <<>> /\ id = Head(exec[p].todo)
                 /\ task.parents = Blueprint[id].parents \cup {exec[p].id}
    PROVE  Grows /\ stored'[id] # 0
  <1>1. CASE IsStored(id)
    <2>1. stored' = stored /\ made' = made /\ heap' = heap
      BY <1>1 DEF SaveNewTask
    <2> QED
      BY <1>1, <2>1, TasksStay DEF IsStored
  <1>2. CASE ~IsStored(id)
    <2> DEFINE new == <<id, made[id] + 1>>
    <2>1. /\ heap' = [heap EXCEPT ![new] = task]
          /\ made' = [made EXCEPT ![id] = @ + 1]
          /\ stored' = [stored EXCEPT ![id] = made[id] + 1]
          /\ made[id] < MaxInc
      BY <1>2 DEF SaveNewTask
    <2>2. made[id] \in Nat /\ made[id] + 1 \in 1 .. MaxInc
      BY <2>1, BoundsAssumption DEF TypeInv, TypeOK
    <2>3. new \in Refs
      BY <2>2 DEF Refs
    <2>4. /\ stored'[id] = made[id] + 1 /\ made'[id] = made[id] + 1
          /\ \A t \in Ids \ {id} : stored'[t] = stored[t] /\ made'[t] = made[t]
      BY <2>1 DEF TypeInv, TypeOK
    <2>5. heap'[new] = task /\ \A r \in Refs : r[1] # id => heap'[r] = heap[r]
      BY <2>1, <2>3 DEF TypeInv, TypeOK
    <2>6. Adopted(id)
      BY <1>2, <2>4, <2>5 DEF Adopted, IsStored
    <2>7. ASSUME NEW t \in Ids \ {id}, IsStored(t) PROVE Ripens(Ref(t))
      <3>1. Ref(t) \in Refs /\ Ref(t)[1] # id
        BY <2>7, StoredTaskType DEF Ref
      <3> QED
        BY <2>5, <3>1 DEF Ripens
    <2> QED
      BY <2>2, <2>4, <2>6, <2>7 DEF Grows
  <1> QED
    BY <1>1, <1>2

-----------------------------------------------------------------------------
(* The steps of the goroutines.                                            *)

\* Up to the throttler, and the unlock, objects are left alone.
LEMMA LockingOrderly ==
    ASSUME TypeInv, NEW p \in Procs,
           \/ Execute(p) \/ LockPanics(p) \/ LockFails(p) \/ LockAcquired(p)
           \/ RecheckEnds(p) \/ RecheckGoesOn(p) \/ Unlock(p)
    PROVE  Orderly
  <1>1. CASE LockPanics(p)
    BY <1>1, SlotsOnward, TasksStay, EvalsStay DEF LockPanics, Orderly
  <1>2. CASE LockFails(p)
    <2>1. \A q \in Procs : Onward(exec'[q], exec[q])
      BY <1>2, SlotOnward, IdleOnward DEF LockFails
    <2> QED
      BY <1>2, <2>1, TasksStay, EvalsStay DEF LockFails, Orderly
  <1>3. CASE Execute(p)
    <2> DEFINE e == [exec[p] EXCEPT !.pc = "timer",
                                    !.parents = GetTaskParents(exec[p].id),
                                    !.timer = Later(now, heap[Task(p)].runAfter)]
    <2>1. exec[p].pc = "execute" /\ exec[p] \in ExecType
      BY <1>3, SlotInUse DEF Execute, At
    <2>2. /\ e.pc = "timer" /\ e.id = exec[p].id /\ e.task = exec[p].task
          /\ e.todo = exec[p].todo /\ e.jobs = exec[p].jobs
          /\ e.parents = GetTaskParents(exec[p].id)
      BY <2>1 DEF ExecType
    <2>3. exec' = [exec EXCEPT ![p] = e]
      BY <1>3 DEF Execute
    <2> HIDE DEF e
    <2>4. Onward(e, exec[p])
      BY <2>1, <2>2 DEF Onward, Continues, ReadsOn, CreatesOn, NotifiesOn
    <2>5. \A q \in Procs : Onward(exec'[q], exec[q])
      BY <2>3, <2>4, SlotOnward
    <2> QED
      BY <1>3, <2>5, TasksStay, EvalsStay DEF Execute, Orderly
  <1>4. CASE LockAcquired(p)
    <2> DEFINE e == [exec[p] EXCEPT !.pc = "locked", !.lock = stored[exec[p].id]]
    <2>1. exec[p].pc = "timer" /\ exec[p] \in ExecType
      BY <1>4, SlotInUse DEF LockAcquired, TimerFires, At
    <2>2. /\ e.pc = "locked" /\ e.id = exec[p].id /\ e.task = exec[p].task
          /\ e.todo = exec[p].todo /\ e.jobs = exec[p].jobs /\ e.parents = exec[p].parents
      BY <2>1 DEF ExecType
    <2>3. exec' = [exec EXCEPT ![p] = e]
      BY <1>4 DEF LockAcquired
    <2> HIDE DEF e
    <2>4. Onward(e, exec[p])
      BY <2>1, <2>2 DEF Onward, Continues, ReadsOn, CreatesOn, NotifiesOn
    <2>5. \A q \in Procs : Onward(exec'[q], exec[q])
      BY <2>3, <2>4, SlotOnward
    <2> QED
      BY <1>4, <2>5, TasksStay, EvalsStay DEF LockAcquired, Orderly
  <1>5. CASE RecheckEnds(p)
    <2> DEFINE e == [exec[p] EXCEPT !.pc = "unlock"]
    <2>1. exec[p].pc = "locked" /\ exec[p] \in ExecType
      BY <1>5, SlotInUse DEF RecheckEnds, At
    <2>2. /\ e.pc = "unlock" /\ e.id = exec[p].id /\ e.task = exec[p].task
          /\ e.todo = exec[p].todo /\ e.jobs = exec[p].jobs
      BY <2>1 DEF ExecType
    <2>3. exec' = [exec EXCEPT ![p] = e]
      BY <1>5 DEF RecheckEnds
    <2> HIDE DEF e
    <2>4. Onward(e, exec[p])
      BY <2>1, <2>2 DEF Onward, Continues, ReadsOn, CreatesOn, NotifiesOn
    <2>5. \A q \in Procs : Onward(exec'[q], exec[q])
      BY <2>3, <2>4, SlotOnward
    <2>6. evals' = evals \/ evals' = Trigger({exec[p].id})
      BY <1>5 DEF RecheckEnds
    <2>7. Triggered
      BY <2>1, <2>6, EvalsStay, TriggerOwn
    <2> QED
      BY <1>5, <2>5, <2>7, TasksStay DEF RecheckEnds, Orderly
  <1>6. CASE RecheckGoesOn(p)
    <2> DEFINE e == [exec[p] EXCEPT !.pc = "throttled", !.task = stored[exec[p].id]]
    <2>1. exec[p].pc = "locked" /\ exec[p] \in ExecType
      BY <1>6, SlotInUse DEF RecheckGoesOn, At
    <2>2. /\ e.pc = "throttled" /\ e.id = exec[p].id /\ e.task = stored[exec[p].id]
          /\ e.todo = exec[p].todo /\ e.jobs = exec[p].jobs
      BY <2>1 DEF ExecType
    <2>3. exec' = [exec EXCEPT ![p] = e] /\ Executable(StoredTask(exec[p].id), exec[p].parents)
      BY <1>6 DEF RecheckGoesOn, StillFit
    <2> HIDE DEF e
    <2>4. Onward(e, exec[p])
      BY <2>1, <2>2, <2>3 DEF Onward, Continues, ReadsOn, CreatesOn, NotifiesOn
    <2>5. \A q \in Procs : Onward(exec'[q], exec[q])
      BY <2>3, <2>4, SlotOnward
    <2> QED
      BY <1>6, <2>5, TasksStay, EvalsStay DEF RecheckGoesOn, Orderly
  <1>7. CASE Unlock(p)
    <2> DEFINE e == [exec[p] EXCEPT !.pc = "background", !.lock = 0]
    <2>1. exec[p].pc = "unlock" /\ exec[p] \in ExecType
      BY <1>7, SlotInUse DEF Unlock, At
    <2>2. /\ e.pc = "background" /\ e.id = exec[p].id /\ e.task = exec[p].task
          /\ e.todo = exec[p].todo /\ e.jobs = exec[p].jobs
      BY <2>1 DEF ExecType
    <2>3. exec' = [exec EXCEPT ![p] = Freed(e)]
      BY <1>7 DEF Unlock
    <2> HIDE DEF e
    <2>4. Onward(e, exec[p])
      BY <2>1, <2>2 DEF Onward, Continues, ReadsOn, CreatesOn, NotifiesOn
    <2>5. Onward(Freed(e), exec[p])
      BY <2>4, FreedOnward
    <2>6. \A q \in Procs : Onward(exec'[q], exec[q])
      BY <2>3, <2>5, SlotOnward
    <2> QED
      BY <1>7, <2>6, TasksStay, EvalsStay DEF Unlock, Orderly
  <1> QED
    BY <1>1, <1>2, <1>3, <1>4, <1>5, <1>6, <1>7

\* What an attempt writes into its task.
LEMMA SettledRipens ==
    ASSUME TypeInv, NEW p \in Procs, exec[p].pc # "idle"
    PROVE  /\ Result(p).parents = heap[Task(p)].parents
           /\ heap[Task(p)].complete => Result(p).complete
  <1> DEFINE output == IF exec[p].resp.ok THEN exec[p].id ELSE NoOutput
             tried == Attempted(heap[Task(p)], exec[p].left, output)
  <1>1. heap[Task(p)] \in TaskType
    BY SlotInUse
  <1>2. /\ tried.parents = heap[Task(p)].parents /\ tried.complete = heap[Task(p)].complete
        /\ [tried EXCEPT !.complete = TRUE].parents = heap[Task(p)].parents
        /\ [tried EXCEPT !.complete = TRUE].complete = TRUE
        /\ Failed(tried, now).parents = heap[Task(p)].parents
        /\ Failed(tried, now).complete = heap[Task(p)].complete
    BY <1>1 DEF Attempted, Failed, TaskType
  <1>3. Result(p) = IF exec[p].resp.ok THEN [tried EXCEPT !.complete = TRUE]
                    ELSE Failed(tried, now)
    BY DEF Result
  <1> HIDE DEF tried
  <1> QED
    BY <1>2, <1>3

\* A step that writes through the pointer of a goroutine.
LEMMA WriteRipens ==
    ASSUME TypeInv, NEW p \in Procs, exec[p].pc # "idle", NEW task,
           heap' = [heap EXCEPT ![Task(p)] = task],
           task.parents = heap[Task(p)].parents, heap[Task(p)].complete => task.complete
    PROVE  \A r \in Refs : Ripens(r)
  <1>1. Task(p) \in Refs
    BY SlotInUse
  <1>2. \A r \in Refs : heap'[r] = IF r = Task(p) THEN task ELSE heap[r]
    BY <1>1 DEF TypeInv, TypeOK
  <1> QED
    BY <1>2 DEF Ripens

\* From the worker call to the end of the attempt.
LEMMA CallingOrderly ==
    ASSUME TypeInv, NEW p \in Procs,
           \/ Start(p) \/ (\E resp \in Responses : PostReturns(p, resp)) \/ Settle(p)
           \/ CreateChild(p) \/ Finish(p)
    PROVE  Orderly
  <1>1. CASE Start(p)
    <2> DEFINE e == [exec[p] EXCEPT !.pc = "posting"]
               task == [heap[Task(p)] EXCEPT !.busy = TRUE]
    <2>1. exec[p].pc = "throttled" /\ exec[p] \in ExecType /\ heap[Task(p)] \in TaskType
      BY <1>1, SlotInUse DEF Start, At
    <2>2. /\ e.pc = "posting" /\ e.id = exec[p].id /\ e.task = exec[p].task
          /\ e.todo = exec[p].todo /\ e.jobs = exec[p].jobs
      BY <2>1 DEF ExecType
    <2>3. exec' = [exec EXCEPT ![p] = e] /\ heap' = [heap EXCEPT ![Task(p)] = task]
      BY <1>1 DEF Start
    <2>4. task.parents = heap[Task(p)].parents /\ task.complete = heap[Task(p)].complete
      BY <2>1 DEF TaskType
    <2> HIDE DEF e, task
    <2>5. Onward(e, exec[p])
      BY <2>1, <2>2 DEF Onward, Continues, ReadsOn, CreatesOn, NotifiesOn
    <2>6. \A q \in Procs : Onward(exec'[q], exec[q])
      BY <2>3, <2>5, SlotOnward
    <2>7. \A r \in Refs : Ripens(r)
      BY <2>1, <2>3, <2>4, WriteRipens
    <2>8. Grows
      BY <1>1, <2>7, TasksGrow DEF Start
    <2> QED
      BY <1>1, <2>6, <2>8, EvalsStay DEF Start, Orderly
  <1>2. ASSUME NEW resp \in Responses, PostReturns(p, resp) PROVE Orderly
    <2> DEFINE e == [exec[p] EXCEPT !.pc = "settling", !.resp = resp, !.parents = {},
                                    !.timer = 0, !.left = heap[Task(p)].attempts - 1]
    <2>1. exec[p].pc = "posting" /\ exec[p] \in ExecType
      BY <1>2, SlotInUse DEF PostReturns, At
    <2>2. /\ e.pc = "settling" /\ e.id = exec[p].id /\ e.task = exec[p].task
          /\ e.todo = exec[p].todo /\ e.jobs = exec[p].jobs
      BY <2>1 DEF ExecType
    <2>3. exec' = [exec EXCEPT ![p] = e]
      BY <1>2 DEF PostReturns
    <2> HIDE DEF e
    <2>4. Onward(e, exec[p])
      BY <2>1, <2>2 DEF Onward, Continues, ReadsOn, CreatesOn, NotifiesOn
    <2>5. \A q \in Procs : Onward(exec'[q], exec[q])
      BY <2>3, <2>4, SlotOnward
    <2> QED
      BY <1>2, <2>5, TasksStay, EvalsStay DEF PostReturns, Orderly
  <1>3. CASE Settle(p)
    <2> DEFINE todo == IF exec[p].resp.ok THEN Continuation[exec[p].id] ELSE <<>>
               e == [exec[p] EXCEPT !.pc = "finishing", !.left = 0, !.todo = todo]
    <2>1. exec[p].pc = "settling" /\ exec[p] \in ExecType
      BY <1>3, SlotInUse DEF Settle, At
    <2>2. /\ e.pc = "finishing" /\ e.id = exec[p].id /\ e.task = exec[p].task
          /\ e.todo = todo /\ e.jobs = exec[p].jobs
      BY <2>1 DEF ExecType
    <2>3. exec' = [exec EXCEPT ![p] = e] /\ heap' = [heap EXCEPT ![Task(p)] = Result(p)]
      BY <1>3 DEF Settle
    <2>4. todo # <<>> => todo = Continuation[exec[p].id]
      OBVIOUS
    <2> HIDE DEF e, todo
    <2>5. Onward(e, exec[p])
      BY <2>1, <2>2, <2>4 DEF Onward, Continues, ReadsOn, CreatesOn, NotifiesOn
    <2>6. \A q \in Procs : Onward(exec'[q], exec[q])
      BY <2>3, <2>5, SlotOnward
    <2>7. \A r \in Refs : Ripens(r)
      BY <2>1, <2>3, SettledRipens, WriteRipens
    <2>8. Grows
      BY <1>3, <2>7, TasksGrow DEF Settle
    <2> QED
      BY <1>3, <2>6, <2>8, EvalsStay DEF Settle, Orderly
  <1>4. CASE CreateChild(p)
    <2> DEFINE child == Head(exec[p].todo)
               task == ChildOf(exec[p].id, Blueprint[child])
               e == [exec[p] EXCEPT !.todo = Tail(exec[p].todo)]
    <2>1. /\ exec[p].pc = "finishing" /\ exec[p].todo # <<>>
          /\ exec[p] \in ExecType /\ exec[p].id \in Ids
      BY <1>4, SlotInUse DEF CreateChild, At
    <2>2. exec[p].todo \in Seq(Ids)
      BY <2>1 DEF ExecType
    <2>3. child \in Ids
      BY <2>1, <2>2
    <2>4. Blueprint[child] \in TaskType
      BY <2>3, InstanceAssumption
    <2>5. /\ e.pc = "finishing" /\ e.id = exec[p].id /\ e.task = exec[p].task
          /\ e.todo = Tail(exec[p].todo) /\ e.jobs = exec[p].jobs
      BY <2>1 DEF ExecType
    <2>6. /\ exec' = [exec EXCEPT ![p] = e] /\ SaveNewTask(child, task)
          /\ evals' = Trigger({})
      BY <1>4 DEF CreateChild, EvaluatedWhenSaved
    <2>7. task.parents = Blueprint[child].parents \cup {exec[p].id}
      BY <2>4 DEF ChildOf, TaskType
    <2> HIDE DEF e, task
    <2>8. Grows /\ stored'[child] # 0
      BY <2>1, <2>3, <2>6, <2>7, SaveGrows
    <2>9. Onward(e, exec[p])
      BY <2>1, <2>5, <2>8 DEF Onward, Continues, ReadsOn, CreatesOn, NotifiesOn
    <2>10. \A q \in Procs : Onward(exec'[q], exec[q])
      BY <2>6, <2>9, SlotOnward
    <2>11. Triggered
      BY <2>1, <2>6, TriggerOwn
    <2> QED
      BY <2>8, <2>10, <2>11 DEF Orderly
  <1>5. CASE Finish(p)
    <2> DEFINE jobs == DelayJobs(exec[p].resp) \cup
                       (IF heap[Task(p)].complete THEN DoneJobs(exec[p].id) ELSE {})
               e == [exec[p] EXCEPT !.pc = "unlock", !.jobs = jobs]
    <2>1. exec[p].pc = "finishing" /\ exec[p].todo = <<>> /\ exec[p] \in ExecType
      BY <1>5, SlotInUse DEF Finish, At
    <2>2. /\ e.pc = "unlock" /\ e.id = exec[p].id /\ e.task = exec[p].task
          /\ e.todo = exec[p].todo /\ e.jobs = jobs
      BY <2>1 DEF ExecType
    <2>3. exec' = [exec EXCEPT ![p] = e] /\ evals' = Trigger(RetryTrigger(p))
      BY <1>5 DEF Finish
    <2>4. "notify" \in jobs => heap[Task(p)].complete
      BY DEF DelayJobs
    <2> HIDE DEF e, jobs
    <2>5. Onward(e, exec[p])
      BY <2>1, <2>2, <2>4 DEF Onward, Continues, ReadsOn, CreatesOn, NotifiesOn, Task
    <2>6. \A q \in Procs : Onward(exec'[q], exec[q])
      BY <2>3, <2>5, SlotOnward
    <2>7. RetryTrigger(p) \subseteq {exec[p].id}
      BY DEF RetryTrigger
    <2>8. Triggered
      BY <2>1, <2>3, <2>7, TriggerOwn
    <2> QED
      BY <1>5, <2>6, <2>8, TasksStay DEF Finish, Orderly
  <1> QED
    BY <1>1, <1>2, <1>3, <1>4, <1>5

\* A slot whose jobs become fewer, or are joined by a merge.
LEMMA JobOnward ==
    ASSUME TypeInv, NEW p \in Procs, exec[p] \in ExecType, exec[p].pc # "idle",
           NEW matches \in SUBSET Refs, NEW jobs \in SUBSET Jobs,
           "notify" \in jobs => "notify" \in exec[p].jobs,
           exec' = [exec EXCEPT ![p] = Freed([@ EXCEPT !.matches = matches, !.jobs = jobs])]
    PROVE  \A q \in Procs : Onward(exec'[q], exec[q])
  <1> DEFINE e == [exec[p] EXCEPT !.matches = matches, !.jobs = jobs]
  <1>1. /\ e.pc = exec[p].pc /\ e.id = exec[p].id /\ e.task = exec[p].task
        /\ e.todo = exec[p].todo /\ e.jobs = jobs /\ e.parents = exec[p].parents
    BY DEF ExecType
  <1>2. exec' = [exec EXCEPT ![p] = Freed(e)]
    OBVIOUS
  <1> HIDE DEF e
  <1>3. Onward(e, exec[p])
    BY <1>1 DEF Onward, Continues, ReadsOn, CreatesOn, NotifiesOn
  <1>4. Onward(Freed(e), exec[p])
    BY <1>3, FreedOnward
  <1> QED
    BY <1>2, <1>4, SlotOnward

\* The goroutines an attempt leaves behind.
LEMMA BackgroundOrderly ==
    ASSUME TypeInv, NEW p \in Procs, BackgroundStep(p)
    PROVE  Orderly
  <1>0. exec[p] \in ExecType
    BY DEF TypeInv, TypeOK
  <1>1. ASSUME NEW job, HasJob(p, job), JobDone(p, job)
        PROVE  \A q \in Procs : Onward(exec'[q], exec[q])
    <2>1. exec[p].pc # "idle"
      BY <1>1, JobTypes
    <2>2. exec[p].jobs \ {job} \in SUBSET Jobs /\ exec[p].matches \in SUBSET Refs
      BY <1>0 DEF ExecType
    <2>3. [exec[p] EXCEPT !.jobs = exec[p].jobs \ {job}]
            = [exec[p] EXCEPT !.matches = exec[p].matches, !.jobs = exec[p].jobs \ {job}]
      BY <1>0 DEF ExecType
    <2>4. exec' = [exec EXCEPT ![p] = Freed([exec[p] EXCEPT !.jobs = exec[p].jobs \ {job}])]
      BY <1>1 DEF JobDone
    <2>5. exec' = [exec EXCEPT ![p] = Freed([@ EXCEPT !.matches = exec[p].matches,
                                                      !.jobs = exec[p].jobs \ {job}])]
      BY <2>3, <2>4
    <2> QED
      BY <1>0, <2>1, <2>2, <2>5, JobOnward
  <1>2. CASE NotifyChildren(p)
    <2>1. \A q \in Procs : Onward(exec'[q], exec[q])
      BY <1>1, <1>2 DEF NotifyChildren
    <2>2. Triggered
      BY <1>2 DEF NotifyChildren, HasJob, Triggered, Trigger, Notified, GetTaskChildren
    <2> QED
      BY <1>2, <2>1, <2>2, TasksStay DEF NotifyChildren, Orderly
  <1>3. CASE ApplyChildrenDelay(p)
    <2>1. \A q \in Procs : Onward(exec'[q], exec[q])
      BY <1>1, <1>3 DEF ApplyChildrenDelay
    <2> QED
      BY <1>3, <2>1, TasksStay, EvalsStay DEF ApplyChildrenDelay, GetTaskChildrenFails, Orderly
  <1>4. CASE ApplyWorkgroupDelay(p)
    <2>1. \A q \in Procs : Onward(exec'[q], exec[q])
      BY <1>1, <1>4 DEF ApplyWorkgroupDelay
    <2> QED
      BY <1>4, <2>1, TasksStay, EvalsStay
         DEF ApplyWorkgroupDelay, GetTasksInWorkgroupFails, Orderly
  <1>5. CASE FindDuplicates(p)
    <2> DEFINE jobs == (exec[p].jobs \ {"match"}) \cup
                           {j \in {"merge"} : Duplicates(p) # {}}
    <2>1. exec[p].pc # "idle"
      BY <1>5, JobTypes DEF FindDuplicates
    <2>2. /\ exec' = [exec EXCEPT ![p] =
                         Freed([@ EXCEPT !.matches = Duplicates(p), !.jobs = jobs])]
      BY <1>5 DEF FindDuplicates
    <2>3. TasksWithKey(Key[exec[p].id]) \subseteq Refs
      BY StoredTaskType DEF TasksWithKey
    <2>4. Duplicates(p) \in SUBSET Refs
      BY <2>3 DEF Duplicates
    <2>5. jobs \in SUBSET Jobs /\ ("notify" \in jobs => "notify" \in exec[p].jobs)
      BY <1>0 DEF ExecType, Jobs
    <2> HIDE DEF jobs
    <2>6. \A q \in Procs : Onward(exec'[q], exec[q])
      BY <1>0, <2>1, <2>2, <2>4, <2>5, JobOnward
    <2> QED
      BY <1>5, <2>6, TasksStay, EvalsStay DEF FindDuplicates, Orderly
  <1>6. ASSUME NEW match \in Refs, MergeOne(p, match) PROVE Orderly
    <2> DEFINE rest == exec[p].matches \ {match}
               jobs == IF rest = {} THEN exec[p].jobs \ {"merge"} ELSE exec[p].jobs
    <2>1. exec[p].pc # "idle"
      BY <1>6, JobTypes DEF MergeOne
    <2>2. exec' = [exec EXCEPT ![p] = Freed([@ EXCEPT !.matches = rest, !.jobs = jobs])]
      BY <1>6 DEF MergeOne
    <2>3. /\ jobs \in SUBSET Jobs /\ rest \in SUBSET Refs
          /\ "notify" \in jobs => "notify" \in exec[p].jobs
      BY <1>0 DEF ExecType
    <2> HIDE DEF jobs, rest
    <2>4. \A q \in Procs : Onward(exec'[q], exec[q])
      BY <1>0, <2>1, <2>2, <2>3, JobOnward
    <2>5. ASSUME NEW r \in Refs PROVE Ripens(r)
      <3>1. heap' = [heap EXCEPT ![match] =
                         [heap[match] EXCEPT !.complete = TRUE, !.output = heap[Task(p)].output]]
        BY <1>6 DEF MergeOne, Merged, TypeInv, TypeOK, TaskType
      <3>2. heap[r] \in TaskType
        BY DEF TypeInv, TypeOK
      <3>3. /\ heap'[r].parents = heap[r].parents
            /\ heap'[r].complete = (r = match \/ heap[r].complete)
        BY <3>1, <3>2 DEF TypeInv, TypeOK, TaskType
      <3> QED
        BY <3>3 DEF Ripens
    <2>6. Grows
      BY <1>6, <2>5, TasksGrow DEF MergeOne
    <2>7. evals' = evals
      BY <1>6 DEF MergeOne, GetTaskChildrenFails
    <2> QED
      BY <2>4, <2>6, <2>7, EvalsStay DEF Orderly
  <1> QED
    BY <1>2, <1>3, <1>4, <1>5, <1>6 DEF BackgroundStep

\* The handlers: one creates a task, the others revise one.
LEMMA ApiMoves ==
    ASSUME TypeInv, ApiCall
    PROVE  Orderly \/ Revises
  <1>1. ASSUME NEW op, Call(op)
        PROVE  calls' = calls + 1 /\ calls \in Nat /\ Triggered
    BY <1>1 DEF Call, Triggered, TypeInv, TypeOK
  <1>2. ASSUME NEW id \in Ids, IsStored(id), NEW task, heap' = [heap EXCEPT ![Ref(id)] = task],
               task.parents = StoredTask(id).parents
        PROVE  \A r \in Refs : heap'[r].parents = heap[r].parents
    <2>1. \A r \in Refs : heap'[r] = IF r = Ref(id) THEN task ELSE heap[r]
      BY <1>2 DEF TypeInv, TypeOK
    <2> QED
      BY <1>2, <2>1 DEF StoredTask
  <1>3. ASSUME NEW id \in Ids, CreateTask(id) PROVE Orderly
    <2>1. "create" \in ApiOps
      BY <1>3 DEF CreateTask, Call
    <2>2. Grows
      BY <1>3, <2>1, SaveGrows DEF CreateTask
    <2>3. \A p \in Procs : Onward(exec'[p], exec[p])
      BY <1>3, SlotsOnward DEF CreateTask
    <2> QED
      BY <1>1, <1>3, <2>2, <2>3 DEF CreateTask, Orderly
  <1>4. ASSUME NEW id \in Ids, DeleteTask(id) PROVE Revises
    <2>1. \A t \in Ids : stored'[t] \in {0, stored[t]}
      BY <1>4 DEF DeleteTask, TypeInv, TypeOK
    <2> QED
      BY <1>1, <1>4, <2>1 DEF DeleteTask, Revises
  <1>5. ASSUME NEW id \in Ids, NEW n \in Grants, ResetTask(id, n) PROVE Revises
    <2> DEFINE task == Reset(StoredTask(id), n, now)
    <2>1. IsStored(id) /\ StoredTask(id) \in TaskType
      BY <1>5, StoredTaskType DEF ResetTask
    <2>2. task.parents = StoredTask(id).parents
      BY <2>1 DEF Reset, TaskType
    <2>3. heap' = [heap EXCEPT ![Ref(id)] = task]
      BY <1>5 DEF ResetTask, StoredTask
    <2> HIDE DEF task
    <2>4. \A r \in Refs : heap'[r].parents = heap[r].parents
      BY <1>2, <2>1, <2>2, <2>3
    <2> QED
      BY <1>1, <1>5, <2>4 DEF ResetTask, Revises
  <1>6. ASSUME NEW id \in Ids, NEW n \in Grants, RetryTask(id, n) PROVE Revises
    <2> DEFINE task == Retried(StoredTask(id), n)
    <2>1. IsStored(id) /\ StoredTask(id) \in TaskType
      BY <1>6, StoredTaskType DEF RetryTask
    <2>2. task.parents = StoredTask(id).parents
      BY <2>1 DEF Retried, TaskType
    <2>3. heap' = [heap EXCEPT ![Ref(id)] = task]
      BY <1>6 DEF RetryTask, StoredTask
    <2> HIDE DEF task
    <2>4. \A r \in Refs : heap'[r].parents = heap[r].parents
      BY <1>2, <2>1, <2>2, <2>3
    <2> QED
      BY <1>1, <1>6, <2>4 DEF RetryTask, Revises
  <1>7. ASSUME NEW id \in Ids, NEW u \in Updates, UpdateTask(id, u) PROVE Revises
    <2> DEFINE task == Updated(StoredTask(id), u)
    <2>1. IsStored(id) /\ StoredTask(id) \in TaskType
      BY <1>7, StoredTaskType DEF UpdateTask
    <2>2. task.parents = StoredTask(id).parents
      BY <2>1 DEF Updated, TaskType
    <2>3. heap' = [heap EXCEPT ![Ref(id)] = task]
      BY <1>7 DEF UpdateTask
    <2> HIDE DEF task
    <2>4. \A r \in Refs : heap'[r].parents = heap[r].parents
      BY <1>2, <2>1, <2>2, <2>3
    <2> QED
      BY <1>1, <1>7, <2>4 DEF UpdateTask, Revises
  <1> QED
    BY <1>3, <1>4, <1>5, <1>6, <1>7 DEF ApiCall

\* Every step is one of these.
LEMMA NextMoves ==
    ASSUME TypeInv, [Next]_vars
    PROVE  Orderly \/ (ApiCall /\ Revises)
  <1>1. ASSUME exec' = exec, heap' = heap, stored' = stored, made' = made,
               \A id \in Ids : evals'[id] > 0 => evals[id] > 0
        PROVE  Orderly
    BY <1>1, SlotsOnward, TasksStay DEF Orderly, Triggered
  <1>2. ASSUME NEW id \in Ids, evals[id] > 0, evals' = [evals EXCEPT ![id] = @ - 1]
        PROVE  \A t \in Ids : evals'[t] > 0 => evals[t] > 0
    BY <1>2 DEF TypeInv, TypeOK
  <1>3. ASSUME NEW id \in Ids, EvaluateDrops(id) PROVE Orderly
    BY <1>1, <1>2, <1>3 DEF EvaluateDrops
  <1>4. ASSUME NEW id \in Ids, NEW p \in Procs, EvaluateExecutes(id, p) PROVE Orderly
    <2> DEFINE e == [IdleExec EXCEPT !.pc = "execute", !.id = id, !.task = stored[id]]
    <2>1. exec[p].pc = "idle" /\ evals[id] > 0 /\ stored[id] # 0
      BY <1>4 DEF EvaluateExecutes, At, CanExecuteNow, IsStored
    <2>2. /\ e.pc = "execute" /\ e.id = id /\ e.task = stored[id]
          /\ e.todo = <<>> /\ e.jobs = {}
      BY DEF IdleExec
    <2>3. exec' = [exec EXCEPT ![p] = e]
      BY <1>4 DEF EvaluateExecutes
    <2> HIDE DEF e
    <2>4. Onward(e, exec[p])
      BY <2>1, <2>2 DEF Onward, Continues, ReadsOn, CreatesOn, NotifiesOn
    <2>5. \A q \in Procs : Onward(exec'[q], exec[q])
      BY <2>3, <2>4, SlotOnward
    <2>6. \A t \in Ids : evals'[t] > 0 => evals[t] > 0
      BY <1>2, <1>4 DEF EvaluateExecutes
    <2> QED
      BY <1>4, <2>5, <2>6, TasksStay DEF EvaluateExecutes, Orderly, Triggered
  <1>5. CASE Tick
    BY <1>1, <1>5 DEF Tick
  <1>6. CASE Rest \/ UNCHANGED vars
    BY <1>1, <1>6 DEF Rest, vars
  <1>7. ASSUME NEW p \in Procs, ExecuteStep(p) PROVE Orderly
    BY <1>7, LockingOrderly, CallingOrderly DEF ExecuteStep
  <1> QED
    BY <1>3, <1>4, <1>5, <1>6, <1>7, BackgroundOrderly, ApiMoves DEF Next

\* Without API calls there are only steps of the server.
LEMMA NextOrderly ==
    ASSUME TypeInv, ApiOps = {}, [Next]_vars
    PROVE  Orderly
  BY NextMoves DEF ApiCall, CreateTask, DeleteTask, ResetTask, RetryTask, UpdateTask, Call

-----------------------------------------------------------------------------
(* One object per id, and goroutines that work on it.                      *)

\* Nothing that is stored is taken away.
LEMMA StoredStays ==
    ASSUME Grows, NEW id \in Ids, stored[id] # 0
    PROVE  /\ stored'[id] = stored[id]
           /\ heap'[<<id, stored[id]>>].parents = heap[<<id, stored[id]>>].parents
           /\ heap[<<id, stored[id]>>].complete => heap'[<<id, stored[id]>>].complete
  BY DEF Grows, Adopted, Ripens, IsStored, Ref

\* The place in the list moves on with the children created.
LEMMA PlaceKept ==
    ASSUME NEW e \in ExecType, NEW f \in ExecType, e.id = f.id, f.id \in Ids,
           NEW s, NEW t, \A id \in Ids : s[id] # 0 \/ stored'[id] # 0 => t[id] # 0,
           f.todo # <<>> => Resumes(f, s), CreatesOn(e, f), e.todo # <<>>
    PROVE  Resumes(e, t)
  <1> DEFINE all == Continuation[f.id]
             left == e.todo
             was == f.todo
  <1>0. all \in Seq(Ids) /\ left \in Seq(Ids) /\ was \in Seq(Ids)
    BY InstanceAssumption DEF ExecType
  <1>1. \A j \in 1 .. Len(all) : all[j] \in Ids
    BY <1>0
  <1>2. was # <<>> =>
          /\ f.pc = "finishing" /\ Len(all) - Len(was) >= 0
          /\ \A i \in 1 .. Len(was) : was[i] = all[Len(all) - Len(was) + i]
          /\ \A j \in 1 .. (Len(all) - Len(was)) : s[all[j]] # 0
    BY DEF Resumes
  <1>3. SUFFICES /\ e.pc = "finishing" /\ Len(all) - Len(left) >= 0
                 /\ \A i \in 1 .. Len(left) : left[i] = all[Len(all) - Len(left) + i]
                 /\ \A j \in 1 .. (Len(all) - Len(left)) : t[all[j]] # 0
    BY DEF Resumes
  <1>4. CASE left = was /\ (f.pc = "finishing" => e.pc = "finishing")
    <2>1. \A j \in 1 .. (Len(all) - Len(was)) : t[all[j]] # 0
      <3> SUFFICES ASSUME NEW j \in 1 .. (Len(all) - Len(was)) PROVE t[all[j]] # 0
        OBVIOUS
      <3>1. j \in 1 .. Len(all)
        BY <1>0
      <3> QED
        BY <1>1, <1>2, <1>4, <3>1
    <2> QED
      BY <1>2, <1>4, <2>1
  <1>5. CASE f.pc = "settling" /\ e.pc = "finishing" /\ left = all
    <2> HIDE DEF all, left, was
    <2> QED
      BY <1>0, <1>5
  <1>6. CASE /\ e.pc = "finishing" /\ was # <<>> /\ left = Tail(was)
             /\ stored'[Head(was)] # 0
    <2> DEFINE done == Len(all) - Len(was)
    <2>1. /\ done >= 0
          /\ \A i \in 1 .. Len(was) : was[i] = all[done + i]
          /\ \A j \in 1 .. done : s[all[j]] # 0
      BY <1>2, <1>6
    <2> HIDE DEF all, left, was
    <2>2. /\ Len(left) = Len(was) - 1 /\ Len(was) \in Nat /\ Len(was) > 0
          /\ \A i \in 1 .. Len(left) : left[i] = was[i + 1]
          /\ Head(was) = was[1]
      BY <1>0, <1>6
    <2>3. Len(all) \in Nat /\ done \in Int /\ Len(all) - Len(left) = done + 1 /\ done < Len(all)
      BY <1>0, <2>2
    <2>4. \A i \in 1 .. Len(left) : left[i] = all[(done + 1) + i]
      BY <2>1, <2>2, <2>3
    <2>5. all[done + 1] = Head(was)
      BY <2>1, <2>2
    <2>6. ASSUME NEW j \in 1 .. (done + 1) PROVE t[all[j]] # 0
      <3> HIDE DEF done
      <3>0. j \in 1 .. Len(all)
        BY <2>1, <2>3
      <3>1. CASE j = done + 1
        BY <1>1, <1>6, <2>5, <3>0, <3>1
      <3>2. CASE j # done + 1
        <4>1. j \in 1 .. done
          BY <2>3, <3>2
        <4> QED
          BY <1>1, <2>1, <3>0, <4>1
      <3> QED
        BY <3>1, <3>2
    <2> QED
      BY <1>6, <2>1, <2>3, <2>4, <2>6
  <1> QED
    BY <1>4, <1>5, <1>6 DEF CreatesOn

LEMMA NextKeepsPlaces ==
    ASSUME TypeInv, TypeInv', PlacedInv, Orderly
    PROVE  PlacedInv'
  <1>0. Grows
    BY DEF Orderly
  <1>1. ASSUME NEW id \in Ids PROVE made'[id] = stored'[id] /\ made'[id] <= 1
    <2>1. made[id] = stored[id] /\ made[id] <= 1
      BY DEF PlacedInv
    <2>2. CASE stored'[id] = stored[id] /\ made'[id] = made[id]
      BY <2>1, <2>2
    <2>3. CASE Adopted(id)
      BY <2>1, <2>3 DEF Adopted
    <2> QED
      BY <1>0, <2>2, <2>3 DEF Grows
  <1>2. ASSUME NEW id \in Preloaded PROVE stored'[id] # 0
    BY <1>0, StoredStays, InstanceAssumption DEF PlacedInv
  <1>3. ASSUME NEW p \in Procs PROVE Placed(exec'[p], stored')
    <2> DEFINE e == exec'[p]
               f == exec[p]
    <2>1. Onward(e, f) /\ Placed(f, stored) /\ e \in ExecType /\ f \in ExecType
      BY DEF Orderly, PlacedInv, TypeInv, TypeOK
    <2>2. e.pc # "idle" => e.id \in Ids
      BY DEF TypeInv, ExecOK
    <2> HIDE DEF e, f
    <2> SUFFICES Placed(e, stored')
      BY DEF e
    <2>3. CASE e.pc = "idle"
      BY <2>3 DEF Placed
    <2>4. CASE e.pc # "idle" /\ f.pc = "idle"
      <3>1. stored[e.id] # 0 /\ e.task = stored[e.id] /\ e.todo = <<>>
        BY <2>1, <2>4 DEF Onward, Continues
      <3> QED
        BY <1>0, <2>2, <2>4, <3>1, StoredStays DEF Placed
    <2>5. CASE e.pc # "idle" /\ f.pc # "idle"
      <3>1. e.id = f.id /\ e.task \in {f.task, stored[f.id]}
        BY <2>1, <2>5 DEF Onward, Continues
      <3>2. stored[f.id] # 0 /\ f.task = stored[f.id] /\ (f.todo # <<>> => Resumes(f, stored))
        BY <2>1, <2>5 DEF Placed
      <3>3. \A id \in Ids : stored[id] # 0 \/ stored'[id] # 0 => stored'[id] # 0
        BY <1>0, StoredStays
      <3>4. e.todo # <<>> => Resumes(e, stored')
        BY <2>1, <2>2, <2>5, <3>1, <3>2, <3>3, PlaceKept DEF Onward
      <3> QED
        BY <1>0, <2>2, <2>5, <3>1, <3>2, <3>4, StoredStays DEF Placed
    <2> QED
      BY <2>3, <2>4, <2>5
  <1> QED
    BY <1>1, <1>2, <1>3 DEF PlacedInv

\* Without API calls there is one object under each id, every goroutine works
\* on it, and creates the children of its response in order.
LEMMA GoroutinesHaveTheirPlace ==
    ASSUME ApiOps = {}
    PROVE  Spec => []PlacedInv
  <1>1. Init => PlacedInv
    <2> SUFFICES ASSUME Init PROVE PlacedInv
      OBVIOUS
    <2>1. \A p \in Procs : exec[p].pc = "idle"
      BY DEF Init, IdleExec
    <2>2. \A p \in Procs : Placed(exec[p], stored)
      BY <2>1 DEF Placed
    <2>3. \A id \in Ids : stored[id] = (IF id \in Preloaded THEN 1 ELSE 0) /\ made[id] = stored[id]
      BY DEF Init
    <2>4. ASSUME NEW id \in Preloaded PROVE stored[id] # 0
      <3>1. id \in Ids
        BY InstanceAssumption
      <3>2. stored[id] = 1
        BY <2>3, <3>1
      <3> QED
        BY <3>2
    <2> QED
      BY <2>2, <2>3, <2>4 DEF PlacedInv
  <1>2. TypeInv /\ TypeInv' /\ PlacedInv /\ [Next]_vars => PlacedInv'
    BY NextOrderly, NextKeepsPlaces
  <1> QED
    BY <1>1, <1>2, TypeInvariant, PTL DEF Spec

-----------------------------------------------------------------------------
(* Parents first.                                                          *)

\* Made objects stay made; one that is stored as the first was, unless it is new.
LEMMA FirstStays ==
    ASSUME TypeInv, OrderInv, Grows, NEW id \in Ids
    PROVE  /\ made[id] # 0 => made'[id] # 0
           /\ stored'[id] # 0 => made'[id] # 0
           /\ stored'[id] \in {0, made'[id]}
           /\ stored'[id] = 1 /\ ~Adopted(id) =>
                 /\ stored[id] = 1
                 /\ heap'[<<id, 1>>].parents = heap[<<id, 1>>].parents
                 /\ heap[<<id, 1>>].complete => heap'[<<id, 1>>].complete
           /\ stored'[id] = 1 /\ Adopted(id) => made[id] = 0
  <1>1. made[id] \in Nat /\ stored[id] \in {0, made[id]}
    BY BoundsAssumption DEF TypeInv, TypeOK, OrderInv
  <1>2. CASE Adopted(id)
    BY <1>1, <1>2 DEF Adopted
  <1>3. CASE ~Adopted(id)
    <2>1. /\ stored'[id] = stored[id] /\ made'[id] = made[id]
          /\ IsStored(id) => Ripens(Ref(id))
      BY <1>3 DEF Grows
    <2>2. stored[id] = 1 => Ripens(<<id, 1>>)
      BY <2>1 DEF IsStored, Ref
    <2> QED
      BY <1>1, <1>3, <2>1, <2>2 DEF Ripens
  <1> QED
    BY <1>2, <1>3

\* The parents of a first object are ids under which objects were made.
LEMMA FirstParents ==
    ASSUME TypeInv, OrderInv, NEW id \in Ids, stored[id] = 1,
           NEW q \in heap[<<id, 1>>].parents
    PROVE  q \in Ids /\ made[q] # 0
  <1>1. <<id, 1>> \in Refs
    BY BoundsAssumption DEF Refs
  <1>2. heap[<<id, 1>>].parents \subseteq Ids
    BY <1>1 DEF TypeInv, TypeOK, TaskType
  <1> QED
    BY <1>2 DEF OrderInv

\* A goroutine works on an id under which an object was made.
LEMMA GoroutinesAreOfMade ==
    ASSUME TypeInv, MadeInv, NEW p \in Procs, exec[p].pc # "idle"
    PROVE  exec[p].id \in Ids /\ made[exec[p].id] # 0
  <1>1. exec[p].id \in Ids /\ exec[p].task \in 1 .. MaxInc
    BY DEF TypeInv, ExecOK
  <1>2. exec[p].task <= made[exec[p].id] /\ made[exec[p].id] \in 0 .. MaxInc
    BY <1>1 DEF MadeInv, TypeInv, TypeOK
  <1> QED
    BY <1>1, <1>2, BoundsAssumption

\* The parents of what is created were made before it.
LEMMA AdoptedParents ==
    ASSUME TypeInv, MadeInv, OrderInv, ParentsComeFirst, NEW id \in Ids, Adopted(id),
           NEW q \in heap'[<<id, stored'[id]>>].parents
    PROVE  q \in Ids /\ made[q] # 0
  <1>0. \A t \in Preloaded : t \in Ids /\ made[t] # 0
    BY InstanceAssumption DEF OrderInv
  <1>1. CASE /\ "create" \in ApiOps
             /\ heap'[<<id, stored'[id]>>].parents = Blueprint[id].parents
    BY <1>0, <1>1 DEF ParentsComeFirst
  <1>2. ASSUME NEW p \in Procs, exec[p].pc = "finishing", exec[p].todo # <<>>,
               id = Head(exec[p].todo),
               heap'[<<id, stored'[id]>>].parents = Blueprint[id].parents \cup {exec[p].id}
        PROVE  q \in Ids /\ made[q] # 0
    <2> DEFINE x == exec[p].id
               all == Continuation[x]
               todo == exec[p].todo
               done == Len(all) - Len(todo)
    <2>1. x \in Ids /\ exec[p] \in ExecType
      BY <1>2, SlotInUse
    <2>2. all \in Seq(Ids) /\ todo \in Seq(Ids) /\ todo # <<>>
      BY <1>2, <2>1, InstanceAssumption DEF ExecType
    <2>3. made[x] # 0
      BY <1>2, GoroutinesAreOfMade
    <2>4. /\ done >= 0
          /\ \A i \in 1 .. Len(todo) : todo[i] = all[done + i]
          /\ \A j \in 1 .. done : made[all[j]] # 0
      BY <1>2 DEF OrderInv, Resumes
    <2>5. CASE q = x
      BY <2>1, <2>3, <2>5
    <2>6. CASE q \in Blueprint[id].parents
      <3> HIDE DEF todo, all
      <3>1. /\ Len(todo) \in Nat /\ Len(todo) > 0 /\ Len(all) \in Nat
            /\ Head(todo) = todo[1]
        BY <2>2
      <3>2. todo[1] = all[done + 1] /\ done + 1 \in 1 .. Len(all)
        BY <2>4, <3>1
      <3>3. id = all[done + 1] /\ done + 1 \in DOMAIN all
        <4>1. id = Head(todo)
          BY <1>2 DEF todo
        <4>2. DOMAIN all = 1 .. Len(all)
          BY <2>2
        <4> QED
          BY <3>1, <3>2, <4>1, <4>2
      <3> HIDE DEF done
      <3>4. \/ q = x
            \/ q \in Preloaded
            \/ \E j \in 1 .. ((done + 1) - 1) : all[j] = q
        BY <2>1, <2>6, <3>3 DEF ParentsComeFirst, all
      <3>5. ASSUME NEW j \in 1 .. ((done + 1) - 1), all[j] = q
            PROVE  q \in Ids /\ made[q] # 0
        <4>1. j \in 1 .. done /\ j \in 1 .. Len(all)
          BY <3>1, <3>2 DEF done
        <4> QED
          BY <2>2, <2>4, <3>5, <4>1
      <3> QED
        BY <1>0, <2>5, <3>4, <3>5
    <2> QED
      BY <1>2, <2>5, <2>6
  <1> QED
    BY <1>1, <1>2 DEF Adopted

LEMMA NextKeepsOrder ==
    ASSUME TypeInv, TypeInv', MadeInv, OrderInv, ParentsComeFirst, [Next]_vars
    PROVE  OrderInv'
  <1>1. CASE Orderly
    <2>0. Grows
      BY <1>1 DEF Orderly
    <2>1. \A id \in Ids : stored'[id] \in {0, made'[id]}
      BY <2>0, FirstStays
    <2>2. \A id \in Preloaded : made'[id] # 0
      BY <2>0, FirstStays, InstanceAssumption DEF OrderInv
    <2>3. ASSUME NEW p \in Procs, exec'[p].pc # "idle", exec'[p].todo # <<>>
          PROVE  Resumes(exec'[p], made')
      <3> DEFINE e == exec'[p]
                 f == exec[p]
      <3>1. Onward(e, f) /\ e \in ExecType /\ f \in ExecType
        BY <1>1 DEF Orderly, TypeInv, TypeOK
      <3>2. (f.pc # "idle" => f.id \in Ids) /\ (f.pc # "idle" /\ f.todo # <<>> => Resumes(f, made))
        BY DEF TypeInv, ExecOK, OrderInv
      <3>3. e.pc # "idle" /\ e.todo # <<>>
        BY <2>3
      <3> HIDE DEF e, f
      <3> SUFFICES Resumes(e, made')
        BY DEF e
      <3>4. f.pc # "idle" /\ e.id = f.id
        BY <3>1, <3>3 DEF Onward, Continues
      <3>5. \A id \in Ids : made[id] # 0 \/ stored'[id] # 0 => made'[id] # 0
        BY <2>0, FirstStays
      <3> QED
        BY <3>1, <3>2, <3>3, <3>4, <3>5, PlaceKept DEF Onward
    <2>4. ASSUME NEW id \in Ids, stored'[id] = 1, NEW q \in heap'[<<id, 1>>].parents
          PROVE  made'[q] # 0
      <3>1. CASE Adopted(id)
        <4>1. q \in Ids /\ made[q] # 0
          BY <2>4, <3>1, AdoptedParents
        <4> QED
          BY <2>0, <4>1, FirstStays
      <3>2. CASE ~Adopted(id)
        <4>1. stored[id] = 1 /\ q \in heap[<<id, 1>>].parents
          BY <2>0, <2>4, <3>2, FirstStays
        <4>2. q \in Ids /\ made[q] # 0
          BY <4>1, FirstParents
        <4> QED
          BY <2>0, <4>2, FirstStays
      <3> QED
        BY <3>1, <3>2
    <2> QED
      BY <2>1, <2>2, <2>3, <2>4 DEF OrderInv
  <1>2. CASE Revises
    <2>1. \A id \in Ids : stored'[id] \in {0, made'[id]}
      BY <1>2 DEF Revises, OrderInv
    <2>2. ASSUME NEW id \in Ids, stored'[id] = 1, NEW q \in heap'[<<id, 1>>].parents
          PROVE  made'[q] # 0
      <3>1. stored[id] = 1
        BY <1>2, <2>2 DEF Revises
      <3>2. <<id, 1>> \in Refs
        BY BoundsAssumption DEF Refs
      <3> QED
        BY <1>2, <2>2, <3>1, <3>2 DEF Revises, OrderInv
    <2> QED
      BY <1>2, <2>1, <2>2 DEF Revises, OrderInv
  <1> QED
    BY <1>1, <1>2, NextMoves

LEMMA NextKeepsRead ==
    ASSUME TypeInv, TypeInv', MadeInv, OrderInv, ReadInv, [Next]_vars
    PROVE  ReadInv'
  <1>1. ASSUME Orderly, NEW p \in Procs PROVE HasRead(exec'[p], stored', heap')
    <2> DEFINE e == exec'[p]
               f == exec[p]
    <2>0. Grows
      BY <1>1 DEF Orderly
    <2>1. /\ Onward(e, f) /\ HasRead(f, stored, heap)
          /\ f.pc # "idle" => f.id \in Ids /\ made[f.id] # 0
      BY <1>1, GoroutinesAreOfMade DEF Orderly, ReadInv
    <2> HIDE DEF e, f
    <2> SUFFICES ASSUME e.pc \in {"timer", "locked"}, stored'[e.id] = 1,
                        NEW q \in heap'[<<e.id, 1>>].parents, stored'[q] = 1
                 PROVE  <<q, 1>> \in e.parents
      BY DEF e, HasRead
    <2>2. f.pc # "idle" /\ e.id = f.id
      BY <2>1 DEF Onward, Continues
    <2>3. f.id \in Ids /\ stored[f.id] = 1 /\ q \in heap[<<f.id, 1>>].parents
      BY <2>0, <2>1, <2>2, FirstStays
    <2>4. q \in Ids /\ stored[q] = 1
      BY <2>0, <2>3, FirstParents, FirstStays
    <2>5. CASE f.pc \in {"timer", "locked"} /\ e.parents = f.parents
      BY <2>1, <2>3, <2>4, <2>5 DEF HasRead
    <2>6. CASE e.parents = GetTaskParents(f.id)
      BY <2>3, <2>4, <2>6 DEF GetTaskParents, IsStored, StoredTask, Ref
    <2> QED
      BY <2>1, <2>5, <2>6 DEF Onward, ReadsOn
  <1>2. ASSUME Revises, NEW p \in Procs PROVE HasRead(exec'[p], stored', heap')
    <2> SUFFICES ASSUME exec[p].pc \in {"timer", "locked"}, stored'[exec[p].id] = 1,
                        NEW q \in heap'[<<exec[p].id, 1>>].parents, stored'[q] = 1
                 PROVE  <<q, 1>> \in exec[p].parents
      BY <1>2 DEF HasRead, Revises
    <2>1. exec[p].id \in Ids /\ <<exec[p].id, 1>> \in Refs
      BY SlotInUse, BoundsAssumption DEF Refs
    <2>2. stored[exec[p].id] = 1 /\ q \in heap[<<exec[p].id, 1>>].parents
      BY <1>2, <2>1 DEF Revises
    <2>3. stored[q] = 1
      BY <1>2, <2>1, <2>2, FirstParents DEF Revises
    <2> QED
      BY <2>2, <2>3 DEF ReadInv, HasRead
  <1> QED
    BY <1>1, <1>2, NextMoves DEF ReadInv

\* At the check under the lock all parents that are there are complete, and
\* the steps of the server complete tasks and undo none.
LEMMA NextUndoesNone ==
    ASSUME TypeInv, MadeInv, OrderInv, ReadInv, [Next]_vars, NEW p \in Procs,
           exec'[p].pc = "throttled", ~ParentsDone(exec[p].id)'
    PROVE  exec[p].pc = "throttled" /\ (~ParentsDone(exec[p].id) \/ calls' # calls)
  <1>1. CASE Revises
    BY <1>1 DEF Revises
  <1>2. CASE Orderly
    <2>0. Grows
      BY <1>2 DEF Orderly
    <2>1. /\ exec[p].pc \in {"throttled", "locked"} /\ exec'[p].id = exec[p].id
          /\ exec[p].pc = "locked" => Executable(StoredTask(exec[p].id), exec[p].parents)
      BY <1>2 DEF Orderly, Onward, Continues, ReadsOn
    <2> DEFINE x == exec[p].id
    <2>2. x \in Ids /\ made[x] # 0
      BY <2>1, GoroutinesAreOfMade
    <2>3. PICK q \in heap'[<<x, 1>>].parents :
             stored'[x] = 1 /\ stored'[q] = 1 /\ ~heap'[<<q, 1>>].complete
      BY <2>1 DEF ParentsDone, StoredTask, Ref
    <2>4. stored[x] = 1 /\ q \in heap[<<x, 1>>].parents
      BY <2>0, <2>2, <2>3, FirstStays
    <2>5. q \in Ids /\ stored[q] = 1 /\ ~heap[<<q, 1>>].complete
      BY <2>0, <2>2, <2>3, <2>4, FirstParents, FirstStays
    <2>6. CASE exec[p].pc = "throttled"
      BY <2>4, <2>5, <2>6 DEF ParentsDone, StoredTask, Ref
    <2>7. CASE exec[p].pc = "locked"
      <3>1. <<q, 1>> \in exec[p].parents
        BY <2>4, <2>5, <2>7 DEF ReadInv, HasRead
      <3>2. \A parent \in {heap[r] : r \in exec[p].parents} : parent.complete
        BY <2>1, <2>7 DEF Executable, CanExecute
      <3> QED
        BY <2>5, <3>1, <3>2
    <2> QED
      BY <2>1, <2>6, <2>7
  <1> QED
    BY <1>1, <1>2, NextMoves

\* A task waits for the throttler with a parent incomplete only when a caller
\* undid that parent after the check under the lock, whatever callers delete,
\* create, reset and write meanwhile, in every instance where tasks are created
\* after the parents they name.
THEOREM ParentsAreUndoneByCallers ==
    ASSUME ParentsComeFirst
    PROVE  Spec => OnlyCallersUndoParents
  <1>1. Init => OrderInv /\ ReadInv
    <2> SUFFICES ASSUME Init PROVE OrderInv /\ ReadInv
      OBVIOUS
    <2>1. \A p \in Procs : exec[p].pc = "idle"
      BY DEF Init, IdleExec
    <2>2. \A p \in Procs : HasRead(exec[p], stored, heap)
      BY <2>1 DEF HasRead
    <2>3. \A id \in Ids : stored[id] = (IF id \in Preloaded THEN 1 ELSE 0) /\ made[id] = stored[id]
      BY DEF Init
    <2>4. \A id \in Preloaded : id \in Ids /\ made[id] = 1
      BY <2>3, InstanceAssumption
    <2>5. ASSUME NEW id \in Ids, stored[id] = 1, NEW q \in heap[<<id, 1>>].parents
          PROVE  made[q] # 0
      <3>1. id \in Preloaded
        BY <2>3, <2>5
      <3>2. <<id, 1>> \in Refs
        BY BoundsAssumption DEF Refs
      <3>3. heap[<<id, 1>>] = Blueprint[id]
        BY <3>2 DEF Init
      <3>4. q \in Preloaded
        BY <2>5, <3>1, <3>3 DEF ParentsComeFirst
      <3> QED
        BY <2>4, <3>4
    <2> QED
      BY <2>1, <2>2, <2>3, <2>4, <2>5 DEF OrderInv, ReadInv
  <1>2. TypeInv /\ TypeInv' /\ MadeInv /\ OrderInv /\ ReadInv /\ [Next]_vars
           => OrderInv' /\ ReadInv'
    BY NextKeepsOrder, NextKeepsRead
  <1>3. TypeInv /\ MadeInv /\ OrderInv /\ ReadInv /\ [Next]_vars =>
           [\A p \in Procs :
               exec'[p].pc = "throttled" /\ ~ParentsDone(exec[p].id)' =>
                  exec[p].pc = "throttled" /\ (~ParentsDone(exec[p].id) \/ calls' # calls)]_vars
    BY NextUndoesNone
  <1> QED
    BY <1>1, <1>2, <1>3, TypeInvariant, PointersLeadToMade, PTL
       DEF Spec, OnlyCallersUndoParents

-----------------------------------------------------------------------------
(* Children after their siblings.                                          *)

\* An attempt that is not over holds the semaphore, and so does the one that
\* is about to look at the task under the lock: there is one such per task.
LEMMA OneAtWork ==
    ASSUME TypeInv, LockDiscipline, MadeInv, PlacedInv,
           NEW p \in Procs, NEW q \in Procs, p # q,
           exec[p].id = exec[q].id, exec[p].pc = "finishing",
           Unfinished(exec[q]) \/ exec[q].pc = "locked"
    PROVE  FALSE
  <1>1. exec[q].todo # <<>> /\ exec[q].pc # "idle" => exec[q].pc = "finishing"
    BY DEF PlacedInv, Placed, Resumes
  <1>2. Holding(p) /\ Holding(q)
    BY <1>1 DEF Holding, HoldingPcs, Unfinished
  <1>3. made[exec[p].id] > 1
    BY <1>2, HoldersHaveObjects
  <1>4. exec[p].id \in Ids
    BY SlotInUse
  <1>5. made[exec[p].id] <= 1 /\ made[exec[p].id] \in Nat
    BY <1>4, BoundsAssumption DEF PlacedInv, TypeInv, TypeOK
  <1> QED
    BY <1>3, <1>5

\* Who is at work after a step was so before, or has just found the task
\* incomplete.
LEMMA WorkGoesOn ==
    ASSUME NEW e, NEW f, Onward(e, f), e.pc # "idle", Unfinished(e)
    PROVE  /\ f.pc # "idle" /\ e.id = f.id
           /\ \/ Unfinished(f)
              \/ f.pc = "locked" /\ ~StoredTask(f.id).complete
  <1>1. CASE e.pc \in {"throttled", "posting", "settling"}
    <2>1. f.pc # "idle" /\ e.id = f.id
      BY <1>1 DEF Onward, Continues
    <2>2. \/ f.pc \in {"throttled", "posting", "settling"}
          \/ f.pc = "locked" /\ ~StoredTask(f.id).complete
      BY <1>1 DEF Onward, ReadsOn, Executable, CanExecute
    <2> QED
      BY <2>1, <2>2 DEF Unfinished
  <1>2. CASE e.todo # <<>>
    <2>1. f.pc # "idle" /\ e.id = f.id
      BY <1>2 DEF Onward, Continues
    <2>2. f.todo # <<>> \/ f.pc = "settling"
      BY <1>2 DEF Onward, CreatesOn
    <2> QED
      BY <2>1, <2>2 DEF Unfinished
  <1> QED
    BY <1>1, <1>2 DEF Unfinished

\* A task that is closed stays closed.
LEMMA ClosedStays ==
    ASSUME TypeInv, Orderly, NEW x \in Ids, Closed(x)
    PROVE  Closed(x)'
  <1>1. /\ stored[x] # 0 /\ stored'[x] = stored[x]
        /\ heap'[<<x, stored[x]>>].complete
    BY StoredStays DEF Closed, IsStored, StoredTask, Ref, Orderly
  <1>2. ASSUME NEW p \in Procs, exec'[p].pc # "idle", exec'[p].id = x, Unfinished(exec'[p])
        PROVE  FALSE
    BY <1>2, WorkGoesOn DEF Orderly, Closed
  <1> QED
    BY <1>1, <1>2 DEF Closed, IsStored, StoredTask, Ref

\* The end of an attempt at a complete task closes it.
LEMMA FinishCloses ==
    ASSUME TypeInv, LockDiscipline, MadeInv, PlacedInv, Orderly, NEW p \in Procs,
           exec[p].pc = "finishing", heap[<<exec[p].id, exec[p].task>>].complete,
           exec'[p].pc = "unlock", exec'[p].todo = <<>>, NEW x \in Ids, exec[p].id = x
    PROVE  Closed(x)'
  <1>1. stored[x] # 0 /\ exec[p].task = stored[x]
    BY DEF PlacedInv, Placed
  <1>2. stored'[x] = stored[x] /\ heap'[<<x, stored[x]>>].complete
    BY <1>1, StoredStays DEF Orderly
  <1>3. ASSUME NEW q \in Procs, exec'[q].pc # "idle", exec'[q].id = x, Unfinished(exec'[q])
        PROVE  FALSE
    <2>1. CASE q = p
      BY <1>3, <2>1 DEF Unfinished
    <2>2. CASE q # p
      <3>1. exec[q].id = x /\ (Unfinished(exec[q]) \/ exec[q].pc = "locked")
        BY <1>3, WorkGoesOn DEF Orderly
      <3> QED
        BY <2>2, <3>1, OneAtWork
    <2> QED
      BY <2>1, <2>2
  <1> QED
    BY <1>1, <1>2, <1>3 DEF Closed, IsStored, StoredTask, Ref

\* A child of a response is evaluated, or has a goroutine, after a step only if
\* its creator was closed before.
LEMMA StartsWhenClosed ==
    ASSUME TypeInv, TypeInv', PlacedInv, ClosedInv, Orderly, FamiliesApart,
           NEW x \in Ids, NEW i \in DOMAIN Continuation[x], NEW t \in Ids,
           t = Continuation[x][i],
           \/ evals'[t] > 0
           \/ \E p \in Procs : exec'[p].pc # "idle" /\ exec'[p].id = t
    PROVE  Closed(x)
  <1>1. Started(t) => Closed(x)
    BY DEF ClosedInv
  <1>2. ASSUME NEW p \in Procs, exec'[p].pc # "idle", exec'[p].id = t
        PROVE  Started(t)
    <2>1. \/ evals[t] > 0
          \/ exec[p].pc # "idle" /\ exec[p].id = t
      BY <1>2 DEF Orderly, Onward, Continues
    <2> QED
      BY <2>1 DEF Started
  <1>3. ASSUME NEW p \in Procs, "notify" \in exec[p].jobs, IsStored(t),
               exec[p].id \in StoredTask(t).parents
        PROVE  Closed(x)
    <2> DEFINE y == exec[p].id
    <2>1. exec[p].pc # "idle"
      BY <1>3 DEF TypeInv, ExecOK
    <2>2. y \in Ids
      BY <2>1, SlotInUse
    <2>3. CASE y = x
      BY <1>3, <2>3 DEF ClosedInv
    <2>4. CASE \E j \in DOMAIN Continuation[x] : Continuation[x][j] = y
      <3>1. Started(y)
        BY <2>1 DEF Started
      <3> QED
        BY <2>4, <3>1 DEF ClosedInv
    <2>5. \/ y \in Blueprint[t].parents
          \/ \E j \in DOMAIN Continuation[y] : Continuation[y][j] = t
      BY <1>3 DEF ClosedInv
    <2>6. ASSUME y \in Blueprint[t].parents
          PROVE  y = x \/ \E j \in DOMAIN Continuation[x] : Continuation[x][j] = y
      <3>1. \A q \in Blueprint[Continuation[x][i]].parents :
               q = x \/ \E j \in DOMAIN Continuation[x] : Continuation[x][j] = q
        BY Zenon DEF FamiliesApart
      <3> QED
        BY <2>6, <3>1, Zenon
    <2>7. (\E j \in DOMAIN Continuation[y] : Continuation[y][j] = t) => y = x
      BY <2>2 DEF FamiliesApart
    <2> QED
      BY <2>3, <2>4, <2>5, <2>6, <2>7
  <1>4. CASE evals'[t] > 0
    <2>1. \/ evals[t] > 0
          \/ \E p \in Procs : exec[p].pc # "idle" /\ exec[p].id = t
          \/ \E p \in Procs : /\ "notify" \in exec[p].jobs
                              /\ IsStored(t) /\ exec[p].id \in StoredTask(t).parents
      BY <1>4 DEF Orderly, Triggered, FamiliesApart
    <2> QED
      BY <1>1, <1>3, <2>1 DEF Started
  <1> QED
    BY <1>1, <1>2, <1>4

\* Parents are those of the blueprint and creators.
LEMMA ParentsAreDeclared ==
    ASSUME TypeInv, PlacedInv, ClosedInv, Orderly, FamiliesApart,
           NEW t \in Ids, stored'[t] # 0, NEW y \in heap'[<<t, stored'[t]>>].parents
    PROVE  \/ y \in Blueprint[t].parents
           \/ y \in Ids /\ \E i \in DOMAIN Continuation[y] : Continuation[y][i] = t
  <1>1. CASE ~Adopted(t)
    <2>1. stored'[t] = stored[t] /\ stored[t] # 0
      BY <1>1 DEF Orderly, Grows
    <2>2. y \in heap[<<t, stored[t]>>].parents
      BY <2>1, StoredStays DEF Orderly
    <2> QED
      BY <2>1, <2>2 DEF ClosedInv, IsStored, StoredTask, Ref
  <1>2. CASE Adopted(t)
    <2>1. PICK p \in Procs :
             /\ exec[p].pc = "finishing" /\ exec[p].todo # <<>> /\ t = Head(exec[p].todo)
             /\ heap'[<<t, stored'[t]>>].parents = Blueprint[t].parents \cup {exec[p].id}
      BY <1>2 DEF Adopted, FamiliesApart
    <2> DEFINE x == exec[p].id
               all == Continuation[x]
               todo == exec[p].todo
               done == Len(all) - Len(todo)
    <2>2. x \in Ids /\ exec[p] \in ExecType
      BY <2>1, SlotInUse
    <2>3. all \in Seq(Ids) /\ todo \in Seq(Ids) /\ todo # <<>>
      BY <2>1, <2>2, InstanceAssumption DEF ExecType
    <2>4. done >= 0 /\ \A i \in 1 .. Len(todo) : todo[i] = all[done + i]
      BY <2>1 DEF PlacedInv, Placed, Resumes
    <2>5. t = Head(todo)
      BY <2>1
    <2>6. y \in Blueprint[t].parents \/ y = x
      BY <2>1
    <2> HIDE DEF todo, all
    <2>7. /\ Len(todo) \in Nat /\ Len(todo) > 0 /\ Len(all) \in Nat
          /\ Head(todo) = todo[1] /\ DOMAIN all = 1 .. Len(all)
      BY <2>3
    <2>8. all[done + 1] = t /\ done + 1 \in DOMAIN all
      BY <2>4, <2>5, <2>7
    <2> QED
      BY <2>2, <2>6, <2>8 DEF all
  <1> QED
    BY <1>1, <1>2

LEMMA NextKeepsClosed ==
    ASSUME TypeInv, TypeInv', LockDiscipline, MadeInv, PlacedInv, ClosedInv, Orderly,
           FamiliesApart
    PROVE  ClosedInv'
  <1>1. ASSUME NEW x \in Ids, NEW i \in DOMAIN Continuation[x], Started(Continuation[x][i])'
        PROVE  Closed(x)'
    <2> DEFINE t == Continuation[x][i]
    <2>1. t \in Ids
      BY InstanceAssumption
    <2>2. \/ evals'[t] > 0
          \/ \E p \in Procs : exec'[p].pc # "idle" /\ exec'[p].id = t
      BY <1>1 DEF Started
    <2>3. Closed(x)
      BY <2>1, <2>2, StartsWhenClosed
    <2> QED
      BY <2>3, ClosedStays
  <1>2. ASSUME NEW x \in Ids, NEW p \in Procs, exec'[p].id = x, "notify" \in exec'[p].jobs
        PROVE  Closed(x)'
    <2>1. exec'[p].pc # "idle"
      BY <1>2 DEF TypeInv, ExecOK
    <2>2. Onward(exec'[p], exec[p])
      BY DEF Orderly
    <2>3. exec[p].pc # "idle" /\ exec[p].id = x
      BY <1>2, <2>1, <2>2 DEF Onward, Continues
    <2>4. CASE "notify" \in exec[p].jobs
      BY <2>3, <2>4, ClosedStays DEF ClosedInv
    <2>5. CASE /\ exec[p].pc = "finishing" /\ heap[<<exec[p].id, exec[p].task>>].complete
               /\ exec'[p].pc = "unlock" /\ exec'[p].todo = <<>>
      BY <2>3, <2>5, FinishCloses
    <2> QED
      BY <1>2, <2>2, <2>4, <2>5 DEF Onward, NotifiesOn
  <1>3. ASSUME NEW t \in Ids, IsStored(t)', NEW y \in heap'[<<t, stored'[t]>>].parents
        PROVE  \/ y \in Blueprint[t].parents
               \/ y \in Ids /\ \E i \in DOMAIN Continuation[y] : Continuation[y][i] = t
    <2>1. stored'[t] # 0
      BY <1>3 DEF IsStored
    <2> QED
      BY <2>1, <1>3, ParentsAreDeclared
  <1> QED
    BY <1>1, <1>2, <1>3 DEF ClosedInv, IsStored, StoredTask, Ref

\* The children of a response do not begin before the last of them is created,
\* in every instance without API calls where only responses make tasks depend
\* on the task that returns them.
THEOREM SiblingsAreAwaited ==
    ASSUME FamiliesApart
    PROVE  Spec => []ChildrenWaitForSiblings
  <1>0. ApiOps = {}
    BY DEF FamiliesApart
  <1>1. Init => ClosedInv
    <2> SUFFICES ASSUME Init PROVE ClosedInv
      OBVIOUS
    <2>1. \A p \in Procs : exec[p].pc = "idle" /\ exec[p].jobs = {}
      BY DEF Init, IdleExec
    <2>2. ASSUME NEW x \in Ids, NEW i \in DOMAIN Continuation[x]
          PROVE  ~Started(Continuation[x][i])
      <3>1. Continuation[x][i] \in Ids /\ Continuation[x][i] \notin Preloaded
        BY InstanceAssumption DEF FamiliesApart
      <3>2. evals[Continuation[x][i]] = 0
        BY <3>1 DEF Init
      <3> QED
        BY <2>1, <3>2 DEF Started
    <2>3. ASSUME NEW t \in Ids, IsStored(t) PROVE StoredTask(t).parents = Blueprint[t].parents
      <3>1. Ref(t) \in Refs /\ Ref(t)[1] = t
        BY <2>3, InitTypes, StoredTaskType DEF Ref
      <3> QED
        BY <3>1 DEF Init, StoredTask
    <2> QED
      BY <2>1, <2>2, <2>3 DEF ClosedInv
  <1>2. TypeInv /\ TypeInv' /\ LockDiscipline /\ MadeInv /\ PlacedInv /\ ClosedInv /\ [Next]_vars
           => ClosedInv'
    BY <1>0, NextOrderly, NextKeepsClosed
  <1>3. ASSUME TypeInv, PlacedInv, ClosedInv, NEW p \in Procs, NEW q \in Procs,
               exec[p].pc = "finishing", exec[p].todo # <<>>, InCall(q),
               exec[p].id \in heap[Task(q)].parents
        PROVE  FALSE
    <2> DEFINE x == exec[p].id
               t == exec[q].id
    <2>1. x \in Ids /\ t \in Ids /\ exec[p] \in ExecType /\ exec[q].pc # "idle"
      BY <1>3, SlotInUse DEF InCall
    <2>2. Task(q) = Ref(t) /\ IsStored(t)
      BY <1>3, <2>1 DEF PlacedInv, Placed, Task, Ref, IsStored
    <2>3. \/ x \in Blueprint[t].parents
          \/ \E i \in DOMAIN Continuation[x] : Continuation[x][i] = t
      BY <1>3, <2>1, <2>2 DEF ClosedInv, StoredTask
    <2>4. Continuation[x] # <<>>
      <3>1. exec[p].todo \in Seq(Ids) /\ Continuation[x] \in Seq(Ids)
        BY <2>1, InstanceAssumption DEF ExecType
      <3>2. Len(Continuation[x]) - Len(exec[p].todo) >= 0
        BY <1>3 DEF PlacedInv, Placed, Resumes
      <3> QED
        BY <1>3, <3>1, <3>2
    <2>5. PICK i \in DOMAIN Continuation[x] : Continuation[x][i] = t
      BY <2>1, <2>3, <2>4 DEF FamiliesApart
    <2>6. Started(t)
      BY <2>1 DEF Started
    <2>7. Closed(x)
      BY <1>3, <2>1, <2>5, <2>6 DEF ClosedInv
    <2> QED
      BY <1>3, <2>7 DEF Closed, Unfinished
  <1>4. TypeInv /\ PlacedInv /\ ClosedInv => ChildrenWaitForSiblings
    BY <1>3 DEF ChildrenWaitForSiblings
  <1>5. Spec => []PlacedInv
    BY <1>0, GoroutinesHaveTheirPlace
  <1> QED
    BY <1>1, <1>2, <1>4, <1>5, TypeInvariant, LocksAreDisciplined, PointersLeadToMade, PTL
       DEF Spec
=============================================================================
