----------------------------- MODULE Execution -----------------------------
(***************************************************************************)
(* The life of a task under one crew server with the in-memory storage:    *)
(* TaskController.TriggerTaskEvaluate, Evaluate, Execute and the handlers  *)
(* that touch one task (src/crew/task_controller.go), over                 *)
(* MemoryTaskStorage (src/crew/task_storage.go).                           *)
(*                                                                         *)
(* The storage hands out POINTERS.  FindTask returns the stored object     *)
(* itself, so a field written by a handler is seen at once by a goroutine  *)
(* that read the task earlier, and a goroutine that holds a task that was  *)
(* deleted goes on working with the old object and the old semaphore.  A   *)
(* pointer is a pair <<id, n>>: the n-th object created under that id.     *)
(***************************************************************************)
EXTENDS CrewTask, Sequences, FiniteSets

CONSTANTS
    Procs,          \* Execute goroutines that can be alive at once (a bound)
    MaxInc,         \* objects ever created under one id (a bound)
    MaxApi,         \* API calls in one behaviour (a bound)
    MaxTime,        \* last instant of the clock (a bound)
    Blueprint,      \* the task that is created under each id
    Preloaded,      \* ids whose tasks exist, just created, at the start
    CreationOrder,  \* the order in which those were created
    Continuation,   \* children that the worker of each task returns
    Key, NoKey,     \* key of each task; the empty key
    Group,          \* task group of each task
    Workgroup,      \* workgroup of each task
    Responses,      \* responses a worker call may end with
    ApiOps,         \* API operations that are used
    Grants,         \* remainingAttempts values that callers send
    Updates,        \* field updates that callers send
    Prompt,         \* a holder past its last decision unlocks within a timer
    NoId

Refs == Ids \X (1 .. MaxInc)

\* ok: the worker answered 200 without an error.  The delays are applied
\* whatever the outcome.
ResponseType ==
    [ok : BOOLEAN, childrenDelay : Nat, workgroupDelay : Nat]

OpNames == {"create", "delete", "reset", "retry", "update"}

ASSUME BoundsAssumption ==
    /\ MaxInc \in Nat \ {0}
    /\ MaxApi \in Nat
    /\ MaxTime \in Nat
    /\ IsFiniteSet(Ids)

ASSUME InstanceAssumption ==
    /\ Blueprint \in [Ids -> TaskType]
    /\ \A id \in Ids : ~Blueprint[id].busy
    /\ Preloaded \subseteq Ids
    /\ CreationOrder \in [Ids -> Nat \ {0}]
    /\ Continuation \in [Ids -> Seq(Ids)]
    /\ DOMAIN Key = Ids
    /\ DOMAIN Group = Ids
    /\ DOMAIN Workgroup = Ids
    /\ Responses \subseteq ResponseType
    /\ ApiOps \subseteq OpNames
    /\ Grants \subseteq Int
    /\ Updates \subseteq UpdateType
    /\ Prompt \in BOOLEAN
    /\ NoId \notin Ids

VARIABLES
    heap,       \* the Task objects, by pointer
    stored,     \* storage.tasks: number of the object stored per id, 0 if none
    made,       \* objects created so far under each id
    born,       \* when each object was created, which orders every index
    sem,        \* is the semaphore made with each object held?
    evals,      \* goroutines started by TriggerTaskEvaluate, per id
    exec,       \* the Execute goroutines
    now,        \* the clock
    calls,      \* API calls made
    crashed,    \* the process died of a panic
    pausedCalls \* history: worker calls begun since the task was last paused

vars == <<heap, stored, made, born, sem, evals, exec, now, calls, crashed,
          pausedCalls>>

Pcs == { "idle",        \* no such goroutine
         "execute",     \* Evaluate found the task executable
         "timer",       \* waits for the start time
         "locked",      \* has the semaphore, has not looked at the task
         "throttled",   \* waits for the throttler
         "posting",     \* the worker call is under way
         "settling",    \* the call returned, its result is not yet written
         "finishing",   \* creates children, then ends the attempt
         "unlock",      \* everything decided, deferred unlock to come
         "background" } \* only the goroutines it started are left

Jobs == {"childrenDelay", "workgroupDelay", "notify", "match", "merge"}

NoResponse == [ok |-> FALSE, childrenDelay |-> 0, workgroupDelay |-> 0]

IdleExec ==
    [ pc |-> "idle", id |-> NoId, task |-> 0, lock |-> 0, timer |-> 0,
      parents |-> {}, resp |-> NoResponse, left |-> 0, todo |-> <<>>,
      jobs |-> {}, matches |-> {} ]

ExecType ==
    [ pc      : Pcs,
      id      : Ids \cup {NoId},
      task    : 0 .. MaxInc,        \* object it works on (taskToExecute, task)
      lock    : 0 .. MaxInc,        \* semaphore it holds, 0 if none
      timer   : Nat,                \* instant its timer fires
      parents : SUBSET Refs,        \* parents as Execute read them
      resp    : ResponseType,       \* workerResponse
      left    : Int,                \* RemainingAttempts as loaded to decrement
      todo    : Seq(Ids),           \* children still to create
      jobs    : SUBSET Jobs,        \* background goroutines not yet done
      matches : SUBSET Refs ]       \* duplicates still to complete

TypeOK ==
    /\ heap \in [Refs -> TaskType]
    /\ stored \in [Ids -> 0 .. MaxInc]
    /\ made \in [Ids -> 0 .. MaxInc]
    /\ born \in [Refs -> Nat]
    /\ sem \in [Refs -> BOOLEAN]
    /\ evals \in [Ids -> Nat]
    /\ exec \in [Procs -> ExecType]
    /\ now \in Nat
    /\ calls \in Nat
    /\ crashed \in BOOLEAN
    /\ pausedCalls \in [Refs -> Nat]

\* Tasks just created over the API: stored and about to be evaluated.
Init ==
    /\ heap = [r \in Refs |-> Blueprint[r[1]]]
    /\ stored = [id \in Ids |-> IF id \in Preloaded THEN 1 ELSE 0]
    /\ made = stored
    /\ born = [r \in Refs |-> IF r[1] \in Preloaded /\ r[2] = 1
                             THEN CreationOrder[r[1]] ELSE 0]
    /\ sem = [r \in Refs |-> FALSE]
    /\ evals = [id \in Ids |-> IF id \in Preloaded THEN 1 ELSE 0]
    /\ exec = [p \in Procs |-> IdleExec]
    /\ now = 0
    /\ calls = 0
    /\ crashed = FALSE
    /\ pausedCalls = [r \in Refs |-> 0]

-----------------------------------------------------------------------------
(* Storage lookups.                                                        *)

IsStored(id) == stored[id] # 0

Ref(id) == <<id, stored[id]>>

StoredTask(id) == heap[Ref(id)]

\* GetTaskParents: the parents that can be found; the others are skipped.
GetTaskParents(id) ==
    IF IsStored(id)
    THEN {Ref(q) : q \in {q \in StoredTask(id).parents : IsStored(q)}}
    ELSE {}

GetTaskChildren(id) ==
    {c \in Ids : IsStored(c) /\ id \in StoredTask(c).parents}

\* The in-memory GetTaskChildren and GetTasksInWorkgroup end in `tasks, nil`.
GetTaskChildrenFails == FALSE
GetTasksInWorkgroupFails == FALSE

TasksWithKey(key) == {Ref(id) : id \in {id \in Ids : IsStored(id) /\ Key[id] = key}}

TasksInWorkgroup(group) ==
    {Ref(id) : id \in {id \in Ids : IsStored(id) /\ Workgroup[id] = group}}

Executable(task, parents) == CanExecute(task, {heap[r] : r \in parents})

\* Can the stored task be executed as things stand?
CanExecuteNow(id) == IsStored(id) /\ Executable(StoredTask(id), GetTaskParents(id))

\* TriggerTaskEvaluate for every id of a set.
Trigger(ids) == [id \in Ids |-> IF id \in ids THEN evals[id] + 1 ELSE evals[id]]

Task(p) == <<exec[p].id, exec[p].task>>

Lock(p) == <<exec[p].id, exec[p].lock>>

At(p, pc) == exec[p].pc = pc /\ ~crashed

-----------------------------------------------------------------------------
(* TriggerTaskEvaluate's goroutine: FindTask, Evaluate, and what Execute   *)
(* does before its own goroutine takes over.                               *)

\* The task is gone or cannot execute: nothing more comes of this trigger.
EvaluateDrops(id) ==
    /\ evals[id] > 0 /\ ~crashed
    /\ ~CanExecuteNow(id)
    /\ evals' = [evals EXCEPT ![id] = @ - 1]
    /\ UNCHANGED <<heap, stored, made, born, sem, exec, now, calls, crashed, pausedCalls>>

EvaluateExecutes(id, p) ==
    /\ evals[id] > 0
    /\ At(p, "idle")
    /\ CanExecuteNow(id)
    /\ evals' = [evals EXCEPT ![id] = @ - 1]
    /\ exec' = [exec EXCEPT ![p] =
                   [IdleExec EXCEPT !.pc = "execute", !.id = id, !.task = stored[id]]]
    /\ UNCHANGED <<heap, stored, made, born, sem, now, calls, crashed, pausedCalls>>

LaterUnclamped(s, t) == t - s

Later(s, t) == IF s > t THEN s ELSE t

\* Execute reads the parents a second time and sets the timer from RunAfter.
Execute(p) ==
    /\ At(p, "execute")
    /\ exec' = [exec EXCEPT ![p] =
                   [@ EXCEPT !.pc = "timer",
                             !.parents = GetTaskParents(exec[p].id),
                             !.timer = Later(now, heap[Task(p)].runAfter)]]
    /\ UNCHANGED <<heap, stored, made, born, sem, evals, now, calls, crashed, pausedCalls>>

-----------------------------------------------------------------------------
(* TryLockTask, when the timer fires.                                      *)

TimerFires(p) == At(p, "timer") /\ exec[p].timer <= now

TryAcquireAlways(id) == TRUE

TryAcquire(id) == ~sem[Ref(id)]

\* The id has no semaphore any more: lock.TryAcquire on a nil pointer.
LockPanics(p) ==
    /\ TimerFires(p)
    /\ ~IsStored(exec[p].id)
    /\ crashed' = TRUE
    /\ UNCHANGED <<heap, stored, made, born, sem, evals, exec, now, calls, pausedCalls>>

\* A goroutine that is only a deferred unlock away from releasing the lock.
AboutToUnlock(id) == \E q \in Procs : exec[q].pc = "unlock" /\ Lock(q) = Ref(id)

LockFails(p) ==
    /\ TimerFires(p)
    /\ IsStored(exec[p].id)
    /\ ~TryAcquire(exec[p].id)
    /\ Prompt => ~AboutToUnlock(exec[p].id)
    /\ exec' = [exec EXCEPT ![p] = IdleExec]
    /\ UNCHANGED <<heap, stored, made, born, sem, evals, now, calls, crashed, pausedCalls>>

LockAcquired(p) ==
    /\ TimerFires(p)
    /\ IsStored(exec[p].id)
    /\ TryAcquire(exec[p].id)
    /\ sem' = [sem EXCEPT ![Ref(exec[p].id)] = TRUE]
    /\ exec' = [exec EXCEPT ![p] = [@ EXCEPT !.pc = "locked", !.lock = stored[exec[p].id]]]
    /\ UNCHANGED <<heap, stored, made, born, evals, now, calls, crashed, pausedCalls>>

-----------------------------------------------------------------------------
(* Under the lock: look again, wait for the throttler, call the worker.    *)

NeverTooEarly(id) == FALSE

NotYetOrNow(id) == StoredTask(id).runAfter >= now

NotYet(id) == StoredTask(id).runAfter > now

\* The parents are the objects read before the timer, with their state now.
StillFitTrustsEvaluate(p) == IsStored(exec[p].id) /\ ~NotYet(exec[p].id)

StillFit(p) ==
    /\ IsStored(exec[p].id)
    /\ ~NotYet(exec[p].id)
    /\ Executable(StoredTask(exec[p].id), exec[p].parents)

RecheckEnds(p) ==
    /\ At(p, "locked")
    /\ ~StillFit(p)
    /\ evals' = IF IsStored(exec[p].id) /\ NotYet(exec[p].id)
                THEN Trigger({exec[p].id})
                ELSE evals
    /\ exec' = [exec EXCEPT ![p] = [@ EXCEPT !.pc = "unlock"]]
    /\ UNCHANGED <<heap, stored, made, born, sem, now, calls, crashed, pausedCalls>>

RecheckGoesOn(p) ==
    /\ At(p, "locked")
    /\ StillFit(p)
    /\ exec' = [exec EXCEPT ![p] = [@ EXCEPT !.pc = "throttled", !.task = stored[exec[p].id]]]
    /\ UNCHANGED <<heap, stored, made, born, sem, evals, now, calls, crashed, pausedCalls>>

\* The throttler let it through (src/main.go): busy is saved, Post is called.
Start(p) ==
    /\ At(p, "throttled")
    /\ heap' = [heap EXCEPT ![Task(p)].busy = TRUE]
    /\ exec' = [exec EXCEPT ![p] = [@ EXCEPT !.pc = "posting"]]
    /\ pausedCalls' =
          [pausedCalls EXCEPT ![Task(p)] = IF heap[Task(p)].paused THEN @ + 1 ELSE @]
    /\ UNCHANGED <<stored, made, born, sem, evals, now, calls, crashed>>

\* Post returned and the throttler was told; RemainingAttempts is loaded to be
\* decremented, in a step apart from the store because handlers write it too.
PostReturns(p, resp) ==
    /\ At(p, "posting")
    /\ exec' = [exec EXCEPT ![p] =
                   [@ EXCEPT !.pc = "settling", !.resp = resp, !.parents = {},
                             !.timer = 0, !.left = heap[Task(p)].attempts - 1]]
    /\ UNCHANGED <<heap, stored, made, born, sem, evals, now, calls, crashed, pausedCalls>>

Result(p) ==
    LET ok == exec[p].resp.ok
        tried == Attempted(heap[Task(p)], exec[p].left,
                           IF ok THEN exec[p].id ELSE NoOutput)
    IN  IF ok THEN [tried EXCEPT !.complete = TRUE] ELSE Failed(tried, now)

\* isComplete is already set when the children are still to be created.
Settle(p) ==
    /\ At(p, "settling")
    /\ heap' = [heap EXCEPT ![Task(p)] = Result(p)]
    /\ exec' = [exec EXCEPT ![p] =
                   [@ EXCEPT !.pc = "finishing", !.left = 0,
                             !.todo = IF exec[p].resp.ok THEN Continuation[exec[p].id]
                                      ELSE <<>>]]
    /\ UNCHANGED <<stored, made, born, sem, evals, now, calls, crashed, pausedCalls>>

Created == {r \in Refs : r[2] <= made[r[1]]}

\* SaveTask(task, true).  An id that is taken is left alone, without an error.
SaveNewTask(id, task) ==
    IF IsStored(id)
    THEN UNCHANGED <<heap, stored, made, born>>
    ELSE /\ made[id] < MaxInc
         /\ born' = [born EXCEPT ![<<id, made[id] + 1>>] = Cardinality(Created) + 1]
         /\ made' = [made EXCEPT ![id] = @ + 1]
         /\ stored' = [stored EXCEPT ![id] = made[id] + 1]
         /\ heap' = [heap EXCEPT ![<<id, made[id] + 1>>] = task]

EvaluatedWhenCreated(id) == {id}

\* The children are saved, not created with CreateTask: none is evaluated yet.
EvaluatedWhenSaved(id) == {}

CreateChild(p) ==
    /\ At(p, "finishing")
    /\ exec[p].todo # <<>>
    /\ LET child == Head(exec[p].todo)
       IN  /\ SaveNewTask(child, ChildOf(exec[p].id, Blueprint[child]))
           /\ evals' = Trigger(EvaluatedWhenSaved(child))
    /\ exec' = [exec EXCEPT ![p] = [@ EXCEPT !.todo = Tail(exec[p].todo)]]
    /\ UNCHANGED <<sem, now, calls, crashed, pausedCalls>>

\* What the end of an attempt starts in the background.
DelayJobs(resp) ==
    {j \in {"childrenDelay"} : resp.childrenDelay > 0}
      \cup {j \in {"workgroupDelay"} : resp.workgroupDelay > 0}

DoneJobs(id) == {"notify"} \cup {j \in {"match"} : Key[id] # NoKey}

NoRetryTrigger(p) == {}

\* An attempt that did not complete the task has it evaluated again.
RetryTrigger(p) == {id \in {exec[p].id} : ~heap[Task(p)].complete}

\* The end of the attempt looks at isComplete as it is now, whoever set it.
Finish(p) ==
    /\ At(p, "finishing")
    /\ exec[p].todo = <<>>
    /\ evals' = Trigger(RetryTrigger(p))
    /\ exec' = [exec EXCEPT ![p] =
                   [@ EXCEPT !.pc = "unlock",
                             !.jobs = DelayJobs(exec[p].resp) \cup
                                      (IF heap[Task(p)].complete
                                       THEN DoneJobs(exec[p].id) ELSE {})]]
    /\ UNCHANGED <<heap, stored, made, born, sem, now, calls, crashed, pausedCalls>>

\* A slot is free again when its goroutine and all that it started are done.
Freed(e) == IF e.pc = "background" /\ e.jobs = {} THEN IdleExec ELSE e

ReleasedById(p) == Ref(exec[p].id)

Released(p) == Lock(p)

\* The deferred unlock (and Pending.Done) releases the semaphore acquired,
\* which is not the stored one if the task was deleted meanwhile.
Unlock(p) ==
    /\ At(p, "unlock")
    /\ sem' = [sem EXCEPT ![Released(p)] = FALSE]
    /\ exec' = [exec EXCEPT ![p] = Freed([@ EXCEPT !.pc = "background", !.lock = 0])]
    /\ UNCHANGED <<heap, stored, made, born, evals, now, calls, crashed, pausedCalls>>

-----------------------------------------------------------------------------
(* The goroutines an attempt leaves behind.                                *)

HasJob(p, job) == job \in exec[p].jobs /\ ~crashed

JobDone(p, job) == exec' = [exec EXCEPT ![p] = Freed([@ EXCEPT !.jobs = exec[p].jobs \ {job}])]

NotifyNobody(p) == {}

Notified(p) == GetTaskChildren(exec[p].id)

NotifyChildren(p) ==
    /\ HasJob(p, "notify")
    /\ evals' = Trigger(Notified(p))
    /\ JobDone(p, "notify")
    /\ UNCHANGED <<heap, stored, made, born, sem, now, calls, crashed, pausedCalls>>

\* for each task: RunAfter = now + delay
Delayed(refs, delay) ==
    [r \in Refs |-> IF r \in refs THEN [heap[r] EXCEPT !.runAfter = now + delay]
                    ELSE heap[r]]

\* The delay is written when the lookup FAILED (`getChildrenError != nil`), and
\* the lookup of the in-memory storage never does.
ApplyChildrenDelay(p) ==
    /\ HasJob(p, "childrenDelay")
    /\ heap' = IF GetTaskChildrenFails
               THEN Delayed({Ref(c) : c \in GetTaskChildren(exec[p].id)},
                            exec[p].resp.childrenDelay)
               ELSE heap
    /\ JobDone(p, "childrenDelay")
    /\ UNCHANGED <<stored, made, born, sem, evals, now, calls, crashed, pausedCalls>>

ApplyWorkgroupDelay(p) ==
    /\ HasJob(p, "workgroupDelay")
    /\ heap' = IF GetTasksInWorkgroupFails
               THEN Delayed(TasksInWorkgroup(Workgroup[exec[p].id]),
                            exec[p].resp.workgroupDelay)
               ELSE heap
    /\ JobDone(p, "workgroupDelay")
    /\ UNCHANGED <<stored, made, born, sem, evals, now, calls, crashed, pausedCalls>>

\* The other tasks with the key, in any group, if the index holds two or more.
Duplicates(p) ==
    LET matches == TasksWithKey(Key[exec[p].id])
    IN  IF Cardinality(matches) > 1
        THEN {r \in matches : r[1] # exec[p].id} ELSE {}

FindDuplicates(p) ==
    /\ HasJob(p, "match")
    /\ exec' = [exec EXCEPT ![p] =
                   Freed([@ EXCEPT !.matches = Duplicates(p),
                                   !.jobs = (exec[p].jobs \ {"match"}) \cup
                                       {j \in {"merge"} : Duplicates(p) # {}}])]
    /\ UNCHANGED <<heap, stored, made, born, sem, evals, now, calls, crashed, pausedCalls>>

Merged(match, source) ==
    [heap EXCEPT ![match].complete = TRUE, ![match].output = heap[source].output]

\* The matches are taken in the order of the index.  Like the delays, the
\* children of a duplicate are notified when the lookup of them FAILED.
MergeOne(p, match) ==
    /\ HasJob(p, "merge")
    /\ match \in exec[p].matches
    /\ \A other \in exec[p].matches : born[match] <= born[other]
    /\ heap' = Merged(match, Task(p))
    /\ evals' = IF GetTaskChildrenFails THEN Trigger(GetTaskChildren(match[1])) ELSE evals
    /\ LET rest == exec[p].matches \ {match}
       IN  exec' = [exec EXCEPT ![p] =
                       Freed([@ EXCEPT !.matches = rest,
                                       !.jobs = IF rest = {} THEN exec[p].jobs \ {"merge"}
                                                ELSE exec[p].jobs])]
    /\ UNCHANGED <<stored, made, born, sem, now, calls, crashed, pausedCalls>>

-----------------------------------------------------------------------------
(* The API handlers that touch one task, each a goroutine of its own.  One *)
(* whose FindTask fails returns an error and changes nothing.              *)

Call(op) == op \in ApiOps /\ calls < MaxApi /\ calls' = calls + 1 /\ ~crashed

\* POST .../tasks.  Creating an existing task leaves it alone and evaluates it.
CreateTask(id) ==
    /\ Call("create")
    /\ SaveNewTask(id, Blueprint[id])
    /\ evals' = Trigger({id})
    /\ UNCHANGED <<sem, exec, now, crashed, pausedCalls>>

\* The object and its semaphore stay with whoever still points to them.
DeleteTask(id) ==
    /\ Call("delete")
    /\ IsStored(id)
    /\ stored' = [stored EXCEPT ![id] = 0]
    /\ UNCHANGED <<heap, made, born, sem, evals, exec, now, crashed, pausedCalls>>

ResetTask(id, attempts) ==
    /\ Call("reset")
    /\ IsStored(id)
    /\ heap' = [heap EXCEPT ![Ref(id)] = Reset(@, attempts, now)]
    /\ evals' = Trigger({id})
    /\ UNCHANGED <<stored, made, born, sem, exec, now, crashed, pausedCalls>>

RetryTask(id, attempts) ==
    /\ Call("retry")
    /\ IsStored(id)
    /\ heap' = [heap EXCEPT ![Ref(id)] = Retried(@, attempts)]
    /\ evals' = Trigger({id})
    /\ UNCHANGED <<stored, made, born, sem, exec, now, crashed, pausedCalls>>

UpdateTriggers(task, u) == ShouldReEvaluate(u) /\ ~task.complete /\ ~task.paused

UpdateTask(id, u) ==
    /\ Call("update")
    /\ IsStored(id)
    /\ LET task == Updated(StoredTask(id), u)
       IN  /\ heap' = [heap EXCEPT ![Ref(id)] = task]
           /\ evals' = IF UpdateTriggers(task, u) THEN Trigger({id}) ELSE evals
           /\ pausedCalls' = [pausedCalls EXCEPT ![Ref(id)] = IF task.paused THEN @ ELSE 0]
    /\ UNCHANGED <<stored, made, born, sem, exec, now, crashed>>

-----------------------------------------------------------------------------
\* Time is only compared, so it need not pass when nothing lies in the future.
Awaited ==
    \/ \E p \in Procs : exec[p].timer > now
    \/ \E id \in Ids : IsStored(id) /\ StoredTask(id).runAfter > now

Tick ==
    /\ now < MaxTime /\ ~crashed
    /\ Awaited
    /\ now' = now + 1
    /\ UNCHANGED <<heap, stored, made, born, sem, evals, exec, calls, crashed, pausedCalls>>

\* A server that has nothing to do, or is dead, stays as it is.
Quiescent == \A id \in Ids, p \in Procs : evals[id] = 0 /\ exec[p].pc = "idle"

Rest == (Quiescent \/ crashed) /\ UNCHANGED vars

ExecuteStep(p) ==
    \/ Execute(p)
    \/ LockPanics(p) \/ LockFails(p) \/ LockAcquired(p)
    \/ RecheckEnds(p) \/ RecheckGoesOn(p)
    \/ Start(p)
    \/ \E resp \in Responses : PostReturns(p, resp)
    \/ Settle(p)
    \/ CreateChild(p)
    \/ Finish(p)
    \/ Unlock(p)

BackgroundStep(p) ==
    \/ NotifyChildren(p)
    \/ ApplyChildrenDelay(p)
    \/ ApplyWorkgroupDelay(p)
    \/ FindDuplicates(p)
    \/ \E match \in Refs : MergeOne(p, match)

ApiCall ==
    \E id \in Ids :
        \/ CreateTask(id)
        \/ DeleteTask(id)
        \/ \E n \in Grants : ResetTask(id, n) \/ RetryTask(id, n)
        \/ \E u \in Updates : UpdateTask(id, u)

Next ==
    \/ \E id \in Ids : EvaluateDrops(id)
    \/ \E id \in Ids, p \in Procs : EvaluateExecutes(id, p)
    \/ \E p \in Procs : ExecuteStep(p) \/ BackgroundStep(p)
    \/ ApiCall
    \/ Tick
    \/ Rest

Spec == Init /\ [][Next]_vars

\* Goroutines are scheduled, worker calls end (the client times out after 300
\* seconds), the throttler answers and time passes.  API calls are not owed.
Fairness ==
    /\ \A id \in Ids : /\ WF_vars(EvaluateDrops(id))
                       /\ SF_vars(\E p \in Procs : EvaluateExecutes(id, p))
    /\ \A p \in Procs : WF_vars(ExecuteStep(p)) /\ WF_vars(BackgroundStep(p))
    /\ WF_vars(Tick)

FairSpec == Spec /\ Fairness

-----------------------------------------------------------------------------
(* Properties.                                                             *)

HoldingPcs == {"locked", "throttled", "posting", "settling", "finishing", "unlock"}

Holding(p) == exec[p].pc \in HoldingPcs

\* The worker is being called with this task.
InCall(p) == exec[p].pc = "posting"

\* The step begins a worker call.
Begins(p) == exec[p].pc = "throttled" /\ exec'[p].pc = "posting"

\* TryLockTask and the deferred unlock: a semaphore has at most one holder,
\* is taken as long as it has one, and is never left taken with no goroutine
\* that would release it (the task could not be executed ever again).
LockDiscipline ==
    /\ \A p \in Procs : Holding(p) => Lock(p) \in Refs /\ sem[Lock(p)]
    /\ \A p, q \in Procs : Holding(p) /\ Holding(q) /\ p # q => Lock(p) # Lock(q)
    /\ \A r \in Refs : sem[r] => \E p \in Procs : Holding(p) /\ Lock(p) = r

\* Execute holds the lock over the worker call so that no task is given to two
\* workers at a time.  The lock belongs to the object and not to the id, so
\* this is promised for as long as no task was created anew under the id.
OneWorkerCall ==
    \A p, q \in Procs :
        InCall(p) /\ InCall(q) /\ p # q /\ exec[p].id = exec[q].id
            => made[exec[p].id] > 1

\* BusyExecuting, which clients and the UI show, is set during a worker call
\* and never stays set after one, whatever handlers do to the task meanwhile.
BusyTellsTheTruth ==
    \A r \in Refs :
        made[r[1]] <= 1 =>
            (heap[r].busy <=>
                \E p \in Procs : exec[p].pc \in {"posting", "settling"} /\ Task(p) = r)

\* RemainingAttempts pays for every worker call: no interleaving of goroutines
\* and retries or resets with positive grants overdraws it.
NoOverdraft ==
    \A r \in Refs : made[r[1]] <= 1 => heap[r].attempts >= 0

\* A worker is not called with a task that is complete already (when only
\* worker calls complete tasks), however many goroutines were started for it.
CompleteNotCalled ==
    \A p \in Procs :
        InCall(p) /\ made[exec[p].id] <= 1 => ~heap[Task(p)].complete

\* HandleExecuteError: no attempt is made before the error delay of the last one
\* is over, not even by a goroutine whose timer was set before the error.
RetryWaits ==
    \A p \in Procs :
        InCall(p) /\ made[exec[p].id] <= 1 => heap[Task(p)].runAfter <= now

\* Pausing a task lets the one call through that had already passed the check
\* under the lock (it may sit in the throttler's queue), and never a second:
\* not the retry after its failure, and not another goroutine of the task.
PauseAdmitsAtMostOne ==
    \A r \in Refs : made[r[1]] <= 1 => pausedCalls[r] <= 1

\* Deleting and creating tasks under an id while goroutines of the old ones are
\* alive: there are no more worker calls for an id than objects were made.
CallsWithinObjects ==
    \A id \in Ids :
        Cardinality({p \in Procs : InCall(p) /\ exec[p].id = id}) <= made[id]

\* What the check under the lock achieves: a task waits for the throttler with a
\* parent incomplete only if a caller undid that parent (reset it, cleared its
\* isComplete) after the check.  Neither parents that Execute read before they
\* were undone nor parents it did not find let a child through.  Parents that
\* are not stored hold nothing up; said of the first object under each id.
ParentsDone(id) ==
    stored[id] = 1 =>
        \A q \in StoredTask(id).parents : stored[q] = 1 => StoredTask(q).complete

OnlyCallersUndoParents ==
    [][\A p \in Procs :
          exec'[p].pc = "throttled" /\ ~ParentsDone(exec[p].id)' =>
              exec[p].pc = "throttled" /\ (~ParentsDone(exec[p].id) \/ calls' # calls)]_vars

\* README, About Tree Structure: "A task will never be assigned to a worker
\* until all of it's parent tasks have completed successfully."
ParentsFirst ==
    [][\A p \in Procs : Begins(p) =>
          \A q \in heap[Task(p)].parents : IsStored(q) /\ StoredTask(q).complete]_vars

\* Execute, on children of a worker response: "children won't begin exec until
\* we are done creating them all".
ChildrenWaitForSiblings ==
    \A p, q \in Procs :
        exec[p].pc = "finishing" /\ exec[p].todo # <<>> /\ InCall(q)
            => exec[p].id \notin heap[Task(q)].parents

\* The goroutine of an attempt never dies of a nil semaphore.
NeverPanics == ~crashed

\* Every task that can be executed is executed in the end: no trigger is lost
\* between the end of an attempt, the retries, the parents' notifications and
\* the handlers, and no task waits for a trigger nobody will send.
NothingLeftBehind == <>[](\A id \in Ids : ~CanExecuteNow(id))

\* Goroutines come to an end: evaluations do not trigger each other forever,
\* and none is stuck on a lock, a timer or a child it has to create.
EventuallyQuiet == <>[]Quiescent
=============================================================================
