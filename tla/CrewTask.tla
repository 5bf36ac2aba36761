------------------------------ MODULE CrewTask ------------------------------
(***************************************************************************)
(* The Task entity of crew (src/crew/task.go) and the pure computations    *)
(* the controller makes on one task: whether it can execute, what a reset, *)
(* a retry or an update of its fields leaves, and how a child task that a  *)
(* worker returned is filled in.                                           *)
(*                                                                         *)
(* A task is a record.  Its id, key, workgroup and group never change once *)
(* it is created (UpdateTask refuses to touch them), so they are functions *)
(* of the id, declared as constants by the modules that need them.  Name,  *)
(* input, errors, isSeed and createdAt decide nothing here and are left    *)
(* out; the output keeps only which task's worker call produced it.        *)
(***************************************************************************)
EXTENDS Integers

CONSTANTS
    Ids,            \* task ids
    Workers,        \* names of workers
    NoWorker,       \* the empty worker name
    NoOutput,       \* a nil output
    Keep            \* "this field is absent from the update"

ASSUME NoWorkerAssumption == NoWorker \notin Workers
ASSUME NoOutputAssumption == NoOutput \notin Ids

\* NewTask gives a task this many attempts, and so does a child whose
\* remainingAttempts is 0.  A child whose error delay is 0 gets 60 seconds.
CONSTANTS DefaultAttempts, DefaultErrorDelay

ASSUME DefaultsAssumption ==
    DefaultAttempts \in Nat \ {0} /\ DefaultErrorDelay \in Nat \ {0}

TaskType ==
    [ attempts   : Int,                       \* RemainingAttempts
      paused     : BOOLEAN,                   \* IsPaused
      complete   : BOOLEAN,                   \* IsComplete
      runAfter   : Nat,                       \* RunAfter, on the model's clock
      errorDelay : Nat,                       \* ErrorDelayInSeconds
      busy       : BOOLEAN,                   \* BusyExecuting
      worker     : Workers \cup {NoWorker},
      output     : Ids \cup {NoOutput},
      parents    : SUBSET Ids ]               \* ParentIds

\* The body of PUT .../task/:task_id: each field is given or kept.
UpdateType ==
    [ attempts   : Int \cup {Keep},
      paused     : BOOLEAN \cup {Keep},
      complete   : BOOLEAN \cup {Keep},
      runAfter   : Nat \cup {Keep},
      errorDelay : Nat \cup {Keep},
      worker     : Workers \cup {NoWorker, Keep},
      output     : Ids \cup {NoOutput, Keep} ]

-----------------------------------------------------------------------------
(* Task.CanExecute and plausible errors in it.                             *)

CanExecuteIfPaused(task, parents) ==
    /\ ~task.complete
    /\ task.attempts > 0
    /\ task.worker # NoWorker
    /\ \A parent \in parents : parent.complete

CanExecuteWithNoAttempts(task, parents) ==
    /\ ~task.complete
    /\ ~task.paused
    /\ task.attempts >= 0
    /\ task.worker # NoWorker
    /\ \A parent \in parents : parent.complete

\* parents is the set of parent tasks the caller read, not task.parents: a
\* parent that was not stored when they were read does not hold the task up.
CanExecute(task, parents) ==
    /\ ~task.complete
    /\ ~task.paused
    /\ task.attempts > 0
    /\ task.worker # NoWorker
    /\ \A parent \in parents : parent.complete

-----------------------------------------------------------------------------
(* What the handlers write.                                                *)

\* ResetTask: as if it had never run, startable at once.  Pause is kept.
Reset(task, attempts, now) ==
    [task EXCEPT !.attempts = attempts, !.complete = FALSE,
                 !.output = NoOutput, !.runAfter = now]

\* RetryTaskById writes the attempts and nothing else.
Retried(task, attempts) == [task EXCEPT !.attempts = attempts]

Given(new, old) == IF new = Keep THEN old ELSE new

\* UpdateTask: every field that is given, and no other, is overwritten.
Updated(task, u) ==
    [task EXCEPT !.attempts = Given(u.attempts, @),
                 !.paused   = Given(u.paused, @),
                 !.complete = Given(u.complete, @),
                 !.runAfter = Given(u.runAfter, @),
                 !.errorDelay = Given(u.errorDelay, @),
                 !.worker   = Given(u.worker, @),
                 !.output   = Given(u.output, @)]

\* Only three of the fields make UpdateTask evaluate the task again; a new
\* worker or a cleared isComplete does not.
ShouldReEvaluate(u) ==
    \/ u.paused # Keep
    \/ u.runAfter # Keep
    \/ u.attempts # Keep

OrDefault(n, default) == IF n = 0 THEN default ELSE n

\* A ChildTask of a worker response turned into a task: never complete, with
\* the defaults filled in and the creator always one of its parents.
ChildOf(creator, child) ==
    [child EXCEPT !.attempts   = OrDefault(@, DefaultAttempts),
                  !.errorDelay = OrDefault(@, DefaultErrorDelay),
                  !.complete   = FALSE,
                  !.busy       = FALSE,
                  !.output     = NoOutput,
                  !.parents    = @ \cup {creator}]

AttemptedStaysBusy(task, left, output) ==
    [task EXCEPT !.attempts = left, !.output = output]

\* One worker call used: the attempt is paid for and the output replaced.
Attempted(task, left, output) ==
    [task EXCEPT !.attempts = left, !.output = output, !.busy = FALSE]

\* HandleExecuteError: wait errorDelay before the next attempt.
Failed(task, now) == [task EXCEPT !.runAfter = now + task.errorDelay]
=============================================================================
