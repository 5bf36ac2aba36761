# Verification of crew-go

crew is a task server.  Clients create *tasks*, grouped in task groups; crew
calls a *worker* (a webhook) with each task whose parents are complete, retries
after errors, and lets a worker return child tasks, delays and an output that is
shared with duplicate tasks.  A web interface shows the groups and their tasks
and follows them by events.  This directory holds TLA+ models of the server and
of the interface, the TLC runs that check them on small instances and TLAPS
proofs of what matters most for every instance.  `PROJECT.json` lists the components, the runs, the
source lines behind each definition, the hazards and the theorems.

    tlc -workers 2 -config life.cfg MCExecution.tla
    tlapm ExecutionProofs.tla

## The system

| Component | State it keeps | Operations | Talks to |
|---|---|---|---|
| Task (`crew/task.go`) | the fields of one task | `CanExecute` | - |
| Task execution (`crew/task_controller.go`: `TriggerTaskEvaluate`, `Evaluate`, `Execute`) | goroutines; each has a task pointer, its parents, a timer and later a lock | evaluate, wait for the start time, lock, check again, throttle, call the worker, write the result, create children, delay, notify children, merge duplicates | storage, throttler, worker client, event feed |
| Task handlers (same file, called by `crew/rest_api.go`) | none | create, delete, reset, retry, update a task | storage, task execution, feed |
| Task group handlers | none | create, delete, reset, retry, pause, resume, update a group: loops over its tasks | the same |
| Listing | none | pages of groups and tasks, progress of a group | storage |
| Abandoned task scan, `Shutdown` | a scheduler, a try-lock; the `Pending` wait group | trigger tasks that nobody holds; wait for all goroutines of `Execute` | storage, execution |
| In-memory storage (`crew/task_storage.go`) | a map of task objects, one semaphore per object, three indexes (workgroup, key, group) | save, find, delete, try-lock, the lookups | - |
| Redis storage (`crew/redis_task_storage.go`) | the same as JSON documents and lists; locks that expire | the same, on copies | Redis |
| Worker client (`crew/task_client.go`) | none | `Post`, with a time limit of 300 s | workers |
| Throttler (`main.go`, README) | queues of waiting and executing tasks | push, pop | execution |
| Event feed and websockets (`controller.Feed`, `rest_api.go`) | a channel of 8 events, a map of watchers, `inShutdown` | emit, dispatch, connect, disconnect, close | execution, UI |
| Task views (`crew-go-ui/src`: `TaskGroupPage.vue`, `TaskTable.vue`, `TaskGraph.vue`, their buttons, `task-store.ts`, `task-group-store.ts`) | the mounted panel; rows, or a map of tasks and a drawing; what is loading | load, apply an event, the buttons of a task and of the group, change of panel | REST API, feed |
| Task form (`ModifyTaskCard.vue`) | a copy of a row, `busy` | take the fields of the row, type, save | REST API, the table |
| Navigation and login (`router/`, `auth-store.ts`, `LoginPage.vue`, `MainLayout.vue`, `IndexPage.vue`) | the route, the navigation under way, the token | links, tabs, guard, login, logout, writes of the URL | REST API, the tables |

What is hard here:

* **Everything is shared.**  The in-memory storage hands out pointers to its task
  objects, and handlers, `Execute` goroutines and merges write their fields
  without a lock.  Only the *execution* of a task is under a lock, per object.
* **A task has many goroutines.**  Every trigger that finds the task executable
  starts one; all but one of them must find out that they are not needed, some
  of them minutes later when their timer fires.
* **What is checked gets old**: between `Evaluate` and the timer, between the
  timer and the lock, in the throttler's queue, during the worker call.
* **Nothing polls.**  A task runs only because somebody triggered it after the
  last change that let it run, so one lost trigger loses the task.
* **Ids outlive objects.**  A task can be deleted and created anew under its id
  while goroutines of the old object sleep or hold its semaphore.

* **The interface awaits.**  Its calls are answered in any order, to components that
  have meanwhile shown something else, been given events, or been unmounted; rows are
  objects that are replaced under whoever keeps them; forms keep copies.

What makes it correct, and where it is stated.  Server: one worker call per task at a
time (`OneWorkerCall`), not before the parents are complete (`ParentsFirst`, which a
reset during the throttler's wait breaks; `OnlyCallersUndoParents` says that nothing
else does) nor before the siblings exist (`ChildrenWaitForSiblings`), within the attempts that
were granted (`NoOverdraft`), not of a complete task (`CompleteNotCalled`), not
before a delay is over (`RetryWaits`), not again once paused
(`PauseAdmitsAtMostOne`); locks are neither shared nor leaked (`LockDiscipline`,
`CallsWithinObjects`); `busyExecuting` is true exactly during a call
(`BusyTellsTheTruth`); every executable task is executed in the end
(`NothingLeftBehind`) and the server then comes to rest (`EventuallyQuiet`).
Views: when all is answered they show what is stored, but for tasks that they are
known to have missed or written over (`TableFollows`, `GraphFollows`), each once (`RowsAreKeyed`), their
spinners stand for loads (`SpinnerHasALoad`) and a drawing that is behind is owed
(`DrawingIsOwed`).  Form: it undoes no completion that it has seen
(`OnlyOldCopiesUndo`), keeps what was typed until its row is replaced (`TypedIsKept`), leaves the rows their parents
(`RowKeepsParents`) and waits for one save at a time (`BusyWhileSaving`).  Navigation: nobody
enters logged out (`NoEntryLoggedOut`, `LogoutReachesLogin`), and users arrive where they
asked to be (`UserArrives`).

## The modules

| Module | Models |
|---|---|
| `CrewTask` | the task record and the pure computations on it: `CanExecute`, what reset, retry, update, an attempt and a failure leave, how a child of a response is filled in |
| `Execution` | the in-memory storage as the controller sees it, the goroutines of `TriggerTaskEvaluate`/`Evaluate`/`Execute`, and the five handlers of one task |
| `TaskFields` | the constant part of tasks that storage indexes: group, workgroup, key |
| `TaskStore` | what a storage promises: the abstract specification |
| `MemoryTaskStorage` | `task_storage.go`: the task map, the three indexes as Go slices, and the loops that range over them |
| `TaskFeed` | the event channel, its dispatcher, the websockets and the shutdown of the server |
| `Throttle` | `_.throttle` of lodash, as the graph uses it (external) |
| `TaskServer` | the server as the views see it: handlers, calls in flight, events, the websocket |
| `TaskTable` | `TaskTable.vue` with the buttons of its rows |
| `TaskGraph` | `TaskGraph.vue` with its dialog |
| `TaskViews` | the panels of `TaskGroupPage.vue` and the buttons of the group |
| `TaskForm` | the form that edits a task, the rows under it, the tasks at the server |
| `Navigation` | the router with its guard, the token, links, tabs and writes of the URL |
| `MCExecution`, `MCStorage`, `MCFeed`, `MCViews`, `MCForm`, `MCNavigation` | the instances TLC checks |
| `ExecutionProofs`, `AttemptProofs`, `MemoryStorageProofs`, `FeedProofs`, `ViewTypeProofs`, `ViewProofs`, `TaskFormProofs`, `NavigationProofs` | the theorems, see below |

The modules meet as follows.  `Execution` extends `CrewTask`; `MemoryTaskStorage` implements `TaskStore`, and both take the fields of
tasks from `TaskFields`.  `Execution` uses the storage through its promises (a
lookup returns the stored objects that match), which is what the refinement
justifies, except for loops that run while tasks are deleted: those are checked
in `MemoryTaskStorage` itself.  `TaskFeed` takes the changes of tasks as given.
`TaskViews` composes `TaskTable` and `TaskGraph` (with `Throttle`) over `TaskServer`, each of
which extends the one before; its server loses events but keeps their order, which
is what `TaskFeed` shows of the feed (`NeverOlder`, `BehindOnlyIfDropped`).  `TaskForm`
looks at one form over the rows of the table and the calls around it, in more detail; `Navigation`
looks at the whole interface, and at the tables only as far as they write the URL.

### How `Execution` corresponds to the code

*State.*  `heap` holds the task objects and a pointer is a pair `<<id, n>>`, the
n-th object made under the id.  `stored` is the map `storage.tasks` (and
`storage.taskLocks`, which has the same keys), `sem` the semaphore made with each
object, `born` the order in which objects were made, which is the order of every
index.  `evals` counts the goroutines started by `TriggerTaskEvaluate` that have
not read their task yet.  `exec` holds the goroutines of `Execute`: `task` is
the object (`taskToExecute`, then `task` of line 601), `lock` the object whose
semaphore it acquired, `parents` the pointers that line 571 read, `left` the value
that `RemainingAttempts--` loaded, `todo` the children still to create, and `jobs`
the goroutines it started (delays, notification, duplicates) that are not done.
`pausedCalls` is a history variable: the calls begun since a task was last paused.

*Steps.*  A goroutine goes through

    execute -> timer -> locked -> throttled -> posting -> settling -> finishing -> unlock -> background

and every arrow is one action: `Execute` (lines 569-581 and 795-802),
`LockAcquired`/`LockFails`/`LockPanics` (586-598), `RecheckGoesOn`/`RecheckEnds`
(600-617), `Start` (619-635), `PostReturns` (635-646, up to the load of the
attempts), `Settle` (646-658), `CreateChild` per child (660-713), `Finish`
(715-791) and `Unlock` (the deferred unlock).  The two reads of the parents
(lines 561 and 571) are two steps, and so are the load and the store of
`RemainingAttempts--`, because handlers write the same field.  The consecutive
assignments of one handler or of one result are one step: nothing in between
blocks, and no property tells their interleavings apart.  Each background
goroutine is one action, except the merge of duplicates, which takes one step
per duplicate.

*Left out.*  Names, inputs, errors, `isSeed` and `createdAt` decide nothing here.
An output is the id of the task whose worker call produced it, which is all that
the merge of duplicates needs.  Events are not modelled in these modules.  Parents
are a set.  `GetTasksWithKey` returns the index itself and not a copy; the model
takes the matches as they are when they are read, which differs only if a task
with the key is deleted during the merge.  Storage calls of the in-memory storage
never fail except for tasks that are not found, so the branches for a child that
cannot be saved do not exist here.  A response with an error keeps no delays:
`Post` returns an empty response then, except for a status 200 with an `error`
field, which the constant `Responses` may include.

*Bounds.*  `Procs` is the number of `Execute` goroutines alive at once, `MaxInc` the
number of objects ever made under an id, `MaxApi` the number of API calls,
`MaxTime` the last instant of the clock.  An evaluation that needs a goroutine
waits for a free slot, so no behaviour is cut off by `Procs` but those with more
goroutines at once.  Three goroutines are enough for one that holds the lock, one
that fails on it and one that sleeps; two objects per id for an old and a new one;
three API calls for a pause, a resume and a retry, or a delete, a create and a reset.  Time only
passes while somebody waits for it (`Awaited`), so the clock is not a source of
states, and the instances leave time for every delay that can be incurred: if
they did not, a goroutine would wait forever and `EventuallyQuiet` would fail.
`handlers` has three goroutines, three API calls and two objects under the id.

*Deadlock.*  The only action that stutters is `Rest`, which is enabled when no
goroutine is left (or the process died), so TLC's deadlock check finds
goroutines that are stuck.

### How `MemoryTaskStorage` corresponds to the code

`tasks`, `groups` are the maps of the same name; each index is a map from a value to
a slice, kept as its array, with the length of the header that the index holds.
An append writes into the array while there is room and copies it to an array
twice as long otherwise (`Grown`); a removal shifts the tail left *in place* and
leaves the last cell as it was (`Shifted`), as `append(s[:i], s[i+1:]...)` does.
Headers that a loop took keep the old length over the same array, so a loop sees
the shifts, until the index moves to another array or drops the entry; from then
on the loop has the old array to itself (`Detached`).  `AllTasksInGroup` copies
(`Copied`), `GetTasksWithKey` and `DeleteTaskGroup` do not (`Aliased`).

`proc` holds the loops of the callers: `DeleteTaskGroup`, `ResetTaskGroup` (its
deletions and its resets) and the merge of `Execute`, one task per step, so that saves
and deletions of others come between.  A save or a deletion is one step, because both
hold every mutex they need from start to end (lines 62-74 and 144-155).  The loops hold
none while they range over the slice they were handed: what they read of it
while a deletion shifts it is a data race, which the model takes as the old or the new
element.
Bounds: `MaxSaves` saves and two loops; three tasks are enough for a slice with a
first, a middle and a last element.

### How `TaskFeed` corresponds to the code

`conn[c]` is a websocket with its handler (the function at line 527), the goroutine
that receives (541), the unbuffered channel `sink` and what the client was last
told.  `dispatch` is the goroutine of line 486: it takes an event, visits the
watchers in any order, encodes the task *as it is then* and blocks until the
handler receives.  A task is the number of its changes.  `missed` is a history
variable.  `MapRace` is the fatal error of Go's maps, possible whenever two
goroutines use the map of watchers and one writes; it ends a behaviour at any
such moment, and otherwise an entry added during an iteration is visited or not.
A send on a closed channel and a second close end the process.

Bounds: two connections (`Conns`), of which one may close or break (`Leavers`);
one task with two changes (`MaxChanges`) and a feed of one event (`FeedCap`), so that
it overflows.  The filter by task group is in the model, but one group is watched.
With two clients one can hold the dispatcher up while the other falls behind.

### How `TaskServer`, `TaskTable`, `TaskGraph` and `TaskViews` correspond to the code

*Server.*  A handler is one step (`Serve`): it writes the tasks and emits one event
for each, which the feed drops when it is full or the socket is not open.  An
answer holds what the handler saw and arrives at any later time, in any order
(`Ends`); a call that fails may have been handled or not.  `OthersWrite` are other
clients and executions.  The socket opens once and, once closed, stays closed:
the page has no code that opens it again.  A task is its id, `isPaused` and a
`status`, which is all that the buttons and the list look at.

*Rows have no key.*  The table has `row-key="id"`, but its body slot (line 54) makes the
rows itself and gives them none, so Vue patches them in their order: when a row
goes, the buttons and dialogs of every row below it are given the next task, and those of
the last row are unmounted.  A call that a row's button asked for therefore keeps the
*index* of its row (`row`, `Pressed`), and `on` is false once no component awaits it: its row
was the last one and has gone (`RowRemoved`), a load left fewer rows (`RowsReplaced`),
or its panel was unmounted.  What is answered goes to the row that has the index by then
(`RowOf`): `onReset` assigns the whole answer to it (lines 101 and 279), which may
write one task over another one.  The rows are then wrong until the next
load: `DoubtAfterAnswer` puts both tasks into `doubt`.  `pauseTask` and `resumeTask` are
called with the object of the row and keep that (`OfObject`), whatever place it
has later, until a load replaces it.

*Loads.*  `TableLoadEnds` shows what was answered, whatever was asked or received
since, and switches `loading` off, also when another load is in flight.  A spinner
may therefore stop too early; `SpinnerHasALoad` says that it never stays on.

*History.*  `doubt` is the set of tasks whose last state a view may have missed: an
event was lost, or received between the snapshot of an answer and the answer
(`news` of a call), or is older than the snapshot and still to come; and of tasks whose
row was written over by what another one was answered.  `TableFollows`
and `GraphFollows` hold for all others.  The code has no means to find these
tasks again but another load, and the graph none at all for a deletion it missed.

*Loops.*  Three loops are said in one piece, without recursion, so that proofs can use them:
the filter of a listing (`Only`), the writes of a handler one task after the other
(`After`), and the tasks of an answer put in the graph's map and rendered one by one (`Loaded`).
`MCViews` has TLC compare each with its loop on short lists (`OnlyFilters`, `AfterIsOneByOne`,
`LoadedIsOneByOne`).

*Graph.*  Its map is by id; `drawn` are the nodes of the last drawing; `render` is the
state of the throttle.  `GraphReceives` models that an update of an unknown task
throws before the drawing (line 289).  `DrawingIsOwed` compares the nodes, not the links between
them.  The dialog keeps the object that was clicked
(`selected`), which may have left the map.

*Page.*  `OpenTab` unmounts one panel and mounts another, `GroupCommandEnds` loads what
is mounted when the command is answered, and `TableLoaded` goes on with the graph if
that is mounted by the time the table has loaded (the two `await`s one after the
other in the handlers of the page).

*Bounds of `page`*: two tasks stored and one that may be created, two queries of the list
(all tasks, and one incomplete task a page), two calls in flight, which may both
write, or one and another client, a feed of one event, all panels, one button of
the group (the reset, which writes, deletes and waits).  Two rows suffice for what one task is
answered to be written over another: the reset of the first row, the event of its
deletion, the answer.  Two writes, and a reset of a group of two, emit more
than the feed holds, so events are lost.  That the answer leaves its own task in two rows (the reset of
the second of three, the deletion of the first, the answer) needs more rows and
events than these bounds let through; there the proofs speak, which have no bounds.  The other buttons of the group differ in what
the server writes, which the buttons of a row exercise.

### How `TaskForm` corresponds to the code

`form` is what `ModifyTaskCard.vue` keeps.  It lies in a dialog of a row, and rows
have no key (see above), so it belongs to a place in the table: `Place` is the index of a
task's row, and when the rows change, the form is given the task that has its place then
(`FormFollows`), or is unmounted if that was the last.  `initFields` copies a task into the
fields when the form is opened and whenever its prop is another object (the `watch` of
line 357): by a load, and by the event that takes its row or one above it away.  The
user then has another task under the hands, and only the field labelled
"Id cannot be changed" (line 21) shows it; a save writes to that task.  An event of an
update is assigned to the same object (`AfterUpdate`) and leaves the fields.  The
parents are not copied: `addParentId` pushes onto the row's own array,
`removeParentId` makes a new one (`shared`).  `create` sends every field; the rules of its
`await validate()` are synchronous, so no click fits between that and `busy = true`.
`Serve` is the handler, which ignores the parents and refuses a start time whose zone
is written Z.  When the form is unmounted, what its save is answered reaches nobody
(`Orphaned`).  `done` of a task and of its copies, and `clicked`, are history: how often the
task had been completed, and whether the user has typed in the box.  `name` stands
for the fields that the server takes as they are sent.  The table shows all tasks, in the
order of their ids, as a load does; creations are left out.

Bounds of `form`: three rows (one above the form and one below), two writes (one
completion, and one deletion, save or reset), two saves in flight (one abandoned, one
not), one load beside those that a save asks for, a feed of one event.  One name and one zone:
what tells properties apart is the box and the parents; the proofs are for all.

### How `Navigation` corresponds to the code

`route` is `router.currentRoute` and `pending` the navigation under way; vue-router has
one at a time, a push takes its place, and a push to the present place only
cancels it (external, as the code relies on it).  A navigation to a page
that needs a token waits for the guard's `authcheck`, sent with the token as it was
then (`sent`); after that, for the page's code.  `WriteUrl` is the `router.push` of the
tables, of the query as it is when it runs: at once for the table of groups, half
a second after the answer for the table of tasks (`timers`), whatever page is shown
then.  `wanted`, `overtaken` and `stopped` are history.  A place is its page,
group, tab and whether a table has written its query into it.

Bounds of `nav`: two groups, five steps of the user, which is enough to log in,
open a group, open a tab, log out and ask for another page.

### Fairness

`FairSpec` assumes weak fairness of each goroutine's next step, of each background
goroutine's, and of `Tick`: the Go scheduler runs every goroutine that can run, a
worker call ends because the client gives up after 300 seconds (`task_client.go`:140)
and the throttler of `main.go` answers at once.  Evaluations have strong
fairness only because the bound `Procs` can make them wait for a slot.  No API call
is ever owed.

In `TaskFeed` the dispatcher, each handler, each receiving goroutine and the shutdown
are weakly fair, but for a write to a websocket: it has no deadline (line 561), so it is
owed only if the client reads (`Readers`) or the connection is closed or broken (`WriteIsOwed`), in
which case it ends with an error, if only by TCP's timeout.  A client that
stays connected and stops reading may hold its handler forever, and with it the
dispatcher: `DispatcherMovesOn` names that as the one exception.  Clients, changes and the
start of the shutdown are not owed.

`TaskViews` and `TaskForm` assume no fairness: their properties are safety, also that of
the throttle, which owes a drawing and whose timer lodash fires.  In `Navigation`
the guard's call ends, if only with an error, and the code of a page arrives.  Users
owe nothing, so these runs do not check for deadlock.

`Prompt` is an assumption about timing.  A goroutine takes its last decision
(`Finish`, or the end of the second check) some instructions before its deferred
unlock, and the evaluation it triggers needs a timer of at least 1 ms before it
tries the lock.  `Prompt = TRUE` says that the unlock comes first; without it
even a plain retry after an error can be lost, as `retry_lost` shows for an API
retry.  Safety runs use `Prompt = FALSE`.

## The runs

| Run | Instance | Properties | Shows |
|---|---|---|---|
| `life` | a task whose worker returns two children, one a parent of the other, one a duplicate of the task; 2 goroutines; errors, requested delays | `TypeOK`, `ChildrenWaitForSiblings`, `NothingLeftBehind`, `EventuallyQuiet` | the order of calls in a tree and that it is carried out to the end |
| `handlers` | one task, deleted and created anew; 3 goroutines, 3 calls of reset, retry, pause, resume, delete, create | `OneWorkerCall`, `BusyTellsTheTruth`, `NoOverdraft`, `CompleteNotCalled`, `RetryWaits`, `PauseAdmitsAtMostOne`, `LockDiscipline`, `CallsWithinObjects` | the checks under the lock make up for everything that is read too early; locks of old and new objects do not mix |
| `parents_undone` | a task and its parent, one reset | `ParentsFirst` (violated) | a parent is reset while its child waits for the throttler, and the child's worker is called |
| `delete_panics` | one task, one delete | `NeverPanics` (violated) | `TryLockTask` uses the nil semaphore of a deleted task |
| `retry_lost` | one task, one retry, `Prompt = FALSE` | `NothingLeftBehind` (violated) | a goroutine that fails on the lock takes the retry with it |
| `storage` | three tasks with one group and one key, one of them a seed; two loops | `TypeOK`, `LoopsStayInTheirEntry`, `ImplementsTaskStore`, `ResetReachesAll`, `MergeMissesOnlyShifted` | the maps and shifting slices implement the abstract store; resets reach every task, and a merge misses a duplicate only if a deletion shifted it |
| `group_delete_leaves` | the same, one loop | `DeleteLeavesNothing` (violated) | deleting a group of three leaves its middle task stored |
| `feed` | two websockets, one of which may stop reading, close or break; one task, a feed of one event | `TypeOK`, `BehindOnlyIfDropped`, `NeverOlder`, `DispatcherMovesOn`, `ClosedClientsForgotten` | clients follow the task, never backwards, but for dropped events; only a client that stays connected without reading holds the dispatcher up forever |
| `page` | a group with two tasks and one to come, all panels, two calls in flight, one event | `TypeOK`, `TableFollows`, `RowsAreKeyed`, `GraphFollows`, `DrawingIsOwed`, `SpinnerHasALoad` | what the views show when all is answered, for every order of answers, events, errors, dialogs and panels (about 2.5 million states) |
| `form` | three rows and one form, opened any number of times | `TypeOK`, `RowKeepsParents`, `BusyWhileSaving`, `OnlyOldCopiesUndo`, `TypedIsKept` | what a save may undo, and what happens to an open form (about 1.2 million states) |
| `nav` | two groups, five steps of the user | `TypeOK`, `UserArrives`, `NoEntryLoggedOut`, `LogoutReachesLogin` | the guard against logouts, links and URL writes that overtake its check (about 400,000 states) |
| `feed_panics` | the same as `feed` | `GracefulShutdown` (violated) | the shutdown and a client that leaves close one channel twice |

Every property of a passing run has a mutant: a plausible error in one operator of
the model (`StillFitTrustsEvaluate`, `ReleasedById`, ...), defined next to the
operator it would replace, under which TLC finds the property violated.

`OneWorkerCall`, `BusyTellsTheTruth` and the other properties of one task speak of
ids under which one object was made.  With a second object they are false, and the
code does not promise them: the old object's goroutine may be calling the worker
while the new one's starts.  `CallsWithinObjects` says what remains.
`NoOverdraft` supposes that callers grant positive attempts, `CompleteNotCalled`
that only workers complete tasks: an update may say otherwise.

### What the violated properties say of the code

`parents_undone`: the check under the lock (line 615) sees the parents as they are, but the
throttler may keep the goroutine for any time after it, and nothing is looked at again
(line 628).  A parent that is reset meanwhile is incomplete when the child is given to
its worker.  The README says (line 83) that this never happens.

`group_delete_leaves`: `DeleteTaskGroup` (line 322) copies the header of the group's
slice, not its array, and each `DeleteTask` of the loop shifts that array left.  The
second iteration reads the third task, the middle one stays in `storage.tasks`
and in the other indexes, and can still run and be found by its key.

`feed_panics`: the shutdown closes the channels of all watchers but leaves them in
the map, and the receiving goroutines run on.  A client that leaves before its
handler has closed the socket makes that goroutine close the channel again.
A dispatcher that looked at `inShutdown` too early and blocked in its send
panics in the same way.

### Divergences met and not made a run

* A parent that is deleted, or was never there, holds nothing up: `GetTaskParents` skips
  the ids it does not find, and `CanExecute` sees only the rest.
* Merges of duplicates interleave.  Each task that completes copies its output over every
  other task with its key, without a lock and without looking whether that one is complete
  (`task_controller.go`:774); two such loops over three tasks leave different
  outputs, where the README (line 101) says "The matching tasks will receive the same
  output or error."
* What a reset is answered is assigned to the row that has the place of its button by then
  (`TaskTable.vue`:101).  Rows 0, 1, 2; task 1 is reset; the deletion of task 0
  arrives before the answer: task 1 is then shown twice and task 2 not at all, until the next load.
* An open form is given another task when its row, or one above it, is deleted, and
  is filled anew; its save then writes that task (`ModifyTaskCard.vue`:357).
* The write to a websocket has no deadline (`rest_api.go`:561), and the dispatcher waits
  for every handler: a client that stays connected and does not read stops the feed
  of all the others.
* The delay that a response asks for its children is written
  `if getChildrenError != nil` (`task_controller.go`:721), that is, never; the README
  (line 147) says that children are delayed.  Line 740 tests the same way.  The model
  has the code's test, under which the delay of children does nothing.
* The form lets the user change parents, key and workgroup, which the handler of
  an update ignores, and sends back a start time with the zone Z, which
  the handler refuses: on a server whose clock is UTC, a task that was reset cannot
  be saved until its start time is cleared.
* `TaskGroupPage.vue`:326: when the route goes from one group to another, the page
  fetches the group, but it neither watches the new group's events nor loads the
  mounted panel again.
* A table that has loaded writes its URL half a second later and cancels the
  navigation under way then (`overtaken`): a link followed at that moment does nothing.

* `ResetTask` and `UpdateTask` never look at `BusyExecuting`; `rest_api.go`:275 and
  334 say that they reject a busy task.
* Duplicates are looked up in all task groups (`task_controller.go`:770); the README
  says "in the same task group".
* The children of a duplicate are notified `if keyMatchChildrenError != nil`
  (`task_controller.go`:781), that is, never, although line 767 announces it.
* A duplicate that a merge completed while its own call is under way loses the
  output if that call fails, and then merges the loss into the others.
* A child evaluated by anything but the end of its creator (a retry by hand, another
  parent that completes) starts while its siblings are still being created,
  because the creator is complete from line 658 on.  `life` therefore has no
  API calls and no parents outside the response, as the README asks of workers.
* `CanExecute` lists "its task group is paused"; groups have no such state, and a
  child created in a paused group runs.
* The second test of `lockError` (594) and the roll-back of created children (698;
  `errorCreatingChildren` is shadowed at 691) cannot be reached.
* `RetryTaskById` returns its named result `task`, which is nil.

## The proofs

Proofs are for every value of the constants: any set of ids, any number of
goroutines, any responses, updates, groups, fields and bounds.  They assume only
the named ASSUMEs of the modules they are about, which TLC evaluates in every run,
and five theorems of `AttemptProofs` what they say of the callers.

* `ExecutionProofs`: `TypeCorrect` (`Spec => []TypeOK`).  `TypeOK` is not
  inductive: a step writes through a goroutine's pointer, so the induction is on
  `TypeInv`, which adds that every goroutine that exists points to an object
  (`ExecOK`).
  `LocksAreDisciplined` (`Spec => []LockDiscipline`): `LockDiscipline` is
  inductive relative to `TypeInv`.  Two steps touch semaphores: acquiring one that is
  free, hence (first conjunct) nobody's, and releasing one's own, hence (second conjunct)
  nobody else's.  All others are framed.
  `OneWorkerCallAtATime` (`Spec => []OneWorkerCall`): the lock
  belongs to an object and the property is about an id, so the argument counts
  objects: by `PointersLeadToMade` a goroutine holds one of the objects made, two
  holders hold different ones, so where they share an id two were made.
* `AttemptProofs`: what that is good for.  With it, every property of the run
  `handlers` is a theorem.  `NextAround` splits the steps: four take an attempt from
  one stage to the next (the check under the lock, `Start`, `PostReturns`,
  `Settle`), and all others leave the stages alone and may do to an object only what `Kept`
  and `Born` say.  `StagesExclude` (from `LockDiscipline` and `MadeInv`) has two
  goroutines at the same object never in an attempt at once, so what one finds at the
  check is only changed by callers.  On that rest
    - `BusyIsTrue` (`BusyTellsTheTruth`), which is inductive as it stands;
    - `PauseIsKept` (`PauseAdmitsAtMostOne`): once a call was begun for a paused
      task nobody is left waiting for the throttler, and nobody joins (`PauseInv`);
    - `AttemptsNotOverdrawn` (`NoOverdraft`), if callers send positive attempts
      (`PositiveGrants`; the code does not check them): who passed the check has an
      attempt to pay with, in the task or in the value it loaded (`OverdraftInv`);
    - `RetriesWait` (`RetryWaits`), if callers leave `runAfter` to the server
      (`RunAfterIsTheServers`);
    - `CompletedNotCalled` (`CompleteNotCalled`), if no update completes a task and
      no task has a key (`WorkersComplete`): otherwise a merge can complete a task
      that is being called;
    - `CallsStayWithinObjects` (`CallsWithinObjects`): the semaphores that the
      callers of an id hold are an injection into the objects made under it.

  Its second half is the order within a family of tasks.  What a step may do to a goroutine
  (`Onward`), to the tasks (`Grows`) and to the evaluations to come (`Triggered`) is said
  once, action by action (`NextOrderly`); the inductions follow from these three.
    - `ParentsAreUndoneByCallers` (`OnlyCallersUndoParents`): a task goes to the throttler only with
      its stored parents complete, and while it waits there only a call of the API makes
      one of them incomplete.  All calls of the API are in it (create, delete, reset,
      retry, update), and it assumes only that tasks are created after the parents they name
      (`ParentsComeFirst`): line 571 forgets parents that do not exist yet.  Every step
      either goes on with the family (`Orderly`) or is a call that leaves goroutines and parents alone
      (`Revises`; `NextMoves`).  `OrderInv`: the object that is stored is the last
      one made, and the parents of the first object under an id were made before
      it.  `ReadInv`: who has read the parents has all that are still there, so the check under
      the lock, which looks at the objects themselves, finds each of them complete
      (`NextUndoesNone`).  It speaks of the first object under each id: a goroutine keeps pointers
      to the old parent when one is created anew.  `ParentsFirst` itself is false
      (`parents_undone`); this is what the second check achieves.
    - `SiblingsAreAwaited` (`ChildrenWaitForSiblings`) assumes that there are no API calls
      and that only its response makes tasks depend on a task (`FamiliesApart`): any other
      trigger would find the creator complete, since line 658 makes it so before
      its children exist.  Then a child is evaluated only by a goroutine of its creator
      that has created all of them, or of a sibling that was (`ClosedInv`).

  The instance of `life` meets both assumptions, that of `parents_undone` the first.
* `MemoryStorageProofs`: `Refinement` (`Spec => ImplementsTaskStore`), under the
  mapping that takes an index entry to the set of its slice's elements.  The
  inductive invariant `SlicesOK` says that headers fit their arrays and that
  the elements of a slice are distinct: without the latter, a shift would
  remove one of two occurrences and the entry would still list the task.
  `AppendAdds` and `ShiftRemoves` state what growing and shifting do to the set.
  By the refinement the storage keeps the promise of `TaskStore` on lookups
  (`LookupsAlwaysAgree`), in the steps of the abstract store alone.
  For the loops that range over an index while others change it: `StorageTypeOK`,
  `LoopsStay` (`LoopsStayInTheirEntry`), `ResetIsComplete` (`ResetReachesAll`) and
  `MergeIsAlmostComplete` (`MergeMissesOnlyShifted`).  Their invariant follows what a loop
  will still come to: `GoodLoop` says that as far as the header goes that it
  copied, the array holds tasks of the entry, also behind the end of a slice
  that has become shorter; `Missed` are the tasks it owes that are no longer ahead of it.  A step
  either takes nothing from what is ahead or is a shift of the very
  array it ranges over, which moves at most one task to the place it has left
  (`ShiftGoesOn`): so a merge misses at most one for each deletion, and a reset, which
  ranges over a copy, none.

* `FeedProofs`: `FeedTypeOK`, `NeverTakenBack` (`NeverOlder`) and `OnlyDropsLeaveBehind`
  (`BehindOnlyIfDropped`), for any tasks, clients, buffer and number of changes, through the
  shutdown and its panics.  `Ordered`: along what the client
  was shown, what its handler writes, what the dispatcher sends it and what the task is, versions
  only grow.  `Told`: a client that stays has the last version, or an event was
  dropped, or a message with that version is on its way (`OnItsWay`: in the buffer,
  with the dispatcher that has still to come to the client, or at its handler); when the feed is
  at rest there is none.  `Newcomers`: nobody sends to a connection before it registers.

* `ViewTypeProofs`: `ViewsTypes` (`TypeOK` of the views).  The first part says what the
  operators return: `Only` keeps the order and drops what it should (by counting
  positions, `Ranks`), an event changes one row, a handler emits one event for each task
  it writes, and the calls in flight only age.  `TypeOK` is not
  inductive; `TypeInv` adds what its steps need of one another: tasks of the server have
  different ids *because* an id that is being created is not stored and no second call
  creates it; answers are lists of different tasks; a call is shown only by a view
  that is mounted; one view is mounted at most, and the other one holds nothing.
  Each lemma on a step also gives what `ViewProofs` needs of it, so that the proofs there
  expand no action of the server.

* `ViewProofs`: `SpinnersHaveLoads` (`SpinnerHasALoad`).  What happens to the calls in flight
  keeps the loads of the mounted view (`Keeps`, one lemma for each way calls change: news, replaced objects,
  closed dialogs); a load ends only with its spinner (`EndOfLoad`); and a
  button of the group finds at most one view mounted, so the one it makes loading
  is the one it loads (`AreViews`).
  `ViewsDrawingIsOwed` (`DrawingIsOwed`) is inductive relative to `TypeInv`: a render draws at
  once or owes it (`RenderOwes`), and a handler that throws changes nothing.
  `ViewsTableFollows`, `ViewsGraphFollows` (`TableFollows`, `GraphFollows`) and
  `ViewsRowsAreKeyed` (`RowsAreKeyed`) come from one induction, on `FollowInv`.  The properties speak of
  a page at rest; the invariant has to say of every state, task by task and but for tasks in
  `doubt`, that what is still to come will bring the list there.
    - `WireInv`: the last event on the wire about a task says what the server has
      (`LastMatches`), and a task that was deleted has no update before it is created
      again (`Chained`).
    - `TableInv`, `GraphInv`: a list *follows* (`Follows`) if no event on the wire is about
      the task and the list has it as stored, or if the events on the wire are enough
      to get there from what the list has.  For a partial table the task may also be missing.
    - `SnapshotsInv`: a served answer that will still be shown is a list of that kind
      too, for each task of which the page has had no news since (`Snapshot`).  This part is what
      the code leaves to chance: snapshots and events have no common order, so an answer is
      right only about tasks whose events all came before it was taken or
      are still to come.  The others go to `doubt` when it is shown.
      A reset answered to the row of another task (`RowOverwritten`) is right about
      neither, and both go to `doubt`.
    - `RowsAreKeyed` is itself a conjunct: an update changes the first row it
      finds (line 288 of `TaskTable.vue`), so it brings the list up to date only if there is no second one.

* `NavigationProofs`: `NavigationTypeOK` (`TypeOK`; by induction, in `NavigationTyped`, with that only a
  group's page awaits its group), `NobodyEntersLoggedOut` (`NoEntryLoggedOut`) and
  `UserAlwaysArrives` (`UserArrives`).  The invariant behind the
  first safety property (`WayInv`) is that without a token a navigation to a page that
  needs one still waits for its check, and was not sent with a good token: so
  the check fails, and the navigation that goes on is that to the login page.  That
  behind the second (`ArrivalInv`): unless overtaken, the navigation under
  way leads to where the user asked to be, or to the login page that leads there
  (`LeadsThere`), and where there is none the route does.
* `TaskFormProofs`: `FormTyped`, `TheRowKeepsItsParents`, `OnlyAnOldCopyUndoes`,
  `TypedFieldsAreKept`, `TheButtonWaits`, for any number of rows.  A step closes the form, fills
  it from a row or edits it (`NextForm`), whichever rows there are.  `TypeOK` needs
  that an open form lies over a row (`OverRow`).  The invariant behind `OnlyOldCopiesUndo` is about
  every copy of every task there is (rows, events, answers, form, saves): if it is
  not older than the last completion and the stored task is complete, then so is the
  copy, or the user has cleared the box (`Upright`).  `BusyInv` replaces the
  cardinalities of `BusyWhileSaving` by the uniqueness of the save that the form waits for.

Every invariant and action property of the passing runs is a theorem.  Only
model-checked are liveness and `ENABLED` (out of the prover's reach): `NothingLeftBehind`,
`EventuallyQuiet`, `DispatcherMovesOn`, `ClosedClientsForgotten` and `LogoutReachesLogin`.  So is what would take an
induction over data, that the three definitions of `TaskServer` and `TaskGraph` that say a
loop in one piece do what the loop does (the ASSUMEs of `MCViews`).

## Not modelled

* **Redis storage and the abandoned task scan.**  They need a second model of the
  execution: copies in place of pointers, locks that expire during a call, saves of
  several commands, crash and restart.  The hazards list says where it would bite.
* **Group handlers interleaved with executions**, task by task.  `MemoryTaskStorage` has
  the loops over the storage, `TaskServer` the events; `Execution` has the handlers of
  single tasks, of which the group's are sequences.
* **`Pending.Wait`** of the controller's shutdown, and the **throttler** of the README, which
  an embedder supplies.
* **`GetTaskGroups` and the progress of a group**: the listing of `TaskServer` on groups; nothing
  depends on the result.
* **In the interface**: the rows and forms of the table of groups, the form in create mode
  (one call of `TaskServer`), drawing and layout, notifications, the output dialog and the
  configuration of the build.  The views are modelled for one group: that a change of the
  group leaves them behind is plain from the code (see above).
* The HTTP decoding of `rest_api.go` (but for the start time of an update), the demo
  workers, the example of authentication (stateless), the generated files of
  `crew-go-ui/dist`.

Next would come `RedisExecution`, then a module of group handlers over `Execution`.
