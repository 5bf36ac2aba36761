------------------------- MODULE MemoryTaskStorage -------------------------
(***************************************************************************)
(* MemoryTaskStorage (src/crew/task_storage.go) with the slices that its   *)
(* indexes are made of, and the loops that callers run over what a lookup  *)
(* returned while other goroutines save and delete tasks:                  *)
(*                                                                         *)
(*   DeleteTaskGroup   ranges over the slice of the index itself           *)
(*   ResetTaskGroup    ranges over the copy that AllTasksInGroup makes     *)
(*   the merge of      ranges over the slice of the index that             *)
(*   duplicates        GetTasksWithKey returns, with no mutex held         *)
(*                                                                         *)
(* A Go slice is a pointer to an array and a length.  DeleteTask removes a *)
(* task with append(s[:i], s[i+1:]...), which shifts the rest of the array *)
(* to the left IN PLACE: whoever ranges over the same array with the old   *)
(* length finds the tasks moved.  append writes in place as long as the    *)
(* array has room and makes an array of twice the size when it has not.    *)
(*                                                                         *)
(* SaveTask and DeleteTask hold every mutex they need from start to end    *)
(* and take them in one order, so each is one step.                        *)
(***************************************************************************)
EXTENDS TaskFields, Naturals, Sequences, FiniteSets

CONSTANTS
    NoTask,         \* an array element that was never written (a nil pointer)
    Seeds,          \* tasks with isSeed
    Procs,          \* goroutines that range over a lookup (a bound)
    MaxSaves        \* tasks created in one behaviour (a bound)

ASSUME NoTaskAssumption == NoTask \notin Ids
ASSUME SeedsAssumption == Seeds \subseteq Ids
ASSUME MaxSavesAssumption == MaxSaves \in Nat

VARIABLES
    tasks,          \* keys of storage.tasks (and of storage.taskLocks)
    taskGroups,     \* keys of storage.taskGroups
    slices,         \* the slice of each entry of the three indexes
    loops,          \* the goroutines that range over a lookup
    saves           \* tasks created so far

vars == <<tasks, taskGroups, slices, loops, saves>>

Arrays == Seq(Ids \cup {NoTask})

\* The slice of an entry; <<>> and 0 also if there is no such entry.
SliceType == [array : Arrays, len : Nat]

\* What a goroutine ranges over: the array of the entry, or a copy of its own.
\* The length is fixed when the loop begins, the elements of a shared array
\* are not.  An array that the entry gave up is never written again, so a
\* loop that still ranges over it has a copy from then on.
LoopType ==
    [ op     : {"idle", "deleteGroup", "resetGroup", "merge"},
      entry  : Entries \cup {NoTask},
      shared : BOOLEAN,
      copy   : Arrays,
      len    : Nat,
      next   : Nat \ {0},
      owed   : SUBSET Ids,        \* history: tasks listed when it began that
                                  \* were not deleted and it has not come to
      shifts : Nat ]              \* history: removals under a merge so far

NoSlice == [array |-> <<>>, len |-> 0]

IdleLoop ==
    [ op |-> "idle", entry |-> NoTask, shared |-> FALSE, copy |-> <<>>, len |-> 0,
      next |-> 1, owed |-> {}, shifts |-> 0 ]

TypeOK ==
    /\ tasks \in SUBSET Ids
    /\ taskGroups \in SUBSET Groups
    /\ slices \in [Entries -> SliceType]
    /\ loops \in [Procs -> LoopType]
    /\ saves \in Nat

Init ==
    /\ tasks = {}
    /\ taskGroups = {}
    /\ slices = [e \in Entries |-> NoSlice]
    /\ loops = [p \in Procs |-> IdleLoop]
    /\ saves = 0

-----------------------------------------------------------------------------
(* Slices.                                                                 *)

Elements(s) == SubSeq(s.array, 1, s.len)

HasRoom(s) == s.len < Len(s.array)

\* A new array: the old elements, the new one, and room for as many again.
Grown(elements, id) ==
    [i \in 1 .. (IF elements = <<>> THEN 1 ELSE 2 * Len(elements)) |->
        IF i <= Len(elements) THEN elements[i]
        ELSE IF i = Len(elements) + 1 THEN id ELSE NoTask]

\* append(s, task)
Appended(s, id) ==
    [array |-> IF HasRoom(s) THEN [s.array EXCEPT ![s.len + 1] = id]
               ELSE Grown(Elements(s), id),
     len   |-> s.len + 1]

Position(s, id) == CHOOSE i \in 1 .. s.len : Elements(s)[i] = id

ShiftedTooFar(a, pos, len) ==
    [i \in DOMAIN a |-> IF pos < i /\ i < len THEN a[i + 1] ELSE a[i]]

\* As slices.Delete does: the element left over is set to nil.
ShiftedAndCleared(a, pos, len) ==
    [i \in DOMAIN a |-> IF pos <= i /\ i < len THEN a[i + 1]
                        ELSE IF i = len THEN NoTask ELSE a[i]]

\* append(s[:pos-1], s[pos:]...) moves what follows pos one place down and
\* leaves the last element where it was, beyond the new length.
Shifted(a, pos, len) ==
    [i \in DOMAIN a |-> IF pos <= i /\ i < len THEN a[i + 1] ELSE a[i]]

RemovedTwice(s, id) ==
    [array |-> Shifted(s.array, Position(s, id), s.len), len |-> s.len - 2]

Removed(s, id) ==
    [array |-> Shifted(s.array, Position(s, id), s.len), len |-> s.len - 1]

Listed(e) == {slices[e].array[i] : i \in 1 .. slices[e].len}

-----------------------------------------------------------------------------
(* The loops, and what saving and deleting a task does to them.            *)

Ranges(p) == loops[p].op # "idle"

Finished(p) == loops[p].next > loops[p].len

\* The element the loop comes to next.
Current(p) ==
    LET l == loops[p]
    IN  IF l.shared THEN slices[l.entry].array[l.next] ELSE l.copy[l.next]

\* The entries of a set give up their arrays.
Detached(ls, es) ==
    [p \in Procs |->
        IF ls[p].shared /\ ls[p].entry \in es
        THEN [ls[p] EXCEPT !.shared = FALSE, !.copy = slices[ls[p].entry].array]
        ELSE ls[p]]

\* The entries that hold an empty slice BEFORE the removal.  The slice of a
\* listed task is not empty then: once emptied, it stays in the index.
DroppedWith(id) == {e \in EntriesOf(id) : slices[e].len = 0}

SlicesWithout(id) ==
    [e \in Entries |->
        IF e \in DroppedWith(id) THEN NoSlice
        ELSE IF e \in EntriesOf(id) /\ id \in Listed(e) THEN Removed(slices[e], id)
        ELSE slices[e]]

\* The task is gone, so no loop owes it anything any more.
LoopsWithout(id) ==
    LET ls == Detached(loops, DroppedWith(id))
    IN  [p \in Procs |->
            [ls[p] EXCEPT !.owed = @ \ {id},
                          !.shifts = IF ls[p].op = "merge" /\ id \in Listed(ls[p].entry)
                                     THEN @ + 1 ELSE @]]

Advanced(ls, p) == [ls EXCEPT ![p].next = @ + 1, ![p].owed = @ \ {Current(p)}]

-----------------------------------------------------------------------------
(* The operations.                                                         *)

\* SaveTask(task, true); a task that exists is left alone.
SaveTask(id) ==
    /\ saves < MaxSaves
    /\ id \notin tasks
    /\ tasks' = tasks \cup {id}
    /\ slices' = [e \in Entries |-> IF e \in EntriesOf(id) THEN Appended(slices[e], id)
                                    ELSE slices[e]]
    /\ loops' = Detached(loops, {e \in EntriesOf(id) : ~HasRoom(slices[e])})
    /\ saves' = saves + 1
    /\ UNCHANGED taskGroups

DeleteTask(id) ==
    /\ id \in tasks
    /\ tasks' = tasks \ {id}
    /\ slices' = SlicesWithout(id)
    /\ loops' = LoopsWithout(id)
    /\ UNCHANGED <<taskGroups, saves>>

SaveTaskGroup(g) ==
    /\ g \notin taskGroups
    /\ taskGroups' = taskGroups \cup {g}
    /\ UNCHANGED <<tasks, slices, loops, saves>>

AliasedButLast(op, e) ==
    [IdleLoop EXCEPT !.op = op, !.entry = e, !.shared = TRUE,
                     !.len = IF slices[e].len = 0 THEN 0 ELSE slices[e].len - 1,
                     !.owed = Listed(e)]

\* The slice itself, as GetTasksWithKey and DeleteTaskGroup take it.
Aliased(op, e) ==
    [IdleLoop EXCEPT !.op = op, !.entry = e, !.shared = TRUE,
                     !.len = slices[e].len, !.owed = Listed(e)]

CopiedByReference(op, e) == Aliased(op, e)

\* append(make([]*Task, 0), slice...), as AllTasksInGroup does.
Copied(op, e) ==
    [IdleLoop EXCEPT !.op = op, !.entry = e, !.copy = Elements(slices[e]),
                     !.len = slices[e].len, !.owed = Listed(e)]

Begin(p, loop) ==
    /\ ~Ranges(p)
    /\ loops' = [loops EXCEPT ![p] = loop]
    /\ UNCHANGED <<tasks, taskGroups, slices, saves>>

\* TaskController.DeleteTaskGroup fails on a group that does not exist.
BeginDeleteGroup(p, g) == g \in taskGroups /\ Begin(p, Aliased("deleteGroup", GroupEntry(g)))

BeginResetGroup(p, g) == Begin(p, Copied("resetGroup", GroupEntry(g)))

BeginMerge(p, k) ==
    /\ slices[KeyEntry(k)].len > 1
    /\ Begin(p, Aliased("merge", KeyEntry(k)))

HasSeeds(p) == \E i \in DOMAIN loops[p].copy : loops[p].copy[i] \in Seeds

\* Does the loop delete the task it has come to?
Deletes(p) ==
    \/ loops[p].op = "deleteGroup"
    \/ loops[p].op = "resetGroup" /\ HasSeeds(p) /\ Current(p) \notin Seeds

\* DeleteTask does nothing about a task that is not found.
DeleteCurrent(p) ==
    /\ Ranges(p) /\ ~Finished(p)
    /\ Deletes(p)
    /\ IF Current(p) \in tasks
       THEN /\ tasks' = tasks \ {Current(p)}
            /\ slices' = SlicesWithout(Current(p))
            /\ loops' = Advanced(LoopsWithout(Current(p)), p)
       ELSE /\ loops' = Advanced(loops, p)
            /\ UNCHANGED <<tasks, slices>>
    /\ UNCHANGED <<taskGroups, saves>>

\* A reset or a merge writes fields of the task, which no index depends on.
WriteCurrent(p) ==
    /\ Ranges(p) /\ ~Finished(p)
    /\ ~Deletes(p)
    /\ loops' = Advanced(loops, p)
    /\ UNCHANGED <<tasks, taskGroups, slices, saves>>

EndDeleteGroup(p, g) ==
    /\ Finished(p)
    /\ loops[p].op = "deleteGroup" /\ loops[p].entry = GroupEntry(g)
    /\ taskGroups' = taskGroups \ {g}
    /\ slices' = [slices EXCEPT ![GroupEntry(g)] = NoSlice]
    /\ loops' = Detached([loops EXCEPT ![p] = IdleLoop], {GroupEntry(g)})
    /\ UNCHANGED <<tasks, saves>>

EndLoop(p) ==
    /\ Finished(p)
    /\ loops[p].op \in {"resetGroup", "merge"}
    /\ loops' = [loops EXCEPT ![p] = IdleLoop]
    /\ UNCHANGED <<tasks, taskGroups, slices, saves>>

Next ==
    \/ \E id \in Ids : SaveTask(id) \/ DeleteTask(id)
    \/ \E g \in Groups : SaveTaskGroup(g)
    \/ \E p \in Procs :
          \/ \E g \in Groups : BeginDeleteGroup(p, g) \/ BeginResetGroup(p, g)
          \/ \E k \in Keys : BeginMerge(p, k)
          \/ DeleteCurrent(p)
          \/ WriteCurrent(p)
          \/ \E g \in Groups : EndDeleteGroup(p, g)
          \/ EndLoop(p)

Spec == Init /\ [][Next]_vars

-----------------------------------------------------------------------------
(* Properties.                                                             *)

\* The abstract storage: an index is the set of what its slice holds.
Store == INSTANCE TaskStore WITH index <- [e \in Entries |-> Listed(e)]

\* However saves, deletions and loops interleave, shifting and growing arrays
\* that others range over, the slices behave as the sets of TaskStore.
ImplementsTaskStore == Store!Spec

Ends(p, op) == loops[p].op = op /\ loops'[p].op = "idle"

\* A loop never comes to a nil pointer or to a task of another entry, whatever
\* was moved, appended or dropped under it.
LoopsStayInTheirEntry ==
    \A p \in Procs :
        Ranges(p) /\ ~Finished(p) =>
            Current(p) \in Ids /\ loops[p].entry \in EntriesOf(Current(p))

\* README, About Task Group Reset: "Tasks flagged with isSeed=True, are the only
\* tasks that are retained when a task group is reset."  The reset comes to
\* every task that was listed, to reset or delete it, because it ranges over
\* a copy, although its own deletions move the others.
ResetReachesAll ==
    [][\A p \in Procs : Ends(p, "resetGroup") => loops[p].owed = {}]_vars

\* A merge, which ranges over the index itself, misses at most one duplicate
\* for each deletion under it.
MergeMissesOnlyShifted ==
    [][\A p \in Procs :
          Ends(p, "merge") => Cardinality(loops[p].owed) <= loops[p].shifts]_vars

\* DeleteTaskGroup: "Delete all tasks in the group".  When it ends, none of the
\* tasks that were listed when it began is still there.
DeleteLeavesNothing ==
    [][\A p \in Procs : Ends(p, "deleteGroup") => loops[p].owed = {}]_vars
=============================================================================
