----------------------------- MODULE TaskStore -----------------------------
(***************************************************************************)
(* What the TaskStorage interface (src/crew/task_storage.go, lines 14-31)  *)
(* promises the controller about which tasks exist and which of them each  *)
(* lookup finds: tasks are a set, and every index is a set of tasks that   *)
(* saving and deleting a task change together with it, in one step.        *)
(***************************************************************************)
EXTENDS TaskFields

VARIABLES
    tasks,          \* ids of the tasks that FindTask finds
    taskGroups,     \* ids of the groups that FindTaskGroup finds
    index           \* ids that a lookup by group, workgroup or key finds

vars == <<tasks, taskGroups, index>>

Init ==
    /\ tasks = {}
    /\ taskGroups = {}
    /\ index = [e \in Entries |-> {}]

\* SaveTask(task, true) of an id that is free.
SaveTask(id) ==
    /\ id \notin tasks
    /\ tasks' = tasks \cup {id}
    /\ index' = [e \in Entries |-> IF e \in EntriesOf(id) THEN index[e] \cup {id} ELSE index[e]]
    /\ UNCHANGED taskGroups

DeleteTask(id) ==
    /\ id \in tasks
    /\ tasks' = tasks \ {id}
    /\ index' = [e \in Entries |-> index[e] \ {id}]
    /\ UNCHANGED taskGroups

SaveTaskGroup(g) ==
    /\ taskGroups' = taskGroups \cup {g}
    /\ UNCHANGED <<tasks, index>>

\* The group and its listing go; its tasks are deleted one by one before.
ForgetTaskGroup(g) ==
    /\ taskGroups' = taskGroups \ {g}
    /\ index' = [index EXCEPT ![GroupEntry(g)] = {}]
    /\ UNCHANGED tasks

Next ==
    \/ \E id \in Ids : SaveTask(id) \/ DeleteTask(id)
    \/ \E g \in Groups : SaveTaskGroup(g) \/ ForgetTaskGroup(g)

Spec == Init /\ [][Next]_vars

-----------------------------------------------------------------------------
(* Properties.                                                             *)

TypeOK ==
    /\ tasks \in SUBSET Ids
    /\ taskGroups \in SUBSET Groups
    /\ index \in [Entries -> SUBSET Ids]

\* A lookup finds stored tasks with the field it asks for and no others, and by
\* workgroup and key all of them.  A group may have lost its listing.
LookupsAgree ==
    /\ \A e \in Entries : \A id \in index[e] : id \in tasks /\ e \in EntriesOf(id)
    /\ \A id \in tasks :
           id \in index[WorkgroupEntry(Workgroup[id])] /\ id \in index[KeyEntry(Key[id])]
=============================================================================
