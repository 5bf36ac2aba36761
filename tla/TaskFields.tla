----------------------------- MODULE TaskFields ----------------------------
(***************************************************************************)
(* The fields of a task that the storages index (src/crew/task_storage.go, *)
(* lines 84-98).  They never change: UpdateTask leaves them alone because  *)
(* no storage would re-index the task (src/crew/task_controller.go, lines  *)
(* 409-421).                                                               *)
(***************************************************************************)
CONSTANTS
    Ids,            \* task ids
    Groups,         \* ids of task groups
    Workgroups,     \* workgroups that tasks may be in
    Keys,           \* keys that tasks may have
    Group,          \* task group of each task
    Workgroup,      \* workgroup of each task
    Key             \* key of each task

ASSUME FieldsAssumption ==
    /\ Group \in [Ids -> Groups]
    /\ Workgroup \in [Ids -> Workgroups]
    /\ Key \in [Ids -> Keys]

\* The three indexes, one entry per value of the field they index.
GroupEntry(g) == <<"group", g>>
WorkgroupEntry(w) == <<"workgroup", w>>
KeyEntry(k) == <<"key", k>>

Entries == {GroupEntry(g) : g \in Groups}
             \cup {WorkgroupEntry(w) : w \in Workgroups}
             \cup {KeyEntry(k) : k \in Keys}

EntriesOf(id) == {GroupEntry(Group[id]), WorkgroupEntry(Workgroup[id]), KeyEntry(Key[id])}
=============================================================================
