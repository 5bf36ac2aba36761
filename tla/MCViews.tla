------------------------------- MODULE MCViews -------------------------------
(* An instance of TaskViews: two tasks at first, which may be deleted, and    *)
(* one that may be created.                                                   *)
EXTENDS TaskViews

T(id, isPaused, status) == [id |-> id, isPaused |-> isPaused, status |-> status]

MCInitStored == <<T(1, FALSE, "spent"), T(2, FALSE, "todo")>>
MCForms == {T(1, TRUE, "todo"), T(3, FALSE, "todo")}
MCWrites == {T(1, FALSE, "done")}

Q(size, search, skip) == [page |-> 1, size |-> size, search |-> search, skip |-> skip]
MCQueries == {Q(0, FALSE, FALSE), Q(1, FALSE, TRUE)}

-----------------------------------------------------------------------------
(* The loops of the code that the model says in one piece, against the loops. *)

Some == {T(1, FALSE, "todo"), T(1, TRUE, "done"), T(2, FALSE, "spent")}

Lists == BoundedSeq(Some, 3)

Keyed(ts) == \A i, j \in DOMAIN ts : ts[i].id = ts[j].id => i = j

\* Only filters.
ASSUME OnlyFilters ==
    \A ts \in Lists, ts2 \in SUBSET Some : Only(ts, ts2) = SelectSeq(ts, LAMBDA t : t \in ts2)

\* After is what a handler leaves that writes its tasks one by one.
AfterOne(ts, e) ==
    CASE e.type = "create" -> Append(ts, e.task)
      [] e.type = "update" -> [i \in DOMAIN ts |-> IF ts[i].id = e.task.id THEN e.task ELSE ts[i]]
      [] e.type = "delete" -> SelectSeq(ts, LAMBDA t : t.id # e.task.id)

ASSUME AfterIsOneByOne ==
    \A ts, us \in {l \in Lists : Keyed(l)} :
        \A type \in [DOMAIN us -> {"create", "update", "delete"}] :
            LET es == [i \in DOMAIN us |-> [type |-> type[i], task |-> us[i], at |-> i]]
            IN  Len(es) = 1 \/ (\A i \in DOMAIN es : type[i] # "create")
                => After(ts, es) = FoldLeft(AfterOne, ts, es)

\* Loaded is what loadTasks leaves, which renders after each task.
ASSUME LoadedIsOneByOne ==
    \A ts \in Lists, old \in SUBSET Some, drawn \in SUBSET Ids, th \in Throttles :
        LET g == [tasks |-> old, drawn |-> drawn, render |-> th]
        IN  Keyed(ts) => Loaded(g, ts) = FoldLeft(LAMBDA h, t : Render(h, Put(h.tasks, t)), g, ts)
==============================================================================
