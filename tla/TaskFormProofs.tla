--------------------------- MODULE TaskFormProofs ---------------------------
(***************************************************************************)
(* What the form keeps for any tasks, fields, parents, bounds and zone: it *)
(* is well typed, what the user typed stays unless a load or a deletion    *)
(* gives the form another object, it never costs a row a parent, its       *)
(* button waits exactly for its save, and only an old copy undoes a        *)
(* completion.                                                             *)
(*                                                                         *)
(* A copy of a task is anywhere: in its row, on the wire, in the answer of *)
(* a load, in the form or in a save.  The invariants say of every copy     *)
(* what the properties say of the one that is looked at.  A step closes    *)
(* the form, fills it or edits it (NextForm), whichever rows there are.    *)
(***************************************************************************)
EXTENDS TaskForm, TLAPS, FiniteSetTheorems

\* The form lies over the row of its task.
OverRow == form.open => row[form.of] # Gone

TypeInv == TypeOK /\ OverRow

-----------------------------------------------------------------------------
(* Types.                                                                  *)

\* A form that is shown is not the closed one.
LEMMA OpenForms ==
    ASSUME TypeOK
    PROVE  /\ form.open \in BOOLEAN
           /\ form.open => form \in Form /\ form.of \in Ids
           /\ ~form.open => form = Closed
           /\ form \in Form => form.open /\ form.busy \in BOOLEAN
           /\ ~Closed.open
  <1>1. \A f \in Form : f.open = TRUE /\ f.busy \in BOOLEAN /\ f.of \in Ids
    BY DEF Form
  <1>2. Closed.open = FALSE
    BY DEF Closed
  <1>3. form \in Form \/ form = Closed
    BY DEF TypeOK
  <1> QED
    BY <1>1, <1>2, <1>3, Zenon

LEMMA InitTyped == Init => TypeInv
  <1> SUFFICES ASSUME Init PROVE TypeInv
    OBVIOUS
  <1>1. First \in Tasks
    BY FormAssumption DEF Tasks
  <1>2. saves \subseteq Save /\ results \subseteq Result /\ answers \subseteq Tasks
    BY DEF Init
  <1>3. wire = <<>> /\ asked = 0 /\ writes = 0 /\ FeedCap \in Nat
    BY FormAssumption DEF Init
  <1>4. wire \in Seq(Event) /\ Len(wire) <= FeedCap /\ asked \in Nat /\ writes \in Nat
    BY <1>3
  <1>5. TypeOK
    BY <1>1, <1>2, <1>4 DEF TypeOK, Init
  <1>6. ~form.open
    BY <1>5, OpenForms DEF Init
  <1> QED
    BY <1>5, <1>6 DEF TypeInv, OverRow

LEMMA FieldsFromTask ==
    ASSUME NEW i \in Ids, NEW t \in Task, NEW busy \in BOOLEAN
    PROVE  initFields(i, t, busy) \in Form
  <1>1. ShownRunAfter(t.runAfter) \in {"", "utc", "offset"}
    BY DEF Task, ShownRunAfter
  <1> QED
    BY <1>1 DEF Task, Form, Fields, initFields

LEMMA OrphanedTyped ==
    ASSUME TypeOK, NEW gone \in BOOLEAN, Orphaned(gone)
    PROVE  saves' \subseteq Save /\ results' \subseteq Result
  <1>1. Abandoned(saves) \subseteq Save /\ Abandoned(results) \subseteq Result
    BY DEF TypeOK, Save, Result, Abandoned
  <1> QED
    BY <1>1 DEF TypeOK, Orphaned

LEMMA WriteTyped ==
    ASSUME TypeOK, NEW i \in Ids, NEW t \in Task \cup {Gone}, Write(i, t)
    PROVE  /\ stored' \in Tasks /\ writes' \in Nat
           /\ wire' \in Seq(Event) /\ Len(wire') <= FeedCap
  <1>1. stored' \in Tasks /\ writes' \in Nat
    BY DEF Write, TypeOK, Tasks
  <1>2. [id |-> i, task |-> t] \in Event
    BY DEF Event
  <1>3. wire \in Seq(Event) /\ Len(wire) <= FeedCap /\ FeedCap \in Nat
    BY FormAssumption DEF TypeOK
  <1>4. wire' = IF Len(wire) < FeedCap THEN Append(wire, [id |-> i, task |-> t]) ELSE wire
    BY DEF Write
  <1>5. wire' \in Seq(Event) /\ Len(wire') <= FeedCap
    BY <1>2, <1>3, <1>4
  <1> QED
    BY <1>1, <1>5

\* The server writes t in the place of task i.
Rewrites(i, t) ==
    /\ stored[i] \in Task /\ t \in Task \cup {Gone} /\ Write(i, t)
    /\ t # Gone => /\ t.parentIds = stored[i].parentIds
                   /\ t.done = Completed(stored[i], t.isComplete)

\* Its four writes are of this kind.
LEMMA CompletionRewrites ==
    ASSUME TypeOK, NEW i \in Ids, WorkerCompletes(i)
    PROVE  \E t \in Task : Rewrites(i, t) /\ t.isComplete
  <1> DEFINE t == [stored[i] EXCEPT !.isComplete = TRUE, !.done = @ + 1]
  <1>1. stored[i] \in Task /\ ~stored[i].isComplete /\ Write(i, t)
    BY DEF WorkerCompletes, TypeOK, Tasks
  <1>2. stored[i].done + 1 \in Nat
    BY <1>1 DEF Task
  <1>3. /\ t \in Task /\ t.isComplete = TRUE /\ t.parentIds = stored[i].parentIds
        /\ t.done = stored[i].done + 1
    BY <1>1, <1>2 DEF Task
  <1> HIDE DEF t
  <1>4. t.done = Completed(stored[i], t.isComplete)
    BY <1>1, <1>3 DEF Completed
  <1>5. Rewrites(i, t)
    BY <1>1, <1>3, <1>4 DEF Rewrites
  <1> QED
    BY <1>3, <1>5

LEMMA ResetRewrites ==
    ASSUME TypeOK, NEW i \in Ids, OthersReset(i)
    PROVE  \E t \in Task : Rewrites(i, t)
  <1> DEFINE t == [stored[i] EXCEPT !.isComplete = FALSE, !.runAfter = Zone]
  <1>1. stored[i] \in Task /\ Write(i, t)
    BY DEF OthersReset, TypeOK, Tasks
  <1>2. /\ t \in Task /\ t.isComplete = FALSE /\ t.parentIds = stored[i].parentIds
        /\ t.done = stored[i].done
    BY <1>1, FormAssumption DEF Task
  <1> HIDE DEF t
  <1>3. t.done = Completed(stored[i], t.isComplete)
    BY <1>2 DEF Completed
  <1>4. Rewrites(i, t)
    BY <1>1, <1>2, <1>3 DEF Rewrites
  <1> QED
    BY <1>2, <1>4

LEMMA DeletionRewrites ==
    ASSUME TypeOK, NEW i \in Ids, OthersDelete(i)
    PROVE  Rewrites(i, Gone)
  BY DEF OthersDelete, Rewrites, TypeOK, Tasks

LEMMA SaveRewrites ==
    ASSUME TypeOK, NEW s \in saves, Serve(s), Accepted(s)
    PROVE  \E t \in Task : Rewrites(s.of, t) /\ t.isComplete = s.sent.isComplete
  <1> DEFINE t == Updated(stored[s.of], s.sent)
  <1>1. /\ s \in Save /\ s.of \in Ids /\ s.sent.name \in Names /\ s.sent.isComplete \in BOOLEAN
        /\ s.sent.runAfter \in {"", "offset"}
    BY DEF TypeOK, Save, Accepted
  <1>2. stored[s.of] \in Task /\ Write(s.of, t)
    BY <1>1 DEF Serve, Accepted, TypeOK, Tasks
  <1>3. Completed(stored[s.of], s.sent.isComplete) \in Nat
    BY <1>2 DEF Completed, Task
  <1>4. /\ t \in Task /\ t.isComplete = s.sent.isComplete
        /\ t.parentIds = stored[s.of].parentIds
        /\ t.done = Completed(stored[s.of], s.sent.isComplete)
    BY <1>1, <1>2, <1>3 DEF Updated, Task
  <1> HIDE DEF t
  <1>5. Rewrites(s.of, t)
    BY <1>2, <1>4 DEF Rewrites
  <1> QED
    BY <1>4, <1>5

\* Adding a parent changes the form, and the row if it shares the array.
LEMMA ParentAdded ==
    ASSUME TypeInv, NEW p \in Parents, addParentId(p)
    PROVE  /\ form \in Form /\ form.of \in Ids /\ row[form.of] \in Task
           /\ row' \in Tasks /\ \A i \in Ids \ {form.of} : row'[i] = row[i]
           /\ row'[form.of] \in Task /\ row'[form.of].done = row[form.of].done
           /\ row'[form.of].isComplete = row[form.of].isComplete
           /\ row'[form.of].parentIds =
                 IF form.shared THEN row[form.of].parentIds \cup {p} ELSE row[form.of].parentIds
  <1> DEFINE t == row[form.of]
             u == [t EXCEPT !.parentIds = @ \cup {p}]
  <1>1. form \in Form /\ form.of \in Ids /\ t \in Task /\ row \in Tasks
    BY OpenForms DEF addParentId, TypeInv, TypeOK, OverRow, Tasks
  <1>2. p \in AllParents
    BY DEF AllParents
  <1>3. /\ u \in Task /\ u.done = t.done /\ u.isComplete = t.isComplete
        /\ u.parentIds = t.parentIds \cup {p}
    BY <1>1, <1>2 DEF Task
  <1>4. row' = IF form.shared THEN [row EXCEPT ![form.of] = u] ELSE row
    BY DEF addParentId
  <1> HIDE DEF u
  <1>5. row' \in Tasks /\ row'[form.of] = (IF form.shared THEN u ELSE t)
        /\ \A i \in Ids \ {form.of} : row'[i] = row[i]
    BY <1>1, <1>3, <1>4 DEF Tasks
  <1> QED
    BY <1>1, <1>3, <1>5

-----------------------------------------------------------------------------
(* What a step does to the form.                                           *)

\* It is given a task: opened, or because a load or a deletion has changed its row.
Filled ==
    /\ \E i \in Ids, busy \in BOOLEAN : row'[i] # Gone /\ form' = initFields(i, row'[i], busy)
    /\ form.open => RowGoes \/ \E rs \in answers : LoadEnds(rs)

\* It keeps its task and what was typed; what is not typed keeps the value of the copy;
\* and while the array is that of the row both have the same parents.
Edited ==
    /\ form.open /\ form' \in Form /\ form'.of = form.of /\ form'.done = form.done
    /\ form.typed \subseteq form'.typed
    /\ \A field \in Fields : form'[field] # form[field] => field \in form'.typed
    /\ row'[form.of] # Gone
    /\ (form.shared => form.parentIds = row[form.of].parentIds)
          => (form'.shared => form'.parentIds = row'[form.of].parentIds)

\* How the form follows its place.
LEMMA Follows ==
    ASSUME NEW rs, FormFollows(rs)
    PROVE  \/ form' = Closed /\ Orphaned(TRUE)
           \/ /\ form.open /\ Orphaned(FALSE)
              /\ \E i \in Ids : rs[i] # Gone /\ form' = initFields(i, rs[i], form.busy)
  BY DEF FormFollows, Shown

\* What an event does to rows and form.
LEMMA Arrival ==
    ASSUME TypeInv, EventArrives
    PROVE  /\ Head(wire) \in Event /\ wire' \in Seq(Event) /\ Len(wire') <= FeedCap
           /\ row' \in Tasks
           /\ \A i \in Ids :
                 \/ row'[i] = row[i]
                 \/ Head(wire).id = i /\ row'[i] = Head(wire).task
           /\ \/ FormFollows(row') /\ RowGoes
              \/ /\ Orphaned(FALSE) /\ form' = form
                 /\ form.open => row'[form.of] = row[form.of]
              \/ /\ Orphaned(FALSE) /\ form.open /\ form' = [form EXCEPT !.shared = FALSE]
                 /\ row'[form.of] # Gone
  <1> DEFINE e == Head(wire)
  <1>1. wire \in Seq(Event) /\ Len(wire) <= FeedCap /\ FeedCap \in Nat
        /\ wire # <<>> /\ wire' = Tail(wire)
    BY FormAssumption DEF EventArrives, TypeInv, TypeOK
  <1>2. e \in Event /\ wire' \in Seq(Event) /\ Len(wire') <= FeedCap
    BY <1>1
  <1>3. row' = (IF row[e.id] = Gone THEN row ELSE [row EXCEPT ![e.id] = e.task])
        /\ (IF row[e.id] # Gone /\ e.task = Gone /\ form.open /\ e.id <= form.of
            THEN FormFollows(row')
            ELSE /\ form' = IF row[e.id] # Gone /\ e.task # Gone THEN AfterUpdate(e) ELSE form
                 /\ Orphaned(FALSE))
    BY DEF EventArrives
  <1> HIDE DEF e
  <1>4. e.id \in Ids /\ e.task \in Task \cup {Gone} /\ row \in Tasks
    BY <1>2 DEF Event, TypeInv, TypeOK
  <1>5. /\ row' \in Tasks /\ \A i \in Ids \ {e.id} : row'[i] = row[i]
        /\ row'[e.id] = IF row[e.id] = Gone THEN Gone ELSE e.task
    BY <1>3, <1>4 DEF Tasks
  <1>6. form.open => form.of \in Ids /\ (form.of # e.id => row'[form.of] = row[form.of])
    BY <1>5, OpenForms DEF TypeInv
  <1>7. CASE row[e.id] # Gone /\ e.task = Gone /\ form.open /\ e.id <= form.of
    BY <1>2, <1>3, <1>5, <1>7 DEF RowGoes, e
  <1>8. CASE row[e.id] # Gone /\ e.task = Gone /\ form.open /\ ~(e.id <= form.of)
    <2>1. e.id # form.of
      <3>1. Ids \subseteq Nat
        BY FormAssumption
      <3>2. \A n \in Ids : n <= n
        BY <3>1
      <3> QED
        BY <1>4, <1>6, <1>8, <3>2, Zenon
    <2> QED
      BY <1>2, <1>3, <1>5, <1>6, <1>8, <2>1 DEF e
  <1>9. CASE row[e.id] # Gone /\ e.task # Gone
    <2>1. form' = AfterUpdate(e) /\ Orphaned(FALSE)
      BY <1>3, <1>9
    <2>2. CASE form.open /\ form.of = e.id
      <3>1. form' = [form EXCEPT !.shared = FALSE] /\ row'[form.of] # Gone
        BY <1>5, <1>9, <2>1, <2>2 DEF AfterUpdate
      <3> QED
        BY <1>2, <1>5, <1>9, <2>1, <2>2, <3>1 DEF e
    <2>3. CASE ~(form.open /\ form.of = e.id)
      BY <1>2, <1>5, <1>6, <2>1, <2>3 DEF AfterUpdate, e
    <2> QED
      BY <2>2, <2>3
  <1>10. CASE row[e.id] = Gone \/ (e.task = Gone /\ ~form.open)
    <2>1. form' = form /\ Orphaned(FALSE)
      BY <1>3, <1>10
    <2>2. form.open => row'[form.of] = row[form.of]
      BY <1>5, <1>6, <1>10
    <2> QED
      BY <1>2, <1>5, <2>1, <2>2 DEF e
  <1> QED
    BY <1>7, <1>8, <1>9, <1>10

\* A step that leaves the rows and writes to none of the fields.
LEMMA TouchedIsEdited ==
    ASSUME TypeInv, form.open, form' \in Form, row' = row,
           form'.of = form.of, form'.done = form.done, form'.typed = form.typed,
           \A field \in Fields : form'[field] = form[field],
           form'.shared => form.shared /\ form'.parentIds = form.parentIds
    PROVE  Edited
  BY DEF Edited, TypeInv, OverRow

\* So it is with busy.
LEMMA BusyIsEdited ==
    ASSUME TypeInv, form.open, NEW busy \in BOOLEAN, form' = [form EXCEPT !.busy = busy], row' = row
    PROVE  Edited
  <1>1. form \in Form
    BY OpenForms DEF TypeInv
  <1>2. /\ form' \in Form /\ form'.of = form.of /\ form'.done = form.done
        /\ form'.typed = form.typed /\ form'.shared = form.shared /\ form'.parentIds = form.parentIds
        /\ form'.name = form.name /\ form'.isComplete = form.isComplete
        /\ form'.runAfter = form.runAfter
    BY <1>1 DEF Form
  <1>3. \A field \in Fields : form'[field] = form[field]
    BY <1>2 DEF Fields
  <1> QED
    BY <1>2, <1>3, TouchedIsEdited

LEMMA TypeIsEdited ==
    ASSUME TypeInv, NEW field \in Fields, Type(field)
    PROVE  Edited
  <1>1. form \in Form /\ form.open /\ row' = row
    BY OpenForms DEF TypeInv, Type
  <1>2. PICK value \in Values[field] :
            form' = [form EXCEPT ![field] = value, !.typed = @ \cup {field}]
    BY DEF Type
  <1>3. field \in {"name", "isComplete", "runAfter"}
    BY DEF Fields
  <1>4. /\ form'.of = form.of /\ form'.done = form.done /\ form'.typed = form.typed \cup {field}
        /\ form'.shared = form.shared /\ form'.parentIds = form.parentIds
    BY <1>1, <1>2, <1>3 DEF Form
  <1>5. form' \in Form
    <2>1. CASE field = "name"
      <3>1. form' = [form EXCEPT !["name"] = value, !.typed = @ \cup {"name"}] /\ value \in Names
        BY <1>2, <2>1 DEF Values
      <3> QED
        BY <1>1, <3>1 DEF Form, Fields
    <2>2. CASE field = "isComplete"
      <3>1. form' = [form EXCEPT !["isComplete"] = value, !.typed = @ \cup {"isComplete"}]
            /\ value \in BOOLEAN
        BY <1>2, <2>2 DEF Values
      <3> QED
        BY <1>1, <3>1 DEF Form, Fields
    <2>3. CASE field = "runAfter"
      <3>1. form' = [form EXCEPT !["runAfter"] = value, !.typed = @ \cup {"runAfter"}]
            /\ value \in {"", "offset"}
        BY <1>2, <2>3, FormAssumption DEF Values
      <3> QED
        BY <1>1, <3>1 DEF Form, Fields
    <2> QED
      BY <1>3, <2>1, <2>2, <2>3
  <1>6. \A f \in Fields : form'[f] # form[f] => f \in form'.typed
    <2>1. \A f \in Fields \ {field} : form'[f] = form[f]
      BY <1>1, <1>2, <1>3 DEF Form, Fields
    <2> QED
      BY <1>4, <2>1
  <1> QED
    BY <1>1, <1>4, <1>5, <1>6 DEF Edited, TypeInv, OverRow

LEMMA AdditionIsEdited ==
    ASSUME TypeInv, NEW p \in Parents, addParentId(p)
    PROVE  Edited
  <1>1. form.open /\ form \in Form /\ form' = [form EXCEPT !.parentIds = @ \cup {p}]
    BY ParentAdded DEF addParentId
  <1>2. p \in AllParents
    BY DEF AllParents
  <1>3. /\ form' \in Form /\ form'.of = form.of /\ form'.done = form.done
        /\ form'.typed = form.typed /\ form'.shared = form.shared
        /\ form'.parentIds = form.parentIds \cup {p}
        /\ form'.name = form.name /\ form'.isComplete = form.isComplete
        /\ form'.runAfter = form.runAfter
    BY <1>1, <1>2 DEF Form
  <1>4. \A field \in Fields : form'[field] = form[field]
    BY <1>3 DEF Fields
  <1>5. row'[form.of] # Gone
    BY ParentAdded, FormAssumption
  <1>6. form.shared => row'[form.of].parentIds = row[form.of].parentIds \cup {p}
    BY ParentAdded
  <1> QED
    BY <1>1, <1>3, <1>4, <1>5, <1>6 DEF Edited

LEMMA RemovalIsEdited ==
    ASSUME TypeInv, NEW p, removeParentId(p)
    PROVE  Edited
  <1>1. /\ form \in Form /\ form.open /\ row' = row
        /\ form' = [form EXCEPT !.parentIds = @ \ {p}, !.shared = FALSE]
    BY OpenForms DEF TypeInv, removeParentId
  <1>2. /\ form' \in Form /\ form'.of = form.of /\ form'.done = form.done
        /\ form'.typed = form.typed /\ form'.shared = FALSE
        /\ form'.name = form.name /\ form'.isComplete = form.isComplete
        /\ form'.runAfter = form.runAfter
    BY <1>1 DEF Form
  <1>3. \A field \in Fields : form'[field] = form[field]
    BY <1>2 DEF Fields
  <1> QED
    BY <1>1, <1>2, <1>3, TouchedIsEdited

LEMMA UpdateIsEdited ==
    ASSUME TypeInv, form.open, form' = [form EXCEPT !.shared = FALSE], row'[form.of] # Gone
    PROVE  Edited
  <1>1. form \in Form
    BY OpenForms DEF TypeInv
  <1>2. /\ form' \in Form /\ form'.of = form.of /\ form'.done = form.done
        /\ form'.typed = form.typed /\ form'.shared = FALSE
        /\ form'.name = form.name /\ form'.isComplete = form.isComplete
        /\ form'.runAfter = form.runAfter
    BY <1>1 DEF Form
  <1>3. \A field \in Fields : form'[field] = form[field]
    BY <1>2 DEF Fields
  <1> QED
    BY <1>2, <1>3 DEF Edited

\* A save that ends closes the form or lets go of its button.
LEMMA EndedForms ==
    ASSUME TypeInv, NEW mine \in BOOLEAN, NEW ok \in BOOLEAN, Ended(mine, ok), row' = row
    PROVE  /\ asked' \in Nat
           /\ form' = Closed \/ (form' = form /\ ~form.open) \/ Edited
  <1>1. asked' \in Nat
    BY DEF Ended, TypeInv, TypeOK
  <1>2. StillBusy(mine, ok) \in BOOLEAN
    BY DEF StillBusy
  <1>3. ASSUME form.open, form' = [form EXCEPT !.busy = StillBusy(mine, ok)] PROVE Edited
    BY <1>2, <1>3, BusyIsEdited
  <1> QED
    BY <1>1, <1>3 DEF Ended

LEMMA FollowingFills ==
    ASSUME NEW rs, FormFollows(rs), row' = rs, TypeInv,
           RowGoes \/ \E qs \in answers : LoadEnds(qs)
    PROVE  form' = Closed \/ Filled
  <1>1. form.open => form.busy \in BOOLEAN
    BY OpenForms DEF TypeInv
  <1> QED
    BY <1>1, Follows DEF Filled

\* An open form is closed, given a task or edited; a closed one stays closed or is opened.
LEMMA NextForm ==
    ASSUME TypeInv, [Next]_vars
    PROVE  form' = Closed \/ Filled \/ Edited
  <1>1. ASSUME form' = form, row' = row PROVE form' = Closed \/ Filled \/ Edited
    <2>1. CASE form.open
      <3>1. form' \in Form
        BY <1>1, <2>1, OpenForms DEF TypeInv
      <3> QED
        BY <1>1, <2>1, <3>1, TouchedIsEdited
    <2> QED
      BY <1>1, <2>1, OpenForms DEF TypeInv
  <1>2. CASE OpenForm
    <2>1. PICK i \in Ids : row'[i] # Gone /\ form' = initFields(i, row'[i], FALSE)
      BY <1>2 DEF OpenForm
    <2>2. ~form.open
      BY <1>2 DEF OpenForm
    <2>3. FALSE \in BOOLEAN
      OBVIOUS
    <2> QED
      BY <2>1, <2>2, <2>3, Zenon DEF Filled
  <1>3. CASE CloseForm
    BY <1>3 DEF CloseForm
  <1>4. CASE create
    <2>1. form.open /\ row' = row /\ form' = [form EXCEPT !.busy = TRUE]
      BY <1>4 DEF create
    <2> QED
      BY <2>1, BusyIsEdited
  <1>5. CASE \E r \in results : SaveEnds(r)
    <2>1. PICK r \in results : SaveEnds(r)
      BY <1>5
    <2>2. r.mine \in BOOLEAN /\ r.ok \in BOOLEAN /\ Ended(r.mine, r.ok) /\ row' = row
      BY <2>1 DEF SaveEnds, TypeInv, TypeOK, Result
    <2> QED
      BY <2>2, EndedForms, OpenForms DEF TypeInv
  <1>6. CASE SaveFails
    <2>1. PICK mine \in BOOLEAN : Ended(mine, FALSE)
      BY <1>6 DEF SaveFails, TypeInv, TypeOK, Save, Result
    <2>2. row' = row
      BY <1>6 DEF SaveFails
    <2> QED
      BY <2>1, <2>2, EndedForms, OpenForms DEF TypeInv
  <1>7. CASE EventArrives
    <2>1. CASE FormFollows(row') /\ RowGoes
      BY <2>1, FollowingFills
    <2>2. CASE form' = form /\ (form.open => row'[form.of] = row[form.of])
      <3>1. CASE form.open
        <4>1. form' \in Form /\ row'[form.of] # Gone
          BY <2>2, <3>1, OpenForms DEF TypeInv, OverRow
        <4> QED
          BY <2>2, <3>1, <4>1 DEF Edited
      <3> QED
        BY <2>2, <3>1, OpenForms DEF TypeInv
    <2>3. CASE form.open /\ form' = [form EXCEPT !.shared = FALSE] /\ row'[form.of] # Gone
      BY <2>3, UpdateIsEdited
    <2> QED
      BY <1>7, <2>1, <2>2, <2>3, Arrival
  <1>8. CASE \E rs \in answers : LoadEnds(rs)
    <2>1. PICK rs \in answers : LoadEnds(rs)
      BY <1>8
    <2>2. FormFollows(rs) /\ row' = rs
      BY <2>1 DEF LoadEnds
    <2> QED
      BY <1>8, <2>2, FollowingFills
  <1>9. CASE Refresh \/ TakeSnapshot \/ LoadFails \/ UNCHANGED vars
    BY <1>1, <1>9 DEF Refresh, TakeSnapshot, LoadFails, vars
  <1>10. CASE \E i \in Ids : WorkerCompletes(i) \/ OthersReset(i) \/ OthersDelete(i)
    BY <1>1, <1>10 DEF WorkerCompletes, OthersReset, OthersDelete
  <1>11. CASE \E s \in saves : Serve(s)
    BY <1>1, <1>11 DEF Serve
  <1>12. CASE \E field \in Fields : Type(field)
    BY <1>12, TypeIsEdited
  <1>13. CASE \E p \in Parents : addParentId(p)
    BY <1>13, AdditionIsEdited
  <1>14. CASE \E p \in AllParents : removeParentId(p)
    BY <1>14, RemovalIsEdited
  <1> QED
    BY <1>2, <1>3, <1>4, <1>5, <1>6, <1>7, <1>8, <1>9, <1>10, <1>11, <1>12, <1>13, <1>14
       DEF Next, User

-----------------------------------------------------------------------------
(* Everything is well typed.                                               *)

\* What is not the form, the row or the copies under way.
ServerTyped ==
    /\ stored' \in Tasks /\ wire' \in Seq(Event) /\ Len(wire') <= FeedCap /\ writes' \in Nat

LEMMA ServerKept ==
    ASSUME TypeOK, stored' = stored, wire' = wire, writes' = writes
    PROVE  ServerTyped
  BY DEF TypeOK, ServerTyped

LEMMA ServerWrites ==
    ASSUME TypeOK, NEW i \in Ids, NEW t, Rewrites(i, t)
    PROVE  ServerTyped
  BY WriteTyped DEF Rewrites, ServerTyped

LEMMA NextServerTyped == TypeInv /\ [Next]_vars => ServerTyped
  <1> SUFFICES ASSUME TypeInv, [Next]_vars PROVE ServerTyped
    OBVIOUS
  <1> USE DEF TypeInv
  <1>1. CASE OpenForm \/ CloseForm \/ create \/ Refresh \/ TakeSnapshot \/ LoadFails \/ SaveFails
    BY <1>1, ServerKept
       DEF OpenForm, CloseForm, create, Refresh, TakeSnapshot, LoadFails, SaveFails
  <1>2. CASE UNCHANGED vars
    BY <1>2, ServerKept DEF vars
  <1>3. CASE \/ \E field \in Fields : Type(field)
             \/ \E p \in Parents : addParentId(p)
             \/ \E p \in AllParents : removeParentId(p)
    BY <1>3, ServerKept DEF Type, addParentId, removeParentId
  <1>4. CASE (\E r \in results : SaveEnds(r)) \/ (\E rs \in answers : LoadEnds(rs))
    BY <1>4, ServerKept DEF SaveEnds, LoadEnds
  <1>5. CASE EventArrives
    BY <1>5, Arrival DEF EventArrives, ServerTyped, TypeOK
  <1>6. ASSUME NEW i \in Ids, WorkerCompletes(i) PROVE ServerTyped
    BY <1>6, CompletionRewrites, ServerWrites
  <1>7. ASSUME NEW i \in Ids, OthersReset(i) PROVE ServerTyped
    BY <1>7, ResetRewrites, ServerWrites
  <1>8. ASSUME NEW i \in Ids, OthersDelete(i) PROVE ServerTyped
    BY <1>8, DeletionRewrites, ServerWrites
  <1>9. ASSUME NEW s \in saves, Serve(s) PROVE ServerTyped
    <2>1. s.of \in Ids
      BY DEF TypeOK, Save
    <2>2. CASE Accepted(s)
      BY <1>9, <2>1, <2>2, SaveRewrites, ServerWrites
    <2>3. CASE ~Accepted(s)
      BY <1>9, <2>3, ServerKept DEF Serve
    <2> QED
      BY <2>2, <2>3
  <1> QED
    BY <1>1, <1>2, <1>3, <1>4, <1>5, <1>6, <1>7, <1>8, <1>9 DEF Next, User

CallsTyped == saves' \subseteq Save /\ results' \subseteq Result

LEMMA NextCallsTyped == TypeInv /\ [Next]_vars => CallsTyped
  <1> SUFFICES ASSUME TypeInv, [Next]_vars PROVE CallsTyped
    OBVIOUS
  <1> USE DEF TypeInv, CallsTyped
  <1>1. ASSUME saves' \subseteq saves, results' \subseteq results PROVE CallsTyped
    BY <1>1 DEF TypeOK
  <1>2. ASSUME NEW gone \in BOOLEAN, Orphaned(gone) PROVE CallsTyped
    BY <1>2, OrphanedTyped
  <1>3. CASE CloseForm
    BY <1>2, <1>3 DEF CloseForm
  <1>4. CASE EventArrives
    <2>1. ASSUME FormFollows(row') PROVE CallsTyped
      BY <1>2, <2>1, Follows
    <2> QED
      BY <1>2, <1>4, <2>1, Arrival
  <1>5. ASSUME NEW rs \in answers, LoadEnds(rs) PROVE CallsTyped
    BY <1>2, <1>5, Follows DEF LoadEnds
  <1>6. CASE create
    <2>1. form \in Form
      BY <1>6, OpenForms DEF create
    <2> DEFINE s == [ of |-> form.of,
                      sent |-> [name |-> form.name, isComplete |-> form.isComplete,
                                runAfter |-> form.runAfter],
                      done |-> form.done, clicked |-> "isComplete" \in form.typed, mine |-> TRUE ]
    <2>2. /\ form.name \in Names /\ form.isComplete \in BOOLEAN /\ form.of \in Ids
          /\ form.runAfter \in {"", "utc", "offset"} /\ form.done \in Nat
      BY <2>1 DEF Form
    <2>3. ("isComplete" \in form.typed) \in BOOLEAN
      OBVIOUS
    <2>4. s \in Save
      BY <2>2, <2>3 DEF Save
    <2>5. saves' = saves \cup {s} /\ results' = results
      BY <1>6 DEF create
    <2> QED
      BY <2>4, <2>5 DEF TypeOK
  <1>7. ASSUME NEW s \in saves, Serve(s) PROVE CallsTyped
    <2>1. s \in Save /\ Accepted(s) \in BOOLEAN
      BY DEF TypeOK, Accepted
    <2>2. [ok |-> Accepted(s), mine |-> s.mine] \in Result
      BY <2>1 DEF Save, Result
    <2> QED
      BY <1>7, <2>2 DEF Serve, TypeOK
  <1>8. CASE OpenForm \/ Refresh \/ TakeSnapshot \/ LoadFails \/ SaveFails \/ UNCHANGED vars
    BY <1>1, <1>8 DEF OpenForm, Refresh, TakeSnapshot, LoadFails, SaveFails, vars
  <1>9. CASE \/ \E field \in Fields : Type(field)
             \/ \E p \in Parents : addParentId(p)
             \/ \E p \in AllParents : removeParentId(p)
    BY <1>1, <1>9 DEF Type, addParentId, removeParentId
  <1>10. CASE \/ \E r \in results : SaveEnds(r)
              \/ \E i \in Ids : WorkerCompletes(i) \/ OthersReset(i) \/ OthersDelete(i)
    BY <1>1, <1>10 DEF SaveEnds, WorkerCompletes, OthersReset, OthersDelete
  <1> QED
    BY <1>3, <1>4, <1>5, <1>6, <1>7, <1>8, <1>9, <1>10 DEF Next, User

TableTyped == row' \in Tasks /\ asked' \in Nat /\ answers' \subseteq Tasks

LEMMA NextTableTyped == TypeInv /\ [Next]_vars => TableTyped
  <1> SUFFICES ASSUME TypeInv, [Next]_vars PROVE TableTyped
    OBVIOUS
  <1> USE DEF TypeInv, TableTyped
  <1>1. ASSUME row' = row, asked' = asked, answers' = answers PROVE TableTyped
    BY <1>1 DEF TypeOK
  <1>2. CASE EventArrives
    BY <1>2, Arrival DEF EventArrives, TypeOK
  <1>3. CASE Refresh \/ TakeSnapshot \/ LoadFails
    BY <1>3 DEF Refresh, TakeSnapshot, LoadFails, TypeOK
  <1>4. ASSUME NEW rs \in answers, LoadEnds(rs) PROVE TableTyped
    BY <1>4 DEF LoadEnds, TypeOK
  <1>5. ASSUME NEW p \in Parents, addParentId(p) PROVE TableTyped
    BY <1>5, ParentAdded DEF addParentId, TypeOK
  <1>6. ASSUME NEW r \in results, SaveEnds(r) PROVE TableTyped
    <2>1. r.mine \in BOOLEAN /\ r.ok \in BOOLEAN /\ Ended(r.mine, r.ok) /\ row' = row
      BY <1>6 DEF SaveEnds, TypeOK, Result
    <2>2. asked' \in Nat
      BY <2>1, EndedForms
    <2> QED
      BY <1>6, <2>2 DEF SaveEnds, TypeOK
  <1>7. CASE SaveFails
    <2>1. PICK mine \in BOOLEAN : Ended(mine, FALSE)
      BY <1>7 DEF SaveFails, TypeOK, Save, Result
    <2>2. row' = row /\ answers' = answers
      BY <1>7 DEF SaveFails
    <2>3. asked' \in Nat
      BY <2>1, <2>2, EndedForms
    <2> QED
      BY <2>2, <2>3 DEF TypeOK
  <1>8. CASE OpenForm \/ CloseForm \/ create \/ UNCHANGED vars
    BY <1>1, <1>8 DEF OpenForm, CloseForm, create, vars
  <1>9. CASE (\E field \in Fields : Type(field)) \/ (\E p \in AllParents : removeParentId(p))
    BY <1>1, <1>9 DEF Type, removeParentId
  <1>10. CASE \/ \E s \in saves : Serve(s)
              \/ \E i \in Ids : WorkerCompletes(i) \/ OthersReset(i) \/ OthersDelete(i)
    BY <1>1, <1>10 DEF Serve, WorkerCompletes, OthersReset, OthersDelete
  <1> QED
    BY <1>2, <1>3, <1>4, <1>5, <1>6, <1>7, <1>8, <1>9, <1>10 DEF Next, User

LEMMA NextTyped == TypeInv /\ [Next]_vars => TypeInv'
  <1> SUFFICES ASSUME TypeInv, [Next]_vars PROVE TypeInv'
    OBVIOUS
  <1>1. ServerTyped /\ CallsTyped /\ TableTyped
    BY NextServerTyped, NextCallsTyped, NextTableTyped
  <1>2. CASE form' = Closed
    <2>1. TypeOK'
      BY <1>1, <1>2 DEF TypeOK, ServerTyped, CallsTyped, TableTyped
    <2> QED
      BY <1>2, <2>1, OpenForms DEF TypeInv, OverRow
  <1>3. CASE Filled
    <2>1. PICK i \in Ids, busy \in BOOLEAN : row'[i] # Gone /\ form' = initFields(i, row'[i], busy)
      BY <1>3 DEF Filled
    <2>2. row'[i] \in Task
      BY <1>1, <2>1 DEF TableTyped, Tasks
    <2>3. form' \in Form
      BY <2>1, <2>2, FieldsFromTask
    <2>4. form'.of = i
      BY <2>1 DEF initFields
    <2> QED
      BY <1>1, <2>1, <2>3, <2>4
         DEF TypeInv, OverRow, TypeOK, ServerTyped, CallsTyped, TableTyped
  <1>4. CASE Edited
    BY <1>1, <1>4 DEF Edited, TypeInv, OverRow, TypeOK, ServerTyped, CallsTyped, TableTyped
  <1> QED
    BY <1>2, <1>3, <1>4, NextForm

LEMMA FormInductive == Spec => []TypeInv
  BY InitTyped, NextTyped, PTL DEF Spec

\* Every reachable state of every instance is well typed.
THEOREM FormTyped == Spec => []TypeOK
  BY FormInductive, PTL DEF TypeInv

-----------------------------------------------------------------------------
(* What the user has typed.                                                *)

\* While the form is shown, its fields, and the task they are of, are replaced by a load of
\* the table or by the deletion of its row or one above it, and by nothing else.
THEOREM TypedFieldsAreKept == Spec => TypedIsKept
  <1>1. ASSUME TypeInv, [Next]_vars, form.open, form'.open
        PROVE  \/ /\ form'.of = form.of /\ form.typed \subseteq form'.typed
                  /\ \A field \in Fields : form'[field] # form[field] => field \in form'.typed
               \/ \E rs \in answers : LoadEnds(rs)
               \/ RowGoes
    <2>1. form' # Closed
      BY <1>1, OpenForms DEF TypeInv
    <2>2. CASE Filled
      BY <1>1, <2>2 DEF Filled
    <2>3. CASE Edited
      BY <2>3 DEF Edited
    <2> QED
      BY <1>1, <2>1, <2>2, <2>3, NextForm
  <1>2. TypeInv /\ [Next]_vars =>
            (form.open /\ form'.open =>
                \/ /\ form'.of = form.of /\ form.typed \subseteq form'.typed
                   /\ \A field \in Fields : form'[field] # form[field] => field \in form'.typed
                \/ \E rs \in answers : LoadEnds(rs)
                \/ RowGoes)
    BY <1>1
  <1> QED
    BY <1>2, FormInductive, PTL DEF Spec, TypedIsKept

-----------------------------------------------------------------------------
(* The copies and what the rows show.                                      *)

\* The copies of task i outside the form: what the server has and what the table gets.
Copies(i) ==
    {stored[i], row[i]} \cup {rs[i] : rs \in answers}
        \cup {wire[n].task : n \in {m \in DOMAIN wire : wire[m].id = i}}

LEMMA CopiesTyped ==
    ASSUME TypeOK, NEW i \in Ids, NEW t \in Copies(i), t # Gone
    PROVE  t \in Task /\ t.done \in Nat /\ t.isComplete \in BOOLEAN
  <1>1. \A n \in DOMAIN wire : wire[n].task \in Task \cup {Gone}
    <2>1. \A n \in DOMAIN wire : wire[n] \in Event
      BY DEF TypeOK
    <2> QED
      BY <2>1 DEF Event
  <1>2. t \in Task
    BY <1>1 DEF Copies, TypeOK, Tasks
  <1> QED
    BY <1>2 DEF Task

\* A step that moves copies of task i.
CopiesMoved(i) == Copies(i)' \subseteq Copies(i) \cup {Gone} /\ stored'[i] = stored[i]

\* A write of task j makes one copy of it and none of another task.
LEMMA CopiesOfWrite ==
    ASSUME TypeOK, NEW j \in Ids, NEW t, Rewrites(j, t), row' = row, answers' = answers,
           NEW i \in Ids
    PROVE  \/ i = j /\ Copies(i)' \subseteq Copies(i) \cup {t} /\ stored'[i] = t
           \/ CopiesMoved(i)
  <1> DEFINE e == [id |-> j, task |-> t]
  <1>1. stored \in Tasks /\ wire \in Seq(Event) /\ t \in Task \cup {Gone}
    BY DEF TypeOK, Rewrites
  <1>2. stored' = [stored EXCEPT ![j] = t] /\ (wire' = wire \/ wire' = Append(wire, e))
    BY DEF Rewrites, Write
  <1>3. e.id = j /\ e.task = t
    OBVIOUS
  <1> HIDE DEF e
  <1>4. \A n \in DOMAIN wire' : wire'[n] = e \/ (n \in DOMAIN wire /\ wire'[n] = wire[n])
    BY <1>1, <1>2
  <1>5. stored'[i] = IF i = j THEN t ELSE stored[i]
    BY <1>1, <1>2 DEF Tasks
  <1>6. CASE i = j
    <2>1. Copies(i)' \subseteq Copies(i) \cup {t}
      BY <1>3, <1>4, <1>5, <1>6 DEF Copies
    <2> QED
      BY <1>5, <1>6, <2>1
  <1>7. CASE i # j
    <2>1. Copies(i)' \subseteq Copies(i)
      BY <1>3, <1>4, <1>5, <1>7 DEF Copies
    <2> QED
      BY <1>5, <1>7, <2>1 DEF CopiesMoved
  <1> QED
    BY <1>6, <1>7

\* The server writes task i and makes a copy of what it writes.
CopyWritten(i) ==
    \E t \in Task \cup {Gone} :
        Rewrites(i, t) /\ Copies(i)' \subseteq Copies(i) \cup {t} /\ stored'[i] = t

\* What a step does to the copies of a task: it moves them, writes a new one, or adds a
\* parent to that of the form's row.
LEMMA NextCopies ==
    ASSUME TypeInv, [Next]_vars, NEW i \in Ids
    PROVE  \/ CopiesMoved(i)
           \/ CopyWritten(i)
           \/ form.of = i /\ \E p \in Parents : addParentId(p)
  <1> USE DEF TypeInv
  <1>1. ASSUME UNCHANGED <<stored, row, answers, wire>> PROVE CopiesMoved(i)
    BY <1>1 DEF Copies, CopiesMoved
  <1>2. CASE TakeSnapshot
    BY <1>2 DEF TakeSnapshot, Copies, CopiesMoved
  <1>3. CASE EventArrives
    <2>1. wire \in Seq(Event) /\ wire # <<>> /\ wire' = Tail(wire)
      BY <1>3 DEF EventArrives, TypeOK
    <2>2. \A n \in DOMAIN wire' : n + 1 \in DOMAIN wire /\ wire'[n] = wire[n + 1]
      BY <2>1
    <2>3. 1 \in DOMAIN wire /\ Head(wire) = wire[1]
      BY <2>1
    <2>4. row'[i] = row[i] \/ (wire[1].id = i /\ row'[i] = wire[1].task)
      BY <1>3, <2>3, Arrival
    <2>5. stored' = stored /\ answers' = answers
      BY <1>3 DEF EventArrives
    <2>6. row'[i] \in Copies(i)
      BY <2>3, <2>4 DEF Copies
    <2>7. \A n \in DOMAIN wire' : wire'[n].id = i => wire'[n].task \in Copies(i)
      BY <2>2 DEF Copies
    <2> QED
      BY <2>5, <2>6, <2>7 DEF Copies, CopiesMoved
  <1>4. ASSUME NEW rs \in answers, LoadEnds(rs) PROVE CopiesMoved(i)
    BY <1>4 DEF LoadEnds, Copies, CopiesMoved
  <1>5. ASSUME NEW j \in Ids, NEW t, Rewrites(j, t), row' = row, answers' = answers
        PROVE  CopiesMoved(i) \/ CopyWritten(i)
    <2>1. t \in Task \cup {Gone}
      BY <1>5 DEF Rewrites
    <2> QED
      BY <1>5, <2>1, CopiesOfWrite DEF CopyWritten
  <1>6. ASSUME NEW s \in saves, Serve(s) PROVE CopiesMoved(i) \/ CopyWritten(i)
    <2>1. s.of \in Ids /\ row' = row /\ answers' = answers
      BY <1>6 DEF Serve, TypeOK, Save
    <2>2. CASE Accepted(s)
      BY <1>5, <1>6, <2>1, <2>2, SaveRewrites
    <2>3. CASE ~Accepted(s)
      BY <1>1, <1>6, <2>3 DEF Serve
    <2> QED
      BY <2>2, <2>3
  <1>7. ASSUME NEW j \in Ids, WorkerCompletes(j) PROVE CopiesMoved(i) \/ CopyWritten(i)
    <2>1. row' = row /\ answers' = answers
      BY <1>7 DEF WorkerCompletes
    <2> QED
      BY <1>5, <1>7, <2>1, CompletionRewrites
  <1>8. ASSUME NEW j \in Ids, OthersReset(j) PROVE CopiesMoved(i) \/ CopyWritten(i)
    <2>1. row' = row /\ answers' = answers
      BY <1>8 DEF OthersReset
    <2> QED
      BY <1>5, <1>8, <2>1, ResetRewrites
  <1>9. ASSUME NEW j \in Ids, OthersDelete(j) PROVE CopiesMoved(i) \/ CopyWritten(i)
    <2>1. row' = row /\ answers' = answers
      BY <1>9 DEF OthersDelete
    <2> QED
      BY <1>5, <1>9, <2>1, DeletionRewrites
  <1>10. ASSUME NEW p \in Parents, addParentId(p), form.of # i PROVE CopiesMoved(i)
    <2>1. row'[i] = row[i]
      BY <1>10, ParentAdded
    <2> QED
      BY <1>10, <2>1 DEF addParentId, Copies, CopiesMoved
  <1>11. CASE OpenForm \/ CloseForm \/ create \/ Refresh \/ SaveFails \/ LoadFails \/ UNCHANGED vars
    BY <1>1, <1>11 DEF OpenForm, CloseForm, create, Refresh, SaveFails, LoadFails, vars
  <1>12. CASE \/ \E field \in Fields : Type(field)
              \/ \E p \in AllParents : removeParentId(p)
              \/ \E r \in results : SaveEnds(r)
    BY <1>1, <1>12 DEF Type, removeParentId, SaveEnds
  <1> QED
    BY <1>2, <1>3, <1>4, <1>6, <1>7, <1>8, <1>9, <1>10, <1>11, <1>12 DEF Next, User

KeepsParents(i, t) == t # Gone => First[i].parentIds \subseteq t.parentIds

\* Every copy has its first parents, and what the form shares with the row is the same.
ParentsInv ==
    /\ \A i \in Ids : \A t \in Copies(i) : KeepsParents(i, t)
    /\ form.open /\ form.shared => form.parentIds = row[form.of].parentIds

LEMMA NextParents == TypeInv /\ ParentsInv /\ [Next]_vars => ParentsInv'
  <1> SUFFICES ASSUME TypeInv, ParentsInv, [Next]_vars PROVE ParentsInv'
    OBVIOUS
  <1>1. ASSUME NEW i \in Ids, NEW t \in Copies(i)' PROVE KeepsParents(i, t)
    <2>1. \A u \in Copies(i) \cup {Gone} : KeepsParents(i, u)
      BY DEF ParentsInv, KeepsParents
    <2>2. CASE CopiesMoved(i)
      BY <1>1, <2>1, <2>2 DEF CopiesMoved
    <2>3. ASSUME NEW u \in Task \cup {Gone}, Rewrites(i, u), Copies(i)' \subseteq Copies(i) \cup {u}
          PROVE  KeepsParents(i, t)
      <3>1. KeepsParents(i, stored[i]) /\ stored[i] # Gone
        BY <2>1, <2>3, FormAssumption DEF Copies, Rewrites
      <3>2. KeepsParents(i, u)
        BY <2>3, <3>1 DEF Rewrites, KeepsParents
      <3> QED
        BY <1>1, <2>1, <2>3, <3>2
    <2>4. ASSUME form.of = i, NEW p \in Parents, addParentId(p) PROVE KeepsParents(i, t)
      <3>1. Copies(i)' \subseteq Copies(i) \cup {row'[i]}
        BY <2>4 DEF addParentId, Copies
      <3>2. row[i] # Gone /\ row[i].parentIds \subseteq row'[i].parentIds
        BY <2>4, ParentAdded, FormAssumption
      <3>3. KeepsParents(i, row'[i])
        BY <2>1, <3>2 DEF KeepsParents, Copies
      <3> QED
        BY <1>1, <2>1, <3>1, <3>3
    <2> QED
      BY <2>2, <2>3, <2>4, NextCopies DEF CopyWritten
  <1>2. form'.open /\ form'.shared => form'.parentIds = row'[form'.of].parentIds
    <2>1. CASE form' = Closed
      BY <2>1, OpenForms DEF TypeInv
    <2>2. CASE Filled
      <3>1. PICK i \in Ids, busy \in BOOLEAN : form' = initFields(i, row'[i], busy)
        BY <2>2 DEF Filled
      <3> QED
        BY <3>1 DEF initFields
    <2>3. CASE Edited
      BY <2>3 DEF Edited, ParentsInv
    <2> QED
      BY <2>1, <2>2, <2>3, NextForm
  <1> QED
    BY <1>1, <1>2 DEF ParentsInv, KeepsParents

LEMMA InitParents == Init => ParentsInv
  <1> SUFFICES ASSUME Init PROVE ParentsInv
    OBVIOUS
  <1>1. \A i \in Ids : Copies(i) = {First[i]}
    BY DEF Init, Copies
  <1>2. ~form.open
    BY InitTyped, OpenForms DEF Init, TypeInv
  <1> QED
    BY <1>1, <1>2 DEF ParentsInv, KeepsParents

\* The form never costs a row a parent of its task, although it writes to the row's array
\* until a parent is removed: what is removed is removed from an array of its own.
THEOREM TheRowKeepsItsParents == Spec => []RowKeepsParents
  <1>1. ParentsInv => RowKeepsParents
    BY DEF ParentsInv, Copies, KeepsParents, RowKeepsParents
  <1> QED
    BY <1>1, InitParents, NextParents, FormInductive, PTL DEF Spec

-----------------------------------------------------------------------------
(* Completions.                                                            *)

\* A copy of task i from before its last completion, done, is complete or such that what
\* is stored is not.
Upright(i, done, complete) ==
    /\ done <= stored[i].done
    /\ stored[i].isComplete /\ stored[i].done <= done => complete

\* Every copy is so, and a form or a save unless the user has clicked the box.
CopiesUpright ==
    \A i \in Ids : stored[i] # Gone =>
        \A t \in Copies(i) \ {Gone} : Upright(i, t.done, t.isComplete)

FormUpright ==
    form.open /\ stored[form.of] # Gone =>
        Upright(form.of, form.done, form.isComplete \/ "isComplete" \in form.typed)

SavesUpright ==
    \A s \in saves : stored[s.of] # Gone =>
        Upright(s.of, s.done, s.sent.isComplete \/ s.clicked)

UprightInv == CopiesUpright /\ FormUpright /\ SavesUpright

\* A write leaves every copy as it should be and makes one.
LEMMA WriteUpright ==
    ASSUME TypeOK, NEW i \in Ids, NEW t \in Task, Rewrites(i, t), stored'[i] = t
    PROVE  /\ Upright(i, t.done, t.isComplete)'
           /\ \A done \in Nat, complete \in BOOLEAN :
                 Upright(i, done, complete) => Upright(i, done, complete)'
  <1>1. /\ stored[i].done \in Nat /\ t.done \in Nat
        /\ stored[i].isComplete \in BOOLEAN /\ t.isComplete \in BOOLEAN
    BY DEF Rewrites, Task
  <1>2. t.done = IF t.isComplete /\ ~stored[i].isComplete THEN stored[i].done + 1 ELSE stored[i].done
    BY FormAssumption DEF Rewrites, Completed
  <1>3. Upright(i, t.done, t.isComplete)'
    BY <1>1 DEF Upright
  <1>4. ASSUME NEW done \in Nat, NEW complete \in BOOLEAN, Upright(i, done, complete)
        PROVE  Upright(i, done, complete)'
    <2>1. done <= stored[i].done /\ (stored[i].isComplete /\ stored[i].done <= done => complete)
      BY <1>4 DEF Upright
    <2>2. CASE t.isComplete /\ ~stored[i].isComplete
      <3>1. t.done = stored[i].done + 1
        BY <1>2, <2>2
      <3>2. done <= t.done /\ ~(t.done <= done)
        BY <1>1, <2>1, <3>1
      <3> QED
        BY <3>2 DEF Upright
    <2>3. CASE ~(t.isComplete /\ ~stored[i].isComplete)
      <3>1. t.done = stored[i].done /\ (t.isComplete => stored[i].isComplete)
        BY <1>2, <2>3
      <3> QED
        BY <2>1, <3>1 DEF Upright
    <2> QED
      BY <2>2, <2>3
  <1> QED
    BY <1>3, <1>4

\* A step that does not make a copy leaves it as it should be.
LEMMA UprightKept ==
    ASSUME TypeInv, [Next]_vars, NEW i \in Ids, stored'[i] # Gone
    PROVE  /\ stored[i] # Gone
           /\ \A done \in Nat, complete \in BOOLEAN :
                 Upright(i, done, complete) => Upright(i, done, complete)'
  <1>1. CASE stored'[i] = stored[i]
    BY <1>1 DEF Upright
  <1>2. CASE CopyWritten(i)
    <2>1. PICK t \in Task \cup {Gone} : Rewrites(i, t) /\ stored'[i] = t
      BY <1>2 DEF CopyWritten
    <2>2. t \in Task /\ stored[i] # Gone
      BY <2>1, FormAssumption DEF Rewrites
    <2> QED
      BY <2>1, <2>2, WriteUpright DEF TypeInv
  <1>3. CASE \E p \in Parents : addParentId(p)
    <2>1. stored' = stored
      BY <1>3 DEF addParentId
    <2> QED
      BY <1>1, <2>1
  <1> QED
    BY <1>1, <1>2, <1>3, NextCopies DEF CopiesMoved

LEMMA NextCopiesUpright ==
    ASSUME TypeInv, CopiesUpright, [Next]_vars, NEW i \in Ids, stored'[i] # Gone,
           NEW t \in Copies(i)', t # Gone
    PROVE  Upright(i, t.done, t.isComplete)'
  <1> USE DEF TypeInv
  <1>1. ASSUME NEW u \in Copies(i), u # Gone PROVE Upright(i, u.done, u.isComplete)'
    <2>1. u.done \in Nat /\ u.isComplete \in BOOLEAN
      BY <1>1, CopiesTyped
    <2>2. Upright(i, u.done, u.isComplete)
      BY <1>1, UprightKept DEF CopiesUpright
    <2> QED
      BY <2>1, <2>2, UprightKept
  <1>2. CASE CopiesMoved(i)
    <2>1. t \in Copies(i)
      BY <1>2 DEF CopiesMoved
    <2> QED
      BY <1>1, <2>1
  <1>3. CASE CopyWritten(i)
    <2>1. PICK u \in Task \cup {Gone} :
              Rewrites(i, u) /\ Copies(i)' \subseteq Copies(i) \cup {u} /\ stored'[i] = u
      BY <1>3 DEF CopyWritten
    <2>2. u \in Task
      BY <2>1
    <2>3. Upright(i, u.done, u.isComplete)'
      BY <2>1, <2>2, WriteUpright
    <2>4. t \in Copies(i) \/ t = u
      BY <2>1
    <2> QED
      BY <1>1, <2>3, <2>4
  <1>4. ASSUME form.of = i, NEW p \in Parents, addParentId(p) PROVE Upright(i, t.done, t.isComplete)'
    <2>1. Copies(i)' \subseteq Copies(i) \cup {row'[i]} /\ row[i] \in Copies(i)
      BY <1>4 DEF addParentId, Copies
    <2>2. row[i] # Gone /\ row'[i].done = row[i].done /\ row'[i].isComplete = row[i].isComplete
      BY <1>4, ParentAdded, FormAssumption
    <2>3. PICK done, complete : done = row[i].done /\ complete = row[i].isComplete
      OBVIOUS
    <2>4. Upright(i, done, complete)'
      <3>1. PICK u : u = row[i]
        OBVIOUS
      <3>2. u \in Copies(i) /\ u # Gone /\ done = u.done /\ complete = u.isComplete
        BY <2>1, <2>2, <2>3, <3>1
      <3> QED
        BY <1>1, <3>2
    <2>5. t \in Copies(i) \/ (t.done = done /\ t.isComplete = complete)
      BY <2>1, <2>2, <2>3
    <2> QED
      BY <1>1, <2>4, <2>5
  <1> QED
    BY <1>2, <1>3, <1>4, NextCopies

LEMMA NextFormUpright == TypeInv /\ UprightInv /\ [Next]_vars => FormUpright'
  <1> SUFFICES ASSUME TypeInv, UprightInv, [Next]_vars, form'.open, stored'[form'.of] # Gone
               PROVE  FormUpright'
    BY DEF FormUpright
  <1>1. form' # Closed
    BY OpenForms DEF TypeInv
  <1>2. CASE Filled
    <2>1. PICK i \in Ids, busy \in BOOLEAN : row'[i] # Gone /\ form' = initFields(i, row'[i], busy)
      BY <1>2 DEF Filled
    <2>2. form'.of = i /\ form'.done = row'[i].done /\ form'.isComplete = row'[i].isComplete
      BY <2>1 DEF initFields
    <2>3. row'[i] \in Copies(i)'
      BY DEF Copies
    <2>4. PICK t : t = row'[i]
      OBVIOUS
    <2>5. Upright(i, t.done, t.isComplete)'
      BY <2>1, <2>2, <2>3, <2>4, NextCopiesUpright DEF UprightInv
    <2> QED
      BY <2>2, <2>4, <2>5 DEF FormUpright, Upright
  <1>3. CASE Edited
    <2>1. /\ form \in Form /\ form.of \in Ids /\ form.open /\ form'.of = form.of
          /\ form'.done = form.done /\ form.typed \subseteq form'.typed
          /\ \A field \in Fields : form'[field] # form[field] => field \in form'.typed
      BY <1>3, OpenForms DEF Edited, TypeInv
    <2>2. PICK i \in Ids, done \in Nat, complete \in BOOLEAN :
              /\ i = form.of /\ done = form.done
              /\ complete = (form.isComplete \/ "isComplete" \in form.typed)
      BY <2>1 DEF Form
    <2>3. Upright(i, done, complete)
      BY <2>1, <2>2, UprightKept DEF UprightInv, FormUpright
    <2>4. Upright(i, done, complete)'
      BY <2>1, <2>2, <2>3, UprightKept
    <2>5. complete => form'.isComplete \/ "isComplete" \in form'.typed
      <3>1. "isComplete" \in Fields
        BY DEF Fields
      <3>2. CASE form'.isComplete = form.isComplete
        BY <2>1, <2>2, <3>2
      <3>3. CASE form'.isComplete # form.isComplete
        BY <2>1, <3>1, <3>3
      <3> QED
        BY <3>2, <3>3
    <2> QED
      BY <2>1, <2>2, <2>4, <2>5 DEF FormUpright, Upright
  <1> QED
    BY <1>1, <1>2, <1>3, NextForm

\* A save is sent by a form and then only abandoned.
LEMMA NextSaves ==
    ASSUME TypeInv, [Next]_vars, NEW c \in saves'
    PROVE  \/ \E s \in saves :
                 /\ c.of = s.of /\ c.done = s.done /\ c.clicked = s.clicked /\ c.sent = s.sent
           \/ /\ form.open /\ stored' = stored /\ c.of = form.of /\ c.done = form.done
              /\ c.sent.isComplete = form.isComplete
              /\ c.clicked = ("isComplete" \in form.typed)
  <1> DEFINE Kept == \E s \in saves :
                 /\ c.of = s.of /\ c.done = s.done /\ c.clicked = s.clicked /\ c.sent = s.sent
  <1> USE DEF TypeInv
  <1>1. ASSUME saves' \subseteq saves PROVE Kept
    BY <1>1
  <1>2. ASSUME saves' = Abandoned(saves) PROVE Kept
    <2>1. PICK s \in saves : c = [s EXCEPT !.mine = FALSE]
      BY <1>2 DEF Abandoned
    <2>2. s \in Save
      BY DEF TypeOK
    <2>3. c.of = s.of /\ c.done = s.done /\ c.clicked = s.clicked /\ c.sent = s.sent
      BY <2>1, <2>2 DEF Save
    <2> QED
      BY <2>3
  <1>3. ASSUME NEW gone, Orphaned(gone) PROVE Kept
    BY <1>1, <1>2, <1>3 DEF Orphaned
  <1>4. CASE create
    BY <1>1, <1>4 DEF create
  <1>5. ASSUME NEW rs, FormFollows(rs) PROVE Kept
    BY <1>3, <1>5, Follows
  <1>6. CASE CloseForm
    BY <1>3, <1>6 DEF CloseForm
  <1>7. CASE EventArrives
    BY <1>3, <1>5, <1>7, Arrival
  <1>8. CASE \E rs \in answers : LoadEnds(rs)
    BY <1>5, <1>8 DEF LoadEnds
  <1>9. CASE SaveFails \/ \E s \in saves : Serve(s)
    BY <1>1, <1>9 DEF SaveFails, Serve
  <1>10. CASE OpenForm \/ Refresh \/ TakeSnapshot \/ LoadFails \/ UNCHANGED vars
    BY <1>1, <1>10 DEF OpenForm, Refresh, TakeSnapshot, LoadFails, vars
  <1>11. CASE \E i \in Ids : WorkerCompletes(i) \/ OthersReset(i) \/ OthersDelete(i)
    BY <1>1, <1>11 DEF WorkerCompletes, OthersReset, OthersDelete
  <1>12. CASE \/ \E field \in Fields : Type(field)
              \/ \E p \in Parents : addParentId(p)
              \/ \E p \in AllParents : removeParentId(p)
    BY <1>1, <1>12 DEF Type, addParentId, removeParentId
  <1>13. CASE \E r \in results : SaveEnds(r)
    BY <1>1, <1>13 DEF SaveEnds
  <1> QED
    BY <1>4, <1>6, <1>7, <1>8, <1>9, <1>10, <1>11, <1>12, <1>13 DEF Next, User

LEMMA NextUpright == TypeInv /\ UprightInv /\ [Next]_vars => UprightInv'
  <1> SUFFICES ASSUME TypeInv, UprightInv, [Next]_vars PROVE UprightInv'
    OBVIOUS
  <1> USE DEF TypeInv
  <1>1. CopiesUpright'
    <2> SUFFICES ASSUME NEW i \in Ids, stored'[i] # Gone, NEW t \in Copies(i)', t # Gone
                 PROVE  Upright(i, t.done, t.isComplete)'
      BY DEF CopiesUpright
    <2> QED
      BY NextCopiesUpright DEF UprightInv
  <1>2. FormUpright'
    BY NextFormUpright
  <1>3. SavesUpright'
    <2> SUFFICES ASSUME NEW c \in saves', stored'[c.of] # Gone
                 PROVE  Upright(c.of, c.done, c.sent.isComplete \/ c.clicked)'
      BY DEF SavesUpright
    <2>1. ASSUME NEW s \in saves, c.of = s.of, c.done = s.done, c.clicked = s.clicked,
                 c.sent = s.sent
          PROVE  Upright(c.of, c.done, c.sent.isComplete \/ c.clicked)'
      <3>1. c.of \in Ids /\ c.done \in Nat /\ (c.sent.isComplete \/ c.clicked) \in BOOLEAN
        BY <2>1 DEF TypeOK, Save
      <3>2. Upright(c.of, c.done, c.sent.isComplete \/ c.clicked)
        BY <2>1, <3>1, UprightKept DEF UprightInv, SavesUpright
      <3> QED
        BY <3>1, <3>2, UprightKept
    <2>2. ASSUME form.open, stored' = stored, c.of = form.of, c.done = form.done,
                 c.sent.isComplete = form.isComplete, c.clicked = ("isComplete" \in form.typed)
          PROVE  Upright(c.of, c.done, c.sent.isComplete \/ c.clicked)'
      <3>1. form.of \in Ids
        BY <2>2, OpenForms
      <3>2. Upright(form.of, form.done, form.isComplete \/ "isComplete" \in form.typed)
        BY <2>2 DEF UprightInv, FormUpright
      <3> QED
        BY <2>2, <3>2 DEF Upright
    <2> QED
      BY <2>1, <2>2, NextSaves
  <1> QED
    BY <1>1, <1>2, <1>3 DEF UprightInv

LEMMA InitUpright == Init => UprightInv
  <1> SUFFICES ASSUME Init PROVE UprightInv
    OBVIOUS
  <1>1. ASSUME NEW i \in Ids PROVE Copies(i) = {First[i]} /\ Upright(i, First[i].done, First[i].isComplete)
    <2>1. First[i].done = 0 /\ First[i].isComplete \in BOOLEAN /\ stored = First
      BY FormAssumption DEF Task, Init
    <2>2. Upright(i, First[i].done, First[i].isComplete)
      BY <2>1 DEF Upright
    <2> QED
      BY <2>2 DEF Init, Copies
  <1>2. CopiesUpright
    BY <1>1 DEF CopiesUpright
  <1>3. ~form.open
    BY InitTyped, OpenForms DEF Init, TypeInv
  <1>4. SavesUpright
    BY DEF Init, SavesUpright
  <1> QED
    BY <1>2, <1>3, <1>4 DEF UprightInv, FormUpright

\* A step that makes a completed task incomplete.
LEMMA WhoUndoes ==
    ASSUME TypeInv, UprightInv, [Next]_vars, NEW i \in Ids, stored[i] # Gone, stored'[i] # Gone,
           stored[i].isComplete, ~stored'[i].isComplete
    PROVE  \/ OthersReset(i)
           \/ \E s \in saves : Serve(s) /\ s.of = i /\ (s.clicked \/ s.done < stored[i].done)
  <1> USE DEF TypeInv
  <1>1. stored'[i] # stored[i]
    OBVIOUS
  <1>2. ASSUME NEW j \in Ids, NEW t, Rewrites(j, t) PROVE i = j /\ stored'[i] = t
    <2>1. stored' = [stored EXCEPT ![j] = t]
      BY <1>2 DEF Rewrites, Write
    <2> QED
      BY <1>1, <2>1 DEF TypeOK, Tasks
  <1>3. ASSUME NEW s \in saves, Serve(s) PROVE s.of = i /\ (s.clicked \/ s.done < stored[i].done)
    <2>1. Accepted(s) /\ s \in Save /\ s.of \in Ids
      BY <1>1, <1>3 DEF Serve, TypeOK, Save
    <2>2. PICK t \in Task : Rewrites(s.of, t) /\ t.isComplete = s.sent.isComplete
      BY <1>3, <2>1, SaveRewrites
    <2>3. s.of = i /\ ~s.sent.isComplete
      BY <1>2, <2>1, <2>2
    <2>4. Upright(i, s.done, s.sent.isComplete \/ s.clicked)
      BY <2>3 DEF UprightInv, SavesUpright
    <2>5. stored[i].done <= s.done => s.clicked
      BY <2>3, <2>4 DEF Upright
    <2>6. s.done \in Nat /\ stored[i].done \in Nat
      BY <2>1 DEF TypeOK, Save, Tasks, Task
    <2> QED
      BY <2>3, <2>5, <2>6
  <1>4. ASSUME NEW j \in Ids, WorkerCompletes(j) PROVE FALSE
    BY <1>2, <1>4, CompletionRewrites
  <1>5. ASSUME NEW j \in Ids, OthersReset(j) PROVE OthersReset(i)
    BY <1>2, <1>5, ResetRewrites
  <1>6. ASSUME NEW j \in Ids, OthersDelete(j) PROVE FALSE
    BY <1>2, <1>6, DeletionRewrites
  <1>7. CASE OpenForm \/ CloseForm \/ create \/ Refresh \/ TakeSnapshot \/ LoadFails \/ SaveFails
    BY <1>1, <1>7 DEF OpenForm, CloseForm, create, Refresh, TakeSnapshot, LoadFails, SaveFails
  <1>8. CASE EventArrives \/ UNCHANGED vars
    BY <1>1, <1>8 DEF EventArrives, vars
  <1>9. CASE \/ \E field \in Fields : Type(field)
             \/ \E p \in Parents : addParentId(p)
             \/ \E p \in AllParents : removeParentId(p)
    BY <1>1, <1>9 DEF Type, addParentId, removeParentId
  <1>10. CASE (\E r \in results : SaveEnds(r)) \/ (\E rs \in answers : LoadEnds(rs))
    BY <1>1, <1>10 DEF SaveEnds, LoadEnds
  <1> QED
    BY <1>3, <1>4, <1>5, <1>6, <1>7, <1>8, <1>9, <1>10 DEF Next, User

\* Only a reset, a click or the save of a copy of the task that is older than the completion
\* makes a completed task incomplete, whichever tasks the forms were given meanwhile.
THEOREM OnlyAnOldCopyUndoes == Spec => OnlyOldCopiesUndo
  <1>1. TypeInv /\ UprightInv /\ [Next]_vars =>
            (\A i \in Ids :
                stored[i] # Gone /\ stored'[i] # Gone /\ stored[i].isComplete /\ ~stored'[i].isComplete =>
                \/ OthersReset(i)
                \/ \E s \in saves : Serve(s) /\ s.of = i /\ (s.clicked \/ s.done < stored[i].done))
    BY WhoUndoes
  <1> QED
    BY <1>1, InitUpright, NextUpright, FormInductive, PTL DEF Spec, OnlyOldCopiesUndo

-----------------------------------------------------------------------------
(* The button.                                                             *)

BusyForm == form.open /\ form.busy

Sent == \E s \in saves : s.mine

Handled == \E r \in results : r.mine

\* The form waits for one save, handled or not.
BusyInv ==
    /\ BusyForm <=> Sent \/ Handled
    /\ ~(Sent /\ Handled)
    /\ \A s, c \in saves : s.mine /\ c.mine => s = c
    /\ \A r, q \in results : r.mine /\ q.mine => r = q

LEMMA AbandonedIsNobodys ==
    ASSUME TypeOK
    PROVE  /\ \A s \in Abandoned(saves) : ~s.mine
           /\ \A r \in Abandoned(results) : ~r.mine
  <1>1. ASSUME NEW s \in Abandoned(saves) PROVE s.mine = FALSE
    BY <1>1 DEF Abandoned, TypeOK, Save
  <1>2. ASSUME NEW r \in Abandoned(results) PROVE r.mine = FALSE
    BY <1>2 DEF Abandoned, TypeOK, Result
  <1> QED
    BY <1>1, <1>2, Zenon

LEMMA NextBusy == TypeInv /\ BusyInv /\ [Next]_vars => BusyInv'
  <1> SUFFICES ASSUME TypeInv, BusyInv, [Next]_vars PROVE BusyInv'
    OBVIOUS
  <1> USE DEF TypeInv
  <1>1. ~Closed.open
    BY OpenForms
  <1>2. form.open => form \in Form
    BY OpenForms
  <1>3. ASSUME saves' = saves, results' = results, BusyForm' <=> BusyForm PROVE BusyInv'
    BY <1>3 DEF BusyInv, Sent, Handled
  <1>4. ASSUME form' = Closed, Orphaned(TRUE) PROVE BusyInv'
    <2>1. ~BusyForm'
      BY <1>1, <1>4 DEF BusyForm
    <2> QED
      BY <1>4, <2>1, AbandonedIsNobodys DEF Orphaned, BusyInv, Sent, Handled
  <1>5. ASSUME form.open, form'.open, form'.busy = form.busy PROVE BusyForm' <=> BusyForm
    BY <1>5 DEF BusyForm
  <1>6. CASE OpenForm
    <2>1. form'.busy = FALSE /\ ~form.open /\ saves' = saves /\ results' = results
      BY <1>6 DEF OpenForm, initFields
    <2>2. ~BusyForm /\ ~BusyForm'
      BY <2>1, Zenon DEF BusyForm
    <2> QED
      BY <1>3, <2>1, <2>2
  <1>7. CASE CloseForm
    BY <1>4, <1>7 DEF CloseForm
  <1>8. ASSUME NEW field \in Fields, Type(field) PROVE BusyInv'
    <2>1. PICK value \in Values[field] :
              form' = [form EXCEPT ![field] = value, !.typed = @ \cup {field}]
      BY <1>8 DEF Type
    <2>2. form.open /\ form'.open = form.open /\ form'.busy = form.busy
      BY <1>2, <1>8, <2>1 DEF Type, Form, Fields
    <2> QED
      BY <1>3, <1>5, <1>8, <2>2 DEF Type
  <1>9. ASSUME NEW p, addParentId(p) \/ removeParentId(p) PROVE BusyInv'
    <2>1. form.open /\ form'.open = form.open /\ form'.busy = form.busy
      BY <1>2, <1>9 DEF addParentId, removeParentId, Form
    <2> QED
      BY <1>3, <1>5, <1>9, <2>1 DEF addParentId, removeParentId
  <1>10. CASE create
    <2>1. form \in Form /\ form.open /\ ~form.busy /\ form' = [form EXCEPT !.busy = TRUE]
      BY <1>2, <1>10 DEF create
    <2>2. form'.open = form.open /\ form'.busy = TRUE
      BY <2>1 DEF Form
    <2>3. BusyForm' /\ ~BusyForm
      BY <2>1, <2>2, Zenon DEF BusyForm
    <2> DEFINE c == [ of |-> form.of,
                      sent |-> [name |-> form.name, isComplete |-> form.isComplete,
                                runAfter |-> form.runAfter],
                      done |-> form.done, clicked |-> "isComplete" \in form.typed, mine |-> TRUE ]
    <2>4. saves' = saves \cup {c} /\ c.mine = TRUE
      BY <1>10 DEF create
    <2> HIDE DEF c
    <2>5. results' = results /\ ~Sent /\ ~Handled
      BY <1>10, <2>3 DEF create, BusyInv
    <2> QED
      BY <2>3, <2>4, <2>5 DEF BusyInv, Sent, Handled
  <1>11. ASSUME NEW s \in saves, Serve(s) PROVE BusyInv'
    <2> DEFINE r == [ok |-> Accepted(s), mine |-> s.mine]
    <2>1. results' = results \cup {r} /\ r.mine = s.mine
      BY <1>11 DEF Serve
    <2> HIDE DEF r
    <2>2. saves' = saves \ {s} /\ (BusyForm' <=> BusyForm)
      BY <1>11 DEF Serve, BusyForm
    <2>3. CASE s.mine
      <3>1. r.mine /\ ~Handled /\ BusyForm /\ ~Sent'
        BY <2>1, <2>2, <2>3 DEF BusyInv, Sent, Handled
      <3> QED
        BY <2>1, <2>2, <3>1 DEF BusyInv, Sent, Handled
    <2>4. CASE ~s.mine
      <3>1. ~r.mine
        BY <2>1, <2>4
      <3>2. (Sent' <=> Sent) /\ (Handled' <=> Handled)
        BY <2>1, <2>2, <2>4, <3>1 DEF Sent, Handled
      <3> QED
        BY <2>1, <2>2, <3>1, <3>2 DEF BusyInv
    <2> QED
      BY <2>3, <2>4
  <1>12. ASSUME NEW mine \in BOOLEAN, NEW ok \in BOOLEAN, Ended(mine, ok), mine => BusyForm
         PROVE  BusyForm' <=> BusyForm /\ ~mine
    <2>1. CASE form.open /\ form' = [form EXCEPT !.busy = StillBusy(mine, ok)]
      <3>1. form'.open = form.open /\ form'.busy = StillBusy(mine, ok)
        BY <1>2, <2>1 DEF Form
      <3> QED
        BY <2>1, <3>1, Zenon DEF BusyForm, StillBusy
    <2>2. CASE mine /\ ok /\ form' = Closed
      BY <1>1, <2>2 DEF BusyForm
    <2>3. CASE ~(mine /\ ok) /\ ~form.open /\ form' = form
      BY <1>12, <2>3 DEF BusyForm
    <2> QED
      BY <1>12, <2>1, <2>2, <2>3 DEF Ended
  <1>13. ASSUME NEW r \in results, results' = results \ {r}, saves' = saves,
                BusyForm' <=> BusyForm /\ ~r.mine
         PROVE  BusyInv'
    <2>1. Sent' <=> Sent
      BY <1>13 DEF Sent
    <2>2. r.mine => ~Handled' /\ ~Sent
      BY <1>13 DEF BusyInv, Sent, Handled
    <2>3. ~r.mine => (Handled' <=> Handled)
      BY <1>13 DEF Handled
    <2> QED
      BY <1>13, <2>1, <2>2, <2>3 DEF BusyInv
  <1>14. ASSUME NEW s \in saves, saves' = saves \ {s}, results' = results,
                BusyForm' <=> BusyForm /\ ~s.mine
         PROVE  BusyInv'
    <2>1. Handled' <=> Handled
      BY <1>14 DEF Handled
    <2>2. s.mine => ~Sent' /\ ~Handled
      BY <1>14 DEF BusyInv, Sent, Handled
    <2>3. ~s.mine => (Sent' <=> Sent)
      BY <1>14 DEF Sent
    <2> QED
      BY <1>14, <2>1, <2>2, <2>3 DEF BusyInv
  <1>15. /\ \A s \in saves : s.mine \in BOOLEAN /\ (s.mine => BusyForm)
         /\ \A r \in results : r.mine \in BOOLEAN /\ r.ok \in BOOLEAN /\ (r.mine => BusyForm)
    <2>1. /\ \A s \in saves : s.mine \in BOOLEAN
          /\ \A r \in results : r.mine \in BOOLEAN /\ r.ok \in BOOLEAN
      BY DEF TypeOK, Save, Result
    <2> QED
      BY <2>1, Zenon DEF BusyInv, Sent, Handled
  <1>16. ASSUME NEW r \in results, SaveEnds(r) PROVE BusyInv'
    BY <1>12, <1>13, <1>15, <1>16 DEF SaveEnds
  <1>17. CASE SaveFails
    <2>1. ASSUME NEW s \in saves, saves' = saves \ {s}, results' = results, Ended(s.mine, FALSE)
          PROVE  BusyInv'
      BY <1>12, <1>14, <1>15, <2>1
    <2>2. ASSUME NEW r \in results, results' = results \ {r}, saves' = saves, Ended(r.mine, FALSE)
          PROVE  BusyInv'
      BY <1>12, <1>13, <1>15, <2>2
    <2> QED
      BY <1>17, <2>1, <2>2 DEF SaveFails
  \* The form keeps its button when it is given another task.
  <1>18. ASSUME NEW rs, FormFollows(rs) PROVE BusyInv'
    <2>1. CASE form' = Closed /\ Orphaned(TRUE)
      BY <1>4, <2>1
    <2>2. ASSUME form.open, Orphaned(FALSE), NEW i, form' = initFields(i, rs[i], form.busy)
          PROVE  BusyInv'
      <3>1. saves' = saves /\ results' = results
        BY <2>2 DEF Orphaned
      <3>2. form'.open = TRUE /\ form'.busy = form.busy
        BY <2>2 DEF initFields
      <3>3. BusyForm' <=> BusyForm
        BY <2>2, <3>2, Zenon DEF BusyForm
      <3> QED
        BY <1>3, <3>1, <3>3
    <2> QED
      BY <1>18, <2>1, <2>2, Follows
  <1>19. CASE EventArrives
    <2>1. ASSUME Orphaned(FALSE), form' = form PROVE BusyInv'
      BY <1>3, <2>1 DEF Orphaned, BusyForm
    <2>2. ASSUME Orphaned(FALSE), form.open, form' = [form EXCEPT !.shared = FALSE] PROVE BusyInv'
      <3>1. form'.open = form.open /\ form'.busy = form.busy
        BY <1>2, <2>2 DEF Form
      <3>2. saves' = saves /\ results' = results
        BY <2>2 DEF Orphaned
      <3> QED
        BY <1>3, <1>5, <2>2, <3>1, <3>2
    <2> QED
      BY <1>18, <1>19, <2>1, <2>2, Arrival
  <1>20. CASE Refresh \/ TakeSnapshot \/ LoadFails \/ UNCHANGED vars
    BY <1>3, <1>20 DEF Refresh, TakeSnapshot, LoadFails, vars, BusyForm
  <1>21. CASE \E i \in Ids : WorkerCompletes(i) \/ OthersReset(i) \/ OthersDelete(i)
    BY <1>3, <1>21 DEF WorkerCompletes, OthersReset, OthersDelete, BusyForm
  <1>22. CASE \E rs \in answers : LoadEnds(rs)
    BY <1>18, <1>22 DEF LoadEnds
  <1> QED
    BY <1>6, <1>7, <1>8, <1>9, <1>10, <1>11, <1>16, <1>17, <1>19, <1>20, <1>21, <1>22
       DEF Next, User

LEMMA AtMostOne ==
    ASSUME NEW S, \A x, y \in S : x = y
    PROVE  (S = {} /\ Cardinality(S) = 0) \/ Cardinality(S) = 1
  <1>1. CASE S = {}
    BY <1>1, FS_EmptySet
  <1>2. CASE S # {}
    <2>1. PICK x : S = {x}
      BY <1>2
    <2> QED
      BY <2>1, FS_Singleton
  <1> QED
    BY <1>1, <1>2

\* The button waits exactly while one save of the form is in flight, so that a form is
\* never saved twice at a time and never left waiting.
THEOREM TheButtonWaits == Spec => []BusyWhileSaving
  <1>1. Init => BusyInv
    <2> SUFFICES ASSUME Init PROVE BusyInv
      OBVIOUS
    <2>1. ~form.open /\ saves = {} /\ results = {}
      BY InitTyped, OpenForms DEF Init, TypeInv
    <2>2. ~BusyForm
      BY <2>1 DEF BusyForm
    <2> QED
      BY <2>1, <2>2 DEF BusyInv, Sent, Handled
  <1>2. BusyInv => BusyWhileSaving
    <2> SUFFICES ASSUME BusyInv PROVE BusyWhileSaving
      OBVIOUS
    <2> DEFINE S == {s \in saves : s.mine}
               R == {r \in results : r.mine}
    <2>1. BusyForm <=> \E c \in saves \cup results : c.mine
      BY DEF BusyInv, Sent, Handled
    <2>2. (S = {} /\ Cardinality(S) = 0) \/ Cardinality(S) = 1
      BY AtMostOne DEF BusyInv
    <2>3. (R = {} /\ Cardinality(R) = 0) \/ Cardinality(R) = 1
      BY AtMostOne DEF BusyInv
    <2>4. S = {} \/ R = {}
      BY DEF BusyInv, Sent, Handled
    <2>5. Cardinality({}) = 0
      BY FS_EmptySet
    <2>6. Cardinality(S) + Cardinality(R) <= 1
      BY <2>2, <2>3, <2>4, <2>5
    <2> QED
      BY <2>1, <2>6 DEF BusyWhileSaving, BusyForm
  <1>3. TypeInv /\ BusyInv /\ [Next]_vars => BusyInv'
    BY NextBusy
  <1> QED
    BY <1>1, <1>2, <1>3, FormInductive, PTL DEF Spec
=============================================================================
