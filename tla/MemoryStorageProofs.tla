------------------------- MODULE MemoryStorageProofs -------------------------
(***************************************************************************)
(* MemoryTaskStorage implements TaskStore: slices that are shifted and     *)
(* grown in place behave as sets, for any tasks, fields and loops.  Then   *)
(* what the loops may rely on while the slices move under them.            *)
(***************************************************************************)
EXTENDS MemoryTaskStorage, FiniteSetTheorems, TLAPS

\* A slice that is well formed: its elements are within its array, are tasks
\* and are all different.
GoodSlice(s) ==
    /\ s \in SliceType
    /\ s.len <= Len(s.array)
    /\ \A i \in 1 .. s.len : s.array[i] \in Ids
    /\ \A i, j \in 1 .. s.len : s.array[i] = s.array[j] => i = j

Members(s) == {s.array[i] : i \in 1 .. s.len}

\* The slices are good and list stored tasks of their entries.
SlicesOK ==
    /\ tasks \in SUBSET Ids
    /\ taskGroups \in SUBSET Groups
    /\ DOMAIN slices = Entries
    /\ \A e \in Entries :
          /\ GoodSlice(slices[e])
          /\ \A id \in Members(slices[e]) : id \in tasks /\ e \in EntriesOf(id)

-----------------------------------------------------------------------------
(* Lemmas about slices.                                                    *)

LEMMA NoSliceIsGood == GoodSlice(NoSlice) /\ Members(NoSlice) = {}
  BY DEF GoodSlice, NoSlice, SliceType, Arrays, Members

\* append adds the task, in place or in a new array.
LEMMA AppendAdds ==
    ASSUME NEW s, GoodSlice(s), NEW id \in Ids, id \notin Members(s)
    PROVE  GoodSlice(Appended(s, id)) /\ Members(Appended(s, id)) = Members(s) \cup {id}
  <1> DEFINE t == Appended(s, id)
  <1>1. s.len \in Nat /\ s.array \in Arrays /\ Len(s.array) \in Nat /\ s.len <= Len(s.array)
    BY DEF GoodSlice, SliceType, Arrays
  <1>2. t.len = s.len + 1
    BY DEF Appended
  <1>3. /\ t.array \in Arrays
        /\ t.len <= Len(t.array)
        /\ \A i \in 1 .. s.len : t.array[i] = s.array[i]
        /\ t.array[t.len] = id
    <2>1. CASE HasRoom(s)
      <3>1. t.array = [s.array EXCEPT ![s.len + 1] = id]
        BY <2>1 DEF Appended
      <3>2. s.len + 1 \in 1 .. Len(s.array)
        BY <1>1, <2>1 DEF HasRoom
      <3> QED
        BY <1>1, <1>2, <3>1, <3>2 DEF Arrays
    <2>2. CASE ~HasRoom(s)
      <3> DEFINE n == IF s.len = 0 THEN 1 ELSE 2 * s.len
      <3>1. /\ Elements(s) \in Arrays
            /\ Len(Elements(s)) = s.len
            /\ \A i \in 1 .. s.len : Elements(s)[i] = s.array[i]
        BY <1>1 DEF Elements, Arrays
      <3>2. Elements(s) = <<>> <=> s.len = 0
        BY <3>1 DEF Arrays
      <3>3. t.array = [i \in 1 .. n |->
                          IF i <= s.len THEN Elements(s)[i]
                          ELSE IF i = s.len + 1 THEN id ELSE NoTask]
        BY <2>2, <3>1, <3>2 DEF Appended, Grown
      <3>4. n \in Nat /\ s.len + 1 <= n
        BY <1>1
      <3>5. \A i \in 1 .. n : t.array[i] \in Ids \cup {NoTask}
        <4> TAKE i \in 1 .. n
        <4>1. CASE i <= s.len
          BY <1>1, <3>1, <3>3, <3>4, <4>1 DEF GoodSlice, Arrays
        <4>2. CASE ~(i <= s.len)
          BY <1>1, <3>3, <3>4, <4>2
        <4> QED
          BY <4>1, <4>2
      <3>6. t.array \in [1 .. n -> Ids \cup {NoTask}]
        BY <3>3, <3>5
      <3>7. t.array \in Arrays /\ Len(t.array) = n
        BY <3>4, <3>6 DEF Arrays
      <3> QED
        BY <1>1, <1>2, <3>1, <3>3, <3>4, <3>7
    <2> QED
      BY <2>1, <2>2
  <1>5. t \in SliceType
    BY <1>1, <1>2, <1>3 DEF Appended, SliceType
  <1> HIDE DEF t
  <1>0. \A i \in 1 .. t.len : i \in 1 .. s.len \/ i = t.len
    BY <1>1, <1>2
  <1>4. Members(t) = Members(s) \cup {id}
    <2>1. \A i \in 1 .. t.len : t.array[i] \in Members(s) \cup {id}
      BY <1>0, <1>3 DEF Members
    <2>2. \A i \in 1 .. s.len : i \in 1 .. t.len /\ t.array[i] = s.array[i]
      BY <1>1, <1>2, <1>3
    <2>3. t.len \in 1 .. t.len /\ t.array[t.len] = id
      BY <1>1, <1>2, <1>3
    <2> QED
      BY <2>1, <2>2, <2>3 DEF Members
  <1>6. ASSUME NEW i \in 1 .. t.len, NEW j \in 1 .. t.len, t.array[i] = t.array[j]
        PROVE  i = j
    <2>1. CASE i \in 1 .. s.len /\ j \in 1 .. s.len
      <3> s.array[i] = s.array[j]
        BY <1>3, <1>6, <2>1
      <3> QED
        BY <2>1 DEF GoodSlice
    <2>2. CASE i \in 1 .. s.len /\ j = t.len
      <3> s.array[i] = id
        BY <1>3, <1>6, <2>2
      <3> QED
        BY <2>2 DEF Members
    <2>3. CASE i = t.len /\ j \in 1 .. s.len
      <3> s.array[j] = id
        BY <1>3, <1>6, <2>3
      <3> QED
        BY <2>3 DEF Members
    <2> QED
      BY <1>0, <2>1, <2>2, <2>3
  <1>7. \A i \in 1 .. t.len : t.array[i] \in Ids
    <2>1. \A i \in 1 .. s.len : t.array[i] \in Ids
      BY <1>3 DEF GoodSlice
    <2> QED
      BY <1>0, <1>3, <2>1
  <1> QED
    BY <1>3, <1>4, <1>5, <1>6, <1>7 DEF GoodSlice, t

\* The shift in place removes the task and keeps the others.
LEMMA ShiftRemoves ==
    ASSUME NEW s, GoodSlice(s), NEW id \in Members(s)
    PROVE  GoodSlice(Removed(s, id)) /\ Members(Removed(s, id)) = Members(s) \ {id}
  <1> DEFINE t == Removed(s, id)
             pos == Position(s, id)
  <1>1. s.len \in Nat /\ s.array \in Arrays /\ Len(s.array) \in Nat /\ s.len <= Len(s.array)
    BY DEF GoodSlice, SliceType, Arrays
  <1>2. pos \in 1 .. s.len /\ s.array[pos] = id
    <2>1. \A i \in 1 .. s.len : Elements(s)[i] = s.array[i]
      BY <1>1 DEF Elements, Arrays
    <2>2. \E i \in 1 .. s.len : Elements(s)[i] = id
      BY <2>1 DEF Members
    <2> QED
      BY <2>1, <2>2 DEF Position
  <1>3. t = [array |-> Shifted(s.array, pos, s.len), len |-> s.len - 1]
    BY DEF Removed
  <1> HIDE DEF pos
  <1>4. t.len = s.len - 1 /\ t.len \in Nat
    BY <1>1, <1>2, <1>3
  <1>5. t.array = [i \in 1 .. Len(s.array) |->
                      IF pos <= i /\ i < s.len THEN s.array[i + 1] ELSE s.array[i]]
    BY <1>1, <1>3 DEF Shifted, Arrays
  <1> HIDE DEF t
  <1>6. t.array \in Arrays /\ Len(t.array) = Len(s.array)
    <2>1. \A i \in 1 .. Len(s.array) : s.array[i] \in Ids \cup {NoTask}
      BY <1>1 DEF Arrays
    <2>2. t.array \in [1 .. Len(s.array) -> Ids \cup {NoTask}]
      BY <1>1, <1>2, <1>5, <2>1
    <2> QED
      BY <1>1, <2>2 DEF Arrays
  <1>7. /\ \A i \in 1 .. t.len : i < pos => t.array[i] = s.array[i]
        /\ \A i \in 1 .. t.len : pos <= i => t.array[i] = s.array[i + 1]
    BY <1>1, <1>2, <1>4, <1>5
  <1> DEFINE From(i) == IF i < pos THEN i ELSE i + 1
  <1>14. \A i \in 1 .. t.len : /\ From(i) \in 1 .. s.len
                              /\ From(i) # pos
                              /\ t.array[i] = s.array[From(i)]
    BY <1>1, <1>2, <1>4, <1>7
  <1>15. \A i, j \in 1 .. t.len : From(i) = From(j) => i = j
    BY <1>1, <1>2, <1>4
  <1> HIDE DEF From
  <1>16. \A i, j \in 1 .. s.len : s.array[i] = s.array[j] => i = j
    BY DEF GoodSlice
  <1>8. \A i \in 1 .. t.len : t.array[i] \in Members(s) \ {id}
    BY <1>2, <1>14, <1>16 DEF Members
  <1>9. \A i, j \in 1 .. t.len : t.array[i] = t.array[j] => i = j
    BY <1>14, <1>15, <1>16
  <1>10. ASSUME NEW x \in Members(s), x # id
         PROVE  x \in Members(t)
    <2>1. PICK i \in 1 .. s.len : s.array[i] = x
      BY <1>10 DEF Members
    <2>2. CASE i < pos
      <3>1. i \in 1 .. t.len /\ t.array[i] = x
        BY <1>1, <1>2, <1>4, <1>7, <2>1, <2>2
      <3> QED
        BY <3>1 DEF Members
    <2>3. CASE pos < i
      <3>1. i - 1 \in 1 .. t.len /\ pos <= i - 1 /\ t.array[i - 1] = s.array[(i - 1) + 1]
        BY <1>1, <1>2, <1>4, <1>7, <2>3
      <3>2. (i - 1) + 1 = i
        BY <1>1
      <3>3. t.array[i - 1] = x
        BY <2>1, <3>1, <3>2
      <3> QED
        BY <3>1, <3>3 DEF Members
    <2> QED
      BY <1>2, <1>10, <2>1, <2>2, <2>3
  <1>11. Members(t) = Members(s) \ {id}
    BY <1>8, <1>10 DEF Members
  <1>12. t \in SliceType
    BY <1>3, <1>4, <1>6 DEF SliceType
  <1>13. \A i \in 1 .. t.len : t.array[i] \in Ids
    BY <1>1, <1>8 DEF GoodSlice, Members
  <1> QED
    BY <1>1, <1>4, <1>6, <1>9, <1>11, <1>12, <1>13 DEF GoodSlice, t
-----------------------------------------------------------------------------
(* The refinement.                                                         *)

\* The entries of the abstract storage are those of the slices.
LEMMA SameEntries ==
    /\ Store!Entries = Entries
    /\ \A id : Store!EntriesOf(id) = EntriesOf(id)
    /\ \A g : Store!GroupEntry(g) = GroupEntry(g)
  BY DEF Store!Entries, Entries, Store!EntriesOf, EntriesOf, Store!GroupEntry, GroupEntry,
         Store!WorkgroupEntry, WorkgroupEntry, Store!KeyEntry, KeyEntry

LEMMA EntriesOfTask ==
    ASSUME NEW id \in Ids
    PROVE  EntriesOf(id) \subseteq Entries
  BY FieldsAssumption DEF EntriesOf, Entries

LEMMA ListedAreMembers == \A e \in Entries : Listed(e) = Members(slices[e])
  BY DEF Listed, Members

LEMMA InitSlices == Init => SlicesOK /\ Store!Init
  <1> SUFFICES ASSUME Init PROVE SlicesOK /\ Store!Init
    OBVIOUS
  <1>1. \A e \in Entries : slices[e] = NoSlice
    BY DEF Init
  <1>2. SlicesOK
    BY <1>1, NoSliceIsGood DEF Init, SlicesOK
  <1>3. \A e \in Entries : Listed(e) = {}
    BY <1>1, NoSliceIsGood, ListedAreMembers
  <1> QED
    BY <1>2, <1>3, SameEntries DEF Init, Store!Init

\* Saving a task appends it to three slices, which adds it to three sets.
LEMMA SaveRefines ==
    ASSUME SlicesOK, NEW id \in Ids, SaveTask(id)
    PROVE  SlicesOK' /\ Store!SaveTask(id)
  <1>1. ASSUME NEW e \in Entries, e \in EntriesOf(id)
        PROVE  /\ slices'[e] = Appended(slices[e], id)
               /\ GoodSlice(slices'[e])
               /\ Members(slices'[e]) = Members(slices[e]) \cup {id}
    <2>1. GoodSlice(slices[e]) /\ id \notin Members(slices[e])
      BY <1>1 DEF SlicesOK, SaveTask
    <2>2. slices'[e] = Appended(slices[e], id)
      BY <1>1 DEF SaveTask
    <2> QED
      BY <2>1, <2>2, AppendAdds
  <1>2. ASSUME NEW e \in Entries, e \notin EntriesOf(id)
        PROVE  slices'[e] = slices[e]
    BY <1>2 DEF SaveTask
  <1>3. SlicesOK'
    <2>1. tasks' \in SUBSET Ids /\ taskGroups' \in SUBSET Groups /\ DOMAIN slices' = Entries
      BY DEF SaveTask, SlicesOK
    <2>2. ASSUME NEW e \in Entries
          PROVE  /\ GoodSlice(slices'[e])
                 /\ \A i \in Members(slices'[e]) : i \in tasks' /\ e \in EntriesOf(i)
      BY <1>1, <1>2 DEF SaveTask, SlicesOK
    <2> QED
      BY <2>1, <2>2 DEF SlicesOK, Members, GoodSlice
  <1>4. \A e \in Entries : Listed(e)' = IF e \in EntriesOf(id) THEN Listed(e) \cup {id}
                                        ELSE Listed(e)
    BY <1>1, <1>2 DEF Listed, Members
  <1> QED
    BY <1>3, <1>4, SameEntries DEF SaveTask, Store!SaveTask

\* Deleting a task, by a caller or by a loop.
LEMMA DeleteRefines ==
    ASSUME SlicesOK, NEW id \in Ids, id \in tasks,
           tasks' = tasks \ {id}, slices' = SlicesWithout(id), taskGroups' = taskGroups
    PROVE  SlicesOK' /\ Store!DeleteTask(id)
  <1>1. ASSUME NEW e \in Entries
        PROVE  GoodSlice(slices'[e]) /\ Members(slices'[e]) = Members(slices[e]) \ {id}
    <2>1. GoodSlice(slices[e]) /\ slices[e].len \in Nat
      BY DEF SlicesOK, GoodSlice, SliceType
    <2>2. CASE e \in DroppedWith(id)
      <3>1. slices'[e] = NoSlice /\ slices[e].len = 0
        BY <2>2 DEF SlicesWithout, DroppedWith
      <3>2. Members(slices[e]) = {}
        BY <3>1 DEF Members
      <3> QED
        BY <3>1, <3>2, NoSliceIsGood
    <2>3. CASE e \notin DroppedWith(id) /\ e \in EntriesOf(id) /\ id \in Members(slices[e])
      <3>1. slices'[e] = Removed(slices[e], id)
        BY <2>3, ListedAreMembers DEF SlicesWithout
      <3> QED
        BY <2>1, <2>3, <3>1, ShiftRemoves
    <2>4. CASE e \notin DroppedWith(id) /\ ~(e \in EntriesOf(id) /\ id \in Members(slices[e]))
      <3>1. slices'[e] = slices[e]
        BY <2>4, ListedAreMembers DEF SlicesWithout
      <3>2. id \notin Members(slices[e])
        BY <2>4 DEF SlicesOK
      <3> QED
        BY <2>1, <3>1, <3>2
    <2> QED
      BY <2>2, <2>3, <2>4
  <1>2. SlicesOK'
    <2>1. tasks' \in SUBSET Ids /\ taskGroups' \in SUBSET Groups /\ DOMAIN slices' = Entries
      BY DEF SlicesWithout, SlicesOK
    <2>2. ASSUME NEW e \in Entries
          PROVE  \A i \in Members(slices'[e]) : i \in tasks' /\ e \in EntriesOf(i)
      BY <1>1 DEF SlicesOK
    <2> QED
      BY <1>1, <2>1, <2>2 DEF SlicesOK, Members, GoodSlice
  <1>3. \A e \in Entries : Listed(e)' = Listed(e) \ {id}
    BY <1>1 DEF Listed, Members
  <1> QED
    BY <1>2, <1>3, SameEntries DEF Store!DeleteTask

\* A step that leaves tasks, groups and slices alone is a stutter.
LEMMA StutterRefines ==
    ASSUME SlicesOK, UNCHANGED <<tasks, taskGroups, slices>>
    PROVE  SlicesOK' /\ UNCHANGED Store!vars
  <1>1. SlicesOK'
    BY DEF SlicesOK, Members, GoodSlice
  <1>2. \A e \in Entries : Listed(e)' = Listed(e)
    BY DEF Listed
  <1> QED
    BY <1>1, <1>2 DEF Store!vars

LEMMA StepRefines ==
    ASSUME SlicesOK, [Next]_vars
    PROVE  SlicesOK' /\ [Store!Next]_(Store!vars)
  <1>1. ASSUME NEW id \in Ids, SaveTask(id)
        PROVE  SlicesOK' /\ Store!Next
    BY <1>1, SaveRefines DEF Store!Next
  <1>2. ASSUME NEW id \in Ids, DeleteTask(id)
        PROVE  SlicesOK' /\ Store!Next
    BY <1>2, DeleteRefines DEF DeleteTask, Store!Next
  <1>3. ASSUME NEW g \in Groups, SaveTaskGroup(g)
        PROVE  SlicesOK' /\ Store!Next
    <2>1. SlicesOK'
      BY <1>3 DEF SaveTaskGroup, SlicesOK, Members, GoodSlice
    <2>2. \A e \in Entries : Listed(e)' = Listed(e)
      BY <1>3 DEF SaveTaskGroup, Listed
    <2>3. Store!SaveTaskGroup(g)
      BY <1>3, <2>2 DEF SaveTaskGroup, Store!SaveTaskGroup
    <2> QED
      BY <2>1, <2>3 DEF Store!Next
  <1>4. ASSUME NEW p \in Procs, NEW loop, Begin(p, loop)
        PROVE  SlicesOK' /\ UNCHANGED Store!vars
    BY <1>4, StutterRefines DEF Begin
  <1>5. ASSUME NEW p \in Procs, DeleteCurrent(p)
        PROVE  SlicesOK' /\ [Store!Next]_(Store!vars)
    <2>1. CASE Current(p) \in tasks
      <3>1. Current(p) \in Ids
        BY <2>1 DEF SlicesOK
      <3>2. SlicesOK' /\ Store!DeleteTask(Current(p))
        BY <1>5, <2>1, <3>1, DeleteRefines DEF DeleteCurrent
      <3> QED
        BY <3>1, <3>2 DEF Store!Next
    <2>2. CASE Current(p) \notin tasks
      BY <1>5, <2>2, StutterRefines DEF DeleteCurrent
    <2> QED
      BY <2>1, <2>2
  <1>6. ASSUME NEW p \in Procs, WriteCurrent(p)
        PROVE  SlicesOK' /\ UNCHANGED Store!vars
    BY <1>6, StutterRefines DEF WriteCurrent
  <1>7. ASSUME NEW p \in Procs, NEW g \in Groups, EndDeleteGroup(p, g)
        PROVE  SlicesOK' /\ Store!Next
    <2>1. \A e \in Entries : slices'[e] = IF e = GroupEntry(g) THEN NoSlice ELSE slices[e]
      BY <1>7 DEF EndDeleteGroup, SlicesOK
    <2>2. \A e \in Entries : Members(slices'[e]) = IF e = GroupEntry(g) THEN {}
                                                   ELSE Members(slices[e])
      BY <2>1, NoSliceIsGood
    <2>3. SlicesOK'
      <3>1. tasks' \in SUBSET Ids /\ taskGroups' \in SUBSET Groups /\ DOMAIN slices' = Entries
        BY <1>7 DEF EndDeleteGroup, SlicesOK
      <3>2. ASSUME NEW e \in Entries
            PROVE  /\ GoodSlice(slices'[e])
                   /\ \A i \in Members(slices'[e]) : i \in tasks' /\ e \in EntriesOf(i)
        BY <1>7, <2>1, <2>2, NoSliceIsGood DEF EndDeleteGroup, SlicesOK
      <3> QED
        BY <3>1, <3>2 DEF SlicesOK, Members, GoodSlice
    <2>4. \A e \in Entries : Listed(e)' = IF e = GroupEntry(g) THEN {} ELSE Listed(e)
      BY <2>2 DEF Listed, Members
    <2>5. Store!ForgetTaskGroup(g)
      BY <1>7, <2>4, SameEntries DEF EndDeleteGroup, Store!ForgetTaskGroup
    <2> QED
      BY <2>3, <2>5 DEF Store!Next
  <1>8. ASSUME NEW p \in Procs, EndLoop(p)
        PROVE  SlicesOK' /\ UNCHANGED Store!vars
    BY <1>8, StutterRefines DEF EndLoop
  <1>9. CASE UNCHANGED vars
    BY <1>9, StutterRefines DEF vars
  <1> QED
    BY <1>1, <1>2, <1>3, <1>4, <1>5, <1>6, <1>7, <1>8, <1>9
       DEF Next, BeginDeleteGroup, BeginResetGroup, BeginMerge

\* MemoryTaskStorage implements TaskStore under the mapping of each index entry
\* to the set of the elements of its slice.
THEOREM Refinement == Spec => ImplementsTaskStore
  <1>1. Init => SlicesOK /\ Store!Init
    BY InitSlices
  <1>2. SlicesOK /\ [Next]_vars => SlicesOK' /\ [Store!Next]_(Store!vars)
    BY StepRefines
  <1> QED
    BY <1>1, <1>2, PTL DEF Spec, ImplementsTaskStore, Store!Spec
-----------------------------------------------------------------------------
(* With it the storage inherits what the abstract store promises.          *)

\* Lookups by workgroup and key find every task.
Findable ==
    \A id \in tasks :
        id \in Listed(WorkgroupEntry(Workgroup[id])) /\ id \in Listed(KeyEntry(Key[id]))

\* The two entries where a task must be found; that of a group is neither.
LEMMA EntriesToFind ==
    ASSUME NEW id \in Ids
    PROVE  /\ WorkgroupEntry(Workgroup[id]) \in EntriesOf(id) \cap Entries
           /\ KeyEntry(Key[id]) \in EntriesOf(id) \cap Entries
           /\ \A g : GroupEntry(g) \notin {WorkgroupEntry(Workgroup[id]), KeyEntry(Key[id])}
  <1>1. \A g : GroupEntry(g) \notin {WorkgroupEntry(Workgroup[id]), KeyEntry(Key[id])}
    BY DEF GroupEntry, WorkgroupEntry, KeyEntry
  <1> QED
    BY <1>1, EntriesOfTask DEF EntriesOf

LEMMA StoreStepKeepsFindable ==
    ASSUME SlicesOK, Findable, [Store!Next]_(Store!vars)
    PROVE  Findable'
  <1> DEFINE index == [e \in Entries |-> Listed(e)]
  <1>0. tasks \subseteq Ids
    BY DEF SlicesOK
  <1>1. ASSUME NEW id \in Ids, Store!SaveTask(id)
        PROVE  Findable'
    <2>1. /\ tasks' = tasks \cup {id}
          /\ index' = [e \in Entries |-> IF e \in EntriesOf(id) THEN index[e] \cup {id} ELSE index[e]]
      BY <1>1, SameEntries DEF Store!SaveTask
    <2>2. \A e \in Entries :
             /\ Listed(e) \subseteq Listed(e)'
             /\ e \in EntriesOf(id) => id \in Listed(e)'
      <3>1. \A e \in Entries : index'[e] = Listed(e)'
        OBVIOUS
      <3> QED
        BY <2>1, <3>1
    <2> HIDE DEF index
    <2> QED
      BY <1>0, <2>1, <2>2, EntriesToFind DEF Findable
  <1>2. ASSUME NEW id \in Ids, Store!DeleteTask(id)
        PROVE  Findable'
    <2>1. /\ tasks' = tasks \ {id}
          /\ index' = [e \in Entries |-> index[e] \ {id}]
      BY <1>2, SameEntries DEF Store!DeleteTask
    <2>2. \A e \in Entries : Listed(e) \ {id} \subseteq Listed(e)'
      <3>1. \A e \in Entries : index'[e] = Listed(e)'
        OBVIOUS
      <3> QED
        BY <2>1, <3>1
    <2> HIDE DEF index
    <2> QED
      BY <1>0, <2>1, <2>2, EntriesToFind DEF Findable
  <1>3. ASSUME NEW g \in Groups, Store!ForgetTaskGroup(g)
        PROVE  Findable'
    <2>1. tasks' = tasks /\ index' = [index EXCEPT ![GroupEntry(g)] = {}]
      BY <1>3, SameEntries DEF Store!ForgetTaskGroup
    <2>2. \A e \in Entries : e # GroupEntry(g) => Listed(e)' = Listed(e)
      <3>1. \A e \in Entries : index'[e] = Listed(e)'
        OBVIOUS
      <3> QED
        BY <2>1, <3>1
    <2> HIDE DEF index
    <2> QED
      BY <1>0, <2>1, <2>2, EntriesToFind DEF Findable
  <1>4. ASSUME tasks' = tasks, index' = index
        PROVE  Findable'
    <2>1. \A e \in Entries : Listed(e)' = Listed(e)
      <3>1. \A e \in Entries : index'[e] = Listed(e)' /\ index[e] = Listed(e)
        OBVIOUS
      <3> QED
        BY <1>4, <3>1
    <2> HIDE DEF index
    <2> QED
      BY <1>0, <1>4, <2>1, EntriesToFind DEF Findable
  <1> QED
    BY <1>1, <1>2, <1>3, <1>4 DEF Store!Next, Store!SaveTaskGroup, Store!vars

\* Whatever is saved and deleted, and however the slices shift and grow, a
\* lookup finds stored tasks with the field it asks for, and by workgroup and
\* key it finds all of them.
THEOREM LookupsAlwaysAgree == Spec => []Store!LookupsAgree
  <1>1. Init => SlicesOK /\ Findable
    BY InitSlices DEF Init, Findable
  <1>2. SlicesOK /\ Findable /\ [Next]_vars => (SlicesOK /\ Findable)'
    BY StepRefines, StoreStepKeepsFindable
  <1>3. SlicesOK /\ Findable => Store!LookupsAgree
    <2> SUFFICES ASSUME SlicesOK, Findable PROVE Store!LookupsAgree
      OBVIOUS
    <2>1. \A id \in tasks : /\ WorkgroupEntry(Workgroup[id]) \in Entries
                            /\ KeyEntry(Key[id]) \in Entries
      BY EntriesToFind DEF SlicesOK
    <2>2. \A e \in Entries : \A id \in Listed(e) : id \in tasks /\ e \in EntriesOf(id)
      BY ListedAreMembers DEF SlicesOK
    <2> QED
      BY <2>1, <2>2, SameEntries
         DEF Findable, Store!LookupsAgree, Store!WorkgroupEntry, WorkgroupEntry,
             Store!KeyEntry, KeyEntry
  <1> QED
    BY <1>1, <1>2, <1>3, PTL DEF Spec
-----------------------------------------------------------------------------
(* The loops.                                                              *)

\* What loop l ranges over when its entry has slice s.
Under(l, s) == IF l.shared THEN s.array ELSE l.copy

\* The loop finds tasks of its entry as far as it goes, also where the slice,
\* which may have become shorter, has left what it held.
GoodLoop(l, s) ==
    /\ l.entry \in Entries
    /\ l.len <= Len(Under(l, s))
    /\ \A i \in 1 .. l.len : Under(l, s)[i] \in Ids /\ l.entry \in EntriesOf(Under(l, s)[i])

\* Where the loop finds each task of the slice once.
InReach(l, s) == {i \in 1 .. l.len : l.shared => i <= s.len}

\* What the loop still owes and will not come to.
Missed(l, s) == l.owed \ {Under(l, s)[i] : i \in {j \in InReach(l, s) : l.next <= j}}

LoopInv(l, s) ==
    /\ l \in LoopType
    /\ l.op # "idle" => GoodLoop(l, s)
    /\ l.op = "resetGroup" => ~l.shared /\ Missed(l, s) = {}
    /\ l.op = "merge" => IsFiniteSet(Missed(l, s)) /\ Cardinality(Missed(l, s)) <= l.shifts

LoopsInv ==
    /\ loops \in [Procs -> LoopType]
    /\ \A p \in Procs : LoopInv(loops[p], slices[loops[p].entry])

\* Loop m over slice t goes on where loop l over slice s was: what it misses
\* is what it missed, and one more task for each shift that it counts.
GoesOn(m, t, l, s) ==
    /\ m \in LoopType
    /\ m.op = l.op /\ m.entry = l.entry
    /\ m.shared => l.shared
    /\ GoodLoop(m, t)
    /\ \/ Missed(m, t) \subseteq Missed(l, s) /\ m.shifts >= l.shifts
       \/ /\ l.op \in {"merge", "deleteGroup"}
          /\ \E x : Missed(m, t) \subseteq Missed(l, s) \cup {x}
          /\ l.op = "merge" => m.shifts = l.shifts + 1

LEMMA GoingOnKeepsTheInvariant ==
    ASSUME NEW l, NEW s, NEW m, NEW t, LoopInv(l, s), l.op # "idle", GoesOn(m, t, l, s)
    PROVE  LoopInv(m, t)
  <1>1. m \in LoopType /\ m.op = l.op /\ GoodLoop(m, t) /\ (m.shared => l.shared)
    BY DEF GoesOn
  <1>2. ASSUME m.op = "resetGroup"
        PROVE  ~m.shared /\ Missed(m, t) = {}
    BY <1>2 DEF GoesOn, LoopInv
  <1>3. ASSUME m.op = "merge"
        PROVE  IsFiniteSet(Missed(m, t)) /\ Cardinality(Missed(m, t)) <= m.shifts
    <2>1. /\ IsFiniteSet(Missed(l, s)) /\ Cardinality(Missed(l, s)) <= l.shifts
          /\ l.shifts \in Nat /\ m.shifts \in Nat
          /\ Cardinality(Missed(l, s)) \in Nat
      BY <1>1, <1>3, FS_CardinalityType DEF LoopInv, LoopType
    <2>2. CASE Missed(m, t) \subseteq Missed(l, s) /\ m.shifts >= l.shifts
      <3>1. /\ IsFiniteSet(Missed(m, t))
            /\ Cardinality(Missed(m, t)) <= Cardinality(Missed(l, s))
        BY <2>1, <2>2, FS_Subset
      <3>2. Cardinality(Missed(m, t)) \in Nat
        BY <3>1, FS_CardinalityType
      <3> QED
        BY <2>1, <2>2, <3>1, <3>2
    <2>3. ASSUME NEW x, Missed(m, t) \subseteq Missed(l, s) \cup {x}, m.shifts = l.shifts + 1
          PROVE  IsFiniteSet(Missed(m, t)) /\ Cardinality(Missed(m, t)) <= m.shifts
      <3>1. /\ IsFiniteSet(Missed(l, s) \cup {x})
            /\ Cardinality(Missed(l, s) \cup {x}) =
                  IF x \in Missed(l, s) THEN Cardinality(Missed(l, s))
                  ELSE Cardinality(Missed(l, s)) + 1
        BY <2>1, FS_AddElement
      <3>2. /\ IsFiniteSet(Missed(m, t))
            /\ Cardinality(Missed(m, t)) <= Cardinality(Missed(l, s) \cup {x})
        BY <2>3, <3>1, FS_Subset
      <3>3. Cardinality(Missed(m, t)) \in Nat /\ Cardinality(Missed(l, s) \cup {x}) \in Nat
        BY <3>1, <3>2, FS_CardinalityType
      <3> QED
        BY <2>1, <2>3, <3>1, <3>2, <3>3
    <2> QED
      BY <1>1, <1>3, <2>2, <2>3 DEF GoesOn
  <1> QED
    BY <1>1, <1>2, <1>3 DEF LoopInv

\* Moving on by one element: what the loop leaves behind it comes to now.
LEMMA AdvanceGoesOn ==
    ASSUME NEW l \in LoopType, NEW s \in SliceType, GoodLoop(l, s), NEW x, x = Under(l, s)[l.next]
    PROVE  GoesOn([l EXCEPT !.next = @ + 1, !.owed = @ \ {x}], s, l, s)
  <1> DEFINE m == [l EXCEPT !.next = @ + 1, !.owed = @ \ {x}]
  <1>1. /\ m \in LoopType
        /\ m.op = l.op /\ m.entry = l.entry /\ m.shared = l.shared /\ m.copy = l.copy
        /\ m.len = l.len /\ m.next = l.next + 1 /\ m.owed = l.owed \ {x} /\ m.shifts = l.shifts
        /\ l.next \in Nat /\ l.len \in Nat /\ l.shifts \in Nat
    <2>1. l.next + 1 \in Nat \ {0} /\ l.owed \ {x} \in SUBSET Ids
      BY DEF LoopType
    <2> QED
      BY <2>1 DEF LoopType
  <1> HIDE DEF m
  <1>2. Under(m, s) = Under(l, s) /\ InReach(m, s) = InReach(l, s)
    BY <1>1 DEF Under, InReach
  <1>3. GoodLoop(m, s)
    BY <1>1, <1>2 DEF GoodLoop
  <1>4. \A i \in InReach(l, s) : l.next <= i => i = l.next \/ m.next <= i
    BY <1>1 DEF InReach
  <1>5. Missed(m, s) \subseteq Missed(l, s)
    BY <1>1, <1>2, <1>4 DEF Missed
  <1> QED
    BY <1>1, <1>3, <1>5 DEF GoesOn, m

\* The entry gives up its array, which nobody writes again.
LEMMA DetachGoesOn ==
    ASSUME NEW l \in LoopType, NEW s \in SliceType, GoodLoop(l, s), l.shared, NEW t,
           NEW m \in LoopType, m.op = l.op, m.entry = l.entry, ~m.shared, m.copy = s.array,
           m.len = l.len, m.next = l.next, m.owed \subseteq l.owed, m.shifts >= l.shifts
    PROVE  GoesOn(m, t, l, s)
  <1>1. Under(m, t) = Under(l, s) /\ InReach(l, s) \subseteq InReach(m, t)
    BY DEF Under, InReach
  <1>2. GoodLoop(m, t)
    BY <1>1 DEF GoodLoop
  <1>3. Missed(m, t) \subseteq Missed(l, s)
    BY <1>1 DEF Missed
  <1> QED
    BY <1>2, <1>3 DEF GoesOn

\* Nothing happened to the array that the loop ranges over.
LEMMA UntouchedGoesOn ==
    ASSUME NEW l \in LoopType, NEW s, GoodLoop(l, s), NEW t, l.shared => s = t,
           NEW m \in LoopType, m.op = l.op, m.entry = l.entry, m.shared = l.shared,
           m.copy = l.copy, m.len = l.len, m.next = l.next, m.owed \subseteq l.owed,
           m.shifts >= l.shifts
    PROVE  GoesOn(m, t, l, s)
  <1>1. Under(m, t) = Under(l, s) /\ InReach(l, s) = InReach(m, t)
    BY DEF Under, InReach
  <1>2. GoodLoop(m, t)
    BY <1>1 DEF GoodLoop
  <1>3. Missed(m, t) \subseteq Missed(l, s)
    BY <1>1 DEF Missed
  <1> QED
    BY <1>2, <1>3 DEF GoesOn

\* append writes in place, where no element of the slice was.
LEMMA AppendGoesOn ==
    ASSUME NEW l \in LoopType, NEW s, GoodSlice(s), GoodLoop(l, s), HasRoom(s),
           NEW id \in Ids, l.entry \in EntriesOf(id)
    PROVE  GoesOn(l, Appended(s, id), l, s)
  <1> DEFINE t == Appended(s, id)
  <1>1. s.len \in Nat /\ s.array \in Arrays /\ s.len + 1 \in 1 .. Len(s.array) /\ l.len \in Nat
    BY DEF GoodSlice, SliceType, Arrays, HasRoom, LoopType
  <1>2. t.array = [s.array EXCEPT ![s.len + 1] = id] /\ t.len = s.len + 1
    BY DEF Appended
  <1> HIDE DEF t
  <1>3. Len(t.array) = Len(s.array)
    BY <1>1, <1>2 DEF Arrays
  <1>4. GoodLoop(l, t)
    <2>1. CASE l.shared
      <3>1. \A i \in 1 .. l.len : i \in 1 .. Len(s.array)
        BY <1>1, <2>1 DEF GoodLoop, Under, Arrays
      <3>2. \A i \in 1 .. l.len : t.array[i] = s.array[i] \/ t.array[i] = id
        BY <1>1, <1>2, <3>1 DEF Arrays
      <3> QED
        BY <1>3, <2>1, <3>2 DEF GoodLoop, Under
    <2>2. CASE ~l.shared
      BY <2>2 DEF GoodLoop, Under
    <2> QED
      BY <2>1, <2>2
  <1>5. \A i \in InReach(l, s) : i \in InReach(l, t) /\ Under(l, t)[i] = Under(l, s)[i]
    <2>1. CASE l.shared
      <3> TAKE i \in InReach(l, s)
      <3>1. i \in 1 .. l.len /\ i <= s.len /\ i \in 1 .. Len(s.array)
        BY <1>1, <2>1 DEF InReach, GoodLoop, Under, Arrays
      <3> QED
        BY <1>1, <1>2, <2>1, <3>1 DEF InReach, Under, Arrays
    <2>2. CASE ~l.shared
      BY <2>2 DEF InReach, Under
    <2> QED
      BY <2>1, <2>2
  <1>6. Missed(l, t) \subseteq Missed(l, s)
    BY <1>5 DEF Missed
  <1> QED
    BY <1>4, <1>6 DEF GoesOn, LoopType, t

\* DeleteTask shifts the array: of the tasks to come, the loop can lose the one
\* that moves to the place it has just left, and no other.
LEMMA ShiftGoesOn ==
    ASSUME NEW l \in LoopType, NEW s, GoodSlice(s), GoodLoop(l, s), l.shared,
           \A x \in Members(s) : l.entry \in EntriesOf(x),
           NEW id \in Members(s),
           NEW m \in LoopType, m.op = l.op, m.entry = l.entry, m.shared = l.shared,
           m.copy = l.copy, m.len = l.len, m.next = l.next, m.owed = l.owed \ {id},
           l.op \in {"merge", "deleteGroup"}, l.op = "merge" => m.shifts = l.shifts + 1
    PROVE  GoesOn(m, Removed(s, id), l, s)
  <1> DEFINE t == Removed(s, id)
             pos == Position(s, id)
  <1>1. /\ s.len \in Nat /\ s.array \in Arrays /\ Len(s.array) \in Nat /\ s.len <= Len(s.array)
        /\ l.len \in Nat /\ l.next \in Nat /\ l.len <= Len(s.array)
    BY DEF GoodSlice, SliceType, Arrays, LoopType, GoodLoop, Under
  <1>2. pos \in 1 .. s.len /\ s.array[pos] = id
    <2>1. \A i \in 1 .. s.len : Elements(s)[i] = s.array[i]
      BY <1>1 DEF Elements, Arrays
    <2>2. \E i \in 1 .. s.len : Elements(s)[i] = id
      BY <2>1 DEF Members
    <2> QED
      BY <2>1, <2>2 DEF Position
  <1>3. /\ t.len = s.len - 1
        /\ t.array = [i \in 1 .. Len(s.array) |->
                         IF pos <= i /\ i < s.len THEN s.array[i + 1] ELSE s.array[i]]
    BY <1>1 DEF Removed, Shifted, Arrays
  <1>4. Len(t.array) = Len(s.array)
    BY <1>1, <1>3
  <1> HIDE DEF t, pos
  <1>5. GoodLoop(m, t)
    <2>1. ASSUME NEW i \in 1 .. l.len
          PROVE  t.array[i] \in Ids /\ l.entry \in EntriesOf(t.array[i])
      <3>1. CASE pos <= i /\ i < s.len
        <4>1. t.array[i] = s.array[i + 1] /\ i + 1 \in 1 .. s.len
          BY <1>1, <1>2, <1>3, <3>1
        <4>2. t.array[i] \in Members(s) /\ t.array[i] \in Ids
          BY <4>1 DEF Members, GoodSlice
        <4> QED
          BY <4>2
      <3>2. CASE ~(pos <= i /\ i < s.len)
        <4>1. t.array[i] = s.array[i]
          BY <1>1, <1>3, <3>2
        <4> QED
          BY <4>1 DEF GoodLoop, Under
      <3> QED
        BY <3>1, <3>2
    <2> QED
      BY <1>1, <1>4, <2>1 DEF GoodLoop, Under
  <1> DEFINE To(i) == IF i < pos THEN i ELSE i - 1
  <1>6. ASSUME NEW i \in InReach(l, s), l.next <= i, i # pos, i # l.next
        PROVE  To(i) \in InReach(m, t) /\ m.next <= To(i) /\ t.array[To(i)] = s.array[i]
    <2>1. i \in 1 .. l.len /\ i <= s.len /\ l.next < i
      BY <1>1, <1>6 DEF InReach
    <2>2. To(i) \in 1 .. l.len /\ To(i) <= s.len - 1 /\ l.next <= To(i)
      BY <1>1, <1>2, <1>6, <2>1
    <2>3. CASE i < pos
      <3>1. i \in 1 .. Len(s.array) /\ ~(pos <= i) /\ To(i) = i
        BY <1>1, <1>2, <2>1, <2>3
      <3>2. t.array[i] = s.array[i]
        BY <1>3, <3>1
      <3> QED
        BY <1>3, <2>2, <3>1, <3>2 DEF InReach
    <2>4. CASE pos < i
      <3>1. i - 1 \in 1 .. Len(s.array) /\ pos <= i - 1 /\ i - 1 < s.len /\ (i - 1) + 1 = i
        BY <1>1, <1>2, <2>1, <2>4
      <3>2. t.array[i - 1] = s.array[i]
        BY <1>3, <3>1
      <3>3. To(i) = i - 1
        BY <1>1, <1>2, <2>1, <2>4
      <3> QED
        BY <1>1, <1>3, <2>2, <3>2, <3>3 DEF InReach
    <2> QED
      BY <1>1, <1>2, <1>6, <2>1, <2>3, <2>4
  <1> HIDE DEF To
  <1>7. Missed(m, t) \subseteq Missed(l, s) \cup {s.array[l.next]}
    <2> SUFFICES ASSUME NEW x \in Missed(m, t), x # s.array[l.next]
                 PROVE  x \in Missed(l, s)
      OBVIOUS
    <2>1. x \in l.owed /\ x # id
      BY DEF Missed
    <2>2. \A i \in InReach(m, t) : m.next <= i => t.array[i] # x
      BY DEF Missed, Under
    <2>3. \A i \in InReach(l, s) : l.next <= i => s.array[i] # x
      BY <1>2, <1>6, <2>1, <2>2
    <2> QED
      BY <2>1, <2>3 DEF Missed, Under
  <1> QED
    BY <1>5, <1>7 DEF GoesOn, t
-----------------------------------------------------------------------------
(* Every step keeps what holds of the loops.                               *)

LEMMA DetachedFields ==
    ASSUME SlicesOK, NEW ls \in [Procs -> LoopType], NEW es \in SUBSET Entries, NEW p \in Procs
    PROVE  LET l == ls[p]
               m == Detached(ls, es)[p]
               gives == l.shared /\ l.entry \in es
           IN  /\ m \in LoopType
               /\ m.op = l.op /\ m.entry = l.entry /\ m.len = l.len /\ m.next = l.next
               /\ m.owed = l.owed /\ m.shifts = l.shifts
               /\ gives => ~m.shared /\ m.copy = slices[l.entry].array
               /\ ~gives => m = l
  <1>1. \A e \in Entries : slices[e].array \in Arrays
    BY DEF SlicesOK, GoodSlice, SliceType
  <1>2. CASE ls[p].shared /\ ls[p].entry \in es
    <2>1. Detached(ls, es)[p] = [ls[p] EXCEPT !.shared = FALSE,
                                              !.copy = slices[ls[p].entry].array]
      BY <1>2 DEF Detached
    <2> QED
      BY <1>1, <1>2, <2>1 DEF LoopType
  <1>3. CASE ~(ls[p].shared /\ ls[p].entry \in es)
    <2>1. Detached(ls, es)[p] = ls[p]
      BY <1>3 DEF Detached
    <2> QED
      BY <1>3, <2>1 DEF LoopType
  <1> QED
    BY <1>2, <1>3

LEMMA DetachedDomain ==
    ASSUME SlicesOK, NEW ls \in [Procs -> LoopType], NEW es \in SUBSET Entries
    PROVE  Detached(ls, es) \in [Procs -> LoopType]
  <1>1. \A p \in Procs : Detached(ls, es)[p] \in LoopType
    BY DetachedFields
  <1> QED
    BY <1>1 DEF Detached

LEMMA SaveKeepsLoops ==
    ASSUME SlicesOK, LoopsInv, NEW id \in Ids, SaveTask(id)
    PROVE  LoopsInv'
  <1> DEFINE full == {e \in EntriesOf(id) : ~HasRoom(slices[e])}
  <1>1. full \in SUBSET Entries /\ loops \in [Procs -> LoopType]
    BY EntriesOfTask DEF LoopsInv
  <1>2. loops' = Detached(loops, full)
    BY DEF SaveTask
  <1>3. ASSUME NEW p \in Procs
        PROVE  LoopInv(loops'[p], slices'[loops'[p].entry])
    <2> DEFINE l == loops[p]
               m == loops'[p]
               s == slices[l.entry]
               t == slices'[l.entry]
    <2>1. /\ l \in LoopType /\ m \in LoopType
          /\ m.op = l.op /\ m.entry = l.entry /\ m.len = l.len /\ m.next = l.next
          /\ m.owed = l.owed /\ m.shifts = l.shifts
          /\ l.shared /\ l.entry \in full => ~m.shared /\ m.copy = s.array
          /\ ~(l.shared /\ l.entry \in full) => m = l
          /\ LoopInv(l, s)
      <3> HIDE DEF full
      <3>1. l \in LoopType /\ LoopInv(l, s)
        BY <1>1 DEF LoopsInv
      <3> QED
        BY <1>1, <1>2, <3>1, DetachedFields
    <2>2. CASE l.op = "idle"
      BY <2>1, <2>2 DEF LoopInv
    <2>3. CASE l.op # "idle"
      <3>1. GoodLoop(l, s) /\ l.entry \in Entries /\ l.shifts \in Nat
        BY <2>1, <2>3 DEF LoopInv, GoodLoop, LoopType
      <3>2. GoodSlice(s) /\ s \in SliceType
        BY <3>1 DEF SlicesOK, GoodSlice
      <3>3. GoesOn(m, t, l, s)
        <4>1. CASE l.shared /\ l.entry \in full
          BY <2>1, <3>1, <3>2, <4>1, DetachGoesOn
        <4>2. CASE l.shared /\ l.entry \in EntriesOf(id) /\ l.entry \notin full
          <5>1. t = Appended(s, id) /\ HasRoom(s)
            BY <3>1, <4>2 DEF SaveTask
          <5> QED
            BY <2>1, <3>1, <3>2, <4>2, <5>1, AppendGoesOn
        <4>3. CASE l.shared /\ l.entry \notin EntriesOf(id)
          <5>1. t = s /\ m = l
            BY <2>1, <3>1, <4>3 DEF SaveTask
          <5> QED
            BY <2>1, <3>1, <5>1, UntouchedGoesOn
        <4>4. CASE ~l.shared
          BY <2>1, <3>1, <4>4, UntouchedGoesOn
        <4> QED
          BY <4>1, <4>2, <4>3, <4>4
      <3> QED
        BY <2>1, <2>3, <3>3, GoingOnKeepsTheInvariant
    <2> QED
      BY <2>2, <2>3
  <1>4. loops' \in [Procs -> LoopType]
    <2> HIDE DEF full
    <2> QED
      BY <1>1, <1>2, DetachedDomain
  <1> QED
    BY <1>3, <1>4 DEF LoopsInv

LEMMA WithoutFields ==
    ASSUME SlicesOK, loops \in [Procs -> LoopType], NEW id \in Ids, NEW p \in Procs
    PROVE  LET l == loops[p]
               m == LoopsWithout(id)[p]
               gives == l.shared /\ l.entry \in DroppedWith(id)
           IN  /\ m \in LoopType
               /\ m.op = l.op /\ m.entry = l.entry /\ m.len = l.len /\ m.next = l.next
               /\ m.owed = l.owed \ {id}
               /\ m.shifts = IF l.op = "merge" /\ id \in Listed(l.entry)
                             THEN l.shifts + 1 ELSE l.shifts
               /\ gives => ~m.shared /\ m.copy = slices[l.entry].array
               /\ ~gives => m.shared = l.shared /\ m.copy = l.copy
  <1> DEFINE es == DroppedWith(id)
             k == Detached(loops, es)[p]
             n == IF k.op = "merge" /\ id \in Listed(k.entry) THEN k.shifts + 1 ELSE k.shifts
  <1>1. es \in SUBSET Entries
    BY EntriesOfTask DEF DroppedWith
  <1>2. LoopsWithout(id)[p] = [k EXCEPT !.owed = @ \ {id}, !.shifts = n]
    BY DEF LoopsWithout
  <1> HIDE DEF es, k
  <1>3. /\ k \in LoopType
        /\ k.op = loops[p].op /\ k.entry = loops[p].entry /\ k.len = loops[p].len
        /\ k.next = loops[p].next /\ k.owed = loops[p].owed /\ k.shifts = loops[p].shifts
        /\ loops[p].shared /\ loops[p].entry \in es =>
              ~k.shared /\ k.copy = slices[loops[p].entry].array
        /\ ~(loops[p].shared /\ loops[p].entry \in es) => k = loops[p]
    BY <1>1, DetachedFields DEF k
  <1>4. n \in Nat /\ k.owed \ {id} \in SUBSET Ids
    BY <1>3 DEF LoopType
  <1> HIDE DEF n
  <1>5. LET m == [k EXCEPT !.owed = @ \ {id}, !.shifts = n]
        IN  /\ m \in LoopType
            /\ m.op = k.op /\ m.entry = k.entry /\ m.len = k.len /\ m.next = k.next
            /\ m.owed = k.owed \ {id} /\ m.shifts = n /\ m.shared = k.shared /\ m.copy = k.copy
    BY <1>3, <1>4 DEF LoopType
  <1> QED
    BY <1>2, <1>3, <1>5 DEF n, es

\* What deleting a task does to a loop, which may be the one that deletes it.
LEMMA DeleteKeepsLoop ==
    ASSUME SlicesOK, LoopsInv, NEW id \in Ids, slices' = SlicesWithout(id), NEW p \in Procs
    PROVE  LoopInv(LoopsWithout(id)[p], slices'[loops[p].entry])
  <1> DEFINE l == loops[p]
             s == slices[l.entry]
             t == slices'[l.entry]
  <1>1. PICK m : m = LoopsWithout(id)[p]
    OBVIOUS
  <1>2. /\ l \in LoopType /\ m \in LoopType /\ LoopInv(l, s)
        /\ m.op = l.op /\ m.entry = l.entry /\ m.len = l.len /\ m.next = l.next
        /\ m.owed = l.owed \ {id}
        /\ m.shifts = IF l.op = "merge" /\ id \in Listed(l.entry) THEN l.shifts + 1 ELSE l.shifts
        /\ l.shared /\ l.entry \in DroppedWith(id) => ~m.shared /\ m.copy = s.array
        /\ ~(l.shared /\ l.entry \in DroppedWith(id)) => m.shared = l.shared /\ m.copy = l.copy
    <2>1. loops \in [Procs -> LoopType] /\ LoopInv(l, s) /\ l \in LoopType
      BY DEF LoopsInv
    <2> QED
      BY <1>1, <2>1, WithoutFields
  <1>3. CASE l.op = "idle"
    BY <1>1, <1>2, <1>3 DEF LoopInv
  <1>4. CASE l.op # "idle"
    <2>1. GoodLoop(l, s) /\ l.entry \in Entries /\ l.shifts \in Nat /\ m.shifts >= l.shifts
      BY <1>2, <1>4 DEF LoopInv, GoodLoop, LoopType
    <2>2. /\ GoodSlice(s) /\ s \in SliceType
          /\ Listed(l.entry) = Members(s)
          /\ \A x \in Members(s) : l.entry \in EntriesOf(x)
      BY <2>1, ListedAreMembers DEF SlicesOK, GoodSlice
    <2>3. GoesOn(m, t, l, s)
      <3>1. CASE l.shared /\ l.entry \in DroppedWith(id)
        BY <1>2, <2>1, <2>2, <3>1, DetachGoesOn
      <3>2. CASE l.shared /\ l.entry \notin DroppedWith(id) /\ id \in Members(s)
        <4>1. t = Removed(s, id)
          BY <2>1, <2>2, <3>2 DEF SlicesWithout
        <4>2. l.op \in {"merge", "deleteGroup"}
          BY <1>2, <1>4, <3>2 DEF LoopInv, LoopType
        <4>3. l.op = "merge" => m.shifts = l.shifts + 1
          BY <1>2, <2>2, <3>2
        <4>4. m.shared = l.shared /\ m.copy = l.copy
          BY <1>2, <3>2
        <4> HIDE DEF l, s, t
        <4>5. GoesOn(m, Removed(s, id), l, s)
          BY <1>2, <2>1, <2>2, <3>2, <4>2, <4>3, <4>4, ShiftGoesOn
        <4> QED
          BY <4>1, <4>5
      <3>3. CASE l.shared /\ l.entry \notin DroppedWith(id) /\ id \notin Members(s)
        <4>1. t = s
          BY <2>1, <2>2, <3>3 DEF SlicesWithout
        <4> QED
          BY <1>2, <2>1, <3>3, <4>1, UntouchedGoesOn
      <3>4. CASE ~l.shared
        BY <1>2, <2>1, <3>4, UntouchedGoesOn
      <3> QED
        BY <3>1, <3>2, <3>3, <3>4
    <2> QED
      BY <1>1, <1>2, <1>4, <2>3, GoingOnKeepsTheInvariant
  <1> QED
    BY <1>3, <1>4

LEMMA IdleLoopInv == \A s : LoopInv(IdleLoop, s)
  BY DEF LoopInv, IdleLoop, LoopType, Arrays

\* A loop over the slice itself begins with every task of the slice to come.
LEMMA AliasedLoopInv ==
    ASSUME SlicesOK, NEW e \in Entries, NEW op \in {"deleteGroup", "merge"}
    PROVE  Aliased(op, e).entry = e /\ LoopInv(Aliased(op, e), slices[e])
  <1> DEFINE l == Aliased(op, e)
             s == slices[e]
  <1>1. /\ s.array \in Arrays /\ s.len \in Nat /\ s.len <= Len(s.array)
        /\ Listed(e) = Members(s) /\ Listed(e) \in SUBSET Ids
        /\ \A i \in 1 .. s.len : s.array[i] \in Ids /\ e \in EntriesOf(s.array[i])
    BY ListedAreMembers DEF SlicesOK, GoodSlice, SliceType, Members
  <1>2. /\ l.op = op /\ l.entry = e /\ l.shared = TRUE /\ l.copy = <<>> /\ l.len = s.len
        /\ l.next = 1 /\ l.owed = Listed(e) /\ l.shifts = 0
    BY DEF Aliased, IdleLoop
  <1>3. l \in LoopType
    <2>1. IdleLoop \in LoopType
      BY DEF IdleLoop, LoopType, Arrays
    <2> HIDE DEF s
    <2>2. l = [IdleLoop EXCEPT !.op = op, !.entry = e, !.shared = TRUE, !.len = s.len,
                               !.owed = Listed(e)]
      BY DEF Aliased, s
    <2> QED
      BY <1>1, <2>1, <2>2 DEF LoopType
  <1> HIDE DEF l
  <1>4. GoodLoop(l, s)
    BY <1>1, <1>2 DEF GoodLoop, Under
  <1>5. Missed(l, s) = {}
    BY <1>1, <1>2 DEF Missed, InReach, Under, Members
  <1>6. IsFiniteSet(Missed(l, s)) /\ Cardinality(Missed(l, s)) <= 0
    BY <1>5, FS_EmptySet
  <1> QED
    BY <1>2, <1>3, <1>4, <1>6 DEF LoopInv, l

LEMMA CopiedLoopInv ==
    ASSUME SlicesOK, NEW e \in Entries
    PROVE  LET l == Copied("resetGroup", e) IN l.entry = e /\ LoopInv(l, slices[e])
  <1> DEFINE l == Copied("resetGroup", e)
             s == slices[e]
  <1>1. /\ s.array \in Arrays /\ s.len \in Nat /\ s.len <= Len(s.array)
        /\ Listed(e) = Members(s) /\ Listed(e) \in SUBSET Ids
        /\ \A i \in 1 .. s.len : s.array[i] \in Ids /\ e \in EntriesOf(s.array[i])
    BY ListedAreMembers DEF SlicesOK, GoodSlice, SliceType, Members
  <1>2. /\ Elements(s) \in Arrays /\ Len(Elements(s)) = s.len
        /\ \A i \in 1 .. s.len : Elements(s)[i] = s.array[i]
    BY <1>1 DEF Elements, Arrays
  <1>3. /\ l.op = "resetGroup" /\ l.entry = e /\ l.shared = FALSE /\ l.copy = Elements(s)
        /\ l.len = s.len /\ l.next = 1 /\ l.owed = Listed(e) /\ l.shifts = 0
    BY DEF Copied, IdleLoop
  <1>4. l \in LoopType
    <2>1. IdleLoop \in LoopType
      BY DEF IdleLoop, LoopType, Arrays
    <2> HIDE DEF s
    <2>2. l = [IdleLoop EXCEPT !.op = "resetGroup", !.entry = e, !.copy = Elements(s),
                               !.len = s.len, !.owed = Listed(e)]
      BY DEF Copied, s
    <2> QED
      BY <1>1, <1>2, <2>1, <2>2 DEF LoopType
  <1> HIDE DEF l
  <1>5. GoodLoop(l, s)
    BY <1>1, <1>2, <1>3 DEF GoodLoop, Under
  <1>6. Missed(l, s) = {}
    BY <1>1, <1>2, <1>3 DEF Missed, InReach, Under, Members
  <1> QED
    BY <1>3, <1>4, <1>5, <1>6 DEF LoopInv, l

LEMMA BeginKeepsLoops ==
    ASSUME LoopsInv, NEW p \in Procs, NEW loop, Begin(p, loop), LoopInv(loop, slices[loop.entry])
    PROVE  LoopsInv'
  BY DEF LoopsInv, Begin, LoopInv

LEMMA WriteKeepsLoops ==
    ASSUME SlicesOK, LoopsInv, NEW p \in Procs, WriteCurrent(p)
    PROVE  LoopsInv'
  <1> DEFINE l == loops[p]
             s == slices[l.entry]
             m == [l EXCEPT !.next = @ + 1, !.owed = @ \ {Current(p)}]
  <1>1. /\ l \in LoopType /\ LoopInv(l, s) /\ l.op # "idle"
        /\ loops' = [loops EXCEPT ![p] = m] /\ slices' = slices
    BY DEF LoopsInv, WriteCurrent, Ranges, Advanced
  <1>2. GoodLoop(l, s) /\ s \in SliceType
    BY <1>1 DEF LoopInv, GoodLoop, SlicesOK, GoodSlice
  <1>3. Current(p) = Under(l, s)[l.next]
    BY DEF Current, Under
  <1>4. GoesOn(m, s, l, s)
    <2> HIDE DEF l, s
    <2> QED
      BY <1>1, <1>2, <1>3, AdvanceGoesOn
  <1>5. LoopInv(m, s) /\ m \in LoopType /\ m.entry = l.entry
    <2> HIDE DEF m, s, l
    <2> QED
      BY <1>1, <1>4, GoingOnKeepsTheInvariant DEF GoesOn
  <1> HIDE DEF m
  <1> QED
    BY <1>1, <1>5 DEF LoopsInv

LEMMA DeleteTaskKeepsLoops ==
    ASSUME SlicesOK, LoopsInv, NEW id \in Ids, slices' = SlicesWithout(id)
    PROVE  /\ LoopsWithout(id) \in [Procs -> LoopType]
           /\ \A p \in Procs : LET m == LoopsWithout(id)[p] IN LoopInv(m, slices'[m.entry])
  <1>1. loops \in [Procs -> LoopType]
    BY DEF LoopsInv
  <1>2. ASSUME NEW p \in Procs
        PROVE  LoopsWithout(id)[p] \in LoopType /\ LoopsWithout(id)[p].entry = loops[p].entry
    BY <1>1, WithoutFields
  <1>3. DOMAIN LoopsWithout(id) = Procs /\ LoopsWithout(id) = [p \in Procs |-> LoopsWithout(id)[p]]
    BY DEF LoopsWithout
  <1> QED
    BY <1>2, <1>3, DeleteKeepsLoop

\* The loop that deletes the task it has come to moves on from it.
LEMMA DeleteCurrentKeepsLoops ==
    ASSUME SlicesOK, LoopsInv, SlicesOK', NEW p \in Procs, DeleteCurrent(p)
    PROVE  LoopsInv'
  <1> DEFINE x == Current(p)
             l == loops[p]
  <1>1. /\ l \in LoopType /\ LoopInv(l, slices[l.entry])
        /\ l.op \in {"deleteGroup", "resetGroup"}
        /\ x = Under(l, slices[l.entry])[l.next]
    BY DEF LoopsInv, DeleteCurrent, Deletes, Current, Under
  <1>2. ASSUME NEW ls \in [Procs -> LoopType], loops' = Advanced(ls, p),
               \A q \in Procs : LoopInv(ls[q], slices'[ls[q].entry]),
               ls[p].op = l.op, ls[p].next = l.next, ls[p].entry = l.entry,
               l.op = "resetGroup" => ~ls[p].shared /\ ls[p].copy = l.copy
        PROVE  LoopsInv'
    <2> DEFINE k == ls[p]
               t == slices'[k.entry]
               m == [k EXCEPT !.next = @ + 1, !.owed = @ \ {x}]
    <2>1. /\ loops' = [ls EXCEPT ![p] = m] /\ k \in LoopType /\ LoopInv(k, t)
          /\ GoodLoop(k, t) /\ t \in SliceType
      BY <1>1, <1>2 DEF Advanced, LoopInv, GoodLoop, SlicesOK, GoodSlice
    <2>2. /\ m \in LoopType
          /\ m.op = k.op /\ m.entry = k.entry /\ m.shared = k.shared /\ m.copy = k.copy /\ m.len = k.len
      <3> HIDE DEF k
      <3>1. k.next + 1 \in Nat \ {0} /\ k.owed \ {x} \in SUBSET Ids
        BY <2>1 DEF LoopType
      <3> QED
        BY <2>1, <3>1 DEF LoopType
    <2>3. LoopInv(m, t)
      <3>1. CASE l.op = "deleteGroup"
        <4> HIDE DEF m
        <4>1. GoodLoop(m, t)
          BY <2>1, <2>2 DEF GoodLoop, Under
        <4> QED
          BY <1>2, <2>2, <3>1, <4>1 DEF LoopInv
      <3>2. CASE l.op = "resetGroup"
        <4>1. x = Under(k, t)[k.next]
          BY <1>1, <1>2, <3>2 DEF Under, LoopInv
        <4> HIDE DEF k, t
        <4>2. GoesOn(m, t, k, t)
          BY <2>1, <4>1, AdvanceGoesOn
        <4>3. k.op # "idle"
          BY <1>2, <3>2 DEF k
        <4> HIDE DEF m
        <4> QED
          BY <2>1, <4>2, <4>3, GoingOnKeepsTheInvariant
      <3> QED
        BY <1>1, <3>1, <3>2
    <2> HIDE DEF m
    <2> QED
      BY <1>2, <2>1, <2>2, <2>3 DEF LoopsInv
  <1>3. CASE x \in tasks
    <2>1. x \in Ids /\ slices' = SlicesWithout(x) /\ loops' = Advanced(LoopsWithout(x), p)
      BY <1>3 DEF SlicesOK, DeleteCurrent
    <2>2. loops \in [Procs -> LoopType]
      BY DEF LoopsInv
    <2> DEFINE k == LoopsWithout(x)[p]
    <2>3. /\ k.op = l.op /\ k.next = l.next /\ k.entry = l.entry
          /\ ~l.shared => k.shared = l.shared /\ k.copy = l.copy
      <3> HIDE DEF x
      <3> QED
        BY <2>1, <2>2, WithoutFields
    <2>4. l.op = "resetGroup" => ~k.shared /\ k.copy = l.copy
      BY <1>1, <2>3 DEF LoopInv
    <2> HIDE DEF x, l
    <2>5. /\ LoopsWithout(x) \in [Procs -> LoopType]
          /\ \A q \in Procs : LoopInv(LoopsWithout(x)[q], slices'[LoopsWithout(x)[q].entry])
      BY <2>1, DeleteTaskKeepsLoops
    <2> QED
      BY <1>2, <2>1, <2>3, <2>4, <2>5
  <1>4. CASE x \notin tasks
    <2>1. slices' = slices /\ loops' = Advanced(loops, p) /\ loops \in [Procs -> LoopType]
      BY <1>4 DEF DeleteCurrent, LoopsInv
    <2>2. \A q \in Procs : LoopInv(loops[q], slices'[loops[q].entry])
      BY <2>1 DEF LoopsInv
    <2>3. l.op = "resetGroup" => ~l.shared /\ l.copy = l.copy
      BY <1>1 DEF LoopInv
    <2> QED
      BY <1>2, <2>1, <2>2, <2>3
  <1> QED
    BY <1>3, <1>4

LEMMA EndDeleteGroupKeepsLoops ==
    ASSUME SlicesOK, LoopsInv, NEW p \in Procs, NEW g \in Groups, EndDeleteGroup(p, g)
    PROVE  LoopsInv'
  <1> DEFINE e == GroupEntry(g)
             ls == [loops EXCEPT ![p] = IdleLoop]
  <1>1. e \in Entries /\ {e} \in SUBSET Entries
    BY DEF Entries
  <1>2. loops \in [Procs -> LoopType] /\ \A q \in Procs : LoopInv(loops[q], slices[loops[q].entry])
    BY DEF LoopsInv
  <1>3. ls \in [Procs -> LoopType]
    <2>1. IdleLoop \in LoopType
      BY IdleLoopInv DEF LoopInv
    <2> QED
      BY <1>2, <2>1
  <1>4. \A q \in Procs : LoopInv(ls[q], slices[ls[q].entry])
    BY <1>2, IdleLoopInv
  <1>5. loops' = Detached(ls, {e}) /\ slices' = [slices EXCEPT ![e] = NoSlice]
    BY DEF EndDeleteGroup
  <1> HIDE DEF ls, e
  <1>6. ASSUME NEW q \in Procs
        PROVE  LoopInv(loops'[q], slices'[loops'[q].entry])
    <2> DEFINE l == ls[q]
               m == loops'[q]
               s == slices[l.entry]
               t == slices'[l.entry]
    <2>1. /\ l \in LoopType /\ m \in LoopType /\ LoopInv(l, s)
          /\ m.op = l.op /\ m.entry = l.entry /\ m.len = l.len /\ m.next = l.next
          /\ m.owed = l.owed /\ m.shifts = l.shifts
          /\ l.shared /\ l.entry = e => ~m.shared /\ m.copy = s.array
          /\ ~(l.shared /\ l.entry = e) => m = l
      BY <1>1, <1>3, <1>4, <1>5, DetachedFields
    <2>2. CASE l.op = "idle"
      BY <2>1, <2>2 DEF LoopInv
    <2>3. CASE l.op # "idle"
      <3>1. GoodLoop(l, s) /\ l.entry \in Entries /\ l.shifts \in Nat
        BY <2>1, <2>3 DEF LoopInv, GoodLoop, LoopType
      <3>2. s \in SliceType
        BY <3>1 DEF SlicesOK, GoodSlice
      <3>3. CASE l.shared /\ l.entry = e
        <4> HIDE DEF l, s, t, m
        <4>1. GoesOn(m, t, l, s)
          BY <2>1, <3>1, <3>2, <3>3, DetachGoesOn
        <4>2. LoopInv(m, t)
          BY <2>1, <2>3, <4>1, GoingOnKeepsTheInvariant
        <4> QED
          BY <2>1, <4>2 DEF m, t
      <3>4. CASE l.shared /\ l.entry # e
        <4>1. m = l /\ t = s
          BY <1>5, <2>1, <3>1, <3>4 DEF SlicesOK
        <4> QED
          BY <2>1, <4>1
      <3>5. CASE ~l.shared
        <4>1. m = l
          BY <2>1, <3>5
        <4> HIDE DEF l, s, t, m
        <4>2. GoesOn(m, t, l, s)
          BY <2>1, <3>1, <3>5, <4>1, UntouchedGoesOn
        <4>3. LoopInv(m, t)
          BY <2>1, <2>3, <4>2, GoingOnKeepsTheInvariant
        <4> QED
          BY <2>1, <4>3 DEF m, t
      <3> QED
        BY <3>3, <3>4, <3>5
    <2> QED
      BY <2>2, <2>3
  <1>7. loops' \in [Procs -> LoopType]
    BY <1>1, <1>3, <1>5, DetachedDomain
  <1> QED
    BY <1>6, <1>7 DEF LoopsInv

LEMMA LoopsStep ==
    ASSUME SlicesOK, LoopsInv, SlicesOK', [Next]_vars
    PROVE  LoopsInv'
  <1>1. ASSUME NEW id \in Ids, SaveTask(id)
        PROVE  LoopsInv'
    BY <1>1, SaveKeepsLoops
  <1>2. ASSUME NEW id \in Ids, DeleteTask(id)
        PROVE  LoopsInv'
    <2>1. slices' = SlicesWithout(id) /\ loops' = LoopsWithout(id)
      BY <1>2 DEF DeleteTask
    <2> QED
      BY <2>1, DeleteTaskKeepsLoops DEF LoopsInv
  <1>3. ASSUME UNCHANGED <<slices, loops>>
        PROVE  LoopsInv'
    BY <1>3 DEF LoopsInv
  <1>4. ASSUME NEW p \in Procs, NEW g \in Groups, BeginDeleteGroup(p, g)
        PROVE  LoopsInv'
    <2>1. GroupEntry(g) \in Entries
      BY DEF Entries
    <2> QED
      BY <1>4, <2>1, AliasedLoopInv, BeginKeepsLoops DEF BeginDeleteGroup
  <1>5. ASSUME NEW p \in Procs, NEW g \in Groups, BeginResetGroup(p, g)
        PROVE  LoopsInv'
    <2>1. GroupEntry(g) \in Entries
      BY DEF Entries
    <2> QED
      BY <1>5, <2>1, CopiedLoopInv, BeginKeepsLoops DEF BeginResetGroup
  <1>6. ASSUME NEW p \in Procs, NEW k \in Keys, BeginMerge(p, k)
        PROVE  LoopsInv'
    <2>1. KeyEntry(k) \in Entries
      BY DEF Entries
    <2> QED
      BY <1>6, <2>1, AliasedLoopInv, BeginKeepsLoops DEF BeginMerge
  <1>7. ASSUME NEW p \in Procs, DeleteCurrent(p)
        PROVE  LoopsInv'
    BY <1>7, DeleteCurrentKeepsLoops
  <1>8. ASSUME NEW p \in Procs, WriteCurrent(p)
        PROVE  LoopsInv'
    BY <1>8, WriteKeepsLoops
  <1>9. ASSUME NEW p \in Procs, NEW g \in Groups, EndDeleteGroup(p, g)
        PROVE  LoopsInv'
    BY <1>9, EndDeleteGroupKeepsLoops
  <1>10. ASSUME NEW p \in Procs, EndLoop(p)
         PROVE  LoopsInv'
    BY <1>10, IdleLoopInv DEF EndLoop, LoopsInv, LoopInv
  <1> QED
    BY <1>1, <1>2, <1>3, <1>4, <1>5, <1>6, <1>7, <1>8, <1>9, <1>10
       DEF Next, vars, SaveTaskGroup

-----------------------------------------------------------------------------
(* What the loops may rely on, for any tasks, fields and number of loops.  *)

LoopsSafe == SlicesOK /\ LoopsInv /\ saves \in Nat /\ slices \in [Entries -> SliceType]

THEOREM Loops == Spec => []LoopsSafe
  <1>1. Init => LoopsSafe
    <2> SUFFICES ASSUME Init PROVE LoopsSafe
      OBVIOUS
    <2>1. LoopsInv
      BY IdleLoopInv DEF Init, LoopsInv, LoopInv
    <2>2. slices \in [Entries -> SliceType]
      BY NoSliceIsGood DEF Init, GoodSlice
    <2> QED
      BY <2>1, <2>2, InitSlices DEF Init, LoopsSafe
  <1>2. LoopsSafe /\ [Next]_vars => LoopsSafe'
    <2> SUFFICES ASSUME LoopsSafe, [Next]_vars PROVE LoopsSafe'
      OBVIOUS
    <2>1. SlicesOK'
      BY StepRefines DEF LoopsSafe
    <2>2. LoopsInv'
      BY <2>1, LoopsStep DEF LoopsSafe
    <2>3. saves' \in Nat
      <3>1. saves' = saves \/ saves' = saves + 1
        BY Zenon DEF Next, vars, SaveTask, DeleteTask, SaveTaskGroup, BeginDeleteGroup,
               BeginResetGroup, BeginMerge, Begin, DeleteCurrent, WriteCurrent, EndDeleteGroup,
               EndLoop
      <3> QED
        BY <3>1 DEF LoopsSafe
    <2>4. slices' \in [Entries -> SliceType]
      <3>1. \/ slices' = slices
            \/ slices' = [e \in Entries |-> slices'[e]]
            \/ \E g \in Groups : slices' = [slices EXCEPT ![GroupEntry(g)] = NoSlice]
        BY DEF Next, vars, SaveTask, DeleteTask, SlicesWithout, SaveTaskGroup, BeginDeleteGroup,
               BeginResetGroup, BeginMerge, Begin, DeleteCurrent, WriteCurrent, EndDeleteGroup,
               EndLoop
      <3>2. \A e \in Entries : slices'[e] \in SliceType
        BY <2>1 DEF SlicesOK, GoodSlice
      <3> QED
        BY <3>1, <3>2, NoSliceIsGood DEF LoopsSafe, GoodSlice
    <2> QED
      BY <2>1, <2>2, <2>3, <2>4 DEF LoopsSafe
  <1> QED
    BY <1>1, <1>2, PTL DEF Spec

\* Whatever shifts and grows, the slices, what the loops range over and what they
\* still owe keep their types.
THEOREM StorageTypeOK == Spec => []TypeOK
  <1>1. LoopsSafe => TypeOK
    BY DEF LoopsSafe, LoopsInv, SlicesOK, GoodSlice, TypeOK
  <1> QED
    BY <1>1, Loops, PTL

\* A loop over a slice that others shift, grow and drop never comes to a nil
\* pointer or to a task of another entry.
THEOREM LoopsStay == Spec => []LoopsStayInTheirEntry
  <1>1. LoopsSafe => LoopsStayInTheirEntry
    <2> SUFFICES ASSUME LoopsSafe, NEW p \in Procs, Ranges(p), ~Finished(p)
                 PROVE  Current(p) \in Ids /\ loops[p].entry \in EntriesOf(Current(p))
      BY DEF LoopsStayInTheirEntry
    <2>1. /\ loops[p] \in LoopType
          /\ GoodLoop(loops[p], slices[loops[p].entry])
      BY DEF LoopsSafe, LoopsInv, LoopInv, Ranges
    <2>2. loops[p].next \in 1 .. loops[p].len
      BY <2>1 DEF LoopType, Finished
    <2> QED
      BY <2>1, <2>2 DEF GoodLoop, Under, Current
  <1> QED
    BY <1>1, Loops, PTL

\* A loop ends only where it has nothing left to come to.
LEMMA EndsWhenFinished ==
    ASSUME LoopsSafe, [Next]_vars, NEW p \in Procs, NEW op \in {"resetGroup", "merge"},
           Ends(p, op)
    PROVE  Finished(p)
  <1>1. loops[p] \in LoopType /\ loops \in [Procs -> LoopType] /\ loops[p].op = op /\ loops'[p].op = "idle"
    BY DEF LoopsSafe, LoopsInv, Ends
  <1>2. ASSUME NEW ls \in [Procs -> LoopType], ls[p].op = op, NEW es \in SUBSET Entries,
               loops' = Detached(ls, es)
        PROVE  FALSE
    BY <1>1, <1>2, DetachedFields DEF LoopsSafe
  <1>3. ASSUME NEW id \in Ids, SaveTask(id)
        PROVE  FALSE
    <2>1. {e \in EntriesOf(id) : ~HasRoom(slices[e])} \in SUBSET Entries
      BY EntriesOfTask
    <2> QED
      BY <1>1, <1>2, <1>3, <2>1 DEF SaveTask
  <1>4. ASSUME NEW id \in Ids
        PROVE  LoopsWithout(id)[p].op = op
    BY <1>1, WithoutFields DEF LoopsSafe
  <1>5. ASSUME NEW id \in Ids, DeleteTask(id)
        PROVE  FALSE
    BY <1>1, <1>4, <1>5 DEF DeleteTask
  <1>6. ASSUME NEW q \in Procs, NEW loop, Begin(q, loop), loop.op # "idle"
        PROVE  FALSE
    BY <1>1, <1>6 DEF Begin, Ranges
  <1>7. ASSUME NEW q \in Procs, NEW ls, ls[p].op = op, DOMAIN ls = Procs, loops' = Advanced(ls, q)
        PROVE  FALSE
    BY <1>1, <1>7 DEF Advanced
  <1>8. ASSUME NEW q \in Procs, DeleteCurrent(q)
        PROVE  FALSE
    <2>1. CASE Current(q) \in tasks
      <3>1. Current(q) \in Ids /\ loops' = Advanced(LoopsWithout(Current(q)), q)
        BY <1>8, <2>1 DEF DeleteCurrent, LoopsSafe, SlicesOK
      <3>2. DOMAIN LoopsWithout(Current(q)) = Procs
        BY DEF LoopsWithout
      <3> QED
        BY <1>4, <1>7, <3>1, <3>2
    <2>2. CASE Current(q) \notin tasks
      BY <1>1, <1>7, <1>8, <2>2 DEF DeleteCurrent
    <2> QED
      BY <2>1, <2>2
  <1>9. ASSUME NEW q \in Procs, WriteCurrent(q)
        PROVE  FALSE
    BY <1>1, <1>7, <1>9 DEF WriteCurrent
  <1>10. ASSUME NEW q \in Procs, NEW g \in Groups, EndDeleteGroup(q, g)
         PROVE  FALSE
    <2>1. {GroupEntry(g)} \in SUBSET Entries /\ q # p
      BY <1>1, <1>10 DEF Entries, EndDeleteGroup
    <2>2. IdleLoop \in LoopType
      BY IdleLoopInv DEF LoopInv
    <2>3. [loops EXCEPT ![q] = IdleLoop] \in [Procs -> LoopType]
      BY <1>1, <2>2
    <2>4. [loops EXCEPT ![q] = IdleLoop][p].op = op
      BY <1>1, <2>1
    <2> QED
      BY <1>2, <1>10, <2>1, <2>3, <2>4 DEF EndDeleteGroup
  <1>11. ASSUME NEW q \in Procs, EndLoop(q)
         PROVE  Finished(p)
    BY <1>1, <1>11 DEF EndLoop
  <1>12. ASSUME UNCHANGED loops
         PROVE  FALSE
    BY <1>1, <1>12
  <1>13. /\ \A e : Aliased("deleteGroup", e).op # "idle"
         /\ \A e : Aliased("merge", e).op # "idle"
         /\ \A e : Copied("resetGroup", e).op # "idle"
    BY DEF Aliased, Copied, IdleLoop
  <1> QED
    BY <1>3, <1>5, <1>6, <1>8, <1>9, <1>10, <1>11, <1>12, <1>13
       DEF Next, vars, SaveTaskGroup, BeginDeleteGroup, BeginResetGroup, BeginMerge

\* A loop that has finished misses all that it still owes.
LEMMA FinishedMisses ==
    ASSUME NEW p \in Procs, loops[p] \in LoopType, Finished(p), NEW s
    PROVE  Missed(loops[p], s) = loops[p].owed
  <1>1. \A i \in InReach(loops[p], s) : ~(loops[p].next <= i)
    BY DEF InReach, Finished, LoopType
  <1> QED
    BY <1>1 DEF Missed

\* A reset comes to every task that was listed when it began, although its
\* own deletions and those of others move the tasks of the slice.
THEOREM ResetIsComplete == Spec => ResetReachesAll
  <1>1. ASSUME LoopsSafe, [Next]_vars, NEW p \in Procs, Ends(p, "resetGroup")
        PROVE  loops[p].owed = {}
    <2>1. Finished(p)
      BY <1>1, EndsWhenFinished
    <2>2. loops[p] \in LoopType /\ Missed(loops[p], slices[loops[p].entry]) = {}
      BY <1>1 DEF LoopsSafe, LoopsInv, LoopInv, Ends
    <2> QED
      BY <2>1, <2>2, FinishedMisses
  <1>2. LoopsSafe /\ [Next]_vars
           => [\A p \in Procs : Ends(p, "resetGroup") => loops[p].owed = {}]_vars
    BY <1>1
  <1> QED
    BY <1>2, Loops, PTL DEF Spec, ResetReachesAll

\* A merge misses no more duplicates than were deleted under it.
THEOREM MergeIsAlmostComplete == Spec => MergeMissesOnlyShifted
  <1>1. ASSUME LoopsSafe, [Next]_vars, NEW p \in Procs, Ends(p, "merge")
        PROVE  Cardinality(loops[p].owed) <= loops[p].shifts
    <2>1. Finished(p)
      BY <1>1, EndsWhenFinished
    <2>2. /\ loops[p] \in LoopType
          /\ Cardinality(Missed(loops[p], slices[loops[p].entry])) <= loops[p].shifts
      BY <1>1 DEF LoopsSafe, LoopsInv, LoopInv, Ends
    <2> QED
      BY <2>1, <2>2, FinishedMisses
  <1>2. LoopsSafe /\ [Next]_vars
           => [\A p \in Procs : Ends(p, "merge") => Cardinality(loops[p].owed) <= loops[p].shifts]_vars
    BY <1>1
  <1> QED
    BY <1>2, Loops, PTL DEF Spec, MergeMissesOnlyShifted
=============================================================================
