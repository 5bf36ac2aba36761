--------------------------- MODULE ViewTypeProofs ----------------------------
(***************************************************************************)
(* The types of the views, for any tasks, queries, commands and number of  *)
(* calls in flight.                                                        *)
(*                                                                         *)
(* The first parts say once what the operators of the model return: what   *)
(* Only selects, what an event makes of the rows, what a handler emits,    *)
(* and how the calls in flight age.  The others go through the steps of    *)
(* the server and of the page; each lemma also gives what the proofs of    *)
(* ViewProofs need to know of its step, so that those expand no action.    *)
(***************************************************************************)
EXTENDS TaskViews, TLAPS, FiniteSetTheorems, SequenceTheorems

-----------------------------------------------------------------------------
(* The invariant of types.                                                 *)

\* Tasks of a list have different ids.
Distinct(ts) == \A i, j \in DOMAIN ts : ts[i].id = ts[j].id => i = j

\* Calls are told apart by their keys.
Keyed(cs) == \A c, d \in cs : Key(c) = Key(d) => c = d

CallsOK(cs) == cs \subseteq Call /\ Keyed(cs) /\ IsFiniteSet(cs)

\* What is so of a call whatever the state.
CallShape(c) ==
    /\ c.what \in OfTask => c.task \in Task
    /\ c.by = "page" <=> c.what \in OfGroup
    /\ c.by = "graph" /\ c.what = "load" => c.query = All
    /\ Distinct(c.answer)
    /\ c.served /\ c.what = "reset" => c.answer # <<>> /\ c.answer[1].id = c.task.id

\* A call that is shown is one of the view that is there.
CallOK(c) ==
    /\ CallShape(c)
    /\ c.at <= events
    /\ c.on /\ c.by = "table" => table.mounted
    /\ c.on /\ c.by = "graph" => graph.mounted

Creates(c) == c.what = "create" /\ ~c.served

\* An id that is given to a task to be is not that of another.
CallsInv ==
    /\ CallsOK(calls)
    /\ \A c \in calls : CallOK(c)
    /\ \A c \in calls : Creates(c) => c.task.id \notin IdsOf(stored)
    /\ \A c, d \in calls : Creates(c) /\ Creates(d) /\ c.task.id = d.task.id => Key(c) = Key(d)

ServerInv ==
    /\ stored \in Seq(Task) /\ Distinct(stored)
    /\ socket \in {"connecting", "open", "closed"}
    /\ wire \in Seq(Event) /\ Len(wire) <= FeedCap
    /\ events \in Nat /\ doubt \subseteq Ids
    /\ \A i \in DOMAIN wire : wire[i].at <= events

TableRecord == [mounted : BOOLEAN, rows : Seq(Task), loading : BOOLEAN, query : Query,
                loaded : BOOLEAN, of : Query]

GraphRecord == [mounted : BOOLEAN, tasks : SUBSET Task, loading : BOOLEAN, loaded : BOOLEAN,
                drawn : SUBSET Ids, render : Throttles, selected : [id : Ids \cup {0}, on : BOOLEAN]]

OnePerId(ts) == \A t, u \in ts : t.id = u.id => t = u

\* One view is there at most, and one that is not shows nothing.
ViewsInv ==
    /\ table \in TableRecord /\ graph \in GraphRecord /\ OnePerId(graph.tasks)
    /\ ~(table.mounted /\ graph.mounted)
    /\ ~table.mounted => table.rows = <<>> /\ ~table.loaded
    /\ ~graph.mounted => graph.tasks = {} /\ graph.selected = NoNode /\ ~graph.loaded

TypeInv == CallsInv /\ ServerInv /\ ViewsInv

\* The tasks of ts with the id.
Of(ts, id) == {t \in ts : t.id = id}

-----------------------------------------------------------------------------
(* Sequences without recursion.                                            *)

\* The members of a set of positions are counted by how many precede them.
LEMMA Ranks ==
    ASSUME NEW n \in Nat, NEW I \in SUBSET (1 .. n)
    PROVE  /\ IsFiniteSet(I) /\ Cardinality(I) \in Nat
           /\ \A j \in 1 .. Cardinality(I) : Nth(I, j) \in I
           /\ \A i \in I : \E j \in 1 .. Cardinality(I) : Nth(I, j) = i
           /\ \A j, k \in 1 .. Cardinality(I) : j < k => Nth(I, j) < Nth(I, k)
  <1> DEFINE upTo(i) == {k \in I : k <= i}
             rank == [i \in I |-> Cardinality(upTo(i))]
  <1>1. IsFiniteSet(I) /\ Cardinality(I) \in Nat
    <2>1. IsFiniteSet(1 .. n)
      BY FS_Interval
    <2> QED
      BY <2>1, FS_Subset, FS_CardinalityType
  <1>0. I \subseteq Nat
    OBVIOUS
  <1>2. \A i \in I : /\ IsFiniteSet(upTo(i)) /\ Cardinality(upTo(i)) \in 1 .. Cardinality(I)
    <2> TAKE i \in I
    <2>1. upTo(i) \in SUBSET I /\ i \in upTo(i)
      OBVIOUS
    <2>2. IsFiniteSet(upTo(i)) /\ Cardinality(upTo(i)) <= Cardinality(I)
      BY <1>1, <2>1, FS_Subset
    <2>3. Cardinality(upTo(i)) \in Nat /\ Cardinality(upTo(i)) # 0
      BY <2>1, <2>2, FS_CardinalityType, FS_EmptySet
    <2> QED
      BY <1>1, <2>2, <2>3
  <1>3. \A i, j \in I : i < j => Cardinality(upTo(i)) < Cardinality(upTo(j))
    <2> TAKE i, j \in I
    <2> HAVE i < j
    <2>1. upTo(i) \in SUBSET upTo(j) /\ j \in upTo(j) /\ j \notin upTo(i)
      <3>1. i \in Nat /\ j \in Nat /\ \A k \in I : k \in Nat
        BY <1>0
      <3>2. \A k \in I : k <= i => k <= j
        BY <3>1
      <3>3. ~(j <= i)
        BY <3>1
      <3>4. \A k \in upTo(i) : k \in upTo(j)
        BY <3>2
      <3>5. j \in upTo(j)
        BY <3>1
      <3>6. j \notin upTo(i)
        BY <3>3
      <3> HIDE DEF upTo
      <3> QED
        BY <3>4, <3>5, <3>6
    <2>2. Cardinality(upTo(i)) <= Cardinality(upTo(j)) /\ Cardinality(upTo(i)) # Cardinality(upTo(j))
      BY <1>2, <2>1, FS_Subset
    <2> QED
      BY <1>2, <2>2
  <1>4. \A i \in I : rank[i] = Cardinality(upTo(i))
    OBVIOUS
  <1>5. rank \in Injection(I, 1 .. Cardinality(I))
    <2>1. rank \in [I -> 1 .. Cardinality(I)]
      BY <1>2
    <2> HIDE DEF rank, upTo
    <2>2. \A i, j \in I : rank[i] = rank[j] => i = j
      <3> TAKE i, j \in I
      <3>1. i \in Nat /\ j \in Nat
        OBVIOUS
      <3>2. rank[i] \in Nat /\ rank[j] \in Nat
        BY <1>1, <2>1
      <3> QED
        BY <1>3, <1>4, <3>1, <3>2
    <2> QED
      BY <2>1, <2>2 DEF Injection, IsInjective
  <1>6. \A j \in 1 .. Cardinality(I) : \E i \in I : Cardinality(upTo(i)) = j
    <2>1. IsFiniteSet(1 .. Cardinality(I)) /\ Cardinality(1 .. Cardinality(I)) = Cardinality(I)
      BY <1>1, FS_Interval
    <2> HIDE DEF rank, upTo
    <2>2. rank \in Surjection(I, 1 .. Cardinality(I))
      BY <1>5, <2>1, FS_Injection
    <2> QED
      BY <1>4, <2>2 DEF Surjection
  <1>7. \A j \in 1 .. Cardinality(I) : Nth(I, j) \in I /\ Cardinality(upTo(Nth(I, j))) = j
    BY <1>6 DEF Nth
  <1>8. \A i, j \in I : Cardinality(upTo(i)) = Cardinality(upTo(j)) => i = j
    <2> HIDE DEF rank, upTo
    <2> QED
      BY <1>4, <1>5 DEF Injection, IsInjective
  <1>9. \A i \in I : \E j \in 1 .. Cardinality(I) : Nth(I, j) = i
    <2> TAKE i \in I
    <2> DEFINE j == Cardinality(upTo(i))
    <2>1. j \in 1 .. Cardinality(I)
      BY <1>2
    <2>2. Nth(I, j) \in I /\ Cardinality(upTo(Nth(I, j))) = j
      BY <1>7, <2>1
    <2> HIDE DEF upTo
    <2> QED
      BY <1>8, <2>1, <2>2
  <1>10. \A j, k \in 1 .. Cardinality(I) : j < k => Nth(I, j) < Nth(I, k)
    <2> TAKE j, k \in 1 .. Cardinality(I)
    <2> HAVE j < k
    <2>1. Nth(I, j) \in I /\ Nth(I, k) \in I /\ Nth(I, j) \in Nat /\ Nth(I, k) \in Nat
      BY <1>0, <1>7
    <2> HIDE DEF upTo
    <2>2. Nth(I, j) # Nth(I, k) /\ ~(Nth(I, k) < Nth(I, j))
      BY <1>1, <1>3, <1>7, <2>1
    <2> QED
      BY <2>1, <2>2
  <1> HIDE DEF upTo
  <1> QED
    BY <1>1, <1>7, <1>9, <1>10

\* A set of positions that is not empty has a first and a last one.
LEMMA FirstAndLast ==
    ASSUME NEW n \in Nat, NEW I \in SUBSET (1 .. n), I # {}
    PROVE  /\ \E i \in I : \A k \in I : i <= k
           /\ \E i \in I : \A k \in I : k <= i
  <1> DEFINE m == Cardinality(I)
  <1>1. m \in Nat /\ m # 0
    BY Ranks, FS_EmptySet
  <1>2. /\ 1 \in 1 .. m /\ m \in 1 .. m
        /\ Nth(I, 1) \in I /\ Nth(I, m) \in I
    <2>1. 1 \in 1 .. m /\ m \in 1 .. m
      BY <1>1
    <2>2. \A j \in 1 .. m : Nth(I, j) \in I
      BY Ranks
    <2> QED
      BY <2>1, <2>2
  <1>3. \A k \in I : Nth(I, 1) <= k /\ k <= Nth(I, m)
    <2> TAKE k \in I
    <2>1. PICK j \in 1 .. m : Nth(I, j) = k
      BY Ranks
    <2>2. (1 < j => Nth(I, 1) < k) /\ (j < m => k < Nth(I, m))
      <3>1. \A h, l \in 1 .. m : h < l => Nth(I, h) < Nth(I, l)
        BY Ranks
      <3> HIDE DEF m
      <3> QED
        BY <1>2, <2>1, <3>1
    <2>3. Nth(I, 1) \in Nat /\ Nth(I, m) \in Nat /\ k \in Nat
      <3>1. I \subseteq Nat
        OBVIOUS
      <3> QED
        BY <1>2, <3>1
    <2> HIDE DEF m
    <2> QED
      BY <1>1, <2>1, <2>2, <2>3
  <1> QED
    BY <1>2, <1>3

\* The elements of a list that are in a set keep their order.
LEMMA OnlyIs ==
    ASSUME NEW S, NEW ts \in Seq(S), NEW T
    PROVE  /\ Only(ts, T) \in Seq(S) /\ Len(Only(ts, T)) <= Len(ts)
           /\ ToSet(Only(ts, T)) = ToSet(ts) \cap T
           /\ Distinct(ts) => Distinct(Only(ts, T))
  <1> DEFINE I == {i \in DOMAIN ts : ts[i] \in T}
             m == Cardinality(I)
             os == [j \in 1 .. m |-> ts[Nth(I, j)]]
  <1>1. Len(ts) \in Nat /\ DOMAIN ts = 1 .. Len(ts) /\ \A i \in DOMAIN ts : ts[i] \in S
    OBVIOUS
  <1>2. I \in SUBSET (1 .. Len(ts)) /\ \A i \in I : i \in DOMAIN ts /\ ts[i] \in T
    BY <1>1
  <1>3. \A i \in DOMAIN ts : ts[i] \in T => i \in I
    OBVIOUS
  <1>4. Only(ts, T) = os
    BY DEF Only
  <1> HIDE DEF I
  <1>5. /\ m \in Nat
        /\ \A j \in 1 .. m : Nth(I, j) \in I
        /\ \A i \in I : \E j \in 1 .. m : Nth(I, j) = i
        /\ \A j, k \in 1 .. m : j < k => Nth(I, j) < Nth(I, k)
    BY <1>1, <1>2, Ranks
  <1>6. m <= Len(ts)
    <2>1. IsFiniteSet(1 .. Len(ts)) /\ Cardinality(1 .. Len(ts)) = Len(ts)
      BY <1>1, FS_Interval
    <2> QED
      BY <1>2, <2>1, FS_Subset
  <1> HIDE DEF m
  <1>7. /\ os \in Seq(S) /\ Len(os) = m /\ DOMAIN os = 1 .. m
        /\ \A j \in 1 .. m : os[j] = ts[Nth(I, j)]
    <2>1. \A j \in 1 .. m : ts[Nth(I, j)] \in S
      BY <1>1, <1>2, <1>5
    <2> QED
      BY <1>5, <2>1
  <1> HIDE DEF os
  <1>8. ToSet(os) = ToSet(ts) \cap T
    <2>1. ASSUME NEW t \in ToSet(os)
          PROVE  t \in ToSet(ts) /\ t \in T
      BY <1>2, <1>5, <1>7, <2>1 DEF ToSet
    <2>2. ASSUME NEW t \in ToSet(ts), t \in T
          PROVE  t \in ToSet(os)
      <3>1. PICK i \in DOMAIN ts : t = ts[i]
        BY DEF ToSet
      <3>2. PICK j \in 1 .. m : Nth(I, j) = i
        BY <1>3, <1>5, <2>2, <3>1
      <3> QED
        BY <1>7, <3>1, <3>2 DEF ToSet
    <2> QED
      BY <2>1, <2>2
  <1>9. ASSUME Distinct(ts)
        PROVE  Distinct(os)
    <2> SUFFICES ASSUME NEW j \in 1 .. m, NEW k \in 1 .. m, os[j].id = os[k].id
                 PROVE  j = k
      BY <1>7 DEF Distinct
    <2>1. Nth(I, j) \in DOMAIN ts /\ Nth(I, k) \in DOMAIN ts /\ Nth(I, j) = Nth(I, k)
      BY <1>2, <1>5, <1>7, <1>9 DEF Distinct
    <2>2. ~(j < k) /\ ~(k < j)
      BY <1>1, <1>5, <2>1
    <2> QED
      BY <1>5, <2>2
  <1> QED
    BY <1>4, <1>6, <1>7, <1>8, <1>9

-----------------------------------------------------------------------------
(* Lists of tasks.                                                         *)

\* The lists new and rows have the same rows for all tasks but one.
SameBut(new, rows, k) == \A id : id # k => Of(ToSet(new), id) = Of(ToSet(rows), id)

\* No two elements of a list have the id.
Single(ts, id) == \A i, j \in DOMAIN ts : ts[i].id = id /\ ts[j].id = id => i = j

\* A task has an id, a pause and a status.
LEMMA TaskShape == \A t \in Task : t.id \in Ids /\ t.isPaused \in BOOLEAN /\ t.status \in Statuses
  BY DEF Task

\* The elements, the set and the ids of a sequence of tasks (or of anything with an id).
LEMMA Elements ==
    ASSUME NEW S, NEW ts \in Seq(S)
    PROVE  /\ Len(ts) \in Nat /\ DOMAIN ts = 1 .. Len(ts)
           /\ \A i \in DOMAIN ts : ts[i] \in S /\ ts[i] \in ToSet(ts) /\ ts[i].id \in IdsOf(ts)
           /\ ToSet(ts) \subseteq S
           /\ \A t \in ToSet(ts) : \E i \in DOMAIN ts : t = ts[i]
           /\ \A id \in IdsOf(ts) : \E i \in DOMAIN ts : id = ts[i].id
           /\ \A id : id \in IdsOf(ts) <=> Of(ToSet(ts), id) # {}
  <1>1. Len(ts) \in Nat /\ DOMAIN ts = 1 .. Len(ts)
    OBVIOUS
  <1>2. \A i \in DOMAIN ts : ts[i] \in S /\ ts[i] \in ToSet(ts) /\ ts[i].id \in IdsOf(ts)
    BY <1>1 DEF ToSet, IdsOf
  <1> QED
    BY <1>1, <1>2 DEF ToSet, IdsOf, Of

\* Tasks are distinct when there are as many ids as tasks.
LEMMA CountedIds ==
    ASSUME NEW ts \in Seq(Task)
    PROVE  Distinct(ts) <=> Cardinality(IdsOf(ts)) = Len(ts)
  <1> DEFINE f == [i \in DOMAIN ts |-> ts[i].id]
  <1>1. Len(ts) \in Nat /\ DOMAIN ts = 1 .. Len(ts)
    OBVIOUS
  <1>2. IsFiniteSet(DOMAIN ts) /\ Cardinality(DOMAIN ts) = Len(ts)
    BY <1>1, FS_Interval, SMTT(30)
  <1>3. f \in Surjection(DOMAIN ts, IdsOf(ts))
    BY DEF Surjection, IdsOf
  <1>4. Cardinality(IdsOf(ts)) = Len(ts) <=> f \in Injection(DOMAIN ts, IdsOf(ts))
    <2> HIDE DEF f
    <2> QED
      BY <1>2, <1>3, FS_Surjection
  <1>5. f \in Injection(DOMAIN ts, IdsOf(ts)) <=> Distinct(ts)
    BY DEF Injection, IsInjective, Distinct, IdsOf
  <1> QED
    BY <1>4, <1>5

\* A sequence continued by another.
LEMMA ConcatIs ==
    ASSUME NEW S, NEW s \in Seq(S), NEW t \in Seq(S), NEW r, r = s \o t
    PROVE  /\ r \in Seq(S) /\ Len(r) = Len(s) + Len(t) /\ Len(s) \in Nat /\ Len(t) \in Nat
           /\ \A i \in 1 .. Len(s) : r[i] = s[i]
           /\ \A i \in 1 .. Len(t) : r[Len(s) + i] = t[i]
  <1>1. r \in Seq(S) /\ Len(r) = Len(s) + Len(t) /\ Len(s) \in Nat /\ Len(t) \in Nat
    OBVIOUS
  <1>2. \A i \in 1 .. Len(s) : r[i] = s[i]
    OBVIOUS
  <1>3. \A i \in 1 .. Len(t) : r[Len(s) + i] = t[i]
    OBVIOUS
  <1> QED
    BY <1>1, <1>2, <1>3
\* A part of a sequence.
LEMMA SubIs ==
    ASSUME NEW S, NEW s \in Seq(S), NEW a \in 1 .. Len(s) + 1, NEW b \in 0 .. Len(s), a <= b + 1, NEW r, r = SubSeq(s, a, b)
    PROVE  r \in Seq(S) /\ Len(r) = b - a + 1 /\ \A i \in 1 .. (b - a + 1) : r[i] = s[a + i - 1]
  OBVIOUS
\* A sequence without one of its elements.
LEMMA RemoveAtIs ==
    ASSUME NEW S, NEW s \in Seq(S), NEW i \in 1 .. Len(s), NEW r, r = RemoveAt(s, i)
    PROVE  /\ r \in Seq(S) /\ Len(r) = Len(s) - 1 /\ Len(s) \in Nat
           /\ \A k \in 1 .. (Len(s) - 1) : r[k] = IF k < i THEN s[k] ELSE s[k + 1]
  <1>1. PICK head \in Seq(S) : head = SubSeq(s, 1, i - 1)
    <2>1. SubSeq(s, 1, i - 1) \in Seq(S)
      OBVIOUS
    <2> QED
      BY <2>1
  <1>2. PICK tail \in Seq(S) : tail = SubSeq(s, i + 1, Len(s))
    <2>1. SubSeq(s, i + 1, Len(s)) \in Seq(S)
      OBVIOUS
    <2> QED
      BY <2>1
  <1>3. Len(head) = i - 1 /\ \A k \in 1 .. (i - 1) : head[k] = s[k]
    BY <1>1
  <1>7. Len(tail) = Len(s) - i /\ \A k \in 1 .. (Len(s) - i) : tail[k] = s[i + k]
    BY <1>2
  <1>8. r = head \o tail
    BY <1>1, <1>2 DEF RemoveAt
  <1>4. /\ r \in Seq(S) /\ Len(r) = Len(head) + Len(tail)
        /\ \A k \in 1 .. Len(head) : r[k] = head[k]
        /\ \A k \in 1 .. Len(tail) : r[Len(head) + k] = tail[k]
    BY <1>8, ConcatIs
  <1>5. ASSUME NEW k \in 1 .. (Len(s) - 1)
        PROVE  r[k] = IF k < i THEN s[k] ELSE s[k + 1]
    <2>1. CASE k < i
      BY <1>3, <1>4, <2>1
    <2>2. CASE ~(k < i)
      <3>1. k - (i - 1) \in 1 .. (Len(s) - i) /\ i - 1 + (k - (i - 1)) = k /\ i + (k - (i - 1)) = k + 1
        BY <2>2
      <3>2. r[i - 1 + (k - (i - 1))] = tail[k - (i - 1)] /\ tail[k - (i - 1)] = s[i + (k - (i - 1))]
        BY <1>3, <1>7, <1>4, <3>1
      <3> QED
        BY <2>2, <3>1, <3>2
    <2> QED
      BY <2>1, <2>2
  <1> QED
    BY <1>3, <1>7, <1>4, <1>5

\* The first row of a task, or none.
LEMMA FirstRowIs ==
    ASSUME NEW rows \in Seq(Task), NEW id, NEW i, i = FirstRow(rows, id)
    PROVE  /\ i = 0 <=> id \notin IdsOf(rows)
           /\ i # 0 => i \in DOMAIN rows /\ rows[i].id = id
  <1> DEFINE I == {k \in 1 .. Len(rows) : rows[k].id = id}
  <1>1. i = IF I # {} THEN Min(I) ELSE 0
    BY DEF FirstRow, SelectInSeq
  <1>2. Len(rows) \in Nat /\ DOMAIN rows = 1 .. Len(rows)
    OBVIOUS
  <1>3. I # {} <=> id \in IdsOf(rows)
    BY <1>2 DEF IdsOf
  <1>4. CASE I # {}
    <2>1. \E x \in I : \A y \in I : x <= y
      <3>1. I \in SUBSET (1 .. Len(rows))
        OBVIOUS
      <3> HIDE DEF I
      <3> QED
        BY <1>2, <1>4, <3>1, FirstAndLast
    <2>2. i \in I
      <3> HIDE DEF I
      <3> QED
        BY <1>1, <1>4, <2>1 DEF Min
    <2> QED
      BY <1>2, <1>3, <1>4, <2>2
  <1>5. CASE I = {}
    BY <1>1, <1>3, <1>5
  <1> QED
    BY <1>4, <1>5

\* The rows after the event of an update: those of the task are the first row with its id.
LEMMA UpdatedIs ==
    ASSUME NEW rows \in Seq(Task), NEW t \in Task, NEW new, new = taskUpdated(rows, t)
    PROVE  /\ new \in Seq(Task) /\ DOMAIN new = DOMAIN rows /\ IdsOf(new) = IdsOf(rows)
           /\ \A id : Single(rows, id) => Single(new, id)
           /\ SameBut(new, rows, t.id)
           /\ Single(rows, t.id) =>
                  Of(ToSet(new), t.id) = IF t.id \in IdsOf(rows) THEN {t} ELSE {}
  <1> DEFINE i == FirstRow(rows, t.id)
  <1>1. CASE i = 0
    <2>1. new = rows /\ t.id \notin IdsOf(rows)
      BY <1>1, FirstRowIs DEF taskUpdated
    <2> QED
      BY <2>1, Elements DEF SameBut
  <1>2. CASE i # 0
    <2>1. i \in DOMAIN rows /\ rows[i].id = t.id /\ new = [rows EXCEPT ![i] = t]
      BY <1>2, FirstRowIs DEF taskUpdated, ReplaceAt
    <2> HIDE DEF i
    <2>2. new \in Seq(Task) /\ DOMAIN new = DOMAIN rows /\ new[i] = t
          /\ \A k \in DOMAIN rows : k # i => new[k] = rows[k]
      BY <2>1
    <2>3. \A k \in DOMAIN rows : new[k].id = rows[k].id
      BY <2>1, <2>2
    <2>4. IdsOf(new) = IdsOf(rows) /\ t.id \in IdsOf(rows)
      BY <2>1, <2>2, <2>3 DEF IdsOf
    <2>5. ASSUME NEW id, id # t.id
          PROVE  Of(ToSet(new), id) = Of(ToSet(rows), id)
      BY <2>1, <2>2, <2>3, <2>5 DEF Of, ToSet
    <2>6. ASSUME Single(rows, t.id)
          PROVE  Of(ToSet(new), t.id) = {t}
      BY <2>1, <2>2, <2>3, <2>6 DEF Of, ToSet, Single
    <2>7. ASSUME NEW id, Single(rows, id)
          PROVE  Single(new, id)
      BY <2>2, <2>3, <2>7 DEF Single
    <2> QED
      BY <2>2, <2>4, <2>5, <2>6, <2>7 DEF SameBut
  <1> QED
    BY <1>1, <1>2

\* The rows after the event of a deletion.
LEMMA DeletedIs ==
    ASSUME NEW rows \in Seq(Task), NEW t \in Task, NEW new, new = taskDeleted(rows, t)
    PROVE  /\ new \in Seq(Task) /\ IdsOf(new) \subseteq IdsOf(rows)
           /\ SameBut(new, rows, t.id)
           /\ Single(rows, t.id) => Of(ToSet(new), t.id) = {}
           /\ \A id : Single(rows, id) => Single(new, id)
  <1> DEFINE i == FirstRow(rows, t.id)
             n == Len(rows)
  <1>1. CASE i = 0
    <2>1. new = rows /\ t.id \notin IdsOf(rows)
      BY <1>1, FirstRowIs DEF taskDeleted
    <2> QED
      BY <2>1, Elements DEF SameBut
  <1>2. CASE i # 0
    <2>1. /\ i \in DOMAIN rows /\ rows[i].id = t.id
          /\ new = SubSeq(rows, 1, i - 1) \o SubSeq(rows, i + 1, Len(rows))
      BY <1>2, FirstRowIs DEF taskDeleted, RemoveAt
    <2> HIDE DEF i
    <2>2. n \in Nat /\ i \in 1 .. n /\ DOMAIN rows = 1 .. n
      BY <2>1
    <2>3. /\ new \in Seq(Task) /\ DOMAIN new = 1 .. (n - 1)
          /\ \A k \in 1 .. (n - 1) : new[k] = IF k < i THEN rows[k] ELSE rows[k + 1]
      <3>1. /\ new \in Seq(Task) /\ Len(new) = n - 1
            /\ \A k \in 1 .. (n - 1) : new[k] = IF k < i THEN rows[k] ELSE rows[k + 1]
        BY <2>1, <2>2, RemoveAtIs, ZenonT(30) DEF RemoveAt
      <3> QED
        BY <2>2, <3>1
    <2> HIDE DEF n
    <2>4. \A k \in DOMAIN rows : k # i => \E j \in DOMAIN new : new[j] = rows[k]
      <3> TAKE k \in DOMAIN rows
      <3> HAVE k # i
      <3>1. CASE k < i
        <4>1. k \in 1 .. (n - 1)
          BY <2>2, <3>1
        <4> QED
          BY <2>3, <3>1, <4>1
      <3>2. CASE k > i
        <4>1. k - 1 \in 1 .. (n - 1) /\ ~(k - 1 < i) /\ k - 1 + 1 = k
          BY <2>2, <3>2
        <4> QED
          BY <2>3, <4>1
      <3> QED
        BY <2>2, <3>1, <3>2
    <2>5. \A j \in DOMAIN new : \E k \in DOMAIN rows : k # i /\ new[j] = rows[k]
      BY <2>2, <2>3
    <2>6. ASSUME NEW id, id # t.id
          PROVE  Of(ToSet(new), id) = Of(ToSet(rows), id)
      <3>1. \A u \in ToSet(rows) : u.id = id => u \in ToSet(new)
        BY <2>1, <2>4, <2>6 DEF ToSet
      <3>2. \A u \in ToSet(new) : u \in ToSet(rows)
        BY <2>5 DEF ToSet
      <3> QED
        BY <3>1, <3>2 DEF Of
    <2>7. ASSUME Single(rows, t.id)
          PROVE  Of(ToSet(new), t.id) = {}
      <3>1. \A j \in DOMAIN new : new[j].id # t.id
        BY <2>1, <2>5, <2>7 DEF Single
      <3> QED
        BY <3>1 DEF Of, ToSet
    <2>8. ASSUME NEW id, Single(rows, id)
          PROVE  Single(new, id)
      <3> SUFFICES ASSUME NEW j \in DOMAIN new, NEW k \in DOMAIN new,
                          new[j].id = id, new[k].id = id
                   PROVE  j = k
        BY DEF Single
      <3> DEFINE J == IF j < i THEN j ELSE j + 1
                 K == IF k < i THEN k ELSE k + 1
      <3>1. J \in DOMAIN rows /\ K \in DOMAIN rows /\ new[j] = rows[J] /\ new[k] = rows[K]
        BY <2>2, <2>3
      <3>2. J = K
        BY <2>8, <3>1 DEF Single
      <3> QED
        BY <2>2, <2>3, <3>2
    <2>9. IdsOf(new) \subseteq IdsOf(rows)
      BY <2>5 DEF IdsOf
    <2> QED
      BY <2>3, <2>6, <2>7, <2>8, <2>9 DEF SameBut
  <1> QED
    BY <1>1, <1>2

\* The rows after the event of a creation, when the task is appended.
LEMMA AppendIs ==
    ASSUME NEW rows \in Seq(Task), NEW t \in Task, NEW new, new = Append(rows, t)
    PROVE  /\ new \in Seq(Task) /\ IdsOf(new) = IdsOf(rows) \cup {t.id} /\ new # rows
           /\ SameBut(new, rows, t.id)
           /\ Of(ToSet(new), t.id) = Of(ToSet(rows), t.id) \cup {t}
           /\ \A id : Single(rows, id) /\ (id = t.id => id \notin IdsOf(rows)) => Single(new, id)
           /\ Distinct(rows) /\ t.id \notin IdsOf(rows) => Distinct(new)
  <1>1. /\ new \in Seq(Task) /\ Len(rows) \in Nat /\ DOMAIN rows = 1 .. Len(rows)
        /\ DOMAIN new = 1 .. (Len(rows) + 1) /\ Len(new) = Len(rows) + 1
        /\ \A i \in DOMAIN rows : new[i] = rows[i]
        /\ new[Len(rows) + 1] = t
    OBVIOUS
  <1>2. DOMAIN new = DOMAIN rows \cup {Len(rows) + 1}
    BY <1>1
  <1>3. ToSet(new) = ToSet(rows) \cup {t} /\ IdsOf(new) = IdsOf(rows) \cup {t.id}
    BY <1>1, <1>2 DEF ToSet, IdsOf
  <1>4. new # rows
    <2>1. Len(new) = Len(rows) + 1 /\ Len(rows) \in Nat
      BY <1>1, Zenon
    <2> QED
      BY <2>1
  <1>5. ASSUME NEW id, Single(rows, id), id = t.id => id \notin IdsOf(rows)
        PROVE  Single(new, id)
    BY <1>1, <1>2, <1>5 DEF Single, IdsOf
  <1>6. ASSUME Distinct(rows), t.id \notin IdsOf(rows)
        PROVE  Distinct(new)
    BY <1>1, <1>2, <1>6 DEF Distinct, IdsOf
  <1> QED
    BY <1>1, <1>3, <1>4, <1>5, <1>6 DEF Of, SameBut

-----------------------------------------------------------------------------
(* The tasks of the server after events.                                   *)

\* Events that a handler emits at once: numbered, about different tasks, each of which the
\* group has; a creation is the only event of its handler.
AreEmitted(es) ==
    /\ es \in Seq(Event)
    /\ \A i, j \in DOMAIN es : es[i].task.id = es[j].task.id => i = j
    /\ \A i \in DOMAIN es :
          /\ es[i].at = events + i
          /\ IF es[i].type = "create" THEN Len(es) = 1 /\ es[i].task.id \notin IdsOf(stored)
             ELSE es[i].task.id \in IdsOf(stored)

\* An event has a type, a task with an id and a number.
LEMMA EventShape ==
    \A e \in Event : e.type \in {"create", "update", "delete"} /\ e.task \in Task /\ e.at \in Nat
                     /\ e.task.id \in Ids
  BY TaskShape DEF Event

\* The tasks rr are what events es leave of the tasks ss.
TasksAfter(ss, es, rr) ==
    /\ \A id : (\A e \in ToSet(es) : e.task.id # id) => Of(rr, id) = Of(ss, id)
    /\ \A e \in ToSet(es) : Of(rr, e.task.id) = IF e.type = "delete" THEN {} ELSE {e.task}

\* What the events of a handler leave of the list of tasks at the server.
LEMMA AfterIs ==
    ASSUME stored \in Seq(Task), Distinct(stored), NEW es, AreEmitted(es),
           NEW new, new = After(stored, es)
    PROVE  /\ new \in Seq(Task) /\ Distinct(new)
           /\ TasksAfter(ToSet(stored), es, ToSet(new))
  <1> DEFINE about(t) == {e \in ToSet(es) : e.task.id = t.id}
             stay == {t \in Task : \A e \in about(t) : e.type # "delete"}
             left == Only(stored, stay)
             now(t) == IF about(t) = {} THEN t ELSE (CHOOSE e \in about(t) : TRUE).task
  <1>1. new = IF \E e \in ToSet(es) : e.type = "create" THEN Append(stored, es[1].task)
              ELSE [i \in DOMAIN left |-> now(left[i])]
    BY DEF After
  <1>2. /\ es \in Seq(Event)
        /\ \A e \in ToSet(es) : e \in Event /\ e.task \in Task
        /\ \A e, f \in ToSet(es) : e.task.id = f.task.id => e = f
    <2>1. es \in Seq(Event)
      BY DEF AreEmitted
    <2>2. \A e \in ToSet(es) : e \in Event
      BY <2>1, Elements
    <2>3. \A e, f \in ToSet(es) : e.task.id = f.task.id => e = f
      BY DEF AreEmitted, ToSet
    <2> QED
      BY <2>1, <2>2, <2>3, EventShape
  <1>3. \A e \in ToSet(es) :
           IF e.type = "create" THEN ToSet(es) = {e} /\ es[1] = e /\ e.task.id \notin IdsOf(stored)
           ELSE e.task.id \in IdsOf(stored)
    <2> TAKE e \in ToSet(es)
    <2>1. PICK i \in DOMAIN es : e = es[i]
      BY DEF ToSet
    <2>2. CASE e.type = "create"
      <3>1. Len(es) = 1 /\ e.task.id \notin IdsOf(stored)
        BY <2>1, <2>2 DEF AreEmitted
      <3>2. DOMAIN es = {1}
        BY <1>2, <3>1
      <3> QED
        BY <2>1, <2>2, <3>1, <3>2 DEF ToSet
    <2>3. CASE e.type # "create"
      BY <2>1, <2>3 DEF AreEmitted
    <2> QED
      BY <2>2, <2>3
  <1>4. CASE \E e \in ToSet(es) : e.type = "create"
    <2>1. PICK e \in ToSet(es) : e.type = "create"
      BY <1>4
    <2>2. ToSet(es) = {e} /\ new = Append(stored, e.task) /\ e.task.id \notin IdsOf(stored)
      BY <1>1, <1>3, <2>1
    <2>3. Of(ToSet(stored), e.task.id) = {}
      BY <2>2, Elements
    <2>4. /\ new \in Seq(Task) /\ Distinct(new)
          /\ \A id : id # e.task.id => Of(ToSet(new), id) = Of(ToSet(stored), id)
          /\ Of(ToSet(new), e.task.id) = Of(ToSet(stored), e.task.id) \cup {e.task}
      <3>1. e.task \in Task /\ new = Append(stored, e.task) /\ e.task.id \notin IdsOf(stored)
        BY <1>2, <2>2
      <3> HIDE DEF about, stay, left, now
      <3> QED
        BY <3>1, AppendIs DEF SameBut
    <2> QED
      BY <2>1, <2>2, <2>3, <2>4 DEF TasksAfter
  <1>5. CASE \A e \in ToSet(es) : e.type # "create"
    <2>1. /\ left \in Seq(Task) /\ Distinct(left)
          /\ ToSet(left) = ToSet(stored) \cap stay
      BY OnlyIs
    <2>2. \A t \in ToSet(stored) : t \in Task
      BY Elements
    <2>3. \A t : about(t) \subseteq ToSet(es) /\ \A e \in about(t) : e.task.id = t.id
      OBVIOUS
    <2>4. \A t, e : e \in ToSet(es) /\ e.task.id = t.id => about(t) = {e}
      BY <1>2
    <2>5. \A t : about(t) = {} \/ \E e \in ToSet(es) : e.task.id = t.id /\ about(t) = {e}
      BY <2>3, <2>4
    <2>6. \A t \in ToSet(stored) :
             t \in ToSet(left) <=> \A e \in ToSet(es) : e.task.id = t.id => e.type # "delete"
      BY <2>1, <2>2
    <2>7. \A t \in Task : /\ now(t) \in Task /\ now(t).id = t.id
                          /\ (\A e \in ToSet(es) : e.task.id # t.id) => now(t) = t
                          /\ \A e \in ToSet(es) : e.task.id = t.id => now(t) = e.task
      <3> TAKE t \in Task
      <3>1. CASE about(t) = {}
        BY <3>1
      <3>2. CASE about(t) # {}
        <4>1. PICK e \in ToSet(es) : e.task.id = t.id /\ about(t) = {e}
          BY <2>5, <3>2
        <4>2. now(t) = e.task
          BY <4>1
        <4> HIDE DEF about, now
        <4> QED
          BY <1>2, <4>1, <4>2
      <3> QED
        BY <3>1, <3>2
    <2> HIDE DEF about, stay, now
    <2>8. new = [i \in DOMAIN left |-> now(left[i])]
      BY <1>1, <1>5
    <2> HIDE DEF left
    <2>9. /\ DOMAIN left = 1 .. Len(left) /\ Len(left) \in Nat
          /\ \A i \in DOMAIN left : left[i] \in Task /\ left[i] \in ToSet(left)
      BY <2>1, Elements
    <2>10. /\ new \in Seq(Task) /\ DOMAIN new = DOMAIN left
           /\ \A i \in DOMAIN left : new[i] = now(left[i]) /\ new[i].id = left[i].id
      BY <2>7, <2>8, <2>9
    <2>11. Distinct(new)
      BY <2>1, <2>10 DEF Distinct
    <2>12. ToSet(new) = {now(t) : t \in ToSet(left)}
      BY <2>10 DEF ToSet
    <2>13. ToSet(left) \subseteq ToSet(stored)
      BY <2>1
    <2>14. ASSUME NEW id, \A e \in ToSet(es) : e.task.id # id
           PROVE  Of(ToSet(new), id) = Of(ToSet(stored), id)
      BY <2>2, <2>6, <2>7, <2>12, <2>13, <2>14 DEF Of
    <2>15. ASSUME NEW e \in ToSet(es)
           PROVE  Of(ToSet(new), e.task.id) = IF e.type = "delete" THEN {} ELSE {e.task}
      <3>1. PICK t \in ToSet(stored) : t.id = e.task.id
        BY <1>3, <1>5, Elements DEF Of
      <3>2. \A u \in ToSet(stored) : u.id = t.id => u = t
        BY DEF Distinct, ToSet
      <3>3. CASE e.type = "delete"
        BY <2>2, <2>6, <2>7, <2>12, <2>13, <3>1, <3>2, <3>3 DEF Of
      <3>4. CASE e.type # "delete"
        <4>1. t \in ToSet(left) /\ now(t) = e.task
          BY <1>2, <2>2, <2>6, <2>7, <3>1, <3>4
        <4> QED
          BY <2>2, <2>7, <2>12, <2>13, <3>1, <3>2, <3>4, <4>1 DEF Of
      <3> QED
        BY <3>3, <3>4
    <2> QED
      BY <2>10, <2>11, <2>14, <2>15 DEF TasksAfter
  <1> QED
    BY <1>4, <1>5

\* A page of the list has tasks of the server, each once; the page of all has all.
LEMMA ListedIs ==
    ASSUME stored \in Seq(Task), Distinct(stored), NEW q \in Query, NEW ts, ts = Listed(q)
    PROVE  /\ ts \in Seq(Task) /\ Distinct(ts) /\ ToSet(ts) \subseteq ToSet(stored)
           /\ q = All => ToSet(ts) = ToSet(stored)
  <1> DEFINE T == {t \in Task : /\ q.search => t.id \in Found
                                /\ q.skip => t.status # "done"}
             hits == Only(stored, T)
             n == Len(hits)
             size == IF q.size = 0 THEN n ELSE q.size
             a == (q.page - 1) * size + 1
             b == IF q.page * size < n THEN q.page * size ELSE n
  <1>1. ts = SubSeq(hits, a, b)
    BY DEF Listed
  <1>2. hits \in Seq(Task) /\ Distinct(hits) /\ ToSet(hits) = ToSet(stored) \cap T
    BY OnlyIs
  <1>3. n \in Nat /\ DOMAIN hits = 1 .. n /\ \A i \in 1 .. n : hits[i] \in Task
    BY <1>2, Elements, ZenonT(30)
  <1>4. q.page \in Nat \ {0} /\ size \in Nat
    BY <1>3 DEF Query
  <1>5. a \in Nat \ {0} /\ b \in 0 .. n
    <2> HIDE DEF n, size
    <2>1. q.page * size \in Nat /\ (q.page - 1) * size \in Nat
      BY <1>4
    <2> QED
      BY <1>3, <2>1
  <1> HIDE DEF a, b
  <1>6. /\ ts \in Seq(Task) /\ Len(ts) = (IF a <= b THEN b - a + 1 ELSE 0)
        /\ \A i \in 1 .. b - a + 1 : ts[i] = hits[a + i - 1]
    <2>1. a \in Int /\ b \in Int /\ \A i \in a .. b : hits[i] \in Task
      <3> HIDE DEF hits, n
      <3>1. \A i \in a .. b : i \in 1 .. n
        BY <1>3, <1>5
      <3> QED
        BY <1>3, <1>5, <3>1
    <2> QED
      BY <1>1, <2>1, SubSeqProperties
  <1> HIDE DEF hits, n
  <1>7. \A i \in DOMAIN ts : a + i - 1 \in DOMAIN hits /\ ts[i] = hits[a + i - 1]
    <2> TAKE i \in DOMAIN ts
    <2>1. a <= b /\ i \in 1 .. b - a + 1
      BY <1>5, <1>6
    <2> QED
      BY <1>3, <1>5, <1>6, <2>1
  <1>8. Distinct(ts)
    <2> SUFFICES ASSUME NEW i \in DOMAIN ts, NEW j \in DOMAIN ts, ts[i].id = ts[j].id
                 PROVE  i = j
      BY DEF Distinct
    <2>1. a + i - 1 = a + j - 1
      BY <1>2, <1>7 DEF Distinct
    <2> QED
      BY <1>5, <1>6, <2>1
  <1>9. ToSet(ts) \subseteq ToSet(stored)
    BY <1>2, <1>7 DEF ToSet
  <1>10. ASSUME q = All
         PROVE  ToSet(ts) = ToSet(stored)
    <2>1. q.page = 1 /\ q.size = 0 /\ ~q.search /\ ~q.skip
      BY <1>10 DEF All
    <2>2. ToSet(hits) = ToSet(stored)
      <3>1. ToSet(stored) \subseteq Task
        BY Elements
      <3> QED
        BY <1>2, <2>1, <3>1
    <2>3. a = 1 /\ b = n
      BY <1>3, <2>1 DEF a, b
    <2>4. \A i \in DOMAIN hits : i \in DOMAIN ts /\ ts[i] = hits[i]
      <3> TAKE i \in DOMAIN hits
      <3>1. i \in 1 .. n /\ Len(ts) = n /\ i \in 1 .. b - a + 1 /\ a + i - 1 = i
        BY <1>3, <1>6, <2>3
      <3> QED
        BY <1>6, <3>1
    <2> QED
      BY <1>9, <2>2, <2>4, ZenonT(30) DEF ToSet
  <1> QED
    BY <1>6, <1>8, <1>9, <1>10

-----------------------------------------------------------------------------
(* The calls in flight.                                                    *)

\* d is call c later: nothing of it is shown that was not, and it has had more news.
Aged(c, d) ==
    /\ d \in Call
    /\ d.no = c.no /\ d.what = c.what /\ d.by = c.by /\ d.query = c.query /\ d.task = c.task
    /\ d.served = c.served /\ d.answer = c.answer /\ d.at = c.at /\ d.then = c.then
    /\ d.on => c.on
    /\ c.news \subseteq d.news

\* A call that is made now.
Fresh(d) ==
    /\ d \in Call /\ ~d.served /\ d.answer = <<>> /\ d.at = 0
    /\ \A c \in calls : Key(c) # Key(d)
    /\ d.what \in OfTask => d.task \in Task
    /\ d.by = "page" <=> d.what \in OfGroup
    /\ d.by = "graph" /\ d.what = "load" => d.query = All
    /\ d.what = "create" => d.task.id \notin IdsOf(stored) \cup IdsGiven

\* Calls stay calls as they age, and keep what tells them apart.
LEMMA AgedIsReflexive == \A c \in Call : Aged(c, c)
  BY DEF Aged, Call

LEMMA AgedIsTransitive ==
    ASSUME NEW b, NEW c, NEW d, Aged(b, c), Aged(c, d)
    PROVE  Aged(b, d)
  BY DEF Aged

LEMMA AgedKey ==
    ASSUME NEW c, NEW d, Aged(c, d)
    PROVE  Key(d) = Key(c)
  BY DEF Aged, Key

\* Calls in flight: fewer of them, one more of another key, all of them changed alike.
LEMMA FewerCallsOK ==
    ASSUME NEW cs, CallsOK(cs), NEW ds \in SUBSET cs
    PROVE  CallsOK(ds)
  BY FS_Subset DEF CallsOK, Keyed

LEMMA MoreCallsOK ==
    ASSUME NEW cs, CallsOK(cs), NEW c \in Call, \A d \in cs : Key(d) # Key(c)
    PROVE  CallsOK(cs \cup {c})
  <1>1. IsFiniteSet(cs \cup {c})
    BY FS_AddElement DEF CallsOK
  <1> QED
    BY <1>1 DEF CallsOK, Keyed

LEMMA ImageOfCallsOK ==
    ASSUME NEW cs, CallsOK(cs), NEW f, DOMAIN f = cs,
           \A c \in cs : f[c] \in Call /\ Key(f[c]) = Key(c),
           NEW ds, ds = {f[c] : c \in cs}
    PROVE  CallsOK(ds)
  <1> DEFINE g == [c \in cs |-> f[c]]
  <1>1. g \in Surjection(cs, ds)
    BY DEF Surjection
  <1>2. IsFiniteSet(ds)
    <2> HIDE DEF g
    <2> QED
      BY <1>1, FS_Surjection DEF CallsOK
  <1>3. ds \subseteq Call /\ Keyed(ds)
    BY DEF CallsOK, Keyed
  <1> QED
    BY <1>2, <1>3 DEF CallsOK

\* A call whose answer is shown no more, and one with more news.
LEMMA OffCall ==
    ASSUME NEW c \in Call
    PROVE  Aged(c, [c EXCEPT !.on = FALSE]) /\ ~[c EXCEPT !.on = FALSE].on
  BY DEF Aged, Call

LEMMA CallWithNews ==
    ASSUME NEW c \in Call, NEW ids \in SUBSET Ids
    PROVE  /\ Aged(c, [c EXCEPT !.news = @ \cup ids])
           /\ [c EXCEPT !.news = @ \cup ids].on = c.on
           /\ [c EXCEPT !.news = @ \cup ids].news = c.news \cup ids
  BY DEF Aged, Call

\* Calls after news of some tasks: those that have seen less have the news now.
LEMMA WithNewsIs ==
    ASSUME NEW cs, CallsOK(cs), NEW ids \in SUBSET Ids, NEW n, NEW ds, ds = WithNews(cs, ids, n)
    PROVE  /\ CallsOK(ds)
           /\ \A d \in ds : \E c \in cs :
                 /\ Aged(c, d)
                 /\ d.on = c.on
                 /\ IF c.served /\ Shows(c) /\ c.at < n THEN d.news = c.news \cup ids ELSE d = c
  <1> DEFINE New(c) == IF c.served /\ Shows(c) /\ c.at < n
                       THEN [c EXCEPT !.news = @ \cup ids] ELSE c
             f == [c \in cs |-> New(c)]
  <1>1. \A c \in cs : /\ Aged(c, New(c)) /\ New(c).on = c.on
                      /\ IF c.served /\ Shows(c) /\ c.at < n
                         THEN New(c).news = c.news \cup ids ELSE New(c) = c
    <2> TAKE c \in cs
    <2>1. c \in Call
      BY DEF CallsOK
    <2> QED
      BY <2>1, CallWithNews, AgedIsReflexive
  <1>2. ds = {New(c) : c \in cs}
    BY DEF WithNews
  <1> HIDE DEF New
  <1>3. \A c \in cs : f[c] \in Call /\ Key(f[c]) = Key(c)
    BY <1>1, AgedKey DEF Aged
  <1>4. ds = {f[c] : c \in cs} /\ DOMAIN f = cs
    BY <1>2
  <1> HIDE DEF f
  <1>5. CallsOK(ds)
    BY <1>3, <1>4, ImageOfCallsOK
  <1> QED
    BY <1>1, <1>2, <1>5

\* Calls that are changed one by one and stay what they were asked for.
LEMMA AgedCallsAre ==
    ASSUME NEW cs, CallsOK(cs), NEW f, DOMAIN f = cs, \A c \in cs : Aged(c, f[c]),
           NEW ds, ds = {f[c] : c \in cs}
    PROVE  CallsOK(ds) /\ \A d \in ds : \E c \in cs : Aged(c, d)
  <1>1. \A c \in cs : f[c] \in Call /\ Key(f[c]) = Key(c)
    BY AgedKey DEF Aged
  <1> QED
    BY <1>1, ImageOfCallsOK

\* Calls after objects of the graph were replaced.
LEMMA DetachedIs ==
    ASSUME NEW cs, CallsOK(cs), NEW ids, NEW ds, ds = Detached(cs, ids)
    PROVE  CallsOK(ds) /\ \A d \in ds : \E c \in cs : Aged(c, d)
  <1> DEFINE Off(c) == IF c.by = "graph" /\ c.what \in OfObject /\ c.task.id \in ids
                       THEN [c EXCEPT !.on = FALSE] ELSE c
             f == [c \in cs |-> Off(c)]
  <1>1. \A c \in cs : Aged(c, Off(c))
    <2> TAKE c \in cs
    <2>1. c \in Call
      BY DEF CallsOK
    <2> QED
      BY <2>1, OffCall, AgedIsReflexive
  <1>2. ds = {Off(c) : c \in cs}
    BY DEF Detached
  <1> HIDE DEF Off
  <1>3. ds = {f[c] : c \in cs} /\ DOMAIN f = cs /\ \A c \in cs : Aged(c, f[c])
    BY <1>1, <1>2
  <1> HIDE DEF f
  <1> QED
    BY <1>3, AgedCallsAre

\* Calls after the rows were replaced by n others.
LEMMA RowsReplacedIs ==
    ASSUME NEW cs, CallsOK(cs), NEW n, NEW ds, ds = RowsReplaced(cs, n)
    PROVE  CallsOK(ds) /\ \A d \in ds : \E c \in cs : Aged(c, d)
  <1> DEFINE Off(c) == IF c.row # 0 /\ (c.what \in OfObject \/ c.row > n)
                       THEN [c EXCEPT !.on = FALSE] ELSE c
             f == [c \in cs |-> Off(c)]
  <1>1. \A c \in cs : Aged(c, Off(c))
    <2> TAKE c \in cs
    <2>1. c \in Call
      BY DEF CallsOK
    <2> QED
      BY <2>1, OffCall, AgedIsReflexive
  <1>2. ds = {Off(c) : c \in cs}
    BY DEF RowsReplaced
  <1> HIDE DEF Off
  <1>3. ds = {f[c] : c \in cs} /\ DOMAIN f = cs /\ \A c \in cs : Aged(c, f[c])
    BY <1>1, <1>2
  <1> HIDE DEF f
  <1> QED
    BY <1>3, AgedCallsAre

\* Calls after row k has gone: those that go to objects below it move up.
LEMMA RowRemovedIs ==
    ASSUME NEW cs, CallsOK(cs), NEW k \in Nat, NEW n, NEW ds, ds = RowRemoved(cs, k, n)
    PROVE  CallsOK(ds) /\ \A d \in ds : \E c \in cs : Aged(c, d)
  <1> DEFINE Moved(c) == CASE c.what \in OfObject /\ c.row = k -> [c EXCEPT !.on = FALSE]
                           [] c.what \in OfObject /\ c.row > k -> [c EXCEPT !.row = @ - 1]
                           [] c.what \notin OfObject /\ c.row > n -> [c EXCEPT !.on = FALSE]
                           [] OTHER -> c
             f == [c \in cs |-> Moved(c)]
  <1>1. \A c \in cs : Aged(c, Moved(c))
    <2> TAKE c \in cs
    <2>1. c \in Call /\ c.row \in Nat
      BY DEF CallsOK, Call
    <2>2. Moved(c) = c \/ Moved(c) = [c EXCEPT !.on = FALSE]
          \/ (c.row > k /\ Moved(c) = [c EXCEPT !.row = @ - 1])
      BY DEF OfObject
    <2> HIDE DEF Moved
    <2>3. CASE Moved(c) = c
      BY <2>1, <2>3, AgedIsReflexive
    <2>4. CASE Moved(c) = [c EXCEPT !.on = FALSE]
      <3>1. Aged(c, [c EXCEPT !.on = FALSE])
        BY <2>1, OffCall
      <3> QED
        BY <2>4, <3>1, Zenon
    <2>5. CASE c.row > k /\ Moved(c) = [c EXCEPT !.row = @ - 1]
      <3>1. c.row - 1 \in Nat
        BY <2>1, <2>5
      <3> QED
        BY <2>1, <2>5, <3>1 DEF Aged, Call
    <2> QED
      BY <2>2, <2>3, <2>4, <2>5
  <1>2. ds = {Moved(c) : c \in cs}
    BY DEF RowRemoved
  <1> HIDE DEF Moved
  <1>3. ds = {f[c] : c \in cs} /\ DOMAIN f = cs /\ \A c \in cs : Aged(c, f[c])
    BY <1>1, <1>2
  <1> HIDE DEF f
  <1> QED
    BY <1>3, AgedCallsAre

\* Calls after a dialog was closed or buttons have gone: what changes in a call is that its
\* answer is shown no more.
LEMMA DialogsClosedIs ==
    ASSUME NEW cs, CallsOK(cs), NEW view, NEW ds, ds = DialogsClosed(cs, view)
    PROVE  /\ CallsOK(ds)
           /\ \A d \in ds : \E c \in cs : Aged(c, d) /\ (d.on => d = c)
  <1> DEFINE Off(c) == IF c.by = view /\ c.what \in InDialog THEN [c EXCEPT !.on = FALSE] ELSE c
             f == [c \in cs |-> Off(c)]
             es == {f[c] : c \in cs}
  <1>1. \A c \in cs : Aged(c, Off(c)) /\ (Off(c).on => Off(c) = c)
    <2> TAKE c \in cs
    <2>1. c \in Call
      BY DEF CallsOK
    <2> QED
      BY <2>1, OffCall, AgedIsReflexive
  <1>2. ds = {c \in {Off(d) : d \in cs} : Matters(c)}
    BY DEF DialogsClosed
  <1> HIDE DEF Off
  <1>3. \A c \in cs : f[c] \in Call /\ Key(f[c]) = Key(c)
    BY <1>1, AgedKey DEF Aged
  <1>4. ds \subseteq es /\ DOMAIN f = cs
    BY <1>2
  <1>5. \A d \in es : \E c \in cs : Aged(c, d) /\ (d.on => d = c)
    BY <1>1
  <1>6. CallsOK(es)
    <2> HIDE DEF f
    <2> QED
      BY <1>3, <1>4, ImageOfCallsOK
  <1> HIDE DEF es
  <1> QED
    BY <1>4, <1>5, <1>6, FewerCallsOK

LEMMA ButtonsGoneIs ==
    ASSUME NEW cs, CallsOK(cs), NEW ds, ds = ButtonsGone(cs)
    PROVE  /\ CallsOK(ds)
           /\ \A d \in ds : \E c \in cs : Aged(c, d) /\ (d.on => d = c)
  <1> DEFINE Off(c) == IF c.by = "graph" /\ c.what \in {"reset", "retry"}
                       THEN [c EXCEPT !.on = FALSE] ELSE c
             f == [c \in cs |-> Off(c)]
  <1>1. \A c \in cs : Aged(c, Off(c)) /\ (Off(c).on => Off(c) = c)
    <2> TAKE c \in cs
    <2>1. c \in Call
      BY DEF CallsOK
    <2> QED
      BY <2>1, OffCall, AgedIsReflexive
  <1>2. ds = {Off(c) : c \in cs}
    BY DEF ButtonsGone
  <1> HIDE DEF Off
  <1>3. \A c \in cs : f[c] \in Call /\ Key(f[c]) = Key(c)
    BY <1>1, AgedKey DEF Aged
  <1>4. ds = {f[c] : c \in cs} /\ DOMAIN f = cs
    BY <1>2
  <1> HIDE DEF f
  <1>5. CallsOK(ds)
    BY <1>3, <1>4, ImageOfCallsOK
  <1> QED
    BY <1>1, <1>2, <1>5

\* The number of a new call is one that no call for the same has.
LEMMA NewCallIs ==
    ASSUME CallsOK(calls),
           NEW what \in {"load"} \cup OfTask \cup OfGroup, NEW by \in {"table", "graph", "page"},
           NEW query \in Query, NEW task \in Task \cup {NoTask},
           NEW c, c = NewCall(what, by, query, task)
    PROVE  /\ c \in Call /\ c.what = what /\ c.by = by /\ c.query = query /\ c.task = task
           /\ ~c.served /\ c.answer = <<>> /\ c.at = 0 /\ c.on /\ c.news = {} /\ c.then = "nothing"
           /\ \A d \in calls : Key(d) # Key(c)
  <1> DEFINE m == Cardinality(calls)
             b == [ no |-> 0, what |-> what, by |-> by, query |-> query, task |-> task,
                    served |-> FALSE, answer |-> <<>>, at |-> 0, news |-> {}, on |-> TRUE,
                    row |-> 0, then |-> "nothing" ]
             free(n) == \A d \in calls : Key(d) # Key([b EXCEPT !.no = n])
             n0 == CHOOSE n \in 0 .. m : free(n)
             nos == {d.no : d \in calls}
  <1>1. m \in Nat
    BY FS_CardinalityType DEF CallsOK
  <1>2. \E n \in 0 .. m : n \notin nos
    <2> DEFINE f == [d \in calls |-> d.no]
    <2>1. f \in Surjection(calls, nos)
      BY DEF Surjection
    <2>2. IsFiniteSet(nos) /\ Cardinality(nos) <= m
      <3> HIDE DEF f, nos
      <3> QED
        BY <2>1, FS_Surjection DEF CallsOK
    <2>3. Cardinality(nos) \in Nat
      BY <2>2, FS_CardinalityType
    <2>4. Cardinality(0 .. m) = m + 1
      BY <1>1, FS_Interval
    <2> HIDE DEF nos, m
    <2>5. SUFFICES ASSUME 0 .. m \in SUBSET nos
                   PROVE  FALSE
      OBVIOUS
    <2>6. Cardinality(0 .. m) <= Cardinality(nos)
      BY <2>2, <2>5, FS_Subset
    <2> QED
      BY <1>1, <2>2, <2>3, <2>4, <2>6
  <1>3. \E n \in 0 .. m : free(n)
    <2>1. PICK n \in 0 .. m : n \notin nos
      BY <1>2
    <2>2. \A d \in calls : d.no # n
      BY <2>1
    <2>3. [b EXCEPT !.no = n].no = n
      OBVIOUS
    <2>4. \A x, y : Key(x) = Key(y) => x.no = y.no
      BY DEF Key
    <2>5. free(n)
      BY <2>2, <2>3, <2>4
    <2> QED
      BY <2>1, <2>5
  <1>4. n0 \in 0 .. m /\ free(n0)
    <2> HIDE DEF free, m
    <2> QED
      BY <1>3
  <1>5. c = [b EXCEPT !.no = n0]
    BY DEF NewCall, Numbered
  <1> HIDE DEF n0
  <1>6. /\ c.no = n0 /\ c.what = what /\ c.by = by /\ c.query = query /\ c.task = task
        /\ ~c.served /\ c.answer = <<>> /\ c.at = 0 /\ c.news = {} /\ c.on /\ c.then = "nothing"
    BY <1>5
  <1>7. c \in Call
    <2>1. n0 \in Nat /\ <<>> \in Seq(Task)
      BY <1>1, <1>4
    <2>2. c = [ no |-> n0, what |-> what, by |-> by, query |-> query, task |-> task,
                served |-> FALSE, answer |-> <<>>, at |-> 0, news |-> {}, on |-> TRUE,
                row |-> 0, then |-> "nothing" ]
      BY <1>5
    <2> HIDE DEF b
    <2> QED
      BY <2>1, <2>2 DEF Call
  <1>8. \A d \in calls : Key(d) # Key(c)
    BY <1>4, <1>5
  <1> QED
    BY <1>6, <1>7, <1>8

\* The page of all tasks can be asked for; loads are calls made now.
LEMMA AllIsAQuery == All \in Query
  BY DEF All, Query

LEMMA LoadsAreFresh ==
    ASSUME CallsOK(calls), NEW then \in {"nothing"} \cup OfGroup
    PROVE  /\ \A q \in Query : /\ Fresh(LoadTasks(q, then)) /\ LoadTasks(q, then).by = "table"
                               /\ LoadTasks(q, then).what = "load"
           /\ Fresh(LoadGraph(then)) /\ LoadGraph(then).by = "graph" /\ LoadGraph(then).what = "load"
  <1>1. ASSUME NEW by \in {"table", "graph"}, NEW q \in Query, by = "graph" => q = All,
               NEW c, c = NewCall("load", by, q, NoTask), NEW d, d = [c EXCEPT !.then = then]
        PROVE  Fresh(d) /\ d.by = by /\ d.what = "load"
    <2>1. /\ c \in Call /\ c.what = "load" /\ c.by = by /\ c.query = q
          /\ ~c.served /\ c.answer = <<>> /\ c.at = 0 /\ \A x \in calls : Key(x) # Key(c)
      BY <1>1, NewCallIs
    <2>2. /\ d \in Call /\ d.what = c.what /\ d.by = c.by /\ d.query = c.query
          /\ d.served = c.served /\ d.answer = c.answer /\ d.at = c.at /\ Key(d) = Key(c)
      BY <1>1, <2>1 DEF Call, Key
    <2> QED
      BY <1>1, <2>1, <2>2 DEF Fresh, OfTask, OfGroup
  <1> QED
    BY <1>1, AllIsAQuery DEF LoadTasks, LoadGraph

-----------------------------------------------------------------------------
(* What a handler writes and emits.                                        *)

\* What a handler writes: tasks of the server, those with the id of its call, or the new one.
LEMMA WrittenIs ==
    ASSUME TypeInv, NEW c \in calls, ~c.served,
           c.what \in OfTask \ {"create"} => c.task.id \in IdsOf(stored)
    PROVE  /\ Written(c) \in Seq(Task) /\ Distinct(Written(c))
           /\ c.what = "load" => Written(c) = <<>>
           /\ c.what = "create" => Written(c) = <<c.task>>
           /\ c.what \notin {"create", "load"} => ToSet(Written(c)) \subseteq ToSet(stored)
           /\ c.what \in OfTask \ {"create"} =>
                 /\ Written(c) # <<>>
                 /\ \A t \in ToSet(Written(c)) : t.id = c.task.id
  <1>1. /\ stored \in Seq(Task) /\ Distinct(stored) /\ c \in Call
        /\ c.what \in OfTask => c.task \in Task
    BY DEF TypeInv, CallsInv, CallsOK, ServerInv, CallOK, CallShape
  <1>2. CASE c.what = "load"
    <2>1. Written(c) = <<>>
      BY <1>2 DEF Written, OfGroup
    <2> QED
      BY <1>2, <2>1 DEF OfTask, Distinct
  <1>3. CASE c.what = "create"
    <2>1. Written(c) = <<c.task>> /\ c.task \in Task
      BY <1>1, <1>3 DEF Written, OfTask, OfGroup
    <2> QED
      BY <1>3, <2>1 DEF Distinct
  <1>4. CASE c.what \in OfGroup
    <2>1. c.what \notin OfTask /\ c.what \notin {"create", "load"}
      BY <1>4 DEF OfTask, OfGroup
    <2>2. Written(c) \in {stored, Only(stored, {t \in Task : t.status # "done"})}
      BY <1>4, <2>1 DEF Written
    <2> QED
      BY <1>1, <2>1, <2>2, OnlyIs
  <1>5. CASE c.what \in OfTask \ {"create"}
    <2> DEFINE T == {t \in Task : t.id = c.task.id}
    <2>1. Written(c) = Only(stored, T)
      BY <1>5 DEF Written, OfTask, OfGroup
    <2>2. /\ Written(c) \in Seq(Task) /\ Distinct(Written(c))
          /\ ToSet(Written(c)) = ToSet(stored) \cap T
      BY <1>1, <2>1, OnlyIs
    <2>3. PICK t \in ToSet(stored) : t.id = c.task.id
      BY <1>1, <1>5, Elements DEF Of
    <2>4. t \in ToSet(Written(c))
      BY <1>1, <2>2, <2>3, Elements
    <2>5. Written(c) # <<>>
      BY <2>2, <2>4 DEF ToSet
    <2> QED
      BY <1>5, <2>2, <2>5 DEF OfTask
  <1> QED
    BY <1>1, <1>2, <1>3, <1>4, <1>5 DEF Call

\* What a handler makes of a task is a task with the same id.
LEMMA ChangedIs ==
    ASSUME NEW c \in Call, NEW t \in Task, c.what \in {"create", "save"} => c.task \in Task /\ t.id = c.task.id
    PROVE  Changed(t, c) \in Task /\ Changed(t, c).id = t.id
  <1>1. CASE c.what \in {"create", "save"}
    BY <1>1 DEF Changed
  <1>2. CASE c.what \notin {"create", "save"}
    <2>1. Changed(t, c) \in {[t EXCEPT !.isPaused = TRUE], [t EXCEPT !.isPaused = FALSE],
                             [t EXCEPT !.status = "todo"],
                             [t EXCEPT !.status = IF @ = "spent" THEN "todo" ELSE @], t}
      BY <1>2 DEF Changed
    <2> QED
      BY <2>1 DEF Task, Statuses
  <1> QED
    BY <1>1, <1>2

\* The events that the handler of call c emits.
EventsOf(c) ==
    [i \in DOMAIN Written(c) |-> [type |-> Emitted(c, Written(c)[i]), task |-> Changed(Written(c)[i], c),
                                  at |-> events + i]]

\* Call c when its handler has run.
DoneOf(c) ==
    IF Shows(c)
    THEN [c EXCEPT !.served = TRUE, !.at = events + Len(EventsOf(c)),
                   !.answer = IF c.what = "load" THEN Listed(c.query)
                              ELSE [i \in DOMAIN EventsOf(c) |-> EventsOf(c)[i].task]]
    ELSE [c EXCEPT !.served = TRUE]

\* The events of a handler are emitted as events are.
LEMMA EventsOfIs ==
    ASSUME TypeInv, NEW c \in calls, ~c.served,
           c.what \in OfTask \ {"create"} => c.task.id \in IdsOf(stored)
    PROVE  /\ AreEmitted(EventsOf(c)) /\ Len(EventsOf(c)) = Len(Written(c))
           /\ DOMAIN EventsOf(c) = DOMAIN Written(c)
           /\ \A i \in DOMAIN EventsOf(c) : EventsOf(c)[i].task = Changed(Written(c)[i], c)
           /\ \A e \in ToSet(EventsOf(c)) : e.type = "create" => c.what = "create" /\ e.task = c.task
           /\ c.what = "load" => EventsOf(c) = <<>>
           /\ c.what \in OfTask \ {"create"} =>
                 /\ EventsOf(c) # <<>>
                 /\ \A e \in ToSet(EventsOf(c)) : e.task.id = c.task.id
  <1> DEFINE ts == Written(c)
             es == EventsOf(c)
  <1>1. /\ stored \in Seq(Task) /\ Distinct(stored) /\ c \in Call /\ events \in Nat
        /\ c.what \in OfTask => c.task \in Task
        /\ c.what = "create" => c.task.id \notin IdsOf(stored)
    BY DEF TypeInv, CallsInv, CallsOK, ServerInv, CallOK, CallShape, Creates
  <1>2. /\ ts \in Seq(Task) /\ Distinct(ts)
        /\ c.what = "load" => ts = <<>>
        /\ c.what = "create" => ts = <<c.task>>
        /\ c.what \notin {"create", "load"} => ToSet(ts) \subseteq ToSet(stored)
        /\ c.what \in OfTask \ {"create"} =>
              /\ ts # <<>>
              /\ \A t \in ToSet(ts) : t.id = c.task.id
    BY WrittenIs
  <1>3. /\ DOMAIN ts = 1 .. Len(ts) /\ Len(ts) \in Nat
        /\ \A i \in DOMAIN ts : ts[i] \in Task /\ ts[i] \in ToSet(ts)
    BY <1>2, Elements
  <1>4. \A i \in DOMAIN ts : Changed(ts[i], c) \in Task /\ Changed(ts[i], c).id = ts[i].id
    <2> TAKE i \in DOMAIN ts
    <2>1. c.what = "create" => ts[i] = c.task
      BY <1>2, <1>3
    <2>2. c.what = "save" => ts[i].id = c.task.id
      BY <1>2, <1>3 DEF OfTask
    <2>3. c.what \in {"create", "save"} => c.task \in Task /\ ts[i].id = c.task.id
      BY <1>1, <2>1, <2>2 DEF OfTask
    <2> QED
      BY <1>1, <1>3, <2>3, ChangedIs
  <1>5. \A i \in DOMAIN ts : /\ Emitted(c, ts[i]) \in {"create", "update", "delete"}
                             /\ Emitted(c, ts[i]) = "create" <=> c.what = "create"
    BY DEF Emitted
  <1>6. es = [i \in DOMAIN ts |-> [type |-> Emitted(c, ts[i]), task |-> Changed(ts[i], c),
                                   at |-> events + i]]
    BY DEF EventsOf
  <1> HIDE DEF ts, es
  <1>7. \A i \in DOMAIN ts : /\ es[i].type = Emitted(c, ts[i]) /\ es[i].task = Changed(ts[i], c)
                             /\ es[i].at = events + i /\ es[i] \in Event
    BY <1>1, <1>3, <1>4, <1>5, <1>6 DEF Event
  <1>8. es \in Seq(Event) /\ DOMAIN es = DOMAIN ts /\ Len(es) = Len(ts)
    BY <1>3, <1>6, <1>7
  <1>9. \A i \in DOMAIN ts : es[i].task.id = ts[i].id
    BY <1>4, <1>7
  <1>10. ASSUME NEW i \in DOMAIN ts
         PROVE  IF c.what = "create" THEN Len(ts) = 1 /\ ts[i] = c.task /\ ts[i].id \notin IdsOf(stored)
                ELSE ts[i].id \in IdsOf(stored)
    <2>1. CASE c.what = "create"
      <3>1. ts = <<c.task>>
        BY <1>2, <2>1
      <3>2. Len(ts) = 1 /\ ts[1] = c.task
        BY <3>1
      <3> QED
        BY <1>1, <1>3, <2>1, <3>2
    <2>2. CASE c.what # "create"
      <3>1. c.what # "load"
        BY <1>2, <1>3
      <3>2. ts[i] \in ToSet(stored)
        BY <1>2, <1>3, <2>2, <3>1
      <3> QED
        BY <2>2, <3>2 DEF ToSet, IdsOf
    <2> QED
      BY <2>1, <2>2
  <1>11. AreEmitted(es)
    BY <1>2, <1>5, <1>7, <1>8, <1>9, <1>10 DEF AreEmitted, Distinct
  <1>12. \A e \in ToSet(es) : e.type = "create" => c.what = "create" /\ e.task = c.task
    <2> TAKE e \in ToSet(es)
    <2>1. PICK i \in DOMAIN ts : e = es[i]
      BY <1>8 DEF ToSet
    <2> HAVE e.type = "create"
    <2>2. c.what = "create" /\ ts[i] = c.task
      BY <1>5, <1>7, <1>10, <2>1
    <2> QED
      BY <1>7, <2>1, <2>2 DEF Changed
  <1>13. c.what = "load" => es = <<>>
    BY <1>2, <1>8
  <1>14. ASSUME c.what \in OfTask \ {"create"}
         PROVE  es # <<>> /\ \A e \in ToSet(es) : e.task.id = c.task.id
    <2>1. Len(ts) # 0
      BY <1>2, <1>14
    <2>2. es # <<>>
      BY <1>8, <2>1
    <2>3. \A t \in ToSet(ts) : t.id = c.task.id
      BY <1>2, <1>14
    <2>4. \A i \in DOMAIN ts : ts[i].id = c.task.id
      BY <1>3, <2>3
    <2> QED
      BY <1>8, <1>9, <2>2, <2>4 DEF ToSet
  <1> QED
    BY <1>7, <1>8, <1>11, <1>12, <1>13, <1>14 DEF ts, es

\* Ids of the events that find the feed full when n of es are kept.
Lost(es, n) == {es[i].task.id : i \in (n + 1) .. Len(es)}

\* What Emit does, with the number n of events that the feed takes.
LEMMA EmitIs ==
    ASSUME TypeInv, NEW es, AreEmitted(es), NEW cs, CallsOK(cs), Emit(es, cs)
    PROVE  \E n \in 0 .. Len(es) :
              /\ stored' = After(stored, es)
              /\ events' = events + Len(es) /\ Len(es) \in Nat
              /\ wire' \in Seq(Event) /\ Len(wire') = Len(wire) + n /\ Len(wire') <= FeedCap
              /\ \A i \in DOMAIN wire : wire'[i] = wire[i]
              /\ \A i \in 1 .. n : wire'[Len(wire) + i] = es[i]
              /\ Lost(es, n) \in SUBSET Ids
              /\ doubt' = doubt \cup Lost(es, n)
              /\ calls' = WithNews(cs, Lost(es, n), events')
  <1> DEFINE room == IF socket = "open" THEN FeedCap - Len(wire) ELSE 0
             n == IF room < Len(es) THEN room ELSE Len(es)
             kept == SubSeq(es, 1, n)
             over == [i \in 1 .. Len(es) - Len(kept) |-> es[Len(kept) + i].task]
  <1>1. /\ wire \in Seq(Event) /\ Len(wire) \in Nat /\ FeedCap \in Nat /\ Len(wire) <= FeedCap
        /\ es \in Seq(Event) /\ Len(es) \in Nat /\ DOMAIN es = 1 .. Len(es)
    BY ServerAssumption DEF TypeInv, ServerInv, AreEmitted
  <1>2. room \in Nat /\ n \in 0 .. Len(es) /\ n <= FeedCap - Len(wire)
    BY <1>1
  <1>3. /\ stored' = After(stored, es) /\ wire' = wire \o kept /\ events' = events + Len(es)
        /\ doubt' = doubt \cup IdsOf(over)
        /\ calls' = WithNews(cs, IdsOf(over), events + Len(es))
    BY Zenon DEF Emit
  <1> HIDE DEF n
  <1>4. kept \in Seq(Event) /\ Len(kept) = n /\ \A i \in 1 .. n : kept[i] = es[i]
    BY <1>1, <1>2
  <1>5. /\ wire' \in Seq(Event) /\ Len(wire') = Len(wire) + n /\ Len(wire') <= FeedCap
        /\ \A i \in DOMAIN wire : wire'[i] = wire[i]
        /\ \A i \in 1 .. n : wire'[Len(wire) + i] = es[i]
    <2>1. PICK k \in Seq(Event) : k = kept
      BY <1>4
    <2>2. PICK w : w = wire'
      OBVIOUS
    <2>3. w = wire \o k
      BY <1>3, <2>1, <2>2
    <2>4. /\ w \in Seq(Event) /\ Len(w) = Len(wire) + Len(k)
          /\ \A i \in 1 .. Len(wire) : w[i] = wire[i]
          /\ \A i \in 1 .. Len(k) : w[Len(wire) + i] = k[i]
      BY <1>1, <2>3, ConcatIs
    <2>5. DOMAIN wire = 1 .. Len(wire)
      BY <1>1
    <2> HIDE DEF kept
    <2>6. /\ w \in Seq(Event) /\ Len(w) = Len(wire) + n /\ Len(w) <= FeedCap
          /\ \A i \in DOMAIN wire : w[i] = wire[i]
          /\ \A i \in 1 .. n : w[Len(wire) + i] = es[i]
      BY <1>1, <1>2, <1>4, <2>1, <2>4, <2>5
    <2> QED
      BY <2>2, <2>6
  <1>6. IdsOf(over) = Lost(es, n)
    <2>1. over = [i \in 1 .. Len(es) - n |-> es[n + i].task]
      BY <1>4
    <2>2. IdsOf(over) = {es[n + i].task.id : i \in 1 .. Len(es) - n}
      BY <2>1 DEF IdsOf
    <2>3. \A i \in 1 .. Len(es) - n : n + i \in (n + 1) .. Len(es)
      BY <1>1, <1>2
    <2>4. \A j \in (n + 1) .. Len(es) : j - n \in 1 .. Len(es) - n /\ n + (j - n) = j
      BY <1>1, <1>2
    <2>5. \A x \in IdsOf(over) : x \in Lost(es, n)
      BY <2>2, <2>3 DEF Lost
    <2>6. \A x \in Lost(es, n) : x \in IdsOf(over)
      <3> TAKE x \in Lost(es, n)
      <3>1. PICK j \in (n + 1) .. Len(es) : x = es[j].task.id
        BY DEF Lost
      <3>2. x = es[n + (j - n)].task.id
        BY <2>4, <3>1
      <3> QED
        BY <2>2, <2>4, <3>1, <3>2
    <2> QED
      BY <2>5, <2>6
  <1>7. Lost(es, n) \in SUBSET Ids
    <2>1. \A i \in (n + 1) .. Len(es) : es[i] \in Event
      BY <1>1, <1>2
    <2> QED
      BY <2>1, EventShape DEF Lost
  <1> HIDE DEF kept, over
  <1> QED
    BY <1>1, <1>2, <1>3, <1>5, <1>6, <1>7

\* The call that was handled is the same call, with the answer.
LEMMA DoneIs ==
    ASSUME TypeInv, NEW c \in calls, ~c.served,
           c.what \in OfTask \ {"create"} => c.task.id \in IdsOf(stored),
           NEW es, es = EventsOf(c), NEW d, d = DoneOf(c)
    PROVE  /\ d \in Call /\ d.served /\ Key(d) = Key(c)
           /\ d.what = c.what /\ d.by = c.by /\ d.query = c.query /\ d.task = c.task /\ d.on = c.on
           /\ d.news = c.news
           /\ d.what = "load" => d.answer = Listed(c.query) /\ d.at = events
           /\ d.what # "load" /\ Shows(d) =>
                 /\ d.at = events + Len(es) /\ DOMAIN d.answer = DOMAIN es
                 /\ \A i \in DOMAIN es : d.answer[i] = es[i].task
           /\ ~Shows(d) => d.answer = c.answer /\ d.at = c.at
           /\ Distinct(d.answer)
  <1>1. /\ stored \in Seq(Task) /\ Distinct(stored) /\ c \in Call /\ events \in Nat
        /\ Distinct(c.answer)
    BY DEF TypeInv, CallsInv, CallsOK, ServerInv, CallOK, CallShape
  <1>2. /\ AreEmitted(es) /\ (c.what = "load" => es = <<>>)
    BY EventsOfIs
  <1>3. /\ es \in Seq(Event) /\ Len(es) \in Nat /\ DOMAIN es = 1 .. Len(es)
        /\ \A i \in DOMAIN es : es[i].task \in Task
        /\ \A i, j \in DOMAIN es : es[i].task.id = es[j].task.id => i = j
    <2>1. es \in Seq(Event) /\ \A i, j \in DOMAIN es : es[i].task.id = es[j].task.id => i = j
      BY <1>2 DEF AreEmitted
    <2>2. \A i \in DOMAIN es : es[i] \in Event
      BY <2>1
    <2> QED
      BY <2>1, <2>2, EventShape
  <1> DEFINE tasks == [i \in DOMAIN es |-> es[i].task]
             seen == IF c.what = "load" THEN Listed(c.query) ELSE tasks
  <1>4. tasks \in Seq(Task) /\ Distinct(tasks) /\ DOMAIN tasks = DOMAIN es
    BY <1>3 DEF Distinct
  <1>5. Listed(c.query) \in Seq(Task) /\ Distinct(Listed(c.query))
    <2>1. c.query \in Query
      BY <1>1 DEF Call
    <2> QED
      BY <1>1, <2>1, ListedIs
  <1>6. seen \in Seq(Task) /\ Distinct(seen)
    BY <1>4, <1>5
  <1>7. d = IF Shows(c) THEN [c EXCEPT !.served = TRUE, !.at = events + Len(es), !.answer = seen]
            ELSE [c EXCEPT !.served = TRUE]
    BY DEF DoneOf
  <1>8. /\ c.what = "load" => seen = Listed(c.query) /\ Len(es) = 0 /\ Shows(c)
        /\ c.what # "load" => seen = tasks
    BY <1>2 DEF Shows
  <1>9. \A i \in DOMAIN es : tasks[i] = es[i].task
    OBVIOUS
  <1> HIDE DEF seen, tasks
  <1>10. CASE Shows(c)
    <2>1. d = [c EXCEPT !.served = TRUE, !.at = events + Len(es), !.answer = seen]
      BY <1>7, <1>10
    <2>2. events + Len(es) \in Nat
      BY <1>1, <1>3
    <2>3. /\ d \in Call /\ d.served /\ d.no = c.no /\ d.what = c.what /\ d.by = c.by /\ d.query = c.query
          /\ d.task = c.task /\ d.on = c.on /\ d.news = c.news
          /\ d.at = events + Len(es) /\ d.answer = seen
      BY <1>1, <1>6, <2>1, <2>2, ZenonT(30) DEF Call
    <2>4. Shows(d)
      BY <1>10, <2>3 DEF Shows
    <2> QED
      BY <1>1, <1>4, <1>6, <1>8, <1>9, <2>3, <2>4 DEF Key
  <1>11. CASE ~Shows(c)
    <2>1. d = [c EXCEPT !.served = TRUE]
      BY <1>7, <1>11
    <2>2. /\ d \in Call /\ d.served /\ d.no = c.no /\ d.what = c.what /\ d.by = c.by /\ d.query = c.query
          /\ d.task = c.task /\ d.on = c.on /\ d.news = c.news /\ d.at = c.at /\ d.answer = c.answer
      BY <1>1, <2>1 DEF Call
    <2>3. ~Shows(d) /\ d.what # "load"
      BY <1>11, <2>2 DEF Shows
    <2> QED
      BY <1>1, <2>2, <2>3 DEF Key
  <1> QED
    BY <1>10, <1>11

\* Serve, in these words.
LEMMA ServeIs ==
    ASSUME NEW c, Serve(c)
    PROVE  /\ ~c.served /\ socket' = socket
           /\ c.what \in OfTask \ {"create"} => c.task.id \in IdsOf(stored)
           /\ Emit(EventsOf(c), (calls \ {c}) \cup {d \in {DoneOf(c)} : Matters(d)})
  BY Zenon DEF Serve, EventsOf, DoneOf

-----------------------------------------------------------------------------
(* The steps of the server keep the types.                                 *)

\* What the calls are after a step keeps that of before.
LEMMA AgedShape ==
    ASSUME NEW c, NEW d, Aged(c, d), CallShape(c)
    PROVE  CallShape(d)
  BY DEF Aged, CallShape

\* The tasks after a handler: those that were there and the created one.
LEMMA IdsAfter ==
    ASSUME TypeInv, NEW es, AreEmitted(es), NEW new, new = After(stored, es), NEW id \in IdsOf(new)
    PROVE  id \in IdsOf(stored) \/ \E e \in ToSet(es) : e.type = "create" /\ e.task.id = id
  <1>1. stored \in Seq(Task) /\ Distinct(stored)
    BY DEF TypeInv, ServerInv
  <1>2. new \in Seq(Task) /\ Of(ToSet(new), id) # {}
    BY <1>1, AfterIs, Elements
  <1>3. CASE \A e \in ToSet(es) : e.task.id # id
    <2>1. Of(ToSet(stored), id) # {}
      BY <1>1, <1>2, <1>3, AfterIs DEF TasksAfter
    <2> QED
      BY <1>1, <2>1, Elements
  <1>4. ASSUME NEW e \in ToSet(es), e.task.id = id
        PROVE  id \in IdsOf(stored) \/ e.type = "create"
    BY <1>4 DEF AreEmitted, ToSet
  <1> QED
    BY <1>3, <1>4

\* A handler, or another client, keeps the types when the calls it leaves have theirs.
LEMMA EmitKeepsTypes ==
    ASSUME TypeInv, UNCHANGED <<socket, table, graph>>,
           NEW es, AreEmitted(es), NEW cs, CallsOK(cs), Emit(es, cs),
           \A d \in cs : /\ CallShape(d)
                         /\ d.at <= events + Len(es)
                         /\ d.on /\ d.by = "table" => table.mounted
                         /\ d.on /\ d.by = "graph" => graph.mounted
                         /\ Creates(d) =>
                               /\ d.task.id \notin IdsOf(stored)
                               /\ \A e \in ToSet(es) : e.type = "create" => e.task.id # d.task.id,
           \A c, d \in cs : Creates(c) /\ Creates(d) /\ c.task.id = d.task.id => Key(c) = Key(d)
    PROVE  TypeInv'
  <1>1. PICK n \in 0 .. Len(es) :
              /\ stored' = After(stored, es)
              /\ events' = events + Len(es) /\ Len(es) \in Nat
              /\ wire' \in Seq(Event) /\ Len(wire') = Len(wire) + n /\ Len(wire') <= FeedCap
              /\ \A i \in DOMAIN wire : wire'[i] = wire[i]
              /\ \A i \in 1 .. n : wire'[Len(wire) + i] = es[i]
              /\ Lost(es, n) \in SUBSET Ids
              /\ doubt' = doubt \cup Lost(es, n)
              /\ calls' = WithNews(cs, Lost(es, n), events')
    BY EmitIs
  <1>2. /\ stored \in Seq(Task) /\ Distinct(stored) /\ events \in Nat /\ doubt \subseteq Ids
        /\ wire \in Seq(Event) /\ \A i \in DOMAIN wire : wire[i].at <= events /\ wire[i].at \in Nat
        /\ es \in Seq(Event) /\ \A i \in DOMAIN es : es[i].at = events + i
    <2>1. /\ stored \in Seq(Task) /\ Distinct(stored) /\ events \in Nat /\ doubt \subseteq Ids
          /\ wire \in Seq(Event) /\ \A i \in DOMAIN wire : wire[i].at <= events
          /\ es \in Seq(Event) /\ \A i \in DOMAIN es : es[i].at = events + i
      BY DEF TypeInv, ServerInv, AreEmitted
    <2>2. \A i \in DOMAIN wire : wire[i] \in Event
      BY <2>1
    <2> QED
      BY <2>1, <2>2, EventShape
  <1>3. stored' \in Seq(Task) /\ Distinct(stored')
    BY <1>1, <1>2, AfterIs
  <1>4. \A i \in DOMAIN wire' : wire'[i].at <= events'
    <2> TAKE i \in DOMAIN wire'
    <2>1. /\ i \in 1 .. Len(wire) + n /\ Len(wire) \in Nat /\ DOMAIN wire = 1 .. Len(wire)
          /\ DOMAIN es = 1 .. Len(es)
      BY <1>1, <1>2
    <2>2. CASE i <= Len(wire)
      <3>1. i \in DOMAIN wire
        BY <2>1, <2>2
      <3> QED
        BY <1>1, <1>2, <3>1
    <2>3. CASE ~(i <= Len(wire))
      <3>1. i - Len(wire) \in 1 .. n /\ Len(wire) + (i - Len(wire)) = i
        BY <2>1, <2>3
      <3>2. wire'[i] = es[i - Len(wire)] /\ i - Len(wire) \in DOMAIN es
        BY <1>1, <2>1, <3>1
      <3> QED
        BY <1>1, <1>2, <3>1, <3>2, SMTT(30)
    <2> QED
      BY <2>2, <2>3
  <1>5. ServerInv'
    BY <1>1, <1>2, <1>3, <1>4 DEF TypeInv, ServerInv
  <1>6. /\ CallsOK(calls')
        /\ \A d \in calls' : \E c \in cs : Aged(c, d)
    BY <1>1, WithNewsIs
  <1>7. \A d \in calls' : CallOK(d)'
    <2> TAKE d \in calls'
    <2>1. PICK c \in cs : Aged(c, d)
      BY <1>6
    <2>2. CallShape(d)
      BY <2>1, AgedShape
    <2> QED
      BY <1>1, <2>1, <2>2 DEF CallOK, Aged
  <1>8. \A d \in calls' : Creates(d) => d.task.id \notin IdsOf(stored')
    <2> TAKE d \in calls'
    <2> HAVE Creates(d)
    <2>1. PICK c \in cs : Aged(c, d)
      BY <1>6
    <2>2. Creates(c) /\ c.task = d.task
      BY <2>1 DEF Aged, Creates
    <2> QED
      BY <1>1, <2>2, IdsAfter
  <1>9. \A d, f \in calls' : Creates(d) /\ Creates(f) /\ d.task.id = f.task.id => Key(d) = Key(f)
    <2> TAKE d, f \in calls'
    <2> HAVE Creates(d) /\ Creates(f) /\ d.task.id = f.task.id
    <2>1. PICK c \in cs : Aged(c, d)
      BY <1>6
    <2>2. PICK g \in cs : Aged(g, f)
      BY <1>6
    <2>3. Creates(c) /\ Creates(g) /\ c.task.id = g.task.id
      BY <2>1, <2>2 DEF Aged, Creates
    <2> QED
      BY <2>1, <2>2, <2>3, AgedKey
  <1>10. CallsInv'
    BY <1>6, <1>7, <1>8, <1>9 DEF CallsInv
  <1>11. ViewsInv'
    BY DEF TypeInv, ViewsInv
  <1> QED
    BY <1>5, <1>10, <1>11 DEF TypeInv

\* The calls in flight once one has been handled.
LEMMA ServedCallsOK ==
    ASSUME TypeInv, NEW c \in calls, ~c.served,
           c.what \in OfTask \ {"create"} => c.task.id \in IdsOf(stored),
           NEW cs \in SUBSET ((calls \ {c}) \cup {DoneOf(c)})
    PROVE  CallsOK(cs)
  <1> DEFINE d == DoneOf(c)
  <1>1. d \in Call /\ Key(d) = Key(c)
    BY DoneIs
  <1>2. CallsOK(calls)
    BY DEF TypeInv, CallsInv
  <1> HIDE DEF d
  <1>3. CallsOK(calls \ {c})
    BY <1>2, FewerCallsOK
  <1>4. \A x \in calls \ {c} : Key(x) # Key(d)
    BY <1>1, <1>2 DEF CallsOK, Keyed
  <1>5. CallsOK((calls \ {c}) \cup {d})
    BY <1>1, <1>3, <1>4, MoreCallsOK
  <1> QED
    BY <1>5, FewerCallsOK DEF d

\* The steps of the server keep the types.
LEMMA ServeTypes ==
    ASSUME TypeInv, UNCHANGED <<table, graph>>, NEW c \in calls, Serve(c)
    PROVE  TypeInv'
  <1> DEFINE es == EventsOf(c)
             d == DoneOf(c)
             cs == (calls \ {c}) \cup {x \in {d} : Matters(x)}
  <1>1. /\ ~c.served /\ socket' = socket
        /\ c.what \in OfTask \ {"create"} => c.task.id \in IdsOf(stored)
        /\ Emit(es, cs)
    BY ServeIs
  <1>2. /\ AreEmitted(es)
        /\ \A e \in ToSet(es) : e.type = "create" => c.what = "create" /\ e.task = c.task
        /\ c.what \in OfTask \ {"create"} =>
                 /\ es # <<>>
                 /\ \A e \in ToSet(es) : e.task.id = c.task.id
    BY <1>1, EventsOfIs
  <1>3. /\ d \in Call /\ d.served /\ Key(d) = Key(c)
        /\ d.what = c.what /\ d.by = c.by /\ d.query = c.query /\ d.task = c.task /\ d.on = c.on
        /\ d.what = "load" => d.at = events
        /\ d.what # "load" /\ Shows(d) =>
              /\ d.at = events + Len(es) /\ DOMAIN d.answer = DOMAIN es
              /\ \A i \in DOMAIN es : d.answer[i] = es[i].task
        /\ ~Shows(d) => d.answer = c.answer /\ d.at = c.at
        /\ Distinct(d.answer)
    BY <1>1, DoneIs
  <1>4. /\ CallsOK(calls) /\ \A x \in calls : CallOK(x) /\ x \in Call
        /\ \A x \in calls : Creates(x) => x.task.id \notin IdsOf(stored)
        /\ \A x, y \in calls : Creates(x) /\ Creates(y) /\ x.task.id = y.task.id => Key(x) = Key(y)
        /\ events \in Nat /\ es \in Seq(Event) /\ Len(es) \in Nat
    BY <1>2 DEF TypeInv, CallsInv, CallsOK, ServerInv, AreEmitted
  <1>5. CallsOK(cs)
    <2>1. cs \in SUBSET ((calls \ {c}) \cup {DoneOf(c)})
      OBVIOUS
    <2> HIDE DEF cs
    <2> QED
      BY <1>1, <2>1, ServedCallsOK
  <1> HIDE DEF es, d
  <1>6. CallShape(c) /\ c \in Call
    BY <1>4 DEF CallOK
  <1>7. CallShape(d)
    <2>1. d.served /\ d.what = "reset" => d.answer # <<>> /\ d.answer[1].id = d.task.id
      <3> HAVE d.served /\ d.what = "reset"
      <3>1. /\ DOMAIN d.answer = DOMAIN es /\ \A i \in DOMAIN es : d.answer[i] = es[i].task
            /\ es # <<>> /\ \A e \in ToSet(es) : e.task.id = c.task.id
        BY <1>2, <1>3 DEF Shows, OfTask
      <3>2. 1 \in DOMAIN es /\ es[1] \in ToSet(es)
        BY <1>4, <3>1 DEF ToSet
      <3>3. d.answer # <<>>
        BY <3>1, <3>2
      <3> QED
        BY <1>3, <3>1, <3>2, <3>3
    <2> QED
      BY <1>3, <1>6, <2>1 DEF CallShape
  <1>8. d.at <= events + Len(es) /\ d.at \in Nat
    <2>1. c.at <= events /\ d.at \in Nat /\ c.at \in Nat
      BY <1>3, <1>4, <1>6 DEF CallOK, Call
    <2>2. CASE d.what = "load"
      BY <1>3, <1>4, <2>1, <2>2
    <2>3. CASE d.what # "load" /\ Shows(d)
      BY <1>3, <1>4, <2>1, <2>3
    <2>4. CASE ~Shows(d)
      BY <1>3, <1>4, <2>1, <2>4
    <2> QED
      BY <2>2, <2>3, <2>4
  <1>9. ASSUME NEW x \in cs
        PROVE  /\ CallShape(x)
               /\ x.at <= events + Len(es)
               /\ x.on /\ x.by = "table" => table.mounted
               /\ x.on /\ x.by = "graph" => graph.mounted
               /\ Creates(x) =>
                     /\ x.task.id \notin IdsOf(stored)
                     /\ \A e \in ToSet(es) : e.type = "create" => e.task.id # x.task.id
    <2>1. CASE x = d
      BY <1>3, <1>4, <1>7, <1>8, <2>1 DEF CallOK, Creates
    <2>2. CASE x \in calls \ {c}
      <3>1. CallShape(x) /\ x.at <= events /\ x.at \in Nat
            /\ (x.on /\ x.by = "table" => table.mounted)
            /\ (x.on /\ x.by = "graph" => graph.mounted)
        BY <1>4, <2>2 DEF CallOK, Call
      <3>2. ASSUME Creates(x), NEW e \in ToSet(es), e.type = "create"
            PROVE  e.task.id # x.task.id
        <4>1. Creates(c) /\ e.task = c.task
          BY <1>1, <1>2, <3>2 DEF Creates
        <4>2. Key(x) # Key(c)
          BY <1>4, <2>2 DEF CallsOK, Keyed
        <4> QED
          BY <1>4, <2>2, <3>2, <4>1, <4>2
      <3> QED
        BY <1>4, <2>2, <3>1, <3>2
    <2> QED
      BY <2>1, <2>2
  <1>10. ASSUME NEW x \in cs, NEW y \in cs, Creates(x), Creates(y), x.task.id = y.task.id
         PROVE  Key(x) = Key(y)
    <2>1. x \in calls /\ y \in calls
      BY <1>3, <1>10 DEF Creates
    <2> QED
      BY <1>4, <1>10, <2>1
  <1> HIDE DEF cs
  <1> QED
    BY <1>1, <1>2, <1>5, <1>9, <1>10, EmitKeepsTypes

LEMMA OthersWriteTypes ==
    ASSUME TypeInv, UNCHANGED <<table, graph>>, OthersWrite
    PROVE  /\ TypeInv'
           /\ \E e \in Event : AreEmitted(<<e>>) /\ Emit(<<e>>, calls)
  <1>1. /\ CallsOK(calls) /\ \A x \in calls : CallOK(x) /\ x \in Call
        /\ \A x \in calls : Creates(x) => x.task.id \notin IdsOf(stored)
        /\ \A x, y \in calls : Creates(x) /\ Creates(y) /\ x.task.id = y.task.id => Key(x) = Key(y)
        /\ stored \in Seq(Task) /\ events \in Nat
    BY DEF TypeInv, CallsInv, CallsOK, ServerInv
  <1>2. PICK e : /\ e \in Event /\ e.at = events + 1 /\ Emit(<<e>>, calls)
                 /\ IF e.type = "create" THEN e.task.id \notin IdsOf(stored) \cup IdsGiven
                    ELSE e.task.id \in IdsOf(stored)
    <2>1. CASE \E t \in Writes :
             /\ t.id \notin IdsGiven
             /\ Emit(<<[type |-> IF t.id \in IdsOf(stored) THEN "update" ELSE "create",
                        task |-> t, at |-> events + 1]>>, calls)
      <3>1. PICK t \in Writes :
             /\ t.id \notin IdsGiven
             /\ Emit(<<[type |-> IF t.id \in IdsOf(stored) THEN "update" ELSE "create",
                        task |-> t, at |-> events + 1]>>, calls)
        BY <2>1
      <3> DEFINE e == [type |-> IF t.id \in IdsOf(stored) THEN "update" ELSE "create",
                       task |-> t, at |-> events + 1]
      <3>2. t \in Task
        BY ServerAssumption
      <3>3. e \in Event
        BY <1>1, <3>2 DEF Event
      <3>4. /\ e.at = events + 1 /\ e.task = t
            /\ e.type = IF t.id \in IdsOf(stored) THEN "update" ELSE "create"
        OBVIOUS
      <3>5. Emit(<<e>>, calls)
        BY <3>1
      <3> HIDE DEF e
      <3> QED
        BY <3>1, <3>3, <3>4, <3>5
    <2>2. CASE \E t \in ToSet(stored) :
             Emit(<<[type |-> "delete", task |-> t, at |-> events + 1]>>, calls)
      <3>1. PICK t \in ToSet(stored) :
               Emit(<<[type |-> "delete", task |-> t, at |-> events + 1]>>, calls)
        BY <2>2
      <3> DEFINE e == [type |-> "delete", task |-> t, at |-> events + 1]
      <3>2. t \in Task /\ t.id \in IdsOf(stored)
        BY <1>1, Elements DEF ToSet, IdsOf
      <3>3. e \in Event
        BY <1>1, <3>2 DEF Event
      <3>4. e.at = events + 1 /\ e.task = t /\ e.type = "delete"
        OBVIOUS
      <3>5. Emit(<<e>>, calls)
        BY <3>1
      <3> HIDE DEF e
      <3> QED
        BY <3>2, <3>3, <3>4, <3>5
    <2> QED
      BY <2>1, <2>2, Zenon DEF OthersWrite
  <1> DEFINE es == <<e>>
  <1>3. es \in Seq(Event) /\ Len(es) = 1 /\ DOMAIN es = {1} /\ es[1] = e /\ ToSet(es) = {e}
    BY <1>2 DEF ToSet
  <1> HIDE DEF es
  <1>4. AreEmitted(es)
    BY <1>2, <1>3 DEF AreEmitted
  <1>5. \A x \in calls : /\ CallShape(x) /\ x.at <= events + Len(es)
                         /\ x.on /\ x.by = "table" => table.mounted
                         /\ x.on /\ x.by = "graph" => graph.mounted
                         /\ Creates(x) =>
                               /\ x.task.id \notin IdsOf(stored)
                               /\ \A f \in ToSet(es) : f.type = "create" => f.task.id # x.task.id
    <2> TAKE x \in calls
    <2>1. CallShape(x) /\ x.at <= events /\ x.at \in Nat
          /\ (x.on /\ x.by = "table" => table.mounted)
          /\ (x.on /\ x.by = "graph" => graph.mounted)
      BY <1>1 DEF CallOK, Call
    <2>2. Creates(x) => x.task.id \in IdsGiven
      BY DEF Creates, IdsGiven
    <2>3. \A f \in ToSet(es) : f = e
      BY <1>3
    <2>4. x.at <= events + Len(es)
      BY <1>1, <1>3, <2>1
    <2> QED
      BY <1>1, <1>2, <2>1, <2>2, <2>3, <2>4
  <1>6. Emit(es, calls) /\ socket' = socket
    BY <1>2 DEF es, OthersWrite
  <1>7. TypeInv'
    BY <1>1, <1>4, <1>5, <1>6, EmitKeepsTypes
  <1> QED
    BY <1>2, <1>4, <1>7 DEF es

LEMMA SocketTypes ==
    ASSUME TypeInv, UNCHANGED <<table, graph>>, SocketOpens \/ SocketCloses
    PROVE  TypeInv'
  <1>1. /\ CallsOK(calls) /\ \A x \in calls : CallOK(x) /\ x \in Call
        /\ \A x \in calls : Creates(x) => x.task.id \notin IdsOf(stored)
        /\ \A x, y \in calls : Creates(x) /\ Creates(y) /\ x.task.id = y.task.id => Key(x) = Key(y)
        /\ ServerInv /\ ViewsInv
    BY DEF TypeInv, CallsInv, CallsOK
  <1>2. ViewsInv' /\ table' = table /\ graph' = graph
    BY <1>1 DEF ViewsInv
  <1>3. CASE SocketOpens
    BY <1>1, <1>2, <1>3 DEF SocketOpens, TypeInv, CallsInv, ServerInv, CallOK
  <1>4. CASE SocketCloses
    <2> DEFINE tasks == [i \in DOMAIN wire |-> wire[i].task]
               lost == IdsOf(tasks)
    <2>1. /\ stored' = stored /\ events' = events /\ socket' = "closed" /\ wire' = <<>>
          /\ doubt' = doubt \cup lost /\ calls' = WithNews(calls, lost, events + 1)
      BY <1>4 DEF SocketCloses
    <2>2. lost = OnTheWire
      BY DEF IdsOf, OnTheWire
    <2>3. OnTheWire \in SUBSET Ids
      <3>1. \A i \in DOMAIN wire : wire[i] \in Event
        BY <1>1 DEF ServerInv
      <3> QED
        BY <3>1, EventShape DEF OnTheWire
    <2> HIDE DEF lost
    <2>4. ServerInv'
      BY <1>1, <2>1, <2>2, <2>3, ServerAssumption DEF ServerInv
    <2>5. CallsOK(calls') /\ \A d \in calls' : \E c \in calls : Aged(c, d)
      BY <1>1, <2>1, <2>2, <2>3, WithNewsIs
    <2>6. \A d \in calls' : CallOK(d)'
      <3> TAKE d \in calls'
      <3>1. PICK c \in calls : Aged(c, d)
        BY <2>5
      <3>2. CallShape(d)
        BY <1>1, <3>1, AgedShape DEF CallOK
      <3> QED
        BY <1>1, <1>2, <2>1, <3>1, <3>2 DEF CallOK, Aged
    <2>7. \A d, f \in calls' : \E c, g \in calls :
             /\ Creates(d) => Creates(c) /\ c.task = d.task
             /\ Creates(f) => Creates(g) /\ g.task = f.task
             /\ Key(c) = Key(d) /\ Key(g) = Key(f)
      BY <2>5, AgedKey DEF Aged, Creates
    <2>8. CallsInv'
      BY <1>1, <2>1, <2>5, <2>6, <2>7 DEF CallsInv
    <2> QED
      BY <1>2, <2>4, <2>8 DEF TypeInv
  <1> QED
    BY <1>3, <1>4

LEMMA ServerTypes ==
    ASSUME TypeInv, ServerStep, UNCHANGED <<table, graph>>
    PROVE  TypeInv'
  BY ServeTypes, OthersWriteTypes, SocketTypes DEF ServerStep

-----------------------------------------------------------------------------
(* What a step of the page does to the calls and to the server.            *)

\* A step of the page: calls age, go or are made.
AreCallsAfter(ds) ==
    /\ CallsOK(ds)
    /\ \A d \in ds : Fresh(d) \/ \E c \in calls : Aged(c, d)
    /\ \A d, f \in ds : Fresh(d) /\ Fresh(f) => d = f

\* Calls that age, go or are made keep their part of the invariant.
LEMMA CallsStep ==
    ASSUME TypeInv, AreCallsAfter(calls'), UNCHANGED <<stored, events>>,
           \A d \in calls' : d.on => /\ d.by = "table" => table'.mounted
                                     /\ d.by = "graph" => graph'.mounted
    PROVE  CallsInv'
  <1>1. /\ \A x \in calls : CallOK(x) /\ x \in Call
        /\ \A x \in calls : Creates(x) => x.task.id \notin IdsOf(stored)
        /\ \A x, y \in calls : Creates(x) /\ Creates(y) /\ x.task.id = y.task.id => Key(x) = Key(y)
        /\ events \in Nat
    BY DEF TypeInv, CallsInv, CallsOK, ServerInv
  <1>2. \A d \in calls' : CallOK(d)'
    <2> TAKE d \in calls'
    <2>1. CASE Fresh(d)
      <3>1. CallShape(d) /\ d.at <= events
        BY <1>1, <2>1 DEF Fresh, CallShape, Distinct
      <3> QED
        BY <3>1 DEF CallOK
    <2>2. CASE \E c \in calls : Aged(c, d)
      <3>1. PICK c \in calls : Aged(c, d)
        BY <2>2
      <3>2. CallShape(d) /\ d.at <= events
        BY <1>1, <3>1, AgedShape DEF CallOK, Aged
      <3> QED
        BY <3>2 DEF CallOK
    <2> QED
      BY <2>1, <2>2 DEF AreCallsAfter
  <1>3. \A d \in calls' : Creates(d) =>
           \/ Fresh(d) /\ d.task.id \notin IdsOf(stored) \cup IdsGiven
           \/ \E c \in calls : Creates(c) /\ c.task = d.task /\ Key(c) = Key(d)
    <2> TAKE d \in calls'
    <2> HAVE Creates(d)
    <2>1. CASE Fresh(d)
      BY <2>1 DEF Fresh, Creates
    <2>2. ASSUME NEW c \in calls, Aged(c, d)
          PROVE  Creates(c) /\ c.task = d.task /\ Key(c) = Key(d)
      BY <2>2, AgedKey DEF Aged, Creates
    <2> QED
      BY <2>1, <2>2 DEF AreCallsAfter
  <1>4. \A c \in calls : Creates(c) => c.task.id \in IdsGiven
    BY DEF Creates, IdsGiven
  <1>5. \A d \in calls' : Creates(d) => d.task.id \notin IdsOf(stored')
    BY <1>1, <1>3
  <1>6. \A d, f \in calls' : Creates(d) /\ Creates(f) /\ d.task.id = f.task.id => Key(d) = Key(f)
    <2> TAKE d, f \in calls'
    <2> HAVE Creates(d) /\ Creates(f) /\ d.task.id = f.task.id
    <2>1. \A x, y \in calls' : Fresh(x) /\ Fresh(y) => x = y
      BY DEF AreCallsAfter
    <2> QED
      BY <1>1, <1>3, <1>4, <2>1
  <1> QED
    BY <1>2, <1>5, <1>6 DEF CallsInv, AreCallsAfter

\* Calls that age or go.
LEMMA OlderCalls ==
    ASSUME CallsOK(calls), NEW ds, CallsOK(ds), \A d \in ds : \E c \in calls : Aged(c, d)
    PROVE  AreCallsAfter(ds) /\ \A d \in ds : ~Fresh(d)
  <1>1. \A d \in ds : ~Fresh(d)
    BY AgedKey DEF Fresh
  <1> QED
    BY <1>1 DEF AreCallsAfter

\* Calls that age or go and one that is made.
LEMMA OneMoreCall ==
    ASSUME CallsOK(calls), NEW ds, CallsOK(ds), \A d \in ds : \E c \in calls : Aged(c, d),
           NEW more, \/ more = {}
                     \/ \E d : Fresh(d) /\ more = {d}
    PROVE  AreCallsAfter(ds \cup more) /\ \A d \in ds \cup more : Fresh(d) => d \in more
  <1>1. CASE more = {}
    <2>1. ds \cup more = ds
      BY <1>1
    <2> QED
      BY <2>1, OlderCalls
  <1>2. ASSUME NEW d, Fresh(d), more = {d}
        PROVE  AreCallsAfter(ds \cup more) /\ \A x \in ds \cup more : Fresh(x) => x \in more
    <2>1. \A c \in ds : Key(c) # Key(d) /\ ~Fresh(c)
      BY <1>2, AgedKey DEF Fresh
    <2>2. CallsOK(ds \cup {d})
      BY <1>2, <2>1, MoreCallsOK DEF Fresh
    <2> QED
      BY <1>2, <2>1, <2>2 DEF AreCallsAfter
  <1> QED
    BY <1>1, <1>2

\* Some of the calls in flight, as they are.
LEMMA SameCalls ==
    ASSUME CallsOK(calls), NEW ds \in SUBSET calls
    PROVE  CallsOK(ds) /\ \A d \in ds : \E c \in calls : Aged(c, d)
  BY FewerCallsOK, AgedIsReflexive DEF CallsOK

\* The part of the server when the page takes at most one event from the wire.
LEMMA ServerSame ==
    ASSUME ServerInv, UNCHANGED <<stored, socket, events>>, doubt' \subseteq Ids,
           wire' = wire \/ (wire # <<>> /\ wire' = Tail(wire))
    PROVE  ServerInv'
  <1>1. CASE wire' = wire
    BY <1>1 DEF ServerInv
  <1>2. CASE wire # <<>> /\ wire' = Tail(wire)
    <2>1. wire \in Seq(Event) /\ wire # <<>> /\ Len(wire) \in Nat /\ Len(wire) <= FeedCap
          /\ DOMAIN wire = 1 .. Len(wire) /\ \A i \in DOMAIN wire : wire[i].at <= events
      BY <1>2 DEF ServerInv
    <2>2. PICK w : w = wire'
      OBVIOUS
    <2>3. /\ w \in Seq(Event) /\ Len(w) = Len(wire) - 1
          /\ \A i \in 1 .. Len(w) : w[i] = wire[i + 1]
      BY <1>2, <2>1, <2>2, HeadTailProperties
    <2>4. Len(w) \in Nat /\ DOMAIN w = 1 .. Len(w) /\ Len(w) <= FeedCap
      BY <2>1, <2>3, ServerAssumption
    <2>5. \A i \in DOMAIN w : i + 1 \in DOMAIN wire /\ w[i].at <= events
      BY <2>1, <2>3, <2>4
    <2>6. w \in Seq(Event) /\ Len(w) <= FeedCap /\ \A i \in DOMAIN w : w[i].at <= events
      BY <2>3, <2>4, <2>5
    <2> QED
      BY <2>2, <2>6 DEF ServerInv
  <1> QED
    BY <1>1, <1>2

\* What all proofs about a step of the page start from.
LEMMA Known ==
    ASSUME TypeInv
    PROVE  /\ CallsOK(calls) /\ ServerInv /\ ViewsInv /\ CallsInv
           /\ \A c \in calls : /\ c \in Call /\ CallOK(c) /\ CallShape(c) /\ Aged(c, c)
                               /\ c.on /\ c.by = "table" => table.mounted
                               /\ c.on /\ c.by = "graph" => graph.mounted
           /\ table \in TableRecord /\ graph \in GraphRecord
           /\ stored \in Seq(Task) /\ Distinct(stored) /\ doubt \subseteq Ids
           /\ IdsGiven \subseteq Ids /\ IdsOf(stored) \subseteq Ids
  <1>1. /\ CallsOK(calls) /\ ServerInv /\ ViewsInv /\ CallsInv
        /\ table \in TableRecord /\ graph \in GraphRecord
        /\ stored \in Seq(Task) /\ Distinct(stored) /\ doubt \subseteq Ids
    BY DEF TypeInv, CallsInv, ServerInv, ViewsInv
  <1>2. \A c \in calls : /\ c \in Call /\ CallOK(c) /\ CallShape(c) /\ Aged(c, c)
                         /\ c.on /\ c.by = "table" => table.mounted
                         /\ c.on /\ c.by = "graph" => graph.mounted
    BY <1>1, AgedIsReflexive DEF CallsInv, CallsOK, CallOK
  <1>3. IdsGiven \subseteq Ids
    BY <1>2, TaskShape DEF IdsGiven, CallShape, OfTask
  <1>4. IdsOf(stored) \subseteq Ids
    BY <1>1, TaskShape, Elements DEF IdsOf
  <1> QED
    BY <1>1, <1>2, <1>3, <1>4

\* A button of a view asks for a task.
LEMMA PressedIsFresh ==
    ASSUME TypeInv, NEW view \in {"table", "graph"}, NEW row \in Nat, NEW what \in OfTask,
           NEW t \in Task, what = "create" => t.id \notin IdsOf(stored) \cup IdsGiven,
           NEW d, d = Pressed(what, view, row, t)
    PROVE  Fresh(d) /\ d.by = view /\ d.what = what
  <1>1. PICK c : c = NewCall(what, view, All, t)
    OBVIOUS
  <1>2. /\ what \in {"load"} \cup OfTask \cup OfGroup /\ view \in {"table", "graph", "page"}
        /\ t \in Task \cup {NoTask} /\ CallsOK(calls)
    BY Known
  <1>3. /\ c \in Call /\ c.what = what /\ c.by = view /\ c.task = t
        /\ ~c.served /\ c.answer = <<>> /\ c.at = 0
        /\ \A x \in calls : Key(x) # Key(c)
    BY <1>1, <1>2, NewCallIs, AllIsAQuery
  <1>4. d = [c EXCEPT !.row = row]
    BY <1>1 DEF Pressed
  <1>5. /\ d \in Call /\ d.what = what /\ d.by = view /\ d.task = t /\ Key(d) = Key(c)
        /\ ~d.served /\ d.answer = <<>> /\ d.at = 0
    BY <1>3, <1>4 DEF Call, Key
  <1> QED
    BY <1>3, <1>5 DEF Fresh, OfTask, OfGroup

LEMMA CreationsAreFresh ==
    ASSUME TypeInv, NEW view \in {"table", "graph"}, NEW row \in Nat, NEW c \in CreateOf(view, row)
    PROVE  Fresh(c) /\ c.by = view /\ c.what \in OfTask
  <1>1. PICK f \in Forms : f.id \notin IdsOf(stored) \cup IdsGiven /\ c = Pressed("create", view, row, f)
    BY DEF CreateOf
  <1>2. f \in Task
    BY ServerAssumption
  <1> QED
    BY <1>1, <1>2, PressedIsFresh DEF OfTask

\* A view offers commands on a task.
LEMMA CommandsAreFresh ==
    ASSUME TypeInv, NEW view \in {"table", "graph"}, NEW row \in Nat, NEW t \in Task,
           NEW c \in Commands(t, view, row)
    PROVE  Fresh(c) /\ c.by = view /\ c.what \in OfTask
  <1>1. ASSUME NEW what \in OfTask \ {"create"}, NEW u \in Task, c = Pressed(what, view, row, u)
        PROVE  Fresh(c) /\ c.by = view /\ c.what \in OfTask
    BY <1>1, PressedIsFresh
  <1>2. CASE c \in CreateOf(view, row)
    BY <1>2, CreationsAreFresh
  <1>3. CASE c \in EditOf(t, view, row)
    <2>1. PICK f \in Forms : c = Pressed("save", view, row, f)
      BY <1>3 DEF EditOf
    <2> QED
      BY <1>1, <2>1, ServerAssumption DEF OfTask
  <1>4. CASE c \in ResetOf(t, view, row)
    <2>1. c = Pressed("reset", view, row, t)
      BY <1>4 DEF ResetOf
    <2> QED
      BY <1>1, <2>1 DEF OfTask
  <1>5. CASE c \in RetryOf(t, view, row)
    <2>1. c = Pressed("retry", view, row, t)
      BY <1>5 DEF RetryOf
    <2> QED
      BY <1>1, <2>1 DEF OfTask
  <1>6. CASE c \in DeleteOf(t, view, row)
    <2>1. c = Pressed("delete", view, row, t)
      BY <1>6 DEF DeleteOf
    <2> QED
      BY <1>1, <2>1 DEF OfTask
  <1>7. CASE c \in PauseOf(t, view, row)
    <2>1. c = Pressed("resume", view, row, t) \/ c = Pressed("pause", view, row, t)
      BY <1>7 DEF PauseOf
    <2> QED
      BY <1>1, <2>1 DEF OfTask
  <1> QED
    BY <1>2, <1>3, <1>4, <1>5, <1>6, <1>7 DEF Commands

-----------------------------------------------------------------------------
(* What the steps of the page do to tasks, rows and map.                   *)

\* What an answer makes of a task is a task, with the id that it had or that of the call.
LEMMA AssignedIs ==
    ASSUME NEW c \in Call, CallShape(c), c.what = "reset" => c.served,
           NEW t \in Task, NEW r, r = Assigned(t, c)
    PROVE  /\ r \in Task /\ (r.id = t.id \/ r.id = c.task.id)
           /\ ~Shows(c) => r = t
  <1>1. CASE c.what \in {"pause", "resume"}
    <2>1. r = [t EXCEPT !.isPaused = (c.what = "pause")]
      BY <1>1 DEF Assigned
    <2> QED
      BY <1>1, <2>1 DEF Task, Shows
  <1>2. CASE c.what = "reset"
    <2>1. r = c.answer[1] /\ c.answer \in Seq(Task) /\ c.answer # <<>> /\ c.answer[1].id = c.task.id
      BY <1>2 DEF Assigned, CallShape, Call
    <2>2. 1 \in DOMAIN c.answer
      BY <2>1
    <2> QED
      BY <1>2, <2>1, <2>2 DEF Shows
  <1>3. CASE c.what \notin {"pause", "resume", "reset"}
    BY <1>3 DEF Assigned
  <1> QED
    BY <1>1, <1>2, <1>3

\* The map with one task put into it.
LEMMA PutIs ==
    ASSUME NEW ts \in SUBSET Task, OnePerId(ts), NEW t \in Task, NEW r, r = Put(ts, t)
    PROVE  /\ r \in SUBSET Task /\ OnePerId(r)
           /\ Of(r, t.id) = {t} /\ \A id : id # t.id => Of(r, id) = Of(ts, id)
  BY DEF Put, OnePerId, Of

\* The throttle, called or expired.
LEMMA CalledIs == \A th \in Throttles : Called(th) \in Throttles /\ Expired(th) \in Throttles
  BY DEF Called, Expired, Throttles

\* A render of the map changes the map and the throttle.
LEMMA RenderIs ==
    ASSUME NEW g \in GraphRecord, NEW ts \in SUBSET Task, NEW h, h = Render(g, ts)
    PROVE  /\ h \in GraphRecord /\ h.tasks = ts
           /\ h.mounted = g.mounted /\ h.loading = g.loading /\ h.loaded = g.loaded
           /\ h.selected = g.selected
  <1>1. Called(g.render) \in Throttles
    BY CalledIs DEF GraphRecord
  <1>2. Nodes(ts) \in SUBSET Ids
    BY TaskShape DEF Nodes
  <1> QED
    BY <1>1, <1>2 DEF GraphRecord, Render

\* The graph after a load, with a task per id of the answer and all others as they were.
LEMMA LoadedIs ==
    ASSUME NEW g \in GraphRecord, OnePerId(g.tasks), NEW ts \in Seq(Task), Distinct(ts),
           NEW h, h = Loaded(g, ts)
    PROVE  /\ h \in GraphRecord /\ OnePerId(h.tasks)
           /\ h.mounted = g.mounted /\ h.loading = g.loading /\ h.loaded = g.loaded
           /\ h.selected = g.selected
           /\ \A id : Of(h.tasks, id) = IF id \in IdsOf(ts) THEN Of(ToSet(ts), id)
                                        ELSE Of(g.tasks, id)
  <1> DEFINE first == Render(g, Put(g.tasks, ts[1]))
             all == {t \in g.tasks : t.id \notin IdsOf(ts)} \cup ToSet(ts)
             last == Render(first, all)
  <1>0. /\ g.tasks \in SUBSET Task /\ Len(ts) \in Nat /\ DOMAIN ts = 1 .. Len(ts)
        /\ \A i \in DOMAIN ts : ts[i] \in Task /\ ts[i] \in ToSet(ts) /\ ts[i].id \in IdsOf(ts)
        /\ ToSet(ts) \subseteq Task
        /\ \A t \in ToSet(ts) : \E i \in DOMAIN ts : t = ts[i]
        /\ \A id \in IdsOf(ts) : \E i \in DOMAIN ts : id = ts[i].id
    BY Elements DEF GraphRecord
  <1>1. CASE Len(ts) = 0
    <2>1. h = g
      BY <1>1 DEF Loaded
    <2>2. IdsOf(ts) = {}
      BY <1>0, <1>1
    <2> QED
      BY <2>1, <2>2
  <1>2. Len(ts) # 0 => 1 \in DOMAIN ts /\ ts[1] \in Task
    BY <1>0
  <1>3. Len(ts) # 0 =>
           LET f == first IN
           /\ f \in GraphRecord /\ f.tasks = Put(g.tasks, ts[1])
           /\ f.mounted = g.mounted /\ f.loading = g.loading /\ f.loaded = g.loaded
           /\ f.selected = g.selected
    <2> HAVE Len(ts) # 0
    <2>1. Put(g.tasks, ts[1]) \in SUBSET Task
      BY <1>0, <1>2, PutIs
    <2> QED
      BY <2>1, RenderIs
  <1>4. CASE Len(ts) = 1
    <2>1. h = first
      BY <1>4 DEF Loaded
    <2>2. /\ OnePerId(Put(g.tasks, ts[1])) /\ Of(Put(g.tasks, ts[1]), ts[1].id) = {ts[1]}
          /\ \A id : id # ts[1].id => Of(Put(g.tasks, ts[1]), id) = Of(g.tasks, id)
      BY <1>0, <1>2, <1>4, PutIs
    <2>3. IdsOf(ts) = {ts[1].id} /\ ToSet(ts) = {ts[1]}
      BY <1>0, <1>4
    <2> HIDE DEF first
    <2> QED
      BY <1>3, <1>4, <2>1, <2>2, <2>3, SMTT(30) DEF Of
  <1>5. CASE Len(ts) \notin {0, 1}
    <2>1. h = last
      BY <1>5 DEF Loaded
    <2>2. all \in SUBSET Task
      BY <1>0
    <2>3. OnePerId(all)
      <3>1. \A t, u \in ToSet(ts) : t.id = u.id => t = u
        BY <1>0 DEF Distinct
      <3>2. \A t \in ToSet(ts) : t.id \in IdsOf(ts)
        BY <1>0
      <3> QED
        BY <3>1, <3>2 DEF OnePerId
    <2>4. \A id : Of(all, id) = IF id \in IdsOf(ts) THEN Of(ToSet(ts), id) ELSE Of(g.tasks, id)
      <3>2. \A t \in ToSet(ts) : t.id \in IdsOf(ts)
        BY <1>0
      <3> QED
        BY <3>2 DEF Of
    <2> HIDE DEF first, all
    <2>5. h \in GraphRecord /\ h.tasks = all
          /\ h.mounted = first.mounted /\ h.loading = first.loading /\ h.loaded = first.loaded
          /\ h.selected = first.selected
      BY <1>3, <1>5, <2>1, <2>2, RenderIs
    <2> QED
      BY <1>3, <1>5, <2>3, <2>4, <2>5
  <1> QED
    BY <1>1, <1>4, <1>5

\* A selection that is no longer on.
LEMMA SelectedIs ==
    ASSUME NEW g \in GraphRecord, NEW b, NEW h, h = [g EXCEPT !.selected.on = @ /\ b]
    PROVE  /\ h \in GraphRecord /\ h.tasks = g.tasks /\ h.mounted = g.mounted
           /\ h.loading = g.loading /\ h.loaded = g.loaded
  BY DEF GraphRecord

-----------------------------------------------------------------------------
(* The steps of the page keep the types.                                   *)

\* A step of the page keeps the types when the views have theirs and the calls made now are
\* of a view that is there.
LEMMA PageStep ==
    ASSUME TypeInv, AreCallsAfter(calls'), UNCHANGED <<stored, socket, events>>, doubt' \subseteq Ids,
           wire' = wire \/ (wire # <<>> /\ wire' = Tail(wire)),
           ViewsInv', table'.mounted = table.mounted, graph'.mounted = graph.mounted,
           \A d \in calls' : Fresh(d) => /\ d.by = "table" => table.mounted
                                         /\ d.by = "graph" => graph.mounted
    PROVE  TypeInv'
  <1>1. ServerInv'
    BY ServerSame DEF TypeInv
  <1>2. \A d \in calls' : d.on => /\ d.by = "table" => table'.mounted
                                  /\ d.by = "graph" => graph'.mounted
    <2> TAKE d \in calls'
    <2>1. CASE Fresh(d)
      BY <2>1
    <2>2. ASSUME NEW c \in calls, Aged(c, d)
          PROVE  d.on => /\ d.by = "table" => table'.mounted
                         /\ d.by = "graph" => graph'.mounted
      BY <2>2, Known DEF Aged
    <2> QED
      BY <2>1, <2>2 DEF AreCallsAfter
  <1>3. CallsInv'
    BY <1>2, CallsStep
  <1> QED
    BY <1>1, <1>3 DEF TypeInv

\* The user asks for a page of the list.
LEMMA RequestTypes ==
    ASSUME TypeInv, UNCHANGED graph, NEW q \in Queries, Request(q)
    PROVE  /\ TypeInv' /\ AreCallsAfter(calls')
           /\ table'.rows = table.rows /\ table'.loaded = table.loaded /\ table'.of = table.of
  <1>1. q \in Query
    BY TableAssumption
  <1>2. calls' = calls \cup {LoadTasks(q, "nothing")} /\ table.mounted
        /\ UNCHANGED <<stored, socket, wire, events, doubt>>
        /\ table' = [table EXCEPT !.query = q, !.loading = TRUE]
    BY DEF Request
  <1>3. /\ table' \in TableRecord /\ table'.mounted = table.mounted /\ table'.rows = table.rows
        /\ table'.loaded = table.loaded /\ table'.of = table.of
    BY <1>1, <1>2, Known DEF TableRecord
  <1>4. ViewsInv'
    BY <1>3, Known DEF ViewsInv
  <1>5. CallsOK(calls) /\ \A c \in calls : \E d \in calls : Aged(d, c)
    BY Known
  <1>6. Fresh(LoadTasks(q, "nothing")) /\ LoadTasks(q, "nothing").by = "table"
    BY <1>1, <1>5, LoadsAreFresh
  <1>7. PICK d : d = LoadTasks(q, "nothing")
    OBVIOUS
  <1>8. /\ AreCallsAfter(calls \cup {d})
        /\ \A x \in calls \cup {d} : Fresh(x) => x = d
    BY <1>5, <1>6, <1>7, OneMoreCall
  <1>9. AreCallsAfter(calls') /\ \A x \in calls' : Fresh(x) => x.by = "table"
    BY <1>2, <1>6, <1>7, <1>8
  <1>10. doubt' \subseteq Ids
    BY <1>2, Known
  <1> QED
    BY <1>2, <1>3, <1>4, <1>9, <1>10, PageStep

\* A call is made and nothing else happens.
LEMMA CommandTypes ==
    ASSUME TypeInv, UNCHANGED <<stored, socket, wire, events, doubt, table, graph>>,
           NEW d, Fresh(d), calls' = calls \cup {d},
           d.by = "table" => table.mounted, d.by = "graph" => graph.mounted
    PROVE  TypeInv' /\ AreCallsAfter(calls')
  <1>1. CallsOK(calls) /\ \A c \in calls : \E x \in calls : Aged(x, c)
    BY Known
  <1>2. /\ AreCallsAfter(calls \cup {d})
        /\ \A x \in calls \cup {d} : Fresh(x) => x = d
    BY <1>1, OneMoreCall
  <1>3. ViewsInv' /\ doubt' \subseteq Ids
    BY Known DEF ViewsInv
  <1> QED
    BY <1>2, <1>3, PageStep

LEMMA TableCommandTypes ==
    ASSUME TypeInv, UNCHANGED graph, TableCommand
    PROVE  TypeInv' /\ AreCallsAfter(calls')
  <1>1. PICK rows : rows = table.rows
    OBVIOUS
  <1>2. rows \in Seq(Task) /\ \A i \in DOMAIN rows : i \in Nat /\ rows[i] \in Task
    BY <1>1, Known DEF TableRecord
  <1>3. PICK c : /\ calls' = calls \cup {c}
                 /\ \/ \E i \in DOMAIN rows : c \in Commands(rows[i], "table", i)
                    \/ c \in CreateOf("table", 0)
    BY <1>1 DEF TableCommand
  <1>4. Fresh(c) /\ c.by = "table"
    BY <1>2, <1>3, CommandsAreFresh, CreationsAreFresh
  <1> QED
    BY <1>3, <1>4, CommandTypes DEF TableCommand

\* Calls age or go, and nothing happens at the server.
LEMMA FewerTypes ==
    ASSUME TypeInv, UNCHANGED <<stored, socket, wire, events, doubt>>,
           CallsOK(calls'), \A d \in calls' : \E c \in calls : Aged(c, d),
           ViewsInv', table'.mounted = table.mounted, graph'.mounted = graph.mounted
    PROVE  TypeInv' /\ AreCallsAfter(calls')
  <1>1. AreCallsAfter(calls') /\ \A d \in calls' : ~Fresh(d)
    BY Known, OlderCalls
  <1> QED
    BY <1>1, Known, PageStep

LEMMA CloseTableDialogTypes ==
    ASSUME TypeInv, UNCHANGED graph, CloseTableDialog
    PROVE  TypeInv' /\ AreCallsAfter(calls')
  <1>1. calls' = DialogsClosed(calls, "table") /\ UNCHANGED <<stored, socket, wire, events, doubt, table>>
    BY DEF CloseTableDialog
  <1>2. CallsOK(calls') /\ \A d \in calls' : \E c \in calls : Aged(c, d)
    BY <1>1, Known, DialogsClosedIs
  <1>3. ViewsInv'
    BY <1>1, Known DEF ViewsInv
  <1> QED
    BY <1>1, <1>2, <1>3, FewerTypes

\* A call has ended, and another may have been made.
LEMMA EndTypes ==
    ASSUME TypeInv, UNCHANGED <<stored, socket, wire, events>>, doubt' \subseteq Ids,
           NEW ds, CallsOK(ds), \A d \in ds : \E c \in calls : Aged(c, d),
           NEW more, \/ more = {}
                     \/ \E d : /\ Fresh(d) /\ more = {d}
                               /\ d.by = "table" => table.mounted
                               /\ d.by = "graph" => graph.mounted,
           calls' = ds \cup more,
           ViewsInv', table'.mounted = table.mounted, graph'.mounted = graph.mounted
    PROVE  TypeInv' /\ AreCallsAfter(calls')
  <1>1. AreCallsAfter(calls') /\ \A d \in calls' : Fresh(d) => d \in more
    BY Known, OneMoreCall
  <1> QED
    BY <1>1, PageStep

\* The rows with one of them replaced.
LEMMA RowAssigned ==
    ASSUME NEW rows \in Seq(Task), NEW i \in DOMAIN rows, NEW t \in Task,
           NEW new, new = [rows EXCEPT ![i] = t]
    PROVE  /\ new \in Seq(Task) /\ DOMAIN new = DOMAIN rows /\ new[i] = t
           /\ \A k \in DOMAIN rows : k # i => new[k] = rows[k]
           /\ t = rows[i] => new = rows
  OBVIOUS

\* Row i has got what was answered to c: it shows the task of c, which is in doubt if there
\* was news of it, or it showed another one, and both are in doubt.
RowGiven(c, i) ==
    /\ DOMAIN table'.rows = DOMAIN table.rows
    /\ \A k \in DOMAIN table.rows : k # i => table'.rows[k] = table.rows[k]
    /\ \/ /\ table.rows[i].id = c.task.id /\ table'.rows[i].id = c.task.id
          /\ table'.rows[i] = Assigned(table.rows[i], c)
          /\ doubt' = doubt \cup (c.news \cap {c.task.id})
       \/ /\ table'.rows[i].id \in {table.rows[i].id, c.task.id}
          /\ doubt' = doubt \cup {table.rows[i].id, c.task.id}

\* A command of the table has ended: at most one row has changed.
LEMMA TableCommandEndsTypes ==
    ASSUME TypeInv, UNCHANGED graph, NEW c \in calls, NEW ok \in BOOLEAN, TableCommandEnds(c, ok)
    PROVE  /\ TypeInv' /\ AreCallsAfter(calls')
           /\ table'.loaded = table.loaded /\ table'.of = table.of
           /\ c.task.id \in Ids
           /\ \/ table'.rows = table.rows /\ doubt' = doubt
              \/ c.on /\ c.served /\ \E i \in DOMAIN table.rows : RowGiven(c, i)
  <1>0. /\ c \in Call /\ CallShape(c) /\ CallsOK(calls) /\ table \in TableRecord
        /\ c.on /\ c.by = "table" => table.mounted
    BY Known
  <1>1. /\ c.what \in OfTask /\ c.by = "table" /\ (ok => c.served)
        /\ UNCHANGED <<stored, socket, wire, events>>
        /\ calls' = (calls \ {c}) \cup
                (IF ok /\ ReloadsTable(c) THEN {LoadTasks(table.query, "nothing")} ELSE {})
    BY DEF TableCommandEnds, Ends
  <1>11. c.task \in Task /\ c.task.id \in Ids
    BY <1>0, <1>1, TaskShape DEF CallShape
  <1>2. /\ table' \in TableRecord /\ table'.mounted = table.mounted
        /\ table'.loaded = table.loaded /\ table'.of = table.of
        /\ \/ table'.rows = table.rows /\ doubt' = doubt
           \/ c.on /\ c.served /\ \E i \in DOMAIN table.rows : RowGiven(c, i)
    <2>1. CASE ok /\ \E i \in DOMAIN table.rows : RowOf(c, i)
      <3>1. PICK i \in DOMAIN table.rows :
                  /\ RowOf(c, i)
                  /\ table' = [table EXCEPT !.rows[i] = Assigned(@, c),
                                            !.loading = @ \/ ReloadsTable(c)]
                  /\ doubt' = doubt \cup DoubtAfterAnswer(c, i)
        BY <2>1 DEF TableCommandEnds
      <3>3. c.on /\ c.served
        BY <1>1, <2>1, <3>1 DEF RowOf
      <3>4. table.rows \in Seq(Task) /\ table.rows[i] \in Task
        BY <1>0 DEF TableRecord
      <3>5. PICK t : t = Assigned(table.rows[i], c)
        OBVIOUS
      <3>6. /\ t \in Task /\ (t.id = table.rows[i].id \/ t.id = c.task.id)
            /\ ~Shows(c) => t = table.rows[i]
        BY <1>0, <3>3, <3>4, <3>5, AssignedIs
      <3>7. PICK new : new = [table.rows EXCEPT ![i] = t]
        OBVIOUS
      <3>8. /\ new \in Seq(Task) /\ DOMAIN new = DOMAIN table.rows /\ new[i] = t
            /\ \A k \in DOMAIN table.rows : k # i => new[k] = table.rows[k]
            /\ t = table.rows[i] => new = table.rows
        BY <3>4, <3>6, <3>7, RowAssigned
      <3>9. table' = [table EXCEPT !.rows = new, !.loading = @ \/ ReloadsTable(c)]
        BY <1>0, <3>1, <3>5, <3>7 DEF TableRecord
      <3>10. /\ table' \in TableRecord /\ table'.mounted = table.mounted /\ table'.rows = new
             /\ table'.loaded = table.loaded /\ table'.of = table.of
        BY <1>0, <3>8, <3>9 DEF TableRecord
      <3>11. CASE table.rows[i].id = c.task.id
        <4>1. doubt' = doubt \cup (c.news \cap {c.task.id})
          BY <3>1, <3>11 DEF DoubtAfterAnswer
        <4>2. RowGiven(c, i)
          BY <3>5, <3>6, <3>8, <3>10, <3>11, <4>1 DEF RowGiven
        <4> QED
          BY <3>3, <3>10, <4>2
      <3>12. CASE table.rows[i].id # c.task.id /\ Shows(c)
        <4>1. doubt' = doubt \cup {table.rows[i].id, c.task.id}
          BY <3>1, <3>12 DEF DoubtAfterAnswer
        <4>2. RowGiven(c, i)
          BY <3>6, <3>8, <3>10, <4>1 DEF RowGiven
        <4> QED
          BY <3>3, <3>10, <4>2
      <3>13. CASE table.rows[i].id # c.task.id /\ ~Shows(c)
        <4>1. doubt' = doubt
          BY <3>1, <3>13 DEF DoubtAfterAnswer
        <4> QED
          BY <3>6, <3>8, <3>10, <3>13, <4>1
      <3> QED
        BY <3>11, <3>12, <3>13
    <2>2. CASE ~(ok /\ \E i \in DOMAIN table.rows : RowOf(c, i))
      <3>1. /\ table' = [table EXCEPT !.loading = @ \/ (ok /\ ReloadsTable(c))]
            /\ doubt' = doubt
        BY <2>2, Zenon DEF TableCommandEnds
      <3>2. /\ table' \in TableRecord /\ table'.mounted = table.mounted /\ table'.rows = table.rows
            /\ table'.loaded = table.loaded /\ table'.of = table.of
        BY <1>0, <3>1 DEF TableRecord
      <3> QED
        BY <3>1, <3>2
    <2> QED
      BY <2>1, <2>2
  <1>3. c.news \subseteq Ids
    BY <1>0 DEF Call
  <1>4. doubt' \subseteq Ids
    <2>1. \A i \in DOMAIN table.rows : table.rows[i].id \in Ids
      BY <1>0, TaskShape, Elements DEF TableRecord
    <2> QED
      BY <1>2, <1>3, <1>11, <2>1, Known DEF RowGiven
  <1>5. ~table.mounted => table'.rows = <<>>
    <2>1. ASSUME ~table.mounted
          PROVE  table.rows = <<>> /\ DOMAIN table.rows = {}
      BY <2>1, Known DEF ViewsInv
    <2> QED
      BY <1>2, <2>1
  <1>6. ViewsInv'
    BY <1>2, <1>5, Known DEF ViewsInv
  <1>7. CallsOK(calls \ {c}) /\ \A d \in calls \ {c} : \E x \in calls : Aged(x, d)
    BY <1>0, SameCalls
  <1> DEFINE more == IF ok /\ ReloadsTable(c) THEN {LoadTasks(table.query, "nothing")} ELSE {}
  <1>8. \/ more = {}
        \/ \E d : /\ Fresh(d) /\ more = {d}
                  /\ d.by = "table" => table.mounted
                  /\ d.by = "graph" => graph.mounted
    <2>1. table.query \in Query
      BY <1>0 DEF TableRecord
    <2>2. Fresh(LoadTasks(table.query, "nothing")) /\ LoadTasks(table.query, "nothing").by = "table"
      BY <1>0, <2>1, LoadsAreFresh
    <2> QED
      BY <1>0, <1>1, <2>2 DEF ReloadsTable
  <1> HIDE DEF more
  <1>9. calls' = (calls \ {c}) \cup more
    BY <1>1 DEF more
  <1>10. TypeInv' /\ AreCallsAfter(calls')
    BY <1>1, <1>2, <1>4, <1>6, <1>7, <1>8, <1>9, EndTypes
  <1> QED
    BY <1>2, <1>10, <1>11

\* A node is clicked, or the throttle expires.
LEMMA ClickTypes ==
    ASSUME TypeInv, (\E id \in Ids : onNodeClick(id)) \/ PeriodEnds
    PROVE  /\ TypeInv' /\ AreCallsAfter(calls') /\ UNCHANGED <<serverVars, table>>
           /\ graph'.mounted = graph.mounted /\ graph'.tasks = graph.tasks
           /\ graph'.loaded = graph.loaded
  <1>0. graph \in GraphRecord
    BY Known
  <1>1. UNCHANGED <<stored, socket, wire, calls, events, doubt, table>>
    BY Zenon DEF onNodeClick, PeriodEnds, serverVars
  <1>2. /\ graph' \in GraphRecord /\ graph'.tasks = graph.tasks /\ graph'.mounted = graph.mounted
        /\ graph'.loaded = graph.loaded
        /\ graph'.selected = graph.selected \/ graph.drawn \cap Nodes(graph.tasks) # {}
    <2>1. ASSUME NEW id \in Ids, onNodeClick(id)
          PROVE  /\ graph' \in GraphRecord /\ graph'.tasks = graph.tasks
                 /\ graph'.mounted = graph.mounted /\ graph'.loaded = graph.loaded
                 /\ graph.drawn \cap Nodes(graph.tasks) # {}
      BY <1>0, <2>1 DEF onNodeClick, GraphRecord
    <2>2. ASSUME PeriodEnds
          PROVE  /\ graph' \in GraphRecord /\ graph'.tasks = graph.tasks
                 /\ graph'.mounted = graph.mounted /\ graph'.loaded = graph.loaded
                 /\ graph'.selected = graph.selected
      <3>1. Expired(graph.render) \in Throttles
        BY <1>0, CalledIs DEF GraphRecord
      <3>2. Nodes(graph.tasks) \in SUBSET Ids
        BY <1>0, TaskShape DEF Nodes, GraphRecord
      <3>3. graph' = [graph EXCEPT !.drawn = IF Trails(graph.render) THEN Nodes(graph.tasks) ELSE @,
                                   !.render = Expired(@)]
        BY <2>2 DEF PeriodEnds
      <3> QED
        BY <1>0, <3>1, <3>2, <3>3 DEF GraphRecord
    <2> QED
      BY <2>1, <2>2
  <1>3. ~graph.mounted => Nodes(graph.tasks) = {}
    BY Known DEF ViewsInv, Nodes
  <1>4. ViewsInv'
    BY <1>1, <1>2, <1>3, Known DEF ViewsInv
  <1>5. CallsOK(calls') /\ \A d \in calls' : \E c \in calls : Aged(c, d)
    BY <1>1, Known
  <1>6. TypeInv' /\ AreCallsAfter(calls')
    BY <1>1, <1>2, <1>4, <1>5, FewerTypes
  <1> QED
    BY <1>1, <1>2, <1>6 DEF serverVars

LEMMA CloseDialogTypes ==
    ASSUME TypeInv, CloseDialog
    PROVE  /\ TypeInv' /\ AreCallsAfter(calls')
           /\ UNCHANGED <<stored, socket, wire, events, doubt, table>>
           /\ graph'.mounted = graph.mounted /\ graph'.tasks = graph.tasks
           /\ graph'.loaded = graph.loaded
  <1>0. graph \in GraphRecord /\ CallsOK(calls)
    BY Known
  <1>1. /\ UNCHANGED <<stored, socket, wire, events, doubt, table>>
        /\ \/ calls' = DialogsClosed(calls, "graph") /\ graph' = graph
           \/ calls' = ButtonsGone(calls) /\ graph' = [graph EXCEPT !.selected = NoNode]
    BY DEF CloseDialog
  <1>2. CallsOK(calls') /\ \A d \in calls' : \E c \in calls : Aged(c, d)
    BY <1>0, <1>1, DialogsClosedIs, ButtonsGoneIs
  <1>3. /\ graph' \in GraphRecord /\ graph'.mounted = graph.mounted /\ graph'.tasks = graph.tasks
        /\ graph'.loaded = graph.loaded /\ graph'.selected \in {graph.selected, NoNode}
    <2>1. NoNode \in [id : Ids \cup {0}, on : BOOLEAN]
      BY DEF NoNode
    <2>2. CASE graph' = graph
      BY <1>0, <2>2
    <2>3. CASE graph' = [graph EXCEPT !.selected = NoNode]
      BY <1>0, <2>1, <2>3 DEF GraphRecord
    <2> QED
      BY <1>1, <2>2, <2>3
  <1>4. ViewsInv'
    BY <1>1, <1>3, Known DEF ViewsInv
  <1> QED
    BY <1>1, <1>2, <1>3, <1>4, FewerTypes

LEMMA GraphCommandTypes ==
    ASSUME TypeInv, GraphCommand
    PROVE  /\ TypeInv' /\ AreCallsAfter(calls')
           /\ UNCHANGED <<stored, socket, wire, events, doubt, table, graph>>
  <1>0. graph \in GraphRecord
    BY Known
  <1>1. ShownTasks \in SUBSET Task
    BY <1>0 DEF ShownTasks, GraphRecord
  <1>2. graph.mounted
    BY Known DEF GraphCommand, ViewsInv
  <1>3. PICK t \in ShownTasks : \E c \in Commands(t, "graph", 0) :
              calls' = calls \cup
                {IF c.what \in {"pause", "resume"} THEN [c EXCEPT !.on = graph.selected.on] ELSE c}
    BY DEF GraphCommand
  <1>10. PICK c \in Commands(t, "graph", 0) :
              calls' = calls \cup
                {IF c.what \in {"pause", "resume"} THEN [c EXCEPT !.on = graph.selected.on] ELSE c}
    BY <1>3
  <1>4. Fresh(c) /\ c.by = "graph"
    BY <1>1, <1>10, CommandsAreFresh
  <1>5. PICK d : d = IF c.what \in {"pause", "resume"} THEN [c EXCEPT !.on = graph.selected.on] ELSE c
    OBVIOUS
  <1>6. graph.selected.on \in BOOLEAN /\ c \in Call
    BY <1>0, <1>4 DEF GraphRecord, Fresh
  <1>7. /\ d \in Call /\ d.served = c.served /\ d.answer = c.answer /\ d.at = c.at /\ Key(d) = Key(c)
        /\ d.what = c.what /\ d.by = c.by /\ d.query = c.query /\ d.task = c.task
    BY <1>5, <1>6 DEF Call, Key
  <1>8. Fresh(d) /\ d.by = "graph"
    BY <1>4, <1>7 DEF Fresh
  <1>9. UNCHANGED <<stored, socket, wire, events, doubt, table, graph>>
    BY DEF GraphCommand
  <1> QED
    BY <1>2, <1>10, <1>5, <1>8, <1>9, CommandTypes

\* The map ts after the answer of a command: the objects of its task are replaced.
MapGiven(ts, c) == {IF InMap(c) /\ t.id = c.task.id THEN Assigned(t, c) ELSE t : t \in ts}

LEMMA MapAssigned ==
    ASSUME NEW c \in Call, CallShape(c), c.what = "reset" => c.served,
           NEW ts \in SUBSET Task, OnePerId(ts),
           NEW us, us = MapGiven(ts, c)
    PROVE  /\ us \in SUBSET Task /\ OnePerId(us)
           /\ ~InMap(c) => us = ts
           /\ \A id : id # c.task.id => Of(us, id) = Of(ts, id)
           /\ InMap(c) => Of(us, c.task.id) = {Assigned(t, c) : t \in Of(ts, c.task.id)}
  <1> DEFINE New(t) == IF InMap(c) /\ t.id = c.task.id THEN Assigned(t, c) ELSE t
  <1>1. \A t \in ts : New(t) \in Task /\ New(t).id = t.id
    <2> TAKE t \in ts
    <2>1. CASE InMap(c) /\ t.id = c.task.id
      BY <2>1, AssignedIs
    <2>2. CASE ~(InMap(c) /\ t.id = c.task.id)
      BY <2>2
    <2> QED
      BY <2>1, <2>2
  <1>2. us = {New(t) : t \in ts}
    BY DEF MapGiven
  <1>3. ~InMap(c) => us = ts
    BY DEF MapGiven
  <1>4. \A t \in ts : t.id # c.task.id => New(t) = t
    OBVIOUS
  <1>5. InMap(c) => \A t \in ts : t.id = c.task.id => New(t) = Assigned(t, c)
    OBVIOUS
  <1> HIDE DEF New
  <1>6. us \in SUBSET Task /\ OnePerId(us)
    BY <1>1, <1>2 DEF OnePerId
  <1>7. ASSUME NEW id, id # c.task.id
        PROVE  Of(us, id) = Of(ts, id)
    <2>1. \A t \in Of(ts, id) : t \in ts /\ t = New(t) /\ t.id = id
      BY <1>4, <1>7 DEF Of
    <2>2. ASSUME NEW u \in Of(us, id)
          PROVE  u \in ts
      <3>1. u \in us /\ u.id = id
        BY <2>2 DEF Of
      <3>2. PICK t \in ts : u = New(t)
        BY <1>2, <3>1
      <3> QED
        BY <1>1, <1>4, <1>7, <3>1, <3>2
    <2>3. Of(us, id) \subseteq Of(ts, id)
      BY <2>2 DEF Of
    <2>4. Of(ts, id) \subseteq Of(us, id)
      BY <1>2, <2>1 DEF Of
    <2> QED
      BY <2>3, <2>4
  <1>8. InMap(c) => Of(us, c.task.id) = {Assigned(t, c) : t \in Of(ts, c.task.id)}
    BY <1>1, <1>2, <1>5 DEF Of
  <1> QED
    BY <1>3, <1>6, <1>7, <1>8

\* A command of the graph has ended.
LEMMA GraphCommandEndsTypes ==
    ASSUME TypeInv, UNCHANGED table, NEW c \in calls, NEW ok \in BOOLEAN, GraphCommandEnds(c, ok)
    PROVE  /\ TypeInv' /\ AreCallsAfter(calls')
           /\ graph'.mounted = graph.mounted /\ graph'.loaded = graph.loaded
           /\ \/ graph'.tasks = graph.tasks /\ doubt' = doubt
              \/ /\ c.on /\ c.served /\ doubt' = doubt \cup (c.news \cap {c.task.id})
                 /\ \A id : id # c.task.id => Of(graph'.tasks, id) = Of(graph.tasks, id)
                 /\ Of(graph'.tasks, c.task.id) = {Assigned(t, c) : t \in Of(graph.tasks, c.task.id)}
  <1>0. /\ c \in Call /\ CallShape(c) /\ CallsOK(calls) /\ graph \in GraphRecord
        /\ c.on /\ c.by = "graph" => graph.mounted
        /\ OnePerId(graph.tasks) /\ graph.tasks \in SUBSET Task
    BY Known DEF ViewsInv, GraphRecord
  <1> DEFINE ts == MapGiven(graph.tasks, c)
             g  == IF Redraws(c) THEN Render(graph, ts) ELSE [graph EXCEPT !.tasks = ts]
             more == IF ok /\ ReloadsGraph(c) THEN {LoadGraph("nothing")} ELSE {}
  <1>1. /\ c.what \in OfTask /\ c.by = "graph" /\ (ok => c.served)
        /\ UNCHANGED <<stored, socket, wire, events>>
        /\ calls' = (calls \ {c}) \cup more
        /\ graph' = IF ~ok THEN graph ELSE [g EXCEPT !.loading = @ \/ ReloadsGraph(c)]
        /\ doubt' = IF ok /\ InMap(c) THEN doubt \cup (c.news \cap {c.task.id}) ELSE doubt
    BY DEF GraphCommandEnds, Ends, MapGiven
  <1>2. InMap(c) => c.on
    BY DEF InMap
  <1>3. ok =>
        /\ ts \in SUBSET Task /\ OnePerId(ts)
        /\ ~InMap(c) => ts = graph.tasks
        /\ \A id : id # c.task.id => Of(ts, id) = Of(graph.tasks, id)
        /\ InMap(c) => Of(ts, c.task.id) = {Assigned(t, c) : t \in Of(graph.tasks, c.task.id)}
    <2> HAVE ok
    <2>1. \A us : us = ts =>
             /\ us \in SUBSET Task /\ OnePerId(us)
             /\ ~InMap(c) => us = graph.tasks
             /\ \A id : id # c.task.id => Of(us, id) = Of(graph.tasks, id)
             /\ InMap(c) => Of(us, c.task.id) = {Assigned(t, c) : t \in Of(graph.tasks, c.task.id)}
      <3>1. c.what = "reset" => c.served
        BY <1>1
      <3>2. PICK old : old = graph.tasks
        OBVIOUS
      <3>3. old \in SUBSET Task /\ OnePerId(old)
        BY <1>0, <3>2
      <3>4. TAKE us
      <3>5. HAVE us = ts
      <3>6. us = MapGiven(old, c)
        BY <3>2, <3>5
      <3>7. /\ us \in SUBSET Task /\ OnePerId(us)
            /\ ~InMap(c) => us = old
            /\ \A id : id # c.task.id => Of(us, id) = Of(old, id)
            /\ InMap(c) => Of(us, c.task.id) = {Assigned(t, c) : t \in Of(old, c.task.id)}
        BY <1>0, <1>2, <3>1, <3>3, <3>6, MapAssigned
      <3> QED
        BY <3>2, <3>7
    <2> HIDE DEF ts
    <2> QED
      BY <2>1, Zenon
  <1> HIDE DEF ts
  <1>4. ok => /\ g \in GraphRecord /\ g.tasks = ts /\ g.mounted = graph.mounted
              /\ g.loaded = graph.loaded /\ g.selected = graph.selected
    <2> HAVE ok
    <2>1. \A h : h = Render(graph, ts) => /\ h \in GraphRecord /\ h.tasks = ts
                                          /\ h.mounted = graph.mounted
                                          /\ h.loaded = graph.loaded /\ h.selected = graph.selected
      BY <1>0, <1>3, RenderIs
    <2>2. \A h : h = [graph EXCEPT !.tasks = ts] =>
                                          /\ h \in GraphRecord /\ h.tasks = ts
                                          /\ h.mounted = graph.mounted
                                          /\ h.loaded = graph.loaded /\ h.selected = graph.selected
      BY <1>0, <1>3 DEF GraphRecord
    <2>3. CASE Redraws(c)
      <3>1. g = Render(graph, ts)
        BY <2>3
      <3> QED
        BY <2>1, <3>1, Zenon
    <2>4. CASE ~Redraws(c)
      <3>1. g = [graph EXCEPT !.tasks = ts]
        BY <2>4
      <3> QED
        BY <2>2, <3>1, Zenon
    <2> QED
      BY <2>3, <2>4
  <1> HIDE DEF g
  <1>5. CASE ok
    <2>1. /\ graph' \in GraphRecord /\ graph'.tasks = ts /\ graph'.mounted = graph.mounted
          /\ graph'.loaded = graph.loaded /\ graph'.selected = graph.selected
      BY <1>1, <1>4, <1>5 DEF GraphRecord
    <2>2. ~graph.mounted => graph.tasks = {} /\ graph.selected = NoNode /\ ~graph.loaded
      BY Known DEF ViewsInv
    <2>3. ~graph.mounted => ts = {}
      BY <1>0, <1>1, <1>2, <1>3, <1>5, <2>2
    <2>4. ViewsInv'
      BY <1>3, <1>5, <2>1, <2>2, <2>3, Known DEF ViewsInv
    <2>5. doubt' \subseteq Ids
      <3>1. c.news \subseteq Ids
        BY <1>0 DEF Call
      <3> QED
        BY <1>1, <3>1, Known
    <2>6. CallsOK(calls \ {c}) /\ \A d \in calls \ {c} : \E x \in calls : Aged(x, d)
      BY <1>0, SameCalls
    <2>7. \/ more = {}
          \/ \E d : /\ Fresh(d) /\ more = {d}
                    /\ d.by = "table" => table.mounted
                    /\ d.by = "graph" => graph.mounted
      <3>1. Fresh(LoadGraph("nothing")) /\ LoadGraph("nothing").by = "graph"
        BY <1>0, LoadsAreFresh
      <3> QED
        BY <1>0, <1>1, <3>1 DEF ReloadsGraph
    <2> HIDE DEF more
    <2>8. TypeInv' /\ AreCallsAfter(calls')
      BY <1>1, <2>1, <2>4, <2>5, <2>6, <2>7, EndTypes
    <2> QED
      BY <1>1, <1>2, <1>3, <1>5, <2>1, <2>8
  <1>6. CASE ~ok
    <2>1. graph' = graph /\ table' = table /\ doubt' = doubt /\ calls' = calls \ {c}
      BY <1>1, <1>6
    <2>2. ViewsInv'
      BY <2>1, Known DEF ViewsInv
    <2>3. CallsOK(calls \ {c}) /\ \A d \in calls \ {c} : \E x \in calls : Aged(x, d)
      BY <1>0, SameCalls
    <2>4. TypeInv' /\ AreCallsAfter(calls')
      BY <1>1, <2>1, <2>2, <2>3, FewerTypes
    <2> QED
      BY <2>1, <2>4
  <1> QED
    BY <1>5, <1>6

\* A load of the table has ended.
LEMMA TableLoadedTypes ==
    ASSUME TypeInv, NEW c \in calls, NEW ok \in BOOLEAN, TableLoaded(c, ok)
    PROVE  /\ TypeInv' /\ AreCallsAfter(calls') /\ UNCHANGED <<stored, socket, wire, events>>
           /\ graph'.mounted = graph.mounted /\ graph'.tasks = graph.tasks
           /\ graph'.loaded = graph.loaded
           /\ \/ /\ table'.rows = table.rows /\ table'.loaded = table.loaded
                 /\ table'.of = table.of /\ doubt' = doubt
              \/ /\ c.what = "load" /\ c.by = "table" /\ c.on /\ c.served
                 /\ table'.rows = c.answer /\ table'.loaded /\ table'.of = c.query
                 /\ doubt' = DoubtAfterLoad(c)
  <1>0. /\ c \in Call /\ CallShape(c) /\ CallsOK(calls)
        /\ table \in TableRecord /\ graph \in GraphRecord
        /\ c.on /\ c.by = "table" => table.mounted
    BY Known
  <1> DEFINE next == IF LoadsGraphNext(c) THEN {LoadGraph(c.then)} ELSE {}
             left == calls \ {c}
             n == Len(c.answer)
  <1>1. /\ UNCHANGED <<stored, socket, wire, events>> /\ c.what = "load" /\ c.by = "table"
        /\ graph' = [graph EXCEPT !.loading = @ \/ LoadsGraphNext(c)]
        /\ \/ /\ table' = [table EXCEPT !.rows = c.answer, !.loaded = TRUE, !.of = c.query,
                                        !.loading = StillLoading(table, c)]
              /\ calls' = RowsReplaced(left, n) \cup next
              /\ doubt' = DoubtAfterLoad(c) /\ c.on /\ c.served
           \/ /\ table' = [table EXCEPT !.loading = StillLoading(table, c)]
              /\ calls' = left \cup next
              /\ doubt' = doubt
    BY Zenon DEF TableLoaded, TableLoadEnds, Ends
  <1>2. \/ next = {}
        \/ \E d : /\ Fresh(d) /\ next = {d}
                  /\ d.by = "table" => table.mounted
                  /\ d.by = "graph" => graph.mounted
    <2>1. c.then \in {"nothing"} \cup OfGroup
      BY <1>0 DEF Call
    <2>2. Fresh(LoadGraph(c.then)) /\ LoadGraph(c.then).by = "graph"
      BY <1>0, <2>1, LoadsAreFresh
    <2> QED
      BY <2>2 DEF LoadsGraphNext
  <1> HIDE DEF next, n
  <1>3. CallsOK(left) /\ \A d \in left : \E x \in calls : Aged(x, d)
    BY <1>0, SameCalls
  <1>4. PICK ds : /\ calls' = ds \cup next /\ CallsOK(ds)
                  /\ \A d \in ds : \E x \in calls : Aged(x, d)
    <2>1. CASE calls' = left \cup next
      BY <1>3, <2>1
    <2>2. CASE calls' = RowsReplaced(left, n) \cup next
      <3>1. PICK ds : ds = RowsReplaced(left, n)
        OBVIOUS
      <3>2. CallsOK(ds) /\ \A d \in ds : \E x \in left : Aged(x, d)
        BY <1>3, <3>1, RowsReplacedIs
      <3> QED
        BY <2>2, <3>1, <3>2
    <2> QED
      BY <1>1, <2>1, <2>2
  <1>5. /\ graph' \in GraphRecord /\ graph'.mounted = graph.mounted /\ graph'.tasks = graph.tasks
        /\ graph'.loaded = graph.loaded /\ graph'.selected = graph.selected
    BY <1>0, <1>1 DEF GraphRecord
  <1>6. /\ table' \in TableRecord /\ table'.mounted = table.mounted
        /\ \/ /\ table'.rows = table.rows /\ table'.loaded = table.loaded
              /\ table'.of = table.of /\ doubt' = doubt
           \/ /\ c.on /\ c.served
              /\ table'.rows = c.answer /\ table'.loaded /\ table'.of = c.query
              /\ doubt' = DoubtAfterLoad(c)
    <2>1. StillLoading(table, c) \in BOOLEAN
      BY <1>0 DEF StillLoading, TableRecord
    <2>2. c.answer \in Seq(Task) /\ c.query \in Query
      BY <1>0 DEF Call
    <2> QED
      BY <1>0, <1>1, <2>1, <2>2 DEF TableRecord
  <1>7. ViewsInv'
    BY <1>0, <1>1, <1>5, <1>6, Known DEF ViewsInv
  <1>8. doubt' \subseteq Ids
    <2>1. c.news \subseteq Ids
      BY <1>0 DEF Call
    <2> QED
      BY <1>6, <2>1, Known DEF DoubtAfterLoad
  <1> HIDE DEF left
  <1>9. TypeInv' /\ AreCallsAfter(calls')
    BY <1>1, <1>2, <1>4, <1>5, <1>6, <1>7, <1>8, EndTypes
  <1> QED
    BY <1>1, <1>5, <1>6, <1>9

\* A load of the graph has ended.
LEMMA GraphLoadEndsTypes ==
    ASSUME TypeInv, UNCHANGED table, NEW c \in calls, NEW ok \in BOOLEAN,
           GraphLoadEnds(c, ok, {})
    PROVE  /\ TypeInv' /\ AreCallsAfter(calls') /\ UNCHANGED <<stored, socket, wire, events>>
           /\ graph'.mounted = graph.mounted
           /\ \/ graph'.tasks = graph.tasks /\ graph'.loaded = graph.loaded /\ doubt' = doubt
              \/ /\ c.what = "load" /\ c.by = "graph" /\ c.on /\ c.served
                 /\ graph'.loaded
                 /\ \A id : Of(graph'.tasks, id) = IF id \in IdsOf(c.answer) THEN Of(ToSet(c.answer), id)
                                                   ELSE Of(graph.tasks, id)
                 /\ doubt' = DoubtAfterLoad(c) \cup (doubt \ IdsOf(c.answer))
  <1>0. /\ c \in Call /\ CallShape(c) /\ CallsOK(calls) /\ graph \in GraphRecord
        /\ c.on /\ c.by = "graph" => graph.mounted
        /\ OnePerId(graph.tasks)
    BY Known DEF ViewsInv
  <1> DEFINE left == calls \ {c}
             ids == IdsOf(c.answer)
             g == Loaded(graph, c.answer)
             b == graph.selected.id \notin ids
  <1>1. /\ UNCHANGED <<stored, socket, wire, events>> /\ c.what = "load" /\ c.by = "graph"
        /\ \/ /\ graph' = [g EXCEPT !.loading = StillLoading(graph, c), !.loaded = TRUE,
                                    !.selected.on = @ /\ b]
              /\ calls' = Detached(left, ids) \cup {}
              /\ doubt' = DoubtAfterLoad(c) \cup (doubt \ ids) /\ c.on /\ c.served
           \/ /\ graph' = [graph EXCEPT !.loading = StillLoading(graph, c)]
              /\ calls' = left \cup {}
              /\ doubt' = doubt
    BY Zenon DEF GraphLoadEnds, Ends
  <1>2. c.answer \in Seq(Task) /\ Distinct(c.answer)
    BY <1>0 DEF Call, CallShape
  <1>3. /\ g \in GraphRecord /\ OnePerId(g.tasks)
        /\ g.mounted = graph.mounted /\ g.loading = graph.loading /\ g.loaded = graph.loaded
        /\ g.selected = graph.selected
        /\ \A id : Of(g.tasks, id) = IF id \in ids THEN Of(ToSet(c.answer), id)
                                     ELSE Of(graph.tasks, id)
    BY <1>0, <1>2, LoadedIs
  <1> HIDE DEF g, b
  <1>4. CallsOK(left) /\ \A d \in left : \E x \in calls : Aged(x, d)
    BY <1>0, SameCalls
  <1>5. CallsOK(calls') /\ \A d \in calls' : \E x \in calls : Aged(x, d)
    <2>1. CASE calls' = left \cup {}
      BY <1>4, <2>1
    <2>2. CASE calls' = Detached(left, ids) \cup {}
      <3>1. calls' = Detached(left, ids)
        BY <2>2
      <3>2. CallsOK(calls') /\ \A d \in calls' : \E x \in left : Aged(x, d)
        BY <1>4, <3>1, DetachedIs, ZenonT(30)
      <3> QED
        BY <3>2
    <2> QED
      BY <1>1, <2>1, <2>2
  <1>6. StillLoading(graph, c) \in BOOLEAN
    BY <1>0 DEF StillLoading, GraphRecord
  <1>7. /\ graph' \in GraphRecord /\ graph'.mounted = graph.mounted
        /\ \/ graph'.tasks = graph.tasks /\ graph'.loaded = graph.loaded /\ doubt' = doubt
              /\ graph'.selected = graph.selected
           \/ /\ c.on /\ c.served /\ graph'.loaded /\ graph'.tasks = g.tasks
              /\ doubt' = DoubtAfterLoad(c) \cup (doubt \ ids)
    <2>1. CASE /\ graph' = [g EXCEPT !.loading = StillLoading(graph, c), !.loaded = TRUE,
                                     !.selected.on = @ /\ b]
               /\ doubt' = DoubtAfterLoad(c) \cup (doubt \ ids) /\ c.on /\ c.served
      <3>1. PICK h : h = [g EXCEPT !.loading = StillLoading(graph, c), !.loaded = TRUE]
        OBVIOUS
      <3>2. h \in GraphRecord /\ h.mounted = g.mounted /\ h.tasks = g.tasks /\ h.loaded
        BY <1>3, <1>6, <3>1 DEF GraphRecord
      <3>3. graph' = [h EXCEPT !.selected.on = @ /\ b]
        BY <1>3, <2>1, <3>1 DEF GraphRecord
      <3>4. graph' \in GraphRecord /\ graph'.mounted = h.mounted /\ graph'.tasks = h.tasks
            /\ graph'.loaded = h.loaded
        BY <3>2, <3>3, SelectedIs
      <3> QED
        BY <1>3, <2>1, <3>2, <3>4
    <2>2. CASE graph' = [graph EXCEPT !.loading = StillLoading(graph, c)] /\ doubt' = doubt
      BY <1>0, <1>6, <2>2 DEF GraphRecord
    <2> QED
      BY <1>1, <2>1, <2>2
  <1>8. ViewsInv'
    BY <1>0, <1>1, <1>3, <1>7, Known DEF ViewsInv
  <1>9. doubt' \subseteq Ids
    <2>1. c.news \subseteq Ids
      BY <1>0 DEF Call
    <2> QED
      BY <1>7, <2>1, Known DEF DoubtAfterLoad
  <1> HIDE DEF left, ids
  <1>10. TypeInv' /\ AreCallsAfter(calls')
    <2>1. AreCallsAfter(calls') /\ \A d \in calls' : ~Fresh(d)
      BY <1>0, <1>5, OlderCalls
    <2> QED
      BY <1>1, <1>7, <1>8, <1>9, <2>1, PageStep
  <1> QED
    BY <1>1, <1>3, <1>7, <1>10 DEF ids

\* A button of the group was pressed, or its call has ended.
LEMMA GroupTypes ==
    ASSUME TypeInv,
           \/ \E what \in GroupCommands : GroupCommand(what)
           \/ \E c \in calls, ok \in BOOLEAN : GroupCommandEnds(c, ok)
    PROVE  /\ TypeInv' /\ AreCallsAfter(calls') /\ UNCHANGED <<stored, socket, wire, events, doubt>>
           /\ graph'.mounted = graph.mounted /\ graph'.tasks = graph.tasks
           /\ graph'.loaded = graph.loaded
           /\ table'.rows = table.rows /\ table'.loaded = table.loaded /\ table'.of = table.of
  <1>0. CallsOK(calls) /\ table \in TableRecord /\ graph \in GraphRecord
    BY Known
  <1>1. ASSUME NEW what \in GroupCommands, GroupCommand(what)
        PROVE  /\ TypeInv' /\ AreCallsAfter(calls')
               /\ UNCHANGED <<stored, socket, wire, events, doubt, table, graph>>
    <2>1. what \in OfGroup /\ what \in {"load"} \cup OfTask \cup OfGroup
          /\ "page" \in {"table", "graph", "page"} /\ NoTask \in Task \cup {NoTask}
      BY ViewsAssumption
    <2>2. PICK d : d = NewCall(what, "page", All, NoTask)
      OBVIOUS
    <2>3. /\ d \in Call /\ d.what = what /\ d.by = "page"
          /\ ~d.served /\ d.answer = <<>> /\ d.at = 0 /\ \A x \in calls : Key(x) # Key(d)
      BY <1>0, <2>1, <2>2, NewCallIs, AllIsAQuery
    <2>4. Fresh(d)
      BY <2>1, <2>3 DEF Fresh, OfTask, OfGroup
    <2>5. /\ calls' = calls \cup {d}
          /\ UNCHANGED <<stored, socket, wire, events, doubt, table, graph>>
      BY <1>1, <2>2 DEF GroupCommand
    <2> QED
      BY <2>3, <2>4, <2>5, CommandTypes
  <1>2. ASSUME NEW c \in calls, NEW ok \in BOOLEAN, GroupCommandEnds(c, ok)
        PROVE  /\ TypeInv' /\ AreCallsAfter(calls') /\ UNCHANGED <<stored, socket, wire, events, doubt>>
               /\ graph'.mounted = graph.mounted /\ graph'.tasks = graph.tasks
               /\ graph'.loaded = graph.loaded
               /\ table'.rows = table.rows /\ table'.loaded = table.loaded /\ table'.of = table.of
    <2> DEFINE next == IF ok /\ table.mounted THEN {LoadTasks(table.query, c.what)}
                       ELSE IF ok /\ graph.mounted THEN {LoadGraph(c.what)} ELSE {}
    <2>1. /\ c.by = "page" /\ calls' = (calls \ {c}) \cup next
          /\ table' = [table EXCEPT !.loading = @ \/ (ok /\ table.mounted)]
          /\ graph' = [graph EXCEPT !.loading = @ \/ (ok /\ graph.mounted)]
          /\ UNCHANGED <<stored, socket, wire, events, doubt>>
      BY <1>2 DEF GroupCommandEnds
    <2>2. c.what \in OfGroup /\ table.query \in Query
      BY <1>0, <2>1, Known DEF CallShape, TableRecord
    <2>3. /\ Fresh(LoadTasks(table.query, c.what)) /\ LoadTasks(table.query, c.what).by = "table"
          /\ Fresh(LoadGraph(c.what)) /\ LoadGraph(c.what).by = "graph"
      BY <1>0, <2>2, LoadsAreFresh
    <2>4. \/ next = {}
          \/ \E d : /\ Fresh(d) /\ next = {d}
                    /\ d.by = "table" => table.mounted
                    /\ d.by = "graph" => graph.mounted
      BY <2>3
    <2> HIDE DEF next
    <2>5. /\ table' \in TableRecord /\ table'.mounted = table.mounted /\ table'.rows = table.rows
          /\ table'.loaded = table.loaded /\ table'.of = table.of
      BY <1>0, <2>1 DEF TableRecord
    <2>6. /\ graph' \in GraphRecord /\ graph'.mounted = graph.mounted /\ graph'.tasks = graph.tasks
          /\ graph'.loaded = graph.loaded /\ graph'.selected = graph.selected
      BY <1>0, <2>1 DEF GraphRecord
    <2>7. ViewsInv' /\ doubt' \subseteq Ids
      BY <2>1, <2>5, <2>6, Known DEF ViewsInv
    <2>8. CallsOK(calls \ {c}) /\ \A d \in calls \ {c} : \E x \in calls : Aged(x, d)
      BY <1>0, SameCalls
    <2>9. TypeInv' /\ AreCallsAfter(calls')
      BY <2>1, <2>4, <2>5, <2>6, <2>7, <2>8, EndTypes
    <2> QED
      BY <2>1, <2>5, <2>6, <2>9
  <1> QED
    BY <1>1, <1>2

\* The calls ds are those in flight, of which the page has had news of ids as of event n.
Informed(ds, ids, n) ==
    \A d \in ds : \E c \in calls :
        /\ Aged(c, d)
        /\ c.served /\ Shows(c) /\ c.at < n => ids \subseteq d.news

\* WithNews informs the calls.
LEMMA InformedIs ==
    ASSUME NEW cs, CallsOK(cs), \A d \in cs : \E c \in calls : Aged(c, d),
           NEW ids \in SUBSET Ids, NEW n, NEW ds, ds = WithNews(cs, ids, n)
    PROVE  CallsOK(ds) /\ Informed(ds, ids, n) /\ \A d \in ds : \E c \in calls : Aged(c, d)
  <1>1. CallsOK(ds)
        /\ \A d \in ds : \E c \in cs :
              /\ Aged(c, d)
              /\ IF c.served /\ Shows(c) /\ c.at < n THEN d.news = c.news \cup ids ELSE d = c
    BY WithNewsIs
  <1>2. ASSUME NEW d \in ds
        PROVE  \E c \in calls : /\ Aged(c, d)
                                /\ c.served /\ Shows(c) /\ c.at < n => ids \subseteq d.news
    <2>1. PICK b \in cs :
              /\ Aged(b, d)
              /\ b.served /\ Shows(b) /\ b.at < n => d.news = b.news \cup ids
      BY <1>1
    <2>2. PICK c \in calls : Aged(c, b)
      OBVIOUS
    <2>3. Aged(c, d)
      BY <2>1, <2>2, AgedIsTransitive
    <2>4. c.served = b.served /\ Shows(c) = Shows(b) /\ c.at = b.at
      BY <2>2 DEF Aged, Shows
    <2> QED
      BY <2>1, <2>3, <2>4
  <1> QED
    BY <1>1, <1>2 DEF Informed

\* The first event of the wire and the others.
LEMMA HeadIs ==
    ASSUME TypeInv, wire # <<>>
    PROVE  /\ Head(wire) = wire[1] /\ 1 \in DOMAIN wire /\ Head(wire) \in Event
           /\ Tail(wire) \in Seq(Event) /\ Len(Tail(wire)) = Len(wire) - 1 /\ Len(wire) \in Nat
           /\ DOMAIN wire = 1 .. Len(wire) /\ DOMAIN Tail(wire) = 1 .. (Len(wire) - 1)
           /\ \A i \in 1 .. (Len(wire) - 1) : Tail(wire)[i] = wire[i + 1]
  <1>1. wire \in Seq(Event)
    BY DEF TypeInv, ServerInv
  <1> QED
    BY <1>1, HeadTailProperties

\* The rows after an event.
LEMMA RowsAfterIs ==
    ASSUME TypeInv, NEW e \in Event, NEW new, new = RowsAfter(e)
    PROVE  /\ e.type = "update" => new = taskUpdated(table.rows, e.task)
           /\ e.type = "delete" => new = taskDeleted(table.rows, e.task)
           /\ e.type = "create" => new \in {table.rows, Append(table.rows, e.task)}
           /\ new \in Seq(Task)
           /\ e.type \in {"create", "update", "delete"} /\ e.task \in Task
           /\ table.rows \in Seq(Task)
  <1>1. /\ e.type \in {"create", "update", "delete"} /\ e.task \in Task
        /\ table.rows \in Seq(Task)
    BY Known, EventShape DEF TableRecord
  <1>2. /\ e.type = "update" => new = taskUpdated(table.rows, e.task)
        /\ e.type = "delete" => new = taskDeleted(table.rows, e.task)
        /\ e.type = "create" => new = taskCreated(table.rows, e.task)
    BY DEF RowsAfter
  <1>3. e.type = "create" => new \in {table.rows, Append(table.rows, e.task)}
    BY <1>2 DEF taskCreated
  <1>4. new \in Seq(Task)
    BY <1>1, <1>2, <1>3, UpdatedIs, DeletedIs, AppendIs
  <1> QED
    BY <1>1, <1>2, <1>3, <1>4

\* The table, the graph or neither handles the first event.
LEMMA TableReceivesTypes ==
    ASSUME TypeInv, UNCHANGED graph, NEW e, TableReceives(e)
    PROVE  /\ TypeInv' /\ AreCallsAfter(calls') /\ Informed(calls', {e.task.id}, e.at)
           /\ e = Head(wire) /\ wire # <<>> /\ wire' = Tail(wire) /\ e \in Event
           /\ UNCHANGED <<stored, events>>
           /\ table'.rows = RowsAfter(e) /\ table'.loaded = table.loaded /\ table'.of = table.of
           /\ doubt' = IF e.type = "create"
                          /\ (e.task.id \in IdsOf(table.rows) \/ RowsAfter(e) = table.rows)
                       THEN doubt \cup {e.task.id} ELSE doubt
  <1> DEFINE k == IF e.type = "delete" THEN FirstRow(table.rows, e.task.id) ELSE 0
             n == Len(RowsAfter(e))
             cs == IF k = 0 THEN calls ELSE RowRemoved(calls, k, n)
             new == RowsAfter(e)
  <1>1. /\ table.mounted /\ e = Head(wire) /\ wire # <<>> /\ wire' = Tail(wire)
        /\ UNCHANGED <<stored, socket, events>>
        /\ table' = [table EXCEPT !.rows = new]
        /\ calls' = WithNews(cs, {e.task.id}, e.at)
        /\ doubt' = IF e.type = "create" /\ (e.task.id \in IdsOf(table.rows) \/ new = table.rows)
                    THEN doubt \cup {e.task.id} ELSE doubt
    BY DEF TableReceives, Receive
  <1>2. e \in Event /\ {e.task.id} \in SUBSET Ids
    BY <1>1, HeadIs, EventShape
  <1>3. new \in Seq(Task)
    BY <1>2, RowsAfterIs
  <1> HIDE DEF n, new
  <1>4. CallsOK(cs) /\ \A d \in cs : \E c \in calls : Aged(c, d)
    <2>1. k \in Nat
      BY <1>2, Known, FirstRowIs, EventShape DEF TableRecord
    <2> HIDE DEF k
    <2>2. CASE k = 0
      BY <2>2, Known
    <2>3. CASE k # 0
      <3>1. cs = RowRemoved(calls, k, n)
        BY <2>3
      <3> HIDE DEF cs
      <3> QED
        BY <2>1, <3>1, Known, RowRemovedIs
    <2> QED
      BY <2>2, <2>3
  <1> HIDE DEF cs
  <1>5. /\ CallsOK(calls') /\ Informed(calls', {e.task.id}, e.at)
        /\ \A d \in calls' : \E c \in calls : Aged(c, d)
    BY <1>1, <1>2, <1>4, InformedIs
  <1>6. /\ table' \in TableRecord /\ table'.mounted = table.mounted /\ table'.rows = new
        /\ table'.loaded = table.loaded /\ table'.of = table.of
    BY <1>1, <1>3, Known DEF TableRecord
  <1>7. ViewsInv' /\ doubt' \subseteq Ids
    BY <1>1, <1>2, <1>6, Known DEF ViewsInv
  <1>8. AreCallsAfter(calls') /\ \A d \in calls' : ~Fresh(d)
    BY <1>5, Known, OlderCalls
  <1>9. TypeInv'
    BY <1>1, <1>6, <1>7, <1>8, PageStep
  <1> QED
    BY <1>1, <1>2, <1>5, <1>6, <1>8, <1>9 DEF new

LEMMA GraphReceivesTypes ==
    ASSUME TypeInv, NEW e, GraphReceives(e)
    PROVE  /\ TypeInv' /\ AreCallsAfter(calls') /\ Informed(calls', {e.task.id}, e.at)
           /\ e = Head(wire) /\ wire # <<>> /\ wire' = Tail(wire) /\ e \in Event
           /\ UNCHANGED <<stored, events, doubt, table>>
           /\ graph.mounted /\ graph'.mounted = graph.mounted /\ graph'.loaded = graph.loaded
           /\ graph'.tasks = IF Throws(e) THEN graph.tasks ELSE MapAfter(e)
           /\ ~Throws(e) => \A id : Of(graph'.tasks, id) =
                                       IF id # e.task.id THEN Of(graph.tasks, id)
                                       ELSE IF e.type = "delete" THEN {} ELSE {e.task}
  <1> DEFINE cs == IF e.type = "update" THEN calls ELSE Detached(calls, {e.task.id})
             g == Render(graph, MapAfter(e))
             b == (e.type = "update" \/ graph.selected.id # e.task.id)
  <1>1. /\ graph.mounted /\ e = Head(wire) /\ wire # <<>> /\ wire' = Tail(wire)
        /\ UNCHANGED <<stored, socket, events, doubt, table>>
        /\ calls' = WithNews(cs, {e.task.id}, e.at)
        /\ graph' = IF Throws(e) THEN graph ELSE [g EXCEPT !.selected.on = @ /\ b]
    BY DEF GraphReceives, Receive
  <1>2. e \in Event /\ {e.task.id} \in SUBSET Ids /\ e.task \in Task
    BY <1>1, HeadIs, EventShape
  <1>3. CallsOK(cs) /\ \A d \in cs : \E c \in calls : Aged(c, d)
    <2>1. CASE e.type = "update"
      BY <2>1, Known
    <2>2. CASE e.type # "update"
      <3>1. cs = Detached(calls, {e.task.id})
        BY <2>2
      <3> HIDE DEF cs
      <3> QED
        BY <3>1, Known, DetachedIs
    <2> QED
      BY <2>1, <2>2
  <1> HIDE DEF cs
  <1>4. /\ CallsOK(calls') /\ Informed(calls', {e.task.id}, e.at)
        /\ \A d \in calls' : \E c \in calls : Aged(c, d)
    BY <1>1, <1>2, <1>3, InformedIs
  <1>5. graph \in GraphRecord /\ OnePerId(graph.tasks) /\ graph.tasks \in SUBSET Task
    BY Known DEF ViewsInv, GraphRecord
  <1>6. /\ MapAfter(e) \in SUBSET Task /\ OnePerId(MapAfter(e))
        /\ \A id : Of(MapAfter(e), id) = IF id # e.task.id THEN Of(graph.tasks, id)
                                         ELSE IF e.type = "delete" THEN {} ELSE {e.task}
    <2>1. CASE e.type = "delete"
      <3>1. MapAfter(e) = {t \in graph.tasks : t.id # e.task.id}
        BY <2>1 DEF MapAfter
      <3> QED
        BY <1>5, <2>1, <3>1 DEF OnePerId, Of
    <2>2. CASE e.type # "delete"
      <3>1. PICK old, t, new : old = graph.tasks /\ t = e.task /\ new = Put(old, t)
        OBVIOUS
      <3>2. MapAfter(e) = new
        BY <2>2, <3>1 DEF MapAfter
      <3>3. old \in SUBSET Task /\ OnePerId(old) /\ t \in Task /\ new = Put(old, t)
        BY <1>2, <1>5, <3>1
      <3>4. /\ new \in SUBSET Task /\ OnePerId(new)
            /\ Of(new, t.id) = {t} /\ \A id : id # t.id => Of(new, id) = Of(old, id)
        BY <3>3, PutIs
      <3> QED
        BY <2>2, <3>1, <3>2, <3>4
    <2> QED
      BY <2>1, <2>2
  <1>7. /\ g \in GraphRecord /\ g.tasks = MapAfter(e)
        /\ g.mounted = graph.mounted /\ g.loaded = graph.loaded
    BY <1>5, <1>6, RenderIs
  <1> HIDE DEF g, b
  <1>8. /\ graph' \in GraphRecord /\ graph'.mounted = graph.mounted /\ graph'.loaded = graph.loaded
        /\ graph'.tasks = IF Throws(e) THEN graph.tasks ELSE MapAfter(e)
    <2>1. CASE Throws(e)
      BY <1>1, <1>5, <2>1
    <2>2. CASE ~Throws(e)
      <3>1. graph' = [g EXCEPT !.selected.on = @ /\ b]
        BY <1>1, <2>2
      <3> QED
        BY <1>7, <2>2, <3>1, SelectedIs
    <2> QED
      BY <2>1, <2>2
  <1>9. ViewsInv' /\ doubt' \subseteq Ids
    BY <1>1, <1>5, <1>6, <1>8, Known DEF ViewsInv
  <1>10. AreCallsAfter(calls') /\ \A d \in calls' : ~Fresh(d)
    BY <1>4, Known, OlderCalls
  <1>11. TypeInv'
    BY <1>1, <1>8, <1>9, <1>10, PageStep
  <1> QED
    BY <1>1, <1>2, <1>4, <1>6, <1>8, <1>10, <1>11

LEMMA SettingsReceiveTypes ==
    ASSUME TypeInv, NEW e, Receive(e), UNCHANGED <<calls, doubt, table, graph>>
    PROVE  TypeInv' /\ AreCallsAfter(calls')
  <1>1. AreCallsAfter(calls') /\ \A d \in calls' : ~Fresh(d)
    <2>1. CallsOK(calls') /\ \A d \in calls' : \E c \in calls : Aged(c, d)
      BY Known
    <2> QED
      BY <2>1, Known, OlderCalls
  <1>2. ViewsInv' /\ doubt' \subseteq Ids
    BY Known DEF ViewsInv
  <1> QED
    BY <1>1, <1>2, PageStep DEF Receive

\* Views are unmounted and calls go on for nobody.
LEMMA OpenTabTypes ==
    ASSUME TypeInv, NEW tab \in Tabs, OpenTab(tab)
    PROVE  /\ TypeInv' /\ AreCallsAfter(calls') /\ UNCHANGED <<stored, wire, events, doubt>>
           /\ table'.rows = <<>> /\ ~table'.loaded
           /\ graph'.tasks = {} /\ ~graph'.loaded
           /\ \A d \in calls' : d.served => ~d.on \/ d.by = "page"
  <1> DEFINE Off(d) == IF d.by = "page" THEN d ELSE [d EXCEPT !.on = FALSE]
             f == [d \in calls |-> Off(d)]
             all == {f[d] : d \in calls}
             left == {c \in {Off(d) : d \in calls} : Matters(c)}
  <1>1. PICK q \in Queries :
           /\ table' = IF tab = "tasks" THEN TableMounted(q) ELSE Unmounted
           /\ calls' = left \cup (CASE tab = "tasks"    -> {LoadTasks(q, "nothing")}
                                    [] tab = "graph"    -> {LoadGraph("nothing")}
                                    [] tab = "settings" -> {})
    BY DEF OpenTab
  <1>2. /\ graph' = IF tab = "graph" THEN GraphMounted ELSE GraphUnmounted
        /\ UNCHANGED <<stored, socket, wire, events, doubt>>
    BY DEF OpenTab
  <1>3. tab \in {"tasks", "graph", "settings"} /\ q \in Query
    BY ViewsAssumption, TableAssumption
  <1>4. \A d \in calls : Aged(d, Off(d)) /\ (~Off(d).on \/ Off(d).by = "page")
    <2> TAKE d \in calls
    <2>1. d \in Call
      BY Known
    <2> QED
      BY <2>1, OffCall, AgedIsReflexive
  <1> HIDE DEF Off
  <1>5. \A d \in calls : f[d] \in Call /\ Key(f[d]) = Key(d)
    BY <1>4, AgedKey DEF Aged
  <1>6. /\ DOMAIN f = calls /\ left \in SUBSET all
        /\ \A d \in left : (\E c \in calls : Aged(c, d)) /\ (~d.on \/ d.by = "page")
    BY <1>4
  <1>7. CallsOK(left)
    <2> HIDE DEF f, left
    <2>1. CallsOK(all)
      BY <1>5, <1>6, Known, ImageOfCallsOK
    <2> HIDE DEF all
    <2> QED
      BY <1>6, <2>1, FewerCallsOK
  <1> HIDE DEF left
  <1>8. PICK more : /\ calls' = left \cup more
                    /\ more = CASE tab = "tasks"    -> {LoadTasks(q, "nothing")}
                                [] tab = "graph"    -> {LoadGraph("nothing")}
                                [] tab = "settings" -> {}
    BY <1>1
  <1>9. \/ more = {}
        \/ \E d : /\ Fresh(d) /\ more = {d}
                  /\ \/ d.by = "table" /\ tab = "tasks"
                     \/ d.by = "graph" /\ tab = "graph"
    <2>1. /\ Fresh(LoadTasks(q, "nothing")) /\ LoadTasks(q, "nothing").by = "table"
          /\ Fresh(LoadGraph("nothing")) /\ LoadGraph("nothing").by = "graph"
      BY <1>3, Known, LoadsAreFresh
    <2> QED
      BY <1>3, <1>8, <2>1
  <1>10. AreCallsAfter(calls') /\ \A d \in calls' : Fresh(d) => d \in more
    BY <1>6, <1>7, <1>8, <1>9, Known, OneMoreCall
  <1>11. /\ ViewsInv' /\ table'.rows = <<>> /\ ~table'.loaded
         /\ graph'.tasks = {} /\ ~graph'.loaded
         /\ tab = "tasks" => table'.mounted
         /\ tab = "graph" => graph'.mounted
    <2>1. <<>> \in Seq(Task) /\ {} \in SUBSET Task /\ {} \in SUBSET Ids /\ "idle" \in Throttles
          /\ NoNode \in [id : Ids \cup {0}, on : BOOLEAN]
      BY DEF Throttles, NoNode
    <2>2. Unmounted \in TableRecord /\ TableMounted(q) \in TableRecord
      BY <1>3, <2>1, AllIsAQuery DEF Unmounted, TableMounted, TableRecord
    <2>3. GraphUnmounted \in GraphRecord /\ GraphMounted \in GraphRecord
      BY <2>1 DEF GraphUnmounted, GraphMounted, GraphRecord
    <2>4. table' \in TableRecord /\ graph' \in GraphRecord
      BY <1>1, <1>2, <2>2, <2>3
    <2>5. OnePerId({})
      BY DEF OnePerId
    <2>6. /\ table'.rows = <<>> /\ ~table'.loaded /\ graph'.tasks = {} /\ ~graph'.loaded
          /\ graph'.selected = NoNode
          /\ table'.mounted <=> tab = "tasks"
          /\ graph'.mounted <=> tab = "graph"
      BY <1>1, <1>2 DEF Unmounted, TableMounted, GraphUnmounted, GraphMounted
    <2> QED
      BY <2>4, <2>5, <2>6 DEF ViewsInv
  <1>12. \A d \in calls' : d.on => /\ d.by = "table" => table'.mounted
                                   /\ d.by = "graph" => graph'.mounted
    BY <1>6, <1>8, <1>9, <1>11
  <1>13. CallsInv'
    BY <1>2, <1>10, <1>12, CallsStep
  <1>14. ServerInv'
    BY <1>2, Known, ServerSame
  <1>15. \A d \in calls' : d.served => ~d.on \/ d.by = "page"
    BY <1>6, <1>8, <1>9 DEF Fresh
  <1> QED
    BY <1>2, <1>10, <1>11, <1>13, <1>14, <1>15 DEF TypeInv

-----------------------------------------------------------------------------
(* The specification.                                                      *)

\* The invariant holds at first and after every step.
LEMMA InitTypes == Init => TypeInv
  <1> SUFFICES ASSUME Init
               PROVE  TypeInv
    OBVIOUS
  <1>1. /\ stored = InitStored /\ socket = "connecting" /\ wire = <<>>
        /\ events = 0 /\ doubt = {} /\ calls = {} /\ table = Unmounted /\ graph = GraphUnmounted
    BY DEF Init, ServerInit
  <1>2. InitStored \in Seq(Task) /\ Distinct(InitStored)
    BY ServerAssumption, CountedIds
  <1>3. ServerInv
    BY <1>1, <1>2, ServerAssumption DEF ServerInv
  <1>4. CallsInv
    BY <1>1, FS_EmptySet DEF CallsInv, CallsOK, Keyed
  <1>5. /\ <<>> \in Seq(Task) /\ {} \in SUBSET Task /\ {} \in SUBSET Ids /\ "idle" \in Throttles
        /\ NoNode \in [id : Ids \cup {0}, on : BOOLEAN]
    BY DEF Throttles, NoNode
  <1>6. Unmounted \in TableRecord /\ GraphUnmounted \in GraphRecord
    BY <1>5, AllIsAQuery DEF Unmounted, TableRecord, GraphUnmounted, GraphRecord
  <1>7. /\ table.rows = <<>> /\ ~table.loaded /\ graph.tasks = {} /\ ~graph.loaded
        /\ graph.selected = NoNode /\ ~table.mounted
    BY <1>1 DEF Unmounted, GraphUnmounted
  <1>8. ViewsInv
    BY <1>1, <1>6, <1>7 DEF ViewsInv, OnePerId
  <1> QED
    BY <1>3, <1>4, <1>8 DEF TypeInv

LEMMA StutterTypes == ASSUME TypeInv, UNCHANGED vars PROVE TypeInv'
  <1>1. UNCHANGED <<stored, socket, wire, calls, events, doubt, table, graph>>
    BY DEF vars
  <1>2. ViewsInv' /\ CallsOK(calls') /\ \A d \in calls' : \E c \in calls : Aged(c, d)
    BY <1>1, Known DEF ViewsInv
  <1> QED
    BY <1>1, <1>2, FewerTypes

LEMMA NextTypes == ASSUME TypeInv, [Next]_vars PROVE TypeInv'
  <1>1. CASE UNCHANGED vars
    BY <1>1, StutterTypes
  <1>2. CASE ServerStep /\ UNCHANGED <<table, graph>>
    BY <1>2, ServerTypes
  <1>3. CASE TableStep /\ UNCHANGED graph
    BY <1>3, RequestTypes, TableCommandTypes, CloseTableDialogTypes, TableCommandEndsTypes
       DEF TableStep
  <1>4. CASE GraphStep \/ PeriodEnds
    BY <1>4, ClickTypes, CloseDialogTypes, GraphCommandTypes DEF GraphStep
  <1>5. CASE Answered
    BY <1>5, TableLoadedTypes, GraphLoadEndsTypes, GraphCommandEndsTypes, GroupTypes DEF Answered
  <1>6. CASE PageReceives
    BY <1>6, TableReceivesTypes, GraphReceivesTypes, SettingsReceiveTypes DEF PageReceives
  <1>7. CASE \E tab \in Tabs : OpenTab(tab)
    BY <1>7, OpenTabTypes
  <1>8. CASE \E what \in GroupCommands : GroupCommand(what)
    BY <1>8, GroupTypes
  <1> QED
    BY <1>1, <1>2, <1>3, <1>4, <1>5, <1>6, <1>7, <1>8 DEF Next

\* It has the types of the module.
LEMMA TypesOK == TypeInv => TypeOK
  <1> SUFFICES ASSUME TypeInv
               PROVE  TypeOK
    OBVIOUS
  <1>1. ServerTypeOK
    <2>1. Cardinality(IdsOf(stored)) = Len(stored)
      BY Known, CountedIds
    <2> QED
      BY <2>1, Known DEF ServerTypeOK, ServerInv, CallsOK, Keyed
  <1>2. TableTypeOK
    BY Known DEF TableTypeOK, TableRecord
  <1>3. GraphTypeOK
    BY Known DEF GraphTypeOK, GraphRecord, ViewsInv, OnePerId
  <1> QED
    BY <1>1, <1>2, <1>3 DEF TypeOK

\* The types, in every instance: among them that no two calls in flight are confused, that no two
\* calls create the same task, and that the map of the graph has one object per task.
THEOREM ViewsTypes == Spec => []TypeOK
  <1> QED
    BY InitTypes, NextTypes, TypesOK, PTL DEF Spec
==============================================================================
