----------------------------- MODULE MCStorage -----------------------------
(* Instances of MemoryTaskStorage: one group and one workgroup, so that every *)
(* loop meets every task; keys as each .cfg says.                             *)
EXTENDS MemoryTaskStorage, TLC

CONSTANTS a, b, c, g, w, k, p1, p2

OneGroup == [id \in Ids |-> g]
OneWorkgroup == [id \in Ids |-> w]
OneKey == [id \in Ids |-> k]

\* The goroutines are alike, and so are the tasks that are no seeds.
Symmetry ==
    {[x \in DOMAIN f \cup DOMAIN h |-> IF x \in DOMAIN f THEN f[x] ELSE h[x]] :
        f \in Permutations(Procs), h \in Permutations(Ids \ Seeds)}
=============================================================================
