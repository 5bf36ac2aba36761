------------------------------- MODULE MCFeed -------------------------------
(* Instances of TaskFeed: clients of one task group.                         *)
EXTENDS TaskFeed

CONSTANTS t, c1, c2, g

SameGroup == [x \in Tasks |-> g]
WatchG == [c \in Conns |-> g]
=============================================================================
