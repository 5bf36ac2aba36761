------------------------------- MODULE MCForm -------------------------------
(***************************************************************************)
(* An instance of TaskForm: to one task a parent can be added.              *)
(***************************************************************************)
EXTENDS TaskForm

MCFirst == [ i \in Ids |-> [ name |-> "a", isComplete |-> FALSE, runAfter |-> "never",
                             parentIds |-> IF i = 2 THEN {"p"} ELSE {"p", "q"}, done |-> 0 ] ]
=============================================================================
