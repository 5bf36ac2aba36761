---------------------------- MODULE MCExecution ----------------------------
(***************************************************************************)
(* Small instances of Execution for TLC.                                   *)
(***************************************************************************)
EXTENDS Execution, TLC

CONSTANTS a, b, c, p1, p2, p3, w, k

TaskWith(attempts, errorDelay, parents) ==
    [ attempts |-> attempts, paused |-> FALSE, complete |-> FALSE, runAfter |-> 0,
      errorDelay |-> errorDelay, busy |-> FALSE, worker |-> w,
      output |-> NoOutput, parents |-> parents ]

Nothing ==
    [ attempts |-> Keep, paused |-> Keep, complete |-> Keep, runAfter |-> Keep,
      errorDelay |-> Keep, worker |-> Keep, output |-> Keep ]

Pause   == [Nothing EXCEPT !.paused = TRUE]
Resume  == [Nothing EXCEPT !.paused = FALSE]

Ok     == [ok |-> TRUE, childrenDelay |-> 0, workgroupDelay |-> 0]
Error  == [ok |-> FALSE, childrenDelay |-> 0, workgroupDelay |-> 0]

OkThenDelay == [ok |-> TRUE, childrenDelay |-> 1, workgroupDelay |-> 1]

OkOrError == {Ok, Error}
DelayOrError == {OkThenDelay, Error}
OnlyOk == {Ok}

NoKeys == [id \in Ids |-> NoKey]
NoGroups == [id \in Ids |-> "none"]
OneGroup == [id \in Ids |-> "one"]
InOrder == [id \in Ids |-> IF id = a THEN 1 ELSE 2]
NoContinuation == [id \in Ids |-> <<>>]
NoUpdates == {}

PauseOrResume == {Pause, Resume}

\* One task that may fail once and is then delayed by one instant.
SingleTask == [id \in Ids |-> TaskWith(2, 1, {})]

\* b waits for a.
PairTasks == [id \in Ids |-> TaskWith(1, 1, IF id = b THEN {a} ELSE {})]

\* The worker of a returns b and c, and c waits for b too.  The children leave
\* their attempts and their delay to the defaults.
Family == [id \in Ids |->
              CASE id = a -> TaskWith(2, 1, {})
                [] id = b -> TaskWith(0, 0, {})
                [] OTHER  -> TaskWith(0, 0, {b})]

FamilyContinuation == [id \in Ids |-> IF id = a THEN <<b, c>> ELSE <<>>]
FamilyKeys == [id \in Ids |-> IF id = b THEN NoKey ELSE k]

ProcSymmetry == Permutations(Procs)
=============================================================================
