------------------------------ MODULE Throttle ------------------------------
(***************************************************************************)
(* _.throttle of lodash, with its default options, as the user interface   *)
(* uses it: the first call of a burst is made at once, later ones are      *)
(* gathered in one call when the period is over.                           *)
(*   idle      no period runs: a call is made at once                      *)
(*   waiting   a period runs and nothing was asked for in it               *)
(*   pending   a period runs and a call is owed at its end                 *)
(***************************************************************************)

Throttles == {"idle", "waiting", "pending"}

Called(th) == IF th = "idle" THEN "waiting" ELSE "pending"

\* Is a call made at once?
Leads(th) == th = "idle"

\* The period ends; a call made then starts another one.
Expired(th) == IF th = "pending" THEN "waiting" ELSE "idle"

NeverTrails(th) == FALSE

\* Is a call made at the end of the period?
Trails(th) == th = "pending"
=============================================================================
