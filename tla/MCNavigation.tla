---------------------------- MODULE MCNavigation ----------------------------
(***************************************************************************)
(* An instance of Navigation: two groups, one of which has its page in the *)
(* history of the browser.                                                 *)
(***************************************************************************)
EXTENDS Navigation

CONSTANTS g, h

MCUrls == {Home, At("group", g, "graph")}
=============================================================================
