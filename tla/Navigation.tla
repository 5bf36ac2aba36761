----------------------------- MODULE Navigation -----------------------------
(***************************************************************************)
(* Where the user of the interface is: the router with its guard           *)
(* (router/index.ts), the token (stores/auth-store.ts), the login page,    *)
(* the links, the tabs of a group's page, and the tables that write their  *)
(* page and search into the URL when they have loaded.                     *)
(*                                                                         *)
(* A navigation awaits the guard's call of authcheck and the code of the   *)
(* page; one that is asked for meanwhile takes its place, and one to where *)
(* the router is already only cancels it (vue-router).  A table of groups  *)
(* writes the URL as soon as it has loaded, a table of tasks half a second *)
(* later, both relative to the page that is shown by then and even if the  *)
(* table is gone.                                                          *)
(***************************************************************************)
EXTENDS Naturals

CONSTANTS
    Groups,         \* task groups
    NoGroup,
    Urls,           \* where the browser may be sent to by hand or by its buttons
    MaxSteps        \* steps of the user (a bound)

Tabs == {"tasks", "graph", "settings"}

\* Of a URL: the page, its group, the tab asked for if any, and whether a table has written
\* its page and search into it.
Place == [ name : {"start", "home", "group", "login"}, group : Groups \cup {NoGroup},
           tab : Tabs \cup {""}, listed : BOOLEAN ]

At(name, group, tab) == [name |-> name, group |-> group, tab |-> tab, listed |-> FALSE]

Start == At("start", NoGroup, "")
Home == At("home", NoGroup, "")
Group(g) == At("group", g, "")
Login == At("login", NoGroup, "")

\* next: where the login page returns to, if anywhere.
Route == [at : Place, next : SUBSET Place]

To(place) == [at |-> place, next |-> {}]

ASSUME NavigationAssumption ==
    /\ Urls \subseteq Place /\ \A u \in Urls : u.name \in {"home", "group"}
    /\ NoGroup \notin Groups /\ MaxSteps \in Nat

VARIABLES
    token,      \* none, good or expired
    route,      \* router.currentRoute
    pending,    \* the navigation under way, if any
    tab,        \* tab of the group's page
    loaded,     \* has the group's page its group?
    logins,     \* calls of login in flight
    calls,      \* how many loads are in flight, of groups and of tasks
    timers,     \* delayed writes of the URL
    steps,      \* steps that the user has taken
    wanted,     \* history: where the user asked to be
    overtaken,  \* history: a table has cancelled a navigation since
    stopped     \* history: the last push went nowhere and only cancelled a navigation

vars == <<token, route, pending, tab, loaded, logins, calls, timers, steps, wanted,
          overtaken, stopped>>

Protected(place) == place.name \in {"home", "group"}

\* A navigation awaits the check of the token it was sent with, or the code of the page.
Navigation == [to : Route, waits : {"check", "page"}, sent : {"none", "good", "expired"}]

TypeOK ==
    /\ token \in {"none", "good", "expired"} /\ route \in Route
    /\ pending \subseteq Navigation /\ \A m, n \in pending : m = n
    /\ tab \in Tabs /\ loaded \in BOOLEAN /\ logins \in Nat
    /\ loaded => route.at.name = "group"
    /\ calls \in [{"groups", "group", "tasks"} -> Nat] /\ timers \in Nat /\ steps \in 0 .. MaxSteps
    /\ wanted \in Place /\ overtaken \in BOOLEAN /\ stopped \in BOOLEAN

-----------------------------------------------------------------------------
(* The router.                                                             *)

\* The navigation to r once it has begun with token t; none if the router is at r.
Begun(r, t) ==
    IF r = route THEN {}
    ELSE {[to |-> r, waits |-> IF Protected(r.at) THEN "check" ELSE "page", sent |-> t]}

PushWith(r, t) ==
    /\ pending' = Begun(r, t)
    /\ stopped' = (pending # {} /\ Begun(r, t) = {})

Push(r) == PushWith(r, token)

\* The user asks for a place.
Ask(place) ==
    /\ steps < MaxSteps /\ steps' = steps + 1
    /\ wanted' = place /\ overtaken' = FALSE

GuardStops(n) == {}

\* The guard has no answer but an error: on to the login page.
Refused(n) == Begun([at |-> Login, next |-> {n.to.at}], token)

\* beforeEach: the check that was sent with the navigation is answered.
CheckEnds(ok) ==
    \E n \in pending :
        /\ n.waits = "check"
        /\ ok => n.sent = "good"
        /\ pending' = IF ok THEN {[n EXCEPT !.waits = "page"]} ELSE Refused(n)
        /\ UNCHANGED <<token, route, tab, loaded, logins, calls, timers, steps, wanted, overtaken, stopped>>

TabAsGiven(place) == place.tab

TabOf(place) == IF place.tab = "" THEN "tasks" ELSE place.tab

\* The page is entered.  A page of another kind is mounted and calls for what it shows, a
\* group's page also when the group changes under it.
Enters ==
    \E n \in pending :
        /\ n.waits = "page" /\ pending' = {} /\ route' = n.to
        /\ LET new == n.to.at.name # route.at.name IN
           /\ tab' = IF new /\ n.to.at.name = "group"
                     THEN TabOf(n.to.at) ELSE tab
           /\ loaded' = (loaded /\ ~new)
           /\ calls' = [calls EXCEPT
                   !["groups"] = IF new /\ n.to.at.name = "home" THEN @ + 1 ELSE @,
                   !["group"] = IF n.to.at.name = "group" /\ n.to.at.group # route.at.group THEN 1
                                ELSE IF new THEN 0 ELSE @]
        /\ UNCHANGED <<token, logins, timers, steps, wanted, overtaken, stopped>>

-----------------------------------------------------------------------------
(* The token.                                                              *)

Init ==
    /\ token \in {"none", "good"} /\ route = To(Start)
    /\ \E u \in Urls : wanted = u
    /\ pending = Begun(To(wanted), token)
    /\ tab = "tasks" /\ loaded = FALSE /\ logins = 0
    /\ calls = [c \in {"groups", "group", "tasks"} |-> 0]
    /\ timers = 0 /\ steps = 0 /\ overtaken = FALSE /\ stopped = FALSE

\* The key enter in the password's field is not held back by the spinner of the button.
PerformLogin ==
    /\ route.at.name = "login" /\ logins' = logins + 1
    /\ steps < MaxSteps /\ steps' = steps + 1
    /\ UNCHANGED <<token, route, pending, tab, loaded, calls, timers, wanted, overtaken, stopped>>

HomeAfterLogin == Home

\* Where the page that is shown by then returns to.
AfterLogin == IF route.next = {} THEN Home ELSE CHOOSE place \in route.next : TRUE

LoginEnds(ok) ==
    /\ logins > 0 /\ logins' = logins - 1
    /\ IF ok THEN /\ token' = "good"
                  /\ PushWith(To(AfterLogin), "good")
                  /\ wanted' = IF route.next = {} THEN Home ELSE CHOOSE place \in route.next : TRUE
                  /\ overtaken' = FALSE
             ELSE UNCHANGED <<token, pending, wanted, overtaken, stopped>>
    /\ UNCHANGED <<route, tab, loaded, calls, timers, steps>>

LogoutStays ==
    /\ route.at.name # "start" /\ token' = "none" /\ Ask(Login)
    /\ UNCHANGED <<route, pending, tab, loaded, logins, calls, timers, stopped>>

Logout ==
    /\ route.at.name # "start" /\ token' = "none" /\ Ask(Login) /\ Push(To(Login))
    /\ UNCHANGED <<route, tab, loaded, logins, calls, timers>>

Expires ==
    /\ token = "good" /\ token' = "expired"
    /\ UNCHANGED <<route, pending, tab, loaded, logins, calls, timers, steps, wanted, overtaken, stopped>>

-----------------------------------------------------------------------------
(* Links and tabs.                                                         *)

\* The links of the pages; a group that was created is opened like one of the list, one
\* that was deleted is left for home.
Links ==
    Urls \cup (IF route.at.name = "start" THEN {} ELSE {Home})
         \cup (IF route.at.name = "home" THEN {Group(g) : g \in Groups} ELSE {})
         \cup (IF loaded THEN {At("group", route.at.group, "tasks")} ELSE {})

Follow(place) ==
    /\ place \in Links /\ Ask(place) /\ Push(To(place))
    /\ UNCHANGED <<token, route, tab, loaded, logins, calls, timers>>

\* The watch of tab writes it into the URL, and nothing else of the query.
OpenTab(t) ==
    /\ loaded /\ t # tab /\ tab' = t
    /\ LET place == [route.at EXCEPT !.tab = t, !.listed = FALSE]
       IN  Ask(place) /\ Push(To(place))
    /\ calls' = IF t = "tasks" THEN [calls EXCEPT !["tasks"] = @ + 1] ELSE calls
    /\ UNCHANGED <<token, route, loaded, logins, timers>>

-----------------------------------------------------------------------------
(* Loads.                                                                  *)

\* router.push({ query: { ...route.query, ... } }), the same for every load.
WriteUrl ==
    /\ Push([route EXCEPT !.at.listed = TRUE])
    /\ overtaken' = (overtaken \/ pending # {})

Answered(what) == calls[what] > 0 /\ calls' = [calls EXCEPT ![what] = @ - 1]

\* loadTaskGroups of the table of groups.
GroupsAnswered(ok) ==
    /\ Answered("groups")
    /\ IF ok THEN WriteUrl ELSE UNCHANGED <<pending, overtaken, stopped>>
    /\ UNCHANGED <<token, route, tab, loaded, logins, timers, steps, wanted>>

\* getTaskGroup of the group's page, whose panels are mounted when they have the group.
GroupAnswered(ok) ==
    /\ calls["group"] > 0
    /\ calls' = [calls EXCEPT !["group"] = 0,
                              !["tasks"] = IF ok /\ ~loaded /\ tab = "tasks" THEN @ + 1 ELSE @]
    /\ loaded' = (loaded \/ ok)
    /\ UNCHANGED <<token, route, pending, tab, logins, timers, steps, wanted, overtaken, stopped>>

\* loadTasks of the table of tasks.
TasksAnswered(ok) ==
    /\ Answered("tasks")
    /\ timers' = IF ok THEN timers + 1 ELSE timers
    /\ UNCHANGED <<token, route, pending, tab, loaded, logins, steps, wanted, overtaken, stopped>>

\* A search, another page of the table, or a change of the group, loads again.
LoadAgain ==
    /\ steps < MaxSteps /\ steps' = steps + 1
    /\ \/ route.at.name = "home" /\ calls' = [calls EXCEPT !["groups"] = @ + 1]
       \/ loaded /\ tab = "tasks" /\ calls' = [calls EXCEPT !["tasks"] = @ + 1]
    /\ UNCHANGED <<token, route, pending, tab, loaded, logins, timers, wanted, overtaken, stopped>>

TimerFires ==
    /\ timers > 0 /\ timers' = timers - 1
    /\ WriteUrl
    /\ UNCHANGED <<token, route, tab, loaded, logins, calls, steps, wanted>>

-----------------------------------------------------------------------------

Next ==
    \/ \E ok \in BOOLEAN :
          \/ CheckEnds(ok) \/ LoginEnds(ok)
          \/ GroupsAnswered(ok) \/ GroupAnswered(ok) \/ TasksAnswered(ok)
    \/ Enters \/ TimerFires
    \/ PerformLogin \/ Logout \/ Expires \/ LoadAgain
    \/ \E place \in Links : Follow(place)
    \/ \E t \in Tabs : OpenTab(t)

\* A check is answered or fails, and the code of a page arrives.
Spec ==
    /\ Init /\ [][Next]_vars
    /\ WF_vars(\E ok \in BOOLEAN : CheckEnds(ok)) /\ WF_vars(Enters)

-----------------------------------------------------------------------------
(* Properties.                                                             *)

\* After a logout no page that needs a token is entered: not by a navigation whose check
\* was answered before, not by the write of a load or a timer that was left behind.
NoEntryLoggedOut ==
    [][route' # route /\ Protected(route'.at) => token # "none"]_vars

SamePlace(p, q) == p.name = q.name /\ p.group = q.group /\ p.tab = q.tab

\* When no navigation is under way the user is where they last asked to be, tab included, or
\* on the login page that will return there, unless a table has overtaken them.
UserArrives ==
    pending = {} =>
        \/ overtaken
        \/ \E place \in {route.at} \cup route.next : SamePlace(place, wanted)

\* Without a token every navigation ends on the login page, whatever the tables write
\* meanwhile, unless one is cancelled by a push to where the router is already.
LogoutReachesLogin ==
    token = "none" /\ pending # {} ~> route.at.name = "login" \/ token # "none" \/ stopped
=============================================================================
