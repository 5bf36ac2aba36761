-------------------------- MODULE NavigationProofs --------------------------
(***************************************************************************)
(* What the guard of the router and the pages keep for every number of     *)
(* groups, URLs and steps: nobody who has logged out enters a page that    *)
(* needs a token, and a user who is not overtaken by a table arrives.      *)
(*                                                                         *)
(* Both speak of the page that is shown.  What makes them inductive is     *)
(* what they say of the navigation that is still under way.                *)
(***************************************************************************)
EXTENDS Navigation, TLAPS

\* A group's page is the only one that waits for a group.
GroupAwaitedThere == calls["group"] > 0 => route.at.name = "group"

TypeInv == TypeOK /\ GroupAwaitedThere

\* Without a token the only way into a page that needs one is a check that will fail.
WayInv ==
    token = "none" =>
        \A n \in pending : Protected(n.to.at) => n.waits = "check" /\ n.sent # "good"

\* Of a location: does it lead to where the user asked to be?
LeadsThere(r) == \E place \in {r.at} \cup r.next : SamePlace(place, wanted)

\* Only the login page returns anywhere, and only a page that needs a token is checked.
PlainInv ==
    /\ route.next # {} => route.at.name = "login"
    /\ \A n \in pending : /\ n.to.next # {} => n.to.at.name = "login"
                          /\ n.waits = "check" => Protected(n.to.at)

ArrivalInv ==
    /\ PlainInv
    /\ overtaken \/ (IF pending = {} THEN LeadsThere(route)
                     ELSE \A n \in pending : LeadsThere(n.to))

-----------------------------------------------------------------------------
(* Types.                                                                  *)

LEMMA PlacesToGo ==
    ASSUME NEW name \in {"start", "home", "group", "login"}, NEW group \in Groups \cup {NoGroup},
           NEW t \in Tabs \cup {""}
    PROVE  /\ At(name, group, t) \in Place
           /\ To(At(name, group, t)) \in Route
  BY DEF At, To, Place, Route

LEMMA FixedPlaces ==
    /\ Start \in Place /\ Home \in Place /\ Login \in Place
    /\ \A g \in Groups : Group(g) \in Place
    /\ \A place \in Place : To(place) \in Route
    /\ \A place \in Place : [at |-> Login, next |-> {place}] \in Route
  BY DEF Start, Home, Login, Group, At, To, Place, Route, Tabs

LEMMA LinksArePlaces ==
    ASSUME TypeOK PROVE Links \subseteq Place
  <1>1. Urls \subseteq Place
    BY NavigationAssumption
  <1>2. At("group", route.at.group, "tasks") \in Place
    BY DEF TypeOK, Route, Place, At, Tabs
  <1> QED
    BY <1>1, <1>2, FixedPlaces DEF Links

\* What has begun is one navigation or none, to r.
LEMMA BegunIsOne ==
    ASSUME NEW r \in Route, NEW t \in {"none", "good", "expired"}
    PROVE  /\ Begun(r, t) \subseteq Navigation
           /\ \A m, n \in Begun(r, t) : m = n
           /\ \A n \in Begun(r, t) : /\ n.to = r /\ n.sent = t
                                     /\ n.waits = "check" <=> Protected(r.at)
           /\ Begun(r, t) = {} <=> r = route
  <1>1. CASE r = route
    BY <1>1 DEF Begun
  <1>2. CASE r # route
    <2> DEFINE n == [to |-> r, waits |-> IF Protected(r.at) THEN "check" ELSE "page", sent |-> t]
    <2>1. Begun(r, t) = {n}
      BY <1>2 DEF Begun
    <2>2. n \in Navigation /\ n.to = r /\ n.sent = t
      BY DEF Navigation
    <2>3. n.waits = "check" <=> Protected(r.at)
      BY DEF Protected
    <2> HIDE DEF n
    <2> QED
      BY <1>2, <2>1, <2>2, <2>3
  <1> QED
    BY <1>1, <1>2

LEMMA AfterLoginIsPlace ==
    ASSUME TypeOK
    PROVE  /\ AfterLogin \in Place
           /\ AfterLogin = IF route.next = {} THEN Home ELSE CHOOSE place \in route.next : TRUE
  <1>1. route.next \subseteq Place
    BY DEF TypeOK, Route
  <1>2. CASE route.next = {}
    BY <1>2, FixedPlaces DEF AfterLogin
  <1>3. CASE route.next # {}
    <2>1. (CHOOSE place \in route.next : TRUE) \in route.next
      BY <1>3
    <2> QED
      BY <1>1, <1>3, <2>1 DEF AfterLogin
  <1> QED
    BY <1>2, <1>3

LEMMA InitTyped == Init => TypeInv
  <1> SUFFICES ASSUME Init PROVE TypeInv
    OBVIOUS
  <1>1. route \in Route /\ wanted \in Place /\ To(wanted) \in Route
    BY FixedPlaces, NavigationAssumption DEF Init
  <1>2. token \in {"none", "good", "expired"}
    BY DEF Init
  <1>3. pending \subseteq Navigation /\ \A m, n \in pending : m = n
    BY <1>1, <1>2, BegunIsOne DEF Init
  <1>4. calls \in [{"groups", "group", "tasks"} -> Nat] /\ calls["group"] = 0
    BY DEF Init
  <1>5. logins \in Nat /\ timers \in Nat /\ steps \in 0 .. MaxSteps
    BY NavigationAssumption DEF Init
  <1>6. tab \in Tabs /\ loaded \in BOOLEAN /\ ~loaded
    BY DEF Init, Tabs
  <1>7. overtaken \in BOOLEAN /\ stopped \in BOOLEAN
    BY DEF Init
  <1>8. GroupAwaitedThere
    BY <1>4 DEF GroupAwaitedThere
  <1>9. TypeOK
    BY <1>1, <1>2, <1>3, <1>4, <1>5, <1>6, <1>7 DEF TypeOK
  <1> QED
    BY <1>8, <1>9 DEF TypeInv

\* A push keeps the types of the navigation.
LEMMA PushTyped ==
    ASSUME TypeOK, NEW r \in Route, NEW t \in {"none", "good", "expired"}, PushWith(r, t)
    PROVE  /\ pending' \subseteq Navigation /\ \A m, n \in pending' : m = n
           /\ stopped' \in BOOLEAN
  BY BegunIsOne DEF PushWith

LEMMA WriteUrlTyped ==
    ASSUME TypeOK, WriteUrl
    PROVE  /\ pending' \subseteq Navigation /\ \A m, n \in pending' : m = n
           /\ stopped' \in BOOLEAN /\ overtaken' \in BOOLEAN
  <1>1. [route EXCEPT !.at.listed = TRUE] \in Route
    BY DEF TypeOK, Route, Place
  <1>2. token \in {"none", "good", "expired"} /\ overtaken \in BOOLEAN
    BY DEF TypeOK
  <1>3. PushWith([route EXCEPT !.at.listed = TRUE], token)
    BY DEF WriteUrl, Push
  <1> QED
    BY <1>1, <1>2, <1>3, PushTyped DEF WriteUrl

\* Asking for a place counts a step.
LEMMA AskTyped ==
    ASSUME TypeOK, NEW place \in Place, Ask(place)
    PROVE  steps' \in 0 .. MaxSteps /\ wanted' \in Place /\ overtaken' \in BOOLEAN
  <1>1. steps' \in 0 .. MaxSteps
    BY NavigationAssumption DEF Ask, TypeOK
  <1>2. wanted' \in Place /\ overtaken' \in BOOLEAN
    BY DEF Ask
  <1> QED
    BY <1>1, <1>2

LEMMA CheckEndsTyped ==
    ASSUME TypeInv, NEW ok \in BOOLEAN, CheckEnds(ok) PROVE TypeInv'
  <1>1. PICK n \in pending :
           /\ pending' = IF ok THEN {[n EXCEPT !.waits = "page"]} ELSE Refused(n)
           /\ UNCHANGED <<token, route, tab, loaded, logins, calls, timers, steps, wanted,
                          overtaken, stopped>>
    BY DEF CheckEnds
  <1>2. n \in Navigation /\ n.to.at \in Place /\ token \in {"none", "good", "expired"}
    BY DEF TypeInv, TypeOK, Navigation, Route
  <1>3. [n EXCEPT !.waits = "page"] \in Navigation
    BY <1>2 DEF Navigation
  <1>4. Refused(n) \subseteq Navigation /\ \A k, m \in Refused(n) : k = m
    <2> DEFINE r == [at |-> Login, next |-> {n.to.at}]
    <2>1. r \in Route
      BY <1>2, FixedPlaces
    <2>2. Refused(n) = Begun(r, token)
      BY DEF Refused
    <2> HIDE DEF r
    <2> QED
      BY <1>2, <2>1, <2>2, BegunIsOne
  <1>5. pending' \subseteq Navigation /\ \A k, m \in pending' : k = m
    BY <1>1, <1>3, <1>4
  <1> QED
    BY <1>1, <1>5 DEF TypeInv, TypeOK, GroupAwaitedThere

LEMMA EntersTyped ==
    ASSUME TypeInv, Enters PROVE TypeInv'
  <1>1. PICK n \in pending : n.waits = "page" /\ pending' = {} /\ route' = n.to /\
           LET new == n.to.at.name # route.at.name IN
           /\ tab' = IF new /\ n.to.at.name = "group" THEN TabOf(n.to.at) ELSE tab
           /\ loaded' = (loaded /\ ~new)
           /\ calls' = [calls EXCEPT
                   !["groups"] = IF new /\ n.to.at.name = "home" THEN @ + 1 ELSE @,
                   !["group"] = IF n.to.at.name = "group" /\ n.to.at.group # route.at.group THEN 1
                                ELSE IF new THEN 0 ELSE @]
           /\ UNCHANGED <<token, logins, timers, steps, wanted, overtaken, stopped>>
    BY DEF Enters
  <1>2. n.to \in Route /\ n.to.at.tab \in Tabs \cup {""} /\ tab \in Tabs /\ loaded \in BOOLEAN
    BY DEF TypeInv, TypeOK, Navigation, Route, Place
  <1>3. tab' \in Tabs
    BY <1>1, <1>2 DEF TabOf, Tabs
  <1>4. loaded' \in BOOLEAN /\ (loaded' => route'.at.name = "group")
    BY <1>1, <1>2 DEF TypeInv, TypeOK
  <1>5. /\ calls' \in [{"groups", "group", "tasks"} -> Nat]
        /\ calls'["group"] > 0 => route'.at.name = "group"
    BY <1>1 DEF TypeInv, TypeOK, GroupAwaitedThere
  <1> QED
    BY <1>1, <1>2, <1>3, <1>4, <1>5 DEF TypeInv, TypeOK, GroupAwaitedThere

LEMMA LoginEndsTyped ==
    ASSUME TypeInv, NEW ok \in BOOLEAN, LoginEnds(ok) PROVE TypeInv'
  <1>1. logins' \in Nat
    BY DEF LoginEnds, TypeInv, TypeOK
  <1>2. CASE ok
    <2>1. PushWith(To(AfterLogin), "good") /\ token' = "good" /\ wanted' = AfterLogin
          /\ overtaken' = FALSE
      BY <1>2, AfterLoginIsPlace DEF LoginEnds, TypeInv
    <2>2. AfterLogin \in Place /\ To(AfterLogin) \in Route
      BY AfterLoginIsPlace, FixedPlaces DEF TypeInv
    <2>3. /\ pending' \subseteq Navigation /\ \A m, n \in pending' : m = n
          /\ stopped' \in BOOLEAN
      BY <2>1, <2>2, PushTyped DEF TypeInv
    <2> QED
      BY <1>1, <2>1, <2>2, <2>3 DEF LoginEnds, TypeInv, TypeOK, GroupAwaitedThere
  <1>3. CASE ~ok
    BY <1>1, <1>3 DEF LoginEnds, TypeInv, TypeOK, GroupAwaitedThere
  <1> QED
    BY <1>2, <1>3

LEMMA NextTyped == TypeInv /\ [Next]_vars => TypeInv'
  <1> SUFFICES ASSUME TypeInv, [Next]_vars PROVE TypeInv'
    OBVIOUS
  <1> USE DEF TypeInv
  <1>1. ASSUME NEW ok \in BOOLEAN, CheckEnds(ok) PROVE TypeInv'
    BY <1>1, CheckEndsTyped
  <1>2. ASSUME NEW ok \in BOOLEAN, LoginEnds(ok) PROVE TypeInv'
    BY <1>2, LoginEndsTyped
  <1>3. ASSUME NEW ok \in BOOLEAN, GroupsAnswered(ok) PROVE TypeInv'
    <2>1. /\ pending' \subseteq Navigation /\ \A m, n \in pending' : m = n
          /\ stopped' \in BOOLEAN /\ overtaken' \in BOOLEAN
      BY <1>3, WriteUrlTyped DEF GroupsAnswered, TypeOK
    <2>2. calls' \in [{"groups", "group", "tasks"} -> Nat] /\ calls'["group"] = calls["group"]
      BY <1>3 DEF GroupsAnswered, Answered, TypeOK
    <2> QED
      BY <1>3, <2>1, <2>2 DEF GroupsAnswered, TypeOK, GroupAwaitedThere
  <1>4. ASSUME NEW ok \in BOOLEAN, GroupAnswered(ok) PROVE TypeInv'
    <2>1. calls' \in [{"groups", "group", "tasks"} -> Nat] /\ calls'["group"] = 0
      BY <1>4 DEF GroupAnswered, TypeOK
    <2>2. loaded' \in BOOLEAN /\ route.at.name = "group"
      BY <1>4 DEF GroupAnswered, TypeOK, GroupAwaitedThere
    <2> QED
      BY <1>4, <2>1, <2>2 DEF GroupAnswered, TypeOK, GroupAwaitedThere
  <1>5. ASSUME NEW ok \in BOOLEAN, TasksAnswered(ok) PROVE TypeInv'
    <2>1. calls' \in [{"groups", "group", "tasks"} -> Nat] /\ calls'["group"] = calls["group"]
      BY <1>5 DEF TasksAnswered, Answered, TypeOK
    <2> QED
      BY <1>5, <2>1 DEF TasksAnswered, TypeOK, GroupAwaitedThere
  <1>6. CASE Enters
    BY <1>6, EntersTyped
  <1>7. CASE TimerFires
    <2>1. /\ pending' \subseteq Navigation /\ \A m, n \in pending' : m = n
          /\ stopped' \in BOOLEAN /\ overtaken' \in BOOLEAN
      BY <1>7, WriteUrlTyped DEF TimerFires
    <2> QED
      BY <1>7, <2>1 DEF TimerFires, TypeOK, GroupAwaitedThere
  <1>8. CASE PerformLogin
    BY <1>8, NavigationAssumption DEF PerformLogin, TypeOK, GroupAwaitedThere
  <1>9. CASE Logout
    <2>1. Login \in Place /\ To(Login) \in Route
      BY FixedPlaces
    <2>2. steps' \in 0 .. MaxSteps /\ wanted' \in Place /\ overtaken' \in BOOLEAN
      BY <1>9, <2>1, AskTyped DEF Logout
    <2>3. /\ pending' \subseteq Navigation /\ \A m, n \in pending' : m = n
          /\ stopped' \in BOOLEAN
      BY <1>9, <2>1, PushTyped DEF Logout, Push, TypeOK
    <2> QED
      BY <1>9, <2>2, <2>3 DEF Logout, TypeOK, GroupAwaitedThere
  <1>10. CASE Expires
    BY <1>10 DEF Expires, TypeOK, GroupAwaitedThere
  <1>11. CASE LoadAgain
    <2>1. calls' \in [{"groups", "group", "tasks"} -> Nat] /\ calls'["group"] = calls["group"]
      BY <1>11 DEF LoadAgain, TypeOK
    <2>2. steps' \in 0 .. MaxSteps
      BY <1>11, NavigationAssumption DEF LoadAgain, TypeOK
    <2> QED
      BY <1>11, <2>1, <2>2 DEF LoadAgain, TypeOK, GroupAwaitedThere
  <1>12. ASSUME NEW place \in Links, Follow(place) PROVE TypeInv'
    <2>1. place \in Place /\ To(place) \in Route
      BY LinksArePlaces, FixedPlaces
    <2>2. steps' \in 0 .. MaxSteps /\ wanted' \in Place /\ overtaken' \in BOOLEAN
      BY <1>12, <2>1, AskTyped DEF Follow
    <2>3. /\ pending' \subseteq Navigation /\ \A m, n \in pending' : m = n
          /\ stopped' \in BOOLEAN
      BY <1>12, <2>1, PushTyped DEF Follow, Push, TypeOK
    <2> QED
      BY <1>12, <2>2, <2>3 DEF Follow, TypeOK, GroupAwaitedThere
  <1>13. ASSUME NEW t \in Tabs, OpenTab(t) PROVE TypeInv'
    <2> DEFINE place == [route.at EXCEPT !.tab = t, !.listed = FALSE]
    <2>0. route.at \in Place
      BY DEF TypeOK, Route
    <2>1. place \in Place
      BY <2>0 DEF Place
    <2>6. To(place) \in Route
      BY <2>1, FixedPlaces
    <2>2. Ask(place) /\ Push(To(place))
      BY <1>13 DEF OpenTab
    <2> HIDE DEF place
    <2>3. steps' \in 0 .. MaxSteps /\ wanted' \in Place /\ overtaken' \in BOOLEAN
      BY <2>1, <2>2, AskTyped
    <2>4. /\ pending' \subseteq Navigation /\ \A m, n \in pending' : m = n
          /\ stopped' \in BOOLEAN
      BY <2>2, <2>6, PushTyped DEF Push, TypeOK
    <2>5. calls' \in [{"groups", "group", "tasks"} -> Nat] /\ calls'["group"] = calls["group"]
      BY <1>13 DEF OpenTab, TypeOK
    <2> QED
      BY <1>13, <2>3, <2>4, <2>5 DEF OpenTab, TypeOK, GroupAwaitedThere
  <1>14. CASE UNCHANGED vars
    BY <1>14 DEF vars, TypeOK, GroupAwaitedThere
  <1> QED
    BY <1>1, <1>2, <1>3, <1>4, <1>5, <1>6, <1>7, <1>8, <1>9, <1>10, <1>11, <1>12, <1>13, <1>14
    DEF Next

\* The router, the tabs, the calls and the counts keep their types.
THEOREM NavigationTyped == Spec => []TypeInv
  BY InitTyped, NextTyped, PTL DEF Spec

\* The token, the route, the navigations under way and the page keep their
\* types, and a group is on show only on the page of a group.
THEOREM NavigationTypeOK == Spec => []TypeOK
  <1>1. TypeInv => TypeOK
    BY DEF TypeInv
  <1> QED
    BY <1>1, NavigationTyped, PTL

-----------------------------------------------------------------------------
(* Nobody who has logged out enters.                                       *)

LEMMA InitWay == Init => WayInv
  <1> SUFFICES ASSUME Init, token = "none", NEW n \in pending, Protected(n.to.at)
               PROVE  n.waits = "check" /\ n.sent # "good"
    BY DEF WayInv
  <1>1. To(wanted) \in Route
    BY FixedPlaces, NavigationAssumption DEF Init
  <1> QED
    BY <1>1, BegunIsOne DEF Init

\* A push without a token leaves no other way in.
LEMMA PushWay ==
    ASSUME NEW r \in Route, PushWith(r, token), token = "none"
    PROVE  \A n \in pending' : Protected(n.to.at) => n.waits = "check" /\ n.sent # "good"
  BY BegunIsOne DEF PushWith

LEMMA NextWay == TypeInv /\ WayInv /\ [Next]_vars => WayInv'
  <1> SUFFICES ASSUME TypeInv, WayInv, [Next]_vars, token' = "none"
               PROVE  \A n \in pending' : Protected(n.to.at) => n.waits = "check" /\ n.sent # "good"
    BY DEF WayInv, Protected
  <1> DEFINE Way == \A n \in pending' : Protected(n.to.at) => n.waits = "check" /\ n.sent # "good"
  <1>0. token \in {"none", "good", "expired"} /\ route \in Route
    BY DEF TypeInv, TypeOK
  <1>1. ASSUME NEW ok \in BOOLEAN, CheckEnds(ok) PROVE Way
    <2>1. PICK n \in pending :
             /\ n.waits = "check" /\ (ok => n.sent = "good")
             /\ pending' = IF ok THEN {[n EXCEPT !.waits = "page"]} ELSE Refused(n)
             /\ token' = token
      BY <1>1 DEF CheckEnds
    <2>2. n \in Navigation /\ n.to.at \in Place
      BY DEF TypeInv, TypeOK, Navigation, Route
    <2>3. CASE ok
      BY <2>1, <2>2, <2>3 DEF WayInv, Navigation
    <2>4. CASE ~ok
      <3> DEFINE r == [at |-> Login, next |-> {n.to.at}]
      <3>1. r \in Route /\ ~Protected(r.at)
        BY <2>2, FixedPlaces DEF Protected, Login, At
      <3>2. pending' = Begun(r, token)
        BY <2>1, <2>4 DEF Refused
      <3> HIDE DEF r
      <3> QED
        BY <1>0, <3>1, <3>2, BegunIsOne
    <2> QED
      BY <2>3, <2>4
  <1>2. ASSUME NEW ok \in BOOLEAN, LoginEnds(ok) PROVE Way
    <2>1. UNCHANGED <<token, pending>>
      BY <1>2 DEF LoginEnds
    <2> QED
      BY <2>1 DEF WayInv
  <1>3. ASSUME WriteUrl, UNCHANGED token PROVE Way
    <2>1. [route EXCEPT !.at.listed = TRUE] \in Route
      BY <1>0 DEF Route, Place
    <2> QED
      BY <1>0, <1>3, <2>1, PushWay DEF WriteUrl, Push
  <1>4. ASSUME UNCHANGED <<token, pending>> PROVE Way
    BY <1>4 DEF WayInv
  <1>5. ASSUME NEW ok \in BOOLEAN, GroupsAnswered(ok) PROVE Way
    BY <1>3, <1>4, <1>5 DEF GroupsAnswered
  <1>6. CASE Logout
    <2>1. To(Login) \in Route /\ ~Protected(To(Login).at)
      BY FixedPlaces DEF Protected, To, Login, At
    <2>2. \A n \in pending' : n.to = To(Login)
      BY <1>0, <1>6, <2>1, BegunIsOne DEF Logout, Push, PushWith
    <2> QED
      BY <2>1, <2>2
  <1>7. ASSUME NEW place \in Links, Follow(place) PROVE Way
    <2>1. To(place) \in Route
      BY LinksArePlaces, FixedPlaces DEF TypeInv
    <2> QED
      BY <1>0, <1>7, <2>1, PushWay DEF Follow, Push
  <1>8. ASSUME NEW t \in Tabs, OpenTab(t) PROVE Way
    <2> DEFINE place == [route.at EXCEPT !.tab = t, !.listed = FALSE]
    <2>1. place \in Place
      BY <1>0 DEF Route, Place
    <2>2. Push(To(place)) /\ token' = token
      BY <1>8 DEF OpenTab
    <2> HIDE DEF place
    <2>3. To(place) \in Route
      BY <2>1, FixedPlaces
    <2> QED
      BY <1>0, <2>2, <2>3, PushWay DEF Push
  <1>9. CASE Enters
    BY <1>9 DEF Enters
  <1>10. CASE Expires
    BY <1>10 DEF Expires
  <1>11. CASE TimerFires
    BY <1>3, <1>11 DEF TimerFires
  <1>12. CASE PerformLogin \/ LoadAgain
    BY <1>4, <1>12 DEF PerformLogin, LoadAgain
  <1>13. ASSUME NEW ok \in BOOLEAN, GroupAnswered(ok) \/ TasksAnswered(ok) PROVE Way
    BY <1>4, <1>13 DEF GroupAnswered, TasksAnswered
  <1>14. CASE UNCHANGED vars
    BY <1>4, <1>14 DEF vars
  <1> QED
    BY <1>1, <1>2, <1>5, <1>6, <1>7, <1>8, <1>9, <1>10, <1>11, <1>12, <1>13, <1>14 DEF Next

\* Only Enters changes the route, and without a token it finds no way into a page that
\* needs one.
LEMMA EntryStep == WayInv /\ [Next]_vars => (route' # route /\ Protected(route'.at) => token # "none")
  <1> SUFFICES ASSUME WayInv, [Next]_vars, route' # route, Protected(route'.at), token = "none"
               PROVE  FALSE
    OBVIOUS
  <1>1. Enters
    BY DEF Next, vars, CheckEnds, LoginEnds, GroupsAnswered, GroupAnswered, TasksAnswered,
           TimerFires, PerformLogin, Logout, Expires, LoadAgain, Follow, OpenTab
  <1> QED
    BY <1>1 DEF Enters, WayInv

\* After a logout the router enters no page that needs a token, however checks, loads and
\* timers that were left behind are answered.
THEOREM NobodyEntersLoggedOut == Spec => NoEntryLoggedOut
  <1>1. Spec => []WayInv
    BY InitWay, NextWay, NavigationTyped, PTL DEF Spec
  <1> QED
    BY <1>1, EntryStep, PTL DEF Spec, NoEntryLoggedOut

-----------------------------------------------------------------------------
(* The user arrives.                                                       *)

\* What a push to r leaves is under way to r, or the router is at r.
LEMMA PushPlain ==
    ASSUME NEW r \in Route, NEW t \in {"none", "good", "expired"}, PushWith(r, t),
           r.next # {} => r.at.name = "login"
    PROVE  /\ pending' = {} <=> r = route
           /\ \A n \in pending' : n.to = r
           /\ \A n \in pending' : /\ n.to.next # {} => n.to.at.name = "login"
                                  /\ n.waits = "check" => Protected(n.to.at)
  BY BegunIsOne DEF PushWith

\* A push to the place the user has just asked for.
LEMMA PushArrives ==
    ASSUME TypeOK, PlainInv, NEW place \in Place, NEW t \in {"none", "good", "expired"},
           PushWith(To(place), t), wanted' = place, route' = route
    PROVE  ArrivalInv'
  <1>1. To(place) \in Route /\ To(place).next = {} /\ To(place).at = place
    BY FixedPlaces DEF To
  <1>2. /\ pending' = {} <=> To(place) = route
        /\ \A n \in pending' : n.to = To(place)
        /\ \A n \in pending' : /\ n.to.next # {} => n.to.at.name = "login"
                               /\ n.waits = "check" => Protected(n.to.at)
    BY <1>1, PushPlain
  <1>3. PlainInv'
    BY <1>2 DEF PlainInv, Protected
  <1>4. LeadsThere(To(place))'
    BY <1>1 DEF LeadsThere, SamePlace, To
  <1>5. IF pending' = {} THEN LeadsThere(route)' ELSE \A n \in pending' : LeadsThere(n.to)'
    BY <1>2, <1>4 DEF LeadsThere, SamePlace
  <1> QED
    BY <1>3, <1>5 DEF ArrivalInv, LeadsThere, SamePlace

\* The write of a table adds to where the router is, and overtakes what is under way.
LEMMA WriteUrlArrives ==
    ASSUME TypeOK, ArrivalInv, WriteUrl, UNCHANGED <<route, wanted>>
    PROVE  ArrivalInv'
  <1> DEFINE r == [route EXCEPT !.at.listed = TRUE]
  <1>1. /\ r \in Route /\ r.next = route.next /\ r.at.name = route.at.name
        /\ r.at.group = route.at.group /\ r.at.tab = route.at.tab
    BY DEF TypeOK, Route, Place
  <1>2. /\ PushWith(r, token) /\ overtaken' = (overtaken \/ pending # {})
        /\ token \in {"none", "good", "expired"}
    BY DEF WriteUrl, Push, TypeOK
  <1> HIDE DEF r
  <1>3. /\ \A n \in pending' : n.to = r
        /\ \A n \in pending' : /\ n.to.next # {} => n.to.at.name = "login"
                               /\ n.waits = "check" => Protected(n.to.at)
    BY <1>1, <1>2, PushPlain DEF ArrivalInv, PlainInv
  <1>4. PlainInv'
    BY <1>3 DEF ArrivalInv, PlainInv, Protected
  <1>5. CASE overtaken \/ pending # {}
    BY <1>2, <1>4, <1>5 DEF ArrivalInv
  <1>6. CASE ~overtaken /\ pending = {}
    <2>1. LeadsThere(route)
      BY <1>6 DEF ArrivalInv
    <2>2. PICK place \in {route.at} \cup route.next : SamePlace(place, wanted)
      BY <2>1 DEF LeadsThere
    <2>3. \E p \in {r.at} \cup r.next : SamePlace(p, wanted)
      <3>1. CASE place = route.at
        BY <1>1, <2>2, <3>1 DEF SamePlace
      <3>2. CASE place \in route.next
        BY <1>1, <2>2, <3>2
      <3> QED
        BY <2>2, <3>1, <3>2
    <2>4. IF pending' = {} THEN LeadsThere(route)' ELSE \A n \in pending' : LeadsThere(n.to)'
      BY <1>3, <2>1, <2>3 DEF LeadsThere, SamePlace
    <2> QED
      BY <1>4, <2>4 DEF ArrivalInv, LeadsThere, SamePlace
  <1> QED
    BY <1>5, <1>6

LEMMA InitArrives == Init => ArrivalInv
  <1> SUFFICES ASSUME Init PROVE ArrivalInv
    OBVIOUS
  <1>1. wanted \in Place /\ To(wanted) \in Route /\ token \in {"none", "good", "expired"}
    BY FixedPlaces, NavigationAssumption DEF Init
  <1>2. pending = Begun(To(wanted), token) /\ route = To(Start)
    BY DEF Init
  <1>3. To(wanted) # route
    <2>1. wanted.name # "start"
      BY NavigationAssumption DEF Init
    <2>2. To(wanted).at = wanted /\ To(Start).at.name = "start"
      BY DEF To, Start, At
    <2> QED
      BY <1>2, <2>1, <2>2
  <1>4. \A n \in pending : n.to = To(wanted) /\ (n.waits = "check" <=> Protected(wanted))
    BY <1>1, <1>2, BegunIsOne DEF To
  <1>5. pending # {}
    BY <1>1, <1>2, <1>3, BegunIsOne
  <1> QED
    <2>1. To(wanted).at = wanted /\ To(wanted).next = {} /\ route.next = {}
      BY <1>2 DEF To
    <2>2. PlainInv
      BY <1>4, <2>1 DEF PlainInv, Protected
    <2> QED
      BY <1>4, <1>5, <2>1, <2>2 DEF ArrivalInv, LeadsThere, SamePlace

LEMMA NextArrives == TypeInv /\ ArrivalInv /\ [Next]_vars => ArrivalInv'
  <1> SUFFICES ASSUME TypeInv, ArrivalInv, [Next]_vars PROVE ArrivalInv'
    OBVIOUS
  <1>0. TypeOK /\ PlainInv /\ token \in {"none", "good", "expired"} /\ route \in Route
    BY DEF TypeInv, TypeOK, ArrivalInv
  <1>1. ASSUME UNCHANGED <<route, pending, wanted, overtaken>> PROVE ArrivalInv'
    BY <1>1 DEF ArrivalInv, PlainInv, LeadsThere, SamePlace, Protected
  <1>2. ASSUME NEW ok \in BOOLEAN, CheckEnds(ok) PROVE ArrivalInv'
    <2>1. PICK n \in pending :
             /\ n.waits = "check"
             /\ pending' = IF ok THEN {[n EXCEPT !.waits = "page"]} ELSE Refused(n)
             /\ UNCHANGED <<route, wanted, overtaken>>
      BY <1>2 DEF CheckEnds
    <2>2. n \in Navigation /\ n.to.at \in Place
      BY <1>0 DEF TypeOK, Navigation, Route
    <2>3. CASE ok
      <3> DEFINE m == [n EXCEPT !.waits = "page"]
      <3>1. pending' = {m} /\ m.to = n.to /\ m.waits = "page"
        BY <2>1, <2>2, <2>3 DEF Navigation
      <3> HIDE DEF m
      <3> QED
        BY <2>1, <3>1 DEF ArrivalInv, PlainInv, LeadsThere, SamePlace, Protected
    <2>4. CASE ~ok
      <3> DEFINE r == [at |-> Login, next |-> {n.to.at}]
      <3>1. r \in Route /\ r.at.name = "login" /\ r.next = {n.to.at}
        BY <2>2, FixedPlaces DEF Login, At
      <3>2. pending' = Begun(r, token)
        BY <2>1, <2>4 DEF Refused
      <3> HIDE DEF r
      <3>3. /\ \A m \in pending' : m.to = r /\ (m.waits = "check" <=> Protected(r.at))
            /\ pending' = {} <=> r = route
        BY <1>0, <3>1, <3>2, BegunIsOne
      <3>4. overtaken \/ SamePlace(n.to.at, wanted)
        <4>1. n.to.next = {}
          BY <1>0, <2>1 DEF PlainInv, Protected
        <4> QED
          BY <2>1, <4>1 DEF ArrivalInv, LeadsThere
      <3>5. PlainInv'
        BY <1>0, <2>1, <3>1, <3>3 DEF PlainInv, Protected
      <3> QED
        BY <2>1, <3>1, <3>3, <3>4, <3>5 DEF ArrivalInv, LeadsThere, SamePlace
    <2> QED
      BY <2>3, <2>4
  <1>3. ASSUME NEW ok \in BOOLEAN, LoginEnds(ok) PROVE ArrivalInv'
    <2>1. CASE ok
      <3>1. PushWith(To(AfterLogin), "good") /\ wanted' = AfterLogin /\ route' = route
        BY <1>0, <1>3, <2>1, AfterLoginIsPlace DEF LoginEnds
      <3> QED
        BY <1>0, <3>1, AfterLoginIsPlace, PushArrives
    <2>2. CASE ~ok
      BY <1>1, <1>3, <2>2 DEF LoginEnds
    <2> QED
      BY <2>1, <2>2
  <1>4. CASE Enters
    <2>1. PICK n \in pending :
             pending' = {} /\ route' = n.to /\ UNCHANGED <<wanted, overtaken>>
      BY <1>4 DEF Enters
    <2> QED
      BY <2>1 DEF ArrivalInv, PlainInv, LeadsThere, SamePlace
  <1>5. ASSUME NEW ok \in BOOLEAN, GroupsAnswered(ok) PROVE ArrivalInv'
    BY <1>0, <1>1, <1>5, WriteUrlArrives DEF GroupsAnswered
  <1>6. CASE TimerFires
    BY <1>0, <1>6, WriteUrlArrives DEF TimerFires
  <1>7. CASE Logout
    <2>1. PushWith(To(Login), token) /\ wanted' = Login /\ route' = route
      BY <1>7 DEF Logout, Push, Ask
    <2> QED
      BY <1>0, <2>1, FixedPlaces, PushArrives
  <1>8. ASSUME NEW place \in Links, Follow(place) PROVE ArrivalInv'
    <2>1. PushWith(To(place), token) /\ wanted' = place /\ route' = route
      BY <1>8 DEF Follow, Push, Ask
    <2> QED
      BY <1>0, <2>1, LinksArePlaces, PushArrives
  <1>9. ASSUME NEW t \in Tabs, OpenTab(t) PROVE ArrivalInv'
    <2> DEFINE place == [route.at EXCEPT !.tab = t, !.listed = FALSE]
    <2>1. place \in Place
      BY <1>0 DEF Route, Place
    <2>2. PushWith(To(place), token) /\ wanted' = place /\ route' = route
      BY <1>9 DEF OpenTab, Push, Ask
    <2> HIDE DEF place
    <2> QED
      BY <1>0, <2>1, <2>2, PushArrives
  <1>10. ASSUME NEW ok \in BOOLEAN, GroupAnswered(ok) \/ TasksAnswered(ok) PROVE ArrivalInv'
    BY <1>1, <1>10 DEF GroupAnswered, TasksAnswered
  <1>11. CASE PerformLogin \/ Expires \/ LoadAgain
    BY <1>1, <1>11 DEF PerformLogin, Expires, LoadAgain
  <1>12. CASE UNCHANGED vars
    BY <1>1, <1>12 DEF vars
  <1> QED
    BY <1>2, <1>3, <1>4, <1>5, <1>6, <1>7, <1>8, <1>9, <1>10, <1>11, <1>12 DEF Next

\* When no navigation is under way the user is where they asked to be, or on the login page
\* that will return there, unless a table wrote the URL meanwhile.
THEOREM UserAlwaysArrives == Spec => []UserArrives
  <1>1. Spec => []ArrivalInv
    BY InitArrives, NextArrives, NavigationTyped, PTL DEF Spec
  <1>2. ArrivalInv => UserArrives
    BY DEF ArrivalInv, UserArrives, LeadsThere
  <1> QED
    BY <1>1, <1>2, PTL

=============================================================================
