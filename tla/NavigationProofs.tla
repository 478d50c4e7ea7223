-------------------------- MODULE NavigationProofs --------------------------
(***************************************************************************)
(* Proofs about Navigation: for any firmware, any bookmarks and any number *)
(* of sign-in requests, no page asks for what the device refuses to its    *)
(* user, and whoever asked for a page gets it or the sign-in before it.    *)
(***************************************************************************)
EXTENDS Navigation, TLAPS

-----------------------------------------------------------------------------
(* The sections *)

LEMMA RoutedSections ==
  ASSUME TypeOK
  PROVE  /\ Routed \subseteq SectionNames
         /\ features \subseteq AllFeatures
  BY FeaturesAssumption DEF TypeOK, Routed, SectionNames, AllFeatures

\* A section leads to its home only, which is a tab for everybody, and guards
\* what the device keeps for admins.
LEMMA SectionFacts ==
  ASSUME TypeOK, NEW s \in SectionNames \ {"project"}
  PROVE  /\ SectionOf(s).routes \subseteq TabNames
         /\ SectionOf(s).tabs \subseteq TabNames
         /\ SectionOf(s).home \in SectionOf(s).routes
         /\ SectionOf(s).home \notin SectionOf(s).guarded
         /\ SectionOf(s).guarded \subseteq SectionOf(s).routes
         /\ "" \notin SectionOf(s).routes
         /\ \A t \in SectionOf(s).routes :
                <<s, t>> \in AdminPages => s = "security" \/ t \in SectionOf(s).guarded
         /\ s # "security" => \A t \in SectionOf(s).guarded : <<s, t>> \in AdminPages
<1>1. CASE s = "demo"
  BY <1>1 DEF SectionOf, DemoProject, Section, TabNames, AdminPages
<1>2. CASE s = "wifi"
  BY <1>2 DEF SectionOf, WiFiConnection, Section, TabNames, AdminPages
<1>3. CASE s = "ap"
  BY <1>3 DEF SectionOf, AccessPoint, Section, TabNames, AdminPages
<1>4. CASE s = "ntp"
  BY <1>4 DEF SectionOf, NetworkTime, Section, TabNames, AdminPages
<1>5. CASE s = "mqtt"
  BY <1>5 DEF SectionOf, Mqtt, Section, TabNames, AdminPages
<1>6. CASE s = "security"
  BY <1>6 DEF SectionOf, Security, Section, TabNames, AdminPages
<1>7. CASE s = "system"
  BY <1>7 DEF SectionOf, System, Section, TabNames, AdminPages
<1> QED
  BY <1>1, <1>2, <1>3, <1>4, <1>5, <1>6, <1>7 DEF SectionNames

LEMMA PathOf ==
  ASSUME NEW s \in Sections, NEW t \in TabNames
  PROVE  /\ To(s, t) \in Paths
         /\ To(s, t).section = s /\ To(s, t).tab = t /\ ~To(s, t).slash
  BY DEF To, Paths

LEMMA WithinType ==
  ASSUME TypeOK, NEW p \in Paths
  PROVE  Within(p) \in Paths
<1>1. getDefaultRoute \in Paths /\ Root \in Paths /\ To("demo", "information") \in Paths
  BY PathOf DEF getDefaultRoute, Root, Sections, SectionNames, TabNames
<1>2. ASSUME p.section \in Routed \ {"project"}
      PROVE  To(p.section, SectionOf(p.section).home) \in Paths
  <2>1. p.section \in SectionNames \ {"project"}
    BY <1>2, RoutedSections
  <2> QED
    BY <2>1, SectionFacts, PathOf DEF Sections
<1> QED
  BY <1>1, <1>2 DEF Within

\* A page that is shown is a tab of a section, and open to its user.
LEMMA ShownFacts ==
  ASSUME TypeOK, PageShown
  PROVE  /\ path.section \in Routed \ {"project"}
         /\ path.tab \in SectionOf(path.section).routes
         /\ path.section = "security" => me = "admin"
         /\ me # "admin" => path.tab \notin SectionOf(path.section).guarded
<1>1. path \in Paths /\ Within(path) = path
  BY DEF PageShown, TypeOK
<1>a. Root.section = "" /\ "" \notin Routed
  BY RoutedSections DEF Root, To, SectionNames
<1>2. path.section \in Routed
  <2>1. ASSUME path.section \notin Routed PROVE FALSE
    <3>1. path = getDefaultRoute
      BY <1>1, <2>1 DEF Within
    <3>2. getDefaultRoute.section \in Routed
      BY DEF getDefaultRoute, To, Routed
    <3> QED
      BY <2>1, <3>1, <3>2
  <2> QED
    BY <2>1
<1>3. path.section # "project"
  BY <1>1, <1>2 DEF Within, To, Routed
<1>4. ~(path.section = "security" /\ me # "admin")
  BY <1>1, <1>2, <1>3, <1>a DEF Within
<1>5. path.tab \in SectionOf(path.section).routes
  <2>1. ASSUME path.tab \notin SectionOf(path.section).routes PROVE FALSE
    <3>1. path = To(path.section, SectionOf(path.section).home)
      BY <1>1, <1>2, <1>3, <1>4, <2>1 DEF Within
    <3>2. path.section \in SectionNames \ {"project"}
      BY <1>2, <1>3, RoutedSections
    <3>3. To(path.section, SectionOf(path.section).home).tab = SectionOf(path.section).home
      BY DEF To
    <3>4. SectionOf(path.section).home \in SectionOf(path.section).routes
      BY <3>2, SectionFacts
    <3> QED
      BY <2>1, <3>1, <3>3, <3>4
  <2> QED
    BY <2>1
<1>6. ASSUME me # "admin" PROVE path.tab \notin SectionOf(path.section).guarded
  BY <1>1, <1>2, <1>3, <1>4, <1>5, <1>6, <1>a DEF Within, Guarded
<1> QED
  BY <1>2, <1>3, <1>4, <1>5, <1>6

-----------------------------------------------------------------------------
(* Type correctness *)

LEMMA InitTypeOK == Init => TypeOK
  BY AddressesAssumption DEF Init, TypeOK

LEMMA LoadAtType ==
  ASSUME TypeOK, NEW p \in Paths, LoadAt(p), goal' \in Paths \cup {None}
  PROVE  TypeOK'
  BY DEF LoadAt, TypeOK

LEMMA RedirectsType ==
  ASSUME TypeOK, Redirects
  PROVE  TypeOK'
<1>1. Root \in Paths /\ To("unauthorized", "") \in Paths /\ getDefaultRoute \in Paths
  BY PathOf DEF Root, getDefaultRoute, Sections, SectionNames, TabNames
<1>2. CASE RootRedirect
  BY <1>1, <1>2 DEF RootRedirect, TypeOK
<1>3. CASE RequireUnauthenticated
  BY <1>1, <1>3 DEF RequireUnauthenticated, fetchLoginRedirect, TypeOK
<1>4. CASE RequireAuthenticated
  BY <1>1, <1>4 DEF RequireAuthenticated, storeLoginRedirect, TypeOK
<1>5. CASE AuthenticatedRouting
  <2>1. Within(path) \in Paths
    BY WithinType DEF TypeOK
  <2> QED
    BY <1>5, <2>1 DEF AuthenticatedRouting, TypeOK
<1>6. CASE RemoveTrailingSlashes
  BY <1>6 DEF RemoveTrailingSlashes, TypeOK, Paths
<1> QED
  BY <1>2, <1>3, <1>4, <1>5, <1>6 DEF Redirects

\* Menu, tabs and the scanner lead to paths, never to the one that signs out.
LEMMA Clicks ==
  ASSUME TypeOK, ClickMenu \/ RouterTabs \/ selectNetwork
  PROVE  \E p \in Paths : GoTo(p) /\ p.section # "unauthorized"
<1>1. CASE ClickMenu
  <2>1. PICK p \in LayoutMenu \cup ProjectMenu : GoTo(p)
    BY <1>1 DEF ClickMenu
  <2>2. PICK s \in {"wifi", "ap", "system", "ntp", "mqtt", "security", "demo"} : p = To(s, "")
    BY <2>1 DEF LayoutMenu, ProjectMenu
  <2>3. p \in Paths /\ p.section # "unauthorized"
    BY <2>2, PathOf DEF Sections, SectionNames, TabNames
  <2> QED
    BY <2>1, <2>3
<1>2. CASE RouterTabs
  <2>1. path.section \in SectionNames \ {"project"}
    BY <1>2, ShownFacts, RoutedSections DEF RouterTabs
  <2>2. PICK tab \in SectionOf(path.section).tabs : GoTo(To(path.section, tab))
    BY <1>2 DEF RouterTabs
  <2>3. /\ To(path.section, tab) \in Paths
        /\ To(path.section, tab).section = path.section
    BY <2>1, <2>2, SectionFacts, PathOf DEF Sections
  <2>4. path.section # "unauthorized"
    BY <2>1 DEF SectionNames
  <2> QED
    BY <2>2, <2>3, <2>4
<1>3. CASE selectNetwork
  <2>1. "wifi" \in Sections /\ "settings" \in TabNames
    BY DEF Sections, SectionNames, TabNames
  <2>2. To("wifi", "settings") \in Paths /\ To("wifi", "settings").section # "unauthorized"
    BY <2>1, PathOf
  <2> QED
    BY <1>3, <2>2 DEF selectNetwork
<1> QED
  BY <1>1, <1>2, <1>3

LEMMA SetMeType ==
  ASSUME TypeOK, NEW user \in Roles \cup {None}, setMe(user)
  PROVE  me' \in Roles \cup {None} /\ overtaken' \in BOOLEAN /\ goal' \in Paths \cup {None}
  BY DEF setMe, TypeOK

LEMMA SaveAnsweredType ==
  ASSUME TypeOK, SaveAnswered
  PROVE  TypeOK'
<1>1. PICK r \in refreshes :
        \/ token = None /\ refreshes' = refreshes \ {r} /\ setMe(None)
        \/ /\ token # None
           /\ refreshes' = (refreshes \ {r}) \cup {[r EXCEPT !.who = token, !.good = valid]}
           /\ UNCHANGED <<me, goal, overtaken>>
  BY DEF SaveAnswered
<1>2. UNCHANGED <<features, app, path, redirect, token, valid, signing, processing>>
  BY DEF SaveAnswered
<1>3. CASE token = None
  <2>1. refreshes' \subseteq refreshes /\ setMe(None)
    BY <1>1, <1>3
  <2>2. me' \in Roles \cup {None} /\ overtaken' \in BOOLEAN /\ goal' \in Paths \cup {None}
    BY <2>1, SetMeType
  <2> QED
    BY <1>2, <2>1, <2>2 DEF TypeOK
<1>4. CASE token # None
  <2>1. [r EXCEPT !.who = token, !.good = valid]
          \in [id : 1..MaxRefreshes, who : Roles \cup {None}, good : BOOLEAN]
    BY DEF TypeOK
  <2>2. refreshes' \subseteq [id : 1..MaxRefreshes, who : Roles \cup {None}, good : BOOLEAN]
    BY <1>1, <1>4, <2>1 DEF TypeOK
  <2> QED
    BY <1>1, <1>2, <1>4, <2>2 DEF TypeOK
<1> QED
  BY <1>3, <1>4

LEMMA RefreshAnsweredType ==
  ASSUME TypeOK, RefreshAnswered
  PROVE  TypeOK'
<1>1. PICK r \in refreshes :
        /\ refreshes' = refreshes \ {r}
        /\ setMe(r.who) \/ setMe(None)
        /\ UNCHANGED <<path, redirect>> \/ Intercepted
  BY DEF RefreshAnswered
<1>2. r.who \in Roles \cup {None}
  BY DEF TypeOK
<1>3. me' \in Roles \cup {None} /\ overtaken' \in BOOLEAN /\ goal' \in Paths \cup {None}
  BY <1>1, <1>2, SetMeType
<1>4. To("unauthorized", "") \in Paths
  BY PathOf DEF Sections, TabNames
<1>5. path' \in Paths /\ redirect' \in Paths \cup {None}
  BY <1>1, <1>4 DEF Intercepted, storeLoginRedirect, TypeOK
<1> QED
  BY <1>1, <1>3, <1>5 DEF RefreshAnswered, TypeOK

LEMMA StepTypeOK == TypeOK /\ [Next]_vars => TypeOK'
<1> SUFFICES ASSUME TypeOK, [Next]_vars PROVE TypeOK'
  OBVIOUS
<1>1. Root \in Paths /\ To("unauthorized", "") \in Paths /\ To("firmwareUpdated", "") \in Paths
  BY PathOf DEF Root, Sections, SectionNames, TabNames
<1>2. CASE ReadFeatures
  BY <1>2 DEF ReadFeatures, TypeOK
<1>3. CASE Refresh
  <2>1. me' \in Roles \cup {None}
    BY <1>3 DEF Refresh, TypeOK, Roles
  <2> QED
    BY <1>3, <2>1 DEF Refresh, TypeOK
<1>4. CASE Redirects
  BY <1>4, RedirectsType
<1>5. CASE OpenAddress
  BY <1>5, LoadAtType, AddressesAssumption DEF OpenAddress
<1>6. CASE ClickMenu \/ RouterTabs \/ selectNetwork
  BY <1>6, Clicks DEF GoTo, TypeOK
<1>7. CASE SignOut
  BY <1>1, <1>7 DEF SignOut, TypeOK
<1>8. CASE SignIn
  <2>1. PICK id \in 1..MaxSignIns, who \in Roles :
          signing' = signing \cup {[id |-> id, who |-> who, here |-> TRUE]}
    BY <1>8 DEF SignIn
  <2>2. [id |-> id, who |-> who, here |-> TRUE] \in [id : 1..MaxSignIns, who : Roles, here : BOOLEAN]
    OBVIOUS
  <2>3. signing' \subseteq [id : 1..MaxSignIns, who : Roles, here : BOOLEAN]
    BY <2>1, <2>2 DEF TypeOK
  <2> QED
    BY <1>8, <2>3 DEF SignIn, TypeOK
<1>9. CASE SignInRefused
  BY <1>9 DEF SignInRefused, TypeOK
<1>10. CASE SignedIn
  <2>1. PICK s \in signing :
          /\ token' = s.who /\ me' = s.who /\ valid' = TRUE
          /\ signing' = {[r EXCEPT !.here = FALSE] : r \in signing \ {s}}
    BY <1>10 DEF SignedIn
  <2>2. signing' \subseteq [id : 1..MaxSignIns, who : Roles, here : BOOLEAN]
    BY <2>1 DEF TypeOK
  <2>3. s.who \in Roles
    BY DEF TypeOK
  <2> QED
    BY <1>10, <2>1, <2>2, <2>3 DEF SignedIn, TypeOK
<1>11. CASE Expire
  BY <1>11 DEF Expire, TypeOK
<1>12. CASE handleApiResponseError
  BY <1>1, <1>12 DEF handleApiResponseError, Intercepted, storeLoginRedirect, TypeOK
<1>15. CASE SaveSecurity
  <2>1. PICK id \in 1..MaxRefreshes :
          refreshes' = refreshes \cup {[id |-> id, who |-> None, good |-> FALSE]}
    BY <1>15 DEF SaveSecurity
  <2>2. [id |-> id, who |-> None, good |-> FALSE]
          \in [id : 1..MaxRefreshes, who : Roles \cup {None}, good : BOOLEAN]
    OBVIOUS
  <2>3. refreshes' \subseteq [id : 1..MaxRefreshes, who : Roles \cup {None}, good : BOOLEAN]
    BY <2>1, <2>2 DEF TypeOK
  <2> QED
    BY <1>15, <2>3 DEF SaveSecurity, TypeOK
<1>16. CASE SaveAnswered
  BY <1>16, SaveAnsweredType
<1>17. CASE RefreshAnswered
  BY <1>17, RefreshAnsweredType
<1>13. CASE FirmwareUpdated
  BY <1>1, <1>13, LoadAtType DEF FirmwareUpdated
<1>14. CASE UNCHANGED vars
  BY <1>14 DEF vars, TypeOK
<1> QED
  BY <1>2, <1>3, <1>4, <1>5, <1>6, <1>7, <1>8, <1>9, <1>10, <1>11, <1>12, <1>13, <1>14,
     <1>15, <1>16, <1>17 DEF Next

\* Every variable of Navigation keeps its type: redirects, remembered paths and
\* late answers never lead out of the paths and users there are.
THEOREM TypeCorrect == Spec => []TypeOK
  BY InitTypeOK, StepTypeOK, PTL DEF Spec

-----------------------------------------------------------------------------
(* What the inductive invariant says besides the types.  First: the user is *)
(* the one whose token is stored, unless a late answer to refresh() has     *)
(* brought back another, and nobody while the interface loads.              *)

UserHasToken ==
    /\ secured /\ me # None /\ ~overtaken => token = me
    /\ app # "ready" => me = None

\* Firmware without security: everybody is admin, and nothing leads to a sign-in.
OpenBuild ==
    ~secured =>
        /\ app = "ready" => me = "admin"
        /\ signing = {} /\ refreshes = {} /\ ~overtaken
        /\ redirect = None /\ path.section # "unauthorized"

\* What is remembered is a page, not the way to the sign-in.
RedirectIsPage == redirect # None => redirect.section # "unauthorized"

SafeInv == TypeOK /\ UserHasToken /\ OpenBuild /\ RedirectIsPage

LEMMA InitSafeInv == Init => SafeInv
  BY InitTypeOK, AddressesAssumption
  DEF Init, SafeInv, UserHasToken, OpenBuild, RedirectIsPage

LEMMA RootFacts ==
  /\ Root.section = "" /\ To("unauthorized", "").section = "unauthorized"
  /\ To("firmwareUpdated", "").section = "firmwareUpdated"
  /\ getDefaultRoute.section \in {"project", "wifi"}
  BY DEF Root, To, getDefaultRoute

LEMMA WithinIsPage ==
  ASSUME TypeOK, Within(path).section = "unauthorized"
  PROVE  FALSE
<1>1. "unauthorized" \notin Routed
  BY RoutedSections DEF SectionNames
<1>2. To("demo", "information").section = "demo"
  BY DEF To
<1>3. To(path.section, SectionOf(path.section).home).section = path.section
  BY DEF To
<1> QED
  BY <1>1, <1>2, <1>3, RootFacts DEF Within

LEMMA StepSafeInv == SafeInv /\ [Next]_vars => SafeInv'
<1> SUFFICES ASSUME SafeInv, [Next]_vars PROVE (UserHasToken /\ OpenBuild /\ RedirectIsPage)'
  BY StepTypeOK DEF SafeInv
<1> USE DEF UserHasToken, OpenBuild, RedirectIsPage, secured
<1>a. TypeOK /\ UserHasToken /\ OpenBuild /\ RedirectIsPage
  BY DEF SafeInv
<1>1. CASE ReadFeatures
  BY <1>a, <1>1 DEF ReadFeatures
<1>2. CASE Refresh
  BY <1>a, <1>2 DEF Refresh
<1>3. CASE RootRedirect
  BY <1>a, <1>3, RootFacts DEF RootRedirect, ForAnyone
<1>4. CASE RequireUnauthenticated
  BY <1>a, <1>4, RootFacts DEF RequireUnauthenticated, fetchLoginRedirect
<1>5. CASE RequireAuthenticated
  <2>1. secured
    BY <1>a, <1>5, NoneAssumption DEF RequireAuthenticated, Roles
  <2>2. path.section # "unauthorized"
    BY <1>5 DEF RequireAuthenticated, Protected, ForAnyone
  <2> QED
    BY <1>a, <1>5, <2>1, <2>2 DEF RequireAuthenticated, storeLoginRedirect
<1>6. CASE AuthenticatedRouting
  <2>1. Within(path).section # "unauthorized"
    BY <1>a, WithinIsPage
  <2> QED
    BY <1>a, <1>6, <2>1 DEF AuthenticatedRouting
<1>7. CASE RemoveTrailingSlashes
  <2>1. path'.section = path.section
    BY <1>a, <1>7 DEF RemoveTrailingSlashes, TypeOK, Paths
  <2> QED
    BY <1>a, <1>7, <2>1 DEF RemoveTrailingSlashes
<1>8. CASE OpenAddress
  BY <1>a, <1>8, AddressesAssumption DEF OpenAddress, LoadAt
<1>9. CASE ClickMenu \/ RouterTabs \/ selectNetwork
  BY <1>a, <1>9, Clicks DEF GoTo
<1>10. CASE SignOut
  BY <1>a, <1>10, RootFacts DEF SignOut, PageShown
<1>11. CASE SignIn
  BY <1>a, <1>11 DEF SignIn, SignInShown
<1>12. CASE SignInRefused
  BY <1>a, <1>12 DEF SignInRefused
<1>13. CASE SignedIn
  <2>1. PICK s \in signing :
          /\ token' = s.who /\ me' = s.who
          /\ signing' = {[r EXCEPT !.here = FALSE] : r \in signing \ {s}}
    BY <1>13 DEF SignedIn
  <2>2. secured
    BY <1>a, <2>1
  <2> QED
    BY <1>a, <1>13, <2>1, <2>2 DEF SignedIn
<1>14. CASE Expire
  BY <1>a, <1>14 DEF Expire
<1>15. CASE handleApiResponseError
  <2>1. secured
    BY <1>15 DEF handleApiResponseError, Authorized
  <2>2. path.section # "unauthorized"
    BY <1>15 DEF handleApiResponseError, PageShown, Protected, ForAnyone
  <2> QED
    BY <1>a, <1>15, <2>1, <2>2 DEF handleApiResponseError, Intercepted, storeLoginRedirect
<1>18. CASE SaveSecurity
  <2>1. secured
    BY <1>a, <1>18, ShownFacts DEF SaveSecurity, Routed
  <2> QED
    BY <1>a, <1>18, <2>1 DEF SaveSecurity
<1>19. CASE SaveAnswered
  <2>1. secured /\ app = "ready"
    BY <1>a, <1>19 DEF SaveAnswered
  <2>2. me' = None \/ (me' = me /\ overtaken' = overtaken)
    BY <1>19 DEF SaveAnswered, setMe
  <2> QED
    BY <1>a, <1>19, <2>1, <2>2 DEF SaveAnswered
<1>20. CASE RefreshAnswered
  <2>1. secured /\ app = "ready"
    BY <1>a, <1>20 DEF RefreshAnswered
  <2>2. me' # None /\ ~overtaken' => token = me'
    BY <1>20 DEF RefreshAnswered, setMe
  <2>3. UNCHANGED redirect \/ (redirect' = path /\ Protected(path))
    BY <1>20 DEF RefreshAnswered, Intercepted, storeLoginRedirect
  <2>4. Protected(path) => path.section # "unauthorized"
    BY DEF Protected, ForAnyone
  <2> QED
    BY <1>a, <1>20, <2>1, <2>2, <2>3, <2>4 DEF RefreshAnswered
<1>16. CASE FirmwareUpdated
  BY <1>a, <1>16, RootFacts DEF FirmwareUpdated, LoadAt
<1>17. CASE UNCHANGED vars
  BY <1>a, <1>17 DEF vars
<1> QED
  BY <1>1, <1>2, <1>3, <1>4, <1>5, <1>6, <1>7, <1>8, <1>9, <1>10, <1>11, <1>12, <1>13, <1>14,
     <1>15, <1>16, <1>17, <1>18, <1>19, <1>20 DEF Next, Redirects

LEMMA SafePages == SafeInv => NotRefused
<1> SUFFICES ASSUME SafeInv, PageShown, valid, ~overtaken, secured PROVE Authorized
  BY DEF NotRefused, Authorized
<1>1. TypeOK /\ token = me /\ token # None
  BY DEF SafeInv, UserHasToken, PageShown
<1>2. ASSUME <<path.section, path.tab>> \in AdminPages PROVE me = "admin"
  <2>1. /\ path.section \in SectionNames \ {"project"}
        /\ path.tab \in SectionOf(path.section).routes
    BY <1>1, ShownFacts, RoutedSections
  <2>2. path.section = "security" \/ path.tab \in SectionOf(path.section).guarded
    BY <1>1, <1>2, <2>1, SectionFacts
  <2> QED
    BY <1>1, <2>2, ShownFacts
<1> QED
  BY <1>1, <1>2 DEF Authorized

\* Whatever is typed, clicked, remembered or signed in, and while saves make the
\* interface refresh its user, a page that is shown to a user whose token is valid
\* asks for nothing the device refuses them, but for a user that refresh() has
\* brought back with a token that is no longer the stored one.
THEOREM PagesAreForTheirUsers == Spec => []NotRefused
  BY InitSafeInv, StepSafeInv, SafePages, PTL DEF Spec

-----------------------------------------------------------------------------
(* The page that was asked for *)

\* From p the routes lead to the goal, or to what a section shows first.
Leads(p) ==
    \/ /\ p.section = goal.section
       /\ \/ p.tab = goal.tab
          \/ goal.section # "project" /\ goal.tab = "" /\ p.tab = SectionOf(goal.section).home
    \/ goal.section = "project" /\ p.section = "demo" /\ p.tab = "information"

\* There is such a page, and it is for the user, or will be for the next one.
Wanted ==
    /\ goal # None /\ Exists(goal)
    /\ me = None \/ Permitted(goal) \/ path.section = "unauthorized"

\* On the way through the sign-in the goal is what is remembered.
GoalKept ==
    Wanted => \/ Leads(path)
              \/ /\ path.section \in {"unauthorized", ""}
                 /\ redirect # None /\ Leads(redirect)

GoalInv == SafeInv /\ GoalKept

LEMMA InitGoalKept == Init => GoalKept
  BY DEF Init, GoalKept, Leads

\* The goal is a page of a section, so that a path that leads to it is no
\* station of the sign-in.
LEMMA GoalFacts ==
  ASSUME TypeOK, Wanted, NEW p \in Paths, Leads(p)
  PROVE  /\ p.section \in SectionNames /\ goal.section \in Routed
         /\ p.section \notin {"", "unauthorized", "firmwareUpdated"}
<1>1. goal.section \in Routed
  BY DEF Wanted, Exists
<1>2. p.section \in SectionNames
  BY <1>1, RoutedSections DEF Leads, SectionNames
<1> QED
  BY <1>1, <1>2 DEF SectionNames

\* Where AuthenticatedRouting leads from such a path, it still leads to the goal.
LEMMA RoutingLeads ==
  ASSUME TypeOK, goal # None, Exists(goal), Permitted(goal), Leads(path)
  PROVE  Leads(Within(path))
<1>1. goal.section \in Routed /\ goal.section \in SectionNames
  BY RoutedSections DEF Exists
<1>2. To("demo", "information").section = "demo" /\ To("demo", "information").tab = "information"
  BY DEF To
<1>3. CASE path.section = "project"
  <2>1. Within(path) = To("demo", "information")
    BY <1>1, <1>3 DEF Within, Leads
  <2> QED
    BY <1>2, <1>3, <2>1 DEF Leads
<1>4. CASE goal.section = "project" /\ path.section # "project"
  <2>1. path.section = "demo" /\ path.tab = "information" /\ "demo" \in Routed
    BY <1>1, <1>4 DEF Leads, Routed
  <2>2. SectionOf("demo").routes = {"information", "rest", "socket", "mqtt"}
        /\ SectionOf("demo").guarded = {}
    BY DEF SectionOf, DemoProject, Section
  <2>3. Within(path) = path
    BY <2>1, <2>2 DEF Within, Guarded
  <2> QED
    BY <2>3
<1>5. CASE goal.section # "project" /\ path.section # "project"
  <2> DEFINE s == goal.section
  <2>1. path.section = s /\ s \in SectionNames \ {"project"}
    BY <1>1, <1>5 DEF Leads
  <2>2. /\ SectionOf(s).home \in SectionOf(s).routes
        /\ SectionOf(s).home \notin SectionOf(s).guarded
        /\ "" \notin SectionOf(s).routes
        /\ s # "security" => \A t \in SectionOf(s).guarded : <<s, t>> \in AdminPages
    BY <2>1, SectionFacts
  <2>3. To(s, SectionOf(s).home).section = s /\ To(s, SectionOf(s).home).tab = SectionOf(s).home
    BY DEF To
  <2>4. ~(s = "security" /\ me # "admin")
    BY DEF Permitted
  <2>5. CASE path.tab \notin SectionOf(s).routes
    <3>1. goal.tab = ""
      BY <1>5, <2>1, <2>2, <2>5 DEF Leads, Exists
    <3>2. Within(path) = To(s, SectionOf(s).home)
      BY <1>1, <1>5, <2>1, <2>4, <2>5 DEF Within
    <3> QED
      BY <1>5, <2>3, <3>1, <3>2 DEF Leads
  <2>6. CASE path.tab \in SectionOf(s).routes
    <3>1. ASSUME me # "admin" PROVE ~Guarded(path)
      <4>1. s # "security" /\ <<s, goal.tab>> \notin AdminPages
        BY <3>1 DEF Permitted
      <4>2. path.tab \notin SectionOf(s).guarded
        BY <1>5, <2>1, <2>2, <4>1 DEF Leads
      <4> QED
        BY <2>1, <4>1, <4>2 DEF Guarded
    <3>2. Within(path) = path
      BY <1>1, <1>5, <2>1, <2>4, <2>6, <3>1 DEF Within
    <3> QED
      BY <3>2
  <2> QED
    BY <2>5, <2>6
<1> QED
  BY <1>3, <1>4, <1>5

\* A step that leaves goal, path, redirect and features alone, and makes nobody
\* an admin who was not.
LEMMA GoalStays ==
  ASSUME GoalKept, UNCHANGED <<features, goal, path, redirect>>, me' = me \/ me = None
  PROVE  GoalKept'
<1>1. Wanted' => Wanted
  BY DEF Wanted, Exists, Permitted, Routed, SectionOf, System, DemoProject, Security
<1>2. Leads(path) => Leads(path)'
  BY DEF Leads, SectionOf, System
<1>3. Leads(redirect) => Leads(redirect)'
  BY DEF Leads, SectionOf, System
<1> QED
  BY <1>1, <1>2, <1>3 DEF GoalKept

\* A step to the page that is asked for.
LEMMA GoalIsPath ==
  ASSUME path' = goal'
  PROVE  GoalKept'
  BY DEF GoalKept, Leads

LEMMA StepGoalKept == GoalInv /\ [Next]_vars => GoalKept'
<1> SUFFICES ASSUME GoalInv, [Next]_vars PROVE GoalKept'
  OBVIOUS
<1>a. TypeOK /\ UserHasToken /\ OpenBuild /\ RedirectIsPage /\ GoalKept
  BY DEF GoalInv, SafeInv
<1>b. ASSUME goal' = None PROVE GoalKept'
  BY <1>b DEF GoalKept, Wanted
<1>1. CASE ReadFeatures \/ SignIn \/ SignInRefused \/ SaveSecurity \/ Expire \/ UNCHANGED vars
  <2>1. UNCHANGED <<features, goal, path, redirect, me>>
    BY <1>1 DEF ReadFeatures, SignIn, SignInRefused, SaveSecurity, Expire, vars
  <2> QED
    BY <1>a, <2>1, GoalStays
<1>2. CASE Refresh
  <2>1. me = None
    BY <1>a, <1>2 DEF Refresh, UserHasToken
  <2> QED
    BY <1>a, <1>2, <2>1, GoalStays DEF Refresh
<1>3. CASE RootRedirect
  <2>1. path' = Root /\ UNCHANGED <<features, redirect, goal>>
    BY <1>3 DEF RootRedirect
  <2>2. ASSUME Wanted' PROVE path.section = "unauthorized" /\ Wanted
    <3>1. CASE path.section = "unauthorized"
      BY <2>1, <2>2, <3>1 DEF Wanted, Exists, Routed, SectionOf, System
    <3>2. CASE path.section = "firmwareUpdated"
      <4>1. me' = me
        BY <1>3, <3>2 DEF RootRedirect
      <4>2. Wanted
        BY <2>1, <2>2, <4>1, RootFacts DEF Wanted, Exists, Permitted, Routed, SectionOf, System
      <4>3. Leads(path)
        BY <1>a, <3>2, <4>2 DEF GoalKept
      <4> QED
        BY <1>a, <3>2, <4>2, <4>3, GoalFacts DEF TypeOK
    <3> QED
      BY <1>3, <3>1, <3>2 DEF RootRedirect, ForAnyone
  <2>3. ASSUME Wanted' PROVE redirect # None /\ Leads(redirect)
    BY <1>a, <2>2, <2>3, GoalFacts DEF GoalKept, TypeOK
  <2>4. Leads(redirect) => Leads(redirect)'
    BY <2>1 DEF Leads, SectionOf, System
  <2> QED
    BY <2>1, <2>3, <2>4, RootFacts DEF GoalKept
<1>4. CASE RequireUnauthenticated
  <2>1. /\ me # None /\ path.section = "" /\ UNCHANGED <<features, me, goal>>
        /\ path' = IF redirect # None THEN redirect ELSE getDefaultRoute
    BY <1>4 DEF RequireUnauthenticated, fetchLoginRedirect
  <2>2. path'.section # "unauthorized"
    BY <1>a, <2>1, RootFacts DEF RedirectIsPage
  <2>3. ASSUME Wanted' PROVE Wanted
    BY <2>1, <2>2, <2>3 DEF Wanted, Exists, Permitted, Routed, SectionOf, System
  <2>4. ASSUME Wanted' PROVE redirect # None /\ Leads(redirect)
    BY <1>a, <2>1, <2>3, <2>4, GoalFacts DEF GoalKept, TypeOK
  <2>5. Leads(redirect) /\ redirect # None => Leads(path)'
    BY <2>1 DEF Leads, SectionOf, System
  <2> QED
    BY <2>4, <2>5 DEF GoalKept
<1>5. CASE RequireAuthenticated
  <2>1. /\ me = None /\ path.section \notin ForAnyone
        /\ redirect' = path /\ path' = To("unauthorized", "") /\ UNCHANGED <<features, me, goal>>
    BY <1>5 DEF RequireAuthenticated, storeLoginRedirect, Protected
  <2>2. path.section # ""
    BY <1>a, <1>5, NoneAssumption DEF RequireAuthenticated, Protected, OpenBuild, Roles
  <2>3. ASSUME Wanted' PROVE Leads(path)
    <3>1. Wanted
      BY <2>1, <2>3 DEF Wanted, Exists, Routed, SectionOf, System
    <3> QED
      BY <1>a, <2>1, <2>2, <3>1 DEF GoalKept, ForAnyone
  <2>4. Leads(path) => Leads(redirect)'
    BY <2>1 DEF Leads, SectionOf, System
  <2>5. path # None
    BY <1>a, NoneAssumption DEF TypeOK
  <2> QED
    BY <2>1, <2>3, <2>4, <2>5, RootFacts DEF GoalKept
<1>6. CASE AuthenticatedRouting
  <2>1. /\ app = "ready" /\ me # None /\ Protected(path)
        /\ path' = Within(path) /\ UNCHANGED <<features, redirect, me, goal>>
    BY <1>6 DEF AuthenticatedRouting
  <2>2. path'.section # "unauthorized"
    BY <1>a, <2>1, WithinIsPage
  <2>3. ASSUME Wanted'
        PROVE  goal # None /\ Exists(goal) /\ Permitted(goal) /\ Wanted
    BY <2>1, <2>2, <2>3 DEF Wanted, Exists, Permitted, Routed, SectionOf, System
  <2>4. ASSUME Wanted' PROVE Leads(path)
    <3>1. path.section # "unauthorized"
      BY <2>1 DEF Protected, ForAnyone
    <3>2. ASSUME path.section = "" PROVE redirect = None
      BY <1>a, <2>1, <3>2 DEF Protected, OpenBuild
    <3> QED
      BY <1>a, <2>3, <2>4, <3>1, <3>2 DEF GoalKept
  <2>5. ASSUME Wanted' PROVE Leads(Within(path))
    BY <1>a, <2>3, <2>4, <2>5, RoutingLeads
  <2>6. Leads(Within(path)) => Leads(path)'
    BY <2>1 DEF Leads, SectionOf, System
  <2> QED
    BY <2>5, <2>6 DEF GoalKept
<1>7. CASE RemoveTrailingSlashes
  <2>1. path'.section = path.section /\ path'.tab = path.tab /\ UNCHANGED <<features, redirect, me, goal>>
    BY <1>a, <1>7 DEF RemoveTrailingSlashes, TypeOK, Paths
  <2>2. Wanted' => Wanted
    BY <2>1 DEF Wanted, Exists, Permitted, Routed, SectionOf, System
  <2>3. (Leads(path) => Leads(path)') /\ (Leads(redirect) => Leads(redirect)')
    BY <2>1 DEF Leads, SectionOf, System
  <2> QED
    BY <1>a, <2>1, <2>2, <2>3 DEF GoalKept
<1>8. CASE OpenAddress
  BY <1>8, GoalIsPath DEF OpenAddress, LoadAt
<1>9. CASE ClickMenu \/ RouterTabs \/ selectNetwork
  BY <1>a, <1>9, Clicks, GoalIsPath DEF GoTo
<1>10. CASE SignOut
  BY <1>b, <1>10 DEF SignOut
<1>11. CASE SignedIn
  <2>1. CASE me = None
    BY <1>a, <1>11, <2>1, GoalStays DEF SignedIn
  <2>2. CASE me # None
    BY <1>b, <1>11, <2>2 DEF SignedIn
  <2> QED
    BY <2>1, <2>2
<1>c. ASSUME Intercepted, goal' = path PROVE GoalKept'
  <2>1. redirect' = path /\ path' = To("unauthorized", "")
    BY <1>c DEF Intercepted, storeLoginRedirect
  <2>2. redirect' # None /\ Leads(redirect)'
    BY <1>a, <1>c, <2>1, NoneAssumption DEF Leads, TypeOK
  <2> QED
    BY <2>1, <2>2, RootFacts DEF GoalKept
<1>12. CASE handleApiResponseError
  BY <1>c, <1>12 DEF handleApiResponseError
<1>d. ASSUME NEW user, setMe(user), UNCHANGED <<features, path, redirect>> PROVE GoalKept'
  <2>1. CASE me = None \/ me' = me
    BY <1>a, <1>d, <2>1, GoalStays DEF setMe
  <2>2. CASE me # None /\ me' # me
    BY <1>d, <2>2, GoalIsPath DEF setMe
  <2> QED
    BY <2>1, <2>2
<1>14. CASE SaveAnswered
  <2>1. UNCHANGED <<features, path, redirect>> /\ (setMe(None) \/ UNCHANGED <<me, goal>>)
    BY <1>14 DEF SaveAnswered
  <2> QED
    BY <1>a, <1>d, <2>1, GoalStays
<1>15. CASE RefreshAnswered
  <2>1. PICK r \in refreshes :
          \/ setMe(r.who) /\ UNCHANGED <<path, redirect>>
          \/ setMe(None) /\ UNCHANGED <<path, redirect>>
          \/ setMe(None) /\ me # None /\ Intercepted
    BY <1>15 DEF RefreshAnswered
  <2>2. UNCHANGED features
    BY <1>15 DEF RefreshAnswered
  <2> QED
    BY <1>c, <1>d, <2>1, <2>2 DEF setMe
<1>13. CASE FirmwareUpdated
  BY <1>b, <1>13 DEF FirmwareUpdated
<1> QED
  BY <1>1, <1>2, <1>3, <1>4, <1>5, <1>6, <1>7, <1>8, <1>9, <1>10, <1>11, <1>12, <1>13,
     <1>14, <1>15 DEF Next, Redirects

LEMMA KeptIsReached == GoalInv => GoalReached
<1> SUFFICES ASSUME GoalInv, PageShown, goal # None, Exists(goal), Permitted(goal)
             PROVE  /\ path.section = IF goal.section = "project" THEN "demo" ELSE goal.section
                    /\ (goal.section # "project" /\ goal.tab # "" => path.tab = goal.tab)
  BY DEF GoalReached
<1>1. path.section \in Routed \ {"project"} /\ "" \notin Routed /\ "unauthorized" \notin Routed
  BY ShownFacts, RoutedSections DEF GoalInv, SafeInv, SectionNames
<1>2. Leads(path)
  BY <1>1 DEF GoalInv, GoalKept, Wanted
<1> QED
  BY <1>1, <1>2 DEF Leads

\* Whoever asks for a page that exists and is for them gets it, with whatever
\* sign-ins, expired tokens and redirects come between.
THEOREM GoalsAreReached == Spec => []GoalReached
<1>1. Init => GoalInv
  BY InitSafeInv, InitGoalKept DEF GoalInv
<1>2. GoalInv /\ [Next]_vars => GoalInv'
  BY StepSafeInv, StepGoalKept DEF GoalInv
<1> QED
  BY <1>1, <1>2, KeptIsReached, PTL DEF Spec

=============================================================================
