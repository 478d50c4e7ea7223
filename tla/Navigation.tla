----------------------------- MODULE Navigation -----------------------------
(***************************************************************************)
(* Where the interface is: the routes with their redirects, the guards for *)
(* users and admins, menu and tabs, the sign-in page, and the path that is *)
(* remembered for the time after signing in.  A path is a section, a tab   *)
(* of it and maybe a trailing slash; "demo" is /project/demo.  A step is a *)
(* commit of React with its effects.                                       *)
(***************************************************************************)
EXTENDS Naturals

CONSTANTS
    FeatureSets,    \* what firmware may have built in, as sets of features
    Addresses,      \* the paths that users have bookmarks of
    MaxSignIns,     \* bound on sign-in requests under way at a time
    MaxRefreshes,   \* bound on saves of users or secret under way, with their refresh()
    None            \* nobody, no path

Roles == {"admin", "guest"}
SectionNames == {"project", "demo", "wifi", "ap", "ntp", "mqtt", "security", "system"}
Sections == SectionNames \cup {"", "unauthorized", "firmwareUpdated", "nowhere"}
TabNames == {"", "status", "settings", "scan", "users", "ota", "upload",
             "information", "rest", "socket", "mqtt", "nowhere"}
Paths == [section : Sections, tab : TabNames, slash : BOOLEAN]
AllFeatures == {"project", "security", "mqtt", "ntp", "ota", "upload_firmware"}

ASSUME FeaturesAssumption == FeatureSets \subseteq SUBSET AllFeatures
ASSUME AddressesAssumption ==
    Addresses \subseteq {p \in Paths : p.section # "unauthorized"}
ASSUME BoundsAssumption == MaxSignIns \in Nat /\ MaxRefreshes \in Nat
ASSUME NoneAssumption == None \notin Paths /\ None \notin Roles

To(section, tab) == [section |-> section, tab |-> tab, slash |-> FALSE]
Root == To("", "")

VARIABLES
    features,       \* what the firmware has built in
    app,            \* "features", "auth", "ready", or "failed": how far it has loaded
    path,           \* the location
    redirect,       \* loginPathname in the storage
    token,          \* the role the token in the storage gives, if there is one
    valid,          \* whether the device still accepts the token
    me,             \* the signed-in user
    signing,        \* sign-in requests under way; here: of the page that is shown
    processing,     \* processing of the sign-in page
    refreshes,      \* saves that await their answer (who: None), then refresh() with
                    \* the token of who, good if the device accepted it when asked
    goal,           \* history: the page the user has asked for
    overtaken       \* history: refresh() was answered when its token was no longer
                    \* the stored one, and its user is the one that is shown

vars == <<features, app, path, redirect, token, valid, me, signing, processing,
          refreshes, goal, overtaken>>

TypeOK ==
    /\ features \in FeatureSets
    /\ app \in {"features", "auth", "ready", "failed"}
    /\ path \in Paths
    /\ redirect \in Paths \cup {None} /\ goal \in Paths \cup {None}
    /\ token \in Roles \cup {None} /\ me \in Roles \cup {None}
    /\ valid \in BOOLEAN /\ processing \in BOOLEAN /\ overtaken \in BOOLEAN
    /\ signing \subseteq [id : 1..MaxSignIns, who : Roles, here : BOOLEAN]
    /\ refreshes \subseteq [id : 1..MaxRefreshes, who : Roles \cup {None}, good : BOOLEAN]

secured == "security" \in features

-----------------------------------------------------------------------------
(* The sections: routes, those that RequireAdmin guards, tabs, those that   *)
(* are disabled for guests, and the route for everything else               *)

Section(routes, guarded, tabs, disabled, home) ==
    [routes |-> routes, guarded |-> guarded, tabs |-> tabs, disabled |-> disabled, home |-> home]

DemoProject ==
    LET all == {"information", "rest", "socket", "mqtt"}
    IN  Section(all, {}, all, {}, "information")

\* Wrong on purpose: the scanner is not guarded.
WiFiConnectionOpen ==
    Section({"status", "scan", "settings"}, {"settings"},
            {"status", "scan", "settings"}, {"scan", "settings"}, "status")

WiFiConnection ==
    Section({"status", "scan", "settings"}, {"scan", "settings"},
            {"status", "scan", "settings"}, {"scan", "settings"}, "status")

AccessPoint == Section({"status", "settings"}, {"settings"}, {"status", "settings"}, {"settings"}, "status")
NetworkTime == Section({"status", "settings"}, {"settings"}, {"status", "settings"}, {"settings"}, "status")
Mqtt == Section({"status", "settings"}, {"settings"}, {"status", "settings"}, {"settings"}, "status")
Security == Section({"users", "settings"}, {}, {"users", "settings"}, {}, "users")
System ==
    LET extra == (IF "ota" \in features THEN {"ota"} ELSE {})
                 \cup (IF "upload_firmware" \in features THEN {"upload"} ELSE {})
    IN  Section({"status"} \cup extra, extra, {"status"} \cup extra, extra, "status")

SectionOf(name) ==
    CASE name = "demo" -> DemoProject
      [] name = "wifi" -> WiFiConnection
      [] name = "ap" -> AccessPoint
      [] name = "ntp" -> NetworkTime
      [] name = "mqtt" -> Mqtt
      [] name = "security" -> Security
      [] name = "system" -> System

Routed ==
    {"wifi", "ap", "system"} \cup (features \cap {"ntp", "mqtt", "security"})
    \cup (IF "project" \in features THEN {"project", "demo"} ELSE {})

getDefaultRoute == IF "project" \in features THEN To("project", "") ELSE To("wifi", "")

\* RequireAdmin, around a section or a tab.
Guarded(p) == p.section = "security" \/ p.tab \in SectionOf(p.section).guarded

\* Where the routes of AuthenticatedRouting lead a user who is at p.
Within(p) ==
    IF p.section \notin Routed THEN getDefaultRoute
    ELSE IF p.section = "project" THEN To("demo", "information")
    ELSE IF p.section = "security" /\ me # "admin" THEN Root
    ELSE IF p.tab \notin SectionOf(p.section).routes THEN To(p.section, SectionOf(p.section).home)
    ELSE IF Guarded(p) /\ me # "admin" THEN Root
    ELSE p

ForAnyone == {"unauthorized", "firmwareUpdated"}
Protected(p) == p.section \notin ForAnyone /\ (secured => p.section # "")

\* The page of a section is mounted.
PageShown == app = "ready" /\ Protected(path) /\ me # None /\ Within(path) = path

SignInShown == app = "ready" /\ secured /\ path.section = "" /\ me = None

-----------------------------------------------------------------------------
(* Loading *)

Init ==
    /\ features \in FeatureSets
    /\ app = "features"
    /\ path \in Addresses
    /\ goal = path
    /\ redirect = None
    /\ token \in Roles \cup {None} /\ valid \in BOOLEAN
    /\ me = None /\ signing = {} /\ processing = FALSE
    /\ refreshes = {} /\ overtaken = FALSE

\* The browser loads the interface at p: state is lost, storage is not.
LoadAt(p) ==
    /\ app' = "features" /\ path' = p
    /\ me' = None /\ signing' = {} /\ processing' = FALSE
    /\ refreshes' = {} /\ overtaken' = FALSE
    /\ UNCHANGED <<features, redirect, token, valid>>

OpenAddress == \E p \in Addresses : LoadAt(p) /\ goal' = p

\* FeaturesLoader asks once.
ReadFeatures ==
    /\ app = "features" /\ app' \in {"auth", "failed"}
    /\ UNCHANGED <<features, path, redirect, token, valid, me, signing, processing,
                   refreshes, goal, overtaken>>

\* refresh(), at first: without an answer nobody is signed in.
Refresh ==
    /\ app = "auth" /\ app' = "ready"
    /\ IF secured
       THEN me' \in {None} \cup (IF token # None /\ valid THEN {token} ELSE {})
       ELSE me' = "admin"
    /\ UNCHANGED <<features, path, redirect, token, valid, signing, processing,
                   refreshes, goal, overtaken>>

-----------------------------------------------------------------------------
(* Redirects *)

\* Wrong on purpose: what was remembered stays remembered.
fetchLoginRedirectOnly ==
    /\ path' = IF redirect # None THEN redirect ELSE getDefaultRoute
    /\ redirect' = redirect

fetchLoginRedirect ==
    /\ path' = IF redirect # None THEN redirect ELSE getDefaultRoute
    /\ redirect' = None

\* Wrong on purpose: the path is stored once it has changed.
storeLoginRedirectLate(p) == redirect' = To("unauthorized", "")

storeLoginRedirect(p) == redirect' = p

RootRedirect ==
    /\ app = "ready" /\ path.section \in ForAnyone
    /\ path' = Root
    /\ IF path.section = "unauthorized"
       THEN me' = None /\ token' = None /\ overtaken' = FALSE
       ELSE UNCHANGED <<me, token, overtaken>>
    /\ UNCHANGED <<features, app, redirect, valid, signing, processing, refreshes, goal>>

RequireUnauthenticated ==
    /\ app = "ready" /\ secured /\ path.section = "" /\ me # None
    /\ fetchLoginRedirect
    /\ UNCHANGED <<features, app, token, valid, me, signing, processing,
                   refreshes, goal, overtaken>>

RequireAuthenticated ==
    /\ app = "ready" /\ Protected(path) /\ me = None
    /\ storeLoginRedirect(path)
    /\ path' = To("unauthorized", "")
    /\ UNCHANGED <<features, app, token, valid, me, signing, processing,
                   refreshes, goal, overtaken>>

AuthenticatedRouting ==
    /\ app = "ready" /\ Protected(path) /\ me # None /\ Within(path) # path
    /\ path' = Within(path)
    /\ UNCHANGED <<features, app, redirect, token, valid, me, signing, processing,
                   refreshes, goal, overtaken>>

RemoveTrailingSlashes ==
    /\ PageShown /\ path.slash
    /\ path' = [path EXCEPT !.slash = FALSE]
    /\ UNCHANGED <<features, app, redirect, token, valid, me, signing, processing,
                   refreshes, goal, overtaken>>

Redirects ==
    \/ RootRedirect \/ RequireUnauthenticated \/ RequireAuthenticated
    \/ AuthenticatedRouting \/ RemoveTrailingSlashes

-----------------------------------------------------------------------------
(* What the user does *)

GoTo(p) ==
    /\ path' = p /\ goal' = p
    /\ UNCHANGED <<features, app, redirect, token, valid, me, signing, processing,
                   refreshes, overtaken>>

LayoutMenu ==
    {To(s, "") : s \in {"wifi", "ap", "system"} \cup (features \cap {"ntp", "mqtt"})}
    \cup (IF secured /\ me = "admin" THEN {To("security", "")} ELSE {})
ProjectMenu == IF "project" \in features THEN {To("demo", "")} ELSE {}

ClickMenu == PageShown /\ \E p \in LayoutMenu \cup ProjectMenu : GoTo(p)

RouterTabs ==
    /\ PageShown
    /\ LET here == SectionOf(path.section)
       IN  \E tab \in here.tabs \ (IF me = "admin" THEN {} ELSE here.disabled) :
            GoTo(To(path.section, tab))

selectNetwork ==
    PageShown /\ path.section = "wifi" /\ path.tab = "scan" /\ GoTo(To("wifi", "settings"))

\* LayoutAuthMenu
SignOut ==
    /\ PageShown /\ secured
    /\ me' = None /\ token' = None /\ path' = Root
    /\ goal' = None /\ overtaken' = FALSE
    /\ UNCHANGED <<features, app, redirect, valid, signing, processing, refreshes>>

\* The button validates and disables the page; Enter does neither.
SignIn ==
    /\ SignInShown /\ ~processing
    /\ \E id \in 1..MaxSignIns, who \in Roles :
        /\ \A s \in signing : s.id # id
        /\ signing' = signing \cup {[id |-> id, who |-> who, here |-> TRUE]}
    /\ processing' \in BOOLEAN
    /\ UNCHANGED <<features, app, path, redirect, token, valid, me,
                   refreshes, goal, overtaken>>

SignInRefused ==
    /\ \E s \in signing :
        /\ signing' = signing \ {s}
        /\ processing' = (processing /\ ~s.here)
    /\ UNCHANGED <<features, app, path, redirect, token, valid, me,
                   refreshes, goal, overtaken>>

\* The answer counts whatever has become of the page that asked.
SignedIn ==
    /\ app = "ready"
    /\ \E s \in signing :
        /\ token' = s.who /\ me' = s.who /\ valid' = TRUE
        /\ signing' = {[r EXCEPT !.here = FALSE] : r \in signing \ {s}}
    /\ processing' = FALSE
    /\ goal' = IF me = None THEN goal ELSE None
    /\ overtaken' = FALSE
    /\ UNCHANGED <<features, app, path, redirect, refreshes>>

\* The forms of users and of the secret; the request goes on when they are left.
SaveSecurity ==
    /\ PageShown /\ path.section = "security"
    /\ \E id \in 1..MaxRefreshes :
        /\ \A r \in refreshes : r.id # id
        /\ refreshes' = refreshes \cup {[id |-> id, who |-> None, good |-> FALSE]}
    /\ UNCHANGED <<features, app, path, redirect, token, valid, me, signing, processing,
                   goal, overtaken>>

\* setMe() of refresh().  Who has become another user asks for where they are.
setMe(user) ==
    /\ me' = user
    /\ overtaken' = (user \notin {None, token})
    /\ goal' = IF me \in {None, user} THEN goal ELSE path

\* Saved or not, the form calls refresh(), which reads the token.
SaveAnswered ==
    /\ app = "ready"
    /\ \E r \in refreshes :
        /\ r.who = None
        /\ \/ /\ token = None
              /\ refreshes' = refreshes \ {r}
              /\ setMe(None)
           \/ /\ token # None
              /\ refreshes' = (refreshes \ {r}) \cup {[r EXCEPT !.who = token, !.good = valid]}
              /\ UNCHANGED <<me, goal, overtaken>>
    /\ UNCHANGED <<features, app, path, redirect, token, valid, signing, processing>>

-----------------------------------------------------------------------------
(* The device *)

\* Users or secret are edited, so that the token is no longer valid.
Expire ==
    /\ token # None /\ valid /\ valid' = FALSE
    /\ UNCHANGED <<features, app, path, redirect, token, me, signing, processing,
                   refreshes, goal, overtaken>>

\* The endpoints of these pages require an admin, the others a user.
AdminPages ==
    {<<"wifi", "scan">>, <<"wifi", "settings">>, <<"ap", "settings">>, <<"ntp", "settings">>,
     <<"mqtt", "settings">>, <<"security", "users">>, <<"security", "settings">>,
     <<"system", "ota">>, <<"system", "upload">>}

Authorized ==
    ~secured \/ (token # None /\ valid /\ (<<path.section, path.tab>> \in AdminPages => token = "admin"))

\* The interceptor of AuthenticatedRouting, for status 401.
Intercepted ==
    /\ storeLoginRedirect(path)
    /\ path' = To("unauthorized", "")

handleApiResponseError ==
    /\ PageShown /\ ~Authorized
    /\ Intercepted /\ goal' = path
    /\ UNCHANGED <<features, app, token, valid, me, signing, processing, refreshes, overtaken>>

\* The rest of refresh(), whoever has signed out or in since: the user of its
\* token, or nobody after status 401 or no answer.
RefreshAnswered ==
    /\ app = "ready"
    /\ \E r \in refreshes :
        /\ r.who # None
        /\ refreshes' = refreshes \ {r}
        /\ \/ r.good /\ setMe(r.who) /\ UNCHANGED <<path, redirect>>
           \/ setMe(None) /\ UNCHANGED <<path, redirect>>
           \/ setMe(None) /\ Protected(path) /\ me # None /\ Intercepted
    /\ UNCHANGED <<features, app, token, valid, signing, processing>>

\* FirmwareRestartMonitor, when the device answers again.
FirmwareUpdated ==
    /\ PageShown /\ path.section = "system" /\ path.tab = "upload"
    /\ LoadAt(To("firmwareUpdated", "")) /\ goal' = None

Next ==
    \/ ReadFeatures \/ Refresh \/ Redirects
    \/ OpenAddress \/ ClickMenu \/ RouterTabs \/ selectNetwork \/ SignOut
    \/ SignIn \/ SignInRefused \/ SignedIn
    \/ SaveSecurity \/ SaveAnswered \/ RefreshAnswered
    \/ Expire \/ handleApiResponseError \/ FirmwareUpdated

\* The browser loads and redirects by itself.
Spec == Init /\ [][Next]_vars /\ WF_vars(ReadFeatures) /\ WF_vars(Refresh) /\ WF_vars(Redirects)

-----------------------------------------------------------------------------
(* Properties *)

Settled ==
    \/ app = "failed"
    \/ SignInShown
    \/ PageShown /\ ~path.slash

\* Redirects come to an end: unless users load the interface over and over, it
\* always gets back to a page or to the sign-in page, whatever was remembered,
\* typed or taken away.
NavigationSettles == <>[][~OpenAddress]_vars => (~Settled ~> Settled)

\* No page that the interface shows asks for something the user's valid token
\* does not give: the answer would be 401 and would sign the user out.  The
\* exception is the user that a late answer to refresh() has brought back after
\* a sign-out or another sign-in, until the next sign-in or 401: nothing in the
\* code compares the token it was asked with.
NotRefused == PageShown /\ valid /\ ~overtaken => Authorized

Exists(p) ==
    /\ p.section \in Routed
    /\ p.section = "project" \/ p.tab \in {""} \cup SectionOf(p.section).routes
Permitted(p) == me = "admin" \/ ~(p.section = "security" \/ <<p.section, p.tab>> \in AdminPages)

\* What the menu and the tabs offer, what was typed, and what a sign-in came
\* between, is where the user gets, if there is such a page and it is for them.
GoalReached ==
    PageShown /\ goal # None /\ Exists(goal) /\ Permitted(goal) =>
        /\ path.section = IF goal.section = "project" THEN "demo" ELSE goal.section
        /\ (goal.section # "project" /\ goal.tab # "" => path.tab = goal.tab)

=============================================================================
