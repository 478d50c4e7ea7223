------------------------------ MODULE Session ------------------------------
(***************************************************************************)
(* Who is signed in: SecuritySettingsService with the secret of its JWT    *)
(* handler, AuthenticationService, and in every browser the Authentication *)
(* context, the sign-in page and the two forms that edit users and secret. *)
(* A token is what it says and the secret that signed it; passwords are    *)
(* known or not.  The device handles requests one at a time; answers are   *)
(* on their way for as long as they like.                                  *)
(***************************************************************************)
EXTENDS Naturals

CONSTANTS
    Names,          \* usernames
    Secrets,        \* values of jwt_secret
    Browsers,
    MaxSaves,       \* bound on the POSTs of security settings
    None            \* nobody, no token, no form

Roles == {"admin", "guest", "none"}
Claims == [name : Names, admin : BOOLEAN]
Tokens == [name : Names, admin : BOOLEAN, secret : Secrets]
Settings == [secret : Secrets, users : [Names -> Roles]]

ASSUME NoneAssumption == None \notin Claims \cup Tokens \cup Settings
ASSUME SavesAssumption == MaxSaves \in Nat

VARIABLES
    settings,       \* _state: the secret, and the role of every user there is
    signer,         \* the secret of _jwtHandler
    armed,          \* POSTs whose client has not disconnected
    saves,          \* how many there were
    stored,         \* stored[b]: the token in localStorage
    me,             \* me[b]: the signed-in user the interface shows
    ready,          \* ready[b]: initialized
    refreshes,      \* refreshes[b]: calls of refresh() that await their answer
    signing,        \* signing[b]: the token of a sign-in answer on its way
    form,           \* form[b]: the open security form, its data and what it posted
    left            \* left[b]: saves that await their answer, their form closed

device == <<settings, signer, armed, saves>>
vars == <<device, stored, me, ready, refreshes, signing, form, left>>

Forms == [kind : {"users", "secret"}, data : Settings, posted : Settings \cup {None}]

TypeOK ==
    /\ settings \in Settings
    /\ signer \in Secrets
    /\ armed \in Nat /\ saves \in 0..MaxSaves
    /\ stored \in [Browsers -> Tokens \cup {None}]
    /\ me \in [Browsers -> Claims \cup {None}]
    /\ ready \in [Browsers -> BOOLEAN]
    /\ refreshes \in [Browsers -> SUBSET [token : Tokens, answer : {"waiting", "ok", "refused"}]]
    /\ signing \in [Browsers -> Tokens \cup {None}]
    /\ form \in [Browsers -> Forms \cup {None}]
    /\ left \in [Browsers -> Nat]

HasAdmin(users) == \E n \in Names : users[n] = "admin"

-----------------------------------------------------------------------------
(* The device *)

\* authenticateJWT: the signature is the handler's, and name and admin flag are
\* those of a user.
Accepts(token) ==
    /\ token # None
    /\ token.secret = signer
    /\ settings.users[token.name] = IF token.admin THEN "admin" ELSE "guest"

\* begin(): the settings of the file or the factory's, which have an admin.
Init ==
    /\ settings \in {s \in Settings : HasAdmin(s.users)}
    /\ signer = settings.secret
    /\ armed = 0 /\ saves = 0
    /\ stored = [b \in Browsers |-> None] /\ me = stored
    /\ ready = [b \in Browsers |-> TRUE]
    /\ refreshes = [b \in Browsers |-> {}]
    /\ signing = stored /\ form = stored
    /\ left = [b \in Browsers |-> 0]

\* Wrong on purpose: the handler keeps its secret.
SaveEndsQuietly ==
    /\ armed > 0
    /\ armed' = armed - 1
    /\ UNCHANGED <<settings, signer, saves, stored, me, ready, refreshes, signing, form, left>>

\* The client of a POST disconnects: configureJWTHandler().
SaveEnds ==
    /\ armed > 0
    /\ armed' = armed - 1
    /\ signer' = settings.secret
    /\ UNCHANGED <<settings, saves, stored, me, ready, refreshes, signing, form, left>>

\* verifyAuthorization
Verify(b) ==
    \E r \in refreshes[b] :
        /\ r.answer = "waiting"
        /\ refreshes' = [refreshes EXCEPT ![b] = (@ \ {r}) \cup
               {[r EXCEPT !.answer = IF Accepts(r.token) THEN "ok" ELSE "refused"]}]
        /\ UNCHANGED <<device, stored, me, ready, signing, form, left>>

\* signIn and generateJWT, for a user whose password is right.
SignIn(b, n) ==
    /\ ready[b] /\ me[b] = None /\ signing[b] = None
    /\ settings.users[n] # "none"
    /\ signing' = [signing EXCEPT ![b] =
           [name |-> n, admin |-> settings.users[n] = "admin", secret |-> signer]]
    /\ UNCHANGED <<device, stored, me, ready, refreshes, form, left>>

-----------------------------------------------------------------------------
(* The Authentication context *)

SignInAnswered(b) ==
    /\ signing[b] # None
    /\ signing' = [signing EXCEPT ![b] = None]
    /\ stored' = [stored EXCEPT ![b] = signing[b]]
    /\ me' = [me EXCEPT ![b] = [name |-> signing[b].name, admin |-> signing[b].admin]]
    /\ UNCHANGED <<device, ready, refreshes, form, left>>

\* What the form posted goes on waiting for its answer when the form is gone.
Leave(b) ==
    left' = IF form[b] # None /\ form[b].posted # None THEN [left EXCEPT ![b] = @ + 1] ELSE left

CloseForm(b) ==
    /\ form' = [form EXCEPT ![b] = None]
    /\ Leave(b)

\* signOut, from the menu or by way of /unauthorized.
SignedOut(b) ==
    /\ stored' = [stored EXCEPT ![b] = None]
    /\ me' = [me EXCEPT ![b] = None]
    /\ CloseForm(b)

SignOut(b) ==
    /\ me[b] # None
    /\ SignedOut(b)
    /\ UNCHANGED <<device, ready, refreshes, signing>>

\* Wrong on purpose: a refused request shows its error and no more.
AskRefusedQuietly(b) ==
    /\ me[b] # None
    /\ ~Accepts(stored[b])
    /\ UNCHANGED vars

\* A page asks for something and is refused: handleApiResponseError.
AskRefused(b) ==
    /\ me[b] # None
    /\ ~Accepts(stored[b])
    /\ SignedOut(b)
    /\ UNCHANGED <<device, ready, refreshes, signing>>

\* The page is loaded again: all state is lost but what localStorage keeps, and
\* the Authentication context calls refresh().
Reload(b) ==
    /\ me' = [me EXCEPT ![b] = None]
    /\ ready' = [ready EXCEPT ![b] = stored[b] = None]
    /\ refreshes' = [refreshes EXCEPT ![b] =
           IF stored[b] = None THEN {} ELSE {[token |-> stored[b], answer |-> "waiting"]}]
    /\ signing' = [signing EXCEPT ![b] = None]
    /\ form' = [form EXCEPT ![b] = None]
    /\ left' = [left EXCEPT ![b] = 0]
    /\ UNCHANGED <<device, stored>>

\* The rest of refresh(), with the token read before the wait. An interface that
\* showed a user, or whose address is not the root, goes to /unauthorized.
RefreshAnswered(b) ==
    \E r \in refreshes[b] :
        /\ r.answer # "waiting"
        /\ refreshes' = [refreshes EXCEPT ![b] = @ \ {r}]
        /\ ready' = [ready EXCEPT ![b] = TRUE]
        /\ \/ /\ r.answer = "ok"
              /\ me' = [me EXCEPT ![b] = [name |-> r.token.name, admin |-> r.token.admin]]
              /\ IF r.token.admin THEN UNCHANGED <<form, left>> ELSE CloseForm(b)
              /\ UNCHANGED stored
           \/ r.answer = "refused" /\ SignedOut(b)
           \/ /\ r.answer = "refused" /\ me[b] = None
              /\ UNCHANGED <<me, form, left, stored>>
        /\ UNCHANGED <<device, signing>>

-----------------------------------------------------------------------------
(* ManageUsersForm and SecuritySettingsForm *)

\* An admin opens a form, in place of the one that was open, and its data are loaded.
OpenForm(b, kind) ==
    /\ me[b] # None
    /\ me[b].admin
    /\ Accepts(stored[b]) /\ stored[b].admin
    /\ Leave(b)
    /\ form' = [form EXCEPT ![b] = [kind |-> kind, data |-> settings, posted |-> None]]
    /\ UNCHANGED <<device, stored, me, ready, refreshes, signing>>

\* removeUser, doneEditingUser
EditUser(b, n, role) ==
    /\ form[b] # None
    /\ form[b].kind = "users"
    /\ form' = [form EXCEPT ![b].data.users[n] = role]
    /\ UNCHANGED <<device, stored, me, ready, refreshes, signing, left>>

EditSecret(b, s) ==
    /\ form[b] # None
    /\ form[b].kind = "secret"
    /\ form' = [form EXCEPT ![b].data.secret = s]
    /\ UNCHANGED <<device, stored, me, ready, refreshes, signing, left>>

\* The device takes what the form posts.
Posted(b) ==
    /\ saves < MaxSaves
    /\ Accepts(stored[b]) /\ stored[b].admin
    /\ settings' = form[b].data
    /\ saves' = saves + 1 /\ armed' = armed + 1
    /\ form' = [form EXCEPT ![b].posted = settings']
    /\ UNCHANGED <<signer, stored, me, ready, refreshes, signing, left>>

\* Wrong on purpose: users are saved without an admin among them.
SaveAnyUsers(b) ==
    /\ form[b] # None
    /\ form[b].posted = None
    /\ Posted(b)

\* The save button, which noAdminConfigured() and a save under way disable.
Save(b) ==
    /\ form[b] # None
    /\ form[b].posted = None
    /\ form[b].kind = "users" => HasAdmin(form[b].data.users)
    /\ Posted(b)

\* The forms of an admin whose browser is not one of Browsers: all they can post
\* has an admin, since all they load has.
SaveElsewhere(posted) ==
    /\ saves < MaxSaves
    /\ HasAdmin(posted.users)
    /\ settings' = posted
    /\ saves' = saves + 1 /\ armed' = armed + 1
    /\ UNCHANGED <<signer, stored, me, ready, refreshes, signing, form, left>>

\* refresh() as the forms call it once saveData() is done, answered or not.
Refresh(b) ==
    IF stored[b] = None
      THEN /\ me' = [me EXCEPT ![b] = None]
           /\ UNCHANGED refreshes
      ELSE /\ refreshes' = [refreshes EXCEPT ![b] = @ \cup
                  {[token |-> stored[b], answer |-> "waiting"]}]
           /\ UNCHANGED me

\* The answer replaces what the form shows, whatever was edited since.
SaveAnswered(b) ==
    /\ form[b] # None
    /\ form[b].posted # None
    /\ \E answer \in {form[b].posted, form[b].data} :
           form' = [form EXCEPT ![b].data = answer, ![b].posted = None]
    /\ Refresh(b)
    /\ UNCHANGED <<device, stored, ready, signing, left>>

LeftAnswered(b) ==
    /\ left[b] > 0
    /\ left' = [left EXCEPT ![b] = @ - 1]
    /\ Refresh(b)
    /\ UNCHANGED <<device, stored, ready, signing, form>>

-----------------------------------------------------------------------------
FormStep(b) ==
    \/ \E kind \in {"users", "secret"} : OpenForm(b, kind)
    \/ \E n \in Names, role \in Roles : EditUser(b, n, role)
    \/ \E s \in Secrets : EditSecret(b, s)
    \/ Save(b)
    \/ SaveAnswered(b)
    \/ LeftAnswered(b)

Next ==
    \/ SaveEnds
    \/ \E posted \in Settings : SaveElsewhere(posted)
    \/ \E b \in Browsers :
           \/ Verify(b)
           \/ \E n \in Names : SignIn(b, n)
           \/ SignInAnswered(b)
           \/ SignOut(b)
           \/ AskRefused(b)
           \/ Reload(b)
           \/ RefreshAnswered(b)
           \/ FormStep(b)

Spec == Init /\ [][Next]_vars

\* A user who is signed in goes on using the interface, and answers arrive.
Fairness == \A b \in Browsers :
    WF_vars(Verify(b)) /\ WF_vars(RefreshAnswered(b)) /\ WF_vars(AskRefused(b))

FairSpec == Spec /\ Fairness

-----------------------------------------------------------------------------
(* Properties *)

\* Somebody can always administer the device through the interface, whichever
\* forms were loaded before others were saved.
AdminRemains == HasAdmin(settings.users)

Valid(b) == Accepts(stored[b])

\* A change of the secret signs everybody out, as the form promises: once its
\* request has ended no token of a former secret is accepted.
OldTokensRefused == \A b \in Browsers : armed = 0 /\ Valid(b) => stored[b].secret = settings.secret

\* An interface that has no token the device accepts ends at the sign-in page,
\* although a late answer may once more show the user who has signed out.
EventuallySignedOut == \A b \in Browsers : <>[]~Valid(b) => <>[](me[b] = None)
=============================================================================
