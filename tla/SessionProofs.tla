--------------------------- MODULE SessionProofs ---------------------------
(***************************************************************************)
(* Proofs about Session: whoever saves what, in any number of browsers and *)
(* with any number of users and secrets, an admin remains, and a change of *)
(* the secret ends every older token.                                      *)
(***************************************************************************)
EXTENDS Session, TLAPS

-----------------------------------------------------------------------------
(* Type correctness *)

LEMMA InitTypeOK == Init => TypeOK
<1> SUFFICES ASSUME Init PROVE TypeOK
  OBVIOUS
<1>1. settings \in Settings /\ signer \in Secrets
  BY DEF Init, Settings
<1> QED
  BY <1>1, SavesAssumption DEF Init, TypeOK

LEMMA LeaveType ==
  ASSUME TypeOK, NEW b \in Browsers, Leave(b)
  PROVE  left' \in [Browsers -> Nat]
  BY DEF Leave, TypeOK

LEMMA SignedOutType ==
  ASSUME TypeOK, NEW b \in Browsers, SignedOut(b)
  PROVE  /\ stored' \in [Browsers -> Tokens \cup {None}]
         /\ me' \in [Browsers -> Claims \cup {None}]
         /\ form' \in [Browsers -> Forms \cup {None}]
         /\ left' \in [Browsers -> Nat]
  BY LeaveType DEF SignedOut, CloseForm, TypeOK

LEMMA RefreshType ==
  ASSUME TypeOK, NEW b \in Browsers, Refresh(b)
  PROVE  /\ me' \in [Browsers -> Claims \cup {None}]
         /\ refreshes' \in
              [Browsers -> SUBSET [token : Tokens, answer : {"waiting", "ok", "refused"}]]
<1>1. CASE stored[b] = None
  BY <1>1 DEF Refresh, TypeOK
<1>2. CASE stored[b] # None
  <2>1. stored[b] \in Tokens
    BY <1>2 DEF TypeOK
  <2>2. [token |-> stored[b], answer |-> "waiting"] \in
          [token : Tokens, answer : {"waiting", "ok", "refused"}]
    BY <2>1
  <2> QED
    BY <1>2, <2>2 DEF Refresh, TypeOK
<1> QED
  BY <1>1, <1>2

LEMMA StepTypeOK == TypeOK /\ [Next]_vars => TypeOK'
<1> SUFFICES ASSUME TypeOK, [Next]_vars PROVE TypeOK'
  OBVIOUS
<1> USE SavesAssumption
<1>1. CASE SaveEnds
  BY <1>1 DEF SaveEnds, TypeOK, Settings
<1>2. ASSUME NEW posted \in Settings, SaveElsewhere(posted) PROVE TypeOK'
  BY <1>2 DEF SaveElsewhere, TypeOK
<1>3. ASSUME NEW b \in Browsers, Verify(b) PROVE TypeOK'
  <2>1. PICK r \in refreshes[b] :
          /\ refreshes' = [refreshes EXCEPT ![b] = (@ \ {r}) \cup
                {[r EXCEPT !.answer = IF Accepts(r.token) THEN "ok" ELSE "refused"]}]
          /\ UNCHANGED <<device, stored, me, ready, signing, form, left>>
    BY <1>3 DEF Verify
  <2>2. r \in [token : Tokens, answer : {"waiting", "ok", "refused"}]
    BY DEF TypeOK
  <2>3. [r EXCEPT !.answer = IF Accepts(r.token) THEN "ok" ELSE "refused"] \in
          [token : Tokens, answer : {"waiting", "ok", "refused"}]
    BY <2>2
  <2>4. refreshes' \in
          [Browsers -> SUBSET [token : Tokens, answer : {"waiting", "ok", "refused"}]]
    BY <2>1, <2>3 DEF TypeOK
  <2> QED
    BY <2>1, <2>4 DEF TypeOK, device
<1>4. ASSUME NEW b \in Browsers, NEW n \in Names, SignIn(b, n) PROVE TypeOK'
  <2>1. [name |-> n, admin |-> settings.users[n] = "admin", secret |-> signer] \in Tokens
    BY DEF Tokens, TypeOK
  <2> QED
    BY <1>4, <2>1 DEF SignIn, TypeOK, device
<1>5. ASSUME NEW b \in Browsers, SignInAnswered(b) PROVE TypeOK'
  <2>1. signing[b] \in Tokens
    BY <1>5 DEF SignInAnswered, TypeOK
  <2>2. [name |-> signing[b].name, admin |-> signing[b].admin] \in Claims
    BY <2>1 DEF Tokens, Claims
  <2> QED
    BY <1>5, <2>1, <2>2 DEF SignInAnswered, TypeOK, device
<1>6. ASSUME NEW b \in Browsers, SignOut(b) \/ AskRefused(b) PROVE TypeOK'
  <2>1. SignedOut(b) /\ UNCHANGED <<device, ready, refreshes, signing>>
    BY <1>6 DEF SignOut, AskRefused
  <2> QED
    BY <2>1, SignedOutType DEF TypeOK, device
<1>7. ASSUME NEW b \in Browsers, Reload(b) PROVE TypeOK'
  <2>1. (IF stored[b] = None THEN {} ELSE {[token |-> stored[b], answer |-> "waiting"]}) \in
          SUBSET [token : Tokens, answer : {"waiting", "ok", "refused"}]
    BY DEF TypeOK
  <2> QED
    BY <1>7, <2>1 DEF Reload, TypeOK, device
<1>8. ASSUME NEW b \in Browsers, RefreshAnswered(b) PROVE TypeOK'
  <2>1. PICK r \in refreshes[b] :
          /\ refreshes' = [refreshes EXCEPT ![b] = @ \ {r}]
          /\ ready' = [ready EXCEPT ![b] = TRUE]
          /\ \/ /\ me' = [me EXCEPT ![b] = [name |-> r.token.name, admin |-> r.token.admin]]
                /\ IF r.token.admin THEN UNCHANGED <<form, left>> ELSE CloseForm(b)
                /\ UNCHANGED stored
             \/ SignedOut(b)
             \/ UNCHANGED <<me, form, left, stored>>
          /\ UNCHANGED <<device, signing>>
    BY <1>8 DEF RefreshAnswered
  <2>2. [name |-> r.token.name, admin |-> r.token.admin] \in Claims
    BY DEF TypeOK, Tokens, Claims
  <2>3. /\ stored' \in [Browsers -> Tokens \cup {None}]
        /\ me' \in [Browsers -> Claims \cup {None}]
        /\ form' \in [Browsers -> Forms \cup {None}]
        /\ left' \in [Browsers -> Nat]
    BY <2>1, <2>2, SignedOutType, LeaveType DEF TypeOK, CloseForm
  <2>4. ready' \in [Browsers -> BOOLEAN]
    BY <2>1 DEF TypeOK
  <2>5. refreshes' \in
          [Browsers -> SUBSET [token : Tokens, answer : {"waiting", "ok", "refused"}]]
    BY <2>1 DEF TypeOK
  <2> QED
    BY <2>1, <2>3, <2>4, <2>5 DEF TypeOK, device
<1>9. ASSUME NEW b \in Browsers, FormStep(b) PROVE TypeOK'
  <2>1. ASSUME NEW kind \in {"users", "secret"}, OpenForm(b, kind) PROVE TypeOK'
    <3>1. [kind |-> kind, data |-> settings, posted |-> None] \in Forms
      BY DEF Forms, TypeOK
    <3> QED
      BY <2>1, <3>1, LeaveType DEF OpenForm, TypeOK, device
  <2>2. ASSUME NEW n \in Names, NEW role \in Roles, EditUser(b, n, role) PROVE TypeOK'
    <3>1. form[b] \in Forms
      BY <2>2 DEF EditUser, TypeOK
    <3>2. [form[b] EXCEPT !.data.users[n] = role] \in Forms
      BY <3>1 DEF Forms, Settings
    <3> QED
      BY <2>2, <3>2 DEF EditUser, TypeOK, device
  <2>3. ASSUME NEW s \in Secrets, EditSecret(b, s) PROVE TypeOK'
    <3>1. form[b] \in Forms
      BY <2>3 DEF EditSecret, TypeOK
    <3>2. [form[b] EXCEPT !.data.secret = s] \in Forms
      BY <3>1 DEF Forms, Settings
    <3> QED
      BY <2>3, <3>2 DEF EditSecret, TypeOK, device
  <2>4. CASE Save(b)
    <3>1. form[b] \in Forms
      BY <2>4 DEF Save, TypeOK
    <3>2. settings' \in Settings
      BY <2>4, <3>1 DEF Save, Posted, Forms
    <3>3. [form[b] EXCEPT !.posted = settings'] \in Forms
      BY <3>1, <3>2 DEF Forms
    <3> QED
      BY <2>4, <3>2, <3>3 DEF Save, Posted, TypeOK
  <2>5. CASE SaveAnswered(b)
    <3>1. PICK answer \in {form[b].posted, form[b].data} :
            form' = [form EXCEPT ![b].data = answer, ![b].posted = None]
      BY <2>5 DEF SaveAnswered
    <3>2. form[b] \in Forms /\ answer \in Settings
      BY <2>5 DEF SaveAnswered, TypeOK, Forms
    <3>3. [form[b] EXCEPT !.data = answer, !.posted = None] \in Forms
      BY <3>2 DEF Forms
    <3>4. form' \in [Browsers -> Forms \cup {None}]
      BY <3>1, <3>3 DEF TypeOK
    <3> QED
      BY <2>5, <3>4, RefreshType DEF SaveAnswered, TypeOK, device
  <2>6. CASE LeftAnswered(b)
    BY <2>6, RefreshType DEF LeftAnswered, TypeOK, device
  <2> QED
    BY <1>9, <2>1, <2>2, <2>3, <2>4, <2>5, <2>6 DEF FormStep
<1>10. CASE UNCHANGED vars
  BY <1>10 DEF vars, device, TypeOK
<1> QED
  BY <1>1, <1>2, <1>3, <1>4, <1>5, <1>6, <1>7, <1>8, <1>9, <1>10 DEF Next

\* Every variable of Session keeps its type, for any users, secrets and browsers
\* (SecuritySettingsService.h:33-69, Authentication.tsx:15-66).
THEOREM TypeCorrect == Spec => []TypeOK
  BY InitTypeOK, StepTypeOK, PTL DEF Spec

-----------------------------------------------------------------------------
(* An admin remains *)

\* What a form can still post, or has posted, leaves the device with an admin: the
\* form of the secret never touches the users it loaded, and the form of the users
\* is only posted with an admin among them.
FormKeepsAdmin(f) ==
    /\ f.kind = "secret" => HasAdmin(f.data.users)
    /\ f.posted # None => HasAdmin(f.posted.users)

AdminInv ==
    /\ AdminRemains
    /\ \A b \in Browsers : form[b] # None => FormKeepsAdmin(form[b])

LEMMA InitAdminInv == Init => AdminInv
  BY DEF Init, AdminInv, AdminRemains

\* Only the forms and the settings matter to AdminInv.
LEMMA ClosingKeepsAdmin ==
  ASSUME TypeOK, AdminInv, NEW b \in Browsers, settings' = settings,
         form' = form \/ form' = [form EXCEPT ![b] = None]
  PROVE  AdminInv'
  BY DEF AdminInv, AdminRemains, TypeOK, FormKeepsAdmin, HasAdmin

LEMMA ReplacingKeepsAdmin ==
  ASSUME TypeOK, AdminInv, NEW b \in Browsers, AdminRemains', NEW f, FormKeepsAdmin(f),
         form' = [form EXCEPT ![b] = f]
  PROVE  AdminInv'
<1>1. \A a \in Browsers : form'[a] # None => FormKeepsAdmin(form'[a])
  BY DEF AdminInv, TypeOK
<1> QED
  BY <1>1 DEF AdminInv, FormKeepsAdmin, HasAdmin

LEMMA StepAdminInv == TypeOK /\ AdminInv /\ [Next]_vars => AdminInv'
<1> SUFFICES ASSUME TypeOK, AdminInv, [Next]_vars PROVE AdminInv'
  OBVIOUS
<1>1. CASE SaveEnds \/ UNCHANGED vars
  BY <1>1 DEF SaveEnds, vars, device, AdminInv, AdminRemains, HasAdmin, FormKeepsAdmin
<1>2. ASSUME NEW posted \in Settings, SaveElsewhere(posted) PROVE AdminInv'
  BY <1>2 DEF SaveElsewhere, AdminInv, AdminRemains, HasAdmin, FormKeepsAdmin
<1>3. ASSUME NEW b \in Browsers,
             \/ Verify(b) \/ (\E n \in Names : SignIn(b, n)) \/ SignInAnswered(b) \/ SignOut(b)
             \/ AskRefused(b) \/ Reload(b) \/ RefreshAnswered(b) \/ LeftAnswered(b)
      PROVE  AdminInv'
  <2>1. settings' = settings
    BY <1>3 DEF Verify, SignIn, SignInAnswered, SignOut, AskRefused, Reload, RefreshAnswered,
                LeftAnswered, device
  <2>2. form' = form \/ form' = [form EXCEPT ![b] = None]
    BY <1>3 DEF Verify, SignIn, SignInAnswered, SignOut, AskRefused, Reload, RefreshAnswered,
                LeftAnswered, SignedOut, CloseForm
  <2> QED
    BY <2>1, <2>2, ClosingKeepsAdmin
<1>4. ASSUME NEW b \in Browsers, NEW kind \in {"users", "secret"}, OpenForm(b, kind)
      PROVE  AdminInv'
  <2>1. FormKeepsAdmin([kind |-> kind, data |-> settings, posted |-> None])
    BY DEF FormKeepsAdmin, AdminInv, AdminRemains
  <2>2. AdminRemains'
    BY <1>4 DEF OpenForm, device, AdminInv, AdminRemains, HasAdmin
  <2> QED
    BY <1>4, <2>1, <2>2, ReplacingKeepsAdmin DEF OpenForm
<1>5. ASSUME NEW b \in Browsers, NEW n \in Names, NEW role \in Roles, EditUser(b, n, role)
      PROVE  AdminInv'
  <2>1. form[b] \in Forms /\ form[b].kind = "users" /\ FormKeepsAdmin(form[b])
    BY <1>5 DEF EditUser, TypeOK, AdminInv
  <2>2. FormKeepsAdmin([form[b] EXCEPT !.data.users[n] = role])
    BY <2>1 DEF FormKeepsAdmin, Forms
  <2>3. form' = [form EXCEPT ![b] = [form[b] EXCEPT !.data.users[n] = role]]
    BY <1>5 DEF EditUser, TypeOK
  <2>4. AdminRemains'
    BY <1>5 DEF EditUser, device, AdminInv, AdminRemains, HasAdmin
  <2> QED
    BY <2>2, <2>3, <2>4, ReplacingKeepsAdmin
<1>6. ASSUME NEW b \in Browsers, NEW s \in Secrets, EditSecret(b, s) PROVE AdminInv'
  <2>1. form[b] \in Forms /\ FormKeepsAdmin(form[b])
    BY <1>6 DEF EditSecret, TypeOK, AdminInv
  <2>2. FormKeepsAdmin([form[b] EXCEPT !.data.secret = s])
    BY <2>1 DEF FormKeepsAdmin, Forms, Settings
  <2>3. form' = [form EXCEPT ![b] = [form[b] EXCEPT !.data.secret = s]]
    BY <1>6 DEF EditSecret, TypeOK
  <2>4. AdminRemains'
    BY <1>6 DEF EditSecret, device, AdminInv, AdminRemains, HasAdmin
  <2> QED
    BY <2>2, <2>3, <2>4, ReplacingKeepsAdmin
<1>7. ASSUME NEW b \in Browsers, Save(b) PROVE AdminInv'
  <2>1. form[b] \in Forms /\ FormKeepsAdmin(form[b])
    BY <1>7 DEF Save, TypeOK, AdminInv
  <2>2. HasAdmin(form[b].data.users)
    BY <1>7, <2>1 DEF Save, FormKeepsAdmin, Forms
  <2>3. AdminRemains' /\ HasAdmin(settings'.users)
    BY <1>7, <2>2 DEF Save, Posted, AdminRemains, HasAdmin
  <2>4. FormKeepsAdmin([form[b] EXCEPT !.posted = settings'])
    BY <2>1, <2>3 DEF FormKeepsAdmin, Forms
  <2>5. form' = [form EXCEPT ![b] = [form[b] EXCEPT !.posted = settings']]
    BY <1>7 DEF Save, Posted, TypeOK
  <2> QED
    BY <2>3, <2>4, <2>5, ReplacingKeepsAdmin
<1>8. ASSUME NEW b \in Browsers, SaveAnswered(b) PROVE AdminInv'
  <2>1. PICK answer \in {form[b].posted, form[b].data} :
          form' = [form EXCEPT ![b].data = answer, ![b].posted = None]
    BY <1>8 DEF SaveAnswered
  <2>2. form[b] \in Forms /\ FormKeepsAdmin(form[b]) /\ form[b].posted # None
    BY <1>8 DEF SaveAnswered, TypeOK, AdminInv
  <2>3. FormKeepsAdmin([form[b] EXCEPT !.data = answer, !.posted = None])
    BY <2>2 DEF FormKeepsAdmin, Forms
  <2>4. form' = [form EXCEPT ![b] = [form[b] EXCEPT !.data = answer, !.posted = None]]
    BY <2>1 DEF TypeOK
  <2>5. AdminRemains'
    BY <1>8 DEF SaveAnswered, device, AdminInv, AdminRemains, HasAdmin
  <2> QED
    BY <2>3, <2>4, <2>5, ReplacingKeepsAdmin
<1> QED
  BY <1>1, <1>2, <1>3, <1>4, <1>5, <1>6, <1>7, <1>8 DEF Next, FormStep

\* Whichever forms were loaded before others were saved, the device always has an
\* admin (ManageUsersForm.tsx:46-148, SecuritySettingsForm.tsx:28-51).
THEOREM AdminAlwaysRemains == Spec => []AdminRemains
<1>1. AdminInv => AdminRemains
  BY DEF AdminInv
<1> QED
  BY <1>1, InitTypeOK, StepTypeOK, InitAdminInv, StepAdminInv, PTL DEF Spec

-----------------------------------------------------------------------------
(* Older tokens are refused *)

SecretInv == armed = 0 => signer = settings.secret

LEMMA StepSecretInv == TypeOK /\ SecretInv /\ [Next]_vars => SecretInv'
<1> SUFFICES ASSUME TypeOK, SecretInv, [Next]_vars PROVE SecretInv'
  OBVIOUS
<1>1. CASE SaveEnds
  BY <1>1 DEF SaveEnds, SecretInv
<1>2. ASSUME NEW posted \in Settings, SaveElsewhere(posted) PROVE SecretInv'
  BY <1>2 DEF SaveElsewhere, SecretInv, TypeOK
<1>3. ASSUME NEW b \in Browsers, Save(b) PROVE SecretInv'
  BY <1>3 DEF Save, Posted, SecretInv, TypeOK
<1>4. ASSUME UNCHANGED device PROVE SecretInv'
  BY <1>4 DEF device, SecretInv
<1>5. ASSUME NEW b \in Browsers,
             \/ Verify(b) \/ (\E n \in Names : SignIn(b, n)) \/ SignInAnswered(b) \/ SignOut(b)
             \/ AskRefused(b) \/ Reload(b) \/ RefreshAnswered(b) \/ LeftAnswered(b)
             \/ SaveAnswered(b) \/ (\E kind \in {"users", "secret"} : OpenForm(b, kind))
             \/ (\E n \in Names, role \in Roles : EditUser(b, n, role))
             \/ (\E s \in Secrets : EditSecret(b, s))
      PROVE  UNCHANGED device
  BY <1>5 DEF Verify, SignIn, SignInAnswered, SignOut, AskRefused, Reload, RefreshAnswered,
              LeftAnswered, SaveAnswered, OpenForm, EditUser, EditSecret
<1>6. UNCHANGED vars => UNCHANGED device
  BY DEF vars
<1> QED
  BY <1>1, <1>2, <1>3, <1>4, <1>5, <1>6 DEF Next, FormStep

\* Once the requests that saved have ended, a token is only accepted if the secret
\* in force signed it (SecuritySettingsService.cpp:33-71).
THEOREM OldTokensAreRefused == Spec => []OldTokensRefused
<1>1. Init => SecretInv
  BY DEF Init, SecretInv
<1>2. SecretInv => OldTokensRefused
  BY DEF SecretInv, OldTokensRefused, Valid, Accepts
<1> QED
  BY <1>1, <1>2, InitTypeOK, StepTypeOK, StepSecretInv, PTL DEF Spec
=============================================================================
