------------------------- MODULE AccessPointProofs -------------------------
(***************************************************************************)
(* Theorems about AccessPoint for any networks, requests, clock and bounds *)
(* on both platforms; RunsCurrent where callbacks cannot preempt loop().   *)
(***************************************************************************)
EXTENDS AccessPoint, TLAPS

-----------------------------------------------------------------------------
(* Type correctness *)

\* reconfigureAP() leaves a time on the clock.
LEMMA ManageTimeInRange ==
  ASSUME now \in 0..Wrap - 1
  PROVE  (now + Wrap - Delay) % Wrap \in 0..Wrap - 1
  BY ClockAssumption

LEMMA NewModeInRange ==
  ASSUME NEW r \in Requests
  PROVE  NewMode(r) \in 0..255
  BY RequestsAssumption DEF NewMode, ALWAYS

LEMMA InitTypeOK == Init => TypeOK
<1> SUFFICES ASSUME Init PROVE TypeOK
  OBVIOUS
<1>1. mode \in 0..255
  BY RequestsAssumption DEF Init
<1>2. now \in 0..Wrap - 1
  BY ClockAssumption DEF Init
<1>3. lastManaged \in 0..Wrap - 1 /\ edits \in 0..MaxEdits
  BY <1>2, ManageTimeInRange, BoundsAssumption DEF Init
<1> QED
  BY <1>1, <1>2, <1>3 DEF Init, TypeOK

LEMMA StepTypeOK == TypeOK /\ [Next]_vars => TypeOK'
<1> SUFFICES ASSUME TypeOK, [Next]_vars PROVE TypeOK'
  OBVIOUS
<1>1. ASSUME NEW r \in Requests, NEW n \in Nets, Post(r, n) PROVE TypeOK'
  <2>1. edits' \in 0..MaxEdits
    BY <1>1, BoundsAssumption DEF Post, TypeOK
  <2>2. mode' \in 0..255
    BY <1>1, NewModeInRange DEF Post
  <2>3. armed' \in BOOLEAN
    BY <1>1 DEF Post
  <2> QED
    BY <1>1, <2>1, <2>2, <2>3 DEF Post, TypeOK, timing
<1>2. CASE Propagate
  <2>1. lastManaged' \in 0..Wrap - 1
    BY <1>2, ManageTimeInRange DEF Propagate, ReconfigureAP, TypeOK
  <2> QED
    BY <1>2, <2>1 DEF Propagate, ReconfigureAP, TypeOK
<1>3. CASE Loop
  BY <1>3 DEF Loop, TypeOK, settings
<1>4. CASE ManageAP
  <2>1. ap' \in Nets \cup {None} /\ dns' \in {Address[n] : n \in Nets} \cup {None}
    BY <1>4 DEF ManageAP, StartAP, StopAP, TypeOK
  <2>2. stations' \in BOOLEAN
    BY <1>4 DEF ManageAP, StartAP, StopAP, TypeOK
  <2> QED
    BY <1>4, <2>1, <2>2 DEF ManageAP, TypeOK, settings, timing
<1>5. CASE ClearFlag
  BY <1>5 DEF ClearFlag, TypeOK, settings, timing
<1>6. CASE WiFiChanges
  BY <1>6 DEF WiFiChanges, TypeOK, settings, timing
<1>7. CASE StationsChange
  BY <1>7 DEF StationsChange, TypeOK, settings, timing
<1>8. CASE Tick
  <2>1. now' \in 0..Wrap - 1
    BY <1>8, ClockAssumption DEF Tick, TypeOK
  <2> QED
    BY <1>8, <2>1 DEF Tick, TypeOK, settings
<1>9. CASE UNCHANGED vars
  BY <1>9 DEF vars, settings, timing, TypeOK
<1> QED
  BY <1>1, <1>2, <1>3, <1>4, <1>5, <1>6, <1>7, <1>8, <1>9 DEF Next, LoopStep

\* Every variable keeps its type: the mode fits its byte whatever is requested
\* and the times stay on the clock (APSettingsService.cpp:17-30).
THEOREM TypeCorrect == Spec => []TypeOK
  BY InitTypeOK, StepTypeOK, PTL DEF Spec

-----------------------------------------------------------------------------
(* The settings in force *)

\* RunsCurrent at every point of loop(): once manageAP() has run, the flag that
\* ClearFlag is about to reset is worth nothing.
CurrentInv ==
    ap # None /\ mode \in ValidModes \ {NEVER}
        => ap = net \/ armed \/ (reconfigure /\ pc # "clear")

LEMMA StepCurrentInv ==
  ASSUME Preemptive = FALSE, TypeOK, CurrentInv, [Next]_vars
  PROVE  CurrentInv'
<1>1. ASSUME NEW r \in Requests, NEW n \in Nets, Post(r, n) PROVE CurrentInv'
  <2>1. CASE mode' = mode /\ net' = net
    BY <1>1, <2>1 DEF Post, CurrentInv
  <2>2. CASE mode' # mode \/ net' # net
    BY <1>1, <2>2 DEF Post, CurrentInv
  <2> QED
    BY <2>1, <2>2
<1>2. CASE Propagate
  <2>1. pc' # "clear" /\ reconfigure'
    BY <1>2 DEF Propagate, CanCallBack, ReconfigureAP
  <2> QED
    BY <2>1 DEF CurrentInv
<1>3. CASE Loop
  BY <1>3 DEF Loop, CurrentInv, settings
<1>4. CASE ManageAP
  <2>0. UNCHANGED <<mode, net, armed, reconfigure>> /\ pc = "manage"
    BY <1>4 DEF ManageAP, settings
  <2>1. CASE StartAP
    BY <2>0, <2>1 DEF StartAP, CurrentInv
  <2>2. CASE StopAP
    BY <2>2 DEF StopAP, CurrentInv
  <2>3. CASE ~reconfigure /\ UNCHANGED ap
    BY <2>0, <2>3 DEF CurrentInv
  <2>4. CASE UNCHANGED ap /\ ap = None
    BY <2>4 DEF CurrentInv
  <2> QED
    BY <1>4, <2>1, <2>2, <2>3, <2>4 DEF ManageAP
<1>5. CASE ClearFlag
  BY <1>5 DEF ClearFlag, CurrentInv, settings
<1>6. CASE WiFiChanges
  BY <1>6 DEF WiFiChanges, CurrentInv, settings
<1>7. CASE StationsChange
  BY <1>7 DEF StationsChange, CurrentInv, settings
<1>8. CASE Tick
  BY <1>8 DEF Tick, CurrentInv, settings
<1>9. CASE UNCHANGED vars
  BY <1>9 DEF vars, settings, CurrentInv
<1> QED
  BY <1>1, <1>2, <1>3, <1>4, <1>5, <1>6, <1>7, <1>8, <1>9 DEF Next, LoopStep

\* Where callbacks run between two calls of loop(), as on the ESP8266, a wanted
\* access point runs with the settings in force or will be reconfigured.
THEOREM AccessPointIsCurrent ==
  ASSUME Preemptive = FALSE
  PROVE  Spec => []RunsCurrent
<1>1. Init => CurrentInv
  BY DEF Init, CurrentInv
<1>2. TypeOK /\ CurrentInv /\ [Next]_vars => CurrentInv'
  BY StepCurrentInv
<1>3. CurrentInv => RunsCurrent
  BY DEF CurrentInv, RunsCurrent
<1> QED
  BY <1>1, <1>2, <1>3, TypeCorrect, PTL DEF Spec

-----------------------------------------------------------------------------
(* The captive portal *)

\* The DNS server starts and stops with the access point, on both platforms.
THEOREM PortalWithAccessPoint == Spec => []PortalFollowsAP
<1>1. Init => PortalFollowsAP
  BY DEF Init, PortalFollowsAP
<1>2. TypeOK /\ PortalFollowsAP /\ [Next]_vars => PortalFollowsAP'
  <2> SUFFICES ASSUME TypeOK, PortalFollowsAP, [Next]_vars PROVE PortalFollowsAP'
    OBVIOUS
  <2>1. CASE ManageAP /\ StartAP
    BY <2>1, NetsAssumption DEF ManageAP, StartAP, PortalFollowsAP, TypeOK, settings
  <2>2. CASE StopAP
    BY <2>2 DEF StopAP, PortalFollowsAP
  <2>3. CASE UNCHANGED <<ap, dns>>
    BY <2>3 DEF PortalFollowsAP
  <2>4. (ManageAP /\ StartAP) \/ StopAP \/ UNCHANGED <<ap, dns>>
    BY DEF Next, LoopStep, Post, Propagate, Loop, ManageAP, ClearFlag, WiFiChanges,
           StationsChange, Tick, vars
  <2> QED
    BY <2>1, <2>2, <2>3, <2>4
<1> QED
  BY <1>1, <1>2, TypeCorrect, PTL DEF Spec

-----------------------------------------------------------------------------
(* Phones that use the access point *)

\* Before the first edit the only reconfiguration is the start's, and it is over
\* by the time an access point runs.
UneditedInv ==
    edits = 0 => ~armed /\ (reconfigure => ap = None \/ pc = "clear")

LEMMA StepUneditedInv == TypeOK /\ UneditedInv /\ [Next]_vars => UneditedInv'
<1> SUFFICES ASSUME TypeOK, UneditedInv, [Next]_vars, edits' = 0
             PROVE  ~armed' /\ (reconfigure' => ap' = None \/ pc' = "clear")
  BY DEF UneditedInv
<1>1. ASSUME NEW r \in Requests, NEW n \in Nets, Post(r, n) PROVE FALSE
  BY <1>1 DEF Post, TypeOK
<1>2. CASE Propagate
  BY <1>2 DEF Propagate, UneditedInv
<1>3. CASE Loop
  BY <1>3 DEF Loop, UneditedInv, settings
<1>4. CASE ManageAP
  BY <1>4 DEF ManageAP, UneditedInv, settings
<1>5. CASE ClearFlag
  BY <1>5 DEF ClearFlag, UneditedInv, settings
<1>6. CASE WiFiChanges
  BY <1>6 DEF WiFiChanges, UneditedInv, settings
<1>7. CASE StationsChange
  BY <1>7 DEF StationsChange, UneditedInv, settings
<1>8. CASE Tick
  BY <1>8 DEF Tick, UneditedInv, settings
<1>9. CASE UNCHANGED vars
  BY <1>9 DEF vars, settings, UneditedInv
<1> QED
  BY <1>1, <1>2, <1>3, <1>4, <1>5, <1>6, <1>7, <1>8, <1>9 DEF Next, LoopStep

\* manageAP() disconnects associated phones only to apply an edit.
THEOREM PhonesStay == Spec => NeverCutOff
<1>1. Init => UneditedInv
  BY DEF Init, UneditedInv
<1>2. TypeOK /\ UneditedInv /\ [Next]_vars
        => (ap # None /\ ap' = None /\ stations => reconfigure /\ edits > 0)
  <2> SUFFICES ASSUME TypeOK, UneditedInv, [Next]_vars,
                      ap # None, ap' = None, stations
               PROVE  reconfigure /\ edits > 0
    OBVIOUS
  <2>1. ManageAP /\ reconfigure
    BY NetsAssumption
       DEF Next, LoopStep, Post, Propagate, Loop, ManageAP, StartAP, ClearFlag, WiFiChanges,
           StationsChange, Tick, vars, TypeOK
  <2>2. edits # 0
    BY <2>1 DEF ManageAP, UneditedInv
  <2> QED
    BY <2>1, <2>2, BoundsAssumption DEF TypeOK
<1> QED
  BY <1>1, <1>2, TypeCorrect, StepUneditedInv, PTL DEF Spec, NeverCutOff

-----------------------------------------------------------------------------
(* The access point is managed as ManagedLink promises *)

\* What manageAP() leaves behind with its flag still set is settled.
SettledInv ==
    pc = "clear" /\ reconfigure => ap = None \/ (ap = net /\ mode \in ValidModes \ {NEVER})

LEMMA StepSettledInv ==
  ASSUME Preemptive = FALSE, SettledInv, [Next]_vars
  PROVE  SettledInv'
<1> SUFFICES ASSUME pc' = "clear", reconfigure'
             PROVE  ap' = None \/ (ap' = net' /\ mode' \in ValidModes \ {NEVER})
  BY DEF SettledInv
<1>1. CASE ManageAP
  <2>1. CASE Wanted
    <3>1. mode' \in ValidModes \ {NEVER}
      BY <1>1, <2>1 DEF ManageAP, Wanted, ValidModes, ALWAYS, DISCONNECTED, NEVER, settings
    <3>2. ap' = net'
      BY <1>1, <2>1 DEF ManageAP, StartAP, settings
    <3> QED
      BY <3>1, <3>2
  <2>2. CASE ~Wanted
    BY <1>1, <2>2 DEF ManageAP, StopAP
  <2> QED
    BY <2>1, <2>2
<1>2. CASE StationsChange \/ UNCHANGED vars
  BY <1>2 DEF StationsChange, vars, settings, SettledInv
<1>3. ~(\E r \in Requests, n \in Nets : Post(r, n)) /\ ~Propagate /\ ~WiFiChanges
  BY DEF Post, Propagate, WiFiChanges, CanCallBack
<1>4. ~Loop /\ ~ClearFlag /\ ~Tick
  BY DEF Loop, ClearFlag, Tick
<1> QED
  BY <1>1, <1>2, <1>3, <1>4 DEF Next, LoopStep

LEMMA NextRefines ==
  ASSUME Preemptive = FALSE, TypeOK, SettledInv, [Next]_vars
  PROVE  [Managed!Next]_(Managed!vars)
<1> DEFINE Allowed == mode \in ValidModes \ {NEVER}
<1>m. /\ Managed!vars = <<net, Allowed, armed \/ reconfigure, {ap} \ {None}>>
      /\ (Managed!vars)' = <<net', Allowed', armed' \/ reconfigure', {ap'} \ {None}>>
  BY DEF Managed!vars
<1>n. net # None /\ net \in Nets
  BY NetsAssumption DEF TypeOK
<1>1. ASSUME NEW r \in Requests, NEW n \in Nets, Post(r, n)
      PROVE  [Managed!Next]_(Managed!vars)
  <2>1. CASE mode' = mode /\ net' = net
    BY <1>1, <1>m, <2>1 DEF Post
  <2>2. CASE ~(mode' = mode /\ net' = net)
    <3>1. (armed' \/ reconfigure') = TRUE
      BY <1>1, <2>2 DEF Post
    <3>2. net' \in Nets /\ UNCHANGED ap
      BY <1>1 DEF Post
    <3> QED
      BY <3>1, <3>2 DEF Managed!Next, Managed!Edit
  <2> QED
    BY <2>1, <2>2
<1>2. CASE Propagate
  BY <1>2 DEF Propagate, ReconfigureAP, Managed!Next, Managed!Review
<1>3. CASE Loop \/ WiFiChanges \/ StationsChange \/ Tick \/ UNCHANGED vars
  BY <1>3, <1>m DEF Loop, WiFiChanges, StationsChange, Tick, vars, settings
<1>4. CASE ManageAP
  <2>0. UNCHANGED <<mode, net, armed, reconfigure>>
    BY <1>4 DEF ManageAP, settings
  <2>1. CASE Wanted /\ (reconfigure \/ ap = None) /\ StartAP
    <3>1. Allowed
      BY <2>1 DEF Wanted, ValidModes, ALWAYS, DISCONNECTED, NEVER
    <3>2. {ap'} \ {None} = {net}
      BY <1>n, <2>1 DEF StartAP
    <3> QED
      BY <2>0, <2>1, <3>1, <3>2 DEF Managed!Next, Managed!Open
  <2>2. CASE StopAP
    BY <2>0, <2>2 DEF StopAP, Managed!Next, Managed!Close
  <2>3. CASE UNCHANGED ap
    BY <1>m, <2>0, <2>3
  <2> QED
    BY <1>4, <2>1, <2>2, <2>3 DEF ManageAP
<1>5. CASE ClearFlag
  <2>0. UNCHANGED <<mode, net, armed, ap>> /\ pc = "clear" /\ ~reconfigure'
    BY <1>5 DEF ClearFlag, settings
  <2>1. CASE armed \/ ~reconfigure
    <3>1. (armed' \/ reconfigure') = (armed \/ reconfigure)
      BY <2>0, <2>1 DEF TypeOK
    <3> QED
      BY <1>m, <2>0, <3>1
  <2>2. CASE ~armed /\ reconfigure
    BY <1>n, <2>0, <2>2 DEF SettledInv, Managed!Next, Managed!Settle
  <2> QED
    BY <2>1, <2>2
<1> QED
  BY <1>1, <1>2, <1>3, <1>4, <1>5 DEF Next, LoopStep

\* Where callbacks run between two calls of loop(), manageAP() manages the access
\* point as ManagedLink promises; one that nobody may use any more, because the
\* mode is NEVER or no mode at all, does not outlive the edit either.
THEOREM AccessPointIsManaged ==
  ASSUME Preemptive = FALSE
  PROVE  Spec => ManagedSpec
<1>1. Init => SettledInv /\ Managed!Init
  BY DEF Init, SettledInv, Managed!Init
<1>2. TypeOK /\ SettledInv /\ [Next]_vars => SettledInv' /\ [Managed!Next]_(Managed!vars)
  BY StepSettledInv, NextRefines
<1> QED
  BY <1>1, <1>2, TypeCorrect, PTL DEF Spec, ManagedSpec, Managed!Spec
=============================================================================
