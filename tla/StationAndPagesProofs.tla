------------------------- MODULE StationAndPagesProofs -------------------------
(***************************************************************************)
(* Theorems about WiFiStation for any settings, clock and bounds, on both  *)
(* platforms, and about StatusPages for any number of requests and polls   *)
(* and any hours.  The two share no name and no step: each theorem is      *)
(* about one of them.                                                      *)
(***************************************************************************)
EXTENDS WiFiStation, StatusPages, TLAPS, FiniteSetTheorems

-----------------------------------------------------------------------------
(* The station: members of a sequence *)

LEMMA MemberOfConcat ==
  ASSUME NEW S, NEW s \in Seq(S), NEW t \in Seq(S), NEW x,
         x \in ToSet(s) \/ x \in ToSet(t)
  PROVE  x \in ToSet(s \o t)
<1>1. CASE x \in ToSet(s)
  <2>1. PICK i \in 1..Len(s) : x = s[i]
    BY <1>1 DEF ToSet
  <2>2. i \in 1..Len(s \o t) /\ (s \o t)[i] = x
    BY <2>1
  <2> QED
    BY <2>2 DEF ToSet
<1>2. CASE x \in ToSet(t)
  <2>1. PICK i \in 1..Len(t) : x = t[i]
    BY <1>2 DEF ToSet
  <2>2. Len(s) + i \in 1..Len(s \o t) /\ (s \o t)[Len(s) + i] = x
    BY <2>1
  <2> QED
    BY <2>2 DEF ToSet
<1> QED
  BY <1>1, <1>2

LEMMA MemberOfTail ==
  ASSUME NEW S, NEW s \in Seq(S), s # <<>>, NEW x \in ToSet(s), x # Head(s)
  PROVE  x \in ToSet(Tail(s))
<1>1. PICK i \in 1..Len(s) : x = s[i]
  BY DEF ToSet
<1>2. i # 1
  BY <1>1
<1>3. i - 1 \in 1..Len(Tail(s)) /\ Tail(s)[i - 1] = x
  BY <1>1, <1>2
<1>4. DOMAIN Tail(s) = 1..Len(Tail(s))
  OBVIOUS
<1>5. \E j \in DOMAIN Tail(s) : Tail(s)[j] = x
  BY <1>3, <1>4
<1> QED
  BY <1>5, Zenon DEF ToSet

\* What the driver may queue in one go.
LEMMA EventSeqs ==
  <<>> \in Seq(Events) /\ <<"disconnected">> \in Seq(Events) /\ <<"stop">> \in Seq(Events)
<1>1. "disconnected" \in Events /\ "stop" \in Events
  BY DEF Events
<1>2. <<>> \in Seq(Events)
  OBVIOUS
<1>3. \A x \in Events : <<x>> \in Seq(Events)
  OBVIOUS
<1> QED
  BY <1>1, <1>2, <1>3

-----------------------------------------------------------------------------
(* The station: type correctness *)

LEMMA DriverOffType ==
  ASSUME TypeOK, NEW q \in Seq(Events), DriverOff(q)
  PROVE  sta' = "off" /\ queue' \in Seq(Events)
<1> DEFINE d == IF Open THEN <<"disconnected">> ELSE <<>>
           e == IF esp32 /\ On THEN <<"stop">> ELSE <<>>
<1>1. d \in Seq(Events) /\ e \in Seq(Events)
  BY EventSeqs
<1>2. queue' = q \o d \o e /\ sta' = "off"
  BY DEF DriverOff
<1> HIDE DEF d, e
<1> QED
  BY <1>1, <1>2

LEMMA InitTypeOK == Init => TypeOK
<1> SUFFICES ASSUME Init PROVE TypeOK
  OBVIOUS
<1>1. edits \in 0..MaxEdits /\ lastAttempt \in 0..Wrap - 1 /\ now \in 0..Wrap - 1
  BY ClockAssumption, BoundsAssumption DEF Init
<1>2. armed \in BOOLEAN /\ stopping \in BOOLEAN /\ overtaken \in BOOLEAN
  BY DEF Init
<1>3. queue \in Seq(Events)
  BY EventSeqs DEF Init
<1> QED
  BY <1>1, <1>2, <1>3, SettingsAssumption DEF Init, TypeOK

LEMMA NextTypeOK == TypeOK /\ [Next]_vars => TypeOK'
<1> SUFFICES ASSUME TypeOK, [Next]_vars PROVE TypeOK'
  OBVIOUS
<1>t. queue # <<>> => Tail(queue) \in Seq(Events)
  BY DEF TypeOK
<1> USE DEF TypeOK, settings, station, timers
<1>1. ASSUME NEW s \in Settings, Edit(s) PROVE TypeOK'
  <2>1. edits' \in 0..MaxEdits
    BY <1>1, BoundsAssumption DEF Edit
  <2>2. overtaken' \in BOOLEAN
    BY <1>1 DEF Edit
  <2> QED
    BY <1>1, <2>1, <2>2 DEF Edit
<1>2. CASE Reconfigure
  BY <1>2, ClockAssumption DEF Reconfigure
<1>3. CASE Disconnect
  <2>1. sta' = "off" /\ queue' \in Seq(Events)
    BY <1>3, DriverOffType DEF Disconnect
  <2> QED
    BY <1>3, <2>1 DEF Disconnect
<1>4. CASE ExpectStop
  BY <1>4 DEF ExpectStop
<1>5. CASE OnStationModeDisconnected
  <2>1. sta' = "off" /\ queue' \in Seq(Events)
    BY <1>5, <1>t, DriverOffType DEF OnStationModeDisconnected
  <2> QED
    BY <1>5, <2>1 DEF OnStationModeDisconnected
<1>6. CASE OnStationModeStop
  <2>1. lastAttempt' \in 0..Wrap - 1
    BY <1>6, ClockAssumption DEF OnStationModeStop
  <2> QED
    BY <1>6, <1>t, <2>1 DEF OnStationModeStop
<1>7. CASE Join
  BY <1>7 DEF Join
<1>8. CASE Lose
  BY <1>8 DEF Lose, Events
<1>9. CASE ScanNetworks
  BY <1>9 DEF ScanNetworks
<1>10. CASE Loop \/ ManageSTA
  BY <1>10 DEF Loop, ManageSTA
<1>11. CASE ConfigureSTA \/ BeginSTA \/ ConnectSTA
  BY <1>11 DEF ConfigureSTA, BeginSTA, ConnectSTA, SwitchedOn
<1>12. CASE Tick
  BY <1>12, ClockAssumption DEF Tick
<1>13. CASE UNCHANGED vars
  BY <1>13 DEF vars
<1> QED
  BY <1>1, <1>2, <1>3, <1>4, <1>5, <1>6, <1>7, <1>8, <1>9, <1>10, <1>11, <1>12, <1>13
  DEF Next, Request, Event, LoopStep

\* The station, its event queue and its timestamps keep their types; millis()
\* wraps and never leaves its range.
THEOREM TypeCorrect == Spec => []TypeOK
<1>1. QED
  BY InitTypeOK, NextTypeOK, PTL DEF Spec

-----------------------------------------------------------------------------
(* The station: safety *)

\* The attempt that manageSTA() is making has the settings in force so far, unless
\* an edit has overtaken it, which the ESP8266 does not let happen; there is no
\* other beside it.
AttemptInv ==
    /\ ~esp32 => ~overtaken
    /\ Attempting => ~Open
    /\ Attempting /\ ~overtaken =>
          /\ state # NoSsid
          /\ pc # "config" => config = state
          /\ pc = "connect" => joined = state

LEMMA AttemptInit == Init => AttemptInv /\ JoinsCurrent
BY DEF Init, AttemptInv, JoinsCurrent, Attempting, Open

LEMMA AttemptNext ==
  ASSUME TypeOK, AttemptInv, JoinsCurrent, [Next]_vars
  PROVE  AttemptInv' /\ JoinsCurrent'
<1> USE DEF TypeOK, AttemptInv, JoinsCurrent, Attempting, Open, settings, station, timers
<1>1. ASSUME NEW s \in Settings, Edit(s) PROVE AttemptInv' /\ JoinsCurrent'
  BY <1>1 DEF Edit, CanCallBack
<1>2. CASE Reconfigure \/ ExpectStop
  BY <1>2 DEF Reconfigure, ExpectStop
<1>3. CASE Disconnect \/ OnStationModeDisconnected
  <2>1. /\ sta' = "off"
        /\ UNCHANGED <<esp32, state, pc, config, joined, overtaken>>
    BY <1>3 DEF Disconnect, OnStationModeDisconnected, DriverOff
  <2>2. ~Open'
    BY <2>1
  <2> QED
    BY <2>1, <2>2
<1>4. CASE OnStationModeStop
  BY <1>4 DEF OnStationModeStop
<1>5. CASE Join \/ Lose \/ ScanNetworks
  BY <1>5 DEF Join, Lose, ScanNetworks
<1>6. CASE Loop \/ Tick
  BY <1>6 DEF Loop, Tick
<1>7. CASE ManageSTA
  BY <1>7 DEF ManageSTA, On
<1>8. CASE ConfigureSTA \/ BeginSTA
  BY <1>8 DEF ConfigureSTA, BeginSTA, SwitchedOn
<1>9. CASE ConnectSTA
  BY <1>9 DEF ConnectSTA
<1>10. CASE UNCHANGED vars
  BY <1>10 DEF vars
<1> QED
  BY <1>1, <1>2, <1>3, <1>4, <1>5, <1>6, <1>7, <1>8, <1>9, <1>10
  DEF Next, Request, Event, LoopStep

\* An attempt is made with the settings in force, and the update handler drops the
\* one an edit has outdated: none survives its POST, but on the ESP32 one that the
\* edit has overtaken in manageSTA() (WiFiSettingsService.cpp:62-82).
THEOREM AttemptsAreCurrent == Spec => []JoinsCurrent
<1>1. TypeOK /\ AttemptInv /\ JoinsCurrent /\ [Next]_vars => AttemptInv' /\ JoinsCurrent'
  BY AttemptNext
<1> QED
  BY <1>1, InitTypeOK, NextTypeOK, AttemptInit, PTL DEF Spec

\* A station whose connection or attempt has ended has an event coming that
\* switches it off, so that manageSTA() will reconnect it; so has one that was
\* switched on for an attempt with an SSID that was gone by then, on the ESP32,
\* unless there is none to connect with.
THEOREM StationIsWatched == Spec => []StationWatched
<1> DEFINE Inv == TypeOK /\ StationWatched
<1>1. Init => Inv
  BY InitTypeOK DEF Init, StationWatched
<1>2. Inv /\ [Next]_vars => Inv'
  <2> SUFFICES ASSUME Inv, [Next]_vars PROVE StationWatched'
    BY NextTypeOK
  <2> USE DEF TypeOK, StationWatched, Attempting, settings, station, timers
  <2>1. ASSUME NEW s \in Settings, Edit(s) PROVE StationWatched'
    BY <2>1 DEF Edit
  <2>2. CASE Reconfigure \/ ExpectStop
    BY <2>2 DEF Reconfigure, ExpectStop
  <2>3. CASE Disconnect \/ OnStationModeDisconnected
    BY <2>3 DEF Disconnect, OnStationModeDisconnected, DriverOff
  <2>4. CASE OnStationModeStop
    <3>1. "disconnected" \in ToSet(queue) => "disconnected" \in ToSet(Tail(queue))
      BY <2>4, MemberOfTail DEF OnStationModeStop
    <3> QED
      BY <2>4, <3>1 DEF OnStationModeStop
  <2>5. CASE Lose
    <3>1. queue' = queue \o <<"disconnected">> /\ sta' = "idle"
      BY <2>5 DEF Lose
    <3>2. "disconnected" \in ToSet(<<"disconnected">>)
      BY DEF ToSet
    <3>3. "disconnected" \in ToSet(queue')
      BY <3>1, <3>2, EventSeqs, MemberOfConcat
    <3> QED
      BY <3>1, <3>3
  <2>6. CASE Join \/ ScanNetworks
    BY <2>6 DEF Join, ScanNetworks
  <2>7. CASE Loop \/ Tick
    BY <2>7 DEF Loop, Tick
  <2>8. CASE ManageSTA
    BY <2>8 DEF ManageSTA
  <2>9. CASE ConfigureSTA \/ BeginSTA \/ ConnectSTA
    BY <2>9 DEF ConfigureSTA, BeginSTA, ConnectSTA, SwitchedOn, On
  <2>10. CASE UNCHANGED vars
    BY <2>10 DEF vars
  <2> QED
    BY <2>1, <2>2, <2>3, <2>4, <2>5, <2>6, <2>7, <2>8, <2>9, <2>10
    DEF Next, Request, Event, LoopStep
<1> QED
  BY <1>1, <1>2, PTL DEF Spec

-----------------------------------------------------------------------------
(* The station is managed as ManagedLink promises, on the ESP8266 *)

\* The settings of the connection or attempt, as the refinement mapping sees them.
OpenSTA == IF Open THEN {joined, config} ELSE {}

LEMMA NextRefines ==
  ASSUME TypeOK, AttemptInv, ~esp32, [Next]_vars
  PROVE  [Managed!Next]_(Managed!vars)
<1>m. /\ Managed!vars = <<state, state # NoSsid, armed, OpenSTA>>
      /\ (Managed!vars)' = <<state', state' # NoSsid, armed', OpenSTA'>>
  BY DEF Managed!vars, OpenSTA
<1> USE DEF settings, station, timers, Open
<1>1. ASSUME NEW s \in Settings, Edit(s) PROVE Managed!Next
  BY <1>1 DEF Edit, Managed!Next, Managed!Edit
<1>2. CASE Disconnect
  BY <1>2 DEF Disconnect, DriverOff, Managed!Next, Managed!Settle
<1>3. CASE OnStationModeDisconnected
  BY <1>3 DEF OnStationModeDisconnected, DriverOff, Managed!Next, Managed!Close
<1>4. CASE Lose
  BY <1>4 DEF Lose, Managed!Next, Managed!Close
<1>5. CASE ConnectSTA
  <2>1. state # NoSsid /\ joined = state /\ config = state /\ ~Open
    BY <1>5 DEF ConnectSTA, AttemptInv, Attempting
  <2>2. OpenSTA = {} /\ OpenSTA' = {state} /\ UNCHANGED <<state, armed>>
    BY <1>5, <2>1 DEF ConnectSTA, OpenSTA
  <2> QED
    BY <2>1, <2>2 DEF OpenSTA, Managed!Next, Managed!Open
<1>6. CASE ConfigureSTA \/ BeginSTA
  <2>1. ~Open /\ ~Open' /\ UNCHANGED <<state, armed>>
    BY <1>6 DEF ConfigureSTA, BeginSTA, SwitchedOn, AttemptInv, Attempting
  <2> QED
    BY <1>m, <2>1 DEF OpenSTA
<1>7. CASE Reconfigure \/ ExpectStop \/ OnStationModeStop
  BY <1>7, <1>m DEF Reconfigure, ExpectStop, OnStationModeStop, OpenSTA
<1>8. CASE Join \/ ScanNetworks \/ Loop \/ ManageSTA \/ Tick \/ UNCHANGED vars
  BY <1>8, <1>m DEF Join, ScanNetworks, Loop, ManageSTA, Tick, vars, OpenSTA
<1> QED
  BY <1>1, <1>2, <1>3, <1>4, <1>5, <1>6, <1>7, <1>8 DEF Next, Request, Event, LoopStep

\* With any order of driver events, scans and edits, the service manages the
\* station of the ESP8266 as ManagedLink promises.
THEOREM StationIsManaged == Spec => ManagedSpec
<1>1. Init => (~esp32 => Managed!Init)
  BY DEF Init, Managed!Init, Open
<1>2. TypeOK /\ AttemptInv /\ [Next]_vars => (~esp32 => [Managed!Next]_(Managed!vars))
  BY NextRefines
<1>3. TypeOK /\ AttemptInv /\ JoinsCurrent /\ [Next]_vars => AttemptInv' /\ JoinsCurrent'
  BY AttemptNext
<1> QED
  BY <1>1, <1>2, <1>3, InitTypeOK, NextTypeOK, AttemptInit, PTL DEF Spec, ManagedSpec

-----------------------------------------------------------------------------
(* Pages: their inductive invariants *)

\* Only the scanner scans.
PagesBounded == PagesTypeOK /\ (chains # {} => page = "scan")

\* The button is disabled while there is a scan, and nothing else of the page
\* would enable it: the scanner has no dialogs and loads no status.
ScanInv ==
    /\ chains # {} => open /\ data = Undefined /\ ~errorMessage
    /\ \A c, d \in chains : c = d
    /\ page = "scan" => reads = {} /\ confirm = {} /\ posts = {}

\* Once the device has taken the request of a scan, the networks it keeps have
\* been found since.
ListInv ==
    /\ ListIsCurrent
    /\ \A c \in chains : (c.step # "scan" \/ c.answer = Accepted) /\ radio = "done" => fresh
    /\ \A c \in chains : c.answer \in Networks => c.answer.fresh

\* NTP follows also while the device is down.
SyncInv == pending = {} => sntp = (wifi /\ enabled)

\* What happens to one of the files happens to all of them.
ResetInv == ~powerLost => files["wifi"] = files["security"]

-----------------------------------------------------------------------------
(* Pages: type correctness *)

\* The requests of a page and its scans, and what was entered as the time.
Read == [id : 1..(MaxReads + 1), answer : PageAnswers \cup {Undefined, Lost}]
Post == [id : 1..MaxPosts, op : {"restart", "reset", "time"}, entered : Hours \cup {0},
         answer : {Undefined, 200, 400, Lost}, here : BOOLEAN]
Scan == [id : 1..(MaxReads + 1), step : {"scan", "wait", "poll"},
         answer : Networks \cup {Undefined, Lost, Accepted}]
Clock == [entered : Nat, shown : Nat]

pageData == {Undefined} \cup (IF page = "scan" THEN Networks ELSE PageAnswers)

LEMMA SamePage == PagesNext => page' = page
BY DEF PagesNext, Device, Browser, Failures, User, StatusService, RestartRequest, TimeRequest,
       ScanRequest, ListRequest, RadioDone, Restart, FactoryReset, Boot, ConfigureNTP, Down,
       Loaded, PostAnswered, ScanAnswered, Poll, LoadFailed, PostFailed, ScanFailed, PowerLoss,
       WiFiChanges, NTPSaved, OthersScan, OthersRestart, Mount, Refresh, Unmount, OpenDialog,
       CancelDialog, Submit, ScanAgain

LEMMA SameAnswers ==
  ASSUME page' = page
  PROVE  PageAnswers' = PageAnswers /\ Read' = Read /\ pageData' = pageData
BY DEF PageAnswers, Read, pageData

\* An answer of the device is one of the page's.
LEMMA AnswersOfPage ==
  /\ PagesTypeOK => Answers \subseteq PageAnswers
  /\ \A a \in AllAnswers : a # Undefined /\ a # Lost
<1>1. ASSUME PagesTypeOK PROVE Answers \subseteq PageAnswers
  <2>1. CASE page = "ntp"
    <3>1. ntpStatus(sntp) \subseteq ntpStatus(TRUE) \cup ntpStatus(FALSE)
      <4>1. sntp = TRUE \/ sntp = FALSE
        BY <1>1 DEF PagesTypeOK
      <4> QED
        BY <4>1
    <3> QED
      BY <2>1, <3>1 DEF Answers, PageAnswers
  <2>2. CASE page # "ntp"
    BY <2>2 DEF Answers
  <2> QED
    BY <2>1, <2>2
<1>2. \A a \in AllAnswers : a # Undefined /\ a # Lost
  BY AnswersAssumption
<1> QED
  BY <1>1, <1>2

LEMMA LoadDataType ==
  ASSUME PagesTypeOK, page' = page, loadData
  PROVE  data' \in pageData /\ errorMessage' \in BOOLEAN /\ reads' \subseteq Read
<1>1. PICK id \in 1..(MaxReads + 1) : reads' = reads \cup {[id |-> id, answer |-> Undefined]}
  BY DEF loadData
<1>2. [id |-> id, answer |-> Undefined] \in Read
  BY DEF Read
<1>3. reads \subseteq Read
  BY DEF PagesTypeOK, Read
<1> QED
  BY <1>1, <1>2, <1>3 DEF loadData, pageData

LEMMA StartScanType ==
  ASSUME PagesTypeOK, startNetworkScan
  PROVE  /\ data' = Undefined /\ errorMessage' = FALSE /\ fresh' = FALSE
         /\ pollCount' \in 0..(NUM_POLLS - 1) /\ chains' \subseteq Scan
<1>1. PICK id \in 1..(MaxReads + 1) :
        chains' = chains \cup {[id |-> id, step |-> "scan", answer |-> Undefined]}
  BY DEF startNetworkScan
<1>2. [id |-> id, step |-> "scan", answer |-> Undefined] \in Scan
  BY DEF Scan
<1>3. chains \subseteq Scan
  BY DEF PagesTypeOK, Scan
<1>4. pollCount' \in 0..(NUM_POLLS - 1)
  BY PollsAssumption DEF startNetworkScan
<1> QED
  BY <1>1, <1>2, <1>3, <1>4 DEF startNetworkScan

\* What a device that goes down leaves of the requests.
LEMMA DownType ==
  ASSUME PagesTypeOK, Down
  PROVE  /\ reads' \subseteq Read /\ posts' \subseteq Post /\ chains' \subseteq Scan
<1>1. \A r \in Read : [r EXCEPT !.answer = Lost] \in Read
  BY DEF Read
<1>2. \A p \in Post : [p EXCEPT !.answer = Lost] \in Post
  BY DEF Post
<1>3. \A c \in Scan : [c EXCEPT !.answer = Lost] \in Scan
  BY DEF Scan
<1>4. reads \subseteq Read /\ posts \subseteq Post /\ chains \subseteq Scan
  BY DEF PagesTypeOK, Read, Post, Scan
<1>5. reads' \subseteq Read
  BY <1>1, <1>4 DEF Down
<1>6. posts' \subseteq Post
  BY <1>2, <1>4 DEF Down
<1>7. chains' \subseteq Scan
  BY <1>3, <1>4 DEF Down
<1> QED
  BY <1>5, <1>6, <1>7

LEMMA AnsweredType ==
  ASSUME PagesTypeOK, NEW p, NEW ok, Answered(p, ok)
  PROVE  confirm' \subseteq {"restart", "reset", "time"} /\ processing' \in BOOLEAN
BY DEF Answered, PagesTypeOK

LEMMA ScanNetworksType ==
  ASSUME PagesTypeOK, scanNetworks
  PROVE  radio' \in {"none", "running", "done"} /\ (radio' = "done" => FALSE)
BY DEF scanNetworks, PagesTypeOK

\* What the scanner does with an answer.
LEMMA FinishedType ==
  ASSUME PagesTypeOK, NEW c \in chains, finishedWithError(c) \/ waiting(c)
  PROVE  /\ data' \in pageData /\ errorMessage' \in BOOLEAN /\ chains' \subseteq Scan
<1>1. chains \subseteq Scan /\ data \in pageData
  BY DEF PagesTypeOK, Scan, pageData
<1>2. [c EXCEPT !.step = "wait", !.answer = Undefined] \in Scan
  BY <1>1 DEF Scan
<1> QED
  BY <1>1, <1>2 DEF finishedWithError, waiting, PagesTypeOK, pageData

LEMMA NotYetType ==
  ASSUME PagesTypeOK, NEW c \in chains, notYet(c)
  PROVE  /\ data' \in pageData /\ errorMessage' \in BOOLEAN /\ chains' \subseteq Scan
         /\ pollCount' \in 0..(NUM_POLLS - 1)
<1>1. finishedWithError(c) \/ waiting(c)
  BY DEF notYet
<1>2. pollCount' \in 0..(NUM_POLLS - 1)
  BY PollsAssumption DEF notYet, finishedWithError, PagesTypeOK
<1> QED
  BY <1>1, <1>2, FinishedType

\* The hours of a clock that was set.
LEMMA ClockType ==
  ASSUME NEW entered \in Hours \cup {0}
  PROVE  [entered |-> entered, shown |-> localtime(mktime(formatLocalDateTime(entered)))] \in Clock
<1>1. entered \in Nat
  BY HoursAssumption
<1>2. formatLocalDateTime(entered) \in Nat
  BY <1>1 DEF formatLocalDateTime
<1>3. localtime(mktime(formatLocalDateTime(entered))) \in Nat
  BY <1>2 DEF localtime, mktime
<1> QED
  BY <1>1, <1>3 DEF Clock

\* The type invariant by the groups of variables that the actions keep.
PageType == open \in BOOLEAN /\ data \in pageData /\ errorMessage \in BOOLEAN /\ reads \subseteq Read
DialogType == confirm \subseteq {"restart", "reset", "time"} /\ processing \in BOOLEAN
PostType == posts \subseteq Post
ScanType == chains \subseteq Scan /\ pollCount \in 0..(NUM_POLLS - 1)
                                /\ (chains # {} => page = "scan")
DeviceType ==
    /\ up \in BOOLEAN /\ doomed \subseteq {"restart", "reset"} /\ powerLost \in BOOLEAN
    /\ files \in [SettingsFiles -> {"user", "gone", "factory"}]
ClockVarsType ==
    /\ wifi \in BOOLEAN /\ enabled \in BOOLEAN /\ sntp \in BOOLEAN
    /\ pending \subseteq {"gotIP", "disconnected", "saved"} /\ clock \in {Undefined} \cup Clock
RadioType == radio \in {"none", "running", "done"} /\ fresh \in BOOLEAN

LEMMA TypeParts ==
  PagesBounded <=>
    /\ page \in Pages /\ admin \in BOOLEAN /\ changes \in 0..MaxChanges
    /\ PageType /\ DialogType /\ PostType /\ ScanType /\ DeviceType /\ ClockVarsType /\ RadioType
BY DEF PagesBounded, PagesTypeOK, PageType, DialogType, PostType, ScanType, DeviceType,
       ClockVarsType, RadioType, Read, Post, Scan, Clock, pageData

\* A step that does not touch a group keeps it.
LEMMA KeptParts ==
  ASSUME page' = page
  PROVE  /\ PageType /\ UNCHANGED pageVars => PageType'
         /\ DialogType /\ UNCHANGED dialogVars => DialogType'
         /\ PostType /\ UNCHANGED posts => PostType'
         /\ ScanType /\ UNCHANGED scanVars => ScanType'
         /\ DeviceType /\ UNCHANGED deviceVars => DeviceType'
         /\ ClockVarsType /\ UNCHANGED clockVars => ClockVarsType'
         /\ RadioType /\ UNCHANGED radioVars => RadioType'
<1>1. pageData' = pageData /\ Read' = Read
  BY SameAnswers
<1>2. Post' = Post /\ Scan' = Scan /\ Clock' = Clock
  BY DEF Post, Scan, Clock
<1>3. PageType /\ UNCHANGED pageVars => PageType'
  BY <1>1 DEF PageType, pageVars
<1>4. DialogType /\ UNCHANGED dialogVars => DialogType'
  BY DEF DialogType, dialogVars
<1>5. PostType /\ UNCHANGED posts => PostType'
  BY <1>2 DEF PostType
<1>6. ScanType /\ UNCHANGED scanVars => ScanType'
  BY <1>2 DEF ScanType, scanVars
<1>7. DeviceType /\ UNCHANGED deviceVars => DeviceType'
  BY DEF DeviceType, deviceVars
<1>8. ClockVarsType /\ UNCHANGED clockVars => ClockVarsType'
  BY <1>2 DEF ClockVarsType, clockVars
<1>9. RadioType /\ UNCHANGED radioVars => RadioType'
  BY DEF RadioType, radioVars
<1> QED
  BY <1>3, <1>4, <1>5, <1>6, <1>7, <1>8, <1>9

LEMMA PagesInitBounded == PagesInit => PagesBounded
<1> SUFFICES ASSUME PagesInit PROVE PagesBounded
  OBVIOUS
<1>1. changes \in 0..MaxChanges /\ pollCount \in 0..(NUM_POLLS - 1)
  BY PollsAssumption, LimitsAssumption DEF PagesInit
<1>2. PageType /\ DialogType /\ PostType
  BY DEF PagesInit, PageType, DialogType, PostType, pageData
<1>3. ScanType
  BY <1>1 DEF PagesInit, ScanType
<1>4. DeviceType /\ RadioType
  BY DEF PagesInit, DeviceType, RadioType
<1>5. ClockVarsType
  BY DEF PagesInit, ClockVarsType
<1> QED
  BY <1>1, <1>2, <1>3, <1>4, <1>5, TypeParts DEF PagesInit

LEMMA PagesNextBounded == PagesBounded /\ [PagesNext]_allVars => PagesBounded'
<1> SUFFICES ASSUME PagesBounded, [PagesNext]_allVars PROVE PagesBounded'
  OBVIOUS
<1>b. /\ page \in Pages /\ admin \in BOOLEAN /\ changes \in 0..MaxChanges
      /\ PageType /\ DialogType /\ PostType /\ ScanType /\ DeviceType /\ ClockVarsType /\ RadioType
      /\ PagesTypeOK
  BY TypeParts DEF PagesBounded
<1>s. page' = page
  BY SamePage DEF allVars
<1>e. Read' = Read /\ pageData' = pageData /\ Post' = Post /\ Scan' = Scan /\ Clock' = Clock
  BY <1>s, SameAnswers DEF Post, Scan, Clock
<1>k. /\ UNCHANGED pageVars => PageType'
      /\ UNCHANGED dialogVars => DialogType'
      /\ UNCHANGED posts => PostType'
      /\ UNCHANGED scanVars => ScanType'
      /\ UNCHANGED deviceVars => DeviceType'
      /\ UNCHANGED clockVars => ClockVarsType'
      /\ UNCHANGED radioVars => RadioType'
  BY <1>b, <1>s, KeptParts
<1>q. ASSUME admin' = admin, changes' \in 0..MaxChanges, PageType', DialogType', PostType',
             ScanType', DeviceType', ClockVarsType', RadioType'
      PROVE  PagesBounded'
  BY <1>b, <1>s, <1>q DEF PagesBounded, PagesTypeOK, PageType, DialogType, PostType, ScanType,
     DeviceType, ClockVarsType, RadioType, Read, Post, Scan, Clock, pageData
<1>c. ASSUME changes < MaxChanges, changes' = changes + 1 PROVE changes' \in 0..MaxChanges
  BY <1>b, <1>c, LimitsAssumption
<1>1. CASE Mount
  <2>1. PageType'
    BY <1>1, <1>b, <1>e, <1>s, LoadDataType, StartScanType DEF Mount, PageType, pageData
  <2>2. ScanType'
    BY <1>1, <1>b, <1>e, <1>k, <1>s, StartScanType DEF Mount, ScanType
  <2>3. RadioType'
    BY <1>1, <1>b, <1>k, StartScanType DEF Mount, RadioType
  <2> QED
    BY <1>1, <1>b, <1>k, <1>q, <2>1, <2>2, <2>3 DEF Mount
<1>2. CASE Refresh
  <2>1. PageType'
    BY <1>2, <1>b, <1>e, <1>s, LoadDataType DEF Refresh, PageType
  <2> QED
    BY <1>2, <1>b, <1>k, <1>q, <2>1 DEF Refresh
<1>3. CASE StatusService
  <2>1. PICK r \in reads, answer \in Answers :
          reads' = (reads \ {r}) \cup {[r EXCEPT !.answer = answer]}
    BY <1>3 DEF StatusService
  <2>2. r \in Read /\ answer \in PageAnswers
    BY <1>b, AnswersOfPage DEF PageType
  <2>3. [r EXCEPT !.answer = answer] \in Read
    BY <2>2 DEF Read
  <2>4. PageType'
    BY <1>3, <1>b, <1>e, <2>1, <2>3 DEF StatusService, PageType
  <2> QED
    BY <1>3, <1>b, <1>k, <1>q, <2>4 DEF StatusService
<1>4. CASE Loaded
  <2>1. PICK r \in reads : r.answer \in AllAnswers /\ data' = r.answer /\ reads' = reads \ {r}
    BY <1>4 DEF Loaded
  <2>2. r.answer \in PageAnswers
    BY <1>b, <2>1, AnswersOfPage DEF PageType, Read
  <2>3. page = "scan" => PageAnswers = {}
    BY DEF PageAnswers
  <2>4. data' \in pageData
    BY <2>1, <2>2, <2>3 DEF pageData
  <2>5. PageType'
    BY <1>4, <1>b, <1>e, <2>1, <2>4 DEF Loaded, PageType
  <2> QED
    BY <1>4, <1>b, <1>k, <1>q, <2>5 DEF Loaded
<1>5. CASE LoadFailed
  <2>1. PageType'
    BY <1>5, <1>b, <1>e DEF LoadFailed, PageType
  <2> QED
    BY <1>5, <1>b, <1>k, <1>q, <2>1 DEF LoadFailed
<1>6. CASE Unmount
  <2>1. PageType' /\ DialogType'
    BY <1>6, <1>e DEF Unmount, PageType, DialogType, pageData
  <2>2. \A p \in Post : [p EXCEPT !.here = FALSE] \in Post
    BY DEF Post
  <2>3. PostType'
    BY <1>6, <1>b, <1>e, <2>2 DEF Unmount, PostType
  <2>4. ScanType'
    BY <1>6, PollsAssumption DEF Unmount, ScanType
  <2> QED
    BY <1>6, <1>b, <1>k, <1>q, <2>1, <2>3, <2>4 DEF Unmount
<1>7. CASE OpenDialog
  <2>1. Dialogs \subseteq {"restart", "reset", "time"}
    BY DEF Dialogs
  <2>2. DialogType'
    BY <1>7, <1>b, <2>1 DEF OpenDialog, DialogType
  <2> QED
    BY <1>7, <1>b, <1>k, <1>q, <2>2 DEF OpenDialog
<1>8. CASE CancelDialog
  <2>1. DialogType'
    BY <1>8, <1>b DEF CancelDialog, DialogType
  <2> QED
    BY <1>8, <1>b, <1>k, <1>q, <2>1 DEF CancelDialog
<1>9. CASE Submit
  <2>1. PICK op \in confirm, id \in 1..MaxPosts, entered \in Hours \cup {0} :
          posts' = posts \cup {[id |-> id, op |-> op, entered |-> entered,
                               answer |-> Undefined, here |-> TRUE]}
    BY <1>9 DEF Submit
  <2>2. [id |-> id, op |-> op, entered |-> entered, answer |-> Undefined, here |-> TRUE] \in Post
    BY <1>b DEF DialogType, Post
  <2>3. PostType'
    BY <1>b, <1>e, <2>1, <2>2 DEF PostType
  <2>4. DialogType'
    BY <1>9, <1>b DEF Submit, DialogType
  <2> QED
    BY <1>9, <1>b, <1>k, <1>q, <2>3, <2>4 DEF Submit
<1>10. CASE RestartRequest
  <2>1. PICK p \in posts :
          /\ p.op \in {"restart", "reset"} /\ doomed' = doomed \cup {p.op}
          /\ posts' = (posts \ {p}) \cup (IF p.here THEN {[p EXCEPT !.answer = 200]} ELSE {})
    BY <1>10 DEF RestartRequest
  <2>2. [p EXCEPT !.answer = 200] \in Post
    BY <1>b DEF PostType, Post
  <2>3. PostType'
    BY <1>b, <1>e, <2>1, <2>2 DEF PostType
  <2>4. DeviceType'
    BY <1>10, <1>b, <2>1 DEF RestartRequest, DeviceType
  <2> QED
    BY <1>10, <1>b, <1>k, <1>q, <2>3, <2>4 DEF RestartRequest
<1>11. CASE TimeRequest
  <2>1. PICK p \in posts :
          /\ clock' = IF sntp THEN clock
                      ELSE [entered |-> p.entered,
                            shown |-> localtime(mktime(formatLocalDateTime(p.entered)))]
          /\ posts' = (posts \ {p})
               \cup (IF p.here THEN {[p EXCEPT !.answer = IF sntp THEN 400 ELSE 200]} ELSE {})
    BY <1>11 DEF TimeRequest
  <2>2. [p EXCEPT !.answer = IF sntp THEN 400 ELSE 200] \in Post /\ p.entered \in Hours \cup {0}
    BY <1>b DEF PostType, Post
  <2>3. PostType'
    BY <1>b, <1>e, <2>1, <2>2 DEF PostType
  <2>4. clock' \in {Undefined} \cup Clock
    BY <1>b, <2>1, <2>2, ClockType DEF ClockVarsType
  <2>5. ClockVarsType'
    BY <1>11, <1>b, <1>e, <2>4 DEF TimeRequest, ClockVarsType
  <2> QED
    BY <1>11, <1>b, <1>k, <1>q, <2>3, <2>5 DEF TimeRequest
<1>12. CASE PostAnswered
  <2>1. PICK p \in posts :
          /\ Answered(p, p.answer = 200) /\ posts' = posts \ {p}
          /\ IF p.op = "time" /\ p.answer = 200
             THEN loadData ELSE UNCHANGED <<data, errorMessage, reads>>
    BY <1>12 DEF PostAnswered
  <2>2. PostType'
    BY <1>b, <1>e, <2>1 DEF PostType
  <2>3. DialogType'
    BY <1>b, <2>1, AnsweredType DEF DialogType
  <2>4. PageType'
    BY <1>12, <1>b, <1>e, <1>s, <2>1, LoadDataType DEF PostAnswered, PageType
  <2> QED
    BY <1>12, <1>b, <1>k, <1>q, <2>2, <2>3, <2>4 DEF PostAnswered
<1>13. CASE PostFailed
  <2>1. PICK p \in posts :
          /\ IF p.here THEN Answered(p, FALSE) ELSE UNCHANGED dialogVars
          /\ posts' = posts \ {p}
    BY <1>13 DEF PostFailed
  <2>2. PostType'
    BY <1>b, <1>e, <2>1 DEF PostType
  <2>3. DialogType'
    BY <1>b, <1>k, <2>1, AnsweredType DEF DialogType
  <2> QED
    BY <1>13, <1>b, <1>k, <1>q, <2>2, <2>3 DEF PostFailed
<1>14. CASE ScanAgain
  <2>1. PageType'
    BY <1>14, <1>b, <1>e, StartScanType DEF ScanAgain, PageType, pageData
  <2>2. ScanType'
    BY <1>14, <1>b, <1>e, <1>s, StartScanType DEF ScanAgain, ScanType
  <2>3. RadioType'
    BY <1>14, <1>b, StartScanType DEF ScanAgain, RadioType
  <2> QED
    BY <1>14, <1>b, <1>k, <1>q, <2>1, <2>2, <2>3 DEF ScanAgain
<1>15. CASE ScanRequest
  <2>1. PICK c \in chains : chains' = (chains \ {c}) \cup {[c EXCEPT !.answer = Accepted]}
    BY <1>15 DEF ScanRequest
  <2>2. [c EXCEPT !.answer = Accepted] \in Scan
    BY <1>b DEF ScanType, Scan
  <2>3. ScanType'
    BY <1>15, <1>b, <1>e, <1>s, <2>1, <2>2 DEF ScanRequest, ScanType
  <2>4. RadioType'
    BY <1>15, <1>b, ScanNetworksType DEF ScanRequest, RadioType
  <2> QED
    BY <1>15, <1>b, <1>k, <1>q, <2>3, <2>4 DEF ScanRequest
<1>16. CASE ListRequest
  <2>1. PICK c \in chains :
          \/ /\ UNCHANGED radio
             /\ \E count \in {0, 1} :
                  chains' = (chains \ {c})
                            \cup {[c EXCEPT !.answer = [count |-> count, fresh |-> fresh]]}
          \/ /\ IF radio = "running" THEN UNCHANGED radio ELSE scanNetworks
             /\ chains' = (chains \ {c}) \cup {[c EXCEPT !.answer = Accepted]}
    BY <1>16 DEF ListRequest
  <2>2. c \in Scan /\ fresh \in BOOLEAN
    BY <1>b DEF ScanType, RadioType
  <2>3. \A count \in {0, 1} : [count |-> count, fresh |-> fresh] \in Networks
    BY <2>2 DEF Networks
  <2>4. \A a \in Networks \cup {Accepted} : [c EXCEPT !.answer = a] \in Scan
    BY <2>2 DEF Scan
  <2>5. chains' \subseteq Scan
    BY <1>b, <2>1, <2>3, <2>4 DEF ScanType
  <2>6. ScanType'
    BY <1>16, <1>b, <1>e, <1>s, <2>1, <2>5 DEF ListRequest, ScanType
  <2>7. RadioType'
    BY <1>16, <1>b, <2>1, ScanNetworksType DEF ListRequest, RadioType
  <2> QED
    BY <1>16, <1>b, <1>k, <1>q, <2>6, <2>7 DEF ListRequest
<1>17. CASE ScanAnswered
  <2>1. PICK c \in chains :
          \/ waiting(c) /\ UNCHANGED pollCount
          \/ notYet(c)
          \/ /\ c.answer \in Networks /\ data' = c.answer /\ chains' = chains \ {c}
             /\ UNCHANGED <<errorMessage, pollCount>>
    BY <1>17 DEF ScanAnswered
  <2>2. page = "scan"
    BY <1>b, <2>1 DEF ScanType
  <2>3. /\ data' \in pageData /\ errorMessage' \in BOOLEAN /\ chains' \subseteq Scan
        /\ pollCount' \in 0..(NUM_POLLS - 1)
    <3>1. CASE waiting(c) /\ UNCHANGED pollCount
      BY <1>b, <3>1, FinishedType DEF ScanType
    <3>2. CASE notYet(c)
      BY <1>b, <3>2, NotYetType
    <3>3. CASE /\ c.answer \in Networks /\ data' = c.answer /\ chains' = chains \ {c}
               /\ UNCHANGED <<errorMessage, pollCount>>
      BY <1>b, <2>2, <3>3 DEF ScanType, PageType, pageData
    <3> QED
      BY <2>1, <3>1, <3>2, <3>3
  <2>4. PageType' /\ ScanType'
    BY <1>17, <1>b, <1>e, <1>s, <2>2, <2>3 DEF ScanAnswered, PageType, ScanType
  <2> QED
    BY <1>17, <1>b, <1>k, <1>q, <2>4 DEF ScanAnswered
<1>18. CASE ScanFailed
  <2>1. PICK c \in chains : finishedWithError(c)
    BY <1>18 DEF ScanFailed
  <2>2. page = "scan" /\ UNCHANGED pollCount
    BY <1>b, <2>1 DEF ScanType, finishedWithError
  <2>3. PageType' /\ ScanType'
    BY <1>18, <1>b, <1>e, <1>s, <2>1, <2>2, FinishedType DEF ScanFailed, PageType, ScanType
  <2> QED
    BY <1>18, <1>b, <1>k, <1>q, <2>3 DEF ScanFailed
<1>19. CASE Poll
  <2>1. PICK c \in chains : chains' = (chains \ {c}) \cup {[c EXCEPT !.step = "poll"]}
    BY <1>19 DEF Poll
  <2>2. [c EXCEPT !.step = "poll"] \in Scan
    BY <1>b DEF ScanType, Scan
  <2>3. ScanType'
    BY <1>19, <1>b, <1>e, <1>s, <2>1, <2>2 DEF Poll, ScanType
  <2> QED
    BY <1>19, <1>b, <1>k, <1>q, <2>3 DEF Poll
<1>20. CASE RadioDone
  <2>1. RadioType'
    BY <1>20, <1>b DEF RadioDone, RadioType
  <2> QED
    BY <1>20, <1>b, <1>k, <1>q, <2>1 DEF RadioDone
<1>d. ASSUME Down
      PROVE  /\ PageType' /\ DialogType' /\ PostType' /\ ScanType' /\ ClockVarsType' /\ RadioType'
             /\ up' = FALSE /\ doomed' = {} /\ admin' = admin
  <2>1. reads' \subseteq Read /\ posts' \subseteq Post /\ chains' \subseteq Scan
    BY <1>b, <1>d, DownType
  <2>2. PageType'
    BY <1>b, <1>d, <1>e, <2>1 DEF Down, PageType
  <2>3. PostType'
    BY <1>e, <2>1 DEF PostType
  <2>4. chains' # {} => chains # {}
    BY <1>d DEF Down
  <2>5. ScanType'
    BY <1>b, <1>d, <1>e, <1>s, <2>1, <2>4 DEF Down, ScanType
  <2>6. ClockVarsType'
    BY <1>b, <1>d, <1>e DEF Down, ClockVarsType
  <2>7. RadioType'
    BY <1>b, <1>d DEF Down, RadioType
  <2> QED
    BY <1>d, <1>k, <2>2, <2>3, <2>5, <2>6, <2>7 DEF Down
<1>21. CASE Restart
  <2>1. DeviceType'
    BY <1>21, <1>b, <1>d DEF Restart, DeviceType
  <2> QED
    BY <1>21, <1>b, <1>d, <1>q, <2>1 DEF Restart
<1>22. CASE FactoryReset
  <2>1. DeviceType'
    BY <1>22, <1>b, <1>d DEF FactoryReset, factoryReset, DeviceType
  <2> QED
    BY <1>22, <1>b, <1>d, <1>q, <2>1 DEF FactoryReset
<1>23. CASE PowerLoss
  <2>1. files' \in [SettingsFiles -> {"user", "gone", "factory"}]
    BY <1>23, <1>b DEF PowerLoss, DeviceType
  <2>2. DeviceType'
    BY <1>23, <1>d, <2>1 DEF PowerLoss, DeviceType
  <2> QED
    BY <1>23, <1>c, <1>d, <1>q, <2>2 DEF PowerLoss
<1>24. CASE Boot
  <2>1. DeviceType'
    BY <1>24, <1>b DEF Boot, DeviceType
  <2> QED
    BY <1>24, <1>b, <1>k, <1>q, <2>1 DEF Boot
<1>25. CASE ConfigureNTP
  <2>1. sntp' \in BOOLEAN
    BY <1>25, <1>b DEF ConfigureNTP, configureNTP, ClockVarsType
  <2>2. ClockVarsType'
    BY <1>25, <1>b, <1>e, <2>1 DEF ConfigureNTP, ClockVarsType
  <2> QED
    BY <1>25, <1>b, <1>k, <1>q, <2>2 DEF ConfigureNTP
<1>26. CASE WiFiChanges
  <2>1. ClockVarsType'
    BY <1>26, <1>b, <1>e DEF WiFiChanges, ClockVarsType
  <2> QED
    BY <1>26, <1>c, <1>k, <1>q, <2>1 DEF WiFiChanges
<1>27. CASE NTPSaved
  <2>1. ClockVarsType'
    BY <1>27, <1>b, <1>e DEF NTPSaved, ClockVarsType
  <2> QED
    BY <1>27, <1>c, <1>k, <1>q, <2>1 DEF NTPSaved
<1>28. CASE OthersScan
  <2>1. RadioType'
    BY <1>28, <1>b, ScanNetworksType DEF OthersScan, RadioType
  <2> QED
    BY <1>28, <1>c, <1>k, <1>q, <2>1 DEF OthersScan
<1>29. CASE OthersRestart
  <2>1. DeviceType'
    BY <1>29, <1>b DEF OthersRestart, DeviceType
  <2> QED
    BY <1>29, <1>c, <1>k, <1>q, <2>1 DEF OthersRestart
<1>30. CASE UNCHANGED allVars
  BY <1>30, <1>b, <1>k, <1>q DEF allVars
<1> QED
  BY <1>1, <1>2, <1>3, <1>4, <1>5, <1>6, <1>7, <1>8, <1>9, <1>10, <1>11, <1>12, <1>13, <1>14,
     <1>15, <1>16, <1>17, <1>18, <1>19, <1>20, <1>21, <1>22, <1>23, <1>24, <1>25, <1>26, <1>27,
     <1>28, <1>29, <1>30 DEF PagesNext, Device, Browser, Failures, User

\* Pages, dialogs, the scanner and the device keep their types: what a page shows
\* is an answer to it, and it never counts NUM_POLLS polls.
THEOREM PagesTypeCorrect == PagesSpec => []PagesTypeOK
<1>1. PagesBounded => PagesTypeOK
  BY DEF PagesBounded
<1>2. PagesSpec => []PagesBounded
  BY PagesInitBounded, PagesNextBounded, PTL DEF PagesSpec
<1> QED
  BY <1>1, <1>2, PTL

-----------------------------------------------------------------------------
(* Pages: what the pages show *)

\* Of each page, for any answer of its service: the rows need no key that has not
\* been sent, and show the details of a good status.
LEMMA WiFiRows ==
  ASSUME NEW d \in wifiStatus
  PROVE  /\ WiFiStatusForm(d) \subseteq d.keys
         /\ wifiStatusHighlight(d) = "success" => {"ssid", "local_ip"} \subseteq WiFiStatusForm(d)
<1>1. CASE d.status = "CONNECTED"
  <2>1. PICK dns \in SUBSET {"dns_ip_1", "dns_ip_2"} : d = Answer("CONNECTED", wifiConnection \cup dns)
    BY <1>1 DEF wifiStatus, Answer
  <2>2. wifiConnection \subseteq d.keys
    BY <2>1 DEF Answer
  <2> QED
    BY <1>1, <2>2 DEF WiFiStatusForm, isConnected, dnsServers, wifiConnection
<1>2. CASE d.status # "CONNECTED"
  BY <1>2 DEF WiFiStatusForm, isConnected, wifiStatusHighlight
<1> QED
  BY <1>1, <1>2

LEMMA APRows ==
  ASSUME NEW d \in apStatus
  PROVE  APStatusForm(d) \subseteq d.keys /\ {"ip_address"} \subseteq APStatusForm(d)
BY DEF apStatus, Answer, APStatusForm

LEMMA MqttRows ==
  ASSUME NEW d \in mqttStatus
  PROVE  /\ MqttStatusForm(d) \subseteq d.keys
         /\ mqttStatusHighlight(d) = "success" => {"client_id"} \subseteq MqttStatusForm(d)
<1>1. PICK e \in BOOLEAN, c \in BOOLEAN :
        d = Answer([enabled |-> e, connected |-> c], {"client_id", "disconnect_reason"})
  BY DEF mqttStatus
<1>2. /\ d.keys = {"client_id", "disconnect_reason"}
      /\ d.status.enabled = e /\ d.status.connected = c
  BY <1>1 DEF Answer
<1> QED
  BY <1>2 DEF MqttStatusForm, mqttStatusHighlight

LEMMA NTPRows ==
  ASSUME NEW d \in ntpStatus(TRUE) \cup ntpStatus(FALSE)
  PROVE  /\ NTPStatusForm(d) \subseteq d.keys
         /\ ntpStatusHighlight(d) = "success"
              => {"server", "local_time"} \subseteq NTPStatusForm(d)
<1>1. {"utc_time", "local_time", "uptime"} \subseteq d.keys
  BY DEF ntpStatus, Answer
<1>2. isNtpActive(d) => "server" \in d.keys
  BY DEF ntpStatus, Answer, isNtpActive
<1> QED
  BY <1>1, <1>2 DEF NTPStatusForm, ntpStatusHighlight

LEMMA SystemRows ==
  ASSUME NEW d \in systemStatus
  PROVE  SystemStatusForm(d) \subseteq d.keys
<1> DEFINE common == {"sdk_version", "cpu_freq_mhz", "free_heap", "max_alloc_heap", "sketch_size",
                      "free_sketch_space", "flash_chip_size", "flash_chip_speed", "fs_used",
                      "fs_total"}
<1>1. \/ d.status = "esp8266" /\ d.keys = common \cup {"heap_fragmentation"}
      \/ d.status = "esp32" /\ d.keys = common \cup {"psram_size", "free_psram"}
      \/ d.status = "esp32" /\ d.keys = common
  BY DEF systemStatus, Answer
<1> QED
  BY <1>1 DEF SystemStatusForm

\* What the rows of a page show has come with the answer of the device,
\* whatever the device, and a status in the colour of success has its details.
THEOREM RowsShowWhatCame == PagesSpec => []RowsAgree
<1>1. PagesTypeOK => RowsAgree
  <2> SUFFICES ASSUME PagesTypeOK, page \in Statuses, data # Undefined
               PROVE  /\ Rows(page, data) \subseteq data.keys
                      /\ Highlight(page, data) = "success" => Details(page) \subseteq Rows(page, data)
    BY DEF RowsAgree
  <2>1. data \in PageAnswers
    BY DEF PagesTypeOK, Statuses
  <2>2. CASE page = "wifi"
    <3>1. data \in wifiStatus
      BY <2>1, <2>2 DEF PageAnswers
    <3> QED
      BY <2>2, <3>1, WiFiRows DEF Rows, Highlight, Details
  <2>3. CASE page = "ap"
    <3>1. data \in apStatus
      BY <2>1, <2>3 DEF PageAnswers
    <3> QED
      BY <2>3, <3>1, APRows DEF Rows, Highlight, Details
  <2>4. CASE page = "mqtt"
    <3>1. data \in mqttStatus
      BY <2>1, <2>4 DEF PageAnswers
    <3> QED
      BY <2>4, <3>1, MqttRows DEF Rows, Highlight, Details
  <2>5. CASE page = "ntp"
    <3>1. data \in ntpStatus(TRUE) \cup ntpStatus(FALSE)
      BY <2>1, <2>5 DEF PageAnswers
    <3> QED
      BY <2>5, <3>1, NTPRows DEF Rows, Highlight, Details
  <2>6. CASE page = "system"
    <3>1. data \in systemStatus
      BY <2>1, <2>6 DEF PageAnswers
    <3> QED
      BY <2>6, <3>1, SystemRows DEF Rows, Highlight, Details
  <2> QED
    BY <2>2, <2>3, <2>4, <2>5, <2>6 DEF Statuses
<1> QED
  BY <1>1, PagesTypeCorrect, PTL

-----------------------------------------------------------------------------
(* Pages: the device *)

LEMMA ResetInitially == PagesInit => ResetInv
BY DEF PagesInit, ResetInv, SettingsFiles

LEMMA ResetNext == ResetInv /\ [PagesNext]_allVars => ResetInv'
<1> SUFFICES ASSUME ResetInv, [PagesNext]_allVars PROVE ResetInv'
  OBVIOUS
<1>1. CASE UNCHANGED <<files, powerLost>>
  BY <1>1 DEF ResetInv
<1>2. CASE Boot
  BY <1>2 DEF Boot, ResetInv, SettingsFiles
<1>3. CASE FactoryReset
  BY <1>3 DEF FactoryReset, factoryReset, ResetInv, SettingsFiles
<1>4. CASE PowerLoss
  BY <1>4 DEF PowerLoss, ResetInv
<1>5. CASE Restart
  BY <1>1, <1>5 DEF Restart
<1>6. CASE Browser
  BY <1>1, <1>6 DEF Browser, Loaded, PostAnswered, ScanAnswered, Poll, deviceVars
<1>7. CASE User
  BY <1>1, <1>7 DEF User, Mount, Refresh, Unmount, OpenDialog, CancelDialog, Submit, ScanAgain,
     deviceVars
<1>8. ASSUME StatusService \/ RestartRequest \/ TimeRequest \/ ScanRequest \/ ListRequest
             \/ RadioDone \/ ConfigureNTP
      PROVE  ResetInv'
  BY <1>1, <1>8 DEF StatusService, RestartRequest, TimeRequest, ScanRequest, ListRequest,
     RadioDone, ConfigureNTP, deviceVars
<1>9. ASSUME LoadFailed \/ PostFailed \/ ScanFailed \/ WiFiChanges \/ NTPSaved \/ OthersScan
             \/ OthersRestart
      PROVE  ResetInv'
  BY <1>1, <1>9 DEF LoadFailed, PostFailed, ScanFailed, WiFiChanges, NTPSaved, OthersScan,
     OthersRestart, deviceVars
<1>10. CASE UNCHANGED allVars
  BY <1>1, <1>10 DEF allVars, deviceVars
<1> QED
  BY <1>2, <1>3, <1>4, <1>5, <1>6, <1>7, <1>8, <1>9, <1>10 DEF PagesNext, Device, Failures

\* A device that runs has all of its settings or none, also when it was reset
\* while somebody else restarted it, unless power failed.
THEOREM ResetTakesAll == PagesSpec => []ResetIsWhole
<1>1. ResetInv => ResetIsWhole
  <2> SUFFICES ASSUME ResetInv, ~powerLost
               PROVE  Cardinality({files[f] : f \in SettingsFiles}) = 1
    BY DEF ResetIsWhole
  <2>1. {files[f] : f \in SettingsFiles} = {files["wifi"]}
    BY DEF ResetInv, SettingsFiles
  <2> QED
    BY <2>1, FS_Singleton
<1>2. PagesSpec => []ResetInv
  BY ResetInitially, ResetNext, PTL DEF PagesSpec
<1> QED
  BY <1>1, <1>2, PTL

LEMMA SyncInitially == PagesInit => SyncInv
BY DEF PagesInit, SyncInv

LEMMA SyncNext == SyncInv /\ [PagesNext]_allVars => SyncInv'
<1> SUFFICES ASSUME SyncInv, [PagesNext]_allVars PROVE SyncInv'
  OBVIOUS
<1>1. CASE UNCHANGED <<wifi, enabled, sntp, pending>>
  BY <1>1 DEF SyncInv
<1>2. ASSUME Down PROVE SyncInv'
  <2>1. sntp' = FALSE /\ wifi' = FALSE
    BY <1>2, Zenon DEF Down
  <2>2. sntp' = (wifi' /\ enabled')
    BY <2>1
  <2> QED
    BY <2>2 DEF SyncInv
<1>3. ASSUME Restart \/ FactoryReset \/ PowerLoss PROVE SyncInv'
  BY <1>2, <1>3 DEF Restart, FactoryReset, PowerLoss
<1>4. CASE ConfigureNTP
  <2>1. sntp' = (wifi /\ enabled) /\ wifi' = wifi /\ enabled' = enabled
    BY <1>4, Zenon DEF ConfigureNTP, configureNTP
  <2>2. sntp' = (wifi' /\ enabled')
    BY <2>1, Zenon
  <2> QED
    BY <2>2 DEF SyncInv
<1>5. ASSUME WiFiChanges \/ NTPSaved PROVE SyncInv'
  <2>1. pending' # {}
    BY <1>5 DEF WiFiChanges, NTPSaved
  <2> QED
    BY <2>1 DEF SyncInv
<1>6. CASE Browser
  BY <1>1, <1>6 DEF Browser, Loaded, PostAnswered, ScanAnswered, Poll, clockVars
<1>7. CASE User
  BY <1>1, <1>7 DEF User, Mount, Refresh, Unmount, OpenDialog, CancelDialog, Submit, ScanAgain,
     clockVars
<1>8. ASSUME StatusService \/ RestartRequest \/ TimeRequest \/ ScanRequest \/ ListRequest
             \/ RadioDone \/ Boot
      PROVE  SyncInv'
  BY <1>1, <1>8 DEF StatusService, RestartRequest, TimeRequest, ScanRequest, ListRequest,
     RadioDone, Boot, clockVars
<1>9. ASSUME LoadFailed \/ PostFailed \/ ScanFailed \/ OthersScan \/ OthersRestart
      PROVE  SyncInv'
  BY <1>1, <1>9 DEF LoadFailed, PostFailed, ScanFailed, OthersScan, OthersRestart, clockVars
<1>10. CASE UNCHANGED allVars
  BY <1>1, <1>10 DEF allVars, clockVars
<1> QED
  BY <1>3, <1>4, <1>5, <1>6, <1>7, <1>8, <1>9, <1>10 DEF PagesNext, Device, Failures

\* Once its callbacks have run, the device asks for the time exactly if NTP is
\* enabled and there is WiFi, in whatever order saves and events came.
THEOREM NTPFollows == PagesSpec => []SyncFollows
<1>1. SyncInv => SyncFollows
  BY DEF SyncInv, SyncFollows
<1>2. PagesSpec => []SyncInv
  BY SyncInitially, SyncNext, PTL DEF PagesSpec
<1> QED
  BY <1>1, <1>2, PTL

-----------------------------------------------------------------------------
(* Pages: the scanner *)

\* What can happen while the scanner is looked at.
LEMMA ScannerSteps ==
  ASSUME page = "scan", ScanInv, [PagesNext]_allVars
  PROVE  \/ Mount \/ Unmount \/ ScanAgain \/ ScanRequest \/ ListRequest \/ ScanAnswered
         \/ ScanFailed \/ Poll \/ RadioDone \/ Down \/ OthersScan
         \/ UNCHANGED <<pageVars, dialogVars, posts, scanVars, radioVars>>
<1>1. reads = {} /\ confirm = {} /\ posts = {}
  BY DEF ScanInv
<1>2. Dialogs = {}
  BY DEF Dialogs
<1>3. ~StatusService /\ ~Loaded /\ ~LoadFailed /\ ~Refresh
  BY <1>1 DEF StatusService, Loaded, LoadFailed, Refresh
<1>4. ~OpenDialog /\ ~CancelDialog /\ ~Submit
  BY <1>1, <1>2 DEF OpenDialog, CancelDialog, Submit
<1>5. ~RestartRequest /\ ~TimeRequest /\ ~PostAnswered /\ ~PostFailed
  BY <1>1 DEF RestartRequest, TimeRequest, PostAnswered, PostFailed
<1>6. Restart \/ FactoryReset \/ PowerLoss => Down
  BY DEF Restart, FactoryReset, PowerLoss
<1>7. Boot \/ ConfigureNTP \/ WiFiChanges \/ NTPSaved \/ OthersRestart \/ UNCHANGED allVars
        => UNCHANGED <<pageVars, dialogVars, posts, scanVars, radioVars>>
  BY DEF Boot, ConfigureNTP, WiFiChanges, NTPSaved, OthersRestart, allVars
<1> QED
  BY <1>3, <1>4, <1>5, <1>6, <1>7 DEF PagesNext, Device, Browser, Failures, User

\* What a scan that is the only one becomes.
LEMMA OneReplaced ==
  ASSUME NEW S, NEW c \in S, \A d, e \in S : d = e, NEW x
  PROVE  S \ {c} = {} /\ (S \ {c}) \cup {x} = {x}
OBVIOUS

LEMMA ScanInitially == PagesInit => ScanInv
BY DEF PagesInit, ScanInv

LEMMA ScanNext ==
  PagesBounded /\ PagesBounded' /\ ScanInv /\ [PagesNext]_allVars => ScanInv'
<1> SUFFICES ASSUME PagesBounded, PagesBounded', ScanInv, [PagesNext]_allVars PROVE ScanInv'
  OBVIOUS
<1>s. page' = page
  BY SamePage DEF allVars
<1>1. CASE page # "scan"
  BY <1>1, <1>s DEF PagesBounded, ScanInv
<1>2. CASE page = "scan"
  <2>b. reads = {} /\ confirm = {} /\ posts = {} /\ \A c, d \in chains : c = d
    BY <1>2 DEF ScanInv
  <2>k. /\ UNCHANGED reads => reads' = {}
        /\ UNCHANGED dialogVars => confirm' = {}
        /\ UNCHANGED posts => posts' = {}
    BY <2>b DEF dialogVars
  <2>1. ASSUME open /\ open' = open, chains = {}, startNetworkScan,
               UNCHANGED <<reads, dialogVars, posts>>
        PROVE  ScanInv'
    <3>1. PICK id : chains' = {[id |-> id, step |-> "scan", answer |-> Undefined]}
      BY <2>1 DEF startNetworkScan
    <3> QED
      BY <2>1, <2>b, <3>1 DEF ScanInv, startNetworkScan, dialogVars
  <2>2. CASE Mount
    <3>1. chains = {} /\ open' /\ startNetworkScan /\ UNCHANGED <<reads, dialogVars, posts>>
      BY <1>2, <2>2 DEF Mount, ScanInv
    <3>2. PICK id : chains' = {[id |-> id, step |-> "scan", answer |-> Undefined]}
      BY <3>1 DEF startNetworkScan
    <3> QED
      BY <2>b, <3>1, <3>2 DEF ScanInv, startNetworkScan, dialogVars
  <2>3. CASE Unmount
    BY <2>b, <2>3 DEF Unmount, ScanInv
  <2>4. CASE ScanAgain
    <3>1. chains = {}
      BY <2>4 DEF ScanAgain, ScanEnabled, ScanInv
    <3> QED
      BY <2>1, <2>4, <3>1 DEF ScanAgain
  <2>5. ASSUME NEW c \in chains, NEW x, chains' = (chains \ {c}) \cup {x},
               UNCHANGED <<open, data, errorMessage, reads, dialogVars, posts>>
        PROVE  ScanInv'
    <3>1. chains' = {x}
      BY <2>b, <2>5, OneReplaced
    <3> QED
      BY <2>5, <2>b, <3>1 DEF ScanInv, dialogVars
  <2>6. CASE ScanRequest
    BY <2>5, <2>6 DEF ScanRequest, pageVars
  <2>7. CASE ListRequest
    BY <2>5, <2>7 DEF ListRequest, pageVars
  <2>8. CASE Poll
    BY <2>5, <2>8 DEF Poll, pageVars
  <2>9. ASSUME NEW c \in chains, chains' = chains \ {c}, UNCHANGED <<reads, dialogVars, posts>>
        PROVE  ScanInv'
    <3>1. chains' = {}
      BY <2>b, <2>9, OneReplaced
    <3> QED
      BY <2>9, <2>b, <3>1 DEF ScanInv, dialogVars
  <2>10. CASE ScanAnswered
    <3>1. PICK c \in chains :
            \/ waiting(c)
            \/ finishedWithError(c)
            \/ chains' = chains \ {c}
      BY <2>10 DEF ScanAnswered, notYet
    <3>2. UNCHANGED <<open, reads, dialogVars, posts>>
      BY <2>10 DEF ScanAnswered
    <3> QED
      BY <2>5, <2>9, <3>1, <3>2 DEF waiting, finishedWithError
  <2>11. CASE ScanFailed
    BY <2>9, <2>11 DEF ScanFailed, finishedWithError
  <2>12. CASE Down
    <3>1. reads' = {} /\ posts' = {} /\ UNCHANGED <<open, data, errorMessage, dialogVars>>
      BY <2>b, <2>12 DEF Down
    <3>2. \A c, d \in chains' : c = d
      BY <2>b, <2>12 DEF Down
    <3>3. chains' # {} => chains # {}
      BY <2>12 DEF Down
    <3> QED
      BY <2>b, <3>1, <3>2, <3>3 DEF ScanInv, dialogVars
  <2>13. CASE UNCHANGED <<pageVars, dialogVars, posts, chains>>
    BY <2>b, <2>13 DEF ScanInv, pageVars, dialogVars
  <2>14. ASSUME RadioDone \/ OthersScan PROVE ScanInv'
    BY <2>13, <2>14 DEF RadioDone, OthersScan, scanVars
  <2> QED
    BY <1>2, <2>2, <2>3, <2>4, <2>6, <2>7, <2>8, <2>10, <2>11, <2>12, <2>13, <2>14, ScannerSteps
    DEF scanVars
<1> QED
  BY <1>1, <1>2

\* The page never polls twice at a time: one count of polls is enough.
THEOREM NeverTwoScans == PagesSpec => []OneScan
<1>1. ScanInv => OneScan
  <2> SUFFICES ASSUME ScanInv PROVE Cardinality(chains) <= 1
    BY DEF OneScan
  <2>1. CASE chains = {}
    <3>1. Cardinality(chains) = 0
      BY <2>1, FS_EmptySet
    <3> QED
      BY <3>1
  <2>2. CASE chains # {}
    <3>1. PICK c : chains = {c}
      BY <2>2 DEF ScanInv
    <3>2. Cardinality(chains) = 1
      BY <3>1, FS_Singleton
    <3> QED
      BY <3>2
  <2> QED
    BY <2>1, <2>2
<1>2. PagesSpec => [](PagesBounded /\ ScanInv)
  BY PagesInitBounded, PagesNextBounded, ScanInitially, ScanNext, PTL DEF PagesSpec
<1> QED
  BY <1>1, <1>2, PTL

LEMMA ListInitially == PagesInit => ListInv
BY DEF PagesInit, ListInv, ListIsCurrent

LEMMA ListNext ==
  PagesBounded /\ PagesBounded' /\ ScanInv /\ ListInv /\ [PagesNext]_allVars => ListInv'
<1> SUFFICES ASSUME PagesBounded, PagesBounded', ScanInv, ListInv, [PagesNext]_allVars
             PROVE  ListInv'
  OBVIOUS
<1>s. page' = page
  BY SamePage DEF allVars
<1>a. Undefined \notin Networks /\ Lost \notin Networks /\ Accepted \notin Networks
      /\ Undefined # Accepted /\ Lost # Accepted
  BY AnswersAssumption
<1>1. CASE page # "scan"
  BY <1>1, <1>s DEF PagesBounded, ListInv, ListIsCurrent
<1>2. CASE page = "scan"
  <2>t. chains \subseteq Scan /\ radio \in {"none", "running", "done"} /\ fresh \in BOOLEAN
    BY DEF PagesBounded, PagesTypeOK, Scan
  <2>o. \A c \in chains : chains \ {c} = {}
    BY DEF ScanInv
  <2>e. \A c \in chains : \A x : (chains \ {c}) \cup {x} = {x}
    BY <2>o
  <2>l. /\ data # Undefined => data.fresh
        /\ \A c \in chains : (c.step # "scan" \/ c.answer = Accepted) /\ radio = "done" => fresh
        /\ \A c \in chains : c.answer \in Networks => c.answer.fresh
    BY <1>2 DEF ListInv, ListIsCurrent
  <2>1. ASSUME startNetworkScan, chains = {} PROVE ListInv'
    <3>1. PICK id : chains' = {[id |-> id, step |-> "scan", answer |-> Undefined]}
      BY <2>1 DEF startNetworkScan
    <3>2. data' = Undefined
      BY <2>1 DEF startNetworkScan
    <3> QED
      BY <1>a, <3>1, <3>2 DEF ListInv, ListIsCurrent
  <2>2. CASE Mount
    BY <1>2, <2>1, <2>2 DEF Mount, ScanInv
  <2>3. CASE Unmount
    BY <2>3 DEF Unmount, ListInv, ListIsCurrent
  <2>4. CASE ScanAgain
    BY <2>1, <2>4 DEF ScanAgain, ScanEnabled, ScanInv
  <2>5. CASE ScanRequest
    <3>1. PICK c \in chains : chains' = {[c EXCEPT !.answer = Accepted]}
      BY <2>5, <2>e DEF ScanRequest
    <3>2. radio' # "done" /\ data' = data
      BY <2>5, <2>t DEF ScanRequest, scanNetworks, pageVars
    <3>3. [c EXCEPT !.answer = Accepted].answer = Accepted
      BY <2>t DEF Scan
    <3> QED
      BY <1>a, <2>l, <3>1, <3>2, <3>3 DEF ListInv, ListIsCurrent
  <2>6. CASE ListRequest
    <3>1. PICK c \in chains :
            /\ c.step = "poll"
            /\ \/ /\ radio = "done" /\ UNCHANGED radio
                  /\ \E count \in {0, 1} :
                        chains' = {[c EXCEPT !.answer = [count |-> count, fresh |-> fresh]]}
               \/ /\ radio # "done"
                  /\ IF radio = "running" THEN UNCHANGED radio ELSE scanNetworks
                  /\ chains' = {[c EXCEPT !.answer = Accepted]}
      BY <2>6, <2>e DEF ListRequest
    <3>2. data' = data /\ fresh' = fresh /\ c \in Scan
      BY <2>6, <2>t DEF ListRequest, pageVars
    <3>3. CASE radio = "done"
      <4>1. PICK count \in {0, 1} :
              chains' = {[c EXCEPT !.answer = [count |-> count, fresh |-> fresh]]}
        BY <3>1, <3>3
      <4>2. fresh
        BY <2>l, <3>1, <3>3
      <4>3. \A d \in chains' : d.answer.fresh = fresh
        BY <3>2, <4>1 DEF Scan
      <4> QED
        BY <2>l, <3>2, <4>2, <4>3 DEF ListInv, ListIsCurrent
    <3>4. CASE radio # "done"
      <4>1. radio' # "done"
        BY <3>1, <3>4, <2>t DEF scanNetworks
      <4>2. \A d \in chains' : d.answer = Accepted
        BY <3>1, <3>2, <3>4 DEF Scan
      <4> QED
        BY <1>a, <2>l, <3>2, <4>1, <4>2 DEF ListInv, ListIsCurrent
    <3> QED
      BY <3>3, <3>4
  <2>7. CASE ScanAnswered
    <3>1. PICK c \in chains :
            \/ c.answer = Accepted /\ waiting(c)
            \/ finishedWithError(c)
            \/ c.answer \in Networks /\ data' = c.answer /\ chains' = chains \ {c}
      BY <2>7 DEF ScanAnswered, notYet
    <3>2. radio' = radio /\ fresh' = fresh /\ c \in Scan
      BY <2>7, <2>t DEF ScanAnswered, radioVars
    <3>3. CASE c.answer = Accepted /\ waiting(c)
      <4>1. chains' = {[c EXCEPT !.step = "wait", !.answer = Undefined]} /\ data' = data
        BY <2>e, <3>3 DEF waiting
      <4>2. \A d \in chains' : d.answer = Undefined
        BY <3>2, <4>1 DEF Scan
      <4>3. radio' = "done" => fresh'
        BY <2>l, <3>2, <3>3
      <4> QED
        BY <1>a, <2>l, <4>1, <4>2, <4>3 DEF ListInv, ListIsCurrent
    <3>4. CASE finishedWithError(c)
      <4>1. chains' = {} /\ data' = Undefined
        BY <2>o, <3>4 DEF finishedWithError
      <4> QED
        BY <4>1 DEF ListInv, ListIsCurrent
    <3>5. CASE c.answer \in Networks /\ data' = c.answer /\ chains' = chains \ {c}
      <4>1. chains' = {} /\ data'.fresh
        BY <2>l, <2>o, <3>5
      <4> QED
        BY <4>1 DEF ListInv, ListIsCurrent
    <3> QED
      BY <3>1, <3>3, <3>4, <3>5
  <2>8. CASE ScanFailed
    <3>1. chains' = {} /\ data' = Undefined
      BY <2>8, <2>o DEF ScanFailed, finishedWithError
    <3> QED
      BY <3>1 DEF ListInv, ListIsCurrent
  <2>9. CASE Poll
    <3>1. PICK c \in chains : c.step = "wait" /\ chains' = {[c EXCEPT !.step = "poll"]}
      BY <2>9, <2>e DEF Poll
    <3>2. UNCHANGED <<data, radio, fresh>> /\ c \in Scan
      BY <2>9, <2>t DEF Poll, pageVars, radioVars
    <3>3. \A d \in chains' : d.answer = c.answer
      BY <3>1, <3>2 DEF Scan
    <3>4. radio' = "done" => fresh'
      BY <2>l, <3>1, <3>2
    <3> QED
      BY <2>l, <3>2, <3>3, <3>4 DEF ListInv, ListIsCurrent
  <2>10. CASE RadioDone
    <3>1. radio' = "done" => fresh'
      BY <2>10 DEF RadioDone
    <3>2. UNCHANGED <<data, chains>>
      BY <2>10 DEF RadioDone, pageVars, scanVars
    <3> QED
      BY <2>l, <3>1, <3>2 DEF ListInv, ListIsCurrent
  <2>11. CASE Down
    <3>1. radio' = "none" /\ data' = data
      BY <2>11 DEF Down
    <3>2. \A d \in chains' : d \in chains \/ d.answer = Lost
      BY <2>11, <2>t DEF Down, Scan
    <3> QED
      BY <1>a, <2>l, <3>1, <3>2 DEF ListInv, ListIsCurrent
  <2>12. CASE OthersScan
    <3>1. radio' # "done" /\ UNCHANGED <<data, chains>>
      BY <2>12, <2>t DEF OthersScan, scanNetworks, pageVars, scanVars
    <3> QED
      BY <2>l, <3>1 DEF ListInv, ListIsCurrent
  <2>13. CASE UNCHANGED <<pageVars, dialogVars, posts, scanVars, radioVars>>
    <3>1. UNCHANGED <<data, chains, radio, fresh>>
      BY <2>13 DEF pageVars, scanVars, radioVars
    <3> QED
      BY <2>l, <3>1 DEF ListInv, ListIsCurrent
  <2> QED
    BY <1>2, <2>2, <2>3, <2>4, <2>5, <2>6, <2>7, <2>8, <2>9, <2>10, <2>11, <2>12, <2>13,
       ScannerSteps
<1> QED
  BY <1>1, <1>2

\* The list of the scanner was found after the page had asked for it, whoever
\* else scanned or restarted the device.
THEOREM ListFoundSince == PagesSpec => []ListIsCurrent
<1>1. ListInv => ListIsCurrent
  BY DEF ListInv
<1>2. PagesSpec => [](PagesBounded /\ ScanInv /\ ListInv)
  BY PagesInitBounded, PagesNextBounded, ScanInitially, ScanNext, ListInitially, ListNext, PTL
     DEF PagesSpec
<1> QED
  BY <1>1, <1>2, PTL

================================================================================
