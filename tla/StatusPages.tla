----------------------------- MODULE StatusPages -----------------------------
(***************************************************************************)
(* The pages that show what the device does, and the device behind them:   *)
(* loading a status, the dialogs that restart or reset the device or set   *)
(* its time, and the network scanner that polls for its list.  One page is *)
(* looked at; others use the device too.  A callback of the device and a   *)
(* commit of a page are steps: both run on one task.                       *)
(***************************************************************************)
EXTENDS StatusRows, Naturals, FiniteSets

CONSTANTS
    Pages,          \* the pages that are looked at
    NUM_POLLS,      \* how often the scanner asks for the list
    Hours,          \* local times that users enter
    Summer,         \* the hours (UTC) of daylight saving time
    MaxReads,       \* bound on requests of a status at a time; one more after the time was set
    MaxPosts,       \* bound on requests of the dialogs at a time
    MaxChanges,     \* bound on what happens to the device from elsewhere
    Undefined,      \* no data, no answer
    Lost,           \* what comes instead of an answer
    Accepted        \* status 202: the list is not there yet

Statuses == {"wifi", "ap", "mqtt", "ntp", "system"}

ASSUME PagesAssumption == Pages \subseteq Statuses \cup {"scan"}
ASSUME PollsAssumption == NUM_POLLS \in Nat \ {0}
ASSUME HoursAssumption == Hours \subseteq Nat /\ Summer \subseteq Nat
ASSUME LimitsAssumption == MaxReads \in Nat /\ MaxPosts \in Nat /\ MaxChanges \in Nat

VARIABLES
    page,           \* which page it is
    admin,          \* me.admin
    open,           \* the page is mounted
    data,           \* data of useRest, or networkList of the scanner
    errorMessage,   \* whether there is one
    reads,          \* requests of the status that the page awaits
    confirm,        \* the dialogs that are open: confirmRestart, ..., settingTime
    processing,     \* whether the page waits for the answer to a dialog
    posts,          \* requests of the dialogs
    chains,         \* scans of the page that have not come to an end
    pollCount,      \* of the scanner
    up,             \* the device runs
    doomed,         \* requests to restart or reset whose clients are still connected
    files,          \* the settings files: the user's, gone, or the defaults
    powerLost,      \* history: power has failed
    wifi,           \* WiFi.isConnected()
    enabled,        \* enabled of the NTP settings
    sntp,           \* sntp_enabled()
    pending,        \* callbacks that call configureNTP()
    clock,          \* what was entered when the time was set, and what is local time then
    radio,          \* the scan of the WiFi library: "none", "running", "done"
    fresh,          \* history: the networks were found since the page asked for a scan
    changes         \* how much has happened from elsewhere

pageVars == <<open, data, errorMessage, reads>>
dialogVars == <<confirm, processing>>
scanVars == <<chains, pollCount>>
deviceVars == <<up, doomed, files, powerLost>>
clockVars == <<wifi, enabled, sntp, pending, clock>>
radioVars == <<radio, fresh>>
allVars == <<page, admin, pageVars, dialogVars, posts, scanVars, deviceVars, clockVars, radioVars,
             changes>>

-----------------------------------------------------------------------------
(* Answers, requests and times *)

Networks == [count : {0, 1}, fresh : BOOLEAN]

\* What the service of the page may have answered, and what it answers now.
PageAnswers ==
    CASE page = "wifi" -> wifiStatus [] page = "ap" -> apStatus [] page = "mqtt" -> mqttStatus
      [] page = "ntp" -> ntpStatus(TRUE) \cup ntpStatus(FALSE) [] page = "system" -> systemStatus
      [] OTHER -> {}
Answers == IF page = "ntp" THEN ntpStatus(sntp) ELSE PageAnswers

AllAnswers == wifiStatus \cup apStatus \cup mqttStatus \cup systemStatus
              \cup ntpStatus(TRUE) \cup ntpStatus(FALSE)
ASSUME AnswersAssumption ==
    /\ \A v \in {Undefined, Lost, Accepted} : v \notin AllAnswers \cup Networks
    /\ Undefined # Lost /\ Undefined # Accepted /\ Lost # Accepted

SettingsFiles == {"wifi", "security"}

\* The clock changes at the first hour of summer: the next one does not exist.
localtime(utc) == IF utc \in Summer THEN utc + 1 ELSE utc

\* tm_isdst is 0: mktime() takes any time for standard time.
mktime(local) == local

\* formatLocalDateTime(new Date(entered)), in a browser of the same zone.
formatLocalDateTime(entered) ==
    IF entered \in Summer /\ entered > 0 /\ entered - 1 \notin Summer THEN entered + 1 ELSE entered

PagesTypeOK ==
    /\ page \in Pages
    /\ admin \in BOOLEAN /\ open \in BOOLEAN /\ errorMessage \in BOOLEAN
    /\ processing \in BOOLEAN /\ up \in BOOLEAN /\ powerLost \in BOOLEAN
    /\ wifi \in BOOLEAN /\ enabled \in BOOLEAN /\ sntp \in BOOLEAN /\ fresh \in BOOLEAN
    /\ data \in {Undefined} \cup (IF page = "scan" THEN Networks ELSE PageAnswers)
    /\ reads \subseteq [id : 1..(MaxReads + 1), answer : PageAnswers \cup {Undefined, Lost}]
    /\ confirm \subseteq {"restart", "reset", "time"}
    /\ posts \subseteq [id : 1..MaxPosts, op : {"restart", "reset", "time"}, entered : Hours \cup {0},
                        answer : {Undefined, 200, 400, Lost}, here : BOOLEAN]
    /\ chains \subseteq [id : 1..(MaxReads + 1), step : {"scan", "wait", "poll"},
                         answer : Networks \cup {Undefined, Lost, Accepted}]
    /\ pollCount \in 0..(NUM_POLLS - 1)
    /\ doomed \subseteq {"restart", "reset"}
    /\ files \in [SettingsFiles -> {"user", "gone", "factory"}]
    /\ pending \subseteq {"gotIP", "disconnected", "saved"}
    /\ clock \in {Undefined} \cup [entered : Nat, shown : Nat]
    /\ radio \in {"none", "running", "done"}
    /\ changes \in 0..MaxChanges

\* What a page does not look at starts in one state.
PagesInit ==
    /\ page \in Pages /\ admin \in BOOLEAN
    /\ page = "scan" => admin
    /\ open = FALSE /\ data = Undefined /\ errorMessage = FALSE /\ reads = {}
    /\ confirm = {} /\ processing = FALSE /\ posts = {}
    /\ chains = {} /\ pollCount = 0
    /\ up = TRUE /\ doomed = {} /\ files = [f \in SettingsFiles |-> "user"] /\ powerLost = FALSE
    /\ wifi = FALSE /\ sntp = FALSE /\ pending = {} /\ clock = Undefined
    /\ enabled \in IF page = "ntp" THEN BOOLEAN ELSE {FALSE}
    /\ radio \in IF page = "scan" THEN {"none", "done"} ELSE {"none"}
    /\ fresh = FALSE
    /\ changes = 0

-----------------------------------------------------------------------------
(* Loading *)

loadData ==
    /\ data' = Undefined /\ errorMessage' = FALSE
    /\ \E id \in 1..(MaxReads + 1) :
        /\ \A r \in reads : r.id # id
        /\ reads' = reads \cup {[id |-> id, answer |-> Undefined]}

startNetworkScan ==
    /\ pollCount' = 0 /\ data' = Undefined /\ errorMessage' = FALSE
    /\ \E id \in 1..(MaxReads + 1) :
        /\ \A c \in chains : c.id # id
        /\ chains' = chains \cup {[id |-> id, step |-> "scan", answer |-> Undefined]}
    /\ fresh' = FALSE

DialogShown(op) == open /\ data # Undefined /\ op \in confirm
AnyDialog == \E op \in confirm : DialogShown(op)

Mount ==
    /\ ~open /\ open' = TRUE
    /\ IF page = "scan"
       THEN startNetworkScan /\ UNCHANGED reads
       ELSE loadData /\ UNCHANGED <<scanVars, fresh>>
    /\ UNCHANGED <<page, admin, dialogVars, posts, deviceVars, clockVars, radio, changes>>

\* The button of FormLoader, or "Refresh".
Refresh ==
    /\ open /\ page # "scan" /\ ~AnyDialog
    /\ data # Undefined \/ errorMessage
    /\ Cardinality(reads) < MaxReads
    /\ loadData
    /\ UNCHANGED <<page, admin, open, dialogVars, posts, scanVars, deviceVars, clockVars,
                   radioVars, changes>>

StatusService ==
    /\ up /\ \E r \in reads : \E answer \in Answers :
        /\ r.answer = Undefined
        /\ reads' = (reads \ {r}) \cup {[r EXCEPT !.answer = answer]}
    /\ UNCHANGED <<page, admin, open, data, errorMessage, dialogVars, posts, scanVars, deviceVars,
                   clockVars, radioVars, changes>>

Loaded ==
    /\ \E r \in reads :
        /\ r.answer \in AllAnswers
        /\ data' = r.answer /\ reads' = reads \ {r}
    /\ UNCHANGED <<page, admin, open, errorMessage, dialogVars, posts, scanVars, deviceVars,
                   clockVars, radioVars, changes>>

\* The request or its answer is lost.
LoadFailed ==
    /\ \E r \in reads : reads' = reads \ {r}
    /\ errorMessage' = TRUE
    /\ UNCHANGED <<page, admin, open, data, dialogVars, posts, scanVars, deviceVars, clockVars,
                   radioVars, changes>>

\* Callbacks of a page that is gone change nothing that is seen.
Unmount ==
    /\ open /\ open' = FALSE
    /\ data' = Undefined /\ errorMessage' = FALSE /\ reads' = {} /\ confirm' = {}
    /\ processing' = FALSE /\ chains' = {} /\ pollCount' = 0
    /\ posts' = {[p EXCEPT !.here = FALSE] : p \in {q \in posts : q.answer = Undefined}}
    /\ UNCHANGED <<page, admin, deviceVars, clockVars, radioVars, changes>>

-----------------------------------------------------------------------------
(* Dialogs *)

Dialogs ==
    CASE page = "system" -> {"restart", "reset"}
      [] page = "ntp" -> IF isNtpActive(data) THEN {} ELSE {"time"}
      [] OTHER -> {}

\* setConfirmRestart(true), setConfirmFactoryReset(true), openSetTime()
OpenDialog ==
    /\ open /\ data # Undefined /\ admin /\ ~AnyDialog
    /\ \E op \in Dialogs : confirm' = confirm \cup {op}
    /\ UNCHANGED <<page, admin, pageVars, processing, posts, scanVars, deviceVars, clockVars,
                   radioVars, changes>>

\* Also while the request is under way.
CancelDialog ==
    /\ \E op \in confirm : DialogShown(op) /\ confirm' = confirm \ {op}
    /\ UNCHANGED <<page, admin, pageVars, processing, posts, scanVars, deviceVars, clockVars,
                   radioVars, changes>>

\* restart(), factoryReset(), configureTime()
Submit ==
    /\ ~processing /\ processing' = TRUE
    /\ \E op \in confirm, id \in 1..MaxPosts :
        /\ DialogShown(op)
        /\ \A p \in posts : p.id # id
        /\ \E entered \in IF op = "time" THEN Hours ELSE {0} :
            posts' = posts \cup {[id |-> id, op |-> op, entered |-> entered,
                                  answer |-> Undefined, here |-> TRUE]}
    /\ UNCHANGED <<page, admin, pageVars, confirm, scanVars, deviceVars, clockVars, radioVars,
                   changes>>

\* RestartService::restart(), FactoryResetService::handleRequest()
RestartRequest ==
    /\ up /\ \E p \in posts :
        /\ p.op \in {"restart", "reset"} /\ p.answer = Undefined
        /\ doomed' = doomed \cup {p.op}
        /\ posts' = (posts \ {p}) \cup (IF p.here THEN {[p EXCEPT !.answer = 200]} ELSE {})
    /\ UNCHANGED <<page, admin, pageVars, dialogVars, scanVars, up, files, powerLost, clockVars,
                   radioVars, changes>>

\* NTPSettingsService::configureTime()
TimeRequest ==
    /\ up /\ \E p \in posts :
        /\ p.op = "time" /\ p.answer = Undefined
        /\ clock' = IF sntp THEN clock
                    ELSE [entered |-> p.entered,
                          shown |-> localtime(mktime(formatLocalDateTime(p.entered)))]
        /\ posts' = (posts \ {p})
                    \cup (IF p.here THEN {[p EXCEPT !.answer = IF sntp THEN 400 ELSE 200]} ELSE {})
    /\ UNCHANGED <<page, admin, pageVars, dialogVars, scanVars, deviceVars, wifi, enabled, sntp,
                   pending, radioVars, changes>>

\* Wrong on purpose: only a success ends the processing.
AnsweredProcessing(p, ok) ==
    /\ confirm' = IF p.op = "time" /\ ~ok THEN confirm ELSE confirm \ {p.op}
    /\ processing' = (processing /\ ~ok)

\* The end of restart() and factoryReset() closes their dialog, that of
\* configureTime() only after a success; all end the processing.
Answered(p, ok) ==
    /\ confirm' = IF p.op = "time" /\ ~ok THEN confirm ELSE confirm \ {p.op}
    /\ processing' = FALSE

PostAnswered ==
    /\ \E p \in posts :
        /\ p.here /\ p.answer # Undefined
        /\ Answered(p, p.answer = 200)
        /\ posts' = posts \ {p}
        /\ IF p.op = "time" /\ p.answer = 200
           THEN loadData
           ELSE UNCHANGED <<data, errorMessage, reads>>
    /\ UNCHANGED <<page, admin, open, scanVars, deviceVars, clockVars, radioVars, changes>>

PostFailed ==
    /\ \E p \in posts :
        /\ IF p.here THEN Answered(p, FALSE) ELSE UNCHANGED dialogVars
        /\ posts' = posts \ {p}
    /\ UNCHANGED <<page, admin, pageVars, scanVars, deviceVars, clockVars, radioVars, changes>>

-----------------------------------------------------------------------------
(* The network scanner *)

\* Wrong on purpose: the button is always enabled.
ScanEnabledAlways == open

\* The button, which is disabled until there is a list or an error.
ScanEnabled == errorMessage \/ data # Undefined

ScanAgain ==
    /\ open /\ page = "scan" /\ ScanEnabled
    /\ startNetworkScan
    /\ UNCHANGED <<page, admin, open, reads, dialogVars, posts, deviceVars, clockVars, radio,
                   changes>>

\* Wrong on purpose: what was found before is kept.
scanNetworksKeeping == radio' \in IF radio = "none" THEN {"running", "none"} ELSE {radio}

\* WiFiScanner::scanNetworks(): to start a scan may fail.
scanNetworks == radio' \in IF radio = "running" THEN {radio} ELSE {"running", "none"}

ScanRequest ==
    /\ up /\ \E c \in chains :
        /\ c.step = "scan" /\ c.answer = Undefined
        /\ scanNetworks
        /\ chains' = (chains \ {c}) \cup {[c EXCEPT !.answer = Accepted]}
    /\ UNCHANGED <<page, admin, pageVars, dialogVars, posts, pollCount, deviceVars, clockVars,
                   fresh, changes>>

\* WiFiScanner::listNetworks()
ListRequest ==
    /\ up /\ \E c \in chains :
        /\ c.step = "poll" /\ c.answer = Undefined
        /\ \/ /\ radio = "done" /\ UNCHANGED radio
              /\ \E count \in {0, 1} :
                    chains' = (chains \ {c})
                              \cup {[c EXCEPT !.answer = [count |-> count, fresh |-> fresh]]}
           \/ /\ radio # "done"
              /\ IF radio = "running" THEN UNCHANGED radio ELSE scanNetworks
              /\ chains' = (chains \ {c}) \cup {[c EXCEPT !.answer = Accepted]}
    /\ UNCHANGED <<page, admin, pageVars, dialogVars, posts, pollCount, deviceVars, clockVars,
                   fresh, changes>>

finishedWithError(c) ==
    /\ chains' = chains \ {c}
    /\ data' = Undefined /\ errorMessage' = TRUE /\ UNCHANGED pollCount

waiting(c) ==
    /\ chains' = (chains \ {c}) \cup {[c EXCEPT !.step = "wait", !.answer = Undefined]}
    /\ UNCHANGED <<data, errorMessage>>

\* Status 202, for the last time or not.
notYet(c) ==
    IF pollCount + 1 < NUM_POLLS
    THEN waiting(c) /\ pollCount' = pollCount + 1
    ELSE finishedWithError(c)

\* startNetworkScan() and pollNetworkList() go on with the answer.
ScanAnswered ==
    /\ \E c \in chains :
        \/ c.answer = Accepted /\ c.step = "scan" /\ waiting(c) /\ UNCHANGED pollCount
        \/ c.answer = Accepted /\ c.step = "poll" /\ notYet(c)
        \/ /\ c.answer \in Networks
           /\ data' = c.answer /\ chains' = chains \ {c} /\ UNCHANGED <<errorMessage, pollCount>>
    /\ UNCHANGED <<page, admin, open, reads, dialogVars, posts, deviceVars, clockVars, radioVars,
                   changes>>

ScanFailed ==
    /\ \E c \in chains : c.step # "wait" /\ finishedWithError(c)
    /\ UNCHANGED <<page, admin, open, reads, dialogVars, posts, deviceVars, clockVars, radioVars,
                   changes>>

\* After POLLING_FREQUENCY.
Poll ==
    /\ \E c \in chains :
        /\ c.step = "wait"
        /\ chains' = (chains \ {c}) \cup {[c EXCEPT !.step = "poll"]}
    /\ UNCHANGED <<page, admin, pageVars, dialogVars, posts, pollCount, deviceVars, clockVars,
                   radioVars, changes>>

\* The scan finds networks, or breaks off.
RadioDone ==
    /\ up /\ radio = "running"
    /\ \/ radio' = "done" /\ fresh' = TRUE
       \/ radio' = "none" /\ UNCHANGED fresh
    /\ UNCHANGED <<page, admin, pageVars, dialogVars, posts, scanVars, deviceVars, clockVars,
                   changes>>

-----------------------------------------------------------------------------
(* The device *)

\* Requests that are not answered are lost with the device that had them.
Down ==
    /\ up' = FALSE /\ doomed' = {}
    /\ reads' = {IF r.answer = Undefined THEN [r EXCEPT !.answer = Lost] ELSE r : r \in reads}
    /\ posts' = {IF p.answer = Undefined THEN [p EXCEPT !.answer = Lost] ELSE p :
                    p \in {q \in posts : q.here \/ q.answer # Undefined}}
    /\ chains' = {IF c.answer = Undefined /\ c.step # "wait" THEN [c EXCEPT !.answer = Lost] ELSE c :
                    c \in chains}
    /\ wifi' = FALSE /\ sntp' = FALSE /\ pending' = {} /\ clock' = Undefined
    /\ radio' = "none"
    /\ UNCHANGED <<page, admin, open, data, errorMessage, dialogVars, pollCount, enabled, fresh>>

\* restartNow(), called when the client of the request disconnects.
Restart ==
    /\ "restart" \in doomed
    /\ Down
    /\ UNCHANGED <<files, powerLost, changes>>

\* Wrong on purpose: one file is removed before the restart.
factoryResetFirst ==
    \E f \in SettingsFiles : files' = [files EXCEPT ![f] = "gone"]

factoryReset == files' = [f \in SettingsFiles |-> "gone"]

FactoryReset ==
    /\ "reset" \in doomed
    /\ factoryReset
    /\ Down
    /\ UNCHANGED <<powerLost, changes>>

\* Power fails: while factoryReset() runs, some files are removed already.
PowerLoss ==
    /\ up /\ changes < MaxChanges /\ changes' = changes + 1
    /\ \E removed \in IF "reset" \in doomed THEN SUBSET SettingsFiles ELSE {{}} :
        files' = [f \in SettingsFiles |-> IF f \in removed THEN "gone" ELSE files[f]]
    /\ powerLost' = TRUE
    /\ Down

\* begin() of the services: what has no file gets defaults and a file.
Boot ==
    /\ ~up /\ up' = TRUE
    /\ files' = [f \in SettingsFiles |-> IF files[f] = "gone" THEN "factory" ELSE files[f]]
    /\ UNCHANGED <<page, admin, pageVars, dialogVars, posts, scanVars, doomed, powerLost, clockVars,
                   radioVars, changes>>

\* Wrong on purpose: NTP is only started.
configureNTPStart == sntp' = (sntp \/ (wifi /\ enabled))

configureNTP == sntp' = (wifi /\ enabled)

\* A time that NTP brings replaces the one that was set.
ConfigureNTP ==
    /\ up /\ \E e \in pending : pending' = pending \ {e}
    /\ configureNTP
    /\ clock' = IF sntp' THEN Undefined ELSE clock
    /\ UNCHANGED <<page, admin, pageVars, dialogVars, posts, scanVars, deviceVars, wifi, enabled,
                   radioVars, changes>>

\* The WiFi library delivers an event for each change.
WiFiChanges ==
    /\ up /\ changes < MaxChanges /\ changes' = changes + 1
    /\ wifi' = ~wifi
    /\ pending' = pending \cup {IF wifi THEN "disconnected" ELSE "gotIP"}
    /\ UNCHANGED <<page, admin, pageVars, dialogVars, posts, scanVars, deviceVars, enabled, sntp,
                   clock, radioVars>>

\* Somebody saves the NTP settings: the handler runs later.
NTPSaved ==
    /\ up /\ changes < MaxChanges /\ changes' = changes + 1
    /\ enabled' = ~enabled /\ pending' = pending \cup {"saved"}
    /\ UNCHANGED <<page, admin, pageVars, dialogVars, posts, scanVars, deviceVars, wifi, sntp,
                   clock, radioVars>>

OthersScan ==
    /\ up /\ changes < MaxChanges /\ changes' = changes + 1
    /\ scanNetworks
    /\ UNCHANGED <<page, admin, pageVars, dialogVars, posts, scanVars, deviceVars, clockVars, fresh>>

OthersRestart ==
    /\ up /\ changes < MaxChanges /\ changes' = changes + 1
    /\ doomed' = doomed \cup {"restart"}
    /\ UNCHANGED <<page, admin, pageVars, dialogVars, posts, scanVars, up, files, powerLost,
                   clockVars, radioVars>>

Device ==
    \/ StatusService \/ RestartRequest \/ TimeRequest \/ ScanRequest \/ ListRequest
    \/ RadioDone \/ Restart \/ FactoryReset \/ Boot \/ ConfigureNTP
Browser == Loaded \/ PostAnswered \/ ScanAnswered \/ Poll
Failures ==
    \/ LoadFailed \/ PostFailed \/ ScanFailed \/ PowerLoss
    \/ WiFiChanges \/ NTPSaved \/ OthersScan \/ OthersRestart
User == Mount \/ Refresh \/ Unmount \/ OpenDialog \/ CancelDialog \/ Submit \/ ScanAgain

PagesNext == Device \/ Browser \/ Failures \/ User

\* Every task of the device goes on, and the browser gets an answer or gives up.
PagesFairness ==
    /\ WF_allVars(StatusService) /\ WF_allVars(RestartRequest \/ TimeRequest)
    /\ WF_allVars(ScanRequest \/ ListRequest) /\ WF_allVars(RadioDone) /\ WF_allVars(Boot)
    /\ WF_allVars(Loaded) /\ WF_allVars(PostAnswered) /\ WF_allVars(ScanAnswered) /\ WF_allVars(Poll)
    /\ WF_allVars(LoadFailed /\ \E r \in reads : r.answer = Lost)
    /\ WF_allVars(ScanFailed /\ \E c \in chains : c.answer = Lost)

PagesSpec == PagesInit /\ [][PagesNext]_allVars /\ PagesFairness

-----------------------------------------------------------------------------
(* Properties *)

\* What the rows of a page show has come with the answer of the device,
\* whatever the device, and a status in the colour of success has its details.
RowsAgree ==
    page \in Statuses /\ data # Undefined =>
        /\ Rows(page, data) \subseteq data.keys
        /\ Highlight(page, data) = "success" => Details(page) \subseteq Rows(page, data)

\* A device that runs has all of its settings or none, also when it was reset
\* while somebody else restarted it, unless power failed.
ResetIsWhole ==
    up /\ ~powerLost => Cardinality({files[f] : f \in SettingsFiles}) = 1

\* Once its callbacks have run, the device asks for the time exactly if NTP is
\* enabled and there is WiFi, in whatever order saves and events came.
SyncFollows == up /\ pending = {} => sntp = (wifi /\ enabled)

\* The list of the scanner was found after the page had asked for it, whoever
\* else scanned or restarted the device.
ListIsCurrent == page = "scan" /\ data # Undefined => data.fresh

\* The page never polls twice at a time: one count of polls is enough.
OneScan == Cardinality(chains) <= 1

\* Loading, dialogs and scans come to an end, also when the device restarts.
PagesSettle ==
    /\ (open /\ page # "scan" /\ data = Undefined /\ ~errorMessage)
       ~> (~open \/ data # Undefined \/ errorMessage)
    /\ processing ~> ~processing
    /\ (open /\ page = "scan" /\ ~ScanEnabled) ~> (~open \/ ScanEnabled)

\* The dialog says "Enter local date and time below to set the device's time."
TimeAsEntered ==
    clock # Undefined => clock.shown = formatLocalDateTime(clock.entered)

=============================================================================
