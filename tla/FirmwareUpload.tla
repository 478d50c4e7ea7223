-------------------------- MODULE FirmwareUpload --------------------------
(***************************************************************************)
(* UploadFirmwareService and RestartService, the Update object they drive, *)
(* and the page that uploads a firmware and then watches the restart.      *)
(* Requests are handled by one task; every request has one disconnect      *)
(* callback, which a later onDisconnect() replaces.                        *)
(***************************************************************************)
EXTENDS Naturals, Sequences

CONSTANTS
    Requests,       \* requests the device can hold at a time
    Chunks,         \* calls of handleUpload() that a firmware image takes
    ESP32,          \* a failed write ends the update; on the ESP8266 it stays in error
    Overlapping,    \* TRUE when the page uploads again before the device has
                    \* seen the end of the former upload
    MaxRequests,    \* bound on the requests
    None            \* the page awaits no answer

ASSUME ChunksAssumption == Chunks \in Nat \ {0}
ASSUME RequestsAssumption == None \notin Requests /\ MaxRequests \in Nat
ASSUME PlatformAssumption == ESP32 \in BOOLEAN /\ Overlapping \in BOOLEAN

VARIABLES
    request,        \* request[r]: what the device knows of it; "failed" is _tempObject
    chunks,         \* chunks[r]: calls of handleUpload() there have been
    onDisconnect,   \* onDisconnect[r]: the callback, to end the update or to restart
    update,         \* the Update object
    written,        \* the requests whose chunks the update has taken, in order
    flash,          \* the requests whose chunks are where the next firmware goes
    selected,       \* that firmware is the one to boot
    firmware,       \* what the device runs: what the page uploaded last, or not
    power,          \* "off" while the device restarts
    page,           \* what the page shows
    current,        \* the request whose answer the page awaits
    sent            \* how many requests there were

device == <<request, chunks, onDisconnect>>
updater == <<update, written, flash, selected>>
browser == <<page, current, sent>>
vars == <<device, updater, firmware, power, browser>>

TypeOK ==
    /\ request \in [Requests -> {"none", "upload", "failed", "answered", "restart"}]
    /\ chunks \in [Requests -> 0..Chunks]
    /\ onDisconnect \in [Requests -> {"none", "end", "restart"}]
    /\ update \in {"idle", "running", "error"}
    /\ written \in Seq(Requests)
    /\ Len(written) <= Chunks
    /\ flash \in Seq(Requests)
    /\ selected \in BOOLEAN
    /\ firmware \in {"former", "uploaded", "broken"}
    /\ power \in {"on", "off"}
    /\ page \in {"form", "uploading", "restarting", "updated", "timedOut"}
    /\ current \in Requests \cup {None}
    /\ sent \in 0..MaxRequests

Init ==
    /\ request = [r \in Requests |-> "none"]
    /\ chunks = [r \in Requests |-> 0]
    /\ onDisconnect = [r \in Requests |-> "none"]
    /\ update = "idle" /\ written = <<>> /\ flash = <<>> /\ selected = FALSE
    /\ firmware = "former" /\ power = "on"
    /\ page = "form" /\ current = None /\ sent = 0

\* The image of one request, complete.
Whole(image) ==
    Len(image) = Chunks /\ \A i, j \in 1..Len(image) : image[i] = image[j]

-----------------------------------------------------------------------------
(* handleUpload: what each chunk of a request without an error does *)

Receives(r) ==
    /\ power = "on"
    /\ request[r] = "upload"
    /\ chunks[r] < Chunks
    /\ chunks' = [chunks EXCEPT ![r] = @ + 1]
    /\ UNCHANGED <<firmware, power, browser>>

First(r) == chunks[r] = 0
Last(r) == chunks[r] + 1 = Chunks

\* Not an admin, or Update.begin() fails, as it does while an update is running.
TurnAway(r) ==
    /\ Receives(r)
    /\ First(r)
    /\ request' = [request EXCEPT ![r] = "failed"]
    /\ UNCHANGED <<onDisconnect, updater>>

\* The update goes on: it was begun by the first chunk, or runs, whoever began it.
Running(r) == IF First(r) THEN update = "idle" ELSE update = "running"
Taken(r) == IF First(r) THEN <<>> ELSE written

\* Wrong on purpose: nothing ends the update if the client hangs up.
WatchNot(r) == UNCHANGED onDisconnect

\* Update.begin() succeeded.
Watch(r) == onDisconnect' = IF First(r) THEN [onDisconnect EXCEPT ![r] = "end"] ELSE onDisconnect

\* Update.write(), which takes no more than Update.begin() announced, and with the
\* last chunk Update.end(true) succeed.
StoreChunk(r) ==
    /\ Receives(r)
    /\ Running(r)
    /\ Watch(r)
    /\ Len(Taken(r)) < Chunks
    /\ written' = Append(Taken(r), r)
    /\ flash' = written'
    /\ update' = IF Last(r) THEN "idle" ELSE "running"
    /\ selected' = (selected \/ Last(r))
    /\ UNCHANGED request

\* Wrong on purpose: the error is not recorded with the request.
RejectChunkForgetting(r) ==
    /\ Receives(r)
    /\ First(r) => update = "idle"
    /\ Watch(r)
    /\ update' = IF Last(r) \/ ESP32 \/ ~Running(r) THEN "idle" ELSE "error"
    /\ written' = Taken(r)
    /\ flash' = IF Running(r) THEN written' ELSE flash
    /\ UNCHANGED <<request, selected>>

\* Update.write() fails, or Update.end() finds fault with the image. The last
\* chunk calls Update.end() even if it could not be written.
RejectChunk(r) ==
    /\ Receives(r)
    /\ First(r) => update = "idle"
    /\ Watch(r)
    /\ request' = [request EXCEPT ![r] = "failed"]
    /\ update' = IF Last(r) \/ ESP32 THEN "idle" ELSE IF Running(r) THEN "error" ELSE update
    /\ written' = Taken(r)
    /\ flash' = IF Running(r) THEN written' ELSE flash
    /\ UNCHANGED selected

HandleUpload(r) == TurnAway(r) \/ StoreChunk(r) \/ RejectChunk(r)

\* Wrong on purpose: the device does not restart.
UploadCompleteOnly(r) ==
    /\ power = "on"
    /\ request[r] = "upload"
    /\ chunks[r] = Chunks
    /\ request' = [request EXCEPT ![r] = "answered"]
    /\ UNCHANGED <<chunks, onDisconnect, updater, firmware, power, browser>>

\* uploadComplete
UploadComplete(r) ==
    /\ power = "on"
    /\ request[r] = "upload"
    /\ chunks[r] = Chunks
    /\ request' = [request EXCEPT ![r] = "answered"]
    /\ onDisconnect' = [onDisconnect EXCEPT ![r] = "restart"]
    /\ UNCHANGED <<chunks, updater, firmware, power, browser>>

-----------------------------------------------------------------------------
(* Restarts *)

\* RestartService::restart, asked for by anybody's page.
Restart(r) ==
    /\ power = "on"
    /\ request[r] = "none"
    /\ sent < MaxRequests
    /\ sent' = sent + 1
    /\ request' = [request EXCEPT ![r] = "restart"]
    /\ onDisconnect' = [onDisconnect EXCEPT ![r] = "restart"]
    /\ UNCHANGED <<chunks, updater, firmware, power, page, current>>

\* The page's upload has ended without an answer.
GiveUp == page' = "form" /\ current' = None

\* Every connection is lost.
GoDown ==
    /\ power' = "off"
    /\ request' = [r \in Requests |-> "none"]
    /\ chunks' = [r \in Requests |-> 0]
    /\ onDisconnect' = [r \in Requests |-> "none"]
    /\ update' = "idle" /\ written' = <<>>
    /\ IF page = "uploading" THEN GiveUp ELSE UNCHANGED <<page, current>>
    /\ UNCHANGED <<flash, firmware, sent>>

\* The ESP8266 keeps the choice of the firmware in memory that needs power.
PowerCut ==
    /\ power = "on"
    /\ GoDown
    /\ selected' = (selected /\ ESP32)

Boot ==
    /\ power = "off"
    /\ power' = "on"
    /\ selected' = FALSE
    /\ firmware' = IF selected THEN IF Whole(flash) THEN "uploaded" ELSE "broken" ELSE firmware
    /\ UNCHANGED <<device, update, written, flash, browser>>

\* A connection ends, from either side: its callback runs. handleEarlyDisconnect()
\* ends whatever update there is.
HangUp(r) ==
    /\ power = "on"
    /\ request[r] # "none"
    /\ IF onDisconnect[r] = "restart"
         THEN GoDown /\ UNCHANGED selected
         ELSE /\ request' = [request EXCEPT ![r] = "none"]
              /\ chunks' = [chunks EXCEPT ![r] = 0]
              /\ onDisconnect' = [onDisconnect EXCEPT ![r] = "none"]
              /\ update' = IF onDisconnect[r] = "end" THEN "idle" ELSE update
              /\ IF current = r THEN GiveUp ELSE UNCHANGED <<page, current>>
              /\ UNCHANGED <<written, flash, selected, firmware, power, sent>>

-----------------------------------------------------------------------------
(* The page *)

\* uploadFile: one at a time.
Upload(r) ==
    /\ page = "form"
    /\ power = "on"
    /\ request[r] = "none"
    /\ Overlapping \/ \A q \in Requests : request[q] \in {"none", "restart"}
    /\ sent < MaxRequests
    /\ sent' = sent + 1
    /\ request' = [request EXCEPT ![r] = "upload"]
    /\ chunks' = [chunks EXCEPT ![r] = 0]
    /\ page' = "uploading"
    /\ current' = r
    /\ firmware' = "former"
    /\ UNCHANGED <<onDisconnect, updater, power>>

\* cancelUpload: the device has yet to see the end of the connection.
Cancel ==
    /\ page = "uploading"
    /\ GiveUp
    /\ UNCHANGED <<device, updater, firmware, power, sent>>

\* The answer arrives.
Answered ==
    /\ page = "uploading"
    /\ request[current] \in {"answered", "failed"}
    /\ page' = IF request[current] = "answered" THEN "restarting" ELSE "form"
    /\ current' = None
    /\ UNCHANGED <<device, updater, firmware, power, sent>>

\* FirmwareRestartMonitor's poll: readSystemStatus() succeeds, or fails until the
\* restart takes too long.
Poll ==
    /\ page = "restarting"
    /\ \/ power = "on" /\ page' = "updated"
       \/ power = "off" /\ page' = "timedOut"
    /\ UNCHANGED <<device, updater, firmware, power, current, sent>>

\* The user comes back to the form.
ReadyAgain ==
    /\ page \in {"updated", "timedOut"}
    /\ page' = "form"
    /\ UNCHANGED <<device, updater, firmware, power, current, sent>>

-----------------------------------------------------------------------------
Next ==
    \/ \E r \in Requests :
           \/ HandleUpload(r) \/ UploadComplete(r)
           \/ Restart(r) \/ HangUp(r) \/ Upload(r)
    \/ PowerCut
    \/ Boot
    \/ Cancel
    \/ Answered
    \/ Poll
    \/ ReadyAgain

Spec == Init /\ [][Next]_vars

\* Connections end some time and the device comes up again.
Fairness ==
    /\ WF_vars(Boot)
    /\ \A r \in Requests : WF_vars(HangUp(r))

FairSpec == Spec /\ Fairness

-----------------------------------------------------------------------------
(* Properties *)

\* No update is left behind that would turn every later one away: one that has
\* been begun is ended if its client hangs up.
EndsWhenHungUp ==
    update # "idle" => \E r \in Requests : onDisconnect[r] = "end"

\* An upload that was reported to be successful is on flash as a whole, is the
\* firmware to boot, and stays so until it runs, across restarts by others.
ReportedIsInstalled ==
    page = "restarting" => (selected /\ Whole(flash)) \/ firmware = "uploaded"

\* A device that has reported success comes to run what was uploaded.
EventuallyRuns == \A r \in Requests : request[r] = "answered" ~> firmware = "uploaded"
=============================================================================
