# Allio-IoT-Peon in TLA+

A verification project for the firmware framework under `src/lib/framework`, the demo
project under `src/src` and the React interface under `src/interface`: TLA+ modules that
model the parts that keep state and the pure code between them, TLC configurations that
check them on small instances, and proofs, checked by TLAPS, of the properties that matter
most for every value of the constants. `PROJECT.json` maps every definition to the lines it
models and lists the runs, the mutants, the hazards, the findings and the theorems.

    tlc -workers 2 -config MCSettings.cfg MCSettings      # a run
    tlapm SettingsServiceProofs.tla                       # a proof

1. [The system](#1-the-system)
2. [Modules](#2-modules)
3. [Runs](#3-runs)
4. [Findings](#4-findings)
5. [Fairness and assumptions](#5-fairness-and-assumptions)
6. [Proofs](#6-proofs)
7. [What is not modelled](#7-what-is-not-modelled)
8. [Plan](#8-plan)


## 1. The system

An ESP8266 or ESP32 runs an asynchronous web server, an MQTT client and a WiFi driver. The
program itself is callbacks of these and `loop()`. On the **ESP8266** there is one context:
callbacks run only between two calls of `loop()` or inside a call that waits. On the
**ESP32** network callbacks run in a task of their own and preempt `loop()`; the only mutex
is the one of `StatefulService`. A browser runs the interface, which talks to the device
over REST and, for the light, a WebSocket.

What makes the code hard is nearly everywhere the same: an update handler that runs much
later than its update, flags set by one context and cleared by another, events that are
older than what they are applied to, a clock of 32 bits of which one value also means
"none", and a power supply.

| Component | State | Operations | Interacts with |
|---|---|---|---|
| `StatefulService`, `HttpEndpoint`, `FSPersistence` | `_state`, the settings file, handlers to be called when a request ends | `update`, `read`, POST, disconnect of the client, `writeToFS`, `readFromFS` | every service; the file system |
| `MqttSettingsService` | `_reconfigureMqtt`, `_disconnectedAt`, the client's connection | `loop`, `configureMqtt`, WiFi and MQTT callbacks | WiFi events, broker, clock |
| `WiFiSettingsService` | `_lastConnectionAttempt`, `_stopping`, the station interface | `loop`, `manageSTA`, `reconfigureWiFiConnection`, driver events | driver, scanner, clock, requests |
| `APSettingsService` | `_reconfigureAp`, `_lastManaged`, access point, DNS server | `loop`, `manageAP`, `startAP`, `stopAP`, `update` | station status, phones, clock |
| `LightStateService`, `MqttPubSub`, `WebSocketTxRx`, `useWs` | `ledOn`, the pin, topics, sockets, what a switch shows | POST, command, frame, `registerConfig`, `transmitData`, flip | broker, Home Assistant, browsers |
| `SecuritySettingsService`, `AuthenticationService`, `Authentication.tsx`, security forms | users and secret, the JWT handler, `localStorage`, the user shown | sign-in, verification, refresh, sign-out, editing | browsers |
| `UploadFirmwareService`, `RestartService`, upload page | the `Update` object, the request's error, its disconnect callback | chunk, completion, disconnect, restart, cancel, poll | flash, boot loader, browser |
| `WiFiScanner` and its page | the scan's state | `scanNetworks`, `listNetworks`, polling | the station interface |
| `NTPSettingsService`, `OTASettingsService` | SNTP and `ArduinoOTA` as configured | WiFi events, edits, `loop`, setting the time | WiFi events |
| `useRest`, settings forms, validators; the updaters behind them | data as loaded, edited and saved; the settings of the device | load, edit, validate, save, leave | endpoints |
| Routes, guards, menu, tabs, sign-in page | location, remembered path, token, user | load, click, redirect, sign in and out | `Authentication.tsx`, the status codes of the endpoints |
| Status services, status pages, `features` | what was loaded last, open dialogs | load, refresh, dialogs | driver, services |
| `FactoryResetService`, `RestartService` | the settings files, requests whose clients are still connected | reset, restart | all settings |

For each, what is hard and what has to hold:

**Settings services.** HTTP updates change `_state` at once and are answered, but the
handlers that save and apply them run when the client disconnects. `writeToFS()` takes its
snapshot under the mutex and writes without it. A reset can come anywhere. Correct means: a
change is in the end saved and applied; nothing is forgotten between an update and its
handlers; a restart brings back exactly what was saved, and defaults only if nothing usable
was.

**MQTT connection.** `loop()` clears two flags after the call that acts on them. `disconnect()`
of the client may only begin to close, in which case `connect()` is ignored. Correct means: a
client that should be connected and is not has a retry coming; a connection was opened with
the settings in force; WiFi and a broker that answers lead to a connection.

**WiFi station.** Driver events are queued and may be older than the connection they
switch off. `manageSTA()` connects only a station that is off. Correct means: a station that
has lost its connection has an event coming which switches it off; no attempt survives the
settings it was made with, where the platform keeps `loop()` and the handlers apart; the
station gets connected again.

**Access point.** Whether it runs depends on the mode, WiFi, the phones and a flag, each of
which another actor changes. Correct means: it runs with the settings in force, the
portal goes with it, no phone is cut off without an edit, the device stays reachable.

**Light.** One state has four views: pin, state topic, sockets, switches. Correct means:
they agree once what is under way has arrived, across reconnections, edits of the topic and
restarts of the device.

**Sign-in.** Tokens, secret and users change while requests, answers and reloads cross.
Correct means: a change of the secret signs everybody out, an admin remains, a browser
without a valid token ends at the sign-in page.

**Firmware upload.** An upload may fail, be cancelled, be cut off, or be cut short by a
restart. Correct means: no update stays behind that turns later ones away; a reported upload
is whole and comes to run.

**Settings forms.** A form sends all of the settings, also those it does not show, checked by
a validator that is not the one of the device: the updater silently replaces what it cannot
use. Forms are left while they save, others save meanwhile, answers get lost. Correct means:
the device always has settings it can run with; a form that nobody has edited shows what is
stored; a network that was selected keeps its name and is not sent the password of another;
loading and saving come to an end.

**Routing.** Guards redirect, redirects meet guards, and the path that is remembered for the
time after signing in is written and read by different steps. Correct means: no page is
shown whose requests would be refused; users get where they asked to go, also through a
sign-in; redirects come to an end.

**Status pages, scanner, restart, reset and clock.** A status has other keys on another
device or in another state. Scans are asked for by several clients and end whenever the
radio says so. A restart of somebody comes between a reset and its files. Correct means:
rows need only keys that were sent; a list was found since the page asked; there is one
chain of polls; a reset removes all settings or none; NTP runs exactly if it should;
everything ends, also when the device restarts; a time set by hand is the time that is shown.


## 2. Modules

Each module has one action per handler or per step between two points where another
context can run; operators have the names of the functions they model. An operator whose
comment begins "Wrong on purpose" is a plausible mistake in the operator after it; it is
never part of `Next` and serves to see that the properties notice it.

### SettingsService, DurableSettings

One service of the framework, whichever its settings: `Values` are what `_state` can be,
`Docs` the JSON objects, `Updated[d][v]` what the updater may make of `v` (a set, for
defaults drawn at random), `Document[v]` what the reader writes. `HttpPost`, `HttpRespond` and
`Disconnect` are `HttpPostEndpoint::updateSettings()` and its callback. A pass of the update
handlers by task `t` is `pc[t]` going through `snapshot`, `open`, `write` (`writeToFS()`) and
`apply` (the service's own handler). `PowerOn`, `ReadFromFS` and `Apply` are `begin()`; `PowerOff` is
a reset at any point. `AtomicFS` tells a file system that keeps the former content until
`close()` (LittleFS) from one that truncates at `open()`.

`DurableSettings` is the abstract specification: a save stores what is in force, a restart
brings back what is stored. `SettingsService` implements it under the mapping
at `Durable == INSTANCE DurableSettings WITH ...`: the service is up once `readFromFS()` has
read the file, and saving between `open` and `close`.

### ManagedLink

The abstract specification of the three services that manage a connection, be it to a
broker, to a network or the network they offer themselves. It has the settings in force
(`cur`, and whether they allow a connection, `enabled`), the connection that is `open`, with what
settings, and whether an edit is `pending`. A connection is opened with `cur`, and only if there
is none; an access point may also be started again in place (`InPlace`). To `Settle` an edit is
to have no connection but one that the settings ask for. `MqttConnection`, `WiFiStation` and
`AccessPoint` implement it under the mapping at `Managed == INSTANCE ManagedLink WITH ...`; an edit
is pending until the flag that its handler sets is cleared.

### MqttConnection

`loop()` is four steps, `Loop`, `Disconnect`, `Connect` and `ClearFlags`, between which callbacks
run if `Preemptive` (ESP32). `link` is the connection of the `AsyncMqttClient`, with
"disconnecting" for a close that `disconnect()` has only begun; `peer` is a history of the
settings the connection was opened with. `millis()` counts modulo `Wrap`.

### WiFiStation

`sta` is the station interface of the driver, `queue` its undelivered events. `DriverOff` is
`WiFi.disconnect(true)` with the events it causes. `Loop`, `ManageSTA`, `ConfigureSTA`, `BeginSTA`
and `ConnectSTA` are `loop()`, and `Reconfigure`, `Disconnect` and `ExpectStop` the update handler,
split wherever a task of the ESP32 can come between: `esp32` is the platform, and without it
each of them runs to its end (`CanCallBack`, `CanLoop`). `config` and `joined` are the settings that
the two calls of the driver have read. `overtaken` is a history: an edit fell into the making
of the last attempt. `ScanNetworks` is what a scan does to the interface: it switches it on.

### AccessPoint

`Post` with `NewMode` is `APSettings::update` (the mode is a `uint8_t`, and the switch that checks
it looks at the stored one); `Loop`, `ManageAP` and `ClearFlag` are `loop()`. `ap` and `dns` are the
network that runs and the address the DNS server answers with.

### LightState

`Update` is `StatefulService::update` with the handlers of the light in the order in which they
were added: MQTT, WebSocket, pin (`CallHandlers`). REST updates defer them (`PostLight`,
`LightRequestEnds`). `RegisterConfig` with `Resubscribed` is what `registerConfig()` and
`configureTopics()` do to the broker's subscriptions, which a broker that keeps sessions has when
the device connects (`subs`), until the session ends (`SessionEnds`). A restart (`LightRestart`)
takes everything of the device but `stored`, the path in the settings file. `leftOver` is a
history: what a session has kept besides the topic in use, and has not become the topic in use
since. `up[c]` and `down[c]` are the frames of a socket; `shown[c]`, `pending[c]` and `known[c]`
are the state of the `useWs` hook: its data, what its debounced `saveData` will send, and whether
it knows its own id. The initial states, steps and type of this module and of `StatusPages` have
names of their own (`LightInit`, `LightNext`, `PagesTypeOK`, ...), because their proofs share a
module with those of another component.

### Session

A token is its claims and the secret that signed it. `signer` is the secret of the JWT
handler, which follows `settings.secret` only when the client of the POST disconnects
(`SaveEnds`). A browser has the token of `localStorage` (`stored`), the user its interface shows
(`me`), calls of `refresh()` under way with the token each of them read before its wait
(`refreshes`), a sign-in answer under way, an open form, and saves whose form is closed
(`left`). `SaveElsewhere` stands for all browsers that are not modelled in full.

### FirmwareUpload

A request is a file of `Chunks` calls of `handleUpload()`, each of which is turned away, stored
or rejected; `written` and `flash` record whose chunks were taken. `onDisconnect[r]` is the one
callback a request has, to end the update or to restart. `HangUp`, `PowerCut` and `Boot` are
the ends of connections, the power supply and the boot loader; the page uploads, cancels,
gets its answer and polls.

### RestForm

One form of the interface, whichever (`form`), over the settings of the device as its reader
writes them. Values are chosen so that every validator and every updater tells them apart:
an address is valid, empty, junk or 255.255.255.255, a number is in range, at a limit, beyond
16 bits, no integer, or the `NaN` of an empty input. `WiFiAccepts` to `LightMqttAccepts` are the
validators, `WiFiUpdate` to `OTAUpdate` the updaters composed with their readers, `WiFiShown` to
`LightShown` the inputs that a form offers, which depend on what was typed and on the network
that was selected. `loadData`, `Loaded`, `validateAndSubmit`, `Saved`, `Failed`, `Prefilled` are
`useRest` and the effects of the forms. `late` are the saves of a form that was left before they
reached the device; `OtherSaves` is anybody else.

### Navigation

A path is a section, a tab and maybe a trailing slash. `SectionOf` is the table of routes, guards
and tabs as the components state them, separate from `AdminPages`, the predicates of the
endpoints that the pages ask: that the two agree is what `NotRefused` says. A step is a commit of
React with its effects: `RequireAuthenticated` stores the location and redirects,
`RequireUnauthenticated` fetches what was stored, `AuthenticatedRouting` covers unknown routes and
guards, `RemoveTrailingSlashes` and `RootRedirect` the rest. `redirect` and `token` survive a load of
the interface, all other state does not. `refreshes` are the saves of users or secret under way
(`SaveSecurity`), each of which ends with a `refresh()` that keeps the token it reads across its
wait (`SaveAnswered`, `RefreshAnswered`). Two histories: `goal` is what the user has asked for last,
`overtaken` that the user who is shown comes from a `refresh()` whose token was replaced or
removed before its answer.

### StatusRows, StatusPages

`StatusRows` has what each status service can answer, as a status and the keys that come with
it, and what each page makes of it: a colour and the values its rows need. `PageAnswers` are
those of the service that a page asks.

`StatusPages` has one page with the device behind it. Status pages load and refresh (`reads`);
their dialogs ask for a restart, a reset or a time (`confirm`, `posts`); the scanner asks for a
scan and polls for the list (`chains`, `pollCount`), which `WiFiScanner` keeps or starts to make
(`radio`). The device restarts or resets when the client of the request disconnects (`doomed`),
boots with the files it finds (`Boot`), loses power in the middle of a reset (`PowerLoss`), and
starts or stops NTP by the callbacks of WiFi and of a save (`pending`, `configureNTP`). Others
scan, save and restart as well.

### Composition

The components meet in a few places, and each module carries its side of them. The
protocol of `SettingsService` (an update is in force at once, its handler runs when a client
disconnects, maybe never if the device resets) appears in every other device module as
`armed`. WiFi events reach `MqttConnection` as `WiFiChanges` and `OnWiFiEvent`, and `AccessPoint` as
`wifi`, and `StatusPages` as `WiFiChanges`; the scanner reaches `WiFiStation` as `ScanNetworks`. That
the station's behaviour is one of those the others allow is plain, since they let WiFi
change at any time. Browser and device are composed in `Session`, `FirmwareUpload`, `LightState`,
`RestForm` and `StatusPages`, each with its requests and answers; `Navigation` sees the device as
what it accepts (`valid`) and refuses (`Authorized`), and loses the page when `FirmwareUpload` says
that the update is done (`FirmwareUpdated`).


## 3. Runs

Every run is small because the properties are about orders of events, not about numbers:
two settings are enough to have a former one and one in force, two edits to have one
overtake another, a clock of four or five values with a delay of two to have the difference
wrap around.

| Run | Module | Instance | What it shows |
|---|---|---|---|
| `settings` | MCSettings | ESP32: tasks `net` and `loop`, updates by `net`; two clients, two settings besides the blank one, torn and missing files, `open()` truncates | `NoLostSave`, `NoLostApply`; implements `DurableSpec`; `EventuallySaved` |
| `mqtt` | MCMqtt | ESP8266: clock 0..4 that starts at 1, delay 2, two edits, two undelivered WiFi events | `RetryScheduled`, `ConnectionCurrent`; implements `ManagedSpec`; `EventuallyConnected`, `EventuallyDisconnected` |
| `wifi` | MCWiFi | both platforms: clock 0..3, delay 2, two edits, two events caused by the network besides those the program causes | `StationWatched`; implements `ManagedSpec` on the ESP8266; `EventuallyJoined` |
| `ap` | MCAccessPoint | ESP8266: modes requested in and out of range, two networks, two edits | `RunsCurrent`; implements `ManagedSpec`; `NeverCutOff`, `FallsBack` |
| `light_and_upload` | MCLightAndUpload | either of two components that share nothing. Light: two browsers, two paths, a broker that keeps sessions, two updates, one restart. Upload on the ESP32: two requests at a time, four in all, images of two chunks | `SubscriptionCurrent`, `ReportCurrent`, `WatchersCurrent`, `EventuallyShown`, `EventuallyReported`; `EndsWhenHungUp`, `ReportedIsInstalled`, `EventuallyRuns` |
| `light_switch` | MCLightSwitch | two interchangeable browsers, one path, four updates | `SwitchesCurrent` fails, finding 1 |
| `session` | MCSession | one browser in full and others that save, two names, two secrets, two saves | `AdminRemains`, `OldTokensRefused`, `EventuallySignedOut` |
| `forms` | MCRestForm | all seven forms, each with one or two settings stored, two edits, two saves | `SettingsLegal`, `ShownIsStored`, `SelectionKept`, `Settles` |
| `keep_alive` | MCRestForm | the MQTT form | `KeepAliveInRange` fails, finding 3 |
| `navigation` | MCNavigation | firmware with everything, without security, and with security and NTP alone; fifteen addresses; two sign-ins and one save of users or secret under way | `NotRefused`, `GoalReached`, `NavigationSettles` |
| `pages` | MCStatusPages | five status pages and the scanner with three polls; a refresh at a time, one dialog request at a time, two events from elsewhere | `RowsAgree`, `ResetIsWhole`, `SyncFollows`, `ListIsCurrent`, `OneScan`, `PagesSettle` |
| `clock` | MCStatusPages | the NTP page; hours 1 and 4 entered, daylight saving time from 3 to 5 | `TimeAsEntered` fails, finding 2 |

Bounds. `MaxEdits`, `MaxSaves` and `MaxRequests` bound actions of users, `MaxEvents`, `MaxQueue`
and `MaxChanges` what the network or others do on their own, `MaxReads`, `MaxPosts`, `MaxSignIns`
and `MaxRefreshes` what is under way at a time, `MaxRestarts` those of the light's device; nothing
the program does by itself is bounded. Two edits show a second edit before the handler of the
first, after it, and around it; in a form they show a field that is hidden by the edit of another,
and an address that is dropped with one that is not. Two saves show one that overtakes another or
comes after the form was left. Two images of two chunks show a first and a last chunk and an
update disturbed between them. Three polls show a first, a middle and a last one; the code has 10.
Two changes show a restart during a reset and power that fails after it, or WiFi and the NTP
settings changing before either callback has run. In `wifi` the driver's own events may lengthen
the queue beyond `MaxQueue`, which bounds `Lose` alone. In `session` one browser is enough for the
interface, whose browsers share nothing but the device; all that others can do to the device is
`SaveElsewhere`. The addresses of `navigation` have every section and every kind of tab; which
path is remembered matters only by its kind.

The type invariants are proved (`TypeCorrect`, `LightTypeCorrect`, `PagesTypeCorrect`) and not
repeated in the runs, nor are two invariants that are proved on both platforms,
`PortalFollowsAP` of `AccessPoint` and `JoinsCurrent` of `WiFiStation`. On the ESP8266, where nothing is
overtaken, the last is also a consequence of `ManagedSpec`.

Liveness properties have the form "if the environment in the end stays so, the program ends
there": `EventuallyConnected` speaks of WiFi that stays and of settings that stay enabled. They
are not vacuous: edits are bounded, so in every behaviour the settings stay as they are in
the end, and WiFi may do so. `NavigationSettles` excludes only users who load the interface
over and over.


## 4. Findings

Three runs check what the interface says and find that the code does otherwise.

1. `light_switch`: a switch that is flipped while an update of another client is under way takes
   the older message, ignores its own, and disagrees with the LED for good (useWs.ts:40),
   though the form says that it updates whenever the LED's state changes
   (LightStateWebSocketForm.tsx:26).
2. `clock`: `configureTime()` leaves `tm_isdst` at 0 (NTPSettingsService.cpp:76), so that a time set
   by hand during daylight saving time is taken for standard time: 4 is entered, 5 is shown.
   The dialog says that the local time is entered to set the device's time
   (NTPStatusForm.tsx:86).
3. `keep_alive`: the form demands a keep alive of 1 to 86400 (mqtt.ts:16), but the field of the
   device has 16 bits: 65536 is accepted and stored as 0 (MqttSettingsService.h:89), with which
   the form can no longer be saved. `SettingsLegal` therefore says of this one field only that
   it has 16 bits.

Limitations that are part of the models. Each follows from the code; no document promises
otherwise, so none has a run of its own.

- With updates from two tasks of the ESP32 (HTTP and `loop()`, `Updaters = Tasks` in
  `SettingsService`) two `writeToFS()` calls overtake each other, and the older snapshot can be
  the last one written (FSPersistence.h:48). Nothing repairs the file later.
- On the ESP32 (`Preemptive = TRUE`) a disconnect that is reported between `configureMqtt()` and
  the clearing of `_disconnectedAt` is forgotten (MqttSettingsService.cpp:64-65), and no retry
  is made.
- On the ESP32 an edit and its handler can both run while `manageSTA()` does
  (WiFiSettingsService.cpp:62-82), between the settings it passes to the driver and the attempt. The
  attempt is then made with the former settings, or with some of each, and nothing ends it
  (`overtaken` in `WiFiStation`). `ManagedSpec` is a promise of the ESP8266 alone.
- On the ESP32 the stop event of `WiFi.disconnect(true)` can be delivered before `_stopping` is set
  (WiFiSettingsService.cpp:44-45). It then stays set until a later stop, which is followed by an
  early retry.
- A broker that keeps the session of a device keeps a topic that was replaced while the device
  was away, if the device restarts before it connects (`leftOver` in `LightState`): nothing
  remembers it to unsubscribe. Its messages are ignored, because `onMqttMessage()` compares the
  topic (MqttPubSub.h:135).
- A network scan that starts while the station is off leaves the interface on, and
  `manageSTA()` connects only an interface that is off (WiFiSettingsService.cpp:66).
  `EventuallyJoined` therefore excludes stations that were left like this.
- `startAP()` leaves a DNS server that runs as it is, so that after an edit of the local IP the
  captive portal answers with the former address (APSettingsService.cpp:50).
- What is edited while a form saves is overwritten by the answer (`Saved` in `RestForm`).
- Fractions pass the validators of numbers and become the factory value.
- An answer to `refresh()` for a former user shows this user again after a sign-out, or in place
  of a user who has signed in since (Authentication.tsx:47-51; `RefreshAnswered` in `Session` and
  `Navigation`). The interface may then show pages whose requests the device refuses, until the
  refusal signs the user out: `NotRefused` excepts them (`overtaken`).
- The first poll after an upload can be answered before the device goes down, and the page
  then reports an update that is still to come (`Poll` in `FirmwareUpload`).
- In a build without security the address `/unauthorized` signs out the user whom such a build
  signs in by itself and redirects to `/`, which redirects nobody back to `/unauthorized`, without
  end. `AddressesAssumption` leaves out that somebody types this address; nothing links to it.


## 5. Fairness and assumptions

Fairness is stated for what the device does by itself and for what every user of it relies on.

- `loop()` runs for ever and time passes (`LoopStep`, `Tick`): `main.cpp` calls `loop()` without end.
  `Tick` has strong fairness because it waits while `loop()` is at work.
- Callbacks that are queued run between two calls of `loop()` at the latest (`Propagate`,
  `OnWiFiEvent`, `Request \/ Event` in `WiFiStation`, `Disconnect` and the rest). They have strong
  fairness because a call of `loop()` disables them for its duration.
- Clients disconnect: HTTP connections end by themselves or time out.
- A network or a broker that is tried again and again answers in the end (`Join`,
  `OnMqttConnect`: strong fairness, since attempts come and go). Nothing is assumed of the moment.
- A device without power is switched on again; a firmware that was selected boots.
- A request to the device is handled if the device runs, and the browser gets the answer or
  gives up (`HttpRequest`, `Loaded \/ Saved` in `RestForm`; `StatusService`, `RestartRequest \/
  TimeRequest`, `ScanRequest \/ ListRequest`, `Loaded`, `PostAnswered`, `ScanAnswered` and the failures
  of lost requests in `StatusPages`). Weak fairness is enough: what is sent stays sent.
- A timer of the browser runs (`Poll`), a scan of the radio ends (`RadioDone`). `Restart` and
  `FactoryReset` have no fairness in `StatusPages`, whose properties do not need it.
- The browser loads the interface and follows redirects (`ReadFeatures`, `Refresh`, `Redirects` in
  `Navigation`), which React does in the commit after the one that made them possible.
- In `Session` a user who is signed in goes on using the interface (`AskRefused`): it is the
  next request that finds the token refused. Nobody has to sign in, edit or save.
- No user has to edit anything, no phone has to leave, no message has to be lost.

Assumptions on the environment, each by name where a module states it:

- `RoundTripAssumption`: what a service's reader writes its updater reads back. It is what
  `DurableSpec` rests on for any service; `LegalIsFixed` in `RestFormProofs` proves it for the
  settings of the seven forms, as long as they are legal.
- `StoredAssumption`: what a device has before the first save, or others save, is accepted by the
  form and legal. A setting made by other means, such as a factory value a validator
  rejects, has to be repaired before the form can be saved.
- `AbsentAssumption`, `NumbersAssumption`, `NoneAssumption`, `AnswersAssumption`: no value stands for
  two things.
- `AddressesAssumption`: nobody types `/unauthorized` (see above).
- `OwnFlash` and `OneUpdater` in `SettingsServiceProofs`: the file is missing, unreadable or was
  written by this firmware, and one task makes the updates. A file of an older firmware that
  lacks a field whose default is random would give another value at every boot, because
  `readFromFS()` writes back only what it could not read (FSPersistence.h:32-44).
- `Preemptive = FALSE` (ESP8266) in `mqtt` and `ap`. On the ESP32 flags that another task sets
  while `loop()` clears them are lost: see the limitations above, and the hazards at
  MqttSettingsService.cpp:64 and APSettingsService.cpp:43.
- `Overlapping = FALSE` in `light_and_upload`: the page begins no upload before the device has seen the
  end of the former one. With `TRUE`, `EndsWhenHungUp` still holds, and is proved, but not
  `ReportedIsInstalled`: a late chunk of a cancelled upload is written into the update of the
  next, or its disconnect ends it, as the hazard at UploadFirmwareService.cpp:79 says.
- On the ESP8266 the choice of the next firmware does not survive a power failure
  (`PowerCut`), so `ReportedIsInstalled` is checked for the ESP32.
- `StatusPages` takes the callbacks of the device for one task, as they are on the ESP8266. On the
  ESP32 a WiFi event and the handler of a save have tasks of their own, so that `configureNTP()`
  could be overtaken between its look at `enabled` and the start of SNTP.
- The clock is slow compared with `loop()`, which does not sleep through a whole cycle of it.
- In `MqttConnection` the run has `Start = 1`: no disconnect is stamped with time 0, which the
  code reads as "none". The hazard at MqttSettingsService.cpp:59 names the one millisecond in
  49 days for which this is not so.


## 6. Proofs

The proof modules hold for every value of the constants: any settings, tasks, clients,
browsers, users, networks, delays and bounds. Every safety invariant and every action
property of the runs that pass is proved, and so are the four refinements. Two of the modules
have the proofs of two components each, which share no name and no step; every theorem is
about one of them.

**SettingsServiceProofs.** `TypeCorrect`. `ApplyNeverLost`: `NoLostApply` is inductive once it is
known that the device boots alone (`BootsAlone`) and that a task which loads is the main one of a
booting device (`LoadsAtBoot`). `SaveNeverLost`: `SaveInv` adds that only the network task, which
makes the updates, is ever busy with the service (`NetAlone`), so that a snapshot still is the
document of the settings in force when it is written (`SnapshotsFresh`); with two tasks that make
updates it is not. `OwnFile` and `Restored` carry it through a restart. `ImplementsDurable`: every
step maps to a step of `DurableSettings` or to a stutter, by the same invariant and `BlankAtBoot`.

**MqttConnectionProofs.** `TypeCorrect` on both platforms. For `Preemptive = FALSE`,
`ConnectionIsCurrent` by `CurrentInv`: `loop()` connects only after it has disconnected
(`ClosedFirst`), connects with what is in force (`OpenedCurrent`), and an outdated connection is
noticed (`OutdatedNoticed`: a POST whose client has yet to disconnect, or the flag).
`RetryIsScheduled`, if no disconnect is stamped 0, by `RetryInv`: a missing connection is noticed
by a POST, an event, the flag or a time stamp (`MissingNoticed`), and the flags are cleared only
after a connection was tried (`ConnectTried`). `ConnectionIsManaged`: under `CurrentInv` every
step is one of `ManagedLink` or does not concern it. The step that matters is `ClearFlags`, which
settles the edit unless another has come since: `OpenedCurrent` says that it may.
`NoFormerConnection` is what `ManagedLink` promises (`ManagedIsCurrent`) brought back to the
service; unlike `ConnectionCurrent` it holds in the middle of `loop()` too.

**StationAndPagesProofs**, of `WiFiStation`: `TypeCorrect`, `AttemptsAreCurrent` and
`StationIsWatched` on both platforms. `StationWatched` is inductive with `TypeOK`; what it needs
are the lemmas on queues at the head of the module (`MemberOfConcat`, `MemberOfTail`,
`EventSeqs`). `JoinsCurrent` needs `AttemptInv`: as long as no edit has overtaken it, the attempt
that `manageSTA()` is making has what is in force, and on the ESP8266 none overtakes it.
`StationIsManaged` is a theorem of the ESP8266, by the same invariant: an attempt is made only
where there is none, with the settings in force, and the update handler ends whatever there is.

Of `StatusPages`: `PagesTypeCorrect`, with the fact that only the scanner scans (`PagesBounded`).
`RowsShowWhatCame` by a lemma for every page (`WiFiRows` to `SystemRows`): its rows need no key
but those its service sends in that state, on both platforms, and data is always an answer of that
service. `ResetTakesAll` by `ResetInv`: unless power has failed, what happens to one of the files
happens to all. `NTPFollows` by `SyncInv`, which keeps `SyncFollows` while the device is down as
well. `NeverTwoScans` by `ScanInv`: as long as there is a chain of polls the button is disabled,
and nothing else of the page touches what disables it. `ListFoundSince` adds `ListInv`: once the
device has taken the page's request to scan, the networks it keeps have been found since, and so
has every list on its way.

**AccessPointProofs.** `TypeCorrect`, `PortalWithAccessPoint` and `PhonesStay` on both platforms,
the last by `UneditedInv`: until somebody edits, no reconfiguration is asked for but the start's
own, and that one is over, but for its flag, by the time an access point runs.
`AccessPointIsCurrent` for `Preemptive = FALSE` by `CurrentInv`, and `AccessPointIsManaged` by
`SettledInv`: between `manageAP()` and the clearing of its flag no access point runs but the one
that is wanted. This also covers the modes that `RunsCurrent` leaves out: after an edit to NEVER
nothing runs, phones or not.

**LightAndUploadProofs**, of `LightState`: `LightTypeCorrect`. `ListensToItsTopic` by `TopicInv`:
the topic in use is one for state and commands, the broker keeps a subscription to no other but
those left over, and while it is connected the topic in use is subscribed to, and the configured
one unless the request that changed it is open. `ListensToNoOther`: with a broker that keeps no
session nothing is left over. `ReportsItsState` by `ReportInv` on top of it: what was published
last on the topic in use is the state, unless the broker is away or a REST request has yet to
propagate. `WatchersSeeTheLight` by `BrowsersInv`, which follows each browser by itself: without a
connection nothing is under way (`Quiet`); a browser that does not know its id has it coming, and
the state after it (`Announced`); the last message on its way tells the state, unless a request
has yet to propagate (`Heard`); one that has sent nothing is sent no update of its own
(`Unspoken`), which it would ignore; and when all has been read it shows the state (`Shows`).

Of `FirmwareUpload`: `TypeCorrect` and `UpdatesAreWatched` with no assumption on platform or page.
The latter by `WatchInv`, which gives every update that is not idle a request whose
callback ends it. `ReportsAreTrue` for the ESP32 and uploads that do not overlap, by
`InstallInv`: at most one request uploads, its chunks so far are what is on flash, in order
(`Filled`), and once it is complete the image is whole and selected (`Ready`) until it runs.

**SessionProofs.** `TypeCorrect`. `AdminAlwaysRemains` by `AdminInv`: what any form can still post
leaves an admin, because the form of the secret never changes the users it loaded and the form of
the users is posted only with an admin. `OldTokensAreRefused` by `SecretInv`: no open request, no
difference between the secret of the handler and the one in force.

**RestFormProofs.** `TypeCorrect`, `DeviceStaysLegal`, `FormsShowWhatIsStored` and
`SelectionStays`, all by `FormInv`, for any settings stored, edits and saves. Two facts about the
updaters carry it, each with a lemma per form: `Updated`, of everything a form may send
(`Acceptable`: accepted by its validator and, for NTP, with the rules of its zone) the device
makes legal settings; and `LegalIsFixed`, of legal settings it makes the same again. The first
keeps the device legal (`RequestInv` and `LateInv` say that only acceptable settings are under
way); what a form has loaded is legal and so remains sound under edits (`DataInv`, `Edited`,
`ZoneChosen`). `CurrentInv` is `ShownIsStored` without its restriction to a form that waits for
nothing, and needs the second: the save of a form that nobody has edited changes nothing.

**NavigationProofs.** `TypeCorrect`. `PagesAreForTheirUsers` by `SafeInv`: a user who is shown is the
user of the stored token, unless `refresh()` has brought back another (`UserHasToken`), and a page
that is shown has passed its guard.
`GoalsAreReached` by `GoalKept`: until the goal is reached, or nobody may reach it, the location
or the remembered path leads there; each redirect has a step that carries it from one to
the other. Both hold for every set of features, every set of addresses and any number of
sign-ins and saves under way.

Only model-checked: the liveness properties, which rest on fairness and on ENABLED, and the three
violations, of which a run is all that is needed. The proofs use no assumption but those of
the modules and the ones named in the theorems.


## 7. What is not modelled

- The content of settings outside `RestForm`: there, an SSID, a password or an IP
  configuration is part of an opaque value. In `RestForm` a text stands for all texts that
  no validator and no updater tells apart from it.
- `SettingValue` (factory values with the device's id or random parts), beyond the defaults
  drawn at random of `SettingsService`.
- The `ArduinoOTA` object that `OTASettingsService` replaces while `loop()` uses it; of OTA the
  settings, their validator, updater and form are modelled.
- The dialog in which one user is edited and the validators of users and secret; `Session`
  has what the security forms load and save.
- The search part of a remembered path; the drawer of small screens, titles, themes and the
  formatting of numbers and times; static files and CORS headers; build scripts.
- How many networks fit into the 1024 bytes of the scanner's list (WiFiScanner.h:20).
- Of a time in `StatusPages` only its hour counts, and a zone is the set of its summer hours.
- Cryptography and encodings: a token is what it says and who signed it.
- `WebSocketTx`/`Rx` with fragmented frames, `setRetain()`, `removeUpdateHandler()` and
  `disableUpdateHandler()`: nothing in the repository uses them.
- Libraries (AsyncTCP, ESPAsyncWebServer, AsyncMqttClient, the WiFi driver, `Update`): they
  are modelled by what the code relies on, and marked external.
- Memory: allocation failures of `new` and of JSON documents.


## 8. Plan

What is left, in this order:

1. A composition of `WiFiStation` with `AccessPoint` in place of its free WiFi: in the mode
   DISCONNECTED the device is reachable by one or the other.
2. An abstract specification of who may sign in, as `ManagedLink` is one of connections, and
   `Session` shown to implement it: a token is good for what its user may do, from the sign-in
   until the secret changes.
3. `ArduinoOTA`: the object that callbacks replace while `loop()` handles it.
4. The dialog of a user, with its validators, in `Session`.
