----------------------------- MODULE LightState -----------------------------
(***************************************************************************)
(* The demo project: LightStateService with its REST endpoint, MQTT topics  *)
(* (MqttPubSub) and WebSocket (WebSocketTxRx), the light's MQTT settings    *)
(* with registerConfig(), and the useWs hook of the browsers that show the  *)
(* switch.  All handlers of the device run in the network task, one at a    *)
(* time, on both platforms.  The device may restart at any time, and a      *)
(* broker may have kept a session of the light from before.                 *)
(***************************************************************************)
EXTENDS Naturals, Sequences

CONSTANTS
    Clients,        \* the browsers that show the WebSocket switch
    Paths,          \* MQTT paths the light may be configured with
    CleanSession,   \* FALSE when the broker keeps the light's subscriptions
    MaxEdits,       \* bound on updates of the light and of its settings
    MaxRestarts,    \* bound on restarts of the device
    Nothing         \* nothing shown, no topic, no value

Commands == {"ON", "OFF", "other"}
Origins == Clients \cup {"http", "mqtt", "websocket"}
Messages == [type : {"id"}] \cup [type : {"payload"}, origin : Origins, value : BOOLEAN]

ASSUME NamesAssumption ==
    /\ Nothing \notin Paths
    /\ Nothing \notin BOOLEAN
    /\ Clients \cap {"http", "mqtt", "websocket"} = {}
ASSUME BoundsAssumption ==
    CleanSession \in BOOLEAN /\ MaxEdits \in Nat /\ MaxRestarts \in Nat

VARIABLES
    ledOn,          \* _state.ledOn
    led,            \* the level of LED_PIN
    armed,          \* requests whose end will call the light's update handlers
    path,           \* mqttPath of the LightMqttSettingsService
    pathArmed,      \* requests whose end will call the settings' update handlers
    stored,         \* mqttPath in the file of these settings
    subTopic,       \* _subTopic, named by its path
    pubTopic,       \* _pubTopic, likewise
    connected,      \* _mqttClient->connected()
    subs,           \* the topics the broker forwards to the light
    dropped,        \* topics unsubscribed from since the broker is connected
    reported,       \* reported[p]: the last state published for path p
    commands,       \* commands on their way from the broker
    open,           \* open[c]: the WebSocket of c is connected
    known,          \* known[c]: clientId.current is set
    shown,          \* shown[c]: data, the switch c shows
    pending,        \* pending[c]: what the debounced saveData will send
    up,             \* up[c]: frames from c to the light
    down,           \* down[c]: messages from the light to c
    passive,        \* passive[c]: c has sent nothing since its socket opened
    edits,          \* how many updates were made
    restarts,       \* how often the device has restarted
    leftOver        \* history: topics that the broker goes on forwarding although
                    \* the light has given them up, or never knew of them

light == <<ledOn, led, armed>>
topics == <<path, pathArmed, stored, subTopic, pubTopic>>
session == <<subs, dropped, leftOver>>
broker == <<connected, session, reported, commands>>
hook == <<open, known, shown, pending, up, passive>>
lightVars == <<light, topics, broker, hook, down, edits, restarts>>

LightTypeOK ==
    /\ ledOn \in BOOLEAN /\ led \in BOOLEAN
    /\ armed \in 0..MaxEdits /\ pathArmed \in 0..MaxEdits
    /\ path \in Paths /\ stored \in Paths
    /\ subTopic \in Paths \cup {Nothing} /\ pubTopic \in Paths \cup {Nothing}
    /\ connected \in BOOLEAN
    /\ subs \subseteq Paths /\ dropped \subseteq Paths /\ leftOver \subseteq Paths
    /\ reported \in [Paths -> BOOLEAN \cup {Nothing}]
    /\ commands \in Seq([topic : Paths, command : Commands])
    /\ open \in [Clients -> BOOLEAN] /\ known \in [Clients -> BOOLEAN]
    /\ passive \in [Clients -> BOOLEAN]
    /\ shown \in [Clients -> BOOLEAN \cup {Nothing}]
    /\ pending \in [Clients -> BOOLEAN \cup {Nothing}]
    /\ up \in [Clients -> Seq(BOOLEAN)]
    /\ down \in [Clients -> Seq(Messages)]
    /\ edits \in 0..MaxEdits /\ restarts \in 0..MaxRestarts

LightInit ==
    /\ ledOn = FALSE /\ led = FALSE /\ armed = 0
    /\ stored \in Paths /\ path = stored /\ pathArmed = 0
    /\ subTopic = Nothing /\ pubTopic = Nothing
    /\ connected = FALSE /\ dropped = {}
    /\ subs \in IF CleanSession THEN {{}} ELSE SUBSET Paths
    /\ leftOver = subs /\ commands = <<>>
    /\ reported = [p \in Paths |-> Nothing]
    /\ open = [c \in Clients |-> FALSE] /\ known = open /\ passive = open
    /\ shown = [c \in Clients |-> Nothing] /\ pending = shown
    /\ up = [c \in Clients |-> <<>>] /\ down = up
    /\ edits = 0 /\ restarts = 0

Edit == edits < MaxEdits /\ edits' = edits + 1

-----------------------------------------------------------------------------
(* Update handlers of the light, in the order they were added *)

Payload(o, v) == [type |-> "payload", origin |-> o, value |-> v]

\* MqttPub::publish() while connected.
Publish(reports, topic, v) == IF topic # Nothing THEN [reports EXCEPT ![topic] = v] ELSE reports

\* transmitData(nullptr, originId): to every client, its origin included.
TransmitData(o, v) ==
    down' = [c \in Clients |-> IF open[c] THEN Append(down[c], Payload(o, v)) ELSE down[c]]

\* Wrong on purpose: the WebSocket has no update handler.
CallHandlersSilent(o) ==
    /\ reported' = IF connected THEN Publish(reported, pubTopic, ledOn') ELSE reported
    /\ UNCHANGED down
    /\ led' = ledOn'

\* callUpdateHandlers(originId): each handler reads the state in force.
CallHandlers(o) ==
    /\ reported' = IF connected THEN Publish(reported, pubTopic, ledOn') ELSE reported
    /\ TransmitData(o, ledOn')
    /\ led' = ledOn'

\* StatefulService::update with LightState::update or haUpdate.
Update(v, o) ==
    /\ ledOn' = v
    /\ IF v # ledOn THEN CallHandlers(o) ELSE UNCHANGED <<reported, down, led>>

-----------------------------------------------------------------------------
(* REST *)

\* A request changes the state at once, the handlers wait for its end.
PostLight(v) ==
    /\ Edit
    /\ ledOn' = v
    /\ armed' = IF v # ledOn THEN armed + 1 ELSE armed
    /\ UNCHANGED <<led, topics, broker, hook, down, restarts>>

\* Wrong on purpose: the end of the request calls the handlers of nobody.
LightRequestEndsQuietly ==
    /\ armed > 0
    /\ armed' = armed - 1
    /\ UNCHANGED <<ledOn, led, topics, broker, hook, down, edits, restarts>>

LightRequestEnds ==
    /\ armed > 0
    /\ armed' = armed - 1
    /\ ledOn' = ledOn
    /\ CallHandlers("http")
    /\ UNCHANGED <<topics, connected, session, commands, hook, edits, restarts>>

PostPath(p) ==
    /\ Edit
    /\ path' = p
    /\ pathArmed' = pathArmed + 1
    /\ UNCHANGED <<light, stored, subTopic, pubTopic, broker, hook, down, restarts>>

-----------------------------------------------------------------------------
(* MQTT *)

\* Wrong on purpose: the former topic stays subscribed.
ResubscribedBoth(set, old, new) == set \cup {new}

\* setSubTopic: what the broker forwards once old is replaced by new.
Resubscribed(set, old, new) == IF old = new THEN set ELSE (set \ {old}) \cup {new}

\* registerConfig() while connected, with configureTopics(); from is what the
\* broker forwards and reports what has been published before.
RegisterConfig(from, reports) ==
    /\ subs' = Resubscribed(from, subTopic, path)
    /\ dropped' = (dropped \cup {subTopic}) \ {path, Nothing}
    /\ leftOver' = leftOver \ {path}
    /\ subTopic' = path
    /\ pubTopic' = path
    /\ reported' = Publish(reports, path, ledOn)

\* The handlers of the light's settings save them and register again.
PathRequestEnds ==
    /\ pathArmed > 0
    /\ pathArmed' = pathArmed - 1
    /\ stored' = path
    /\ UNCHANGED connected
    /\ IF connected THEN RegisterConfig(subs, reported)
                    ELSE UNCHANGED <<subTopic, pubTopic, session, reported>>
    /\ UNCHANGED <<light, path, commands, hook, down, edits, restarts>>

\* Wrong on purpose: only the topics of the last connection are set up again.
MqttConnectUnregistered ==
    /\ ~connected
    /\ connected' = TRUE
    /\ subs' = subs \cup ({subTopic} \ {Nothing})
    /\ reported' = Publish(reported, pubTopic, ledOn)
    /\ UNCHANGED <<light, topics, dropped, leftOver, commands, hook, down, edits, restarts>>

\* The client calls MqttPubSub::onConnect, with the topics of the last connection,
\* and then registerConfig().
MqttConnect ==
    /\ ~connected
    /\ connected' = TRUE
    /\ RegisterConfig(subs \cup ({subTopic} \ {Nothing}), Publish(reported, pubTopic, ledOn))
    /\ UNCHANGED <<light, path, pathArmed, stored, commands, hook, down, edits, restarts>>

\* What the broker has when the connection is gone. In a session it keeps it has
\* the subscriptions, also those whose end it has not been told of in time, and
\* the commands that were sent to be delivered for certain.
SessionEnds ==
    /\ connected' = FALSE /\ dropped' = {}
    /\ IF CleanSession
         THEN subs' = {} /\ commands' = <<>>
         ELSE /\ \E kept \in SUBSET dropped : subs' = subs \cup kept
              /\ commands' \in {commands, <<>>}
    /\ leftOver' = subs' \ {subTopic'}

MqttDisconnect ==
    /\ connected
    /\ UNCHANGED <<light, topics, reported, hook, down, edits, restarts>>
    /\ SessionEnds

\* Home Assistant publishes on the set topic of a path.
SendCommand(p, cmd) ==
    /\ p \in subs
    /\ Edit
    /\ commands' = Append(commands, [topic |-> p, command |-> cmd])
    /\ UNCHANGED <<light, topics, connected, session, reported, hook, down, restarts>>

\* onMqttMessage
ReceiveCommand ==
    /\ connected /\ commands # <<>>
    /\ commands' = Tail(commands)
    /\ LET m == Head(commands) IN
       IF m.topic = subTopic /\ m.command # "other"
         THEN Update(m.command = "ON", "mqtt")
         ELSE UNCHANGED <<ledOn, led, reported, down>>
    /\ UNCHANGED <<armed, topics, connected, session, hook, edits, restarts>>

-----------------------------------------------------------------------------
(* WebSocket *)

\* WS_EVT_CONNECT: the client's id and then the state.
Open(c) ==
    /\ ~open[c]
    /\ open' = [open EXCEPT ![c] = TRUE]
    /\ passive' = [passive EXCEPT ![c] = TRUE]
    /\ down' = [down EXCEPT ![c] = <<[type |-> "id"], Payload("websocket", ledOn)>>]
    /\ UNCHANGED <<light, topics, broker, known, shown, pending, up, edits, restarts>>

\* The connection is lost with all that was under way; a debounced value is not.
Close(c) ==
    /\ open[c]
    /\ open' = [open EXCEPT ![c] = FALSE]
    /\ known' = [known EXCEPT ![c] = FALSE]
    /\ shown' = [shown EXCEPT ![c] = Nothing]
    /\ up' = [up EXCEPT ![c] = <<>>]
    /\ down' = [down EXCEPT ![c] = <<>>]
    /\ UNCHANGED <<light, topics, broker, pending, passive, edits, restarts>>

\* WS_EVT_DATA with a complete text frame.
ReceiveFrame(c) ==
    /\ up[c] # <<>>
    /\ up' = [up EXCEPT ![c] = Tail(@)]
    /\ Update(Head(up[c]), c)
    /\ UNCHANGED <<armed, topics, connected, session, commands, open, known, shown, pending,
                   passive, edits, restarts>>

-----------------------------------------------------------------------------
(* The useWs hook of a browser *)

\* Wrong on purpose: what is shown already is not replaced.
OnMessageKeeps(c) ==
    /\ down[c] # <<>>
    /\ down' = [down EXCEPT ![c] = Tail(@)]
    /\ LET m == Head(down[c]) IN
       IF m.type = "id"
         THEN known' = [known EXCEPT ![c] = TRUE] /\ UNCHANGED shown
         ELSE /\ shown' = [shown EXCEPT ![c] = IF known[c] /\ @ = Nothing THEN m.value ELSE @]
              /\ UNCHANGED known
    /\ UNCHANGED <<light, topics, broker, open, pending, up, passive, edits, restarts>>

\* onMessage: an update of this client's own is not shown again.
OnMessage(c) ==
    /\ down[c] # <<>>
    /\ down' = [down EXCEPT ![c] = Tail(@)]
    /\ LET m == Head(down[c]) IN
       IF m.type = "id"
         THEN known' = [known EXCEPT ![c] = TRUE] /\ UNCHANGED shown
         ELSE /\ shown' = [shown EXCEPT ![c] =
                             IF known[c] /\ ~(m.origin = c /\ @ # Nothing) THEN m.value ELSE @]
              /\ UNCHANGED known
    /\ UNCHANGED <<light, topics, broker, open, pending, up, passive, edits, restarts>>

\* The user flips the switch: updateData and the effect it triggers.
UpdateData(c) ==
    /\ open[c] /\ shown[c] # Nothing
    /\ Edit
    /\ shown' = [shown EXCEPT ![c] = ~@]
    /\ pending' = [pending EXCEPT ![c] = ~shown[c]]
    /\ UNCHANGED <<light, topics, broker, open, known, up, down, passive, restarts>>

\* doSaveData when the debounce is over; without a connection the frame is lost.
DoSaveData(c) ==
    /\ pending[c] # Nothing
    /\ pending' = [pending EXCEPT ![c] = Nothing]
    /\ up' = [up EXCEPT ![c] = IF open[c] THEN Append(@, pending[c]) ELSE @]
    /\ passive' = [passive EXCEPT ![c] = FALSE]
    /\ UNCHANGED <<light, topics, broker, open, known, shown, down, edits, restarts>>

-----------------------------------------------------------------------------
(* The device *)

\* Power fails or somebody restarts the device: the light is what its default and
\* its settings file say, requests are forgotten, connections are lost.
LightRestart ==
    /\ restarts < MaxRestarts /\ restarts' = restarts + 1
    /\ ledOn' = FALSE /\ led' = FALSE /\ armed' = 0
    /\ path' = stored /\ pathArmed' = 0 /\ UNCHANGED stored
    /\ subTopic' = Nothing /\ pubTopic' = Nothing
    /\ SessionEnds
    /\ open' = [c \in Clients |-> FALSE] /\ known' = open'
    /\ shown' = [c \in Clients |-> Nothing]
    /\ up' = [c \in Clients |-> <<>>] /\ down' = up'
    /\ UNCHANGED <<reported, pending, passive, edits>>

-----------------------------------------------------------------------------
LightNext ==
    \/ \E v \in BOOLEAN : PostLight(v)
    \/ \E p \in Paths : PostPath(p)
    \/ LightRequestEnds
    \/ PathRequestEnds
    \/ MqttConnect
    \/ MqttDisconnect
    \/ \E p \in Paths, cmd \in Commands : SendCommand(p, cmd)
    \/ ReceiveCommand
    \/ \E c \in Clients : \/ Open(c) \/ Close(c) \/ ReceiveFrame(c)
                          \/ OnMessage(c) \/ UpdateData(c) \/ DoSaveData(c)
    \/ LightRestart

LightSpec == LightInit /\ [][LightNext]_lightVars

\* Requests end and messages arrive.
LightFairness ==
    /\ WF_lightVars(LightRequestEnds)
    /\ WF_lightVars(PathRequestEnds)
    /\ WF_lightVars(ReceiveCommand)
    /\ \A c \in Clients : WF_lightVars(ReceiveFrame(c)) /\ WF_lightVars(OnMessage(c))

LightFairSpec == LightSpec /\ LightFairness

-----------------------------------------------------------------------------
(* Properties *)

\* While the broker is connected the light listens to the set topic it is
\* configured with, whatever was edited while it was away. The broker forwards no
\* other, but for those a session has kept of which nobody told it to drop them:
\* the light unsubscribes only from the topic it remembers having had.
SubscriptionCurrent ==
    connected /\ pathArmed = 0 => subTopic = path /\ subs = {path} \cup leftOver

\* While the broker is connected the state last published on the configured topic
\* is the light's, across reconnections and changes of the topic.
ReportCurrent == connected /\ armed = 0 /\ pathArmed = 0 => reported[path] = ledOn

\* Nothing about the light is under way to c.
Settled(c) == known[c] /\ shown[c] # Nothing /\ down[c] = <<>> /\ armed = 0

\* A switch that nobody has flipped since its socket opened shows the light.
WatchersCurrent == \A c \in Clients : Settled(c) /\ passive[c] /\ pending[c] = Nothing
                                        => shown[c] = ledOn

\* So does every switch once what it sent has been received.
SwitchesCurrent == \A c \in Clients : Settled(c) /\ up[c] = <<>> /\ pending[c] = Nothing
                                        => shown[c] = ledOn

\* A switch that stays open and is not used comes to show the light and stays so.
EventuallyShown ==
    \A c \in Clients :
        <>[](open[c] /\ passive[c] /\ pending[c] = Nothing) => <>[](shown[c] = ledOn)

\* If the broker stays, its subscribers come to know the state of the light.
EventuallyReported == <>[]connected => <>[](reported[path] = ledOn /\ led = ledOn)
=============================================================================
