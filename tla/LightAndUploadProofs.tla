-------------------------- MODULE LightAndUploadProofs --------------------------
(***************************************************************************)
(* Theorems about LightState for any browsers and topics, and about        *)
(* FirmwareUpload for any number of requests and chunks, on both           *)
(* platforms, uploads overlapping or not.  The two share no name and no    *)
(* step: each theorem is about one of them.                                *)
(***************************************************************************)
EXTENDS LightState, FirmwareUpload, TLAPS

-----------------------------------------------------------------------------
(* The light: its inductive invariant *)

\* A request whose end is still to come has made an update.
LightBounded == LightTypeOK /\ armed <= edits /\ pathArmed <= edits

\* Both topics are one; the broker forwards no other but those left over, and that
\* one while it is connected, which is the configured one unless its handler is
\* still to come. A broker that keeps no session has nothing left over.
TopicInv ==
    /\ pubTopic = subTopic
    /\ leftOver \subseteq subs /\ subs \subseteq {subTopic} \cup leftOver
    /\ subTopic \notin leftOver
    /\ connected => subTopic \in subs
    /\ connected /\ pathArmed = 0 => subTopic = path
    /\ CleanSession => leftOver = {}

\* What was published last on the topic in use is the light's state.
ReportInv == connected /\ armed = 0 => reported[pubTopic] = ledOn

\* A browser without a connection has nothing under way.
Quiet(c) == ~open[c] => ~known[c] /\ up[c] = <<>> /\ down[c] = <<>>

\* A browser that has not read its id has the state coming after it.
Announced(c) == open[c] /\ ~known[c] => Len(down[c]) >= 2 /\ down[c][1].type = "id"

\* The last message on its way to a browser tells the state.
Heard(c) ==
    down[c] # <<>> =>
        /\ down[c][Len(down[c])].type = "payload"
        /\ armed = 0 => down[c][Len(down[c])].value = ledOn

\* A browser that has sent nothing gets no update of its own.
Unspoken(c) ==
    passive[c] /\ open[c] =>
        /\ up[c] = <<>>
        /\ \A i \in 1..Len(down[c]) : down[c][i].type = "payload" => down[c][i].origin # c

\* When all has been read it shows the state.
Shows(c) ==
    passive[c] /\ open[c] /\ known[c] /\ pending[c] = Nothing /\ down[c] = <<>> /\ armed = 0
        => shown[c] = ledOn

ClientInv(c) == Quiet(c) /\ Announced(c) /\ Heard(c) /\ Unspoken(c) /\ Shows(c)

BrowsersInv == \A c \in Clients : ClientInv(c)

-----------------------------------------------------------------------------
(* The light: type correctness *)

LEMMA PayloadType ==
  ASSUME NEW o \in Origins, NEW v \in BOOLEAN
  PROVE  Payload(o, v) \in Messages
BY DEF Payload, Messages

\* A browser that is told of a change gets one message more.
LEMMA TransmitType ==
  ASSUME down \in [Clients -> Seq(Messages)], NEW o \in Origins, NEW v \in BOOLEAN,
         TransmitData(o, v)
  PROVE  down' \in [Clients -> Seq(Messages)]
<1>1. Payload(o, v) \in Messages
  BY PayloadType
<1> DEFINE more(c) == IF open[c] THEN Append(down[c], Payload(o, v)) ELSE down[c]
<1>2. \A c \in Clients : more(c) \in Seq(Messages)
  BY <1>1
<1>3. down' = [c \in Clients |-> more(c)]
  BY DEF TransmitData
<1> HIDE DEF more
<1> QED
  BY <1>2, <1>3

LEMMA PublishType ==
  ASSUME NEW reports \in [Paths -> BOOLEAN \cup {Nothing}],
         NEW topic \in Paths \cup {Nothing}, NEW v \in BOOLEAN
  PROVE  Publish(reports, topic, v) \in [Paths -> BOOLEAN \cup {Nothing}]
BY DEF Publish

LEMMA HandlersType ==
  ASSUME LightTypeOK, ledOn' \in BOOLEAN, NEW o \in Origins, CallHandlers(o)
  PROVE  /\ reported' \in [Paths -> BOOLEAN \cup {Nothing}]
         /\ down' \in [Clients -> Seq(Messages)]
         /\ led' \in BOOLEAN
<1>1. reported' \in [Paths -> BOOLEAN \cup {Nothing}]
  BY PublishType DEF CallHandlers, LightTypeOK
<1>2. down' \in [Clients -> Seq(Messages)]
  BY TransmitType DEF CallHandlers, LightTypeOK
<1>3. led' \in BOOLEAN
  BY DEF CallHandlers
<1> QED
  BY <1>1, <1>2, <1>3

LEMMA UpdateType ==
  ASSUME LightTypeOK, NEW v \in BOOLEAN, NEW o \in Origins, Update(v, o)
  PROVE  /\ ledOn' \in BOOLEAN /\ led' \in BOOLEAN
         /\ reported' \in [Paths -> BOOLEAN \cup {Nothing}]
         /\ down' \in [Clients -> Seq(Messages)]
<1>1. ledOn' \in BOOLEAN
  BY DEF Update
<1>2. CASE v # ledOn
  BY <1>1, <1>2, HandlersType DEF Update
<1>3. CASE v = ledOn
  BY <1>1, <1>3 DEF Update, LightTypeOK
<1> QED
  BY <1>1, <1>2, <1>3

LEMMA RegisterType ==
  ASSUME LightTypeOK, NEW from \in SUBSET Paths,
         NEW reports \in [Paths -> BOOLEAN \cup {Nothing}], RegisterConfig(from, reports)
  PROVE  /\ subTopic' \in Paths /\ pubTopic' \in Paths /\ subs' \subseteq Paths
         /\ dropped' \subseteq Paths /\ leftOver' \subseteq Paths
         /\ reported' \in [Paths -> BOOLEAN \cup {Nothing}]
<1>1. reported' \in [Paths -> BOOLEAN \cup {Nothing}]
  BY PublishType DEF RegisterConfig, LightTypeOK
<1> QED
  BY <1>1 DEF RegisterConfig, Resubscribed, LightTypeOK

\* What the broker keeps are topics and commands it had.
LEMMA SessionType ==
  ASSUME LightTypeOK, SessionEnds
  PROVE  /\ connected' = FALSE /\ dropped' \subseteq Paths
         /\ subs' \subseteq Paths /\ leftOver' \subseteq Paths
         /\ commands' \in Seq([topic : Paths, command : Commands])
<1>1. <<>> \in Seq([topic : Paths, command : Commands])
  OBVIOUS
<1>2. subs' \subseteq Paths
  BY DEF SessionEnds, LightTypeOK
<1> QED
  BY <1>1, <1>2 DEF SessionEnds, LightTypeOK

\* What a browser sends or receives.
LEMMA FirstFrame ==
  ASSUME LightTypeOK, NEW c \in Clients, up[c] # <<>>
  PROVE  Head(up[c]) \in BOOLEAN /\ Tail(up[c]) \in Seq(BOOLEAN)
BY DEF LightTypeOK

LEMMA FirstMessage ==
  ASSUME LightTypeOK, NEW c \in Clients, down[c] # <<>>
  PROVE  /\ Head(down[c]) \in Messages /\ Tail(down[c]) \in Seq(Messages)
         /\ Head(down[c]).type # "id" => /\ Head(down[c]).type = "payload"
                                        /\ Head(down[c]).value \in BOOLEAN
<1>1. Head(down[c]) \in Messages /\ Tail(down[c]) \in Seq(Messages)
  BY DEF LightTypeOK
<1> QED
  BY <1>1 DEF Messages

LEMMA LightInitBounded == LightInit => LightBounded
<1> SUFFICES ASSUME LightInit PROVE LightBounded
  OBVIOUS
<1>1. edits \in 0..MaxEdits /\ armed \in 0..MaxEdits /\ pathArmed \in 0..MaxEdits
  BY BoundsAssumption DEF LightInit
<1>2. armed <= edits /\ pathArmed <= edits
  BY DEF LightInit
<1>5. subs \subseteq Paths /\ restarts \in 0..MaxRestarts
  BY BoundsAssumption DEF LightInit
<1>3. /\ commands \in Seq([topic : Paths, command : Commands])
      /\ up \in [Clients -> Seq(BOOLEAN)] /\ down \in [Clients -> Seq(Messages)]
  BY DEF LightInit
<1>4. /\ open \in [Clients -> BOOLEAN] /\ known \in [Clients -> BOOLEAN]
      /\ passive \in [Clients -> BOOLEAN]
      /\ shown \in [Clients -> BOOLEAN \cup {Nothing}]
      /\ pending \in [Clients -> BOOLEAN \cup {Nothing}]
  BY DEF LightInit
<1> QED
  BY <1>1, <1>2, <1>3, <1>4, <1>5 DEF LightInit, LightBounded, LightTypeOK

LEMMA LightNextBounded == LightBounded /\ [LightNext]_lightVars => LightBounded'
<1> SUFFICES ASSUME LightBounded, [LightNext]_lightVars PROVE LightBounded'
  OBVIOUS
<1> USE DEF LightBounded
<1>o. "http" \in Origins /\ "mqtt" \in Origins /\ "websocket" \in Origins
  BY DEF Origins
<1>e. ASSUME Edit PROVE edits' \in 0..MaxEdits /\ edits' = edits + 1
  BY <1>e, BoundsAssumption DEF Edit, LightTypeOK
<1>1. ASSUME NEW v \in BOOLEAN, PostLight(v) PROVE LightBounded'
  <2>1. armed' \in 0..MaxEdits /\ armed' <= edits'
    BY <1>1, <1>e, BoundsAssumption DEF PostLight, LightTypeOK
  <2>2. pathArmed' \in 0..MaxEdits /\ pathArmed' <= edits'
    BY <1>1, <1>e, BoundsAssumption DEF PostLight, LightTypeOK, topics
  <2> QED
    BY <1>1, <1>e, <2>1, <2>2 DEF PostLight, LightTypeOK, topics, broker, hook, session
<1>2. ASSUME NEW p \in Paths, PostPath(p) PROVE LightBounded'
  <2>1. pathArmed' \in 0..MaxEdits /\ pathArmed' <= edits'
    BY <1>2, <1>e, BoundsAssumption DEF PostPath, LightTypeOK
  <2>2. armed' \in 0..MaxEdits /\ armed' <= edits'
    BY <1>2, <1>e, BoundsAssumption DEF PostPath, LightTypeOK, light
  <2> QED
    BY <1>2, <1>e, <2>1, <2>2 DEF PostPath, LightTypeOK, light, broker, hook, session
<1>3. CASE LightRequestEnds
  <2>1. /\ reported' \in [Paths -> BOOLEAN \cup {Nothing}]
        /\ down' \in [Clients -> Seq(Messages)] /\ led' \in BOOLEAN
    BY <1>3, <1>o, HandlersType DEF LightRequestEnds, LightTypeOK
  <2>2. armed' \in 0..MaxEdits /\ armed' <= edits' /\ edits' = edits
    BY <1>3, BoundsAssumption DEF LightRequestEnds, LightTypeOK
  <2> QED
    BY <1>3, <2>1, <2>2 DEF LightRequestEnds, LightTypeOK, topics, hook, session
<1>4. CASE PathRequestEnds
  <2>1. /\ subTopic' \in Paths \cup {Nothing} /\ pubTopic' \in Paths \cup {Nothing}
        /\ subs' \subseteq Paths /\ dropped' \subseteq Paths /\ leftOver' \subseteq Paths
        /\ reported' \in [Paths -> BOOLEAN \cup {Nothing}]
    BY <1>4, RegisterType DEF PathRequestEnds, LightTypeOK, session
  <2>2. pathArmed' \in 0..MaxEdits /\ pathArmed' <= edits' /\ edits' = edits
    BY <1>4, BoundsAssumption DEF PathRequestEnds, LightTypeOK
  <2> QED
    BY <1>4, <2>1, <2>2 DEF PathRequestEnds, LightTypeOK, light, hook
<1>5. CASE MqttConnect
  <2> DEFINE from == subs \cup ({subTopic} \ {Nothing})
             reports == Publish(reported, pubTopic, ledOn)
  <2>1. from \in SUBSET Paths /\ reports \in [Paths -> BOOLEAN \cup {Nothing}]
    BY PublishType DEF LightTypeOK
  <2>2. RegisterConfig(from, reports)
    BY <1>5 DEF MqttConnect
  <2> HIDE DEF from, reports
  <2>3. /\ subTopic' \in Paths /\ pubTopic' \in Paths
        /\ subs' \subseteq Paths /\ dropped' \subseteq Paths /\ leftOver' \subseteq Paths
        /\ reported' \in [Paths -> BOOLEAN \cup {Nothing}]
    BY <2>1, <2>2, RegisterType
  <2> QED
    BY <1>5, <2>3 DEF MqttConnect, LightTypeOK, light, hook
<1>6. CASE MqttDisconnect
  BY <1>6, SessionType DEF MqttDisconnect, LightTypeOK, light, topics, hook
<1>7. ASSUME NEW p \in Paths, NEW cmd \in Commands, SendCommand(p, cmd) PROVE LightBounded'
  <2>1. commands' \in Seq([topic : Paths, command : Commands])
    BY <1>7 DEF SendCommand, LightTypeOK
  <2> QED
    BY <1>7, <1>e, <2>1 DEF SendCommand, LightTypeOK, light, topics, hook, session
<1>8. CASE ReceiveCommand
  <2>1. commands' \in Seq([topic : Paths, command : Commands])
    BY <1>8 DEF ReceiveCommand, LightTypeOK
  <2>2. /\ ledOn' \in BOOLEAN /\ led' \in BOOLEAN
        /\ reported' \in [Paths -> BOOLEAN \cup {Nothing}]
        /\ down' \in [Clients -> Seq(Messages)]
    <3>1. CASE Head(commands).topic = subTopic /\ Head(commands).command # "other"
      BY <1>8, <1>o, <3>1, UpdateType DEF ReceiveCommand
    <3>2. CASE ~(Head(commands).topic = subTopic /\ Head(commands).command # "other")
      BY <1>8, <3>2 DEF ReceiveCommand, LightTypeOK
    <3> QED
      BY <3>1, <3>2
  <2> QED
    BY <1>8, <2>1, <2>2 DEF ReceiveCommand, LightTypeOK, topics, hook, session
<1>9. ASSUME NEW c \in Clients, Open(c) PROVE LightBounded'
  <2>1. <<[type |-> "id"], Payload("websocket", ledOn)>> \in Seq(Messages)
    BY <1>o, PayloadType DEF Messages, LightTypeOK
  <2>2. down' \in [Clients -> Seq(Messages)]
    BY <1>9, <2>1 DEF Open, LightTypeOK
  <2> QED
    BY <1>9, <2>2 DEF Open, LightTypeOK, light, topics, broker, session
<1>10. ASSUME NEW c \in Clients, Close(c) PROVE LightBounded'
  <2>1. down' \in [Clients -> Seq(Messages)] /\ up' \in [Clients -> Seq(BOOLEAN)]
    BY <1>10 DEF Close, LightTypeOK
  <2> QED
    BY <1>10, <2>1 DEF Close, LightTypeOK, light, topics, broker, session
<1>11. ASSUME NEW c \in Clients, ReceiveFrame(c) PROVE LightBounded'
  <2>1. c \in Origins
    BY DEF Origins
  <2>2. /\ ledOn' \in BOOLEAN /\ led' \in BOOLEAN
        /\ reported' \in [Paths -> BOOLEAN \cup {Nothing}]
        /\ down' \in [Clients -> Seq(Messages)]
    BY <1>11, <2>1, FirstFrame, UpdateType DEF ReceiveFrame
  <2>3. up' \in [Clients -> Seq(BOOLEAN)]
    BY <1>11, FirstFrame DEF ReceiveFrame, LightTypeOK
  <2> QED
    BY <1>11, <2>2, <2>3 DEF ReceiveFrame, LightTypeOK, topics, session
<1>12. ASSUME NEW c \in Clients, OnMessage(c) PROVE LightBounded'
  <2>1. down' \in [Clients -> Seq(Messages)]
    BY <1>12, FirstMessage DEF OnMessage, LightTypeOK
  <2>2. known' \in [Clients -> BOOLEAN] /\ shown' \in [Clients -> BOOLEAN \cup {Nothing}]
    BY <1>12, FirstMessage DEF OnMessage, LightTypeOK
  <2> QED
    BY <1>12, <2>1, <2>2 DEF OnMessage, LightTypeOK, light, topics, broker, session
<1>13. ASSUME NEW c \in Clients, UpdateData(c) PROVE LightBounded'
  BY <1>13, <1>e DEF UpdateData, LightTypeOK, light, topics, broker, session
<1>14. ASSUME NEW c \in Clients, DoSaveData(c) PROVE LightBounded'
  <2>1. pending[c] \in BOOLEAN
    BY <1>14 DEF DoSaveData, LightTypeOK
  <2>s. Append(up[c], pending[c]) \in Seq(BOOLEAN) /\ up[c] \in Seq(BOOLEAN)
    BY <2>1 DEF LightTypeOK
  <2>2. up' \in [Clients -> Seq(BOOLEAN)]
    BY <1>14, <2>s DEF DoSaveData, LightTypeOK
  <2> QED
    BY <1>14, <2>2 DEF DoSaveData, LightTypeOK, light, topics, broker, session
<1>15. CASE UNCHANGED lightVars
  BY <1>15 DEF lightVars, light, topics, broker, session, hook, LightTypeOK
<1>16. CASE LightRestart
  <2>1. /\ armed' \in 0..MaxEdits /\ armed' <= edits' /\ edits' = edits
        /\ pathArmed' \in 0..MaxEdits /\ pathArmed' <= edits'
        /\ restarts' \in 0..MaxRestarts
    BY <1>16, BoundsAssumption DEF LightRestart, LightTypeOK
  <2>2. down' \in [Clients -> Seq(Messages)] /\ up' \in [Clients -> Seq(BOOLEAN)]
    BY <1>16 DEF LightRestart
  <2>3. /\ open' \in [Clients -> BOOLEAN] /\ known' \in [Clients -> BOOLEAN]
        /\ shown' \in [Clients -> BOOLEAN \cup {Nothing}]
    BY <1>16 DEF LightRestart
  <2> QED
    BY <1>16, <2>1, <2>2, <2>3, SessionType DEF LightRestart, LightTypeOK
<1> QED
  BY <1>1, <1>2, <1>3, <1>4, <1>5, <1>6, <1>7, <1>8, <1>9, <1>10, <1>11, <1>12, <1>13, <1>14,
     <1>15, <1>16 DEF LightNext

\* The light, its topics and the browsers' switches keep their types; a switch
\* never sends a value it does not have.
THEOREM LightTypeCorrect == LightSpec => []LightTypeOK
<1>1. LightBounded => LightTypeOK
  BY DEF LightBounded
<1>2. LightSpec => []LightBounded
  BY LightInitBounded, LightNextBounded, PTL DEF LightSpec
<1> QED
  BY <1>1, <1>2, PTL

-----------------------------------------------------------------------------
(* The light: MQTT *)

LEMMA TopicInit == LightInit => TopicInv
<1> SUFFICES ASSUME LightInit PROVE TopicInv
  OBVIOUS
<1>1. subs \subseteq Paths /\ leftOver = subs /\ (CleanSession => subs = {})
  BY DEF LightInit
<1> QED
  BY <1>1, NamesAssumption DEF LightInit, TopicInv

\* registerConfig() leaves the configured topic as the only one but for those that
\* were left over before.
LEMMA Registered ==
  ASSUME TopicInv, NEW from, leftOver \subseteq from, from \subseteq {subTopic} \cup leftOver,
         subTopic = path => path \in from,
         NEW reports, RegisterConfig(from, reports)
  PROVE  /\ subs' = {path} \cup leftOver' /\ leftOver' = leftOver \ {path}
         /\ subTopic' = path /\ pubTopic' = path
BY DEF RegisterConfig, Resubscribed, TopicInv

\* After a loss of the connection what is forwarded is the topic or left over.
LEMMA SessionTopics ==
  ASSUME SessionEnds, pubTopic' = subTopic'
  PROVE  TopicInv'
<1>1. CleanSession => subs' = {}
  BY DEF SessionEnds
<1>2. connected' = FALSE /\ leftOver' = subs' \ {subTopic'}
  BY DEF SessionEnds
<1> QED
  BY <1>1, <1>2 DEF TopicInv

LEMMA TopicNext == LightBounded /\ TopicInv /\ [LightNext]_lightVars => TopicInv'
<1> SUFFICES ASSUME LightBounded, TopicInv, [LightNext]_lightVars PROVE TopicInv'
  OBVIOUS
<1>p. path \in Paths /\ path # Nothing
  BY NamesAssumption DEF LightBounded, LightTypeOK
<1>1. CASE UNCHANGED <<topics, connected, session>>
  BY <1>1 DEF TopicInv, topics, session
<1>2. ASSUME NEW p \in Paths, PostPath(p) PROVE TopicInv'
  <2>1. pathArmed' # 0
    BY <1>2 DEF PostPath, LightBounded, LightTypeOK
  <2> QED
    BY <1>2, <2>1 DEF PostPath, TopicInv, broker, session
<1>3. CASE PathRequestEnds
  <2>1. CASE connected
    <3>1. RegisterConfig(subs, reported) /\ connected'
      BY <1>3, <2>1 DEF PathRequestEnds
    <3>2. /\ leftOver \subseteq subs /\ subs \subseteq {subTopic} \cup leftOver
          /\ subTopic = path => path \in subs
      BY <2>1 DEF TopicInv
    <3>3. /\ subs' = {path} \cup leftOver' /\ leftOver' = leftOver \ {path}
          /\ subTopic' = path /\ pubTopic' = path
      BY <3>1, <3>2, Registered
    <3>4. path' = path
      BY <1>3 DEF PathRequestEnds
    <3> QED
      BY <3>1, <3>3, <3>4 DEF TopicInv
  <2>2. CASE ~connected
    BY <1>3, <2>2 DEF PathRequestEnds, TopicInv, session
  <2> QED
    BY <2>1, <2>2
<1>4. CASE MqttConnect
  <2> DEFINE from == subs \cup ({subTopic} \ {Nothing})
  <2>1. RegisterConfig(from, Publish(reported, pubTopic, ledOn)) /\ path' = path
    BY <1>4 DEF MqttConnect
  <2>2. /\ leftOver \subseteq from /\ from \subseteq {subTopic} \cup leftOver
        /\ subTopic = path => path \in from
    BY <1>p DEF TopicInv
  <2> HIDE DEF from
  <2>3. /\ subs' = {path} \cup leftOver' /\ leftOver' = leftOver \ {path}
        /\ subTopic' = path /\ pubTopic' = path
    BY <2>1, <2>2, Registered
  <2> QED
    BY <2>1, <2>3 DEF TopicInv
<1>5. CASE MqttDisconnect \/ LightRestart
  BY <1>5, SessionTopics DEF MqttDisconnect, LightRestart, TopicInv, topics
<1>6. ASSUME NEW v \in BOOLEAN, PostLight(v) PROVE TopicInv'
  BY <1>1, <1>6 DEF PostLight, broker
<1>7. CASE LightRequestEnds
  BY <1>1, <1>7 DEF LightRequestEnds
<1>8. ASSUME NEW p \in Paths, NEW cmd \in Commands, SendCommand(p, cmd) PROVE TopicInv'
  BY <1>1, <1>8 DEF SendCommand
<1>9. CASE ReceiveCommand
  BY <1>1, <1>9 DEF ReceiveCommand
<1>10. ASSUME NEW c \in Clients,
              Open(c) \/ Close(c) \/ OnMessage(c) \/ UpdateData(c) \/ DoSaveData(c)
       PROVE  TopicInv'
  BY <1>1, <1>10 DEF Open, Close, OnMessage, UpdateData, DoSaveData, broker
<1>11. ASSUME NEW c \in Clients, ReceiveFrame(c) PROVE TopicInv'
  BY <1>1, <1>11 DEF ReceiveFrame
<1>12. CASE UNCHANGED lightVars
  BY <1>1, <1>12 DEF lightVars, broker
<1> QED
  BY <1>2, <1>3, <1>4, <1>5, <1>6, <1>7, <1>8, <1>9, <1>10, <1>11, <1>12 DEF LightNext

\* While the broker is connected the light listens to the set topic it is
\* configured with and to no other, but for those a session has kept that nobody
\* told to drop them, whatever was edited while the broker was away.
THEOREM ListensToItsTopic == LightSpec => []SubscriptionCurrent
<1>1. TopicInv => SubscriptionCurrent
  BY DEF TopicInv, SubscriptionCurrent
<1>2. LightSpec => []TopicInv
  BY LightInitBounded, LightNextBounded, TopicInit, TopicNext, PTL DEF LightSpec
<1> QED
  BY <1>1, <1>2, PTL

\* With a broker that keeps no session there is no other topic at all.
THEOREM ListensToNoOther ==
  ASSUME CleanSession
  PROVE  LightSpec => [](connected /\ pathArmed = 0 => subTopic = path /\ subs = {path})
<1>1. TopicInv => (connected /\ pathArmed = 0 => subTopic = path /\ subs = {path})
  BY DEF TopicInv
<1> QED
  BY <1>1, LightInitBounded, LightNextBounded, TopicInit, TopicNext, PTL DEF LightSpec

LEMMA Published ==
  ASSUME NEW reports \in [Paths -> BOOLEAN \cup {Nothing}], NEW topic \in Paths, NEW v
  PROVE  Publish(reports, topic, v)[topic] = v
BY NamesAssumption DEF Publish

\* Whoever calls the handlers publishes the state in force.
LEMMA HandlersReport ==
  ASSUME LightBounded, TopicInv, connected, NEW o, CallHandlers(o)
  PROVE  reported'[pubTopic] = ledOn'
<1>1. pubTopic \in Paths
  BY DEF TopicInv, LightBounded, LightTypeOK, session
<1>2. reported' = Publish(reported, pubTopic, ledOn')
  BY DEF CallHandlers
<1> QED
  BY <1>1, <1>2, Published DEF LightBounded, LightTypeOK

LEMMA UpdateReport ==
  ASSUME LightBounded, TopicInv, ReportInv, NEW v, NEW o, Update(v, o),
         UNCHANGED <<armed, topics, connected>>
  PROVE  ReportInv'
<1>1. CASE v # ledOn
  BY <1>1, HandlersReport DEF Update, ReportInv, topics
<1>2. CASE v = ledOn
  BY <1>2 DEF Update, ReportInv, topics
<1> QED
  BY <1>1, <1>2

LEMMA ReportInit == LightInit => ReportInv
BY DEF LightInit, ReportInv

LEMMA ReportNext == LightBounded /\ TopicInv /\ ReportInv /\ [LightNext]_lightVars => ReportInv'
<1> SUFFICES ASSUME LightBounded, TopicInv, ReportInv, [LightNext]_lightVars PROVE ReportInv'
  OBVIOUS
<1>p. path \in Paths /\ pubTopic \in Paths \cup {Nothing} /\ ledOn \in BOOLEAN
      /\ reported \in [Paths -> BOOLEAN \cup {Nothing}]
  BY DEF LightBounded, LightTypeOK
<1>r. ASSUME NEW from, NEW reports \in [Paths -> BOOLEAN \cup {Nothing}],
             RegisterConfig(from, reports), ledOn' = ledOn
      PROVE  reported'[pubTopic'] = ledOn'
  BY <1>p, <1>r, Published DEF RegisterConfig
<1>1. CASE UNCHANGED <<ledOn, armed, reported, connected, pubTopic>>
  BY <1>1 DEF ReportInv
<1>2. ASSUME NEW v \in BOOLEAN, PostLight(v) PROVE ReportInv'
  <2>1. CASE v # ledOn
    <3>1. armed' # 0
      BY <1>2, <2>1 DEF PostLight, LightBounded, LightTypeOK
    <3> QED
      BY <3>1 DEF ReportInv
  <2>2. CASE v = ledOn
    BY <1>1, <1>2, <2>2 DEF PostLight, topics, broker
  <2> QED
    BY <2>1, <2>2
<1>3. CASE LightRequestEnds
  BY <1>3, HandlersReport DEF LightRequestEnds, ReportInv, topics
<1>4. CASE PathRequestEnds
  <2>1. CASE connected
    BY <1>p, <1>r, <1>4, <2>1 DEF PathRequestEnds, ReportInv, light
  <2>2. CASE ~connected
    BY <1>4, <2>2 DEF PathRequestEnds, ReportInv
  <2> QED
    BY <2>1, <2>2
<1>5. CASE MqttConnect
  <2> DEFINE from == subs \cup ({subTopic} \ {Nothing})
             reports == Publish(reported, pubTopic, ledOn)
  <2>1. RegisterConfig(from, reports) /\ ledOn' = ledOn
    BY <1>5 DEF MqttConnect, light
  <2>2. reports \in [Paths -> BOOLEAN \cup {Nothing}]
    BY <1>p, PublishType
  <2> HIDE DEF from, reports
  <2> QED
    BY <1>r, <2>1, <2>2 DEF ReportInv
<1>6. CASE MqttDisconnect \/ LightRestart
  BY <1>6 DEF MqttDisconnect, LightRestart, SessionEnds, ReportInv
<1>7. ASSUME NEW p \in Paths, PostPath(p) PROVE ReportInv'
  BY <1>1, <1>7 DEF PostPath, light, broker
<1>8. ASSUME NEW p \in Paths, NEW cmd \in Commands, SendCommand(p, cmd) PROVE ReportInv'
  BY <1>1, <1>8 DEF SendCommand, light, topics
<1>9. CASE ReceiveCommand
  <2>1. CASE Head(commands).topic = subTopic /\ Head(commands).command # "other"
    BY <1>9, <2>1, UpdateReport DEF ReceiveCommand
  <2>2. CASE ~(Head(commands).topic = subTopic /\ Head(commands).command # "other")
    BY <1>1, <1>9, <2>2 DEF ReceiveCommand, topics
  <2> QED
    BY <2>1, <2>2
<1>10. ASSUME NEW c \in Clients,
              Open(c) \/ Close(c) \/ OnMessage(c) \/ UpdateData(c) \/ DoSaveData(c)
       PROVE  ReportInv'
  BY <1>1, <1>10 DEF Open, Close, OnMessage, UpdateData, DoSaveData, light, topics, broker
<1>11. ASSUME NEW c \in Clients, ReceiveFrame(c) PROVE ReportInv'
  BY <1>11, UpdateReport DEF ReceiveFrame
<1>12. CASE UNCHANGED lightVars
  BY <1>1, <1>12 DEF lightVars, light, topics, broker
<1> QED
  BY <1>2, <1>3, <1>4, <1>5, <1>6, <1>7, <1>8, <1>9, <1>10, <1>11, <1>12 DEF LightNext

\* While the broker is connected the state last published on the configured topic
\* is the light's, across reconnections and changes of the topic.
THEOREM ReportsItsState == LightSpec => []ReportCurrent
<1>1. TopicInv /\ ReportInv => ReportCurrent
  BY DEF TopicInv, ReportInv, ReportCurrent
<1>2. LightSpec => [](LightBounded /\ TopicInv /\ ReportInv)
  BY LightInitBounded, LightNextBounded, TopicInit, TopicNext, ReportInit, ReportNext, PTL
     DEF LightSpec
<1> QED
  BY <1>1, <1>2, PTL

-----------------------------------------------------------------------------
(* The light: WebSocket *)

\* What a step that sends c nothing keeps, unless a request that it makes is
\* still to end; a browser that has sent something may be read from.
LEMMA ClientKept ==
  ASSUME NEW c \in Clients, ClientInv(c),
         UNCHANGED <<open[c], known[c], shown[c], pending[c], passive[c], down[c]>>,
         up'[c] = up[c] \/ (open[c] /\ ~passive[c]),
         armed' # 0 \/ UNCHANGED <<armed, ledOn>>
  PROVE  ClientInv(c)'
<1>1. Quiet(c)' /\ Announced(c)'
  BY DEF ClientInv, Quiet, Announced
<1>2. Heard(c)'
  BY DEF ClientInv, Heard
<1>3. Unspoken(c)'
  BY DEF ClientInv, Unspoken
<1>4. Shows(c)'
  BY DEF ClientInv, Shows
<1> QED
  BY <1>1, <1>2, <1>3, <1>4 DEF ClientInv

\* The handlers tell every browser the state in force.
LEMMA ClientTold ==
  ASSUME LightTypeOK, NEW c \in Clients, ClientInv(c), NEW o, CallHandlers(o),
         UNCHANGED <<open[c], known[c], shown[c], pending[c], passive[c]>>,
         up'[c] = up[c] \/ (open[c] /\ ~passive[c]),
         o # c \/ ~passive[c]
  PROVE  ClientInv(c)'
<1> DEFINE p == Payload(o, ledOn')
<1>1. p.type = "payload" /\ p.origin = o /\ p.value = ledOn'
  BY DEF Payload
<1>2. down'[c] = IF open[c] THEN Append(down[c], p) ELSE down[c]
  BY DEF CallHandlers, TransmitData
<1>3. down[c] \in Seq(Messages)
  BY DEF LightTypeOK
<1> HIDE DEF p
<1>4. CASE open[c]
  <2> DEFINE n == Len(down[c])
  <2>1. /\ down'[c] # <<>> /\ n \in Nat /\ Len(down'[c]) = n + 1
        /\ down'[c][n + 1] = p
        /\ \A i \in 1..n : down'[c][i] = down[c][i]
    BY <1>2, <1>3, <1>4
  <2>2. Quiet(c)' /\ Shows(c)'
    BY <1>4, <2>1 DEF Quiet, Shows
  <2>3. Announced(c)'
    <3>1. ~known[c] => n >= 2 /\ down'[c][1] = down[c][1]
      BY <1>4, <2>1 DEF ClientInv, Announced
    <3> QED
      BY <1>4, <2>1, <3>1 DEF ClientInv, Announced
  <2>4. Heard(c)'
    BY <1>1, <2>1 DEF Heard
  <2>5. Unspoken(c)'
    <3> SUFFICES ASSUME passive[c], NEW i \in 1..n + 1, down'[c][i].type = "payload"
                 PROVE  up'[c] = <<>> /\ down'[c][i].origin # c
      BY <1>4, <2>1 DEF Unspoken, ClientInv
    <3>1. up'[c] = <<>>
      BY <1>4 DEF ClientInv, Unspoken
    <3>2. CASE i = n + 1
      BY <1>1, <2>1, <3>1, <3>2
    <3>3. CASE i # n + 1
      <4>1. i \in 1..n /\ down'[c][i] = down[c][i]
        BY <2>1, <3>3
      <4> QED
        BY <1>4, <3>1, <4>1 DEF ClientInv, Unspoken
    <3> QED
      BY <3>2, <3>3
  <2> QED
    BY <2>2, <2>3, <2>4, <2>5 DEF ClientInv
<1>5. CASE ~open[c]
  BY <1>2, <1>5 DEF ClientInv, Quiet, Announced, Heard, Unspoken, Shows
<1> QED
  BY <1>4, <1>5

LEMMA ClientUpdated ==
  ASSUME LightTypeOK, NEW c \in Clients, ClientInv(c), NEW v, NEW o, Update(v, o),
         UNCHANGED <<open[c], known[c], shown[c], pending[c], passive[c], armed>>,
         up'[c] = up[c] \/ (open[c] /\ ~passive[c]),
         (o # c) \/ ~passive[c]
  PROVE  ClientInv(c)'
<1>1. CASE v # ledOn
  BY <1>1, ClientTold DEF Update
<1>2. CASE v = ledOn
  BY <1>2, ClientKept DEF Update
<1> QED
  BY <1>1, <1>2

\* A browser that reads its next message.
LEMMA ClientReads ==
  ASSUME LightTypeOK, NEW c \in Clients, ClientInv(c), OnMessage(c)
  PROVE  ClientInv(c)'
<1> DEFINE s == down[c]
           m == Head(s)
<1>1. s \in Seq(Messages) /\ s # <<>> /\ open[c] /\ m = s[1]
  BY DEF OnMessage, LightTypeOK, ClientInv, Quiet
<1>2. /\ down'[c] = Tail(s) /\ Len(s) \in Nat /\ Len(s) > 0
      /\ Len(Tail(s)) = Len(s) - 1
      /\ \A i \in 1..Len(s) - 1 : Tail(s)[i] = s[i + 1]
  BY <1>1 DEF OnMessage, LightTypeOK
<1>3. UNCHANGED <<open, up, pending, passive, armed, ledOn>>
  BY DEF OnMessage, light
<1>4. Quiet(c)'
  BY <1>1, <1>3 DEF Quiet
<1>5. ~known[c] => Len(s) >= 2 /\ m.type = "id"
  BY <1>1 DEF ClientInv, Announced
<1>6. known'[c] /\ (m.type # "id" => known[c])
  BY <1>5 DEF OnMessage, LightTypeOK
<1>7. Announced(c)'
  BY <1>6 DEF Announced
<1>8. Heard(c)'
  <2> SUFFICES ASSUME Tail(s) # <<>>
               PROVE  /\ Tail(s)[Len(Tail(s))] = s[Len(s)]
    BY <1>1, <1>2, <1>3 DEF ClientInv, Heard
  <2>1. Len(s) - 1 \in 1..Len(s) - 1
    BY <1>1, <1>2
  <2> QED
    BY <1>2, <2>1
<1>9. Unspoken(c)'
  <2> SUFFICES ASSUME passive[c], NEW i \in 1..Len(s) - 1, Tail(s)[i].type = "payload"
               PROVE  Tail(s)[i].origin # c
    BY <1>1, <1>2, <1>3 DEF ClientInv, Unspoken
  <2>1. i + 1 \in 1..Len(s) /\ Tail(s)[i] = s[i + 1]
    BY <1>2
  <2> QED
    BY <1>1, <2>1 DEF ClientInv, Unspoken
<1>10. Shows(c)'
  <2> SUFFICES ASSUME passive[c], Tail(s) = <<>>, armed = 0
               PROVE  shown'[c] = ledOn
    BY <1>2, <1>3 DEF Shows
  <2>1. Len(s) = 1
    <3>1. Len(<<>>) = 0
      OBVIOUS
    <3>2. Len(Tail(s)) = 0
      BY <3>1, Zenon
    <3> QED
      BY <1>2, <3>2
  <2>2. m.type = "payload" /\ m.value = ledOn
    BY <1>1, <2>1 DEF ClientInv, Heard
  <2>3. m.origin # c /\ known[c]
    BY <1>1, <1>6, <2>1, <2>2 DEF ClientInv, Unspoken
  <2> QED
    BY <2>2, <2>3 DEF OnMessage, LightTypeOK
<1> QED
  BY <1>4, <1>7, <1>8, <1>9, <1>10 DEF ClientInv

LEMMA BrowsersInit == LightInit => BrowsersInv
BY DEF LightInit, BrowsersInv, ClientInv, Quiet, Announced, Heard, Unspoken, Shows

LEMMA BrowsersNext == LightBounded /\ BrowsersInv /\ [LightNext]_lightVars => BrowsersInv'
<1> SUFFICES ASSUME LightBounded, BrowsersInv, [LightNext]_lightVars, NEW c \in Clients
             PROVE  ClientInv(c)'
  BY DEF BrowsersInv
<1>i. LightTypeOK /\ ClientInv(c) /\ "http" # c /\ "mqtt" # c
  BY NamesAssumption DEF BrowsersInv, LightBounded
<1>1. CASE UNCHANGED <<hook, down, light>>
  BY <1>i, <1>1, ClientKept DEF hook, light
<1>2. ASSUME NEW v \in BOOLEAN, PostLight(v) PROVE ClientInv(c)'
  <2>1. armed' # 0 \/ UNCHANGED <<armed, ledOn>>
    BY <1>2, <1>i DEF PostLight, LightTypeOK
  <2> QED
    BY <1>i, <1>2, <2>1, ClientKept DEF PostLight, hook
<1>3. CASE LightRequestEnds
  BY <1>i, <1>3, ClientTold DEF LightRequestEnds, hook
<1>4. ASSUME PathRequestEnds \/ MqttConnect \/ MqttDisconnect PROVE ClientInv(c)'
  BY <1>1, <1>4 DEF PathRequestEnds, MqttConnect, MqttDisconnect
<1>5. ASSUME NEW p \in Paths, PostPath(p) PROVE ClientInv(c)'
  BY <1>1, <1>5 DEF PostPath
<1>6. ASSUME NEW p \in Paths, NEW cmd \in Commands, SendCommand(p, cmd) PROVE ClientInv(c)'
  BY <1>1, <1>6 DEF SendCommand
<1>7. CASE ReceiveCommand
  <2>1. CASE Head(commands).topic = subTopic /\ Head(commands).command # "other"
    BY <1>i, <1>7, <2>1, ClientUpdated DEF ReceiveCommand, hook
  <2>2. CASE ~(Head(commands).topic = subTopic /\ Head(commands).command # "other")
    BY <1>1, <1>7, <2>2 DEF ReceiveCommand, light
  <2> QED
    BY <2>1, <2>2
<1>8. ASSUME NEW d \in Clients, d # c,
             Open(d) \/ Close(d) \/ OnMessage(d) \/ UpdateData(d) \/ DoSaveData(d)
      PROVE  ClientInv(c)'
  <2>1. UNCHANGED <<open[c], known[c], shown[c], pending[c], passive[c], up[c], down[c], light>>
    BY <1>i, <1>8 DEF Open, Close, OnMessage, UpdateData, DoSaveData, LightTypeOK
  <2> QED
    BY <1>i, <2>1, ClientKept DEF light
<1>9. ASSUME NEW d \in Clients, ReceiveFrame(d) PROVE ClientInv(c)'
  <2>1. d = c => open[c] /\ ~passive[c]
    BY <1>i, <1>9 DEF ReceiveFrame, ClientInv, Quiet, Unspoken
  <2>2. d # c => up'[c] = up[c]
    BY <1>i, <1>9 DEF ReceiveFrame, LightTypeOK
  <2> QED
    BY <1>i, <1>9, <2>1, <2>2, ClientUpdated DEF ReceiveFrame
<1>10. CASE Open(c)
  <2> DEFINE first == [type |-> "id"]
             second == Payload("websocket", ledOn)
  <2>1. second.type = "payload" /\ second.origin = "websocket" /\ second.value = ledOn
    BY DEF Payload
  <2>2. "websocket" # c
    BY NamesAssumption
  <2>3. down'[c] = <<first, second>> /\ open'[c] /\ first.type = "id"
    BY <1>i, <1>10 DEF Open, LightTypeOK
  <2> HIDE DEF second
  <2>4. /\ Len(down'[c]) = 2 /\ down'[c][1].type = "id" /\ down'[c][2] = second
        /\ down'[c] # <<>>
    BY <2>3
  <2>5. UNCHANGED <<known, up, ledOn, armed>> /\ up[c] = <<>>
    BY <1>i, <1>10 DEF Open, light, ClientInv, Quiet
  <2>6. Quiet(c)' /\ Announced(c)' /\ Shows(c)'
    BY <2>3, <2>4 DEF Quiet, Announced, Shows
  <2>7. Heard(c)'
    BY <2>1, <2>4, <2>5 DEF Heard
  <2>8. Unspoken(c)'
    <3>1. \A i \in 1..2 : i = 1 \/ i = 2
      OBVIOUS
    <3> QED
      BY <2>1, <2>2, <2>4, <2>5, <3>1 DEF Unspoken
  <2> QED
    BY <2>6, <2>7, <2>8 DEF ClientInv
<1>11. CASE Close(c)
  <2>1. ~open'[c] /\ ~known'[c] /\ up'[c] = <<>> /\ down'[c] = <<>>
    BY <1>i, <1>11 DEF Close, LightTypeOK
  <2> QED
    BY <2>1 DEF ClientInv, Quiet, Announced, Heard, Unspoken, Shows
<1>18. CASE LightRestart
  <2>1. ~open'[c] /\ ~known'[c] /\ up'[c] = <<>> /\ down'[c] = <<>>
    BY <1>18 DEF LightRestart
  <2> QED
    BY <2>1 DEF ClientInv, Quiet, Announced, Heard, Unspoken, Shows
<1>12. CASE OnMessage(c)
  BY <1>i, <1>12, ClientReads
<1>13. CASE UpdateData(c)
  <2>1. pending'[c] # Nothing
    BY <1>i, <1>13, NamesAssumption DEF UpdateData, LightTypeOK
  <2>2. UNCHANGED <<open, known, up, down, passive, ledOn, armed>>
    BY <1>13 DEF UpdateData, light
  <2> QED
    BY <1>i, <2>1, <2>2 DEF ClientInv, Quiet, Announced, Heard, Unspoken, Shows
<1>14. CASE DoSaveData(c)
  <2>1. ~passive'[c] /\ (~open[c] => up'[c] = up[c])
    BY <1>i, <1>14 DEF DoSaveData, LightTypeOK
  <2>2. UNCHANGED <<open, known, shown, down, ledOn, armed>>
    BY <1>14 DEF DoSaveData, light
  <2> QED
    BY <1>i, <2>1, <2>2 DEF ClientInv, Quiet, Announced, Heard, Unspoken, Shows
<1>15. CASE UNCHANGED lightVars
  BY <1>1, <1>15 DEF lightVars
<1> QED
  BY <1>2, <1>3, <1>4, <1>5, <1>6, <1>7, <1>8, <1>9, <1>10, <1>11, <1>12, <1>13, <1>14, <1>15, <1>18
  DEF LightNext

\* A switch that nobody has flipped since its socket opened shows the light once
\* its messages have arrived, whoever else changes the light meanwhile.
THEOREM WatchersSeeTheLight == LightSpec => []WatchersCurrent
<1>1. LightBounded /\ BrowsersInv => WatchersCurrent
  BY DEF BrowsersInv, WatchersCurrent, Settled, ClientInv, Quiet, Shows
<1>2. LightSpec => [](LightBounded /\ BrowsersInv)
  BY LightInitBounded, LightNextBounded, BrowsersInit, BrowsersNext, PTL DEF LightSpec
<1> QED
  BY <1>1, <1>2, PTL

-----------------------------------------------------------------------------
(* Uploads: type correctness *)

LEMMA NothingWritten == << >> \in Seq(Requests) /\ Len(<< >>) <= Chunks
  BY ChunksAssumption

LEMMA InitTypeOK == Init => TypeOK
<1> SUFFICES ASSUME Init PROVE TypeOK
  OBVIOUS
<1>1. written \in Seq(Requests) /\ Len(written) <= Chunks /\ flash \in Seq(Requests)
  BY NothingWritten DEF Init
<1>2. sent \in 0..MaxRequests /\ chunks \in [Requests -> 0..Chunks]
  BY ChunksAssumption, RequestsAssumption DEF Init
<1> QED
  BY <1>1, <1>2 DEF Init, TypeOK

LEMMA GoDownTypeOK ==
  ASSUME TypeOK, GoDown, power' = "off", selected' \in BOOLEAN
  PROVE  TypeOK'
  BY ChunksAssumption DEF GoDown, GiveUp, TypeOK

LEMMA StepTypeOK == TypeOK /\ [Next]_vars => TypeOK'
<1> SUFFICES ASSUME TypeOK, [Next]_vars PROVE TypeOK'
  OBVIOUS
<1>1. ASSUME NEW r \in Requests, TurnAway(r) PROVE TypeOK'
  BY <1>1, ChunksAssumption DEF TurnAway, Receives, TypeOK, updater, browser
<1>2. ASSUME NEW r \in Requests, StoreChunk(r) PROVE TypeOK'
  <2>1. Taken(r) \in Seq(Requests) /\ Len(Taken(r)) < Chunks
    BY <1>2 DEF StoreChunk, Taken, TypeOK
  <2>2. written' \in Seq(Requests) /\ Len(written') <= Chunks /\ flash' \in Seq(Requests)
    BY <1>2, <2>1, ChunksAssumption DEF StoreChunk
  <2>3. chunks' \in [Requests -> 0..Chunks] /\ onDisconnect' \in [Requests -> {"none", "end", "restart"}]
    BY <1>2, ChunksAssumption DEF StoreChunk, Receives, Watch, TypeOK
  <2>4. update' \in {"idle", "running", "error"} /\ selected' \in BOOLEAN
    BY <1>2 DEF StoreChunk, TypeOK
  <2> QED
    BY <1>2, <2>2, <2>3, <2>4 DEF StoreChunk, Receives, TypeOK, browser
<1>3. ASSUME NEW r \in Requests, RejectChunk(r) PROVE TypeOK'
  <2>1. Taken(r) \in Seq(Requests) /\ Len(Taken(r)) <= Chunks
    BY ChunksAssumption DEF Taken, TypeOK
  <2>2. written' \in Seq(Requests) /\ Len(written') <= Chunks /\ flash' \in Seq(Requests)
    BY <1>3, <2>1 DEF RejectChunk, TypeOK
  <2>3. chunks' \in [Requests -> 0..Chunks] /\ onDisconnect' \in [Requests -> {"none", "end", "restart"}]
    BY <1>3, ChunksAssumption DEF RejectChunk, Receives, Watch, TypeOK
  <2>4. update' \in {"idle", "running", "error"}
    BY <1>3 DEF RejectChunk, TypeOK
  <2> QED
    BY <1>3, <2>2, <2>3, <2>4 DEF RejectChunk, Receives, TypeOK, browser
<1>4. ASSUME NEW r \in Requests, UploadComplete(r) PROVE TypeOK'
  BY <1>4 DEF UploadComplete, TypeOK, updater, browser
<1>5. ASSUME NEW r \in Requests, Restart(r) PROVE TypeOK'
  BY <1>5, RequestsAssumption DEF Restart, TypeOK, updater
<1>6. ASSUME NEW r \in Requests, HangUp(r) PROVE TypeOK'
  <2>1. CASE onDisconnect[r] = "restart"
    BY <1>6, <2>1, GoDownTypeOK DEF HangUp, GoDown, TypeOK
  <2>2. CASE onDisconnect[r] # "restart"
    <3>1. page' \in {"form", page} /\ current' \in {None, current}
      BY <1>6, <2>2 DEF HangUp, GiveUp
    <3>2. UNCHANGED <<written, flash, selected, firmware, power, sent>>
      BY <1>6, <2>2 DEF HangUp
    <3>3. chunks' \in [Requests -> 0..Chunks]
      BY <1>6, <2>2, ChunksAssumption DEF HangUp, TypeOK
    <3>4. /\ request' = [request EXCEPT ![r] = "none"]
          /\ onDisconnect' = [onDisconnect EXCEPT ![r] = "none"]
          /\ update' \in {"idle", update}
      BY <1>6, <2>2 DEF HangUp
    <3> QED
      BY <3>1, <3>2, <3>3, <3>4 DEF TypeOK
  <2> QED
    BY <2>1, <2>2
<1>7. ASSUME NEW r \in Requests, Upload(r) PROVE TypeOK'
  BY <1>7, ChunksAssumption, RequestsAssumption DEF Upload, TypeOK, updater
<1>8. CASE PowerCut
  BY <1>8, GoDownTypeOK, PlatformAssumption DEF PowerCut, GoDown, TypeOK
<1>9. CASE Boot
  BY <1>9 DEF Boot, TypeOK, device, browser
<1>10. CASE Cancel
  BY <1>10 DEF Cancel, GiveUp, TypeOK, device, updater
<1>11. CASE Answered
  BY <1>11 DEF Answered, TypeOK, device, updater
<1>12. CASE Poll
  BY <1>12 DEF Poll, TypeOK, device, updater
<1>13. CASE ReadyAgain
  BY <1>13 DEF ReadyAgain, TypeOK, device, updater
<1>14. CASE UNCHANGED vars
  BY <1>14 DEF vars, device, updater, browser, TypeOK
<1> QED
  BY <1>1, <1>2, <1>3, <1>4, <1>5, <1>6, <1>7, <1>8, <1>9, <1>10, <1>11, <1>12,
     <1>13, <1>14 DEF Next, HandleUpload

\* Every variable keeps its type: no chunk is counted twice and the update takes no
\* more than it was begun for (UploadFirmwareService.cpp:44-56).
THEOREM TypeCorrect == Spec => []TypeOK
  BY InitTypeOK, StepTypeOK, PTL DEF Spec

-----------------------------------------------------------------------------
(* Uploads: no update without a client *)

\* r has begun the update that is running, and its client is watched.
Begun(r) == onDisconnect[r] = "end" /\ chunks[r] < Chunks

\* A request that has ended, or whose first chunk has yet to come, watches nothing.
WatchInv ==
    /\ \A r \in Requests : request[r] = "none" => onDisconnect[r] = "none"
    /\ \A r \in Requests : onDisconnect[r] = "end" => chunks[r] # 0
    /\ update # "idle" => \E r \in Requests : Begun(r)

LEMMA InitWatchInv == Init => WatchInv
  BY DEF Init, WatchInv

LEMMA StepWatchInv == TypeOK /\ WatchInv /\ [Next]_vars => WatchInv'
<1> SUFFICES ASSUME TypeOK, WatchInv, [Next]_vars PROVE WatchInv'
  OBVIOUS
<1>0. ASSUME GoDown PROVE WatchInv'
  BY <1>0 DEF GoDown, WatchInv
<1>1. ASSUME NEW r \in Requests, TurnAway(r) PROVE WatchInv'
  <2>1. onDisconnect' = onDisconnect /\ update' = update
    BY <1>1 DEF TurnAway, updater
  <2>2. chunks[r] = 0 /\ onDisconnect[r] # "end"
    BY <1>1 DEF TurnAway, First, WatchInv
  <2>3. chunks'[r] = 1 /\ \A q \in Requests \ {r} : chunks'[q] = chunks[q]
    BY <1>1, <2>2 DEF TurnAway, Receives, TypeOK
  <2>4. \A q \in Requests : request'[q] = "none" => request[q] = "none"
    BY <1>1 DEF TurnAway, TypeOK
  <2>5. \A q \in Requests : Begun(q) => Begun(q)'
    BY <2>1, <2>2, <2>3 DEF Begun
  <2> QED
    BY <2>1, <2>2, <2>3, <2>4, <2>5 DEF WatchInv
<1>2. ASSUME NEW r \in Requests, StoreChunk(r) \/ RejectChunk(r) PROVE WatchInv'
  <2>1. /\ chunks' = [chunks EXCEPT ![r] = @ + 1]
        /\ chunks[r] < Chunks
        /\ request[r] = "upload"
    BY <1>2 DEF StoreChunk, RejectChunk, Receives
  <2>2. onDisconnect' = IF First(r) THEN [onDisconnect EXCEPT ![r] = "end"] ELSE onDisconnect
    BY <1>2 DEF StoreChunk, RejectChunk, Watch
  <2>3. \A q \in Requests : request'[q] = "none" => request[q] = "none" /\ q # r
    BY <1>2, <2>1 DEF StoreChunk, RejectChunk, TypeOK
  <2>4. \A q \in Requests \ {r} : onDisconnect'[q] = onDisconnect[q] /\ chunks'[q] = chunks[q]
    BY <2>1, <2>2 DEF TypeOK
  <2>5. chunks'[r] = chunks[r] + 1 /\ chunks'[r] # 0
    BY <2>1 DEF TypeOK
  <2>6. ASSUME update' # "idle" PROVE \E q \in Requests : Begun(q)'
    <3>1. chunks'[r] < Chunks
      BY <1>2, <2>1, <2>5, <2>6, ChunksAssumption DEF StoreChunk, RejectChunk, Last, TypeOK
    <3>2. CASE First(r)
      BY <2>2, <3>1, <3>2 DEF Begun, TypeOK
    <3>3. CASE ~First(r)
      <4>1. update # "idle"
        BY <1>2, <2>6, <3>3 DEF StoreChunk, RejectChunk, Running
      <4>2. PICK q \in Requests : Begun(q)
        BY <4>1 DEF WatchInv
      <4>3. Begun(q)'
        BY <2>2, <2>4, <3>1, <3>3, <4>2 DEF Begun
      <4> QED
        BY <4>3
    <3> QED
      BY <3>2, <3>3
  <2>7. \A q \in Requests : onDisconnect'[q] = "end" => chunks'[q] # 0
    BY <2>4, <2>5 DEF WatchInv
  <2>8. \A q \in Requests : request'[q] = "none" => onDisconnect'[q] = "none"
    BY <2>3, <2>4 DEF WatchInv
  <2> QED
    BY <2>6, <2>7, <2>8 DEF WatchInv
<1>3. ASSUME NEW r \in Requests, UploadComplete(r) \/ Restart(r) PROVE WatchInv'
  <2>1. onDisconnect' = [onDisconnect EXCEPT ![r] = "restart"] /\ update' = update /\ chunks' = chunks
    BY <1>3 DEF UploadComplete, Restart, updater
  <2>2. ~Begun(r)
    BY <1>3, ChunksAssumption DEF UploadComplete, Restart, Begun, WatchInv
  <2>3. \A q \in Requests : Begun(q) => Begun(q)'
    BY <2>1, <2>2 DEF Begun, TypeOK
  <2>4. \A q \in Requests : request'[q] = "none" => request[q] = "none" /\ q # r
    BY <1>3 DEF UploadComplete, Restart, TypeOK
  <2> QED
    BY <2>1, <2>3, <2>4 DEF WatchInv, TypeOK
<1>4. ASSUME NEW r \in Requests, HangUp(r) PROVE WatchInv'
  <2>1. CASE onDisconnect[r] = "restart"
    BY <1>0, <1>4, <2>1 DEF HangUp
  <2>2. CASE onDisconnect[r] = "end"
    BY <1>4, <2>2 DEF HangUp, WatchInv, TypeOK
  <2>3. CASE onDisconnect[r] = "none"
    <3>1. \A q \in Requests : Begun(q) => Begun(q)'
      BY <1>4, <2>3 DEF HangUp, Begun, TypeOK
    <3> QED
      BY <1>4, <2>3, <3>1 DEF HangUp, WatchInv, TypeOK
  <2> QED
    BY <2>1, <2>2, <2>3 DEF TypeOK
<1>5. ASSUME NEW r \in Requests, Upload(r) PROVE WatchInv'
  <2>1. onDisconnect[r] = "none"
    BY <1>5 DEF Upload, WatchInv
  <2>2. \A q \in Requests : Begun(q) => Begun(q)'
    BY <1>5, <2>1 DEF Upload, Begun, TypeOK
  <2> QED
    BY <1>5, <2>1, <2>2 DEF Upload, WatchInv, TypeOK, updater
<1>6. CASE PowerCut
  BY <1>0, <1>6 DEF PowerCut
<1>7. CASE Boot
  BY <1>7 DEF Boot, WatchInv, Begun, device
<1>8. CASE Cancel \/ Answered \/ Poll \/ ReadyAgain
  BY <1>8 DEF Cancel, Answered, Poll, ReadyAgain, WatchInv, Begun, device, updater
<1>9. CASE UNCHANGED vars
  BY <1>9 DEF vars, device, updater, WatchInv, Begun
<1> QED
  BY <1>1, <1>2, <1>3, <1>4, <1>5, <1>6, <1>7, <1>8, <1>9 DEF Next, HandleUpload

\* Whatever uploads overlap, fail or are cut short, an update that runs or is in
\* error has a client whose disconnection ends it, so no update is left to turn
\* away all later ones (UploadFirmwareService.cpp:30-32).
THEOREM UpdatesAreWatched == Spec => []EndsWhenHungUp
<1>1. WatchInv => EndsWhenHungUp
  BY DEF WatchInv, EndsWhenHungUp, Begun
<1> QED
  BY <1>1, InitTypeOK, StepTypeOK, InitWatchInv, StepWatchInv, PTL DEF Spec

-----------------------------------------------------------------------------
(* Uploads: what was reported is what runs *)

Uploading(r) == request[r] \in {"upload", "failed", "answered"}

\* The flash holds the firmware to boot.
Ready == selected /\ Whole(flash)

\* All the update has taken so far is from r.
Filled(r) == Len(written) = chunks[r] /\ \A i \in 1..Len(written) : written[i] = r

\* With one upload at a time its request alone decides what the flash holds, until
\* the page that was told of its success sees it run.
InstallInv ==
    /\ \A p, q \in Requests : Uploading(p) /\ Uploading(q) => p = q
    /\ power = "off" => \A r \in Requests : request[r] = "none"
    /\ page = "uploading" => current \in Requests /\ Uploading(current)
    /\ \A r \in Requests :
          request[r] = "upload" /\ chunks[r] # 0 /\ chunks[r] < Chunks => Filled(r)
    /\ \A r \in Requests :
          request[r] = "answered" \/ (request[r] = "upload" /\ chunks[r] = Chunks) => Ready
    /\ page = "restarting" =>
          /\ \A r \in Requests : Uploading(r) => request[r] = "answered"
          /\ Ready \/ (~selected /\ firmware = "uploaded")

LEMMA InitInstallInv == Init => InstallInv
  BY DEF Init, InstallInv, Uploading

LEMMA GoDownInstallInv ==
  ASSUME TypeOK, InstallInv, GoDown, power = "on", power' = "off", selected' = selected
  PROVE  InstallInv'
<1>1. \A r \in Requests : request'[r] = "none"
  BY DEF GoDown
<1>2. page' # "uploading" /\ (page' = "restarting" => page = "restarting")
  BY DEF GoDown, GiveUp
<1>3. (Ready <=> Ready') /\ firmware' = firmware
  BY DEF GoDown, Ready, Whole
<1> QED
  BY <1>1, <1>2, <1>3 DEF InstallInv, Uploading

LEMMA StoreInstallInv ==
  ASSUME TypeOK, InstallInv, NEW r \in Requests, StoreChunk(r)
  PROVE  InstallInv'
<1>1. /\ power = "on" /\ request[r] = "upload" /\ chunks[r] < Chunks
      /\ chunks' = [chunks EXCEPT ![r] = @ + 1]
      /\ UNCHANGED <<request, firmware, power, page, current>>
  BY DEF StoreChunk, Receives, browser
<1>2. chunks'[r] = chunks[r] + 1 /\ chunks[r] \in Nat
  BY <1>1 DEF TypeOK
<1>3. \A q \in Requests : Uploading(q) => q = r
  BY <1>1 DEF InstallInv, Uploading
<1>4. page # "restarting"
  BY <1>1 DEF InstallInv, Uploading
<1>5. /\ Taken(r) \in Seq(Requests)
      /\ Len(Taken(r)) = chunks[r]
      /\ \A i \in 1..Len(Taken(r)) : Taken(r)[i] = r
  <2>1. CASE chunks[r] = 0
    BY <2>1 DEF Taken, First
  <2>2. CASE chunks[r] # 0
    BY <1>1, <2>2 DEF Taken, First, InstallInv, Filled, TypeOK
  <2> QED
    BY <2>1, <2>2
<1>6. written' = Append(Taken(r), r) /\ flash' = written'
  BY DEF StoreChunk
<1>7. Len(written') = chunks'[r] /\ \A i \in 1..Len(written') : written'[i] = r
  BY <1>2, <1>5, <1>6
<1>8. ASSUME chunks'[r] = Chunks PROVE Ready'
  <2>1. selected'
    BY <1>2, <1>8 DEF StoreChunk, Last
  <2>2. Whole(flash')
    BY <1>6, <1>7, <1>8 DEF Whole
  <2> QED
    BY <2>1, <2>2 DEF Ready
<1>9. \A q \in Requests : Uploading(q)' <=> Uploading(q)
  BY <1>1 DEF Uploading
<1>10. \A q \in Requests : request'[q] = "upload" => q = r /\ Filled(q)'
  BY <1>1, <1>3, <1>7 DEF Uploading, Filled
<1>11. \A q \in Requests : request'[q] = "answered" => FALSE
  BY <1>1, <1>3 DEF Uploading
<1> QED
  BY <1>1, <1>4, <1>8, <1>9, <1>10, <1>11 DEF InstallInv

LEMMA FailInstallInv ==
  ASSUME TypeOK, InstallInv, NEW r \in Requests, TurnAway(r) \/ RejectChunk(r)
  PROVE  InstallInv'
<1>1. /\ request[r] = "upload" /\ power = "on"
      /\ request' = [request EXCEPT ![r] = "failed"]
      /\ UNCHANGED <<power, page, current>>
  BY DEF TurnAway, RejectChunk, Receives, browser
<1>2. \A q \in Requests : Uploading(q) => q = r
  BY <1>1 DEF InstallInv, Uploading
<1>3. \A q \in Requests : request'[q] \in {"none", "restart", "failed"}
  BY <1>1, <1>2 DEF Uploading, TypeOK
<1>4. \A q \in Requests : Uploading(q)' <=> Uploading(q)
  BY <1>1 DEF Uploading, TypeOK
<1>5. page # "restarting"
  BY <1>1 DEF InstallInv, Uploading
<1> QED
  BY <1>1, <1>3, <1>4, <1>5 DEF InstallInv

LEMMA StepInstallInv ==
  ASSUME ESP32, ~Overlapping, TypeOK, InstallInv, [Next]_vars
  PROVE  InstallInv'
<1>1. ASSUME NEW r \in Requests, HandleUpload(r) PROVE InstallInv'
  BY <1>1, StoreInstallInv, FailInstallInv DEF HandleUpload
<1>2. ASSUME NEW r \in Requests, UploadComplete(r) PROVE InstallInv'
  <2>1. /\ request[r] = "upload" /\ chunks[r] = Chunks
        /\ request' = [request EXCEPT ![r] = "answered"]
        /\ UNCHANGED <<chunks, written, flash, selected, power, page, current, firmware>>
    BY <1>2 DEF UploadComplete, updater, browser
  <2>2. Ready
    BY <2>1 DEF InstallInv
  <2>3. \A q \in Requests : Uploading(q)' <=> Uploading(q)
    BY <2>1 DEF Uploading, TypeOK
  <2>4. Ready' <=> Ready
    BY <2>1 DEF Ready, Whole
  <2>5. \A q \in Requests : Uploading(q) => q = r
    BY <2>1 DEF InstallInv, Uploading
  <2>6. request'[r] = "answered" /\ power = "on"
    BY <1>2, <2>1 DEF UploadComplete, TypeOK
  <2>7. \A q \in Requests : Uploading(q)' => request'[q] = "answered"
    BY <2>3, <2>5, <2>6
  <2> QED
    BY <2>1, <2>2, <2>3, <2>4, <2>6, <2>7 DEF InstallInv, Uploading
<1>3. ASSUME NEW r \in Requests, Restart(r) PROVE InstallInv'
  <2>1. /\ request[r] = "none" /\ power = "on"
        /\ request' = [request EXCEPT ![r] = "restart"]
        /\ UNCHANGED <<chunks, written, flash, selected, power, page, current, firmware>>
    BY <1>3 DEF Restart, updater
  <2>2. \A q \in Requests : Uploading(q)' => Uploading(q) /\ request'[q] = request[q]
    BY <2>1 DEF Uploading, TypeOK
  <2>3. \A q \in Requests : Uploading(q) => Uploading(q)'
    BY <2>1 DEF Uploading, TypeOK
  <2>4. /\ Ready' <=> Ready
        /\ \A q \in Requests : Filled(q)' <=> Filled(q)
    BY <2>1 DEF Ready, Whole, Filled
  <2>5. \A q \in Requests : request'[q] \in {"upload", "answered"} => Uploading(q)'
    BY DEF Uploading
  <2> QED
    BY <2>1, <2>2, <2>3, <2>4, <2>5 DEF InstallInv
<1>4. ASSUME NEW r \in Requests, HangUp(r) PROVE InstallInv'
  <2>1. CASE onDisconnect[r] = "restart"
    BY <1>4, <2>1, GoDownInstallInv DEF HangUp, GoDown
  <2>2. CASE onDisconnect[r] # "restart"
    <3>1. /\ power = "on" /\ request' = [request EXCEPT ![r] = "none"]
          /\ chunks' = [chunks EXCEPT ![r] = 0]
          /\ UNCHANGED <<written, flash, selected, firmware, power>>
      BY <1>4, <2>2 DEF HangUp
    <3>2. \A q \in Requests : Uploading(q)' =>
              q # r /\ Uploading(q) /\ request'[q] = request[q] /\ chunks'[q] = chunks[q]
      BY <3>1 DEF Uploading, TypeOK
    <3>3. \A q \in Requests \ {r} : Uploading(q) => Uploading(q)'
      BY <3>1 DEF Uploading, TypeOK
    <3>4. Ready' <=> Ready
      BY <3>1 DEF Ready, Whole
    <3>5. \A q \in Requests \ {r} : Filled(q)' <=> Filled(q)
      BY <3>1 DEF Filled, TypeOK
    <3>6. /\ page' = "uploading" => page = "uploading" /\ current' = current /\ current # r
          /\ page' = "restarting" => page = "restarting"
      BY <1>4, <2>2 DEF HangUp, GiveUp
    <3>7. \A q \in Requests : request'[q] \in {"upload", "answered"} => Uploading(q)'
      BY DEF Uploading
    <3> QED
      BY <3>1, <3>2, <3>3, <3>4, <3>5, <3>6, <3>7 DEF InstallInv
  <2> QED
    BY <2>1, <2>2
<1>5. ASSUME NEW r \in Requests, Upload(r) PROVE InstallInv'
  <2>1. /\ request' = [request EXCEPT ![r] = "upload"] /\ power = "on" /\ power' = power
        /\ chunks' = [chunks EXCEPT ![r] = 0]
        /\ page' = "uploading" /\ current' = r
        /\ \A q \in Requests : ~Uploading(q)
    BY <1>5 DEF Upload, Uploading
  <2>2. \A q \in Requests \ {r} : ~Uploading(q)'
    BY <2>1 DEF Uploading, TypeOK
  <2>3. request'[r] = "upload" /\ chunks'[r] = 0
    BY <2>1 DEF TypeOK
  <2> QED
    BY <2>1, <2>2, <2>3, ChunksAssumption DEF InstallInv, Uploading
<1>6. CASE PowerCut
  <2>1. /\ GoDown /\ power = "on" /\ power' = "off"
        /\ selected' = (selected /\ ESP32)
    BY <1>6 DEF PowerCut, GoDown
  <2>2. selected' = selected
    BY <2>1 DEF TypeOK
  <2> QED
    BY <2>1, <2>2, GoDownInstallInv
<1>7. CASE Boot
  <2>1. \A r \in Requests : request'[r] = "none"
    BY <1>7 DEF Boot, InstallInv, device
  <2>2. page' = page /\ page # "uploading" /\ power' = "on"
    <3>1. power = "off" /\ page' = page
      BY <1>7 DEF Boot, browser
    <3>2. page # "uploading"
      BY <3>1 DEF InstallInv, Uploading
    <3> QED
      BY <1>7, <3>1, <3>2 DEF Boot
  <2>3. page = "restarting" => ~selected' /\ firmware' = "uploaded"
    BY <1>7 DEF Boot, InstallInv, Ready
  <2> QED
    BY <2>1, <2>2, <2>3 DEF InstallInv, Uploading
<1>8. CASE Cancel \/ Answered \/ Poll \/ ReadyAgain
  <2>1. UNCHANGED <<request, chunks, written, flash, selected, power, firmware>>
    BY <1>8 DEF Cancel, Answered, Poll, ReadyAgain, device, updater
  <2>2. page' # "uploading"
    BY <1>8 DEF Cancel, GiveUp, Answered, Poll, ReadyAgain
  <2>3. ASSUME page' = "restarting" PROVE \E r \in Requests : request[r] = "answered"
    BY <1>8, <2>3 DEF Cancel, GiveUp, Answered, Poll, ReadyAgain, InstallInv, Uploading
  <2>4. /\ Ready' <=> Ready
        /\ \A q \in Requests : (Filled(q)' <=> Filled(q)) /\ (Uploading(q)' <=> Uploading(q))
    BY <2>1 DEF Ready, Whole, Filled, Uploading
  <2>5. ASSUME page' = "restarting"
        PROVE  Ready /\ \A q \in Requests : Uploading(q) => request[q] = "answered"
    <3>1. PICK r \in Requests : request[r] = "answered"
      BY <2>3, <2>5
    <3> QED
      BY <3>1 DEF InstallInv, Uploading
  <2> QED
    BY <2>1, <2>2, <2>4, <2>5 DEF InstallInv
<1>9. CASE UNCHANGED vars
  BY <1>9 DEF vars, device, updater, browser, InstallInv, Uploading, Ready, Whole, Filled
<1> QED
  BY <1>1, <1>2, <1>3, <1>4, <1>5, <1>6, <1>7, <1>8, <1>9 DEF Next

\* On a platform whose choice of firmware outlives a power failure, an upload that
\* was reported to be successful is whole and comes to run, if the page's uploads do
\* not overlap (UploadFirmwareService.cpp:59-65, UploadFirmwareForm.tsx:14-18).
THEOREM ReportsAreTrue ==
  ASSUME ESP32, ~Overlapping
  PROVE  Spec => []ReportedIsInstalled
<1>1. InstallInv => ReportedIsInstalled
  BY DEF InstallInv, ReportedIsInstalled, Ready
<1>2. TypeOK /\ InstallInv /\ [Next]_vars => InstallInv'
  BY StepInstallInv
<1> QED
  BY <1>1, <1>2, InitTypeOK, StepTypeOK, InitInstallInv, PTL DEF Spec

=================================================================================
