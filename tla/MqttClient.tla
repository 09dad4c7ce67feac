----------------------------- MODULE MqttClient -----------------------------
(***************************************************************************)
(* src/Internet/MQTT/MQTTClient.c over mqtt_interface.c: the operations    *)
(* that send a packet and wait for its acknowledgement, cycle(), the       *)
(* keep-alive and its ping, against a broker that answers in order but     *)
(* whenever it likes, over a TCP connection that may be lost and opened    *)
(* again.  The client's mutex lets one operation run at a time.            *)
(*                                                                         *)
(* A packet has arrived whole when it is read.                             *)
(***************************************************************************)
EXTENDS Integers, Sequences, SequencesExt

CONSTANTS MaxPacketId,     \* MAX_PACKET_ID, 65535 in the code
          MqttCalls,       \* operations the application calls
          MqttLinks,       \* times it connects the network
          MqttInbound      \* messages the broker publishes to the client

ASSUME MqttAssumption ==
  /\ MaxPacketId \in Nat \ {0}
  /\ MqttCalls \in 0 .. MaxPacketId /\ MqttLinks \in Nat
  /\ MqttInbound \in 0 .. MaxPacketId      \* a message's place is its id

VARIABLES
  mqConnected,     \* isconnected
  mqNextId,        \* next_packetid
  mqWaits,         \* what waitfor() waits for: a type and a packet id
  mqPingDue,       \* has ping_timer expired?
  mqPingOut,       \* ping_outstanding
  mqLink,          \* the number of this connection, or of the last one
  mqUp,            \* is the socket SOCK_ESTABLISHED?
  mqOut,           \* packets on their way to the broker
  mqIn,            \* packets on their way to the client
  mqCalls,         \* operations called
  mqLate,          \* has an operation stopped waiting for its answer?
  mqAcked,         \* ids of the messages whose MQTTPublish succeeded
  mqHas,           \* ids of the messages the broker is responsible for
  mqPublished      \* messages the broker has published

mqClient == <<mqConnected, mqNextId, mqWaits, mqPingDue, mqPingOut,
              mqCalls, mqLate, mqAcked>>
mqVars   == <<mqClient, mqLink, mqUp, mqOut, mqIn, mqHas, mqPublished>>

(* What the client sends and waits for: a QoS 2 message is acknowledged in *)
(* two steps.                                                              *)
AckOf == [CONNECT |-> "CONNACK", SUBSCRIBE |-> "SUBACK",
          UNSUBSCRIBE |-> "UNSUBACK", PUBLISH1 |-> "PUBACK",
          PUBLISH2 |-> "PUBCOMP"]
WaitTypes   == {AckOf[t] : t \in DOMAIN AckOf}
PacketTypes == DOMAIN AckOf \cup WaitTypes
                 \cup {"PUBLISH0", "PUBREC", "PUBREL", "PINGREQ", "PINGRESP",
                       "DISCONNECT"}
Packet(type, id) == [type |-> type, id |-> id]
Packets  == [type : PacketTypes, id : 0 .. MaxPacketId]
Idle     == Packet("none", 0)

MqttTypeOK ==
  /\ mqConnected \in BOOLEAN
  /\ mqNextId \in 1 .. MaxPacketId
  /\ mqWaits \in [type : WaitTypes, id : 0 .. MaxPacketId] \cup {Idle}
  /\ mqPingDue \in BOOLEAN /\ mqPingOut \in BOOLEAN
  /\ mqLink \in 0 .. MqttLinks
  /\ mqUp \in BOOLEAN
  /\ mqOut \in Seq(Packets) /\ mqIn \in Seq(Packets)
  /\ mqCalls \in 0 .. MqttCalls
  /\ mqLate \in BOOLEAN
  /\ mqAcked \subseteq 1 .. MaxPacketId /\ mqHas \subseteq 1 .. MaxPacketId
  /\ mqPublished \in 0 .. MqttInbound

MqttInit ==
  /\ mqConnected = FALSE /\ mqNextId = 1 /\ mqWaits = Idle
  /\ mqPingDue = FALSE /\ mqPingOut = FALSE
  /\ mqLink = 0 /\ mqUp = FALSE /\ mqOut = <<>> /\ mqIn = <<>>
  /\ mqCalls = 0 /\ mqLate = FALSE /\ mqAcked = {} /\ mqHas = {}
  /\ mqPublished = 0

-----------------------------------------------------------------------------
(* sendPacket: a packet that goes out starts the ping timer again.         *)
Send(p) ==
  IF mqUp THEN mqOut' = Append(mqOut, p) /\ mqPingDue' = FALSE
          ELSE UNCHANGED <<mqOut, mqPingDue>>

NextPacketId == IF mqNextId = MaxPacketId THEN 1 ELSE mqNextId + 1

Begin(type, id) ==
  /\ mqWaits = Idle /\ mqCalls < MqttCalls /\ mqCalls' = mqCalls + 1
  /\ Send(Packet(type, id))
  /\ UNCHANGED <<mqPingOut, mqLink, mqUp, mqIn, mqLate, mqAcked,
                 mqHas, mqPublished>>

WaitFor(type, id) == mqWaits' = IF mqUp THEN Packet(AckOf[type], id) ELSE Idle

MQTTConnect ==
  /\ ~mqConnected /\ Begin("CONNECT", 0) /\ WaitFor("CONNECT", 0)
  /\ UNCHANGED <<mqConnected, mqNextId>>

(* MQTTSubscribe, MQTTUnsubscribe and MQTTPublish with QoS 1 and 2.        *)
MQTTRequest(type) ==
  /\ mqConnected /\ mqNextId' = NextPacketId
  /\ Begin(type, mqNextId') /\ WaitFor(type, mqNextId')
  /\ UNCHANGED mqConnected

MQTTPublish0 ==
  /\ mqConnected /\ Begin("PUBLISH0", 0)
  /\ UNCHANGED <<mqConnected, mqNextId, mqWaits>>

MQTTDisconnect ==
  /\ Begin("DISCONNECT", 0) /\ mqConnected' = FALSE
  /\ UNCHANGED <<mqNextId, mqWaits>>

-----------------------------------------------------------------------------
(* cycle(), called by waitfor() and by MQTTYield: a packet is read and     *)
(* answered; keepalive() follows, and finds its timer started again when   *)
(* an answer was sent.                                                     *)

Keepalive(outstanding) ==
  IF mqPingDue /\ ~outstanding /\ mqUp
    THEN /\ Send(Packet("PINGREQ", 0))
         /\ mqPingOut' = TRUE
    ELSE mqPingOut' = outstanding /\ UNCHANGED <<mqPingDue, mqOut>>

AnswerTo(p) == IF p.type = "PUBLISH1" THEN "PUBACK" ELSE
               IF p.type = "PUBREC" THEN "PUBREL" ELSE "PUBREC"

(* Any packet taken for the answer.                                        *)
CompletesAny(p) == mqWaits # Idle

(* waitfor() compares the type of what was read; the id is decoded and     *)
(* dropped.                                                                *)
Completes(p) == p.type = mqWaits.type

Returns(p) ==
  IF Completes(p)
    THEN /\ mqWaits' = Idle
         /\ mqConnected' = (mqConnected \/ p.type = "CONNACK")
         /\ mqAcked' = IF p.type \in {"PUBACK", "PUBCOMP"}
                       THEN mqAcked \cup {mqWaits.id} ELSE mqAcked
    ELSE UNCHANGED <<mqWaits, mqConnected, mqAcked>>

(* A PINGRESP read and forgotten.                                          *)
CycleReadsForgetting ==
  /\ mqUp /\ mqIn # <<>>
  /\ LET p == Head(mqIn) IN
       /\ mqIn' = Tail(mqIn)
       /\ IF p.type \in {"PUBLISH1", "PUBLISH2", "PUBREC"}
            THEN /\ Send(Packet(AnswerTo(p), p.id))
                 /\ UNCHANGED mqPingOut
            ELSE Keepalive(mqPingOut)
       /\ Returns(p)
  /\ UNCHANGED <<mqNextId, mqLink, mqUp, mqCalls, mqLate, mqHas, mqPublished>>

CycleReads ==
  /\ mqUp /\ mqIn # <<>>
  /\ LET p == Head(mqIn) IN
       /\ mqIn' = Tail(mqIn)
       /\ IF p.type \in {"PUBLISH1", "PUBLISH2", "PUBREC"}
            THEN /\ Send(Packet(AnswerTo(p), p.id))
                 /\ UNCHANGED mqPingOut
            ELSE Keepalive(mqPingOut /\ p.type # "PINGRESP")
       /\ Returns(p)
  /\ UNCHANGED <<mqNextId, mqLink, mqUp, mqCalls, mqLate, mqHas, mqPublished>>

CycleFindsNothing ==
  /\ ~mqUp \/ mqIn = <<>>
  /\ Keepalive(mqPingOut)
  /\ UNCHANGED <<mqConnected, mqNextId, mqWaits, mqLink, mqUp, mqIn, mqCalls,
                 mqLate, mqAcked, mqHas, mqPublished>>

(* The command timer expires in waitfor().                                 *)
WaitTimesOut ==
  /\ mqWaits # Idle /\ mqWaits' = Idle /\ mqLate' = TRUE
  /\ UNCHANGED <<mqConnected, mqNextId, mqPingDue, mqPingOut, mqLink,
                 mqUp, mqOut, mqIn, mqCalls, mqAcked, mqHas, mqPublished>>

PingTimerExpires ==
  /\ mqConnected /\ ~mqPingDue /\ mqPingDue' = TRUE
  /\ UNCHANGED <<mqConnected, mqNextId, mqWaits, mqPingOut, mqLink,
                 mqUp, mqOut, mqIn, mqCalls, mqLate, mqAcked, mqHas, mqPublished>>

-----------------------------------------------------------------------------
(* The network: the application connects it (ConnectNetwork), and the peer *)
(* or a timeout ends it.  isconnected does not follow.                     *)

ConnectNetwork ==
  /\ ~mqUp /\ mqWaits = Idle /\ mqLink < MqttLinks
  /\ mqUp' = TRUE /\ mqLink' = mqLink + 1
  /\ UNCHANGED <<mqClient, mqOut, mqIn, mqHas, mqPublished>>

LinkLost ==
  /\ mqUp /\ mqUp' = FALSE /\ mqOut' = <<>> /\ mqIn' = <<>>
  /\ UNCHANGED <<mqClient, mqLink, mqHas, mqPublished>>

(* The broker: it takes responsibility for a message with its PUBACK or    *)
(* PUBREC.                                                                 *)
BrokerAnswer == [CONNECT |-> "CONNACK", SUBSCRIBE |-> "SUBACK",
                 UNSUBSCRIBE |-> "UNSUBACK", PUBLISH1 |-> "PUBACK",
                 PUBLISH2 |-> "PUBREC", PUBREL |-> "PUBCOMP",
                 PUBREC |-> "PUBREL", PINGREQ |-> "PINGRESP"]

BrokerReads ==
  /\ mqOut # <<>> /\ mqOut' = Tail(mqOut)
  /\ LET p == Head(mqOut) IN
       /\ mqIn' = IF p.type \in DOMAIN BrokerAnswer
                  THEN Append(mqIn, Packet(BrokerAnswer[p.type], p.id)) ELSE mqIn
       /\ mqHas' = IF p.type \in {"PUBLISH1", "PUBLISH2"}
                   THEN mqHas \cup {p.id} ELSE mqHas
  /\ UNCHANGED <<mqClient, mqLink, mqUp, mqPublished>>

BrokerPublishes ==
  /\ mqUp /\ mqConnected
  /\ mqPublished < MqttInbound /\ mqPublished' = mqPublished + 1
  /\ \E t \in {"PUBLISH1", "PUBLISH2"} : mqIn' = Append(mqIn, Packet(t, mqPublished'))
  /\ UNCHANGED <<mqClient, mqLink, mqUp, mqOut, mqHas>>

-----------------------------------------------------------------------------
Cycle == CycleReads \/ CycleFindsNothing

MqttNext ==
  \/ MQTTConnect \/ MQTTPublish0 \/ MQTTDisconnect
  \/ \E t \in DOMAIN AckOf \ {"CONNECT"} : MQTTRequest(t)
  \/ Cycle \/ WaitTimesOut \/ PingTimerExpires
  \/ ConnectNetwork \/ LinkLost \/ BrokerReads \/ BrokerPublishes

MqttFairness == WF_mqVars(Cycle) /\ WF_mqVars(BrokerReads)

MqttSpec == MqttInit /\ [][MqttNext]_mqVars /\ MqttFairness

-----------------------------------------------------------------------------
(* MQTTPublish is to "wait for all acks to complete for all QoSs": when it *)
(* succeeds the broker has the message.                                    *)
MqttAckedIsReceived == mqAcked \subseteq mqHas

(* So it is as long as no operation has stopped waiting: waitfor() takes   *)
(* any acknowledgement of the right type, and relies on there being one.   *)
MqttAckIsOwn ==
  ~mqLate =>
    /\ mqAcked \subseteq mqHas
    /\ \A i \in DOMAIN mqIn :
         mqIn[i].type = mqWaits.type => mqIn[i].id = mqWaits.id

(* A client that is polled keeps its connection alive: when the timer has  *)
(* expired a packet follows (keepalive in cycle).                          *)
MqttKeepsAlive == (mqPingDue /\ mqUp) ~> (~mqPingDue \/ ~mqUp)
=============================================================================
