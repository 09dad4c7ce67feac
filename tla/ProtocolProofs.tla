---------------------------- MODULE ProtocolProofs ----------------------------
(***************************************************************************)
(* Theorems about the protocols of src/Internet that answer one request    *)
(* with one exchange: the DNS client, the MQTT client, the HTTP server and *)
(* the SNMP agent; about the date the SNTP client tells and the reply the  *)
(* DNS parser reads.  Each has its own invariant.                          *)
(***************************************************************************)
EXTENDS DnsClient, DnsMessage, MqttClient, HttpServer, SnmpAgent, SntpCalendar,
        SequenceTheorems, WellFoundedInduction, TLAPS

PortOf(call) == IF call = DnsPorts THEN 0 ELSE call

PortInv ==
  /\ dnsPort = PortOf(dnsCall)
  /\ \A q \in dnsWire : q[1] <= dnsCall /\ q[2] = PortOf(q[1])
  /\ dnsAt = "waiting" => dnsCall >= 1

DnsInv == DnsTypeOK /\ PortInv /\ DnsAnswerIsOwn /\ DnsWithinTime

-----------------------------------------------------------------------------
(* The port after the one of a call is the one of the next call.           *)
LEMMA PortFollows ==
  ASSUME NEW call \in 0 .. DnsCalls - 1
  PROVE  /\ NextPort(PortOf(call)) = PortOf(call + 1)
         /\ NextPort(PortOf(call)) \in 0 .. DnsPorts - 1
<1>1. call \in 0 .. DnsPorts - 1 /\ DnsPorts \in Nat \ {0}
  BY DnsAssumption
<1>2. CASE call + 1 = DnsPorts
  <2>1. DnsPorts % DnsPorts = 0
    BY <1>1
  <2> QED BY <1>1, <1>2, <2>1 DEF NextPort, PortOf
<1>3. CASE call + 1 < DnsPorts
  <2>1. (call + 1) % DnsPorts = call + 1
    BY <1>1, <1>3
  <2> QED BY <1>1, <1>3, <2>1 DEF NextPort, PortOf
<1> QED BY <1>1, <1>2, <1>3

LEMMA PortsDiffer ==
  ASSUME NEW a \in 1 .. DnsCalls, NEW b \in 1 .. DnsCalls, PortOf(a) = PortOf(b)
  PROVE  a = b
BY DnsAssumption DEF PortOf

(* One more tick is still within the time of the retries made and left.    *)
LEMMA WaitsAddUp ==
  ASSUME NEW r \in 0 .. DnsRetries, NEW t \in 0 .. DnsWait
  PROVE  /\ r * DnsWait + t <= (DnsRetries + 1) * DnsWait
         /\ (r + 1) * DnsWait = r * DnsWait + DnsWait
<1>1. DnsWait \in Nat /\ DnsRetries \in Nat
  BY DnsAssumption
<1>2. (r + 1) * DnsWait = r * DnsWait + DnsWait
  BY <1>1
<1>3. (r + 1) * DnsWait <= (DnsRetries + 1) * DnsWait
  BY <1>1
<1> QED BY <1>1, <1>2, <1>3

-----------------------------------------------------------------------------
LEMMA DnsInvInit == DnsInit => DnsInv
<1>1. 0 <= (DnsRetries + 1) * DnsWait
  BY DnsAssumption
<1> QED BY <1>1, DnsAssumption
        DEF DnsInit, DnsInv, DnsTypeOK, PortInv, PortOf, DnsAnswerIsOwn,
            DnsWithinTime, DnsTimedOut

LEMMA DnsInvStep == DnsInv /\ [DnsNext]_dnsVars => DnsInv'
<1> SUFFICES ASSUME DnsInv, [DnsNext]_dnsVars PROVE DnsInv'
  OBVIOUS
<1> USE DnsAssumption
<1>t. DnsTypeOK /\ PortInv /\ DnsAnswerIsOwn /\ DnsWithinTime
  BY DEF DnsInv
<1>1. CASE DnsRun
  <2>1. /\ dnsCall \in 0 .. DnsCalls - 1 /\ dnsCall' = dnsCall + 1
        /\ dnsTick' = 0 /\ dnsRetry' = 0 /\ dnsTime' = 0 /\ dnsQueries' = 1
        /\ dnsPort' = NextPort(dnsPort) /\ dnsRx' = {} /\ dnsAt' = "waiting"
        /\ dnsWire' = dnsWire \cup {<<dnsCall', dnsPort'>>}
        /\ dnsResult' = dnsResult
    BY <1>1, <1>t DEF DnsRun, DnsTypeOK
  <2>2. dnsPort' = PortOf(dnsCall') /\ dnsPort' \in 0 .. DnsPorts - 1
    BY <1>t, <2>1, PortFollows DEF PortInv
  <2>3. DnsTypeOK'
    BY <1>t, <2>1, <2>2 DEF DnsTypeOK
  <2>4. PortInv'
    <3>1. ASSUME NEW q \in dnsWire' PROVE q[1] <= dnsCall' /\ q[2] = PortOf(q[1])
      <4>1. CASE q \in dnsWire
        <5>1. q[1] \in Nat
          BY <1>t, <4>1 DEF DnsTypeOK
        <5> QED BY <1>t, <2>1, <4>1, <5>1 DEF PortInv
      <4>2. CASE q = <<dnsCall', dnsPort'>>
        BY <2>1, <2>2, <4>2
      <4> QED BY <2>1, <4>1, <4>2
    <3> QED BY <2>1, <2>2, <3>1 DEF PortInv, PortOf
  <2>5. DnsAnswerIsOwn'
    BY <2>1 DEF DnsAnswerIsOwn
  <2>6. DnsWithinTime'
    <3>1. 0 <= (DnsRetries + 1) * DnsWait /\ 0 * DnsWait = 0
      OBVIOUS
    <3> QED BY <2>1, <3>1 DEF DnsWithinTime
  <2> QED BY <2>3, <2>4, <2>5, <2>6 DEF DnsInv
<1>2. CASE DnsAnswered
  BY <1>2, <1>t
     DEF DnsAnswered, DnsInv, DnsTypeOK, PortInv, PortOf, DnsAnswerIsOwn,
         DnsWithinTime, dnsTimer
<1>3. CASE DnsTimeout
  <2>1. /\ dnsAt = "waiting" /\ dnsTick = DnsWait /\ dnsTick' = 0
        /\ UNCHANGED <<dnsCall, dnsPort, dnsTime, dnsQueries, dnsWire, dnsRx>>
    BY <1>3, <1>t DEF DnsTimeout, DnsTypeOK
  <2>2. \/ dnsRetry' = 0 /\ dnsAt' = "idle" /\ dnsResult' = DnsTimedOut
        \/ /\ dnsRetry < DnsRetries /\ dnsRetry' = dnsRetry + 1
           /\ dnsAt' = dnsAt /\ dnsResult' = dnsResult
    BY <1>3, <1>t DEF DnsTimeout, DnsTypeOK
  <2>3. DnsTypeOK'
    BY <1>t, <2>1, <2>2 DEF DnsTypeOK, DnsTimedOut
  <2>4. PortInv' /\ DnsAnswerIsOwn'
    BY <1>t, <2>1, <2>2 DEF PortInv, PortOf, DnsAnswerIsOwn
  <2>5. DnsWithinTime'
    <3>1. dnsTime = dnsRetry * DnsWait + DnsWait
      BY <1>t, <2>1 DEF DnsWithinTime
    <3>2. (dnsRetry + 1) * DnsWait = dnsRetry * DnsWait + DnsWait
      BY <1>t, WaitsAddUp DEF DnsTypeOK
    <3>3. CASE dnsAt' = "idle"
      BY <1>t, <2>1, <3>3 DEF DnsWithinTime
    <3>4. CASE dnsAt' # "idle"
      <4>1. dnsRetry' = dnsRetry + 1
        BY <2>2, <3>4
      <4>2. dnsTime' = dnsRetry' * DnsWait + dnsTick'
        <5>1. dnsTime' = dnsRetry' * DnsWait
          BY <2>1, <3>1, <3>2, <4>1
        <5>2. dnsRetry' * DnsWait \in Int
          BY <2>3 DEF DnsTypeOK
        <5> QED BY <2>1, <5>1, <5>2
      <4> QED BY <1>t, <2>1, <4>2 DEF DnsWithinTime
    <3> QED BY <3>3, <3>4
  <2> QED BY <2>3, <2>4, <2>5 DEF DnsInv
<1>4. CASE DnsTick
  <2>1. /\ dnsAt = "waiting" /\ dnsTick < DnsWait
        /\ dnsTick' = dnsTick + 1 /\ dnsTime' = dnsTime + 1
        /\ UNCHANGED <<dnsCall, dnsAt, dnsPort, dnsRetry, dnsQueries, dnsWire,
                       dnsRx, dnsResult>>
    BY <1>4 DEF DnsTick
  <2>2. DnsTypeOK'
    BY <1>t, <2>1 DEF DnsTypeOK
  <2>3. PortInv' /\ DnsAnswerIsOwn'
    BY <1>t, <2>1 DEF PortInv, PortOf, DnsAnswerIsOwn
  <2>4. DnsWithinTime'
    <3>1. /\ dnsRetry * DnsWait \in Int /\ dnsTick \in Int
          /\ dnsTime = dnsRetry * DnsWait + dnsTick
      BY <1>t, <2>1 DEF DnsTypeOK, DnsWithinTime
    <3>2. dnsTime' = dnsRetry * DnsWait + dnsTick'
      BY <2>1, <3>1
    <3>3. dnsRetry * DnsWait + dnsTick' <= (DnsRetries + 1) * DnsWait
      BY <1>t, <2>1, <2>2, WaitsAddUp DEF DnsTypeOK
    <3>4. dnsRetry' = dnsRetry
      BY <2>1
    <3> QED BY <3>2, <3>3, <3>4 DEF DnsWithinTime
  <2> QED BY <2>2, <2>3, <2>4 DEF DnsInv
<1>5. CASE DnsArrives
  <2>1. PICK q \in dnsWire : q[2] = dnsPort /\ dnsRx' = dnsRx \cup {q[1]}
    BY <1>5 DEF DnsArrives
  <2>2. /\ dnsAt = "waiting"
        /\ UNCHANGED <<dnsCall, dnsAt, dnsPort, dnsTick, dnsRetry, dnsTime,
                       dnsQueries, dnsWire, dnsResult>>
    BY <1>5 DEF DnsArrives, dnsTimer
  <2>3. q[1] \in 1 .. DnsCalls /\ dnsCall \in 1 .. DnsCalls
    BY <1>t, <2>2 DEF DnsTypeOK, PortInv
  <2>4. q[1] = dnsCall
    BY <1>t, <2>1, <2>3, PortsDiffer DEF PortInv
  <2>5. DnsTypeOK'
    BY <1>t, <2>1, <2>2, <2>3 DEF DnsTypeOK
  <2>6. DnsAnswerIsOwn'
    BY <1>t, <2>1, <2>2, <2>4 DEF DnsAnswerIsOwn
  <2> QED BY <1>t, <2>2, <2>5, <2>6 DEF DnsInv, PortInv, PortOf, DnsWithinTime
<1>6. CASE UNCHANGED dnsVars
  BY <1>6, <1>t
     DEF dnsVars, dnsTimer, DnsInv, DnsTypeOK, PortInv, PortOf, DnsAnswerIsOwn,
         DnsWithinTime
<1> QED BY <1>1, <1>2, <1>3, <1>4, <1>5, <1>6 DEF DnsNext

-----------------------------------------------------------------------------
(* The answer DNS_run returns is one to the query it sent, for any number  *)
(* of ports and calls, as long as no port comes round again (DNS_run,      *)
(* sock_any_port).                                                         *)
THEOREM AnswersAreOwn == DnsSpec => []DnsAnswerIsOwn
<1>1. DnsInv => DnsAnswerIsOwn
  BY DEF DnsInv
<1> QED BY <1>1, DnsInvInit, DnsInvStep, PTL DEF DnsSpec

(* DNS_run takes no longer than MAX_DNS_RETRY waits after the first, for   *)
(* any values of the two macros: one wait more than the maximum the        *)
(* comment at dns.h:95 gives (check_DNS_timeout).                          *)
THEOREM EndsWithinTime == DnsSpec => []DnsWithinTime
<1>1. DnsInv => DnsWithinTime
  BY DEF DnsInv
<1> QED BY <1>1, DnsInvInit, DnsInvStep, PTL DEF DnsSpec

-----------------------------------------------------------------------------
(***************************************************************************)
(* MqttClient.  Until an operation has stopped waiting there is at most    *)
(* one packet on its way that asks for, or is, an acknowledgement, and it  *)
(* is what the client waits for (Own): so a packet of the right type has   *)
(* the right id.  What is acknowledged the broker has (Backed).            *)
(***************************************************************************)
Asking    == {"CONNECT", "SUBSCRIBE", "UNSUBSCRIBE", "PUBLISH1", "PUBLISH2", "PUBREL"}
Answering == {"CONNACK", "SUBACK", "UNSUBACK", "PUBACK", "PUBCOMP", "PUBREC"}

(* The acknowledgement a packet to the broker ends in, and one from it.    *)
EndOf(type) ==
  CASE type = "CONNECT" -> "CONNACK"
    [] type = "SUBSCRIBE" -> "SUBACK"
    [] type = "UNSUBSCRIBE" -> "UNSUBACK"
    [] type = "PUBLISH1" -> "PUBACK"
    [] type \in {"PUBLISH2", "PUBREL", "PUBREC"} -> "PUBCOMP"
    [] OTHER -> type
Ends(p) == Packet(EndOf(p.type), p.id)

NoneOf(s, types) == \A i \in 1 .. Len(s) : s[i].type \notin types
OnlyOne(s, types) ==
  \A i, j \in 1 .. Len(s) : s[i].type \in types /\ s[j].type \in types => i = j
EndWith(s, types, waits) ==
  \A i \in 1 .. Len(s) : s[i].type \in types => Ends(s[i]) = waits

Own(out, in, waits) ==
  /\ OnlyOne(out, Asking) /\ OnlyOne(in, Answering)
  /\ NoneOf(out, Asking) \/ NoneOf(in, Answering)
  /\ EndWith(out, Asking, waits) /\ EndWith(in, Answering, waits)

Carried(s, types, has) ==
  \A i \in 1 .. Len(s) : s[i].type \in types => s[i].id \in has
Backing    == {"PUBACK", "PUBREC", "PUBCOMP"}
Publishing == {"PUBLISH1", "PUBLISH2"}
PacketIds  == 1 .. MaxPacketId
Backed(out, in, has) ==
  /\ Carried(out, {"PUBREL"}, has) /\ Carried(in, Backing, has)
  /\ Carried(out, Publishing, PacketIds)

MqInv ==
  /\ MqttTypeOK
  /\ Backed(mqOut, mqIn, mqHas)
  /\ mqWaits.type \in {"PUBACK", "PUBCOMP"} => mqWaits.id \in PacketIds
  /\ ~mqUp => mqOut = <<>> /\ mqIn = <<>>
  /\ mqLate \/ (Own(mqOut, mqIn, mqWaits) /\ mqAcked \subseteq mqHas)

-----------------------------------------------------------------------------
(* The types of packets, spelled out.                                      *)
LEMMA AckTypes ==
  /\ DOMAIN AckOf = Asking \ {"PUBREL"}
  /\ \A t \in DOMAIN AckOf : AckOf[t] = EndOf(t)
  /\ WaitTypes = Answering \ {"PUBREC"}
  /\ PacketTypes = Asking \cup Answering
       \cup {"PUBLISH0", "PINGREQ", "PINGRESP", "DISCONNECT"}
  /\ \A t \in Answering : EndOf(t) \in WaitTypes
  /\ \A t \in Asking : EndOf(t) \in WaitTypes
  /\ "none" \notin PacketTypes
<1>1. DOMAIN AckOf = Asking \ {"PUBREL"}
  BY DEF AckOf, Asking
<1>2. \A t \in DOMAIN AckOf : AckOf[t] = EndOf(t)
  BY <1>1 DEF AckOf, EndOf, Asking
<1>3. WaitTypes = Answering \ {"PUBREC"}
  BY <1>1, <1>2 DEF WaitTypes, Answering, EndOf, Asking
<1>4. PacketTypes = Asking \cup Answering
        \cup {"PUBLISH0", "PINGREQ", "PINGRESP", "DISCONNECT"}
  BY <1>1, <1>3 DEF PacketTypes, Asking, Answering
<1>5. /\ \A t \in Answering : EndOf(t) \in WaitTypes
      /\ \A t \in Asking : EndOf(t) \in WaitTypes
  BY <1>3 DEF Asking, Answering, EndOf
<1>6. "none" \notin PacketTypes
  BY <1>4 DEF Asking, Answering
<1> QED BY <1>1, <1>2, <1>3, <1>4, <1>5, <1>6

LEMMA BrokerTypes ==
  /\ DOMAIN BrokerAnswer = Asking \cup {"PUBREC", "PINGREQ"}
  /\ \A t \in Asking : BrokerAnswer[t] \in Answering /\ EndOf(BrokerAnswer[t]) = EndOf(t)
  /\ \A t \in {"PUBREC", "PINGREQ"} : BrokerAnswer[t] \in PacketTypes \ Answering
  /\ \A t \in Asking : BrokerAnswer[t] \in Backing => t \in {"PUBLISH1", "PUBLISH2", "PUBREL"}
<1>1. DOMAIN BrokerAnswer = Asking \cup {"PUBREC", "PINGREQ"}
  BY DEF BrokerAnswer, Asking
<1>2. \A t \in Asking :
        /\ BrokerAnswer[t] \in Answering /\ EndOf(BrokerAnswer[t]) = EndOf(t)
        /\ BrokerAnswer[t] \in Backing => t \in {"PUBLISH1", "PUBLISH2", "PUBREL"}
  BY DEF BrokerAnswer, Asking, Answering, EndOf, Backing
<1>3. \A t \in {"PUBREC", "PINGREQ"} : BrokerAnswer[t] \in PacketTypes \ Answering
  BY AckTypes DEF BrokerAnswer, Asking, Answering
<1> QED BY <1>1, <1>2, <1>3

(* The first packet taken from a queue, and one put behind the last.       *)
LEMMA TailShifts ==
  ASSUME NEW s \in Seq(Packets), s # <<>>
  PROVE  /\ Tail(s) \in Seq(Packets) /\ Head(s) = s[1] /\ Head(s) \in Packets
         /\ 1 \in 1 .. Len(s) /\ Len(s) \in Nat
         /\ \A i \in 1 .. Len(Tail(s)) : i + 1 \in 1 .. Len(s) /\ Tail(s)[i] = s[i + 1]
OBVIOUS

LEMMA AppendAdds ==
  ASSUME NEW s \in Seq(Packets), NEW p \in Packets
  PROVE  /\ Append(s, p) \in Seq(Packets) /\ Len(s) \in Nat
         /\ Len(Append(s, p)) = Len(s) + 1 /\ Append(s, p)[Len(s) + 1] = p
         /\ \A i \in 1 .. Len(s) : Append(s, p)[i] = s[i]
OBVIOUS

LEMMA TailLeaves ==
  ASSUME NEW s \in Seq(Packets), s # <<>>, NEW types, NEW waits, NEW has
  PROVE  /\ NoneOf(s, types) => NoneOf(Tail(s), types)
         /\ OnlyOne(s, types) => OnlyOne(Tail(s), types)
         /\ EndWith(s, types, waits) => EndWith(Tail(s), types, waits)
         /\ Carried(s, types, has) => Carried(Tail(s), types, has)
         /\ OnlyOne(s, types) /\ Head(s).type \in types => NoneOf(Tail(s), types)
<1>1. NoneOf(s, types) => NoneOf(Tail(s), types)
  BY TailShifts DEF NoneOf
<1>2. OnlyOne(s, types) => OnlyOne(Tail(s), types)
  <2> SUFFICES ASSUME OnlyOne(s, types), NEW i \in 1 .. Len(Tail(s)),
                      NEW j \in 1 .. Len(Tail(s)),
                      Tail(s)[i].type \in types, Tail(s)[j].type \in types
               PROVE  i = j
    BY DEF OnlyOne
  <2>1. i + 1 = j + 1
    BY TailShifts DEF OnlyOne
  <2> QED BY <2>1
<1>3. EndWith(s, types, waits) => EndWith(Tail(s), types, waits)
  BY TailShifts DEF EndWith
<1>4. Carried(s, types, has) => Carried(Tail(s), types, has)
  BY TailShifts DEF Carried
<1>5. OnlyOne(s, types) /\ Head(s).type \in types => NoneOf(Tail(s), types)
  <2> SUFFICES ASSUME OnlyOne(s, types), Head(s).type \in types,
                      NEW i \in 1 .. Len(Tail(s)), Tail(s)[i].type \in types
               PROVE  FALSE
    BY DEF NoneOf
  <2>1. 1 = i + 1
    BY TailShifts DEF OnlyOne
  <2> QED BY <2>1
<1> QED BY <1>1, <1>2, <1>3, <1>4, <1>5

LEMMA AppendLeaves ==
  ASSUME NEW s \in Seq(Packets), NEW p \in Packets, NEW types, NEW waits, NEW has
  PROVE  /\ p.type \notin types /\ NoneOf(s, types) => NoneOf(Append(s, p), types)
         /\ p.type \notin types /\ OnlyOne(s, types) => OnlyOne(Append(s, p), types)
         /\ NoneOf(s, types) => OnlyOne(Append(s, p), types)
         /\ /\ p.type \in types => Ends(p) = waits
            /\ EndWith(s, types, waits)
            => EndWith(Append(s, p), types, waits)
         /\ /\ p.type \in types => p.id \in has
            /\ Carried(s, types, has)
            => Carried(Append(s, p), types, has)
<1>0. \A i \in 1 .. Len(Append(s, p)) : i \in 1 .. Len(s) \/ i = Len(s) + 1
  BY AppendAdds
<1>1. p.type \notin types /\ NoneOf(s, types) => NoneOf(Append(s, p), types)
  BY <1>0, AppendAdds DEF NoneOf
<1>2. p.type \notin types /\ OnlyOne(s, types) => OnlyOne(Append(s, p), types)
  BY <1>0, AppendAdds DEF OnlyOne
<1>3. NoneOf(s, types) => OnlyOne(Append(s, p), types)
  BY <1>0, AppendAdds DEF NoneOf, OnlyOne
<1>4. (p.type \in types => Ends(p) = waits) /\ EndWith(s, types, waits)
        => EndWith(Append(s, p), types, waits)
  BY <1>0, AppendAdds DEF EndWith
<1>5. (p.type \in types => p.id \in has) /\ Carried(s, types, has)
        => Carried(Append(s, p), types, has)
  BY <1>0, AppendAdds DEF Carried
<1> QED BY <1>1, <1>2, <1>3, <1>4, <1>5

-----------------------------------------------------------------------------
(* What each step does to the one packet: others come and go beside it.    *)
LEMMA OwnBesides ==
  ASSUME NEW out \in Seq(Packets), NEW in \in Seq(Packets), NEW waits,
         NEW p \in Packets, Own(out, in, waits)
  PROVE  /\ p.type \notin Asking => Own(Append(out, p), in, waits)
         /\ p.type \notin Answering => Own(out, Append(in, p), waits)
         /\ out # <<>> => Own(Tail(out), in, waits)
         /\ in # <<>> => Own(out, Tail(in), waits)
<1>1. p.type \notin Asking => Own(Append(out, p), in, waits)
  BY AppendLeaves DEF Own
<1>2. p.type \notin Answering => Own(out, Append(in, p), waits)
  BY AppendLeaves DEF Own
<1>3. out # <<>> => Own(Tail(out), in, waits)
  BY TailLeaves DEF Own
<1>4. in # <<>> => Own(out, Tail(in), waits)
  BY TailLeaves DEF Own
<1> QED BY <1>1, <1>2, <1>3, <1>4

(* Nothing is on its way for a client that does not wait.                  *)
LEMMA IdleHasNone ==
  ASSUME NEW out \in Seq(Packets), NEW in \in Seq(Packets), Own(out, in, Idle)
  PROVE  NoneOf(out, Asking) /\ NoneOf(in, Answering)
<1>1. \A t \in Asking \cup Answering : EndOf(t) # "none"
  BY AckTypes
<1>2. \A p : p.type \in Asking \cup Answering => Ends(p) # Idle
  BY <1>1 DEF Ends, Packet, Idle
<1> QED BY <1>2 DEF Own, EndWith, NoneOf

(* An operation begins: its packet is the one.                             *)
LEMMA OwnBegins ==
  ASSUME NEW out \in Seq(Packets), NEW in \in Seq(Packets), NEW p \in Packets,
         Own(out, in, Idle)
  PROVE  /\ Own(Append(out, p), in, Ends(p))
         /\ p.type \notin Asking => \A waits : Own(Append(out, p), in, waits)
<1>1. NoneOf(out, Asking) /\ NoneOf(in, Answering)
  BY IdleHasNone
<1>2. \A waits : EndWith(out, Asking, waits) /\ EndWith(in, Answering, waits)
  BY <1>1 DEF NoneOf, EndWith
<1>3. OnlyOne(in, Answering) /\ OnlyOne(Append(out, p), Asking)
  BY <1>1, AppendLeaves DEF Own
<1>4. EndWith(Append(out, p), Asking, Ends(p))
  BY <1>2, AppendLeaves
<1>5. p.type \notin Asking => \A waits : EndWith(Append(out, p), Asking, waits)
  BY <1>2, AppendLeaves
<1> QED BY <1>1, <1>2, <1>3, <1>4, <1>5 DEF Own

(* The client stops waiting without a packet on its way.                   *)
LEMMA OwnForAny ==
  ASSUME NEW out \in Seq(Packets), NEW in \in Seq(Packets), NEW waits, NEW other,
         Own(out, in, waits), NoneOf(out, Asking), NoneOf(in, Answering)
  PROVE  Own(out, in, other)
BY DEF Own, NoneOf, EndWith

(* The broker answers it, the client reads the answer, or answers PUBREC   *)
(* with PUBREL.                                                            *)
LEMMA OwnPasses ==
  ASSUME NEW out \in Seq(Packets), NEW in \in Seq(Packets), NEW waits,
         NEW q \in Packets, Own(out, in, waits)
  PROVE  /\ out # <<>> /\ Head(out).type \in Asking /\ q.type \in Answering
              /\ Ends(q) = Ends(Head(out))
            => Own(Tail(out), Append(in, q), waits)
         /\ in # <<>> /\ Head(in).type \in Answering /\ Ends(q) = Ends(Head(in))
            => Own(Append(out, q), Tail(in), waits)
         /\ in # <<>> /\ Head(in).type \in Answering
            => Ends(Head(in)) = waits /\ NoneOf(out, Asking)
               /\ NoneOf(Tail(in), Answering)
<1>1. ASSUME out # <<>>, Head(out).type \in Asking, q.type \in Answering,
             Ends(q) = Ends(Head(out))
      PROVE  Own(Tail(out), Append(in, q), waits)
  <2>1. NoneOf(Tail(out), Asking)
    BY <1>1, TailLeaves DEF Own
  <2>2. NoneOf(in, Answering) /\ Ends(Head(out)) = waits
    BY <1>1, TailShifts DEF Own, NoneOf, EndWith
  <2>3. OnlyOne(Append(in, q), Answering) /\ EndWith(Append(in, q), Answering, waits)
    BY <1>1, <2>2, AppendLeaves DEF Own
  <2>4. OnlyOne(Tail(out), Asking) /\ EndWith(Tail(out), Asking, waits)
    BY <1>1, TailLeaves DEF Own
  <2> QED BY <2>1, <2>3, <2>4 DEF Own
<1>2. ASSUME in # <<>>, Head(in).type \in Answering
      PROVE  /\ Ends(Head(in)) = waits /\ NoneOf(out, Asking)
             /\ NoneOf(Tail(in), Answering)
  BY <1>2, TailShifts, TailLeaves DEF Own, NoneOf, EndWith
<1>3. ASSUME in # <<>>, Head(in).type \in Answering, Ends(q) = Ends(Head(in))
      PROVE  Own(Append(out, q), Tail(in), waits)
  <2>1. OnlyOne(Append(out, q), Asking) /\ EndWith(Append(out, q), Asking, waits)
    BY <1>2, <1>3, AppendLeaves DEF Own
  <2>2. OnlyOne(Tail(in), Answering) /\ EndWith(Tail(in), Answering, waits)
    BY <1>3, TailLeaves DEF Own
  <2> QED BY <1>2, <1>3, <2>1, <2>2 DEF Own
<1> QED BY <1>1, <1>2, <1>3

LEMMA OwnEmpty == \A waits, has : Own(<<>>, <<>>, waits) /\ Backed(<<>>, <<>>, has)
BY DEF Own, OnlyOne, NoneOf, EndWith, Backed, Carried

-----------------------------------------------------------------------------
LEMMA MqInvInit == MqttInit => MqInv
<1> SUFFICES ASSUME MqttInit PROVE MqInv
  OBVIOUS
<1>1. MqttTypeOK
  <2>1. 1 \in 1 .. MaxPacketId /\ 0 \in 0 .. MqttLinks /\ 0 \in 0 .. MqttCalls
        /\ 0 \in 0 .. MqttInbound
    BY MqttAssumption
  <2>2. <<>> \in Seq(Packets)
    OBVIOUS
  <2> QED BY <2>1, <2>2 DEF MqttInit, MqttTypeOK
<1> QED BY <1>1, OwnEmpty DEF MqttInit, MqInv, Idle, Packet

(* sendPacket: what goes out is put behind what is on its way.             *)
LEMMA SendAppends ==
  ASSUME MqInv, NEW p \in Packets, Send(p)
  PROVE  /\ mqOut' = (IF mqUp THEN Append(mqOut, p) ELSE mqOut)
         /\ mqOut' \in Seq(Packets) /\ mqPingDue' \in BOOLEAN
         /\ /\ p.type = "PUBREL" => p.id \in mqHas
            /\ p.type \in Publishing => p.id \in PacketIds
            => Backed(mqOut', mqIn, mqHas)
<1>1. /\ mqOut' = (IF mqUp THEN Append(mqOut, p) ELSE mqOut)
      /\ mqPingDue' \in BOOLEAN
  BY DEF Send, MqInv, MqttTypeOK
<1>2. mqOut' \in Seq(Packets)
  BY <1>1, AppendAdds DEF MqInv, MqttTypeOK
<1>3. ASSUME p.type = "PUBREL" => p.id \in mqHas,
             p.type \in Publishing => p.id \in PacketIds
      PROVE  Backed(mqOut', mqIn, mqHas)
  BY <1>1, <1>3, AppendLeaves DEF MqInv, MqttTypeOK, Backed
<1> QED BY <1>1, <1>2, <1>3

(* An operation that waits, and one that does not.                         *)
LEMMA BeginKeeps ==
  ASSUME MqInv, NEW type \in Asking \ {"PUBREL"}, NEW id \in 0 .. MaxPacketId,
         Begin(type, id), WaitFor(type, id), type = "CONNECT" \/ id \in PacketIds,
         mqConnected' \in BOOLEAN, mqNextId' \in 1 .. MaxPacketId
  PROVE  MqInv'
<1> DEFINE p == Packet(type, id)
<1>1. /\ mqWaits = Idle /\ mqCalls < MqttCalls /\ mqCalls' = mqCalls + 1 /\ Send(p)
      /\ UNCHANGED <<mqPingOut, mqLink, mqUp, mqIn, mqLate, mqAcked, mqHas, mqPublished>>
  BY DEF Begin
<1>2. /\ p \in Packets /\ p.type = type /\ p.type # "PUBREL"
      /\ Ends(p) = Packet(AckOf[type], id)
      /\ AckOf[type] \in WaitTypes
      /\ Ends(p).type \in {"PUBACK", "PUBCOMP"} => Ends(p).id \in PacketIds
      /\ p.type \in Publishing => p.id \in PacketIds
  BY AckTypes DEF Packet, Packets, Ends, EndOf, Asking, Publishing
<1>3. mqWaits' = IF mqUp THEN Ends(p) ELSE Idle
  BY <1>2 DEF WaitFor
<1>4. mqWaits' \in [type : WaitTypes, id : 0 .. MaxPacketId] \cup {Idle}
  BY <1>2, <1>3 DEF Packet
<1> HIDE DEF p
<1>5. /\ mqOut' = (IF mqUp THEN Append(mqOut, p) ELSE mqOut)
      /\ mqOut' \in Seq(Packets) /\ mqPingDue' \in BOOLEAN
      /\ Backed(mqOut', mqIn', mqHas')
  BY <1>1, <1>2, SendAppends
<1>6. MqttTypeOK'
  BY <1>1, <1>4, <1>5, MqttAssumption DEF MqInv, MqttTypeOK
<1>7. ~mqLate => Own(mqOut', mqIn', mqWaits')
  BY <1>1, <1>2, <1>3, <1>5, OwnBegins DEF MqInv, MqttTypeOK
<1>8. mqWaits'.type \in {"PUBACK", "PUBCOMP"} => mqWaits'.id \in PacketIds
  BY <1>2, <1>3 DEF Idle, Packet
<1> QED BY <1>1, <1>5, <1>6, <1>7, <1>8 DEF MqInv

LEMMA BeginOnlyKeeps ==
  ASSUME MqInv, NEW type \in {"PUBLISH0", "DISCONNECT"}, Begin(type, 0),
         mqConnected' \in BOOLEAN, mqNextId' = mqNextId, mqWaits' = mqWaits
  PROVE  MqInv'
<1> DEFINE p == Packet(type, 0)
<1>1. /\ mqCalls < MqttCalls /\ mqCalls' = mqCalls + 1 /\ Send(p)
      /\ UNCHANGED <<mqPingOut, mqLink, mqUp, mqIn, mqLate, mqAcked, mqHas, mqPublished>>
  BY DEF Begin
<1>2. /\ p \in Packets /\ p.type \notin Asking
      /\ p.type # "PUBREL" /\ p.type \notin Publishing
  BY AckTypes, MqttAssumption DEF Packet, Packets, Asking, Publishing
<1> HIDE DEF p
<1>3. /\ mqOut' = (IF mqUp THEN Append(mqOut, p) ELSE mqOut)
      /\ mqOut' \in Seq(Packets) /\ mqPingDue' \in BOOLEAN
      /\ Backed(mqOut', mqIn', mqHas')
  BY <1>1, <1>2, SendAppends
<1>4. MqttTypeOK'
  BY <1>1, <1>3, MqttAssumption DEF MqInv, MqttTypeOK
<1>5. ~mqLate => Own(mqOut', mqIn', mqWaits')
  BY <1>1, <1>2, <1>3, OwnBesides DEF MqInv, MqttTypeOK
<1> QED BY <1>1, <1>3, <1>4, <1>5 DEF MqInv

(* keepalive() sends a PINGREQ or nothing.                                 *)
LEMMA KeepaliveAppends ==
  ASSUME MqInv, NEW outstanding \in BOOLEAN, Keepalive(outstanding)
  PROVE  /\ mqPingOut' \in BOOLEAN /\ mqPingDue' \in BOOLEAN
         /\ mqOut' \in Seq(Packets)
         /\ \/ mqOut' = mqOut
            \/ mqUp /\ \E p \in Packets : p.type = "PINGREQ" /\ mqOut' = Append(mqOut, p)
<1> DEFINE p == Packet("PINGREQ", 0)
<1>1. p \in Packets /\ p.type = "PINGREQ"
  BY AckTypes, MqttAssumption DEF Packet, Packets
<1>2. CASE mqPingDue /\ ~outstanding /\ mqUp
  <2>1. Send(p) /\ mqPingOut' = TRUE
    BY <1>2 DEF Keepalive
  <2> HIDE DEF p
  <2> QED BY <1>1, <1>2, <2>1, SendAppends
<1>3. CASE ~(mqPingDue /\ ~outstanding /\ mqUp)
  BY <1>3 DEF Keepalive, MqInv, MqttTypeOK
<1> QED BY <1>2, <1>3

(* waitfor() returns on a packet of the type it waits for: until an        *)
(* operation has stopped waiting, that packet is the one.                  *)
LEMMA ReturnsRightly ==
  ASSUME MqInv, mqIn # <<>>, Returns(Head(mqIn))
  PROVE  /\ mqWaits' \in [type : WaitTypes, id : 0 .. MaxPacketId] \cup {Idle}
         /\ mqConnected' \in BOOLEAN /\ mqAcked' \subseteq 1 .. MaxPacketId
         /\ mqWaits'.type \in {"PUBACK", "PUBCOMP"} => mqWaits'.id \in PacketIds
         /\ Head(mqIn).type \notin WaitTypes => UNCHANGED <<mqWaits, mqAcked>>
         /\ ~mqLate => mqAcked' \subseteq mqHas
         /\ ~mqLate /\ Head(mqIn).type \in WaitTypes =>
              /\ mqWaits' = Idle
              /\ NoneOf(mqOut, Asking) /\ NoneOf(Tail(mqIn), Answering)
<1> DEFINE p == Head(mqIn)
<1>t. /\ mqIn \in Seq(Packets) /\ mqOut \in Seq(Packets)
      /\ mqWaits \in [type : WaitTypes, id : 0 .. MaxPacketId] \cup {Idle}
      /\ mqConnected \in BOOLEAN /\ mqAcked \subseteq 1 .. MaxPacketId
      /\ mqHas \subseteq 1 .. MaxPacketId
  BY DEF MqInv, MqttTypeOK
<1>1. p \in Packets /\ p.type \in PacketTypes
  BY <1>t, TailShifts DEF Packets
<1>2. Completes(p) => p.type \in WaitTypes /\ mqWaits # Idle
  BY <1>1, <1>t, AckTypes DEF Completes, Idle, Packet
<1>3. p.type \in Backing => p.id \in mqHas
  BY <1>t, TailShifts DEF MqInv, Backed, Carried
<1>4. /\ ~Completes(p) => UNCHANGED <<mqWaits, mqConnected, mqAcked>>
      /\ Completes(p) =>
           /\ mqWaits' = Idle
           /\ mqConnected' = (mqConnected \/ p.type = "CONNACK")
           /\ mqAcked' = IF p.type \in {"PUBACK", "PUBCOMP"}
                         THEN mqAcked \cup {mqWaits.id} ELSE mqAcked
  BY DEF Returns
<1>5. ASSUME ~mqLate, p.type \in WaitTypes
      PROVE  /\ p.type = mqWaits.type /\ p.id = mqWaits.id
             /\ NoneOf(mqOut, Asking) /\ NoneOf(Tail(mqIn), Answering)
  <2>1. p.type \in Answering /\ EndOf(p.type) = p.type
    BY <1>5, AckTypes DEF EndOf, Answering
  <2>2. Own(mqOut, mqIn, mqWaits)
    BY <1>5 DEF MqInv
  <2>3. /\ Ends(p) = mqWaits /\ NoneOf(mqOut, Asking)
        /\ NoneOf(Tail(mqIn), Answering)
    BY <1>1, <1>t, <2>1, <2>2, OwnPasses
  <2> QED BY <2>1, <2>3 DEF Ends, Packet
<1>6. ~mqLate => mqAcked \subseteq mqHas
  BY DEF MqInv
<1>7. ASSUME ~mqLate, Completes(p) PROVE mqAcked' \subseteq mqHas
  <2>1. p.id = mqWaits.id /\ (p.type \in {"PUBACK", "PUBCOMP"} => mqWaits.id \in mqHas)
    BY <1>2, <1>3, <1>5, <1>7 DEF Backing
  <2> QED BY <1>4, <1>6, <1>7, <2>1
<1>8. mqAcked' \subseteq 1 .. MaxPacketId
  <2>1. CASE Completes(p) /\ p.type \in {"PUBACK", "PUBCOMP"}
    <3>1. mqWaits.id \in PacketIds
      BY <2>1 DEF MqInv, Completes
    <3> QED BY <1>4, <1>t, <2>1, <3>1 DEF PacketIds
  <2>2. CASE ~(Completes(p) /\ p.type \in {"PUBACK", "PUBCOMP"})
    BY <1>4, <1>t, <2>2
  <2> QED BY <2>1, <2>2
<1>9. /\ mqWaits' \in [type : WaitTypes, id : 0 .. MaxPacketId] \cup {Idle}
      /\ mqConnected' \in BOOLEAN
  BY <1>4, <1>t
<1>10. p.type \notin WaitTypes => UNCHANGED <<mqWaits, mqAcked>>
  BY <1>2, <1>4
<1>11. ~mqLate => mqAcked' \subseteq mqHas
  BY <1>4, <1>6, <1>7
<1>12. ~mqLate /\ p.type \in WaitTypes =>
         /\ mqWaits' = Idle
         /\ NoneOf(mqOut, Asking) /\ NoneOf(Tail(mqIn), Answering)
  BY <1>4, <1>5 DEF Completes
<1>13. mqWaits'.type \in {"PUBACK", "PUBCOMP"} => mqWaits'.id \in PacketIds
  BY <1>4 DEF MqInv, Idle, Packet
<1> QED BY <1>8, <1>9, <1>10, <1>11, <1>12, <1>13

(* cycle() answers a PUBLISH or a PUBREC.                                  *)
LEMMA CycleAnswers ==
  ASSUME MqInv, CycleReads, Head(mqIn).type \in {"PUBLISH1", "PUBLISH2", "PUBREC"}
  PROVE  MqInv'
<1> DEFINE p == Head(mqIn)
           q == Packet(AnswerTo(p), p.id)
<1>t. /\ MqttTypeOK /\ mqIn \in Seq(Packets) /\ mqOut \in Seq(Packets)
  BY DEF MqInv, MqttTypeOK
<1>1. /\ mqUp /\ mqIn # <<>> /\ mqIn' = Tail(mqIn) /\ Send(q) /\ Returns(p)
      /\ UNCHANGED <<mqPingOut, mqNextId, mqLink, mqUp, mqCalls, mqLate, mqHas, mqPublished>>
  BY DEF CycleReads
<1>2. p \in Packets /\ p.type \notin WaitTypes /\ mqIn' \in Seq(Packets)
  BY <1>1, <1>t, TailShifts, AckTypes DEF Answering
<1>3. /\ q \in Packets /\ q.type \notin Publishing
      /\ p.type = "PUBREC" => q.type = "PUBREL" /\ q.id = p.id /\ Ends(q) = Ends(p)
      /\ p.type # "PUBREC" => q.type \notin Asking
  BY <1>2, AckTypes DEF AnswerTo, Packet, Packets, Publishing, Asking, Answering, Ends, EndOf
<1>4. p.type \in Backing => p.id \in mqHas
  BY <1>1, <1>t, TailShifts DEF MqInv, Backed, Carried
<1> HIDE DEF q
<1>5. /\ mqOut' = Append(mqOut, q) /\ mqOut' \in Seq(Packets)
      /\ mqPingDue' \in BOOLEAN /\ Backed(mqOut', mqIn, mqHas)
  <2>1. q.type = "PUBREL" => q.id \in mqHas
    BY <1>3, <1>4 DEF Asking, Backing
  <2> QED BY <1>1, <1>3, <2>1, SendAppends
<1>6. Backed(mqOut', mqIn', mqHas')
  BY <1>1, <1>5, <1>t, TailLeaves DEF Backed
<1>7. UNCHANGED <<mqWaits, mqAcked>> /\ mqConnected' \in BOOLEAN
  BY <1>1, <1>2, ReturnsRightly
<1>8. MqttTypeOK'
  BY <1>1, <1>2, <1>5, <1>7, <1>t DEF MqttTypeOK
<1>9. ASSUME ~mqLate PROVE Own(mqOut', mqIn', mqWaits)
  <2>1. Own(mqOut, mqIn, mqWaits)
    BY <1>9 DEF MqInv
  <2>2. CASE p.type = "PUBREC"
    BY <1>1, <1>3, <1>5, <1>t, <2>1, <2>2, OwnPasses DEF Answering
  <2>3. CASE p.type # "PUBREC"
    <3>1. Own(mqOut', mqIn, mqWaits)
      BY <1>3, <1>5, <1>t, <2>1, <2>3, OwnBesides
    <3> QED BY <1>1, <1>3, <1>5, <1>t, <3>1, OwnBesides
  <2> QED BY <2>2, <2>3
<1> QED BY <1>1, <1>6, <1>7, <1>8, <1>9 DEF MqInv

(* cycle() reads any other packet, and keepalive() follows.                *)
LEMMA CycleKeepsAlive ==
  ASSUME MqInv, CycleReads, Head(mqIn).type \notin {"PUBLISH1", "PUBLISH2", "PUBREC"}
  PROVE  MqInv'
<1> DEFINE p == Head(mqIn)
<1>t. /\ MqttTypeOK /\ mqIn \in Seq(Packets) /\ mqOut \in Seq(Packets)
      /\ mqPingOut \in BOOLEAN
  BY DEF MqInv, MqttTypeOK
<1>1. /\ mqUp /\ mqIn # <<>> /\ mqIn' = Tail(mqIn) /\ Returns(p)
      /\ Keepalive(mqPingOut /\ p.type # "PINGRESP")
      /\ UNCHANGED <<mqNextId, mqLink, mqUp, mqCalls, mqLate, mqHas, mqPublished>>
  BY DEF CycleReads
<1>2. mqIn' \in Seq(Packets)
  BY <1>1, <1>t, TailShifts
<1>3. /\ mqPingOut' \in BOOLEAN /\ mqPingDue' \in BOOLEAN /\ mqOut' \in Seq(Packets)
      /\ \/ mqOut' = mqOut
         \/ \E q \in Packets : q.type = "PINGREQ" /\ mqOut' = Append(mqOut, q)
  BY <1>1, <1>t, KeepaliveAppends
<1>4. \A s \in Seq(Packets) : \A waits, has :
        /\ Own(mqOut, s, waits) => Own(mqOut', s, waits)
        /\ Backed(mqOut, s, has) => Backed(mqOut', s, has)
  <2> SUFFICES ASSUME NEW q \in Packets, q.type = "PINGREQ", mqOut' = Append(mqOut, q),
                      NEW s \in Seq(Packets), NEW waits, NEW has
               PROVE  /\ Own(mqOut, s, waits) => Own(mqOut', s, waits)
                      /\ Backed(mqOut, s, has) => Backed(mqOut', s, has)
    BY <1>3
  <2>1. q.type \notin Asking /\ q.type # "PUBREL" /\ q.type \notin Publishing
    BY DEF Asking, Publishing
  <2>2. Own(mqOut, s, waits) => Own(mqOut', s, waits)
    BY <1>t, <2>1, OwnBesides
  <2>3. Backed(mqOut, s, has) => Backed(mqOut', s, has)
    BY <1>t, <2>1, AppendLeaves DEF Backed
  <2> QED BY <2>2, <2>3
<1>5. Backed(mqOut', mqIn', mqHas')
  <2>1. Backed(mqOut, mqIn', mqHas)
    BY <1>1, <1>t, TailLeaves DEF Backed, MqInv
  <2> QED BY <1>1, <1>2, <1>4, <2>1
<1>6. /\ mqWaits' \in [type : WaitTypes, id : 0 .. MaxPacketId] \cup {Idle}
      /\ mqConnected' \in BOOLEAN /\ mqAcked' \subseteq 1 .. MaxPacketId
      /\ mqWaits'.type \in {"PUBACK", "PUBCOMP"} => mqWaits'.id \in PacketIds
      /\ p.type \notin WaitTypes => UNCHANGED <<mqWaits, mqAcked>>
      /\ ~mqLate => mqAcked' \subseteq mqHas
      /\ ~mqLate /\ p.type \in WaitTypes =>
           /\ mqWaits' = Idle
           /\ NoneOf(mqOut, Asking) /\ NoneOf(Tail(mqIn), Answering)
  BY <1>1, ReturnsRightly
<1>7. MqttTypeOK'
  BY <1>1, <1>2, <1>3, <1>6, <1>t DEF MqttTypeOK
<1>8. ASSUME ~mqLate PROVE Own(mqOut, mqIn', mqWaits')
  <2>1. Own(mqOut, mqIn', mqWaits)
    <3>1. Own(mqOut, mqIn, mqWaits)
      BY <1>8 DEF MqInv
    <3>2. PICK q \in Packets : q = p
      BY <1>1, <1>t, TailShifts
    <3> QED BY <1>1, <1>t, <3>1, <3>2, OwnBesides
  <2>2. CASE p.type \in WaitTypes
    BY <1>1, <1>2, <1>6, <1>8, <1>t, <2>1, <2>2, OwnForAny
  <2>3. CASE p.type \notin WaitTypes
    BY <1>6, <2>1, <2>3
  <2> QED BY <2>2, <2>3
<1>9. ~mqLate => Own(mqOut', mqIn', mqWaits')
  BY <1>2, <1>4, <1>8
<1> QED BY <1>1, <1>5, <1>6, <1>7, <1>9 DEF MqInv

LEMMA CycleIdleKeeps ==
  ASSUME MqInv, CycleFindsNothing
  PROVE  MqInv'
<1>t. /\ MqttTypeOK /\ mqIn \in Seq(Packets) /\ mqOut \in Seq(Packets)
      /\ mqPingOut \in BOOLEAN
  BY DEF MqInv, MqttTypeOK
<1>1. /\ Keepalive(mqPingOut)
      /\ UNCHANGED <<mqConnected, mqNextId, mqWaits, mqLink, mqUp, mqIn, mqCalls,
                     mqLate, mqAcked, mqHas, mqPublished>>
  BY DEF CycleFindsNothing
<1>2. /\ mqPingOut' \in BOOLEAN /\ mqPingDue' \in BOOLEAN /\ mqOut' \in Seq(Packets)
      /\ \/ mqOut' = mqOut
         \/ mqUp /\ \E q \in Packets : q.type = "PINGREQ" /\ mqOut' = Append(mqOut, q)
  BY <1>1, <1>t, KeepaliveAppends
<1>3. MqttTypeOK'
  BY <1>1, <1>2, <1>t DEF MqttTypeOK
<1>4. CASE mqOut' = mqOut
  BY <1>1, <1>3, <1>4 DEF MqInv
<1>5. ASSUME mqUp, NEW q \in Packets, q.type = "PINGREQ", mqOut' = Append(mqOut, q)
      PROVE  MqInv'
  <2>1. q.type \notin Asking /\ q.type # "PUBREL" /\ q.type \notin Publishing
    BY <1>5 DEF Asking, Publishing
  <2>2. ~mqLate => Own(mqOut', mqIn, mqWaits)
    BY <1>5, <1>t, <2>1, OwnBesides DEF MqInv
  <2>3. Backed(mqOut', mqIn, mqHas)
    BY <1>5, <1>t, <2>1, AppendLeaves DEF Backed, MqInv
  <2> QED BY <1>1, <1>3, <1>5, <2>2, <2>3 DEF MqInv
<1> QED BY <1>2, <1>4, <1>5

-----------------------------------------------------------------------------
(* The broker takes responsibility for a message before it says so.        *)
LEMMA BrokerKeeps ==
  ASSUME MqInv, BrokerReads
  PROVE  MqInv'
<1> DEFINE p == Head(mqOut)
           q == Packet(BrokerAnswer[p.type], p.id)
<1>t. /\ MqttTypeOK /\ mqIn \in Seq(Packets) /\ mqOut \in Seq(Packets)
      /\ mqHas \subseteq PacketIds
  BY DEF MqInv, MqttTypeOK, PacketIds
<1>1. /\ mqOut # <<>> /\ mqOut' = Tail(mqOut)
      /\ mqIn' = IF p.type \in DOMAIN BrokerAnswer THEN Append(mqIn, q) ELSE mqIn
      /\ mqHas' = IF p.type \in Publishing THEN mqHas \cup {p.id} ELSE mqHas
      /\ UNCHANGED <<mqClient, mqLink, mqUp, mqPublished>>
  BY DEF BrokerReads, Publishing
<1>c. UNCHANGED <<mqConnected, mqNextId, mqWaits, mqPingDue, mqPingOut, mqCalls,
                  mqLate, mqAcked>>
  BY <1>1 DEF mqClient
<1>2. p \in Packets /\ mqOut' \in Seq(Packets) /\ mqUp
  BY <1>1, <1>t, TailShifts DEF MqInv
<1>3. p.type \in DOMAIN BrokerAnswer =>
        /\ q \in Packets /\ q.id = p.id
        /\ p.type \in Asking => q.type \in Answering /\ Ends(q) = Ends(p)
        /\ p.type \notin Asking => q.type \notin Answering
        /\ q.type \in Backing => p.type \in Publishing \cup {"PUBREL"}
  <2>1. q.type = BrokerAnswer[p.type] /\ q.id = p.id
    BY DEF Packet
  <2>2. p.type \in DOMAIN BrokerAnswer => q \in Packets
    BY <1>2, BrokerTypes, AckTypes DEF Packet, Packets
  <2>3. p.type \in Asking => q.type \in Answering /\ Ends(q) = Ends(p)
    BY <2>1, BrokerTypes DEF Ends
  <2>4. p.type \in DOMAIN BrokerAnswer \ Asking => q.type \in PacketTypes \ Answering
    BY <2>1, BrokerTypes
  <2>5. p.type \in DOMAIN BrokerAnswer /\ q.type \in Backing
          => p.type \in Publishing \cup {"PUBREL"}
    BY <2>1, <2>4, BrokerTypes DEF Publishing, Backing, Answering
  <2> QED BY <2>1, <2>2, <2>3, <2>4, <2>5
<1>4. /\ p.type \in Publishing => p.id \in PacketIds
      /\ p.type = "PUBREL" => p.id \in mqHas
  BY <1>1, <1>t, TailShifts DEF MqInv, Backed, Carried
<1>d. p.type \notin DOMAIN BrokerAnswer => p.type \notin Asking
  BY BrokerTypes
<1> HIDE DEF q
<1>5. mqIn' \in Seq(Packets) /\ mqHas \subseteq mqHas' /\ mqHas' \subseteq PacketIds
  BY <1>1, <1>3, <1>4, <1>t, AppendAdds
<1>6. MqttTypeOK'
  BY <1>1, <1>c, <1>2, <1>5, <1>t DEF MqttTypeOK, PacketIds
<1>7. Backed(mqOut', mqIn', mqHas')
  <2>1. /\ Carried(mqOut', {"PUBREL"}, mqHas) /\ Carried(mqOut', Publishing, PacketIds)
        /\ Carried(mqIn, Backing, mqHas)
    BY <1>1, <1>t, TailLeaves DEF MqInv, Backed
  <2>2. Carried(mqOut', {"PUBREL"}, mqHas') /\ Carried(mqIn, Backing, mqHas')
    BY <1>5, <2>1 DEF Carried
  <2>3. p.type \in DOMAIN BrokerAnswer /\ q.type \in Backing => q.id \in mqHas'
    BY <1>1, <1>3, <1>4
  <2>4. Carried(mqIn', Backing, mqHas')
    BY <1>1, <1>3, <1>t, <2>2, <2>3, AppendLeaves
  <2> QED BY <2>1, <2>2, <2>4 DEF Backed
<1>8. ASSUME ~mqLate PROVE Own(mqOut', mqIn', mqWaits)
  <2>1. Own(mqOut, mqIn, mqWaits)
    BY <1>8 DEF MqInv
  <2>2. Own(mqOut', mqIn, mqWaits)
    BY <1>1, <1>2, <1>t, <2>1, OwnBesides
  <2>3. CASE p.type \in DOMAIN BrokerAnswer /\ p.type \in Asking
    BY <1>1, <1>3, <1>t, <2>1, <2>3, OwnPasses
  <2>4. CASE p.type \in DOMAIN BrokerAnswer /\ p.type \notin Asking
    BY <1>1, <1>2, <1>3, <1>t, <2>2, <2>4, OwnBesides
  <2>5. CASE p.type \notin DOMAIN BrokerAnswer
    BY <1>1, <2>2, <2>5
  <2> QED BY <2>3, <2>4, <2>5
<1>9. ~mqLate => mqAcked \subseteq mqHas'
  BY <1>5 DEF MqInv
<1> QED BY <1>1, <1>c, <1>2, <1>6, <1>7, <1>8, <1>9 DEF MqInv

LEMMA BrokerPublishesKeeps ==
  ASSUME MqInv, BrokerPublishes
  PROVE  MqInv'
<1>t. /\ MqttTypeOK /\ mqIn \in Seq(Packets) /\ mqOut \in Seq(Packets)
  BY DEF MqInv, MqttTypeOK
<1>1. PICK t \in {"PUBLISH1", "PUBLISH2"} : mqIn' = Append(mqIn, Packet(t, mqPublished'))
  BY DEF BrokerPublishes
<1>2. /\ mqUp /\ mqPublished < MqttInbound /\ mqPublished' = mqPublished + 1
      /\ UNCHANGED <<mqConnected, mqNextId, mqWaits, mqPingDue, mqPingOut, mqCalls,
                     mqLate, mqAcked, mqLink, mqUp, mqOut, mqHas>>
  BY DEF BrokerPublishes, mqClient
<1>3. mqPublished' \in 0 .. MqttInbound /\ mqPublished' \in 0 .. MaxPacketId
  BY <1>2, <1>t, MqttAssumption DEF MqttTypeOK
<1> DEFINE q == Packet(t, mqPublished')
<1>4. /\ q \in Packets /\ q.type \notin Answering /\ q.type \notin Backing
      /\ mqIn' = Append(mqIn, q)
  BY <1>1, <1>3, AckTypes DEF Packet, Packets, Asking, Answering, Backing
<1> HIDE DEF q
<1>5. mqIn' \in Seq(Packets)
  BY <1>4, <1>t, AppendAdds
<1>6. MqttTypeOK'
  BY <1>2, <1>3, <1>5, <1>t DEF MqttTypeOK
<1>7. Backed(mqOut, mqIn', mqHas)
  BY <1>4, <1>t, AppendLeaves DEF MqInv, Backed
<1>8. ~mqLate => Own(mqOut, mqIn', mqWaits)
  BY <1>4, <1>t, OwnBesides DEF MqInv
<1> QED BY <1>2, <1>6, <1>7, <1>8 DEF MqInv

-----------------------------------------------------------------------------
LEMMA MqInvStep == MqInv /\ [MqttNext]_mqVars => MqInv'
<1> SUFFICES ASSUME MqInv, [MqttNext]_mqVars PROVE MqInv'
  OBVIOUS
<1>t. MqttTypeOK
  BY DEF MqInv
<1>1. CASE MQTTConnect
  <2>1. /\ Begin("CONNECT", 0) /\ WaitFor("CONNECT", 0)
        /\ mqConnected' \in BOOLEAN /\ mqNextId' \in 1 .. MaxPacketId
    BY <1>1, <1>t DEF MQTTConnect, MqttTypeOK
  <2> QED BY <2>1, BeginKeeps, MqttAssumption DEF Asking
<1>2. ASSUME NEW type \in DOMAIN AckOf \ {"CONNECT"}, MQTTRequest(type) PROVE MqInv'
  <2>1. /\ Begin(type, mqNextId') /\ WaitFor(type, mqNextId')
        /\ mqConnected' \in BOOLEAN /\ mqNextId' \in 1 .. MaxPacketId
    BY <1>2, <1>t, MqttAssumption DEF MQTTRequest, NextPacketId, MqttTypeOK
  <2>2. type \in Asking \ {"PUBREL"}
    BY AckTypes
  <2>3. mqNextId' \in 0 .. MaxPacketId /\ mqNextId' \in PacketIds
    BY <2>1, MqttAssumption DEF PacketIds
  <2> QED BY <2>1, <2>2, <2>3, BeginKeeps
<1>3. CASE MQTTPublish0
  BY <1>3, <1>t, BeginOnlyKeeps DEF MQTTPublish0, MqttTypeOK
<1>4. CASE MQTTDisconnect
  BY <1>4, <1>t, BeginOnlyKeeps DEF MQTTDisconnect, MqttTypeOK
<1>5. CASE Cycle
  BY <1>5, CycleAnswers, CycleKeepsAlive, CycleIdleKeeps DEF Cycle
<1>6. CASE WaitTimesOut
  <2>1. /\ mqWaits' = Idle /\ mqLate' = TRUE
        /\ UNCHANGED <<mqConnected, mqNextId, mqPingDue, mqPingOut, mqLink,
                       mqUp, mqOut, mqIn, mqCalls, mqAcked, mqHas, mqPublished>>
    BY <1>6 DEF WaitTimesOut
  <2>2. MqttTypeOK'
    BY <1>t, <2>1 DEF MqttTypeOK
  <2>3. mqWaits'.type \notin {"PUBACK", "PUBCOMP"}
    BY <2>1 DEF Idle, Packet
  <2> QED BY <2>1, <2>2, <2>3 DEF MqInv
<1>7. CASE PingTimerExpires
  <2>1. /\ mqPingDue' = TRUE
        /\ UNCHANGED <<mqConnected, mqNextId, mqWaits, mqPingOut, mqLink,
                       mqUp, mqOut, mqIn, mqCalls, mqLate, mqAcked, mqHas, mqPublished>>
    BY <1>7 DEF PingTimerExpires
  <2>2. MqttTypeOK'
    BY <1>t, <2>1 DEF MqttTypeOK
  <2> QED BY <2>1, <2>2 DEF MqInv
<1>8. CASE ConnectNetwork
  <2>1. /\ mqLink < MqttLinks /\ mqUp' = TRUE /\ mqLink' = mqLink + 1
        /\ UNCHANGED <<mqConnected, mqNextId, mqWaits, mqPingDue, mqPingOut, mqCalls,
                       mqLate, mqAcked, mqOut, mqIn, mqHas, mqPublished>>
    BY <1>8 DEF ConnectNetwork, mqClient
  <2>2. MqttTypeOK'
    BY <1>t, <2>1, MqttAssumption DEF MqttTypeOK
  <2> QED BY <2>1, <2>2 DEF MqInv
<1>9. CASE LinkLost
  <2>1. /\ mqUp' = FALSE /\ mqOut' = <<>> /\ mqIn' = <<>>
        /\ UNCHANGED <<mqConnected, mqNextId, mqWaits, mqPingDue, mqPingOut, mqCalls,
                       mqLate, mqAcked, mqLink, mqHas, mqPublished>>
    BY <1>9 DEF LinkLost, mqClient
  <2>2. mqOut' \in Seq(Packets) /\ mqIn' \in Seq(Packets) /\ mqUp' \in BOOLEAN
    <3>1. <<>> \in Seq(Packets)
      OBVIOUS
    <3> QED BY <2>1, <3>1
  <2>3. MqttTypeOK'
    BY <1>t, <2>1, <2>2 DEF MqttTypeOK
  <2> QED BY <2>1, <2>3, OwnEmpty DEF MqInv
<1>10. CASE BrokerReads
  BY <1>10, BrokerKeeps
<1>11. CASE BrokerPublishes
  BY <1>11, BrokerPublishesKeeps
<1>12. CASE UNCHANGED mqVars
  BY <1>12 DEF mqVars, mqClient, MqInv, MqttTypeOK
<1> QED BY <1>1, <1>2, <1>3, <1>4, <1>5, <1>6, <1>7, <1>8, <1>9, <1>10, <1>11, <1>12
     DEF MqttNext

(* Every reachable state of the MQTT client and its broker is well typed:  *)
(* ids stay between 1 and MAX_PACKET_ID (getNextPacketId).                 *)
THEOREM MqttTyped == MqttSpec => []MqttTypeOK
<1>1. MqInv => MqttTypeOK
  BY DEF MqInv
<1> QED BY <1>1, MqInvInit, MqInvStep, PTL DEF MqttSpec

(* What MqInv says of the packets on the wire is that none is mistaken.    *)
LEMMA InboxIsOwn == MqInv => MqttAckIsOwn
<1> SUFFICES ASSUME MqInv, ~mqLate
             PROVE  /\ mqAcked \subseteq mqHas
                    /\ \A i \in DOMAIN mqIn :
                         mqIn[i].type = mqWaits.type => mqIn[i].id = mqWaits.id
  BY DEF MqttAckIsOwn
<1>1. mqAcked \subseteq mqHas
  BY DEF MqInv
<1>2. ASSUME NEW i \in DOMAIN mqIn, mqIn[i].type = mqWaits.type
      PROVE  mqIn[i].id = mqWaits.id
  <2>1. /\ mqIn \in Seq(Packets) /\ DOMAIN mqIn = 1 .. Len(mqIn)
        /\ mqIn[i] \in Packets
        /\ mqWaits \in [type : WaitTypes, id : 0 .. MaxPacketId] \cup {Idle}
    BY DEF MqInv, MqttTypeOK
  <2>2. mqIn[i].type \in Answering
    BY <1>2, <2>1, AckTypes DEF Packets, Idle, Packet
  <2>3. Ends(mqIn[i]) = mqWaits
    BY <2>1, <2>2 DEF MqInv, Own, EndWith
  <2> QED BY <2>3 DEF Ends, Packet
<1> QED BY <1>1, <1>2

(* An acknowledgement is never taken for another message's, and what is    *)
(* acknowledged the broker has, for any number of operations, messages and *)
(* lost connections, as long as no operation has stopped waiting           *)
(* (waitfor, which compares the type and not the id).                      *)
THEOREM AcksAreOwn == MqttSpec => []MqttAckIsOwn
<1>1. MqInv => MqttAckIsOwn
  BY InboxIsOwn
<1> QED BY <1>1, MqInvInit, MqInvStep, PTL DEF MqttSpec

-----------------------------------------------------------------------------
(***************************************************************************)
(* HttpServer.  The record of a response is clear while the server is idle *)
(* and inside its file while a response is in progress (RecordKept); a     *)
(* request in the socket is the one the connected client has made          *)
(* (RequestIsOwn); and of the file a client asked for that found the       *)
(* server idle, the pieces up to the record's offset, or all of them, were *)
(* given to send(), each sent or lost (SentSoFar).                         *)
(***************************************************************************)
RecordKept ==
  /\ httpStatus = "IDLE" => httpFile = 0 /\ httpLen = 0 /\ httpOffset = 0
  /\ httpStatus = "RES_INPROC" =>
       httpFile = httpLen /\ httpLen \in HttpFiles /\ httpOffset < httpLen

RequestIsOwn ==
  /\ httpSr \in {"INIT", "LISTEN"} => httpRx = NoRequest
  /\ httpSr = "ESTABLISHED" /\ httpRx # NoRequest => httpRx = httpAsked

(* Of the first `given' pieces of a file, those in `sent', in their order, *)
(* and those in `lost' are each one once.                                  *)
Covers(sent, lost, file, given) ==
  /\ \A i \in 1 .. Len(sent) :
       /\ sent[i][1] = file /\ sent[i][2] \notin lost
       /\ \A j \in 1 .. i - 1 : sent[j][2] < sent[i][2]
  /\ {sent[i][2] : i \in 1 .. Len(sent)} \cup lost = 1 .. given

SentSoFar ==
  httpFresh /\ httpSr = "ESTABLISHED" =>
    /\ httpStatus = "IDLE" =>
         /\ httpSent = <<>> /\ httpLost = {}
         /\ httpAsked = NoRequest => httpRx = NoRequest
    /\ httpStatus # "IDLE" => httpAsked \in HttpFiles
    /\ httpStatus = "RES_INPROC" =>
         httpFile = httpAsked /\ Covers(httpSent, httpLost, httpAsked, httpOffset)
    /\ httpStatus = "RES_DONE" =>
         Covers(httpSent, httpLost, httpAsked, httpAsked)

HttpInv == HttpTypeOK /\ RecordKept /\ RequestIsOwn /\ SentSoFar

(* A part of a file is a sequence of its pieces.                           *)
LEMMA PartIsPieces ==
  ASSUME NEW file \in HttpFiles, NEW from \in Nat, NEW n \in Nat, from + n <= file
  PROVE  /\ Part(file, from, n) \in Seq(Pieces) /\ Len(Part(file, from, n)) = n
         /\ \A i \in 1 .. n : Part(file, from, n)[i] = <<file, from + i>>
<1>1. \A i \in 1 .. n : <<file, from + i>> \in Pieces
  <2> SUFFICES ASSUME NEW i \in 1 .. n PROVE <<file, from + i>> \in Pieces
    OBVIOUS
  <2>1. from + i \in 1 .. file
    BY HttpAssumption
  <2> QED BY <2>1 DEF Pieces
<1>2. Part(file, from, n) \in [1 .. n -> Pieces]
  BY <1>1 DEF Part
<1> QED BY <1>2 DEF Part

LEMMA LeastIsLess ==
  ASSUME NEW a \in Nat, NEW b \in Nat
  PROVE  /\ Least(a, b) \in Nat /\ Least(a, b) <= a /\ Least(a, b) <= b
         /\ a <= b => Least(a, b) = a
         /\ b <= a => Least(a, b) = b
BY DEF Least

(* A part appended and lost pieces added: what is covered grows by it.     *)
LEMMA CoverGrows ==
  ASSUME NEW file \in HttpFiles, NEW from \in Nat, NEW n \in Nat, from + n <= file,
         NEW taken \in 0 .. n, NEW sent \in Seq(Pieces), NEW lost,
         Covers(sent, lost, file, from)
  PROVE  Covers(sent \o Part(file, from, taken),
                lost \cup (from + taken + 1 .. from + n), file, from + n)
<1> DEFINE a == Len(sent)
           t == Part(file, from, taken)
           u == sent \o t
           more == from + taken + 1 .. from + n
<1>0. a \in Nat /\ taken \in Nat /\ taken <= n /\ from + taken <= file
  BY HttpAssumption
<1>1. /\ t \in Seq(Pieces) /\ Len(t) = taken
      /\ \A i \in 1 .. taken : t[i] = <<file, from + i>>
  BY <1>0, PartIsPieces
<1> HIDE DEF t
<1>2. /\ Len(u) = a + taken
      /\ \A i \in 1 .. a + taken : u[i] = IF i <= a THEN sent[i] ELSE t[i - a]
  BY <1>1, ConcatProperties
<1> HIDE DEF u
<1>3. /\ \A i \in 1 .. a : /\ sent[i][1] = file /\ sent[i][2] \notin lost
                           /\ sent[i][2] \in 1 .. from
                           /\ \A j \in 1 .. i - 1 : sent[j][2] < sent[i][2]
      /\ lost \subseteq 1 .. from
      /\ \A k \in 1 .. from : k \in lost \/ \E i \in 1 .. a : k = sent[i][2]
  BY DEF Covers
<1> HIDE DEF a
<1>4. \A i \in 1 .. a : u[i] = sent[i]
  BY <1>0, <1>2
<1>5. \A i \in a + 1 .. a + taken : u[i] = <<file, from + (i - a)>>
  <2> SUFFICES ASSUME NEW i \in a + 1 .. a + taken
               PROVE  u[i] = <<file, from + (i - a)>>
    OBVIOUS
  <2>1. i - a \in 1 .. taken /\ i \in 1 .. a + taken /\ ~(i <= a)
    BY <1>0
  <2> QED BY <1>1, <1>2, <2>1
<1>6. ASSUME NEW i \in 1 .. a + taken
      PROVE  /\ u[i][1] = file /\ u[i][2] \notin lost \cup more
             /\ u[i][2] \in 1 .. from + n
             /\ \A j \in 1 .. i - 1 : u[j][2] < u[i][2]
  <2>1. CASE i <= a
    <3>1. i \in 1 .. a /\ \A j \in 1 .. i - 1 : j \in 1 .. a
      BY <1>0, <2>1
    <3>2. u[i] = sent[i] /\ \A j \in 1 .. i - 1 : u[j] = sent[j]
      BY <1>4, <3>1
    <3>3. sent[i][2] \notin more /\ sent[i][2] \in 1 .. from + n
      BY <1>0, <1>3, <3>1
    <3> QED BY <1>3, <3>1, <3>2, <3>3
  <2>2. CASE i > a
    <3>1. i \in a + 1 .. a + taken /\ i - a \in 1 .. taken
      BY <1>0, <2>2
    <3>2. u[i] = <<file, from + (i - a)>>
      BY <1>5, <3>1
    <3>3. /\ from + (i - a) \notin lost /\ from + (i - a) \notin more
          /\ from + (i - a) \in 1 .. from + n
      BY <1>0, <1>3, <3>1
    <3>4. ASSUME NEW j \in 1 .. i - 1 PROVE u[j][2] < from + (i - a)
      <4>1. CASE j <= a
        <5>1. j \in 1 .. a
          BY <1>0, <4>1
        <5>2. u[j][2] \in 1 .. from
          BY <1>3, <1>4, <5>1
        <5> QED BY <3>1, <5>2
      <4>2. CASE j > a
        <5>1. j \in a + 1 .. a + taken
          BY <1>0, <4>2
        <5>2. u[j] = <<file, from + (j - a)>>
          BY <1>5, <5>1
        <5> QED BY <1>0, <3>1, <5>1, <5>2
      <4>3. j <= a \/ j > a
        BY <1>0
      <4> QED BY <4>1, <4>2, <4>3
    <3> QED BY <3>2, <3>3, <3>4
  <2>3. i <= a \/ i > a
    BY <1>0
  <2> QED BY <2>1, <2>2, <2>3
<1>7. lost \cup more \subseteq 1 .. from + n
  BY <1>0, <1>3
<1>8. ASSUME NEW k \in 1 .. from + n
      PROVE  k \in lost \cup more \/ \E i \in 1 .. a + taken : k = u[i][2]
  <2>1. CASE k <= from
    <3>1. k \in 1 .. from
      BY <2>1
    <3>2. CASE k \notin lost
      <4>1. PICK i \in 1 .. a : k = sent[i][2]
        BY <1>3, <3>1, <3>2
      <4>2. i \in 1 .. a + taken /\ u[i] = sent[i]
        BY <1>0, <1>4
      <4> QED BY <4>1, <4>2
    <3> QED BY <3>2
  <2>2. CASE k > from /\ k <= from + taken
    <3>1. /\ a + (k - from) \in a + 1 .. a + taken
          /\ a + (k - from) \in 1 .. a + taken
          /\ from + ((a + (k - from)) - a) = k
      BY <1>0, <2>2
    <3>2. u[a + (k - from)] = <<file, k>>
      BY <1>5, <3>1
    <3> QED BY <3>1, <3>2
  <2>3. CASE k > from + taken
    BY <1>0, <2>3
  <2> QED BY <1>0, <2>1, <2>2, <2>3
<1>9. {u[i][2] : i \in 1 .. a + taken} \cup (lost \cup more) = 1 .. from + n
  BY <1>6, <1>7, <1>8
<1> QED BY <1>2, <1>6, <1>9 DEF Covers, u, t

(* A send, of which any part may be lost.                                  *)
LEMMA SendCovers ==
  ASSUME HttpTypeOK, NEW file \in HttpFiles, NEW from \in Nat, NEW n \in Nat,
         from + n <= file, SendPieces(file, from, n)
  PROVE  /\ httpSent' \in Seq(Pieces) /\ httpLost' \subseteq Nat
         /\ httpFaulted' \in BOOLEAN
         /\ Covers(httpSent, httpLost, file, from) =>
              Covers(httpSent', httpLost', file, from + n)
<1>1. PICK taken \in {0, Least(n, HttpTxMax)} :
        /\ httpSent' = httpSent \o Part(file, from, taken)
        /\ httpLost' = httpLost \cup (from + taken + 1 .. from + n)
        /\ MayFault
  BY DEF SendPieces
<1>2. taken \in 0 .. n
  <2>1. HttpTxMax \in Nat
    BY HttpAssumption
  <2>2. Least(n, HttpTxMax) \in Nat /\ Least(n, HttpTxMax) <= n
    BY <2>1, LeastIsLess
  <2> QED BY <1>1, <2>2
<1>3. httpSent \in Seq(Pieces) /\ httpLost \subseteq Nat /\ httpFaulted \in BOOLEAN
  BY DEF HttpTypeOK
<1>4. Part(file, from, taken) \in Seq(Pieces)
  <2>1. taken \in Nat /\ from + taken <= file
    BY <1>2, HttpAssumption
  <2> QED BY <2>1, PartIsPieces
<1>5. httpSent' \in Seq(Pieces)
  BY <1>1, <1>3, <1>4, ConcatProperties
<1>6. httpLost' \subseteq Nat
  BY <1>1, <1>2, <1>3
<1>7. httpFaulted' \in BOOLEAN
  BY <1>1, <1>3 DEF MayFault
<1> QED BY <1>1, <1>2, <1>3, <1>5, <1>6, <1>7, CoverGrows

LEMMA HttpInvInit == HttpInit => HttpInv
<1> SUFFICES ASSUME HttpInit PROVE HttpInv
  OBVIOUS
<1>1. <<>> \in Seq(Pieces)
  OBVIOUS
<1>2. HttpTypeOK
  BY <1>1 DEF HttpInit, HttpTypeOK, HttpStates
<1> QED BY <1>2 DEF HttpInit, HttpInv, RecordKept, RequestIsOwn, SentSoFar

(* The first part is from the file's beginning, and the offset is behind   *)
(* it: a file that fits in the buffer is sent, another is in progress.     *)
LEMMA AnswerKeepsInv ==
  ASSUME HttpInv, HasRequest, NEW n \in HttpFiles, SendFirstPart(n), AnswerBegun,
         httpRx' \in {httpRx, NoRequest}, httpFresh' \in BOOLEAN,
         httpFresh' => httpFresh /\ n = httpAsked
  PROVE  HttpInv'
<1> DEFINE size == Least(n, HttpBuf)
<1>t. /\ HttpTypeOK /\ RecordKept /\ RequestIsOwn /\ SentSoFar
  BY DEF HttpInv
<1>1. /\ httpSr = "ESTABLISHED" /\ httpStatus = "IDLE"
      /\ httpStatus' = IF httpLen' > 0 THEN "RES_INPROC" ELSE "RES_DONE"
      /\ UNCHANGED <<httpSr, httpAsked>>
  BY DEF HasRequest, AnswerBegun
<1>2. /\ n \in Nat /\ HttpBuf \in Nat /\ HttpBuf > 0
      /\ httpFile = 0 /\ httpLen = 0 /\ httpOffset = 0
      /\ httpFresh => httpSent = <<>> /\ httpLost = {}
  BY <1>1, <1>t, HttpAssumption DEF RecordKept, SentSoFar
<1>3. /\ size \in Nat /\ 0 + size <= n
      /\ n <= HttpBuf => size = n
      /\ n > HttpBuf => size = HttpBuf
  <2>1. /\ size \in Nat /\ size <= n
        /\ n <= HttpBuf => size = n
        /\ HttpBuf <= n => size = HttpBuf
    BY <1>2, LeastIsLess
  <2> HIDE DEF size
  <2> QED BY <1>2, <2>1
<1>4. /\ SendPieces(n, 0, size)
      /\ n > HttpBuf => httpFile' = n /\ httpLen' = n /\ httpOffset' = size
      /\ n <= HttpBuf => httpFile' = 0 /\ httpLen' = 0 /\ httpOffset' = size
  <2>1. SendPieces(n, 0, size)
    BY <1>2 DEF SendFirstPart
  <2>2. /\ n > HttpBuf => httpFile' = n /\ httpLen' = n
        /\ n <= HttpBuf => httpFile' = 0 /\ httpLen' = 0
    BY <1>2 DEF SendFirstPart
  <2>3. size = 0 => httpOffset' = 0 /\ httpLen' = 0
    BY <1>2 DEF SendFirstPart
  <2>4. size # 0 => httpOffset' = 0 + size
    BY <1>2 DEF SendFirstPart
  <2> HIDE DEF size
  <2> QED BY <1>2, <1>3, <2>1, <2>2, <2>3, <2>4
<1> HIDE DEF size
<1>5. /\ httpSent' \in Seq(Pieces) /\ httpLost' \subseteq Nat
      /\ httpFaulted' \in BOOLEAN
      /\ Covers(httpSent, httpLost, n, 0) => Covers(httpSent', httpLost', n, 0 + size)
  BY <1>3, <1>4, <1>t, SendCovers
<1>6. httpFresh' => httpAsked = n /\ Covers(httpSent', httpLost', n, size)
  <2>1. httpFresh' => Covers(httpSent, httpLost, n, 0)
    BY <1>2 DEF Covers
  <2>2. 0 + size = size
    BY <1>3
  <2> QED BY <1>5, <2>1, <2>2
<1>7. HttpTypeOK'
  <2>1. httpRx' \in HttpFiles \cup {NoRequest} /\ httpAsked' \in HttpFiles \cup {NoRequest}
    BY <1>1, <1>t DEF HttpTypeOK
  <2>2. /\ httpFile' \in HttpFiles \cup {0} /\ httpLen' \in HttpFiles \cup {0}
        /\ httpOffset' \in Nat
    BY <1>2, <1>3, <1>4
  <2> QED BY <1>1, <1>5, <1>t, <2>1, <2>2 DEF HttpTypeOK
<1>8. RequestIsOwn'
  BY <1>1, <1>t DEF RequestIsOwn
<1>9. CASE n > HttpBuf
  <2>1. httpStatus' = "RES_INPROC"
    BY <1>1, <1>2, <1>4, <1>9
  <2>2. RecordKept'
    BY <1>2, <1>3, <1>4, <1>9, <2>1 DEF RecordKept
  <2>3. SentSoFar'
    BY <1>1, <1>4, <1>6, <1>9, <2>1 DEF SentSoFar
  <2> QED BY <1>7, <1>8, <2>2, <2>3 DEF HttpInv
<1>10. CASE n <= HttpBuf
  <2>1. httpStatus' = "RES_DONE"
    BY <1>1, <1>2, <1>4, <1>10
  <2>2. RecordKept'
    BY <2>1 DEF RecordKept
  <2>3. SentSoFar'
    BY <1>1, <1>3, <1>6, <1>10, <2>1 DEF SentSoFar
  <2> QED BY <1>7, <1>8, <2>2, <2>3 DEF HttpInv
<1> QED BY <1>2, <1>9, <1>10

(* The next part begins where the last one ended.                          *)
LEMMA BodyKeepsInv ==
  ASSUME HttpInv, RunBody
  PROVE  HttpInv'
<1> DEFINE left == httpLen - httpOffset
           size == Least(left, HttpBuf)
<1>t. /\ HttpTypeOK /\ RecordKept /\ RequestIsOwn /\ SentSoFar
  BY DEF HttpInv
<1>1. /\ httpSr = "ESTABLISHED" /\ httpStatus = "RES_INPROC"
      /\ httpStatus' = IF httpLen' = 0 THEN "RES_DONE" ELSE httpStatus
      /\ UNCHANGED <<httpSr, httpRx, httpAsked, httpFresh>>
      /\ SendPieces(httpFile, httpOffset, size)
      /\ IF left > HttpBuf
         THEN httpOffset' = httpOffset + HttpBuf /\ UNCHANGED <<httpFile, httpLen>>
         ELSE httpFile' = 0 /\ httpLen' = 0 /\ httpOffset' = 0
  BY DEF RunBody, SendNextPart
<1>2. /\ httpFile \in HttpFiles /\ httpFile \in Nat /\ httpLen = httpFile
      /\ httpOffset \in Nat /\ httpOffset < httpLen
      /\ HttpBuf \in Nat /\ HttpBuf > 0
  BY <1>1, <1>t, HttpAssumption DEF HttpTypeOK, RecordKept
<1>3. /\ left \in Nat /\ left > 0 /\ size \in Nat /\ size <= left
      /\ left > HttpBuf => size = HttpBuf
      /\ left <= HttpBuf => size = left
      /\ httpOffset + size <= httpFile
  <2>1. left \in Nat /\ left > 0
    BY <1>2
  <2> HIDE DEF left
  <2>2. /\ size \in Nat /\ size <= left
        /\ HttpBuf <= left => size = HttpBuf
        /\ left <= HttpBuf => size = left
    BY <1>2, <2>1, LeastIsLess
  <2> HIDE DEF size
  <2> QED BY <1>2, <2>1, <2>2 DEF left
<1> HIDE DEF size
<1>4. /\ httpSent' \in Seq(Pieces) /\ httpLost' \subseteq Nat
      /\ httpFaulted' \in BOOLEAN
      /\ Covers(httpSent, httpLost, httpFile, httpOffset) =>
           Covers(httpSent', httpLost', httpFile, httpOffset + size)
  BY <1>1, <1>2, <1>3, <1>t, SendCovers
<1>5. httpFresh =>
        httpFile = httpAsked
        /\ Covers(httpSent', httpLost', httpFile, httpOffset + size)
  BY <1>1, <1>4, <1>t DEF SentSoFar
<1>6. CASE left > HttpBuf
  <2>1. /\ httpOffset' = httpOffset + size /\ UNCHANGED <<httpFile, httpLen>>
        /\ httpOffset' \in Nat /\ httpOffset' < httpLen
    BY <1>1, <1>2, <1>3, <1>6
  <2>2. httpStatus' = "RES_INPROC"
    BY <1>1, <1>2, <2>1
  <2>3. HttpTypeOK'
    BY <1>1, <1>4, <1>t, <2>1, <2>2 DEF HttpTypeOK
  <2>4. RecordKept'
    BY <1>2, <2>1, <2>2 DEF RecordKept
  <2>5. RequestIsOwn' /\ SentSoFar'
    BY <1>1, <1>2, <1>5, <1>t, <2>1, <2>2 DEF RequestIsOwn, SentSoFar
  <2> QED BY <2>3, <2>4, <2>5 DEF HttpInv
<1>7. CASE ~(left > HttpBuf)
  <2>1. /\ httpFile' = 0 /\ httpLen' = 0 /\ httpOffset' = 0
        /\ httpOffset + size = httpFile
    BY <1>1, <1>2, <1>3, <1>7
  <2>2. httpStatus' = "RES_DONE"
    BY <1>1, <2>1
  <2>3. HttpTypeOK'
    BY <1>1, <1>4, <1>t, <2>1, <2>2 DEF HttpTypeOK
  <2>4. RecordKept'
    BY <2>2 DEF RecordKept
  <2>5. RequestIsOwn' /\ SentSoFar'
    BY <1>1, <1>2, <1>5, <1>t, <2>1, <2>2 DEF RequestIsOwn, SentSoFar
  <2> QED BY <2>3, <2>4, <2>5 DEF HttpInv
<1> QED BY <1>6, <1>7

LEMMA HttpInvStep == HttpInv /\ [HttpNext]_httpVars => HttpInv'
<1> SUFFICES ASSUME HttpInv, [HttpNext]_httpVars PROVE HttpInv'
  OBVIOUS
<1>0. /\ NoRequest \notin HttpFiles /\ <<>> \in Seq(Pieces)
  BY HttpAssumption DEF NoRequest
<1>1. CASE RunRequest
  <2>1. /\ HasRequest /\ SendFirstPart(httpRx) /\ AnswerBegun
        /\ httpRx' = NoRequest /\ httpFresh' = httpFresh
    BY <1>1 DEF RunRequest
  <2>2. httpRx \in HttpFiles /\ httpRx = httpAsked /\ httpFresh' \in BOOLEAN
    BY <2>1 DEF HttpInv, HttpTypeOK, RequestIsOwn, HasRequest
  <2> QED BY <2>1, <2>2, AnswerKeepsInv
<1>2. CASE RunUnread
  <2>1. PICK n \in HttpFiles : SendFirstPart(n)
    BY <1>2 DEF RunUnread
  <2>2. /\ HasRequest /\ AnswerBegun /\ httpRx' \in {httpRx, NoRequest}
        /\ httpFresh' = FALSE
    BY <1>2 DEF RunUnread
  <2> QED BY <2>1, <2>2, AnswerKeepsInv
<1>3. CASE RunBody
  BY <1>3, BodyKeepsInv
<1> USE DEF HttpInv, HttpTypeOK, RecordKept, RequestIsOwn, SentSoFar, HttpStates,
            httpSock, httpOut, httpClient, MayFault
<1>4. CASE RunDone
  BY <1>4 DEF RunDone
<1>5. CASE RunCloseWait
  BY <1>5 DEF RunCloseWait
<1>6. CASE RunClosed
  BY <1>6 DEF RunClosed
<1>7. CASE RunInitialised
  BY <1>7 DEF RunInitialised
<1>8. CASE ClientConnects
  BY <1>0, <1>8 DEF ClientConnects
<1>9. CASE ClientAsks
  BY <1>0, <1>9 DEF ClientAsks
<1>10. CASE ClientCloses
  BY <1>10 DEF ClientCloses
<1>11. CASE ConnectionEnds
  BY <1>0, <1>11 DEF ConnectionEnds
<1>12. CASE UNCHANGED httpVars
  BY <1>12 DEF httpVars
<1> QED
  BY <1>1, <1>2, <1>3, <1>4, <1>5, <1>6, <1>7, <1>8, <1>9, <1>10, <1>11, <1>12
     DEF HttpNext, HttpRun

(* What HttpInv says was sent or lost is what the property asks for.       *)
LEMMA SentIsExact == HttpInv => HttpResponseExact
<1> SUFFICES ASSUME HttpInv, httpFresh, httpSr = "ESTABLISHED"
             PROVE  Covers(httpSent, httpLost, httpAsked, GivenToSend)
  BY DEF HttpResponseExact, Covers
<1>1. httpStatus \in {"IDLE", "RES_INPROC", "RES_DONE"} /\ SentSoFar
  BY DEF HttpInv, HttpTypeOK
<1>2. CASE httpStatus = "IDLE"
  BY <1>1, <1>2 DEF SentSoFar, GivenToSend, Covers
<1>3. CASE httpStatus = "RES_INPROC"
  BY <1>1, <1>3 DEF SentSoFar, GivenToSend
<1>4. CASE httpStatus = "RES_DONE"
  BY <1>1, <1>4 DEF SentSoFar, GivenToSend
<1> QED BY <1>1, <1>2, <1>3, <1>4

(* What a client that finds the server idle, and whose request is read, is *)
(* sent is of the file it asked for, each piece once and in its order; and *)
(* all of the file was given to send() when the response is done, so that  *)
(* what is missing is exactly what send(), whose result the server does    *)
(* not look at, did not put out: for files, a buffer and a TX memory of    *)
(* any size and any number of clients that leave in the middle             *)
(* (send_http_response_body, httpServer_run).                              *)
THEOREM ResponsesAreExact == HttpSpec => []HttpResponseExact
<1>1. HttpInv => HttpResponseExact
  BY SentIsExact
<1> QED BY <1>1, HttpInvInit, HttpInvStep, PTL DEF HttpSpec
-----------------------------------------------------------------------------
(***************************************************************************)
(* SnmpAgent.  The error variables speak of the bindings parsed so far:    *)
(* without an error none of them failed, with one they name the last that  *)
(* did.  The response takes them when every binding has been parsed.       *)
(***************************************************************************)
IsSequence(s) == s \in Seq({s[i] : i \in DOMAIN s})

Named(r, n, e) ==
  IF e = NoError THEN \A i \in 1 .. n : Failure(r, i) = "NONE"
  ELSE e[2] \in 1 .. n /\ e[1] # "NONE" /\ e[1] = Failure(r, e[2])

InRequest ==
  snmpRequest # NoPdu =>
    /\ snmpRequest \in SnmpRequests
    /\ IsSequence(snmpDone) /\ Len(snmpDone) <= Len(snmpRequest.binds)
    /\ Named(snmpRequest, Len(snmpDone), snmpError)

InResponse ==
  Answered =>
    /\ snmpResponse.request \in SnmpRequests
    /\ Named(snmpResponse.request, Len(snmpResponse.request.binds),
             snmpResponse.error)

SnmpInv == InRequest /\ InResponse /\ (snmpRequest # NoPdu => ~Answered)

LEMMA IsSequenceOf ==
  ASSUME NEW S, NEW s \in Seq(S)
  PROVE  IsSequence(s)
<1>1. s \in [1 .. Len(s) -> {s[i] : i \in DOMAIN s}] /\ Len(s) \in Nat
  OBVIOUS
<1> QED BY <1>1 DEF IsSequence

LEMMA OneMore ==
  ASSUME NEW s, NEW x, IsSequence(s)
  PROVE  /\ IsSequence(Append(s, x)) /\ Len(s) \in Nat
         /\ Len(Append(s, x)) = Len(s) + 1
<1> DEFINE S == {s[i] : i \in DOMAIN s}
           T == S \cup {x}
<1>1. s \in Seq(S) /\ S \subseteq T
  BY DEF IsSequence
<1> HIDE DEF S
<1>2. s \in Seq(T) /\ x \in T
  BY <1>1
<1> HIDE DEF T
<1>3. Append(s, x) \in Seq(T) /\ Len(Append(s, x)) = Len(s) + 1 /\ Len(s) \in Nat
  BY <1>2
<1> QED BY <1>3, IsSequenceOf

LEMMA OneMoreIs ==
  ASSUME NEW s, NEW x, IsSequence(s)
  PROVE  /\ Len(Append(s, x)) = Len(s) + 1 /\ Append(s, x)[Len(s) + 1] = x
         /\ \A i \in 1 .. Len(s) : Append(s, x)[i] = s[i]
<1> DEFINE S == {s[i] : i \in DOMAIN s}
           T == S \cup {x}
<1>1. s \in Seq(S) /\ S \subseteq T
  BY DEF IsSequence
<1> HIDE DEF S
<1>2. s \in Seq(T) /\ x \in T
  BY <1>1
<1> HIDE DEF T
<1> QED BY <1>2, AppendProperties

LEMMA RequestShape ==
  ASSUME NEW r \in SnmpRequests
  PROVE  /\ r # NoPdu /\ r.type \in {"GET", "GETNEXT", "SET"}
         /\ Len(r.binds) \in 1 .. SnmpBindings /\ Len(r.binds) \in Nat
         /\ DOMAIN r.binds = 1 .. Len(r.binds)
         /\ \A i \in 1 .. Len(r.binds) : r.binds[i].id \in 0 .. Len(SnmpTypes)
<1>0. SnmpTypes \in Seq(DataTypes) /\ Len(SnmpTypes) \in Nat
      /\ SnmpIds \cup {NotFound} = 0 .. Len(SnmpTypes)
  <2>1. SnmpTypes \in Seq(DataTypes)
    BY SnmpAssumption
  <2> QED BY <2>1 DEF SnmpIds, NotFound
<1>1. /\ r.type \in {"GET", "GETNEXT", "SET"}
      /\ \E values : r.binds \in BindLists(values)
  BY DEF SnmpRequests
<1>2. PICK values : r.binds \in BindLists(values)
  BY <1>1
<1>3. PICK n \in 1 .. SnmpBindings :
        r.binds \in [1 .. n -> [id : SnmpIds \cup {NotFound}, value : values]]
  BY <1>2 DEF BindLists
<1>4. n \in Nat
  BY SnmpAssumption
<1>5. DOMAIN r.binds = 1 .. n /\ Len(r.binds) = n
  BY <1>3, <1>4
<1>6. r # NoPdu
  BY <1>1 DEF NoPdu
<1>7. \A i \in 1 .. n : r.binds[i].id \in SnmpIds \cup {NotFound}
  BY <1>3
<1> QED BY <1>0, <1>1, <1>4, <1>5, <1>6, <1>7

(* One more binding, and what it adds to the errors.                       *)
LEMMA NamedGrows ==
  ASSUME NEW r, NEW n \in Nat, NEW e, NEW f, Named(r, n, e),
         \/ f = e /\ Failure(r, n + 1) = "NONE"
         \/ \E status : /\ f = <<status, n + 1>> /\ status # "NONE"
                        /\ status = Failure(r, n + 1)
  PROVE  Named(r, n + 1, f)
<1>1. CASE f = e /\ Failure(r, n + 1) = "NONE"
  <2>1. \A i \in 1 .. n + 1 : i \in 1 .. n \/ i = n + 1
    OBVIOUS
  <2>2. \A i \in 1 .. n : i \in 1 .. n + 1
    OBVIOUS
  <2>3. CASE e = NoError
    BY <1>1, <2>1, <2>3 DEF Named
  <2>4. CASE e # NoError
    BY <1>1, <2>2, <2>4 DEF Named
  <2> QED BY <2>3, <2>4
<1>2. ASSUME NEW status, f = <<status, n + 1>>, status # "NONE",
             status = Failure(r, n + 1)
      PROVE  Named(r, n + 1, f)
  <2>1. f # NoError /\ f[1] = status /\ f[2] = n + 1
    BY <1>2 DEF NoError
  <2>2. n + 1 \in 1 .. n + 1
    OBVIOUS
  <2> QED BY <1>2, <2>1, <2>2 DEF Named
<1> QED BY <1>1, <1>2

(* A binding that no text too long for its entry ends.                     *)
Settled ==
  \/ Found = NotFound \/ snmpRequest.type # "SET"
  \/ SnmpTypes[Found] # Bind.value.type \/ TextFits

LEMMA SpillsElse ==
  ASSUME VarBind, ~Settled
  PROVE  /\ UNCHANGED <<snmpOpen, snmpTick, snmpData, snmpRequest, snmpDone,
                        snmpError, snmpResponse, snmpTold, snmpMixed>>
         /\ snmpSpilled' = TRUE
BY DEF VarBind, Settled, BindSpills

(* parseVarBind fails exactly where the table says so.                     *)
LEMMA BindingKeepsInv ==
  ASSUME SnmpInv, VarBind, Settled
  PROVE  SnmpInv'
<1> DEFINE r == snmpRequest
           n == Len(snmpDone)
<1>1. /\ r # NoPdu /\ n + 1 <= Len(r.binds)
      /\ r' = r /\ snmpResponse' = snmpResponse
      /\ IF Found = NotFound THEN BindFails("NO_SUCH_NAME")
         ELSE IF r.type # "SET" THEN BindRead
         ELSE IF SnmpTypes[Found] # Bind.value.type THEN BindFails("BAD_VALUE")
         ELSE BindWritten
  BY DEF VarBind, InBinding, Place, Settled
<1>2. /\ r \in SnmpRequests /\ IsSequence(snmpDone) /\ Named(r, n, snmpError)
      /\ n \in Nat /\ ~Answered
  BY <1>1, OneMore DEF SnmpInv, InRequest
<1>3. /\ r.type \in {"GET", "GETNEXT", "SET"} /\ Len(r.binds) \in Nat
      /\ Len(SnmpTypes) \in Nat /\ Bind = r.binds[n + 1]
      /\ Bind.id \in 0 .. Len(SnmpTypes)
  <2>1. n + 1 \in 1 .. Len(r.binds)
    BY <1>1, <1>2, RequestShape
  <2>2. SnmpTypes \in Seq(DataTypes)
    BY SnmpAssumption
  <2> QED BY <1>2, <2>1, <2>2, RequestShape DEF Bind, Place
<1>4. \E x : snmpDone' = Append(snmpDone, x)
  BY <1>1 DEF BindFails, BindRead, BindWritten, Bound
<1>5. IsSequence(snmpDone') /\ Len(snmpDone') = n + 1
  BY <1>2, <1>4, OneMore
<1>6. \/ snmpError' = snmpError /\ Failure(r, n + 1) = "NONE"
      \/ \E status : /\ snmpError' = <<status, n + 1>> /\ status # "NONE"
                     /\ status = Failure(r, n + 1)
  <2>1. CASE Found = NotFound
    <3>1. snmpError' = <<"NO_SUCH_NAME", n + 1>>
      BY <1>1, <2>1 DEF BindFails, Place
    <3>2. Failure(r, n + 1) = "NO_SUCH_NAME"
      BY <1>3, <2>1 DEF Failure, Found, NotFound
    <3> QED BY <3>1, <3>2
  <2>2. CASE Found # NotFound /\ r.type # "SET"
    <3>1. snmpError' = snmpError
      BY <1>1, <2>2 DEF BindRead
    <3>2. Failure(r, n + 1) = "NONE"
      BY <1>3, <2>2 DEF Failure, Found, NotFound
    <3> QED BY <3>1, <3>2
  <2>3. CASE Found # NotFound /\ r.type = "SET"
    <3>0. Found = Bind.id
      BY <2>3 DEF Found
    <3>1. CASE SnmpTypes[Found] # Bind.value.type
      <4>1. snmpError' = <<"BAD_VALUE", n + 1>>
        BY <1>1, <2>3, <3>1 DEF BindFails, Place
      <4>2. Failure(r, n + 1) = "BAD_VALUE"
        BY <1>3, <2>3, <3>0, <3>1 DEF Failure
      <4> QED BY <4>1, <4>2
    <3>2. CASE SnmpTypes[Found] = Bind.value.type
      <4>1. snmpError' = snmpError
        BY <1>1, <2>3, <3>2 DEF BindWritten
      <4>2. Failure(r, n + 1) = "NONE"
        BY <1>3, <2>3, <3>0, <3>2 DEF Failure
      <4> QED BY <4>1, <4>2
    <3> QED BY <3>1, <3>2
  <2> QED BY <2>1, <2>2, <2>3
<1>7. Named(r, n + 1, snmpError')
  BY <1>2, <1>6, NamedGrows
<1>8. InRequest'
  BY <1>1, <1>2, <1>5, <1>7 DEF InRequest
<1> QED BY <1>1, <1>2, <1>8 DEF SnmpInv, InResponse, Answered

LEMMA SnmpInvStep == SnmpInv /\ [SnmpNext]_snmpVars => SnmpInv'
<1> SUFFICES ASSUME SnmpInv, [SnmpNext]_snmpVars PROVE SnmpInv'
  OBVIOUS
<1> USE DEF SnmpInv, InRequest, InResponse, Answered
<1>1. CASE SnmpTick \/ SnmpRunClosed
  BY <1>1 DEF SnmpTick, SnmpRunClosed, snmpWork
<1>2. CASE VarBind
  <2>1. CASE Settled
    BY <1>2, <2>1, BindingKeepsInv
  <2>2. CASE ~Settled
    BY <1>2, <2>2, SpillsElse
  <2> QED BY <2>1, <2>2
<1>3. CASE SnmpRespond
  <2>1. /\ snmpRequest # NoPdu /\ snmpRequest' = NoPdu
        /\ ~(Len(snmpDone) + 1 <= Len(snmpRequest.binds))
        /\ snmpResponse'.request = snmpRequest /\ snmpResponse'.error = snmpError
    BY <1>3 DEF SnmpRespond, InBinding, Place
  <2>2. /\ snmpRequest \in SnmpRequests /\ IsSequence(snmpDone)
        /\ Len(snmpDone) <= Len(snmpRequest.binds)
        /\ Named(snmpRequest, Len(snmpDone), snmpError)
    BY <2>1
  <2>3. Len(snmpDone) \in Nat /\ Len(snmpRequest.binds) \in Nat
    BY <2>2, OneMore, RequestShape
  <2>4. Len(snmpDone) = Len(snmpRequest.binds)
    BY <2>1, <2>2, <2>3
  <2> QED BY <2>1, <2>2, <2>4
<1>4. CASE SnmpSent
  BY <1>4 DEF SnmpSent, snmpWork, NoPdu
<1>5. CASE \E r \in SnmpRequests : SnmpRunRequest(r)
  <2>1. PICK r \in SnmpRequests : SnmpRunRequest(r)
    BY <1>5
  <2>2. /\ snmpRequest' = r /\ snmpDone' = <<>> /\ snmpError' = NoError
        /\ snmpResponse = NoPdu /\ snmpResponse' = NoPdu
    BY <2>1 DEF SnmpRunRequest, AtRest
  <2>3. IsSequence(<<>>) /\ Len(<<>>) = 0
    BY DEF IsSequence
  <2>4. Len(r.binds) \in Nat
    BY RequestShape
  <2>5. Named(r, 0, NoError)
    BY DEF Named
  <2> QED BY <2>2, <2>3, <2>4, <2>5 DEF NoPdu
<1>6. CASE \E answered \in BOOLEAN : SnmpRunRefused(answered)
  <2>1. /\ snmpRequest' = NoPdu
        /\ snmpResponse'.type \in {"CUT", "NONE"}
    BY <1>6 DEF SnmpRunRefused, AtRest, NoPdu
  <2> QED BY <2>1
<1>7. CASE UNCHANGED snmpVars
  BY <1>7 DEF snmpVars, snmpWork
<1> QED BY <1>1, <1>2, <1>3, <1>4, <1>5, <1>6, <1>7 DEF SnmpNext

(* What SnmpInv says of a response is that its error is named.             *)
LEMMA ResponseIsNamed == SnmpInv => SnmpErrorNamed
<1> SUFFICES ASSUME SnmpInv, Answered PROVE SnmpErrorNamed
  BY DEF SnmpErrorNamed
<1> DEFINE r == snmpResponse.request
           e == snmpResponse.error
<1>1. r \in SnmpRequests /\ Named(r, Len(r.binds), e)
  BY DEF SnmpInv, InResponse
<1>2. DOMAIN r.binds = 1 .. Len(r.binds)
  BY <1>1, RequestShape
<1> QED BY <1>1, <1>2 DEF SnmpErrorNamed, Named

(* A response without error is to a request of which every binding         *)
(* succeeded, and one with an error names a binding that failed and how:   *)
(* for any table, any requests and any number of bindings (errorStatus and *)
(* errorIndex, globals that parseVarBind and setEntry write and snmpd_run  *)
(* resets).                                                                *)
THEOREM ErrorsAreNamed == SnmpSpec => []SnmpErrorNamed
<1>1. SnmpInit => SnmpInv
  BY DEF SnmpInit, SnmpInv, InRequest, InResponse, Answered, NoPdu
<1>2. SnmpInv => SnmpErrorNamed
  BY ResponseIsNamed
<1> QED BY <1>1, <1>2, SnmpInvStep, PTL DEF SnmpSpec
-----------------------------------------------------------------------------
(***************************************************************************)
(* SnmpAgent, the table and the lengths.  A text has nothing but zeros     *)
(* behind it; a string, an identifier and an integer are what the entry    *)
(* was last given, a string into which a shorter one was written begins    *)
(* with it (EntriesKept): a text that does not fit is not written, as what *)
(* the agent does after such a copy is not described (BindSpills).  A      *)
(* binding is as long as it says (Measured) and answers with what was      *)
(* there (IsAnswer), as no SET comes between a GET's bindings; a response  *)
(* has the lengths its bindings add up to (LengthsKept).                   *)
(***************************************************************************)
Texts   == [1 .. SnmpString -> Octets]
Quads   == [1 .. IntOctets -> Octets]
Entries == [text : Texts, int : Quads, len : 0 .. SnmpString]

EndsAt(text, m) == \A k \in 1 .. SnmpString : text[k] = 0 <=> k > m
BeginsWith(text, told) == \A k \in 1 .. Len(told) : text[k] = told[k]

(* A string, given the value last told and whether a shorter one is in it. *)
TextKept(text, told, mixed) ==
  \E m \in 0 .. SnmpString :
    /\ EndsAt(text, m) /\ BeginsWith(text, told) /\ Len(told) <= m
    /\ mixed \/ m = Len(told)

Kept(type, e, told, mixed) ==
  /\ type = "STRING" => TextKept(e.text, told, mixed)
  /\ type = "OID" => e.len = Len(told) /\ BeginsWith(e.text, told)
  /\ type = "INTEGER" =>
       e.int = IntOf(told) /\ e.len = Len(told) /\ Len(told) \in 1 .. IntOctets

EntriesKept ==
  /\ snmpData \in [SnmpIds -> Entries] /\ snmpTold \in [SnmpIds -> Strings]
  /\ snmpMixed \subseteq SnmpIds
  /\ \A id \in SnmpIds :
       Kept(SnmpTypes[id], snmpData[id], snmpTold[id], id \in snmpMixed)

Measured(r, i, b) ==
  /\ b.size = BindHeader(r, i) + BindLen(b)
  /\ b.field = LenField(BindHeader(r, i), BindLen(b))

Tells(id, octets) ==
  IF id \in snmpMixed THEN IsPrefix(snmpTold[id], octets)
  ELSE octets = snmpTold[id]

IsAnswer(r, i, b) ==
  \/ r.type = "SET" \/ Failure(r, i) # "NONE" \/ SnmpTypes[b.id] = "TICKS"
  \/ b.value.type = SnmpTypes[b.id] /\ Tells(b.id, b.value.octets)

BindingsKept ==
  /\ snmpRequest = NoPdu => snmpDone = <<>>
  /\ \A i \in 1 .. Len(snmpDone) :
       Measured(snmpRequest, i, snmpDone[i]) /\ IsAnswer(snmpRequest, i, snmpDone[i])

LengthsKept ==
  Answered =>
    LET r    == snmpResponse.request
        list == Total([i \in DOMAIN snmpResponse.binds |-> snmpResponse.binds[i].size])
        pdu  == PduHeader(r) + IdsLen + list
        msg  == MessageHeader(r) + VersionLen + pdu
    IN  /\ \A i \in DOMAIN snmpResponse.binds : Measured(r, i, snmpResponse.binds[i])
        /\ snmpResponse.list = LenField(ListHeader(r), list)
        /\ snmpResponse.pdu = LenField(PduHeader(r), pdu)
        /\ snmpResponse.message = LenField(MessageHeader(r), msg)

ErrorsTyped == snmpError \in {"NONE", "NO_SUCH_NAME", "BAD_VALUE"} \X (0 .. SnmpBindings)
Counted     == /\ snmpOpen \in BOOLEAN /\ snmpTick \in 0 .. SnmpTicks
               /\ snmpSpilled \in BOOLEAN

ValueInv ==
  /\ SnmpInv /\ Counted /\ ErrorsTyped
  /\ EntriesKept /\ BindingsKept /\ LengthsKept

(* A text that fits: its length, its octets, and its place in the longer     *)
(* text of an entry.                                                       *)
LEMMA StringShape ==
  ASSUME NEW s \in Strings
  PROVE  /\ Len(s) \in 0 .. SnmpString /\ DOMAIN s = 1 .. Len(s)
         /\ s \in [1 .. Len(s) -> Octets]
         /\ \A k \in 1 .. Len(s) : k \in 1 .. SnmpString /\ s[k] \in Octets
<1>1. SnmpString \in Nat \ {0}
  BY SnmpAssumption
<1>2. PICK n \in 0 .. SnmpString : s \in [1 .. n -> Octets]
  BY DEF Strings
<1>3. n \in Nat /\ Len(s) = n /\ DOMAIN s = 1 .. n
  BY <1>1, <1>2
<1> QED BY <1>1, <1>2, <1>3

LEMMA FitsIsString ==
  ASSUME NEW s \in Seq(Octets), Len(s) <= SnmpString
  PROVE  s \in Strings
<1>1. SnmpString \in Nat /\ Len(s) \in 0 .. SnmpString
  BY SnmpAssumption
<1>2. s \in [1 .. Len(s) -> Octets]
  OBVIOUS
<1> QED BY <1>1, <1>2 DEF Strings

LEMMA ZeroIsOctet ==
  /\ 0 \in Octets /\ SnmpOctet \in Nat \ {0} /\ SnmpString \in Nat
  /\ SnmpString > IntOctets
BY SnmpAssumption DEF Octets

(* An int32_t gives back the octets that were shifted into it.             *)
LEMMA IntIsQuad ==
  ASSUME NEW s \in Strings
  PROVE  IntOf(s) \in Quads
<1> SUFFICES ASSUME NEW k \in 1 .. IntOctets, k + Len(s) > IntOctets
             PROVE  s[k + Len(s) - IntOctets] \in Octets
  BY ZeroIsOctet DEF IntOf, Quads
<1>1. k + Len(s) - IntOctets \in 1 .. Len(s)
  BY StringShape, ZeroIsOctet DEF IntOctets
<1> QED BY <1>1, StringShape

LEMMA NoOctetsIsQuad == IntOf(<<>>) \in Quads
<1>1. <<>> \in Strings
  <2>1. <<>> \in [1 .. 0 -> Octets] /\ 0 \in 0 .. SnmpString
    BY ZeroIsOctet DEF IntOctets
  <2> QED BY <2>1 DEF Strings
<1> QED BY <1>1, IntIsQuad

LEMMA IntGivesBack ==
  ASSUME NEW s \in Strings, Len(s) \in 1 .. IntOctets
  PROVE  OctetsOf(IntOf(s), Len(s)) = s
<1> DEFINE n == Len(s)
           o == OctetsOf(IntOf(s), n)
<1>1. s \in [1 .. n -> Octets] /\ o \in [1 .. n -> {IntOf(s)[i] : i \in Int}]
  BY StringShape DEF OctetsOf, IntOctets
<1>2. ASSUME NEW k \in 1 .. n PROVE o[k] = s[k]
  <2>1. IntOctets - n + k \in 1 .. IntOctets
    <3>1. n \in 1 .. 4
      BY DEF IntOctets
    <3> HIDE DEF n
    <3> QED BY <3>1 DEF IntOctets
  <2>2. o[k] = IntOf(s)[IntOctets - n + k]
    BY DEF OctetsOf
  <2>3. /\ (IntOctets - n + k) + n > IntOctets
        /\ (IntOctets - n + k) + n - IntOctets = k
    <3> HIDE DEF n
    <3>1. n \in Int /\ k \in Int /\ k >= 1
      BY DEF n, IntOctets
    <3> QED BY <3>1 DEF IntOctets
  <2>4. IntOf(s)[IntOctets - n + k] = s[(IntOctets - n + k) + n - IntOctets]
    BY <2>1, <2>3 DEF IntOf
  <2> QED BY <2>2, <2>3, <2>4
<1> HIDE DEF o
<1>3. DOMAIN o = DOMAIN s /\ \A k \in DOMAIN s : o[k] = s[k]
  BY <1>1, <1>2
<1>4. s = [k \in DOMAIN s |-> s[k]] /\ o = [k \in DOMAIN o |-> o[k]]
  BY <1>1
<1> QED BY <1>3, <1>4 DEF o

LEMMA TicksAreQuad ==
  ASSUME NEW n \in Nat
  PROVE  Ticks(n) \in Quads
<1> DEFINE q == SnmpOctet
<1>1. q \in Nat \ {0}
  BY ZeroIsOctet
<1>2. \A m \in Nat : m % q \in Octets
  BY <1>1 DEF Octets
<1>3. q * q \in Nat \ {0} /\ q * q * q \in Nat \ {0}
  <2>1. \A a, b \in Nat \ {0} : a * b \in Nat \ {0}
    OBVIOUS
  <2> HIDE DEF q
  <2> QED BY <1>1, <2>1
<1>4. \A d \in Nat \ {0} : n \div d \in Nat
  OBVIOUS
<1> HIDE DEF q
<1>5. /\ (n \div (q * q * q)) % q \in Octets /\ (n \div (q * q)) % q \in Octets
      /\ (n \div q) % q \in Octets /\ n % q \in Octets
  BY <1>1, <1>2, <1>3, <1>4
<1>6. Ticks(n) = <<(n \div (q * q * q)) % q, (n \div (q * q)) % q, (n \div q) % q, n % q>>
  BY DEF Ticks, q
<1>7. \A a, b, c, d \in Octets : <<a, b, c, d>> \in [1 .. 4 -> Octets]
  OBVIOUS
<1> QED BY <1>5, <1>6, <1>7 DEF Quads, IntOctets

(* strlen finds where a text ends.                                         *)
LEMMA StrlenIsEnd ==
  ASSUME NEW text, NEW m \in 0 .. SnmpString, EndsAt(text, m)
  PROVE  Strlen(text) = m
<1>0. SnmpString \in Nat
  BY ZeroIsOctet
<1>1. /\ m < SnmpString => m + 1 \in 1 .. SnmpString /\ text[m + 1] = 0
      /\ \A k \in 1 .. m : k \in 1 .. SnmpString /\ text[k] # 0
  BY <1>0 DEF EndsAt
<1>2. ASSUME NEW n \in 0 .. SnmpString, n < SnmpString => text[n + 1] = 0,
             \A k \in 1 .. n : text[k] # 0
      PROVE  n = m
  <2>1. ~(n < m)
    BY <1>0, <1>1, <1>2
  <2>2. ~(m < n)
    BY <1>0, <1>1, <1>2
  <2> QED BY <1>0, <2>1, <2>2
<1> QED BY <1>1, <1>2 DEF Strlen

LEMMA FrontIs ==
  ASSUME NEW text \in Texts, NEW told \in Strings, BeginsWith(text, told)
  PROVE  SubSeq(text, 1, Len(told)) = told
<1> DEFINE n == Len(told)
<1>1. /\ n \in Nat /\ n <= SnmpString /\ SnmpString \in Nat /\ told \in [1 .. n -> Octets]
      /\ text \in [1 .. SnmpString -> Octets]
  BY StringShape, ZeroIsOctet DEF Texts
<1>2. \A k \in 1 .. n : text[k] = told[k]
  BY DEF BeginsWith
<1>3. text \in Seq(Octets) /\ Len(text) = SnmpString /\ told \in Seq(Octets)
  BY <1>1
<1> HIDE DEF n
<1>4. SubSeq(text, 1, n) \in [1 .. n -> Octets]
      /\ \A k \in 1 .. n : SubSeq(text, 1, n)[k] = text[k]
  <2>1. \A k \in 1 .. n : text[k] \in Octets
    BY <1>1
  <2> DEFINE u == SubSeq(text, 1, n)
  <2>2. /\ u \in Seq(Octets) /\ Len(u) = IF 1 <= n THEN n - 1 + 1 ELSE 0
        /\ \A k \in 1 .. n - 1 + 1 : u[k] = text[1 + k - 1]
    BY <1>1, <2>1, SubSeqProperties
  <2> HIDE DEF u
  <2>3. Len(u) = n /\ \A k \in 1 .. n : u[k] = text[k]
    BY <1>1, <2>2
  <2>4. u \in [1 .. n -> Octets]
    BY <2>2, <2>3
  <2> QED BY <2>3, <2>4 DEF u
<1> QED BY <1>1, <1>2, <1>4 DEF n

(* A longer part of it begins with what the text begins with.              *)
LEMMA FrontBegins ==
  ASSUME NEW text \in Texts, NEW told \in Strings, BeginsWith(text, told),
         NEW m \in 0 .. SnmpString, Len(told) <= m
  PROVE  IsPrefix(told, SubSeq(text, 1, m))
<1> DEFINE n == Len(told)
           u == SubSeq(text, 1, m)
<1>1. /\ n \in Nat /\ m \in Nat /\ n <= m /\ SnmpString \in Nat
      /\ text \in [1 .. SnmpString -> Octets]
  BY StringShape, ZeroIsOctet DEF Texts
<1>2. \A k \in 1 .. m : text[k] \in Octets
  BY <1>1
<1>3. /\ u \in Seq(Octets) /\ Len(u) = m
      /\ \A k \in 1 .. m : u[k] = text[k]
  <2>1. /\ u \in Seq(Octets) /\ Len(u) = IF 1 <= m THEN m - 1 + 1 ELSE 0
        /\ \A k \in 1 .. m - 1 + 1 : u[k] = text[1 + k - 1]
    BY <1>1, <1>2, SubSeqProperties
  <2> HIDE DEF u
  <2> QED BY <1>1, <2>1
<1> HIDE DEF u
<1>4. /\ SubSeq(u, 1, n) \in Seq(Octets)
      /\ Len(SubSeq(u, 1, n)) = IF 1 <= n THEN n - 1 + 1 ELSE 0
      /\ \A k \in 1 .. n - 1 + 1 : SubSeq(u, 1, n)[k] = u[1 + k - 1]
  <2>1. \A k \in 1 .. n : u[k] \in Octets
    BY <1>1, <1>2, <1>3
  <2> HIDE DEF n
  <2> QED BY <1>1, <2>1, SubSeqProperties
<1> DEFINE v == SubSeq(u, 1, n)
<1>5. /\ Len(v) = n /\ v \in [1 .. n -> Octets]
      /\ \A k \in 1 .. n : v[k] = told[k]
  <2> HIDE DEF v
  <2>1. v \in Seq(Octets) /\ Len(v) = n
    BY <1>1, <1>4 DEF v
  <2>2. \A k \in 1 .. n : v[k] = u[k] /\ u[k] = text[k] /\ text[k] = told[k]
    BY <1>1, <1>3, <1>4 DEF v, BeginsWith
  <2> QED BY <2>1, <2>2
<1>6. told \in [1 .. n -> Octets]
  BY StringShape
<1> HIDE DEF v
<1>7. v = told
  BY <1>5, <1>6
<1> QED BY <1>1, <1>3, <1>7 DEF IsPrefix, v

(* An entry after setEntry: of a longer text the shorter one is a part.    *)
LEMMA EntryKeeps ==
  ASSUME NEW id \in SnmpIds, NEW was \in Texts, NEW m \in 0 .. SnmpString,
         SnmpTypes[id] = "STRING" => EndsAt(was, m),
         NEW octets \in Strings, WellFormed(SnmpTypes[id], octets), NEW mixed,
         mixed \/ ~(SnmpTypes[id] = "STRING" /\ Len(octets) < m)
  PROVE  /\ Entry(id, was, octets) \in Entries
         /\ Kept(SnmpTypes[id], Entry(id, was, octets), octets, mixed)
<1> DEFINE n == Len(octets)
           new == Overwritten(was, octets)
           e == Entry(id, was, octets)
<1>1. /\ n \in 0 .. SnmpString /\ SnmpString \in Nat
      /\ \A k \in 1 .. n : k \in 1 .. SnmpString /\ octets[k] \in Octets
      /\ DOMAIN octets = 1 .. n
  BY StringShape, ZeroIsOctet
<1>2. /\ new = [k \in 1 .. SnmpString |-> IF k <= n THEN octets[k] ELSE was[k]]
      /\ new \in Texts
  <2>1. DOMAIN was = 1 .. SnmpString /\ \A k \in 1 .. SnmpString : was[k] \in Octets
    BY DEF Texts
  <2>2. \A k \in 1 .. SnmpString : k <= n => octets[k] \in Octets
    BY <1>1
  <2> QED BY <1>1, <2>1, <2>2 DEF Overwritten, Texts
<1>3. BeginsWith(new, octets)
  BY <1>1, <1>2 DEF BeginsWith
<1>4. /\ e.text = IF IsText(id) THEN new ELSE was
      /\ e.int = IF IsText(id) THEN IntOf(<<>>) ELSE IntOf(octets)
      /\ e.len = n /\ e = [text |-> e.text, int |-> e.int, len |-> e.len]
  BY DEF Entry
<1>5. e \in Entries
  <2>1. e.text \in Texts /\ e.int \in Quads /\ e.len \in 0 .. SnmpString
    BY <1>1, <1>2, <1>4, IntIsQuad, NoOctetsIsQuad
  <2> QED BY <1>4, <2>1 DEF Entries
<1>6. ASSUME SnmpTypes[id] = "STRING" PROVE TextKept(e.text, octets, mixed)
  <2> DEFINE longer == IF n < m THEN m ELSE n
  <2>1. \A k \in 1 .. n : octets[k] # 0
    BY <1>1, <1>6 DEF WellFormed
  <2>2. \A k \in 1 .. SnmpString : was[k] = 0 <=> k > m
    BY <1>6 DEF EndsAt
  <2>3. EndsAt(new, longer)
    <3> SUFFICES ASSUME NEW k \in 1 .. SnmpString
                 PROVE  new[k] = 0 <=> k > longer
      BY DEF EndsAt
    <3>1. CASE k <= n
      <4>1. new[k] # 0 /\ ~(k > longer)
        BY <1>1, <1>2, <2>1, <3>1
      <4> QED BY <4>1
    <3>2. CASE ~(k <= n)
      <4>1. new[k] = was[k] /\ (k > longer <=> k > m)
        BY <1>1, <1>2, <3>2
      <4> QED BY <2>2, <4>1
    <3> QED BY <3>1, <3>2
  <2>4. e.text = new
    BY <1>4, <1>6 DEF IsText
  <2>5. mixed \/ longer = n
    BY <1>6
  <2>6. longer \in 0 .. SnmpString /\ n <= longer
    BY <1>1
  <2> QED BY <1>3, <2>3, <2>4, <2>5, <2>6 DEF TextKept
<1>7. ASSUME SnmpTypes[id] = "OID" PROVE e.len = n /\ BeginsWith(e.text, octets)
  BY <1>3, <1>4, <1>7 DEF IsText
<1>8. ASSUME SnmpTypes[id] = "INTEGER"
      PROVE  e.int = IntOf(octets) /\ e.len = n /\ n \in 1 .. IntOctets
  BY <1>4, <1>8 DEF IsText, WellFormed
<1> QED BY <1>5, <1>6, <1>7, <1>8 DEF Kept

LEMMA ToldTells ==
  ASSUME EntriesKept, NEW id \in SnmpIds
  PROVE  Tells(id, snmpTold[id])
<1>1. snmpTold[id] \in Strings
  BY DEF EntriesKept
<1>2. snmpTold[id] \in Seq(Octets) /\ Len(snmpTold[id]) \in Nat
  BY <1>1, StringShape, ZeroIsOctet
<1>3. SubSeq(snmpTold[id], 1, Len(snmpTold[id])) = snmpTold[id]
  BY <1>2
<1> QED BY <1>2, <1>3 DEF Tells, IsPrefix

(* getEntry changes nothing the entry was told, and answers with it.       *)
LEMMA FetchedIsTold ==
  ASSUME EntriesKept, Counted, NEW id \in SnmpIds
  PROVE  /\ Fetched(id) \in Entries
         /\ Kept(SnmpTypes[id], Fetched(id), snmpTold[id], id \in snmpMixed)
         /\ SnmpTypes[id] = "TICKS" \/ Tells(id, FetchedOctets(id))
<1> DEFINE e == snmpData[id]
           f == Fetched(id)
           told == snmpTold[id]
<1>1. /\ e \in Entries /\ told \in Strings /\ SnmpTypes[id] \in DataTypes
      /\ Kept(SnmpTypes[id], e, told, id \in snmpMixed)
      /\ SnmpString \in Nat /\ 4 \in 0 .. SnmpString /\ snmpTick \in Nat
  <2>1. SnmpTypes[id] \in DataTypes /\ SnmpTicks \in Nat
    BY SnmpAssumption DEF SnmpIds
  <2> QED BY <2>1, ZeroIsOctet DEF EntriesKept, Counted, IntOctets
<1>2. CASE SnmpTypes[id] = "STRING"
  <2>1. PICK m \in 0 .. SnmpString :
          /\ EndsAt(e.text, m) /\ BeginsWith(e.text, told) /\ Len(told) <= m
          /\ id \in snmpMixed \/ m = Len(told)
    BY <1>1, <1>2 DEF Kept, TextKept
  <2>2. f = [e EXCEPT !.len = m]
    BY <1>2, <2>1, StrlenIsEnd DEF Fetched
  <2>3. f \in Entries /\ f.text = e.text /\ f.len = m
    BY <1>1, <2>2 DEF Entries
  <2>4. Tells(id, FetchedOctets(id))
    <3>1. e.text \in Texts
      BY <1>1 DEF Entries
    <3>2. FetchedOctets(id) = SubSeq(e.text, 1, m)
      BY <1>2, <2>3 DEF FetchedOctets, IsText
    <3>3. IsPrefix(told, SubSeq(e.text, 1, m))
      BY <1>1, <2>1, <3>1, FrontBegins
    <3>4. id \notin snmpMixed => SubSeq(e.text, 1, m) = told
      BY <1>1, <2>1, <3>1, FrontIs
    <3> QED BY <3>2, <3>3, <3>4 DEF Tells
  <2> QED BY <1>1, <1>2, <2>3, <2>4 DEF Kept
<1>3. CASE SnmpTypes[id] = "OID"
  <2>1. f = e /\ e.len = Len(told) /\ BeginsWith(e.text, told)
    BY <1>1, <1>3 DEF Fetched, Kept
  <2>2. e.text \in Texts
    BY <1>1 DEF Entries
  <2>3. FetchedOctets(id) = told
    BY <1>1, <1>3, <2>1, <2>2, FrontIs DEF FetchedOctets, IsText
  <2> QED BY <1>1, <2>1, <2>3, ToldTells
<1>4. CASE SnmpTypes[id] = "INTEGER"
  <2>1. f = e /\ e.int = IntOf(told) /\ e.len = Len(told) /\ Len(told) \in 1 .. IntOctets
    BY <1>1, <1>4 DEF Fetched, Kept
  <2>2. e.len # 0
    BY <2>1
  <2>3. FetchedOctets(id) = told
    BY <1>1, <1>4, <2>1, <2>2, IntGivesBack DEF FetchedOctets, IsText
  <2> QED BY <1>1, <2>1, <2>3, ToldTells
<1>5. CASE SnmpTypes[id] = "TICKS"
  <2>1. f = [e EXCEPT !.int = Ticks(snmpTick), !.len = 4]
    BY <1>5 DEF Fetched
  <2>2. Ticks(snmpTick) \in Quads
    BY <1>1, TicksAreQuad
  <2>3. f \in Entries
    BY <1>1, <2>1, <2>2 DEF Entries
  <2> QED BY <1>5, <2>3 DEF Kept
<1> QED BY <1>1, <1>2, <1>3, <1>4, <1>5 DEF DataTypes

LEMMA ValueInvInit == SnmpInit => ValueInv
<1> SUFFICES ASSUME SnmpInit PROVE ValueInv
  OBVIOUS
<1> USE DEF SnmpInit
<1>1. SnmpInv
  BY DEF SnmpInv, InRequest, InResponse, Answered, NoPdu
<1>2. Counted /\ ErrorsTyped
  <2>1. SnmpBindings \in Nat /\ SnmpTicks \in Nat
    BY SnmpAssumption
  <2>2. <<"NONE", 0>> \in {"NONE", "NO_SUCH_NAME", "BAD_VALUE"} \X (0 .. SnmpBindings)
    BY <2>1
  <2>3. snmpOpen \in BOOLEAN /\ snmpTick \in 0 .. SnmpTicks
    <3>1. snmpTick \in 0 .. SnmpTicks
      BY <2>1
    <3> QED BY <3>1
  <2>4. snmpError \in {"NONE", "NO_SUCH_NAME", "BAD_VALUE"} \X (0 .. SnmpBindings)
    BY <2>2 DEF NoError
  <2> QED BY <2>3, <2>4 DEF Counted, ErrorsTyped
<1>3. BindingsKept /\ LengthsKept
  BY DEF BindingsKept, LengthsKept, Answered, NoPdu
<1>4. NoText \in Texts /\ EndsAt(NoText, 0) /\ 0 \in 0 .. SnmpString
  BY ZeroIsOctet DEF NoText, Texts, EndsAt, IntOctets
<1>5. ASSUME NEW id \in SnmpIds
      PROVE  /\ snmpData[id] \in Entries
             /\ Kept(SnmpTypes[id], snmpData[id], snmpTold[id], id \in snmpMixed)
  <2>1. /\ WellFormed(SnmpTypes[id], SnmpFirst[id]) /\ ~(Len(SnmpFirst[id]) < 0)
        /\ SnmpFirst[id] \in Strings
    <3>1. WellFormed(SnmpTypes[id], SnmpFirst[id]) /\ SnmpFirst[id] \in Strings
      BY SnmpAssumption
    <3> QED BY <3>1, StringShape
  <2>2. /\ Entry(id, NoText, SnmpFirst[id]) \in Entries
        /\ Kept(SnmpTypes[id], Entry(id, NoText, SnmpFirst[id]), SnmpFirst[id],
                id \in {})
    BY <1>4, <2>1, EntryKeeps
  <2> QED BY <2>2
<1>6. EntriesKept
  <2>1. /\ snmpData \in [SnmpIds -> Entries] /\ snmpTold = SnmpFirst
        /\ snmpMixed = {} /\ SnmpFirst \in [SnmpIds -> Strings]
    BY <1>5, SnmpAssumption
  <2> QED BY <1>5, <2>1 DEF EntriesKept
<1> QED BY <1>1, <1>2, <1>3, <1>6 DEF ValueInv

(* The binding under way: its place, and the entry found for it.           *)
LEMMA BindingShape ==
  ASSUME SnmpInv, InBinding
  PROVE  LET n == Len(snmpDone)
         IN  /\ snmpRequest \in SnmpRequests /\ Bind = snmpRequest.binds[n + 1]
             /\ n \in Nat /\ IsSequence(snmpDone) /\ Place = n + 1
             /\ n + 1 \in 1 .. Len(snmpRequest.binds)
             /\ Place \in 1 .. SnmpBindings
             /\ Found # NotFound => Found \in SnmpIds
             /\ snmpRequest.type # "SET" =>
                  (Found = NotFound <=> Failure(snmpRequest, n + 1) # "NONE")
<1> DEFINE r == snmpRequest
           n == Len(snmpDone)
<1>1. r # NoPdu /\ n + 1 <= Len(r.binds) /\ Place = n + 1
  BY DEF InBinding, Place
<1>2. r \in SnmpRequests /\ IsSequence(snmpDone) /\ n \in Nat
  BY <1>1, OneMore DEF SnmpInv, InRequest
<1>3. /\ r.type \in {"GET", "GETNEXT", "SET"} /\ Len(r.binds) \in Nat
      /\ Bind = r.binds[n + 1] /\ n + 1 \in 1 .. Len(r.binds)
      /\ Bind.id \in 0 .. Len(SnmpTypes)
  BY <1>1, <1>2, RequestShape DEF Bind
<1>4. Len(SnmpTypes) \in Nat /\ SnmpIds = 1 .. Len(SnmpTypes)
  <2>1. SnmpTypes \in Seq(DataTypes)
    BY SnmpAssumption
  <2> QED BY <2>1 DEF SnmpIds
<1>5. Found # NotFound => Found \in SnmpIds
  BY <1>3, <1>4 DEF Found, NotFound
<1>6. r.type # "SET" => (Found = NotFound <=> Failure(r, n + 1) # "NONE")
  BY <1>3, <1>4 DEF Found, Failure, NotFound
<1>7. Len(r.binds) <= SnmpBindings /\ SnmpBindings \in Nat
  BY <1>2, RequestShape, SnmpAssumption
<1>8. Place \in 1 .. SnmpBindings
  BY <1>1, <1>2, <1>3, <1>7
<1> QED BY <1>1, <1>2, <1>3, <1>5, <1>6, <1>8

(* A binding put behind the others, which stay what they are.              *)
LEMMA BoundIsMeasured ==
  ASSUME SnmpInv, BindingsKept, InBinding, NEW id, NEW value, Bound(id, value),
         snmpRequest' = snmpRequest,
         \/ snmpRequest.type = "SET"
         \/ /\ snmpMixed' = snmpMixed /\ snmpTold' = snmpTold
            /\ \/ Failure(snmpRequest, Place) # "NONE"
               \/ SnmpTypes[id] = "TICKS"
               \/ value.type = SnmpTypes[id] /\ Tells(id, value.octets)
  PROVE  BindingsKept'
<1> DEFINE r == snmpRequest
           n == Len(snmpDone)
           size == BindLen([id |-> id, value |-> value])
           b == [id |-> id, value |-> value, size |-> BindHeader(r, Place) + size,
                 field |-> LenField(BindHeader(r, Place), size)]
<1>1. snmpDone' = Append(snmpDone, b)
  BY DEF Bound
<1>2. n \in Nat /\ IsSequence(snmpDone) /\ Place = n + 1 /\ r # NoPdu
  BY BindingShape DEF InBinding
<1>3. Measured(r, n + 1, b) /\ b.id = id /\ b.value = value
  BY <1>2 DEF Measured, BindLen
<1> HIDE DEF b
<1>4. /\ Len(snmpDone') = n + 1 /\ snmpDone'[n + 1] = b
      /\ \A i \in 1 .. n : snmpDone'[i] = snmpDone[i]
  BY <1>1, <1>2, OneMoreIs
<1>5. \A i \in 1 .. n + 1 : Measured(r, i, snmpDone'[i])
  BY <1>2, <1>3, <1>4 DEF BindingsKept
<1>6. CASE r.type = "SET"
  BY <1>2, <1>4, <1>5, <1>6 DEF BindingsKept, IsAnswer, Tells
<1>7. CASE r.type # "SET"
  <2>1. \A i \in 1 .. n + 1 : IsAnswer(r, i, snmpDone'[i])
    BY <1>2, <1>3, <1>4, <1>7 DEF BindingsKept, IsAnswer, Tells
  <2> QED BY <1>2, <1>4, <1>5, <1>7, <2>1 DEF BindingsKept, IsAnswer, Tells
<1> QED BY <1>6, <1>7

LEMMA FailureKeeps ==
  ASSUME ValueInv, InBinding, NEW status \in {"NO_SUCH_NAME", "BAD_VALUE"},
         BindFails(status), snmpRequest' = snmpRequest,
         snmpRequest.type = "SET" \/ Found = NotFound
  PROVE  EntriesKept' /\ BindingsKept' /\ ErrorsTyped'
<1>1. /\ Bound(Bind.id, Bind.value) /\ snmpError' = <<status, Place>>
      /\ snmpData' = snmpData /\ snmpTold' = snmpTold /\ snmpMixed' = snmpMixed
  BY DEF BindFails, snmpHist
<1>2. SnmpInv /\ BindingsKept /\ EntriesKept
  BY DEF ValueInv
<1>3. /\ Place \in 1 .. SnmpBindings /\ SnmpBindings \in Nat
      /\ snmpRequest.type = "SET" \/ Failure(snmpRequest, Place) # "NONE"
  BY <1>2, BindingShape, SnmpAssumption
<1>4. BindingsKept'
  BY <1>1, <1>2, <1>3, BoundIsMeasured
<1>5. EntriesKept'
  BY <1>1, <1>2 DEF EntriesKept
<1>6. <<status, Place>> \in {"NONE", "NO_SUCH_NAME", "BAD_VALUE"} \X (0 .. SnmpBindings)
  BY <1>3
<1> QED BY <1>1, <1>4, <1>5, <1>6 DEF ErrorsTyped

LEMMA ReadKeeps ==
  ASSUME ValueInv, InBinding, BindRead, Found # NotFound, snmpRequest' = snmpRequest
  PROVE  EntriesKept' /\ BindingsKept' /\ ErrorsTyped'
<1> DEFINE value == [type |-> SnmpTypes[Found], octets |-> FetchedOctets(Found)]
<1>1. /\ Bound(Found, value) /\ snmpError' = snmpError
      /\ snmpData' = [snmpData EXCEPT ![Found] = Fetched(Found)]
      /\ snmpTold' = snmpTold /\ snmpMixed' = snmpMixed
  BY DEF BindRead, snmpHist
<1>2. /\ SnmpInv /\ BindingsKept /\ EntriesKept /\ Counted /\ ErrorsTyped
      /\ Found \in SnmpIds
  BY BindingShape DEF ValueInv
<1>3. /\ Fetched(Found) \in Entries
      /\ Kept(SnmpTypes[Found], Fetched(Found), snmpTold[Found], Found \in snmpMixed)
      /\ SnmpTypes[Found] = "TICKS" \/ Tells(Found, FetchedOctets(Found))
  BY <1>2, FetchedIsTold
<1>4. BindingsKept'
  BY <1>1, <1>2, <1>3, BoundIsMeasured
<1>5. EntriesKept'
  <2>1. snmpData' \in [SnmpIds -> Entries]
    BY <1>1, <1>2, <1>3 DEF EntriesKept
  <2>2. \A id \in SnmpIds :
          Kept(SnmpTypes[id], snmpData'[id], snmpTold[id], id \in snmpMixed)
    BY <1>1, <1>2, <1>3 DEF EntriesKept
  <2> QED BY <1>1, <1>2, <2>1, <2>2 DEF EntriesKept
<1> QED BY <1>1, <1>2, <1>4, <1>5 DEF ErrorsTyped

(* A SET tells the entry something new; no reader is under way then.       *)
LEMMA WriteKeeps ==
  ASSUME ValueInv, InBinding, BindWritten, snmpRequest' = snmpRequest,
         snmpRequest.type = "SET", Found # NotFound,
         SnmpTypes[Found] = Bind.value.type, TextFits
  PROVE  EntriesKept' /\ BindingsKept' /\ ErrorsTyped'
<1> DEFINE octets == Bind.value.octets
           was == snmpData[Found].text
           new == Entry(Found, was, octets)
<1>1. /\ Bound(Bind.id, Bind.value) /\ Told /\ snmpError' = snmpError
      /\ snmpData' = [snmpData EXCEPT ![Found] = new]
  BY DEF BindWritten
<1>2. /\ SnmpInv /\ BindingsKept /\ EntriesKept /\ ErrorsTyped
      /\ snmpRequest \in SnmpRequests /\ Found \in SnmpIds
  BY BindingShape DEF ValueInv
<1>3. Bind.value \in SnmpValues
  <2>1. snmpRequest.binds \in BindLists(SnmpValues)
    BY <1>2 DEF SnmpRequests
  <2>2. PICK n \in 1 .. SnmpBindings : snmpRequest.binds \in
          [1 .. n -> [id : SnmpIds \cup {NotFound}, value : SnmpValues]]
    BY <2>1 DEF BindLists
  <2>3. n \in Nat /\ Len(snmpRequest.binds) = n
    BY <2>2, SnmpAssumption
  <2> QED BY <1>2, <2>2, <2>3, BindingShape
<1>4. /\ WellFormed(SnmpTypes[Found], octets) /\ octets \in Strings
      /\ Len(octets) \in Nat
  <2>1. WellFormed(SnmpTypes[Found], octets)
    BY <1>3, SnmpAssumption
  <2>2. SnmpTypes[Found] \in DataTypes
    BY <1>2, SnmpAssumption DEF SnmpIds
  <2>3. octets \in Seq(Octets) /\ Len(octets) <= SnmpString
    <3>1. octets \in Seq(Octets) /\ Len(octets) \in Nat
      BY <2>1 DEF WellFormed
    <3>2. CASE IsText(Found)
      BY <3>1, <3>2 DEF TextFits
    <3>3. CASE ~IsText(Found)
      <4>1. SnmpTypes[Found] \in {"INTEGER", "TICKS"}
        BY <2>2, <3>3 DEF IsText, DataTypes
      <4>2. Len(octets) <= IntOctets
        <5>1. CASE SnmpTypes[Found] = "INTEGER"
          <6>1. Len(octets) \in 1 .. IntOctets
            BY <2>1, <5>1 DEF WellFormed
          <6> HIDE DEF octets
          <6>2. IntOctets \in Nat
            BY DEF IntOctets
          <6> QED BY <3>1, <6>1, <6>2
        <5>2. CASE SnmpTypes[Found] = "TICKS"
          BY <2>1, <5>2 DEF WellFormed
        <5> QED BY <4>1, <5>1, <5>2
      <4> QED BY <3>1, <4>2, ZeroIsOctet DEF IntOctets
    <3> QED BY <3>2, <3>3
  <2> QED BY <2>1, <2>3, FitsIsString, StringShape, ZeroIsOctet
<1>5. PICK m \in 0 .. SnmpString : SnmpTypes[Found] = "STRING" => EndsAt(was, m)
  <2>1. 0 \in 0 .. SnmpString
    BY ZeroIsOctet
  <2> QED BY <1>2, <2>1 DEF EntriesKept, Kept, TextKept
<1>6. /\ snmpTold' = [snmpTold EXCEPT ![Found] = octets]
      /\ snmpMixed' = IF SnmpTypes[Found] = "STRING" /\ Len(octets) < m
                      THEN snmpMixed \cup {Found} ELSE snmpMixed \ {Found}
  BY <1>1, <1>5, StrlenIsEnd DEF Told
<1>7. /\ was \in Texts
      /\ Found \in snmpMixed' \/ ~(SnmpTypes[Found] = "STRING" /\ Len(octets) < m)
  BY <1>2, <1>6 DEF EntriesKept, Entries
<1>8. /\ new \in Entries
      /\ Kept(SnmpTypes[Found], new, octets, Found \in snmpMixed')
  BY <1>2, <1>4, <1>5, <1>7, EntryKeeps
<1>9. EntriesKept'
  <2>1. snmpData' \in [SnmpIds -> Entries] /\ snmpTold' \in [SnmpIds -> Strings]
    BY <1>1, <1>2, <1>4, <1>6, <1>8 DEF EntriesKept
  <2>2. snmpMixed' \subseteq SnmpIds
    BY <1>2, <1>6 DEF EntriesKept
  <2>3. ASSUME NEW id \in SnmpIds
        PROVE  Kept(SnmpTypes[id], snmpData'[id], snmpTold'[id], id \in snmpMixed')
    <3>1. CASE id = Found
      <4>1. snmpData'[id] = new /\ snmpTold'[id] = octets
        BY <1>1, <1>2, <1>6, <3>1 DEF EntriesKept
      <4> QED BY <1>8, <3>1, <4>1
    <3>2. CASE id # Found
      <4>1. /\ snmpData'[id] = snmpData[id] /\ snmpTold'[id] = snmpTold[id]
            /\ id \in snmpMixed' <=> id \in snmpMixed
        BY <1>1, <1>2, <1>6, <3>2 DEF EntriesKept
      <4> QED BY <1>2, <4>1 DEF EntriesKept, Kept, TextKept
    <3> QED BY <3>1, <3>2
  <2> QED BY <2>1, <2>2, <2>3 DEF EntriesKept
<1>10. BindingsKept'
  BY <1>1, <1>2, BoundIsMeasured
<1> QED BY <1>1, <1>2, <1>9, <1>10 DEF ErrorsTyped

LEMMA VarBindKeepsValues ==
  ASSUME ValueInv, VarBind, Settled
  PROVE  ValueInv'
<1>1. /\ InBinding /\ snmpRequest' = snmpRequest /\ snmpResponse' = snmpResponse
      /\ snmpOpen' = snmpOpen /\ snmpTick' = snmpTick
      /\ IF Found = NotFound THEN BindFails("NO_SUCH_NAME")
         ELSE IF snmpRequest.type # "SET" THEN BindRead
         ELSE IF SnmpTypes[Found] # Bind.value.type THEN BindFails("BAD_VALUE")
         ELSE BindWritten /\ TextFits
  BY DEF VarBind, Settled
<1>2. EntriesKept' /\ BindingsKept' /\ ErrorsTyped'
  <2>1. CASE Found = NotFound
    BY <1>1, <2>1, FailureKeeps
  <2>2. CASE Found # NotFound /\ snmpRequest.type # "SET"
    BY <1>1, <2>2, ReadKeeps
  <2>3. CASE /\ Found # NotFound /\ snmpRequest.type = "SET"
             /\ SnmpTypes[Found] # Bind.value.type
    BY <1>1, <2>3, FailureKeeps
  <2>4. CASE /\ Found # NotFound /\ snmpRequest.type = "SET"
             /\ SnmpTypes[Found] = Bind.value.type
    BY <1>1, <2>4, WriteKeeps
  <2> QED BY <2>1, <2>2, <2>3, <2>4
<1>3. SnmpInv'
  BY BindingKeepsInv DEF ValueInv
<1>4. snmpSpilled' = snmpSpilled
  BY <1>1 DEF BindFails, BindRead, BindWritten, Told, snmpHist
<1>5. LengthsKept' /\ Counted'
  BY <1>1, <1>4 DEF ValueInv, LengthsKept, Counted, Answered
<1> QED BY <1>2, <1>3, <1>5 DEF ValueInv

(* The lengths of the response are those of the bindings it takes over.    *)
LEMMA RespondKeepsValues ==
  ASSUME ValueInv, SnmpRespond
  PROVE  LengthsKept' /\ BindingsKept' /\ EntriesKept'
<1> DEFINE r    == snmpRequest
           list == Total([i \in DOMAIN snmpDone |-> snmpDone[i].size])
           pdu  == PduHeader(r) + IdsLen + list
           msg  == MessageHeader(r) + VersionLen + pdu
<1>1. /\ r # NoPdu /\ snmpRequest' = NoPdu /\ snmpDone' = <<>>
      /\ snmpResponse' =
           [type |-> "RESPONSE", request |-> r, binds |-> snmpDone,
            error |-> snmpError, list |-> LenField(ListHeader(r), list),
            pdu |-> LenField(PduHeader(r), pdu),
            message |-> LenField(MessageHeader(r), msg)]
      /\ snmpData' = snmpData /\ snmpTold' = snmpTold /\ snmpMixed' = snmpMixed
  BY DEF SnmpRespond, snmpHist
<1>2. EntriesKept'
  BY <1>1 DEF ValueInv, EntriesKept
<1>3. BindingsKept'
  BY <1>1 DEF BindingsKept
<1>4. \A i \in DOMAIN snmpDone : Measured(r, i, snmpDone[i])
  <2>1. IsSequence(snmpDone)
    BY <1>1 DEF ValueInv, SnmpInv, InRequest
  <2>2. DOMAIN snmpDone = 1 .. Len(snmpDone)
    BY <2>1 DEF IsSequence
  <2> QED BY <2>2 DEF ValueInv, BindingsKept
<1> HIDE DEF list
<1>5. /\ snmpResponse'.request = r /\ snmpResponse'.binds = snmpDone
      /\ snmpResponse'.list = LenField(ListHeader(r), list)
      /\ snmpResponse'.pdu = LenField(PduHeader(r), pdu)
      /\ snmpResponse'.message = LenField(MessageHeader(r), msg)
  BY <1>1
<1>6. LengthsKept'
  BY <1>4, <1>5 DEF LengthsKept, list
<1> QED BY <1>2, <1>3, <1>6

LEMMA ValueInvStep == ValueInv /\ [SnmpNext]_snmpVars => ValueInv'
<1> SUFFICES ASSUME ValueInv, [SnmpNext]_snmpVars PROVE ValueInv'
  OBVIOUS
<1>1. SnmpInv'
  BY SnmpInvStep DEF ValueInv
<1> USE DEF ValueInv
<1>2. SnmpTicks \in Nat /\ NoError \in {"NONE", "NO_SUCH_NAME", "BAD_VALUE"} \X (0 .. SnmpBindings)
  <2>1. SnmpTicks \in Nat /\ SnmpBindings \in Nat
    BY SnmpAssumption
  <2> QED BY <2>1 DEF NoError
<1>3. CASE SnmpTick \/ SnmpRunClosed
  <2>1. /\ UNCHANGED <<snmpData, snmpWork, snmpResponse, snmpHist>>
        /\ snmpSpilled' = snmpSpilled
        /\ \/ snmpOpen' = snmpOpen /\ snmpTick' = snmpTick + 1 /\ snmpTick < SnmpTicks
           \/ snmpOpen' = TRUE /\ snmpTick' = snmpTick
    BY <1>3 DEF SnmpTick, SnmpRunClosed, snmpHist
  <2>2. Counted'
    <3>1. snmpTick' \in 0 .. SnmpTicks
      BY <1>2, <2>1 DEF Counted
    <3>2. snmpOpen' \in BOOLEAN
      BY <2>1 DEF Counted
    <3> QED BY <2>1, <3>1, <3>2 DEF Counted
  <2> QED BY <1>1, <2>1, <2>2
          DEF ErrorsTyped, EntriesKept, BindingsKept, LengthsKept, Answered,
              IsAnswer, Tells, snmpWork, snmpHist
<1>4. CASE VarBind
  <2>1. CASE Settled
    BY <1>4, <2>1, VarBindKeepsValues
  <2>2. CASE ~Settled
    BY <1>1, <1>4, <2>2, SpillsElse
       DEF Counted, ErrorsTyped, EntriesKept, BindingsKept, LengthsKept, Answered,
           IsAnswer, Tells
  <2> QED BY <2>1, <2>2
<1>5. CASE SnmpRespond
  <2>1. Counted' /\ ErrorsTyped'
    BY <1>5 DEF SnmpRespond, Counted, ErrorsTyped, snmpHist
  <2> QED BY <1>1, <1>5, <2>1, RespondKeepsValues
<1>6. CASE SnmpSent
  <2>1. /\ UNCHANGED <<snmpOpen, snmpTick, snmpData, snmpWork, snmpHist>>
        /\ snmpResponse' = NoPdu
    BY <1>6 DEF SnmpSent
  <2>2. LengthsKept'
    BY <2>1 DEF LengthsKept, Answered, NoPdu
  <2> QED BY <1>1, <2>1, <2>2
          DEF Counted, ErrorsTyped, EntriesKept, BindingsKept, IsAnswer,
              Tells, snmpWork, snmpHist
<1>7. CASE \E r \in SnmpRequests : SnmpRunRequest(r)
  <2>1. /\ UNCHANGED <<snmpOpen, snmpTick, snmpData, snmpResponse, snmpHist>>
        /\ snmpDone' = <<>> /\ snmpError' = NoError
    BY <1>7 DEF SnmpRunRequest
  <2>2. BindingsKept'
    BY <2>1 DEF BindingsKept
  <2>3. ErrorsTyped'
    BY <1>2, <2>1 DEF ErrorsTyped
  <2> QED BY <1>1, <2>1, <2>2, <2>3
          DEF Counted, EntriesKept, LengthsKept, Answered, snmpHist
<1>8. CASE \E answered \in BOOLEAN : SnmpRunRefused(answered)
  <2>1. /\ UNCHANGED <<snmpOpen, snmpTick, snmpData, snmpHist>>
        /\ snmpDone' = <<>> /\ snmpError' = NoError
        /\ snmpResponse'.type \in {"CUT", "NONE"}
    BY <1>8 DEF SnmpRunRefused, NoPdu
  <2>2. BindingsKept' /\ LengthsKept'
    BY <2>1 DEF BindingsKept, LengthsKept, Answered
  <2>3. ErrorsTyped'
    BY <1>2, <2>1 DEF ErrorsTyped
  <2> QED BY <1>1, <2>1, <2>2, <2>3 DEF Counted, EntriesKept, snmpHist
<1>9. CASE UNCHANGED snmpVars
  BY <1>1, <1>9
     DEF snmpVars, Counted, ErrorsTyped, EntriesKept, BindingsKept, LengthsKept,
         Answered, IsAnswer, Tells, snmpWork, snmpHist
<1> QED BY <1>3, <1>4, <1>5, <1>6, <1>7, <1>8, <1>9 DEF SnmpNext

(* ValueInv holds the type of every variable of the agent.                 *)
LEMMA ValuesAreTyped == ValueInv => SnmpTypeOK
<1> SUFFICES ASSUME ValueInv PROVE SnmpTypeOK
  OBVIOUS
<1>1. \A id \in SnmpIds :
        /\ snmpData[id].text \in [1 .. SnmpString -> Octets]
        /\ snmpData[id].int \in [1 .. IntOctets -> Octets]
        /\ snmpData[id].len \in 0 .. SnmpString
  BY DEF ValueInv, EntriesKept, Entries, Texts, Quads
<1>2. snmpRequest = NoPdu \/ snmpRequest.type \in {"GET", "GETNEXT", "SET"}
  BY RequestShape DEF ValueInv, SnmpInv, InRequest
<1>3. Len(snmpDone) <= Len(snmpRequest.binds)
  BY DEF ValueInv, SnmpInv, InRequest, BindingsKept, NoPdu
<1> QED BY <1>1, <1>2, <1>3
        DEF ValueInv, Counted, ErrorsTyped, EntriesKept, SnmpTypeOK

(* Up to the first SET of a text longer than MAX_STRING octets, which      *)
(* setEntry copies past the end of its entry, every reachable state of the *)
(* agent is well typed: numbers keep to an int32_t, dataLen to the octets  *)
(* of its entry and a response to the bindings of its request (snmpData,   *)
(* request_msg, response_msg), whatever lengths of text are set.           *)
THEOREM SnmpTyped == SnmpSpec => []SnmpTypeOK
<1>1. ValueInv => SnmpTypeOK
  BY ValuesAreTyped
<1> QED BY <1>1, ValueInvInit, ValueInvStep, PTL DEF SnmpSpec

(* What ValueInv says of the bindings answered so far.                     *)
LEMMA ValuesAreTold == ValueInv => SnmpGetsWhatWasSet
<1> SUFFICES ASSUME ValueInv, snmpRequest.type \in {"GET", "GETNEXT"},
                    NEW i \in DOMAIN snmpDone
             PROVE  IsAnswer(snmpRequest, i, snmpDone[i])
  BY DEF SnmpGetsWhatWasSet, IsAnswer, Tells
<1>1. snmpRequest # NoPdu
  BY DEF NoPdu
<1>2. IsSequence(snmpDone)
  BY <1>1 DEF ValueInv, SnmpInv, InRequest
<1>3. i \in 1 .. Len(snmpDone)
  BY <1>2 DEF IsSequence
<1> QED BY <1>3 DEF ValueInv, BindingsKept

(* GET and GETNEXT answer with what the entry was last given, for any      *)
(* table, any requests and any number of bindings, up to the first SET of  *)
(* a text longer than MAX_STRING octets: one that just fits comes back     *)
(* whole, although it has no end of its own.  A string into which a        *)
(* shorter one was written begins with what it was last given, and the     *)
(* uptime is not what a SET wrote (setEntry, which copies without bound    *)
(* and leaves the end of a longer string, and getEntry, which looks for it *)
(* with strlen).                                                           *)
THEOREM GetsWhatWasSet == SnmpSpec => []SnmpGetsWhatWasSet
<1>1. ValueInv => SnmpGetsWhatWasSet
  BY ValuesAreTold
<1> QED BY <1>1, ValueInvInit, ValueInvStep, PTL DEF SnmpSpec

(* A length that has room in its field is what the field says.             *)
LEMMA FieldIsLength ==
  ASSUME NEW header \in {2, 3}, NEW len,
         len \in 0 .. (IF header = 2 THEN SnmpShort ELSE 2 * SnmpShort + 1)
  PROVE  LenField(header, len) = len
<1>1. SnmpShort \in Nat
  BY SnmpAssumption
<1>2. CASE header = 2
  BY <1>1, <1>2 DEF LenField
<1>3. CASE header = 3
  <2>1. len \in 0 .. 2 * SnmpShort + 1 /\ 2 * SnmpShort + 2 \in Nat \ {0}
    BY <1>1, <1>3
  <2> DEFINE d == 2 * SnmpShort + 2
  <2>2. len \in Nat /\ len < d /\ d \in Nat \ {0}
    BY <1>1, <2>1
  <2>3. LenField(header, len) = len % d
    BY <1>3 DEF LenField
  <2> HIDE DEF d
  <2>4. len % d = len
    BY <2>2
  <2> QED BY <2>3, <2>4
<1> QED BY <1>2, <1>3

(* The lengths ValueInv keeps are those of what follows them.              *)
LEMMA LengthsFollow == ValueInv => SnmpFramed
<1> SUFFICES ASSUME ValueInv, Answered PROVE SnmpFramed
  BY DEF SnmpFramed
<1> DEFINE r     == snmpResponse.request
           binds == snmpResponse.binds
           sizes == [i \in DOMAIN binds |-> binds[i].size]
           own   == [i \in DOMAIN binds |-> BindHeader(r, i) + BindLen(binds[i])]
           list  == Total(own)
           pdu   == IdsLen + ListHeader(r) + list
           msg   == VersionLen + PduHeader(r) + pdu
           Room(header, len) ==
             len \in 0 .. (IF header = 2 THEN SnmpShort ELSE 2 * SnmpShort + 1)
<1>1. /\ \A i \in DOMAIN binds : Measured(r, i, binds[i])
      /\ snmpResponse.list = LenField(ListHeader(r), Total(sizes))
      /\ snmpResponse.pdu =
           LenField(PduHeader(r), PduHeader(r) + IdsLen + Total(sizes))
      /\ snmpResponse.message =
           LenField(MessageHeader(r),
             MessageHeader(r) + VersionLen + (PduHeader(r) + IdsLen + Total(sizes)))
  BY DEF ValueInv, LengthsKept
<1>2. sizes = own
  BY <1>1 DEF Measured
<1>3. \A len, long : Header(len, long) \in {2, 3}
  BY DEF Header
<1>4. /\ \A i : BindHeader(r, i) \in {2, 3}
      /\ ListHeader(r) \in {2, 3} /\ PduHeader(r) \in {2, 3}
      /\ MessageHeader(r) \in {2, 3}
  BY <1>3 DEF BindHeader, ListHeader, PduHeader, MessageHeader
<1>5. ASSUME NEW i \in DOMAIN binds, Room(BindHeader(r, i), BindLen(binds[i]))
      PROVE  binds[i].field = BindLen(binds[i])
  BY <1>1, <1>4, <1>5, FieldIsLength DEF Measured
<1>6. ASSUME ListHeader(r) = PduHeader(r), PduHeader(r) = MessageHeader(r),
             Room(ListHeader(r), list), Room(PduHeader(r), pdu),
             Room(MessageHeader(r), msg)
      PROVE  /\ snmpResponse.list = list /\ snmpResponse.pdu = pdu
             /\ snmpResponse.message = msg
  <2>1. SnmpShort \in Nat
    BY SnmpAssumption
  <2>2. list \in Int
    BY <1>4, <1>6, <2>1
  <2> HIDE DEF list, sizes, own
  <2>3. /\ PduHeader(r) + IdsLen + list = pdu
        /\ MessageHeader(r) + VersionLen + pdu = msg
    BY <1>4, <1>6, <2>2 DEF IdsLen, VersionLen
  <2> HIDE DEF pdu, msg
  <2>4. Total(sizes) = list
    BY <1>2 DEF list
  <2> QED BY <1>1, <1>4, <1>6, <2>3, <2>4, FieldIsLength
<1> HIDE DEF Room
<1> QED BY <1>5, <1>6 DEF SnmpFramed, Room

(* Every length in a response is that of what follows it, for any number   *)
(* of bindings of any size, where the request's headers have room for it   *)
(* and are of one form (insertRespLen, parseVarBind, parseSequence,        *)
(* parseSequenceOf, parseRequest, parseSNMPMessage).                       *)
THEOREM LengthsAreRight == SnmpSpec => []SnmpFramed
<1>1. ValueInv => SnmpFramed
  BY LengthsFollow
<1> QED BY <1>1, ValueInvInit, ValueInvStep, PTL DEF SnmpSpec
-----------------------------------------------------------------------------
(***************************************************************************)
(* SntpCalendar.  In every round of a loop, the day the years and months   *)
(* that are over lead to, together with the days that are left, is the day *)
(* of the time; on the way back, the days added are those of the date's    *)
(* years and months so far.                                                *)
(***************************************************************************)
YearStart(y) == CivilDay(y, 1, 1)

RoundKept ==
  /\ calAt = "years" =>
       calMonth = 1 /\ YearStart(calYear) + calDays = LocalTime[1]
  /\ calAt = "months" =>
       /\ calMonth \in 1 .. 12
       /\ CivilDay(calYear, calMonth, 1) + calDays = LocalTime[1]
       /\ LocalTime[1] < YearStart(calYear + 1)

DateKept ==
  calAt \in {"told", "leaps", "days", "back"} =>
    /\ calDate.yy \in Nat /\ calDate.yy >= Epoch /\ calDate.mo \in 1 .. 12
    /\ calDate.dd \in 1 .. MonthDays(calDate.yy, calDate.mo)
    /\ calDate.hh \in Nat /\ calDate.mm \in Nat /\ calDate.ss \in Nat
    /\ CivilDay(calDate.yy, calDate.mo, calDate.dd) = LocalTime[1]
    /\ (calDate.hh * 60 + calDate.mm) * 60 + calDate.ss = LocalTime[2]

BackKept ==
  /\ calAt = "leaps" =>
       /\ calYear <= calDate.yy /\ calDays <= calYear - Epoch
       /\ YearStart(calYear) = (calYear - Epoch) * 365 + calDays
  /\ calAt = "days" =>
       /\ calMonth \in 1 .. calDate.mo + 1
       /\ calDays = IF calMonth = 1 THEN YearStart(calDate.yy)
                    ELSE CivilDay(calDate.yy, calMonth - 1, 1)
  /\ calBack # NoDate => calAt = "back" /\ calBack = LocalTime

CalInv ==
  /\ LocalTime[1] \in Nat /\ LocalTime[2] \in Nat /\ LocalTime[2] < SecsPerDay
  /\ LocalTime = <<LocalTime[1], LocalTime[2]>>
  /\ calAt \in {"asked", "years", "months", "told", "leaps", "days", "back"}
  /\ calYear \in Nat /\ calYear >= Epoch /\ calMonth \in Nat /\ calDays \in Nat
  /\ calAt \in {"asked", "years", "months"} => calDate = NoDate
  /\ RoundKept /\ DateKept /\ BackKept

-----------------------------------------------------------------------------
(* Dividing a year and the one before it.                                  *)
LEMMA YearsDivide ==
  ASSUME NEW y \in Nat, y >= 1
  PROVE  /\ y \div 4 = (y - 1) \div 4 + (IF y % 4 = 0 THEN 1 ELSE 0)
         /\ y \div 100 = (y - 1) \div 100 + (IF y % 100 = 0 THEN 1 ELSE 0)
         /\ y \div 400 = (y - 1) \div 400 + (IF y % 400 = 0 THEN 1 ELSE 0)
         /\ y % 400 = 0 => y % 100 = 0
         /\ y % 100 = 0 => y % 4 = 0
<1>1. y \div 4 = (y - 1) \div 4 + (IF y % 4 = 0 THEN 1 ELSE 0)
  OBVIOUS
<1>2. y \div 100 = (y - 1) \div 100 + (IF y % 100 = 0 THEN 1 ELSE 0)
  OBVIOUS
<1>3. y \div 400 = (y - 1) \div 400 + (IF y % 400 = 0 THEN 1 ELSE 0)
  OBVIOUS
<1>4. y % 400 = 0 => y % 100 = 0
  OBVIOUS
<1>5. y % 100 = 0 => y % 4 = 0
  OBVIOUS
<1> QED BY <1>1, <1>2, <1>3, <1>4, <1>5

(* The days before a year, and before March of it.                         *)
Before(y) == 365 * y + y \div 4 - y \div 100 + y \div 400

LEMMA BeforeGrows ==
  ASSUME NEW y \in Nat, y >= 1
  PROVE  /\ Before(y) \in Int /\ Before(y - 1) \in Int
         /\ Before(y) = Before(y - 1) + YearDays(y)
<1>1. y - 1 \in Nat /\ \A z \in Nat : Before(z) \in Int
  BY DEF Before
<1>2. Before(y) = Before(y - 1) + 365 + (IF y % 4 = 0 THEN 1 ELSE 0)
        - (IF y % 100 = 0 THEN 1 ELSE 0) + (IF y % 400 = 0 THEN 1 ELSE 0)
  BY <1>1, YearsDivide DEF Before
<1> QED BY <1>1, <1>2, YearsDivide DEF YearDays, Leap

(* The first day of each month, in a year and in the next one's January.  *)
LEMMA MonthStarts ==
  ASSUME NEW y \in Nat, y >= 1
  PROVE  LET b == Before(y - 1) - 693901
             c == Before(y) - 693901
         IN  /\ b \in Int /\ c \in Int
             /\ CivilDay(y, 1, 1) = b + 306 /\ CivilDay(y, 2, 1) = b + 337
             /\ CivilDay(y, 3, 1) = c       /\ CivilDay(y, 4, 1) = c + 31
             /\ CivilDay(y, 5, 1) = c + 61  /\ CivilDay(y, 6, 1) = c + 92
             /\ CivilDay(y, 7, 1) = c + 122 /\ CivilDay(y, 8, 1) = c + 153
             /\ CivilDay(y, 9, 1) = c + 184 /\ CivilDay(y, 10, 1) = c + 214
             /\ CivilDay(y, 11, 1) = c + 245 /\ CivilDay(y, 12, 1) = c + 275
             /\ CivilDay(y + 1, 1, 1) = c + 306
<1>1. Before(y) \in Int /\ Before(y - 1) \in Int
  BY BeforeGrows
<1>2. CivilDay(y, 1, 1) = Before(y - 1) - 693901 + 306
  BY DEF CivilDay, Before
<1>3. CivilDay(y, 2, 1) = Before(y - 1) - 693901 + 337
  BY DEF CivilDay, Before
<1>4. CivilDay(y, 3, 1) = Before(y) - 693901
  BY DEF CivilDay, Before
<1>5. CivilDay(y, 4, 1) = Before(y) - 693901 + 31
  BY DEF CivilDay, Before
<1>6. CivilDay(y, 5, 1) = Before(y) - 693901 + 61
  BY DEF CivilDay, Before
<1>7. CivilDay(y, 6, 1) = Before(y) - 693901 + 92
  BY DEF CivilDay, Before
<1>8. CivilDay(y, 7, 1) = Before(y) - 693901 + 122
  BY DEF CivilDay, Before
<1>9. CivilDay(y, 8, 1) = Before(y) - 693901 + 153
  BY DEF CivilDay, Before
<1>10. CivilDay(y, 9, 1) = Before(y) - 693901 + 184
  BY DEF CivilDay, Before
<1>11. CivilDay(y, 10, 1) = Before(y) - 693901 + 214
  BY DEF CivilDay, Before
<1>12. CivilDay(y, 11, 1) = Before(y) - 693901 + 245
  BY DEF CivilDay, Before
<1>13. CivilDay(y, 12, 1) = Before(y) - 693901 + 275
  BY DEF CivilDay, Before
<1>14. CivilDay(y + 1, 1, 1) = Before(y) - 693901 + 306
  BY DEF CivilDay, Before
<1> QED
  BY <1>1, <1>2, <1>3, <1>4, <1>5, <1>6, <1>7, <1>8, <1>9, <1>10, <1>11, <1>12,
     <1>13, <1>14

(* A year of YearDays lies between two first days, a month of MonthDays    *)
(* between the first days of two months, and the way back adds as many.    *)
LEMMA YearLasts ==
  ASSUME NEW y \in Nat, y >= 1
  PROVE  /\ YearStart(y) \in Int
         /\ YearStart(y + 1) = YearStart(y) + YearDays(y)
<1>1. YearDays(y) \in {365, 366}
  BY DEF YearDays
<1>2. Before(y) = Before(y - 1) + YearDays(y) /\ Before(y - 1) \in Int
  BY BeforeGrows
<1>3. /\ YearStart(y) = Before(y - 1) - 693901 + 306
      /\ YearStart(y + 1) = Before(y) - 693901 + 306
  BY MonthStarts DEF YearStart
<1> QED BY <1>1, <1>2, <1>3

LEMMA MonthLasts ==
  ASSUME NEW y \in Nat, y >= 1, NEW m \in 1 .. 12
  PROVE  /\ CivilDay(y, m, 1) \in Int
         /\ MonthDays(y, m) \in 28 .. 31
         /\ m = 12 => YearStart(y + 1) = CivilDay(y, m, 1) + MonthDays(y, m)
         /\ m < 12 => /\ CivilDay(y, m + 1, 1) = CivilDay(y, m, 1) + MonthDays(y, m)
                      /\ DaysBefore(y, m + 1) = MonthDays(y, m)
<1>1. Before(y) = Before(y - 1) + YearDays(y) /\ Before(y - 1) \in Int
  BY BeforeGrows
<1>2. CivilDay(y, m, 1) \in Int
  <2>1. \/ m = 1 \/ m = 2 \/ m = 3 \/ m = 4 \/ m = 5 \/ m = 6
        \/ m = 7 \/ m = 8 \/ m = 9 \/ m = 10 \/ m = 11 \/ m = 12
    OBVIOUS
  <2> QED BY <2>1, MonthStarts
<1>3. m < 12 => DaysBefore(y, m + 1) = MonthDays(y, m)
  BY DEF DaysBefore, MonthDays
<1>4. MonthDays(y, m) \in 28 .. 31
  BY DEF MonthDays
<1>5. CASE m = 2
  BY <1>1, <1>2, <1>3, <1>4, <1>5, MonthStarts DEF MonthDays, YearDays
<1>6. CASE m \in {4, 6, 9, 11}
  <2>1. MonthDays(y, m) = 30
    BY <1>6 DEF MonthDays
  <2> QED BY <1>2, <1>3, <1>6, <2>1, MonthStarts
<1>7. CASE m \in {1, 3, 5, 7, 8, 10, 12}
  <2>1. MonthDays(y, m) = 31
    BY <1>7 DEF MonthDays
  <2> QED BY <1>2, <1>3, <1>7, <2>1, MonthStarts DEF YearStart
<1> QED BY <1>5, <1>6, <1>7

LEMMA DayOfMonth ==
  ASSUME NEW y \in Nat, y >= 1, NEW m \in 1 .. 12, NEW d \in Int
  PROVE  CivilDay(y, m, d) = CivilDay(y, m, 1) + d - 1
<1>1. \A n \in Int : /\ n \div 4 \in Int /\ n \div 100 \in Int
                     /\ n \div 400 \in Int /\ n \div 5 \in Int
  OBVIOUS
<1>2. (153 * ((m + 9) % 12) + 2) \div 5 \in Int
  BY <1>1
<1>3. (IF m <= 2 THEN y - 1 ELSE y) \in Int
  OBVIOUS
<1> QED BY <1>1, <1>2, <1>3 DEF CivilDay

-----------------------------------------------------------------------------
(* Hours, minutes and seconds make up the second of the day again.         *)
LEMMA SecondsCarry ==
  ASSUME NEW s \in Nat
  PROVE  /\ s \div 3600 \in Nat /\ (s % 3600) \div 60 \in Nat /\ (s % 3600) % 60 \in Nat
         /\ ((s \div 3600) * 60 + (s % 3600) \div 60) * 60 + ((s % 3600) % 60) = s
<1>1. \A n \in Nat : /\ n \div 60 \in Nat /\ n % 60 \in Nat
                     /\ 60 * (n \div 60) + (n % 60) = n
  OBVIOUS
<1>2. /\ s \div 3600 \in Nat /\ s % 3600 \in Nat
      /\ 3600 * (s \div 3600) + (s % 3600) = s
  OBVIOUS
<1>3. /\ (s % 3600) \div 60 \in Nat /\ (s % 3600) % 60 \in Nat
      /\ 60 * ((s % 3600) \div 60) + ((s % 3600) % 60) = s % 3600
  BY <1>1, <1>2
<1> QED BY <1>2, <1>3
LEMMA NotCarried ==
  \A s \in Nat : s < SecsPerDay => s \div SecsPerDay = 0 /\ s % SecsPerDay = s
BY DEF SecsPerDay

(* No zone takes the local time more than a day back.                      *)
LEMMA TimesAreReal ==
  ASSUME NEW n \in Nat, n >= 1, NEW x \in Int, x >= -86400
  PROVE  LET t == TimeAt(n, x)
         IN  t[1] \in Nat /\ t[2] \in Nat /\ t[2] < SecsPerDay /\ t = <<t[1], t[2]>>
<1>1. /\ x \div 86400 \in Int /\ x \div 86400 >= -1
      /\ x % 86400 \in Nat /\ x % 86400 < 86400
  OBVIOUS
<1>2. TimeAt(n, x) = <<n + (x \div 86400), x % 86400>>
  BY DEF TimeAt, SecsPerDay
<1> QED BY <1>1, <1>2 DEF SecsPerDay

LEMMA CalStarts == CalInit => CalInv
<1> SUFFICES ASSUME CalInit PROVE CalInv
  OBVIOUS
<1>1. LastDay \in Nat /\ SecsPerDay \in Nat
  BY DEF LastDay, SecsPerDay
<1>2. calNtp[1] \in CalDays /\ calNtp[2] \in CalSeconds /\ calZone \in CalZones
  BY DEF CalInit
<1>3. /\ calNtp[1] \in 1 .. LastDay /\ calNtp[2] \in 0 .. SecsPerDay - 1
      /\ calZone \in 0 .. 49
  BY <1>2, CalAssumption
<1>4. /\ calNtp[1] \in Nat /\ calNtp[1] >= 1
      /\ calNtp[2] \in Nat /\ calNtp[2] < SecsPerDay
  BY <1>1, <1>3
<1>5. ZoneMinutes[calZone + 1] \in Int /\ ZoneMinutes[calZone + 1] >= -720
  BY <1>3, SMTT(60) DEF ZoneMinutes
<1>6. /\ LocalTime[1] \in Nat /\ LocalTime[2] \in Nat /\ LocalTime[2] < SecsPerDay
      /\ LocalTime = <<LocalTime[1], LocalTime[2]>>
  <2> DEFINE m == ZoneMinutes[calZone + 1]
             x == calNtp[2] + 60 * m
  <2>1. m \in Int /\ m >= -720
    BY <1>5
  <2>2. LocalTime = TimeAt(calNtp[1], x)
    BY DEF LocalTime
  <2> HIDE DEF m
  <2>3. x \in Int /\ x >= -86400
    BY <1>4, <2>1
  <2> HIDE DEF x
  <2> QED BY <1>4, <2>2, <2>3, TimesAreReal
<1>7. RoundKept /\ DateKept /\ BackKept
  BY DEF CalInit, RoundKept, DateKept, BackKept
<1> QED BY <1>6, <1>7 DEF CalInit, CalInv, Epoch, NoDate

LEMMA CalSteps == CalInv /\ [CalNext]_calVars => CalInv'
<1> SUFFICES ASSUME CalInv, [CalNext]_calVars PROVE CalInv'
  OBVIOUS
<1> USE DEF NoDate
<1> DEFINE Same == /\ calNtp' = calNtp /\ calZone' = calZone
                   /\ LocalTime' = LocalTime
<1>1. Same
  BY DEF CalNext, CalTold, YearPasses, YearFound, MonthPasses, MonthFound,
         CalAsksBack, LeapCounted, LeapsCounted, DaysAdded, CalReturns,
         calVars, calAsked, LocalTime, TimeAt
<1>2. /\ LocalTime[1] \in Nat /\ LocalTime[2] \in Nat /\ LocalTime[2] < SecsPerDay
      /\ LocalTime = <<LocalTime[1], LocalTime[2]>>
  BY DEF CalInv
<1>3. calYear \in Nat /\ calYear >= 1 /\ calDays \in Nat
  BY DEF CalInv, Epoch
<1>4. YearStart(calYear) \in Int /\ YearDays(calYear) \in {365, 366}
  BY <1>3, YearLasts DEF YearDays
<1>5. YearStart(calYear + 1) = YearStart(calYear) + YearDays(calYear)
  BY <1>3, YearLasts
<1>6. YearStart(Epoch) = 0
  BY DEF YearStart, CivilDay, Epoch
<1>7. CASE CalTold
  BY <1>1, <1>2, <1>6, <1>7
     DEF CalInv, CalTold, RoundKept, DateKept, BackKept, Epoch
<1>8. CASE YearPasses
  BY <1>1, <1>2, <1>3, <1>4, <1>5, <1>8
     DEF CalInv, YearPasses, RoundKept, DateKept, BackKept, Epoch
<1>9. CASE YearFound
  BY <1>1, <1>2, <1>3, <1>4, <1>5, <1>9
     DEF CalInv, YearFound, RoundKept, DateKept, BackKept, YearStart
<1>10. CASE MonthPasses
  <2>1. /\ calMonth \in 1 .. 12 /\ LocalTime[1] < YearStart(calYear + 1)
        /\ CivilDay(calYear, calMonth, 1) + calDays = LocalTime[1]
    BY <1>10 DEF CalInv, MonthPasses, RoundKept
  <2>2. /\ CivilDay(calYear, calMonth, 1) \in Int
        /\ MonthDays(calYear, calMonth) \in 28 .. 31
    BY <1>3, <2>1, MonthLasts
  <2>3. calDays >= MonthDays(calYear, calMonth)
    BY <1>3, <1>10, <2>2 DEF MonthPasses, InMonth
  <2>4. calMonth # 12
    BY <1>2, <1>3, <2>1, <2>2, <2>3, MonthLasts
  <2>5. calMonth < 12
    BY <2>1, <2>4
  <2>6. CivilDay(calYear, calMonth + 1, 1)
           = CivilDay(calYear, calMonth, 1) + MonthDays(calYear, calMonth)
    BY <1>3, <2>1, <2>5, MonthLasts
  <2>7. RoundKept'
    BY <1>1, <1>2, <1>3, <1>10, <2>1, <2>2, <2>3, <2>5, <2>6
       DEF MonthPasses, RoundKept
  <2> QED
    BY <1>1, <1>2, <1>3, <1>10, <2>1, <2>2, <2>3, <2>5, <2>7
       DEF CalInv, MonthPasses, DateKept, BackKept
<1>11. CASE MonthFound
  <2>1. /\ calMonth \in 1 .. 12
        /\ CivilDay(calYear, calMonth, 1) + calDays = LocalTime[1]
    BY <1>11 DEF CalInv, MonthFound, RoundKept
  <2>2. /\ MonthDays(calYear, calMonth) \in 28 .. 31
        /\ CivilDay(calYear, calMonth, 1) \in Int
    BY <1>3, <2>1, MonthLasts
  <2>3. calDays + 1 \in 1 .. MonthDays(calYear, calMonth)
    BY <1>3, <1>11, <2>2 DEF MonthFound, InMonth
  <2>4. CivilDay(calYear, calMonth, calDays + 1) = LocalTime[1]
    <3>1. calDays + 1 \in Int
      BY <1>3
    <3>2. CivilDay(calYear, calMonth, calDays + 1)
            = CivilDay(calYear, calMonth, 1) + (calDays + 1) - 1
      BY <1>3, <2>1, <3>1, DayOfMonth
    <3> QED BY <1>3, <2>1, <2>2, <3>2
  <2>5. LET s == LocalTime[2]
        IN  /\ s \div 3600 \in Nat /\ (s % 3600) \div 60 \in Nat
            /\ (s % 3600) % 60 \in Nat
            /\ ((s \div 3600) * 60 + (s % 3600) \div 60) * 60 + ((s % 3600) % 60) = s
    BY <1>2, SecondsCarry
  <2>6. /\ calDate'.yy = calYear /\ calDate'.mo = calMonth /\ calDate'.dd = calDays + 1
        /\ calDate'.hh = LocalTime[2] \div 3600
        /\ calDate'.mm = (LocalTime[2] % 3600) \div 60
        /\ calDate'.ss = (LocalTime[2] % 3600) % 60
        /\ calAt' = "told"
    BY <1>11 DEF MonthFound
  <2>7. DateKept'
    BY <1>1, <1>3, <2>1, <2>3, <2>4, <2>5, <2>6 DEF CalInv, DateKept, Epoch
  <2> QED
    BY <1>1, <1>11, <2>7 DEF CalInv, MonthFound, RoundKept, BackKept
<1>12. CASE CalAsksBack
  BY <1>1, <1>6, <1>12
     DEF CalInv, CalAsksBack, RoundKept, DateKept, BackKept, Epoch
<1>13. CASE LeapCounted
  <2>1. /\ calYear < calDate.yy /\ calDate.yy \in Nat /\ calDays <= calYear - Epoch
        /\ YearStart(calYear) = (calYear - Epoch) * 365 + calDays
    BY <1>13 DEF CalInv, LeapCounted, DateKept, BackKept
  <2>2. /\ calDays' \in Nat /\ calDays' <= calYear + 1 - Epoch
        /\ YearStart(calYear + 1) = (calYear + 1 - Epoch) * 365 + calDays'
    BY <1>3, <1>5, <1>13, <2>1 DEF LeapCounted, YearDays, Epoch
  <2>3. /\ calAt' = "leaps" /\ calYear' = calYear + 1 /\ calDate' = calDate
        /\ calBack' = NoDate /\ calYear + 1 <= calDate.yy
    BY <1>3, <1>13, <2>1 DEF CalInv, LeapCounted, BackKept
  <2>4. BackKept'
    BY <1>1, <1>3, <2>2, <2>3 DEF BackKept, Epoch
  <2>5. RoundKept'
    BY <2>3 DEF RoundKept
  <2>6. DateKept'
    BY <1>1, <1>13, <2>3 DEF CalInv, LeapCounted, DateKept
  <2>7. calMonth' = calMonth /\ calYear' \in Nat /\ calYear' >= Epoch
    BY <1>3, <1>13, <2>3 DEF CalInv, LeapCounted, Epoch
  <2> QED
    BY <1>1, <1>2, <2>2, <2>3, <2>4, <2>5, <2>6, <2>7 DEF CalInv
<1>14. CASE LeapsCounted
  <2>1. /\ calYear = calDate.yy /\ calDays <= calYear - Epoch /\ calYear >= Epoch
        /\ YearStart(calYear) = (calYear - Epoch) * 365 + calDays
        /\ calDate.mo \in 1 .. 12
    BY <1>3, <1>14 DEF CalInv, LeapsCounted, DateKept, BackKept
  <2>2. calDays' \in Nat /\ calDays' = YearStart(calDate.yy)
    BY <1>3, <1>14, <2>1 DEF LeapsCounted, Epoch
  <2>3. /\ calAt' = "days" /\ calMonth' = 1 /\ calDate' = calDate
        /\ calBack' = NoDate /\ 1 \in 1 .. calDate.mo + 1
    <3>1. calAt = "leaps" /\ calAt' = "days" /\ calMonth' = 1
          /\ calDate' = calDate /\ calBack' = calBack
      BY <1>14 DEF LeapsCounted
    <3>2. calBack = NoDate
      BY <3>1 DEF CalInv, BackKept
    <3>3. 1 \in 1 .. calDate.mo + 1
      BY <2>1
    <3> QED BY <3>1, <3>2, <3>3
  <2> QED
    BY <1>1, <1>14, <2>2, <2>3
       DEF CalInv, LeapsCounted, RoundKept, DateKept, BackKept
<1>15. CASE DaysAdded
  <2> DEFINE y == calDate.yy
  <2>1. /\ y \in Nat /\ y >= 1 /\ calDate.mo \in 1 .. 12
        /\ calMonth \in 1 .. calDate.mo
        /\ calDays = IF calMonth = 1 THEN YearStart(y) ELSE CivilDay(y, calMonth - 1, 1)
    BY <1>15 DEF CalInv, DaysAdded, DateKept, BackKept, Epoch
  <2>2. calDays' = calDays + DaysBefore(y, calMonth) /\ calMonth' = calMonth + 1
    BY <1>15 DEF DaysAdded
  <2>3. calDays' = CivilDay(y, calMonth, 1) /\ calDays' \in Nat
    <3>1. CASE calMonth = 1
      BY <1>3, <2>1, <2>2, <3>1 DEF DaysBefore, YearStart
    <3>2. CASE calMonth > 1
      <4>1. calMonth - 1 \in 1 .. 12 /\ calMonth - 1 < 12
        BY <2>1, <3>2
      <4>2. /\ CivilDay(y, calMonth - 1 + 1, 1)
                  = CivilDay(y, calMonth - 1, 1) + MonthDays(y, calMonth - 1)
            /\ DaysBefore(y, calMonth - 1 + 1) = MonthDays(y, calMonth - 1)
            /\ MonthDays(y, calMonth - 1) \in 28 .. 31
        BY <2>1, <4>1, MonthLasts
      <4>3. calMonth - 1 + 1 = calMonth
        BY <2>1
      <4> QED BY <1>3, <2>1, <2>2, <3>2, <4>2, <4>3
    <3> QED BY <2>1, <3>1, <3>2
  <2>4. /\ calAt' = "days" /\ calDate' = calDate /\ calBack' = NoDate
        /\ calMonth' - 1 = calMonth /\ calMonth' # 1
        /\ calMonth' \in 1 .. calDate.mo + 1
    <3>1. calAt' = "days" /\ calDate' = calDate /\ calBack' = NoDate
      BY <1>15 DEF CalInv, DaysAdded, BackKept
    <3> QED BY <2>1, <2>2, <3>1
  <2> QED
    BY <1>1, <1>15, <2>1, <2>3, <2>4
       DEF CalInv, DaysAdded, RoundKept, DateKept, BackKept
<1>16. CASE CalReturns
  <2> DEFINE d == calDate
  <2>1. /\ d.yy \in Nat /\ d.yy >= 1 /\ d.mo \in 1 .. 12 /\ d.dd \in Int
        /\ d.hh \in Nat /\ d.mm \in Nat /\ d.ss \in Nat
        /\ CivilDay(d.yy, d.mo, d.dd) = LocalTime[1]
        /\ (d.hh * 60 + d.mm) * 60 + d.ss = LocalTime[2]
    <3>1. d.yy \in Nat /\ d.yy >= 1 /\ d.mo \in 1 .. 12
      BY <1>16 DEF CalInv, CalReturns, DateKept, Epoch
    <3>2. d.dd \in 1 .. MonthDays(d.yy, d.mo) /\ MonthDays(d.yy, d.mo) \in 28 .. 31
      BY <1>16, <3>1, MonthLasts DEF CalInv, CalReturns, DateKept
    <3> QED BY <1>16, <3>1, <3>2 DEF CalInv, CalReturns, DateKept
  <2>2. calMonth = d.mo + 1 /\ calDays = CivilDay(d.yy, d.mo, 1)
    <3>1. /\ calMonth > d.mo /\ calMonth \in 1 .. d.mo + 1
          /\ calDays = IF calMonth = 1 THEN YearStart(d.yy)
                       ELSE CivilDay(d.yy, calMonth - 1, 1)
      BY <1>16 DEF CalInv, CalReturns, BackKept
    <3>2. calMonth = d.mo + 1 /\ calMonth - 1 = d.mo /\ calMonth # 1
      BY <2>1, <3>1
    <3> QED BY <3>1, <3>2
  <2>3. calDays + d.dd - 1 = LocalTime[1]
    BY <2>1, <2>2, DayOfMonth
  <2>4. d.ss + d.mm * 60 + d.hh * 3600 = LocalTime[2]
    BY <2>1
  <2>5. calBack' = TimeAt(LocalTime[1], LocalTime[2])
    BY <1>16, <2>3, <2>4 DEF CalReturns
  <2>6. calBack' = LocalTime
    <3>1. LocalTime[2] \div SecsPerDay = 0 /\ LocalTime[2] % SecsPerDay = LocalTime[2]
      BY <1>2, NotCarried
    <3> QED BY <1>2, <2>5, <3>1 DEF TimeAt
  <2> QED
    BY <1>1, <1>16, <2>6 DEF CalInv, CalReturns, RoundKept, DateKept, BackKept
<1>17. CASE UNCHANGED calVars
  BY <1>1, <1>17 DEF CalInv, RoundKept, DateKept, BackKept, calVars, calAsked
<1> QED
  BY <1>7, <1>8, <1>9, <1>10, <1>11, <1>12, <1>13, <1>14, <1>15, <1>16, <1>17
     DEF CalNext

LEMMA CalTells == CalInv => SntpDateIsCivil
<1> SUFFICES ASSUME CalInv PROVE SntpDateIsCivil
  OBVIOUS
<1>1. ASSUME calDate # NoDate
      PROVE  /\ CivilDate(calDate)
             /\ LocalTime = <<CivilDay(calDate.yy, calDate.mo, calDate.dd),
                              (calDate.hh * 60 + calDate.mm) * 60 + calDate.ss>>
  <2>1. calAt \in {"told", "leaps", "days", "back"}
    BY <1>1 DEF CalInv
  <2>2. /\ calDate.yy \in Nat /\ calDate.yy >= 1 /\ calDate.mo \in 1 .. 12
        /\ calDate.dd \in 1 .. MonthDays(calDate.yy, calDate.mo)
        /\ CivilDay(calDate.yy, calDate.mo, calDate.dd) = LocalTime[1]
        /\ (calDate.hh * 60 + calDate.mm) * 60 + calDate.ss = LocalTime[2]
    BY <2>1 DEF CalInv, DateKept, Epoch
  <2>3. CivilDate(calDate)
    <3> DEFINE next == IF calDate.mo = 12 THEN CivilDay(calDate.yy + 1, 1, 1)
                       ELSE CivilDay(calDate.yy, calDate.mo + 1, 1)
               first == CivilDay(calDate.yy, calDate.mo, 1)
    <3>1. first \in Int /\ MonthDays(calDate.yy, calDate.mo) \in 28 .. 31
      BY <2>2, MonthLasts
    <3>2. next = first + MonthDays(calDate.yy, calDate.mo)
      <4>1. CASE calDate.mo = 12
        BY <2>2, <4>1, MonthLasts DEF YearStart
      <4>2. CASE calDate.mo < 12
        BY <2>2, <4>2, MonthLasts
      <4> QED BY <2>2, <4>1, <4>2
    <3>3. next - first = MonthDays(calDate.yy, calDate.mo)
      BY <3>1, <3>2
    <3> HIDE DEF next, first
    <3>4. calDate.dd \in 1 .. next - first
      BY <2>2, <3>3
    <3> QED BY <2>2, <3>4 DEF CivilDate, next, first
  <2>4. LocalTime = <<LocalTime[1], LocalTime[2]>>
    BY DEF CalInv
  <2> QED BY <2>2, <2>3, <2>4
<1> QED BY <1>1 DEF CalInv, BackKept, SntpDateIsCivil

(* Whatever the day, the second and the time zone, the date that           *)
(* calcdatetime tells the application is that of the Gregorian calendar,   *)
(* and changedatetime_to_seconds leads back to the time it came from.      *)
THEOREM DatesAreCivil == CalSpec => []SntpDateIsCivil
BY CalStarts, CalSteps, CalTells, PTL DEF CalSpec

(* The types of the calendar.                                              *)
CalShaped ==
  /\ calNtp \in Nat \X (0 .. SecsPerDay - 1) /\ calZone \in CalZones
  /\ calMonth \in 1 .. 13
  /\ calDate = NoDate \/ DOMAIN calDate = {"yy", "mo", "dd", "hh", "mm", "ss"}

LEMMA CalShapedInit == CalInit => CalShaped
<1> SUFFICES ASSUME CalInit PROVE CalShaped
  OBVIOUS
<1>1. calNtp \in CalDays \X CalSeconds /\ calZone \in CalZones
  BY DEF CalInit
<1>2. CalDays \subseteq Nat /\ CalSeconds \subseteq 0 .. SecsPerDay - 1
  BY CalAssumption
<1>3. calNtp \in Nat \X (0 .. SecsPerDay - 1)
  BY <1>1, <1>2
<1> QED BY <1>1, <1>3 DEF CalInit, CalShaped

LEMMA CalShapedStep == CalInv /\ CalShaped /\ [CalNext]_calVars => CalShaped'
<1> SUFFICES ASSUME CalInv, CalShaped, [CalNext]_calVars PROVE CalShaped'
  OBVIOUS
<1>1. UNCHANGED calAsked
  BY DEF CalNext, CalTold, YearPasses, YearFound, MonthPasses, MonthFound,
         CalAsksBack, LeapCounted, LeapsCounted, DaysAdded, CalReturns,
         calVars, calAsked
<1>2. calNtp' = calNtp /\ calZone' = calZone
  BY <1>1 DEF calAsked
<1>3. calMonth' \in 1 .. 13
  <2>1. CASE MonthPasses
    <3>1. calMonth \in 1 .. 12 /\ calMonth' = calMonth + 1
      BY <2>1 DEF CalInv, RoundKept, MonthPasses
    <3> QED BY <3>1
  <2>2. CASE DaysAdded
    <3>1. /\ calMonth \in Nat /\ calMonth <= calDate.mo /\ calDate.mo \in 1 .. 12
          /\ calMonth' = calMonth + 1
      BY <2>2 DEF CalInv, DateKept, DaysAdded
    <3> QED BY <3>1
  <2>3. CASE ~MonthPasses /\ ~DaysAdded
    <3>1. calMonth' \in {1, calMonth}
      BY <2>3 DEF CalNext, CalTold, YearPasses, YearFound, MonthFound, CalAsksBack,
             LeapCounted, LeapsCounted, CalReturns, calVars
    <3> QED BY <3>1 DEF CalShaped
  <2> QED BY <2>1, <2>2, <2>3
<1>4. calDate' = NoDate \/ DOMAIN calDate' = {"yy", "mo", "dd", "hh", "mm", "ss"}
  <2>1. CASE MonthFound
    BY <2>1 DEF MonthFound
  <2>2. CASE ~MonthFound
    <3>1. calDate' = calDate
      BY <2>2 DEF CalNext, CalTold, YearPasses, YearFound, MonthPasses, CalAsksBack,
             LeapCounted, LeapsCounted, DaysAdded, CalReturns, calVars
    <3> QED BY <3>1 DEF CalShaped, NoDate
  <2> QED BY <2>1, <2>2
<1> QED BY <1>2, <1>3, <1>4 DEF CalShaped

LEMMA CalIsTyped == CalInv /\ CalShaped => CalTypeOK
<1> SUFFICES ASSUME CalInv, CalShaped PROVE CalTypeOK
  OBVIOUS
<1>1. LocalTime \in Nat \X (0 .. SecsPerDay - 1)
  <2>1. /\ LocalTime[1] \in Nat /\ LocalTime[2] \in 0 .. SecsPerDay - 1
        /\ LocalTime = <<LocalTime[1], LocalTime[2]>>
    <3>1. \A n, s \in Nat : s < n => s \in 0 .. n - 1
      OBVIOUS
    <3>2. SecsPerDay \in Nat
      BY DEF SecsPerDay
    <3> QED BY <3>1, <3>2 DEF CalInv
  <2> QED BY <2>1
<1>2. calBack = NoDate \/ calBack \in Nat \X (0 .. SecsPerDay - 1)
  BY <1>1 DEF CalInv, BackKept
<1> QED BY <1>2 DEF CalInv, CalShaped, CalTypeOK
-----------------------------------------------------------------------------
(***************************************************************************)
(* DnsMessage.  What the reply holds where the server has put it, and what *)
(* is left of a name at every place parse_name's loop comes to.            *)
(***************************************************************************)
Byte == 0 .. 255

NameShaped(name) ==
  /\ name.chars \in Nat /\ 0 < name.chars /\ name.chars < Pointer
  /\ name.dots \subseteq 2 .. name.chars - 1
  /\ \A d \in name.dots : d + 1 \notin name.dots

(* A label has at least one letter, and its end is where the next one      *)
(* starts or the name ends.                                                *)
LEMMA LabelsEnd ==
  ASSUME NEW name, NameShaped(name), NEW s \in LabelStarts(name)
  PROVE  /\ LabelEnd(name, s) \in LabelEnds(name)
         /\ LabelEnd(name, s) \in Nat /\ LabelEnd(name, s) > s + 1
         /\ LabelEnd(name, s) <= Size(name) /\ s \in Nat /\ s < Size(name)
<1> DEFINE later == {e \in LabelEnds(name) : e > s}
           end == LabelEnd(name, s)
<1>1. /\ Size(name) \in Nat /\ s \in Nat /\ s < Size(name)
      /\ \A e \in LabelEnds(name) : e \in Nat /\ e <= Size(name)
  BY DEF NameShaped, LabelStarts, LabelEnds, Size
<1>2. later \subseteq Nat /\ Size(name) \in later
  BY <1>1 DEF LabelEnds
<1>3. PICK m \in later : \A y \in later : ~ (<<y, m>> \in OpToRel(<, Nat))
  BY <1>2, WFMin, NatLessThanWellFounded
<1>4. \A y \in later : m <= y
  <2> TAKE y \in later
  <2>1. m \in Nat /\ y \in Nat /\ ~ (<<y, m>> \in OpToRel(<, Nat))
    BY <1>2, <1>3
  <2> HIDE DEF later
  <2>2. ~ (y < m)
    BY <2>1 DEF OpToRel
  <2>3. m \in Nat /\ y \in Nat
    BY <2>1
  <2> QED BY <2>2, <2>3
<1>5. \E e \in LabelEnds(name) : e > s /\ \A f \in LabelEnds(name) : f > s => e <= f
  BY <1>4
<1>6. end \in LabelEnds(name) /\ end > s
  BY <1>5 DEF LabelEnd
<1>7. end # s + 1
  BY <1>1, <1>6 DEF NameShaped, LabelStarts, LabelEnds, Size
<1> HIDE DEF end
<1>8. end > s + 1
  BY <1>1, <1>6, <1>7
<1> QED BY <1>1, <1>6, <1>8 DEF end

(* The octets of a name: a length at every start, a 0 at the end.          *)
LEMMA NameIsOctets ==
  ASSUME NEW name, NameShaped(name)
  PROVE  /\ \A s \in LabelStarts(name) :
              /\ NameOctet(name, s) = LabelEnd(name, s) - s - 1
              /\ NameOctet(name, s) \in 1 .. Pointer - 1
         /\ NameOctet(name, Size(name)) = 0
         /\ \A i \in 0 .. Size(name) : NameOctet(name, i) \in Byte
         /\ 0 \in LabelStarts(name) /\ Size(name) \notin LabelStarts(name)
         /\ Size(name) \in Nat /\ 1 < Size(name) /\ Size(name) <= Pointer
         /\ WholeName(name) \in Seq(Byte) /\ Len(WholeName(name)) = Size(name) + 1
<1>0. Pointer = 192
  BY DEF Pointer
<1>1. Size(name) \in Nat /\ 1 < Size(name) /\ Size(name) <= Pointer
  BY <1>0 DEF NameShaped, Size
<1>2. Size(name) \notin LabelStarts(name) /\ 0 \in LabelStarts(name)
  BY LabelsEnd, <1>1 DEF LabelStarts
<1>3. ASSUME NEW s \in LabelStarts(name)
      PROVE  /\ NameOctet(name, s) = LabelEnd(name, s) - s - 1
             /\ NameOctet(name, s) \in 1 .. Pointer - 1
  <2>1. NameOctet(name, s) = LabelEnd(name, s) - s - 1
    BY <1>2 DEF NameOctet
  <2> QED BY <1>0, <1>1, <2>1, LabelsEnd
<1>4. NameOctet(name, Size(name)) = 0
  BY <1>2 DEF NameOctet
<1>5. \A i \in 0 .. Size(name) : NameOctet(name, i) \in Byte
  <2> TAKE i \in 0 .. Size(name)
  <2>1. CASE i \notin LabelStarts(name)
    BY <2>1 DEF NameOctet, Letter, Byte
  <2>2. CASE i \in LabelStarts(name)
    BY <1>0, <1>3, <2>2 DEF Byte
  <2> QED BY <2>1, <2>2
<1>6. \A i \in 1 .. Size(name) + 1 : NameOctet(name, i - 1) \in Byte
  BY <1>1, <1>5
<1>7. WholeName(name) \in Seq(Byte) /\ Len(WholeName(name)) = Size(name) + 1
  BY <1>1, <1>6 DEF WholeName
<1> QED BY <1>1, <1>2, <1>3, <1>4, <1>5, <1>7

-----------------------------------------------------------------------------
\* The message has these octets from an offset on.
Holds(msg, at, octets) ==
  /\ at \in Nat /\ at + Len(octets) <= Len(msg)
  /\ \A k \in 1 .. Len(octets) : msg[at + k] = octets[k]

LEMMA HoldsMore ==
  ASSUME NEW msg \in Seq(Byte), NEW more \in Seq(Byte), NEW at,
         NEW octets \in Seq(Byte), Holds(msg, at, octets)
  PROVE  Holds(msg \o more, at, octets)
BY DEF Holds

LEMMA HoldsLast ==
  ASSUME NEW msg \in Seq(Byte), NEW more \in Seq(Byte)
  PROVE  /\ Holds(msg \o more, Len(msg), more)
         /\ msg \o more \in Seq(Byte) /\ Len(msg \o more) = Len(msg) + Len(more)
BY DEF Holds

LEMMA HoldsParts ==
  ASSUME NEW msg \in Seq(Byte), NEW a \in Seq(Byte), NEW b \in Seq(Byte),
         NEW at, Holds(msg, at, a \o b)
  PROVE  Holds(msg, at, a) /\ Holds(msg, at + Len(a), b)
<1>1. /\ Len(a) \in Nat /\ Len(b) \in Nat /\ Len(a \o b) = Len(a) + Len(b)
      /\ Len(msg) \in Nat /\ at \in Nat
  BY DEF Holds
<1>2. \A k \in 1 .. Len(a) : (a \o b)[k] = a[k]
  BY <1>1
<1>3. \A k \in 1 .. Len(b) : (a \o b)[Len(a) + k] = b[k]
  BY <1>1
<1>4. \A k \in 1 .. Len(b) : msg[at + Len(a) + k] = b[k]
  <2> TAKE k \in 1 .. Len(b)
  <2>1. Len(a) + k \in 1 .. Len(a \o b) /\ at + (Len(a) + k) = at + Len(a) + k
    BY <1>1
  <2> QED BY <1>3, <2>1 DEF Holds
<1>5. Holds(msg, at, a)
  <2>1. at + Len(a) <= Len(msg) /\ at + Len(a \o b) <= Len(msg)
    BY <1>1 DEF Holds
  <2>2. \A k \in 1 .. Len(a) : k \in 1 .. Len(a \o b)
    BY <1>1
  <2>3. \A k \in 1 .. Len(a) : msg[at + k] = a[k]
    BY <1>2, <2>2 DEF Holds
  <2> QED BY <1>1, <2>1, <2>3 DEF Holds
<1>6. at + Len(a) \in Nat /\ at + Len(a) + Len(b) <= Len(msg)
  BY <1>1 DEF Holds
<1> QED BY <1>4, <1>5, <1>6 DEF Holds

OctetIn(msg, i) == IF i < Len(msg) THEN msg[i + 1] ELSE 0

LEMMA AtHeld ==
  ASSUME NEW msg \in Seq(Byte), NEW at, NEW octets \in Seq(Byte),
         Holds(msg, at, octets), NEW i \in Nat, i < Len(octets)
  PROVE  OctetIn(msg, at + i) = octets[i + 1]
<1>1. at \in Nat /\ Len(octets) \in Nat /\ Len(msg) \in Nat
      /\ at + Len(octets) <= Len(msg)
  BY DEF Holds
<1>2. i + 1 \in 1 .. Len(octets) /\ at + (i + 1) = at + i + 1 /\ at + i < Len(msg)
  BY <1>1
<1>3. msg[at + (i + 1)] = octets[i + 1]
  BY <1>2 DEF Holds
<1> QED BY <1>2, <1>3 DEF OctetIn

LEMMA AtOctet ==
  ASSUME NEW msg \in Seq(Byte), NEW i \in Nat
  PROVE  OctetIn(msg, i) \in Byte /\ OctetIn(msg, i) \in Nat
<1>1. CASE i < Len(msg)
  <2>1. i + 1 \in 1 .. Len(msg)
    BY <1>1
  <2>2. msg[i + 1] \in Byte
    BY <2>1, ElementOfSeq
  <2>3. OctetIn(msg, i) = msg[i + 1]
    BY <1>1 DEF OctetIn
  <2>4. OctetIn(msg, i) \in 0 .. 255
    BY <2>2, <2>3 DEF Byte
  <2>5. \A x \in 0 .. 255 : x \in Byte /\ x \in Nat
    BY DEF Byte
  <2> QED BY <2>4, <2>5
<1>2. CASE ~ (i < Len(msg))
  BY <1>2 DEF OctetIn, Byte
<1> QED BY <1>1, <1>2

-----------------------------------------------------------------------------
(* What may stand at a place of the message: the name from one of its      *)
(* starts on, a pointer to it, a label before that, or a pointer to both.  *)
TailAt(msg, name, pos, s) ==
  /\ s \in LabelStarts(name) \cup {Size(name)}
  /\ \A i \in s .. Size(name) : OctetIn(msg, pos + (i - s)) = NameOctet(name, i)
PointerAt(msg, name, pos) ==
  OctetIn(msg, pos) = Pointer /\ TailAt(msg, name, OctetIn(msg, pos + 1), 0)
JoinedAt(msg, name, pos) == OctetIn(msg, pos) = 1 /\ PointerAt(msg, name, pos + 2)
PointerToJoined(msg, name, pos) ==
  OctetIn(msg, pos) = Pointer /\ JoinedAt(msg, name, OctetIn(msg, pos + 1))

\* The name at a place, or what is left of it, takes so many octets there and
\* so many in parse_name's buffer.
NameAt(msg, name, pos, octets, size) ==
  \/ \E s \in 0 .. Size(name) :
       TailAt(msg, name, pos, s) /\ size = Size(name) - s /\ octets = size + 1
  \/ PointerAt(msg, name, pos) /\ octets = 2 /\ size = Size(name)
  \/ JoinedAt(msg, name, pos) /\ octets = 4 /\ size = Size(name) + 2
  \/ PointerToJoined(msg, name, pos) /\ octets = 2 /\ size = Size(name) + 2

LEMMA WholeRead ==
  ASSUME NEW name, NameShaped(name), NEW msg \in Seq(Byte), NEW at,
         Holds(msg, at, WholeName(name))
  PROVE  TailAt(msg, name, at, 0)
<1>1. /\ WholeName(name) \in Seq(Byte) /\ Len(WholeName(name)) = Size(name) + 1
      /\ Size(name) \in Nat /\ 0 \in LabelStarts(name)
  BY NameIsOctets
<1>2. ASSUME NEW i \in 0 .. Size(name)
      PROVE  OctetIn(msg, at + (i - 0)) = NameOctet(name, i)
  <2>1. i \in Nat /\ i < Len(WholeName(name)) /\ i - 0 = i /\ i + 1 - 1 = i
        /\ i + 1 \in 1 .. Size(name) + 1
    BY <1>1
  <2>2. OctetIn(msg, at + i) = WholeName(name)[i + 1]
    BY <1>1, <2>1, AtHeld
  <2> QED BY <2>1, <2>2 DEF WholeName
<1> QED BY <1>1, <1>2 DEF TailAt

(* One round of parse_name's loop in a name that is as it should be: the   *)
(* name is at its end, or a label of it is passed, behind a pointer or     *)
(* not.                                                                    *)
LEMMA TailRound ==
  ASSUME NEW name, NameShaped(name), NEW msg \in Seq(Byte), NEW pos \in Nat,
         NEW s \in LabelStarts(name), TailAt(msg, name, pos, s)
  PROVE  LET slen == OctetIn(msg, pos)
             e    == LabelEnd(name, s)
         IN  /\ slen = e - s - 1 /\ slen \in 1 .. Pointer - 1 /\ e \in 0 .. Size(name)
             /\ TailAt(msg, name, pos + 1 + slen, e)
<1> DEFINE slen == OctetIn(msg, pos)
           e    == LabelEnd(name, s)
<1>1. /\ e \in LabelEnds(name) /\ e \in Nat /\ e > s + 1 /\ e <= Size(name)
      /\ s \in Nat /\ s < Size(name) /\ Size(name) \in Nat
  BY LabelsEnd, NameIsOctets
<1>2. slen = NameOctet(name, s)
  <2>1. s \in s .. Size(name) /\ pos + (s - s) = pos
    BY <1>1
  <2> QED BY <2>1 DEF TailAt
<1>3. slen = e - s - 1 /\ slen \in 1 .. Pointer - 1
  BY <1>2, NameIsOctets
<1>4. e \in LabelStarts(name) \cup {Size(name)}
  BY <1>1 DEF LabelEnds, LabelStarts
<1> HIDE DEF e, slen
<1>5. ASSUME NEW i \in e .. Size(name)
      PROVE  OctetIn(msg, pos + 1 + slen + (i - e)) = NameOctet(name, i)
  <2>1. i \in s .. Size(name) /\ pos + (i - s) = pos + 1 + slen + (i - e)
    BY <1>1, <1>3
  <2>2. OctetIn(msg, pos + (i - s)) = NameOctet(name, i)
    BY <2>1 DEF TailAt
  <2> QED BY <2>1, <2>2
<1>6. TailAt(msg, name, pos + 1 + slen, e)
  BY <1>4, <1>5 DEF TailAt
<1>7. e \in 0 .. Size(name)
  BY <1>1
<1> QED BY <1>3, <1>6, <1>7 DEF e, slen

LEMMA NameRound ==
  ASSUME NEW name, NameShaped(name), NEW msg \in Seq(Byte), NEW pos \in Nat,
         NEW octets, NEW size, NameAt(msg, name, pos, octets, size)
  PROVE  LET first == OctetIn(msg, pos)
             jumps == first >= Pointer
             at    == IF jumps THEN (first - Pointer) * 256 + OctetIn(msg, pos + 1) ELSE pos
             slen  == OctetIn(msg, at)
         IN  /\ octets \in Nat /\ size \in Nat /\ at \in Nat
             /\ \/ slen = 0 /\ ~jumps /\ octets = 1 /\ size = 0
                \/ /\ slen \in Nat /\ slen # 0 /\ slen + 1 <= size
                   /\ jumps => octets = 2
                   /\ \E left \in Nat :
                        /\ NameAt(msg, name, at + 1 + slen, left, size - slen - 1)
                        /\ ~jumps => octets = 1 + slen + left
<1> DEFINE first == OctetIn(msg, pos)
           jumps == first >= Pointer
           at    == IF jumps THEN (first - Pointer) * 256 + OctetIn(msg, pos + 1) ELSE pos
           slen  == OctetIn(msg, at)
           n     == Size(name)
<1>0. Pointer = 192
  BY DEF Pointer
<1>1. /\ n \in Nat /\ 1 < n /\ n \notin LabelStarts(name) /\ 0 \in LabelStarts(name)
      /\ NameOctet(name, n) = 0
  BY NameIsOctets
<1>2. \A i \in Nat : OctetIn(msg, i) \in Nat
  BY AtOctet
<1>3. ASSUME NEW s \in 0 .. n, TailAt(msg, name, pos, s), size = n - s, octets = size + 1
      PROVE  /\ octets \in Nat /\ size \in Nat /\ at \in Nat
             /\ \/ slen = 0 /\ ~jumps /\ octets = 1 /\ size = 0
                \/ /\ slen \in Nat /\ slen # 0 /\ slen + 1 <= size
                   /\ jumps => octets = 2
                   /\ \E left \in Nat :
                        /\ NameAt(msg, name, at + 1 + slen, left, size - slen - 1)
                        /\ ~jumps => octets = 1 + slen + left
  <2>1. CASE s = n
    <3>1. first = 0
      <4>1. n \in s .. n /\ pos + (n - s) = pos
        BY <1>1, <2>1
      <4> QED BY <1>1, <1>3, <4>1 DEF TailAt
    <3> QED BY <1>0, <1>1, <1>3, <2>1, <3>1
  <2>2. CASE s # n
    <3> DEFINE e == LabelEnd(name, s)
    <3>1. s \in LabelStarts(name)
      BY <1>3, <2>2 DEF TailAt
    <3>2. /\ first = e - s - 1 /\ first \in 1 .. Pointer - 1 /\ e \in 0 .. n
          /\ TailAt(msg, name, pos + 1 + first, e)
      BY <1>3, <3>1, TailRound
    <3> HIDE DEF e
    <3>3. ~jumps /\ at = pos /\ slen = first
      BY <1>0, <3>2
    <3> HIDE DEF first, jumps, at, slen
    <3>4. NameAt(msg, name, at + 1 + slen, n - e + 1, n - e)
      BY <1>1, <3>2, <3>3 DEF NameAt
    <3>5. n - e + 1 \in Nat /\ n - e = size - slen - 1 /\ octets = 1 + slen + (n - e + 1)
      BY <1>1, <1>3, <3>2, <3>3
    <3>6. slen \in Nat /\ slen # 0 /\ slen + 1 <= size /\ size \in Nat /\ octets \in Nat
          /\ at \in Nat
      BY <1>0, <1>1, <1>3, <3>2, <3>3
    <3> QED BY <3>3, <3>4, <3>5, <3>6
  <2> QED BY <2>1, <2>2
<1>4. ASSUME PointerAt(msg, name, pos), octets = 2, size = n
      PROVE  /\ octets \in Nat /\ size \in Nat /\ at \in Nat /\ jumps
             /\ slen \in Nat /\ slen # 0 /\ slen + 1 <= size
             /\ \E left \in Nat : NameAt(msg, name, at + 1 + slen, left, size - slen - 1)
  <2> DEFINE e == LabelEnd(name, 0)
  <2>1. first = 192 /\ OctetIn(msg, pos + 1) \in Nat /\ TailAt(msg, name, OctetIn(msg, pos + 1), 0)
    <3> HIDE DEF jumps, at, slen
    <3> QED BY <1>0, <1>2, <1>4 DEF PointerAt
  <2>a. jumps /\ at = OctetIn(msg, pos + 1) /\ at \in Nat /\ TailAt(msg, name, at, 0)
    <3> HIDE DEF first
    <3> QED BY <1>0, <2>1
  <2>2. /\ slen = e - 0 - 1 /\ slen \in 1 .. Pointer - 1 /\ e \in 0 .. n
        /\ TailAt(msg, name, at + 1 + slen, e)
    BY <1>1, <2>a, TailRound
  <2> HIDE DEF first, jumps, at, slen, e
  <2>3. NameAt(msg, name, at + 1 + slen, n - e + 1, n - e)
    BY <1>1, <2>2 DEF NameAt
  <2>4. n - e + 1 \in Nat /\ n - e = size - slen - 1
    BY <1>1, <1>4, <2>2
  <2> QED BY <1>0, <1>1, <1>4, <2>a, <2>2, <2>3, <2>4
<1>5. ASSUME JoinedAt(msg, name, pos), octets = 4, size = n + 2
      PROVE  /\ ~jumps /\ at = pos /\ slen = 1
             /\ NameAt(msg, name, at + 1 + slen, 2, size - slen - 1)
  <2>1. ~jumps /\ at = pos /\ slen = 1 /\ PointerAt(msg, name, pos + 2)
    BY <1>0, <1>5 DEF JoinedAt
  <2>2. pos + 1 + 1 = pos + 2 /\ size - 1 - 1 = n
    BY <1>1, <1>5
  <2> QED BY <2>1, <2>2 DEF NameAt
<1>6. ASSUME PointerToJoined(msg, name, pos), octets = 2, size = n + 2
      PROVE  /\ jumps /\ at \in Nat /\ slen = 1
             /\ NameAt(msg, name, at + 1 + slen, 2, size - slen - 1)
  <2>a. first = 192 /\ OctetIn(msg, pos + 1) \in Nat /\ JoinedAt(msg, name, OctetIn(msg, pos + 1))
    <3> HIDE DEF jumps, at, slen
    <3> QED BY <1>0, <1>2, <1>6 DEF PointerToJoined
  <2>b. jumps /\ at = OctetIn(msg, pos + 1) /\ at \in Nat
    <3> HIDE DEF first
    <3> QED BY <1>0, <2>a
  <2>1. jumps /\ at \in Nat /\ slen = 1 /\ PointerAt(msg, name, at + 2)
    <3> HIDE DEF at, jumps
    <3> QED BY <2>a, <2>b DEF JoinedAt
  <2> HIDE DEF at, slen, jumps, first
  <2>2. at + 1 + 1 = at + 2 /\ size - 1 - 1 = n
    BY <1>1, <1>6, <2>1
  <2> QED BY <2>1, <2>2 DEF NameAt
<1> HIDE DEF first, jumps, at, slen
<1>7. NameAt(msg, name, pos, octets, size)
  OBVIOUS
<1> SUFFICES
      /\ octets \in Nat /\ size \in Nat /\ at \in Nat
      /\ \/ slen = 0 /\ ~jumps /\ octets = 1 /\ size = 0
         \/ /\ slen \in Nat /\ slen # 0 /\ slen + 1 <= size
            /\ jumps => octets = 2
            /\ \E left \in Nat :
                 /\ NameAt(msg, name, at + 1 + slen, left, size - slen - 1)
                 /\ ~jumps => octets = 1 + slen + left
  BY DEF first, jumps, at, slen
<1>8. CASE PointerAt(msg, name, pos) /\ octets = 2 /\ size = n
  BY <1>4, <1>8
<1>9. CASE JoinedAt(msg, name, pos) /\ octets = 4 /\ size = n + 2
  <2>1. octets \in Nat /\ size \in Nat /\ slen \in Nat /\ slen # 0 /\ slen + 1 <= size
        /\ octets = 1 + slen + 2
    BY <1>1, <1>5, <1>9
  <2> QED BY <1>5, <1>9, <2>1
<1>10. CASE PointerToJoined(msg, name, pos) /\ octets = 2 /\ size = n + 2
  <2>1. octets \in Nat /\ size \in Nat /\ slen \in Nat /\ slen # 0 /\ slen + 1 <= size
    BY <1>1, <1>6, <1>10
  <2> QED BY <1>6, <1>10, <2>1
<1>11. CASE \E s \in 0 .. n : TailAt(msg, name, pos, s) /\ size = n - s /\ octets = size + 1
  BY <1>3, <1>11
<1> QED
  BY <1>7, <1>8, <1>9, <1>10, <1>11 DEF NameAt
-----------------------------------------------------------------------------
\* Where the record behind the first i starts, or the message ends.
RecordEnd(i) == IF i < Len(dmAnswers) THEN dmStarts[i + 1] ELSE Len(dmMsg)
AnswerAt(i) == AnswerOctets(dmAnswers[i], dmName, dmStarts[1])

(* The message holds the question and behind it, one after the other, the  *)
(* records; the first has nothing to point to.                             *)
MessageKept ==
  /\ Holds(dmMsg, HeaderLen, Question(dmName))
  /\ \A i \in DOMAIN dmAnswers :
       /\ Holds(dmMsg, dmStarts[i], AnswerAt(i))
       /\ RecordEnd(i) = dmStarts[i] + Len(AnswerAt(i))
  /\ RecordEnd(0) = HeaderLen + Size(dmName) + 5
  /\ dmAnswers # <<>> => dmAnswers[1].form # "first"

DmKept ==
  /\ DmTypeOK
  /\ MessageKept
  /\ dmAt = "server" => dmRead = 0 /\ dmIp = Unwritten
  /\ dmAt = "name" /\ dmFor # "question" => dmRead < Len(dmAnswers)

-----------------------------------------------------------------------------
(* The record that is read, and the name parse_name was called for: where  *)
(* it is, and what it takes there and in the buffer.                       *)
InHand == dmAnswers[dmRead + 1]
OwnerLen == Len(NameOctets(InHand.form, dmName, dmStarts[1]))
DataAt == dmStarts[dmRead + 1] + OwnerLen + 10

CalledAt ==
  CASE dmFor = "question" -> HeaderLen
    [] dmFor = "owner" -> dmStarts[dmRead + 1]
    [] dmFor = "data"  -> IF InHand.type = "MX" THEN DataAt + 2 ELSE DataAt
    [] dmFor = "mname" -> DataAt
    [] dmFor = "rname" -> DataAt + 4
CalledLen ==
  CASE dmFor = "question" -> Size(dmName) + 1
    [] dmFor = "owner" -> OwnerLen
    [] OTHER -> 4
CalledSize ==
  CASE dmFor = "question" -> NameSize("whole", dmName)
    [] dmFor = "owner" -> NameSize(InHand.form, dmName)
    [] OTHER -> NameSize("joined", dmName)

Remains(octets, size) ==
  /\ NameAt(dmMsg, dmName, dmIn, octets, size)
  /\ dmRoom + CalledSize = DmNameMax + size
  /\ dmLen + (IF dmJumped THEN 0 ELSE octets) = CalledLen

NameKept ==
  /\ dmCp = CalledAt
  /\ dmFor = "question" => dmRead = 0
  /\ dmFor = "data" => InHand.type \in {"CNAME", "MX"}
  /\ dmFor \in {"mname", "rname"} => InHand.type = "SOA"
  /\ dmFor \in {"data", "mname", "rname"} => NameSize(InHand.form, dmName) <= DmNameMax
  /\ dmFor = "rname" => NameSize("joined", dmName) <= DmNameMax
  /\ \E octets, size \in Nat : Remains(octets, size)

(* What parseDNSMSG knows of the records it has read.                      *)
AddressIs(ip, read) ==
  \/ ip = Unwritten /\ \A j \in 1 .. read : dmAnswers[j].type # "A"
  \/ \E i \in 1 .. read :
       /\ dmAnswers[i].type = "A" /\ ip = dmAnswers[i].address
       /\ \A j \in i + 1 .. read : dmAnswers[j].type # "A"
SoFar ==
  /\ \A i \in 1 .. dmRead : RecordFits(dmAnswers[i])
  /\ AddressIs(dmIp, dmRead)

ParserKept ==
  /\ dmAt = "name" => NameKept /\ SoFar
  /\ dmAt = "answers" => SoFar /\ (dmRead < Len(dmAnswers) => dmCp = dmStarts[dmRead + 1])
  /\ dmAt = "done" =>
       IF dmResult = -1 THEN ~ NamesFit
       ELSE SoFar /\ dmRead = Len(dmAnswers) /\ dmResult = (IF dmFailed THEN 0 ELSE 1)

DmInd == DmKept /\ (Readable => ParserKept)
-----------------------------------------------------------------------------
LEMMA OctetsJoin ==
  \A a, b \in Seq(Byte) : a \o b \in Seq(Byte) /\ Len(a \o b) = Len(a) + Len(b)
OBVIOUS

(* What a server writes are octets.                                        *)
LEMMA FormIsOctets ==
  ASSUME NEW name, NameShaped(name), NEW form \in Forms, NEW first,
         form = "first" => first \in Byte
  PROVE  /\ NameOctets(form, name, first) \in Seq(Byte)
         /\ Len(NameOctets(form, name, first)) \in Nat
         /\ form = "whole" => Len(NameOctets(form, name, first)) = Size(name) + 1
         /\ form = "joined" => Len(NameOctets(form, name, first)) = 4
         /\ form \in {"pointer", "first"} => Len(NameOctets(form, name, first)) = 2
<1>1. Pointer \in Byte /\ HeaderLen \in Byte /\ Letter \in Byte /\ 1 \in Byte
  BY DEF Pointer, HeaderLen, Letter, Byte
<1>2. CASE form = "whole"
  BY <1>2, NameIsOctets DEF NameOctets
<1>3. CASE form = "pointer"
  BY <1>1, <1>3 DEF NameOctets
<1>4. CASE form = "joined"
  BY <1>1, <1>4 DEF NameOctets, JoinedName
<1>5. CASE form = "first"
  BY <1>1, <1>5 DEF NameOctets
<1> QED BY <1>2, <1>3, <1>4, <1>5 DEF Forms

LEMMA RecordIs ==
  ASSUME NEW record \in Records
  PROVE  /\ record.form \in Forms /\ record.type \in DOMAIN DmTypes
         /\ record.type \in {"A", "CNAME", "SOA", "HINFO", "MX", "TXT"}
         /\ record.type # "A" => record.address = Unwritten
         /\ record.type = "A" => record.address \in {1, 2}
         /\ record.address \in Byte
BY DEF Records, DmTypes, Unwritten, Byte

LEMMA DataIsOctets ==
  ASSUME NEW record \in Records
  PROVE  /\ RecordData(record) \in Seq(Byte)
         /\ Len(RecordData(record)) =
              CASE record.type \in {"A", "CNAME"} -> 4
                [] record.type = "SOA"   -> 28
                [] record.type = "HINFO" -> 5
                [] record.type = "MX"    -> 6
                [] record.type = "TXT"   -> 2
<1>1. /\ Pointer \in Byte /\ HeaderLen \in Byte /\ Letter \in Byte
      /\ 0 \in Byte /\ 1 \in Byte /\ 2 \in Byte
  BY DEF Pointer, HeaderLen, Letter, Byte
<1>2. record.address \in Byte
  BY RecordIs
<1>3. JoinedName \in Seq(Byte) /\ Len(JoinedName) = 4
  BY <1>1 DEF JoinedName
<1>4. ASSUME NEW octet \in Byte, NEW n \in Nat
      PROVE  Repeat(octet, n) \in Seq(Byte) /\ Len(Repeat(octet, n)) = n
  BY <1>4 DEF Repeat
<1>5. CASE record.type = "A"
  BY <1>2, <1>4, <1>5 DEF RecordData
<1>6. CASE record.type = "CNAME"
  BY <1>3, <1>6 DEF RecordData
<1>7. CASE record.type = "SOA"
  <2>1. Repeat(0, 20) \in Seq(Byte) /\ Len(Repeat(0, 20)) = 20
    BY <1>1, <1>4
  <2>2. JoinedName \o JoinedName \in Seq(Byte) /\ Len(JoinedName \o JoinedName) = 8
    <3>1. JoinedName \o JoinedName \in Seq(Byte)
      BY <1>3
    <3>2. Len(JoinedName \o JoinedName) = Len(JoinedName) + Len(JoinedName)
      BY <1>3, OctetsJoin
    <3> QED BY <1>3, <3>1, <3>2
  <2>3. /\ (JoinedName \o JoinedName) \o Repeat(0, 20) \in Seq(Byte)
        /\ Len((JoinedName \o JoinedName) \o Repeat(0, 20)) = 28
    <3> DEFINE names == JoinedName \o JoinedName
               rest  == Repeat(0, 20)
    <3>1. names \in Seq(Byte) /\ rest \in Seq(Byte) /\ Len(names) = 8 /\ Len(rest) = 20
      BY <2>1, <2>2
    <3> HIDE DEF names, rest
    <3>2. names \o rest \in Seq(Byte) /\ Len(names \o rest) = Len(names) + Len(rest)
      BY <3>1, OctetsJoin
    <3>3. names \o rest \in Seq(Byte) /\ Len(names \o rest) = 28
      BY <3>1, <3>2
    <3> QED BY <3>3 DEF names, rest
  <2> QED BY <1>7, <2>3 DEF RecordData
<1>8. CASE record.type = "HINFO"
  BY <1>1, <1>8 DEF RecordData
<1>9. CASE record.type = "MX"
  <2>1. <<0, 1>> \in Seq(Byte) /\ Len(<<0, 1>>) = 2
    BY <1>1
  <2>2. <<0, 1>> \o JoinedName \in Seq(Byte) /\ Len(<<0, 1>> \o JoinedName) = 6
    <3>1. <<0, 1>> \o JoinedName \in Seq(Byte)
      BY <1>3, <2>1
    <3>2. Len(<<0, 1>> \o JoinedName) = Len(<<0, 1>>) + Len(JoinedName)
      BY <1>3, <2>1, OctetsJoin
    <3> QED BY <1>3, <2>1, <3>1, <3>2
  <2> QED BY <1>9, <2>2 DEF RecordData
<1>10. CASE record.type = "TXT"
  BY <1>1, <1>10 DEF RecordData
<1> QED BY <1>5, <1>6, <1>7, <1>8, <1>9, <1>10, RecordIs

LEMMA HeadIsOctets ==
  ASSUME NEW record \in Records
  PROVE  /\ RecordHead(record) \in Seq(Byte) /\ Len(RecordHead(record)) = 10
         /\ RecordHead(record)[1] = 0 /\ RecordHead(record)[2] = DmTypes[record.type]
<1>1. Len(RecordData(record)) \in Byte
  <2>1. record.type \in {"A", "CNAME", "SOA", "HINFO", "MX", "TXT"}
    BY RecordIs
  <2>2. Len(RecordData(record)) \in {4, 28, 5, 6, 2}
    BY <2>1, DataIsOctets
  <2> QED BY <2>2 DEF Byte
<1>2. DmTypes[record.type] \in Byte
  BY RecordIs DEF DmTypes, Byte
<1>3. 0 \in Byte /\ 1 \in Byte /\ 9 \in Byte
  BY DEF Byte
<1> QED BY <1>1, <1>2, <1>3 DEF RecordHead

LEMMA AnswerIsOctets ==
  ASSUME NEW name, NameShaped(name), NEW record \in Records, NEW first,
         record.form = "first" => first \in Byte
  PROVE  /\ NameOctets(record.form, name, first) \in Seq(Byte)
         /\ AnswerOctets(record, name, first) \in Seq(Byte)
         /\ Len(AnswerOctets(record, name, first)) =
              Len(NameOctets(record.form, name, first)) + 10 + Len(RecordData(record))
<1> DEFINE owner == NameOctets(record.form, name, first)
           head  == RecordHead(record)
           data  == RecordData(record)
<1>1. owner \in Seq(Byte) /\ head \in Seq(Byte) /\ data \in Seq(Byte) /\ Len(head) = 10
  BY FormIsOctets, RecordIs, HeadIsOctets, DataIsOctets
<1>2. AnswerOctets(record, name, first) = (owner \o head) \o data
  BY DEF AnswerOctets
<1> HIDE DEF owner, head, data
<1>3. owner \o head \in Seq(Byte) /\ Len(owner \o head) = Len(owner) + 10
  BY <1>1, OctetsJoin
<1>4. /\ (owner \o head) \o data \in Seq(Byte)
      /\ Len((owner \o head) \o data) = Len(owner) + 10 + Len(data)
  BY <1>1, <1>3, OctetsJoin
<1> QED BY <1>1, <1>2, <1>4 DEF owner, data

\* Only a name that points to the first answer's depends on where that is.
LEMMA FirstUnused ==
  ASSUME NEW name, NEW record, record.form # "first", NEW a, NEW b
  PROVE  AnswerOctets(record, name, a) = AnswerOctets(record, name, b)
BY DEF AnswerOctets, NameOctets

LEMMA QuestionIsOctets ==
  ASSUME NEW name, NameShaped(name)
  PROVE  /\ Question(name) \in Seq(Byte) /\ Len(Question(name)) = Size(name) + 5
         /\ Question(name) = WholeName(name) \o <<0, 1, 0, 1>>
         /\ <<0, 1, 0, 1>> \in Seq(Byte)
<1>1. <<0, 1, 0, 1>> \in Seq(Byte) /\ Len(<<0, 1, 0, 1>>) = 4
  BY DEF Byte
<1>2. /\ WholeName(name) \in Seq(Byte) /\ Len(WholeName(name)) = Size(name) + 1
      /\ Size(name) \in Nat
  BY NameIsOctets
<1> QED BY <1>1, <1>2 DEF Question
-----------------------------------------------------------------------------
LEMMA NamesNamed ==
  ASSUME NEW name \in DmNames
  PROVE  NameShaped(name) /\ Size(name) \in Nat /\ Size(name) <= DmNameMax
BY DmAssumption DEF NameShaped, Size, Pointer

LEMMA OctetRead ==
  ASSUME DmTypeOK, NEW cp \in Nat
  PROVE  OctetAt(cp) = OctetIn(dmMsg, cp) /\ OctetAt(cp) \in Byte /\ OctetAt(cp) \in Nat
BY AtOctet DEF OctetAt, OctetIn, DmTypeOK, Byte

\* The first record starts where one octet says.
LEMMA FirstIsOctet ==
  ASSUME DmTypeOK, MessageKept, dmAnswers # <<>>
  PROVE  /\ dmStarts[1] = HeaderLen + Size(dmName) + 5 /\ dmStarts[1] \in Byte
         /\ 0 < Len(dmAnswers)
<1>1. NameShaped(dmName)
  BY NamesNamed DEF DmTypeOK
<1>2. Size(dmName) \in Nat /\ Size(dmName) <= 192
  BY <1>1, NameIsOctets DEF Pointer
<1>3. Len(dmAnswers) \in Nat /\ 0 < Len(dmAnswers)
  BY EmptySeq DEF DmTypeOK
<1>4. dmStarts[1] = HeaderLen + Size(dmName) + 5
  BY <1>3 DEF MessageKept, RecordEnd
<1>5. HeaderLen + Size(dmName) + 5 \in 0 .. 255
  <2>1. \A size \in Nat : size <= 192 => HeaderLen + size + 5 \in 0 .. 255
    BY DEF HeaderLen
  <2> QED BY <1>2, <2>1
<1> QED BY <1>3, <1>4, <1>5 DEF Byte

(* A record of the message: where its parts are.                           *)
LEMMA AnswerWritten ==
  ASSUME DmTypeOK, MessageKept, NEW i \in 1 .. Len(dmAnswers)
  PROVE  LET owner == NameOctets(dmAnswers[i].form, dmName, dmStarts[1])
         IN  /\ dmAnswers[i] \in Records /\ NameShaped(dmName)
             /\ dmAnswers[i].form = "first" => dmStarts[1] \in Byte
             /\ dmStarts[i] \in Nat /\ Len(owner) \in Nat
             /\ Holds(dmMsg, dmStarts[i], owner)
             /\ Holds(dmMsg, dmStarts[i] + Len(owner), RecordHead(dmAnswers[i]))
             /\ Holds(dmMsg, dmStarts[i] + Len(owner) + 10, RecordData(dmAnswers[i]))
             /\ RecordEnd(i) = dmStarts[i] + Len(owner) + 10 + Len(RecordData(dmAnswers[i]))
<1> DEFINE record == dmAnswers[i]
           owner  == NameOctets(record.form, dmName, dmStarts[1])
           head   == RecordHead(record)
           data   == RecordData(record)
<1>1. record \in Records /\ dmStarts[i] \in Nat /\ NameShaped(dmName) /\ dmMsg \in Seq(Byte)
  BY NamesNamed, ElementOfSeq DEF DmTypeOK, Byte
<1>2. dmStarts[1] \in Byte
  BY FirstIsOctet, EmptySeq DEF DmTypeOK
<1>3. /\ owner \in Seq(Byte) /\ head \in Seq(Byte) /\ data \in Seq(Byte)
      /\ Len(head) = 10 /\ Len(owner) \in Nat /\ Len(data) \in Nat
  BY <1>1, <1>2, RecordIs, FormIsOctets, HeadIsOctets, DataIsOctets
<1>4. AnswerAt(i) = (owner \o head) \o data
  BY DEF AnswerAt, AnswerOctets
<1>5. Holds(dmMsg, dmStarts[i], (owner \o head) \o data)
  <2>1. i \in DOMAIN dmAnswers
    BY DEF DmTypeOK
  <2> QED BY <1>4, <2>1 DEF MessageKept
<1>6. RecordEnd(i) = dmStarts[i] + Len(owner) + 10 + Len(data)
  <2>1. Len(AnswerAt(i)) = Len(owner) + 10 + Len(data)
    BY <1>1, <1>2, AnswerIsOctets DEF AnswerAt
  <2>2. RecordEnd(i) = dmStarts[i] + Len(AnswerAt(i))
    BY DEF MessageKept
  <2> HIDE DEF owner, data
  <2> QED BY <1>1, <1>3, <2>1, <2>2
<1> HIDE DEF owner, head, data, record
<1>7. owner \o head \in Seq(Byte) /\ Len(owner \o head) = Len(owner) + 10
  BY <1>3, OctetsJoin
<1>8. /\ Holds(dmMsg, dmStarts[i], owner \o head)
      /\ Holds(dmMsg, dmStarts[i] + (Len(owner) + 10), data)
  <2>1. Holds(dmMsg, dmStarts[i] + Len(owner \o head), data)
    BY <1>1, <1>3, <1>5, <1>7, HoldsParts
  <2>2. Holds(dmMsg, dmStarts[i], owner \o head)
    BY <1>1, <1>3, <1>5, <1>7, HoldsParts
  <2> QED BY <1>7, <2>1, <2>2
<1>9. Holds(dmMsg, dmStarts[i], owner) /\ Holds(dmMsg, dmStarts[i] + Len(owner), head)
  BY <1>1, <1>3, <1>8, HoldsParts
<1>10. dmStarts[i] + (Len(owner) + 10) = dmStarts[i] + Len(owner) + 10
  BY <1>1, <1>3
<1> QED BY <1>1, <1>2, <1>3, <1>6, <1>8, <1>9, <1>10 DEF owner, head, data, record
-----------------------------------------------------------------------------
LEMMA DmStarts == DmInit => DmKept
<1> SUFFICES ASSUME DmInit PROVE DmKept
  OBVIOUS
<1>1. dmName \in DmNames /\ NameShaped(dmName) /\ Size(dmName) \in Nat
  BY NamesNamed DEF DmInit
<1> DEFINE zeros == Repeat(0, HeaderLen)
           asked == Question(dmName)
<1>2. asked \in Seq(Byte) /\ Len(asked) = Size(dmName) + 5
  BY <1>1, QuestionIsOctets
<1>3. zeros \in Seq(Byte) /\ Len(zeros) = HeaderLen
  BY DEF Repeat, HeaderLen, Byte
<1>4. dmMsg = zeros \o asked /\ dmAnswers = <<>> /\ dmStarts = <<>>
  BY DEF DmInit
<1> HIDE DEF zeros
<1>5. /\ Holds(dmMsg, HeaderLen, asked) /\ dmMsg \in Seq(Byte)
      /\ Len(dmMsg) = HeaderLen + Len(asked)
  BY <1>2, <1>3, <1>4, HoldsLast
<1> HIDE DEF asked
<1>6. RecordEnd(0) = HeaderLen + Size(dmName) + 5
  BY <1>1, <1>2, <1>4, <1>5 DEF RecordEnd, HeaderLen
<1>7. MessageKept
  <2>1. \A i \in DOMAIN dmAnswers : FALSE
    BY <1>4
  <2> QED BY <1>4, <1>5, <1>6, <2>1 DEF MessageKept, asked
<1>8. DmTypeOK
  <2>1. dmAnswers \in Seq(Records) /\ Len(dmAnswers) = 0 /\ dmStarts \in Seq(Nat)
        /\ Len(dmStarts) = 0
    BY <1>4
  <2>2. /\ dmFailed \in BOOLEAN /\ dmAt = "server" /\ dmFor = "question"
        /\ dmCp = 12 /\ dmIn = 12 /\ dmLen = 0 /\ dmJumped = FALSE
        /\ dmRoom = DmNameMax /\ dmRead = 0 /\ dmIp = 0 /\ dmResult = 0
    BY DEF DmInit, HeaderLen, Unwritten
  <2>3. dmMsg \in Seq(0 .. 255)
    BY <1>5 DEF Byte
  <2>4. 0 <= DmRecords /\ DmNameMax \in 0 .. DmNameMax
    BY DmAssumption
  <2>5. 0 \in 0 .. 255 /\ 0 \in 0 .. Len(dmAnswers)
    BY <2>1
  <2> QED BY <1>1, <2>1, <2>2, <2>3, <2>4, <2>5 DEF DmTypeOK
<1> QED BY <1>7, <1>8 DEF DmKept, DmInit

LEMMA MessageGrows ==
  ASSUME DmTypeOK, MessageKept, NEW record \in Records,
         record.form = "first" => dmAnswers # <<>>,
         dmAnswers' = Append(dmAnswers, record),
         dmMsg' = dmMsg \o AnswerOctets(record, dmName, dmStarts[1]),
         dmStarts' = Append(dmStarts, Len(dmMsg)), dmName' = dmName
  PROVE  MessageKept' /\ dmMsg' \in Seq(Byte)
<1>n. PICK n \in Nat : n = Len(dmAnswers)
  BY DEF DmTypeOK
<1>m. PICK more : more = AnswerOctets(record, dmName, dmStarts[1])
  OBVIOUS
<1>1. /\ n = Len(dmAnswers) /\ Len(dmStarts) = n /\ dmMsg \in Seq(Byte) /\ Len(dmMsg) \in Nat
      /\ NameShaped(dmName) /\ Size(dmName) \in Nat /\ dmAnswers \in Seq(Records)
      /\ dmStarts \in Seq(Nat)
  BY <1>n, NamesNamed DEF DmTypeOK, Byte
<1>2. record.form = "first" => dmStarts[1] \in Byte
  BY FirstIsOctet
<1>3. more \in Seq(Byte)
  BY <1>1, <1>2, <1>m, AnswerIsOctets
<1>4. /\ Len(dmAnswers') = n + 1 /\ dmAnswers' \in Seq(Records) /\ dmAnswers'[n + 1] = record
      /\ \A i \in 1 .. n : dmAnswers'[i] = dmAnswers[i]
  BY <1>1
<1>5. /\ dmStarts'[n + 1] = Len(dmMsg)
      /\ \A i \in 1 .. n : dmStarts'[i] = dmStarts[i]
  BY <1>1
<1>6. /\ Holds(dmMsg', Len(dmMsg), more) /\ dmMsg' \in Seq(Byte)
      /\ Len(dmMsg') = Len(dmMsg) + Len(more)
  BY <1>1, <1>3, <1>m, HoldsLast
<1>7. \A i \in 0 .. n : RecordEnd(i)' = RecordEnd(i)
  <2> TAKE i \in 0 .. n
  <2>1. CASE i < n
    <3>1. i + 1 \in 1 .. n
      BY <1>1, <2>1
    <3> QED BY <1>1, <1>4, <1>5, <2>1, <3>1 DEF RecordEnd
  <2>2. CASE i = n
    BY <1>1, <1>4, <1>5, <2>2 DEF RecordEnd
  <2> QED BY <1>1, <2>1, <2>2
<1>8. ASSUME NEW i \in 1 .. n
      PROVE  Holds(dmMsg, dmStarts[i], AnswerAt(i))' /\ (RecordEnd(i) = dmStarts[i] + Len(AnswerAt(i)))'
  <2>1. dmAnswers'[i] = dmAnswers[i] /\ dmStarts'[i] = dmStarts[i] /\ dmStarts'[1] = dmStarts[1]
    BY <1>1, <1>4, <1>5
  <2>2. AnswerAt(i)' = AnswerAt(i)
    BY <2>1 DEF AnswerAt
  <2>3. Holds(dmMsg, dmStarts[i], AnswerAt(i)) /\ RecordEnd(i) = dmStarts[i] + Len(AnswerAt(i))
    <3>1. i \in DOMAIN dmAnswers
      BY <1>1
    <3> QED BY <3>1 DEF MessageKept
  <2>4. AnswerAt(i) \in Seq(Byte)
    <3>1. dmAnswers[i] \in Records
      BY <1>1, ElementOfSeq
    <3>2. dmStarts[1] \in Byte
      BY <1>1, FirstIsOctet, EmptySeq
    <3> QED BY <1>1, <3>1, <3>2, AnswerIsOctets DEF AnswerAt
  <2>5. Holds(dmMsg', dmStarts[i], AnswerAt(i))
    BY <1>1, <1>3, <1>m, <2>3, <2>4, HoldsMore
  <2>6. RecordEnd(i)' = RecordEnd(i)
    BY <1>1, <1>7
  <2> QED BY <2>1, <2>2, <2>3, <2>5, <2>6
<1>9. Holds(dmMsg, dmStarts[n + 1], more)' /\ AnswerAt(n + 1)' = more
  <2>1. dmStarts'[n + 1] = Len(dmMsg) /\ dmAnswers'[n + 1] = record
    BY <1>4, <1>5
  <2>2. AnswerAt(n + 1)' = AnswerOctets(record, dmName, dmStarts'[1])
    BY <2>1 DEF AnswerAt
  <2>3. CASE n = 0
    <3>1. dmAnswers = <<>>
      BY <1>1, <2>3, EmptySeq
    <3>2. record.form # "first"
      BY <3>1
    <3>3. AnswerAt(n + 1)' = more
      BY <1>m, <2>2, <3>2, FirstUnused
    <3> QED BY <1>6, <2>1, <3>3
  <2>4. CASE n # 0
    <3>1. dmStarts'[1] = dmStarts[1]
      BY <1>1, <1>5, <2>4
    <3> QED BY <1>6, <1>m, <2>1, <2>2, <3>1
  <2> QED BY <2>3, <2>4
<1>10. ASSUME NEW i \in DOMAIN dmAnswers'
       PROVE  Holds(dmMsg, dmStarts[i], AnswerAt(i))' /\ (RecordEnd(i) = dmStarts[i] + Len(AnswerAt(i)))'
  <2>1. i \in 1 .. n + 1
    BY <1>1, <1>4
  <2>2. CASE i \in 1 .. n
    BY <1>8, <2>2
  <2>3. CASE i = n + 1
    <3>1. RecordEnd(n + 1)' = Len(dmMsg')
      BY <1>1, <1>4 DEF RecordEnd
    <3>2. dmStarts'[n + 1] + Len(more) = Len(dmMsg')
      BY <1>5, <1>6
    <3> QED BY <1>9, <2>3, <3>1, <3>2
  <2> QED BY <1>1, <2>1, <2>2, <2>3
<1>11. Holds(dmMsg, HeaderLen, Question(dmName))'
  <2>1. Holds(dmMsg, HeaderLen, Question(dmName)) /\ Question(dmName) \in Seq(Byte)
    BY <1>1, QuestionIsOctets DEF MessageKept
  <2>2. Holds(dmMsg', HeaderLen, Question(dmName))
    BY <1>1, <1>3, <1>m, <2>1, HoldsMore
  <2> QED BY <2>2
<1>12. (RecordEnd(0) = HeaderLen + Size(dmName) + 5)'
  <2>1. RecordEnd(0)' = RecordEnd(0)
    BY <1>1, <1>7
  <2> QED BY <2>1 DEF MessageKept
<1>13. dmAnswers'[1].form # "first"
  <2>1. CASE n = 0
    <3>1. dmAnswers = <<>>
      BY <1>1, <2>1, EmptySeq
    <3>2. dmAnswers'[1] = record
      BY <1>4, <2>1
    <3> QED BY <3>1, <3>2
  <2>2. CASE n # 0
    <3>1. dmAnswers # <<>> /\ dmAnswers'[1] = dmAnswers[1]
      BY <1>1, <1>4, <2>2
    <3> QED BY <3>1 DEF MessageKept
  <2> QED BY <2>1, <2>2
<1> QED BY <1>6, <1>10, <1>11, <1>12, <1>13 DEF MessageKept
-----------------------------------------------------------------------------
\* What the parser adds up are numbers.
LEMMA LabelIs ==
  ASSUME DmTypeOK
  PROVE  /\ LabelAt \in Nat /\ LabelLen \in Byte /\ LabelLen \in Nat
         /\ HeadLen \in Nat /\ Behind \in Nat /\ DataStart \in Nat /\ dmRoom \in Nat
         /\ OctetAt(DataStart) \in Byte /\ OctetAt(DataStart) \in Nat
         /\ \A cp \in Nat : OctetAt(cp) \in Nat
<1>1. dmIn \in Nat /\ dmLen \in Nat /\ dmCp \in Nat /\ dmRoom \in Nat
  BY DmAssumption DEF DmTypeOK
<1>2. OctetAt(dmIn) \in Nat /\ OctetAt(dmIn + 1) \in Nat
  BY <1>1, OctetRead
<1>3. LabelAt \in Nat
  BY <1>1, <1>2 DEF LabelAt, Jumps, Pointer
<1>4. HeadLen \in Nat
  BY <1>1 DEF HeadLen, NameHead
<1>5. Behind \in Nat /\ DataStart \in Nat
  BY <1>1, <1>4 DEF Behind, DataStart
<1> QED BY <1>1, <1>3, <1>4, <1>5, OctetRead DEF LabelLen

\* No action after the server's changes the reply.
LEMMA ReplyRests ==
  ASSUME MessageKept, UNCHANGED dmReply
  PROVE  MessageKept'
BY DEF MessageKept, dmReply, RecordEnd, AnswerAt

LEMMA LoopTyped ==
  ASSUME DmTypeOK, UNCHANGED dmReply,
         dmAt' \in {"server", "name", "answers", "done"},
         dmFor' \in {"question", "owner", "data", "mname", "rname"},
         dmCp' \in Nat, dmIn' \in Nat, dmLen' \in Nat, dmJumped' \in BOOLEAN,
         dmRoom' \in 0 .. DmNameMax, dmRead' \in 0 .. Len(dmAnswers),
         dmIp' \in 0 .. 255, dmResult' \in {-1, 0, 1}
  PROVE  DmTypeOK'
BY DEF DmTypeOK, dmReply

LEMMA DmKeptStep == DmKept /\ [DmNext]_dmVars => DmKept'
<1> SUFFICES ASSUME DmKept, [DmNext]_dmVars PROVE DmKept'
  OBVIOUS
<1>t. /\ DmTypeOK /\ MessageKept
      /\ dmAt = "server" => dmRead = 0 /\ dmIp = Unwritten
      /\ dmAt = "name" /\ dmFor # "question" => dmRead < Len(dmAnswers)
  BY DEF DmKept
<1>l. /\ LabelAt \in Nat /\ LabelLen \in Nat /\ HeadLen \in Nat /\ Behind \in Nat
      /\ DataStart \in Nat /\ OctetAt(DataStart) \in Byte /\ OctetAt(DataStart) \in Nat
      /\ \A cp \in Nat : OctetAt(cp) \in Nat
  BY <1>t, LabelIs
<1>r. /\ Len(dmAnswers) \in Nat /\ dmRead \in Nat /\ dmRoom \in Nat /\ DmNameMax \in Nat
      /\ dmRead <= Len(dmAnswers) /\ dmRoom <= DmNameMax
  BY <1>t, DmAssumption DEF DmTypeOK
<1>1. ASSUME AnswerAdded PROVE DmKept'
  <2>1. PICK record \in Records :
          /\ record.form = "first" => dmAnswers # <<>>
          /\ dmAnswers' = Append(dmAnswers, record)
          /\ dmMsg' = dmMsg \o AnswerOctets(record, dmName, dmStarts[1])
    BY <1>1 DEF AnswerAdded
  <2>2. /\ dmAt = "server" /\ Len(dmAnswers) < DmRecords
        /\ dmStarts' = Append(dmStarts, Len(dmMsg))
        /\ UNCHANGED <<dmName, dmFailed, dmAt, dmCp, dmLoop, dmRead, dmIp, dmResult>>
    BY <1>1 DEF AnswerAdded
  <2>3. MessageKept' /\ dmMsg' \in Seq(Byte)
    BY <1>t, <2>1, <2>2, MessageGrows
  <2>4. /\ dmAnswers' \in Seq(Records) /\ Len(dmAnswers') = Len(dmAnswers) + 1
        /\ dmStarts' \in Seq(Nat) /\ Len(dmStarts') = Len(dmStarts) + 1
    <3>1. /\ dmAnswers \in Seq(Records) /\ dmStarts \in Seq(Nat) /\ Len(dmMsg) \in Nat
      BY <1>t DEF DmTypeOK
    <3> QED BY <2>1, <2>2, <3>1
  <2>5. /\ dmMsg' \in Seq(0 .. 255) /\ Len(dmAnswers') <= DmRecords
        /\ Len(dmStarts') = Len(dmAnswers') /\ dmRead' \in 0 .. Len(dmAnswers')
    BY <1>t, <1>r, <2>2, <2>3, <2>4, DmAssumption DEF DmTypeOK, Byte
  <2>6. DmTypeOK'
    BY <1>t, <2>2, <2>4, <2>5 DEF DmTypeOK, dmLoop
  <2> QED BY <1>t, <2>2, <2>3, <2>6 DEF DmKept
<1>2. ASSUME NEW for, NEW cp, ParsesName(for, cp), UNCHANGED <<dmReply, dmRead, dmIp, dmResult>>,
             for \in {"question", "owner", "data", "mname", "rname"}, cp \in Nat,
             for # "question" => dmRead < Len(dmAnswers)
      PROVE  DmKept'
  <2>1. /\ dmRead' \in 0 .. Len(dmAnswers) /\ dmIp' \in 0 .. 255 /\ dmResult' \in {-1, 0, 1}
        /\ UNCHANGED dmReply
    BY <1>t, <1>2 DEF DmTypeOK
  <2>2. /\ dmAt' = "name" /\ dmFor' = for /\ dmCp' \in Nat /\ dmIn' \in Nat
        /\ dmLen' \in Nat /\ dmJumped' \in BOOLEAN /\ dmRoom' \in 0 .. DmNameMax
    <3>1. DmNameMax \in 0 .. DmNameMax /\ 0 \in Nat
      BY <1>r
    <3> QED BY <1>2, <3>1 DEF ParsesName
  <2>3. DmTypeOK'
    BY <1>t, <1>2, <2>1, <2>2, LoopTyped
  <2> QED BY <1>t, <1>2, <2>3, ReplyRests DEF DmKept, ParsesName, dmReply
<1>3. ASSUME NEW cp, AnswerEnds(cp), cp \in Nat, UNCHANGED <<dmReply, dmResult>>,
             dmIp' \in 0 .. 255, dmRead < Len(dmAnswers)
      PROVE  DmKept'
  <2>1. dmRead' \in 0 .. Len(dmAnswers)
    BY <1>r, <1>3 DEF AnswerEnds
  <2>2. DmTypeOK'
    BY <1>t, <1>3, <2>1, LoopTyped DEF AnswerEnds, dmLoop, DmTypeOK
  <2> QED BY <1>t, <1>3, <2>2, ReplyRests DEF DmKept, AnswerEnds, dmReply
<1>4. ASSUME ReplyParsed PROVE DmKept'
  BY <1>2, <1>4 DEF ReplyParsed, HeaderLen
<1>5. ASSUME LabelParsed PROVE DmKept'
  <2>1. dmRoom' \in 0 .. DmNameMax
    BY <1>l, <1>r, <1>5 DEF LabelParsed
  <2>2. dmIn' \in Nat /\ dmLen' \in Nat /\ dmJumped' \in BOOLEAN
    BY <1>l, <1>t, <1>5 DEF LabelParsed, DmTypeOK, Jumps
  <2>3. DmTypeOK'
    BY <1>t, <1>5, <2>1, <2>2, LoopTyped DEF LabelParsed, DmTypeOK, dmReply
  <2> QED BY <1>t, <1>5, <2>3, ReplyRests DEF LabelParsed, DmKept, dmReply
<1>6. ASSUME NEW result \in {-1, 0, 1}, DmEnds(result), UNCHANGED <<dmReply, dmCp, dmLoop, dmRead, dmIp>>
      PROVE  DmKept'
  <2>1. DmTypeOK'
    BY <1>t, <1>6, LoopTyped DEF DmEnds, dmLoop, DmTypeOK
  <2> QED BY <1>t, <1>6, <2>1, ReplyRests DEF DmEnds, DmKept
<1>7. ASSUME NameTooLong PROVE DmKept'
  BY <1>6, <1>7 DEF NameTooLong
<1>8. ASSUME QuestionParsed PROVE DmKept'
  <2>1. dmCp' \in Nat
    BY <1>l, <1>8 DEF QuestionParsed
  <2>2. DmTypeOK'
    BY <1>t, <1>8, <2>1, LoopTyped DEF QuestionParsed, dmLoop, DmTypeOK
  <2> QED BY <1>t, <1>8, <2>2, ReplyRests DEF QuestionParsed, DmKept
<1>9. ASSUME AnswerStarts PROVE DmKept'
  BY <1>2, <1>9, <1>t DEF AnswerStarts, DmTypeOK
<1>10. ASSUME AddressFound PROVE DmKept'
  <2>1. AnswerEnds(DataStart + 4) /\ UNCHANGED <<dmReply, dmResult>> /\ dmIp' = OctetAt(DataStart)
    BY <1>10 DEF AddressFound
  <2>2. dmIp' \in 0 .. 255 /\ DataStart + 4 \in Nat
    BY <1>l, <2>1 DEF Byte
  <2>3. dmRead < Len(dmAnswers)
    BY <1>t, <1>10 DEF AddressFound, NameEnds
  <2> QED BY <1>3, <2>1, <2>2, <2>3
<1>11. ASSUME NameFollows PROVE DmKept'
  <2>1. dmRead < Len(dmAnswers) /\ DataStart \in Nat /\ DataStart + 2 \in Nat
    BY <1>l, <1>t, <1>11 DEF NameFollows, NameEnds
  <2> QED BY <1>2, <1>11, <2>1 DEF NameFollows
<1>12. ASSUME StringsSkipped PROVE DmKept'
  <2> DEFINE second == DataStart + 1 + OctetAt(DataStart)
  <2>1. /\ AnswerEnds(second + 1 + OctetAt(second)) /\ UNCHANGED <<dmReply, dmResult, dmIp>>
    BY <1>12 DEF StringsSkipped
  <2>2. dmRead < Len(dmAnswers) /\ dmIp \in 0 .. 255
    BY <1>t, <1>12 DEF StringsSkipped, NameEnds, DmTypeOK
  <2>3. second \in Nat
    BY <1>l
  <2> HIDE DEF second
  <2>4. second + 1 + OctetAt(second) \in Nat
    BY <1>l, <2>3
  <2> QED BY <1>3, <2>1, <2>2, <2>4
<1>13. ASSUME DataLeft PROVE DmKept'
  <2>1. dmRead < Len(dmAnswers) /\ dmIp \in 0 .. 255
    BY <1>t, <1>13 DEF DataLeft, NameEnds, DmTypeOK
  <2> QED BY <1>l, <1>3, <1>13, <2>1 DEF DataLeft
<1>14. ASSUME SecondFollows PROVE DmKept'
  <2>1. dmRead < Len(dmAnswers)
    BY <1>t, <1>14 DEF SecondFollows, NameEnds
  <2> QED BY <1>l, <1>2, <1>14, <2>1 DEF SecondFollows
<1>15. ASSUME DataParsed PROVE DmKept'
  <2>1. dmRead < Len(dmAnswers) /\ dmIp \in 0 .. 255
    BY <1>t, <1>15 DEF DataParsed, NameEnds, DmTypeOK
  <2>2. Behind + 20 \in Nat
    BY <1>l
  <2> QED BY <1>l, <1>3, <1>15, <2>1, <2>2 DEF DataParsed
<1>16. ASSUME AnswersParsed PROVE DmKept'
  <2>1. (IF dmFailed THEN 0 ELSE 1) \in {-1, 0, 1}
    OBVIOUS
  <2> QED BY <1>6, <1>16, <2>1 DEF AnswersParsed
<1>17. ASSUME UNCHANGED dmVars PROVE DmKept'
  <2>1. UNCHANGED dmReply /\ UNCHANGED dmLoop
    BY <1>17 DEF dmVars
  <2>2. DmTypeOK'
    BY <1>t, <1>17, <2>1, LoopTyped DEF dmVars, dmLoop, DmTypeOK
  <2> QED BY <1>t, <1>17, <2>1, <2>2, ReplyRests DEF dmVars, dmLoop, dmReply, DmKept
<1> QED
  BY <1>1, <1>4, <1>5, <1>7, <1>8, <1>9, <1>10, <1>11, <1>12, <1>13, <1>14, <1>15,
     <1>16, <1>17 DEF DmNext
-----------------------------------------------------------------------------
(* What the parser finds where the server has put a name.                  *)
LEMMA QuestionWritten ==
  ASSUME DmTypeOK, MessageKept
  PROVE  /\ TailAt(dmMsg, dmName, HeaderLen, 0)
         /\ NameAt(dmMsg, dmName, HeaderLen, Size(dmName) + 1, Size(dmName))
<1>1. NameShaped(dmName) /\ dmMsg \in Seq(Byte) /\ Size(dmName) \in Nat
  BY NamesNamed DEF DmTypeOK, Byte
<1>2. Holds(dmMsg, HeaderLen, WholeName(dmName) \o <<0, 1, 0, 1>>)
  BY <1>1, QuestionIsOctets DEF MessageKept
<1>3. WholeName(dmName) \in Seq(Byte) /\ <<0, 1, 0, 1>> \in Seq(Byte)
  BY <1>1, NameIsOctets, QuestionIsOctets
<1>4. Holds(dmMsg, HeaderLen, WholeName(dmName))
  BY <1>1, <1>2, <1>3, HoldsParts
<1>5. TailAt(dmMsg, dmName, HeaderLen, 0)
  BY <1>1, <1>4, WholeRead
<1>6. 0 \in 0 .. Size(dmName) /\ Size(dmName) = Size(dmName) - 0
  BY <1>1
<1> QED BY <1>5, <1>6 DEF NameAt

LEMMA PointerWritten ==
  ASSUME NEW name, NEW msg \in Seq(Byte), NEW at, NEW to \in Byte,
         Holds(msg, at, <<Pointer, to>>)
  PROVE  OctetIn(msg, at) = Pointer /\ OctetIn(msg, at + 1) = to
<1>1. <<Pointer, to>> \in Seq(Byte) /\ Len(<<Pointer, to>>) = 2
  BY DEF Pointer, Byte
<1>2. at \in Nat /\ at + 0 = at
  BY DEF Holds
<1>3. PICK octets : octets = <<Pointer, to>>
  OBVIOUS
<1>4. octets \in Seq(Byte) /\ Len(octets) = 2 /\ Holds(msg, at, octets)
  BY <1>1, <1>3
<1>5. ASSUME NEW i \in Nat, i < 2
      PROVE  OctetIn(msg, at + i) = octets[i + 1]
  BY <1>4, <1>5, AtHeld
<1>6. OctetIn(msg, at + 0) = octets[0 + 1] /\ OctetIn(msg, at + 1) = octets[1 + 1]
  BY <1>5
<1>7. octets[0 + 1] = Pointer /\ octets[1 + 1] = to
  BY <1>3
<1> QED BY <1>2, <1>6, <1>7

LEMMA JoinedWritten ==
  ASSUME NEW name, NEW msg \in Seq(Byte), NEW at, Holds(msg, at, JoinedName),
         TailAt(msg, name, HeaderLen, 0)
  PROVE  JoinedAt(msg, name, at)
<1>1. JoinedName \in Seq(Byte) /\ Len(JoinedName) = 4
  BY DEF JoinedName, Pointer, HeaderLen, Letter, Byte
<1>2. at \in Nat /\ at + 0 = at /\ at + 2 + 1 = at + 3
  BY DEF Holds
<1>3. ASSUME NEW i \in Nat, i < 4
      PROVE  OctetIn(msg, at + i) = JoinedName[i + 1]
  BY <1>1, <1>3, AtHeld
<1>4. OctetIn(msg, at + 0) = JoinedName[0 + 1] /\ OctetIn(msg, at + 2) = JoinedName[2 + 1]
  BY <1>3
<1>5. OctetIn(msg, at + 3) = JoinedName[3 + 1]
  BY <1>3
<1>6. /\ JoinedName[0 + 1] = 1 /\ JoinedName[2 + 1] = Pointer
      /\ JoinedName[3 + 1] = HeaderLen
  BY DEF JoinedName
<1> QED BY <1>2, <1>4, <1>5, <1>6 DEF JoinedAt, PointerAt

LEMMA SizesAre ==
  ASSUME DmTypeOK, NEW form
  PROVE  /\ NameSize(form, dmName) \in Nat /\ NameSize("joined", dmName) = Size(dmName) + 2
         /\ NameSize("whole", dmName) = Size(dmName) /\ Size(dmName) \in Nat
         /\ NameSize("pointer", dmName) = Size(dmName) /\ Size(dmName) <= DmNameMax
<1>1. Size(dmName) \in Nat /\ Size(dmName) <= DmNameMax
  BY NamesNamed DEF DmTypeOK
<1> QED BY <1>1 DEF NameSize

LEMMA OwnerWritten ==
  ASSUME DmTypeOK, MessageKept, Readable, NEW i \in 1 .. Len(dmAnswers)
  PROVE  NameAt(dmMsg, dmName, dmStarts[i],
                Len(NameOctets(dmAnswers[i].form, dmName, dmStarts[1])),
                NameSize(dmAnswers[i].form, dmName))
<1> DEFINE form  == dmAnswers[i].form
           first == dmStarts[1]
           at    == dmStarts[i]
           owner == NameOctets(form, dmName, first)
<1>1. /\ form \in Forms /\ NameShaped(dmName) /\ dmMsg \in Seq(Byte) /\ at \in Nat
      /\ form = "first" => first \in Byte
      /\ Holds(dmMsg, at, owner)
  BY AnswerWritten, RecordIs DEF DmTypeOK, Byte
<1>2. /\ TailAt(dmMsg, dmName, HeaderLen, 0) /\ Size(dmName) \in Nat
      /\ HeaderLen \in Byte
  BY QuestionWritten, SizesAre DEF HeaderLen, Byte
<1>3. CASE form = "whole"
  <2>1. Len(owner) = Size(dmName) + 1 /\ NameSize(form, dmName) = Size(dmName)
    BY <1>1, <1>3, FormIsOctets, SizesAre
  <2>2. TailAt(dmMsg, dmName, at, 0)
    BY <1>1, <1>3, WholeRead DEF NameOctets
  <2>3. 0 \in 0 .. Size(dmName) /\ Size(dmName) = Size(dmName) - 0
    BY <1>2
  <2> QED BY <2>1, <2>2, <2>3 DEF NameAt
<1>4. CASE form = "pointer"
  <2>1. Len(owner) = 2 /\ NameSize(form, dmName) = Size(dmName)
    BY <1>1, <1>4, FormIsOctets, SizesAre
  <2>2. owner = <<Pointer, HeaderLen>>
    BY <1>4 DEF NameOctets
  <2>3. PointerAt(dmMsg, dmName, at)
    BY <1>1, <1>2, <2>2, PointerWritten DEF PointerAt
  <2> QED BY <2>1, <2>3 DEF NameAt
<1>5. CASE form = "joined"
  <2>1. Len(owner) = 4 /\ NameSize(form, dmName) = Size(dmName) + 2
    BY <1>1, <1>5, FormIsOctets, SizesAre
  <2>2. owner = JoinedName
    BY <1>5 DEF NameOctets, JoinedName
  <2>3. JoinedAt(dmMsg, dmName, at)
    BY <1>1, <1>2, <2>2, JoinedWritten
  <2> QED BY <2>1, <2>3 DEF NameAt
<1>6. CASE form = "first"
  <2>1. Len(owner) = 2 /\ owner = <<Pointer, first>> /\ first \in Byte
    BY <1>1, <1>6, FormIsOctets DEF NameOctets
  <2>2. OctetIn(dmMsg, at) = Pointer /\ OctetIn(dmMsg, at + 1) = first
    BY <1>1, <2>1, PointerWritten
  <2>3. 1 \in 1 .. Len(dmAnswers) /\ i \in DOMAIN dmAnswers
    BY DEF DmTypeOK
  <2>4. dmAnswers[1].form \in {"whole", "joined"}
    BY <1>6, <2>3 DEF Readable
  <2>5. Holds(dmMsg, first, NameOctets(dmAnswers[1].form, dmName, first))
    BY <2>3, AnswerWritten
  <2>6. CASE dmAnswers[1].form = "whole"
    <3>1. TailAt(dmMsg, dmName, first, 0)
      BY <1>1, <2>5, <2>6, WholeRead DEF NameOctets
    <3>2. NameSize(form, dmName) = Size(dmName)
      BY <1>2, <1>6, <2>6 DEF NameSize
    <3> QED BY <2>1, <2>2, <3>1, <3>2 DEF NameAt, PointerAt
  <2>7. CASE dmAnswers[1].form = "joined"
    <3>1. NameOctets(dmAnswers[1].form, dmName, first) = JoinedName
      BY <2>7 DEF NameOctets, JoinedName
    <3>2. JoinedAt(dmMsg, dmName, first)
      BY <1>1, <1>2, <2>5, <3>1, JoinedWritten
    <3>3. NameSize(form, dmName) = Size(dmName) + 2
      BY <1>2, <1>6, <2>7 DEF NameSize
    <3> QED BY <2>1, <2>2, <3>2, <3>3 DEF NameAt, PointerToJoined
  <2> QED BY <2>4, <2>6, <2>7
<1> QED BY <1>1, <1>3, <1>4, <1>5, <1>6 DEF Forms

LEMMA DataWritten ==
  ASSUME DmTypeOK, MessageKept, NEW i \in 1 .. Len(dmAnswers), NEW at \in Nat,
         Holds(dmMsg, at, RecordData(dmAnswers[i]))
  PROVE  /\ dmAnswers[i].type = "CNAME" => JoinedAt(dmMsg, dmName, at)
         /\ dmAnswers[i].type = "MX" => JoinedAt(dmMsg, dmName, at + 2)
         /\ dmAnswers[i].type = "SOA" =>
              JoinedAt(dmMsg, dmName, at) /\ JoinedAt(dmMsg, dmName, at + 4)
         /\ dmAnswers[i].type = "A" => OctetIn(dmMsg, at) = dmAnswers[i].address
         /\ dmAnswers[i].type = "HINFO" => OctetIn(dmMsg, at) = 1 /\ OctetIn(dmMsg, at + 2) = 2
<1> DEFINE record == dmAnswers[i]
<1>1. record \in Records /\ dmMsg \in Seq(Byte) /\ TailAt(dmMsg, dmName, HeaderLen, 0)
  BY QuestionWritten, ElementOfSeq DEF DmTypeOK, Byte
<1>2. JoinedName \in Seq(Byte) /\ Len(JoinedName) = 4
  BY DEF JoinedName, Pointer, HeaderLen, Letter, Byte
<1>3. CASE record.type = "CNAME"
  BY <1>1, <1>3, JoinedWritten DEF RecordData
<1>4. CASE record.type = "MX"
  <2>1. <<0, 1>> \in Seq(Byte) /\ Len(<<0, 1>>) = 2
    BY DEF Byte
  <2>2. Holds(dmMsg, at + Len(<<0, 1>>), JoinedName)
    BY <1>1, <1>2, <1>4, <2>1, HoldsParts DEF RecordData
  <2> QED BY <1>1, <1>4, <2>1, <2>2, JoinedWritten
<1>5. CASE record.type = "SOA"
  <2> DEFINE rest == Repeat(0, 20)
  <2>1. rest \in Seq(Byte) /\ JoinedName \o JoinedName \in Seq(Byte)
    BY <1>2 DEF Repeat, Byte
  <2>2. Holds(dmMsg, at, (JoinedName \o JoinedName) \o rest)
    BY <1>5 DEF RecordData
  <2> HIDE DEF rest
  <2>3. Holds(dmMsg, at, JoinedName \o JoinedName)
    BY <1>1, <2>1, <2>2, HoldsParts
  <2>4. Holds(dmMsg, at, JoinedName) /\ Holds(dmMsg, at + Len(JoinedName), JoinedName)
    BY <1>1, <1>2, <2>3, HoldsParts
  <2> QED BY <1>1, <1>2, <1>5, <2>4, JoinedWritten
<1>6. CASE record.type = "A"
  <2>1. RecordData(record) \in Seq(Byte) /\ Len(RecordData(record)) = 4
    BY <1>1, <1>6, DataIsOctets
  <2>2. OctetIn(dmMsg, at + 0) = RecordData(record)[0 + 1] /\ at + 0 = at
    BY <1>1, <2>1, AtHeld
  <2>3. RecordData(record)[0 + 1] = record.address
    BY <1>6 DEF RecordData, Repeat
  <2> QED BY <1>6, <2>2, <2>3
<1>7. CASE record.type = "HINFO"
  <2>1. RecordData(record) \in Seq(Byte) /\ Len(RecordData(record)) = 5
    BY <1>1, <1>7, DataIsOctets
  <2>2. OctetIn(dmMsg, at + 0) = RecordData(record)[0 + 1] /\ at + 0 = at
    BY <1>1, <2>1, AtHeld
  <2>3. OctetIn(dmMsg, at + 2) = RecordData(record)[2 + 1]
    BY <1>1, <2>1, AtHeld
  <2>4. RecordData(record)[0 + 1] = 1 /\ RecordData(record)[2 + 1] = 2
    BY <1>7 DEF RecordData
  <2> QED BY <1>7, <2>2, <2>3, <2>4
<1> QED BY <1>3, <1>4, <1>5, <1>6, <1>7
-----------------------------------------------------------------------------
(* A round of parse_name's loop in what remains of the name it is in.      *)
LEMMA RoundIs ==
  ASSUME DmTypeOK, NEW octets, NEW size, NameAt(dmMsg, dmName, dmIn, octets, size)
  PROVE  /\ octets \in Nat /\ size \in Nat
         /\ \/ LabelLen = 0 /\ ~Jumps /\ octets = 1 /\ size = 0
            \/ /\ LabelLen # 0 /\ LabelLen + 1 <= size
               /\ Jumps => octets = 2
               /\ \E left \in Nat :
                    /\ NameAt(dmMsg, dmName, LabelAt + 1 + LabelLen, left, size - LabelLen - 1)
                    /\ ~Jumps => octets = 1 + LabelLen + left
<1> DEFINE first == OctetIn(dmMsg, dmIn)
           jumps == first >= Pointer
           at    == IF jumps THEN (first - Pointer) * 256 + OctetIn(dmMsg, dmIn + 1) ELSE dmIn
           slen  == OctetIn(dmMsg, at)
<1>1. NameShaped(dmName) /\ dmMsg \in Seq(Byte) /\ dmIn \in Nat /\ dmIn + 1 \in Nat
  BY NamesNamed DEF DmTypeOK, Byte
<1>2. /\ octets \in Nat /\ size \in Nat /\ at \in Nat
      /\ \/ slen = 0 /\ ~jumps /\ octets = 1 /\ size = 0
         \/ /\ slen \in Nat /\ slen # 0 /\ slen + 1 <= size
            /\ jumps => octets = 2
            /\ \E left \in Nat :
                 /\ NameAt(dmMsg, dmName, at + 1 + slen, left, size - slen - 1)
                 /\ ~jumps => octets = 1 + slen + left
  BY <1>1, NameRound
<1>3. first = OctetAt(dmIn) /\ OctetIn(dmMsg, dmIn + 1) = OctetAt(dmIn + 1)
  BY <1>1, OctetRead
<1>4. Jumps = jumps
  BY <1>3 DEF Jumps
<1>5. LabelAt = at
  BY <1>3, <1>4 DEF LabelAt
<1>6. LabelLen = slen
  BY <1>2, <1>5, OctetRead DEF LabelLen
<1> HIDE DEF first, jumps, at, slen
<1> QED BY <1>2, <1>4, <1>5, <1>6

LEMMA CalledAre ==
  ASSUME DmKept, dmAt = "name"
  PROVE  /\ CalledSize \in Nat /\ CalledLen \in Nat
         /\ dmFor # "question" =>
              /\ dmRead + 1 \in 1 .. Len(dmAnswers) /\ OwnerLen \in Nat
              /\ dmStarts[dmRead + 1] \in Nat /\ DataAt \in Nat
              /\ InHand \in Records
<1>1. DmTypeOK /\ MessageKept /\ dmRead \in Nat /\ Len(dmAnswers) \in Nat
  BY DEF DmKept, DmTypeOK
<1>2. CalledSize \in Nat
  BY <1>1, SizesAre DEF CalledSize
<1>3. ASSUME dmFor # "question"
      PROVE  /\ dmRead + 1 \in 1 .. Len(dmAnswers) /\ OwnerLen \in Nat
             /\ dmStarts[dmRead + 1] \in Nat /\ DataAt \in Nat /\ InHand \in Records
  <2>1. dmRead + 1 \in 1 .. Len(dmAnswers)
    BY <1>1, <1>3 DEF DmKept
  <2>2. OwnerLen \in Nat /\ dmStarts[dmRead + 1] \in Nat /\ InHand \in Records
    BY <1>1, <2>1, AnswerWritten DEF OwnerLen, InHand
  <2> QED BY <2>1, <2>2 DEF DataAt
<1>4. CalledLen \in Nat
  <2>1. CASE dmFor = "question"
    BY <1>1, <2>1, SizesAre DEF CalledLen
  <2>2. CASE dmFor # "question"
    BY <1>3, <2>2 DEF CalledLen
  <2> QED BY <2>1, <2>2
<1> QED BY <1>2, <1>3, <1>4

\* While the reply and the call stay, so do its measures.
LEMMA CallRests ==
  ASSUME UNCHANGED dmReply, UNCHANGED <<dmFor, dmRead>>
  PROVE  CalledAt' = CalledAt /\ CalledLen' = CalledLen /\ CalledSize' = CalledSize
BY DEF dmReply, CalledAt, CalledLen, CalledSize, NameSize, InHand, OwnerLen, DataAt

(* The name has been read: it fits, and its caller goes on behind it.      *)
LEMMA NameRead ==
  ASSUME DmKept, NameKept, dmAt = "name", LabelLen = 0
  PROVE  CalledSize <= DmNameMax /\ Behind = CalledAt + CalledLen
<1>1. DmTypeOK /\ dmCp = CalledAt /\ dmRoom \in Nat /\ DmNameMax \in Nat /\ dmLen \in Nat
      /\ dmCp \in Nat
  BY DmAssumption DEF DmKept, NameKept, DmTypeOK
<1>2. CalledSize \in Nat /\ CalledLen \in Nat
  BY CalledAre
<1>3. PICK octets \in Nat, size \in Nat : Remains(octets, size)
  BY DEF NameKept
<1>4. ~Jumps /\ octets = 1 /\ size = 0
  BY <1>1, <1>3, RoundIs DEF Remains
<1>5. CalledSize <= DmNameMax
  BY <1>1, <1>2, <1>3, <1>4 DEF Remains
<1>6. HeadLen = CalledLen
  BY <1>3, <1>4 DEF Remains, HeadLen, NameHead
<1> QED BY <1>1, <1>5, <1>6 DEF Behind

LEMMA NameGoesOn ==
  ASSUME DmKept, NameKept, LabelParsed
  PROVE  NameKept'
<1>1. /\ DmTypeOK /\ dmAt = "name" /\ LabelLen # 0
      /\ dmRoom \in Nat /\ DmNameMax \in Nat /\ dmLen \in Nat /\ LabelLen \in Nat
      /\ dmJumped \in BOOLEAN
  BY LabelIs, DmAssumption DEF DmKept, DmTypeOK, LabelParsed
<1>2. CalledSize \in Nat /\ CalledLen \in Nat
  BY <1>1, CalledAre
<1>3. PICK octets \in Nat, size \in Nat : Remains(octets, size)
  BY DEF NameKept
<1>4. /\ LabelLen + 1 <= size
      /\ Jumps => octets = 2
      /\ \E left \in Nat :
           /\ NameAt(dmMsg, dmName, LabelAt + 1 + LabelLen, left, size - LabelLen - 1)
           /\ ~Jumps => octets = 1 + LabelLen + left
  BY <1>1, <1>3, RoundIs DEF Remains
<1>5. PICK left \in Nat :
        /\ NameAt(dmMsg, dmName, LabelAt + 1 + LabelLen, left, size - LabelLen - 1)
        /\ ~Jumps => octets = 1 + LabelLen + left
  BY <1>4
<1>6. PICK rest \in Nat : rest = size - LabelLen - 1
  BY <1>1, <1>4
<1>7. /\ UNCHANGED dmReply /\ UNCHANGED <<dmFor, dmRead>> /\ dmCp' = dmCp
      /\ dmIn' = LabelAt + 1 + LabelLen
      /\ dmJumped' = (dmJumped \/ Jumps)
      /\ dmLen' = IF dmJumped \/ Jumps THEN HeadLen ELSE HeadLen + LabelLen
      /\ dmRoom' = dmRoom - LabelLen - 1
  BY DEF LabelParsed
<1>8. CalledAt' = CalledAt /\ CalledLen' = CalledLen /\ CalledSize' = CalledSize
  BY <1>7, CallRests
<1>9. NameAt(dmMsg, dmName, dmIn, left, rest)'
  BY <1>5, <1>6, <1>7 DEF dmReply
<1>10. (dmRoom + CalledSize = DmNameMax + rest)'
  BY <1>1, <1>2, <1>3, <1>6, <1>7, <1>8 DEF Remains
<1>11. (dmLen + (IF dmJumped THEN 0 ELSE left) = CalledLen)'
  <2>1. dmLen + (IF dmJumped THEN 0 ELSE octets) = CalledLen
    BY <1>3 DEF Remains
  <2>2. HeadLen = dmLen + (IF dmJumped THEN 0 ELSE IF Jumps THEN 2 ELSE 1)
    BY DEF HeadLen, NameHead
  <2>3. Jumps \in BOOLEAN
    BY DEF Jumps
  <2>4. CASE dmJumped
    <3>1. dmJumped' /\ dmLen' = HeadLen
      BY <1>7, <2>4
    <3>2. dmLen + 0 = CalledLen /\ HeadLen = dmLen + 0
      BY <2>1, <2>2, <2>4
    <3> QED BY <1>1, <1>8, <3>1, <3>2
  <2>5. CASE ~dmJumped /\ Jumps
    <3>1. dmJumped' /\ dmLen' = HeadLen
      BY <1>7, <2>5
    <3>2. dmLen + 2 = CalledLen /\ HeadLen = dmLen + 2
      BY <1>4, <2>1, <2>2, <2>5
    <3> QED BY <1>1, <1>8, <3>1, <3>2
  <2>6. CASE ~dmJumped /\ ~Jumps
    BY <1>1, <1>5, <1>7, <1>8, <2>1, <2>2, <2>6
  <2> QED BY <1>1, <2>3, <2>4, <2>5, <2>6
<1>12. \E o, s \in Nat : Remains(o, s)'
  BY <1>9, <1>10, <1>11 DEF Remains
<1>13. \A form : NameSize(form, dmName)' = NameSize(form, dmName)
  BY <1>7 DEF NameSize, dmReply
<1>14. InHand' = InHand
  BY <1>7 DEF InHand, dmReply
<1> QED BY <1>7, <1>8, <1>12, <1>13, <1>14 DEF NameKept
-----------------------------------------------------------------------------
LEMMA NameStarts ==
  ASSUME UNCHANGED dmReply, NEW for, NEW cp, ParsesName(for, cp), DmNameMax \in Nat,
         NEW octets \in Nat, NEW size \in Nat, NameAt(dmMsg, dmName, cp, octets, size),
         CalledLen' = octets, CalledSize' = size
  PROVE  \E o, s \in Nat : Remains(o, s)'
<1>1. /\ dmIn' = cp /\ dmLen' = 0 /\ dmJumped' = FALSE /\ dmRoom' = DmNameMax
      /\ dmMsg' = dmMsg /\ dmName' = dmName
  BY DEF ParsesName, dmReply
<1>2. Remains(octets, size)'
  BY <1>1 DEF Remains
<1> QED BY <1>2

(* Behind the owner's name stand the type, class, ttl and length, and then *)
(* the data.                                                               *)
LEMMA OwnerRead ==
  ASSUME DmKept, NameKept, NameEnds("owner")
  PROVE  /\ DataStart = DataAt /\ DataAt \in Nat /\ InHand \in Records
         /\ Type = DmTypes[InHand.type]
         /\ NameSize(InHand.form, dmName) <= DmNameMax
         /\ Holds(dmMsg, DataAt, RecordData(InHand))
         /\ RecordEnd(dmRead + 1) = DataAt + Len(RecordData(InHand))
         /\ dmRead + 1 \in 1 .. Len(dmAnswers)
<1>1. DmTypeOK /\ MessageKept /\ dmAt = "name" /\ LabelLen = 0 /\ dmFor = "owner"
  BY DEF DmKept, NameEnds
<1>2. /\ dmRead + 1 \in 1 .. Len(dmAnswers) /\ OwnerLen \in Nat
      /\ dmStarts[dmRead + 1] \in Nat /\ DataAt \in Nat /\ InHand \in Records
  BY <1>1, CalledAre
<1>3. /\ CalledAt = dmStarts[dmRead + 1] /\ CalledLen = OwnerLen
      /\ CalledSize = NameSize(InHand.form, dmName)
  BY <1>1 DEF CalledAt, CalledLen, CalledSize
<1>4. Behind = dmStarts[dmRead + 1] + OwnerLen /\ CalledSize <= DmNameMax
  BY <1>1, <1>3, NameRead
<1>5. DataStart = DataAt
  BY <1>4 DEF DataStart, DataAt
<1>6. /\ Holds(dmMsg, dmStarts[dmRead + 1] + OwnerLen, RecordHead(InHand))
      /\ Holds(dmMsg, DataAt, RecordData(InHand))
      /\ RecordEnd(dmRead + 1) = DataAt + Len(RecordData(InHand))
  BY <1>1, <1>2, AnswerWritten DEF OwnerLen, InHand, DataAt
<1>7. Type = DmTypes[InHand.type]
  <2>1. /\ RecordHead(InHand) \in Seq(Byte) /\ Len(RecordHead(InHand)) = 10
        /\ RecordHead(InHand)[1] = 0 /\ RecordHead(InHand)[2] = DmTypes[InHand.type]
    BY <1>2, HeadIsOctets
  <2>2. Behind \in Nat /\ Behind + 1 \in Nat /\ dmMsg \in Seq(Byte)
    <3>1. Behind \in Nat
      BY <1>1, LabelIs
    <3>2. dmMsg \in Seq(Byte)
      BY <1>1 DEF DmTypeOK, Byte
    <3> QED BY <3>1, <3>2
  <2>3. ASSUME NEW i \in Nat, i < 10
        PROVE  OctetIn(dmMsg, Behind + i) = RecordHead(InHand)[i + 1]
    BY <1>4, <1>6, <2>1, <2>2, <2>3, AtHeld
  <2>4. OctetIn(dmMsg, Behind + 0) = 0 /\ OctetIn(dmMsg, Behind + 1) = DmTypes[InHand.type]
    BY <2>1, <2>3
  <2>5. OctetAt(Behind) = 0 /\ OctetAt(Behind + 1) = DmTypes[InHand.type]
    BY <1>1, <2>2, <2>4, OctetRead
  <2>6. DmTypes[InHand.type] \in Nat
    BY <1>2, RecordIs DEF DmTypes
  <2> QED BY <2>5, <2>6 DEF Type
<1> QED BY <1>2, <1>3, <1>4, <1>5, <1>6, <1>7

LEMMA AddressGoesOn ==
  ASSUME NEW ip, NEW n \in Nat, AddressIs(ip, n)
  PROVE  /\ dmAnswers[n + 1].type # "A" => AddressIs(ip, n + 1)
         /\ dmAnswers[n + 1].type = "A" => AddressIs(dmAnswers[n + 1].address, n + 1)
<1>1. ASSUME dmAnswers[n + 1].type = "A"
      PROVE  AddressIs(dmAnswers[n + 1].address, n + 1)
  <2>1. n + 1 \in 1 .. n + 1 /\ \A j \in (n + 1) + 1 .. n + 1 : FALSE
    OBVIOUS
  <2> QED BY <1>1, <2>1 DEF AddressIs
<1>2. ASSUME dmAnswers[n + 1].type # "A"
      PROVE  AddressIs(ip, n + 1)
  <2>1. CASE ip = Unwritten /\ \A j \in 1 .. n : dmAnswers[j].type # "A"
    <3>1. \A j \in 1 .. n + 1 : j \in 1 .. n \/ j = n + 1
      OBVIOUS
    <3> QED BY <1>2, <2>1, <3>1 DEF AddressIs
  <2>2. ASSUME NEW i \in 1 .. n, dmAnswers[i].type = "A", ip = dmAnswers[i].address,
               \A j \in i + 1 .. n : dmAnswers[j].type # "A"
        PROVE  AddressIs(ip, n + 1)
    <3>1. i \in 1 .. n + 1 /\ \A j \in i + 1 .. n + 1 : j \in i + 1 .. n \/ j = n + 1
      OBVIOUS
    <3> QED BY <1>2, <2>2, <3>1 DEF AddressIs
  <2> QED BY <2>1, <2>2 DEF AddressIs
<1> QED BY <1>1, <1>2

(* dns_answer has passed a record that fits, and stands at the next one.   *)
LEMMA AnswerRead ==
  ASSUME DmKept, Readable, SoFar, NEW cp, AnswerEnds(cp), UNCHANGED dmReply,
         dmRead + 1 \in 1 .. Len(dmAnswers), RecordFits(InHand),
         InHand.type # "TXT" => cp = RecordEnd(dmRead + 1),
         dmIp' = IF InHand.type = "A" THEN InHand.address ELSE dmIp
  PROVE  /\ SoFar'
         /\ dmRead' < Len(dmAnswers') => dmCp' = dmStarts'[dmRead' + 1]
<1>1. /\ dmRead' = dmRead + 1 /\ dmCp' = cp /\ dmAnswers' = dmAnswers
      /\ dmStarts' = dmStarts /\ dmMsg' = dmMsg /\ dmName' = dmName
  BY DEF AnswerEnds, dmReply
<1>2. dmRead \in Nat /\ Len(dmAnswers) \in Nat /\ DOMAIN dmAnswers = 1 .. Len(dmAnswers)
  BY DEF DmKept, DmTypeOK
<1>3. \A record : RecordFits(record)' = RecordFits(record)
  BY <1>1 DEF RecordFits, NameSize
<1>4. \A i \in 1 .. dmRead + 1 : RecordFits(dmAnswers[i])
  <2>1. \A i \in 1 .. dmRead + 1 : i \in 1 .. dmRead \/ i = dmRead + 1
    BY <1>2
  <2> QED BY <2>1 DEF SoFar, InHand
<1>5. AddressIs(dmIp', dmRead + 1)
  BY <1>2, AddressGoesOn DEF SoFar, InHand
<1>6. SoFar'
  BY <1>1, <1>3, <1>4, <1>5 DEF SoFar, AddressIs
<1>7. ASSUME dmRead + 1 < Len(dmAnswers)
      PROVE  cp = dmStarts[dmRead + 1 + 1]
  <2>1. InHand.type # "TXT"
    BY <1>2, <1>7 DEF Readable, InHand
  <2> QED BY <1>7, <2>1 DEF RecordEnd
<1> QED BY <1>1, <1>6, <1>7
-----------------------------------------------------------------------------
LEMMA ParserStarts == DmKept /\ dmAt = "server" => SoFar
<1> SUFFICES ASSUME DmKept, dmAt = "server" PROVE SoFar
  OBVIOUS
<1>1. dmRead = 0 /\ dmIp = Unwritten
  BY DEF DmKept
<1>2. \A i \in 1 .. dmRead : FALSE
  BY <1>1
<1> QED BY <1>1, <1>2 DEF SoFar, AddressIs

\* SoFar is about the reply and what has been read of it.
LEMMA SoFarRests ==
  ASSUME SoFar, UNCHANGED dmReply, UNCHANGED <<dmRead, dmIp>>
  PROVE  SoFar'
BY DEF SoFar, AddressIs, RecordFits, NameSize, dmReply

LEMMA ReplyParsedKept ==
  ASSUME DmKept, ReplyParsed
  PROVE  NameKept' /\ SoFar'
<1>1. /\ DmTypeOK /\ MessageKept /\ dmRead = 0 /\ dmAt = "server"
      /\ ParsesName("question", HeaderLen)
      /\ UNCHANGED dmReply /\ UNCHANGED <<dmRead, dmIp>>
  BY DEF DmKept, ReplyParsed
<1>2. dmFor' = "question" /\ dmCp' = HeaderLen /\ dmName' = dmName /\ dmRead' = 0
  BY <1>1 DEF ParsesName, dmReply
<1>3. CalledLen' = Size(dmName) + 1 /\ CalledSize' = Size(dmName) /\ CalledAt' = HeaderLen
  BY <1>2 DEF CalledLen, CalledSize, CalledAt, NameSize
<1>4. NameAt(dmMsg, dmName, HeaderLen, Size(dmName) + 1, Size(dmName))
  BY <1>1, QuestionWritten
<1>5. Size(dmName) \in Nat /\ Size(dmName) + 1 \in Nat /\ DmNameMax \in Nat
  BY <1>1, SizesAre, DmAssumption
<1>6. \E o, s \in Nat : Remains(o, s)'
  BY <1>1, <1>3, <1>4, <1>5, NameStarts
<1>7. SoFar'
  BY <1>1, ParserStarts, SoFarRests
<1> QED BY <1>2, <1>3, <1>6, <1>7 DEF NameKept

LEMMA AnswerStartsKept ==
  ASSUME DmKept, Readable, ParserKept, AnswerStarts
  PROVE  NameKept' /\ SoFar'
<1>1. /\ DmTypeOK /\ MessageKept /\ dmAt = "answers" /\ dmRead < Len(dmAnswers)
      /\ ParsesName("owner", dmCp) /\ UNCHANGED dmReply /\ UNCHANGED <<dmRead, dmIp>>
      /\ SoFar /\ dmCp = dmStarts[dmRead + 1]
  BY DEF DmKept, ParserKept, AnswerStarts
<1>2. /\ dmFor' = "owner" /\ dmCp' = dmCp /\ dmName' = dmName /\ dmRead' = dmRead
      /\ dmAnswers' = dmAnswers /\ dmStarts' = dmStarts
  BY <1>1 DEF ParsesName, dmReply
<1>3. dmRead + 1 \in 1 .. Len(dmAnswers)
  BY <1>1 DEF DmTypeOK
<1>4. /\ CalledLen' = OwnerLen /\ CalledSize' = NameSize(InHand.form, dmName)
      /\ CalledAt' = dmStarts[dmRead + 1]
  BY <1>2 DEF CalledLen, CalledSize, CalledAt, NameSize, OwnerLen, InHand
<1>5. NameAt(dmMsg, dmName, dmCp, OwnerLen, NameSize(InHand.form, dmName))
  BY <1>1, <1>3, OwnerWritten DEF OwnerLen, InHand
<1>6. OwnerLen \in Nat /\ NameSize(InHand.form, dmName) \in Nat /\ DmNameMax \in Nat
  <2>1. OwnerLen \in Nat
    BY <1>1, <1>3, AnswerWritten DEF OwnerLen, InHand
  <2> QED BY <1>1, <2>1, SizesAre, DmAssumption
<1>7. \E o, s \in Nat : Remains(o, s)'
  BY <1>1, <1>4, <1>5, <1>6, NameStarts
<1>8. SoFar'
  BY <1>1, SoFarRests
<1> QED BY <1>1, <1>2, <1>4, <1>7, <1>8 DEF NameKept

(* A name in the data starts where the record has one.                     *)
LEMMA DataNameKept ==
  ASSUME DmKept, UNCHANGED dmReply, UNCHANGED <<dmRead, dmIp>>, SoFar,
         NEW for \in {"data", "mname", "rname"}, NEW cp, ParsesName(for, cp),
         JoinedAt(dmMsg, dmName, cp), CalledAt' = cp,
         NameSize(InHand.form, dmName) <= DmNameMax,
         for = "data" => InHand.type \in {"CNAME", "MX"},
         for # "data" => InHand.type = "SOA",
         for = "rname" => NameSize("joined", dmName) <= DmNameMax
  PROVE  NameKept' /\ SoFar'
<1>1. /\ dmFor' = for /\ dmCp' = cp /\ dmName' = dmName /\ dmRead' = dmRead
      /\ dmAnswers' = dmAnswers /\ dmStarts' = dmStarts
  BY DEF ParsesName, dmReply
<1>2. DmTypeOK /\ DmNameMax \in Nat
  BY DmAssumption DEF DmKept
<1>3. Size(dmName) + 2 \in Nat /\ NameSize("joined", dmName) = Size(dmName) + 2
  BY <1>2, SizesAre
<1>4. \A form : NameSize(form, dmName)' = NameSize(form, dmName)
  BY <1>1 DEF NameSize
<1>5. CalledLen' = 4 /\ CalledSize' = Size(dmName) + 2
  BY <1>1, <1>3, <1>4 DEF CalledLen, CalledSize
<1>6. NameAt(dmMsg, dmName, cp, 4, Size(dmName) + 2)
  BY DEF NameAt
<1>7. \E o, s \in Nat : Remains(o, s)'
  BY <1>2, <1>3, <1>5, <1>6, NameStarts
<1>8. InHand' = InHand
  BY <1>1 DEF InHand
<1>9. SoFar'
  BY SoFarRests
<1> QED BY <1>1, <1>4, <1>7, <1>8, <1>9 DEF NameKept
LEMMA NameFollowsKept ==
  ASSUME DmKept, NameKept, SoFar, NameFollows
  PROVE  NameKept' /\ SoFar' /\ dmAt' = "name"
<1>1. /\ DmTypeOK /\ MessageKept /\ NameEnds("owner") /\ UNCHANGED dmReply
      /\ UNCHANGED <<dmRead, dmIp>>
  BY DEF DmKept, NameFollows
<1>2. /\ DataStart = DataAt /\ DataAt \in Nat /\ InHand \in Records
      /\ Type = DmTypes[InHand.type] /\ NameSize(InHand.form, dmName) <= DmNameMax
      /\ Holds(dmMsg, DataAt, RecordData(InHand)) /\ dmRead + 1 \in 1 .. Len(dmAnswers)
  BY <1>1, OwnerRead
<1>3. /\ InHand.type = "CNAME" => JoinedAt(dmMsg, dmName, DataAt)
      /\ InHand.type = "MX" => JoinedAt(dmMsg, dmName, DataAt + 2)
      /\ InHand.type = "SOA" => JoinedAt(dmMsg, dmName, DataAt)
  BY <1>1, <1>2, DataWritten DEF InHand
<1>4. Type \in Domains => InHand.type = "CNAME"
  BY <1>2, RecordIs DEF DmTypes, Domains
<1>5. /\ Type = 15 => InHand.type = "MX"
      /\ Type = 6 => InHand.type = "SOA"
  BY <1>2, RecordIs DEF DmTypes
<1>6. DataAt' = DataAt /\ InHand' = InHand
  BY <1>1 DEF DataAt, OwnerLen, InHand, dmReply
<1>7. CASE Type \in Domains /\ ParsesName("data", DataStart)
  <2>1. dmFor' = "data" /\ dmAt' = "name" /\ InHand.type = "CNAME"
    BY <1>4, <1>7 DEF ParsesName
  <2>2. CalledAt' = DataStart
    BY <1>2, <1>6, <2>1 DEF CalledAt
  <2> QED BY <1>1, <1>2, <1>3, <1>7, <2>1, <2>2, DataNameKept
<1>8. CASE Type = 15 /\ ParsesName("data", DataStart + 2)
  <2>1. dmFor' = "data" /\ dmAt' = "name" /\ InHand.type = "MX"
    BY <1>5, <1>8 DEF ParsesName
  <2>2. CalledAt' = DataStart + 2
    BY <1>2, <1>6, <2>1 DEF CalledAt
  <2> QED BY <1>1, <1>2, <1>3, <1>8, <2>1, <2>2, DataNameKept
<1>9. CASE Type = 6 /\ ParsesName("mname", DataStart)
  <2>1. dmFor' = "mname" /\ dmAt' = "name" /\ InHand.type = "SOA"
    BY <1>5, <1>9 DEF ParsesName
  <2>2. CalledAt' = DataStart
    BY <1>2, <1>6, <2>1 DEF CalledAt
  <2> QED BY <1>1, <1>2, <1>3, <1>9, <2>1, <2>2, DataNameKept
<1> QED BY <1>7, <1>8, <1>9 DEF NameFollows

(* Where a name in the data ends, and that it fits.                        *)
LEMMA DataNameRead ==
  ASSUME DmKept, NameKept, NEW for \in {"data", "mname", "rname"}, NameEnds(for)
  PROVE  /\ Behind = CalledAt + 4 /\ NameSize("joined", dmName) <= DmNameMax
         /\ NameSize(InHand.form, dmName) <= DmNameMax /\ RecordFits(InHand)
         /\ for = "data" => InHand.type \in {"CNAME", "MX"}
         /\ for # "data" => InHand.type = "SOA"
         /\ dmRead + 1 \in 1 .. Len(dmAnswers) /\ DataAt \in Nat /\ InHand \in Records
         /\ Holds(dmMsg, DataAt, RecordData(InHand))
         /\ RecordEnd(dmRead + 1) = DataAt + Len(RecordData(InHand))
<1>1. DmTypeOK /\ MessageKept /\ dmAt = "name" /\ LabelLen = 0 /\ dmFor = for
  BY DEF DmKept, NameEnds
<1>2. /\ dmRead + 1 \in 1 .. Len(dmAnswers) /\ DataAt \in Nat /\ InHand \in Records
      /\ dmStarts[dmRead + 1] \in Nat /\ OwnerLen \in Nat
  BY <1>1, CalledAre
<1>3. CalledLen = 4 /\ CalledSize = NameSize("joined", dmName)
  BY <1>1 DEF CalledLen, CalledSize
<1>4. Behind = CalledAt + 4 /\ NameSize("joined", dmName) <= DmNameMax
  BY <1>1, <1>3, NameRead
<1>5. NameSize(InHand.form, dmName) <= DmNameMax
  BY <1>1 DEF NameKept
<1>6. /\ Holds(dmMsg, DataAt, RecordData(InHand))
      /\ RecordEnd(dmRead + 1) = DataAt + Len(RecordData(InHand))
  BY <1>1, <1>2, AnswerWritten DEF OwnerLen, InHand, DataAt
<1>7. RecordFits(InHand)
  BY <1>4, <1>5 DEF RecordFits
<1> QED BY <1>1, <1>2, <1>4, <1>5, <1>6, <1>7 DEF NameKept

LEMMA SecondFollowsKept ==
  ASSUME DmKept, NameKept, SoFar, SecondFollows
  PROVE  NameKept' /\ SoFar' /\ dmAt' = "name"
<1>1. /\ DmTypeOK /\ MessageKept /\ NameEnds("mname") /\ UNCHANGED dmReply
      /\ UNCHANGED <<dmRead, dmIp>> /\ ParsesName("rname", Behind)
  BY DEF DmKept, SecondFollows
<1>2. /\ Behind = CalledAt + 4 /\ NameSize("joined", dmName) <= DmNameMax
      /\ NameSize(InHand.form, dmName) <= DmNameMax /\ InHand.type = "SOA"
      /\ dmRead + 1 \in 1 .. Len(dmAnswers) /\ DataAt \in Nat
      /\ Holds(dmMsg, DataAt, RecordData(InHand))
  BY <1>1, DataNameRead
<1>3. CalledAt = DataAt
  BY <1>1 DEF NameEnds, CalledAt
<1>4. JoinedAt(dmMsg, dmName, Behind)
  BY <1>1, <1>2, <1>3, DataWritten DEF InHand
<1>5. DataAt' = DataAt /\ dmFor' = "rname" /\ dmAt' = "name"
  BY <1>1 DEF DataAt, OwnerLen, InHand, dmReply, ParsesName
<1>6. CalledAt' = Behind
  BY <1>2, <1>3, <1>5 DEF CalledAt
<1> QED BY <1>1, <1>2, <1>4, <1>5, <1>6, DataNameKept

\* What AnswerRead is about, once a record's end is reached.
Passed == SoFar' /\ (dmRead' < Len(dmAnswers') => dmCp' = dmStarts'[dmRead' + 1])

LEMMA AddressFoundKept ==
  ASSUME DmKept, Readable, NameKept, SoFar, AddressFound
  PROVE  Passed
<1>1. /\ DmTypeOK /\ MessageKept /\ NameEnds("owner") /\ UNCHANGED dmReply
      /\ dmIp' = OctetAt(DataStart) /\ AnswerEnds(DataStart + 4) /\ Type = 1
  BY DEF DmKept, AddressFound
<1>2. /\ DataStart = DataAt /\ DataAt \in Nat /\ InHand \in Records
      /\ Type = DmTypes[InHand.type] /\ NameSize(InHand.form, dmName) <= DmNameMax
      /\ Holds(dmMsg, DataAt, RecordData(InHand)) /\ dmRead + 1 \in 1 .. Len(dmAnswers)
      /\ RecordEnd(dmRead + 1) = DataAt + Len(RecordData(InHand))
  BY <1>1, OwnerRead
<1>3. InHand.type = "A"
  BY <1>1, <1>2, RecordIs DEF DmTypes
<1>4. dmIp' = InHand.address
  BY <1>1, <1>2, <1>3, DataWritten, OctetRead DEF InHand
<1>5. DataStart + 4 = RecordEnd(dmRead + 1)
  BY <1>2, <1>3, DataIsOctets
<1>6. RecordFits(InHand)
  BY <1>2, <1>3 DEF RecordFits, HasName
<1> QED BY <1>1, <1>2, <1>3, <1>4, <1>5, <1>6, AnswerRead DEF Passed

LEMMA StringsSkippedKept ==
  ASSUME DmKept, Readable, NameKept, SoFar, StringsSkipped
  PROVE  Passed
<1>1. /\ DmTypeOK /\ MessageKept /\ NameEnds("owner") /\ UNCHANGED dmReply
      /\ dmIp' = dmIp /\ Type = 13
      /\ LET second == DataStart + 1 + OctetAt(DataStart)
         IN  AnswerEnds(second + 1 + OctetAt(second))
  BY DEF DmKept, StringsSkipped
<1>2. /\ DataStart = DataAt /\ DataAt \in Nat /\ InHand \in Records
      /\ Type = DmTypes[InHand.type] /\ NameSize(InHand.form, dmName) <= DmNameMax
      /\ Holds(dmMsg, DataAt, RecordData(InHand)) /\ dmRead + 1 \in 1 .. Len(dmAnswers)
      /\ RecordEnd(dmRead + 1) = DataAt + Len(RecordData(InHand))
  BY <1>1, OwnerRead
<1>3. InHand.type = "HINFO"
  BY <1>1, <1>2, RecordIs DEF DmTypes
<1>4. OctetIn(dmMsg, DataAt) = 1 /\ OctetIn(dmMsg, DataAt + 2) = 2
  BY <1>1, <1>2, <1>3, DataWritten DEF InHand
<1>5. OctetAt(DataStart) = 1 /\ OctetAt(DataAt + 2) = 2
  BY <1>1, <1>2, <1>4, OctetRead
<1>6. DataStart + 1 + 1 = DataAt + 2 /\ DataAt + 2 + 1 + 2 = DataAt + 5
  BY <1>2
<1>7. AnswerEnds(DataAt + 5)
  BY <1>1, <1>5, <1>6
<1>8. DataAt + 5 = RecordEnd(dmRead + 1)
  BY <1>2, <1>3, DataIsOctets
<1>9. RecordFits(InHand)
  BY <1>2, <1>3 DEF RecordFits, HasName
<1> QED BY <1>1, <1>2, <1>3, <1>7, <1>8, <1>9, AnswerRead DEF Passed

LEMMA DataLeftKept ==
  ASSUME DmKept, Readable, NameKept, SoFar, DataLeft
  PROVE  Passed
<1>1. /\ DmTypeOK /\ MessageKept /\ NameEnds("owner") /\ UNCHANGED dmReply
      /\ dmIp' = dmIp /\ Type \notin Domains \cup {1, 6, 13, 15} /\ AnswerEnds(DataStart)
  BY DEF DmKept, DataLeft
<1>2. /\ InHand \in Records /\ Type = DmTypes[InHand.type]
      /\ NameSize(InHand.form, dmName) <= DmNameMax /\ dmRead + 1 \in 1 .. Len(dmAnswers)
  BY <1>1, OwnerRead
<1>3. InHand.type = "TXT"
  BY <1>1, <1>2, RecordIs DEF DmTypes, Domains
<1>4. RecordFits(InHand)
  BY <1>2, <1>3 DEF RecordFits, HasName
<1> QED BY <1>1, <1>2, <1>3, <1>4, AnswerRead DEF Passed

LEMMA DataParsedKept ==
  ASSUME DmKept, Readable, NameKept, SoFar, DataParsed
  PROVE  Passed
<1>1. UNCHANGED dmReply /\ dmIp' = dmIp
  BY DEF DataParsed
<1>2. CASE NameEnds("data") /\ AnswerEnds(Behind)
  <2>1. /\ Behind = CalledAt + 4 /\ RecordFits(InHand) /\ InHand.type \in {"CNAME", "MX"}
        /\ dmRead + 1 \in 1 .. Len(dmAnswers) /\ DataAt \in Nat /\ InHand \in Records
        /\ RecordEnd(dmRead + 1) = DataAt + Len(RecordData(InHand))
    BY <1>2, DataNameRead
  <2>2. CalledAt = IF InHand.type = "MX" THEN DataAt + 2 ELSE DataAt
    BY <1>2 DEF NameEnds, CalledAt
  <2>3. Len(RecordData(InHand)) = IF InHand.type = "MX" THEN 6 ELSE 4
    BY <2>1, DataIsOctets
  <2>4. Behind = RecordEnd(dmRead + 1)
    BY <2>1, <2>2, <2>3
  <2> QED BY <1>1, <1>2, <2>1, <2>4, AnswerRead DEF Passed
<1>3. CASE NameEnds("rname") /\ AnswerEnds(Behind + 20)
  <2>1. /\ Behind = CalledAt + 4 /\ RecordFits(InHand) /\ InHand.type = "SOA"
        /\ dmRead + 1 \in 1 .. Len(dmAnswers) /\ DataAt \in Nat /\ InHand \in Records
        /\ RecordEnd(dmRead + 1) = DataAt + Len(RecordData(InHand))
    BY <1>3, DataNameRead
  <2>2. CalledAt = DataAt + 4
    BY <1>3 DEF NameEnds, CalledAt
  <2>3. Len(RecordData(InHand)) = 28
    BY <2>1, DataIsOctets
  <2>4. Behind + 20 = RecordEnd(dmRead + 1)
    BY <2>1, <2>2, <2>3
  <2> QED BY <1>1, <1>3, <2>1, <2>4, AnswerRead DEF Passed
<1> QED BY <1>2, <1>3 DEF DataParsed
-----------------------------------------------------------------------------
(* What does not fit ends the parser, and nothing else does.               *)
LEMMA NameTooLongKept ==
  ASSUME DmKept, NameKept, NameTooLong
  PROVE  ~ NamesFit
<1>1. /\ DmTypeOK /\ dmAt = "name" /\ LabelLen # 0 /\ dmRoom < LabelLen + 1
      /\ dmRoom \in Nat /\ DmNameMax \in Nat /\ LabelLen \in Nat
  BY LabelIs, DmAssumption DEF DmKept, NameTooLong
<1>2. PICK octets \in Nat, size \in Nat : Remains(octets, size)
  BY DEF NameKept
<1>3. LabelLen + 1 <= size
  BY <1>1, <1>2, RoundIs DEF Remains
<1>4. CalledSize \in Nat /\ CalledSize > DmNameMax
  BY <1>1, <1>2, <1>3, CalledAre DEF Remains
<1>5. SUFFICES ASSUME NamesFit PROVE FALSE
  OBVIOUS
<1>6. CASE dmFor = "question"
  <2>1. CalledSize = NameSize("whole", dmName)
    BY <1>6 DEF CalledSize
  <2>2. NameSize("whole", dmName) <= DmNameMax
    BY <1>5 DEF NamesFit
  <2> QED BY <1>1, <1>4, <2>1, <2>2
<1>7. CASE dmFor # "question"
  <2>1. RecordFits(InHand)
    <3>1. dmRead + 1 \in DOMAIN dmAnswers
      BY <1>1, <1>7, CalledAre DEF DmTypeOK
    <3> QED BY <1>5, <3>1 DEF NamesFit, InHand
  <2>2. CASE dmFor = "owner"
    BY <1>1, <1>4, <2>1, <2>2 DEF RecordFits, CalledSize
  <2>3. CASE dmFor # "owner"
    <3>1. dmFor \in {"data", "mname", "rname"}
      BY <1>1, <1>7, <2>3 DEF DmTypeOK
    <3>2. InHand.type \in HasName
      BY <3>1 DEF NameKept, HasName
    <3> QED BY <1>1, <1>4, <1>7, <2>1, <2>3, <3>2 DEF RecordFits, CalledSize
  <2> QED BY <2>2, <2>3
<1> QED BY <1>6, <1>7

LEMMA ParserKeptStep ==
  ASSUME DmKept, Readable => ParserKept, [DmNext]_dmVars
  PROVE  Readable' => ParserKept'
<1> SUFFICES ASSUME Readable' PROVE ParserKept'
  OBVIOUS
<1>1. CASE AnswerAdded
  BY <1>1 DEF AnswerAdded, ParserKept
<1>2. CASE ReplyParsed
  BY <1>2, ReplyParsedKept DEF ReplyParsed, ParsesName, ParserKept
<1>3. CASE UNCHANGED dmReply
  <2>1. Readable /\ ParserKept
    BY <1>3 DEF Readable, dmReply
  <2>2. DmTypeOK /\ (dmAt = "name" => NameKept /\ SoFar)
    BY <2>1 DEF ParserKept, DmKept
  <2>3. CASE LabelParsed
    <3>1. SoFar'
      BY <1>3, <2>2, <2>3, SoFarRests DEF LabelParsed
    <3> QED BY <2>2, <2>3, <3>1, NameGoesOn DEF LabelParsed, ParserKept
  <2>4. CASE NameTooLong
    <3>1. ~ NamesFit
      BY <2>2, <2>4, NameTooLongKept DEF NameTooLong
    <3>2. NamesFit' = NamesFit
      BY <1>3 DEF NamesFit, RecordFits, NameSize, dmReply
    <3> QED BY <2>4, <3>1, <3>2 DEF NameTooLong, DmEnds, ParserKept
  <2>5. CASE QuestionParsed
    <3>1. /\ dmAt = "name" /\ LabelLen = 0 /\ dmFor = "question" /\ dmCp' = Behind + 4
          /\ dmAt' = "answers" /\ UNCHANGED <<dmRead, dmIp>>
      BY <2>5 DEF QuestionParsed, NameEnds
    <3>2. dmRead = 0 /\ CalledAt = HeaderLen /\ CalledLen = Size(dmName) + 1
      BY <2>2, <3>1 DEF NameKept, CalledAt, CalledLen
    <3>3. Behind = HeaderLen + (Size(dmName) + 1)
      BY <2>2, <3>1, <3>2, NameRead
    <3>4. RecordEnd(0) = dmCp'
      BY <2>2, <3>1, <3>3, SizesAre DEF DmKept, MessageKept, HeaderLen
    <3>5. dmRead' < Len(dmAnswers') => dmCp' = dmStarts'[dmRead' + 1]
      BY <1>3, <3>1, <3>2, <3>4 DEF RecordEnd, dmReply
    <3>6. SoFar'
      BY <1>3, <2>2, <3>1, SoFarRests
    <3> QED BY <3>1, <3>5, <3>6 DEF ParserKept
  <2>6. CASE AnswerStarts
    BY <2>1, <2>6, AnswerStartsKept DEF AnswerStarts, ParsesName, ParserKept
  <2>7. CASE AddressFound
    <3>1. dmAt' = "answers" /\ Passed
      BY <2>1, <2>2, <2>7, AddressFoundKept DEF AddressFound, NameEnds, AnswerEnds
    <3> QED BY <3>1 DEF Passed, ParserKept
  <2>8. CASE NameFollows
    BY <2>2, <2>8, NameFollowsKept DEF NameFollows, NameEnds, ParserKept
  <2>9. CASE StringsSkipped
    <3>1. dmAt' = "answers" /\ Passed
      BY <2>1, <2>2, <2>9, StringsSkippedKept DEF StringsSkipped, NameEnds, AnswerEnds
    <3> QED BY <3>1 DEF Passed, ParserKept
  <2>10. CASE DataLeft
    <3>1. dmAt' = "answers" /\ Passed
      BY <2>1, <2>2, <2>10, DataLeftKept DEF DataLeft, NameEnds, AnswerEnds
    <3> QED BY <3>1 DEF Passed, ParserKept
  <2>11. CASE SecondFollows
    BY <2>2, <2>11, SecondFollowsKept DEF SecondFollows, NameEnds, ParserKept
  <2>12. CASE DataParsed
    <3>1. dmAt' = "answers" /\ Passed
      BY <2>1, <2>2, <2>12, DataParsedKept DEF DataParsed, NameEnds, AnswerEnds
    <3> QED BY <3>1 DEF Passed, ParserKept
  <2>13. CASE AnswersParsed
    <3>1. /\ dmAt = "answers" /\ dmRead = Len(dmAnswers) /\ UNCHANGED <<dmRead, dmIp>>
          /\ dmAt' = "done" /\ dmResult' = (IF dmFailed THEN 0 ELSE 1)
      BY <2>13 DEF AnswersParsed, DmEnds
    <3>2. SoFar'
      BY <1>3, <2>1, <3>1, SoFarRests DEF ParserKept
    <3>3. dmAnswers' = dmAnswers /\ dmFailed' = dmFailed
      BY <1>3 DEF dmReply
    <3> QED BY <3>1, <3>2, <3>3 DEF ParserKept
  <2>14. CASE UNCHANGED dmVars
    <3>1. UNCHANGED <<dmReply, dmAt, dmFor, dmCp, dmIn, dmLen, dmJumped, dmRoom, dmRead, dmIp, dmResult>>
      BY <2>14 DEF dmVars, dmLoop
    <3>2. /\ SoFar => SoFar'
          /\ NamesFit' = NamesFit /\ dmFailed' = dmFailed
      BY <1>3, <3>1, SoFarRests DEF NamesFit, RecordFits, NameSize, dmReply
    <3>3. NameKept => NameKept'
      BY <3>1, CallRests DEF NameKept, Remains, NameSize, InHand, dmReply
    <3> QED BY <1>3, <2>1, <3>1, <3>2, <3>3 DEF ParserKept, dmReply
  <2> QED
    BY <1>1, <1>2, <2>3, <2>4, <2>5, <2>6, <2>7, <2>8, <2>9, <2>10, <2>11, <2>12,
       <2>13, <2>14 DEF DmNext
<1>4. AnswerAdded \/ ReplyParsed \/ UNCHANGED dmReply
  BY DEF DmNext, dmVars, LabelParsed, NameTooLong, QuestionParsed, AnswerStarts,
         AddressFound, NameFollows, StringsSkipped, DataLeft, SecondFollows, DataParsed,
         AnswersParsed
<1> QED BY <1>1, <1>2, <1>3, <1>4
LEMMA LastAddressIs ==
  ASSUME DmTypeOK, AddressIs(dmIp, Len(dmAnswers))
  PROVE  dmIp = LastAddress(dmAnswers)
<1> DEFINE found == {i \in DOMAIN dmAnswers : dmAnswers[i].type = "A"}
<1>1. DOMAIN dmAnswers = 1 .. Len(dmAnswers) /\ Len(dmAnswers) \in Nat
  BY DEF DmTypeOK
<1>2. CASE dmIp = Unwritten /\ \A j \in 1 .. Len(dmAnswers) : dmAnswers[j].type # "A"
  <2>1. found = {}
    BY <1>1, <1>2
  <2> QED BY <1>2, <2>1 DEF LastAddress
<1>3. ASSUME NEW i \in 1 .. Len(dmAnswers),
             dmAnswers[i].type = "A", dmIp = dmAnswers[i].address,
             \A j \in i + 1 .. Len(dmAnswers) : dmAnswers[j].type # "A"
      PROVE  dmIp = LastAddress(dmAnswers)
  <2>1. i \in found /\ found \subseteq Nat /\ \A j \in found : j <= i
    BY <1>1, <1>3
  <2> HIDE DEF found
  <2>2. \A k \in found : (\A j \in found : j <= k) => k = i
    BY <2>1
  <2>3. (CHOOSE k \in found : \A j \in found : j <= k) = i
    BY <2>1, <2>2
  <2>4. found # {}
    BY <2>1
  <2> DEFINE last == CHOOSE k \in found : \A j \in found : j <= k
  <2>5. LastAddress(dmAnswers) = IF found = {} THEN Unwritten ELSE dmAnswers[last].address
    BY DEF LastAddress, found
  <2> QED BY <1>3, <2>3, <2>4, <2>5
<1> QED BY <1>2, <1>3 DEF AddressIs

LEMMA DmIndInductive ==
  /\ DmInit => DmInd
  /\ DmInd /\ [DmNext]_dmVars => DmInd'
<1>1. DmInit => DmInd
  BY DmStarts DEF DmInd, ParserKept, DmInit
<1>2. DmInd /\ [DmNext]_dmVars => DmInd'
  BY DmKeptStep, ParserKeptStep DEF DmInd
<1> QED BY <1>1, <1>2

LEMMA DmIndReads == DmInd => DnsReplyRead
<1> SUFFICES ASSUME DmInd, dmAt = "done", Readable
             PROVE  /\ NamesFit <=> dmResult # -1
                    /\ dmResult # -1 =>
                         /\ dmIp = LastAddress(dmAnswers)
                         /\ dmResult = 1 <=> ~dmFailed
  BY DEF DnsReplyRead
<1>1. DmTypeOK /\ ParserKept
  BY DEF DmInd, DmKept
<1>2. CASE dmResult = -1
  BY <1>1, <1>2 DEF ParserKept
<1>3. CASE dmResult # -1
  <2>1. SoFar /\ dmRead = Len(dmAnswers) /\ dmResult = (IF dmFailed THEN 0 ELSE 1)
    BY <1>1, <1>3 DEF ParserKept
  <2>2. NamesFit
    <3>1. DOMAIN dmAnswers = 1 .. Len(dmAnswers)
      BY <1>1 DEF DmTypeOK
    <3> QED BY <1>1, <2>1, <3>1, SizesAre DEF NamesFit, SoFar
  <2>3. dmIp = LastAddress(dmAnswers)
    BY <1>1, <2>1, LastAddressIs DEF SoFar
  <2>4. dmResult = 1 <=> ~dmFailed
    BY <1>1, <2>1 DEF DmTypeOK
  <2> QED BY <1>3, <2>2, <2>3, <2>4
<1> QED BY <1>2, <1>3

(* The parser stays within the reply's records and parse_name within its   *)
(* buffer, whatever names are asked for and records are answered           *)
(* (parseDNSMSG).                                                          *)
THEOREM DmTyped == DmSpec => []DmTypeOK
<1>1. DmInd => DmTypeOK
  BY DEF DmInd, DmKept
<1> QED BY <1>1, DmIndInductive, PTL DEF DmSpec

(* For every name, however long the reply and however its names are        *)
(* compressed: the parser reads a reply whose names fit to its end, the    *)
(* address it leaves is that of the last address record, and it fails only *)
(* at a name that does not fit (parse_name, dns_answer, parseDNSMSG).      *)
THEOREM RepliesAreRead == DmSpec => []DnsReplyRead
<1> QED BY DmIndInductive, DmIndReads, PTL DEF DmSpec
=============================================================================
