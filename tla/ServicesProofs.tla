--------------------------- MODULE ServicesProofs ---------------------------
(***************************************************************************)
(* Theorems about the services side by side: what ClientProofs,            *)
(* NetworkSettingsProofs, RegisterProofs and ProtocolProofs prove of each  *)
(* alone holds of the whole.  A step of the whole is a step of one and     *)
(* none of the others (OneMoves), so the inductive invariants are kept     *)
(* together, each by the lemma of its own service (ServicesInvStep).       *)
(***************************************************************************)
EXTENDS Services, ClientProofs, NetworkSettingsProofs, RegisterProofs,
        ProtocolProofs, TLAPS

(* SntpClient: whoever waits for the time has asked for it.                *)
SntpTypes == SntpTypeOK /\ (sntpWanted => sntpCall >= 1)

LEMMA SntpTypesInit == SntpInit => SntpTypes
<1>1. 0 \in 0 .. SntpMaxCount /\ 0 \in 0 .. SntpCalls
  BY SntpAssumption
<1> QED BY <1>1 DEF SntpInit, SntpTypes, SntpTypeOK

LEMMA SntpTypesStep == SntpTypes /\ [SntpNext]_sntpVars => SntpTypes'
<1> SUFFICES ASSUME SntpTypes, [SntpNext]_sntpVars PROVE SntpTypes'
  OBVIOUS
<1> USE SntpAssumption DEF SntpTypes, SntpTypeOK
<1>k. 0 \in 0 .. SntpMaxCount
  OBVIOUS
<1>1. CASE SntpWant
  BY <1>1 DEF SntpWant
<1>2. CASE SntpRunClosed
  BY <1>2 DEF SntpRunClosed
<1>3. CASE SntpRunAnswered
  BY <1>3, <1>k DEF SntpRunAnswered
<1>4. CASE SntpRunWaiting
  <2>1. CASE sntpRetry >= SntpMaxCount
    BY <1>4, <2>1, <1>k DEF SntpRunWaiting
  <2>2. CASE ~(sntpRetry >= SntpMaxCount)
    <3>1. sntpRetry' \in 0 .. SntpMaxCount
      BY <1>4, <2>2 DEF SntpRunWaiting
    <3>2. sntpCall \in 1 .. SntpCalls
      BY <1>4 DEF SntpRunWaiting
    <3>3. sntpAsked' \subseteq 1 .. SntpCalls
      BY <1>4, <2>2, <3>2 DEF SntpRunWaiting
    <3> QED BY <1>4, <3>1, <3>3 DEF SntpRunWaiting
  <2> QED BY <2>1, <2>2
<1>5. ASSUME NEW call \in 1 .. SntpCalls, SntpArrives(call) PROVE SntpTypes'
  BY <1>5 DEF SntpArrives
<1>6. CASE UNCHANGED sntpVars
  BY <1>6 DEF sntpVars
<1> QED BY <1>1, <1>2, <1>3, <1>4, <1>5, <1>6 DEF SntpNext, SntpRun

(* The variables hold what they are declared to hold, whatever the answers *)
(* and their order, and the counter stays within its limit (SNTP_run).     *)
THEOREM SntpTyped == SntpSpec => []SntpTypeOK
<1>1. SntpTypes => SntpTypeOK
  BY DEF SntpTypes
<1> QED BY <1>1, SntpTypesInit, SntpTypesStep, PTL DEF SntpSpec

-----------------------------------------------------------------------------
(* The services at once.                                                   *)
ServicesInv ==
  /\ service \in Running
  /\ TftpTypes /\ LeaseInv /\ DnsInv /\ SntpTypes /\ HttpInv /\ MqInv
  /\ SnmpInv /\ ValueInv /\ SzInv /\ RingInv /\ TmTypeOK
  /\ NetTypes /\ NetIInv /\ InfoIInv /\ PhyInv /\ DmInd /\ CalInv /\ CalShaped

(* A step is one of a single service, and the others do not move.          *)
LEMMA OneMoves ==
  [ServicesNext]_servicesVars =>
    /\ UNCHANGED service
    /\ [TftpNext]_tftpVars /\ [DhcpNext]_dhcpVars /\ [DnsNext]_dnsVars
    /\ [SntpNext]_sntpVars /\ [HttpNext]_httpVars /\ [MqttNext]_mqVars
    /\ [SnmpNext]_snmpVars /\ [SzNext]_szVars /\ [RingNext]_ringVars
    /\ [TmNext]_tmVars /\ [NetNext]_netVars /\ [PhyNext]_phyVars
    /\ [DmNext]_dmVars /\ [CalNext]_calVars
<1>1. CASE UNCHANGED servicesVars
  BY <1>1 DEF servicesVars
<1>2. CASE ServicesNext
  BY <1>2 DEF ServicesNext, AtWork
<1> QED BY <1>1, <1>2

LEMMA ServicesInvInit == ServicesInit => ServicesInv
<1>1. DmInit => DmInd
  BY DmIndInductive
<1> QED BY <1>1, TftpTypesInit, LeaseStarts, DnsInvInit, SntpTypesInit,
           HttpInvInit, MqInvInit, ValueInvInit, SzInvInit, RingInvInit,
           TmTypesInit, NetTypesInit, NetStarts, InfoStarts, PhyInvInit,
           CalStarts, CalShapedInit
        DEF ServicesInit, ServicesInv, ValueInv

LEMMA ServicesInvStep ==
  ServicesInv /\ [ServicesNext]_servicesVars => ServicesInv'
<1> SUFFICES ASSUME ServicesInv, [ServicesNext]_servicesVars PROVE ServicesInv'
  OBVIOUS
<1>1. DmInd /\ [DmNext]_dmVars => DmInd'
  BY DmIndInductive
<1>2. service' \in Running
  BY OneMoves DEF ServicesInv
<1>3. TftpTypes' /\ LeaseInv' /\ DnsInv' /\ SntpTypes' /\ HttpInv' /\ MqInv'
  BY OneMoves, TftpTypesStep, LeaseStep, DnsInvStep, SntpTypesStep, HttpInvStep,
     MqInvStep DEF ServicesInv
<1>4. SnmpInv' /\ ValueInv' /\ SzInv' /\ RingInv' /\ TmTypeOK'
  BY OneMoves, SnmpInvStep, ValueInvStep, SzInvStep, RingStep, TmTypesStep
     DEF ServicesInv
<1>5. NetTypes' /\ NetIInv' /\ InfoIInv' /\ PhyInv'
  BY OneMoves, NetTypesStep, NetStepKeepsFloor, NetStepKeepsInfo, PhyInvStep
     DEF ServicesInv
<1>6. DmInd' /\ CalInv' /\ CalShaped'
  BY <1>1, OneMoves, CalSteps, CalShapedStep DEF ServicesInv
<1> QED BY <1>2, <1>3, <1>4, <1>5, <1>6 DEF ServicesInv

-----------------------------------------------------------------------------
(* Whichever service is at work, every variable of every one holds what it *)
(* is declared to hold: counters within their limits, indices within their *)
(* buffers, states the code has a name for (TFTP_run, DHCP_run, DNS_run,   *)
(* SNTP_run, httpServer_run, MQTTYield, snmpd_run and the driver below).   *)
THEOREM ServicesTyped == ServicesSpec => []ServicesTypeOK
<1>1. ServicesInv => ServicesTypeOK
  <2> SUFFICES ASSUME ServicesInv PROVE ServicesTypeOK
    OBVIOUS
  <2>1. TftpTypeOK /\ DhcpTypeOK /\ DnsTypeOK /\ SntpTypeOK /\ HttpTypeOK
    BY DEF ServicesInv, TftpTypes, LeaseInv, DnsInv, SntpTypes, HttpInv
  <2>2. MqttTypeOK /\ SnmpTypeOK /\ SzTypeOK /\ RingTypeOK /\ TmTypeOK
    BY ValuesAreTyped DEF ServicesInv, MqInv, SzInv, RingInv
  <2>3. NetTypeOK /\ PhyTypeOK /\ DmTypeOK /\ CalTypeOK
    BY NetIsTyped, CalIsTyped DEF ServicesInv, PhyInv, DmInd, DmKept
  <2> QED BY <2>1, <2>2, <2>3 DEF ServicesInv, ServicesTypeOK
<1> QED BY <1>1, ServicesInvInit, ServicesInvStep, PTL DEF ServicesSpec

(* What the services promise their callers, clients, servers and brokers.  *)
Promises ==
  /\ LeaseAcknowledged /\ DnsAnswerIsOwn /\ DnsReplyRead
  /\ HttpResponseExact /\ MqttAckIsOwn
  /\ SnmpErrorNamed /\ SnmpGetsWhatWasSet /\ SnmpFramed /\ SntpDateIsCivil
  /\ SizeIsReal /\ NetInfoKept /\ TimeoutCoversWindow /\ PhyObeys

LEMMA InvPromises == ServicesInv => Promises
<1> SUFFICES ASSUME ServicesInv PROVE Promises
  OBVIOUS
<1>1. LeaseAcknowledged
  BY DhcpAssumption
     DEF ServicesInv, LeaseInv, ChoiceKept, LeaseAcknowledged, Leasing
<1>2. DnsAnswerIsOwn /\ DnsReplyRead
  BY DmIndReads DEF ServicesInv, DnsInv
<1>3. HttpResponseExact /\ MqttAckIsOwn
  BY SentIsExact, InboxIsOwn DEF ServicesInv
<1>4. SnmpErrorNamed /\ SnmpGetsWhatWasSet /\ SnmpFramed /\ SntpDateIsCivil
  BY ResponseIsNamed, ValuesAreTold, LengthsFollow, CalTells DEF ServicesInv
<1>5. SizeIsReal /\ NetInfoKept /\ TimeoutCoversWindow /\ PhyObeys
  BY InfoIsKept, FreeIsCovered, RestIsTold DEF ServicesInv, SzInv
<1> QED BY <1>1, <1>2, <1>3, <1>4, <1>5 DEF Promises

(* Each service keeps what it promises next to the others, for any values  *)
(* of the constants of all of them: no answer is taken for another's, no   *)
(* piece of a response comes twice or out of its place and none is missing *)
(* but those send() did not put out, what a SET wrote is answered until a  *)
(* SET overruns its entry, no length or date is wrong and no setting torn, *)
(* up to the cases each promise names (what DHCP_run, DNS_run, MQTTYield,  *)
(* httpServer_run and snmpd_run answer, getSn_RX_RSR, wizchip_getnetinfo,  *)
(* wizphy_setphyconf).                                                     *)
THEOREM ServicesKeepPromises == ServicesSpec => []Promises
<1> QED BY ServicesInvInit, ServicesInvStep, InvPromises, PTL DEF ServicesSpec

(* Where block numbers do not wrap and no packet of an earlier transfer    *)
(* arrives, the TFTP client next to the others acknowledges only what it   *)
(* has stored and implements FileTransfer, but for a transfer that a       *)
(* packet left in its buffer from before the request misleads              *)
(* (recv_tftp_data, TFTP_run).                                             *)
THEOREM ServicesTransferFile ==
  ASSUME Undisturbed
  PROVE  ServicesSpec => []AckedIsStored /\ TransferImplemented
<1>1. TftpInv /\ [ServicesNext]_servicesVars => TftpInv'
  BY OneMoves, TftpInvStep
<1>2. TftpInv => AckedIsStored
  BY DEF TftpInv
<1>3. ServicesInit => TftpInv /\ Transfer!Init
  BY TftpInvInit DEF ServicesInit, TftpInit, Transfer!Init
<1>4. TftpInv /\ [ServicesNext]_servicesVars =>
        [Transfer!Next]_<<Outcome, stored, spoiled>>
  BY OneMoves, TransferStep
<1> QED BY <1>1, <1>2, <1>3, <1>4, PTL
        DEF ServicesSpec, TransferImplemented, Transfer!Spec, Outcome

(* Where no answer outlives the request after it, the DHCP client next to  *)
(* the others gives its address up in time (DHCP_run, check_DHCP_timeout). *)
THEOREM ServicesRespectLeases ==
  ASSUME ~LateAnswers
  PROVE  ServicesSpec => []LeaseRespected
<1> DEFINE Inv == LeaseInv /\ TimeInv
<1>1. ServicesInit => Inv
  BY LeaseStarts, TimeStarts DEF ServicesInit
<1>2. Inv /\ [ServicesNext]_servicesVars => Inv'
  BY OneMoves, LeaseStep, TimeStep
<1>3. Inv => LeaseRespected
  BY TimeIsEnough
<1> QED BY <1>1, <1>2, <1>3, PTL DEF ServicesSpec

(* Where one task asks for the time, the timeline it sees next to the      *)
(* services is the real one (wizchip_time_now).                            *)
THEOREM ServicesTimeReal ==
  ASSUME OneTask
  PROVE  ServicesSpec => []TimeIsReal
<1>1. ServicesInit => TmInv
  BY TmInvInit DEF ServicesInit
<1>2. TmInv /\ [ServicesNext]_servicesVars => TmInv'
  BY OneMoves, TmInvStep
<1>3. TmInv => TimeIsReal
  BY DEF TmInv
<1> QED BY <1>1, <1>2, <1>3, PTL DEF ServicesSpec

(* The ring memory under a socket is a queue next to the services too, for *)
(* any memory and pointers (wiz_send_data, wiz_recv_data).                 *)
THEOREM ServicesQueue == ServicesSpec => QueueImplemented
<1>1. ServicesInit => RingInv /\ Queue!Init
  BY RingInvInit DEF ServicesInit
<1>2. RingInv /\ [ServicesNext]_servicesVars =>
        RingInv' /\ [Queue!Next]_<<ringFilled, RingQueue, ringTaken>>
  BY OneMoves, RingStep
<1> QED BY <1>1, <1>2, PTL
        DEF ServicesSpec, QueueImplemented, Queue!Spec, RingQueue, CellsFrom
=============================================================================
