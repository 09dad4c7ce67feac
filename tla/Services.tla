------------------------------ MODULE Services ------------------------------
(***************************************************************************)
(* The protocols of src/Internet and the parts of the driver they stand    *)
(* on, side by side.  They share no state: each has a socket of its own,   *)
(* and what one does never enables or changes what another does.  So a     *)
(* behaviour is that of one of them, the `service', next to the others at  *)
(* rest, and a run checks as many of them as Running names.                *)
(***************************************************************************)
EXTENDS TftpClient, DhcpClient, DnsClient, SntpClient, HttpServer, MqttClient,
        SnmpAgent, SizeRegister, RingMemory, TimeBase,
        NetworkSettings, PhyControl, DnsMessage, SntpCalendar

CONSTANT Running           \* the services a run is about

VARIABLE service           \* the one that is at work

ServiceNames == {"tftp", "dhcp", "dns", "sntp", "http", "mqtt", "snmp",
                 "size", "ring", "time", "settings", "phy", "reply",
                 "calendar"}

ASSUME ServicesAssumption == Running \subseteq ServiceNames

servicesVars ==
  <<service, tftpVars, dhcpVars, dnsVars, sntpVars, httpVars, mqVars,
    snmpVars, szVars, ringVars, tmVars, netVars, phyVars, dmVars, calVars>>

AtWork(name) == service = name /\ UNCHANGED service

(* One question, without an answer.                                        *)
ReplyAtRest ==
  dmName = (CHOOSE name \in DmNames : TRUE) /\ dmFailed = FALSE

(* One time, in one zone.                                                  *)
CalendarAtRest ==
  /\ calNtp = <<CHOOSE d \in CalDays : TRUE, CHOOSE s \in CalSeconds : TRUE>>
  /\ calZone = CHOOSE z \in CalZones : TRUE

(* A service at rest is in one of its initial states.                      *)
Resting ==
  /\ service = "dhcp" \/ leaseOf = CHOOSE f \in [DhcpServers -> LeaseTimes] : TRUE
  /\ service = "size" \/ szChip = "w5500"
  /\ service = "settings" \/ netRequested = CHOOSE o \in NetOperations : o >= Window(NetResetTimeouts)
  /\ service = "ring" \/ (ringWr = 0 /\ ringMem[0] = CHOOSE o \in RingOctets : TRUE)

ServicesInit ==
  /\ service \in Running
  /\ service = "reply" \/ ReplyAtRest
  /\ service = "calendar" \/ CalendarAtRest
  /\ DmInit /\ CalInit
  /\ TftpInit /\ DhcpInit /\ DnsInit /\ SntpInit /\ HttpInit /\ MqttInit
  /\ SnmpInit /\ SzInit /\ RingInit /\ TmInit /\ NetInit /\ PhyInit
  /\ Resting

ServicesNext ==
  \/ AtWork("tftp") /\ TftpNext
       /\ UNCHANGED <<dhcpVars, dnsVars, sntpVars, httpVars, mqVars, snmpVars,
                      szVars, ringVars, tmVars, netVars, phyVars, dmVars, calVars>>
  \/ AtWork("dhcp") /\ DhcpNext
       /\ UNCHANGED <<tftpVars, dnsVars, sntpVars, httpVars, mqVars, snmpVars,
                      szVars, ringVars, tmVars, netVars, phyVars, dmVars, calVars>>
  \/ AtWork("dns") /\ DnsNext
       /\ UNCHANGED <<tftpVars, dhcpVars, sntpVars, httpVars, mqVars, snmpVars,
                      szVars, ringVars, tmVars, netVars, phyVars, dmVars, calVars>>
  \/ AtWork("sntp") /\ SntpNext
       /\ UNCHANGED <<tftpVars, dhcpVars, dnsVars, httpVars, mqVars, snmpVars,
                      szVars, ringVars, tmVars, netVars, phyVars, dmVars, calVars>>
  \/ AtWork("http") /\ HttpNext
       /\ UNCHANGED <<tftpVars, dhcpVars, dnsVars, sntpVars, mqVars, snmpVars,
                      szVars, ringVars, tmVars, netVars, phyVars, dmVars, calVars>>
  \/ AtWork("mqtt") /\ MqttNext
       /\ UNCHANGED <<tftpVars, dhcpVars, dnsVars, sntpVars, httpVars, snmpVars,
                      szVars, ringVars, tmVars, netVars, phyVars, dmVars, calVars>>
  \/ AtWork("snmp") /\ SnmpNext
       /\ UNCHANGED <<tftpVars, dhcpVars, dnsVars, sntpVars, httpVars, mqVars,
                      szVars, ringVars, tmVars, netVars, phyVars, dmVars, calVars>>
  \/ AtWork("size") /\ SzNext
       /\ UNCHANGED <<tftpVars, dhcpVars, dnsVars, sntpVars, httpVars, mqVars,
                      snmpVars, ringVars, tmVars, netVars, phyVars, dmVars, calVars>>
  \/ AtWork("ring") /\ RingNext
       /\ UNCHANGED <<tftpVars, dhcpVars, dnsVars, sntpVars, httpVars, mqVars,
                      snmpVars, szVars, tmVars, netVars, phyVars, dmVars, calVars>>
  \/ AtWork("time") /\ TmNext
       /\ UNCHANGED <<tftpVars, dhcpVars, dnsVars, sntpVars, httpVars, mqVars,
                      snmpVars, szVars, ringVars, netVars, phyVars, dmVars, calVars>>
  \/ AtWork("settings") /\ NetNext
       /\ UNCHANGED <<tftpVars, dhcpVars, dnsVars, sntpVars, httpVars, mqVars,
                      snmpVars, szVars, ringVars, tmVars, phyVars, dmVars, calVars>>
  \/ AtWork("phy") /\ PhyNext
       /\ UNCHANGED <<tftpVars, dhcpVars, dnsVars, sntpVars, httpVars, mqVars,
                      snmpVars, szVars, ringVars, tmVars, netVars, dmVars, calVars>>
  \/ AtWork("reply") /\ DmNext
       /\ UNCHANGED <<tftpVars, dhcpVars, dnsVars, sntpVars, httpVars, mqVars,
                      snmpVars, szVars, ringVars, tmVars, netVars, phyVars, calVars>>
  \/ AtWork("calendar") /\ CalNext
       /\ UNCHANGED <<tftpVars, dhcpVars, dnsVars, sntpVars, httpVars, mqVars,
                      snmpVars, szVars, ringVars, tmVars, netVars, phyVars, dmVars>>

ServicesSpec == ServicesInit /\ [][ServicesNext]_servicesVars

(* The service at work is treated as fairly as its own module says.        *)
ServicesFairness ==
  /\ WF_tftpVars(service = "tftp" /\ TftpRunStep)
  /\ WF_tftpVars(service = "tftp" /\ TftpTick)
  /\ WF_dhcpVars(service = "dhcp" /\ RunStep)
  /\ WF_dhcpVars(service = "dhcp" /\ DhcpTick)
  /\ WF_sntpVars(service = "sntp" /\ SntpRun)
  /\ WF_sntpVars(service = "sntp" /\ ~SntpLossy /\ SntpArrives(sntpCall))
  /\ WF_httpVars(service = "http" /\ HttpRun)
  /\ WF_httpVars(service = "http" /\ httpSr = "FIN" /\ ConnectionEnds)
  /\ WF_mqVars(service = "mqtt" /\ Cycle)
  /\ WF_mqVars(service = "mqtt" /\ BrokerReads)

FairServicesSpec == ServicesSpec /\ ServicesFairness

-----------------------------------------------------------------------------
(* The state of every service is what its variables are declared to hold.  *)
ServicesTypeOK ==
  /\ service \in Running
  /\ TftpTypeOK /\ DhcpTypeOK /\ DnsTypeOK /\ SntpTypeOK /\ HttpTypeOK
  /\ MqttTypeOK /\ SnmpTypeOK /\ SzTypeOK /\ RingTypeOK /\ TmTypeOK
  /\ NetTypeOK /\ PhyTypeOK /\ DmTypeOK /\ CalTypeOK
=============================================================================
