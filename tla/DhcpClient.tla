----------------------------- MODULE DhcpClient -----------------------------
(***************************************************************************)
(* src/Internet/DHCP/dhcp.c: the state machine of DHCP_run, its timeouts,  *)
(* the parser's side effects, the lease, DHCP_init and DHCP_stop, against  *)
(* servers and a network that loses, repeats and delays.  The one second   *)
(* timer calls DHCP_time_handler; the main loop calls DHCP_run.            *)
(*                                                                         *)
(* DHCP_SIP and DHCP_REAL_SIP are one variable: a server's answers come    *)
(* from the address its identifier option names.  dhcp_tick_next is always *)
(* DHCP_WAIT_TIME when it is read, and DHCP_XID is never read again.  A    *)
(* server gives the client one address, which stands under its name.       *)
(***************************************************************************)
EXTENDS Integers

CONSTANTS DhcpServers,     \* the servers that hear the client
          LeaseTimes,      \* the lease times they may give, in ticks
          DhcpWait,        \* DHCP_WAIT_TIME, 10 in the code
          DhcpRetries,     \* MAX_DHCP_RETRY, 2 in the code
          MaxNaks,         \* refusals of a server
          LateAnswers      \* may an ACK or NAK outlive the next request?

Infinite == 0              \* INFINITE_LEASETIME
NoServer == "none"         \* and the address 0.0.0.0

(* The longest time a renewal takes before it is given up: the rounding of *)
(* half a lease, the retries, and the call that notices the last one.  The *)
(* second half of a lease must cover that, and the time the answer was on  *)
(* its way, which is one tick less: 47 ticks with the code's values.       *)
RenewalTime == 2 + DhcpRetries * (DhcpWait + 1)

ASSUME DhcpAssumption ==
  /\ NoServer \notin DhcpServers
  /\ DhcpWait \in Nat \ {0} /\ DhcpRetries \in Nat \ {0}
  /\ LeaseTimes \subseteq Nat
  /\ \E longest \in LeaseTimes : \A t \in LeaseTimes : t <= longest
  /\ \A t \in LeaseTimes : t = Infinite \/ t - t \div 2 >= 2 * RenewalTime - 1
  /\ MaxNaks \in Nat
  /\ LateAnswers \in BOOLEAN

VARIABLES
  dhcpState,       \* dhcp_state
  dhcpRetry,       \* dhcp_retry_count
  dhcpTick,        \* dhcp_tick_1s
  sip,             \* DHCP_SIP and DHCP_REAL_SIP
  allocated,       \* DHCP_allocated_ip
  oldAllocated,    \* OLD_allocated_ip
  leaseTime,       \* dhcp_lease_time
  chipIp,          \* SIPR, the address the controller uses
  sockOpen,        \* is DHCP_SOCKET in SOCK_UDP?
  polled,          \* has DHCP_run been called since the last tick?
  onWire,          \* what the client sent and may still reach a server
  answers,         \* what servers sent and may still reach the client
  leaseOf,         \* the lease time each server gives
  granted,         \* the servers that have given their address
  grantAge,        \* per server: ticks since it last did
  naks             \* refusals so far

dhcpTimers == <<dhcpRetry, dhcpTick>>
dhcpNet    == <<onWire, answers>>
dhcpServer == <<leaseOf, granted, grantAge, naks>>
dhcpVars   == <<dhcpState, dhcpTimers, sip, allocated, oldAllocated, leaseTime,
                chipIp, sockOpen, polled, dhcpNet, dhcpServer>>

DhcpStates == {"INIT", "DISCOVER", "REQUEST", "LEASED", "REREQUEST", "STOP"}
MaxLease   == CHOOSE t \in LeaseTimes \cup {RenewalTime} :
                \A u \in LeaseTimes \cup {RenewalTime} : u <= t

ClientMessages ==
  [type : {"DISCOVER"}, ip : {NoServer}, server : {NoServer}]
    \cup [type : {"REQUEST", "RENEW"}, ip : DhcpServers, server : DhcpServers]
Answers == [type : {"OFFER", "ACK", "NAK"}, ip : DhcpServers, server : DhcpServers]

DhcpTypeOK ==
  /\ dhcpState \in DhcpStates
  /\ dhcpRetry \in 0 .. DhcpRetries
  /\ dhcpTick \in 0 .. MaxLease
  /\ sip \in DhcpServers \cup {NoServer}
  /\ {allocated, oldAllocated, chipIp} \subseteq DhcpServers \cup {NoServer}
  /\ leaseTime \in LeaseTimes \cup {Infinite}
  /\ sockOpen \in BOOLEAN /\ polled \in BOOLEAN
  /\ onWire \subseteq ClientMessages
  /\ answers \subseteq Answers
  /\ leaseOf \in [DhcpServers -> LeaseTimes]
  /\ granted \subseteq DhcpServers
  /\ grantAge \in [DhcpServers -> 0 .. MaxLease + 1]
  /\ naks \in 0 .. MaxNaks

DhcpInit ==
  /\ dhcpState = "INIT" /\ dhcpRetry = 0 /\ dhcpTick = 0
  /\ sip = NoServer /\ allocated = NoServer /\ oldAllocated = NoServer
  /\ leaseTime = Infinite /\ chipIp = NoServer
  /\ sockOpen = FALSE /\ polled = TRUE
  /\ onWire = {} /\ answers = {}
  /\ leaseOf \in [DhcpServers -> LeaseTimes]
  /\ granted = {} /\ grantAge = [s \in DhcpServers |-> 0] /\ naks = 0

-----------------------------------------------------------------------------
(* send_DHCP_DISCOVER and send_DHCP_REQUEST.  A request goes to everybody, *)
(* a renewal to the server only; which of the two is decided by the state  *)
(* the client is still in.                                                 *)

Discover == [type |-> "DISCOVER", ip |-> NoServer, server |-> NoServer]

SendDiscover ==
  /\ sip' = NoServer
  /\ onWire' = onWire \cup {Discover}

(* Requests a new exchange makes stale are gone, with their answers, where *)
(* LateAnswers is FALSE.                                                   *)
SendRequest(type, ip, server) ==
  /\ onWire' = (IF LateAnswers THEN onWire ELSE onWire \cap {Discover})
                 \cup {[type |-> type, ip |-> ip, server |-> server]}
  /\ answers' = IF LateAnswers THEN answers
                ELSE {a \in answers : a.type = "OFFER"}

RepeatRequest(type, server) ==
  /\ sip' = server
  /\ onWire' = onWire \cup {[type |-> type, ip |-> allocated, server |-> server]}

ResetTimeout == dhcpTick' = 0 /\ dhcpRetry' = 0

(* check_DHCP_timeout gives up as soon as it is called with the retries    *)
(* used: it does not look at the clock again.  s is the server known once  *)
(* this call's datagram has been parsed.                                   *)
GivesUp == dhcpRetry >= DhcpRetries
TimesOut == ~GivesUp /\ DhcpWait < dhcpTick

CheckTimeout(s) ==
  /\ UNCHANGED answers
  /\ IF GivesUp
       THEN /\ ResetTimeout
            /\ IF dhcpState = "DISCOVER"
                 THEN dhcpState' = "INIT" /\ sip' = s /\ UNCHANGED onWire
                 ELSE dhcpState' = "DISCOVER" /\ SendDiscover
       ELSE /\ UNCHANGED dhcpState
            /\ IF TimesOut
                 THEN /\ dhcpTick' = 0 /\ dhcpRetry' = dhcpRetry + 1
                      /\ CASE dhcpState = "DISCOVER"  -> SendDiscover
                           [] dhcpState = "REQUEST"   -> RepeatRequest("REQUEST", s)
                           [] dhcpState = "REREQUEST" -> RepeatRequest("RENEW", s)
                 ELSE sip' = s /\ UNCHANGED <<dhcpTimers, onWire>>

-----------------------------------------------------------------------------
(* DHCP_run.  The socket is opened when it is not; parseDHCPMSG takes one  *)
(* datagram, if there is one, and stores what it finds in it before        *)
(* DHCP_run looks at its own state.                                        *)

Nothing == [type |-> "none", ip |-> NoServer, server |-> NoServer]

(* Every server listened to.                                               *)
HeardAll(m) == TRUE

(* Another server's message is dropped once a server is known.             *)
Heard(m) == sip = NoServer \/ m.server = sip

Received ==
  IF sockOpen THEN {Nothing} \cup {m \in answers : Heard(m)} ELSE {Nothing}

(* The options of an OFFER or ACK: the server and its lease.  A NAK        *)
(* carries the server only.                                                *)
ParsedSip(m)   == IF m = Nothing THEN sip ELSE m.server
ParsedLease(m) == IF m.type \in {"OFFER", "ACK"} THEN leaseOf[m.server]
                  ELSE leaseTime

DhcpRun(m) ==
  /\ dhcpState # "STOP" /\ m \in Received
  /\ sockOpen' = TRUE /\ polled' = TRUE
  /\ leaseTime' = ParsedLease(m)
  /\ UNCHANGED dhcpServer

RunInit(m) ==
  /\ DhcpRun(m) /\ dhcpState = "INIT"
  /\ allocated' = NoServer
  /\ SendDiscover
  /\ dhcpState' = "DISCOVER"
  /\ UNCHANGED <<dhcpTimers, oldAllocated, chipIp, answers>>

RunOffer(m) ==
  /\ DhcpRun(m) /\ dhcpState = "DISCOVER" /\ m.type = "OFFER"
  /\ sip' = m.server
  /\ allocated' = m.ip
  /\ SendRequest("REQUEST", m.ip, m.server)
  /\ dhcpState' = "REQUEST"
  /\ UNCHANGED <<dhcpTimers, oldAllocated, chipIp>>

(* check_DHCP_leasedIP always says the address is free; dhcp_ip_assign is  *)
(* the default handler.                                                    *)
RunAck(m) ==
  /\ DhcpRun(m) /\ dhcpState = "REQUEST" /\ m.type = "ACK"
  /\ sip' = m.server
  /\ chipIp' = allocated
  /\ ResetTimeout
  /\ dhcpState' = "LEASED"
  /\ UNCHANGED <<allocated, oldAllocated, dhcpNet>>

RunNak(m) ==
  /\ DhcpRun(m) /\ dhcpState \in {"REQUEST", "REREQUEST"} /\ m.type = "NAK"
  /\ sip' = m.server
  /\ ResetTimeout
  /\ dhcpState' = "DISCOVER"
  /\ UNCHANGED <<allocated, oldAllocated, chipIp, dhcpNet>>

Awaited ==
  CASE dhcpState = "DISCOVER" -> {"OFFER"}
    [] OTHER -> {"ACK", "NAK"}

(* The timeout looked at only when nothing has come.                       *)
RunWaitingInSilence(m) ==
  /\ DhcpRun(m)
  /\ dhcpState \in {"DISCOVER", "REQUEST", "REREQUEST"}
  /\ m.type \notin Awaited
  /\ IF m = Nothing THEN CheckTimeout(sip)
     ELSE UNCHANGED <<dhcpState, dhcpTimers, dhcpNet>> /\ sip' = m.server
  /\ UNCHANGED <<allocated, oldAllocated, chipIp>>

(* Nothing the state waits for: the timeout is looked at.  What was parsed *)
(* stays, unless the timeout sends another DISCOVER.                       *)
RunWaiting(m) ==
  /\ DhcpRun(m)
  /\ dhcpState \in {"DISCOVER", "REQUEST", "REREQUEST"}
  /\ m.type \notin Awaited
  /\ CheckTimeout(ParsedSip(m))
  /\ UNCHANGED <<allocated, oldAllocated, chipIp>>

(* A renewal at the end of the lease.                                      *)
RenewalDueAtEnd(lease) == lease # Infinite /\ lease < dhcpTick

RenewalDue(lease) == lease # Infinite /\ lease \div 2 < dhcpTick

RunLeased(m) ==
  /\ DhcpRun(m) /\ dhcpState = "LEASED"
  /\ ~RenewalDue(ParsedLease(m))
  /\ sip' = ParsedSip(m)
  /\ UNCHANGED <<dhcpState, dhcpTimers, allocated, oldAllocated, chipIp, dhcpNet>>

RunRenew(m) ==
  /\ DhcpRun(m) /\ dhcpState = "LEASED"
  /\ RenewalDue(ParsedLease(m))
  /\ sip' = ParsedSip(m)
  /\ oldAllocated' = allocated
  /\ SendRequest("RENEW", allocated, sip')
  /\ ResetTimeout
  /\ dhcpState' = "REREQUEST"
  /\ UNCHANGED <<allocated, chipIp>>

(* The address in the answer is not looked at: DHCP_allocated_ip is still  *)
(* the old one, and the branch for a changed address is never taken.       *)
RunRenewed(m) ==
  /\ DhcpRun(m) /\ dhcpState = "REREQUEST" /\ m.type = "ACK"
  /\ sip' = m.server
  /\ chipIp' = IF oldAllocated # allocated THEN allocated ELSE chipIp
  /\ ResetTimeout
  /\ dhcpState' = "LEASED"
  /\ UNCHANGED <<allocated, oldAllocated, dhcpNet>>

(* DHCP_stop closes the socket; DHCP_init starts again, whatever is known. *)
DhcpStop ==
  /\ dhcpState # "STOP" /\ dhcpState' = "STOP"
  /\ sockOpen' = FALSE
  /\ UNCHANGED <<dhcpTimers, sip, allocated, oldAllocated, leaseTime, chipIp,
                 polled, dhcpNet, dhcpServer>>

DhcpRestart ==
  /\ dhcpState = "STOP" /\ dhcpState' = "INIT"
  /\ ResetTimeout
  /\ chipIp' = NoServer
  /\ UNCHANGED <<sip, allocated, oldAllocated, leaseTime, sockOpen, polled,
                 dhcpNet, dhcpServer>>

(* DHCP_time_handler.  The main loop calls DHCP_run between two ticks; the *)
(* counter is not followed past the longest lease.                         *)
DhcpTick ==
  /\ polled /\ polled' = FALSE
  /\ dhcpTick' = IF dhcpTick < MaxLease THEN dhcpTick + 1 ELSE dhcpTick
  /\ grantAge' = [s \in DhcpServers |->
                    IF s \in granted /\ grantAge[s] <= MaxLease
                      THEN grantAge[s] + 1 ELSE grantAge[s]]
  /\ UNCHANGED <<dhcpState, dhcpRetry, sip, allocated, oldAllocated, leaseTime,
                 chipIp, sockOpen, dhcpNet, leaseOf, granted, naks>>

-----------------------------------------------------------------------------
(* A server, and the network: any message may be answered any number of    *)
(* times, at any time, or never.                                           *)

Answer(type, ip, s) ==
  /\ answers' = answers \cup {[type |-> type, ip |-> ip, server |-> s]}
  /\ UNCHANGED <<dhcpState, dhcpTimers, sip, allocated, oldAllocated, leaseTime,
                 chipIp, sockOpen, polled, onWire, leaseOf>>

Offer(s) ==
  /\ Discover \in onWire
  /\ Answer("OFFER", s, s)
  /\ UNCHANGED <<granted, grantAge, naks>>

Requested(s) == {m \in onWire : m.type # "DISCOVER" /\ m.server = s}

Acknowledge(s) ==
  /\ \E m \in Requested(s) : Answer("ACK", m.ip, s)
  /\ granted' = granted \cup {s} /\ grantAge' = [grantAge EXCEPT ![s] = 0]
  /\ UNCHANGED naks

Refuse(s) ==
  /\ naks < MaxNaks /\ naks' = naks + 1
  /\ \E m \in Requested(s) : Answer("NAK", m.ip, s)
  /\ UNCHANGED <<granted, grantAge>>

-----------------------------------------------------------------------------
RunStep ==
  \E m \in Received :
    \/ RunInit(m) \/ RunOffer(m) \/ RunAck(m) \/ RunNak(m) \/ RunWaiting(m)
    \/ RunLeased(m) \/ RunRenew(m) \/ RunRenewed(m)

DhcpNext ==
  \/ RunStep \/ DhcpTick \/ DhcpStop \/ DhcpRestart
  \/ \E s \in DhcpServers : Offer(s) \/ Acknowledge(s) \/ Refuse(s)

(* The main loop and the timer go on.                                      *)
DhcpFairness == WF_dhcpVars(RunStep) /\ WF_dhcpVars(DhcpTick)

DhcpSpec == DhcpInit /\ [][DhcpNext]_dhcpVars /\ DhcpFairness

-----------------------------------------------------------------------------
(* The address in use is one the chosen server has acknowledged: neither   *)
(* another server's answer nor a refused request makes a lease (the server *)
(* comparison in parseDHCPMSG, the states of DHCP_run).                    *)
LeaseAcknowledged ==
  dhcpState \in {"LEASED", "REREQUEST"} =>
    /\ sip # NoServer
    /\ chipIp = allocated
    /\ sip \in granted /\ allocated = sip

(* DHCP_run answers DHCP_IP_LEASED only while the server holds the address *)
(* for it: half a lease, the renewal's retries and the time an answer was  *)
(* on its way fit in it (check_DHCP_timeout, STATE_DHCP_LEASED).           *)
LeaseRespected ==
  dhcpState \in {"LEASED", "REREQUEST"} /\ sip \in granted =>
    leaseOf[sip] = Infinite \/ grantAge[sip] <= leaseOf[sip]

(* A request or a renewal ends, in a lease or in a new start, whatever     *)
(* other messages keep arriving: each state that waits looks at its        *)
(* timeout (check_DHCP_timeout in DHCP_run).                               *)
DhcpExchangeEnds ==
  (dhcpState \in {"REQUEST", "REREQUEST"}) ~> (dhcpState \notin {"REQUEST", "REREQUEST"})

(* Each transmission has its DHCP_WAIT_TIME, "Wait Time 10s", to be        *)
(* answered before the client gives up.                                    *)
WaitsBeforeGivingUp ==
  [][(dhcpState \in {"REQUEST", "REREQUEST"} /\ dhcpState' = "DISCOVER"
        /\ sip' = NoServer)
      => dhcpTick > DhcpWait]_dhcpVars
=============================================================================
