------------------------------ MODULE DnsClient ------------------------------
(***************************************************************************)
(* src/Internet/DNS/dns.c: DNS_run, a call that blocks until the answer or *)
(* the last timeout, its one second timer, and the socket it opens on a    *)
(* port of its own for each call (src/Ethernet/socket.c, sock_any_port).   *)
(* The network loses, repeats and delays.                                  *)
(***************************************************************************)
EXTENDS Integers

CONSTANTS DnsCalls,        \* calls of DNS_run
          DnsPorts,        \* ephemeral ports: 0xC000 to 0xFFEF in the code
          DnsWait,         \* DNS_WAIT_TIME, 3 in the code
          DnsRetries       \* MAX_DNS_RETRY, 2 in the code

ASSUME DnsAssumption ==
  /\ DnsCalls \in Nat /\ DnsPorts \in Nat \ {0} /\ DnsCalls <= DnsPorts
  /\ DnsWait \in Nat \ {0} /\ DnsRetries \in Nat

VARIABLES
  dnsCall,         \* the number of this call, or of the last one
  dnsAt,           \* "idle" or "waiting"
  dnsPort,         \* the port of the socket
  dnsTick,         \* dns_1s_tick
  dnsRetry,        \* retry_count
  dnsTime,         \* ticks since DNS_run was called
  dnsQueries,      \* queries DNS_run put on the wire
  dnsWire,         \* all queries ever sent: the call and the port of each
  dnsRx,           \* answers in the socket's buffer, by the call they answer
  dnsResult        \* the call whose answer DNS_run returned, or TimedOut

dnsTimer == <<dnsTick, dnsRetry, dnsTime>>
dnsVars == <<dnsCall, dnsAt, dnsPort, dnsTimer, dnsQueries, dnsWire, dnsRx,
             dnsResult>>

DnsTimedOut == 0

DnsTypeOK ==
  /\ dnsCall \in 0 .. DnsCalls
  /\ dnsAt \in {"idle", "waiting"}
  /\ dnsPort \in 0 .. DnsPorts - 1
  /\ dnsTick \in 0 .. DnsWait
  /\ dnsRetry \in 0 .. DnsRetries
  /\ dnsTime \in Nat
  /\ dnsQueries \in 0 .. 1
  /\ dnsWire \subseteq (1 .. DnsCalls) \X (0 .. DnsPorts - 1)
  /\ dnsRx \subseteq 1 .. DnsCalls
  /\ dnsResult \in 0 .. DnsCalls

DnsInit ==
  /\ dnsCall = 0 /\ dnsAt = "idle" /\ dnsPort = 0
  /\ dnsTick = 0 /\ dnsRetry = 0 /\ dnsTime = 0
  /\ dnsQueries = 0 /\ dnsWire = {} /\ dnsRx = {} /\ dnsResult = DnsTimedOut

-----------------------------------------------------------------------------
(* The same port for every call.                                           *)
NextPortFixed(port) == port

(* The port the next socket() without a port takes.                        *)
NextPort(port) == (port + 1) % DnsPorts

(* DNS_run up to its loop: socket() empties the buffer.                    *)
DnsRun ==
  /\ dnsAt = "idle" /\ dnsCall < DnsCalls
  /\ dnsAt' = "waiting" /\ dnsCall' = dnsCall + 1
  /\ dnsTick' = 0 /\ dnsRetry' = 0 /\ dnsTime' = 0
  /\ dnsPort' = NextPort(dnsPort) /\ dnsRx' = {}
  /\ dnsWire' = dnsWire \cup {<<dnsCall', dnsPort'>>} /\ dnsQueries' = 1
  /\ UNCHANGED dnsResult

(* The first datagram is the answer: parseDNSMSG compares neither the      *)
(* message's id with DNS_MSGID nor its name with the one asked for.        *)
DnsAnswered ==
  /\ dnsAt = "waiting"
  /\ \E a \in dnsRx : dnsResult' = a
  /\ dnsAt' = "idle" /\ dnsRx' = {}
  /\ UNCHANGED <<dnsCall, dnsPort, dnsTimer, dnsQueries, dnsWire>>

(* check_DNS_timeout.  The query that is repeated has the length of the    *)
(* datagram that was not there, 0, and sendto sends nothing.               *)
DnsTimeout ==
  /\ dnsAt = "waiting" /\ dnsRx = {} /\ dnsTick >= DnsWait
  /\ dnsTick' = 0
  /\ IF dnsRetry >= DnsRetries
       THEN dnsRetry' = 0 /\ dnsAt' = "idle" /\ dnsResult' = DnsTimedOut
       ELSE dnsRetry' = dnsRetry + 1 /\ UNCHANGED <<dnsAt, dnsResult>>
  /\ UNCHANGED <<dnsCall, dnsPort, dnsTime, dnsQueries, dnsWire, dnsRx>>

(* DNS_time_handler.  The loop turns many times between two ticks.         *)
DnsTick ==
  /\ dnsAt = "waiting" /\ dnsTick < DnsWait
  /\ dnsTick' = dnsTick + 1 /\ dnsTime' = dnsTime + 1
  /\ UNCHANGED <<dnsCall, dnsAt, dnsPort, dnsRetry, dnsQueries, dnsWire, dnsRx,
                 dnsResult>>

(* An answer arrives, to any query sent from the port that is open.        *)
DnsArrives ==
  /\ dnsAt = "waiting"
  /\ \E q \in dnsWire : q[2] = dnsPort /\ dnsRx' = dnsRx \cup {q[1]}
  /\ UNCHANGED <<dnsCall, dnsAt, dnsPort, dnsTimer, dnsQueries, dnsWire,
                 dnsResult>>

DnsNext == DnsRun \/ DnsAnswered \/ DnsTimeout \/ DnsTick \/ DnsArrives
DnsSpec == DnsInit /\ [][DnsNext]_dnsVars

-----------------------------------------------------------------------------
(* The address DNS_run returns answers the name it was called with.  No    *)
(* id or name is compared: only the fresh port of each call keeps a late   *)
(* or repeated answer to an earlier one away (DnsRun, parseDNSMSG).        *)
DnsAnswerIsOwn == dnsAt = "waiting" => dnsRx \subseteq {dnsCall}

(* DNS_run ends after the first wait and MAX_DNS_RETRY more                *)
(* (check_DNS_timeout): one more than the comment at dns.h:95 allows for,  *)
(* by which the maximum is MAX_DNS_RETRY * DNS_WAIT_TIME.                  *)
DnsWithinTime ==
  /\ dnsTime <= (DnsRetries + 1) * DnsWait
  /\ dnsAt = "waiting" => dnsTime = dnsRetry * DnsWait + dnsTick

(* MAX_DNS_RETRY is the "Requery Count": a wait that ended without an      *)
(* answer has been followed by another query.                              *)
DnsRequeries == dnsAt = "waiting" => dnsQueries = dnsRetry + 1
=============================================================================
