----------------------------- MODULE SntpClient -----------------------------
(***************************************************************************)
(* src/Internet/SNTP/sntp.c: SNTP_run, called by the main loop until it    *)
(* returns the time, over a UDP socket on a fixed port, and a network that *)
(* delays and repeats; it loses requests where SntpLossy is TRUE.          *)
(***************************************************************************)
EXTENDS Integers

CONSTANTS SntpCalls,       \* times the application wants to know
          SntpWaitCount,   \* 0xFFF in the code
          SntpMaxCount,    \* 0xFFFF in the code
          SntpLossy        \* may a request get no answer?

ASSUME SntpAssumption ==
  /\ SntpCalls \in Nat
  /\ SntpWaitCount \in Nat \ {0, 1} /\ SntpMaxCount \in Nat \ {0, 1}
  /\ SntpLossy \in BOOLEAN

VARIABLES
  sntpWanted,      \* does the application still call SNTP_run?
  sntpCall,        \* times it got or is waiting for
  sntpOpen,        \* is NTP_SOCKET in SOCK_UDP?
  sntpRetry,       \* ntp_retry_cnt
  sntpAsked,       \* the calls a request was sent for
  sntpRx           \* answers in the socket's buffer, by the request

sntpVars == <<sntpWanted, sntpCall, sntpOpen, sntpRetry, sntpAsked, sntpRx>>

SntpTypeOK ==
  /\ sntpWanted \in BOOLEAN
  /\ sntpCall \in 0 .. SntpCalls
  /\ sntpOpen \in BOOLEAN
  /\ sntpRetry \in 0 .. SntpMaxCount
  /\ sntpAsked \subseteq 1 .. SntpCalls
  /\ sntpRx \subseteq 1 .. SntpCalls

(* SNTP_init leaves the socket closed; SNTP_run opens it.                  *)
SntpInit ==
  /\ sntpWanted = FALSE /\ sntpCall = 0 /\ sntpOpen = FALSE
  /\ sntpRetry = 0 /\ sntpAsked = {} /\ sntpRx = {}

-----------------------------------------------------------------------------
(* The application wants to know the time, and calls SNTP_run until it     *)
(* returns 1.                                                              *)
SntpWant ==
  /\ ~sntpWanted /\ sntpCall < SntpCalls
  /\ sntpWanted' = TRUE /\ sntpCall' = sntpCall + 1
  /\ UNCHANGED <<sntpOpen, sntpRetry, sntpAsked, sntpRx>>

SntpRunClosed ==
  /\ sntpWanted /\ ~sntpOpen
  /\ sntpOpen' = TRUE /\ sntpRx' = {}
  /\ UNCHANGED <<sntpWanted, sntpCall, sntpRetry, sntpAsked>>

(* The counter kept for the next call.                                     *)
SntpRunAnsweredCounting ==
  /\ sntpWanted /\ sntpOpen /\ sntpRx # {}
  /\ sntpOpen' = FALSE /\ sntpRx' = {}
  /\ sntpWanted' = FALSE
  /\ UNCHANGED <<sntpCall, sntpRetry, sntpAsked>>

(* Whatever came is the answer: its sender is not compared.                *)
SntpRunAnswered ==
  /\ sntpWanted /\ sntpOpen /\ sntpRx # {}
  /\ sntpRetry' = 0 /\ sntpOpen' = FALSE /\ sntpRx' = {}
  /\ sntpWanted' = FALSE
  /\ UNCHANGED <<sntpCall, sntpAsked>>

(* The counter counts requests, not calls: it stays at 1, which is no      *)
(* multiple of SntpWaitCount, and neither the second request nor the       *)
(* failure is ever reached.                                                *)
SendsNow == sntpRetry = 0 \/ sntpRetry % SntpWaitCount = 0

SntpRunWaiting ==
  /\ sntpWanted /\ sntpOpen /\ sntpRx = {}
  /\ IF sntpRetry >= SntpMaxCount
       THEN sntpRetry' = 0 /\ sntpOpen' = FALSE /\ UNCHANGED sntpAsked
       ELSE /\ UNCHANGED sntpOpen
            /\ IF SendsNow
                 THEN /\ sntpRetry' = sntpRetry + 1
                      /\ sntpAsked' = sntpAsked \cup {sntpCall}
                 ELSE UNCHANGED <<sntpRetry, sntpAsked>>
  /\ UNCHANGED <<sntpWanted, sntpCall, sntpRx>>

(* An answer arrives at the port, which is the same for every call.        *)
SntpArrives(call) ==
  /\ sntpOpen /\ call \in sntpAsked \ sntpRx
  /\ sntpRx' = sntpRx \cup {call}
  /\ UNCHANGED <<sntpWanted, sntpCall, sntpOpen, sntpRetry, sntpAsked>>

SntpRun == SntpRunClosed \/ SntpRunAnswered \/ SntpRunWaiting

SntpNext ==
  SntpWant \/ SntpRun \/ \E call \in 1 .. SntpCalls : SntpArrives(call)

(* A request is answered, unless the network is lossy.                     *)
SntpFairness ==
  /\ WF_sntpVars(SntpRun)
  /\ SntpLossy \/ WF_sntpVars(SntpArrives(sntpCall))

SntpSpec == SntpInit /\ [][SntpNext]_sntpVars /\ SntpFairness

-----------------------------------------------------------------------------
(* Each time the application wants to know is asked for, and an answer     *)
(* ends the wait: the counter of the time before is not in the way         *)
(* (ntp_retry_cnt in SNTP_run).                                            *)
SntpKnowsTime == sntpWanted ~> ~sntpWanted
=============================================================================
