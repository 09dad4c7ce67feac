------------------------------ MODULE SnmpAgent ------------------------------
(***************************************************************************)
(* src/Internet/SNMP/snmp.c: snmpd_run, which answers one request at a     *)
(* time out of the table snmpData (snmp_custom.c), and a manager that      *)
(* sends well-formed requests and may repeat them.  An object identifier   *)
(* is the number of its entry, from 1; 0 stands for those without entry.   *)
(*                                                                         *)
(* setEntry copies a text of any length into the MAX_STRING octets of its  *)
(* entry.  One that is longer writes over the entry's function pointers    *)
(* and what is behind them; what the agent does from then on is not        *)
(* described (snmpSpilled), and all that is said of it is said of before.  *)
(***************************************************************************)
EXTENDS Integers, Sequences, SequencesExt

CONSTANTS SnmpTypes,       \* the data type of each entry of snmpData, in order
          SnmpFirst,       \* the octets each entry starts with
          SnmpValues,      \* the values a SET may carry: [type, octets]
          SnmpBindings,    \* variable bindings in a request, at most
          SnmpString,      \* MAX_STRING
          SnmpOctet,       \* values of an octet: 256
          SnmpShort,       \* longest length in the short form: 127
          SnmpOidLen,      \* octets of a name with its type and length
          SnmpTicks        \* ticks counted

DataTypes == {"STRING", "OID", "INTEGER", "TICKS"}
SnmpIds   == DOMAIN SnmpTypes
NotFound  == 0
Octets    == 0 .. SnmpOctet - 1
Strings   == UNION {[1 .. n -> Octets] : n \in 0 .. SnmpString}

IntOctets == 4             \* octets of an int32_t

(* What an entry starts with and a manager sends: text of any length       *)
(* without NUL, and numbers that an int32_t holds.                         *)
WellFormed(type, octets) ==
  /\ octets \in Seq(Octets)
  /\ type = "STRING" => \A k \in DOMAIN octets : octets[k] # 0
  /\ type = "INTEGER" => Len(octets) \in 1 .. IntOctets
  /\ type = "TICKS" => Len(octets) <= IntOctets

ASSUME SnmpAssumption ==
  /\ SnmpTypes \in Seq(DataTypes) /\ SnmpFirst \in [SnmpIds -> Strings]
  /\ \A id \in SnmpIds : WellFormed(SnmpTypes[id], SnmpFirst[id])
  /\ \A v \in SnmpValues : v.type \in DataTypes /\ WellFormed(v.type, v.octets)
  /\ {SnmpBindings, SnmpString, SnmpOctet, SnmpShort, SnmpOidLen, SnmpTicks}
       \subseteq Nat \ {0}
  /\ SnmpString > IntOctets

VARIABLES
  snmpOpen,        \* is SOCK_SNMP_AGENT in SOCK_UDP?
  snmpTick,        \* snmp_tick_10ms - startTime
  snmpData,        \* .u and .dataLen of every entry
  snmpRequest,     \* request_msg, or NoPdu
  snmpDone,        \* its bindings that are in response_msg, and their size
  snmpError,       \* <<errorStatus, errorIndex + 1>>
  snmpResponse,    \* the response sendto is at work on, or NoPdu
  snmpTold,        \* history: the value each entry was last given
  snmpMixed,       \* history: the strings a shorter one was written into
  snmpSpilled      \* has a text been written beyond its entry?

snmpWork == <<snmpRequest, snmpDone, snmpError>>
snmpHist == <<snmpTold, snmpMixed, snmpSpilled>>
snmpVars == <<snmpOpen, snmpTick, snmpData, snmpWork, snmpResponse, snmpHist>>

NullValue == [type |-> "NULL", octets |-> <<>>]
BindLists(values) ==
  UNION {[1 .. n -> [id : SnmpIds \cup {NotFound}, value : values]] :
           n \in 1 .. SnmpBindings}

(* `long': are the lengths in the headers written in the long form where   *)
(* the short one would do?                                                 *)
SnmpRequests ==
  [type : {"GET", "GETNEXT"}, binds : BindLists({NullValue}), long : BOOLEAN]
    \cup [type : {"SET"}, binds : BindLists(SnmpValues), long : BOOLEAN]

NoPdu == [type |-> "NONE", binds |-> <<>>]
NoError == <<"NONE", 0>>

-----------------------------------------------------------------------------
(* BER: a header is a type and a length of one octet, or of two in the     *)
(* long form.                                                              *)
Header(len, long) == IF long \/ len > SnmpShort THEN 3 ELSE 2

BindLen(bind) == SnmpOidLen + 2 + Len(bind.value.octets)

IdsLen == 9                \* request id, error status and error index
VersionLen == 11           \* version and community

Total(sizes) == FoldLeft(LAMBDA sum, size : sum + size, 0, sizes)

(* The headers of a request, which the response copies.                    *)
BindHeader(r, i) == Header(BindLen(r.binds[i]), r.long)
ListLen(r) ==
  Total([i \in DOMAIN r.binds |-> BindHeader(r, i) + BindLen(r.binds[i])])
ListHeader(r) == Header(ListLen(r), r.long)
PduLen(r) == IdsLen + ListHeader(r) + ListLen(r)
PduHeader(r) == Header(PduLen(r), r.long)
MessageLen(r) == VersionLen + PduHeader(r) + PduLen(r)
MessageHeader(r) == Header(MessageLen(r), r.long)

(* insertRespLen: a length that needs more than the header has room for is *)
(* cut, and one above SnmpShort in a short header is none at all.          *)
Garbled == -1
LenField(header, len) ==
  IF header = 2 THEN IF len <= SnmpShort THEN len ELSE Garbled
  ELSE len % (2 * SnmpShort + 2)

-----------------------------------------------------------------------------
(* getValue, which shifts the octets into the four of an int32_t, and its  *)
(* inverse in getEntry.                                                    *)
IntOf(octets) ==
  [k \in 1 .. IntOctets |->
     IF k + Len(octets) > IntOctets THEN octets[k + Len(octets) - IntOctets] ELSE 0]
OctetsOf(int, len) == [k \in 1 .. len |-> int[IntOctets - len + k]]

(* The octets of a number.                                                 *)
Ticks(n) ==
  LET q == SnmpOctet
  IN  <<(n \div (q * q * q)) % q, (n \div (q * q)) % q, (n \div q) % q, n % q>>

(* strlen of an entry.  One that is full ends with the octets behind it:   *)
(* those of getfunction, which is NULL for every text of the table.        *)
Strlen(text) ==
  CHOOSE n \in 0 .. SnmpString :
    /\ n < SnmpString => text[n + 1] = 0
    /\ \A k \in 1 .. n : text[k] # 0

(* The copy of setEntry, which ends with no NUL, of a text that fits.      *)
Overwritten(text, octets) ==
  [k \in DOMAIN text |-> IF k <= Len(octets) THEN octets[k] ELSE text[k]]

NoText == [k \in 1 .. SnmpString |-> 0]
IsText(id) == SnmpTypes[id] \in {"STRING", "OID"}

Entry(id, was, octets) ==
  [text |-> IF IsText(id) THEN Overwritten(was, octets) ELSE was,
   int  |-> IF IsText(id) THEN IntOf(<<>>) ELSE IntOf(octets),
   len  |-> Len(octets)]

(* snmpd_init with initTable; the trap it sends leaves no state behind.    *)
SnmpInit ==
  /\ snmpOpen = FALSE /\ snmpTick = 0
  /\ snmpData = [id \in SnmpIds |-> Entry(id, NoText, SnmpFirst[id])]
  /\ snmpRequest = NoPdu /\ snmpDone = <<>> /\ snmpError = NoError
  /\ snmpResponse = NoPdu
  /\ snmpTold = SnmpFirst /\ snmpMixed = {} /\ snmpSpilled = FALSE

-----------------------------------------------------------------------------
SnmpTick ==
  /\ snmpTick < SnmpTicks
  /\ snmpTick' = snmpTick + 1
  /\ UNCHANGED <<snmpOpen, snmpData, snmpWork, snmpResponse, snmpHist>>

SnmpRunClosed ==
  /\ ~snmpOpen
  /\ snmpOpen' = TRUE
  /\ UNCHANGED <<snmpTick, snmpData, snmpWork, snmpResponse, snmpHist>>

(* snmpd_run waits for the end of its sendto.                              *)
AtRest == snmpOpen /\ snmpRequest = NoPdu /\ snmpResponse = NoPdu

SnmpSent ==
  /\ snmpResponse # NoPdu
  /\ snmpResponse' = NoPdu
  /\ UNCHANGED <<snmpOpen, snmpTick, snmpData, snmpWork, snmpHist>>

(* The error of the request before left where it is.                       *)
SnmpRunRequestAgain(r) ==
  /\ AtRest
  /\ snmpRequest' = r /\ snmpDone' = <<>>
  /\ UNCHANGED <<snmpOpen, snmpTick, snmpData, snmpError, snmpResponse, snmpHist>>

(* A request is in the socket: the headers down to the list of bindings.   *)
SnmpRunRequest(r) ==
  /\ AtRest
  /\ snmpRequest' = r /\ snmpDone' = <<>> /\ snmpError' = NoError
  /\ UNCHANGED <<snmpOpen, snmpTick, snmpData, snmpResponse, snmpHist>>

(* A version or a community that is not ours gets no answer; for a type of *)
(* request that is not known parseCommunity takes parseRequest's -1 for a  *)
(* size, and what is copied so far is sent.                                *)
SnmpRunRefused(answered) ==
  /\ AtRest
  /\ snmpError' = NoError /\ snmpDone' = <<>>
  /\ snmpResponse' = IF answered THEN [NoPdu EXCEPT !.type = "CUT"] ELSE NoPdu
  /\ UNCHANGED <<snmpOpen, snmpTick, snmpData, snmpRequest, snmpHist>>

(* parseVarBind and parseSequence on the next binding.                     *)
Place == Len(snmpDone) + 1
Bind  == snmpRequest.binds[Place]

Found ==
  IF snmpRequest.type # "GETNEXT" THEN Bind.id
  ELSE IF Bind.id + 1 > Len(SnmpTypes) THEN NotFound ELSE Bind.id + 1

(* The header of a binding left out of its size.                           *)
BoundHeaderless(id, value) ==
  LET size == BindLen([id |-> id, value |-> value])
  IN  snmpDone' = Append(snmpDone,
        [id |-> id, value |-> value, size |-> size,
         field |-> LenField(BindHeader(snmpRequest, Place), size)])

Bound(id, value) ==
  LET size == BindLen([id |-> id, value |-> value])
  IN  snmpDone' = Append(snmpDone,
        [id |-> id, value |-> value, size |-> BindHeader(snmpRequest, Place) + size,
         field |-> LenField(BindHeader(snmpRequest, Place), size)])

InBinding == snmpRequest # NoPdu /\ Place <= Len(snmpRequest.binds)

(* The copy of the request's value, and the error in the variables that    *)
(* the last binding to fail overwrites.                                    *)
BindFails(status) ==
  /\ Bound(Bind.id, Bind.value)
  /\ snmpError' = <<status, Place>>
  /\ UNCHANGED <<snmpData, snmpHist>>

(* getEntry: currentUptime stores the ticks, strlen finds a string's end.  *)
Fetched(id) ==
  LET e == snmpData[id]
  IN  CASE SnmpTypes[id] = "STRING" -> [e EXCEPT !.len = Strlen(e.text)]
        [] SnmpTypes[id] = "TICKS" -> [e EXCEPT !.int = Ticks(snmpTick), !.len = 4]
        [] OTHER -> e

FetchedOctets(id) ==
  LET e == Fetched(id)
  IN  IF IsText(id) THEN SubSeq(e.text, 1, e.len)
      ELSE OctetsOf(e.int, IF e.len # 0 THEN e.len ELSE 4)

BindRead ==
  /\ Bound(Found, [type |-> SnmpTypes[Found], octets |-> FetchedOctets(Found)])
  /\ snmpData' = [snmpData EXCEPT ![Found] = Fetched(Found)]
  /\ UNCHANGED <<snmpError, snmpHist>>

(* What the manager is told is there: a SET that succeeds replaces it.     *)
Told ==
  /\ snmpTold' = [snmpTold EXCEPT ![Found] = Bind.value.octets]
  /\ snmpMixed' =
       IF /\ SnmpTypes[Found] = "STRING"
          /\ Len(Bind.value.octets) < Strlen(snmpData[Found].text)
       THEN snmpMixed \cup {Found} ELSE snmpMixed \ {Found}
  /\ UNCHANGED snmpSpilled

(* A value that keeps the length of the one before.                        *)
BindWrittenAtLength ==
  /\ Bound(Bind.id, Bind.value) /\ Told
  /\ snmpData' = [snmpData EXCEPT ![Found] =
       [Entry(Found, @.text, Bind.value.octets) EXCEPT !.len = snmpData[Found].len]]
  /\ UNCHANGED snmpError

(* setEntry; no entry of the table as it stands has a setfunction.         *)
BindWritten ==
  /\ Bound(Bind.id, Bind.value) /\ Told
  /\ snmpData' = [snmpData EXCEPT ![Found] =
                    Entry(Found, @.text, Bind.value.octets)]
  /\ UNCHANGED snmpError

(* setEntry on a text longer than its entry.                               *)
BindSpills ==
  /\ snmpSpilled' = TRUE
  /\ UNCHANGED <<snmpDone, snmpData, snmpError, snmpTold, snmpMixed>>

TextFits == IsText(Found) => Len(Bind.value.octets) <= SnmpString

VarBind ==
  /\ InBinding
  /\ IF Found = NotFound THEN BindFails("NO_SUCH_NAME")
     ELSE IF snmpRequest.type # "SET" THEN BindRead
     ELSE IF SnmpTypes[Found] # Bind.value.type THEN BindFails("BAD_VALUE")
     ELSE IF TextFits THEN BindWritten ELSE BindSpills
  /\ UNCHANGED <<snmpOpen, snmpTick, snmpRequest, snmpResponse>>

(* The lengths are inserted on the way back, from the sizes the parsers    *)
(* return: parseRequest counts its own header where the header of the list *)
(* belongs, and so does parseSNMPMessage.                                  *)
SnmpRespond ==
  /\ snmpRequest # NoPdu /\ ~InBinding
  /\ LET list == Total([i \in DOMAIN snmpDone |-> snmpDone[i].size])
         pdu  == PduHeader(snmpRequest) + IdsLen + list
         msg  == MessageHeader(snmpRequest) + VersionLen + pdu
     IN  snmpResponse' =
           [type |-> "RESPONSE", request |-> snmpRequest, binds |-> snmpDone,
            error |-> snmpError,
            list |-> LenField(ListHeader(snmpRequest), list),
            pdu |-> LenField(PduHeader(snmpRequest), pdu),
            message |-> LenField(MessageHeader(snmpRequest), msg)]
  /\ snmpRequest' = NoPdu /\ snmpDone' = <<>>
  /\ UNCHANGED <<snmpOpen, snmpTick, snmpData, snmpError, snmpHist>>

SnmpNext ==
  /\ ~snmpSpilled
  /\ \/ SnmpTick \/ SnmpRunClosed \/ VarBind \/ SnmpRespond \/ SnmpSent
     \/ \E r \in SnmpRequests : SnmpRunRequest(r)
     \/ \E answered \in BOOLEAN : SnmpRunRefused(answered)

SnmpSpec == SnmpInit /\ [][SnmpNext]_snmpVars

-----------------------------------------------------------------------------
SnmpTypeOK ==
  /\ snmpOpen \in BOOLEAN /\ snmpTick \in 0 .. SnmpTicks
  /\ \A id \in SnmpIds :
       /\ snmpData[id].text \in [1 .. SnmpString -> Octets]
       /\ snmpData[id].int \in [1 .. IntOctets -> Octets]
       /\ snmpData[id].len \in 0 .. SnmpString
  /\ snmpRequest = NoPdu \/ snmpRequest.type \in {"GET", "GETNEXT", "SET"}
  /\ Len(snmpDone) <= Len(snmpRequest.binds)
  /\ snmpError \in {"NONE", "NO_SUCH_NAME", "BAD_VALUE"} \X (0 .. SnmpBindings)
  /\ snmpTold \in [SnmpIds -> Strings] /\ snmpMixed \subseteq SnmpIds
  /\ snmpSpilled \in BOOLEAN

(* What is wrong with the i-th binding of a request, by the table alone.   *)
Failure(r, i) ==
  LET b == r.binds[i]
  IN  IF \/ r.type = "GETNEXT" /\ b.id = Len(SnmpTypes)
         \/ r.type # "GETNEXT" /\ b.id = NotFound THEN "NO_SUCH_NAME"
      ELSE IF r.type = "SET" /\ SnmpTypes[b.id] # b.value.type THEN "BAD_VALUE"
      ELSE "NONE"

Answered == snmpResponse.type = "RESPONSE"

(* A response without error is to a request of which every binding         *)
(* succeeded; one with an error names a binding that failed and says how,  *)
(* whatever the requests before it ended with (errorStatus and errorIndex, *)
(* globals that parseVarBind and setEntry write and snmpd_run resets).     *)
SnmpErrorNamed ==
  Answered =>
    LET r == snmpResponse.request
        e == snmpResponse.error
    IN  IF e = NoError THEN \A i \in DOMAIN r.binds : Failure(r, i) = "NONE"
        ELSE e[1] # "NONE" /\ e[1] = Failure(r, e[2])

(* GET and GETNEXT answer with the value the entry was last given, through *)
(* getValue, dataLen and the octets of getEntry.  A string that setEntry   *)
(* has copied into a longer one, without its end, comes with what was      *)
(* behind it; the uptime is not what a SET wrote.                          *)
SnmpGetsWhatWasSet ==
  snmpRequest.type \in {"GET", "GETNEXT"} =>
    \A i \in DOMAIN snmpDone :
      LET b == snmpDone[i]
      IN  \/ Failure(snmpRequest, i) # "NONE" \/ SnmpTypes[b.id] = "TICKS"
          \/ /\ b.value.type = SnmpTypes[b.id]
             /\ IF b.id \in snmpMixed THEN IsPrefix(snmpTold[b.id], b.value.octets)
                ELSE b.value.octets = snmpTold[b.id]

(* Every length in a response is that of what follows it (insertRespLen,   *)
(* with the sizes parseVarBind to parseSNMPMessage return), where the      *)
(* request's headers have room for them and the headers of the message, of *)
(* the request and of the list are of one form.                            *)
SnmpFramed ==
  Answered =>
    LET r     == snmpResponse.request
        binds == snmpResponse.binds
        list  == Total([i \in DOMAIN binds |->
                          BindHeader(r, i) + BindLen(binds[i])])
        pdu   == IdsLen + ListHeader(r) + list
        msg   == VersionLen + PduHeader(r) + pdu
        Room(header, len) ==
          len \in 0 .. (IF header = 2 THEN SnmpShort ELSE 2 * SnmpShort + 1)
    IN  /\ \A i \in DOMAIN binds : Room(BindHeader(r, i), BindLen(binds[i])) =>
             binds[i].field = BindLen(binds[i])
        /\ /\ ListHeader(r) = PduHeader(r) /\ PduHeader(r) = MessageHeader(r)
           /\ Room(ListHeader(r), list) /\ Room(PduHeader(r), pdu)
           /\ Room(MessageHeader(r), msg)
           => /\ snmpResponse.list = list /\ snmpResponse.pdu = pdu
              /\ snmpResponse.message = msg
=============================================================================
