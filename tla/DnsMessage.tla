------------------------------ MODULE DnsMessage ------------------------------
(***************************************************************************)
(* src/Internet/DNS/dns.c: the question dns_makequery writes, and          *)
(* parseDNSMSG, which finds an address among the records of the reply by   *)
(* adding up the lengths of names, some of which point back into the       *)
(* message.  A step of the parser is one round of parse_name's loop or     *)
(* what a function does between two names.                                 *)
(*                                                                         *)
(* A name is the length of its text and the places of its dots.  A message *)
(* is a sequence of octets; what a label consists of is one octet.         *)
(***************************************************************************)
EXTENDS Integers, Sequences

CONSTANTS DmNames,         \* names that are asked for
          DmNameMax,       \* MAXCNAME, 192 in the code
          DmRecords        \* answer records of a reply, at most

HeaderLen == 12
Pointer == 192             \* 0xc0: the next octet is an offset
Letter == 97
Unwritten == 0             \* ip_from_dns as the caller left it

\* A name's text and its NUL fit into sname; no component is empty.
ASSUME DmAssumption ==
  /\ DmNameMax \in Nat /\ DmNameMax <= Pointer /\ DmRecords \in Nat
  /\ \A name \in DmNames :
       /\ name.chars \in Nat /\ 0 < name.chars /\ name.chars < DmNameMax
       /\ name.dots \subseteq 2 .. name.chars - 1
       /\ \A d \in name.dots : d + 1 \notin name.dots

\* The record types that dns_answer tells apart; TXT stands for the others,
\* whose data it does not skip.
DmTypes == [A |-> 1, CNAME |-> 5, SOA |-> 6, HINFO |-> 13, MX |-> 15, TXT |-> 16]
Domains == {2, 5, 7, 8, 9, 12}     \* NS, CNAME, MB, MG, MR, PTR: one name

-----------------------------------------------------------------------------
(* The question, and the records of a server *)

\* What the labels of a name take, in a message and in parse_name's buffer.
Size(name) == name.chars + 1

(* dns_makequery: a length takes the place of the dot before its label,    *)
(* the first one stands before the name and a 0 behind it.                 *)
LabelStarts(name) == {0} \cup name.dots
LabelEnds(name) == name.dots \cup {Size(name)}
LabelEnd(name, at) ==
  CHOOSE e \in LabelEnds(name) : e > at /\ \A f \in LabelEnds(name) : f > at => e <= f
NameOctet(name, at) ==
  IF at \in LabelStarts(name) THEN LabelEnd(name, at) - at - 1
  ELSE IF at = Size(name) THEN 0 ELSE Letter
WholeName(name) == [i \in 1 .. Size(name) + 1 |-> NameOctet(name, i - 1)]
Question(name) == WholeName(name) \o <<0, 1, 0, 1>>

(* A name in an answer: written out, as a pointer to the question's, as a  *)
(* label before one, or as a pointer to the first answer's name.           *)
Forms == {"whole", "pointer", "joined", "first"}
JoinedName == <<1, Letter, Pointer, HeaderLen>>
NameOctets(form, name, first) ==
  CASE form = "whole"   -> WholeName(name)
    [] form = "pointer" -> <<Pointer, HeaderLen>>
    [] form = "joined"  -> JoinedName
    [] form = "first"   -> <<Pointer, first>>

Repeat(octet, n) == [i \in 1 .. n |-> octet]

RecordData(record) ==
  CASE record.type = "A"     -> Repeat(record.address, 4)
    [] record.type = "CNAME" -> JoinedName
    [] record.type = "SOA"   -> JoinedName \o JoinedName \o Repeat(0, 20)
    [] record.type = "HINFO" -> <<1, Letter, 2, Letter, Letter>>
    [] record.type = "MX"    -> <<0, 1>> \o JoinedName
    [] record.type = "TXT"   -> <<1, Letter>>

RecordHead(record) ==
  <<0, DmTypes[record.type], 0, 1, 0, 0, 0, 9, 0, Len(RecordData(record))>>

AnswerOctets(record, name, first) ==
  NameOctets(record.form, name, first) \o RecordHead(record) \o RecordData(record)

Records ==
  [form : Forms, type : DOMAIN DmTypes \ {"A"}, address : {Unwritten}]
    \cup [form : Forms, type : {"A"}, address : {1, 2}]

-----------------------------------------------------------------------------
VARIABLES
  dmName,          \* the name asked for
  dmFailed,        \* is the reply's rcode an error?
  dmAnswers,       \* the reply's records,
  dmStarts,        \* where they start,
  dmMsg,           \* and its octets
  dmAt,            \* "server", then what the parser is at
  dmFor,           \* which name parse_name is called for
  dmCp,            \* cp of its caller
  dmIn,            \* cp, clen, indirect and len of parse_name
  dmLen,
  dmJumped,
  dmRoom,
  dmRead,          \* answers parsed
  dmIp,            \* ip_from_dns
  dmResult         \* what parseDNSMSG returned

dmReply == <<dmName, dmFailed, dmAnswers, dmStarts, dmMsg>>
dmLoop == <<dmFor, dmIn, dmLen, dmJumped, dmRoom>>
dmVars == <<dmReply, dmAt, dmCp, dmLoop, dmRead, dmIp, dmResult>>

DmTypeOK ==
  /\ dmName \in DmNames /\ dmFailed \in BOOLEAN
  /\ dmAnswers \in Seq(Records) /\ Len(dmAnswers) <= DmRecords
  /\ dmStarts \in Seq(Nat) /\ Len(dmStarts) = Len(dmAnswers)
  /\ dmMsg \in Seq(0 .. 255)
  /\ dmAt \in {"server", "name", "answers", "done"}
  /\ dmFor \in {"question", "owner", "data", "mname", "rname"}
  /\ dmCp \in Nat /\ dmIn \in Nat /\ dmLen \in Nat
  /\ dmJumped \in BOOLEAN /\ dmRoom \in 0 .. DmNameMax
  /\ dmRead \in 0 .. Len(dmAnswers)
  /\ dmIp \in 0 .. 255
  /\ dmResult \in {-1, 0, 1}

DmInit ==
  /\ dmName \in DmNames /\ dmFailed \in BOOLEAN
  /\ dmAnswers = <<>> /\ dmStarts = <<>>
  /\ dmMsg = Repeat(0, HeaderLen) \o Question(dmName)
  /\ dmAt = "server" /\ dmFor = "question" /\ dmCp = HeaderLen
  /\ dmIn = HeaderLen /\ dmLen = 0 /\ dmJumped = FALSE /\ dmRoom = DmNameMax
  /\ dmRead = 0 /\ dmIp = Unwritten /\ dmResult = 0

-----------------------------------------------------------------------------
(* The server writes another record into the reply, which echoes the       *)
(* question.                                                               *)
AnswerAdded ==
  /\ dmAt = "server" /\ Len(dmAnswers) < DmRecords
  /\ \E record \in Records :
       /\ record.form = "first" => dmAnswers # <<>>
       /\ dmAnswers' = Append(dmAnswers, record)
       /\ dmMsg' = dmMsg \o AnswerOctets(record, dmName, dmStarts[1])
  /\ dmStarts' = Append(dmStarts, Len(dmMsg))
  /\ UNCHANGED <<dmName, dmFailed, dmAt, dmCp, dmLoop, dmRead, dmIp, dmResult>>

\* The octet at an offset; the buffer behind the message is taken to be empty.
OctetAt(cp) == IF cp < Len(dmMsg) THEN dmMsg[cp + 1] ELSE 0

(* parse_name is called for the name at cp.                                *)
ParsesName(for, cp) ==
  /\ dmAt' = "name" /\ dmFor' = for /\ dmCp' = cp
  /\ dmIn' = cp /\ dmLen' = 0 /\ dmJumped' = FALSE /\ dmRoom' = DmNameMax

(* DNS_run has received the reply: parseDNSMSG, dns_question.              *)
ReplyParsed ==
  /\ dmAt = "server"
  /\ ParsesName("question", HeaderLen)
  /\ UNCHANGED <<dmReply, dmRead, dmIp, dmResult>>

-----------------------------------------------------------------------------
(* parse_name *)

(* A pointer counted as one octet.                                         *)
NameHeadShort(jumps) == 1

\* clen: what a label's length, or a pointer, takes in the message.
NameHead(jumps) == IF jumps THEN 2 ELSE 1

(* What a pointer points to is a label: a second pointer there is taken    *)
(* for a long one.                                                         *)
Jumps == OctetAt(dmIn) >= Pointer
LabelAt ==
  IF Jumps THEN (OctetAt(dmIn) - Pointer) * 256 + OctetAt(dmIn + 1) ELSE dmIn
LabelLen == OctetAt(LabelAt)
HeadLen == dmLen + (IF dmJumped THEN 0 ELSE NameHead(Jumps))

LabelParsed ==
  /\ dmAt = "name" /\ LabelLen # 0 /\ dmRoom >= LabelLen + 1
  /\ dmIn' = LabelAt + 1 + LabelLen
  /\ dmJumped' = (dmJumped \/ Jumps)
  /\ dmLen' = IF dmJumped \/ Jumps THEN HeadLen ELSE HeadLen + LabelLen
  /\ dmRoom' = dmRoom - LabelLen - 1
  /\ UNCHANGED <<dmReply, dmAt, dmFor, dmCp, dmRead, dmIp, dmResult>>

DmEnds(result) == dmAt' = "done" /\ dmResult' = result

(* -1, which every caller passes on.                                       *)
NameTooLong ==
  /\ dmAt = "name" /\ LabelLen # 0 /\ dmRoom < LabelLen + 1
  /\ DmEnds(-1)
  /\ UNCHANGED <<dmReply, dmCp, dmLoop, dmRead, dmIp>>

(* The name for which it was called has ended, and its caller's cp is      *)
(* moved behind it.                                                        *)
NameEnds(for) == dmAt = "name" /\ LabelLen = 0 /\ dmFor = for
Behind == dmCp + HeadLen

-----------------------------------------------------------------------------
(* Back in dns_question: type and class.                                   *)
QuestionParsed ==
  /\ NameEnds("question")
  /\ dmAt' = "answers" /\ dmCp' = Behind + 4
  /\ UNCHANGED <<dmReply, dmLoop, dmRead, dmIp, dmResult>>

(* dns_answer, for the next record.                                        *)
AnswerStarts ==
  /\ dmAt = "answers" /\ dmRead < Len(dmAnswers)
  /\ ParsesName("owner", dmCp)
  /\ UNCHANGED <<dmReply, dmRead, dmIp, dmResult>>

AnswerEnds(cp) ==
  dmAt' = "answers" /\ dmCp' = cp /\ dmRead' = dmRead + 1 /\ UNCHANGED dmLoop

(* The switch: type, class, ttl and length are passed.                     *)
Type == OctetAt(Behind) * 256 + OctetAt(Behind + 1)
DataStart == Behind + 10

AddressFound ==
  /\ NameEnds("owner") /\ Type = 1
  /\ dmIp' = OctetAt(DataStart) /\ AnswerEnds(DataStart + 4)
  /\ UNCHANGED <<dmReply, dmResult>>

NameFollows ==
  /\ NameEnds("owner")
  /\ \/ Type \in Domains /\ ParsesName("data", DataStart)
     \/ Type = 15 /\ ParsesName("data", DataStart + 2)
     \/ Type = 6 /\ ParsesName("mname", DataStart)
  /\ UNCHANGED <<dmReply, dmRead, dmIp, dmResult>>

StringsSkipped ==
  /\ NameEnds("owner") /\ Type = 13
  /\ LET second == DataStart + 1 + OctetAt(DataStart)
     IN  AnswerEnds(second + 1 + OctetAt(second))
  /\ UNCHANGED <<dmReply, dmIp, dmResult>>

DataLeft ==
  /\ NameEnds("owner") /\ Type \notin Domains \cup {1, 6, 13, 15}
  /\ AnswerEnds(DataStart)
  /\ UNCHANGED <<dmReply, dmIp, dmResult>>

(* SOA has a second name.                                                  *)
SecondFollows ==
  /\ NameEnds("mname") /\ ParsesName("rname", Behind)
  /\ UNCHANGED <<dmReply, dmRead, dmIp, dmResult>>

DataParsed ==
  /\ \/ NameEnds("data") /\ AnswerEnds(Behind)
     \/ NameEnds("rname") /\ AnswerEnds(Behind + 20)
  /\ UNCHANGED <<dmReply, dmIp, dmResult>>

(* The authority and additional records are not looked at.                 *)
AnswersParsed ==
  /\ dmAt = "answers" /\ dmRead = Len(dmAnswers)
  /\ DmEnds(IF dmFailed THEN 0 ELSE 1)
  /\ UNCHANGED <<dmReply, dmCp, dmLoop, dmRead, dmIp>>

DmNext ==
  \/ AnswerAdded \/ ReplyParsed
  \/ LabelParsed \/ NameTooLong
  \/ QuestionParsed \/ AnswerStarts \/ AddressFound \/ NameFollows
  \/ StringsSkipped \/ DataLeft \/ SecondFollows \/ DataParsed \/ AnswersParsed
DmSpec == DmInit /\ [][DmNext]_dmVars

-----------------------------------------------------------------------------
\* What a name takes in parse_name's buffer.
NameSize(form, name) ==
  CASE form = "joined" -> Size(name) + 2
    [] form = "first" ->
         Size(name) + (IF dmAnswers[1].form = "joined" THEN 2 ELSE 0)
    [] OTHER -> Size(name)

HasName == {"CNAME", "SOA", "MX"}

RecordFits(record) ==
  /\ NameSize(record.form, dmName) <= DmNameMax
  /\ record.type \in HasName => NameSize("joined", dmName) <= DmNameMax

NamesFit ==
  /\ NameSize("whole", dmName) <= DmNameMax
  /\ \A i \in DOMAIN dmAnswers : RecordFits(dmAnswers[i])

(* Replies the parser is made for: no record whose data it leaves where it *)
(* is before another one, no pointer to a pointer.                         *)
Readable ==
  /\ \A i \in DOMAIN dmAnswers : dmAnswers[i].type = "TXT" => i = Len(dmAnswers)
  /\ \A i \in DOMAIN dmAnswers :
       dmAnswers[i].form = "first" => dmAnswers[1].form \in {"whole", "joined"}

LastAddress(answers) ==
  LET found == {i \in DOMAIN answers : answers[i].type = "A"}
  IN  IF found = {} THEN Unwritten
      ELSE answers[CHOOSE i \in found : \A j \in found : j <= i].address

(* The address found is that of the reply's last address record, whatever  *)
(* records and however compressed names come before it, and a reply whose  *)
(* names fit is read to its end (parse_name, dns_answer, parseDNSMSG).     *)
DnsReplyRead ==
  dmAt = "done" /\ Readable =>
    /\ NamesFit <=> dmResult # -1
    /\ dmResult # -1 =>
         /\ dmIp = LastAddress(dmAnswers)
         /\ dmResult = 1 <=> ~dmFailed

(* DNS_run's "1  : success" comes with an address.                         *)
DnsSuccessHasAddress == dmAt = "done" /\ dmResult = 1 => dmIp # Unwritten
=============================================================================
