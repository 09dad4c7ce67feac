----------------------------- MODULE HttpServer -----------------------------
(***************************************************************************)
(* src/Internet/httpServer/httpServer.c: httpServer_run on one of its      *)
(* sockets, the response it sends in pieces over several calls, and        *)
(* clients that come, ask, and may leave at any time.                      *)
(*                                                                         *)
(* Lengths are counted in pieces: HttpBuf of them are DATA_BUF_SIZE - 1    *)
(* octets.  Content is in code flash; a request for anything else (an      *)
(* error page, a CGI answer) is one for a file of length 0.                *)
(*                                                                         *)
(* The socket calls are those of src/Ethernet/socket.c on a blocking TCP   *)
(* socket, whose results the server does not look at.  The driver is READY *)
(* with an address and valid deadlines, and the controller accepts the     *)
(* DISCON of http_disconnect, which waits for that without a deadline.  A  *)
(* connection that ends during a call ends right after it here.            *)
(***************************************************************************)
EXTENDS Integers, Sequences

CONSTANTS HttpFiles,       \* lengths of the files that can be asked for
          HttpBuf,         \* pieces sent at a time
          HttpTxMax        \* pieces that fit in the socket's TX memory

ASSUME HttpAssumption ==
  HttpFiles \subseteq Nat /\ HttpBuf \in Nat \ {0} /\ HttpTxMax \in Nat

VARIABLES
  httpSr,          \* Sn_SR
  httpFaulted,     \* is sock_health SOCK_FAULTED?
  httpRx,          \* the request in the socket's buffer: a length, or NoRequest
  httpStatus,      \* HTTPSock_Status[seqnum].sock_status
  httpFile,        \* .file_start: which file, by its length
  httpLen,         \* .file_len
  httpOffset,      \* .file_offset
  httpAsked,       \* what the connected client has asked for, or NoRequest
  httpSent,        \* the pieces put out to it: <<file, place>>
  httpLost,        \* the places of those given to send() and not put out
  httpFresh        \* did it find the server idle, and was its request read?

httpSock   == <<httpStatus, httpFile, httpLen, httpOffset>>
httpOut    == <<httpSent, httpLost>>
httpClient == <<httpAsked, httpOut, httpFresh>>
httpVars   == <<httpSr, httpFaulted, httpRx, httpSock, httpClient>>

NoRequest == -1
HttpStates == {"CLOSED", "INIT", "LISTEN", "ESTABLISHED", "CLOSE_WAIT", "FIN"}
Pieces == HttpFiles \X UNION {1 .. n : n \in HttpFiles}

HttpTypeOK ==
  /\ httpSr \in HttpStates
  /\ httpRx \in HttpFiles \cup {NoRequest}
  /\ httpStatus \in {"IDLE", "RES_INPROC", "RES_DONE"}
  /\ httpFile \in HttpFiles \cup {0}
  /\ httpLen \in HttpFiles \cup {0}
  /\ httpOffset \in Nat
  /\ httpAsked \in HttpFiles \cup {NoRequest}
  /\ httpSent \in Seq(Pieces)
  /\ httpLost \subseteq Nat
  /\ httpFaulted \in BOOLEAN /\ httpFresh \in BOOLEAN

HttpInit ==
  /\ httpSr = "CLOSED" /\ httpFaulted = FALSE /\ httpRx = NoRequest
  /\ httpStatus = "IDLE" /\ httpFile = 0 /\ httpLen = 0 /\ httpOffset = 0
  /\ httpAsked = NoRequest /\ httpSent = <<>> /\ httpLost = {}
  /\ httpFresh = TRUE

-----------------------------------------------------------------------------
(* Pieces from + 1 to from + n of a file.                                  *)
Part(file, from, n) == [i \in 1 .. n |-> <<file, from + i>>]

Least(a, b) == IF a < b THEN a ELSE b

(* A call that waits for the controller may fault the socket, and only     *)
(* close(), which is never called here, makes it healthy again.            *)
MayFault == httpFaulted' \in {httpFaulted, TRUE}

(* send() of pieces from + 1 to from + n: it cuts them to the TX memory,   *)
(* and what it takes is put out or, when the memory does not empty in      *)
(* time, when the command is not accepted or the socket is faulted, not.   *)
SendPieces(file, from, n) ==
  \E taken \in {0, Least(n, HttpTxMax)} :
    /\ httpFaulted => taken = 0
    /\ httpSent' = httpSent \o Part(file, from, taken)
    /\ httpLost' = httpLost \cup (from + taken + 1 .. from + n)
    /\ MayFault

(* send_http_response_body on the first part of a file: a file that fits   *)
(* in the buffer leaves its length in file_offset, which only RES_DONE     *)
(* takes back.  The offset counts what send() was given.                   *)
SendFirstPart(n) ==
  LET size == Least(n, HttpBuf) IN
  /\ SendPieces(n, httpOffset, size)
  /\ IF n > HttpBuf THEN httpFile' = n /\ httpLen' = n
                    ELSE UNCHANGED <<httpFile, httpLen>>
  /\ IF size = 0 THEN httpFile' = 0 /\ httpLen' = 0 /\ httpOffset' = 0
                 ELSE httpOffset' = httpOffset + size

(* The same on a later part; the last one clears the record.               *)
SendNextPart ==
  LET left == httpLen - httpOffset IN
  /\ SendPieces(httpFile, httpOffset, Least(left, HttpBuf))
  /\ IF left > HttpBuf
       THEN httpOffset' = httpOffset + HttpBuf /\ UNCHANGED <<httpFile, httpLen>>
       ELSE httpFile' = 0 /\ httpLen' = 0 /\ httpOffset' = 0

-----------------------------------------------------------------------------
(* httpServer_run, by the state of the socket and of the response.         *)

HasRequest ==
  httpSr = "ESTABLISHED" /\ httpStatus = "IDLE" /\ httpRx # NoRequest

AnswerBegun ==
  /\ httpStatus' = IF httpLen' > 0 THEN "RES_INPROC" ELSE "RES_DONE"
  /\ UNCHANGED <<httpSr, httpAsked>>

RunRequest ==
  /\ HasRequest /\ ~httpFaulted
  /\ httpRx' = NoRequest
  /\ SendFirstPart(httpRx)
  /\ AnswerBegun /\ UNCHANGED httpFresh

(* recv() fails, on a faulted socket, because the size register does not   *)
(* settle, or because its own command is not accepted: what the buffer     *)
(* held before is parsed.  (The octet that ends it is then written far     *)
(* behind the buffer, which is taken to hit nothing of the server.)        *)
RunUnread ==
  /\ HasRequest
  /\ \E n \in HttpFiles : SendFirstPart(n)
  /\ \/ httpRx' = httpRx
     \/ httpRx' = NoRequest /\ httpFaulted' /\ ~httpFaulted
  /\ AnswerBegun /\ httpFresh' = FALSE

(* The end of the response unnoticed.                                      *)
RunBodyUnended ==
  /\ httpSr = "ESTABLISHED" /\ httpStatus = "RES_INPROC"
  /\ SendNextPart
  /\ UNCHANGED <<httpSr, httpStatus, httpRx, httpAsked, httpFresh>>

RunBody ==
  /\ httpSr = "ESTABLISHED" /\ httpStatus = "RES_INPROC"
  /\ SendNextPart
  /\ httpStatus' = IF httpLen' = 0 THEN "RES_DONE" ELSE httpStatus
  /\ UNCHANGED <<httpSr, httpRx, httpAsked, httpFresh>>

(* The offset kept for the next response.                                  *)
RunDoneKeepingOffset ==
  /\ httpSr = "ESTABLISHED" /\ httpStatus = "RES_DONE"
  /\ httpStatus' = "IDLE" /\ httpFile' = 0 /\ httpLen' = 0
  /\ httpSr' = "FIN"
  /\ UNCHANGED <<httpOffset, httpFaulted, httpRx, httpClient>>

RunDone ==
  /\ httpSr = "ESTABLISHED" /\ httpStatus = "RES_DONE"
  /\ httpStatus' = "IDLE" /\ httpFile' = 0 /\ httpLen' = 0 /\ httpOffset' = 0
  /\ httpSr' = "FIN"
  /\ UNCHANGED <<httpFaulted, httpRx, httpClient>>

(* The client is thought to wait for its response.                         *)
RunCloseWaitIdle ==
  /\ httpSr = "CLOSE_WAIT" /\ ~httpFaulted /\ httpStatus = "IDLE"
  /\ MayFault
  /\ httpSr' \in {"FIN"} \cup (IF httpFaulted' THEN {"CLOSE_WAIT"} ELSE {})
  /\ UNCHANGED <<httpRx, httpSock, httpClient>>

(* The client has gone: the response is not.  disconnect() faults the      *)
(* socket when its command is not accepted and when the connection does    *)
(* not end in time, and does nothing on a faulted one.                     *)
RunCloseWait ==
  /\ httpSr = "CLOSE_WAIT" /\ ~httpFaulted
  /\ MayFault
  /\ httpSr' \in {"FIN"} \cup (IF httpFaulted' THEN {"CLOSE_WAIT"} ELSE {})
  /\ UNCHANGED <<httpRx, httpSock, httpClient>>

(* socket(): the same of its OPEN; a faulted socket is refused.            *)
RunClosed ==
  /\ httpSr = "CLOSED" /\ ~httpFaulted
  /\ MayFault
  /\ \/ httpSr' = "INIT" /\ httpRx' = NoRequest
     \/ httpSr' = "CLOSED" /\ httpFaulted' /\ httpRx' = httpRx
  /\ UNCHANGED <<httpSock, httpClient>>

(* listen(): the same of its LISTEN.                                       *)
RunInitialised ==
  /\ httpSr = "INIT" /\ ~httpFaulted
  /\ MayFault
  /\ httpSr' \in {"LISTEN"} \cup (IF httpFaulted' THEN {"INIT"} ELSE {})
  /\ UNCHANGED <<httpRx, httpSock, httpClient>>

HttpRun ==
  \/ RunRequest \/ RunUnread \/ RunBody \/ RunDone
  \/ RunCloseWait \/ RunClosed \/ RunInitialised

-----------------------------------------------------------------------------
(* The client and the controller.                                          *)

ClientConnects ==
  /\ httpSr = "LISTEN" /\ httpSr' = "ESTABLISHED"
  /\ httpAsked' = NoRequest /\ httpSent' = <<>> /\ httpLost' = {}
  /\ httpFresh' = (httpStatus = "IDLE")
  /\ UNCHANGED <<httpFaulted, httpRx, httpSock>>

ClientAsks ==
  /\ httpSr = "ESTABLISHED" /\ httpAsked = NoRequest
  /\ \E n \in HttpFiles : httpAsked' = n /\ httpRx' = n
  /\ UNCHANGED <<httpSr, httpFaulted, httpSock, httpOut, httpFresh>>

(* It closes its side, at any time.                                        *)
ClientCloses ==
  /\ httpSr = "ESTABLISHED" /\ httpSr' = "CLOSE_WAIT"
  /\ UNCHANGED <<httpFaulted, httpRx, httpSock, httpClient>>

(* A reset or a timeout, or the end of a disconnection: the client is      *)
(* gone, and what it asked and was sent with it.                           *)
ConnectionEnds ==
  /\ httpSr \in {"ESTABLISHED", "CLOSE_WAIT", "FIN"} /\ httpSr' = "CLOSED"
  /\ httpAsked' = NoRequest /\ httpSent' = <<>> /\ httpLost' = {}
  /\ UNCHANGED <<httpFaulted, httpRx, httpSock, httpFresh>>

HttpNext ==
  HttpRun \/ ClientConnects \/ ClientAsks \/ ClientCloses \/ ConnectionEnds

HttpFairness ==
  WF_httpVars(HttpRun) /\ WF_httpVars(httpSr = "FIN" /\ ConnectionEnds)

HttpSpec == HttpInit /\ [][HttpNext]_httpVars /\ HttpFairness

-----------------------------------------------------------------------------
(* How much of the file asked for send() has been given.                   *)
GivenToSend ==
  CASE httpStatus = "IDLE" -> 0
    [] httpStatus = "RES_INPROC" -> httpOffset
    [] OTHER -> httpAsked

(* What a client is sent is of the file it asked for, each piece once and  *)
(* in its order, and the server ends the connection only when it has given *)
(* all of the file to send() (send_http_response_body over several calls). *)
(* What is missing is what a send() did not put out, and nothing else:     *)
(* the server does not give it twice.  So for every client that finds the  *)
(* server idle and whose request is read: see HttpFindsIdle, RunUnread.    *)
HttpResponseExact ==
  httpFresh /\ httpSr = "ESTABLISHED" =>
    /\ \A i \in 1 .. Len(httpSent) :
         /\ httpSent[i][1] = httpAsked /\ httpSent[i][2] \notin httpLost
         /\ \A j \in 1 .. i - 1 : httpSent[j][2] < httpSent[i][2]
    /\ {httpSent[i][2] : i \in 1 .. Len(httpSent)} \cup httpLost = 1 .. GivenToSend

(* A request is answered to its end, or its connection is lost, whatever   *)
(* the response record holds (httpServer_run).                             *)
HttpAnswers == (httpRx # NoRequest) ~> (httpSr # "ESTABLISHED")

(* After a connection the server comes back to listen (SOCK_CLOSE_WAIT,    *)
(* SOCK_CLOSED and SOCK_INIT in httpServer_run), unless one of its calls   *)
(* faults the socket: then it never listens again.                         *)
HttpListensAgain ==
  (httpSr \in {"CLOSE_WAIT", "FIN"}) ~> (httpSr = "LISTEN" \/ httpFaulted)

(* STATE_HTTP_IDLE is "IDLE, Waiting for data received (TCP established)": *)
(* so is a connection that has asked for nothing yet.                      *)
HttpFindsIdle ==
  httpSr = "ESTABLISHED" /\ httpAsked = NoRequest => httpStatus = "IDLE"
=============================================================================
