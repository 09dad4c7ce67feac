# TLA+ specifications of ioLibrary_Driver

These modules specify the parts of ioLibrary_Driver whose behaviour depends on
order: the socket layer (`Ethernet/socket.c`), the root of the driver
(`Ethernet/wizchip_conf.c`) as compiled for the W5500, the reads of size
registers and the ring memory below them, and the protocols of `Internet/` above
them. The code runs on small RTOS targets. Each call holds a lock while it polls
registers of a controller that works at its own pace, next to a network that
does what it likes. Tests drive that code against a scripted register file. They
seldom reach the steps in which the controller, a server or another task moves
between two reads.

- [What is where](#what-is-where)
- [The system](#the-system)
- [How the models correspond to the code](#how-the-models-correspond-to-the-code)
- [What is checked](#what-is-checked)
- [Where the code departs from its documents](#where-the-code-departs-from-its-documents)
- [Fairness](#fairness)
- [What is proved](#what-is-proved)
- [Not modelled](#not-modelled)
- [Plan](#plan)

## What is where

| Module | Models | Runs |
|---|---|---|
| `DatagramSocket` | one UDP, IPRAW or MACRAW socket: `socket`, `close`, `sendto`, `recvfrom`, `ctlsocket`, the root reset, and the hardware socket | `dgram_safety`, `dgram_live`, `dgram_rest` |
| `StreamSocket` | one TCP socket: the same and `listen`, `connect`, `disconnect`, `send`, `recv`, the keep-alive command of `setsockopt`, with the hardware socket and the peer | `stream_safety`, `stream_listen`, `stream_connect` |
| `ChipLifecycle` | the root: lifecycle state, lock order, the transactions that hold every lock, the buffer-size caches, and tasks that use sockets next to them | `root_locks`, `root_ready` |
| `ExclusiveAccess` | abstract: what the locks are for | (implemented by `ChipLifecycle`) |
| `TimeBase` | `wizchip_time_now` over a counter that wraps | `services_safety`, `time_tasks` |
| `NetworkSettings` | the network identity, RTR/RCR, the operation timeout and the reset that clears and restores | `services_safety` |
| `PhyControl` | PHY configuration, reset and power calls | `services_safety` |
| `SizeRegister` | 16-bit size registers read octet by octet, W5500 and W5100 | `services_safety` |
| `RingMemory` | `wiz_send_data` and `wiz_recv_data` of the W5100 over a ring | `services_safety` |
| `ByteQueue` | abstract: a socket's memory | (implemented by `RingMemory`) |
| `TftpClient` | `TFTP_run` and its packet handlers, a server and the network | `services_safety`, `services_live` |
| `FileTransfer` | abstract: reading a file | (implemented by `TftpClient`) |
| `DhcpClient` | `DHCP_run`, the parser's effects, the lease, several servers | `services_safety`, `services_live` |
| `DnsClient` | `DNS_run` and its timer | `services_safety` |
| `DnsMessage` | a query and a reply octet by octet: `dns_makequery`, `parse_name`, `dns_answer`, `parseDNSMSG` | `services_safety` |
| `SntpClient` | `SNTP_run` over its socket's states | `services_safety`, `services_live` |
| `SntpCalendar` | time zones, `calcdatetime`, `changedatetime_to_seconds` | `services_safety` |
| `HttpServer` | `httpServer_run` and a response sent in parts | `services_safety`, `services_live` |
| `MqttClient` | the operations, their waits, `cycle`, keepalive, a broker | `services_safety`, `services_live`, `mqtt_ack` |
| `SnmpAgent` | `snmpd_run`, the table of entries, the lengths of a response | `services_safety` |
| `Services` | the fourteen modules from `TimeBase` on that are not abstract, side by side | |
| `MCServices` | the constants of `Services` that a configuration cannot write | |
| `*Proofs` | eight modules of proofs, see [What is proved](#what-is-proved) | |

To check a run: `tlc -config dgram_safety.cfg DatagramSocket`; the `services_*`
runs are of `MCServices`. To check proofs: `tlapm StreamSocketProofs.tla`.
`PROJECT.json` lists the runs with their properties, maps every definition to
the lines it stands for, lists the hazards at their lines, and gives for each
property a mutation of the code that breaks it. The mutated definitions stand in
the modules, each before the one it is a mutation of.

## The system

### Components

| Component | State | Operations | What must be right |
|---|---|---|---|
| Datagram sockets (`Ethernet/socket.c`) | `sock_mode`, `sock_io_mode`, `sock_health`, `sock_tx_state`, `sock_tx_pending_len`, `sock_remained_size`, `sock_pack_info` per socket | `socket`, `close`, `sendto`, `recvfrom`, `ctlsocket` | a datagram's end is its own; sends do not overtake each other; the receive stream stays framed; every call returns |
| Stream sockets (same file) | the same and `sock_is_sending` | `listen`, `connect`, `disconnect`, `send`, `recv`, `setsockopt` | sends do not overlap; a half-close loses nothing that could be seen; outcomes belong to the connection they are reported for |
| Root (`Ethernet/wizchip_conf.c`) | `chip_state`, `chip_last_error`, the size caches, the locks | `wizchip_sw_reset`, `wizchip_init`, `wizchip_recover`, `wizchip_set_buf_size`, `wizchip_mark_faulted` | one task at a time inside what it has locked; caches agree with the hardware; no deadlock; faults are not lost |
| Time base (same file) | `wrap_base_us`, `wrap_last_raw_us` | `wizchip_time_now`, the deadlines | the reconstructed time is the time |
| Settings (same file) | identity, RTR, RCR, `timeout_config`, `requested_operation_timeout_us` | `wizchip_setnetinfo`, `wizchip_getnetinfo`, `wizchip_settimeout`, `wizchip_set_operation_timeout_us`, the reset's save and restore | an identity is one that was set, whole, also across a reset; a timeout covers the retransmissions |
| PHY (same file) | PHYCFGR | `wizphy_reset`, `wizphy_setphyconf`, `wizphy_setphypmode`, `wizphy_powerdown`, `wizphy_powerup` | out of reset and in the mode last asked for |
| Size registers, ring memory (`W5500/w5500.c`, `W5100/w5100.c`) | the registers; the ring and its 16-bit pointers | `getSn_TX_FSR`, `getSn_RX_RSR`, `wiz_send_data`, `wiz_recv_data` | a size is one the register had; the ring is a queue |
| Transport | the error status | checked accesses, bursts | a failed transfer is noticed |
| DHCP (`Internet/DHCP`) | state, retry count, lease time, offered address | `DHCP_run`, `DHCP_time_handler`, `DHCP_init`, `DHCP_stop` | an address is used only while it is leased; an exchange ends |
| DNS, SNTP (`Internet/DNS`, `SNTP`) | tick and retry counts | `DNS_run`, `SNTP_run` | an answer is the one asked for; a call ends; a reply is read in step; a date is the civil one |
| TFTP (`Internet/TFTP`) | state, block number, timer, retry flag | `TFTP_read_request`, `TFTP_run` | blocks are stored once and in order, unless a packet from before the request misleads the transfer; a transfer ends |
| MQTT (`Internet/MQTT`) | packet id, ping timer, `ping_outstanding` | `MQTTConnect`, `MQTTPublish`, `MQTTSubscribe`, `MQTTYield` | an acknowledgement is that of the operation waiting; the connection is kept alive |
| HTTP server (`Internet/httpServer`) | the response record of a socket | `httpServer_run` | a response is the file but for what `send` did not put out; the server listens again until its socket is faulted |
| SNMP agent (`Internet/SNMP`) | `snmpData`, the error globals | `snmpd_run` | a response has the values that were set, the error of its own request, and the lengths of what it carries, until a SET overruns an entry |
| DHCPv6, AAC, MQTT packet coding, applications | | | see [Not modelled](#not-modelled) |

### How they interact

- A socket call takes the socket's lock (`WIZCHIP_SOCK_LOCK`), writes a command
  to `Sn_CR`, polls until the controller has zeroed it (acceptance), then polls
  `Sn_SR` or `Sn_IR` until the effect shows, and unlocks. Acceptance and effect
  are two separate events; each wait has a deadline.
- When a deadline runs out, `sock_health` becomes `SOCK_FAULTED`. The command
  may still be accepted afterwards. Until `close` or a reset clears the fault
  every other call is refused.
- A nonblocking `sendto` returns with the datagram pending
  (`SOCK_TX_DGRAM_PENDING`); later calls poll for its end. A TCP `send` returns
  once the command is accepted and leaves its `SENDOK` to be collected by the
  next `send` (`sock_is_sending`).
- `wizchip_sw_reset` and `wizchip_init` take GLOBAL and every socket lock,
  reset all per-socket state, release the locks and then publish the outcome
  in `chip_state`. Settings and PHY calls take GLOBAL only; `default_ip_assign`
  (called by the DHCP client) and the PHY power calls take nothing.
- `wizchip_clrinterrupt` clears `Sn_IR` without a socket lock. `socket()` looks
  at the lifecycle and at `Sn_SR` before it takes the lock.
- A transfer that fails sets `chip_state` to FAULTED from whichever task meets it.
- The protocols are polled: a main loop calls `DHCP_run`, `TFTP_run`,
  `httpServer_run`, `MQTTYield`, `snmpd_run`; a one second (or millisecond) timer
  calls their time handlers from outside. Each owns a socket and shares no
  state with the others.

### What is hard

1. *An event is taken for another's.* `SENDOK` and `TIMEOUT` are one bit each.
   Whoever clears them, or leaves them, decides what the next call sees.
2. *A command outlives its caller.* The controller accepts a SEND, OPEN or
   CLOSE after the driver has given up on it.
3. *A status comes and goes between two reads.* The waits compare against one
   wanted status; two-octet registers change between their octets.
4. *Two commands, one datagram.* Header and payload are consumed separately,
   over several calls, with exits between them.
5. *A transaction over every lock.* It meets tasks that hold one lock and want
   another, and its outcome is published when its locks are gone. A setting
   spread over several registers meets readers and a reset in between.
6. *An answer is taken for another's.* Most of the protocols compare no id: a
   fresh port, a server's address or the order of packets has to do.
7. *A timer against a late answer.* Retries, renewals and pings are counted in
   variables that outlive the exchange they were counted for.

## How the models correspond to the code

### What an action is

A call is cut at the reads whose values come from outside and are used after
something else could have moved. Between two cuts everything the code does is
one action: the guard is the code's condition or early return, the primed
variables are its assignments. `op` (in `ChipLifecycle`, `pc`) names the wait
the lock holder is in: `open_cr` is `wait_cr_accepted` after OPEN, `conn_sr`
the read of `Sn_SR` in connect's loop. Because a socket call holds the socket's
lock throughout, one `op` per socket is enough. The cuts that matter in
`StreamSocket` are those of loops that read several registers: connect
(`Sn_SR`, then `Sn_IR`), disconnect, send's collection loop (`Sn_IR`, then
`Sn_SR`) and recv (`Sn_RX_RSR`, `Sn_SR`, `Sn_TX_FSR`, then the inner close).
A call that returns an error without changing anything is a stuttering step.
Deadlines carry no numbers: a wait may expire at any time (`...Expired`).

The protocols are cut where they return to their caller. One call of `TFTP_run`,
`DHCP_run`, `SNTP_run`, `httpServer_run` or `snmpd_run` does what the state it
finds asks for, so there is one action for each branch; `DNS_run` and the
operations of the MQTT client block in a loop, and each round of it is an
action. A timer is an action that adds a tick, a network a set of packets that
may be delivered late, twice or never.

`SizeRegister`, `TimeBase`, `NetworkSettings` and `PhyControl` are cut finer, at
each register access or each access to a shared variable, since what they are
about is what another task or the controller does between two of them.

### The controller, the peer and the network

They are not in the repository. They are modelled from how the driver uses
them, and `PROJECT.json` marks them external. The assumptions, all taken from
the comments in `socket.h` and from the polls themselves:

- the controller zeroes `Sn_CR` when it accepts a command, and `Sn_SR` changes
  some time later (`settling`); one command is worked on at a time;
- SEND on an open socket starts a transmission which ends with `SENDOK`, or with
  `TIMEOUT` (a TCP connection then closes, a datagram socket stays open);
- `Sn_IR` bits stay latched until they are written back or the chip is reset:
  OPEN and CLOSE do not clear them;
- RX memory holds what arrived until RECV moves the read pointer; OPEN and
  CLOSE empty both memories;
- a peer may connect, send, acknowledge any part of what is outstanding,
  finish and reset, at any time and in any order TCP allows. `FIN_WAIT`,
  `TIME_WAIT` and `LAST_ACK` are one status, `CLOSING`; no driver code tells
  them apart;
- a size register only grows while the socket's lock is held, by any amount;
- a UDP network loses, repeats and reorders; an MQTT broker reads and answers
  in order, when it likes; an HTTP client may leave at any time; a DHCP server
  offers, acknowledges, refuses, and gives an address to somebody else once the
  lease it granted has run out.

### Data

A payload is its length (and, in `DatagramSocket`, cells of the RX memory: one
per byte, and one for a header, which carries its datagram's length). Addresses,
ports and payload bytes are left out. `Wrap` stands for 2^16, the width of
`sock_remained_size`, which is subtracted from without a check. Buffer sizes
are a small set in `ChipLifecycle` and a number of cells elsewhere. The error
codes that calls return are left out, except where a property is about one.

In the protocols a file is its number of blocks or pieces, an HTTP length is
counted in pieces of which `HttpBuf` make a buffer, an SNMP object identifier
is the number of its entry and its values are short sequences of octets with
the lengths BER gives them. `DnsMessage` keeps the octets of a message, since
skipping them is its subject: a name is the length of its text and the places
of its dots, labels consist of one letter, the server appends up to `DmRecords`
answers, and the parser takes a step for every round of `parse_name`'s loop and
for what its callers do between two names. `SntpCalendar` keeps real days,
seconds and time zones, as pairs of days and seconds of the day, and takes a
step for every round of the code's loops. 16-bit and 32-bit counters have their
own modulus wherever they wrap (`BlockModulus`, `PointerModulus`, `RawModulus`,
`OctetMax`, `MaxPacketId`).

### Documented simplifications

- The W5500 build without IPv6. `#if` branches for other chips are left out,
  but for the W5100's ring and size registers.
- One socket per socket module. Sockets share only the root and
  `sock_any_port`; the first is `ChipLifecycle`'s subject.
- `send` and `recv` look at `chip_state` before they take the lock. In
  `StreamSocket` that look is no guard of their first action: the root may have
  failed since, and the model allows more than the code does.
- A socket of `StreamSocket` is only ever opened for TCP, one of
  `DatagramSocket` never.
- `send`'s free-size read and the status read after it are one action, as the
  free size can only grow in between and the status is looked at last.
- The time source and the lifecycle are changed from outside only while the
  socket's lock is free (`SetTimeSource`, `ChipReset`). For the reset this is
  the transaction's lock; for the time source it is how the port registers it.
- The protocols stand on a socket that does what its documentation says. Where
  a module needs more of it, it has its own branches: `TftpClient` the
  nonblocking `sendto` with a datagram still pending, `SntpClient` a closed
  socket, `HttpServer` all statuses of a TCP socket and every result of its
  calls: a `send` that is cut to the TX memory or puts nothing out, a call that
  faults the socket, a `recv` that fails and leaves the buffer as it was.
- `HttpServer`: the driver is READY, with an address and valid deadlines, and the
  controller accepts the DISCON that `http_disconnect` waits for without a
  deadline. After a failed `recv` a NUL is written at the place its result
  gives, far behind the buffer; that octet is taken to hit nothing of the server.
- `TftpClient`: a little-endian host, where the fields of a packet are converted
  in place and a packet that was looked at is none any more. An empty call parses
  the buffer's old packet with 65535 octets; the address and the port it goes by
  are never written, and may be any (the port one of the server's, or none).
- `SnmpAgent`: strings and integers carry text without NUL and at most four
  octets. `setEntry` copies a string of any length; one longer than its entry's
  `MAX_STRING` octets writes over the function pointers behind them, and the
  model stops there (`BindSpills`, `snmpSpilled`). One that just fills its entry
  ends, for `strlen`, at the pointer behind it, which is NULL for every string
  of the table.
- An MQTT packet has arrived whole when it is read.
- `DHCP_SIP` and `DHCP_REAL_SIP` are one variable; `DHCP_XID` is never read
  again by the code and not there.

History variables record what the code does not, for the properties. No action
of the code decides by them; some bound the environment (how many requests or
calls there are, when a lease may end).

| Variable | Records |
|---|---|
| `rxHist`, `txHist` | a datagram's RECV was abandoned, or its event cleared by someone else |
| `stale`, `crossed`, `cleared`, `late` | events latched before the last CLOSE or OPEN; a send that collected a stale `SENDOK`; an event of the running SEND cleared from outside; bytes that came after recv's first read |
| `trusted` | no transfer has failed since the last transaction |
| `acked`, `request` | what the TFTP client acknowledged, and for which request |
| `spoiled` | a packet left in the buffer from before the request has misled this TFTP transfer |
| `granted`, `grantAge`, `leaseOf` | what a DHCP server granted, how long ago and for how long |
| `dnsCall`, `dnsTime`, `dnsQueries` | the call an answer belongs to, the ticks and the queries of a call |
| `httpSent`, `httpLost`, `httpFresh` | the pieces put out to the client; those given to `send` and not put out; whether it found the server idle and its request was read |
| `mqAcked`, `mqHas`, `mqLate` | publishes that succeeded, those the broker has, whether an operation ever stopped waiting |
| `snmpTold`, `snmpMixed`, `snmpSpilled` | the value each entry was last given; strings into which a shorter one was written; whether a string has overrun its entry |
| `netAgreed`, `netCrossed`, `netStale` | the identity of the last complete writer; whether `default_ip_assign` met another call; whether RTR and RCR were reset since the floor was computed |
| `phyTold`, `phyLeft`, `phyCrossed` | the mode last asked for; whether a call left RST low; whether a power call met another one |
| `szSeen` | the values the register had during the call |

## What is checked

A state count is that of the run with the constants of its configuration.

### DatagramSocket

`dgram_safety` (about 2.0 million states; UDP and MACRAW, payloads of 0 and 2,
TX memory 2, RX memory 3 cells, one `socket()` call besides the lock holder):

- `TypeOK`, which includes that TX and RX memory are never overrun.
- `OneSendAtATime`: no SEND is written while the controller transmits the
  payload before, through faults, closes, reopens and resets. What carries it
  is that every path which forgets a datagram also leads through OPEN or a
  reset before `sendto` is usable again.
- `PendingHasOutcome`: a pending datagram is being transmitted or its end is
  latched, unless its event was cleared by `wizchip_clrinterrupt`,
  `CS_CLR_INTERRUPT` or recvfrom's acceptance wait, which takes a `TIMEOUT`
  for its own (`txHist`).
- `OutcomeIsOwn`: the event a `sendto` ends on is the end of its own datagram,
  and the length a poll returns is the length that was sent.
- `FramingKept`: the next header read is a header, however the calls cut the
  datagram up. It is stated without two cases in which the code does lose
  framing: after a nonblocking `recvfrom` that returned BUSY behind an
  unaccepted RECV (`rxHist`), and for IPRAW datagrams without payload.

`dgram_live` (304 thousand states; IPRAW): `CallsReturn`, every call that holds
the lock returns; `PendingResolves`, a pending datagram that somebody polls is
resolved, unless the socket faults or loses its clock.

### StreamSocket

`stream_safety` (about 1 million states; TX memory 2, RX memory 1 cell):

- `SendsDoNotOverlap`: as `OneSendAtATime`, for TCP. Here `disconnect` and a
  vanished connection clear `sock_is_sending` without waiting, so the argument
  needs that no SEND of that connection can follow. The exception (`crossed`)
  is real: `disconnect` leaves `SENDOK` latched, `socket()` on closed hardware
  issues no CLOSE, and the new connection's second send takes the old bit for
  the end of its first.
- `SendingHasOutcome`: a send that waits for the one before it waits for
  something that is latched or can still come.
- `HalfCloseDrained`: recv closes a half-closed connection only when the peer
  has acknowledged everything, and loses at most what arrived after it read
  `Sn_RX_RSR` (`late`). The code does lose that: the size is read before the
  status, and data followed by FIN between the two reads is thrown away.
- `CallsReturn`, with nothing assumed of the controller or the peer: every loop
  asks for its deadline in every branch.

### ChipLifecycle

`root_locks` (219 thousand states; two tasks, both may run transactions; two
sockets; two buffer sizes):

- `AccessIsExclusive`: the locks implement `ExclusiveAccess`. A resource (a
  socket, or what GLOBAL guards) is used by one task at a time, and a task in a
  transaction works alone. The refinement mapping reads off `pc` and `at` what
  each task is inside of.
- `CoherentWhileTrusted`: from the end of a successful transaction, and while
  no transfer fails, cached sizes are the controller's, also under
  `wizchip_set_buf_size`, which takes GLOBAL only.
- `CallsEnd`: nobody is stuck on a lock.

### Services

`Services` puts fourteen modules side by side. They share no state, so a
behaviour is that of one of them next to the others at rest, and one run
explores each of them in turn: `Running` names which. The composition adds
nothing to what the modules say. It lets one configuration state all their
constants, their fairness and their properties.

`services_safety` (1.48 million states in all):

| Service | Bounds | Property | What it says |
|---|---|---|---|
| TFTP | 3 blocks, numbers modulo 8, 2 retries, 2 server ports, 2 requests | `TransferImplemented` | the client implements `FileTransfer`: each step stores the next block, ends the transfer or changes nothing; success means all of it; a transfer that a packet from before the request misleads is a spoilt one, and the next is not |
| | | `AckedIsStored` | nothing is acknowledged that is not stored, since the server forgets it then; but for a spoilt transfer, which is never the first |
| DHCP | 2 servers, lease 13 ticks, 1 retry, 1 NAK | `LeaseAcknowledged` | the address in use was acknowledged by the chosen server |
| | | `LeaseRespected` | and is used only while that server holds it |
| DNS | 3 calls, 3 ports, 2 retries | `DnsAnswerIsOwn` | a call takes the answer to its own query: only the fresh port does that |
| DNS reply | names of 1 and 2 labels, a buffer of 4, 0 to 2 records of 6 types and 4 forms of name | `DnsReplyRead` | the address found is that of the last address record, and a reply whose names fit is read to its end |
| SNTP date | 65 days at the borders of months and leap years, 3 times of day, 3 zones | `SntpDateIsCivil` | the date is that of the Gregorian calendar in the zone, to the second, and converts back |
| HTTP | files of 0, 2, 3, 4 and 7 pieces, buffer 3, TX memory 2 | `HttpResponseExact` | a client that finds the server idle and whose request is read is sent pieces of its file, each once and in order, and what is missing at its end is what `send` did not put out |
| MQTT | 3 operations, ids modulo 3, one inbound publish | `MqttAckIsOwn` | as long as no operation gave up, one that succeeds is one the broker has |
| SNMP | 3 entries (string of 5, integer, uptime), 2 bindings, strings of 1, 5 and 6 octets | `SnmpErrorNamed` | a response names a binding that failed, of its own request, and none if none failed |
| | | `SnmpGetsWhatWasSet` | GET and GETNEXT answer what the entry was last given, until a SET overruns an entry; a string into which a shorter one was written begins with it |
| | | `SnmpFramed` | each length in a response is that of what follows it |
| size | octets 0 to 2, both chips | `SizeIsReal` | a size returned is one the register had |
| ring | 4 octets, pointers modulo 8 | `QueueImplemented` | the ring implements `ByteQueue` |
| time | counter modulo 4, 3 wraps, 1 task | `TimeIsReal` | the reconstructed time is the time |
| settings | 2 tasks, identity of 2 parts, windows of 3, 7 and 13 | `NetInfoKept` | an identity read is one that was set, whole, and a reset gives back what it found |
| | | `TimeoutCoversWindow` | no operation is given less time than its retransmissions or less than was asked for |
| PHY | 2 tasks, 2 modes | `PhyObeys` | at rest the PHY is out of reset and in the mode last asked for |

and `ServicesTypeOK`. The lease bound is tight: with the code's constants the
renewal must have begun and failed, retries included, after half the lease, which
fits if that half has 2 * `RenewalTime` - 1 ticks, in a lease of about 94
seconds; the configuration has the smallest such lease for its waits, 13 ticks.
The assumption `DhcpAssumption` says that no server grants less.

`services_live` (202 thousand states, with 2 blocks; TFTP, DHCP, SNTP, HTTP and
MQTT under fairness): `TransferEnds`, a transfer ends even if nothing ever
arrives; `DhcpExchangeEnds`, a request or renewal ends whatever other messages
keep arriving; `SntpKnowsTime`, whoever asks for the time gets it;
`HttpAnswers`, a request is answered or its connection lost;
`HttpListensAgain`, a connection that ended brings the server back to LISTEN
unless a call faults the socket; `MqttKeepsAlive`, when the ping timer has
expired a client that is polled sends a packet.

Some of these hold only under a constant that excludes what the code does not
handle:

| Constant | If it is | Then fails |
|---|---|---|
| `BlockModulus` | not above `FileBlocks` (a file of 65535 blocks or more) | `TransferImplemented`: block 65535 has no successor in `int` arithmetic |
| `LatePackets` | TRUE: packets of an earlier request reach the next one's port | `TransferImplemented` |
| `LateAnswers` | TRUE: an ACK of an earlier exchange with the same server is delivered in the next (`xid` is never compared) | `LeaseRespected` |
| `SntpLossy` | TRUE: a request gets no answer | `SntpKnowsTime`: the retry counter stays at 1 and the request is not repeated |
| `MqttLinks` | 2: the connection is lost and opened again | `MqttKeepsAlive`: `ping_outstanding` survives and no ping is sent |
| `DnsCalls` | above `DnsPorts` | `DnsAnswerIsOwn` |
| `TimeTasks` | two tasks | `TimeIsReal`, see `time_tasks` |

### Why these bounds

The waits of one call, one leftover command, one leftover event and one
concurrent opener are the whole of what can interact in a socket model, since
the lock admits one call at a time. The sizes make each comparison go both
ways. Payloads of 0 and 2 with 3 cells of RX memory give empty datagrams,
datagrams read in two calls, two datagrams in the memory, and a full memory.
Two TX cells give a partial acknowledgement, a send that does not fit and one
that is cut. `root_locks` needs two tasks for every race over two locks and the
order between them; three locks (GLOBAL and two sockets) are the fewest in
which taking and releasing have a middle.

Three blocks give a first one, a middle one and a last one; two requests give
one transfer's leftovers to the next. Two DHCP servers are one chosen and one
not. Three DNS calls give two earlier ones whose answers may come. Files of 0,
2, 3, 4 and 7 pieces with a buffer of 3 are empty, shorter than the buffer, as
long, one longer, and two buffers and one; a TX memory of 2 cuts what a full
buffer gives to `send`. Strings of 5 octets take a shorter one, one that fills
them, and one that overruns them. Two bindings give one that fails before and
one after one that does not. Octets 0 to 2 give a carry and the one value the
property of the older loop excepts. Identities of two parts are the fewest that
can be torn. Days: 1900 divides by 100, 2000 by 400; every boundary between
months of a common year and around the leap days is among them. The theorems
cover the other sizes of what they are about.

## Where the code departs from its documents

Each of these is a run that checks one property and finds it violated.

| Run | What the trace shows |
|---|---|
| `dgram_rest` | an IPRAW datagram of length 0 makes `sock_remained_size` wrap below 0 |
| `stream_listen` | a client that connects between LISTEN's acceptance and the first status read leaves `listen` waiting for a status that has passed; it faults an established socket |
| `stream_connect` | the `TIMEOUT` of an earlier connection is still latched when the socket is reopened without CLOSE, and `connect` reports it as its own |
| `root_ready` | a transfer that fails between a transaction's last unlock and its publication is overwritten with READY and no error |
| `time_tasks` | of two tasks that ask for the time the one that read the counter first and compares it last counts a wrap that did not happen |
| `mqtt_ack` | the PUBACK of a publish that was given up makes the next publish succeed before the broker has it |

Others were met while modelling and are in the models as the code has them:

- `close` of a faulted socket clears the fault without looking at the hardware,
  against core-driver-api.md:183, "Close reports success only after hardware
  CLOSED is observed".
- `wizchip_init(NULL, NULL)` publishes READY with the size caches cleared.
- The operation timeout's floor is not updated by a reset, which puts RTR and
  RCR back (core-driver-api.md:86), and `timeout_config` is read without a lock
  between the two values a call gives it.
- `wizphy_powerdown` and `wizphy_powerup` leave `PHYCFGR.RST` low, and so does a
  `wizphy_reset` whose readback or hold fails, against "PHYCFGR.RST is low only
  during reset and is restored high" (core-driver-api.md:201).
- `default_ip_assign`, `wizchip_setnetmode` and the PHY power calls take no lock,
  against the transactions of core-driver-api.md:209.
- `TftpClient!LastBlockAcked` does not hold: a nonblocking `sendto` that is not
  yet sent counts as the last acknowledgement.
- `DhcpClient!WaitsBeforeGivingUp` does not hold: the last retransmission has
  no time to be answered.
- `DnsClient!DnsRequeries` does not hold: the query that is repeated has length
  0, and nothing is sent. A call takes up to (`MAX_DNS_RETRY` + 1) *
  `DNS_WAIT_TIME`, where dns.h:95 has "max time = MAX_DNS_RETRY *
  DNS_WAIT_TIME". `DnsClient!DnsWithinTime` states the longer time; no run
  checks it, and `EndsWithinTime` proves it.
- `DnsMessage!DnsSuccessHasAddress` does not hold: a reply without an address
  record is a success (dns.h:94) that leaves the caller's address unwritten. A
  TXT or other record before an address record makes the parser read the rest
  out of step, and a pointer to a pointer counts as too long a name.
- TFTP: a DATA or ERROR packet that comes between two requests stays in
  `g_tftp_rcv_buf` as it came (tftp.c:513 returns before it is converted), and an
  empty `TFTP_run` of the next request parses it: block 1 of the file before is
  stored, any block is acknowledged without being stored, or the request fails
  with an error that was not its own (`OldDataAgain`, `OldErrorAgain`).
- `HttpServer!HttpFindsIdle` does not hold: a client that leaves in the middle
  of its file leaves a response behind, which the next one is sent.
- HTTP: the result of `send` is not looked at (httpServer.c:418) and the offset
  moves on by what was given to it: what it cut or did not put out is missing
  from the response. A `recv` that fails leaves the request before to be answered
  again (`RunUnread`).
- HTTP: a socket that `disconnect`, `socket`, `listen`, `send` or `recv` faults
  is refused by `socket` (socket.c:511) until it is closed, which `httpServer_run`
  never does: the server does not listen again.
- SNMP: GETNEXT of an unknown identifier answers entry 0; an unsupported PDU
  type gets a response cut short; `errorIndex` is the last binding that failed;
  a SET whose later binding fails stays applied in part; read-only entries can
  be set; a string that shrinks keeps its old tail; lengths are wrong where the
  request's outer headers differ in form or the response outgrows theirs;
  `setEntry` copies a string without regard to `MAX_STRING` (snmp.c:357).

## Fairness

- `DatagramSocket!FairSpec`: weak fairness of the lock holder's steps (its task
  is scheduled and its deadline passes), of acceptance, settling and the end of
  a transmission (the controller works), and strong fairness of the poll of a
  pending `sendto`. The last is an assumption about the caller, who must keep
  calling; other callers of the same lock may delay it but not exclude it.
  Only `PendingResolves` needs more than the first.
- `StreamSocket!FairSpec`: weak fairness of the lock holder's steps, and strong
  fairness of `Expiry`. The loops of connect, disconnect, send and recv ask for
  the deadline once per round; a deadline that has passed stays passed, so a
  loop that keeps asking is told so. Nothing is assumed of controller or peer.
  The failure of the double read of a size register (`SizeUnread`) is not part
  of `Expiry`: no call's return rests on it.
- `ChipLifecycle!FairSpec`: tasks that hold locks run, and a port's mutex does
  not starve a task that keeps waiting for it (strong fairness).
- `Services!FairServicesSpec`: weak fairness throughout. The main loop keeps
  calling the run function (`TftpRunStep`, `RunStep`, `SntpRun`, `HttpRun`,
  `Cycle`), and the timer ticks (`TftpTick`, `DhcpTick`). Of the network, an SNTP
  request is answered unless `SntpLossy`, a TCP connection that was closed by
  the server ends, and the broker reads what it was sent. TFTP and DHCP end
  without anything from the network.

## What is proved

The theorems hold for every value of the constants under the modules'
assumptions, which TLC evaluates in the runs.

**DatagramSocket.** `TypesKept`, `NoSendOvertakes`, `PendingWillEnd`,
`OwnOutcome`, `FaultedStaysQuiet` prove `TypeOK`, `OneSendAtATime`,
`PendingHasOutcome`, `OutcomeIsOwn` and `FaultedIsQuiet` (a faulted socket
writes no command). None of them is inductive as it stands (the types lack one
fact about the length a recvfrom holds): whether a SEND may be written depends
on what is left over from a call that gave up. `SendInv` adds what the lock
holder may rely on (`CallerOwns`), that an OPEN in progress starts from nothing
old (`OpeningIsFresh`), that the driver's idea of an open socket is the
hardware's (`OpenIncarnation`), that a healthy socket with nothing pending has
nothing unfinished (`NothingUnfinished`), that `Sn_IR` holds no event but the
pending datagram's (`EventIsOwn`), and `OutcomeComing`.

`FramesAreKept` proves `FramingKept`, for datagrams of any length in an RX memory
of any size. Its invariant `FrameInv` describes the memory: every header is
followed by its payload and then by a header or the end (`Whole`), after as many
payload cells as `sock_remained_size` says are left of the datagram being read
(`RestIs`). Between the calls the latter is `remained`; inside `recvfrom` it is
the length just decoded (`AtHeader`) or what the copy has not taken yet
(`AtPayload`). The steps that matter are the controller's: it takes the octets
off only when it accepts RECV, and appends whole datagrams at any moment.

**StreamSocket.** `TypesKept`, `NoSendOverlaps`, `SendWillEnd`,
`HalfCloseIsDrained`, `FaultedStaysQuiet`. Here the driver forgets an
unfinished SEND on purpose. `StreamInv` has therefore to say where a connection
with such a SEND can be: `BusyIsKnown` says that what the controller has to end
is either known to the driver (`sending`), or its connection has left
ESTABLISHED and CLOSE_WAIT for good, or a DISCON that was accepted is about to
take it there. `SendingInSession` keeps a sending socket out of LISTEN and
SYNSENT, `Settled` rules out an old CLOSE under an open socket, and
`RecvCounts` says what recv's reading of the RX memory still means.

**ChipLifecycle.** `ResetRunsAlone` proves `TransactionAlone`, a reset or an
initialisation next to nobody, for any number of tasks and sockets.
`LockInv` says which locks a task holds at each label: all those below the one
it is taking, all of them inside a transaction, those up to the one it releases
next afterwards. `LocksGiveExclusiveAccess` proves the refinement
`AccessIsExclusive` from it: every action of the root is a step of
`ExclusiveAccess` or changes nothing of it. `TypesKept` proves `TypeOK`, and
`CachesStayCoherent` proves `CoherentWhileTrusted` where writes are checked
(`SafeSpi`) and no initialisation leaves the sizes out: its invariant says what
caches and hardware agree on in the middle of a transaction and of a resize.

**Size registers, time base, PHY, ring** (`RegisterProofs`). `SizesReal` proves
`SizeIsReal` for octets of any width and any growth between two reads,
`SizesSafe` that neither chip's loop tells of more than there is, `SizesTyped`
the types. The invariant orders what was read by what the register held at the
time. `TimeStaysReal` proves `TimeIsReal` for one task, a counter of any width
and any number of wraps (the counter is read at least once in each).
`PhyDoesAsTold` proves `PhyObeys` for any number of tasks and modes: who is
inside GLOBAL is alone there, who is at work is alone unless a power call met
it, and then its copy of PHYCFGR and the register hold the mode last asked for.
`RingIsQueue` proves the refinement `QueueImplemented`: the octets from the read
pointer on, taken modulo the ring's size, are a queue. A write in one or two
parts puts the octets behind what is used (`Fits`, `InPlace`), which needs that
two positions closer than the ring's size are different cells, and that the
ring's size divides the range of the pointers.

**DHCP** (`ClientProofs`). `AddressIsAcknowledged` proves
`LeaseAcknowledged` for any number of servers and any network: every message
speaks of its sender's address, an ACK follows the grant, and from the choice of
an offer on the client knows one server only (`MessagesTrue`, `ChoiceKept`).
`LeasesAreRespected` proves `LeaseRespected` where no answer reaches a later
exchange (`~LateAnswers`, the counterexample is the one in the table above). It
is an argument about ages: the retry count and the timer bound how old the
request is (`Aged`), an acknowledgement that can still arrive is no older
(`GrantIsYoung`), the timer bounds the grant's age in LEASED and during the
renewal (`GrantIsCounted`), and the renewal gives up before the lease ends. A
tick that `DHCP_run` has not looked at yet counts one more (`Unpolled`).
`DhcpTyped` proves the types.

**DNS, MQTT, HTTP, SNMP, SNTP** (`ProtocolProofs`). `AnswersAreOwn` proves
`DnsAnswerIsOwn` as long as no port comes round again: every query on the wire
has the port of its call's number. `EndsWithinTime` proves `DnsWithinTime`, one
wait more than dns.h:95 has. `AcksAreOwn` proves `MqttAckIsOwn`. `waitfor`
compares the type of a packet and not its id, so the invariant says that, until
an operation has stopped waiting, one packet at most is on its way in either
direction that asks for or is an acknowledgement, and that it ends in the one
waited for (`Own`); `Backed` says that what is acknowledged the broker has.
`MqttTyped` proves the types. `ResponsesAreExact` proves `HttpResponseExact`
for files, a buffer and a TX memory of any size, whatever `send` takes of what
it is given: the places put out and the places lost are together the file up to
the record's offset, none of them both and those put out in order
(`SentSoFar`), and a client that finds the server idle finds the record clear
(`RecordKept`). `ErrorsAreNamed` proves `SnmpErrorNamed` for any table and any
requests: the error globals speak of the bindings parsed so far.
`GetsWhatWasSet` proves `SnmpGetsWhatWasSet` for texts and identifiers of any
length and integers of one to four octets, up to the first SET of one longer
than its entry, behind which the agent is not described: a text has nothing but
zeros behind its end, wherever shorter and longer strings have moved it, so
that `strlen` finds that end, or fills its entry (`TextKept`); a string that a
shorter one was written into begins with that one; and an `int32_t` gives back
the octets that were shifted into it. `LengthsAreRight` proves `SnmpFramed` for
any number of bindings. `SnmpTyped` proves the types, up to the same SET.
`DatesAreCivil` proves `SntpDateIsCivil` for every day of the 32-bit seconds,
every second and every zone. The invariant (`CalInv`) says in every round of a
loop which day the years and months so far lead to, counted by the calendar's
arithmetic (`RoundKept`, `BackKept`); `YearLasts` and `MonthLasts` say that
this arithmetic has the code's years and months between two first days, and no
zone leads to before 1900, where the code has no date.

`RepliesAreRead` proves `DnsReplyRead` for any name the buffer holds and any
number of records. `NameAt` says what may stand at a place of the message: what
is left of the name from one of its labels on, a pointer to it, a label before
that, or a pointer to both, with the octets it takes there and the room it takes
in the buffer. `MessageKept` says that the records stand one behind the other
where the server put them, and `NameKept` that what `parse_name` has counted and
what remains add up to what its caller will skip, and the room used and the room
needed to the size of the name (`Remains`). So a round takes off one label on
both sides (`NameRound`), a caller ends up behind its name (`NameRead`), and a
name is refused only if it does not fit. `DmTyped` proves the types, for
replies of every kind.

**TFTP** (`ClientProofs`). `AcksAreOfStoredBlocks` (`AckedIsStored`) and
`ClientTransfersFile`, the refinement `TransferImplemented`, for files, ports
and requests of any number, where block numbers do not wrap and packets reach
the transfer they were sent to. `TftpInv` ties the block number expected to the
number of blocks stored, and every packet under way to a block of the file, for
every transfer but one that a packet in the buffer from before its request has
misled (`spoiled`). Nothing is promised of the blocks of such a transfer: it is
a spoilt one of `FileTransfer`, from which the next `Ask` starts afresh, and the
first request cannot meet one.
`TftpTyped` proves the types without these hypotheses: a client that waits has
made a request (`WasRequested`).

**NetworkSettings.** `TimeoutsCoverWindows` proves `TimeoutCoversWindow` for any
number of tasks and any window function. While somebody sets RTR and RCR the
floor lags behind, so the invariant says what has been written and read back so
far (`TupleWritten`, `TupleRead`), who may be doing it (`HoldsGlobal`) and that
the floor covers the window whenever nobody is (`FloorCovers`). The saturation
in `wizchip_update_timeout_floor_locked` is left out: the largest window RTR and
RCR can state is below 2^32 microseconds. `IdentityIsKept` proves `NetInfoKept`
for an identity of any number of registers: part by part, what a reader or a
reset has read is what was agreed (`Sees`, `Saves`), what a reset has written
back is again (`Restores`), and one task at a time does any of it (`Alone`).
`SettingsTyped` proves the types: a call is at one of its own steps
(`StepsKnown`), which is what its index into the registers stands on.

**The services together** (`ServicesProofs`). What is proved of each service
alone holds of all of them side by side, the specification `services_safety`
checks. A step of `Services` is a step of one service and leaves the
variables of every other as they are (`OneMoves`), so the inductive invariants
are kept together (`ServicesInv`). `ServicesTyped` proves `ServicesTypeOK`;
what the services' own invariants lacked for it was when SNTP waits
(`SntpTypes`, `SntpTyped`), the steps of the settings' calls, and that the loops
of the calendar pass through dates only (`CalShaped`). `ServicesKeepPromises`
proves the thirteen invariants that need no hypothesis, each up to the case it
names.
`ServicesTransferFile`, `ServicesRespectLeases` and `ServicesTimeReal` prove the
three that have one, and `TransferImplemented`, under the same hypothesis as
alone; `ServicesQueue` proves `QueueImplemented`.

Each invariant was checked with TLC as an invariant of its run before it was
proved, or, where TLC cannot evaluate all of it, its parts were. A step lemma
has one case per action; the temporal conclusion combines initial state, step
and implication.

**From which assumptions.** The constants are as the code has them: an id space
that holds every operation and every message of the broker (`MqttAssumption`),
leases of a bounded length, none shorter than a renewal takes
(`DhcpAssumption`), a buffer for names of at most 192 octets
(`MAX_DOMAIN_NAME`) and names that fit it and have no empty label
(`DmAssumption`; the offset of the first answer then fits one octet), a manager
that sends text without NUL, of any length, and integers of at most four octets
(`SnmpAssumption`), a ring whose size divides the range of its pointers
(`RingAssumption`, sizes are powers of two). Four theorems have a hypothesis of
their own: `LeasesAreRespected`, `AcksAreOfStoredBlocks`, `ClientTransfersFile`
and `TimeStaysReal`, each a row of the table under [Services](#services);
`CachesStayCoherent` needs checked writes and sizes. The conditions a property
itself names (a socket that has not failed, an operation that waited to its
end) are part of what is checked and proved alike.

**Only model-checked:**

- All liveness: reasoning under fairness and about ENABLED.
- The runs that show a violation.

## Not modelled

- Other controllers (W5100S to W6300) and IPv6: register access behind the same
  socket layer. Of the W5100 the ring and the size registers are modelled, whose
  code differs from the W5500's in its control.
- DHCPv6 and address auto-configuration: for the W6100 only. `dhcpv6.c` calls
  functions of the DHCPv4 client and uses a variable it does not declare, so
  what it does as a program is not settled.
- The MQTT packet serializers (third-party code), `snmp_sendTrap`, the HTTP
  parser's texts, CGI handlers and storage: codings that keep no state.
- Loopback and multicast applications have no state of their own.
- `getsockopt` and most of `setsockopt`, interrupt masks, the net mode and the
  memory layout: registers read or written under one lock. The keep-alive
  command is in `StreamSocket`.
- The poll-counter fallback of the deadlines, used where no time source is
  registered, and `wizchip_deadline_abs`.
- `WIZCHIP_SAFE_SPI` is on in the `root_*` runs. Without it a write's failure is
  seen by a later access; the branch is in `ChipLifecycle` (`SafeSpi`).
- The socket models do not fail transfers; a socket call under a failing bus is
  `ChipLifecycle`'s `UseUnlock` and `OpenUnlock`.

Nearly half of the library's lines are the register headers of its seven
controllers; nothing in them moves.

## Plan

1. Two sockets over `sock_any_port`, whose ports start again at 0xC000 without
   asking which are in use.
2. `Transport`: bursts that fail with `WIZCHIP_SAFE_SPI` off, under the socket
   models.
3. The poll-counter fallback in `TimeBase`.
