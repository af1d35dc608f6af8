# Verification of sick_safetyscanners_base

sick_safetyscanners_base is the C++ driver library for SICK safety laser
scanners. This directory holds TLA+ models of it, configurations that check
them with TLC, and proofs that TLAPS checks.

- [The system](#the-system)
- [The modules](#the-modules)
- [What the runs check](#what-the-runs-check)
- [What the code does differently from its documentation](#what-the-code-does-differently-from-its-documentation)
- [What is proved](#what-is-proved)
- [What is not modelled](#what-is-not-modelled)
- [Plan](#plan)
- [Running the checks](#running-the-checks)

`PROJECT.json` is the index: components, runs, the source lines behind every
definition, the mutants that show each property can fail, the hazards.
Paths below are relative to the repository.

## The system

A scanner sends measurement data over UDP and answers requests over TCP (the
COLA2 protocol). The library has these parts.

| Part | Code | State | Operations |
| --- | --- | --- | --- |
| `SickSafetyscannersBase` | `src/SickSafetyscanners.cpp` | a UDP client, a COLA2 session, a UDP merger | 16 requests, `findSensor` and `changeSensorSettings` (also from the constructor); each command by `createAndExecuteCommand`: open a session, send, close it |
| `AsyncSickSafetyScanner` | same, 238-323 | service thread, work object, callback | `run`, `stop`, destructor; `processUDPPacket` on the service thread |
| `SyncSickSafetyScanner` | same, 325-341 | none of its own | `receive(timeout)`, `isDataAvailable` |
| `UDPClient` | `src/communication/UDPClient.cpp` | bound socket, receive buffer, packet handler, deadline timer | `run`/`stop`/`handleReceive` (asynchronous), `receive(timeout)` and `checkDeadline` (blocking) |
| `TCPClient` | `src/communication/TCPClient.cpp` | socket, receive buffer, deadline timer, an `io_service` of its own | `connect`, `send`, `receive`, `disconnect`, `isConnected`, `checkDeadline` |
| `Cola2Session` | `src/cola2/Cola2Session.cpp` | request ID counter, session ID, TCP client | `open`, `close`, `sendCommand` |
| commands | `src/cola2/*Command.cpp`, `CreateSession`, `CloseSession` | command type, IDs, data of the reply | build a telegram, process a reply |
| `UDPPacketMerger` | `src/data_processing/UDPPacketMerger.cpp` | map from identification to datagrams, deployed buffer, completeness flag | `addUDPPacket`, `isComplete`, `getDeployedPacketBuffer` |
| `TCPPacketMerger`, `ParseTCPPacket` | `src/data_processing/` | segments of one reply, target size | `addTCPPacket`, header fields |
| measurement parsers | `ParseData` and the block parsers | angle, increment and number of beams, set anew for each telegram | telegram to `datastructure::Data` |
| variable parsers | `Parse*.cpp` | none | reply data to a data structure |
| data structures, flag sets, logging, exceptions | `src/datastructure`, `experimental`, headers | fields | getters and setters |

How they interact: the scanner calls the session, which calls the TCP client; a
command is constructed with the session (it takes a request ID from it) and,
when its reply comes, writes the session ID back (`CreateSession`). The UDP
client calls the scanner back for each datagram; the scanner feeds the merger,
takes a complete buffer from it, parses it and calls the user back. The
blocking calls of both clients share an `io_service` with the deadline actor
and run its handlers themselves, one at a time. The asynchronous scanner has a
thread that runs the `io_service` of its UDP client.

What is hard about it, and what makes each part correct:

- **Scan data path.** UDP loses, reorders and duplicates. Correct means: a
  buffer that is deployed is one whole telegram; a telegram that was received
  completely is deployed; nothing stays in the map but datagrams of telegrams
  that are incomplete; the telegrams do not disturb each other.
- **COLA2.** Connections are refused and reset, replies come late or never.
  Correct means: a reply is taken for the answer to its own command; commands
  carry the ID of their session; a call that succeeds leaves nothing open; a
  call that fails does no harm to later ones; every call ends.
- **Deadlines.** Two handlers race: the timer's and the operation's. Correct
  means: nobody's socket is closed before its timeout; the actor neither dies
  nor doubles; no handler is left that points into a function that has
  returned.
- **Asynchronous scanner.** The user's thread races with the service thread.
  Correct means: callbacks do not overlap and get the packets in order; `stop`
  stops; `run` starts; the destructor returns and leaves nothing running.
- **Synchronous scanner.** `receive` is a loop of blocking receives. Correct
  means: it throws when, and only when, its timeout has passed, and loses no
  datagram.
- **Replies and requests.** TCP cuts replies anywhere; requests for fields and
  monitoring cases run until the sensor has no more, and may be refused or fail
  half-way. Correct means: a reply is put together exactly as it was sent; a
  request returns what the sensor has; settings arrive as the user wrote them;
  every request ends.
- **Parsers.** Hundreds of offsets and masks written by hand, block offsets that
  the telegram gives, sizes and counters of several widths, members that the
  constructors leave uninitialised, an angle that is a sum of thousands of rounded
  additions. Correct means: a block depends on its own bytes and nothing else; no
  two members are read from the same bit; each beam has its point and its angle.

## The modules

| Module | Models | Notes |
| --- | --- | --- |
| `Datagrams` | a telegram, its fragments, the datagram header | bytes are named by their positions in the telegram |
| `UDPPacketMerger` | the merger | `addUDPPacket` runs under a mutex and is one step |
| `ScanDataStream` | sensor, network, merger, user | `ReceiveDatagram` and `DeliverData` are the steps of both scanners |
| `TelegramStream` | abstract specification of what a user is promised | refined by `ScanDataStream` |
| `MCScanDataStream` | three telegrams of 3, 2 and 1 fragments | values of the constants for TLC |
| `Cola2Session` | session, commands, TCP connections, sensor | one client process, because the class works strictly in sequence |
| `DeadlineSocket` | blocking calls of both clients with `checkDeadline` | `Reopens` tells TCP from UDP |
| `AsyncScanner` | asynchronous scanner and the asynchronous half of `UDPClient` | the scanner's thread or several of the user's |
| `SyncScanner` | `receive` as a loop over `DeadlineSocket` | extends that module |
| `ScanDataStream_proofs`, `Cola2Session_proofs`, `AsyncScanner_proofs`, `SyncScanner_proofs` | theorems about these, the last one about `DeadlineSocket` too | see [What is proved](#what-is-proved) |
| `ByteOrder` | `ReadWriteHelper.hpp` | a buffer is a sequence of bytes, offsets count from 0 |
| `ByteOrder_proofs` | theorems about it | what was written is read back |
| `ScanDataTypes`, `DeviceDataTypes` | the data classes | a record of the types of the members |
| `ScanDataParsers` | `ParseData` and the six block parsers | pure operators on bytes |
| `ScanTelegrams` | the bytes of the sensor's telegrams | external |
| `ScanDataParsing`, `MCScanDataParsing` | telegram after telegram, each parsed by a `ParseData` object of its own | |
| `ScanDataParsing_proofs` | theorems about `ScanDataParsing` | blocks are independent, uninitialised members do not show, angles follow the beams |
| `DeviceDataParsers` | the 18 parsers of variables | pure operators on bytes |
| `Cola2Commands` | `Command`, its 26 subclasses, `ParseTCPPacket` | telegrams as bytes, replies parsed |
| `TCPPacketMerger` | the merger of a reply's segments | and the loop of `receiveAndProcessResponse` |
| `SensorVariables` | the variables of a sensor and its replies | external |
| `DeviceRequests`, `MCDeviceRequests` | the requests of `SickSafetyscannersBase` | composes all of the above with the sensor and TCP |
| `DeviceRequests_proofs` | theorems about it | segments, replies, the end of requests |
| `DeviceAnswers_proofs` | more of them | what the sensor has is what the user gets |

Correspondence of state and code:

- **UDPPacketMerger.** The variables are the members of the class.
  `AddUDPPacket` is the whole of `addUDPPacket`: it clears the flag, adds to
  the map, and if the lengths add up sorts, strips the headers, stores the
  buffer, erases the entry and sets the flag. `std::sort` is not stable, so
  `SortedVectors` is the set of all sorted orders.
- **ScanDataStream.** `network` counts the copies of each datagram in flight,
  which includes the receive buffer of the socket. `received`, `duplicated` and
  `delivered` are history.
- **Cola2Session.** `pc` and `phase` say where the client is between two
  blocking operations. `ProcessReply` runs from a reply to the next operation,
  across `processReplyBase`, the end of one command and the construction of
  the next. `socket` distinguishes a socket that is open and has no peer, which
  is how `async_connect` leaves it when it fails. Faults of the environment are
  counted (`MaxFaults`) and of the kinds listed in `Faults`. `overrun` is the
  deadline handler running just before the handler of an operation that has
  ended, well or badly: the socket is closed, and the operation succeeds
  (`Connect`, `ReceiveReply`) or raises as it would have (`ConnectFails`,
  `ReceiveFails`). DeadlineSocket has this order of the two handlers.
- **DeadlineSocket.** `ready` is the queue of the `io_service`, `armed` the
  pending wait on the timer. Setting a deadline cancels the wait, which queues
  `checkDeadline` although nothing has expired. `expires` is the expiry,
  `Infinity` stands for `pos_infin`.
- **AsyncScanner.** `pending` counts receives in the reactor, `ready` holds
  completed or cancelled ones. `BeginReceive` may read at once, as the reactor
  does when a datagram is there. `HandleReceive` copies the packet and enters
  the callback, `CallbackReturns` begins the next receive, `HandleAbort` is the
  exception that ends the thread. The user's callback is a period of time in
  which anything else can happen. `own` tells the two constructors apart: the
  scanner has an `io_service` and a thread of its own, or both are the user's.
  A scanner without a thread joins nobody; the model lets the user destroy it
  only while no callback runs (`Destroy`).
- **SyncScanner.** Steps of `DeadlineSocket` with the loop around them. Whether
  a datagram completes a telegram is left open.
- **ScanDataParsing.** `data` is what `parseUDPSequence` returned last. One step
  parses one telegram with a new parser, as both scanners do
  (`SickSafetyscanners.cpp:305` and `:332`). The constructors of
  `ParseMeasurementData` and `ParseIntrusionData` leave `m_angle`, `m_angle_delta` and
  `m_num_scan_points` uninitialised; `Uninitialised` is what they may hold
  (`Parses`). An object is a record of the members that were set, so that a
  member the code leaves uninitialised is missing, not zero. Angles are integers
  in units of 1/4194304 degree, and `Float` rounds them to the 24 bits of a
  `float` wherever the code does.
- **DeviceRequests.** `phase` is the line of `createAndExecuteCommand`: open,
  execute or close. `uplink` is a telegram, `downlink` the segments of its reply,
  both as bytes that `ConstructTelegram` and `ParseTCPSequence` write and read.
  `SessionIsClosed` is where a request goes on: to a geometry, to the next index,
  or back to the user. `getIsValid` of an object no reply was parsed into is
  either value (`IsValidAtLast`): the constructors do not initialise it.

## What the runs check

| Run | Question | Bounds |
| --- | --- | --- |
| `stream` | whole telegrams only, nothing withheld, exact map, refinement of `TelegramStream`, arrival of telegrams without loss, for every telegram that is not duplicated itself | 3 telegrams, 6 datagrams, any loss and order; each datagram of `t1` copied once at most |
| `stream_duplication_whole` | (violation) whole telegrams under duplication | every datagram copied once at most |
| `cola2_faults` | replies, session IDs, leftovers, recovery, wedged sockets, every call ends | 3 calls, 3 faults of any kind |
| `cola2_refused` | (violation) `close()` without a session is silent | 3 calls, 1 refused connection |
| `deadline` | races of the deadline actor; every operation ends | clock up to 5, timeouts 1 and 2, 3 answers |
| `async_receive` | callbacks, order, quiet after a `stop()` that cancels, destructor | 2 threads, 3 packets, 1 `run()`, 2 calls of `stop()` |
| `async_stop` | (violation) nothing new after `stop()` | 3 packets |
| `async_restart` | (violation) `run()` after `stop()` receives | 2 calls of `run()` |
| `sync_receive` | honest timeouts, no datagram lost, deaf after a timeout | clock up to 5, 3 datagrams |
| `sync_slow_telegram` | (violation) the timeout of `receive()` | same |
| `scan_data` | blocks are independent of each other and of what a new parser's members hold; one point for each beam, at its angle; no two fields share a bit | 39 telegrams: every set of blocks in two orders, 0 to 10 beams with a limit of 9, two that are cut short; two values of the uninitialised members; every bit of one telegram changes |
| `requests` | replies whole, answers right, settings read back, no two members share a bit, every request ends | 3 sensors, 2 requests in any order, 1 fault, 4 places to cut a reply, both values of the port; every bit of each variable changes |

The properties of a run are listed in its `.cfg`; each is stated in words above
its definition. Some hold only up to a fault that does lasting harm, and say
so: `SuccessLeavesNothingOpen`, `IdleSocketIsClosed` and `RaisesForOwnFaults`
except the sockets that `WedgedStaysWedged` is about.

Why the bounds are enough to be interesting. Three telegrams of different
numbers of fragments interleave in every order; two of the fragments of `t1`
have the same length, which is what lets a copy of one replace the other. Three
calls are one that fails, one that meets what the first left behind, and one
that shows whether the second has repaired it; the request ID wraps after
four commands, so it wraps in every run. A clock up to 5 allows three
operations in a row with timeouts that end at different times. Three packets
are one before `stop()`, one in the handler and one after. `Connections` and
`serial` number things the code does not number, so that properties can tell
them apart.

The parsers are checked byte by byte: each telegram and each variable is
compared with all that differ from it in a single bit, except the bits of
lengths and offsets and the top bits of numbers that TLC's integers cannot
hold. With a limit of 9 beams a telegram of 9 is the last that is measured and
one of 10 the first that is not; 2751 differs in nothing else but the drift of
the angles, each a sum of rounded additions, and `AnglesFollowTheBeams` bounds
that for any number of beams: the theorem of the same name carries it from 9 to
2751. A sensor with fewer fields than are asked for, one without a
contour and one with as many monitoring cases as are asked for take every way
out of the loops. Replies are cut behind the length field, at the ends of the
header and of the number of the variable, and before their last byte, in every
combination.

Deadlock checking is off where a model has an end: when all telegrams are
sent, all calls made, the clock has stopped or the scanner is gone. Run
`requests` checks it, and has a step `Done` for its end. With
`EveryRequestEnds`, by which each step of a request lowers a bound on those
left, it shows that every request ends. This takes the place of a liveness
property and needs no fairness but that the sensor and the client go on.

Fairness:

- `ScanDataStream`: a datagram that stays in the socket's queue is read, and a
  buffer that is complete is taken; both hold while the user keeps calling
  `receive` or the service thread runs. Sending, loss and copying are not fair.
- `Cola2Session`: the client goes on (its blocking calls end, which is what
  run `deadline` shows) and a sensor that has a request answers it, unless
  it fails by one of the faults.
- `DeadlineSocket`: time passes, the reactor notices, the caller runs handlers.
- `AsyncScanner`: the threads poll, run handlers, and callbacks return or throw;
  the destructor goes on once begun.

## What the code does differently from its documentation

1. A duplicated datagram makes the merger deploy a buffer that is not a
   telegram (`UDPPacketMerger.cpp:120`; run `stream_duplication_whole`). The
   telegrams that are not duplicated themselves are safe (run `stream`).
2. After a refused connection the session can never be used again: `open()`
   finds the socket open and calls `close()`, which raises
   (`Cola2Session.cpp:92`; run `cola2_refused`). A connection reset by the
   sensor has the same effect. `WedgedStaysWedged` shows that no call repairs
   the first, and nothing the second but an accident: a read fails at once, the
   deadline passes all the same before its handler is run, and `checkDeadline`
   closes the socket (`TCPClient.cpp:75-81`). The same accident in `connect()`
   keeps a refused socket from being left open in the first place.
3. `stop()` has no effect while a handler is ready or running
   (`UDPClient.cpp:144`; run `async_stop`). When it finds a receive pending it
   is final (`QuietOnceCancelled`).
4. `run()` after `stop()` does not receive: the cancelled receive makes
   `handleReceive` throw, which ends the service thread (`UDPClient.cpp:128`;
   run `async_restart`).
5. `receive(timeout)` gives the whole timeout to each datagram
   (`SickSafetyscanners.cpp:335`; run `sync_slow_telegram`).

The documentation says nothing of one more thing a user should know: after the
first timeout `receive()` throws for ever, because the timeout closes the
socket and nothing opens it again (`UDPClient.cpp:107`; `DeafAfterTimeout`).
From then on `changeSensorSettings` tells the sensor to send to port 0
(`SickSafetyscanners.cpp:98`; the port in `SettingsReadBack`).

Reading the parsers for the models turned up places no document speaks of; the
models have them as they are:

- The flags of the monitoring cases of the outputs are read up to byte 194,
  though bytes 193 and 194 hold the sleep mode and the error flags
  (`ParseApplicationData.cpp:310`). `OneBitOneField` excepts the twelve flags.
- `FieldData` and `MonitoringCaseData` do not initialise the validity that
  `requestFieldData` and `requestMonitoringCases` read after a refused command
  (`SickSafetyscanners.cpp:127`). A geometry that is refused leaves a field
  without one in the user's vector.
- The interbeam period is set and read as 32 bits and kept in 16
  (`ConfigData.h:363`).
- `ChangeCommSettingsCommand::processReply` negates what its base class says
  (`ChangeCommSettingsCommand.cpp:86`). No request looks at it.
- The parsers of serial number, order number and firmware version read 16 bits
  for each character and keep 8, so they read one byte more than the string has.
- The size check of `ParseData` leaves out the header: a telegram that lacks
  1 to 52 bytes passes it and is read beyond its end. No telegram of the model
  is cut that way.

## What is proved

Each theorem is about a whole specification, for every value of its constants
that the `ASSUME` of its module allows: any telegrams and fragmentation, any
timeouts, any number of threads, packets, calls and faults. A safety invariant
is proved from an inductive one, which holds at first and which every action
keeps; the lemmas `...Step` do this action by action.

| Theorems | Property of a run |
| --- | --- |
| `ScanDataStream_proofs` | `TypeOK`, `OnlyWholeTelegrams`, `EveryBufferIsWhole`, `NothingWithheld`, `MapHoldsTheUndeployed`, `StreamSpec` (refinement) |
| `SyncScanner_proofs` | of `DeadlineSocket`: `TypeOK`, `OneDeadlineActor`, `NoDanglingHandler`, `NoPrematureClose` |
| | of `SyncScanner`: `SyncSpec => Spec` (refinement), types (`SyncTypeOK`, in no run), `TimeoutErrorIsHonest`, `EveryDatagramIsAdded`, `DeafAfterTimeout` |
| `AsyncScanner_proofs` | `TypeOK`, `OneCallbackAtATime`, `DeliveredInOrder`, `QuietOnceCancelled`, `NothingOutlivesTheScanner` |
| `Cola2Session_proofs` | `TypeOK`, `ReplyAnswersCommand`, `RequestsCarryOwnSession`, `SuccessLeavesNothingOpen`, `IdleSocketIsClosed`, `RaisesForOwnFaults`, `WedgedStaysWedged` |
| `DeviceRequests_proofs` | `ReplyIsWhole`, `EveryRequestEnds` |
| `DeviceAnswers_proofs` | `AnswersAreTheSensors`, `SettingsReadBack` |
| `ScanDataParsing_proofs` | `BlocksAreIndependent`, `AnglesFollowTheBeams`, and that no point of a scan at 0.1 degrees is of the next beam; that uninitialised members of the parsers do not show |
| `ByteOrder_proofs` | what a write function wrote is read back, and no other byte changes |

Hypotheses, beyond the assumptions of the modules:

- `UniqueIdentification` (stream): two telegrams of one identification would end
  up in one vector of the map. Nothing is assumed of the network: it may
  lose, reorder and copy. Only `EveryBufferIsATelegram` adds that it copies
  nothing (`MayDuplicate = {}`); run `stream_duplication_whole` shows what
  happens when it does.
- `AnglesOfAScan` (angles of the points): two beams are less than 4 degrees apart,
  so that the resolution is a float and is not rounded itself; and every beam is
  within a full turn, so that each sum is rounded by no more than 64 units.
- At most one call of `run()` (asynchronous scanner): `runs <= 1`, or
  `MaxRuns <= 1` for `CancelIsFinal`. See below. `DestructorLeavesNothing` and
  type correctness need nothing.

The assumptions of the modules that these proofs rest on and that say something
about the world: the ID of a session has 32 bits (`SessionIDAssumption`); a sensor
has fewer fields than are asked for, and no settings of an earlier user
(`SensorAssumption`); the settings of a user have the widths of `CommSettings`, and
their angles are floats that fit into the telegram (`SettingsAssumption`), which is
what `CommSettings` in the code can hold; the start angle and the resolution of a
measurement have 32 bits (`AnglesAssumption`); a telegram has each block at most
once and is no longer than 16 bit offsets reach, and one that is cut lacks more bytes
than a header has and keeps its header (`TelegramAssumption`; others are read beyond
their end).

**The stream.** The code counts bytes; the properties are about which bytes. The
bridge is `CompleteVector`: different datagrams of one telegram carry disjoint
sets of bytes, so if their lengths add up to the length of the telegram, the
map from the bytes counted to their positions is an injection between finite
sets of the same size, hence a surjection, and every position is there. With
`SortedVectorsFacts` (a sorted vector is a permutation) this gives
`DeployedIsTelegram`. `IInv` strengthens `OnlyWholeTelegrams` by what a step
needs to know: a datagram in flight was not read yet unless it was copied
(`NetworkInv`), and a vector in the map holds datagrams that were read of one
telegram, different ones unless one was copied (`MapInv`). `FullInv` adds the
converse, that everything read is in the map or in a telegram deployed, and
that no telegram is delivered twice (`DeliveryInv`), from which each delivery is
a step of `TelegramStream`.

**Deadlines.** `IInv` says what the queue of the `io_service` may be (`Queue`):
the actor is in it or waits on the timer, the handler of the operation is in it
or still to come, in either order, and nothing else ever is. That is why the
cancelled wait, which queues `checkDeadline` although nothing has expired, does
not double the actor. `DeadlineInv`: the deadline is that of the newest
operation or has been met; so a wake-up that belongs to an earlier operation
finds a deadline in the future and closes nothing.

**The synchronous scanner.** `ScannerImplementsSocket` maps each step of the
scanner to a step of `DeadlineSocket` or to none, so the theorems about
the socket hold in it too. `SyncIInv` counts datagrams (`CountInv`): each is in
the socket, in the one handler that may be underway, or added. An operation is
aborted by nothing but its deadline (`AbortInv`), which began when the call had
begun (`CallInv`); hence a `timeout_error` comes after the whole timeout.

**The asynchronous scanner.** The invariant counts receives (`ReceivesInv`):
those pending, completed, and in the callback are together at most the
calls of `run()`, since each handler begins the next receive in its own place.
With one call this is mutual exclusion of callbacks on any number of
threads, and the shared buffer holds one packet at a time (`OrderInv`: what was
delivered, what is in the buffer and what is in the socket are together all that
arrived). With a second call it is false, and rightly so: a `stop()` during a
callback finds nothing to cancel, `run()` then begins a second receive, and the
callback begins its own again when it returns. Both share `m_recv_buffer`, and
on two threads of the user's the callbacks overlap. This is the hazard of
`UDPClient.h:99` without `run()` ever being called twice in a row.

**The session.** Nothing in the code compares the IDs of a reply with those of
the command. `ReplyAnswersCommand` holds because of connections: one that is
alive carries the command that the client waits for, or its reply, or nothing
after a fault, and nothing else (`ExchangeInv`); and one that was left is never
read again (`LiveInv`), so a late reply is lost with it. `FaultInv` says that
whatever is not as it should be, a socket open without a peer or closed under a
command, is the fault of the environment, and since when. On a connection whose
session the sensor has denied, commands carry the ID that the denial had,
possibly of an earlier session (`open()` does not look at the answer,
`Cola2Session.cpp:79`); `RequestsCarryOwnSession` allows that and nothing else.

**The requests.** `ReplyIsWholeAlways` is for any sensor, any finite set of `Cuts` and any
numbers of fields and cases up to those of the code. The segments of a reply are a
partition of it: `SegmentsOfReply` shows this by ranking the cuts, and that the
first segment has the length field. Each reply of the sensor has its own length
in its header (`AnnouncedAnswer`), for every command that a request may send:
`CommandInv` keeps the indices of fields and monitoring cases in the ranges that
the variables have. Between two steps (`ReplyInv`) the segments collected and
those to come, one after the other, are the reply, none is empty, and the
target size is its length; so what is missing has the length of the next segment
if and only if that is the last (`SegmentIsAdded`). The lemmas about `FlattenSeq`
are proved by an induction over the set of lengths for which they hold
(`SetInduction`, from well-foundedness of `<`), as the induction theorems of the
library take an operator. `EveryRequestEndsAlways` uses the same invariant:
`StepsLeft` is a natural number (`StepsLeftIsNatural`) that every step of a
request makes smaller; that a request is never stuck is left to the run.

**What the requests bring.** `SettingsReadBack` and `AnswersAreTheSensors` follow from one
invariant, `AnswersInv`, whose parts are links of one chain.

- `ExchangeInv`: the telegram on its way is that of the command, in the session that
  is open; the newest reply to a variable command says what the variable is in
  the sensor now. The code compares no IDs here either: that the reply belongs to the
  command comes from the order of the steps.
- `RequestInv`: the command is one that the request leads to; the settings
  in force are the user's with the port of the socket, and the sensor has
  them as soon as it has been sent the command, which is before the request returns
  (`SettingsInv`).
- `FreshInv`: a command fills a new object, but the geometry of a field adds to what
  the header has filled.
- `SingleInv`, `FieldsInv`, `CasesInv`: when the session is closed, the object is what
  the parser makes of the variable; the fields and cases with lower indices have
  been read, and one is added in each pass, up to the first that is not there.

What the parsers make of the bytes is shown variable by variable. The settings are the
longest of them: `SettingsAreRead` follows each member from `WriteSettings`, through the
part of the telegram that becomes the variable, to `ParseMeasurementConfigData`, by the
theorems of `ByteOrder_proofs`; only the channel is not in the variable. That `FieldsOf` and `CasesOf` are what the loops collect
(`FieldsBelow`, `CasesBelow`) is one step of an induction in each pass. A bit that changes
in the sensor (`Probed`) does so between two readings of one variable, with no settings in
force (`FlippedInv`), and what is read then is the variable with that bit.

**Measurement data.** `BlocksAreIndependentAlways` is for any set of telegrams, any
subset and order of the blocks, any number of beams, and any angles. The
argument goes along the bytes. `WholeLayout` follows the sensor as it appends block
after block to the header: the entries of the blocks that are there say where they
are, those of the others are 0, and no block overwrites another. The lemmas
`Same...` say of each block parser that two buffers which agree on the bytes of the block
give the same result, whatever else the buffers hold. `WholeParsed` puts them
together: of a whole telegram `ParseData` makes what it makes of the telegrams
with one block alone (`Alone`); of one that is cut, nothing (`ShortParsed`). The intrusion
data is the part with recursion: its 24 datums follow one another, each at an
offset that the sizes of those before determine (`OffsetsAreThePlaces`).
The invariant (`ParsedInv`) says that the telegram is one of `Telegram` and the data are
what a parser made of it. `UninitialisedMembersDoNotShowAlways` needs no layout: for any
bytes, flipped bits included, the members that the constructors leave uninitialised are
overwritten before they are read (`MembersDoNotMatter`).

`AnglesFollowTheBeamsAlways` is the bound on the drift: the n-th point is within 64 * n units
of its beam. Below 512 degrees the floats are at most 128 units apart, so each addition
rounds by at most 64 (`FloatIsNear`). That the sums stay below 512 degrees is part of the
induction over the beams (`AnglesStayNear`): a sum that has drifted by 64 * n is still
within that of a full turn. For 2751 beams the bound is 1/24 of a degree, less than
half of 0.1 degrees, so in such a scan no point is nearer to the next beam than to its
own (`NoPointIsOfTheNextBeamAlways`).

Recursive functions are taken apart by their equations; that a function with such an
equation exists is shown once (`Iteration`), by induction over a set of numbers.

**Byte order.** The theorems say of `ReadWriteHelper.hpp`, for every buffer,
offset and value: each integer that a function writes is what its counterpart
reads at the same place, and no byte outside is touched. The runs check this
for the numbers that occur.

Only model-checked:

- Liveness (`UnlostTelegramsArrive`, `EveryCallEnds`, `OperationEnds`,
  `RunPassesDataOn`, `DestructorReturns`): fairness and ENABLED are beyond the
  backends of TLAPS here.
- `TypeOK`, `EveryBeamHasItsPoint` and `OneBitOneField` of `ScanDataParsing`: they are about
  telegrams in which any bit may differ, and about every member of the data.
- `TypeOK` and `OneBitOneMember` of `DeviceRequests`: they are about variables in
  which any of the bits in `Flippable` differs. Which bits leave a variable
  readable is what MCDeviceRequests lists for each variable; for an arbitrary set they do
  not hold.
- The runs that expect a violation: they are counterexamples.

## What is not modelled

- Header lengths: a datagram shorter than its header, and lengths that wrap
  around at 32 bits. Reuse of an identification.
- What is undefined in C++: reads beyond a buffer, by a telegram that lacks fewer
  bytes than its header has or by a first segment without the length field.
- Strings of 256 characters and more. A reply with more bytes than it announces.
- Setters that nothing calls (angles in degrees, features from flags),
  `LatestTelegram`, the success flag of commands, big endian reads of signed
  integers.
- `run()` called twice without `stop()`; the race on the packet handler this
  implies; a callback running while a scanner without a thread is destroyed;
  what is left in a user's `io_service` after the scanner is gone.
- Flag sets, logging, exceptions and the build: no behaviour. Of the
  multicast branch of the constructor nothing is modelled, it sets options of
  the socket.

## Plan

Done, in the order of importance: scan data path with proofs; COLA2 session;
deadline actor; asynchronous scanner; synchronous scanner; measurement parsers;
commands, replies and variable parsers; the requests over all of these; the
stream with duplication per telegram; byte order with proofs.

Proofs done: the stream, with copies; the deadline actor; both scanners; the
session; segments and end of requests; what the requests bring; measurement
data; byte order.

## Running the checks

`tlc -config Stream.cfg MCScanDataStream.tla`, and likewise for each run
listed in `PROJECT.json`. `tlapm M.tla` checks the proofs, for `M` one of
`ScanDataStream_proofs`, `SyncScanner_proofs`, `AsyncScanner_proofs`,
`Cola2Session_proofs`, `DeviceRequests_proofs`, `DeviceAnswers_proofs`,
`ScanDataParsing_proofs` and `ByteOrder_proofs`.
