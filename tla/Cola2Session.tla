---------------------------- MODULE Cola2Session ----------------------------
(***************************************************************************)
(* The COLA2 command channel: a Cola2Session on a TCPClient, as every      *)
(* request of SickSafetyscannersBase uses it.  One call                    *)
(* (createAndExecuteCommand) opens a session, sends one command and closes *)
(* the session:                                                            *)
(*                                                                         *)
(*   open()     closes a session found open; connects; CreateSession       *)
(*   execute    the command itself                                         *)
(*   close()    CloseSession; disconnects                                  *)
(*                                                                         *)
(* Each of the commands is sent (assembleAndSendTelegram) and then waited  *)
(* for (receiveAndProcessResponse, processReplyBase).  An exception leaves *)
(* the whole call, and the members stay as they are.  The class works      *)
(* strictly sequentially, so there is one client process; the sensor, the  *)
(* TCP connections and the deadline are the other actors.                  *)
(*                                                                         *)
(* Replies carry a request ID that the client does not look at.  serial    *)
(* numbers the requests, so that the properties can tell which request a   *)
(* reply answers.                                                          *)
(***************************************************************************)
EXTENDS Naturals, Sequences

CONSTANTS
  MaxCalls,           \* bound: the calls a user makes
  MaxFaults,          \* bound: the faults of the environment
  Faults,             \* the kinds of fault that may happen
  RequestIdModulus    \* request IDs wrap here (2^16 in the code)

FaultKinds ==
  {"refused",    \* the sensor refuses a connection
   "unreachable",\* a connection attempt is not answered
   "slow",       \* a reply comes later than the deadline
   "silent",     \* a request is never answered
   "reset",      \* the sensor closes the connection
   "rejected",   \* the sensor does not create a session
   "overrun"}    \* an operation has ended, but the deadline handler runs before its own

ASSUME Cola2SessionAssumption ==
  /\ MaxCalls \in Nat
  /\ MaxFaults \in Nat
  /\ Faults \subseteq FaultKinds
  /\ RequestIdModulus \in Nat \ {0}

VARIABLES
  pc,            \* where the client is: "idle", "connect", "send", "receive"
  phase,         \* the part of the call it is in: "open", "execute", "close"
  cmd,           \* the command being executed
  m_session_id,  \* 0 before the first session
  m_request_id,
  socket,        \* "closed", "open" (without a peer) or "connected"
  connection,    \* the number of the newest connection, 0 before the first
  wire,          \* each connection: requests, replies, its state
  calls,         \* the number of calls made so far
  faults,        \* the faults so far: how many, and of which kinds
  faultsBefore,  \* history: how many there had been when the call began
  serial,        \* the number of commands constructed so far
  result,        \* of the newest call: "ok", "raised", "none" while it runs
  exchange       \* history: the newest command with the reply it processed

clientVars == <<pc, phase, cmd, m_session_id, m_request_id, socket, connection>>
historyVars == <<calls, faultsBefore, serial, result, exchange>>
vars == <<clientVars, wire, faults, historyVars>>

Connections == 1 .. MaxCalls
Kinds == {"create", "command", "close"}
Request == [kind : Kinds, request_id : 0 .. RequestIdModulus - 1,
            session_id : 0 .. MaxCalls, serial : Nat]

\* A connection before it is used.  The sensor numbers the sessions it creates
\* by their connection; session says whether it holds one.
Unused == [up |-> <<>>, down |-> <<>>, alive |-> FALSE, session |-> FALSE]

TypeOK ==
  /\ pc \in {"idle", "connect", "send", "receive"}
  /\ phase \in {"open", "execute", "close"}
  /\ cmd \in Request
  /\ m_session_id \in 0 .. MaxCalls
  /\ m_request_id \in 0 .. RequestIdModulus - 1
  /\ socket \in {"closed", "open", "connected"}
  /\ connection \in 0 .. MaxCalls
  /\ wire \in [Connections -> [up : Seq(Request), down : Seq(Request),
                               alive : BOOLEAN, session : BOOLEAN]]
  /\ calls \in 0 .. MaxCalls
  /\ faults \in [count : 0 .. MaxFaults, kinds : SUBSET Faults]
  /\ faultsBefore \in 0 .. MaxFaults
  /\ serial \in Nat
  /\ result \in {"none", "ok", "raised"}
  /\ exchange \in [sent : Nat, answered : Nat]

NoCommand == [kind |-> "command", request_id |-> 0, session_id |-> 0, serial |-> 0]

Init ==
  /\ pc = "idle"
  /\ phase = "open"
  /\ cmd = NoCommand
  /\ m_session_id = 0
  /\ m_request_id = 0
  /\ socket = "closed"
  /\ connection = 0
  /\ wire = [c \in Connections |-> Unused]
  /\ calls = 0
  /\ faults = [count |-> 0, kinds |-> {}]
  /\ faultsBefore = 0
  /\ serial = 0
  /\ result = "none"
  /\ exchange = [sent |-> 0, answered |-> 0]

-----------------------------------------------------------------------------
(* Helpers. *)

\* The environment commits a fault of this kind.
Fault(kind) ==
  /\ kind \in Faults
  /\ faults.count < MaxFaults
  /\ faults' = [count |-> faults.count + 1, kinds |-> faults.kinds \cup {kind}]

IsOpen == socket # "closed"

\* Mutant of GetNextRequestID: the counter does not wrap.
NextRequestIDUnbounded == m_request_id + 1

GetNextRequestID == (m_request_id + 1) % RequestIdModulus

\* A command object is constructed; its telegram is sent next.  The session ID
\* is filled in then.
Construct(kind) ==
  /\ cmd' = [kind       |-> kind,
             request_id |-> GetNextRequestID,
             session_id |-> 0,
             serial     |-> serial + 1]
  /\ m_request_id' = GetNextRequestID
  /\ serial' = serial + 1
  /\ pc' = "send"

\* An exception leaves the call.
Raise ==
  /\ pc' = "idle"
  /\ result' = "raised"
  /\ UNCHANGED <<phase, cmd, m_session_id, m_request_id, serial, calls, faultsBefore, exchange>>

\* The call returns.
Return ==
  /\ pc' = "idle"
  /\ result' = "ok"
  /\ UNCHANGED <<cmd, m_request_id, serial>>

\* The socket has a connection that the sensor keeps up.
Alive == socket = "connected" /\ wire[connection].alive

\* The client closes its socket: it reads nothing more from the connection,
\* and what it has sent may still reach the sensor.
Hangup(w) ==
  IF socket = "connected"
  THEN [w EXCEPT ![connection].alive = FALSE, ![connection].down = <<>>]
  ELSE w

-----------------------------------------------------------------------------
(* The client: open(). *)

\* A user calls a request: open() closes a session found open.
Call ==
  /\ pc = "idle"
  /\ calls < MaxCalls
  /\ calls' = calls + 1
  /\ faultsBefore' = faults.count
  /\ phase' = "open"
  /\ result' = "none"
  /\ IF IsOpen
     THEN Construct("close")
     ELSE pc' = "connect" /\ UNCHANGED <<cmd, m_request_id, serial>>
  /\ UNCHANGED <<m_session_id, socket, connection, wire, faults, exchange>>

\* connect() succeeds.  If the deadline handler runs between the completion
\* and its handler the socket is closed, and connect() succeeds all the same.
Connect ==
  /\ pc = "connect"
  /\ connection' = connection + 1
  /\ \/ /\ socket' = "connected"
        /\ wire' = [wire EXCEPT ![connection + 1].alive = TRUE]
        /\ UNCHANGED faults
     \/ /\ Fault("overrun")
        /\ socket' = "closed"
        /\ UNCHANGED wire
  /\ Construct("create")
  /\ UNCHANGED <<phase, m_session_id, calls, faultsBefore, result, exchange>>

\* Mutant of ConnectFails: the deadline does not close the socket.
ConnectFailsOpen ==
  /\ pc = "connect"
  /\ Fault("refused") \/ Fault("unreachable")
  /\ socket' = "open"
  /\ Raise
  /\ UNCHANGED <<connection, wire>>

\* connect() raises.  A peer that has refused leaves the socket open; it is the
\* deadline that closes it, when nothing has answered or, in an overrun, after
\* the peer has refused and before the handler is run that says so.
ConnectFails ==
  /\ pc = "connect"
  /\ \/ Fault("refused") /\ socket' = "open"
     \/ Fault("unreachable") /\ socket' = "closed"
     \/ Fault("overrun") /\ socket' = "closed"
  /\ Raise
  /\ UNCHANGED <<connection, wire>>

-----------------------------------------------------------------------------
(* The client: sendCommand(). *)

\* Mutant of SendTelegram: the session ID is not filled in.
SendWithoutSessionID ==
  /\ pc = "send"
  /\ Alive
  /\ wire' = [wire EXCEPT ![connection].up = Append(@, cmd)]
  /\ pc' = "receive"
  /\ UNCHANGED <<phase, cmd, m_session_id, m_request_id, socket, connection, faults, historyVars>>

SendTelegram ==
  /\ pc = "send"
  /\ Alive
  /\ cmd' = [cmd EXCEPT !.session_id = m_session_id]
  /\ wire' = [wire EXCEPT ![connection].up = Append(@, cmd')]
  /\ pc' = "receive"
  /\ UNCHANGED <<phase, m_session_id, m_request_id, socket, connection, faults, historyVars>>

\* The first write to a connection that the sensor has closed may succeed.
SendUnread ==
  /\ pc = "send"
  /\ socket = "connected" /\ ~ Alive
  /\ cmd' = [cmd EXCEPT !.session_id = m_session_id]
  /\ pc' = "receive"
  /\ UNCHANGED <<phase, m_session_id, m_request_id, socket, connection, wire, faults, historyVars>>

\* Mutant of SendFails: the socket is closed before the exception leaves.
SendFailsAndCloses ==
  /\ pc = "send"
  /\ ~ Alive
  /\ socket' = "closed"
  /\ Raise
  /\ UNCHANGED <<connection, wire, faults>>

\* The socket is closed, or the write fails.  The socket stays as it is.
SendFails ==
  /\ pc = "send"
  /\ ~ Alive
  /\ Raise
  /\ UNCHANGED <<socket, connection, wire, faults>>

\* Mutant of CloseCall: the call returns without CloseSession.
CloseCallAtOnce(s) == Return

\* close() after the command: it returns silently if the socket is closed.
CloseCall(s) ==
  \/ s = "closed" /\ Return
  \/ s # "closed" /\ Construct("close") /\ UNCHANGED result

\* The reply of the command has been received, and the socket is now s: what
\* the command makes of the reply, up to the next send or connect.
ProcessReply(reply, s) ==
  /\ exchange' = [sent |-> cmd.serial, answered |-> reply.serial]
  /\ \/ /\ cmd.kind = "create"
        /\ m_session_id' = reply.session_id
        /\ phase' = "execute"
        /\ Construct("command")
        /\ socket' = s
        /\ UNCHANGED result
     \/ /\ cmd.kind = "command"
        /\ phase' = "close"
        /\ socket' = s
        /\ CloseCall(s)
        /\ UNCHANGED m_session_id
     \/ /\ cmd.kind = "close"
        /\ socket' = "closed"
        /\ IF phase = "close"
           THEN Return
           ELSE pc' = "connect" /\ UNCHANGED <<cmd, m_request_id, serial, result>>
        /\ UNCHANGED <<phase, m_session_id>>
  /\ UNCHANGED <<connection, calls, faultsBefore>>

\* receive() returns the reply.  If the deadline handler runs between the
\* completion and its handler, it does so although the socket is closed.
ReceiveReply ==
  /\ pc = "receive"
  /\ Alive
  /\ wire[connection].down # <<>>
  /\ \/ ProcessReply(Head(wire[connection].down), socket) /\ UNCHANGED faults
     \/ ProcessReply(Head(wire[connection].down), "closed") /\ Fault("overrun")
  /\ LET read == [wire EXCEPT ![connection].down = Tail(@)]
     IN wire' = IF socket' = "closed" THEN Hangup(read) ELSE read

\* Mutant of ReceiveTimeout: the deadline cancels the read and does not close
\* the socket.
ReceiveTimeoutKeepsSocket ==
  /\ pc = "receive"
  /\ Alive
  /\ wire[connection].down = <<>>
  /\ IF wire[connection].up = <<>> THEN UNCHANGED faults ELSE Fault("slow")
  /\ Raise
  /\ UNCHANGED <<socket, connection, wire>>

\* Mutant of ReceiveTimeout: no deadline is set.
ReceiveForever == FALSE

\* The deadline passes before a reply is there: checkDeadline closes the
\* socket.  The reply may still be on its way.
ReceiveTimeout ==
  /\ pc = "receive"
  /\ Alive
  /\ wire[connection].down = <<>>
  /\ IF wire[connection].up = <<>> THEN UNCHANGED faults ELSE Fault("slow")
  /\ socket' = "closed"
  /\ wire' = Hangup(wire)
  /\ Raise
  /\ UNCHANGED connection

\* The sensor has closed the connection: the read fails, and the socket stays
\* open unless the deadline handler runs before the handler of the read.
ReceiveFails ==
  /\ pc = "receive"
  /\ ~ Alive
  /\ \/ UNCHANGED <<socket, faults>>
     \/ Fault("overrun") /\ socket' = "closed"
  /\ Raise
  /\ UNCHANGED <<connection, wire>>

Client ==
  \/ Connect
  \/ ConnectFails
  \/ SendTelegram
  \/ SendUnread
  \/ SendFails
  \/ ReceiveReply
  \/ ReceiveTimeout
  \/ ReceiveFails

-----------------------------------------------------------------------------
(* The sensor. *)

\* The sensor takes the next request of connection c, which the client may
\* have left, and answers with a reply for session id.
Answer(c, id, session) ==
  LET request == Head(wire[c].up)
      reply   == [request EXCEPT !.session_id = id]
  IN wire' = [wire EXCEPT
                ![c].up = Tail(@),
                ![c].down = IF wire[c].alive THEN Append(@, reply) ELSE @,
                ![c].session = session]

SensorAnswers(c) ==
  /\ wire[c].up # <<>>
  /\ LET request == Head(wire[c].up)
     IN \/ request.kind = "create" /\ Answer(c, c, TRUE)
        \/ request.kind = "command" /\ Answer(c, request.session_id, wire[c].session)
        \/ request.kind = "close" /\ Answer(c, request.session_id, FALSE)
  /\ UNCHANGED <<clientVars, faults, historyVars>>

\* The sensor denies the session.
SensorRejects(c) ==
  /\ wire[c].up # <<>>
  /\ Head(wire[c].up).kind = "create"
  /\ Fault("rejected")
  /\ \E id \in {0, Head(wire[c].up).session_id} : Answer(c, id, FALSE)
  /\ UNCHANGED <<clientVars, historyVars>>

SensorIsSilent(c) ==
  /\ wire[c].up # <<>>
  /\ Fault("silent")
  /\ wire' = [wire EXCEPT ![c].up = Tail(@)]
  /\ UNCHANGED <<clientVars, historyVars>>

\* The sensor closes the connection; its session goes with it.
SensorResets ==
  /\ Alive
  /\ Fault("reset")
  /\ wire' = [wire EXCEPT ![connection] = Unused]
  /\ UNCHANGED <<clientVars, historyVars>>

Next ==
  \/ Call
  \/ Client
  \/ \E c \in Connections :
       SensorAnswers(c) \/ SensorRejects(c) \/ SensorIsSilent(c)
  \/ SensorResets

Spec == Init /\ [][Next]_vars

\* A call that has begun goes on: connect() and receive() end by the deadline
\* at the latest.  A sensor that has taken a request, and neither dies nor
\* keeps silent, answers it.
Fairness ==
  /\ WF_vars(Client)
  /\ \A c \in Connections : WF_vars(SensorAnswers(c))

FairSpec == Spec /\ Fairness

-----------------------------------------------------------------------------
(* Properties. *)

\* processReplyBase is handed the reply to the command it belongs to, although
\* nothing compares request IDs: no late reply of an earlier command is ever
\* taken for the answer to a later one.
ReplyAnswersCommand == exchange.answered = exchange.sent

\* A command that follows CreateSession carries the ID of the session that the
\* sensor has created for the connection, never that of an earlier one; only on
\* a connection without a session, because the sensor has denied it, may it
\* carry whatever ID the denial had.
RequestsCarryOwnSession ==
  \A c \in Connections :
    \A i \in DOMAIN wire[c].up :
      wire[c].up[i].kind # "create" =>
        \/ wire[c].up[i].session_id = c
        \/ ~ wire[c].session /\ "rejected" \in faults.kinds

\* A call that succeeds leaves no open socket and, unless the deadline caught up
\* with a reply, no session behind at the sensor.
SuccessLeavesNothingOpen ==
  result = "ok" =>
    /\ socket = "closed"
    /\ "overrun" \notin faults.kinds => ~ wire[connection].session

\* Some connection was refused, or closed by the sensor.
Abandoned == {"refused", "reset"} \cap faults.kinds # {}

\* Between calls the socket is closed, so that the next open() starts afresh,
\* whatever interrupted the call before; only the sensor can prevent that.
IdleSocketIsClosed == pc = "idle" => socket = "closed" \/ Abandoned

\* A call raises only for what happens while it runs: a timeout, a late reply
\* or a session denied in one call is no obstacle to the calls after it.  The
\* exception is a socket that the sensor has left open without a peer, which
\* then is still open.
RaisesForOwnFaults ==
  result = "raised" => faults.count > faultsBefore \/ (Abandoned /\ IsOpen)

\* No call repairs an open socket without a peer: each raises in the close()
\* that open() begins with, before it connects again.  A socket that was refused
\* stays so for ever; one whose connection is gone is closed by nothing but the
\* deadline handler, when that overruns the handler of a failed read.
WedgedStaysWedged ==
  [][IsOpen /\ ~ Alive =>
       \/ IsOpen' /\ ~ Alive'
       \/ socket = "connected" /\ socket' = "closed" /\ Fault("overrun")]_vars

\* "Closes the current COLA2 session.  If no session is opened, the function
\* will return silently without raising an exception."
CloseIsSilentWithoutSession ==
  [][pc = "send" /\ cmd.kind = "close" /\ socket = "open" => result' # "raised"]_vars

\* Every call ends, whatever the sensor does.
EveryCallEnds == pc # "idle" ~> pc = "idle"
=============================================================================
