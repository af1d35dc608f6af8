------------------------ MODULE Cola2Session_proofs ------------------------
(***************************************************************************)
(* Proofs about Cola2Session, for any number of calls and of faults, and   *)
(* for any kinds of fault.                                                 *)
(***************************************************************************)
EXTENDS Cola2Session, SequenceTheorems, TLAPS

-----------------------------------------------------------------------------
(* The inductive invariant. *)

\* Exchanging: a telegram is to be sent or waited for.  Reopening: it is the
\* CloseSession with which open() begins.
Exchanging == pc \in {"send", "receive"}
Reopening == Exchanging /\ phase = "open" /\ cmd.kind = "close"

\* A call goes through its phases with the command of each, and has no result
\* before it ends.
CallInv ==
  /\ pc = "connect" => phase = "open" /\ socket = "closed"
  /\ pc = "receive" => socket = "connected"
  /\ Exchanging =>
       \/ phase = "open" /\ cmd.kind \in {"create", "close"}
       \/ phase = "execute" /\ cmd.kind = "command"
       \/ phase = "close" /\ cmd.kind = "close"
  /\ pc # "idle" => result = "none"

\* A call connects once at most, to a connection nobody has used.
ConnectionInv ==
  /\ connection <= calls
  /\ pc = "connect" \/ Reopening => connection < calls
  /\ socket = "connected" => connection > 0
  /\ \A c \in Connections : c > connection => wire[c] = Unused

\* A connection is alive only while a call uses it.  Nothing is read from one
\* that is not.
LiveInv ==
  \A c \in Connections :
    /\ wire[c].alive =>
         /\ c = connection /\ socket = "connected"
         /\ Exchanging /\ ~ Reopening
    /\ ~ wire[c].alive => wire[c].down = <<>>

\* A session ID with which commands of connection c may go out: that of its
\* session, or whatever a sensor has said that has denied one.
Own(c, id) == id = c \/ (~ wire[c].session /\ "rejected" \in faults.kinds)

\* On the connection that is alive there is the command that the client waits
\* for, or its reply, and nothing else.
Answered(c) ==
  \E r \in Request :
    /\ wire[c].up = <<>> /\ wire[c].down = <<r>>
    /\ r.serial = cmd.serial
    /\ cmd.kind = "create" => Own(c, r.session_id)
    /\ cmd.kind = "close" => wire[c].session = FALSE

ExchangeInv ==
  \A c \in Connections : wire[c].alive =>
    /\ pc = "send" => wire[c].up = <<>> /\ wire[c].down = <<>>
    /\ pc = "receive" =>
         \/ wire[c].up = <<cmd>> /\ wire[c].down = <<>>
         \/ wire[c].up = <<>> /\ wire[c].down = <<>> /\ faults.count > faultsBefore
         \/ Answered(c)
    /\ phase # "open" => Own(c, m_session_id)

\* No connection, whether alive or left, holds more than one request, which is
\* of the session of the connection, if it has one.
RequestInv ==
  \A c \in Connections :
    \/ wire[c].up = <<>>
    \/ \E r \in Request :
         /\ wire[c].up = <<r>>
         /\ r.kind # "create" => Own(c, r.session_id)

\* What is not as it should be is the fault of the environment.
FaultInv ==
  /\ faultsBefore <= faults.count
  /\ IsOpen /\ ~ Alive => Abandoned
  /\ Exchanging /\ socket = "closed" => faults.count > faultsBefore

\* After a success no request is left that would change the session.
SuccessInv ==
  result = "ok" =>
    /\ pc = "idle" /\ socket = "closed" /\ connection > 0
    /\ "overrun" \notin faults.kinds =>
         wire[connection].session = FALSE /\ wire[connection].up = <<>>

SInv ==
  /\ TypeOK
  /\ CallInv
  /\ ConnectionInv
  /\ LiveInv
  /\ ExchangeInv
  /\ RequestInv
  /\ FaultInv
  /\ SuccessInv
  /\ RaisesForOwnFaults
  /\ ReplyAnswersCommand

-----------------------------------------------------------------------------
(* Helpers. *)

\* A connection, as TypeOK has it.
Wire == [up : Seq(Request), down : Seq(Request), alive : BOOLEAN, session : BOOLEAN]

LEMMA Single ==
  ASSUME NEW S, NEW x \in S
  PROVE  /\ <<x>> \in Seq(S) /\ <<>> \in Seq(S) /\ <<x>> # <<>>
         /\ Head(<<x>>) = x /\ Tail(<<x>>) = <<>> /\ Append(<<>>, x) = <<x>>
         /\ Len(<<x>>) = 1 /\ DOMAIN <<x>> = {1} /\ <<x>>[1] = x
OBVIOUS

LEMMA FaultCounts ==
  ASSUME TypeOK, NEW kind, Fault(kind)
  PROVE  /\ faults' \in [count : 0 .. MaxFaults, kinds : SUBSET Faults]
         /\ faults'.count = faults.count + 1
         /\ faults'.kinds = faults.kinds \cup {kind}
         /\ faults.count \in Nat /\ faultsBefore \in Nat
<1>1. /\ faults.count \in 0 .. MaxFaults /\ faults.kinds \in SUBSET Faults
      /\ MaxFaults \in Nat /\ faultsBefore \in 0 .. MaxFaults
  BY Cola2SessionAssumption DEF TypeOK
<1>2. kind \in Faults /\ faults.count < MaxFaults
  BY DEF Fault
<1>3. faults.count + 1 \in 0 .. MaxFaults /\ faults.kinds \cup {kind} \in SUBSET Faults
  BY <1>1, <1>2
<1> QED
  BY <1>1, <1>3 DEF Fault

\* The ID of the next request has the type that it must have.
LEMMA NextRequestID ==
  ASSUME TypeOK
  PROVE  GetNextRequestID \in 0 .. RequestIdModulus - 1
<1>1. m_request_id \in Nat /\ RequestIdModulus \in Nat \ {0}
  BY Cola2SessionAssumption DEF TypeOK
<1>2. \A n \in Nat, m \in Nat \ {0} : n % m \in 0 .. m - 1
  OBVIOUS
<1> QED
  BY <1>1, <1>2 DEF GetNextRequestID

LEMMA Constructed ==
  ASSUME TypeOK, NEW kind \in Kinds, Construct(kind)
  PROVE  /\ cmd' \in Request /\ cmd'.kind = kind /\ cmd'.serial = serial'
         /\ m_request_id' \in 0 .. RequestIdModulus - 1
         /\ serial' \in Nat /\ pc' = "send"
<1>1. 0 \in 0 .. MaxCalls /\ serial + 1 \in Nat
  BY Cola2SessionAssumption DEF TypeOK
<1>2. GetNextRequestID \in 0 .. RequestIdModulus - 1
  BY NextRequestID
<1> QED
  BY <1>1, <1>2 DEF Construct, Request

LEMMA WireType ==
  ASSUME TypeOK, NEW c \in Connections
  PROVE  /\ wire \in [Connections -> Wire] /\ wire[c] \in Wire
         /\ wire[c].up \in Seq(Request) /\ wire[c].down \in Seq(Request)
         /\ wire[c].alive \in BOOLEAN /\ wire[c].session \in BOOLEAN
BY DEF TypeOK, Wire

LEMMA InitSInv == Init => SInv
<1> SUFFICES ASSUME Init PROVE SInv
  OBVIOUS
<1>1. TypeOK
  <2>1. /\ 0 \in 0 .. MaxCalls /\ 0 \in 0 .. MaxFaults /\ 0 \in 0 .. RequestIdModulus - 1
        /\ {} \in SUBSET Faults
    BY Cola2SessionAssumption
  <2>2. NoCommand \in Request
    BY <2>1 DEF NoCommand, Request, Kinds
  <2>3. Unused \in [up : Seq(Request), down : Seq(Request), alive : BOOLEAN, session : BOOLEAN]
    BY DEF Unused
  <2>4. wire \in [Connections -> [up : Seq(Request), down : Seq(Request),
                                  alive : BOOLEAN, session : BOOLEAN]]
    BY <2>3 DEF Init
  <2> QED
    BY <2>1, <2>2, <2>4 DEF Init, TypeOK
<1>2. \A c \in Connections : wire[c] = Unused
  BY DEF Init
<1>3. CallInv /\ ConnectionInv /\ FaultInv /\ SuccessInv /\ RaisesForOwnFaults /\ ReplyAnswersCommand
  BY <1>2, Cola2SessionAssumption DEF Init, CallInv, ConnectionInv, FaultInv, SuccessInv,
     RaisesForOwnFaults, ReplyAnswersCommand, Exchanging, Reopening, IsOpen
<1>4. LiveInv /\ ExchangeInv /\ RequestInv
  BY <1>2 DEF Unused, LiveInv, ExchangeInv, RequestInv
<1> QED
  BY <1>1, <1>3, <1>4 DEF SInv

-----------------------------------------------------------------------------
(* The client. *)

\* While nothing is exchanged, no connection is alive.
LEMMA NothingAlive ==
  ASSUME TypeOK, ConnectionInv, LiveInv, ~ Alive
  PROVE  \A c \in Connections : wire[c].alive = FALSE
<1> SUFFICES ASSUME NEW c \in Connections, wire[c].alive PROVE FALSE
  BY WireType
<1> QED
  BY DEF LiveInv, Alive

LEMMA AliveOne ==
  ASSUME TypeOK, ConnectionInv, Alive
  PROVE  connection \in Connections
<1>1. connection \in 0 .. MaxCalls /\ MaxCalls \in Nat /\ connection > 0
  BY Cola2SessionAssumption DEF TypeOK, ConnectionInv, Alive
<1> QED
  BY <1>1 DEF Connections

\* An exception leaves the call, when the connection, if there was one, is lost.
LEMMA RaiseStep ==
  ASSUME SInv, pc # "idle", Raise, UNCHANGED connection,
         socket' \in {"closed", "open"} \/ socket' = socket,
         wire' \in [Connections -> Wire],
         \A c \in Connections : /\ wire'[c].alive = FALSE /\ wire'[c].down = <<>>
                                /\ wire'[c].up = wire[c].up /\ wire'[c].session = wire[c].session
                                /\ wire[c] = Unused => wire'[c] = Unused,
         faults' \in [count : 0 .. MaxFaults, kinds : SUBSET Faults],
         faults'.count >= faults.count, faults.kinds \subseteq faults'.kinds,
         socket' # "closed" => Abandoned',
         faults'.count > faultsBefore \/ (Abandoned' /\ socket' # "closed")
  PROVE  SInv'
<1> USE DEF SInv
<1>1. /\ pc' = "idle" /\ result' = "raised" /\ phase' = phase /\ cmd' = cmd
      /\ m_session_id' = m_session_id /\ m_request_id' = m_request_id /\ serial' = serial
      /\ calls' = calls /\ faultsBefore' = faultsBefore /\ exchange' = exchange
      /\ connection' = connection
  BY DEF Raise
<1>2. TypeOK'
  BY <1>1 DEF TypeOK, Wire
<1>3. CallInv' /\ SuccessInv' /\ RaisesForOwnFaults' /\ ReplyAnswersCommand'
  BY <1>1 DEF CallInv, SuccessInv, RaisesForOwnFaults, ReplyAnswersCommand, Exchanging, IsOpen
<1>4. ConnectionInv'
  BY <1>1 DEF ConnectionInv, Exchanging, Reopening, Connections
<1>5. LiveInv' /\ ExchangeInv' /\ RequestInv'
  BY DEF LiveInv, ExchangeInv, RequestInv, Own, Connections
<1>6. FaultInv'
  <2>1. faultsBefore <= faults.count /\ faultsBefore \in Nat /\ faults.count \in Nat /\ faults'.count \in Nat
    BY Cola2SessionAssumption DEF FaultInv, TypeOK
  <2> QED
    BY <1>1, <2>1 DEF FaultInv, Exchanging, IsOpen
<1> QED
  BY <1>2, <1>3, <1>4, <1>5, <1>6

LEMMA CallStep == ASSUME SInv, Call PROVE SInv'
<1> USE DEF SInv
<1>1. /\ pc = "idle" /\ calls < MaxCalls /\ calls' = calls + 1 /\ faultsBefore' = faults.count
      /\ phase' = "open" /\ result' = "none"
      /\ m_session_id' = m_session_id /\ socket' = socket /\ connection' = connection
      /\ wire' = wire /\ faults' = faults /\ exchange' = exchange
  BY DEF Call
<1>2. \/ /\ IsOpen /\ cmd'.kind = "close" /\ pc' = "send"
      \/ /\ ~ IsOpen /\ pc' = "connect"
  BY Constructed DEF Call, Kinds
<1>3. TypeOK'
  <2>1. /\ pc' \in {"connect", "send"} /\ cmd' \in Request
        /\ m_request_id' \in 0 .. RequestIdModulus - 1 /\ serial' \in Nat
    <3>1. CASE IsOpen
      BY <3>1, Constructed DEF Call, Kinds
    <3>2. CASE ~ IsOpen
      BY <3>2 DEF Call, TypeOK
    <3> QED
      BY <3>1, <3>2
  <2>2. calls' \in 0 .. MaxCalls /\ faultsBefore' \in 0 .. MaxFaults
    BY <1>1, Cola2SessionAssumption DEF TypeOK
  <2> QED
    BY <1>1, <2>1, <2>2 DEF TypeOK
<1>4. ~ Alive /\ \A c \in Connections : wire[c].alive = FALSE
  <2>1. ~ Alive
    BY <1>1, AliveOne DEF LiveInv, Exchanging, Alive
  <2> QED
    BY <2>1, NothingAlive
<1>5. CallInv'
  BY <1>1, <1>2 DEF CallInv, Exchanging, IsOpen
<1>6. ConnectionInv'
  <2>1. connection \in Nat /\ calls \in Nat
    BY Cola2SessionAssumption DEF TypeOK
  <2> QED
    BY <1>1, <2>1 DEF ConnectionInv, Reopening, Exchanging, Connections
<1>7. LiveInv' /\ ExchangeInv' /\ RequestInv'
  BY <1>1, <1>4 DEF LiveInv, ExchangeInv, RequestInv, Own, Connections
<1>8. FaultInv'
  <2>1. faults.count \in Nat
    BY DEF TypeOK
  <2> QED
    BY <1>1, <1>2, <2>1 DEF FaultInv, IsOpen, Alive, Abandoned, Exchanging
<1>9. SuccessInv' /\ RaisesForOwnFaults' /\ ReplyAnswersCommand'
  BY <1>1 DEF SuccessInv, RaisesForOwnFaults, ReplyAnswersCommand
<1> QED
  BY <1>3, <1>5, <1>6, <1>7, <1>8, <1>9

LEMMA ConnectStep == ASSUME SInv, Connect PROVE SInv'
<1> USE DEF SInv
<1>1. /\ pc = "connect" /\ connection' = connection + 1 /\ phase' = phase
      /\ m_session_id' = m_session_id /\ calls' = calls /\ faultsBefore' = faultsBefore
      /\ result' = result /\ exchange' = exchange
  BY DEF Connect
<1>2. /\ cmd' \in Request /\ cmd'.kind = "create" /\ m_request_id' \in 0 .. RequestIdModulus - 1
      /\ serial' \in Nat /\ pc' = "send"
  BY Constructed DEF Connect, Kinds
<1>3. phase = "open" /\ socket = "closed" /\ result = "none"
  BY <1>1 DEF CallInv
<1>4. connection + 1 \in Connections /\ connection \in Nat /\ connection + 1 <= calls
  <2>1. connection \in 0 .. MaxCalls /\ calls \in 0 .. MaxCalls /\ connection < calls /\ MaxCalls \in Nat
    BY <1>1, Cola2SessionAssumption DEF TypeOK, ConnectionInv
  <2> QED
    BY <2>1 DEF Connections
<1>5. wire[connection + 1] = Unused /\ \A c \in Connections : wire[c].alive = FALSE
  <2>1. wire[connection + 1] = Unused
    BY <1>4 DEF ConnectionInv
  <2>2. ~ Alive
    BY <1>3 DEF Alive
  <2> QED
    BY <2>1, <2>2, NothingAlive
<1>6. faults.count \in Nat /\ faultsBefore \in Nat /\ faultsBefore <= faults.count
  BY DEF TypeOK, FaultInv
<1>7. CASE /\ socket' = "connected" /\ wire' = [wire EXCEPT ![connection + 1].alive = TRUE]
           /\ faults' = faults
  <2>1. /\ wire' \in [Connections -> Wire]
        /\ wire'[connection + 1] = [Unused EXCEPT !.alive = TRUE]
        /\ \A c \in Connections : c # connection + 1 => wire'[c] = wire[c]
    BY <1>4, <1>5, <1>7, WireType DEF Wire
  <2>2. TypeOK'
    <3>1. connection + 1 \in 0 .. MaxCalls
      BY <1>4 DEF Connections
    <3> QED
      BY <1>1, <1>2, <1>7, <2>1, <3>1 DEF TypeOK, Wire
  <2>3. /\ wire'[connection + 1].up = <<>> /\ wire'[connection + 1].down = <<>>
        /\ wire'[connection + 1].alive = TRUE /\ wire'[connection + 1].session = FALSE
    BY <2>1 DEF Unused
  <2>4. CallInv'
    BY <1>1, <1>2, <1>3, <1>7 DEF CallInv, Exchanging
  <2>5. ConnectionInv'
    BY <1>1, <1>2, <1>4, <1>7, <2>1 DEF ConnectionInv, Reopening, Exchanging, Connections
  <2>6. LiveInv'
    <3> SUFFICES ASSUME NEW c \in Connections
                 PROVE  /\ wire'[c].alive => c = connection'
                        /\ ~ wire'[c].alive => wire'[c].down = <<>>
      BY <1>1, <1>2, <1>3, <1>7 DEF LiveInv, Exchanging, Reopening, Connections
    <3>1. CASE c = connection + 1
      BY <1>1, <2>3, <3>1
    <3>2. CASE c # connection + 1
      BY <1>5, <2>1, <3>2 DEF LiveInv
    <3> QED
      BY <3>1, <3>2
  <2>7. ExchangeInv'
    BY <1>1, <1>2, <1>3, <1>5, <2>1, <2>3 DEF ExchangeInv, Connections
  <2>8. RequestInv'
    BY <1>7, <2>1, <2>3 DEF RequestInv, Own, Connections
  <2>9. FaultInv'
    BY <1>1, <1>2, <1>6, <1>7, <2>3 DEF FaultInv, IsOpen, Alive, Exchanging
  <2>10. SuccessInv' /\ RaisesForOwnFaults' /\ ReplyAnswersCommand'
    BY <1>1, <1>3 DEF SuccessInv, RaisesForOwnFaults, ReplyAnswersCommand
  <2> QED
    BY <2>2, <2>4, <2>5, <2>6, <2>7, <2>8, <2>9, <2>10
<1>8. CASE socket' = "closed" /\ wire' = wire /\ Fault("overrun")
  <2>1. /\ faults' \in [count : 0 .. MaxFaults, kinds : SUBSET Faults]
        /\ faults'.count = faults.count + 1 /\ faults.kinds \subseteq faults'.kinds
    BY <1>8, FaultCounts
  <2>2. TypeOK'
    <3>1. connection + 1 \in 0 .. MaxCalls
      BY <1>4 DEF Connections
    <3> QED
      BY <1>1, <1>2, <1>8, <2>1, <3>1 DEF TypeOK
  <2>3. CallInv' /\ ConnectionInv'
    BY <1>1, <1>2, <1>3, <1>4, <1>8 DEF CallInv, ConnectionInv, Reopening, Exchanging, Connections
  <2>4. LiveInv' /\ ExchangeInv' /\ RequestInv'
    BY <1>5, <1>8, <2>1 DEF LiveInv, ExchangeInv, RequestInv, Own, Connections
  <2>5. FaultInv'
    BY <1>1, <1>6, <1>8, <2>1 DEF FaultInv, IsOpen, Exchanging
  <2>6. SuccessInv' /\ RaisesForOwnFaults' /\ ReplyAnswersCommand'
    BY <1>1, <1>3 DEF SuccessInv, RaisesForOwnFaults, ReplyAnswersCommand
  <2> QED
    BY <2>2, <2>3, <2>4, <2>5, <2>6
<1> QED
  BY <1>7, <1>8 DEF Connect

LEMMA ConnectFailsStep == ASSUME SInv, ConnectFails PROVE SInv'
<1> USE DEF SInv
<1>1. /\ pc = "connect" /\ Raise /\ UNCHANGED connection /\ wire' = wire
      /\ \/ Fault("refused") /\ socket' = "open"
         \/ Fault("unreachable") /\ socket' = "closed"
         \/ Fault("overrun") /\ socket' = "closed"
  BY DEF ConnectFails
<1>2. ~ Alive
  BY <1>1 DEF CallInv, Alive
<1>3. wire' \in [Connections -> Wire]
  BY <1>1, WireType DEF TypeOK, Wire
<1>4. \A c \in Connections : wire'[c].alive = FALSE /\ wire'[c].down = <<>>
  BY <1>1, <1>2, NothingAlive DEF LiveInv
<1>5. /\ faults' \in [count : 0 .. MaxFaults, kinds : SUBSET Faults]
      /\ faults'.count = faults.count + 1 /\ faults.count \in Nat /\ faultsBefore \in Nat
      /\ faults.kinds \subseteq faults'.kinds
  BY <1>1, FaultCounts
<1>6. socket' # "closed" => Abandoned'
  BY <1>1, FaultCounts DEF Abandoned
<1>7. faults'.count > faultsBefore /\ faults'.count >= faults.count
  BY <1>5 DEF FaultInv
<1> QED
  BY <1>1, <1>3, <1>4, <1>5, <1>6, <1>7, RaiseStep

LEMMA SendTelegramStep == ASSUME SInv, SendTelegram PROVE SInv'
<1> USE DEF SInv
<1>1. /\ pc = "send" /\ Alive /\ cmd' = [cmd EXCEPT !.session_id = m_session_id]
      /\ wire' = [wire EXCEPT ![connection].up = Append(@, cmd')] /\ pc' = "receive"
      /\ phase' = phase /\ m_session_id' = m_session_id /\ m_request_id' = m_request_id
      /\ socket' = socket /\ connection' = connection /\ faults' = faults
      /\ calls' = calls /\ faultsBefore' = faultsBefore /\ serial' = serial
      /\ result' = result /\ exchange' = exchange
  BY DEF SendTelegram, historyVars
<1>2. connection \in Connections /\ wire[connection].alive = TRUE /\ socket = "connected"
  BY <1>1, AliveOne, WireType DEF Alive
<1>3. wire[connection].up = <<>> /\ wire[connection].down = <<>> /\ ~ Reopening
  BY <1>1, <1>2 DEF ExchangeInv, LiveInv
<1>4. cmd' \in Request /\ cmd'.kind = cmd.kind /\ cmd'.session_id = m_session_id
  BY <1>1 DEF TypeOK, Request
<1>5. /\ wire' \in [Connections -> Wire]
      /\ \A c \in Connections : c # connection => wire'[c] = wire[c]
      /\ wire'[connection].up = <<cmd'>> /\ wire'[connection].down = <<>>
      /\ wire'[connection].alive = TRUE
      /\ wire'[connection].session = wire[connection].session
  <2>1. Append(<<>>, cmd') = <<cmd'>> /\ <<cmd'>> \in Seq(Request)
    BY <1>4, Single
  <2>2. /\ wire \in [Connections -> Wire] /\ wire[connection] \in Wire
    BY <1>2, WireType
  <2>3. wire' = [wire EXCEPT ![connection] = [wire[connection] EXCEPT !.up = <<cmd'>>]]
    BY <1>1, <1>3, <2>1
  <2>4. [wire[connection] EXCEPT !.up = <<cmd'>>] \in Wire
    BY <2>1, <2>2 DEF Wire
  <2> QED
    BY <1>2, <1>3, <2>2, <2>3, <2>4 DEF Wire
<1>6. TypeOK'
  BY <1>1, <1>4, <1>5 DEF TypeOK, Wire
<1>7. CallInv'
  BY <1>1, <1>2, <1>4 DEF CallInv, Exchanging
<1>8. ConnectionInv'
  BY <1>1, <1>2, <1>3, <1>5, Cola2SessionAssumption DEF ConnectionInv, Reopening, Exchanging, Connections, TypeOK
<1>9. LiveInv'
  BY <1>1, <1>2, <1>3, <1>4, <1>5 DEF LiveInv, Reopening, Exchanging, Connections
<1>10. ExchangeInv'
  <2> SUFFICES ASSUME NEW c \in Connections, wire'[c].alive
               PROVE  /\ wire'[c].up = <<cmd'>> /\ wire'[c].down = <<>>
                      /\ phase # "open" => Own(c, m_session_id)'
    BY <1>1 DEF ExchangeInv, Connections
  <2>1. c = connection
    BY <1>5 DEF LiveInv
  <2> QED
    BY <1>1, <1>2, <1>5, <2>1 DEF ExchangeInv, Own
<1>11. RequestInv'
  <2> SUFFICES ASSUME NEW c \in Connections
               PROVE  \/ wire'[c].up = <<>>
                      \/ \E r \in Request :
                           /\ wire'[c].up = <<r>>
                           /\ r.kind # "create" => Own(c, r.session_id)'
    BY DEF RequestInv, Connections
  <2>1. CASE c # connection
    BY <1>1, <1>5, <2>1 DEF RequestInv, Own
  <2>2. CASE c = connection
    <3>1. cmd.kind # "create" => phase # "open"
      BY <1>1, <1>3 DEF CallInv, Reopening, Exchanging
    <3>2. cmd.kind # "create" => Own(connection, m_session_id)
      BY <1>2, <3>1 DEF ExchangeInv
    <3> QED
      BY <1>1, <1>4, <1>5, <2>2, <3>2 DEF Own
  <2> QED
    BY <2>1, <2>2
<1>12. FaultInv'
  BY <1>1, <1>2, <1>5 DEF FaultInv, IsOpen, Alive, Exchanging
<1>13. SuccessInv' /\ RaisesForOwnFaults' /\ ReplyAnswersCommand'
  BY <1>1 DEF SuccessInv, RaisesForOwnFaults, ReplyAnswersCommand, Abandoned, CallInv
<1> QED
  BY <1>6, <1>7, <1>8, <1>9, <1>10, <1>11, <1>12, <1>13

LEMMA SendUnreadStep == ASSUME SInv, SendUnread PROVE SInv'
<1> USE DEF SInv
<1>1. /\ pc = "send" /\ socket = "connected" /\ ~ Alive
      /\ cmd' = [cmd EXCEPT !.session_id = m_session_id] /\ wire' = wire /\ pc' = "receive"
      /\ phase' = phase /\ m_session_id' = m_session_id /\ m_request_id' = m_request_id
      /\ socket' = socket /\ connection' = connection /\ faults' = faults
      /\ calls' = calls /\ faultsBefore' = faultsBefore /\ serial' = serial
      /\ result' = result /\ exchange' = exchange
  BY DEF SendUnread, historyVars
<1>2. \A c \in Connections : wire[c].alive = FALSE
  BY <1>1, NothingAlive
<1>3. cmd' \in Request /\ cmd'.kind = cmd.kind
  BY <1>1 DEF TypeOK, Request
<1>4. TypeOK'
  BY <1>1, <1>3 DEF TypeOK
<1>5. CallInv' /\ ConnectionInv'
  BY <1>1, <1>3 DEF CallInv, ConnectionInv, Exchanging, Reopening, Connections
<1>6. LiveInv' /\ ExchangeInv' /\ RequestInv'
  BY <1>1, <1>2 DEF LiveInv, ExchangeInv, RequestInv, Own, Connections
<1>7. FaultInv'
  BY <1>1 DEF FaultInv, IsOpen, Alive, Abandoned, Exchanging
<1>8. SuccessInv' /\ RaisesForOwnFaults' /\ ReplyAnswersCommand'
  BY <1>1 DEF SuccessInv, RaisesForOwnFaults, ReplyAnswersCommand, Abandoned, CallInv
<1> QED
  BY <1>4, <1>5, <1>6, <1>7, <1>8

LEMMA SendOrReceiveFailsStep == ASSUME SInv, SendFails \/ ReceiveFails PROVE SInv'
<1> USE DEF SInv
<1>1. /\ pc \in {"send", "receive"} /\ ~ Alive /\ Raise /\ UNCHANGED connection
      /\ wire' = wire
      /\ \/ socket' = socket /\ faults' = faults
         \/ socket' = "closed" /\ Fault("overrun")
  BY DEF SendFails, ReceiveFails
<1>2. wire' \in [Connections -> Wire]
  BY <1>1, WireType DEF TypeOK, Wire
<1>3. \A c \in Connections : wire'[c].alive = FALSE /\ wire'[c].down = <<>>
  BY <1>1, NothingAlive DEF LiveInv
<1>4. /\ faultsBefore \in Nat /\ faults.count \in Nat /\ faultsBefore <= faults.count
      /\ faults \in [count : 0 .. MaxFaults, kinds : SUBSET Faults]
  BY DEF TypeOK, FaultInv
<1>5. CASE socket' = socket /\ faults' = faults
  <2>1. socket' # "closed" => Abandoned'
    BY <1>1, <1>5 DEF FaultInv, IsOpen, Abandoned
  <2>2. faults'.count > faultsBefore \/ (Abandoned' /\ socket' # "closed")
    BY <1>1, <1>5, <2>1 DEF FaultInv, Exchanging
  <2>3. faults'.count >= faults.count /\ faults.kinds \subseteq faults'.kinds
    BY <1>4, <1>5
  <2> QED
    BY <1>1, <1>2, <1>3, <1>4, <1>5, <2>1, <2>2, <2>3, RaiseStep
<1>6. CASE socket' = "closed" /\ Fault("overrun")
  <2>1. /\ faults' \in [count : 0 .. MaxFaults, kinds : SUBSET Faults]
        /\ faults'.count = faults.count + 1 /\ faults.kinds \subseteq faults'.kinds
    BY <1>6, FaultCounts
  <2>2. faults'.count > faultsBefore /\ faults'.count >= faults.count
    BY <1>4, <2>1
  <2> QED
    BY <1>1, <1>2, <1>3, <1>6, <2>1, <2>2, RaiseStep
<1> QED
  BY <1>1, <1>5, <1>6

LEMMA ReceiveReplyStep == ASSUME SInv, ReceiveReply PROVE SInv'
<1> USE DEF SInv
<1> DEFINE c == connection
           read == [wire EXCEPT ![c].down = Tail(@)]
<1>1. /\ pc = "receive" /\ Alive /\ wire[c].down # <<>>
      /\ wire' = IF socket' = "closed" THEN Hangup(read) ELSE read
  BY DEF ReceiveReply
<1>2. c \in Connections /\ wire[c].alive = TRUE /\ socket = "connected" /\ ~ Reopening
  BY <1>1, AliveOne, WireType DEF Alive, LiveInv
<1>3. PICK r \in Request :
        /\ wire[c].up = <<>> /\ wire[c].down = <<r>>
        /\ r.serial = cmd.serial
        /\ cmd.kind = "create" => Own(c, r.session_id)
        /\ cmd.kind = "close" => wire[c].session = FALSE
  BY <1>1, <1>2 DEF ExchangeInv, Answered
<1>4. PICK s \in {"connected", "closed"} :
        /\ ProcessReply(r, s)
        /\ \/ s = "connected" /\ faults' = faults
           \/ s = "closed" /\ Fault("overrun")
  <2>1. Head(wire[c].down) = r
    BY <1>3, Single
  <2> QED
    BY <1>2, <2>1 DEF ReceiveReply
<1>5. /\ faults' \in [count : 0 .. MaxFaults, kinds : SUBSET Faults]
      /\ faults'.count >= faults.count /\ faults.kinds \subseteq faults'.kinds
      /\ s = "closed" => faults'.count > faultsBefore /\ "overrun" \in faults'.kinds
      /\ faultsBefore <= faults'.count
  <2>1. faults.count \in Nat /\ faultsBefore \in Nat /\ faultsBefore <= faults.count
    BY DEF TypeOK, FaultInv
  <2>2. CASE s = "connected"
    BY <1>4, <2>1, <2>2 DEF TypeOK
  <2>3. CASE s = "closed"
    BY <1>4, <2>1, <2>3, FaultCounts
  <2> QED
    BY <2>2, <2>3
<1>6. /\ connection' = c /\ calls' = calls /\ faultsBefore' = faultsBefore
      /\ exchange' = [sent |-> cmd.serial, answered |-> r.serial]
      /\ socket' \in {s, "closed"}
  BY <1>4 DEF ProcessReply
<1>7. /\ wire' \in [Connections -> Wire]
      /\ \A d \in Connections : d # c => wire'[d] = wire[d]
      /\ wire'[c].up = <<>> /\ wire'[c].down = <<>>
      /\ wire'[c].alive = (socket' = "connected")
      /\ wire'[c].session = wire[c].session
  <2>1. wire \in [Connections -> Wire] /\ wire[c] \in Wire
    BY <1>2, WireType
  <2>2. Tail(wire[c].down) = <<>> /\ <<>> \in Seq(Request)
    BY <1>3, Single
  <2>3. read = [wire EXCEPT ![c] = [wire[c] EXCEPT !.down = <<>>]]
    BY <2>2
  <2>4. [wire[c] EXCEPT !.down = <<>>] \in Wire
    BY <2>1, <2>2 DEF Wire
  <2>5. /\ read \in [Connections -> Wire]
        /\ \A d \in Connections : d # c => read[d] = wire[d]
        /\ read[c].up = <<>> /\ read[c].down = <<>> /\ read[c].alive = TRUE
        /\ read[c].session = wire[c].session
    BY <1>2, <1>3, <2>1, <2>3, <2>4 DEF Wire
  <2> HIDE DEF read
  <2>6. CASE socket' = "closed"
    <3>1. wire' = [read EXCEPT ![c].alive = FALSE, ![c].down = <<>>]
      BY <1>1, <1>2, <2>6 DEF Hangup
    <3> QED
      BY <1>2, <2>2, <2>5, <2>6, <3>1 DEF Wire
  <2>7. CASE socket' = "connected"
    BY <1>1, <2>5, <2>7
  <2> QED
    BY <1>6, <2>6, <2>7
<1>8. \A d \in Connections : d # c => wire[d].alive = FALSE
  BY WireType DEF LiveInv
\* What the client does next.
<1>9. \/ /\ phase = "open" /\ cmd.kind = "create" /\ m_session_id' = r.session_id
         /\ phase' = "execute" /\ Construct("command") /\ socket' = s /\ result' = result
      \/ /\ phase = "execute" /\ m_session_id' = m_session_id /\ phase' = "close"
         /\ socket' = s
         /\ \/ s = "closed" /\ Return
            \/ s = "connected" /\ Construct("close") /\ result' = result
      \/ /\ phase = "close" /\ cmd.kind = "close" /\ m_session_id' = m_session_id
         /\ phase' = "close" /\ socket' = "closed" /\ Return
  <2>1. \/ phase = "open" /\ cmd.kind = "create"
        \/ phase = "execute" /\ cmd.kind = "command"
        \/ phase = "close" /\ cmd.kind = "close"
    BY <1>1, <1>2 DEF CallInv, Exchanging, Reopening
  <2> QED
    BY <1>4, <2>1 DEF ProcessReply, CloseCall
<1>10. /\ cmd' \in Request /\ m_request_id' \in 0 .. RequestIdModulus - 1 /\ serial' \in Nat
       /\ m_session_id' \in 0 .. MaxCalls
       /\ phase' \in {"execute", "close"} /\ socket' \in {"connected", "closed"}
       /\ \/ pc' = "send" /\ phase' = "execute" /\ cmd'.kind = "command" /\ result' = result
          \/ pc' = "send" /\ phase' = "close" /\ cmd'.kind = "close" /\ result' = result
          \/ pc' = "idle" /\ result' = "ok" /\ socket' = "closed"
  <2>1. r.session_id \in 0 .. MaxCalls /\ m_session_id \in 0 .. MaxCalls
    BY DEF Request, TypeOK
  <2>2. CASE Return
    <3>1. /\ cmd' = cmd /\ m_request_id' = m_request_id /\ serial' = serial
          /\ pc' = "idle" /\ result' = "ok"
      BY <2>2 DEF Return
    <3>2. m_session_id' \in {r.session_id, m_session_id} /\ socket' = "closed"
          /\ phase' \in {"execute", "close"}
      <4>1. pc' # "send"
        BY <3>1
      <4> QED
        BY <1>9, <4>1 DEF Construct
    <3> QED
      BY <2>1, <3>1, <3>2 DEF TypeOK
  <2>3. CASE Construct("command") /\ phase' = "execute" /\ socket' = s /\ result' = result
             /\ m_session_id' = r.session_id
    BY <2>1, <2>3, Constructed DEF Kinds
  <2>4. CASE Construct("close") /\ phase' = "close" /\ socket' = s /\ result' = result
             /\ m_session_id' = m_session_id
    BY <2>1, <2>4, Constructed DEF Kinds
  <2> QED
    BY <1>9, <2>2, <2>3, <2>4
<1>11. result = "none"
  BY <1>1 DEF CallInv
<1>12. TypeOK'
  <2>1. cmd.serial \in Nat /\ r.serial \in Nat
    BY DEF TypeOK, Request
  <2>2. pc' \in {"idle", "connect", "send", "receive"} /\ result' \in {"none", "ok", "raised"}
    BY <1>10, <1>11
  <2> QED
    BY <1>5, <1>6, <1>7, <1>10, <2>1, <2>2 DEF TypeOK, Wire
<1>13. CallInv'
  BY <1>10, <1>11 DEF CallInv, Exchanging
<1>14. ConnectionInv'
  <2>1. c > 0 /\ c <= calls
    BY <1>2 DEF ConnectionInv
  <2>2. \A d \in Connections : d > c => wire'[d] = Unused
    BY <1>7, Cola2SessionAssumption DEF ConnectionInv, TypeOK, Connections
  <2> QED
    BY <1>6, <1>10, <2>1, <2>2 DEF ConnectionInv, Exchanging, Reopening, Connections
<1>15. LiveInv'
  <2> SUFFICES ASSUME NEW d \in Connections
               PROVE  /\ wire'[d].alive => /\ d = c /\ socket' = "connected"
                                           /\ pc' = "send"
                      /\ ~ wire'[d].alive => wire'[d].down = <<>>
    BY <1>6, <1>10 DEF LiveInv, Exchanging, Reopening, Connections
  <2>1. CASE d = c
    BY <1>7, <1>10, <2>1
  <2>2. CASE d # c
    BY <1>7, <1>8, <2>2 DEF LiveInv
  <2> QED
    BY <2>1, <2>2
<1>16. ExchangeInv'
  <2> SUFFICES ASSUME NEW d \in Connections, wire'[d].alive
               PROVE  /\ pc' = "send" /\ wire'[d].up = <<>> /\ wire'[d].down = <<>>
                      /\ Own(d, m_session_id)'
    BY DEF ExchangeInv, Connections
  <2>1. d = c /\ socket' = "connected" /\ pc' = "send"
    BY <1>7, <1>8, <1>10
  <2>2. Own(c, m_session_id')
    BY <1>2, <1>3, <1>9, <2>1 DEF ExchangeInv
  <2> QED
    BY <1>5, <1>7, <2>1, <2>2 DEF Own
<1>17. RequestInv'
  <2> SUFFICES ASSUME NEW d \in Connections
               PROVE  \/ wire'[d].up = <<>>
                      \/ \E q \in Request :
                           /\ wire'[d].up = <<q>>
                           /\ q.kind # "create" => Own(d, q.session_id)'
    BY DEF RequestInv, Connections
  <2> QED
    BY <1>5, <1>7 DEF RequestInv, Own
<1>18. FaultInv'
  <2>1. socket' # "closed" => socket' = "connected" /\ wire'[c].alive
    BY <1>7, <1>10
  <2>2. Exchanging' /\ socket' = "closed" => s = "closed"
    BY <1>4, <1>9 DEF Return, Exchanging
  <2> QED
    BY <1>5, <1>6, <2>1, <2>2 DEF FaultInv, IsOpen, Alive
<1>19. SuccessInv'
  <2> SUFFICES ASSUME result' = "ok"
               PROVE  /\ pc' = "idle" /\ socket' = "closed" /\ c > 0
                      /\ "overrun" \notin faults'.kinds =>
                           wire'[c].session = FALSE /\ wire'[c].up = <<>>
    BY <1>6 DEF SuccessInv
  <2>1. pc' = "idle" /\ socket' = "closed"
    BY <1>10, <1>11
  <2>2. c > 0
    BY <1>2 DEF ConnectionInv
  <2>3. "overrun" \notin faults'.kinds => wire[c].session = FALSE
    <3>1. SUFFICES ASSUME s = "connected" PROVE wire[c].session = FALSE
      BY <1>5
    <3>2. cmd.kind = "close"
      BY <1>9, <1>10, <1>11, <2>1, <3>1
    <3> QED
      BY <1>3, <3>2
  <2> QED
    BY <1>7, <2>1, <2>2, <2>3
<1>20. RaisesForOwnFaults' /\ ReplyAnswersCommand'
  BY <1>3, <1>6, <1>10, <1>11 DEF RaisesForOwnFaults, ReplyAnswersCommand
<1> QED
  BY <1>12, <1>13, <1>14, <1>15, <1>16, <1>17, <1>18, <1>19, <1>20

LEMMA ReceiveTimeoutStep == ASSUME SInv, ReceiveTimeout PROVE SInv'
<1> USE DEF SInv
<1>1. /\ pc = "receive" /\ Alive /\ wire[connection].down = <<>> /\ Raise /\ UNCHANGED connection
      /\ socket' = "closed" /\ wire' = Hangup(wire)
      /\ IF wire[connection].up = <<>> THEN faults' = faults ELSE Fault("slow")
  BY DEF ReceiveTimeout
<1>2. connection \in Connections /\ wire[connection].alive = TRUE /\ socket = "connected"
  BY <1>1, AliveOne, WireType DEF Alive
<1>3. wire' = [wire EXCEPT ![connection].alive = FALSE, ![connection].down = <<>>]
  BY <1>1, <1>2 DEF Hangup
<1>4. /\ wire' \in [Connections -> Wire]
      /\ \A c \in Connections : c # connection => wire'[c] = wire[c]
      /\ wire'[connection].alive = FALSE /\ wire'[connection].down = <<>>
      /\ wire'[connection].up = wire[connection].up
      /\ wire'[connection].session = wire[connection].session
  <2>1. wire \in [Connections -> Wire] /\ wire[connection] \in Wire /\ <<>> \in Seq(Request)
    BY <1>2, WireType
  <2> QED
    BY <1>2, <1>3, <2>1 DEF Wire
<1>5. \A c \in Connections : /\ wire'[c].alive = FALSE /\ wire'[c].down = <<>>
                             /\ wire'[c].up = wire[c].up /\ wire'[c].session = wire[c].session
                             /\ wire[c] = Unused => wire'[c] = Unused
  <2> SUFFICES ASSUME NEW c \in Connections
               PROVE  /\ wire'[c].alive = FALSE /\ wire'[c].down = <<>>
                      /\ wire'[c].up = wire[c].up /\ wire'[c].session = wire[c].session
                      /\ wire[c] = Unused => wire'[c] = Unused
    OBVIOUS
  <2>1. CASE c = connection
    BY <1>2, <1>4, <2>1 DEF Unused
  <2>2. CASE c # connection
    BY <1>4, <2>2, WireType DEF LiveInv
  <2> QED
    BY <2>1, <2>2
<1>6. /\ faults' \in [count : 0 .. MaxFaults, kinds : SUBSET Faults]
      /\ faults'.count >= faults.count /\ faults'.count > faultsBefore
      /\ faults.kinds \subseteq faults'.kinds
  <2>1. faults.count \in Nat /\ faultsBefore \in Nat /\ faultsBefore <= faults.count
    BY DEF TypeOK, FaultInv
  <2>2. CASE wire[connection].up = <<>>
    <3>1. wire[connection].up # <<cmd>>
      BY <2>2, Single DEF TypeOK
    <3>2. ~ Answered(connection)
      BY <1>1, Single DEF Answered
    <3>3. faults.count > faultsBefore
      BY <1>1, <1>2, <3>1, <3>2 DEF ExchangeInv
    <3> QED
      BY <1>1, <2>1, <2>2, <3>3 DEF TypeOK
  <2>3. CASE wire[connection].up # <<>>
    BY <1>1, <2>1, <2>3, FaultCounts
  <2> QED
    BY <2>2, <2>3
<1>7. pc # "idle" /\ socket' \in {"closed", "open"}
  BY <1>1
<1> QED
  BY <1>1, <1>4, <1>5, <1>6, <1>7, RaiseStep

-----------------------------------------------------------------------------
(* The sensor. *)

\* The sensor takes the request of a connection, and answers it or is at fault.
LEMMA SensorTakes ==
  ASSUME SInv, NEW c \in Connections, NEW r \in Request,
         UNCHANGED <<clientVars, historyVars>>,
         wire[c].up = <<r>>,
         wire' \in [Connections -> Wire],
         \A d \in Connections : d # c => wire'[d] = wire[d],
         wire'[c].up = <<>>, wire'[c].alive = wire[c].alive,
         ~ wire[c].alive => wire'[c].down = wire[c].down,
         wire[c].alive =>
           \/ wire'[c].down = wire[c].down /\ faults'.count > faultsBefore
           \/ \E q \in Request :
                /\ wire'[c].down = Append(wire[c].down, q)
                /\ q.serial = r.serial
                /\ r.kind = "create" => Own(c, q.session_id)'
                /\ r.kind = "close" => wire'[c].session = FALSE,
         wire'[c].session => wire[c].session \/ r.kind = "create",
         faults' \in [count : 0 .. MaxFaults, kinds : SUBSET Faults],
         faults'.count >= faults.count, faults.kinds \subseteq faults'.kinds
  PROVE  SInv'
<1> USE DEF SInv
<1>1. /\ pc' = pc /\ phase' = phase /\ cmd' = cmd /\ m_session_id' = m_session_id
      /\ m_request_id' = m_request_id /\ socket' = socket /\ connection' = connection
      /\ calls' = calls /\ faultsBefore' = faultsBefore /\ serial' = serial
      /\ result' = result /\ exchange' = exchange
  BY DEF clientVars, historyVars
<1>2. <<r>> # <<>>
  BY Single
<1>3. TypeOK'
  BY <1>1 DEF TypeOK, Wire
<1>4. CallInv' /\ ReplyAnswersCommand'
  BY <1>1 DEF CallInv, ReplyAnswersCommand, Exchanging
<1>5. ConnectionInv'
  <2>1. ~ c > connection
    <3> SUFFICES ASSUME c > connection PROVE FALSE
      OBVIOUS
    <3>1. wire[c] = Unused
      BY DEF ConnectionInv
    <3>2. wire[c].up = <<>>
      BY <3>1 DEF Unused
    <3> QED
      BY <1>2, <3>2
  <2> QED
    BY <1>1, <2>1 DEF ConnectionInv, Exchanging, Reopening, Connections
<1>6. LiveInv'
  <2> SUFFICES ASSUME NEW d \in Connections
               PROVE  /\ wire'[d].alive = wire[d].alive
                      /\ ~ wire[d].alive => wire'[d].down = <<>>
    BY <1>1 DEF LiveInv, Exchanging, Reopening, Connections
  <2> QED
    BY DEF LiveInv
<1>7. ExchangeInv'
  <2> SUFFICES ASSUME NEW d \in Connections, wire'[d].alive
               PROVE  /\ pc = "send" => wire'[d].up = <<>> /\ wire'[d].down = <<>>
                      /\ pc = "receive" =>
                           \/ wire'[d].up = <<cmd>> /\ wire'[d].down = <<>>
                           \/ /\ wire'[d].up = <<>> /\ wire'[d].down = <<>>
                              /\ faults'.count > faultsBefore
                           \/ \E q \in Request :
                                /\ wire'[d].up = <<>> /\ wire'[d].down = <<q>>
                                /\ q.serial = cmd.serial
                                /\ cmd.kind = "create" => Own(d, q.session_id)'
                                /\ cmd.kind = "close" => wire'[d].session = FALSE
                      /\ phase # "open" => Own(d, m_session_id)'
    BY <1>1 DEF ExchangeInv, Answered, Connections
  <2>1. CASE d # c
    <3>1. faults.count > faultsBefore => faults'.count > faultsBefore
      BY DEF TypeOK
    <3> QED
      BY <1>1, <2>1, <3>1 DEF ExchangeInv, Answered, Own
  <2>2. CASE d = c
    <3>1. wire[c].alive /\ Exchanging /\ ~ Reopening
      BY <2>2 DEF LiveInv
    <3>2. pc = "receive" /\ wire[c].up = <<cmd>> /\ wire[c].down = <<>>
      BY <1>2, <3>1 DEF ExchangeInv, Answered, Exchanging
    <3>3. r = cmd
      <4>1. <<r>>[1] = <<cmd>>[1]
        BY <3>2
      <4> QED
        BY <4>1
    <3>4. phase # "open" => cmd.kind # "create"
      BY <3>1 DEF CallInv
    <3>5. phase # "open" => Own(c, m_session_id)'
      BY <1>1, <3>1, <3>3, <3>4 DEF ExchangeInv, Own
    <3>6. \A q \in Request : Append(<<>>, q) = <<q>>
      BY Single
    <3> QED
      BY <2>2, <3>1, <3>2, <3>3, <3>5, <3>6
  <2> QED
    BY <2>1, <2>2
<1>8. RequestInv'
  BY <1>1 DEF RequestInv, Own, Connections
<1>9. FaultInv'
  <2>1. faultsBefore \in Nat /\ faults.count \in Nat /\ faults'.count \in Nat
    BY DEF TypeOK
  <2>2. IsOpen' /\ ~ Alive' => IsOpen /\ ~ Alive
    <3>1. socket = "connected" => connection \in Connections
      BY Cola2SessionAssumption DEF TypeOK, ConnectionInv, Connections
    <3> QED
      BY <1>1, <3>1 DEF IsOpen, Alive
  <2> QED
    BY <1>1, <2>1, <2>2 DEF FaultInv, Abandoned, Exchanging
<1>10. SuccessInv'
  <2> SUFFICES ASSUME result = "ok", "overrun" \notin faults'.kinds
               PROVE  wire'[connection].session = FALSE /\ wire'[connection].up = <<>>
    BY <1>1 DEF SuccessInv
  <2>1. wire[connection].session = FALSE /\ wire[connection].up = <<>> /\ connection > 0
    BY DEF SuccessInv
  <2>2. connection \in Connections /\ connection # c
    <3>1. connection \in Connections
      BY <2>1, Cola2SessionAssumption DEF TypeOK, Connections
    <3>2. connection # c
      BY <1>2, <2>1
    <3> QED
      BY <3>1, <3>2
  <2> QED
    BY <2>1, <2>2
<1>11. RaisesForOwnFaults'
  <2>1. faultsBefore \in Nat /\ faults.count \in Nat /\ faults'.count \in Nat
    BY DEF TypeOK
  <2> QED
    BY <1>1, <2>1 DEF RaisesForOwnFaults, Abandoned, IsOpen
<1> QED
  BY <1>3, <1>4, <1>5, <1>6, <1>7, <1>8, <1>9, <1>10, <1>11

\* The request that the sensor takes is the only one.
LEMMA OnlyRequest ==
  ASSUME SInv, NEW c \in Connections, wire[c].up # <<>>
  PROVE  \E r \in Request : wire[c].up = <<r>> /\ Head(wire[c].up) = r /\ Tail(wire[c].up) = <<>>
<1>1. PICK r \in Request : wire[c].up = <<r>>
  BY DEF SInv, RequestInv
<1> QED
  BY <1>1, Single

\* What an answer does to the connection.
LEMMA AnswerSent ==
  ASSUME SInv, NEW c \in Connections, NEW r \in Request, wire[c].up = <<r>>,
         NEW id \in 0 .. MaxCalls, NEW session \in BOOLEAN,
         Answer(c, id, session)
  PROVE  /\ wire' \in [Connections -> Wire]
         /\ \A d \in Connections : d # c => wire'[d] = wire[d]
         /\ wire'[c].up = <<>> /\ wire'[c].alive = wire[c].alive
         /\ wire'[c].session = session
         /\ ~ wire[c].alive => wire'[c].down = wire[c].down
         /\ wire[c].alive =>
              \E q \in Request : /\ wire'[c].down = Append(wire[c].down, q)
                                 /\ q.serial = r.serial /\ q.session_id = id
<1> DEFINE q == [r EXCEPT !.session_id = id]
           down == IF wire[c].alive THEN Append(wire[c].down, q) ELSE wire[c].down
<1>1. q \in Request /\ q.serial = r.serial /\ q.session_id = id
  BY DEF Request
<1>2. wire \in [Connections -> Wire] /\ wire[c] \in Wire /\ wire[c].down \in Seq(Request)
  BY WireType DEF SInv
<1>3. Head(wire[c].up) = r /\ Tail(wire[c].up) = <<>> /\ <<>> \in Seq(Request)
  BY Single
<1>4. down \in Seq(Request)
  BY <1>1, <1>2, AppendProperties
<1>5. wire' = [wire EXCEPT ![c].up = <<>>, ![c].down = down, ![c].session = session]
  BY <1>3 DEF Answer
<1> HIDE DEF q, down
<1>6. /\ wire' \in [Connections -> Wire]
      /\ \A d \in Connections : d # c => wire'[d] = wire[d]
      /\ wire'[c].up = <<>> /\ wire'[c].alive = wire[c].alive
      /\ wire'[c].session = session /\ wire'[c].down = down
  BY <1>2, <1>3, <1>4, <1>5 DEF Wire
<1> QED
  BY <1>1, <1>6 DEF down

LEMMA SensorAnswersStep ==
  ASSUME SInv, NEW c \in Connections, SensorAnswers(c) PROVE SInv'
<1>1. PICK r \in Request : wire[c].up = <<r>> /\ Head(wire[c].up) = r
  BY OnlyRequest DEF SensorAnswers
<1>2. /\ r.kind \in Kinds /\ r.session_id \in 0 .. MaxCalls /\ c \in 0 .. MaxCalls
      /\ wire[c].session \in BOOLEAN /\ MaxCalls \in Nat
  BY WireType, Cola2SessionAssumption DEF Request, Connections, SInv
<1>3. PICK id \in 0 .. MaxCalls, session \in BOOLEAN :
        /\ Answer(c, id, session)
        /\ r.kind = "create" => id = c
        /\ r.kind = "close" => session = FALSE
        /\ session => wire[c].session \/ r.kind = "create"
  BY <1>1, <1>2 DEF SensorAnswers
<1>4. UNCHANGED <<clientVars, historyVars>> /\ faults' = faults
  BY DEF SensorAnswers
<1>5. /\ faults' \in [count : 0 .. MaxFaults, kinds : SUBSET Faults]
      /\ faults'.count >= faults.count /\ faults.kinds \subseteq faults'.kinds
  BY <1>4 DEF SInv, TypeOK
<1>6. /\ wire' \in [Connections -> Wire]
      /\ \A d \in Connections : d # c => wire'[d] = wire[d]
      /\ wire'[c].up = <<>> /\ wire'[c].alive = wire[c].alive
      /\ wire'[c].session = session
      /\ ~ wire[c].alive => wire'[c].down = wire[c].down
      /\ wire[c].alive =>
           \E q \in Request : /\ wire'[c].down = Append(wire[c].down, q)
                              /\ q.serial = r.serial /\ q.session_id = id
  BY <1>1, <1>3, AnswerSent
<1>7. wire[c].alive =>
        \E q \in Request :
          /\ wire'[c].down = Append(wire[c].down, q)
          /\ q.serial = r.serial
          /\ r.kind = "create" => Own(c, q.session_id)'
          /\ r.kind = "close" => wire'[c].session = FALSE
  BY <1>3, <1>6 DEF Own
<1>8. wire'[c].session => wire[c].session \/ r.kind = "create"
  BY <1>3, <1>6
<1> QED
  BY <1>1, <1>4, <1>5, <1>6, <1>7, <1>8, SensorTakes

LEMMA SensorRejectsStep ==
  ASSUME SInv, NEW c \in Connections, SensorRejects(c) PROVE SInv'
<1>1. PICK r \in Request : wire[c].up = <<r>> /\ Head(wire[c].up) = r
  BY OnlyRequest DEF SensorRejects
<1>2. r.session_id \in 0 .. MaxCalls /\ 0 \in 0 .. MaxCalls
  BY Cola2SessionAssumption DEF Request
<1>3. PICK id \in 0 .. MaxCalls : Answer(c, id, FALSE)
  BY <1>1, <1>2 DEF SensorRejects
<1>4. UNCHANGED <<clientVars, historyVars>> /\ Fault("rejected")
  BY DEF SensorRejects
<1>5. /\ faults' \in [count : 0 .. MaxFaults, kinds : SUBSET Faults]
      /\ faults'.count >= faults.count /\ faults.kinds \subseteq faults'.kinds
      /\ "rejected" \in faults'.kinds
  BY <1>4, FaultCounts DEF SInv
<1>6. /\ wire' \in [Connections -> Wire]
      /\ \A d \in Connections : d # c => wire'[d] = wire[d]
      /\ wire'[c].up = <<>> /\ wire'[c].alive = wire[c].alive
      /\ wire'[c].session = FALSE
      /\ ~ wire[c].alive => wire'[c].down = wire[c].down
      /\ wire[c].alive =>
           \E q \in Request : /\ wire'[c].down = Append(wire[c].down, q)
                              /\ q.serial = r.serial /\ q.session_id = id
  BY <1>1, <1>3, AnswerSent
<1>7. wire[c].alive =>
        \E q \in Request :
          /\ wire'[c].down = Append(wire[c].down, q)
          /\ q.serial = r.serial
          /\ r.kind = "create" => Own(c, q.session_id)'
          /\ r.kind = "close" => wire'[c].session = FALSE
  BY <1>5, <1>6 DEF Own
<1> QED
  BY <1>1, <1>4, <1>5, <1>6, <1>7, SensorTakes

LEMMA SensorIsSilentStep ==
  ASSUME SInv, NEW c \in Connections, SensorIsSilent(c) PROVE SInv'
<1>1. PICK r \in Request : wire[c].up = <<r>> /\ Tail(wire[c].up) = <<>>
  BY OnlyRequest DEF SensorIsSilent
<1>2. UNCHANGED <<clientVars, historyVars>> /\ Fault("silent")
      /\ wire' = [wire EXCEPT ![c].up = Tail(@)]
  BY DEF SensorIsSilent
<1>3. /\ faults' \in [count : 0 .. MaxFaults, kinds : SUBSET Faults]
      /\ faults'.count >= faults.count /\ faults.kinds \subseteq faults'.kinds
      /\ faults'.count > faultsBefore
  BY <1>2, FaultCounts DEF SInv, FaultInv
<1>4. /\ wire' \in [Connections -> Wire]
      /\ \A d \in Connections : d # c => wire'[d] = wire[d]
      /\ wire'[c].up = <<>> /\ wire'[c].alive = wire[c].alive
      /\ wire'[c].session = wire[c].session /\ wire'[c].down = wire[c].down
  <2>1. wire \in [Connections -> Wire] /\ wire[c] \in Wire /\ <<>> \in Seq(Request)
    BY WireType DEF SInv
  <2> QED
    BY <1>1, <1>2, <2>1 DEF Wire
<1>5. /\ UNCHANGED <<clientVars, historyVars>>
      /\ ~ wire[c].alive => wire'[c].down = wire[c].down
      /\ wire'[c].session => wire[c].session \/ r.kind = "create"
      /\ wire[c].alive =>
           \/ wire'[c].down = wire[c].down /\ faults'.count > faultsBefore
           \/ \E q \in Request :
                /\ wire'[c].down = Append(wire[c].down, q)
                /\ q.serial = r.serial
                /\ r.kind = "create" => Own(c, q.session_id)'
                /\ r.kind = "close" => wire'[c].session = FALSE
  BY <1>2, <1>3, <1>4
<1> QED
  BY <1>1, <1>3, <1>4, <1>5, SensorTakes

LEMMA SensorResetsStep == ASSUME SInv, SensorResets PROVE SInv'
<1> USE DEF SInv
<1>1. /\ Alive /\ Fault("reset") /\ wire' = [wire EXCEPT ![connection] = Unused]
      /\ pc' = pc /\ phase' = phase /\ cmd' = cmd /\ m_session_id' = m_session_id
      /\ m_request_id' = m_request_id /\ socket' = socket /\ connection' = connection
      /\ calls' = calls /\ faultsBefore' = faultsBefore /\ serial' = serial
      /\ result' = result /\ exchange' = exchange
  BY DEF SensorResets, clientVars, historyVars
<1>2. /\ faults' \in [count : 0 .. MaxFaults, kinds : SUBSET Faults]
      /\ faults'.count = faults.count + 1 /\ "reset" \in faults'.kinds
      /\ faults.count \in Nat /\ faultsBefore \in Nat
      /\ faults.kinds \subseteq faults'.kinds
  BY <1>1, FaultCounts
<1>3. connection \in Connections /\ wire[connection].alive = TRUE /\ socket = "connected"
  BY <1>1, AliveOne, WireType DEF Alive
<1>4. Abandoned' /\ pc # "idle"
  BY <1>2, <1>3 DEF Abandoned, LiveInv, Exchanging
<1>5. /\ wire' \in [Connections -> Wire]
      /\ \A c \in Connections : c # connection => wire'[c] = wire[c]
      /\ wire'[connection] = Unused
  <2>1. Unused \in Wire
    BY DEF Unused, Wire
  <2> QED
    BY <1>1, <1>3, <2>1, WireType
<1>6. TypeOK'
  BY <1>1, <1>2, <1>5 DEF TypeOK, Wire
<1>7. CallInv' /\ ConnectionInv'
  BY <1>1, <1>5 DEF CallInv, ConnectionInv, Exchanging, Reopening, Connections
<1>8. \A c \in Connections : /\ wire'[c].alive = FALSE /\ wire'[c].down = <<>>
                             /\ wire'[c] = Unused \/ wire'[c] = wire[c]
  BY <1>5, WireType DEF LiveInv, Unused
<1>9. LiveInv' /\ ExchangeInv' /\ RequestInv'
  BY <1>2, <1>8 DEF LiveInv, ExchangeInv, RequestInv, Own, Connections, Unused
<1>10. FaultInv' /\ SuccessInv' /\ RaisesForOwnFaults' /\ ReplyAnswersCommand'
  BY <1>1, <1>2, <1>3, <1>4 DEF FaultInv, SuccessInv, RaisesForOwnFaults, ReplyAnswersCommand
<1> QED
  BY <1>6, <1>7, <1>9, <1>10

LEMMA SInvStutters == ASSUME SInv, UNCHANGED vars PROVE SInv'
BY DEF vars, clientVars, historyVars, SInv, TypeOK, CallInv, ConnectionInv, LiveInv,
   ExchangeInv, Answered, Own, RequestInv, FaultInv, SuccessInv, RaisesForOwnFaults,
   ReplyAnswersCommand, Exchanging, Reopening, IsOpen, Alive, Abandoned

LEMMA SInvStep == SInv /\ [Next]_vars => SInv'
BY CallStep, ConnectStep, ConnectFailsStep, SendTelegramStep, SendUnreadStep,
   SendOrReceiveFailsStep, ReceiveReplyStep, ReceiveTimeoutStep, SensorAnswersStep,
   SensorRejectsStep, SensorIsSilentStep, SensorResetsStep, SInvStutters DEF Next, Client

-----------------------------------------------------------------------------
(* The theorems. *)

\* However calls, replies, deadlines and faults interleave, there is never
\* more than one exchange, on the newest connection.
THEOREM SessionInvariant == Spec => []SInv
<1>1. Init => SInv
  BY InitSInv
<1>2. SInv /\ [Next]_vars => SInv'
  BY SInvStep
<1> QED
  BY <1>1, <1>2, PTL DEF Spec

\* Every variable keeps its type; in particular the request ID stays in its
\* range, and a user gets no more connections than calls.
THEOREM SessionTypeCorrect == Spec => []TypeOK
<1>1. SInv => TypeOK
  BY DEF SInv
<1> QED
  BY <1>1, SessionInvariant, PTL

\* The reply that a command processes is its own, though nobody compares IDs.
THEOREM RepliesAreNotMistaken == Spec => []ReplyAnswersCommand
<1>1. SInv => ReplyAnswersCommand
  BY DEF SInv
<1> QED
  BY <1>1, SessionInvariant, PTL

\* Every command after CreateSession carries the ID of the session that the
\* sensor has created for its connection, or the sensor has denied a session
\* and the connection has none.
THEOREM SessionsAreNotMixed == Spec => []RequestsCarryOwnSession
<1>1. SInv => RequestsCarryOwnSession
  <2> SUFFICES ASSUME SInv, NEW c \in Connections,
                      NEW i \in DOMAIN wire[c].up, wire[c].up[i].kind # "create"
               PROVE  Own(c, wire[c].up[i].session_id)
    BY DEF RequestsCarryOwnSession, Own
  <2>1. wire[c].up # <<>>
    BY Single
  <2>2. PICK r \in Request :
          /\ wire[c].up = <<r>>
          /\ r.kind # "create" => Own(c, r.session_id)
    BY <2>1 DEF SInv, RequestInv
  <2>3. wire[c].up[i] = r
    BY <2>2, Single
  <2> QED
    BY <2>2, <2>3
<1> QED
  BY <1>1, SessionInvariant, PTL

\* After a call that succeeds the socket is closed and, unless the deadline
\* handler overran a reply, the sensor has closed the session.
THEOREM SuccessClosesEverything == Spec => []SuccessLeavesNothingOpen
<1>1. SInv => SuccessLeavesNothingOpen
  BY DEF SInv, SuccessInv, SuccessLeavesNothingOpen
<1> QED
  BY <1>1, SessionInvariant, PTL

\* Between calls the socket is closed, but for what the sensor did to it.
THEOREM IdleMeansClosed == Spec => []IdleSocketIsClosed
<1>1. SInv => IdleSocketIsClosed
  <2> SUFFICES ASSUME SInv, pc = "idle", socket # "closed" PROVE Abandoned
    BY DEF IdleSocketIsClosed
  <2>1. ~ Alive
    <3> SUFFICES ASSUME Alive PROVE FALSE
      OBVIOUS
    <3>1. connection \in Connections /\ wire[connection].alive
      BY AliveOne DEF SInv, Alive
    <3> QED
      BY <3>1 DEF SInv, LiveInv, Exchanging
  <2> QED
    BY <2>1 DEF SInv, FaultInv, IsOpen
<1> QED
  BY <1>1, SessionInvariant, PTL

\* A call raises for a fault of its own time, unless it leaves a socket open that
\* the sensor has refused or reset.
THEOREM FaultsDoNotLinger == Spec => []RaisesForOwnFaults
<1>1. SInv => RaisesForOwnFaults
  BY DEF SInv
<1> QED
  BY <1>1, SessionInvariant, PTL

\* No sequence of calls repairs a socket that is open without a peer; only a
\* deadline handler that overruns a failed read does, and never one that was
\* refused.
THEOREM WedgedForever == Spec => WedgedStaysWedged
<1> DEFINE Overrun == socket = "connected" /\ socket' = "closed" /\ Fault("overrun")
<1>1. SInv /\ [Next]_vars => [IsOpen /\ ~ Alive => (IsOpen' /\ ~ Alive') \/ Overrun]_vars
  <2> SUFFICES ASSUME SInv, Next, IsOpen, ~ Alive PROVE (IsOpen' /\ ~ Alive') \/ Overrun
    OBVIOUS
  <2>1. pc # "connect"
    BY DEF SInv, CallInv, IsOpen
  <2>2. CASE socket' = socket /\ connection' = connection /\ wire' = wire
    BY <2>2 DEF IsOpen, Alive
  <2>3. CASE \E c \in Connections :
               SensorAnswers(c) \/ SensorRejects(c) \/ SensorIsSilent(c)
    <3>1. socket' = socket /\ connection' = connection
      BY <2>3 DEF SensorAnswers, SensorRejects, SensorIsSilent, clientVars
    <3>2. \A d \in Connections : wire'[d].alive = wire[d].alive
      <4> PICK c \in Connections :
             SensorAnswers(c) \/ SensorRejects(c) \/ SensorIsSilent(c)
        BY <2>3
      <4> TAKE d \in Connections
      <4>1. wire \in [Connections -> Wire]
        BY WireType DEF SInv
      <4>2. CASE wire' = [wire EXCEPT ![c].up = Tail(@)]
        BY <4>1, <4>2 DEF Wire
      <4>3. ASSUME NEW id, NEW session, Answer(c, id, session)
            PROVE  wire'[d].alive = wire[d].alive
        BY <4>1, <4>3 DEF Answer, Wire
      <4> QED
        BY <4>2, <4>3 DEF SensorAnswers, SensorRejects, SensorIsSilent
    <3>3. socket = "connected" => connection \in Connections
      BY Cola2SessionAssumption DEF SInv, TypeOK, ConnectionInv, Connections
    <3> QED
      BY <3>1, <3>2, <3>3 DEF IsOpen, Alive
  <2>4. CASE ReceiveFails
    BY <2>2, <2>4 DEF ReceiveFails, SInv, CallInv, Raise
  <2> QED
    BY <2>1, <2>2, <2>3, <2>4 DEF Next, Client, Call, Connect, ConnectFails, SendTelegram, SendUnread,
       SendFails, ReceiveReply, ReceiveTimeout, SensorResets
<1> QED
  BY <1>1, SessionInvariant, PTL DEF Spec, WedgedStaysWedged
=============================================================================
