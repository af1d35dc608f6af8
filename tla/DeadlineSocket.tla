--------------------------- MODULE DeadlineSocket ---------------------------
(***************************************************************************)
(* Blocking socket operations with a timeout, as TCPClient (connect,       *)
(* receive) and UDPClient (receive) build them from asynchronous ones: the *)
(* operation is started, a deadline is set, and run_one() is called until  *)
(* the operation's handler has stored its error code.  A second actor,     *)
(* checkDeadline, always waits on the deadline timer and closes the socket *)
(* when it finds the deadline passed.                                      *)
(*                                                                         *)
(* Moving the deadline cancels the wait, which makes checkDeadline run     *)
(* although nothing has expired.  The two actors share the queue of        *)
(* handlers ready to run, and either may be queued first.                  *)
(***************************************************************************)
EXTENDS Integers, Sequences

CONSTANTS
  Reopens,    \* TRUE for TCPClient: connect() opens the socket again
  Timeouts,   \* the timeouts that callers pass
  MaxTime,    \* bound of the clock
  MaxAnswers  \* bound: the packets or acknowledgements that arrive

\* pos_infin: the clock never gets there.
Infinity == MaxTime + 1

ASSUME DeadlineSocketAssumption ==
  /\ Reopens \in BOOLEAN
  /\ Timeouts \subseteq Nat
  /\ MaxTime \in Nat
  /\ MaxAnswers \in Nat

VARIABLES
  now,       \* the clock
  expires,   \* m_deadline.expires_at()
  armed,     \* an async_wait on m_deadline is pending
  ready,     \* the handlers ready to run, in order
  socket,    \* "open" or "closed"
  pending,   \* an asynchronous operation on the socket is pending
  answers,   \* what has arrived at the socket and was not read
  arrived,   \* the number of answers so far
  ec,        \* the error code the caller waits on
  calling,   \* the caller is in its run_one() loop
  started    \* history: when the newest operation began, and its timeout

vars == <<now, expires, armed, ready, socket, pending, answers, arrived, ec,
          calling, started>>

Handlers == {"deadline", "success", "aborted", "error"}

TypeOK ==
  /\ now \in 0 .. MaxTime
  /\ expires \in 0 .. Infinity
  /\ armed \in BOOLEAN
  /\ ready \in Seq(Handlers)
  /\ socket \in {"open", "closed"}
  /\ pending \in BOOLEAN
  /\ answers \in 0 .. MaxAnswers
  /\ arrived \in 0 .. MaxAnswers
  /\ ec \in {"would_block", "success", "aborted", "error"}
  /\ calling \in BOOLEAN
  /\ started \in [at : Nat, timeout : Timeouts \cup {0}]

\* The constructor sets no deadline and starts the actor.
Init ==
  /\ now = 0
  /\ expires = Infinity
  /\ armed = TRUE
  /\ ready = <<>>
  /\ socket = IF Reopens THEN "closed" ELSE "open"
  /\ pending = FALSE
  /\ answers = 0
  /\ arrived = 0
  /\ ec = "success"
  /\ calling = FALSE
  /\ started = [at |-> 0, timeout |-> 0]

-----------------------------------------------------------------------------
(* The caller. *)

\* The handlers queued when the deadline is moved: a pending wait is cancelled.
CancelWait == IF armed THEN <<"deadline">> ELSE <<>>

\* An operation begins on a socket that is open, or not.  It completes at once
\* if the socket is closed, or when its answer is already there.
Begin(timeout, state, there) ==
  /\ ~ calling
  /\ calling' = TRUE
  /\ ec' = "would_block"
  /\ expires' = now + timeout
  /\ armed' = FALSE
  /\ started' = [at |-> now, timeout |-> timeout]
  /\ socket' = state
  /\ \/ /\ state = "closed"
        /\ ready' = ready \o CancelWait \o <<"error">>
        /\ pending' = FALSE
        /\ UNCHANGED answers
     \/ /\ state = "open" /\ there > 0
        /\ ready' = ready \o CancelWait \o <<"success">>
        /\ pending' = FALSE
        /\ answers' = there - 1
     \/ /\ state = "open" /\ there = 0
        /\ ready' = ready \o CancelWait
        /\ pending' = TRUE
        /\ answers' = 0
  /\ UNCHANGED <<now, arrived>>

Receive(timeout) == Begin(timeout, socket, answers)

\* TCPClient::connect opens a closed socket.
Connect(timeout) ==
  /\ Reopens
  /\ socket = "closed"
  /\ Begin(timeout, "open", 0)

\* TCPClient::disconnect, between operations.
Disconnect ==
  /\ Reopens
  /\ ~ calling
  /\ socket = "open"
  /\ socket' = "closed"
  /\ answers' = 0
  /\ UNCHANGED <<now, expires, armed, ready, pending, arrived, ec, calling, started>>

\* Mutant of CheckDeadline: the actor takes every wake-up for an expiry.
CheckDeadlineUnconditionally ==
  /\ socket' = "closed"
  /\ pending' = FALSE
  /\ ready' = Tail(ready) \o (IF pending THEN <<"aborted">> ELSE <<>>)
  /\ expires' = Infinity
  /\ armed' = TRUE
  /\ answers' = 0

\* Mutant of CheckDeadline: the operation is cancelled and the socket stays open.
CheckDeadlineCancels ==
  /\ ready' = Tail(ready) \o (IF expires <= now /\ pending THEN <<"aborted">> ELSE <<>>)
  /\ pending' = (pending /\ expires > now)
  /\ expires' = IF expires <= now THEN Infinity ELSE expires
  /\ armed' = TRUE
  /\ UNCHANGED <<socket, answers>>

\* Mutant of CheckDeadline: the actor ends after it has closed the socket.
CheckDeadlineOnce ==
  \/ /\ expires <= now
     /\ socket' = "closed"
     /\ pending' = FALSE
     /\ ready' = Tail(ready) \o (IF pending THEN <<"aborted">> ELSE <<>>)
     /\ expires' = Infinity
     /\ armed' = FALSE
     /\ answers' = 0
  \/ /\ expires > now
     /\ ready' = Tail(ready)
     /\ armed' = TRUE
     /\ UNCHANGED <<expires, socket, pending, answers>>

\* The handler of the timer, whatever woke it: it closes the socket if the
\* deadline has passed, which aborts the pending operation, and waits again.
CheckDeadline ==
  \/ /\ expires <= now
     /\ socket' = "closed"
     /\ pending' = FALSE
     /\ ready' = Tail(ready) \o (IF pending THEN <<"aborted">> ELSE <<>>)
     /\ expires' = Infinity
     /\ armed' = TRUE
     /\ answers' = 0
  \/ /\ expires > now
     /\ ready' = Tail(ready)
     /\ armed' = TRUE
     /\ UNCHANGED <<expires, socket, pending, answers>>

\* One round of the caller's loop runs the first handler that is ready.
RunDeadline ==
  /\ calling /\ ec = "would_block"
  /\ ready # <<>> /\ Head(ready) = "deadline"
  /\ CheckDeadline
  /\ UNCHANGED <<now, arrived, ec, calling, started>>

RunHandler ==
  /\ calling /\ ec = "would_block"
  /\ ready # <<>> /\ Head(ready) # "deadline"
  /\ ec' = Head(ready)
  /\ ready' = Tail(ready)
  /\ UNCHANGED <<now, expires, armed, socket, pending, answers, arrived, calling, started>>

\* Mutant of Return: the caller leaves as soon as the socket is closed.
ReturnWhenClosed ==
  /\ calling /\ (ec # "would_block" \/ socket = "closed")
  /\ calling' = FALSE
  /\ UNCHANGED <<now, expires, armed, ready, socket, pending, answers, arrived, ec, started>>

\* The loop ends, and the operation returns or raises.
Return ==
  /\ calling /\ ec # "would_block"
  /\ calling' = FALSE
  /\ UNCHANGED <<now, expires, armed, ready, socket, pending, answers, arrived, ec, started>>

-----------------------------------------------------------------------------
(* The reactor, which runs inside run_one(), and the world. *)

\* The timer expires.
WaitExpires ==
  /\ calling /\ armed /\ expires <= now
  /\ armed' = FALSE
  /\ ready' = Append(ready, "deadline")
  /\ UNCHANGED <<now, expires, socket, pending, answers, arrived, ec, calling, started>>

\* Mutant of OperationCompletes: the operation completes without an answer.
OperationCompletesSpuriously ==
  /\ calling /\ pending
  /\ pending' = FALSE
  /\ answers' = answers - 1
  /\ ready' = Append(ready, "success")
  /\ UNCHANGED <<now, expires, armed, socket, arrived, ec, calling, started>>

OperationCompletes ==
  /\ calling /\ pending /\ answers > 0
  /\ pending' = FALSE
  /\ answers' = answers - 1
  /\ ready' = Append(ready, "success")
  /\ UNCHANGED <<now, expires, armed, socket, arrived, ec, calling, started>>

\* A packet, or the peer's consent to connect, arrives at an open socket.
Arrive ==
  /\ socket = "open"
  /\ arrived < MaxAnswers
  /\ arrived' = arrived + 1
  /\ answers' = answers + 1
  /\ UNCHANGED <<now, expires, armed, ready, socket, pending, ec, calling, started>>

Tick ==
  /\ now < MaxTime
  /\ now' = now + 1
  /\ UNCHANGED <<expires, armed, ready, socket, pending, answers, arrived, ec, calling, started>>

\* The clock stops at its bound, so no operation begins whose deadline lies
\* beyond it.
Start(timeout) ==
  /\ now + timeout <= MaxTime
  /\ Receive(timeout) \/ Connect(timeout)

Next ==
  \/ \E timeout \in Timeouts : Start(timeout)
  \/ Disconnect
  \/ RunDeadline
  \/ RunHandler
  \/ Return
  \/ WaitExpires
  \/ OperationCompletes
  \/ Arrive
  \/ Tick

Spec == Init /\ [][Next]_vars

\* Time passes, the reactor reports what it finds, and the caller goes on.
Fairness ==
  /\ WF_vars(Tick)
  /\ WF_vars(WaitExpires)
  /\ WF_vars(RunDeadline \/ RunHandler)
  /\ WF_vars(Return)

FairSpec == Spec /\ Fairness

-----------------------------------------------------------------------------
(* Properties. *)

Queued(h) == {i \in DOMAIN ready : ready[i] = h}

\* The actor never dies and never doubles: checkDeadline waits on the timer or
\* is ready to run, exactly once.  Without it a blocking call could never time
\* out again.
OneDeadlineActor ==
  /\ armed => Queued("deadline") = {}
  /\ ~ armed => \E i \in DOMAIN ready : Queued("deadline") = {i}

\* The handler of an operation writes through pointers to variables of the
\* function that started it.  When that function has returned, no handler of
\* its operation is pending or queued.
NoDanglingHandler ==
  ~ calling =>
    /\ ~ pending
    /\ \A i \in DOMAIN ready : ready[i] = "deadline"

\* The deadline actor closes the socket only when the timeout of the operation
\* in progress has passed: a wake-up that belongs to an earlier deadline does
\* no harm.
NoPrematureClose ==
  [][calling /\ socket = "open" /\ socket' = "closed"
       => now >= started.at + started.timeout]_vars

\* Every operation ends, even if no answer ever arrives.
OperationEnds == calling ~> ~ calling
=============================================================================
