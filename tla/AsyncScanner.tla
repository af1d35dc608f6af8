---------------------------- MODULE AsyncScanner ----------------------------
(***************************************************************************)
(* AsyncSickSafetyScanner and the asynchronous half of UDPClient: the      *)
(* user's thread calls run(), stop() and at last the destructor, while one *)
(* or more threads run the io_service.  A receive is pending on the socket *)
(* at most once per run(): its handler hands the packet to the user's      *)
(* callback and then begins the next receive.                              *)
(*                                                                         *)
(* The scanner may own the io_service and the one thread that runs it;     *)
(* otherwise both are the user's and the destructor joins nobody.          *)
(* A packet is a datagram that completes a telegram of its own: merging is *)
(* the subject of ScanDataStream.                                          *)
(***************************************************************************)
EXTENDS Naturals, Sequences, FiniteSets

CONSTANTS
  Threads,      \* the threads that may run the io_service
  MayRaise,     \* the callback, or the parser before it, may throw
  MaxRuns,      \* bound: calls of run()
  MaxStops,     \* bound: calls of stop()
  MaxPackets    \* bound: packets that arrive

ASSUME AsyncScannerAssumption ==
  /\ IsFiniteSet(Threads) /\ Threads # {}
  /\ MayRaise \in BOOLEAN
  /\ MaxRuns \in Nat /\ MaxStops \in Nat /\ MaxPackets \in Nat

VARIABLES
  own,            \* the scanner has made the io_service and a thread itself
  user,           \* "using" the scanner, "joining" its thread, or "gone"
  thread,         \* each thread is "polling", "handling" or "ended"
  stopped,        \* m_io_service.stop() was called
  pending,        \* the receives pending on the socket
  ready,          \* the handlers ready to run, by their error code
  queue,          \* the packets the socket holds, numbered as they arrive
  arrived,        \* the number of packets so far
  m_recv_buffer,  \* the packet last read from the socket, 0 if none
  delivered,      \* history: the packets handed to the callback
  runs, stops,    \* the calls so far
  lastCall,       \* history: "run", "stop" or "none"
  arrivedAtStop,  \* history: how many packets had arrived at the last stop()
  cancelled,      \* history: the last stop() cancelled a pending receive
  raised          \* history: a callback has thrown

socketVars == <<pending, ready, queue, m_recv_buffer>>
callVars == <<runs, stops, lastCall, arrivedAtStop, cancelled>>
vars == <<own, user, thread, stopped, socketVars, arrived, delivered, callVars, raised>>

TypeOK ==
  /\ own \in BOOLEAN
  /\ user \in {"using", "joining", "gone"}
  /\ thread \in [Threads -> {"polling", "handling", "ended"}]
  /\ stopped \in BOOLEAN
  /\ pending \in 0 .. MaxRuns
  /\ ready \in Seq({"success", "aborted"})
  /\ queue \in Seq(1 .. MaxPackets)
  /\ arrived \in 0 .. MaxPackets
  /\ m_recv_buffer \in 0 .. MaxPackets
  /\ delivered \in Seq(1 .. MaxPackets)
  /\ runs \in 0 .. MaxRuns
  /\ stops \in 0 .. MaxStops
  /\ lastCall \in {"none", "run", "stop"}
  /\ arrivedAtStop \in 0 .. MaxPackets
  /\ cancelled \in BOOLEAN
  /\ raised \in BOOLEAN

\* The constructor has bound the socket.  It has started one thread, or the
\* user has started them all.
Init ==
  /\ own \in BOOLEAN
  /\ user = "using"
  /\ \E first \in Threads :
       thread = [th \in Threads |->
                   IF own /\ th # first THEN "ended" ELSE "polling"]
  /\ stopped = FALSE
  /\ pending = 0
  /\ ready = <<>>
  /\ queue = <<>>
  /\ arrived = 0
  /\ m_recv_buffer = 0
  /\ delivered = <<>>
  /\ runs = 0
  /\ stops = 0
  /\ lastCall = "none"
  /\ arrivedAtStop = 0
  /\ cancelled = FALSE
  /\ raised = FALSE

-----------------------------------------------------------------------------
(* UDPClient. *)

\* An asynchronous receive begins, where handlers are the handlers ready so
\* far.  If no other is pending and a packet is there, it may be read at once.
BeginReceive(handlers) ==
  \/ /\ pending = 0 /\ queue # <<>>
     /\ m_recv_buffer' = Head(queue)
     /\ queue' = Tail(queue)
     /\ ready' = Append(handlers, "success")
     /\ UNCHANGED pending
  \/ /\ pending' = pending + 1
     /\ ready' = handlers
     /\ UNCHANGED <<queue, m_recv_buffer>>

\* A thread that polls finds a packet for the first pending receive.  All
\* receives read into the same buffer.
CompleteReceive ==
  /\ \E th \in Threads : thread[th] = "polling"
  /\ ~ stopped
  /\ pending > 0 /\ queue # <<>>
  /\ m_recv_buffer' = Head(queue)
  /\ queue' = Tail(queue)
  /\ ready' = Append(ready, "success")
  /\ pending' = pending - 1
  /\ UNCHANGED <<own, user, thread, stopped, arrived, delivered, callVars, raised>>

\* A thread runs the next handler, which finds the error code.
MayHandle(th, ec) ==
  /\ thread[th] = "polling"
  /\ ~ stopped
  /\ ready # <<>> /\ Head(ready) = ec

\* Mutant of HandleReceive: the next receive begins before the packet is
\* copied from the buffer.
HandleReceiveRearmed(th) ==
  /\ MayHandle(th, "success")
  /\ BeginReceive(Tail(ready))
  /\ delivered' = Append(delivered, m_recv_buffer')
  /\ thread' = [thread EXCEPT ![th] = "handling"]
  /\ UNCHANGED <<own, user, stopped, arrived, callVars, raised>>

\* handleReceive without an error: the packet is copied from the buffer and
\* handed to the callback, which runs from now on.
HandleReceive(th) ==
  /\ MayHandle(th, "success")
  /\ delivered' = Append(delivered, m_recv_buffer)
  /\ ready' = Tail(ready)
  /\ thread' = [thread EXCEPT ![th] = "handling"]
  /\ UNCHANGED <<own, user, stopped, pending, queue, m_recv_buffer, arrived, callVars, raised>>

\* Mutant of HandleAbort: the error is ignored.
HandleAbortAsReceive(th) ==
  /\ MayHandle(th, "aborted")
  /\ BeginReceive(Tail(ready))
  /\ UNCHANGED <<own, user, thread, stopped, arrived, delivered, callVars, raised>>

\* handleReceive with an error throws, out of the handler and out of
\* io_service::run(): the thread ends.
HandleAbort(th) ==
  /\ MayHandle(th, "aborted")
  /\ ready' = Tail(ready)
  /\ thread' = [thread EXCEPT ![th] = "ended"]
  /\ UNCHANGED <<own, user, stopped, pending, queue, m_recv_buffer, arrived, delivered, callVars, raised>>

\* Mutant of CallbackReturns: no further receive begins.
CallbackReturnsForGood(th) ==
  /\ thread[th] = "handling"
  /\ thread' = [thread EXCEPT ![th] = "polling"]
  /\ UNCHANGED <<own, user, stopped, socketVars, arrived, delivered, callVars, raised>>

CallbackReturns(th) ==
  /\ thread[th] = "handling"
  /\ BeginReceive(ready)
  /\ thread' = [thread EXCEPT ![th] = "polling"]
  /\ UNCHANGED <<own, user, stopped, arrived, delivered, callVars, raised>>

\* The exception leaves the handler before the next receive begins.
CallbackRaises(th) ==
  /\ MayRaise
  /\ thread[th] = "handling"
  /\ thread' = [thread EXCEPT ![th] = "ended"]
  /\ raised' = TRUE
  /\ UNCHANGED <<own, user, stopped, socketVars, arrived, delivered, callVars>>

\* io_service::run() returns because the service was stopped.
ServiceEnds(th) ==
  /\ thread[th] = "polling"
  /\ stopped
  /\ thread' = [thread EXCEPT ![th] = "ended"]
  /\ UNCHANGED <<own, user, stopped, socketVars, arrived, delivered, callVars, raised>>

-----------------------------------------------------------------------------
(* The user. *)

\* run(), which is not called again before stop().
Run ==
  /\ user = "using"
  /\ runs < MaxRuns /\ lastCall # "run"
  /\ runs' = runs + 1
  /\ lastCall' = "run"
  /\ cancelled' = FALSE
  /\ BeginReceive(ready)
  /\ UNCHANGED <<own, user, thread, stopped, arrived, delivered, stops, arrivedAtStop, raised>>

\* m_socket.cancel() and the end of the socket: each receive that is pending
\* completes with operation_aborted.
CancelPending ==
  /\ ready' = ready \o [i \in 1 .. pending |-> "aborted"]
  /\ pending' = 0

\* stop() cancels the receives that are pending.  A handler that is ready or
\* running is none of them.  The callback may call it, too.
Stop ==
  /\ user = "using"
  /\ stops < MaxStops
  /\ stops' = stops + 1
  /\ lastCall' = "stop"
  /\ arrivedAtStop' = arrived
  /\ cancelled' = (pending > 0)
  /\ CancelPending
  /\ UNCHANGED <<own, user, thread, stopped, queue, m_recv_buffer, arrived, delivered, runs, raised>>

\* Mutant of Destroy: only the work object is reset, which lets run() return
\* when nothing is pending any more.
DestroyWithoutStop ==
  /\ user = "using"
  /\ own
  /\ user' = "joining"
  /\ UNCHANGED <<own, thread, stopped, socketVars, arrived, delivered, callVars, raised>>

\* The destructor stops the io_service and joins its thread.  If the threads
\* are the user's there is nothing to join: the user destroys the scanner
\* while no callback runs, and its handlers stay in the stopped service.
Destroy ==
  /\ user = "using"
  /\ stopped' = TRUE
  /\ \/ /\ own
        /\ user' = "joining"
        /\ UNCHANGED <<pending, ready>>
     \/ /\ ~ own
        /\ \A th \in Threads : thread[th] # "handling"
        /\ user' = "gone"
        /\ CancelPending
  /\ UNCHANGED <<own, thread, queue, m_recv_buffer, arrived, delivered, callVars, raised>>

\* Mutant of Join: the thread is detached.
Detach ==
  /\ user = "joining"
  /\ user' = "gone"
  /\ pending' = 0
  /\ ready' = <<>>
  /\ UNCHANGED <<own, thread, stopped, queue, m_recv_buffer, arrived, delivered, callVars, raised>>

\* The thread has ended; the members are destroyed and with them the socket
\* and the handlers.
Join ==
  /\ user = "joining"
  /\ \A th \in Threads : thread[th] = "ended"
  /\ user' = "gone"
  /\ pending' = 0
  /\ ready' = <<>>
  /\ UNCHANGED <<own, thread, stopped, queue, m_recv_buffer, arrived, delivered, callVars, raised>>

Arrive ==
  /\ user # "gone"
  /\ arrived < MaxPackets
  /\ arrived' = arrived + 1
  /\ queue' = Append(queue, arrived + 1)
  /\ UNCHANGED <<own, user, thread, stopped, pending, ready, m_recv_buffer, delivered, callVars, raised>>

Service(th) ==
  \/ HandleReceive(th)
  \/ HandleAbort(th)
  \/ CallbackReturns(th)
  \/ CallbackRaises(th)
  \/ ServiceEnds(th)

Next ==
  \/ Run
  \/ Stop
  \/ Destroy
  \/ Join
  \/ Arrive
  \/ CompleteReceive
  \/ \E th \in Threads : Service(th)

Spec == Init /\ [][Next]_vars

\* The threads keep polling and every callback returns or throws.  A user who
\* has begun to destroy the scanner goes on.
Fairness ==
  /\ WF_vars(CompleteReceive)
  /\ \A th \in Threads : WF_vars(Service(th))
  /\ WF_vars(Join)

FairSpec == Spec /\ Fairness

-----------------------------------------------------------------------------
(* Properties. *)

Handling == {th \in Threads : thread[th] = "handling"}

\* The callback is never run by two threads at once, however many run the
\* io_service: the next receive begins after the callback has returned.
OneCallbackAtATime == Cardinality(Handling) <= 1

\* Every packet read from the socket reaches the callback, once and in the
\* order of arrival: the buffer that all receives share is never overwritten
\* before its packet was copied.
DeliveredInOrder == \A i \in DOMAIN delivered : delivered[i] = i

\* A stop() that finds the receive pending is final: nothing more is handed to
\* the callback until run() is called again.
QuietOnceCancelled == [][cancelled => delivered' = delivered]_vars

\* When the destructor has returned no thread of the scanner runs, and no
\* handler that refers to it will be run.
NothingOutlivesTheScanner ==
  own /\ user = "gone" =>
    /\ \A th \in Threads : thread[th] = "ended"
    /\ pending = 0
    /\ ready = <<>>

\* While the scanner runs, and unless a callback throws, each packet that
\* arrives is handed to the callback.
RunPassesDataOn ==
  \A p \in 1 .. MaxPackets :
    (lastCall = "run" /\ p \in {queue[i] : i \in DOMAIN queue})
      ~> \/ p \in {delivered[i] : i \in DOMAIN delivered}
         \/ lastCall # "run"
         \/ raised
         \/ user # "using"

\* The destructor returns, whatever the thread was doing when it was called.
DestructorReturns == user = "joining" ~> user = "gone"

\* "Stops receiving and processing sensor data": no packet that arrives after
\* stop() has returned is handed to the callback.
StopStops ==
  [][lastCall = "stop" /\ delivered' # delivered
       => delivered'[Len(delivered')] <= arrivedAtStop]_vars
=============================================================================
