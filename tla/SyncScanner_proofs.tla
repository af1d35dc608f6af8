------------------------- MODULE SyncScanner_proofs -------------------------
(***************************************************************************)
(* Proofs about DeadlineSocket and SyncScanner, for every set of timeouts  *)
(* and any number of calls: first of the socket, for both clients; then    *)
(* that the scanner takes no step with it that DeadlineSocket does not     *)
(* allow, so that the same holds of its socket; then of the scanner.       *)
(***************************************************************************)
EXTENDS SyncScanner, SequenceTheorems, TLAPS

-----------------------------------------------------------------------------
(* The inductive invariant. *)

\* The handlers of an operation.
Completions == Handlers \ {"deadline"}

\* The caller is still to run the handler of its operation, which is queued.
Completed == calling /\ ec = "would_block" /\ ~ pending

\* A queue of handlers: the actor is in it, unless it waits on the timer, and so
\* is the handler of the operation once that has completed.  Either may be first,
\* and nothing else is ever in it.
Queue(handlers, waiting, completed) ==
  \/ waiting /\ ~ completed /\ handlers = <<>>
  \/ ~ waiting /\ ~ completed /\ handlers = <<"deadline">>
  \/ waiting /\ completed /\ \E h \in Completions : handlers = <<h>>
  \/ /\ ~ waiting /\ completed
     /\ \E h \in Completions : handlers \in {<<"deadline", h>>, <<h, "deadline">>}

QueueInv == Queue(ready, armed, Completed)

\* An operation is pending only while its caller waits for it, on a socket that
\* is open; and what can be read has arrived.
OperationInv ==
  /\ pending => calling /\ ec = "would_block" /\ socket = "open"
  /\ answers <= arrived

\* The deadline is that of the newest operation, or it has been met.
DeadlineInv ==
  calling => expires \in {Infinity, started.at + started.timeout}

IInv ==
  /\ TypeOK
  /\ QueueInv
  /\ OperationInv
  /\ DeadlineInv

-----------------------------------------------------------------------------
(* Queues of at most two handlers. *)

LEMMA Pair ==
  ASSUME NEW a, NEW b
  PROVE  <<a>> \o <<b>> = <<a, b>>
<1> DEFINE S == {a, b}
           s == <<a>> \o <<b>>
<1>1. <<a>> \in Seq(S) /\ <<b>> \in Seq(S) /\ <<a, b>> \in Seq(S)
  OBVIOUS
<1>2. Len(<<a>>) = 1 /\ Len(<<b>>) = 1 /\ Len(<<a, b>>) = 2
  OBVIOUS
<1>3. s \in Seq(S) /\ Len(s) = 2 /\ s[1] = a /\ s[2] = b
  BY <1>1, <1>2, ConcatProperties
<1>4. \A i \in 1 .. 2 : s[i] = <<a, b>>[i]
  BY <1>3
<1> QED
  BY <1>1, <1>2, <1>3, <1>4, SeqEqual

LEMMA ShortQueues ==
  ASSUME NEW a, NEW b
  PROVE  /\ <<>> \o <<>> = <<>>
         /\ <<>> \o <<a>> = <<a>>
         /\ <<a>> \o <<>> = <<a>>
         /\ <<a>> \o <<b>> = <<a, b>>
         /\ Append(<<>>, a) = <<a>>
         /\ Append(<<a>>, b) = <<a, b>>
         /\ Head(<<a>>) = a /\ Tail(<<a>>) = <<>>
         /\ Head(<<a, b>>) = a /\ Tail(<<a, b>>) = <<b>>
         /\ <<a>> # <<>> /\ <<a, b>> # <<>>
<1>1. <<a>> \in Seq({a, b})
  OBVIOUS
<1>2. Append(<<a>>, b) = <<a, b>>
  BY <1>1, Pair, AppendIsConcat
<1>3. <<>> \o <<>> = <<>> /\ <<>> \o <<a>> = <<a>> /\ <<a>> \o <<>> = <<a>>
  OBVIOUS
<1>4. Append(<<>>, a) = <<a>>
  OBVIOUS
<1>5. Head(<<a>>) = a /\ Tail(<<a>>) = <<>> /\ Head(<<a, b>>) = a
  OBVIOUS
<1>6. Tail(<<a, b>>) = <<b>> 
  OBVIOUS
<1>7. <<a>> # <<>> /\ <<a, b>> # <<>>
  OBVIOUS
<1> QED
  BY <1>2, <1>3, <1>4, <1>5, <1>6, <1>7, Pair

LEMMA ShortSequences ==
  ASSUME NEW S, NEW a \in S, NEW b \in S
  PROVE  <<>> \in Seq(S) /\ <<a>> \in Seq(S) /\ <<a, b>> \in Seq(S)
OBVIOUS

LEMMA QueueType ==
  ASSUME NEW q, NEW w, NEW c, Queue(q, w, c)
  PROVE  q \in Seq(Handlers)
<1>1. "deadline" \in Handlers /\ Completions \subseteq Handlers
  BY DEF Handlers, Completions
<1>2. <<>> \in Seq(Handlers) /\ <<"deadline">> \in Seq(Handlers)
  BY <1>1, ShortSequences
<1>3. \A h \in Completions :
        {<<h>>, <<"deadline", h>>, <<h, "deadline">>} \subseteq Seq(Handlers)
  <2> TAKE h \in Completions
  <2>1. h \in Handlers
    BY <1>1
  <2>2. <<h>> \in Seq(Handlers) /\ <<"deadline", h>> \in Seq(Handlers)
    BY <1>1, <2>1, ShortSequences
  <2>3. <<h, "deadline">> \in Seq(Handlers)
    BY <1>1, <2>1, ShortSequences
  <2> QED
    BY <2>2, <2>3
<1> QED
  BY <1>2, <1>3, Zenon DEF Queue

\* The first handler of a queue, and what it leaves behind.
LEMMA QueueHead ==
  ASSUME NEW q, NEW w \in BOOLEAN, NEW c \in BOOLEAN, Queue(q, w, c), q # <<>>
  PROVE  \/ /\ Head(q) = "deadline" /\ ~ w
            /\ Queue(Tail(q), TRUE, c)
         \/ /\ Head(q) \in Completions /\ c
            /\ Queue(Tail(q), w, FALSE)
<1>1. CASE ~ w /\ ~ c /\ q = <<"deadline">>
  BY <1>1, ShortQueues DEF Queue
<1>2. CASE w /\ c /\ \E h \in Completions : q = <<h>>
  BY <1>2, ShortQueues DEF Queue
<1>3. CASE ~ w /\ c /\ \E h \in Completions : q = <<"deadline", h>>
  BY <1>3, ShortQueues DEF Queue
<1>4. CASE ~ w /\ c /\ \E h \in Completions : q = <<h, "deadline">>
  BY <1>4, ShortQueues DEF Queue
<1> QED
  BY <1>1, <1>2, <1>3, <1>4 DEF Queue

\* The actor, and the handler of an operation, join a queue that they are not in.
LEMMA ActorJoins ==
  ASSUME NEW q, NEW c \in BOOLEAN, Queue(q, TRUE, c)
  PROVE  Queue(q \o <<"deadline">>, FALSE, c) /\ Append(q, "deadline") = q \o <<"deadline">>
<1>1. CASE ~ c /\ q = <<>>
  BY <1>1, ShortQueues DEF Queue
<1>2. CASE c /\ \E h \in Completions : q = <<h>>
  <2>1. PICK h \in Completions : q = <<h>>
    BY <1>2
  <2>2. q \o <<"deadline">> = <<h, "deadline">> /\ Append(q, "deadline") = <<h, "deadline">>
    BY <2>1, ShortQueues
  <2> QED
    BY <1>2, <2>2 DEF Queue
<1> QED
  BY <1>1, <1>2 DEF Queue

LEMMA CompletionJoins ==
  ASSUME NEW q, NEW w \in BOOLEAN, Queue(q, w, FALSE), NEW h \in Completions
  PROVE  Queue(q \o <<h>>, w, TRUE) /\ Append(q, h) = q \o <<h>>
<1>1. CASE w /\ q = <<>>
  BY <1>1, ShortQueues DEF Queue
<1>2. CASE ~ w /\ q = <<"deadline">>
  <2>1. q \o <<h>> = <<"deadline", h>> /\ Append(q, h) = <<"deadline", h>>
    BY <1>2, ShortQueues
  <2> QED
    BY <1>2, <2>1 DEF Queue
<1> QED
  BY <1>1, <1>2 DEF Queue

-----------------------------------------------------------------------------
(* The initial state. *)

LEMMA InitIInv == Init => IInv
<1> SUFFICES ASSUME Init PROVE IInv
  OBVIOUS
<1>1. TypeOK
  <2>1. 0 \in 0 .. MaxTime /\ 0 \in 0 .. MaxAnswers /\ Infinity \in 0 .. Infinity
    BY DeadlineSocketAssumption DEF Infinity
  <2>2. ready \in Seq(Handlers)
    BY DEF Init
  <2>3. started \in [at : Nat, timeout : Timeouts \cup {0}]
    BY DEF Init
  <2> QED
    BY <2>1, <2>2, <2>3 DEF Init, TypeOK
<1>2. QueueInv /\ OperationInv /\ DeadlineInv
  BY DEF Init, QueueInv, Queue, Completed, OperationInv, DeadlineInv
<1> QED
  BY <1>1, <1>2 DEF IInv

-----------------------------------------------------------------------------
(* The steps. *)

LEMMA BeginStep ==
  ASSUME IInv, NEW timeout \in Timeouts, now + timeout <= MaxTime,
         NEW state \in {"open", "closed"}, NEW there \in 0 .. arrived,
         Begin(timeout, state, there)
  PROVE  IInv'
<1> USE DeadlineSocketAssumption
<1>1. armed \in BOOLEAN /\ ~ Completed /\ ~ calling /\ ~ pending
  BY DEF IInv, TypeOK, Begin, Completed, OperationInv
<1>2. Queue(ready \o CancelWait, FALSE, FALSE)
  BY <1>1, ShortQueues DEF IInv, QueueInv, Queue, CancelWait
<1>3. armed' = FALSE /\ calling' = TRUE /\ ec' = "would_block"
  BY DEF Begin
<1>4. QueueInv'
  <2> "error" \in Completions /\ "success" \in Completions
    BY DEF Completions, Handlers
  <2>1. CASE state = "closed"
    BY <1>2, <1>3, <2>1, CompletionJoins DEF Begin, QueueInv, Completed
  <2>2. CASE state = "open" /\ there > 0
    BY <1>2, <1>3, <2>2, CompletionJoins DEF Begin, QueueInv, Completed
  <2>3. CASE state = "open" /\ there = 0
    <3>1. ready' = ready \o CancelWait /\ Completed' = FALSE
      BY <2>3 DEF Begin, Completed
    <3> QED
      BY <1>2, <1>3, <3>1 DEF QueueInv
  <2> QED
    BY <2>1, <2>2, <2>3 DEF Begin
<1>5. arrived \in 0 .. MaxAnswers /\ answers \in 0 .. arrived
  BY DEF IInv, TypeOK, OperationInv
<1>6. answers' \in 0 .. arrived' /\ arrived' = arrived
  BY <1>5 DEF Begin
<1>7. TypeOK'
  <2>1. ready' \in Seq(Handlers)
    BY <1>4, QueueType DEF QueueInv
  <2>2. expires' \in 0 .. Infinity
    BY DEF Begin, IInv, TypeOK, Infinity
  <2>3. started' \in [at : Nat, timeout : Timeouts \cup {0}]
    BY DEF Begin, IInv, TypeOK
  <2>4. pending' \in BOOLEAN /\ socket' \in {"open", "closed"} /\ now' \in 0 .. MaxTime
    BY DEF Begin, IInv, TypeOK
  <2>5. answers' \in 0 .. MaxAnswers /\ arrived' \in 0 .. MaxAnswers
    BY <1>5, <1>6
  <2> QED
    BY <1>3, <2>1, <2>2, <2>3, <2>4, <2>5 DEF TypeOK, Begin
<1>8. OperationInv'
  BY <1>6 DEF Begin, OperationInv
<1>9. DeadlineInv'
  BY DEF Begin, DeadlineInv
<1> QED
  BY <1>4, <1>7, <1>8, <1>9 DEF IInv

\* The actor runs: it is out of the queue, and waits again.
LEMMA RunDeadlineStep ==
  ASSUME IInv, RunDeadline
  PROVE  IInv'
<1> USE DeadlineSocketAssumption
<1> DEFINE expired == expires <= now
<1>1. armed \in BOOLEAN /\ Completed \in BOOLEAN /\ pending \in BOOLEAN
  BY DEF IInv, TypeOK, Completed
<1>2. Queue(Tail(ready), TRUE, Completed)
  <2>1. Queue(ready, armed, Completed) /\ ready # <<>> /\ Head(ready) = "deadline"
    BY DEF IInv, QueueInv, RunDeadline
  <2>2. Head(ready) \notin Completions
    BY <2>1 DEF Completions
  <2> QED
    BY <1>1, <2>1, <2>2, QueueHead
<1>3. calling' = calling /\ ec' = ec /\ calling /\ ec = "would_block" /\ armed' = TRUE
  BY DEF RunDeadline, CheckDeadline
<1>4. expires > now <=> ~ expired
  BY DEF IInv, TypeOK, Infinity
<1>5. QueueInv'
  <2>1. CASE expired /\ pending
    <3>1. ready' = Tail(ready) \o <<"aborted">> /\ ~ pending'
      BY <2>1, <1>4 DEF RunDeadline, CheckDeadline
    <3>2. Completed = FALSE /\ Completed' = TRUE
      BY <1>3, <2>1, <3>1 DEF Completed
    <3> QED
      BY <1>2, <1>3, <3>1, <3>2, CompletionJoins DEF QueueInv, Completions, Handlers
  <2>2. CASE expired /\ ~ pending
    <3>1. ready' = Tail(ready) \o <<>> /\ ~ pending'
      BY <2>2, <1>4 DEF RunDeadline, CheckDeadline
    <3>2. Completed' = Completed
      BY <1>3, <2>2, <3>1 DEF Completed
    <3>3. Tail(ready) \o <<>> = Tail(ready)
      BY <1>2, QueueType, ConcatEmptySeq
    <3> QED
      BY <1>2, <1>3, <3>1, <3>2, <3>3 DEF QueueInv
  <2>3. CASE ~ expired
    <3>1. ready' = Tail(ready) /\ Completed' = Completed
      BY <1>3, <2>3 DEF RunDeadline, CheckDeadline, IInv, TypeOK, Completed
    <3> QED
      BY <1>2, <1>3, <3>1 DEF QueueInv
  <2> QED
    BY <1>1, <2>1, <2>2, <2>3
<1>6. TypeOK'
  <2>1. ready' \in Seq(Handlers)
    BY <1>5, QueueType DEF QueueInv
  <2>2. Infinity \in 0 .. Infinity /\ 0 \in 0 .. MaxAnswers
    BY DEF Infinity
  <2> QED
    BY <2>1, <2>2 DEF RunDeadline, CheckDeadline, IInv, TypeOK
<1>7. OperationInv'
  BY DEF RunDeadline, CheckDeadline, IInv, TypeOK, OperationInv
<1>8. DeadlineInv'
  BY DEF RunDeadline, CheckDeadline, IInv, DeadlineInv
<1> QED
  BY <1>5, <1>6, <1>7, <1>8 DEF IInv

\* The handler of the operation runs: nothing of the operation is left behind.
LEMMA RunHandlerStep ==
  ASSUME IInv, RunHandler
  PROVE  IInv'
<1>1. armed \in BOOLEAN /\ Completed \in BOOLEAN
  BY DEF IInv, TypeOK, Completed
<1>2. /\ Queue(Tail(ready), armed, FALSE)
      /\ Head(ready) \in Completions
      /\ Completed
  BY <1>1, QueueHead DEF IInv, QueueInv, RunHandler
<1>3. ec' \in {"success", "aborted", "error"} /\ Completed' = FALSE
  BY <1>2 DEF RunHandler, Completions, Handlers, Completed
<1>4. QueueInv'
  BY <1>2, <1>3 DEF RunHandler, QueueInv
<1>5. TypeOK'
  <2>1. ready' \in Seq(Handlers)
    BY <1>4, QueueType DEF QueueInv
  <2> QED
    BY <1>3, <2>1 DEF RunHandler, IInv, TypeOK
<1>6. OperationInv'
  BY <1>2 DEF RunHandler, IInv, OperationInv, Completed
<1>7. DeadlineInv'
  BY DEF RunHandler, IInv, DeadlineInv
<1> QED
  BY <1>4, <1>5, <1>6, <1>7 DEF IInv

LEMMA WaitExpiresStep ==
  ASSUME IInv, WaitExpires
  PROVE  IInv'
<1>1. armed = TRUE /\ Completed \in BOOLEAN
  BY DEF IInv, TypeOK, WaitExpires, Completed
<1>2. Queue(ready', FALSE, Completed)
  BY <1>1, ActorJoins DEF IInv, QueueInv, WaitExpires
<1>3. QueueInv'
  BY <1>2 DEF WaitExpires, QueueInv, Completed
<1>4. TypeOK'
  <2>1. ready' \in Seq(Handlers)
    BY <1>2, QueueType
  <2> QED
    BY <2>1 DEF WaitExpires, IInv, TypeOK
<1>5. OperationInv' /\ DeadlineInv'
  BY DEF WaitExpires, IInv, OperationInv, DeadlineInv
<1> QED
  BY <1>3, <1>4, <1>5 DEF IInv

LEMMA OperationCompletesStep ==
  ASSUME IInv, OperationCompletes
  PROVE  IInv'
<1>1. /\ armed \in BOOLEAN /\ Completed = FALSE /\ Completed' = TRUE
      /\ calling /\ ec = "would_block"
  BY DEF IInv, TypeOK, OperationInv, OperationCompletes, Completed
<1>2. Queue(ready', armed, TRUE)
  BY <1>1, CompletionJoins DEF IInv, QueueInv, OperationCompletes, Completions, Handlers
<1>3. QueueInv'
  BY <1>1, <1>2 DEF OperationCompletes, QueueInv
<1>4. TypeOK'
  <2>1. ready' \in Seq(Handlers)
    BY <1>2, QueueType
  <2>2. answers' \in 0 .. MaxAnswers
    BY DeadlineSocketAssumption DEF OperationCompletes, IInv, TypeOK
  <2> QED
    BY <2>1, <2>2 DEF OperationCompletes, IInv, TypeOK
<1>5. OperationInv'
  BY DEF OperationCompletes, IInv, TypeOK, OperationInv
<1>6. DeadlineInv'
  BY DEF OperationCompletes, IInv, DeadlineInv
<1> QED
  BY <1>3, <1>4, <1>5, <1>6 DEF IInv

\* The steps that leave the queue alone.
LEMMA QuietSteps ==
  ASSUME IInv, Disconnect \/ Return \/ Arrive \/ Tick \/ UNCHANGED vars
  PROVE  IInv'
<1> USE DeadlineSocketAssumption
<1>1. CASE Disconnect
  <2>1. QueueInv'
    BY <1>1 DEF Disconnect, IInv, QueueInv, Completed
  <2>2. TypeOK'
    BY <1>1 DEF Disconnect, IInv, TypeOK
  <2>3. OperationInv' /\ DeadlineInv'
    BY <1>1 DEF Disconnect, IInv, TypeOK, OperationInv, DeadlineInv
  <2> QED
    BY <2>1, <2>2, <2>3 DEF IInv
<1>2. CASE Return
  <2>1. QueueInv'
    <3>1. Completed = FALSE /\ Completed' = FALSE
      BY <1>2 DEF Return, Completed
    <3> QED
      BY <1>2, <3>1 DEF Return, IInv, QueueInv
  <2>2. TypeOK'
    BY <1>2 DEF Return, IInv, TypeOK
  <2>3. OperationInv' /\ DeadlineInv'
    BY <1>2 DEF Return, IInv, OperationInv, DeadlineInv
  <2> QED
    BY <2>1, <2>2, <2>3 DEF IInv
<1>3. CASE Arrive
  <2>1. QueueInv'
    BY <1>3 DEF Arrive, IInv, QueueInv, Completed
  <2>2. arrived' \in 0 .. MaxAnswers /\ answers' \in 0 .. arrived'
    BY <1>3 DEF Arrive, IInv, TypeOK, OperationInv
  <2>3. TypeOK'
    BY <1>3, <2>2 DEF Arrive, IInv, TypeOK
  <2>4. OperationInv' /\ DeadlineInv'
    BY <1>3, <2>2 DEF Arrive, IInv, OperationInv, DeadlineInv
  <2> QED
    BY <2>1, <2>3, <2>4 DEF IInv
<1>4. CASE Tick
  <2>1. QueueInv'
    BY <1>4 DEF Tick, IInv, QueueInv, Completed
  <2>2. TypeOK'
    BY <1>4 DEF Tick, IInv, TypeOK
  <2>3. OperationInv' /\ DeadlineInv'
    BY <1>4 DEF Tick, IInv, OperationInv, DeadlineInv
  <2> QED
    BY <2>1, <2>2, <2>3 DEF IInv
<1>5. CASE UNCHANGED vars
  BY <1>5 DEF vars, IInv, TypeOK, QueueInv, Completed, OperationInv, DeadlineInv
<1> QED
  BY <1>1, <1>2, <1>3, <1>4, <1>5

LEMMA IInvStep == IInv /\ [Next]_vars => IInv'
<1> SUFFICES ASSUME IInv, [Next]_vars PROVE IInv'
  OBVIOUS
<1>1. ASSUME NEW timeout \in Timeouts, Start(timeout)
      PROVE  IInv'
  <2>1. answers \in 0 .. arrived /\ 0 \in 0 .. arrived /\ socket \in {"open", "closed"}
    BY DeadlineSocketAssumption DEF IInv, TypeOK, OperationInv
  <2>2. CASE Receive(timeout)
    BY <1>1, <2>1, <2>2, BeginStep DEF Start, Receive
  <2>3. CASE Connect(timeout)
    BY <1>1, <2>1, <2>3, BeginStep DEF Start, Connect
  <2> QED
    BY <1>1, <2>2, <2>3 DEF Start
<1> QED
  BY <1>1, RunDeadlineStep, RunHandlerStep, WaitExpiresStep, OperationCompletesStep,
     QuietSteps DEF Next

-----------------------------------------------------------------------------
(* The theorems. *)

\* The inductive invariant, of which the next theorems are consequences.
THEOREM SocketInvariant == Spec => []IInv
<1> QED
  BY InitIInv, IInvStep, PTL DEF Spec

\* Type correctness: the counters stay in their bounds, and the queue holds
\* handlers only.
THEOREM TypeCorrect == Spec => []TypeOK
<1>1. IInv => TypeOK
  BY DEF IInv
<1> QED
  BY <1>1, SocketInvariant, PTL

\* checkDeadline never dies and never doubles, whatever moves the deadline: it
\* waits on the timer or is in the queue, once.
THEOREM OneActorAlways == Spec => []OneDeadlineActor
<1>1. IInv => OneDeadlineActor
  <2> SUFFICES ASSUME IInv PROVE OneDeadlineActor
    OBVIOUS
  <2>1. \A h \in Completions : h # "deadline"
    BY DEF Completions
  <2>2. CASE armed /\ (ready = <<>> \/ \E h \in Completions : ready = <<h>>)
    BY <2>1, <2>2 DEF OneDeadlineActor, Queued
  <2>3. CASE ~ armed /\ ready = <<"deadline">>
    <3>1. Queued("deadline") = {1} /\ 1 \in DOMAIN ready
      BY <2>3 DEF Queued
    <3> QED
      BY <2>3, <3>1 DEF OneDeadlineActor
  <2>4. CASE ~ armed /\ \E h \in Completions : ready = <<"deadline", h>>
    <3>1. Queued("deadline") = {1} /\ 1 \in DOMAIN ready
      BY <2>1, <2>4 DEF Queued
    <3> QED
      BY <2>4, <3>1 DEF OneDeadlineActor
  <2>5. CASE ~ armed /\ \E h \in Completions : ready = <<h, "deadline">>
    <3>1. Queued("deadline") = {2} /\ 2 \in DOMAIN ready
      BY <2>1, <2>5 DEF Queued
    <3> QED
      BY <2>5, <3>1 DEF OneDeadlineActor
  <2> QED
    BY <2>2, <2>3, <2>4, <2>5 DEF IInv, QueueInv, Queue
<1> QED
  BY <1>1, SocketInvariant, PTL

\* The handler of an operation, which writes to variables of the function that
\* began it, never outlives the call.
THEOREM HandlersNeverDangle == Spec => []NoDanglingHandler
<1>1. IInv => NoDanglingHandler
  <2> SUFFICES ASSUME IInv, ~ calling
               PROVE  ~ pending /\ \A i \in DOMAIN ready : ready[i] = "deadline"
    BY DEF NoDanglingHandler
  <2>1. ~ pending /\ ~ Completed
    BY DEF IInv, OperationInv, Completed
  <2>2. ready = <<>> \/ ready = <<"deadline">>
    BY <2>1 DEF IInv, QueueInv, Queue
  <2> QED
    BY <2>1, <2>2
<1> QED
  BY <1>1, SocketInvariant, PTL

\* A blocking call is never cut short: the actor closes the socket under it only
\* when the call's own timeout has passed.
THEOREM NeverClosedTooEarly == Spec => NoPrematureClose
<1>1. IInv /\ [Next]_vars =>
        [calling /\ socket = "open" /\ socket' = "closed"
           => now >= started.at + started.timeout]_vars
  <2> SUFFICES ASSUME IInv, Next, calling, socket = "open", socket' = "closed"
               PROVE  now >= started.at + started.timeout
    BY DEF vars
  <2>1. RunDeadline /\ expires <= now
    BY DEF Next, Start, Receive, Connect, Begin, Disconnect, RunDeadline, CheckDeadline,
           RunHandler, Return, WaitExpires, OperationCompletes, Arrive, Tick
  <2>2. now \in 0 .. MaxTime /\ expires # Infinity
    BY <2>1, DeadlineSocketAssumption DEF IInv, TypeOK, Infinity
  <2> QED
    BY <2>1, <2>2 DEF IInv, DeadlineInv, TypeOK
<1> QED
  BY <1>1, SocketInvariant, PTL DEF Spec, NoPrematureClose


-----------------------------------------------------------------------------
(* The scanner uses the socket as DeadlineSocket allows. *)

\* The timeout of a call is the user's.
EnteredInv == receiving => entered.timeout \in Timeouts

LEMMA EnteredStep == EnteredInv /\ [SyncNext]_syncVars => EnteredInv'
<1> SUFFICES ASSUME EnteredInv, [SyncNext]_syncVars PROVE EnteredInv'
  OBVIOUS
<1>1. ASSUME NEW timeout \in Timeouts, ReceiveData(timeout) PROVE EnteredInv'
  BY <1>1 DEF ReceiveData, EnteredInv
<1>2. ASSUME AddDatagram \/ Throw PROVE EnteredInv'
  BY <1>2 DEF AddDatagram, Throw, EnteredInv
<1>3. ASSUME ReceiveNext \/ SocketStep \/ UNCHANGED syncVars PROVE EnteredInv'
  BY <1>3 DEF ReceiveNext, SocketStep, syncVars, scannerVars, EnteredInv
<1> QED
  BY <1>1, <1>2, <1>3 DEF SyncNext

\* Every step of the scanner is one of its socket, or leaves that alone.
LEMMA SocketOfScanner == EnteredInv /\ [SyncNext]_syncVars => [Next]_vars
<1> SUFFICES ASSUME EnteredInv, [SyncNext]_syncVars PROVE [Next]_vars
  OBVIOUS
<1>1. ASSUME NEW timeout \in Timeouts, ReceiveData(timeout) PROVE Next
  BY <1>1 DEF ReceiveData, Next, Start
<1>2. ASSUME ReceiveNext PROVE Next
  BY <1>2 DEF ReceiveNext, EnteredInv, Next, Start
<1>3. ASSUME AddDatagram \/ Throw PROVE Next
  BY <1>3 DEF AddDatagram, Throw, Next
<1>4. ASSUME SocketStep PROVE Next
  BY <1>4 DEF SocketStep, Next
<1>5. ASSUME UNCHANGED syncVars PROVE UNCHANGED vars
  BY <1>5 DEF syncVars
<1> QED
  BY <1>1, <1>2, <1>3, <1>4, <1>5 DEF SyncNext

\* SyncSickSafetyScanner::receive only calls UDPClient::receive as any caller
\* may: a run of the scanner is a run of its socket.
THEOREM ScannerImplementsSocket == SyncSpec => Spec
<1>1. SyncInit => Init /\ EnteredInv
  BY DEF SyncInit, EnteredInv
<1> QED
  BY <1>1, EnteredStep, SocketOfScanner, PTL DEF SyncSpec, Spec

LEMMA SocketInvariantOfScanner == SyncSpec => []IInv /\ []EnteredInv
<1>1. SyncInit => EnteredInv
  BY DEF SyncInit, EnteredInv
<1> QED
  BY <1>1, EnteredStep, ScannerImplementsSocket, SocketInvariant, PTL DEF SyncSpec

-----------------------------------------------------------------------------
(* The outcome of an operation. *)

\* The operation has ended with h, and its call has not returned yet.
Outcome(h) == Queued(h) # {} \/ (calling /\ ec = h)

Occurs(h, q) == \E i \in DOMAIN q : q[i] = h

LEMMA OccursAppended ==
  ASSUME NEW S, NEW q \in Seq(S), NEW g \in S, NEW h
  PROVE  /\ Occurs(h, q \o <<g>>) <=> Occurs(h, q) \/ h = g
         /\ Append(q, g) = q \o <<g>>
<1>1. Append(q, g) = q \o <<g>>
  BY AppendIsConcat
<1>2. /\ Append(q, g) \in Seq(S) /\ Len(Append(q, g)) = Len(q) + 1
      /\ \A i \in 1 .. Len(q) : Append(q, g)[i] = q[i]
      /\ Append(q, g)[Len(q) + 1] = g
  BY AppendProperties
<1>3. DOMAIN q = 1 .. Len(q) /\ Len(q) \in Nat /\ DOMAIN Append(q, g) = 1 .. Len(q) + 1
  BY <1>2, LenProperties
<1>4. Occurs(h, Append(q, g)) <=> Occurs(h, q) \/ h = g
  BY <1>2, <1>3 DEF Occurs
<1> QED
  BY <1>1, <1>4

LEMMA OccursHead ==
  ASSUME NEW S, NEW q \in Seq(S), q # <<>>, NEW h
  PROVE  Occurs(h, q) <=> h = Head(q) \/ Occurs(h, Tail(q))
<1>1. /\ Tail(q) \in Seq(S) /\ Len(q) \in Nat \ {0} /\ Len(Tail(q)) = Len(q) - 1
      /\ \A i \in 1 .. Len(q) - 1 : Tail(q)[i] = q[i + 1]
      /\ Head(q) = q[1]
  BY HeadTailProperties, EmptySeq
<1>2. DOMAIN q = 1 .. Len(q) /\ DOMAIN Tail(q) = 1 .. Len(q) - 1
  BY <1>1, LenProperties
<1>3. ASSUME Occurs(h, q) PROVE h = Head(q) \/ Occurs(h, Tail(q))
  <2>1. PICK i \in 1 .. Len(q) : q[i] = h
    BY <1>2, <1>3 DEF Occurs
  <2>2. i = 1 \/ (i - 1 \in 1 .. Len(q) - 1 /\ Tail(q)[i - 1] = q[i])
    BY <1>1
  <2> QED
    BY <1>1, <1>2, <2>1, <2>2 DEF Occurs
<1>4. ASSUME Occurs(h, Tail(q)) PROVE Occurs(h, q)
  <2>1. PICK i \in 1 .. Len(q) - 1 : Tail(q)[i] = h
    BY <1>2, <1>4 DEF Occurs
  <2>2. i + 1 \in 1 .. Len(q) /\ q[i + 1] = h
    BY <1>1, <2>1
  <2> QED
    BY <1>2, <2>2 DEF Occurs
<1>5. 1 \in DOMAIN q
  BY <1>1, <1>2
<1> QED
  BY <1>1, <1>3, <1>4, <1>5 DEF Occurs

\* Of a queue without the handler of an operation.
LEMMA NoneOccurs ==
  ASSUME NEW q, NEW w, Queue(q, w, FALSE), NEW h \in Completions
  PROVE  ~ Occurs(h, q)
<1>1. q = <<>> \/ q = <<"deadline">>
  BY DEF Queue
<1>2. h # "deadline"
  BY DEF Completions
<1> QED
  BY <1>1, <1>2 DEF Occurs

LEMMA OutcomeOccurs ==
  ASSUME NEW h
  PROVE  /\ Outcome(h) <=> Occurs(h, ready) \/ (calling /\ ec = h)
         /\ Outcome(h)' <=> Occurs(h, ready') \/ (calling' /\ ec' = h)
<1>1. Outcome(h) <=> Occurs(h, ready) \/ (calling /\ ec = h)
  BY DEF Outcome, Queued, Occurs
<1>2. Outcome(h)' <=> Occurs(h, ready') \/ (calling' /\ ec' = h)
  BY DEF Outcome, Queued, Occurs
<1> QED
  BY <1>1, <1>2

\* What the steps do to the outcome.
LEMMA ReceiveOutcome ==
  ASSUME IInv, NEW timeout, Receive(timeout), NEW h \in Completions
  PROVE  /\ ~ Outcome(h)
         /\ Outcome(h)' <=> \/ h = "error" /\ socket = "closed"
                            \/ h = "success" /\ socket = "open" /\ answers > 0
<1>1. ~ calling /\ calling' = TRUE /\ ec' = "would_block" /\ armed \in BOOLEAN
  BY DEF Receive, Begin, IInv, TypeOK
<1>2. Queue(ready, armed, FALSE)
  BY <1>1 DEF IInv, QueueInv, Completed
<1>3. Queue(ready \o CancelWait, FALSE, FALSE)
  BY <1>1, <1>2, ShortQueues DEF Queue, CancelWait
<1>4. ~ Outcome(h)
  BY <1>1, <1>2, NoneOccurs, OutcomeOccurs
<1>5. ready \o CancelWait \in Seq(Handlers) /\ ~ Occurs(h, ready \o CancelWait)
  BY <1>3, QueueType, NoneOccurs
<1>6. Outcome(h)' <=> Occurs(h, ready')
  <2>1. h # "would_block"
    BY DEF Completions, Handlers
  <2> QED
    BY <1>1, <2>1, OutcomeOccurs
<1>7. socket \in {"open", "closed"} /\ answers \in Nat
  BY DeadlineSocketAssumption DEF IInv, TypeOK
<1>8. "error" \in Handlers /\ "success" \in Handlers
  BY DEF Handlers
<1>9. CASE socket = "closed"
  <2>1. ready' = ready \o CancelWait \o <<"error">>
    BY <1>9 DEF Receive, Begin
  <2>2. Occurs(h, ready') <=> h = "error"
    BY <1>5, <1>8, <2>1, OccursAppended
  <2> QED
    BY <1>4, <1>6, <1>9, <2>2
<1>10. CASE socket = "open" /\ answers > 0
  <2>1. ready' = ready \o CancelWait \o <<"success">>
    BY <1>10 DEF Receive, Begin
  <2>2. Occurs(h, ready') <=> h = "success"
    BY <1>5, <1>8, <2>1, OccursAppended
  <2> QED
    BY <1>4, <1>6, <1>10, <2>2
<1>11. CASE socket = "open" /\ answers = 0
  <2>1. ready' = ready \o CancelWait
    BY <1>11 DEF Receive, Begin
  <2> QED
    BY <1>4, <1>5, <1>6, <1>11, <2>1
<1> QED
  BY <1>7, <1>9, <1>10, <1>11

LEMMA ReturnOutcome ==
  ASSUME IInv, Return, NEW h \in Completions
  PROVE  (Outcome(h) <=> ec = h) /\ ~ Outcome(h)'
<1>1. calling /\ ~ calling' /\ ready' = ready /\ Completed = FALSE
  BY DEF Return, Completed
<1>2. ~ Occurs(h, ready)
  BY <1>1, NoneOccurs DEF IInv, QueueInv
<1> QED
  BY <1>1, <1>2, OutcomeOccurs

LEMMA RunDeadlineOutcome ==
  ASSUME IInv, RunDeadline, NEW h \in Completions
  PROVE  Outcome(h)' <=> Outcome(h) \/ (h = "aborted" /\ expires <= now /\ pending)
<1>1. ready \in Seq(Handlers) /\ ready # <<>> /\ Head(ready) = "deadline"
  BY DEF IInv, TypeOK, RunDeadline
<1>2. /\ expires \in Int /\ now \in Int /\ pending \in BOOLEAN
      /\ "aborted" \in Handlers /\ h # "deadline" /\ Tail(ready) \in Seq(Handlers)
  BY <1>1, DeadlineSocketAssumption DEF IInv, TypeOK, Infinity, Handlers, Completions
<1>3. Occurs(h, ready) <=> Occurs(h, Tail(ready))
  BY <1>1, <1>2, OccursHead
<1>4. calling' = calling /\ ec' = ec
  BY DEF RunDeadline
<1>5. Occurs(h, ready') <=> Occurs(h, ready) \/ (h = "aborted" /\ expires <= now /\ pending)
  <2>1. CASE expires <= now /\ pending
    <3>1. ~ expires > now
      BY <1>2, <2>1
    <3>2. ready' = Tail(ready) \o <<"aborted">>
      BY <2>1, <3>1 DEF RunDeadline, CheckDeadline
    <3>3. Occurs(h, ready') <=> Occurs(h, Tail(ready)) \/ h = "aborted"
      BY <1>2, <3>2, OccursAppended
    <3> QED
      BY <1>3, <2>1, <3>3
  <2>2. CASE expires <= now /\ ~ pending
    <3>1. ready' = Tail(ready) \o <<>>
      BY <1>2, <2>2 DEF RunDeadline, CheckDeadline
    <3>2. ready' = Tail(ready)
      BY <1>2, <3>1, ConcatEmptySeq
    <3> QED
      BY <1>3, <2>2, <3>2
  <2>3. CASE expires > now
    <3>1. ready' = Tail(ready)
      BY <1>2, <2>3 DEF RunDeadline, CheckDeadline
    <3> QED
      BY <1>2, <1>3, <2>3, <3>1
  <2> QED
    BY <1>2, <2>1, <2>2, <2>3
<1> QED
  BY <1>4, <1>5, OutcomeOccurs

LEMMA OperationCompletesOutcome ==
  ASSUME IInv, OperationCompletes, NEW h \in Completions
  PROVE  ~ Outcome(h) /\ (Outcome(h)' <=> h = "success")
<1>1. /\ Completed = FALSE /\ ec = "would_block" /\ h # "would_block"
      /\ ec' = ec /\ "success" \in Handlers /\ ready \in Seq(Handlers)
  BY DEF OperationCompletes, IInv, TypeOK, OperationInv, Completed, Completions, Handlers
<1>2. ~ Occurs(h, ready)
  BY <1>1, NoneOccurs DEF IInv, QueueInv
<1>3. ready' = ready \o <<"success">>
  BY <1>1, OccursAppended DEF OperationCompletes
<1>4. Occurs(h, ready') <=> h = "success"
  BY <1>1, <1>2, <1>3, OccursAppended
<1> QED
  BY <1>1, <1>2, <1>4, OutcomeOccurs

\* The other steps of the socket.
LEMMA SameOutcome ==
  ASSUME IInv, RunHandler \/ WaitExpires \/ Arrive \/ Tick, NEW h \in Completions
  PROVE  Outcome(h)' <=> Outcome(h)
<1>1. ready \in Seq(Handlers) /\ "deadline" \in Handlers
  BY DEF IInv, TypeOK, Handlers
<1>2. h # "would_block" /\ h # "deadline"
  BY DEF Completions, Handlers
<1>3. CASE RunHandler
  <2>1. /\ calling /\ ec = "would_block" /\ ready # <<>> /\ calling' = calling
        /\ ec' = Head(ready) /\ ready' = Tail(ready)
    BY <1>3 DEF RunHandler
  <2>2. Occurs(h, ready) <=> h = Head(ready) \/ Occurs(h, Tail(ready))
    BY <1>1, <2>1, OccursHead
  <2> QED
    BY <1>2, <2>1, <2>2, OutcomeOccurs
<1>4. CASE WaitExpires
  <2>1. ready' = ready \o <<"deadline">> /\ calling' = calling /\ ec' = ec
    BY <1>1, <1>4, OccursAppended DEF WaitExpires
  <2>2. Occurs(h, ready \o <<"deadline">>) <=> Occurs(h, ready)
    BY <1>1, <1>2, OccursAppended
  <2> QED
    BY <2>1, <2>2, OutcomeOccurs
<1>5. CASE Arrive \/ Tick
  BY <1>5, OutcomeOccurs DEF Arrive, Tick
<1> QED
  BY <1>3, <1>4, <1>5

-----------------------------------------------------------------------------
(* The inductive invariant. *)

\* An operation runs on behalf of a call, with its timeout, and began no
\* earlier than the call, which began in the past.
CallInv ==
  /\ entered.at <= now
  /\ calling => /\ receiving
                /\ started.timeout = entered.timeout
                /\ started.at >= entered.at

\* An operation is aborted by its deadline only, which closes the socket.
AbortInv ==
  Outcome("aborted") => socket = "closed" /\ now >= started.at + started.timeout

\* Every datagram that arrived was added, unless it is still underway; those
\* that are not are gone with the socket.
Underway == IF Outcome("success") THEN 1 ELSE 0

CountInv ==
  /\ added + answers + Underway <= arrived
  /\ socket = "open" => arrived = added + answers + Underway

\* Once a call has thrown timeout_error no operation succeeds.
DeafInv == timedOut => socket = "closed" /\ ~ Outcome("success") /\ result # "data"

SyncIInv ==
  /\ SyncTypeOK
  /\ CallInv
  /\ AbortInv
  /\ TimeoutErrorIsHonest
  /\ CountInv
  /\ DeafInv

LEMMA InitSyncIInv == SyncInit => SyncIInv
<1> SUFFICES ASSUME SyncInit PROVE SyncIInv
  OBVIOUS
<1> USE DeadlineSocketAssumption
<1>1. IInv /\ ~ calling /\ ready = <<>>
  BY InitIInv DEF SyncInit, Init
<1>2. ~ Outcome("success") /\ ~ Outcome("aborted")
  BY <1>1 DEF Outcome, Queued
<1>3. SyncTypeOK
  <2>1. entered \in [at : Nat, timeout : Timeouts \cup {0}] /\ 0 \in 0 .. MaxAnswers
    BY DEF SyncInit
  <2> QED
    BY <1>1, <2>1 DEF SyncInit, SyncTypeOK, IInv
<1>4. CountInv
  BY <1>2 DEF SyncInit, Init, CountInv, Underway
<1>5. CallInv
  BY <1>1 DEF SyncInit, Init, CallInv
<1>6. AbortInv /\ TimeoutErrorIsHonest /\ DeafInv
  BY <1>2 DEF SyncInit, AbortInv, TimeoutErrorIsHonest, DeafInv
<1> QED
  BY <1>3, <1>4, <1>5, <1>6 DEF SyncIInv

LEMMA Counters ==
  ASSUME IInv, SyncIInv
  PROVE  /\ added \in Nat /\ answers \in Nat /\ arrived \in Nat /\ now \in Nat
         /\ started.at \in Nat /\ started.timeout \in Nat
         /\ entered.at \in Nat /\ entered.timeout \in Nat
         /\ socket \in {"open", "closed"}
         /\ {"success", "aborted", "error"} = Completions
<1> USE DeadlineSocketAssumption DEF IInv, TypeOK, SyncIInv, SyncTypeOK
<1>1. added \in Nat /\ answers \in Nat /\ arrived \in Nat /\ now \in Nat
  OBVIOUS
<1>2. started.at \in Nat /\ entered.at \in Nat
  OBVIOUS
<1>3. started.timeout \in Nat /\ entered.timeout \in Nat
  <2>1. Timeouts \cup {0} \subseteq Nat
    OBVIOUS
  <2>2. started.timeout \in Timeouts \cup {0} /\ entered.timeout \in Timeouts \cup {0}
    OBVIOUS
  <2> QED
    BY <2>1, <2>2
<1>4. socket \in {"open", "closed"}
  OBVIOUS
<1>5. {"success", "aborted", "error"} = Completions
  BY DEF Completions, Handlers
<1> QED
  BY <1>1, <1>2, <1>3, <1>4, <1>5

-----------------------------------------------------------------------------
(* The steps.  That the socket keeps its invariant is known. *)

\* A call begins, or goes on to the next datagram.
LEMMA ReceiveStep ==
  ASSUME IInv, IInv', SyncIInv, NEW timeout \in Timeouts, Receive(timeout),
         \/ ReceiveData(timeout)
         \/ ReceiveNext /\ timeout = entered.timeout
  PROVE  SyncIInv'
<1> USE DeadlineSocketAssumption
<1>1. /\ calling' = TRUE /\ socket' = socket /\ now' = now /\ arrived' = arrived
      /\ started' = [at |-> now, timeout |-> timeout]
      /\ added' = added /\ timedOut' = timedOut /\ receiving' = TRUE
      /\ timeout \in Nat
  BY DEF Receive, Begin, ReceiveData, ReceiveNext, scannerVars, SyncIInv, SyncTypeOK
<1>2. /\ ~ Outcome("success") /\ ~ Outcome("aborted")'
      /\ Outcome("success")' <=> socket = "open" /\ answers > 0
  BY ReceiveOutcome, Counters
<1>3. \/ entered' = [at |-> now, timeout |-> timeout]
      \/ entered' = entered /\ timeout = entered.timeout
  BY DEF ReceiveData, ReceiveNext, scannerVars
<1>4. \/ result' = "none"
      \/ result' = result /\ entered' = entered
  BY DEF ReceiveData, ReceiveNext, scannerVars
<1>5. SyncTypeOK'
  BY <1>1, <1>3, <1>4, Counters DEF SyncIInv, SyncTypeOK, IInv
<1>6. CallInv' /\ AbortInv' /\ TimeoutErrorIsHonest'
  <2>1. CallInv'
    <3>1. CASE entered' = [at |-> now, timeout |-> timeout]
      BY <1>1, <3>1, Counters DEF CallInv
    <3>2. CASE entered' = entered /\ timeout = entered.timeout
      BY <1>1, <3>2, Counters DEF CallInv, SyncIInv
    <3> QED
      BY <1>3, <3>1, <3>2
  <2>2. AbortInv'
    BY <1>2 DEF AbortInv
  <2>3. TimeoutErrorIsHonest'
    BY <1>1, <1>4 DEF SyncIInv, TimeoutErrorIsHonest
  <2> QED
    BY <2>1, <2>2, <2>3
<1>7. CountInv'
  <2>1. CASE socket = "open" /\ answers > 0
    <3>1. answers' = answers - 1 /\ Underway = 0 /\ Underway' = 1
      BY <1>2, <2>1 DEF Receive, Begin, Underway
    <3> QED
      BY <1>1, <2>1, <3>1, Counters DEF SyncIInv, CountInv
  <2>2. CASE socket = "open" /\ ~ answers > 0
    <3>1. answers' = answers /\ Underway = 0 /\ Underway' = 0
      BY <1>2, <2>2, Counters DEF Receive, Begin, Underway
    <3> QED
      BY <1>1, <2>2, <3>1, Counters DEF SyncIInv, CountInv
  <2>3. CASE socket = "closed"
    <3>1. answers' = answers /\ Underway = 0 /\ Underway' = 0
      BY <1>2, <2>3 DEF Receive, Begin, Underway
    <3> QED
      BY <1>1, <2>3, <3>1, Counters DEF SyncIInv, CountInv
  <2> QED
    BY <2>1, <2>2, <2>3, Counters
<1>8. DeafInv'
  BY <1>1, <1>2, <1>4 DEF SyncIInv, DeafInv
<1> QED
  BY <1>5, <1>6, <1>7, <1>8 DEF SyncIInv

\* An operation has ended: its datagram is added, or its exception leaves the
\* loop.
LEMMA ReturnStep ==
  ASSUME IInv, IInv', SyncIInv, AddDatagram \/ Throw
  PROVE  SyncIInv'
<1>1. /\ calling /\ ~ calling' /\ receiving \in BOOLEAN
      /\ UNCHANGED <<now, socket, answers, arrived, started, entered>>
  BY DEF AddDatagram, Throw, Return, SyncIInv, SyncTypeOK
<1>2. /\ ~ Outcome("success")' /\ ~ Outcome("aborted")'
      /\ Outcome("success") <=> ec = "success"
      /\ Outcome("aborted") <=> ec = "aborted"
  BY ReturnOutcome, Counters DEF AddDatagram, Throw
<1>3. CallInv' /\ AbortInv'
  BY <1>1, <1>2 DEF SyncIInv, CallInv, AbortInv
<1>4. CASE AddDatagram
  <2>1. Underway = 1 /\ Underway' = 0 /\ added' = added + 1
    BY <1>2, <1>4 DEF AddDatagram, Underway
  <2>2. CountInv'
    BY <1>1, <2>1, Counters DEF SyncIInv, CountInv
  <2>3. added' \in 0 .. MaxAnswers
    BY <1>1, <2>1, <2>2, Counters, DeadlineSocketAssumption DEF CountInv, IInv, TypeOK
  <2>4. SyncTypeOK'
    BY <1>1, <1>4, <2>3 DEF AddDatagram, SyncIInv, SyncTypeOK, IInv
  <2>5. TimeoutErrorIsHonest'
    BY <1>1, <1>4 DEF AddDatagram, SyncIInv, TimeoutErrorIsHonest
  <2>6. DeafInv'
    BY <1>1, <1>2, <1>4 DEF AddDatagram, SyncIInv, DeafInv
  <2> QED
    BY <1>3, <2>2, <2>4, <2>5, <2>6 DEF SyncIInv
<1>5. CASE Throw
  <2>1. Underway = 0 /\ Underway' = 0 /\ added' = added /\ ec # "success"
    BY <1>2, <1>5 DEF Throw, Underway
  <2>2. CountInv'
    BY <1>1, <2>1, Counters DEF SyncIInv, CountInv
  <2>3. SyncTypeOK'
    BY <1>1, <1>5 DEF Throw, SyncIInv, SyncTypeOK, IInv
  <2>4. TimeoutErrorIsHonest'
    <3> SUFFICES ASSUME ec = "aborted"
                 PROVE  now >= entered.at + entered.timeout
      BY <1>1, <1>5 DEF Throw, TimeoutErrorIsHonest
    <3>1. now >= started.at + started.timeout
      BY <1>2 DEF SyncIInv, AbortInv
    <3>2. started.timeout = entered.timeout /\ started.at >= entered.at
      BY <1>1 DEF SyncIInv, CallInv
    <3> QED
      BY <3>1, <3>2, Counters
  <2>5. DeafInv'
    <3>1. result' # "data"
      BY <1>5 DEF Throw
    <3>2. timedOut' => socket' = "closed"
      BY <1>1, <1>2, <1>5 DEF Throw, SyncIInv, DeafInv, AbortInv
    <3> QED
      BY <1>2, <3>1, <3>2 DEF DeafInv
  <2> QED
    BY <1>3, <2>2, <2>3, <2>4, <2>5 DEF SyncIInv
<1> QED
  BY <1>4, <1>5

\* The deadline passes, or the actor was woken for nothing.
LEMMA RunDeadlineKeeps ==
  ASSUME IInv, IInv', SyncIInv, RunDeadline, UNCHANGED scannerVars
  PROVE  SyncIInv'
<1> USE DeadlineSocketAssumption
<1>1. /\ UNCHANGED <<calling, ec, now, arrived, started, receiving, entered, result, added, timedOut>>
      /\ calling /\ expires \in Int /\ now < Infinity
  BY DEF RunDeadline, scannerVars, IInv, TypeOK, Infinity
<1>2. /\ Outcome("success")' <=> Outcome("success")
      /\ Outcome("aborted")' <=> Outcome("aborted") \/ (expires <= now /\ pending)
  BY RunDeadlineOutcome, Counters
<1>3. \/ expires <= now /\ socket' = "closed" /\ answers' = 0
      \/ expires > now /\ socket' = socket /\ answers' = answers
  BY DEF RunDeadline, CheckDeadline
<1>4. SyncTypeOK' /\ CallInv' /\ TimeoutErrorIsHonest'
  BY <1>1 DEF SyncIInv, SyncTypeOK, CallInv, TimeoutErrorIsHonest, IInv
<1>5. AbortInv'
  <2>1. CASE expires <= now
    <3>1. expires = started.at + started.timeout
      BY <1>1, <2>1, Counters DEF IInv, DeadlineInv
    <3> QED
      BY <1>1, <1>3, <2>1, <3>1, Counters DEF AbortInv
  <2>2. CASE expires > now
    BY <1>1, <1>2, <1>3, <2>2, Counters DEF SyncIInv, AbortInv
  <2> QED
    BY <1>3, <2>1, <2>2
<1>6. CountInv'
  <2>1. Underway' = Underway /\ Underway \in 0 .. 1
    BY <1>2 DEF Underway
  <2> QED
    BY <1>1, <1>3, <2>1, Counters DEF SyncIInv, CountInv
<1>7. DeafInv'
  BY <1>1, <1>2, <1>3 DEF SyncIInv, DeafInv
<1> QED
  BY <1>4, <1>5, <1>6, <1>7 DEF SyncIInv

\* The other steps of the socket, the network and the clock.
LEMMA SocketKeeps ==
  ASSUME IInv, IInv', SyncIInv, UNCHANGED scannerVars,
         RunHandler \/ WaitExpires \/ OperationCompletes \/ Arrive \/ Tick
  PROVE  SyncIInv'
<1>1. /\ UNCHANGED <<calling, socket, started, receiving, entered, result, added, timedOut>>
      /\ now' >= now /\ now' \in Nat
  BY Counters DEF RunHandler, WaitExpires, OperationCompletes, Arrive, Tick, scannerVars
<1>2. SyncTypeOK' /\ CallInv' /\ TimeoutErrorIsHonest'
  BY <1>1, Counters DEF SyncIInv, SyncTypeOK, CallInv, TimeoutErrorIsHonest, IInv
<1>3. Underway \in 0 .. 1
  BY DEF Underway
<1>4. CASE OperationCompletes
  <2>1. /\ ~ Outcome("success") /\ Outcome("success")'
        /\ ~ Outcome("aborted")' /\ answers' = answers - 1 /\ arrived' = arrived
        /\ socket = "open"
    BY <1>4, OperationCompletesOutcome, Counters
       DEF OperationCompletes, IInv, OperationInv
  <2>2. Underway = 0 /\ Underway' = 1
    BY <2>1 DEF Underway
  <2>3. CountInv'
    BY <1>1, <2>1, <2>2, Counters DEF SyncIInv, CountInv
  <2>4. AbortInv' /\ DeafInv'
    BY <1>1, <2>1 DEF SyncIInv, AbortInv, DeafInv
  <2> QED
    BY <1>2, <2>3, <2>4 DEF SyncIInv
<1>5. CASE RunHandler \/ WaitExpires \/ Arrive \/ Tick
  <2>1. /\ Outcome("success")' <=> Outcome("success")
        /\ Outcome("aborted")' <=> Outcome("aborted")
    BY <1>5, SameOutcome, Counters
  <2>2. AbortInv' /\ DeafInv'
    BY <1>1, <2>1, Counters DEF SyncIInv, AbortInv, DeafInv
  <2>3. Underway' = Underway
    BY <2>1 DEF Underway
  <2>4. \/ answers' = answers /\ arrived' = arrived
        \/ answers' = answers + 1 /\ arrived' = arrived + 1
    BY <1>5 DEF RunHandler, WaitExpires, Arrive, Tick
  <2>5. CountInv'
    BY <1>1, <1>3, <2>3, <2>4, Counters DEF SyncIInv, CountInv
  <2> QED
    BY <1>2, <2>2, <2>5 DEF SyncIInv
<1> QED
  BY <1>4, <1>5

LEMMA SyncIInvStep == IInv /\ IInv' /\ EnteredInv /\ SyncIInv /\ [SyncNext]_syncVars => SyncIInv'
<1> SUFFICES ASSUME IInv, IInv', EnteredInv, SyncIInv, [SyncNext]_syncVars
             PROVE  SyncIInv'
  OBVIOUS
<1>1. ASSUME NEW timeout \in Timeouts, ReceiveData(timeout) PROVE SyncIInv'
  BY <1>1, ReceiveStep DEF ReceiveData
<1>2. ASSUME ReceiveNext PROVE SyncIInv'
  BY <1>2, ReceiveStep DEF ReceiveNext, EnteredInv
<1>3. ASSUME AddDatagram \/ Throw PROVE SyncIInv'
  BY <1>3, ReturnStep
<1>4. ASSUME SocketStep PROVE SyncIInv'
  BY <1>4, RunDeadlineKeeps, SocketKeeps DEF SocketStep
<1>5. ASSUME UNCHANGED syncVars PROVE SyncIInv'
  <2>1. /\ Outcome("success")' <=> Outcome("success")
        /\ Outcome("aborted")' <=> Outcome("aborted")
    BY <1>5 DEF syncVars, vars, Outcome, Queued
  <2>2. Underway' = Underway
    BY <2>1 DEF Underway
  <2> QED
    BY <1>5, <2>1, <2>2 DEF syncVars, vars, scannerVars, SyncIInv, SyncTypeOK, CallInv,
       AbortInv, TimeoutErrorIsHonest, CountInv, DeafInv, IInv
<1> QED
  BY <1>1, <1>2, <1>3, <1>4, <1>5 DEF SyncNext

-----------------------------------------------------------------------------
(* The theorems. *)

THEOREM ScannerInvariant == SyncSpec => []SyncIInv
<1> QED
  BY InitSyncIInv, SyncIInvStep, SocketInvariantOfScanner, PTL DEF SyncSpec

\* Type correctness; in particular no more datagrams are added than arrive.
THEOREM SyncTypeCorrect == SyncSpec => []SyncTypeOK
<1>1. SyncIInv => SyncTypeOK
  BY DEF SyncIInv
<1> QED
  BY <1>1, ScannerInvariant, PTL

\* timeout_error is thrown only when the whole timeout of the call has passed,
\* however many datagrams the call has read.
THEOREM TimeoutErrorsAreHonest == SyncSpec => []TimeoutErrorIsHonest
<1>1. SyncIInv => TimeoutErrorIsHonest
  BY DEF SyncIInv
<1> QED
  BY <1>1, ScannerInvariant, PTL

\* While the socket is open, every datagram it has accepted is added to the
\* merger or on its way there.
THEOREM NoDatagramIsLost == SyncSpec => []EveryDatagramIsAdded
<1>1. SyncIInv /\ IInv => EveryDatagramIsAdded
  <2> SUFFICES ASSUME SyncIInv, IInv PROVE EveryDatagramIsAdded
    OBVIOUS
  <2> QED
    BY Counters DEF SyncIInv, CountInv, Underway, Outcome, EveryDatagramIsAdded
<1> QED
  BY <1>1, ScannerInvariant, SocketInvariantOfScanner, PTL

\* After the first timeout_error no call returns data.
THEOREM DeafForever == SyncSpec => []DeafAfterTimeout
<1>1. SyncIInv => DeafAfterTimeout
  BY DEF SyncIInv, DeafInv, DeafAfterTimeout
<1> QED
  BY <1>1, ScannerInvariant, PTL
=============================================================================
