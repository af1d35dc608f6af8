------------------------ MODULE AsyncScanner_proofs ------------------------
(***************************************************************************)
(* Proofs about AsyncScanner, for any number of threads, packets and calls *)
(* of stop(); where it matters how often run() is called, it is said.      *)
(***************************************************************************)
EXTENDS AsyncScanner, FiniteSetTheorems, SequenceTheorems, TLAPS

-----------------------------------------------------------------------------
(* How often a handler is in a queue. *)

Places(h, q) == {i \in DOMAIN q : q[i] = h}
Count(h, q) == Cardinality(Places(h, q))

LEMMA CountType ==
  ASSUME NEW S, NEW q \in Seq(S), NEW h
  PROVE  /\ IsFiniteSet(Places(h, q)) /\ Count(h, q) \in Nat
         /\ Places(h, q) \subseteq 1 .. Len(q) /\ Len(q) \in Nat
<1>1. DOMAIN q = 1 .. Len(q) /\ Len(q) \in Nat
  BY LenProperties
<1>2. IsFiniteSet(1 .. Len(q))
  BY <1>1, FS_Interval
<1>3. Places(h, q) \subseteq 1 .. Len(q)
  BY <1>1 DEF Places
<1>4. IsFiniteSet(Places(h, q))
  BY <1>2, <1>3, FS_Subset
<1> QED
  BY <1>1, <1>3, <1>4, FS_CardinalityType DEF Count

LEMMA CountEmpty ==
  ASSUME NEW h
  PROVE  Count(h, <<>>) = 0
<1>1. Places(h, <<>>) = {}
  BY DEF Places
<1> QED
  BY <1>1, FS_EmptySet DEF Count

LEMMA CountAppend ==
  ASSUME NEW S, NEW q \in Seq(S), NEW g \in S, NEW h
  PROVE  /\ g = h => Count(h, Append(q, g)) = Count(h, q) + 1
         /\ g # h => Count(h, Append(q, g)) = Count(h, q)
<1> DEFINE n == Len(q)
           r == Append(q, g)
<1>1. n \in Nat /\ DOMAIN q = 1 .. n /\ IsFiniteSet(Places(h, q))
  BY CountType, LenProperties
<1>2. /\ r \in Seq(S) /\ Len(r) = n + 1 /\ r[n + 1] = g
      /\ \A i \in 1 .. n : r[i] = q[i]
  BY AppendProperties
<1>3. DOMAIN r = 1 .. n + 1
  BY <1>2, LenProperties
<1> HIDE DEF r
<1>4. n + 1 \notin Places(h, q)
  BY <1>1 DEF Places
<1>5. CASE g = h
  <2>1. Places(h, r) = Places(h, q) \cup {n + 1}
    BY <1>1, <1>2, <1>3, <1>5 DEF Places
  <2>2. Count(h, r) = Count(h, q) + 1
    BY <1>1, <1>4, <2>1, FS_AddElement DEF Count
  <2> QED
    BY <1>5, <2>2 DEF r
<1>6. CASE g # h
  <2>1. Places(h, r) = Places(h, q)
    BY <1>1, <1>2, <1>3, <1>6 DEF Places
  <2> QED
    BY <1>6, <2>1 DEF Count, r
<1> QED
  BY <1>5, <1>6

LEMMA CountTail ==
  ASSUME NEW S, NEW q \in Seq(S), q # <<>>, NEW h
  PROVE  /\ Head(q) = h => Count(h, q) = Count(h, Tail(q)) + 1
         /\ Head(q) # h => Count(h, q) = Count(h, Tail(q))
<1> DEFINE n == Len(q)
           r == Tail(q)
           P == Places(h, r)
           Q == Places(h, q) \ {1}
           f == [i \in P |-> i + 1]
<1>1. n \in Nat \ {0} /\ DOMAIN q = 1 .. n /\ IsFiniteSet(Places(h, q)) /\ Head(q) = q[1]
  BY CountType, LenProperties, EmptySeq
<1>2. /\ r \in Seq(S) /\ Len(r) = n - 1
      /\ \A i \in 1 .. n - 1 : r[i] = q[i + 1]
  BY HeadTailProperties
<1>3. DOMAIN r = 1 .. n - 1 /\ IsFiniteSet(P)
  BY <1>2, LenProperties, CountType
<1> HIDE DEF r
<1>4. \A i \in P : i \in 1 .. n - 1 /\ i + 1 \in Q
  BY <1>1, <1>2, <1>3 DEF Places
<1>5. \A j \in Q : j - 1 \in P
  BY <1>1, <1>2, <1>3 DEF Places
<1>6. f \in Bijection(P, Q)
  <2>1. f \in [P -> Q]
    BY <1>4
  <2>2. \A i, j \in P : f[i] = f[j] => i = j
    BY <1>4
  <2>3. \A j \in Q : f[j - 1] = j /\ j - 1 \in P
    BY <1>1, <1>5 DEF Places
  <2> QED
    BY <2>1, <2>2, <2>3 DEF Bijection, Injection, IsInjective, Surjection
<1>7. Cardinality(Q) = Count(h, r)
  BY <1>3, <1>6, FS_Bijection DEF ExistsBijection, Count
<1>8. CASE Head(q) = h
  <2>1. 1 \in Places(h, q)
    BY <1>1, <1>8 DEF Places
  <2>2. Cardinality(Q) = Count(h, q) - 1
    BY <1>1, <2>1, FS_RemoveElement DEF Count
  <2>3. Count(h, q) \in Nat
    BY CountType
  <2> QED
    BY <1>7, <1>8, <2>2, <2>3 DEF r
<1>9. CASE Head(q) # h
  <2>1. Q = Places(h, q)
    BY <1>1, <1>9 DEF Places
  <2> QED
    BY <1>7, <1>9, <2>1 DEF r, Count
<1> QED
  BY <1>8, <1>9

\* Receives that are cancelled join the queue as aborted.
LEMMA CountCancelled ==
  ASSUME NEW q \in Seq({"success", "aborted"}), NEW n \in Nat
  PROVE  LET r == q \o [i \in 1 .. n |-> "aborted"]
         IN /\ r \in Seq({"success", "aborted"})
            /\ Count("success", r) = Count("success", q)
<1> DEFINE S == {"success", "aborted"}
           a == [i \in 1 .. n |-> "aborted"]
           r == q \o a
<1>1. a \in [1 .. n -> S]
  OBVIOUS
<1>2. a \in Seq(S)
  BY <1>1, SeqDef
<1>3. DOMAIN a = 1 .. n /\ DOMAIN a = 1 .. Len(a) /\ Len(a) \in Nat
  BY <1>2, LenProperties
<1>4. Len(a) = n
  BY <1>3
<1>5. /\ r \in Seq(S) /\ Len(r) = Len(q) + n
      /\ \A i \in 1 .. Len(q) + n : r[i] = IF i <= Len(q) THEN q[i] ELSE a[i - Len(q)]
  BY <1>2, <1>4, ConcatProperties
<1>6. DOMAIN q = 1 .. Len(q) /\ Len(q) \in Nat /\ DOMAIN r = 1 .. Len(q) + n
  BY <1>5, LenProperties
<1>7. \A i \in 1 .. n : a[i] = "aborted"
  OBVIOUS
<1> HIDE DEF a, r
<1>8. \A i \in 1 .. Len(q) + n : ~ i <= Len(q) => i - Len(q) \in 1 .. n
  BY <1>6
<1>9. Places("success", r) = Places("success", q)
  BY <1>5, <1>6, <1>7, <1>8 DEF Places
<1> QED
  BY <1>5, <1>9 DEF Count, a, r

-----------------------------------------------------------------------------
(* The inductive invariant. *)

\* The packets that were read from the socket and not yet handed on.
Read == Count("success", ready)

\* The receives of all calls of run(): pending, completed, or in the callback.
Receives == pending + Read + Cardinality(Handling)

\* A call of run() brings one receive into being.  The next one begins in its
\* place.
ReceivesInv == Receives <= runs

\* The socket holds the newest packets, in order of arrival.
SocketInv ==
  /\ Len(queue) <= arrived
  /\ \A i \in 1 .. Len(queue) : queue[i] = arrived - Len(queue) + i

\* The buffer holds a packet when the handler of a receive is ready.
BufferInv == Read > 0 => m_recv_buffer # 0

\* Until run() is called a second time what was handed on is in order.  While
\* the io_service runs it is all that was read, but for the last packet, which
\* may still be in the buffer.
OrderInv ==
  runs <= 1 =>
    /\ \A i \in 1 .. Len(delivered) : delivered[i] = i
    /\ ~ stopped =>
         /\ Len(delivered) + Read + Len(queue) = arrived
         /\ Read > 0 => m_recv_buffer = Len(delivered) + 1

\* The destructor has stopped the io_service.
StoppedInv == user # "using" => stopped

\* And a stop() that has cancelled the receive has left none.
CancelInv == runs <= 1 /\ cancelled => Receives = 0

AInv ==
  /\ TypeOK
  /\ ReceivesInv
  /\ SocketInv
  /\ BufferInv
  /\ OrderInv
  /\ CancelInv
  /\ StoppedInv
  /\ NothingOutlivesTheScanner

LEMMA HandlingType ==
  IsFiniteSet(Handling) /\ Cardinality(Handling) \in Nat
<1>1. Handling \subseteq Threads
  BY DEF Handling
<1> QED
  BY <1>1, AsyncScannerAssumption, FS_Subset, FS_CardinalityType

\* The numbers that the invariant adds up.
LEMMA Numbers ==
  ASSUME TypeOK
  PROVE  /\ pending \in Nat /\ Read \in Nat /\ Cardinality(Handling) \in Nat
         /\ runs \in Nat /\ arrived \in Nat /\ Len(queue) \in Nat /\ Len(delivered) \in Nat
         /\ DOMAIN queue = 1 .. Len(queue) /\ DOMAIN delivered = 1 .. Len(delivered)
         /\ MaxRuns \in Nat /\ MaxStops \in Nat /\ MaxPackets \in Nat
<1> USE AsyncScannerAssumption DEF TypeOK
<1>1. pending \in Nat /\ runs \in Nat /\ arrived \in Nat
  OBVIOUS
<1>2. Read \in Nat
  BY CountType DEF Read
<1>3. Len(queue) \in Nat /\ DOMAIN queue = 1 .. Len(queue)
  BY LenProperties
<1>4. Len(delivered) \in Nat /\ DOMAIN delivered = 1 .. Len(delivered)
  BY LenProperties
<1> QED
  BY <1>1, <1>2, <1>3, <1>4, HandlingType

LEMMA InitAInv == Init => AInv
<1> SUFFICES ASSUME Init PROVE AInv
  OBVIOUS
<1>1. Read = 0
  BY CountEmpty DEF Init, Read
<1>2. Handling = {}
  BY DEF Init, Handling
<1>3. Receives = 0
  BY <1>1, <1>2, FS_EmptySet DEF Init, Receives
<1>4. TypeOK
  <2>1. /\ 0 \in 0 .. MaxRuns /\ 0 \in 0 .. MaxStops /\ 0 \in 0 .. MaxPackets
        /\ <<>> \in Seq({"success", "aborted"}) /\ <<>> \in Seq(1 .. MaxPackets)
    BY AsyncScannerAssumption
  <2> QED
    BY <2>1 DEF Init, TypeOK
<1>5. ReceivesInv /\ BufferInv /\ CancelInv
  BY <1>1, <1>3 DEF Init, ReceivesInv, BufferInv, CancelInv
<1>6. SocketInv /\ OrderInv
  BY <1>1 DEF Init, SocketInv, OrderInv
<1>7. StoppedInv /\ NothingOutlivesTheScanner
  BY DEF Init, StoppedInv, NothingOutlivesTheScanner
<1> QED
  BY <1>4, <1>5, <1>6, <1>7 DEF AInv

-----------------------------------------------------------------------------
(* What several steps do. *)

\* A packet is read into the buffer, for the handlers that were ready so far.
LEMMA PacketRead ==
  ASSUME TypeOK, SocketInv, queue # <<>>, arrived' = arrived,
         m_recv_buffer' = Head(queue), queue' = Tail(queue), ready' = Append(ready, "success")
  PROVE  /\ Read' = Read + 1
         /\ Len(queue') = Len(queue) - 1
         /\ m_recv_buffer' = arrived - Len(queue) + 1
         /\ m_recv_buffer' \in 1 .. MaxPackets
         /\ ready' \in Seq({"success", "aborted"})
         /\ queue' \in Seq(1 .. MaxPackets)
         /\ SocketInv'
<1>1. queue \in Seq(1 .. MaxPackets) /\ ready \in Seq({"success", "aborted"})
  BY DEF TypeOK
<1>2. Read' = Read + 1
  BY <1>1, CountAppend DEF Read
<1>3. ready' \in Seq({"success", "aborted"})
  BY <1>1, AppendProperties
<1>4. /\ Len(queue) \in Nat \ {0} /\ arrived \in Nat /\ Len(queue') = Len(queue) - 1
      /\ Head(queue) \in 1 .. MaxPackets /\ queue' \in Seq(1 .. MaxPackets)
      /\ \A i \in 1 .. Len(queue) - 1 : queue'[i] = queue[i + 1]
  BY <1>1, HeadTailProperties, EmptySeq, Numbers
<1>5. Head(queue) = queue[1]
  BY <1>1
<1>6. m_recv_buffer' = arrived - Len(queue) + 1
  BY <1>4, <1>5 DEF SocketInv
<1>7. SocketInv'
  BY <1>4 DEF SocketInv
<1> QED
  BY <1>2, <1>3, <1>4, <1>6, <1>7

\* A receive begins, as BeginReceive has it: it is pending, or has read a packet.
LEMMA ReceiveBegun ==
  ASSUME TypeOK, SocketInv, BeginReceive(ready), arrived' = arrived
  PROVE  /\ pending' + Read' = pending + Read + 1
         /\ pending' \in Nat /\ Read' \in Nat
         /\ ready' \in Seq({"success", "aborted"})
         /\ queue' \in Seq(1 .. MaxPackets)
         /\ m_recv_buffer' \in 0 .. MaxPackets
         /\ SocketInv'
         /\ \/ Read' = Read /\ queue' = queue /\ m_recv_buffer' = m_recv_buffer
            \/ /\ Read' = Read + 1
               /\ Len(queue') = Len(queue) - 1
               /\ m_recv_buffer' = arrived - Len(queue) + 1
               /\ m_recv_buffer' # 0
<1>1. CASE /\ pending = 0 /\ queue # <<>> /\ m_recv_buffer' = Head(queue)
           /\ queue' = Tail(queue) /\ ready' = Append(ready, "success") /\ pending' = pending
  <2>1. /\ Read' = Read + 1
        /\ Len(queue') = Len(queue) - 1
        /\ m_recv_buffer' = arrived - Len(queue) + 1
        /\ m_recv_buffer' \in 1 .. MaxPackets
        /\ ready' \in Seq({"success", "aborted"})
        /\ queue' \in Seq(1 .. MaxPackets)
        /\ SocketInv'
    BY <1>1, PacketRead
  <2>2. Read \in Nat /\ MaxPackets \in Nat
    BY Numbers
  <2>3. pending' = 0 /\ pending = 0 /\ pending' \in Nat
    BY <1>1
  <2>4. m_recv_buffer' \in 0 .. MaxPackets /\ m_recv_buffer' # 0
    BY <2>1, <2>2
  <2>5. pending' + Read' = pending + Read + 1 /\ Read' \in Nat
    BY <2>1, <2>2, <2>3
  <2> QED
    BY <2>1, <2>3, <2>4, <2>5
<1>2. CASE /\ pending' = pending + 1 /\ ready' = ready
           /\ queue' = queue /\ m_recv_buffer' = m_recv_buffer
  <2>1. Read' = Read
    BY <1>2 DEF Read
  <2>2. SocketInv'
    BY <1>2 DEF SocketInv
  <2> QED
    BY <1>2, <2>1, <2>2, Numbers DEF TypeOK
<1> QED
  BY <1>1, <1>2 DEF BeginReceive

\* A thread enters the callback or leaves it.
LEMMA ThreadMoves ==
  ASSUME TypeOK, NEW th \in Threads, NEW s \in {"polling", "handling", "ended"},
         thread' = [thread EXCEPT ![th] = s]
  PROVE  /\ thread' \in [Threads -> {"polling", "handling", "ended"}]
         /\ Cardinality(Handling') \in Nat
         /\ thread[th] = "handling" /\ s # "handling" =>
              Cardinality(Handling') = Cardinality(Handling) - 1
         /\ thread[th] # "handling" /\ s = "handling" =>
              Cardinality(Handling') = Cardinality(Handling) + 1
         /\ thread[th] # "handling" /\ s # "handling" =>
              Cardinality(Handling') = Cardinality(Handling)
<1>1. thread' \in [Threads -> {"polling", "handling", "ended"}]
  BY DEF TypeOK
<1>2. IsFiniteSet(Handling)
  BY HandlingType
<1>3. CASE s = "handling"
  <2>1. Handling' = Handling \cup {th}
    BY <1>3 DEF Handling, TypeOK
  <2>2. th \in Handling <=> thread[th] = "handling"
    BY DEF Handling
  <2> QED
    BY <1>1, <1>2, <1>3, <2>1, <2>2, FS_AddElement, FS_CardinalityType
<1>4. CASE s # "handling"
  <2>1. Handling' = Handling \ {th}
    BY <1>4 DEF Handling, TypeOK
  <2>2. th \in Handling <=> thread[th] = "handling"
    BY DEF Handling
  <2> QED
    BY <1>1, <1>2, <1>4, <2>1, <2>2, FS_RemoveElement, FS_CardinalityType
<1> QED
  BY <1>3, <1>4

-----------------------------------------------------------------------------
(* Every step keeps the invariant. *)

LEMMA RunStep == ASSUME AInv, Run PROVE AInv'
<1> USE DEF AInv
<1>1. /\ runs' = runs + 1 /\ cancelled' = FALSE /\ arrived' = arrived /\ thread' = thread
      /\ own' = own /\ user' = user /\ stopped' = stopped /\ delivered' = delivered
      /\ user = "using" /\ runs < MaxRuns /\ lastCall' = "run"
      /\ stops' = stops /\ arrivedAtStop' = arrivedAtStop /\ raised' = raised
  BY DEF Run
<1>2. BeginReceive(ready)
  BY DEF Run
<1>3. /\ pending' + Read' = pending + Read + 1
      /\ pending' \in Nat /\ Read' \in Nat
      /\ ready' \in Seq({"success", "aborted"})
      /\ queue' \in Seq(1 .. MaxPackets)
      /\ m_recv_buffer' \in 0 .. MaxPackets
      /\ SocketInv'
      /\ \/ Read' = Read /\ queue' = queue /\ m_recv_buffer' = m_recv_buffer
         \/ /\ Read' = Read + 1
            /\ Len(queue') = Len(queue) - 1
            /\ m_recv_buffer' = arrived - Len(queue) + 1
            /\ m_recv_buffer' # 0
  BY <1>1, <1>2, ReceiveBegun
<1>4. Handling' = Handling
  BY <1>1 DEF Handling
<1>a. /\ pending \in Nat /\ Read \in Nat /\ Cardinality(Handling) \in Nat
      /\ runs \in Nat /\ arrived \in Nat /\ Len(queue) \in Nat /\ MaxRuns \in Nat
  BY Numbers
<1>b. pending' + Read' = pending + Read + 1 /\ pending' \in Nat /\ Read' \in Nat
  BY <1>3
<1>c. Cardinality(Handling') = Cardinality(Handling)
  BY <1>4
<1>5. Receives' = Receives + 1 /\ ReceivesInv'
  <2>1. Receives' = Receives + 1
    <3>1. Receives' = pending' + Read' + Cardinality(Handling)
      BY <1>c DEF Receives
    <3>2. Receives = pending + Read + Cardinality(Handling)
      BY DEF Receives
    <3>3. PICK n, m, c \in Nat : n = pending /\ m = Read /\ c = Cardinality(Handling)
      BY <1>a
    <3>4. PICK k, l \in Nat : k = pending' /\ l = Read'
      BY <1>b
    <3>5. k + l = n + m + 1
      BY <1>b, <3>3, <3>4
    <3>6. k + l + c = n + m + c + 1
      BY <3>5
    <3> QED
      BY <3>1, <3>2, <3>3, <3>4, <3>6
  <2>2. Receives \in Nat /\ Receives <= runs
    BY <1>a DEF ReceivesInv, Receives
  <2> QED
    BY <1>1, <1>a, <2>1, <2>2 DEF ReceivesInv
<1>6. TypeOK'
  <2>1. pending' \in 0 .. MaxRuns /\ runs' \in 0 .. MaxRuns
    <3>1. Receives' <= runs'
      BY <1>5 DEF ReceivesInv
    <3>2. pending' <= runs'
      BY <1>1, <1>a, <1>b, <1>c, <3>1 DEF Receives
    <3> QED
      BY <1>1, <1>3, <1>a, <3>2
  <2> QED
    BY <1>1, <1>3, <2>1 DEF TypeOK
<1>7. BufferInv'
  BY <1>3 DEF BufferInv
<1>8. OrderInv'
  <2>1. CASE runs' <= 1
    <3>1. Read = 0
      BY <1>1, <2>1, Numbers DEF ReceivesInv, Receives
    <3>2. \A i \in 1 .. Len(delivered) : delivered[i] = i
      BY <1>1, <2>1, <1>a DEF OrderInv
    <3>3. Len(delivered) \in Nat
      BY Numbers
    <3>4. ~ stopped => Len(delivered) + Len(queue) = arrived
      BY <1>1, <2>1, <3>1, <3>3, <1>a DEF OrderInv
    <3>5. CASE Read' = Read /\ queue' = queue
      BY <1>1, <3>1, <3>2, <3>3, <3>4, <3>5, <1>a DEF OrderInv
    <3>6. CASE /\ Read' = Read + 1
               /\ Len(queue') = Len(queue) - 1
               /\ m_recv_buffer' = arrived - Len(queue) + 1
      BY <1>1, <3>1, <3>2, <3>3, <3>4, <3>6, <1>a DEF OrderInv
    <3> QED
      BY <1>3, <3>5, <3>6
  <2> QED
    BY <2>1 DEF OrderInv
<1>9. CancelInv' /\ StoppedInv' /\ NothingOutlivesTheScanner'
  BY <1>1 DEF CancelInv, StoppedInv, NothingOutlivesTheScanner
<1> QED
  BY <1>3, <1>5, <1>6, <1>7, <1>8, <1>9

\* The receives that were pending are aborted, in stop() and at the end.
LEMMA Cancelled ==
  ASSUME TypeOK, CancelPending
  PROVE  ready' \in Seq({"success", "aborted"}) /\ Read' = Read /\ pending' = 0
BY CountCancelled, Numbers DEF CancelPending, Read, TypeOK

LEMMA StopStep == ASSUME AInv, Stop PROVE AInv'
<1> USE DEF AInv
<1>1. /\ runs' = runs /\ arrived' = arrived /\ thread' = thread /\ queue' = queue
      /\ own' = own /\ user' = user /\ stopped' = stopped /\ delivered' = delivered
      /\ m_recv_buffer' = m_recv_buffer /\ lastCall' = "stop" /\ stops' = stops + 1
      /\ stops < MaxStops /\ arrivedAtStop' = arrived /\ raised' = raised
      /\ cancelled' = (pending > 0) /\ user = "using"
  BY DEF Stop
<1>2. ready' \in Seq({"success", "aborted"}) /\ Read' = Read /\ pending' = 0
  BY Cancelled DEF Stop
<1>3. Handling' = Handling
  BY <1>1 DEF Handling
<1>4. TypeOK'
  <2>1. stops' \in 0 .. MaxStops /\ pending' \in 0 .. MaxRuns /\ cancelled' \in BOOLEAN
    BY <1>1, <1>2, AsyncScannerAssumption DEF TypeOK
  <2> QED
    BY <1>1, <1>2, <2>1 DEF TypeOK
<1>5. ReceivesInv'
  BY <1>1, <1>2, <1>3, Numbers DEF ReceivesInv, Receives
<1>6. SocketInv' /\ BufferInv' /\ OrderInv' /\ StoppedInv' /\ NothingOutlivesTheScanner'
  BY <1>1, <1>2 DEF SocketInv, BufferInv, OrderInv, StoppedInv, NothingOutlivesTheScanner
<1>7. CancelInv'
  <2>1. /\ pending \in Nat /\ Read \in Nat /\ Cardinality(Handling) \in Nat /\ runs \in Nat
    BY Numbers
  <2>2. SUFFICES ASSUME runs <= 1, pending > 0 PROVE Receives' = 0
    BY <1>1 DEF CancelInv
  <2>3. Read = 0 /\ Cardinality(Handling) = 0
    BY <2>1, <2>2 DEF ReceivesInv, Receives
  <2> QED
    BY <1>2, <1>3, <2>3 DEF Receives
<1> QED
  BY <1>4, <1>5, <1>6, <1>7

LEMMA DestroyStep == ASSUME AInv, Destroy PROVE AInv'
<1> USE DEF AInv
<1>1. /\ runs' = runs /\ arrived' = arrived /\ thread' = thread /\ queue' = queue
      /\ own' = own /\ stopped' = TRUE /\ delivered' = delivered /\ user = "using"
      /\ m_recv_buffer' = m_recv_buffer /\ lastCall' = lastCall /\ stops' = stops
      /\ arrivedAtStop' = arrivedAtStop /\ raised' = raised /\ cancelled' = cancelled
      /\ user' = "joining" \/ (~ own /\ user' = "gone")
  <2> USE DEF Destroy, callVars
  <2>1. /\ runs' = runs /\ arrived' = arrived /\ thread' = thread /\ queue' = queue
        /\ own' = own /\ delivered' = delivered /\ user = "using"
        /\ m_recv_buffer' = m_recv_buffer /\ lastCall' = lastCall /\ stops' = stops
        /\ arrivedAtStop' = arrivedAtStop /\ raised' = raised /\ cancelled' = cancelled
    OBVIOUS
  <2>2. stopped' = TRUE
    OBVIOUS
  <2>3. user' = "joining" \/ (~ own /\ user' = "gone")
    OBVIOUS
  <2> QED
    BY <2>1, <2>2, <2>3
<1>2. ready' \in Seq({"success", "aborted"}) /\ Read' = Read /\ pending' \in {0, pending}
  <2>1. CASE pending' = pending /\ ready' = ready
    BY <2>1 DEF Read, TypeOK
  <2>2. CASE CancelPending
    BY <2>2, Cancelled
  <2> QED
    BY <2>1, <2>2 DEF Destroy
<1>3. Handling' = Handling
  BY <1>1 DEF Handling
<1>4. TypeOK'
  <2>1. pending' \in 0 .. MaxRuns
    BY <1>2, AsyncScannerAssumption DEF TypeOK
  <2> QED
    BY <1>1, <1>2, <2>1 DEF TypeOK
<1>5. ReceivesInv'
  BY <1>1, <1>2, <1>3, Numbers DEF ReceivesInv, Receives
<1>6. SocketInv' /\ BufferInv' /\ OrderInv' /\ StoppedInv' /\ NothingOutlivesTheScanner'
  BY <1>1, <1>2 DEF SocketInv, BufferInv, OrderInv, StoppedInv, NothingOutlivesTheScanner
<1>7. CancelInv'
  BY <1>1, <1>2, <1>3, Numbers DEF CancelInv, Receives
<1> QED
  BY <1>4, <1>5, <1>6, <1>7

LEMMA JoinStep == ASSUME AInv, Join PROVE AInv'
<1> USE DEF AInv
<1>1. /\ runs' = runs /\ arrived' = arrived /\ thread' = thread /\ queue' = queue
      /\ own' = own /\ stopped' = stopped /\ delivered' = delivered /\ user = "joining"
      /\ m_recv_buffer' = m_recv_buffer /\ lastCall' = lastCall /\ stops' = stops
      /\ arrivedAtStop' = arrivedAtStop /\ raised' = raised /\ cancelled' = cancelled
      /\ pending' = 0 /\ ready' = <<>> /\ user' = "gone"
      /\ \A th \in Threads : thread[th] = "ended"
  BY DEF Join, callVars
<1>2. Read' = 0
  BY <1>1, CountEmpty DEF Read
<1>3. Handling' = Handling
  BY <1>1 DEF Handling
<1>4. stopped
  BY <1>1 DEF StoppedInv
<1>5. TypeOK'
  <2>1. pending' \in 0 .. MaxRuns /\ ready' \in Seq({"success", "aborted"})
    BY <1>1, AsyncScannerAssumption
  <2> QED
    BY <1>1, <2>1 DEF TypeOK
<1>6. ReceivesInv'
  BY <1>1, <1>2, <1>3, Numbers DEF ReceivesInv, Receives
<1>7. SocketInv' /\ BufferInv' /\ OrderInv' /\ StoppedInv' /\ NothingOutlivesTheScanner'
  BY <1>1, <1>2, <1>4 DEF SocketInv, BufferInv, OrderInv, StoppedInv, NothingOutlivesTheScanner
<1>8. CancelInv'
  BY <1>1, <1>2, <1>3, Numbers DEF CancelInv, Receives
<1> QED
  BY <1>5, <1>6, <1>7, <1>8

LEMMA ArriveStep == ASSUME AInv, Arrive PROVE AInv'
<1> USE DEF AInv
<1>1. /\ runs' = runs /\ arrived' = arrived + 1 /\ thread' = thread
      /\ queue' = Append(queue, arrived + 1) /\ arrived < MaxPackets
      /\ own' = own /\ stopped' = stopped /\ delivered' = delivered /\ user' = user
      /\ m_recv_buffer' = m_recv_buffer /\ lastCall' = lastCall /\ stops' = stops
      /\ arrivedAtStop' = arrivedAtStop /\ raised' = raised /\ cancelled' = cancelled
      /\ pending' = pending /\ ready' = ready
  BY DEF Arrive, callVars
<1>2. Read' = Read /\ Handling' = Handling
  BY <1>1 DEF Read, Handling
<1>3. /\ queue' \in Seq(1 .. MaxPackets) /\ Len(queue') = Len(queue) + 1
      /\ \A i \in 1 .. Len(queue) : queue'[i] = queue[i]
      /\ queue'[Len(queue) + 1] = arrived + 1
      /\ arrived' \in 0 .. MaxPackets
  <2>1. arrived + 1 \in 1 .. MaxPackets /\ arrived + 1 \in 0 .. MaxPackets
    BY <1>1, Numbers
  <2>2. queue \in Seq(1 .. MaxPackets)
    BY DEF TypeOK
  <2> QED
    BY <1>1, <2>1, <2>2, AppendProperties
<1>4. SocketInv'
  <2>1. Len(queue) \in Nat /\ arrived \in Nat /\ Len(queue) <= arrived
    BY Numbers DEF SocketInv
  <2>2. \A i \in 1 .. Len(queue) : queue'[i] = arrived' - Len(queue') + i
    BY <1>1, <1>3, <2>1 DEF SocketInv
  <2>3. \A i \in 1 .. Len(queue') : i \in 1 .. Len(queue) \/ i = Len(queue) + 1
    BY <1>3, <2>1
  <2>4. queue'[Len(queue) + 1] = arrived' - Len(queue') + (Len(queue) + 1)
    BY <1>1, <1>3, <2>1
  <2>5. Len(queue') <= arrived'
    BY <1>1, <1>3, <2>1
  <2> QED
    BY <2>2, <2>3, <2>4, <2>5 DEF SocketInv
<1>5. TypeOK'
  BY <1>1, <1>3 DEF TypeOK
<1>6. ReceivesInv' /\ BufferInv' /\ CancelInv'
  BY <1>1, <1>2 DEF ReceivesInv, BufferInv, CancelInv, Receives
<1>7. OrderInv'
  BY <1>1, <1>2, <1>3, Numbers DEF OrderInv
<1>8. StoppedInv' /\ NothingOutlivesTheScanner'
  BY <1>1 DEF StoppedInv, NothingOutlivesTheScanner
<1> QED
  BY <1>4, <1>5, <1>6, <1>7, <1>8

LEMMA CompleteReceiveStep == ASSUME AInv, CompleteReceive PROVE AInv'
<1> USE DEF AInv
<1>1. /\ runs' = runs /\ arrived' = arrived /\ thread' = thread
      /\ own' = own /\ stopped' = stopped /\ delivered' = delivered /\ user' = user
      /\ lastCall' = lastCall /\ stops' = stops
      /\ arrivedAtStop' = arrivedAtStop /\ raised' = raised /\ cancelled' = cancelled
      /\ pending' = pending - 1 /\ pending > 0
      /\ \E th \in Threads : thread[th] = "polling"
  BY DEF CompleteReceive, callVars
<1>2. /\ Read' = Read + 1
      /\ Len(queue') = Len(queue) - 1
      /\ m_recv_buffer' = arrived - Len(queue) + 1
      /\ m_recv_buffer' \in 1 .. MaxPackets
      /\ ready' \in Seq({"success", "aborted"})
      /\ queue' \in Seq(1 .. MaxPackets)
      /\ SocketInv'
  BY <1>1, PacketRead DEF CompleteReceive
<1>3. Handling' = Handling
  BY <1>1 DEF Handling
<1>4. TypeOK'
  <2>1. pending' \in 0 .. MaxRuns /\ m_recv_buffer' \in 0 .. MaxPackets
    <3>1. pending \in 0 .. MaxRuns /\ MaxRuns \in Nat /\ MaxPackets \in Nat
      BY Numbers DEF TypeOK
    <3>2. pending - 1 \in 0 .. MaxRuns
      BY <1>1, <3>1
    <3> QED
      BY <1>1, <1>2, <3>1, <3>2
  <2> QED
    BY <1>1, <1>2, <2>1 DEF TypeOK
<1>5. ReceivesInv'
  BY <1>1, <1>2, <1>3, Numbers DEF ReceivesInv, Receives
<1>6. BufferInv'
  BY <1>2, Numbers DEF BufferInv
<1>7. OrderInv'
  <2>1. CASE runs <= 1
    <3>1. Read = 0
      BY <1>1, <2>1, Numbers DEF ReceivesInv, Receives
    <3> QED
      BY <1>1, <1>2, <2>1, <3>1, Numbers DEF OrderInv
  <2> QED
    BY <1>1, <2>1 DEF OrderInv
<1>8. CancelInv'
  BY <1>1, Numbers DEF CancelInv, Receives
<1>9. StoppedInv' /\ NothingOutlivesTheScanner'
  BY <1>1 DEF StoppedInv, NothingOutlivesTheScanner
<1> QED
  BY <1>2, <1>4, <1>5, <1>6, <1>7, <1>8, <1>9

LEMMA HandleReceiveStep ==
  ASSUME AInv, NEW th \in Threads, HandleReceive(th) PROVE AInv'
<1> USE DEF AInv
<1>1. /\ runs' = runs /\ arrived' = arrived /\ queue' = queue /\ pending' = pending
      /\ own' = own /\ stopped' = stopped /\ user' = user
      /\ m_recv_buffer' = m_recv_buffer /\ lastCall' = lastCall /\ stops' = stops
      /\ arrivedAtStop' = arrivedAtStop /\ raised' = raised /\ cancelled' = cancelled
      /\ ready' = Tail(ready) /\ delivered' = Append(delivered, m_recv_buffer)
      /\ thread' = [thread EXCEPT ![th] = "handling"]
      /\ thread[th] = "polling" /\ ~ stopped /\ ready # <<>> /\ Head(ready) = "success"
  BY DEF HandleReceive, MayHandle, callVars
<1>2. /\ pending \in Nat /\ Read \in Nat /\ Cardinality(Handling) \in Nat
      /\ runs \in Nat /\ arrived \in Nat /\ Len(queue) \in Nat /\ Len(delivered) \in Nat
  BY Numbers
<1>3. ready' \in Seq({"success", "aborted"}) /\ Read' = Read - 1 /\ Read' \in Nat
  <2>1. ready \in Seq({"success", "aborted"})
    BY DEF TypeOK
  <2>2. ready' \in Seq({"success", "aborted"})
    BY <1>1, <2>1, HeadTailProperties
  <2>3. Count("success", ready) = Count("success", Tail(ready)) + 1
    BY <1>1, <2>1, CountTail
  <2>4. Count("success", Tail(ready)) \in Nat
    BY <1>1, <2>2, CountType
  <2>5. Count("success", Tail(ready)) = Count("success", ready) - 1
    BY <2>3, <2>4
  <2> QED
    BY <1>1, <2>2, <2>4, <2>5 DEF Read
<1>r. PICK m, k \in Nat : Read = m /\ Read' = k /\ k = m - 1
  BY <1>2, <1>3
<1>4. /\ thread' \in [Threads -> {"polling", "handling", "ended"}]
      /\ Cardinality(Handling') = Cardinality(Handling) + 1
  BY <1>1, ThreadMoves
<1>5. /\ m_recv_buffer \in 1 .. MaxPackets /\ delivered \in Seq(1 .. MaxPackets)
      /\ m_recv_buffer \in Nat
  <2>1. Read > 0
    BY <1>r
  <2>2. m_recv_buffer # 0
    BY <2>1 DEF BufferInv
  <2>3. m_recv_buffer \in 0 .. MaxPackets /\ delivered \in Seq(1 .. MaxPackets)
    BY DEF TypeOK
  <2> QED
    BY <2>2, <2>3, AsyncScannerAssumption
<1>6. /\ delivered' \in Seq(1 .. MaxPackets)
      /\ Len(delivered') = Len(delivered) + 1
      /\ \A i \in 1 .. Len(delivered) : delivered'[i] = delivered[i]
      /\ delivered'[Len(delivered) + 1] = m_recv_buffer
  BY <1>1, <1>5, AppendProperties
<1>7. TypeOK'
  BY <1>1, <1>3, <1>4, <1>6 DEF TypeOK
<1>8. ReceivesInv'
  BY <1>1, <1>2, <1>3, <1>4 DEF ReceivesInv, Receives
<1>9. SocketInv' /\ BufferInv'
  <2>1. m_recv_buffer # 0
    BY <1>5
  <2> QED
    BY <1>1, <2>1 DEF SocketInv, BufferInv
<1>10. OrderInv'
  <2>1. SUFFICES ASSUME runs <= 1
                 PROVE  /\ \A i \in 1 .. Len(delivered') : delivered'[i] = i
                        /\ Len(delivered') + Read' + Len(queue') = arrived'
                        /\ Read' = 0
    BY <1>1 DEF OrderInv
  <2>2. Read = 1 /\ Read' = 0
    <3>1. PICK n, c, r \in Nat : n = pending /\ c = Cardinality(Handling) /\ r = runs
      BY <1>2
    <3>2. n + m + c <= r
      BY <1>r, <3>1 DEF ReceivesInv, Receives
    <3>3. r <= 1 /\ m > 0
      BY <1>r, <2>1, <3>1
    <3>4. m = 1
      BY <3>2, <3>3
    <3> QED
      BY <1>r, <3>4
  <2>3. /\ Len(delivered) + 1 + Len(queue) = arrived
        /\ m_recv_buffer = Len(delivered) + 1
        /\ \A i \in 1 .. Len(delivered) : delivered[i] = i
    BY <1>1, <2>1, <2>2 DEF OrderInv
  <2> QED
    BY <1>1, <1>2, <1>6, <2>2, <2>3
<1>11. CancelInv'
  <2>1. SUFFICES ASSUME runs <= 1, cancelled PROVE FALSE
    BY <1>1 DEF CancelInv
  <2>2. Receives = 0
    BY <2>1 DEF CancelInv
  <2> QED
    BY <1>2, <1>3, <2>2 DEF Receives
<1>12. StoppedInv' /\ NothingOutlivesTheScanner'
  BY <1>1 DEF StoppedInv, NothingOutlivesTheScanner
<1> QED
  BY <1>7, <1>8, <1>9, <1>10, <1>11, <1>12

LEMMA HandleAbortStep ==
  ASSUME AInv, NEW th \in Threads, HandleAbort(th) PROVE AInv'
<1> USE DEF AInv
<1>1. /\ runs' = runs /\ arrived' = arrived /\ queue' = queue /\ pending' = pending
      /\ own' = own /\ stopped' = stopped /\ user' = user /\ delivered' = delivered
      /\ m_recv_buffer' = m_recv_buffer /\ lastCall' = lastCall /\ stops' = stops
      /\ arrivedAtStop' = arrivedAtStop /\ raised' = raised /\ cancelled' = cancelled
      /\ ready' = Tail(ready)
      /\ thread' = [thread EXCEPT ![th] = "ended"]
      /\ thread[th] = "polling" /\ ready # <<>> /\ Head(ready) = "aborted"
  BY DEF HandleAbort, MayHandle, callVars
<1>2. ready' \in Seq({"success", "aborted"}) /\ Read' = Read
  <2>1. ready \in Seq({"success", "aborted"})
    BY DEF TypeOK
  <2>2. ready' \in Seq({"success", "aborted"})
    BY <1>1, <2>1, HeadTailProperties
  <2>3. Read' = Read
    BY <1>1, <2>1, CountTail DEF Read
  <2> QED
    BY <2>2, <2>3
<1>3. /\ thread' \in [Threads -> {"polling", "handling", "ended"}]
      /\ Cardinality(Handling') = Cardinality(Handling)
  BY <1>1, ThreadMoves
<1>4. TypeOK'
  BY <1>1, <1>2, <1>3 DEF TypeOK
<1>5. Receives' = Receives
  BY <1>1, <1>2, <1>3 DEF Receives
<1>6. ReceivesInv' /\ SocketInv' /\ BufferInv' /\ OrderInv' /\ CancelInv'
  BY <1>1, <1>2, <1>5 DEF ReceivesInv, SocketInv, BufferInv, OrderInv, CancelInv
<1>7. StoppedInv' /\ NothingOutlivesTheScanner'
  BY <1>1 DEF StoppedInv, NothingOutlivesTheScanner
<1> QED
  BY <1>4, <1>6, <1>7

LEMMA CallbackReturnsStep ==
  ASSUME AInv, NEW th \in Threads, CallbackReturns(th) PROVE AInv'
<1> USE DEF AInv
<1>1. /\ runs' = runs /\ arrived' = arrived /\ own' = own /\ stopped' = stopped
      /\ user' = user /\ delivered' = delivered
      /\ lastCall' = lastCall /\ stops' = stops
      /\ arrivedAtStop' = arrivedAtStop /\ raised' = raised /\ cancelled' = cancelled
      /\ thread' = [thread EXCEPT ![th] = "polling"]
      /\ thread[th] = "handling"
  BY DEF CallbackReturns, callVars
<1>2. BeginReceive(ready)
  BY DEF CallbackReturns
<1>3. /\ pending' + Read' = pending + Read + 1 /\ pending' \in Nat /\ Read' \in Nat
      /\ ready' \in Seq({"success", "aborted"})
      /\ queue' \in Seq(1 .. MaxPackets)
      /\ m_recv_buffer' \in 0 .. MaxPackets
      /\ SocketInv'
  BY <1>1, <1>2, ReceiveBegun
<1>4. \/ Read' = Read /\ queue' = queue /\ m_recv_buffer' = m_recv_buffer
      \/ /\ Read' = Read + 1
         /\ Len(queue') = Len(queue) - 1
         /\ m_recv_buffer' = arrived - Len(queue) + 1
         /\ m_recv_buffer' # 0
  BY <1>1, <1>2, ReceiveBegun
<1>5. /\ thread' \in [Threads -> {"polling", "handling", "ended"}]
      /\ Cardinality(Handling') \in Nat
      /\ Cardinality(Handling') = Cardinality(Handling) - 1
  BY <1>1, ThreadMoves
<1>6. /\ pending \in Nat /\ Read \in Nat /\ Cardinality(Handling) \in Nat
      /\ runs \in Nat /\ arrived \in Nat /\ Len(queue) \in Nat /\ Len(delivered) \in Nat
      /\ MaxRuns \in Nat
  BY Numbers
<1>7. Receives' = Receives
  <2>1. PICK n, m, c \in Nat : n = pending /\ m = Read /\ c = Cardinality(Handling)
    BY <1>6
  <2>2. PICK k, l, d \in Nat : k = pending' /\ l = Read' /\ d = Cardinality(Handling')
    BY <1>3, <1>5
  <2>3. k + l = n + m + 1 /\ d = c - 1
    BY <1>3, <1>5, <2>1, <2>2
  <2>4. k + l + d = n + m + c
    BY <2>3
  <2> QED
    BY <2>1, <2>2, <2>4 DEF Receives
<1>8. ReceivesInv'
  BY <1>1, <1>7 DEF ReceivesInv
<1>9. TypeOK'
  <2>1. Receives' <= runs
    BY <1>7 DEF ReceivesInv
  <2>2. pending' <= runs
    <3>1. PICK k, l, d, r \in Nat :
            k = pending' /\ l = Read' /\ d = Cardinality(Handling') /\ r = runs
      BY <1>3, <1>5, <1>6
    <3>2. k + l + d <= r
      BY <2>1, <3>1 DEF Receives
    <3>3. k <= r
      BY <3>2
    <3> QED
      BY <3>1, <3>3
  <2>3. pending' \in 0 .. MaxRuns
    BY <1>3, <1>6, <2>2 DEF TypeOK
  <2> QED
    BY <1>1, <1>3, <1>5, <2>3 DEF TypeOK
<1>10. BufferInv'
  BY <1>4 DEF BufferInv
<1>11. OrderInv'
  <2>1. SUFFICES ASSUME runs <= 1
                 PROVE  /\ \A i \in 1 .. Len(delivered') : delivered'[i] = i
                        /\ ~ stopped' =>
                             /\ Len(delivered') + Read' + Len(queue') = arrived'
                             /\ Read' > 0 => m_recv_buffer' = Len(delivered') + 1
    BY <1>1 DEF OrderInv
  <2>2. Cardinality(Handling) >= 1
    BY <1>5, <1>6
  <2>3. Read = 0
    BY <1>6, <2>1, <2>2 DEF ReceivesInv, Receives
  <2>4. /\ \A i \in 1 .. Len(delivered) : delivered[i] = i
        /\ ~ stopped => Len(delivered) + Len(queue) = arrived
    BY <1>6, <2>1, <2>3 DEF OrderInv
  <2>5. CASE Read' = Read /\ queue' = queue
    BY <1>1, <1>6, <2>3, <2>4, <2>5
  <2>6. CASE /\ Read' = Read + 1
             /\ Len(queue') = Len(queue) - 1
             /\ m_recv_buffer' = arrived - Len(queue) + 1
    BY <1>1, <1>6, <2>3, <2>4, <2>6
  <2> QED
    BY <1>4, <2>5, <2>6
<1>12. CancelInv'
  BY <1>1, <1>7 DEF CancelInv
<1>13. StoppedInv' /\ NothingOutlivesTheScanner'
  BY <1>1 DEF StoppedInv, NothingOutlivesTheScanner
<1> QED
  BY <1>3, <1>8, <1>9, <1>10, <1>11, <1>12, <1>13

LEMMA ThreadEndsStep ==
  ASSUME AInv, NEW th \in Threads, CallbackRaises(th) \/ ServiceEnds(th) PROVE AInv'
<1> USE DEF AInv
<1>1. /\ runs' = runs /\ arrived' = arrived /\ queue' = queue /\ pending' = pending
      /\ own' = own /\ stopped' = stopped /\ user' = user /\ delivered' = delivered
      /\ m_recv_buffer' = m_recv_buffer /\ lastCall' = lastCall /\ stops' = stops
      /\ arrivedAtStop' = arrivedAtStop /\ cancelled' = cancelled
      /\ ready' = ready
      /\ thread' = [thread EXCEPT ![th] = "ended"]
  BY DEF CallbackRaises, ServiceEnds, callVars, socketVars
<1>2. raised' \in BOOLEAN
  BY DEF CallbackRaises, ServiceEnds, TypeOK
<1>3. thread[th] # "ended"
  BY DEF CallbackRaises, ServiceEnds
<1>4. Read' = Read
  BY <1>1 DEF Read
<1>5. /\ pending \in Nat /\ Read \in Nat /\ Cardinality(Handling) \in Nat /\ runs \in Nat
  BY Numbers
<1>6. /\ thread' \in [Threads -> {"polling", "handling", "ended"}]
      /\ Cardinality(Handling') \in Nat
      /\ Cardinality(Handling') <= Cardinality(Handling)
  <2>1. /\ thread' \in [Threads -> {"polling", "handling", "ended"}]
        /\ Cardinality(Handling') \in Nat
        /\ thread[th] = "handling" => Cardinality(Handling') = Cardinality(Handling) - 1
        /\ thread[th] # "handling" => Cardinality(Handling') = Cardinality(Handling)
    BY <1>1, ThreadMoves
  <2>2. Cardinality(Handling') = Cardinality(Handling) - 1
          \/ Cardinality(Handling') = Cardinality(Handling)
    BY <2>1
  <2>3. Cardinality(Handling) \in Nat /\ Cardinality(Handling') \in Nat
    BY <1>5, <2>1
  <2>4. Cardinality(Handling') <= Cardinality(Handling)
    BY <2>2, <2>3
  <2> QED
    BY <2>1, <2>4
<1>7. TypeOK'
  BY <1>1, <1>2, <1>6 DEF TypeOK
<1>8. ReceivesInv' /\ CancelInv'
  BY <1>1, <1>4, <1>5, <1>6 DEF ReceivesInv, CancelInv, Receives
<1>9. SocketInv' /\ BufferInv' /\ OrderInv'
  BY <1>1, <1>4 DEF SocketInv, BufferInv, OrderInv
<1>10. StoppedInv' /\ NothingOutlivesTheScanner'
  BY <1>1, <1>3 DEF StoppedInv, NothingOutlivesTheScanner
<1> QED
  BY <1>7, <1>8, <1>9, <1>10

LEMMA Stutters == ASSUME AInv, UNCHANGED vars PROVE AInv'
<1>1. Read' = Read /\ Handling' = Handling
  BY DEF vars, socketVars, Read, Handling
<1> QED
  BY <1>1 DEF vars, socketVars, callVars, AInv, TypeOK, ReceivesInv, SocketInv, BufferInv,
     OrderInv, CancelInv, StoppedInv, NothingOutlivesTheScanner, Receives

LEMMA AInvStep == AInv /\ [Next]_vars => AInv'
BY RunStep, StopStep, DestroyStep, JoinStep, ArriveStep, CompleteReceiveStep,
   HandleReceiveStep, HandleAbortStep, CallbackReturnsStep, ThreadEndsStep, Stutters
   DEF Next, Service

-----------------------------------------------------------------------------
(* The theorems. *)

\* However the user's calls, the threads and the packets interleave, the
\* receives never outnumber the calls of run().
THEOREM AsyncInvariant == Spec => []AInv
<1>1. Init => AInv
  BY InitAInv
<1>2. AInv /\ [Next]_vars => AInv'
  BY AInvStep
<1> QED
  BY <1>1, <1>2, PTL DEF Spec

\* Every variable keeps its type: no more receives are pending than run() was
\* called, and the buffer holds a packet that has arrived.
THEOREM AsyncTypeCorrect == Spec => []TypeOK
<1>1. AInv => TypeOK
  BY DEF AInv
<1> QED
  BY <1>1, AsyncInvariant, PTL

\* As many threads as there were calls of run() may be in the callback at once,
\* and no more, however many threads run the io_service.
THEOREM AsManyCallbacksAsRuns == Spec => [](Cardinality(Handling) <= runs)
<1>1. AInv => Cardinality(Handling) <= runs
  <2> SUFFICES ASSUME AInv PROVE Cardinality(Handling) <= runs
    OBVIOUS
  <2>1. PICK n, m, c, r \in Nat :
          pending = n /\ Read = m /\ Cardinality(Handling) = c /\ runs = r
    BY Numbers DEF AInv
  <2>2. n + m + c <= r
    BY <2>1 DEF AInv, ReceivesInv, Receives
  <2>3. c <= r
    BY <2>2
  <2> QED
    BY <2>1, <2>3
<1> QED
  BY <1>1, AsyncInvariant, PTL

\* Until run() is called a second time, one thread at most is in the callback.
THEOREM OneCallbackPerRun == Spec => [](runs <= 1 => OneCallbackAtATime)
<1>1. TypeOK => runs \in Nat /\ Cardinality(Handling) \in Nat
  BY Numbers
<1>2. TypeOK /\ Cardinality(Handling) <= runs => (runs <= 1 => OneCallbackAtATime)
  BY <1>1 DEF OneCallbackAtATime
<1> QED
  BY <1>2, AsyncTypeCorrect, AsManyCallbacksAsRuns, PTL

\* Until run() is called a second time, what the callback was given is what has
\* arrived, in order, once each and without a gap: the shared buffer is copied
\* before the next receive writes it.
THEOREM PacketsInOrder == Spec => [](runs <= 1 => DeliveredInOrder)
<1>1. AInv => (runs <= 1 => DeliveredInOrder)
  BY Numbers DEF AInv, OrderInv, DeliveredInOrder
<1> QED
  BY <1>1, AsyncInvariant, PTL

\* If run() is called once only, a stop() that cancels the receive is final:
\* nothing is given to the callback from then on.
THEOREM CancelIsFinal == ASSUME MaxRuns <= 1 PROVE Spec => QuietOnceCancelled
<1>1. AInv /\ [Next]_vars => [cancelled => delivered' = delivered]_vars
  <2> SUFFICES ASSUME AInv, Next, cancelled PROVE delivered' = delivered
    OBVIOUS
  <2>1. runs <= 1
    BY Numbers DEF AInv, TypeOK
  <2>2. Receives = 0
    BY <2>1 DEF AInv, CancelInv
  <2>3. PICK n, m, c \in Nat : pending = n /\ Read = m /\ Cardinality(Handling) = c
    BY Numbers DEF AInv
  <2>4. n + m + c = 0
    BY <2>2, <2>3 DEF Receives
  <2>5. Read = 0
    BY <2>3, <2>4
  <2>6. ASSUME NEW th \in Threads, HandleReceive(th) PROVE FALSE
    <3>1. ready \in Seq({"success", "aborted"}) /\ ready # <<>> /\ Head(ready) = "success"
      BY <2>6 DEF HandleReceive, MayHandle, AInv, TypeOK
    <3>2. Count("success", ready) = Count("success", Tail(ready)) + 1
      BY <3>1, CountTail
    <3>3. Count("success", Tail(ready)) \in Nat
      BY <3>1, HeadTailProperties, CountType
    <3> QED
      BY <2>5, <3>2, <3>3 DEF Read
  <2> QED
    BY <2>6 DEF Next, Service, Run, Stop, Destroy, Join, Arrive, CompleteReceive, HandleAbort,
       CallbackReturns, CallbackRaises, ServiceEnds
<1> QED
  BY <1>1, AsyncInvariant, PTL DEF Spec, QuietOnceCancelled

\* When the destructor of a scanner that owns its thread has returned, the
\* thread has ended and no handler is left, even if stop() was never called.
THEOREM DestructorLeavesNothing == Spec => []NothingOutlivesTheScanner
<1>1. AInv => NothingOutlivesTheScanner
  BY DEF AInv
<1> QED
  BY <1>1, AsyncInvariant, PTL
=============================================================================
