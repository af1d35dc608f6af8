----------------------- MODULE ScanDataStream_proofs -----------------------
(***************************************************************************)
(* Proofs about ScanDataStream, for every set of telegrams, however they   *)
(* are cut, and whatever the network loses, reorders and copies.           *)
(*                                                                         *)
(* First that what is delivered is whole.  Then, on top of that invariant, *)
(* that no telegram free of copies that was read completely is withheld or *)
(* delivered twice, that the merger's map holds exactly what it has not    *)
(* deployed, and that the stream implements TelegramStream.                *)
(***************************************************************************)
EXTENDS ScanDataStream, FiniteSetTheorems, SequenceTheorems, TLAPS

-----------------------------------------------------------------------------
(* Datagrams. *)

\* The fields of a datagram (DatagramHeader) are those of its telegram, and
\* its bytes lie in its telegram.
LEMMA DatagramFields ==
  ASSUME NEW d \in Datagram
  PROVE  /\ d.telegram \in Telegram
         /\ d \in DatagramsOf(d.telegram)
         /\ d.identification = Identification[d.telegram]
         /\ d.total_length = TotalLength[d.telegram]
         /\ d.total_length \in Nat \ {0}
         /\ d.fragment_offset \in Nat
         /\ d.length \in Nat \ {0}
         /\ BytesOf(d) \subseteq 0 .. d.total_length - 1
         /\ d.fragment_offset \in BytesOf(d)
<1>1. PICK t \in Telegram : d \in DatagramsOf(t)
  BY DEF Datagram
<1>2. PICK f \in Fragmentation[t] : d = DatagramOf(t, f)
  BY <1>1 DEF DatagramsOf
<1>3. /\ TotalLength[t] \in Nat \ {0}
      /\ f.offset \in Nat
      /\ f.length \in Nat \ {0}
      /\ f.offset + f.length <= TotalLength[t]
  BY DatagramsAssumption
<1>4. d.telegram = t
  BY <1>2 DEF DatagramOf
<1> QED
  BY <1>1, <1>2, <1>3, <1>4 DEF DatagramOf, BytesOf

\* Different datagrams of one telegram have no byte in common.
LEMMA DatagramsDisjoint ==
  ASSUME NEW d \in Datagram, NEW e \in Datagram,
         d.telegram = e.telegram, d # e
  PROVE  BytesOf(d) \cap BytesOf(e) = {}
<1> DEFINE t == d.telegram
<1>1. t \in Telegram /\ d \in DatagramsOf(t) /\ e \in DatagramsOf(t)
  BY DatagramFields
<1>2. PICK f \in Fragmentation[t] : d = DatagramOf(t, f)
  BY <1>1 DEF DatagramsOf
<1>3. PICK g \in Fragmentation[t] : e = DatagramOf(t, g)
  BY <1>1 DEF DatagramsOf
<1>4. f # g
  BY <1>2, <1>3
<1>5. /\ f.offset \in Nat /\ f.length \in Nat
      /\ g.offset \in Nat /\ g.length \in Nat
      /\ \/ f.offset + f.length <= g.offset
         \/ g.offset + g.length <= f.offset
  BY <1>1, <1>4, DatagramsAssumption
<1> QED
  BY <1>2, <1>3, <1>5 DEF DatagramOf, BytesOf

-----------------------------------------------------------------------------
(* Vectors of datagrams. *)

\* vec holds datagrams of telegram t only, each once.
OfOneTelegram(vec, t) ==
  /\ vec \in Seq(Datagram)
  /\ \A i \in DOMAIN vec : vec[i].telegram = t
  /\ \A i, j \in DOMAIN vec : i # j => vec[i] # vec[j]

\* The bytes of a vector: CurrentLength counts these pairs.
BytePairs(vec) == UNION {{i} \X BytesOf(vec[i]) : i \in DOMAIN vec}

BytePositions(vec) == [x \in BytePairs(vec) |-> x[2]]

LEMMA BytePairsFacts ==
  ASSUME NEW vec
  PROVE  \A x \in BytePairs(vec) :
           x[1] \in DOMAIN vec /\ x[2] \in BytesOf(vec[x[1]]) /\ x = <<x[1], x[2]>>
BY DEF BytePairs

\* Different datagrams of one telegram never carry the same byte twice.
LEMMA BytePositionsInjective ==
  ASSUME NEW t \in Telegram, NEW vec, OfOneTelegram(vec, t)
  PROVE  BytePositions(vec) \in Injection(BytePairs(vec), 0 .. TotalLength[t] - 1)
<1> DEFINE S == BytePairs(vec)
<1>1. \A i \in DOMAIN vec : vec[i] \in Datagram /\ vec[i].telegram = t
  BY DEF OfOneTelegram
<1>2. \A i \in DOMAIN vec : BytesOf(vec[i]) \subseteq 0 .. TotalLength[t] - 1
  BY <1>1, DatagramFields
<1>3. BytePositions(vec) \in [S -> 0 .. TotalLength[t] - 1]
  BY <1>2, BytePairsFacts DEF BytePositions
<1>4. ASSUME NEW x \in S, NEW y \in S, x[2] = y[2]
      PROVE  x = y
  <2>1. x[1] \in DOMAIN vec /\ y[1] \in DOMAIN vec
    BY BytePairsFacts
  <2>2. BytesOf(vec[x[1]]) \cap BytesOf(vec[y[1]]) # {}
    BY <1>4, BytePairsFacts
  <2>3. vec[x[1]] = vec[y[1]]
    BY <1>1, <2>1, <2>2, DatagramsDisjoint
  <2>4. x[1] = y[1]
    BY <2>1, <2>3 DEF OfOneTelegram
  <2> QED
    BY <1>4, <2>4, BytePairsFacts
<1> QED
  BY <1>3, <1>4 DEF Injection, IsInjective, BytePositions

LEMMA TelegramPositions ==
  ASSUME NEW t \in Telegram
  PROVE  /\ IsFiniteSet(0 .. TotalLength[t] - 1)
         /\ Cardinality(0 .. TotalLength[t] - 1) = TotalLength[t]
<1>1. TotalLength[t] \in Nat \ {0}
  BY DatagramsAssumption
<1>2. 0 \in Int /\ TotalLength[t] - 1 \in Int /\ ~ 0 > TotalLength[t] - 1
  BY <1>1
<1>3. /\ IsFiniteSet(0 .. TotalLength[t] - 1)
      /\ Cardinality(0 .. TotalLength[t] - 1) = TotalLength[t] - 1 - 0 + 1
  BY <1>2, FS_Interval
<1> QED
  BY <1>1, <1>3

\* If the lengths of different datagrams of one telegram add up to its length,
\* none of its bytes is missing: what checkIfComplete relies on.
LEMMA CompleteVector ==
  ASSUME NEW t \in Telegram, NEW vec,
         OfOneTelegram(vec, t), CurrentLength(vec) = TotalLength[t]
  PROVE  UNION {BytesOf(vec[i]) : i \in DOMAIN vec} = 0 .. TotalLength[t] - 1
<1> DEFINE T == 0 .. TotalLength[t] - 1
<1>1. \A i \in DOMAIN vec : BytesOf(vec[i]) \subseteq T
  BY DatagramFields DEF OfOneTelegram
<1>2. Cardinality(BytePairs(vec)) = Cardinality(T)
  BY TelegramPositions DEF CurrentLength, BytePairs
<1>3. BytePositions(vec) \in Surjection(BytePairs(vec), T)
  BY <1>2, BytePositionsInjective, TelegramPositions, FS_Injection
<1>4. \A b \in T : \E x \in BytePairs(vec) : x[2] = b
  BY <1>3 DEF Surjection, BytePositions
<1>5. \A b \in T : \E i \in DOMAIN vec : b \in BytesOf(vec[i])
  BY <1>4, BytePairsFacts
<1> QED
  BY <1>1, <1>5

\* Sorting permutes a vector and puts offsets in increasing order.
LEMMA SortedVectorsFacts ==
  ASSUME NEW vec \in Seq(Datagram), NEW s \in SortedVectors(vec)
  PROVE  /\ s \in Seq(Datagram)
         /\ DOMAIN s = DOMAIN vec
         /\ \A i, j \in DOMAIN s : i < j => s[i].fragment_offset <= s[j].fragment_offset
         /\ \E p \in Bijection(DOMAIN vec, DOMAIN vec) : s = [i \in DOMAIN vec |-> vec[p[i]]]
<1> DEFINE D == DOMAIN vec
<1>1. PICK p \in [D -> D] :
        /\ s = [i \in D |-> vec[p[i]]]
        /\ \A i, j \in D : i # j => p[i] # p[j]
        /\ \A i, j \in D : i < j => vec[p[i]].fragment_offset <= vec[p[j]].fragment_offset
  BY DEF SortedVectors
<1>2. Len(vec) \in Nat /\ D = 1 .. Len(vec) /\ \A i \in D : vec[i] \in Datagram
  OBVIOUS
<1>3. IsFiniteSet(D)
  <2>1. 1 \in Int /\ Len(vec) \in Int
    BY <1>2
  <2> QED
    BY <1>2, <2>1, FS_Interval
<1>4. p \in Injection(D, D)
  BY <1>1 DEF Injection, IsInjective
<1>5. p \in Surjection(D, D)
  BY <1>3, <1>4, FS_Injection
<1>6. p \in Bijection(D, D)
  BY <1>4, <1>5 DEF Bijection
<1>7. s \in [1 .. Len(vec) -> Datagram]
  BY <1>1, <1>2
<1>8. s \in Seq(Datagram)
  BY <1>2, <1>7, SeqDef
<1> QED
  BY <1>1, <1>6, <1>8

\* What deployPacketIfComplete deploys, when the vector holds different
\* datagrams of one telegram, is that telegram.
LEMMA DeployedIsTelegram ==
  ASSUME NEW t \in Telegram, NEW vec,
         OfOneTelegram(vec, t), CurrentLength(vec) = TotalLength[t],
         NEW s \in SortedVectors(vec)
  PROVE  IsTelegram(RemoveHeader(s), t)
<1> DEFINE D == DOMAIN vec
           r == RemoveHeader(s)
<1>1. vec \in Seq(Datagram)
  BY DEF OfOneTelegram
<1>2. /\ s \in Seq(Datagram) /\ DOMAIN s = D
      /\ \A i, j \in D : i < j => s[i].fragment_offset <= s[j].fragment_offset
  BY <1>1, SortedVectorsFacts
<1>3. PICK p \in Bijection(D, D) : s = [i \in D |-> vec[p[i]]]
  BY <1>1, SortedVectorsFacts
<1>4. /\ \A i \in D : p[i] \in D
      /\ \A i, j \in D : i # j => p[i] # p[j]
      /\ \A k \in D : \E i \in D : p[i] = k
  BY <1>3 DEF Bijection, Injection, IsInjective, Surjection
<1>5. /\ DOMAIN r = D
      /\ \A i \in D : r[i].telegram = s[i].telegram /\ r[i].bytes = BytesOf(s[i])
  BY <1>2 DEF RemoveHeader, Piece
<1>6. \A i \in D : s[i] \in Datagram /\ s[i].telegram = t
  <2>1. \A k \in D : vec[k] \in Datagram /\ vec[k].telegram = t
    BY <1>1 DEF OfOneTelegram
  <2> QED
    BY <1>3, <1>4, <2>1
<1>7. \A i \in D : r[i].telegram = t
  BY <1>5, <1>6
<1>8. UNION {r[i].bytes : i \in D} = 0 .. TotalLength[t] - 1
  <2>1. UNION {r[i].bytes : i \in D} = UNION {BytesOf(vec[k]) : k \in D}
    <3>1. \A i \in D : r[i].bytes = BytesOf(vec[p[i]])
      BY <1>3, <1>5
    <3> HIDE DEF r
    <3>2. \A k \in D : \E i \in D : r[i].bytes = BytesOf(vec[k])
      <4> TAKE k \in D
      <4>1. PICK i \in D : p[i] = k
        BY <1>4
      <4> QED
        BY <3>1, <4>1
    <3>3. \A i \in D : \E k \in D : r[i].bytes = BytesOf(vec[k])
      BY <1>4, <3>1
    <3> QED
      BY <3>2, <3>3
  <2> QED
    BY <2>1, CompleteVector
<1>9. ASSUME NEW i \in D, NEW j \in D, i < j, NEW b \in r[i].bytes, NEW c \in r[j].bytes
      PROVE  b < c
  <2>1. i \in Nat /\ j \in Nat /\ i # j
    BY <1>1, <1>9
  <2>2. s[i] # s[j]
    BY <1>3, <1>4, <2>1 DEF OfOneTelegram
  <2>3. BytesOf(s[i]) \cap BytesOf(s[j]) = {}
    BY <1>6, <2>2, DatagramsDisjoint
  <2>4. s[i].fragment_offset <= s[j].fragment_offset
    BY <1>2, <1>9
  <2>5. /\ s[i].fragment_offset \in Nat /\ s[i].length \in Nat
        /\ s[j].fragment_offset \in Nat /\ s[j].length \in Nat
        /\ s[j].fragment_offset \in BytesOf(s[j])
    BY <1>6, DatagramFields
  <2>6. b \in BytesOf(s[i]) /\ c \in BytesOf(s[j])
    BY <1>5, <1>9
  <2>7. s[j].fragment_offset \notin BytesOf(s[i])
    BY <2>3, <2>5
  <2> QED
    BY <2>4, <2>5, <2>6, <2>7 DEF BytesOf
<1> QED
  BY <1>5, <1>7, <1>8, <1>9 DEF IsTelegram

-----------------------------------------------------------------------------
(* Types, under no assumption about the network or the identifications.     *)

\* Only a datagram that was duplicated is in flight twice.
CopiesInv == \A d \in Datagram : d \notin duplicated => network[d] <= 1

TypeInv == TypeOK /\ CopiesInv

\* Adding any datagram keeps the merger's state well typed.
LEMMA AddUDPPacketTypes ==
  ASSUME MergerTypeOK, NEW d \in Datagram, AddUDPPacket(d)
  PROVE  MergerTypeOK'
<1> DEFINE map == m_parsed_packet_buffer_map
           id  == d.identification
           new == AddToMap(map, d)
           old == Collected(map, id)
<1>1. id \in {Identification[t] : t \in Telegram}
  BY DatagramFields
<1>2. old \in Seq(Datagram)
  BY EmptySeq DEF MergerTypeOK, Collected
<1>3. Append(old, d) \in Seq(Datagram) \ {<<>>}
  <2> HIDE DEF old
  <2>1. Append(old, d) \in Seq(Datagram) /\ Len(Append(old, d)) = Len(old) + 1
    BY <1>2
  <2>2. Len(old) + 1 # 0
    BY <1>2
  <2> QED
    BY <2>1, <2>2
<1>4. /\ DOMAIN new = DOMAIN map \cup {id}
      /\ \A i \in DOMAIN map : i # id => new[i] = map[i]
      /\ new[id] = Append(old, d)
  BY DEF AddToMap
<1>5. \A i \in DOMAIN new :
        /\ i \in {Identification[t] : t \in Telegram}
        /\ new[i] \in Seq(Datagram) \ {<<>>}
  <2> TAKE i \in DOMAIN new
  <2>1. CASE i = id
    BY <1>1, <1>3, <1>4, <2>1
  <2>2. CASE i # id
    BY <1>4, <2>2 DEF MergerTypeOK
  <2> QED
    BY <2>1, <2>2
<1>6. \A i \in DOMAIN map' : i \in DOMAIN new /\ map'[i] = new[i]
  BY DEF AddUDPPacket, Erase
<1>7. /\ m_is_complete' \in BOOLEAN
      /\ m_deployed_packet_buffer' \in Seq({Piece(e) : e \in Datagram})
  <2>1. CASE CheckIfComplete(new[id], d)
    <3>1. PICK s \in SortedVectors(new[id]) : m_deployed_packet_buffer' = RemoveHeader(s)
      BY <2>1 DEF AddUDPPacket
    <3>2. s \in Seq(Datagram)
      BY <1>3, <1>4, SortedVectorsFacts
    <3>3. RemoveHeader(s) \in Seq({Piece(e) : e \in Datagram})
      BY <3>2, IsASeq DEF RemoveHeader
    <3> QED
      BY <2>1, <3>1, <3>3 DEF AddUDPPacket
  <2>2. CASE ~ CheckIfComplete(new[id], d)
    BY <2>2 DEF AddUDPPacket, MergerTypeOK
  <2> QED
    BY <2>1, <2>2
<1> QED
  BY <1>5, <1>6, <1>7 DEF MergerTypeOK

LEMMA InitTypeInv == Init => TypeInv
<1> SUFFICES ASSUME Init PROVE TypeInv
  OBVIOUS
<1> USE DEF Init, MergerInit
<1>1. /\ m_deployed_packet_buffer \in Seq({Piece(d) : d \in Datagram})
      /\ delivered \in Seq(Seq({Piece(d) : d \in Datagram}))
  BY EmptySeq
<1>2. DOMAIN m_parsed_packet_buffer_map = {}
  OBVIOUS
<1>3. MergerTypeOK
  BY <1>1, <1>2 DEF MergerTypeOK
<1>4. network \in [Datagram -> 0 .. 2] /\ sent = {} /\ duplicated = {} /\ received = {}
  OBVIOUS
<1> QED
  BY <1>1, <1>3, <1>4 DEF TypeInv, TypeOK, CopiesInv

LEMMA NextPreservesTypeInv == TypeInv /\ [Next]_vars => TypeInv'
<1> SUFFICES ASSUME TypeInv, [Next]_vars
             PROVE  TypeInv'
  OBVIOUS
<1> USE DEF mergerVars
<1>1. ASSUME NEW t \in Telegram, SendTelegram(t)
      PROVE  TypeInv'
  BY <1>1 DEF SendTelegram, TypeInv, TypeOK, MergerTypeOK, CopiesInv
<1>2. ASSUME NEW d \in Datagram, network[d] > 0,
             network' = [network EXCEPT ![d] = @ - 1],
             duplicated' = duplicated
      PROVE  network' \in [Datagram -> 0 .. 2] /\ CopiesInv'
  <2>1. /\ network \in [Datagram -> 0 .. 2]
        /\ network[d] - 1 \in 0 .. 2
    BY <1>2 DEF TypeInv, TypeOK
  <2>2. \A e \in Datagram : network'[e] <= network[e]
    BY <1>2, <2>1
  <2> QED
    BY <1>2, <2>1, <2>2 DEF TypeInv, CopiesInv
<1>3. ASSUME NEW d \in Datagram, LoseDatagram(d)
      PROVE  TypeInv'
  BY <1>2, <1>3 DEF LoseDatagram, TypeInv, TypeOK, MergerTypeOK
<1>4. ASSUME NEW d \in Datagram, DuplicateDatagram(d)
      PROVE  TypeInv'
  <2>1. /\ network \in [Datagram -> 0 .. 2]
        /\ network[d] + 1 \in 0 .. 2
        /\ network' = [network EXCEPT ![d] = @ + 1]
        /\ duplicated' = duplicated \cup {d}
    BY <1>4 DEF DuplicateDatagram, TypeInv, TypeOK, CopiesInv
  <2>2. network' \in [Datagram -> 0 .. 2] /\ CopiesInv'
    BY <2>1 DEF TypeInv, CopiesInv
  <2> QED
    BY <1>4, <2>1, <2>2 DEF DuplicateDatagram, TypeInv, TypeOK, MergerTypeOK
<1>5. ASSUME NEW d \in Datagram, ReceiveDatagram(d)
      PROVE  TypeInv'
  <2>1. MergerTypeOK'
    BY <1>5, AddUDPPacketTypes DEF ReceiveDatagram, TypeInv, TypeOK
  <2> QED
    BY <1>2, <1>5, <2>1 DEF ReceiveDatagram, TypeInv, TypeOK
<1>6. ASSUME DeliverData
      PROVE  TypeInv'
  <2>1. /\ delivered \in Seq(Seq({Piece(d) : d \in Datagram}))
        /\ m_deployed_packet_buffer \in Seq({Piece(d) : d \in Datagram})
    BY DEF TypeInv, TypeOK, MergerTypeOK
  <2>2. delivered' \in Seq(Seq({Piece(d) : d \in Datagram}))
    BY <1>6, <2>1 DEF DeliverData
  <2> QED
    BY <1>6, <2>2
    DEF DeliverData, GetDeployedPacketBuffer, TypeInv, TypeOK, MergerTypeOK, CopiesInv
<1>7. ASSUME UNCHANGED vars
      PROVE  TypeInv'
  BY <1>7 DEF vars, TypeInv, TypeOK, MergerTypeOK, CopiesInv
<1> QED
  BY <1>1, <1>3, <1>4, <1>5, <1>6, <1>7 DEF Next

\* Every variable keeps its type, whatever the sensor sends and the network
\* does to it; in particular the merger's map never holds an empty vector.
THEOREM TypeCorrect == Spec => []TypeOK
<1>1. Init => TypeInv
  BY InitTypeInv
<1>2. TypeInv /\ [Next]_vars => TypeInv'
  BY NextPreservesTypeInv
<1>3. TypeInv => TypeOK
  BY DEF TypeInv
<1> QED
  BY <1>1, <1>2, <1>3, PTL DEF Spec

-----------------------------------------------------------------------------
(* The invariant, for a sensor that does not use an identification again.  *)
(* What the network has copied is excepted, datagram by datagram.          *)

\* A datagram that was not copied is in one place: not sent, in flight, read,
\* or lost.
NetworkInv ==
  \A d \in Datagram :
    /\ network[d] > 0 \/ d \in received \/ d \in duplicated => d.telegram \in sent
    /\ d \in received /\ network[d] > 0 => d \in duplicated

\* Every vector of the map holds datagrams that were read, of the telegram
\* that has its identification, and twice only what was copied.
MapInv ==
  \A id \in DOMAIN m_parsed_packet_buffer_map :
    LET vec == m_parsed_packet_buffer_map[id]
    IN /\ \A i \in DOMAIN vec : vec[i].identification = id /\ vec[i] \in received
       /\ \A i, j \in DOMAIN vec : i # j /\ vec[i] = vec[j] => vec[i] \in duplicated

\* A buffer is a whole telegram, or pieces of one that a copy has hit.
Deployable(buffer) ==
  \/ Whole(buffer)
  \/ \E t \in Telegram :
       /\ Damaged(t)
       /\ buffer # <<>> /\ \A k \in DOMAIN buffer : buffer[k].telegram = t

BufferInv ==
  /\ m_is_complete => Deployable(m_deployed_packet_buffer)
  /\ \A i \in DOMAIN delivered : Deployable(delivered[i])

IInv == TypeInv /\ NetworkInv /\ MapInv /\ BufferInv

LEMMA InitIInv == Init => IInv
<1> SUFFICES ASSUME Init PROVE IInv
  OBVIOUS
<1>1. TypeInv
  BY InitTypeInv
<1>2. NetworkInv /\ MapInv /\ BufferInv
  BY DEF Init, MergerInit, NetworkInv, MapInv, BufferInv
<1> QED
  BY <1>1, <1>2 DEF IInv

\* The vector that addToMap extends with datagram d, of telegram t.
LEMMA ExtendedVector ==
  ASSUME IInv, UniqueIdentification,
         NEW d \in Datagram, network[d] > 0
  PROVE  LET vec == AddToMap(m_parsed_packet_buffer_map, d)[d.identification]
         IN /\ vec \in Seq(Datagram) /\ vec # <<>>
            /\ \A i \in DOMAIN vec :
                 vec[i].telegram = d.telegram /\ vec[i] \in received \cup {d}
            /\ \A i, j \in DOMAIN vec : i # j /\ vec[i] = vec[j] => vec[i] \in duplicated
            /\ ~ Damaged(d.telegram) => OfOneTelegram(vec, d.telegram)
<1> DEFINE map == m_parsed_packet_buffer_map
           id  == d.identification
           old == Collected(map, id)
           vec == Append(old, d)
           t   == d.telegram
<1>1. AddToMap(map, d)[id] = vec
  BY DEF AddToMap
<1>2. t \in Telegram /\ id = Identification[t]
  BY DatagramFields
<1>3. /\ old \in Seq(Datagram)
      /\ \A i \in DOMAIN old : old[i].identification = id /\ old[i] \in received
      /\ \A i, j \in DOMAIN old : i # j /\ old[i] = old[j] => old[i] \in duplicated
  <2>1. CASE id \in DOMAIN map
    BY <2>1 DEF IInv, TypeInv, TypeOK, MergerTypeOK, MapInv, Collected
  <2>2. CASE id \notin DOMAIN map
    BY <2>2, EmptySeq DEF Collected
  <2> QED
    BY <2>1, <2>2
<1>4. \A i \in DOMAIN old : old[i].telegram = t
  <2> TAKE i \in DOMAIN old
  <2>1. old[i] \in Datagram
    BY <1>3
  <2>2. /\ old[i].telegram \in Telegram
        /\ Identification[old[i].telegram] = Identification[t]
    BY <1>2, <1>3, <2>1, DatagramFields
  <2> QED
    BY <1>2, <2>2 DEF UniqueIdentification
<1> HIDE DEF old
<1>5. /\ vec \in Seq(Datagram) /\ vec # <<>>
      /\ DOMAIN vec = 1 .. Len(old) + 1 /\ DOMAIN old = 1 .. Len(old)
      /\ Len(old) \in Nat
      /\ \A i \in DOMAIN old : vec[i] = old[i]
      /\ vec[Len(old) + 1] = d
  BY <1>3
<1>6. \A i \in DOMAIN vec : i \in DOMAIN old \/ i = Len(old) + 1
  BY <1>5
<1>7. \A i \in DOMAIN vec : vec[i] \in received \cup {d} /\ vec[i].telegram = t
  BY <1>3, <1>4, <1>5, <1>6
<1>8. d \in received => d \in duplicated
  BY DEF IInv, NetworkInv
<1>9. \A i, j \in DOMAIN vec : i # j /\ vec[i] = vec[j] => vec[i] \in duplicated
  <2> SUFFICES ASSUME NEW i \in DOMAIN vec, NEW j \in DOMAIN vec, i # j, vec[i] = vec[j]
               PROVE  vec[i] \in duplicated
    OBVIOUS
  <2>1. CASE i \in DOMAIN old /\ j \in DOMAIN old
    BY <1>3, <1>5, <2>1
  <2>2. CASE i \in DOMAIN old /\ j = Len(old) + 1
    BY <1>3, <1>5, <1>8, <2>2
  <2>3. CASE i = Len(old) + 1 /\ j \in DOMAIN old
    BY <1>3, <1>5, <1>8, <2>3
  <2> QED
    BY <1>6, <2>1, <2>2, <2>3
<1>10. ~ Damaged(t) => OfOneTelegram(vec, t)
  <2> SUFFICES ASSUME ~ Damaged(t) PROVE OfOneTelegram(vec, t)
    OBVIOUS
  <2>1. \A i \in DOMAIN vec : vec[i] \in DatagramsOf(t)
    <3> TAKE i \in DOMAIN vec
    <3>1. vec[i] \in Datagram
      BY <1>5
    <3> QED
      BY <1>7, <3>1, DatagramFields
  <2>2. \A i \in DOMAIN vec : vec[i] \notin duplicated
    BY <2>1 DEF Damaged
  <2> QED
    BY <1>5, <1>7, <1>9, <2>2 DEF OfOneTelegram
<1> QED
  BY <1>1, <1>5, <1>7, <1>9, <1>10

LEMMA ReceivePreservesIInv ==
  ASSUME IInv, UniqueIdentification,
         NEW d \in Datagram, ReceiveDatagram(d)
  PROVE  /\ IInv'
         /\ m_is_complete' =>
              /\ m_deployed_packet_buffer' # <<>>
              /\ \A k \in DOMAIN m_deployed_packet_buffer' :
                   m_deployed_packet_buffer'[k].telegram = d.telegram
<1> DEFINE map == m_parsed_packet_buffer_map
           id  == d.identification
           new == AddToMap(map, d)
           vec == new[id]
           t   == d.telegram
<1>1. /\ t \in Telegram /\ id = Identification[t]
      /\ d.total_length = TotalLength[t]
  BY DatagramFields
<1>2. network[d] > 0 /\ t \in sent
  BY DEF IInv, NetworkInv, ReceiveDatagram
<1>3. /\ vec \in Seq(Datagram) /\ vec # <<>>
      /\ \A i \in DOMAIN vec : vec[i].telegram = t /\ vec[i] \in received \cup {d}
      /\ \A i, j \in DOMAIN vec : i # j /\ vec[i] = vec[j] => vec[i] \in duplicated
      /\ ~ Damaged(t) => OfOneTelegram(vec, t)
  BY <1>2, ExtendedVector
<1>4. /\ DOMAIN new = DOMAIN map \cup {id}
      /\ \A i \in DOMAIN map : i # id => new[i] = map[i]
  BY DEF AddToMap
<1>5. /\ network' = [network EXCEPT ![d] = @ - 1] /\ received' = received \cup {d}
      /\ sent' = sent /\ duplicated' = duplicated /\ delivered' = delivered
  BY DEF ReceiveDatagram
<1>6. TypeInv'
  BY NextPreservesTypeInv DEF IInv, Next
<1>7. NetworkInv'
  <2>1. network \in [Datagram -> 0 .. 2] /\ (d \notin duplicated => network[d] <= 1)
    BY DEF IInv, TypeInv, TypeOK, CopiesInv
  <2>2. network'[d] = network[d] - 1 /\ \A e \in Datagram : e # d => network'[e] = network[e]
    BY <1>5, <2>1
  <2>3. network'[d] > 0 => d \in duplicated
    BY <2>1, <2>2
  <2> SUFFICES ASSUME NEW e \in Datagram
               PROVE  /\ network'[e] > 0 \/ e \in received' \/ e \in duplicated =>
                           e.telegram \in sent
                      /\ e \in received' /\ network'[e] > 0 => e \in duplicated
    BY <1>5 DEF NetworkInv
  <2>4. CASE e = d
    BY <1>2, <2>3, <2>4
  <2>5. CASE e # d
    BY <1>5, <2>2, <2>5 DEF IInv, NetworkInv
  <2> QED
    BY <2>4, <2>5
<1>8. ASSUME NEW i \in DOMAIN new
      PROVE  /\ \A k \in DOMAIN new[i] : new[i][k].identification = i /\ new[i][k] \in received'
             /\ \A k, l \in DOMAIN new[i] :
                  k # l /\ new[i][k] = new[i][l] => new[i][k] \in duplicated'
  <2>1. CASE i = id
    <3>1. \A k \in DOMAIN vec : vec[k].identification = id
      <4> TAKE k \in DOMAIN vec
      <4>1. vec[k] \in Datagram /\ vec[k].telegram = t
        BY <1>3
      <4> QED
        BY <1>1, <4>1, DatagramFields
    <3> QED
      BY <1>3, <1>5, <2>1, <3>1
  <2>2. CASE i # id
    <3>1. i \in DOMAIN map /\ new[i] = map[i]
      BY <1>4, <2>2
    <3> QED
      BY <1>5, <3>1 DEF IInv, MapInv
  <2> QED
    BY <2>1, <2>2
<1>9. \A i \in DOMAIN map' : i \in DOMAIN new /\ map'[i] = new[i]
  BY DEF ReceiveDatagram, AddUDPPacket, Erase
<1>10. MapInv'
  BY <1>8, <1>9 DEF MapInv
<1>11. m_is_complete' =>
         /\ m_deployed_packet_buffer' # <<>>
         /\ \A k \in DOMAIN m_deployed_packet_buffer' :
              m_deployed_packet_buffer'[k].telegram = t
         /\ ~ Damaged(t) => IsTelegram(m_deployed_packet_buffer', t)
  <2> SUFFICES ASSUME m_is_complete'
               PROVE  /\ m_deployed_packet_buffer' # <<>>
                      /\ \A k \in DOMAIN m_deployed_packet_buffer' :
                           m_deployed_packet_buffer'[k].telegram = t
                      /\ ~ Damaged(t) => IsTelegram(m_deployed_packet_buffer', t)
    OBVIOUS
  <2>1. CheckIfComplete(vec, d)
    BY DEF ReceiveDatagram, AddUDPPacket
  <2>2. PICK s \in SortedVectors(vec) : m_deployed_packet_buffer' = RemoveHeader(s)
    BY <2>1 DEF ReceiveDatagram, AddUDPPacket
  <2>3. s \in Seq(Datagram) /\ DOMAIN s = DOMAIN vec
    BY <1>3, SortedVectorsFacts
  <2>4. PICK p \in Bijection(DOMAIN vec, DOMAIN vec) : s = [i \in DOMAIN vec |-> vec[p[i]]]
    BY <1>3, SortedVectorsFacts
  <2>5. \A k \in DOMAIN vec : s[k].telegram = t
    BY <1>3, <2>4 DEF Bijection, Injection
  <2>6. /\ DOMAIN RemoveHeader(s) = DOMAIN vec
        /\ \A k \in DOMAIN vec : RemoveHeader(s)[k].telegram = t
    BY <2>3, <2>5 DEF RemoveHeader, Piece
  <2>7. DOMAIN vec # {}
    BY <1>3
  <2>8. RemoveHeader(s) # <<>>
    BY <2>6, <2>7
  <2>9. ~ Damaged(t) => IsTelegram(RemoveHeader(s), t)
    BY <1>1, <1>3, <2>1, DeployedIsTelegram DEF CheckIfComplete
  <2> QED
    BY <2>2, <2>6, <2>8, <2>9
<1>12. BufferInv'
  <2>1. m_is_complete' => Deployable(m_deployed_packet_buffer')
    BY <1>1, <1>11 DEF Deployable, Whole
  <2> QED
    BY <1>5, <2>1 DEF IInv, BufferInv, Deployable, Whole, Damaged
<1> QED
  BY <1>6, <1>7, <1>10, <1>11, <1>12 DEF IInv

\* Every step preserves the invariant; what is deployable stays so when the
\* network copies more.
LEMMA NextPreservesIInv ==
  ASSUME UniqueIdentification, IInv, [Next]_vars
  PROVE  IInv'
<1> USE DEF mergerVars
<1>1. TypeInv'
  BY NextPreservesTypeInv DEF IInv
<1>2. ASSUME NEW t \in Telegram, SendTelegram(t)
      PROVE  IInv'
  <2>1. \A d \in Datagram : d \in DatagramsOf(t) => d.telegram = t
    BY DEF DatagramsOf, DatagramOf
  <2>2. NetworkInv'
    BY <1>2, <2>1 DEF SendTelegram, IInv, NetworkInv
  <2> QED
    BY <1>1, <1>2, <2>2
    DEF SendTelegram, IInv, MapInv, BufferInv, Deployable, Whole, Damaged
<1>3. ASSUME NEW d \in Datagram, LoseDatagram(d)
      PROVE  IInv'
  <2>1. \A e \in Datagram : network'[e] > 0 => network[e] > 0
    BY <1>3 DEF LoseDatagram, IInv, TypeInv, TypeOK
  <2>2. NetworkInv'
    BY <1>3, <2>1 DEF LoseDatagram, IInv, NetworkInv
  <2> QED
    BY <1>1, <1>3, <2>2
    DEF LoseDatagram, IInv, MapInv, BufferInv, Deployable, Whole, Damaged
<1>4. ASSUME NEW d \in Datagram, DuplicateDatagram(d)
      PROVE  IInv'
  <2>1. /\ duplicated' = duplicated \cup {d} /\ network[d] > 0
        /\ UNCHANGED <<m_is_complete, m_deployed_packet_buffer, m_parsed_packet_buffer_map,
                       sent, received, delivered>>
    BY <1>4 DEF DuplicateDatagram
  <2>2. \A e \in Datagram : e # d => network'[e] = network[e]
    BY <1>4 DEF DuplicateDatagram, IInv, TypeInv, TypeOK
  <2>3. NetworkInv'
    BY <2>1, <2>2 DEF IInv, NetworkInv
  <2>4. MapInv'
    BY <2>1 DEF IInv, MapInv
  <2>5. \A t \in Telegram : Damaged(t) => Damaged(t)'
    BY <2>1 DEF Damaged
  <2>6. BufferInv'
    BY <2>1, <2>5 DEF IInv, BufferInv, Deployable, Whole
  <2> QED
    BY <1>1, <2>3, <2>4, <2>6 DEF IInv
<1>5. ASSUME NEW d \in Datagram, ReceiveDatagram(d)
      PROVE  IInv'
  BY <1>5, ReceivePreservesIInv
<1>6. ASSUME DeliverData
      PROVE  IInv'
  <2>1. Deployable(m_deployed_packet_buffer)
    BY <1>6 DEF DeliverData, IInv, BufferInv
  <2>2. delivered \in Seq(Seq({Piece(d) : d \in Datagram}))
        /\ m_deployed_packet_buffer \in Seq({Piece(d) : d \in Datagram})
    BY DEF IInv, TypeInv, TypeOK, MergerTypeOK
  <2>3. \A i \in DOMAIN delivered' :
          \/ i \in DOMAIN delivered /\ delivered'[i] = delivered[i]
          \/ delivered'[i] = m_deployed_packet_buffer
    BY <1>6, <2>2 DEF DeliverData
  <2>4. /\ ~ m_is_complete'
        /\ UNCHANGED <<m_parsed_packet_buffer_map, sent, network, received, duplicated>>
    BY <1>6 DEF DeliverData, GetDeployedPacketBuffer
  <2>5. \A i \in DOMAIN delivered' : Deployable(delivered'[i])
    BY <2>1, <2>3 DEF IInv, BufferInv
  <2>6. BufferInv'
    BY <2>4, <2>5 DEF BufferInv, Deployable, Whole, Damaged
  <2> QED
    BY <1>1, <2>4, <2>6 DEF IInv, NetworkInv, MapInv
<1>7. ASSUME UNCHANGED vars
      PROVE  IInv'
  BY <1>1, <1>7
  DEF vars, IInv, NetworkInv, MapInv, BufferInv, Deployable, Whole, Damaged
<1> QED
  BY <1>2, <1>3, <1>4, <1>5, <1>6, <1>7 DEF Next

-----------------------------------------------------------------------------
(* Theorems. *)

LEMMA StreamInvariant ==
  ASSUME UniqueIdentification
  PROVE  Spec => []IInv
<1>1. Init => IInv
  BY InitIInv
<1>2. IInv /\ [Next]_vars => IInv'
  BY NextPreservesIInv
<1> QED
  BY <1>1, <1>2, PTL DEF Spec

\* If the sensor uses no identification for two telegrams, loss, reordering and
\* duplication of any kind never make the merger deploy, or the user be handed,
\* anything but one whole telegram or pieces of a telegram that was duplicated.
THEOREM OnlyWholeTelegramsAreDelivered ==
  ASSUME UniqueIdentification
  PROVE  Spec => []OnlyWholeTelegrams
<1>1. IInv => OnlyWholeTelegrams
  BY DEF IInv, BufferInv, Deployable, OnlyWholeTelegrams
<1> QED
  BY <1>1, StreamInvariant, PTL

\* Where the network duplicates nothing, only whole telegrams are left: the
\* merger keeps what addUDPPacket promises.
THEOREM EveryBufferIsATelegram ==
  ASSUME UniqueIdentification, MayDuplicate = {}
  PROVE  Spec => []EveryBufferIsWhole
<1>1. Init => duplicated = {}
  BY DEF Init
<1>2. duplicated = {} /\ [Next]_vars => (duplicated = {})'
  BY DEF Next, vars, SendTelegram, LoseDatagram, DuplicateDatagram, ReceiveDatagram,
         DeliverData
<1>3. IInv /\ duplicated = {} => EveryBufferIsWhole
  BY DEF IInv, BufferInv, Deployable, Damaged, EveryBufferIsWhole
<1> QED
  BY <1>1, <1>2, <1>3, StreamInvariant, PTL DEF Spec

-----------------------------------------------------------------------------
(* Delivery. *)

\* When the vector is complete it holds every datagram of the telegram.
LEMMA CompleteVectorHasAll ==
  ASSUME NEW t \in Telegram, NEW vec,
         OfOneTelegram(vec, t), CurrentLength(vec) = TotalLength[t],
         NEW d \in DatagramsOf(t)
  PROVE  \E i \in DOMAIN vec : vec[i] = d
<1>1. d \in Datagram /\ d.telegram = t
  BY DEF Datagram, DatagramsOf, DatagramOf
<1>2. d.fragment_offset \in BytesOf(d) /\ BytesOf(d) \subseteq 0 .. TotalLength[t] - 1
  BY <1>1, DatagramFields
<1>3. PICK i \in DOMAIN vec : d.fragment_offset \in BytesOf(vec[i])
  BY <1>2, CompleteVector
<1>4. vec[i] \in Datagram /\ vec[i].telegram = t
  BY DEF OfOneTelegram
<1> QED
  BY <1>1, <1>2, <1>3, <1>4, DatagramsDisjoint

\* When the vector holds every datagram of the telegram it is complete.
LEMMA VectorOfAllIsComplete ==
  ASSUME NEW t \in Telegram, NEW vec, OfOneTelegram(vec, t),
         \A d \in DatagramsOf(t) : \E i \in DOMAIN vec : vec[i] = d
  PROVE  CurrentLength(vec) = TotalLength[t]
<1> DEFINE T == 0 .. TotalLength[t] - 1
<1>1. ASSUME NEW b \in T
      PROVE  \E x \in BytePairs(vec) : BytePositions(vec)[x] = b
  <2>1. PICK g \in Fragmentation[t] : g.offset <= b /\ b < g.offset + g.length
    BY DatagramsAssumption
  <2>2. PICK i \in DOMAIN vec : vec[i] = DatagramOf(t, g)
    BY DEF DatagramsOf
  <2>3. g.offset \in Nat /\ g.length \in Nat /\ b \in Nat
    BY DatagramsAssumption
  <2>4. b \in BytesOf(vec[i])
    BY <2>1, <2>2, <2>3 DEF DatagramOf, BytesOf
  <2>5. <<i, b>> \in BytePairs(vec)
    BY <2>4 DEF BytePairs
  <2> QED
    BY <2>5 DEF BytePositions
<1>2. BytePositions(vec) \in Injection(BytePairs(vec), T)
  BY BytePositionsInjective
<1>3. BytePositions(vec) \in Surjection(BytePairs(vec), T)
  BY <1>1, <1>2 DEF Injection, Surjection
<1>4. Cardinality(BytePairs(vec)) = Cardinality(T)
  BY <1>2, <1>3, TelegramPositions, FS_Injection
<1> QED
  BY <1>4, TelegramPositions DEF CurrentLength, BytePairs

-----------------------------------------------------------------------------
(* The invariant. *)

Pending(t) == m_is_complete /\ IsTelegram(m_deployed_packet_buffer, t)

\* A telegram that no copy has hit is deployed once, after all its datagrams
\* have been read.
DeliveryInv ==
  \A t \in Telegram : ~ Damaged(t) =>
    /\ Delivered(t) \/ Pending(t) => DatagramsOf(t) \subseteq received
    /\ ~ (Delivered(t) /\ Pending(t))

FullInv == IInv /\ MapHoldsTheUndeployed /\ NothingWithheld /\ DeliveryInv

LEMMA InitFullInv == Init => FullInv
<1> SUFFICES ASSUME Init PROVE FullInv
  OBVIOUS
<1>1. IInv
  BY InitIInv
<1>2. /\ m_is_complete = FALSE /\ delivered = <<>> /\ DOMAIN delivered = {}
      /\ received = {} /\ sent = {} /\ DOMAIN m_parsed_packet_buffer_map = {}
  BY DEF Init, MergerInit
<1>3. MapHoldsTheUndeployed
  BY <1>2 DEF MapHoldsTheUndeployed, Collected
<1>4. NothingWithheld /\ DeliveryInv
  BY <1>2 DEF NothingWithheld, DeliveryInv, Delivered, Pending
<1> QED
  BY <1>1, <1>3, <1>4 DEF FullInv

\* A telegram has a datagram.
LEMMA TelegramHasDatagram ==
  ASSUME NEW t \in Telegram
  PROVE  \E d \in DatagramsOf(t) : d \in Datagram /\ d.telegram = t
<1>1. PICK f \in Fragmentation[t] : TRUE
  BY DatagramsAssumption
<1>2. DatagramOf(t, f) \in DatagramsOf(t) /\ DatagramOf(t, f).telegram = t
  BY DEF DatagramsOf, DatagramOf
<1> QED
  BY <1>2 DEF Datagram

\* Reading the last missing datagram of a telegram free of copies deploys it;
\* reading another one keeps it; the vectors of other telegrams do not change.
LEMMA ReceivePreservesMap ==
  ASSUME FullInv, UniqueIdentification,
         NEW d \in Datagram, ReceiveDatagram(d)
  PROVE  /\ MapHoldsTheUndeployed'
         /\ ~ Damaged(d.telegram) =>
              /\ m_is_complete' <=> DatagramsOf(d.telegram) \subseteq received'
              /\ m_is_complete' => IsTelegram(m_deployed_packet_buffer', d.telegram)
<1> DEFINE map == m_parsed_packet_buffer_map
           id  == d.identification
           t   == d.telegram
           old == Collected(map, id)
           new == AddToMap(map, d)
           vec == new[id]
           Held(v, u) == {e \in DatagramsOf(u) : \E i \in DOMAIN v : v[i] = e}
<1>1. /\ t \in Telegram /\ d \in DatagramsOf(t) /\ id = Identification[t]
      /\ d.total_length = TotalLength[t]
  BY DatagramFields
<1>2. /\ received' = received \cup {d} /\ duplicated' = duplicated
      /\ network[d] > 0
      /\ ~ Damaged(t) => d \notin received
  BY <1>1 DEF FullInv, IInv, NetworkInv, ReceiveDatagram, Damaged
<1>3. ~ Damaged(t) => OfOneTelegram(vec, t)
  BY <1>2, ExtendedVector DEF FullInv
<1>4. ~ Damaged(t) => Held(old, t) = DatagramsOf(t) \cap received
  BY <1>1, <1>2 DEF FullInv, MapHoldsTheUndeployed
<1>5. ~ Damaged(t) => Held(vec, t) = DatagramsOf(t) \cap received'
  <2>1. vec = Append(old, d)
    BY DEF AddToMap
  <2>2. old \in Seq(Datagram)
    <3>1. CASE id \in DOMAIN map
      BY <3>1 DEF Collected, FullInv, IInv, TypeInv, TypeOK, MergerTypeOK
    <3>2. CASE id \notin DOMAIN map
      BY <3>2, EmptySeq DEF Collected
    <3> QED
      BY <3>1, <3>2
  <2> HIDE DEF old, vec
  <2>3. \A e : (\E i \in DOMAIN vec : vec[i] = e) <=> e = d \/ \E i \in DOMAIN old : old[i] = e
    <3>1. /\ DOMAIN vec = 1 .. Len(old) + 1 /\ DOMAIN old = 1 .. Len(old)
          /\ Len(old) \in Nat
          /\ \A i \in 1 .. Len(old) : vec[i] = old[i]
          /\ vec[Len(old) + 1] = d
      BY <2>1, <2>2
    <3>2. 1 .. Len(old) + 1 = (1 .. Len(old)) \cup {Len(old) + 1}
      BY <3>1
    <3> QED
      BY <3>1, <3>2
  <2> QED
    BY <1>1, <1>2, <1>4, <2>3
<1>6. ~ Damaged(t) => (CheckIfComplete(vec, d) <=> DatagramsOf(t) \subseteq received')
  <2> SUFFICES ASSUME ~ Damaged(t)
               PROVE  CheckIfComplete(vec, d) <=> DatagramsOf(t) \subseteq received'
    OBVIOUS
  <2>1. ASSUME CheckIfComplete(vec, d)
        PROVE  DatagramsOf(t) \subseteq received'
    BY <1>1, <1>3, <1>5, <2>1, CompleteVectorHasAll DEF CheckIfComplete
  <2>2. ASSUME DatagramsOf(t) \subseteq received'
        PROVE  CheckIfComplete(vec, d)
    <3>1. \A e \in DatagramsOf(t) : \E i \in DOMAIN vec : vec[i] = e
      BY <1>5, <2>2
    <3> QED
      BY <1>1, <1>3, <3>1, VectorOfAllIsComplete DEF CheckIfComplete
  <2> QED
    BY <2>1, <2>2
<1>7. /\ m_is_complete' <=> CheckIfComplete(vec, d)
      /\ map' = IF CheckIfComplete(vec, d) THEN Erase(new, id) ELSE new
      /\ CheckIfComplete(vec, d) =>
           \E s \in SortedVectors(vec) : m_deployed_packet_buffer' = RemoveHeader(s)
  BY DEF ReceiveDatagram, AddUDPPacket
<1>8. ~ Damaged(t) /\ m_is_complete' => IsTelegram(m_deployed_packet_buffer', t)
  BY <1>1, <1>3, <1>7, DeployedIsTelegram DEF CheckIfComplete
<1>9. ASSUME NEW u \in Telegram, ~ Damaged(u)
      PROVE  Held(Collected(map', Identification[u]), u) =
             IF DatagramsOf(u) \subseteq received' THEN {} ELSE DatagramsOf(u) \cap received'
  <2>1. CASE u = t
    <3>1. CASE CheckIfComplete(vec, d)
      <4>1. id \notin DOMAIN map'
        BY <1>7, <3>1 DEF Erase
      <4>2. Collected(map', id) = <<>>
        BY <4>1 DEF Collected
      <4> QED
        BY <1>1, <1>6, <1>9, <2>1, <3>1, <4>2
    <3>2. CASE ~ CheckIfComplete(vec, d)
      <4>1. Collected(map', id) = vec
        BY <1>7, <3>2 DEF AddToMap, Collected
      <4> QED
        BY <1>1, <1>5, <1>6, <1>9, <2>1, <3>2, <4>1
    <3> QED
      BY <3>1, <3>2
  <2>2. CASE u # t
    <3>1. Identification[u] # id
      BY <1>1, <2>2 DEF UniqueIdentification
    <3>2. Collected(map', Identification[u]) = Collected(map, Identification[u])
      BY <1>7, <3>1 DEF AddToMap, Erase, Collected
    <3>3. d \notin DatagramsOf(u)
      BY <2>2 DEF DatagramsOf, DatagramOf
    <3>4. Held(Collected(map, Identification[u]), u) =
          IF DatagramsOf(u) \subseteq received THEN {} ELSE DatagramsOf(u) \cap received
      BY <1>9 DEF FullInv, MapHoldsTheUndeployed
    <3>5. /\ DatagramsOf(u) \subseteq received' <=> DatagramsOf(u) \subseteq received
          /\ DatagramsOf(u) \cap received' = DatagramsOf(u) \cap received
      BY <1>2, <3>3
    <3> QED
      BY <3>2, <3>4, <3>5
  <2> QED
    BY <2>1, <2>2
<1>10. MapHoldsTheUndeployed'
  BY <1>2, <1>9 DEF MapHoldsTheUndeployed, Damaged
<1> QED
  BY <1>6, <1>7, <1>8, <1>10

LEMMA ReceivePreservesFullInv ==
  ASSUME FullInv, UniqueIdentification,
         NEW d \in Datagram, ReceiveDatagram(d)
  PROVE  FullInv'
<1> DEFINE t == d.telegram
<1>1. t \in Telegram /\ d \in DatagramsOf(t)
  BY DatagramFields
<1>2. /\ ~ Damaged(t) => d \notin received
      /\ t \in sent /\ ~ m_is_complete
      /\ received' = received \cup {d}
      /\ UNCHANGED <<sent, duplicated, delivered>>
  BY <1>1 DEF FullInv, IInv, NetworkInv, ReceiveDatagram, Damaged
<1>3. /\ IInv'
      /\ m_is_complete' =>
           /\ m_deployed_packet_buffer' # <<>>
           /\ \A k \in DOMAIN m_deployed_packet_buffer' :
                m_deployed_packet_buffer'[k].telegram = t
  BY ReceivePreservesIInv DEF FullInv
<1>4. /\ MapHoldsTheUndeployed'
      /\ ~ Damaged(t) =>
           /\ m_is_complete' <=> DatagramsOf(t) \subseteq received'
           /\ m_is_complete' => IsTelegram(m_deployed_packet_buffer', t)
  BY ReceivePreservesMap
<1>5. \A u \in Telegram : u # t => d \notin DatagramsOf(u)
  BY DEF DatagramsOf, DatagramOf
<1>6. \A u \in Telegram : (Delivered(u)' <=> Delivered(u)) /\ (Damaged(u)' <=> Damaged(u))
  BY <1>2 DEF Delivered, Damaged
<1>7. ASSUME NEW u \in Telegram, Pending(u)'
      PROVE  u = t
  <2>1. m_is_complete' /\ IsTelegram(m_deployed_packet_buffer', u)
    BY <1>7 DEF Pending
  <2>2. \E k \in DOMAIN m_deployed_packet_buffer' : TRUE
    <3>1. 0 \in 0 .. TotalLength[u] - 1
      BY DatagramsAssumption
    <3> QED
      BY <2>1, <3>1 DEF IsTelegram
  <2>3. PICK k \in DOMAIN m_deployed_packet_buffer' : TRUE
    BY <2>2
  <2> QED
    BY <1>3, <2>1, <2>3 DEF IsTelegram
<1>8. ~ Damaged(t) => ~ Delivered(t)
  BY <1>1, <1>2 DEF FullInv, DeliveryInv
<1>9. NothingWithheld'
  <2> SUFFICES ASSUME NEW u \in sent', ~ Damaged(u)', DatagramsOf(u) \subseteq received'
               PROVE  (Delivered(u) \/ Pending(u))'
    BY DEF NothingWithheld, Pending
  <2>1. u \in Telegram /\ u \in sent
    BY <1>2 DEF FullInv, IInv, TypeInv, TypeOK
  <2>2. CASE u = t
    BY <1>4, <1>6, <2>1, <2>2 DEF Pending
  <2>3. CASE u # t
    <3>1. DatagramsOf(u) \subseteq received
      BY <1>2, <1>5, <2>1, <2>3
    <3>2. Delivered(u)
      BY <1>2, <1>6, <2>1, <3>1 DEF FullInv, NothingWithheld
    <3> QED
      BY <1>6, <2>1, <3>2
  <2> QED
    BY <2>2, <2>3
<1>10. DeliveryInv'
  <2> SUFFICES ASSUME NEW u \in Telegram, ~ Damaged(u)
               PROVE  /\ Delivered(u)' \/ Pending(u)' => DatagramsOf(u) \subseteq received'
                      /\ ~ (Delivered(u)' /\ Pending(u)')
    BY <1>6 DEF DeliveryInv
  <2>1. Delivered(u)' => DatagramsOf(u) \subseteq received'
    BY <1>2, <1>6 DEF FullInv, DeliveryInv
  <2>2. Pending(u)' => DatagramsOf(u) \subseteq received'
    BY <1>4, <1>7 DEF Pending
  <2>3. ~ (Delivered(u)' /\ Pending(u)')
    BY <1>6, <1>7, <1>8
  <2> QED
    BY <2>1, <2>2, <2>3
<1> QED
  BY <1>3, <1>4, <1>9, <1>10 DEF FullInv

LEMMA DeliverPreservesFullInv ==
  ASSUME UniqueIdentification, FullInv, DeliverData
  PROVE  FullInv'
<1> DEFINE buffer == m_deployed_packet_buffer
           n == Len(delivered)
<1>1. IInv'
  BY NextPreservesIInv DEF FullInv, Next
<1>2. /\ m_is_complete /\ ~ m_is_complete'
      /\ delivered' = Append(delivered, buffer)
      /\ UNCHANGED <<m_deployed_packet_buffer, m_parsed_packet_buffer_map,
                     received, duplicated, sent>>
  BY DEF DeliverData, GetDeployedPacketBuffer
<1>3. /\ n \in Nat /\ DOMAIN delivered = 1 .. n /\ DOMAIN delivered' = 1 .. n + 1
      /\ \A i \in 1 .. n : delivered'[i] = delivered[i]
      /\ delivered'[n + 1] = buffer
  BY <1>2 DEF FullInv, IInv, TypeInv, TypeOK
<1>4. \A i \in 1 .. n + 1 : i \in 1 .. n \/ i = n + 1
  BY <1>3
<1>5. n + 1 \in 1 .. n + 1 /\ \A i \in 1 .. n : i \in 1 .. n + 1
  BY <1>3
<1>6. \A u \in Telegram :
        (Delivered(u)' <=> Delivered(u) \/ Pending(u)) /\ (Damaged(u)' <=> Damaged(u))
  BY <1>2, <1>3, <1>4, <1>5 DEF Delivered, Pending, Damaged
<1>7. \A u \in Telegram : ~ Pending(u)'
  BY <1>2 DEF Pending
<1>8. MapHoldsTheUndeployed'
  BY <1>2 DEF FullInv, MapHoldsTheUndeployed, Damaged
<1>9. NothingWithheld'
  BY <1>2, <1>6 DEF FullInv, IInv, TypeInv, TypeOK, NothingWithheld, Pending
<1>10. DeliveryInv'
  BY <1>2, <1>6, <1>7 DEF FullInv, DeliveryInv
<1> QED
  BY <1>1, <1>8, <1>9, <1>10 DEF FullInv

LEMMA NextPreservesFullInv ==
  ASSUME UniqueIdentification, FullInv, [Next]_vars
  PROVE  FullInv'
<1>1. IInv'
  BY NextPreservesIInv DEF FullInv
<1>2. ASSUME NEW t \in Telegram, SendTelegram(t)
      PROVE  FullInv'
  <2>1. /\ sent' = sent \cup {t} /\ t \notin sent
        /\ UNCHANGED <<m_is_complete, m_deployed_packet_buffer,
                       m_parsed_packet_buffer_map, received, duplicated, delivered>>
    BY <1>2 DEF SendTelegram, mergerVars
  <2>2. ~ DatagramsOf(t) \subseteq received
    BY <2>1, TelegramHasDatagram DEF FullInv, IInv, NetworkInv
  <2>3. NothingWithheld'
    BY <2>1, <2>2 DEF FullInv, NothingWithheld, Delivered, Damaged
  <2> QED
    BY <1>1, <2>1, <2>3
    DEF FullInv, MapHoldsTheUndeployed, DeliveryInv, Delivered, Pending, Damaged
<1>3. ASSUME UNCHANGED <<m_is_complete, m_deployed_packet_buffer,
                         m_parsed_packet_buffer_map, received, delivered, sent>>,
             duplicated \subseteq duplicated'
      PROVE  FullInv'
  <2>1. \A t \in Telegram : Damaged(t) => Damaged(t)'
    BY <1>3 DEF Damaged
  <2>2. sent \subseteq Telegram
    BY DEF FullInv, IInv, TypeInv, TypeOK
  <2>3. MapHoldsTheUndeployed'
    BY <1>3, <2>1 DEF FullInv, MapHoldsTheUndeployed
  <2>4. NothingWithheld'
    BY <1>3, <2>1, <2>2 DEF FullInv, NothingWithheld, Delivered
  <2>5. DeliveryInv'
    BY <1>3, <2>1 DEF FullInv, DeliveryInv, Delivered, Pending
  <2> QED
    BY <1>1, <2>3, <2>4, <2>5 DEF FullInv
<1>4. ASSUME NEW d \in Datagram, LoseDatagram(d) \/ DuplicateDatagram(d)
      PROVE  FullInv'
  BY <1>3, <1>4 DEF LoseDatagram, DuplicateDatagram, mergerVars
<1>5. ASSUME NEW d \in Datagram, ReceiveDatagram(d)
      PROVE  FullInv'
  BY <1>5, ReceivePreservesFullInv
<1>6. ASSUME DeliverData
      PROVE  FullInv'
  BY <1>6, DeliverPreservesFullInv
<1>7. ASSUME UNCHANGED vars
      PROVE  FullInv'
  BY <1>3, <1>7 DEF vars, mergerVars
<1> QED
  BY <1>2, <1>4, <1>5, <1>6, <1>7 DEF Next

LEMMA DeliveryInvariant ==
  ASSUME UniqueIdentification
  PROVE  Spec => []FullInv
<1>1. Init => FullInv
  BY InitFullInv
<1>2. FullInv /\ [Next]_vars => FullInv'
  BY NextPreservesFullInv
<1> QED
  BY <1>1, <1>2, PTL DEF Spec

\* If no identification is used for two telegrams, a telegram that was read
\* completely and that no copy has hit is delivered or about to be, whatever
\* happens to the other telegrams.
THEOREM NothingIsWithheld ==
  ASSUME UniqueIdentification
  PROVE  Spec => []NothingWithheld
<1>1. FullInv => NothingWithheld
  BY DEF FullInv
<1> QED
  BY <1>1, DeliveryInvariant, PTL

\* Under the same assumption the merger's map keeps exactly the datagrams that
\* were read and not deployed yet: no entry of a telegram free of copies stays
\* after its packet, and none is forgotten before.
THEOREM MapIsExact ==
  ASSUME UniqueIdentification
  PROVE  Spec => []MapHoldsTheUndeployed
<1>1. FullInv => MapHoldsTheUndeployed
  BY DEF FullInv
<1> QED
  BY <1>1, DeliveryInvariant, PTL

-----------------------------------------------------------------------------
(* Refinement. *)

\* What the user sees of the buffers delivered, and the telegrams that copies
\* have hit: the refinement mapping.
Seen == [i \in DOMAIN delivered |-> DeliveryOf(delivered[i])]
Hit == {t \in Telegram : Damaged(t)}

\* What the user sees grows by what was delivered.
LEMMA SeenGrows ==
  ASSUME TypeOK, DeliverData
  PROVE  Seen' = Append(Seen, DeliveryOf(m_deployed_packet_buffer))
<1> DEFINE buffer == m_deployed_packet_buffer
           n == Len(delivered)
           S == {DeliveryOf(delivered[i]) : i \in 1 .. n} \cup {DeliveryOf(buffer)}
<1>1. /\ n \in Nat /\ DOMAIN delivered = 1 .. n
      /\ delivered' = Append(delivered, buffer)
  BY DEF DeliverData, TypeOK
<1>2. /\ DOMAIN delivered' = 1 .. n + 1
      /\ \A i \in 1 .. n : delivered'[i] = delivered[i]
      /\ delivered'[n + 1] = buffer
  BY <1>1 DEF TypeOK
<1>3. /\ Seen = [i \in 1 .. n |-> DeliveryOf(delivered[i])]
      /\ Seen' = [i \in 1 .. n + 1 |-> DeliveryOf(delivered'[i])]
  BY <1>1, <1>2 DEF Seen, DeliveryOf, Whole
<1>4. /\ Seen \in [1 .. n -> S]
      /\ \A i \in 1 .. n : Seen[i] = DeliveryOf(delivered[i])
  BY <1>3
<1>5. \A i \in 1 .. n + 1 :
        DeliveryOf(delivered'[i]) = IF i = n + 1 THEN DeliveryOf(buffer) ELSE Seen[i]
  <2> TAKE i \in 1 .. n + 1
  <2>1. CASE i = n + 1
    BY <1>2, <2>1
  <2>2. CASE i # n + 1
    <3>1. i \in 1 .. n
      BY <1>1, <2>2
    <3> QED
      BY <1>2, <1>4, <2>2, <3>1
  <2> QED
    BY <2>1, <2>2
<1> HIDE DEF S, buffer
<1>6. Seen \in Seq(S) /\ Len(Seen) = n
  <2>1. Seen \in Seq(S)
    BY <1>1, <1>4, SeqDef
  <2> QED
    BY <1>1, <1>4, <2>1, LenProperties
<1>7. DeliveryOf(buffer) \in S
  BY DEF S, buffer
<1>8. /\ Append(Seen, DeliveryOf(buffer)) \in Seq(S)
      /\ Len(Append(Seen, DeliveryOf(buffer))) = n + 1
      /\ \A i \in 1 .. n : Append(Seen, DeliveryOf(buffer))[i] = Seen[i]
      /\ Append(Seen, DeliveryOf(buffer))[n + 1] = DeliveryOf(buffer)
  BY <1>6, <1>7, AppendProperties
<1>9. Append(Seen, DeliveryOf(buffer)) \in [1 .. n + 1 -> S]
  BY <1>8, LenProperties
<1>10. \A i \in 1 .. n + 1 :
         Append(Seen, DeliveryOf(buffer))[i] =
         IF i = n + 1 THEN DeliveryOf(buffer) ELSE Seen[i]
  BY <1>1, <1>8
<1> QED
  BY <1>3, <1>5, <1>9, <1>10 DEF buffer

\* A whole buffer is delivered as its telegram.
LEMMA DeliveryOfTelegram ==
  ASSUME NEW buffer, NEW t \in Telegram, IsTelegram(buffer, t)
  PROVE  DeliveryOf(buffer) = Stream!Delivery({t}, TRUE)
<1>1. 0 \in 0 .. TotalLength[t] - 1
  BY DatagramsAssumption
<1>2. \E k \in DOMAIN buffer : TRUE
  BY <1>1 DEF IsTelegram
<1>3. {buffer[k].telegram : k \in DOMAIN buffer} = {t}
  BY <1>2 DEF IsTelegram
<1> QED
  BY <1>3 DEF DeliveryOf, Whole, Stream!Delivery

\* The user is handed a telegram that was sent and, if no copy has hit it, is
\* seen in nothing that was handed out before; or a mixture of hit telegrams.
LEMMA DeliverImplements ==
  ASSUME FullInv, DeliverData
  PROVE  \/ \E t \in Telegram : Stream!Deliver(t)
         \/ \E telegrams \in SUBSET Telegram : Stream!DeliverMixture(telegrams)
<1> DEFINE buffer == m_deployed_packet_buffer
<1>1. /\ Seen' = Append(Seen, DeliveryOf(buffer))
      /\ sent' = sent /\ Hit' = Hit
  <2>1. TypeOK
    BY DEF FullInv, IInv, TypeInv
  <2> QED
    BY <2>1, SeenGrows DEF DeliverData, Hit, Damaged
<1>2. m_is_complete /\ Deployable(buffer)
  BY DEF DeliverData, FullInv, IInv, BufferInv
<1>3. ASSUME NEW t \in Telegram, IsTelegram(buffer, t)
      PROVE  Stream!Deliver(t)
  <2>1. t \in sent
    <3>1. CASE Damaged(t)
      <4>1. PICK d \in DatagramsOf(t) : d \in duplicated
        BY <3>1 DEF Damaged
      <4>2. d \in Datagram /\ d.telegram = t
        BY DEF Datagram, DatagramsOf, DatagramOf
      <4> QED
        BY <4>1, <4>2 DEF FullInv, IInv, NetworkInv
    <3>2. CASE ~ Damaged(t)
      <4>1. DatagramsOf(t) \subseteq received
        BY <1>2, <1>3, <3>2 DEF FullInv, DeliveryInv, Pending
      <4> QED
        BY <4>1, TelegramHasDatagram DEF FullInv, IInv, NetworkInv
    <3> QED
      BY <3>1, <3>2
  <2>2. ASSUME ~ Damaged(t), NEW i \in DOMAIN delivered
        PROVE  t \notin Seen[i].telegrams
    <3> SUFFICES ASSUME t \in DeliveryOf(delivered[i]).telegrams
                 PROVE  FALSE
      BY DEF Seen
    <3>1. PICK k \in DOMAIN delivered[i] : delivered[i][k].telegram = t
      BY DEF DeliveryOf
    <3>2. Deployable(delivered[i])
      BY DEF FullInv, IInv, BufferInv
    <3>3. Whole(delivered[i])
      BY <2>2, <3>1, <3>2 DEF Deployable
    <3>4. IsTelegram(delivered[i], t)
      BY <3>1, <3>3 DEF Whole, IsTelegram
    <3>5. Delivered(t) /\ Pending(t)
      BY <1>2, <1>3, <3>4 DEF Delivered, Pending
    <3> QED
      BY <2>2, <3>5 DEF FullInv, DeliveryInv
  <2>3. DOMAIN Seen = DOMAIN delivered
    BY DEF Seen
  <2>4. t \notin Hit => \A i \in DOMAIN Seen : t \notin Seen[i].telegrams
    BY <2>2, <2>3 DEF Hit
  <2>5. Seen' = Append(Seen, Stream!Delivery({t}, TRUE))
    BY <1>1, <1>3, DeliveryOfTelegram
  <2> QED
    BY <1>1, <2>1, <2>4, <2>5 DEF Seen, Hit, Stream!Deliver
<1>4. ASSUME ~ Whole(buffer)
      PROVE  \E telegrams \in SUBSET Telegram : Stream!DeliverMixture(telegrams)
  <2>1. PICK t \in Telegram :
          /\ Damaged(t) /\ buffer # <<>>
          /\ \A k \in DOMAIN buffer : buffer[k].telegram = t
    BY <1>2, <1>4 DEF Deployable
  <2>2. \E k \in DOMAIN buffer : TRUE
    <3>1. buffer \in Seq({Piece(e) : e \in Datagram})
      BY DEF FullInv, IInv, TypeInv, TypeOK, MergerTypeOK
    <3> QED
      BY <2>1, <3>1
  <2>3. {buffer[k].telegram : k \in DOMAIN buffer} = {t}
    BY <2>1, <2>2
  <2>4. DeliveryOf(buffer) = Stream!Delivery({t}, FALSE)
    <3>1. Whole(buffer) = FALSE
      BY <1>4 DEF Whole
    <3> QED
      BY <2>3, <3>1 DEF DeliveryOf, Stream!Delivery
  <2>5. {t} \in SUBSET Telegram /\ {t} # {} /\ {t} \subseteq Hit
    BY <2>1 DEF Hit
  <2>6. Stream!DeliverMixture({t})
    BY <1>1, <2>4, <2>5 DEF Seen, Hit, Stream!DeliverMixture
  <2> QED
    BY <2>5, <2>6
<1> QED
  BY <1>3, <1>4 DEF Whole

LEMMA NextImplements ==
  ASSUME FullInv, [Next]_vars
  PROVE  [Stream!Next]_<<sent, Hit, Seen>>
<1>1. ASSUME NEW t \in Telegram, SendTelegram(t)
      PROVE  Stream!Send(t)
  BY <1>1 DEF SendTelegram, Stream!Send, DeliveryOf, Whole, Damaged
<1>2. ASSUME sent' = sent, duplicated' = duplicated, delivered' = delivered
      PROVE  UNCHANGED <<sent, Hit, Seen>>
  BY <1>2 DEF Seen, Hit, DeliveryOf, Whole, Damaged
<1>3. ASSUME NEW d \in Datagram, LoseDatagram(d) \/ ReceiveDatagram(d)
      PROVE  UNCHANGED <<sent, Hit, Seen>>
  BY <1>2, <1>3 DEF LoseDatagram, ReceiveDatagram
<1>4. ASSUME NEW d \in Datagram, DuplicateDatagram(d)
      PROVE  \E t \in Telegram : Stream!Damage(t)
  <2> DEFINE t == d.telegram
  <2>1. t \in Telegram /\ d \in DatagramsOf(t)
    BY DatagramFields
  <2>2. t \in sent
    BY <1>4 DEF DuplicateDatagram, FullInv, IInv, NetworkInv
  <2>3. \A u \in Telegram : u # t => d \notin DatagramsOf(u)
    BY DEF DatagramsOf, DatagramOf
  <2>4. \A u \in Telegram : Damaged(u)' <=> Damaged(u) \/ u = t
    BY <1>4, <2>1, <2>3 DEF DuplicateDatagram, Damaged
  <2>5. Hit' = Hit \cup {t}
    BY <2>1, <2>4 DEF Hit
  <2>6. sent' = sent /\ Seen' = Seen
    BY <1>4 DEF DuplicateDatagram, Seen, DeliveryOf, Whole
  <2>7. Stream!Damage(t)
    BY <2>2, <2>5, <2>6 DEF Seen, Hit, Stream!Damage
  <2> QED
    BY <2>1, <2>7
<1>5. ASSUME UNCHANGED vars
      PROVE  UNCHANGED <<sent, Hit, Seen>>
  BY <1>2, <1>5 DEF vars
<1> QED
  BY <1>1, <1>3, <1>4, <1>5, DeliverImplements DEF Next, Stream!Next

\* For every set of telegrams with identifications of their own, and whatever
\* the network loses, reorders and copies, the stream the user sees implements
\* TelegramStream: sending, copying and delivering are its steps, everything
\* else is invisible.
THEOREM StreamImplementsTelegramStream ==
  ASSUME UniqueIdentification
  PROVE  Spec => StreamSpec
<1>1. Init => Stream!Init
  BY DEF Init, MergerInit, Stream!Init, Damaged
<1>2. FullInv /\ [Next]_vars => [Stream!Next]_<<sent, Hit, Seen>>
  BY NextImplements
<1> QED
  BY <1>1, <1>2, DeliveryInvariant, PTL DEF Spec, StreamSpec, Stream!Spec, Seen, Hit
=============================================================================
