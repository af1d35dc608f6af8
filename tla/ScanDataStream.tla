--------------------------- MODULE ScanDataStream ---------------------------
(***************************************************************************)
(* The path of measurement data from the sensor to the user: the sensor    *)
(* sends telegrams as datagrams, the network loses, reorders and           *)
(* duplicates them, the merger collects them, and the user is handed every *)
(* buffer the merger deploys.                                              *)
(*                                                                         *)
(* The same two steps model both scanners.  AsyncSickSafetyScanner::       *)
(* processUDPPacket adds a datagram and, if that completes a packet, takes *)
(* the buffer before the next datagram is read.                            *)
(* SyncSickSafetyScanner::receive adds datagrams until the merger is       *)
(* complete and then takes the buffer.  Either way no datagram is added    *)
(* while a deployed buffer waits.                                          *)
(***************************************************************************)
EXTENDS UDPPacketMerger

CONSTANT
  MayDuplicate   \* the datagrams of which the network may make a second copy

ASSUME MayDuplicateAssumption == MayDuplicate \subseteq Datagram

VARIABLES
  sent,        \* the telegrams the sensor has sent
  network,     \* the number of copies of each datagram in flight
  duplicated,  \* history: the datagrams the network has copied
  received,    \* history: the datagrams read from the socket
  delivered    \* history: the buffers handed to the user, in order

vars == <<mergerVars, sent, network, duplicated, received, delivered>>

TypeOK ==
  /\ MergerTypeOK
  /\ sent \subseteq Telegram
  /\ network \in [Datagram -> 0 .. 2]
  /\ duplicated \subseteq Datagram
  /\ received \subseteq Datagram
  /\ delivered \in Seq(Seq({Piece(d) : d \in Datagram}))

Init ==
  /\ MergerInit
  /\ sent = {}
  /\ network = [d \in Datagram |-> 0]
  /\ duplicated = {}
  /\ received = {}
  /\ delivered = <<>>

-----------------------------------------------------------------------------
(* The sensor and the network. *)

SendTelegram(t) ==
  /\ t \notin sent
  /\ sent' = sent \cup {t}
  /\ network' = [d \in Datagram |-> IF d \in DatagramsOf(t) THEN 1 ELSE network[d]]
  /\ UNCHANGED <<mergerVars, duplicated, received, delivered>>

LoseDatagram(d) ==
  /\ network[d] > 0
  /\ network' = [network EXCEPT ![d] = @ - 1]
  /\ UNCHANGED <<mergerVars, sent, duplicated, received, delivered>>

\* Each datagram is copied once at most: the bound of the model on copies.
DuplicateDatagram(d) ==
  /\ d \in MayDuplicate \ duplicated
  /\ network[d] > 0
  /\ network' = [network EXCEPT ![d] = @ + 1]
  /\ duplicated' = duplicated \cup {d}
  /\ UNCHANGED <<mergerVars, sent, received, delivered>>

-----------------------------------------------------------------------------
(* The driver. *)

\* Mutant of ReceiveDatagram: a datagram is added while a deployed buffer
\* waits to be taken.
ReceiveDatagramEagerly(d) ==
  /\ network[d] > 0
  /\ network' = [network EXCEPT ![d] = @ - 1]
  /\ received' = received \cup {d}
  /\ AddUDPPacket(d)
  /\ UNCHANGED <<sent, duplicated, delivered>>

\* A datagram is read from the socket and added to the merger.
ReceiveDatagram(d) ==
  /\ ~ m_is_complete
  /\ network[d] > 0
  /\ network' = [network EXCEPT ![d] = @ - 1]
  /\ received' = received \cup {d}
  /\ AddUDPPacket(d)
  /\ UNCHANGED <<sent, duplicated, delivered>>

\* The deployed buffer is taken, parsed and handed to the user.
DeliverData ==
  /\ m_is_complete
  /\ delivered' = Append(delivered, m_deployed_packet_buffer)
  /\ GetDeployedPacketBuffer
  /\ UNCHANGED <<sent, network, duplicated, received>>

Next ==
  \/ \E t \in Telegram : SendTelegram(t)
  \/ \E d \in Datagram :
       \/ LoseDatagram(d)
       \/ DuplicateDatagram(d)
       \/ ReceiveDatagram(d)
  \/ DeliverData

Spec == Init /\ [][Next]_vars

\* The io_service keeps running: a datagram that stays in the socket's queue
\* is read in the end, and a deployed buffer is handed to the user.  The
\* sensor need not send, and the network need not lose or duplicate anything.
Fairness ==
  /\ \A d \in Datagram : WF_vars(ReceiveDatagram(d))
  /\ WF_vars(DeliverData)

FairSpec == Spec /\ Fairness

-----------------------------------------------------------------------------
(* Properties. *)

Whole(buffer) == \E t \in Telegram : IsTelegram(buffer, t)

Dropped(d) == d.telegram \in sent /\ network[d] = 0 /\ d \notin received

Delivered(t) == \E i \in DOMAIN delivered : IsTelegram(delivered[i], t)

\* No two telegrams in play have the same identification.
UniqueIdentification ==
  \A t, u \in Telegram : Identification[t] = Identification[u] => t = u

\* addUDPPacket returns true, and the user is handed a buffer, only for a
\* complete data packet: every byte of one telegram, once and in order,
\* whatever the order in which its datagrams and those of other telegrams
\* arrive.  Copies that the network makes break this.
EveryBufferIsWhole ==
  /\ m_is_complete => Whole(m_deployed_packet_buffer)
  /\ \A i \in DOMAIN delivered : Whole(delivered[i])

\* The network has duplicated a part of the telegram.
Damaged(t) == DatagramsOf(t) \cap duplicated # {}

\* What EveryBufferIsWhole says of all telegrams holds of those that no copy
\* has hit: whatever the network duplicates, none of their bytes is in a buffer
\* that is not whole.
OnlyWholeTelegrams ==
  LET Sound(buffer) ==
        Whole(buffer) \/ \A k \in DOMAIN buffer : Damaged(buffer[k].telegram)
  IN /\ m_is_complete => Sound(m_deployed_packet_buffer)
     /\ \A i \in DOMAIN delivered : Sound(delivered[i])

\* A telegram all of whose datagrams have been read has been handed to the
\* user, or waits in the deployed buffer: deployPacketIfComplete misses none,
\* and nothing that happens to other identifications, copies of their datagrams
\* included, makes it forget one.
NothingWithheld ==
  \A t \in sent :
    ~ Damaged(t) /\ DatagramsOf(t) \subseteq received =>
      \/ Delivered(t)
      \/ m_is_complete /\ IsTelegram(m_deployed_packet_buffer, t)

\* The map keeps exactly the datagrams that were read and belong to no packet
\* deployed so far.  In particular the only entries that stay for ever are
\* those of telegrams that have lost a datagram, and those that copies leave.
MapHoldsTheUndeployed ==
  \A t \in Telegram :
    LET vec == Collected(m_parsed_packet_buffer_map, Identification[t])
    IN ~ Damaged(t) =>
         {d \in DatagramsOf(t) : \E i \in DOMAIN vec : vec[i] = d} =
         IF DatagramsOf(t) \subseteq received
         THEN {}
         ELSE DatagramsOf(t) \cap received

\* A telegram that loses no datagram reaches the user, whatever becomes of the
\* other telegrams.
UnlostTelegramsArrive ==
  \A t \in Telegram :
    t \in sent ~> (Delivered(t) \/ Damaged(t) \/ \E d \in DatagramsOf(t) : Dropped(d))

-----------------------------------------------------------------------------
(* Refinement: seen by the user, the stream is a TelegramStream. *)

\* What the user is handed: a whole telegram, or a mixture of telegrams.
DeliveryOf(buffer) ==
  [telegrams |-> {buffer[k].telegram : k \in DOMAIN buffer}, whole |-> Whole(buffer)]

Stream ==
  INSTANCE TelegramStream
    WITH damaged   <- {t \in Telegram : Damaged(t)},
         delivered <- [i \in DOMAIN delivered |-> DeliveryOf(delivered[i])]

\* The driver delivers what TelegramStream promises: one telegram of the sensor
\* at a time, none twice, but for the telegrams that copies have hit.
StreamSpec == Stream!Spec
=============================================================================
