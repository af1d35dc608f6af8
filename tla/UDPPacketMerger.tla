-------------------------- MODULE UDPPacketMerger --------------------------
(***************************************************************************)
(* The merger (UDPPacketMerger.cpp) collects datagrams by identification   *)
(* and deploys a packet buffer when the payloads collected for one         *)
(* identification add up to the total length of the newest header.         *)
(*                                                                         *)
(* addUDPPacket runs under the merger's mutex: each call is one step.      *)
(***************************************************************************)
EXTENDS Datagrams, Sequences, FiniteSets

VARIABLES
  m_is_complete,               \* a deployed buffer waits to be taken
  m_deployed_packet_buffer,    \* the newest merged packet
  m_parsed_packet_buffer_map   \* identification |-> vector of datagrams

mergerVars ==
  <<m_is_complete, m_deployed_packet_buffer, m_parsed_packet_buffer_map>>

MergerTypeOK ==
  /\ m_is_complete \in BOOLEAN
  /\ m_deployed_packet_buffer \in Seq({Piece(d) : d \in Datagram})
  /\ \A id \in DOMAIN m_parsed_packet_buffer_map :
       /\ id \in {Identification[t] : t \in Telegram}
       /\ m_parsed_packet_buffer_map[id] \in Seq(Datagram) \ {<<>>}

MergerInit ==
  /\ m_is_complete = FALSE
  /\ m_deployed_packet_buffer = <<>>
  /\ m_parsed_packet_buffer_map = [id \in {} |-> <<>>]

-----------------------------------------------------------------------------
(* Helpers of addUDPPacket. *)

\* The vector collected for an identification; the map has no empty vectors.
Collected(map, id) == IF id \in DOMAIN map THEN map[id] ELSE <<>>

\* Mutant of AddToMap: a new datagram replaces the vector found.
AddToMapReplacing(map, d) ==
  [id \in DOMAIN map \cup {d.identification} |->
     IF id = d.identification THEN <<d>> ELSE map[id]]

AddToMap(map, d) ==
  [id \in DOMAIN map \cup {d.identification} |->
     IF id = d.identification THEN Append(Collected(map, id), d) ELSE map[id]]

\* Mutant of Erase: the entry stays after its packet is deployed.
EraseNothing(map, id) == map

\* Mutant of Erase: the vector is cleared and its entry stays.
EraseVectorOnly(map, id) == [map EXCEPT ![id] = <<>>]

Erase(map, id) == [i \in DOMAIN map \ {id} |-> map[i]]

\* The sum of the payload lengths of a vector: the number of bytes its
\* packets carry, a byte that two packets carry being counted twice.
CurrentLength(vec) ==
  Cardinality(UNION {{i} \X BytesOf(vec[i]) : i \in DOMAIN vec})

CheckIfComplete(vec, d) == CurrentLength(vec) = d.total_length

\* Mutant of SortedVectors: the packets stay in the order of arrival.
UnsortedVectors(vec) == {vec}

\* std::sort by increasing offset.  It is not stable, so packets of equal
\* offset may come out in either order.
SortedVectors(vec) ==
  {[i \in DOMAIN vec |-> vec[p[i]]] :
     p \in {q \in [DOMAIN vec -> DOMAIN vec] :
              /\ \A i, j \in DOMAIN vec : i # j => q[i] # q[j]
              /\ \A i, j \in DOMAIN vec :
                   i < j => vec[q[i]].fragment_offset <= vec[q[j]].fragment_offset}}

RemoveHeader(vec) == [i \in DOMAIN vec |-> Piece(vec[i])]

-----------------------------------------------------------------------------
(* Operations. *)

\* The flag of the call before is cleared first, then set again if this
\* datagram completes its identification.
AddUDPPacket(d) ==
  LET id  == d.identification
      map == AddToMap(m_parsed_packet_buffer_map, d)
  IN \/ /\ CheckIfComplete(map[id], d)
        /\ m_is_complete' = TRUE
        /\ \E vec \in SortedVectors(map[id]) :
             m_deployed_packet_buffer' = RemoveHeader(vec)
        /\ m_parsed_packet_buffer_map' = Erase(map, id)
     \/ /\ ~ CheckIfComplete(map[id], d)
        /\ m_is_complete' = FALSE
        /\ m_parsed_packet_buffer_map' = map
        /\ UNCHANGED m_deployed_packet_buffer

\* Mutant of GetDeployedPacketBuffer: the flag is not cleared.
GetDeployedPacketBufferAgain ==
  UNCHANGED <<m_is_complete, m_deployed_packet_buffer, m_parsed_packet_buffer_map>>

\* The deployed buffer is handed out by value and stays where it is.
GetDeployedPacketBuffer ==
  /\ m_is_complete' = FALSE
  /\ UNCHANGED <<m_deployed_packet_buffer, m_parsed_packet_buffer_map>>
=============================================================================
