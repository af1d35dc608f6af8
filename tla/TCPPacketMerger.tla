-------------------------- MODULE TCPPacketMerger --------------------------
(***************************************************************************)
(* The merger (TCPPacketMerger.cpp) puts the segments of a reply together  *)
(* until they have the size announced by the first.  It is a local object  *)
(* of receiveAndProcessResponse: a new one for each command.               *)
(***************************************************************************)
EXTENDS Cola2Commands, SequencesExt

VARIABLES
  m_is_complete,
  m_deployed_packet_buffer,
  m_buffer_vector,   \* the segments collected
  m_target_size

mergerVars == <<m_is_complete, m_deployed_packet_buffer, m_buffer_vector, m_target_size>>

MergerTypeOK ==
  /\ m_is_complete \in BOOLEAN
  /\ m_deployed_packet_buffer \in Seq(Byte)
  /\ m_buffer_vector \in Seq(Seq(Byte))
  /\ m_target_size \in Nat

MergerIsNew ==
  /\ m_is_complete = FALSE
  /\ m_deployed_packet_buffer = <<>>
  /\ m_buffer_vector = <<>>
  /\ m_target_size = 0

NewMerger ==
  /\ m_is_complete' = FALSE
  /\ m_deployed_packet_buffer' = <<>>
  /\ m_buffer_vector' = <<>>
  /\ m_target_size' = 0

DeployPacket(vector) == FlattenSeq(vector)

GetCurrentSize(vector) == Len(FlattenSeq(vector))

\* addToMap finds the packet complete if it is exactly as long as what was
\* missing.  The difference is unsigned: a reply that is too long never ends.
AddTCPPacket(packet, target_size) ==
  LET vector == Append(m_buffer_vector, packet)
  IN IF target_size - GetCurrentSize(m_buffer_vector) = Len(packet)
     THEN /\ m_is_complete' = TRUE
          /\ m_deployed_packet_buffer' = DeployPacket(vector)
          /\ m_buffer_vector' = <<>>
     ELSE /\ m_is_complete' = FALSE
          /\ m_buffer_vector' = vector
          /\ UNCHANGED m_deployed_packet_buffer

\* The loop of receiveAndProcessResponse: the first segment sets the size.
ReceivePacket(packet) ==
  /\ m_target_size' =
       IF m_buffer_vector = <<>> THEN GetExpectedPacketLength(packet) ELSE m_target_size
  /\ AddTCPPacket(packet, m_target_size')
=============================================================================
