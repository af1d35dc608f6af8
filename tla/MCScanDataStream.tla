-------------------------- MODULE MCScanDataStream --------------------------
(***************************************************************************)
(* Instances of ScanDataStream for TLC: a telegram of three fragments, one *)
(* of two and one of a single fragment.  Every fragment but the last of a  *)
(* telegram has the same length, as when a packet size limit cuts it.      *)
(***************************************************************************)
EXTENDS ScanDataStream, TLC

CONSTANTS t1, t2, t3

Fragment(o, n) == [offset |-> o, length |-> n]

MCIdentification == t1 :> 7 @@ t2 :> 8 @@ t3 :> 9

MCTotalLength == t1 :> 5 @@ t2 :> 3 @@ t3 :> 2

MCFragmentation ==
  t1 :> {Fragment(0, 2), Fragment(2, 2), Fragment(4, 1)} @@
  t2 :> {Fragment(0, 2), Fragment(2, 1)} @@
  t3 :> {Fragment(0, 2)}

DatagramsOfT1 == DatagramsOf(t1)

AllDatagrams == Datagram
=============================================================================
