----------------------------- MODULE Datagrams -----------------------------
(***************************************************************************)
(* The UDP datagrams a SICK safety laser scanner sends.  One measurement   *)
(* output, a telegram, is cut into fragments; each fragment travels in a   *)
(* datagram of its own behind a 24 byte header that carries the telegram's *)
(* identification, its total length and the fragment's offset in it.       *)
(*                                                                         *)
(* The payload is abstract: a datagram remembers the telegram its bytes    *)
(* come from, and the bytes are named by their positions in the telegram.  *)
(***************************************************************************)
EXTENDS Naturals

CONSTANTS
  Telegram,        \* the telegrams the sensor may send
  Identification,  \* the identification field of each telegram
  TotalLength,     \* the number of bytes of each telegram
  Fragmentation    \* how the sensor cuts each telegram: a set of
                   \* [offset, length] records

\* A fragment is never empty and lies in its telegram; the fragments of a
\* telegram do not overlap and cover it.
ASSUME DatagramsAssumption ==
  \A t \in Telegram :
    /\ TotalLength[t] \in Nat \ {0}
    /\ \A f \in Fragmentation[t] :
         /\ f.offset \in Nat
         /\ f.length \in Nat \ {0}
         /\ f.offset + f.length <= TotalLength[t]
    /\ \A f, g \in Fragmentation[t] :
         f # g => \/ f.offset + f.length <= g.offset
                  \/ g.offset + g.length <= f.offset
    /\ \A b \in 0 .. TotalLength[t] - 1 :
         \E f \in Fragmentation[t] :
            f.offset <= b /\ b < f.offset + f.length

\* The datagram that carries fragment f of telegram t.  length is the length
\* of the packet without its header.
DatagramOf(t, f) ==
  [telegram        |-> t,
   identification  |-> Identification[t],
   total_length    |-> TotalLength[t],
   fragment_offset |-> f.offset,
   length          |-> f.length]

DatagramsOf(t) == {DatagramOf(t, f) : f \in Fragmentation[t]}

Datagram == UNION {DatagramsOf(t) : t \in Telegram}

\* The positions in its telegram of the bytes that datagram d carries.
BytesOf(d) == d.fragment_offset .. d.fragment_offset + d.length - 1

\* A packet buffer is a sequence of pieces, each a run of bytes of a telegram:
\* what is left of a datagram without its header.
Piece(d) == [telegram |-> d.telegram, bytes |-> BytesOf(d)]

\* buffer holds every byte of telegram t once, in order, and nothing else.
IsTelegram(buffer, t) ==
  /\ \A i \in DOMAIN buffer : buffer[i].telegram = t
  /\ UNION {buffer[i].bytes : i \in DOMAIN buffer} = 0 .. TotalLength[t] - 1
  /\ \A i, j \in DOMAIN buffer :
       i < j => \A b \in buffer[i].bytes, c \in buffer[j].bytes : b < c
=============================================================================
