-------------------------- MODULE ByteOrder_proofs --------------------------
(***************************************************************************)
(* What the functions of ReadWriteHelper.hpp write is what they read, and  *)
(* they touch nothing else: for every buffer, offset and value.            *)
(*                                                                         *)
(* Before that what the proofs about buffers share: induction over a set   *)
(* of numbers, and the lengths of buffers overwritten or joined.           *)
(***************************************************************************)
EXTENDS ByteOrder, SequenceTheorems, WellFoundedInduction, TLAPS

Buffers(n) == [1 .. n -> Byte]

-----------------------------------------------------------------------------
(* Induction, by sets instead of predicates. *)

LEMMA LeastElement ==
  ASSUME NEW T, T \subseteq Nat, T # {}
  PROVE  \E x \in T : \A y \in T : x <= y
<1> DEFINE R == OpToRel(<, Nat)
<1>1. IsWellFoundedOn(R, Nat)
  BY NatLessThanWellFounded
<1> HIDE DEF R
<1>2. PICK x \in T : \A y \in T : ~ (<<y, x>> \in R)
  BY <1>1, WFMin
<1>3. \A y \in T : ~ (y < x)
  BY <1>2 DEF R, OpToRel
<1> QED
  BY <1>3

LEMMA SetInduction ==
  ASSUME NEW T, 0 \in T, \A n \in Nat : n \in T => n + 1 \in T
  PROVE  \A n \in Nat : n \in T
<1> SUFFICES ASSUME Nat \ T # {} PROVE FALSE
  OBVIOUS
<1>1. PICK x \in Nat \ T : \A y \in Nat \ T : x <= y
  BY LeastElement
<1> QED
  BY <1>1

-----------------------------------------------------------------------------
(* Buffers of a length, whatever they hold. *)

LEMMA SameInterval ==
  ASSUME NEW a \in Nat, NEW b \in Nat, 1 .. a = 1 .. b
  PROVE  a = b
<1>1. a \in 1 .. a \/ a = 0
  OBVIOUS
<1>2. b \in 1 .. b \/ b = 0
  OBVIOUS
<1> QED
  BY <1>1, <1>2

IsBuffer(b, n) == n \in Nat /\ \E V : b \in [1 .. n -> V]

LEMMA BufferIsSequence ==
  ASSUME NEW b, NEW n, IsBuffer(b, n)
  PROVE  n \in Nat /\ Len(b) = n /\ DOMAIN b = 1 .. n /\ \E V : b \in Seq(V)
<1>1. PICK V : n \in Nat /\ b \in [1 .. n -> V]
  BY DEF IsBuffer
<1>2. b \in Seq(V) /\ DOMAIN b = 1 .. n
  BY <1>1, SeqDef
<1>3. Len(b) \in Nat /\ DOMAIN b = 1 .. Len(b)
  BY <1>2, LenProperties
<1> QED
  BY <1>1, <1>2, <1>3, SameInterval

LEMMA OverwrittenBuffer ==
  ASSUME NEW b, NEW n, IsBuffer(b, n), NEW o, NEW v
  PROVE  /\ IsBuffer(Overwritten(b, o, v), n)
         /\ \A i \in 1 .. n :
              Overwritten(b, o, v)[i] = IF i - o \in DOMAIN v THEN v[i - o] ELSE b[i]
<1>1. n \in Nat /\ DOMAIN b = 1 .. n
  BY BufferIsSequence
<1> DEFINE w == [i \in 1 .. n |-> IF i - o \in DOMAIN v THEN v[i - o] ELSE b[i]]
<1>2. Overwritten(b, o, v) = w
  BY <1>1 DEF Overwritten
<1>3. w \in [1 .. n -> {w[i] : i \in 1 .. n}]
  OBVIOUS
<1>4. IsBuffer(w, n)
  <2> HIDE DEF w
  <2> QED
    BY <1>1, <1>3 DEF IsBuffer
<1> QED
  BY <1>2, <1>4

\* c is the m bytes of a and, behind them, the n bytes of b.
Joins(c, a, m, b, n) ==
  /\ IsBuffer(c, m + n)
  /\ \A i \in 1 .. m : c[i] = a[i]
  /\ \A i \in 1 .. n : c[m + i] = b[i]

LEMMA JoinedBuffers ==
  ASSUME NEW a, NEW m, NEW b, NEW n, IsBuffer(a, m), IsBuffer(b, n)
  PROVE  Joins(a \o b, a, m, b, n)
<1>1. m \in Nat /\ n \in Nat /\ Len(a) = m /\ Len(b) = n
  BY BufferIsSequence
<1>2. PICK A : a \in Seq(A)
  BY BufferIsSequence
<1>3. PICK B : b \in Seq(B)
  BY BufferIsSequence
<1>4. a \in Seq(A \cup B) /\ b \in Seq(A \cup B)
  BY <1>2, <1>3, SeqMonotonic
<1>5. /\ a \o b \in Seq(A \cup B) /\ Len(a \o b) = m + n
      /\ \A i \in 1 .. m + n : (a \o b)[i] = IF i <= m THEN a[i] ELSE b[i - m]
  BY <1>1, <1>4, ConcatProperties
<1> DEFINE c == a \o b
<1> HIDE DEF c
<1>6. c \in [1 .. m + n -> A \cup B]
  BY <1>5, LenProperties DEF c
<1>7. IsBuffer(c, m + n)
  <2>1. m + n \in Nat
    BY <1>1
  <2>2. PICK k : k = m + n
    OBVIOUS
  <2>3. PICK C : c \in [1 .. k -> C]
    BY <1>6, <2>2
  <2>4. IsBuffer(c, k)
    BY <2>1, <2>2, <2>3 DEF IsBuffer
  <2> QED
    BY <2>2, <2>4
<1>8. \A i \in 1 .. m : i \in 1 .. m + n /\ i <= m
  BY <1>1
<1>9. \A i \in 1 .. n : m + i \in 1 .. m + n /\ ~ (m + i <= m) /\ (m + i) - m = i
  BY <1>1
<1>10. \A i \in 1 .. m : c[i] = a[i]
  BY <1>5, <1>8 DEF c
<1>11. \A i \in 1 .. n : c[m + i] = b[i]
  BY <1>5, <1>9 DEF c
<1> QED
  BY <1>7, <1>10, <1>11 DEF c, Joins

-----------------------------------------------------------------------------
(* Numbers and their bytes. *)

\* A number is its last byte and the number without it.
LEMMA LastByte ==
  ASSUME NEW v \in Int
  PROVE  /\ v % 256 \in Byte
         /\ v \div 256 \in Int
         /\ v = (256 * (v \div 256)) + (v % 256)
BY SMT DEF Byte

\* The further bytes, which the code gets by shifting by 16 and by 24 bits, are
\* got by shifting by 8 bits again and again.
LEMMA ShiftsAddUp ==
  ASSUME NEW v \in Int
  PROVE  /\ v \div 65536 = (v \div 256) \div 256
         /\ v \div 16777216 = ((v \div 256) \div 256) \div 256
BY SMT

\* The four bytes of a number of 32 bits, signed or not.
LEMMA FourBytes ==
  ASSUME NEW v \in Int
  PROVE  /\ (v \div 256) % 256 \in Byte
         /\ (v \div 65536) % 256 \in Byte
         /\ (v \div 16777216) % 256 \in Byte
         /\ v = 16777216 * (v \div 16777216) + 65536 * ((v \div 65536) % 256)
                + 256 * ((v \div 256) % 256) + (v % 256)
<1> DEFINE p == v \div 256
           q == p \div 256
           r == q \div 256
<1>1. /\ p \in Int /\ q \in Int /\ r \in Int
      /\ p % 256 \in Byte /\ q % 256 \in Byte /\ r % 256 \in Byte
      /\ v = (256 * p) + (v % 256)
      /\ p = (256 * q) + (p % 256)
      /\ q = (256 * r) + (q % 256)
  <2>1. p \in Int /\ v = (256 * p) + (v % 256)
    BY LastByte
  <2>2. q \in Int /\ p % 256 \in Byte /\ p = (256 * q) + (p % 256)
    BY <2>1, LastByte
  <2>3. r \in Int /\ q % 256 \in Byte /\ q = (256 * r) + (q % 256)
    BY <2>2, LastByte
  <2>4. r % 256 \in Byte
    BY <2>3, LastByte
  <2> QED
    BY <2>1, <2>2, <2>3, <2>4
<1>2. v \div 65536 = q /\ v \div 16777216 = r
  BY ShiftsAddUp
<1>3. v % 256 \in Int /\ p % 256 \in Int /\ q % 256 \in Int
  BY <1>1, SMT DEF Byte
<1> HIDE DEF p, q, r
<1>4. v = 16777216 * r + 65536 * (q % 256) + 256 * (p % 256) + (v % 256)
  BY <1>1, <1>3, SMT
<1> QED
  BY <1>1, <1>2, <1>4 DEF p

\* What a byte is after it was cut to 8 bits.
LEMMA CutByte ==
  ASSUME NEW u \in Uint8
  PROVE  u % 256 = u
BY SMT DEF Uint8, Byte

LEMMA CutSignedByte ==
  ASSUME NEW u \in Int8
  PROVE  AsInt8(u % 256) = u
BY SMT DEF Int8, AsInt8

-----------------------------------------------------------------------------
(* Writing into a buffer. *)

\* Bytes that are written are in the buffer at their place, the others are what
\* they were, and the buffer keeps its size.
LEMMA OneByteOverwritten ==
  ASSUME NEW n \in Nat, NEW b \in Buffers(n), NEW o \in Nat, o + 1 <= n, NEW x \in Byte
  PROVE  LET w == Overwritten(b, o, <<x>>)
         IN /\ w \in Buffers(n)
            /\ w[o + 1] = x
            /\ \A i \in (1 .. n) \ {o + 1} : w[i] = b[i]
BY DEF Overwritten, Buffers

LEMMA TwoBytesOverwritten ==
  ASSUME NEW n \in Nat, NEW b \in Buffers(n), NEW o \in Nat, o + 2 <= n,
         NEW x \in Byte, NEW y \in Byte
  PROVE  LET w == Overwritten(b, o, <<x, y>>)
         IN /\ w \in Buffers(n)
            /\ w[o + 1] = x /\ w[o + 2] = y
            /\ \A i \in (1 .. n) \ (o + 1 .. o + 2) : w[i] = b[i]
BY DEF Overwritten, Buffers

LEMMA FourBytesOverwritten ==
  ASSUME NEW n \in Nat, NEW b \in Buffers(n), NEW o \in Nat, o + 4 <= n,
         NEW x \in Byte, NEW y \in Byte, NEW z \in Byte, NEW u \in Byte
  PROVE  LET w == Overwritten(b, o, <<x, y, z, u>>)
         IN /\ w \in Buffers(n)
            /\ w[o + 1] = x /\ w[o + 2] = y /\ w[o + 3] = z /\ w[o + 4] = u
            /\ \A i \in (1 .. n) \ (o + 1 .. o + 4) : w[i] = b[i]
<1> DEFINE v == <<x, y, z, u>>
           w == Overwritten(b, o, v)
<1>1. w = [i \in 1 .. n |-> IF i - o \in 1 .. 4 THEN v[i - o] ELSE b[i]]
  BY DEF Overwritten, Buffers
<1>2. v[1] = x /\ v[2] = y /\ v[3] = z /\ v[4] = u
  OBVIOUS
<1>3. \A i \in 1 .. 4 : v[i] \in Byte
  BY <1>2
<1> HIDE DEF v
<1>4. w \in Buffers(n)
  BY <1>1, <1>3 DEF Buffers
<1>5. \A k \in 1 .. 4 : w[o + k] = v[k]
  BY <1>1
<1>6. \A i \in (1 .. n) \ (o + 1 .. o + 4) : w[i] = b[i]
  BY <1>1
<1>7. w[o + 1] = x /\ w[o + 2] = y /\ w[o + 3] = z /\ w[o + 4] = u
  BY <1>2, <1>5
<1> QED
  BY <1>4, <1>6, <1>7 DEF v

-----------------------------------------------------------------------------
(* What was written is read back. *)

\* At most the k bytes at offset o differ between two buffers of n bytes.
OthersAreKept(n, b, w, o, k) ==
  /\ w \in Buffers(n)
  /\ \A i \in (1 .. n) \ (o + 1 .. o + k) : w[i] = b[i]

\* A number of 16 bits is made of its two bytes.
LEMMA Uint16Bytes ==
  ASSUME NEW v \in Uint16
  PROVE  /\ v % 256 \in Byte /\ (v \div 256) % 256 \in Byte
         /\ v = 256 * ((v \div 256) % 256) + (v % 256)
<1>1. v \in Int /\ v \div 256 \in Uint8
  BY DEF Uint16
<1>2. (v \div 256) % 256 = v \div 256
  BY <1>1, CutByte
<1> QED
  BY <1>1, <1>2, LastByte DEF Uint8

\* A byte: writeUint8, readUint8.
THEOREM ByteReadsBack ==
  ASSUME NEW n \in Nat, NEW b \in Buffers(n), NEW o \in Nat, o + 1 <= n, NEW v \in Uint8
  PROVE  LET w == writeUint8(b, o, v)
         IN readUint8(w, o) = v /\ OthersAreKept(n, b, w, o, 1)
<1>1. v \in Byte
  BY DEF Uint8
<1>2. /\ Overwritten(b, o, <<v>>) \in Buffers(n)
      /\ Overwritten(b, o, <<v>>)[o + 1] = v
      /\ \A i \in (1 .. n) \ {o + 1} : Overwritten(b, o, <<v>>)[i] = b[i]
  BY <1>1, OneByteOverwritten
<1>3. (o + 1 .. o + 1) = {o + 1}
  OBVIOUS
<1> QED
  BY <1>2, <1>3 DEF writeUint8, readUint8, OthersAreKept

\* A number of 16 bits, the low byte first: the functions for
\* little endian numbers agree on the order of the bytes.
THEOREM Uint16LittleEndianReadsBack ==
  ASSUME NEW n \in Nat, NEW b \in Buffers(n), NEW o \in Nat, o + 2 <= n, NEW v \in Uint16
  PROVE  LET w == writeUint16LittleEndian(b, o, v)
         IN readUint16LittleEndian(w, o) = v /\ OthersAreKept(n, b, w, o, 2)
<1> DEFINE low  == v % 256
           high == (v \div 256) % 256
           w    == Overwritten(b, o, <<low, high>>)
<1>1. low \in Byte /\ high \in Byte /\ v = (256 * high) + low
  BY Uint16Bytes
<1> HIDE DEF low, high
<1>2. w \in Buffers(n) /\ w[o + 1] = low /\ w[o + 2] = high
      /\ \A i \in (1 .. n) \ (o + 1 .. o + 2) : w[i] = b[i]
  BY <1>1, TwoBytesOverwritten
<1>3. readUint16LittleEndian(w, o) = v /\ OthersAreKept(n, b, w, o, 2)
  BY <1>1, <1>2 DEF readUint16LittleEndian, OthersAreKept
<1>4. writeUint16LittleEndian(b, o, v) = w
  BY DEF writeUint16LittleEndian, low, high
<1> QED
  BY <1>3, <1>4

\* The same with the high byte first, as the frame of a command has it.
THEOREM Uint16BigEndianReadsBack ==
  ASSUME NEW n \in Nat, NEW b \in Buffers(n), NEW o \in Nat, o + 2 <= n, NEW v \in Uint16
  PROVE  LET w == writeUint16BigEndian(b, o, v)
         IN readUint16BigEndian(w, o) = v /\ OthersAreKept(n, b, w, o, 2)
<1> DEFINE low  == v % 256
           high == (v \div 256) % 256
           w    == Overwritten(b, o, <<high, low>>)
<1>1. low \in Byte /\ high \in Byte /\ v = (256 * high) + low
  BY Uint16Bytes
<1> HIDE DEF low, high
<1>2. w \in Buffers(n) /\ w[o + 1] = high /\ w[o + 2] = low
      /\ \A i \in (1 .. n) \ (o + 1 .. o + 2) : w[i] = b[i]
  BY <1>1, TwoBytesOverwritten
<1>3. readUint16BigEndian(w, o) = v /\ OthersAreKept(n, b, w, o, 2)
  BY <1>1, <1>2 DEF readUint16BigEndian, OthersAreKept
<1>4. writeUint16BigEndian(b, o, v) = w
  BY DEF writeUint16BigEndian, low, high
<1> QED
  BY <1>3, <1>4

\* A number of 32 bits is made of its four bytes.
LEMMA Uint32Bytes ==
  ASSUME NEW v \in Uint32
  PROVE  /\ v % 256 \in Byte /\ (v \div 256) % 256 \in Byte
         /\ (v \div 65536) % 256 \in Byte /\ (v \div 16777216) % 256 \in Byte
         /\ v = 16777216 * ((v \div 16777216) % 256) + 65536 * ((v \div 65536) % 256)
                + 256 * ((v \div 256) % 256) + (v % 256)
<1>1. v \in Int /\ v \div 65536 \in Uint16
  BY DEF Uint32
<1>2. v \div 16777216 = (v \div 65536) \div 256
  BY <1>1, ShiftsAddUp
<1>3. v \div 16777216 \in Uint8
  BY <1>1, <1>2 DEF Uint16
<1>4. (v \div 16777216) % 256 = v \div 16777216
  BY <1>3, CutByte
<1>5. v % 256 \in Byte
  BY <1>1, LastByte
<1> QED
  BY <1>1, <1>4, <1>5, FourBytes

\* A number of 32 bits, the low byte first.
THEOREM Uint32LittleEndianReadsBack ==
  ASSUME NEW n \in Nat, NEW b \in Buffers(n), NEW o \in Nat, o + 4 <= n, NEW v \in Uint32
  PROVE  LET w == writeUint32LittleEndian(b, o, v)
         IN readUint32LittleEndian(w, o) = v /\ OthersAreKept(n, b, w, o, 4)
<1> DEFINE x == v % 256
           y == (v \div 256) % 256
           z == (v \div 65536) % 256
           u == (v \div 16777216) % 256
           w == Overwritten(b, o, <<x, y, z, u>>)
<1>1. /\ x \in Byte /\ y \in Byte /\ z \in Byte /\ u \in Byte
      /\ v = 16777216 * u + 65536 * z + 256 * y + x
  BY Uint32Bytes
<1>2. writeUint32LittleEndian(b, o, v) = w
  BY DEF writeUint32LittleEndian
<1> HIDE DEF x, y, z, u
<1>3. /\ w \in Buffers(n) /\ w[o + 1] = x /\ w[o + 2] = y /\ w[o + 3] = z /\ w[o + 4] = u
      /\ \A i \in (1 .. n) \ (o + 1 .. o + 4) : w[i] = b[i]
  BY <1>1, FourBytesOverwritten
<1>4. readUint32LittleEndian(w, o) = v /\ OthersAreKept(n, b, w, o, 4)
  BY <1>1, <1>3 DEF readUint32LittleEndian, OthersAreKept
<1> QED
  BY <1>2, <1>4

\* The same with the high byte first: the session ID that CreateSession brings
\* back is the one that later commands carry.
THEOREM Uint32BigEndianReadsBack ==
  ASSUME NEW n \in Nat, NEW b \in Buffers(n), NEW o \in Nat, o + 4 <= n, NEW v \in Uint32
  PROVE  LET w == writeUint32BigEndian(b, o, v)
         IN readUint32BigEndian(w, o) = v /\ OthersAreKept(n, b, w, o, 4)
<1> DEFINE x == v % 256
           y == (v \div 256) % 256
           z == (v \div 65536) % 256
           u == (v \div 16777216) % 256
           w == Overwritten(b, o, <<u, z, y, x>>)
<1>1. /\ x \in Byte /\ y \in Byte /\ z \in Byte /\ u \in Byte
      /\ v = 16777216 * u + 65536 * z + 256 * y + x
  BY Uint32Bytes
<1>2. writeUint32BigEndian(b, o, v) = w
  BY DEF writeUint32BigEndian
<1> HIDE DEF x, y, z, u
<1>3. /\ w \in Buffers(n) /\ w[o + 1] = u /\ w[o + 2] = z /\ w[o + 3] = y /\ w[o + 4] = x
      /\ \A i \in (1 .. n) \ (o + 1 .. o + 4) : w[i] = b[i]
  BY <1>1, FourBytesOverwritten
<1>4. readUint32BigEndian(w, o) = v /\ OthersAreKept(n, b, w, o, 4)
  BY <1>1, <1>3 DEF readUint32BigEndian, OthersAreKept
<1> QED
  BY <1>2, <1>4

\* The last byte of a signed number of 32 bits, read as a signed one, is the
\* number without the other three.
LEMMA Int32TopByte ==
  ASSUME NEW v \in Int32
  PROVE  AsInt8((v \div 16777216) % 256) = v \div 16777216
<1>1. v \in Int /\ v \div 65536 \in Int16
  BY DEF Int32
<1>2. v \div 16777216 = (v \div 65536) \div 256
  BY <1>1, ShiftsAddUp
<1>3. v \div 16777216 \in Int8
  BY <1>1, <1>2 DEF Int16
<1> QED
  BY <1>3, CutSignedByte

\* A signed number of 32 bits: the top bit of its last byte is its sign.  The
\* angles that ChangeCommSettings sends are written and read in this way.
THEOREM Int32LittleEndianReadsBack ==
  ASSUME NEW n \in Nat, NEW b \in Buffers(n), NEW o \in Nat, o + 4 <= n, NEW v \in Int32
  PROVE  LET w == writeInt32LittleEndian(b, o, v)
         IN readInt32LittleEndian(w, o) = v /\ OthersAreKept(n, b, w, o, 4)
<1> DEFINE x == v % 256
           y == (v \div 256) % 256
           z == (v \div 65536) % 256
           u == (v \div 16777216) % 256
           w == Overwritten(b, o, <<x, y, z, u>>)
<1>1. v \in Int
  BY DEF Int32
<1>2. AsInt8(u) = v \div 16777216
  BY Int32TopByte
<1>3. /\ x \in Byte /\ y \in Byte /\ z \in Byte /\ u \in Byte
      /\ v = 16777216 * AsInt8(u) + 65536 * z + 256 * y + x
  <2>1. x \in Byte
    BY <1>1, LastByte
  <2>2. /\ y \in Byte /\ z \in Byte /\ u \in Byte
        /\ v = 16777216 * (v \div 16777216) + 65536 * z + 256 * y + x
    BY <1>1, FourBytes
  <2> HIDE DEF x, y, z, u
  <2> QED
    BY <1>2, <2>1, <2>2
<1>4. writeInt32LittleEndian(b, o, v) = w
  BY DEF writeInt32LittleEndian, writeUint32LittleEndian
<1> HIDE DEF x, y, z, u
<1>5. /\ w \in Buffers(n) /\ w[o + 1] = x /\ w[o + 2] = y /\ w[o + 3] = z /\ w[o + 4] = u
      /\ \A i \in (1 .. n) \ (o + 1 .. o + 4) : w[i] = b[i]
  BY <1>3, FourBytesOverwritten
<1>6. readInt32LittleEndian(w, o) = v /\ OthersAreKept(n, b, w, o, 4)
  BY <1>3, <1>5 DEF readInt32LittleEndian, OthersAreKept
<1> QED
  BY <1>4, <1>6
=============================================================================
