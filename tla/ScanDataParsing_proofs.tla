------------------------ MODULE ScanDataParsing_proofs ------------------------
(***************************************************************************)
(* The data that ParseData makes of a telegram, for every StartAngle,      *)
(* Resolution and MaxExpectedBeams, every set of telegrams and every       *)
(* number of beams.                                                        *)
(*                                                                         *)
(* The argument goes along the bytes.  WholeLayout follows the sensor as   *)
(* it joins the blocks and says where each of them is, BlockFound that a   *)
(* parser gets its block from its first byte on; the lemmas Same... say    *)
(* that a parser looks at no byte but those of its block, so that it makes *)
(* of the telegram what it makes of the block alone (WholeParsed).  The    *)
(* data are then a function of the telegram parsed last (ParsedInv), of    *)
(* which the invariants follow; the angles by induction over the beams     *)
(* (AnglesStayNear).                                                       *)
(*                                                                         *)
(* Recursive functions are taken apart by their equations: Iteration has   *)
(* that they exist, by induction over a set of numbers (SetInduction).     *)
(***************************************************************************)
EXTENDS ScanDataParsing, ByteOrder_proofs

-----------------------------------------------------------------------------
(* Buffers of bytes. *)

LEMMA BufferLength ==
  ASSUME NEW n \in Nat, NEW b \in Buffers(n)
  PROVE  Len(b) = n /\ DOMAIN b = 1 .. n /\ b \in Seq(Byte)
<1>1. b \in Seq(Byte) /\ DOMAIN b = 1 .. n
  BY SeqDef DEF Buffers
<1>2. Len(b) \in Nat /\ DOMAIN b = 1 .. Len(b)
  BY <1>1, LenProperties
<1> QED
  BY <1>1, <1>2, SameInterval

LEMMA BytesAreBuffer ==
  ASSUME NEW b \in Seq(Byte)
  PROVE  Len(b) \in Nat /\ b \in Buffers(Len(b))
BY LenProperties DEF Buffers

LEMMA Joined ==
  ASSUME NEW m \in Nat, NEW n \in Nat, NEW a \in Buffers(m), NEW b \in Buffers(n)
  PROVE  /\ a \o b \in Buffers(m + n)
         /\ \A i \in 1 .. m : (a \o b)[i] = a[i]
         /\ \A i \in 1 .. n : (a \o b)[m + i] = b[i]
<1>1. /\ Len(a) = m /\ a \in Seq(Byte) /\ Len(b) = n /\ b \in Seq(Byte)
  BY BufferLength
<1>2. /\ a \o b \in Seq(Byte) /\ Len(a \o b) = m + n
      /\ \A i \in 1 .. m + n : (a \o b)[i] = IF i <= m THEN a[i] ELSE b[i - m]
  BY <1>1, ConcatProperties
<1> DEFINE c == a \o b
<1> HIDE DEF c
<1>3. c \in Buffers(m + n)
  BY <1>2, LenProperties DEF Buffers, c
<1>4. \A i \in 1 .. m : i \in 1 .. m + n /\ i <= m
  OBVIOUS
<1>5. \A i \in 1 .. n : m + i \in 1 .. m + n /\ ~ (m + i <= m) /\ (m + i) - m = i
  OBVIOUS
<1>6. \A i \in 1 .. m : c[i] = a[i]
  BY <1>2, <1>4 DEF c
<1>7. \A i \in 1 .. n : c[m + i] = b[i]
  BY <1>2, <1>5 DEF c
<1> QED
  BY <1>3, <1>6, <1>7 DEF c

LEMMA FillerBytes ==
  ASSUME NEW n \in Nat, NEW seed \in Int
  PROVE  Filler(n, seed) \in Buffers(n)
<1>1. \A i \in 1 .. n : (37 * i + seed) % 64 \in Byte
  BY DEF Byte
<1> QED
  BY <1>1 DEF Filler, Buffers

\* Whatever number is written, what comes out are bytes.
LEMMA WrittenBytes ==
  ASSUME NEW n \in Nat, NEW b \in Buffers(n), NEW o \in Nat, NEW v \in Int
  PROVE  /\ o + 2 <= n => writeUint16LittleEndian(b, o, v) \in Buffers(n)
         /\ o + 4 <= n => writeUint32LittleEndian(b, o, v) \in Buffers(n)
<1>1. /\ v % 256 \in Byte /\ (v \div 256) % 256 \in Byte
      /\ (v \div 65536) % 256 \in Byte /\ (v \div 16777216) % 256 \in Byte
  BY LastByte, FourBytes
<1>2. o + 2 <= n => writeUint16LittleEndian(b, o, v) \in Buffers(n)
  BY <1>1, TwoBytesOverwritten DEF writeUint16LittleEndian
<1>3. o + 4 <= n => writeUint32LittleEndian(b, o, v) \in Buffers(n)
  BY <1>1, FourBytesOverwritten DEF writeUint32LittleEndian
<1> QED
  BY <1>2, <1>3

\* The n bytes of b from byte k on.
LEMMA PartOfBytes ==
  ASSUME NEW n \in Nat, NEW b \in Buffers(n), NEW k \in Nat, k <= n
  PROVE  /\ SubSeq(b, k + 1, n) \in Buffers(n - k)
         /\ \A i \in 1 .. n - k : SubSeq(b, k + 1, n)[i] = b[k + i]
         /\ SubSeq(b, 1, k) \in Buffers(k)
         /\ \A i \in 1 .. k : SubSeq(b, 1, k)[i] = b[i]
<1>1. Len(b) = n /\ b \in Seq(Byte)
  BY BufferLength
<1>2. /\ SubSeq(b, k + 1, n) \in Seq(Byte)
      /\ Len(SubSeq(b, k + 1, n)) = n - k
      /\ \A i \in 1 .. n - k : SubSeq(b, k + 1, n)[i] = b[k + i]
  BY <1>1, SubSeqProperties
<1>3. /\ SubSeq(b, 1, k) \in Seq(Byte)
      /\ Len(SubSeq(b, 1, k)) = k
      /\ \A i \in 1 .. k : SubSeq(b, 1, k)[i] = b[i]
  BY <1>1, SubSeqProperties
<1>4. SubSeq(b, k + 1, n) \in Buffers(n - k)
  BY <1>2, BytesAreBuffer
<1>5. SubSeq(b, 1, k) \in Buffers(k)
  BY <1>3, BytesAreBuffer
<1> QED
  BY <1>2, <1>3, <1>4, <1>5

-----------------------------------------------------------------------------
(* Recursive functions. *)

\* A function that takes one step of g after the other.
LEMMA Iteration ==
  ASSUME NEW D, NEW z \in D, NEW n \in Nat, NEW g \in [(1 .. n) \X D -> D]
  PROVE  \E f \in [0 .. n -> D] : f[0] = z /\ \A i \in 1 .. n : f[i] = g[<<i, f[i - 1]>>]
<1> DEFINE Steps(f, m) == f[0] = z /\ \A i \in 1 .. m : f[i] = g[<<i, f[i - 1]>>]
           T == {m \in Nat : m <= n => \E f \in [0 .. m -> D] : Steps(f, m)}
<1>1. 0 \in T
  <2>1. [i \in 0 .. 0 |-> z] \in [0 .. 0 -> D] /\ Steps([i \in 0 .. 0 |-> z], 0)
    OBVIOUS
  <2> QED
    BY <2>1
<1>2. ASSUME NEW m \in Nat, m \in T
      PROVE  m + 1 \in T
  <2> SUFFICES ASSUME m + 1 <= n
               PROVE  \E f \in [0 .. m + 1 -> D] : Steps(f, m + 1)
    OBVIOUS
  <2>1. PICK f \in [0 .. m -> D] : Steps(f, m)
    BY <1>2
  <2> DEFINE h == [i \in 0 .. m + 1 |-> IF i = m + 1 THEN g[<<m + 1, f[m]>>] ELSE f[i]]
  <2>2. /\ m \in 0 .. m /\ m \in 0 .. m + 1 /\ m # m + 1 /\ m + 1 \in 0 .. m + 1
        /\ 0 \in 0 .. m + 1 /\ 0 # m + 1
    OBVIOUS
  <2>3. <<m + 1, f[m]>> \in (1 .. n) \X D
    BY <2>2
  <2>4. h \in [0 .. m + 1 -> D]
    BY <2>3
  <2>5. ASSUME NEW i \in 1 .. m + 1
        PROVE  h[i] = g[<<i, h[i - 1]>>]
    <3>1. CASE i = m + 1
      <4>1. h[i] = g[<<m + 1, f[m]>>] /\ h[m] = f[m] /\ i - 1 = m
        BY <2>2, <3>1
      <4> QED
        BY <3>1, <4>1
    <3>2. CASE i # m + 1
      <4>1. i \in 1 .. m /\ i \in 0 .. m + 1 /\ i - 1 \in 0 .. m + 1 /\ i - 1 # m + 1
        BY <3>2
      <4>2. h[i] = f[i] /\ h[i - 1] = f[i - 1]
        BY <3>2, <4>1
      <4> QED
        BY <2>1, <4>1, <4>2
    <3> QED
      BY <3>1, <3>2
  <2>6. h[0] = z
    BY <2>1, <2>2
  <2> HIDE DEF h
  <2> QED
    BY <2>4, <2>5, <2>6
<1> HIDE DEF T
<1>3. n \in T
  BY <1>1, <1>2, SetInduction
<1> QED
  BY <1>3 DEF T

\* Iteration in words that the provers can match.
MakesSteps(g, n, D) == g \in [(1 .. n) \X D -> D]
TakesSteps(f, z, n, g) == f[0] = z /\ \A i \in 1 .. n : f[i] = g[<<i, f[i - 1]>>]

LEMMA StepsAreTaken ==
  ASSUME NEW D, NEW z, z \in D, NEW n, n \in Nat, NEW g, MakesSteps(g, n, D)
  PROVE  \E f \in [0 .. n -> D] : TakesSteps(f, z, n, g)
<1> DEFINE Q(f) == f[0] = z /\ \A i \in 1 .. n : f[i] = g[<<i, f[i - 1]>>]
<1>1. \E f \in [0 .. n -> D] : Q(f)
  BY Iteration DEF MakesSteps
<1> QED
  BY <1>1, Zenon DEF TakesSteps

-----------------------------------------------------------------------------
(* The bytes of the blocks. *)

LEMMA BlockSizes ==
  ASSUME NEW beams \in Uint16
  PROVE  /\ beams \in Uint32 /\ beams \in Nat
         /\ IntrusionSizes(beams) \in [1 .. NumberOfIntrusionDatums -> Nat]
         /\ \A i \in 1 .. NumberOfIntrusionDatums :
              /\ IntrusionSizes(beams)[i] \in Int32
              /\ IntrusionSizes(beams)[i] \in {0, (beams + 7) \div 8}
<1>1. beams \in Nat /\ beams \div 256 \in 0 .. 255
  BY DEF Uint16, Uint8, Byte
<1>2. beams < 65536
  BY <1>1
<1> HIDE DEF NumberOfIntrusionDatums
<1>3. beams \div 65536 = 0
  BY <1>1, <1>2
<1>4. 0 \in Uint16 /\ 0 \in Int16
  BY DEF Uint16, Uint8, Int16, Int8, Byte
<1>5. beams \in Uint32
  BY <1>1, <1>3, <1>4 DEF Uint32
<1>6. PICK s : s = (beams + 7) \div 8
  OBVIOUS
<1>7. s \in Nat /\ s \div 65536 = 0
  BY <1>1, <1>2, <1>6
<1>8. s \in Int32 /\ 0 \in Int32
  <2>1. 0 \div 65536 = 0
    OBVIOUS
  <2> QED
    BY <1>4, <1>7, <2>1 DEF Int32
<1>9. IntrusionSizes(beams) = [i \in 1 .. NumberOfIntrusionDatums |-> IF i % 3 = 0 THEN 0 ELSE s]
  BY <1>6 DEF IntrusionSizes
<1> QED
  BY <1>1, <1>5, <1>6, <1>7, <1>8, <1>9

\* P holds the intrusion data: 24 of them, each behind its size, that of datum i at pos[i].
DatumsAt(P, pos, beams) ==
  LET sizes == IntrusionSizes(beams)
  IN /\ pos \in [1 .. NumberOfIntrusionDatums + 1 -> Nat] /\ pos[1] = 0
     /\ \A i \in 1 .. NumberOfIntrusionDatums :
          /\ pos[i + 1] = pos[i] + 4 + sizes[i]
          /\ readInt32LittleEndian(P, pos[i]) = sizes[i]
     /\ P \in Buffers(pos[NumberOfIntrusionDatums + 1])

DatumBytes(beams, i) ==
  LET size == IntrusionSizes(beams)[i] IN writeUint32LittleEndian(Filler(4 + size, i), 0, size)

LEMMA DatumRead ==
  ASSUME NEW beams \in Uint16, NEW i \in 1 .. NumberOfIntrusionDatums
  PROVE  /\ DatumBytes(beams, i) \in Buffers(4 + IntrusionSizes(beams)[i])
         /\ readInt32LittleEndian(DatumBytes(beams, i), 0) = IntrusionSizes(beams)[i]
<1>1. PICK size : size = IntrusionSizes(beams)[i]
  OBVIOUS
<1>2. size \in Nat /\ size \in Int32
  BY <1>1, BlockSizes
<1>3. i \in Int
  BY DEF NumberOfIntrusionDatums
<1>4. 4 + size \in Nat /\ 0 + 4 <= 4 + size
  BY <1>2
<1>5. Filler(4 + size, i) \in Buffers(4 + size)
  BY <1>3, <1>4, FillerBytes
<1> DEFINE w == writeInt32LittleEndian(Filler(4 + size, i), 0, size)
<1>6. readInt32LittleEndian(w, 0) = size /\ OthersAreKept(4 + size, Filler(4 + size, i), w, 0, 4)
  BY <1>2, <1>4, <1>5, Int32LittleEndianReadsBack
<1>7. w = DatumBytes(beams, i)
  BY <1>1 DEF DatumBytes, writeInt32LittleEndian
<1> QED
  BY <1>1, <1>6, <1>7 DEF OthersAreKept

\* Datum by datum.
DatumsJoined(beams, f) ==
  f = [i \in 0 .. NumberOfIntrusionDatums |->
         IF i = 0 THEN <<>> ELSE f[i - 1] \o DatumBytes(beams, i)]

LEMMA DatumsEquation ==
  ASSUME NEW beams, NEW f, DatumsJoined(beams, f)
  PROVE  /\ f[0] = <<>>
         /\ \A i \in 1 .. NumberOfIntrusionDatums : f[i] = f[i - 1] \o DatumBytes(beams, i)
         /\ f = [i \in 0 .. NumberOfIntrusionDatums |-> f[i]]
<1> DEFINE N == NumberOfIntrusionDatums
           e == [i \in 0 .. N |-> IF i = 0 THEN <<>> ELSE f[i - 1] \o DatumBytes(beams, i)]
<1>1. N \in Nat
  BY DEF NumberOfIntrusionDatums
<1>2. f = e
  BY DEF DatumsJoined
<1> HIDE DEF N
<1>3. e[0] = <<>> /\ \A i \in 1 .. N : e[i] = f[i - 1] \o DatumBytes(beams, i)
  <2>1. 0 \in 0 .. N /\ \A i \in 1 .. N : i \in 0 .. N /\ i # 0
    BY <1>1
  <2> QED
    BY <2>1
<1>4. e = [i \in 0 .. N |-> e[i]]
  OBVIOUS
<1> HIDE DEF e
<1> QED
  BY <1>2, <1>3, <1>4 DEF N

LEMMA DatumsExist ==
  ASSUME NEW beams \in Uint16
  PROVE  \E f : DatumsJoined(beams, f)
<1> DEFINE N == NumberOfIntrusionDatums
           D == Seq(Byte)
           g == [p \in (1 .. N) \X D |-> p[2] \o DatumBytes(beams, p[1])]
<1>2. N \in Nat
  BY DEF NumberOfIntrusionDatums
<1>3. \A i \in 1 .. N : DatumBytes(beams, i) \in D
  <2> TAKE i \in 1 .. N
  <2>1. IntrusionSizes(beams)[i] \in Nat
    BY BlockSizes
  <2>2. 4 + IntrusionSizes(beams)[i] \in Nat
    BY <2>1
  <2> QED
    BY <2>2, DatumRead, BufferLength
<1> HIDE DEF N
<1>4. g \in [(1 .. N) \X D -> D]
  <2>1. ASSUME NEW p \in (1 .. N) \X D PROVE p[2] \o DatumBytes(beams, p[1]) \in D
    <3>1. p[1] \in 1 .. N /\ p[2] \in D
      OBVIOUS
    <3>2. DatumBytes(beams, p[1]) \in D
      BY <1>3, <3>1
    <3> QED
      BY <3>1, <3>2, ConcatProperties
  <2> QED
    BY <2>1
<1>1. <<>> \in D
  OBVIOUS
<1>5. PICK z \in D : z = <<>>
  BY <1>1, Zenon
<1> HIDE DEF D
<1>6. ASSUME NEW i \in 1 .. N, NEW b \in D PROVE g[<<i, b>>] = b \o DatumBytes(beams, i)
  OBVIOUS
<1> HIDE DEF g
<1>7. PICK f \in [0 .. N -> D] : f[0] = z /\ \A i \in 1 .. N : f[i] = g[<<i, f[i - 1]>>]
  BY <1>2, <1>4, <1>5, Iteration
<1>8. \A i \in 1 .. N : i - 1 \in 0 .. N
  BY <1>2
<1>9. \A i \in 1 .. N : f[i] = f[i - 1] \o DatumBytes(beams, i)
  BY <1>6, <1>7, <1>8
<1>10. \A i \in 0 .. N : f[i] = IF i = 0 THEN <<>> ELSE f[i - 1] \o DatumBytes(beams, i)
  <2> TAKE i \in 0 .. N
  <2>1. i # 0 => i \in 1 .. N
    BY <1>2
  <2> QED
    BY <1>5, <1>7, <1>9, <2>1
<1> QED
  BY <1>7, <1>10 DEF DatumsJoined, N

LEMMA IntrusionIsJoined ==
  ASSUME NEW beams \in Uint16
  PROVE  \E f : DatumsJoined(beams, f) /\ IntrusionBytes(beams) = f[NumberOfIntrusionDatums]
<1> DEFINE F == CHOOSE f : DatumsJoined(beams, f)
<1>1. IntrusionBytes(beams) = F[NumberOfIntrusionDatums]
  BY DEF IntrusionBytes, DatumsJoined, DatumBytes
<1>2. DatumsJoined(beams, F)
  BY DatumsExist
<1> QED
  BY <1>1, <1>2

\* Where the intrusion data are.
LEMMA IntrusionLayout ==
  ASSUME NEW beams \in Uint16
  PROVE  \E pos : DatumsAt(IntrusionBytes(beams), pos, beams)
<1> DEFINE N == NumberOfIntrusionDatums
           sizes == IntrusionSizes(beams)
<1>1. PICK f : DatumsJoined(beams, f) /\ IntrusionBytes(beams) = f[N]
  BY IntrusionIsJoined
<1>2. N \in Nat
  BY DEF NumberOfIntrusionDatums
<1>3. /\ f[0] = <<>>
      /\ \A i \in 1 .. N : f[i] = f[i - 1] \o DatumBytes(beams, i)
  BY <1>1, DatumsEquation
<1>4. \A i \in 1 .. N : /\ sizes[i] \in Nat
                        /\ DatumBytes(beams, i) \in Buffers(4 + sizes[i])
                        /\ readInt32LittleEndian(DatumBytes(beams, i), 0) = sizes[i]
  BY BlockSizes, DatumRead
<1> HIDE DEF N, sizes
\* The first m data, each of them where they are in longer ones.
<1> DEFINE Good(m) == /\ Len(f[m]) \in Nat /\ f[m] \in Buffers(Len(f[m]))
                      /\ \A i \in 1 .. m :
                           /\ Len(f[i - 1]) \in Nat
                           /\ Len(f[i]) = Len(f[i - 1]) + 4 + sizes[i]
                           /\ Len(f[i]) <= Len(f[m])
                           /\ readInt32LittleEndian(f[m], Len(f[i - 1])) = sizes[i]
           T == {m \in Nat : m <= N => Good(m)}
<1>5. 0 \in T
  <2>1. f[0] \in Seq(Byte)
    BY <1>3
  <2>2. Len(f[0]) \in Nat /\ f[0] \in Buffers(Len(f[0]))
    BY <2>1, BytesAreBuffer
  <2> QED
    BY <2>2
<1>6. ASSUME NEW m \in Nat, m \in T PROVE m + 1 \in T
  <2> SUFFICES ASSUME m + 1 <= N PROVE Good(m + 1)
    OBVIOUS
  <2> DEFINE a == f[m]
             b == DatumBytes(beams, m + 1)
             k == Len(f[m])
             n == 4 + sizes[m + 1]
             c == f[m + 1]
  <2>1. /\ Good(m) /\ m + 1 \in 1 .. N /\ (m + 1) - 1 = m
    BY <1>2, <1>6
  <2>2. /\ k \in Nat /\ a \in Buffers(k)
    BY <2>1
  <2>3. sizes[m + 1] \in Nat /\ n \in Nat /\ b \in Buffers(n) /\ readInt32LittleEndian(b, 0) = sizes[m + 1]
    BY <1>4, <2>1
  <2>4. c = a \o b
    BY <1>3, <2>1
  <2>5. /\ c \in Buffers(k + n)
        /\ \A i \in 1 .. k : c[i] = a[i]
        /\ \A i \in 1 .. n : c[k + i] = b[i]
    <3> HIDE DEF a, b, k, n, c
    <3> QED
      BY <2>2, <2>3, <2>4, Joined
  <2>6. Len(c) = k + n
    <3>1. k + n \in Nat
      BY <2>2, <2>3
    <3> HIDE DEF a, b, k, n, c
    <3> QED
      BY <2>5, <3>1, BufferLength
  <2>7. readInt32LittleEndian(c, k) = sizes[m + 1]
    <3>1. 1 \in 1 .. n /\ 2 \in 1 .. n /\ 3 \in 1 .. n /\ 4 \in 1 .. n
      BY <2>3
    <3>2. /\ readInt32LittleEndian(c, k)
             = 16777216 * AsInt8(c[k + 4]) + 65536 * c[k + 3] + 256 * c[k + 2] + c[k + 1]
          /\ readInt32LittleEndian(b, 0)
             = 16777216 * AsInt8(b[4]) + 65536 * b[3] + 256 * b[2] + b[1]
      BY DEF readInt32LittleEndian
    <3> HIDE DEF a, b, k, n, c
    <3>3. c[k + 1] = b[1] /\ c[k + 2] = b[2] /\ c[k + 3] = b[3] /\ c[k + 4] = b[4]
      BY <2>5, <3>1
    <3> QED
      BY <2>3, <3>2, <3>3
  <2>8. ASSUME NEW i \in 1 .. m
        PROVE  /\ Len(f[i - 1]) \in Nat
               /\ Len(f[i]) = Len(f[i - 1]) + 4 + sizes[i]
               /\ Len(f[i]) <= Len(c)
               /\ readInt32LittleEndian(c, Len(f[i - 1])) = sizes[i]
    <3> DEFINE o == Len(f[i - 1])
    <3>1. /\ o \in Nat /\ Len(f[i]) = o + 4 + sizes[i] /\ Len(f[i]) <= k
          /\ readInt32LittleEndian(a, o) = sizes[i]
      BY <2>1
    <3>2. sizes[i] \in Nat
      <4>1. i \in 1 .. N
        BY <1>2, <2>1
      <4> QED
        BY <1>4, <4>1
    <3> HIDE DEF a, k, c, o, n
    <3>3. o + 1 \in 1 .. k /\ o + 2 \in 1 .. k /\ o + 3 \in 1 .. k /\ o + 4 \in 1 .. k
      BY <2>2, <3>1, <3>2
    <3>4. readInt32LittleEndian(c, o) = readInt32LittleEndian(a, o)
      BY <2>5, <3>3 DEF readInt32LittleEndian
    <3>5. Len(f[i]) <= Len(c)
      BY <2>2, <2>3, <2>6, <3>1, <3>2
    <3> QED
      BY <3>1, <3>4, <3>5 DEF o
  <2>9. ASSUME NEW i \in 1 .. m + 1
        PROVE  /\ Len(f[i - 1]) \in Nat
               /\ Len(f[i]) = Len(f[i - 1]) + 4 + sizes[i]
               /\ Len(f[i]) <= Len(c)
               /\ readInt32LittleEndian(c, Len(f[i - 1])) = sizes[i]
    <3>1. CASE i = m + 1
      <4>1. Len(f[i]) = Len(c) /\ Len(c) = k + 4 + sizes[m + 1] /\ Len(c) \in Nat
        BY <2>2, <2>3, <2>6, <3>1
      <4> QED
        BY <2>1, <2>2, <2>7, <3>1, <4>1
    <3>2. CASE i # m + 1
      <4>1. i \in 1 .. m
        BY <3>2
      <4> HIDE DEF c
      <4> QED
        BY <2>8, <4>1
    <3> QED
      BY <3>1, <3>2
  <2>10. Len(c) \in Nat /\ c \in Buffers(Len(c))
    <3>1. k + n \in Nat
      BY <2>2, <2>3
    <3> HIDE DEF a, b, k, n, c
    <3> QED
      BY <2>5, <2>6, <3>1
  <2> QED
    BY <2>9, <2>10
<1> HIDE DEF Good
<1>7. \A m \in Nat : m \in T
  <2> HIDE DEF T
  <2> QED
    BY <1>5, <1>6, SetInduction
<1>8. Good(N)
  BY <1>2, <1>7
<1> DEFINE pos == [i \in 1 .. N + 1 |-> Len(f[i - 1])]
<1>9. /\ Len(f[N]) \in Nat /\ f[N] \in Buffers(Len(f[N]))
      /\ \A i \in 1 .. N :
           /\ Len(f[i - 1]) \in Nat
           /\ Len(f[i]) = Len(f[i - 1]) + 4 + sizes[i]
           /\ readInt32LittleEndian(f[N], Len(f[i - 1])) = sizes[i]
  BY <1>8 DEF Good
<1>10. ASSUME NEW i \in 1 .. N + 1 PROVE Len(f[i - 1]) \in Nat
  <2>1. i \in 1 .. N \/ i - 1 = N
    BY <1>2
  <2> QED
    BY <1>9, <2>1
<1>11. pos \in [1 .. N + 1 -> Nat]
  BY <1>10
<1>12. pos[1] = 0
  <2>1. 1 \in 1 .. N + 1 /\ 1 - 1 = 0
    BY <1>2
  <2>2. pos[1] = Len(f[0])
    BY <2>1
  <2>3. Len(<<>>) = 0
    OBVIOUS
  <2> QED
    BY <1>3, <2>2, <2>3
<1>13. ASSUME NEW i \in 1 .. N
       PROVE  pos[i + 1] = Len(f[i]) /\ pos[i] = Len(f[i - 1])
  <2>1. i \in 1 .. N + 1 /\ i + 1 \in 1 .. N + 1 /\ (i + 1) - 1 = i
    BY <1>2
  <2> QED
    BY <2>1
<1>14. pos[N + 1] = Len(f[N])
  <2>1. N + 1 \in 1 .. N + 1 /\ (N + 1) - 1 = N
    BY <1>2
  <2> QED
    BY <2>1
<1> HIDE DEF pos
<1>15. \A i \in 1 .. N : /\ pos[i + 1] = pos[i] + 4 + sizes[i]
                         /\ readInt32LittleEndian(f[N], pos[i]) = sizes[i]
  BY <1>9, <1>13
<1>16. DatumsAt(f[N], pos, beams)
  BY <1>9, <1>11, <1>12, <1>14, <1>15 DEF DatumsAt, N, sizes
<1> QED
  BY <1>1, <1>16

-----------------------------------------------------------------------------
(* A parser looks at the bytes of its block alone. *)

\* The first n bytes are the same.
Same(u, v, n) == \A i \in 1 .. n : u[i] = v[i]

LEMMA SameReads ==
  ASSUME NEW u, NEW v, NEW n \in Nat, Same(u, v, n), NEW o \in Nat
  PROVE  /\ o + 1 <= n => readUint8(u, o) = readUint8(v, o)
         /\ o + 2 <= n => readUint16LittleEndian(u, o) = readUint16LittleEndian(v, o)
         /\ o + 4 <= n => readUint32LittleEndian(u, o) = readUint32LittleEndian(v, o)
         /\ o + 4 <= n => readInt32LittleEndian(u, o) = readInt32LittleEndian(v, o)
<1>1. ASSUME NEW k \in 1 .. 4, o + k <= n PROVE u[o + k] = v[o + k]
  BY <1>1 DEF Same
<1>2. o + 1 <= n => u[o + 1] = v[o + 1]
  BY <1>1
<1>3. o + 2 <= n => u[o + 1] = v[o + 1] /\ u[o + 2] = v[o + 2]
  BY <1>1
<1>4. o + 4 <= n => u[o + 1] = v[o + 1] /\ u[o + 2] = v[o + 2] /\ u[o + 3] = v[o + 3] /\ u[o + 4] = v[o + 4]
  BY <1>1
<1> QED
  BY <1>2, <1>3, <1>4
     DEF readUint8, readUint16LittleEndian, readUint32LittleEndian, readInt32LittleEndian

LEMMA SameBit ==
  ASSUME NEW u, NEW v, NEW n \in Nat, Same(u, v, n), NEW o \in Nat, o + 1 <= n, NEW k
  PROVE  Bit(u, o, k) = Bit(v, o, k)
<1>1. u[o + 1] = v[o + 1]
  BY DEF Same
<1> QED
  BY <1>1 DEF Bit

LEMMA SameFlags ==
  ASSUME NEW u, NEW v, NEW n \in Nat, Same(u, v, n), NEW o \in Nat, NEW m \in Nat,
         o + (m + 7) \div 8 <= n
  PROVE  Flags(u, o, m) = Flags(v, o, m)
<1>1. ASSUME NEW i \in 1 .. m
      PROVE  Bit(u, o + (i - 1) \div 8, (i - 1) % 8) = Bit(v, o + (i - 1) \div 8, (i - 1) % 8)
  <2>1. (i - 1) \div 8 \in Nat /\ (i - 1) \div 8 + 1 <= (m + 7) \div 8
    OBVIOUS
  <2>2. PICK p : p = o + (i - 1) \div 8
    OBVIOUS
  <2>3. p \in Nat /\ p + 1 <= n
    BY <2>1, <2>2
  <2> QED
    BY <2>2, <2>3, SameBit
<1> QED
  BY <1>1 DEF Flags

LEMMA SameDerivedValues ==
  ASSUME NEW u, NEW v, Same(u, v, 20)
  PROVE  SetDataInDerivedValues(u) = SetDataInDerivedValues(v)
<1>1. /\ readUint16LittleEndian(u, 0) = readUint16LittleEndian(v, 0)
      /\ readUint16LittleEndian(u, 2) = readUint16LittleEndian(v, 2)
      /\ readUint16LittleEndian(u, 4) = readUint16LittleEndian(v, 4)
      /\ readInt32LittleEndian(u, 8) = readInt32LittleEndian(v, 8)
      /\ readInt32LittleEndian(u, 12) = readInt32LittleEndian(v, 12)
      /\ readUint32LittleEndian(u, 16) = readUint32LittleEndian(v, 16)
  BY SameReads
<1> QED
  BY <1>1 DEF SetDataInDerivedValues

LEMMA SamePoint ==
  ASSUME NEW u, NEW v, NEW n \in Nat, Same(u, v, n), NEW i \in Nat, 8 + i * 4 <= n, NEW angle
  PROVE  AddScanPointToMeasurementData(u, i, angle) = AddScanPointToMeasurementData(v, i, angle)
<1>1. /\ readUint16LittleEndian(u, 4 + i * 4) = readUint16LittleEndian(v, 4 + i * 4)
      /\ readUint8(u, 6 + i * 4) = readUint8(v, 6 + i * 4)
  BY SameReads
<1>2. \A k : Bit(u, 7 + i * 4, k) = Bit(v, 7 + i * 4, k)
  BY SameBit
<1> QED
  BY <1>1, <1>2 DEF AddScanPointToMeasurementData

LEMMA SameMeasurementData ==
  ASSUME NEW u, NEW v, NEW beams \in Nat, Same(u, v, 4 + 4 * beams),
         readUint32LittleEndian(v, 0) = beams, NEW start, NEW delta
  PROVE  SetDataInMeasurementData(u, start, delta) = SetDataInMeasurementData(v, start, delta)
<1>1. PICK n : n = 4 + 4 * beams
  OBVIOUS
<1>2. n \in Nat /\ Same(u, v, n) /\ 0 + 4 <= n
  BY <1>1
<1>3. readUint32LittleEndian(u, 0) = beams
  BY <1>2, SameReads
<1> DEFINE angle == AngleAfter(start, delta, beams)
           P(b) == [i \in 1 .. beams |-> AddScanPointToMeasurementData(b, i - 1, angle[i - 1])]
<1> HIDE DEF angle
<1>4. P(u) = P(v)
  <2>1. ASSUME NEW i \in 1 .. beams
        PROVE  AddScanPointToMeasurementData(u, i - 1, angle[i - 1])
               = AddScanPointToMeasurementData(v, i - 1, angle[i - 1])
    <3>1. i - 1 \in Nat /\ 8 + (i - 1) * 4 <= n
      BY <1>1
    <3> QED
      BY <1>2, <3>1, SamePoint
  <2> QED
    BY <2>1
<1>5. \A b : readUint32LittleEndian(b, 0) = beams =>
        SetDataInMeasurementData(b, start, delta)
        = IF beams > MaxExpectedBeams
          THEN [measurement_data |-> [is_empty |-> TRUE, number_of_beams |-> 0], m_angle |-> start]
          ELSE [measurement_data |-> [is_empty           |-> FALSE,
                                      number_of_beams    |-> beams,
                                      scan_points_vector |-> P(b)],
                m_angle          |-> angle[beams]]
  BY DEF SetDataInMeasurementData, angle
<1> QED
  BY <1>3, <1>4, <1>5

\* What the parser of the general system state makes of a block.
StateIn(block) ==
  [is_empty |-> FALSE]
  ++ SetStatusBitsInGeneralSystemState(block)
  ++ SetCutOffPathsInGeneralSystemState(block)
  ++ SetCasesAndErrorsInGeneralSystemState(block)

LEMMA SameState ==
  ASSUME NEW u, NEW v, Same(u, v, 16)
  PROVE  StateIn(u) = StateIn(v)
<1>1. \A k : Bit(u, 0, k) = Bit(v, 0, k)
  BY SameBit
<1>2. SetStatusBitsInGeneralSystemState(u) = SetStatusBitsInGeneralSystemState(v)
  BY <1>1, Zenon DEF SetStatusBitsInGeneralSystemState
<1>3. SetCutOffPathsInGeneralSystemState(u) = SetCutOffPathsInGeneralSystemState(v)
  <2>1. \A o \in {1, 4, 7} : Flags(u, o, 20) = Flags(v, o, 20)
    BY SameFlags
  <2> QED
    BY <2>1 DEF SetCutOffPathsInGeneralSystemState
<1>4. SetCasesAndErrorsInGeneralSystemState(u) = SetCasesAndErrorsInGeneralSystemState(v)
  <2>1. \A i \in 1 .. 4 : readUint8(u, 9 + i) = readUint8(v, 9 + i)
    BY SameReads
  <2>2. \A k : Bit(u, 15, k) = Bit(v, 15, k)
    BY SameBit
  <2>3. [i \in 1 .. 4 |-> readUint8(u, 9 + i)] = [i \in 1 .. 4 |-> readUint8(v, 9 + i)]
    BY <2>1
  <2> QED
    BY <2>2, <2>3, Zenon DEF SetCasesAndErrorsInGeneralSystemState
<1> QED
  BY <1>2, <1>3, <1>4 DEF StateIn

\* What the parser of the application data makes of a block.
ApplicationIn(block) ==
  [is_empty |-> FALSE,
   inputs   |-> SetDataInApplicationInputs(block),
   outputs  |-> SetEvaluationPathsOutputs(block) ++ SetMonitoringCaseOutputs(block)
                ++ SetErrorFlags(block) ++ SetLinearVelocity(block, 200)
                ++ SetResultingVelocityOutputs(block)]

LEMMA SameNumbers ==
  ASSUME NEW u, NEW v, NEW n \in Nat, Same(u, v, n), NEW o \in Nat, NEW m \in Nat, o + 2 * m <= n
  PROVE  Uint16s(u, o, m) = Uint16s(v, o, m) /\ Int16s(u, o, m) = Int16s(v, o, m)
<1>1. ASSUME NEW i \in 1 .. m
      PROVE  readUint16LittleEndian(u, o + (i - 1) * 2) = readUint16LittleEndian(v, o + (i - 1) * 2)
  <2>1. PICK p : p = o + (i - 1) * 2
    OBVIOUS
  <2>2. p \in Nat /\ p + 2 <= n
    BY <2>1
  <2> QED
    BY <2>1, <2>2, SameReads
<1> QED
  BY <1>1 DEF Uint16s, Int16s, readInt16LittleEndian

LEMMA SameVelocity ==
  ASSUME NEW u, NEW v, NEW n \in Nat, Same(u, v, n), NEW o \in Nat, o + 5 <= n
  PROVE  SetLinearVelocity(u, o) = SetLinearVelocity(v, o)
<1>1. readUint16LittleEndian(u, o) = readUint16LittleEndian(v, o)
  BY SameReads
<1>2. readUint16LittleEndian(u, o + 2) = readUint16LittleEndian(v, o + 2)
  BY SameReads
<1>3. \A k : Bit(u, o + 4, k) = Bit(v, o + 4, k)
  BY SameBit
<1> QED
  BY <1>1, <1>2, <1>3, Zenon DEF SetLinearVelocity

LEMMA SameApplication ==
  ASSUME NEW u, NEW v, Same(u, v, 260)
  PROVE  ApplicationIn(u) = ApplicationIn(v)
<1>1. /\ SetLinearVelocity(u, 56) = SetLinearVelocity(v, 56)
      /\ SetLinearVelocity(u, 200) = SetLinearVelocity(v, 200)
  BY SameVelocity
<1>2. SetDataInApplicationInputs(u) = SetDataInApplicationInputs(v)
  <2>1. /\ Flags(u, 0, 32) = Flags(v, 0, 32)
        /\ Flags(u, 4, 32) = Flags(v, 4, 32)
        /\ Flags(u, 52, 20) = Flags(v, 52, 20)
    BY SameFlags
  <2>2. Uint16s(u, 12, 20) = Uint16s(v, 12, 20) /\ readUint8(u, 74) = readUint8(v, 74)
    BY SameNumbers, SameReads
  <2> QED
    BY <1>1, <2>1, <2>2, Zenon DEF SetDataInApplicationInputs
<1>3. SetEvaluationPathsOutputs(u) = SetEvaluationPathsOutputs(v)
  <2>1. \A o \in {140, 144, 148} : Flags(u, o, 20) = Flags(v, o, 20)
    BY SameFlags
  <2> QED
    BY <2>1 DEF SetEvaluationPathsOutputs
<1>4. SetMonitoringCaseOutputs(u) = SetMonitoringCaseOutputs(v)
  <2>1. /\ Uint16s(u, 152, 20) = Uint16s(v, 152, 20)
        /\ Flags(u, 192, 20) = Flags(v, 192, 20)
        /\ readUint8(u, 193) = readUint8(v, 193)
    BY SameNumbers, SameFlags, SameReads
  <2> QED
    BY <2>1, Zenon DEF SetMonitoringCaseOutputs
<1>5. SetErrorFlags(u) = SetErrorFlags(v)
  <2>1. \A k : Bit(u, 194, k) = Bit(v, 194, k)
    BY SameBit
  <2> QED
    BY <2>1, Zenon DEF SetErrorFlags
<1>6. SetResultingVelocityOutputs(u) = SetResultingVelocityOutputs(v)
  <2>1. \A k : Bit(u, 259, k) = Bit(v, 259, k)
    BY SameBit
  <2>2. Int16s(u, 208, 20) = Int16s(v, 208, 20) /\ Flags(u, 248, 20) = Flags(v, 248, 20)
    BY SameNumbers, SameFlags
  <2> QED
    BY <2>1, <2>2, Zenon DEF SetResultingVelocityOutputs
<1> QED
  BY <1>1, <1>2, <1>3, <1>4, <1>5, <1>6, Zenon DEF ApplicationIn

\* The intrusion data that are at pos in P.
IntrusionsAt(P, pos, beams, num) ==
  [i \in 1 .. NumberOfIntrusionDatums |->
     [size         |-> IntrusionSizes(beams)[i],
      flags_vector |-> SetFlagsInIntrusionDatum(P, pos[i] + 4, IntrusionSizes(beams)[i], num)]]

\* Every datum is where the ones before it end.
LEMMA DatumPlaces ==
  ASSUME NEW beams \in Uint16, NEW P, NEW pos, DatumsAt(P, pos, beams)
  PROVE  \A i \in 1 .. NumberOfIntrusionDatums :
           pos[i] \in Nat /\ pos[i] + 4 + IntrusionSizes(beams)[i] <= pos[NumberOfIntrusionDatums + 1]
<1> DEFINE N == NumberOfIntrusionDatums
           sizes == IntrusionSizes(beams)
           T == {m \in Nat : \A i \in 1 .. N : i + m = N => pos[i] + 4 + sizes[i] <= pos[N + 1]}
<1>1. N \in Nat
  BY DEF NumberOfIntrusionDatums
<1>2. /\ \A i \in 1 .. N + 1 : pos[i] \in Nat
      /\ \A i \in 1 .. N : pos[i + 1] = pos[i] + 4 + sizes[i]
  BY DEF DatumsAt
<1>3. \A i \in 1 .. N : sizes[i] \in Nat
  BY BlockSizes
<1> HIDE DEF N, sizes
<1>4. 0 \in T
  <2>1. \A i \in 1 .. N : i + 0 = N => i = N
    BY <1>1
  <2> QED
    BY <1>1, <1>2, <2>1
<1>5. ASSUME NEW m \in Nat, m \in T PROVE m + 1 \in T
  <2> SUFFICES ASSUME NEW i \in 1 .. N, i + (m + 1) = N
               PROVE  pos[i] + 4 + sizes[i] <= pos[N + 1]
    OBVIOUS
  <2>1. i + 1 \in 1 .. N /\ (i + 1) + m = N /\ i \in 1 .. N + 1 /\ i + 1 \in 1 .. N + 1 /\ N + 1 \in 1 .. N + 1
    BY <1>1
  <2>2. pos[i + 1] + 4 + sizes[i + 1] <= pos[N + 1]
    BY <1>5, <2>1
  <2>3. pos[i] \in Nat /\ pos[i + 1] \in Nat /\ pos[N + 1] \in Nat /\ sizes[i + 1] \in Nat
    BY <1>2, <1>3, <2>1
  <2>4. pos[i] + 4 + sizes[i] = pos[i + 1]
    BY <1>2
  <2> QED
    BY <2>2, <2>3, <2>4
<1> HIDE DEF T
<1>6. \A m \in Nat : m \in T
  BY <1>4, <1>5, SetInduction
<1>7. ASSUME NEW i \in 1 .. N
      PROVE  pos[i] \in Nat /\ pos[i] + 4 + sizes[i] <= pos[N + 1]
  <2>1. N - i \in Nat /\ i + (N - i) = N /\ i \in 1 .. N + 1
    BY <1>1
  <2> QED
    BY <1>2, <1>6, <2>1 DEF T
<1> QED
  BY <1>7 DEF N, sizes

LEMMA FlagsInDatum ==
  ASSUME NEW size \in Nat, NEW num \in Nat
  PROVE  LET m == IF size <= 0 THEN 0 ELSE IF size > num \div 8 THEN num ELSE 8 * size
         IN m \in Nat /\ (m + 7) \div 8 <= size
<1>1. CASE size = 0
  BY <1>1
<1>2. CASE size # 0 /\ size > num \div 8
  BY <1>2
<1>3. CASE size # 0 /\ ~ (size > num \div 8)
  BY <1>3
<1> QED
  BY <1>1, <1>2, <1>3

\* The offset behind the datum at offset o, of 16 bits.
NextOffset(b, o) == (o + 4 + SetSizeInIntrusionDatum(b, o)) % 65536

\* The offsets that the parser gets.
OffsetsIn(b, f) ==
  f = [i \in 1 .. NumberOfIntrusionDatums |->
         IF i = 1 THEN 0 ELSE NextOffset(b, f[i - 1])]

LEMMA OffsetsEquation ==
  ASSUME NEW b, NEW f, OffsetsIn(b, f), NEW i \in 1 .. NumberOfIntrusionDatums
  PROVE  f[i] = IF i = 1 THEN 0 ELSE NextOffset(b, f[i - 1])
<1> DEFINE N == NumberOfIntrusionDatums
           e == [k \in 1 .. N |-> IF k = 1 THEN 0 ELSE NextOffset(b, f[k - 1])]
<1>1. f = e
  BY DEF OffsetsIn
<1> HIDE DEF N
<1>2. e[i] = IF i = 1 THEN 0 ELSE NextOffset(b, f[i - 1])
  BY DEF N
<1> HIDE DEF e
<1> QED
  BY <1>1, <1>2

LEMMA OffsetsFrom ==
  ASSUME NEW b, NEW pos,
         \A i \in 1 .. NumberOfIntrusionDatums :
           pos[i] = IF i = 1 THEN 0 ELSE NextOffset(b, pos[i - 1])
  PROVE  \E f : OffsetsIn(b, f)
<1> DEFINE N == NumberOfIntrusionDatums
           f == [i \in 1 .. N |-> pos[i]]
           e == [k \in 1 .. N |-> IF k = 1 THEN 0 ELSE NextOffset(b, f[k - 1])]
<1>1. N \in Nat
  BY DEF NumberOfIntrusionDatums
<1>2. \A i \in 1 .. N : pos[i] = IF i = 1 THEN 0 ELSE NextOffset(b, pos[i - 1])
  OBVIOUS
<1> HIDE DEF N
<1>3. ASSUME NEW i \in 1 .. N PROVE f[i] = e[i]
  <2>1. f[i] = pos[i]
    OBVIOUS
  <2>2. i # 1 => i - 1 \in 1 .. N /\ f[i - 1] = pos[i - 1]
    BY <1>1
  <2>3. e[i] = IF i = 1 THEN 0 ELSE NextOffset(b, f[i - 1])
    OBVIOUS
  <2> HIDE DEF f, e
  <2> QED
    BY <1>2, <2>1, <2>2, <2>3
<1>4. f = [i \in 1 .. N |-> f[i]] /\ e = [i \in 1 .. N |-> e[i]]
  OBVIOUS
<1>5. f = e
  <2> HIDE DEF f, e
  <2> QED
    BY <1>3, <1>4
<1>6. OffsetsIn(b, f)
  BY <1>5 DEF OffsetsIn, e, N
<1> QED
  BY <1>6

LEMMA OffsetsAreThePlaces ==
  ASSUME NEW beams \in Uint16, NEW P, NEW pos, DatumsAt(P, pos, beams), NEW u,
         Same(u, P, pos[NumberOfIntrusionDatums + 1]), pos[NumberOfIntrusionDatums + 1] < 65536
  PROVE  \E f : /\ OffsetsIn(u, f)
                /\ \A g : OffsetsIn(u, g) => \A i \in 1 .. NumberOfIntrusionDatums : g[i] = pos[i]
<1> DEFINE N == NumberOfIntrusionDatums
           sizes == IntrusionSizes(beams)
           n == pos[N + 1]
<1> DEFINE Size(o) == SetSizeInIntrusionDatum(u, o)
<1>1. N \in Nat /\ 1 \in 1 .. N
  BY DEF NumberOfIntrusionDatums
<1>2. /\ \A i \in 1 .. N + 1 : pos[i] \in Nat
      /\ \A i \in 1 .. N : pos[i + 1] = pos[i] + 4 + sizes[i] /\ readInt32LittleEndian(P, pos[i]) = sizes[i]
      /\ pos[1] = 0
  BY DEF DatumsAt
<1>3. \A i \in 1 .. N : sizes[i] \in Nat /\ pos[i] + 4 + sizes[i] <= n
  BY BlockSizes, DatumPlaces
<1>4. n \in Nat /\ n < 65536 /\ Same(u, P, n)
  <2>1. N + 1 \in 1 .. N + 1
    BY <1>1
  <2> QED
    BY <1>2, <2>1
<1> HIDE DEF N, sizes, n
<1>5. ASSUME NEW i \in 1 .. N PROVE Size(pos[i]) = sizes[i]
  <2>1. pos[i] \in Nat /\ pos[i] + 4 <= n
    <3>1. i \in 1 .. N + 1
      BY <1>1
    <3> QED
      BY <1>2, <1>3, <1>4, <3>1
  <2>2. readInt32LittleEndian(u, pos[i]) = readInt32LittleEndian(P, pos[i])
    BY <1>4, <2>1, SameReads
  <2> QED
    BY <1>2, <2>2 DEF SetSizeInIntrusionDatum
<1> HIDE DEF Size
<1>6. ASSUME NEW i \in 1 .. N, i # 1
      PROVE  pos[i] = NextOffset(u, pos[i - 1])
  <2>1. i - 1 \in 1 .. N /\ (i - 1) + 1 = i /\ i \in 1 .. N + 1
    BY <1>1, <1>6
  <2>2. pos[i] = pos[i - 1] + 4 + Size(pos[i - 1])
    BY <1>2, <1>5, <2>1
  <2>3. pos[i] \in Nat /\ pos[i] < 65536
    BY <1>2, <1>3, <1>4, <2>1
  <2>4. pos[i] % 65536 = pos[i]
    BY <2>3
  <2> QED
    BY <2>2, <2>4 DEF NextOffset, Size
<1>7. \E f : OffsetsIn(u, f)
  <2>1. \A i \in 1 .. N : pos[i] = IF i = 1 THEN 0 ELSE NextOffset(u, pos[i - 1])
    BY <1>2, <1>6
  <2> QED
    BY <2>1, OffsetsFrom DEF N
<1>8. ASSUME NEW g, OffsetsIn(u, g), NEW k \in 1 .. N
      PROVE  g[k] = pos[k]
  <2> DEFINE T == {m \in Nat : \A i \in 1 .. N : i = m + 1 => g[i] = pos[i]}
  <2>2. \A i \in 1 .. N : g[i] = IF i = 1 THEN 0 ELSE NextOffset(u, g[i - 1])
    BY <1>8, OffsetsEquation DEF N
  <2>3. 0 \in T
    BY <1>1, <1>2, <2>2
  <2>4. ASSUME NEW m \in Nat, m \in T PROVE m + 1 \in T
    <3> SUFFICES ASSUME NEW i \in 1 .. N, i = (m + 1) + 1 PROVE g[i] = pos[i]
      OBVIOUS
    <3>1. i # 1 /\ i - 1 \in 1 .. N /\ i - 1 = m + 1
      BY <1>1
    <3>2. g[i - 1] = pos[i - 1]
      BY <2>4, <3>1
    <3> QED
      BY <1>6, <2>2, <3>1, <3>2
  <2> HIDE DEF T
  <2>5. \A m \in Nat : m \in T
    BY <2>3, <2>4, SetInduction
  <2>6. k - 1 \in Nat /\ k = (k - 1) + 1
    BY <1>1
  <2> QED
    BY <2>5, <2>6 DEF T
<1> QED
  BY <1>7, <1>8 DEF N

LEMMA SameIntrusions ==
  ASSUME NEW beams \in Uint16, NEW P, NEW pos, DatumsAt(P, pos, beams), NEW u,
         Same(u, P, pos[NumberOfIntrusionDatums + 1]), pos[NumberOfIntrusionDatums + 1] < 65536,
         NEW num \in Nat
  PROVE  SetDataInIntrusionDatums(u, num) = IntrusionsAt(P, pos, beams, num)
<1> DEFINE N == NumberOfIntrusionDatums
           sizes == IntrusionSizes(beams)
           n == pos[N + 1]
           F == CHOOSE f : OffsetsIn(u, f)
<1>1. OffsetsIn(u, F) /\ \A i \in 1 .. N : F[i] = pos[i]
  <2> HIDE DEF N
  <2> QED
    BY OffsetsAreThePlaces DEF N
<1>2. SetDataInIntrusionDatums(u, num)
      = [i \in 1 .. N |->
           [size         |-> SetSizeInIntrusionDatum(u, F[i]),
            flags_vector |-> SetFlagsInIntrusionDatum(u, F[i] + 4, SetSizeInIntrusionDatum(u, F[i]), num)]]
  BY DEF SetDataInIntrusionDatums, OffsetsIn, NextOffset
<1> HIDE DEF F
<1>3. N \in Nat
  BY DEF NumberOfIntrusionDatums
<1>4. /\ \A i \in 1 .. N + 1 : pos[i] \in Nat
      /\ \A i \in 1 .. N : readInt32LittleEndian(P, pos[i]) = sizes[i]
      /\ \A i \in 1 .. N : sizes[i] \in Nat /\ pos[i] \in Nat /\ pos[i] + 4 + sizes[i] <= n
  <2>1. \A i \in 1 .. N : sizes[i] \in Nat
    BY BlockSizes
  <2>2. \A i \in 1 .. N : pos[i] \in Nat /\ pos[i] + 4 + sizes[i] <= n
    BY DatumPlaces
  <2>3. /\ \A i \in 1 .. N + 1 : pos[i] \in Nat
        /\ \A i \in 1 .. N : readInt32LittleEndian(P, pos[i]) = sizes[i]
    BY DEF DatumsAt
  <2> QED
    BY <2>1, <2>2, <2>3
<1>5. n \in Nat /\ Same(u, P, n)
  <2>1. N + 1 \in 1 .. N + 1
    BY <1>3
  <2> QED
    BY <1>4, <2>1
<1> HIDE DEF N, sizes, n
<1>6. ASSUME NEW i \in 1 .. N
      PROVE  /\ SetSizeInIntrusionDatum(u, F[i]) = sizes[i]
             /\ SetFlagsInIntrusionDatum(u, F[i] + 4, sizes[i], num)
                = SetFlagsInIntrusionDatum(P, pos[i] + 4, sizes[i], num)
  <2>1. F[i] = pos[i] /\ pos[i] \in Nat /\ sizes[i] \in Nat /\ pos[i] + 4 + sizes[i] <= n
    BY <1>1, <1>4
  <2>2. SetSizeInIntrusionDatum(u, F[i]) = sizes[i]
    <3>1. pos[i] + 4 <= n
      BY <1>5, <2>1
    <3> QED
      BY <1>4, <1>5, <2>1, <3>1, SameReads DEF SetSizeInIntrusionDatum
  <2> DEFINE m == IF sizes[i] <= 0 THEN 0 ELSE IF sizes[i] > num \div 8 THEN num ELSE 8 * sizes[i]
  <2>3. m \in Nat /\ (m + 7) \div 8 <= sizes[i]
    BY <2>1, FlagsInDatum
  <2>4. \A b, o : SetFlagsInIntrusionDatum(b, o, sizes[i], num) = Flags(b, o, m)
    BY DEF SetFlagsInIntrusionDatum
  <2> HIDE DEF m
  <2>5. PICK o : o = pos[i] + 4
    OBVIOUS
  <2>6. o \in Nat /\ o + (m + 7) \div 8 <= n
    BY <1>5, <2>1, <2>3, <2>5
  <2>7. Flags(u, o, m) = Flags(P, o, m)
    BY <1>5, <2>3, <2>6, SameFlags
  <2> QED
    BY <2>1, <2>2, <2>4, <2>5, <2>7
<1>7. SetDataInIntrusionDatums(u, num)
      = [i \in 1 .. N |->
           [size |-> sizes[i], flags_vector |-> SetFlagsInIntrusionDatum(P, pos[i] + 4, sizes[i], num)]]
  BY <1>2, <1>6
<1> QED
  BY <1>7 DEF IntrusionsAt, N, sizes

-----------------------------------------------------------------------------
(* The blocks the sensor sends. *)

LEMMA DerivedBlock ==
  ASSUME NEW beams \in Uint16
  PROVE  BlockBytes("derived_values", beams) \in Buffers(20)
<1>1. beams \in Int /\ StartAngle \in Int /\ Resolution \in Int
  BY AnglesAssumption DEF Uint16, Int32
<1>2. 20 \in Nat
  OBVIOUS
<1>3. Filler(20, 11) \in Buffers(20)
  BY <1>2, FillerBytes
<1>4. PICK x \in Buffers(20) : x = writeInt32LittleEndian(Filler(20, 11), 8, StartAngle)
  BY <1>1, <1>2, <1>3, WrittenBytes DEF writeInt32LittleEndian
<1>5. PICK y \in Buffers(20) : y = writeInt32LittleEndian(x, 12, Resolution)
  BY <1>1, <1>2, WrittenBytes DEF writeInt32LittleEndian
<1>6. writeUint16LittleEndian(y, 2, beams) \in Buffers(20)
  BY <1>1, <1>2, WrittenBytes
<1> QED
  BY <1>4, <1>5, <1>6 DEF BlockBytes, DerivedBytes

LEMMA MeasurementBlock ==
  ASSUME NEW beams \in Uint16
  PROVE  /\ BlockBytes("measurement_data", beams) \in Buffers(4 + 4 * beams)
         /\ readUint32LittleEndian(BlockBytes("measurement_data", beams), 0) = beams
<1>1. beams \in Uint32 /\ beams \in Nat
  BY BlockSizes
<1>2. PICK n \in Nat : n = 4 + 4 * beams
  BY <1>1
<1>3. 0 + 4 <= n
  BY <1>1, <1>2
<1>4. Filler(n, 23) \in Buffers(n)
  BY FillerBytes
<1> DEFINE w == writeUint32LittleEndian(Filler(n, 23), 0, beams)
<1>5. readUint32LittleEndian(w, 0) = beams /\ OthersAreKept(n, Filler(n, 23), w, 0, 4)
  BY <1>1, <1>3, <1>4, Uint32LittleEndianReadsBack
<1>6. w = BlockBytes("measurement_data", beams)
  BY <1>2 DEF BlockBytes
<1> QED
  BY <1>2, <1>5, <1>6 DEF OthersAreKept

LEMMA StateBlock ==
  ASSUME NEW beams
  PROVE  BlockBytes("general_system_state", beams) \in Buffers(16)
BY FillerBytes DEF BlockBytes

LEMMA ApplicationBlock ==
  ASSUME NEW beams
  PROVE  /\ BlockBytes("application_data", beams) \in Buffers(260)
         /\ Len(BlockBytes("application_data", beams)) = 260
<1>1. PICK n \in Nat : n = 260
  OBVIOUS
<1>2. PICK P : P = Filler(n, 47)
  BY Zenon
<1>3. P \in Buffers(n)
  BY <1>2, FillerBytes
<1>4. Len(P) = n
  BY <1>3, BufferLength
<1>5. BlockBytes("application_data", beams) = P
  BY <1>1, <1>2 DEF BlockBytes
<1> QED
  BY <1>1, <1>3, <1>4, <1>5, Zenon

LEMMA IntrusionBlock ==
  ASSUME NEW beams \in Uint16
  PROVE  \E pos : DatumsAt(BlockBytes("intrusion_data", beams), pos, beams)
<1>1. BlockBytes("intrusion_data", beams) = IntrusionBytes(beams)
  BY DEF BlockBytes
<1> QED
  BY <1>1, IntrusionLayout

LEMMA SensorBlock ==
  ASSUME NEW beams \in Uint16, NEW b \in Blocks
  PROVE  /\ Len(BlockBytes(b, beams)) \in Nat
         /\ BlockBytes(b, beams) \in Buffers(Len(BlockBytes(b, beams)))
<1>1. \E n \in Nat : BlockBytes(b, beams) \in Buffers(n)
  <2>1. CASE b = "derived_values"
    BY <2>1, DerivedBlock
  <2>2. CASE b = "measurement_data"
    <3>1. 4 + 4 * beams \in Nat
      BY BlockSizes
    <3> QED
      BY <2>2, <3>1, MeasurementBlock
  <2>3. CASE b = "general_system_state"
    BY <2>3, StateBlock
  <2>4. CASE b = "application_data"
    BY <2>4, ApplicationBlock
  <2>5. CASE b = "intrusion_data"
    <3>1. PICK pos : DatumsAt(BlockBytes("intrusion_data", beams), pos, beams)
      BY IntrusionBlock
    <3>2. NumberOfIntrusionDatums + 1 \in 1 .. NumberOfIntrusionDatums + 1
      BY DEF NumberOfIntrusionDatums
    <3> QED
      BY <2>5, <3>1, <3>2 DEF DatumsAt
  <2> QED
    BY <2>1, <2>2, <2>3, <2>4, <2>5 DEF Blocks
<1>2. PICK n \in Nat : BlockBytes(b, beams) \in Buffers(n)
  BY <1>1
<1> QED
  BY <1>2, BufferLength

-----------------------------------------------------------------------------
(* The layout of a telegram. *)

\* What the header of x has about the block b.
OffsetOf(x, b) == readUint16LittleEndian(x, BlockEntry[b])
SizeOf(x, b) == readUint16LittleEndian(x, BlockEntry[b] + 2)

LEMMA EntryPlaces ==
  ASSUME NEW b \in Blocks
  PROVE  /\ BlockEntry[b] \in {32, 36, 40, 44, 48}
         /\ \A c \in Blocks : c # b => BlockEntry[c] # BlockEntry[b]
<1>1. /\ BlockEntry["general_system_state"] = 32 /\ BlockEntry["derived_values"] = 36
      /\ BlockEntry["measurement_data"] = 40 /\ BlockEntry["intrusion_data"] = 44
      /\ BlockEntry["application_data"] = 48
  BY DEF BlockEntry
<1>2. BlockEntry[b] \in {32, 36, 40, 44, 48}
  BY <1>1 DEF Blocks
<1>3. ASSUME NEW c \in Blocks, c # b PROVE BlockEntry[c] # BlockEntry[b]
  BY <1>1, <1>3 DEF Blocks
<1> QED
  BY <1>2, <1>3

\* The entries are in the first 52 bytes.
LEMMA SameEntries ==
  ASSUME NEW x, NEW y, Same(x, y, 52), NEW b \in Blocks
  PROVE  OffsetOf(x, b) = OffsetOf(y, b) /\ SizeOf(x, b) = SizeOf(y, b)
<1>1. PICK e : e = BlockEntry[b]
  OBVIOUS
<1>2. e \in Nat /\ e + 2 \in Nat /\ e + 2 <= 52 /\ (e + 2) + 2 <= 52
  BY <1>1, EntryPlaces
<1>3. readUint16LittleEndian(x, e) = readUint16LittleEndian(y, e)
  BY <1>2, SameReads
<1>4. readUint16LittleEndian(x, e + 2) = readUint16LittleEndian(y, e + 2)
  BY <1>2, SameReads
<1> QED
  BY <1>1, <1>3, <1>4 DEF OffsetOf, SizeOf

LEMMA EntryWritten ==
  ASSUME NEW n \in Nat, n >= 52, NEW x \in Buffers(n), NEW b \in Blocks,
         NEW v \in Uint16, NEW s \in Uint16
  PROVE  LET y == writeUint16LittleEndian(
                    writeUint16LittleEndian(x, BlockEntry[b], v), BlockEntry[b] + 2, s)
         IN /\ y \in Buffers(n)
            /\ OffsetOf(y, b) = v /\ SizeOf(y, b) = s
            /\ \A c \in Blocks : c # b => OffsetOf(y, c) = OffsetOf(x, c) /\ SizeOf(y, c) = SizeOf(x, c)
            /\ \A i \in 53 .. n : y[i] = x[i]
<1>1. PICK e : e = BlockEntry[b]
  OBVIOUS
<1>2. /\ e \in Nat /\ e + 2 \in Nat /\ e + 2 <= n /\ (e + 2) + 2 <= n /\ e + 4 <= 52
      /\ e \in {32, 36, 40, 44, 48}
  BY <1>1, EntryPlaces
<1>3. PICK w : w = writeUint16LittleEndian(x, e, v)
  OBVIOUS
<1>4. readUint16LittleEndian(w, e) = v /\ OthersAreKept(n, x, w, e, 2)
  BY <1>2, <1>3, Uint16LittleEndianReadsBack
<1>5. w \in Buffers(n) /\ \A i \in (1 .. n) \ (e + 1 .. e + 2) : w[i] = x[i]
  BY <1>4 DEF OthersAreKept
<1>6. PICK f : f = e + 2
  OBVIOUS
<1>7. PICK y : y = writeUint16LittleEndian(w, f, s)
  OBVIOUS
<1>8. readUint16LittleEndian(y, f) = s /\ OthersAreKept(n, w, y, f, 2)
  BY <1>2, <1>5, <1>6, <1>7, Uint16LittleEndianReadsBack
<1>9. y \in Buffers(n) /\ \A i \in (1 .. n) \ (f + 1 .. f + 2) : y[i] = w[i]
  BY <1>8 DEF OthersAreKept
<1>10. \A i \in 1 .. n : i <= e \/ i > e + 4 => y[i] = x[i]
  BY <1>2, <1>5, <1>6, <1>9
<1>11. readUint16LittleEndian(y, e) = v
  <2>1. y[e + 1] = w[e + 1] /\ y[e + 2] = w[e + 2]
    BY <1>2, <1>6, <1>9
  <2> QED
    BY <1>4, <2>1 DEF readUint16LittleEndian
<1>12. ASSUME NEW c \in Blocks, c # b
       PROVE  OffsetOf(y, c) = OffsetOf(x, c) /\ SizeOf(y, c) = SizeOf(x, c)
  <2>1. PICK d : d = BlockEntry[c]
    OBVIOUS
  <2>2. d \in {32, 36, 40, 44, 48} /\ d # e
    BY <1>1, <1>12, <2>1, EntryPlaces
  <2>3. d + 4 <= e \/ e + 4 <= d
    BY <1>2, <2>2
  <2>4. \A k \in 1 .. 4 : d + k \in 1 .. n /\ (d + k <= e \/ d + k > e + 4)
    BY <1>2, <2>2, <2>3
  <2>5. \A k \in 1 .. 4 : y[d + k] = x[d + k]
    BY <1>10, <2>4
  <2>6. readUint16LittleEndian(y, d) = readUint16LittleEndian(x, d)
    BY <2>5 DEF readUint16LittleEndian
  <2>7. readUint16LittleEndian(y, d + 2) = readUint16LittleEndian(x, d + 2)
    <3>1. (d + 2) + 1 = d + 3 /\ (d + 2) + 2 = d + 4
      BY <2>2
    <3> QED
      BY <2>5, <3>1 DEF readUint16LittleEndian
  <2> QED
    BY <2>1, <2>6, <2>7 DEF OffsetOf, SizeOf
<1>13. \A i \in 53 .. n : y[i] = x[i]
  BY <1>2, <1>10
<1>14. OffsetOf(y, b) = v /\ SizeOf(y, b) = s
  BY <1>1, <1>6, <1>8, <1>11 DEF OffsetOf, SizeOf
<1>15. y = writeUint16LittleEndian(
             writeUint16LittleEndian(x, BlockEntry[b], v), BlockEntry[b] + 2, s)
  BY <1>1, <1>3, <1>6, <1>7
<1> QED
  BY <1>9, <1>12, <1>13, <1>14, <1>15

\* P, with the length the header has, is where the header says; or the header
\* has nothing.
Placed(x, b, P) ==
  /\ OffsetOf(x, b) \in Nat /\ OffsetOf(x, b) >= 52
  /\ OffsetOf(x, b) + Len(P) <= Len(x)
  /\ SizeOf(x, b) = Len(P)
  /\ \A i \in 1 .. Len(P) : x[OffsetOf(x, b) + i] = P[i]

Absent(x, b) == OffsetOf(x, b) = 0 /\ SizeOf(x, b) = 0

\* x has the blocks of S, and no others.
Carries(x, S, beams) ==
  \A b \in Blocks : IF b \in S THEN Placed(x, b, BlockBytes(b, beams)) ELSE Absent(x, b)

\* What the blocks take, according to the header.
Total(x) ==
  SizeOf(x, "derived_values") + SizeOf(x, "measurement_data") + SizeOf(x, "general_system_state")
  + SizeOf(x, "intrusion_data") + SizeOf(x, "application_data")

\* x with one more block.
WithBlock(x, b, P) ==
  writeUint16LittleEndian(writeUint16LittleEndian(x, BlockEntry[b], Len(x)), BlockEntry[b] + 2, Len(P))
  \o P

LEMMA Length16 ==
  ASSUME NEW v \in Nat
  PROVE  v < 65536 <=> v \in Uint16
<1>1. v < 65536 => v \div 256 \in 0 .. 255
  OBVIOUS
<1>2. v \div 256 \in 0 .. 255 => v < 65536
  OBVIOUS
<1> QED
  BY <1>1, <1>2 DEF Uint16, Uint8, Byte

\* Whatever the lengths, there are the bytes and the block.
LEMMA WithBlockLength ==
  ASSUME NEW n \in Nat, n >= 52, NEW x \in Buffers(n), NEW b \in Blocks,
         NEW m \in Nat, NEW P \in Buffers(m)
  PROVE  WithBlock(x, b, P) \in Buffers(n + m) /\ Len(WithBlock(x, b, P)) = n + m
<1>1. Len(x) = n /\ Len(P) = m
  BY BufferLength
<1>2. PICK e : e = BlockEntry[b]
  OBVIOUS
<1>3. e \in Nat /\ e + 2 \in Nat /\ e + 2 <= n /\ (e + 2) + 2 <= n
  BY <1>2, EntryPlaces
<1>4. PICK w \in Buffers(n) : w = writeUint16LittleEndian(x, e, n)
  BY <1>3, WrittenBytes
<1>5. PICK y \in Buffers(n) : y = writeUint16LittleEndian(w, e + 2, m)
  BY <1>3, WrittenBytes
<1>6. WithBlock(x, b, P) = y \o P
  BY <1>1, <1>2, <1>4, <1>5 DEF WithBlock
<1>7. y \o P \in Buffers(n + m)
  BY Joined
<1>8. n + m \in Nat
  OBVIOUS
<1> QED
  BY <1>6, <1>7, <1>8, BufferLength

\* z is x and then P.
Appended(z, x, n, P, m) ==
  (\A i \in 1 .. n : z[i] = x[i]) /\ (\A i \in 1 .. m : z[n + i] = P[i])

LEMMA JoinedAt ==
  ASSUME NEW n \in Nat, NEW m \in Nat, NEW x \in Buffers(n), NEW P \in Buffers(m)
  PROVE  \E z \in Buffers(n + m) : z = x \o P /\ Appended(z, x, n, P, m)
<1>1. x \o P \in Buffers(n + m) /\ Appended(x \o P, x, n, P, m)
  BY Joined DEF Appended
<1> QED
  BY <1>1

\* As long as the lengths have 16 bits, the header says where the block is.
LEMMA WithBlockBytes ==
  ASSUME NEW n \in Nat, n >= 52, n \in Uint16, NEW x \in Buffers(n), NEW b \in Blocks,
         NEW m \in Nat, m \in Uint16, NEW P \in Buffers(m)
  PROVE  \E z : /\ z = WithBlock(x, b, P)
                /\ OffsetOf(z, b) = n /\ SizeOf(z, b) = m
                /\ \A c \in Blocks : c # b => OffsetOf(z, c) = OffsetOf(x, c) /\ SizeOf(z, c) = SizeOf(x, c)
                /\ \A i \in 53 .. n : z[i] = x[i]
                /\ \A i \in 1 .. m : z[n + i] = P[i]
<1>1. Len(x) = n /\ Len(P) = m
  BY BufferLength
<1>2. PICK y : y = writeUint16LittleEndian(
                     writeUint16LittleEndian(x, BlockEntry[b], n), BlockEntry[b] + 2, m)
  BY Zenon
<1>3. /\ y \in Buffers(n)
      /\ OffsetOf(y, b) = n /\ SizeOf(y, b) = m
      /\ \A c \in Blocks : c # b => OffsetOf(y, c) = OffsetOf(x, c) /\ SizeOf(y, c) = SizeOf(x, c)
      /\ \A i \in 53 .. n : y[i] = x[i]
  BY <1>2, EntryWritten
<1>4. y \in Buffers(n)
  BY <1>3
<1>5. PICK z \in Buffers(n + m) : z = y \o P /\ Appended(z, y, n, P, m)
  BY <1>4, JoinedAt
<1>6. z = WithBlock(x, b, P)
  BY <1>1, <1>2, <1>5 DEF WithBlock
<1>7. /\ \A i \in 1 .. n : z[i] = y[i]
      /\ \A i \in 1 .. m : z[n + i] = P[i]
  BY <1>5 DEF Appended
<1>8. Same(z, y, 52)
  BY <1>7 DEF Same
<1>9. \A c \in Blocks : OffsetOf(z, c) = OffsetOf(y, c) /\ SizeOf(z, c) = SizeOf(y, c)
  BY <1>8, SameEntries
<1>10. \A i \in 53 .. n : z[i] = x[i]
  BY <1>3, <1>7
<1>11. /\ OffsetOf(z, b) = n /\ SizeOf(z, b) = m
       /\ \A c \in Blocks : c # b => OffsetOf(z, c) = OffsetOf(x, c) /\ SizeOf(z, c) = SizeOf(x, c)
  BY <1>3, <1>9
<1> QED
  BY <1>6, <1>7, <1>10, <1>11

\* As long as its length has 16 bits, the blocks are where its header says.
LEMMA WithBlockCarries ==
  ASSUME NEW beams \in Uint16, NEW n \in Nat, n >= 52, NEW x \in Buffers(n), NEW b \in Blocks,
         NEW S, b \notin S, Carries(x, S, beams), Total(x) = n - 52,
         n + Len(BlockBytes(b, beams)) < 65536
  PROVE  /\ Carries(WithBlock(x, b, BlockBytes(b, beams)), S \cup {b}, beams)
         /\ Total(WithBlock(x, b, BlockBytes(b, beams))) = n + Len(BlockBytes(b, beams)) - 52
<1>1. PICK P : P = BlockBytes(b, beams)
  OBVIOUS
<1>2. PICK m \in Nat : m = Len(P)
  BY <1>1, SensorBlock
<1>3. m \in Nat /\ P \in Buffers(m)
  BY <1>1, <1>2, SensorBlock
<1>4. Len(x) = n /\ n \in Uint16 /\ m \in Uint16
  <2>1. n < 65536 /\ m < 65536
    BY <1>1, <1>2, <1>3
  <2> QED
    BY <1>3, <2>1, BufferLength, Length16
<1>5. PICK z : /\ z = WithBlock(x, b, P)
               /\ OffsetOf(z, b) = n /\ SizeOf(z, b) = m
               /\ \A c \in Blocks : c # b => OffsetOf(z, c) = OffsetOf(x, c) /\ SizeOf(z, c) = SizeOf(x, c)
               /\ \A i \in 53 .. n : z[i] = x[i]
               /\ \A i \in 1 .. m : z[n + i] = P[i]
  BY <1>3, <1>4, WithBlockBytes
<1>6. Len(z) = n + m
  BY <1>3, <1>5, WithBlockLength
<1>11. Placed(z, b, P)
  BY <1>2, <1>3, <1>5, <1>6 DEF Placed
<1>12. ASSUME NEW c \in Blocks, c # b
       PROVE  IF c \in S \cup {b} THEN Placed(z, c, BlockBytes(c, beams)) ELSE Absent(z, c)
  <2>1. OffsetOf(z, c) = OffsetOf(x, c) /\ SizeOf(z, c) = SizeOf(x, c)
    BY <1>5, <1>12
  <2>2. CASE c \in S
    <3>1. PICK Q : Q = BlockBytes(c, beams)
      OBVIOUS
    <3>2. Placed(x, c, Q)
      BY <2>2, <3>1 DEF Carries
    <3>3. Len(Q) \in Nat
      BY <3>1, SensorBlock
    <3>4. PICK o \in Nat : o = OffsetOf(x, c)
      BY <3>2 DEF Placed
    <3>5. /\ o >= 52 /\ o + Len(Q) <= n /\ SizeOf(x, c) = Len(Q)
          /\ \A i \in 1 .. Len(Q) : x[o + i] = Q[i]
      BY <1>4, <3>2, <3>4 DEF Placed
    <3>6. \A i \in 1 .. Len(Q) : o + i \in 53 .. n 
      BY <3>3, <3>5
    <3>7. \A i \in 1 .. Len(Q) : z[o + i] = Q[i]
      BY <1>5, <3>5, <3>6
    <3>8. o + Len(Q) <= n + m
      BY <1>3, <3>3, <3>5
    <3>9. Placed(z, c, Q)
      BY <1>6, <2>1, <3>4, <3>5, <3>7, <3>8 DEF Placed
    <3> QED
      BY <2>2, <3>1, <3>9
  <2>3. CASE c \notin S
    <3>1. Absent(x, c)
      BY <2>3 DEF Carries
    <3>2. Absent(z, c)
      BY <2>1, <3>1 DEF Absent
    <3> QED
      BY <1>12, <2>3, <3>2
  <2> QED
    BY <2>2, <2>3
<1>13. Carries(z, S \cup {b}, beams)
  BY <1>1, <1>11, <1>12 DEF Carries
<1>14. Total(z) = n + m - 52
  <2> DEFINE s(c) == SizeOf(x, c)
             r(c) == SizeOf(z, c)
  <2>1. s(b) = 0 /\ r(b) = m
    BY <1>5 DEF Carries, Absent
  <2>2. ASSUME NEW c \in Blocks PROVE s(c) \in Int
    <3>1. CASE c \in S
      <4>1. Placed(x, c, BlockBytes(c, beams))
        BY <3>1 DEF Carries
      <4> QED
        BY <4>1, SensorBlock DEF Placed
    <3>2. CASE c \notin S
      BY <3>2 DEF Carries, Absent
    <3> QED
      BY <3>1, <3>2
  <2>3. \A c \in Blocks : c # b => r(c) = s(c)
    BY <1>5
  <2>4. /\ s("derived_values") + s("measurement_data") + s("general_system_state")
           + s("intrusion_data") + s("application_data") = n - 52
        /\ Total(z) = r("derived_values") + r("measurement_data") + r("general_system_state")
                      + r("intrusion_data") + r("application_data")
    BY DEF Total
  <2> HIDE DEF s, r
  <2>5. /\ s("derived_values") \in Int /\ s("measurement_data") \in Int
        /\ s("general_system_state") \in Int /\ s("intrusion_data") \in Int
        /\ s("application_data") \in Int
    BY <2>2 DEF Blocks
  <2>6. CASE b = "derived_values"
    <3>1. /\ r("measurement_data") = s("measurement_data")
          /\ r("general_system_state") = s("general_system_state")
          /\ r("intrusion_data") = s("intrusion_data")
          /\ r("application_data") = s("application_data")
      BY <2>3, <2>6 DEF Blocks
    <3>2. s("derived_values") = 0 /\ r("derived_values") = m
      BY <2>1, <2>6
    <3> QED
      BY <1>3, <2>4, <2>5, <3>1, <3>2
  <2>7. CASE b = "measurement_data"
    <3>1. /\ r("derived_values") = s("derived_values")
          /\ r("general_system_state") = s("general_system_state")
          /\ r("intrusion_data") = s("intrusion_data")
          /\ r("application_data") = s("application_data")
      BY <2>3, <2>7 DEF Blocks
    <3>2. s("measurement_data") = 0 /\ r("measurement_data") = m
      BY <2>1, <2>7
    <3> QED
      BY <1>3, <2>4, <2>5, <3>1, <3>2
  <2>8. CASE b = "general_system_state"
    <3>1. /\ r("derived_values") = s("derived_values")
          /\ r("measurement_data") = s("measurement_data")
          /\ r("intrusion_data") = s("intrusion_data")
          /\ r("application_data") = s("application_data")
      BY <2>3, <2>8 DEF Blocks
    <3>2. s("general_system_state") = 0 /\ r("general_system_state") = m
      BY <2>1, <2>8
    <3> QED
      BY <1>3, <2>4, <2>5, <3>1, <3>2
  <2>9. CASE b = "intrusion_data"
    <3>1. /\ r("derived_values") = s("derived_values")
          /\ r("measurement_data") = s("measurement_data")
          /\ r("general_system_state") = s("general_system_state")
          /\ r("application_data") = s("application_data")
      BY <2>3, <2>9 DEF Blocks
    <3>2. s("intrusion_data") = 0 /\ r("intrusion_data") = m
      BY <2>1, <2>9
    <3> QED
      BY <1>3, <2>4, <2>5, <3>1, <3>2
  <2>10. CASE b = "application_data"
    <3>1. /\ r("derived_values") = s("derived_values")
          /\ r("measurement_data") = s("measurement_data")
          /\ r("general_system_state") = s("general_system_state")
          /\ r("intrusion_data") = s("intrusion_data")
      BY <2>3, <2>10 DEF Blocks
    <3>2. s("application_data") = 0 /\ r("application_data") = m
      BY <2>1, <2>10
    <3> QED
      BY <1>3, <2>4, <2>5, <3>1, <3>2
  <2> QED
    BY <2>6, <2>7, <2>8, <2>9, <2>10 DEF Blocks
<1> QED
  BY <1>1, <1>2, <1>5, <1>13, <1>14

-----------------------------------------------------------------------------
(* Telegrams, block after block. *)

\* What TelegramAssumption says of the blocks of a telegram.
IsTelegram(t) ==
  /\ t.order \in Seq(Blocks)
  /\ \A i, j \in DOMAIN t.order : t.order[i] = t.order[j] => i = j
  /\ t.published \subseteq Blocks
  /\ \A b \in t.published : \E i \in DOMAIN t.order : t.order[i] = b
  /\ t.beams \in Uint16

EmptyTelegram == Filler(32, 3) \o [k \in 1 .. HeaderSize - 32 |-> 0]

Extended(t, x, i) ==
  IF t.order[i] \in t.published
  THEN WithBlock(x, t.order[i], BlockBytes(t.order[i], t.beams))
  ELSE x

BlocksJoined(t, f) ==
  f = [i \in 0 .. Len(t.order) |-> IF i = 0 THEN EmptyTelegram ELSE Extended(t, f[i - 1], i)]

LEMMA EmptyTelegramCarries ==
  ASSUME NEW beams
  PROVE  /\ EmptyTelegram \in Buffers(52) /\ Len(EmptyTelegram) = 52
         /\ Carries(EmptyTelegram, {}, beams) /\ Total(EmptyTelegram) = 0
<1> DEFINE zero == [k \in 1 .. HeaderSize - 32 |-> 0]
<1>1. zero \in Buffers(20)
  BY DEF HeaderSize, Buffers, Byte
<1>2. Filler(32, 3) \in Buffers(32)
  BY FillerBytes
<1>3. \A i \in 1 .. 20 : zero[i] = 0
  BY DEF HeaderSize
<1>4. PICK y \in Buffers(20) : y = zero
  BY <1>1, Zenon
<1>5. PICK a \in Buffers(32) : a = Filler(32, 3)
  BY <1>2, Zenon
<1> HIDE DEF zero
<1>6. 32 \in Nat /\ 20 \in Nat /\ 32 + 20 = 52
  OBVIOUS
<1>7. PICK x \in Buffers(32 + 20) : x = a \o y /\ Appended(x, a, 32, y, 20)
  BY <1>6, JoinedAt
<1>8. x = EmptyTelegram
  BY <1>4, <1>5, <1>7, Zenon DEF EmptyTelegram, zero
<1>9. x \in Buffers(52) /\ \A i \in 1 .. 20 : x[32 + i] = 0
  BY <1>3, <1>4, <1>6, <1>7 DEF Appended
<1>10. Len(x) = 52
  BY <1>9, BufferLength
<1>11. ASSUME NEW b \in Blocks PROVE Absent(x, b) /\ SizeOf(x, b) = 0
  <2>1. PICK e : e = BlockEntry[b]
    BY Zenon
  <2>2. e \in {32, 36, 40, 44, 48}
    BY <2>1, EntryPlaces
  <2>3. \A k \in 1 .. 4 : x[e + k] = 0
    <3>1. \A k \in 1 .. 4 : (e - 32) + k \in 1 .. 20 /\ 32 + ((e - 32) + k) = e + k
      BY <2>2
    <3> QED
      BY <1>9, <3>1
  <2>4. readUint16LittleEndian(x, e) = 0
    BY <2>3 DEF readUint16LittleEndian
  <2>5. readUint16LittleEndian(x, e + 2) = 0
    <3>1. (e + 2) + 1 = e + 3 /\ (e + 2) + 2 = e + 4
      BY <2>2
    <3> QED
      BY <2>3, <3>1 DEF readUint16LittleEndian
  <2> QED
    BY <2>1, <2>4, <2>5 DEF Absent, OffsetOf, SizeOf
<1>12. Carries(x, {}, beams)
  BY <1>11 DEF Carries
<1>13. Total(x) = 0
  BY <1>11 DEF Total, Blocks
<1> QED
  BY <1>8, <1>9, <1>10, <1>12, <1>13

\* Buffers of a header at least.
WithHeader == {x \in Seq(Byte) : Len(x) >= 52}

LEMMA HeaderBuffer ==
  ASSUME NEW x
  PROVE  x \in WithHeader <=> Len(x) \in Nat /\ Len(x) >= 52 /\ x \in Buffers(Len(x))
<1>1. x \in WithHeader => Len(x) \in Nat /\ Len(x) >= 52 /\ x \in Buffers(Len(x))
  BY BytesAreBuffer DEF WithHeader
<1>2. ASSUME Len(x) \in Nat, Len(x) >= 52, x \in Buffers(Len(x)) PROVE x \in WithHeader
  <2>1. PICK n \in Nat : n = Len(x)
    BY <1>2
  <2>2. x \in Seq(Byte)
    BY <1>2, <2>1, BufferLength
  <2> QED
    BY <1>2, <2>2 DEF WithHeader
<1> QED
  BY <1>1, <1>2

LEMMA ExtendedLength ==
  ASSUME NEW t, IsTelegram(t), NEW i \in 1 .. Len(t.order), NEW x \in WithHeader
  PROVE  /\ Extended(t, x, i) \in WithHeader
         /\ Len(Extended(t, x, i))
            = Len(x) + IF t.order[i] \in t.published THEN Len(BlockBytes(t.order[i], t.beams)) ELSE 0
<1>1. t.order[i] \in Blocks /\ t.beams \in Uint16
  BY DEF IsTelegram
<1>2. PICK n \in Nat : n = Len(x) /\ n >= 52 /\ x \in Buffers(n)
  BY HeaderBuffer
<1>3. CASE t.order[i] \in t.published
  <2>1. PICK b \in Blocks : b = t.order[i]
    BY <1>1
  <2>2. PICK P : P = BlockBytes(b, t.beams)
    BY Zenon
  <2>3. PICK m \in Nat : m = Len(P) /\ P \in Buffers(m)
    BY <1>1, <2>2, SensorBlock
  <2>4. WithBlock(x, b, P) \in Buffers(n + m) /\ Len(WithBlock(x, b, P)) = n + m
    <3>1. n \in Nat /\ n >= 52 /\ x \in Buffers(n)
      BY <1>2
    <3>2. m \in Nat /\ P \in Buffers(m)
      BY <2>3
    <3> QED
      BY <3>1, <3>2, WithBlockLength
  <2>5. PICK z : z = WithBlock(x, b, P)
    BY Zenon
  <2>6. z \in WithHeader /\ Len(z) = n + m
    BY <1>2, <2>3, <2>4, <2>5, HeaderBuffer
  <2>7. Extended(t, x, i) = z
    BY <1>3, <2>1, <2>2, <2>5 DEF Extended
  <2> QED
    BY <1>2, <1>3, <2>1, <2>2, <2>3, <2>6, <2>7
<1>4. CASE t.order[i] \notin t.published
  BY <1>2, <1>4 DEF Extended
<1> QED
  BY <1>3, <1>4

LEMMA BlocksEquation ==
  ASSUME NEW t, IsTelegram(t), NEW f, BlocksJoined(t, f)
  PROVE  /\ f[0] = EmptyTelegram
         /\ \A i \in 1 .. Len(t.order) : f[i] = Extended(t, f[i - 1], i)
<1> DEFINE N == Len(t.order)
           e == [i \in 0 .. N |-> IF i = 0 THEN EmptyTelegram ELSE Extended(t, f[i - 1], i)]
<1>1. N \in Nat
  BY DEF IsTelegram
<1>2. f = e
  BY DEF BlocksJoined
<1> HIDE DEF N
<1>3. e[0] = EmptyTelegram /\ \A i \in 1 .. N : e[i] = Extended(t, f[i - 1], i)
  <2>1. 0 \in 0 .. N /\ \A i \in 1 .. N : i \in 0 .. N /\ i # 0
    BY <1>1
  <2> QED
    BY <2>1
<1> HIDE DEF e
<1> QED
  BY <1>2, <1>3 DEF N

LEMMA BlocksExist ==
  ASSUME NEW t, IsTelegram(t)
  PROVE  \E f : BlocksJoined(t, f)
<1> DEFINE N == Len(t.order)
           D == WithHeader
           g == [p \in (1 .. N) \X D |-> Extended(t, p[2], p[1])]
<1>1. N \in Nat
  BY DEF IsTelegram
<1>2. PICK z \in D : z = EmptyTelegram
  <2>1. PICK x : x = EmptyTelegram
    BY Zenon
  <2>2. x \in Buffers(52) /\ Len(x) = 52
    BY <2>1, EmptyTelegramCarries
  <2>3. Len(x) \in Nat /\ Len(x) >= 52 /\ x \in Buffers(Len(x))
    BY <2>2
  <2>4. x \in D
    BY <2>3, HeaderBuffer, Zenon
  <2> QED
    BY <2>1, <2>4
<1>3. \A i \in 1 .. N : \A x \in D : Extended(t, x, i) \in D
  BY ExtendedLength
<1> HIDE DEF N, D
<1>4. g \in [(1 .. N) \X D -> D]
  <2>1. ASSUME NEW p \in (1 .. N) \X D PROVE Extended(t, p[2], p[1]) \in D
    <3>1. p[1] \in 1 .. N /\ p[2] \in D
      OBVIOUS
    <3> QED
      BY <1>3, <3>1
  <2> QED
    BY <2>1
<1>5. ASSUME NEW i \in 1 .. N, NEW x \in D PROVE g[<<i, x>>] = Extended(t, x, i)
  OBVIOUS
<1> HIDE DEF g
<1>6. \E f \in [0 .. N -> D] : f[0] = z /\ \A i \in 1 .. N : f[i] = g[<<i, f[i - 1]>>]
  <2> HIDE DEF N, D, g
  <2>1. PICK n \in Nat : n = N
    BY <1>1
  <2>2. g \in [(1 .. n) \X D -> D]
    BY <1>4, <2>1
  <2>3. \E f \in [0 .. n -> D] : f[0] = z /\ \A i \in 1 .. n : f[i] = g[<<i, f[i - 1]>>]
    BY <2>2, Iteration
  <2> QED
    BY <2>1, <2>3, Zenon
<1>7. PICK f \in [0 .. N -> D] : f[0] = z /\ \A i \in 1 .. N : f[i] = g[<<i, f[i - 1]>>]
  BY <1>6, Zenon
<1>8. \A i \in 1 .. N : i - 1 \in 0 .. N
  BY <1>1
<1>9. \A i \in 1 .. N : f[i] = Extended(t, f[i - 1], i)
  BY <1>5, <1>7, <1>8
<1>10. \A i \in 0 .. N : f[i] = IF i = 0 THEN EmptyTelegram ELSE Extended(t, f[i - 1], i)
  <2> TAKE i \in 0 .. N
  <2>1. i # 0 => i \in 1 .. N
    BY <1>1
  <2> QED
    BY <1>2, <1>7, <1>9, <2>1
<1> QED
  BY <1>7, <1>10 DEF BlocksJoined, N

LEMMA WholeIsJoined ==
  ASSUME NEW t, IsTelegram(t)
  PROVE  \E f : BlocksJoined(t, f) /\ WholeBytes(t) = f[Len(t.order)]
<1> DEFINE F == CHOOSE f : BlocksJoined(t, f)
<1>1. WholeBytes(t) = F[Len(t.order)]
  BY DEF WholeBytes, BlocksJoined, EmptyTelegram, Extended, WithBlock
<1>2. BlocksJoined(t, F)
  BY BlocksExist
<1> QED
  BY <1>1, <1>2

\* The blocks that the first m places have.
PublishedAmong(t, m) == {b \in t.published : \E j \in 1 .. m : t.order[j] = b}

LEMMA OneMoreBlock ==
  ASSUME NEW t, IsTelegram(t), NEW m \in Nat, m + 1 \in 1 .. Len(t.order)
  PROVE  /\ t.order[m + 1] \notin PublishedAmong(t, m)
         /\ PublishedAmong(t, m + 1)
            = IF t.order[m + 1] \in t.published THEN PublishedAmong(t, m) \cup {t.order[m + 1]}
              ELSE PublishedAmong(t, m)
<1>1. DOMAIN t.order = 1 .. Len(t.order) /\ Len(t.order) \in Nat
  BY DEF IsTelegram
<1>2. \A j \in 1 .. m : j \in DOMAIN t.order /\ j # m + 1
  BY <1>1
<1>3. m + 1 \in DOMAIN t.order
  BY <1>1
<1>4. \A j \in 1 .. m : t.order[j] # t.order[m + 1]
  BY <1>2, <1>3 DEF IsTelegram
<1>5. \A j : j \in 1 .. m + 1 <=> j \in 1 .. m \/ j = m + 1
  OBVIOUS
<1>6. t.order[m + 1] \notin PublishedAmong(t, m)
  BY <1>4 DEF PublishedAmong
<1>7. \A b : b \in PublishedAmong(t, m + 1)
             <=> b \in t.published /\ (b \in PublishedAmong(t, m) \/ b = t.order[m + 1])
  BY <1>5 DEF PublishedAmong
<1>8. \A b : b \in PublishedAmong(t, m) => b \in t.published
  BY DEF PublishedAmong
<1> QED
  BY <1>6, <1>7, <1>8

\* x carries the blocks S and nothing else, if its length has 16 bits.
IsLaidOut(x, S, beams) ==
  x \in WithHeader /\ (Len(x) < 65536 => Carries(x, S, beams) /\ Total(x) = Len(x) - 52)

LEMMA ExtendedIsLaidOut ==
  ASSUME NEW t, IsTelegram(t), NEW m \in Nat, m + 1 \in 1 .. Len(t.order), NEW x,
         IsLaidOut(x, PublishedAmong(t, m), t.beams)
  PROVE  IsLaidOut(Extended(t, x, m + 1), PublishedAmong(t, m + 1), t.beams)
<1>1. CASE t.order[m + 1] \notin t.published
  BY <1>1, OneMoreBlock DEF Extended
<1>2. CASE t.order[m + 1] \in t.published
  <2>1. PICK b \in Blocks : b = t.order[m + 1]
    BY DEF IsTelegram
  <2>2. PICK beams \in Uint16 : beams = t.beams
    BY DEF IsTelegram
  <2>3. PICK P : P = BlockBytes(b, beams)
    BY Zenon
  <2>4. PICK S : S = PublishedAmong(t, m)
    BY Zenon
  <2>5. b \notin S /\ PublishedAmong(t, m + 1) = S \cup {b}
    BY <1>2, <2>1, <2>4, OneMoreBlock
  <2>6. PICK z : z = WithBlock(x, b, P)
    BY Zenon
  <2>7. Extended(t, x, m + 1) = z
    BY <1>2, <2>1, <2>2, <2>3, <2>6 DEF Extended
  <2>8. x \in WithHeader /\ (Len(x) < 65536 => Carries(x, S, beams) /\ Total(x) = Len(x) - 52)
    BY <2>2, <2>4 DEF IsLaidOut
  <2>9. Len(P) \in Nat
    BY <2>3, SensorBlock
  <2>10. z \in WithHeader /\ Len(z) = Len(x) + Len(P)
    BY <1>2, <2>1, <2>2, <2>3, <2>7, <2>8, ExtendedLength
  <2>11. Len(x) \in Nat /\ Len(x) >= 52 /\ x \in Buffers(Len(x))
    BY <2>8, HeaderBuffer
  <2>12. ASSUME Len(z) < 65536
         PROVE  Carries(z, S \cup {b}, beams) /\ Total(z) = Len(z) - 52
    <3>1. Len(x) < 65536 /\ Len(x) + Len(P) < 65536
      BY <2>9, <2>10, <2>11, <2>12
    <3>2. Carries(x, S, beams) /\ Total(x) = Len(x) - 52
      BY <2>8, <3>1
    <3> QED
      BY <2>3, <2>5, <2>6, <2>10, <2>11, <3>1, <3>2, WithBlockCarries
  <2>13. IsLaidOut(z, S \cup {b}, beams)
    BY <2>10, <2>12 DEF IsLaidOut
  <2> QED
    BY <2>2, <2>5, <2>7, <2>13, Zenon
<1> QED
  BY <1>1, <1>2

\* Where the blocks of a telegram are.
LEMMA WholeLayout ==
  ASSUME NEW t, IsTelegram(t)
  PROVE  IsLaidOut(WholeBytes(t), t.published, t.beams)
<1>1. PICK f : BlocksJoined(t, f) /\ WholeBytes(t) = f[Len(t.order)]
  BY WholeIsJoined
<1>2. /\ f[0] = EmptyTelegram
      /\ \A i \in 1 .. Len(t.order) : f[i] = Extended(t, f[i - 1], i)
  BY <1>1, BlocksEquation
<1>3. DOMAIN t.order = 1 .. Len(t.order) /\ Len(t.order) \in Nat
  BY DEF IsTelegram
<1> DEFINE T == {m \in Nat : m <= Len(t.order) => IsLaidOut(f[m], PublishedAmong(t, m), t.beams)}
<1>4. 0 \in T
  <2>1. PublishedAmong(t, 0) = {}
    BY DEF PublishedAmong
  <2>2. PICK x : x = EmptyTelegram
    BY Zenon
  <2>3. /\ x \in Buffers(52) /\ Len(x) = 52
        /\ Carries(x, {}, t.beams) /\ Total(x) = 0
    BY <2>2, EmptyTelegramCarries
  <2>4. Len(x) \in Nat /\ Len(x) >= 52 /\ x \in Buffers(Len(x))
    BY <2>3
  <2>5. x \in WithHeader
    BY <2>4, HeaderBuffer, Zenon
  <2>6. IsLaidOut(x, {}, t.beams)
    BY <2>3, <2>5 DEF IsLaidOut
  <2> QED
    BY <1>2, <2>1, <2>2, <2>6
<1>5. ASSUME NEW m \in Nat, m \in T PROVE m + 1 \in T
  <2> SUFFICES ASSUME m + 1 <= Len(t.order)
               PROVE  IsLaidOut(f[m + 1], PublishedAmong(t, m + 1), t.beams)
    OBVIOUS
  <2>1. IsLaidOut(f[m], PublishedAmong(t, m), t.beams)
    BY <1>3, <1>5
  <2>2. m + 1 \in 1 .. Len(t.order) /\ (m + 1) - 1 = m
    BY <1>3
  <2>3. f[m + 1] = Extended(t, f[m], m + 1)
    BY <1>2, <2>2
  <2> QED
    BY <2>1, <2>2, <2>3, ExtendedIsLaidOut
<1> HIDE DEF T
<1>6. \A m \in Nat : m \in T
  BY <1>4, <1>5, SetInduction
<1>7. IsLaidOut(f[Len(t.order)], PublishedAmong(t, Len(t.order)), t.beams)
  BY <1>3, <1>6 DEF T
<1>8. PublishedAmong(t, Len(t.order)) = t.published
  BY <1>3 DEF PublishedAmong, IsTelegram
<1> QED
  BY <1>1, <1>7, <1>8

-----------------------------------------------------------------------------
(* What the parsers make of a telegram. *)

LEMMA LeftMember ==
  ASSUME NEW f, NEW g, NEW m \in DOMAIN f
  PROVE  m \in DOMAIN (f ++ g) /\ (f ++ g)[m] = f[m]
BY DEF ++

LEMMA HeaderParsed ==
  ASSUME NEW u
  PROVE  /\ "block" \in DOMAIN ParseDataHeader(u)
         /\ ParseDataHeader(u).is_empty = FALSE
         /\ \A b \in Blocks : /\ ParseDataHeader(u).block[b].offset = OffsetOf(u, b)
                              /\ ParseDataHeader(u).block[b].size = SizeOf(u, b)
<1> DEFINE first == [is_empty |-> FALSE, block |-> SetDataBlocksInDataHeader(u)]
           x == first ++ SetVersionInDataHeader(u)
           h == x ++ SetScanHeaderInDataHeader(u)
<1>1. /\ "block" \in DOMAIN first /\ first["block"] = SetDataBlocksInDataHeader(u)
      /\ "is_empty" \in DOMAIN first /\ first["is_empty"] = FALSE
  OBVIOUS
<1> HIDE DEF first
<1>2. /\ "block" \in DOMAIN x /\ x["block"] = first["block"]
      /\ "is_empty" \in DOMAIN x /\ x["is_empty"] = first["is_empty"]
  BY <1>1, LeftMember
<1> HIDE DEF x
<1>3. /\ "block" \in DOMAIN h /\ h["block"] = x["block"]
      /\ "is_empty" \in DOMAIN h /\ h["is_empty"] = x["is_empty"]
  BY <1>2, LeftMember
<1>4. ParseDataHeader(u) = h
  BY DEF ParseDataHeader, first, x
<1> HIDE DEF h
<1>5. ASSUME NEW b \in Blocks
      PROVE  /\ SetDataBlocksInDataHeader(u)[b].offset = OffsetOf(u, b)
             /\ SetDataBlocksInDataHeader(u)[b].size = SizeOf(u, b)
  <2>1. \A c \in Blocks :
          SetDataBlocksInDataHeader(u)[c]
          = [offset |-> readUint16LittleEndian(u, BlockEntry[c]),
             size   |-> readUint16LittleEndian(u, BlockEntry[c] + 2)]
    BY DEF SetDataBlocksInDataHeader, BlockEntry, Blocks
  <2>2. PICK p : p = readUint16LittleEndian(u, BlockEntry[b])
    BY Zenon
  <2>3. PICK q : q = readUint16LittleEndian(u, BlockEntry[b] + 2)
    BY Zenon
  <2>4. SetDataBlocksInDataHeader(u)[b] = [offset |-> p, size |-> q]
    BY <2>1, <2>2, <2>3, Zenon
  <2>5. SetDataBlocksInDataHeader(u)[b].offset = p /\ SetDataBlocksInDataHeader(u)[b].size = q
    BY <2>4
  <2> QED
    BY <2>2, <2>3, <2>5, Zenon DEF OffsetOf, SizeOf
<1>6. "block" \in DOMAIN h /\ h.is_empty = FALSE /\ h.block = SetDataBlocksInDataHeader(u)
  BY <1>1, <1>2, <1>3
<1> QED
  BY <1>4, <1>5, <1>6

LEMMA SizesAddUp ==
  ASSUME NEW u
  PROVE  ExpectedSize(ParseDataHeader(u)) = Total(u)
<1>1. \A b \in Blocks : ParseDataHeader(u).block[b].size = SizeOf(u, b)
  BY HeaderParsed
<1> QED
  BY <1>1 DEF ExpectedSize, Total, Blocks

\* u is long enough, and carries the blocks of S.
Whole(u, S, beams) ==
  /\ u \in WithHeader /\ Len(u) < 65536
  /\ Carries(u, S, beams)
  /\ Total(u) <= Len(u)

LEMMA WholeHeader ==
  ASSUME NEW u, NEW S, NEW beams \in Uint16, Whole(u, S, beams)
  PROVE  /\ CheckedHeader(u).is_empty = FALSE
         /\ \A b \in Blocks : IsPublished(CheckedHeader(u), b) <=> b \in S
<1> DEFINE h == ParseDataHeader(u)
<1>1. CheckedHeader(u) = h
  <2>1. Total(u) \in Int /\ Len(u) \in Nat /\ Total(u) <= Len(u)
    <3>1. \A b \in Blocks : SizeOf(u, b) \in Int
      <4> TAKE b \in Blocks
      <4>1. CASE b \in S
        BY <4>1, SensorBlock DEF Whole, Carries, Placed
      <4>2. CASE b \notin S
        BY <4>2 DEF Whole, Carries, Absent
      <4> QED
        BY <4>1, <4>2
    <3> QED
      BY <3>1, HeaderBuffer DEF Total, Blocks, Whole
  <2>2. ~ (Len(u) < Total(u))
    BY <2>1
  <2>3. ~ (Len(u) < ExpectedSize(h))
    BY <2>2, SizesAddUp
  <2> QED
    BY <2>3, Zenon DEF CheckedHeader
<1>2. h.is_empty = FALSE
  BY HeaderParsed
<1>3. ASSUME NEW b \in Blocks PROVE IsPublished(h, b) <=> b \in S
  <2>1. h.block[b].offset = OffsetOf(u, b) /\ h.block[b].size = SizeOf(u, b)
    BY HeaderParsed
  <2>2. CASE b \in S
    <3>1. OffsetOf(u, b) # 0
      BY <2>2 DEF Whole, Carries, Placed
    <3> QED
      BY <2>1, <2>2, <3>1 DEF IsPublished
  <2>3. CASE b \notin S
    <3>1. OffsetOf(u, b) = 0 /\ SizeOf(u, b) = 0
      BY <2>3 DEF Whole, Carries, Absent
    <3> QED
      BY <2>1, <2>3, <3>1 DEF IsPublished
  <2> QED
    BY <2>2, <2>3
<1> HIDE DEF h
<1> QED
  BY <1>1, <1>2, <1>3

LEMMA CheckedOffsets ==
  ASSUME NEW u, NEW S, NEW beams \in Uint16, Whole(u, S, beams), NEW b \in Blocks, b \in S
  PROVE  CheckedHeader(u).block[b].offset = OffsetOf(u, b)
<1>1. IsPublished(CheckedHeader(u), b)
  BY WholeHeader
<1>2. CheckedHeader(u) = ParseDataHeader(u)
      \/ CheckedHeader(u) = [ParseDataHeader(u) EXCEPT !.block = NothingPublished]
  BY Zenon DEF CheckedHeader
<1>3. CASE CheckedHeader(u) = [ParseDataHeader(u) EXCEPT !.block = NothingPublished]
  <2>1. [ParseDataHeader(u) EXCEPT !.block = NothingPublished].block = NothingPublished
    BY HeaderParsed
  <2>2. CheckedHeader(u).block[b].offset = 0 /\ CheckedHeader(u).block[b].size = 0
    BY <1>3, <2>1 DEF NothingPublished
  <2> QED
    BY <1>1, <2>2 DEF IsPublished
<1> QED
  BY <1>2, <1>3, HeaderParsed

\* A parser gets its block, and what follows it.
LEMMA BlockFound ==
  ASSUME NEW u, NEW S, NEW beams \in Uint16, Whole(u, S, beams), NEW b \in Blocks, b \in S
  PROVE  /\ Same(BytesFrom(u, CheckedHeader(u), b), BlockBytes(b, beams), Len(BlockBytes(b, beams)))
         /\ Len(BlockBytes(b, beams)) < 65536
<1>1. PICK P : P = BlockBytes(b, beams)
  BY Zenon
<1>2. PICK m \in Nat : m = Len(P)
  BY <1>1, SensorBlock
<1>3. PICK n \in Nat : n = Len(u) /\ u \in Buffers(n) /\ n < 65536
  BY HeaderBuffer DEF Whole
<1>4. Placed(u, b, P)
  BY <1>1 DEF Whole, Carries
<1>5. PICK o \in Nat : o = OffsetOf(u, b)
  BY <1>4 DEF Placed
<1>6. o + m <= n /\ \A i \in 1 .. m : u[o + i] = P[i]
  BY <1>2, <1>3, <1>4, <1>5 DEF Placed
<1>7. PICK v : v = SubSeq(u, o + 1, n)
  BY Zenon
<1>8. \A i \in 1 .. n - o : v[i] = u[o + i]
  <2>1. u \in Buffers(n) /\ o <= n
    BY <1>2, <1>3, <1>6
  <2> QED
    BY <1>7, <2>1, PartOfBytes
<1>9. \A i \in 1 .. m : v[i] = P[i]
  <2>1. \A i \in 1 .. m : i \in 1 .. n - o
    BY <1>6
  <2> QED
    BY <1>6, <1>8, <2>1
<1>10. BytesFrom(u, CheckedHeader(u), b) = v
  <2>1. CheckedHeader(u).block[b].offset = o
    BY <1>5, CheckedOffsets
  <2>2. Len(u) = n
    BY <1>3
  <2> QED
    BY <1>7, <2>1, <2>2, Zenon DEF BytesFrom
<1>11. Same(v, P, m)
  BY <1>9 DEF Same
<1>12. m < 65536
  BY <1>3, <1>6
<1> QED
  BY <1>1, <1>2, <1>10, <1>11, <1>12

\* What a new parser makes of the derived values of the sensor, and of each block.
DerivedFrom(beams) == SetDataInDerivedValues(BlockBytes("derived_values", beams))

Parsed(b, beams) ==
  LET P == BlockBytes(b, beams)
      D == DerivedFrom(beams)
  IN CASE b = "derived_values" -> D
       [] b = "measurement_data" ->
            SetDataInMeasurementData(P, D.start_angle, D.angular_beam_resolution).measurement_data
       [] b = "general_system_state" -> StateIn(P)
       [] b = "intrusion_data" ->
            [is_empty              |-> FALSE,
             intrusion_data_vector |-> SetDataInIntrusionDatums(P, D.number_of_beams)]
       [] b = "application_data" -> ApplicationIn(P)

LEMMA DerivedParsed ==
  ASSUME NEW u, NEW S, NEW beams \in Uint16, Whole(u, S, beams)
  PROVE  ParseDerivedValues(u, CheckedHeader(u))
         = IF "derived_values" \in S THEN DerivedFrom(beams) ELSE Empty
<1>1. "derived_values" \in Blocks
  BY DEF Blocks
<1>2. PICK h : h = CheckedHeader(u)
  BY Zenon
<1>3. h.is_empty = FALSE /\ (IsPublished(h, "derived_values") <=> "derived_values" \in S)
  BY <1>1, <1>2, WholeHeader
<1>4. CASE "derived_values" \in S
  <2>1. PICK P : P = BlockBytes("derived_values", beams)
    BY Zenon
  <2>2. PICK v : v = BytesFrom(u, h, "derived_values")
    BY Zenon
  <2>3. Len(P) = 20
    BY <2>1, DerivedBlock, BufferLength
  <2>4. Same(v, P, 20)
    <3>1. Same(v, P, Len(P))
      BY <1>1, <1>2, <1>4, <2>1, <2>2, BlockFound
    <3> QED
      BY <2>3, <3>1
  <2>5. SetDataInDerivedValues(v) = SetDataInDerivedValues(P)
    BY <2>4, SameDerivedValues
  <2> QED
    BY <1>2, <1>3, <1>4, <2>1, <2>2, <2>5, Zenon DEF ParseDerivedValues, DerivedFrom
<1>5. CASE "derived_values" \notin S
  BY <1>2, <1>3, <1>5, Zenon DEF ParseDerivedValues
<1> QED
  BY <1>4, <1>5

\* Of the two blocks that need the derived values.
LEMMA Preconditions ==
  ASSUME NEW u, NEW S, NEW beams \in Uint16, Whole(u, S, beams), NEW b \in Blocks
  PROVE  ArePreconditionsMet(CheckedHeader(u), ParseDerivedValues(u, CheckedHeader(u)), b)
         <=> b \in S /\ "derived_values" \in S
<1>1. PICK h : h = CheckedHeader(u)
  BY Zenon
<1>2. PICK d : d = ParseDerivedValues(u, h)
  BY Zenon
<1>3. h.is_empty = FALSE /\ (IsPublished(h, b) <=> b \in S)
  BY <1>1, WholeHeader
<1>4. d = IF "derived_values" \in S THEN DerivedFrom(beams) ELSE Empty
  BY <1>1, <1>2, DerivedParsed
<1>5. DerivedFrom(beams).is_empty = FALSE /\ Empty.is_empty = TRUE
  BY DEF DerivedFrom, SetDataInDerivedValues, Empty
<1>6. d.is_empty <=> "derived_values" \notin S
  BY <1>4, <1>5
<1> QED
  BY <1>1, <1>2, <1>3, <1>6, Zenon DEF ArePreconditionsMet

LEMMA MeasurementParsed ==
  ASSUME NEW u, NEW S, NEW beams \in Uint16, Whole(u, S, beams), NEW angle, NEW delta
  PROVE  ParseMeasurementData(u, CheckedHeader(u), ParseDerivedValues(u, CheckedHeader(u)),
                              angle, delta).measurement_data
         = IF "measurement_data" \in S /\ "derived_values" \in S
           THEN Parsed("measurement_data", beams) ELSE Empty
<1>1. "measurement_data" \in Blocks
  BY DEF Blocks
<1>2. PICK h : h = CheckedHeader(u)
  BY Zenon
<1>3. PICK d : d = ParseDerivedValues(u, h)
  BY Zenon
<1>4. ArePreconditionsMet(h, d, "measurement_data")
      <=> "measurement_data" \in S /\ "derived_values" \in S
  BY <1>1, <1>2, <1>3, Preconditions
<1>5. CASE "measurement_data" \in S /\ "derived_values" \in S
  <2>1. PICK P : P = BlockBytes("measurement_data", beams)
    BY Zenon
  <2>2. PICK v : v = BytesFrom(u, h, "measurement_data")
    BY Zenon
  <2>3. beams \in Nat /\ readUint32LittleEndian(P, 0) = beams /\ Len(P) = 4 + 4 * beams
    <3>1. beams \in Nat /\ 4 + 4 * beams \in Nat
      BY BlockSizes
    <3> QED
      BY <2>1, <3>1, MeasurementBlock, BufferLength
  <2>4. Same(v, P, Len(P))
    BY <1>1, <1>2, <1>5, <2>1, <2>2, BlockFound
  <2>5. Same(v, P, 4 + 4 * beams)
    BY <2>3, <2>4
  <2>6. d = DerivedFrom(beams)
    BY <1>2, <1>3, <1>5, DerivedParsed
  <2>7. PICK r : r = SetDataInMeasurementData(P, d.start_angle, d.angular_beam_resolution)
    BY Zenon
  <2>8. r = SetDataInMeasurementData(v, d.start_angle, d.angular_beam_resolution)
    BY <2>3, <2>5, <2>7, SameMeasurementData
  <2>9. "measurement_data" \in DOMAIN r
    BY <2>7 DEF SetDataInMeasurementData
  <2>10. PICK s : s = SetStartAngleAndDelta(d)
    BY Zenon
  <2>11. s.m_angle = d.start_angle /\ s.m_angle_delta = d.angular_beam_resolution
    BY <2>10 DEF SetStartAngleAndDelta
  <2>12. ParseMeasurementData(u, h, d, angle, delta) = r ++ s
    BY <1>4, <1>5, <2>2, <2>8, <2>10, <2>11, Zenon DEF ParseMeasurementData
  <2>13. (r ++ s)["measurement_data"] = r["measurement_data"]
    BY <2>9, LeftMember
  <2>14. Parsed("measurement_data", beams) = r.measurement_data
    BY <2>1, <2>6, <2>7 DEF Parsed
  <2> QED
    BY <1>2, <1>3, <1>5, <2>12, <2>13, <2>14
<1>6. CASE ~ ("measurement_data" \in S /\ "derived_values" \in S)
  <2>1. ParseMeasurementData(u, h, d, angle, delta)
        = [measurement_data |-> Empty, m_angle |-> angle, m_angle_delta |-> delta]
    BY <1>4, <1>6, Zenon DEF ParseMeasurementData
  <2> QED
    BY <1>2, <1>3, <1>6, <2>1
<1> QED
  BY <1>5, <1>6

LEMMA StateParsed ==
  ASSUME NEW u, NEW S, NEW beams \in Uint16, Whole(u, S, beams)
  PROVE  ParseGeneralSystemState(u, CheckedHeader(u))
         = IF "general_system_state" \in S THEN Parsed("general_system_state", beams) ELSE Empty
<1>1. "general_system_state" \in Blocks
  BY DEF Blocks
<1>2. PICK h : h = CheckedHeader(u)
  BY Zenon
<1>3. h.is_empty = FALSE /\ (IsPublished(h, "general_system_state") <=> "general_system_state" \in S)
  BY <1>1, <1>2, WholeHeader
<1>4. CASE "general_system_state" \in S
  <2>1. PICK P : P = BlockBytes("general_system_state", beams)
    BY Zenon
  <2>2. PICK v : v = BytesFrom(u, h, "general_system_state")
    BY Zenon
  <2>3. Len(P) = 16
    BY <2>1, StateBlock, BufferLength
  <2>4. Same(v, P, 16)
    <3>1. Same(v, P, Len(P))
      BY <1>1, <1>2, <1>4, <2>1, <2>2, BlockFound
    <3> QED
      BY <2>3, <3>1
  <2>5. StateIn(v) = StateIn(P)
    BY <2>4, SameState
  <2>6. ParseGeneralSystemState(u, h) = StateIn(v)
    BY <1>3, <1>4, <2>2, Zenon DEF ParseGeneralSystemState, StateIn
  <2>7. Parsed("general_system_state", beams) = StateIn(P)
    BY <2>1 DEF Parsed
  <2> QED
    BY <1>2, <1>4, <2>5, <2>6, <2>7
<1>5. CASE "general_system_state" \notin S
  BY <1>2, <1>3, <1>5, Zenon DEF ParseGeneralSystemState
<1> QED
  BY <1>4, <1>5

LEMMA ApplicationParsed ==
  ASSUME NEW u, NEW S, NEW beams \in Uint16, Whole(u, S, beams)
  PROVE  ParseApplicationData(u, CheckedHeader(u))
         = IF "application_data" \in S THEN Parsed("application_data", beams) ELSE Empty
<1>1. "application_data" \in Blocks
  BY DEF Blocks
<1>2. PICK h : h = CheckedHeader(u)
  BY Zenon
<1>3. h.is_empty = FALSE /\ (IsPublished(h, "application_data") <=> "application_data" \in S)
  BY <1>1, <1>2, WholeHeader
<1>4. CASE "application_data" \in S
  <2>1. PICK P : P = BlockBytes("application_data", beams)
    BY Zenon
  <2>2. PICK v : v = BytesFrom(u, h, "application_data")
    BY Zenon
  <2>3. Len(P) = 260
    BY <2>1, ApplicationBlock, Zenon
  <2>4. Same(v, P, 260)
    <3>1. Same(v, P, Len(P))
      BY <1>1, <1>2, <1>4, <2>1, <2>2, BlockFound
    <3> QED
      BY <2>3, <3>1
  <2>5. ApplicationIn(v) = ApplicationIn(P)
    BY <2>4, SameApplication
  <2>6. ParseApplicationData(u, h) = ApplicationIn(v)
    BY <1>3, <1>4, <2>2, Zenon DEF ParseApplicationData, ApplicationIn
  <2>7. Parsed("application_data", beams) = ApplicationIn(P)
    BY <2>1 DEF Parsed
  <2> QED
    BY <1>2, <1>4, <2>5, <2>6, <2>7
<1>5. CASE "application_data" \notin S
  BY <1>2, <1>3, <1>5, Zenon DEF ParseApplicationData
<1> QED
  BY <1>4, <1>5

LEMMA IntrusionParsed ==
  ASSUME NEW u, NEW S, NEW beams \in Uint16, Whole(u, S, beams), NEW num
  PROVE  ParseIntrusionData(u, CheckedHeader(u), ParseDerivedValues(u, CheckedHeader(u)),
                            num).intrusion_data
         = IF "intrusion_data" \in S /\ "derived_values" \in S
           THEN Parsed("intrusion_data", beams) ELSE Empty
<1>1. "intrusion_data" \in Blocks
  BY DEF Blocks
<1>2. PICK h : h = CheckedHeader(u)
  BY Zenon
<1>3. PICK d : d = ParseDerivedValues(u, h)
  BY Zenon
<1>4. ArePreconditionsMet(h, d, "intrusion_data") <=> "intrusion_data" \in S /\ "derived_values" \in S
  BY <1>1, <1>2, <1>3, Preconditions
<1>5. CASE "intrusion_data" \in S /\ "derived_values" \in S
  <2>1. PICK P : P = BlockBytes("intrusion_data", beams)
    BY Zenon
  <2>2. PICK v : v = BytesFrom(u, h, "intrusion_data")
    BY Zenon
  <2>3. PICK pos : DatumsAt(P, pos, beams)
    BY <2>1, IntrusionBlock
  <2>4. PICK n \in Nat : n = pos[NumberOfIntrusionDatums + 1]
    <3>1. NumberOfIntrusionDatums + 1 \in 1 .. NumberOfIntrusionDatums + 1
      BY DEF NumberOfIntrusionDatums
    <3> QED
      BY <2>3, <3>1 DEF DatumsAt
  <2>5. P \in Buffers(n)
    BY <2>3, <2>4 DEF DatumsAt
  <2>6. Len(P) = n
    BY <2>5, BufferLength
  <2>7. Same(v, P, n) /\ n < 65536
    <3>1. Same(v, P, Len(P)) /\ Len(P) < 65536
      BY <1>1, <1>2, <1>5, <2>1, <2>2, BlockFound
    <3> QED
      BY <2>6, <3>1
  <2>8. d = DerivedFrom(beams)
    BY <1>2, <1>3, <1>5, DerivedParsed
  <2>9. PICK k \in Nat : k = d.number_of_beams
    <3>1. PICK Q \in Buffers(20) : Q = BlockBytes("derived_values", beams)
      BY DerivedBlock
    <3>2. Q[3] \in Nat /\ Q[4] \in Nat
      BY DEF Buffers, Byte
    <3>3. d.number_of_beams = readUint16LittleEndian(Q, 2)
      BY <2>8, <3>1 DEF DerivedFrom, SetDataInDerivedValues
    <3>4. readUint16LittleEndian(Q, 2) \in Nat
      BY <3>2 DEF readUint16LittleEndian
    <3> QED
      BY <3>3, <3>4
  <2>10. Same(P, P, n)
    BY DEF Same
  <2>11. SetDataInIntrusionDatums(v, k) = IntrusionsAt(P, pos, beams, k)
    BY <2>3, <2>4, <2>7, SameIntrusions
  <2>12. SetDataInIntrusionDatums(P, k) = IntrusionsAt(P, pos, beams, k)
    BY <2>3, <2>4, <2>7, <2>10, SameIntrusions
  <2>13. PICK r : r = SetDataInIntrusionDatums(P, k)
    BY Zenon
  <2>14. ParseIntrusionData(u, h, d, num)
         = [intrusion_data    |-> [is_empty |-> FALSE, intrusion_data_vector |-> r],
            m_num_scan_points |-> k]
    BY <1>4, <1>5, <2>2, <2>9, <2>11, <2>12, <2>13, Zenon DEF ParseIntrusionData
  <2>15. Parsed("intrusion_data", beams) = [is_empty |-> FALSE, intrusion_data_vector |-> r]
    BY <2>1, <2>8, <2>9, <2>13 DEF Parsed
  <2> QED
    BY <1>2, <1>3, <1>5, <2>14, <2>15
<1>6. CASE ~ ("intrusion_data" \in S /\ "derived_values" \in S)
  <2>1. ParseIntrusionData(u, h, d, num) = [intrusion_data |-> Empty, m_num_scan_points |-> num]
    BY <1>4, <1>6, Zenon DEF ParseIntrusionData
  <2> QED
    BY <1>2, <1>3, <1>6, <2>1
<1> QED
  BY <1>5, <1>6

\* The members of the parsed data.
LEMMA DataMembers ==
  ASSUME NEW u, NEW angle, NEW delta, NEW num
  PROVE  LET h == CheckedHeader(u)
             d == ParseDerivedValues(u, h)
             parsed == SetDataBlocksInData(u, angle, delta, num).data
         IN /\ parsed["derived_values"] = d
            /\ parsed["measurement_data"] = ParseMeasurementData(u, h, d, angle, delta).measurement_data
            /\ parsed["general_system_state"] = ParseGeneralSystemState(u, h)
            /\ parsed["intrusion_data"] = ParseIntrusionData(u, h, d, num).intrusion_data
            /\ parsed["application_data"] = ParseApplicationData(u, h)
BY DEF SetDataBlocksInData

LEMMA WholeParsed ==
  ASSUME NEW u, NEW S, NEW beams \in Uint16, Whole(u, S, beams),
         NEW angle, NEW delta, NEW num, NEW b \in Blocks
  PROVE  SetDataBlocksInData(u, angle, delta, num).data[b]
         = IF b \in S /\ (b \in NeedDerivedValues => "derived_values" \in S)
           THEN Parsed(b, beams) ELSE Empty
<1>1. CASE b = "derived_values"
  <2>1. b \notin NeedDerivedValues /\ Parsed(b, beams) = DerivedFrom(beams)
    BY <1>1 DEF NeedDerivedValues, Parsed
  <2>2. SetDataBlocksInData(u, angle, delta, num).data[b] = ParseDerivedValues(u, CheckedHeader(u))
    BY <1>1, DataMembers
  <2> QED
    BY <1>1, <2>1, <2>2, DerivedParsed
<1>2. CASE b = "measurement_data"
  <2>1. b \in NeedDerivedValues
    BY <1>2 DEF NeedDerivedValues
  <2> QED
    BY <1>2, <2>1, DataMembers, MeasurementParsed
<1>3. CASE b = "general_system_state"
  <2>1. b \notin NeedDerivedValues
    BY <1>3 DEF NeedDerivedValues
  <2> QED
    BY <1>3, <2>1, DataMembers, StateParsed
<1>4. CASE b = "intrusion_data"
  <2>1. b \in NeedDerivedValues
    BY <1>4 DEF NeedDerivedValues
  <2> QED
    BY <1>4, <2>1, DataMembers, IntrusionParsed
<1>5. CASE b = "application_data"
  <2>1. b \notin NeedDerivedValues
    BY <1>5 DEF NeedDerivedValues
  <2> QED
    BY <1>5, <2>1, DataMembers, ApplicationParsed
<1> QED
  BY <1>1, <1>2, <1>3, <1>4, <1>5 DEF Blocks

\* Of a buffer that is shorter than its blocks nothing is parsed.
LEMMA ShortParsed ==
  ASSUME NEW u, Len(u) < Total(u), NEW angle, NEW delta, NEW num, NEW b \in Blocks
  PROVE  SetDataBlocksInData(u, angle, delta, num).data[b] = Empty
<1>1. PICK h : h = CheckedHeader(u)
  BY Zenon
<1>2. h = [ParseDataHeader(u) EXCEPT !.block = NothingPublished]
  BY <1>1, SizesAddUp DEF CheckedHeader
<1>3. h.block = NothingPublished
  BY <1>2, HeaderParsed
<1>4. \A c \in Blocks : ~ IsPublished(h, c)
  BY <1>3 DEF IsPublished, NothingPublished
<1>5. PICK d : d = ParseDerivedValues(u, h)
  BY Zenon
<1>6. /\ ~ IsPublished(h, "derived_values") /\ ~ IsPublished(h, "measurement_data")
      /\ ~ IsPublished(h, "general_system_state") /\ ~ IsPublished(h, "intrusion_data")
      /\ ~ IsPublished(h, "application_data")
  BY <1>4 DEF Blocks
<1>7. d = Empty
  BY <1>5, <1>6, Zenon DEF ParseDerivedValues
<1>8. ParseMeasurementData(u, h, d, angle, delta)
      = [measurement_data |-> Empty, m_angle |-> angle, m_angle_delta |-> delta]
  BY <1>6, Zenon DEF ParseMeasurementData, ArePreconditionsMet
<1>9. ParseIntrusionData(u, h, d, num) = [intrusion_data |-> Empty, m_num_scan_points |-> num]
  BY <1>6, Zenon DEF ParseIntrusionData, ArePreconditionsMet
<1>10. ParseGeneralSystemState(u, h) = Empty
  BY <1>6, Zenon DEF ParseGeneralSystemState
<1>11. ParseApplicationData(u, h) = Empty
  BY <1>6, Zenon DEF ParseApplicationData
<1>12. /\ ParseMeasurementData(u, h, d, angle, delta).measurement_data = Empty
       /\ ParseIntrusionData(u, h, d, num).intrusion_data = Empty
  BY <1>8, <1>9
<1>13. PICK parsed : parsed = SetDataBlocksInData(u, angle, delta, num).data
  BY Zenon
<1>14. /\ parsed["derived_values"] = d
       /\ parsed["measurement_data"] = ParseMeasurementData(u, h, d, angle, delta).measurement_data
       /\ parsed["general_system_state"] = ParseGeneralSystemState(u, h)
       /\ parsed["intrusion_data"] = ParseIntrusionData(u, h, d, num).intrusion_data
       /\ parsed["application_data"] = ParseApplicationData(u, h)
  BY <1>1, <1>5, <1>13, DataMembers
<1>15. \A c \in Blocks : parsed[c] = Empty
  BY <1>7, <1>10, <1>11, <1>12, <1>14 DEF Blocks
<1> QED
  BY <1>13, <1>15

-----------------------------------------------------------------------------
(* The telegrams of the sensor. *)

LEMMA SensorTelegram ==
  ASSUME NEW t \in Telegram
  PROVE  /\ IsTelegram(t)
         /\ WholeBytes(t) \in WithHeader /\ Len(WholeBytes(t)) < 65536
         /\ Carries(WholeBytes(t), t.published, t.beams)
         /\ Total(WholeBytes(t)) = Len(WholeBytes(t)) - 52
         /\ t.missing = 0 \/ t.missing \in 53 .. Len(WholeBytes(t)) - 52
<1>1. IsTelegram(t)
  BY TelegramAssumption DEF IsTelegram
<1>2. IsLaidOut(WholeBytes(t), t.published, t.beams)
  BY <1>1, WholeLayout
<1>3. Len(WholeBytes(t)) < 65536
  BY TelegramAssumption, Length16 DEF Uint16
<1>4. t.missing = 0 \/ t.missing \in 53 .. Len(WholeBytes(t)) - 52
  <2>1. HeaderSize = 52
    BY DEF HeaderSize
  <2> QED
    BY <2>1, TelegramAssumption
<1> QED
  BY <1>1, <1>2, <1>3, <1>4 DEF IsLaidOut

LEMMA CompleteTelegram ==
  ASSUME NEW t \in Telegram, t.missing = 0
  PROVE  Whole(TelegramBytes[t], t.published, t.beams)
<1>1. PICK w : w = WholeBytes(t)
  BY Zenon
<1>2. /\ w \in WithHeader /\ Len(w) < 65536 /\ Carries(w, t.published, t.beams)
      /\ Total(w) = Len(w) - 52
  BY <1>1, SensorTelegram
<1>3. PICK n \in Nat : n = Len(w) /\ w \in Buffers(n)
  BY <1>2, HeaderBuffer
<1>4. TelegramBytes[t] = SubSeq(w, 1, n)
  <2>1. TelegramBytes[t] = SubSeq(w, 1, Len(w) - t.missing)
    BY <1>1 DEF TelegramBytes
  <2>2. Len(w) - t.missing = n
    BY <1>3
  <2> QED
    BY <2>1, <2>2
<1>5. PICK v : v = SubSeq(w, 1, n)
  BY Zenon
<1>6. v \in Buffers(n) /\ \A i \in 1 .. n : v[i] = w[i]
  <2>1. n <= n
    OBVIOUS
  <2> QED
    BY <1>3, <1>5, <2>1, PartOfBytes
<1>7. v = w
  BY <1>3, <1>6 DEF Buffers
<1>8. Total(w) <= Len(w)
  BY <1>2, <1>3
<1>9. Whole(w, t.published, t.beams)
  BY <1>2, <1>8 DEF Whole
<1>10. TelegramBytes[t] = w
  BY <1>4, <1>5, <1>7
<1> QED
  BY <1>9, <1>10, Zenon

LEMMA CutTelegram ==
  ASSUME NEW t \in Telegram, t.missing # 0
  PROVE  Len(TelegramBytes[t]) < Total(TelegramBytes[t])
<1>1. PICK w : w = WholeBytes(t)
  BY Zenon
<1>2. w \in WithHeader /\ Total(w) = Len(w) - 52 /\ t.missing \in 53 .. Len(w) - 52
  BY <1>1, SensorTelegram
<1>3. PICK n \in Nat : n = Len(w) /\ w \in Buffers(n)
  BY <1>2, HeaderBuffer
<1>4. PICK k \in Nat : k = n - t.missing /\ k >= 52 /\ k <= n /\ k < n - 52
  BY <1>2, <1>3
<1>5. TelegramBytes[t] = SubSeq(w, 1, k)
  <2>1. TelegramBytes[t] = SubSeq(w, 1, Len(w) - t.missing)
    BY <1>1 DEF TelegramBytes
  <2>2. Len(w) - t.missing = k
    BY <1>3, <1>4
  <2> QED
    BY <2>1, <2>2
<1>6. PICK v : v = SubSeq(w, 1, k)
  BY Zenon
<1>7. v \in Buffers(k) /\ \A i \in 1 .. k : v[i] = w[i]
  BY <1>3, <1>4, <1>6, PartOfBytes
<1>8. Len(v) = k
  BY <1>7, BufferLength
<1>9. Same(v, w, 52)
  BY <1>4, <1>7 DEF Same
<1>10. \A b \in Blocks : SizeOf(v, b) = SizeOf(w, b)
  BY <1>9, SameEntries
<1>11. Total(v) = Total(w)
  BY <1>10 DEF Total, Blocks
<1>12. Len(v) < Total(v)
  <2>1. Total(w) = n - 52
    BY <1>2, <1>3
  <2> QED
    BY <1>4, <1>8, <1>11, <2>1
<1> QED
  BY <1>5, <1>6, <1>12

LEMMA EmptyTelegramHeader == EmptyTelegram \in WithHeader /\ Len(EmptyTelegram) = 52
<1>1. PICK x : x = EmptyTelegram
  BY Zenon
<1>2. x \in Buffers(52) /\ Len(x) = 52
  BY <1>1, EmptyTelegramCarries
<1>3. Len(x) \in Nat /\ Len(x) >= 52 /\ x \in Buffers(Len(x))
  BY <1>2
<1>4. x \in WithHeader
  BY <1>3, HeaderBuffer, Zenon
<1> QED
  BY <1>1, <1>2, <1>4

\* The first block of a telegram is the one of the derived values.
LEMMA DerivedFirst ==
  ASSUME NEW t, IsTelegram(t), 1 \in 1 .. Len(t.order), t.order[1] = "derived_values",
         "derived_values" \in t.published
  PROVE  /\ Extended(t, EmptyTelegram, 1) \in WithHeader
         /\ Len(Extended(t, EmptyTelegram, 1)) = 72
<1>1. PICK x \in WithHeader : x = EmptyTelegram /\ Len(x) = 52
  BY EmptyTelegramHeader
<1>2. Len(BlockBytes("derived_values", t.beams)) = 20
  <2>1. t.beams \in Uint16
    BY DEF IsTelegram
  <2> QED
    BY <2>1, DerivedBlock, BufferLength
<1>3. /\ Extended(t, x, 1) \in WithHeader
      /\ Len(Extended(t, x, 1))
         = Len(x) + IF t.order[1] \in t.published THEN Len(BlockBytes(t.order[1], t.beams)) ELSE 0
  BY ExtendedLength
<1>4. Len(Extended(t, x, 1)) = 52 + 20
  BY <1>1, <1>2, <1>3
<1> QED
  BY <1>1, <1>3, <1>4

\* A telegram of the block b and of the derived values alone.
AloneTelegram(b, beams) ==
  [published |-> {"derived_values", b},
   order     |-> IF b = "derived_values" THEN <<b>> ELSE <<"derived_values", b>>,
   beams     |-> beams]

LEMMA AloneLength ==
  ASSUME NEW beams \in Uint16, NEW b \in Blocks
  PROVE  /\ IsTelegram(AloneTelegram(b, beams))
         /\ Len(WholeBytes(AloneTelegram(b, beams)))
            = 72 + IF b = "derived_values" THEN 0 ELSE Len(BlockBytes(b, beams))
<1>1. PICK t : t = AloneTelegram(b, beams)
  BY Zenon
<1>2. /\ t.published = {"derived_values", b} /\ t.beams = beams
      /\ t.order = IF b = "derived_values" THEN <<b>> ELSE <<"derived_values", b>>
  BY <1>1 DEF AloneTelegram
<1>3. "derived_values" \in Blocks
  BY DEF Blocks
<1>4. CASE b = "derived_values"
  <2>1. t.order = <<b>>
    BY <1>2, <1>4
  <2>2. Len(t.order) = 1 /\ DOMAIN t.order = 1 .. 1 /\ t.order[1] = b /\ t.order \in Seq(Blocks)
    BY <2>1
  <2>3. 1 \in DOMAIN t.order /\ \A i \in DOMAIN t.order : i = 1
    BY <2>2
  <2>4. t.published = {b}
    BY <1>2, <1>4
  <2>5. IsTelegram(t)
    BY <1>2, <2>2, <2>3, <2>4 DEF IsTelegram
  <2>6. PICK f : BlocksJoined(t, f) /\ WholeBytes(t) = f[1]
    BY <2>2, <2>5, WholeIsJoined
  <2>7. f[0] = EmptyTelegram /\ f[1] = Extended(t, f[0], 1)
    <3>1. 1 \in 1 .. Len(t.order) /\ 1 - 1 = 0
      BY <2>2
    <3> QED
      BY <2>5, <2>6, <3>1, BlocksEquation
  <2>8. Len(f[1]) = 72
    <3>1. 1 \in 1 .. Len(t.order) /\ t.order[1] = "derived_values" /\ "derived_values" \in t.published
      BY <1>4, <2>2, <2>4
    <3> QED
      BY <2>5, <2>7, <3>1, DerivedFirst
  <2> QED
    BY <1>1, <1>4, <2>5, <2>6, <2>8
<1>5. CASE b # "derived_values"
  <2>1. t.order = <<"derived_values", b>>
    BY <1>2, <1>5
  <2>2. /\ Len(t.order) = 2 /\ DOMAIN t.order = 1 .. 2
        /\ t.order[1] = "derived_values" /\ t.order[2] = b /\ t.order \in Seq(Blocks)
    BY <1>3, <2>1
  <2>3. 1 \in DOMAIN t.order /\ 2 \in DOMAIN t.order /\ \A i \in DOMAIN t.order : i = 1 \/ i = 2
    BY <2>2
  <2>4. IsTelegram(t)
    BY <1>2, <1>3, <1>5, <2>2, <2>3 DEF IsTelegram
  <2>5. PICK f : BlocksJoined(t, f) /\ WholeBytes(t) = f[2]
    BY <2>2, <2>4, WholeIsJoined
  <2>6. f[0] = EmptyTelegram /\ f[1] = Extended(t, f[0], 1) /\ f[2] = Extended(t, f[1], 2)
    <3>1. 1 \in 1 .. Len(t.order) /\ 2 \in 1 .. Len(t.order) /\ 1 - 1 = 0 /\ 2 - 1 = 1
      BY <2>2
    <3> QED
      BY <2>4, <2>5, <3>1, BlocksEquation
  <2>7. f[1] \in WithHeader /\ Len(f[1]) = 72
    <3>1. 1 \in 1 .. Len(t.order) /\ t.order[1] = "derived_values" /\ "derived_values" \in t.published
      BY <1>2, <2>2
    <3> QED
      BY <2>4, <2>6, <3>1, DerivedFirst
  <2>8. Len(f[2]) = Len(f[1]) + Len(BlockBytes(b, beams))
    <3>1. 2 \in 1 .. Len(t.order) /\ t.order[2] = b /\ b \in t.published
      BY <1>2, <2>2
    <3>2. PICK x \in WithHeader : x = f[1]
      BY <2>7
    <3>3. Len(Extended(t, x, 2))
          = Len(x) + IF t.order[2] \in t.published THEN Len(BlockBytes(t.order[2], t.beams)) ELSE 0
      BY <2>4, <3>1, ExtendedLength
    <3>4. f[2] = Extended(t, x, 2)
      BY <2>6, <3>2
    <3> QED
      BY <1>2, <3>1, <3>2, <3>3, <3>4
  <2>9. Len(BlockBytes(b, beams)) \in Nat
    BY SensorBlock
  <2> QED
    BY <1>1, <1>5, <2>4, <2>5, <2>7, <2>8, <2>9
<1> QED
  BY <1>4, <1>5

LEMMA AloneIsWhole ==
  ASSUME NEW beams \in Uint16, NEW b \in Blocks, 72 + Len(BlockBytes(b, beams)) \in Uint16
  PROVE  Whole(WholeBytes(AloneTelegram(b, beams)), {"derived_values", b}, beams)
<1>1. PICK t : t = AloneTelegram(b, beams)
  BY Zenon
<1>2. t.published = {"derived_values", b} /\ t.beams = beams
  BY <1>1 DEF AloneTelegram
<1>3. PICK w : w = WholeBytes(t)
  BY Zenon
<1>4. PICK m \in Nat : m = Len(BlockBytes(b, beams))
  BY SensorBlock
<1>5. IsTelegram(t) /\ Len(w) = 72 + IF b = "derived_values" THEN 0 ELSE m
  BY <1>1, <1>3, <1>4, AloneLength
<1>6. IsLaidOut(w, {"derived_values", b}, beams)
  BY <1>2, <1>3, <1>5, WholeLayout
<1>7. Len(w) \in Nat /\ Len(w) < 65536
  <2>1. 72 + m \in Nat /\ 72 + m \in Uint16
    BY <1>4
  <2>2. 72 + m < 65536
    BY <2>1, Length16
  <2> QED
    BY <1>4, <1>5, <2>2
<1>8. Total(w) <= Len(w)
  BY <1>6, <1>7 DEF IsLaidOut
<1> QED
  BY <1>1, <1>3, <1>6, <1>7, <1>8 DEF IsLaidOut, Whole

\* A block that a telegram has, and a telegram of the block alone, both fit.
LEMMA AloneFits ==
  ASSUME NEW t \in Telegram, NEW b \in t.published,
         b \in NeedDerivedValues => "derived_values" \in t.published
  PROVE  72 + Len(BlockBytes(b, t.beams)) \in Uint16
<1>1. PICK beams \in Uint16 : beams = t.beams
  BY SensorTelegram DEF IsTelegram
<1>2. b \in Blocks
  BY SensorTelegram DEF IsTelegram
<1>3. PICK m \in Nat : m = Len(BlockBytes(b, beams))
  BY <1>2, SensorBlock
<1>4. 72 + m < 65536
  <2>1. CASE b = "derived_values"
    <3>1. m = 20
      BY <1>3, <2>1, DerivedBlock, BufferLength
    <3> QED
      BY <3>1
  <2>2. CASE b = "general_system_state"
    <3>1. m = 16
      BY <1>3, <2>2, StateBlock, BufferLength
    <3> QED
      BY <3>1
  <2>3. CASE b = "application_data"
    <3>1. m = 260
      BY <1>3, <2>3, ApplicationBlock
    <3> QED
      BY <3>1
  <2>4. CASE b \in NeedDerivedValues
    <3>1. PICK w : w = WholeBytes(t)
      BY Zenon
    <3>2. /\ w \in WithHeader /\ Len(w) < 65536
          /\ Carries(w, t.published, beams) /\ Total(w) = Len(w) - 52
      BY <1>1, <3>1, SensorTelegram
    <3>3. Len(w) \in Nat
      BY <3>2, HeaderBuffer
    <3>4. \A c \in Blocks : SizeOf(w, c) \in Nat
      <4> TAKE c \in Blocks
      <4>1. CASE c \in t.published
        <5>1. SizeOf(w, c) = Len(BlockBytes(c, beams))
          BY <3>2, <4>1 DEF Carries, Placed
        <5> QED
          BY <5>1, SensorBlock
      <4>2. CASE c \notin t.published
        <5>1. SizeOf(w, c) = 0
          BY <3>2, <4>2 DEF Carries, Absent
        <5> QED
          BY <5>1
      <4> QED
        BY <4>1, <4>2
    <3>5. SizeOf(w, b) = m
      BY <1>2, <1>3, <3>2 DEF Carries, Placed
    <3>6. SizeOf(w, "derived_values") = 20
      <4>1. "derived_values" \in Blocks /\ "derived_values" \in t.published
        BY <2>4 DEF Blocks
      <4>2. SizeOf(w, "derived_values") = Len(BlockBytes("derived_values", beams))
        BY <3>2, <4>1 DEF Carries, Placed
      <4> QED
        BY <4>2, DerivedBlock, BufferLength
    <3> DEFINE s(c) == SizeOf(w, c)
    <3>7. /\ s("derived_values") = 20 /\ s("measurement_data") \in Nat
          /\ s("general_system_state") \in Nat /\ s("intrusion_data") \in Nat
          /\ s("application_data") \in Nat
      BY <3>4, <3>6 DEF Blocks
    <3>8. Total(w) = s("derived_values") + s("measurement_data") + s("general_system_state")
                     + s("intrusion_data") + s("application_data")
      BY DEF Total
    <3>9. s("measurement_data") = m \/ s("intrusion_data") = m
      BY <2>4, <3>5 DEF NeedDerivedValues
    <3> HIDE DEF s
    <3>10. Total(w) >= 20 + m
      BY <3>7, <3>8, <3>9
    <3> QED
      BY <3>2, <3>3, <3>10
  <2> QED
    BY <1>2, <2>1, <2>2, <2>3, <2>4 DEF Blocks, NeedDerivedValues
<1>5. 72 + m \in Nat
  OBVIOUS
<1> QED
  BY <1>1, <1>3, <1>4, <1>5, Length16

LEMMA AloneParsed ==
  ASSUME NEW t \in Telegram, NEW b \in t.published,
         b \in NeedDerivedValues => "derived_values" \in t.published
  PROVE  Alone[t.beams][b] = Parsed(b, t.beams)
<1>1. PICK beams \in Uint16 : beams = t.beams
  BY SensorTelegram DEF IsTelegram
<1>2. b \in Blocks
  BY SensorTelegram DEF IsTelegram
<1>3. PICK w : w = WholeBytes(AloneTelegram(b, beams))
  BY Zenon
<1>4. Whole(w, {"derived_values", b}, beams)
  <2>1. 72 + Len(BlockBytes(b, beams)) \in Uint16
    BY <1>1, AloneFits
  <2> QED
    BY <1>2, <1>3, <2>1, AloneIsWhole
<1>5. SetDataBlocksInData(w, 0, 0, 0).data[b] = Parsed(b, beams)
  BY <1>2, <1>4, WholeParsed
<1>6. Alone[beams][b] = SetDataBlocksInData(w, 0, 0, 0).data[b]
  BY <1>1, <1>2, <1>3 DEF Alone, AloneTelegram
<1> QED
  BY <1>1, <1>5, <1>6

\* Each block that is parsed of a telegram, whatever the members of the parsers hold.
LEMMA BlocksParsed ==
  ASSUME NEW t \in Telegram, NEW angle, NEW delta, NEW num, NEW b \in Blocks
  PROVE  SetDataBlocksInData(Buffer(t, {}), angle, delta, num).data[b]
         = IF /\ b \in t.published
              /\ t.missing = 0
              /\ b \in NeedDerivedValues => "derived_values" \in t.published
           THEN Alone[t.beams][b]
           ELSE Empty
<1>1. PICK u : u = TelegramBytes[t]
  BY Zenon
<1>2. Buffer(t, {}) = u
  BY <1>1 DEF Buffer
<1>3. CASE t.missing = 0
  <2>1. PICK beams \in Uint16 : beams = t.beams
    BY SensorTelegram DEF IsTelegram
  <2>2. Whole(u, t.published, beams)
    BY <1>1, <1>3, <2>1, CompleteTelegram
  <2>3. SetDataBlocksInData(u, angle, delta, num).data[b]
        = IF b \in t.published /\ (b \in NeedDerivedValues => "derived_values" \in t.published)
          THEN Parsed(b, beams) ELSE Empty
    BY <2>2, WholeParsed
  <2> QED
    BY <1>2, <1>3, <2>1, <2>3, AloneParsed
<1>4. CASE t.missing # 0
  <2>1. Len(u) < Total(u)
    BY <1>1, <1>4, CutTelegram
  <2>2. SetDataBlocksInData(u, angle, delta, num).data[b] = Empty
    BY <2>1, ShortParsed
  <2> QED
    BY <1>2, <1>4, <2>2
<1> QED
  BY <1>3, <1>4

-----------------------------------------------------------------------------
(* The angles of the scan points. *)

LEMMA DegreeUnits ==
  /\ Degree \in Nat /\ Degree >= 1
  /\ FloatValues = 4 * Degree /\ FloatValues \div 2 = 2 * Degree
BY SMT DEF Degree, FloatValues

LEMMA FloatUnitExists ==
  ASSUME NEW size \in Nat
  PROVE  LET u == FloatUnit(size)
         IN /\ u \in FloatUnits
            /\ u = 1 \/ size \div u >= 2 * Degree
            /\ u = 256 \/ size \div u < 4 * Degree
<1> DEFINE Fits(u) == /\ u = 1 \/ size \div u >= 2 * Degree
                      /\ u = 256 \/ size \div u < 4 * Degree
<1>1. Degree \in Nat
  BY DegreeUnits
\* The first unit that is large enough is.
<1>2. \E u \in FloatUnits : Fits(u)
  <2>1. CASE size \div 1 < 4 * Degree
    BY <1>1, <2>1 DEF FloatUnits
  <2>2. CASE size \div 1 >= 4 * Degree /\ size \div 2 < 4 * Degree
    BY <1>1, <2>2 DEF FloatUnits
  <2>3. CASE size \div 2 >= 4 * Degree /\ size \div 4 < 4 * Degree
    BY <1>1, <2>3 DEF FloatUnits
  <2>4. CASE size \div 4 >= 4 * Degree /\ size \div 8 < 4 * Degree
    BY <1>1, <2>4 DEF FloatUnits
  <2>5. CASE size \div 8 >= 4 * Degree /\ size \div 16 < 4 * Degree
    BY <1>1, <2>5 DEF FloatUnits
  <2>6. CASE size \div 16 >= 4 * Degree /\ size \div 32 < 4 * Degree
    BY <1>1, <2>6 DEF FloatUnits
  <2>7. CASE size \div 32 >= 4 * Degree /\ size \div 64 < 4 * Degree
    BY <1>1, <2>7 DEF FloatUnits
  <2>8. CASE size \div 64 >= 4 * Degree /\ size \div 128 < 4 * Degree
    BY <1>1, <2>8 DEF FloatUnits
  <2>9. CASE size \div 128 >= 4 * Degree
    BY <1>1, <2>9 DEF FloatUnits
  <2> HIDE DEF Fits
  <2> QED
    BY <1>1, <2>1, <2>2, <2>3, <2>4, <2>5, <2>6, <2>7, <2>8, <2>9
<1> DEFINE Chosen(u) == /\ u = 1 \/ size \div u >= FloatValues \div 2
                        /\ u = 256 \/ size \div u < FloatValues
<1>3. \A u : Chosen(u) <=> Fits(u)
  BY DegreeUnits
<1>4. FloatUnit(size) = CHOOSE u \in FloatUnits : Chosen(u)
  BY Zenon DEF FloatUnit
<1> HIDE DEF Fits, Chosen
<1>5. FloatUnit(size) \in FloatUnits /\ Chosen(FloatUnit(size))
  BY <1>2, <1>3, <1>4, Zenon
<1>6. Fits(FloatUnit(size))
  BY <1>3, <1>5, Zenon
<1> QED
  BY <1>5, <1>6, Zenon DEF Fits

\* The float of an angle of less than 512 degrees is within 64 units, that of an
\* angle of less than 4 degrees exact.
LEMMA FloatIsNear ==
  ASSUME NEW v \in Int
  PROVE  /\ Float(v) \in Int
         /\ v \in 0 - 511 * Degree .. 511 * Degree => Float(v) - v \in -64 .. 64
         /\ v \in 1 - 4 * Degree .. 4 * Degree - 1 => Float(v) = v
<1>1. PICK d \in Nat : d = Degree /\ d >= 1
  BY DegreeUnits
<1>2. PICK size \in Nat : size = (IF v < 0 THEN 0 - v ELSE v)
  OBVIOUS
<1>3. PICK u : u = FloatUnit(size)
  BY Zenon
<1>4. /\ u \in FloatUnits
      /\ u = 1 \/ size \div u >= 2 * d
      /\ u = 256 \/ size \div u < 4 * d
  BY <1>1, <1>2, <1>3, FloatUnitExists
<1> DEFINE q == size \div u
           r == size % u
           nearest == IF 2 * r > u \/ (2 * r = u /\ q % 2 = 1) THEN (q + 1) * u ELSE q * u
<1>5. Float(v) = IF v < 0 THEN 0 - nearest ELSE nearest
  BY <1>2, <1>3, Zenon DEF Float
<1>6. /\ nearest \in Nat /\ 2 * (nearest - size) \in 0 - u .. u
      /\ u = 1 => nearest = size
  <2>1. ASSUME NEW w \in FloatUnits, u = w
        PROVE  /\ size = q * w + r /\ q \in Nat /\ r \in Nat /\ r < w
               /\ w = 1 => r = 0
    BY <2>1 DEF FloatUnits
  <2> QED
    BY <1>4, <2>1 DEF FloatUnits
<1> HIDE DEF nearest
<1>7. size < 512 * d => u # 256
  <2>1. u = 256 => size \div 256 >= 2 * d
    BY <1>4
  <2> QED
    BY <2>1
<1>8. size < 4 * d => u = 1
  BY <1>4 DEF FloatUnits
<1>9. u \in Nat /\ (u # 256 => u <= 128)
  BY <1>4 DEF FloatUnits
<1>10. PICK m \in Nat : m = nearest
  BY <1>6
<1>11. PICK x : x = Float(v)
  BY Zenon
<1>12. x = IF v < 0 THEN 0 - m ELSE m
  BY <1>5, <1>10, <1>11
<1>13. 2 * (m - size) \in 0 - u .. u /\ (u = 1 => m = size)
  BY <1>6, <1>10
<1>14. x \in Int
  BY <1>12
<1>15. v \in 0 - 511 * d .. 511 * d => x - v \in -64 .. 64
  <2>1. v \in 0 - 511 * d .. 511 * d => size < 512 * d
    BY <1>1, <1>2
  <2>2. v \in 0 - 511 * d .. 511 * d => u <= 128 /\ u \in Nat
    BY <1>7, <1>9, <2>1
  <2> QED
    BY <1>2, <1>12, <1>13, <2>2
<1>16. v \in 1 - 4 * d .. 4 * d - 1 => x = v
  BY <1>2, <1>8, <1>12, <1>13
<1> QED
  BY <1>1, <1>11, <1>14, <1>15, <1>16

\* n additions, from the angle start on.
AddsUp(angle, start, delta, n) ==
  angle[0] = start /\ \A i \in 1 .. n : angle[i] = Float(angle[i - 1] + delta)

\* The equation of AngleAfter has a solution.
LEMMA AngleEquation ==
  ASSUME NEW start \in Int, NEW delta \in Int, NEW n \in Nat, NEW angle,
         angle = AngleAfter(start, delta, n)
  PROVE  AddsUp(angle, start, delta, n)
<1> DEFINE IsSolution(f) ==
             f = [i \in 0 .. n |-> IF i = 0 THEN start ELSE NextAngle(f[i - 1], delta)]
           g == [p \in (1 .. n) \X Int |-> Float(p[2] + delta)]
<1>1. g \in [(1 .. n) \X Int -> Int]
  <2>1. ASSUME NEW p \in (1 .. n) \X Int PROVE Float(p[2] + delta) \in Int
    <3>1. p[2] + delta \in Int
      OBVIOUS
    <3> QED
      BY <3>1, FloatIsNear
  <2> QED
    BY <2>1
<1>2. ASSUME NEW i \in 1 .. n, NEW a \in Int PROVE g[<<i, a>>] = Float(a + delta)
  OBVIOUS
<1> HIDE DEF g
<1>3. PICK f \in [0 .. n -> Int] : f[0] = start /\ \A i \in 1 .. n : f[i] = g[<<i, f[i - 1]>>]
  <2>1. MakesSteps(g, n, Int)
    BY <1>1 DEF MakesSteps
  <2>2. \E f \in [0 .. n -> Int] : TakesSteps(f, start, n, g)
    BY <2>1, StepsAreTaken, Zenon
  <2> QED
    BY <2>2, Zenon DEF TakesSteps
<1>4. ASSUME NEW i \in 0 .. n
      PROVE  f[i] = IF i = 0 THEN start ELSE NextAngle(f[i - 1], delta)
  <2>1. CASE i = 0
    BY <1>3, <2>1
  <2>2. CASE i # 0
    <3>1. i \in 1 .. n /\ i - 1 \in 0 .. n
      BY <2>2
    <3>2. f[i - 1] \in Int
      BY <1>3, <3>1
    <3>3. f[i] = Float(f[i - 1] + delta)
      BY <1>2, <1>3, <3>1, <3>2
    <3> QED
      BY <2>2, <3>3 DEF NextAngle
  <2> QED
    BY <2>1, <2>2
<1>5. IsSolution(f)
  BY <1>3, <1>4
<1>6. angle = CHOOSE h : IsSolution(h)
  BY Zenon DEF AngleAfter
<1>7. IsSolution(angle)
  BY <1>5, <1>6, Zenon
<1> DEFINE e == [i \in 0 .. n |-> IF i = 0 THEN start ELSE NextAngle(angle[i - 1], delta)]
<1>8. e[0] = start /\ \A i \in 1 .. n : e[i] = NextAngle(angle[i - 1], delta)
  <2>1. 0 \in 0 .. n /\ \A i \in 1 .. n : i \in 0 .. n /\ i # 0
    OBVIOUS
  <2> QED
    BY <2>1
<1>9. angle = e
  BY <1>7
<1> HIDE DEF e
<1> QED
  BY <1>8, <1>9 DEF NextAngle, AddsUp

\* An addition to an angle that has drifted by d units adds 64 at most.
LEMMA AngleDrifts ==
  ASSUME NEW a \in Int, NEW r \in Int, NEW delta \in Int, NEW D \in Nat, D = Degree,
         NEW d \in 0 .. D, a - r \in 0 - d .. d, r + delta \in 0 - 360 * D .. 360 * D
  PROVE  /\ Float(a + delta) \in Int
         /\ Float(a + delta) - (r + delta) \in 0 - (d + 64) .. d + 64
<1>1. PICK x \in Int : x = a + delta
  OBVIOUS
<1>2. x \in 0 - 511 * D .. 511 * D
  BY <1>1
<1>3. x \in 0 - 511 * Degree .. 511 * Degree
  BY <1>2
<1>4. Float(x) \in Int /\ Float(x) - x \in -64 .. 64
  BY <1>3, FloatIsNear
<1>5. PICK y \in Int : y = Float(x)
  BY <1>4
<1>6. y - (r + delta) \in 0 - (d + 64) .. d + 64
  BY <1>1, <1>4, <1>5
<1> QED
  BY <1>1, <1>5, <1>6

\* Beam k is at s + k * delta; the beams are within a full turn.
WithinATurn(s, delta, n, D) ==
  \A k \in 0 .. n : s + k * delta \in 0 - 360 * D .. 360 * D

HaveDrifted(angle, s, delta, n) ==
  \A k \in 0 .. n :
    angle[k] \in Int /\ angle[k] - (s + k * delta) \in 0 - 64 * (k + 1) .. 64 * (k + 1)

LEMMA AnglesStayNear ==
  ASSUME NEW start \in Int, NEW s \in Int, NEW delta \in Int, NEW n \in Nat, NEW angle,
         AddsUp(angle, start, delta, n), start - s \in -64 .. 64,
         NEW D \in Nat, D = Degree, 64 * (n + 1) <= D, WithinATurn(s, delta, n, D)
  PROVE  HaveDrifted(angle, s, delta, n)
<1> DEFINE Near(k) == /\ angle[k] \in Int
                      /\ angle[k] - (s + k * delta) \in 0 - 64 * (k + 1) .. 64 * (k + 1)
           T == {k \in Nat : k <= n => Near(k)}
<1>1. 0 \in T
  <2>1. 0 * delta = 0
    OBVIOUS
  <2> QED
    BY <2>1 DEF AddsUp
<1>2. ASSUME NEW k \in Nat, k \in T PROVE k + 1 \in T
  <2> SUFFICES ASSUME k + 1 <= n PROVE Near(k + 1)
    OBVIOUS
  <2>1. Near(k)
    BY <1>2
  <2>2. PICK a \in Int : a = angle[k]
    BY <2>1
  <2>3. PICK r \in Int : r = s + k * delta
    OBVIOUS
  <2>4. PICK d \in Nat : d = 64 * (k + 1)
    OBVIOUS
  <2>5. a - r \in 0 - d .. d
    BY <2>1, <2>2, <2>3, <2>4
  <2>6. s + (k + 1) * delta = r + delta
    BY <2>3
  <2>7. r + delta \in 0 - 360 * D .. 360 * D
    <3>1. k + 1 \in 0 .. n
      OBVIOUS
    <3>2. s + (k + 1) * delta \in 0 - 360 * D .. 360 * D
      BY <3>1 DEF WithinATurn
    <3> QED
      BY <2>6, <3>2
  <2>8. d \in 0 .. D
    BY <2>4
  <2>9. Float(a + delta) \in Int /\ Float(a + delta) - (r + delta) \in 0 - (d + 64) .. d + 64
    BY <2>5, <2>7, <2>8, AngleDrifts, Zenon
  <2>10. angle[k + 1] = Float(a + delta)
    <3>1. k + 1 \in 1 .. n /\ (k + 1) - 1 = k
      OBVIOUS
    <3> QED
      BY <2>2, <3>1 DEF AddsUp
  <2>11. d + 64 = 64 * ((k + 1) + 1)
    BY <2>4
  <2> QED
    BY <2>6, <2>9, <2>10, <2>11
<1> HIDE DEF T
<1>3. \A k \in Nat : k \in T
  BY <1>1, <1>2, SetInduction
<1> QED
  BY <1>3 DEF T, HaveDrifted

LEMMA Int32Kept ==
  ASSUME NEW n \in Nat, NEW x, NEW w, NEW p \in Nat, NEW k \in Nat, OthersAreKept(n, x, w, p, k),
         NEW o \in Nat, o + 4 <= n, o + 4 <= p \/ p + k <= o
  PROVE  readInt32LittleEndian(w, o) = readInt32LittleEndian(x, o)
<1>1. \A i \in 1 .. 4 : o + i \in (1 .. n) \ (p + 1 .. p + k)
  OBVIOUS
<1>2. \A i \in 1 .. 4 : w[o + i] = x[o + i]
  BY <1>1 DEF OthersAreKept
<1>3. w[o + 1] = x[o + 1] /\ w[o + 2] = x[o + 2] /\ w[o + 3] = x[o + 3] /\ w[o + 4] = x[o + 4]
  BY <1>2
<1> QED
  BY <1>3 DEF readInt32LittleEndian

\* The angles that the derived values are sent with.
LEMMA DerivedAngles ==
  ASSUME NEW beams \in Uint16
  PROVE  /\ DerivedFrom(beams).start_angle = Float(StartAngle)
         /\ DerivedFrom(beams).angular_beam_resolution = Float(Resolution)
<1>1. StartAngle \in Int32 /\ Resolution \in Int32
  BY AnglesAssumption
<1>2. PICK f \in Buffers(20) : f = Filler(20, 11)
  BY FillerBytes
<1>3. PICK x : x = writeInt32LittleEndian(f, 8, StartAngle)
  BY Zenon
<1>4. PICK y : y = writeInt32LittleEndian(x, 12, Resolution)
  BY Zenon
<1>5. PICK w : w = writeUint16LittleEndian(y, 2, beams)
  BY Zenon
<1>6. readInt32LittleEndian(x, 8) = StartAngle /\ x \in Buffers(20)
  BY <1>1, <1>3, Int32LittleEndianReadsBack DEF OthersAreKept
<1>7. readInt32LittleEndian(y, 12) = Resolution /\ OthersAreKept(20, x, y, 12, 4)
  BY <1>1, <1>4, <1>6, Int32LittleEndianReadsBack
<1>8. OthersAreKept(20, y, w, 2, 2)
  <2>1. y \in Buffers(20)
    BY <1>7 DEF OthersAreKept
  <2> QED
    BY <1>5, <2>1, Uint16LittleEndianReadsBack
<1>9. readInt32LittleEndian(y, 8) = StartAngle
  BY <1>6, <1>7, Int32Kept
<1>10. readInt32LittleEndian(w, 8) = StartAngle /\ readInt32LittleEndian(w, 12) = Resolution
  BY <1>7, <1>8, <1>9, Int32Kept
<1>11. w = BlockBytes("derived_values", beams)
  BY <1>2, <1>3, <1>4, <1>5 DEF BlockBytes, DerivedBytes
<1> QED
  BY <1>10, <1>11 DEF DerivedFrom, SetDataInDerivedValues

\* The points that are made of the measurement data, if any.
LEMMA PointsMeasured ==
  ASSUME NEW beams \in Uint16, NEW measured, measured = Parsed("measurement_data", beams),
         ~ measured.is_empty, NEW angle,
         angle = AngleAfter(Float(StartAngle), Float(Resolution), beams)
  PROVE  /\ beams \in Nat /\ beams <= MaxExpectedBeams
         /\ DOMAIN measured.scan_points_vector = 1 .. beams
         /\ \A n \in 1 .. beams : measured.scan_points_vector[n].angle = angle[n - 1]
<1>1. PICK P : P = BlockBytes("measurement_data", beams)
  BY Zenon
<1>2. readUint32LittleEndian(P, 0) = beams
  BY <1>1, MeasurementBlock
<1>3. beams \in Nat
  BY BlockSizes
<1> DEFINE point(n) == AddScanPointToMeasurementData(P, n - 1, angle[n - 1])
           none     == [is_empty |-> TRUE, number_of_beams |-> 0]
           some     == [is_empty           |-> FALSE,
                        number_of_beams    |-> beams,
                        scan_points_vector |-> [n \in 1 .. beams |-> point(n)]]
<1>4. measured = SetDataInMeasurementData(P, Float(StartAngle), Float(Resolution)).measurement_data
  BY <1>1, DerivedAngles DEF Parsed
<1>5. SetDataInMeasurementData(P, Float(StartAngle), Float(Resolution))
      = IF beams > MaxExpectedBeams
        THEN [measurement_data |-> none, m_angle |-> Float(StartAngle)]
        ELSE [measurement_data |-> some, m_angle |-> angle[beams]]
  BY <1>2, Zenon DEF SetDataInMeasurementData
<1> HIDE DEF point
<1>6. ~ (beams > MaxExpectedBeams) /\ measured = some
  <2>1. CASE beams > MaxExpectedBeams
    <3>1. measured = none
      BY <1>4, <1>5, <2>1
    <3> QED
      BY <3>1
  <2>2. CASE ~ (beams > MaxExpectedBeams)
    BY <1>4, <1>5, <2>2
  <2> QED
    BY <2>1, <2>2
<1>7. measured.scan_points_vector = [n \in 1 .. beams |-> point(n)]
  <2>1. some.scan_points_vector = [n \in 1 .. beams |-> point(n)]
    OBVIOUS
  <2> QED
    BY <1>6, <2>1, Zenon
<1>8. \A n \in 1 .. beams : point(n).angle = angle[n - 1]
  BY DEF point, AddScanPointToMeasurementData
<1> QED
  BY <1>3, <1>6, <1>7, <1>8, MaxExpectedBeamsAssumption

LEMMA AnglesOfPoints ==
  ASSUME AnglesOfAScan, NEW beams \in Uint16, NEW measured,
         measured = Parsed("measurement_data", beams), ~ measured.is_empty,
         NEW n \in DOMAIN measured.scan_points_vector
  PROVE  /\ n \in Nat /\ n <= MaxExpectedBeams
         /\ Distance(measured.scan_points_vector[n].angle, StartAngle + (n - 1) * Resolution)
            \in 0 .. 64 * n
<1>1. PICK angle : angle = AngleAfter(Float(StartAngle), Float(Resolution), beams)
  BY Zenon
<1>2. /\ beams \in Nat /\ beams <= MaxExpectedBeams
      /\ n \in 1 .. beams
      /\ measured.scan_points_vector[n].angle = angle[n - 1]
  BY <1>1, PointsMeasured
<1>3. StartAngle \in Int /\ Resolution \in Int
  BY AnglesAssumption DEF Int32
<1>4. PICK D \in Nat : D = Degree
  BY DegreeUnits
<1>5. WithinATurn(StartAngle, Resolution, beams, D)
  <2>1. \A k \in 0 .. beams : k \in 0 .. MaxExpectedBeams
    BY <1>2, MaxExpectedBeamsAssumption
  <2> QED
    BY <1>4, <2>1 DEF AnglesOfAScan, WithinATurn
<1>6. PICK start \in Int : start = Float(StartAngle)
  BY <1>3, FloatIsNear
<1>7. start - StartAngle \in -64 .. 64
  <2>1. StartAngle + 0 * Resolution \in 0 - 360 * D .. 360 * D
    BY <1>2, <1>5 DEF WithinATurn
  <2>2. StartAngle \in 0 - 511 * D .. 511 * D
    BY <1>3, <2>1
  <2> QED
    BY <1>3, <1>4, <1>6, <2>2, FloatIsNear
<1>8. Float(Resolution) = Resolution
  BY <1>3, FloatIsNear DEF AnglesOfAScan
<1>9. AddsUp(angle, start, Resolution, beams)
  <2>1. angle = AngleAfter(start, Resolution, beams)
    BY <1>1, <1>6, <1>8
  <2> QED
    BY <1>2, <1>3, <2>1, AngleEquation, Zenon
<1>10. 64 * (beams + 1) <= D
  <2>1. beams < 65536
    BY <1>2, Length16
  <2> QED
    BY <1>2, <1>4, <2>1, SMT DEF Degree
<1>11. HaveDrifted(angle, StartAngle, Resolution, beams)
  BY <1>2, <1>3, <1>4, <1>5, <1>6, <1>7, <1>9, <1>10, AnglesStayNear, Zenon
<1>12. PICK k \in 0 .. beams : k = n - 1
  BY <1>2
<1>13. PICK a \in Int : a = angle[k]
  BY <1>11 DEF HaveDrifted
<1>14. PICK r \in Int : r = StartAngle + k * Resolution
  BY <1>3
<1>15. a - r \in 0 - 64 * n .. 64 * n
  <2>1. a - r \in 0 - 64 * (k + 1) .. 64 * (k + 1)
    BY <1>11, <1>13, <1>14 DEF HaveDrifted
  <2>2. k + 1 = n
    BY <1>2, <1>12
  <2> QED
    BY <2>1, <2>2
<1>16. Distance(a, r) \in 0 .. 64 * n
  BY <1>2, <1>15 DEF Distance
<1>17. n \in Nat /\ n <= MaxExpectedBeams
  BY <1>2, MaxExpectedBeamsAssumption
<1> QED
  BY <1>2, <1>12, <1>13, <1>14, <1>16, <1>17

-----------------------------------------------------------------------------
(* The theorems. *)

\* What the members of a new parser hold never comes into the data.
LEMMA MembersDoNotMatter ==
  ASSUME NEW u, NEW angle, NEW delta, NEW num
  PROVE  SetDataBlocksInData(u, angle, delta, num).data = SetDataBlocksInData(u, 0, 0, 0).data
<1>1. PICK h : h = CheckedHeader(u)
  BY Zenon
<1>2. PICK d : d = ParseDerivedValues(u, h)
  BY Zenon
<1>3. ParseMeasurementData(u, h, d, angle, delta).measurement_data
      = ParseMeasurementData(u, h, d, 0, 0).measurement_data
  <2>1. CASE ArePreconditionsMet(h, d, "measurement_data")
    BY <2>1, Zenon DEF ParseMeasurementData
  <2>2. CASE ~ ArePreconditionsMet(h, d, "measurement_data")
    BY <2>2 DEF ParseMeasurementData
  <2> QED
    BY <2>1, <2>2
<1>4. ParseIntrusionData(u, h, d, num).intrusion_data = ParseIntrusionData(u, h, d, 0).intrusion_data
  <2>1. CASE ArePreconditionsMet(h, d, "intrusion_data")
    BY <2>1, Zenon DEF ParseIntrusionData
  <2>2. CASE ~ ArePreconditionsMet(h, d, "intrusion_data")
    BY <2>2 DEF ParseIntrusionData
  <2> QED
    BY <2>1, <2>2
<1>5. PICK m : m = ParseMeasurementData(u, h, d, angle, delta).measurement_data
  BY Zenon
<1>6. PICK i : i = ParseIntrusionData(u, h, d, num).intrusion_data
  BY Zenon
<1> DEFINE parsed == [header               |-> h,
                      derived_values       |-> d,
                      measurement_data     |-> m,
                      general_system_state |-> ParseGeneralSystemState(u, h),
                      intrusion_data       |-> i,
                      application_data     |-> ParseApplicationData(u, h)]
<1>7. SetDataBlocksInData(u, angle, delta, num).data = parsed
  BY <1>1, <1>2, <1>5, <1>6 DEF SetDataBlocksInData
<1>8. SetDataBlocksInData(u, 0, 0, 0).data = parsed
  <2>1. /\ m = ParseMeasurementData(u, h, d, 0, 0).measurement_data
        /\ i = ParseIntrusionData(u, h, d, 0).intrusion_data
    BY <1>3, <1>4, <1>5, <1>6
  <2> QED
    BY <1>1, <1>2, <2>1 DEF SetDataBlocksInData
<1> QED
  BY <1>7, <1>8, Zenon

\* The data are a function of the telegram parsed last.
ParsedInv ==
  /\ telegram \in Telegram
  /\ data = SetDataBlocksInData(Buffer(telegram, flipped), 0, 0, 0).data

LEMMA ParsesOneWay ==
  ASSUME NEW u, NEW d \in Parses(u)
  PROVE  d = SetDataBlocksInData(u, 0, 0, 0).data
<1>1. PICK m \in Uninitialised : d = SetDataBlocksInData(u, m[1], m[2], m[3]).data
  BY Zenon DEF Parses
<1> QED
  BY <1>1, MembersDoNotMatter, Zenon

LEMMA ParsedAlways == Spec => []ParsedInv
<1>1. Init => ParsedInv
  <2> SUFFICES ASSUME Init PROVE ParsedInv
    OBVIOUS
  <2>1. PICK t \in Telegram : telegram = t /\ flipped = {} /\ data \in Parses(Buffer(t, {}))
    BY DEF Init
  <2>2. data = SetDataBlocksInData(Buffer(t, {}), 0, 0, 0).data
    BY <2>1, ParsesOneWay
  <2> QED
    BY <2>1, <2>2 DEF ParsedInv
<1>2. ASSUME NEW t \in Telegram, NEW flips, ParseUDPSequence(t, flips)
      PROVE  ParsedInv'
  <2>1. telegram' = t /\ flipped' = flips /\ data' \in Parses(Buffer(t, flips))
    BY <1>2 DEF ParseUDPSequence
  <2>2. data' = SetDataBlocksInData(Buffer(t, flips), 0, 0, 0).data
    BY <2>1, ParsesOneWay, Zenon
  <2> QED
    BY <2>1, <2>2, Zenon DEF ParsedInv
<1>3. ParsedInv /\ [Next]_vars => ParsedInv'
  <2> SUFFICES ASSUME ParsedInv, [Next]_vars PROVE ParsedInv'
    OBVIOUS
  <2>1. telegram \in Telegram
    BY DEF ParsedInv
  <2>2. CASE NextTelegram
    BY <1>2, <2>2 DEF NextTelegram
  <2>3. CASE NextTelegramDiffersInABit
    BY <1>2, <2>1, <2>3 DEF NextTelegramDiffersInABit
  <2>4. CASE BitComesBack
    BY <1>2, <2>1, <2>4 DEF BitComesBack
  <2>5. CASE UNCHANGED vars
    BY <2>5 DEF vars, ParsedInv
  <2> QED
    BY <2>2, <2>3, <2>4, <2>5 DEF Next
<1> QED
  BY <1>1, <1>3, PTL DEF Spec

\* The data are the same whatever the members of a new parser happen to hold, of
\* any bytes, sound or not: m_angle, m_angle_delta and m_num_scan_points are
\* never read before they are set (ParseMeasurementData, ParseIntrusionData).
UninitialisedMembersDoNotShow ==
  data = SetDataBlocksInData(Buffer(telegram, flipped), 0, 0, 0).data

THEOREM UninitialisedMembersDoNotShowAlways == Spec => []UninitialisedMembersDoNotShow
<1>1. ParsedInv => UninitialisedMembersDoNotShow
  BY DEF ParsedInv, UninitialisedMembersDoNotShow
<1> QED
  BY <1>1, ParsedAlways, PTL

\* Whatever the number of beams, the order of the blocks and what is published,
\* each block that the scanner hands out is what its own bytes say: of the other
\* blocks and of the members that a new parser leaves uninitialised nothing
\* comes into it, and nothing is parsed of a telegram that is cut short
\* (ParseData::setDataBlocksInData and the parsers it calls).
THEOREM BlocksAreIndependentAlways == Spec => []BlocksAreIndependent
<1>1. ParsedInv => BlocksAreIndependent
  <2> SUFFICES ASSUME ParsedInv, flipped = {} PROVE BlocksAreIndependent
    BY DEF BlocksAreIndependent
  <2>1. /\ telegram \in Telegram
        /\ data = SetDataBlocksInData(Buffer(telegram, {}), 0, 0, 0).data
    BY DEF ParsedInv
  <2>2. ASSUME NEW b \in Blocks
        PROVE  data[b]
               = IF /\ b \in telegram.published
                    /\ telegram.missing = 0
                    /\ b \in NeedDerivedValues => "derived_values" \in telegram.published
                 THEN Alone[telegram.beams][b]
                 ELSE Empty
    BY <2>1, BlocksParsed
  <2> QED
    BY <2>2 DEF BlocksAreIndependent
<1> QED
  BY <1>1, ParsedAlways, PTL

\* The measurement data of a telegram that has some, whole and not flipped, are
\* what their own bytes say.
LEMMA PointsOfATelegram ==
  ASSUME ParsedInv, flipped = {}, ~ data.measurement_data.is_empty
  PROVE  \E beams \in Uint16 : data.measurement_data = Parsed("measurement_data", beams)
<1> DEFINE b == "measurement_data"
<1>1. /\ telegram \in Telegram
      /\ data = SetDataBlocksInData(Buffer(telegram, {}), 0, 0, 0).data
  BY DEF ParsedInv
<1>2. PICK measured : measured = data.measurement_data
  BY Zenon
<1>3. measured = IF /\ b \in telegram.published
                    /\ telegram.missing = 0
                    /\ b \in NeedDerivedValues => "derived_values" \in telegram.published
                 THEN Alone[telegram.beams][b]
                 ELSE Empty
  <2>1. b \in Blocks
    BY DEF Blocks
  <2> QED
    BY <1>1, <1>2, <2>1, BlocksParsed
<1>4. Empty.is_empty
  BY DEF Empty
<1>5. measured = Parsed(b, telegram.beams)
  BY <1>1, <1>2, <1>3, <1>4, AloneParsed
<1>6. telegram.beams \in Uint16
  BY <1>1, SensorTelegram DEF IsTelegram
<1> QED
  BY <1>2, <1>5, <1>6

\* Of every telegram whose angles are those of a scan, with any number of beams
\* up to the limit, each point has the angle of its beam, off by no more than 64
\* units for the start angle and for each addition before it, whatever the start
\* angle and the resolution (setScanPointsInMeasurementData).
THEOREM AnglesFollowTheBeamsAlways == AnglesOfAScan => (Spec => []AnglesFollowTheBeams)
<1> SUFFICES ASSUME AnglesOfAScan PROVE Spec => []AnglesFollowTheBeams
  OBVIOUS
<1>1. ParsedInv => AnglesFollowTheBeams
  <2> SUFFICES ASSUME ParsedInv, flipped = {}, ~ data.measurement_data.is_empty,
                      NEW n \in DOMAIN data.measurement_data.scan_points_vector
               PROVE  Distance(data.measurement_data.scan_points_vector[n].angle,
                               StartAngle + (n - 1) * Resolution) <= 64 * n
    BY DEF AnglesFollowTheBeams
  <2>1. PICK beams \in Uint16 : data.measurement_data = Parsed("measurement_data", beams)
    BY PointsOfATelegram
  <2>2. PICK off : off = Distance(data.measurement_data.scan_points_vector[n].angle,
                                  StartAngle + (n - 1) * Resolution)
    BY Zenon
  <2>3. n \in Nat /\ off \in 0 .. 64 * n
    BY <2>1, <2>2, AnglesOfPoints
  <2> QED
    BY <2>2, <2>3
<1> QED
  BY <1>1, ParsedAlways, PTL

\* No point is nearer to the beam next to its own than to its own.
NoPointIsOfTheNextBeam ==
  flipped = {} /\ ~ data.measurement_data.is_empty =>
    LET points == data.measurement_data.scan_points_vector
    IN \A n \in DOMAIN points :
         2 * Distance(points[n].angle, StartAngle + (n - 1) * Resolution) < Resolution

\* In a scan of 2751 beams, a tenth of a degree apart as those of the sensor may
\* be, or of any other number and distance for which the bound is small enough,
\* the sum that setScanPointsInMeasurementData adds up does not drift half way to
\* the next beam.
THEOREM NoPointIsOfTheNextBeamAlways ==
  AnglesOfAScan /\ 128 * MaxExpectedBeams < Resolution => (Spec => []NoPointIsOfTheNextBeam)
<1> SUFFICES ASSUME AnglesOfAScan, 128 * MaxExpectedBeams < Resolution
             PROVE  Spec => []NoPointIsOfTheNextBeam
  OBVIOUS
<1>1. ParsedInv => NoPointIsOfTheNextBeam
  <2> SUFFICES ASSUME ParsedInv, flipped = {}, ~ data.measurement_data.is_empty,
                      NEW n \in DOMAIN data.measurement_data.scan_points_vector
               PROVE  2 * Distance(data.measurement_data.scan_points_vector[n].angle,
                                   StartAngle + (n - 1) * Resolution) < Resolution
    BY DEF NoPointIsOfTheNextBeam
  <2>1. PICK beams \in Uint16 : data.measurement_data = Parsed("measurement_data", beams)
    BY PointsOfATelegram
  <2>2. PICK off : off = Distance(data.measurement_data.scan_points_vector[n].angle,
                                  StartAngle + (n - 1) * Resolution)
    BY Zenon
  <2>3. n \in Nat /\ n <= MaxExpectedBeams /\ off \in 0 .. 64 * n
    BY <2>1, <2>2, AnglesOfPoints
  <2>4. Resolution \in Int
    BY AnglesAssumption DEF Int32
  <2> QED
    BY <2>2, <2>3, <2>4, MaxExpectedBeamsAssumption
<1> QED
  BY <1>1, ParsedAlways, PTL
=============================================================================
