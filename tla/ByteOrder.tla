----------------------------- MODULE ByteOrder -----------------------------
(***************************************************************************)
(* ReadWriteHelper.hpp: integers in a buffer of bytes.  A buffer is a      *)
(* sequence of bytes; offsets count from 0, as the iterators of the code   *)
(* do.  Reading or writing beyond the end of a buffer is undefined here as *)
(* it is in the code.                                                      *)
(***************************************************************************)
EXTENDS Integers, Sequences

Byte == 0 .. 255

Uint8 == Byte
Int8 == -128 .. 127
Uint16 == {n \in Nat : n \div 256 \in Uint8}
Int16 == {n \in Int : n \div 256 \in Int8}
Uint32 == {n \in Nat : n \div 65536 \in Uint16}
Int32 == {n \in Int : n \div 65536 \in Int16}

\* The conversions of C++ from an unsigned to a signed integer of its width.
AsInt8(n) == IF n < 128 THEN n ELSE n - 256
AsInt16(n) == IF n < 32768 THEN n ELSE n - 65536

\* The bytes of characters.
Char == [A |-> 65, C |-> 67, F |-> 70, I |-> 73, L |-> 76, M |-> 77, N |-> 78, O |-> 79,
         P |-> 80, R |-> 82, X |-> 88, Y |-> 89, Z |-> 90]
Digit(n) == 48 + n

-----------------------------------------------------------------------------
(* Writing. *)

\* b with the bytes of v from offset o on.
Overwritten(b, o, v) ==
  [i \in DOMAIN b |-> IF i - o \in DOMAIN v THEN v[i - o] ELSE b[i]]

writeUint8(b, o, v) == Overwritten(b, o, <<v>>)

writeUint16BigEndian(b, o, v) == Overwritten(b, o, <<(v \div 256) % 256, v % 256>>)

writeUint16LittleEndian(b, o, v) == Overwritten(b, o, <<v % 256, (v \div 256) % 256>>)

writeUint32BigEndian(b, o, v) ==
  Overwritten(b, o, <<(v \div 16777216) % 256, (v \div 65536) % 256, (v \div 256) % 256, v % 256>>)

writeUint32LittleEndian(b, o, v) ==
  Overwritten(b, o, <<v % 256, (v \div 256) % 256, (v \div 65536) % 256, (v \div 16777216) % 256>>)

\* Two's complement: \div and % round towards minus infinity.
writeInt32LittleEndian(b, o, v) == writeUint32LittleEndian(b, o, v)

-----------------------------------------------------------------------------
(* Reading. *)

readUint8(b, o) == b[o + 1]

readUint16BigEndian(b, o) == 256 * b[o + 1] + b[o + 2]

readUint16LittleEndian(b, o) == 256 * b[o + 2] + b[o + 1]

readInt16LittleEndian(b, o) == AsInt16(readUint16LittleEndian(b, o))

readUint32BigEndian(b, o) ==
  16777216 * b[o + 1] + 65536 * b[o + 2] + 256 * b[o + 3] + b[o + 4]

readUint32LittleEndian(b, o) ==
  16777216 * b[o + 4] + 65536 * b[o + 3] + 256 * b[o + 2] + b[o + 1]

readInt32LittleEndian(b, o) ==
  16777216 * AsInt8(b[o + 4]) + 65536 * b[o + 3] + 256 * b[o + 2] + b[o + 1]

-----------------------------------------------------------------------------
(* What the parsers build from the integers. *)

\* bool(byte & (0x01 << k)) of the byte at offset o.
Bit(b, o, k) == (b[o + 1] \div 2^k) % 2 = 1

\* The first n flags of a little-endian word, or of a run of bytes, at o.
Flags(b, o, n) == [i \in 1 .. n |-> Bit(b, o + (i - 1) \div 8, (i - 1) % 8)]

\* A std::string of n bytes at offset o, filled byte by byte.
Text(b, o, n) == [i \in 1 .. n |-> readUint8(b, o + i - 1)]
=============================================================================
