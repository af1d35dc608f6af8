--------------------------- MODULE ScanTelegrams ---------------------------
(***************************************************************************)
(* The bytes of the telegrams the sensor sends, as far as the parsers tell *)
(* them apart: the sensor is not part of this code.  A telegram is a       *)
(* record: the blocks it publishes, the order of the blocks, the number of *)
(* beams.                                                                  *)
(***************************************************************************)
EXTENDS ScanDataParsers

CONSTANTS
  StartAngle,   \* the angle of the first beam
  Resolution    \* the angle between two beams

\* Both have 32 bits in a telegram.
ASSUME AnglesAssumption == StartAngle \in Int32 /\ Resolution \in Int32

HeaderSize == 52

\* n bytes that differ from each other; their two top bits are not set.
Filler(n, seed) == [i \in 1 .. n |-> (37 * i + seed) % 64]

IntrusionSizes(beams) ==
  [i \in 1 .. NumberOfIntrusionDatums |-> IF i % 3 = 0 THEN 0 ELSE (beams + 7) \div 8]

IntrusionBytes(beams) ==
  LET sizes == IntrusionSizes(beams)
      Datum(i) == writeUint32LittleEndian(Filler(4 + sizes[i], i), 0, sizes[i])
      bytes[i \in 0 .. NumberOfIntrusionDatums] ==
        IF i = 0 THEN <<>> ELSE bytes[i - 1] \o Datum(i)
  IN bytes[NumberOfIntrusionDatums]

DerivedBytes(beams) ==
  writeUint16LittleEndian(
    writeInt32LittleEndian(
      writeInt32LittleEndian(Filler(20, 11), 8, StartAngle), 12, Resolution), 2, beams)

BlockBytes(block, beams) ==
  CASE block = "derived_values"       -> DerivedBytes(beams)
    [] block = "measurement_data"     -> writeUint32LittleEndian(Filler(4 + 4 * beams, 23), 0, beams)
    [] block = "general_system_state" -> Filler(16, 5)
    [] block = "intrusion_data"       -> IntrusionBytes(beams)
    [] block = "application_data"     -> Filler(260, 47)

\* Where the header has the offset of a block, and its size two bytes on.
BlockEntry == [general_system_state |-> 32, derived_values |-> 36, measurement_data |-> 40,
               intrusion_data |-> 44, application_data |-> 48]

\* The bytes of a telegram with nothing missing, block after block.
WholeBytes(t) ==
  LET n == Len(t.order)
      bytes[i \in 0 .. n] ==
        IF i = 0
        THEN Filler(32, 3) \o [k \in 1 .. HeaderSize - 32 |-> 0]
        ELSE LET before == bytes[i - 1]
                 block  == BlockBytes(t.order[i], t.beams)
                 offset == writeUint16LittleEndian(before, BlockEntry[t.order[i]], Len(before))
             IN IF t.order[i] \in t.published
                THEN writeUint16LittleEndian(offset, BlockEntry[t.order[i]] + 2, Len(block)) \o block
                ELSE before
  IN bytes[n]

\* The byte at offset o with bit k inverted.
Inverted(bytes, o, k) ==
  IF Bit(bytes, o, k) THEN readUint8(bytes, o) - 2^k ELSE readUint8(bytes, o) + 2^k

-----------------------------------------------------------------------------
(* Comparing what was parsed. *)

Differing(x, y) == {i \in DOMAIN x : x[i] # y[i]}

\* The members in which two objects differ; of vectors, the elements.
DifferingMembers(vectors, x, y) ==
  UNION {IF m \in vectors THEN {m} \X Differing(x[m], y[m]) ELSE {<<m, 0>>} : m \in Differing(x, y)}
=============================================================================
