-------------------------- MODULE ScanDataParsing --------------------------
(***************************************************************************)
(* One merged telegram after the other is parsed, each by a ParseData      *)
(* object of its own, as both scanners do.                                 *)
(*                                                                         *)
(* The telegrams differ in the blocks they publish, in the order of the    *)
(* blocks, in the number of beams, and in how much of the end is missing;  *)
(* what their other bytes hold is fixed, up to a single bit.               *)
(***************************************************************************)
EXTENDS ScanTelegrams, FiniteSets

CONSTANTS
  Telegram,       \* the telegrams the sensor sends: [published, order, beams, missing]
  Probed,         \* those of which single bits change
  Uninitialised   \* what the members of a new ParseData may hold: triples of
                  \* m_angle, m_angle_delta and m_num_scan_points

\* A telegram has each block once, and its offsets have 16 bits.  The size check
\* of the code does not count the header: a telegram that misses some bytes, but
\* no more than a header has, is parsed beyond its end, as is one that misses a
\* part of its header.
ASSUME TelegramAssumption ==
  \A t \in Telegram :
    /\ t.published \subseteq Blocks
    /\ t.order \in Seq(Blocks)
    /\ \A i, j \in DOMAIN t.order : t.order[i] = t.order[j] => i = j
    /\ \A b \in t.published : \E i \in DOMAIN t.order : t.order[i] = b
    /\ t.beams \in Uint16
    /\ Len(WholeBytes(t)) \in Uint16
    /\ t.missing = 0 \/ t.missing \in HeaderSize + 1 .. Len(WholeBytes(t)) - HeaderSize

\* Bits change in telegrams that have everything.
ASSUME ProbedAssumption ==
  \A t \in Probed :
    t \in Telegram /\ t.published = Blocks /\ t.missing = 0 /\ t.beams <= MaxExpectedBeams

ASSUME UninitialisedAssumption == Uninitialised # {}

VARIABLES
  telegram,   \* the telegram parsed last
  flipped,    \* the bit of it that differs: {} or {<<offset, bit>>}
  data        \* what was parsed

vars == <<telegram, flipped, data>>

-----------------------------------------------------------------------------
(* The buffers that are parsed. *)

TelegramBytes == [t \in Telegram |-> SubSeq(WholeBytes(t), 1, Len(WholeBytes(t)) - t.missing)]

\* The bytes of a telegram with the bit in flips, if any, inverted.
Buffer(t, flips) ==
  LET bytes == TelegramBytes[t]
      f     == CHOOSE f \in flips : TRUE
  IN IF flips = {} THEN bytes ELSE writeUint8(bytes, f[1], Inverted(bytes, f[1], f[2]))

\* The bytes that say where other data are, or how many: they are not flipped.
LayoutBytes(t) ==
  LET At(block, o) == readUint16LittleEndian(TelegramBytes[t], BlockEntry[block]) + o
      sizes == IntrusionSizes(t.beams)
      size[i \in 1 .. NumberOfIntrusionDatums] ==
        IF i = 1 THEN At("intrusion_data", 0) ELSE size[i - 1] + 4 + sizes[i - 1]
  IN 32 .. 51
     \cup {At("derived_values", o) : o \in 2 .. 3}
     \cup {At("measurement_data", o) : o \in 0 .. 3}
     \cup UNION {size[i] .. size[i] + 3 : i \in 1 .. NumberOfIntrusionDatums}

\* The bits that make 32 bit numbers too large for TLC.
LargeBits(t) ==
  LET derived == readUint16LittleEndian(TelegramBytes[t], BlockEntry["derived_values"])
  IN {<<o, 7>> : o \in {7, 11, 19, 23, 31, derived + 19}} \cup {<<derived + 15, k>> : k \in 4 .. 7}

FlippableBits ==
  [t \in Probed |->
     {f \in (0 .. Len(TelegramBytes[t]) - 1) \X (0 .. 7) : f[1] \notin LayoutBytes(t)}
     \ LargeBits(t)]

-----------------------------------------------------------------------------
(* Actions. *)

\* What a new parser may make of a buffer.  Its constructors leave the members
\* of ParseMeasurementData and ParseIntrusionData uninitialised.
Parses(b) == {SetDataBlocksInData(b, m[1], m[2], m[3]).data : m \in Uninitialised}

\* The first telegram has been parsed.
Init ==
  \E t \in Telegram :
    /\ telegram = t
    /\ flipped = {}
    /\ data \in Parses(Buffer(t, {}))

\* parseUDPSequence
ParseUDPSequence(t, flips) ==
  /\ telegram' = t
  /\ flipped' = flips
  /\ data' \in Parses(Buffer(t, flips))

NextTelegram ==
  /\ flipped = {}
  /\ \E t \in Telegram : ParseUDPSequence(t, {})

\* The next telegram is the last one but for a single bit.
NextTelegramDiffersInABit ==
  /\ flipped = {}
  /\ telegram \in Probed
  /\ \E f \in FlippableBits[telegram] : ParseUDPSequence(telegram, {f})

BitComesBack ==
  /\ flipped # {}
  /\ ParseUDPSequence(telegram, {})

Next == NextTelegram \/ NextTelegramDiffersInABit \/ BitComesBack

Spec == Init /\ [][Next]_vars

-----------------------------------------------------------------------------
(* Properties. *)

TypeOK ==
  /\ telegram \in Telegram
  /\ Cardinality(flipped) <= 1
  /\ IsData(data)

\* What a parser whose members happen to be 0 makes of a block when the telegram
\* has nothing but the block and the derived values.
Alone ==
  [beams \in {t.beams : t \in Telegram} |->
     [b \in Blocks |->
        SetDataBlocksInData(
          WholeBytes([published |-> {"derived_values", b},
                      order     |-> IF b = "derived_values" THEN <<b>> ELSE <<"derived_values", b>>,
                      beams     |-> beams]), 0, 0, 0).data[b]]]

\* The blocks whose data depend on the derived values.
NeedDerivedValues == {"measurement_data", "intrusion_data"}

\* Each block of the result is what its own bytes say, wherever the sensor puts
\* the block, whatever else it publishes and whatever the members that the
\* parsers leave uninitialised hold; the blocks that are not published, those of
\* a telegram that is cut short and those that miss the derived values are empty
\* (setDataBlocksInData and the checkIfPreconditionsAreMet of each parser).
BlocksAreIndependent ==
  flipped = {} =>
    \A b \in Blocks :
      IF /\ b \in telegram.published
         /\ telegram.missing = 0
         /\ b \in NeedDerivedValues => "derived_values" \in telegram.published
      THEN data[b] = Alone[telegram.beams][b]
      ELSE data[b] = Empty

Distance(v, w) == IF v < w THEN w - v ELSE v - w

\* The scan points are one for each beam the telegram announces, up to the limit
\* and not beyond it; no datum of the intrusion data has flags for more beams
\* than that, and each that has any has one for every beam.
EveryBeamHasItsPoint ==
  LET measured == data.measurement_data
      points   == measured.scan_points_vector
  IN /\ ~ measured.is_empty => Len(points) = telegram.beams /\ Len(points) <= MaxExpectedBeams
     /\ telegram.published = Blocks /\ telegram.missing = 0 =>
          /\ measured.is_empty <=> telegram.beams > MaxExpectedBeams
          /\ \A i \in DOMAIN data.intrusion_data.intrusion_data_vector :
               LET flags == data.intrusion_data.intrusion_data_vector[i].flags_vector
               IN Len(flags) \in {0, telegram.beams}

\* The angles of a telegram are within a full turn, as those of a scanner are,
\* and two beams less than 4 degrees apart.
AnglesOfAScan ==
  /\ Resolution \in 1 - 4 * Degree .. 4 * Degree - 1
  /\ \A n \in 0 .. MaxExpectedBeams :
       StartAngle + n * Resolution \in 0 - 360 * Degree .. 360 * Degree

\* setScanPointsInMeasurementData gives the points their angles in the order of
\* the beams, from the start angle on.  The start angle and each addition are
\* rounded to single precision, which is never made up for, but by no more than
\* 64 units each.
AnglesFollowTheBeams ==
  flipped = {} /\ ~ data.measurement_data.is_empty =>
    LET points == data.measurement_data.scan_points_vector
    IN \A n \in DOMAIN points :
         Distance(points[n].angle, StartAngle + (n - 1) * Resolution) <= 64 * n

ElementwiseMembers ==
  {"safe_cut_off_path_vector", "non_safe_cut_off_path_vector",
   "reset_required_cut_off_path_vector", "current_monitoring_case_no_table",
   "unsafe_inputs_input_sources_vector", "unsafe_inputs_flags_vector", "monitoring_case_vector",
   "monitoring_case_flags_vector", "eval_out_vector", "eval_out_is_safe_vector",
   "eval_out_is_valid_vector", "resulting_velocity_vector", "resulting_velocity_is_valid_vector"}

\* The same for scan points, whose angles follow from the derived values, and
\* for the flags of the intrusion data.
DifferingElements(x, y) ==
  UNION {{i} \X Differing(x[i], y[i]) : i \in Differing(x, y)}

DifferingPoints(x, y) ==
  {e \in DifferingElements(x, y) : e[2] # "angle"}

\* Differences in the outputs, where the monitoring case flags from the ninth on
\* are read from the bytes of the sleep mode and of the error flags.
DifferingOutputs(x, y) ==
  DifferingMembers(ElementwiseMembers, x, y) \ ({"monitoring_case_flags_vector"} \X (9 .. 20))

NumberOfDifferences(x, y) ==
  Cardinality(DifferingMembers(ElementwiseMembers, x.header, y.header))
  + Cardinality(DifferingMembers(ElementwiseMembers, x.derived_values, y.derived_values))
  + Cardinality(DifferingPoints(x.measurement_data.scan_points_vector,
                                y.measurement_data.scan_points_vector))
  + Cardinality(DifferingMembers(ElementwiseMembers, x.general_system_state, y.general_system_state))
  + Cardinality(UNION {{i} \X Differing(x.intrusion_data.intrusion_data_vector[i].flags_vector,
                                        y.intrusion_data.intrusion_data_vector[i].flags_vector) :
                         i \in 1 .. NumberOfIntrusionDatums})
  + Cardinality(DifferingMembers(ElementwiseMembers, x.application_data.inputs, y.application_data.inputs))
  + Cardinality(DifferingOutputs(x.application_data.outputs, y.application_data.outputs))

\* Two telegrams that differ in a single bit give data that differ in one place
\* at most: of the some 300 numbers and flags the parsers read, each at an
\* offset and with a mask written by hand, no two share a bit of the telegram.
\* (The monitoring case flags of the outputs do: see DifferingOutputs.)
OneBitOneField ==
  [][telegram' = telegram /\ flipped' # flipped => NumberOfDifferences(data, data') <= 1]_vars
=============================================================================
