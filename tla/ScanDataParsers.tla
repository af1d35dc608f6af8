-------------------------- MODULE ScanDataParsers --------------------------
(***************************************************************************)
(* ParseData and the parsers it owns: what they make of the bytes of a     *)
(* merged telegram.  In each operator data is what has been parsed so far. *)
(*                                                                         *)
(* The parser of the measurement data has the angle and its increment in   *)
(* members and the parser of the intrusion data the number of scan points, *)
(* all of which its constructor leaves uninitialised: what they hold is a  *)
(* parameter of the operators and, with the results, what they return.     *)
(***************************************************************************)
EXTENDS ScanDataTypes

CONSTANT MaxExpectedBeams   \* maxexpectedbeams, 2751 in the code

ASSUME MaxExpectedBeamsAssumption == MaxExpectedBeams \in Nat

Empty == [is_empty |-> TRUE]

-----------------------------------------------------------------------------
(* ParseDataHeader. *)

SetVersionInDataHeader(b) ==
  [version_indicator            |-> readUint8(b, 0),
   version_major_version        |-> readUint8(b, 1),
   version_minor_version        |-> readUint8(b, 2),
   version_release              |-> readUint8(b, 3),
   serial_number_of_device      |-> readUint32LittleEndian(b, 4),
   serial_number_of_system_plug |-> readUint32LittleEndian(b, 8)]

SetScanHeaderInDataHeader(b) ==
  [channel_number  |-> readUint8(b, 12),
   sequence_number |-> readUint32LittleEndian(b, 16),
   scan_number     |-> readUint32LittleEndian(b, 20),
   timestamp_date  |-> readUint16LittleEndian(b, 24),
   timestamp_time  |-> readUint32LittleEndian(b, 28)]

SetDataBlocksInDataHeader(b) ==
  LET At(o) == [offset |-> readUint16LittleEndian(b, o),
                size   |-> readUint16LittleEndian(b, o + 2)]
  IN [general_system_state |-> At(32),
      derived_values       |-> At(36),
      measurement_data     |-> At(40),
      intrusion_data       |-> At(44),
      application_data     |-> At(48)]

ParseDataHeader(b) ==
  [is_empty |-> FALSE, block |-> SetDataBlocksInDataHeader(b)]
  ++ SetVersionInDataHeader(b) ++ SetScanHeaderInDataHeader(b)

\* check...IsPublished: the sensor leaves the entry of a block it does not
\* publish zero.
IsPublished(header, block) ==
  ~ (header.block[block].offset = 0 /\ header.block[block].size = 0)

\* data_ptr: a block from its first byte to the end of the buffer.
BytesFrom(b, header, block) ==
  SubSeq(b, header.block[block].offset + 1, Len(b))

-----------------------------------------------------------------------------
(* ParseDerivedValues. *)

\* What the significand of a float tells apart, in 24 bits, and the units in
\* which it counts an angle.  The sum of two angles of a telegram has 32 bits at
\* most, and a sign.
FloatValues == 16777216
FloatUnits == {1, 2, 4, 8, 16, 32, 64, 128, 256}

FloatUnit(size) ==
  CHOOSE u \in FloatUnits :
    /\ u = 1 \/ size \div u >= FloatValues \div 2
    /\ u = 256 \/ size \div u < FloatValues

\* The nearest float of an angle, of two the even one.
Float(v) ==
  LET size    == IF v < 0 THEN 0 - v ELSE v
      u       == FloatUnit(size)
      q       == size \div u
      r       == size % u
      nearest == IF 2 * r > u \/ (2 * r = u /\ q % 2 = 1) THEN (q + 1) * u ELSE q * u
  IN IF v < 0 THEN 0 - nearest ELSE nearest

SetDataInDerivedValues(b) ==
  [is_empty                |-> FALSE,
   multiplication_factor   |-> readUint16LittleEndian(b, 0),
   number_of_beams         |-> readUint16LittleEndian(b, 2),
   scan_time               |-> readUint16LittleEndian(b, 4),
   start_angle             |-> Float(readInt32LittleEndian(b, 8)),
   angular_beam_resolution |-> Float(readInt32LittleEndian(b, 12)),
   interbeam_period        |-> readUint32LittleEndian(b, 16)]

ParseDerivedValues(b, header) ==
  IF IsPublished(header, "derived_values") /\ ~ header.is_empty
  THEN SetDataInDerivedValues(BytesFrom(b, header, "derived_values"))
  ELSE Empty

-----------------------------------------------------------------------------
(* ParseMeasurementData. *)

\* The measurement and the intrusion data need the derived values.
ArePreconditionsMet(header, derived, block) ==
  IsPublished(header, block) /\ ~ header.is_empty /\ ~ derived.is_empty

SetStartAngleAndDelta(derived) ==
  [m_angle |-> derived.start_angle, m_angle_delta |-> derived.angular_beam_resolution]

\* m_angle += m_angle_delta
NextAngle(angle, delta) == Float(angle + delta)

\* Mutant of AngleAfter: the increment is added before the point.
AngleAfterAndNext(start, delta, n) ==
  LET angle[i \in 0 .. n] ==
        IF i = 0 THEN NextAngle(start, delta) ELSE NextAngle(angle[i - 1], delta)
  IN angle

\* m_angle when i points have been added.
AngleAfter(start, delta, n) ==
  LET angle[i \in 0 .. n] == IF i = 0 THEN start ELSE NextAngle(angle[i - 1], delta)
  IN angle

AddScanPointToMeasurementData(b, offset, angle) ==
  LET Status(k) == Bit(b, 7 + offset * 4, k)
  IN [angle                     |-> angle,
      distance                  |-> readUint16LittleEndian(b, 4 + offset * 4),
      reflectivity              |-> readUint8(b, 6 + offset * 4),
      valid_bit                 |-> Status(0),
      infinite_bit              |-> Status(1),
      glare_bit                 |-> Status(2),
      reflector_bit             |-> Status(3),
      contamination_bit         |-> Status(4),
      contamination_warning_bit |-> Status(5)]

\* Mutant of SetDataInMeasurementData: the limit is not included.
SetDataBelowLimit(b, m_angle, m_angle_delta) ==
  LET numBeams == readUint32LittleEndian(b, 0)
      angle    == AngleAfter(m_angle, m_angle_delta, numBeams)
  IN IF numBeams >= MaxExpectedBeams
     THEN [measurement_data |-> [is_empty |-> TRUE, number_of_beams |-> 0], m_angle |-> m_angle]
     ELSE [measurement_data |->
             [is_empty           |-> FALSE,
              number_of_beams    |-> numBeams,
              scan_points_vector |->
                [i \in 1 .. numBeams |-> AddScanPointToMeasurementData(b, i - 1, angle[i - 1])]],
           m_angle |-> angle[numBeams]]

SetDataInMeasurementData(b, m_angle, m_angle_delta) ==
  LET numBeams == readUint32LittleEndian(b, 0)
      angle    == AngleAfter(m_angle, m_angle_delta, numBeams)
  IN IF numBeams > MaxExpectedBeams
     THEN [measurement_data |-> [is_empty |-> TRUE, number_of_beams |-> 0], m_angle |-> m_angle]
     ELSE [measurement_data |->
             [is_empty           |-> FALSE,
              number_of_beams    |-> numBeams,
              scan_points_vector |->
                [i \in 1 .. numBeams |-> AddScanPointToMeasurementData(b, i - 1, angle[i - 1])]],
           m_angle |-> angle[numBeams]]

ParseMeasurementData(b, header, derived, m_angle, m_angle_delta) ==
  IF ArePreconditionsMet(header, derived, "measurement_data")
  THEN LET start  == SetStartAngleAndDelta(derived)
           result == SetDataInMeasurementData(BytesFrom(b, header, "measurement_data"),
                                              start.m_angle, start.m_angle_delta)
       IN result ++ start
  ELSE [measurement_data |-> Empty, m_angle |-> m_angle, m_angle_delta |-> m_angle_delta]

-----------------------------------------------------------------------------
(* ParseGeneralSystemState. *)

SetStatusBitsInGeneralSystemState(b) ==
  [run_mode_active          |-> Bit(b, 0, 0),
   standby_mode_active      |-> Bit(b, 0, 1),
   contamination_warning    |-> Bit(b, 0, 2),
   contamination_error      |-> Bit(b, 0, 3),
   reference_contour_status |-> Bit(b, 0, 4),
   manipulation_status      |-> Bit(b, 0, 5)]

SetCutOffPathsInGeneralSystemState(b) ==
  [safe_cut_off_path_vector           |-> Flags(b, 1, 20),
   non_safe_cut_off_path_vector       |-> Flags(b, 4, 20),
   reset_required_cut_off_path_vector |-> Flags(b, 7, 20)]

SetCasesAndErrorsInGeneralSystemState(b) ==
  [current_monitoring_case_no_table |-> [i \in 1 .. 4 |-> readUint8(b, 9 + i)],
   application_error                |-> Bit(b, 15, 0),
   device_error                     |-> Bit(b, 15, 1)]

ParseGeneralSystemState(b, header) ==
  IF IsPublished(header, "general_system_state") /\ ~ header.is_empty
  THEN LET block == BytesFrom(b, header, "general_system_state")
       IN [is_empty |-> FALSE]
          ++ SetStatusBitsInGeneralSystemState(block)
          ++ SetCutOffPathsInGeneralSystemState(block)
          ++ SetCasesAndErrorsInGeneralSystemState(block)
  ELSE Empty

-----------------------------------------------------------------------------
(* ParseIntrusionData. *)

NumberOfIntrusionDatums == 24

\* setSizeInIntrusionDatum stores 32 unsigned bits in an int32_t.
SetSizeInIntrusionDatum(b, offset) == readInt32LittleEndian(b, offset)

\* As many flags as there are scan points, and no more than the bytes hold.
SetFlagsInIntrusionDatum(b, offset, size, num_scan_points) ==
  Flags(b, offset,
        IF size <= 0 THEN 0
        ELSE IF size > num_scan_points \div 8 THEN num_scan_points
        ELSE 8 * size)

\* offset is a uint16_t: it wraps around.
SetDataInIntrusionDatums(b, num_scan_points) ==
  LET offset[i \in 1 .. NumberOfIntrusionDatums] ==
        IF i = 1 THEN 0
        ELSE LET before == offset[i - 1]
             IN (before + 4 + SetSizeInIntrusionDatum(b, before)) % 65536
  IN [i \in 1 .. NumberOfIntrusionDatums |->
        LET size == SetSizeInIntrusionDatum(b, offset[i])
        IN [size         |-> size,
            flags_vector |-> SetFlagsInIntrusionDatum(b, offset[i] + 4, size, num_scan_points)]]

\* Mutant of ParseIntrusionData: the number of scan points is set too late.
ParseIntrusionDataFirst(b, header, derived, m_num_scan_points) ==
  IF ArePreconditionsMet(header, derived, "intrusion_data")
  THEN [intrusion_data |->
          [is_empty              |-> FALSE,
           intrusion_data_vector |->
             SetDataInIntrusionDatums(BytesFrom(b, header, "intrusion_data"), m_num_scan_points)],
        m_num_scan_points |-> derived.number_of_beams]
  ELSE [intrusion_data |-> Empty, m_num_scan_points |-> m_num_scan_points]

ParseIntrusionData(b, header, derived, m_num_scan_points) ==
  IF ArePreconditionsMet(header, derived, "intrusion_data")
  THEN [intrusion_data |->
          [is_empty              |-> FALSE,
           intrusion_data_vector |->
             SetDataInIntrusionDatums(BytesFrom(b, header, "intrusion_data"),
                                      derived.number_of_beams)],
        m_num_scan_points |-> derived.number_of_beams]
  ELSE [intrusion_data |-> Empty, m_num_scan_points |-> m_num_scan_points]

-----------------------------------------------------------------------------
(* ParseApplicationData. *)

\* n numbers of two bytes at offset o.
Uint16s(b, o, n) == [i \in 1 .. n |-> readUint16LittleEndian(b, o + (i - 1) * 2)]
Int16s(b, o, n) == [i \in 1 .. n |-> readInt16LittleEndian(b, o + (i - 1) * 2)]

\* Mutant of SetLinearVelocity: the velocities stay unsigned.
SetLinearSpeed(b, o) ==
  [velocity_0                    |-> readUint16LittleEndian(b, o),
   velocity_1                    |-> readUint16LittleEndian(b, o + 2),
   velocity_0_valid              |-> Bit(b, o + 4, 0),
   velocity_1_valid              |-> Bit(b, o + 4, 1),
   velocity_0_transmitted_safely |-> Bit(b, o + 4, 4),
   velocity_1_transmitted_safely |-> Bit(b, o + 4, 5)]

\* The velocities are read as unsigned numbers and stored in int16_t members.
SetLinearVelocity(b, o) ==
  [velocity_0                    |-> AsInt16(readUint16LittleEndian(b, o)),
   velocity_1                    |-> AsInt16(readUint16LittleEndian(b, o + 2)),
   velocity_0_valid              |-> Bit(b, o + 4, 0),
   velocity_1_valid              |-> Bit(b, o + 4, 1),
   velocity_0_transmitted_safely |-> Bit(b, o + 4, 4),
   velocity_1_transmitted_safely |-> Bit(b, o + 4, 5)]

SetDataInApplicationInputs(b) ==
  [unsafe_inputs_input_sources_vector |-> Flags(b, 0, 32),
   unsafe_inputs_flags_vector         |-> Flags(b, 4, 32),
   monitoring_case_vector             |-> Uint16s(b, 12, 20),
   monitoring_case_flags_vector       |-> Flags(b, 52, 20),
   sleep_mode_input                   |-> AsInt8(readUint8(b, 74))]
  ++ SetLinearVelocity(b, 56)

\* Mutant of SetEvaluationPathsOutputs: the valid flags are read where the
\* flags of the safe evaluation outputs are.
SetEvaluationPathsOutputsTwice(b) ==
  [eval_out_vector          |-> Flags(b, 140, 20),
   eval_out_is_safe_vector  |-> Flags(b, 144, 20),
   eval_out_is_valid_vector |-> Flags(b, 144, 20)]

SetEvaluationPathsOutputs(b) ==
  [eval_out_vector          |-> Flags(b, 140, 20),
   eval_out_is_safe_vector  |-> Flags(b, 144, 20),
   eval_out_is_valid_vector |-> Flags(b, 148, 20)]

\* The last 12 of the flags lie in the bytes at 193 and 194, from which the
\* sleep mode and the error flags are read as well.
SetMonitoringCaseOutputs(b) ==
  [monitoring_case_vector       |-> Uint16s(b, 152, 20),
   monitoring_case_flags_vector |-> Flags(b, 192, 20),
   sleep_mode_output            |-> AsInt8(readUint8(b, 193))]

SetErrorFlags(b) ==
  [host_error_flag_contamination_warning      |-> Bit(b, 194, 0),
   host_error_flag_contamination_error        |-> Bit(b, 194, 1),
   host_error_flag_manipulation_error         |-> Bit(b, 194, 2),
   host_error_flag_glare                      |-> Bit(b, 194, 3),
   host_error_flag_reference_contour_intruded |-> Bit(b, 194, 4),
   host_error_flag_critical_error             |-> Bit(b, 194, 5)]

SetResultingVelocityOutputs(b) ==
  [resulting_velocity_vector          |-> Int16s(b, 208, 20),
   resulting_velocity_is_valid_vector |-> Flags(b, 248, 20),
   flags_sleep_mode_output_is_valid   |-> Bit(b, 259, 0),
   flags_host_error_flags_are_valid   |-> Bit(b, 259, 1)]

ParseApplicationData(b, header) ==
  IF IsPublished(header, "application_data") /\ ~ header.is_empty
  THEN LET block == BytesFrom(b, header, "application_data")
       IN [is_empty |-> FALSE,
           inputs   |-> SetDataInApplicationInputs(block),
           outputs  |-> SetEvaluationPathsOutputs(block) ++ SetMonitoringCaseOutputs(block)
                        ++ SetErrorFlags(block) ++ SetLinearVelocity(block, 200)
                        ++ SetResultingVelocityOutputs(block)]
  ELSE Empty

-----------------------------------------------------------------------------
(* ParseData. *)

ExpectedSize(header) ==
  header.block["derived_values"].size + header.block["measurement_data"].size
  + header.block["general_system_state"].size + header.block["intrusion_data"].size
  + header.block["application_data"].size

NothingPublished == [block \in Blocks |-> [offset |-> 0, size |-> 0]]

\* A buffer shorter than its blocks together loses its block table.
CheckedHeader(b) ==
  LET header == ParseDataHeader(b)
  IN IF Len(b) < ExpectedSize(header) THEN [header EXCEPT !.block = NothingPublished] ELSE header

\* The parsed data and the members of the parsers afterwards.
SetDataBlocksInData(b, m_angle, m_angle_delta, m_num_scan_points) ==
  LET header      == CheckedHeader(b)
      derived     == ParseDerivedValues(b, header)
      measurement == ParseMeasurementData(b, header, derived, m_angle, m_angle_delta)
      intrusion   == ParseIntrusionData(b, header, derived, m_num_scan_points)
  IN [data              |-> [header               |-> header,
                             derived_values       |-> derived,
                             measurement_data     |-> measurement.measurement_data,
                             general_system_state |-> ParseGeneralSystemState(b, header),
                             intrusion_data       |-> intrusion.intrusion_data,
                             application_data     |-> ParseApplicationData(b, header)],
      m_angle           |-> measurement.m_angle,
      m_angle_delta     |-> measurement.m_angle_delta,
      m_num_scan_points |-> intrusion.m_num_scan_points]
=============================================================================
