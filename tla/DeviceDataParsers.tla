------------------------- MODULE DeviceDataParsers -------------------------
(***************************************************************************)
(* The parsers of the variables of the sensor: what each sets in the       *)
(* object it is given, from the bytes b of the variable.  Members that a   *)
(* parser does not mention keep their value, which is why the operators    *)
(* return the members set, and not an object.                              *)
(*                                                                         *)
(* Names are shorter than 256 bytes: the counter of the loops that copy    *)
(* them is 8 bits wide.                                                    *)
(***************************************************************************)
EXTENDS DeviceDataTypes, ScanDataParsers

\* readVersionIndicator ... readReleaseNumber
ReadVersion(b) ==
  [version_c_version            |-> Text(b, 0, 1),
   version_major_version_number |-> readUint8(b, 1),
   version_minor_version_number |-> readUint8(b, 2),
   version_release_number       |-> readUint8(b, 3)]

\* A string behind its length, of 16 and of 32 bits.
ShortText(b, o) == Text(b, o + 2, readUint16LittleEndian(b, o))
LongText(b, o) == Text(b, o + 4, readUint32LittleEndian(b, o))

-----------------------------------------------------------------------------
(* Names and numbers of the device. *)

ParseDeviceName(b) == [device_name |-> ShortText(b, 0)]
ParseProjectName(b) == [project_name |-> ShortText(b, 0)]

\* These three read 16 bits for each character and keep the low byte.
ParseSerialNumber(b) == [serial_number |-> ShortText(b, 0)]
ParseOrderNumber(b) == [order_number |-> ShortText(b, 0)]
ParseFirmwareVersion(b) == [firmware_version |-> ShortText(b, 0)]

ParseApplicationName(b) ==
  ReadVersion(b) ++
  [name_length |-> readUint32LittleEndian(b, 4), application_name |-> LongText(b, 4)]

ParseUserName(b) ==
  ReadVersion(b) ++ [name_length |-> readUint32LittleEndian(b, 4), user_name |-> LongText(b, 4)]

ParseDeviceStatus(b) == [device_status |-> readUint8(b, 0)]

ReadInterfaceType(b) ==
  LET code == <<readUint8(b, 14), readUint8(b, 15)>>
  IN CASE code = <<Char.I, Char.Z>>                          -> E_ETHERNET_IP
       [] code \in {<<Char.P, Char.Z>>, <<Char.L, Char.Z>>} -> E_PROFINET
       [] code = <<Char.A, Char.N>>                          -> E_NONSAFE_ETHERNET
       [] OTHER                                              -> E_EFIPRO

ReadMaxRange(b) ==
  IF <<readUint8(b, 12), readUint8(b, 13)>> = <<Digit(9), Digit(0)>>
  THEN E_LONG_RANGE ELSE E_NORMAL_RANGE

ParseTypeCode(b) ==
  [type_code      |-> ShortText(b, 0),
   interface_type |-> ReadInterfaceType(b),
   max_range      |-> ReadMaxRange(b)]

-----------------------------------------------------------------------------
(* Fields and monitoring cases. *)

\* isValid: the version of a field or monitoring case that exists.
IsValid(b) == readUint8(b, 0) \in {Char.R, Char.Y}

SetFieldType(b) ==
  [is_protective_field |-> readUint8(b, 73) \in {4, 14},
   is_warning_field    |-> readUint8(b, 73) \in {5, 15}]

ReadFieldHeader(b) ==
  [is_defined        |-> readUint8(b, 72) # 0,
   eval_method       |-> readUint8(b, 73),
   multi_sampling    |-> readUint16LittleEndian(b, 74),
   object_resolution |-> readUint16LittleEndian(b, 78),
   field_set_index   |-> readUint16LittleEndian(b, 82),
   name_length       |-> readUint32LittleEndian(b, 84),
   field_name        |-> LongText(b, 84)]

ParseFieldHeader(b) ==
  IF IsValid(b)
  THEN [is_valid |-> TRUE] ++ SetFieldType(b) ++ ReadVersion(b) ++ ReadFieldHeader(b)
  ELSE [is_valid |-> FALSE]

\* -47.5 degrees
FieldStartAngle == 0 - 199229440

ParseFieldGeometry(b) ==
  LET array_length == readUint32LittleEndian(b, 4)
  IN [beam_distances          |-> Uint16s(b, 8, array_length),
      start_angle             |-> FieldStartAngle,
      angular_beam_resolution |-> array_length]

ParseFieldSets(b) ==
  LET array_length == readUint32LittleEndian(b, 4)
      At(o) == [i \in 1 .. array_length |-> o + (i - 1) * 104]
  IN ReadVersion(b) ++
     [name_length |-> [i \in 1 .. array_length |-> readUint32LittleEndian(b, At(8)[i])],
      field_name  |-> [i \in 1 .. array_length |-> LongText(b, At(8)[i])],
      is_defined  |-> [i \in 1 .. array_length |-> Bit(b, At(44)[i], 0)]]

\* Mutant of ParseMonitoringCase: each entry is taken for two numbers.
ParseMonitoringCasePacked(b) ==
  IF IsValid(b)
  THEN [is_valid               |-> TRUE,
        monitoring_case_number |-> readUint16LittleEndian(b, 6),
        field_indices          |-> Uint16s(b, 158, 8),
        fields_valid           |-> [i \in 1 .. 8 |-> Bit(b, 157 + (i - 1) * 4, 0)]]
  ELSE [is_valid |-> FALSE]

ParseMonitoringCase(b) ==
  IF IsValid(b)
  THEN [is_valid               |-> TRUE,
        monitoring_case_number |-> readUint16LittleEndian(b, 6),
        field_indices          |->
          [i \in 1 .. 8 |-> readUint16LittleEndian(b, 158 + (i - 1) * 4)],
        fields_valid           |-> [i \in 1 .. 8 |-> Bit(b, 157 + (i - 1) * 4, 0)]]
  ELSE [is_valid |-> FALSE]

-----------------------------------------------------------------------------
(* Configuration and state of the device. *)

\* The angles are read as unsigned numbers and set as signed ones.
ReadCommunicationSettings(b) ==
  [enabled              |-> readUint8(b, 4) # 0,
   e_interface_type     |-> readUint8(b, 5),
   host_ip              |-> readUint32LittleEndian(b, 8),
   host_udp_port        |-> readUint16LittleEndian(b, 12),
   publishing_frequency |-> readUint16LittleEndian(b, 14),
   start_angle          |-> Float(readInt32LittleEndian(b, 16)),
   end_angle            |-> Float(readInt32LittleEndian(b, 20)),
   features             |-> readUint16LittleEndian(b, 24)]

\* Mutant of ReadDerivedSettings: the period keeps its 32 bits.
ReadDerivedSettingsWide(b) ==
  [derived_multiplication_factor   |-> readUint16LittleEndian(b, 28),
   derived_number_of_beams         |-> readUint16LittleEndian(b, 30),
   derived_scan_time               |-> readUint16LittleEndian(b, 32),
   derived_start_angle             |-> Float(readInt32LittleEndian(b, 36)),
   derived_angular_beam_resolution |-> Float(readInt32LittleEndian(b, 40)),
   derived_interbeam_period        |-> readUint32LittleEndian(b, 44)]

ReadDerivedSettings(b) ==
  [derived_multiplication_factor   |-> readUint16LittleEndian(b, 28),
   derived_number_of_beams         |-> readUint16LittleEndian(b, 30),
   derived_scan_time               |-> readUint16LittleEndian(b, 32),
   derived_start_angle             |-> Float(readInt32LittleEndian(b, 36)),
   derived_angular_beam_resolution |-> Float(readInt32LittleEndian(b, 40)),
   derived_interbeam_period        |-> readUint32LittleEndian(b, 44) % 65536]

ParseMeasurementCurrentConfig(b) ==
  ReadVersion(b) ++ ReadCommunicationSettings(b) ++ ReadDerivedSettings(b)

ParseMeasurementPersistentConfig(b) == ReadVersion(b) ++ ReadCommunicationSettings(b)

ParseConfigMetadata(b) ==
  ReadVersion(b) ++
  [modification_time_date |-> readUint16LittleEndian(b, 4),
   modification_time_time |-> readUint32LittleEndian(b, 8),
   transfer_time_date     |-> readUint16LittleEndian(b, 12),
   transfer_time_time     |-> readUint32LittleEndian(b, 16),
   app_checksum           |-> readUint32LittleEndian(b, 36),
   overall_checksum       |-> readUint32LittleEndian(b, 52),
   integrity_hash         |-> [i \in 1 .. 4 |-> readUint32LittleEndian(b, 68 + (i - 1) * 4)]]

ParseStatusOverview(b) ==
  ReadVersion(b) ++
  [device_state                |-> readUint8(b, 4),
   config_state                |-> readUint8(b, 5),
   application_state           |-> readUint8(b, 6),
   current_time_power_on_count |-> readUint32LittleEndian(b, 12),
   current_time_time           |-> readUint32LittleEndian(b, 16),
   current_time_date           |-> readUint16LittleEndian(b, 20),
   error_info_code             |-> readUint32LittleEndian(b, 24),
   error_info_time             |-> readUint32LittleEndian(b, 52),
   error_info_date             |-> readUint16LittleEndian(b, 56)]

ParseRequiredUserAction(b) ==
  [confirm_configuration        |-> Bit(b, 0, 0),
   check_configuration          |-> Bit(b, 0, 1),
   check_environment            |-> Bit(b, 0, 2),
   check_application_interfaces |-> Bit(b, 0, 3),
   check_device                 |-> Bit(b, 0, 4),
   run_setup_procedure          |-> Bit(b, 0, 5),
   check_firmware               |-> Bit(b, 0, 6),
   wait                         |-> Bit(b, 0, 7)]
=============================================================================
