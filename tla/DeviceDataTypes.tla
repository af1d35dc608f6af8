-------------------------- MODULE DeviceDataTypes --------------------------
(***************************************************************************)
(* The data classes of the variables of the sensor and of its settings, as *)
(* records of the types of their members (see ScanDataTypes).              *)
(***************************************************************************)
EXTENDS ScanDataTypes

String == Seq(Byte)

\* The version that begins many of the variables.
VersionNumbers ==
  [version_c_version            |-> String,
   version_major_version_number |-> Uint8,
   version_minor_version_number |-> Uint8,
   version_release_number       |-> Uint8]

\* e_interface_type and e_ranges
E_EFIPRO == 0
E_ETHERNET_IP == 1
E_PROFINET == 3
E_NONSAFE_ETHERNET == 4

E_NORMAL_RANGE == 40
E_LONG_RANGE == 64

TypeCode ==
  [type_code      |-> String,
   interface_type |-> {E_EFIPRO, E_ETHERNET_IP, E_PROFINET, E_NONSAFE_ETHERNET},
   max_range      |-> {E_NORMAL_RANGE, E_LONG_RANGE}]

ApplicationName ==
  VersionNumbers ++ [name_length |-> Uint32, application_name |-> String]

UserName ==
  VersionNumbers ++ [name_length |-> Uint32, user_name |-> String]

DeviceName == [device_name |-> String]
SerialNumber == [serial_number |-> String]
OrderNumber == [order_number |-> String]
ProjectName == [project_name |-> String]
FirmwareVersion == [firmware_version |-> String]
DeviceStatus == [device_status |-> Uint8]

FieldHeaderMembers ==
  [is_valid            |-> BOOLEAN,
   is_defined          |-> BOOLEAN,
   eval_method         |-> Uint8,
   multi_sampling      |-> Uint16,
   object_resolution   |-> Uint16,
   field_set_index     |-> Uint16,
   name_length         |-> Uint32,
   field_name          |-> String,
   is_warning_field    |-> BOOLEAN,
   is_protective_field |-> BOOLEAN]

\* The resolution is 275.0 / array_length: the number of beams stands for it.
FieldGeometryMembers ==
  [beam_distances          |-> Seq(Uint16),
   start_angle             |-> Angle,
   end_angle               |-> Angle,
   angular_beam_resolution |-> Uint32]

FieldData == VersionNumbers ++ FieldHeaderMembers ++ FieldGeometryMembers

FieldSets ==
  VersionNumbers ++
  [name_length |-> Seq(Uint32), field_name |-> Seq(String), is_defined |-> Seq(BOOLEAN)]

MonitoringCaseData ==
  [is_valid               |-> BOOLEAN,
   monitoring_case_number |-> Uint16,
   field_indices          |-> NumberVector(8, Uint16),
   fields_valid           |-> FlagVector(8)]

CommunicationMembers ==
  [host_ip              |-> Uint32,
   host_udp_port        |-> Uint16,
   channel              |-> Uint8,
   enabled              |-> BOOLEAN,
   e_interface_type     |-> Uint8,
   publishing_frequency |-> Uint16,
   start_angle          |-> Angle,
   end_angle            |-> Angle,
   features             |-> Uint16]

\* The interbeam period is set and read as 32 bits, but kept in 16.
DerivedMembers ==
  [derived_multiplication_factor   |-> Uint16,
   derived_number_of_beams         |-> Uint16,
   derived_scan_time               |-> Uint16,
   derived_start_angle             |-> Angle,
   derived_angular_beam_resolution |-> Angle,
   derived_interbeam_period        |-> Uint16]

ConfigData == VersionNumbers ++ CommunicationMembers ++ DerivedMembers

\* Aggregate, with the same meaning as the members of ConfigData.
CommSettings == CommunicationMembers

ChangeMembers ==
  [modification_time_date |-> Uint16,
   modification_time_time |-> Uint32,
   transfer_time_date     |-> Uint16,
   transfer_time_time     |-> Uint32]

ConfigMetadata ==
  VersionNumbers ++ ChangeMembers ++
  [app_checksum     |-> Uint32,
   overall_checksum |-> Uint32,
   integrity_hash   |-> NumberVector(4, Uint32)]

StateMembers ==
  [device_state                |-> Uint8,
   config_state                |-> Uint8,
   application_state           |-> Uint8,
   current_time_power_on_count |-> Uint32,
   current_time_time           |-> Uint32,
   current_time_date           |-> Uint16]

ErrorMembers ==
  [error_info_code |-> Uint32, error_info_time |-> Uint32, error_info_date |-> Uint16]

StatusOverview == VersionNumbers ++ StateMembers ++ ErrorMembers

RequiredUserAction ==
  [m \in {"confirm_configuration", "check_configuration", "check_environment",
          "check_application_interfaces", "check_device", "run_setup_procedure",
          "check_firmware", "wait"} |-> BOOLEAN]
=============================================================================
