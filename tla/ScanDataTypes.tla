--------------------------- MODULE ScanDataTypes ---------------------------
(***************************************************************************)
(* The data classes of a scan, as the user is handed them.                 *)
(*                                                                         *)
(* A class is a record of the types of its members, which a getter and a   *)
(* setter each read and write.  An object is a record of those members     *)
(* that have been set: the constructors leave the others uninitialised     *)
(* (or, for vectors and strings, empty).  Angles are in units of a         *)
(* degree's 4194304th, the resolution of the sensor.                       *)
(***************************************************************************)
EXTENDS ByteOrder

\* The members of both, those of f where it has them: f @@ g of TLC, which the
\* provers know nothing about.
f ++ g == [m \in DOMAIN f \cup DOMAIN g |-> IF m \in DOMAIN f THEN f[m] ELSE g[m]]

\* object has no members but those of the class, each with a value of its type.
IsA(object, class) ==
  /\ DOMAIN object \subseteq DOMAIN class
  /\ \A m \in DOMAIN object : object[m] \in class[m]

\* A vector of n flags, or of n numbers of a type.
FlagVector(n) == [1 .. n -> BOOLEAN]
NumberVector(n, type) == [1 .. n -> type]

Angle == Int
Degree == 4194304

Blocks == {"general_system_state", "derived_values", "measurement_data",
           "intrusion_data", "application_data"}

\* Where the blocks are in a telegram: get...BlockOffset and get...BlockSize.
BlockTable == [Blocks -> [offset : Uint16, size : Uint16]]

VersionMembers ==
  [version_indicator            |-> Uint8,
   version_major_version        |-> Uint8,
   version_minor_version        |-> Uint8,
   version_release              |-> Uint8,
   serial_number_of_device      |-> Uint32,
   serial_number_of_system_plug |-> Uint32]

ScanHeaderMembers ==
  [channel_number  |-> Uint8,
   sequence_number |-> Uint32,
   scan_number     |-> Uint32,
   timestamp_date  |-> Uint16,
   timestamp_time  |-> Uint32]

DataHeader ==
  VersionMembers ++ ScanHeaderMembers ++ [is_empty |-> BOOLEAN, block |-> BlockTable]

DerivedValues ==
  [is_empty                |-> BOOLEAN,
   multiplication_factor   |-> Uint16,
   number_of_beams         |-> Uint16,
   scan_time               |-> Uint16,
   start_angle             |-> Angle,
   angular_beam_resolution |-> Angle,
   interbeam_period        |-> Uint32]

ScanPoint ==
  [angle : Angle, distance : Uint16, reflectivity : Uint8,
   valid_bit : BOOLEAN, infinite_bit : BOOLEAN, glare_bit : BOOLEAN,
   reflector_bit : BOOLEAN, contamination_bit : BOOLEAN,
   contamination_warning_bit : BOOLEAN]

MeasurementData ==
  [is_empty           |-> BOOLEAN,
   number_of_beams    |-> Uint32,
   scan_points_vector |-> Seq(ScanPoint)]

StatusBits ==
  [run_mode_active          |-> BOOLEAN,
   standby_mode_active      |-> BOOLEAN,
   contamination_warning    |-> BOOLEAN,
   contamination_error      |-> BOOLEAN,
   reference_contour_status |-> BOOLEAN,
   manipulation_status      |-> BOOLEAN]

CutOffPathsAndCases ==
  [is_empty                             |-> BOOLEAN,
   safe_cut_off_path_vector             |-> FlagVector(20),
   non_safe_cut_off_path_vector         |-> FlagVector(20),
   reset_required_cut_off_path_vector   |-> FlagVector(20),
   current_monitoring_case_no_table     |-> NumberVector(4, Uint8),
   application_error                    |-> BOOLEAN,
   device_error                         |-> BOOLEAN]

GeneralSystemState == StatusBits ++ CutOffPathsAndCases

IntrusionDatum == [size : Int32, flags_vector : Seq(BOOLEAN)]

IntrusionData ==
  [is_empty              |-> BOOLEAN,
   intrusion_data_vector |-> Seq(IntrusionDatum)]

\* The velocities, which the inputs and the outputs both have.
VelocityMembers ==
  [velocity_0                    |-> Int16,
   velocity_1                    |-> Int16,
   velocity_0_valid              |-> BOOLEAN,
   velocity_1_valid              |-> BOOLEAN,
   velocity_0_transmitted_safely |-> BOOLEAN,
   velocity_1_transmitted_safely |-> BOOLEAN]

ApplicationInputs ==
  [unsafe_inputs_input_sources_vector |-> FlagVector(32),
   unsafe_inputs_flags_vector         |-> FlagVector(32),
   monitoring_case_vector             |-> NumberVector(20, Uint16),
   monitoring_case_flags_vector       |-> FlagVector(20),
   sleep_mode_input                   |-> Int8] ++ VelocityMembers

EvaluationPathsOutputs ==
  [eval_out_vector              |-> FlagVector(20),
   eval_out_is_safe_vector      |-> FlagVector(20),
   eval_out_is_valid_vector     |-> FlagVector(20),
   monitoring_case_vector       |-> NumberVector(20, Uint16),
   monitoring_case_flags_vector |-> FlagVector(20),
   sleep_mode_output            |-> Int8]

HostErrorFlags ==
  [host_error_flag_contamination_warning      |-> BOOLEAN,
   host_error_flag_contamination_error        |-> BOOLEAN,
   host_error_flag_manipulation_error         |-> BOOLEAN,
   host_error_flag_glare                      |-> BOOLEAN,
   host_error_flag_reference_contour_intruded |-> BOOLEAN,
   host_error_flag_critical_error             |-> BOOLEAN]

ResultingVelocityOutputs ==
  [resulting_velocity_vector          |-> NumberVector(20, Int16),
   resulting_velocity_is_valid_vector |-> FlagVector(20),
   flags_sleep_mode_output_is_valid   |-> BOOLEAN,
   flags_host_error_flags_are_valid   |-> BOOLEAN]

ApplicationOutputs ==
  EvaluationPathsOutputs ++ HostErrorFlags ++ VelocityMembers ++ ResultingVelocityOutputs

\* A Data object has a header and the five blocks.  An empty block has no
\* members but is_empty, or, with too many beams, number_of_beams.
IsApplicationData(a) ==
  \/ a = [is_empty |-> TRUE]
  \/ ~ a.is_empty /\ IsA(a.inputs, ApplicationInputs) /\ IsA(a.outputs, ApplicationOutputs)

IsData(data) ==
  /\ IsA(data.header, DataHeader)
  /\ IsA(data.derived_values, DerivedValues)
  /\ IsA(data.measurement_data, MeasurementData)
  /\ IsA(data.general_system_state, GeneralSystemState)
  /\ IsA(data.intrusion_data, IntrusionData)
  /\ IsApplicationData(data.application_data)
=============================================================================
