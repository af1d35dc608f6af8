--------------------------- MODULE DeviceRequests ---------------------------
(***************************************************************************)
(* The requests of SickSafetyscannersBase: what a user who asks for data   *)
(* of the device, or changes its settings, gets.                           *)
(*                                                                         *)
(* Each command is executed by createAndExecuteCommand: a session is       *)
(* opened, the command is sent, the session is closed.  The requests for   *)
(* fields and monitoring cases execute a command after the other until a   *)
(* field does not exist.  Replies come in segments.  The faults of the     *)
(* connection, which Cola2Session models in detail, are here an exception  *)
(* that leaves the request; the sensor may also refuse a command.          *)
(***************************************************************************)
EXTENDS SensorVariables, TCPPacketMerger, FiniteSets

CONSTANTS
  Sensor,          \* the sensors at first
  Probed,          \* bound: those of which a bit changes
  MaxFields,       \* the fields that are asked for, 128 in the code
  MaxCases,        \* the monitoring cases that are asked for, 254 in the code
  Settings,        \* the settings that users want
  LocalPort,       \* the ports of the UDP socket: 0 if it is closed
  Cuts,            \* bound: where replies may be cut, and before their last byte
  MaxCalls,        \* bound: the requests that are made
  MaxFaults        \* bound: the faults

\* Sensors have fewer fields than are asked for.
ASSUME SensorAssumption ==
  \A s \in Sensor :
    /\ s \in [contour : BOOLEAN, fields : Nat, cases : Nat, settings : {<<>>}, flipped : {{}}]
    /\ s.fields < MaxFields

\* The angles of settings are floats, and fit into the telegram.
ASSUME SettingsAssumption ==
  /\ LocalPort \subseteq Uint16
  /\ \A s \in Settings :
       /\ IsA(s, CommSettings) /\ DOMAIN s = DOMAIN CommSettings
       /\ \A angle \in {s.start_angle, s.end_angle} : angle \in Int32 /\ Float(angle) = angle

ASSUME DeviceRequestsAssumption ==
  /\ MaxFields \in 1 .. 128 /\ MaxCases \in 1 .. 254
  /\ Cuts \subseteq Nat /\ IsFiniteSet(Cuts)
  /\ MaxCalls \in Nat /\ MaxFaults \in Nat

VARIABLES
  sensor,
  pc,            \* "idle", "receive" or "raised"
  phase,         \* of createAndExecuteCommand: "open", "execute" or "close"
  m_session_id,
  request,       \* the request being executed, or executed last
  command,       \* the command being executed
  index,         \* i, in the requests that count
  object,        \* the object that the command fills
  objects,       \* the vector of fields or monitoring cases
  uplink,        \* the telegram on its way to the sensor
  downlink,      \* the segments on their way from the sensor
  reply,         \* history: the newest reply of the sensor
  calls,         \* the number of requests made
  faults,        \* the number of faults
  accepted,      \* history: the sensor has refused no command of the request
  settings,      \* history: the settings in force, <<>> at first
  before         \* history: <<object>> of the request before a bit changed

requestVars == <<request, index, object, objects, accepted>>
vars == <<mergerVars, requestVars, sensor, pc, phase, m_session_id, command, uplink, downlink,
          reply, calls, faults, settings, before>>

-----------------------------------------------------------------------------
(* Requests. *)

\* Those that read one variable, with its class.  (Commands of field sets, of
\* the current configuration and of the single fields and monitoring cases are
\* public, but no request of the base class sends them alone.)
Reads ==
  [SerialNumber       |-> SerialNumberVariableCommand,
   FirmwareVersion    |-> FirmwareVersionVariableCommand,
   TypeCode           |-> TypeCodeVariableCommand,
   OrderNumber        |-> OrderNumberVariableCommand,
   DeviceStatus       |-> DeviceStatusVariableCommand,
   RequiredUserAction |-> RequiredUserActionVariableCommand,
   DeviceName         |-> DeviceNameVariableCommand,
   ProjectName        |-> ProjectNameVariableCommand,
   StatusOverview     |-> StatusOverviewVariableCommand,
   ConfigMetadata     |-> ConfigMetadataVariableCommand,
   ApplicationName    |-> ApplicationNameVariableCommand,
   UserName           |-> UserNameVariableCommand,
   PersistentConfig   |-> MeasurementPersistentConfigVariableCommand,
   CurrentConfig      |-> MeasurementCurrentConfigVariableCommand,
   FieldSets          |-> FieldSetsVariableCommand,
   CaseTableHeader    |-> MonitoringCaseTableHeaderVariableCommand,
   MonitoringCase     |-> MonitoringCaseVariableCommand(0),
   FieldHeader        |-> FieldHeaderVariableCommand(1),
   FieldGeometry      |-> FieldGeometryVariableCommand(1)]

\* requestLatestTelegram
ChannelOf(channel_index) == IF channel_index < 0 \/ channel_index > 3 THEN 0 ELSE channel_index

Channels == {-1, 0, 3, 4}

Request ==
  [kind : {"read"}, name : DOMAIN Reads]
  \cup [kind : {"telegram"}, channel : Channels]
  \cup [kind : {"find"}, blink_time : {258}]
  \cup [kind : {"settings"}, settings : Settings]
  \cup [kind : {"fields", "cases"}]

\* changeSensorSettings: the port is that of the socket, whatever is wanted.
WithPort(wanted, port) == [wanted EXCEPT !.host_udp_port = port]

FirstCommand(r, port) ==
  CASE r.kind = "read"     -> Reads[r.name]
    [] r.kind = "telegram" -> LatestTelegramVariableCommand(ChannelOf(r.channel))
    [] r.kind = "find"     -> FindMeCommand(r.blink_time)
    [] r.kind = "settings" -> ChangeCommSettingsCommand(WithPort(r.settings, port))
    [] r.kind = "fields"   -> FieldHeaderVariableCommand(0)
    [] r.kind = "cases"    -> MonitoringCaseVariableCommand(0)

\* An object of which no member has been set.
New == [m \in {} |-> 0]

-----------------------------------------------------------------------------
(* Sending. *)

RequestID == 1

SendCommand(c) ==
  /\ uplink' = ConstructTelegram(c, m_session_id', RequestID)
  /\ downlink' = <<>>
  /\ NewMerger
  /\ pc' = "receive"

\* createAndExecuteCommand, up to the reply to CreateSession.
CreateAndExecute(c) ==
  /\ command' = c
  /\ phase' = "open"
  /\ UNCHANGED m_session_id
  /\ SendCommand(CreateSession)

\* A user makes a request, with a new object or an empty vector.
Call(r) ==
  /\ pc # "receive"
  /\ calls < MaxCalls
  /\ before # <<>> => r = request
  /\ calls' = calls + 1
  /\ request' = r
  /\ index' = 0
  /\ object' = New
  /\ objects' = <<>>
  /\ accepted' = TRUE
  /\ \E port \in IF r.kind = "settings" THEN LocalPort ELSE {0} :
       /\ CreateAndExecute(FirstCommand(r, port))
       /\ settings' = IF r.kind = "settings" THEN WithPort(r.settings, port) ELSE settings
  /\ UNCHANGED <<sensor, reply, faults, before>>

-----------------------------------------------------------------------------
(* The sensor and the connection. *)

\* The ways to cut a reply of n bytes: the first segment has the length field.
\* Bound: the replies to CreateSession and CloseSession are not cut, nor are
\* those that only serve to compare two readings of a variable.
Cutting ==
  LET n == Len(reply')
      possible == {c \in Cuts \cup {n - 1} : 8 <= c /\ c < n}
  IN IF phase = "execute" /\ before = <<>> THEN SUBSET possible ELSE {{}}

\* The segments that end at the cuts, and the last.
Segments(bytes, cuts) ==
  LET ends   == cuts \cup {Len(bytes)}
      Rank(e) == Cardinality({c \in ends : c <= e})
      End(i) == CHOOSE e \in ends \cup {0} : Rank(e) = i
  IN [i \in 1 .. Cardinality(ends) |-> SubSeq(bytes, End(i - 1) + 1, End(i))]

SensorAnswers ==
  /\ uplink # <<>>
  /\ reply' = Answer(sensor, uplink)
  /\ sensor' = After(sensor, uplink)
  /\ \E cuts \in Cutting : downlink' = Segments(reply', cuts)
  /\ uplink' = <<>>
  /\ UNCHANGED <<mergerVars, requestVars, pc, phase, m_session_id, command, calls, faults,
                 settings, before>>

\* Fault: the sensor refuses the command (not the session, see Cola2Session).
SensorRefuses ==
  /\ uplink # <<>>
  /\ phase = "execute"
  /\ faults < MaxFaults
  /\ faults' = faults + 1
  /\ accepted' = FALSE
  /\ reply' = Refusal(uplink)
  /\ downlink' = <<reply'>>
  /\ uplink' = <<>>
  /\ settings' = IF request.kind = "settings" THEN <<>> ELSE settings
  /\ UNCHANGED <<mergerVars, sensor, pc, phase, m_session_id, request, command, index, object,
                 objects, calls, before>>

\* Fault: an exception, at any point of a command.
CommandRaises ==
  /\ pc = "receive"
  /\ faults < MaxFaults
  /\ faults' = faults + 1
  /\ pc' = "raised"
  /\ uplink' = <<>>
  /\ downlink' = <<>>
  /\ NewMerger
  /\ settings' = IF request.kind = "settings" THEN <<>> ELSE settings
  /\ UNCHANGED <<requestVars, sensor, phase, m_session_id, command, reply, calls, before>>

\* A bit of the variable read last changes before it is read again.
CONSTANT Flippable(_)   \* the offsets and bits of the variables of a parser

BitChanges ==
  /\ pc = "idle"
  /\ accepted
  /\ request.kind = "read" /\ calls = 1 /\ before = <<>>
  /\ sensor \in Probed
  /\ before' = <<object>>
  /\ LET variable == readUint16LittleEndian(command.data, 0)
         length   == Len(VariableBytes(sensor, variable))
     IN \E f \in Flippable(request.name) :
          /\ f[1] < length
          /\ sensor' = [sensor EXCEPT !.flipped = {<<variable>> \o f}]
  /\ UNCHANGED <<mergerVars, requestVars, pc, phase, m_session_id, command, uplink, downlink,
                 reply, calls, faults, settings>>

-----------------------------------------------------------------------------
(* Receiving. *)

\* One turn of the loop of receiveAndProcessResponse.
ReceiveSegment ==
  /\ pc = "receive"
  /\ ~ m_is_complete
  /\ downlink # <<>>
  /\ ReceivePacket(Head(downlink))
  /\ downlink' = Tail(downlink)
  /\ UNCHANGED <<requestVars, sensor, pc, phase, m_session_id, command, uplink, reply, calls,
                 faults, settings, before>>

\* processReply of CreateSession; then the command is sent.
SessionIsCreated ==
  /\ m_is_complete
  /\ phase = "open"
  /\ phase' = "execute"
  /\ m_session_id' = ParseTCPSequence(m_deployed_packet_buffer).session_id
  /\ SendCommand(command)
  /\ UNCHANGED <<requestVars, sensor, command, reply, calls, faults, settings, before>>

\* processReply of the command; then the session is closed, whether the command
\* was successful or not.
CommandIsProcessed ==
  /\ m_is_complete
  /\ phase = "execute"
  /\ phase' = "close"
  /\ object' = ProcessReply(command, m_deployed_packet_buffer, object)
  /\ UNCHANGED <<m_session_id, request, index, objects, accepted, sensor, command, reply, calls,
                 faults, settings, before>>
  /\ SendCommand(CloseSession)

Return ==
  /\ pc' = "idle"
  /\ NewMerger
  /\ UNCHANGED <<m_session_id, phase, command, uplink, downlink>>

\* The next turn of the loop, if there is one, with an object of its own and
\* the command for the next index.
NextIndex(limit, next) ==
  /\ object' = New
  /\ IF index + 1 < limit
     THEN index' = index + 1 /\ CreateAndExecute(next)
     ELSE UNCHANGED index /\ Return

\* getIsValid: uninitialised if no reply has been parsed.
IsValidAtLast(valid) ==
  valid \in IF "is_valid" \in DOMAIN object THEN {object.is_valid} ELSE BOOLEAN

\* Mutant of FieldHeaderIsRead: the first field that does not exist is the last.
FieldHeaderIsReadWithoutContour ==
  \E valid \in BOOLEAN :
    /\ IsValidAtLast(valid)
    /\ UNCHANGED objects
    /\ IF valid
       THEN /\ UNCHANGED <<index, object>>
            /\ CreateAndExecute(FieldGeometryVariableCommand(index))
       ELSE Return /\ UNCHANGED <<index, object>>

\* requestFieldData, after a header: index 0 is reserved for the contour.
FieldHeaderIsRead ==
  \E valid \in BOOLEAN :
    /\ IsValidAtLast(valid)
    /\ UNCHANGED objects
    /\ \/ /\ valid
          /\ CreateAndExecute(FieldGeometryVariableCommand(index))
          /\ UNCHANGED <<index, object>>
       \/ ~ valid /\ index > 0 /\ Return /\ UNCHANGED <<index, object>>
       \/ ~ valid /\ index = 0 /\ NextIndex(MaxFields, FieldHeaderVariableCommand(index + 1))

\* Mutant of FieldGeometryIsRead: the counter is not incremented.
FieldGeometryIsReadAgain ==
  /\ objects' = Append(objects, object)
  /\ object' = New
  /\ UNCHANGED index
  /\ CreateAndExecute(FieldHeaderVariableCommand(index))

\* requestFieldData, after a geometry
FieldGeometryIsRead ==
  /\ objects' = Append(objects, object)
  /\ NextIndex(MaxFields, FieldHeaderVariableCommand(index + 1))

\* requestMonitoringCases
MonitoringCaseIsRead ==
  \E valid \in BOOLEAN :
    /\ IsValidAtLast(valid)
    /\ \/ /\ valid
          /\ objects' = Append(objects, object)
          /\ NextIndex(MaxCases, MonitoringCaseVariableCommand(index + 1))
       \/ ~ valid /\ Return /\ UNCHANGED <<index, object, objects>>

\* The reply to CloseSession has come: createAndExecuteCommand returns.
SessionIsClosed ==
  /\ m_is_complete
  /\ pc = "receive"
  /\ phase = "close"
  /\ CASE request.kind = "cases"                                 -> MonitoringCaseIsRead
       [] request.kind = "fields" /\ command.parser = "FieldHeader"   -> FieldHeaderIsRead
       [] request.kind = "fields" /\ command.parser = "FieldGeometry" -> FieldGeometryIsRead
       [] OTHER -> Return /\ UNCHANGED <<index, object, objects>>
  /\ UNCHANGED <<request, accepted, sensor, reply, calls, faults, settings, before>>

-----------------------------------------------------------------------------

Init ==
  /\ MergerIsNew
  /\ sensor \in Sensor
  /\ pc = "idle"
  /\ phase = "close"
  /\ m_session_id = 0
  /\ request = [kind |-> "cases"]
  /\ command = CloseSession
  /\ index = 0
  /\ object = New
  /\ objects = <<>>
  /\ uplink = <<>>
  /\ downlink = <<>>
  /\ reply = <<>>
  /\ calls = 0
  /\ faults = 0
  /\ accepted = FALSE
  /\ settings = <<>>
  /\ before = <<>>

\* Bound: no more requests are made.
Done ==
  /\ pc # "receive"
  /\ calls = MaxCalls
  /\ UNCHANGED vars

Next ==
  \/ \E r \in Request : Call(r)
  \/ SensorAnswers
  \/ SensorRefuses
  \/ CommandRaises
  \/ BitChanges
  \/ ReceiveSegment
  \/ SessionIsCreated
  \/ CommandIsProcessed
  \/ SessionIsClosed
  \/ Done

Spec == Init /\ [][Next]_vars

-----------------------------------------------------------------------------
(* Properties. *)

ClassOf(parser) ==
  CASE parser = "SerialNumber"       -> SerialNumber
    [] parser = "FirmwareVersion"    -> FirmwareVersion
    [] parser = "TypeCode"           -> TypeCode
    [] parser = "OrderNumber"        -> OrderNumber
    [] parser = "DeviceStatus"       -> DeviceStatus
    [] parser = "RequiredUserAction" -> RequiredUserAction
    [] parser = "DeviceName"         -> DeviceName
    [] parser = "ProjectName"        -> ProjectName
    [] parser = "StatusOverview"     -> StatusOverview
    [] parser = "ConfigMetadata"     -> ConfigMetadata
    [] parser = "ApplicationName"    -> ApplicationName
    [] parser = "UserName"           -> UserName
    [] parser \in {"PersistentConfig", "CurrentConfig"} -> ConfigData
    [] parser = "FieldSets"          -> FieldSets
    [] parser = "MonitoringCase"     -> MonitoringCaseData
    [] parser \in {"FieldHeader", "FieldGeometry"}      -> FieldData
    [] parser = "none"               -> New

TypeOK ==
  /\ MergerTypeOK
  /\ pc \in {"idle", "receive", "raised"}
  /\ m_session_id \in {0, SessionID}
  /\ request \in Request
  /\ index \in 0 .. MaxFields + MaxCases
  /\ object # New =>
       IF command.parser = "Data" THEN IsData(object) ELSE IsA(object, ClassOf(command.parser))
  /\ \A i \in DOMAIN objects :
       IsA(objects[i], IF request.kind = "cases" THEN MonitoringCaseData ELSE FieldData)
  /\ uplink \in Seq(Byte)
  /\ \A i \in DOMAIN downlink : downlink[i] \in Seq(Byte)

\* However TCP cuts a reply, the merger is complete when, and only when, its
\* last byte has been received; and then it has exactly what the sensor sent.
ReplyIsWhole ==
  pc = "receive" /\ uplink = <<>> =>
    IF downlink = <<>>
    THEN m_is_complete /\ m_deployed_packet_buffer = reply
    ELSE ~ m_is_complete /\ FlattenSeq(m_buffer_vector \o downlink) = reply

\* The fields and monitoring cases of a sensor.
FieldsOf(s) ==
  LET Field(i) == ParseFieldGeometry(FieldGeometryBytes(i)) ++ ParseFieldHeader(FieldHeaderBytes(TRUE, i))
  IN (IF s.contour THEN <<Field(0)>> ELSE <<>>) \o [i \in 1 .. s.fields |-> Field(i)]

CasesOf(s) ==
  [i \in 1 .. (IF s.cases < MaxCases THEN s.cases ELSE MaxCases) |->
     ParseMonitoringCase(MonitoringCaseBytes(TRUE, i - 1))]

\* While nothing fails, a request gives the user what the sensor has: the
\* variable that it names; the latest telegram of its channel; all fields, each
\* header with its own geometry, in their order, whether or not there is a
\* contour; all monitoring cases.  A request that raises has given the first
\* of them.
AnswersAreTheSensors ==
  LET Expected == IF request.kind = "fields" THEN FieldsOf(sensor) ELSE CasesOf(sensor)
  IN /\ request.kind \in {"fields", "cases"} /\ accepted =>
          /\ IsPrefix(objects, Expected)
          /\ pc = "idle" => objects = Expected
     /\ accepted /\ pc = "idle" /\ (before = <<>> \/ calls = 2) =>
          /\ request.kind = "read" =>
               object = Parsed(Reads[request.name].parser,
                               CurrentBytes(sensor, VariableNumber[request.name]))
          /\ request.kind = "telegram" =>
               object.header.channel_number = ChannelOf(request.channel)

\* The settings that a user gave are those that the configuration read
\* afterwards shows, but for the port, which is that of the user's socket, and
\* the channel, which it does not show: the offsets, widths and signs that
\* ChangeCommSettingsCommand writes are those that ParseMeasurementCurrentConfig
\* reads.
SettingsReadBack ==
  /\ accepted /\ pc = "idle" /\ settings # <<>>
  /\ request = [kind |-> "read", name |-> "CurrentConfig"]
  => \A m \in DOMAIN CommSettings \ {"channel"} : object[m] = settings[m]

\* The members that are vectors, and those that are worked out from bytes that
\* belong to other members too.
VectorMembers ==
  {"beam_distances", "field_indices", "fields_valid", "integrity_hash"}
  \cup (IF request = [kind |-> "read", name |-> "FieldSets"]
        THEN {"name_length", "field_name", "is_defined"} ELSE {})

WorkedOutMembers == {"interface_type", "max_range", "is_warning_field", "is_protective_field"}

Places(x, y) ==
  {p \in DifferingMembers(VectorMembers, x, y) : p[1] \notin WorkedOutMembers}

\* Of a variable that has changed in one bit no two members of the object read
\* change: the offsets at which the parsers read do not overlap.
OneBitOneMember ==
  before # <<>> /\ calls = 2 /\ pc = "idle" /\ accepted =>
    Cardinality(Places(before[1], object)) <= 1

\* A bound on the steps a request still takes, command by command: its turns
\* of the loop, the parts of a command, the telegram and the segments.
StepsLeft ==
  LET commands == 2 * (MaxFields + MaxCases - index) + (IF command.parser = "FieldGeometry" THEN 0 ELSE 1)
      parts    == [open |-> 2, execute |-> 1, close |-> 0]
      most     == Cardinality(Cuts) + 3
  IN (3 * commands + parts[phase]) * (most + 1) + (IF uplink # <<>> THEN most ELSE Len(downlink))

\* Every step of a request brings its end nearer, however replies are cut,
\* whatever the sensor has and refuses.  As no request gets stuck either (the
\* run checks for deadlock), every request returns or raises.
EveryRequestEnds ==
  [][pc = "receive" /\ pc' = "receive" => StepsLeft' < StepsLeft]_vars
=============================================================================
