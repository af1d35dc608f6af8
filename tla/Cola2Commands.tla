--------------------------- MODULE Cola2Commands ---------------------------
(***************************************************************************)
(* The commands of the COLA2 protocol: the telegram that each sends and    *)
(* what it makes of the reply.                                             *)
(*                                                                         *)
(* A command is a record of its type and mode, of the data behind its      *)
(* header, of the type and mode of a reply that accepts it, and of the     *)
(* parser it hands the data of such a reply to.                            *)
(***************************************************************************)
EXTENDS DeviceDataParsers

Zeros(n) == [i \in 1 .. n |-> 0]

-----------------------------------------------------------------------------
(* Command: the telegram. *)

PrepareHeader == Zeros(18)

\* The start of a telegram: stx, length, hub counter and number of commands.
WriteFrame(header, data) ==
  LET stx    == Overwritten(header, 0, <<2, 2, 2, 2>>)
      length == writeUint32BigEndian(stx, 4, 10 + Len(data))
  IN writeUint8(writeUint8(length, 8, 0), 9, 0)

WriteDataToDataPtr(header, command, session_id, request_id) ==
  LET frame   == WriteFrame(header, command.data)
      session == writeUint32BigEndian(frame, 10, session_id)
      request == writeUint16BigEndian(session, 14, request_id)
  IN writeUint8(writeUint8(request, 16, command.command_type), 17, command.command_mode)

\* addTelegramData, then addTelegramHeader
ConstructTelegram(command, session_id, request_id) ==
  WriteDataToDataPtr(PrepareHeader, command, session_id, request_id) \o command.data

-----------------------------------------------------------------------------
(* ParseTCPPacket: the reply. *)

\* Mutant of GetExpectedPacketLength: stx and length field are not counted.
GetLengthField(b) == readUint32BigEndian(b, 4)

GetExpectedPacketLength(b) == readUint32BigEndian(b, 4) + 8

SetCommandValuesFromPacket(b) ==
  [session_id   |-> readUint32BigEndian(b, 10),
   request_id   |-> readUint16BigEndian(b, 14),
   command_type |-> readUint8(b, 16),
   command_mode |-> readUint8(b, 17)]

ReadData(b) == IF Len(b) < 20 THEN <<>> ELSE SubSeq(b, 21, Len(b))

ParseTCPSequence(b) == SetCommandValuesFromPacket(b) ++ [m_data_vector |-> ReadData(b)]

\* processReply of the base classes: the types and modes compared.
IsAccepted(command, reply) ==
  <<reply.command_type, reply.command_mode>> = command.accepted

-----------------------------------------------------------------------------
(* The kinds of command. *)

Index(variable_index) == writeUint16LittleEndian(Zeros(2), 0, variable_index)

VariableCommand(variable_index, parser) ==
  [command_type |-> Char.R, command_mode |-> Char.I, data |-> Index(variable_index),
   accepted |-> <<Char.R, Char.A>>, parser |-> parser]

MethodCommand(method_index, arguments) ==
  [command_type |-> Char.M, command_mode |-> Char.I, data |-> Index(method_index) \o arguments,
   accepted |-> <<Char.A, Char.I>>, parser |-> "none"]

\* Mutant of WriteSettings: the frequency is written where the port is.
WriteSettingsOverPort(settings) ==
  LET Bool(b) == IF b THEN 1 ELSE 0
      channel == writeUint8(Zeros(28), 0, settings.channel)
      enabled == writeUint8(channel, 4, Bool(settings.enabled))
      iface   == writeUint8(enabled, 5, settings.e_interface_type)
      ip      == writeUint32LittleEndian(iface, 8, settings.host_ip)
      port    == writeUint16LittleEndian(ip, 12, settings.host_udp_port)
      freq    == writeUint16LittleEndian(port, 12, settings.publishing_frequency)
      start   == writeInt32LittleEndian(freq, 16, settings.start_angle)
      end     == writeInt32LittleEndian(start, 20, settings.end_angle)
  IN writeUint16LittleEndian(end, 24, settings.features)

\* writeDataToDataPtr of ChangeCommSettingsCommand
WriteSettings(settings) ==
  LET Bool(b) == IF b THEN 1 ELSE 0
      channel == writeUint8(Zeros(28), 0, settings.channel)
      enabled == writeUint8(channel, 4, Bool(settings.enabled))
      iface   == writeUint8(enabled, 5, settings.e_interface_type)
      ip      == writeUint32LittleEndian(iface, 8, settings.host_ip)
      port    == writeUint16LittleEndian(ip, 12, settings.host_udp_port)
      freq    == writeUint16LittleEndian(port, 14, settings.publishing_frequency)
      start   == writeInt32LittleEndian(freq, 16, settings.start_angle)
      end     == writeInt32LittleEndian(start, 20, settings.end_angle)
  IN writeUint16LittleEndian(end, 24, settings.features)

ChangeCommSettingsCommand(settings) == MethodCommand(176, WriteSettings(settings))

FindMeCommand(blink_time) == MethodCommand(14, writeUint16LittleEndian(Zeros(2), 0, blink_time))

\* A heartbeat timeout of 60 seconds, and 1 for the ID of the client.
CreateSession ==
  [command_type |-> Char.O, command_mode |-> Char.X,
   data |-> writeUint32BigEndian(writeUint8(Zeros(5), 0, 60), 1, 1),
   accepted |-> <<Char.O, Char.A>>, parser |-> "none"]

CloseSession ==
  [command_type |-> Char.C, command_mode |-> Char.X, data |-> <<>>,
   accepted |-> <<Char.C, Char.A>>, parser |-> "none"]

-----------------------------------------------------------------------------
(* The variables that are read. *)

SerialNumberVariableCommand == VariableCommand(3, "SerialNumber")
FirmwareVersionVariableCommand == VariableCommand(4, "FirmwareVersion")
TypeCodeVariableCommand == VariableCommand(13, "TypeCode")
OrderNumberVariableCommand == VariableCommand(14, "OrderNumber")
DeviceStatusVariableCommand == VariableCommand(15, "DeviceStatus")
RequiredUserActionVariableCommand == VariableCommand(16, "RequiredUserAction")
DeviceNameVariableCommand == VariableCommand(17, "DeviceName")
ProjectNameVariableCommand == VariableCommand(18, "ProjectName")
StatusOverviewVariableCommand == VariableCommand(23, "StatusOverview")
ConfigMetadataVariableCommand == VariableCommand(28, "ConfigMetadata")
ApplicationNameVariableCommand == VariableCommand(33, "ApplicationName")
UserNameVariableCommand == VariableCommand(35, "UserName")
MeasurementPersistentConfigVariableCommand == VariableCommand(177, "PersistentConfig")
MeasurementCurrentConfigVariableCommand == VariableCommand(178, "CurrentConfig")
LatestTelegramVariableCommand(index) == VariableCommand(179 + index, "Data")
FieldSetsVariableCommand == VariableCommand(1003, "FieldSets")
\* Its reply is not parsed.
MonitoringCaseTableHeaderVariableCommand == VariableCommand(2100, "none")

MonitoringCaseVariableCommand(index) == VariableCommand(2101 + index, "MonitoringCase")
FieldHeaderVariableCommand(index) == VariableCommand(10000 + index, "FieldHeader")
FieldGeometryVariableCommand(index) == VariableCommand(10256 + index, "FieldGeometry")

\* processReply of a variable command: the members that the parser sets in the
\* object of the user.
Parsed(parser, b) ==
  CASE parser = "SerialNumber"       -> ParseSerialNumber(b)
    [] parser = "FirmwareVersion"    -> ParseFirmwareVersion(b)
    [] parser = "TypeCode"           -> ParseTypeCode(b)
    [] parser = "OrderNumber"        -> ParseOrderNumber(b)
    [] parser = "DeviceStatus"       -> ParseDeviceStatus(b)
    [] parser = "RequiredUserAction" -> ParseRequiredUserAction(b)
    [] parser = "DeviceName"         -> ParseDeviceName(b)
    [] parser = "ProjectName"        -> ParseProjectName(b)
    [] parser = "StatusOverview"     -> ParseStatusOverview(b)
    [] parser = "ConfigMetadata"     -> ParseConfigMetadata(b)
    [] parser = "ApplicationName"    -> ParseApplicationName(b)
    [] parser = "UserName"           -> ParseUserName(b)
    [] parser = "PersistentConfig"   -> ParseMeasurementPersistentConfig(b)
    [] parser = "CurrentConfig"      -> ParseMeasurementCurrentConfig(b)
    [] parser = "Data"               -> SetDataBlocksInData(b, 0, 0, 0).data
    [] parser = "FieldSets"          -> ParseFieldSets(b)
    [] parser = "MonitoringCase"     -> ParseMonitoringCase(b)
    [] parser = "FieldHeader"        -> ParseFieldHeader(b)
    [] parser = "FieldGeometry"      -> ParseFieldGeometry(b)
    [] parser = "none"               -> [m \in {} |-> 0]

\* What the object of the user becomes: parsed members replace its own.
ProcessReply(command, packet, object) ==
  LET reply == ParseTCPSequence(packet)
  IN IF IsAccepted(command, reply) THEN Parsed(command.parser, reply.m_data_vector) ++ object ELSE object
=============================================================================
