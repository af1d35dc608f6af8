-------------------------- MODULE SensorVariables --------------------------
(***************************************************************************)
(* The bytes of the variables of a sensor, and how it answers commands, as *)
(* far as this code relies on it: the sensor is not part of the code.      *)
(*                                                                         *)
(* A sensor is a record: whether it has a reference contour, which is      *)
(* field 0; the number of its other fields; that of its monitoring cases;  *)
(* the settings that it was given last, as they came in the telegram; and  *)
(* the bit in which one of its variables differs from what it was at       *)
(* first, {} or {<<variable index, offset, bit>>}.                         *)
(***************************************************************************)
EXTENDS ScanTelegrams, Cola2Commands

CONSTANT SessionID   \* the ID of every session that the sensor creates

ASSUME SessionIDAssumption == SessionID \in Uint32

\* Strings of n characters, behind a length of 16 bits (and before one byte
\* more, which some parsers read) or of 32.
ShortString(n, seed) == writeUint16LittleEndian(Filler(n + 3, seed), 0, n)
VersionAndString(n, seed) == writeUint32LittleEndian(Filler(n + 8, seed), 4, n)

\* A field or a monitoring case that does not exist has no version.
FieldHeaderBytes(exists, i) ==
  LET bytes == writeUint32LittleEndian(Filler(88 + 3, i), 84, 3)
  IN writeUint8(bytes, 0, IF exists THEN Char.R ELSE 0)

FieldGeometryBytes(i) ==
  writeUint32LittleEndian(Filler(8 + 2 * (2 + i), 7 * i), 4, 2 + i)

MonitoringCaseBytes(exists, i) ==
  writeUint8(Filler(188, i), 0, IF exists THEN Char.Y ELSE 0)

FieldSetsBytes ==
  writeUint32LittleEndian(
    writeUint32LittleEndian(writeUint32LittleEndian(Filler(216, 9), 4, 2), 8, 3), 112, 2)

\* The telegram that the sensor keeps for a channel.
TelegramOf(channel) ==
  writeUint8(
    WholeBytes([published |-> {"derived_values", "measurement_data"},
                order     |-> <<"derived_values", "measurement_data">>,
                beams     |-> 2]), 12, channel)

\* The settings of ChangeCommSettings and those of the variable have the same
\* layout, but for the channel, in whose place the variable has its version.
CurrentConfigBytes(settings) ==
  IF settings = <<>> THEN Filler(48, 29) ELSE Overwritten(Filler(48, 29), 4, SubSeq(settings, 5, 26))

\* The numbers of the variables.
VariableNumber ==
  [SerialNumber |-> 3, FirmwareVersion |-> 4, TypeCode |-> 13, OrderNumber |-> 14,
   DeviceStatus |-> 15, RequiredUserAction |-> 16, DeviceName |-> 17, ProjectName |-> 18,
   StatusOverview |-> 23, ConfigMetadata |-> 28, ApplicationName |-> 33, UserName |-> 35,
   PersistentConfig |-> 177, CurrentConfig |-> 178, FieldSets |-> 1003, CaseTableHeader |-> 2100,
   MonitoringCase |-> 2101, FieldHeader |-> 10001, FieldGeometry |-> 10257]

\* The variables of fixed content.
FixedVariables ==
  [index \in {3, 4, 13, 14, 15, 16, 17, 18, 23, 28, 33, 35, 177, 1003, 2100} \cup (179 .. 182) |->
     CASE index = 3            -> ShortString(8, 1)
       [] index = 4            -> ShortString(9, 2)
       [] index = 13           -> ShortString(16, 3)
       [] index = 14           -> ShortString(7, 4)
       [] index = 15           -> Filler(1, 5)
       [] index = 16           -> Filler(1, 6)
       [] index = 17           -> ShortString(6, 7)
       [] index = 18           -> ShortString(5, 8)
       [] index = 23           -> Filler(58, 9)
       [] index = 28           -> Filler(84, 10)
       [] index = 33           -> VersionAndString(5, 11)
       [] index = 35           -> VersionAndString(4, 12)
       [] index = 177          -> Filler(48, 13)
       [] index \in 179 .. 182 -> TelegramOf(index - 179)
       [] index = 1003         -> FieldSetsBytes
       [] index = 2100         -> Filler(8, 14)]

FieldExists(sensor, i) == IF i = 0 THEN sensor.contour ELSE i <= sensor.fields

VariableBytes(sensor, index) ==
  CASE index \in DOMAIN FixedVariables -> FixedVariables[index]
    [] index = 178                     -> CurrentConfigBytes(sensor.settings)
    [] index \in 2101 .. 2354          ->
         MonitoringCaseBytes(index - 2101 < sensor.cases, index - 2101)
    [] index \in 10000 .. 10127        ->
         FieldHeaderBytes(FieldExists(sensor, index - 10000), index - 10000)
    [] index \in 10256 .. 10383        -> FieldGeometryBytes(index - 10256)

\* A variable as it is now.
CurrentBytes(sensor, index) ==
  LET bytes == VariableBytes(sensor, index)
  IN IF \E f \in sensor.flipped : f[1] = index
     THEN LET f == CHOOSE f \in sensor.flipped : TRUE
          IN writeUint8(bytes, f[2], Inverted(bytes, f[2], f[3]))
     ELSE bytes

-----------------------------------------------------------------------------
(* Replies: the header of the code's own telegrams, and the number of the  *)
(* variable or method before the data.                                     *)

Reply(telegram, type, mode, data) ==
  ConstructTelegram([command_type |-> type, command_mode |-> mode, data |-> data],
                    SessionID, readUint16BigEndian(telegram, 14))

Refusal(telegram) == Reply(telegram, Char.F, Char.A, <<0, 1>>)

\* The sensor creates a session for anyone; everything else needs its ID.
Answer(sensor, telegram) ==
  LET kind == <<readUint8(telegram, 16), readUint8(telegram, 17)>>
      index == SubSeq(telegram, 19, 20)
  IN IF kind = <<Char.O, Char.X>> THEN Reply(telegram, Char.O, Char.A, <<0, 0>>)
     ELSE IF readUint32BigEndian(telegram, 10) # SessionID THEN Refusal(telegram)
     ELSE CASE kind = <<Char.C, Char.X>> -> Reply(telegram, Char.C, Char.A, <<0, 0>>)
            [] kind = <<Char.R, Char.I>> ->
                 Reply(telegram, Char.R, Char.A,
                       index \o CurrentBytes(sensor, readUint16LittleEndian(telegram, 18)))
            [] kind = <<Char.M, Char.I>> -> Reply(telegram, Char.A, Char.I, index)

\* The sensor after the telegram: ChangeCommSettings sets its settings.
After(sensor, telegram) ==
  IF /\ <<readUint8(telegram, 16), readUint8(telegram, 17)>> = <<Char.M, Char.I>>
     /\ readUint32BigEndian(telegram, 10) = SessionID
     /\ readUint16LittleEndian(telegram, 18) = 176
  THEN [sensor EXCEPT !.settings = SubSeq(telegram, 21, Len(telegram))]
  ELSE sensor
=============================================================================
