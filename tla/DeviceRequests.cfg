\* Every request, twice in a row in any order, with one fault.
SPECIFICATION Spec
CONSTANTS
  MaxExpectedBeams = 9
  StartAngle <- MCStartAngle
  Resolution = 419430
  SessionID = 19088743
  Sensor <- MCSensor
  Probed <- MCProbed
  MaxFields = 3
  MaxCases = 3
  Settings <- MCSettings
  LocalPort = {0, 6060}
  Cuts = {8, 18, 20}
  MaxCalls = 2
  MaxFaults = 1
  Flippable <- MCFlippable
INVARIANTS
  TypeOK
  ReplyIsWhole
  AnswersAreTheSensors
  SettingsReadBack
  OneBitOneMember
PROPERTIES
  EveryRequestEnds
