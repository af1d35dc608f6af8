\* Telegrams of any layout, each through a parser of its own.
SPECIFICATION Spec
CONSTANTS
  MaxExpectedBeams = 9
  Telegram <- MCTelegram
  Probed <- MCProbed
  Uninitialised <- MCUninitialised
  StartAngle <- MCStartAngle
  Resolution <- MCResolution
INVARIANTS
  TypeOK
  BlocksAreIndependent
  EveryBeamHasItsPoint
  AnglesFollowTheBeams
PROPERTIES
  OneBitOneField
