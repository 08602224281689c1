SPECIFICATION Spec
CONSTANTS
  Ota = ota
  App = app
  Data = data
  Images = {ota, app}
  UserImages = {}
  NoImage = noimage
  Blank = blank
  Junk = junk
  OldFw = oldfw
  Noise = noise
  Length <- BankLength
  BankBase <- BankBases
  BankSize <- BankSizes
  FlashSize = 12
  SectorSize = 4
  BufSize = 3
  StreamSize = 3
  MaxTemp = 1
  BankSwitch = TRUE
  NormalOta = FALSE
  LinkLossReset = FALSE
  IoQueueFills = TRUE
  Plans <- OnePackage
  ClientModes = {"check"}
  ChunkSize = 3
  StartsAgain = TRUE
  ResetModes = {}
  MaxSessions = 2
  MaxDamage = 1
  MaxFlashFaults = 2
  MaxPowerLosses = 1
  MaxParamReqs = 0
INVARIANTS
  TypeOK
  ResendWindow
  OffsetsAgree
  PrefixIntact
  ReadyImagesComplete
PROPERTIES
  CheckUndisturbed
  ImplementsBankUpdate
CHECK_DEADLOCK FALSE
