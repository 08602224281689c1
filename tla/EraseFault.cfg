SPECIFICATION Spec
CONSTANTS
  Ota = ota
  App = app
  Data = data
  Images = {ota, app}
  UserImages = {}
  NoImage = noimage
  Blank = blank
  Junk = junk
  OldFw = oldfw
  Noise = noise
  Length <- BankLength
  BankBase <- BankBases
  BankSize <- BankSizes
  FlashSize = 12
  SectorSize = 4
  BufSize = 3
  StreamSize = 3
  MaxTemp = 1
  BankSwitch = TRUE
  NormalOta = FALSE
  LinkLossReset = FALSE
  IoQueueFills = FALSE
  Plans <- OnePackage
  ClientModes = {"check"}
  ChunkSize = 3
  StartsAgain = FALSE
  ResetModes = {}
  MaxSessions = 1
  MaxDamage = 0
  MaxFlashFaults = 1
  MaxPowerLosses = 0
  MaxParamReqs = 0
INVARIANTS
  FlashProtected
CHECK_DEADLOCK FALSE
