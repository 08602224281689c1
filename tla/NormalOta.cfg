SPECIFICATION FairSpec
CONSTANTS
  Ota = ota
  App = app
  Data = data
  Images = {ota, app, data}
  UserImages = {data}
  NoImage = noimage
  Blank = blank
  Junk = junk
  OldFw = oldfw
  Noise = noise
  Length <- TempLength
  BankBase <- TempBases
  BankSize <- TempSizes
  FlashSize = 16
  SectorSize = 4
  BufSize = 3
  StreamSize = 3
  MaxTemp = 4
  BankSwitch = FALSE
  NormalOta = TRUE
  LinkLossReset = FALSE
  IoQueueFills = TRUE
  Plans <- UserPackage
  ClientModes = {"check"}
  ChunkSize = 3
  StartsAgain = TRUE
  ResetModes = {TRUE, FALSE}
  MaxSessions = 2
  MaxDamage = 0
  MaxFlashFaults = 0
  MaxPowerLosses = 0
  MaxParamReqs = 2
INVARIANTS
  TempBankKept
  ParamUpdateEnds
PROPERTIES
  LeavesOtaMode
CHECK_DEADLOCK FALSE
