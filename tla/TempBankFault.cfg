SPECIFICATION Spec
CONSTANTS
  Ota = ota
  App = app
  Data = data
  Images = {ota, app, data}
  UserImages = {data}
  NoImage = noimage
  Blank = blank
  Junk = junk
  OldFw = oldfw
  Noise = noise
  Length <- TempLength
  BankBase <- TempBases
  BankSize <- TempSizes
  FlashSize = 16
  SectorSize = 4
  BufSize = 3
  StreamSize = 3
  MaxTemp = 4
  BankSwitch = FALSE
  NormalOta = FALSE
  LinkLossReset = FALSE
  IoQueueFills = FALSE
  Plans <- TempPackage
  ClientModes = {"check"}
  ChunkSize = 3
  StartsAgain = FALSE
  ResetModes = {}
  MaxSessions = 1
  MaxDamage = 0
  MaxFlashFaults = 1
  MaxPowerLosses = 0
  MaxParamReqs = 0
INVARIANTS
  TempBankKept
CHECK_DEADLOCK FALSE
