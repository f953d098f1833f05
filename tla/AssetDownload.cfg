CONSTANTS
  PoolSize = 3
  MaxActive = 2
  Cancelable = FALSE
  MaxId = 3
  Asset = {dict, tts}
  NoAsset = NoAsset
  Dict = dict
  FilesMayFail = TRUE
  WorkerKeepsUp = TRUE
SPECIFICATION AssetSpec
INVARIANTS InstalledIsComplete FailedRowIsQuiet OneDownloadPerAsset
  OkRowIsUnpacked
PROPERTIES ReinitWhenQuiet
