SPECIFICATION Spec
CONSTANTS
  NoLocal = NoLocal
  Files <- MCFiles
  PluginFolds = {1, 2, 3}
  Loaded <- MCLoaded
  UniqueHumans <- MCUniqueHumans
INVARIANTS
  TypeOK
  EarliestPackWins
  OnePresetPerPack
  NothingAmbiguous
  ConfiguredIsOwned
CHECK_DEADLOCK FALSE
