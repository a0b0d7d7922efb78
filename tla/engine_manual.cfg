SPECIFICATION EngineFair
CONSTANTS
  Configs <- MCConfigs
  NoConfig <- MCNoConfig
  Heights = {3}
  Styles = {1}
  WipeParams = {2}
  PlainDiv = 1
  FoldDiv = 2
  Mask = 1
  Switches <- MCSwitches
  ChaseDen = 2
  FoldCounts = {2}
  Angles = {1}
  ParamSets <- ManualParams
  ForceModes <- MCForced
  TimeBtwChg = 0
  Locks = {1}
  LockMore = 0
  LongLock = 1
PROPERTIES
  ManualFoldShown
