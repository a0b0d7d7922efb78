SPECIFICATION EngineSpec
CONSTANTS
  Configs <- MCConfigs
  NoConfig <- MCNoConfig
  Heights = {3}
  Styles = {1}
  WipeParams = {2, 3}
  PlainDiv = 1
  FoldDiv = 1
  Mask = 2
  Switches <- MCSwitches
  ChaseDen = 2
  FoldCounts = {2, 8}
  Angles = {1}
  ParamSets <- AutoParams
  ForceModes <- MCFree
  TimeBtwChg = 0
  Locks = {1}
  LockMore = 0
  LongLock = 1
INVARIANTS
  FoldLegal
  GaugeCoherent
  NoTornFrame
  WipeSourceWhole
