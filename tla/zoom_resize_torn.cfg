SPECIFICATION Spec
CONSTANTS
  Configs <- MCLiveConfigs
  NoConfig <- MCNoConfig
  Heights = {4, 2}
  Styles = {0, 1}
  WipeParams = {1}
  PlainDiv = 2
  FoldDiv = 4
  Mask = 2
  Switches <- MCLiveSwitches
  ChaseDen = 2
INVARIANTS
  NoTornFrame
