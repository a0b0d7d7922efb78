SPECIFICATION FairSpec
CONSTANTS
  Configs <- MCConfigs
  NoConfig <- MCNoConfig
  Heights = {4, 2}
  Styles = {0, 1}
  WipeParams = {1, 3}
  PlainDiv = 2
  FoldDiv = 4
  Mask = 2
  Switches <- MCSwitches
  ChaseDen = 2
INVARIANTS
  WipeTargetWhole
  TableWhole
  GaugeCommitted
PROPERTIES
  BuildEnds
  WipeEnds
