SPECIFICATION TentSpec
CONSTANTS
  WaveSweeps = {2}
  ChanceSweeps = {3}
  FadeFrames = 2
  Garbage <- MCGarbage
INVARIANT GridsFollow
