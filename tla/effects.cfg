SPECIFICATION MCFair
CONSTANTS
  Alloc = 4
  Limits = {1, 3, 4}
  Modes = {0, 1}
  Bursts <- MCBursts
  Trickle <- MCTrickle
  Rates <- MCRates
  Ncol = 3
  Names = {s1, s2, s3, s4}
  Junk = Junk
  WaveSweeps = {2}
  ChanceSweeps = {3}
  FadeFrames = 2
  Garbage <- MCGarbage
  Levels = {0, 30, 90}
  Period = 4
  Some = 1
  Many = 2
  Storm = 3
  Loudness = {0, 2}
  Ring = 4
  Window = 2
  Chunks = {1, 3}
  Full = 31000
  ShortMax = 32767
  States <- MCStates
  InitState <- MCCalm
  FirstState <- MCFirst
  BlockFor = 1
  Locks = {2}
  LockMore = 1
  Recay = 2
  Sparse = 5
  Decay = 3
  LineTime = 2
  Glow = 1
  Fade = 1
  Black = 0
  Brights = {2}
  PowerMin = 4
  PowerMax = 5
  PowerIncs = {2}
  Light <- MCLight
  TitleTime = 2
  Titles = {t1, goom}
  NoTitle = none
  Welcome = goom
  FrameTime = 1
  Resync = 2
  Steps <- MCSteps
  MaxGap = 3
INVARIANTS
  IfsSettled
  PruneExact
  WindowWhole
PROPERTIES
  PoolDrains
  RequestedShape
  GoomsComeBack
  TitleLeaves
