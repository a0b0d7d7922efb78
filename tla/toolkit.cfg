SPECIFICATION MCFair
CONSTANTS
  game = game
  dialog = dialog
  menu = menu
  clock = clock
  ticker = ticker
  Hole = Hole
  Screens = {game, menu, dialog}
  Idles = {clock, ticker}
  AutoRelease = {dialog}
  Main = game
  MaxOps = 2
  MaxEvents = 1
  root = root
  box = box
  absolute = absolute
  leaf = leaf
  Widgets = {root, box, absolute, leaf}
  Containers = {root, box, absolute}
  Absolute = {absolute}
  Root = root
  Nobody = Nobody
  first = first
  second = second
  Contents = {first, second}
  Nothing = Nothing
  MaxHeld = 4
  screen = screen
  line = line
  column = column
  row1 = row1
  row2 = row2
  ok = ok
  cancel = cancel
  back = back
  quit = quit
  label = label
  Kids <- MCKids
  Axis <- MCAxis
  Spots <- MCSpots
  Buttons = {ok, cancel, back, quit}
  Base = screen
  MaxText = 2
  MaxBurst = 2
  MaxQueue = 1
  MaxPlaying = 1
  MaxBuffers = 2
CHECK_DEADLOCK FALSE
INVARIANTS
  AllAlive
  TopShown
  EveryoneCalled
  AskedUpwards
  HoldsExactly
  StrayExplained
  FieldSettled
PROPERTIES
  AskedDrawn
  UserServed
  SoundsEnd
