SPECIFICATION SlideSpec
CONSTANTS
  Contents = {first, second}
  Nothing = Nothing
  MaxHeld = 4
INVARIANTS
  RemovedForGood
