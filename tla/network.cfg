SPECIFICATION MCFair
CONSTANTS
  a = a
  b = b
  NoMessage = NoMessage
  Boxes = {a, b}
  Quota <- Exchange
  Restarting = {b}
  Resend = 1
  ReliableTimeout = 2
  PeerTimeout = 2
  Elapses = {1}
  ResetLow = 2
  ResetWindow = 1
  MaxSerial = 2
  MaxLives = 2
  c1 = c1
  c2 = c2
  Hosts = {c1, c2}
  Services = {s1}
  Chosen = {1, 2}
  Targets = {1}
  FirstAuto = 2
  MaxAuto = 3
  MaxSent = 1
INVARIANTS
  NumbersUnique
  NumberOwned
  StopAndWait
PROPERTIES
  ImplementsLink
  ReliableSettles
