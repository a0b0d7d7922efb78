SPECIFICATION UdpSpec
CONSTANTS
  a = a
  b = b
  NoMessage = NoMessage
  Boxes = {a, b}
  Quota <- OneWay
  Restarting = {}
  Resend = 1
  ReliableTimeout = 2
  PeerTimeout = 2
  Elapses = {1}
  ResetLow = 2
  ResetWindow = 1
  MaxSerial = 3
  MaxLives = 1
INVARIANTS
  AtMostOnce
