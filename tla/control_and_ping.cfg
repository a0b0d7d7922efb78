SPECIFICATION MCFair
CONSTANTS
  writer = writer
  closer = closer
  lurker = lurker
  NoClient = NoClient
  Clients = {writer, closer, lurker}
  Script <- MCScript
  Param <- MCParam
  MaxConns = 2
  Backlog = 1
  PerTick = 1
  IdleTimeout = 0
  Elapses = {0, 1}
  MaxIn = 4
  Pings = {p1, p2, p3}
  Timeout = 2
  Interval = 1
  MaxPongs = 1
INVARIANTS
  NothingUnanswered
  IdleEvicted
  ValuesLegal
  PendingExact
PROPERTIES
  TickEnds
  BacklogMoves
  CompleteHandled
  PingSettles
