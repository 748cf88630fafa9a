CONSTANTS
  Services <- AllKinds
  InitTicks = 3
  StepTicks = 1
  RetryTicks = 1
  QueryTick = 1
  PingEvery = 1
  Expire = 2
  MaxPause = 4
  ClockJumps <- OneJump
  Conns <- MCConns
SPECIFICATION FairSpec
INVARIANTS TypeOK OneKnownConnection SilentServerDropped
PROPERTIES TriesAreSpaced HandshakeEnds KeepsTrying
