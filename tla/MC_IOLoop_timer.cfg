CONSTANTS
  Handlers <- MCHandlers
  Acceptor = "acceptor"
  MaxFd = 3
  MaxTimers = 1
SPECIFICATION Spec
PROPERTY TimerOnlyOnTimer
