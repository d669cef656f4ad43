SPECIFICATION Spec
CONSTANTS
  arp = arp
  Cyclic <- MCCyclic
  Interval <- MCInterval
  TcpTimer = tcp
  TcpInterval = 2
  OneShots = {sntp}
  Delays = {0, 2}
  MaxOneShots = 2
  PoolSize = 4
  ClockModulus = 12
  MaxLate = 2
  None = None
INVARIANT TypeOK
INVARIANT CyclicExactlyOnce
INVARIANT TcpTimerMatches
INVARIANT PoolNeverEmpty
PROPERTY ChecksReturn
PROPERTY CyclicTimersKeepRunning
PROPERTY ImplementsTimerService
