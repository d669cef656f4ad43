SPECIFICATION Spec
CONSTANTS
  DHCP_COARSE_TIMER_SECS = 4
  MaxTries = 3
  LongWait = 4
  DeclineWait = 3
  Grants <- MCGrants
  MaxDelay = 3
  MaxFaults = 2
INVARIANT TypeOK
INVARIANT LeaseRespected
INVARIANT LeaseRunsOut
PROPERTY AsksBeforeExpiry
PROPERTY BindsAgain
