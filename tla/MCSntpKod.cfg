SPECIFICATION Spec
CONSTANTS
  SNTP_RECV_TIMEOUT = 1
  SNTP_RETRY_TIMEOUT = 1
  SNTP_RETRY_TIMEOUT_MAX = 10
  SNTP_UPDATE_DELAY = 24
  Slots = 4
  MaxDns = 4
  MaxFlight = 2
  MaxKods = 6
  MaxLates = 0
  Copies = FALSE
  None = None
INVARIANT PoolNeverEmpty
