SPECIFICATION Spec
CONSTANTS
  SNTP_RECV_TIMEOUT = 1
  SNTP_RETRY_TIMEOUT = 1
  SNTP_RETRY_TIMEOUT_MAX = 10
  SNTP_UPDATE_DELAY = 24
  Slots = 4
  MaxDns = 4
  MaxFlight = 2
  MaxKods = 1
  MaxLates = 1
  Copies = TRUE
  None = None
INVARIANT TypeOK
INVARIANT OneAttemptPerFault
PROPERTY AsksAfterUpdateDelay
PROPERTY AsksForEver
