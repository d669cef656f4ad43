SPECIFICATION Spec
SYMMETRY MCSymmetry
CONSTANTS
  DNS_TABLE_SIZE = 2
  DNS_MAX_SERVERS = 2
  DNS_MAX_RETRIES = 3
  DNS_MAX_TTL = 2
  SeqnoModulus = 3
  Names = {pool, weather, other}
  Users = {sntp, request, late}
  Addresses = {router}
  NoServer = NoServer
  Ttls = {0, 1, 3}
INVARIANT TypeOK
INVARIANT EveryWaiterHasOneRequest
INVARIANT PortsOpenWhileUsed
INVARIANT OneEntryPerName
INVARIANT AnsweredInTime
