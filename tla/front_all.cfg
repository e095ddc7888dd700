CONSTANTS
  Bits = 3
  Hosts <- MCHosts
  Sections <- MCSections
  Conns = {c1}
  Peers = {0}
  Headers = {"a", "b"}
  Confs <- MCConfs
  Requests <- MCRequests
  NoRequest = NoRequest
SPECIFICATION Spec
CHECK_DEADLOCK FALSE
INVARIANT TypeOK AnswersFollowRules HeadersAsWritten
