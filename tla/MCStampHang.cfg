\* Two callers, one server, two requests.
CONSTANTS
  c1 = c1
  c2 = c2
  s1 = s1
  s2 = s2
  None = None
  Callers <- MCCallers
  Servers = {s1}
  MaxReq = 2
SPECIFICATION FairSpec
PROPERTY
  TimeStampReturns
\* The violation is the property's; a run may end with every goroutine
\* returned or blocked.
CHECK_DEADLOCK FALSE
