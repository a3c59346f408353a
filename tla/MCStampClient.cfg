\* Two callers, two servers; three requests in all.
CONSTANTS
  c1 = c1
  c2 = c2
  s1 = s1
  s2 = s2
  None = None
  Callers <- MCCallers
  Servers = {s1, s2}
  MaxReq = 3
SPECIFICATION Spec
SYMMETRY MCSymmetry
INVARIANTS
  EOFReachesWaiters
  StampInv
\* A run ends once MaxReq requests were made and every goroutine has
\* returned or blocks for good.
CHECK_DEADLOCK FALSE
