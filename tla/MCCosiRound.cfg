CONSTANTS
  r = r
  a = a
  b = b
  c = c
  Node = {r, a, b, c}
  Root = r
  Parent <- MCForkParent
  MaxFaults = 2
INIT Init
NEXT Next
INVARIANTS
  ExceptionAccounting
  SignersDisjoint
  AccountingInv
  DisjointInv
CHECK_DEADLOCK FALSE
