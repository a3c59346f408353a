CONSTANTS
  r = r
  a = a
  b = b
  c = c
  Nil = Nil
  Node = {r, a, b}
  Root = r
  Parent <- MCChainParent
  Priv <- MCChainPriv
  MaxFaults = 2
  Q = 5
  Nonces = {1, 2, 4}
  Msg = 1
  Hash <- MCHash
INIT CosiInit
NEXT CosiNext
INVARIANTS
  ExceptionVerification
CHECK_DEADLOCK FALSE
