CONSTANTS
  r = r
  a = a
  b = b
  c = c
  Nil = Nil
  Node = {r, a, b, c}
  Root = r
  Parent <- MCForkParent
  Priv <- MCForkPriv
  MaxFaults = 1
  Q = 5
  Nonces = {1, 2}
  Msg = 1
  Hash <- MCHash
INIT CosiInit
NEXT CosiNext
INVARIANTS
  AggregationAdditive
  RoundTrip
CHECK_DEADLOCK FALSE
