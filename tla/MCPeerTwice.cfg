\* The Listen goroutine and an outside caller close the peer together.
CONSTANTS
  l = l
  o = o
  Callers = {l, o}
  Listener = l
  NbHost = 2
  Retry = 2
  MaxAttempts = 3
SPECIFICATION Spec
INVARIANT NodeClosedOnce
\* WaitRoundSetup returns or runs out of attempts, and Close is called at
\* most once per goroutine: the peer then has nothing left to do.
CHECK_DEADLOCK FALSE
