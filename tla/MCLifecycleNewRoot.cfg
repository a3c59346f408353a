\* Two views: a becomes root of view 1.
CONSTANTS
  r = r
  a = a
  b = b
  h1 = h1
  h2 = h2
  Off = Off
  Node = {r, a, b}
  RootFor <- MCRootFor
  MaxView = 1
  Rounds = 2
  Handlers = {}
  MaxVote = 0
SPECIFICATION FairSpec

PROPERTY NewRootRuns
\* Once every LoopRounds has returned, or every node waits on a timer or
\* on a vote that the model does not force, nothing more happens.
CHECK_DEADLOCK FALSE
