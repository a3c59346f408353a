\* Two developers, up to three signatures, thresholds 0 to 3.
CONSTANTS
  d1 = d1
  d2 = d2
  Dev <- MCDev
  Invalid = Invalid
  MaxSigs = 3
  MaxThreshold = 3
SYMMETRY MCSymmetry
SPECIFICATION Spec
INVARIANTS ApprovalCorrect
\* ApprovalCheck returns, and then nothing more happens.
CHECK_DEADLOCK FALSE
