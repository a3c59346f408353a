\* Tree r -> {a, b} in Z_5, two rounds, at most one corrupted response.
CONSTANTS
  r = r
  a = a
  b = b
  Node <- MCNode
  Root = r
  Parent <- MCParent
  Q = 5
  Priv <- MCPriv
  NameNonce <- MCNameNonce
  Msgs = {1, 2}
  Stamps = {10, 20}
  HashElGamal <- MCHashElGamal
  HashIds <- MCHashIds
  MaxRound = 2
  MaxVerify = 2
  MaxCorrupt = 1
SPECIFICATION Spec
INVARIANTS ResponsesVerify PublishedSignatureValid
\* After MaxRound rounds the root starts no more rounds (LoopRounds spends
\* its budget), and every node has finished the last one.
CHECK_DEADLOCK FALSE
