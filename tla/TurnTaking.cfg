SPECIFICATION FairSpec
CONSTANTS
  N = 4
  First = 3
  Rounds = 2
INVARIANTS InTurn
PROPERTIES Terminates
