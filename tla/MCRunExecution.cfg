CONSTANTS
  None = None  w1 = w1  w2 = w2
  RunIds = {1}  Threads = {t1}  Workers = {w1, w2}  Slots = 1
  Settings <- MCRecovery
SPECIFICATION FairSpec
INVARIANTS
  TokensHold NeverCancelledUnasked

  
