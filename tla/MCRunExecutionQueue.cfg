CONSTANTS
  None = None  w1 = w1  w2 = w2
  RunIds = {1, 2}  Threads = {t1}  Workers = {w1}  Slots = 1
  Settings <- MCQueue
SPECIFICATION FairSpec
PROPERTIES
  QueueAdvances
