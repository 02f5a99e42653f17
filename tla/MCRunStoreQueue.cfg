CONSTANTS
  Scopes = {"several"}  FewEvents = 4
  None = None
  RunIds = {1, 2, 3}  Threads = {t1, t2}  Workers = {w1}
  Keys = {k1, k2, k3}  ResumeKeys = {h1}  Answers = {a1}  Skills = {}
  MaxEvents = 2  MaxRounds = 1
SPECIFICATION MCSpec
CONSTRAINT InScope
SYMMETRY Symmetry
CHECK_DEADLOCK FALSE
INVARIANTS
  QueueIsSound
