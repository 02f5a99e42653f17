CONSTANTS
  Scopes = {"several", "single"}  FewEvents = 5
  None = None
  RunIds = {1, 2}  Threads = {t1}  Workers = {w1, w2}
  Keys = {k1, k2}  ResumeKeys = {h1, h2}  Answers = {a1}  Skills = {s1, s2}
  MaxEvents = 10  MaxRounds = 2
SPECIFICATION MCSpec
CONSTRAINT InScope
SYMMETRY Symmetry
CHECK_DEADLOCK FALSE
INVARIANTS
  RowsAgree ExecutionsFollow
PROPERTIES
  DecisionsStand ImplementsLifecycle
