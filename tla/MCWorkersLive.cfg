CONSTANTS
  Parts = {"indexing", "evaluation", "model", "box", "sql"}
  None = None  Gone = Gone
  Identities = {i1}  DocWorkers = {w1, w2}  CanBuild <- AllBuild
  MaxVersions = 1  DocMaxAttempts = 2  MaxClaims = 2  MaxCrashes = 1  Stalling = FALSE
  Jobs = {j1}  NCases = 2  EvalWorkers = {w1}  EvalMaxAttempts = 3  MaxFailures = 2  MaxLostReplies = 1
  p1 = p1  p2 = p2  p3 = p3
  Profiles = {p1, p2, p3}  ModelAdmins = {}  Starters = {s1, s2}  Roles = {"answer", "fast"}
  m1 = m1  Models = {m1, m2}  Env = m1  ModelMaxVersion = 2  MaxSnaps = 0  ModelMaxCrashes = 4  Taken = TRUE
  BoxWorkers = {w1, w2}  MaxConcurrency = 1  MaxExecutions = 2  BoxMaxCrashes = 0  LateCreates = TRUE
  SqlThreads = {t1, t2}  Tables = {a, b}  Listed = {a}  Queries = {{b}}  Conns = {c1}
  Ttl = 1  SqlMaxTime = 0  MaxChanges = 0  MaxRows = 1  FetchSize = 1  CancelIsQuick = TRUE
SPECIFICATION MCFairSpec
CHECK_DEADLOCK FALSE
PROPERTIES
  WorkersSettle
