CONSTANTS
  Parts = {"catalog", "evaluation", "model", "box", "sql"}
  None = None  Gone = Gone
  Identities = {i1, i2}  DocWorkers = {w1}  CanBuild <- AllBuild
  MaxVersions = 2  DocMaxAttempts = 1  MaxClaims = 2  MaxCrashes = 0  Stalling = FALSE
  Jobs = {j1, j2}  NCases = 2  EvalWorkers = {w1, w2}  EvalMaxAttempts = 2  MaxFailures = 1  MaxLostReplies = 1
  Profiles = {p1, p2}  ModelAdmins = {a1, a2}  Starters = {s1}  Roles = {"answer"}
  m1 = m1  Models = {m1, m2}  Env = m1  ModelMaxVersion = 2  MaxSnaps = 2  ModelMaxCrashes = 0  Taken = FALSE
  BoxWorkers = {w1, w2}  MaxConcurrency = 2  MaxExecutions = 2  BoxMaxCrashes = 1  LateCreates = FALSE
  SqlThreads = {t1, t2}  Tables = {a, b}  Listed = {a}  Queries = {{b}}  Conns = {c1}
  Ttl = 2  SqlMaxTime = 2  MaxChanges = 1  MaxRows = 1  FetchSize = 1  CancelIsQuick = FALSE
SPECIFICATION MCSpec
CONSTRAINT Bounds
CHECK_DEADLOCK FALSE
INVARIANTS
  CatalogIsSound ResultsAreComplete ModelsAreFit BoxIsAccounted 
