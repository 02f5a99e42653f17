CONSTANTS
  Parts = {"delivery", "pump", "view", "ledger", "auth", "rate", 
           "journal", "control", "resources"}
  None = None  NoName = NoName
  Callers = {c1}  Workers = {w1, w2}  Subscribers = {s1}
  MaxEvents = 2  Batch = 2  MaxLen = 1  MaxFaults = 1
  MaxEmitted = 2  PumpBatchSize = 2  Shutdowns = TRUE  StoreFaults = TRUE  LatePut = TRUE
  MaxPauses = 1  MaxDeltas = 1  MaxBreaks = 0  MaxLoads = 1  Cancels = TRUE
  LedgerUsers = {u1, u2}  Handlers = {h1, h2}  MaxTokens = 3  MaxTime = 2  Lifetime = 2
  Retention = 1  LedgerBatchSize = 1  MaxLogouts = 1
  Tabs = {t1, t2}  MaxGrants = 3  Environments <- MCEnvironments
  Hosts = {host}  RateUsers = {n1, n2}  RateRequests = {r1, r2}
  Limit = 3  WindowTicks = 6  Second = 3  MaxClock = 8
  Writers = {w1, w2}  JournalKeys = {k1}  Texts = {x}  PageSize = 1  MaxMessages = 3  MaxDeletions = 1
  ControlTools = {t1}  b1 = b1  ControlSkills = {b1, b2}  Builtins = {b1}  ControlAdmins = {a1, a2}
  ControlMaxVersion = 2  MaxRestarts = 1
  Resources = {c1, c2, c3, c4}  Runs = {x1, x2, x3}
SPECIFICATION MCSpec
CONSTRAINT Bounds
CHECK_DEADLOCK FALSE
INVARIANTS
  StreamIsFaithful  ViewIsFaithful LedgerIsSound SessionsHold
  LimiterIsExact HistoryIsStable  ResourcesAreSafe
