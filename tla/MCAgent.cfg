CONSTANTS
  Parts = {"call", "circuit", "embedding", "runtime", "loop", "packing", "gate", "rag", "retrieval",
           "skill", "policy", "http", "web"}
  None = None
  MaxAttempts = 3  InitialBackoff = 1  MaxBackoff = 3  MaxRetryAfter = 4  Poll = 2
  RetryAfters = {0, 3, 5}  Deadline = 8  MaxTime = 10  Prompt = FALSE  Probed = TRUE
  CircuitCalls = {c1, c2, c3}  CircuitThreshold = 2  MaxGeneration = 5
  Callers = {e1, e2}  QueryKeys = {q1, q2}  DocKeys = {}  Capacity = 2  MaxBatch = 2
  Concurrency = 1  CacheSize = 1  MaxItems = 3
  Users = {u1, u2}  App = app  MaxClients = 3
  Fingerprints = {f1, f2}  MaxModelCalls = 3  MaxToolCalls = 5  MaxRepeats = 2  MaxParallel = 2
  HumanLengths = {40, 130}  AnswerLengths = {50}  ResultLengths = {20, 150}
  PackBudgets = {180, 420}  MaxMessages = 7
  GateCalls = {t1, t2, t3}  MaxConcurrency = 2
  RagChunks = {k1, k2}  SubQuestions = {s1, s2}  MaxRounds = 2  MaxCrashes = 1
  a1 = a1  a2 = a2  b1 = b1  b2 = b2  A = A  B = B  R = R  col1 = col1  col2 = col2
  Targets <- MCTargets  Required = {col1}  Leaves = {a1, a2, b1, b2}
  Parent <- MCParent  Size <- MCSize  MaxRecall = 2  RetThreshold = 2
  TopK = 3  CandidateLimit = 3  DocumentLimit = 4  TotalLimit = 6  MinScore = 7
  Budget = 7  Overhead = 1  Separator = 1
  SkillWorkers = {w1, w2}  SkillNames = {"report", "research"}
  SkillToolNames <- MCSkillTools  SkillToolsOf <- MCSkillToolsOf
  SkillNeeds = {"sql"}  Deferred = {"sql", "web"}  MaxRevision = 2  MaxFence = 2  MaxFaults = 1
  Calls = {c1}  PolicyTools <- MCPolicyTools  Descriptor <- MCDescriptor
  PolicyToolsOf <- MCPolicyToolsOf  Directives = {None, "ALLOW", "REQUIRE_APPROVAL", "raises"}
  HttpCalls = {h1, h2}  HttpUrls <- MCUrls  DnsSlots = 1  MaxRedirects = 2  MaxPins = 2  BodyLimit = 1
  page1 = page1  page2 = page2  page3 = page3
  WebCalls = {1, 2, 3}  HitLists <- MCHits  PageSizes = {0, 2, 4}  WebSlots = 1  WebHits = 2  WebVisible = 2
  SnippetMax = 2  SnippetTotal = 2  MaxSources = 2  Cited = {1, 3}  FetchMax = 3  FetchTotal = 5  FetchFrame = 2
SPECIFICATION MCSpec
CONSTRAINT Bounds
CHECK_DEADLOCK FALSE
INVARIANTS
  HalfOpenIsOneProbe WorkIsAccounted 
  BudgetsHold PackingIsSound PermitsAreExact VerdictIsHonest EvidenceIsExact
  SkillFollowsPin OnlyAllowedRuns HttpIsSound FetchBudgetHolds CitationsHold
