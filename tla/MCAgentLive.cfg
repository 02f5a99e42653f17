CONSTANTS
  Parts = {"call", "circuit", "embedding", "runtime", "loop", "gate", "rag", "http", "web"}
  None = None
  MaxAttempts = 3  InitialBackoff = 1  MaxBackoff = 3  MaxRetryAfter = 4  Poll = 2
  RetryAfters = {0, 3, 5}  Deadline = 12  MaxTime = 14  Prompt = TRUE  Probed = FALSE
  CircuitCalls = {c1, c2}  CircuitThreshold = 2  MaxGeneration = 4
  Callers = {e1, e2}  QueryKeys = {}  DocKeys = {d1}  Capacity = 1  MaxBatch = 1
  Concurrency = 1  CacheSize = 0  MaxItems = 2
  Users = {u1}  App = app  MaxClients = 2
  Fingerprints = {f1, f2}  MaxModelCalls = 2  MaxToolCalls = 2  MaxRepeats = 1  MaxParallel = 2
  HumanLengths = {40}  AnswerLengths = {50}  ResultLengths = {20}
  PackBudgets = {180}  MaxMessages = 3
  GateCalls = {t1, t2}  MaxConcurrency = 1
  RagChunks = {k1}  SubQuestions = {s1}  MaxRounds = 1  MaxCrashes = 1
  a1 = a1  a2 = a2  b1 = b1  b2 = b2  A = A  B = B  R = R  col1 = col1  col2 = col2
  Targets <- MCTargets  Required = {col1}  Leaves = {a1}
  Parent <- MCParent  Size <- MCSize  MaxRecall = 1  RetThreshold = 2
  TopK = 1  CandidateLimit = 1  DocumentLimit = 4  TotalLimit = 6  MinScore = 1
  Budget = 7  Overhead = 1  Separator = 1
  SkillWorkers = {w1}  SkillNames = {"report", "research"}
  SkillToolNames <- MCSkillTools  SkillToolsOf <- MCSkillToolsOf
  SkillNeeds = {"sql"}  Deferred = {"sql", "web"}  MaxRevision = 2  MaxFence = 1  MaxFaults = 0
  Calls = {c1}  PolicyTools <- MCPolicyTools  Descriptor <- MCDescriptor
  PolicyToolsOf <- MCPolicyToolsOf  Directives = {None}
  HttpCalls = {h1}  HttpUrls <- MCFewUrls  DnsSlots = 1  MaxRedirects = 1  MaxPins = 1  BodyLimit = 1
  page1 = page1  page2 = page2  page3 = page3
  WebCalls = {1, 2}  HitLists <- MCFewHits  PageSizes = {2}  WebSlots = 1  WebHits = 2  WebVisible = 2
  SnippetMax = 2  SnippetTotal = 2  MaxSources = 2  Cited = {}  FetchMax = 3  FetchTotal = 5  FetchFrame = 2
SPECIFICATION MCFairSpec
CHECK_DEADLOCK FALSE
PROPERTIES
  AgentEnds
