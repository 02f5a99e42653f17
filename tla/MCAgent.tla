------------------------------ MODULE MCAgent ------------------------------
(* The components a Run's execution is made of: the agent loop, Skill        *)
(* activation, the tool policy and the tool gate, context packing, the RAG   *)
(* graph, retrieval, web research with its HTTP client, and the runtimes of  *)
(* the model providers.  They share no state, so a behaviour runs one of     *)
(* them and leaves the others at rest; part says which.                      *)
EXTENDS ProviderCall, RerankCircuit, EmbeddingRuntime, ProviderRuntime, AgentLoop,
        ContextPacking, ToolGate, RagGraph, Retrieval, SkillActivation, ToolPolicy,
        WebHttp, WebResearch

CONSTANTS Parts,    \* the components to run
          a1, a2, b1, b2, A, B, R, col1, col2, page1, page2, page3

\* Two collections, one of them optional, over four leaves under two parents and one root.
MCTargets == <<col1, col2>>
MCParent == (a1 :> A @@ a2 :> A @@ b1 :> B @@ b2 :> B @@ A :> R @@ B :> R @@ R :> None)
MCSize == (a1 :> 2 @@ a2 :> 1 @@ b1 :> 3 @@ b2 :> 2 @@ A :> 3 @@ B :> 5 @@ R :> 9)

\* Two Skills; a second revision gives the first one another tool.
MCSkillTools == {"search", "describe", "sql", "web"}
MCSkillToolsOf ==
  [s \in {"report", "research"} |->
    [r \in 1..2 |-> IF s = "research" THEN {"web", "describe"}
                    ELSE IF r = 1 THEN {"search", "sql"} ELSE {"search", "sql", "web"}]]

\* One tool per rule of the decision matrix.
Desc(group, network, scope, approval) ==
  [group |-> group, network |-> network, scope |-> scope, approval |-> approval]
MCDescriptor ==
  [search_knowledge_base |-> Desc("knowledge", "none", "knowledge-read", FALSE),
   sql_query |-> Desc("sql", "private-data", "private-data-read", FALSE),
   ledger |-> Desc("weather", "private-data", "private-data-read", FALSE),
   sandbox_execute |-> Desc("sandbox-execution", "none", "code-execution", TRUE),
   save_note |-> Desc("file-write", "none", "thread-write", FALSE),
   run_shell |-> Desc("shell", "none", "process", TRUE),
   plugin |-> Desc("unheard-of", "none", "none", FALSE)]
MCPolicyTools == DOMAIN MCDescriptor
MCPolicyToolsOf ==
  [s \in {"sql-assistant", "office"} |->
     IF s = "office" THEN {"search_knowledge_base", "sandbox_execute", "save_note", "run_shell"}
     ELSE {"sql_query", "search_knowledge_base"}]

\* Two hosts, one of them over TLS and without.
Link(host, secure) == [host |-> host, secure |-> secure]
MCUrls == {Link("a", TRUE), Link("a", FALSE), Link("b", TRUE)}

\* What searches find: nothing, more than is shown, a page twice, hits without a
\* snippet and hits that are no evidence.
Hit(url, titled, size, valid) == [url |-> url, titled |-> titled, size |-> size, valid |-> valid]
MCHits ==
  {<<>>,
   <<Hit(page1, FALSE, 2, TRUE), Hit(page2, TRUE, 1, TRUE)>>,
   <<Hit(page2, FALSE, 1, TRUE), Hit(page1, TRUE, 2, TRUE), Hit(page3, TRUE, 1, TRUE)>>,
   <<Hit(page3, TRUE, 3, TRUE), Hit(page3, TRUE, 1, TRUE)>>,
   <<Hit(page1, TRUE, 0, TRUE), Hit(page2, TRUE, 1, FALSE)>>}

MCFewUrls == {Link("a", TRUE)}
MCFewHits == {<<Hit(page1, TRUE, 1, TRUE)>>}

VARIABLE part

\* Components at rest: not started or finished, with nothing left to do.
CallRest ==
  /\ at = "done" /\ attempt = 1 /\ now = 0 /\ cancelled = FALSE
  /\ sleep = 0 /\ wake = 0 /\ outcome = "rejected"
LoopRest ==
  /\ loopBudget = CHOOSE b \in LoopBudgets : TRUE
  /\ node = "done" /\ steps = 0 /\ modelCalls = 0 /\ toolCalls = 0 /\ final = FALSE
  /\ calls = <<>> /\ history = <<>> /\ executed = {} /\ expired = FALSE
  /\ disobeyed = FALSE /\ error = "none"
PackRest ==
  /\ packBudget = CHOOSE b \in PackBudgets : TRUE
  /\ conversation = <<DynamicContext, [Blank EXCEPT !.id = 1, !.len = CHOOSE n \in HumanLengths : TRUE]>>
  /\ packed = NoPacking
GateRest ==
  /\ kind = [c \in GateCalls |-> "sync"] /\ gateCaller = [c \in GateCalls |-> "idle"]
  /\ gateTask = [c \in GateCalls |-> "none"] /\ permits = MaxConcurrency
RagRest ==
  /\ ragPc = "failed" /\ st = InitialState /\ subs = [q \in SubQuestions |-> None]
  /\ answers = 0 /\ ckpt = None /\ crashes = 0
RetRest == /\ stage = "failed" /\ groups = <<>> /\ docs = <<>>
           /\ payload = <<>> /\ how = None /\ pack = None

MCInit ==
  /\ part \in Parts
  /\ IF part = "call" THEN CallInit ELSE CallRest
  /\ CircuitInit /\ EmbInit /\ RuntimeInit /\ HttpInit /\ WebInit
  /\ IF part = "loop" THEN LoopInit ELSE LoopRest
  /\ IF part = "packing" THEN PackInit ELSE PackRest
  /\ IF part = "gate" THEN GateInit ELSE GateRest
  /\ IF part = "rag" THEN RagInit ELSE RagRest
  /\ IF part = "retrieval" THEN RetInit ELSE RetRest
  /\ SkillInit /\ (part = "skill" \/ ~skillAdmin)
  /\ PolicyInit /\ (part = "policy" \/ (~policyAdmin /\ granted = {} /\ provider = None))

OnlyPart(p) ==
  /\ part = p /\ UNCHANGED part
  /\ IF p = "call" THEN TRUE ELSE UNCHANGED callVars
  /\ IF p = "circuit" THEN TRUE ELSE UNCHANGED circuitVars
  /\ IF p = "embedding" THEN TRUE ELSE UNCHANGED embVars
  /\ IF p = "runtime" THEN TRUE ELSE UNCHANGED runtimeVars
  /\ IF p = "loop" THEN TRUE ELSE UNCHANGED loopVars
  /\ IF p = "packing" THEN TRUE ELSE UNCHANGED packVars
  /\ IF p = "gate" THEN TRUE ELSE UNCHANGED gateVars
  /\ IF p = "rag" THEN TRUE ELSE UNCHANGED ragVars
  /\ IF p = "retrieval" THEN TRUE ELSE UNCHANGED retVars
  /\ IF p = "skill" THEN TRUE ELSE UNCHANGED skillVars
  /\ IF p = "policy" THEN TRUE ELSE UNCHANGED policyVars
  /\ IF p = "http" THEN TRUE ELSE UNCHANGED httpVars
  /\ IF p = "web" THEN TRUE ELSE UNCHANGED webVars

MCNext ==
  \/ OnlyPart("call") /\ CallNext
  \/ OnlyPart("circuit") /\ CircuitNext
  \/ OnlyPart("embedding") /\ EmbNext
  \/ OnlyPart("runtime") /\ RuntimeNext
  \/ OnlyPart("loop") /\ LoopNext
  \/ OnlyPart("packing") /\ PackNext
  \/ OnlyPart("gate") /\ GateNext
  \/ OnlyPart("rag") /\ RagNext
  \/ OnlyPart("retrieval") /\ RetNext
  \/ OnlyPart("skill") /\ SkillNext
  \/ OnlyPart("policy") /\ PolicyNext
  \/ OnlyPart("http") /\ HttpNext
  \/ OnlyPart("web") /\ WebNext

MCvars == <<part, callVars, circuitVars, embVars, runtimeVars, loopVars, packVars, gateVars,
            ragVars, retVars, skillVars, policyVars, httpVars, webVars>>
MCSpec == MCInit /\ [][MCNext]_MCvars

\* The fairness each component justifies.
MCFairSpec ==
  /\ MCSpec
  /\ CallFairness /\ CircuitFairness /\ EmbFairness /\ RuntimeFairness
  /\ LoopFairness /\ GateFairness /\ RagFairness /\ HttpFairness /\ WebFairness

\* A second request runs beside the first hop of the first only.  Calls of web
\* research begin in their order, the third is a fetch, and one thing goes wrong
\* before it.  Workers are interchangeable, so the first claims a Run first, and so
\* are the callers of the embedding runtime and of the gate; a Skill is revised only
\* where no transaction fails.
Bounds ==
  /\ LET first == CHOOSE c \in Callers : TRUE IN
     \A c \in Callers \ {first} : embCaller[c].at # "idle" => embCaller[first].at # "idle" \/ item # <<>>
  /\ LET first == CHOOSE c \in GateCalls : TRUE IN
     \A c \in GateCalls \ {first} : gateCaller[c] # "idle" => gateCaller[first] # "idle"
  /\ LET first == CHOOSE c \in HttpCalls : TRUE IN
     \A c \in HttpCalls \ {first} :
       http[c].pc = "idle" \/ (http[first].hops = <<>> /\ http[c].hops = <<>>)
  /\ \A c \in WebCalls : c > 1 /\ web[c].pc # "idle" => web[c - 1].pc # "idle"
  /\ \A c \in WebCalls : c > 2 => web[c].kind \in {None, "fetch"}
  /\ Cardinality(webLate) + (IF webCancel THEN 1 ELSE 0) + (IF webRuntime = "closed" THEN 1 ELSE 0)
       <= IF \A c \in WebCalls : c > 2 => web[c].pc = "idle" THEN 1 ELSE 0
  /\ Cardinality(webStream.raw) <= 1
  /\ faults + revision <= 2
  /\ \A w \in SkillWorkers : w # (CHOOSE v \in SkillWorkers : TRUE) /\ skillRun.owner = w => skillRun.fence = 2

\* Nothing an execution waits for lasts for ever: the provider call, the shared
\* embedding and client runtimes, the loop, a tool call and its permits, the
\* knowledge search, an HTTP request and web research all end.
AgentEnds ==
  /\ CallEnds /\ HalfOpenSettles /\ EveryCallerAnswered /\ EveryCallReturns
  /\ EventuallyEnds /\ EveryCallAnswered /\ PermitsComeBack /\ SearchEnds
  /\ HttpCallEnds /\ WebCallsEnd
=============================================================================
