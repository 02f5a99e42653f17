----------------------------- MODULE AgentLoop -----------------------------
(***************************************************************************)
(* One execution of the agent graph (backend/agent/middleware.py): model    *)
(* rounds and tool rounds under the budgets of RuntimeBudget, with the ten  *)
(* default middlewares in their fixed order.  The graph itself, and the two *)
(* LangChain middlewares ToolCallLimit and ModelCallLimit, are external:    *)
(* they are modelled from how build_default_middleware configures them and  *)
(* how the repository's middlewares read their counters.                    *)
(*                                                                         *)
(* A tool call is reduced to its fingerprint (tool name and arguments).     *)
(* The calls of one model answer run concurrently.                          *)
(***************************************************************************)
EXTENDS Integers, Sequences, FiniteSets, FiniteSetsExt

CONSTANTS Fingerprints,   \* what a tool call can ask for
          MaxModelCalls,  \* the largest max_model_calls tried
          MaxToolCalls,   \* the largest max_tool_calls tried
          MaxRepeats,     \* the largest max_repeated_tool_calls tried
          MaxParallel     \* the most tool calls one model answer holds

VARIABLES loopBudget,     \* RuntimeBudget: the three call limits
          node,       \* the graph node to run next, or how the run ended
          steps,      \* graph nodes run so far (what recursion_limit counts)
          modelCalls, \* run_model_call_count
          toolCalls,  \* run_tool_call_count["__all__"]
          final,      \* the last request was reserved for the answer
          calls,      \* the tool calls of the last model answer
          history,    \* _tool_fingerprint_history
          executed,   \* the places of history whose tool really ran
          expired,    \* the deadline has passed
          disobeyed,  \* the model called a tool although none was offered
          error       \* why the run failed

loopVars == <<loopBudget, node, steps, modelCalls, toolCalls, final, calls, history,
          executed, expired, disobeyed, error>>

----------------------------------------------------------------------------
CallStates == {"pending", "running", "answered"}

(* A call, where it stands and how many closing traces (tool.completed,     *)
(* tool.failed, tool.denied) were recorded for it.                          *)
LoopCall == [fp : Fingerprints, st : CallStates, opened : BOOLEAN, closed : 0..2]

NewCall(fp) == [fp |-> fp, st |-> "pending", opened |-> FALSE, closed |-> 0]

LoopBudgets == [models : 1..MaxModelCalls, tools : 1..MaxToolCalls,
            repeats : 1..MaxRepeats]

Nodes == {"request_context", "model_limit_before", "model",
          "model_limit_after", "tool_limit_after", "tools",
          "clarification", "terminal"}

LoopEnded == node \in {"done", "failed"}

(* AgentSettings.minimum_recursion_limit; a smaller recursion_limit does    *)
(* not pass the settings validation, so the tightest legal one is used.     *)
MinimumRecursionLimitShort ==
    8 + 4 * Min({loopBudget.tools, Max({loopBudget.models - 1, 0})})

MinimumRecursionLimit ==
    8 + 5 * Min({loopBudget.tools, Max({loopBudget.models - 1, 0})})

LoopInit ==
    /\ loopBudget \in LoopBudgets
    /\ node = "request_context"
    /\ steps = 0 /\ modelCalls = 0 /\ toolCalls = 0
    /\ final = FALSE
    /\ calls = <<>> /\ history = <<>> /\ executed = {}
    /\ expired = FALSE
    /\ disobeyed = FALSE
    /\ error = "none"

(* An exception leaves the graph.                                          *)
Raise(why) ==
    /\ node' = "failed"
    /\ error' = why

(* A node runs if the recursion limit leaves room for it.                  *)
Enter(n) ==
    /\ node = n
    /\ steps < MinimumRecursionLimit
    /\ steps' = steps + 1

OutOfSteps ==
    /\ node \in Nodes
    /\ node = "tools" => \A i \in DOMAIN calls : ~calls[i].opened
    /\ steps >= MinimumRecursionLimit
    /\ Raise("recursion")
    /\ UNCHANGED <<loopBudget, steps, modelCalls, toolCalls, final, calls,
                   history, executed, expired, disobeyed>>

(* RequestContextMiddleware.before_agent                                   *)
RequestContext ==
    /\ Enter("request_context")
    /\ IF expired THEN Raise("deadline")
       ELSE node' = "model_limit_before" /\ UNCHANGED error
    /\ UNCHANGED <<loopBudget, modelCalls, toolCalls, final, calls, history,
                   executed, expired, disobeyed>>

ModelRunLimit == loopBudget.models

(* ModelCallLimitMiddleware.before_model, exit_behavior="error"            *)
ModelLimitBefore ==
    /\ Enter("model_limit_before")
    /\ IF modelCalls >= ModelRunLimit THEN Raise("model_limit")
       ELSE node' = "model" /\ UNCHANGED error
    /\ UNCHANGED <<loopBudget, modelCalls, toolCalls, final, calls, history,
                   executed, expired, disobeyed>>

RequiresFinalResponse ==
    \/ modelCalls >= loopBudget.models - 1
    \/ toolCalls >= loopBudget.tools

(* The model node: tracing (deadline), dynamic context, budget, policy and  *)
(* then the provider, which answers, asks for tools or fails.  A provider   *)
(* may ask for tools although tool_choice is "none".                        *)
ModelAnswers ==
    /\ Enter("model")
    /\ ~expired
    /\ final' = RequiresFinalResponse
    /\ calls' = <<>>
    /\ node' = "model_limit_after"
    /\ UNCHANGED <<loopBudget, modelCalls, toolCalls, history, executed, expired,
                   disobeyed, error>>

ModelCallsTools ==
    /\ Enter("model")
    /\ ~expired
    /\ final' = RequiresFinalResponse
    /\ \E n \in 1..MaxParallel : \E fps \in [1..n -> Fingerprints] :
           calls' = [i \in 1..n |-> NewCall(fps[i])]
    /\ disobeyed' = (disobeyed \/ RequiresFinalResponse)
    /\ node' = "model_limit_after"
    /\ UNCHANGED <<loopBudget, modelCalls, toolCalls, history, executed, expired,
                   error>>

ModelFails ==
    /\ Enter("model")
    /\ Raise(IF expired THEN "deadline" ELSE "provider")
    /\ UNCHANGED <<loopBudget, modelCalls, toolCalls, final, calls, history,
                   executed, expired, disobeyed>>

(* ModelCallLimitMiddleware.after_model                                    *)
ModelLimitAfter ==
    /\ Enter("model_limit_after")
    /\ modelCalls' = modelCalls + 1
    /\ node' = "tool_limit_after"
    /\ UNCHANGED <<loopBudget, toolCalls, final, calls, history, executed,
                   expired, disobeyed, error>>

(* ToolCallLimitMiddleware.after_model, exit_behavior="continue": the calls *)
(* past the limit are answered with an error at once, every call counts.    *)
ToolLimitAfter ==
    LET room == Max({loopBudget.tools - toolCalls, 0})
        left == {i \in DOMAIN calls : i <= room}
    IN  /\ Enter("tool_limit_after")
        /\ toolCalls' = toolCalls + Len(calls)
        /\ calls' = [i \in DOMAIN calls |->
                        IF i \in left THEN calls[i]
                        ELSE [calls[i] EXCEPT !.st = "answered"]]
        /\ node' = CASE calls = <<>> -> "clarification"
                     [] left # {} -> "tools"
                     [] OTHER -> "model_limit_before"
        /\ UNCHANGED <<loopBudget, modelCalls, final, history, executed, expired,
                       disobeyed, error>>

----------------------------------------------------------------------------
(* The tools node: one task per call; its step is counted by the first.     *)
LoopTask(i) ==
    /\ node = "tools"
    /\ i \in DOMAIN calls
    /\ calls[i].st = "pending"
    /\ LET first == \A j \in DOMAIN calls : ~calls[j].opened
       IN  /\ first => steps < MinimumRecursionLimit
           /\ steps' = IF first THEN steps + 1 ELSE steps

Rounded(c) == \A i \in DOMAIN c : c[i].st = "answered"

NextNode(c) == IF Rounded(c) THEN "model_limit_before" ELSE "tools"

(* The task raises: the graph stops, and tracing has closed the call.       *)
TaskRaises(i, why) ==
    /\ calls' = [calls EXCEPT ![i].st = "answered", ![i].opened = TRUE,
                              ![i].closed = 1]
    /\ Raise(why)

DenialsClosed == 1

RefusesLastRound == modelCalls >= loopBudget.models

PolicyDenies(i) ==
    /\ LoopTask(i)
    /\ ~expired
    /\ ~RefusesLastRound
    /\ calls' = [calls EXCEPT ![i].st = "answered", ![i].opened = TRUE,
                              ![i].closed = DenialsClosed]
    /\ node' = NextNode(calls')
    /\ UNCHANGED <<loopBudget, modelCalls, toolCalls, final, history, executed,
                   expired, disobeyed, error>>

(* register_tool_fingerprint: how often the call was made, itself included, *)
(* and whether the last four calls alternate between two.                   *)
CountOf(fp, h) == Cardinality({i \in DOMAIN h : h[i] = fp})

Alternates(h) ==
    LET n == Len(h)
    IN  /\ n >= 4
        /\ h[n - 3] = h[n - 1]
        /\ h[n - 2] = h[n]
        /\ h[n - 1] # h[n]

LoopBlocks(h) ==
    CountOf(h[Len(h)], h) > loopBudget.repeats \/ Alternates(h)

(* The policy lets the call through to LoopDetectionMiddleware._check; no   *)
(* await separates the two.  A blocked call is answered and traced as       *)
(* tool.failed, any other one reaches its tool.                             *)
PolicyPasses(i) ==
    /\ LoopTask(i)
    /\ ~expired
    /\ ~RefusesLastRound
    /\ LET h == Append(history, calls[i].fp)
       IN  /\ history' = h
           /\ IF LoopBlocks(h)
              THEN /\ calls' = [calls EXCEPT ![i].st = "answered",
                                             ![i].opened = TRUE,
                                             ![i].closed = 1]
                   /\ UNCHANGED executed
              ELSE /\ calls' = [calls EXCEPT ![i].st = "running",
                                             ![i].opened = TRUE]
                   /\ executed' = executed \cup {Len(h)}
    /\ node' = NextNode(calls')
    /\ UNCHANGED <<loopBudget, modelCalls, toolCalls, final, expired, disobeyed,
                   error>>

PolicyRaises(i) ==
    /\ LoopTask(i)
    /\ RefusesLastRound \/ expired
    /\ TaskRaises(i, IF expired THEN "deadline" ELSE "model_limit")
    /\ UNCHANGED <<loopBudget, modelCalls, toolCalls, final, history, executed,
                   expired, disobeyed>>

(* The tool returns, successfully or with a typed failure, ...              *)
ToolReturns(i) ==
    /\ node = "tools"
    /\ calls[i].st = "running"
    /\ calls' = [calls EXCEPT ![i].st = "answered", ![i].closed = @ + 1]
    /\ node' = NextNode(calls')
    /\ UNCHANGED <<loopBudget, steps, modelCalls, toolCalls, final, history,
                   executed, expired, disobeyed, error>>

(* ... or raises (the Run was cancelled or its fence was lost).             *)
ToolRaises(i) ==
    /\ node = "tools"
    /\ calls[i].st = "running"
    /\ TaskRaises(i, "tool")
    /\ UNCHANGED <<loopBudget, steps, modelCalls, toolCalls, final, history,
                   executed, expired, disobeyed>>

----------------------------------------------------------------------------
(* after_agent hooks, in reverse order.                                    *)
Clarification ==
    /\ Enter("clarification")
    /\ node' = "terminal"
    /\ UNCHANGED <<loopBudget, modelCalls, toolCalls, final, calls, history,
                   executed, expired, disobeyed, error>>

Terminal ==
    /\ Enter("terminal")
    /\ node' = "done"
    /\ UNCHANGED <<loopBudget, modelCalls, toolCalls, final, calls, history,
                   executed, expired, disobeyed, error>>

(* Time passes, and asyncio.timeout around the graph cancels it wherever    *)
(* it is.  A cancelled task records no closing trace.                       *)
Expire ==
    /\ ~LoopEnded /\ ~expired
    /\ expired' = TRUE
    /\ UNCHANGED <<loopBudget, node, steps, modelCalls, toolCalls, final, calls,
                   history, executed, disobeyed, error>>

LoopTimeout ==
    /\ ~LoopEnded /\ expired
    /\ Raise("deadline")
    /\ UNCHANGED <<loopBudget, steps, modelCalls, toolCalls, final, calls,
                   history, executed, expired, disobeyed>>

Model == ModelAnswers \/ ModelCallsTools \/ ModelFails

Tools ==
    \E i \in 1..MaxParallel :
        \/ PolicyDenies(i)
        \/ PolicyPasses(i)
        \/ PolicyRaises(i)
        \/ i \in DOMAIN calls /\ ToolReturns(i)
        \/ i \in DOMAIN calls /\ ToolRaises(i)

Idle == LoopEnded /\ UNCHANGED loopVars

LoopNext ==
    \/ RequestContext \/ ModelLimitBefore \/ Model
    \/ ModelLimitAfter \/ ToolLimitAfter \/ Tools
    \/ Clarification \/ Terminal
    \/ OutOfSteps \/ Expire \/ LoopTimeout \/ Idle

LoopSpec == LoopInit /\ [][LoopNext]_loopVars

(* Only the clock is fair: providers and tools may hang for ever.           *)
LoopFairness == WF_loopVars(Expire) /\ WF_loopVars(LoopTimeout)

----------------------------------------------------------------------------
(* Type invariant of the graph state and the runtime context.               *)
LoopTypeOK ==
    /\ loopBudget \in LoopBudgets
    /\ node \in Nodes \cup {"done", "failed"}
    /\ steps \in 0..MinimumRecursionLimit
    /\ modelCalls \in 0..loopBudget.models
    /\ toolCalls \in 0..(MaxModelCalls * MaxParallel)
    /\ Len(calls) <= MaxParallel
    /\ \A i \in DOMAIN calls : calls[i] \in LoopCall
    /\ \A i \in DOMAIN history : history[i] \in Fingerprints

(* ADR-0011: the last model round, and the one after the tool budget is     *)
(* spent, are reserved for the answer.  So a model that respects            *)
(* tool_choice="none" never loses its Run to the model-call limit or to the *)
(* recursion limit, however it spends the rounds before, whatever is        *)
(* denied, blocked or answered with an error.                               *)
BudgetsLeaveAnAnswer ==
    ~disobeyed => error \notin {"model_limit", "recursion"}

(* At most max_tool_calls tools run in one execution, none of them more     *)
(* than max_repeated_tool_calls times with the same arguments, and two that *)
(* take turns are stopped at the fourth call, although the calls of one     *)
(* answer run concurrently and refused calls lie between.                   *)
ToolsStayInBudget ==
    /\ Cardinality(executed) <= loopBudget.tools
    /\ \A fp \in Fingerprints :
           Cardinality({i \in executed : history[i] = fp}) <= loopBudget.repeats
    /\ \A i \in executed : i + 3 \in executed =>
           \/ history[i] # history[i + 2]
           \/ history[i + 1] # history[i + 3]
           \/ history[i] = history[i + 1]

(* The budgets of an execution hold together: the tools stay within theirs, *)
(* and spending them leaves a round for the answer.                         *)
BudgetsHold == LoopTypeOK /\ BudgetsLeaveAnAnswer /\ ToolsStayInBudget

(* The deadline ends every execution, whatever hangs.                       *)
EventuallyEnds == <>LoopEnded

============================================================================
