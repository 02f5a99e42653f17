------------------------------ MODULE RagGraph ------------------------------
(***************************************************************************)
(* The knowledge search of one Run (backend/rag/pipeline.py) and the        *)
(* durable runner around it (backend/rag/checkpoint_runner.py).  A question *)
(* is answered along one path, retrieve - grade - rewrite once - retrieve - *)
(* grade, or split into sub-questions that are searched in parallel and     *)
(* synthesised.  Either may end in a question to the user; the state is     *)
(* then saved in a checkpoint and a later answer resumes it with a targeted *)
(* retrieval.  A worker may die at any time while it resumes; another takes *)
(* the Run over from the checkpoint.                                        *)
(*                                                                          *)
(* Chunks are identities.  A grade is what the grader model may return; the *)
(* flag "selectable" stands for at least two distinct options together with *)
(* a question that asks for a scope.  What the model decides is arbitrary,  *)
(* every provider call may fail, and fields that only feed the trace and    *)
(* the progress display are left out.                                       *)
(***************************************************************************)
EXTENDS Absence, Naturals, FiniteSets

CONSTANTS RagChunks,        \* what retrieval may find
          SubQuestions,  \* what the planner may split the question into
          MaxRounds,     \* bound on the answers of the user
          MaxCrashes     \* bound on takeovers

VARIABLES ragPc,       \* the node about to run, or how the search ended
          st,       \* the RAGState of the question
          subs,     \* the result of each sub-question, or None
          answers,  \* number of answers given by the user (len(hitl_answers))
          ckpt,     \* the latest checkpoint: its state, and whether the answer to it was worked off
          crashes

ragVars == <<ragPc, st, subs, answers, ckpt, crashes>>

Relevances == {"none", "weak", "strong"}
Answerabilities == {"none", "partial", "sufficient"}
Grades == [relevance : Relevances, answerability : Answerabilities,
           ambiguity : {"none", "missing_slot", "multiple_candidates"},
           missing : BOOLEAN, selectable : BOOLEAN,
           route : {"answer", "rewrite", "clarify", "scope_select", "no_knowledge"}]
NoDocsGrade == [relevance |-> "none", answerability |-> "none", ambiguity |-> "none",
                missing |-> FALSE, selectable |-> FALSE, route |-> "no_knowledge"]

Asking == {"clarify", "scope_select"}
AskingStatus == {"needs_clarification", "needs_scope_selection"}
Statuses == AskingStatus \cup {"answerable", "partial", "needs_rewrite", "no_knowledge",
                               "insufficient_evidence", "provider_failed"}
Routes == Asking \cup {"answer", "rewrite", "no_knowledge", "insufficient_evidence", "provider_failed"}
RagOutcomes == {"ANSWERABLE", "NO_KNOWLEDGE", "INSUFFICIENT_EVIDENCE"}

(* rewrites is rewrite_count and evidence the relevance and answerability of *)
(* the last grade; searches, which only serves the properties, counts how    *)
(* often a rewritten query was sent (saturating at 2).                       *)
InitialState ==
  [docs |-> {}, route |-> None, status |-> None, outcome |-> None, rewrites |-> 0,
   evidence |-> None, searches |-> 0]

----------------------------------------------------------------------------
(* Grading *)

Supported(g) == g.relevance = "strong" /\ g.answerability = "sufficient"

CanRewrite(rewrites) == rewrites < 1

(* _resolve_route; the conditions are tried in this order. *)
ResolveRoute(g, docs, rewrites, isSub) ==
  IF docs = {} \/ g.relevance = "none" THEN "no_knowledge"
  ELSE IF g.ambiguity = "multiple_candidates" THEN "scope_select"
  ELSE IF g.ambiguity = "missing_slot" \/ g.missing
       THEN IF g.selectable THEN "scope_select" ELSE "clarify"
  ELSE IF g.route = "scope_select" \/ (g.route = "clarify" /\ g.selectable) THEN "scope_select"
  ELSE IF g.route = "answer" /\ Supported(g) THEN "answer"
  ELSE IF isSub THEN IF g.answerability = "none" THEN "no_knowledge" ELSE "answer"
  ELSE IF g.route = "rewrite" /\ CanRewrite(rewrites) THEN "rewrite"
  ELSE IF g.answerability = "partial" THEN IF CanRewrite(rewrites) THEN "rewrite" ELSE "clarify"
  ELSE IF g.route # "rewrite" /\ Supported(g) THEN "answer"
  ELSE "no_knowledge"

StatusForRoute(route, g) ==
  CASE route = "answer" -> IF g.answerability = "partial" THEN "partial" ELSE "answerable"
    [] route = "rewrite" -> "needs_rewrite"
    [] route = "clarify" -> "needs_clarification"
    [] route = "scope_select" -> "needs_scope_selection"
    [] OTHER -> "no_knowledge"

OutcomeForStatus(status) ==
  CASE status = "answerable" -> "ANSWERABLE"
    [] status = "no_knowledge" -> "NO_KNOWLEDGE"
    [] OTHER -> "INSUFFICIENT_EVIDENCE"

GradesOf(docs) == IF docs = {} THEN {NoDocsGrade} ELSE Grades

Graded(s, g, isSub) ==
  LET route == ResolveRoute(g, s.docs, s.rewrites, isSub) status == StatusForRoute(route, g)
  IN [s EXCEPT !.route = route, !.status = status, !.outcome = OutcomeForStatus(status),
               !.evidence = <<g.relevance, g.answerability>>,
               !.docs = IF route \in Asking \cup {"no_knowledge"} THEN {} ELSE @]

RouteAfterGrade(route) == IF route = "rewrite" THEN "rewrite_question" ELSE "end"

----------------------------------------------------------------------------
(* The graph *)

RagInit == /\ ragPc = "classify_complexity" /\ st = InitialState
           /\ subs = [q \in SubQuestions |-> None]
           /\ answers = 0 /\ ckpt = None /\ crashes = 0

ClassifySimple ==
  /\ ragPc = "classify_complexity" /\ ragPc' = "retrieve_initial"
  /\ UNCHANGED <<st, subs, answers, ckpt, crashes>>

(* A complex question has at least one sub-question; the others of           *)
(* SubQuestions are marked as not asked.                                     *)
ClassifyComplex(S) ==
  /\ ragPc = "classify_complexity" /\ ragPc' = "rag_sub_agent"
  /\ subs' = [q \in SubQuestions |-> IF q \in S THEN InitialState ELSE None]
  /\ UNCHANGED <<st, answers, ckpt, crashes>>

RetrieveInitial(docs) ==
  /\ ragPc = "retrieve_initial" /\ ragPc' = "grade_documents"
  /\ st' = [st EXCEPT !.docs = docs]
  /\ UNCHANGED <<subs, answers, ckpt, crashes>>

GradeDocuments(g) ==
  /\ ragPc = "grade_documents"
  /\ st' = Graded(st, g, FALSE)
  /\ ragPc' = RouteAfterGrade(st'.route)
  /\ UNCHANGED <<subs, answers, ckpt, crashes>>

RewriteQuestion ==
  /\ ragPc = "rewrite_question" /\ ragPc' = "retrieve_rewritten"
  /\ st' = IF st.rewrites >= 1
           THEN [st EXCEPT !.route = "no_knowledge", !.status = "no_knowledge", !.docs = {}]
           ELSE [st EXCEPT !.rewrites = @ + 1]
  /\ UNCHANGED <<subs, answers, ckpt, crashes>>

RetrieveRewritten(docs) ==
  /\ ragPc = "retrieve_rewritten" /\ ragPc' = "grade_documents"
  /\ st' = [st EXCEPT !.docs = docs, !.searches = IF @ < 2 THEN @ + 1 ELSE @]
  /\ UNCHANGED <<subs, answers, ckpt, crashes>>

(* Any of these nodes may raise: the Run fails. *)
NodeFails ==
  /\ ragPc \in {"classify_complexity", "retrieve_initial", "grade_documents", "rewrite_question",
             "retrieve_rewritten", "rag_sub_agent", "targeted"}
  /\ ragPc' = "failed"
  /\ UNCHANGED <<st, subs, answers, ckpt, crashes>>

----------------------------------------------------------------------------
(* Sub-questions *)

Open(q) == subs[q] # None /\ subs[q].status = None
Asked == {q \in SubQuestions : subs[q] # None}

(* retrieve and grade; a sub-question is never rewritten *)
SubAgent(q, docs, g) ==
  /\ ragPc = "rag_sub_agent" /\ Open(q)
  /\ subs' = [subs EXCEPT ![q] = Graded([InitialState EXCEPT !.docs = docs], g, TRUE)]
  /\ UNCHANGED <<ragPc, st, answers, ckpt, crashes>>

(* A provider error of one branch is kept as its result. *)
SubAgentProviderFails(q) ==
  /\ ragPc = "rag_sub_agent" /\ Open(q)
  /\ subs' = [subs EXCEPT ![q] = [InitialState EXCEPT !.status = "provider_failed",
                                                      !.route = "provider_failed"]]
  /\ UNCHANGED <<ragPc, st, answers, ckpt, crashes>>

ProviderFailed == {q \in Asked : subs[q].status = "provider_failed"}
Merged == UNION {subs[q].docs : q \in {r \in Asked : subs[r].status \in {"answerable", "partial"}}}
Uncovered == {q \in Asked : subs[q].status # "answerable"}
AskingSubs == {q \in Asked : subs[q].status \in AskingStatus}

SynthesisForgetsFailure ==
  IF Merged # {} THEN IF Uncovered # {} THEN "partial" ELSE "answerable"
  ELSE IF AskingSubs # {}
       THEN IF \E q \in AskingSubs : subs[q].status = "needs_scope_selection"
            THEN "needs_scope_selection" ELSE "needs_clarification"
  ELSE "no_knowledge"

SynthesisStatus ==
  IF Merged # {} THEN IF Uncovered # {} THEN "partial" ELSE "answerable"
  ELSE IF AskingSubs # {}
       THEN IF \E q \in AskingSubs : subs[q].status = "needs_scope_selection"
            THEN "needs_scope_selection" ELSE "needs_clarification"
  ELSE IF ProviderFailed # {} THEN "insufficient_evidence" ELSE "no_knowledge"

SynthesisRoute(status) ==
  CASE status \in {"answerable", "partial"} -> "answer"
    [] status = "needs_scope_selection" -> "scope_select"
    [] status = "needs_clarification" -> "clarify"
    [] OTHER -> status

Synthesis ==
  /\ ragPc = "rag_sub_agent" /\ \A q \in SubQuestions : ~Open(q)
  /\ IF ProviderFailed = Asked
     THEN ragPc' = "failed" /\ UNCHANGED st
     ELSE /\ ragPc' = "end"
          /\ st' = [st EXCEPT !.docs = Merged, !.status = SynthesisStatus,
                              !.route = SynthesisRoute(SynthesisStatus),
                              !.outcome = OutcomeForStatus(SynthesisStatus)]
  /\ UNCHANGED <<subs, answers, ckpt, crashes>>

----------------------------------------------------------------------------
(* The durable runner *)

IsHitlResult(s) == s.status \in AskingStatus \/ s.route \in Asking

RagCompact(s) == [s EXCEPT !.docs = {}]

(* _outcome: a result that asks is saved as a new checkpoint and the Run     *)
(* waits; any other result of a resume is recorded in the checkpoint, with   *)
(* its documents.                                                            *)
Outcome ==
  /\ ragPc = "end"
  /\ IF IsHitlResult(st)
     THEN /\ ragPc' = "waiting_input"
          /\ ckpt' = [round |-> answers, state |-> RagCompact(st), done |-> FALSE]
     ELSE /\ ragPc' = "answering"
          /\ ckpt' = IF ckpt = None THEN None
                     ELSE [ckpt EXCEPT !.state = st, !.done = TRUE]
  /\ UNCHANGED <<st, subs, answers, crashes>>

(* consume_resume, then resume_rag_state up to the targeted retrieval; the   *)
(* compacted state has no sub-results.                                       *)
Resume ==
  /\ ragPc = "waiting_input" /\ answers < MaxRounds
  /\ answers' = answers + 1
  /\ ragPc' = "targeted" /\ st' = ckpt.state
  /\ subs' = [q \in SubQuestions |-> None]
  /\ UNCHANGED <<ckpt, crashes>>

RetrieveResumeQuery(docs) ==
  /\ ragPc = "targeted" /\ ragPc' = "grade_documents"
  /\ st' = [st EXCEPT !.docs = docs]
  /\ UNCHANGED <<subs, answers, ckpt, crashes>>

Complete ==
  /\ ragPc = "answering" /\ ragPc' = "answered"
  /\ UNCHANGED <<st, subs, answers, ckpt, crashes>>

Resuming == ckpt # None /\ ragPc \notin {"waiting_input", "answered", "failed"}

(* resume_consumed by the worker that takes the Run over: a recorded result  *)
(* is used as it is, otherwise the answer is worked off again.               *)
Takeover ==
  /\ Resuming /\ crashes < MaxCrashes
  /\ crashes' = crashes + 1
  /\ st' = ckpt.state
  /\ ragPc' = IF ckpt.done THEN "answering" ELSE "targeted"
  /\ UNCHANGED <<subs, answers, ckpt>>

RagNext ==
  \/ ClassifySimple
  \/ \E S \in SUBSET SubQuestions \ {{}} : ClassifyComplex(S)
  \/ \E docs \in SUBSET RagChunks :
       RetrieveInitial(docs) \/ RetrieveRewritten(docs) \/ RetrieveResumeQuery(docs)
  \/ \E g \in GradesOf(st.docs) : GradeDocuments(g)
  \/ RewriteQuestion
  \/ NodeFails
  \/ \E q \in SubQuestions, docs \in SUBSET RagChunks : \E g \in GradesOf(docs) : SubAgent(q, docs, g)
  \/ \E q \in SubQuestions : SubAgentProviderFails(q)
  \/ Synthesis
  \/ Outcome
  \/ Resume
  \/ Complete
  \/ Takeover

RagSpec == RagInit /\ [][RagNext]_ragVars

(* Every model and provider call has a deadline, so a node always ends; the  *)
(* user may never answer.                                                    *)
RagFairness == WF_ragVars(ragPc \notin {"waiting_input", "answered", "failed"} /\ RagNext)

----------------------------------------------------------------------------
(* Properties *)

RagResults == [docs : SUBSET RagChunks, route : Routes \cup {None}, status : Statuses \cup {None},
            outcome : RagOutcomes \cup {None}, rewrites : 0..1,
            evidence : (Relevances \X Answerabilities) \cup {None}, searches : 0..2]

(* The graph state is always a RAGState: routes, statuses and outcomes are   *)
(* those of _retrieval_status_for_route and outcome_for_status, and the      *)
(* rewrite counter stays at 0 or 1.                                          *)
RagTypeOK ==
  /\ ragPc \in {"classify_complexity", "retrieve_initial", "grade_documents", "rewrite_question",
             "retrieve_rewritten", "rag_sub_agent", "targeted", "end", "waiting_input",
             "answering", "answered", "failed"}
  /\ st \in RagResults
  /\ subs \in [SubQuestions -> RagResults \cup {None}]
  /\ answers \in 0..MaxRounds /\ crashes \in 0..MaxCrashes
  /\ ckpt \in [round : 0..MaxRounds, state : RagResults, done : BOOLEAN] \cup {None}

RagEnded == {"answering", "answered"}

(* The answer is written from documents exactly when the route is answer: a  *)
(* search that found nothing or asks the user never leaves documents behind, *)
(* and one that answers always has some.                                     *)
EvidenceMatchesRoute ==
  ragPc \in RagEnded \cup {"waiting_input"} =>
    /\ st.docs # {} <=> st.route = "answer"
    /\ st.route = "answer" <=> st.status \in {"answerable", "partial"}
    /\ st.outcome = "ANSWERABLE" => st.docs # {}

(* ANSWERABLE is only reported when all of the question is covered: by one   *)
(* strong and sufficient grade, or by an answerable result of every          *)
(* sub-question.                                                             *)
AnswerableIsCovered ==
  ragPc \in RagEnded /\ st.outcome = "ANSWERABLE" =>
    IF Asked = {} THEN st.evidence = <<"strong", "sufficient">> ELSE \A q \in Asked : subs[q].status = "answerable"

(* NO_KNOWLEDGE, which tells the user that the knowledge base has nothing,   *)
(* is never reported when a provider failed for part of the question.        *)
NoKnowledgeIsHealthy ==
  ragPc \in RagEnded /\ st.outcome = "NO_KNOWLEDGE" => \A q \in Asked : subs[q].status # "provider_failed"

(* What the graph reports of a question is what its searches found.          *)
VerdictIsHonest == RagTypeOK /\ EvidenceMatchesRoute /\ AnswerableIsCovered /\ NoKnowledgeIsHealthy

(* Each search ends: with an answer, a failure or a question.                *)
SearchEnds == []<>(ragPc \in {"waiting_input", "answered", "failed"})
=============================================================================
