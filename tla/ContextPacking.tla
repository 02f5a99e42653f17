--------------------------- MODULE ContextPacking ---------------------------
(***************************************************************************)
(* trim_messages_to_budget (backend/agent/middleware.py): how a growing     *)
(* conversation is packed into the input budget before every model call.    *)
(* A message is its kind, its text length and its place in the tool         *)
(* protocol; the packing algorithm is translated step by step, with the     *)
(* code's own constants.  The conversation grows the way the agent loop     *)
(* grows it, and any state before a model call may be packed.               *)
(***************************************************************************)
EXTENDS Integers, Sequences, FiniteSets, FiniteSetsExt, SequencesExt

CONSTANTS HumanLengths, AnswerLengths, ResultLengths, \* text lengths tried
          PackBudgets,      \* input_token_budget
          MaxMessages   \* bound on the conversation

VARIABLES conversation, packBudget, packed

packVars == <<conversation, packBudget, packed>>

----------------------------------------------------------------------------
(* Messages.  id is the position at which the message was added; a tool     *)
(* result answers the call named by `call`; web marks a typed result of a   *)
(* web tool and evidence one that carries sources.                          *)
Blank == [kind |-> "human", id |-> 0, len |-> 0, calls |-> {}, call |-> 0,
          web |-> FALSE, evidence |-> FALSE]

DynamicContext == [Blank EXCEPT !.kind = "system", !.len = 60]

(* estimate_request_tokens: one character counts as one token, a message    *)
(* has a fixed overhead and an AI message pays for the calls it carries.    *)
MessageOverhead == 12
CallOverhead == 60

Cost(m) == m.len + MessageOverhead + CallOverhead * Cardinality(m.calls)

Estimate(ms) == FoldLeft(LAMBDA sum, m : sum + Cost(m), 0, ms)

(* _conversation_turns: a human message opens a turn.                       *)
Turns(ms) ==
    FoldLeft(LAMBDA turns, m :
                IF turns = <<>> \/ m.kind = "human"
                THEN Append(turns, <<m>>)
                ELSE Append(Front(turns), Append(Last(turns), m)),
             <<>>, ms)

(* The members of S in the order a sort with this key would give.           *)
Ordered(S, Before(_, _)) ==
    [k \in 1..Cardinality(S) |->
        CHOOSE i \in S : Cardinality({j \in S : Before(j, i)}) = k - 1]

(* _truncate_message *)
Marker == 31

Truncate(m, target) ==
    IF m.len <= target THEN m
    ELSE [m EXCEPT !.len = Max({target - Marker, 1}) + Marker]

(* _compact_to_budget *)
WebResults(ms) == {i \in DOMAIN ms : ms[i].kind = "tool" /\ ms[i].web}

Untouchable(ms) ==
    WebResults(ms) \cup {i \in DOMAIN ms : ms[i].kind = "system"}

Minimum(m) == IF m.kind = "human" THEN 96 ELSE 32

Rank(m) == CASE m.kind = "tool" -> 0 [] m.kind = "ai" -> 1 [] OTHER -> 2

CompactBefore(ms, i, j) ==
    \/ Rank(ms[i]) < Rank(ms[j])
    \/ Rank(ms[i]) = Rank(ms[j]) /\ ms[i].len > ms[j].len
    \/ Rank(ms[i]) = Rank(ms[j]) /\ ms[i].len = ms[j].len /\ i < j

Candidates(ms) ==
    Ordered(DOMAIN ms \ Untouchable(ms),
            LAMBDA i, j : CompactBefore(ms, i, j))

(* One candidate: shortened by the overrun or a third, down to its minimum, *)
(* unless the estimate already fits.                                        *)
Shorten(ms, i, limit) ==
    LET m == ms[i]
        over == Estimate(ms) - limit
    IN  IF over <= 0 \/ m.len <= Minimum(m) THEN ms
        ELSE [ms EXCEPT ![i] = Truncate(m,
                 Max({Minimum(m), m.len - Max({over, m.len \div 3})}))]

CompactPass(ms, limit) ==
    FoldLeft(LAMBDA acc, i : Shorten(acc, i, limit), ms, Candidates(ms))

(* The while loop ends when the estimate fits or no text is above its       *)
(* minimum (changed stays false).                                           *)
(* Rounds bounds it, far above the passes a text of these lengths can take. *)
Rounds == 30

RECURSIVE PackCompact(_, _, _)
PackCompact(ms, limit, rounds) ==
    LET done == \/ Estimate(ms) <= limit
                \/ \A i \in DOMAIN ms \ Untouchable(ms) :
                      ms[i].len <= Minimum(ms[i])
    IN  IF done \/ rounds = 0
        THEN [messages |-> ms, ended |-> done]
        ELSE PackCompact(CompactPass(ms, limit), limit, rounds - 1)

(* _remove_tool_call_bundle *)
RemoveResultOnly(ms, call) ==
    SelectSeq(ms, LAMBDA m : ~(m.kind = "tool" /\ m.call = call))

RemoveBundle(ms, call) ==
    LET stripped == [i \in DOMAIN ms |->
                        [ms[i] EXCEPT !.calls = @ \ {call}]]
        kept(i) == /\ ~(ms[i].kind = "tool" /\ ms[i].call = call)
                   /\ \/ call \notin ms[i].calls
                      \/ stripped[i].calls # {}
                      \/ ms[i].len > 0
        order == Ordered({i \in DOMAIN ms : kept(i)}, <)
    IN  [k \in DOMAIN order |-> stripped[order[k]]]

Protected(ms) ==
    LET evident == {i \in WebResults(ms) : ms[i].evidence}
    IN  IF evident # {} THEN Max(evident) ELSE Max(WebResults(ms))

EvictionOrder(ms) ==
    LET others == WebResults(ms) \ {Protected(ms)}
        before(i, j) == \/ ~ms[i].evidence /\ ms[j].evidence
                        \/ ms[i].evidence = ms[j].evidence /\ i < j
        order == Ordered(others, before)
    IN  [k \in DOMAIN order |-> ms[order[k]].call]

Evict(ms, limit) ==
    IF WebResults(ms) = {} THEN ms
    ELSE FoldLeft(LAMBDA acc, call :
                     IF Estimate(acc) <= limit THEN acc
                     ELSE RemoveBundle(acc, call),
                  ms, EvictionOrder(ms))

RetainGreedily(system, turns, limit) ==
    FoldLeft(LAMBDA kept, turn :
                IF Estimate(system \o turn \o kept) <= limit
                THEN turn \o kept ELSE kept,
             Last(turns), Reverse(Front(turns)))

(* trim_messages_to_budget *)
Trim(ms, limit) ==
    LET system == SelectSeq(ms, LAMBDA m : m.kind = "system")
        talk == SelectSeq(ms, LAMBDA m : m.kind # "system")
        retained == system \o RetainGreedily(system, Turns(talk), limit)
        compacted == PackCompact(retained, limit, Rounds)
        final == IF Estimate(compacted.messages) <= limit
                 THEN compacted.messages
                 ELSE Evict(compacted.messages, limit)
    IN  [ok |-> Estimate(final) <= limit,
         ended |-> compacted.ended,
         webLeft |-> WebResults(final) # {},
         messages |-> final]

----------------------------------------------------------------------------
(* The conversation as the agent loop grows it.                             *)
NoPacking == [ok |-> TRUE, ended |-> TRUE, webLeft |-> FALSE,
              messages |-> <<>>]

PackInit ==
    /\ packBudget \in PackBudgets
    /\ conversation \in {<<DynamicContext,
                           [Blank EXCEPT !.id = 1, !.len = n]>> :
                             n \in HumanLengths}
    /\ packed = NoPacking

Awaited == Last(conversation).kind \in {"human", "tool"}

Say(ms) ==
    /\ conversation' = conversation \o ms
    /\ packed' = NoPacking
    /\ UNCHANGED packBudget

PackAsk ==
    /\ ~Awaited
    /\ Len(conversation) < MaxMessages
    /\ \E n \in HumanLengths :
          Say(<<[Blank EXCEPT !.id = Len(conversation), !.len = n]>>)

Answer ==
    /\ Awaited
    /\ Len(conversation) + 2 <= MaxMessages
    /\ \E n \in AnswerLengths :
          Say(<<[Blank EXCEPT !.kind = "ai", !.id = Len(conversation),
                              !.len = n]>>)

(* An AI message with one or two calls, and the results of these calls.     *)
Result(call, n, kind) ==
    [Blank EXCEPT !.kind = "tool", !.id = call, !.len = n, !.call = call,
                  !.web = kind # "plain", !.evidence = kind = "evidence"]

ResultKinds == {"plain", "web", "evidence"}

ToolRound ==
    /\ Awaited
    /\ \E k \in 1..2 :
          /\ Len(conversation) + 1 + k <= MaxMessages
          /\ LET at == Len(conversation)
                 ids == [i \in 1..k |-> at + i]
             IN  \E n \in AnswerLengths \cup {0} :
                 \E sizes \in [1..k -> ResultLengths] :
                 \E kinds \in [1..k -> ResultKinds] :
                    Say(<<[Blank EXCEPT !.kind = "ai", !.id = at, !.len = n,
                                        !.calls = Range(ids)]>>
                        \o [i \in 1..k |-> Result(ids[i], sizes[i], kinds[i])])

PackContext ==
    /\ Awaited
    /\ packed' = Trim(conversation, packBudget)
    /\ UNCHANGED <<conversation, packBudget>>

PackNext == PackAsk \/ Answer \/ ToolRound \/ PackContext

PackSpec == PackInit /\ [][PackNext]_packVars

----------------------------------------------------------------------------
Packing == packed.messages # <<>>

Sent == packed.messages

Ids(ms) == {ms[i].id : i \in DOMAIN ms}

Latest == Last(Turns(SelectSeq(conversation,
                               LAMBDA m : m.kind # "system")))

(* What is sent keeps the tool protocol: every tool result follows the AI   *)
(* message that holds its call, every call kept in an AI message still has  *)
(* its result, and the order of the conversation is unchanged.  (The code   *)
(* asserts only the first of the three.)                                    *)
PackedKeepsProtocol ==
    Packing =>
        /\ \A i \in DOMAIN Sent : Sent[i].kind = "tool" =>
              \E j \in 1..(i - 1) : Sent[i].call \in Sent[j].calls
        /\ \A j \in DOMAIN Sent : \A c \in Sent[j].calls :
              \E i \in (j + 1)..Len(Sent) : Sent[i].call = c
        /\ \A i \in 2..Len(Sent) : Sent[i - 1].id < Sent[i].id

(* The dynamic context is sent whole, the question that opened the latest   *)
(* turn is always sent, and the newest web result with evidence in that     *)
(* turn is sent untouched whenever packing succeeds.                        *)
PackedKeepsLatest ==
    Packing /\ packed.ok =>
        /\ Sent[1] = DynamicContext
        /\ Latest[1].id \in Ids(Sent)
        /\ LET evident == {i \in DOMAIN Latest : Latest[i].evidence}
           IN  evident # {} =>
                 \E j \in DOMAIN Sent : Sent[j] = Latest[Max(evident)]

(* The least the latest turn can be shortened to: every text but the web    *)
(* results at its minimum, and of the web results only the protected one.   *)
LeastCost ==
    LET ms == <<DynamicContext>> \o Latest
        web == {i \in DOMAIN ms : ms[i].web}
        evident == {i \in web : ms[i].evidence}
        spared == IF evident # {} THEN {Max(evident)}
                  ELSE IF web # {} THEN {Max(web)} ELSE {}
        gone == {ms[i].call : i \in web \ spared}
        text(m) == IF m.kind = "system" \/ m.web THEN m.len
                   ELSE Min({m.len, Minimum(m)})
        cost(i) == IF \/ i \in web \ spared
                      \/ ms[i].calls # {} /\ ms[i].calls \subseteq gone
                         /\ ms[i].len = 0
                   THEN 0
                   ELSE text(ms[i]) + MessageOverhead
                        + CallOverhead * Cardinality(ms[i].calls \ gone)
    IN  FoldLeft(LAMBDA sum, i : sum + cost(i), 0, [i \in DOMAIN ms |-> i])

(* Packing gives up only when the latest turn cannot fit at all, and what   *)
(* it returns otherwise does fit.                                           *)
RefusedOnlyWhenHopeless ==
    Packing /\ packed.ended =>
        IF packed.ok THEN Estimate(Sent) <= packBudget ELSE LeastCost > packBudget

(* What is sent is a conversation the provider accepts, holds what the      *)
(* answer needs and fits its budget, or it cannot.                          *)
PackingIsSound == PackedKeepsProtocol /\ PackedKeepsLatest /\ RefusedOnlyWhenHopeless

============================================================================
