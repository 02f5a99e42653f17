----------------------------- MODULE WebResearch -----------------------------
(***************************************************************************)
(* web_search and web_fetch of one Run (tools/web.py): parallel tool       *)
(* threads that share the process-wide WebResearchRuntime with its permits *)
(* (web_research/runtime.py) and the RunRequestContext with its source     *)
(* ledger and fetch budget, each of whose methods holds the context's      *)
(* lock.  Searches number the URLs they find S1, S2, ...; fetches and the  *)
(* answer refer to them by that number, and the text the Run streams while *)
(* the model speaks and the answer it publishes at the end are rendered    *)
(* with it (agent/runtime.py, TerminalResponseMiddleware).                 *)
(*                                                                         *)
(* Sizes are in abstract bytes.  What the search provider returns is one   *)
(* of HitLists, what an extraction takes as a tool result one of PageSizes.*)
(***************************************************************************)
EXTENDS Naturals, Sequences, FiniteSets, SequencesExt, FiniteSetsExt, Functions, Absence

CONSTANTS
  WebCalls,      \* tool calls
  HitLists,      \* sequences of hits [url, titled, size, valid]
  PageSizes,     \* tool results of untrimmed extractions
  WebSlots,      \* max_concurrency
  WebHits,       \* search_provider_max_results
  WebVisible,    \* model_visible_results
  SnippetMax,    \* per_source_max_bytes
  SnippetTotal,  \* total_snippet_max_bytes
  MaxSources,    \* _MAX_SOURCES
  Cited,         \* source numbers the model writes, known or made up
  FetchMax,      \* response_max_bytes
  FetchTotal,    \* run_total_max_bytes
  FetchFrame     \* a fetch result whose content is trimmed away

ASSUME WebBounds ==
  /\ WebSlots \in Nat \ {0} /\ FetchFrame \in Nat \ {0}
  /\ {WebHits, WebVisible, SnippetMax, SnippetTotal, MaxSources, FetchMax, FetchTotal} \subseteq Nat

VARIABLES
  web,        \* the tool calls
  webSlots,   \* free permits of the runtime
  webRuntime, \* new, started or closed
  webLate,    \* the calls whose deadline has passed
  webCancel,  \* the Run's cancellation probe
  webContext, \* the RunRequestContext: active, attempted, sources, claimed
  webStream   \* the text of the Run: buffering, what was streamed, the answer

webVars == <<web, webSlots, webRuntime, webLate, webCancel, webContext, webStream>>

IdleWeb == [pc |-> "idle", kind |-> None, hits |-> <<>>, url |-> None, id |-> 0,
            evidence |-> <<>>, cut |-> FALSE, size |-> 0, want |-> 0, shown |-> <<>>, end |-> None]

OpenContext == [active |-> TRUE, attempted |-> FALSE, sources |-> <<>>, claimed |-> 0]

WebInit ==
  /\ web = [c \in WebCalls |-> IdleWeb]
  /\ webSlots = WebSlots /\ webRuntime = "new"
  /\ webLate = {} /\ webCancel = FALSE
  /\ webContext = OpenContext
  /\ webStream = [buffered |-> FALSE, raw |-> {}, answer |-> None]

WebAt(c, pc) == web[c].pc = pc
WebPut(c, r) == web' = [web EXCEPT ![c] = r]
WebDone(c, e) == [web[c] EXCEPT !.pc = "done", !.end = e, !.want = 0]
WebDoneAll == \A c \in WebCalls : web[c].pc \in {"idle", "done"}

-----------------------------------------------------------------------------
(* The runtime's life, deadlines and cancellation.                           *)

WebStart == webRuntime = "new" /\ webRuntime' = "started"
            /\ UNCHANGED <<web, webSlots, webLate, webCancel, webContext, webStream>>

WebClose == webRuntime # "closed" /\ webRuntime' = "closed"
            /\ UNCHANGED <<web, webSlots, webLate, webCancel, webContext, webStream>>

WebDeadline(c) ==
  /\ web[c].pc \notin {"idle", "done"} /\ c \notin webLate
  /\ webLate' = webLate \cup {c}
  /\ UNCHANGED <<web, webSlots, webRuntime, webCancel, webContext, webStream>>

WebCancels ==
  /\ ~webCancel /\ webStream.answer = None /\ webCancel' = TRUE
  /\ UNCHANGED <<web, webSlots, webRuntime, webLate, webContext, webStream>>

\* _guard, in its order.
WebGuard(c) ==
  CASE webRuntime = "closed" -> "closed"
    [] webRuntime = "new"    -> "not_started"
    [] webCancel             -> "cancelled"
    [] c \in webLate         -> "deadline"
    [] OTHER                 -> None

-----------------------------------------------------------------------------
(* WebSourceLedger.  A source's id is its place in the sequence.             *)

WebUrlsOf(s) == {s[i].url : i \in DOMAIN s}
SourceId(s, u) == CHOOSE i \in DOMAIN s : s[i].url = u

\* One item of register_search_result: a new URL, or a title for an old one.
RegisterSource(s, e) ==
  IF e.url \notin WebUrlsOf(s) THEN Append(s, [url |-> e.url, titled |-> e.titled])
  ELSE [s EXCEPT ![SourceId(s, e.url)].titled = @ \/ e.titled]

Registered(s, evidence) == FoldLeft(RegisterSource, s, evidence)

\* The limit is looked at for the whole result, before anything is registered.
SourcesFit(evidence) ==
  LET s == webContext.sources IN Len(s) + Cardinality(WebUrlsOf(evidence) \ WebUrlsOf(s)) <= MaxSources

-----------------------------------------------------------------------------
(* Both tools up to the provider's answer.                                   *)

\* web_search: the attempt is marked before anything can fail.
BeginSearch(c) ==
  /\ WebAt(c, "idle") /\ webStream.answer = None /\ webRuntime # "new"
  /\ WebPut(c, [IdleWeb EXCEPT !.pc = "permit", !.kind = "search"])
  /\ webContext' = [webContext EXCEPT !.attempted = @ \/ webContext.active]
  /\ UNCHANGED <<webSlots, webRuntime, webLate, webCancel, webStream>>

\* web_fetch of source number i, which the model may have made up.
BeginFetch(c, i) ==
  /\ WebAt(c, "idle") /\ webStream.answer = None /\ webRuntime # "new"
  /\ LET known == webContext.active /\ i \in DOMAIN webContext.sources
     IN WebPut(c, IF known THEN [IdleWeb EXCEPT !.pc = "permit", !.kind = "fetch", !.id = i,
                                                !.url = webContext.sources[i].url]
                           ELSE [IdleWeb EXCEPT !.pc = "done", !.kind = "fetch", !.end = "not_found"])
  /\ webContext' = [webContext EXCEPT !.attempted = @ \/ webContext.active]
  /\ UNCHANGED <<webSlots, webRuntime, webLate, webCancel, webStream>>

\* _permit: the guard before every attempt of 50 ms to get a slot.
WebPermit(c) ==
  /\ WebAt(c, "permit")
  /\ \/ WebGuard(c) # None /\ WebPut(c, WebDone(c, WebGuard(c))) /\ UNCHANGED webSlots
     \/ /\ WebGuard(c) = None /\ webSlots > 0
        /\ WebPut(c, [web[c] EXCEPT !.pc = "begin"]) /\ webSlots' = webSlots - 1
  /\ UNCHANGED <<webRuntime, webLate, webCancel, webContext, webStream>>

\* The body's own guard; then the provider is asked.
WebAsk(c) ==
  /\ WebAt(c, "begin")
  /\ IF WebGuard(c) # None THEN WebPut(c, WebDone(c, WebGuard(c))) /\ webSlots' = webSlots + 1
     ELSE WebPut(c, [web[c] EXCEPT !.pc = "asking"]) /\ UNCHANGED webSlots
  /\ UNCHANGED <<webRuntime, webLate, webCancel, webContext, webStream>>

\* An error, a timeout, a status, a malformed or oversized body; the probe is looked
\* at again behind the answer.
WebProviderFails(c) ==
  /\ WebAt(c, "asking")
  /\ WebPut(c, WebDone(c, IF webCancel THEN "cancelled" ELSE "unavailable"))
  /\ webSlots' = webSlots + 1
  /\ UNCHANGED <<webRuntime, webLate, webCancel, webContext, webStream>>

-----------------------------------------------------------------------------
(* web_search behind the provider.                                           *)

\* A hit's size is that of its snippet, or of its title when it has no snippet.
IsEvidence(h) == h.valid /\ h.size > 0

Usable(hits, i) ==
  IsEvidence(hits[i]) /\ \A j \in 1 .. i - 1 : hits[j].url = hits[i].url => ~IsEvidence(hits[j])

\* The evidence of the hits, in their order: an empty one, one that is no evidence
\* and a second one for a URL are left out.
Evidence(hits) == LET kept == SelectSeq([i \in DOMAIN hits |-> i], LAMBDA i : Usable(hits, i))
                  IN [k \in DOMAIN kept |-> hits[kept[k]]]

LeftOut(hits) == Len(hits) > WebHits \/ Len(Evidence(hits)) < Len(hits)

\* The guard comes back for every hit, so a stop shows before the last one.
SearchAnswered(c, hits) ==
  /\ WebAt(c, "asking") /\ web[c].kind = "search" /\ ~webCancel
  /\ webSlots' = webSlots + 1
  /\ LET first == SubSeq(hits, 1, Min({WebHits, Len(hits)}))
     IN WebPut(c, IF WebGuard(c) # None /\ first # <<>> THEN WebDone(c, WebGuard(c))
                  ELSE [web[c] EXCEPT !.pc = "record", !.hits = hits,
                                      !.evidence = Evidence(first), !.cut = LeftOut(hits)])
  /\ UNCHANGED <<webRuntime, webLate, webCancel, webContext, webStream>>

\* What one more snippet may take (every character counts one byte here).
SnippetRoom(used) == Min({SnippetMax, SnippetTotal - used})

AddSnippet(sizes, e) ==
  LET used == SumFunction(sizes)
      room == SnippetRoom(used)
  IN Append(sizes, IF e.size <= room THEN e.size ELSE room)

\* _bounded_search_projection
Snippets(evidence) == FoldLeft(AddSnippet, <<>>, SubSeq(evidence, 1, Min({WebVisible, Len(evidence)})))

Projection(evidence, ids) ==
  LET sizes == Snippets(evidence)
  IN [i \in DOMAIN sizes |-> [id |-> ids[i], url |-> evidence[i].url, size |-> sizes[i]]]

ProjectionCuts(evidence) ==
  LET sizes == Snippets(evidence)
  IN Len(sizes) < Len(evidence) \/ \E i \in DOMAIN sizes : sizes[i] # evidence[i].size

\* record_web_search_result and what web_search makes of the ids: in a closed context
\* there are none, which fits an empty result only.
RecordSearch(c) ==
  LET evidence == web[c].evidence
      sources == Registered(webContext.sources, evidence)
      found(ids) == [WebDone(c, "found") EXCEPT !.shown = Projection(evidence, ids),
                                                !.cut = @ \/ ProjectionCuts(evidence)]
  IN /\ WebAt(c, "record")
     /\ CASE ~webContext.active ->
               WebPut(c, IF evidence = <<>> THEN found(<<>>) ELSE WebDone(c, "invalid_source_id"))
               /\ UNCHANGED webContext
          [] webContext.active /\ ~SourcesFit(evidence) ->
               WebPut(c, WebDone(c, "source_limit")) /\ webContext' = [webContext EXCEPT !.attempted = TRUE]
          [] OTHER ->
               /\ webContext' = [webContext EXCEPT !.attempted = TRUE, !.sources = sources]
               /\ WebPut(c, found([i \in DOMAIN evidence |-> SourceId(sources, evidence[i].url)]))
     /\ UNCHANGED <<webSlots, webRuntime, webLate, webCancel, webStream>>

-----------------------------------------------------------------------------
(* web_fetch behind the provider.                                            *)

\* The extracted chunks, or INVALID_CONTENT when none is left of them.
FetchAnswered(c, size) ==
  /\ WebAt(c, "asking") /\ web[c].kind = "fetch" /\ ~webCancel
  /\ webSlots' = webSlots + 1
  /\ WebPut(c, IF size = 0 THEN WebDone(c, "invalid_content")
               ELSE [web[c] EXCEPT !.pc = "fit", !.want = size])
  /\ UNCHANGED <<webRuntime, webLate, webCancel, webContext, webStream>>

\* _fit_fetch_tool_result: content is trimmed until the result fits, which takes
\* away a little more than needed; a result that never fits is 0.
Fitted(size, max) ==
  IF size <= max THEN {size} ELSE IF FetchFrame <= max THEN FetchFrame .. max ELSE {0}

Remaining == IF webContext.active THEN FetchTotal - webContext.claimed ELSE 0

\* remaining_web_fetch_result_budget, and the result built for it.
FitFetch(c) ==
  /\ WebAt(c, "fit")
  /\ \E n \in Fitted(web[c].want, Min({FetchMax, Remaining})) :
       WebPut(c, IF n = 0 THEN WebDone(c, "budget") ELSE [web[c] EXCEPT !.pc = "claim", !.size = n])
  /\ UNCHANGED <<webSlots, webRuntime, webLate, webCancel, webContext, webStream>>

\* Faulty variant of Granted: the budget is what it was when the result was built.
GrantedAsked(n) == n

\* claim_web_fetch_result_budget: by now less may be left than the result was built for.
Granted(n) == Min({n, Remaining})

Fetched(c, n) ==
  IF n = 0 THEN [WebDone(c, "budget") EXCEPT !.size = 0]
  ELSE [WebDone(c, "fetched") EXCEPT !.size = n, !.cut = n # web[c].want,
                                     !.shown = <<[id |-> web[c].id, url |-> web[c].url, size |-> n]>>]

ClaimFetch(c) ==
  LET granted == Granted(web[c].size)
  IN /\ WebAt(c, "claim")
     /\ webContext' = IF webContext.active THEN [webContext EXCEPT !.claimed = @ + granted] ELSE webContext
     /\ \E n \in IF granted = web[c].size THEN {granted} ELSE Fitted(web[c].want, granted) :
          WebPut(c, Fetched(c, n))
     /\ UNCHANGED <<webSlots, webRuntime, webLate, webCancel, webStream>>

-----------------------------------------------------------------------------
(* The Run's text.                                                           *)

Shown == UNION {{web[c].shown[i] : i \in DOMAIN web[c].shown} : c \in WebCalls}
ShownIds == {e.id : e \in Shown}

\* Faulty variant of Buffers: decided once, when the stream begins.
BuffersFromStart == webStream.buffered

\* _requires_terminal_buffering, which astream never takes back.  It also holds while
\* the web-research Skill is active; a Run without the Skill, modelled here, is the one
\* that may have streamed before it searches.
Buffers == webStream.buffered \/ (webContext.active /\ webContext.attempted)

\* The model speaks between its tool calls and may write any source number.
WebSpeaks(i) ==
  /\ webStream.answer = None /\ webContext.active /\ WebDoneAll
  /\ webStream' = [webStream EXCEPT !.buffered = Buffers,
                                    !.raw = IF Buffers THEN @ ELSE @ \cup {[id |-> i, seen |-> i \in ShownIds]}]
  /\ UNCHANGED <<web, webSlots, webRuntime, webLate, webCancel, webContext>>

\* WebSourceLedger.finalize: one unknown number and the answer is not published.
Rendered(ids) ==
  IF ids \subseteq DOMAIN webContext.sources
  THEN [links |-> {[id |-> i, url |-> webContext.sources[i].url] : i \in ids}, bare |-> {}]
  ELSE [links |-> {}, bare |-> {}]

\* TerminalResponseMiddleware._finish on an answer that cites ids; a Run that did not
\* use the web publishes its text as it is.
WebAnswer(ids) ==
  /\ webStream.answer = None /\ webContext.active /\ WebDoneAll
  /\ webStream' = [webStream EXCEPT !.answer =
                     IF webContext.attempted THEN Rendered(ids) ELSE [links |-> {}, bare |-> ids]]
  /\ UNCHANGED <<web, webSlots, webRuntime, webLate, webCancel, webContext>>

\* RunRequestContext.close, behind the answer, or behind a cancellation or a
\* deadline, when tool threads may still be at work.
WebContextClose ==
  /\ webContext.active
  /\ webStream.answer # None \/ webCancel \/ webLate # {}
  /\ webContext' = [OpenContext EXCEPT !.active = FALSE]
  /\ UNCHANGED <<web, webSlots, webRuntime, webLate, webCancel, webStream>>

-----------------------------------------------------------------------------
\* A step of a tool thread.
WebThread(c) ==
  \/ WebPermit(c) \/ WebAsk(c) \/ RecordSearch(c) \/ FitFetch(c) \/ ClaimFetch(c)

\* The provider answers or its timeout does.
WebProvider(c) ==
  \/ WebProviderFails(c)
  \/ \E hits \in HitLists : SearchAnswered(c, hits)
  \/ \E size \in PageSizes : FetchAnswered(c, size)

WebNext ==
  \/ WebStart \/ WebClose \/ WebCancels \/ WebContextClose
  \/ \E c \in WebCalls : \/ BeginSearch(c) \/ WebThread(c) \/ WebProvider(c) \/ WebDeadline(c)
                         \/ \E i \in Cited : BeginFetch(c, i)
  \/ \E i \in Cited : WebSpeaks(i)
  \/ \E ids \in SUBSET Cited : WebAnswer(ids)

WebSpec == WebInit /\ [][WebNext]_webVars

\* Threads run, the provider client's timeouts end its calls, deadlines come.
WebFairness ==
  \A c \in WebCalls : WF_webVars(WebThread(c)) /\ WF_webVars(WebProvider(c)) /\ WF_webVars(WebDeadline(c))

-----------------------------------------------------------------------------
(* Properties *)

WebEnds == {"found", "fetched", "not_found", "closed", "not_started", "cancelled", "deadline",
            "unavailable", "invalid_content", "invalid_source_id", "source_limit", "budget"}

\* Type invariant: what the calls and the context hold is what their code can hold.
WebTypeOK ==
  /\ \A c \in WebCalls : /\ web[c].end \in WebEnds \cup {None} /\ Len(web[c].evidence) <= WebHits
                          /\ (web[c].pc = "done") = (web[c].end # None)
  /\ webSlots \in 0 .. WebSlots
  /\ webContext.claimed \in Nat

\* Parallel fetches of a Run together stay within run_total_max_bytes, although each
\* builds its result for the budget it saw before the others claimed theirs
\* (_bounded_fetch_tool_result).
FetchBudgetHolds ==
  /\ SumFunction([c \in {d \in WebCalls : web[d].end = "fetched"} |-> web[c].size]) <= FetchTotal
  /\ \A c \in WebCalls : web[c].end = "fetched" => web[c].size \in 1 .. FetchMax

\* A number shown to the model means that URL for the rest of the Run, whatever is
\* searched in parallel, and no URL has two numbers (register_search_result).
ShownResolves ==
  /\ webContext.active => \A e \in Shown : e.id \in DOMAIN webContext.sources /\ webContext.sources[e.id].url = e.url
  /\ \A i, j \in DOMAIN webContext.sources : webContext.sources[i].url = webContext.sources[j].url => i = j

\* Text is streamed as it is only before the Run has used the web: a number the
\* model was shown never reaches the reader unrendered.
NoRawCitation == \A t \in webStream.raw : ~t.seen

\* The published answer of a Run that used the web cites what was found: every
\* number is a link to the URL registered for it, or the answer is withheld.
CitationsResolve ==
  webStream.answer # None /\ webContext.active /\ webContext.attempted =>
    /\ webStream.answer.bare = {}
    /\ \A l \in webStream.answer.links : webContext.sources[l.id].url = l.url

\* What the reader is shown cites what this Run found, although searches register
\* their sources in parallel with the model's text.
CitationsHold == WebTypeOK /\ ShownResolves /\ NoRawCitation /\ CitationsResolve

\* Every tool call ends: no waiter for a permit waits beyond its deadline, and calls
\* that outlive their Run's context end too.
WebCallsEnd == \A c \in WebCalls : web[c].pc # "idle" ~> web[c].pc = "done"
=============================================================================
