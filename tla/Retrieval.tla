----------------------------- MODULE Retrieval -----------------------------
(***************************************************************************)
(* One document retrieval of the knowledge search, backend/rag/utils.py,    *)
(* backend/rag/reranking.py and backend/rag/evidence.py: the collections of *)
(* the catalog snapshot are searched one after the other, their hits are    *)
(* interleaved and freed of duplicates, leaves are merged twice into their  *)
(* parents, the candidates are reranked within payload limits, and the      *)
(* result is packed into the context of the answer.                         *)
(*                                                                          *)
(* A chunk is an identity with a parent and a size.  A hit's score is given *)
(* by its rank, on the scale of the search that found it.                   *)
(***************************************************************************)
EXTENDS Absence, Integers, Sequences, FiniteSets, SequencesExt

CONSTANTS Targets,       \* collections of the snapshot, a sequence
          Required,      \* the collections that must exist
          Leaves, Parent, \* leaf chunks, and the parent of each chunk or None
          Size,          \* characters of each chunk
          MaxRecall,     \* hits per collection (candidate_k)
          RetThreshold,     \* AUTO_MERGE_THRESHOLD
          TopK, CandidateLimit, DocumentLimit, TotalLimit, MinScore, \* rerank bounds
          Budget, Overhead, Separator   \* evidence budget, characters of "[n] " and of the separator

RetChunks == DOMAIN Parent
Parents == {Parent[c] : c \in RetChunks} \ {None}

ASSUME LimitsArePositive ==
  /\ TopK \in Nat \ {0} /\ CandidateLimit \in Nat \ {0} /\ DocumentLimit \in Nat \ {0}
  /\ TotalLimit \in Nat \ {0} /\ Budget \in Nat \ {0} /\ RetThreshold \in Nat \ {0}

VARIABLES stage,   \* "recall", "merge", "rerank", "pack", "done" or "failed"
          groups,  \* hits per searched collection
          docs,    \* the documents, as they pass the stages
          payload, \* characters sent for each rerank candidate
          how,     \* how the rerank ended: None, "reranked", "fallback", "disabled"
          pack     \* the evidence of the answer

retVars == <<stage, groups, docs, payload, how, pack>>

ids(ds) == [i \in DOMAIN ds |-> ds[i].id]
Larger(a, b) == IF a >= b THEN a ELSE b
Smaller(a, b) == IF a <= b THEN a ELSE b
RetTake(s, n) == SubSeq(s, 1, Smaller(n, Len(s)))

RetInit == /\ stage = "recall" /\ groups = <<>> /\ docs = <<>>
           /\ payload = <<>> /\ how = None /\ pack = None

----------------------------------------------------------------------------
(* Recall *)

(* Hybrid search scores by rank; dense search, the fallback for a collection *)
(* that does not support it, scores by similarity, on another scale.         *)
Scale(mode) == IF mode = "hybrid" THEN 0 ELSE MaxRecall
Hits(mode) ==
  {[i \in 1..Len(s) |-> [id |-> s[i], score |-> Scale(mode) + MaxRecall + 1 - i]] :
           s \in {q \in UNION {[1..n -> Leaves] : n \in 0..MaxRecall} : IsInjective(q)}}

Searching == stage = "recall" /\ Len(groups) < Len(Targets)

RecallTarget(hits) ==
  /\ Searching /\ groups' = Append(groups, hits)
  /\ UNCHANGED <<stage, docs, payload, how, pack>>

(* The collection does not exist. *)
RecallMissing ==
  /\ Searching
  /\ IF Targets[Len(groups) + 1] \in Required
     THEN stage' = "failed" /\ UNCHANGED groups
     ELSE UNCHANGED stage /\ groups' = Append(groups, None)
  /\ UNCHANGED <<docs, payload, how, pack>>

Present(gs) == SelectSeq(gs, LAMBDA g : g # None)

Interleaved(gs) ==
  LET rank(r) == SelectSeq([i \in DOMAIN gs |-> IF r <= Len(gs[i]) THEN gs[i][r] ELSE None],
                           LAMBDA d : d # None)
  IN FoldLeft(LAMBDA out, r : out \o rank(r), <<>>, [r \in 1..MaxRecall |-> r])

(* The position of the first document of a chunk, 0 if there is none.        *)
Slot(ds, c) == SelectInSeq(ds, LAMBDA d : d.id = c)

Dedupe(ds) ==
  FoldLeft(LAMBDA out, d :
             LET i == Slot(out, d.id)
             IN IF i = 0 THEN Append(out, d) ELSE [out EXCEPT ![i].score = Larger(@, d.score)],
           <<>>, ds)

RecallDone ==
  /\ stage = "recall" /\ Len(groups) = Len(Targets)
  /\ stage' = "merge"
  /\ docs' = Dedupe(Interleaved(Present(groups)))
  /\ UNCHANGED <<groups, payload, how, pack>>

----------------------------------------------------------------------------
(* Auto-merge.  found: the parents the store returns and whose scope matches *)
(* the one of all their children in the list.                                *)

Children(ds, p) == {i \in DOMAIN ds : Parent[ds[i].id] = p}
Mergeable(ds) == {p \in Parents : Cardinality(Children(ds, p)) >= RetThreshold}

MergeToParentBlind(ds, found) ==
  FoldLeft(LAMBDA out, d :
             LET p == Parent[d.id] i == Slot(out, p)
             IN IF p \notin Mergeable(ds) THEN Append(out, d)
                ELSE IF p \notin found THEN out
                ELSE IF i = 0 THEN Append(out, [id |-> p, score |-> d.score])
                ELSE [out EXCEPT ![i].score = Larger(@, d.score)],
           <<>>, ds)

MergeToParent(ds, found) ==
  LET here == Mergeable(ds) \cap found
  IN FoldLeft(LAMBDA out, d :
                LET p == Parent[d.id] i == Slot(out, p)
                IN IF p \notin here THEN Append(out, d)
                   ELSE IF i = 0 THEN Append(out, [id |-> p, score |-> d.score])
                   ELSE [out EXCEPT ![i].score = Larger(@, d.score)],
              <<>>, ds)

AutoMerge(first, second) ==
  /\ stage = "merge" /\ stage' = "rerank"
  /\ docs' = MergeToParent(MergeToParent(docs, first), second)
  /\ UNCHANGED <<groups, payload, how, pack>>

(* The embedding, a collection or the parent store fails for good. *)
ProviderFails ==
  /\ stage \in {"recall", "merge"} /\ stage' = "failed"
  /\ UNCHANGED <<groups, docs, payload, how, pack>>

----------------------------------------------------------------------------
(* Rerank *)

Payload(ds) ==
  FoldLeft(LAMBDA out, d :
             LET used == FoldLeft(LAMBDA a, b : a + b, 0, out)
             IN IF used >= TotalLimit THEN out
                ELSE Append(out, Smaller(Smaller(Size[d.id], DocumentLimit), TotalLimit - used)),
           <<>>, RetTake(ds, CandidateLimit))

(* What a provider may answer: distinct candidates, at most top_n, scored.   *)
Rankings(n) ==
  UNION {{r \in [1..k -> (1..n) \X {0, MinScore}] : IsInjective([i \in 1..k |-> r[i][1]])} :
           k \in 1..Smaller(TopK, n)}

Materialized(ds, ranking) == [i \in DOMAIN ranking |-> [id |-> ds[ranking[i][1]].id, score |-> ranking[i][2]]]
AboveMinScore(ds) == SelectSeq(ds, LAMBDA d : d.score >= MinScore)

Rerank(ranking) ==
  /\ stage = "rerank" /\ stage' = "pack"
  /\ how' = "reranked" /\ payload' = Payload(docs)
  /\ docs' = AboveMinScore(Materialized(docs, ranking))
  /\ UNCHANGED <<groups, pack>>

Fallback == RetTake(docs, TopK)

(* No candidates, a disabled reranker (nothing is sent) or a provider error: *)
(* the first documents in recall order.                                      *)
RerankFallback ==
  /\ stage = "rerank" /\ stage' = "pack"
  /\ how' = "fallback" /\ docs' = Fallback
  /\ payload' \in {<<>>, Payload(docs)}
  /\ UNCHANGED <<groups, pack>>

----------------------------------------------------------------------------
(* pack_evidence.  A pack is the chosen documents, the characters used and   *)
(* whether the only document had to be cut.                                  *)

Needs(out, d) == Overhead + Size[d.id] + (IF out.docs = <<>> THEN 0 ELSE Separator)

RetPack(ds) ==
  LET fill == FoldLeft(LAMBDA out, d :
                         IF out.used + Needs(out, d) > Budget THEN out
                         ELSE [out EXCEPT !.docs = Append(@, d), !.used = @ + Needs(out, d)],
                       [docs |-> <<>>, used |-> 0, cut |-> FALSE], ds)
  IN IF fill.docs # <<>> \/ ds = <<>> THEN fill
     ELSE [docs |-> <<ds[1]>>, used |-> Budget, cut |-> TRUE]

PackEvidence ==
  /\ stage = "pack" /\ stage' = "done"
  /\ pack' = RetPack(docs)
  /\ UNCHANGED <<groups, docs, payload, how>>

RetNext ==
  \/ \E mode \in {"hybrid", "dense"} : \E hits \in Hits(mode) : RecallTarget(hits)
  \/ RecallMissing
  \/ RecallDone
  \/ \E first \in SUBSET Parents, second \in SUBSET Parents : AutoMerge(first, second)
  \/ ProviderFails
  \/ stage = "rerank" /\ docs # <<>> /\ \E r \in Rankings(Len(Payload(docs))) : Rerank(r)
  \/ RerankFallback
  \/ PackEvidence

RetSpec == RetInit /\ [][RetNext]_retVars

----------------------------------------------------------------------------
(* Properties *)

Recalled == Dedupe(Interleaved(Present(groups)))

Documents == [id : RetChunks, score : 0..(2 * MaxRecall + MinScore)]

(* The stages pass documents on as the code types them; the result has at    *)
(* most top_k documents once it was ranked.                                  *)
RetrievalTypeOK ==
  /\ stage \in {"recall", "merge", "rerank", "pack", "done", "failed"}
  /\ docs \in Seq(Documents)
  /\ stage \in {"pack", "done"} => Len(docs) <= TopK /\ how \in {"reranked", "fallback"}

RECURSIVE Covers(_, _)
Covers(c, leaf) == leaf # None /\ (c = leaf \/ Covers(c, Parent[leaf]))
CoveredBy(d) == {i \in DOMAIN Recalled : Covers(d.id, Recalled[i].id)}

(* Merging loses nothing and repeats nothing: every recalled leaf is covered *)
(* by exactly one candidate, itself or an ancestor.                          *)
EachLeafOnce ==
  stage = "rerank" =>
    \A i \in DOMAIN Recalled : Cardinality({j \in DOMAIN docs : i \in CoveredBy(docs[j])}) = 1

(* A candidate ranks by its best leaf: its score is the best score of any    *)
(* hit it covers, in any collection.                                         *)
ScoreIsBest ==
  stage = "rerank" =>
    \A d \in Range(docs) :
      LET scores == {h.score : h \in {x \in UNION {Range(g) : g \in Range(Present(groups))} : Covers(d.id, x.id)}}
      IN d.score \in scores /\ \A s \in scores : s <= d.score

(* Merging keeps the order: a candidate stands where its first leaf stood.   *)
OrderKept ==
  stage = "rerank" =>
    \A j, k \in DOMAIN docs : j < k =>
      \E x \in CoveredBy(docs[j]) : \A y \in CoveredBy(docs[k]) : x < y

(* An empty result is never the trace of a fault: nothing was recalled, or   *)
(* the reranker itself scored every document below the threshold.            *)
EmptyIsHonest ==
  stage = "done" /\ docs = <<>> => Recalled = <<>> \/ how = "reranked"

(* The evidence fits its budget, and a document is cut only if none fits     *)
(* whole.                                                                    *)
PackFits ==
  stage = "done" =>
    /\ pack.used <= Budget
    /\ pack.cut => \A d \in Range(docs) : Overhead + Size[d.id] > Budget
    /\ docs # <<>> => pack.docs # <<>>

(* No document is left out that would still fit behind the chosen ones.      *)
PackIsFull ==
  stage = "done" /\ ~pack.cut =>
    \A d \in Range(docs) \ Range(pack.docs) : pack.used + Needs(pack, d) > Budget

(* What the answer is written from: every recalled leaf once, ranked by its  *)
(* best hit and in recall order, as much of it as fits, and empty only       *)
(* without a fault.                                                          *)
EvidenceIsExact == RetrievalTypeOK /\ EachLeafOnce /\ ScoreIsBest /\ OrderKept /\ EmptyIsHonest /\ PackFits /\ PackIsFull
=============================================================================
