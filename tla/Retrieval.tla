------------------------------- MODULE Retrieval -------------------------------
(***************************************************************************)
(* src/retrieval and src/rerank: one retrieve.  The sparse and the dense   *)
(* search each rank capabilities, the ranks are fused, and what is left is *)
(* reranked.                                                               *)
(*                                                                         *)
(* What a text scores against a query is part of the question: a BM25      *)
(* score per capability, a cosine per embedded section, a lexical score    *)
(* per hit.  Which section of a capability is shown, and the latency, are  *)
(* left out.  How the corpus and the embeddings come about is in Corpus.   *)
(***************************************************************************)
EXTENDS Catalog, Sequences

CONSTANTS Queries,  \* what retrieve may be asked, over which corpus
          Scale     \* a whole number that every rank's share is a whole part of

Sources == {"sparse", "dense"}

ASSUME RetrievalAssumption ==
    /\ Scale \in Nat \ {0}
    /\ \A rank \in 1 .. Cardinality(Ids) : (Scale \div (60 + rank)) * (60 + rank) = Scale
    /\ \A q \in Queries :
         /\ q.records \subseteq Ids /\ q.topK \in Nat /\ q.requested \subseteq Sources
         /\ q.bm25 \in [Ids -> Nat] /\ q.lexical \in [Ids -> Nat]
         /\ q.rows \in Seq([capability : Ids, section : Nat, cosine : Int])
         /\ {q.empty, q.enabled, q.key, q.rerank} \subseteq BOOLEAN
         /\ q.provider \in {"local", "openai"}

VARIABLES retrieving,   \* "idle", the step that is next, "answered" or "thrown"
          query,
          ranked,       \* per source, the capabilities it found, the best first
          hits,         \* the capabilities of the result
          reranked

retrievalVars == <<retrieving, query, ranked, hits, reranked>>

(* Sorting by a score, the highest first, and by id where it is the same.   *)
Precedes(score, c, d) == score[c] > score[d] \/ (score[c] = score[d] /\ c < d)

RankedBy(S, score) ==
    [n \in 1 .. Cardinality(S) |->
       CHOOSE c \in S : Cardinality({d \in S : Precedes(score, d, c)}) = n - 1]

First(s, n) == SubSeq(s, 1, IF Len(s) < n THEN Len(s) ELSE n)

(* Each search may give three times as many as are wanted.                  *)
Pool == 3 * query.topK

RetrievalInit ==
    /\ retrieving = "idle" /\ query = <<>> /\ hits = <<>> /\ reranked = FALSE
    /\ ranked = [s \in Sources |-> <<>>]

(* retrieve, without records.                                               *)
Retrieve ==
    /\ retrieving = "idle"
    /\ \E q \in Queries :
         /\ query' = q
         /\ retrieving' = IF q.records = {} THEN "answered" ELSE "sparse"
    /\ UNCHANGED <<ranked, hits, reranked>>

(* Bm25Index.search: those that any term of the query matches.              *)
SearchSparse ==
    /\ retrieving = "sparse" /\ retrieving' = "dense"
    /\ LET matched == {c \in query.records : query.bm25[c] > 0} IN
         ranked' = IF "sparse" \in query.requested /\ ~query.empty
                   THEN [ranked EXCEPT !["sparse"] = First(RankedBy(matched, query.bm25), Pool)]
                   ELSE ranked
    /\ UNCHANGED <<query, hits, reranked>>

(* resolveEmbeddingProvider: an API that can be constructed, or the local.  *)
Providers == {"local"} \cup IF query.provider = "openai" /\ query.key THEN {"openai"} ELSE {}

(* denseSearch: the sections that point the query's way, summed up per      *)
(* capability, of all rows, also those whose record is gone.                *)
Similarity ==
    LET sums[n \in 0 .. Len(query.rows)] ==
          IF n = 0 THEN [c \in Ids |-> 0]
          ELSE LET r == query.rows[n] IN
               [c \in Ids |-> IF c = r.capability /\ r.cosine > 0
                               THEN sums[n-1][c] + r.cosine ELSE sums[n-1][c]]
    IN  sums[Len(query.rows)]

SearchDense ==
    /\ retrieving = "dense"
    /\ IF "dense" \in query.requested /\ query.enabled /\ query.rows # <<>> /\ ~query.empty
       THEN \E p \in Providers :
              \/ /\ retrieving' = "fuse"
                 /\ ranked' = [ranked EXCEPT !["dense"] =
                      First(RankedBy({c \in Ids : Similarity[c] > 0}, Similarity), Pool)]
              \/ p = "openai" /\ retrieving' = "thrown" /\ UNCHANGED ranked
       ELSE retrieving' = "fuse" /\ UNCHANGED ranked
    /\ UNCHANGED <<query, hits, reranked>>

(* rrfFuse: 1 / (60 + rank), summed up over the lists, in parts of Scale.   *)
Share(s, c) ==
    LET at == {i \in DOMAIN ranked[s] : ranked[s][i] = c} IN
    IF at = {} THEN 0 ELSE Scale \div (60 + Least(at))

(* A fault: a later list's share replaces an earlier one's.                 *)
FusedByLast ==
    [c \in Ids |-> IF Share("dense", c) > 0 THEN Share("dense", c) ELSE Share("sparse", c)]

Fused == [c \in Ids |-> Share("sparse", c) + Share("dense", c)]

Fuse ==
    /\ retrieving = "fuse" /\ retrieving' = "rerank"
    /\ LET found == Elems(ranked["sparse"]) \cup Elems(ranked["dense"]) IN
         hits' = First(RankedBy(found, Fused), query.topK)
    /\ UNCHANGED <<query, ranked, reranked>>

(* LexicalReranker.rerank sorts by its score and by the rank before; of     *)
(* one hit there is nothing to sort.                                        *)
Rerank ==
    /\ retrieving = "rerank" /\ retrieving' = "answered"
    /\ IF query.rerank /\ Len(hits) > 1 /\ ~query.empty
       THEN /\ hits' = LET lexical == [i \in DOMAIN hits |-> query.lexical[hits[i]]]
                           order == RankedBy(DOMAIN hits, lexical)
                       IN  [n \in DOMAIN hits |-> hits[order[n]]]
            /\ reranked' = TRUE
       ELSE UNCHANGED <<hits, reranked>>
    /\ UNCHANGED <<query, ranked>>

RetrievalStep == SearchSparse \/ SearchDense \/ Fuse \/ Rerank
RetrievalNext == Retrieve \/ RetrievalStep

RetrievalSpec == RetrievalInit /\ [][RetrievalNext]_retrievalVars

-----------------------------------------------------------------------------
(* a is before b in every list that has b, and some list has it.            *)
Outranks(a, b) ==
    /\ \E s \in Sources : b \in Elems(ranked[s])
    /\ \A s \in Sources : \A i \in DOMAIN ranked[s] :
         ranked[s][i] = b => \E j \in 1 .. i - 1 : ranked[s][j] = a

PlaceOf(c) == CHOOSE i \in DOMAIN hits : hits[i] = c

(* However the lists differ and are cut off, fusing them respects what they *)
(* agree on: the answer has as many hits as were asked for, or all that     *)
(* were found, once each; what one list ranks higher and no list lower is   *)
(* not left out for the other, and comes first unless the reranker scores   *)
(* it lower (retrieval/index.ts:44-114, fusion.ts:19-58, lexical.ts:45-56). *)
FusionRespectsTheLists ==
    (retrieving = "answered" /\ query.records # {}) =>
      LET found == Elems(ranked["sparse"]) \cup Elems(ranked["dense"]) IN
      /\ Elems(hits) \subseteq found
      /\ Cardinality(Elems(hits)) = Len(hits)
      /\ Len(hits) = IF Cardinality(found) < query.topK THEN Cardinality(found) ELSE query.topK
      /\ \A a, b \in found : (Outranks(a, b) /\ b \in Elems(hits)) =>
           /\ a \in Elems(hits)
           /\ \/ PlaceOf(a) < PlaceOf(b)
              \/ reranked /\ query.lexical[a] < query.lexical[b]
      /\ reranked => \A i, j \in DOMAIN hits :
           query.lexical[hits[i]] > query.lexical[hits[j]] => i < j
=============================================================================
