------------------------------ MODULE Ranking ------------------------------
(***************************************************************************)
(* What a search asks for, and what it makes of its matches                 *)
(* (api/internal/service/retrieval: query_plan.go, scoring.go,              *)
(* citations.go): two lists, from the vector store and from the words of    *)
(* the chunks, become a short list of evidence.                             *)
(*                                                                          *)
(* A fused score of 1 is Unit; fractions of it are rounded down.  A hit is  *)
(* a chunk with a score and its source; how well the question's words       *)
(* overlap a chunk (in percent), and which chunks begin alike, are given.   *)
(***************************************************************************)
EXTENDS Integers, Sequences, FiniteSets, SequencesExt, FiniteSetsExt

CONSTANTS
  Document, Chunk,
  DocOf, IndexOf,     \* a chunk's document and ChunkIndex
  SectionOf, LeadOf,  \* its section, the first 80 characters of its content
  Overlap, SectionOverlap, \* tokenOverlapScore of the question with it, with its section
  MaxSubQueries,
  TopK, Multiplier, CandidateLimit, Rerank,
  Threshold, Relative, MaxCitations, MaxPerDocument

Unit == 10000

ASSUME PolicyAssumption ==
  /\ DocOf \in [Chunk -> Document] /\ IndexOf \in [Chunk -> Nat]
  /\ Overlap \in [Chunk -> 0 .. 100] /\ SectionOverlap \in [Chunk -> 0 .. 100]
  /\ MaxSubQueries \in Nat \ {0}
  /\ TopK \in Nat \ {0} /\ Multiplier \in Nat \ {0} /\ CandidateLimit \in Nat \ {0}
  /\ Threshold \in 1 .. Unit /\ Relative \in 1 .. 100
  /\ MaxCitations \in Nat \ {0} /\ MaxPerDocument \in Nat \ {0}

\* Build numbers the chunks of a document (chunker.go, ChunkIndex).
ASSUME NumberingAssumption ==
  \A c1, c2 \in Chunk : DocOf[c1] = DocOf[c2] /\ IndexOf[c1] = IndexOf[c2] => c1 = c2

Least(m, n)    == IF m < n THEN m ELSE n
Greatest(m, n) == IF m > n THEN m ELSE n
Clamp(score)   == Greatest(0, Least(Unit, score))

CandidateTopK == Least(IF Rerank THEN TopK * Multiplier ELSE TopK, CandidateLimit)
CitationLimit == Least(TopK, MaxCitations)

-----------------------------------------------------------------------------
(* The queries *)

AppendUnique(queries, query) ==
  IF Contains(queries, query) THEN queries ELSE Append(queries, query)

\* A part of the question, unless there are enough.  The limit is looked at behind a part,
\* so that one part is always asked.
AskPart(plan, part) ==
  IF plan.full THEN plan
  ELSE LET queries == AppendUnique(plan.queries, part)
       IN  [queries |-> queries, full |-> Len(queries) >= MaxSubQueries]

\* buildQueryPlan: the rewritten question, then the parts of the original.
BuildQueryPlan(question) ==
  FoldLeft(AskPart, [queries |-> <<question.rewritten>>, full |-> FALSE],
           question.parts).queries

-----------------------------------------------------------------------------
(* Lists *)

\* A list in the order of its places.
PlaceOf(list, ahead, k) == 1 + Cardinality({j \in DOMAIN list \ {k} : <<j, k>> \in ahead})
Arranged(list, ahead) ==
  [n \in DOMAIN list |-> list[CHOOSE k \in DOMAIN list : PlaceOf(list, ahead, k) = n]]

\* sort.SliceStable
StableSort(list, Before(_, _)) ==
  Arranged(list, {p \in (DOMAIN list) \X (DOMAIN list) :
                    \/ Before(list[p[1]], list[p[2]])
                    \/ (p[1] < p[2] /\ ~Before(list[p[2]], list[p[1]]))})

Better(a, b) == a.score > b.score

\* Equal scores go by ChunkIndex.
BetterOrEarlier(a, b) ==
  a.score > b.score \/ (a.score = b.score /\ IndexOf[a.chunk] < IndexOf[b.chunk])

Listed(list)    == {list[n].chunk : n \in DOMAIN list}
ScoresOf(list)  == {list[n].score : n \in DOMAIN list}
HitOf(list, c)  == list[CHOOSE n \in DOMAIN list : list[n].chunk = c]

-----------------------------------------------------------------------------
(* Fusion *)

\* normalizeScores: the best of a list counts 1, the worst 0, a lone score 1.
Normalized(list) ==
  LET top == Max(ScoresOf(list))
      low == Min(ScoresOf(list))
  IN  [n \in DOMAIN list |-> [list[n] EXCEPT !.score =
        IF top = low THEN Unit ELSE ((@ - low) * Unit) \div (top - low)]]

AddUnlisted(primary, merged, hit) ==
  IF hit.chunk \in Listed(primary) THEN merged ELSE Append(merged, hit)

\* mergeChunks: whatever both lists found is lifted.
MergeChunks(primary, secondary) ==
  LET Hybrid(hit) ==
        [chunk |-> hit.chunk,
         score |-> Clamp(Greatest(hit.score, HitOf(secondary, hit.chunk).score) + Unit \div 10),
         source |-> "hybrid"]
      Lifted == [n \in DOMAIN primary |->
                   IF primary[n].chunk \in Listed(secondary)
                   THEN Hybrid(primary[n]) ELSE primary[n]]
  IN  FoldLeft(LAMBDA merged, hit : AddUnlisted(primary, merged, hit), Lifted, secondary)

\* Faulty: the first of the list, in whatever order they came.
FirstCandidates(list) == SubSeq(list, 1, Least(Len(list), CandidateTopK))

\* limitCandidates
LimitCandidates(list) ==
  IF Len(list) <= CandidateTopK THEN list
  ELSE SubSeq(StableSort(list, Better), 1, CandidateTopK)

\* rerankChunks
RerankChunks(list) ==
  LET Percent(hit) == Overlap[hit.chunk] * 50 + SectionOverlap[hit.chunk] * 15
                      + (IF hit.source = "keyword" THEN 500 ELSE 0)
      Scored(hit) == [hit EXCEPT !.score =
        Clamp((@ * 30) \div 100 + (Percent(hit) * Unit) \div 10000)]
  IN  StableSort([n \in DOMAIN list |-> Scored(list[n])], BetterOrEarlier)

-----------------------------------------------------------------------------
(* Citations *)

\* dedupeSignature
Signature(c) == <<DocOf[c], SectionOf[c], LeadOf[c]>>

MinScore(best) == Greatest(Threshold, (best * Relative) \div 100)

\* One turn of trimEffectiveChunks's loop.
Keep(kept, hit, least) ==
  IF \/ Len(kept) >= CitationLimit \/ hit.score < least
     \/ Cardinality({n \in DOMAIN kept : DocOf[kept[n].chunk] = DocOf[hit.chunk]})
          >= MaxPerDocument
     \/ \E n \in DOMAIN kept : Signature(kept[n].chunk) = Signature(hit.chunk)
  THEN kept ELSE Append(kept, hit)

\* An entry of the evidence: the chunks whose contents it strings together, in this order.
Entry(hit) == [chunks |-> <<hit.chunk>>, index |-> IndexOf[hit.chunk], score |-> hit.score]

\* Faulty: the sections of the document are not told apart.
AdjoinsAnySection(entry, c) ==
  /\ DocOf[Head(entry.chunks)] = DocOf[c]
  /\ IndexOf[c] \in {entry.index - 1, entry.index + 1}

\* adjacentChunkIndex's condition
Adjoins(entry, c) ==
  /\ DocOf[Head(entry.chunks)] = DocOf[c] /\ SectionOf[Head(entry.chunks)] = SectionOf[c]
  /\ IndexOf[c] \in {entry.index - 1, entry.index + 1}

Absorb(entry, hit) ==
  IF IndexOf[hit.chunk] < entry.index
  THEN [chunks |-> <<hit.chunk>> \o entry.chunks, index |-> IndexOf[hit.chunk],
        score |-> Greatest(entry.score, hit.score)]
  ELSE [chunks |-> Append(entry.chunks, hit.chunk), index |-> entry.index,
        score |-> Greatest(entry.score, hit.score)]

\* One turn of mergeAdjacentChunks's loop.
Place(entries, hit) ==
  LET near == {n \in DOMAIN entries : Adjoins(entries[n], hit.chunk)}
  IN  IF near = {} THEN Append(entries, Entry(hit))
      ELSE [entries EXCEPT ![Min(near)] = Absorb(@, hit)]

\* mergeAdjacentChunks
MergeAdjacent(list) == FoldLeft(Place, <<>>, list)

\* The loop of trimEffectiveChunks
Kept(sorted, least) == FoldLeft(LAMBDA kept, hit : Keep(kept, hit, least), <<>>, sorted)

\* trimEffectiveChunks
TrimEffective(list) ==
  LET sorted == StableSort(list, BetterOrEarlier)
  IN  IF list = <<>> THEN <<>>
      ELSE MergeAdjacent(Kept(sorted, MinScore(sorted[1].score)))

Candidates(keywords, matches) ==
  LimitCandidates(MergeChunks(Normalized(keywords), Normalized(matches)))

\* The end of SearchWithOptions.
Evidence(keywords, matches) ==
  LET candidates == Candidates(keywords, matches)
  IN  TrimEffective(IF Rerank THEN RerankChunks(candidates) ELSE candidates)

-----------------------------------------------------------------------------
(* What its readers rely on *)

\* A citation shows text as it stands in the document: chunks of one section that follow
\* one another.
Contiguous(entry) ==
  /\ entry.index = IndexOf[Head(entry.chunks)]
  /\ \A n \in DOMAIN entry.chunks :
       /\ DocOf[entry.chunks[n]] = DocOf[Head(entry.chunks)]
       /\ SectionOf[entry.chunks[n]] = SectionOf[Head(entry.chunks)]
       /\ IndexOf[entry.chunks[n]] = entry.index + n - 1

Cited(evidence) == UNION {ToSet(evidence[n].chunks) : n \in DOMAIN evidence}

\* The evidence keeps to the policy: no more citations than asked for, no more of a
\* document than allowed, nothing twice.
WithinPolicy(evidence) ==
  /\ Len(evidence) <= CitationLimit
  /\ \A d \in Document : Cardinality({c \in Cited(evidence) : DocOf[c] = d}) <= MaxPerDocument
  /\ \A m, n \in DOMAIN evidence : m # n =>
       ToSet(evidence[m].chunks) \cap ToSet(evidence[n].chunks) = {}
  /\ \A c1, c2 \in Cited(evidence) : Signature(c1) = Signature(c2) => c1 = c2
=============================================================================
