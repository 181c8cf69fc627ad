-------------------------------- MODULE Tools --------------------------------
(***************************************************************************)
(* The knowledge tools the API offers the agent                             *)
(* (api/internal/transport/internaltools, service/retrieval,                *)
(* service/knowledge): search, overview and navigation of one knowledge     *)
(* base.  A call reads PostgreSQL and Milvus several times, without a       *)
(* transaction, while the pipeline adds and deletes documents; the reads    *)
(* are its steps.                                                           *)
(*                                                                          *)
(* Of the pipeline only its order is kept: chunks, vectors, the indexed     *)
(* status, and a deletion at any time, after which a late embedding stage   *)
(* may still store the vectors.                                             *)
(***************************************************************************)
EXTENDS Ranking

CONSTANTS
  Own,           \* the documents of the knowledge base asked about
  Query,         \* a query's text
  Questions,     \* what may be asked: the rewritten question and the original's parts
  Similarities,  \* what Milvus may answer: for every query the chunks' scores, 0 for none
  Wordings,      \* what keywordScore may find in the chunks
  PageSize,      \* 200: the documents an overview or a navigation lists
  OverviewLimit, \* 5
  NavigationLimit \* 6

ASSUME KnowledgeAssumption ==
  /\ Own \subseteq Document /\ IsFiniteSet(Document) /\ IsFiniteSet(Chunk)
  /\ Questions \subseteq [rewritten : Query, parts : Seq(Query)]
  /\ Similarities \subseteq [Query -> [Chunk -> 0 .. Unit]]
  /\ Wordings \subseteq [Chunk -> Nat]
  /\ PageSize \in Nat \ {0} /\ OverviewLimit \in Nat \ {0} /\ NavigationLimit \in Nat \ {0}

VARIABLES
  phase,    \* document -> what its row says, as in DocLifecycle
  rows,     \* chunks in document_chunks
  vectors,  \* chunks with a vector in Milvus
  similar,  \* the scores Milvus finds
  wording,  \* the scores of the question's words
  call,     \* the call: tool, program counter, what its reads have brought so far
  began     \* documents deleted, and ready, when it began

store == <<phase, rows, vectors>>
vars  == <<store, similar, wording, call, began>>

ChunksOf(d)  == {c \in Chunk : DocOf[c] = d}
Gone         == {d \in Document : phase[d] = "gone"}
Ready        == {d \in Own : phase[d] = "ready"}
KnowledgeTools == {"search", "overview", "navigation"}

NoAnswer == [evidence |-> <<>>, total |-> 0, covered |-> {}]
Idle == [tool |-> "none", pc |-> "idle", queries |-> <<>>, hits |-> {},
         matches |-> <<>>, scored |-> <<>>, keywords |-> <<>>, documents |-> {},
         answer |-> NoAnswer]

Init ==
  /\ phase \in [Document -> {"processing", "ready", "gone"}]
  /\ \A d \in Document \ Own : phase[d] = "ready"
  /\ rows = {c \in Chunk : phase[DocOf[c]] = "ready"}
  /\ vectors \in {{c \in Chunk : phase[DocOf[c]] = "ready"},
                  {c \in Chunk : phase[DocOf[c]] # "processing"}}
  /\ similar \in Similarities
  /\ wording \in Wordings
  /\ call = Idle
  /\ began = [gone |-> {}, ready |-> {}]

-----------------------------------------------------------------------------
(* The pipeline beside it *)

\* The chunking stage stores the rows.
StoreRows(d) ==
  /\ phase[d] = "processing"
  /\ rows' = rows \cup ChunksOf(d)
  /\ UNCHANGED <<phase, vectors>>

\* The embedding stage stores the vectors, at times too late.
StoreVectors(d) ==
  /\ phase[d] # "ready"
  /\ vectors' = vectors \cup ChunksOf(d)
  /\ UNCHANGED <<phase, rows>>

\* ... and marks the document as indexed.
IndexDocument(d) ==
  /\ phase[d] = "processing"
  /\ ChunksOf(d) \subseteq rows \cap vectors
  /\ phase' = [phase EXCEPT ![d] = "ready"]
  /\ UNCHANGED <<rows, vectors>>

RequestDelete(d) ==
  /\ phase[d] \in {"processing", "ready"}
  /\ phase' = [phase EXCEPT ![d] = "deleting"]
  /\ UNCHANGED <<rows, vectors>>

\* The delete stage: first the vectors,
DeleteVectors(d) ==
  /\ phase[d] = "deleting"
  /\ vectors' = vectors \ ChunksOf(d)
  /\ UNCHANGED <<phase, rows>>

\* then the row and the chunks, in one transaction.
CompleteDelete(d) ==
  /\ phase[d] = "deleting"
  /\ phase' = [phase EXCEPT ![d] = "gone"]
  /\ rows' = rows \ ChunksOf(d)
  /\ UNCHANGED vectors

\* Bound: the pipeline is followed until the call is over.
Pipeline(d) ==
  /\ call.pc \notin {"answered", "failed"}
  /\ \/ StoreRows(d) \/ StoreVectors(d) \/ IndexDocument(d)
     \/ RequestDelete(d) \/ DeleteVectors(d) \/ CompleteDelete(d)
  /\ UNCHANGED <<similar, wording, call, began>>

-----------------------------------------------------------------------------
(* A call *)

At(step)    == call.pc = step
Reading     == UNCHANGED <<store, similar, wording, began>>
Answer(a)   == call' = [call EXCEPT !.pc = "answered", !.answer = a]

\* authorize, decodeRequest and validateContext let it in.
Receive(tool) ==
  /\ At("idle")
  /\ call' = [call EXCEPT !.tool = tool,
                          !.pc = IF tool = "navigation" THEN "list" ELSE "subject"]
  /\ began' = [gone |-> Gone, ready |-> Ready]
  /\ UNCHANGED <<store, similar, wording>>

\* ExistsAccessible or GetAccessibleByID finds the knowledge base.
FindSubject ==
  /\ At("subject")
  /\ call' = [call EXCEPT !.pc = IF call.tool = "search" THEN "embed" ELSE "list"]
  /\ Reading

\* All queries of the plan are embedded, or the call fails.
EmbedQueries ==
  /\ At("embed")
  /\ \E question \in Questions :
       call' = [call EXCEPT !.queries = BuildQueryPlan(question), !.pc = "vector"]
  /\ Reading

\* Any read may fail, and the call of the embedding provider; the tool then answers 422.
Fail ==
  /\ call.pc \notin {"idle", "answered", "failed"}
  /\ call' = [Idle EXCEPT !.tool = call.tool, !.pc = "failed"]
  /\ Reading

\* What Milvus returns to one query: the best of the knowledge base's vectors.
IsSearchResult(found, query) ==
  LET scores  == similar[query]
      matching == {c \in vectors : DocOf[c] \in Own /\ scores[c] > 0}
  IN  /\ found \subseteq matching
      /\ Cardinality(found) = Least(CandidateTopK, Cardinality(matching))
      /\ \A c \in found, other \in matching \ found : scores[c] >= scores[other]

Chunks(hits) == {hit.chunk : hit \in hits}

ScoreIn(hits, c) ==
  IF c \in Chunks(hits) THEN (CHOOSE hit \in hits : hit.chunk = c).score ELSE 0

\* The next of the plan's queries; a chunk keeps its best score.
SearchVectors ==
  /\ At("vector") /\ call.queries # <<>>
  /\ \E found \in SUBSET vectors :
       LET scores == similar[Head(call.queries)]
           New(c) == IF c \in found THEN scores[c] ELSE 0
       IN  /\ IsSearchResult(found, Head(call.queries))
           /\ call' = [call EXCEPT
                 !.queries = Tail(@),
                 !.hits = {[chunk |-> c, score |-> Greatest(ScoreIn(@, c), New(c)),
                            source |-> "vector"] : c \in Chunks(@) \cup found}]
  /\ Reading

\* What is below the similarity threshold is dropped.
DropDistant ==
  /\ At("vector") /\ call.queries = <<>>
  /\ call' = [call EXCEPT !.hits = {hit \in @ : hit.score >= Threshold},
                          !.pc = "documents"]
  /\ Reading

\* Faulty: a match is taken without its document.
TakeUnseen(list, hit) == Append(list, hit)

\* GetByID knows only documents that are not deleted; others are passed over.
TakeIfThere(list, hit) ==
  IF phase[DocOf[hit.chunk]] = "gone" THEN list ELSE Append(list, hit)

\* The document of one of the matches, which are a map: in any order.
LookUpMatch ==
  /\ At("documents")
  /\ \E hit \in call.hits :
       call' = [call EXCEPT !.hits = @ \ {hit}, !.matches = TakeIfThere(@, hit)]
  /\ Reading

\* ListBySubject: ORDER BY chunk_index
Earlier(a, b) == IndexOf[a] < IndexOf[b]

\* keywordSearch: all chunks of the knowledge base, the best of them by their words.
SearchKeywords ==
  /\ At("documents") /\ call.hits = {}
  /\ LET found  == StableSort(SetToSeq({c \in rows : DocOf[c] \in Own /\ wording[c] > 0}),
                              Earlier)
         scored == StableSort([n \in DOMAIN found |-> [chunk |-> found[n],
                                 score |-> wording[found[n]], source |-> "keyword"]], Better)
     IN  call' = [call EXCEPT
           !.scored = SubSeq(scored, 1, Least(Len(scored), CandidateTopK)),
           !.pc = "names"]
  /\ Reading

LookUpKeyword ==
  /\ At("names") /\ call.scored # <<>>
  /\ call' = [call EXCEPT !.scored = Tail(@),
                          !.keywords = TakeIfThere(@, Head(call.scored))]
  /\ Reading

Rank ==
  /\ At("names") /\ call.scored = <<>>
  /\ Answer([evidence |-> Evidence(call.keywords, call.matches), total |-> 0, covered |-> {}])
  /\ Reading

\* Faulty: a page is one short.
IsShortPage(page) ==
  page \subseteq Ready /\ Cardinality(page) = Least(PageSize - 1, Cardinality(Ready))

\* ListByUser: the newest of the indexed documents, whichever they are.
IsPage(page) ==
  page \subseteq Ready /\ Cardinality(page) = Least(PageSize, Cardinality(Ready))

ListDocuments ==
  /\ At("list")
  /\ \E page \in SUBSET Ready :
       /\ IsPage(page)
       /\ IF page = {} THEN Answer(NoAnswer)
          ELSE call' = [call EXCEPT !.documents = page, !.pc = "chunks"]
  /\ Reading

Described == {d \in call.documents : ChunksOf(d) \cap rows # {}}

\* One chunk each of up to limit documents, in the order of the list.
Representatives(documents, limit) ==
  {evidence \in UNION {[1 .. n -> rows] : n \in {Least(limit, Cardinality(documents))}} :
     /\ \A n \in DOMAIN evidence : DocOf[evidence[n]] \in documents
     /\ \A m, n \in DOMAIN evidence : m # n => DocOf[evidence[m]] # DocOf[evidence[n]]}

\* ListBySubject, and the overview: every listed document that has a chunk is described,
\* a few are cited.
Overview ==
  /\ At("chunks") /\ call.tool = "overview"
  /\ \E evidence \in Representatives(Described, OverviewLimit) :
       Answer([evidence |-> [n \in DOMAIN evidence |-> Entry([chunk |-> evidence[n], score |-> 0])],
               total |-> Cardinality(call.documents), covered |-> Described])
  /\ Reading

\* The same for the documents one of whose chunks matches the topic.
Navigation ==
  /\ At("chunks") /\ call.tool = "navigation"
  /\ LET matching == {d \in Described : \E c \in ChunksOf(d) \cap rows : wording[c] > 0}
     IN  \E evidence \in Representatives(matching, NavigationLimit) :
           Answer([evidence |-> [n \in DOMAIN evidence |-> Entry([chunk |-> evidence[n], score |-> 0])],
                   total |-> 0, covered |-> matching])
  /\ Reading

Step ==
  \/ \E tool \in KnowledgeTools : Receive(tool)
  \/ FindSubject \/ Fail
  \/ EmbedQueries \/ SearchVectors \/ DropDistant \/ LookUpMatch \/ SearchKeywords \/ LookUpKeyword \/ Rank
  \/ ListDocuments \/ Overview \/ Navigation

Next == Step \/ \E d \in Own : Pipeline(d)

Spec == Init /\ [][Next]_vars

-----------------------------------------------------------------------------
(* Properties *)

Answered == call.pc = "answered"

\* knowledgeOverview's coverage: what lets the agent answer for the whole knowledge base.
Complete == call.answer.total > 0 /\ Cardinality(call.answer.covered) = call.answer.total

\* Nothing of a document that was deleted before the call is shown, nor anything of
\* another knowledge base, though its vectors may still be there and the reads of a call
\* are not of one moment (GetByID's filter, the listings' joins).
NothingDeletedIsShown ==
  Answered => \A c \in Cited(call.answer.evidence) :
    DocOf[c] \in Own /\ DocOf[c] \notin began.gone

\* An overview is complete only if it describes every document that was indexed when it
\* began and still is, provided they fit on a page (two reads that are not of one moment).
CompleteMeansAll ==
  Answered /\ call.tool = "overview" /\ Complete /\ Cardinality(Own) <= PageSize =>
    began.ready \cap Ready \subseteq call.answer.covered

\* A search's evidence keeps to its policy and shows text as it stands in the document.
EvidenceIsSound ==
  Answered /\ call.tool = "search" =>
    /\ WithinPolicy(call.answer.evidence)
    /\ \A n \in DOMAIN call.answer.evidence : Contiguous(call.answer.evidence[n])

AllDiffer(list) == Cardinality(ScoresOf(list)) = Len(list)

\* The matches are a Go map, iterated in any order: the evidence does not depend on it
\* where no two of the hits are equally good (each order is reached, so that it is enough
\* to exchange neighbours).
OrderIsIrrelevant ==
  Answered /\ call.tool = "search" /\ call.matches # <<>> =>
    LET merged   == MergeChunks(Normalized(call.keywords), Normalized(call.matches))
        Exchanged(k) == [call.matches EXCEPT ![k] = call.matches[k + 1], ![k + 1] = call.matches[k]]
    IN  AllDiffer(merged) /\ AllDiffer(RerankChunks(merged)) =>
          \A k \in 1 .. Len(call.matches) - 1 :
            Evidence(call.keywords, Exchanged(k)) = call.answer.evidence

=============================================================================
