----------------------------- MODULE AgentGraph -----------------------------
(***************************************************************************)
(* One run in the agent process (agent/src/enterprise_agent/graph.py and    *)
(* api/routers/runs.py): the requests that drive it, the lock of the run,   *)
(* the slots shared with other runs, the graph's nodes, and the checkpoint. *)
(*                                                                          *)
(* A node is one action: it calls out, and what it returns is written to    *)
(* the channels in memory, `thread`; LangGraph stores them after each node  *)
(* without waiting, so the store's `checkpoint` may be behind while a       *)
(* request drives (OneDriver: there is one at most).  All requests of a run *)
(* carry its run_id, so those after the first go on from the checkpoint.    *)
(* The services it calls are external: they answer from small sets.         *)
(*                                                                          *)
(* Requests are numbered as they are sent.  The API sends one only when it  *)
(* has the answer to the last one or has given it up (see ChatRun), and     *)
(* requests of one run arrive in order.                                     *)
(***************************************************************************)
EXTENDS Naturals, Sequences, SequencesExt, Citations

CONSTANTS
  MaxRequests,   \* bound: requests of the run
  MaxSlots,      \* max_concurrent_runs
  MaxRewrites,   \* max_rewrite_attempts
  MaxCitations,  \* max_citations
  ChunkCounts, LinkCounts,  \* bound: how much a search may return
  Answers,       \* bound: what the model may write
  MaxCrashes     \* bound: restarts of the agent

ASSUME AgentBoundsAssumption ==
  /\ MaxRequests \in Nat /\ MaxSlots \in Nat \ {0}
  /\ MaxRewrites \in Nat /\ MaxCitations \in Nat \ {0} /\ MaxCrashes \in Nat
  /\ ChunkCounts \subseteq Nat /\ LinkCounts \subseteq Nat
  /\ Answers \subseteq Answer

VARIABLES
  req,        \* request -> program counter, streamed or not, what its client has, its lock
  registered, \* the lock in _run_locks, named by the request that made it, or 0
  free,       \* free slots
  others,     \* slots that requests of other runs hold
  webSearch,  \* the run's question asks for a web search
  thread,     \* channels of the run's thread in memory, and the node they are for
  checkpoint, \* the same as the store has them
  cleaned,    \* the API has had the checkpoint removed
  crashes

vars == <<req, registered, free, others, webSearch, thread, checkpoint, cleaned, crashes>>

Request == 1 .. MaxRequests
Routes  == {"rag", "overview", "navigation"}
Nodes   == {"route", "retrieve", "overview", "navigation", "web_search", "evaluate",
            "rewrite", "synthesize", "validate", "refuse"}
Steps   == {"idle", "lock", "slot", "credentials", "end", "done"} \cup Nodes
HasSlot == {"credentials", "end"} \cup Nodes   \* inside both `async with`
HasLock == {"slot"} \cup HasSlot
Clients == {"none", "waiting", "answered", "gone"}  \* gone: left, or told of a failure

\* _initial_state: a value for every channel; the graph begins at START.
InitialState ==
  [stored |-> TRUE, next |-> "route", route |-> "rag", content |-> FALSE, complete |-> FALSE,
   chunks |-> <<>>, links |-> <<>>, decision |-> "refuse",
   answer |-> [unsure |-> FALSE, refs |-> <<>>], rewrites |-> 0]

NoCheckpoint == [InitialState EXCEPT !.stored = FALSE]

Init ==
  /\ req = [r \in Request |->
              [pc |-> "idle", stream |-> FALSE, client |-> "none", lock |-> 0]]
  /\ registered = 0
  /\ free = MaxSlots
  /\ others = 0
  /\ webSearch \in BOOLEAN
  /\ thread = NoCheckpoint
  /\ checkpoint = NoCheckpoint
  /\ cleaned = FALSE
  /\ crashes = 0

-----------------------------------------------------------------------------
(* Vocabulary *)

At(r, step)   == req[r].pc = step
Goto(r, step) == req' = [req EXCEPT ![r].pc = step]
Active(r)     == req[r].pc \notin {"idle", "done"}
Drives(r)     == req[r].pc \in HasLock
InGraph(r)    == req[r].pc \in Nodes \cup {"end"}

\* The weak dictionary keeps a lock while a request that holds it or waits for it lives.
Remembered == \E r \in Request : Active(r) /\ req[r].lock = registered

\* _lock_for
LockFor(r) == IF Remembered THEN registered ELSE r

\* Both `async with` are left; the client, if it still waits, gets the reply.  LangGraph
\* first waits for the store, unless that fails or the stream is closed under it.
LeaveWith(r, reply, slots) ==
  /\ req' = [req EXCEPT ![r].pc = "done", ![r].lock = 0, ![r].stream = FALSE,
                        ![r].client = IF @ = "waiting" THEN reply ELSE @]
  /\ free' = slots
  /\ IF InGraph(r)
     THEN /\ checkpoint' \in {thread} \cup (IF reply = "answered" THEN {} ELSE {checkpoint})
          /\ thread' = checkpoint'
     ELSE UNCHANGED <<thread, checkpoint>>
  /\ UNCHANGED <<others, webSearch, cleaned, crashes>>

SlotsAfter(r) == IF req[r].pc \in HasSlot THEN free + 1 ELSE free

\* Faulty: the run's entry is taken out of the dictionary on the way out.
LeaveAndForget(r, reply) == LeaveWith(r, reply, SlotsAfter(r)) /\ registered' = 0

Leave(r, reply) == LeaveWith(r, reply, SlotsAfter(r)) /\ UNCHANGED registered

-----------------------------------------------------------------------------
(* Requests, lock and slot *)

\* The first request of a run is asked or streamed; the others resume it and invoke.
Submit(r, stream) ==
  /\ At(r, "idle")
  /\ \A q \in 1 .. r - 1 : req[q].client \in {"answered", "gone"}
  /\ stream => r = 1
  /\ ~cleaned
  /\ req' = [req EXCEPT ![r] = [pc |-> "lock", stream |-> stream, client |-> "waiting",
                                lock |-> LockFor(r)]]
  /\ registered' = LockFor(r)
  /\ UNCHANGED <<free, others, webSearch, thread, checkpoint, cleaned, crashes>>

\* asyncio.Lock is fair: a lock goes to the one that has waited longest.
Acquire(r) ==
  /\ At(r, "lock")
  /\ \A q \in Request \ {r} :
       req[q].lock = req[r].lock => ~Drives(q) /\ ~(At(q, "lock") /\ q < r)
  /\ Goto(r, "slot")
  /\ UNCHANGED <<registered, free, others, webSearch, thread, checkpoint, cleaned, crashes>>

TakeSlot(r) ==
  /\ At(r, "slot")
  /\ free > 0
  /\ free' = free - 1
  /\ Goto(r, "credentials")
  /\ UNCHANGED <<registered, others, webSearch, thread, checkpoint, cleaned, crashes>>

\* A request of another run; the semaphore is fair too and lets nobody overtake.
OtherTakesSlot ==
  /\ free > 0
  /\ \A r \in Request : ~At(r, "slot")
  /\ free' = free - 1
  /\ others' = others + 1
  /\ UNCHANGED <<req, registered, webSearch, thread, checkpoint, cleaned, crashes>>

OtherEnds ==
  /\ others > 0
  /\ free' = free + 1
  /\ others' = others - 1
  /\ UNCHANGED <<req, registered, webSearch, thread, checkpoint, cleaned, crashes>>

-----------------------------------------------------------------------------
(* The graph *)

\* LangGraph goes on along the edge while the channels, and any before them, are stored.
Node(r, here, next, channels) ==
  /\ At(r, here)
  /\ thread' = [channels EXCEPT !.stored = TRUE, !.next = next]
  /\ checkpoint' \in {checkpoint, thread'}
  /\ Goto(r, next)
  /\ UNCHANGED <<registered, free, others, webSearch, cleaned, crashes>>

\* Faulty: the graph begins anew on the channels it finds.
StartOver(r) ==
  Node(r, "credentials", "route", IF checkpoint.stored THEN checkpoint ELSE InitialState)

\* model_credentials, validate_provider, then the graph is entered: a checkpoint of the same
\* run_id is taken up where it stands, at its end too, and only without one the input counts.
Start(r) ==
  LET from == IF checkpoint.stored THEN checkpoint ELSE InitialState
  IN  Node(r, "credentials", from.next, from)

Route(r) ==
  \E route \in Routes :
    Node(r, "route", IF route = "rag" THEN "retrieve" ELSE route,
         [thread EXCEPT !.route = route])

\* A source, by the route and the round of searching that found it.
Fetched(n) == [k \in 1 .. n |-> [route |-> thread.route, call |-> thread.rewrites, nr |-> k]]

\* knowledge-search answers with chunks only, no text and no coverage.
Retrieve(r) ==
  \E n \in ChunkCounts :
    Node(r, "retrieve", IF webSearch THEN "web_search" ELSE "evaluate",
         [thread EXCEPT !.chunks = Fetched(n), !.content = FALSE, !.complete = FALSE])

\* _next_after_knowledge_tool
NextAfterKnowledgeTool(channels) ==
  IF /\ channels.content /\ channels.chunks # <<>>
     /\ channels.route = "overview" => channels.complete
  THEN "synthesize" ELSE "refuse"

\* _overview and _navigation; only the overview answers with its coverage.
RunKnowledgeTool(r, tool) ==
  \E n \in ChunkCounts, content, complete \in BOOLEAN :
    LET channels == [thread EXCEPT !.chunks = Fetched(n), !.content = content,
                                   !.complete = complete /\ tool = "overview"]
    IN  Node(r, tool, NextAfterKnowledgeTool(channels), channels)

WebSearch(r) ==
  \E n \in LinkCounts :
    Node(r, "web_search", "evaluate", [thread EXCEPT !.links = Fetched(n)])

CanRewrite == thread.route = "rag" /\ thread.rewrites < MaxRewrites

\* _evaluate: without sources the model is not asked, and it may not ask for another rewrite.
Decisions ==
  LET again == IF CanRewrite THEN "rewrite" ELSE "refuse"
  IN  IF thread.chunks = <<>> /\ thread.links = <<>>
      THEN {again} ELSE {"sufficient", "refuse", again}

\* _next_after_evaluation
NextAfterEvaluation(decision) ==
  CASE decision = "sufficient" -> "synthesize"
    [] decision = "rewrite" /\ CanRewrite -> "rewrite"
    [] OTHER -> "refuse"

Evaluate(r) ==
  \E decision \in Decisions :
    Node(r, "evaluate", NextAfterEvaluation(decision), [thread EXCEPT !.decision = decision])

Rewrite(r) == Node(r, "rewrite", "retrieve", [thread EXCEPT !.rewrites = @ + 1])

UpTo(n, sources) == SubSeq(sources, 1, IF n < Len(sources) THEN n ELSE Len(sources))

Synthesize(r) ==
  LET chunks == UpTo(MaxCitations, thread.chunks)
      links  == UpTo(MaxCitations - Len(chunks), thread.links)
      empty  == ~thread.content /\ chunks = <<>> /\ links = <<>>
  IN  \E answer \in IF empty THEN {NoAnswer} ELSE Answers :
        Node(r, "synthesize", "validate",
             [thread EXCEPT !.chunks = chunks, !.links = links, !.answer = answer])

\* _finish_answer
Finish(r, here, result) ==
  Node(r, here, "end", [thread EXCEPT !.answer = result.answer, !.chunks = result.chunks,
                                      !.links = result.links])

\* _validate_candidate: structure first, then the model's judgement.
Supported(answer, judgement) ==
  WellStructured(answer, thread.chunks, thread.links) /\ (answer.unsure \/ judgement)

\* Faulty: the repaired answer is not looked at again.
RepairedUnseen(candidate, first, repaired, second) ==
  IF Supported(candidate, first) THEN candidate ELSE repaired

\* One repair; when that is not supported either, no answer.
Repaired(candidate, first, repaired, second) ==
  CASE Supported(candidate, first) -> candidate
    [] ~Supported(candidate, first) /\ Supported(repaired, second) -> repaired
    [] OTHER -> NoAnswer

\* _validate_answer
ValidateAnswer(r) ==
  \E first, second \in BOOLEAN, repaired \in Answers :
    Finish(r, "validate",
           SelectReferencedSources(Repaired(thread.answer, first, repaired, second),
                                   thread.chunks, thread.links))

Refuse(r) == Finish(r, "refuse", [answer |-> NoAnswer, chunks |-> <<>>, links |-> <<>>])

GraphStep(r) ==
  \/ \E tool \in {"overview", "navigation"} : RunKnowledgeTool(r, tool)
  \/ Start(r) \/ Route(r) \/ Retrieve(r) \/ WebSearch(r) \/ Evaluate(r)
  \/ Rewrite(r) \/ Synthesize(r) \/ ValidateAnswer(r) \/ Refuse(r)

\* _result
Deliver(r) == At(r, "end") /\ Leave(r, "answered")

-----------------------------------------------------------------------------
(* Failures, clients, cleanup *)

\* Credentials, a tool or a model call fails: the exception leaves the graph.
CallFails(r) == req[r].pc \in {"credentials"} \cup Nodes /\ Leave(r, "gone")

\* request_timeout_seconds, wherever the request is.
TimesOut(r) == Active(r) /\ Leave(r, "gone")

\* An invoked run goes on without its client ...
ClientLeaves(r) ==
  /\ req[r].client = "waiting"
  /\ req' = [req EXCEPT ![r].client = "gone"]
  /\ UNCHANGED <<registered, free, others, webSearch, thread, checkpoint, cleaned, crashes>>

\* Faulty: a stream that is closed keeps its slot.
CloseWithSlot(r) ==
  /\ Active(r) /\ req[r].stream /\ req[r].client = "gone"
  /\ LeaveWith(r, "gone", free) /\ UNCHANGED registered

\* ... a streamed one is cancelled, or closed where it yielded.
CloseStream(r) ==
  /\ Active(r) /\ req[r].stream /\ req[r].client = "gone"
  /\ Leave(r, "gone")

\* The process restarts: what it had in memory is gone, the stored checkpoint stays.
Crash ==
  /\ crashes < MaxCrashes
  /\ crashes' = crashes + 1
  /\ req' = [r \in Request |->
               IF Active(r) THEN [req[r] EXCEPT !.pc = "done", !.lock = 0, !.stream = FALSE,
                                    !.client = IF @ = "waiting" THEN "gone" ELSE @]
               ELSE req[r]]
  /\ registered' = 0
  /\ free' = MaxSlots
  /\ others' = 0
  /\ thread' = checkpoint
  /\ UNCHANGED <<webSearch, checkpoint, cleaned>>

\* completeRun: the run is completed with the answer to its last request.
CleanupCompletedCheckpoint ==
  /\ ~cleaned
  /\ \E r \in Request : /\ req[r].client = "answered"
                        /\ \A q \in r + 1 .. MaxRequests : At(q, "idle")
  /\ cleaned' = TRUE
  /\ checkpoint' = NoCheckpoint
  /\ thread' = NoCheckpoint
  /\ UNCHANGED <<req, registered, free, others, webSearch, crashes>>

-----------------------------------------------------------------------------
Proceeds(r) == Acquire(r) \/ TakeSlot(r) \/ GraphStep(r) \/ CallFails(r) \/ Deliver(r)

Next ==
  \/ \E r \in Request : \/ Proceeds(r) \/ TimesOut(r) \/ ClientLeaves(r) \/ CloseStream(r)
                        \/ \E stream \in BOOLEAN : Submit(r, stream)
  \/ OtherTakesSlot \/ OtherEnds \/ Crash \/ CleanupCompletedCheckpoint

Spec == Init /\ [][Next]_vars

\* Every call has a time limit, so a node ends, well or badly; other runs end likewise.
\* The limit of the whole request is not relied on.
Fairness ==
  /\ \A r \in Request : WF_vars(Proceeds(r)) /\ WF_vars(CloseStream(r))
  /\ WF_vars(OtherEnds)

FairSpec == Spec /\ Fairness

-----------------------------------------------------------------------------
(* Properties *)

\* Whatever leaves, times out or is resumed while others wait, at most one request of the
\* run is past its lock, although the dictionary that names the lock is weak (_lock_for).
OneDriver == \A q, r \in Request : Drives(q) /\ Drives(r) => q = r

\* No abandoned request writes the checkpoint of a completed run again (completeRun's
\* cleanup while older requests may still be in the agent).
CleanedStaysClean == cleaned => ~checkpoint.stored

\* What a request returns is properly cited within max_citations, after truncation,
\* repair and selection, or it is no answer and shows no sources (_validate_answer,
\* _refuse, select_referenced_sources).
WellCited ==
  \A r \in Request : At(r, "end") =>
    /\ ProperlyCited(thread.answer, thread.chunks, thread.links)
    /\ Len(thread.chunks) + Len(thread.links) <= MaxCitations

\* However often the run was cut off and taken up again, at whatever node and from however
\* old a checkpoint, an answer mixes nothing: its sources are all of its own route and last
\* round of searching, and that was found sufficient (rag) or complete (overview).
RestsOnLastSearch ==
  \A r \in Request : At(r, "end") /\ ~thread.answer.unsure =>
    /\ \A s \in ToSet(thread.chunks \o thread.links) :
         s.route = thread.route /\ s.call = thread.rewrites
    /\ thread.route = "rag" => thread.decision = "sufficient"
    /\ thread.route = "overview" => thread.complete

\* Every request ends without its time limit: the rewrites are bounded, and whoever fails,
\* leaves or is cancelled gives lock and slot back.
EveryRequestEnds == \A r \in Request : Active(r) ~> ~Active(r)
=============================================================================
