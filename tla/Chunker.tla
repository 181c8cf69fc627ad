------------------------------ MODULE Chunker ------------------------------
(***************************************************************************)
(* How a parsed document is cut into chunks                                 *)
(* (api/internal/service/documentchunk/chunker.go): the text of each        *)
(* segment is read through windows of at most size characters that overlap  *)
(* and end, where one is near, at the end of a sentence.  One step is one   *)
(* turn of splitSegment's loop, or Build's turn to the next segment.        *)
(*                                                                          *)
(* A text is the sequence of its characters' kinds; a newline is blank and  *)
(* ends a sentence.  Positions count from 0 as the code's: the window       *)
(* from, to holds the characters from + 1 .. to of the sequence.            *)
(***************************************************************************)
EXTENDS Integers, Sequences

CONSTANTS
  Parsed,           \* the documents' segments that may be met
  Configured,       \* what the Chunking section may hold
  LeastSize,        \* 200: a smaller Size is replaced by
  DefaultSize,      \* 800
  DefaultOverlap,   \* 120
  DefaultMinSize,   \* 120
  DefaultLookback   \* 160

Character   == {"word", "space", "stop", "newline"}
Blank       == {"space", "newline"}
SentenceEnd == {"stop", "newline"}

ASSUME InputAssumption ==
  /\ Parsed \subseteq Seq(Seq(Character))
  /\ Configured \subseteq [size : Int, overlap : Int, minSize : Int, lookback : Int]

ASSUME DefaultsAssumption ==
  /\ LeastSize \in Nat /\ DefaultSize \in Nat
  /\ DefaultOverlap \in Nat /\ DefaultMinSize \in Nat \ {0} /\ DefaultLookback \in Nat
  /\ LeastSize <= DefaultSize
  /\ DefaultOverlap < LeastSize /\ DefaultMinSize < LeastSize /\ DefaultLookback < LeastSize

VARIABLES
  segments,  \* the document's text, by segment
  config,    \* what normalizeConfig made of the Chunking section
  segment,   \* the number of the segment being cut
  start,     \* where the next window starts
  end,       \* where the last one ended
  chunks,    \* the chunks so far, in the order of their ChunkIndex
  outcome    \* of Build

cutVars == <<segments, config, segment, start, end, chunks, outcome>>

-----------------------------------------------------------------------------
(* The configuration *)

Within(value, least, size, default) ==
  IF value < least \/ value >= size THEN default ELSE value

\* normalizeConfig
NormalizeConfig(value) ==
  LET size == IF value.size < LeastSize THEN DefaultSize ELSE value.size
  IN  [size     |-> size,
       overlap  |-> Within(value.overlap, 0, size, DefaultOverlap),
       minSize  |-> Within(value.minSize, 1, size, DefaultMinSize),
       lookback |-> Within(value.lookback, 0, size, DefaultLookback)]

-----------------------------------------------------------------------------
(* One window *)

Smaller(m, n) == IF m < n THEN m ELSE n
Greater(m, n) == IF m > n THEN m ELSE n

\* Positions of the text between two places that are not blank.
Words(text, from, to) == {p \in from + 1 .. to : text[p] \notin Blank}

\* strings.TrimSpace
TrimSpace(text) ==
  LET words == Words(text, 0, Len(text))
  IN  IF words = {} THEN <<>>
      ELSE SubSeq(text, CHOOSE p \in words : \A q \in words : p <= q,
                        CHOOSE p \in words : \A q \in words : p >= q)

\* Faulty: a sentence may end anywhere in the lookback.
BoundariesNearby(text, from, last) ==
  {p \in last - config.lookback + 1 .. last : text[p] \in SentenceEnd}

\* Where a window that may reach to last can end a sentence.
Boundaries(text, from, last) ==
  {p \in Greater(from + config.minSize, last - config.lookback) + 1 .. last :
     text[p] \in SentenceEnd}

\* findBoundary
FindBoundary(text, from, last) ==
  LET cuts == Boundaries(text, from, last)
  IN  IF cuts = {} THEN last ELSE CHOOSE p \in cuts : \A q \in cuts : q <= p

WindowEnd(text, from) ==
  LET last == Smaller(from + config.size, Len(text))
  IN  IF last < Len(text) THEN FindBoundary(text, from, last) ELSE last

\* Faulty: without progress the next window starts behind the character after this one.
SkipOne(from, to) == IF to - config.overlap <= from THEN to + 1 ELSE to - config.overlap

NextStart(from, to) == IF to - config.overlap <= from THEN to ELSE to - config.overlap

-----------------------------------------------------------------------------
(* Build *)

Text(k) == TrimSpace(segments[k])

CutInit ==
  /\ segments \in Parsed
  /\ config \in {NormalizeConfig(value) : value \in Configured}
  /\ segment = 1
  /\ start = 0
  /\ end = 0
  /\ chunks = <<>>
  /\ outcome = "running"

\* Faulty: a window is kept as it is.
KeepAll(window) == Append(chunks, window)

\* A window of which TrimSpace leaves nothing is no chunk.
KeepWindow(window) ==
  IF Words(Text(window.segment), window.from, window.to) = {}
  THEN chunks ELSE Append(chunks, window)

\* A turn of splitSegment's loop.
Window ==
  /\ segment \in DOMAIN segments
  /\ end < Len(Text(segment))
  /\ end' = WindowEnd(Text(segment), start)
  /\ start' = IF end' < Len(Text(segment)) THEN NextStart(start, end') ELSE start
  /\ chunks' = KeepWindow([segment |-> segment, from |-> start, to |-> end'])
  /\ UNCHANGED <<segments, config, segment, outcome>>

NextSegment ==
  /\ segment \in DOMAIN segments
  /\ end >= Len(Text(segment))
  /\ segment' = segment + 1
  /\ start' = 0
  /\ end' = 0
  /\ UNCHANGED <<segments, config, chunks, outcome>>

Finish ==
  /\ outcome = "running"
  /\ segment > Len(segments)
  /\ outcome' = IF chunks = <<>> THEN "error" ELSE "built"
  /\ UNCHANGED <<segments, config, segment, start, end, chunks>>

CutNext == Window \/ NextSegment \/ Finish

CutSpec == CutInit /\ [][CutNext]_cutVars
-----------------------------------------------------------------------------
(* Properties *)

Piece == [segment : Nat, from : Nat, to : Nat]

\* normalizeConfig leaves numbers Build can work with, and a window is one of a segment.
TypeOK ==
  /\ segments \in Seq(Seq(Character))
  /\ config \in [size : Nat, overlap : Nat, minSize : Nat \ {0}, lookback : Nat]
  /\ segment \in 1 .. Len(segments) + 1
  /\ start \in Nat /\ end \in Nat
  /\ chunks \in Seq(Piece)
  /\ outcome \in {"running", "error", "built"}

InChunk(k, p) ==
  \E n \in DOMAIN chunks : chunks[n].segment = k /\ p \in chunks[n].from + 1 .. chunks[n].to

\* Every character that is not blank is in a chunk, up to where the windows have come:
\* overlap, boundary search and the break at the end leave no gap (splitSegment).
NothingLost ==
  \A k \in 1 .. Len(segments) :
    \A p \in Words(Text(k), 0, Len(Text(k))) :
      k < segment \/ (k = segment /\ p <= end) => InChunk(k, p)

\* The embedding stage gets no chunk without a word or longer than Size, and two chunks
\* in a row share at most the overlap (splitSegment's windows, Build's numbering).
WellCut ==
  /\ \A n \in DOMAIN chunks :
       /\ chunks[n].to - chunks[n].from \in 1 .. config.size
       /\ Words(Text(chunks[n].segment), chunks[n].from, chunks[n].to) # {}
  /\ \A n \in 2 .. Len(chunks) :
       \/ chunks[n].segment > chunks[n - 1].segment
       \/ /\ chunks[n].segment = chunks[n - 1].segment
          /\ chunks[n].from > chunks[n - 1].from
          /\ chunks[n].from >= chunks[n - 1].to - config.overlap

\* A turn of the loop always starts later than the one before, and it takes new text in
\* unless a sentence may end inside the overlap (MinSize below Overlap and a lookback that
\* reaches there): then it may only repeat the end of its predecessor.
Progress ==
  [][Window =>
       /\ end' < Len(Text(segment)) => start' > start
       /\ \/ config.overlap <= config.minSize
          \/ config.overlap + config.lookback <= config.size
          => end' > end]_cutVars

=============================================================================
