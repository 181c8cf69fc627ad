----------------------------- MODULE MCChunker -----------------------------
EXTENDS Chunker

CONSTANTS MaxSingle, MaxEach  \* bounds: characters of a lone segment, of each of two

Texts(length) == UNION {[1 .. n -> Character] : n \in 0 .. length}

ParsedTexts ==
  {<<text>> : text \in Texts(MaxSingle)} \cup (Texts(MaxEach) \X Texts(MaxEach))

\* Sizes below and above the least one, every other limit inside, at and beyond the size.
ChunkingSections ==
  [size : {1, 4}, overlap : {-1, 0, 2, 3}, minSize : {0, 2, 4}, lookback : {-1, 3}]
=============================================================================
