------------------------------ MODULE MCTools ------------------------------
EXTENDS Tools, TLC

\* Two documents of the knowledge base, one of them with three chunks in a row of which
\* the last is in a section of its own, and a document of another one.
Own1 == {"policy", "manual"}
Documents == Own1 \cup {"foreign"}
Chunks6 == {"p0", "p1", "p2", "m0", "m1", "f0"}

ChunkDocument == ("p0" :> "policy") @@ ("p1" :> "policy") @@ ("p2" :> "policy")
                 @@ ("m0" :> "manual") @@ ("m1" :> "manual") @@ ("f0" :> "foreign")
ChunkPlace    == ("p0" :> 0) @@ ("p1" :> 1) @@ ("p2" :> 2) @@ ("m0" :> 0) @@ ("m1" :> 1)
                 @@ ("f0" :> 0)
ChunkSection  == ("p0" :> "s") @@ ("p1" :> "s") @@ ("p2" :> "t")
                 @@ ("m0" :> "s") @@ ("m1" :> "s") @@ ("f0" :> "s")
ChunkLead     == ("p0" :> "x") @@ ("p1" :> "y") @@ ("p2" :> "y")
                 @@ ("m0" :> "x") @@ ("m1" :> "x") @@ ("f0" :> "x")
WordOverlap   == ("p0" :> 100) @@ ("p1" :> 100) @@ ("p2" :> 50)
                 @@ ("m0" :> 75) @@ ("m1" :> 50) @@ ("f0" :> 100)
SectionWords  == ("p0" :> 0) @@ ("p1" :> 0) @@ ("p2" :> 0)
                 @@ ("m0" :> 0) @@ ("m1" :> 0) @@ ("f0" :> 100)

Scores(p0, p1, p2, m0, m1, f0) ==
  ("p0" :> p0) @@ ("p1" :> p1) @@ ("p2" :> p2) @@ ("m0" :> m0) @@ ("m1" :> m1)
  @@ ("f0" :> f0)

AskedQuestions ==
  {[rewritten |-> "short", parts |-> <<"other", "short", "third">>]}

MilvusScores ==
  {("short" :> Scores(8000, 6000, 0, 5000, 0, 9000))
     @@ ("other" :> Scores(0, 7000, 9000, 6000, 0, 5000))
     @@ ("third" :> Scores(9000, 9000, 9000, 9000, 9000, 9000))}

WordScores ==
  {Scores(3, 1, 0, 2, 0, 9), Scores(1, 2, 5, 4, 4, 9)}
=============================================================================
