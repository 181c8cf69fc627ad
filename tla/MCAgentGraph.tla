---------------------------- MODULE MCAgentGraph ----------------------------
EXTENDS AgentGraph

\* No reference, every pair of two chunks and a link, one that may not exist.
MCAnswers ==
  LET Chunk(n) == [kind |-> "chunk", nr |-> n]
      Link(n)  == [kind |-> "link", nr |-> n]
  IN  {NoAnswer} \cup
      {[unsure |-> FALSE, refs |-> refs] :
         refs \in {<<>>, <<Chunk(2), Chunk(1), Chunk(2)>>,
                   <<Link(1), Chunk(1)>>, <<Chunk(3)>>}}
=============================================================================
