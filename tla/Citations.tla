----------------------------- MODULE Citations -----------------------------
(***************************************************************************)
(* Citations of an answer (agent/src/enterprise_agent/citations.py).  Of an *)
(* answer's text only its references are kept, in order of appearance:      *)
(* [引用n] is [kind |-> "chunk", nr |-> n], [外链n] is a link.  An answer   *)
(* that says that it cannot tell has none.  Sources are sequences; what a   *)
(* source is does not matter here.                                          *)
(***************************************************************************)
EXTENDS Naturals, Sequences, SequencesExt

Reference == [kind : {"chunk", "link"}, nr : Nat]
Answer    == [unsure : BOOLEAN, refs : Seq(Reference)]
NoAnswer  == [unsure |-> TRUE, refs |-> <<>>]

\* validate_reference_structure
WellStructured(answer, chunks, links) ==
  \/ answer.unsure
  \/ /\ answer.refs # <<>>
     /\ \A k \in DOMAIN answer.refs :
          LET ref == answer.refs[k]
          IN  ref.nr \in 1 .. Len(IF ref.kind = "chunk" THEN chunks ELSE links)

\* _reference_indexes: the valid numbers of one kind, each once, by first appearance.
ReferenceIndexes(refs, kind, limit) ==
  LET Note(seen, ref) ==
        IF ref.kind = kind /\ ref.nr \in 1 .. limit /\ ~Contains(seen, ref.nr)
        THEN Append(seen, ref.nr) ELSE seen
  IN  FoldLeft(Note, <<>>, refs)

\* The mapping of _remap: the new number of a source, 0 when it has none.
NewNumber(indexes, nr) == SelectInSeq(indexes, LAMBDA original : original = nr)

\* _remap: a reference gets its source's new number; one without a number is cut out.
Remap(refs, kind, indexes) ==
  LET Replace(done, ref) ==
        IF ref.kind # kind THEN Append(done, ref)
        ELSE IF NewNumber(indexes, ref.nr) = 0 THEN done
        ELSE Append(done, [kind |-> kind, nr |-> NewNumber(indexes, ref.nr)])
  IN  FoldLeft(Replace, <<>>, refs)

\* select_referenced_sources
SelectReferencedSources(answer, chunks, links) ==
  LET chunkIndexes == ReferenceIndexes(answer.refs, "chunk", Len(chunks))
      linkIndexes  == ReferenceIndexes(answer.refs, "link", Len(links))
      remapped     == Remap(Remap(answer.refs, "chunk", chunkIndexes), "link", linkIndexes)
  IN  IF answer.unsure
      THEN [answer |-> NoAnswer, chunks |-> <<>>, links |-> <<>>]
      ELSE [answer |-> [unsure |-> FALSE, refs |-> remapped],
            chunks |-> [k \in DOMAIN chunkIndexes |-> chunks[chunkIndexes[k]]],
            links  |-> [k \in DOMAIN linkIndexes |-> links[linkIndexes[k]]]]

-----------------------------------------------------------------------------
(* What a reader of the answer relies on *)

\* The source behind each reference of the answer.
Cited(answer, chunks, links) ==
  [k \in DOMAIN answer.refs |->
     LET ref == answer.refs[k]
     IN  [kind |-> ref.kind, source |-> (IF ref.kind = "chunk" THEN chunks ELSE links)[ref.nr]]]

\* The numbers of one kind run from 1 to the number of sources, by first appearance.
NumberedByAppearance(refs, kind, sources) ==
  /\ {ref.nr : ref \in {r \in ToSet(refs) : r.kind = kind}} = 1 .. Len(sources)
  /\ \A k \in DOMAIN refs :
       refs[k].kind = kind /\ refs[k].nr > 1 =>
         \E earlier \in 1 .. k - 1 : refs[earlier] = [kind |-> kind, nr |-> refs[k].nr - 1]

ProperlyCited(answer, chunks, links) ==
  IF answer.unsure
  THEN answer.refs = <<>> /\ chunks = <<>> /\ links = <<>>
  ELSE /\ answer.refs # <<>>
       /\ NumberedByAppearance(answer.refs, "chunk", chunks)
       /\ NumberedByAppearance(answer.refs, "link", links)
=============================================================================
