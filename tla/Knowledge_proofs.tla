-------------------------- MODULE Knowledge_proofs --------------------------
(***************************************************************************)
(* From a document to the evidence the agent is given, for every text,      *)
(* every configuration and every policy.                                    *)
(*                                                                          *)
(* Cutting (Chunker): the loop always advances, no character that is not    *)
(* blank is left out, and the chunks are as long, as full and as far apart  *)
(* as the configuration says.                                               *)
(*                                                                          *)
(* Ranking: each of its loops is a fold; FoldPrefixes follows a fold        *)
(* through the prefixes of its list, so that what a turn keeps is kept by   *)
(* the loop (SetInduction).                                                 *)
(*                                                                          *)
(* Order: a list of hits of which no two are equally good has one sorted    *)
(* arrangement, whatever order they come in (SortedAlike), and each step of *)
(* the fusion gives lists of the same hits for lists of the same hits.      *)
(*                                                                          *)
(* Calls (Tools): CallInv says what a call may have gathered while the      *)
(* pipeline goes on beside it.                                              *)
(***************************************************************************)
EXTENDS Tools, Chunker, SequenceTheorems, WellFoundedInduction, FiniteSetTheorems, TLAPS

-----------------------------------------------------------------------------
(* Numbers *)

\* A set of numbers that is not empty has a least one.
LEMMA LeastNat ==
  ASSUME NEW S \in SUBSET Nat, S # {}
  PROVE  \E n \in S : \A m \in S : n <= m
<1>1. \E n \in S : \A m \in S : ~(<<m, n>> \in OpToRel(<, Nat))
  BY NatLessThanWellFounded, WFMin
<1>2. \A m, n \in S : <<m, n>> \in OpToRel(<, Nat) <=> m < n
  BY DEF OpToRel
<1>3. PICK n \in S : \A m \in S : ~(<<m, n>> \in OpToRel(<, Nat))
  BY <1>1
<1>4. \A m \in S : ~(m < n)
  BY <1>2, <1>3
<1>5. QED
  BY <1>4

\* Induction, with a set for the property.
LEMMA SetInduction ==
  ASSUME NEW P, 0 \in P, \A n \in Nat : n \in P => n + 1 \in P
  PROVE  Nat \subseteq P
<1> DEFINE Bad == Nat \ P
<1>1. ASSUME Bad # {}
      PROVE  FALSE
  <2>1. PICK n \in Bad : \A m \in Bad : n <= m
    <3>1. Bad \in SUBSET Nat
      OBVIOUS
    <3> HIDE DEF Bad
    <3>2. QED
      BY <1>1, <3>1, LeastNat
  <2>2. n # 0 /\ n \in Nat
    OBVIOUS
  <2>3. n - 1 \in Nat /\ ~(n <= n - 1) /\ n = (n - 1) + 1
    BY <2>2
  <2>4. n - 1 \in P
    BY <2>1, <2>3
  <2>5. QED
    BY <2>3, <2>4
<1>2. QED
  BY <1>1

(* A set of naturals with an upper bound has a greatest member. *)
LEMMA Maximum ==
  ASSUME NEW n \in Nat, NEW T, T \in SUBSET (0 .. n), T # {}
  PROVE  \E x \in T : \A y \in T : y <= x
<1> DEFINE U == {n - t : t \in T}
<1>1. U \in SUBSET Nat /\ U # {}
  <2>1. \A t \in T : n - t \in Nat
    OBVIOUS
  <2>. QED
    BY <2>1
<1>2. PICK u \in U : \A v \in U : u <= v
  <2> HIDE DEF U
  <2>1. QED
    BY <1>1, LeastNat
<1>3. PICK x \in T : u = n - x
  BY <1>2
<1>4. \A y \in T : n - x <= n - y
  BY <1>2, <1>3
<1>5. \A y \in T : y <= x
  BY <1>4
<1>. QED
  BY <1>5

\* Max finds the greatest member.
LEMMA MaxIsMember ==
  ASSUME NEW N \in Nat, NEW s \in SUBSET (0 .. N), s # {}
  PROVE  Max(s) \in s
<1>1. PICK x \in s : \A y \in s : y <= x
  BY Maximum
<1>2. \A y \in s : x >= y
  BY <1>1
<1>3. QED
  BY <1>2 DEF Max

-----------------------------------------------------------------------------
(* Folds *)

\* The equations of MapThenFoldSet over 1 .. N, which FoldLeft is.
Folds(it, N, base, F) ==
  \A s \in SUBSET (1 .. N) :
    it[s] = IF s = {} THEN base ELSE F[<<it[s \ {Max(s)}], Max(s)>>]

\* A fold over an interval of numbers can be computed, from its last number down.
LEMMA FoldExists ==
  ASSUME NEW N \in Nat, NEW Acc, NEW base \in Acc, NEW F \in [Acc \X (1 .. N) -> Acc]
  PROVE  \E it \in [SUBSET (1 .. N) -> Acc] : Folds(it, N, base, F)
<1> DEFINE Good(n, it) ==
             \A s \in SUBSET (1 .. n) :
               it[s] = IF s = {} THEN base ELSE F[<<it[s \ {Max(s)}], Max(s)>>]
           Foldable(n) == \E it \in [SUBSET (1 .. n) -> Acc] : Good(n, it)
           Bad == {n \in Nat : n <= N /\ ~Foldable(n)}
<1> HIDE DEF Foldable
<1>1. ASSUME Bad # {}
      PROVE  FALSE
  <2>1. PICK n \in Bad : \A m \in Bad : n <= m
    <3>1. Bad \in SUBSET Nat
      OBVIOUS
    <3> HIDE DEF Bad
    <3>2. QED
      BY <1>1, <3>1, LeastNat
  <2>2. n # 0
    <3> DEFINE it0 == [s \in SUBSET (1 .. 0) |-> base]
    <3>1. it0 \in [SUBSET (1 .. 0) -> Acc] /\ Good(0, it0)
      BY 1 .. 0 = {}
    <3>2. QED
      BY <3>1 DEF Foldable
  <2>3. n - 1 \in Nat /\ n - 1 <= N /\ n <= N /\ ~(n <= n - 1)
    BY <2>2
  <2>4. PICK it \in [SUBSET (1 .. n - 1) -> Acc] : Good(n - 1, it)
    <3>1. Foldable(n - 1)
      BY <2>1, <2>3
    <3>2. QED
      BY <3>1 DEF Foldable
  <2> DEFINE ext == [s \in SUBSET (1 .. n) |->
                       IF n \in s THEN F[<<it[s \ {n}], n>>] ELSE it[s]]
  <2>5. \A s \in SUBSET (1 .. n) : n \notin s => s \in SUBSET (1 .. n - 1)
    OBVIOUS
  <2>6. \A s \in SUBSET (1 .. n) : s \ {n} \in SUBSET (1 .. n - 1)
    OBVIOUS
  <2>7. ASSUME NEW s \in SUBSET (1 .. n), n \in s
        PROVE  Max(s) = n
    <3>1. \A x \in s : (\A y \in s : x >= y) <=> x = n
      BY <2>7
    <3>2. QED
      BY <2>7, <3>1 DEF Max
  <2>8. ext \in [SUBSET (1 .. n) -> Acc]
    <3>1. ASSUME NEW s \in SUBSET (1 .. n)
          PROVE  ext[s] \in Acc
      <4>1. CASE n \in s
        <5>1. it[s \ {n}] \in Acc /\ n \in 1 .. N
          BY <2>3, <2>6
        <5>2. QED
          BY <4>1, <5>1
      <4>2. CASE n \notin s
        BY <2>5, <4>2
      <4>3. QED
        BY <4>1, <4>2
    <3>2. QED
      BY <3>1
  <2>9. Good(n, ext)
    <3> SUFFICES ASSUME NEW s \in SUBSET (1 .. n)
                 PROVE  ext[s] = IF s = {} THEN base ELSE F[<<ext[s \ {Max(s)}], Max(s)>>]
      OBVIOUS
    <3>1. CASE n \in s
      <4>1. ext[s \ {n}] = it[s \ {n}]
        BY <2>6
      <4>2. QED
        BY <2>7, <3>1, <4>1
    <3>2. CASE n \notin s
      <4>1. s \in SUBSET (1 .. n - 1) /\ s \ {Max(s)} \in SUBSET (1 .. n - 1)
        BY <2>5, <3>2
      <4>2. ext[s] = it[s] /\ ext[s \ {Max(s)}] = it[s \ {Max(s)}]
        BY <3>2, <4>1
      <4>3. it[s] = IF s = {} THEN base ELSE F[<<it[s \ {Max(s)}], Max(s)>>]
        BY <2>4, <4>1
      <4>4. QED
        BY <4>2, <4>3
    <3>3. QED
      BY <3>1, <3>2
  <2>10. QED
    BY <2>1, <2>8, <2>9 DEF Foldable
<1>2. Foldable(N)
  BY <1>1
<1>3. QED
  BY <1>2 DEF Foldable, Folds

\* What the fold is at each prefix.
Unrolls(g, N, Acc, base, F) ==
  /\ g[{}] = base
  /\ \A s \in SUBSET (1 .. N) : s # {} /\ g[s \ {Max(s)}] \in Acc =>
       g[s] = F[<<g[s \ {Max(s)}], Max(s)>>]

\* One step of the fold after the other.
Chain(f, g, N, base, F) ==
  /\ f[0] = base /\ f[N] = g[1 .. N]
  /\ \A j \in 1 .. N : f[j] = F[<<f[j - 1], j>>]

\* A fold, followed through the intervals from the empty one to the whole.
LEMMA FoldPrefixes ==
  ASSUME NEW N \in Nat, NEW Acc, NEW base \in Acc, NEW F \in [Acc \X (1 .. N) -> Acc],
         NEW g, Unrolls(g, N, Acc, base, F)
  PROVE  \E f \in [0 .. N -> Acc] : Chain(f, g, N, base, F)
<1> DEFINE f == [j \in 0 .. N |-> g[1 .. j]]
           P == {j \in Nat : j <= N => g[1 .. j] \in Acc}
<1>1. 1 .. 0 = {} /\ {} \in SUBSET (1 .. N)
  OBVIOUS
<1>2. g[1 .. 0] = base
  BY <1>1 DEF Unrolls
<1>3. ASSUME NEW j \in Nat, j + 1 <= N, g[1 .. j] \in Acc
      PROVE  g[1 .. j + 1] = F[<<g[1 .. j], j + 1>>]
  <2>1. /\ 1 .. j + 1 \in SUBSET (1 .. N) /\ 1 .. j + 1 # {}
        /\ (1 .. j + 1) \ {j + 1} = 1 .. j
    BY <1>3
  <2>2. Max(1 .. j + 1) = j + 1
    <3>1. j + 1 \in 1 .. j + 1 /\ \A y \in 1 .. j + 1 : j + 1 >= y
      OBVIOUS
    <3>2. \A x \in 1 .. j + 1 : x >= j + 1 => x = j + 1
      OBVIOUS
    <3>3. QED
      BY <3>1, <3>2 DEF Max
  <2>3. QED
    BY <1>3, <2>1, <2>2 DEF Unrolls
<1>4. Nat \subseteq P
  <2>1. 0 \in P
    BY <1>2
  <2>2. ASSUME NEW j \in Nat, j \in P
        PROVE  j + 1 \in P
    <3>1. CASE j + 1 <= N
      <4>1. g[1 .. j] \in Acc /\ <<g[1 .. j], j + 1>> \in Acc \X (1 .. N)
        BY <2>2, <3>1
      <4>2. g[1 .. j + 1] \in Acc
        BY <1>3, <3>1, <4>1
      <4>3. QED
        BY <4>2
    <3>2. CASE ~(j + 1 <= N)
      BY <3>2
    <3>3. QED
      BY <3>1, <3>2
  <2> HIDE DEF P
  <2>3. QED
    BY <2>1, <2>2, SetInduction
<1>5. \A j \in 0 .. N : g[1 .. j] \in Acc
  <2> SUFFICES ASSUME NEW j \in 0 .. N
               PROVE  g[1 .. j] \in Acc
    OBVIOUS
  <2>1. j \in P /\ j <= N
    BY <1>4
  <2>2. QED
    BY <2>1
<1>6. f \in [0 .. N -> Acc]
  BY <1>5
<1>7. \A j \in 1 .. N : f[j] = F[<<f[j - 1], j>>]
  <2> SUFFICES ASSUME NEW j \in 1 .. N
               PROVE  f[j] = F[<<f[j - 1], j>>]
    OBVIOUS
  <2>1. j - 1 \in 0 .. N /\ j \in 0 .. N /\ (j - 1) + 1 = j /\ j - 1 \in Nat /\ j <= N
    OBVIOUS
  <2>2. g[1 .. j] = F[<<g[1 .. j - 1], j>>]
    BY <1>3, <1>5, <2>1
  <2>3. QED
    BY <2>1, <2>2
<1>8. f[0] = base /\ f[N] = g[1 .. N]
  BY <1>2
<1> HIDE DEF f
<1>9. QED
  BY <1>6, <1>7, <1>8 DEF Chain

\* A sequence with one more element.
LEMMA Appended ==
  ASSUME NEW S, NEW s \in Seq(S), NEW e \in S
  PROVE  /\ Append(s, e) \in Seq(S)
         /\ Len(Append(s, e)) = Len(s) + 1 /\ Append(s, e)[Len(s) + 1] = e
         /\ \A k \in 1 .. Len(s) : Append(s, e)[k] = s[k]
  OBVIOUS

-----------------------------------------------------------------------------
(* Cutting a document *)

(* What TrimSpace leaves of a text is a text. *)
LEMMA TrimSpaceType ==
  ASSUME NEW text \in Seq(Character) PROVE TrimSpace(text) \in Seq(Character)
<1> DEFINE words == Words(text, 0, Len(text))
           first == CHOOSE p \in words : \A q \in words : p <= q
           last  == CHOOSE p \in words : \A q \in words : p >= q
<1>1. CASE words = {}
  BY <1>1 DEF TrimSpace
<1>2. CASE words # {}
  <2>1. words \in SUBSET (0 .. Len(text)) /\ words \in SUBSET Nat /\ words \subseteq 1 .. Len(text)
    BY DEF Words
  <2>2. first \in words
    BY <1>2, <2>1, LeastNat
  <2>3. \E p \in words : \A q \in words : q <= p
    BY <1>2, <2>1, Maximum
  <2>4. \E p \in words : \A q \in words : p >= q
    BY <2>1, <2>3
  <2>5. last \in words
    BY <2>4
  <2>6. TrimSpace(text) = SubSeq(text, first, last)
    BY <1>2 DEF TrimSpace
  <2> HIDE DEF words, first, last
  <2>7. first \in 1 .. Len(text) /\ last \in 1 .. Len(text)
    BY <2>1, <2>2, <2>5
  <2>8. \A i \in first .. last : text[i] \in Character
    BY <2>7
  <2>. QED
    BY <2>6, <2>7, <2>8, SubSeqProperties
<1>. QED
  BY <1>1, <1>2

-----------------------------------------------------------------------------
(* The configuration *)

GoodConfig(c) ==
  /\ c \in [size : Nat, overlap : Nat, minSize : Nat \ {0}, lookback : Nat]
  /\ c.overlap < c.size /\ c.minSize < c.size /\ c.lookback < c.size

(* normalizeConfig leaves overlap, minimum and lookback below the size. *)
LEMMA NormalizedIsGood ==
  ASSUME NEW value \in Configured PROVE GoodConfig(NormalizeConfig(value))
<1> DEFINE size == IF value.size < LeastSize THEN DefaultSize ELSE value.size
<1>1. /\ value.size \in Int /\ value.overlap \in Int
      /\ value.minSize \in Int /\ value.lookback \in Int
  BY InputAssumption
<1>2. size \in Nat /\ LeastSize <= size
  BY <1>1, DefaultsAssumption
<1> HIDE DEF size
<1>3. /\ Within(value.overlap, 0, size, DefaultOverlap) \in Nat
      /\ Within(value.overlap, 0, size, DefaultOverlap) < size
  BY <1>1, <1>2, DefaultsAssumption DEF Within
<1>4. /\ Within(value.minSize, 1, size, DefaultMinSize) \in Nat \ {0}
      /\ Within(value.minSize, 1, size, DefaultMinSize) < size
  BY <1>1, <1>2, DefaultsAssumption DEF Within
<1>5. /\ Within(value.lookback, 0, size, DefaultLookback) \in Nat
      /\ Within(value.lookback, 0, size, DefaultLookback) < size
  BY <1>1, <1>2, DefaultsAssumption DEF Within
<1>. QED
  BY <1>2, <1>3, <1>4, <1>5 DEF NormalizeConfig, GoodConfig, size

-----------------------------------------------------------------------------
(* One window: it ends behind its start, within the size and the text, and *)
(* before the end of the text only where it is full or a sentence may end. *)
LEMMA WindowEndBounds ==
  ASSUME GoodConfig(config), NEW text \in Seq(Character),
         NEW from \in Nat, from < Len(text)
  PROVE  LET to == WindowEnd(text, from)
         IN  /\ to \in Nat /\ from < to /\ to <= from + config.size /\ to <= Len(text)
             /\ \/ to = Len(text)
                \/ to = from + config.size
                \/ /\ from + config.minSize < to
                   /\ from + config.size - config.lookback < to
<1> DEFINE last == Smaller(from + config.size, Len(text))
           cuts == Boundaries(text, from, last)
<1>1. /\ last \in Nat /\ from < last /\ last <= from + config.size /\ last <= Len(text)
      /\ last < Len(text) => last = from + config.size
  BY DEF Smaller, GoodConfig
<1>2. CASE last < Len(text) /\ cuts # {}
  <2>1. /\ cuts \subseteq 0 .. last
        /\ \A p \in cuts : /\ p \in Nat /\ p <= last
                           /\ from + config.minSize < p /\ last - config.lookback < p
    BY <1>1 DEF Boundaries, Greater, GoodConfig
  <2>2. \E p \in cuts : \A q \in cuts : q <= p
    BY <1>1, <1>2, <2>1, Maximum
  <2>3. WindowEnd(text, from) = CHOOSE p \in cuts : \A q \in cuts : q <= p
    BY <1>2 DEF WindowEnd, FindBoundary
  <2>4. WindowEnd(text, from) \in cuts
    BY <2>2, <2>3
  <2>5. config.size \in Nat /\ config.minSize \in Nat /\ config.lookback \in Nat
    BY DEF GoodConfig
  <2> HIDE DEF cuts, last
  <2>6. PICK to \in cuts : WindowEnd(text, from) = to
    BY <2>4
  <2>7. /\ to \in Nat /\ to <= last
        /\ from + config.minSize < to /\ last - config.lookback < to
    BY <2>1
  <2>. QED
    BY <1>1, <1>2, <2>5, <2>6, <2>7
<1>3. CASE last < Len(text) /\ cuts = {}
  <2>1. WindowEnd(text, from) = last
    BY <1>3 DEF WindowEnd, FindBoundary
  <2> HIDE DEF last
  <2>. QED
    BY <1>1, <1>3, <2>1
<1>4. CASE ~ (last < Len(text))
  <2>1. WindowEnd(text, from) = last
    BY <1>4 DEF WindowEnd
  <2> HIDE DEF last
  <2>. QED
    BY <1>1, <1>4, <2>1
<1>. QED
  BY <1>2, <1>3, <1>4

-----------------------------------------------------------------------------
(* The loop: a window starts no further behind the last one's end than the *)
(* overlap, and the last chunk lies before it.                             *)

InText == segment \in DOMAIN segments

GoodTypes ==
  /\ segments \in Seq(Seq(Character)) /\ GoodConfig(config)
  /\ segment \in 1 .. Len(segments) + 1
  /\ start \in Nat /\ end \in Nat
  /\ chunks \in Seq(Piece)
  /\ outcome \in {"running", "error", "built"}

Follows ==
  InText /\ end < Len(Text(segment)) => start <= end /\ end <= start + config.overlap

Fit(c) ==
  /\ c.segment \in DOMAIN segments
  /\ c.to - c.from \in 1 .. config.size
  /\ Words(Text(c.segment), c.from, c.to) # {}

Spaced(b, c) ==
  \/ c.segment > b.segment
  \/ c.segment = b.segment /\ c.from > b.from /\ c.from >= b.to - config.overlap

\* Whatever window comes next, it is spaced from the last chunk.
LastBehind ==
  chunks # <<>> =>
    LET c == chunks[Len(chunks)]
    IN  /\ c.segment <= segment
        /\ (c.segment = segment /\ InText /\ end < Len(Text(segment)))
             => c.from < start /\ c.to - config.overlap <= start

AllFit    == \A n \in DOMAIN chunks : Fit(chunks[n])
AllSpaced == \A n \in 2 .. Len(chunks) : Spaced(chunks[n - 1], chunks[n])

LoopInv == GoodTypes /\ Follows /\ AllFit /\ AllSpaced /\ LastBehind /\ NothingLost

(* The texts being cut are texts. *)
LEMMA TextType ==
  ASSUME GoodTypes, NEW k \in DOMAIN segments PROVE Text(k) \in Seq(Character)
<1>1. segments[k] \in Seq(Character)
  BY DEF GoodTypes
<1>. QED
  BY <1>1, TrimSpaceType DEF Text

(* One turn of the loop: where its window lies and where the next starts.  *)
LEMMA WindowStep ==
  ASSUME LoopInv, Window
  PROVE  /\ InText /\ Len(Text(segment)) \in Nat
         /\ end' \in Nat /\ start' \in Nat
         /\ start < end' /\ end' <= start + config.size /\ end' <= Len(Text(segment))
         /\ start <= end /\ end <= start + config.overlap
         /\ end' < Len(Text(segment)) =>
              start < start' /\ start' <= end' /\ end' <= start' + config.overlap
         /\ \/ end' = Len(Text(segment))
            \/ end' = start + config.size
            \/ /\ start + config.minSize < end'
               /\ start + config.size - config.lookback < end'
<1> DEFINE text == Text(segment)
<1>1. InText /\ GoodTypes /\ GoodConfig(config) /\ end < Len(text)
  BY DEF LoopInv, Window, InText, GoodTypes
<1>2. text \in Seq(Character) /\ Len(text) \in Nat
  BY <1>1, TextType DEF InText
<1>3. start \in Nat /\ end \in Nat /\ start <= end /\ end <= start + config.overlap
  BY <1>1 DEF LoopInv, Follows, GoodTypes
<1>4. /\ end' = WindowEnd(text, start)
      /\ start' = IF end' < Len(text) THEN NextStart(start, end') ELSE start
  BY DEF Window
<1>5. start < Len(text)
  BY <1>1, <1>2, <1>3
<1> HIDE DEF text
<1>6. /\ end' \in Nat /\ start < end' /\ end' <= start + config.size /\ end' <= Len(text)
      /\ \/ end' = Len(text)
         \/ end' = start + config.size
         \/ start + config.minSize < end' /\ start + config.size - config.lookback < end'
  BY <1>1, <1>2, <1>3, <1>4, <1>5, WindowEndBounds
<1>7. config.overlap \in Nat
  BY <1>1 DEF GoodConfig
<1>8. end' < Len(text) => start < start' /\ start' <= end' /\ end' <= start' + config.overlap
  BY <1>3, <1>4, <1>6, <1>7 DEF NextStart
<1>9. start' \in Nat
  BY <1>3, <1>4, <1>6, <1>7 DEF NextStart
<1>. QED
  BY <1>1, <1>2, <1>3, <1>6, <1>8, <1>9 DEF text

(* A window is kept at the end of the chunks, or it has no word. *)
LEMMA KeepStep ==
  ASSUME LoopInv, Window,
         NEW w, w = [segment |-> segment, from |-> start, to |-> end']
  PROVE  /\ w \in Piece /\ w.segment = segment /\ w.from = start /\ w.to = end'
         /\ \/ Words(Text(segment), start, end') = {} /\ chunks' = chunks
            \/ Words(Text(segment), start, end') # {} /\ chunks' = Append(chunks, w)
<1>1. w \in Piece
  BY WindowStep DEF Piece, LoopInv, GoodTypes
<1>. QED
  BY <1>1 DEF Window, KeepWindow

(* The loop's invariant holds of every reachable state (Build,             *)
(* splitSegment).                                                          *)
THEOREM CutInvariance == CutSpec => []LoopInv
<1>1. CutInit => LoopInv
  <2>1. SUFFICES ASSUME CutInit PROVE LoopInv
    OBVIOUS
  <2>2. GoodTypes
    BY <2>1, InputAssumption, NormalizedIsGood DEF CutInit, GoodTypes
  <2>3. Follows
    <3>1. config.overlap \in Nat
      BY <2>2 DEF GoodTypes, GoodConfig
    <3>. QED
      BY <2>1, <3>1 DEF CutInit, Follows
  <2>4. NothingLost
    <3>1. ASSUME NEW k \in 1 .. Len(segments), NEW q \in Words(Text(k), 0, Len(Text(k)))
          PROVE  ~ (k < segment) /\ ~ (q <= end)
      <4>1. Len(Text(k)) \in Nat
        BY <2>2, TextType DEF GoodTypes
      <4>. QED
        BY <2>1, <3>1, <4>1 DEF CutInit, Words
    <3>. QED
      BY <3>1 DEF NothingLost
  <2>. QED
    BY <2>1, <2>2, <2>3, <2>4 DEF CutInit, LoopInv, LastBehind, AllFit, AllSpaced
<1>2. ASSUME LoopInv, [CutNext]_cutVars PROVE LoopInv'
  <2> USE <1>2
  <2>1. ASSUME Window PROVE LoopInv'
    <3> DEFINE w == [segment |-> segment, from |-> start, to |-> end']
    <3>1. UNCHANGED <<segments, config, segment, outcome>> /\ InText
      BY <2>1 DEF Window, InText
    <3>2. /\ w \in Piece /\ w.segment = segment /\ w.from = start /\ w.to = end'
          /\ \/ Words(Text(segment), start, end') = {} /\ chunks' = chunks
             \/ Words(Text(segment), start, end') # {} /\ chunks' = Append(chunks, w)
      BY <2>1, KeepStep
    <3> HIDE DEF w
    <3>3. \A k : Text(k)' = Text(k)
      BY <3>1 DEF Text
    <3>4. GoodTypes'
      <4>1. chunks' \in Seq(Piece)
        <5>1. chunks \in Seq(Piece)
          BY DEF LoopInv, GoodTypes
        <5>. QED
          BY <3>2, <5>1
      <4>2. GoodConfig(config)'
        BY <3>1 DEF LoopInv, GoodTypes, GoodConfig
      <4>. QED
        BY <2>1, <3>1, <4>1, <4>2, WindowStep DEF LoopInv, GoodTypes
    <3>5. Follows'
      BY <2>1, <3>1, <3>3, WindowStep DEF Follows, InText
    <3>6. chunks \in Seq(Piece) /\ end < Len(Text(segment)) /\ config.size \in Nat
      BY <2>1 DEF Window, LoopInv, GoodTypes, GoodConfig
    <3>7. Words(Text(segment), start, end') # {} => Fit(w)
      <4>1. end' - start \in 1 .. config.size
        BY <2>1, <3>6, WindowStep DEF LoopInv, GoodTypes
      <4>. QED
        BY <3>1, <3>2, <4>1 DEF Fit, InText
    <3>8. AllFit'
      <4>1. ASSUME NEW n \in DOMAIN chunks' PROVE Fit(chunks'[n])
        <5>1. \/ chunks'[n] = w /\ Words(Text(segment), start, end') # {}
              \/ n \in DOMAIN chunks /\ chunks'[n] = chunks[n]
          <6>1. CASE chunks' = chunks
            BY <4>1, <6>1
          <6>2. CASE Words(Text(segment), start, end') # {} /\ chunks' = Append(chunks, w)
            BY <3>2, <3>6, <4>1, <6>2
          <6>. QED
            BY <3>2, <6>1, <6>2
        <5>. QED
          BY <3>7, <5>1 DEF LoopInv, AllFit
      <4>. QED
        BY <3>1, <3>3, <4>1 DEF AllFit, Fit
    <3>9. chunks # <<>> => Spaced(chunks[Len(chunks)], w)
      <4>1. ASSUME chunks # <<>> PROVE Spaced(chunks[Len(chunks)], w)
        <5>1. chunks[Len(chunks)] \in Piece
          BY <3>6, <4>1
        <5>2. /\ chunks[Len(chunks)].segment <= segment
              /\ chunks[Len(chunks)].segment = segment =>
                   /\ chunks[Len(chunks)].from < start
                   /\ chunks[Len(chunks)].to - config.overlap <= start
          BY <3>1, <3>6, <4>1 DEF LoopInv, LastBehind
        <5>3. /\ config.overlap \in Nat /\ start \in Nat /\ segment \in Nat
              /\ chunks[Len(chunks)].segment \in Nat /\ chunks[Len(chunks)].to \in Nat
              /\ w.segment = segment /\ w.from = start
          BY <3>2, <3>6, <5>1 DEF Piece, LoopInv, GoodTypes, GoodConfig
        <5>. QED
          BY <5>2, <5>3 DEF Spaced
      <4>. QED
        BY <4>1
    <3>10. AllSpaced'
      <4>1. CASE chunks' = chunks
        BY <3>1, <4>1 DEF LoopInv, AllSpaced, Spaced
      <4>2. CASE chunks' = Append(chunks, w)
        <5>1. ASSUME NEW n \in 2 .. Len(chunks') PROVE Spaced(chunks'[n - 1], chunks'[n])
          <6>1. CASE n = Len(chunks) + 1
            BY <3>6, <3>9, <4>2, <5>1, <6>1
          <6>2. CASE n \in 2 .. Len(chunks)
            BY <3>6, <4>2, <5>1, <6>2 DEF LoopInv, AllSpaced
          <6>. QED
            BY <3>6, <4>2, <5>1, <6>1, <6>2
        <5>. QED
          BY <3>1, <5>1 DEF Spaced, AllSpaced
      <4>. QED
        BY <3>2, <4>1, <4>2
    <3>11. LastBehind'
      <4>1. /\ end' < Len(Text(segment)) => start < start' /\ end' <= start' + config.overlap
            /\ start \in Nat /\ start' \in Nat /\ end' \in Nat /\ config.overlap \in Nat
            /\ Len(Text(segment)) \in Nat /\ segment \in Nat
        BY <2>1, WindowStep DEF LoopInv, GoodTypes, GoodConfig
      <4>2. CASE chunks' = chunks
        <5>1. ASSUME chunks # <<>>
              PROVE  LET c == chunks[Len(chunks)]
                     IN  /\ c.segment <= segment
                         /\ (c.segment = segment /\ end' < Len(Text(segment)))
                              => c.from < start' /\ c.to - config.overlap <= start'
          <6>1. chunks[Len(chunks)] \in Piece
            BY <3>6, <5>1
          <6>2. /\ chunks[Len(chunks)].segment <= segment
                /\ chunks[Len(chunks)].segment = segment =>
                     /\ chunks[Len(chunks)].from < start
                     /\ chunks[Len(chunks)].to - config.overlap <= start
            BY <3>1, <3>6, <5>1 DEF LoopInv, LastBehind
          <6>. QED
            BY <4>1, <6>1, <6>2 DEF Piece
        <5>. QED
          BY <3>1, <3>3, <4>2, <5>1 DEF LastBehind
      <4>3. CASE chunks' = Append(chunks, w)
        <5>1. chunks'[Len(chunks')] = w
          BY <3>6, <4>3
        <5>. QED
          BY <3>1, <3>2, <3>3, <4>1, <5>1 DEF LastBehind
      <4>. QED
        BY <3>2, <4>2, <4>3
    <3>12. NothingLost'
      <4>1. ASSUME NEW k, NEW q, InChunk(k, q) PROVE InChunk(k, q)'
        <5>1. PICK n \in DOMAIN chunks :
                chunks[n].segment = k /\ q \in chunks[n].from + 1 .. chunks[n].to
          BY <4>1 DEF InChunk
        <5>2. n \in DOMAIN chunks' /\ chunks'[n] = chunks[n]
          BY <3>2, <3>6, <5>1
        <5>. QED
          BY <5>1, <5>2 DEF InChunk
      <4>2. ASSUME NEW q \in Words(Text(segment), 0, Len(Text(segment))), end < q, q <= end'
            PROVE  InChunk(segment, q)'
        <5>1. q \in start + 1 .. end'
          BY <2>1, <4>2, WindowStep DEF Words, LoopInv, GoodTypes
        <5>2. q \in Words(Text(segment), start, end')
          BY <4>2, <5>1 DEF Words
        <5>3. chunks' = Append(chunks, w)
          BY <3>2, <5>2
        <5>4. Len(chunks') \in DOMAIN chunks' /\ chunks'[Len(chunks')] = w
          BY <3>6, <5>3
        <5>. QED
          BY <3>1, <3>2, <5>1, <5>4 DEF InChunk
      <4>3. ASSUME NEW k \in 1 .. Len(segments), NEW q \in Words(Text(k), 0, Len(Text(k))),
                   k < segment \/ (k = segment /\ q <= end')
            PROVE  InChunk(k, q)'
        <5>1. q \in Nat /\ end \in Nat
          <6>1. Len(Text(k)) \in Nat
            BY TextType DEF LoopInv, GoodTypes
          <6>. QED
            BY <6>1 DEF Words, LoopInv, GoodTypes
        <5>2. CASE k < segment \/ (k = segment /\ q <= end)
          BY <4>1, <4>3, <5>2 DEF LoopInv, NothingLost
        <5>3. CASE k = segment /\ end < q
          <6>1. q \in Words(Text(segment), 0, Len(Text(segment))) /\ q <= end'
            BY <4>3, <5>3
          <6>2. InChunk(segment, q)'
            BY <4>2, <5>3, <6>1
          <6>. QED
            BY <3>1, <5>3, <6>2 DEF InChunk
        <5>. QED
          BY <4>3, <5>1, <5>2, <5>3
      <4>. QED
        BY <3>1, <3>3, <4>3 DEF NothingLost
    <3>. QED
      BY <3>4, <3>5, <3>8, <3>10, <3>11, <3>12 DEF LoopInv
  <2>2. ASSUME NextSegment PROVE LoopInv'
    <3>1. UNCHANGED <<segments, config, chunks, outcome>> /\ InText
      BY <2>2 DEF NextSegment, InText
    <3>2. segment' = segment + 1 /\ start' = 0 /\ end' = 0 /\ end >= Len(Text(segment))
      BY <2>2 DEF NextSegment
    <3>3. \A k : Text(k)' = Text(k)
      BY <3>1 DEF Text
    <3>4. GoodTypes'
      BY <3>1, <3>2 DEF LoopInv, GoodTypes, GoodConfig, InText
    <3>5. Follows'
      BY <3>1, <3>2 DEF LoopInv, GoodTypes, GoodConfig, Follows
    <3>6. AllFit'
      BY <3>1, <3>3 DEF LoopInv, AllFit, Fit
    <3>7. AllSpaced'
      BY <3>1 DEF LoopInv, AllSpaced, Spaced
    <3>8. LastBehind'
      <4>1. ASSUME chunks # <<>> PROVE chunks[Len(chunks)].segment < segment + 1
        <5>1. chunks[Len(chunks)] \in Piece /\ segment \in Nat
          BY <4>1 DEF LoopInv, GoodTypes
        <5>. QED
          BY <4>1, <5>1 DEF LoopInv, LastBehind, Piece
      <4>2. ASSUME chunks # <<>> PROVE chunks[Len(chunks)].segment \in Nat /\ segment \in Nat
        <5>1. chunks[Len(chunks)] \in Piece /\ segment \in Nat
          BY <4>2 DEF LoopInv, GoodTypes
        <5>. QED
          BY <5>1 DEF Piece
      <4>. QED
        BY <3>1, <3>2, <4>1, <4>2 DEF LastBehind
    <3>9. NothingLost'
      <4>1. ASSUME NEW k \in 1 .. Len(segments), NEW q \in Words(Text(k), 0, Len(Text(k))),
                   k < segment + 1 \/ (k = segment + 1 /\ q <= 0)
            PROVE  InChunk(k, q)
        <5>1. Len(Text(k)) \in Nat /\ segment \in Nat
          BY TextType DEF LoopInv, GoodTypes
        <5>2. q \in 1 .. Len(Text(k))
          BY <5>1 DEF Words
        <5>3. k < segment \/ (k = segment /\ q <= end)
          BY <3>2, <4>1, <5>1, <5>2 DEF LoopInv, GoodTypes
        <5>. QED
          BY <5>3 DEF LoopInv, NothingLost
      <4>2. \A k, q : InChunk(k, q)' = InChunk(k, q)
        BY <3>1 DEF InChunk
      <4>. QED
        BY <3>1, <3>2, <3>3, <4>1, <4>2 DEF NothingLost
    <3>. QED
      BY <3>4, <3>5, <3>6, <3>7, <3>8, <3>9 DEF LoopInv
  <2>3. ASSUME Finish \/ UNCHANGED cutVars PROVE LoopInv'
    <3>1. UNCHANGED <<segments, config, segment, start, end, chunks>>
      BY <2>3 DEF Finish, cutVars
    <3>2. GoodTypes'
      BY <2>3, <3>1 DEF LoopInv, GoodTypes, GoodConfig, Finish, cutVars
    <3>3. \A k : Text(k)' = Text(k)
      BY <3>1 DEF Text
    <3>. QED
      BY <3>1, <3>2, <3>3 
      DEF LoopInv, Follows, AllFit, AllSpaced, Fit, Spaced, LastBehind, NothingLost, InChunk, InText
  <2>. QED
    BY <2>1, <2>2, <2>3 DEF CutNext
<1>. QED
  BY <1>1, <1>2, PTL DEF CutSpec

-----------------------------------------------------------------------------
(* What a reader should know *)

(* Every value stays in its type, the configuration's limits included. *)
THEOREM CutTypeCorrectness == CutSpec => []TypeOK
<1>1. LoopInv => TypeOK
  BY DEF LoopInv, GoodTypes, GoodConfig, TypeOK
<1>. QED
  BY <1>1, CutInvariance, PTL

(* No character that is not blank is left out (splitSegment). *)
THEOREM EveryWordIsCut == CutSpec => []NothingLost
<1>1. LoopInv => NothingLost
  BY DEF LoopInv
<1>. QED
  BY <1>1, CutInvariance, PTL

(* Chunks are no longer than Size, hold a word, and overlap by no more     *)
(* than Overlap (splitSegment, Build).                                     *)
THEOREM ChunksAreWellCut == CutSpec => []WellCut
<1>1. LoopInv => WellCut
  BY DEF LoopInv, AllFit, AllSpaced, Fit, Spaced, WellCut
<1>. QED
  BY <1>1, CutInvariance, PTL

(* Every turn of the loop starts later than the last, and takes new text   *)
(* in where the limits promise it (splitSegment's guard on next).          *)
THEOREM TheLoopAdvances == CutSpec => Progress
<1>1. ASSUME LoopInv, Window
      PROVE  /\ end' < Len(Text(segment)) => start' > start
             /\ \/ config.overlap <= config.minSize
                \/ config.overlap + config.lookback <= config.size
                => end' > end
  <2>1. /\ config.size \in Nat /\ config.overlap \in Nat
        /\ config.minSize \in Nat /\ config.lookback \in Nat
        /\ config.overlap < config.size
        /\ start \in Nat /\ end \in Nat /\ end < Len(Text(segment))
    BY <1>1 DEF LoopInv, GoodTypes, GoodConfig, Window
  <2>2. /\ Len(Text(segment)) \in Nat /\ end' \in Nat /\ start' \in Nat
        /\ end <= start + config.overlap
        /\ end' < Len(Text(segment)) => start < start'
        /\ \/ end' = Len(Text(segment))
           \/ end' = start + config.size
           \/ /\ start + config.minSize < end'
              /\ start + config.size - config.lookback < end'
    BY <1>1, WindowStep
  <2>3. end' < Len(Text(segment)) => start' > start
    BY <2>1, <2>2
  <2>4. CASE end' = Len(Text(segment)) \/ end' = start + config.size
    BY <2>1, <2>2, <2>4
  <2>5. CASE /\ start + config.minSize < end'
             /\ start + config.size - config.lookback < end'
    <3>1. config.overlap <= config.minSize => end' > end
      BY <2>1, <2>2, <2>5
    <3>2. config.overlap + config.lookback <= config.size => end' > end
      BY <2>1, <2>2, <2>5
    <3>. QED
      BY <2>3, <3>1, <3>2
  <2>. QED
    BY <2>2, <2>3, <2>4, <2>5
<1>. QED
  BY <1>1, CutInvariance, PTL DEF CutSpec, Progress

\* An interval has as many numbers as its last says.
LEMMA Interval ==
  ASSUME NEW n \in Nat
  PROVE  IsFiniteSet(1 .. n) /\ Cardinality(1 .. n) = n
<1>1. 1 \in Int /\ n \in Int
  OBVIOUS
<1>2. IsFiniteSet(1 .. n) /\ Cardinality(1 .. n) = IF 1 > n THEN 0 ELSE n - 1 + 1
  BY <1>1, FS_Interval
<1>3. QED
  BY <1>2

-----------------------------------------------------------------------------
(* Sorting *)

\* R orders the numbers up to N.
Orders(R, N) ==
  /\ \A j, k \in 1 .. N : j # k => <<j, k>> \in R \/ <<k, j>> \in R
  /\ \A j, k \in 1 .. N : ~(<<j, k>> \in R /\ <<k, j>> \in R)
  /\ \A i, j, k \in 1 .. N : <<i, j>> \in R /\ <<j, k>> \in R => <<i, k>> \in R

\* Who is ahead of the one at k.
AheadOf(R, N, k) == {j \in (1 .. N) \ {k} : <<j, k>> \in R}

\* Every place is somebody's.
LEMMA PlacesAreTaken ==
  ASSUME NEW N \in Nat, NEW list, DOMAIN list = 1 .. N, NEW R, Orders(R, N), NEW n \in 1 .. N
  PROVE  \E k \in 1 .. N : PlaceOf(list, R, k) = n
<1> DEFINE place == [k \in 1 .. N |-> PlaceOf(list, R, k)]
<1>1. IsFiniteSet(1 .. N) /\ Cardinality(1 .. N) = N
  BY Interval
<1>2. ASSUME NEW k \in 1 .. N
      PROVE  IsFiniteSet(AheadOf(R, N, k)) /\ Cardinality(AheadOf(R, N, k)) \in 0 .. N - 1
  <2>1. IsFiniteSet((1 .. N) \ {k}) /\ Cardinality((1 .. N) \ {k}) = N - 1
    BY <1>1, FS_RemoveElement
  <2>2. AheadOf(R, N, k) \in SUBSET ((1 .. N) \ {k})
    BY DEF AheadOf
  <2>3. IsFiniteSet(AheadOf(R, N, k)) /\ Cardinality(AheadOf(R, N, k)) <= N - 1
    BY <2>1, <2>2, FS_Subset
  <2>4. Cardinality(AheadOf(R, N, k)) \in Nat
    BY <2>3, FS_CardinalityType
  <2>5. QED
    BY <2>3, <2>4
<1>3. ASSUME NEW j \in 1 .. N, NEW k \in 1 .. N, <<j, k>> \in R, j # k
      PROVE  Cardinality(AheadOf(R, N, j)) < Cardinality(AheadOf(R, N, k))
  <2>1. AheadOf(R, N, j) \in SUBSET AheadOf(R, N, k) /\ j \in AheadOf(R, N, k) /\ j \notin AheadOf(R, N, j)
    BY <1>3 DEF Orders, AheadOf
  <2>2. /\ Cardinality(AheadOf(R, N, j)) <= Cardinality(AheadOf(R, N, k))
        /\ Cardinality(AheadOf(R, N, j)) # Cardinality(AheadOf(R, N, k))
    BY <1>2, <2>1, FS_Subset
  <2>3. QED
    BY <1>2, <2>2
<1>4. place \in Injection(1 .. N, 1 .. N)
  <2>0. \A k \in 1 .. N : place[k] = 1 + Cardinality(AheadOf(R, N, k))
    BY DEF PlaceOf, AheadOf
  <2>1. place \in [1 .. N -> 1 .. N]
    <3>1. \A k \in 1 .. N : place[k] \in 1 .. N
      BY <1>2, <2>0
    <3>2. QED
      BY <3>1
  <2>2. ASSUME NEW j \in 1 .. N, NEW k \in 1 .. N, j # k
        PROVE  place[j] # place[k]
    <3>1. /\ place[j] = 1 + Cardinality(AheadOf(R, N, j)) /\ place[k] = 1 + Cardinality(AheadOf(R, N, k))
          /\ Cardinality(AheadOf(R, N, j)) \in Nat /\ Cardinality(AheadOf(R, N, k)) \in Nat
      BY <1>2, <2>0
    <3>2. Cardinality(AheadOf(R, N, j)) < Cardinality(AheadOf(R, N, k)) \/ Cardinality(AheadOf(R, N, k)) < Cardinality(AheadOf(R, N, j))
      BY <1>3, <2>2 DEF Orders
    <3> HIDE DEF place
    <3>3. QED
      BY <3>1, <3>2
  <2> HIDE DEF place
  <2>3. QED
    BY <2>1, <2>2 DEF Injection, IsInjective
<1> HIDE DEF place
<1>5. place \in Surjection(1 .. N, 1 .. N)
  BY <1>1, <1>4, FS_Injection
<1>6. PICK k \in 1 .. N : place[k] = n
  BY <1>5 DEF Surjection
<1>7. QED
  BY <1>6 DEF place

\* What is sorted is still what it was.
LEMMA SortedStays ==
  ASSUME NEW S, NEW list \in Seq(S), NEW R, Orders(R, Len(list))
  PROVE  Arranged(list, R) \in Seq(S) /\ Len(Arranged(list, R)) = Len(list)
<1> DEFINE N == Len(list)
           From(n) == CHOOSE k \in DOMAIN list : PlaceOf(list, R, k) = n
<1>1. N \in Nat /\ DOMAIN list = 1 .. N /\ \A k \in 1 .. N : list[k] \in S
  OBVIOUS
<1>2. \A n \in 1 .. N : From(n) \in 1 .. N
  <2> SUFFICES ASSUME NEW n \in 1 .. N
               PROVE  From(n) \in 1 .. N
    OBVIOUS
  <2>1. \E k \in 1 .. N : PlaceOf(list, R, k) = n
    BY <1>1, PlacesAreTaken
  <2> HIDE DEF N
  <2>2. QED
    BY <1>1, <2>1
<1>3. Arranged(list, R) = [n \in 1 .. N |-> list[From(n)]]
  BY <1>1 DEF Arranged
<1> HIDE DEF From
<1>4. [n \in 1 .. N |-> list[From(n)]] \in Seq(S) /\ Len([n \in 1 .. N |-> list[From(n)]]) = N
  BY <1>1, <1>2
<1>5. QED
  BY <1>3, <1>4

\* The hits whose chunks are of a set.
Hits(S) == [chunk : S, score : Nat, source : {"vector", "keyword", "hybrid"}]

LEMMA HitFields ==
  ASSUME NEW S, NEW list \in Seq(Hits(S))
  PROVE  /\ Len(list) \in Nat /\ DOMAIN list = 1 .. Len(list)
         /\ \A k \in 1 .. Len(list) : /\ list[k] \in Hits(S) /\ list[k].score \in Nat
                                     /\ list[k].chunk \in S
<1>1. Len(list) \in Nat /\ list \in [1 .. Len(list) -> Hits(S)]
  OBVIOUS
<1>2. QED
  BY <1>1 DEF Hits

\* Numbers order a list by score, equally good ones as they come.
LEMMA SortedByScore ==
  ASSUME NEW S, NEW list \in Seq(Hits(S))
  PROVE  /\ StableSort(list, Better) \in Seq(Hits(S))
         /\ Len(StableSort(list, Better)) = Len(list)
<1> DEFINE N == Len(list)
           R == {p \in (DOMAIN list) \X (DOMAIN list) :
                    \/ Better(list[p[1]], list[p[2]])
                    \/ (p[1] < p[2] /\ ~Better(list[p[2]], list[p[1]]))}
<1>1. N \in Nat /\ DOMAIN list = 1 .. N /\ \A k \in 1 .. N : list[k].score \in Nat
  BY HitFields
<1>2. \A j, k \in 1 .. N :
        <<j, k>> \in R <=> \/ list[j].score > list[k].score
                          \/ (j < k /\ ~(list[k].score > list[j].score))
  <2> SUFFICES ASSUME NEW j \in 1 .. N, NEW k \in 1 .. N
               PROVE  <<j, k>> \in R <=> \/ list[j].score > list[k].score
                                        \/ (j < k /\ ~(list[k].score > list[j].score))
    OBVIOUS
  <2>1. <<j, k>> \in (DOMAIN list) \X (DOMAIN list)
    BY <1>1
  <2>2. QED
    BY <2>1 DEF Better
<1> HIDE DEF R
<1>3. Orders(R, N)
  BY <1>1, <1>2 DEF Orders
<1>4. QED
  BY <1>3, SortedStays DEF StableSort, R

\* The same with ties broken by ChunkIndex.
TiesBroken(list) ==
  {p \in (DOMAIN list) \X (DOMAIN list) :
     \/ BetterOrEarlier(list[p[1]], list[p[2]])
     \/ (p[1] < p[2] /\ ~BetterOrEarlier(list[p[2]], list[p[1]]))}

LEMMA OrderedByScoreAndPlace ==
  ASSUME NEW S \in SUBSET Chunk, NEW list \in Seq(Hits(S))
  PROVE  Orders(TiesBroken(list), Len(list))
<1> DEFINE N == Len(list)
           at(k) == IndexOf[list[k].chunk]
           R == TiesBroken(list)
<1>1. /\ N \in Nat /\ DOMAIN list = 1 .. N
      /\ \A k \in 1 .. N : list[k].score \in Nat /\ at(k) \in Nat
  BY HitFields, PolicyAssumption
<1> DEFINE better(a, b) == \/ list[a].score > list[b].score
                          \/ (list[a].score = list[b].score /\ at(a) < at(b))
<1>2. \A j, k \in 1 .. N : <<j, k>> \in R <=> better(j, k) \/ (j < k /\ ~better(k, j))
  <2> SUFFICES ASSUME NEW j \in 1 .. N, NEW k \in 1 .. N
               PROVE  <<j, k>> \in R <=> better(j, k) \/ (j < k /\ ~better(k, j))
    OBVIOUS
  <2>1. <<j, k>> \in (DOMAIN list) \X (DOMAIN list)
    BY <1>1
  <2>2. QED
    BY <2>1 DEF BetterOrEarlier, TiesBroken
<1> HIDE DEF R, at
<1>3. Orders(R, N)
  <2>1. \A j, k \in 1 .. N : j # k => <<j, k>> \in R \/ <<k, j>> \in R
    BY <1>1, <1>2
  <2>2. ASSUME NEW j \in 1 .. N, NEW k \in 1 .. N, <<j, k>> \in R, <<k, j>> \in R
        PROVE  FALSE
    <3>1. /\ better(j, k) \/ (j < k /\ ~better(k, j))
          /\ better(k, j) \/ (k < j /\ ~better(j, k))
      BY <1>2, <2>2
    <3>2. QED
      BY <1>1, <3>1
  <2>3. ASSUME NEW i \in 1 .. N, NEW j \in 1 .. N, NEW k \in 1 .. N,
               <<i, j>> \in R, <<j, k>> \in R
        PROVE  <<i, k>> \in R
    <3>1. /\ better(i, j) \/ (i < j /\ ~better(j, i))
          /\ better(j, k) \/ (j < k /\ ~better(k, j))
      BY <1>2, <2>3
    <3>2. better(i, k) \/ (i < k /\ ~better(k, i))
      BY <1>1, <3>1
    <3>3. QED
      BY <1>2, <3>2
  <2>4. QED
    BY <2>1, <2>2, <2>3 DEF Orders
<1>4. QED
  BY <1>3 DEF R

LEMMA SortedByScoreAndPlace ==
  ASSUME NEW S \in SUBSET Chunk, NEW list \in Seq(Hits(S))
  PROVE  /\ StableSort(list, BetterOrEarlier) \in Seq(Hits(S))
         /\ Len(StableSort(list, BetterOrEarlier)) = Len(list)
<1>1. StableSort(list, BetterOrEarlier) = Arranged(list, TiesBroken(list))
  BY DEF StableSort, TiesBroken
<1>2. QED
  BY <1>1, OrderedByScoreAndPlace, SortedStays

-----------------------------------------------------------------------------
(* Fusion and ranking keep to the chunks found *)

\* The numbers the policy is made of.
LEMMA Limits ==
  /\ CandidateTopK \in Nat /\ CitationLimit \in Nat
  /\ \A score \in Int : Clamp(score) \in Nat
<1>1. TopK * Multiplier \in Nat
  BY PolicyAssumption
<1>2. CandidateTopK \in Nat /\ CitationLimit \in Nat
  BY <1>1, PolicyAssumption DEF CandidateTopK, CitationLimit, Least
<1>3. \A score \in Int : Clamp(score) \in Nat
  BY DEF Clamp, Greatest, Least, Unit
<1>4. QED
  BY <1>2, <1>3

\* A quotient of numbers is a number.
LEMMA Quotient ==
  \A a \in Nat, b \in Nat : b # 0 => a \div b \in Nat
OBVIOUS

\* The scores of a list that is not empty have a largest and a smallest.
LEMMA Extremes ==
  ASSUME NEW S, NEW list \in Seq(Hits(S)), Len(list) # 0
  PROVE  /\ Max(ScoresOf(list)) \in ScoresOf(list) /\ Min(ScoresOf(list)) \in ScoresOf(list)
         /\ \A s \in ScoresOf(list) : Min(ScoresOf(list)) <= s
<1> DEFINE N == Len(list)
           Bounded(n) == \E b \in Nat : \A k \in 1 .. n : list[k].score <= b
           P == {n \in Nat : n <= N => Bounded(n)}
<1>1. N \in Nat /\ DOMAIN list = 1 .. N /\ \A k \in 1 .. N : list[k].score \in Nat
  BY HitFields
<1>2. ScoresOf(list) = {list[k].score : k \in 1 .. N}
  BY <1>1 DEF ScoresOf
<1>3. ScoresOf(list) \in SUBSET Nat /\ ScoresOf(list) # {}
  <2>1. 1 \in 1 .. N
    BY <1>1
  <2>2. QED
    BY <1>1, <1>2, <2>1
<1>4. Nat \subseteq P
  <2>1. 0 \in P
    OBVIOUS
  <2>2. ASSUME NEW n \in Nat, n \in P, n + 1 <= N
        PROVE  Bounded(n + 1)
    <3>1. PICK b \in Nat : \A k \in 1 .. n : list[k].score <= b
      BY <1>1, <2>2
    <3>2. list[n + 1].score \in Nat
      BY <1>1, <2>2
    <3>3. b + list[n + 1].score \in Nat
      BY <3>2
    <3>4. ASSUME NEW k \in 1 .. n + 1
          PROVE  list[k].score <= b + list[n + 1].score
      <4>1. list[k].score \in Nat
        BY <1>1, <2>2
      <4>2. CASE k = n + 1
        BY <3>2, <4>2
      <4>3. CASE k # n + 1
        <5>1. k \in 1 .. n
          BY <4>3
        <5>2. list[k].score <= b
          BY <3>1, <5>1
        <5>3. QED
          BY <3>2, <4>1, <5>2
      <4>4. QED
        BY <4>2, <4>3
    <3>5. QED
      BY <3>3, <3>4
  <2> HIDE DEF Bounded
  <2>3. \A n \in Nat : n \in P => n + 1 \in P
    BY <2>2
  <2> HIDE DEF P
  <2>4. QED
    BY <2>1, <2>3, SetInduction
<1>5. PICK b \in Nat : \A k \in 1 .. N : list[k].score <= b
  <2>1. N \in P
    BY <1>1, <1>4
  <2> HIDE DEF N
  <2>2. Bounded(N)
    BY <2>1
  <2>3. QED
    BY <2>2
<1>6. ScoresOf(list) \in SUBSET (0 .. b)
  BY <1>1, <1>2, <1>5
<1>7. Max(ScoresOf(list)) \in ScoresOf(list)
  BY <1>3, <1>6, MaxIsMember
<1>8. PICK low \in ScoresOf(list) : \A s \in ScoresOf(list) : low <= s
  BY <1>3, LeastNat
<1>9. /\ Min(ScoresOf(list)) \in ScoresOf(list)
      /\ \A s \in ScoresOf(list) : Min(ScoresOf(list)) <= s
  BY <1>8 DEF Min
<1>10. QED
  BY <1>7, <1>9

\* Normalizing changes no chunk.
LEMMA NormalizedStays ==
  ASSUME NEW S, NEW list \in Seq(Hits(S))
  PROVE  Normalized(list) \in Seq(Hits(S))
<1> DEFINE N   == Len(list)
           top == Max(ScoresOf(list))
           low == Min(ScoresOf(list))
           score(n) == IF top = low THEN Unit ELSE ((list[n].score - low) * Unit) \div (top - low)
<1>1. N \in Nat /\ DOMAIN list = 1 .. N /\ \A k \in 1 .. N : list[k] \in Hits(S) /\ list[k].score \in Nat
  BY HitFields
<1>2. ASSUME NEW n \in 1 .. N
      PROVE  score(n) \in Nat
  <2>1. /\ top \in ScoresOf(list) /\ low \in ScoresOf(list) /\ \A s \in ScoresOf(list) : low <= s
    <3>1. N # 0
      BY <1>1
    <3>2. QED
      BY <3>1, Extremes
  <2>2. list[n].score \in ScoresOf(list) /\ ScoresOf(list) \subseteq Nat
    BY <1>1 DEF ScoresOf
  <2> HIDE DEF top, low
  <2>3. /\ list[n].score - low \in Nat /\ Unit \in Nat /\ top - low \in Nat
        /\ top # low => top - low # 0
    BY <2>1, <2>2 DEF Unit
  <2>4. (list[n].score - low) * Unit \in Nat
    BY <2>3
  <2>5. QED
    BY <2>3, <2>4, Quotient
<1> DEFINE changed == [n \in 1 .. N |-> [list[n] EXCEPT !.score = score(n)]]
<1>3. Normalized(list) = changed
  BY <1>1 DEF Normalized
<1> HIDE DEF score
<1>4. \A n \in 1 .. N : changed[n] \in Hits(S)
  BY <1>1, <1>2 DEF Hits
<1> HIDE DEF changed
<1>5. changed \in Seq(Hits(S))
  <2>1. changed = [n \in 1 .. N |-> changed[n]]
    BY DEF changed
  <2>2. QED
    BY <1>1, <1>4, <2>1
<1>6. QED
  BY <1>3, <1>5

-----------------------------------------------------------------------------
(* The loops, one turn after the other *)

\* The plan of a question that is rewritten as first.
Asked(first, parts) == FoldLeft(AskPart, [queries |-> <<first>>, full |-> FALSE], parts)

\* The list that mergeChunks builds upon the lifted hits of the first.
Joined(primary, lifted, list) ==
  FoldLeft(LAMBDA merged, hit : AddUnlisted(primary, merged, hit), lifted, list)

\* buildQueryPlan takes one part after the other.
LEMMA AskSteps ==
  ASSUME NEW Q, NEW parts \in Seq(Q), NEW first \in Q
  PROVE  Asked(first, parts) \in [queries : Seq(Q), full : BOOLEAN]
<1> DEFINE N == Len(parts)
           Acc == [queries : Seq(Q), full : BOOLEAN]
           base == [queries |-> <<first>>, full |-> FALSE]
           F == [p \in [queries : Seq(Q), full : BOOLEAN] \X (1 .. N) |-> AskPart(p[1], parts[p[2]])]
           Iterates(it) == it = [s \in SUBSET (1 .. N) |->
              IF s = {} THEN [queries |-> <<first>>, full |-> FALSE] ELSE AskPart(it[s \ {Max(s)}], parts[Max(s)])]
           g == CHOOSE it : Iterates(it)
<1>1. N \in Nat /\ DOMAIN parts = 1 .. N /\ \A i \in 1 .. N : parts[i] \in Q
  OBVIOUS
<1>2. F \in [Acc \X (1 .. N) -> Acc] /\ base \in Acc
  <2>1. ASSUME NEW plan \in Acc, NEW part \in Q
        PROVE  AskPart(plan, part) \in Acc
    <3>1. AppendUnique(plan.queries, part) \in Seq(Q)
      BY DEF AppendUnique
    <3> HIDE DEF F, N
    <3>2. QED
      BY <3>1 DEF AskPart
  <2>2. base \in Acc
    OBVIOUS
  <2>3. QED
    BY <1>1, <2>1, <2>2
<1>3. Asked(first, parts) = g[1 .. N]
  BY <1>1 DEF Asked, FoldLeft, MapThenFoldSet
<1>4. \A s \in SUBSET (1 .. N) : s # {} => Max(s) \in 1 .. N
  <2> SUFFICES ASSUME NEW s \in SUBSET (1 .. N), s # {}
               PROVE  Max(s) \in 1 .. N
    OBVIOUS
  <2>1. s \in SUBSET (0 .. N) /\ N \in Nat
    BY <1>1
  <2>2. Max(s) \in s
    BY <2>1, MaxIsMember
  <2>3. QED
    BY <2>2
<1>5. \E it : Iterates(it)
  <2>1. PICK it \in [SUBSET (1 .. N) -> Acc] : Folds(it, N, base, F)
    <3> HIDE DEF F, N, Acc, base
    <3>1. QED
      BY <1>1, <1>2, FoldExists
  <2>2. ASSUME NEW s \in SUBSET (1 .. N)
        PROVE  it[s] = IF s = {} THEN [queries |-> <<first>>, full |-> FALSE] ELSE AskPart(it[s \ {Max(s)}], parts[Max(s)])
    <3>1. s # {} => Max(s) \in 1 .. N /\ it[s \ {Max(s)}] \in Acc
      BY <1>4, <2>1
    <3>2. QED
      BY <2>1, <3>1 DEF Folds
  <2>3. Iterates(it)
    BY <2>2
  <2>4. QED
    BY <2>3
<1>6. Iterates(g)
  BY <1>5
<1> HIDE DEF g
<1>7. Unrolls(g, N, Acc, base, F)
  <2>1. g[{}] = base
    BY <1>6
  <2>2. ASSUME NEW s \in SUBSET (1 .. N), s # {}, g[s \ {Max(s)}] \in Acc
        PROVE  g[s] = F[<<g[s \ {Max(s)}], Max(s)>>]
    BY <1>4, <1>6, <2>2
  <2> HIDE DEF F, N, Acc, base
  <2>3. QED
    BY <2>1, <2>2 DEF Unrolls
<1>8. PICK f \in [0 .. N -> Acc] : Chain(f, g, N, base, F)
  <2> HIDE DEF F, N, Acc, base
  <2>1. QED
    BY <1>1, <1>2, <1>7, FoldPrefixes
<1>9. f[N] \in Acc
  <2>1. N \in 0 .. N
    BY <1>1
  <2> HIDE DEF F, Acc, base
  <2>2. QED
    BY <2>1
<1>10. QED
  BY <1>3, <1>8, <1>9 DEF Chain

\* After each hit, the list that mergeChunks has built.
MergeTurns(f, S, primary, lifted, list) ==
  /\ f \in [0 .. Len(list) -> Seq(Hits(S))]
  /\ f[0] = lifted
  /\ \A j \in 1 .. Len(list) : f[j] = AddUnlisted(primary, f[j - 1], list[j])
  /\ Joined(primary, lifted, list) = f[Len(list)]

\* mergeChunks adds one hit of the second list after the other.
LEMMA MergeSteps ==
  ASSUME NEW S, NEW primary, NEW lifted \in Seq(Hits(S)), NEW list \in Seq(Hits(S))
  PROVE  \E f : MergeTurns(f, S, primary, lifted, list)
<1> DEFINE N == Len(list)
           Acc == Seq(Hits(S))
           base == lifted
           F == [p \in Seq(Hits(S)) \X (1 .. N) |-> AddUnlisted(primary, p[1], list[p[2]])]
           Iterates(it) == it = [s \in SUBSET (1 .. N) |->
              IF s = {} THEN lifted ELSE AddUnlisted(primary, it[s \ {Max(s)}], list[Max(s)])]
           g == CHOOSE it : Iterates(it)
<1>1. N \in Nat /\ DOMAIN list = 1 .. N /\ \A i \in 1 .. N : list[i] \in Hits(S)
  BY HitFields
<1>2. F \in [Acc \X (1 .. N) -> Acc] /\ base \in Acc
  <2>1. ASSUME NEW merged \in Seq(Hits(S)), NEW i \in 1 .. N
        PROVE  AddUnlisted(primary, merged, list[i]) \in Seq(Hits(S))
    BY <1>1 DEF AddUnlisted
  <2>2. QED
    BY <2>1
<1>3. Joined(primary, lifted, list) = g[1 .. N]
  BY <1>1 DEF Joined, FoldLeft, MapThenFoldSet
<1>4. \A s \in SUBSET (1 .. N) : s # {} => Max(s) \in 1 .. N
  <2> SUFFICES ASSUME NEW s \in SUBSET (1 .. N), s # {}
               PROVE  Max(s) \in 1 .. N
    OBVIOUS
  <2>1. s \in SUBSET (0 .. N) /\ N \in Nat
    BY <1>1
  <2>2. Max(s) \in s
    BY <2>1, MaxIsMember
  <2>3. QED
    BY <2>2
<1>5. \E it : Iterates(it)
  <2>1. PICK it \in [SUBSET (1 .. N) -> Acc] : Folds(it, N, base, F)
    <3> HIDE DEF F, N, Acc, base
    <3>1. QED
      BY <1>1, <1>2, FoldExists
  <2>2. ASSUME NEW s \in SUBSET (1 .. N)
        PROVE  it[s] = IF s = {} THEN lifted ELSE AddUnlisted(primary, it[s \ {Max(s)}], list[Max(s)])
    <3>1. s # {} => Max(s) \in 1 .. N /\ it[s \ {Max(s)}] \in Acc
      BY <1>4, <2>1
    <3>2. QED
      BY <2>1, <3>1 DEF Folds
  <2>3. Iterates(it)
    BY <2>2
  <2>4. QED
    BY <2>3
<1>6. Iterates(g)
  BY <1>5
<1> HIDE DEF g
<1>7. Unrolls(g, N, Acc, base, F)
  <2>1. g[{}] = base
    BY <1>6
  <2>2. ASSUME NEW s \in SUBSET (1 .. N), s # {}, g[s \ {Max(s)}] \in Acc
        PROVE  g[s] = F[<<g[s \ {Max(s)}], Max(s)>>]
    BY <1>4, <1>6, <2>2
  <2> HIDE DEF F, N, Acc, base
  <2>3. QED
    BY <2>1, <2>2 DEF Unrolls
<1>8. PICK f \in [0 .. N -> Acc] : Chain(f, g, N, base, F)
  <2> HIDE DEF F, N, Acc, base
  <2>1. QED
    BY <1>1, <1>2, <1>7, FoldPrefixes
<1>9. \A j \in 1 .. N : f[j] = AddUnlisted(primary, f[j - 1], list[j])
  <2> SUFFICES ASSUME NEW j \in 1 .. N
               PROVE  f[j] = AddUnlisted(primary, f[j - 1], list[j])
    OBVIOUS
  <2>1. f[j - 1] \in Acc
    <3>1. j - 1 \in 0 .. N
      BY <1>1
    <3> HIDE DEF F, Acc, base
    <3>2. QED
      BY <3>1
  <2>2. QED
    BY <1>8, <2>1 DEF Chain
<1>10. QED
  BY <1>3, <1>8, <1>9 DEF Chain, MergeTurns

\* trimEffectiveChunks looks at one hit after the other.
LEMMA KeepSteps ==
  ASSUME NEW S, NEW list \in Seq(Hits(S)), NEW least
  PROVE  \E f \in [0 .. Len(list) -> Seq(Hits(S))] :
           /\ f[0] = <<>>
           /\ \A j \in 1 .. Len(list) : f[j] = Keep(f[j - 1], list[j], least)
           /\ Kept(list, least) = f[Len(list)]
<1> DEFINE N == Len(list)
           Acc == Seq(Hits(S))
           base == <<>>
           F == [p \in Seq(Hits(S)) \X (1 .. N) |-> Keep(p[1], list[p[2]], least)]
           Iterates(it) == it = [s \in SUBSET (1 .. N) |->
              IF s = {} THEN <<>> ELSE Keep(it[s \ {Max(s)}], list[Max(s)], least)]
           g == CHOOSE it : Iterates(it)
<1>1. N \in Nat /\ DOMAIN list = 1 .. N /\ \A i \in 1 .. N : list[i] \in Hits(S)
  BY HitFields
<1>2. F \in [Acc \X (1 .. N) -> Acc] /\ base \in Acc
  <2>1. ASSUME NEW kept \in Seq(Hits(S)), NEW i \in 1 .. N
        PROVE  Keep(kept, list[i], least) \in Seq(Hits(S))
    BY <1>1 DEF Keep
  <2>2. QED
    BY <2>1
<1>3. Kept(list, least) = g[1 .. N]
  BY <1>1 DEF Kept, FoldLeft, MapThenFoldSet
<1>4. \A s \in SUBSET (1 .. N) : s # {} => Max(s) \in 1 .. N
  <2> SUFFICES ASSUME NEW s \in SUBSET (1 .. N), s # {}
               PROVE  Max(s) \in 1 .. N
    OBVIOUS
  <2>1. s \in SUBSET (0 .. N) /\ N \in Nat
    BY <1>1
  <2>2. Max(s) \in s
    BY <2>1, MaxIsMember
  <2>3. QED
    BY <2>2
<1>5. \E it : Iterates(it)
  <2>1. PICK it \in [SUBSET (1 .. N) -> Acc] : Folds(it, N, base, F)
    <3> HIDE DEF F, N, Acc, base
    <3>1. QED
      BY <1>1, <1>2, FoldExists
  <2>2. ASSUME NEW s \in SUBSET (1 .. N)
        PROVE  it[s] = IF s = {} THEN <<>> ELSE Keep(it[s \ {Max(s)}], list[Max(s)], least)
    <3>1. s # {} => Max(s) \in 1 .. N /\ it[s \ {Max(s)}] \in Acc
      BY <1>4, <2>1
    <3>2. QED
      BY <2>1, <3>1 DEF Folds
  <2>3. Iterates(it)
    BY <2>2
  <2>4. QED
    BY <2>3
<1>6. Iterates(g)
  BY <1>5
<1> HIDE DEF g
<1>7. Unrolls(g, N, Acc, base, F)
  <2>1. g[{}] = base
    BY <1>6
  <2>2. ASSUME NEW s \in SUBSET (1 .. N), s # {}, g[s \ {Max(s)}] \in Acc
        PROVE  g[s] = F[<<g[s \ {Max(s)}], Max(s)>>]
    BY <1>4, <1>6, <2>2
  <2> HIDE DEF F, N, Acc, base
  <2>3. QED
    BY <2>1, <2>2 DEF Unrolls
<1>8. PICK f \in [0 .. N -> Acc] : Chain(f, g, N, base, F)
  <2> HIDE DEF F, N, Acc, base
  <2>1. QED
    BY <1>1, <1>2, <1>7, FoldPrefixes
<1>9. \A j \in 1 .. N : f[j] = Keep(f[j - 1], list[j], least)
  <2> SUFFICES ASSUME NEW j \in 1 .. N
               PROVE  f[j] = Keep(f[j - 1], list[j], least)
    OBVIOUS
  <2>1. f[j - 1] \in Acc
    <3>1. j - 1 \in 0 .. N
      BY <1>1
    <3> HIDE DEF F, Acc, base
    <3>2. QED
      BY <3>1
  <2>2. QED
    BY <1>8, <2>1 DEF Chain
<1>10. QED
  BY <1>3, <1>8, <1>9 DEF Chain

\* The entries whose chunks are of a set.
Entries(S) == [chunks : Seq(S), index : Nat, score : Nat]

\* A hit finds its place among the entries.
LEMMA PlaceTypes ==
  ASSUME NEW S \in SUBSET Chunk, NEW entries \in Seq(Entries(S)), NEW hit \in Hits(S)
  PROVE  /\ Place(entries, hit) \in Seq(Entries(S))
         /\ Entry(hit) \in Entries(S)
         /\ \A entry \in Entries(S) : Absorb(entry, hit) \in Entries(S)
<1> DEFINE near == {n \in DOMAIN entries : Adjoins(entries[n], hit.chunk)}
<1>1. /\ hit.chunk \in S /\ hit.score \in Nat /\ IndexOf[hit.chunk] \in Nat
      /\ Len(entries) \in Nat /\ DOMAIN entries = 1 .. Len(entries)
  BY PolicyAssumption DEF Hits
<1>2. Entry(hit) \in Entries(S)
  BY <1>1 DEF Entry, Entries
<1>3. ASSUME NEW entry \in Entries(S)
      PROVE  Absorb(entry, hit) \in Entries(S)
  <2>1. Greatest(entry.score, hit.score) \in Nat /\ entry.chunks \in Seq(S) /\ entry.index \in Nat
    BY <1>1 DEF Greatest, Entries
  <2>2. <<hit.chunk>> \o entry.chunks \in Seq(S) /\ Append(entry.chunks, hit.chunk) \in Seq(S)
    BY <1>1, <2>1
  <2>3. QED
    BY <1>1, <2>1, <2>2 DEF Absorb, Entries
<1>4. CASE near = {}
  <2>1. Place(entries, hit) = Append(entries, Entry(hit))
    BY <1>4 DEF Place
  <2>2. QED
    BY <1>2, <1>3, <2>1
<1>5. CASE near # {}
  <2>1. near \in SUBSET Nat
    BY <1>1
  <2>2. Min(near) \in near
    <3> HIDE DEF near
    <3>1. QED
      BY <1>5, <2>1, LeastNat DEF Min
  <2>3. entries[Min(near)] \in Entries(S) /\ Min(near) \in 1 .. Len(entries)
    <3>1. entries \in [1 .. Len(entries) -> Entries(S)]
      OBVIOUS
    <3>2. QED
      BY <1>1, <2>2, <3>1
  <2>4. Place(entries, hit) = [entries EXCEPT ![Min(near)] = Absorb(entries[Min(near)], hit)]
    BY <1>5 DEF Place
  <2> HIDE DEF near
  <2>5. QED
    BY <1>2, <1>3, <2>3, <2>4
<1>6. QED
  BY <1>4, <1>5

\* mergeAdjacentChunks places one hit after the other.
LEMMA PlaceSteps ==
  ASSUME NEW S \in SUBSET Chunk, NEW list \in Seq(Hits(S))
  PROVE  \E f \in [0 .. Len(list) -> Seq(Entries(S))] :
           /\ f[0] = <<>>
           /\ \A j \in 1 .. Len(list) : f[j] = Place(f[j - 1], list[j])
           /\ MergeAdjacent(list) = f[Len(list)]
<1> DEFINE N == Len(list)
           Acc == Seq(Entries(S))
           base == <<>>
           F == [p \in Seq(Entries(S)) \X (1 .. N) |-> Place(p[1], list[p[2]])]
           Iterates(it) == it = [s \in SUBSET (1 .. N) |->
              IF s = {} THEN <<>> ELSE Place(it[s \ {Max(s)}], list[Max(s)])]
           g == CHOOSE it : Iterates(it)
<1>1. N \in Nat /\ DOMAIN list = 1 .. N /\ \A i \in 1 .. N : list[i] \in Hits(S)
  BY HitFields
<1>2. F \in [Acc \X (1 .. N) -> Acc] /\ base \in Acc
  <2>1. ASSUME NEW entries \in Seq(Entries(S)), NEW i \in 1 .. N
        PROVE  Place(entries, list[i]) \in Seq(Entries(S))
    BY <1>1, PlaceTypes
  <2>2. QED
    BY <2>1
<1>3. MergeAdjacent(list) = g[1 .. N]
  BY <1>1 DEF MergeAdjacent, FoldLeft, MapThenFoldSet
<1>4. \A s \in SUBSET (1 .. N) : s # {} => Max(s) \in 1 .. N
  <2> SUFFICES ASSUME NEW s \in SUBSET (1 .. N), s # {}
               PROVE  Max(s) \in 1 .. N
    OBVIOUS
  <2>1. s \in SUBSET (0 .. N) /\ N \in Nat
    BY <1>1
  <2>2. Max(s) \in s
    BY <2>1, MaxIsMember
  <2>3. QED
    BY <2>2
<1>5. \E it : Iterates(it)
  <2>1. PICK it \in [SUBSET (1 .. N) -> Acc] : Folds(it, N, base, F)
    <3> HIDE DEF F, N, Acc, base
    <3>1. QED
      BY <1>1, <1>2, FoldExists
  <2>2. ASSUME NEW s \in SUBSET (1 .. N)
        PROVE  it[s] = IF s = {} THEN <<>> ELSE Place(it[s \ {Max(s)}], list[Max(s)])
    <3>1. s # {} => Max(s) \in 1 .. N /\ it[s \ {Max(s)}] \in Acc
      BY <1>4, <2>1
    <3>2. QED
      BY <2>1, <3>1 DEF Folds
  <2>3. Iterates(it)
    BY <2>2
  <2>4. QED
    BY <2>3
<1>6. Iterates(g)
  BY <1>5
<1> HIDE DEF g
<1>7. Unrolls(g, N, Acc, base, F)
  <2>1. g[{}] = base
    BY <1>6
  <2>2. ASSUME NEW s \in SUBSET (1 .. N), s # {}, g[s \ {Max(s)}] \in Acc
        PROVE  g[s] = F[<<g[s \ {Max(s)}], Max(s)>>]
    BY <1>4, <1>6, <2>2
  <2> HIDE DEF F, N, Acc, base
  <2>3. QED
    BY <2>1, <2>2 DEF Unrolls
<1>8. PICK f \in [0 .. N -> Acc] : Chain(f, g, N, base, F)
  <2> HIDE DEF F, N, Acc, base
  <2>1. QED
    BY <1>1, <1>2, <1>7, FoldPrefixes
<1>9. \A j \in 1 .. N : f[j] = Place(f[j - 1], list[j])
  <2> SUFFICES ASSUME NEW j \in 1 .. N
               PROVE  f[j] = Place(f[j - 1], list[j])
    OBVIOUS
  <2>1. f[j - 1] \in Acc
    <3>1. j - 1 \in 0 .. N
      BY <1>1
    <3> HIDE DEF F, Acc, base
    <3>2. QED
      BY <3>1
  <2>2. QED
    BY <1>8, <2>1 DEF Chain
<1>10. QED
  BY <1>3, <1>8, <1>9 DEF Chain

-----------------------------------------------------------------------------
(* What goes through them is a list of hits *)

LEMMA Planned ==
  ASSUME NEW Q, NEW question \in [rewritten : Q, parts : Seq(Q)]
  PROVE  BuildQueryPlan(question) \in Seq(Q)
<1> DEFINE parts == question.parts
           first == question.rewritten
<1>1. parts \in Seq(Q) /\ first \in Q
  OBVIOUS
<1>2. BuildQueryPlan(question) = Asked(first, parts).queries
  BY DEF BuildQueryPlan, Asked
<1> HIDE DEF parts, first
<1>3. Asked(first, parts) \in [queries : Seq(Q), full : BOOLEAN]
  BY <1>1, AskSteps
<1>4. QED
  BY <1>2, <1>3

\* A chunk that a list has is found there.
LEMMA HitFound ==
  ASSUME NEW S, NEW list \in Seq(Hits(S)), NEW c \in Listed(list)
  PROVE  HitOf(list, c) \in Hits(S) /\ HitOf(list, c).score \in Nat
<1>1. DOMAIN list = 1 .. Len(list) /\ \A k \in 1 .. Len(list) : list[k] \in Hits(S) /\ list[k].score \in Nat
  BY HitFields
<1>2. \E n \in DOMAIN list : list[n].chunk = c
  BY DEF Listed
<1>3. (CHOOSE n \in DOMAIN list : list[n].chunk = c) \in DOMAIN list
  BY <1>2
<1>4. QED
  BY <1>1, <1>3 DEF HitOf

\* Fusion adds no chunk to those of the two lists.
\* What mergeChunks makes of the first list.
Hybrid(secondary, hit) ==
  [chunk |-> hit.chunk,
   score |-> Clamp(Greatest(hit.score, HitOf(secondary, hit.chunk).score) + Unit \div 10),
   source |-> "hybrid"]

Lifted(primary, secondary) ==
  [n \in DOMAIN primary |->
     IF primary[n].chunk \in Listed(secondary) THEN Hybrid(secondary, primary[n]) ELSE primary[n]]

LEMMA LiftedStays ==
  ASSUME NEW S, NEW primary \in Seq(Hits(S)), NEW secondary \in Seq(Hits(S))
  PROVE  Lifted(primary, secondary) \in Seq(Hits(S))
<1>1. /\ Len(primary) \in Nat /\ DOMAIN primary = 1 .. Len(primary)
      /\ \A k \in 1 .. Len(primary) : /\ primary[k] \in Hits(S) /\ primary[k].score \in Nat
                                     /\ primary[k].chunk \in S
  BY HitFields
<1>2. ASSUME NEW hit \in Hits(S), hit.chunk \in Listed(secondary)
      PROVE  Hybrid(secondary, hit) \in Hits(S)
  <2>1. hit.chunk \in S /\ hit.score \in Nat
    BY DEF Hits
  <2>2. HitOf(secondary, hit.chunk).score \in Nat
    BY <1>2, HitFound
  <2>3. Greatest(hit.score, HitOf(secondary, hit.chunk).score) + Unit \div 10 \in Int
    <3>1. Unit \div 10 \in Nat
      BY DEF Unit
    <3>2. QED
      BY <2>1, <2>2, <3>1 DEF Greatest
  <2>4. Clamp(Greatest(hit.score, HitOf(secondary, hit.chunk).score) + Unit \div 10) \in Nat
    BY <2>3, Limits
  <2>5. QED
    BY <2>1, <2>4 DEF Hits, Hybrid
<1> DEFINE lifted == Lifted(primary, secondary)
<1>3. lifted = [n \in 1 .. Len(primary) |-> lifted[n]]
      /\ \A n \in 1 .. Len(primary) : lifted[n] \in Hits(S)
  BY <1>1, <1>2 DEF Lifted
<1> HIDE DEF lifted
<1>4. lifted \in Seq(Hits(S))
  BY <1>1, <1>3
<1>5. QED
  BY <1>4 DEF lifted

LEMMA MergedIsJoined ==
  ASSUME NEW primary, NEW secondary
  PROVE  MergeChunks(primary, secondary) = Joined(primary, Lifted(primary, secondary), secondary)
  BY DEF MergeChunks, Joined, Lifted, Hybrid

LEMMA MergedStays ==
  ASSUME NEW S, NEW primary \in Seq(Hits(S)), NEW secondary \in Seq(Hits(S))
  PROVE  MergeChunks(primary, secondary) \in Seq(Hits(S))
<1> DEFINE lifted == Lifted(primary, secondary)
<1>1. lifted \in Seq(Hits(S))
  BY LiftedStays
<1>2. MergeChunks(primary, secondary) = Joined(primary, lifted, secondary)
  BY MergedIsJoined
<1> HIDE DEF lifted
<1>3. PICK f : MergeTurns(f, S, primary, lifted, secondary)
  BY <1>1, MergeSteps
<1>4. Len(secondary) \in 0 .. Len(secondary)
  BY HitFields
<1>5. QED
  BY <1>2, <1>3, <1>4 DEF MergeTurns

LEMMA LimitedStays ==
  ASSUME NEW S, NEW list \in Seq(Hits(S))
  PROVE  LimitCandidates(list) \in Seq(Hits(S))
<1>1. CandidateTopK \in Nat
  BY Limits
<1> DEFINE sorted == StableSort(list, Better)
<1>2. sorted \in Seq(Hits(S)) /\ Len(sorted) = Len(list)
  BY SortedByScore
<1> HIDE DEF sorted
<1>3. Len(list) > CandidateTopK => SubSeq(sorted, 1, CandidateTopK) \in Seq(Hits(S))
  BY <1>1, <1>2
<1>4. QED
  BY <1>1, <1>3 DEF LimitCandidates, sorted

\* The score that rerankChunks gives a hit.
Percent(hit) == Overlap[hit.chunk] * 50 + SectionOverlap[hit.chunk] * 15
                + (IF hit.source = "keyword" THEN 500 ELSE 0)

Rescored(hit) ==
  [hit EXCEPT !.score = Clamp((hit.score * 30) \div 100 + (Percent(hit) * Unit) \div 10000)]

LEMMA RescoredStays ==
  ASSUME NEW S \in SUBSET Chunk, NEW hit \in Hits(S)
  PROVE  Rescored(hit) \in Hits(S)
<1> DEFINE percent == Percent(hit)
           value == Clamp((hit.score * 30) \div 100 + (percent * Unit) \div 10000)
<1>1. hit.chunk \in Chunk /\ hit.score \in Nat
  BY DEF Hits
<1>2. percent \in Nat
  <2> DEFINE a == Overlap[hit.chunk]
             b == SectionOverlap[hit.chunk]
             e == IF hit.source = "keyword" THEN 500 ELSE 0
  <2>1. a \in 0 .. 100 /\ b \in 0 .. 100 /\ e \in {0, 500}
    BY <1>1, PolicyAssumption
  <2>2. percent = a * 50 + b * 15 + e
    BY DEF Percent
  <2> HIDE DEF a, b, e, percent
  <2>3. a * 50 + b * 15 + e \in Nat
    BY <2>1
  <2>4. QED
    BY <2>2, <2>3
<1> HIDE DEF percent
<1>3. percent * Unit \in Nat /\ hit.score * 30 \in Nat
  BY <1>1, <1>2 DEF Unit
<1>4. (hit.score * 30) \div 100 \in Nat /\ (percent * Unit) \div 10000 \in Nat
  BY <1>3, Quotient
<1>5. (hit.score * 30) \div 100 + (percent * Unit) \div 10000 \in Int
  BY <1>4
<1>6. value \in Nat
  BY <1>5, Limits
<1> HIDE DEF value
<1>7. QED
  BY <1>6 DEF Hits, Rescored, value, percent

LEMMA RerankedIsSorted ==
  ASSUME NEW list
  PROVE  RerankChunks(list) = StableSort([n \in DOMAIN list |-> Rescored(list[n])], BetterOrEarlier)
  BY DEF RerankChunks, Rescored, Percent

LEMMA RerankedStays ==
  ASSUME NEW S \in SUBSET Chunk, NEW list \in Seq(Hits(S))
  PROVE  RerankChunks(list) \in Seq(Hits(S))
<1> DEFINE all == [n \in DOMAIN list |-> Rescored(list[n])]
<1>1. /\ Len(list) \in Nat /\ DOMAIN list = 1 .. Len(list)
      /\ \A k \in 1 .. Len(list) : list[k] \in Hits(S)
  BY HitFields
<1>2. all \in Seq(Hits(S))
  <2>1. \A k \in 1 .. Len(list) : all[k] \in Hits(S)
    BY <1>1, RescoredStays
  <2>2. QED
    BY <1>1, <2>1
<1>3. RerankChunks(list) = StableSort(all, BetterOrEarlier)
  BY RerankedIsSorted
<1> HIDE DEF all
<1>4. QED
  BY <1>2, <1>3, SortedByScoreAndPlace

LEMMA CandidatesStay ==
  ASSUME NEW S \in SUBSET Chunk, NEW keywords \in Seq(Hits(S)), NEW matches \in Seq(Hits(S))
  PROVE  LET list == Candidates(keywords, matches)
         IN  (IF Rerank THEN RerankChunks(list) ELSE list) \in Seq(Hits(S))
<1>1. Normalized(keywords) \in Seq(Hits(S)) /\ Normalized(matches) \in Seq(Hits(S))
  BY NormalizedStays
<1>2. Candidates(keywords, matches) \in Seq(Hits(S))
  BY <1>1, MergedStays, LimitedStays DEF Candidates
<1>3. QED
  BY <1>2, RerankedStays

-----------------------------------------------------------------------------
(* The policy of citations *)

\* Where the hits of a document are in a list.
OfDocument(list, d) == {n \in 1 .. Len(list) : DocOf[list[n].chunk] = d}

\* What is kept keeps to the policy.
Sparing(kept) ==
  /\ Len(kept) <= CitationLimit
  /\ \A m, n \in 1 .. Len(kept) :
       Signature(kept[m].chunk) = Signature(kept[n].chunk) => m = n
  /\ \A d \in Document : /\ IsFiniteSet(OfDocument(kept, d))
                         /\ Cardinality(OfDocument(kept, d)) <= MaxPerDocument

\* One more turn keeps to it.
LEMMA KeepSpares ==
  ASSUME NEW S, NEW kept \in Seq(Hits(S)), Sparing(kept), NEW hit \in Hits(S), NEW least
  PROVE  Sparing(Keep(kept, hit, least))
<1>1. Len(kept) \in Nat /\ DOMAIN kept = 1 .. Len(kept)
  BY HitFields
<1>2. CASE Keep(kept, hit, least) = kept
  BY <1>2
<1> DEFINE more == Append(kept, hit)
           c    == hit.chunk
<1>3. CASE /\ Keep(kept, hit, least) = more
           /\ ~(Len(kept) >= CitationLimit)
           /\ ~(Cardinality({n \in DOMAIN kept : DocOf[kept[n].chunk] = DocOf[c]}) >= MaxPerDocument)
           /\ ~(\E n \in DOMAIN kept : Signature(kept[n].chunk) = Signature(c))
  <2>1. /\ more \in Seq(Hits(S)) /\ Len(more) = Len(kept) + 1 /\ more[Len(kept) + 1] = hit
        /\ \A k \in 1 .. Len(kept) : more[k] = kept[k]
    BY Appended
  <2> HIDE DEF more
  <2>2. Len(more) <= CitationLimit
    BY <1>1, <1>3, <2>1, Limits
  <2>3. ASSUME NEW m \in 1 .. Len(more), NEW n \in 1 .. Len(more),
               Signature(more[m].chunk) = Signature(more[n].chunk)
        PROVE  m = n
    <3>1. \A k \in 1 .. Len(more) : k \in 1 .. Len(kept) \/ k = Len(kept) + 1
      BY <1>1, <2>1
    <3>2. CASE m \in 1 .. Len(kept) /\ n \in 1 .. Len(kept)
      BY <2>1, <2>3, <3>2 DEF Sparing
    <3>3. CASE m = Len(kept) + 1 /\ n \in 1 .. Len(kept)
      BY <1>1, <1>3, <2>1, <2>3, <3>3
    <3>4. CASE n = Len(kept) + 1 /\ m \in 1 .. Len(kept)
      BY <1>1, <1>3, <2>1, <2>3, <3>4
    <3>5. QED
      BY <3>1, <3>2, <3>3, <3>4
  <2>4. ASSUME NEW d \in Document
        PROVE  /\ IsFiniteSet(OfDocument(more, d))
               /\ Cardinality(OfDocument(more, d)) <= MaxPerDocument
    <3>1. IsFiniteSet(OfDocument(kept, d)) /\ Cardinality(OfDocument(kept, d)) <= MaxPerDocument
      BY DEF Sparing
    <3>2. CASE DocOf[c] # d
      <4>1. OfDocument(more, d) = OfDocument(kept, d)
        BY <1>1, <2>1, <3>2 DEF OfDocument
      <4>2. QED
        BY <3>1, <4>1
    <3>3. CASE DocOf[c] = d
      <4>1. OfDocument(more, d) = OfDocument(kept, d) \cup {Len(kept) + 1}
        BY <1>1, <2>1, <3>3 DEF OfDocument
      <4>2. Len(kept) + 1 \notin OfDocument(kept, d)
        BY <1>1 DEF OfDocument
      <4>3. /\ IsFiniteSet(OfDocument(more, d))
            /\ Cardinality(OfDocument(more, d)) = Cardinality(OfDocument(kept, d)) + 1
        BY <3>1, <4>1, <4>2, FS_AddElement
      <4>4. ~(Cardinality(OfDocument(kept, d)) >= MaxPerDocument)
        BY <1>1, <1>3, <3>3 DEF OfDocument
      <4>5. Cardinality(OfDocument(kept, d)) \in Nat /\ MaxPerDocument \in Nat
        BY <3>1, FS_CardinalityType, PolicyAssumption
      <4>6. QED
        BY <4>3, <4>4, <4>5
    <3>4. QED
      BY <3>2, <3>3
  <2>5. QED
    BY <1>3, <2>2, <2>3, <2>4 DEF Sparing
<1>4. QED
  BY <1>2, <1>3 DEF Keep

\* An empty list keeps to it.
LEMMA NothingIsSparing == Sparing(<<>>)
<1>1. \A d \in Document : OfDocument(<<>>, d) = {}
  BY DEF OfDocument
<1>2. IsFiniteSet({}) /\ Cardinality({}) = 0
  BY FS_EmptySet
<1>3. 0 <= MaxPerDocument
  BY PolicyAssumption
<1>4. Len(<<>>) <= CitationLimit /\ \A n \in 1 .. Len(<<>>) : FALSE
  BY Limits
<1>5. \A d \in Document : /\ IsFiniteSet(OfDocument(<<>>, d))
                          /\ Cardinality(OfDocument(<<>>, d)) <= MaxPerDocument
  <2> SUFFICES ASSUME NEW d \in Document
               PROVE  /\ IsFiniteSet(OfDocument(<<>>, d))
                      /\ Cardinality(OfDocument(<<>>, d)) <= MaxPerDocument
    OBVIOUS
  <2>1. OfDocument(<<>>, d) = {}
    BY <1>1
  <2>2. QED
    BY <1>2, <1>3, <2>1
<1>6. QED
  BY <1>4, <1>5 DEF Sparing

\* The loop of trimEffectiveChunks keeps to the policy.
LEMMA KeptIsSparing ==
  ASSUME NEW S, NEW list \in Seq(Hits(S)), NEW least
  PROVE  Kept(list, least) \in Seq(Hits(S)) /\ Sparing(Kept(list, least))
<1> DEFINE N == Len(list)
<1>1. N \in Nat /\ \A k \in 1 .. N : list[k] \in Hits(S)
  BY HitFields
<1>2. PICK f \in [0 .. N -> Seq(Hits(S))] :
        /\ f[0] = <<>>
        /\ \A j \in 1 .. N : f[j] = Keep(f[j - 1], list[j], least)
        /\ Kept(list, least) = f[N]
  BY KeepSteps
<1> DEFINE P == {j \in Nat : j <= N => Sparing(f[j])}
<1>3. 0 \in P
  BY <1>2, NothingIsSparing
<1>4. ASSUME NEW j \in Nat, j \in P
      PROVE  j + 1 \in P
  <2>1. CASE j + 1 <= N
    <3>1. j \in 0 .. N /\ j + 1 \in 1 .. N /\ (j + 1) - 1 = j /\ Sparing(f[j])
      BY <1>1, <1>4, <2>1
    <3>2. f[j + 1] = Keep(f[j], list[j + 1], least) /\ f[j] \in Seq(Hits(S)) /\ list[j + 1] \in Hits(S)
      BY <1>1, <1>2, <3>1
    <3>3. Sparing(f[j + 1])
      BY <3>1, <3>2, KeepSpares
    <3>4. QED
      BY <3>3
  <2>2. CASE ~(j + 1 <= N)
    BY <2>2
  <2>3. QED
    BY <2>1, <2>2
<1> HIDE DEF P
<1>5. N \in P
  BY <1>1, <1>3, <1>4, SetInduction
<1>6. Sparing(f[N])
  BY <1>1, <1>5 DEF P
<1>7. f[N] \in Seq(Hits(S))
  BY <1>1, <1>2
<1>8. QED
  BY <1>2, <1>6, <1>7

-----------------------------------------------------------------------------
(* Entries of the evidence *)

\* An entry's text is in the document as it stands there.
Sound(entry) ==
  /\ Len(entry.chunks) # 0
  /\ \A n \in 1 .. Len(entry.chunks) :
       /\ DocOf[entry.chunks[n]] = DocOf[entry.chunks[1]]
       /\ SectionOf[entry.chunks[n]] = SectionOf[entry.chunks[1]]
       /\ IndexOf[entry.chunks[n]] = entry.index + n - 1

\* A chunk is in an entry.
Shows(entry, c) == \E i \in 1 .. Len(entry.chunks) : entry.chunks[i] = c

\* What the entries are when the first hits of a list have found their places.
Placed(entries, list, last) ==
  /\ Len(entries) <= last
  /\ \A n \in 1 .. Len(entries) : Sound(entries[n])
  /\ \A n \in 1 .. Len(entries), c \in Chunk :
       Shows(entries[n], c) => \E k \in 1 .. last : list[k].chunk = c
  /\ \A k \in 1 .. last : \E n \in 1 .. Len(entries) : Shows(entries[n], list[k].chunk)
  /\ \A m, n \in 1 .. Len(entries), c \in Chunk :
       Shows(entries[m], c) /\ Shows(entries[n], c) => m = n

\* A new chunk beside an entry makes it longer by itself, at its front or at its end.
LEMMA AbsorbedIsSound ==
  ASSUME NEW S \in SUBSET Chunk, NEW entry \in Entries(S), Sound(entry), NEW hit \in Hits(S),
         Adjoins(entry, hit.chunk), ~Shows(entry, hit.chunk)
  PROVE  /\ Sound(Absorb(entry, hit))
         /\ \A c \in Chunk : Shows(Absorb(entry, hit), c) <=> c = hit.chunk \/ Shows(entry, c)
<1> DEFINE x    == hit.chunk
           list == entry.chunks
           at   == entry.index
           N    == Len(list)
<1>1. /\ x \in Chunk /\ x \in S /\ list \in Seq(S) /\ at \in Nat /\ N \in Nat /\ N # 0
      /\ list \in [1 .. N -> S] /\ IndexOf[x] \in Nat /\ \A c \in Chunk : IndexOf[c] \in Nat
  BY PolicyAssumption DEF Hits, Entries, Sound
<1>2. \A n \in 1 .. N : /\ list[n] \in Chunk /\ DocOf[list[n]] = DocOf[list[1]]
                        /\ SectionOf[list[n]] = SectionOf[list[1]]
                        /\ IndexOf[list[n]] = at + n - 1
  BY <1>1 DEF Sound
<1>3. /\ DocOf[list[1]] = DocOf[x] /\ SectionOf[list[1]] = SectionOf[x]
      /\ IndexOf[x] = at - 1 \/ IndexOf[x] = at + 1
  BY <1>1 DEF Adjoins
<1>4. \A n \in 1 .. N : list[n] # x
  BY DEF Shows
<1> HIDE DEF x, list, at, N
<1>5. CASE IndexOf[x] < at
  <2> DEFINE more == <<x>> \o list
  <2>1. Absorb(entry, hit).chunks = more /\ Absorb(entry, hit).index = IndexOf[x]
    BY <1>5 DEF Absorb, x, list, at
  <2>2. /\ Len(more) = N + 1 /\ more[1] = x
        /\ \A n \in 2 .. N + 1 : more[n] = list[n - 1]
    BY <1>1 DEF N
  <2> HIDE DEF more
  <2>3. IndexOf[x] = at - 1
    BY <1>1, <1>3, <1>5
  <2>4. ASSUME NEW n \in 1 .. N + 1
        PROVE  /\ DocOf[more[n]] = DocOf[more[1]] /\ SectionOf[more[n]] = SectionOf[more[1]]
               /\ IndexOf[more[n]] = IndexOf[x] + n - 1
    <3>1. CASE n = 1
      BY <1>1, <2>2, <3>1
    <3>2. CASE n # 1
      <4>1. n \in 2 .. N + 1 /\ n - 1 \in 1 .. N
        BY <1>1, <3>2
      <4>2. /\ more[n] = list[n - 1] /\ DocOf[list[n - 1]] = DocOf[x] /\ SectionOf[list[n - 1]] = SectionOf[x]
            /\ IndexOf[list[n - 1]] = at + (n - 1) - 1
        BY <1>2, <1>3, <2>2, <4>1
      <4>3. IndexOf[list[n - 1]] = IndexOf[x] + n - 1
        BY <1>1, <2>3, <4>2
      <4>4. QED
        BY <2>2, <4>2, <4>3
    <3>3. QED
      BY <3>1, <3>2
  <2>5. Sound(Absorb(entry, hit))
    BY <1>1, <2>1, <2>2, <2>4 DEF Sound
  <2>6. ASSUME NEW c \in Chunk
        PROVE  Shows(Absorb(entry, hit), c) <=> c = x \/ Shows(entry, c)
    <3>1. Shows(Absorb(entry, hit), c) <=> \E i \in 1 .. N + 1 : more[i] = c
      BY <2>1, <2>2 DEF Shows
    <3>2. Shows(entry, c) <=> \E i \in 1 .. N : list[i] = c
      BY DEF Shows, list, N
    <3>3. ASSUME NEW i \in 1 .. N + 1, more[i] = c
          PROVE  c = x \/ \E k \in 1 .. N : list[k] = c
      <4>1. i = 1 \/ (i \in 2 .. N + 1 /\ i - 1 \in 1 .. N)
        BY <1>1
      <4>2. QED
        BY <2>2, <3>3, <4>1
    <3>4. ASSUME NEW i \in 1 .. N, list[i] = c
          PROVE  \E k \in 1 .. N + 1 : more[k] = c
      <4>1. i + 1 \in 2 .. N + 1 /\ i + 1 \in 1 .. N + 1 /\ (i + 1) - 1 = i
        BY <1>1
      <4>2. QED
        BY <2>2, <3>4, <4>1
    <3>5. c = x => \E k \in 1 .. N + 1 : more[k] = c
      <4>1. 1 \in 1 .. N + 1
        BY <1>1
      <4>2. QED
        BY <2>2, <4>1
    <3>6. QED
      BY <3>1, <3>2, <3>3, <3>4, <3>5
  <2>7. QED
    BY <2>5, <2>6 DEF x
<1>6. CASE ~(IndexOf[x] < at)
  <2> DEFINE more == Append(list, x)
  <2>1. Absorb(entry, hit).chunks = more /\ Absorb(entry, hit).index = at
    BY <1>6 DEF Absorb, x, list, at
  <2>2. IndexOf[x] = at + 1
    BY <1>1, <1>3, <1>6
  <2>3. N = 1
    <3> SUFFICES ASSUME N # 1
                 PROVE  FALSE
      OBVIOUS
    <3>1. 2 \in 1 .. N
      BY <1>1
    <3>2. /\ list[2] \in Chunk /\ DocOf[list[2]] = DocOf[x] /\ IndexOf[list[2]] = at + 2 - 1
          /\ list[2] # x
      BY <1>2, <1>3, <1>4, <3>1
    <3>3. IndexOf[list[2]] = IndexOf[x]
      BY <1>1, <2>2, <3>2
    <3>4. QED
      BY <1>1, <3>2, <3>3, NumberingAssumption
  <2>4. Len(more) = 2 /\ more[1] = list[1] /\ more[2] = x
    <3>1. Len(list) = 1
      BY <2>3 DEF N
    <3>2. /\ Len(more) = Len(list) + 1 /\ more[Len(list) + 1] = x
          /\ \A k \in 1 .. Len(list) : more[k] = list[k]
      BY <1>1, Appended
    <3> HIDE DEF more
    <3>3. QED
      BY <3>1, <3>2
  <2> HIDE DEF more
  <2>5. IndexOf[list[1]] = at
    BY <1>1, <1>2, <2>3
  <2>6. \A n \in 1 .. 2 : /\ DocOf[more[n]] = DocOf[more[1]] /\ SectionOf[more[n]] = SectionOf[more[1]]
                          /\ IndexOf[more[n]] = at + n - 1
    <3> SUFFICES ASSUME NEW n \in 1 .. 2
                 PROVE  /\ DocOf[more[n]] = DocOf[more[1]] /\ SectionOf[more[n]] = SectionOf[more[1]]
                        /\ IndexOf[more[n]] = at + n - 1
      OBVIOUS
    <3>1. n = 1 \/ n = 2
      OBVIOUS
    <3>2. QED
      BY <1>1, <1>3, <2>2, <2>4, <2>5, <3>1
  <2>7. Sound(Absorb(entry, hit))
    BY <2>1, <2>4, <2>6 DEF Sound
  <2>8. ASSUME NEW c \in Chunk
        PROVE  Shows(Absorb(entry, hit), c) <=> c = x \/ Shows(entry, c)
    <3>1. Shows(Absorb(entry, hit), c) <=> \E i \in 1 .. 2 : more[i] = c
      BY <2>1, <2>4 DEF Shows
    <3>2. Shows(entry, c) <=> \E i \in 1 .. 1 : list[i] = c
      BY <2>3 DEF Shows, list, N
    <3>3. /\ \A i \in 1 .. 2 : i = 1 \/ i = 2
          /\ \A i \in 1 .. 1 : i = 1
          /\ 1 \in 1 .. 2 /\ 2 \in 1 .. 2 /\ 1 \in 1 .. 1
      OBVIOUS
    <3>4. QED
      BY <2>4, <3>1, <3>2, <3>3
  <2>9. QED
    BY <2>7, <2>8 DEF x
<1>7. QED
  BY <1>5, <1>6

\* One more hit finds its place.
LEMMA PlaceKeeps ==
  ASSUME NEW S \in SUBSET Chunk, NEW list \in Seq(Hits(S)), Sparing(list),
         NEW j \in Nat, j + 1 <= Len(list),
         NEW entries \in Seq(Entries(S)), Placed(entries, list, j)
  PROVE  Placed(Place(entries, list[j + 1]), list, j + 1)
<1> DEFINE hit  == list[j + 1]
           x    == hit.chunk
           N    == Len(entries)
           near == {n \in DOMAIN entries : Adjoins(entries[n], x)}
           next == Place(entries, hit)
<1>1. /\ Len(list) \in Nat /\ j + 1 \in 1 .. Len(list)
      /\ \A k \in 1 .. Len(list) : list[k] \in Hits(S) /\ list[k].chunk \in S
      /\ hit \in Hits(S) /\ x \in S /\ x \in Chunk
  BY HitFields
<1>2. /\ N \in Nat /\ N <= j /\ DOMAIN entries = 1 .. N
      /\ \A n \in 1 .. N : entries[n] \in Entries(S) /\ Sound(entries[n])
  <2>1. entries \in [1 .. N -> Entries(S)]
    OBVIOUS
  <2>2. QED
    BY <2>1 DEF Placed
<1>3. \A k \in 1 .. j : list[k].chunk # x
  <2> SUFFICES ASSUME NEW k \in 1 .. j, list[k].chunk = x
               PROVE  FALSE
    OBVIOUS
  <2>1. k \in 1 .. Len(list) /\ k # j + 1
    BY <1>1
  <2>2. QED
    BY <1>1, <2>1 DEF Sparing
<1>4. \A n \in 1 .. N : ~Shows(entries[n], x)
  <2> SUFFICES ASSUME NEW n \in 1 .. N, Shows(entries[n], x)
               PROVE  FALSE
    OBVIOUS
  <2>1. \E k \in 1 .. j : list[k].chunk = x
    BY <1>1 DEF Placed
  <2>2. QED
    BY <1>3, <2>1
<1>5. \A k \in 1 .. j + 1 : k \in 1 .. j \/ k = j + 1
  OBVIOUS
<1>6. /\ \A n \in 1 .. N, c \in Chunk :
             Shows(entries[n], c) => \E k \in 1 .. j : list[k].chunk = c
      /\ \A k \in 1 .. j : \E n \in 1 .. N : Shows(entries[n], list[k].chunk)
      /\ \A m, n \in 1 .. N, c \in Chunk : Shows(entries[m], c) /\ Shows(entries[n], c) => m = n
  BY DEF Placed
<1> DEFINE Turned(M, at) ==
             /\ Len(next) = M /\ M \in Nat /\ M <= j + 1 /\ N <= M /\ at \in 1 .. M
             /\ \A n \in 1 .. M : n # at => n \in 1 .. N /\ next[n] = entries[n]
             /\ Sound(next[at])
             /\ \A c \in Chunk : Shows(next[at], c) =>
                  c = x \/ (at \in 1 .. N /\ Shows(entries[at], c))
             /\ \A c \in Chunk : c = x \/ (at \in 1 .. N /\ Shows(entries[at], c)) =>
                  Shows(next[at], c)
<1>7. ASSUME NEW M, NEW at, Turned(M, at)
      PROVE  Placed(next, list, j + 1)
  <2> HIDE DEF next, x, hit
  <2>1. \A n \in 1 .. M : Sound(next[n])
    BY <1>2, <1>7
  <2>2. ASSUME NEW n \in 1 .. M, NEW c \in Chunk, Shows(next[n], c)
        PROVE  c = x \/ (n \in 1 .. N /\ Shows(entries[n], c))
    BY <1>7, <2>2
  <2>3. ASSUME NEW n \in 1 .. M, NEW c \in Chunk, Shows(next[n], c)
        PROVE  \E k \in 1 .. j + 1 : list[k].chunk = c
    <3>1. CASE c = x
      BY <3>1 DEF x, hit
    <3>2. CASE n \in 1 .. N /\ Shows(entries[n], c)
      <4>1. PICK k \in 1 .. j : list[k].chunk = c
        BY <1>6, <3>2
      <4>2. k \in 1 .. j + 1
        OBVIOUS
      <4>3. QED
        BY <4>1, <4>2
    <3>3. QED
      BY <2>2, <2>3, <3>1, <3>2
  <2>4. ASSUME NEW k \in 1 .. j + 1
        PROVE  \E n \in 1 .. M : Shows(next[n], list[k].chunk)
    <3>1. CASE k = j + 1
      <4>1. list[k].chunk = x
        BY <3>1 DEF x, hit
      <4>2. QED
        BY <1>1, <1>7, <4>1
    <3>2. CASE k \in 1 .. j
      <4>1. PICK n \in 1 .. N : Shows(entries[n], list[k].chunk)
        BY <1>6, <3>2
      <4>2. n \in 1 .. M
        BY <1>2, <1>7
      <4>3. list[k].chunk \in Chunk
        BY <1>1, <3>2
      <4>4. Shows(next[n], list[k].chunk)
        BY <1>7, <4>1, <4>2, <4>3
      <4>5. QED
        BY <4>2, <4>4
    <3>3. QED
      BY <1>5, <3>1, <3>2
  <2>5. ASSUME NEW m \in 1 .. M, NEW n \in 1 .. M, NEW c \in Chunk,
               Shows(next[m], c), Shows(next[n], c)
        PROVE  m = n
    <3>1. CASE c = x
      <4>1. ASSUME NEW i \in 1 .. M, Shows(next[i], x)
            PROVE  i = at
        BY <1>1, <1>4, <1>7, <4>1
      <4>2. QED
        BY <2>5, <3>1, <4>1
    <3>2. CASE c # x
      BY <1>6, <2>2, <2>5, <3>2
    <3>3. QED
      BY <3>1, <3>2
  <2>6. Len(next) = M /\ M <= j + 1
    BY <1>7
  <2>7. QED
    BY <2>1, <2>3, <2>4, <2>5, <2>6 DEF Placed
<1>8. CASE near = {}
  <2> DEFINE new == Entry(hit)
  <2>1. next = Append(entries, new)
    BY <1>8 DEF Place
  <2>2. new \in Entries(S) /\ new.chunks = <<x>> /\ new.index = IndexOf[x] /\ IndexOf[x] \in Nat
    BY <1>1, PlaceTypes, PolicyAssumption DEF Entry
  <2> HIDE DEF new, x, hit
  <2>3. Len(new.chunks) = 1 /\ new.chunks[1] = x /\ \A i \in 1 .. 1 : i = 1
    BY <2>2
  <2>4. Sound(new)
    BY <2>2, <2>3 DEF Sound
  <2>5. \A c \in Chunk : Shows(new, c) <=> c = x
    BY <2>3 DEF Shows
  <2>6. /\ Len(next) = N + 1 /\ next[N + 1] = new
        /\ \A n \in 1 .. N : next[n] = entries[n]
    <3>1. /\ Len(Append(entries, new)) = Len(entries) + 1
          /\ Append(entries, new)[Len(entries) + 1] = new
          /\ \A n \in 1 .. Len(entries) : Append(entries, new)[n] = entries[n]
      BY <2>2, Appended
    <3> HIDE DEF next
    <3>2. QED
      BY <2>1, <3>1
  <2> HIDE DEF next, N
  <2>7. N + 1 \in Nat /\ N + 1 <= j + 1 /\ N <= N + 1 /\ N + 1 \in 1 .. N + 1 /\ N + 1 \notin 1 .. N
        /\ \A n \in 1 .. N + 1 : n # N + 1 => n \in 1 .. N
    BY <1>2
  <2>8. Turned(N + 1, N + 1)
    BY <2>4, <2>5, <2>6, <2>7
  <2>9. QED
    BY <1>7, <2>8 DEF next, hit
<1>9. CASE near # {}
  <2> DEFINE at == Min(near)
  <2>1. at \in near
    <3>1. near \in SUBSET Nat
      BY <1>2
    <3> HIDE DEF near
    <3>2. QED
      BY <1>9, <3>1, LeastNat DEF Min
  <2>2. at \in 1 .. N /\ Adjoins(entries[at], x) /\ entries[at] \in Entries(S) /\ Sound(entries[at])
        /\ ~Shows(entries[at], x)
    BY <1>2, <1>4, <2>1
  <2>3. next = [entries EXCEPT ![at] = Absorb(entries[at], hit)]
    BY <1>9 DEF Place
  <2> HIDE DEF at
  <2>4. /\ Sound(Absorb(entries[at], hit))
        /\ \A c \in Chunk : Shows(Absorb(entries[at], hit), c) <=> c = x \/ Shows(entries[at], c)
    BY <1>1, <2>2, AbsorbedIsSound
  <2>5. /\ Len(next) = N /\ next[at] = Absorb(entries[at], hit)
        /\ \A n \in 1 .. N : n # at => next[n] = entries[n]
    BY <1>2, <2>2, <2>3
  <2> HIDE DEF next, x, hit, N
  <2>6. N <= j + 1 /\ N <= N
    BY <1>2
  <2>7. Turned(N, at)
    BY <1>2, <2>2, <2>4, <2>5, <2>6
  <2>8. QED
    BY <1>7, <2>7 DEF next, hit
<1>10. QED
  BY <1>8, <1>9

\* mergeAdjacentChunks gives entries that are sound, apart from one another, and show just
\* what was kept.
LEMMA MergedAreSound ==
  ASSUME NEW S \in SUBSET Chunk, NEW list \in Seq(Hits(S)), Sparing(list)
  PROVE  /\ MergeAdjacent(list) \in Seq(Entries(S))
         /\ Placed(MergeAdjacent(list), list, Len(list))
<1> DEFINE N == Len(list)
<1>1. N \in Nat
  OBVIOUS
<1>2. PICK f \in [0 .. N -> Seq(Entries(S))] :
        /\ f[0] = <<>>
        /\ \A j \in 1 .. N : f[j] = Place(f[j - 1], list[j])
        /\ MergeAdjacent(list) = f[N]
  BY PlaceSteps
<1> DEFINE P == {j \in Nat : j <= N => Placed(f[j], list, j)}
<1>3. 0 \in P
  <2>1. Placed(<<>>, list, 0)
    BY DEF Placed
  <2>2. QED
    BY <1>2, <2>1
<1>4. ASSUME NEW j \in Nat, j \in P
      PROVE  j + 1 \in P
  <2>1. CASE j + 1 <= N
    <3>1. j \in 0 .. N /\ j + 1 \in 1 .. N /\ (j + 1) - 1 = j /\ Placed(f[j], list, j)
      BY <1>1, <1>4, <2>1
    <3>2. f[j + 1] = Place(f[j], list[j + 1]) /\ f[j] \in Seq(Entries(S))
      BY <1>1, <1>2, <3>1
    <3>3. Placed(f[j + 1], list, j + 1)
      BY <2>1, <3>1, <3>2, PlaceKeeps
    <3>4. QED
      BY <3>3
  <2>2. CASE ~(j + 1 <= N)
    BY <2>2
  <2>3. QED
    BY <2>1, <2>2
<1> HIDE DEF P
<1>5. N \in P
  BY <1>1, <1>3, <1>4, SetInduction
<1>6. Placed(f[N], list, N)
  BY <1>1, <1>5 DEF P
<1>7. f[N] \in Seq(Entries(S))
  BY <1>1, <1>2
<1>8. QED
  BY <1>2, <1>6, <1>7

\* A chunk is cited if an entry shows it.
LEMMA CitedAreShown ==
  ASSUME NEW S, NEW entries \in Seq(Entries(S))
  PROVE  /\ \A n \in 1 .. Len(entries) : ToSet(entries[n].chunks) \subseteq S
         /\ \A n \in 1 .. Len(entries) :
              \A c : c \in ToSet(entries[n].chunks) <=> Shows(entries[n], c)
         /\ Cited(entries) \subseteq S
         /\ \A c \in Cited(entries) : \E n \in 1 .. Len(entries) : Shows(entries[n], c)
<1>1. /\ DOMAIN entries = 1 .. Len(entries)
      /\ \A n \in 1 .. Len(entries) : entries[n].chunks \in Seq(S)
  <2>1. entries \in [1 .. Len(entries) -> Entries(S)]
    OBVIOUS
  <2>2. QED
    BY <2>1 DEF Entries
<1>2. ASSUME NEW n \in 1 .. Len(entries)
      PROVE  /\ ToSet(entries[n].chunks) \subseteq S
             /\ \A c : c \in ToSet(entries[n].chunks) <=> Shows(entries[n], c)
  <2> DEFINE shown == entries[n].chunks
  <2>1. shown \in Seq(S) /\ DOMAIN shown = 1 .. Len(shown)
    BY <1>1
  <2>2. ToSet(shown) = {shown[i] : i \in 1 .. Len(shown)}
    BY <2>1 DEF ToSet
  <2>3. \A c : Shows(entries[n], c) <=> \E i \in 1 .. Len(shown) : shown[i] = c
    BY DEF Shows
  <2>4. \A i \in 1 .. Len(shown) : shown[i] \in S
    BY <2>1
  <2> HIDE DEF shown
  <2>5. ToSet(shown) \subseteq S /\ \A c : c \in ToSet(shown) <=> Shows(entries[n], c)
    BY <2>2, <2>3, <2>4
  <2>6. QED
    BY <2>5 DEF shown
<1>3. \A c : c \in Cited(entries) <=> \E n \in 1 .. Len(entries) : c \in ToSet(entries[n].chunks)
  BY <1>1 DEF Cited
<1>4. QED
  BY <1>2, <1>3

\* Entries made of what was kept are within the policy.
LEMMA PlacedIsWithinPolicy ==
  ASSUME NEW S \in SUBSET Chunk, NEW list \in Seq(Hits(S)), Sparing(list),
         NEW entries \in Seq(Entries(S)), Placed(entries, list, Len(list))
  PROVE  /\ WithinPolicy(entries)
         /\ \A n \in DOMAIN entries : Contiguous(entries[n])
<1>1. /\ Len(list) \in Nat
      /\ \A k \in 1 .. Len(list) : list[k].chunk \in Chunk
  BY HitFields
<1>2. Len(entries) \in Nat /\ DOMAIN entries = 1 .. Len(entries)
  OBVIOUS
<1>3. Len(entries) <= CitationLimit
  BY <1>1, <1>2, Limits DEF Placed, Sparing
<1>4. ASSUME NEW c \in Cited(entries)
      PROVE  c \in Chunk /\ \E k \in 1 .. Len(list) : list[k].chunk = c
  BY CitedAreShown DEF Placed
<1>5. ASSUME NEW d \in Document
      PROVE  Cardinality({c \in Cited(entries) : DocOf[c] = d}) <= MaxPerDocument
  <2> DEFINE at    == OfDocument(list, d)
             cited == {c \in Cited(entries) : DocOf[c] = d}
             image == {list[k].chunk : k \in at}
  <2>1. IsFiniteSet(at) /\ Cardinality(at) <= MaxPerDocument
    BY DEF Sparing
  <2>2. IsFiniteSet(image) /\ Cardinality(image) <= Cardinality(at)
    <3> DEFINE shown == [k \in at |-> list[k].chunk]
    <3> HIDE DEF at
    <3>1. shown \in Surjection(at, image)
      BY DEF Surjection
    <3> HIDE DEF shown, image
    <3>2. QED
      BY <2>1, <3>1, FS_Surjection
  <2>3. cited \in SUBSET image
    BY <1>4 DEF OfDocument
  <2> HIDE DEF cited, image, at
  <2>4. IsFiniteSet(cited) /\ Cardinality(cited) <= Cardinality(image)
    BY <2>2, <2>3, FS_Subset
  <2>5. Cardinality(cited) \in Nat /\ Cardinality(image) \in Nat /\ Cardinality(at) \in Nat
        /\ MaxPerDocument \in Nat
    BY <2>1, <2>2, <2>4, FS_CardinalityType, PolicyAssumption
  <2>6. Cardinality(cited) <= MaxPerDocument
    BY <2>1, <2>2, <2>4, <2>5
  <2>7. QED
    BY <2>6 DEF cited
<1>6. ASSUME NEW m \in DOMAIN entries, NEW n \in DOMAIN entries, m # n
      PROVE  ToSet(entries[m].chunks) \cap ToSet(entries[n].chunks) = {}
  <2> SUFFICES ASSUME NEW c \in ToSet(entries[m].chunks), c \in ToSet(entries[n].chunks)
               PROVE  FALSE
    OBVIOUS
  <2>1. c \in Chunk /\ Shows(entries[m], c) /\ Shows(entries[n], c)
    BY <1>2, CitedAreShown
  <2>2. QED
    BY <1>2, <1>6, <2>1 DEF Placed
<1>7. ASSUME NEW c1 \in Cited(entries), NEW c2 \in Cited(entries), Signature(c1) = Signature(c2)
      PROVE  c1 = c2
  <2>1. PICK k1 \in 1 .. Len(list), k2 \in 1 .. Len(list) : list[k1].chunk = c1 /\ list[k2].chunk = c2
    BY <1>4
  <2>2. k1 = k2
    BY <1>7, <2>1 DEF Sparing
  <2>3. QED
    BY <2>1, <2>2
<1>8. ASSUME NEW n \in DOMAIN entries
      PROVE  Contiguous(entries[n])
  <2> DEFINE shown == entries[n].chunks
             at     == entries[n].index
  <2>1. entries[n] \in Entries(S) /\ Sound(entries[n])
    <3>1. entries \in [1 .. Len(entries) -> Entries(S)]
      OBVIOUS
    <3>2. QED
      BY <1>2, <3>1 DEF Placed
  <2>2. /\ shown \in Seq(S) /\ at \in Nat /\ Len(shown) # 0
        /\ \A i \in 1 .. Len(shown) : /\ DocOf[shown[i]] = DocOf[shown[1]]
                                       /\ SectionOf[shown[i]] = SectionOf[shown[1]]
                                       /\ IndexOf[shown[i]] = at + i - 1
    BY <2>1 DEF Sound, Entries
  <2> HIDE DEF shown, at
  <2>3. /\ DOMAIN shown = 1 .. Len(shown) /\ 1 \in 1 .. Len(shown) /\ Head(shown) = shown[1]
        /\ at + 1 - 1 = at
    BY <2>2
  <2>4. IndexOf[shown[1]] = at
    BY <2>2, <2>3
  <2>5. QED
    BY <2>2, <2>3, <2>4 DEF Contiguous, shown, at
<1>9. WithinPolicy(entries)
  BY <1>3, <1>5, <1>6, <1>7 DEF WithinPolicy
<1>10. QED
  BY <1>8, <1>9

\* What SearchWithOptions returns keeps to the policy, shows text as it stands in the
\* document, and shows only what was found.
LEMMA EvidenceIsGood ==
  ASSUME NEW S \in SUBSET Chunk, NEW keywords \in Seq(Hits(S)), NEW matches \in Seq(Hits(S))
  PROVE  LET evidence == Evidence(keywords, matches)
         IN  /\ evidence \in Seq(Entries(S))
             /\ WithinPolicy(evidence)
             /\ \A n \in DOMAIN evidence : Contiguous(evidence[n])
             /\ Cited(evidence) \subseteq S
<1> DEFINE candidates == Candidates(keywords, matches)
           list   == IF Rerank THEN RerankChunks(candidates) ELSE candidates
           sorted == StableSort(list, BetterOrEarlier)
           least  == MinScore(sorted[1].score)
           kept   == Kept(sorted, least)
<1>1. list \in Seq(Hits(S))
  BY CandidatesStay
<1>2. Evidence(keywords, matches) = IF list = <<>> THEN <<>> ELSE MergeAdjacent(kept)
  BY DEF Evidence, TrimEffective
<1> HIDE DEF list
<1>3. sorted \in Seq(Hits(S))
  BY <1>1, SortedByScoreAndPlace
<1> HIDE DEF sorted, least
<1>4. kept \in Seq(Hits(S)) /\ Sparing(kept)
  BY <1>3, KeptIsSparing
<1> HIDE DEF kept
<1>5. /\ MergeAdjacent(kept) \in Seq(Entries(S))
      /\ Placed(MergeAdjacent(kept), kept, Len(kept))
  BY <1>4, MergedAreSound
<1>6. CASE list # <<>>
  <2> DEFINE evidence == MergeAdjacent(kept)
  <2> HIDE DEF evidence
  <2>1. /\ WithinPolicy(evidence) /\ \A n \in DOMAIN evidence : Contiguous(evidence[n])
        /\ Cited(evidence) \subseteq S /\ evidence \in Seq(Entries(S))
    BY <1>4, <1>5, PlacedIsWithinPolicy, CitedAreShown DEF evidence
  <2>2. Evidence(keywords, matches) = evidence
    BY <1>2, <1>6 DEF evidence
  <2>3. QED
    BY <2>1, <2>2
<1>7. CASE list = <<>>
  <2>1. Evidence(keywords, matches) = <<>>
    BY <1>2, <1>7
  <2>2. <<>> \in Seq(Hits(S)) /\ Sparing(<<>>)
    BY NothingIsSparing
  <2>3. <<>> \in Seq(Entries(S)) /\ Placed(<<>>, <<>>, Len(<<>>))
    BY DEF Placed
  <2>4. /\ WithinPolicy(<<>>) /\ \A n \in DOMAIN <<>> : Contiguous(<<>>[n])
        /\ Cited(<<>>) \subseteq S
    BY <2>2, <2>3, PlacedIsWithinPolicy, CitedAreShown
  <2>5. QED
    BY <2>1, <2>3, <2>4
<1>8. QED
  BY <1>6, <1>7

-----------------------------------------------------------------------------
(* The order in which hits come *)

Members(list) == {list[n] : n \in DOMAIN list}

\* The same hits in some other order.
Alike(a, b) == Len(a) = Len(b) /\ Members(a) = Members(b)

\* No two are equally good.
Distinct(list) == \A j, k \in DOMAIN list : list[j].score = list[k].score => j = k

\* No chunk comes twice.
OneOfEach(list) == \A j, k \in DOMAIN list : list[j].chunk = list[k].chunk => j = k

\* As many scores as hits means that no two are equal.
LEMMA DifferentScores ==
  ASSUME NEW S, NEW list \in Seq(Hits(S))
  PROVE  AllDiffer(list) <=> Distinct(list)
<1> DEFINE N == Len(list)
           score == [k \in 1 .. N |-> list[k].score]
           T == ScoresOf(list)
<1>1. N \in Nat /\ DOMAIN list = 1 .. N
  BY HitFields
<1>2. IsFiniteSet(1 .. N) /\ Cardinality(1 .. N) = N
  BY <1>1, Interval
<1>3. score \in Surjection(1 .. N, T)
  BY <1>1 DEF Surjection, ScoresOf
<1>4. score \in Injection(1 .. N, T) <=> Distinct(list)
  BY <1>1, <1>3 DEF Injection, IsInjective, Surjection, Distinct
<1> HIDE DEF score, T
<1>5. Cardinality(T) = Cardinality(1 .. N) <=> score \in Injection(1 .. N, T)
  BY <1>2, <1>3, FS_Surjection
<1>6. QED
  BY <1>2, <1>4, <1>5 DEF AllDiffer, T

\* Another order has the same scores.
LEMMA AlikeScores ==
  ASSUME NEW S, NEW a \in Seq(Hits(S)), NEW b \in Seq(Hits(S)), Alike(a, b)
  PROVE  /\ ScoresOf(a) = ScoresOf(b) /\ Listed(a) = Listed(b)
         /\ Distinct(a) => Distinct(b)
<1>1. /\ ScoresOf(a) = {h.score : h \in Members(a)} /\ ScoresOf(b) = {h.score : h \in Members(b)}
      /\ Listed(a) = {h.chunk : h \in Members(a)} /\ Listed(b) = {h.chunk : h \in Members(b)}
  BY DEF Members, ScoresOf, Listed
<1>2. ScoresOf(a) = ScoresOf(b) /\ Listed(a) = Listed(b)
  BY <1>1 DEF Alike
<1>3. AllDiffer(a) => AllDiffer(b)
  BY <1>2 DEF Alike, AllDiffer
<1>4. QED
  BY <1>2, <1>3, DifferentScores

\* The scores above one of them: its place, and none but its own.
Above(T, s) == {t \in T : t > s}

LEMMA PlaceIsOwn ==
  ASSUME NEW T \in SUBSET Nat, IsFiniteSet(T), NEW s \in T, NEW t \in T,
         Cardinality(Above(T, s)) = Cardinality(Above(T, t))
  PROVE  s = t
<1>1. ASSUME NEW u \in T, NEW v \in T, u < v
      PROVE  Cardinality(Above(T, u)) # Cardinality(Above(T, v))
  <2>0. u \in Nat /\ v \in Nat /\ \A w \in T : w \in Nat
    OBVIOUS
  <2>1. Above(T, v) \in SUBSET Above(T, u) /\ v \in Above(T, u) /\ v \notin Above(T, v)
    <3>1. \A w \in T : w > v => w > u
      BY <1>1, <2>0
    <3>2. v > u /\ ~(v > v)
      BY <1>1, <2>0
    <3>3. QED
      BY <3>1, <3>2 DEF Above
  <2>2. IsFiniteSet(Above(T, u))
    <3>1. Above(T, u) \in SUBSET T
      BY DEF Above
    <3>2. QED
      BY <3>1, FS_Subset
  <2>3. QED
    BY <2>1, <2>2, FS_Subset
<1>2. s < t \/ t < s \/ s = t
  OBVIOUS
<1>3. QED
  BY <1>1, <1>2

\* R has whoever is better ahead.
ByScore(R, list) ==
  \A j, k \in DOMAIN list : <<j, k>> \in R <=> list[j].score > list[k].score

\* The place of a hit is told by the scores above its own.
LEMMA PlaceByScore ==
  ASSUME NEW S, NEW list \in Seq(Hits(S)), Distinct(list), NEW R, ByScore(R, list),
         NEW k \in DOMAIN list
  PROVE  PlaceOf(list, R, k) = 1 + Cardinality(Above(ScoresOf(list), list[k].score))
<1> DEFINE A == {j \in DOMAIN list \ {k} : <<j, k>> \in R}
           B == Above(ScoresOf(list), list[k].score)
           score == [j \in A |-> list[j].score]
<1>1. /\ Len(list) \in Nat /\ DOMAIN list = 1 .. Len(list)
      /\ \A j \in DOMAIN list : list[j].score \in Nat
  BY HitFields
<1>2. \A j \in DOMAIN list : j \in A <=> list[j].score > list[k].score
  BY <1>1 DEF ByScore
<1>3. score \in [A -> B]
  BY <1>2 DEF Above, ScoresOf
<1>4. \A t \in B : \E j \in A : list[j].score = t
  BY <1>2 DEF Above, ScoresOf
<1>5. \A i, j \in A : list[i].score = list[j].score => i = j
  BY DEF Distinct
<1>6. score \in Bijection(A, B)
  BY <1>3, <1>4, <1>5 DEF Bijection, Injection, Surjection, IsInjective
<1>7. IsFiniteSet(A)
  <2>1. IsFiniteSet(1 .. Len(list)) /\ A \in SUBSET (1 .. Len(list))
    BY <1>1, Interval
  <2> HIDE DEF A
  <2>2. QED
    BY <2>1, FS_Subset
<1> HIDE DEF score, B
<1>8. Cardinality(A) = Cardinality(B)
  <2> HIDE DEF A
  <2>1. ExistsBijection(A, B)
    BY <1>6 DEF ExistsBijection
  <2>2. QED
    BY <1>7, <2>1, FS_Bijection
<1>9. QED
  BY <1>8 DEF PlaceOf, B

\* Who of a list comes from where.
Sources(from, list, R, N) ==
  /\ from \in Bijection(1 .. N, 1 .. N)
  /\ Arranged(list, R) = [n \in 1 .. N |-> list[from[n]]]
  /\ \A n \in 1 .. N : PlaceOf(list, R, from[n]) = n

LEMMA ArrangedFrom ==
  ASSUME NEW list, NEW R, NEW N \in Nat, DOMAIN list = 1 .. N, Orders(R, N)
  PROVE  \E from : Sources(from, list, R, N)
<1> DEFINE from == [n \in 1 .. N |-> CHOOSE k \in 1 .. N : PlaceOf(list, R, k) = n]
<1>1. \A n \in 1 .. N : from[n] \in 1 .. N /\ PlaceOf(list, R, from[n]) = n
  <2> SUFFICES ASSUME NEW n \in 1 .. N
               PROVE  from[n] \in 1 .. N /\ PlaceOf(list, R, from[n]) = n
    OBVIOUS
  <2>1. \E k \in 1 .. N : PlaceOf(list, R, k) = n
    BY PlacesAreTaken
  <2>2. QED
    BY <2>1
<1>2. Arranged(list, R) = [n \in 1 .. N |-> list[from[n]]]
  BY DEF Arranged
<1>3. from \in Injection(1 .. N, 1 .. N)
  <2>1. from \in [1 .. N -> 1 .. N]
    BY <1>1
  <2> HIDE DEF from
  <2>2. QED
    BY <1>1, <2>1 DEF Injection, IsInjective
<1> HIDE DEF from
<1>4. from \in Surjection(1 .. N, 1 .. N)
  BY <1>3, Interval, FS_Injection
<1>5. from \in Bijection(1 .. N, 1 .. N)
  BY <1>3, <1>4 DEF Bijection
<1>6. QED
  BY <1>1, <1>2, <1>5 DEF Sources

\* Hits that differ in score come in one order, whatever order they were in.
LEMMA ArrangedAlike ==
  ASSUME NEW S, NEW a \in Seq(Hits(S)), NEW b \in Seq(Hits(S)), Alike(a, b), Distinct(a),
         NEW P, ByScore(P, a), NEW R, ByScore(R, b)
  PROVE  Arranged(a, P) = Arranged(b, R)
<1> DEFINE N == Len(a)
           T == ScoresOf(a)
<1>1. /\ N \in Nat /\ Len(b) = N /\ DOMAIN a = 1 .. N /\ DOMAIN b = 1 .. N
      /\ \A k \in 1 .. N : a[k].score \in Nat /\ b[k].score \in Nat
  BY HitFields DEF Alike
<1>2. Distinct(b) /\ ScoresOf(b) = T
  BY AlikeScores
<1>3. /\ Orders(P, N) /\ Orders(R, N) 
  <2>1. ASSUME NEW list, DOMAIN list = 1 .. N, \A k \in 1 .. N : list[k].score \in Nat,
               Distinct(list), NEW Q, ByScore(Q, list)
        PROVE  Orders(Q, N)
    <3>1. \A j, k \in 1 .. N : j # k => list[j].score > list[k].score \/ list[k].score > list[j].score
      BY <2>1 DEF Distinct
    <3>2. \A j, k \in 1 .. N : ~(list[j].score > list[k].score /\ list[k].score > list[j].score)
      BY <2>1
    <3>3. \A i, j, k \in 1 .. N : list[i].score > list[j].score /\ list[j].score > list[k].score
                                  => list[i].score > list[k].score
      BY <2>1
    <3>4. \A j, k \in 1 .. N : <<j, k>> \in Q <=> list[j].score > list[k].score
      BY <2>1 DEF ByScore
    <3>5. QED
      BY <3>1, <3>2, <3>3, <3>4 DEF Orders
  <2>2. QED
    BY <1>1, <1>2, <2>1
<1> HIDE DEF N
<1>4. T \in SUBSET Nat /\ IsFiniteSet(T)
  <2> DEFINE score == [k \in 1 .. N |-> a[k].score]
  <2>1. score \in Surjection(1 .. N, T)
    BY <1>1 DEF Surjection, ScoresOf
  <2>2. T \in SUBSET Nat
    BY <1>1 DEF ScoresOf
  <2> HIDE DEF score, T
  <2>3. QED
    BY <1>1, <2>1, <2>2, Interval, FS_Surjection
<1>5. PICK f : Sources(f, a, P, N)
  BY <1>1, <1>3, ArrangedFrom
<1>6. PICK g : Sources(g, b, R, N)
  BY <1>1, <1>3, ArrangedFrom
<1>7. ASSUME NEW n \in 1 .. N
      PROVE  a[f[n]] = b[g[n]]
  <2>1. f[n] \in 1 .. N /\ g[n] \in 1 .. N
    BY <1>5, <1>6 DEF Sources, Bijection, Injection
  <2>2. a[f[n]].score \in T /\ b[g[n]].score \in T
    BY <1>1, <1>2, <2>1 DEF ScoresOf
  <2>3. /\ n = 1 + Cardinality(Above(T, a[f[n]].score))
        /\ n = 1 + Cardinality(Above(T, b[g[n]].score))
    BY <1>1, <1>2, <1>5, <1>6, <2>1, PlaceByScore DEF Sources
  <2> HIDE DEF T
  <2>4. \A s \in T : Cardinality(Above(T, s)) \in Nat
    <3> SUFFICES ASSUME NEW s \in T
                 PROVE  Cardinality(Above(T, s)) \in Nat
      OBVIOUS
    <3>1. Above(T, s) \in SUBSET T
      BY DEF Above
    <3>2. QED
      BY <1>4, <3>1, FS_Subset, FS_CardinalityType
  <2>5. Cardinality(Above(T, a[f[n]].score)) = Cardinality(Above(T, b[g[n]].score))
    BY <2>2, <2>3, <2>4
  <2>6. a[f[n]].score = b[g[n]].score
    <3> DEFINE s == a[f[n]].score
               t == b[g[n]].score
    <3>1. s \in T /\ t \in T /\ Cardinality(Above(T, s)) = Cardinality(Above(T, t))
      BY <2>2, <2>5
    <3> HIDE DEF s, t
    <3>2. s = t
      BY <1>4, <3>1, PlaceIsOwn
    <3>3. QED
      BY <3>2 DEF s, t
  <2>7. PICK j \in 1 .. N : b[j] = a[f[n]]
    BY <1>1, <2>1 DEF Alike, Members
  <2>8. QED
    BY <1>1, <1>2, <2>1, <2>6, <2>7 DEF Distinct
<1>8. QED
  BY <1>5, <1>6, <1>7 DEF Sources

\* sort.SliceStable by score, ties broken or not: no tie, no difference.
LEMMA SortedAlike ==
  ASSUME NEW S \in SUBSET Chunk, NEW a \in Seq(Hits(S)), NEW b \in Seq(Hits(S)),
         Alike(a, b), Distinct(a)
  PROVE  /\ StableSort(a, Better) = StableSort(b, Better)
         /\ StableSort(a, BetterOrEarlier) = StableSort(b, BetterOrEarlier)
<1> DEFINE P(list) == {p \in (DOMAIN list) \X (DOMAIN list) :
                         \/ Better(list[p[1]], list[p[2]])
                         \/ (p[1] < p[2] /\ ~Better(list[p[2]], list[p[1]]))}
           R(list) == {p \in (DOMAIN list) \X (DOMAIN list) :
                         \/ BetterOrEarlier(list[p[1]], list[p[2]])
                         \/ (p[1] < p[2] /\ ~BetterOrEarlier(list[p[2]], list[p[1]]))}
<1>1. ASSUME NEW list \in Seq(Hits(S)), Distinct(list)
      PROVE  ByScore(P(list), list) /\ ByScore(R(list), list)
  <2>1. /\ Len(list) \in Nat /\ DOMAIN list = 1 .. Len(list)
        /\ \A k \in DOMAIN list : list[k].score \in Nat
    BY HitFields
  <2>2. ASSUME NEW j \in DOMAIN list, NEW k \in DOMAIN list
        PROVE  /\ <<j, k>> \in P(list) <=> list[j].score > list[k].score
               /\ <<j, k>> \in R(list) <=> list[j].score > list[k].score
    <3>1. <<j, k>> \in (DOMAIN list) \X (DOMAIN list)
      OBVIOUS
    <3>2. /\ <<j, k>> \in P(list) <=> Better(list[j], list[k]) \/ (j < k /\ ~Better(list[k], list[j]))
          /\ <<j, k>> \in R(list) <=> BetterOrEarlier(list[j], list[k])
                                      \/ (j < k /\ ~BetterOrEarlier(list[k], list[j]))
      BY <3>1
    <3>3. j # k => list[j].score # list[k].score
      BY <1>1 DEF Distinct
    <3>4. CASE j = k
      <4>1. ~(list[j].score > list[j].score) /\ ~(j < j) /\ ~(IndexOf[list[j].chunk] < IndexOf[list[j].chunk])
        <5>1. IndexOf[list[j].chunk] \in Nat
          BY <2>1, HitFields, PolicyAssumption
        <5>2. QED
          BY <2>1, <5>1
      <4>2. QED
        BY <3>2, <3>4, <4>1 DEF Better, BetterOrEarlier
    <3>5. CASE j # k
      <4>1. list[j].score > list[k].score \/ list[k].score > list[j].score
        BY <2>1, <3>3, <3>5
      <4>2. ~(list[j].score > list[k].score /\ list[k].score > list[j].score)
        BY <2>1
      <4> HIDE DEF P, R
      <4>3. QED
        BY <3>2, <3>3, <3>5, <4>1, <4>2 DEF Better, BetterOrEarlier
    <3>6. QED
      BY <3>4, <3>5
  <2> HIDE DEF P, R
  <2>3. QED
    BY <2>2 DEF ByScore
<1>2. /\ StableSort(a, Better) = Arranged(a, P(a)) /\ StableSort(b, Better) = Arranged(b, P(b))
      /\ StableSort(a, BetterOrEarlier) = Arranged(a, R(a))
      /\ StableSort(b, BetterOrEarlier) = Arranged(b, R(b))
  BY DEF StableSort
<1> HIDE DEF P, R
<1>3. Distinct(b)
  BY AlikeScores
<1>4. /\ ByScore(P(a), a) /\ ByScore(R(a), a)
      /\ ByScore(P(b), b) /\ ByScore(R(b), b)
  BY <1>1, <1>3
<1>5. Arranged(a, P(a)) = Arranged(b, P(b)) /\ Arranged(a, R(a)) = Arranged(b, R(b))
  BY <1>4, ArrangedAlike
<1>6. QED
  BY <1>2, <1>5

\* What is sorted has no equals only if it had none.
LEMMA SortedDistinct ==
  ASSUME NEW S \in SUBSET Chunk, NEW list \in Seq(Hits(S)),
         AllDiffer(StableSort(list, BetterOrEarlier))
  PROVE  Distinct(list)
<1> DEFINE N == Len(list)
           R == TiesBroken(list)
           sorted == StableSort(list, BetterOrEarlier)
<1>1. N \in Nat /\ DOMAIN list = 1 .. N
  BY HitFields
<1>2. sorted = Arranged(list, R)
  BY DEF StableSort, TiesBroken
<1>3. sorted \in Seq(Hits(S)) /\ Orders(R, N)
  BY SortedByScoreAndPlace, OrderedByScoreAndPlace
<1> HIDE DEF sorted, R, N
<1>4. Distinct(sorted)
  BY <1>3, DifferentScores DEF sorted
<1>5. PICK from : Sources(from, list, R, N)
  BY <1>1, <1>3, ArrangedFrom
<1>6. ASSUME NEW j \in 1 .. N, NEW k \in 1 .. N, list[j].score = list[k].score
      PROVE  j = k
  <2>1. PICK m \in 1 .. N, n \in 1 .. N : from[m] = j /\ from[n] = k
    BY <1>5 DEF Sources, Bijection, Surjection
  <2>2. sorted[m] = list[j] /\ sorted[n] = list[k] /\ DOMAIN sorted = 1 .. N
    BY <1>2, <1>5, <2>1 DEF Sources
  <2>3. m = n
    BY <1>4, <1>6, <2>2 DEF Distinct
  <2>4. QED
    BY <2>1, <2>3
<1>7. QED
  BY <1>1, <1>6 DEF Distinct

\* Every hit changed by itself.
Mapped(list, F) == [n \in DOMAIN list |-> F[list[n]]]

LEMMA MappedAlike ==
  ASSUME NEW S, NEW a \in Seq(Hits(S)), NEW b \in Seq(Hits(S)), Alike(a, b), NEW F
  PROVE  Alike(Mapped(a, F), Mapped(b, F))
<1>1. /\ Len(a) \in Nat /\ Len(b) = Len(a)
      /\ DOMAIN a = 1 .. Len(a) /\ DOMAIN b = 1 .. Len(a)
  BY HitFields DEF Alike
<1>2. /\ Mapped(a, F) = [n \in 1 .. Len(a) |-> F[a[n]]]
      /\ Mapped(b, F) = [n \in 1 .. Len(a) |-> F[b[n]]]
  BY <1>1 DEF Mapped
<1>3. Len(Mapped(a, F)) = Len(a) /\ Len(Mapped(b, F)) = Len(a)
  BY <1>1, <1>2
<1>4. /\ Members(Mapped(a, F)) = {F[h] : h \in Members(a)}
      /\ Members(Mapped(b, F)) = {F[h] : h \in Members(b)}
  BY <1>1, <1>2 DEF Members
<1>5. QED
  BY <1>3, <1>4 DEF Alike

\* normalizeScores changes every hit by itself, given the best and the worst.
Rescaled(T, hit) ==
  [hit EXCEPT !.score = IF Max(T) = Min(T) THEN Unit
                        ELSE ((hit.score - Min(T)) * Unit) \div (Max(T) - Min(T))]

LEMMA NormalizedAlike ==
  ASSUME NEW S, NEW a \in Seq(Hits(S)), NEW b \in Seq(Hits(S)), Alike(a, b)
  PROVE  /\ Alike(Normalized(a), Normalized(b))
         /\ OneOfEach(a) => OneOfEach(Normalized(a))
<1> DEFINE T == ScoresOf(a)
           F == [h \in Hits(S) |-> Rescaled(T, h)]
<1>1. ScoresOf(b) = T
  BY AlikeScores
<1>2. /\ \A n \in DOMAIN a : a[n] \in Hits(S)
      /\ \A n \in DOMAIN b : b[n] \in Hits(S)
  BY HitFields
<1>3. /\ Normalized(a) = [n \in DOMAIN a |-> Rescaled(T, a[n])]
      /\ Normalized(b) = [n \in DOMAIN b |-> Rescaled(T, b[n])]
  BY <1>1 DEF Normalized, Rescaled
<1> HIDE DEF T
<1>4. Normalized(a) = Mapped(a, F) /\ Normalized(b) = Mapped(b, F)
  BY <1>2, <1>3 DEF Mapped
<1>5. \A n \in DOMAIN a : Normalized(a)[n].chunk = a[n].chunk
  <2>1. \A h \in Hits(S) : Rescaled(T, h).chunk = h.chunk
    BY DEF Rescaled, Hits
  <2>2. QED
    BY <1>2, <1>3, <2>1
<1>6. OneOfEach(a) => OneOfEach(Normalized(a))
  BY <1>3, <1>5 DEF OneOfEach
<1> HIDE DEF F
<1>7. QED
  BY <1>4, <1>6, MappedAlike

\* Another order has as few repetitions, and finds the same hit of a chunk.
LEMMA AlikeChunks ==
  ASSUME NEW S, NEW a \in Seq(Hits(S)), NEW b \in Seq(Hits(S)), Alike(a, b), OneOfEach(a)
  PROVE  /\ OneOfEach(b)
         /\ \A c \in Listed(a) : HitOf(b, c) = HitOf(a, c)
<1>1. ASSUME NEW list \in Seq(Hits(S))
      PROVE  Cardinality(Listed(list)) = Len(list) <=> OneOfEach(list)
  <2> DEFINE N == Len(list)
             at == [k \in 1 .. N |-> list[k].chunk]
             T == Listed(list)
  <2>1. N \in Nat /\ DOMAIN list = 1 .. N
    BY HitFields
  <2>2. IsFiniteSet(1 .. N) /\ Cardinality(1 .. N) = N
    BY <2>1, Interval
  <2>3. at \in Surjection(1 .. N, T)
    BY <2>1 DEF Surjection, Listed
  <2>4. at \in Injection(1 .. N, T) <=> OneOfEach(list)
    BY <2>1, <2>3 DEF Injection, IsInjective, Surjection, OneOfEach
  <2> HIDE DEF at, T
  <2>5. Cardinality(T) = Cardinality(1 .. N) <=> at \in Injection(1 .. N, T)
    BY <2>2, <2>3, FS_Surjection
  <2>6. QED
    BY <2>2, <2>4, <2>5 DEF T
<1>2. Listed(a) = Listed(b) /\ Len(a) = Len(b) /\ Members(a) = Members(b)
  BY AlikeScores DEF Alike
<1>3. OneOfEach(b)
  BY <1>1, <1>2
<1>4. ASSUME NEW c \in Listed(a)
      PROVE  HitOf(b, c) = HitOf(a, c)
  <2>1. PICK i \in DOMAIN a : a[i].chunk = c
    BY DEF Listed
  <2>2. PICK j \in DOMAIN b : b[j] = a[i]
    BY <1>2 DEF Members
  <2>3. (CHOOSE n \in DOMAIN a : a[n].chunk = c) = i
    BY <2>1 DEF OneOfEach
  <2>4. (CHOOSE n \in DOMAIN b : b[n].chunk = c) = j
    BY <1>3, <2>1, <2>2 DEF OneOfEach
  <2>5. QED
    BY <2>2, <2>3, <2>4 DEF HitOf
<1>5. QED
  BY <1>3, <1>4

\* What mergeChunks adds of those hits, and the hits up to one of the list.
Unlisted(primary, hits) == {h \in hits : h.chunk \notin Listed(primary)}
UpTo(list, n) == {list[k] : k \in 1 .. n}

\* After so many hits of the second list.
HasJoined(merged, S, primary, lifted, hits) ==
  /\ merged \in Seq(Hits(S))
  /\ Members(merged) = Members(lifted) \cup Unlisted(primary, hits)
  /\ IsFiniteSet(Unlisted(primary, hits))
  /\ Len(merged) = Len(lifted) + Cardinality(Unlisted(primary, hits))

\* One hit more.
LEMMA OneMoreJoins ==
  ASSUME NEW S, NEW primary, NEW lifted \in Seq(Hits(S)), NEW merged, NEW hits,
         HasJoined(merged, S, primary, lifted, hits), NEW hit \in Hits(S), hit \notin hits
  PROVE  HasJoined(AddUnlisted(primary, merged, hit), S, primary, lifted, hits \cup {hit})
<1>1. /\ merged \in Seq(Hits(S)) /\ Len(merged) \in Nat /\ DOMAIN merged = 1 .. Len(merged)
      /\ Len(lifted) \in Nat
  BY HitFields DEF HasJoined
<1>2. CASE hit.chunk \in Listed(primary)
  <2>1. Unlisted(primary, hits \cup {hit}) = Unlisted(primary, hits)
    BY <1>2 DEF Unlisted
  <2>2. AddUnlisted(primary, merged, hit) = merged
    BY <1>2 DEF AddUnlisted
  <2>3. QED
    BY <2>1, <2>2 DEF HasJoined
<1>3. CASE hit.chunk \notin Listed(primary)
  <2> DEFINE more == Append(merged, hit)
             old == Unlisted(primary, hits)
  <2>1. Unlisted(primary, hits \cup {hit}) = old \cup {hit} /\ hit \notin old
    BY <1>3 DEF Unlisted
  <2>2. AddUnlisted(primary, merged, hit) = more
    BY <1>3 DEF AddUnlisted
  <2>3. /\ more \in Seq(Hits(S)) /\ Len(more) = Len(merged) + 1
        /\ more[Len(merged) + 1] = hit /\ \A k \in 1 .. Len(merged) : more[k] = merged[k]
    BY <1>1, Appended
  <2> HIDE DEF more
  <2>4. DOMAIN more = DOMAIN merged \cup {Len(merged) + 1}
    <3>1. DOMAIN more = 1 .. Len(more)
      BY <2>3, HitFields
    <3>2. QED
      BY <1>1, <2>3, <3>1
  <2>5. Members(more) = Members(merged) \cup {hit}
    BY <1>1, <2>3, <2>4 DEF Members
  <2>6. IsFiniteSet(old) /\ Cardinality(old) \in Nat
    BY FS_CardinalityType DEF HasJoined
  <2>7. IsFiniteSet(old \cup {hit}) /\ Cardinality(old \cup {hit}) = Cardinality(old) + 1
    BY <2>1, <2>6, FS_AddElement
  <2>8. /\ Members(merged) = Members(lifted) \cup old
        /\ Len(merged) = Len(lifted) + Cardinality(old)
    BY DEF HasJoined
  <2> HIDE DEF old
  <2>9. Len(more) = Len(lifted) + Cardinality(old \cup {hit})
    BY <1>1, <2>3, <2>6, <2>7, <2>8
  <2>10. Members(more) = Members(lifted) \cup (old \cup {hit})
    BY <2>5, <2>8
  <2>11. QED
    BY <2>1, <2>2, <2>3, <2>7, <2>9, <2>10 DEF HasJoined
<1>4. QED
  BY <1>2, <1>3

\* What mergeChunks returns: the first list and what it lacked of the second.
LEMMA AllHaveJoined ==
  ASSUME NEW S, NEW primary, NEW lifted \in Seq(Hits(S)), NEW list \in Seq(Hits(S)),
         OneOfEach(list)
  PROVE  HasJoined(Joined(primary, lifted, list), S, primary, lifted, Members(list))
<1> DEFINE N == Len(list)
<1>1. N \in Nat /\ DOMAIN list = 1 .. N /\ \A k \in 1 .. N : list[k] \in Hits(S)
  BY HitFields
<1>2. PICK f : MergeTurns(f, S, primary, lifted, list)
  BY MergeSteps
<1> DEFINE P == {n \in Nat : n <= N => HasJoined(f[n], S, primary, lifted, UpTo(list, n))}
<1>3. 0 \in P
  <2>1. UpTo(list, 0) = {}
    BY DEF UpTo
  <2>2. Unlisted(primary, {}) = {} /\ IsFiniteSet({}) /\ Cardinality({}) = 0
    BY FS_EmptySet DEF Unlisted
  <2>3. Len(lifted) \in Nat
    BY HitFields
  <2>4. f[0] = lifted
    BY <1>2 DEF MergeTurns
  <2>5. HasJoined(lifted, S, primary, lifted, {})
    <3> DEFINE none == Unlisted(primary, {})
    <3>1. none = {} /\ IsFiniteSet(none) /\ Cardinality(none) = 0
      BY <2>2
    <3> HIDE DEF none
    <3>2. Len(lifted) = Len(lifted) + Cardinality(none)
      BY <2>3, <3>1
    <3>3. Members(lifted) = Members(lifted) \cup none
      BY <3>1
    <3>4. QED
      BY <3>1, <3>2, <3>3 DEF HasJoined, none
  <2>6. QED
    BY <2>1, <2>4, <2>5
<1>4. ASSUME NEW n \in Nat, n \in P
      PROVE  n + 1 \in P
  <2> SUFFICES ASSUME n + 1 <= N
               PROVE  HasJoined(f[n + 1], S, primary, lifted, UpTo(list, n + 1))
    OBVIOUS
  <2> HIDE DEF N
  <2>1. n + 1 \in 1 .. N /\ n <= N /\ (n + 1) - 1 = n
    BY <1>1
  <2>2. HasJoined(f[n], S, primary, lifted, UpTo(list, n))
    BY <1>4, <2>1
  <2>3. f[n + 1] = AddUnlisted(primary, f[n], list[n + 1])
    BY <1>2, <2>1 DEF MergeTurns, N
  <2>4. UpTo(list, n + 1) = UpTo(list, n) \cup {list[n + 1]}
    <3>1. \A k : k \in 1 .. n + 1 <=> k \in 1 .. n \/ k = n + 1
      OBVIOUS
    <3>2. QED
      BY <3>1 DEF UpTo
  <2>5. list[n + 1] \notin UpTo(list, n)
    <3> SUFFICES ASSUME NEW k \in 1 .. n, list[k] = list[n + 1]
                 PROVE  FALSE
      BY DEF UpTo
    <3>1. k \in DOMAIN list /\ n + 1 \in DOMAIN list /\ k # n + 1
      BY <1>1, <2>1
    <3>2. QED
      BY <3>1 DEF OneOfEach
  <2>6. list[n + 1] \in Hits(S)
    BY <1>1, <2>1
  <2>7. QED
    BY <2>2, <2>3, <2>4, <2>5, <2>6, OneMoreJoins
<1> HIDE DEF P
<1>5. N \in P
  BY <1>1, <1>3, <1>4, SetInduction
<1>6. HasJoined(f[N], S, primary, lifted, UpTo(list, N))
  BY <1>1, <1>5 DEF P
<1>7. f[N] = Joined(primary, lifted, list) /\ UpTo(list, N) = Members(list)
  BY <1>1, <1>2 DEF MergeTurns, UpTo, Members
<1>8. QED
  BY <1>6, <1>7

\* mergeChunks of another order gives the same hits in another order.
LEMMA MergedAlike ==
  ASSUME NEW S, NEW primary \in Seq(Hits(S)), NEW a \in Seq(Hits(S)), NEW b \in Seq(Hits(S)),
         Alike(a, b), OneOfEach(a)
  PROVE  Alike(MergeChunks(primary, a), MergeChunks(primary, b))
<1>1. OneOfEach(b) /\ Listed(b) = Listed(a) /\ Members(b) = Members(a)
  BY AlikeChunks, AlikeScores DEF Alike
<1>2. Lifted(primary, b) = Lifted(primary, a)
  <2>1. \A n \in DOMAIN primary : primary[n].chunk \in Listed(a) =>
          Hybrid(b, primary[n]) = Hybrid(a, primary[n])
    BY AlikeChunks DEF Hybrid
  <2>2. QED
    BY <1>1, <2>1 DEF Lifted
<1> DEFINE lifted == Lifted(primary, a)
<1>3. lifted \in Seq(Hits(S))
  BY LiftedStays
<1>4. /\ MergeChunks(primary, a) = Joined(primary, lifted, a)
      /\ MergeChunks(primary, b) = Joined(primary, lifted, b)
  BY <1>2, MergedIsJoined
<1> HIDE DEF lifted
<1>5. /\ HasJoined(Joined(primary, lifted, a), S, primary, lifted, Members(a))
      /\ HasJoined(Joined(primary, lifted, b), S, primary, lifted, Members(a))
  BY <1>1, <1>3, AllHaveJoined
<1>6. QED
  BY <1>4, <1>5 DEF HasJoined, Alike

\* rerankChunks of another order gives the same list where no two are equally good.
LEMMA RankedAlike ==
  ASSUME NEW S \in SUBSET Chunk, NEW a \in Seq(Hits(S)), NEW b \in Seq(Hits(S)), Alike(a, b),
         AllDiffer(RerankChunks(a))
  PROVE  RerankChunks(a) = RerankChunks(b)
<1> DEFINE F == [h \in Hits(S) |-> Rescored(h)]
           s == Mapped(a, F)
           t == Mapped(b, F)
<1>1. ASSUME NEW list \in Seq(Hits(S))
      PROVE  /\ Mapped(list, F) = [n \in DOMAIN list |-> Rescored(list[n])]
             /\ Mapped(list, F) \in Seq(Hits(S))
  <2>1. /\ Len(list) \in Nat /\ DOMAIN list = 1 .. Len(list)
        /\ \A k \in 1 .. Len(list) : list[k] \in Hits(S)
    BY HitFields
  <2>2. Mapped(list, F) = [n \in DOMAIN list |-> Rescored(list[n])]
    BY <2>1 DEF Mapped
  <2>3. \A k \in 1 .. Len(list) : Mapped(list, F)[k] \in Hits(S)
    BY <2>1, <2>2, RescoredStays
  <2>4. Mapped(list, F) = [k \in 1 .. Len(list) |-> Mapped(list, F)[k]]
    BY <2>1, <2>2
  <2> HIDE DEF F
  <2>5. Mapped(list, F) \in Seq(Hits(S))
    BY <2>1, <2>3, <2>4
  <2>6. QED
    BY <2>2, <2>5 DEF F
<1>2. s \in Seq(Hits(S)) /\ t \in Seq(Hits(S))
  BY <1>1
<1>3. /\ RerankChunks(a) = StableSort(s, BetterOrEarlier)
      /\ RerankChunks(b) = StableSort(t, BetterOrEarlier)
  <2>1. /\ s = [n \in DOMAIN a |-> Rescored(a[n])]
        /\ t = [n \in DOMAIN b |-> Rescored(b[n])]
    BY <1>1
  <2> HIDE DEF s, t
  <2>2. QED
    BY <2>1, RerankedIsSorted
<1> HIDE DEF F
<1>4. Alike(s, t)
  BY MappedAlike
<1> HIDE DEF s, t
<1>5. Distinct(s)
  BY <1>2, <1>3, SortedDistinct
<1>6. QED
  BY <1>2, <1>3, <1>4, <1>5, SortedAlike

\* Nothing but the order differs.
LEMMA TrimmedAlike ==
  ASSUME NEW S \in SUBSET Chunk, NEW a \in Seq(Hits(S)), NEW b \in Seq(Hits(S)), Alike(a, b),
         Distinct(a)
  PROVE  TrimEffective(a) = TrimEffective(b)
<1>1. StableSort(a, BetterOrEarlier) = StableSort(b, BetterOrEarlier)
  BY SortedAlike
<1>2. a = <<>> <=> b = <<>>
  BY DEF Alike
<1>3. QED
  BY <1>1, <1>2 DEF TrimEffective

\* SearchWithOptions gives the same evidence in whatever order the documents of the matches
\* were looked up, where no two of the hits are equally good.
LEMMA EvidenceAlike ==
  ASSUME NEW S \in SUBSET Chunk, NEW keywords \in Seq(Hits(S)),
         NEW a \in Seq(Hits(S)), NEW b \in Seq(Hits(S)), Alike(a, b), OneOfEach(a),
         LET merged == MergeChunks(Normalized(keywords), Normalized(a))
         IN  AllDiffer(merged) /\ AllDiffer(RerankChunks(merged))
  PROVE  Evidence(keywords, a) = Evidence(keywords, b)
<1> DEFINE s == MergeChunks(Normalized(keywords), Normalized(a))
           t == MergeChunks(Normalized(keywords), Normalized(b))
<1>1. s \in Seq(Hits(S)) /\ t \in Seq(Hits(S)) /\ Alike(s, t)
  <2>1. /\ Normalized(keywords) \in Seq(Hits(S)) /\ Normalized(a) \in Seq(Hits(S))
        /\ Normalized(b) \in Seq(Hits(S))
    BY NormalizedStays
  <2>2. Alike(Normalized(a), Normalized(b)) /\ OneOfEach(Normalized(a))
    BY NormalizedAlike
  <2>3. QED
    BY <2>1, <2>2, MergedStays, MergedAlike
<1>2. AllDiffer(s) /\ AllDiffer(RerankChunks(s))
  OBVIOUS
<1>3. /\ Candidates(keywords, a) = LimitCandidates(s)
      /\ Candidates(keywords, b) = LimitCandidates(t)
  BY DEF Candidates
<1> HIDE DEF s, t
<1>4. Distinct(s)
  BY <1>1, <1>2, DifferentScores
<1>5. CASE Len(s) <= CandidateTopK
  <2>1. Candidates(keywords, a) = s /\ Candidates(keywords, b) = t
    BY <1>1, <1>3, <1>5 DEF LimitCandidates, Alike
  <2>2. RerankChunks(s) = RerankChunks(t) /\ TrimEffective(s) = TrimEffective(t)
    BY <1>1, <1>2, <1>4, RankedAlike, TrimmedAlike
  <2>3. QED
    BY <2>1, <2>2 DEF Evidence
<1>6. CASE ~(Len(s) <= CandidateTopK)
  <2>1. Candidates(keywords, a) = Candidates(keywords, b)
    BY <1>1, <1>3, <1>4, <1>6, SortedAlike DEF LimitCandidates, Alike
  <2>2. QED
    BY <2>1 DEF Evidence
<1>7. QED
  BY <1>5, <1>6

\* Two neighbours change places.
Exchange(list, k) == [list EXCEPT ![k] = list[k + 1], ![k + 1] = list[k]]

LEMMA ExchangedAlike ==
  ASSUME NEW S, NEW list \in Seq(Hits(S)), NEW k \in 1 .. Len(list) - 1
  PROVE  Exchange(list, k) \in Seq(Hits(S)) /\ Alike(list, Exchange(list, k))
<1> DEFINE N == Len(list)
           new == Exchange(list, k)
<1>1. N \in Nat /\ DOMAIN list = 1 .. N /\ \A n \in 1 .. N : list[n] \in Hits(S)
  BY HitFields
<1>2. k \in 1 .. N /\ k + 1 \in 1 .. N /\ k # k + 1
  BY <1>1
<1>3. new = [n \in 1 .. N |-> IF n = k + 1 THEN list[k] ELSE IF n = k THEN list[k + 1] ELSE list[n]]
  BY <1>1, <1>2 DEF Exchange
<1>4. new \in Seq(Hits(S)) /\ Len(new) = N /\ DOMAIN new = 1 .. N
  BY <1>1, <1>2, <1>3
<1>5. /\ new[k] = list[k + 1] /\ new[k + 1] = list[k]
      /\ \A n \in 1 .. N : n \notin {k, k + 1} => new[n] = list[n]
  BY <1>2, <1>3
<1> HIDE DEF new, N
<1>6. Members(new) = Members(list)
  <2>1. \A n \in 1 .. N : \E m \in 1 .. N : new[n] = list[m]
    BY <1>2, <1>5
  <2>2. \A n \in 1 .. N : \E m \in 1 .. N : list[n] = new[m]
    BY <1>2, <1>5
  <2>3. Members(new) = {new[n] : n \in 1 .. N} /\ Members(list) = {list[n] : n \in 1 .. N}
    BY <1>1, <1>4 DEF Members
  <2>4. QED
    BY <2>1, <2>2, <2>3
<1>7. QED
  BY <1>4, <1>6 DEF Alike, new, N

-----------------------------------------------------------------------------
(* The invariant of a call *)

\* The chunks a call may show: those of its knowledge base whose documents were not deleted
\* when it began.
OwnChunks == {c \in Chunk : DocOf[c] \in Own}
MayShow   == {c \in OwnChunks : DocOf[c] \notin began.gone}

AnswerTypes ==
  [evidence : Seq(Entries(OwnChunks)), total : Nat, covered : SUBSET Own]

Calls ==
  [tool : KnowledgeTools \cup {"none"},
   pc : {"idle", "subject", "embed", "vector", "documents", "names", "list", "chunks",
         "answered", "failed"},
   queries : Seq(Query), hits : SUBSET Hits(OwnChunks),
   matches : Seq(Hits(OwnChunks)), scored : Seq(Hits(OwnChunks)),
   keywords : Seq(Hits(OwnChunks)), documents : SUBSET Own,
   answer : AnswerTypes]

KnowledgeTypes ==
  /\ phase \in [Document -> {"processing", "ready", "deleting", "gone"}]
  /\ rows \in SUBSET Chunk /\ vectors \in SUBSET Chunk
  /\ similar \in [Query -> [Chunk -> 0 .. Unit]] /\ wording \in [Chunk -> Nat]
  /\ began \in [gone : SUBSET Document, ready : SUBSET Own]
  /\ call \in Calls

\* What was so when the call began and cannot be undone.
Irreversible ==
  /\ began.gone \subseteq Gone
  /\ \A d \in began.ready : phase[d] # "processing"

\* What the call has gathered is of documents that were not deleted; the listing is of all
\* that could be indexed all the time.
Gathered ==
  /\ call.pc = "idle" => call = Idle
  /\ call.matches \in Seq(Hits(MayShow)) /\ call.keywords \in Seq(Hits(MayShow))
  /\ call.documents \cap began.gone = {}
  /\ call.pc \in {"list", "chunks"} => call.tool # "search"
  /\ call.pc = "chunks" /\ Cardinality(Own) <= PageSize =>
       began.ready \cap Ready \subseteq call.documents

Shown == NothingDeletedIsShown /\ CompleteMeansAll /\ EvidenceIsSound

CallInv == KnowledgeTypes /\ Irreversible /\ Gathered /\ Shown

-----------------------------------------------------------------------------
(* What its steps have in common *)

LEMMA Showable ==
  ASSUME CallInv
  PROVE  /\ OwnChunks \in SUBSET Chunk /\ MayShow \in SUBSET OwnChunks /\ MayShow \in SUBSET Chunk
         /\ \A d \in Own : phase[d] # "gone" => d \notin began.gone
         /\ Ready \in SUBSET Own /\ IsFiniteSet(Ready) /\ IsFiniteSet(Own)
         /\ \A d \in Ready : d \notin began.gone
<1>1. OwnChunks \in SUBSET Chunk /\ MayShow \in SUBSET OwnChunks
  BY DEF OwnChunks, MayShow
<1>2. \A d \in Own : phase[d] # "gone" => d \notin began.gone
  BY KnowledgeAssumption DEF CallInv, Irreversible, Gone
<1>3. Ready \in SUBSET Own
  BY DEF Ready
<1>4. IsFiniteSet(Own)
  BY KnowledgeAssumption, FS_Subset
<1>5. IsFiniteSet(Ready)
  BY <1>3, <1>4, FS_Subset
<1>6. QED
  BY <1>1, <1>2, <1>3, <1>4, <1>5 DEF Ready

\* Until there is an answer, a step of the call gathers.
LEMMA Gathers ==
  ASSUME CallInv, Reading, call' \in Calls, call'.pc # "idle", call'.pc # "answered",
         call'.matches \in Seq(Hits(MayShow)), call'.keywords \in Seq(Hits(MayShow)),
         call'.documents \cap began.gone = {},
         call'.pc \in {"list", "chunks"} => call'.tool # "search",
         call'.pc = "chunks" /\ Cardinality(Own) <= PageSize =>
           began.ready \cap Ready \subseteq call'.documents
  PROVE  CallInv'
<1>1. /\ phase' = phase /\ rows' = rows /\ vectors' = vectors /\ similar' = similar
      /\ wording' = wording /\ began' = began
  BY DEF Reading, store
<1>2. Ready' = Ready /\ Gone' = Gone /\ MayShow' = MayShow /\ ~Answered'
  BY <1>1 DEF Ready, Gone, MayShow, Answered
<1>3. KnowledgeTypes'
  BY <1>1 DEF CallInv, KnowledgeTypes
<1>4. Irreversible'
  BY <1>1, <1>2 DEF CallInv, Irreversible
<1>5. Gathered'
  BY <1>1, <1>2 DEF Gathered
<1>6. Shown'
  BY <1>2 DEF Shown, NothingDeletedIsShown, CompleteMeansAll, EvidenceIsSound
<1>7. QED
  BY <1>3, <1>4, <1>5, <1>6 DEF CallInv

\* What may be answered.
Fitting(a) ==
  /\ Cited(a.evidence) \subseteq MayShow
  /\ call.tool = "search" => /\ WithinPolicy(a.evidence)
                             /\ \A n \in DOMAIN a.evidence : Contiguous(a.evidence[n])
  /\ /\ call.tool = "overview" /\ a.total > 0 /\ Cardinality(a.covered) = a.total
     /\ Cardinality(Own) <= PageSize
     => began.ready \cap Ready \subseteq a.covered

\* An answer ends the call.
LEMMA Answers ==
  ASSUME CallInv, Reading, call.pc # "idle", NEW a \in AnswerTypes, Answer(a), Fitting(a)
  PROVE  CallInv'
<1>1. /\ phase' = phase /\ rows' = rows /\ vectors' = vectors /\ similar' = similar
      /\ wording' = wording /\ began' = began
  BY DEF Reading, store
<1>2. Ready' = Ready /\ Gone' = Gone /\ MayShow' = MayShow
  BY <1>1 DEF Ready, Gone, MayShow
<1>3. /\ call' \in Calls /\ call'.pc = "answered" /\ call'.answer = a /\ call'.tool = call.tool
      /\ call'.matches = call.matches /\ call'.keywords = call.keywords
      /\ call'.documents = call.documents
  BY DEF CallInv, KnowledgeTypes, Answer, Calls
<1>4. KnowledgeTypes'
  BY <1>1, <1>3 DEF CallInv, KnowledgeTypes
<1>5. Irreversible'
  BY <1>1, <1>2 DEF CallInv, Irreversible
<1>6. Gathered'
  BY <1>1, <1>2, <1>3 DEF CallInv, Gathered
<1>7. NothingDeletedIsShown'
  BY <1>1, <1>3 DEF NothingDeletedIsShown, Fitting, MayShow, OwnChunks
<1>8. CompleteMeansAll'
  BY <1>1, <1>2, <1>3 DEF CompleteMeansAll, Fitting, Complete
<1>9. EvidenceIsSound'
  BY <1>3 DEF EvidenceIsSound, Fitting
<1>10. QED
  BY <1>4, <1>5, <1>6, <1>7, <1>8, <1>9 DEF CallInv, Shown

-----------------------------------------------------------------------------
(* The steps *)

LEMMA CallStarts == Init => CallInv
<1> SUFFICES ASSUME Init
             PROVE  CallInv
  OBVIOUS
<1>1. call = Idle /\ began = [gone |-> {}, ready |-> {}]
  BY DEF Init
<1>2. Idle \in Calls
  BY DEF Idle, Calls, NoAnswer, AnswerTypes
<1>3. KnowledgeTypes
  <2>1. phase \in [Document -> {"processing", "ready", "deleting", "gone"}]
    BY DEF Init
  <2>2. rows \in SUBSET Chunk /\ vectors \in SUBSET Chunk
    BY DEF Init
  <2>3. similar \in [Query -> [Chunk -> 0 .. Unit]] /\ wording \in [Chunk -> Nat]
    BY KnowledgeAssumption DEF Init
  <2>4. QED
    BY <1>1, <1>2, <2>1, <2>2, <2>3 DEF KnowledgeTypes
<1>4. Irreversible
  BY <1>1 DEF Irreversible
<1>5. Gathered
  BY <1>1 DEF Gathered, Idle
<1>6. Shown
  BY <1>1 DEF Shown, NothingDeletedIsShown, CompleteMeansAll, EvidenceIsSound, Answered, Idle
<1>7. QED
  BY <1>3, <1>4, <1>5, <1>6 DEF CallInv

\* Nothing that the pipeline does makes a document ready again or undoes a deletion.
LEMMA PipelineAside ==
  ASSUME CallInv, NEW d \in Own, Pipeline(d)
  PROVE  CallInv'
<1>1. similar' = similar /\ wording' = wording /\ call' = call /\ began' = began /\ ~Answered
  BY DEF Pipeline, Answered
<1>2. d \in Document /\ phase \in [Document -> {"processing", "ready", "deleting", "gone"}]
      /\ rows \in SUBSET Chunk /\ vectors \in SUBSET Chunk
  BY KnowledgeAssumption DEF CallInv, KnowledgeTypes
<1>3. /\ phase' \in [Document -> {"processing", "ready", "deleting", "gone"}]
      /\ rows' \in SUBSET Chunk /\ vectors' \in SUBSET Chunk
  BY <1>2 DEF Pipeline, StoreRows, StoreVectors, IndexDocument, RequestDelete, DeleteVectors,
              CompleteDelete, ChunksOf
<1>4. \A e \in Document :
        /\ phase[e] = "gone" => phase'[e] = "gone"
        /\ phase[e] # "processing" => phase'[e] # "processing"
        /\ phase[e] # "processing" /\ phase'[e] = "ready" => phase[e] = "ready"
  BY <1>2 DEF Pipeline, StoreRows, StoreVectors, IndexDocument, RequestDelete, DeleteVectors,
              CompleteDelete
<1>5. KnowledgeTypes'
  BY <1>1, <1>3 DEF CallInv, KnowledgeTypes
<1>6. Own \subseteq Document /\ began.gone \subseteq Document /\ began.ready \subseteq Own
  BY KnowledgeAssumption DEF CallInv, KnowledgeTypes
<1>7. Irreversible'
  BY <1>1, <1>4, <1>6 DEF CallInv, Irreversible, Gone
<1>8. began.ready \cap Ready' \subseteq Ready
  BY <1>4, <1>6 DEF CallInv, Irreversible, Ready
<1>9. Gathered'
  BY <1>1, <1>8 DEF CallInv, Gathered, MayShow
<1>10. Shown'
  BY <1>1 DEF Shown, NothingDeletedIsShown, CompleteMeansAll, EvidenceIsSound, Answered
<1>11. QED
  BY <1>5, <1>7, <1>9, <1>10 DEF CallInv

LEMMA ReceiveGathers ==
  ASSUME CallInv, NEW tool \in KnowledgeTools, Receive(tool)
  PROVE  CallInv'
<1>1. call = Idle
  BY DEF CallInv, Gathered, Receive, At
<1>2. /\ call' = [call EXCEPT !.tool = tool,
                              !.pc = IF tool = "navigation" THEN "list" ELSE "subject"]
      /\ began' = [gone |-> Gone, ready |-> Ready]
      /\ phase' = phase /\ rows' = rows /\ vectors' = vectors /\ similar' = similar
      /\ wording' = wording
  BY DEF Receive, store
<1>3. /\ call' \in Calls /\ call'.pc \in {"list", "subject"} /\ call'.matches = <<>>
      /\ call'.keywords = <<>> /\ call'.documents = {}
      /\ (call'.pc = "list" => call'.tool # "search")
  <2>1. call \in Calls
    BY DEF CallInv, KnowledgeTypes
  <2>2. call' \in Calls
    BY <1>2, <2>1 DEF Calls
  <2>3. call.matches = <<>> /\ call.keywords = <<>> /\ call.documents = {}
    BY <1>1 DEF Idle
  <2>4. /\ call'.pc \in {"list", "subject"} /\ call'.matches = call.matches
        /\ call'.keywords = call.keywords /\ call'.documents = call.documents
        /\ call'.tool = tool /\ (call'.pc = "list" => tool = "navigation")
    BY <1>2, <2>1 DEF Calls
  <2>5. QED
    BY <2>2, <2>3, <2>4
<1>4. Gone \in SUBSET Document /\ Ready \in SUBSET Own
  BY DEF Gone, Ready
<1>5. KnowledgeTypes'
  BY <1>2, <1>3, <1>4 DEF CallInv, KnowledgeTypes
<1>6. Irreversible'
  BY <1>2 DEF Irreversible, Gone, Ready
<1>7. Gathered'
  BY <1>3 DEF Gathered
<1>8. Shown'
  BY <1>3 DEF Shown, NothingDeletedIsShown, CompleteMeansAll, EvidenceIsSound, Answered
<1>9. QED
  BY <1>5, <1>6, <1>7, <1>8 DEF CallInv

\* Steps that read nothing of a document.
LEMMA OtherSteps ==
  ASSUME CallInv, FindSubject \/ EmbedQueries \/ DropDistant \/ Fail
  PROVE  CallInv'
<1>1. call \in Calls
  BY DEF CallInv, KnowledgeTypes
<1>2. /\ call.matches \in Seq(Hits(MayShow)) /\ call.keywords \in Seq(Hits(MayShow))
      /\ call.documents \cap began.gone = {}
  BY DEF CallInv, Gathered
<1>3. CASE FindSubject
  <2>1. Reading /\ call' = [call EXCEPT !.pc = IF call.tool = "search" THEN "embed" ELSE "list"]
    BY <1>3 DEF FindSubject
  <2>2. /\ call' \in Calls /\ call'.pc \in {"embed", "list"} /\ call'.matches = call.matches
        /\ call'.keywords = call.keywords /\ call'.documents = call.documents
        /\ (call'.pc = "list" => call'.tool # "search")
    BY <1>1, <2>1 DEF Calls
  <2>3. QED
    BY <1>2, <2>1, <2>2, Gathers
<1>4. CASE EmbedQueries
  <2>1. PICK question \in Questions :
          call' = [call EXCEPT !.queries = BuildQueryPlan(question), !.pc = "vector"]
    BY <1>4 DEF EmbedQueries
  <2>2. BuildQueryPlan(question) \in Seq(Query)
    BY KnowledgeAssumption, Planned
  <2>3. /\ call' \in Calls /\ call'.pc = "vector" /\ call'.matches = call.matches
        /\ call'.keywords = call.keywords /\ call'.documents = call.documents
    BY <1>1, <2>1, <2>2 DEF Calls
  <2>4. Reading
    BY <1>4 DEF EmbedQueries
  <2>5. QED
    BY <1>2, <2>3, <2>4, Gathers
<1>5. CASE DropDistant
  <2>1. /\ Reading
        /\ call' = [call EXCEPT !.hits = {hit \in call.hits : hit.score >= Threshold},
                                !.pc = "documents"]
    BY <1>5 DEF DropDistant
  <2>2. /\ call' \in Calls /\ call'.pc = "documents" /\ call'.matches = call.matches
        /\ call'.keywords = call.keywords /\ call'.documents = call.documents
    BY <1>1, <2>1 DEF Calls
  <2>3. QED
    BY <1>2, <2>1, <2>2, Gathers
<1>6. CASE Fail
  <2>1. Reading /\ call' = [Idle EXCEPT !.tool = call.tool, !.pc = "failed"]
    BY <1>6 DEF Fail
  <2>2. Idle \in Calls /\ Idle.matches = <<>> /\ Idle.keywords = <<>> /\ Idle.documents = {}
    BY DEF Idle, Calls, NoAnswer, AnswerTypes
  <2>3. /\ call' \in Calls /\ call'.pc = "failed" /\ call'.matches = Idle.matches
        /\ call'.keywords = Idle.keywords /\ call'.documents = Idle.documents
    BY <1>1, <2>1, <2>2 DEF Calls
  <2>4. <<>> \in Seq(Hits(MayShow)) /\ {} \cap began.gone = {}
    OBVIOUS
  <2>5. QED
    BY <2>1, <2>2, <2>3, <2>4, Gathers
<1>7. QED
  BY <1>3, <1>4, <1>5, <1>6

\* Milvus finds chunks of the knowledge base only.
LEMMA VectorsAreSearched ==
  ASSUME CallInv, SearchVectors
  PROVE  CallInv'
<1>1. call \in Calls /\ similar \in [Query -> [Chunk -> 0 .. Unit]] /\ vectors \in SUBSET Chunk
  BY DEF CallInv, KnowledgeTypes
<1>2. /\ call.matches \in Seq(Hits(MayShow)) /\ call.keywords \in Seq(Hits(MayShow))
      /\ call.documents \cap began.gone = {}
  BY DEF CallInv, Gathered
<1> DEFINE query  == Head(call.queries)
           scores == similar[query]
           hits   == call.hits
<1>3. hits \in SUBSET Hits(OwnChunks) /\ call.queries \in Seq(Query) /\ call.queries # <<>>
  BY <1>1 DEF Calls, SearchVectors
<1>4. query \in Query /\ Tail(call.queries) \in Seq(Query)
  BY <1>3
<1>5. scores \in [Chunk -> 0 .. Unit]
  BY <1>1, <1>4
<1> DEFINE New(found, c) == IF c \in found THEN scores[c] ELSE 0
           More(found) == {[chunk |-> c, score |-> Greatest(ScoreIn(hits, c), New(found, c)),
                            source |-> "vector"] : c \in Chunks(hits) \cup found}
<1>6. PICK found \in SUBSET vectors :
        /\ IsSearchResult(found, query)
        /\ call' = [call EXCEPT !.queries = Tail(call.queries), !.hits = More(found)]
  BY DEF SearchVectors
<1>7. found \in SUBSET OwnChunks
  BY <1>1, <1>6 DEF IsSearchResult, OwnChunks
<1>8. \A c \in Chunks(hits) : c \in OwnChunks /\ ScoreIn(hits, c) \in Nat
  <2> SUFFICES ASSUME NEW c \in Chunks(hits)
               PROVE  c \in OwnChunks /\ ScoreIn(hits, c) \in Nat
    OBVIOUS
  <2>1. PICK hit \in hits : hit.chunk = c
    BY DEF Chunks
  <2>2. (CHOOSE h \in hits : h.chunk = c) \in hits
    BY <2>1
  <2>3. \A h \in hits : h.score \in Nat /\ h.chunk \in OwnChunks
    BY <1>3 DEF Hits
  <2>4. ScoreIn(hits, c) = (CHOOSE h \in hits : h.chunk = c).score
    BY DEF ScoreIn
  <2>5. QED
    BY <2>1, <2>2, <2>3, <2>4
<1>9. More(found) \in SUBSET Hits(OwnChunks)
  <2> SUFFICES ASSUME NEW c \in Chunks(hits) \cup found
               PROVE  [chunk |-> c, score |-> Greatest(ScoreIn(hits, c), New(found, c)),
                       source |-> "vector"] \in Hits(OwnChunks)
    OBVIOUS
  <2>1. c \in OwnChunks /\ c \in Chunk
    BY <1>7, <1>8 DEF OwnChunks
  <2>2. ScoreIn(hits, c) \in Nat
    BY <1>8 DEF ScoreIn
  <2>3. New(found, c) \in Nat
    BY <1>5, <2>1
  <2> HIDE DEF New
  <2>4. Greatest(ScoreIn(hits, c), New(found, c)) \in Nat
    BY <2>2, <2>3 DEF Greatest
  <2>5. QED
    BY <2>1, <2>4 DEF Hits
<1> HIDE DEF More, hits, scores
<1>10. /\ call' \in Calls /\ call'.pc = "vector" /\ call'.matches = call.matches
       /\ call'.keywords = call.keywords /\ call'.documents = call.documents
  <2>1. call.pc = "vector"
    BY DEF SearchVectors, At
  <2>2. QED
    BY <1>1, <1>4, <1>6, <1>9, <2>1 DEF Calls
<1>11. Reading
  BY DEF SearchVectors
<1>12. QED
  BY <1>2, <1>10, <1>11, Gathers

\* A hit is taken only if its document is there, and then it was there when the call began.
LEMMA TakenMayBeShown ==
  ASSUME CallInv, NEW list \in Seq(Hits(MayShow)), NEW hit \in Hits(OwnChunks)
  PROVE  TakeIfThere(list, hit) \in Seq(Hits(MayShow))
<1>1. CASE phase[DocOf[hit.chunk]] = "gone"
  BY <1>1 DEF TakeIfThere
<1>2. CASE phase[DocOf[hit.chunk]] # "gone"
  <2>1. hit.chunk \in OwnChunks /\ DocOf[hit.chunk] \in Own
    BY DEF Hits, OwnChunks
  <2>2. hit.chunk \in MayShow
    BY <1>2, <2>1, Showable DEF MayShow
  <2>3. hit \in Hits(MayShow)
    BY <2>2 DEF Hits
  <2>4. QED
    BY <1>2, <2>3 DEF TakeIfThere
<1>3. QED
  BY <1>1, <1>2

LEMMA DocumentsAreLookedUp ==
  ASSUME CallInv, LookUpMatch \/ LookUpKeyword
  PROVE  CallInv'
<1>1. call \in Calls
  BY DEF CallInv, KnowledgeTypes
<1>2. /\ call.matches \in Seq(Hits(MayShow)) /\ call.keywords \in Seq(Hits(MayShow))
      /\ call.documents \cap began.gone = {}
  BY DEF CallInv, Gathered
<1>3. Seq(Hits(MayShow)) \subseteq Seq(Hits(OwnChunks))
  <2>1. Hits(MayShow) \subseteq Hits(OwnChunks)
    BY Showable DEF Hits
  <2>2. QED
    BY <2>1
<1>4. CASE LookUpMatch
  <2>1. PICK hit \in call.hits :
          call' = [call EXCEPT !.hits = call.hits \ {hit},
                               !.matches = TakeIfThere(call.matches, hit)]
    BY <1>4 DEF LookUpMatch
  <2>2. hit \in Hits(OwnChunks)
    BY <1>1 DEF Calls
  <2>3. TakeIfThere(call.matches, hit) \in Seq(Hits(MayShow))
    BY <1>2, <2>2, TakenMayBeShown
  <2>4. /\ call' \in Calls /\ call'.pc = call.pc /\ call'.keywords = call.keywords
        /\ call'.matches = TakeIfThere(call.matches, hit) /\ call'.documents = call.documents
    BY <1>1, <1>3, <2>1, <2>3 DEF Calls
  <2>5. Reading /\ call.pc = "documents"
    BY <1>4 DEF LookUpMatch, At
  <2>6. QED
    BY <1>2, <2>3, <2>4, <2>5, Gathers
<1>5. CASE LookUpKeyword
  <2>1. /\ Reading /\ call.pc = "names" /\ call.scored # <<>>
        /\ call' = [call EXCEPT !.scored = Tail(call.scored),
                                !.keywords = TakeIfThere(call.keywords, Head(call.scored))]
    BY <1>5 DEF LookUpKeyword, At
  <2>2. call.scored \in Seq(Hits(OwnChunks))
    BY <1>1 DEF Calls
  <2>3. Head(call.scored) \in Hits(OwnChunks) /\ Tail(call.scored) \in Seq(Hits(OwnChunks))
    BY <2>1, <2>2
  <2>4. TakeIfThere(call.keywords, Head(call.scored)) \in Seq(Hits(MayShow))
    BY <1>2, <2>3, TakenMayBeShown
  <2>5. /\ call' \in Calls /\ call'.pc = call.pc /\ call'.matches = call.matches
        /\ call'.keywords = TakeIfThere(call.keywords, Head(call.scored))
        /\ call'.documents = call.documents
    BY <1>1, <1>3, <2>1, <2>3, <2>4 DEF Calls
  <2>6. QED
    BY <1>2, <2>1, <2>4, <2>5, Gathers
<1>6. QED
  BY <1>4, <1>5

\* A finite set has its members in some sequence.
LEMMA SetsAreListed ==
  ASSUME NEW T, IsFiniteSet(T)
  PROVE  SetToSeq(T) \in Seq(T)
<1> DEFINE N == Cardinality(T)
           Lists(f) == f \in [1 .. N -> T] /\ IsInjective(f)
<1>1. PICK n \in Nat : ExistsBijection(1 .. n, T)
  BY FS_NatBijection
<1>2. N = n /\ N \in Nat
  BY <1>1, FS_CountingElements
<1>3. PICK f : f \in Bijection(1 .. n, T)
  BY <1>1 DEF ExistsBijection
<1>4. f \in [1 .. n -> T] /\ IsInjective(f)
  BY <1>3 DEF Bijection, Injection
<1>5. Lists(f)
  BY <1>2, <1>4
<1>6. SetToSeq(T) = CHOOSE g \in [1 .. N -> T] : IsInjective(g)
  BY DEF SetToSeq
<1>7. SetToSeq(T) \in [1 .. N -> T]
  BY <1>5, <1>6
<1>8. QED
  BY <1>2, <1>7

\* ListBySubject's order keeps the chunks.
LEMMA SortedByPlace ==
  ASSUME NEW S \in SUBSET Chunk, NEW list \in Seq(S)
  PROVE  /\ StableSort(list, Earlier) \in Seq(S)
         /\ Len(StableSort(list, Earlier)) = Len(list)
<1> DEFINE N == Len(list)
           at(k) == IndexOf[list[k]]
           R == {p \in (DOMAIN list) \X (DOMAIN list) :
                    \/ Earlier(list[p[1]], list[p[2]])
                    \/ (p[1] < p[2] /\ ~Earlier(list[p[2]], list[p[1]]))}
<1>1. N \in Nat /\ DOMAIN list = 1 .. N /\ \A k \in 1 .. N : at(k) \in Nat
  BY PolicyAssumption
<1>2. \A j, k \in 1 .. N : <<j, k>> \in R <=> at(j) < at(k) \/ (j < k /\ ~(at(k) < at(j)))
  <2> SUFFICES ASSUME NEW j \in 1 .. N, NEW k \in 1 .. N
               PROVE  <<j, k>> \in R <=> at(j) < at(k) \/ (j < k /\ ~(at(k) < at(j)))
    OBVIOUS
  <2>1. <<j, k>> \in (DOMAIN list) \X (DOMAIN list)
    BY <1>1
  <2>2. QED
    BY <2>1 DEF Earlier
<1> HIDE DEF R, at
<1>3. Orders(R, N)
  BY <1>1, <1>2 DEF Orders
<1>4. QED
  BY <1>3, SortedStays DEF StableSort, R

LEMMA KeywordsAreSearched ==
  ASSUME CallInv, SearchKeywords
  PROVE  CallInv'
<1>1. call \in Calls /\ wording \in [Chunk -> Nat] /\ rows \in SUBSET Chunk
  BY DEF CallInv, KnowledgeTypes
<1>2. /\ call.matches \in Seq(Hits(MayShow)) /\ call.keywords \in Seq(Hits(MayShow))
      /\ call.documents \cap began.gone = {}
  BY DEF CallInv, Gathered
<1> DEFINE matching == {c \in rows : DocOf[c] \in Own /\ wording[c] > 0}
           found  == StableSort(SetToSeq(matching), Earlier)
           hits   == [n \in DOMAIN found |-> [chunk |-> found[n], score |-> wording[found[n]],
                                              source |-> "keyword"]]
           scored == StableSort(hits, Better)
           top    == SubSeq(scored, 1, Least(Len(scored), CandidateTopK))
<1>3. Reading /\ call' = [call EXCEPT !.scored = top, !.pc = "names"]
  BY DEF SearchKeywords
<1>4. matching \in SUBSET OwnChunks /\ IsFiniteSet(matching) /\ OwnChunks \in SUBSET Chunk
  <2>1. matching \in SUBSET OwnChunks /\ OwnChunks \in SUBSET Chunk
    BY <1>1 DEF OwnChunks
  <2>2. QED
    BY <2>1, KnowledgeAssumption, FS_Subset
<1> HIDE DEF matching
<1>5. SetToSeq(matching) \in Seq(OwnChunks)
  <2>1. SetToSeq(matching) \in Seq(matching)
    BY <1>4, SetsAreListed
  <2> HIDE DEF found
  <2>2. QED
    BY <1>4, <2>1
<1>6. found \in Seq(OwnChunks)
  BY <1>4, <1>5, SortedByPlace
<1> HIDE DEF found
<1>7. hits \in Seq(Hits(OwnChunks))
  <2>1. DOMAIN found = 1 .. Len(found) /\ Len(found) \in Nat
        /\ \A n \in 1 .. Len(found) : found[n] \in OwnChunks
    BY <1>6
  <2>2. \A n \in 1 .. Len(found) : hits[n] \in Hits(OwnChunks)
    BY <1>1, <1>4, <2>1 DEF Hits
  <2>3. QED
    BY <2>1, <2>2
<1> HIDE DEF hits
<1>8. scored \in Seq(Hits(OwnChunks))
  BY <1>7, SortedByScore
<1> HIDE DEF scored
<1>9. top \in Seq(Hits(OwnChunks))
  <2>1. Least(Len(scored), CandidateTopK) \in Nat /\ Least(Len(scored), CandidateTopK) <= Len(scored)
    BY <1>8, Limits DEF Least
  <2>2. QED
    BY <1>8, <2>1
<1> HIDE DEF top
<1>10. /\ call' \in Calls /\ call'.pc = "names" /\ call'.matches = call.matches
       /\ call'.keywords = call.keywords /\ call'.documents = call.documents
  BY <1>1, <1>3, <1>9 DEF Calls
<1>11. QED
  BY <1>2, <1>3, <1>10, Gathers

LEMMA RankAnswers ==
  ASSUME CallInv, Rank
  PROVE  CallInv'
<1> DEFINE evidence == Evidence(call.keywords, call.matches)
           a == [evidence |-> evidence, total |-> 0, covered |-> {}]
<1>1. call.matches \in Seq(Hits(MayShow)) /\ call.keywords \in Seq(Hits(MayShow))
  BY DEF CallInv, Gathered
<1>2. /\ evidence \in Seq(Entries(MayShow)) /\ WithinPolicy(evidence)
      /\ \A n \in DOMAIN evidence : Contiguous(evidence[n])
      /\ Cited(evidence) \subseteq MayShow
  BY <1>1, Showable, EvidenceIsGood
<1>3. evidence \in Seq(Entries(OwnChunks))
  <2> HIDE DEF evidence
  <2>1. \A s \in Seq(MayShow) : s \in Seq(OwnChunks)
    BY Showable
  <2>2. Entries(MayShow) \subseteq Entries(OwnChunks)
    BY <2>1 DEF Entries
  <2>3. QED
    BY <1>2, <2>2
<1>4. Reading /\ call.pc = "names" /\ Answer(a)
  BY DEF Rank, At
<1> HIDE DEF evidence
<1>5. a \in AnswerTypes
  BY <1>3 DEF AnswerTypes
<1>6. a.evidence = evidence /\ a.total = 0
  OBVIOUS
<1> HIDE DEF a
<1>7. Fitting(a)
  BY <1>2, <1>6 DEF Fitting
<1>8. QED
  BY <1>4, <1>5, <1>7, Answers

-----------------------------------------------------------------------------
(* Listings *)

\* A page that holds all the documents there could be holds all that are indexed.
LEMMA PageIsWhole ==
  ASSUME CallInv, NEW page \in SUBSET Ready, IsPage(page), Cardinality(Own) <= PageSize
  PROVE  page = Ready
<1>1. /\ IsFiniteSet(Ready) /\ IsFiniteSet(Own) /\ Ready \in SUBSET Own
      /\ Cardinality(page) = Least(PageSize, Cardinality(Ready))
  BY Showable DEF IsPage
<1>2. /\ Cardinality(Ready) \in Nat /\ Cardinality(Own) \in Nat /\ PageSize \in Nat
      /\ Cardinality(Ready) <= Cardinality(Own)
  BY <1>1, FS_CardinalityType, FS_Subset, KnowledgeAssumption
<1>3. Cardinality(page) = Cardinality(Ready)
  BY <1>1, <1>2 DEF Least
<1>4. QED
  BY <1>1, <1>3, FS_Subset

\* Without evidence nothing is shown.
LEMMA NothingToShow ==
  /\ NoAnswer \in AnswerTypes
  /\ Cited(NoAnswer.evidence) = {} /\ NoAnswer.total = 0
<1>1. Cited(<<>>) = {}
  BY DEF Cited
<1>2. QED
  BY <1>1 DEF NoAnswer, AnswerTypes

LEMMA DocumentsAreListed ==
  ASSUME CallInv, ListDocuments
  PROVE  CallInv'
<1>1. call \in Calls
  BY DEF CallInv, KnowledgeTypes
<1>2. /\ call.matches \in Seq(Hits(MayShow)) /\ call.keywords \in Seq(Hits(MayShow))
      /\ call.pc = "list" /\ call.tool # "search" /\ Reading
  BY DEF CallInv, Gathered, ListDocuments, At
<1>3. PICK page \in SUBSET Ready :
        /\ IsPage(page)
        /\ IF page = {} THEN Answer(NoAnswer)
           ELSE call' = [call EXCEPT !.documents = page, !.pc = "chunks"]
  BY DEF ListDocuments
<1>4. CASE page = {}
  <2>1. Answer(NoAnswer)
    BY <1>3, <1>4
  <2>2. Fitting(NoAnswer)
    BY <1>2, NothingToShow DEF Fitting
  <2>3. QED
    BY <1>2, <2>1, <2>2, NothingToShow, Answers
<1>5. CASE page # {}
  <2>1. call' = [call EXCEPT !.documents = page, !.pc = "chunks"]
    BY <1>3, <1>5
  <2>2. page \in SUBSET Own /\ page \cap began.gone = {}
    BY Showable
  <2>3. /\ call' \in Calls /\ call'.pc = "chunks" /\ call'.matches = call.matches
        /\ call'.keywords = call.keywords /\ call'.documents = page /\ call'.tool = call.tool
    BY <1>1, <2>1, <2>2 DEF Calls
  <2>4. Cardinality(Own) <= PageSize => page = Ready
    BY <1>3, PageIsWhole
  <2>5. QED
    BY <1>2, <2>2, <2>3, <2>4, Gathers
<1>6. QED
  BY <1>4, <1>5

\* Chunks one by one, each an entry of its own.
Single(chosen) == [n \in DOMAIN chosen |-> Entry([chunk |-> chosen[n], score |-> 0])]

\* Representatives of documents that were listed may be shown.
LEMMA RepresentativesMayBeShown ==
  ASSUME CallInv, NEW listed \in SUBSET call.documents, NEW limit \in Nat,
         NEW chosen \in Representatives(listed, limit)
  PROVE  Single(chosen) \in Seq(Entries(OwnChunks)) /\ Cited(Single(chosen)) \subseteq MayShow
<1> DEFINE N == Least(limit, Cardinality(listed))
<1>1. call \in Calls /\ rows \in SUBSET Chunk /\ call.documents \cap began.gone = {}
  BY DEF CallInv, KnowledgeTypes, Gathered
<1>2. call.documents \in SUBSET Own
  BY <1>1 DEF Calls
<1>3. chosen \in [1 .. N -> rows] /\ \A n \in DOMAIN chosen : DocOf[chosen[n]] \in listed
  BY DEF Representatives
<1>4. N \in Nat
  <2>1. IsFiniteSet(listed)
    BY <1>2, Showable, FS_Subset
  <2>2. Cardinality(listed) \in Nat
    BY <2>1, FS_CardinalityType
  <2>3. QED
    BY <2>2 DEF Least
<1> HIDE DEF N
<1>5. \A n \in 1 .. N : chosen[n] \in MayShow /\ chosen[n] \in OwnChunks
  BY <1>1, <1>2, <1>3 DEF MayShow, OwnChunks
<1>6. \A n \in 1 .. N : Entry([chunk |-> chosen[n], score |-> 0]) \in Entries(MayShow)
  <2> SUFFICES ASSUME NEW n \in 1 .. N
               PROVE  Entry([chunk |-> chosen[n], score |-> 0]) \in Entries(MayShow)
    OBVIOUS
  <2>1. IndexOf[chosen[n]] \in Nat /\ <<chosen[n]>> \in Seq(MayShow)
    BY <1>5, PolicyAssumption DEF OwnChunks
  <2>2. QED
    BY <2>1 DEF Entry, Entries
<1>7. Single(chosen) \in Seq(Entries(MayShow))
  <2>1. Single(chosen) = [n \in 1 .. N |-> Entry([chunk |-> chosen[n], score |-> 0])]
    BY <1>3 DEF Single
  <2>2. QED
    BY <1>4, <1>6, <2>1
<1>8. Entries(MayShow) \subseteq Entries(OwnChunks)
  <2>1. \A s \in Seq(MayShow) : s \in Seq(OwnChunks)
    BY Showable
  <2>2. QED
    BY <2>1 DEF Entries
<1>9. Single(chosen) \in Seq(Entries(OwnChunks))
  BY <1>7, <1>8
<1>10. QED
  BY <1>7, <1>9, CitedAreShown

LEMMA OverviewAnswers ==
  ASSUME CallInv, Overview
  PROVE  CallInv'
<1>1. call \in Calls /\ Reading /\ call.pc = "chunks" /\ call.tool = "overview"
  BY DEF CallInv, KnowledgeTypes, Overview, At
<1>2. PICK chosen \in Representatives(Described, OverviewLimit) :
        Answer([evidence |-> Single(chosen), total |-> Cardinality(call.documents),
                covered |-> Described])
  BY DEF Overview, Single
<1> DEFINE a == [evidence |-> Single(chosen), total |-> Cardinality(call.documents),
                 covered |-> Described]
<1>3. Described \in SUBSET call.documents /\ call.documents \in SUBSET Own
  BY <1>1 DEF Described, Calls
<1>4. /\ IsFiniteSet(call.documents) /\ Cardinality(call.documents) \in Nat
  <2>1. IsFiniteSet(call.documents)
    BY <1>3, Showable, FS_Subset
  <2>2. QED
    BY <2>1, FS_CardinalityType
<1>5. Single(chosen) \in Seq(Entries(OwnChunks)) /\ Cited(Single(chosen)) \subseteq MayShow
  BY <1>3, KnowledgeAssumption, RepresentativesMayBeShown
<1>6. a \in AnswerTypes
  BY <1>3, <1>4, <1>5 DEF AnswerTypes
<1>7. a.evidence = Single(chosen) /\ a.total = Cardinality(call.documents) /\ a.covered = Described
  OBVIOUS
<1>8. ASSUME Cardinality(a.covered) = a.total, Cardinality(Own) <= PageSize
      PROVE  began.ready \cap Ready \subseteq a.covered
  <2>1. Described = call.documents
    BY <1>3, <1>4, <1>7, <1>8, FS_Subset
  <2>2. began.ready \cap Ready \subseteq call.documents
    BY <1>1, <1>8 DEF CallInv, Gathered
  <2>3. QED
    BY <1>7, <2>1, <2>2
<1>9. Answer(a)
  BY <1>2
<1> HIDE DEF a
<1>10. Fitting(a)
  BY <1>1, <1>5, <1>7, <1>8 DEF Fitting
<1>11. QED
  BY <1>1, <1>6, <1>9, <1>10, Answers

LEMMA NavigationAnswers ==
  ASSUME CallInv, Navigation
  PROVE  CallInv'
<1> DEFINE matching == {d \in Described : \E c \in ChunksOf(d) \cap rows : wording[c] > 0}
<1>1. call \in Calls /\ Reading /\ call.pc = "chunks" /\ call.tool = "navigation"
  BY DEF CallInv, KnowledgeTypes, Navigation, At
<1>2. PICK chosen \in Representatives(matching, NavigationLimit) :
        Answer([evidence |-> Single(chosen), total |-> 0, covered |-> matching])
  BY DEF Navigation, Single
<1> DEFINE a == [evidence |-> Single(chosen), total |-> 0, covered |-> matching]
<1>3. matching \in SUBSET call.documents /\ call.documents \in SUBSET Own
  BY <1>1 DEF Described, Calls
<1> HIDE DEF matching
<1>4. Single(chosen) \in Seq(Entries(OwnChunks)) /\ Cited(Single(chosen)) \subseteq MayShow
  BY <1>3, KnowledgeAssumption, RepresentativesMayBeShown
<1>5. a \in AnswerTypes
  BY <1>3, <1>4 DEF AnswerTypes
<1>6. a.evidence = Single(chosen) /\ a.total = 0
  OBVIOUS
<1>7. Answer(a)
  BY <1>2
<1> HIDE DEF a
<1>8. Fitting(a)
  BY <1>1, <1>4, <1>6 DEF Fitting
<1>9. QED
  BY <1>1, <1>5, <1>7, <1>8, Answers

-----------------------------------------------------------------------------
(* The matches, one of each chunk *)

\* The map that SearchWithOptions iterates: a chunk once, among what is still to be looked up
\* or what has been.
EachOnce ==
  /\ \A g, h \in call.hits : g.chunk = h.chunk => g = h
  /\ OneOfEach(call.matches)
  /\ \A n \in DOMAIN call.matches : \A h \in call.hits : call.matches[n].chunk # h.chunk

\* The matches are looked up behind the search, and its answer is made of them.
RankedLast ==
  /\ call.pc \in {"idle", "subject", "embed", "vector"} => call.matches = <<>>
  /\ (Answered /\ call.tool = "search" =>
        call.answer.evidence = Evidence(call.keywords, call.matches))

MapInv == EachOnce /\ RankedLast

\* Neither the pipeline nor the other reads touch the map.
LEMMA MapUntouched ==
  ASSUME MapInv, call'.hits \in SUBSET call.hits, call'.matches = call.matches,
         call'.pc \in {"subject", "embed", "vector"} => call.matches = <<>>,
         call'.pc # "idle", ~Answered' \/ call'.tool # "search"
  PROVE  MapInv'
<1>1. EachOnce'
  BY DEF MapInv, EachOnce, OneOfEach
<1>2. RankedLast'
  BY DEF RankedLast
<1>3. QED
  BY <1>1, <1>2 DEF MapInv

\* Nothing is found as yet.
LEMMA MapStarts == Init => MapInv
  BY DEF Init, Idle, MapInv, EachOnce, RankedLast, OneOfEach, Answered

\* A chunk that more than one query finds stays one entry, of its best score.
LEMMA SearchKeepsMap ==
  ASSUME CallInv, MapInv, SearchVectors
  PROVE  MapInv'
<1>1. call \in Calls /\ call.pc = "vector"
  BY DEF CallInv, KnowledgeTypes, SearchVectors, At
<1>2. call.matches = <<>>
  BY <1>1 DEF MapInv, RankedLast
<1> DEFINE scores == similar[Head(call.queries)]
           New(found, c) == IF c \in found THEN scores[c] ELSE 0
           Best(found, c) == Greatest(ScoreIn(call.hits, c), New(found, c))
           More(found) == {[chunk |-> c, score |-> Best(found, c), source |-> "vector"] :
                             c \in Chunks(call.hits) \cup found}
<1>3. PICK found \in SUBSET vectors :
        call' = [call EXCEPT !.queries = Tail(call.queries), !.hits = More(found)]
  BY DEF SearchVectors
<1> HIDE DEF Best
<1>4. \A g, h \in More(found) : g.chunk = h.chunk => g = h
  OBVIOUS
<1> HIDE DEF More
<1>5. /\ call'.hits = More(found) /\ call'.matches = <<>> /\ call'.pc = "vector"
  BY <1>1, <1>2, <1>3 DEF Calls
<1>6. EachOnce'
  BY <1>4, <1>5 DEF EachOnce, OneOfEach
<1>7. RankedLast'
  BY <1>5 DEF RankedLast, Answered
<1>8. QED
  BY <1>6, <1>7 DEF MapInv

\* A match leaves what is to be looked up and joins, once, what has been.
LEMMA LookUpKeepsMap ==
  ASSUME CallInv, MapInv, LookUpMatch
  PROVE  MapInv'
<1>1. call \in Calls /\ call.pc = "documents" /\ call.matches \in Seq(Hits(MayShow))
  BY DEF CallInv, KnowledgeTypes, Gathered, LookUpMatch, At
<1>2. PICK hit \in call.hits :
        call' = [call EXCEPT !.hits = call.hits \ {hit},
                             !.matches = TakeIfThere(call.matches, hit)]
  BY DEF LookUpMatch
<1> DEFINE list == call.matches
           N == Len(list)
           more == Append(list, hit)
<1>3. /\ call'.hits = call.hits \ {hit} /\ call'.matches = TakeIfThere(list, hit)
      /\ call'.pc = "documents"
  BY <1>1, <1>2 DEF Calls
<1>4. RankedLast'
  BY <1>3 DEF RankedLast, Answered
<1>5. TakeIfThere(list, hit) \in {list, more}
  BY DEF TakeIfThere
<1>6. CASE TakeIfThere(list, hit) = list
  BY <1>3, <1>4, <1>6 DEF MapInv, EachOnce
<1>7. CASE TakeIfThere(list, hit) = more
  <2>1. N \in Nat /\ DOMAIN list = 1 .. N /\ hit \in Hits(OwnChunks)
    BY <1>1 DEF Calls
  <2>2. /\ DOMAIN more = 1 .. N + 1 /\ more[N + 1] = hit
        /\ \A k \in 1 .. N : more[k] = list[k]
    BY <1>1, <2>1
  <2>3. /\ \A g, h \in call.hits : g.chunk = h.chunk => g = h
        /\ \A j, k \in 1 .. N : list[j].chunk = list[k].chunk => j = k
        /\ \A n \in 1 .. N : \A h \in call.hits : list[n].chunk # h.chunk
    BY <2>1 DEF MapInv, EachOnce, OneOfEach
  <2> HIDE DEF list, N, more
  <2>4. \A k \in 1 .. N + 1 : k \in 1 .. N \/ k = N + 1
    BY <2>1
  <2>5. OneOfEach(more)
    BY <2>1, <2>2, <2>3, <2>4 DEF OneOfEach
  <2>6. \A n \in DOMAIN more : \A h \in call.hits \ {hit} : more[n].chunk # h.chunk
    BY <2>1, <2>2, <2>3, <2>4
  <2>7. EachOnce'
    BY <1>3, <1>7, <2>3, <2>5, <2>6 DEF EachOnce
  <2>8. QED
    BY <1>4, <2>7 DEF MapInv
<1>8. QED
  BY <1>5, <1>6, <1>7

\* The evidence is made of the matches as they were looked up.
LEMMA RankKeepsMap ==
  ASSUME CallInv, MapInv, Rank
  PROVE  MapInv'
<1> DEFINE a == [evidence |-> Evidence(call.keywords, call.matches), total |-> 0, covered |-> {}]
<1>1. call \in Calls /\ Answer(a)
  BY DEF CallInv, KnowledgeTypes, Rank
<1>2. a.evidence = Evidence(call.keywords, call.matches)
  OBVIOUS
<1> HIDE DEF a
<1>3. /\ call'.pc = "answered" /\ call'.answer = a /\ call'.hits = call.hits
      /\ call'.matches = call.matches /\ call'.keywords = call.keywords
  BY <1>1 DEF Answer, Calls
<1>4. EachOnce'
  BY <1>3 DEF MapInv, EachOnce
<1>5. RankedLast'
  BY <1>2, <1>3 DEF RankedLast
<1>6. QED
  BY <1>4, <1>5 DEF MapInv

\* Every step keeps it.
LEMMA NextKeepsMap == CallInv /\ MapInv /\ [Next]_vars => MapInv'
<1> SUFFICES ASSUME CallInv, MapInv, [Next]_vars
             PROVE  MapInv'
  OBVIOUS
<1>1. call \in Calls /\ (call.pc \in {"list", "chunks"} => call.tool # "search")
  BY DEF CallInv, KnowledgeTypes, Gathered
<1>2. CASE \E tool \in KnowledgeTools : Receive(tool)
  <2>1. PICK tool \in KnowledgeTools : Receive(tool)
    BY <1>2
  <2>2. /\ call.pc = "idle"
        /\ call' = [call EXCEPT !.tool = tool,
                                !.pc = IF tool = "navigation" THEN "list" ELSE "subject"]
    BY <2>1 DEF Receive, At
  <2>3. call.matches = <<>>
    BY <2>2 DEF MapInv, RankedLast
  <2>4. /\ call'.hits = call.hits /\ call'.matches = call.matches
        /\ call'.pc \in {"list", "subject"}
    BY <1>1, <2>2 DEF Calls
  <2>5. QED
    BY <2>3, <2>4, MapUntouched DEF Answered
<1>3. CASE FindSubject \/ EmbedQueries
  <2>1. call.pc \in {"subject", "embed"}
    BY <1>3 DEF FindSubject, EmbedQueries, At
  <2>2. call.matches = <<>>
    BY <2>1 DEF MapInv, RankedLast
  <2>3. /\ call'.hits = call.hits /\ call'.matches = call.matches
        /\ call'.pc \in {"embed", "list", "vector"}
    BY <1>1, <1>3 DEF FindSubject, EmbedQueries, Calls
  <2>4. QED
    BY <2>2, <2>3, MapUntouched DEF Answered
<1>4. CASE Fail
  <2>1. call' = [Idle EXCEPT !.tool = call.tool, !.pc = "failed"]
    BY <1>4 DEF Fail
  <2>2. call'.hits = {} /\ call'.matches = <<>> /\ call'.pc = "failed"
    BY <2>1 DEF Idle
  <2>3. EachOnce' /\ RankedLast'
    BY <2>2 DEF EachOnce, RankedLast, OneOfEach, Answered
  <2>4. QED
    BY <2>3 DEF MapInv
<1>5. CASE DropDistant \/ SearchKeywords \/ LookUpKeyword
  <2>1. /\ call'.hits \in SUBSET call.hits /\ call'.matches = call.matches
        /\ call'.pc \in {"documents", "names"}
    BY <1>1, <1>5 DEF DropDistant, SearchKeywords, LookUpKeyword, At, Calls
  <2>2. QED
    BY <2>1, MapUntouched DEF Answered
<1>6. CASE ListDocuments \/ Overview \/ Navigation
  <2>1. call.pc \in {"list", "chunks"}
    BY <1>6 DEF ListDocuments, Overview, Navigation, At
  <2>2. /\ call'.hits = call.hits /\ call'.matches = call.matches
        /\ call'.pc \in {"chunks", "answered"} /\ call'.tool = call.tool
    BY <1>1, <1>6 DEF ListDocuments, Overview, Navigation, Answer, Calls
  <2>3. QED
    BY <1>1, <2>1, <2>2, MapUntouched
<1>7. CASE UNCHANGED call
  BY <1>7 DEF MapInv, EachOnce, RankedLast, Answered
<1>8. CASE (\E d \in Own : Pipeline(d)) \/ UNCHANGED vars
  <2>1. UNCHANGED call
    BY <1>8 DEF Pipeline, vars
  <2>2. QED
    BY <1>7, <2>1
<1>9. QED
  BY <1>2, <1>3, <1>4, <1>5, <1>6, <1>8, SearchKeepsMap, LookUpKeepsMap, RankKeepsMap
  DEF Next, Step

-----------------------------------------------------------------------------
(* The theorems *)

LEMMA NextKeepsCallInv == CallInv /\ [Next]_vars => CallInv'
<1> SUFFICES ASSUME CallInv, [Next]_vars
             PROVE  CallInv'
  OBVIOUS
<1>1. CASE Step
  <2>1. CASE \E tool \in KnowledgeTools : Receive(tool)
    BY <2>1, ReceiveGathers
  <2>2. CASE FindSubject \/ Fail \/ EmbedQueries \/ DropDistant
    BY <2>2, OtherSteps
  <2>3. CASE SearchVectors
    BY <2>3, VectorsAreSearched
  <2>4. CASE LookUpMatch \/ LookUpKeyword
    BY <2>4, DocumentsAreLookedUp
  <2>5. CASE SearchKeywords
    BY <2>5, KeywordsAreSearched
  <2>6. CASE Rank
    BY <2>6, RankAnswers
  <2>7. CASE ListDocuments
    BY <2>7, DocumentsAreListed
  <2>8. CASE Overview
    BY <2>8, OverviewAnswers
  <2>9. CASE Navigation
    BY <2>9, NavigationAnswers
  <2>10. QED
    BY <1>1, <2>1, <2>2, <2>3, <2>4, <2>5, <2>6, <2>7, <2>8, <2>9 DEF Step
<1>2. CASE \E d \in Own : Pipeline(d)
  BY <1>2, PipelineAside
<1>3. CASE UNCHANGED vars
  <2>1. /\ phase' = phase /\ rows' = rows /\ vectors' = vectors /\ similar' = similar
        /\ wording' = wording /\ call' = call /\ began' = began
    BY <1>3 DEF vars, store
  <2>2. KnowledgeTypes' /\ Irreversible' /\ Gathered'
    BY <2>1 DEF CallInv, KnowledgeTypes, Irreversible, Gathered, Gone, Ready, MayShow
  <2>3. Shown'
    BY <2>1 DEF CallInv, Shown, NothingDeletedIsShown, CompleteMeansAll, EvidenceIsSound, Answered,
                Complete, Ready
  <2>4. QED
    BY <2>2, <2>3 DEF CallInv
<1>4. QED
  BY <1>1, <1>2, <1>3 DEF Next

\* The inductive invariant of a call of the knowledge tools.
THEOREM CallInvariance == Spec => []CallInv
<1>1. QED
  BY CallStarts, NextKeepsCallInv, PTL DEF Spec

\* Of what the search, the overview and the navigation cite, nothing is of another
\* knowledge base or of a document that was deleted before the call, though its vectors
\* may still be there (GetByID's filter, the listings' joins).
THEOREM NoDeletedEvidence == Spec => []NothingDeletedIsShown
<1>1. CallInv => NothingDeletedIsShown
  BY DEF CallInv, Shown
<1>2. QED
  BY <1>1, CallInvariance, PTL

\* knowledgeOverview's coverage is never claimed of a part of the documents that were
\* indexed all the time, for any number of documents that fit on a page.
THEOREM CoverageIsHonest == Spec => []CompleteMeansAll
<1>1. CallInv => CompleteMeansAll
  BY DEF CallInv, Shown
<1>2. QED
  BY <1>1, CallInvariance, PTL

\* What SearchWithOptions returns keeps to the limits of citations and shows text as it
\* stands in the document, for every policy, score and numbering of chunks.
THEOREM SearchKeepsPolicy == Spec => []EvidenceIsSound
<1>1. CallInv => EvidenceIsSound
  BY DEF CallInv, Shown
<1>2. QED
  BY <1>1, CallInvariance, PTL

\* What a search finds does not depend on the order in which Go iterates over its map of
\* matches, for any number of matches, where no two of the hits are equally good.
THEOREM OrderDoesNotMatter == Spec => []OrderIsIrrelevant
<1>1. Spec => [](CallInv /\ MapInv)
  BY CallStarts, NextKeepsCallInv, MapStarts, NextKeepsMap, PTL DEF Spec
<1>2. CallInv /\ MapInv => OrderIsIrrelevant
  <2> DEFINE merged == MergeChunks(Normalized(call.keywords), Normalized(call.matches))
  <2> SUFFICES ASSUME CallInv, MapInv, Answered, call.tool = "search", AllDiffer(merged),
                      AllDiffer(RerankChunks(merged)), NEW k \in 1 .. Len(call.matches) - 1
               PROVE  Evidence(call.keywords, Exchange(call.matches, k)) = call.answer.evidence
    BY DEF OrderIsIrrelevant, Exchange
  <2>1. /\ call.matches \in Seq(Hits(MayShow)) /\ call.keywords \in Seq(Hits(MayShow))
        /\ MayShow \in SUBSET Chunk
    BY Showable DEF CallInv, Gathered
  <2>2. OneOfEach(call.matches)
    BY DEF MapInv, EachOnce
  <2>3. /\ Exchange(call.matches, k) \in Seq(Hits(MayShow))
        /\ Alike(call.matches, Exchange(call.matches, k))
    BY <2>1, ExchangedAlike
  <2>4. Evidence(call.keywords, call.matches) = Evidence(call.keywords, Exchange(call.matches, k))
    BY <2>1, <2>2, <2>3, EvidenceAlike
  <2>5. QED
    BY <2>4 DEF MapInv, RankedLast
<1>3. QED
  BY <1>1, <1>2, PTL
=============================================================================
