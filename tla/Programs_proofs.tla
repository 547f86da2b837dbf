---------------------------- MODULE Programs_proofs ----------------------------
(***************************************************************************)
(* Proofs about the programs that use FFmpeg, for any number of tracks and *)
(* failures.                                                               *)
(***************************************************************************)
EXTENDS Programs, SequenceTheorems, WellFoundedInduction, TLAPS

-----------------------------------------------------------------------------
(* What the texts of the programs are made of                              *)

\* Induction, for sets of naturals.
LEMMA NaturalsAreReached ==
    ASSUME NEW S, 0 \in S, \A n \in Nat : n \in S => n + 1 \in S
    PROVE  Nat \subseteq S
  <1>. DEFINE T == Nat \ S
  <1>. SUFFICES ASSUME T # {} PROVE FALSE
    OBVIOUS
  <1>1. IsWellFoundedOn(OpToRel(<, Nat), Nat)
    BY NatLessThanWellFounded
  <1>2. PICK x \in T : \A y \in T : ~ (<<y, x>> \in OpToRel(<, Nat))
    <2>. HIDE DEF T
    <2>1. T \subseteq Nat
      BY DEF T
    <2>. QED  BY <1>1, <2>1, WFMin
  <1>3. x \in Nat /\ x # 0 /\ x - 1 \in Nat /\ x - 1 < x /\ x = (x - 1) + 1
    OBVIOUS
  <1>4. <<x - 1, x>> \in OpToRel(<, Nat)
    BY <1>3 DEF OpToRel
  <1>5. x - 1 \in S
    BY <1>2, <1>3, <1>4
  <1>. QED  BY <1>3, <1>5

\* FlattenSeq joins its sequences one after the other: F[i] is the first i of
\* them, joined.
LEMMA FlattenByOne ==
    ASSUME NEW S, NEW n \in Nat, NEW g \in [1..n -> Seq(S)]
    PROVE  \E F \in [0..n -> Seq(S)] :
             /\ F[0] = << >>
             /\ \A i \in 1..n : F[i] = F[i - 1] \o g[i]
             /\ FlattenSeq(g) = F[n]
  <1>. DEFINE Joins(m, F) == F[0] = << >> /\ \A i \in 1..m : F[i] = F[i - 1] \o g[i]
              Has(m) == \E F \in [0..m -> Seq(S)] : Joins(m, F)
              Reached == {m \in Nat : m <= n => Has(m)}
  <1>1. 0 \in Reached
    <2>. DEFINE E == [i \in 0..0 |-> << >>]
    <2>1. E \in [0..0 -> Seq(S)] /\ E[0] = << >>
      BY EmptySeq
    <2>2. Joins(0, E)
      BY <2>1
    <2>. HIDE DEF E, Joins
    <2>. QED  BY <2>1, <2>2
  <1>2. ASSUME NEW m \in Nat, m \in Reached PROVE m + 1 \in Reached
    <2>. SUFFICES ASSUME m + 1 <= n PROVE Has(m + 1)
      <3>. HIDE DEF Has
      <3>. QED  OBVIOUS
    <2>0. Has(m)
      <3>. HIDE DEF Has
      <3>. QED  BY <1>2
    <2>1. PICK F \in [0..m -> Seq(S)] : Joins(m, F)
      <3>. HIDE DEF Joins
      <3>. QED  BY <2>0
    <2>. DEFINE G == [i \in 0..(m + 1) |-> IF i = m + 1 THEN F[m] \o g[m + 1] ELSE F[i]]
    <2>2. F[m] \o g[m + 1] \in Seq(S)
      BY ConcatProperties
    <2>3. G \in [0..(m + 1) -> Seq(S)]
      BY <2>2
    <2>4. Joins(m + 1, G)
      <3>1. G[0] = << >>
        BY <2>1
      <3>2. ASSUME NEW i \in 1..(m + 1) PROVE G[i] = G[i - 1] \o g[i]
        <4>1. CASE i = m + 1
          <5>1. i - 1 = m /\ m \in 0..(m + 1) /\ m # m + 1 /\ i \in 0..(m + 1)
            BY <4>1
          <5>2. G[m] = F[m] /\ G[i] = F[m] \o g[m + 1]
            BY <4>1, <5>1
          <5>. QED  BY <4>1, <5>1, <5>2
        <4>2. CASE i # m + 1
          <5>1. i \in 1..m /\ i \in 0..(m + 1) /\ i - 1 \in 0..(m + 1) /\ i - 1 # m + 1
            BY <4>2
          <5>. QED  BY <2>1, <4>2, <5>1
        <4>. QED  BY <4>1, <4>2
      <3>. QED  BY <3>1, <3>2
    <2>. HIDE DEF Joins, G
    <2>. QED  BY <2>3, <2>4
  <1>3. n \in Reached
    <2>. HIDE DEF Reached
    <2>. QED  BY <1>1, <1>2, NaturalsAreReached
  <1>4. PICK F \in [0..n -> Seq(S)] : Joins(n, F)
    <2>. HIDE DEF Joins
    <2>. QED  BY <1>3
  <1>5. Len(g) = n
    OBVIOUS
  <1>6. CASE n = 0
    <2>1. FlattenSeq(g) = << >>
      BY <1>5, <1>6 DEF FlattenSeq
    <2>. QED  BY <1>4, <1>6, <2>1
  <1>7. CASE n # 0
    <2>. DEFINE Def(f) == [i \in 1..n |-> IF i = 1 THEN g[i] ELSE f[i - 1] \o g[i]]
                c == CHOOSE f : f = Def(f)
                f0 == [i \in 1..n |-> F[i]]
    <2>1. FlattenSeq(g) = c[n]
      BY <1>5, <1>7 DEF FlattenSeq
    <2>2. f0 = Def(f0)
      <3>1. ASSUME NEW i \in 1..n PROVE f0[i] = IF i = 1 THEN g[i] ELSE f0[i - 1] \o g[i]
        <4>1. CASE i = 1
          <5>1. F[1] = F[0] \o g[1]
            <6>1. 1 \in 1..n /\ 1 - 1 = 0
              BY <4>1
            <6>2. F[1] = F[1 - 1] \o g[1]
              BY <1>4, <6>1
            <6>. QED  BY <6>1, <6>2
          <5>. QED  BY <1>4, <4>1, <5>1, ConcatEmptySeq
        <4>2. CASE i # 1
          <5>1. i - 1 \in 1..n
            BY <4>2
          <5>. QED  BY <1>4, <4>2, <5>1
        <4>. QED  BY <4>1, <4>2
      <3>. QED  BY <3>1
    <2>3. c = Def(c)
      <3>. HIDE DEF f0, Def
      <3>. QED  BY <2>2
    <2>4. \A i \in 1..n : c[i] = IF i = 1 THEN g[i] ELSE c[i - 1] \o g[i]
      <3>. HIDE DEF c
      <3>. QED  BY <2>3
    <2>. DEFINE Same == {m \in Nat : m \in 1..n => c[m] = F[m]}
    <2>5. 0 \in Same
      OBVIOUS
    <2>6. ASSUME NEW m \in Nat, m \in Same PROVE m + 1 \in Same
      <3>. SUFFICES ASSUME m + 1 \in 1..n PROVE c[m + 1] = F[m + 1]
        OBVIOUS
      <3>. HIDE DEF c
      <3>1. CASE m = 0
        <4>1. F[1] = F[0] \o g[1] /\ c[1] = g[1]
          <5>1. 1 \in 1..n /\ 1 - 1 = 0
            BY <3>1
          <5>2. F[1] = F[1 - 1] \o g[1] /\ c[1] = g[1]
            BY <1>4, <2>4, <5>1
          <5>. QED  BY <5>1, <5>2
        <4>. QED  BY <1>4, <3>1, <4>1, ConcatEmptySeq
      <3>2. CASE m # 0
        <4>1. m \in 1..n /\ (m + 1) - 1 = m
          BY <3>2
        <4>2. c[m + 1] = c[m] \o g[m + 1]
          <5>1. m + 1 \in 1..n /\ m + 1 # 1
            BY <3>2
          <5>2. c[m + 1] = c[(m + 1) - 1] \o g[m + 1]
            BY <2>4, <5>1
          <5>. QED  BY <4>1, <5>2
        <4>3. F[m + 1] = F[m] \o g[m + 1]
          BY <1>4, <4>1
        <4>. QED  BY <2>6, <4>1, <4>2, <4>3
      <3>. QED  BY <3>1, <3>2
    <2>7. n \in Same
      <3>. HIDE DEF Same
      <3>. QED  BY <2>5, <2>6, NaturalsAreReached
    <2>8. c[n] = F[n]
      BY <1>7, <2>7
    <2>. HIDE DEF c
    <2>. QED  BY <1>4, <2>1, <2>8
  <1>. QED  BY <1>6, <1>7

LEMMA FlattenType ==
    ASSUME NEW S
    PROVE  \A n \in Nat : \A g \in [1..n -> Seq(S)] : FlattenSeq(g) \in Seq(S)
  <1>. SUFFICES ASSUME NEW n \in Nat, NEW g \in [1..n -> Seq(S)] PROVE FlattenSeq(g) \in Seq(S)
    OBVIOUS
  <1>1. PICK F \in [0..n -> Seq(S)] :
               /\ F[0] = << >>
               /\ \A i \in 1..n : F[i] = F[i - 1] \o g[i]
               /\ FlattenSeq(g) = F[n]
    BY FlattenByOne
  <1>. QED  BY <1>1

\* Sequences of one element each.
LEMMA FlattenOfOnes ==
    ASSUME NEW S
    PROVE  \A n \in Nat : \A g \in [1..n -> Seq(S)] : (\A k \in 1..n : Len(g[k]) = 1) =>
             /\ FlattenSeq(g) \in Seq(S) /\ Len(FlattenSeq(g)) = n
             /\ \A k \in 1..n : FlattenSeq(g)[k] = g[k][1]
  <1>. SUFFICES ASSUME NEW n \in Nat, NEW g \in [1..n -> Seq(S)],
                       \A k \in 1..n : Len(g[k]) = 1
                PROVE  /\ FlattenSeq(g) \in Seq(S) /\ Len(FlattenSeq(g)) = n
                       /\ \A k \in 1..n : FlattenSeq(g)[k] = g[k][1]
    OBVIOUS
  <1>1. PICK F \in [0..n -> Seq(S)] :
               /\ F[0] = << >>
               /\ \A i \in 1..n : F[i] = F[i - 1] \o g[i]
               /\ FlattenSeq(g) = F[n]
    BY FlattenByOne
  <1>. DEFINE Right(i) == Len(F[i]) = i /\ \A k \in 1..i : F[i][k] = g[k][1]
              Reached == {i \in Nat : i <= n => Right(i)}
  <1>2. 0 \in Reached
    BY <1>1
  <1>3. ASSUME NEW i \in Nat, i \in Reached PROVE i + 1 \in Reached
    <2>. SUFFICES ASSUME i + 1 <= n PROVE Right(i + 1)
      <3>. HIDE DEF Right
      <3>. QED  OBVIOUS
    <2>1. i \in 0..n /\ i + 1 \in 1..n /\ (i + 1) - 1 = i
      OBVIOUS
    <2>2. Len(F[i]) = i /\ \A k \in 1..i : F[i][k] = g[k][1]
      BY <1>3, <2>1
    <2>3. F[i + 1] = F[i] \o g[i + 1]
      BY <1>1, <2>1
    <2>4. F[i] \in Seq(S) /\ g[i + 1] \in Seq(S) /\ Len(g[i + 1]) = 1
      BY <2>1
    <2>. DEFINE s == F[i]
                t == g[i + 1]
    <2>5. /\ Len(s \o t) = i + 1
          /\ \A k \in 1..(i + 1) : (s \o t)[k] = IF k <= i THEN s[k] ELSE t[k - i]
      <3>1. s \in Seq(S) /\ t \in Seq(S) /\ Len(s) = i /\ Len(t) = 1
        BY <2>2, <2>4
      <3>. HIDE DEF s, t
      <3>2. /\ Len(s \o t) = Len(s) + Len(t)
            /\ \A k \in 1..(Len(s) + Len(t)) :
                 (s \o t)[k] = IF k <= Len(s) THEN s[k] ELSE t[k - Len(s)]
        BY <3>1, ConcatProperties
      <3>. QED  BY <3>1, <3>2
    <2>6. ASSUME NEW k \in 1..(i + 1) PROVE F[i + 1][k] = g[k][1]
      <3>0. F[i + 1][k] = IF k <= i THEN F[i][k] ELSE g[i + 1][k - i]
        BY <2>3, <2>5
      <3>1. CASE k <= i
        <4>1. k \in 1..i
          BY <3>1
        <4>. QED  BY <2>2, <3>0, <3>1, <4>1
      <3>2. CASE k = i + 1
        <4>1. k - i = 1 /\ ~(k <= i)
          BY <3>2
        <4>. QED  BY <3>0, <3>2, <4>1
      <3>. QED  BY <3>1, <3>2
    <2>. QED  BY <2>3, <2>5, <2>6
  <1>4. n \in Reached
    <2>. HIDE DEF Reached
    <2>. QED  BY <1>2, <1>3, NaturalsAreReached
  <1>. QED  BY <1>1, <1>4

LEMMA FunctionIsSeq ==
    ASSUME NEW S, NEW n \in Nat, NEW f \in [1..n -> S]
    PROVE  f \in Seq(S) /\ Len(f) = n
  OBVIOUS

LEMMA Joined == ASSUME NEW S PROVE \A s, t \in Seq(S) : s \o t \in Seq(S)
  BY ConcatProperties

Steps ==
    [uses : SUBSET Contexts, gives : SUBSET Contexts, frees : SUBSET Contexts,
     undo : SUBSET Contexts, failure : {"never", "returned", "unnoticed", "break"},
     only : SUBSET Contexts, needs : SUBSET Contexts, skipped : BOOLEAN,
     push : 0..Tracks, pull : 0..Tracks]

\* The steps that give nothing outside G and fill no sink, and those among them
\* that do not end a loop.
Quiet(G) == {s \in Steps : s.push = 0 /\ s.gives \subseteq G}
Firm(G) == {s \in Quiet(G) : s.failure # "break"}

LEMMA StepTypes ==
    ASSUME NEW G \in SUBSET Contexts
    PROVE
    /\ \A u \in SUBSET Contexts : \A g \in SUBSET G : Sure(u, g) \in Firm(G)
    /\ \A u, d \in SUBSET Contexts : \A g \in SUBSET G : Try(u, g, d) \in Firm(G)
    /\ \A u \in SUBSET Contexts : \A g \in SUBSET G : Unchecked(u, g) \in Firm(G)
    /\ \A u \in SUBSET Contexts : \A g \in SUBSET G : TryOrBreak(u, g) \in Quiet(G)
    /\ \A cs \in SUBSET Contexts : Release(cs) \in Firm(G) /\ Require(cs) \in Firm(G)
    /\ \A f \in SUBSET Contexts : \A t \in SUBSET G : Move(f, t) \in Firm(G)
    /\ \A s \in Firm(G) : Maybe(s) \in Firm(G) /\ \A c \in Contexts : If(c, s) \in Firm(G)
    /\ \A s \in Quiet(G) : Maybe(s) \in Quiet(G) /\ \A c \in Contexts : If(c, s) \in Quiet(G)
  <1>. DEFINE S == SUBSET Contexts
              T == SUBSET G
  <1>0. 0 \in 0..Tracks /\ {} \in S /\ {} \in T /\ T \subseteq S /\ S # {} /\ T # {}
    BY TracksAssumption
  <1>0a. \A g \in T : g \subseteq G
    OBVIOUS
  <1>. HIDE DEF S, T
  <1>1. ASSUME NEW u \in S, NEW g \in T PROVE Sure(u, g) \in Firm(G)
    BY <1>0, <1>0a DEF Sure, Firm, Quiet, Steps, S
  <1>2. ASSUME NEW u \in S, NEW g \in T, NEW d \in S PROVE Try(u, g, d) \in Firm(G)
    BY <1>0, <1>0a DEF Try, Sure, Firm, Quiet, Steps, S
  <1>3. ASSUME NEW u \in S, NEW g \in T PROVE Unchecked(u, g) \in Firm(G)
    BY <1>0, <1>0a DEF Unchecked, Sure, Firm, Quiet, Steps, S
  <1>4. ASSUME NEW u \in S, NEW g \in T PROVE TryOrBreak(u, g) \in Quiet(G)
    BY <1>0, <1>0a DEF TryOrBreak, Sure, Quiet, Steps, S
  <1>5. ASSUME NEW u \in S PROVE Release(u) \in Firm(G) /\ Require(u) \in Firm(G)
    BY <1>0, <1>0a DEF Release, Require, Sure, Firm, Quiet, Steps, S
  <1>6. ASSUME NEW u \in S, NEW g \in T PROVE Move(u, g) \in Firm(G)
    BY <1>0, <1>0a DEF Move, Sure, Firm, Quiet, Steps, S
  <1>7. ASSUME NEW s \in Quiet(G), NEW c \in Contexts
        PROVE  /\ Maybe(s) \in Quiet(G) /\ If(c, s) \in Quiet(G)
               /\ s \in Firm(G) => Maybe(s) \in Firm(G) /\ If(c, s) \in Firm(G)
    BY DEF Maybe, If, Firm, Quiet, Steps
  <1>8. Contexts # {}
    <2>1. <<"data", 0, 0>> \in Contexts
      BY DEF Contexts
    <2>. QED  BY <2>1
  <1>9. Firm(G) \subseteq Quiet(G)
    BY DEF Firm
  <1>10. \A s \in Firm(G) : Maybe(s) \in Firm(G) /\ \A c \in Contexts : If(c, s) \in Firm(G)
    BY <1>7, <1>8, <1>9
  <1>11. \A s \in Quiet(G) : Maybe(s) \in Quiet(G) /\ \A c \in Contexts : If(c, s) \in Quiet(G)
    BY <1>7, <1>8
  <1>. QED  BY <1>1, <1>2, <1>3, <1>4, <1>5, <1>6, <1>10, <1>11 DEF S, T

LEMMA PullSinkType == \A G \in SUBSET Contexts : \A k \in Track : PullSink(k) \in Firm(G)
  <1>. SUFFICES ASSUME NEW G \in SUBSET Contexts, NEW k \in Track PROVE PullSink(k) \in Firm(G)
    OBVIOUS
  <1>1. Maybe(Try({Frame}, {}, {})) \in Firm(G)
    BY StepTypes DEF Contexts, Frame, Data
  <1>2. k \in 0..Tracks
    BY TracksAssumption DEF Track
  <1>. QED  BY <1>1, <1>2 DEF PullSink, Firm, Quiet, Steps

LEMMA PushSinkType ==
    ASSUME NEW k \in Track
    PROVE  /\ PushSink(k) \in Steps /\ PushSink(k).push = k /\ PushSink(k).pull = 0
           /\ PushSink(k).failure = "never" /\ PushSink(k).only = {}
           /\ PushSink(k).needs = {} /\ PushSink(k).skipped = FALSE
           /\ PushSink(k).gives = {Sink(k)}
  <1>1. k \in 0..Tracks /\ {Graph(k)} \in SUBSET Contexts /\ {Sink(k)} \in SUBSET Contexts
    BY TracksAssumption DEF Track, Contexts, Graph, Sink
  <1>2. Sure({Graph(k)}, {Sink(k)}) \in Firm(Contexts)
    BY <1>1, StepTypes
  <1>3. PushSink(k) \in Steps
    BY <1>1, <1>2 DEF PushSink, Firm, Quiet, Steps
  <1>. QED  BY <1>3 DEF PushSink, Sure

LEMMA ContextTypes ==
    /\ \A i \in Track : /\ In(i) \in Contexts /\ Dec(i) \in Contexts /\ Out(i) \in Contexts
                        /\ Io(i) \in Contexts /\ Enc(i) \in Contexts /\ Muxer(i) \in Contexts
                        /\ Graph(i) \in Contexts /\ Sink(i) \in Contexts
    /\ \A k, i \in Track : Src(k, i) \in Contexts
    /\ \A n \in 0..3 : Data(n) \in Contexts
    /\ Frame \in Contexts
  BY DEF Contexts, In, Dec, Out, Io, Enc, Muxer, Graph, Sink, Src, Data, Frame

LEMMA TrackType == Tracks \in Nat /\ Track = 1..Tracks /\ 1 \in Track /\ 2 \in Track
  BY TracksAssumption DEF Track

\* Sequences, joined.
LEMMA JoinedSeqs ==
    ASSUME NEW S
    PROVE  /\ \A s, t \in Seq(S) : s \o t \in Seq(S)
           /\ << >> \in Seq(S)
           /\ \A n \in Nat : \A g \in [1..n -> Seq(S)] : FlattenSeq(g) \in Seq(S)
  BY Joined, FlattenType, EmptySeq

LEMMA InputTypes ==
    ASSUME NEW i \in Track, NEW G \in SUBSET Contexts,
           In(i) \in G, Dec(i) \in G
    PROVE  /\ Data(1) \in G /\ Data(2) \in G => sdp_open(i) \in Seq(Firm(G))
           /\ FindDecoder(i) \in Seq(Firm(G))
           /\ OpenFile(i) \in Seq(Firm(G))
  <1>. USE StepTypes, ContextTypes
  <1>1. ASSUME Data(1) \in G, Data(2) \in G PROVE sdp_open(i) \in Seq(Firm(G))
    BY <1>1 DEF sdp_open
  <1>2. [n \in 1..4 |-> Try({In(i)}, {}, {In(i)})] \in Seq(Firm(G))
    BY FunctionIsSeq
  <1>3. FindDecoder(i) \in Seq(Firm(G))
    BY <1>2, JoinedSeqs DEF FindDecoder
  <1>4. OpenFile(i) \in Seq(Firm(G))
    BY DEF OpenFile
  <1>. QED  BY <1>1, <1>3, <1>4

LEMMA GraphTypes ==
    ASSUME NEW k \in Track, NEW inputs \in SUBSET Track
    PROVE  MakeGraph(k, inputs) \in Seq(Firm(Contexts))
  <1>. USE StepTypes, ContextTypes
  <1>. DEFINE Source(i) == IF i \in inputs THEN CreateSource(k, i) ELSE << >>
              Link(i) == IF i \in inputs
                         THEN << Try({Graph(k), Src(k, i)}, {}, {}) >> ELSE << >>
              F == Firm(Contexts)
  <1>1. \A i \in Track : CreateSource(k, i) \in Seq(F)
    BY DEF CreateSource
  <1>2. \A i \in Track : << Try({Graph(k), Src(k, i)}, {}, {}) >> \in Seq(F)
    OBVIOUS
  <1>3. \A i \in Track : Source(i) \in Seq(F) /\ Link(i) \in Seq(F)
    BY <1>1, <1>2, JoinedSeqs
  <1>4. CreateMixAndSink(k) \in Seq(F)
    BY DEF CreateMixAndSink
  <1>5. << Try({}, {Graph(k)}, {}) >> \in Seq(F)
    OBVIOUS
  <1>6. << Try({Graph(k)}, {}, {}), Try({Graph(k)}, {}, {}) >> \in Seq(F)
    OBVIOUS
  <1>. HIDE DEF Source, Link
  <1>7. /\ FlattenSeq([i \in 1..Tracks |-> Source(i)]) \in Seq(F)
        /\ FlattenSeq([i \in 1..Tracks |-> Link(i)]) \in Seq(F)
    BY <1>3, JoinedSeqs, TrackType
  <1>. QED  BY <1>4, <1>5, <1>6, <1>7, JoinedSeqs DEF MakeGraph, ForEach, Source, Link

LEMMA OutputTypes ==
    ASSUME NEW i \in Track, NEW G \in SUBSET Contexts,
           Out(i) \in G, Io(i) \in G, Enc(i) \in G, Muxer(i) \in G
    PROVE  /\ \A uses \in SUBSET Contexts : OpenOutput(i, uses) \in Seq(Firm(G))
           /\ write_output_file_header(i) \in Seq(Firm(G))
           /\ WriteTrailer(i) \in Seq(Firm(G))
  <1>. USE StepTypes, ContextTypes
  <1>1. ASSUME NEW uses \in SUBSET Contexts PROVE OpenOutput(i, uses) \in Seq(Firm(G))
    BY DEF OpenOutput
  <1>2. write_output_file_header(i) \in Seq(Firm(G))
    BY DEF write_output_file_header
  <1>3. WriteTrailer(i) \in Seq(Firm(G))
    BY DEF WriteTrailer
  <1>. QED  BY <1>1, <1>2, <1>3

LEMMA RoundTypes ==
    ASSUME NEW i \in Track, NEW G \in SUBSET Contexts, Frame \in G
    PROVE  /\ init_input_frame \in Seq(Firm(G))
           /\ decode_audio_frame(i) \in Seq(Firm(G))
           /\ [n \in 1..2 |-> Maybe(decode_audio_frame(i)[n])] \in Seq(Firm(G))
           /\ DecodeToEnd(i) \in Seq(Firm(G))
           /\ encode_audio_frame(i) \in Seq(Firm(G))
           /\ CheckedFrame \in Seq(Firm(G))
           /\ << Unchecked({}, {Frame}), PullSink(i) >> \in Seq(Firm(G))
           /\ << Release({Frame}) >> \in Seq(Firm(G))
           /\ \A j \in Track : << Maybe(Try({Src(j, i), Frame}, {}, {})) >> \in Seq(Firm(G))
           /\ \A j \in Track : << Maybe(Try({Src(j, i), Frame}, {}, {})),
                                  Release({Frame}) >> \in Seq(Firm(G))
  <1>. USE StepTypes, ContextTypes
  <1>1. init_input_frame \in Seq(Firm(G)) /\ CheckedFrame \in Seq(Firm(G))
    BY DEF init_input_frame, CheckedFrame
  <1>2. decode_audio_frame(i) \in Seq(Firm(G))
    BY DEF decode_audio_frame
  <1>3. [n \in 1..2 |-> Maybe(decode_audio_frame(i)[n])] \in Seq(Firm(G))
    <2>1. \A n \in 1..2 : decode_audio_frame(i)[n] \in Firm(G)
      BY DEF decode_audio_frame
    <2>. QED  BY <2>1, FunctionIsSeq
  <1>4. DecodeToEnd(i) \in Seq(Firm(G))
    BY DEF DecodeToEnd
  <1>5. encode_audio_frame(i) \in Seq(Firm(G))
    BY DEF encode_audio_frame
  <1>6. << Unchecked({}, {Frame}), PullSink(i) >> \in Seq(Firm(G))
    <2>1. Unchecked({}, {Frame}) \in Firm(G)
      OBVIOUS
    <2>. QED  BY <2>1, PullSinkType
  <1>7. << Release({Frame}) >> \in Seq(Firm(G))
    OBVIOUS
  <1>8. \A j \in Track : Maybe(Try({Src(j, i), Frame}, {}, {})) \in Firm(G)
    OBVIOUS
  <1>9. Release({Frame}) \in Firm(G)
    OBVIOUS
  <1>10. \A j \in Track : /\ << Maybe(Try({Src(j, i), Frame}, {}, {})) >> \in Seq(Firm(G))
                           /\ << Maybe(Try({Src(j, i), Frame}, {}, {})),
                                 Release({Frame}) >> \in Seq(Firm(G))
    <2>. TAKE j \in Track
    <2>. QED  BY ONLY <1>8, <1>9
  <1>. QED  BY ONLY <1>1, <1>2, <1>3, <1>4, <1>5, <1>6, <1>7, <1>10

Names ==
    {"open_input_file", "av_dump_format", "init_filter_graph", "open_output_file",
     "write_output_file_header", "process_all", "write_output_file_trailer",
     "init_resampler", "init_fifo", "transcode", "filter_ctx", "init_filter", "open",
     "Create_outRTP_Context", "output", "send", "read", "flush", "encode", "frame",
     "open_codec_context", "video_dst", "audio_dst", "get_format", "end"}

Calls(S) == [name : Names, body : Seq(S), onerror : {"exit", "ignore", "cleanup"},
             again : BOOLEAN]

\* A program in which the calls a + 1 to a + n make the graphs of sinkVec: call
\* a + k makes the one of client k and ends with it in sinkVec.  No other call
\* fills sinkVec.
GraphCall(k) ==
    {c \in Calls(Steps) :
       /\ c.name = "init_filter_graph" /\ ~c.again
       /\ c.body # << >>
       /\ \A m \in 1..Len(c.body) : m < Len(c.body) => c.body[m] \in Firm(Contexts)
       /\ c.body[Len(c.body)] = PushSink(k)}
PlainCall == {c \in Calls(Quiet(Contexts)) : c.name # "init_filter_graph"}

InTurn(code, a, n) ==
    /\ a \in Nat /\ n \in 0..Tracks /\ code \in Seq(Calls(Steps)) /\ a + n <= Len(code)
    /\ \A i \in 1..Len(code) :
         /\ i \in (a + 1)..(a + n) => code[i] \in GraphCall(i - a)
         /\ i \notin (a + 1)..(a + n) => code[i] \in PlainCall
         /\ n > 0 => code[i].onerror # "cleanup"

LEMMA CallTypes ==
    ASSUME NEW S
    PROVE  \A nm \in Names, b \in Seq(S), e \in {"exit", "ignore", "cleanup"} :
             /\ Call(nm, b, e) \in Calls(S) /\ Loop(nm, b, e) \in Calls(S)
             /\ Call(nm, b, e).name = nm /\ Loop(nm, b, e).name = nm
             /\ Call(nm, b, e).onerror = e /\ Loop(nm, b, e).onerror = e
             /\ ~Call(nm, b, e).again /\ Call(nm, b, e).body = b
             /\ Loop(nm, b, e).body = b
  BY ZenonT(40) DEF Call, Loop, Calls

\* The calls of the mixers: an error ends the process, or is printed.
MixerCall == {c \in PlainCall : c.onerror # "cleanup"}

LEMMA MixerCallType ==
    ASSUME NEW b \in Seq(Firm(Contexts)), NEW e \in {"exit", "ignore"}, NEW nm \in Names,
           nm # "init_filter_graph"
    PROVE  Call(nm, b, e) \in MixerCall /\ Loop(nm, b, e) \in MixerCall
  <1>1. b \in Seq(Quiet(Contexts))
    BY DEF Firm
  <1>. QED  BY <1>1, CallTypes DEF MixerCall, PlainCall

LEMMA GraphCallType ==
    ASSUME NEW k \in Track, NEW b \in Seq(Firm(Contexts))
    PROVE  Call("init_filter_graph", b \o << PushSink(k) >>, "ignore") \in GraphCall(k)
  <1>. DEFINE s == b \o << PushSink(k) >>
              c == Call("init_filter_graph", s, "ignore")
  <1>0. b \in Seq(Steps) /\ PushSink(k) \in Steps
    <2>1. Firm(Contexts) \subseteq Steps
      BY DEF Firm, Quiet
    <2>2. b \in Seq(Steps)
      BY <2>1
    <2>. QED  BY <2>2, PushSinkType
  <1>1. s \in Seq(Steps) /\ Len(s) = Len(b) + 1 /\ s[Len(s)] = PushSink(k)
        /\ \A m \in 1..Len(b) : s[m] = b[m]
    BY <1>0
  <1>2. \A m \in 1..Len(s) : m < Len(s) => s[m] \in Firm(Contexts)
    <2>. TAKE m \in 1..Len(s)
    <2>. HAVE m < Len(s)
    <2>1. m \in 1..Len(b)
      BY <1>1
    <2>. QED  BY <1>1, <2>1
  <1>. HIDE DEF s
  <1>3. s # << >>
    BY <1>1
  <1>4. c \in Calls(Steps) /\ c.name = "init_filter_graph" /\ ~c.again /\ c.body = s
    <2>1. s \in Seq(Steps)
      BY <1>1
    <2>. QED  BY <2>1 DEF c, Call, Calls, Names
  <1>. QED  BY <1>1, <1>2, <1>3, <1>4 DEF GraphCall, s

\* Graphs between other calls are in turn.
LEMMA InTurnForm ==
    ASSUME NEW pre \in Seq(MixerCall), NEW post \in Seq(MixerCall),
           NEW g \in Seq(Calls(Steps)), Len(g) <= Tracks,
           \A k \in 1..Len(g) : g[k] \in GraphCall(k) /\ g[k].onerror # "cleanup"
    PROVE  InTurn(pre \o g \o post, Len(pre), Len(g))
  <1>. DEFINE code == pre \o g \o post
              a == Len(pre)
              n == Len(g)
  <1>0. MixerCall \subseteq Calls(Steps)
    BY DEF MixerCall, PlainCall, Calls, Quiet
  <1>1. /\ pre \in Seq(Calls(Steps)) /\ post \in Seq(Calls(Steps))
    BY <1>0
  <1>2. /\ code \in Seq(Calls(Steps)) /\ Len(code) = a + n + Len(post)
        /\ \A i \in 1..a : code[i] = pre[i]
        /\ \A i \in (a + 1)..(a + n) : code[i] = g[i - a]
        /\ \A i \in (a + n + 1)..Len(code) : code[i] = post[i - (a + n)]
    BY <1>1
  <1>3. a \in Nat /\ n \in 0..Tracks /\ Len(post) \in Nat
    BY TrackType
  <1>. HIDE DEF code, a, n
  <1>4. ASSUME NEW i \in 1..Len(code)
        PROVE  /\ i \in (a + 1)..(a + n) => code[i] \in GraphCall(i - a)
               /\ i \notin (a + 1)..(a + n) => code[i] \in PlainCall
               /\ code[i].onerror # "cleanup"
    <2>1. CASE i \in 1..a
      <3>1. code[i] = pre[i] /\ i \in 1..Len(pre)
        BY <1>2, <2>1 DEF a
      <3>2. code[i] \in MixerCall
        BY <3>1
      <3>. QED  BY <1>3, <2>1, <3>2 DEF MixerCall
    <2>2. CASE i \in (a + 1)..(a + n)
      <3>1. i - a \in 1..n
        BY <1>3, <2>2
      <3>. QED  BY <1>2, <2>2, <3>1 DEF n
    <2>3. CASE i \in (a + n + 1)..Len(code)
      <3>1. i - (a + n) \in 1..Len(post)
        BY <1>2, <1>3, <2>3
      <3>2. code[i] \in MixerCall
        BY <1>2, <2>3, <3>1
      <3>. QED  BY <1>3, <2>3, <3>2 DEF MixerCall
    <2>. QED  BY <1>2, <1>3, <2>1, <2>2, <2>3
  <1>5. a + n <= Len(code)
    BY <1>2, <1>3
  <1>6. InTurn(code, a, n)
    BY <1>2, <1>3, <1>4, <1>5 DEF InTurn
  <1>. QED  BY <1>6 DEF code, a, n

\* The parts of the mixers, whatever the functions are.
LEMMA InputCalls ==
    ASSUME NEW n \in 0..Tracks, NEW o \in [1..n -> Seq(Firm(Contexts))],
           NEW e \in {"exit", "ignore"}
    PROVE  FlattenSeq([i \in 1..n |->
               << Call("open_input_file", o[i], e),
                  Call("av_dump_format", << Sure({In(i)}, {}) >>, "exit") >>])
             \in Seq(MixerCall)
  <1>1. ASSUME NEW i \in 1..n
        PROVE  << Call("open_input_file", o[i], e),
                  Call("av_dump_format", << Sure({In(i)}, {}) >>, "exit") >> \in Seq(MixerCall)
    <2>1. o[i] \in Seq(Firm(Contexts)) /\ i \in Track
      BY TrackType
    <2>2. << Sure({In(i)}, {}) >> \in Seq(Firm(Contexts))
      BY <2>1, StepTypes, ContextTypes, SMTT(30)
    <2>3. Call("open_input_file", o[i], e) \in MixerCall
      BY <2>1, MixerCallType DEF Names
    <2>4. Call("av_dump_format", << Sure({In(i)}, {}) >>, "exit") \in MixerCall
      BY <2>2, MixerCallType DEF Names
    <2>. QED  BY <2>3, <2>4
  <1>2. n \in Nat
    BY TrackType
  <1>. QED  BY <1>1, <1>2, JoinedSeqs

LEMMA OutputCalls ==
    ASSUME NEW n \in 0..Tracks, NEW o \in [1..n -> Seq(Firm(Contexts))],
           NEW e \in {"exit", "ignore"}, NEW dump \in BOOLEAN
    PROVE  FlattenSeq([i \in 1..n |->
               << Call("open_output_file", o[i], "ignore"),
                  Call("av_dump_format",
                       IF dump THEN << Sure({Out(i)}, {}) >> ELSE << >>, "exit"),
                  Call("write_output_file_header", write_output_file_header(i), e) >>])
             \in Seq(MixerCall)
  <1>1. ASSUME NEW i \in 1..n
        PROVE  << Call("open_output_file", o[i], "ignore"),
                  Call("av_dump_format",
                       IF dump THEN << Sure({Out(i)}, {}) >> ELSE << >>, "exit"),
                  Call("write_output_file_header", write_output_file_header(i), e) >>
                 \in Seq(MixerCall)
    <2>1. o[i] \in Seq(Firm(Contexts)) /\ i \in Track
      BY TrackType
    <2>2. (IF dump THEN << Sure({Out(i)}, {}) >> ELSE << >>) \in Seq(Firm(Contexts))
      <3>0. {Out(i)} \in SUBSET Contexts
        BY <2>1, ContextTypes
      <3>1. << Sure({Out(i)}, {}) >> \in Seq(Firm(Contexts))
        BY <3>0, StepTypes
      <3>. QED  BY <3>1, JoinedSeqs
    <2>3. Call("open_output_file", o[i], "ignore") \in MixerCall
      BY <2>1, MixerCallType DEF Names
    <2>4. Call("av_dump_format",
                       IF dump THEN << Sure({Out(i)}, {}) >> ELSE << >>, "exit") \in MixerCall
      BY <2>2, MixerCallType DEF Names
    <2>5. write_output_file_header(i) \in Seq(Firm(Contexts))
      BY <2>1, OutputTypes, ContextTypes
    <2>6. Call("write_output_file_header", write_output_file_header(i), e) \in MixerCall
      BY <2>5, MixerCallType DEF Names
    <2>. QED  BY <2>3, <2>4, <2>6
  <1>2. n \in Nat
    BY TrackType
  <1>. QED  BY <1>1, <1>2, JoinedSeqs

LEMMA GraphCalls ==
    ASSUME NEW n \in 0..Tracks, NEW o \in [1..n -> Seq(Firm(Contexts))]
    PROVE  LET g == FlattenSeq([k \in 1..n |->
                        << Call("init_filter_graph", o[k] \o << PushSink(k) >>, "ignore") >>])
           IN  /\ g \in Seq(Calls(Steps)) /\ Len(g) = n
               /\ \A k \in 1..n : g[k] \in GraphCall(k) /\ g[k].onerror # "cleanup"
  <1>. DEFINE c(k) == Call("init_filter_graph", o[k] \o << PushSink(k) >>, "ignore")
              h == [k \in 1..n |-> << c(k) >>]
  <1>1. n \in Nat /\ 1..n \subseteq Track
    BY TrackType
  <1>2. \A k \in 1..n : c(k) \in GraphCall(k) /\ c(k).onerror # "cleanup"
    <2>. TAKE k \in 1..n
    <2>1. k \in Track /\ o[k] \in Seq(Firm(Contexts))
      BY <1>1
    <2>2. c(k) \in GraphCall(k)
      BY <2>1, GraphCallType
    <2>. QED  BY <2>2 DEF Call
  <1>3. \A k \in 1..n : c(k) \in Calls(Steps)
    BY <1>2 DEF GraphCall
  <1>. HIDE DEF c
  <1>4. h \in [1..n -> Seq(Calls(Steps))] /\ \A k \in 1..n : Len(h[k]) = 1 /\ h[k][1] = c(k)
    BY <1>3
  <1>5. /\ FlattenSeq(h) \in Seq(Calls(Steps)) /\ Len(FlattenSeq(h)) = n
        /\ \A k \in 1..n : FlattenSeq(h)[k] = h[k][1]
    <2>. HIDE DEF h
    <2>1. h \in [1..n -> Seq(Calls(Steps))] /\ \A k \in 1..n : Len(h[k]) = 1
      BY <1>4
    <2>. DEFINE S == Calls(Steps)
    <2>2. h \in [1..n -> Seq(S)]
      BY <1>4
    <2>. HIDE DEF S
    <2>3. \A m \in Nat : \A f \in [1..m -> Seq(S)] : (\A k \in 1..m : Len(f[k]) = 1) =>
             /\ FlattenSeq(f) \in Seq(S) /\ Len(FlattenSeq(f)) = m
             /\ \A k \in 1..m : FlattenSeq(f)[k] = f[k][1]
      BY FlattenOfOnes
    <2>4. /\ FlattenSeq(h) \in Seq(S) /\ Len(FlattenSeq(h)) = n
          /\ \A k \in 1..n : FlattenSeq(h)[k] = h[k][1]
      BY <1>1, <2>1, <2>2, <2>3
    <2>. QED  BY <2>4 DEF S
  <1>6. \A k \in 1..n : FlattenSeq(h)[k] \in GraphCall(k) /\ FlattenSeq(h)[k].onerror # "cleanup"
    <2>. HIDE DEF h
    <2>. QED  BY <1>2, <1>4, <1>5
  <1>. QED  BY <1>5, <1>6 DEF h, c

\* A mixer is its inputs, its graphs, its outputs and its rounds.
LEMMA MixerForm ==
    ASSUME NEW i \in Seq(MixerCall), NEW g \in Seq(Calls(Steps)), NEW o \in Seq(MixerCall),
           NEW r \in Seq(MixerCall), Len(g) <= Tracks,
           \A k \in 1..Len(g) : g[k] \in GraphCall(k) /\ g[k].onerror # "cleanup"
    PROVE  InTurn(((i \o g) \o o) \o r, Len(i), Len(g))
  <1>1. o \o r \in Seq(MixerCall)
    BY JoinedSeqs
  <1>2. MixerCall \subseteq Calls(Steps)
    BY DEF MixerCall, PlainCall, Calls, Quiet
  <1>3. i \in Seq(Calls(Steps)) /\ o \in Seq(Calls(Steps)) /\ r \in Seq(Calls(Steps))
    BY <1>2
  <1>4. ((i \o g) \o o) \o r = (i \o g) \o (o \o r)
    BY <1>3, JoinedSeqs, ConcatAssociative
  <1>. QED  BY <1>1, <1>4, InTurnForm

MixerText(o, ei, g, w, dump, eo, rounds) ==
    ((FlattenSeq([i \in DOMAIN o |->
          << Call("open_input_file", o[i], ei),
             Call("av_dump_format", << Sure({In(i)}, {}) >>, "exit") >>])
      \o FlattenSeq([k \in DOMAIN g |->
          << Call("init_filter_graph", g[k] \o << PushSink(k) >>, "ignore") >>]))
     \o FlattenSeq([i \in DOMAIN w |->
          << Call("open_output_file", w[i], "ignore"),
             Call("av_dump_format",
                  IF dump THEN << Sure({Out(i)}, {}) >> ELSE << >>, "exit"),
             Call("write_output_file_header", write_output_file_header(i), eo) >>]))
    \o << Loop("process_all", rounds, "exit") >>

LEMMA MixerTextInTurn ==
    ASSUME NEW n \in 0..Tracks, NEW m \in 0..Tracks,
           NEW o \in [1..Tracks -> Seq(Firm(Contexts))],
           NEW g \in [1..n -> Seq(Firm(Contexts))],
           NEW w \in [1..m -> Seq(Firm(Contexts))],
           NEW ei \in {"exit", "ignore"}, NEW eo \in {"exit", "ignore"}, NEW dump \in BOOLEAN,
           NEW rounds \in Seq(Firm(Contexts))
    PROVE  \E a, b \in Nat : InTurn(MixerText(o, ei, g, w, dump, eo, rounds), a, b)
  <1>. DEFINE I == FlattenSeq([i \in 1..Tracks |->
                     << Call("open_input_file", o[i], ei),
                        Call("av_dump_format", << Sure({In(i)}, {}) >>, "exit") >>])
              G == FlattenSeq([k \in 1..n |->
                     << Call("init_filter_graph", g[k] \o << PushSink(k) >>, "ignore") >>])
              O == FlattenSeq([i \in 1..m |->
                     << Call("open_output_file", w[i], "ignore"),
                        Call("av_dump_format",
                             IF dump THEN << Sure({Out(i)}, {}) >> ELSE << >>, "exit"),
                        Call("write_output_file_header", write_output_file_header(i), eo) >>])
              R == << Loop("process_all", rounds, "exit") >>
  <1>1. I \in Seq(MixerCall)
    <2>1. Tracks \in 0..Tracks
      BY TrackType
    <2>. QED  BY <2>1, InputCalls
  <1>2. /\ G \in Seq(Calls(Steps)) /\ Len(G) = n
        /\ \A k \in 1..n : G[k] \in GraphCall(k) /\ G[k].onerror # "cleanup"
    BY GraphCalls
  <1>3. O \in Seq(MixerCall)
    BY OutputCalls
  <1>4. R \in Seq(MixerCall)
    <2>1. Loop("process_all", rounds, "exit") \in MixerCall
      BY MixerCallType DEF Names
    <2>. QED  BY <2>1
  <1>5. MixerText(o, ei, g, w, dump, eo, rounds) = ((I \o G) \o O) \o R
    BY DEF MixerText
  <1>. HIDE DEF I, G, O, R
  <1>6. Len(G) <= Tracks /\ \A k \in 1..Len(G) : G[k] \in GraphCall(k) /\ G[k].onerror # "cleanup"
    BY <1>2, TrackType
  <1>7. InTurn(((I \o G) \o O) \o R, Len(I), Len(G))
    BY <1>1, <1>2, <1>3, <1>4, <1>6, MixerForm
  <1>8. Len(I) \in Nat /\ Len(G) \in Nat
    BY <1>1, <1>2
  <1>. QED  BY <1>5, <1>7, <1>8

\* The rounds: each input feeds the graphs of the others, each output is pulled.
Rounds ==
    ForEach(LAMBDA i : ReadRound(i, decode_audio_frame), Tracks)
    \o ForEach(LAMBDA k : PullRound(k, encode_audio_frame), Tracks)

LEMMA RoundsType == Rounds \in Seq(Firm(Contexts))
  <1>. DEFINE F == Firm(Contexts)
              Feed(i, j) == IF j = i THEN << >> ELSE << Maybe(Try({Src(j, i), Frame}, {}, {})) >>
              Read(i) == ((init_input_frame \o decode_audio_frame(i))
                          \o FlattenSeq([j \in 1..Tracks |-> Feed(i, j)])) \o << Release({Frame}) >>
              Pull(k) == (<< Unchecked({}, {Frame}), PullSink(k) >> \o encode_audio_frame(k))
                         \o << Release({Frame}) >>
              body == FlattenSeq([i \in 1..Tracks |-> Read(i)])
                      \o FlattenSeq([k \in 1..Tracks |-> Pull(k)])
  <1>1. \A i, j \in Track : Feed(i, j) \in Seq(F)
    BY RoundTypes, ContextTypes, JoinedSeqs
  <1>2. ASSUME NEW i \in Track PROVE Read(i) \in Seq(F) /\ Pull(i) \in Seq(F)
    <2>1. /\ init_input_frame \in Seq(F) /\ decode_audio_frame(i) \in Seq(F)
          /\ << Release({Frame}) >> \in Seq(F) /\ encode_audio_frame(i) \in Seq(F)
          /\ << Unchecked({}, {Frame}), PullSink(i) >> \in Seq(F)
      BY RoundTypes, ContextTypes
    <2>2. FlattenSeq([j \in 1..Tracks |-> Feed(i, j)]) \in Seq(F)
      <3>. HIDE DEF Feed
      <3>. QED  BY <1>1, JoinedSeqs, TrackType
    <2>. HIDE DEF F
    <2>. QED  BY <2>1, <2>2, Joined
  <1>3. body \in Seq(F)
    <2>. HIDE DEF Read, Pull, F
    <2>. QED  BY <1>2, JoinedSeqs, TrackType
  <1>4. Rounds = body
    BY DEF Rounds, ReadRound, PullRound, ForEach
  <1>. QED  BY <1>3, <1>4

\* The functions of the mixers.
LEMMA MixerFunctions ==
    ASSUME NEW i \in Track
    PROVE  /\ open_input_file(i) \in Seq(Firm(Contexts))
           /\ MakeGraph(i, Track \ {i}) \in Seq(Firm(Contexts))
           /\ \A uses \in SUBSET Contexts : OpenOutput(i, uses) \in Seq(Firm(Contexts))
           /\ open_output_file(i) \in Seq(Firm(Contexts))
           /\ open_output_file_4broken(i) \in Seq(Firm(Contexts))
  <1>1. open_input_file(i) \in Seq(Firm(Contexts))
    BY InputTypes, ContextTypes, JoinedSeqs DEF open_input_file
  <1>2. MakeGraph(i, Track \ {i}) \in Seq(Firm(Contexts))
    BY GraphTypes
  <1>3. \A uses \in SUBSET Contexts : OpenOutput(i, uses) \in Seq(Firm(Contexts))
    BY OutputTypes, ContextTypes
  <1>4. {Out(i), In(i)} \in SUBSET Contexts /\ {Out(i)} \in SUBSET Contexts
    BY ContextTypes
  <1>. QED  BY <1>1, <1>2, <1>3, <1>4 DEF open_output_file, open_output_file_4broken

LEMMA EachForm ==
    /\ \E a, n \in Nat : InTurn(filter_audio, a, n)
    /\ \E a, n \in Nat : InTurn(filter_audio_4broken, a, n)
    /\ \E a, n \in Nat : InTurn(filter_audio_cdec, a, n)
  <1>. DEFINE o == [i \in 1..Tracks |-> open_input_file(i)]
              g == [k \in 1..Tracks |-> MakeGraph(k, Track \ {k})]
              w == [i \in 1..Tracks |-> open_output_file(i)]
              v == [i \in 1..Tracks |-> open_output_file_4broken(i)]
  <1>1. /\ o \in [1..Tracks -> Seq(Firm(Contexts))] /\ g \in [1..Tracks -> Seq(Firm(Contexts))]
        /\ w \in [1..Tracks -> Seq(Firm(Contexts))] /\ v \in [1..Tracks -> Seq(Firm(Contexts))]
    BY MixerFunctions, TrackType
  <1>2. filter_audio = MixerText(o, "exit", g, w, FALSE, "exit", Rounds)
    BY DEF filter_audio, init, process_all, OpenInputs, MakeGraphs, OpenOutputs, MixRounds,
           Rounds, ForEach, init_filter_graph, MixerText
  <1>3. filter_audio_4broken = MixerText(o, "exit", g, v, TRUE, "exit", Rounds)
    BY DEF filter_audio_4broken, init_4broken, process_all_4broken, OpenInputs, MakeGraphs,
           OpenOutputs, MixRounds, ReadRound, PullRound, Rounds, ForEach, MixerText,
           open_input_file_4broken, open_input_file, sdp_open_4broken,
           init_filter_graph_4broken, decode_audio_frame_4broken, encode_audio_frame_4broken
  <1>4. filter_audio_cdec = MixerText(o, "ignore", g, v, TRUE, "ignore", Rounds)
    BY DEF filter_audio_cdec, init_cdec, process_all_cdec, OpenInputs, MakeGraphs,
           OpenOutputs, MixRounds, ReadRound, PullRound, Rounds, ForEach, MixerText,
           open_input_file_cdec, open_input_file, sdp_open_cdec, open_output_file_cdec,
           open_output_file_4broken,
           init_filter_graph_cdec, decode_audio_frame_cdec, encode_audio_frame_cdec
  <1>5. Tracks \in 0..Tracks
    BY TrackType
  <1>. HIDE DEF o, g, w, v
  <1>. QED  BY <1>1, <1>2, <1>3, <1>4, <1>5, RoundsType, MixerTextInTurn

LEMMA SameText ==
    /\ filter_audio_405 = filter_audio /\ filter_audio_3103 = filter_audio
    /\ filter_audio_test2 = filter_audio /\ filter_audio_3n = filter_audio_4broken
    /\ main_inet = main_copy
  <1>. USE DEF OpenInputs, MakeGraphs, OpenOutputs, MixRounds, ReadRound, PullRound, ForEach
  <1>1. filter_audio_405 = filter_audio
    BY DEF filter_audio_405, filter_audio, init_405, init, process_all_405, process_all,
           open_input_file_405, open_input_file, sdp_open_405, init_filter_graph_405,
           init_filter_graph, open_output_file_405, open_output_file,
           decode_audio_frame_405, encode_audio_frame_405
  <1>2. filter_audio_3103 = filter_audio
    BY DEF filter_audio_3103, filter_audio, init_3103, init, process_all_3103, process_all,
           open_input_file_3103, open_input_file, sdp_open_3103, init_filter_graph_3103,
           init_filter_graph, open_output_file_3103, open_output_file,
           decode_audio_frame_3103, encode_audio_frame_3103
  <1>3. filter_audio_test2 = filter_audio
    BY DEF filter_audio_test2, filter_audio, init_test2, init, process_all_test2, process_all,
           open_input_file_test2, open_input_file, sdp_open_test2, init_filter_graph_test2,
           init_filter_graph, open_output_file_test2, open_output_file,
           decode_audio_frame_test2, encode_audio_frame_test2
  <1>4. filter_audio_3n = filter_audio_4broken
    BY DEF filter_audio_3n, filter_audio_4broken, init_3n, init_4broken, process_all_3n,
           process_all_4broken, open_input_file_3n, open_input_file_4broken, sdp_open_3n,
           sdp_open_4broken, init_filter_graph_3n, init_filter_graph_4broken,
           open_output_file_3n, open_output_file_4broken, decode_audio_frame_3n,
           decode_audio_frame_4broken, encode_audio_frame_3n, encode_audio_frame_4broken
  <1>5. main_inet = main_copy
    BY DEF main_inet, main_copy, TwoInputs, open_input_file_inet, open_input_file_copy,
           init_filter_graph_inet, init_filter_graph_copy, open_output_file_inet,
           open_output_file_copy, write_output_file_header_inet, write_output_file_header_copy,
           process_all_inet, process_all_copy, write_output_file_trailer_inet,
           write_output_file_trailer_copy, encode_audio_frame_inet, encode_audio_frame_copy,
           decode_audio_frame_inet, decode_audio_frame_copy
  <1>. QED  BY <1>1, <1>2, <1>3, <1>4, <1>5

LEMMA FirmSubset ==
    ASSUME NEW G \in SUBSET Contexts
    PROVE  /\ Firm(G) \subseteq Firm(Contexts) /\ Firm(G) \subseteq Quiet(G)
           /\ Quiet(G) \subseteq Quiet(Contexts) /\ Quiet(G) \subseteq Steps
  BY DEF Firm, Quiet

\* A round in which one sink is pulled.
LEMMA OneMixRoundType ==
    ASSUME NEW n \in 0..Tracks, NEW m \in 0..Tracks, NEW G \in SUBSET Contexts, Frame \in G,
           NEW d \in [1..n -> Seq(Firm(G))], NEW e \in [1..m -> Seq(Firm(G))]
    PROVE  ((FlattenSeq([i \in 1..n |->
                ((init_input_frame \o d[i])
                 \o << Maybe(Try({Src(1, i), Frame}, {}, {})), Release({Frame}) >>)])
             \o << Unchecked({}, {Frame}), PullSink(1) >>)
            \o FlattenSeq([i \in 1..m |-> e[i]])) \o << Release({Frame}) >>
               \in Seq(Firm(G))
  <1>. DEFINE F == Firm(G)
              Read(i) == (init_input_frame \o d[i])
                         \o << Maybe(Try({Src(1, i), Frame}, {}, {})), Release({Frame}) >>
  <1>0. n \in Nat /\ m \in Nat /\ 1..n \subseteq Track /\ 1..m \subseteq Track
    BY TrackType
  <1>1. \A i \in 1..n : Read(i) \in Seq(F)
    <2>. TAKE i \in 1..n
    <2>1. /\ init_input_frame \in Seq(F) /\ d[i] \in Seq(F)
          /\ << Maybe(Try({Src(1, i), Frame}, {}, {})), Release({Frame}) >> \in Seq(F)
      BY <1>0, RoundTypes, TrackType
    <2>. HIDE DEF F
    <2>. QED  BY <2>1, Joined
  <1>2. /\ << Unchecked({}, {Frame}), PullSink(1) >> \in Seq(F)
        /\ << Release({Frame}) >> \in Seq(F)
    BY RoundTypes, TrackType
  <1>. HIDE DEF F, Read
  <1>3. FlattenSeq([i \in 1..n |-> Read(i)]) \in Seq(F)
    BY <1>0, <1>1, JoinedSeqs
  <1>4. FlattenSeq([i \in 1..m |-> e[i]]) \in Seq(F)
    <2>1. [i \in 1..m |-> e[i]] \in [1..m -> Seq(F)]
      BY DEF F
    <2>. QED  BY <1>0, <2>1, JoinedSeqs
  <1>. QED  BY <1>2, <1>3, <1>4, Joined DEF F, Read

LEMMA OneGraphForm ==
    /\ \E a, n \in Nat : InTurn(filter_audio_2sdp, a, n)
    /\ \E a, n \in Nat : InTurn(filter_audio_11, a, n)
  <1>. DEFINE C == Seq(Firm(Contexts))
              o == [i \in 1..Tracks |-> open_input_file(i)]
              p == [i \in 1..Tracks |-> open_input_file_11(i)]
              g == [k \in 1..1 |-> MakeGraph(1, Track)]
              w == [i \in 1..Tracks |-> open_output_file_4broken(i)]
              v == [i \in 1..1 |-> open_output_file_4broken(i)]
              d == [i \in 1..Tracks |-> decode_audio_frame_2sdp(i)]
              e == [i \in 1..Tracks |-> encode_audio_frame(i)]
              f == [i \in 1..1 |-> encode_audio_frame(i)]
              rounds(x) ==
                  ((FlattenSeq([i \in 1..Tracks |->
                     ((init_input_frame \o d[i])
                      \o << Maybe(Try({Src(1, i), Frame}, {}, {})), Release({Frame}) >>)])
                    \o << Unchecked({}, {Frame}), PullSink(1) >>)
                   \o FlattenSeq([i \in DOMAIN x |-> x[i]])) \o << Release({Frame}) >>
  <1>0. Tracks \in 0..Tracks /\ 1 \in 0..Tracks /\ Contexts \in SUBSET Contexts
    BY TrackType
  <1>1. ASSUME NEW i \in Track
        PROVE  /\ open_input_file(i) \in C /\ open_input_file_11(i) \in C
               /\ decode_audio_frame_2sdp(i) \in C /\ encode_audio_frame(i) \in C
               /\ open_output_file_4broken(i) \in C
    <2>1. open_input_file(i) \in C /\ open_output_file_4broken(i) \in C
      BY MixerFunctions
    <2>2. open_input_file_11(i) \in C
      BY InputTypes, ContextTypes, JoinedSeqs DEF open_input_file_11
    <2>3. decode_audio_frame_2sdp(i) \in C /\ encode_audio_frame(i) \in C
      BY RoundTypes, ContextTypes DEF decode_audio_frame_2sdp
    <2>. QED  BY <2>1, <2>2, <2>3
  <1>2. MakeGraph(1, Track) \in C
    BY GraphTypes, TrackType
  <1>3. /\ o \in [1..Tracks -> C] /\ p \in [1..Tracks -> C] /\ g \in [1..1 -> C]
        /\ w \in [1..Tracks -> C] /\ v \in [1..1 -> C] /\ d \in [1..Tracks -> C]
        /\ e \in [1..Tracks -> C] /\ f \in [1..1 -> C]
    <2>. HIDE DEF C
    <2>. QED  BY <1>1, <1>2, TrackType
  <1>4. rounds(e) \in C
    <2>. HIDE DEF d, e
    <2>. QED  BY <1>0, <1>3, ContextTypes, OneMixRoundType
  <1>5. rounds(f) \in C
    <2>. HIDE DEF d, f
    <2>. QED  BY <1>0, <1>3, ContextTypes, OneMixRoundType
  <1>6. filter_audio_2sdp = MixerText(o, "exit", g, w, TRUE, "exit", rounds(e))
    <2>1. OpenInputs(open_input_file_2sdp, Tracks, "exit") =
             FlattenSeq([i \in DOMAIN o |->
                << Call("open_input_file", o[i], "exit"),
                   Call("av_dump_format", << Sure({In(i)}, {}) >>, "exit") >>])
      BY DEF OpenInputs, ForEach, open_input_file_2sdp, sdp_open_2sdp, open_input_file
    <2>2. MakeGraphs(init_filter_graph_2sdp, 1) =
             FlattenSeq([k \in DOMAIN g |->
                << Call("init_filter_graph", g[k] \o << PushSink(k) >>, "ignore") >>])
      <3>1. MakeGraphs(init_filter_graph_2sdp, 1) =
              FlattenSeq([k \in 1..1 |-> << Call("init_filter_graph",
                             MakeGraph(1, Track) \o << PushSink(1) >>, "ignore") >>])
        BY DEF MakeGraphs, ForEach, init_filter_graph_2sdp, OneGraph
      <3>2. [k \in 1..1 |-> << Call("init_filter_graph",
                             MakeGraph(1, Track) \o << PushSink(1) >>, "ignore") >>]
            = [k \in DOMAIN g |->
                << Call("init_filter_graph", g[k] \o << PushSink(k) >>, "ignore") >>]
        <4>1. \A k \in 1..1 : k = 1
          OBVIOUS
        <4>. QED  BY <4>1
      <3>. QED  BY <3>1, <3>2
    <2>3. OpenOutputs(open_output_file_2sdp, TRUE, Tracks, "exit") =
             FlattenSeq([i \in DOMAIN w |->
                << Call("open_output_file", w[i], "ignore"),
                   Call("av_dump_format",
                        IF TRUE THEN << Sure({Out(i)}, {}) >> ELSE << >>, "exit"),
                   Call("write_output_file_header", write_output_file_header(i), "exit") >>])
      BY DEF OpenOutputs, ForEach, open_output_file_2sdp, open_output_file_4broken
    <2>4. process_all_2sdp = << Loop("process_all", rounds(e), "exit") >>
      BY DEF process_all_2sdp, OneMixRound, ForEach, encode_audio_frame_2sdp,
             decode_audio_frame_2sdp, decode_audio_frame_2sdp
    <2>. HIDE DEF o, g, w, rounds
    <2>. QED  BY <2>1, <2>2, <2>3, <2>4 DEF MixerText, filter_audio_2sdp, init_2sdp
  <1>7. filter_audio_11 = MixerText(p, "exit", g, v, TRUE, "exit", rounds(f))
    <2>1. OpenInputs(open_input_file_11, Tracks, "exit") =
             FlattenSeq([i \in DOMAIN p |->
                << Call("open_input_file", p[i], "exit"),
                   Call("av_dump_format", << Sure({In(i)}, {}) >>, "exit") >>])
      BY DEF OpenInputs, ForEach, open_input_file_11
    <2>2. MakeGraphs(init_filter_graph_11, 1) =
             FlattenSeq([k \in DOMAIN g |->
                << Call("init_filter_graph", g[k] \o << PushSink(k) >>, "ignore") >>])
      <3>1. MakeGraphs(init_filter_graph_11, 1) =
              FlattenSeq([k \in 1..1 |-> << Call("init_filter_graph",
                             MakeGraph(1, Track) \o << PushSink(1) >>, "ignore") >>])
        BY DEF MakeGraphs, ForEach, init_filter_graph_11, OneGraph
      <3>2. [k \in 1..1 |-> << Call("init_filter_graph",
                             MakeGraph(1, Track) \o << PushSink(1) >>, "ignore") >>]
            = [k \in DOMAIN g |->
                << Call("init_filter_graph", g[k] \o << PushSink(k) >>, "ignore") >>]
        <4>1. \A k \in 1..1 : k = 1
          OBVIOUS
        <4>. QED  BY <4>1
      <3>. QED  BY <3>1, <3>2
    <2>3. OpenOutputs(open_output_file_11, TRUE, 1, "exit") =
             FlattenSeq([i \in DOMAIN v |->
                << Call("open_output_file", v[i], "ignore"),
                   Call("av_dump_format",
                        IF TRUE THEN << Sure({Out(i)}, {}) >> ELSE << >>, "exit"),
                   Call("write_output_file_header", write_output_file_header(i), "exit") >>])
      BY DEF OpenOutputs, ForEach, open_output_file_11, open_output_file_4broken
    <2>4. process_all_11 = << Loop("process_all", rounds(f), "exit") >>
      BY DEF process_all_11, OneMixRound, ForEach, encode_audio_frame_11,
             decode_audio_frame_11, decode_audio_frame_2sdp
    <2>. HIDE DEF p, g, v, rounds
    <2>. QED  BY <2>1, <2>2, <2>3, <2>4 DEF MixerText, filter_audio_11, init_11
  <1>. HIDE DEF o, g, w, v, p, rounds
  <1>8. \E a, n \in Nat : InTurn(filter_audio_2sdp, a, n)
    BY <1>0, <1>3, <1>4, <1>6, MixerTextInTurn
  <1>9. \E a, n \in Nat : InTurn(filter_audio_11, a, n)
    BY <1>0, <1>3, <1>5, <1>7, MixerTextInTurn
  <1>. QED  BY <1>8, <1>9

OneMuxer == {c \in Contexts : c[1] = "muxer" => c[2] = 1}
NoMuxer == {c \in Contexts : c[1] # "muxer"}
Giving(G) == {s \in Steps : s.gives \subseteq G}

\* A program whose call t writes the trailer: no step gives another muxer than
\* Muxer(1), and none gives that one after the call, which ends by releasing it.
FileForm(code, t) ==
    /\ t \in 1..Len(code) /\ code \in Seq(Calls(Giving(OneMuxer)))
    /\ code[t].name = "write_output_file_trailer" /\ ~code[t].again
    /\ code[t].body # << >>
    /\ \A m \in 1..Len(code[t].body) : code[t].body[m].failure # "break"
    /\ code[t].body[Len(code[t].body)] = Release({Muxer(1)})
    /\ \A i \in 1..Len(code) : i > t => code[i] \in Calls(Giving(NoMuxer))

LEMMA OneMuxerHas ==
    /\ \A i \in Track : In(i) \in OneMuxer /\ Dec(i) \in OneMuxer /\ Out(i) \in OneMuxer
                        /\ Io(i) \in OneMuxer /\ Enc(i) \in OneMuxer
                        /\ Graph(i) \in OneMuxer /\ Sink(i) \in OneMuxer
    /\ \A k, i \in Track : Src(k, i) \in OneMuxer
    /\ \A n \in 0..3 : Data(n) \in OneMuxer
    /\ Frame \in OneMuxer /\ Muxer(1) \in OneMuxer
    /\ OneMuxer \in SUBSET Contexts
  <1>1. 1 \in Track
    BY TrackType
  <1>. QED  BY <1>1, ContextTypes
            DEF OneMuxer, In, Dec, Out, Io, Enc, Graph, Sink, Src, Data, Frame, Muxer

\* amix and its copy, whatever a round is.
TwoInputText(rounds) ==
    ((FlattenSeq([i \in 1..2 |->
          << Call("open_input_file", OpenFile(i) \o FindDecoder(i), "exit"),
             Call("av_dump_format", << Sure({In(i)}, {}) >>, "exit") >>])
      \o << Call("init_filter_graph", TwoInputGraph, "ignore"),
            Call("open_output_file", OpenOutput(1, {Out(1)}), "ignore"),
            Call("av_dump_format", << Sure({Out(1)}, {}) >>, "exit"),
            Call("write_output_file_header", write_output_file_header(1), "exit") >>)
     \o << Loop("process_all", rounds, "exit") >>)
    \o << Call("write_output_file_trailer", WriteTrailer(1), "exit") >>

LEMMA TwoInputGraphType ==
    \E b \in Seq(Firm(OneMuxer)) : TwoInputGraph = b \o << PushSink(1) >>
  <1>. USE StepTypes, OneMuxerHas, ContextTypes
  <1>. DEFINE F == Firm(OneMuxer)
              Source(i) == << Try({}, {}, {}), Try({Dec(i), Graph(1)}, {}, {}) >>
              S == FlattenSeq([i \in 1..2 |-> Source(i)])
              L == [n \in 1..4 |-> Try({Graph(1)}, {}, {})]
              A == << Try({}, {Graph(1)}, {}) >>
              Z == Sure({Graph(1)}, {Src(1, 1), Src(1, 2)})
              b == (((A \o S) \o CreateMixAndSink(1)) \o L) \o << Z >>
  <1>0. 1 \in Track /\ 1..2 \subseteq Track /\ 2 \in Nat
    BY TrackType
  <1>1. A \in Seq(F) /\ CreateMixAndSink(1) \in Seq(F)
    BY <1>0 DEF CreateMixAndSink
  <1>2. \A i \in 1..2 : Source(i) \in Seq(F)
    BY <1>0
  <1>3. S \in Seq(F)
    <2>. HIDE DEF Source, F
    <2>. QED  BY <1>0, <1>2, JoinedSeqs
  <1>4. L \in Seq(F)
    <2>1. Try({Graph(1)}, {}, {}) \in F
      BY <1>0
    <2>. QED  BY <2>1, FunctionIsSeq
  <1>5. << Z >> \in Seq(F)
    <2>1. {Src(1, 1), Src(1, 2)} \in SUBSET OneMuxer /\ {Graph(1)} \in SUBSET Contexts
      BY TrackType
    <2>2. Z \in F
      BY <2>1
    <2>. QED  BY <2>2
  <1>6. b \in Seq(F)
    <2>. HIDE DEF A, S, L, Z, F
    <2>. QED  BY <1>1, <1>3, <1>4, <1>5, Joined
  <1>7. TwoInputGraph = b \o << PushSink(1) >>
    <2>1. TwoInputGraph = (((A \o S) \o CreateMixAndSink(1)) \o L) \o << Z, PushSink(1) >>
      BY DEF TwoInputGraph, ForEach
    <2>2. << Z, PushSink(1) >> = << Z >> \o << PushSink(1) >>
      OBVIOUS
    <2>3. /\ ((A \o S) \o CreateMixAndSink(1)) \o L \in Seq(Steps)
          /\ << Z >> \in Seq(Steps) /\ << PushSink(1) >> \in Seq(Steps)
      <3>1. F \subseteq Steps /\ PushSink(1) \in Steps
        BY FirmSubset, PushSinkType, <1>0
      <3>2. ((A \o S) \o CreateMixAndSink(1)) \o L \in Seq(F)
        <4>. HIDE DEF A, S, L, Z, F
        <4>. QED  BY <1>1, <1>3, <1>4, Joined
      <3>. HIDE DEF A, S, L, Z, F
      <3>. QED  BY <1>5, <3>1, <3>2
    <2>. HIDE DEF A, S, L, Z
    <2>. QED  BY <2>1, <2>2, <2>3, ConcatAssociative
  <1>. HIDE DEF b
  <1>. QED  BY <1>6, <1>7

LEMMA TwoInputTextForms ==
    ASSUME NEW rounds \in Seq(Firm(OneMuxer))
    PROVE  /\ \E a, n \in Nat : InTurn(TwoInputText(rounds), a, n)
           /\ \E t \in Nat : FileForm(TwoInputText(rounds), t)
  <1>. USE StepTypes, OneMuxerHas
  <1>. DEFINE F == Firm(OneMuxer)
              M == {c \in MixerCall : c \in Calls(F)}
              I == FlattenSeq([i \in 1..2 |->
                     << Call("open_input_file", OpenFile(i) \o FindDecoder(i), "exit"),
                        Call("av_dump_format", << Sure({In(i)}, {}) >>, "exit") >>])
              g == Call("init_filter_graph", TwoInputGraph, "ignore")
              o == Call("open_output_file", OpenOutput(1, {Out(1)}), "ignore")
              d == Call("av_dump_format", << Sure({Out(1)}, {}) >>, "exit")
              h == Call("write_output_file_header", write_output_file_header(1), "exit")
              r == Loop("process_all", rounds, "exit")
              w == Call("write_output_file_trailer", WriteTrailer(1), "exit")
  <1>0. /\ F \subseteq Firm(Contexts) /\ F \subseteq Steps /\ F \subseteq Giving(OneMuxer)
        /\ 1 \in Track /\ 1..2 \subseteq Track /\ 2 \in Nat
    BY FirmSubset, TrackType DEF Firm, Quiet, Giving
  <1>1. ASSUME NEW b \in Seq(F), NEW e \in {"exit", "ignore"}, NEW nm \in Names,
               nm # "init_filter_graph"
        PROVE  Call(nm, b, e) \in M /\ Loop(nm, b, e) \in M
    <2>1. b \in Seq(Firm(Contexts))
      BY <1>0
    <2>. QED  BY <1>1, <2>1, MixerCallType, CallTypes
  <1>2. I \in Seq(M)
    <2>1. ASSUME NEW i \in 1..2
          PROVE  << Call("open_input_file", OpenFile(i) \o FindDecoder(i), "exit"),
                    Call("av_dump_format", << Sure({In(i)}, {}) >>, "exit") >> \in Seq(M)
      <3>1. OpenFile(i) \o FindDecoder(i) \in Seq(F)
        BY <1>0, InputTypes, JoinedSeqs
      <3>2. << Sure({In(i)}, {}) >> \in Seq(F)
        BY <1>0, ContextTypes
      <3>3. /\ Call("open_input_file", OpenFile(i) \o FindDecoder(i), "exit") \in M
            /\ Call("av_dump_format", << Sure({In(i)}, {}) >>, "exit") \in M
        <4>. HIDE DEF F, M
        <4>. QED  BY <1>1, <3>1, <3>2 DEF Names
      <3>. QED  BY <3>3
    <2>. HIDE DEF M
    <2>. QED  BY <1>0, <2>1, JoinedSeqs
  <1>3. o \in M /\ d \in M /\ h \in M /\ r \in M /\ w \in M
    <2>1. OpenOutput(1, {Out(1)}) \in Seq(F)
      BY <1>0, OutputTypes, ContextTypes
    <2>2. << Sure({Out(1)}, {}) >> \in Seq(F)
      BY <1>0, ContextTypes
    <2>3. write_output_file_header(1) \in Seq(F) /\ WriteTrailer(1) \in Seq(F)
      BY <1>0, OutputTypes
    <2>. HIDE DEF F, M
    <2>. QED  BY <1>1, <2>1, <2>2, <2>3 DEF Names, F
  <1>4. g \in GraphCall(1) /\ g \in Calls(Giving(OneMuxer)) /\ g.onerror # "cleanup"
    <2>1. PICK b \in Seq(Firm(OneMuxer)) : TwoInputGraph = b \o << PushSink(1) >>
      BY TwoInputGraphType
    <2>2. b \in Seq(Firm(Contexts))
      BY <1>0
    <2>3. g \in GraphCall(1) /\ g.onerror # "cleanup"
      BY <1>0, <2>1, <2>2, GraphCallType DEF Call
    <2>4. b \in Seq(Giving(OneMuxer)) /\ PushSink(1) \in Giving(OneMuxer)
      <3>1. PushSink(1) \in Giving(OneMuxer)
        <4>1. PushSink(1) \in Steps /\ PushSink(1).gives = {Sink(1)}
          BY <1>0, PushSinkType
        <4>. QED  BY <1>0, <4>1 DEF Giving
      <3>. QED  BY <1>0, <3>1
    <2>5. TwoInputGraph \in Seq(Giving(OneMuxer))
      BY <2>1, <2>4
    <2>. QED  BY <2>3, <2>5, CallTypes DEF Names
  <1>5. M \subseteq MixerCall /\ M \subseteq Calls(Giving(OneMuxer)) /\ M \subseteq Calls(Steps)
    BY <1>0 DEF Calls
  <1>. HIDE DEF F, M, I, g, o, d, h, r, w
  <1>6. TwoInputText(rounds) = ((I \o << g, o, d, h >>) \o << r >>) \o << w >>
    BY DEF TwoInputText, I, g, o, d, h, r, w
  <1>7. /\ ((I \o << g, o, d, h >>) \o << r >>) \o << w >> = (I \o << g >>) \o << o, d, h, r, w >>
        /\ ((I \o << g, o, d, h >>) \o << r >>) \o << w >> = (I \o << g, o, d, h, r >>) \o << w >>
    <2>. DEFINE C == Calls(Steps)
    <2>1. g \in C /\ o \in C /\ d \in C /\ h \in C /\ r \in C /\ w \in C /\ I \in Seq(C)
      BY <1>2, <1>3, <1>4, <1>5 DEF GraphCall
    <2>. HIDE DEF C
    <2>2. (I \o << g, o, d, h >>) \o << r >> = I \o << g, o, d, h, r >>
      BY <2>1
    <2>3. (I \o << g, o, d, h, r >>) \o << w >> = I \o << g, o, d, h, r, w >>
      BY <2>1
    <2>4. (I \o << g >>) \o << o, d, h, r, w >> = I \o << g, o, d, h, r, w >>
      BY <2>1
    <2>. QED  BY <2>2, <2>3, <2>4
  <1>8. InTurn((I \o << g >>) \o << o, d, h, r, w >>, Len(I), 1)
    <2>1. I \in Seq(MixerCall) /\ << o, d, h, r, w >> \in Seq(MixerCall)
      BY <1>2, <1>3, <1>5
    <2>2. << g >> \in Seq(Calls(Steps)) /\ Len(<< g >>) = 1 /\ << g >>[1] = g
      BY <1>4 DEF GraphCall
    <2>3. 1 <= Tracks
      BY TrackType
    <2>. DEFINE f == << g >>
    <2>4. \A k \in 1..Len(f) : f[k] \in GraphCall(k) /\ f[k].onerror # "cleanup"
      BY <1>4
    <2>5. f \in Seq(Calls(Steps)) /\ Len(f) = 1
      BY <2>2
    <2>. HIDE DEF f
    <2>6. InTurn((I \o f) \o << o, d, h, r, w >>, Len(I), Len(f))
      BY <2>1, <2>3, <2>4, <2>5, InTurnForm
    <2>. QED  BY <2>5, <2>6 DEF f
  <1>9. \E a, n \in Nat : InTurn(TwoInputText(rounds), a, n)
    <2>1. Len(I) \in Nat
      BY <1>2
    <2>. QED  BY <1>6, <1>7, <1>8, <2>1
  <1>10. \E t \in Nat : FileForm(TwoInputText(rounds), t)
    <2>. DEFINE C == Calls(Giving(OneMuxer))
                q == I \o << g, o, d, h, r >>
    <2>1. /\ q \in Seq(C) /\ w \in C
          /\ ((I \o << g, o, d, h >>) \o << r >>) \o << w >> = q \o << w >>
      <3>1. g \in C /\ o \in C /\ d \in C /\ h \in C /\ r \in C /\ w \in C /\ I \in Seq(C)
        BY <1>2, <1>3, <1>4, <1>5
      <3>2. << g, o, d, h, r >> \in Seq(C)
        BY <3>1
      <3>. HIDE DEF C
      <3>3. q \in Seq(C)
        BY <3>1, <3>2, Joined
      <3>. QED  BY <1>7, <3>1, <3>3
    <2>. HIDE DEF q, C
    <2>2. /\ q \o << w >> \in Seq(C) /\ Len(q \o << w >>) = Len(q) + 1 /\ Len(q) \in Nat
          /\ (q \o << w >>)[Len(q) + 1] = w
      BY <2>1
    <2>3. /\ w.name = "write_output_file_trailer" /\ ~w.again /\ w.body = WriteTrailer(1)
      BY DEF w, Call
    <2>4. /\ WriteTrailer(1) # << >> /\ Len(WriteTrailer(1)) = 2
          /\ WriteTrailer(1)[2] = Release({Muxer(1)})
          /\ \A m \in 1..2 : WriteTrailer(1)[m].failure # "break"
      <3>1. \A cs : Release(cs).failure = "never"
        BY DEF Release, Sure
      <3>2. \A u, v, x : Try(u, v, x).failure = "returned"
        BY DEF Try, Sure
      <3>. QED  BY <3>1, <3>2 DEF WriteTrailer
    <2>5. FileForm(q \o << w >>, Len(q) + 1)
      BY <2>2, <2>3, <2>4 DEF FileForm, C
    <2>6. TwoInputText(rounds) = q \o << w >>
      BY <1>6, <2>1
    <2>7. Len(q) + 1 \in Nat
      BY <2>2
    <2>. QED  BY <2>5, <2>6, <2>7
  <1>. QED  BY <1>9, <1>10

\* The rounds of amix and its copy, whatever is decoded.
LEMMA TwoInputRoundsType ==
    ASSUME NEW d \in [1..2 -> Seq(Firm(OneMuxer))]
    PROVE  ((FlattenSeq([i \in 1..2 |->
                d[i] \o << Maybe(Try({Src(1, i), Frame}, {}, {})), Release({Frame}) >>])
             \o << Unchecked({}, {Frame}), PullSink(1) >>)
            \o encode_audio_frame(1)) \o << Release({Frame}) >>
               \in Seq(Firm(OneMuxer))
  <1>. DEFINE F == Firm(OneMuxer)
              Read(i) == d[i] \o << Maybe(Try({Src(1, i), Frame}, {}, {})), Release({Frame}) >>
  <1>0. 2 \in Nat /\ 1..2 \subseteq Track /\ 1 \in Track
    BY TrackType
  <1>1. \A i \in 1..2 : Read(i) \in Seq(F)
    <2>. TAKE i \in 1..2
    <2>1. /\ d[i] \in Seq(F)
          /\ << Maybe(Try({Src(1, i), Frame}, {}, {})), Release({Frame}) >> \in Seq(F)
      BY <1>0, RoundTypes, OneMuxerHas
    <2>. HIDE DEF F
    <2>. QED  BY <2>1, Joined
  <1>2. /\ << Unchecked({}, {Frame}), PullSink(1) >> \in Seq(F)
        /\ << Release({Frame}) >> \in Seq(F) /\ encode_audio_frame(1) \in Seq(F)
    BY <1>0, RoundTypes, OneMuxerHas
  <1>. HIDE DEF F, Read
  <1>3. FlattenSeq([i \in 1..2 |-> Read(i)]) \in Seq(F)
    BY <1>0, <1>1, JoinedSeqs
  <1>. QED  BY <1>2, <1>3, Joined DEF F, Read

LEMMA AmixForms ==
    ASSUME NEW code \in {main_amix, main_copy}
    PROVE  /\ \E a, n \in Nat : InTurn(code, a, n)
           /\ \E t \in Nat : FileForm(code, t)
  <1>. DEFINE d == [i \in 1..2 |-> CheckedFrame \o decode_audio_frame_amix(i)]
              e == [i \in 1..2 |-> init_input_frame \o decode_audio_frame_copy(i)]
              rounds(x) ==
                  ((FlattenSeq([i \in 1..2 |->
                      x[i] \o << Maybe(Try({Src(1, i), Frame}, {}, {})), Release({Frame}) >>])
                    \o << Unchecked({}, {Frame}), PullSink(1) >>)
                   \o encode_audio_frame(1)) \o << Release({Frame}) >>
  <1>1. d \in [1..2 -> Seq(Firm(OneMuxer))] /\ e \in [1..2 -> Seq(Firm(OneMuxer))]
    <2>1. ASSUME NEW i \in 1..2
          PROVE  /\ CheckedFrame \o decode_audio_frame_amix(i) \in Seq(Firm(OneMuxer))
                 /\ init_input_frame \o decode_audio_frame_copy(i) \in Seq(Firm(OneMuxer))
      <3>1. i \in Track
        BY TrackType
      <3>. QED  BY <3>1, RoundTypes, OneMuxerHas, Joined
                DEF decode_audio_frame_amix, decode_audio_frame_copy
    <2>. QED  BY <2>1
  <1>2. rounds(d) \in Seq(Firm(OneMuxer)) /\ rounds(e) \in Seq(Firm(OneMuxer))
    <2>. HIDE DEF d, e
    <2>. QED  BY <1>1, TwoInputRoundsType
  <1>3. main_amix = TwoInputText(rounds(d))
    BY DEF main_amix, TwoInputText, TwoInputs, OpenInputs, ForEach, open_input_file_amix,
           init_filter_graph_amix, open_output_file_amix, write_output_file_header_amix,
           process_all_amix, encode_audio_frame_amix, write_output_file_trailer_amix
  <1>4. main_copy = TwoInputText(rounds(e))
    BY DEF main_copy, TwoInputText, TwoInputs, OpenInputs, ForEach, open_input_file_copy,
           init_filter_graph_copy, open_output_file_copy, write_output_file_header_copy,
           process_all_copy, encode_audio_frame_copy, write_output_file_trailer_copy
  <1>. HIDE DEF rounds, d, e
  <1>. QED  BY <1>2, <1>3, <1>4, TwoInputTextForms

PlainIn(G) == {c \in Calls(Quiet(G)) : c.name # "init_filter_graph"}

\* The steps of a label end, and what is certainly null after one of them.
EndStep == {s \in Quiet({}) : s.failure = "never" /\ s.needs = {} /\ ~s.skipped}
Cleared(s) == {c \in s.frees : s.only \subseteq {c}}

\* A program that ends with a label end, which releases all that the program
\* is given and owns, but for kept.
EndForm(code, G, kept) ==
    /\ G \in SUBSET Contexts /\ code \in Seq(Calls(Giving(G))) /\ Len(code) > 0
    /\ code[Len(code)].name = "end" /\ ~code[Len(code)].again
    /\ code[Len(code)].body \in Seq(EndStep)
    /\ \A c \in G : Owned(c) =>
         \/ c \in kept
         \/ \E m \in 1..Len(code[Len(code)].body) : c \in Cleared(code[Len(code)].body[m])

LEMMA PlainTypes ==
    ASSUME NEW G \in SUBSET Contexts
    PROVE  \A b \in Seq(Quiet(G)) : \A nm \in Names :
             \A e \in {"exit", "ignore", "cleanup"} : nm # "init_filter_graph" =>
               Call(nm, b, e) \in PlainIn(G) /\ Loop(nm, b, e) \in PlainIn(G)
  BY CallTypes DEF PlainIn

\* As StepTypes, for steps that may end a loop.
LEMMA QuietTypes ==
    ASSUME NEW G \in SUBSET Contexts
    PROVE
    /\ \A u \in SUBSET Contexts : \A g \in SUBSET G : Sure(u, g) \in Quiet(G)
    /\ \A u, d \in SUBSET Contexts : \A g \in SUBSET G : Try(u, g, d) \in Quiet(G)
    /\ \A u \in SUBSET Contexts : \A g \in SUBSET G : Unchecked(u, g) \in Quiet(G)
    /\ \A u \in SUBSET Contexts : \A g \in SUBSET G : TryOrBreak(u, g) \in Quiet(G)
    /\ \A cs \in SUBSET Contexts : Release(cs) \in Quiet(G) /\ Require(cs) \in Quiet(G)
    /\ \A f \in SUBSET Contexts : \A t \in SUBSET G : Move(f, t) \in Quiet(G)
    /\ \A s \in Quiet(G) : Maybe(s) \in Quiet(G)
    /\ \A c \in Contexts : \A s \in Quiet(G) : If(c, s) \in Quiet(G)
    /\ \A s \in Seq(Firm(G)) : s \in Seq(Quiet(G))
  <1>1. Firm(G) \subseteq Quiet(G)
    BY DEF Firm
  <1>2. \A s \in Seq(Firm(G)) : s \in Seq(Quiet(G))
    BY <1>1
  <1>3. /\ \A s \in Quiet(G) : Maybe(s) \in Quiet(G)
        /\ \A c \in Contexts : \A s \in Quiet(G) : If(c, s) \in Quiet(G)
    BY StepTypes
  <1>. QED  BY <1>1, <1>2, <1>3, StepTypes

LEMMA EndTypes ==
    /\ \A cs \in SUBSET Contexts : Release(cs) \in EndStep
    /\ \A u \in SUBSET Contexts : Sure(u, {}) \in EndStep
    /\ \A s \in EndStep : \A c \in Contexts : If(c, s) \in EndStep
    /\ \A cs \in SUBSET Contexts : Cleared(Release(cs)) = cs
    /\ \A cs \in SUBSET Contexts : \A c \in cs : c \in Cleared(If(c, Release(cs)))
  <1>1. \A cs \in SUBSET Contexts : Release(cs) \in Quiet({})
    BY QuietTypes
  <1>2. \A u \in SUBSET Contexts : Sure(u, {}) \in Quiet({})
    BY QuietTypes
  <1>3. \A s \in EndStep : \A c \in Contexts : If(c, s) \in EndStep
    BY DEF EndStep, Quiet, Steps, If
  <1>4. \A cs : /\ Release(cs).gives = {} /\ Release(cs).failure = "never"
                /\ Release(cs).needs = {} /\ ~Release(cs).skipped /\ Release(cs).frees = cs
                /\ Release(cs).only = {}
    BY DEF Release, Sure
  <1>5. \A u : /\ Sure(u, {}).gives = {} /\ Sure(u, {}).failure = "never"
               /\ Sure(u, {}).needs = {} /\ ~Sure(u, {}).skipped
    BY DEF Sure
  <1>6. \A cs \in SUBSET Contexts : \A c \in cs :
          If(c, Release(cs)).frees = cs /\ If(c, Release(cs)).only = {c}
    BY DEF If, Release, Sure
  <1>. QED  BY <1>1, <1>2, <1>3, <1>4, <1>5, <1>6 DEF EndStep, Cleared

\* What is left to show of an example: its calls, and its label end.
LEMMA ExampleInTurn ==
    ASSUME NEW G \in SUBSET Contexts, NEW code \in Seq(PlainIn(G))
    PROVE  /\ \E a, n \in Nat : InTurn(code, a, n)
           /\ code \in Seq(Calls(Giving(G)))
           /\ G \subseteq OneMuxer => code \in Seq(Calls(Giving(OneMuxer)))
  <1>1. /\ PlainIn(G) \subseteq PlainCall /\ PlainIn(G) \subseteq Calls(Steps)
        /\ PlainIn(G) \subseteq Calls(Giving(G))
        /\ G \subseteq OneMuxer => PlainIn(G) \subseteq Calls(Giving(OneMuxer))
    <2>1. /\ Quiet(G) \subseteq Quiet(Contexts) /\ Quiet(G) \subseteq Steps
          /\ Quiet(G) \subseteq Giving(G)
          /\ G \subseteq OneMuxer => Quiet(G) \subseteq Giving(OneMuxer)
      BY DEF Quiet, Giving
    <2>2. ASSUME NEW S, NEW T, S \subseteq T PROVE Calls(S) \subseteq Calls(T)
      BY <2>2 DEF Calls
    <2>3. /\ Calls(Quiet(G)) \subseteq Calls(Quiet(Contexts))
          /\ Calls(Quiet(G)) \subseteq Calls(Steps)
          /\ Calls(Quiet(G)) \subseteq Calls(Giving(G))
          /\ G \subseteq OneMuxer => Calls(Quiet(G)) \subseteq Calls(Giving(OneMuxer))
      BY <2>1, <2>2
    <2>. QED  BY <2>3 DEF PlainIn, PlainCall
  <1>2. code \in Seq(Calls(Steps)) /\ code \in Seq(Calls(Giving(G)))
    BY <1>1
  <1>3. G \subseteq OneMuxer => code \in Seq(Calls(Giving(OneMuxer)))
    BY <1>1
  <1>4. InTurn(code, 0, 0)
    <2>1. \A i \in 1..Len(code) : code[i] \in PlainCall /\ i \notin (0 + 1)..(0 + 0)
      BY <1>1
    <2>2. 0 + 0 <= Len(code) /\ 0 \in 0..Tracks
      BY <1>2, TrackType
    <2>. QED  BY <1>2, <2>1, <2>2 DEF InTurn
  <1>. QED  BY <1>2, <1>3, <1>4

\* A label end gives nothing.
LEMMA EndGivesNothing ==
    ASSUME NEW b \in Seq(EndStep), NEW G \in SUBSET Contexts, NEW e \in {"exit", "cleanup"}
    PROVE  /\ Call("end", b, e) \in PlainIn(G)
           /\ Call("end", b, e) \in Calls(Giving(NoMuxer))
           /\ Call("end", b, e).name = "end" /\ ~Call("end", b, e).again
           /\ Call("end", b, e).body = b
  <1>1. EndStep \subseteq Quiet(G) /\ EndStep \subseteq Giving(NoMuxer)
    BY DEF EndStep, Quiet, Giving
  <1>2. b \in Seq(Quiet(G)) /\ b \in Seq(Giving(NoMuxer))
    BY <1>1
  <1>3. Call("end", b, e) \in PlainIn(G)
    BY <1>2, PlainTypes DEF Names
  <1>4. Call("end", b, e) \in Calls(Giving(NoMuxer))
    BY <1>2 DEF Call, Calls, Names
  <1>. QED  BY <1>3, <1>4 DEF Call

\* The call that writes the trailer, whether or not its result is looked at.
LEMMA TrailerCall ==
    ASSUME NEW e \in {"exit", "ignore", "cleanup"},
           NEW b \in {WriteTrailer(1),
                      << Unchecked({Out(1), Muxer(1)}, {}), Release({Muxer(1)}) >>}
    PROVE  LET w == Call("write_output_file_trailer", b, e)
           IN  /\ w.name = "write_output_file_trailer" /\ ~w.again
               /\ w.body # << >> /\ \A m \in 1..Len(w.body) : w.body[m].failure # "break"
               /\ w.body[Len(w.body)] = Release({Muxer(1)})
  <1>1. \A cs : Release(cs).failure = "never"
    BY DEF Release, Sure
  <1>2. \A u, v, x : Try(u, v, x).failure = "returned" /\ Unchecked(u, v).failure = "unnoticed"
    BY DEF Try, Unchecked, Sure
  <1>3. Len(b) = 2 /\ b[2] = Release({Muxer(1)}) /\ b[1].failure # "break" /\ b # << >>
    BY <1>2 DEF WriteTrailer
  <1>4. Call("write_output_file_trailer", b, e).body = b
    BY DEF Call
  <1>. HIDE DEF WriteTrailer
  <1>5. \A m \in 1..2 : b[m].failure # "break"
    <2>1. \A m \in 1..2 : m = 1 \/ m = 2
      OBVIOUS
    <2>. QED  BY <1>1, <1>3, <2>1
  <1>. QED  BY <1>3, <1>4, <1>5 DEF Call

LEMMA AacForms ==
    /\ \E a, n \in Nat : InTurn(main_aac, a, n)
    /\ \E G : EndForm(main_aac, G, KeptOpen("transcode_aac"))
  <1>. DEFINE G == {In(1), Dec(1), Out(1), Io(1), Enc(1), Muxer(1), Data(1), Data(2)}
  <1>0. /\ 1 \in Track /\ 1 \in 0..3 /\ 2 \in 0..3
        /\ In(1) \in G /\ Dec(1) \in G /\ Out(1) \in G /\ Io(1) \in G /\ Enc(1) \in G
        /\ Muxer(1) \in G /\ Data(1) \in G /\ Data(2) \in G
        /\ G \in SUBSET Contexts /\ G \subseteq OneMuxer
    BY TrackType, ContextTypes, OneMuxerHas
  <1>0a. In(1) \in Contexts /\ Dec(1) \in Contexts /\ Out(1) \in Contexts /\ Io(1) \in Contexts
         /\ Enc(1) \in Contexts /\ Muxer(1) \in Contexts /\ Data(1) \in Contexts /\ Data(2) \in Contexts
    BY <1>0
  <1>1. \A c \in G : Owned(c) => c \in {In(1), Out(1), Io(1), Data(1), Data(2)}
    BY DEF Owned, Whole, In, Out, Dec, Enc, Io, Muxer, Data
  <1>2. cleanup_aac \in Seq(EndStep) /\ Len(cleanup_aac) = 6
        /\ \A c \in {In(1), Out(1), Data(1), Data(2)} :
              \E m \in 1..6 : c \in Cleared(cleanup_aac[m])
    <2>1. cleanup_aac \in Seq(EndStep) /\ Len(cleanup_aac) = 6
      BY <1>0a, EndTypes DEF cleanup_aac
    <2>2. /\ Data(2) \in Cleared(cleanup_aac[1]) /\ Data(1) \in Cleared(cleanup_aac[2])
          /\ Out(1) \in Cleared(cleanup_aac[4]) /\ In(1) \in Cleared(cleanup_aac[6])
      BY <1>0a, EndTypes DEF cleanup_aac
    <2>. QED  BY <2>1, <2>2
  <1>. HIDE DEF G
  <1>3. /\ open_input_file_aac(1) \in Seq(Quiet(G)) /\ open_output_file_aac(1) \in Seq(Quiet(G))
        /\ write_output_file_header_aac(1) \in Seq(Quiet(G))
        /\ write_output_file_trailer_aac(1) \in Seq(Quiet(G))
    BY <1>0, <1>0a, InputTypes, OutputTypes, QuietTypes, Joined
       DEF open_input_file_aac, open_output_file_aac, write_output_file_header_aac,
           write_output_file_trailer_aac
  <1>4. /\ init_resampler \in Seq(Quiet(G)) /\ init_fifo \in Seq(Quiet(G))
        /\ transcode \in Seq(Quiet(G))
    BY <1>0, <1>0a, ContextTypes, QuietTypes DEF init_resampler, init_fifo, transcode
  <1>5. main_aac \in Seq(PlainIn(G)) /\ Len(main_aac) = 8
    <2>1. Call("end", cleanup_aac, "exit") \in PlainIn(G)
      BY <1>0, <1>2, EndGivesNothing
    <2>2. \A b \in Seq(Quiet(G)) : \A nm \in Names :
            nm # "init_filter_graph" => Call(nm, b, "cleanup") \in PlainIn(G)
      BY <1>0, PlainTypes
    <2>3. /\ Call("open_input_file", open_input_file_aac(1), "cleanup") \in PlainIn(G)
          /\ Call("open_output_file", open_output_file_aac(1), "cleanup") \in PlainIn(G)
          /\ Call("init_resampler", init_resampler, "cleanup") \in PlainIn(G)
          /\ Call("init_fifo", init_fifo, "cleanup") \in PlainIn(G)
          /\ Call("write_output_file_header", write_output_file_header_aac(1), "cleanup")
               \in PlainIn(G)
          /\ Call("transcode", transcode, "cleanup") \in PlainIn(G)
          /\ Call("write_output_file_trailer", write_output_file_trailer_aac(1), "cleanup")
               \in PlainIn(G)
      BY <1>3, <1>4, <2>2 DEF Names
    <2>. QED  BY <2>1, <2>3 DEF main_aac
  <1>6. main_aac[8] = Call("end", cleanup_aac, "exit")
    BY DEF main_aac
  <1>8. EndForm(main_aac, G, KeptOpen("transcode_aac"))
    <2>1. main_aac \in Seq(Calls(Giving(G))) /\ Len(main_aac) > 0
      BY <1>0, <1>5, ExampleInTurn
    <2>2. /\ main_aac[8].name = "end" /\ ~main_aac[8].again /\ main_aac[8].body = cleanup_aac
      BY <1>6 DEF Call
    <2>3. KeptOpen("transcode_aac") = {Io(1)}
      BY DEF KeptOpen
    <2>. QED  BY <1>0, <1>1, <1>2, <1>5, <2>1, <2>2, <2>3 DEF EndForm
  <1>. QED  BY <1>0, <1>5, <1>8, ExampleInTurn

\* RTP.
LEMMA RtpForms ==
    /\ \E a, n \in Nat : InTurn(streamFileByRTP, a, n)
    /\ FileForm(streamFileByRTP, 5)
  <1>. DEFINE G == {In(1), Out(1), Io(1), Enc(1), Muxer(1)}
  <1>0. /\ 1 \in Track /\ 2 \in Track /\ 1 \in 0..3 /\ 2 \in 0..3
        /\ In(1) \in G /\ Out(1) \in G /\ Io(1) \in G /\ Enc(1) \in G /\ Muxer(1) \in G
        /\ G \in SUBSET Contexts /\ G \subseteq OneMuxer
    BY TrackType, ContextTypes, OneMuxerHas
  <1>1. In(1) \in Contexts /\ Out(1) \in Contexts /\ Io(1) \in Contexts /\
        Enc(1) \in Contexts /\ Muxer(1) \in Contexts
    BY <1>0
  <1>3. << Release({In(1)}) >> \in Seq(EndStep) /\ Len(<< Release({In(1)}) >>) = 1
    BY <1>1, EndTypes
  <1>. HIDE DEF G
  <1>5. /\ << Try({}, {In(1)}, {In(1)}), Try({In(1)}, {}, {}) >> \in Seq(Quiet(G))
        /\ Create_outRTP_Context \in Seq(Quiet(G))
        /\ << Try({Out(1)}, {Muxer(1)}, {}) >> \in Seq(Quiet(G))
        /\ << TryOrBreak({In(1)}, {}), Maybe(Unchecked({Out(1), Muxer(1)}, {})) >> \in Seq(Quiet(G))
        /\ WriteTrailer(1) \in Seq(Quiet(G))
    <2>1. << Try({}, {In(1)}, {In(1)}), Try({In(1)}, {}, {}) >> \in Seq(Quiet(G))
      BY <1>0, <1>1, QuietTypes, Joined
    <2>2. Create_outRTP_Context \in Seq(Quiet(G))
      BY <1>0, <1>1, QuietTypes, Joined DEF Create_outRTP_Context
    <2>3. << Try({Out(1)}, {Muxer(1)}, {}) >> \in Seq(Quiet(G))
      BY <1>0, <1>1, QuietTypes, Joined
    <2>4. << TryOrBreak({In(1)}, {}), Maybe(Unchecked({Out(1), Muxer(1)}, {})) >> \in Seq(Quiet(G))
      BY <1>0, <1>1, QuietTypes, Joined
    <2>5. WriteTrailer(1) \in Seq(Quiet(G))
      BY <1>0, <1>1, InputTypes, OutputTypes, QuietTypes, Joined DEF WriteTrailer
    <2>. QED  BY <2>1, <2>2, <2>3, <2>4, <2>5
  <1>6. streamFileByRTP \in Seq(PlainIn(G)) /\ Len(streamFileByRTP) = 6
    <2>1. Call("end", << Release({In(1)}) >>, "exit") \in PlainIn(G)
      BY <1>0, <1>3, EndGivesNothing
    <2>2. \A b \in Seq(Quiet(G)) : \A nm \in Names : \A e \in {"exit", "ignore", "cleanup"} :
            nm # "init_filter_graph" => Call(nm, b, e) \in PlainIn(G) /\ Loop(nm, b, e) \in PlainIn(G)
      BY <1>0, PlainTypes
    <2>3. /\ Call("open", << Try({}, {In(1)}, {In(1)}), Try({In(1)}, {}, {}) >>, "exit") \in PlainIn(G)
          /\ Call("Create_outRTP_Context", Create_outRTP_Context, "exit") \in PlainIn(G)
          /\ Call("write_output_file_header", << Try({Out(1)}, {Muxer(1)}, {}) >>, "exit") \in PlainIn(G)
          /\ Loop("send", << TryOrBreak({In(1)}, {}), Maybe(Unchecked({Out(1), Muxer(1)}, {})) >>, "exit") \in PlainIn(G)
          /\ Call("write_output_file_trailer", WriteTrailer(1), "ignore") \in PlainIn(G)
      BY <1>5, <2>2 DEF Names
    <2>. QED  BY <2>1, <2>3 DEF streamFileByRTP
  <1>7. /\ streamFileByRTP[6] = Call("end", << Release({In(1)}) >>, "exit")
        /\ streamFileByRTP[5] = Call("write_output_file_trailer", WriteTrailer(1), "ignore")
    BY DEF streamFileByRTP
  <1>8. FileForm(streamFileByRTP, 5)
    <2>1. streamFileByRTP \in Seq(Calls(Giving(OneMuxer)))
      BY <1>0, <1>6, ExampleInTurn
    <2>2. streamFileByRTP[6] \in Calls(Giving(NoMuxer))
      BY <1>0, <1>3, <1>7, EndGivesNothing
    <2>3. /\ streamFileByRTP[5].name = "write_output_file_trailer"
          /\ ~streamFileByRTP[5].again /\ streamFileByRTP[5].body # << >>
          /\ \A m \in 1..Len(streamFileByRTP[5].body) :
               streamFileByRTP[5].body[m].failure # "break"
          /\ streamFileByRTP[5].body[Len(streamFileByRTP[5].body)] = Release({Muxer(1)})
      BY <1>7, TrailerCall
    <2>. QED  BY <1>6, <2>1, <2>2, <2>3 DEF FileForm
  <1>. QED  BY <1>0, <1>6, <1>8, ExampleInTurn

\* testRTPffmpeg.
LEMMA TestRtpForms ==
    /\ \E a, n \in Nat : InTurn(main_testRTP, a, n)
    /\ FileForm(main_testRTP, 4)
    /\ \E G : EndForm(main_testRTP, G, KeptOpen("testRTPffmpeg"))
  <1>. DEFINE G == {In(1), Dec(1), Out(1), Io(1), Muxer(1)}
  <1>0. /\ 1 \in Track /\ 2 \in Track /\ 1 \in 0..3 /\ 2 \in 0..3
        /\ In(1) \in G /\ Dec(1) \in G /\ Out(1) \in G /\ Io(1) \in G /\ Muxer(1) \in G
        /\ G \in SUBSET Contexts /\ G \subseteq OneMuxer
    BY TrackType, ContextTypes, OneMuxerHas
  <1>1. In(1) \in Contexts /\ Dec(1) \in Contexts /\ Out(1) \in Contexts /\ Io(1) \in Contexts /\
        Muxer(1) \in Contexts
    BY <1>0
  <1>2. \A c \in G : Owned(c) => c \in {In(1), Out(1), Io(1)}
    BY DEF Owned, Whole, In, Out, Dec, Enc, Io, Muxer, Data, Frame, Graph, Src, Sink
  <1>3. end_testRTP \in Seq(EndStep) /\ Len(end_testRTP) = 3
    BY <1>1, EndTypes DEF end_testRTP
  <1>4. /\ In(1) \in Cleared(end_testRTP[1])
        /\ Io(1) \in Cleared(end_testRTP[2])
        /\ Out(1) \in Cleared(end_testRTP[3])
    BY <1>1, EndTypes DEF end_testRTP
  <1>. HIDE DEF G
  <1>5. /\ << Try({}, {In(1)}, {In(1)}), Try({In(1)}, {}, {}), Maybe(Sure({In(1)}, {Dec(1)})) >> \in Seq(Quiet(G))
        /\ << Try({}, {Out(1)}, {}), Try({In(1), Out(1)}, {}, {}), Try({In(1), Out(1)}, {}, {}),
                   Maybe(Try({Out(1)}, {Io(1)}, {})), Try({Out(1)}, {Muxer(1)}, {}) >> \in Seq(Quiet(G))
        /\ send_testRTP \in Seq(Quiet(G))
        /\ << Unchecked({Out(1), Muxer(1)}, {}), Release({Muxer(1)}) >> \in Seq(Quiet(G))
    <2>1. << Try({}, {In(1)}, {In(1)}), Try({In(1)}, {}, {}), Maybe(Sure({In(1)}, {Dec(1)})) >> \in Seq(Quiet(G))
      BY <1>0, <1>1, QuietTypes, Joined
    <2>2. << Try({}, {Out(1)}, {}), Try({In(1), Out(1)}, {}, {}), Try({In(1), Out(1)}, {}, {}),
                   Maybe(Try({Out(1)}, {Io(1)}, {})), Try({Out(1)}, {Muxer(1)}, {}) >> \in Seq(Quiet(G))
      BY <1>0, <1>1, QuietTypes, Joined
    <2>3. send_testRTP \in Seq(Quiet(G))
      BY <1>0, <1>1, QuietTypes, Joined DEF send_testRTP
    <2>4. << Unchecked({Out(1), Muxer(1)}, {}), Release({Muxer(1)}) >> \in Seq(Quiet(G))
      BY <1>0, <1>1, QuietTypes, Joined
    <2>. QED  BY <2>1, <2>2, <2>3, <2>4
  <1>6. main_testRTP \in Seq(PlainIn(G)) /\ Len(main_testRTP) = 5
    <2>1. Call("end", end_testRTP, "exit") \in PlainIn(G)
      BY <1>0, <1>3, EndGivesNothing
    <2>2. \A b \in Seq(Quiet(G)) : \A nm \in Names : \A e \in {"exit", "ignore", "cleanup"} :
            nm # "init_filter_graph" => Call(nm, b, e) \in PlainIn(G) /\ Loop(nm, b, e) \in PlainIn(G)
      BY <1>0, PlainTypes
    <2>3. /\ Call("open", << Try({}, {In(1)}, {In(1)}), Try({In(1)}, {}, {}), Maybe(Sure({In(1)}, {Dec(1)})) >>, "cleanup") \in PlainIn(G)
          /\ Call("output", << Try({}, {Out(1)}, {}), Try({In(1), Out(1)}, {}, {}), Try({In(1), Out(1)}, {}, {}),
                   Maybe(Try({Out(1)}, {Io(1)}, {})), Try({Out(1)}, {Muxer(1)}, {}) >>, "cleanup") \in PlainIn(G)
          /\ Loop("send", send_testRTP, "cleanup") \in PlainIn(G)
          /\ Call("write_output_file_trailer", << Unchecked({Out(1), Muxer(1)}, {}), Release({Muxer(1)}) >>, "cleanup") \in PlainIn(G)
      BY <1>5, <2>2 DEF Names
    <2>. QED  BY <2>1, <2>3 DEF main_testRTP
  <1>7. /\ main_testRTP[5] = Call("end", end_testRTP, "exit")
        /\ main_testRTP[4] = Call("write_output_file_trailer", << Unchecked({Out(1), Muxer(1)}, {}), Release({Muxer(1)}) >>, "cleanup")
    BY DEF main_testRTP
  <1>8. FileForm(main_testRTP, 4)
    <2>1. main_testRTP \in Seq(Calls(Giving(OneMuxer)))
      BY <1>0, <1>6, ExampleInTurn
    <2>2. main_testRTP[5] \in Calls(Giving(NoMuxer))
      BY <1>0, <1>3, <1>7, EndGivesNothing
    <2>3. /\ main_testRTP[4].name = "write_output_file_trailer"
          /\ ~main_testRTP[4].again /\ main_testRTP[4].body # << >>
          /\ \A m \in 1..Len(main_testRTP[4].body) :
               main_testRTP[4].body[m].failure # "break"
          /\ main_testRTP[4].body[Len(main_testRTP[4].body)] = Release({Muxer(1)})
      BY <1>7, TrailerCall
    <2>. QED  BY <1>6, <2>1, <2>2, <2>3 DEF FileForm
  <1>9. EndForm(main_testRTP, G, KeptOpen("testRTPffmpeg"))
    <2>1. Len(main_testRTP) > 0
      BY <1>6
    <2>2. main_testRTP \in Seq(Calls(Giving(G)))
      BY <1>0, <1>6, ExampleInTurn
    <2>3. main_testRTP[5].name = "end" /\ ~main_testRTP[5].again /\ main_testRTP[5].body = end_testRTP
      BY <1>7 DEF Call
    <2>4. \A c \in G : Owned(c) =>
            c \in KeptOpen("testRTPffmpeg") \/ \E m \in 1..3 : c \in Cleared(end_testRTP[m])
      BY <1>2, <1>4 DEF KeptOpen
    <2>. QED  BY <1>0, <1>3, <1>6, <2>1, <2>2, <2>3, <2>4 DEF EndForm
  <1>. QED  BY <1>0, <1>6, <1>8, <1>9, ExampleInTurn

\* demuxing.
LEMMA DemuxingForms ==
    /\ \E a, n \in Nat : InTurn(main_demuxing, a, n)
    /\ \E G : EndForm(main_demuxing, G, KeptOpen("demuxing"))
  <1>. DEFINE G == {In(1), Dec(1), Data(1), Data(2), Io(1), Io(2), Frame}
  <1>0. /\ 1 \in Track /\ 2 \in Track /\ 1 \in 0..3 /\ 2 \in 0..3
        /\ In(1) \in G /\ Dec(1) \in G /\ Data(1) \in G /\ Data(2) \in G /\ Io(1) \in G /\
           Io(2) \in G /\ Frame \in G
        /\ G \in SUBSET Contexts
    BY TrackType, ContextTypes, OneMuxerHas
  <1>1. In(1) \in Contexts /\ Dec(1) \in Contexts /\ Data(1) \in Contexts /\
        Data(2) \in Contexts /\ Io(1) \in Contexts /\ Io(2) \in Contexts /\
        Frame \in Contexts
    BY <1>0
  <1>2. \A c \in G : Owned(c) => c \in {In(1), Data(1), Data(2), Io(1), Io(2), Frame}
    BY DEF Owned, Whole, In, Out, Dec, Enc, Io, Muxer, Data, Frame, Graph, Src, Sink
  <1>3. end_demuxing \in Seq(EndStep) /\ Len(end_demuxing) = 7
    BY <1>1, EndTypes DEF end_demuxing
  <1>4. /\ In(1) \in Cleared(end_demuxing[3])
        /\ Data(1) \in Cleared(end_demuxing[3])
        /\ Io(1) \in Cleared(end_demuxing[4])
        /\ Io(2) \in Cleared(end_demuxing[5])
        /\ Frame \in Cleared(end_demuxing[6])
        /\ Data(2) \in Cleared(end_demuxing[7])
    BY <1>1, EndTypes DEF end_demuxing
  <1>. HIDE DEF G
  <1>5. /\ << Try({}, {In(1)}, {In(1)}), Try({In(1)}, {}, {}) >> \in Seq(Quiet(G))
        /\ open_codec_context(Dec(1)) \in Seq(Quiet(G))
        /\ << If(Dec(1), Try({}, {Io(1)}, {})), If(Dec(1), Try({Dec(1)}, {Data(2)}, {})) >> \in Seq(Quiet(G))
        /\ open_codec_context(Data(1)) \in Seq(Quiet(G))
        /\ << If(Data(1), Try({}, {Io(2)}, {})), Sure({In(1)}, {}), Require({Dec(1), Data(1)}),
                   Try({}, {Frame}, {}) >> \in Seq(Quiet(G))
        /\ << TryOrBreak({In(1)}, {}) >> \o decode_packet \in Seq(Quiet(G))
        /\ decode_packet \in Seq(Quiet(G))
        /\ get_format_from_sample_fmt \in Seq(Quiet(G))
    <2>1. << Try({}, {In(1)}, {In(1)}), Try({In(1)}, {}, {}) >> \in Seq(Quiet(G))
      BY <1>0, <1>1, QuietTypes, Joined
    <2>2. open_codec_context(Dec(1)) \in Seq(Quiet(G))
      <3>1. [n \in 1..3 |-> Try({In(1)}, {}, {})] \in Seq(Quiet(G))
        <4>1. Try({In(1)}, {}, {}) \in Quiet(G)
          BY <1>0, <1>1, QuietTypes
        <4>. QED  BY <4>1, FunctionIsSeq
      <3>2. << Sure({In(1)}, {Dec(1)}) >> \in Seq(Quiet(G))
        BY <1>0, <1>1, QuietTypes
      <3>. QED  BY <3>1, <3>2, Joined DEF open_codec_context, open_codec_context_extract
    <2>3. << If(Dec(1), Try({}, {Io(1)}, {})), If(Dec(1), Try({Dec(1)}, {Data(2)}, {})) >> \in Seq(Quiet(G))
      BY <1>0, <1>1, QuietTypes, Joined
    <2>4. open_codec_context(Data(1)) \in Seq(Quiet(G))
      <3>1. [n \in 1..3 |-> Try({In(1)}, {}, {})] \in Seq(Quiet(G))
        <4>1. Try({In(1)}, {}, {}) \in Quiet(G)
          BY <1>0, <1>1, QuietTypes
        <4>. QED  BY <4>1, FunctionIsSeq
      <3>2. << Sure({In(1)}, {Data(1)}) >> \in Seq(Quiet(G))
        BY <1>0, <1>1, QuietTypes
      <3>. QED  BY <3>1, <3>2, Joined DEF open_codec_context, open_codec_context_extract
    <2>5. << If(Data(1), Try({}, {Io(2)}, {})), Sure({In(1)}, {}), Require({Dec(1), Data(1)}),
                   Try({}, {Frame}, {}) >> \in Seq(Quiet(G))
      BY <1>0, <1>1, QuietTypes, Joined
    <2>6. << TryOrBreak({In(1)}, {}) >> \o decode_packet \in Seq(Quiet(G))
      BY <1>0, <1>1, QuietTypes, Joined DEF decode_packet
    <2>7. decode_packet \in Seq(Quiet(G))
      BY <1>0, <1>1, QuietTypes, Joined DEF decode_packet
    <2>8. get_format_from_sample_fmt \in Seq(Quiet(G))
      BY <1>0, <1>1, QuietTypes, Joined DEF get_format_from_sample_fmt
    <2>. QED  BY <2>1, <2>2, <2>3, <2>4, <2>5, <2>6, <2>7, <2>8
  <1>6. main_demuxing \in Seq(PlainIn(G)) /\ Len(main_demuxing) = 9
    <2>1. Call("end", end_demuxing, "exit") \in PlainIn(G)
      BY <1>0, <1>3, EndGivesNothing
    <2>2. \A b \in Seq(Quiet(G)) : \A nm \in Names : \A e \in {"exit", "ignore", "cleanup"} :
            nm # "init_filter_graph" => Call(nm, b, e) \in PlainIn(G) /\ Loop(nm, b, e) \in PlainIn(G)
      BY <1>0, PlainTypes
    <2>3. /\ Call("open", << Try({}, {In(1)}, {In(1)}), Try({In(1)}, {}, {}) >>, "exit") \in PlainIn(G)
          /\ Call("open_codec_context", open_codec_context(Dec(1)), "ignore") \in PlainIn(G)
          /\ Call("video_dst", << If(Dec(1), Try({}, {Io(1)}, {})), If(Dec(1), Try({Dec(1)}, {Data(2)}, {})) >>, "cleanup") \in PlainIn(G)
          /\ Call("open_codec_context", open_codec_context(Data(1)), "ignore") \in PlainIn(G)
          /\ Call("audio_dst", << If(Data(1), Try({}, {Io(2)}, {})), Sure({In(1)}, {}), Require({Dec(1), Data(1)}),
                   Try({}, {Frame}, {}) >>, "cleanup") \in PlainIn(G)
          /\ Loop("read", << TryOrBreak({In(1)}, {}) >> \o decode_packet, "cleanup") \in PlainIn(G)
          /\ Loop("flush", decode_packet, "cleanup") \in PlainIn(G)
          /\ Call("get_format", get_format_from_sample_fmt, "cleanup") \in PlainIn(G)
      BY <1>5, <2>2 DEF Names
    <2>. QED  BY <2>1, <2>3 DEF main_demuxing
  <1>7. main_demuxing[9] = Call("end", end_demuxing, "exit")
    BY DEF main_demuxing
  <1>9. EndForm(main_demuxing, G, KeptOpen("demuxing"))
    <2>1. Len(main_demuxing) > 0
      BY <1>6
    <2>2. main_demuxing \in Seq(Calls(Giving(G)))
      BY <1>0, <1>6, ExampleInTurn
    <2>3. main_demuxing[9].name = "end" /\ ~main_demuxing[9].again /\ main_demuxing[9].body = end_demuxing
      BY <1>7 DEF Call
    <2>4. \A c \in G : Owned(c) =>
            c \in KeptOpen("demuxing") \/ \E m \in 1..7 : c \in Cleared(end_demuxing[m])
      BY <1>2, <1>4 DEF KeptOpen
    <2>. QED  BY <1>0, <1>3, <1>6, <2>1, <2>2, <2>3, <2>4 DEF EndForm
  <1>. QED  BY <1>0, <1>6, <1>9, ExampleInTurn

\* extract.
LEMMA ExtractForms ==
    /\ \E a, n \in Nat : InTurn(main_extract, a, n)
    /\ \E G : EndForm(main_extract, G, KeptOpen("extract"))
  <1>. DEFINE G == {In(1), Dec(1), Frame}
  <1>0. /\ 1 \in Track /\ 2 \in Track /\ 1 \in 0..3 /\ 2 \in 0..3
        /\ In(1) \in G /\ Dec(1) \in G /\ Frame \in G
        /\ G \in SUBSET Contexts
    BY TrackType, ContextTypes, OneMuxerHas
  <1>1. In(1) \in Contexts /\ Dec(1) \in Contexts /\ Frame \in Contexts
    BY <1>0
  <1>2. \A c \in G : Owned(c) => c \in {In(1), Frame}
    BY DEF Owned, Whole, In, Out, Dec, Enc, Io, Muxer, Data, Frame, Graph, Src, Sink
  <1>3. << If(Dec(1), Sure({Dec(1)}, {})), Release({In(1)}), Release({Frame}) >> \in Seq(EndStep) /\ Len(<< If(Dec(1), Sure({Dec(1)}, {})), Release({In(1)}), Release({Frame}) >>) = 3
    BY <1>1, EndTypes
  <1>4. /\ In(1) \in Cleared(<< If(Dec(1), Sure({Dec(1)}, {})), Release({In(1)}), Release({Frame}) >>[2])
        /\ Frame \in Cleared(<< If(Dec(1), Sure({Dec(1)}, {})), Release({In(1)}), Release({Frame}) >>[3])
    BY <1>1, EndTypes
  <1>. HIDE DEF G
  <1>5. /\ << Try({}, {In(1)}, {In(1)}), Try({In(1)}, {}, {}) >> \in Seq(Quiet(G))
        /\ open_codec_context_extract \in Seq(Quiet(G))
        /\ << Sure({In(1)}, {}), Require({Dec(1)}), Try({}, {Frame}, {}) >> \in Seq(Quiet(G))
        /\ << TryOrBreak({In(1)}, {}) >> \o decode_packet_extract \in Seq(Quiet(G))
        /\ decode_packet_extract \in Seq(Quiet(G))
    <2>1. << Try({}, {In(1)}, {In(1)}), Try({In(1)}, {}, {}) >> \in Seq(Quiet(G))
      BY <1>0, <1>1, QuietTypes, Joined
    <2>2. open_codec_context_extract \in Seq(Quiet(G))
      <3>1. [n \in 1..3 |-> Try({In(1)}, {}, {})] \in Seq(Quiet(G))
        <4>1. Try({In(1)}, {}, {}) \in Quiet(G)
          BY <1>0, <1>1, QuietTypes
        <4>. QED  BY <4>1, FunctionIsSeq
      <3>2. << Sure({In(1)}, {Dec(1)}) >> \in Seq(Quiet(G))
        BY <1>0, <1>1, QuietTypes
      <3>. QED  BY <3>1, <3>2, Joined DEF open_codec_context, open_codec_context_extract
    <2>3. << Sure({In(1)}, {}), Require({Dec(1)}), Try({}, {Frame}, {}) >> \in Seq(Quiet(G))
      BY <1>0, <1>1, QuietTypes, Joined
    <2>4. << TryOrBreak({In(1)}, {}) >> \o decode_packet_extract \in Seq(Quiet(G))
      BY <1>0, <1>1, QuietTypes, Joined DEF decode_packet_extract
    <2>5. decode_packet_extract \in Seq(Quiet(G))
      BY <1>0, <1>1, QuietTypes, Joined DEF decode_packet_extract
    <2>. QED  BY <2>1, <2>2, <2>3, <2>4, <2>5
  <1>6. main_extract \in Seq(PlainIn(G)) /\ Len(main_extract) = 6
    <2>1. Call("end", << If(Dec(1), Sure({Dec(1)}, {})), Release({In(1)}), Release({Frame}) >>, "exit") \in PlainIn(G)
      BY <1>0, <1>3, EndGivesNothing
    <2>2. \A b \in Seq(Quiet(G)) : \A nm \in Names : \A e \in {"exit", "ignore", "cleanup"} :
            nm # "init_filter_graph" => Call(nm, b, e) \in PlainIn(G) /\ Loop(nm, b, e) \in PlainIn(G)
      BY <1>0, PlainTypes
    <2>3. /\ Call("open", << Try({}, {In(1)}, {In(1)}), Try({In(1)}, {}, {}) >>, "exit") \in PlainIn(G)
          /\ Call("open_codec_context", open_codec_context_extract, "ignore") \in PlainIn(G)
          /\ Call("frame", << Sure({In(1)}, {}), Require({Dec(1)}), Try({}, {Frame}, {}) >>, "cleanup") \in PlainIn(G)
          /\ Loop("read", << TryOrBreak({In(1)}, {}) >> \o decode_packet_extract, "cleanup") \in PlainIn(G)
          /\ Loop("flush", decode_packet_extract, "cleanup") \in PlainIn(G)
      BY <1>5, <2>2 DEF Names
    <2>. QED  BY <2>1, <2>3 DEF main_extract
  <1>7. main_extract[6] = Call("end", << If(Dec(1), Sure({Dec(1)}, {})), Release({In(1)}), Release({Frame}) >>, "exit")
    BY DEF main_extract
  <1>9. EndForm(main_extract, G, KeptOpen("extract"))
    <2>1. Len(main_extract) > 0
      BY <1>6
    <2>2. main_extract \in Seq(Calls(Giving(G)))
      BY <1>0, <1>6, ExampleInTurn
    <2>3. main_extract[6].name = "end" /\ ~main_extract[6].again /\ main_extract[6].body = << If(Dec(1), Sure({Dec(1)}, {})), Release({In(1)}), Release({Frame}) >>
      BY <1>7 DEF Call
    <2>4. \A c \in G : Owned(c) =>
            c \in KeptOpen("extract") \/ \E m \in 1..3 : c \in Cleared(<< If(Dec(1), Sure({Dec(1)}, {})), Release({In(1)}), Release({Frame}) >>[m])
      BY <1>2, <1>4 DEF KeptOpen
    <2>. QED  BY <1>0, <1>3, <1>6, <2>1, <2>2, <2>3, <2>4 DEF EndForm
  <1>. QED  BY <1>0, <1>6, <1>9, ExampleInTurn

\* reading.
LEMMA ReadingForms ==
    /\ \E a, n \in Nat : InTurn(main_reading, a, n)
    /\ \E G : EndForm(main_reading, G, KeptOpen("reading"))
  <1>. DEFINE G == {Data(1), In(1), Data(2), Io(1)}
  <1>0. /\ 1 \in Track /\ 2 \in Track /\ 1 \in 0..3 /\ 2 \in 0..3
        /\ Data(1) \in G /\ In(1) \in G /\ Data(2) \in G /\ Io(1) \in G
        /\ G \in SUBSET Contexts
    BY TrackType, ContextTypes, OneMuxerHas
  <1>1. Data(1) \in Contexts /\ In(1) \in Contexts /\ Data(2) \in Contexts /\
        Io(1) \in Contexts
    BY <1>0
  <1>2. \A c \in G : Owned(c) => c \in {Data(1), In(1), Data(2), Io(1)}
    BY DEF Owned, Whole, In, Out, Dec, Enc, Io, Muxer, Data, Frame, Graph, Src, Sink
  <1>3. << Release({In(1)}), Release({Io(1)}), Release({Data(1)}) >> \in Seq(EndStep) /\ Len(<< Release({In(1)}), Release({Io(1)}), Release({Data(1)}) >>) = 3
    BY <1>1, EndTypes
  <1>4. /\ In(1) \in Cleared(<< Release({In(1)}), Release({Io(1)}), Release({Data(1)}) >>[1])
        /\ Io(1) \in Cleared(<< Release({In(1)}), Release({Io(1)}), Release({Data(1)}) >>[2])
        /\ Data(1) \in Cleared(<< Release({In(1)}), Release({Io(1)}), Release({Data(1)}) >>[3])
    BY <1>1, EndTypes
  <1>. HIDE DEF G
  <1>5. /\ << Try({}, {Data(1)}, {}), Try({}, {In(1)}, {}), Try({}, {Data(2)}, {}),
                  Try({Data(2)}, {}, {}), Move({Data(2)}, {Io(1)}),
                  Try({In(1), Io(1), Data(1)}, {}, {In(1)}),
                  Try({In(1), Io(1), Data(1)}, {}, {}), Sure({In(1)}, {}) >> \in Seq(Quiet(G))
    <2>1. << Try({}, {Data(1)}, {}), Try({}, {In(1)}, {}), Try({}, {Data(2)}, {}),
                  Try({Data(2)}, {}, {}), Move({Data(2)}, {Io(1)}),
                  Try({In(1), Io(1), Data(1)}, {}, {In(1)}),
                  Try({In(1), Io(1), Data(1)}, {}, {}), Sure({In(1)}, {}) >> \in Seq(Quiet(G))
      BY <1>0, <1>1, QuietTypes, Joined
    <2>. QED  BY <2>1
  <1>6. main_reading \in Seq(PlainIn(G)) /\ Len(main_reading) = 2
    <2>1. Call("end", << Release({In(1)}), Release({Io(1)}), Release({Data(1)}) >>, "exit") \in PlainIn(G)
      BY <1>0, <1>3, EndGivesNothing
    <2>2. \A b \in Seq(Quiet(G)) : \A nm \in Names : \A e \in {"exit", "ignore", "cleanup"} :
            nm # "init_filter_graph" => Call(nm, b, e) \in PlainIn(G) /\ Loop(nm, b, e) \in PlainIn(G)
      BY <1>0, PlainTypes
    <2>3. /\ Call("open", << Try({}, {Data(1)}, {}), Try({}, {In(1)}, {}), Try({}, {Data(2)}, {}),
                  Try({Data(2)}, {}, {}), Move({Data(2)}, {Io(1)}),
                  Try({In(1), Io(1), Data(1)}, {}, {In(1)}),
                  Try({In(1), Io(1), Data(1)}, {}, {}), Sure({In(1)}, {}) >>, "cleanup") \in PlainIn(G)
      BY <1>5, <2>2 DEF Names
    <2>. QED  BY <2>1, <2>3 DEF main_reading
  <1>7. main_reading[2] = Call("end", << Release({In(1)}), Release({Io(1)}), Release({Data(1)}) >>, "exit")
    BY DEF main_reading
  <1>9. EndForm(main_reading, G, KeptOpen("reading"))
    <2>1. Len(main_reading) > 0
      BY <1>6
    <2>2. main_reading \in Seq(Calls(Giving(G)))
      BY <1>0, <1>6, ExampleInTurn
    <2>3. main_reading[2].name = "end" /\ ~main_reading[2].again /\ main_reading[2].body = << Release({In(1)}), Release({Io(1)}), Release({Data(1)}) >>
      BY <1>7 DEF Call
    <2>4. \A c \in G : Owned(c) =>
            c \in KeptOpen("reading") \/ \E m \in 1..3 : c \in Cleared(<< Release({In(1)}), Release({Io(1)}), Release({Data(1)}) >>[m])
      BY <1>2, <1>4 DEF KeptOpen
    <2>. QED  BY <1>0, <1>3, <1>6, <2>1, <2>2, <2>3, <2>4 DEF EndForm
  <1>. QED  BY <1>0, <1>6, <1>9, ExampleInTurn

\* dec_enc.
LEMMA DecEncForms ==
    /\ \E a, n \in Nat : InTurn(audio_encode_example, a, n)
    /\ \E G : EndForm(audio_encode_example, G, KeptOpen("dec_enc"))
  <1>. DEFINE G == {Data(2), Io(1), Frame, Data(1)}
  <1>0. /\ 1 \in Track /\ 2 \in Track /\ 1 \in 0..3 /\ 2 \in 0..3
        /\ Data(2) \in G /\ Io(1) \in G /\ Frame \in G /\ Data(1) \in G
        /\ G \in SUBSET Contexts
    BY TrackType, ContextTypes, OneMuxerHas
  <1>1. Data(2) \in Contexts /\ Io(1) \in Contexts /\ Frame \in Contexts /\
        Data(1) \in Contexts
    BY <1>0
  <1>2. \A c \in G : Owned(c) => c \in {Data(2), Io(1), Frame, Data(1)}
    BY DEF Owned, Whole, In, Out, Dec, Enc, Io, Muxer, Data, Frame, Graph, Src, Sink
  <1>3. << Release({Io(1)}), Release({Data(1)}), Release({Frame}), Sure({Data(2)}, {}),
                  Release({Data(2)}) >> \in Seq(EndStep) /\ Len(<< Release({Io(1)}), Release({Data(1)}), Release({Frame}), Sure({Data(2)}, {}),
                  Release({Data(2)}) >>) = 5
    BY <1>1, EndTypes
  <1>4. /\ Io(1) \in Cleared(<< Release({Io(1)}), Release({Data(1)}), Release({Frame}), Sure({Data(2)}, {}),
                  Release({Data(2)}) >>[1])
        /\ Data(1) \in Cleared(<< Release({Io(1)}), Release({Data(1)}), Release({Frame}), Sure({Data(2)}, {}),
                  Release({Data(2)}) >>[2])
        /\ Frame \in Cleared(<< Release({Io(1)}), Release({Data(1)}), Release({Frame}), Sure({Data(2)}, {}),
                  Release({Data(2)}) >>[3])
        /\ Data(2) \in Cleared(<< Release({Io(1)}), Release({Data(1)}), Release({Frame}), Sure({Data(2)}, {}),
                  Release({Data(2)}) >>[5])
    BY <1>1, EndTypes
  <1>. HIDE DEF G
  <1>5. /\ << Try({}, {}, {}), Try({}, {Data(2)}, {}), Try({Data(2)}, {}, {}), Try({}, {Io(1)}, {}),
                  Try({}, {Frame}, {}), Try({Data(2)}, {}, {}), Try({}, {Data(1)}, {}),
                  Try({Data(2), Frame, Data(1)}, {}, {}) >> \in Seq(Quiet(G))
        /\ << Sure({Data(1)}, {}), Try({Data(2), Frame}, {}, {}), Maybe(Sure({Io(1)}, {})) >> \in Seq(Quiet(G))
        /\ << Try({Data(2)}, {}, {}), Maybe(Sure({Io(1)}, {})) >> \in Seq(Quiet(G))
    <2>1. << Try({}, {}, {}), Try({}, {Data(2)}, {}), Try({Data(2)}, {}, {}), Try({}, {Io(1)}, {}),
                  Try({}, {Frame}, {}), Try({Data(2)}, {}, {}), Try({}, {Data(1)}, {}),
                  Try({Data(2), Frame, Data(1)}, {}, {}) >> \in Seq(Quiet(G))
      BY <1>0, <1>1, QuietTypes, Joined
    <2>2. << Sure({Data(1)}, {}), Try({Data(2), Frame}, {}, {}), Maybe(Sure({Io(1)}, {})) >> \in Seq(Quiet(G))
      BY <1>0, <1>1, QuietTypes, Joined
    <2>3. << Try({Data(2)}, {}, {}), Maybe(Sure({Io(1)}, {})) >> \in Seq(Quiet(G))
      BY <1>0, <1>1, QuietTypes, Joined
    <2>. QED  BY <2>1, <2>2, <2>3
  <1>6. audio_encode_example \in Seq(PlainIn(G)) /\ Len(audio_encode_example) = 4
    <2>1. Call("end", << Release({Io(1)}), Release({Data(1)}), Release({Frame}), Sure({Data(2)}, {}),
                  Release({Data(2)}) >>, "exit") \in PlainIn(G)
      BY <1>0, <1>3, EndGivesNothing
    <2>2. \A b \in Seq(Quiet(G)) : \A nm \in Names : \A e \in {"exit", "ignore", "cleanup"} :
            nm # "init_filter_graph" => Call(nm, b, e) \in PlainIn(G) /\ Loop(nm, b, e) \in PlainIn(G)
      BY <1>0, PlainTypes
    <2>3. /\ Call("open", << Try({}, {}, {}), Try({}, {Data(2)}, {}), Try({Data(2)}, {}, {}), Try({}, {Io(1)}, {}),
                  Try({}, {Frame}, {}), Try({Data(2)}, {}, {}), Try({}, {Data(1)}, {}),
                  Try({Data(2), Frame, Data(1)}, {}, {}) >>, "exit") \in PlainIn(G)
          /\ Loop("encode", << Sure({Data(1)}, {}), Try({Data(2), Frame}, {}, {}), Maybe(Sure({Io(1)}, {})) >>, "exit") \in PlainIn(G)
          /\ Loop("flush", << Try({Data(2)}, {}, {}), Maybe(Sure({Io(1)}, {})) >>, "exit") \in PlainIn(G)
      BY <1>5, <2>2 DEF Names
    <2>. QED  BY <2>1, <2>3 DEF audio_encode_example
  <1>7. audio_encode_example[4] = Call("end", << Release({Io(1)}), Release({Data(1)}), Release({Frame}), Sure({Data(2)}, {}),
                  Release({Data(2)}) >>, "exit")
    BY DEF audio_encode_example
  <1>9. EndForm(audio_encode_example, G, KeptOpen("dec_enc"))
    <2>1. Len(audio_encode_example) > 0
      BY <1>6
    <2>2. audio_encode_example \in Seq(Calls(Giving(G)))
      BY <1>0, <1>6, ExampleInTurn
    <2>3. audio_encode_example[4].name = "end" /\ ~audio_encode_example[4].again /\ audio_encode_example[4].body = << Release({Io(1)}), Release({Data(1)}), Release({Frame}), Sure({Data(2)}, {}),
                  Release({Data(2)}) >>
      BY <1>7 DEF Call
    <2>4. \A c \in G : Owned(c) =>
            c \in KeptOpen("dec_enc") \/ \E m \in 1..5 : c \in Cleared(<< Release({Io(1)}), Release({Data(1)}), Release({Frame}), Sure({Data(2)}, {}),
                  Release({Data(2)}) >>[m])
      BY <1>2, <1>4 DEF KeptOpen
    <2>. QED  BY <1>0, <1>3, <1>6, <2>1, <2>2, <2>3, <2>4 DEF EndForm
  <1>. QED  BY <1>0, <1>6, <1>9, ExampleInTurn

\* trans_backup.
LEMMA BackupForms ==
    /\ \E a, n \in Nat : InTurn(main_backup, a, n)
    /\ FileForm(main_backup, 7)
    /\ \E G : EndForm(main_backup, G, KeptOpen("trans_backup"))
  <1>. DEFINE G == {In(1), Dec(1), Out(1), Enc(1), Io(1), Muxer(1), Data(1), Data(2), Graph(1),
                Src(1, 1), Sink(1), Frame}
  <1>0. /\ 1 \in Track /\ 2 \in Track /\ 1 \in 0..3 /\ 2 \in 0..3
        /\ In(1) \in G /\ Dec(1) \in G /\ Out(1) \in G /\ Enc(1) \in G /\ Io(1) \in G /\
           Muxer(1) \in G /\ Data(1) \in G /\ Data(2) \in G /\ Graph(1) \in G /\
           Src(1, 1) \in G /\ Sink(1) \in G /\ Frame \in G
        /\ G \in SUBSET Contexts /\ G \subseteq OneMuxer
    BY TrackType, ContextTypes, OneMuxerHas
  <1>1. In(1) \in Contexts /\ Dec(1) \in Contexts /\ Out(1) \in Contexts /\
        Enc(1) \in Contexts /\ Io(1) \in Contexts /\ Muxer(1) \in Contexts /\
        Data(1) \in Contexts /\ Data(2) \in Contexts /\ Graph(1) \in Contexts /\
        Src(1, 1) \in Contexts /\ Sink(1) \in Contexts /\ Frame \in Contexts
    BY <1>0
  <1>2. \A c \in G : Owned(c) => c \in {In(1), Out(1), Io(1), Data(1), Data(2), Graph(1), Frame}
    BY DEF Owned, Whole, In, Out, Dec, Enc, Io, Muxer, Data, Frame, Graph, Src, Sink
  <1>3. end_backup \in Seq(EndStep) /\ Len(end_backup) = 7
    <2>1. \A c \in Contexts : Release({c}) \in EndStep /\ Sure({c}, {}) \in EndStep
      BY EndTypes
    <2>. QED  BY <1>1, <2>1 DEF end_backup
  <1>4. /\ Frame \in Cleared(end_backup[1])
        /\ Graph(1) \in Cleared(end_backup[3])
        /\ Data(2) \in Cleared(end_backup[4])
        /\ In(1) \in Cleared(end_backup[5])
        /\ Io(1) \in Cleared(end_backup[6])
        /\ Out(1) \in Cleared(end_backup[7])
    <2>1. \A c \in Contexts : c \in Cleared(Release({c}))
      BY EndTypes
    <2>. QED  BY <1>1, <2>1 DEF end_backup
  <1>. HIDE DEF G
  <1>5. /\ open_input_file_backup \in Seq(Quiet(G))
        /\ open_output_file_backup \in Seq(Quiet(G))
        /\ << Try({In(1)}, {Data(2)}, {}) >> \in Seq(Quiet(G))
        /\ [n \in DOMAIN init_filter |-> If(Dec(1), init_filter[n])] \in Seq(Quiet(G))
        /\ ReadPackets \in Seq(Quiet(G))
        /\ (filter_encode_write_frame \o flush_encoder) \in Seq(Quiet(G))
        /\ << Unchecked({Out(1), Muxer(1)}, {}), Release({Muxer(1)}) >> \in Seq(Quiet(G))
    <2>1. open_input_file_backup \in Seq(Quiet(G))
      BY <1>0, <1>1, QuietTypes, Joined DEF open_input_file_backup
    <2>2. open_output_file_backup \in Seq(Quiet(G))
      BY <1>0, <1>1, QuietTypes, Joined DEF open_output_file_backup
    <2>3. << Try({In(1)}, {Data(2)}, {}) >> \in Seq(Quiet(G))
      BY <1>0, <1>1, QuietTypes, Joined
    <2>4. [n \in DOMAIN init_filter |-> If(Dec(1), init_filter[n])] \in Seq(Quiet(G))
      <3>1. init_filter \in Seq(Quiet(G))
        <4>1. << Try({}, {Data(1)}, {}), Try({}, {}, {}), Try({Dec(1), Data(1)}, {}, {}),
                 Try({Data(1)}, {}, {}) >> \in Seq(Quiet(G))
          BY <1>0, <1>1, QuietTypes
        <4>2. [n \in 1..3 |-> Try({Enc(1), Data(1)}, {}, {})] \in Seq(Quiet(G))
          <5>1. Try({Enc(1), Data(1)}, {}, {}) \in Quiet(G)
            BY <1>0, <1>1, QuietTypes
          <5>. QED  BY <5>1, FunctionIsSeq
        <4>3. << Try({Data(1)}, {}, {}), Try({Data(1)}, {}, {}),
                 Move({Data(1)}, {Graph(1), Src(1, 1), Sink(1)}) >> \in Seq(Quiet(G))
          BY <1>0, <1>1, QuietTypes
        <4>. QED  BY <4>1, <4>2, <4>3, Joined DEF init_filter
      <3>2. DOMAIN init_filter = 1..Len(init_filter) /\ Len(init_filter) \in Nat
        BY <3>1
      <3>3. \A n \in 1..Len(init_filter) : If(Dec(1), init_filter[n]) \in Quiet(G)
        BY <1>0, <1>1, <3>1, QuietTypes
      <3>. HIDE DEF init_filter
      <3>. QED  BY <3>2, <3>3, FunctionIsSeq
    <2>5. ReadPackets \in Seq(Quiet(G))
      <3>1. \A n \in 1..2 : encode_write_frame[n] \in Quiet(G)
        BY <1>0, <1>1, QuietTypes DEF encode_write_frame
      <3>2. \A n \in 1..2 : If(Graph(1), encode_write_frame[n]) \in Quiet(G)
        BY <1>0, <1>1, <3>1, QuietTypes
      <3>3. flush_encoder \in Seq(Quiet(G))
        BY <3>2, FunctionIsSeq DEF flush_encoder
      <3>4. filter_encode_write_frame \in Seq(Quiet(G))
        <4>1. << If(Graph(1), Maybe(Try({Data(2), Src(1, 1)}, {}, {}))),
                 If(Graph(1), Maybe(Try({Data(2), Sink(1)}, {}, {}))) >> \in Seq(Quiet(G))
          BY <1>0, <1>1, QuietTypes
        <4>. QED  BY <3>3, <4>1, Joined DEF filter_encode_write_frame, flush_encoder
      <3>5. << TryOrBreak({In(1)}, {}), If(Graph(1), TryOrBreak({}, {Frame})),
               If(Graph(1), TryOrBreak({In(1), Dec(1), Frame}, {})) >> \in Seq(Quiet(G))
        BY <1>0, <1>1, QuietTypes
      <3>6. << Release({Frame}), Maybe(Try({Out(1), Muxer(1)}, {}, {})) >> \in Seq(Quiet(G))
        BY <1>0, <1>1, QuietTypes
      <3>. QED  BY <3>4, <3>5, <3>6, Joined DEF ReadPackets
    <2>6. (filter_encode_write_frame \o flush_encoder) \in Seq(Quiet(G))
      <3>1. \A n \in 1..2 : encode_write_frame[n] \in Quiet(G)
        BY <1>0, <1>1, QuietTypes DEF encode_write_frame
      <3>2. \A n \in 1..2 : If(Graph(1), encode_write_frame[n]) \in Quiet(G)
        BY <1>0, <1>1, <3>1, QuietTypes
      <3>3. flush_encoder \in Seq(Quiet(G))
        BY <3>2, FunctionIsSeq DEF flush_encoder
      <3>4. filter_encode_write_frame \in Seq(Quiet(G))
        <4>1. << If(Graph(1), Maybe(Try({Data(2), Src(1, 1)}, {}, {}))),
                 If(Graph(1), Maybe(Try({Data(2), Sink(1)}, {}, {}))) >> \in Seq(Quiet(G))
          BY <1>0, <1>1, QuietTypes
        <4>. QED  BY <3>3, <4>1, Joined DEF filter_encode_write_frame, flush_encoder
      <3>. QED  BY <3>3, <3>4, Joined
    <2>7. << Unchecked({Out(1), Muxer(1)}, {}), Release({Muxer(1)}) >> \in Seq(Quiet(G))
      BY <1>0, <1>1, QuietTypes, Joined
    <2>. QED  BY <2>1, <2>2, <2>3, <2>4, <2>5, <2>6, <2>7
  <1>6. main_backup \in Seq(PlainIn(G)) /\ Len(main_backup) = 8
    <2>1. Call("end", end_backup, "exit") \in PlainIn(G)
      BY <1>0, <1>3, EndGivesNothing
    <2>2. \A b \in Seq(Quiet(G)) : \A nm \in Names : \A e \in {"exit", "ignore", "cleanup"} :
            nm # "init_filter_graph" => Call(nm, b, e) \in PlainIn(G) /\ Loop(nm, b, e) \in PlainIn(G)
      BY <1>0, PlainTypes
    <2>3. /\ Call("open_input_file", open_input_file_backup, "cleanup") \in PlainIn(G)
          /\ Call("open_output_file", open_output_file_backup, "cleanup") \in PlainIn(G)
          /\ Call("filter_ctx", << Try({In(1)}, {Data(2)}, {}) >>, "cleanup") \in PlainIn(G)
          /\ Call("init_filter", [n \in DOMAIN init_filter |-> If(Dec(1), init_filter[n])], "ignore") \in PlainIn(G)
          /\ Loop("read", ReadPackets, "cleanup") \in PlainIn(G)
          /\ Call("flush", filter_encode_write_frame \o flush_encoder, "cleanup") \in PlainIn(G)
          /\ Call("write_output_file_trailer", << Unchecked({Out(1), Muxer(1)}, {}), Release({Muxer(1)}) >>, "cleanup") \in PlainIn(G)
      BY <1>5, <2>2 DEF Names
    <2>. QED  BY <2>1, <2>3 DEF main_backup, init_filters
  <1>7. /\ main_backup[8] = Call("end", end_backup, "exit")
        /\ main_backup[7] = Call("write_output_file_trailer", << Unchecked({Out(1), Muxer(1)}, {}), Release({Muxer(1)}) >>, "cleanup")
    BY DEF main_backup, init_filters
  <1>8. FileForm(main_backup, 7)
    <2>1. main_backup \in Seq(Calls(Giving(OneMuxer)))
      BY <1>0, <1>6, ExampleInTurn
    <2>2. main_backup[8] \in Calls(Giving(NoMuxer))
      BY <1>0, <1>3, <1>7, EndGivesNothing
    <2>3. /\ main_backup[7].name = "write_output_file_trailer"
          /\ ~main_backup[7].again /\ main_backup[7].body # << >>
          /\ \A m \in 1..Len(main_backup[7].body) :
               main_backup[7].body[m].failure # "break"
          /\ main_backup[7].body[Len(main_backup[7].body)] = Release({Muxer(1)})
      BY <1>7, TrailerCall
    <2>. QED  BY <1>6, <2>1, <2>2, <2>3 DEF FileForm
  <1>9. EndForm(main_backup, G, KeptOpen("trans_backup"))
    <2>1. Len(main_backup) > 0
      BY <1>6
    <2>2. main_backup \in Seq(Calls(Giving(G)))
      BY <1>0, <1>6, ExampleInTurn
    <2>3. main_backup[8].name = "end" /\ ~main_backup[8].again /\ main_backup[8].body = end_backup
      BY <1>7 DEF Call
    <2>4. \A c \in G : Owned(c) =>
            c \in KeptOpen("trans_backup") \/ \E m \in 1..7 : c \in Cleared(end_backup[m])
      BY <1>2, <1>4 DEF KeptOpen
    <2>. QED  BY <1>0, <1>3, <1>6, <2>1, <2>2, <2>3, <2>4 DEF EndForm
  <1>. QED  BY <1>0, <1>6, <1>8, <1>9, ExampleInTurn

LEMMA CodeInTurn == \A p \in Program : \E a, n \in Nat : InTurn(Code[p], a, n)
  <1>. DEFINE Good(c) == \E a, n \in Nat : InTurn(c, a, n)
  <1>1. /\ Good(filter_audio) /\ Good(filter_audio_4broken) /\ Good(filter_audio_cdec)
    BY EachForm
  <1>2. Good(filter_audio_2sdp) /\ Good(filter_audio_11)
    BY OneGraphForm
  <1>3. Good(main_amix) /\ Good(main_copy)
    BY AmixForms
  <1>4. /\ Good(filter_audio_405) /\ Good(filter_audio_3103) /\ Good(filter_audio_test2)
        /\ Good(filter_audio_3n) /\ Good(main_inet)
    <2>. HIDE DEF Good
    <2>. QED  BY <1>1, <1>3, SameText
  <1>5. /\ Good(main_aac) /\ Good(main_backup) /\ Good(streamFileByRTP) /\ Good(main_testRTP)
        /\ Good(main_demuxing) /\ Good(main_extract) /\ Good(main_reading)
        /\ Good(audio_encode_example)
    BY AacForms, BackupForms, RtpForms, TestRtpForms, DemuxingForms, ExtractForms,
       ReadingForms, DecEncForms
  <1>. HIDE DEF Good
  <1>6. \A p \in Program : Good(Code[p])
    BY <1>1, <1>2, <1>3, <1>4, <1>5 DEF Program, Code
  <1>. QED  BY <1>6 DEF Good

LEMMA CodeFiles == \A p \in WritesTrailers : p \in Program /\ \E t \in Nat : FileForm(Code[p], t)
  <1>. DEFINE Good(c) == \E t \in Nat : FileForm(c, t)
  <1>1. Good(main_amix) /\ Good(main_copy)
    BY AmixForms
  <1>2. Good(main_inet)
    <2>. HIDE DEF Good
    <2>. QED  BY <1>1, SameText
  <1>3. /\ FileForm(main_backup, 7) /\ FileForm(streamFileByRTP, 5)
        /\ FileForm(main_testRTP, 4)
    BY BackupForms, RtpForms, TestRtpForms
  <1>4. Good(main_backup) /\ Good(streamFileByRTP) /\ Good(main_testRTP)
    <2>1. 7 \in Nat /\ 5 \in Nat /\ 4 \in Nat
      OBVIOUS
    <2>. QED  BY <1>3, <2>1
  <1>. HIDE DEF Good
  <1>5. \A p \in WritesTrailers : p \in Program /\ Good(Code[p])
    BY <1>1, <1>2, <1>4 DEF WritesTrailers, Program, Code
  <1>. QED  BY <1>5 DEF Good

LabelEnds == {"transcode_aac", "trans_backup", "testRTPffmpeg", "demuxing", "extract", "reading",
              "dec_enc"}

LEMMA CodeEnds ==
    \A p \in LabelEnds : p \in Program /\ \E G : EndForm(Code[p], G, KeptOpen(p))
  <1>. DEFINE Good(p) == \E G : EndForm(Code[p], G, KeptOpen(p))
  <1>1. /\ Code["transcode_aac"] = main_aac /\ Code["trans_backup"] = main_backup
        /\ Code["testRTPffmpeg"] = main_testRTP /\ Code["demuxing"] = main_demuxing
        /\ Code["extract"] = main_extract /\ Code["reading"] = main_reading
        /\ Code["dec_enc"] = audio_encode_example
        /\ LabelEnds \subseteq Program
    BY DEF Code, Program, LabelEnds
  <1>2. /\ Good("transcode_aac") /\ Good("trans_backup") /\ Good("testRTPffmpeg")
        /\ Good("demuxing") /\ Good("extract") /\ Good("reading") /\ Good("dec_enc")
    BY <1>1, AacForms, BackupForms, TestRtpForms, DemuxingForms, ExtractForms, ReadingForms,
       DecEncForms
  <1>. HIDE DEF Good
  <1>3. \A p \in LabelEnds : Good(p)
    BY <1>2 DEF LabelEnds
  <1>. QED  BY <1>1, <1>3 DEF Good

\* The call and the step that a program is at.
LEMMA NowType ==
    ASSUME TypeOK
    PROVE  /\ Code[program] \in Seq(Calls(Steps)) /\ Len(Code[program]) \in Nat
           /\ Running => /\ at \in 1..Len(Code[program]) /\ call \in Calls(Steps)
                         /\ call = Code[program][at] /\ Len(call.body) \in Nat
           /\ InCall => now \in Steps /\ step \in 1..Len(call.body)
  <1>1. Code[program] \in Seq(Calls(Steps))
    BY CodeInTurn DEF TypeOK, InTurn
  <1>2. ASSUME Running
        PROVE  /\ at \in 1..Len(Code[program]) /\ call \in Calls(Steps) /\ Len(call.body) \in Nat
               /\ call.body \in Seq(Steps)
    <2>1. at \in 1..Len(Code[program])
      BY <1>1, <1>2 DEF TypeOK, Running
    <2>2. call \in Calls(Steps)
      BY <1>1, <2>1 DEF call
    <2>3. call.body \in Seq(Steps)
      BY <2>2 DEF Calls
    <2>. QED  BY <2>1, <2>2, <2>3
  <1>3. ASSUME InCall PROVE now \in Steps /\ step \in 1..Len(call.body)
    <2>1. step \in 1..Len(call.body) /\ call.body \in Seq(Steps)
      BY <1>2, <1>3 DEF InCall, TypeOK
    <2>. QED  BY <2>1 DEF now
  <1>. QED  BY <1>1, <1>2, <1>3 DEF call

LEMMA PointerTypes ==
    ASSUME NEW p \in [Contexts -> PointerStates]
    PROVE  /\ \A cs : Free(p, cs) \in [Contexts -> PointerStates]
           /\ \A cs : Give(p, cs) \in [Contexts -> PointerStates]
           /\ \A cs : \A c \in Contexts : c \in cs => Free(p, cs)[c] = "null"
           /\ \A cs : \A c \in Contexts : p[c] = "null" => Free(p, cs)[c] = "null"
           /\ \A cs : \A c \in Contexts : c \notin cs => Give(p, cs)[c] = p[c]
  BY DEF Free, Give, PointerStates

\* What TypeOK says of the variables of a program, but for ptr and failures.
PlaceOK ==
    /\ program \in Program /\ at \in 1..(Len(Code[program]) + 1) /\ step \in Nat \ {0}
    /\ sinks \in Seq(Track) /\ mixed \subseteq Track \X Track
    /\ ignored \subseteq {Code[program][n].name : n \in 1..Len(Code[program])}
    /\ error \in BOOLEAN /\ outcome \in {"running", "done", "exit", "undefined"}

LEMMA OnErrorType == ASSUME TypeOK, Running, OnError PROVE PlaceOK'
  <1>. USE NowType
  <1>1. /\ at \in 1..Len(Code[program]) /\ call \in Calls(Steps) /\ call = Code[program][at]
        /\ Len(Code[program]) \in Nat
    OBVIOUS
  <1>2. program' = program /\ sinks' = sinks /\ mixed' = mixed
    BY DEF OnError
  <1>3. CASE call.onerror = "exit"
    <2>1. outcome' = "exit" /\ at' = at /\ step' = step /\ ignored' = ignored /\ error' = error
      BY <1>3 DEF OnError
    <2>. QED  BY <1>2, <2>1 DEF PlaceOK, TypeOK
  <1>4. CASE call.onerror = "ignore"
    <2>1. /\ outcome' = outcome /\ at' = at + 1 /\ step' = 1 /\ ignored' = ignored \cup {call.name}
          /\ error' = error
      BY <1>4 DEF OnError, GoTo
    <2>2. at + 1 \in 1..(Len(Code[program]) + 1)
      BY <1>1
    <2>3. ignored' \subseteq {Code[program][n].name : n \in 1..Len(Code[program])}
      BY <1>1, <2>1 DEF TypeOK
    <2>. QED  BY <1>2, <2>1, <2>2, <2>3 DEF PlaceOK, TypeOK
  <1>5. CASE call.onerror = "cleanup"
    <2>1. /\ outcome' = outcome /\ at' = Len(Code[program]) /\ step' = 1 /\ ignored' = ignored
          /\ error' = TRUE
      BY <1>5 DEF OnError, GoTo
    <2>2. Len(Code[program]) \in 1..(Len(Code[program]) + 1)
      BY <1>1
    <2>. QED  BY <1>2, <2>1, <2>2 DEF PlaceOK, TypeOK
  <1>. QED  BY <1>1, <1>3, <1>4, <1>5 DEF Calls

\* A step after which the program goes on.
LEMMA GoOnType ==
    ASSUME TypeOK, NEW a \in 1..(Len(Code[program]) + 1), NEW s \in Nat \ {0}, GoTo(a, s),
           UNCHANGED <<program, sinks, mixed, ignored, error, outcome>>
    PROVE  PlaceOK'
  BY DEF PlaceOK, TypeOK, GoTo

LEMMA ProgramTypeStep ==
    ASSUME TypeOK, [Next]_vars
    PROVE  TypeOK'
  <1>. USE DEF TypeOK
  <1>1. SUFFICES PlaceOK' /\ ptr' \in [Contexts -> PointerStates] /\ failures' \in 0..MaxFailures
    BY DEF PlaceOK
  <1>2. MaxFailures \in Nat
    BY MaxFailuresAssumption
  <1>3. CASE Skip
    <2>1. step + 1 \in Nat \ {0}
      OBVIOUS
    <2>2. PlaceOK'
      BY <1>3, <2>1, GoOnType DEF Skip
    <2>. QED  BY <1>3, <2>2 DEF Skip
  <1>4. CASE Succeed
    <2>1. ptr' \in [Contexts -> PointerStates]
      BY <1>4, PointerTypes DEF Succeed
    <2>2. now \in Steps /\ InCall /\ Defined
      BY <1>4, NowType DEF Succeed
    <2>3. sinks' \in Seq(Track)
      <3>1. CASE now.push = 0
        BY <1>4, <3>1 DEF Succeed
      <3>2. CASE now.push # 0
        <4>1. now.push \in Track
          BY <2>2, <3>2, TracksAssumption DEF Steps, Track
        <4>2. sinks' = Append(sinks, now.push)
          BY <1>4, <3>2 DEF Succeed
        <4>. QED  BY <4>1, <4>2
      <3>. QED  BY <3>1, <3>2
    <2>4. mixed' \subseteq Track \X Track
      <3>1. CASE now.pull = 0
        BY <1>4, <3>1 DEF Succeed
      <3>2. CASE now.pull # 0
        <4>1. now.pull \in Track
          BY <2>2, <3>2, TracksAssumption DEF Steps, Track
        <4>2. sinks[now.pull] \in Track
          BY <2>2, <4>1, TracksAssumption DEF Defined, Track
        <4>3. mixed' = mixed \cup {<<now.pull, sinks[now.pull]>>}
          BY <1>4, <3>2 DEF Succeed
        <4>. QED  BY <4>1, <4>2, <4>3
      <3>. QED  BY <3>1, <3>2
    <2>5. /\ at' = at /\ step' = step + 1 /\ failures' = failures
          /\ UNCHANGED <<program, ignored, error, outcome>>
      BY <1>4 DEF Succeed, GoTo
    <2>. QED  BY <2>1, <2>3, <2>4, <2>5 DEF PlaceOK
  <1>5. CASE Missing
    <2>1. PlaceOK'
      <3>1. CASE \E c \in now.needs : ptr[c] # "null"
        <4>1. step + 1 \in Nat \ {0}
          OBVIOUS
        <4>. QED  BY <1>5, <3>1, <4>1, GoOnType DEF Missing
      <3>2. CASE ~ \E c \in now.needs : ptr[c] # "null"
        BY <1>5, <3>2, OnErrorType DEF Missing, InCall
      <3>. QED  BY <3>1, <3>2
    <2>. QED  BY <1>5, <2>1 DEF Missing
  <1>6. CASE FailReturned
    <2>1. PlaceOK'
      BY <1>6, OnErrorType DEF FailReturned, CanFail, InCall
    <2>2. ptr' \in [Contexts -> PointerStates]
      BY <1>6, PointerTypes DEF FailReturned
    <2>3. failures' \in 0..MaxFailures
      BY <1>2, <1>6 DEF FailReturned, CanFail
    <2>. QED  BY <2>1, <2>2, <2>3
  <1>7. CASE FailUnnoticed
    <2>1. ptr' \in [Contexts -> PointerStates]
      BY <1>7, PointerTypes DEF FailUnnoticed
    <2>2. failures' \in 0..MaxFailures
      BY <1>2, <1>7 DEF FailUnnoticed, CanFail
    <2>3. call = Code[program][at] /\ at \in 1..Len(Code[program])
      BY <1>7, NowType DEF FailUnnoticed, CanFail, InCall
    <2>4. ignored' \subseteq {Code[program][n].name : n \in 1..Len(Code[program])}
      BY <1>7, <2>3 DEF FailUnnoticed
    <2>5. /\ at' = at /\ step' = step + 1
          /\ UNCHANGED <<program, sinks, mixed, error, outcome>>
      BY <1>7 DEF FailUnnoticed, GoTo
    <2>. QED  BY <2>1, <2>2, <2>4, <2>5 DEF PlaceOK
  <1>8. CASE FailBreaks
    <2>1. at \in 1..Len(Code[program]) /\ Len(Code[program]) \in Nat
      BY <1>8, NowType DEF FailBreaks, CanFail, InCall
    <2>2. at + 1 \in 1..(Len(Code[program]) + 1) /\ 1 \in Nat \ {0}
      BY <2>1
    <2>3. PlaceOK'
      BY <1>8, <2>2, GoOnType DEF FailBreaks
    <2>4. failures' \in 0..MaxFailures
      BY <1>2, <1>8 DEF FailBreaks, CanFail
    <2>. QED  BY <1>8, <2>3, <2>4 DEF FailBreaks
  <1>9. CASE Undefined
    BY <1>9 DEF Undefined, PlaceOK
  <1>10. CASE EndOfCall
    <2>1. at \in 1..Len(Code[program]) /\ Len(Code[program]) \in Nat
      BY <1>10, NowType DEF EndOfCall
    <2>2. /\ at + 1 \in 1..(Len(Code[program]) + 1) /\ 1 \in Nat \ {0}
          /\ at \in 1..(Len(Code[program]) + 1)
      BY <2>1
    <2>3. PlaceOK'
      BY <1>10, <2>2, GoOnType DEF EndOfCall
    <2>. QED  BY <1>10, <2>3 DEF EndOfCall
  <1>11. CASE MainReturns
    BY <1>11 DEF MainReturns, PlaceOK
  <1>12. CASE UNCHANGED vars
    BY <1>12 DEF vars, PlaceOK
  <1>. QED  BY <1>3, <1>4, <1>5, <1>6, <1>7, <1>8, <1>9, <1>10, <1>11, <1>12 DEF Next, Ended

LEMMA ProgramStart == Init => TypeOK
  <1>. SUFFICES ASSUME Init PROVE TypeOK
    OBVIOUS
  <1>2. Len(Code[program]) \in Nat
    BY CodeInTurn DEF Init, InTurn
  <1>3. 0 \in 0..MaxFailures
    BY MaxFailuresAssumption
  <1>4. ptr \in [Contexts -> PointerStates]
    BY DEF Init, NothingOpen, PointerStates
  <1>5. at \in 1..(Len(Code[program]) + 1) /\ step \in Nat \ {0}
    BY <1>2 DEF Init
  <1>6. sinks \in Seq(Track) /\ mixed = {} /\ ignored = {} /\ error \in BOOLEAN
    BY EmptySeq DEF Init
  <1>7. program \in Program /\ outcome \in {"running", "done", "exit", "undefined"}
    BY DEF Init
  <1>8. failures \in 0..MaxFailures
    BY <1>3 DEF Init
  <1>. QED  BY <1>4, <1>5, <1>6, <1>7, <1>8 DEF TypeOK

\* The programs' state has its type.
THEOREM ProgramsTypeCorrect == Spec => []TypeOK
  BY ProgramStart, ProgramTypeStep, PTL DEF Spec

-----------------------------------------------------------------------------
(* The steps of a program, by what they do to its place and its pointers   *)

\* Nothing but the outcome changes; main has returned if the code is at its end.
Rests ==
    /\ UNCHANGED <<program, at, step, ptr, sinks, mixed, ignored, error>>
    /\ outcome' = "done" => outcome = "done" \/ at > Len(Code[program])

\* A step that is left out, or that only looks at its pointers.
Passes ==
    /\ InCall /\ GoTo(at, step + 1)
    /\ now.skipped \/ ~Guarded \/ now.needs # {}
    /\ UNCHANGED <<program, ptr, sinks, mixed, ignored, error, outcome>>

\* The call returns an error.
ReturnsError ==
    /\ InCall /\ OnError
    /\ now.failure = "returned" \/ now.needs # {}
    /\ ptr' = ptr \/ ptr' = Free(ptr, now.undo)

LEMMA StepCases ==
    ASSUME TypeOK, [Next]_vars
    PROVE  \/ Rests \/ Passes \/ Succeed \/ ReturnsError \/ FailUnnoticed \/ FailBreaks
           \/ EndOfCall
  <1>1. CASE Skip
    BY <1>1 DEF Skip, Passes
  <1>2. CASE Missing
    <2>1. InCall /\ now.needs # {} /\ ptr' = ptr
      BY <1>2 DEF Missing
    <2>2. CASE GoTo(at, step + 1) /\ UNCHANGED <<program, sinks, mixed, ignored, error, outcome>>
      BY <2>1, <2>2 DEF Passes
    <2>3. CASE OnError
      BY <2>1, <2>3 DEF ReturnsError
    <2>. QED  BY <1>2, <2>2, <2>3 DEF Missing
  <1>3. CASE FailReturned
    BY <1>3 DEF FailReturned, CanFail, ReturnsError
  <1>4. CASE Undefined
    BY <1>4 DEF Undefined, Rests
  <1>5. CASE MainReturns
    BY <1>5 DEF MainReturns, Rests
  <1>6. CASE UNCHANGED vars
    BY <1>6 DEF vars, Rests
  <1>. QED  BY <1>1, <1>2, <1>3, <1>4, <1>5, <1>6 DEF Next, Ended

LEMMA ProgramStays == ASSUME TypeOK, [Next]_vars PROVE program' = program
  BY StepCases DEF Rests, Passes, Succeed, ReturnsError, OnError, FailUnnoticed, FailBreaks,
                   EndOfCall

\* What ReturnsError does to the place: the process ends, the next call is
\* made, or the last one.
LEMMA ErrorPlace ==
    ASSUME TypeOK, ReturnsError
    PROVE  /\ program' = program /\ sinks' = sinks /\ mixed' = mixed
           /\ ignored \subseteq ignored'
           /\ \/ at' = at /\ step' = step /\ outcome' = "exit" /\ error' = error
              \/ at' = at + 1 /\ step' = 1 /\ call.name \in ignored' /\ error' = error
                 /\ outcome' = outcome
              \/ /\ at' = Len(Code[program]) /\ step' = 1 /\ error' = TRUE /\ outcome' = outcome
                 /\ call.onerror = "cleanup"
  <1>1. call \in Calls(Steps)
    BY NowType DEF ReturnsError, InCall
  <1>2. call.onerror \in {"exit", "ignore", "cleanup"}
    BY <1>1 DEF Calls
  <1>3. OnError
    BY DEF ReturnsError
  <1>4. program' = program /\ sinks' = sinks /\ mixed' = mixed
    BY <1>3 DEF OnError
  <1>5. CASE call.onerror = "exit"
    <2>1. at' = at /\ step' = step /\ outcome' = "exit" /\ error' = error /\ ignored' = ignored
      BY <1>3, <1>5 DEF OnError
    <2>. QED  BY <1>4, <2>1
  <1>6. CASE call.onerror = "ignore"
    <2>1. at' = at + 1 /\ step' = 1 /\ ignored' = ignored \cup {call.name} /\ error' = error
          /\ outcome' = outcome
      BY <1>3, <1>6 DEF OnError, GoTo
    <2>. QED  BY <1>4, <2>1
  <1>7. CASE call.onerror = "cleanup"
    <2>1. /\ at' = Len(Code[program]) /\ step' = 1 /\ error' = TRUE /\ outcome' = outcome
          /\ ignored' = ignored
      BY <1>3, <1>7 DEF OnError, GoTo
    <2>. QED  BY <1>4, <1>7, <2>1
  <1>. QED  BY <1>2, <1>5, <1>6, <1>7

-----------------------------------------------------------------------------
(* sinkVec is in step with the clients                                     *)

\* How many graphs have been made when the calls a + 1 to a + n make them.
Made(a, n) ==
    IF at <= a THEN 0
    ELSE IF at <= a + n
         THEN (at - a - 1) + (IF step > Len(Code[program][at].body) THEN 1 ELSE 0)
         ELSE n

MixInv(a, n) ==
    "init_filter_graph" \notin ignored =>
       /\ Len(sinks) = Made(a, n)
       /\ \A k \in 1..Len(sinks) : sinks[k] = k
       /\ \A m \in mixed : m[1] = m[2]

\* The calls that make graphs, and the others.
LEMMA CallInTurn ==
    ASSUME TypeOK, NEW a \in Nat, NEW n \in Nat, InTurn(Code[program], a, n), Running
    PROVE  /\ at \in (a + 1)..(a + n) => call \in GraphCall(at - a)
           /\ at \notin (a + 1)..(a + n) => call \in PlainCall
           /\ n > 0 => call.onerror # "cleanup"
  BY NowType DEF InTurn

LEMMA PlaceFacts ==
    ASSUME TypeOK, NEW a \in Nat, NEW n \in Nat, InTurn(Code[program], a, n)
    PROVE  /\ at \in Nat /\ step \in Nat /\ step > 0 /\ Len(sinks) \in Nat
           /\ Running => call = Code[program][at] /\ Len(call.body) \in Nat
           /\ a + n <= Len(Code[program]) /\ Len(Code[program]) \in Nat
           /\ Running /\ at \in (a + 1)..(a + n) =>
                /\ Len(call.body) > 0 /\ call.name = "init_filter_graph" /\ ~call.again
                /\ call.body[Len(call.body)] = PushSink(at - a) /\ at - a \in Track
                /\ \A m \in 1..Len(call.body) :
                     m < Len(call.body) => call.body[m] \in Firm(Contexts)
  <1>1. Code[program] \in Seq(Calls(Steps)) /\ Len(Code[program]) \in Nat
    BY NowType
  <1>2. ASSUME Running, at \in (a + 1)..(a + n)
        PROVE  /\ Len(call.body) > 0 /\ call.name = "init_filter_graph" /\ ~call.again
               /\ call.body[Len(call.body)] = PushSink(at - a) /\ at - a \in Track
               /\ \A m \in 1..Len(call.body) :
                    m < Len(call.body) => call.body[m] \in Firm(Contexts)
    <2>1. call \in GraphCall(at - a)
      BY <1>2, CallInTurn
    <2>2. call.body \in Seq(Steps) /\ call.body # << >>
      BY <2>1 DEF GraphCall, Calls
    <2>3. Len(call.body) > 0
      BY <2>2
    <2>4. at - a \in Track
      BY <1>2, TrackType DEF InTurn
    <2>. QED  BY <2>1, <2>3, <2>4 DEF GraphCall
  <1>3. /\ at \in Nat /\ step \in Nat /\ step > 0 /\ Len(sinks) \in Nat
    <2>1. at \in 1..(Len(Code[program]) + 1) /\ step \in Nat \ {0} /\ sinks \in Seq(Track)
      BY DEF TypeOK
    <2>. QED  BY <1>1, <2>1
  <1>4. Running => call = Code[program][at] /\ Len(call.body) \in Nat
    BY NowType
  <1>5. a + n <= Len(Code[program])
    BY DEF InTurn
  <1>. QED  BY <1>1, <1>2, <1>3, <1>4, <1>5

LEMMA MixStep ==
    ASSUME TypeOK, [Next]_vars, NEW a \in Nat, NEW n \in Nat, InTurn(Code[program], a, n),
           MixInv(a, n)
    PROVE  MixInv(a, n)'
  <1>. DEFINE L == Len(Code[program])
              GraphNow == at \in (a + 1)..(a + n)
  <1>0. /\ at \in Nat /\ step \in Nat /\ step > 0 /\ Len(sinks) \in Nat
        /\ Running => call = Code[program][at] /\ Len(call.body) \in Nat
        /\ a + n <= L /\ L \in Nat
    BY PlaceFacts
  <1>1. ASSUME Running, GraphNow
        PROVE  /\ Len(call.body) > 0 /\ call.name = "init_filter_graph" /\ ~call.again
               /\ call.body[Len(call.body)] = PushSink(at - a) /\ at - a \in Track
               /\ \A m \in 1..Len(call.body) :
                     m < Len(call.body) => call.body[m] \in Firm(Contexts)
    BY <1>1, PlaceFacts
  <1>2. ASSUME Running, ~GraphNow
        PROVE  call.name # "init_filter_graph" /\ call.body \in Seq(Quiet(Contexts))
    <2>1. call \in PlainCall
      BY <1>2, CallInTurn
    <2>. QED  BY <2>1 DEF PlainCall, Calls
  <1>3. InCall => step \in 1..Len(call.body) /\ Running /\ now = call.body[step]
    BY NowType DEF InCall, now
  \* the only step that fills sinkVec is the last one of a graph's call
  <1>4. ASSUME InCall
        PROVE  /\ now.push # 0 => GraphNow /\ step = Len(call.body) /\ now.push = at - a
               /\ GraphNow /\ step = Len(call.body) =>
                    /\ now.push = at - a /\ now.failure = "never" /\ now.needs = {}
                    /\ now.only = {} /\ ~now.skipped
    <2>1. CASE GraphNow /\ step = Len(call.body)
      <3>1. at - a \in Track /\ now = PushSink(at - a)
        BY <1>1, <1>3, <1>4, <2>1
      <3>. QED  BY <2>1, <3>1, PushSinkType
    <2>2. CASE GraphNow /\ step # Len(call.body)
      <3>1. now \in Firm(Contexts)
        BY <1>0, <1>1, <1>3, <1>4, <2>2
      <3>. QED  BY <2>2, <3>1 DEF Firm, Quiet
    <2>3. CASE ~GraphNow
      <3>1. now \in Quiet(Contexts)
        BY <1>2, <1>3, <1>4, <2>3
      <3>. QED  BY <2>3, <3>1 DEF Quiet
    <2>. QED  BY <2>1, <2>2, <2>3
  <1>5. ASSUME InCall, GraphNow, step < Len(call.body) PROVE now.failure # "break"
    <2>1. now \in Firm(Contexts)
      BY <1>1, <1>3, <1>5
    <2>. QED  BY <2>1 DEF Firm
  <1>. HIDE DEF GraphNow
  <1>. DEFINE Body(x) == Len(Code[program][x].body)
  <1>. SUFFICES ASSUME "init_filter_graph" \notin ignored'
                PROVE  /\ Len(sinks') = Made(a, n)'
                       /\ \A k \in 1..Len(sinks') : sinks'[k] = k
                       /\ \A m \in mixed' : m[1] = m[2]
    BY DEF MixInv
  <1>6. ASSUME "init_filter_graph" \notin ignored
        PROVE  /\ Len(sinks) = Made(a, n) /\ \A k \in 1..Len(sinks) : sinks[k] = k
               /\ \A m \in mixed : m[1] = m[2]
    BY <1>6 DEF MixInv
  <1>7. \A x \in (a + 1)..(a + n) : Body(x) \in Nat /\ Body(x) > 0
    <2>. SUFFICES ASSUME NEW x \in (a + 1)..(a + n) PROVE Body(x) \in Nat /\ Body(x) > 0
      OBVIOUS
    <2>1. x \in 1..Len(Code[program])
      BY <1>0
    <2>2. Code[program][x] \in GraphCall(x - a)
      BY <2>1 DEF InTurn
    <2>3. Code[program][x].body \in Seq(Steps) /\ Code[program][x].body # << >>
      BY <2>2 DEF GraphCall, Calls
    <2>. QED  BY <2>3
  <1>8. Running => Body(at) = Len(call.body)
    BY <1>0
  <1>. HIDE DEF Body
  <1>9. /\ Made(a, n) = IF at <= a THEN 0
                        ELSE IF at <= a + n
                             THEN (at - a - 1) + (IF step > Body(at) THEN 1 ELSE 0) ELSE n
        /\ program' = program =>
             Made(a, n)' = IF at' <= a THEN 0
                           ELSE IF at' <= a + n
                                THEN (at' - a - 1) + (IF step' > Body(at') THEN 1 ELSE 0) ELSE n
    BY DEF Made, Body
  \* going on to the next call, when this one has made its graph or makes none
  <1>10. ASSUME program' = program, at' = at + 1, step' = 1, Running,
                GraphNow => step > Len(call.body)
         PROVE  Made(a, n)' = Made(a, n)
    <2>1. CASE at < a
      BY <1>0, <1>9, <1>10, <2>1
    <2>2. CASE at = a /\ n = 0
      BY <1>0, <1>9, <1>10, <2>2
    <2>3. CASE at = a /\ n > 0
      <3>1. Body(at + 1) \in Nat /\ Body(at + 1) > 0
        BY <1>0, <1>7, <2>3
      <3>. QED  BY <1>0, <1>9, <1>10, <2>3, <3>1
    <2>4. CASE at \in (a + 1)..(a + n) /\ at + 1 <= a + n
      <3>1. Body(at + 1) \in Nat /\ Body(at + 1) > 0
        BY <1>0, <1>7, <2>4
      <3>2. step > Body(at)
        BY <1>8, <1>10, <2>4 DEF GraphNow
      <3>3. Made(a, n) = at - a - 1 + 1
        BY <1>0, <1>9, <2>4, <3>2
      <3>4. Made(a, n)' = (at + 1 - a - 1) + 0
        BY <1>0, <1>9, <1>10, <2>4, <3>1
      <3>. QED  BY <1>0, <3>3, <3>4
    <2>5. CASE at \in (a + 1)..(a + n) /\ at + 1 > a + n
      <3>2. step > Body(at)
        BY <1>8, <1>10, <2>5 DEF GraphNow
      <3>3. Made(a, n) = at - a - 1 + 1
        BY <1>0, <1>9, <2>5, <3>2
      <3>4. Made(a, n)' = n
        BY <1>0, <1>9, <1>10, <2>5
      <3>. QED  BY <1>0, <2>5, <3>3, <3>4
    <2>6. CASE at > a + n
      BY <1>0, <1>9, <1>10, <2>6
    <2>. QED  BY <1>0, <2>1, <2>2, <2>3, <2>4, <2>5, <2>6
  <1>11. ASSUME program' = program, at' = at, step' = step + 1, InCall,
                ~(GraphNow /\ step = Len(call.body))
         PROVE  Made(a, n)' = Made(a, n)
    <2>1. CASE ~GraphNow
      <3>1. at <= a \/ at > a + n
        BY <1>0, <2>1 DEF GraphNow
      <3>. QED  BY <1>0, <1>9, <1>11, <3>1
    <2>2. CASE GraphNow
      <3>1. step < Body(at) /\ Body(at) \in Nat
        BY <1>0, <1>3, <1>8, <1>11, <2>2
      <3>. QED  BY <1>0, <1>9, <1>11, <3>1
    <2>. QED  BY <2>1, <2>2
  <1>12. ASSUME Made(a, n)' = Made(a, n), ignored \subseteq ignored',
                sinks' = sinks, mixed' = mixed
         PROVE  /\ Len(sinks') = Made(a, n)'
                /\ \A k \in 1..Len(sinks') : sinks'[k] = k
                /\ \A m \in mixed' : m[1] = m[2]
    BY <1>6, <1>12
  <1>13. CASE Rests
    <2>1. Made(a, n)' = Made(a, n)
      BY <1>9, <1>13 DEF Rests
    <2>. QED  BY <1>12, <1>13, <2>1 DEF Rests
  <1>14. CASE Passes
    <2>1. ~(GraphNow /\ step = Len(call.body))
      <3>. SUFFICES ASSUME GraphNow, step = Len(call.body) PROVE FALSE
        OBVIOUS
      <3>1. now.needs = {} /\ now.only = {} /\ ~now.skipped
        BY <1>4, <1>14 DEF Passes
      <3>. QED  BY <1>14, <3>1 DEF Passes, Guarded
    <2>2. Made(a, n)' = Made(a, n)
      BY <1>11, <1>14, <2>1 DEF Passes, GoTo
    <2>. QED  BY <1>12, <1>14, <2>2 DEF Passes
  <1>15. CASE Succeed
    <2>1. /\ InCall /\ program' = program /\ at' = at /\ step' = step + 1 /\ ignored' = ignored
          /\ now.pull \in Nat /\ now.pull <= Len(sinks)
      <3>1. now \in Steps
        BY <1>15, NowType DEF Succeed
      <3>2. now.pull \in Nat
        BY <3>1, TracksAssumption DEF Steps
      <3>. QED  BY <1>15, <3>2 DEF Succeed, Defined, GoTo
    <2>2. \A m \in mixed' : m[1] = m[2]
      <3>1. CASE now.pull = 0
        BY <1>6, <1>15, <2>1, <3>1 DEF Succeed
      <3>2. CASE now.pull # 0
        <4>1. sinks[now.pull] = now.pull
          BY <1>0, <1>6, <2>1, <3>2
        <4>2. mixed' = mixed \cup {<<now.pull, now.pull>>}
          BY <1>15, <3>2, <4>1 DEF Succeed
        <4>. QED  BY <1>6, <2>1, <4>2
      <3>. QED  BY <3>1, <3>2
    <2>3. CASE now.push = 0
      <3>1. ~(GraphNow /\ step = Len(call.body))
        <4>. SUFFICES ASSUME GraphNow, step = Len(call.body) PROVE FALSE
          OBVIOUS
        <4>1. at - a = 0
          BY <1>4, <2>1, <2>3
        <4>2. at - a >= 1
          BY <1>0 DEF GraphNow
        <4>. QED  BY <4>1, <4>2
      <3>2. Made(a, n)' = Made(a, n)
        BY <1>11, <2>1, <3>1
      <3>3. sinks' = sinks
        BY <1>15, <2>3 DEF Succeed
      <3>. QED  BY <1>6, <2>1, <2>2, <3>2, <3>3
    <2>4. CASE now.push # 0
      <3>1. GraphNow /\ step = Len(call.body) /\ now.push = at - a /\ at - a \in Track
        BY <1>1, <1>4, <2>1, <2>4 DEF InCall
      <3>2. sinks' = Append(sinks, at - a)
        BY <1>15, <2>4, <3>1 DEF Succeed
      <3>3. step = Body(at) /\ at \in (a + 1)..(a + n)
        BY <1>8, <2>1, <3>1 DEF InCall, GraphNow
      <3>4. Made(a, n) = at - a - 1 + 0
        BY <1>0, <1>9, <3>3
      <3>5. Made(a, n)' = at - a - 1 + 1
        BY <1>0, <1>9, <2>1, <3>3
      <3>6. Len(sinks) = at - a - 1 /\ \A k \in 1..Len(sinks) : sinks[k] = k
        BY <1>0, <1>6, <2>1, <3>4
      <3>7. sinks \in Seq(Track)
        BY DEF TypeOK
      <3>8. Len(sinks') = at - a /\ \A k \in 1..Len(sinks') : sinks'[k] = k
        BY <1>0, <3>1, <3>2, <3>6, <3>7
      <3>9. Made(a, n)' = at - a
        BY <1>0, <3>5
      <3>. QED  BY <2>2, <3>8, <3>9
    <2>. QED  BY <2>3, <2>4
  <1>16. CASE ReturnsError
    <2>1. ~(GraphNow /\ step = Len(call.body))
      <3>. SUFFICES ASSUME GraphNow, step = Len(call.body) PROVE FALSE
        OBVIOUS
      <3>1. now.needs = {} /\ now.failure = "never"
        BY <1>1, <1>4, <1>16 DEF ReturnsError, InCall
      <3>. QED  BY <1>16, <3>1 DEF ReturnsError
    <2>2. Running
      BY <1>16 DEF ReturnsError, InCall
    <2>3. /\ program' = program /\ sinks' = sinks /\ mixed' = mixed /\ ignored \subseteq ignored'
          /\ \/ at' = at /\ step' = step
             \/ at' = at + 1 /\ step' = 1 /\ call.name \in ignored'
             \/ at' = L /\ step' = 1 /\ call.onerror = "cleanup"
      BY <1>16, ErrorPlace
    <2>4. Made(a, n)' = Made(a, n)
      <3>1. CASE at' = at /\ step' = step
        BY <1>9, <2>3, <3>1
      <3>2. CASE at' = at + 1 /\ step' = 1 /\ call.name \in ignored'
        <4>1. ~GraphNow
          BY <1>1, <2>2, <3>2
        <4>. QED  BY <1>10, <2>2, <2>3, <3>2, <4>1
      <3>3. CASE at' = L /\ step' = 1 /\ call.onerror = "cleanup"
        <4>1. n = 0
          BY <2>2, <3>3, CallInTurn
        <4>. QED  BY <1>0, <1>9, <2>3, <3>3, <4>1
      <3>. QED  BY <2>3, <3>1, <3>2, <3>3
    <2>. QED  BY <1>12, <2>3, <2>4
  <1>17. CASE FailUnnoticed
    <2>1. /\ InCall /\ now.failure = "unnoticed" /\ call.name \in ignored'
          /\ ignored \subseteq ignored' /\ sinks' = sinks /\ mixed' = mixed
          /\ program' = program /\ at' = at /\ step' = step + 1
      BY <1>17 DEF FailUnnoticed, CanFail, GoTo
    <2>2. ~GraphNow
      BY <1>1, <2>1 DEF InCall
    <2>3. Made(a, n)' = Made(a, n)
      BY <1>11, <2>1, <2>2
    <2>. QED  BY <1>12, <2>1, <2>3
  <1>18. CASE FailBreaks
    <2>1. /\ InCall /\ now.failure = "break" /\ ignored' = ignored
          /\ sinks' = sinks /\ mixed' = mixed
          /\ program' = program /\ at' = at + 1 /\ step' = 1
      BY <1>18 DEF FailBreaks, CanFail, GoTo
    <2>2. ~GraphNow
      <3>. SUFFICES ASSUME GraphNow PROVE FALSE
        OBVIOUS
      <3>1. step < Len(call.body) \/ step = Len(call.body)
        BY <1>0, <1>3, <2>1
      <3>. QED  BY <1>4, <1>5, <2>1, <3>1
    <2>3. Made(a, n)' = Made(a, n)
      BY <1>10, <2>1, <2>2 DEF InCall
    <2>. QED  BY <1>12, <2>1, <2>3
  <1>19. CASE EndOfCall
    <2>1. /\ Running /\ step > Len(call.body) /\ ignored' = ignored /\ program' = program
          /\ sinks' = sinks /\ mixed' = mixed
          /\ \/ at' = at + 1 /\ step' = 1
             \/ at' = at /\ step' = 1 /\ call.again
      BY <1>19 DEF EndOfCall, GoTo
    <2>2. Made(a, n)' = Made(a, n)
      <3>1. CASE at' = at + 1 /\ step' = 1
        BY <1>10, <2>1, <3>1
      <3>2. CASE at' = at /\ step' = 1 /\ call.again
        <4>1. ~GraphNow
          BY <1>1, <2>1, <3>2
        <4>2. at <= a \/ at > a + n
          BY <1>0, <4>1 DEF GraphNow
        <4>. QED  BY <1>0, <1>9, <2>1, <3>2, <4>2
      <3>. QED  BY <2>1, <3>1, <3>2
    <2>. QED  BY <1>12, <2>1, <2>2
  <1>. QED  BY <1>13, <1>14, <1>15, <1>16, <1>17, <1>18, <1>19, StepCases

\* Client k is given the mix of graph k, the one without itself: sinkVec is
\* filled in the order of the clients unless a graph is left out.
THEOREM OwnMixIsKept == Spec => []OwnMix
  <1>. DEFINE Turn == \E a, n \in Nat : InTurn(Code[program], a, n) /\ MixInv(a, n)
  <1>1. Init => TypeOK /\ Turn
    <2>. SUFFICES ASSUME Init PROVE Turn
      BY ProgramStart
    <2>1. PICK a \in Nat, n \in Nat : InTurn(Code[program], a, n)
      BY CodeInTurn DEF Init
    <2>2. Made(a, n) = 0
      <3>1. at = 1 /\ step = 1
        BY DEF Init
      <3>2. CASE 1 <= a
        BY <3>1, <3>2 DEF Made
      <3>3. CASE a = 0 /\ n = 0
        BY <3>1, <3>3 DEF Made
      <3>4. CASE a = 0 /\ n > 0
        <4>1. 1 \in 1..Len(Code[program]) /\ 1 \in (a + 1)..(a + n)
          BY <2>1, <3>4 DEF InTurn
        <4>2. Code[program][1] \in GraphCall(1 - a)
          BY <2>1, <4>1 DEF InTurn
        <4>3. Code[program][1].body \in Seq(Steps) /\ Code[program][1].body # << >>
          BY <4>2 DEF GraphCall, Calls
        <4>4. Len(Code[program][at].body) \in Nat /\ Len(Code[program][at].body) > 0
          BY <3>1, <4>3
        <4>. QED  BY <3>1, <3>4, <4>4 DEF Made
      <3>. QED  BY <3>2, <3>3, <3>4
    <2>3. MixInv(a, n)
      BY <2>2 DEF MixInv, Init
    <2>. QED  BY <2>1, <2>3
  <1>2. TypeOK /\ Turn /\ [Next]_vars => TypeOK' /\ Turn'
    <2>. SUFFICES ASSUME TypeOK, Turn, [Next]_vars PROVE Turn'
      BY ProgramTypeStep
    <2>1. PICK a \in Nat, n \in Nat : InTurn(Code[program], a, n) /\ MixInv(a, n)
      OBVIOUS
    <2>2. MixInv(a, n)'
      BY <2>1, MixStep
    <2>3. InTurn(Code[program], a, n)'
      BY <2>1, ProgramStays
    <2>. QED  BY <2>2, <2>3
  <1>3. Turn => OwnMix
    BY DEF MixInv, OwnMix
  <1>. HIDE DEF Turn
  <1>. QED  BY <1>1, <1>2, <1>3, PTL DEF Spec

-----------------------------------------------------------------------------
(* A file has its trailer                                                  *)

\* A pointer that is null stays null, unless the step sets it.
LEMMA NullStays ==
    ASSUME TypeOK, [Next]_vars, NEW c \in Contexts, ptr[c] = "null",
           InCall => c \notin now.gives
    PROVE  ptr'[c] = "null"
  <1>1. ptr \in [Contexts -> PointerStates]
    BY DEF TypeOK
  <1>2. \A cs : Free(ptr, cs) \in [Contexts -> PointerStates] /\ Free(ptr, cs)[c] = "null"
    BY <1>1, PointerTypes
  <1>3. CASE ptr' = ptr \/ \E cs : ptr' = Free(ptr, cs)
    BY <1>2, <1>3
  <1>4. CASE Succeed
    <2>1. c \notin now.gives /\ ptr' = Give(Free(ptr, now.frees), now.gives)
      BY <1>4 DEF Succeed
    <2>. QED  BY <1>2, <2>1, PointerTypes
  <1>. QED  BY <1>3, <1>4, StepCases DEF Rests, Passes, ReturnsError, FailUnnoticed, FailBreaks,
                                       EndOfCall

\* main has returned only when it is at the end of its code.
Returned == outcome = "done" => at > Len(Code[program])

LEMMA ReturnedStep == ASSUME TypeOK, [Next]_vars, Returned PROVE Returned'
  <1>1. program' = program
    BY ProgramStays
  <1>2. CASE Rests
    BY <1>2 DEF Rests, Returned
  <1>3. CASE ~Rests
    <2>1. Running
      BY <1>3, StepCases DEF Passes, Succeed, ReturnsError, FailUnnoticed, FailBreaks, EndOfCall,
                             CanFail, InCall
    <2>2. outcome' \in {outcome, "exit"}
      BY <1>3, StepCases, ErrorPlace DEF Passes, Succeed, FailUnnoticed, FailBreaks, EndOfCall
    <2>. QED  BY <2>1, <2>2 DEF Running, Returned
  <1>. QED  BY <1>2, <1>3

\* The call that writes the trailer is over.
Passed(t) == at > t \/ (at = t /\ step > Len(Code[program][t].body))

FilesInv(t) ==
    /\ \A i \in Track : i # 1 => ptr[Muxer(i)] = "null"
    /\ ~error /\ "write_output_file_trailer" \notin ignored /\ Passed(t) =>
         ptr[Muxer(1)] = "null"

LEMMA FilesStep ==
    ASSUME TypeOK, [Next]_vars, NEW t \in Nat, FileForm(Code[program], t), FilesInv(t)
    PROVE  FilesInv(t)'
  <1>. DEFINE trailer == Code[program][t]
  <1>0. /\ at \in Nat /\ step \in Nat /\ step > 0 /\ Len(trailer.body) \in Nat
        /\ Len(trailer.body) > 0
        /\ 1 \in Track /\ \A i \in Track : Muxer(i) \in Contexts
    <2>1. trailer \in Calls(Giving(OneMuxer)) /\ trailer.body # << >>
      BY DEF FileForm
    <2>2. trailer.body \in Seq(Giving(OneMuxer))
      BY <2>1 DEF Calls
    <2>3. Len(trailer.body) \in Nat /\ Len(trailer.body) > 0
      BY <2>1, <2>2
    <2>4. at \in Nat /\ step \in Nat \ {0}
      BY NowType DEF TypeOK
    <2>. QED  BY <2>3, <2>4, ContextTypes, TrackType
  <1>1. ASSUME InCall
        PROVE  /\ at \in 1..Len(Code[program]) /\ call = Code[program][at]
               /\ step \in 1..Len(call.body) /\ now = call.body[step]
               /\ now.gives \subseteq OneMuxer
               /\ at > t => now.gives \subseteq NoMuxer
    <2>1. /\ at \in 1..Len(Code[program]) /\ call = Code[program][at]
          /\ step \in 1..Len(call.body)
      BY <1>1, NowType DEF InCall
    <2>2. call \in Calls(Giving(OneMuxer)) /\ at > t => call \in Calls(Giving(NoMuxer))
      BY <2>1 DEF FileForm
    <2>2a. call \in Calls(Giving(OneMuxer))
      BY <2>1 DEF FileForm
    <2>3. \A G : call \in Calls(Giving(G)) => now.gives \subseteq G
      BY <2>1 DEF Calls, Giving, now
    <2>. QED  BY <2>1, <2>2, <2>2a, <2>3 DEF now
  \* the last step of the call, which does not fail and is not left out
  <1>2. ASSUME InCall, at = t, step = Len(trailer.body)
        PROVE  /\ ~Passes /\ ~ReturnsError /\ ~FailUnnoticed /\ ~FailBreaks
               /\ Succeed => ptr'[Muxer(1)] = "null"
    <2>1. now = Release({Muxer(1)}) /\ call = trailer
      BY <1>1, <1>2 DEF FileForm
    <2>2. /\ now.gives = {} /\ now.frees = {Muxer(1)} /\ now.failure = "never" /\ now.only = {}
          /\ now.needs = {} /\ ~now.skipped
      BY <2>1 DEF Release, Sure
    <2>4. ASSUME Succeed PROVE ptr'[Muxer(1)] = "null"
      <3>1. ptr' = Give(Free(ptr, {Muxer(1)}), {})
        BY <2>2, <2>4 DEF Succeed
      <3>2. Free(ptr, {Muxer(1)}) \in [Contexts -> PointerStates]
            /\ Free(ptr, {Muxer(1)})[Muxer(1)] = "null"
        BY <1>0, PointerTypes DEF TypeOK
      <3>. QED  BY <1>0, <3>1, <3>2, PointerTypes
    <2>. QED  BY <2>2, <2>4
              DEF Passes, Guarded, ReturnsError, FailUnnoticed, FailBreaks, CanFail
  <1>3. ASSUME InCall, at = t, FailBreaks PROVE FALSE
    <2>1. now.failure # "break"
      BY <1>1, <1>3 DEF FileForm
    <2>. QED  BY <1>3, <2>1 DEF FailBreaks, CanFail
  <1>4. program' = program /\ ignored \subseteq ignored' /\ error \in BOOLEAN
        /\ (error => error')
    <2>1. error \in BOOLEAN /\ program' = program
      BY ProgramStays DEF TypeOK
    <2>. QED  BY <2>1, StepCases, ErrorPlace
              DEF Rests, Passes, Succeed, FailUnnoticed, FailBreaks, EndOfCall
  <1>5. \A i \in Track : i # 1 => ptr'[Muxer(i)] = "null"
    <2>. SUFFICES ASSUME NEW i \in Track, i # 1 PROVE ptr'[Muxer(i)] = "null"
      OBVIOUS
    <2>1. ptr[Muxer(i)] = "null" /\ Muxer(i) \in Contexts
      BY <1>0 DEF FilesInv
    <2>2. Muxer(i) \notin OneMuxer
      BY DEF OneMuxer, Muxer
    <2>. QED  BY <1>1, <2>1, <2>2, NullStays
  <1>6. SUFFICES ASSUME ~error', "write_output_file_trailer" \notin ignored', Passed(t)'
                 PROVE  ptr'[Muxer(1)] = "null"
    BY <1>5 DEF FilesInv
  <1>7. Passed(t) => ptr[Muxer(1)] = "null"
    BY <1>4, <1>6 DEF FilesInv
  <1>8. CASE Passed(t)
    <2>1. InCall => Muxer(1) \notin now.gives
      <3>. SUFFICES ASSUME InCall PROVE Muxer(1) \notin now.gives
        OBVIOUS
      <3>1. at > t
        <4>. SUFFICES ASSUME at = t, step > Len(Code[program][t].body) PROVE FALSE
          BY <1>8 DEF Passed
        <4>. QED  BY <1>0, <1>1
      <3>2. Muxer(1) \notin NoMuxer
        BY DEF NoMuxer, Muxer
      <3>. QED  BY <1>1, <3>1, <3>2
    <2>. QED  BY <1>0, <1>7, <1>8, <2>1, NullStays
  \* what brings the program past the call
  <1>9. CASE ~Passed(t)
    <2>1. Passed(t)' = (at' > t \/ (at' = t /\ step' > Len(trailer.body)))
      BY <1>4 DEF Passed
    <2>2. at < t \/ (at = t /\ step <= Len(trailer.body))
      BY <1>0, <1>9 DEF Passed
    <2>2a. at' > t \/ (at' = t /\ step' > Len(trailer.body))
      BY <1>6, <2>1
    <2>2b. Len(trailer.body) \in Nat /\ Len(trailer.body) >= 1 /\ at \in Nat /\ step \in Nat
      BY <1>0
    <2>. HIDE DEF trailer
    <2>3. ASSUME at' = at + 1, step' = 1, Running PROVE at = t
      BY <2>2, <2>2a, <2>2b, <2>3
    <2>4. ASSUME at' = at, step' = step + 1 PROVE at = t /\ step = Len(trailer.body)
      BY <2>2, <2>2a, <2>2b, <2>4
    <2>5. ASSUME at' = at, step' = step \/ step' = 1 PROVE FALSE
      BY <2>2, <2>2a, <2>2b, <2>5
    <2>6. CASE Rests
      BY <2>5, <2>6 DEF Rests
    <2>7. CASE Passes
      BY <1>2, <2>4, <2>7 DEF Passes, GoTo
    <2>8. CASE Succeed
      BY <1>2, <2>4, <2>8 DEF Succeed, GoTo
    <2>9. CASE ReturnsError
      <3>1. Running /\ (InCall /\ at = t => call = trailer)
        BY <1>1, <2>9 DEF trailer, ReturnsError, InCall
      <3>2. at = t => call.name = "write_output_file_trailer"
        BY <2>9, <3>1 DEF trailer, FileForm, ReturnsError
      <3>3. CASE at' = at /\ step' = step
        BY <2>5, <3>3
      <3>4. CASE at' = at + 1 /\ step' = 1 /\ call.name \in ignored'
        BY <1>6, <2>3, <3>1, <3>2, <3>4
      <3>5. CASE error' = TRUE
        BY <1>6, <3>5
      <3>. QED  BY <2>9, <3>3, <3>4, <3>5, ErrorPlace
    <2>10. CASE FailUnnoticed
      BY <1>2, <2>4, <2>10 DEF FailUnnoticed, CanFail, GoTo
    <2>11. CASE FailBreaks
      <3>1. InCall /\ Running /\ at' = at + 1 /\ step' = 1
        BY <2>11 DEF FailBreaks, CanFail, InCall, GoTo
      <3>. QED  BY <1>3, <2>3, <2>11, <3>1
    <2>12. CASE EndOfCall
      <3>1. Running /\ step > Len(call.body) /\ call = Code[program][at]
        BY <2>12 DEF EndOfCall, call
      <3>2. at # t
        <4>. SUFFICES ASSUME at = t PROVE FALSE
          OBVIOUS
        <4>. QED  BY <1>0, <2>2, <3>1 DEF trailer
      <3>3. at' = at + 1 \/ at' = at
        BY <2>12 DEF EndOfCall, GoTo
      <3>4. step' = 1
        BY <2>12 DEF EndOfCall, GoTo
      <3>. QED  BY <2>3, <2>5, <3>1, <3>2, <3>3, <3>4
    <2>. QED  BY <2>6, <2>7, <2>8, <2>9, <2>10, <2>11, <2>12, StepCases
  <1>. QED  BY <1>8, <1>9

\* A program that writes trailers has no file without one when it returns, if
\* the trailer was not what failed.
THEOREM FilesAreWhole == Spec => []WholeFiles
  <1>. DEFINE Filed == program \in WritesTrailers =>
                         \E t \in Nat : FileForm(Code[program], t) /\ FilesInv(t)
  <1>1. Init => TypeOK /\ Returned /\ Filed
    <2>. SUFFICES ASSUME Init PROVE Returned /\ Filed
      BY ProgramStart
    <2>1. Returned
      BY DEF Init, Returned
    <2>2. ASSUME program \in WritesTrailers
          PROVE  \E t \in Nat : FileForm(Code[program], t) /\ FilesInv(t)
      <3>1. PICK t \in Nat : FileForm(Code[program], t)
        BY <2>2, CodeFiles
      <3>2. \A i \in Track : ptr[Muxer(i)] = "null"
        BY ContextTypes DEF Init, NothingOpen
      <3>3. FilesInv(t)
        BY <3>2, TrackType DEF FilesInv
      <3>. QED  BY <3>1, <3>3
    <2>. QED  BY <2>1, <2>2
  <1>2. TypeOK /\ Returned /\ Filed /\ [Next]_vars =>
          TypeOK' /\ Returned' /\ Filed'
    <2>. SUFFICES ASSUME TypeOK, Returned, Filed, [Next]_vars PROVE Returned' /\ Filed'
      BY ProgramTypeStep
    <2>1. program' = program
      BY ProgramStays
    <2>2. ASSUME program \in WritesTrailers
          PROVE  \E t \in Nat : FileForm(Code[program], t)' /\ FilesInv(t)'
      <3>1. PICK t \in Nat : FileForm(Code[program], t) /\ FilesInv(t)
        BY <2>2
      <3>2. FilesInv(t)'
        BY <3>1, FilesStep
      <3>3. FileForm(Code[program], t)'
        BY <2>1, <3>1
      <3>. QED  BY <3>2, <3>3
    <2>. QED  BY <2>1, <2>2, ReturnedStep
  <1>3. TypeOK /\ Returned /\ Filed => WholeFiles
    <2>. SUFFICES ASSUME TypeOK, Returned, Filed, outcome = "done", ~error,
                         program \in WritesTrailers,
                         "write_output_file_trailer" \notin ignored, NEW i \in Track
                  PROVE  ptr[Muxer(i)] = "null"
      BY DEF WholeFiles
    <2>1. PICK t \in Nat : FileForm(Code[program], t) /\ FilesInv(t)
      OBVIOUS
    <2>2. at > t
      BY <2>1, NowType DEF Returned, FileForm, TypeOK
    <2>. QED  BY <2>1, <2>2 DEF FilesInv, Passed
  <1>. HIDE DEF Filed
  <1>. QED  BY <1>1, <1>2, <1>3, PTL DEF Spec

-----------------------------------------------------------------------------
(* The label end releases what is left                                     *)

\* The step m of the label end is over.
Ran(m) == at > Len(Code[program]) \/ (at = Len(Code[program]) /\ step > m)

EndInv(G) ==
    /\ \A c \in Contexts : Owned(c) /\ ptr[c] # "null" => c \in G
    /\ \A m \in 1..Len(Code[program][Len(Code[program])].body) : Ran(m) =>
         \A c \in Cleared(Code[program][Len(Code[program])].body[m]) : ptr[c] = "null"

LEMMA EndStepIsKept ==
    ASSUME TypeOK, [Next]_vars, NEW G, NEW kept, EndForm(Code[program], G, kept), EndInv(G)
    PROVE  EndInv(G)'
  <1>. DEFINE L == Len(Code[program])
              end == Code[program][Len(Code[program])]
              n == Len(end.body)
  <1>0. /\ at \in Nat /\ step \in Nat /\ step > 0 /\ L \in Nat /\ n \in Nat /\ at <= L + 1
        /\ end.body \in Seq(EndStep)
    <2>1. at \in 1..(L + 1) /\ step \in Nat \ {0} /\ L \in Nat
      BY NowType DEF TypeOK
    <2>2. end.body \in Seq(EndStep)
      BY DEF EndForm
    <2>. QED  BY <2>1, <2>2
  <1>1. ASSUME NEW m \in 1..n
        PROVE  /\ end.body[m] \in Steps /\ end.body[m].gives = {} /\ end.body[m].needs = {}
               /\ end.body[m].failure = "never" /\ ~end.body[m].skipped
               /\ Cleared(end.body[m]) \subseteq end.body[m].frees
               /\ end.body[m].frees \in SUBSET Contexts
    <2>1. end.body[m] \in EndStep
      BY <1>0
    <2>2. end.body[m] \in Quiet({})
      BY <2>1 DEF EndStep
    <2>3. end.body[m] \in Steps /\ end.body[m].gives = {}
      BY <2>2 DEF Quiet
    <2>4. end.body[m].frees \in SUBSET Contexts
      BY <2>3 DEF Steps
    <2>. QED  BY <2>1, <2>3, <2>4 DEF EndStep, Cleared
  <1>2. ASSUME InCall
        PROVE  /\ call = Code[program][at] /\ at \in 1..L /\ now \in Steps
               /\ now.gives \subseteq G
    <2>1. call = Code[program][at] /\ at \in 1..L /\ step \in 1..Len(call.body) /\ now \in Steps
      BY <1>2, NowType DEF InCall
    <2>2. call \in Calls(Giving(G))
      BY <2>1 DEF EndForm
    <2>3. call.body \in Seq(Giving(G))
      BY <2>2 DEF Calls
    <2>4. now \in Giving(G)
      BY <2>1, <2>3 DEF now
    <2>. QED  BY <2>1, <2>4 DEF Giving
  <1>3. /\ end.name = "end" /\ ~end.again
    BY DEF EndForm
  <1>4. program' = program
    BY ProgramStays
  <1>5. \A c \in Contexts : Owned(c) /\ ptr'[c] # "null" => c \in G
    <2>. SUFFICES ASSUME NEW c \in Contexts, Owned(c), c \notin G PROVE ptr'[c] = "null"
      OBVIOUS
    <2>1. ptr[c] = "null"
      BY DEF EndInv
    <2>. QED  BY <1>2, <2>1, NullStays
  <1>. DEFINE Clear(m) == \A c \in Cleared(end.body[m]) : ptr[c] = "null"
              ClearAfter(m) == \A c \in Cleared(end.body[m]) : ptr'[c] = "null"
  \* what is null stays so while the label end runs: nothing is given there
  <1>6. ASSUME NEW m \in 1..n, Clear(m), at >= L PROVE ClearAfter(m)
    <2>. SUFFICES ASSUME NEW c \in Cleared(end.body[m]) PROVE ptr'[c] = "null"
      OBVIOUS
    <2>1. c \in Contexts /\ ptr[c] = "null"
      BY <1>1, <1>6
    <2>2. InCall => now.gives = {}
      <3>. SUFFICES ASSUME InCall PROVE now.gives = {}
        OBVIOUS
      <3>1. at = L
        BY <1>0, <1>2, <1>6
      <3>2. call = end /\ step \in 1..n
        BY <1>2, <3>1, NowType
      <3>. QED  BY <1>1, <3>2 DEF now
    <2>. QED  BY <2>1, <2>2, NullStays
  <1>7. ASSUME NEW m \in 1..n, Ran(m) PROVE Clear(m) /\ at >= L
    BY <1>0, <1>7 DEF EndInv, Ran
  <1>. HIDE DEF Clear, ClearAfter
  <1>8. SUFFICES ASSUME NEW m \in 1..n, Ran(m)' PROVE ClearAfter(m)
    BY <1>4, <1>5 DEF EndInv, ClearAfter
  <1>9. at' > L \/ (at' = L /\ step' > m)
    BY <1>4, <1>8 DEF Ran
  <1>10. CASE Ran(m)
    BY <1>6, <1>7, <1>10
  \* the step that brings the program past step m is step m itself
  <1>11. CASE ~Ran(m)
    <2>1. at < L \/ (at = L /\ step <= m)
      BY <1>0, <1>11 DEF Ran
    <2>2. m \in Nat /\ 1 <= m /\ m <= n
      BY <1>0
    <2>3. ASSUME at' = at, step' = step \/ step' = 1 PROVE FALSE
      BY <1>0, <1>9, <2>1, <2>2, <2>3
    <2>4. ASSUME at' = at + 1, step' = 1 PROVE at = L
      BY <1>0, <1>9, <2>1, <2>2, <2>4
    <2>5. ASSUME at' = at, step' = step + 1 PROVE at = L /\ step = m
      BY <1>0, <1>9, <2>1, <2>2, <2>5
    <2>6. ASSUME InCall, at = L
          PROVE  /\ call = end /\ now.failure = "never" /\ now.needs = {} /\ ~now.skipped
                 /\ now.gives = {} /\ (step = m => now = end.body[m])
      <3>1. call = end /\ step \in 1..n
        BY <1>2, <2>6, NowType
      <3>. QED  BY <1>1, <3>1 DEF now
    <2>8. CASE Rests
      BY <2>3, <2>8 DEF Rests
    <2>9. CASE Passes
      <3>1. InCall /\ at = L /\ step = m /\ ptr' = ptr
        BY <2>5, <2>9 DEF Passes, GoTo
      <3>2. now = end.body[m] /\ ~Guarded
        BY <2>6, <2>9, <3>1 DEF Passes
      <3>3. PICK c \in now.only : ptr[c] = "null"
        BY <3>2 DEF Guarded
      <3>. QED  BY <3>1, <3>2, <3>3 DEF Cleared, ClearAfter
    <2>10. CASE Succeed
      <3>1. InCall /\ at = L /\ step = m
        BY <2>5, <2>10 DEF Succeed, GoTo
      <3>2. now = end.body[m] /\ now.gives = {}
        BY <2>6, <3>1
      <3>3. ptr' = Give(Free(ptr, now.frees), {})
        BY <2>10, <3>2 DEF Succeed
      <3>4. Free(ptr, now.frees) \in [Contexts -> PointerStates]
            /\ \A c \in Contexts : c \in now.frees => Free(ptr, now.frees)[c] = "null"
        BY PointerTypes DEF TypeOK
      <3>5. \A c \in Contexts : c \in now.frees => ptr'[c] = "null"
        BY <3>3, <3>4, PointerTypes
      <3>. QED  BY <1>1, <3>2, <3>5 DEF ClearAfter
    <2>11. CASE ReturnsError
      <3>1. InCall /\ (now.failure = "returned" \/ now.needs # {})
        BY <2>11 DEF ReturnsError
      <3>2. at # L
        BY <2>6, <3>1
      <3>3. step' = 1 \/ (at' = at /\ step' = step)
        BY <2>11, ErrorPlace
      <3>4. at' = at \/ at' = at + 1 \/ at' = L
        BY <2>11, ErrorPlace
      <3>5. step' = 1
        BY <2>3, <3>3
      <3>6. at' # at + 1 /\ at' # at
        BY <2>3, <2>4, <3>2, <3>5
      <3>7. at' = L
        BY <3>4, <3>6
      <3>. QED  BY <1>0, <1>9, <2>2, <3>5, <3>7
    <2>12. CASE FailUnnoticed
      BY <2>5, <2>6, <2>12 DEF FailUnnoticed, CanFail, GoTo
    <2>13. CASE FailBreaks
      BY <2>4, <2>6, <2>13 DEF FailBreaks, CanFail, GoTo
    <2>14. CASE EndOfCall
      <3>1. Running /\ step > Len(call.body) /\ step' = 1 /\ (at' = at + 1 \/ at' = at)
        BY <2>14 DEF EndOfCall, GoTo
      <3>2. at = L
        BY <2>3, <2>4, <3>1
      <3>3. step > n
        BY <3>1, <3>2, NowType
      <3>. QED  BY <1>0, <2>1, <2>2, <3>2, <3>3
    <2>. QED  BY <2>8, <2>9, <2>10, <2>11, <2>12, <2>13, <2>14, StepCases
  <1>. QED  BY <1>10, <1>11

\* The label end frees everything but what KeptOpen says, whichever call it is
\* reached from.
THEOREM NothingIsLeft == Spec => []NothingLeft
  <1>. DEFINE Ends == program \in LabelEnds =>
                        \E G : EndForm(Code[program], G, KeptOpen(program)) /\ EndInv(G)
  <1>1. Init => TypeOK /\ Returned /\ Ends
    <2>. SUFFICES ASSUME Init PROVE Returned /\ Ends
      BY ProgramStart
    <2>1. Returned
      BY DEF Init, Returned
    <2>2. ASSUME program \in LabelEnds
          PROVE  \E G : EndForm(Code[program], G, KeptOpen(program)) /\ EndInv(G)
      <3>1. PICK G : EndForm(Code[program], G, KeptOpen(program))
        BY <2>2, CodeEnds
      <3>2. \A c \in Contexts : ptr[c] = "null"
        BY DEF Init, NothingOpen
      <3>3. \A m \in 1..Len(Code[program][Len(Code[program])].body) : ~Ran(m)
        <4>1. Len(Code[program]) \in Nat /\ Len(Code[program]) > 0
          BY <3>1 DEF EndForm
        <4>. QED  BY <4>1 DEF Ran, Init
      <3>4. EndInv(G)
        BY <3>2, <3>3 DEF EndInv
      <3>. QED  BY <3>1, <3>4
    <2>. QED  BY <2>1, <2>2
  <1>2. TypeOK /\ Returned /\ Ends /\ [Next]_vars =>
          TypeOK' /\ Returned' /\ Ends'
    <2>. SUFFICES ASSUME TypeOK, Returned, Ends, [Next]_vars PROVE Returned' /\ Ends'
      BY ProgramTypeStep
    <2>1. program' = program
      BY ProgramStays
    <2>2. ASSUME program \in LabelEnds
          PROVE  \E G : EndForm(Code[program], G, KeptOpen(program))' /\ EndInv(G)'
      <3>1. PICK G : EndForm(Code[program], G, KeptOpen(program)) /\ EndInv(G)
        BY <2>2
      <3>2. EndInv(G)'
        BY <3>1, EndStepIsKept
      <3>3. EndForm(Code[program], G, KeptOpen(program))'
        BY <2>1, <3>1
      <3>. QED  BY <3>2, <3>3
    <2>. QED  BY <2>1, <2>2, ReturnedStep
  <1>3. TypeOK /\ Returned /\ Ends => NothingLeft
    <2>. SUFFICES ASSUME TypeOK, Returned, Ends, outcome = "done", program \in LabelEnds,
                         NEW c \in Contexts, Owned(c), ptr[c] # "null"
                  PROVE  c \in KeptOpen(program)
      BY DEF NothingLeft, LabelEnds
    <2>1. PICK G : EndForm(Code[program], G, KeptOpen(program)) /\ EndInv(G)
      OBVIOUS
    <2>2. c \in G /\ \A m \in 1..Len(Code[program][Len(Code[program])].body) : Ran(m)
      BY <2>1 DEF Returned, EndInv, Ran
    <2>. QED  BY <2>1, <2>2 DEF EndForm, EndInv
  <1>. HIDE DEF Ends
  <1>. QED  BY <1>1, <1>2, <1>3, PTL DEF Spec
=============================================================================
