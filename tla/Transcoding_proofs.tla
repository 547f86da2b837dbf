--------------------------- MODULE Transcoding_proofs ---------------------------
(***************************************************************************)
(* Proofs about the main loop of transcoding.cpp, for any conversions.     *)
(* First, what the muxers are given is well stamped: the argument is about *)
(* two packets, but it needs that every timestamp in the program is a      *)
(* number, wherever it comes from.  Then, each video stays with its input: *)
(* most steps leave its place alone, and the steps that begin pictures for *)
(* it, encode them and come to the last of them keep it near.  Then, every *)
(* variable keeps its type.  Last, nothing is lost: the invariant accounts *)
(* for every packet that was read, as muxed, in the output's encoder, in   *)
(* its graph, in the queue of its source or in the decoder.                *)
(***************************************************************************)
EXTENDS Transcoding, FiniteSetTheorems, SequenceTheorems, TLAPS

-----------------------------------------------------------------------------
(* Least and greatest elements *)

Greatest(S) == {x \in S : \A y \in S : x >= y}
Least(S) == {x \in S : \A y \in S : x <= y}

\* By descent: take a smallest set without a greatest element, and from it
\* any element.
LEMMA FiniteSetHasGreatest ==
    ASSUME NEW S, S \subseteq Int, IsFiniteSet(S), S # {}
    PROVE  Greatest(S) # {}
  <1>. DEFINE F == FiniteSubsetsOf(S)
              Bad == {U \in F : U # {} /\ Greatest(U) = {}}
  <1>1. SUFFICES ASSUME Bad # {} PROVE FALSE
    BY DEF FiniteSubsetsOf
  <1>2. PICK U \in Bad : \A V \in Bad : ~ (<<V, U>> \in StrictSubsetOrdering(S))
    <2>1. IsWellFoundedOn(StrictSubsetOrdering(S), F)
      BY FS_StrictSubsetOrderingWellFounded
    <2>2. Bad \subseteq F
      OBVIOUS
    <2>. HIDE DEF F, Bad
    <2>. QED  BY <2>1, <2>2, <1>1, WFMin
  <1>3. U \subseteq S /\ IsFiniteSet(U)
    BY DEF FiniteSubsetsOf
  <1>4. PICK x \in U : TRUE
    OBVIOUS
  <1>5. U \ {x} \in F
    BY <1>3, FS_RemoveElement DEF FiniteSubsetsOf
  <1>6. <<U \ {x}, U>> \in StrictSubsetOrdering(S)
    BY <1>3, <1>4 DEF StrictSubsetOrdering
  <1>7. CASE U = {x}
    BY <1>7, <1>3 DEF Greatest
  <1>8. CASE Greatest(U \ {x}) # {}
    <2>1. PICK y \in U \ {x} : \A z \in U \ {x} : y >= z
      BY <1>8 DEF Greatest
    <2>2. y \in Greatest(U) \/ x \in Greatest(U)
      BY <2>1, <1>3 DEF Greatest
    <2>. QED  BY <2>2
  <1>. QED  BY <1>2, <1>4, <1>5, <1>6, <1>7, <1>8

\* The elements of a finite set, turned round, are a finite set.
LEMMA FiniteSetHasLeast ==
    ASSUME NEW S, S \subseteq Int, IsFiniteSet(S), S # {}
    PROVE  Least(S) # {}
  <1>. DEFINE T == {-x : x \in S}
              f == [x \in S |-> -x]
  <1>1. f \in Surjection(S, T)
    BY DEF Surjection
  <1>2. IsFiniteSet(T)
    <2>. HIDE DEF f, T
    <2>. QED  BY <1>1, FS_Surjection
  <1>3. Greatest(T) # {}
    <2>1. T \subseteq Int /\ T # {}
      OBVIOUS
    <2>. HIDE DEF T
    <2>. QED  BY <1>2, <2>1, FiniteSetHasGreatest
  <1>4. PICK y \in T : \A z \in T : y >= z
    BY <1>3 DEF Greatest
  <1>5. PICK x \in S : y = -x
    BY <1>4
  <1>6. ASSUME NEW z \in S PROVE x <= z
    BY <1>4, <1>5, -z \in T
  <1>. QED  BY <1>6 DEF Least

LEMMA MaxInSet ==
    ASSUME NEW S, S \subseteq Int, IsFiniteSet(S), S # {}
    PROVE  Max(S) \in S /\ \A y \in S : Max(S) >= y
  BY FiniteSetHasGreatest DEF Greatest, Max

LEMMA MinInSet ==
    ASSUME NEW S, S \subseteq Int, IsFiniteSet(S), S # {}
    PROVE  Min(S) \in S /\ \A y \in S : Min(S) <= y
  BY FiniteSetHasLeast DEF Least, Min

\* The values of a function on a finite set.
LEMMA FiniteRange ==
    ASSUME NEW S, IsFiniteSet(S), NEW f, DOMAIN f = S
    PROVE  IsFiniteSet({f[x] : x \in S})
  <1>. DEFINE T == {f[x] : x \in S}
              g == [x \in S |-> f[x]]
  <1>1. g \in Surjection(S, T)
    BY DEF Surjection
  <1>. HIDE DEF g, T
  <1>2. IsFiniteSet(T)
    BY <1>1, FS_Surjection
  <1>. QED  BY <1>2 DEF T
-----------------------------------------------------------------------------
(* The two repairs of write_frame *)

LEMMA GuessedWell ==
    ASSUME NEW p \in [pts : Int, dts : Int], NEW last \in Int
    PROVE  LET g == Guessed(p, last)
           IN /\ g \in [pts : Int, dts : Int]
              /\ g.dts # NoPts /\ g.pts # NoPts => g.dts <= g.pts
  BY TimeAssumption DEF Guessed, Median, Larger, Smaller

LEMMA InOrderWell ==
    ASSUME NEW p \in [pts : Int, dts : Int], NEW last \in Int, NEW o,
           LeastDts(o, last) \in Int
    PROVE  LET q == InOrder(o, p, last)
           IN /\ q \in [pts : Int, dts : Int]
              /\ q.dts # NoPts /\ last # NoPts => q.dts >= LeastDts(o, last)
              /\ (p.dts # NoPts /\ p.pts # NoPts => p.dts <= p.pts)
                    => (q.dts # NoPts /\ q.pts # NoPts => q.dts <= q.pts)
  <1>. DEFINE least == LeastDts(o, last)
              q == InOrder(o, p, last)
  <1>1. q = IF p.dts # NoPts /\ last # NoPts /\ p.dts < least
            THEN [pts |-> IF p.pts >= p.dts THEN Larger(p.pts, least) ELSE p.pts,
                  dts |-> least]
            ELSE p
    BY DEF InOrder
  <1>2. least \in Int
    OBVIOUS
  <1>. HIDE DEF least, q
  <1>3. /\ q \in [pts : Int, dts : Int]
        /\ q.dts # NoPts /\ last # NoPts => q.dts >= least
        /\ (p.dts # NoPts /\ p.pts # NoPts => p.dts <= p.pts)
              => (q.dts # NoPts /\ q.pts # NoPts => q.dts <= q.pts)
    BY <1>1, <1>2, TimeAssumption DEF Larger
  <1>. QED  BY <1>3 DEF least, q

\* Whatever the packet and the last dts, what the repairs that are made give
\* is what they are made for, and the second does not undo the first.
LEMMA StampedWell ==
    ASSUME NEW p \in [pts : Int, dts : Int], NEW last \in Int, NEW o,
           LeastDts(o, last) \in Int
    PROVE  /\ Stamped(o, p, last) \in [pts : Int, dts : Int]
           /\ Repairs(o, "order") /\ Stamped(o, p, last).dts # NoPts /\ last # NoPts
                => Stamped(o, p, last).dts >= LeastDts(o, last)
           /\ Repairs(o, "guess") /\ Stamped(o, p, last).dts # NoPts
                                  /\ Stamped(o, p, last).pts # NoPts
                => Stamped(o, p, last).dts <= Stamped(o, p, last).pts
  <1>. DEFINE g == IF Repairs(o, "guess") THEN Guessed(p, last) ELSE p
              q == IF Repairs(o, "order") THEN InOrder(o, g, last) ELSE g
  <1>1. /\ g \in [pts : Int, dts : Int]
        /\ Repairs(o, "guess") => (g.dts # NoPts /\ g.pts # NoPts => g.dts <= g.pts)
    BY GuessedWell
  <1>2. Stamped(o, p, last) = q
    BY DEF Stamped
  <1>. HIDE DEF g
  <1>3. CASE Repairs(o, "order")
    <2>1. Stamped(o, p, last) = InOrder(o, g, last)
      BY <1>2, <1>3
    <2>. QED  BY <1>1, <2>1, InOrderWell
  <1>4. CASE ~Repairs(o, "order")
    BY <1>1, <1>2, <1>4
  <1>. QED  BY <1>3, <1>4
-----------------------------------------------------------------------------
(* Every timestamp is a number *)

Stamp == [pts : Int, dts : Int, prev : Int]
Frame == [pts : Int, dur : Int]
Packet == [dts : Int, pts : Int, dur : Int, key : BOOLEAN, stream : Int]

OutputState ==
    [finished : SUBSET {"ENCODER", "MUXER"}, unavailable : BOOLEAN,
     sync_opts : Int, frame_number : Int, last_mux_dts : Int, enc : Seq(Int),
     last_nb0 : Int \X Int \X Int, last_dropped : BOOLEAN,
     last_frame : BOOLEAN, muxed : Int, taken : Int, passed : Int,
     ends : Int, skipped : BOOLEAN]

InputState ==
    [pos : Nat, dec : Seq(Frame), saw : BOOLEAN, dts : Int, pts : Int,
     next_dts : Int, next_pts : Int, max_pts : Int, min_pts : Int,
     nb_samples : Int]

FileState ==
    [eagain : BOOLEAN, eof_reached : BOOLEAN, ts_offset : Int, last_ts : Int,
     loop : Int, duration : Int]

GraphState(o) ==
    [queue : [From(o) -> Seq(Frame)], closed : SUBSET From(o),
     held : Seq(Frame), sink : Seq(Frame), eof : BOOLEAN]

OutputsTimed == ost \in [Out -> OutputState]
DupTimed == /\ dup.nb \in Int /\ dup.nb0 \in Int /\ dup.i \in Int
            /\ dup.next \in BOOLEAN
            /\ pc = "video" => dup.o \in Out
FilesTimed == file \in [Files -> FileState]
InputsTimed == ist \in [Streams -> InputState]
GraphsTimed == /\ DOMAIN graph = Encoded
               /\ \A o \in Encoded : graph[o] \in GraphState(o)
PacketTimed == pkt \in Packet /\ (pc = "packet" => pkt.stream \in Streams)
StampsTimed == sent \in [Out -> Stamp]

OutputSide == OutputsTimed /\ DupTimed /\ StampsTimed /\ WellStamped
InputSide == FilesTimed /\ InputsTimed /\ GraphsTimed /\ PacketTimed

StampInv == conv \in Conversions /\ OutputSide /\ InputSide
-----------------------------------------------------------------------------
(* What the assumption on conversions says of the one that runs *)

LEMMA ConversionDomains ==
    ASSUME conv \in Conversions
    PROVE  /\ Out = 1..Len(conv.outputs) /\ IsFiniteSet(Out)
           /\ Files = 1..Len(conv.files)
           /\ Streams = 1..Len(conv.inputs) /\ IsFiniteSet(Streams)
  <1>1. Out = 1..Len(conv.outputs) /\ Len(conv.outputs) \in Nat
    BY ConversionsAssumption DEF Out
  <1>2. Files = 1..Len(conv.files) /\ Len(conv.files) \in Nat
    BY ConversionsAssumption DEF Files
  <1>3. Streams = 1..Len(conv.inputs) /\ Len(conv.inputs) \in Nat
    BY ConversionsAssumption DEF Streams
  <1>4. IsFiniteSet(Out) /\ IsFiniteSet(Streams)
    BY <1>1, <1>3, FS_Interval
  <1>. QED  BY <1>1, <1>2, <1>3, <1>4

LEMMA OutputTypes ==
    ASSUME conv \in Conversions, NEW o \in Out
    PROVE  /\ From(o) \subseteq Streams /\ conv.outputs[o].max_frames \in Nat
           /\ conv.outputs[o].dur \in Nat /\ conv.outputs[o].step \in {0, 1}
           /\ (Video(o) /\ ~Copied(o)) =>
                 conv.outputs[o].sync \in {"CFR", "VSCFR", "VFR", "PASSTHROUGH"}
  <1>. DEFINE T == [type : {"audio", "video"}, copy : BOOLEAN, of : Nat,
                    from : SUBSET DOMAIN conv.inputs, hold : Nat, lag : Nat,
                    max_frames : Nat, dur : Nat, filters : BOOLEAN,
                    repairs : SUBSET {"guess", "order"}, step : {0, 1},
                    bsf : BOOLEAN, begins : SUBSET {"nonkey", "prior"},
                    sync : {"CFR", "VSCFR", "VFR", "PASSTHROUGH", "none"}]
  <1>1. conv.outputs \in Seq(T)
    BY ConversionsAssumption
  <1>2. conv.outputs[o] \in T
    <2>. HIDE DEF T
    <2>. QED  BY <1>1, ConversionDomains, ElementOfSeq
  <1>3. (Video(o) /\ ~Copied(o)) => conv.outputs[o].sync # "none"
    BY ConversionsAssumption DEF Out, Video, Copied
  <1>. QED  BY <1>2, <1>3 DEF From, Streams

LEMMA FileTypes ==
    ASSUME conv \in Conversions, NEW f \in Files
    PROVE  conv.files[f].loop \in Nat
  <1>1. conv.files \in Seq([loop : Nat, discont : BOOLEAN])
    BY ConversionsAssumption
  <1>2. conv.files[f] \in [loop : Nat, discont : BOOLEAN]
    BY <1>1, ConversionDomains, ElementOfSeq
  <1>. QED  BY <1>2

LEMMA StreamTypes ==
    ASSUME conv \in Conversions, NEW s \in Streams
    PROVE  /\ conv.inputs[s].file \in Files
           /\ conv.inputs[s].depth \in Nat /\ conv.inputs[s].rate \in Nat
           /\ conv.inputs[s].packets \in Seq(Packet)
  <1>. DEFINE T == [type : {"audio", "video"}, file : DOMAIN conv.files,
                    depth : Nat, rate : Nat, packets : Seq(Packet)]
  <1>1. conv.inputs \in Seq(T)
    BY ConversionsAssumption DEF Packet
  <1>2. conv.inputs[s] \in T
    <2>. HIDE DEF T
    <2>. QED  BY <1>1, ConversionDomains, ElementOfSeq
  <1>. QED  BY <1>2 DEF Files

\* The conversion never changes, and with it nothing that is read off it.
LEMMA SameConversion ==
    ASSUME conv' = conv
    PROVE  /\ Out' = Out /\ Files' = Files /\ Streams' = Streams
           /\ Encoded' = Encoded
           /\ \A o : From(o)' = From(o) /\ GraphState(o)' = GraphState(o)
  BY DEF Out, Files, Streams, Encoded, Copied, From, GraphState
-----------------------------------------------------------------------------
(* The output side *)

LEMMA OutputFields ==
    ASSUME NEW r \in OutputState
    PROVE  /\ r.sync_opts \in Int /\ r.frame_number \in Int
           /\ r.last_mux_dts \in Int /\ r.enc \in Seq(Int)
           /\ r.last_nb0 \in Int \X Int \X Int
           /\ r.muxed \in Int /\ r.taken \in Int /\ r.passed \in Int /\ r.ends \in Int
           /\ r.last_dropped \in BOOLEAN /\ r.last_frame \in BOOLEAN
  BY DEF OutputState

\* The updates that the code makes keep an output's fields numbers.
LEMMA FinishedTimed ==
    ASSUME NEW r \in OutputState, NEW S \in SUBSET {"ENCODER", "MUXER"}
    PROVE  [r EXCEPT !.finished = @ \cup S] \in OutputState
  BY DEF OutputState

LEMMA UnavailableTimed ==
    ASSUME NEW r \in OutputState, NEW b \in BOOLEAN
    PROVE  [r EXCEPT !.unavailable = b] \in OutputState
  BY DEF OutputState

LEMMA SyncOptsTimed ==
    ASSUME NEW r \in OutputState, NEW n \in Int, NEW t \in Int
    PROVE  /\ [r EXCEPT !.sync_opts = n] \in OutputState
           /\ [r EXCEPT !.sync_opts = n, !.taken = t] \in OutputState
  BY DEF OutputState

LEMMA FrameNumberTimed ==
    ASSUME NEW r \in OutputState, NEW n \in Int
    PROVE  [r EXCEPT !.frame_number = n] \in OutputState
  BY DEF OutputState

LEMMA EncTimed ==
    ASSUME NEW r \in OutputState, NEW e \in Seq(Int)
    PROVE  [r EXCEPT !.enc = e] \in OutputState
  BY DEF OutputState

LEMMA LastFrameTimed ==
    ASSUME NEW r \in OutputState, NEW b \in BOOLEAN
    PROVE  [r EXCEPT !.last_frame = b] \in OutputState
  BY DEF OutputState

LEMMA PassedTimed ==
    ASSUME NEW r \in OutputState, NEW n \in Int
    PROVE  [r EXCEPT !.passed = n] \in OutputState
  BY DEF OutputState

LEMMA EmptiedTimed ==
    ASSUME NEW r \in OutputState, NEW n \in Int, NEW m \in Int
    PROVE  [r EXCEPT !.frame_number = n, !.passed = m] \in OutputState
  BY DEF OutputState

LEMMA WrittenTimed ==
    ASSUME NEW r \in OutputState, NEW d \in Int, NEW m \in Int, NEW n \in Int
    PROVE  [r EXCEPT !.frame_number = n, !.muxed = m, !.last_mux_dts = d] \in OutputState
  BY DEF OutputState

LEMMA KeptTimed ==
    ASSUME NEW r \in OutputState, NEW n \in Int, NEW l \in Int \X Int \X Int,
           NEW e \in Int, NEW t \in Int
    PROVE  [r EXCEPT !.sync_opts = n, !.last_nb0 = l, !.ends = e, !.taken = t] \in OutputState
  BY DEF OutputState

LEMMA SkippedTimed ==
    ASSUME NEW r \in OutputState, NEW b \in BOOLEAN
    PROVE  /\ [r EXCEPT !.skipped = b] \in OutputState
           /\ [r EXCEPT !.last_dropped = b] \in OutputState
  BY DEF OutputState

\* One output of several is replaced.
LEMMA OneOutputTimed ==
    ASSUME NEW st \in [Out -> OutputState], NEW o, NEW r, o \in Out => r \in OutputState
    PROVE  [st EXCEPT ![o] = r] \in [Out -> OutputState]
  OBVIOUS

\* What was given to the muxers before is still well stamped.
LEMMA StampsStay ==
    ASSUME conv' = conv, UNCHANGED sent, StampsTimed, WellStamped
    PROVE  StampsTimed' /\ WellStamped'
  BY SameConversion DEF StampsTimed, WellStamped, Repairs, LeastDts

LEMMA WriteFrameTimed ==
    ASSUME conv \in Conversions, conv' = conv, StampsTimed, WellStamped,
           NEW o \in Out, NEW st \in [Out -> OutputState],
           NEW p \in [pts : Int, dts : Int],
           write_frame(o, p, st)
    PROVE  OutputsTimed' /\ StampsTimed' /\ WellStamped'
  <1>. DEFINE last == st[o].last_mux_dts
              q == Stamped(o, p, last)
              n == IF Counted(o) THEN st[o].frame_number + 1 ELSE st[o].frame_number
              wr == [st[o] EXCEPT !.frame_number = n, !.muxed = @ + 1,
                                  !.last_mux_dts = q.dts]
              em == [st[o] EXCEPT !.frame_number = n, !.passed = @ + 1]
              written == With(st, o, wr)
              emptied == With(st, o, em)
  <1>1. st[o] \in OutputState /\ last \in Int /\ LeastDts(o, last) \in Int
    <2>1. st[o] \in OutputState /\ last \in Int
      BY DEF OutputState
    <2>. HIDE DEF last
    <2>. QED  BY <2>1, OutputTypes DEF LeastDts
  <1>2. /\ q \in [pts : Int, dts : Int]
        /\ Repairs(o, "order") /\ q.dts # NoPts /\ last # NoPts => q.dts >= LeastDts(o, last)
        /\ Repairs(o, "guess") /\ q.dts # NoPts /\ q.pts # NoPts => q.dts <= q.pts
    <2>. HIDE DEF last
    <2>. QED  BY <1>1, StampedWell
  <1>3. Out' = Out
    BY SameConversion
  <1>4. /\ written \in [Out -> OutputState] /\ emptied \in [Out -> OutputState]
    <2>. DEFINE r == st[o]
                m == r.muxed + 1
                k == r.passed + 1
                d == q.dts
    <2>1. n \in Int /\ d \in Int
      BY <1>1, <1>2 DEF OutputState
    <2>2. r \in OutputState /\ m \in Int /\ k \in Int
      BY <1>1 DEF OutputState
    <2>3. wr = [r EXCEPT !.frame_number = n, !.muxed = m, !.last_mux_dts = d]
      OBVIOUS
    <2>4. em = [r EXCEPT !.frame_number = n, !.passed = k]
      OBVIOUS
    <2>. HIDE DEF n, r, q, m, k, d, wr, em
    <2>5. wr \in OutputState /\ em \in OutputState
      BY <2>1, <2>2, <2>3, <2>4, WrittenTimed, EmptiedTimed
    <2>. QED  BY <2>5 DEF With
  <1>5. close_all_output_streams(written, o) \in [Out -> OutputState]
    <2>. HIDE DEF written
    <2>. QED  BY <1>4, FinishedTimed DEF close_all_output_streams
  <1>6. CASE UNCHANGED sent /\ (ost' = st \/ ost' = emptied)
    <2>. HIDE DEF emptied
    <2>. QED  BY <1>3, <1>4, <1>6, StampsStay DEF OutputsTimed
  <1>7. CASE /\ sent' = [sent EXCEPT ![o] = [pts |-> q.pts, dts |-> q.dts, prev |-> last]]
             /\ ost' = written \/ ost' = close_all_output_streams(written, o)
    <2>1. [pts |-> q.pts, dts |-> q.dts, prev |-> last] \in Stamp
      BY <1>1, <1>2 DEF Stamp
    <2>2. StampsTimed'
      BY <1>3, <1>7, <2>1 DEF StampsTimed
    <2>3. OutputsTimed'
      <3>. HIDE DEF written
      <3>. QED  BY <1>3, <1>4, <1>5, <1>7 DEF OutputsTimed
    <2>4. ASSUME NEW x \in Out, x # o PROVE sent'[x] = sent[x]
      BY <1>7, <2>4 DEF StampsTimed
    <2>5. /\ sent'[o].pts = q.pts /\ sent'[o].dts = q.dts /\ sent'[o].prev = last
      BY <1>7 DEF StampsTimed
    <2>6. /\ \A x : Repairs(x, "order")' = Repairs(x, "order")
          /\ \A x : Repairs(x, "guess")' = Repairs(x, "guess")
          /\ \A x, l : LeastDts(x, l)' = LeastDts(x, l)
      BY DEF Repairs, LeastDts
    <2>. HIDE DEF q, last
    <2>7. WellStamped'
      BY <1>2, <1>3, <2>4, <2>5, <2>6 DEF WellStamped
    <2>. QED  BY <2>2, <2>3, <2>7
  <1>8. \/ UNCHANGED sent /\ (ost' = st \/ ost' = emptied)
        \/ /\ sent' = [sent EXCEPT ![o] = [pts |-> q.pts, dts |-> q.dts, prev |-> last]]
           /\ ost' = written \/ ost' = close_all_output_streams(written, o)
    BY DEF write_frame
  <1>. QED  BY <1>6, <1>7, <1>8

\* close_output_stream touches nothing but the flags of the output.
LEMMA ClosedTimed ==
    ASSUME NEW st \in [Out -> OutputState], NEW S
    PROVE  Closed(st, S) \in [Out -> OutputState]
  BY FinishedTimed DEF Closed

LEMMA EncodeTimed ==
    ASSUME conv \in Conversions, conv' = conv, StampsTimed, WellStamped,
           NEW o \in Out, NEW st \in [Out -> OutputState], NEW pts \in Int,
           Encode(o, pts, st)
    PROVE  OutputsTimed' /\ StampsTimed' /\ WellStamped'
  <1>. DEFINE inside == Append(st[o].enc, pts)
  <1>1. inside \in Seq(Int) /\ inside # <<>>
    <2>1. st[o].enc \in Seq(Int)
      BY OutputFields
    <2>. QED  BY <2>1
  <1>2. Head(inside) \in Int /\ Tail(inside) \in Seq(Int)
    BY <1>1
  <1>3. ASSUME NEW e \in Seq(Int)
        PROVE  [st EXCEPT ![o].enc = e] \in [Out -> OutputState]
    BY EncTimed, OneOutputTimed
  <1>4. CASE Len(inside) > conv.outputs[o].hold
    <2>1. write_frame(o, [pts |-> Head(inside), dts |-> Head(inside)],
                      [st EXCEPT ![o].enc = Tail(inside)])
      BY <1>4 DEF Encode
    <2>2. [pts |-> Head(inside), dts |-> Head(inside)] \in [pts : Int, dts : Int]
      BY <1>2
    <2>3. [st EXCEPT ![o].enc = Tail(inside)] \in [Out -> OutputState]
      BY <1>2, <1>3
    <2>. QED  BY <2>1, <2>2, <2>3, WriteFrameTimed
  <1>5. CASE ~(Len(inside) > conv.outputs[o].hold)
    <2>1. ost' = [st EXCEPT ![o].enc = inside] /\ UNCHANGED sent
      BY <1>5 DEF Encode
    <2>2. OutputsTimed'
      BY <2>1, <1>1, <1>3, SameConversion DEF OutputsTimed
    <2>. QED  BY <2>1, <2>2, StampsStay
  <1>. QED  BY <1>4, <1>5

LEMMA AudioOutTimed ==
    ASSUME conv \in Conversions, conv' = conv, OutputsTimed, StampsTimed, WellStamped,
           NEW o \in Out, NEW frame \in Frame, do_audio_out(o, frame)
    PROVE  OutputsTimed' /\ StampsTimed' /\ WellStamped'
  <1>. DEFINE n == frame.pts + frame.dur
              t == ost[o].taken + 1
              r == ost[o]
              st == [ost EXCEPT ![o] = [r EXCEPT !.sync_opts = n, !.taken = t]]
  <1>1. CASE close_output_stream({o}, ost) /\ UNCHANGED sent
    BY <1>1, ClosedTimed, SameConversion, StampsStay DEF close_output_stream, OutputsTimed
  <1>2. CASE Encode(o, frame.pts, [ost EXCEPT ![o].sync_opts = frame.pts + frame.dur,
                                              ![o].taken = @ + 1])
    <2>1. frame.pts \in Int /\ n \in Int /\ t \in Int /\ r \in OutputState
      BY OutputFields DEF Frame, OutputsTimed
    <2>2. [ost EXCEPT ![o].sync_opts = frame.pts + frame.dur, ![o].taken = @ + 1] = st
      BY DEF OutputsTimed
    <2>3. st \in [Out -> OutputState]
      <3>. HIDE DEF n, t, r
      <3>. QED  BY <2>1, SyncOptsTimed, OneOutputTimed DEF OutputsTimed
    <2>. HIDE DEF st
    <2>. QED  BY <1>2, <2>1, <2>2, <2>3, EncodeTimed
  <1>. QED  BY <1>1, <1>2 DEF do_audio_out

\* do_video_out
LEMMA RoundTimed == ASSUME NEW n \in Int PROVE Round(n) \in Int
  BY DEF Round, FrameTicks

\* A picture is never taken to end before it begins.
LEMMA DurationTimed ==
    ASSUME conv \in Conversions, NEW o \in Out, NEW frame \in Frame
    PROVE  DurationOf(o, frame) \in Nat /\ SyncPts(frame) \in Int
  <1>1. frame.pts \in Int /\ frame.dur \in Int /\ Round(frame.dur) \in Int
    BY RoundTimed DEF Frame
  <1>2. conv.outputs[o].dur \in Nat
    BY OutputTypes
  <1>. QED  BY <1>1, <1>2 DEF DurationOf, SyncPts, FrameTicks

LEMMA SyncFramesTimed ==
    ASSUME conv \in Conversions, NEW o \in Out, OutputsTimed, NEW frame \in Frame,
           conv.outputs[o].sync \in {"CFR", "VSCFR", "VFR", "PASSTHROUGH"}
    PROVE  /\ SyncFrames(o, frame).sync_opts \in Int
           /\ SyncFrames(o, frame).nb \in Int
           /\ SyncFrames(o, frame).nb0 \in Int
  <1>. DEFINE method == conv.outputs[o].sync
              sync == ost[o].sync_opts
              drift == SyncPts(frame) - FrameTicks * sync
              delta == drift + DurationOf(o, frame)
              clipped == drift < 0 /\ delta > 0 /\ method # "PASSTHROUGH"
              delta0 == IF clipped THEN 0 ELSE drift
              here == IF clipped THEN sync ELSE Round(SyncPts(frame))
              restart == method = "VSCFR" /\ ost[o].frame_number = 0 /\ delta0 >= 10
              d == IF restart THEN DurationOf(o, frame) ELSE delta
              d0 == IF restart THEN 0 ELSE delta0
              f == SyncFrames(o, frame)
  <1>1. sync \in Int /\ SyncPts(frame) \in Int /\ DurationOf(o, frame) \in Int
    BY OutputFields, DurationTimed DEF OutputsTimed
  <1>2. drift \in Int /\ delta \in Int
    BY <1>1 DEF FrameTicks
  <1>3. delta0 \in Int /\ here \in Int
    BY <1>1, <1>2, RoundTimed
  <1>4. d \in Int /\ d0 \in Int
    BY <1>1, <1>2, <1>3
  <1>5. Round(d) \in Int /\ Round(d0 - 12) \in Int
    BY <1>4, RoundTimed
  <1>6. CASE method \in {"CFR", "VSCFR"}
    <2>. DEFINE a == IF restart THEN here ELSE sync
                b == IF d < -22 THEN 0 ELSE IF d > 22 THEN Round(d) ELSE 1
                c == IF d > 22 /\ d0 > 22 THEN Round(d0 - 12) ELSE 0
    <2>1. f = [sync_opts |-> a, nb |-> b, nb0 |-> c]
      BY <1>6 DEF SyncFrames
    <2>2. a \in Int /\ b \in Int /\ c \in Int
      <3>. HIDE DEF here, sync, restart, d, d0
      <3>. QED  BY <1>1, <1>3, <1>5
    <2>. HIDE DEF a, b, c
    <2>. QED  BY <2>1, <2>2
  <1>7. CASE method = "VFR"
    <2>. DEFINE a == IF delta > 12 THEN here ELSE sync
                b == IF delta <= -12 THEN 0 ELSE 1
    <2>1. f = [sync_opts |-> a, nb |-> b, nb0 |-> 0]
      BY <1>7 DEF SyncFrames
    <2>2. a \in Int /\ b \in Int
      <3>. HIDE DEF here, sync, delta
      <3>. QED  BY <1>1, <1>3
    <2>. HIDE DEF a, b
    <2>. QED  BY <2>1, <2>2
  <1>8. CASE method = "PASSTHROUGH"
    <2>1. f = [sync_opts |-> here, nb |-> 1, nb0 |-> 0]
      BY <1>8 DEF SyncFrames
    <2>. HIDE DEF here
    <2>. QED  BY <2>1, <1>3
  <1>. QED  BY <1>6, <1>7, <1>8

LEMMA BeginPicturesTimed ==
    ASSUME conv \in Conversions, conv' = conv, OutputsTimed, DupTimed, pc # "video",
           NEW o \in Out, NEW sync \in Int, NEW nb \in Int, NEW nb0 \in Int,
           NEW next \in BOOLEAN, NEW ends \in Int,
           BeginPictures(o, sync, nb, nb0, next, ends)
    PROVE  OutputsTimed' /\ DupTimed' /\ (pc' = "packet" => pc = "packet")
  <1>. DEFINE n == Smaller(nb, conv.outputs[o].max_frames - ost[o].frame_number)
              n0 == Smaller(nb0, n)
              last == ost[o].last_nb0
              e == Larger(ost[o].ends, ends)
              kept == [ost EXCEPT ![o].sync_opts = sync,
                            ![o].last_nb0 = <<n0, last[1], last[2]>>,
                            ![o].ends = Larger(@, ends),
                            ![o].taken = IF next THEN @ + 1 ELSE @]
              t == IF next THEN ost[o].taken + 1 ELSE ost[o].taken
  <1>1. n \in Int /\ n0 \in Int /\ e \in Int /\ t \in Int
        /\ <<n0, last[1], last[2]>> \in Int \X Int \X Int
    <2>1. /\ ost[o].frame_number \in Int /\ ost[o].ends \in Int /\ ost[o].taken \in Int
          /\ last \in Int \X Int \X Int /\ conv.outputs[o].max_frames \in Int
      <3>1. ost[o] \in OutputState
        BY DEF OutputsTimed
      <3>2. conv.outputs[o].max_frames \in Nat
        BY OutputTypes
      <3>. QED  BY <3>1, <3>2, OutputFields
    <2>2. n \in Int
      BY <2>1 DEF Smaller
    <2>3. n0 \in Int
      BY <2>2 DEF Smaller
    <2>4. e \in Int
      BY <2>1 DEF Larger
    <2>5. t \in Int
      BY <2>1
    <2>. HIDE DEF n0, last, t
    <2>. QED  BY <2>1, <2>2, <2>3, <2>4, <2>5
  <1>2. kept \in [Out -> OutputState]
    <2>. DEFINE l == <<n0, last[1], last[2]>>
                r == ost[o]
                k == [r EXCEPT !.sync_opts = sync, !.last_nb0 = l, !.ends = e, !.taken = t]
    <2>1. k \in OutputState
      <3>1. r \in OutputState /\ l \in Int \X Int \X Int
        BY <1>1 DEF OutputsTimed
      <3>. HIDE DEF l, r, e, t
      <3>. QED  BY <3>1, <1>1, KeptTimed
    <2>2. kept = [ost EXCEPT ![o] = k]
      BY DEF OutputsTimed
    <2>. HIDE DEF k, kept
    <2>. QED  BY <2>1, <2>2 DEF OutputsTimed
  <1>3. ASSUME NEW b \in BOOLEAN
        PROVE  /\ [kept EXCEPT ![o].skipped = b] \in [Out -> OutputState]
               /\ [kept EXCEPT ![o].last_dropped = b] \in [Out -> OutputState]
    <2>. HIDE DEF kept
    <2>. QED  BY <1>2, SkippedTimed, OneOutputTimed
  <1>4. CASE ost' = [kept EXCEPT ![o].skipped = TRUE] /\ UNCHANGED <<pc, dup>>
    <2>. HIDE DEF kept
    <2>. QED  BY <1>3, <1>4, SameConversion DEF OutputsTimed, DupTimed
  <1>5. CASE /\ ost' = [kept EXCEPT ![o].last_dropped = (n = n0 /\ next)]
             /\ dup' = [o |-> o, i |-> 0, nb |-> n, nb0 |-> n0, next |-> next]
             /\ pc' = "video"
    <2>. HIDE DEF kept, n, n0
    <2>1. (n = n0 /\ next) \in BOOLEAN
      OBVIOUS
    <2>. DEFINE b == n = n0 /\ next
    <2>2. OutputsTimed'
      <3>1. ost' = [kept EXCEPT ![o].last_dropped = b] /\ b \in BOOLEAN
        BY <1>5, <2>1
      <3>. HIDE DEF b
      <3>. QED  BY <1>3, <3>1, SameConversion DEF OutputsTimed
    <2>. QED  BY <2>2, <1>1, <1>5, SameConversion DEF DupTimed
  <1>. QED  BY <1>4, <1>5 DEF BeginPictures

LEMMA VideoOutTimed ==
    ASSUME conv \in Conversions, conv' = conv, OutputSide, UNCHANGED sent,
           pc \notin {"video", "packet"},
           NEW o \in Out, Video(o), ~Copied(o), NEW frame \in Frame,
           do_video_out(o, frame)
    PROVE  OutputSide' /\ pc' # "packet"
  <1>. DEFINE f == SyncFrames(o, frame)
              ends == SyncPts(frame) + DurationOf(o, frame)
  <1>1. f.sync_opts \in Int /\ f.nb \in Int /\ f.nb0 \in Int
    <2>1. conv.outputs[o].sync \in {"CFR", "VSCFR", "VFR", "PASSTHROUGH"}
      BY OutputTypes
    <2>2. OutputsTimed
      BY DEF OutputSide
    <2>. QED  BY <2>1, <2>2, SyncFramesTimed
  <1>2. ends \in Int
    BY DurationTimed
  <1>3. BeginPictures(o, f.sync_opts, f.nb, f.nb0, TRUE, ends)
    BY DEF do_video_out
  <1>. HIDE DEF f, ends
  <1>4. OutputsTimed' /\ DupTimed' /\ (pc' = "packet" => pc = "packet")
    BY <1>1, <1>2, <1>3, BeginPicturesTimed DEF OutputSide
  <1>. QED  BY <1>4, StampsStay DEF OutputSide

LEMMA FlushVideoTimed ==
    ASSUME conv \in Conversions, conv' = conv, OutputSide, UNCHANGED sent,
           pc \notin {"video", "packet"}, NEW o \in Out, FlushVideo(o)
    PROVE  OutputSide' /\ pc' # "packet"
  <1>. DEFINE last == ost[o].last_nb0
              nb == Median(last[1], last[2], last[3])
  <1>1. last \in Int \X Int \X Int /\ ost[o].sync_opts \in Int /\ ost[o].ends \in Int
    BY OutputFields DEF OutputSide, OutputsTimed
  <1>2. nb \in Int
    BY <1>1 DEF Median, Larger, Smaller
  <1>3. BeginPictures(o, ost[o].sync_opts, nb, nb, FALSE, ost[o].ends)
    BY DEF FlushVideo
  <1>. HIDE DEF nb
  <1>4. OutputsTimed' /\ DupTimed' /\ (pc' = "packet" => pc = "packet")
    BY <1>1, <1>2, <1>3, BeginPicturesTimed DEF OutputSide
  <1>. QED  BY <1>4, StampsStay DEF OutputSide

LEMMA NoDupTimed == ASSUME dup' = NoDup, pc' # "video" PROVE DupTimed'
  BY DEF NoDup, DupTimed

LEMMA VideoStepTimed ==
    ASSUME conv \in Conversions, OutputSide, VideoStep
    PROVE  OutputSide' /\ conv' = conv /\ pc' # "packet"
  <1>. DEFINE o == dup.o
  <1>1. o \in Out /\ ost[o] \in OutputState
    BY DEF OutputSide, DupTimed, OutputsTimed, VideoStep, EncodePicture, NoPicture,
           RecordingEnds, KeepPicture
  <1>2. CASE EncodePicture
    <2>. DEFINE r == [ost[o] EXCEPT !.sync_opts = @ + 1]
                q == [r EXCEPT !.frame_number = @ + 1]
                st == [ost EXCEPT ![o].sync_opts = @ + 1, ![o].frame_number = @ + 1]
    <2>1. r \in OutputState
      <3>1. ost[o].sync_opts + 1 \in Int
        BY <1>1, OutputFields
      <3>. QED  BY <1>1, <3>1, SyncOptsTimed
    <2>2. q \in OutputState
      <3>. HIDE DEF r
      <3>1. r.frame_number + 1 \in Int
        BY <2>1, OutputFields
      <3>. QED  BY <2>1, <3>1, FrameNumberTimed
    <2>3. st = [ost EXCEPT ![o] = q]
      BY <1>1 DEF OutputSide, OutputsTimed
    <2>4. st \in [Out -> OutputState]
      <3>. HIDE DEF q, st
      <3>. QED  BY <2>2, <2>3, OneOutputTimed DEF OutputSide, OutputsTimed
    <2>5. Encode(o, FrameTicks * ost[o].sync_opts, st) /\ conv' = conv /\ pc' = pc
          /\ dup' = [dup EXCEPT !.i = @ + 1] /\ pc = "video"
      BY <1>2 DEF EncodePicture
    <2>6. FrameTicks * ost[o].sync_opts \in Int
      BY <1>1, OutputFields DEF FrameTicks
    <2>7. OutputsTimed' /\ StampsTimed' /\ WellStamped'
      <3>. HIDE DEF st, o
      <3>. QED  BY <1>1, <2>4, <2>5, <2>6, EncodeTimed DEF OutputSide
    <2>. QED  BY <2>5, <2>7, SameConversion DEF OutputSide, DupTimed
  <1>3. CASE NoPicture
    BY <1>3, NoDupTimed, SameConversion, StampsStay
    DEF NoPicture, VideoReturns, OutputSide, OutputsTimed
  <1>4. CASE RecordingEnds
    <2>1. OutputsTimed'
      BY <1>4, ClosedTimed, SameConversion
      DEF RecordingEnds, close_output_stream, OutputSide, OutputsTimed
    <2>. QED  BY <2>1, <1>4, NoDupTimed, SameConversion, StampsStay
         DEF RecordingEnds, VideoReturns, OutputSide
  <1>5. CASE KeepPicture
    <2>1. OutputsTimed'
      <3>1. ost' = [ost EXCEPT ![o].last_frame = dup.next] /\ conv' = conv
            /\ dup.next \in BOOLEAN
        BY <1>5 DEF KeepPicture, OutputSide, DupTimed
      <3>. QED  BY <3>1, LastFrameTimed, OneOutputTimed, SameConversion
           DEF OutputSide, OutputsTimed
    <2>. QED  BY <2>1, <1>5, NoDupTimed, SameConversion, StampsStay
         DEF KeepPicture, VideoReturns, OutputSide
  <1>. QED  BY <1>2, <1>3, <1>4, <1>5 DEF VideoStep
-----------------------------------------------------------------------------
(* The input side *)

LEMMA InputFields ==
    ASSUME NEW r \in InputState
    PROVE  /\ r.pos \in Nat /\ r.dec \in Seq(Frame)
           /\ r.dts \in Int /\ r.pts \in Int
           /\ r.next_dts \in Int /\ r.next_pts \in Int
           /\ r.max_pts \in Int /\ r.min_pts \in Int /\ r.nb_samples \in Int
  BY DEF InputState

LEMMA NoPacketTyped == NoPacket \in Packet
  BY TimeAssumption DEF NoPacket, Packet

LEMMA PacketFields ==
    ASSUME NEW p \in Packet
    PROVE  p.dts \in Int /\ p.pts \in Int /\ p.dur \in Int
  BY DEF Packet

\* The updates that the code makes keep an input's fields numbers.
LEMMA BegunTimed ==
    ASSUME NEW r \in InputState, NEW a \in Int, NEW b \in Int
    PROVE  /\ [r EXCEPT !.saw = TRUE, !.dts = a, !.pts = b] \in InputState
           /\ [r EXCEPT !.next_dts = a, !.next_pts = b] \in InputState
           /\ [r EXCEPT !.pts = a, !.dts = b] \in InputState
           /\ [r EXCEPT !.dts = a, !.next_dts = b] \in InputState
           /\ [r EXCEPT !.pts = a, !.next_pts = b] \in InputState
  BY DEF InputState

LEMMA TimesTimed ==
    ASSUME NEW r \in InputState, NEW a \in Int, NEW b \in Int, NEW c \in Int, NEW d \in Int
    PROVE  /\ [r EXCEPT !.dts = a, !.next_dts = b, !.pts = c, !.next_pts = d] \in InputState
           /\ [r EXCEPT !.pts = a, !.dts = b, !.next_pts = c, !.next_dts = d] \in InputState
  BY DEF InputState

LEMMA AdvancedTimed ==
    ASSUME NEW r \in InputState, NEW a \in Int, NEW b \in Int, NEW c \in Int
    PROVE  /\ [r EXCEPT !.pts = a, !.dts = b, !.next_dts = c] \in InputState
           /\ [r EXCEPT !.next_pts = a, !.next_dts = b, !.nb_samples = c] \in InputState
  BY DEF InputState

LEMMA ReadTimed ==
    ASSUME NEW r \in InputState, NEW n \in Nat, NEW a \in Int, NEW b \in Int
    PROVE  [r EXCEPT !.pos = n, !.max_pts = a, !.min_pts = b] \in InputState
  BY DEF InputState

LEMMA RewoundTimed ==
    ASSUME NEW r \in InputState PROVE [r EXCEPT !.pos = 0] \in InputState
  BY DEF InputState

LEMMA DecTimed ==
    ASSUME NEW r \in InputState, NEW frames \in Seq(Frame)
    PROVE  [r EXCEPT !.dec = frames] \in InputState
  BY DEF InputState

LEMMA SeenTimed ==
    ASSUME conv \in Conversions, NEW s \in Streams, NEW p \in Packet, NEW i \in InputState
    PROVE  Seen(s, p, i) \in InputState
  <1>. DEFINE early == IF VideoIn(s)
                       THEN -(conv.inputs[s].depth * conv.inputs[s].rate) ELSE 0
              given == p.pts # NoPts /\ ~DecodingNeeded(s)
              a == IF given THEN early + p.pts ELSE early
              b == IF given THEN early + p.pts ELSE 0
              j == IF i.saw THEN i ELSE [i EXCEPT !.saw = TRUE, !.dts = a, !.pts = b]
              c == IF j.next_dts = NoPts THEN j.dts ELSE j.next_dts
              d == IF j.next_pts = NoPts THEN j.pts ELSE j.next_pts
              k == [j EXCEPT !.next_dts = c, !.next_pts = d]
  <1>1. early \in Int
    BY StreamTypes
  <1>2. a \in Int /\ b \in Int
    <2>. HIDE DEF early
    <2>. QED  BY <1>1, PacketFields
  <1>3. j \in InputState
    <2>. HIDE DEF a, b
    <2>. QED  BY <1>2, BegunTimed
  <1>4. c \in Int /\ d \in Int
    <2>. HIDE DEF j
    <2>. QED  BY <1>3, InputFields
  <1>5. k \in InputState
    <2>. HIDE DEF j, c, d
    <2>. QED  BY <1>3, <1>4, BegunTimed
  <1>6. Seen(s, p, i) =
           IF p.dts = NoPts THEN k
           ELSE IF VideoIn(s) /\ DecodingNeeded(s)
           THEN [k EXCEPT !.dts = p.dts, !.next_dts = p.dts]
           ELSE [k EXCEPT !.dts = p.dts, !.next_dts = p.dts,
                          !.pts = p.dts, !.next_pts = p.dts]
    BY DEF Seen
  <1>. HIDE DEF k
  <1>7. p.dts \in Int
    BY PacketFields
  <1>8. /\ [k EXCEPT !.dts = p.dts, !.next_dts = p.dts] \in InputState
        /\ [k EXCEPT !.dts = p.dts, !.next_dts = p.dts,
                     !.pts = p.dts, !.next_pts = p.dts] \in InputState
    BY <1>5, <1>7, BegunTimed, TimesTimed
  <1>. QED  BY <1>5, <1>6, <1>8

\* One frame taken out of a sequence leaves the others.
LEMMA RemoveAtTimed ==
    ASSUME NEW frames \in Seq(Frame), NEW k \in DOMAIN frames
    PROVE  RemoveAt(frames, k) \in Seq(Frame)
  <1>1. /\ k \in 1..Len(frames) /\ Len(frames) \in Nat
        /\ \A i \in 1..Len(frames) : frames[i] \in Frame
    BY ElementOfSeq
  <1>2. SubSeq(frames, 1, k - 1) \in Seq(Frame)
    <2>1. \A i \in 1..k - 1 : frames[i] \in Frame
      BY <1>1
    <2>2. 1 \in Int /\ k - 1 \in Int
      BY <1>1
    <2>. QED  BY <2>1, <2>2, SubSeqProperties
  <1>3. SubSeq(frames, k + 1, Len(frames)) \in Seq(Frame)
    <2>1. \A i \in k + 1..Len(frames) : frames[i] \in Frame
      BY <1>1
    <2>2. k + 1 \in Int /\ Len(frames) \in Int
      BY <1>1
    <2>. QED  BY <2>1, <2>2, SubSeqProperties
  <1>. QED  BY <1>2, <1>3, ConcatProperties DEF RemoveAt

\* A decoder that holds frames can give one of them.
LEMMA LeavingInside ==
    ASSUME NEW s, NEW inside \in Seq(Frame), inside # <<>>
    PROVE  Leaving(s, inside) \in DOMAIN inside
  <1>1. DOMAIN inside = 1..Len(inside) /\ Len(inside) \in Nat \ {0}
    BY EmptySeq
  <1>2. CASE VideoIn(s)
    <2>. DEFINE times == {inside[l].pts : l \in DOMAIN inside}
    <2>1. times \subseteq Int /\ times # {}
      <3>1. ASSUME NEW l \in DOMAIN inside PROVE inside[l].pts \in Int
        <4>1. inside[l] \in Frame
          BY <1>1, ElementOfSeq
        <4>. QED  BY <4>1 DEF Frame
      <3>. QED  BY <1>1, <3>1
    <2>2. IsFiniteSet(times)
      <3>1. IsFiniteSet(1..Len(inside))
        BY <1>1, FS_Interval
      <3>. DEFINE f == [l \in 1..Len(inside) |-> inside[l].pts]
      <3>2. IsFiniteSet({f[l] : l \in 1..Len(inside)})
        <4>1. DOMAIN f = 1..Len(inside)
          OBVIOUS
        <4>. HIDE DEF f
        <4>. QED  BY <3>1, <4>1, FiniteRange
      <3>3. {f[l] : l \in 1..Len(inside)} = times
        BY <1>1
      <3>. QED  BY <3>2, <3>3
    <2>3. Least(times) # {}
      <3>. HIDE DEF times
      <3>. QED  BY <2>1, <2>2, FiniteSetHasLeast
    <2>4. PICK k \in DOMAIN inside :
                \A l \in DOMAIN inside : inside[k].pts <= inside[l].pts
      BY <2>3 DEF Least
    <2>. QED  BY <1>2, <2>4 DEF Leaving
  <1>3. CASE ~VideoIn(s)
    BY <1>1, <1>3 DEF Leaving
  <1>. QED  BY <1>2, <1>3

Decoded == [ist : InputState, frames : Seq(Frame)]

LEMMA OneFrame == ASSUME NEW frame \in Frame PROVE <<frame>> \in Seq(Frame)
  OBVIOUS

LEMMA NoFrame == <<>> \in Seq(Frame)
  OBVIOUS

LEMMA DecodedVideo ==
    ASSUME NEW i \in InputState, NEW out \in Frame
    PROVE  decode_video(i, out) \in Decoded
  <1>1. out.pts \in Int
    BY DEF Frame
  <1>2. [i EXCEPT !.pts = out.pts, !.next_pts = out.pts] \in InputState
    BY <1>1, BegunTimed
  <1>. QED  BY <1>2, OneFrame DEF decode_video, Decoded

LEMMA DecodedAudio ==
    ASSUME NEW i \in InputState, NEW out \in Frame, NEW p \in Packet
    PROVE  decode_audio(i, out, p) \in Decoded
  <1>. DEFINE a == i.next_pts + out.dur
              b == i.next_dts + out.dur
              t == IF out.pts # NoPts THEN out.pts
                   ELSE IF p.pts # NoPts THEN p.pts ELSE i.dts
  <1>1. out.pts \in Int /\ out.dur \in Int
    BY DEF Frame
  <1>2. a \in Int /\ b \in Int /\ t \in Int
    BY <1>1, InputFields, PacketFields
  <1>3. [i EXCEPT !.next_pts = a, !.next_dts = b, !.nb_samples = out.dur] \in InputState
    <2>. HIDE DEF a, b
    <2>. QED  BY <1>1, <1>2, AdvancedTimed
  <1>4. [out EXCEPT !.pts = t] \in Frame
    <2>. HIDE DEF t
    <2>. QED  BY <1>2 DEF Frame
  <1>5. decode_audio(i, out, p) =
          [ist |-> [i EXCEPT !.next_pts = a, !.next_dts = b, !.nb_samples = out.dur],
           frames |-> <<[out EXCEPT !.pts = t]>>]
    BY DEF decode_audio
  <1>. HIDE DEF a, b, t
  <1>. QED  BY <1>3, <1>4, <1>5, OneFrame DEF Decoded

LEMMA NextDtsTimed ==
    ASSUME conv \in Conversions, NEW s \in Streams, NEW p \in Packet,
           NEW i \in InputState
    PROVE  Long(s, p) \in Int /\ NextDts(s, p, i) \in Int
  <1>1. conv.inputs[s].rate \in Int /\ p.dur \in Int /\ i.next_dts \in Int
    BY StreamTypes, PacketFields, InputFields
  <1>2. Long(s, p) \in Int
    BY <1>1 DEF Long
  <1>. QED  BY <1>1, <1>2, TimeAssumption DEF NextDts

LEMMA DecodeTimed ==
    ASSUME conv \in Conversions, NEW s \in Streams, NEW p \in Packet,
           NEW i0 \in InputState
    PROVE  Decode(s, p, i0) \in Decoded
  <1>. DEFINE end == p = NoPacket
              i == [i0 EXCEPT !.pts = i0.next_pts, !.dts = i0.next_dts]
              inside == IF end THEN i.dec ELSE Append(i.dec, Incoming(s, p, i))
              gives == inside # <<>> /\ (end \/ Len(inside) > conv.inputs[s].depth)
              k == Leaving(s, inside)
              dec == IF gives THEN RemoveAt(inside, k) ELSE inside
              fed == [i EXCEPT !.dec = dec]
              d == IF ~gives THEN [ist |-> fed, frames |-> <<>>]
                   ELSE IF VideoIn(s) THEN decode_video(fed, inside[k])
                   ELSE decode_audio(fed, inside[k], p)
              long == Long(s, p)
              then == NextDts(s, p, i)
              next == IF gives THEN d.ist.next_pts + long ELSE d.ist.next_pts
  <1>1. i \in InputState
    BY BegunTimed, InputFields
  <1>. HIDE DEF i
  <1>2. inside \in Seq(Frame)
    <2>1. i.dec \in Seq(Frame) /\ i.dts \in Int /\ p.pts \in Int /\ p.dur \in Int
      BY <1>1, InputFields, PacketFields
    <2>2. Incoming(s, p, i) \in Frame
      BY <2>1 DEF Incoming, Frame
    <2>. QED  BY <2>1, <2>2, AppendProperties
  <1>. HIDE DEF inside
  <1>3. ASSUME gives PROVE k \in DOMAIN inside /\ inside[k] \in Frame
    <2>1. k \in DOMAIN inside
      BY <1>2, <1>3, LeavingInside
    <2>. HIDE DEF k
    <2>. QED  BY <1>2, <2>1, ElementOfSeq
  <1>. HIDE DEF k
  <1>4. dec \in Seq(Frame)
    BY <1>2, <1>3, RemoveAtTimed
  <1>5. fed \in InputState
    <2>. HIDE DEF dec
    <2>. QED  BY <1>1, <1>4, DecTimed
  <1>. HIDE DEF fed
  <1>6. d \in Decoded
    <2>1. [ist |-> fed, frames |-> <<>>] \in Decoded
      BY <1>5, NoFrame DEF Decoded
    <2>2. ASSUME gives
          PROVE  /\ decode_video(fed, inside[k]) \in Decoded
                 /\ decode_audio(fed, inside[k], p) \in Decoded
      BY <1>3, <1>5, <2>2, DecodedVideo, DecodedAudio
    <2>. HIDE DEF gives
    <2>. QED  BY <2>1, <2>2
  <1>. HIDE DEF d, gives
  <1>7. d.ist \in InputState /\ d = [ist |-> d.ist, frames |-> d.frames]
        /\ d.frames \in Seq(Frame)
    BY <1>6 DEF Decoded
  <1>8. long \in Int /\ then \in Int
    BY <1>1, NextDtsTimed
  <1>. HIDE DEF long, then
  <1>9. next \in Int
    BY <1>7, <1>8, InputFields
  <1>10. Decode(s, p, i0) =
           IF VideoIn(s)
           THEN [d EXCEPT !.ist = [d.ist EXCEPT !.next_dts = then, !.next_pts = next]]
           ELSE d
    <2>1. Decode(s, p, i0) =
           IF VideoIn(s)
           THEN [d EXCEPT !.ist.next_dts = then,
                          !.ist.next_pts = IF gives THEN @ + long ELSE @]
           ELSE d
      BY DEF Decode, d, gives, fed, k, inside, i, long, then
    <2>2. [d EXCEPT !.ist.next_dts = then,
                    !.ist.next_pts = IF gives THEN @ + long ELSE @]
          = [d EXCEPT !.ist = [d.ist EXCEPT !.next_dts = then, !.next_pts = next]]
      BY <1>7 DEF InputState
    <2>. QED  BY <2>1, <2>2
  <1>11. [d.ist EXCEPT !.next_dts = then, !.next_pts = next] \in InputState
    <2>. HIDE DEF next
    <2>. QED  BY <1>7, <1>8, <1>9, BegunTimed
  <1>. QED  BY <1>6, <1>7, <1>10, <1>11 DEF Decoded
-----------------------------------------------------------------------------
(* The filter graphs *)

LEMMA GraphFields ==
    ASSUME NEW o, NEW g \in GraphState(o)
    PROVE  /\ g.queue \in [From(o) -> Seq(Frame)]
           /\ g.held \in Seq(Frame) /\ g.sink \in Seq(Frame)
           /\ g.closed \in SUBSET From(o)
  BY DEF GraphState

LEMMA QueueTimed ==
    ASSUME NEW o, NEW g \in GraphState(o), NEW q \in [From(o) -> Seq(Frame)]
    PROVE  [g EXCEPT !.queue = q] \in GraphState(o)
  BY DEF GraphState

LEMMA HeldTimed ==
    ASSUME NEW o, NEW g \in GraphState(o), NEW h \in Seq(Frame), NEW f \in Seq(Frame)
    PROVE  /\ [g EXCEPT !.held = h, !.sink = f] \in GraphState(o)
           /\ [g EXCEPT !.held = h] \in GraphState(o)
           /\ [g EXCEPT !.sink = f] \in GraphState(o)
  BY DEF GraphState

LEMMA GraphEndTimed ==
    ASSUME NEW o, NEW g \in GraphState(o), NEW S \in SUBSET From(o)
    PROVE  /\ [g EXCEPT !.closed = S] \in GraphState(o)
           /\ [g EXCEPT !.eof = TRUE] \in GraphState(o)
  BY DEF GraphState

LEMMA MadeTimed ==
    ASSUME NEW o, NEW g \in GraphState(o), NEW frame \in Frame, NEW lag
    PROVE  Made(g, frame, lag) \in GraphState(o)
  <1>. DEFINE frames == Append(g.held, frame)
              more == Append(g.sink, Head(frames))
  <1>1. frames \in Seq(Frame) /\ frames # <<>>
    BY GraphFields, AppendProperties
  <1>2. Head(frames) \in Frame /\ Tail(frames) \in Seq(Frame)
    <2>. HIDE DEF frames
    <2>. QED  BY <1>1, HeadTailProperties
  <1>3. more \in Seq(Frame)
    <2>. HIDE DEF frames
    <2>. QED  BY <1>2, GraphFields, AppendProperties
  <1>4. Made(g, frame, lag) =
          IF Len(frames) > lag THEN [g EXCEPT !.held = Tail(frames), !.sink = more]
          ELSE [g EXCEPT !.held = frames]
    BY DEF Made
  <1>. HIDE DEF frames, more
  <1>5. [g EXCEPT !.held = Tail(frames), !.sink = more] \in GraphState(o)
    BY <1>2, <1>3, HeldTimed
  <1>6. [g EXCEPT !.held = frames] \in GraphState(o)
    BY <1>1, <1>3, HeldTimed
  <1>. QED  BY <1>4, <1>5, <1>6

LEMMA PushedTimed ==
    ASSUME GraphsTimed, NEW S, NEW frames, \A s \in S : frames[s] \in Seq(Frame),
           NEW o \in Encoded
    PROVE  Pushed(S, frames)[o] \in GraphState(o)
  <1>. DEFINE new(s) == IF s \in S THEN frames[s] ELSE <<>>
              g == graph[o]
              only == CHOOSE s \in From(o) : TRUE
              q == [s \in From(o) |-> g.queue[s] \o new(s)]
  <1>1. g \in GraphState(o)
    BY DEF GraphsTimed
  <1>2. ASSUME NEW s PROVE new(s) \in Seq(Frame)
    BY NoFrame
  <1>3. Pushed(S, frames)[o] =
          IF Cardinality(From(o)) > 1 THEN [g EXCEPT !.queue = q]
          ELSE IF new(only) = <<>> THEN g
          ELSE Made(g, new(only)[1], conv.outputs[o].lag)
    BY DEF Pushed
  <1>4. q \in [From(o) -> Seq(Frame)]
    <2>1. ASSUME NEW s \in From(o) PROVE g.queue[s] \o new(s) \in Seq(Frame)
      <3>1. g.queue[s] \in Seq(Frame)
        BY <1>1, GraphFields
      <3>. HIDE DEF new, g
      <3>. QED  BY <1>2, <3>1, ConcatProperties
    <2>. QED  BY <2>1
  <1>5. ASSUME new(only) # <<>> PROVE new(only)[1] \in Frame
    <2>1. new(only) \in Seq(Frame)
      BY <1>2
    <2>. HIDE DEF new, only
    <2>2. 1 \in 1..Len(new(only))
      BY <1>5, <2>1, EmptySeq
    <2>. QED  BY <2>1, <2>2, ElementOfSeq
  <1>. HIDE DEF g, q, new, only
  <1>. QED  BY <1>1, <1>3, <1>4, <1>5, QueueTimed, MadeTimed

\* The queues without the frames at their heads.
LeftToMix(o) ==
    [s \in From(o) |-> IF s \in Waiting(o) THEN Tail(graph[o].queue[s])
                                          ELSE graph[o].queue[s]]

LEMMA MixIsMade ==
    ASSUME conv \in Conversions, GraphsTimed, NEW o \in Encoded, Waiting(o) # {}
    PROVE  \E q \in [From(o) -> Seq(Frame)], frame \in Frame :
              /\ q = LeftToMix(o)
              /\ Mix(o) = Made([graph[o] EXCEPT !.queue = q], frame, conv.outputs[o].lag)
  <1>. DEFINE g == graph[o]
              heads == {Head(g.queue[s]) : s \in Waiting(o)}
              q == [s \in From(o) |->
                      IF s \in Waiting(o) THEN Tail(g.queue[s]) ELSE g.queue[s]]
              starts == {h.pts : h \in heads}
              lengths == {h.dur : h \in heads}
              frame == [pts |-> Min(starts), dur |-> Max(lengths)]
  <1>1. g \in GraphState(o) /\ o \in Out
    BY DEF GraphsTimed, Encoded
  <1>2. IsFiniteSet(Waiting(o))
    <2>1. Waiting(o) \subseteq Streams
      BY <1>1, OutputTypes DEF Waiting
    <2>. QED  BY <2>1, ConversionDomains, FS_Subset
  <1>3. ASSUME NEW s \in From(o)
        PROVE  /\ g.queue[s] \in Seq(Frame)
               /\ s \in Waiting(o) => /\ Head(g.queue[s]) \in Frame
                                      /\ Tail(g.queue[s]) \in Seq(Frame)
    <2>1. g.queue[s] \in Seq(Frame)
      BY <1>1, GraphFields
    <2>. QED  BY <2>1, HeadTailProperties DEF Waiting
  <1>4. heads \subseteq Frame /\ heads # {}
    BY <1>3 DEF Waiting
  <1>5. IsFiniteSet(heads)
    <2>. DEFINE f == [s \in Waiting(o) |-> Head(g.queue[s])]
    <2>1. IsFiniteSet({f[s] : s \in Waiting(o)})
      <3>1. DOMAIN f = Waiting(o)
        OBVIOUS
      <3>. HIDE DEF f
      <3>. QED  BY <1>2, <3>1, FiniteRange
    <2>2. {f[s] : s \in Waiting(o)} = heads
      OBVIOUS
    <2>. QED  BY <2>1, <2>2
  <1>. HIDE DEF heads
  <1>6. starts \subseteq Int /\ starts # {} /\ lengths \subseteq Int /\ lengths # {}
    BY <1>4 DEF Frame
  <1>7. IsFiniteSet(starts)
    <2>. DEFINE f == [h \in heads |-> h.pts]
    <2>1. IsFiniteSet({f[h] : h \in heads})
      <3>1. DOMAIN f = heads
        OBVIOUS
      <3>. HIDE DEF f
      <3>. QED  BY <1>5, <3>1, FiniteRange
    <2>2. {f[h] : h \in heads} = starts
      OBVIOUS
    <2>. QED  BY <2>1, <2>2
  <1>8. IsFiniteSet(lengths)
    <2>. DEFINE f == [h \in heads |-> h.dur]
    <2>1. IsFiniteSet({f[h] : h \in heads})
      <3>1. DOMAIN f = heads
        OBVIOUS
      <3>. HIDE DEF f
      <3>. QED  BY <1>5, <3>1, FiniteRange
    <2>2. {f[h] : h \in heads} = lengths
      OBVIOUS
    <2>. QED  BY <2>1, <2>2
  <1>9. Min(starts) \in Int /\ Max(lengths) \in Int
    <2>. HIDE DEF starts, lengths
    <2>. QED  BY <1>6, <1>7, <1>8, MinInSet, MaxInSet
  <1>10. frame \in Frame
    <2>. HIDE DEF starts, lengths
    <2>. QED  BY <1>9 DEF Frame
  <1>11. q \in [From(o) -> Seq(Frame)]
    BY <1>3
  <1>12. Mix(o) = Made([g EXCEPT !.queue = q], frame, conv.outputs[o].lag)
    BY DEF Mix, heads
  <1>13. q = LeftToMix(o)
    BY DEF LeftToMix
  <1>. HIDE DEF q, frame
  <1>. QED  BY <1>10, <1>11, <1>12, <1>13

LEMMA MixTimed ==
    ASSUME conv \in Conversions, GraphsTimed, NEW o \in Encoded, Waiting(o) # {}
    PROVE  Mix(o) \in GraphState(o)
  <1>1. PICK q \in [From(o) -> Seq(Frame)], frame \in Frame :
               Mix(o) = Made([graph[o] EXCEPT !.queue = q], frame, conv.outputs[o].lag)
    BY MixIsMade
  <1>2. graph[o] \in GraphState(o)
    BY DEF GraphsTimed
  <1>3. [graph[o] EXCEPT !.queue = q] \in GraphState(o)
    BY <1>2, QueueTimed
  <1>. QED  BY <1>1, <1>3, MadeTimed
-----------------------------------------------------------------------------
(* Steps that leave one side alone, or change only a part of it *)

LEMMA OutputsOnly ==
    ASSUME conv' = conv, OutputSide, ost' \in [Out -> OutputState],
           UNCHANGED <<dup, sent>>, pc' # "video"
    PROVE  OutputSide'
  BY SameConversion, StampsStay DEF OutputSide, OutputsTimed, DupTimed

LEMMA OutputsAlone ==
    ASSUME conv' = conv, OutputSide, UNCHANGED <<ost, dup, sent>>, pc' # "video"
    PROVE  OutputSide'
  BY OutputsOnly DEF OutputSide, OutputsTimed

LEMMA InputsAlone ==
    ASSUME conv' = conv, InputSide, UNCHANGED <<pkt, file, ist, graph>>, pc' # "packet"
    PROVE  InputSide'
  BY SameConversion DEF InputSide, FilesTimed, InputsTimed, GraphsTimed, PacketTimed

LEMMA FileFields ==
    ASSUME NEW r \in FileState
    PROVE  /\ r.ts_offset \in Int /\ r.last_ts \in Int
           /\ r.loop \in Int /\ r.duration \in Int
  BY DEF FileState

LEMMA FlagsTimed ==
    ASSUME NEW r \in FileState, NEW b \in BOOLEAN
    PROVE  /\ [r EXCEPT !.eagain = b] \in FileState
           /\ [r EXCEPT !.eof_reached = b] \in FileState
  BY DEF FileState

LEMMA OffsetTimed ==
    ASSUME NEW r \in FileState, NEW a \in Int, NEW b \in Int
    PROVE  /\ [r EXCEPT !.ts_offset = a, !.last_ts = b] \in FileState
           /\ [r EXCEPT !.loop = a, !.duration = b] \in FileState
  BY DEF FileState

LEMMA ResetTimed == ASSUME FilesTimed PROVE reset_eagain \in [Files -> FileState]
  BY FlagsTimed DEF FilesTimed, reset_eagain

LEMMA AvailableTimed ==
    ASSUME OutputsTimed PROVE Available(ost) \in [Out -> OutputState]
  BY UnavailableTimed DEF OutputsTimed, Available

LEMMA FinishTimed ==
    ASSUME OutputsTimed, NEW S PROVE finish_output_stream(ost, S) \in [Out -> OutputState]
  <1>1. ASSUME NEW r \in OutputState
        PROVE  [r EXCEPT !.finished = {"ENCODER", "MUXER"}] \in OutputState
    BY DEF OutputState
  <1>. QED  BY <1>1 DEF OutputsTimed, finish_output_stream

LEMMA PausedTimed ==
    ASSUME NEW st \in [Out -> OutputState], NEW o
    PROVE  [st EXCEPT ![o].unavailable = TRUE] \in [Out -> OutputState]
  BY UnavailableTimed, OneOutputTimed

LEMMA OneGraphTimed ==
    ASSUME conv' = conv, GraphsTimed, NEW o, NEW g, o \in Encoded => g \in GraphState(o),
           graph' = [graph EXCEPT ![o] = g]
    PROVE  GraphsTimed'
  BY SameConversion DEF GraphsTimed

\* close_output_stream, when nothing else happens to the outputs.
LEMMA ClosingTimed ==
    ASSUME conv' = conv, OutputSide, NEW S, close_output_stream(S, ost),
           UNCHANGED <<dup, sent>>, pc' # "video"
    PROVE  OutputSide'
  <1>1. ost' \in [Out -> OutputState]
    BY ClosedTimed DEF close_output_stream, OutputSide, OutputsTimed
  <1>. QED  BY <1>1, OutputsOnly
-----------------------------------------------------------------------------
(* The steps: choosing, filters *)

LEMMA NeedOutputTimed ==
    ASSUME StampInv, NeedOutput PROVE StampInv'
  <1>1. /\ conv' = conv /\ UNCHANGED <<dup, sent, pkt, file, ist, graph>>
        /\ pc' \notin {"video", "packet"}
        /\ \E S : close_output_stream(S, ost)
    BY DEF NeedOutput, inputs
  <1>2. OutputSide'
    BY <1>1, ClosingTimed DEF StampInv
  <1>3. InputSide'
    BY <1>1, InputsAlone DEF StampInv
  <1>. QED  BY <1>1, <1>2, <1>3 DEF StampInv

\* Stop, FilterFails, SeekFails, CopyFails, Trailers and EncoderFails only
\* change pc.
LEMMA JumpTimed ==
    ASSUME StampInv, Stop \/ FilterFails \/ SeekFails
                     \/ CopyFails \/ Trailers \/ EncoderFails
    PROVE  StampInv'
  <1>1. /\ conv' = conv /\ UNCHANGED <<ost, dup, sent, pkt, file, ist, graph>>
        /\ pc' \notin {"video", "packet"}
    BY DEF Stop, FilterFails, SeekFails, CopyFails, Trailers, EncoderFails, inputs
  <1>. QED  BY <1>1, OutputsAlone, InputsAlone DEF StampInv

LEMMA ChooseTimed ==
    ASSUME StampInv, choose_output PROVE StampInv'
  <1>1. /\ conv' = conv /\ UNCHANGED <<dup, sent, pkt, ist, graph>>
        /\ pc' \notin {"video", "packet"}
        /\ \/ ost' = Available(ost) /\ file' = reset_eagain
           \/ UNCHANGED <<ost, file>>
    BY DEF choose_output
  <1>2. ost' \in [Out -> OutputState]
    BY <1>1, AvailableTimed DEF StampInv, OutputSide, OutputsTimed
  <1>3. file' \in [Files -> FileState]
    BY <1>1, ResetTimed DEF StampInv, InputSide, FilesTimed
  <1>4. OutputSide'
    BY <1>1, <1>2, OutputsOnly DEF StampInv
  <1>5. InputSide'
    BY <1>1, <1>3, SameConversion
    DEF StampInv, InputSide, FilesTimed, InputsTimed, GraphsTimed, PacketTimed
  <1>. QED  BY <1>1, <1>4, <1>5 DEF StampInv

LEMMA FilterGivesTimed ==
    ASSUME StampInv, FilterGives PROVE StampInv'
  <1>1. /\ conv' = conv /\ UNCHANGED <<ost, dup, sent, pkt, file, ist>>
        /\ pc' = "reap" /\ GraphsTimed
    BY DEF FilterGives, Reap, StampInv, InputSide
  <1>2. GraphsTimed'
    <2>1. CASE Waiting(cur) # {}
      <3>1. graph' = [graph EXCEPT ![cur] = Mix(cur)]
        BY <2>1 DEF FilterGives
      <3>2. cur \in Encoded => Mix(cur) \in GraphState(cur)
        BY <1>1, <2>1, MixTimed DEF StampInv
      <3>. QED  BY <1>1, <3>1, <3>2, OneGraphTimed
    <2>2. CASE Waiting(cur) = {} /\ graph[cur].held # <<>>
      <3>. DEFINE g == graph[cur]
                  more == g.sink \o g.held
                  h == [g EXCEPT !.sink = more, !.held = <<>>]
      <3>1. graph' = [graph EXCEPT ![cur].sink = @ \o graph[cur].held,
                                   ![cur].held = <<>>]
        BY <2>2 DEF FilterGives
      <3>2. graph' = [graph EXCEPT ![cur] = h]
        BY <3>1
      <3>3. ASSUME cur \in Encoded PROVE h \in GraphState(cur)
        <4>1. g \in GraphState(cur)
          BY <1>1, <3>3 DEF GraphsTimed
        <4>. HIDE DEF g
        <4>2. more \in Seq(Frame)
          BY <4>1, GraphFields, ConcatProperties
        <4>3. h = [g EXCEPT !.held = <<>>, !.sink = more]
          BY <4>1 DEF GraphState
        <4>. HIDE DEF more, h
        <4>. QED  BY <4>1, <4>2, <4>3, NoFrame, HeldTimed
      <3>. HIDE DEF h
      <3>. QED  BY <1>1, <3>2, <3>3, OneGraphTimed
    <2>3. CASE Waiting(cur) = {} /\ graph[cur].held = <<>>
      <3>1. graph' = [graph EXCEPT ![cur] = [graph[cur] EXCEPT !.eof = TRUE]]
        BY <2>3 DEF FilterGives
      <3>2. ASSUME cur \in Encoded
            PROVE  [graph[cur] EXCEPT !.eof = TRUE] \in GraphState(cur)
        <4>1. graph[cur] \in GraphState(cur)
          BY <1>1, <3>2 DEF GraphsTimed
        <4>. QED  BY <4>1, {} \in SUBSET From(cur), GraphEndTimed
      <3>. QED  BY <1>1, <3>1, <3>2, OneGraphTimed
    <2>. QED  BY <2>1, <2>2, <2>3
  <1>3. OutputSide'
    BY <1>1, OutputsAlone DEF StampInv
  <1>4. InputSide'
    BY <1>1, <1>2, SameConversion
    DEF StampInv, InputSide, FilesTimed, InputsTimed, PacketTimed
  <1>. QED  BY <1>1, <1>3, <1>4 DEF StampInv

LEMMA FilterNeedsTimed ==
    ASSUME StampInv, FilterNeeds PROVE StampInv'
  <1>1. /\ conv' = conv /\ UNCHANGED <<dup, sent, pkt, file, ist, graph>>
        /\ pc' \notin {"video", "packet"}
        /\ ost' = ost \/ ost' = [ost EXCEPT ![cur].unavailable = TRUE]
    BY DEF FilterNeeds, loop
  <1>2. ost' \in [Out -> OutputState]
    BY <1>1, PausedTimed DEF StampInv, OutputSide, OutputsTimed
  <1>3. OutputSide'
    BY <1>1, <1>2, OutputsOnly DEF StampInv
  <1>4. InputSide'
    BY <1>1, InputsAlone DEF StampInv
  <1>. QED  BY <1>1, <1>3, <1>4 DEF StampInv

\* A demuxer without a packet: the file and the output are marked.
LEMMA WouldBlockTimed ==
    ASSUME StampInv, WouldBlock PROVE StampInv'
  <1>1. /\ conv' = conv /\ UNCHANGED <<dup, sent, pkt, ist, graph>>
        /\ pc' = "loop"
        /\ ost' = [ost EXCEPT ![cur].unavailable = TRUE]
        /\ file' = [file EXCEPT ![src].eagain = TRUE]
    BY DEF WouldBlock
  <1>2. ost' \in [Out -> OutputState]
    BY <1>1, PausedTimed DEF StampInv, OutputSide, OutputsTimed
  <1>3. file' \in [Files -> FileState]
    BY <1>1, FlagsTimed DEF StampInv, InputSide, FilesTimed
  <1>4. OutputSide'
    BY <1>1, <1>2, OutputsOnly DEF StampInv
  <1>5. InputSide'
    BY <1>1, <1>3, SameConversion
    DEF StampInv, InputSide, FilesTimed, InputsTimed, GraphsTimed, PacketTimed
  <1>. QED  BY <1>1, <1>4, <1>5 DEF StampInv
-----------------------------------------------------------------------------
(* The steps: reading and decoding *)

LEMMA ShiftedTimed ==
    ASSUME NEW p \in Packet, NEW d \in Int PROVE Shifted(p, d) \in Packet
  <1>. DEFINE a == IF p.dts = NoPts THEN p.dts ELSE p.dts + d
              b == IF p.pts = NoPts THEN p.pts ELSE p.pts + d
  <1>1. a \in Int /\ b \in Int
    BY PacketFields
  <1>2. Shifted(p, d) = [p EXCEPT !.dts = a, !.pts = b]
    BY DEF Shifted
  <1>. HIDE DEF a, b
  <1>. QED  BY <1>1, <1>2 DEF Packet

LEMMA CorrectedTimed ==
    ASSUME conv \in Conversions, FilesTimed, InputsTimed,
           NEW s \in Streams, NEW packet \in Packet
    PROVE  /\ Corrected(s, packet).packet \in Packet
           /\ Corrected(s, packet).ts_offset \in Int
           /\ Corrected(s, packet).range \in Int
  <1>. DEFINE f == conv.inputs[s].file
              discont == conv.files[f].discont
              i == ist[s]
              p1 == Shifted(packet, file[f].ts_offset)
              jump1 == IF /\ discont /\ p1.dts # NoPts
                          /\ i.next_dts = NoPts /\ file[f].last_ts # NoPts
                          /\ Beyond(p1.dts - file[f].last_ts, DeltaThreshold)
                       THEN p1.dts - file[f].last_ts ELSE 0
              p2 == Shifted(p1, file[f].duration - jump1)
              delta == p2.dts - i.next_dts
              known == p2.dts # NoPts /\ i.next_dts # NoPts
              jump2 == IF /\ discont /\ known
                          /\ \/ Beyond(delta, DeltaThreshold)
                             \/ p2.dts + BackStep < Larger(i.pts, i.dts)
                       THEN delta ELSE 0
              Kept(ts) == IF ts # NoPts /\ Beyond(ts - i.next_dts, ErrorThreshold)
                          THEN NoPts ELSE ts
              p3 == [p2 EXCEPT !.dts = Kept(p2.dts), !.pts = Kept(p2.pts)]
              p4 == Shifted(p2, -jump2)
              offset == file[f].ts_offset - jump1 - jump2
  <1>1. file[f] \in FileState /\ i \in InputState
    BY StreamTypes DEF FilesTimed, InputsTimed
  <1>2. /\ file[f].ts_offset \in Int /\ file[f].last_ts \in Int
        /\ file[f].duration \in Int /\ i.next_dts \in Int
    BY <1>1, FileFields, InputFields
  <1>3. p1 \in Packet
    BY <1>2, ShiftedTimed
  <1>. HIDE DEF p1
  <1>4. jump1 \in Int
    BY <1>2, <1>3, PacketFields
  <1>. HIDE DEF jump1
  <1>5. p2 \in Packet
    BY <1>2, <1>3, <1>4, ShiftedTimed
  <1>. HIDE DEF p2
  <1>6. p2.dts \in Int /\ p2.pts \in Int
    BY <1>5, PacketFields
  <1>7. jump2 \in Int
    BY <1>2, <1>6
  <1>. HIDE DEF jump2
  <1>8. offset \in Int
    BY <1>2, <1>4, <1>7
  <1>9. p4 \in Packet
    BY <1>5, <1>7, ShiftedTimed
  <1>10. p3 \in Packet
    <2>. DEFINE a == Kept(p2.dts)
                b == Kept(p2.pts)
    <2>1. a \in Int /\ b \in Int
      BY <1>6, TimeAssumption
    <2>. HIDE DEF a, b
    <2>2. [p2 EXCEPT !.dts = a, !.pts = b] \in Packet
      BY <1>5, <2>1 DEF Packet
    <2>. QED  BY <2>2 DEF a, b
  <1>11. Corrected(s, packet) =
           [packet |-> IF known /\ ~discont THEN p3 ELSE p4,
            ts_offset |-> offset, range |-> p2.pts]
    BY DEF Corrected, p1, p2, jump1, jump2
  <1>. HIDE DEF p3, p4, known, discont, offset
  <1>. QED  BY <1>6, <1>8, <1>9, <1>10, <1>11

LEMMA ReadPacketTimed ==
    ASSUME StampInv, ReadPacket PROVE StampInv'
  <1>. DEFINE p(s) == conv.inputs[s].packets[ist[s].pos + 1]
  <1>1. PICK s \in StreamsOf(src) :
          LET c == Corrected(s, p(s))
          IN /\ ist[s].pos < Len(conv.inputs[s].packets)
             /\ pkt' = [c.packet EXCEPT !.stream = s]
             /\ file' = [reset_eagain EXCEPT ![src].ts_offset = c.ts_offset,
                  ![src].last_ts = IF c.packet.dts = NoPts THEN @ ELSE c.packet.dts]
             /\ ist' = [ist EXCEPT ![s].pos = @ + 1,
                  ![s].max_pts = IF c.range = NoPts THEN @ ELSE Larger(c.range, @),
                  ![s].min_pts = IF c.range = NoPts THEN @ ELSE Smaller(c.range, @)]
             /\ ost' = Available(ost)
             /\ pc' = "packet"
             /\ UNCHANGED <<conv, dup, sent, graph>>
    BY DEF ReadPacket
  <1>. DEFINE c == Corrected(s, p(s))
              r == ist[s]
  <1>2. /\ conv \in Conversions /\ OutputSide /\ FilesTimed /\ InputsTimed /\ GraphsTimed
        /\ s \in Streams /\ r \in InputState /\ s \in Int
    <2>1. s \in Streams
      BY <1>1 DEF StreamsOf
    <2>. QED  BY <2>1, ConversionDomains DEF StampInv, InputSide, InputsTimed
  <1>3. p(s) \in Packet
    <2>1. conv.inputs[s].packets \in Seq(Packet) /\ r.pos \in Nat
      BY <1>2, StreamTypes, InputFields
    <2>2. r.pos < Len(conv.inputs[s].packets)
      BY <1>1
    <2>3. r.pos + 1 \in 1..Len(conv.inputs[s].packets)
      BY <2>1, <2>2
    <2>. QED  BY <2>1, <2>3, ElementOfSeq
  <1>4. c.packet \in Packet /\ c.ts_offset \in Int /\ c.range \in Int
    <2>. HIDE DEF p
    <2>. QED  BY <1>2, <1>3, CorrectedTimed
  <1>5. /\ pkt' = [c.packet EXCEPT !.stream = s]
        /\ file' = [reset_eagain EXCEPT ![src].ts_offset = c.ts_offset,
              ![src].last_ts = IF c.packet.dts = NoPts THEN @ ELSE c.packet.dts]
        /\ ist' = [ist EXCEPT ![s].pos = @ + 1,
              ![s].max_pts = IF c.range = NoPts THEN @ ELSE Larger(c.range, @),
              ![s].min_pts = IF c.range = NoPts THEN @ ELSE Smaller(c.range, @)]
        /\ ost' = Available(ost) /\ pc' = "packet"
        /\ UNCHANGED <<conv, dup, sent, graph>>
    BY <1>1
  <1>. HIDE DEF c
  <1>6. pkt' \in Packet /\ pkt'.stream = s
    BY <1>2, <1>4, <1>5 DEF Packet
  <1>7. file' \in [Files -> FileState]
    <2>. DEFINE q == reset_eagain[src]
                t == IF c.packet.dts = NoPts THEN q.last_ts ELSE c.packet.dts
                e == [q EXCEPT !.ts_offset = c.ts_offset, !.last_ts = t]
    <2>1. file' = [reset_eagain EXCEPT ![src] = e]
      BY <1>5
    <2>2. reset_eagain \in [Files -> FileState]
      BY <1>2, ResetTimed
    <2>3. ASSUME src \in Files PROVE e \in FileState
      <3>1. q \in FileState
        BY <2>2, <2>3
      <3>. HIDE DEF q
      <3>2. t \in Int
        BY <3>1, <1>4, FileFields, PacketFields
      <3>. HIDE DEF t
      <3>. QED  BY <3>1, <3>2, <1>4, OffsetTimed
    <2>. HIDE DEF e
    <2>. QED  BY <2>1, <2>2, <2>3
  <1>8. ist' \in [Streams -> InputState]
    <2>. DEFINE a == IF c.range = NoPts THEN r.max_pts ELSE Larger(c.range, r.max_pts)
                b == IF c.range = NoPts THEN r.min_pts ELSE Smaller(c.range, r.min_pts)
                n == r.pos + 1
                e == [r EXCEPT !.pos = n, !.max_pts = a, !.min_pts = b]
    <2>1. ist' = [ist EXCEPT ![s] = e]
      BY <1>5
    <2>2. r.max_pts \in Int /\ r.min_pts \in Int /\ r.pos \in Nat
      BY <1>2, InputFields
    <2>3. a \in Int /\ b \in Int /\ n \in Nat
      <3>. HIDE DEF r
      <3>. QED  BY <2>2, <1>4 DEF Larger, Smaller
    <2>4. e \in InputState
      <3>. HIDE DEF a, b, n, r
      <3>. QED  BY <1>2, <2>3, ReadTimed
    <2>. HIDE DEF e
    <2>. QED  BY <1>2, <2>1, <2>4 DEF InputsTimed
  <1>9. OutputSide'
    <2>1. ost' \in [Out -> OutputState]
      BY <1>2, <1>5, AvailableTimed DEF OutputSide
    <2>. QED  BY <1>2, <1>5, <2>1, OutputsOnly
  <1>10. InputSide'
    BY <1>2, <1>5, <1>6, <1>7, <1>8, SameConversion
    DEF InputSide, FilesTimed, InputsTimed, GraphsTimed, PacketTimed
  <1>. QED  BY <1>2, <1>5, <1>9, <1>10 DEF StampInv

LEMMA RefusedTimed ==
    ASSUME conv \in Conversions, NEW s \in Streams, NEW p \in Packet, NEW i \in InputState
    PROVE  Refused(s, p, i) \in InputState
  <1>. DEFINE j == [i EXCEPT !.pts = i.next_pts, !.dts = i.next_dts]
              a == IF VideoIn(s) THEN NextDts(s, p, j) ELSE i.next_dts
  <1>1. a \in Int /\ i.next_pts \in Int /\ i.next_dts \in Int
    <2>1. i.next_pts \in Int /\ i.next_dts \in Int
      BY InputFields
    <2>2. j \in InputState
      BY <2>1, BegunTimed
    <2>. HIDE DEF j
    <2>. QED  BY <2>1, <2>2, NextDtsTimed
  <1>2. Refused(s, p, i) = [i EXCEPT !.pts = i.next_pts, !.dts = i.next_dts, !.next_dts = a]
    BY DEF Refused, InputState
  <1>. HIDE DEF a
  <1>3. [i EXCEPT !.pts = i.next_pts, !.dts = i.next_dts, !.next_dts = a] \in InputState
    BY <1>1, AdvancedTimed
  <1>. QED  BY <1>2, <1>3

LEMMA PassingTimed ==
    ASSUME conv \in Conversions, NEW s \in Streams, NEW p \in Packet, NEW i \in InputState
    PROVE  Passing(s, i, p) \in InputState
  <1>. DEFINE a == i.next_dts + (IF VideoIn(s) THEN Long(s, p) ELSE p.dur)
  <1>1. a \in Int /\ i.next_dts \in Int
    BY InputFields, PacketFields, NextDtsTimed
  <1>2. Passing(s, i, p) = [i EXCEPT !.pts = i.next_dts, !.dts = i.next_dts,
                                     !.next_pts = a, !.next_dts = a]
    BY DEF Passing
  <1>. DEFINE n == i.next_dts
  <1>3. n \in Int
    BY <1>1
  <1>. HIDE DEF a, n
  <1>4. [i EXCEPT !.pts = n, !.dts = n, !.next_pts = a, !.next_dts = a] \in InputState
    BY <1>1, <1>3, TimesTimed
  <1>. QED  BY <1>2, <1>4 DEF n

LEMMA DecodePacketTimed ==
    ASSUME StampInv, DecodePacket PROVE StampInv'
  <1>. DEFINE s == pkt.stream
              i == Seen(s, pkt, ist[s])
              d == Decode(s, pkt, i)
  <1>1. /\ conv' = conv /\ UNCHANGED <<ost, dup, sent, file>>
        /\ pkt' = NoPacket /\ pc' = "reap" /\ pc = "packet"
        /\ \/ ist' = [ist EXCEPT ![s] = d.ist] /\ graph' = Pushed({s}, [t \in {s} |-> d.frames])
           \/ ist' = [ist EXCEPT ![s] = Refused(s, pkt, i)] /\ graph' = graph
    BY DEF DecodePacket, Reap
  <1>2. /\ conv \in Conversions /\ OutputSide /\ FilesTimed /\ InputsTimed /\ GraphsTimed
        /\ s \in Streams /\ ist[s] \in InputState /\ pkt \in Packet
    BY <1>1 DEF StampInv, InputSide, InputsTimed, PacketTimed
  <1>. HIDE DEF s
  <1>3. i \in InputState
    BY <1>2, SeenTimed
  <1>. HIDE DEF i
  <1>4. d.ist \in InputState /\ d.frames \in Seq(Frame)
    <2>1. d \in Decoded
      BY <1>2, <1>3, DecodeTimed
    <2>. QED  BY <2>1 DEF Decoded
  <1>. HIDE DEF d
  <1>5. Refused(s, pkt, i) \in InputState
    BY <1>2, <1>3, RefusedTimed
  <1>6. InputsTimed'
    <2>1. ist' \in [Streams -> InputState]
      BY <1>1, <1>2, <1>4, <1>5 DEF InputsTimed
    <2>. QED  BY <1>1, <2>1, SameConversion DEF InputsTimed
  <1>7. GraphsTimed'
    <2>1. CASE graph' = graph
      BY <1>1, <1>2, <2>1, SameConversion DEF GraphsTimed
    <2>2. CASE graph' = Pushed({s}, [t \in {s} |-> d.frames])
      <3>. DEFINE frames == [t \in {s} |-> d.frames]
      <3>1. \A t \in {s} : frames[t] \in Seq(Frame)
        BY <1>4
      <3>2. DOMAIN graph' = Encoded
        BY <2>2 DEF Pushed
      <3>. HIDE DEF frames
      <3>3. ASSUME NEW o \in Encoded PROVE Pushed({s}, frames)[o] \in GraphState(o)
        BY <1>2, <3>1, PushedTimed
      <3>4. graph' = Pushed({s}, frames)
        BY <2>2 DEF frames
      <3>. QED  BY <1>1, <3>2, <3>3, <3>4, SameConversion DEF GraphsTimed
    <2>. QED  BY <1>1, <2>1, <2>2
  <1>8. OutputSide'
    BY <1>1, <1>2, OutputsAlone
  <1>9. InputSide'
    BY <1>1, <1>2, <1>6, <1>7, NoPacketTyped, SameConversion
    DEF InputSide, FilesTimed, PacketTimed
  <1>. QED  BY <1>1, <1>2, <1>8, <1>9 DEF StampInv
\* The first of several outputs is one of them.
LEMMA FirstOutput ==
    ASSUME conv \in Conversions, NEW S \in SUBSET Out, S # {}
    PROVE  Min(S) \in S
  <1>1. IsFiniteSet(S) /\ S \subseteq Int
    BY ConversionDomains, FS_Subset
  <1>. QED  BY <1>1, MinInSet

LEMMA StreamCopyTimed ==
    ASSUME conv \in Conversions, conv' = conv, OutputSide, UNCHANGED dup, pc' # "video",
           NEW o \in Out, NEW i \in InputState, NEW p \in Packet, StreamCopy(o, i, p)
    PROVE  OutputSide'
  <1>. DEFINE audio == ~Video(o) /\ p.dts # NoPts
              a == IF p.dts = NoPts THEN i.dts ELSE p.dts
              b == IF audio THEN p.dts ELSE p.pts
              packet == [dts |-> a, pts |-> b]
              stepped == [ost[o] EXCEPT !.sync_opts = @ + 1]
              moved == IF Video(o) THEN With(ost, o, stepped) ELSE ost
              more == [ost[o] EXCEPT !.passed = @ + 1]
  <1>1. ost \in [Out -> OutputState] /\ ost[o] \in OutputState
    BY DEF OutputSide, OutputsTimed
  <1>2. packet \in [pts : Int, dts : Int]
    <2>1. a \in Int /\ b \in Int
      BY InputFields, PacketFields
    <2>. HIDE DEF a, b
    <2>. QED  BY <2>1
  <1>3. moved \in [Out -> OutputState]
    <2>1. stepped \in OutputState
      <3>1. ost[o].sync_opts + 1 \in Int
        BY <1>1, OutputFields
      <3>. QED  BY <1>1, <3>1, SyncOptsTimed
    <2>. HIDE DEF stepped
    <2>. QED  BY <1>1, <2>1 DEF With
  <1>4. CASE ost' = With(ost, o, more) /\ UNCHANGED sent
    <2>2. more \in OutputState
      <3>1. ost[o].passed + 1 \in Int
        BY <1>1, OutputFields
      <3>. QED  BY <1>1, <3>1, PassedTimed
    <2>. HIDE DEF more
    <2>3. ost' \in [Out -> OutputState]
      BY <1>1, <1>4, <2>2 DEF With
    <2>. QED  BY <1>4, <2>3, OutputsOnly
  <1>5. CASE close_output_stream({o}, ost) /\ UNCHANGED sent
    BY <1>5, ClosingTimed
  <1>6. CASE write_frame(o, packet, moved)
    <2>. HIDE DEF packet, moved
    <2>2. OutputsTimed' /\ StampsTimed' /\ WellStamped'
      BY <1>2, <1>3, <1>6, WriteFrameTimed DEF OutputSide
    <2>. QED  BY <2>2 DEF OutputSide, DupTimed
  <1>. QED  BY <1>4, <1>5, <1>6 DEF StreamCopy

LEMMA CopyPacketTimed ==
    ASSUME StampInv, CopyPacket PROVE StampInv'
  <1>. DEFINE s == pkt.stream
              i == Passed(s, pkt)
              copies == CopiesNow(s)
  <1>1. /\ conv' = conv /\ UNCHANGED <<dup, file, graph>>
        /\ pkt' = NoPacket /\ pc' = "reap" /\ pc = "packet"
        /\ ist' = [ist EXCEPT ![s] = i]
        /\ IF copies = {} THEN UNCHANGED <<ost, sent>>
                         ELSE StreamCopy(Min(copies), i, pkt)
    BY DEF CopyPacket, Reap
  <1>2. /\ conv \in Conversions /\ OutputSide /\ FilesTimed /\ InputsTimed /\ GraphsTimed
        /\ s \in Streams /\ ist[s] \in InputState /\ pkt \in Packet
    BY <1>1 DEF StampInv, InputSide, InputsTimed, PacketTimed
  <1>3. copies \in SUBSET Out
    BY DEF CopiesNow, CopiesOf
  <1>. HIDE DEF s
  <1>4. i \in InputState
    BY <1>2, SeenTimed, PassingTimed DEF Passed
  <1>. HIDE DEF i
  <1>5. OutputSide'
    <2>1. CASE copies = {}
      BY <1>1, <1>2, <2>1, OutputsAlone
    <2>2. CASE copies # {}
      <3>. DEFINE o == Min(copies)
      <3>1. o \in Out
        <4>1. o \in copies
          <5>. HIDE DEF copies
          <5>. QED  BY <1>2, <1>3, <2>2, FirstOutput
        <4>. QED  BY <1>3, <4>1
      <3>2. StreamCopy(o, i, pkt)
        BY <1>1, <2>2
      <3>. HIDE DEF o
      <3>. QED  BY <1>1, <1>2, <1>4, <3>1, <3>2, StreamCopyTimed
    <2>. QED  BY <2>1, <2>2
  <1>6. InputSide'
    <2>1. ist' \in [Streams -> InputState]
      BY <1>1, <1>2, <1>4 DEF InputsTimed
    <2>. QED  BY <1>1, <1>2, <2>1, NoPacketTyped, SameConversion
         DEF InputSide, FilesTimed, InputsTimed, GraphsTimed, PacketTimed
  <1>. QED  BY <1>1, <1>2, <1>5, <1>6 DEF StampInv
-----------------------------------------------------------------------------
(* The steps: the end of a file *)

LEMMA AtEndTimed ==
    ASSUME conv \in Conversions, InputsTimed, NEW s \in Streams
    PROVE  AtEnd(s).ist \in InputState /\ AtEnd(s).frames \in Seq(Frame)
  <1>. DEFINE i == Seen(s, NoPacket, ist[s])
  <1>1. i \in InputState
    <2>1. ist[s] \in InputState
      BY DEF InputsTimed
    <2>. QED  BY <2>1, NoPacketTyped, SeenTimed
  <1>2. AtEnd(s) = Decode(s, NoPacket, i)
    BY DEF AtEnd
  <1>. HIDE DEF i
  <1>3. AtEnd(s) \in Decoded
    BY <1>1, <1>2, NoPacketTyped, DecodeTimed
  <1>. QED  BY <1>3 DEF Decoded

\* The last frames of the streams of S go into the graphs, and the streams
\* of E end there.
Drained(S, E) ==
    LET pushed == Pushed(S, [s \in S |-> AtEnd(s).frames])
    IN [o \in Encoded |-> [pushed[o] EXCEPT !.closed = @ \cup (E \cap From(o))]]

LEMMA DrainedTimed ==
    ASSUME conv \in Conversions, conv' = conv, InputsTimed, GraphsTimed,
           NEW S \in SUBSET Streams, NEW E, graph' = Drained(S, E)
    PROVE  GraphsTimed'
  <1>. DEFINE frames == [s \in S |-> AtEnd(s).frames]
              pushed == Pushed(S, frames)
  <1>1. \A s \in S : frames[s] \in Seq(Frame)
    BY AtEndTimed
  <1>2. DOMAIN graph' = Encoded
    BY DEF Drained
  <1>3. ASSUME NEW o \in Encoded PROVE graph'[o] \in GraphState(o)
    <2>1. pushed[o] \in GraphState(o)
      <3>. HIDE DEF frames
      <3>. QED  BY <1>1, PushedTimed
    <2>. DEFINE g == pushed[o]
                C == g.closed \cup (E \cap From(o))
    <2>2. graph'[o] = [g EXCEPT !.closed = C]
      BY DEF Drained
    <2>. HIDE DEF g
    <2>3. g \in GraphState(o)
      BY <2>1 DEF g
    <2>4. C \in SUBSET From(o)
      BY <2>3, GraphFields
    <2>. HIDE DEF C
    <2>. QED  BY <2>2, <2>3, <2>4, GraphEndTimed
  <1>. QED  BY <1>2, <1>3, SameConversion DEF GraphsTimed

LEMMA EndOfFileTimed ==
    ASSUME StampInv, EndOfFile PROVE StampInv'
  <1>. DEFINE holding == {s \in StreamsOf(src) : DecodingNeeded(s) /\ ist[s].dec # <<>>}
              ended == {s \in StreamsOf(src) : \A t \in holding : s < t}
              first == IF holding = {} THEN {} ELSE {Min(holding)}
              drained == {s \in ended \cup first : DecodingNeeded(s)}
              st == finish_output_stream(ost, CopiesOf(ended))
  <1>1. /\ conv' = conv /\ UNCHANGED <<dup, sent, pkt>>
        /\ pc' \notin {"video", "packet"}
        /\ ist' = [s \in Streams |-> IF s \in drained THEN AtEnd(s).ist ELSE ist[s]]
        /\ graph' = Drained(drained, ended)
        /\ ost' = st \/ ost' = [st EXCEPT ![cur].unavailable = TRUE]
        /\ file' = file \/ file' = [file EXCEPT ![src].eof_reached = TRUE]
    BY DEF EndOfFile, Reap, Drained
  <1>2. conv \in Conversions /\ OutputSide /\ FilesTimed /\ InputsTimed /\ GraphsTimed
    BY DEF StampInv, InputSide
  <1>3. drained \in SUBSET Streams
    <2>1. holding \subseteq Streams /\ ended \subseteq Streams
      BY DEF StreamsOf
    <2>2. first \subseteq holding
      <3>1. IsFiniteSet(holding) /\ holding \subseteq Int
        BY <1>2, <2>1, ConversionDomains, FS_Subset
      <3>. HIDE DEF holding
      <3>. QED  BY <3>1, MinInSet
    <2>. QED  BY <2>1, <2>2
  <1>. HIDE DEF ended, drained
  <1>4. ist' \in [Streams -> InputState]
    BY <1>1, <1>2, <1>3, AtEndTimed DEF InputsTimed
  <1>5. GraphsTimed'
    BY <1>1, <1>2, <1>3, DrainedTimed
  <1>6. file' \in [Files -> FileState]
    <2>1. file' = file \/ file' = [file EXCEPT ![src].eof_reached = TRUE]
      BY <1>1
    <2>. QED  BY <1>2, <2>1, FlagsTimed DEF FilesTimed
  <1>7. ost' \in [Out -> OutputState]
    <2>1. st \in [Out -> OutputState]
      BY <1>2, FinishTimed DEF OutputSide
    <2>. HIDE DEF st
    <2>. QED  BY <1>1, <2>1, PausedTimed
  <1>8. OutputSide'
    BY <1>1, <1>2, <1>7, OutputsOnly
  <1>9. InputSide'
    BY <1>1, <1>4, <1>5, <1>6, SameConversion
    DEF StampInv, InputSide, FilesTimed, InputsTimed, PacketTimed
  <1>. QED  BY <1>1, <1>2, <1>8, <1>9 DEF StampInv

\* A pass that ends makes the file as long as the longest of what its streams
\* have seen, or leaves it as long as it was.
LEMMA SeekLengthens ==
    ASSUME StampInv, SeekToStart
    PROVE  \E lengths \in SUBSET Int :
              /\ IsFiniteSet(lengths)
              /\ file' = [file EXCEPT ![src].loop = @ - 1,
                                      ![src].duration = Max({@} \cup lengths)]
  <1>. DEFINE S == StreamsOf(src)
              decoded == {s \in S : DecodingNeeded(s)}
              end == [s \in decoded |-> AtEnd(s)]
              after == [s \in S |-> IF s \in decoded
                                    THEN [end[s].ist EXCEPT !.dec = <<>>] ELSE ist[s]]
              sounding == {s \in S : ~VideoIn(s) /\ after[s].nb_samples > 0}
              span(i) == IF i.max_pts = NoPts THEN 2 ELSE i.max_pts - i.min_pts
              last(s) == IF VideoIn(s) /\ conv.inputs[s].rate > 0
                         THEN conv.inputs[s].rate ELSE 2
              long(s) == after[s].nb_samples + span(after[s])
              frame(s) == last(s) + span(after[s])
              lengths == IF sounding # {} THEN {long(s) : s \in sounding}
                                          ELSE {frame(s) : s \in S}
  <1>1. file' = [file EXCEPT ![src].loop = @ - 1,
                             ![src].duration = Max({@} \cup lengths)]
    BY DEF SeekToStart
  <1>2. conv \in Conversions /\ InputsTimed
    BY DEF StampInv, InputSide
  <1>3. S \subseteq Streams /\ decoded \subseteq S /\ sounding \subseteq S
    BY DEF StreamsOf
  <1>4. ASSUME NEW s \in S PROVE after[s] \in InputState
    <2>1. AtEnd(s).ist \in InputState /\ ist[s] \in InputState
      BY <1>2, <1>3, AtEndTimed DEF InputsTimed
    <2>2. [AtEnd(s).ist EXCEPT !.dec = <<>>] \in InputState
      BY <2>1, NoFrame, DecTimed
    <2>. QED  BY <2>1, <2>2
  <1>5. lengths \subseteq Int /\ IsFiniteSet(lengths)
    <2>1. IsFiniteSet(S) /\ IsFiniteSet(sounding)
      BY <1>2, <1>3, ConversionDomains, FS_Subset
    <2>2. ASSUME NEW s \in S PROVE long(s) \in Int /\ frame(s) \in Int
      <3>1. after[s] \in InputState /\ conv.inputs[s].rate \in Int
        BY <1>2, <1>3, <1>4, StreamTypes
      <3>. DEFINE r == after[s]
      <3>2. r.nb_samples \in Int /\ r.max_pts \in Int /\ r.min_pts \in Int
        <4>1. r \in InputState
          BY <3>1
        <4>. HIDE DEF r
        <4>. QED  BY <4>1, InputFields
      <3>3. span(r) \in Int /\ last(s) \in Int
        <4>. HIDE DEF r
        <4>. QED  BY <3>1, <3>2
      <3>4. long(s) = r.nb_samples + span(r) /\ frame(s) = last(s) + span(r)
        OBVIOUS
      <3>. HIDE DEF r, span, last, long, frame
      <3>. QED  BY <3>2, <3>3, <3>4
    <2>. DEFINE f == [s \in sounding |-> long(s)]
                h == [s \in S |-> frame(s)]
    <2>3. IsFiniteSet({f[s] : s \in sounding})
      <3>1. DOMAIN f = sounding
        OBVIOUS
      <3>. HIDE DEF f, sounding
      <3>. QED  BY <2>1, <3>1, FiniteRange
    <2>4. IsFiniteSet({h[s] : s \in S})
      <3>1. DOMAIN h = S
        OBVIOUS
      <3>. HIDE DEF h, S
      <3>. QED  BY <2>1, <3>1, FiniteRange
    <2>. HIDE DEF long, frame, S, sounding
    <2>5. /\ {f[s] : s \in sounding} = {long(s) : s \in sounding}
          /\ {h[s] : s \in S} = {frame(s) : s \in S}
      OBVIOUS
    <2>6. {long(s) : s \in sounding} \subseteq Int /\ {frame(s) : s \in S} \subseteq Int
      BY <1>3, <2>2
    <2>. QED  BY <2>3, <2>4, <2>5, <2>6
  <1>. HIDE DEF lengths
  <1>. QED  BY <1>1, <1>5

LEMMA SeekToStartTimed ==
    ASSUME StampInv, SeekToStart PROVE StampInv'
  <1>. DEFINE S == StreamsOf(src)
              decoded == {s \in S : DecodingNeeded(s)}
              end == [s \in decoded |-> AtEnd(s)]
              after == [s \in S |-> IF s \in decoded
                                    THEN [end[s].ist EXCEPT !.dec = <<>>] ELSE ist[s]]
              frames == [s \in decoded |-> end[s].frames]
  <1>1. /\ conv' = conv /\ UNCHANGED <<ost, dup, sent, pkt>> /\ pc' = "again"
        /\ ist' = [s \in Streams |-> IF s \in S THEN [after[s] EXCEPT !.pos = 0] ELSE ist[s]]
        /\ graph' = Pushed(decoded, frames)
    BY DEF SeekToStart
  <1>2. conv \in Conversions /\ OutputSide /\ FilesTimed /\ InputsTimed /\ GraphsTimed
    BY DEF StampInv, InputSide
  <1>3. S \subseteq Streams /\ decoded \subseteq S
    BY DEF StreamsOf
  <1>4. ASSUME NEW s \in S PROVE after[s] \in InputState
    <2>1. AtEnd(s).ist \in InputState /\ ist[s] \in InputState
      BY <1>2, <1>3, AtEndTimed DEF InputsTimed
    <2>2. [AtEnd(s).ist EXCEPT !.dec = <<>>] \in InputState
      BY <2>1, NoFrame, DecTimed
    <2>. QED  BY <2>1, <2>2
  <1>5. ist' \in [Streams -> InputState]
    <2>1. ASSUME NEW s \in S PROVE [after[s] EXCEPT !.pos = 0] \in InputState
      <3>1. after[s] \in InputState
        BY <1>4
      <3>. DEFINE r == after[s]
      <3>2. r \in InputState
        BY <3>1
      <3>. HIDE DEF r
      <3>3. [r EXCEPT !.pos = 0] \in InputState
        BY <3>2, RewoundTimed
      <3>. QED  BY <3>3 DEF r
    <2>. HIDE DEF after
    <2>. QED  BY <1>1, <1>2, <2>1 DEF InputsTimed
  <1>6. GraphsTimed'
    <2>1. \A s \in decoded : frames[s] \in Seq(Frame)
      BY <1>2, <1>3, AtEndTimed
    <2>2. DOMAIN graph' = Encoded
      BY <1>1 DEF Pushed
    <2>. HIDE DEF frames, decoded
    <2>3. ASSUME NEW o \in Encoded PROVE Pushed(decoded, frames)[o] \in GraphState(o)
      BY <1>2, <2>1, PushedTimed
    <2>. QED  BY <1>1, <2>2, <2>3, SameConversion DEF GraphsTimed
  <1>7. PICK lengths \in SUBSET Int :
           /\ IsFiniteSet(lengths)
           /\ file' = [file EXCEPT ![src].loop = @ - 1,
                                   ![src].duration = Max({@} \cup lengths)]
    BY SeekLengthens
  <1>8. file' \in [Files -> FileState]
    <2>. DEFINE r == file[src]
                n == r.loop - 1
                m == Max({r.duration} \cup lengths)
                e == [r EXCEPT !.loop = n, !.duration = m]
    <2>1. file' = [file EXCEPT ![src] = e]
      BY <1>7
    <2>2. ASSUME src \in Files PROVE e \in FileState
      <3>1. r \in FileState
        BY <1>2, <2>2 DEF FilesTimed
      <3>2. r.loop \in Int /\ r.duration \in Int
        BY <3>1, FileFields
      <3>. HIDE DEF r
      <3>3. m \in Int
        <4>. DEFINE T == {r.duration} \cup lengths
        <4>1. T \subseteq Int /\ T # {}
          BY <3>2, <1>7
        <4>2. IsFiniteSet(T)
          BY <1>7, FS_Singleton, FS_Union
        <4>. HIDE DEF T
        <4>3. Max(T) \in Int
          BY <4>1, <4>2, MaxInSet
        <4>. QED  BY <4>3 DEF T
      <3>4. n \in Int
        BY <3>2
      <3>. HIDE DEF n, m
      <3>. QED  BY <3>1, <3>3, <3>4, OffsetTimed
    <2>. HIDE DEF e
    <2>. QED  BY <1>2, <2>1, <2>2 DEF FilesTimed
  <1>9. OutputSide'
    BY <1>1, <1>2, OutputsAlone
  <1>10. InputSide'
    BY <1>1, <1>5, <1>6, <1>8, SameConversion
    DEF StampInv, InputSide, FilesTimed, InputsTimed, PacketTimed
  <1>. QED  BY <1>1, <1>2, <1>9, <1>10 DEF StampInv
-----------------------------------------------------------------------------
(* The steps: the sinks, and after the loop *)

LEMMA ReapFrameTimed ==
    ASSUME StampInv, ReapFrame PROVE StampInv'
  <1>. DEFINE g == graph[at]
              frame == Head(g.sink)
  <1>1. /\ pc = "reap" /\ at \in Encoded /\ at \in Out /\ ~Copied(at) /\ g.sink # <<>>
        /\ conv' = conv /\ UNCHANGED <<pkt, file, ist>>
        /\ graph' = [graph EXCEPT ![at] = [g EXCEPT !.sink = Tail(g.sink)]]
    BY DEF ReapFrame, Reaped, Encoded
  <1>2. conv \in Conversions /\ OutputSide /\ FilesTimed /\ InputsTimed /\ GraphsTimed
        /\ PacketTimed
    BY DEF StampInv, InputSide
  <1>3. g \in GraphState(at)
    BY <1>1, <1>2 DEF GraphsTimed
  <1>4. frame \in Frame /\ Tail(g.sink) \in Seq(Frame)
    <2>1. g.sink \in Seq(Frame)
      <3>. HIDE DEF g
      <3>. QED  BY <1>3, GraphFields
    <2>. QED  BY <1>1, <2>1, HeadTailProperties
  <1>5. GraphsTimed'
    <2>. DEFINE t == Tail(g.sink)
    <2>1. [g EXCEPT !.sink = t] \in GraphState(at)
      <3>1. t \in Seq(Frame)
        BY <1>4
      <3>. HIDE DEF t, g
      <3>. QED  BY <1>3, <3>1, NoFrame, HeldTimed
    <2>. HIDE DEF g
    <2>. QED  BY <1>1, <1>2, <2>1, OneGraphTimed
  <1>6. OutputSide' /\ pc' # "packet"
    <2>1. CASE UNCHANGED <<pc, ost, dup, sent>>
      BY <1>1, <1>2, <2>1, OutputsAlone
    <2>2. CASE Video(at) /\ do_video_out(at, frame) /\ UNCHANGED sent
      <3>. HIDE DEF frame
      <3>. QED  BY <1>1, <1>2, <1>4, <2>2, VideoOutTimed
    <2>3. CASE do_audio_out(at, frame) /\ UNCHANGED <<pc, dup>>
      <3>. HIDE DEF frame
      <3>1. OutputsTimed' /\ StampsTimed' /\ WellStamped'
        BY <1>1, <1>2, <1>4, <2>3, AudioOutTimed DEF OutputSide
      <3>. QED  BY <1>1, <1>2, <2>3, <3>1 DEF OutputSide, DupTimed
    <2>. QED  BY <2>1, <2>2, <2>3 DEF ReapFrame
  <1>7. InputSide'
    BY <1>1, <1>2, <1>5, <1>6, SameConversion
    DEF InputSide, FilesTimed, InputsTimed, PacketTimed
  <1>. QED  BY <1>1, <1>2, <1>6, <1>7 DEF StampInv

LEMMA ReapNextTimed ==
    ASSUME StampInv, ReapNext PROVE StampInv'
  <1>1. /\ pc = "reap" /\ at \in Out /\ conv' = conv /\ UNCHANGED sent
        /\ UNCHANGED <<pkt, file, ist, graph>>
        /\ FlushVideo(at) \/ UNCHANGED <<pc, ost, dup>>
    BY DEF ReapNext, inputs
  <1>2. OutputSide' /\ pc' # "packet"
    <2>1. CASE FlushVideo(at)
      BY <1>1, <2>1, FlushVideoTimed DEF StampInv
    <2>2. CASE UNCHANGED <<pc, ost, dup>>
      BY <1>1, <2>2, OutputsAlone DEF StampInv
    <2>. QED  BY <1>1, <2>1, <2>2
  <1>. QED  BY <1>1, <1>2, InputsAlone DEF StampInv

LEMMA ReapDoneTimed ==
    ASSUME StampInv, ReapDone PROVE StampInv'
  <1>1. /\ conv' = conv /\ UNCHANGED <<dup, sent, pkt, file, ist, graph>> /\ pc' = "loop"
        /\ \E S : close_output_stream(S, ost)
    BY DEF ReapDone, inputs
  <1>. QED  BY <1>1, ClosingTimed, InputsAlone DEF StampInv

LEMMA ShowVideoTimed ==
    ASSUME StampInv, ShowVideo PROVE StampInv'
  <1>1. VideoStep /\ UNCHANGED <<pkt, file, ist, graph>>
    BY DEF ShowVideo, inputs
  <1>2. OutputSide' /\ conv' = conv /\ pc' # "packet"
    BY <1>1, VideoStepTimed DEF StampInv
  <1>. QED  BY <1>1, <1>2, InputsAlone DEF StampInv

LEMMA FlushDecodersTimed ==
    ASSUME StampInv, FlushDecoders PROVE StampInv'
  <1>. DEFINE S == {s \in Streams : /\ DecodingNeeded(s)
                                    /\ ~file[conv.inputs[s].file].eof_reached}
              empty == {s \in S : ist[s].dec = <<>>}
  <1>1. /\ conv' = conv /\ UNCHANGED <<ost, dup, sent, pkt, file>> /\ pc' = "flush_encoders"
        /\ ist' = [s \in Streams |-> IF s \in S THEN AtEnd(s).ist ELSE ist[s]]
        /\ graph' = Drained(S, empty)
    BY DEF FlushDecoders, Drained
  <1>2. conv \in Conversions /\ OutputSide /\ FilesTimed /\ InputsTimed /\ GraphsTimed
    BY DEF StampInv, InputSide
  <1>3. S \in SUBSET Streams
    OBVIOUS
  <1>. HIDE DEF S, empty
  <1>4. ist' \in [Streams -> InputState]
    BY <1>1, <1>2, <1>3, AtEndTimed DEF InputsTimed
  <1>5. GraphsTimed'
    BY <1>1, <1>2, <1>3, DrainedTimed
  <1>6. OutputSide'
    BY <1>1, <1>2, OutputsAlone
  <1>7. InputSide'
    BY <1>1, <1>4, <1>5, SameConversion
    DEF StampInv, InputSide, FilesTimed, InputsTimed, PacketTimed
  <1>. QED  BY <1>1, <1>2, <1>6, <1>7 DEF StampInv

LEMMA FlushEncoderTimed ==
    ASSUME StampInv, FlushEncoder PROVE StampInv'
  <1>. DEFINE o == Min(Held)
              e == Tail(ost[o].enc)
              st == [ost EXCEPT ![o].enc = e]
              pts == Head(ost[o].enc)
              packet == [pts |-> pts, dts |-> pts]
  <1>1. /\ conv' = conv /\ UNCHANGED <<pc, dup, pkt, file, ist, graph>>
        /\ pc = "flush_encoders" /\ Held # {}
        /\ \/ ost' = st /\ UNCHANGED sent
           \/ write_frame(o, packet, st)
    BY DEF FlushEncoder, inputs
  <1>2. conv \in Conversions /\ OutputSide /\ OutputsTimed /\ StampsTimed /\ WellStamped
    BY DEF StampInv, OutputSide
  <1>3. o \in Out /\ ost[o].enc # <<>>
    <2>1. o \in Held
      BY <1>1, <1>2, FirstOutput DEF Held
    <2>. QED  BY <2>1 DEF Held
  <1>. HIDE DEF o
  <1>4. pts \in Int /\ e \in Seq(Int)
    <2>1. ost[o].enc \in Seq(Int)
      BY <1>2, <1>3, OutputFields DEF OutputsTimed
    <2>. QED  BY <1>3, <2>1, HeadTailProperties
  <1>5. st \in [Out -> OutputState]
    <2>. HIDE DEF e
    <2>1. [ost[o] EXCEPT !.enc = e] \in OutputState
      BY <1>2, <1>3, <1>4, EncTimed DEF OutputsTimed
    <2>. QED  BY <1>2, <2>1, OneOutputTimed DEF OutputsTimed
  <1>6. packet \in [pts : Int, dts : Int]
    <2>. HIDE DEF pts
    <2>. QED  BY <1>4
  <1>. HIDE DEF st, packet
  <1>7. OutputSide'
    <2>1. CASE ost' = st /\ UNCHANGED sent
      BY <1>1, <1>2, <1>5, <2>1, OutputsOnly
    <2>2. CASE write_frame(o, packet, st)
      <3>1. OutputsTimed' /\ StampsTimed' /\ WellStamped'
        BY <1>1, <1>2, <1>3, <1>5, <1>6, <2>2, WriteFrameTimed
      <3>. QED  BY <1>1, <1>2, <3>1 DEF OutputSide, DupTimed
    <2>. QED  BY <1>1, <2>1, <2>2
  <1>. QED  BY <1>1, <1>2, <1>7, InputsAlone DEF StampInv
-----------------------------------------------------------------------------
(* The theorem *)

LEMMA StampInvInit == Init => StampInv
  <1>. SUFFICES ASSUME Init PROVE StampInv
    OBVIOUS
  <1>1. conv \in Conversions
    BY DEF Init, OutputInit
  <1>2. OutputsTimed
    <2>1. NewStream \in OutputState
      BY TimeAssumption DEF NewStream, OutputState
    <2>. QED  BY <2>1 DEF Init, OutputInit, OutputsTimed
  <1>3. DupTimed
    BY DEF Init, OutputInit, NoDup, DupTimed
  <1>4. StampsTimed /\ WellStamped
    BY TimeAssumption DEF Init, OutputInit, StampsTimed, Stamp, WellStamped, LeastDts
  <1>5. FilesTimed
    <2>1. ASSUME NEW f \in Files
          PROVE  [eagain |-> FALSE, eof_reached |-> FALSE, ts_offset |-> 0,
                  last_ts |-> NoPts, loop |-> conv.files[f].loop, duration |-> 0] \in FileState
      BY <1>1, FileTypes, TimeAssumption DEF FileState
    <2>. QED  BY <2>1 DEF Init, FilesTimed
  <1>6. InputsTimed
    <2>1. [pos |-> 0, dec |-> <<>>, saw |-> FALSE, dts |-> 0, pts |-> 0,
           next_dts |-> NoPts, next_pts |-> NoPts, max_pts |-> NoPts,
           min_pts |-> NoLimit, nb_samples |-> 0] \in InputState
      BY NoFrame, TimeAssumption DEF InputState
    <2>. QED  BY <2>1 DEF Init, InputsTimed
  <1>7. GraphsTimed
    <2>1. ASSUME NEW o
          PROVE  [queue |-> [s \in From(o) |-> <<>>], closed |-> {},
                  held |-> <<>>, sink |-> <<>>, eof |-> FALSE] \in GraphState(o)
      BY NoFrame DEF GraphState
    <2>. QED  BY <2>1 DEF Init, GraphsTimed
  <1>8. PacketTimed
    BY NoPacketTyped DEF Init, PacketTimed
  <1>. QED  BY <1>1, <1>2, <1>3, <1>4, <1>5, <1>6, <1>7, <1>8
       DEF StampInv, OutputSide, InputSide

LEMMA StampInvNext == StampInv /\ [Next]_vars => StampInv'
  <1>. SUFFICES ASSUME StampInv, [Next]_vars PROVE StampInv'
    OBVIOUS
  <1>1. CASE NeedOutput
    BY <1>1, NeedOutputTimed
  <1>2. CASE Stop \/ FilterFails \/ SeekFails \/ CopyFails \/ Trailers \/ EncoderFails
    BY <1>2, JumpTimed
  <1>3. CASE choose_output
    BY <1>3, ChooseTimed
  <1>4. CASE FilterGives
    BY <1>4, FilterGivesTimed
  <1>5. CASE FilterNeeds
    BY <1>5, FilterNeedsTimed
  <1>6. CASE WouldBlock
    BY <1>6, WouldBlockTimed
  <1>7. CASE ReadPacket
    BY <1>7, ReadPacketTimed
  <1>8. CASE DecodePacket
    BY <1>8, DecodePacketTimed
  <1>9. CASE CopyPacket
    BY <1>9, CopyPacketTimed
  <1>10. CASE EndOfInput \/ ReadFails \/ BlocksAfterSeek
    BY <1>10, EndOfFileTimed DEF EndOfInput, ReadFails, BlocksAfterSeek
  <1>11. CASE SeekToStart
    BY <1>11, SeekToStartTimed
  <1>12. CASE ReapFrame
    BY <1>12, ReapFrameTimed
  <1>13. CASE ReapNext
    BY <1>13, ReapNextTimed
  <1>14. CASE ReapDone
    BY <1>14, ReapDoneTimed
  <1>15. CASE ShowVideo
    BY <1>15, ShowVideoTimed
  <1>16. CASE FlushDecoders
    BY <1>16, FlushDecodersTimed
  <1>17. CASE FlushEncoder
    BY <1>17, FlushEncoderTimed
  <1>18. CASE UNCHANGED vars
    <2>1. conv' = conv /\ UNCHANGED <<ost, dup, sent, pkt, file, ist, graph, pc>>
      BY <1>18 DEF vars, inputs
    <2>. QED  BY <2>1, SameConversion, StampsStay
         DEF StampInv, OutputSide, OutputsTimed, DupTimed,
             InputSide, FilesTimed, InputsTimed, GraphsTimed, PacketTimed
  <1>. QED  BY <1>1, <1>2, <1>3, <1>4, <1>5, <1>6, <1>7, <1>8, <1>9, <1>10, <1>11,
               <1>12, <1>13, <1>14, <1>15, <1>16, <1>17, <1>18 DEF Next

\* Whatever the inputs hold, however the demuxers, the decoders, the filters
\* and the encoders order and fail: where write_frame orders the packets of a
\* muxer each comes after the one before it, or not before it if the muxer
\* allows that, and where it repairs a dts after its pts none is later than it
\* is shown, on every path that leads to write_frame (lines 611-734) and for
\* every muxer, those that want no timestamps included.
THEOREM PacketsAreWellStamped == Spec => []WellStamped
  <1>1. Spec => []StampInv
    BY StampInvInit, StampInvNext, PTL DEF Spec
  <1>2. StampInv => WellStamped
    BY DEF StampInv, OutputSide
  <1>. QED  BY <1>1, <1>2, PTL
-----------------------------------------------------------------------------
(* What most steps do to an output *)

\* Output o, which was r, is q: it may have been closed, its encoder holds no
\* more than it can, and it counts at most one more packet, which is below
\* its limit.  An encoded video keeps its place.
Carried(o, r, q) ==
    /\ r.finished \subseteq q.finished
    /\ q.last_nb0 = r.last_nb0
    /\ Len(r.enc) <= conv.outputs[o].hold => Len(q.enc) <= conv.outputs[o].hold
    /\ \/ q.frame_number = r.frame_number
       \/ /\ Counted(o) /\ ~(r.frame_number >= conv.outputs[o].max_frames)
          /\ q.frame_number = r.frame_number + 1
    /\ ~Counted(o) => /\ q.sync_opts = r.sync_opts
                      /\ q.ends = r.ends /\ q.skipped = r.skipped

LEMMA FieldsCarried ==
    ASSUME NEW o, NEW r \in OutputState
    PROVE  /\ Carried(o, r, r)
           /\ \A S : Carried(o, r, [r EXCEPT !.finished = @ \cup S])
           /\ r.finished \subseteq {"ENCODER", "MUXER"}
           /\ Carried(o, r, [r EXCEPT !.finished = {"ENCODER", "MUXER"}])
           /\ \A b : Carried(o, r, [r EXCEPT !.unavailable = b])
           /\ \A b : Carried(o, r, [r EXCEPT !.last_frame = b])
           /\ \A n : Carried(o, r, [r EXCEPT !.passed = n])
           /\ \A n : Counted(o) => Carried(o, r, [r EXCEPT !.sync_opts = n])
           /\ \A n, t : Counted(o) => Carried(o, r, [r EXCEPT !.sync_opts = n, !.taken = t])
           /\ \A e : (Len(r.enc) <= conv.outputs[o].hold => Len(e) <= conv.outputs[o].hold)
                        => Carried(o, r, [r EXCEPT !.enc = e])
  BY DEF Carried, OutputState

\* Two changes, the first of which counts nothing.
LEMMA CarriedFurther ==
    ASSUME NEW o, NEW r, NEW q, NEW t,
           Carried(o, r, q), Carried(o, q, t), q.frame_number = r.frame_number
    PROVE  Carried(o, r, t)
  BY DEF Carried

LEMMA HoldTypes ==
    ASSUME conv \in Conversions, NEW o \in Out
    PROVE  /\ conv.outputs[o].hold \in Nat /\ conv.outputs[o].lag \in Nat
           /\ From(o) # {} /\ conv.time \in [{OutFile(x) : x \in Out} -> Int]
  <1>. DEFINE T == [type : {"audio", "video"}, copy : BOOLEAN, of : Nat,
                    from : SUBSET DOMAIN conv.inputs, hold : Nat, lag : Nat,
                    max_frames : Nat, dur : Nat, filters : BOOLEAN,
                    repairs : SUBSET {"guess", "order"}, step : {0, 1},
                    bsf : BOOLEAN, begins : SUBSET {"nonkey", "prior"},
                    sync : {"CFR", "VSCFR", "VFR", "PASSTHROUGH", "none"}]
  <1>1. conv.outputs \in Seq(T)
    BY ConversionsAssumption
  <1>2. conv.outputs[o] \in T
    <2>. HIDE DEF T
    <2>. QED  BY <1>1, ConversionDomains, ElementOfSeq
  <1>3. From(o) # {} /\ conv.time \in [{OutFile(x) : x \in Out} -> Int]
    BY ConversionsAssumption DEF Out, From, OutFile
  <1>. QED  BY <1>2, <1>3

Quiet(st) == \A x \in Out : Carried(x, st[x], ost'[x])

LEMMA QuietFrom ==
    ASSUME NEW st \in [Out -> OutputState], Quiet(st), OutputsTimed,
           \A x \in Out : /\ Carried(x, ost[x], st[x])
                          /\ st[x].frame_number = ost[x].frame_number
    PROVE  Quiet(ost)
  BY CarriedFurther DEF Quiet

LEMMA ClosedQuiet ==
    ASSUME NEW st \in [Out -> OutputState], NEW S, ost' = Closed(st, S)
    PROVE  Quiet(st)
  BY FieldsCarried DEF Quiet, Closed

LEMMA UnchangedQuiet ==
    ASSUME NEW st \in [Out -> OutputState], ost' = st
    PROVE  Quiet(st)
  BY FieldsCarried DEF Quiet

LEMMA WriteQuiet ==
    ASSUME NEW o \in Out, NEW st \in [Out -> OutputState],
           NEW p \in [pts : Int, dts : Int], write_frame(o, p, st)
    PROVE  Quiet(st)
  <1>. DEFINE q == Stamped(o, p, st[o].last_mux_dts)
              n == IF Counted(o) THEN st[o].frame_number + 1 ELSE st[o].frame_number
              m == st[o].muxed + 1
              k == st[o].passed + 1
              wr == [st[o] EXCEPT !.frame_number = n, !.muxed = m, !.last_mux_dts = q.dts]
              em == [st[o] EXCEPT !.frame_number = n, !.passed = k]
              written == With(st, o, wr)
              emptied == With(st, o, em)
  <1>1. st[o] \in OutputState
    OBVIOUS
  <1>2. CASE ost' = st
    BY <1>2, UnchangedQuiet
  <1>3. CASE /\ ~(Counted(o) /\ AtLimit(o, st))
             /\ ost' = emptied \/ ost' = written \/ ost' = close_all_output_streams(written, o)
    <2>1. Carried(o, st[o], wr) /\ Carried(o, st[o], em)
      <3>. HIDE DEF q, m, k
      <3>. QED  BY <1>1, <1>3 DEF Carried, OutputState, AtLimit
    <2>2. ASSUME NEW x \in Out PROVE Carried(x, st[x], written[x]) /\ Carried(x, st[x],
      emptied[x])
      <3>. HIDE DEF wr, em
      <3>. QED  BY <2>1, FieldsCarried DEF With
    <2>3. ASSUME NEW x \in Out
          PROVE  \A S : Carried(x, st[x], [written[x] EXCEPT !.finished = @ \cup S])
      <3>1. /\ written[x].finished = st[x].finished
            /\ written[x] = [written[x] EXCEPT !.finished = st[x].finished]
        BY DEF With, OutputState
      <3>. DEFINE t == written[x]
      <3>2. Carried(x, st[x], t) /\ t.finished = st[x].finished
            /\ t = [t EXCEPT !.finished = st[x].finished]
        BY <2>2, <3>1
      <3>. HIDE DEF t
      <3>3. ASSUME NEW S PROVE Carried(x, st[x], [t EXCEPT !.finished = @ \cup S])
        BY <3>2 DEF Carried
      <3>. QED  BY <3>3 DEF t
    <2>4. CASE ost' = written \/ ost' = emptied
      BY <2>2, <2>4 DEF Quiet
    <2>5. CASE ost' = close_all_output_streams(written, o)
      <3>. HIDE DEF written
      <3>. QED  BY <2>3, <2>5 DEF Quiet, close_all_output_streams
    <2>. QED  BY <1>3, <2>4, <2>5
  <1>4. CASE Counted(o) /\ AtLimit(o, st) /\ ost' = st
    BY <1>4, <1>2
  <1>. QED  BY <1>2, <1>3 DEF write_frame

\* The stream's own fields may be set first.
LEMMA EncodeQuiet ==
    ASSUME conv \in Conversions, NEW o \in Out, NEW st \in [Out -> OutputState], NEW pts \in Int,
           Encode(o, pts, st)
    PROVE  \A x \in Out : Carried(x, st[x], ost'[x])
  <1>. DEFINE inside == Append(st[o].enc, pts)
              less == [st EXCEPT ![o].enc = Tail(inside)]
  <1>1. st[o].enc \in Seq(Int) /\ conv.outputs[o].hold \in Nat
    BY OutputFields, HoldTypes
  <1>2. /\ inside \in Seq(Int) /\ inside # <<>> /\ Len(inside) = Len(st[o].enc) + 1
        /\ Head(inside) \in Int /\ Tail(inside) \in Seq(Int)
        /\ Len(Tail(inside)) = Len(st[o].enc) /\ Len(st[o].enc) \in Nat
    <2>. DEFINE e == st[o].enc
    <2>1. e \in Seq(Int) /\ Len(e) \in Nat
      BY <1>1
    <2>. HIDE DEF e
    <2>2. /\ Append(e, pts) \in Seq(Int) /\ Append(e, pts) # <<>>
          /\ Len(Append(e, pts)) = Len(e) + 1
      BY <2>1, AppendProperties
    <2>. DEFINE t == Append(e, pts)
    <2>. HIDE DEF t
    <2>3. t \in Seq(Int) /\ t # <<>> /\ Len(t) = Len(e) + 1
      BY <2>2 DEF t
    <2>4. Head(t) \in Int /\ Tail(t) \in Seq(Int) /\ Len(Tail(t)) = Len(t) - 1
      BY <2>3, HeadTailProperties
    <2>5. Len(Tail(t)) = Len(e)
      BY <2>1, <2>3, <2>4
    <2>. QED  BY <2>1, <2>3, <2>4, <2>5 DEF t, e
  <1>. HIDE DEF inside
  <1>3. ASSUME NEW e \in Seq(Int),
               Len(st[o].enc) <= conv.outputs[o].hold => Len(e) <= conv.outputs[o].hold
        PROVE  /\ [st EXCEPT ![o].enc = e] \in [Out -> OutputState]
               /\ \A x \in Out : /\ Carried(x, st[x], [st EXCEPT ![o].enc = e][x])
                                 /\ [st EXCEPT ![o].enc = e][x].frame_number = st[x].frame_number
    <2>1. [st EXCEPT ![o].enc = e] \in [Out -> OutputState]
      BY <1>3, EncTimed, OneOutputTimed
    <2>2. ASSUME NEW x \in Out
          PROVE  /\ Carried(x, st[x], [st EXCEPT ![o].enc = e][x])
                 /\ [st EXCEPT ![o].enc = e][x].frame_number = st[x].frame_number
      BY <1>3, FieldsCarried DEF OutputState
    <2>. QED  BY <2>1, <2>2
  <1>4. CASE Len(inside) > conv.outputs[o].hold
    <2>1. write_frame(o, [pts |-> Head(inside), dts |-> Head(inside)], less)
      BY <1>4 DEF Encode, inside
    <2>2. [pts |-> Head(inside), dts |-> Head(inside)] \in [pts : Int, dts : Int]
      BY <1>2
    <2>3. /\ less \in [Out -> OutputState]
          /\ \A x \in Out : Carried(x, st[x], less[x])
                            /\ less[x].frame_number = st[x].frame_number
      BY <1>2, <1>3
    <2>. HIDE DEF less
    <2>4. Quiet(less)
      BY <2>1, <2>2, <2>3, WriteQuiet
    <2>. QED  BY <2>3, <2>4, CarriedFurther DEF Quiet
  <1>5. CASE ~(Len(inside) > conv.outputs[o].hold)
    <2>1. ost' = [st EXCEPT ![o].enc = inside]
      BY <1>5 DEF Encode, inside
    <2>2. Len(inside) <= conv.outputs[o].hold
      BY <1>5, <1>1, <1>2
    <2>. QED  BY <1>2, <1>3, <2>1, <2>2
  <1>. QED  BY <1>4, <1>5

LEMMA AudioOutQuiet ==
    ASSUME conv \in Conversions, OutputsTimed,
           NEW o \in Out, Counted(o), NEW frame \in Frame, do_audio_out(o, frame)
    PROVE  Quiet(ost)
  <1>1. CASE close_output_stream({o}, ost)
    BY <1>1, ClosedQuiet DEF close_output_stream, OutputsTimed
  <1>2. CASE Encode(o, frame.pts, [ost EXCEPT ![o].sync_opts = frame.pts + frame.dur,
                                              ![o].taken = @ + 1])
    <2>. DEFINE n == frame.pts + frame.dur
                u == ost[o].taken + 1
                st == [ost EXCEPT ![o] = [ost[o] EXCEPT !.sync_opts = n, !.taken = u]]
    <2>1. frame.pts \in Int /\ n \in Int /\ u \in Int
      BY OutputFields DEF Frame, OutputsTimed
    <2>2. st = [ost EXCEPT ![o].sync_opts = frame.pts + frame.dur, ![o].taken = @ + 1]
      BY DEF OutputsTimed
    <2>3. st \in [Out -> OutputState]
      <3>. HIDE DEF n, u
      <3>. QED  BY <2>1, SyncOptsTimed, OneOutputTimed DEF OutputsTimed
    <2>4. ASSUME NEW x \in Out
          PROVE  Carried(x, ost[x], st[x]) /\ st[x].frame_number = ost[x].frame_number
      <3>. DEFINE r == ost[x]
                  q == [r EXCEPT !.sync_opts = n, !.taken = u]
      <3>1. r \in OutputState /\ st[x] = IF x = o THEN q ELSE r
        BY DEF OutputsTimed
      <3>2. q.frame_number = r.frame_number
        BY <3>1 DEF OutputState
      <3>3. Carried(x, r, r) /\ (x = o => Carried(x, r, q))
        BY <3>1, FieldsCarried
      <3>. HIDE DEF st, q, r
      <3>4. Carried(x, r, st[x]) /\ st[x].frame_number = r.frame_number
        BY <3>1, <3>2, <3>3
      <3>. QED  BY <3>4 DEF r
    <2>. HIDE DEF st
    <2>5. Quiet(st)
      BY <1>2, <2>2, <2>1, <2>3, EncodeQuiet DEF Quiet
    <2>. QED  BY <2>3, <2>4, <2>5, QuietFrom
  <1>. QED  BY <1>1, <1>2 DEF do_audio_out

LEMMA StreamCopyQuiet ==
    ASSUME conv \in Conversions, OutputsTimed,
           NEW o \in Out, Copied(o), NEW i \in InputState, NEW p \in Packet,
           StreamCopy(o, i, p)
    PROVE  Quiet(ost)
  <1>. DEFINE audio == ~Video(o) /\ p.dts # NoPts
              a == IF p.dts = NoPts THEN i.dts ELSE p.dts
              b == IF audio THEN p.dts ELSE p.pts
              packet == [dts |-> a, pts |-> b]
              stepped == [ost[o] EXCEPT !.sync_opts = @ + 1]
              moved == IF Video(o) THEN With(ost, o, stepped) ELSE ost
              more == [ost[o] EXCEPT !.passed = @ + 1]
  <1>1. ost \in [Out -> OutputState] /\ ost[o] \in OutputState /\ Counted(o)
    BY DEF OutputsTimed, Counted
  <1>2. packet \in [pts : Int, dts : Int]
    <2>1. a \in Int /\ b \in Int
      BY InputFields, PacketFields
    <2>. HIDE DEF a, b
    <2>. QED  BY <2>1
  <1>3. stepped \in OutputState
    <2>1. ost[o].sync_opts + 1 \in Int
      BY <1>1, OutputFields
    <2>. QED  BY <1>1, <2>1, SyncOptsTimed
  <1>4. Carried(o, ost[o], stepped) /\ stepped.frame_number = ost[o].frame_number
    BY <1>1, FieldsCarried DEF OutputState
  <1>5. Carried(o, ost[o], more)
    BY <1>1, FieldsCarried
  <1>. HIDE DEF stepped, more
  <1>6. /\ moved \in [Out -> OutputState]
        /\ \A x \in Out : Carried(x, ost[x], moved[x])
                          /\ moved[x].frame_number = ost[x].frame_number
    <2>1. ASSUME NEW x \in Out PROVE Carried(x, ost[x], ost[x])
      BY <1>1, FieldsCarried
    <2>. QED  BY <1>1, <1>3, <1>4, <2>1 DEF With
  <1>7. CASE ost' = With(ost, o, more)
    <2>1. ASSUME NEW x \in Out PROVE Carried(x, ost[x], ost[x])
      BY <1>1, FieldsCarried
    <2>. QED  BY <1>5, <1>7, <2>1 DEF With, Quiet
  <1>8. CASE close_output_stream({o}, ost)
    BY <1>1, <1>8, ClosedQuiet DEF close_output_stream
  <1>9. CASE write_frame(o, packet, moved)
    <2>. HIDE DEF packet, moved
    <2>1. Quiet(moved)
      BY <1>2, <1>6, <1>9, WriteQuiet
    <2>. QED  BY <1>6, <2>1, QuietFrom DEF OutputsTimed
  <1>. QED  BY <1>7, <1>8, <1>9 DEF StreamCopy, stepped, more

LEMMA FinishQuiet ==
    ASSUME OutputsTimed, NEW S, NEW x \in Out
    PROVE  Carried(x, ost[x], finish_output_stream(ost, S)[x])
  BY FieldsCarried DEF finish_output_stream, OutputsTimed

LEMMA PausedQuiet ==
    ASSUME NEW st \in [Out -> OutputState], NEW o, ost' = [st EXCEPT ![o].unavailable = TRUE]
    PROVE  Quiet(st)
  BY FieldsCarried DEF Quiet

LEMMA AvailableQuiet ==
    ASSUME OutputsTimed, ost' = Available(ost) PROVE Quiet(ost)
  BY FieldsCarried DEF Quiet, Available, OutputsTimed

\* The step begins the pictures of a video, which are then given to its
\* encoder one by one.
Begins ==
    \E o \in Encoded :
        /\ pc = "reap" /\ Video(o)
        /\ \/ \E frame \in Frame : do_video_out(o, frame)
           \/ graph[o].eof /\ FlushVideo(o)

\* No picture is being encoded, and none is begun.
Calm == /\ Quiet(ost) /\ dup' = dup
        /\ pc' # "video" /\ (pc \in {"video", "exit"} => pc' = "exit")

LEMMA FlushEncoderQuiet ==
    ASSUME StampInv, FlushEncoder PROVE Quiet(ost)
  <1>. DEFINE o == Min(Held)
              e == Tail(ost[o].enc)
              st == [ost EXCEPT ![o].enc = e]
              pts == Head(ost[o].enc)
              packet == [pts |-> pts, dts |-> pts]
  <1>1. Held # {} /\ (ost' = st \/ write_frame(o, packet, st))
    BY DEF FlushEncoder
  <1>2. conv \in Conversions /\ OutputsTimed
    BY DEF StampInv, OutputSide
  <1>3. o \in Out /\ ost[o].enc # <<>>
    <2>1. o \in Held
      BY <1>1, <1>2, FirstOutput DEF Held
    <2>. QED  BY <2>1 DEF Held
  <1>. HIDE DEF o
  <1>4. pts \in Int /\ e \in Seq(Int) /\ Len(e) <= Len(ost[o].enc)
        /\ Len(e) \in Nat /\ Len(ost[o].enc) \in Nat /\ conv.outputs[o].hold \in Nat
    <2>1. ost[o].enc \in Seq(Int)
      BY <1>2, <1>3, OutputFields DEF OutputsTimed
    <2>2. pts \in Int /\ e \in Seq(Int) /\ Len(e) = Len(ost[o].enc) - 1
      BY <1>3, <2>1, HeadTailProperties
    <2>. HIDE DEF e, pts
    <2>3. Len(e) \in Nat /\ Len(ost[o].enc) \in Nat
      BY <2>1, <2>2, LenProperties
    <2>4. Len(e) <= Len(ost[o].enc)
      BY <2>2, <2>3
    <2>. QED  BY <1>2, <1>3, <2>2, <2>3, <2>4, HoldTypes
  <1>. HIDE DEF e, pts
  <1>5. st \in [Out -> OutputState]
    <2>1. [ost[o] EXCEPT !.enc = e] \in OutputState
      BY <1>2, <1>3, <1>4, EncTimed DEF OutputsTimed
    <2>. QED  BY <1>2, <2>1, OneOutputTimed DEF OutputsTimed
  <1>6. ASSUME NEW x \in Out
        PROVE  Carried(x, ost[x], st[x]) /\ st[x].frame_number = ost[x].frame_number
    <2>. DEFINE r == ost[x]
                q == [r EXCEPT !.enc = e]
    <2>1. r \in OutputState /\ st[x] = IF x = o THEN q ELSE r
      BY <1>2 DEF OutputsTimed
    <2>2. q.frame_number = r.frame_number
      BY <2>1 DEF OutputState
    <2>3. Carried(x, r, r) /\ (x = o => Carried(x, r, q))
      <3>1. x = o => (Len(r.enc) <= conv.outputs[x].hold => Len(e) <= conv.outputs[x].hold)
        BY <1>4
      <3>. QED  BY <2>1, <3>1, FieldsCarried
    <2>. HIDE DEF st, q, r
    <2>4. Carried(x, r, st[x]) /\ st[x].frame_number = r.frame_number
      BY <2>1, <2>2, <2>3
    <2>. QED  BY <2>4 DEF r
  <1>7. packet \in [pts : Int, dts : Int]
    BY <1>4
  <1>. HIDE DEF st, packet
  <1>8. Quiet(st)
    BY <1>1, <1>3, <1>5, <1>7, UnchangedQuiet, WriteQuiet
  <1>. QED  BY <1>2, <1>5, <1>6, <1>8, QuietFrom

LEMMA CopyPacketQuiet ==
    ASSUME StampInv, CopyPacket PROVE Quiet(ost)
  <1>. DEFINE s == pkt.stream
              i == Passed(s, pkt)
              copies == CopiesNow(s)
              o == Min(copies)
  <1>1. /\ pc = "packet"
        /\ IF copies = {} THEN ost' = ost ELSE StreamCopy(o, i, pkt)
    BY DEF CopyPacket
  <1>2. /\ conv \in Conversions /\ OutputsTimed /\ ost \in [Out -> OutputState]
        /\ s \in Streams /\ ist[s] \in InputState /\ pkt \in Packet
    BY <1>1 DEF StampInv, InputSide, InputsTimed, PacketTimed, OutputSide, OutputsTimed
  <1>3. copies \in SUBSET Out /\ \A x \in copies : Copied(x)
    BY DEF CopiesNow, CopiesOf
  <1>. HIDE DEF s
  <1>4. i \in InputState
    BY <1>2, SeenTimed, PassingTimed DEF Passed
  <1>. HIDE DEF i
  <1>5. CASE copies = {}
    BY <1>1, <1>2, <1>5, UnchangedQuiet
  <1>6. CASE copies # {}
    <2>1. o \in copies
      <3>. HIDE DEF copies
      <3>. QED  BY <1>2, <1>3, <1>6, FirstOutput
    <2>2. o \in Out /\ Copied(o)
      BY <1>3, <2>1
    <2>3. StreamCopy(o, i, pkt)
      BY <1>1, <1>6
    <2>. HIDE DEF o
    <2>. QED  BY <1>2, <1>4, <2>2, <2>3, StreamCopyQuiet
  <1>. QED  BY <1>5, <1>6

LEMMA EndOfFileQuiet ==
    ASSUME StampInv, EndOfFile PROVE Quiet(ost)
  <1>. DEFINE Finished(S) == finish_output_stream(ost, S)
  <1>1. \E S : \/ ost' = Finished(S)
               \/ ost' = [Finished(S) EXCEPT ![cur].unavailable = TRUE]
    BY DEF EndOfFile
  <1>2. PICK S : \/ ost' = Finished(S)
                 \/ ost' = [Finished(S) EXCEPT ![cur].unavailable = TRUE]
    BY <1>1
  <1>3. OutputsTimed
    BY DEF StampInv, OutputSide
  <1>4. /\ Finished(S) \in [Out -> OutputState]
        /\ \A x \in Out : Carried(x, ost[x], Finished(S)[x])
    BY <1>3, FinishTimed, FinishQuiet
  <1>5. ASSUME NEW x \in Out PROVE Finished(S)[x].frame_number = ost[x].frame_number
    BY <1>3 DEF OutputsTimed, OutputState, finish_output_stream
  <1>. HIDE DEF Finished
  <1>6. Quiet(Finished(S))
    BY <1>2, <1>4, PausedQuiet, UnchangedQuiet
  <1>. QED  BY <1>3, <1>4, <1>5, <1>6, QuietFrom

LEMMA ReapFrameKinds ==
    ASSUME StampInv, ReapFrame PROVE Calm \/ Begins
  <1>. DEFINE frame == Head(graph[at].sink)
  <1>1. /\ pc = "reap" /\ at \in Encoded /\ at \in Out /\ graph[at].sink # <<>>
    BY DEF ReapFrame, Reaped, Encoded
  <1>2. conv \in Conversions /\ OutputsTimed /\ ost \in [Out -> OutputState]
    BY DEF StampInv, OutputSide, OutputsTimed
  <1>3. frame \in Frame
    <2>1. graph[at].sink \in Seq(Frame)
      BY <1>1, GraphFields DEF StampInv, InputSide, GraphsTimed
    <2>. QED  BY <1>1, <2>1, HeadTailProperties
  <1>4. CASE UNCHANGED <<pc, ost, dup>>
    BY <1>1, <1>2, <1>4, UnchangedQuiet DEF Calm
  <1>5. CASE Video(at) /\ do_video_out(at, frame)
    <2>. HIDE DEF frame
    <2>. QED  BY <1>1, <1>3, <1>5 DEF Begins
  <1>6. CASE ~Video(at) /\ do_audio_out(at, frame) /\ UNCHANGED <<pc, dup>>
    <2>1. Counted(at)
      BY <1>6 DEF Counted
    <2>. HIDE DEF frame
    <2>. QED  BY <1>1, <1>2, <1>3, <1>6, <2>1, AudioOutQuiet DEF Calm
  <1>. QED  BY <1>4, <1>5, <1>6 DEF ReapFrame

\* Every step is of one of these kinds.
LEMMA Kinds ==
    ASSUME StampInv, [Next]_vars
    PROVE  Calm \/ Begins \/ VideoStep \/ UNCHANGED <<pc, ost, dup>>
  <1>1. conv \in Conversions /\ OutputsTimed /\ ost \in [Out -> OutputState]
    BY DEF StampInv, OutputSide, OutputsTimed
  <1>2. CASE NeedOutput \/ ReapDone
    <2>1. /\ pc \notin {"video", "exit"} /\ pc' # "video" /\ dup' = dup
          /\ \E S : close_output_stream(S, ost)
      BY <1>2 DEF NeedOutput, ReapDone
    <2>2. \E S : ost' = Closed(ost, S)
      BY <2>1 DEF close_output_stream
    <2>3. Quiet(ost)
      BY <1>1, <2>2, ClosedQuiet
    <2>. QED  BY <2>1, <2>3 DEF Calm
  <1>3. CASE Stop \/ FilterFails \/ SeekFails \/ CopyFails \/ Trailers \/ EncoderFails
             \/ FilterGives \/ DecodePacket \/ SeekToStart \/ FlushDecoders
    <2>1. ost' = ost /\ dup' = dup /\ pc' # "video" /\ (pc \in {"video", "exit"} => pc' = "exit")
      BY <1>3 DEF Stop, FilterFails, SeekFails, CopyFails, Trailers, EncoderFails, FilterGives,
                  DecodePacket, SeekToStart, FlushDecoders, Reap
    <2>. QED  BY <1>1, <2>1, UnchangedQuiet DEF Calm
  <1>4. CASE choose_output \/ ReadPacket
    <2>1. /\ dup' = dup /\ pc' # "video" /\ pc \notin {"video", "exit"}
          /\ ost' = ost \/ ost' = Available(ost)
      BY <1>4 DEF choose_output, ReadPacket
    <2>. QED  BY <1>1, <2>1, UnchangedQuiet, AvailableQuiet DEF Calm
  <1>5. CASE FilterNeeds \/ WouldBlock
    <2>1. /\ dup' = dup /\ pc' # "video" /\ pc \notin {"video", "exit"}
          /\ ost' = ost \/ ost' = [ost EXCEPT ![cur].unavailable = TRUE]
      BY <1>5 DEF FilterNeeds, WouldBlock
    <2>. QED  BY <1>1, <2>1, UnchangedQuiet, PausedQuiet DEF Calm
  <1>6. CASE CopyPacket
    <2>1. dup' = dup /\ pc' # "video" /\ pc \notin {"video", "exit"}
      BY <1>6 DEF CopyPacket, Reap
    <2>. QED  BY <1>6, <2>1, CopyPacketQuiet DEF Calm
  <1>7. CASE EndOfInput \/ ReadFails \/ BlocksAfterSeek
    <2>1. EndOfFile /\ pc \notin {"video", "exit"}
      BY <1>7 DEF EndOfInput, ReadFails, BlocksAfterSeek, NoSeek
    <2>2. dup' = dup /\ pc' # "video"
      BY <2>1 DEF EndOfFile, Reap
    <2>. QED  BY <2>1, <2>2, EndOfFileQuiet DEF Calm
  <1>8. CASE ReapFrame
    BY <1>8, ReapFrameKinds
  <1>9. CASE ReapNext
    <2>1. pc = "reap"
      BY <1>9 DEF ReapNext
    <2>2. CASE at \in Encoded /\ Video(at) /\ graph[at].eof /\ FlushVideo(at)
      BY <2>1, <2>2 DEF Begins
    <2>3. CASE UNCHANGED <<pc, ost, dup>>
      BY <2>3
    <2>. QED  BY <1>9, <2>2, <2>3 DEF ReapNext
  <1>10. CASE ShowVideo
    BY <1>10 DEF ShowVideo
  <1>11. CASE FlushEncoder
    <2>1. dup' = dup /\ pc' # "video" /\ pc \notin {"video", "exit"}
      BY <1>11 DEF FlushEncoder
    <2>. QED  BY <1>11, <2>1, FlushEncoderQuiet DEF Calm
  <1>12. CASE UNCHANGED vars
    BY <1>12 DEF vars
  <1>. QED  BY <1>2, <1>3, <1>4, <1>5, <1>6, <1>7, <1>8, <1>9, <1>10, <1>11, <1>12 DEF Next
-----------------------------------------------------------------------------
(* What a step does to a filter graph *)

\* The graph of output o, which was g, is h: it holds back no more frames
\* than it can, and its end, once reached, stays reached.
Flowed(o, g, h) ==
    /\ Len(g.held) <= conv.outputs[o].lag => Len(h.held) <= conv.outputs[o].lag
    /\ g.eof => h.eof

LEMMA FieldsFlowed ==
    ASSUME NEW o, NEW g \in GraphState(o)
    PROVE  /\ Flowed(o, g, g)
           /\ \A q : Flowed(o, g, [g EXCEPT !.queue = q])
           /\ \A q : Flowed(o, g, [g EXCEPT !.sink = q])
           /\ \A S : Flowed(o, g, [g EXCEPT !.closed = S])
           /\ Flowed(o, g, [g EXCEPT !.eof = TRUE])
  BY DEF Flowed, GraphState

LEMMA FlowedFurther ==
    ASSUME NEW o, NEW g, NEW h, NEW k, Flowed(o, g, h), Flowed(o, h, k)
    PROVE  Flowed(o, g, k)
  BY DEF Flowed

LEMMA MadeFlowed ==
    ASSUME conv \in Conversions, NEW o \in Out, NEW g \in GraphState(o), NEW frame \in Frame
    PROVE  Flowed(o, g, Made(g, frame, conv.outputs[o].lag))
  <1>. DEFINE frames == Append(g.held, frame)
              lag == conv.outputs[o].lag
              more == Append(g.sink, Head(frames))
  <1>1. frames \in Seq(Frame) /\ frames # <<>> /\ Len(frames) = Len(g.held) + 1
    BY GraphFields, AppendProperties
  <1>2. lag \in Nat /\ Len(g.held) \in Nat
    BY HoldTypes, GraphFields, LenProperties
  <1>3. Made(g, frame, lag) =
          IF Len(frames) > lag THEN [g EXCEPT !.held = Tail(frames), !.sink = more]
          ELSE [g EXCEPT !.held = frames]
    BY DEF Made
  <1>. HIDE DEF frames, more, lag
  <1>4. Len(Tail(frames)) = Len(frames) - 1
    BY <1>1, HeadTailProperties
  <1>5. Len(Tail(frames)) = Len(g.held)
    BY <1>1, <1>2, <1>4
  <1>6. [g EXCEPT !.held = Tail(frames), !.sink = more].held = Tail(frames)
        /\ [g EXCEPT !.held = Tail(frames), !.sink = more].eof = g.eof
        /\ [g EXCEPT !.held = frames].held = frames
        /\ [g EXCEPT !.held = frames].eof = g.eof
    BY DEF GraphState
  <1>7. CASE Len(frames) > lag
    BY <1>3, <1>5, <1>6, <1>7 DEF Flowed, lag
  <1>8. CASE ~(Len(frames) > lag)
    <2>1. Len(frames) <= lag
      BY <1>1, <1>2, <1>8
    <2>. QED  BY <1>3, <1>6, <1>8, <2>1 DEF Flowed, lag
  <1>. QED  BY <1>7, <1>8 DEF lag

LEMMA PushedFlowed ==
    ASSUME conv \in Conversions, GraphsTimed, NEW S, NEW frames,
           \A s \in S : frames[s] \in Seq(Frame), NEW o \in Encoded
    PROVE  Flowed(o, graph[o], Pushed(S, frames)[o])
  <1>. DEFINE new(s) == IF s \in S THEN frames[s] ELSE <<>>
              g == graph[o]
              only == CHOOSE s \in From(o) : TRUE
              q == [s \in From(o) |-> g.queue[s] \o new(s)]
  <1>1. g \in GraphState(o) /\ o \in Out
    BY DEF GraphsTimed, Encoded
  <1>2. Pushed(S, frames)[o] =
          IF Cardinality(From(o)) > 1 THEN [g EXCEPT !.queue = q]
          ELSE IF new(only) = <<>> THEN g
          ELSE Made(g, new(only)[1], conv.outputs[o].lag)
    BY DEF Pushed
  <1>3. ASSUME new(only) # <<>> PROVE new(only)[1] \in Frame
    <2>1. new(only) \in Seq(Frame)
      BY NoFrame
    <2>. HIDE DEF new, only
    <2>2. 1 \in 1..Len(new(only))
      BY <1>3, <2>1, EmptySeq
    <2>. QED  BY <2>1, <2>2, ElementOfSeq
  <1>. HIDE DEF g, q, new, only
  <1>4. /\ Flowed(o, g, g) /\ Flowed(o, g, [g EXCEPT !.queue = q])
        /\ \A frame \in Frame : Flowed(o, g, Made(g, frame, conv.outputs[o].lag))
    BY <1>1, FieldsFlowed, MadeFlowed
  <1>5. Flowed(o, g, Pushed(S, frames)[o])
    BY <1>2, <1>3, <1>4
  <1>. QED  BY <1>5 DEF g

\* At the end of a file, and after the loop, some streams are drained.
LEMMA DrainsStreams ==
    ASSUME StampInv, EndOfInput \/ ReadFails \/ BlocksAfterSeek \/ FlushDecoders
    PROVE  \E S \in SUBSET Streams : \E E :
              /\ graph' = Drained(S, E)
              /\ ist' = [s \in Streams |-> IF s \in S THEN AtEnd(s).ist ELSE ist[s]]
  <1>1. CASE FlushDecoders
    <2>. DEFINE S == {s \in Streams : /\ DecodingNeeded(s)
                                      /\ ~file[conv.inputs[s].file].eof_reached}
                empty == {s \in S : ist[s].dec = <<>>}
    <2>1. /\ ist' = [s \in Streams |-> IF s \in S THEN AtEnd(s).ist ELSE ist[s]]
          /\ graph' = Drained(S, empty)
      BY <1>1 DEF FlushDecoders, Drained
    <2>2. S \in SUBSET Streams
      OBVIOUS
    <2>. HIDE DEF S, empty
    <2>. QED  BY <2>1, <2>2
  <1>2. CASE EndOfFile
    <2>. DEFINE holding == {s \in StreamsOf(src) : DecodingNeeded(s) /\ ist[s].dec # <<>>}
                ended == {s \in StreamsOf(src) : \A t \in holding : s < t}
                first == IF holding = {} THEN {} ELSE {Min(holding)}
                drained == {s \in ended \cup first : DecodingNeeded(s)}
    <2>1. /\ ist' = [s \in Streams |-> IF s \in drained THEN AtEnd(s).ist ELSE ist[s]]
          /\ graph' = Drained(drained, ended)
      BY <1>2 DEF EndOfFile, Drained
    <2>2. drained \in SUBSET Streams
      <3>1. holding \subseteq Streams /\ ended \subseteq Streams
        BY DEF StreamsOf
      <3>2. first \subseteq holding
        <4>1. IsFiniteSet(holding) /\ holding \subseteq Int
          BY <3>1, ConversionDomains, FS_Subset DEF StampInv
        <4>. HIDE DEF holding
        <4>. QED  BY <4>1, MinInSet
      <3>. QED  BY <3>1, <3>2
    <2>. HIDE DEF ended, drained
    <2>. QED  BY <2>1, <2>2
  <1>. QED  BY <1>1, <1>2 DEF EndOfInput, ReadFails, BlocksAfterSeek

LEMMA MixFlowed ==
    ASSUME conv \in Conversions, GraphsTimed, NEW o \in Encoded, Waiting(o) # {}
    PROVE  Flowed(o, graph[o], Mix(o))
  <1>1. PICK q \in [From(o) -> Seq(Frame)], frame \in Frame :
               Mix(o) = Made([graph[o] EXCEPT !.queue = q], frame, conv.outputs[o].lag)
    BY MixIsMade
  <1>. DEFINE g == graph[o]
              h == [g EXCEPT !.queue = q]
  <1>2. g \in GraphState(o) /\ o \in Out
    BY DEF GraphsTimed, Encoded
  <1>3. h \in GraphState(o) /\ Flowed(o, g, h)
    BY <1>2, QueueTimed, FieldsFlowed
  <1>4. Mix(o) = Made(h, frame, conv.outputs[o].lag)
    BY <1>1
  <1>. HIDE DEF g, h
  <1>5. Flowed(o, h, Mix(o))
    BY <1>2, <1>3, <1>4, MadeFlowed
  <1>. QED  BY <1>3, <1>5, FlowedFurther DEF g

LEMMA DrainedFlowed ==
    ASSUME conv \in Conversions, InputsTimed, GraphsTimed,
           NEW S \in SUBSET Streams, NEW E, NEW o \in Encoded
    PROVE  Flowed(o, graph[o], Drained(S, E)[o])
  <1>. DEFINE frames == [s \in S |-> AtEnd(s).frames]
              g == Pushed(S, frames)[o]
              C == g.closed \cup (E \cap From(o))
  <1>1. \A s \in S : frames[s] \in Seq(Frame)
    BY AtEndTimed
  <1>2. g \in GraphState(o) /\ Flowed(o, graph[o], g)
    <2>. HIDE DEF frames
    <2>. QED  BY <1>1, PushedTimed, PushedFlowed
  <1>3. Drained(S, E)[o] = [g EXCEPT !.closed = C]
    BY DEF Drained
  <1>. HIDE DEF g, C
  <1>4. Flowed(o, g, Drained(S, E)[o])
    <2>1. Flowed(o, g, [g EXCEPT !.closed = C])
      BY <1>2, FieldsFlowed
    <2>. QED  BY <1>3, <2>1
  <1>. QED  BY <1>2, <1>4, FlowedFurther

\* Every step keeps to it.
LEMMA GraphsFlow ==
    ASSUME StampInv, pc = "filter" => cur \in Encoded, [Next]_vars
    PROVE  \A o \in Encoded : Flowed(o, graph[o], graph'[o])
  <1>1. /\ conv \in Conversions /\ GraphsTimed /\ InputsTimed
        /\ \A o \in Encoded : graph[o] \in GraphState(o)
    BY DEF StampInv, InputSide, GraphsTimed
  <1>2. CASE UNCHANGED graph
    BY <1>1, <1>2, FieldsFlowed
  <1>3. CASE FilterGives
    <2>1. cur \in Encoded /\ DOMAIN graph = Encoded
      BY <1>1, <1>3 DEF FilterGives, GraphsTimed
    <2>2. CASE Waiting(cur) # {} /\ graph' = [graph EXCEPT ![cur] = Mix(cur)]
      <3>1. Flowed(cur, graph[cur], Mix(cur))
        BY <1>1, <2>1, <2>2, MixFlowed
      <3>. QED  BY <1>1, <2>1, <2>2, <3>1, FieldsFlowed
    <2>3. CASE graph' = [graph EXCEPT ![cur].sink = @ \o graph[cur].held, ![cur].held = <<>>]
      <3>1. ASSUME NEW o \in Encoded PROVE Flowed(o, graph[o], graph'[o])
        <4>. DEFINE g == graph[o]
        <4>1. g \in GraphState(o) /\ conv.outputs[o].lag \in Nat
          BY <1>1, HoldTypes DEF Encoded
        <4>2. o = cur => graph'[o].held = <<>> /\ graph'[o].eof = g.eof
          BY <2>1, <2>3, <4>1 DEF GraphState
        <4>3. o # cur => graph'[o] = g
          BY <2>1, <2>3
        <4>4. Len(<<>>) = 0
          OBVIOUS
        <4>. HIDE DEF g
        <4>5. CASE o = cur
          <5>1. Len(graph'[o].held) <= conv.outputs[o].lag
            BY <4>1, <4>2, <4>4, <4>5
          <5>. QED  BY <4>2, <4>5, <5>1 DEF Flowed, g
        <4>. QED  BY <4>1, <4>3, <4>5, FieldsFlowed DEF g
      <3>. QED  BY <3>1
    <2>4. CASE graph' = [graph EXCEPT ![cur].eof = TRUE]
      BY <1>1, <2>1, <2>4, FieldsFlowed
    <2>. QED  BY <1>3, <2>2, <2>3, <2>4 DEF FilterGives
  <1>4. CASE DecodePacket
    <2>. DEFINE s == pkt.stream
                i == Seen(s, pkt, ist[s])
                frames == [t \in {s} |-> Decode(s, pkt, i).frames]
    <2>1. pc = "packet" /\ (graph' = Pushed({s}, frames) \/ UNCHANGED graph)
      BY <1>4 DEF DecodePacket
    <2>2. s \in Streams /\ ist[s] \in InputState /\ pkt \in Packet
      BY <2>1 DEF StampInv, InputSide, InputsTimed, PacketTimed
    <2>3. i \in InputState
      <3>. HIDE DEF s
      <3>. QED  BY <1>1, <2>2, SeenTimed
    <2>4. \A t \in {s} : frames[t] \in Seq(Frame)
      <3>1. Decode(s, pkt, i) \in Decoded
        <4>. HIDE DEF s, i
        <4>. QED  BY <1>1, <2>2, <2>3, DecodeTimed
      <3>. QED  BY <3>1 DEF Decoded
    <2>. HIDE DEF frames, s
    <2>. QED  BY <1>1, <1>2, <2>1, <2>4, PushedFlowed
  <1>5. CASE EndOfInput \/ ReadFails \/ BlocksAfterSeek \/ FlushDecoders
    <2>1. \E S \in SUBSET Streams : \E E : graph' = Drained(S, E)
      BY <1>1, <1>5, DrainsStreams
    <2>. QED  BY <1>1, <2>1, DrainedFlowed
  <1>6. CASE SeekToStart
    <2>. DEFINE S == {s \in StreamsOf(src) : DecodingNeeded(s)}
                frames == [s \in S |-> AtEnd(s).frames]
    <2>1. graph' = Pushed(S, [s \in S |-> [t \in S |-> AtEnd(t)][s].frames])
      BY <1>6 DEF SeekToStart
    <2>2. graph' = Pushed(S, frames)
      BY <2>1
    <2>3. \A s \in S : frames[s] \in Seq(Frame)
      BY <1>1, AtEndTimed DEF StreamsOf
    <2>. HIDE DEF S, frames
    <2>. QED  BY <1>1, <2>2, <2>3, PushedFlowed
  <1>7. CASE ReapFrame
    <2>1. graph' = [graph EXCEPT ![at].sink = Tail(@)] /\ DOMAIN graph = Encoded
      BY <1>1, <1>7 DEF ReapFrame, GraphsTimed
    <2>. QED  BY <1>1, <2>1, FieldsFlowed
  <1>8. CASE NeedOutput \/ Stop \/ choose_output \/ FilterNeeds \/ FilterFails
             \/ WouldBlock \/ ReadPacket \/ CopyPacket \/ SeekFails \/ CopyFails \/ ReapNext
             \/ ReapDone \/ ShowVideo \/ FlushEncoder \/ Trailers \/ EncoderFails
    <2>1. UNCHANGED graph
      BY <1>8 DEF NeedOutput, Stop, choose_output, FilterNeeds, FilterFails, WouldBlock,
                  ReadPacket, CopyPacket, SeekFails, CopyFails, ReapNext, ReapDone, ShowVideo,
                  FlushEncoder, Trailers, EncoderFails, inputs
    <2>. QED  BY <1>2, <2>1
  <1>9. CASE UNCHANGED vars
    BY <1>2, <1>9 DEF vars, inputs
  <1>. QED  BY <1>3, <1>4, <1>5, <1>6, <1>7, <1>8, <1>9 DEF Next
-----------------------------------------------------------------------------
(* Where the program is *)

PlaceTyped ==
    /\ pc \in {"loop", "choose", "filter", "input", "again", "packet", "reap", "video",
               "flush_decoders", "flush_encoders", "ended", "exit"}
    /\ cur \in {0} \cup Out /\ src \in {0} \cup Files
    /\ at \in 1..Len(conv.outputs) + 1
    /\ flush \in BOOLEAN /\ waits \in 0..MaxWaits
    /\ pc = "choose" => \E o \in Out : ost[o].finished = {}
    /\ pc = "filter" => cur \in Encoded
    /\ flush => cur \in Out

\* need_output says there is an output to serve only if one stays open.
LEMMA NeedOutputLeavesOne ==
    ASSUME StampInv, NeedOutput, pc' = "choose"
    PROVE  \E o \in Out : ost'[o].finished = {}
  <1>. DEFINE seen == IF Needing = {} THEN Full ELSE {p \in Full : p < Min(Needing)}
              closing == {o \in Out : \E p \in seen : OutFile(p) = OutFile(o)}
              m == Min(Needing)
  <1>1. Needing # {} /\ ost' = Closed(ost, closing)
    BY DEF NeedOutput, close_output_stream
  <1>2. Needing \in SUBSET Out /\ conv \in Conversions
    BY DEF Needing, StampInv
  <1>3. m \in Needing
    <2>. HIDE DEF closing
    <2>. QED  BY <1>1, <1>2, FirstOutput
  <1>4. /\ m \in Out /\ ost[m].finished = {}
        /\ ~ \E p \in Full : p < m /\ OutFile(p) = OutFile(m)
    BY <1>3 DEF Needing
  <1>5. m \notin closing
    BY <1>1, <1>4
  <1>. HIDE DEF m, closing
  <1>. QED  BY <1>1, <1>4, <1>5 DEF Closed

LEMMA ChosenIsOpen ==
    ASSUME StampInv, \E o \in Out : ost[o].finished = {}
    PROVE  Chosen \in Out /\ ost[Chosen].finished = {}
  <1>. DEFINE open == {o \in Out : ost[o].finished = {}}
              behind == {o \in open : \A p \in open :
                                  ost[o].last_mux_dts <= ost[p].last_mux_dts}
              times == [o \in open |-> ost[o].last_mux_dts]
              T == {times[o] : o \in open}
  <1>1. conv \in Conversions /\ ost \in [Out -> OutputState]
    BY DEF StampInv, OutputSide, OutputsTimed
  <1>2. open \in SUBSET Out /\ open # {} /\ IsFiniteSet(open)
    BY <1>1, ConversionDomains, FS_Subset
  <1>3. T \subseteq Int /\ T # {}
    <2>1. ASSUME NEW o \in open PROVE times[o] \in Int
      BY <1>1, OutputFields
    <2>. HIDE DEF times, open
    <2>. QED  BY <1>2, <2>1
  <1>4. IsFiniteSet(T)
    <2>1. DOMAIN times = open
      OBVIOUS
    <2>. HIDE DEF times, open
    <2>. QED  BY <1>2, <2>1, FiniteRange
  <1>5. PICK t \in T : \A u \in T : t <= u
    <2>. HIDE DEF T
    <2>. QED  BY <1>3, <1>4, FiniteSetHasLeast DEF Least
  <1>6. PICK o \in open : t = times[o]
    BY <1>5
  <1>7. o \in behind
    BY <1>5, <1>6
  <1>8. behind \in SUBSET Out /\ behind \subseteq open
    BY <1>2
  <1>9. Min(behind) \in behind
    <2>. HIDE DEF behind, open
    <2>. QED  BY <1>1, <1>7, <1>8, FirstOutput
  <1>10. Chosen = Min(behind)
    BY DEF Chosen
  <1>. HIDE DEF behind
  <1>. QED  BY <1>8, <1>9, <1>10

LEMMA ConvStays == ASSUME [Next]_vars PROVE conv' = conv
  BY DEF Next, vars, NeedOutput, Stop, choose_output, FilterGives, FilterNeeds, FilterFails,
     WouldBlock, ReadPacket, DecodePacket, CopyPacket, EndOfInput, ReadFails,
       BlocksAfterSeek, EndOfFile,
     SeekToStart, SeekFails, CopyFails, ReapFrame, ReapNext, ReapDone, ShowVideo, VideoStep,
     EncodePicture, NoPicture, RecordingEnds, KeepPicture,
     FlushDecoders, FlushEncoder, Trailers, EncoderFails

LEMMA PlaceTypedInit == Init => PlaceTyped
  <1>. SUFFICES ASSUME Init PROVE PlaceTyped
    OBVIOUS
  <1>1. Len(conv.outputs) \in Nat
    BY ConversionsAssumption DEF Init, OutputInit
  <1>2. ~flush /\ flush \in BOOLEAN
    BY DEF Init
  <1>. QED  BY <1>1, <1>2, WaitsAssumption DEF Init, PlaceTyped

LEMMA PlaceTypedNext ==
    ASSUME StampInv, PlaceTyped, [Next]_vars PROVE PlaceTyped'
  <1>1. /\ conv \in Conversions /\ conv' = conv
        /\ Out' = Out /\ Files' = Files /\ Encoded' = Encoded
        /\ Out = 1..Len(conv.outputs) /\ Len(conv.outputs) \in Nat
    <2>1. conv \in Conversions /\ conv' = conv
      BY ConvStays DEF StampInv
    <2>2. Len(conv.outputs) \in Nat
      BY <2>1, ConversionsAssumption
    <2>. QED  BY <2>1, <2>2, SameConversion, ConversionDomains
  <1>2. CASE NeedOutput
    <2>1. /\ pc' \in {"choose", "flush_decoders"} /\ UNCHANGED <<cur, src, at, flush, waits>>
      BY <1>2 DEF NeedOutput, loop, inputs
    <2>2. pc' = "choose" => \E o \in Out : ost'[o].finished = {}
      BY <1>2, NeedOutputLeavesOne
    <2>. QED  BY <1>1, <2>1, <2>2 DEF PlaceTyped
  <1>3. CASE Stop \/ FilterFails \/ SeekFails \/ CopyFails \/ Trailers \/ EncoderFails
             \/ FlushEncoder
    <2>1. /\ pc' \in {"flush_decoders", "ended", "exit", "flush_encoders"}
          /\ UNCHANGED <<cur, src, at, flush, waits>>
      BY <1>3 DEF Stop, FilterFails, SeekFails, CopyFails, Trailers, EncoderFails,
         FlushEncoder, loop, inputs
    <2>. QED  BY <1>1, <2>1 DEF PlaceTyped
  <1>4. CASE choose_output
    <2>1. Chosen \in Out
      BY <1>4, ChosenIsOpen DEF choose_output, PlaceTyped
    <2>2. CASE pc' = "loop" /\ UNCHANGED <<cur, src, at, flush, waits>>
      BY <1>1, <2>2 DEF PlaceTyped
    <2>3. CASE /\ cur' = Chosen /\ pc' = "filter" /\ ~Copied(Chosen)
               /\ UNCHANGED <<src, at, flush, waits>>
      BY <1>1, <2>1, <2>3 DEF PlaceTyped, Encoded
    <2>4. CASE /\ cur' = Chosen /\ pc' = "input"
               /\ src' = conv.inputs[CHOOSE s \in From(Chosen) : TRUE].file
               /\ UNCHANGED <<at, flush, waits>>
      <3>1. From(Chosen) # {} /\ From(Chosen) \subseteq Streams
        BY <1>1, <2>1, HoldTypes, OutputTypes
      <3>2. src' \in Files
        BY <1>1, <2>4, <3>1, StreamTypes
      <3>. QED  BY <1>1, <2>1, <2>4, <3>2 DEF PlaceTyped
    <2>. QED  BY <1>4, <2>2, <2>3, <2>4 DEF choose_output
  <1>5. CASE FilterGives
    <2>1. /\ pc = "filter" /\ pc' = "reap" /\ at' = 1 /\ flush' \in BOOLEAN
          /\ UNCHANGED <<cur, src, waits>>
      BY <1>5 DEF FilterGives, Reap
    <2>2. cur \in Out
      BY <2>1 DEF PlaceTyped, Encoded
    <2>. QED  BY <1>1, <2>1, <2>2 DEF PlaceTyped
  <1>6. CASE FilterNeeds
    <2>1. /\ pc' \in {"input", "loop"} /\ UNCHANGED <<cur, at, flush, waits>>
          /\ src' = src \/ \E f \in {conv.inputs[s].file : s \in Starved(cur)} : src' = f
          /\ pc = "filter"
      BY <1>6 DEF FilterNeeds, loop
    <2>2. cur \in Out
      BY <2>1 DEF PlaceTyped, Encoded
    <2>3. Starved(cur) \subseteq Streams
      BY <1>1, <2>2, OutputTypes DEF Starved
    <2>4. src' \in {0} \cup Files
      BY <1>1, <2>1, <2>3, StreamTypes DEF PlaceTyped
    <2>. QED  BY <1>1, <2>1, <2>4 DEF PlaceTyped
  <1>7. CASE WouldBlock
    <2>1. /\ pc' = "loop" /\ UNCHANGED <<cur, src, at, flush>>
          /\ waits < MaxWaits /\ waits' = waits + 1
      BY <1>7 DEF WouldBlock, loop
    <2>2. waits' \in 0..MaxWaits
      BY <2>1, WaitsAssumption DEF PlaceTyped
    <2>. QED  BY <1>1, <2>1, <2>2 DEF PlaceTyped
  <1>8. CASE ReadPacket
    <2>1. pc' = "packet" /\ UNCHANGED <<cur, src, at, flush, waits>>
      BY <1>8 DEF ReadPacket, loop
    <2>. QED  BY <1>1, <2>1 DEF PlaceTyped
  <1>9. CASE DecodePacket \/ CopyPacket
    <2>1. /\ pc' = "reap" /\ at' = 1 /\ UNCHANGED <<cur, src, waits>>
          /\ ~flush' /\ flush' \in BOOLEAN
      BY <1>9 DEF DecodePacket, CopyPacket, Reap
    <2>. QED  BY <1>1, <2>1 DEF PlaceTyped
  <1>10. CASE EndOfInput \/ ReadFails \/ BlocksAfterSeek
    <2>1. /\ UNCHANGED <<cur, src>>
          /\ waits' = waits \/ (waits < MaxWaits /\ waits' = waits + 1)
          /\ \/ pc' = "reap" /\ at' = 1 /\ ~flush' /\ flush' \in BOOLEAN
             \/ pc' = "loop" /\ UNCHANGED <<at, flush>>
      BY <1>10 DEF EndOfInput, ReadFails, BlocksAfterSeek, EndOfFile, Reap
    <2>2. waits' \in 0..MaxWaits
      BY <2>1, WaitsAssumption DEF PlaceTyped
    <2>. QED  BY <1>1, <2>1, <2>2 DEF PlaceTyped
  <1>11. CASE SeekToStart \/ FlushDecoders
    <2>1. pc' \in {"again", "flush_encoders"} /\ UNCHANGED <<cur, src, at, flush, waits>>
      BY <1>11 DEF SeekToStart, FlushDecoders, loop
    <2>. QED  BY <1>1, <2>1 DEF PlaceTyped
  <1>12. CASE ReapFrame \/ ReapDone \/ ShowVideo
    <2>1. pc' \in {"reap", "video", "loop"} /\ UNCHANGED <<cur, src, at, flush, waits>>
      BY <1>12 DEF ReapFrame, ReapDone, ShowVideo, VideoStep, EncodePicture, NoPicture,
         RecordingEnds, KeepPicture, VideoReturns, do_video_out, BeginPictures, loop, inputs
    <2>. QED  BY <1>1, <2>1 DEF PlaceTyped
  <1>13. CASE ReapNext
    <2>1. /\ pc' \in {"reap", "video"} /\ UNCHANGED <<cur, src, flush, waits>>
          /\ at \in Out /\ at' = at + 1
      BY <1>13 DEF ReapNext, FlushVideo, BeginPictures, inputs
    <2>. QED  BY <1>1, <2>1 DEF PlaceTyped
  <1>14. CASE UNCHANGED vars
    BY <1>1, <1>14 DEF vars, loop, inputs, PlaceTyped
  <1>. QED  BY <1>2, <1>3, <1>4, <1>5, <1>6, <1>7, <1>8, <1>9, <1>10, <1>11, <1>12,
               <1>13, <1>14 DEF Next
-----------------------------------------------------------------------------
(* Pictures are begun *)

OutputTyped(o) ==
    /\ ost[o].frame_number \in 0..conv.outputs[o].max_frames
    /\ Len(ost[o].enc) <= conv.outputs[o].hold
    /\ ost[o].last_nb0 \in Nat \X Nat \X Nat

DupTyped ==
    /\ DOMAIN dup = DOMAIN NoDup
    /\ dup.nb \in Nat /\ dup.nb0 \in 0..dup.nb /\ dup.i \in 0..dup.nb
    /\ pc = "video" =>
         /\ dup.o \in Encoded /\ Video(dup.o)
         /\ ost[dup.o].frame_number + dup.nb - dup.i <= conv.outputs[dup.o].max_frames
         /\ ~dup.next => graph[dup.o].eof

\* The pictures that are begun for output o, of the nb asked for, are those
\* below its limit.
Begun(o, sync, nb, ends, next) ==
    LET max == conv.outputs[o].max_frames
    IN /\ \A x \in Out : x # o => ost'[x] = ost[x]
       /\ ost'[o].finished = ost[o].finished
       /\ ost'[o].frame_number = ost[o].frame_number
       /\ ost'[o].enc = ost[o].enc
       /\ ost'[o].last_nb0 \in Nat \X Nat \X Nat
       /\ ost'[o].sync_opts = sync
       /\ ost'[o].ends = Larger(ost[o].ends, ends)
       /\ \/ ost'[o].skipped /\ UNCHANGED <<pc, dup>>
          \/ /\ ost'[o].skipped = ost[o].skipped /\ pc' = "video"
             /\ dup'.o = o /\ dup'.i = 0 /\ dup'.next = next
             /\ DOMAIN dup' = DOMAIN NoDup
             /\ dup'.nb \in Nat /\ dup'.nb0 \in 0..dup'.nb
             /\ ost[o].frame_number + dup'.nb <= max
             /\ \/ dup'.nb = nb
                \/ ost[o].frame_number + dup'.nb = max

\* What is set when the loop over the pictures begins, or does not.
SameBeginning(r, q) ==
    /\ q.finished = r.finished /\ q.frame_number = r.frame_number /\ q.enc = r.enc
    /\ q.last_nb0 = r.last_nb0 /\ q.sync_opts = r.sync_opts /\ q.ends = r.ends

LEMMA BeginPicturesBegins ==
    ASSUME conv \in Conversions, OutputsTimed, NEW o \in Out, OutputTyped(o),
           NEW sync \in Int, NEW nb \in Nat, NEW nb0 \in Nat, NEW next \in BOOLEAN,
           NEW ends \in Int, BeginPictures(o, sync, nb, nb0, next, ends)
    PROVE  Begun(o, sync, nb, ends, next)
  <1>. DEFINE max == conv.outputs[o].max_frames
              n == Smaller(nb, max - ost[o].frame_number)
              n0 == Smaller(nb0, n)
              last == ost[o].last_nb0
              l == <<n0, last[1], last[2]>>
              e == Larger(ost[o].ends, ends)
              r == ost[o]
              t == IF next THEN r.taken + 1 ELSE r.taken
              k == [r EXCEPT !.sync_opts = sync, !.last_nb0 = l, !.ends = e, !.taken = t]
              kept == [ost EXCEPT ![o].sync_opts = sync,
                            ![o].last_nb0 = <<n0, last[1], last[2]>>,
                            ![o].ends = Larger(@, ends),
                            ![o].taken = IF next THEN @ + 1 ELSE @]
  <1>1. /\ r \in OutputState /\ max \in Nat /\ r.frame_number \in 0..max
        /\ last \in Nat \X Nat \X Nat
    BY OutputTypes DEF OutputTyped, OutputsTimed
  <1>2. /\ n \in Nat /\ r.frame_number + n <= max
        /\ n = nb \/ r.frame_number + n = max
    BY <1>1 DEF Smaller
  <1>3. n0 \in 0..n
    <2>. HIDE DEF n
    <2>. QED  BY <1>2 DEF Smaller
  <1>4. l \in Nat \X Nat \X Nat
    <2>. HIDE DEF n0, last, n
    <2>. QED  BY <1>1, <1>2, <1>3
  <1>5. kept = [ost EXCEPT ![o] = k]
    BY DEF OutputsTimed
  <1>6. /\ k.finished = r.finished /\ k.frame_number = r.frame_number /\ k.enc = r.enc
        /\ k.last_nb0 = l /\ k.sync_opts = sync /\ k.ends = e /\ k.skipped = r.skipped
    <2>. HIDE DEF r, l, e, t
    <2>. QED  BY <1>1 DEF OutputState
  <1>7. k \in OutputState
    <2>1. l \in Int \X Int \X Int /\ e \in Int /\ t \in Int
      <3>1. ost[o].ends \in Int /\ ost[o].taken \in Int
        BY <1>1, OutputFields
      <3>2. e \in Int /\ t \in Int
        BY <3>1 DEF Larger
      <3>. HIDE DEF l, e, t
      <3>. QED  BY <1>4, <3>2
    <2>. HIDE DEF r, l, e, t
    <2>. QED  BY <1>1, <2>1, KeptTimed
  <1>8. ASSUME NEW b
        PROVE  /\ SameBeginning(k, [k EXCEPT !.skipped = b]) /\ [k EXCEPT !.skipped = b].skipped = b
               /\ SameBeginning(k, [k EXCEPT !.last_dropped = b])
               /\ [k EXCEPT !.last_dropped = b].skipped = k.skipped
    <2>. HIDE DEF k
    <2>. QED  BY <1>7 DEF OutputState, SameBeginning
  <1>9. ost \in [Out -> OutputState]
    BY DEF OutputsTimed
  <1>. HIDE DEF k, kept, n, n0, l, e
  <1>10. CASE ost' = [kept EXCEPT ![o].skipped = TRUE] /\ UNCHANGED <<pc, dup>>
    <2>1. ost' = [ost EXCEPT ![o] = [k EXCEPT !.skipped = TRUE]]
      BY <1>5, <1>9, <1>10
    <2>2. ost'[o] = [k EXCEPT !.skipped = TRUE] /\ \A x \in Out : x # o => ost'[x] = ost[x]
      BY <1>9, <2>1
    <2>3. SameBeginning(k, ost'[o]) /\ ost'[o].skipped
      BY <1>8, <2>2
    <2>. QED  BY <1>4, <1>6, <1>10, <2>2, <2>3 DEF Begun, e, r, SameBeginning
  <1>11. CASE /\ ost' = [kept EXCEPT ![o].last_dropped = (n = n0 /\ next)]
              /\ dup' = [o |-> o, i |-> 0, nb |-> n, nb0 |-> n0, next |-> next]
              /\ pc' = "video"
    <2>. DEFINE b == n = n0 /\ next
    <2>1. ost' = [ost EXCEPT ![o] = [k EXCEPT !.last_dropped = b]]
      BY <1>5, <1>9, <1>11
    <2>. HIDE DEF b
    <2>2. ost'[o] = [k EXCEPT !.last_dropped = b] /\ \A x \in Out : x # o => ost'[x] = ost[x]
      BY <1>9, <2>1
    <2>3. SameBeginning(k, ost'[o]) /\ ost'[o].skipped = r.skipped
      BY <1>6, <1>8, <2>2
    <2>4. /\ pc' = "video" /\ dup'.o = o /\ dup'.i = 0 /\ dup'.next = next
          /\ dup'.nb = n /\ dup'.nb0 = n0 /\ DOMAIN dup' = DOMAIN NoDup
      BY <1>11 DEF NoDup
    <2>. QED  BY <1>2, <1>3, <1>4, <1>6, <2>2, <2>3, <2>4 DEF Begun, e, r, SameBeginning
  <1>. QED  BY <1>10, <1>11 DEF BeginPictures, n, n0, kept
-----------------------------------------------------------------------------
(* How many pictures are begun *)

LEMMA RoundNear ==
    ASSUME NEW n \in Int
    PROVE  Round(n) \in Int /\ n - 10 <= 20 * Round(n) /\ 20 * Round(n) <= n + 10
  BY DEF Round, FrameTicks

LEMMA RoundPositive ==
    ASSUME NEW n \in Int, n > 10 PROVE Round(n) \in Nat /\ Round(n) >= 1
  BY RoundNear

LEMMA FramesCounted ==
    ASSUME conv \in Conversions, NEW o \in Out, OutputsTimed, NEW frame \in Frame,
           conv.outputs[o].sync \in {"CFR", "VSCFR", "VFR", "PASSTHROUGH"}
    PROVE  SyncFrames(o, frame).nb \in Nat /\ SyncFrames(o, frame).nb0 \in Nat
  <1>. DEFINE method == conv.outputs[o].sync
              sync == ost[o].sync_opts
              drift == SyncPts(frame) - FrameTicks * sync
              delta == drift + DurationOf(o, frame)
              clipped == drift < 0 /\ delta > 0 /\ method # "PASSTHROUGH"
              delta0 == IF clipped THEN 0 ELSE drift
              here == IF clipped THEN sync ELSE Round(SyncPts(frame))
              restart == method = "VSCFR" /\ ost[o].frame_number = 0 /\ delta0 >= 10
              d == IF restart THEN DurationOf(o, frame) ELSE delta
              d0 == IF restart THEN 0 ELSE delta0
              f == SyncFrames(o, frame)
  <1>1. sync \in Int /\ SyncPts(frame) \in Int /\ DurationOf(o, frame) \in Int
    BY OutputFields, DurationTimed DEF OutputsTimed
  <1>2. drift \in Int /\ delta \in Int
    BY <1>1 DEF FrameTicks
  <1>3. delta0 \in Int
    BY <1>1, <1>2
  <1>4. d \in Int /\ d0 \in Int
    BY <1>1, <1>2, <1>3
  <1>5. CASE method \in {"CFR", "VSCFR"}
    <2>. DEFINE a == IF restart THEN here ELSE sync
                b == IF d < -22 THEN 0 ELSE IF d > 22 THEN Round(d) ELSE 1
                c == IF d > 22 /\ d0 > 22 THEN Round(d0 - 12) ELSE 0
    <2>1. f = [sync_opts |-> a, nb |-> b, nb0 |-> c]
      BY <1>5 DEF SyncFrames
    <2>2. b \in Nat /\ c \in Nat
      <3>. HIDE DEF d, d0
      <3>1. d > 22 => Round(d) \in Nat
        BY <1>4, RoundPositive
      <3>2. d0 > 22 => Round(d0 - 12) \in Nat
        <4>1. d0 > 22 => d0 - 12 \in Int /\ d0 - 12 > 10
          BY <1>4
        <4>. QED  BY <4>1, RoundPositive
      <3>. QED  BY <3>1, <3>2
    <2>. HIDE DEF a, b, c
    <2>. QED  BY <2>1, <2>2
  <1>6. CASE method = "VFR"
    <2>. DEFINE a == IF delta > 12 THEN here ELSE sync
                b == IF delta <= -12 THEN 0 ELSE 1
    <2>1. f = [sync_opts |-> a, nb |-> b, nb0 |-> 0]
      BY <1>6 DEF SyncFrames
    <2>2. b \in Nat
      OBVIOUS
    <2>. HIDE DEF a, b
    <2>. QED  BY <2>1, <2>2
  <1>7. CASE method = "PASSTHROUGH"
    <2>1. f = [sync_opts |-> here, nb |-> 1, nb0 |-> 0]
      BY <1>7 DEF SyncFrames
    <2>. HIDE DEF here
    <2>. QED  BY <2>1
  <1>. QED  BY <1>5, <1>6, <1>7

\* Half a frame behind, a whole one after VSCFR, and two frames ahead.
Near(o, n) ==
    /\ -(IF conv.outputs[o].sync = "CFR" THEN 10 ELSE 20) <= n
    /\ n <= 42

\* At a constant rate the pictures that are begun bring the output as close
\* to the end of the new picture as it was to the end of those before.
LEMMA PicturesKeepNear ==
    ASSUME conv \in Conversions, NEW o \in Out, OutputsTimed, NEW frame \in Frame,
           conv.outputs[o].sync \in {"CFR", "VSCFR"},
           Near(o, FrameTicks * ost[o].sync_opts - ost[o].ends)
    PROVE  LET f == SyncFrames(o, frame)
               end == SyncPts(frame) + DurationOf(o, frame)
           IN Near(o, FrameTicks * f.sync_opts - Larger(ost[o].ends, end) + FrameTicks * f.nb)
  <1>. DEFINE method == conv.outputs[o].sync
              sync == ost[o].sync_opts
              E == ost[o].ends
              P == SyncPts(frame)
              D == DurationOf(o, frame)
              drift == P - 20 * sync
              delta == drift + D
              clipped == drift < 0 /\ delta > 0 /\ method # "PASSTHROUGH"
              delta0 == IF clipped THEN 0 ELSE drift
              here == IF clipped THEN sync ELSE Round(P)
              restart == method = "VSCFR" /\ ost[o].frame_number = 0 /\ delta0 >= 10
              d == IF restart THEN D ELSE delta
              d0 == IF restart THEN 0 ELSE delta0
              f == SyncFrames(o, frame)
              a == IF restart THEN here ELSE sync
              b == IF d < -22 THEN 0 ELSE IF d > 22 THEN Round(d) ELSE 1
              c == IF d > 22 /\ d0 > 22 THEN Round(d0 - 12) ELSE 0
              top == Larger(E, P + D)
              least == IF method = "CFR" THEN 10 ELSE 20
  <1>1. sync \in Int /\ E \in Int /\ P \in Int /\ D \in Nat
    BY OutputFields, DurationTimed DEF OutputsTimed
  <1>2. least \in {10, 20} /\ (restart => least = 20)
    OBVIOUS
  <1>3. -least <= 20 * sync - E /\ 20 * sync - E <= 42
    BY DEF Near, FrameTicks
  <1>4. f = [sync_opts |-> a, nb |-> b, nb0 |-> c]
    BY DEF SyncFrames, FrameTicks
  <1>5. f.sync_opts = a /\ f.nb = b
    <2>. HIDE DEF a, b, c, f
    <2>. QED  BY <1>4
  <1>. SUFFICES /\ -least <= 20 * a - top + 20 * b
                /\ 20 * a - top + 20 * b <= 42
    BY <1>5 DEF FrameTicks, Near
  <1>. HIDE DEF f, sync, E, P, D, least
  <1>6. top \in Int /\ top >= E /\ top >= P + D /\ (top = E \/ top = P + D)
    BY <1>1 DEF Larger
  <1>. HIDE DEF top
  <1>7. CASE restart
    <2>1. ~clipped /\ drift >= 10
      BY <1>7
    <2>2. a = Round(P) /\ d = D /\ P >= 20 * sync + 10
      BY <1>1, <1>7, <2>1
    <2>3. \/ D > 22 /\ b = Round(D)
          \/ D <= 22 /\ b = 1
      <3>. HIDE DEF d
      <3>. QED  BY <1>1, <2>2
    <2>4. /\ Round(P) \in Int /\ P - 10 <= 20 * Round(P) /\ 20 * Round(P) <= P + 10
          /\ Round(D) \in Int /\ D - 10 <= 20 * Round(D) /\ 20 * Round(D) <= D + 10
      BY <1>1, RoundNear
    <2>5. least = 20
      BY <1>2, <1>7
    <2>. HIDE DEF a, b, restart
    <2>. QED  BY <1>1, <1>3, <1>6, <2>2, <2>3, <2>4, <2>5
  <1>8. CASE ~restart
    <2>1. a = sync /\ d = delta /\ d = P + D - 20 * sync /\ d \in Int
      BY <1>1, <1>8
    <2>. HIDE DEF a, d, delta, drift, restart
    <2>2. CASE d < -22
      <3>1. b = 0
        BY <2>2
      <3>. HIDE DEF b
      <3>. QED  BY <1>1, <1>2, <1>3, <1>6, <2>1, <2>2, <3>1
    <2>3. CASE d > 22
      <3>1. b = Round(d) /\ Round(d) \in Int /\ d - 10 <= 20 * Round(d)
            /\ 20 * Round(d) <= d + 10
        <4>1. ~(d < -22)
          BY <2>1, <2>3
        <4>2. b = Round(d)
          BY <2>3, <4>1
        <4>. HIDE DEF b
        <4>. QED  BY <2>1, <4>2, RoundNear
      <3>2. top = P + D
        BY <1>1, <1>2, <1>3, <1>6, <2>1, <2>3
      <3>. HIDE DEF b
      <3>. QED  BY <1>1, <1>2, <2>1, <3>1, <3>2
    <2>4. CASE ~(d < -22) /\ ~(d > 22)
      <3>1. b = 1
        BY <2>4
      <3>. HIDE DEF b
      <3>. QED  BY <1>1, <1>2, <1>3, <1>6, <2>1, <2>4, <3>1
    <2>. QED  BY <2>2, <2>3, <2>4
  <1>. QED  BY <1>7, <1>8
-----------------------------------------------------------------------------
(* The outputs' numbers, and how far each video is from its input *)

OutputsTyped == \A o \in Out : OutputTyped(o)

Followed(o) ==
    /\ Video(o) /\ conv.outputs[o].sync \in {"CFR", "VSCFR"}
    /\ ost[o].finished = {} /\ ~ost[o].skipped
    /\ ost[o].frame_number < conv.outputs[o].max_frames /\ ~graph[o].eof

Ahead(o) == FrameTicks * ost[o].sync_opts - ost[o].ends

\* While its pictures are encoded, a video will be near its input when the
\* last of them is, or it will be at its limit.
WillBeNear(o) ==
    \/ Near(o, Ahead(o) + FrameTicks * (dup.nb - dup.i))
    \/ ost[o].frame_number + dup.nb - dup.i >= conv.outputs[o].max_frames

SyncInv ==
    pc # "exit" =>
        \A o \in Encoded : Followed(o) =>
            IF pc = "video" /\ dup.o = o THEN WillBeNear(o) ELSE Near(o, Ahead(o))

CountInv == OutputsTyped /\ DupTyped /\ SyncInv

LEMMA EncodedUncounted ==
    ASSUME NEW o \in Encoded, Video(o) PROVE o \in Out /\ ~Counted(o)
  BY DEF Encoded, Counted

\* A video that is still followed was followed before, and is where it was.
LEMMA FollowedBefore ==
    ASSUME conv' = conv, NEW o \in Encoded,
           Carried(o, ost[o], ost'[o]), Flowed(o, graph[o], graph'[o]), Followed(o)'
    PROVE  Followed(o) /\ Ahead(o)' = Ahead(o) /\ ost'[o].frame_number = ost[o].frame_number
  <1>1. Video(o) /\ ~Counted(o)
    BY EncodedUncounted DEF Followed, Video
  <1>. QED  BY <1>1 DEF Followed, Video, Carried, Flowed, Ahead

LEMMA CarriedTyped ==
    ASSUME conv \in Conversions, conv' = conv, NEW x \in Out, OutputTyped(x),
           Carried(x, ost[x], ost'[x])
    PROVE  OutputTyped(x)'
  <1>1. conv.outputs[x].max_frames \in Nat
    BY OutputTypes
  <1>. QED  BY <1>1 DEF OutputTyped, Carried

LEMMA CalmCounts ==
    ASSUME StampInv, CountInv, conv' = conv, Calm,
           \A o \in Encoded : Flowed(o, graph[o], graph'[o])
    PROVE  CountInv'
  <1>1. conv \in Conversions /\ Out' = Out /\ Encoded' = Encoded /\ Encoded \subseteq Out
    BY SameConversion DEF StampInv, Encoded
  <1>2. OutputsTyped'
    BY <1>1, CarriedTyped DEF CountInv, OutputsTyped, Calm, Quiet
  <1>3. DupTyped'
    BY <1>1 DEF CountInv, DupTyped, Calm
  <1>4. SyncInv'
    <2>1. SUFFICES ASSUME pc' # "exit", NEW o \in Encoded, Followed(o)'
                   PROVE  Near(o, Ahead(o)')
      BY <1>1 DEF SyncInv, Calm, Near, Ahead
    <2>2. Followed(o) /\ Ahead(o)' = Ahead(o)
      BY <1>1, <2>1, FollowedBefore DEF Calm, Quiet
    <2>. QED  BY <2>1, <2>2 DEF CountInv, SyncInv, Calm
  <1>. QED  BY <1>2, <1>3, <1>4 DEF CountInv

LEMMA UnchangedCounts ==
    ASSUME StampInv, CountInv, conv' = conv, UNCHANGED <<pc, ost, dup>>,
           \A o \in Encoded : Flowed(o, graph[o], graph'[o])
    PROVE  CountInv'
  <1>1. conv \in Conversions /\ Out' = Out /\ Encoded' = Encoded /\ Encoded \subseteq Out
    BY SameConversion DEF StampInv, Encoded
  <1>2. OutputsTyped'
    BY <1>1 DEF CountInv, OutputsTyped, OutputTyped
  <1>3. DupTyped'
    BY <1>1 DEF CountInv, DupTyped, Flowed, Video
  <1>4. SyncInv'
    <2>1. SUFFICES ASSUME pc # "exit", NEW o \in Encoded, Followed(o)'
                   PROVE  IF pc = "video" /\ dup.o = o THEN WillBeNear(o)' ELSE Near(o, Ahead(o)')
      BY <1>1 DEF SyncInv, Near, Ahead, WillBeNear
    <2>2. Followed(o)
      BY <1>1, <2>1 DEF Followed, Flowed, Video
    <2>3. Ahead(o)' = Ahead(o) /\ (WillBeNear(o)' <=> WillBeNear(o))
      BY DEF Ahead, WillBeNear, Near
    <2>. QED  BY <2>1, <2>2, <2>3 DEF CountInv, SyncInv
  <1>. QED  BY <1>2, <1>3, <1>4 DEF CountInv

LEMMA BeginsCounts ==
    ASSUME StampInv, CountInv, conv' = conv, Begins,
           \A o \in Encoded : Flowed(o, graph[o], graph'[o])
    PROVE  CountInv'
  <1>. DEFINE FrameGiven(o) == \E frame \in Frame : do_video_out(o, frame)
              AtEof(o) == graph[o].eof /\ FlushVideo(o)
  <1>1. PICK o \in Encoded : pc = "reap" /\ Video(o) /\ (FrameGiven(o) \/ AtEof(o))
    BY DEF Begins
  <1>2. /\ conv \in Conversions /\ Out' = Out /\ Encoded' = Encoded /\ Encoded \subseteq Out
        /\ OutputsTimed /\ o \in Out /\ ost[o] \in OutputState /\ OutputTyped(o)
        /\ \A x \in Out : ost[x] \in OutputState
    BY SameConversion DEF StampInv, Encoded, OutputSide, OutputsTimed, CountInv, OutputsTyped
  <1>3. conv.outputs[o].sync \in {"CFR", "VSCFR", "VFR", "PASSTHROUGH"}
    BY <1>1, <1>2, OutputTypes DEF Encoded
  <1>. DEFINE Fresh(sync, nb, ends, next) ==
                /\ sync \in Int /\ nb \in Nat /\ ends \in Int
                /\ Begun(o, sync, nb, ends, next)
                /\ next \/ graph[o].eof
                /\ \/ graph[o].eof
                   \/ conv.outputs[o].sync \notin {"CFR", "VSCFR"}
                   \/ Near(o, Ahead(o)) => Near(o, FrameTicks * sync - Larger(ost[o].ends, ends)
                                                 + FrameTicks * nb)
  <1>4. \E sync, nb, ends, next : Fresh(sync, nb, ends, next)
    <2>1. CASE FrameGiven(o)
      <3>1. PICK frame \in Frame : do_video_out(o, frame)
        BY <2>1
      <3>. DEFINE f == SyncFrames(o, frame)
                  end == SyncPts(frame) + DurationOf(o, frame)
      <3>2. f.sync_opts \in Int /\ f.nb \in Nat /\ f.nb0 \in Nat /\ end \in Int
        BY <1>2, <1>3, SyncFramesTimed, FramesCounted, DurationTimed
      <3>3. BeginPictures(o, f.sync_opts, f.nb, f.nb0, TRUE, end)
        BY <3>1 DEF do_video_out
      <3>4. \/ conv.outputs[o].sync \notin {"CFR", "VSCFR"}
            \/ Near(o, Ahead(o)) => Near(o, FrameTicks * f.sync_opts - Larger(ost[o].ends, end)
                                          + FrameTicks * f.nb)
        BY <1>2, PicturesKeepNear DEF Ahead
      <3>. HIDE DEF f, end
      <3>5. Begun(o, f.sync_opts, f.nb, end, TRUE)
        BY <1>2, <3>2, <3>3, BeginPicturesBegins
      <3>6. Fresh(f.sync_opts, f.nb, end, TRUE)
        BY <3>2, <3>4, <3>5
      <3>. HIDE DEF Fresh
      <3>. QED  BY <3>6
    <2>2. CASE AtEof(o)
      <3>. DEFINE last == ost[o].last_nb0
                  nb == Median(last[1], last[2], last[3])
                  sync == ost[o].sync_opts
                  ends == ost[o].ends
      <3>1. last \in Nat \X Nat \X Nat /\ sync \in Int /\ ends \in Int
        BY <1>2, OutputFields DEF OutputTyped
      <3>2. nb \in Nat
        BY <3>1 DEF Median, Larger, Smaller
      <3>3. BeginPictures(o, sync, nb, nb, FALSE, ends)
        BY <2>2 DEF FlushVideo
      <3>. HIDE DEF nb, sync, ends
      <3>4. Begun(o, sync, nb, ends, FALSE)
        BY <1>2, <3>1, <3>2, <3>3, BeginPicturesBegins
      <3>5. Fresh(sync, nb, ends, FALSE)
        BY <2>2, <3>1, <3>2, <3>4
      <3>. HIDE DEF Fresh
      <3>. QED  BY <3>5
    <2>. QED  BY <1>1, <2>1, <2>2
  <1>5. PICK sync, nb, ends, next : Fresh(sync, nb, ends, next)
    BY <1>4
  <1>6. Begun(o, sync, nb, ends, next)
    BY <1>5
  <1>7. /\ \A x \in Out : x # o => ost'[x] = ost[x]
        /\ ost'[o].finished = ost[o].finished
        /\ ost'[o].frame_number = ost[o].frame_number
        /\ ost'[o].enc = ost[o].enc
        /\ ost'[o].last_nb0 \in Nat \X Nat \X Nat
        /\ ost'[o].sync_opts = sync
        /\ ost'[o].ends = Larger(ost[o].ends, ends)
    BY <1>6 DEF Begun
  <1>8. OutputsTyped'
    BY <1>2, <1>7 DEF OutputsTyped, OutputTyped, CountInv
  <1>9. CASE ost'[o].skipped /\ UNCHANGED <<pc, dup>>
    <2>1. DupTyped'
      BY <1>1, <1>2, <1>9 DEF CountInv, DupTyped
    <2>2. SyncInv'
      <3>1. SUFFICES ASSUME NEW x \in Encoded, Followed(x)' PROVE Near(x, Ahead(x)')
        BY <1>1, <1>2, <1>9 DEF SyncInv, Near, Ahead
      <3>2. x # o
        BY <1>9, <3>1 DEF Followed
      <3>3. Carried(x, ost[x], ost'[x])
        BY <1>2, <1>7, <3>2, FieldsCarried
      <3>4. Followed(x) /\ Ahead(x)' = Ahead(x)
        BY <3>1, <3>3, FollowedBefore
      <3>. QED  BY <1>1, <3>4 DEF CountInv, SyncInv
    <2>. QED  BY <1>8, <2>1, <2>2 DEF CountInv
  <1>10. CASE /\ ost'[o].skipped = ost[o].skipped /\ pc' = "video"
              /\ dup'.o = o /\ dup'.i = 0 /\ dup'.next = next
              /\ DOMAIN dup' = DOMAIN NoDup
              /\ dup'.nb \in Nat /\ dup'.nb0 \in 0..dup'.nb
              /\ ost[o].frame_number + dup'.nb <= conv.outputs[o].max_frames
              /\ dup'.nb = nb \/ ost[o].frame_number + dup'.nb = conv.outputs[o].max_frames
    <2>1. /\ ost[o].frame_number \in Nat /\ conv.outputs[o].max_frames \in Nat
          /\ ost[o].frame_number + dup'.nb - dup'.i = ost[o].frame_number + dup'.nb
          /\ dup'.nb - dup'.i = dup'.nb
      BY <1>2, <1>10, OutputTypes DEF OutputTyped
    <2>2. graph[o].eof => graph'[o].eof
      BY DEF Flowed
    <2>3. DupTyped'
      <3>1. ~dup'.next => graph'[o].eof
        BY <1>5, <1>10, <2>2
      <3>. QED  BY <1>1, <1>2, <1>7, <1>10, <2>1, <3>1 DEF DupTyped, Video
    <2>4. ASSUME NEW x \in Encoded, Followed(x)', x # o PROVE Near(x, Ahead(x)')
      <3>1. Carried(x, ost[x], ost'[x])
        BY <1>2, <1>7, <2>4, FieldsCarried
      <3>2. Followed(x) /\ Ahead(x)' = Ahead(x)
        BY <2>4, <3>1, FollowedBefore
      <3>. QED  BY <1>1, <3>2 DEF CountInv, SyncInv
    <2>5. ASSUME Followed(o)' PROVE WillBeNear(o)'
      <3>1. Followed(o) /\ ~graph[o].eof
        BY <1>7, <1>10, <2>2, <2>5 DEF Followed, Video
      <3>2. Near(o, Ahead(o))
        BY <1>1, <3>1 DEF CountInv, SyncInv
      <3>3. Near(o, FrameTicks * sync - Larger(ost[o].ends, ends) + FrameTicks * nb)
        BY <1>5, <3>1, <3>2 DEF Followed
      <3>4. CASE dup'.nb = nb
        <4>1. Ahead(o)' = FrameTicks * sync - Larger(ost[o].ends, ends)
          BY <1>7 DEF Ahead
        <4>2. FrameTicks * (dup'.nb - dup'.i) = FrameTicks * nb
          BY <2>1, <3>4
        <4>3. Near(o, Ahead(o)' + FrameTicks * (dup'.nb - dup'.i))
          BY <3>3, <4>1, <4>2
        <4>. QED  BY <4>3 DEF WillBeNear, Near
      <3>5. CASE ost[o].frame_number + dup'.nb = conv.outputs[o].max_frames
        BY <1>7, <2>1, <3>5 DEF WillBeNear
      <3>. QED  BY <1>10, <3>4, <3>5
    <2>6. SyncInv'
      BY <1>2, <1>10, <2>4, <2>5 DEF SyncInv, Near, Ahead, WillBeNear
    <2>. QED  BY <1>8, <2>3, <2>6 DEF CountInv
  <1>. QED  BY <1>6, <1>9, <1>10 DEF Begun

LEMMA EncodePictureCounts ==
    ASSUME StampInv, CountInv, conv' = conv, EncodePicture,
           \A o \in Encoded : Flowed(o, graph[o], graph'[o])
    PROVE  CountInv'
  <1>. DEFINE o == dup.o
              r == ost[o]
              q == [r EXCEPT !.sync_opts = @ + 1, !.frame_number = @ + 1]
              st == [ost EXCEPT ![o].sync_opts = @ + 1, ![o].frame_number = @ + 1]
  <1>1. /\ conv \in Conversions /\ Out' = Out /\ Encoded' = Encoded /\ Encoded \subseteq Out
        /\ OutputsTimed /\ ost \in [Out -> OutputState]
        /\ \A x \in Out : OutputTyped(x)
    BY SameConversion DEF StampInv, Encoded, OutputSide, OutputsTimed, CountInv, OutputsTyped
  <1>2. /\ pc = "video" /\ pc' = "video" /\ dup.i < dup.nb /\ dup' = [dup EXCEPT !.i = @ + 1]
        /\ Encode(o, FrameTicks * r.sync_opts, st)
    BY DEF EncodePicture
  <1>3. /\ o \in Encoded /\ o \in Out /\ Video(o) /\ ~Counted(o)
        /\ dup.nb \in Nat /\ dup.nb0 \in 0..dup.nb /\ dup.i \in 0..dup.nb
        /\ r.frame_number + dup.nb - dup.i <= conv.outputs[o].max_frames
        /\ ~dup.next => graph[o].eof
    BY <1>1, <1>2, EncodedUncounted DEF CountInv, DupTyped
  <1>4. /\ r \in OutputState /\ r.frame_number \in 0..conv.outputs[o].max_frames
        /\ conv.outputs[o].max_frames \in Nat
        /\ r.sync_opts \in Int /\ r.ends \in Int
    BY <1>1, <1>3, OutputTypes, OutputFields DEF OutputTyped
  <1>5. dup'.i = dup.i + 1 /\ dup'.nb = dup.nb /\ dup'.nb0 = dup.nb0 /\ dup'.o = o
        /\ dup'.next = dup.next /\ DOMAIN dup' = DOMAIN dup
    <2>1. dup' = [dup EXCEPT !.i = @ + 1]
      BY <1>2
    <2>2. DOMAIN dup = {"o", "i", "nb", "nb0", "next"}
      BY DEF CountInv, DupTyped, NoDup
    <2>. QED  BY <2>1, <2>2
  <1>6. q \in OutputState
    <2>1. r.sync_opts + 1 \in Int /\ r.frame_number + 1 \in Int
      BY <1>4
    <2>. HIDE DEF r
    <2>. QED  BY <1>4, <2>1 DEF OutputState
  <1>7. /\ q.finished = r.finished /\ q.last_nb0 = r.last_nb0 /\ q.enc = r.enc
        /\ q.frame_number = r.frame_number + 1 /\ q.sync_opts = r.sync_opts + 1
        /\ q.ends = r.ends /\ q.skipped = r.skipped
    <2>. HIDE DEF r
    <2>. QED  BY <1>4 DEF OutputState
  <1>8. st = [ost EXCEPT ![o] = q]
    BY <1>1, <1>3
  <1>9. st \in [Out -> OutputState] /\ st[o] = q /\ \A x \in Out : x # o => st[x] = ost[x]
    <2>. HIDE DEF q, st, o
    <2>. QED  BY <1>1, <1>3, <1>6, <1>8
  <1>10. \A x \in Out : Carried(x, st[x], ost'[x])
    <2>. DEFINE pts == FrameTicks * r.sync_opts
    <2>1. pts \in Int
      BY <1>4 DEF FrameTicks
    <2>2. Encode(o, pts, st)
      BY <1>2
    <2>. HIDE DEF pts, st, o
    <2>. QED  BY <1>1, <1>3, <1>9, <2>1, <2>2, EncodeQuiet
  <1>11. Carried(o, q, ost'[o])
    BY <1>3, <1>9, <1>10
  <1>. HIDE DEF q, st
  <1>12. /\ ost'[o].frame_number = r.frame_number + 1 /\ ost'[o].sync_opts = r.sync_opts + 1
         /\ ost'[o].ends = r.ends /\ ost'[o].skipped = r.skipped
         /\ r.finished \subseteq ost'[o].finished /\ ost'[o].last_nb0 = r.last_nb0
         /\ Len(r.enc) <= conv.outputs[o].hold => Len(ost'[o].enc) <= conv.outputs[o].hold
    BY <1>3, <1>7, <1>11 DEF Carried
  <1>13. ASSUME NEW x \in Out, x # o PROVE Carried(x, ost[x], ost'[x])
    <2>1. st[x] = ost[x]
      BY <1>9, <1>13
    <2>. QED  BY <1>10, <2>1
  <1>14. OutputsTyped'
    <2>1. ASSUME NEW x \in Out PROVE OutputTyped(x)'
      <3>1. CASE x = o
        <4>1. OutputTyped(o)
          BY <1>1, <1>3
        <4>. DEFINE k == ost'[o].frame_number
        <4>2. k \in 0..conv.outputs[o].max_frames
          <5>1. k = r.frame_number + 1
            BY <1>12
          <5>. HIDE DEF k, r, o
          <5>. QED  BY <1>2, <1>3, <1>4, <5>1
        <4>. QED  BY <1>12, <3>1, <4>1, <4>2 DEF OutputTyped
      <3>2. CASE x # o
        BY <1>1, <1>13, <3>2, CarriedTyped
      <3>. QED  BY <3>1, <3>2
    <2>. QED  BY <1>1, <2>1 DEF OutputsTyped
  <1>15. /\ dup'.nb - dup'.i = dup.nb - dup.i - 1
         /\ ost'[o].frame_number + dup'.nb - dup'.i = r.frame_number + dup.nb - dup.i
    <2>. DEFINE k == ost'[o].frame_number
    <2>1. k = r.frame_number + 1
      BY <1>12
    <2>2. dup.nb \in Int /\ dup.i \in Int /\ r.frame_number \in Int
      BY <1>3, <1>4
    <2>. HIDE DEF k, r, o
    <2>3. dup'.nb - dup'.i = dup.nb - dup.i - 1
      BY <1>5, <2>2
    <2>4. k + dup'.nb - dup'.i = r.frame_number + dup.nb - dup.i
      BY <1>5, <2>1, <2>2
    <2>. QED  BY <2>3, <2>4 DEF k
  <1>16. DupTyped'
    <2>1. graph[o].eof => graph'[o].eof
      BY <1>3 DEF Flowed
    <2>2. dup'.i \in 0..dup'.nb
      BY <1>2, <1>3, <1>5
    <2>3. conv' = conv
      OBVIOUS
    <2>4. ost'[dup'.o].frame_number + dup'.nb - dup'.i <= conv.outputs[dup'.o].max_frames
      BY <1>3, <1>5, <1>15
    <2>5. dup'.nb \in Nat /\ dup'.nb0 \in 0..dup'.nb /\ DOMAIN dup' = DOMAIN NoDup
      BY <1>3, <1>5 DEF CountInv, DupTyped
    <2>6. dup'.o \in Encoded' /\ Video(dup.o)' /\ (~dup'.next => graph'[dup'.o].eof)
      BY <1>1, <1>3, <1>5, <2>1, <2>3 DEF Video
    <2>. QED  BY <2>2, <2>3, <2>4, <2>5, <2>6 DEF DupTyped
  <1>17. SyncInv'
    <2>1. SUFFICES ASSUME NEW x \in Encoded, Followed(x)'
                   PROVE  IF x = o THEN WillBeNear(o)' ELSE Near(x, Ahead(x)')
      BY <1>1, <1>2, <1>5 DEF SyncInv, Near, Ahead, WillBeNear
    <2>2. CASE x # o
      <3>1. Followed(x) /\ Ahead(x)' = Ahead(x)
        BY <1>1, <1>13, <2>1, <2>2, FollowedBefore
      <3>. QED  BY <1>2, <2>2, <3>1 DEF CountInv, SyncInv
    <2>3. CASE x = o
      <3>1. Followed(o)
        <4>1. graph[o].eof => graph'[o].eof
          BY <1>3 DEF Flowed
        <4>2. r.frame_number < conv.outputs[o].max_frames
          BY <1>4, <1>12, <2>1, <2>3 DEF Followed
        <4>. QED  BY <1>3, <1>12, <2>1, <2>3, <4>1, <4>2 DEF Followed, Video
      <3>2. WillBeNear(o)
        BY <1>2, <1>3, <3>1 DEF CountInv, SyncInv
      <3>3. Ahead(o)' + FrameTicks * (dup'.nb - dup'.i)
              = Ahead(o) + FrameTicks * (dup.nb - dup.i)
        <4>. DEFINE a == r.sync_opts
                    e == r.ends
                    m == dup.nb - dup.i
        <4>1. a \in Int /\ e \in Int /\ m \in Int
          BY <1>3, <1>4
        <4>2. Ahead(o) = 20 * a - e /\ Ahead(o)' = 20 * (a + 1) - e
          BY <1>5, <1>12 DEF Ahead, FrameTicks
        <4>3. dup'.nb - dup'.i = m - 1
          BY <1>15
        <4>. HIDE DEF a, e, m
        <4>4. 20 * (a + 1) - e + 20 * (m - 1) = 20 * a - e + 20 * m
          BY <4>1
        <4>. QED  BY <4>2, <4>3, <4>4 DEF FrameTicks, m
      <3>4. CASE Near(o, Ahead(o) + FrameTicks * (dup.nb - dup.i))
        <4>1. Near(o, Ahead(o)' + FrameTicks * (dup'.nb - dup'.i))
          BY <3>3, <3>4
        <4>. QED  BY <1>5, <2>3, <4>1 DEF WillBeNear, Near
      <3>5. CASE r.frame_number + dup.nb - dup.i >= conv.outputs[o].max_frames
        BY <1>1, <1>5, <1>15, <2>3, <3>5 DEF WillBeNear
      <3>. QED  BY <3>2, <3>4, <3>5 DEF WillBeNear
    <2>. QED  BY <2>2, <2>3
  <1>. QED  BY <1>14, <1>16, <1>17 DEF CountInv

\* The loop over the pictures is left.
LEMMA VideoReturnsCounts ==
    ASSUME StampInv, CountInv, conv' = conv, NoPicture \/ RecordingEnds \/ KeepPicture,
           \A o \in Encoded : Flowed(o, graph[o], graph'[o])
    PROVE  CountInv'
  <1>. DEFINE o == dup.o
  <1>1. /\ conv \in Conversions /\ Out' = Out /\ Encoded' = Encoded /\ Encoded \subseteq Out
        /\ OutputsTimed /\ ost \in [Out -> OutputState]
    BY SameConversion DEF StampInv, Encoded, OutputSide, OutputsTimed
  <1>2. pc = "video" /\ pc' = "reap" /\ dup' = NoDup
    BY DEF NoPicture, RecordingEnds, KeepPicture, VideoReturns
  <1>3. /\ o \in Encoded /\ o \in Out /\ Video(o)
        /\ dup.nb \in Nat /\ dup.i \in 0..dup.nb
        /\ ~dup.next => graph[o].eof
        /\ ost[o] \in OutputState
    BY <1>1, <1>2, EncodedUncounted DEF CountInv, DupTyped
  <1>4. \A x \in Out : Carried(x, ost[x], ost'[x])
    <2>1. CASE NoPicture
      <3>1. ost' = ost
        BY <2>1 DEF NoPicture
      <3>. QED  BY <1>1, <3>1, FieldsCarried
    <2>2. CASE RecordingEnds
      <3>1. ost' = Closed(ost, {o})
        BY <2>2 DEF RecordingEnds, close_output_stream
      <3>. QED  BY <1>1, <3>1, ClosedQuiet DEF Quiet
    <2>3. CASE KeepPicture
      <3>1. ost' = [ost EXCEPT ![o].last_frame = dup.next]
        BY <2>3 DEF KeepPicture
      <3>. HIDE DEF o
      <3>. QED  BY <1>1, <3>1, FieldsCarried
    <2>. QED  BY <2>1, <2>2, <2>3
  <1>5. OutputsTyped'
    BY <1>1, <1>4, CarriedTyped DEF CountInv, OutputsTyped
  <1>6. DupTyped'
    BY <1>2 DEF DupTyped, NoDup
  <1>7. SyncInv'
    <2>1. SUFFICES ASSUME NEW x \in Encoded, Followed(x)' PROVE Near(x, Ahead(x)')
      BY <1>1, <1>2 DEF SyncInv, Near, Ahead
    <2>2. Followed(x) /\ Ahead(x)' = Ahead(x) /\ ost'[x].frame_number = ost[x].frame_number
      BY <1>1, <1>4, <2>1, FollowedBefore
    <2>3. CASE x # o
      BY <1>2, <2>2, <2>3 DEF CountInv, SyncInv
    <2>4. CASE x = o
      <3>1. CASE NoPicture
        <4>1. graph[o].eof
          BY <1>3, <3>1 DEF NoPicture, Picture
        <4>. QED  BY <2>2, <2>4, <4>1 DEF Followed
      <3>2. CASE RecordingEnds
        <4>1. ost' = Closed(ost, {o})
          BY <3>2 DEF RecordingEnds, close_output_stream
        <4>2. "ENCODER" \in ost'[o].finished
          BY <1>3, <4>1 DEF Closed, OutputState
        <4>. QED  BY <2>1, <2>4, <4>2 DEF Followed
      <3>3. CASE KeepPicture
        <4>1. dup.i = dup.nb
          BY <3>3 DEF KeepPicture
        <4>2. WillBeNear(o)
          BY <1>2, <1>3, <2>2, <2>4 DEF CountInv, SyncInv
        <4>3. /\ ost[o].frame_number \in Nat /\ conv.outputs[o].max_frames \in Nat
              /\ ost[o].frame_number < conv.outputs[o].max_frames
              /\ Ahead(o) \in Int
          <5>1. ost[o].frame_number \in 0..conv.outputs[o].max_frames
                /\ conv.outputs[o].max_frames \in Nat
            BY <1>1, <1>3, OutputTypes DEF CountInv, OutputsTyped, OutputTyped
          <5>2. ost[o].sync_opts \in Int /\ ost[o].ends \in Int
            BY <1>3, OutputFields
          <5>. QED  BY <2>2, <2>4, <5>1, <5>2 DEF Followed, Ahead, FrameTicks
        <4>4. ~(ost[o].frame_number + dup.nb - dup.i >= conv.outputs[o].max_frames)
          BY <1>3, <4>1, <4>3
        <4>5. Ahead(o) + FrameTicks * (dup.nb - dup.i) = Ahead(o)
          BY <1>3, <4>1, <4>3 DEF FrameTicks
        <4>. QED  BY <2>2, <2>4, <4>2, <4>4, <4>5 DEF WillBeNear
      <3>. QED  BY <3>1, <3>2, <3>3
    <2>. QED  BY <2>3, <2>4
  <1>. QED  BY <1>5, <1>6, <1>7 DEF CountInv

LEMMA CountInvInit == Init => CountInv
  <1>. SUFFICES ASSUME Init PROVE CountInv
    OBVIOUS
  <1>1. conv \in Conversions /\ ost = [o \in Out |-> NewStream] /\ dup = NoDup /\ pc = "loop"
    BY DEF Init, OutputInit
  <1>2. OutputsTyped
    <2>1. ASSUME NEW o \in Out
          PROVE  conv.outputs[o].max_frames \in Nat /\ conv.outputs[o].hold \in Nat
      BY <1>1, OutputTypes, HoldTypes
    <2>2. Len(<<>>) = 0
      OBVIOUS
    <2>. QED  BY <1>1, <2>1, <2>2 DEF OutputsTyped, OutputTyped, NewStream
  <1>3. DupTyped
    BY <1>1 DEF DupTyped, NoDup
  <1>4. SyncInv
    <2>1. \A o \in Encoded : Near(o, Ahead(o))
      BY <1>1 DEF Near, Ahead, Encoded, NewStream, FrameTicks
    <2>. QED  BY <1>1, <2>1 DEF SyncInv
  <1>. QED  BY <1>2, <1>3, <1>4 DEF CountInv

LEMMA CountInvNext ==
    ASSUME StampInv, PlaceTyped, CountInv, [Next]_vars PROVE CountInv'
  <1>1. conv' = conv
    BY ConvStays
  <1>2. \A o \in Encoded : Flowed(o, graph[o], graph'[o])
    BY GraphsFlow DEF PlaceTyped
  <1>3. CASE Calm
    BY <1>1, <1>2, <1>3, CalmCounts
  <1>4. CASE Begins
    BY <1>1, <1>2, <1>4, BeginsCounts
  <1>5. CASE VideoStep
    BY <1>1, <1>2, <1>5, EncodePictureCounts, VideoReturnsCounts DEF VideoStep
  <1>6. CASE UNCHANGED <<pc, ost, dup>>
    BY <1>1, <1>2, <1>6, UnchangedCounts
  <1>. QED  BY <1>3, <1>4, <1>5, <1>6, Kinds

\* At a constant rate a video does not drift from its input: whatever the
\* timestamps of its frames and however long each is taken to be, whole frames
\* or not, the pictures that are dropped and duplicated for them (lines
\* 900-1010) leave it at most two frames ahead, and half a frame behind, or a
\* whole frame where VSCFR may leave out initial pictures, however often, and
\* however the other outputs are served in between.
THEOREM VideosStayInSync == Spec => []InSync
  <1>. DEFINE I == StampInv /\ PlaceTyped /\ CountInv
  <1>1. Init => I
    BY StampInvInit, PlaceTypedInit, CountInvInit
  <1>2. I /\ [Next]_vars => I'
    BY StampInvNext, PlaceTypedNext, CountInvNext
  <1>3. I => InSync
    BY DEF CountInv, SyncInv, InSync, Followed, Near, Ahead
  <1>4. Spec => []I
    <2>. HIDE DEF I
    <2>. QED  BY <1>1, <1>2, PTL DEF Spec
  <1>. HIDE DEF I
  <1>. QED  BY <1>3, <1>4, PTL
-----------------------------------------------------------------------------
(* Recording times *)

TimesTyped == recording_time \in [{OutFile(o) : o \in Out} -> Int]

LEMMA ShortenedTyped ==
    ASSUME conv \in Conversions, OutputsTimed, TimesTyped, NEW S \in SUBSET Out
    PROVE  ShortenedBy(S, ost) \in [{OutFile(o) : o \in Out} -> Int]
  <1>. DEFINE T(f) == {Position(o, ost) : o \in {p \in S : OutFile(p) = f}}
              U(f) == {recording_time[f]} \cup T(f)
  <1>1. ASSUME NEW f \in DOMAIN recording_time
        PROVE  Min(U(f)) \in Int /\ recording_time[f] \in Int
    <2>. DEFINE Q == {p \in S : OutFile(p) = f}
                g == [o \in Q |-> Position(o, ost)]
    <2>1. recording_time[f] \in Int
      BY DEF TimesTyped
    <2>2. IsFiniteSet(Q) /\ Q \subseteq Out
      BY ConversionDomains, FS_Subset
    <2>3. T(f) \subseteq Int
      <3>1. ASSUME NEW o \in Q PROVE Position(o, ost) \in Int
        <4>1. ost[o].sync_opts \in Int
          BY <2>2, OutputFields DEF OutputsTimed
        <4>. QED  BY <4>1 DEF Position, FrameTicks
      <3>. QED  BY <3>1
    <2>4. IsFiniteSet(T(f))
      <3>1. IsFiniteSet({g[o] : o \in Q})
        <4>1. DOMAIN g = Q
          OBVIOUS
        <4>. HIDE DEF g, Q
        <4>. QED  BY <2>2, <4>1, FiniteRange
      <3>2. {g[o] : o \in Q} = T(f)
        OBVIOUS
      <3>. QED  BY <3>1, <3>2
    <2>5. IsFiniteSet(U(f)) /\ U(f) \subseteq Int /\ U(f) # {}
      BY <2>1, <2>3, <2>4, FS_Singleton, FS_Union
    <2>. HIDE DEF U
    <2>. QED  BY <2>1, <2>5, MinInSet
  <1>2. ShortenedBy(S, ost) = [f \in DOMAIN recording_time |->
                                 IF f \in conv.shortest THEN Min(U(f)) ELSE recording_time[f]]
    BY DEF ShortenedBy
  <1>3. DOMAIN recording_time = {OutFile(o) : o \in Out}
    BY DEF TimesTyped
  <1>. HIDE DEF U
  <1>. QED  BY <1>1, <1>2, <1>3

LEMMA TimesTypedInit == Init => TimesTyped
  <1>. SUFFICES ASSUME Init PROVE TimesTyped
    OBVIOUS
  <1>1. conv \in Conversions /\ recording_time = [f \in {OutFile(o) : o \in Out} |-> conv.time[f]]
    BY DEF Init, OutputInit
  <1>2. conv.time \in [{OutFile(o) : o \in Out} -> Int]
    BY <1>1, ConversionsAssumption DEF Out, OutFile
  <1>. QED  BY <1>1, <1>2 DEF TimesTyped

\* recording_time only changes where outputs are closed.
LEMMA TimesChange ==
    ASSUME StampInv, PlaceTyped, CountInv, [Next]_vars
    PROVE  \/ UNCHANGED recording_time
           \/ \E S \in SUBSET Out : recording_time' = ShortenedBy(S, ost)
  <1>1. conv \in Conversions
    BY DEF StampInv
  <1>2. CASE NeedOutput
    <2>. DEFINE seen == IF Needing = {} THEN Full ELSE {p \in Full : p < Min(Needing)}
                closing == {o \in Out : \E p \in seen : OutFile(p) = OutFile(o)}
    <2>1. recording_time' = ShortenedBy(closing, ost)
      BY <1>2 DEF NeedOutput, close_output_stream
    <2>2. closing \in SUBSET Out
      OBVIOUS
    <2>. HIDE DEF closing
    <2>. QED  BY <2>1, <2>2
  <1>3. CASE ReapDone
    <2>1. recording_time' = ShortenedBy(IF flush THEN {cur} ELSE {}, ost)
      BY <1>3 DEF ReapDone, close_output_stream
    <2>. QED  BY <2>1 DEF PlaceTyped
  <1>4. CASE CopyPacket
    <2>. DEFINE s == pkt.stream
                i == Passed(s, pkt)
                copies == CopiesNow(s)
                o == Min(copies)
    <2>1. IF copies = {} THEN UNCHANGED recording_time ELSE StreamCopy(o, i, pkt)
      BY <1>4 DEF CopyPacket
    <2>2. CASE copies # {}
      <3>1. copies \in SUBSET Out
        BY DEF CopiesNow, CopiesOf
      <3>2. o \in copies
        <4>. HIDE DEF copies
        <4>. QED  BY <1>1, <2>2, <3>1, FirstOutput
      <3>3. o \in Out /\ StreamCopy(o, i, pkt)
        BY <2>1, <2>2, <3>1, <3>2
      <3>. HIDE DEF o, i
      <3>. QED  BY <3>3 DEF StreamCopy, close_output_stream
    <2>. QED  BY <2>1, <2>2
  <1>5. CASE ReapFrame
    <2>1. at \in Out
      BY <1>5 DEF ReapFrame, Reaped, Encoded
    <2>. QED  BY <1>5, <2>1 DEF ReapFrame, do_audio_out, close_output_stream
  <1>6. CASE ShowVideo
    <2>1. CASE RecordingEnds
      <3>1. dup.o \in Out
        BY <2>1 DEF RecordingEnds, CountInv, DupTyped, Encoded
      <3>. QED  BY <2>1, <3>1 DEF RecordingEnds, close_output_stream
    <2>. QED  BY <1>6, <2>1 DEF ShowVideo, VideoStep, EncodePicture, NoPicture, KeepPicture
  <1>7. CASE Stop \/ choose_output \/ FilterGives \/ FilterNeeds \/ FilterFails \/ WouldBlock
             \/ ReadPacket \/ DecodePacket \/ EndOfInput \/ ReadFails \/ BlocksAfterSeek
             \/ SeekToStart \/ SeekFails \/ CopyFails \/ ReapNext \/ FlushDecoders
             \/ FlushEncoder \/ Trailers \/ EncoderFails
    BY <1>7 DEF Stop, choose_output, FilterGives, FilterNeeds, FilterFails, WouldBlock,
       ReadPacket, DecodePacket, EndOfInput, ReadFails, BlocksAfterSeek, EndOfFile,
       SeekToStart, SeekFails, CopyFails, ReapNext, FlushDecoders, FlushEncoder,
       Trailers, EncoderFails
  <1>8. CASE UNCHANGED vars
    BY <1>8 DEF vars
  <1>. QED  BY <1>2, <1>3, <1>4, <1>5, <1>6, <1>7, <1>8 DEF Next

LEMMA TimesTypedNext ==
    ASSUME StampInv, PlaceTyped, CountInv, TimesTyped, [Next]_vars PROVE TimesTyped'
  <1>1. conv' = conv /\ conv \in Conversions /\ OutputsTimed
    BY ConvStays DEF StampInv, OutputSide
  <1>2. {OutFile(o) : o \in Out}' = {OutFile(o) : o \in Out}
    BY <1>1 DEF Out, OutFile
  <1>. QED  BY <1>1, <1>2, TimesChange, ShortenedTyped DEF TimesTyped
-----------------------------------------------------------------------------
(* What a step does to an input stream *)

\* Its decoder holds no more frames than it can.
Fits(s, r) == Len(r.dec) <= conv.inputs[s].depth

LEMMA SeenFits ==
    ASSUME NEW s, NEW p, NEW i \in InputState
    PROVE  Seen(s, p, i).pos = i.pos /\ Seen(s, p, i).dec = i.dec
  <1>. DEFINE early == IF VideoIn(s)
                       THEN -(conv.inputs[s].depth * conv.inputs[s].rate) ELSE 0
              given == p.pts # NoPts /\ ~DecodingNeeded(s)
              a == IF given THEN early + p.pts ELSE early
              b == IF given THEN early + p.pts ELSE 0
              j == IF i.saw THEN i ELSE [i EXCEPT !.saw = TRUE, !.dts = a, !.pts = b]
              c == IF j.next_dts = NoPts THEN j.dts ELSE j.next_dts
              d == IF j.next_pts = NoPts THEN j.pts ELSE j.next_pts
              k == [j EXCEPT !.next_dts = c, !.next_pts = d]
  <1>1. Seen(s, p, i) =
           IF p.dts = NoPts THEN k
           ELSE IF VideoIn(s) /\ DecodingNeeded(s)
           THEN [k EXCEPT !.dts = p.dts, !.next_dts = p.dts]
           ELSE [k EXCEPT !.dts = p.dts, !.next_dts = p.dts,
                          !.pts = p.dts, !.next_pts = p.dts]
    BY DEF Seen
  <1>2. j.pos = i.pos /\ j.dec = i.dec /\ DOMAIN j = DOMAIN i
    <2>. HIDE DEF a, b
    <2>. QED  BY DEF InputState
  <1>. HIDE DEF j
  <1>3. k.pos = i.pos /\ k.dec = i.dec
    <2>. HIDE DEF c, d
    <2>. QED  BY <1>2 DEF InputState
  <1>. HIDE DEF k
  <1>. QED  BY <1>1, <1>3

LEMMA PassingFits ==
    ASSUME NEW s, NEW p, NEW i \in InputState
    PROVE  /\ Passing(s, i, p).pos = i.pos /\ Passing(s, i, p).dec = i.dec
           /\ Refused(s, p, i).pos = i.pos /\ Refused(s, p, i).dec = i.dec
  <1>. DEFINE j == [i EXCEPT !.pts = i.next_pts, !.dts = i.next_dts]
              n == NextDts(s, p, j)
              next == i.next_dts + (IF VideoIn(s) THEN Long(s, p) ELSE p.dur)
  <1>1. Passing(s, i, p) = [i EXCEPT !.pts = i.next_dts, !.dts = i.next_dts,
                                     !.next_pts = next, !.next_dts = next]
    BY DEF Passing
  <1>2. Refused(s, p, i) = IF VideoIn(s) THEN [j EXCEPT !.next_dts = n] ELSE j
    BY DEF Refused
  <1>3. DOMAIN j = DOMAIN i /\ j.pos = i.pos /\ j.dec = i.dec
    BY DEF InputState
  <1>. HIDE DEF n, next, j
  <1>. QED  BY <1>1, <1>2, <1>3 DEF InputState

LEMMA RemoveAtLength ==
    ASSUME NEW frames \in Seq(Frame), NEW k \in DOMAIN frames
    PROVE  Len(RemoveAt(frames, k)) = Len(frames) - 1
  <1>1. k \in 1..Len(frames) /\ Len(frames) \in Nat
        /\ \A i \in 1..Len(frames) : frames[i] \in Frame
    BY ElementOfSeq
  <1>. DEFINE a == SubSeq(frames, 1, k - 1)
              b == SubSeq(frames, k + 1, Len(frames))
  <1>2. a \in Seq(Frame) /\ Len(a) = k - 1
    <2>1. \A i \in 1..k - 1 : frames[i] \in Frame
      BY <1>1
    <2>2. 1 \in Int /\ k - 1 \in Int
      BY <1>1
    <2>3. Len(a) = IF 1 <= k - 1 THEN (k - 1) - 1 + 1 ELSE 0
      BY <2>1, <2>2, SubSeqProperties
    <2>4. a \in Seq(Frame)
      BY <2>1, <2>2, SubSeqProperties
    <2>. HIDE DEF a
    <2>. QED  BY <1>1, <2>3, <2>4
  <1>3. b \in Seq(Frame) /\ Len(b) = Len(frames) - k
    <2>1. \A i \in k + 1..Len(frames) : frames[i] \in Frame
      BY <1>1
    <2>2. k + 1 \in Int /\ Len(frames) \in Int
      BY <1>1
    <2>3. Len(b) = IF k + 1 <= Len(frames) THEN Len(frames) - (k + 1) + 1 ELSE 0
      BY <2>1, <2>2, SubSeqProperties
    <2>4. b \in Seq(Frame)
      BY <2>1, <2>2, SubSeqProperties
    <2>. HIDE DEF b
    <2>. QED  BY <1>1, <2>3, <2>4
  <1>. HIDE DEF a, b
  <1>4. Len(a \o b) = Len(a) + Len(b)
    BY <1>2, <1>3, ConcatProperties
  <1>5. RemoveAt(frames, k) = a \o b
    BY DEF RemoveAt, a, b
  <1>. QED  BY <1>1, <1>2, <1>3, <1>4, <1>5

LEMMA DecodeFits ==
    ASSUME conv \in Conversions, NEW s \in Streams, NEW p \in Packet,
           NEW i0 \in InputState, Fits(s, i0)
    PROVE  LET d == Decode(s, p, i0)
           IN /\ d.ist.pos = i0.pos /\ Fits(s, d.ist)
              /\ Len(d.frames) \in {0, 1}
              /\ Len(d.ist.dec) + Len(d.frames)
                   = Len(i0.dec) + (IF p = NoPacket THEN 0 ELSE 1)
              /\ p = NoPacket /\ i0.dec # <<>> => Len(d.frames) = 1
  <1>. DEFINE end == p = NoPacket
              i == [i0 EXCEPT !.pts = i0.next_pts, !.dts = i0.next_dts]
              inside == IF end THEN i.dec ELSE Append(i.dec, Incoming(s, p, i))
              gives == inside # <<>> /\ (end \/ Len(inside) > conv.inputs[s].depth)
              k == Leaving(s, inside)
              dec == IF gives THEN RemoveAt(inside, k) ELSE inside
              fed == [i EXCEPT !.dec = dec]
              d == IF ~gives THEN [ist |-> fed, frames |-> <<>>]
                   ELSE IF VideoIn(s) THEN decode_video(fed, inside[k])
                   ELSE decode_audio(fed, inside[k], p)
              long == Long(s, p)
              then == NextDts(s, p, i)
              depth == conv.inputs[s].depth
  <1>1. i \in InputState /\ i.dec = i0.dec /\ i.pos = i0.pos
    BY BegunTimed, InputFields DEF InputState
  <1>2. depth \in Nat /\ Len(i.dec) \in Nat /\ Len(i.dec) <= depth /\ i.dec \in Seq(Frame)
    <2>1. i.dec \in Seq(Frame)
      BY <1>1, InputFields
    <2>. QED  BY <1>1, <2>1, StreamTypes, LenProperties DEF Fits
  <1>. HIDE DEF i, then, long
  <1>3. inside \in Seq(Frame) /\ Len(inside) \in Nat
        /\ (end => Len(inside) <= depth) /\ Len(inside) <= depth + 1
        /\ (end => inside = i.dec) /\ (~end => Len(inside) = Len(i.dec) + 1)
    <2>1. i.dts \in Int /\ p.pts \in Int /\ p.dur \in Int
      BY <1>1, InputFields, PacketFields
    <2>2. Incoming(s, p, i) \in Frame
      BY <2>1 DEF Incoming, Frame
    <2>. DEFINE longer == Append(i.dec, Incoming(s, p, i))
    <2>3. longer \in Seq(Frame) /\ Len(longer) = Len(i.dec) + 1
      BY <1>2, <2>2, AppendProperties
    <2>. HIDE DEF longer
    <2>4. inside = IF end THEN i.dec ELSE longer
      BY DEF longer
    <2>. HIDE DEF inside, end
    <2>5. CASE end
      BY <1>2, <2>4, <2>5
    <2>6. CASE ~end
      BY <1>2, <2>3, <2>4, <2>6
    <2>. QED  BY <2>5, <2>6
  <1>. HIDE DEF inside
  <1>4. ASSUME gives PROVE k \in DOMAIN inside /\ inside[k] \in Frame
    <2>1. k \in DOMAIN inside
      BY <1>3, <1>4, LeavingInside
    <2>. HIDE DEF k
    <2>. QED  BY <1>3, <2>1, ElementOfSeq
  <1>. HIDE DEF k
  <1>5. /\ dec \in Seq(Frame) /\ Len(dec) <= depth
        /\ (gives => Len(dec) = Len(inside) - 1) /\ (~gives => dec = inside)
    <2>1. CASE gives
      <3>1. Len(RemoveAt(inside, k)) = Len(inside) - 1
        BY <1>3, <1>4, <2>1, RemoveAtLength
      <3>2. RemoveAt(inside, k) \in Seq(Frame)
        BY <1>3, <1>4, <2>1, RemoveAtTimed
      <3>3. dec = RemoveAt(inside, k)
        BY <2>1
      <3>. HIDE DEF dec, gives
      <3>. QED  BY <1>2, <1>3, <2>1, <3>1, <3>2, <3>3
    <2>2. CASE ~gives
      <3>1. dec = inside
        BY <2>2
      <3>2. Len(inside) <= depth
        <4>1. CASE inside = <<>>
          BY <1>2, <1>3, <4>1
        <4>2. CASE ~end /\ ~(Len(inside) > depth)
          BY <1>2, <1>3, <4>2
        <4>. QED  BY <2>2, <4>1, <4>2
      <3>. HIDE DEF dec, gives
      <3>. QED  BY <1>3, <2>2, <3>1, <3>2
    <2>. QED  BY <2>1, <2>2
  <1>6. fed \in InputState /\ fed.pos = i0.pos /\ fed.dec = dec
    <2>. HIDE DEF dec
    <2>. QED  BY <1>1, <1>5, DecTimed DEF InputState
  <1>. HIDE DEF fed, dec
  <1>7. d.ist.pos = i0.pos /\ d.ist.dec = dec /\ DOMAIN d.ist = DOMAIN fed
        /\ DOMAIN d = {"ist", "frames"}
        /\ (gives => Len(d.frames) = 1) /\ (~gives => Len(d.frames) = 0)
    <2>1. CASE ~gives
      <3>. HIDE DEF gives
      <3>. QED  BY <1>6, <2>1
    <2>2. CASE gives /\ VideoIn(s)
      <3>. HIDE DEF gives
      <3>. QED  BY <1>6, <2>2 DEF decode_video, InputState
    <2>3. CASE gives /\ ~VideoIn(s)
      <3>. HIDE DEF gives
      <3>. QED  BY <1>6, <2>3 DEF decode_audio, InputState
    <2>. QED  BY <2>1, <2>2, <2>3
  <1>8. Decode(s, p, i0) =
           IF VideoIn(s)
           THEN [d EXCEPT !.ist.next_dts = then,
                          !.ist.next_pts = IF gives THEN @ + long ELSE @]
           ELSE d
    BY DEF Decode, fed, dec, k, inside, i, then, long
  <1>9. end /\ i0.dec # <<>> => gives
    BY <1>1, <1>3
  <1>. HIDE DEF d, gives, long, then
  <1>10. Decode(s, p, i0).ist.pos = i0.pos /\ Decode(s, p, i0).ist.dec = dec
         /\ Decode(s, p, i0).frames = d.frames
    BY <1>7, <1>8
  <1>11. Len(dec) + Len(d.frames) = Len(i0.dec) + (IF end THEN 0 ELSE 1)
    <2>. HIDE DEF end, dec
    <2>1. Len(dec) + Len(d.frames) = Len(inside)
      <3>1. CASE gives
        <4>1. Len(dec) = Len(inside) - 1 /\ Len(d.frames) = 1 /\ Len(inside) \in Nat
          BY <1>3, <1>5, <1>7, <3>1
        <4>. QED  BY <4>1
      <3>2. CASE ~gives
        BY <1>3, <1>5, <1>7, <3>2
      <3>. QED  BY <3>1, <3>2
    <2>2. CASE end
      BY <1>1, <1>2, <1>3, <2>1, <2>2
    <2>3. CASE ~end
      BY <1>1, <1>2, <1>3, <2>1, <2>3
    <2>. QED  BY <2>2, <2>3
  <1>12. Len(d.frames) \in {0, 1} /\ (end /\ i0.dec # <<>> => Len(d.frames) = 1)
    BY <1>7, <1>9
  <1>. QED  BY <1>5, <1>10, <1>11, <1>12 DEF Fits
-----------------------------------------------------------------------------
(* Input streams, files and graphs stay within their bounds *)

StreamTyped(s) == ist[s].pos <= Len(conv.inputs[s].packets) /\ Fits(s, ist[s])
StreamsTyped == \A s \in Streams : StreamTyped(s)

FileTyped(f) == file[f].loop \in 0..conv.files[f].loop /\ file[f].duration \in Nat
FilesTyped == \A f \in Files : FileTyped(f)

GraphsTyped == \A o \in Encoded : Len(graph[o].held) <= conv.outputs[o].lag

LEMMA AtEndFits ==
    ASSUME conv \in Conversions, InputsTimed, NEW s \in Streams, StreamTyped(s)
    PROVE  LET d == AtEnd(s)
           IN /\ d.ist.pos = ist[s].pos /\ Fits(s, d.ist)
              /\ Len(d.frames) \in {0, 1}
              /\ Len(d.ist.dec) + Len(d.frames) = Len(ist[s].dec)
              /\ ist[s].dec # <<>> => Len(d.frames) = 1
  <1>. DEFINE i == Seen(s, NoPacket, ist[s])
  <1>1. ist[s] \in InputState
    BY DEF InputsTimed
  <1>2. i \in InputState
    BY <1>1, NoPacketTyped, SeenTimed
  <1>3. i.pos = ist[s].pos /\ i.dec = ist[s].dec
    BY <1>1, SeenFits
  <1>4. Fits(s, i)
    BY <1>3 DEF StreamTyped, Fits
  <1>5. AtEnd(s) = Decode(s, NoPacket, i)
    BY DEF AtEnd
  <1>. HIDE DEF i
  <1>. DEFINE d == Decode(s, NoPacket, i)
  <1>6. /\ d.ist.pos = i.pos /\ Fits(s, d.ist)
        /\ Len(d.frames) \in {0, 1}
        /\ Len(d.ist.dec) + Len(d.frames) = Len(i.dec) + 0
        /\ i.dec # <<>> => Len(d.frames) = 1
    BY <1>2, <1>4, NoPacketTyped, DecodeFits
  <1>7. Len(i.dec) + 0 = Len(i.dec)
    BY <1>2, InputFields, LenProperties
  <1>. HIDE DEF d
  <1>8. Len(d.ist.dec) + Len(d.frames) = Len(i.dec)
    BY <1>6, <1>7
  <1>. QED  BY <1>3, <1>5, <1>6, <1>8 DEF d

LEMMA StreamsTypedInit == Init => StreamsTyped
  <1>. SUFFICES ASSUME Init, NEW s \in Streams PROVE StreamTyped(s)
    BY DEF StreamsTyped
  <1>1. conv \in Conversions
    BY DEF Init, OutputInit
  <1>2. conv.inputs[s].packets \in Seq(Packet) /\ conv.inputs[s].depth \in Nat
    BY <1>1, StreamTypes
  <1>3. Len(conv.inputs[s].packets) \in Nat
    BY <1>2, LenProperties
  <1>4. ist[s].pos = 0 /\ ist[s].dec = <<>>
    BY DEF Init
  <1>5. Len(<<>>) = 0
    OBVIOUS
  <1>. QED  BY <1>2, <1>3, <1>4, <1>5 DEF StreamTyped, Fits

\* One stream may change, and keeps within its bounds.
LEMMA OneStreamTyped ==
    ASSUME conv' = conv, InputsTimed, StreamsTyped, NEW s \in Streams, NEW r,
           ist' = [ist EXCEPT ![s] = r],
           r.pos <= Len(conv.inputs[s].packets), Fits(s, r)
    PROVE  StreamsTyped'
  <1>. SUFFICES ASSUME NEW x \in Streams PROVE StreamTyped(x)'
    BY SameConversion DEF StreamsTyped
  <1>1. DOMAIN ist = Streams
    BY DEF InputsTimed
  <1>2. CASE x = s
    <2>1. ist'[x] = r
      BY <1>1, <1>2
    <2>. QED  BY <1>2, <2>1 DEF StreamTyped, Fits
  <1>3. CASE x # s
    <2>1. ist'[x] = ist[x]
      BY <1>1, <1>3
    <2>. QED  BY <2>1 DEF StreamsTyped, StreamTyped, Fits
  <1>. QED  BY <1>2, <1>3

LEMMA ReadPacketFits ==
    ASSUME StampInv, StreamsTyped, ReadPacket PROVE StreamsTyped'
  <1>. DEFINE c(s) == Corrected(s, conv.inputs[s].packets[ist[s].pos + 1])
  <1>1. PICK s \in StreamsOf(src) :
             /\ ist[s].pos < Len(conv.inputs[s].packets)
             /\ conv' = conv
             /\ ist' = [ist EXCEPT ![s].pos = @ + 1,
                  ![s].max_pts = IF c(s).range = NoPts THEN @ ELSE Larger(c(s).range, @),
                  ![s].min_pts = IF c(s).range = NoPts THEN @ ELSE Smaller(c(s).range, @)]
    BY DEF ReadPacket
  <1>. DEFINE a == IF c(s).range = NoPts THEN ist[s].max_pts
                   ELSE Larger(c(s).range, ist[s].max_pts)
              b == IF c(s).range = NoPts THEN ist[s].min_pts
                   ELSE Smaller(c(s).range, ist[s].min_pts)
              n == ist[s].pos + 1
              r == [ist[s] EXCEPT !.pos = n, !.max_pts = a, !.min_pts = b]
  <1>2. /\ conv \in Conversions /\ InputsTimed /\ s \in Streams
        /\ ist[s] \in InputState /\ StreamTyped(s)
    BY <1>1 DEF StampInv, InputSide, InputsTimed, StreamsOf, StreamsTyped
  <1>3. ist' = [ist EXCEPT ![s] = r]
    BY <1>1
  <1>4. Len(conv.inputs[s].packets) \in Nat /\ ist[s].pos \in Nat
    <2>1. conv.inputs[s].packets \in Seq(Packet)
      BY <1>2, StreamTypes
    <2>. QED  BY <1>2, <2>1, LenProperties, InputFields
  <1>5. r.pos = n /\ r.dec = ist[s].dec
    <2>. HIDE DEF a, b, n
    <2>. QED  BY <1>2 DEF InputState
  <1>6. n <= Len(conv.inputs[s].packets)
    BY <1>1, <1>4
  <1>7. r.pos <= Len(conv.inputs[s].packets) /\ Fits(s, r)
    <2>. HIDE DEF r, n
    <2>. QED  BY <1>2, <1>5, <1>6 DEF StreamTyped, Fits
  <1>. HIDE DEF r
  <1>. QED  BY <1>1, <1>2, <1>3, <1>7, OneStreamTyped

LEMMA PacketProcessedFits ==
    ASSUME StampInv, StreamsTyped, DecodePacket \/ CopyPacket PROVE StreamsTyped'
  <1>. DEFINE s == pkt.stream
              i == Seen(s, pkt, ist[s])
              d == Decode(s, pkt, i)
  <1>1. /\ pc = "packet" /\ conv' = conv
        /\ \/ ist' = [ist EXCEPT ![s] = d.ist]
           \/ ist' = [ist EXCEPT ![s] = Refused(s, pkt, i)]
           \/ ist' = [ist EXCEPT ![s] = Passing(s, i, pkt)]
    BY DEF DecodePacket, CopyPacket, Passed
  <1>2. /\ conv \in Conversions /\ InputsTimed /\ s \in Streams /\ pkt \in Packet
        /\ ist[s] \in InputState /\ StreamTyped(s)
    BY <1>1 DEF StampInv, InputSide, InputsTimed, PacketTimed, StreamsTyped
  <1>3. i \in InputState
    <2>. HIDE DEF s
    <2>. QED  BY <1>2, SeenTimed
  <1>4. i.pos = ist[s].pos /\ i.dec = ist[s].dec
    <2>. HIDE DEF s
    <2>. QED  BY <1>2, SeenFits
  <1>5. i.pos <= Len(conv.inputs[s].packets) /\ Fits(s, i)
    <2>. HIDE DEF s, i
    <2>. QED  BY <1>2, <1>4 DEF StreamTyped, Fits
  <1>. HIDE DEF s, i
  <1>6. d.ist.pos = i.pos /\ Fits(s, d.ist)
    BY <1>2, <1>3, <1>5, DecodeFits
  <1>7. /\ Refused(s, pkt, i).pos = i.pos /\ Refused(s, pkt, i).dec = i.dec
        /\ Passing(s, i, pkt).pos = i.pos /\ Passing(s, i, pkt).dec = i.dec
    BY <1>3, PassingFits
  <1>8. Fits(s, Refused(s, pkt, i)) /\ Fits(s, Passing(s, i, pkt))
    BY <1>5, <1>7 DEF Fits
  <1>. HIDE DEF d
  <1>9. PICK r : /\ ist' = [ist EXCEPT ![s] = r]
                 /\ r.pos <= Len(conv.inputs[s].packets) /\ Fits(s, r)
    BY <1>1, <1>5, <1>6, <1>7, <1>8 DEF d, i, s
  <1>. QED  BY <1>1, <1>2, <1>9, OneStreamTyped

LEMMA DrainedFits ==
    ASSUME StampInv, StreamsTyped, conv' = conv,
           EndOfInput \/ ReadFails \/ BlocksAfterSeek \/ FlushDecoders
    PROVE  StreamsTyped'
  <1>1. PICK S \in SUBSET Streams :
            ist' = [s \in Streams |-> IF s \in S THEN AtEnd(s).ist ELSE ist[s]]
    BY DrainsStreams
  <1>2. conv \in Conversions /\ InputsTimed
    BY DEF StampInv, InputSide
  <1>. SUFFICES ASSUME NEW s \in Streams PROVE StreamTyped(s)'
    BY SameConversion DEF StreamsTyped
  <1>3. StreamTyped(s)
    BY DEF StreamsTyped
  <1>4. AtEnd(s).ist.pos = ist[s].pos /\ Fits(s, AtEnd(s).ist)
    BY <1>2, <1>3, AtEndFits
  <1>5. ist'[s] = AtEnd(s).ist \/ ist'[s] = ist[s]
    BY <1>1
  <1>. QED  BY <1>3, <1>4, <1>5 DEF StreamTyped, Fits

LEMMA SeekFits ==
    ASSUME StampInv, StreamsTyped, conv' = conv, SeekToStart PROVE StreamsTyped'
  <1>. DEFINE S == StreamsOf(src)
              decoded == {s \in S : DecodingNeeded(s)}
              after == [s \in S |-> IF s \in decoded
                                    THEN [AtEnd(s).ist EXCEPT !.dec = <<>>] ELSE ist[s]]
  <1>1. ist' = [s \in Streams |-> IF s \in S THEN [after[s] EXCEPT !.pos = 0] ELSE ist[s]]
    BY DEF SeekToStart
  <1>2. conv \in Conversions /\ InputsTimed
    BY DEF StampInv, InputSide
  <1>. SUFFICES ASSUME NEW s \in Streams PROVE StreamTyped(s)'
    BY SameConversion DEF StreamsTyped
  <1>3. StreamTyped(s) /\ ist[s] \in InputState
    BY <1>2 DEF StreamsTyped, InputsTimed
  <1>4. /\ conv.inputs[s].depth \in Nat /\ Len(conv.inputs[s].packets) \in Nat
        /\ Len(<<>>) = 0
    <2>1. conv.inputs[s].packets \in Seq(Packet) /\ conv.inputs[s].depth \in Nat
      BY <1>2, StreamTypes
    <2>. QED  BY <2>1, LenProperties
  <1>5. CASE s \notin S
    <2>1. ist'[s] = ist[s]
      BY <1>1, <1>5
    <2>. QED  BY <1>3, <2>1 DEF StreamTyped, Fits
  <1>6. CASE s \in S
    <2>. DEFINE a == after[s]
    <2>1. a = [AtEnd(s).ist EXCEPT !.dec = <<>>] \/ a = ist[s]
      BY <1>6
    <2>2. AtEnd(s).ist \in InputState
      BY <1>2, AtEndTimed
    <2>3. ist'[s] = [a EXCEPT !.pos = 0]
      BY <1>1, <1>6
    <2>. HIDE DEF a
    <2>4. CASE a = [AtEnd(s).ist EXCEPT !.dec = <<>>]
      <3>1. ist'[s].pos = 0 /\ ist'[s].dec = <<>>
        BY <2>2, <2>3, <2>4 DEF InputState
      <3>. QED  BY <1>4, <3>1 DEF StreamTyped, Fits
    <2>5. CASE a = ist[s]
      <3>1. ist'[s].pos = 0 /\ ist'[s].dec = ist[s].dec
        BY <1>3, <2>3, <2>5 DEF InputState
      <3>. QED  BY <1>3, <1>4, <3>1 DEF StreamTyped, Fits
    <2>. QED  BY <2>1, <2>4, <2>5
  <1>. QED  BY <1>5, <1>6

LEMMA StreamsTypedNext ==
    ASSUME StampInv, StreamsTyped, [Next]_vars PROVE StreamsTyped'
  <1>1. conv' = conv
    BY ConvStays
  <1>2. CASE UNCHANGED ist
    BY <1>1, <1>2, SameConversion DEF StreamsTyped, StreamTyped, Fits
  <1>3. CASE ReadPacket \/ DecodePacket \/ CopyPacket
    BY <1>3, ReadPacketFits, PacketProcessedFits
  <1>4. CASE EndOfInput \/ ReadFails \/ BlocksAfterSeek \/ FlushDecoders \/ SeekToStart
    BY <1>1, <1>4, DrainedFits, SeekFits
  <1>5. CASE NeedOutput \/ Stop \/ choose_output \/ FilterGives \/ FilterNeeds \/ FilterFails
             \/ WouldBlock \/ SeekFails \/ CopyFails \/ ReapFrame \/ ReapNext \/ ReapDone
             \/ ShowVideo \/ FlushEncoder \/ Trailers \/ EncoderFails
    <2>1. UNCHANGED ist
      BY <1>5 DEF NeedOutput, Stop, choose_output, FilterGives, FilterNeeds, FilterFails,
         WouldBlock, SeekFails, CopyFails, ReapFrame, ReapNext, ReapDone, ShowVideo,
         FlushEncoder, Trailers, EncoderFails, inputs
    <2>. QED  BY <1>2, <2>1
  <1>6. CASE UNCHANGED vars
    BY <1>2, <1>6 DEF vars, inputs
  <1>. QED  BY <1>3, <1>4, <1>5, <1>6 DEF Next

LEMMA FilesTypedInit == Init => FilesTyped
  <1>. SUFFICES ASSUME Init, NEW f \in Files PROVE FileTyped(f)
    BY DEF FilesTyped
  <1>1. conv \in Conversions
    BY DEF Init, OutputInit
  <1>2. conv.files[f].loop \in Nat
    BY <1>1, FileTypes
  <1>3. file[f].loop = conv.files[f].loop /\ file[f].duration = 0
    BY DEF Init
  <1>. QED  BY <1>2, <1>3 DEF FileTyped

\* Where an input does not begin again, only its flags and offset change, and
\* its end stays its end.
FileKept(f) ==
    /\ file'[f].loop = file[f].loop /\ file'[f].duration = file[f].duration
    /\ file[f].eof_reached => file'[f].eof_reached

LEMMA ResetKept ==
    ASSUME FilesTimed, NEW f \in Files
    PROVE  /\ reset_eagain[f] \in FileState
           /\ reset_eagain[f].loop = file[f].loop
           /\ reset_eagain[f].duration = file[f].duration
           /\ reset_eagain[f].eof_reached = file[f].eof_reached
  <1>1. file[f] \in FileState /\ reset_eagain[f] = [file[f] EXCEPT !.eagain = FALSE]
    BY DEF FilesTimed, reset_eagain
  <1>. QED  BY <1>1, ResetTimed DEF FileState

LEMMA ReadKeepsFile ==
    ASSUME FilesTimed, ReadPacket, NEW f \in Files
    PROVE  /\ file'[f].loop = file[f].loop /\ file'[f].duration = file[f].duration
           /\ file'[f].eof_reached = file[f].eof_reached
  <1>1. PICK a, b : file' = [reset_eagain EXCEPT ![src].ts_offset = a, ![src].last_ts = b]
    <2>. DEFINE c(s) == Corrected(s, conv.inputs[s].packets[ist[s].pos + 1])
    <2>1. PICK s \in StreamsOf(src) :
            file' = [reset_eagain EXCEPT ![src].ts_offset = c(s).ts_offset,
               ![src].last_ts = IF c(s).packet.dts = NoPts THEN @ ELSE c(s).packet.dts]
      BY DEF ReadPacket
    <2>. DEFINE a == c(s).ts_offset
                b == IF c(s).packet.dts = NoPts THEN reset_eagain[src].last_ts
                     ELSE c(s).packet.dts
    <2>2. CASE src \in DOMAIN reset_eagain
      <3>1. file' = [reset_eagain EXCEPT ![src].ts_offset = a, ![src].last_ts = b]
        BY <2>1, <2>2
      <3>. HIDE DEF a, b
      <3>. QED  BY <3>1
    <2>3. CASE src \notin DOMAIN reset_eagain
      <3>1. /\ file' = reset_eagain
            /\ reset_eagain = [reset_eagain EXCEPT ![src].ts_offset = 0, ![src].last_ts = 0]
        BY <2>1, <2>3 DEF reset_eagain
      <3>. QED  BY <3>1
    <2>. QED  BY <2>2, <2>3
  <1>. DEFINE q == reset_eagain[f]
  <1>2. file'[f] = q \/ file'[f] = [q EXCEPT !.ts_offset = a, !.last_ts = b]
    BY <1>1 DEF reset_eagain
  <1>3. /\ q \in FileState /\ q.loop = file[f].loop /\ q.duration = file[f].duration
        /\ q.eof_reached = file[f].eof_reached
    BY ResetKept
  <1>. HIDE DEF q
  <1>. QED  BY <1>2, <1>3 DEF FileState

LEMMA FilesKept ==
    ASSUME StampInv, [Next]_vars, ~SeekToStart, NEW f \in Files
    PROVE  FileKept(f)
  <1>1. file \in [Files -> FileState] /\ file[f] \in FileState /\ FilesTimed
    BY DEF StampInv, InputSide, FilesTimed
  <1>2. CASE UNCHANGED file
    BY <1>2 DEF FileKept
  <1>3. CASE file' = reset_eagain
    BY <1>1, <1>3, ResetKept DEF FileKept
  <1>4. CASE choose_output
    <2>1. UNCHANGED file \/ file' = reset_eagain
      BY <1>4 DEF choose_output
    <2>. QED  BY <1>2, <1>3, <2>1
  <1>5. CASE WouldBlock
    <2>1. file' = [file EXCEPT ![src].eagain = TRUE]
      BY <1>5 DEF WouldBlock
    <2>2. file'[f] = file[f] \/ file'[f] = [file[f] EXCEPT !.eagain = TRUE]
      BY <1>1, <2>1
    <2>. QED  BY <1>1, <2>2 DEF FileKept, FileState
  <1>6. CASE ReadPacket
    BY <1>1, <1>6, ReadKeepsFile DEF FileKept
  <1>7. CASE EndOfInput \/ ReadFails \/ BlocksAfterSeek
    <2>1. UNCHANGED file \/ file' = [file EXCEPT ![src].eof_reached = TRUE]
      BY <1>7 DEF EndOfInput, ReadFails, BlocksAfterSeek, EndOfFile
    <2>2. file'[f] = file[f] \/ file'[f] = [file[f] EXCEPT !.eof_reached = TRUE]
      BY <1>1, <2>1
    <2>. QED  BY <1>1, <2>2 DEF FileKept, FileState
  <1>8. CASE NeedOutput \/ Stop \/ FilterGives \/ FilterNeeds \/ FilterFails \/ DecodePacket
             \/ CopyPacket \/ SeekFails \/ CopyFails \/ ReapFrame \/ ReapNext \/ ReapDone
             \/ ShowVideo \/ FlushDecoders \/ FlushEncoder \/ Trailers \/ EncoderFails
    <2>1. UNCHANGED file
      BY <1>8 DEF NeedOutput, Stop, FilterGives, FilterNeeds, FilterFails, DecodePacket,
         CopyPacket, SeekFails, CopyFails, ReapFrame, ReapNext, ReapDone, ShowVideo,
         FlushDecoders, FlushEncoder, Trailers, EncoderFails, inputs
    <2>. QED  BY <1>2, <2>1
  <1>9. CASE UNCHANGED vars
    BY <1>2, <1>9 DEF vars, inputs
  <1>. QED  BY <1>4, <1>5, <1>6, <1>7, <1>8, <1>9 DEF Next

\* No other file ends.
EndsStay == \A f \in Files : file'[f].eof_reached => file[f].eof_reached

LEMMA EndsStayWhen ==
    ASSUME StampInv, file' = file \/ choose_output \/ WouldBlock \/ ReadPacket
    PROVE  EndsStay
  <1>. SUFFICES ASSUME NEW f \in Files
                PROVE  file'[f].eof_reached => file[f].eof_reached
    BY DEF EndsStay
  <1>1. file \in [Files -> FileState] /\ file[f] \in FileState /\ FilesTimed
    BY DEF StampInv, InputSide, FilesTimed
  <1>2. CASE file' = reset_eagain
    BY <1>1, <1>2, ResetKept
  <1>3. CASE choose_output
    BY <1>2, <1>3 DEF choose_output
  <1>4. CASE WouldBlock
    <2>1. file' = [file EXCEPT ![src].eagain = TRUE]
      BY <1>4 DEF WouldBlock
    <2>2. file'[f] = file[f] \/ file'[f] = [file[f] EXCEPT !.eagain = TRUE]
      BY <1>1, <2>1
    <2>. QED  BY <1>1, <2>2 DEF FileState
  <1>5. CASE ReadPacket
    BY <1>1, <1>5, ReadKeepsFile
  <1>. QED  BY <1>3, <1>4, <1>5

\* A pass less remains, and the file is at least as long as it was.
LEMMA SeekFilesTyped ==
    ASSUME StampInv, FilesTyped, SeekToStart, NEW f \in Files
    PROVE  FileTyped(f)'
  <1>1. /\ conv \in Conversions /\ conv' = conv /\ file \in [Files -> FileState]
        /\ file[f] \in FileState /\ FileTyped(f) /\ file[src].loop > 0
    BY DEF StampInv, InputSide, FilesTimed, FilesTyped, SeekToStart
  <1>2. PICK lengths \in SUBSET Int :
           /\ IsFiniteSet(lengths)
           /\ file' = [file EXCEPT ![src].loop = @ - 1,
                                   ![src].duration = Max({@} \cup lengths)]
    BY SeekLengthens
  <1>3. CASE f # src
    <2>1. file'[f] = file[f]
      BY <1>1, <1>2, <1>3
    <2>. QED  BY <1>1, <2>1 DEF FileTyped
  <1>4. CASE f = src
    <2>. DEFINE r == file[f]
                T == {r.duration} \cup lengths
                n == r.loop - 1
                m == Max(T)
    <2>1. r.loop \in 0..conv.files[f].loop /\ r.duration \in Nat /\ r.loop > 0
          /\ conv.files[f].loop \in Nat
      BY <1>1, <1>4, FileTypes DEF FileTyped
    <2>2. n \in 0..conv.files[f].loop
      BY <2>1
    <2>3. T \subseteq Int /\ T # {} /\ r.duration \in T
      BY <1>2, <2>1
    <2>4. IsFiniteSet(T)
      BY <1>2, FS_Singleton, FS_Union
    <2>5. m \in Int /\ m >= r.duration
      <3>. HIDE DEF T, r
      <3>. QED  BY <2>3, <2>4, MaxInSet
    <2>6. file'[f] = [r EXCEPT !.loop = n, !.duration = m]
      BY <1>1, <1>2, <1>4
    <2>7. r \in FileState
      BY <1>1
    <2>. HIDE DEF r, n, m
    <2>8. file'[f].loop = n /\ file'[f].duration = m
      BY <2>6, <2>7 DEF FileState
    <2>9. m \in Nat
      BY <2>1, <2>5
    <2>. QED  BY <1>1, <2>2, <2>8, <2>9 DEF FileTyped
  <1>. QED  BY <1>3, <1>4

LEMMA FilesTypedNext ==
    ASSUME StampInv, FilesTyped, [Next]_vars PROVE FilesTyped'
  <1>1. conv' = conv
    BY ConvStays
  <1>. SUFFICES ASSUME NEW f \in Files PROVE FileTyped(f)'
    BY <1>1, SameConversion DEF FilesTyped
  <1>2. CASE SeekToStart
    BY <1>2, SeekFilesTyped
  <1>3. CASE ~SeekToStart
    BY <1>1, <1>3, FilesKept DEF FilesTyped, FileTyped, FileKept
  <1>. QED  BY <1>2, <1>3

LEMMA GraphsTypedInit == Init => GraphsTyped
  <1>. SUFFICES ASSUME Init, NEW o \in Encoded
                PROVE  Len(graph[o].held) <= conv.outputs[o].lag
    BY DEF GraphsTyped
  <1>1. conv.outputs[o].lag \in Nat
    BY HoldTypes DEF Init, OutputInit, Encoded
  <1>2. graph[o].held = <<>> /\ Len(<<>>) = 0
    BY DEF Init
  <1>. QED  BY <1>1, <1>2

LEMMA GraphsTypedNext ==
    ASSUME StampInv, PlaceTyped, GraphsTyped, [Next]_vars PROVE GraphsTyped'
  <1>1. Encoded' = Encoded /\ conv' = conv
    BY ConvStays, SameConversion
  <1>2. \A o \in Encoded : Flowed(o, graph[o], graph'[o])
    BY GraphsFlow DEF PlaceTyped
  <1>. QED  BY <1>1, <1>2 DEF GraphsTyped, Flowed

LEMMA AllTyped ==
    ASSUME StampInv, PlaceTyped, CountInv, TimesTyped, StreamsTyped, FilesTyped, GraphsTyped
    PROVE  TypeOK
  <1>1. /\ conv \in Conversions /\ ost \in [Out -> OutputState]
        /\ \A o \in Out : ost[o] \in OutputState /\ OutputTyped(o)
        /\ \A f \in Files : file[f] \in FileState /\ FileTyped(f)
        /\ \A s \in Streams : ist[s] \in InputState /\ StreamTyped(s)
        /\ \A o \in Encoded : graph[o] \in GraphState(o)
    BY DEF StampInv, OutputSide, OutputsTimed, InputSide, FilesTimed, InputsTimed,
           GraphsTimed, CountInv, OutputsTyped, FilesTyped, StreamsTyped
  <1>2. OutputTypeOK
    <2>1. ASSUME NEW o \in Out
          PROVE  /\ ost[o].finished \subseteq {"ENCODER", "MUXER"}
                 /\ ost[o].unavailable \in BOOLEAN
                 /\ ost[o].sync_opts \in Int /\ ost[o].last_mux_dts \in Int
                 /\ ost[o].last_dropped \in BOOLEAN /\ ost[o].last_frame \in BOOLEAN
      BY <1>1 DEF OutputState
    <2>2. ASSUME NEW o \in Out
          PROVE  /\ ost[o].frame_number \in 0..conv.outputs[o].max_frames
                 /\ Len(ost[o].enc) \in 0..conv.outputs[o].hold
                 /\ ost[o].last_nb0 \in Nat \X Nat \X Nat
      <3>1. ost[o].enc \in Seq(Int) /\ conv.outputs[o].hold \in Nat
        BY <1>1, OutputFields, HoldTypes
      <3>2. Len(ost[o].enc) \in Nat
        BY <3>1, LenProperties
      <3>. QED  BY <1>1, <3>1, <3>2 DEF OutputTyped
    <2>3. /\ DOMAIN recording_time = {OutFile(o) : o \in Out}
          /\ \A f \in DOMAIN recording_time : recording_time[f] \in Int
      BY DEF TimesTyped
    <2>4. dup.nb \in Nat /\ dup.nb0 \in 0..dup.nb /\ dup.i \in 0..dup.nb
      BY DEF CountInv, DupTyped
    <2>5. DOMAIN ost = Out
      BY <1>1
    <2>. QED  BY <2>1, <2>2, <2>3, <2>4, <2>5 DEF OutputTypeOK
  <1>3. ASSUME NEW f \in Files
        PROVE  /\ file[f].eagain \in BOOLEAN /\ file[f].eof_reached \in BOOLEAN
               /\ file[f].loop \in 0..conv.files[f].loop
               /\ file[f].duration \in Nat /\ file[f].ts_offset \in Int
    BY <1>1 DEF FileState, FileTyped
  <1>4. ASSUME NEW s \in Streams
        PROVE  /\ ist[s].pos \in 0..Len(conv.inputs[s].packets)
               /\ Len(ist[s].dec) \in 0..conv.inputs[s].depth
    <2>1. /\ conv.inputs[s].packets \in Seq(Packet) /\ conv.inputs[s].depth \in Nat
          /\ ist[s].pos \in Nat /\ ist[s].dec \in Seq(Frame)
      BY <1>1, StreamTypes, InputFields
    <2>2. Len(conv.inputs[s].packets) \in Nat /\ Len(ist[s].dec) \in Nat
      BY <2>1, LenProperties
    <2>. QED  BY <1>1, <2>1, <2>2 DEF StreamTyped, Fits
  <1>5. ASSUME NEW o \in Encoded
        PROVE  /\ DOMAIN graph[o].queue = From(o) /\ graph[o].closed \subseteq From(o)
               /\ Len(graph[o].held) \in 0..conv.outputs[o].lag
    <2>1. /\ graph[o].queue \in [From(o) -> Seq(Frame)] /\ graph[o].closed \subseteq From(o)
          /\ graph[o].held \in Seq(Frame) /\ conv.outputs[o].lag \in Nat
      BY <1>1, GraphFields, HoldTypes DEF Encoded
    <2>2. Len(graph[o].held) \in Nat
      BY <2>1, LenProperties
    <2>. QED  BY <2>1, <2>2 DEF GraphsTyped
  <1>. QED  BY <1>2, <1>3, <1>4, <1>5 DEF PlaceTyped, TypeOK

\* Every variable keeps its type, and what is bounded stays within its bounds:
\* packets are counted up to -frames, decoders, graphs and encoders hold back
\* no more than they can, an input is read to its end and as often as -loop
\* says, and the pictures of one frame are encoded up to their number (the
\* loop of transcoding.cpp, lines 4160-4185, and all that it calls).
THEOREM TranscodingTypeCorrect == Spec => []TypeOK
  <1>. DEFINE I == /\ StampInv /\ PlaceTyped /\ CountInv /\ TimesTyped
                   /\ StreamsTyped /\ FilesTyped /\ GraphsTyped
  <1>1. Init => I
    BY StampInvInit, PlaceTypedInit, CountInvInit, TimesTypedInit, StreamsTypedInit,
       FilesTypedInit, GraphsTypedInit
  <1>2. I /\ [Next]_vars => I'
    BY StampInvNext, PlaceTypedNext, CountInvNext, TimesTypedNext, StreamsTypedNext,
       FilesTypedNext, GraphsTypedNext
  <1>3. I => TypeOK
    BY AllTyped
  <1>4. Spec => []I
    <2>. HIDE DEF I
    <2>. QED  BY <1>1, <1>2, PTL DEF Spec
  <1>. HIDE DEF I
  <1>. QED  BY <1>3, <1>4, PTL
-----------------------------------------------------------------------------
(* Where every packet and every frame is *)

\* Nothing went wrong, and nothing is limited.
Clear == trouble = "none" /\ Unlimited

\* The packets read of stream s and processed, and the frames of them that its
\* decoder has given.
InFlight(s) == IF pc = "packet" /\ pkt.stream = s THEN 1 ELSE 0
FileOf(s) == conv.inputs[s].file
Ended(s) == file[FileOf(s)].eof_reached
HasRead(s) == Read(s) - InFlight(s)
InDecoder(i) == Len(i.dec)
Fed(s) == HasRead(s) - InDecoder(ist[s])

\* Nothing more of stream s is read: it is at its end for the last time, or its
\* file was to be read again and was left.  Its decoder may be empty too.
AtLast(s) ==
    /\ InFlight(s) = 0
    /\ \/ ist[s].pos = Given(s) /\ file[FileOf(s)].loop = 0
       \/ Ended(s) /\ Looped(s) > 0
Drawn(s) == AtLast(s) /\ ist[s].dec = <<>>

\* The frames that output o's encoder has got, and those that its graph has
\* made: of stream s, as many as were taken from its queue.
InEncoder(r) == Len(r.enc)
Written(r) == r.muxed + r.passed
Coded(r) == Written(r) + InEncoder(r)
InSink(g) == Len(g.sink)
HeldBack(g) == Len(g.held)
Pieces(g) == InSink(g) + HeldBack(g)
Mixed(o) == ost[o].taken + Pieces(graph[o])
Queued(g, s) == Len(g.queue[s])
Level(o, s) == Fed(s) - Queued(graph[o], s) = Mixed(o)

CopyAccount(o) ==
    /\ \A s \in From(o) : Written(ost[o]) = HasRead(s)
    /\ ost[o].finished # {} => \A s \in From(o) : AtLast(s)
    /\ ost[o].finished = {} => \A s \in From(o) : ~Ended(s)
    /\ InEncoder(ost[o]) = 0

\* A closed source may be behind; some source is not.
MixAccount(o) ==
    LET g == graph[o]
    IN /\ \A s \in From(o) :
            /\ Fed(s) - Queued(g, s) <= Mixed(o)
            /\ s \notin g.closed \/ g.queue[s] # <<>> => Level(o, s)
       /\ \E s \in From(o) : Level(o, s)
       /\ \A s \in g.closed : Drawn(s)
       /\ g.eof => /\ g.closed = From(o) /\ g.held = <<>>
                   /\ \A s \in From(o) : g.queue[s] = <<>>

\* As many frames were taken from the graph as the decoder of its longest
\* source has given, and none of them gives any more.
AllTaken(o) ==
    /\ \A s \in From(o) : Drawn(s) /\ Fed(s) <= ost[o].taken
    /\ \E s \in From(o) : Fed(s) = ost[o].taken

EncodedAccount(o) ==
    /\ "MUXER" \notin ost[o].finished
    /\ Coded(ost[o]) = IF Video(o) THEN ost[o].frame_number ELSE ost[o].taken
    /\ ost[o].finished # {} => AllTaken(o)
    /\ ost[o].finished = {} => MixAccount(o)

OutputAccount(o) ==
    /\ Copied(o) => CopyAccount(o)
    /\ ~Copied(o) => EncodedAccount(o)

NoTimes == \A f \in DOMAIN recording_time : recording_time[f] = NoLimit

\* A file that has ended is not read, and when one begins again its decoders
\* hold nothing.
SourceAccount ==
    /\ pc \in {"input", "again"} => \A s \in StreamsOf(src) : ~Ended(s)
    /\ pc = "again" => \A s \in StreamsOf(src) :
                          /\ Looped(s) > 0
                          /\ DecodingNeeded(s) => ist[s].dec = <<>>

PlaceAccount ==
    /\ pc \in {"reap", "video"} =>
         /\ \A o \in Encoded : o < at => graph[o].sink = <<>>
         /\ flush => cur \in Encoded /\ graph[cur].eof
    /\ pc \in {"flush_decoders", "flush_encoders", "ended"} =>
         \A o \in Out : ost[o].finished # {}
    /\ pc = "ended" => \A o \in Out : ost[o].enc = <<>>
    /\ SourceAccount

Account == NoTimes /\ (\A o \in Out : OutputAccount(o)) /\ PlaceAccount

AccountInv == Clear => Account
-----------------------------------------------------------------------------
(* What a step does to an output that neither gets nor gives anything *)

Alike(r, q) ==
    /\ q.finished = r.finished /\ q.frame_number = r.frame_number
    /\ q.muxed = r.muxed /\ q.passed = r.passed /\ q.taken = r.taken
    /\ InEncoder(q) = InEncoder(r)

LEMMA FieldsAlike ==
    ASSUME NEW r \in OutputState
    PROVE  /\ Alike(r, r)
           /\ Alike(r, [r EXCEPT !.finished = @ \cup {}])
           /\ \A b : Alike(r, [r EXCEPT !.unavailable = b])
           /\ \A b : Alike(r, [r EXCEPT !.last_frame = b])
           /\ \A b : Alike(r, [r EXCEPT !.last_dropped = b])
           /\ \A b : Alike(r, [r EXCEPT !.skipped = b])
           /\ \A n : Alike(r, [r EXCEPT !.sync_opts = n])
  BY DEF Alike, OutputState, InEncoder

\* One packet more is in the muxer, or was left empty.
LEMMA WriteCounts ==
    ASSUME conv' = conv, NEW o \in Out, NEW st \in [Out -> OutputState],
           NEW p \in [pts : Int, dts : Int], write_frame(o, p, st),
           trouble' = "none", ost'[o].frame_number < conv.outputs[o].max_frames,
           conv \in Conversions
    PROVE  /\ \A x \in Out \ {o} : ost'[x] = st[x]
           /\ ost'[o].finished = st[o].finished /\ ost'[o].enc = st[o].enc
           /\ ost'[o].taken = st[o].taken
           /\ Written(ost'[o]) = Written(st[o]) + 1
           /\ ~Counted(o) => ost'[o].frame_number = st[o].frame_number
  <1>. DEFINE d == Stamped(o, p, st[o].last_mux_dts).dts
              n == IF Counted(o) THEN st[o].frame_number + 1 ELSE st[o].frame_number
              m == st[o].muxed + 1
              e == st[o].passed + 1
              em == [st[o] EXCEPT !.frame_number = n, !.passed = e]
              wr == [st[o] EXCEPT !.frame_number = n, !.muxed = m, !.last_mux_dts = d]
  <1>1. st[o] \in OutputState /\ st[o].muxed \in Int /\ st[o].passed \in Int
    BY OutputFields
  <1>2. ~(Counted(o) /\ AtLimit(o, st) /\ ost' = st)
    BY <1>1, OutputFields, OutputTypes DEF AtLimit
  <1>3. ost' = With(st, o, em) \/ ost' = With(st, o, wr)
    BY <1>2 DEF write_frame
  <1>. HIDE DEF em, wr
  <1>4. \A x \in Out \ {o} : ost'[x] = st[x]
    BY <1>3 DEF With
  <1>5. ost'[o] = em \/ ost'[o] = wr
    BY <1>3 DEF With
  <1>. HIDE DEF d, m, e
  <1>6. \A q \in {em, wr} : /\ q.finished = st[o].finished /\ q.enc = st[o].enc
                            /\ q.taken = st[o].taken /\ q.frame_number = n
    <2>. HIDE DEF n
    <2>. QED  BY <1>1 DEF OutputState, em, wr
  <1>7. /\ em.passed = e /\ em.muxed = st[o].muxed
        /\ wr.passed = st[o].passed /\ wr.muxed = m
    <2>. HIDE DEF n
    <2>. QED  BY <1>1 DEF OutputState, em, wr
  <1>8. Written(em) = Written(st[o]) + 1 /\ Written(wr) = Written(st[o]) + 1
    BY <1>1, <1>7 DEF Written, e, m
  <1>. QED  BY <1>4, <1>5, <1>6, <1>8

\* One frame more is in the encoder or has left it as a packet.
LEMMA EncodeCounts ==
    ASSUME conv' = conv, NEW o \in Out, NEW st \in [Out -> OutputState], NEW pts \in Int,
           Encode(o, pts, st),
           trouble' = "none", ost'[o].frame_number < conv.outputs[o].max_frames,
           conv \in Conversions
    PROVE  /\ \A x \in Out \ {o} : ost'[x] = st[x]
           /\ ost'[o].finished = st[o].finished /\ ost'[o].taken = st[o].taken
           /\ Coded(ost'[o]) = Coded(st[o]) + 1
           /\ ~Counted(o) => ost'[o].frame_number = st[o].frame_number
  <1>. DEFINE inside == Append(st[o].enc, pts)
              less == [st EXCEPT ![o].enc = Tail(inside)]
              packet == [pts |-> Head(inside), dts |-> Head(inside)]
  <1>1. st[o] \in OutputState /\ st[o].enc \in Seq(Int) /\ Written(st[o]) \in Int
    BY OutputFields DEF Written
  <1>2. /\ inside \in Seq(Int) /\ inside # <<>> /\ Len(inside) = Len(st[o].enc) + 1
        /\ Head(inside) \in Int /\ Tail(inside) \in Seq(Int)
        /\ Len(Tail(inside)) = Len(st[o].enc) /\ Len(st[o].enc) \in Nat
    <2>. DEFINE e == st[o].enc
    <2>1. e \in Seq(Int) /\ Len(e) \in Nat
      BY <1>1, LenProperties
    <2>2. inside \in Seq(Int) /\ inside # <<>> /\ Len(inside) = Len(e) + 1
      <3>. HIDE DEF e
      <3>. QED  BY <2>1, AppendProperties DEF e
    <2>. HIDE DEF inside
    <2>3. Head(inside) \in Int /\ Tail(inside) \in Seq(Int) /\ Len(Tail(inside)) = Len(inside) - 1
      BY <2>2, HeadTailProperties
    <2>. QED  BY <2>1, <2>2, <2>3
  <1>. HIDE DEF inside
  <1>3. CASE write_frame(o, packet, less)
    <2>1. less \in [Out -> OutputState]
      BY <1>2, EncTimed, OneOutputTimed
    <2>2. packet \in [pts : Int, dts : Int]
      BY <1>2
    <2>3. /\ \A x \in Out \ {o} : less[x] = st[x]
          /\ less[o].finished = st[o].finished /\ less[o].taken = st[o].taken
          /\ less[o].muxed = st[o].muxed /\ less[o].passed = st[o].passed
          /\ less[o].enc = Tail(inside) /\ less[o].frame_number = st[o].frame_number
      BY <1>1 DEF OutputState
    <2>. HIDE DEF less, packet
    <2>4. /\ \A x \in Out \ {o} : ost'[x] = less[x]
          /\ ost'[o].finished = less[o].finished /\ ost'[o].enc = less[o].enc
          /\ ost'[o].taken = less[o].taken /\ Written(ost'[o]) = Written(less[o]) + 1
          /\ ~Counted(o) => ost'[o].frame_number = less[o].frame_number
      BY <1>3, <2>1, <2>2, WriteCounts
    <2>5. Written(ost'[o]) = Written(st[o]) + 1 /\ InEncoder(ost'[o]) = InEncoder(st[o])
      BY <1>2, <2>3, <2>4 DEF InEncoder, Written
    <2>6. InEncoder(st[o]) \in Nat
      BY <1>2 DEF InEncoder
    <2>7. Coded(ost'[o]) = Coded(st[o]) + 1
      BY <1>1, <2>5, <2>6 DEF Coded
    <2>. QED  BY <2>3, <2>4, <2>7
  <1>4. CASE ost' = [st EXCEPT ![o].enc = inside]
    <2>1. /\ \A x \in Out \ {o} : ost'[x] = st[x]
          /\ ost'[o].finished = st[o].finished /\ ost'[o].taken = st[o].taken
          /\ ost'[o].muxed = st[o].muxed /\ ost'[o].passed = st[o].passed
          /\ ost'[o].enc = inside /\ ost'[o].frame_number = st[o].frame_number
      BY <1>1, <1>4 DEF OutputState
    <2>2. InEncoder(ost'[o]) = InEncoder(st[o]) + 1 /\ InEncoder(st[o]) \in Nat
      BY <1>2, <2>1 DEF InEncoder
    <2>3. Coded(ost'[o]) = Coded(st[o]) + 1
      BY <1>1, <2>1, <2>2 DEF Coded, Written
    <2>. QED  BY <2>1, <2>3
  <1>. QED  BY <1>3, <1>4 DEF Encode, inside

\* What do_video_out does to its output before the loop: one frame more is
\* taken, unless it was called at the end.
PicturesBegin(r, q, next) ==
    /\ q.finished = r.finished /\ q.frame_number = r.frame_number
    /\ q.muxed = r.muxed /\ q.passed = r.passed /\ InEncoder(q) = InEncoder(r)
    /\ q.taken = IF next THEN r.taken + 1 ELSE r.taken

LEMMA BeginPicturesCounts ==
    ASSUME OutputsTimed, NEW o \in Out,
           NEW sync, NEW nb, NEW nb0, NEW next, NEW ends,
           BeginPictures(o, sync, nb, nb0, next, ends)
    PROVE  /\ \A x \in Out \ {o} : ost'[x] = ost[x]
           /\ PicturesBegin(ost[o], ost'[o], next)
  <1>. DEFINE n == Smaller(nb, conv.outputs[o].max_frames - ost[o].frame_number)
              n0 == Smaller(nb0, n)
              last == ost[o].last_nb0
              a == <<n0, last[1], last[2]>>
              b == Larger(ost[o].ends, ends)
              k == IF next THEN ost[o].taken + 1 ELSE ost[o].taken
              kept == [ost EXCEPT ![o].sync_opts = sync, ![o].last_nb0 = a, ![o].ends = b,
                                  ![o].taken = k]
              d == n = n0 /\ next
  <1>1. ost \in [Out -> OutputState]
    BY DEF OutputsTimed
  <1>2. ost' = [kept EXCEPT ![o].skipped = TRUE] \/ ost' = [kept EXCEPT ![o].last_dropped = d]
    BY <1>1 DEF BeginPictures
  <1>. HIDE DEF a, b, d, k
  <1>3. ASSUME NEW x \in Out, x # o PROVE ost'[x] = ost[x]
    BY <1>1, <1>2, <1>3
  <1>4. /\ kept[o] = [ost[o] EXCEPT !.sync_opts = sync, !.last_nb0 = a, !.ends = b, !.taken = k]
        /\ DOMAIN kept = Out
    BY <1>1
  <1>. HIDE DEF kept
  <1>5. ost'[o] = [kept[o] EXCEPT !.skipped = TRUE] \/ ost'[o] = [kept[o] EXCEPT !.last_dropped = d]
    BY <1>2, <1>4
  <1>6. PicturesBegin(ost[o], ost'[o], next)
    <2>. DEFINE r == ost[o]
    <2>1. r \in OutputState
      BY <1>1
    <2>2. \/ ost'[o] = [[r EXCEPT !.sync_opts = sync, !.last_nb0 = a, !.ends = b, !.taken = k]
                         EXCEPT !.skipped = TRUE]
          \/ ost'[o] = [[r EXCEPT !.sync_opts = sync, !.last_nb0 = a, !.ends = b, !.taken = k]
                         EXCEPT !.last_dropped = d]
      BY <1>4, <1>5
    <2>. HIDE DEF r
    <2>3. /\ ost'[o].finished = r.finished /\ ost'[o].frame_number = r.frame_number
          /\ ost'[o].muxed = r.muxed /\ ost'[o].passed = r.passed /\ ost'[o].enc = r.enc
          /\ ost'[o].taken = k
      BY <2>1, <2>2 DEF OutputState
    <2>. QED  BY <2>3 DEF PicturesBegin, InEncoder, k, r
  <1>. QED  BY <1>3, <1>6
-----------------------------------------------------------------------------
(* The frames in a graph *)

LEMMA PiecesTyped ==
    ASSUME NEW o, NEW g \in GraphState(o)
    PROVE  /\ InSink(g) \in Nat /\ HeldBack(g) \in Nat /\ Pieces(g) \in Nat
           /\ \A s \in From(o) : g.queue[s] \in Seq(Frame) /\ Queued(g, s) \in Nat
  <1>1. g.sink \in Seq(Frame) /\ g.held \in Seq(Frame)
        /\ \A s \in From(o) : g.queue[s] \in Seq(Frame)
    BY GraphFields
  <1>2. InSink(g) \in Nat /\ HeldBack(g) \in Nat
    BY <1>1, LenProperties DEF InSink, HeldBack
  <1>3. \A s \in From(o) : Queued(g, s) \in Nat
    BY <1>1, LenProperties DEF Queued
  <1>. QED  BY <1>1, <1>2, <1>3 DEF Pieces

LEMMA MadeCounts ==
    ASSUME NEW o, NEW g \in GraphState(o), NEW frame \in Frame, NEW lag
    PROVE  LET h == Made(g, frame, lag)
           IN /\ h.queue = g.queue /\ h.closed = g.closed /\ h.eof = g.eof
              /\ Pieces(h) = Pieces(g) + 1
  <1>. DEFINE frames == Append(g.held, frame)
              more == Append(g.sink, Head(frames))
              h1 == [g EXCEPT !.held = Tail(frames), !.sink = more]
              h2 == [g EXCEPT !.held = frames]
  <1>1. g.held \in Seq(Frame) /\ g.sink \in Seq(Frame)
    BY GraphFields
  <1>2. frames \in Seq(Frame) /\ frames # <<>> /\ Len(frames) = Len(g.held) + 1
    BY <1>1, AppendProperties
  <1>3. Head(frames) \in Frame /\ Len(Tail(frames)) = Len(frames) - 1
    <2>. HIDE DEF frames
    <2>. QED  BY <1>2, HeadTailProperties
  <1>4. Len(more) = Len(g.sink) + 1
    <2>. HIDE DEF frames
    <2>. QED  BY <1>1, <1>3, AppendProperties
  <1>5. Made(g, frame, lag) = IF Len(frames) > lag THEN h1 ELSE h2
    BY DEF Made
  <1>6. InSink(g) \in Nat /\ HeldBack(g) \in Nat
    BY PiecesTyped
  <1>. HIDE DEF frames, more
  <1>7. /\ h1.queue = g.queue /\ h1.closed = g.closed /\ h1.eof = g.eof
        /\ h1.held = Tail(frames) /\ h1.sink = more
    BY DEF GraphState
  <1>8. /\ h2.queue = g.queue /\ h2.closed = g.closed /\ h2.eof = g.eof
        /\ h2.held = frames /\ h2.sink = g.sink
    BY DEF GraphState
  <1>. HIDE DEF h1, h2
  <1>9. Pieces(h1) = Pieces(g) + 1
    <2>1. Len(Tail(frames)) = Len(g.held)
      BY <1>1, <1>2, <1>3, LenProperties
    <2>2. InSink(h1) = InSink(g) + 1 /\ HeldBack(h1) = HeldBack(g)
      BY <1>4, <1>7, <2>1 DEF InSink, HeldBack
    <2>. QED  BY <1>6, <2>2 DEF Pieces
  <1>10. Pieces(h2) = Pieces(g) + 1
    <2>1. InSink(h2) = InSink(g) /\ HeldBack(h2) = HeldBack(g) + 1
      BY <1>2, <1>8 DEF InSink, HeldBack
    <2>. QED  BY <1>6, <2>1 DEF Pieces
  <1>. QED  BY <1>5, <1>7, <1>8, <1>9, <1>10

\* A stream that is pushed gives its graphs at most one frame: each that mixes
\* queues it, and each that does not passes it on.
New(S, frames, s) == IF s \in S THEN Len(frames[s]) ELSE 0

LEMMA OneSource ==
    ASSUME conv \in Conversions, NEW o \in Out, ~(Cardinality(From(o)) > 1)
    PROVE  From(o) = {CHOOSE s \in From(o) : TRUE}
  <1>. DEFINE F == From(o)
              only == CHOOSE s \in F : TRUE
  <1>1. F # {} /\ IsFiniteSet(F)
    BY HoldTypes, OutputTypes, ConversionDomains, FS_Subset
  <1>2. only \in F
    BY <1>1
  <1>. HIDE DEF only, F
  <1>3. IsFiniteSet(F \ {only}) /\ Cardinality(F \ {only}) = Cardinality(F) - 1
    BY <1>1, <1>2, FS_RemoveElement
  <1>4. Cardinality(F) \in Nat /\ Cardinality(F \ {only}) \in Nat
    BY <1>1, <1>3, FS_CardinalityType
  <1>5. Cardinality(F) <= 1
    BY <1>4 DEF F
  <1>6. Cardinality(F \ {only}) = 0
    BY <1>3, <1>4, <1>5
  <1>7. F \ {only} = {}
    BY <1>3, <1>6, FS_EmptySet
  <1>8. F = {only}
    BY <1>2, <1>7
  <1>. QED  BY <1>8 DEF F, only

LEMMA PushedCounts ==
    ASSUME conv \in Conversions, GraphsTimed, NEW S, NEW frames,
           \A s \in S : frames[s] \in Seq(Frame) /\ Len(frames[s]) \in {0, 1},
           NEW o \in Encoded
    PROVE  LET g == graph[o]
               h == Pushed(S, frames)[o]
           IN /\ h.closed = g.closed /\ h.eof = g.eof
              /\ \/ /\ h.held = g.held /\ h.sink = g.sink
                    /\ \A s \in From(o) :
                         Queued(h, s) = Queued(g, s) + New(S, frames, s)
                 \/ \E t : /\ From(o) = {t} /\ New(S, frames, t) = 1
                           /\ h.queue = g.queue /\ Pieces(h) = Pieces(g) + 1
  <1>. DEFINE new(s) == IF s \in S THEN frames[s] ELSE <<>>
              g == graph[o]
              h == Pushed(S, frames)[o]
              only == CHOOSE s \in From(o) : TRUE
              q == [s \in From(o) |-> g.queue[s] \o new(s)]
  <1>1. g \in GraphState(o) /\ o \in Out
    BY DEF GraphsTimed, Encoded
  <1>2. ASSUME NEW s
        PROVE  new(s) \in Seq(Frame) /\ Len(new(s)) = New(S, frames, s)
               /\ Len(new(s)) \in {0, 1}
    <2>1. CASE s \in S
      BY <2>1 DEF New
    <2>2. CASE s \notin S
      <3>1. new(s) = <<>> /\ Len(<<>>) = 0 /\ New(S, frames, s) = 0
        BY <2>2 DEF New
      <3>. QED  BY <3>1, NoFrame
    <2>. QED  BY <2>1, <2>2
  <1>3. h = IF Cardinality(From(o)) > 1 THEN [g EXCEPT !.queue = q]
            ELSE IF new(only) = <<>> THEN g
            ELSE Made(g, new(only)[1], conv.outputs[o].lag)
    BY DEF Pushed
  <1>4. ASSUME NEW s \in From(o)
        PROVE  q[s] = g.queue[s] \o new(s) /\ Len(q[s]) = Len(g.queue[s]) + Len(new(s))
    <2>1. g.queue[s] \in Seq(Frame)
      BY <1>1, GraphFields
    <2>2. Len(g.queue[s] \o new(s)) = Len(g.queue[s]) + Len(new(s))
      <3>. HIDE DEF new, g
      <3>. QED  BY <1>2, <2>1, ConcatProperties
    <2>. QED  BY <2>2
  <1>5. ASSUME new(only) # <<>> PROVE new(only)[1] \in Frame /\ Len(new(only)) = 1
    <2>1. new(only) \in Seq(Frame) /\ Len(new(only)) \in {0, 1}
      BY <1>2
    <2>. HIDE DEF new, only
    <2>2. 1 \in 1..Len(new(only)) /\ Len(new(only)) # 0
      BY <1>5, <2>1, EmptySeq
    <2>. QED  BY <2>1, <2>2, ElementOfSeq
  <1>. HIDE DEF g, h, q, new
  <1>6. CASE Cardinality(From(o)) > 1
    <2>1. h = [g EXCEPT !.queue = q]
      BY <1>3, <1>6
    <2>2. /\ h.closed = g.closed /\ h.eof = g.eof /\ h.held = g.held /\ h.sink = g.sink
          /\ h.queue = q
      BY <1>1, <2>1 DEF GraphState
    <2>3. \A s \in From(o) : Len(h.queue[s]) = Len(g.queue[s]) + New(S, frames, s)
      BY <1>2, <1>4, <2>2
    <2>. QED  BY <2>2, <2>3 DEF g, h, Queued
  <1>7. CASE ~(Cardinality(From(o)) > 1)
    <2>1. From(o) = {only}
      BY <1>1, <1>7, OneSource
    <2>2. CASE new(only) = <<>>
      <3>1. h = g
        BY <1>3, <1>7, <2>2
      <3>2. New(S, frames, only) = 0
        <4>1. Len(<<>>) = 0
          OBVIOUS
        <4>. QED  BY <1>2, <2>2, <4>1
      <3>3. Len(g.queue[only]) \in Nat
        BY <1>1, <2>1, PiecesTyped DEF Queued
      <3>4. Len(g.queue[only]) = Len(g.queue[only]) + New(S, frames, only)
        BY <3>2, <3>3
      <3>5. \A s \in From(o) : Len(h.queue[s]) = Len(g.queue[s]) + New(S, frames, s)
        <4>. HIDE DEF only
        <4>. QED  BY <2>1, <3>1, <3>4
      <3>. QED  BY <3>1, <3>5 DEF g, h, Queued
    <2>3. CASE new(only) # <<>>
      <3>. DEFINE frame == new(only)[1]
      <3>1. h = Made(g, frame, conv.outputs[o].lag) /\ frame \in Frame
        BY <1>3, <1>5, <1>7, <2>3
      <3>2. New(S, frames, only) = 1
        BY <1>2, <1>5, <2>3
      <3>. HIDE DEF frame, only
      <3>3. /\ h.queue = g.queue /\ h.closed = g.closed /\ h.eof = g.eof
            /\ Pieces(h) = Pieces(g) + 1
        BY <1>1, <3>1, MadeCounts
      <3>. QED  BY <2>1, <3>2, <3>3 DEF g, h
    <2>. QED  BY <2>2, <2>3
  <1>. QED  BY <1>6, <1>7

\* A mix takes a frame from each queue that has one.
LEMMA MixCounts ==
    ASSUME conv \in Conversions, GraphsTimed, NEW o \in Encoded, Waiting(o) # {}
    PROVE  LET g == graph[o]
               h == Mix(o)
           IN /\ h.closed = g.closed /\ h.eof = g.eof
              /\ Pieces(h) = Pieces(g) + 1
              /\ \A s \in Waiting(o) : Queued(h, s) = Queued(g, s) - 1
              /\ \A s \in From(o) \ Waiting(o) : h.queue[s] = g.queue[s]
  <1>1. PICK q \in [From(o) -> Seq(Frame)], frame \in Frame :
               /\ q = LeftToMix(o)
               /\ Mix(o) = Made([graph[o] EXCEPT !.queue = q], frame, conv.outputs[o].lag)
    BY MixIsMade
  <1>. DEFINE g == graph[o]
              k == [g EXCEPT !.queue = q]
              h == Mix(o)
  <1>2. g \in GraphState(o)
    BY DEF GraphsTimed
  <1>3. k \in GraphState(o)
    BY <1>2, QueueTimed
  <1>4. /\ k.queue = q /\ k.closed = g.closed /\ k.eof = g.eof
        /\ k.held = g.held /\ k.sink = g.sink
    BY <1>2 DEF GraphState
  <1>5. Pieces(k) = Pieces(g)
    BY <1>4 DEF Pieces, InSink, HeldBack
  <1>. HIDE DEF k
  <1>6. /\ h.queue = k.queue /\ h.closed = k.closed /\ h.eof = k.eof
        /\ Pieces(h) = Pieces(k) + 1
    <2>1. h = Made(k, frame, conv.outputs[o].lag)
      BY <1>1 DEF k
    <2>. HIDE DEF h
    <2>. QED  BY <1>3, <2>1, MadeCounts
  <1>7. ASSUME NEW s \in Waiting(o) PROVE Len(q[s]) = Len(g.queue[s]) - 1
    <2>1. s \in From(o) /\ g.queue[s] # <<>> /\ q[s] = Tail(g.queue[s])
      BY <1>1 DEF Waiting, LeftToMix
    <2>2. g.queue[s] \in Seq(Frame)
      BY <1>2, <2>1, PiecesTyped
    <2>. HIDE DEF g
    <2>3. Len(Tail(g.queue[s])) = Len(g.queue[s]) - 1
      BY <2>1, <2>2, HeadTailProperties
    <2>. QED  BY <2>1, <2>3
  <1>8. ASSUME NEW s \in From(o) \ Waiting(o) PROVE q[s] = g.queue[s]
    BY <1>1 DEF LeftToMix
  <1>. HIDE DEF g, h
  <1>9. /\ h.closed = g.closed /\ h.eof = g.eof /\ Pieces(h) = Pieces(g) + 1
        /\ h.queue = q
    BY <1>4, <1>5, <1>6
  <1>. QED  BY <1>7, <1>8, <1>9 DEF g, h, Queued
-----------------------------------------------------------------------------
(* Accounts that a step keeps *)

LEMMA CountTypes ==
    ASSUME StampInv
    PROVE  /\ \A s \in Streams :
                /\ FileOf(s) \in Files /\ Given(s) \in Nat
                /\ file[FileOf(s)].loop \in Int /\ Looped(s) \in Nat
                /\ ist[s].pos \in Nat /\ ist[s].dec \in Seq(Frame)
                /\ InFlight(s) \in {0, 1}
                /\ Read(s) \in Int /\ HasRead(s) \in Int
                /\ InDecoder(ist[s]) \in Nat /\ Fed(s) \in Int
           /\ \A o \in Out :
                /\ ost[o] \in OutputState /\ From(o) \subseteq Streams
                /\ ost[o].frame_number \in Int /\ ost[o].taken \in Int
                /\ InEncoder(ost[o]) \in Nat
                /\ Written(ost[o]) \in Int /\ Coded(ost[o]) \in Int
           /\ \A o \in Encoded :
                /\ o \in Out /\ ~Copied(o) /\ graph[o] \in GraphState(o)
                /\ Pieces(graph[o]) \in Nat /\ Mixed(o) \in Int
                /\ \A s \in From(o) : s \in Streams /\ Queued(graph[o], s) \in Nat
  <1>0. conv \in Conversions /\ file \in [Files -> FileState] /\ ist \in [Streams -> InputState]
        /\ ost \in [Out -> OutputState]
        /\ \A o \in Encoded : graph[o] \in GraphState(o)
    BY DEF StampInv, InputSide, OutputSide, FilesTimed, InputsTimed, OutputsTimed, GraphsTimed
  <1>1. ASSUME NEW s \in Streams
        PROVE  /\ FileOf(s) \in Files /\ Given(s) \in Nat
               /\ file[FileOf(s)].loop \in Int /\ Looped(s) \in Nat
               /\ ist[s].pos \in Nat /\ ist[s].dec \in Seq(Frame)
               /\ InFlight(s) \in {0, 1}
               /\ Read(s) \in Int /\ HasRead(s) \in Int
               /\ InDecoder(ist[s]) \in Nat /\ Fed(s) \in Int
    <2>1. FileOf(s) \in Files /\ Given(s) \in Nat
      BY <1>0, StreamTypes, LenProperties DEF FileOf, Given
    <2>2. file[FileOf(s)].loop \in Int /\ Looped(s) \in Nat
      BY <1>0, <2>1, FileFields, FileTypes DEF Looped, FileOf
    <2>3. ist[s].pos \in Nat /\ ist[s].dec \in Seq(Frame)
      BY <1>0, InputFields DEF InputState
    <2>4. InDecoder(ist[s]) \in Nat
      BY <2>3, LenProperties DEF InDecoder
    <2>5. InFlight(s) \in {0, 1}
      BY DEF InFlight
    <2>. DEFINE a == Given(s)
                b == Looped(s) - file[FileOf(s)].loop
    <2>6. a * b \in Int
      <3>1. a \in Int /\ b \in Int
        BY <2>1, <2>2
      <3>2. \A x, y \in Int : x * y \in Int
        OBVIOUS
      <3>. QED  BY <3>1, <3>2
    <2>7. Read(s) \in Int
      <3>1. Read(s) = ist[s].pos + a * b
        BY DEF Read, FileOf
      <3>. HIDE DEF a, b
      <3>. QED  BY <2>3, <2>6, <3>1
    <2>8. HasRead(s) \in Int
      BY <2>3, <2>5, <2>7 DEF HasRead
    <2>. QED  BY <2>1, <2>2, <2>3, <2>4, <2>5, <2>7, <2>8 DEF Fed
  <1>2. ASSUME NEW o \in Out
        PROVE  /\ ost[o] \in OutputState /\ From(o) \subseteq Streams
               /\ ost[o].frame_number \in Int /\ ost[o].taken \in Int
               /\ InEncoder(ost[o]) \in Nat
               /\ Written(ost[o]) \in Int /\ Coded(ost[o]) \in Int
    <2>1. ost[o] \in OutputState /\ From(o) \subseteq Streams
      BY <1>0, OutputTypes
    <2>2. ost[o].muxed \in Int /\ ost[o].passed \in Int /\ ost[o].frame_number \in Int
          /\ ost[o].taken \in Int /\ ost[o].enc \in Seq(Int)
      BY <2>1, OutputFields
    <2>3. InEncoder(ost[o]) \in Nat
      BY <2>2, LenProperties DEF InEncoder
    <2>. QED  BY <2>1, <2>2, <2>3 DEF Written, Coded
  <1>3. ASSUME NEW o \in Encoded
        PROVE  /\ o \in Out /\ ~Copied(o) /\ graph[o] \in GraphState(o)
               /\ Pieces(graph[o]) \in Nat /\ Mixed(o) \in Int
               /\ \A s \in From(o) : s \in Streams /\ Queued(graph[o], s) \in Nat
    <2>1. o \in Out /\ ~Copied(o) /\ graph[o] \in GraphState(o)
      BY <1>0 DEF Encoded
    <2>2. Pieces(graph[o]) \in Nat /\ \A s \in From(o) : Queued(graph[o], s) \in Nat
      BY <2>1, PiecesTyped
    <2>. QED  BY <1>2, <2>1, <2>2 DEF Mixed
  <1>. QED  BY <1>1, <1>2, <1>3

\* Stream s is where it was.
Unmoved(s) ==
    /\ HasRead(s)' = HasRead(s) /\ ist'[s].dec = ist[s].dec
    /\ AtLast(s) => AtLast(s)'

LEMMA DoneKept ==
    ASSUME conv' = conv, NEW o \in Out, Alike(ost[o], ost'[o]), EncodedAccount(o),
           ost[o].finished # {},
           \A s \in From(o) : Drawn(s) => Drawn(s)' /\ Fed(s)' = Fed(s)
    PROVE  EncodedAccount(o)'
  <1>1. From(o)' = From(o) /\ Video(o)' = Video(o)
    BY DEF From, Video
  <1>2. /\ ost'[o].finished = ost[o].finished /\ ost'[o].frame_number = ost[o].frame_number
        /\ ost'[o].taken = ost[o].taken
        /\ Coded(ost[o])' = Coded(ost[o])
    BY DEF Alike, Coded, Written, InEncoder
  <1>3. AllTaken(o) => AllTaken(o)'
    BY <1>1, <1>2 DEF AllTaken
  <1>. QED  BY <1>1, <1>2, <1>3 DEF EncodedAccount

LEMMA CopyKept ==
    ASSUME conv' = conv, NEW o \in Out, Alike(ost[o], ost'[o]), CopyAccount(o),
           \A s \in From(o) : Unmoved(s) /\ (Ended(s)' => Ended(s))
    PROVE  CopyAccount(o)'
  <1>1. From(o)' = From(o)
    BY DEF From
  <1>. QED  BY <1>1 DEF CopyAccount, Alike, Unmoved, Written, InEncoder

\* The graph may have taken n[s] frames of each stream s, of which it has
\* passed on k.
LEMMA MixGrows ==
    ASSUME StampInv, conv' = conv, NEW o \in Encoded, MixAccount(o),
           NEW n, NEW k \in Int, Mixed(o)' = Mixed(o) + k,
           \A s \in From(o) :
              /\ n[s] \in Int /\ Fed(s)' = Fed(s) + n[s]
              /\ Queued(graph'[o], s) = Queued(graph[o], s) + n[s] - k
              /\ s \in graph[o].closed /\ graph[o].queue[s] = <<>>
                   => graph'[o].queue[s] = <<>>,
           graph[o].closed \subseteq graph'[o].closed,
           \A s \in graph'[o].closed : Drawn(s)',
           graph'[o].closed \subseteq From(o),
           graph'[o].eof = graph[o].eof,
           graph[o].closed = From(o) => graph'[o].held = graph[o].held
    PROVE  MixAccount(o)'
  <1>1. From(o)' = From(o)
    BY DEF From
  <1>2. ASSUME NEW s \in From(o)
        PROVE  /\ Fed(s) \in Int /\ Queued(graph[o], s) \in Int /\ Mixed(o) \in Int
               /\ n[s] \in Int
    BY CountTypes
  <1>3. ASSUME NEW s \in From(o)
        PROVE  /\ Fed(s) - Queued(graph[o], s) <= Mixed(o)
                    => Fed(s)' - Queued(graph'[o], s) <= Mixed(o)'
               /\ Level(o, s) => Level(o, s)'
    <2>. DEFINE a == Fed(s)
                b == Queued(graph[o], s)
                c == Mixed(o)
                d == n[s]
    <2>1. a \in Int /\ b \in Int /\ c \in Int /\ d \in Int
      BY <1>2
    <2>2. Fed(s)' = a + d /\ Queued(graph'[o], s) = b + d - k /\ Mixed(o)' = c + k
      OBVIOUS
    <2>3. a - b <= c => (a + d) - (b + d - k) <= c + k
      <3>. HIDE DEF a, b, c, d
      <3>. QED  BY <2>1
    <2>4. a - b = c => (a + d) - (b + d - k) = c + k
      <3>. HIDE DEF a, b, c, d
      <3>. QED  BY <2>1
    <2>5. Level(o, s) <=> a - b = c
      BY DEF Level
    <2>6. Level(o, s)' <=> Fed(s)' - Queued(graph'[o], s) = Mixed(o)'
      BY DEF Level, Queued
    <2>. QED  BY <2>2, <2>3, <2>4, <2>5, <2>6
  <1>4. ASSUME NEW s \in From(o), s \notin graph'[o].closed \/ graph'[o].queue[s] # <<>>
        PROVE  Level(o, s)'
    BY <1>3, <1>4 DEF MixAccount
  <1>5. \E s \in From(o) : Level(o, s)'
    BY <1>3 DEF MixAccount
  <1>6. \A s \in From(o) : Fed(s)' - Queued(graph'[o], s) <= Mixed(o)'
    BY <1>3 DEF MixAccount
  <1>7. graph'[o].eof => /\ graph'[o].closed = From(o) /\ graph'[o].held = <<>>
                         /\ \A s \in From(o) : graph'[o].queue[s] = <<>>
    BY DEF MixAccount
  <1>8. \A s \in From(o) : Queued(graph[o], s)' = Queued(graph'[o], s)
    BY DEF Queued
  <1>. QED  BY <1>1, <1>4, <1>5, <1>6, <1>7, <1>8 DEF MixAccount

LEMMA MixKept ==
    ASSUME StampInv, conv' = conv, NEW o \in Encoded, MixAccount(o),
           Alike(ost[o], ost'[o]), graph'[o] = graph[o], \A s \in From(o) : Unmoved(s)
    PROVE  MixAccount(o)'
  <1>. DEFINE n == [s \in From(o) |-> 0]
  <1>1. graph[o].closed \subseteq From(o)
    BY CountTypes, GraphFields
  <1>2. Mixed(o) \in Int /\ \A s \in From(o) : Fed(s) \in Int /\ Queued(graph[o], s) \in Int
    BY CountTypes
  <1>3. Mixed(o)' = Mixed(o)
    BY DEF Mixed, Alike, Pieces, InSink, HeldBack
  <1>4. ASSUME NEW s \in From(o) PROVE Fed(s)' = Fed(s)
    <2>1. InDecoder(ist[s])' = InDecoder(ist[s])
      BY DEF Unmoved, InDecoder
    <2>. QED  BY <2>1 DEF Unmoved, Fed
  <1>5. ASSUME NEW s \in graph[o].closed PROVE Drawn(s)'
    BY <1>1 DEF MixAccount, Drawn, Unmoved
  <1>6. Mixed(o)' = Mixed(o) + 0
    BY <1>2, <1>3
  <1>7. ASSUME NEW s \in From(o)
        PROVE  /\ n[s] \in Int /\ Fed(s)' = Fed(s) + n[s]
               /\ Queued(graph'[o], s) = Queued(graph[o], s) + n[s] - 0
    <2>1. n[s] = 0
      OBVIOUS
    <2>. HIDE DEF n
    <2>. QED  BY <1>2, <1>4, <2>1
  <1>8. 0 \in Int
    OBVIOUS
  <1>. HIDE DEF n
  <1>. QED  BY <1>1, <1>5, <1>6, <1>7, <1>8, MixGrows

\* Nothing happens to output o, its graph and its streams.
LEMMA OutputKept ==
    ASSUME StampInv, conv' = conv, NEW o \in Out, Alike(ost[o], ost'[o]),
           o \in Encoded => graph'[o] = graph[o],
           \A s \in From(o) : Unmoved(s) /\ (Copied(o) /\ Ended(s)' => Ended(s)),
           OutputAccount(o)
    PROVE  OutputAccount(o)'
  <1>1. Copied(o)' = Copied(o) /\ Video(o)' = Video(o)
    BY DEF Copied, Video
  <1>2. CASE Copied(o)
    BY <1>1, <1>2, CopyKept DEF OutputAccount
  <1>3. CASE ~Copied(o)
    <2>1. EncodedAccount(o) /\ o \in Encoded
      BY <1>3 DEF OutputAccount, Encoded
    <2>2. CASE ost[o].finished # {}
      <3>1. ASSUME NEW s \in From(o), Drawn(s) PROVE Drawn(s)' /\ Fed(s)' = Fed(s)
        BY <3>1 DEF Unmoved, Drawn, Fed, InDecoder
      <3>. QED  BY <1>1, <1>3, <2>1, <2>2, <3>1, DoneKept DEF OutputAccount
    <2>3. CASE ost[o].finished = {}
      <3>1. MixAccount(o)'
        BY <2>1, <2>3, MixKept DEF EncodedAccount
      <3>2. /\ ost'[o].finished = {} /\ ost'[o].frame_number = ost[o].frame_number
            /\ ost'[o].taken = ost[o].taken
            /\ Coded(ost[o])' = Coded(ost[o])
        BY <2>3 DEF Alike, Coded, Written, InEncoder
      <3>. QED  BY <1>1, <1>3, <2>1, <2>3, <3>1, <3>2 DEF OutputAccount, EncodedAccount
    <2>. QED  BY <2>2, <2>3
  <1>. QED  BY <1>2, <1>3
-----------------------------------------------------------------------------
(* Nothing has gone wrong before, and nothing becomes limited *)

LEMMA WriteTrouble ==
    ASSUME NEW o, NEW p, NEW st, write_frame(o, p, st), trouble' = "none"
    PROVE  trouble = "none"
  BY DEF write_frame

LEMMA TroubleLasts ==
    ASSUME [Next]_vars, trouble' = "none" PROVE trouble = "none"
  <1>1. CASE CopyPacket
    <2>. DEFINE s == pkt.stream
                i == Passed(s, pkt)
                m == Min(CopiesNow(s))
    <2>1. UNCHANGED trouble \/ StreamCopy(m, i, pkt)
      BY <1>1 DEF CopyPacket
    <2>. HIDE DEF m, i
    <2>. QED  BY <2>1, WriteTrouble DEF StreamCopy
  <1>2. CASE ReapFrame
    BY <1>2, WriteTrouble DEF ReapFrame, do_audio_out, Encode
  <1>3. CASE ShowVideo
    BY <1>3, WriteTrouble DEF ShowVideo, VideoStep, EncodePicture, NoPicture,
       RecordingEnds, KeepPicture, Encode
  <1>4. CASE FlushEncoder
    BY <1>4, WriteTrouble DEF FlushEncoder
  <1>5. CASE NeedOutput \/ Stop \/ choose_output \/ FilterGives \/ FilterNeeds \/ FilterFails
             \/ WouldBlock \/ ReadPacket \/ DecodePacket \/ EndOfInput \/ ReadFails
             \/ BlocksAfterSeek \/ SeekFails \/ CopyFails \/ ReapNext \/ ReapDone
             \/ FlushDecoders \/ Trailers \/ EncoderFails
    BY <1>5 DEF NeedOutput, Stop, choose_output, FilterGives, FilterNeeds, FilterFails,
       WouldBlock, ReadPacket, DecodePacket, EndOfInput, ReadFails, BlocksAfterSeek,
       SeekFails, CopyFails, ReapNext, ReapDone, FlushDecoders, Trailers, EncoderFails
  <1>6. CASE SeekToStart
    BY <1>6 DEF SeekToStart
  <1>7. CASE UNCHANGED vars
    BY <1>7 DEF vars
  <1>. QED  BY <1>1, <1>2, <1>3, <1>4, <1>5, <1>6, <1>7 DEF Next

LEMMA CountsRise ==
    ASSUME StampInv, PlaceTyped, CountInv, [Next]_vars, NEW o \in Out
    PROVE  ost[o].frame_number <= ost'[o].frame_number
  <1>1. conv \in Conversions /\ ost \in [Out -> OutputState] /\ OutputsTimed
        /\ ost[o] \in OutputState /\ ost[o].frame_number \in Int
    BY OutputFields DEF StampInv, OutputSide, OutputsTimed
  <1>2. CASE ost' = ost
    BY <1>1, <1>2
  <1>3. CASE Calm
    <2>1. Carried(o, ost[o], ost'[o])
      BY <1>3 DEF Calm, Quiet
    <2>. QED  BY <1>1, <2>1 DEF Carried
  <1>4. CASE \E x \in Out : \E sync, nb, nb0, next, ends : BeginPictures(x, sync, nb, nb0, next, ends)
    <2>1. PICK x \in Out : \E sync, nb, nb0, next, ends :
                                  BeginPictures(x, sync, nb, nb0, next, ends)
      BY <1>4
    <2>2. ost'[o].frame_number = ost[o].frame_number
      <3>1. (o # x => ost'[o] = ost[o]) /\ \E next : PicturesBegin(ost[x], ost'[x], next)
        BY <1>1, <2>1, BeginPicturesCounts
      <3>. QED  BY <3>1 DEF PicturesBegin
    <2>. QED  BY <1>1, <2>2
  <1>5. CASE Begins
    BY <1>4, <1>5 DEF Begins, do_video_out, FlushVideo, Encoded
  <1>6. CASE EncodePicture
    <2>. DEFINE x == dup.o
                st == [ost EXCEPT ![x].sync_opts = @ + 1, ![x].frame_number = @ + 1]
                q == [ost[x] EXCEPT !.sync_opts = @ + 1, !.frame_number = @ + 1]
                pts == FrameTicks * ost[x].sync_opts
    <2>1. x \in Out /\ Encode(x, pts, st)
      BY <1>6 DEF EncodePicture, CountInv, DupTyped, Encoded
    <2>2. ost[x] \in OutputState /\ ost[x].sync_opts \in Int /\ ost[x].frame_number \in Int
      BY <1>1, <2>1, OutputFields
    <2>3. st = [ost EXCEPT ![x] = q]
      BY <1>1, <2>1
    <2>4. q \in OutputState /\ q.frame_number = ost[x].frame_number + 1
      <3>1. ost[x].sync_opts + 1 \in Int /\ ost[x].frame_number + 1 \in Int
        BY <2>2
      <3>. HIDE DEF x
      <3>. QED  BY <2>2, <3>1 DEF OutputState
    <2>5. st \in [Out -> OutputState]
      <3>. HIDE DEF st, q, x
      <3>. QED  BY <1>1, <2>3, <2>4, OneOutputTimed
    <2>6. pts \in Int
      BY <2>2 DEF FrameTicks
    <2>7. Carried(o, st[o], ost'[o])
      <3>. HIDE DEF st, q, x, pts
      <3>. QED  BY <1>1, <2>1, <2>5, <2>6, EncodeQuiet
    <2>8. ost[o].frame_number <= st[o].frame_number /\ st[o].frame_number \in Int
      <3>1. CASE o = x
        <4>1. st[o] = q
          <5>. HIDE DEF q
          <5>. QED  BY <1>1, <2>1, <2>3, <3>1
        <4>2. st[o].frame_number = ost[o].frame_number + 1
          BY <2>4, <3>1, <4>1
        <4>. HIDE DEF st
        <4>. QED  BY <1>1, <4>2
      <3>2. CASE o # x
        <4>1. st[o] = ost[o]
          <5>. HIDE DEF q
          <5>. QED  BY <1>1, <2>3, <3>2
        <4>. QED  BY <1>1, <4>1
      <3>. QED  BY <3>1, <3>2
    <2>. HIDE DEF st, q, x, pts
    <2>. QED  BY <1>1, <2>7, <2>8 DEF Carried
  <1>7. CASE NoPicture \/ RecordingEnds \/ KeepPicture
    <2>1. CASE NoPicture
      BY <1>2, <2>1 DEF NoPicture
    <2>2. CASE RecordingEnds
      <3>1. ost' = Closed(ost, {dup.o})
        BY <2>2 DEF RecordingEnds, close_output_stream
      <3>2. Carried(o, ost[o], ost'[o])
        BY <1>1, <3>1, ClosedQuiet DEF Quiet
      <3>. QED  BY <1>1, <3>2 DEF Carried
    <2>3. CASE KeepPicture
      <3>. DEFINE b == dup.next
      <3>1. ost' = [ost EXCEPT ![dup.o].last_frame = b]
        BY <2>3 DEF KeepPicture
      <3>. HIDE DEF b
      <3>2. ost'[o] = ost[o] \/ ost'[o] = [ost[o] EXCEPT !.last_frame = b]
        BY <1>1, <3>1
      <3>. DEFINE r == ost[o]
      <3>3. Carried(o, r, r) /\ Carried(o, r, [r EXCEPT !.last_frame = b])
        <4>. HIDE DEF r
        <4>1. r \in OutputState
          BY <1>1 DEF r
        <4>. QED  BY <4>1, FieldsCarried
      <3>4. Carried(o, ost[o], ost'[o])
        BY <3>2, <3>3
      <3>. QED  BY <1>1, <3>4 DEF Carried
    <2>. QED  BY <1>7, <2>1, <2>2, <2>3
  <1>. QED  BY <1>2, <1>3, <1>5, <1>6, <1>7, Kinds DEF VideoStep

LEMMA ClearBefore ==
    ASSUME StampInv, PlaceTyped, CountInv, [Next]_vars, Clear' PROVE Clear
  <1>1. conv' = conv /\ conv \in Conversions /\ OutputsTimed
    BY ConvStays DEF StampInv, OutputSide
  <1>2. trouble = "none"
    BY TroubleLasts DEF Clear
  <1>3. ASSUME NEW o \in Out PROVE ost[o].frame_number < conv.outputs[o].max_frames
    <2>. DEFINE a == ost[o].frame_number
                b == ost'[o].frame_number
                c == conv.outputs[o].max_frames
    <2>1. a <= b
      BY CountsRise
    <2>2. b < c
      BY <1>1, SameConversion DEF Clear, Unlimited
    <2>3. a \in Int /\ c \in Int
      BY <1>1, OutputTypes, OutputFields DEF OutputsTimed
    <2>4. b \in Int
      <3>1. OutputsTimed'
        BY StampInvNext DEF StampInv, OutputSide
      <3>. QED  BY <1>1, <3>1, SameConversion, OutputFields DEF OutputsTimed, OutputState
    <2>. HIDE DEF a, b, c
    <2>5. a < c
      BY <2>1, <2>2, <2>3, <2>4
    <2>. QED  BY <2>5 DEF a, c
  <1>. QED  BY <1>1, <1>2, <1>3 DEF Clear, Unlimited

LEMMA NoTimesKept ==
    ASSUME StampInv, PlaceTyped, CountInv, TimesTyped, [Next]_vars, Clear, NoTimes
    PROVE  NoTimes'
  <1>1. conv.shortest = {}
    BY DEF Clear, Unlimited
  <1>2. CASE UNCHANGED recording_time
    BY <1>2 DEF NoTimes
  <1>3. ASSUME NEW S \in SUBSET Out, recording_time' = ShortenedBy(S, ost) PROVE NoTimes'
    <2>1. recording_time' = [f \in DOMAIN recording_time |-> recording_time[f]]
      BY <1>1, <1>3 DEF ShortenedBy
    <2>. QED  BY <2>1 DEF NoTimes
  <1>. QED  BY <1>2, <1>3, TimesChange
-----------------------------------------------------------------------------
(* Steps that give nothing on *)

OutputsAccounted == \A o \in Out : OutputAccount(o)
Accounted == /\ StampInv /\ PlaceTyped /\ CountInv /\ TimesTyped
             /\ StreamsTyped /\ FilesTyped /\ Clear /\ Account

LEMMA StreamUnmoved ==
    ASSUME conv' = conv, NEW s, ist'[s] = ist[s], FileKept(FileOf(s)),
           InFlight(s)' = InFlight(s)
    PROVE  Unmoved(s)
  <1>1. FileOf(s)' = FileOf(s)
    BY DEF FileOf
  <1>2. Given(s)' = Given(s) /\ Looped(s)' = Looped(s)
    BY DEF Given, Looped
  <1>3. Read(s)' = Read(s)
    BY <1>1, <1>2 DEF Read, FileOf, FileKept
  <1>4. AtLast(s) => AtLast(s)'
    BY <1>1, <1>2 DEF AtLast, Ended, FileKept
  <1>. QED  BY <1>3, <1>4 DEF Unmoved, HasRead

\* Nothing is read in a step that is not about a packet.
LEMMA NothingRead ==
    ASSUME StampInv, [Next]_vars, conv' = conv, ist' = ist,
           pc # "packet", pc' \notin {"packet", "again"}
    PROVE  \A s \in Streams : Unmoved(s)
  <1>. TAKE s \in Streams
  <1>1. FileOf(s) \in Files
    BY StreamTypes DEF FileOf, StampInv
  <1>2. ~SeekToStart
    BY DEF SeekToStart
  <1>3. FileKept(FileOf(s))
    BY <1>1, <1>2, FilesKept
  <1>. QED  BY <1>3, StreamUnmoved DEF InFlight

LEMMA AllKept ==
    ASSUME Accounted, conv' = conv, \A o \in Out : Alike(ost[o], ost'[o]), graph' = graph,
           EndsStay, \A s \in Streams : Unmoved(s)
    PROVE  OutputsAccounted'
  <1>1. Out' = Out
    BY SameConversion
  <1>2. ASSUME NEW o \in Out PROVE OutputAccount(o)'
    <2>1. OutputAccount(o) /\ StampInv /\ From(o) \subseteq Streams
      BY CountTypes DEF Accounted, Account
    <2>2. \A s \in From(o) : Ended(s)' => Ended(s)
      BY <2>1, StreamTypes DEF EndsStay, Ended, FileOf, StampInv
    <2>. QED  BY <2>1, <2>2, OutputKept
  <1>. QED  BY <1>1, <1>2 DEF OutputsAccounted

LEMMA NoOutputIsFull ==
    ASSUME Accounted, NeedOutput
    PROVE  ost' = ost /\ (pc' = "flush_decoders" => \A o \in Out : ost[o].finished # {})
  <1>. DEFINE seen == IF Needing = {} THEN Full ELSE {p \in Full : p < Min(Needing)}
              closing == {o \in Out : \E p \in seen : OutFile(p) = OutFile(o)}
  <1>1. ost \in [Out -> OutputState] /\ conv \in Conversions
    BY DEF Accounted, StampInv, OutputSide, OutputsTimed
  <1>2. Full = {}
    <2>1. ASSUME NEW o \in Full PROVE FALSE
      <3>1. o \in Out /\ ost[o].frame_number >= conv.outputs[o].max_frames
        BY DEF Full
      <3>2. ost[o].frame_number < conv.outputs[o].max_frames
        BY <3>1 DEF Accounted, Clear, Unlimited
      <3>3. ost[o].frame_number \in Int /\ conv.outputs[o].max_frames \in Nat
        BY <1>1, <3>1, OutputTypes, OutputFields
      <3>. QED  BY <3>1, <3>2, <3>3
    <2>. QED  BY <2>1
  <1>3. closing = {}
    BY <1>2
  <1>4. ost' = Closed(ost, {})
    <2>1. ost' = Closed(ost, closing)
      BY DEF NeedOutput, close_output_stream
    <2>. HIDE DEF closing
    <2>. QED  BY <1>3, <2>1
  <1>5. ost' = ost
    BY <1>1, <1>4 DEF Closed
  <1>6. ASSUME pc' = "flush_decoders", NEW o \in Out PROVE ost[o].finished # {}
    <2>1. Needing = {}
      BY <1>6 DEF NeedOutput
    <2>. QED  BY <1>2, <2>1 DEF Needing
  <1>. QED  BY <1>5, <1>6

LEMMA QuietStepAccounts ==
    ASSUME Accounted, [Next]_vars, conv' = conv, Clear',
           NeedOutput \/ choose_output \/ FilterNeeds \/ WouldBlock \/ Trailers \/ ReapNext
             \/ (NoPicture /\ ShowVideo) \/ (KeepPicture /\ ShowVideo)
    PROVE  OutputsAccounted' /\ PlaceAccount'
  <1>1. /\ StampInv /\ conv \in Conversions /\ OutputsTimed /\ ost \in [Out -> OutputState]
        /\ Out' = Out /\ Encoded' = Encoded /\ PlaceAccount /\ PlaceTyped
    BY SameConversion DEF Accounted, StampInv, OutputSide, OutputsTimed, Account
  <1>2. ASSUME \A o \in Out : Alike(ost[o], ost'[o]), graph' = graph, ist' = ist,
               EndsStay, pc # "packet", pc' \notin {"packet", "again"}
        PROVE  OutputsAccounted'
    BY <1>1, <1>2, AllKept, NothingRead
  <1>3. \A o \in Out : Alike(ost[o], ost[o])
    BY <1>1, FieldsAlike
  <1>4. CASE NeedOutput
    <2>1. graph' = graph /\ ist' = ist /\ pc = "loop" /\ pc' \in {"flush_decoders", "choose"}
      BY <1>4 DEF NeedOutput, inputs
    <2>2. ost' = ost /\ (pc' = "flush_decoders" => \A o \in Out : ost[o].finished # {})
      BY <1>4, NoOutputIsFull
    <2>3. EndsStay
      BY <1>4 DEF NeedOutput, inputs, EndsStay
    <2>. QED  BY <1>1, <1>2, <1>3, <2>1, <2>2, <2>3 DEF PlaceAccount, SourceAccount
  <1>5. CASE choose_output
    <2>1. graph' = graph /\ ist' = ist /\ pc = "choose" /\ pc' \in {"loop", "input", "filter"}
          /\ (ost' = ost \/ ost' = Available(ost))
      BY <1>5 DEF choose_output
    <2>2. \A o \in Out : Alike(ost[o], Available(ost)[o])
      BY <1>1, FieldsAlike DEF Available
    <2>3. EndsStay
      BY <1>1, <1>5, EndsStayWhen
    <2>4. SourceAccount'
      <3>. SUFFICES ASSUME pc' = "input" PROVE \A s \in StreamsOf(src)' : ~Ended(s)'
        BY <2>1 DEF SourceAccount
      <3>1. /\ file' = file /\ Copied(Chosen)
            /\ src' = conv.inputs[CHOOSE s \in From(Chosen) : TRUE].file
        BY <1>5 DEF choose_output
      <3>2. Chosen \in Out /\ ost[Chosen].finished = {}
        BY <1>1, <1>5, ChosenIsOpen DEF choose_output, PlaceTyped
      <3>3. PICK t \in From(Chosen) : src' = conv.inputs[t].file
        <4>1. From(Chosen) # {}
          BY <1>1, <3>2, OutputTypes, ConversionsAssumption DEF From, Out
        <4>. QED  BY <3>1, <4>1
      <3>4. ~Ended(t)
        BY <3>1, <3>2 DEF Accounted, Account, OutputAccount, CopyAccount
      <3>5. ~file[src'].eof_reached
        BY <3>3, <3>4 DEF Ended, FileOf
      <3>. QED  BY <3>1, <3>5 DEF StreamsOf, Streams, Ended, FileOf
    <2>. QED  BY <1>1, <1>2, <1>3, <2>1, <2>2, <2>3, <2>4 DEF PlaceAccount
  <1>6. CASE FilterNeeds \/ WouldBlock
    <2>1. graph' = graph /\ ist' = ist /\ pc \in {"filter", "input"} /\ pc' \in {"loop", "input"}
          /\ (ost' = ost \/ ost' = [ost EXCEPT ![cur].unavailable = TRUE])
      BY <1>6 DEF FilterNeeds, WouldBlock
    <2>2. ASSUME NEW o \in Out PROVE Alike(ost[o], [ost EXCEPT ![cur].unavailable = TRUE][o])
      <3>1. [ost EXCEPT ![cur].unavailable = TRUE][o]
              \in {ost[o], [ost[o] EXCEPT !.unavailable = TRUE]}
        BY <1>1
      <3>. QED  BY <1>1, <3>1, FieldsAlike
    <2>3. EndsStay
      BY <1>1, <1>6, EndsStayWhen DEF FilterNeeds
    <2>4. SourceAccount'
      <3>. SUFFICES ASSUME pc' = "input" PROVE \A s \in StreamsOf(src)' : ~Ended(s)'
        BY <2>1 DEF SourceAccount
      <3>1. FilterNeeds
        BY <1>6 DEF WouldBlock
      <3>2. PICK t \in Starved(cur) : /\ src' = conv.inputs[t].file
                                      /\ src' \notin {f \in Files : file[f].eagain
                                                                  \/ file[f].eof_reached}
        BY <1>6, <3>1 DEF FilterNeeds
      <3>3. t \in Streams
        <4>1. cur \in Out
          BY <1>1, <3>1 DEF PlaceTyped, FilterNeeds, Encoded
        <4>. QED  BY <1>1, <4>1, OutputTypes DEF Starved
      <3>4. file' = file /\ ~file[src'].eof_reached
        BY <1>1, <3>1, <3>2, <3>3, StreamTypes DEF FilterNeeds
      <3>. QED  BY <3>4 DEF StreamsOf, Streams, Ended, FileOf
    <2>. QED  BY <1>1, <1>2, <1>3, <2>1, <2>2, <2>3, <2>4 DEF PlaceAccount
  <1>7. CASE Trailers
    <2>1. graph' = graph /\ ist' = ist /\ pc = "flush_encoders" /\ pc' = "ended"
          /\ ost' = ost /\ Held = {}
      BY <1>7 DEF Trailers, inputs
    <2>2. \A o \in Out : ost[o].enc = <<>>
      BY <2>1 DEF Held
    <2>3. EndsStay
      BY <1>7 DEF Trailers, inputs, EndsStay
    <2>. QED  BY <1>1, <1>2, <1>3, <2>1, <2>2, <2>3 DEF PlaceAccount, SourceAccount
  <1>8. CASE ReapNext
    <2>1. /\ graph' = graph /\ ist' = ist /\ pc = "reap" /\ pc' \in {"reap", "video"}
          /\ at' = at + 1 /\ flush' = flush /\ cur' = cur /\ ~Reaped
          /\ at \in Out
      BY <1>8 DEF ReapNext, inputs, FlushVideo, BeginPictures
    <2>2. \A o \in Out : Alike(ost[o], ost'[o])
      <3>1. ost' = ost \/ FlushVideo(at)
        BY <1>8 DEF ReapNext
      <3>2. CASE FlushVideo(at)
        <4>. DEFINE last == ost[at].last_nb0
                    nb == Median(last[1], last[2], last[3])
        <4>1. BeginPictures(at, ost[at].sync_opts, nb, nb, FALSE, ost[at].ends)
          BY <3>2 DEF FlushVideo
        <4>. HIDE DEF nb
        <4>2. (\A x \in Out \ {at} : ost'[x] = ost[x]) /\ PicturesBegin(ost[at], ost'[at], FALSE)
          BY <1>1, <2>1, <4>1, BeginPicturesCounts
        <4>3. Alike(ost[at], ost'[at])
          BY <4>2 DEF PicturesBegin, Alike
        <4>. QED  BY <1>3, <4>2, <4>3
      <3>. QED  BY <1>3, <3>1, <3>2
    <2>3. ASSUME NEW o \in Encoded, o < at + 1 PROVE graph[o].sink = <<>>
      <3>1. o \in Int /\ at \in Int
        BY <1>1, <2>1, ConversionDomains DEF Encoded
      <3>2. o < at \/ o = at
        BY <2>3, <3>1
      <3>. QED  BY <1>1, <2>1, <3>2 DEF PlaceAccount, Reaped
    <2>4. EndsStay
      BY <1>8 DEF ReapNext, inputs, EndsStay
    <2>. QED  BY <1>1, <1>2, <2>1, <2>2, <2>3, <2>4 DEF PlaceAccount, SourceAccount
  <1>9. CASE (NoPicture /\ ShowVideo) \/ (KeepPicture /\ ShowVideo)
    <2>1. /\ graph' = graph /\ ist' = ist /\ pc = "video" /\ pc' = "reap"
          /\ UNCHANGED <<at, flush, cur>>
          /\ (ost' = ost \/ ost' = [ost EXCEPT ![dup.o].last_frame = dup.next])
      BY <1>9 DEF ShowVideo, NoPicture, KeepPicture, VideoReturns, loop, inputs
    <2>2. ASSUME NEW o \in Out
          PROVE  Alike(ost[o], [ost EXCEPT ![dup.o].last_frame = dup.next][o])
      <3>. DEFINE b == dup.next
      <3>1. [ost EXCEPT ![dup.o].last_frame = b][o]
              \in {ost[o], [ost[o] EXCEPT !.last_frame = b]}
        <4>. HIDE DEF b
        <4>. QED  BY <1>1
      <3>. HIDE DEF b
      <3>2. Alike(ost[o], ost[o]) /\ Alike(ost[o], [ost[o] EXCEPT !.last_frame = b])
        BY <1>1, FieldsAlike
      <3>3. Alike(ost[o], [ost EXCEPT ![dup.o].last_frame = b][o])
        BY <3>1, <3>2
      <3>. QED  BY <3>3 DEF b
    <2>3. EndsStay
      BY <1>9 DEF ShowVideo, inputs, EndsStay
    <2>. QED  BY <1>1, <1>2, <1>3, <2>1, <2>2, <2>3 DEF PlaceAccount, SourceAccount
  <1>. QED  BY <1>4, <1>5, <1>6, <1>7, <1>8, <1>9
-----------------------------------------------------------------------------
(* Steps that push frames into the graphs *)

\* Output o's graph is h, and the streams of C are closed too.
GraphIs(o, h, C) ==
    LET g == graph'[o]
    IN /\ g.queue = h.queue /\ g.held = h.held /\ g.sink = h.sink /\ g.eof = h.eof
       /\ g.closed = h.closed \cup C

LEMMA PushKeepsMix ==
    ASSUME Accounted, conv' = conv, NEW o \in Encoded, MixAccount(o),
           NEW S, NEW frames,
           \A s \in S : frames[s] \in Seq(Frame) /\ Len(frames[s]) \in {0, 1},
           NEW C, C \subseteq From(o), GraphIs(o, Pushed(S, frames)[o], C),
           GraphsTimed', Alike(ost[o], ost'[o]),
           \A s \in From(o) : Fed(s)' = Fed(s) + New(S, frames, s),
           \A s \in graph[o].closed : New(S, frames, s) = 0,
           \A s \in graph[o].closed \cup C : Drawn(s)'
    PROVE  MixAccount(o)'
  <1>. DEFINE g == graph[o]
              h == Pushed(S, frames)[o]
              g1 == graph'[o]
              n == [s \in From(o) |-> New(S, frames, s)]
  <1>1. StampInv /\ conv \in Conversions /\ GraphsTimed
    BY DEF Accounted, StampInv, InputSide
  <1>2. /\ h.closed = g.closed /\ h.eof = g.eof
        /\ \/ /\ h.held = g.held /\ h.sink = g.sink
              /\ \A s \in From(o) : Queued(h, s) = Queued(g, s) + New(S, frames, s)
           \/ \E t : /\ From(o) = {t} /\ New(S, frames, t) = 1
                     /\ h.queue = g.queue /\ Pieces(h) = Pieces(g) + 1
    <2>. HIDE DEF g, h
    <2>. QED  BY <1>1, PushedCounts DEF g, h
  <1>. HIDE DEF h
  <1>3. /\ g1.queue = h.queue /\ g1.held = h.held /\ g1.sink = h.sink
        /\ g1.eof = g.eof /\ g1.closed = g.closed \cup C
        /\ \A s : Queued(g1, s) = Queued(h, s)
        /\ Pieces(g1) = Pieces(h)
    BY <1>2 DEF GraphIs, h, Queued, Pieces, InSink, HeldBack
  <1>4. g \in GraphState(o) /\ g1 \in GraphState(o) /\ g.closed \subseteq From(o)
    <2>1. g \in GraphState(o) /\ g1 \in GraphState(o)
      BY <1>1, SameConversion DEF GraphsTimed
    <2>. QED  BY <2>1, GraphFields
  <1>5. /\ ost[o].taken \in Int /\ Pieces(g) \in Nat /\ Mixed(o) \in Int
        /\ \A s \in From(o) : Queued(g, s) \in Nat
    BY <1>1, CountTypes DEF Encoded
  <1>6. Mixed(o)' = ost[o].taken + Pieces(g1) /\ Mixed(o) = ost[o].taken + Pieces(g)
    BY DEF Alike, Mixed, Pieces, InSink, HeldBack
  <1>7. \A s \in From(o) : New(S, frames, s) \in {0, 1}
    BY DEF New
  <1>8. g.closed \subseteq g1.closed /\ g1.closed \subseteq From(o)
        /\ \A s \in g1.closed : Drawn(s)'
    BY <1>3, <1>4
  <1>9. ASSUME NEW s \in From(o) PROVE n[s] = New(S, frames, s) /\ n[s] \in Int
    BY <1>7
  <1>10. CASE /\ h.held = g.held /\ h.sink = g.sink
              /\ \A s \in From(o) : Queued(h, s) = Queued(g, s) + New(S, frames, s)
    <2>1. Mixed(o)' = Mixed(o) + 0
      <3>1. Pieces(g1) = Pieces(g)
        BY <1>3, <1>10 DEF Pieces, InSink, HeldBack
      <3>. QED  BY <1>5, <1>6, <3>1
    <2>2. ASSUME NEW s \in From(o)
          PROVE  Queued(g1, s) = Queued(g, s) + n[s] - 0
      <3>1. Queued(g1, s) = Queued(g, s) + New(S, frames, s)
        BY <1>3, <1>10
      <3>. HIDE DEF n, g, g1
      <3>. QED  BY <1>5, <1>9, <3>1
    <2>3. ASSUME NEW s \in From(o), s \in g.closed, g.queue[s] = <<>>
          PROVE  g1.queue[s] = <<>>
      <3>1. New(S, frames, s) = 0
        BY <2>3
      <3>2. Queued(g, s) = 0
        BY <2>3 DEF Queued
      <3>3. Queued(g1, s) = 0
        BY <1>3, <1>10, <3>1, <3>2
      <3>4. g1.queue[s] \in Seq(Frame)
        BY <1>4, GraphFields
      <3>. HIDE DEF g1
      <3>. QED  BY <3>3, <3>4, EmptySeq DEF Queued
    <2>4. g.closed = From(o) => g1.held = g.held
      BY <1>3, <1>10
    <2>5. 0 \in Int
      OBVIOUS
    <2>6. \A s \in From(o) : Fed(s)' = Fed(s) + n[s]
      BY <1>9
    <2>. HIDE DEF n
    <2>. QED  BY <1>1, <1>3, <1>8, <1>9, <2>1, <2>2, <2>3, <2>4, <2>5, <2>6, MixGrows
  <1>11. ASSUME NEW t, From(o) = {t}, New(S, frames, t) = 1,
                h.queue = g.queue, Pieces(h) = Pieces(g) + 1
         PROVE  MixAccount(o)'
    <2>1. Mixed(o)' = Mixed(o) + 1
      BY <1>3, <1>5, <1>6, <1>11
    <2>2. ASSUME NEW s \in From(o)
          PROVE  Queued(g1, s) = Queued(g, s) + n[s] - 1
      <3>1. Queued(g1, s) = Queued(g, s)
        BY <1>3, <1>11 DEF Queued
      <3>2. n[s] = 1
        BY <1>9, <1>11
      <3>. HIDE DEF n, g, g1
      <3>. QED  BY <1>5, <3>1, <3>2
    <2>3. \A s \in From(o) : g.queue[s] = <<>> => g1.queue[s] = <<>>
      BY <1>3, <1>11
    <2>4. g.closed # From(o)
      BY <1>11
    <2>5. 1 \in Int
      OBVIOUS
    <2>6. \A s \in From(o) : Fed(s)' = Fed(s) + n[s]
      BY <1>9
    <2>. HIDE DEF n
    <2>. QED  BY <1>1, <1>3, <1>8, <1>9, <2>1, <2>2, <2>3, <2>4, <2>5, <2>6, MixGrows
  <1>. QED  BY <1>2, <1>10, <1>11

LEMMA PushAccounts ==
    ASSUME Accounted, conv' = conv, NEW o \in Encoded, OutputAccount(o),
           NEW S, NEW frames,
           \A s \in S : frames[s] \in Seq(Frame) /\ Len(frames[s]) \in {0, 1},
           NEW C, C \subseteq From(o), GraphIs(o, Pushed(S, frames)[o], C),
           GraphsTimed', Alike(ost[o], ost'[o]),
           \A s \in From(o) : Fed(s)' = Fed(s) + New(S, frames, s),
           \A s \in From(o) : Drawn(s) => New(S, frames, s) = 0 /\ Drawn(s)',
           \A s \in C : Drawn(s)'
    PROVE  OutputAccount(o)'
  <1>1. /\ ~Copied(o) /\ ~Copied(o)' /\ EncodedAccount(o) /\ o \in Out
        /\ Video(o)' = Video(o)
    BY DEF Encoded, OutputAccount, Copied, Video
  <1>2. CASE ost[o].finished # {}
    <2>1. ASSUME NEW s \in From(o), Drawn(s) PROVE Drawn(s)' /\ Fed(s)' = Fed(s)
      <3>1. Fed(s) \in Int /\ New(S, frames, s) = 0 /\ Fed(s)' = Fed(s) + New(S, frames, s)
        BY <2>1, CountTypes DEF Accounted
      <3>. QED  BY <2>1, <3>1
    <2>. QED  BY <1>1, <1>2, <2>1, DoneKept DEF OutputAccount
  <1>3. CASE ost[o].finished = {}
    <2>1. MixAccount(o)
      BY <1>1, <1>3 DEF EncodedAccount
    <2>2. \A s \in graph[o].closed : Drawn(s) /\ s \in From(o)
      <3>1. GraphsTimed /\ conv \in Conversions
        BY DEF Accounted, StampInv, InputSide
      <3>. QED  BY <2>1, <3>1, GraphFields DEF MixAccount, GraphsTimed
    <2>3. MixAccount(o)'
      <3>1. \A s \in graph[o].closed \cup C : Drawn(s)'
        BY <2>2
      <3>2. \A s \in graph[o].closed : New(S, frames, s) = 0
        BY <2>2
      <3>. QED  BY <2>1, <3>1, <3>2, PushKeepsMix
    <2>4. /\ ost'[o].finished = {} /\ ost'[o].frame_number = ost[o].frame_number
          /\ ost'[o].taken = ost[o].taken
          /\ Coded(ost[o])' = Coded(ost[o])
      BY <1>3 DEF Alike, Coded, Written, InEncoder
    <2>. QED  BY <1>1, <1>3, <2>3, <2>4 DEF OutputAccount, EncodedAccount
  <1>. QED  BY <1>2, <1>3

\* A stream that is copied goes to that copy only.
LEMMA CopiedAlone ==
    ASSUME conv \in Conversions, NEW o \in Out, Copied(o), NEW s \in From(o)
    PROVE  /\ From(o) = {s} /\ ~DecodingNeeded(s)
           /\ \A p \in Out : s \in From(p) => p = o
  <1>1. /\ \E x \in Streams : From(o) = {x}
        /\ \A p \in Out \ {o} : From(p) \cap From(o) = {}
    BY ConversionsAssumption DEF Out, From, Copied, Streams
  <1>2. \A p \in Out : s \in From(p) => p = o
    BY <1>1
  <1>. QED  BY <1>1, <1>2 DEF DecodingNeeded, Encoded

LEMMA AtEndCounts ==
    ASSUME Accounted, NEW s \in Streams
    PROVE  LET d == AtEnd(s)
           IN /\ d.frames \in Seq(Frame) /\ Len(d.frames) \in {0, 1}
              /\ d.ist \in InputState /\ d.ist.pos = ist[s].pos
              /\ InDecoder(d.ist) = InDecoder(ist[s]) - Len(d.frames)
              /\ ist[s].dec = <<>> => Len(d.frames) = 0 /\ d.ist.dec = <<>>
              /\ ist[s].dec # <<>> => Len(d.frames) = 1
  <1>. DEFINE d == AtEnd(s)
  <1>1. StampInv /\ conv \in Conversions /\ InputsTimed /\ StreamTyped(s)
    BY DEF Accounted, StampInv, InputSide, StreamsTyped
  <1>2. d.ist \in InputState /\ d.frames \in Seq(Frame)
    BY <1>1, AtEndTimed DEF Decoded
  <1>3. /\ d.ist.pos = ist[s].pos /\ Len(d.frames) \in {0, 1}
        /\ Len(d.ist.dec) + Len(d.frames) = Len(ist[s].dec)
        /\ ist[s].dec # <<>> => Len(d.frames) = 1
    BY <1>1, AtEndFits
  <1>4. d.ist.dec \in Seq(Frame) /\ InDecoder(ist[s]) \in Nat
    BY <1>1, <1>2, InputFields, CountTypes
  <1>. HIDE DEF d
  <1>5. InDecoder(d.ist) \in Nat
    BY <1>4, LenProperties DEF InDecoder
  <1>6. InDecoder(d.ist) + Len(d.frames) = InDecoder(ist[s])
    BY <1>3 DEF InDecoder
  <1>7. InDecoder(d.ist) = InDecoder(ist[s]) - Len(d.frames)
    BY <1>3, <1>4, <1>5, <1>6
  <1>8. ASSUME ist[s].dec = <<>> PROVE Len(d.frames) = 0 /\ d.ist.dec = <<>>
    <2>1. InDecoder(ist[s]) = 0
      BY <1>8 DEF InDecoder
    <2>2. Len(d.frames) = 0 /\ InDecoder(d.ist) = 0
      BY <1>3, <1>5, <1>6, <2>1
    <2>. QED  BY <1>4, <2>2, EmptySeq DEF InDecoder
  <1>. QED  BY <1>2, <1>3, <1>7, <1>8 DEF d
-----------------------------------------------------------------------------
(* A packet is decoded; a file ends or begins again; the decoders are drained *)

LEMMA ReapStarts ==
    ASSUME conv \in Conversions, conv' = conv, pc' = "reap", at' = 1, flush' = FALSE
    PROVE  PlaceAccount'
  <1>1. Encoded' \subseteq Nat \ {0}
    BY ConversionDomains, SameConversion DEF Encoded
  <1>2. \A o \in Encoded' : ~(o < 1)
    BY <1>1
  <1>. QED  BY <1>2 DEF PlaceAccount, SourceAccount

LEMMA PushStepAccounts ==
    ASSUME Accounted, conv' = conv, GraphsTimed', NEW S, NEW frames, NEW E,
           \A s \in S : frames[s] \in Seq(Frame) /\ Len(frames[s]) \in {0, 1},
           \A o \in Encoded : /\ GraphIs(o, Pushed(S, frames)[o], E \cap From(o))
                              /\ Alike(ost[o], ost'[o]),
           \A s \in Streams : DecodingNeeded(s) =>
              /\ Fed(s)' = Fed(s) + New(S, frames, s)
              /\ Drawn(s) => New(S, frames, s) = 0 /\ Drawn(s)'
              /\ s \in E => Drawn(s)',
           NEW o \in Encoded
    PROVE  OutputAccount(o)'
  <1>. DEFINE C == E \cap From(o)
  <1>1. /\ o \in Out /\ OutputAccount(o) /\ StampInv /\ conv \in Conversions /\ GraphsTimed
    BY DEF Encoded, Accounted, Account, StampInv, InputSide
  <1>2. From(o) \subseteq Streams /\ \A s \in From(o) : DecodingNeeded(s)
    BY <1>1, CountTypes DEF DecodingNeeded
  <1>3. \A s \in From(o) : Fed(s)' = Fed(s) + New(S, frames, s)
    BY <1>2
  <1>4. \A s \in From(o) : Drawn(s) => New(S, frames, s) = 0 /\ Drawn(s)'
    BY <1>2
  <1>5. \A s \in C : Drawn(s)'
    BY <1>2
  <1>6. C \subseteq From(o) /\ GraphIs(o, Pushed(S, frames)[o], C) /\ Alike(ost[o], ost'[o])
    OBVIOUS
  <1>. HIDE DEF C
  <1>. QED  BY <1>1, <1>3, <1>4, <1>5, <1>6, PushAccounts

LEMMA DecodeAccounts ==
    ASSUME Accounted, [Next]_vars, conv' = conv, Clear', DecodePacket
    PROVE  OutputsAccounted' /\ PlaceAccount'
  <1>0. PICK s : s = pkt.stream
    OBVIOUS
  <1>. DEFINE i == Seen(s, pkt, ist[s])
              d == Decode(s, pkt, i)
              S == {s}
  <1>1. /\ StampInv /\ conv \in Conversions /\ InputsTimed /\ PacketTimed
        /\ StreamsTyped /\ ost \in [Out -> OutputState] /\ OutputsAccounted
        /\ GraphsTimed /\ GraphsTimed' /\ Out' = Out
    <2>1. StampInv'
      BY StampInvNext DEF Accounted
    <2>. QED  BY <2>1, SameConversion DEF Accounted, StampInv, InputSide, OutputSide,
                 OutputsTimed, Account, OutputsAccounted
  <1>2. /\ pc = "packet" /\ pc' = "reap" /\ at' = 1 /\ flush' = FALSE
        /\ ost' = ost /\ file' = file
        /\ ist' = [ist EXCEPT ![s] = d.ist]
        /\ graph' = Pushed(S, [t \in S |-> d.frames]) /\ DecodingNeeded(s)
    BY <1>0 DEF DecodePacket, Reap, Clear
  <1>21. PICK frames : frames = [t \in S |-> d.frames]
    OBVIOUS
  <1>3. /\ s \in Streams /\ pkt \in Packet /\ ist[s] \in InputState /\ StreamTyped(s)
        /\ pkt # NoPacket
    <2>1. s \in Streams /\ pkt \in Packet
      BY <1>0, <1>1, <1>2 DEF PacketTimed
    <2>2. s \in Nat /\ s # 0
      BY <1>1, <2>1, ConversionDomains
    <2>. QED  BY <1>0, <1>1, <2>1, <2>2 DEF InputsTimed, StreamsTyped, NoPacket
  <1>4. i \in InputState /\ i.pos = ist[s].pos /\ i.dec = ist[s].dec /\ Fits(s, i)
    <2>1. i \in InputState /\ i.pos = ist[s].pos /\ i.dec = ist[s].dec
      BY <1>1, <1>3, SeenTimed, SeenFits
    <2>. HIDE DEF i
    <2>. QED  BY <1>3, <2>1 DEF StreamTyped, Fits
  <1>5. /\ d.ist \in InputState /\ d.frames \in Seq(Frame) /\ Len(d.frames) \in {0, 1}
        /\ d.ist.pos = ist[s].pos
        /\ InDecoder(d.ist) + Len(d.frames) = InDecoder(ist[s]) + 1
    <2>. HIDE DEF i
    <2>1. d \in Decoded
      BY <1>1, <1>3, <1>4, DecodeTimed
    <2>2. /\ d.ist.pos = i.pos /\ Len(d.frames) \in {0, 1}
          /\ Len(d.ist.dec) + Len(d.frames) = Len(i.dec) + (IF pkt = NoPacket THEN 0 ELSE 1)
      BY <1>1, <1>3, <1>4, DecodeFits
    <2>. HIDE DEF d
    <2>. QED  BY <1>3, <1>4, <2>1, <2>2 DEF Decoded, InDecoder
  <1>. HIDE DEF d, i
  <1>6. ist'[s] = d.ist /\ \A t \in Streams : t # s => ist'[t] = ist[t]
    BY <1>1, <1>2, <1>3 DEF InputsTimed
  <1>7. ASSUME NEW t \in Streams, t # s PROVE Unmoved(t)
    <2>1. FileKept(FileOf(t))
      BY <1>2 DEF FileKept
    <2>2. InFlight(t) = 0 /\ InFlight(t)' = 0
      BY <1>0, <1>2, <1>7 DEF InFlight
    <2>. QED  BY <1>6, <1>7, <2>1, <2>2, StreamUnmoved
  <1>8. ~AtLast(s)
    BY <1>0, <1>2 DEF AtLast, InFlight
  <1>9. Fed(s)' = Fed(s) + New(S, frames, s)
    <2>. DEFINE a == Read(s)
                m == InDecoder(ist[s])
                k == InDecoder(d.ist)
                l == Len(d.frames)
    <2>1. a \in Int /\ m \in Int /\ l \in Int
      BY <1>1, <1>3, <1>5, CountTypes
    <2>2. k \in Int
      <3>1. d.ist.dec \in Seq(Frame)
        BY <1>5, InputFields
      <3>. QED  BY <3>1, LenProperties DEF InDecoder
    <2>3. Read(s)' = a /\ InFlight(s) = 1 /\ InFlight(s)' = 0 /\ InDecoder(ist[s])' = k
      <3>1. Read(s)' = Read(s)
        BY <1>2, <1>5, <1>6 DEF Read, Given, Looped
      <3>2. InDecoder(ist[s])' = InDecoder(ist'[s])
        BY <1>2 DEF InDecoder
      <3>3. InFlight(s) = 1 /\ InFlight(s)' = 0
        BY <1>0, <1>2 DEF InFlight
      <3>. QED  BY <1>5, <1>6, <3>1, <3>2, <3>3
    <2>4. Fed(s) = (a - 1) - m
      BY <2>3 DEF Fed, HasRead
    <2>5. Fed(s)' = (a - 0) - k
      BY <2>3 DEF Fed, HasRead
    <2>6. New(S, frames, s) = l
      BY <1>21 DEF New
    <2>7. k + l = m + 1
      BY <1>5
    <2>. HIDE DEF a, m, k, l
    <2>. QED  BY <2>1, <2>2, <2>4, <2>5, <2>6, <2>7
  <1>22. PICK E : E = {}
    OBVIOUS
  <1>10. ASSUME NEW t \in Streams, DecodingNeeded(t)
         PROVE  /\ Fed(t)' = Fed(t) + New(S, frames, t)
                /\ Drawn(t) => New(S, frames, t) = 0 /\ Drawn(t)'
                /\ t \in E => Drawn(t)'
    <2>1. CASE t = s
      BY <1>8, <1>9, <1>22, <2>1 DEF Drawn
    <2>2. CASE t # s
      <3>1. New(S, frames, t) = 0 /\ Unmoved(t)
        BY <1>7, <2>2 DEF New
      <3>2. Fed(t)' = Fed(t) /\ Fed(t) \in Int
        <4>1. InDecoder(ist[t])' = InDecoder(ist[t])
          BY <3>1 DEF Unmoved, InDecoder
        <4>. QED  BY <1>1, <3>1, <4>1, CountTypes DEF Unmoved, Fed
      <3>3. Drawn(t) => Drawn(t)'
        BY <3>1 DEF Drawn, Unmoved
      <3>4. Fed(t)' = Fed(t) + 0
        BY <3>2
      <3>. QED  BY <1>22, <3>1, <3>3, <3>4
    <2>. QED  BY <2>1, <2>2
  <1>11. \A o \in Out : Alike(ost[o], ost'[o])
    BY <1>1, <1>2, FieldsAlike
  <1>12. ASSUME NEW o \in Encoded PROVE OutputAccount(o)'
    <2>1. \A x \in S : frames[x] \in Seq(Frame) /\ Len(frames[x]) \in {0, 1}
      BY <1>5, <1>21
    <2>2. \A p \in Encoded : /\ GraphIs(p, Pushed(S, frames)[p], E \cap From(p))
                             /\ Alike(ost[p], ost'[p])
      BY <1>2, <1>11, <1>21, <1>22 DEF GraphIs, Encoded
    <2>3. \A t \in Streams : DecodingNeeded(t) =>
            /\ Fed(t)' = Fed(t) + New(S, frames, t)
            /\ Drawn(t) => New(S, frames, t) = 0 /\ Drawn(t)'
            /\ t \in E => Drawn(t)'
      BY <1>10
    <2>. HIDE DEF S
    <2>. QED  BY <1>1, <2>1, <2>2, <2>3, PushStepAccounts
  <1>13. ASSUME NEW o \in Out \ Encoded PROVE OutputAccount(o)'
    <2>1. Copied(o) /\ OutputAccount(o) /\ From(o) \subseteq Streams
      BY <1>1, CountTypes DEF Encoded, OutputsAccounted
    <2>2. \A t \in From(o) : t # s
      BY <1>1, <1>2, <2>1, CopiedAlone
    <2>3. \A t \in From(o) : Unmoved(t) /\ (Ended(t)' => Ended(t))
      BY <1>2, <1>7, <2>1, <2>2 DEF Ended, FileOf
    <2>. QED  BY <1>1, <1>11, <2>1, <2>3, OutputKept
  <1>14. PlaceAccount'
    BY <1>1, <1>2, ReapStarts
  <1>. QED  BY <1>1, <1>12, <1>13, <1>14 DEF OutputsAccounted
-----------------------------------------------------------------------------
(* A file ends; the decoders are drained *)

LEMMA DrainedCounts ==
    ASSUME Accounted, conv' = conv, NEW s \in Streams, ist'[s] = AtEnd(s).ist,
           FileKept(FileOf(s)), InFlight(s) = 0, InFlight(s)' = 0
    PROVE  /\ HasRead(s)' = HasRead(s)
           /\ Fed(s)' = Fed(s) + Len(AtEnd(s).frames)
           /\ Drawn(s) => Len(AtEnd(s).frames) = 0 /\ Drawn(s)'
  <1>1. /\ AtEnd(s).ist.pos = ist[s].pos /\ Len(AtEnd(s).frames) \in {0, 1}
        /\ InDecoder(AtEnd(s).ist) = InDecoder(ist[s]) - Len(AtEnd(s).frames)
        /\ ist[s].dec = <<>> => Len(AtEnd(s).frames) = 0 /\ AtEnd(s).ist.dec = <<>>
    BY AtEndCounts
  <1>2. FileOf(s)' = FileOf(s) /\ Given(s)' = Given(s) /\ Looped(s)' = Looped(s)
    BY DEF FileOf, Given, Looped
  <1>3. HasRead(s)' = HasRead(s)
    BY <1>1, <1>2 DEF HasRead, Read, FileOf, FileKept
  <1>4. Fed(s)' = Fed(s) + Len(AtEnd(s).frames)
    <2>. DEFINE h == HasRead(s)
                m == InDecoder(ist[s])
                l == Len(AtEnd(s).frames)
    <2>1. h \in Int /\ m \in Int /\ l \in Int
      BY <1>1, CountTypes DEF Accounted
    <2>2. Fed(s) = h - m
      BY DEF Fed
    <2>3. InDecoder(ist[s])' = m - l
      <3>1. InDecoder(ist[s])' = InDecoder(ist'[s])
        BY DEF InDecoder
      <3>. QED  BY <1>1, <3>1
    <2>4. Fed(s)' = h - (m - l)
      BY <1>3, <2>3 DEF Fed
    <2>5. h - (m - l) = h - m + l
      <3>. HIDE DEF h, m, l
      <3>. QED  BY <2>1
    <2>. QED  BY <2>2, <2>4, <2>5
  <1>5. AtLast(s) => AtLast(s)'
    BY <1>1, <1>2 DEF AtLast, Ended, FileKept
  <1>. QED  BY <1>1, <1>3, <1>4, <1>5 DEF Drawn

\* What the streams of S and their graphs do when they are drained, and those
\* of E end.
LEMMA DrainStepAccounts ==
    ASSUME Accounted, conv' = conv, GraphsTimed',
           NEW S, NEW frames, NEW E,
           S \subseteq Streams, frames = [s \in S |-> AtEnd(s).frames],
           graph' = Drained(S, E),
           ist' = [s \in Streams |-> IF s \in S THEN AtEnd(s).ist ELSE ist[s]],
           \A f \in Files : FileKept(f),
           pc # "packet", pc' # "packet",
           \A s \in E : s \in Streams /\ DecodingNeeded(s) => Drawn(s)',
           \A o \in Encoded : Alike(ost[o], ost'[o]),
           NEW o \in Encoded
    PROVE  OutputAccount(o)'
  <1>1. /\ StampInv /\ conv \in Conversions /\ InputsTimed /\ GraphsTimed
    BY DEF Accounted, StampInv, InputSide
  <1>2. \A s \in S : frames[s] \in Seq(Frame) /\ Len(frames[s]) \in {0, 1}
    BY AtEndCounts
  <1>3. ASSUME NEW p \in Encoded
        PROVE  GraphIs(p, Pushed(S, frames)[p], E \cap From(p))
    <2>1. Pushed(S, frames)[p] \in GraphState(p)
      BY <1>1, <1>2, PushedTimed
    <2>. DEFINE h == Pushed(S, frames)[p]
    <2>2. graph'[p] = [h EXCEPT !.closed = @ \cup (E \cap From(p))]
      BY DEF Drained
    <2>. HIDE DEF h
    <2>. QED  BY <2>1, <2>2 DEF GraphIs, GraphState, h
  <1>4. ASSUME NEW s \in Streams, DecodingNeeded(s)
        PROVE  /\ Fed(s)' = Fed(s) + New(S, frames, s)
               /\ Drawn(s) => New(S, frames, s) = 0 /\ Drawn(s)'
               /\ s \in E => Drawn(s)'
    <2>1. FileKept(FileOf(s)) /\ InFlight(s) = 0 /\ InFlight(s)' = 0
      BY <1>1, StreamTypes DEF FileOf, InFlight
    <2>2. s \in E => Drawn(s)'
      BY <1>4
    <2>3. CASE s \in S
      <3>1. ist'[s] = AtEnd(s).ist /\ New(S, frames, s) = Len(AtEnd(s).frames)
        BY <2>3 DEF New
      <3>. QED  BY <2>1, <2>2, <3>1, DrainedCounts
    <2>4. CASE s \notin S
      <3>1. ist'[s] = ist[s] /\ New(S, frames, s) = 0
        BY <2>4 DEF New
      <3>2. Unmoved(s)
        BY <2>1, <3>1, StreamUnmoved
      <3>3. Fed(s)' = Fed(s) /\ Fed(s) \in Int
        <4>1. InDecoder(ist[s])' = InDecoder(ist[s])
          BY <3>1 DEF InDecoder
        <4>. QED  BY <1>1, <3>2, <4>1, CountTypes DEF Unmoved, Fed
      <3>4. Drawn(s) => Drawn(s)'
        BY <3>2 DEF Drawn, Unmoved
      <3>5. Fed(s)' = Fed(s) + 0
        BY <3>3
      <3>. QED  BY <2>2, <3>1, <3>4, <3>5
    <2>. QED  BY <2>3, <2>4
  <1>. QED  BY <1>2, <1>3, <1>4, PushStepAccounts

LEMMA FlushDecodersAccounts ==
    ASSUME Accounted, [Next]_vars, conv' = conv, Clear', FlushDecoders
    PROVE  OutputsAccounted' /\ PlaceAccount'
  <1>1. PICK S : S = {s \in Streams : /\ DecodingNeeded(s)
                                      /\ ~file[conv.inputs[s].file].eof_reached}
    OBVIOUS
  <1>2. /\ pc = "flush_decoders" /\ pc' = "flush_encoders" /\ ost' = ost
        /\ ist' = [s \in Streams |-> IF s \in S THEN AtEnd(s).ist ELSE ist[s]]
    BY <1>1 DEF FlushDecoders
  <1>3. /\ StampInv /\ conv \in Conversions /\ ost \in [Out -> OutputState]
        /\ Account /\ Out' = Out
    BY SameConversion DEF Accounted, StampInv, OutputSide, OutputsTimed
  <1>4. \A o \in Out : ost[o].finished # {} /\ OutputAccount(o) /\ Alike(ost[o], ost'[o])
    BY <1>2, <1>3, FieldsAlike DEF Account, PlaceAccount
  <1>5. ASSUME NEW o \in Out PROVE OutputAccount(o)'
    <2>1. Copied(o)' = Copied(o)
      BY DEF Copied
    <2>2. CASE ~Copied(o)
      <3>1. ASSUME NEW s \in From(o), Drawn(s) PROVE Drawn(s)' /\ Fed(s)' = Fed(s)
        <4>1. s \in Streams /\ DecodingNeeded(s)
          BY <1>3, <2>2, CountTypes DEF DecodingNeeded, Encoded
        <4>2. FileKept(FileOf(s)) /\ InFlight(s) = 0 /\ InFlight(s)' = 0
          <5>1. ~SeekToStart
            BY <1>2 DEF SeekToStart
          <5>. QED  BY <1>2, <1>3, <4>1, <5>1, FilesKept, StreamTypes DEF FileOf, InFlight
        <4>3. CASE s \in S
          <5>1. ist'[s] = AtEnd(s).ist
            BY <1>2, <4>1, <4>3
          <5>2. /\ Fed(s)' = Fed(s) + Len(AtEnd(s).frames)
                /\ Len(AtEnd(s).frames) = 0 /\ Drawn(s)'
            BY <3>1, <4>1, <4>2, <5>1, DrainedCounts
          <5>3. Fed(s) \in Int
            BY <1>3, <4>1, CountTypes
          <5>. QED  BY <5>2, <5>3
        <4>4. CASE s \notin S
          <5>1. ist'[s] = ist[s]
            BY <1>2, <4>1, <4>4
          <5>2. Unmoved(s)
            BY <4>2, <5>1, StreamUnmoved
          <5>. QED  BY <3>1, <5>1, <5>2 DEF Unmoved, Drawn, Fed, InDecoder
        <4>. QED  BY <4>3, <4>4
      <3>2. EncodedAccount(o)
        BY <1>4, <2>2 DEF OutputAccount
      <3>3. EncodedAccount(o)'
        BY <1>4, <3>1, <3>2, DoneKept
      <3>. QED  BY <2>1, <2>2, <3>3 DEF OutputAccount
    <2>3. CASE Copied(o)
      <3>1. ASSUME NEW s \in From(o) PROVE Unmoved(s) /\ (Ended(s)' => Ended(s))
        <4>1. ~DecodingNeeded(s) /\ s \in Streams
          BY <1>3, <2>3, CopiedAlone, CountTypes
        <4>2. ist'[s] = ist[s]
          BY <1>1, <1>2, <4>1
        <4>3. ~SeekToStart
          BY <1>2 DEF SeekToStart
        <4>4. FileKept(FileOf(s))
          BY <1>3, <4>1, <4>3, FilesKept, StreamTypes DEF FileOf
        <4>5. InFlight(s)' = InFlight(s)
          BY <1>2 DEF InFlight
        <4>6. Unmoved(s)
          BY <4>2, <4>4, <4>5, StreamUnmoved
        <4>. QED  BY <4>6 DEF FlushDecoders, Ended, FileOf
      <3>2. CopyAccount(o)
        BY <1>4, <2>3 DEF OutputAccount
      <3>3. CopyAccount(o)'
        BY <1>4, <3>1, <3>2, CopyKept
      <3>. QED  BY <2>1, <2>3, <3>3 DEF OutputAccount
    <2>. QED  BY <2>2, <2>3
  <1>6. PlaceAccount'
    BY <1>2, <1>3, <1>4 DEF PlaceAccount, SourceAccount
  <1>. QED  BY <1>3, <1>5, <1>6 DEF OutputsAccounted

LEMMA EndOfFileAccounts ==
    ASSUME Accounted, [Next]_vars, conv' = conv, Clear', EndOfInput \/ BlocksAfterSeek
    PROVE  OutputsAccounted' /\ PlaceAccount'
  <1>. DEFINE holding == {s \in StreamsOf(src) : DecodingNeeded(s) /\ ist[s].dec # <<>>}
              ended == {s \in StreamsOf(src) : \A t \in holding : s < t}
              first == IF holding = {} THEN {} ELSE {Min(holding)}
              drained == {s \in ended \cup first : DecodingNeeded(s)}
  <1>0. /\ StampInv /\ conv \in Conversions /\ OutputsTimed /\ ost \in [Out -> OutputState]
        /\ Account /\ Out' = Out /\ GraphsTimed'
    <2>1. StampInv'
      BY StampInvNext DEF Accounted
    <2>. QED  BY <2>1, SameConversion
         DEF Accounted, StampInv, OutputSide, OutputsTimed, InputSide
  <1>1. PICK S : S = drained
    OBVIOUS
  <1>2. PICK E : E = ended
    OBVIOUS
  <1>3. PICK frames : frames = [s \in S |-> AtEnd(s).frames]
    OBVIOUS
  <1>4. /\ EndOfFile
        /\ \/ pc = "input" /\ file[src].loop = 0 /\ AllRead(src)
           \/ pc = "again"
    BY DEF EndOfInput, NoSeek, BlocksAfterSeek
  <1>5. /\ ist' = [s \in Streams |-> IF s \in S THEN AtEnd(s).ist ELSE ist[s]]
        /\ graph' = Drained(S, E)
        /\ \/ pc' = "reap" /\ at' = 1 /\ flush' = FALSE
           \/ pc' = "loop"
        /\ \/ file' = file
           \/ holding = {} /\ file' = [file EXCEPT ![src].eof_reached = TRUE]
        /\ holding = {} => file' = [file EXCEPT ![src].eof_reached = TRUE] /\ pc' = "loop"
    BY <1>1, <1>2, <1>4 DEF EndOfFile, Drained, Reap
  <1>6. PICK st : st = finish_output_stream(ost, CopiesOf(ended))
    OBVIOUS
  <1>7. ost' = st \/ ost' = [st EXCEPT ![cur].unavailable = TRUE]
    BY <1>4, <1>6 DEF EndOfFile
  <1>8. /\ holding \subseteq Streams /\ E \subseteq Streams /\ S \subseteq Streams
        /\ \A s \in S : DecodingNeeded(s)
    <2>1. holding \in SUBSET Streams /\ ended \subseteq Streams
      BY DEF StreamsOf
    <2>2. first \subseteq holding
      <3>1. IsFiniteSet(holding) /\ holding \subseteq Int
        BY <1>0, <2>1, ConversionDomains, FS_Subset
      <3>. HIDE DEF holding
      <3>. QED  BY <3>1, MinInSet
    <2>. HIDE DEF holding, first, ended
    <2>. QED  BY <1>1, <1>2, <2>1, <2>2
  <1>9. \A f \in Files : FileKept(f)
    <2>1. ~SeekToStart
      BY <1>4 DEF SeekToStart
    <2>. QED  BY <1>0, <2>1, FilesKept
  <1>10. ASSUME NEW s \in E
         PROVE  AtLast(s)' /\ (DecodingNeeded(s) => Drawn(s)')
    <2>1. s \in StreamsOf(src) /\ s \in Streams /\ \A t \in holding : s < t
      BY <1>2, <1>8
    <2>2. DecodingNeeded(s) => ist[s].dec = <<>>
      <3>1. s \in Int
        BY <1>0, <1>8, ConversionDomains
      <3>2. ~(s < s)
        BY <3>1
      <3>. QED  BY <2>1, <3>2
    <2>3. /\ ist'[s] = ist[s] \/ ist'[s] = AtEnd(s).ist
          /\ ist'[s].pos = ist[s].pos
          /\ DecodingNeeded(s) => ist'[s].dec = <<>>
      BY <1>5, <1>8, <2>1, <2>2, AtEndCounts
    <2>4. FileOf(s) = src /\ FileOf(s)' = src /\ src \in Files /\ InFlight(s)' = 0
          /\ Given(s)' = Given(s) /\ Looped(s)' = Looped(s)
      BY <1>0, <1>5, <2>1, StreamTypes DEF StreamsOf, FileOf, InFlight, Given, Looped
    <2>5. CASE pc = "input" /\ file[src].loop = 0 /\ AllRead(src)
      <3>1. ist'[s].pos = Given(s)' /\ file'[src].loop = 0
        BY <1>9, <2>1, <2>3, <2>4, <2>5 DEF AllRead, FileKept, Given
      <3>. QED  BY <2>3, <2>4, <3>1 DEF AtLast, Drawn
    <2>6. CASE pc = "again"
      <3>1. \A x \in StreamsOf(src) : Looped(x) > 0 /\ (DecodingNeeded(x) => ist[x].dec = <<>>)
        BY <1>0, <2>6 DEF Account, PlaceAccount, SourceAccount
      <3>2. holding = {}
        BY <3>1
      <3>3. file' = [file EXCEPT ![src].eof_reached = TRUE]
        BY <1>5, <3>2
      <3>4. file \in [Files -> FileState]
        BY <1>0 DEF StampInv, InputSide, FilesTimed
      <3>5. Ended(s)' /\ Looped(s)' > 0
        BY <2>1, <2>4, <3>1, <3>3, <3>4 DEF Ended, FileState
      <3>. QED  BY <2>3, <2>4, <3>5 DEF AtLast, Drawn
    <2>. QED  BY <1>4, <2>5, <2>6
  <1>11. ASSUME NEW o \in Out
         PROVE  /\ Alike(st[o], ost'[o])
                /\ st[o] = IF o \in CopiesOf(E)
                           THEN [ost[o] EXCEPT !.finished = {"ENCODER", "MUXER"}]
                           ELSE ost[o]
    <2>1. conv.shortest = {}
      BY DEF Accounted, Clear, Unlimited
    <2>2. st[o] = IF o \in CopiesOf(E)
                  THEN [ost[o] EXCEPT !.finished = {"ENCODER", "MUXER"}] ELSE ost[o]
      <3>. HIDE DEF ended
      <3>. QED  BY <1>2, <1>6, <2>1 DEF finish_output_stream
    <2>3. st[o] \in OutputState /\ DOMAIN st = Out
      <3>1. st[o] \in OutputState
        BY <1>0, <2>2 DEF OutputState
      <3>. QED  BY <1>6, <3>1 DEF finish_output_stream
    <2>4. ost'[o] = st[o] \/ ost'[o] = [st[o] EXCEPT !.unavailable = TRUE]
      BY <1>7, <2>3
    <2>. QED  BY <2>2, <2>3, <2>4, FieldsAlike
  <1>12. ASSUME NEW s \in Streams, Ended(s)', ~Ended(s) PROVE s \in E
    <2>1. holding = {} /\ file' = [file EXCEPT ![src].eof_reached = TRUE]
      BY <1>5, <1>12 DEF Ended, FileOf
    <2>2. FileOf(s) = src
      BY <1>12, <2>1 DEF Ended, FileOf
    <2>3. s \in StreamsOf(src)
      BY <2>2 DEF StreamsOf, FileOf
    <2>. QED  BY <1>2, <2>1, <2>3
  <1>. HIDE DEF drained, ended, holding, first
  <1>13. \A o \in Out : o \notin CopiesOf(E) => Alike(ost[o], ost'[o])
    BY <1>11
  <1>14. ASSUME NEW o \in Encoded PROVE OutputAccount(o)'
    <2>1. \A p \in Encoded : Alike(ost[p], ost'[p])
      BY <1>13 DEF CopiesOf, Encoded
    <2>2. \A s \in E : s \in Streams /\ DecodingNeeded(s) => Drawn(s)'
      BY <1>10
    <2>3. pc # "packet" /\ pc' # "packet"
      BY <1>4, <1>5
    <2>. QED  BY <1>0, <1>3, <1>5, <1>8, <1>9, <2>1, <2>2, <2>3, DrainStepAccounts
  <1>15. ASSUME NEW o \in Out \ Encoded PROVE OutputAccount(o)'
    <2>1. Copied(o) /\ Copied(o)' /\ CopyAccount(o) /\ From(o) \subseteq Streams
          /\ From(o)' = From(o)
      BY <1>0, CountTypes DEF Encoded, Account, OutputAccount, Copied, From
    <2>2. ASSUME NEW s \in From(o) PROVE Unmoved(s)
      <3>1. ~DecodingNeeded(s) /\ s \in Streams
        BY <1>0, <2>1, CopiedAlone
      <3>2. ist'[s] = ist[s]
        BY <1>5, <1>8, <3>1
      <3>3. FileKept(FileOf(s))
        BY <1>0, <1>9, <3>1, StreamTypes DEF FileOf
      <3>4. InFlight(s)' = InFlight(s)
        BY <1>4, <1>5 DEF InFlight
      <3>. QED  BY <3>2, <3>3, <3>4, StreamUnmoved
    <2>3. CASE o \notin CopiesOf(E)
      <3>1. ASSUME NEW s \in From(o) PROVE Ended(s)' => Ended(s)
        <4>1. From(o) = {s}
          BY <1>0, <2>1, CopiedAlone
        <4>2. s \notin E
          BY <2>1, <2>3, <4>1 DEF CopiesOf
        <4>. QED  BY <1>12, <2>1, <4>2
      <3>2. CopyAccount(o)'
        BY <1>13, <2>1, <2>2, <2>3, <3>1, CopyKept
      <3>. QED  BY <2>1, <3>2 DEF OutputAccount
    <2>4. CASE o \in CopiesOf(E)
      <3>1. \A s \in From(o) : AtLast(s)'
        BY <1>10, <2>4 DEF CopiesOf
      <3>2. st[o] = [ost[o] EXCEPT !.finished = {"ENCODER", "MUXER"}]
        BY <1>11, <2>4
      <3>3. ost'[o].muxed = ost[o].muxed /\ ost'[o].passed = ost[o].passed
            /\ InEncoder(ost[o])' = InEncoder(ost[o])
            /\ ost'[o].finished = {"ENCODER", "MUXER"}
        BY <1>0, <1>11, <3>2 DEF Alike, OutputState, InEncoder
      <3>4. CopyAccount(o)'
        BY <2>1, <2>2, <3>1, <3>3 DEF CopyAccount, Unmoved, Written
      <3>. QED  BY <2>1, <3>4 DEF OutputAccount
    <2>. QED  BY <2>3, <2>4
  <1>16. PlaceAccount'
    BY <1>0, <1>5, ReapStarts DEF PlaceAccount, SourceAccount
  <1>. QED  BY <1>0, <1>14, <1>15, <1>16 DEF OutputsAccounted
-----------------------------------------------------------------------------
(* A file begins again *)

LEMMA SeekAccounts ==
    ASSUME Accounted, [Next]_vars, conv' = conv, Clear', SeekToStart
    PROVE  OutputsAccounted' /\ PlaceAccount'
  <1>1. PICK S : S = StreamsOf(src)
    OBVIOUS
  <1>2. PICK D : D = {s \in S : DecodingNeeded(s)}
    OBVIOUS
  <1>3. PICK frames : frames = [s \in D |-> AtEnd(s).frames]
    OBVIOUS
  <1>4. PICK E : E = {}
    OBVIOUS
  <1>5. /\ StampInv /\ conv \in Conversions /\ ost \in [Out -> OutputState]
        /\ ist \in [Streams -> InputState] /\ file \in [Files -> FileState]
        /\ Account /\ Out' = Out /\ GraphsTimed'
    <2>1. StampInv'
      BY StampInvNext DEF Accounted
    <2>. QED  BY <2>1, SameConversion
         DEF Accounted, StampInv, OutputSide, OutputsTimed, InputSide, InputsTimed, FilesTimed
  <1>6. PICK after : after = [s \in S |-> IF s \in D THEN [AtEnd(s).ist EXCEPT !.dec = <<>>]
                                                     ELSE ist[s]]
    OBVIOUS
  <1>7. /\ pc = "input" /\ pc' = "again" /\ file[src].loop > 0 /\ ost' = ost
        /\ AllRead(src) /\ \A s \in D : ~(Len(ist[s].dec) > 1)
        /\ ist' = [s \in Streams |-> IF s \in S THEN [after[s] EXCEPT !.pos = 0] ELSE ist[s]]
        /\ graph' = Pushed(D, frames)
    <2>1. trouble' = "none"
      BY DEF Clear
    <2>2. AllRead(src) /\ \A s \in D : ~(Len(ist[s].dec) > 1)
      BY <1>1, <1>2, <2>1 DEF SeekToStart
    <2>3. /\ pc = "input" /\ pc' = "again" /\ file[src].loop > 0 /\ ost' = ost
      BY DEF SeekToStart
    <2>4. graph' = Pushed(D, frames)
      <3>. DEFINE end == [s \in D |-> AtEnd(s)]
      <3>1. graph' = Pushed(D, [s \in D |-> end[s].frames])
        BY <1>1, <1>2 DEF SeekToStart
      <3>2. [s \in D |-> end[s].frames] = frames
        BY <1>3
      <3>. QED  BY <3>1, <3>2
    <2>5. ist' = [s \in Streams |-> IF s \in S THEN [after[s] EXCEPT !.pos = 0] ELSE ist[s]]
      <3>. DEFINE end == [s \in D |-> AtEnd(s)]
                  then == [s \in S |-> IF s \in D THEN [end[s].ist EXCEPT !.dec = <<>>]
                                                  ELSE ist[s]]
      <3>1. ist' = [s \in Streams |-> IF s \in S THEN [then[s] EXCEPT !.pos = 0] ELSE ist[s]]
        BY <1>1, <1>2 DEF SeekToStart
      <3>2. then = after
        BY <1>6
      <3>. HIDE DEF then
      <3>. QED  BY <3>1, <3>2
    <2>. QED  BY <2>2, <2>3, <2>4, <2>5
  <1>8. PICK d : file' = [file EXCEPT ![src].loop = @ - 1, ![src].duration = d]
    <2>1. PICK lengths \in SUBSET Int :
             file' = [file EXCEPT ![src].loop = @ - 1, ![src].duration = Max({@} \cup lengths)]
      BY <1>5, SeekLengthens
    <2>2. src \in Files \/ src \notin DOMAIN file
      BY <1>5
    <2>3. file' = [file EXCEPT ![src].loop = @ - 1,
                     ![src].duration = Max({file[src].duration} \cup lengths)]
      <3>1. CASE src \in DOMAIN file
        <4>. DEFINE m(x) == Max({x} \cup lengths)
        <4>1. file' = [file EXCEPT ![src].loop = @ - 1, ![src].duration = m(@)]
          BY <2>1
        <4>2. [[file EXCEPT ![src].loop = @ - 1] EXCEPT ![src].duration = m(@)]
              = [[file EXCEPT ![src].loop = @ - 1] EXCEPT ![src].duration = m(file[src].duration)]
          <5>1. file[src] \in FileState
            BY <1>5, <3>1
          <5>2. [file[src] EXCEPT !.loop = @ - 1].duration = file[src].duration
            BY <5>1 DEF FileState
          <5>. HIDE DEF m
          <5>. QED  BY <1>5, <3>1, <5>2
        <4>. HIDE DEF m
        <4>3. file' = [file EXCEPT ![src].loop = @ - 1, ![src].duration = m(file[src].duration)]
          BY <4>1, <4>2
        <4>. QED  BY <4>3 DEF m
      <3>2. CASE src \notin DOMAIN file
        <4>1. file' = file
          BY <1>5, <2>1, <3>2
        <4>. QED  BY <1>5, <3>2, <4>1
      <3>. QED  BY <3>1, <3>2
    <2>. QED  BY <2>3
  <1>9. /\ \A f \in Files : f # src => file'[f] = file[f]
        /\ src \in Files => /\ file'[src].loop = file[src].loop - 1
                           /\ file'[src].eof_reached = file[src].eof_reached
    BY <1>5, <1>8 DEF FileState
  <1>10. ASSUME NEW s \in Streams, s \notin S PROVE Unmoved(s) /\ ist'[s].dec = ist[s].dec
    <2>1. FileOf(s) \in Files /\ FileOf(s) # src
      BY <1>1, <1>5, <1>10, StreamTypes DEF FileOf, StreamsOf
    <2>2. FileKept(FileOf(s))
      BY <1>9, <2>1 DEF FileKept
    <2>3. ist'[s] = ist[s]
      BY <1>7, <1>10
    <2>4. InFlight(s)' = InFlight(s)
      BY <1>7 DEF InFlight
    <2>. QED  BY <2>2, <2>3, <2>4, StreamUnmoved
  <1>11. ASSUME NEW s \in S
         PROVE  /\ s \in Streams /\ ~AtLast(s) /\ HasRead(s)' = HasRead(s)
                /\ s \in D => ist'[s].dec = <<>> /\ Len(AtEnd(s).frames) = InDecoder(ist[s])
                /\ s \notin D => ist'[s].dec = ist[s].dec
    <2>1. s \in Streams /\ FileOf(s) = src /\ src \in Files
      BY <1>1, <1>5, StreamTypes DEF FileOf, StreamsOf
    <2>2. ~AtLast(s)
      <3>1. file[src].loop # 0
        BY <1>7
      <3>2. ~Ended(s)
        BY <1>1, <1>5, <1>7 DEF Account, PlaceAccount, SourceAccount
      <3>. QED  BY <2>1, <3>1, <3>2 DEF AtLast
    <2>3. ist[s] \in InputState /\ AtEnd(s).ist \in InputState
      BY <1>5, <2>1, AtEndCounts
    <2>4. ist'[s] = [after[s] EXCEPT !.pos = 0]
      BY <1>7, <2>1
    <2>5. ASSUME s \in D PROVE ist'[s].dec = <<>>
      <3>1. after[s] = [AtEnd(s).ist EXCEPT !.dec = <<>>]
        BY <1>6, <2>5
      <3>2. ist'[s].pos = 0 /\ ist'[s].dec = <<>>
        BY <2>3, <2>4, <3>1 DEF InputState
      <3>. QED  BY <3>2
    <2>6. ASSUME s \notin D PROVE ist'[s].dec = ist[s].dec
      <3>1. after[s] = ist[s]
        BY <1>6, <2>6
      <3>2. ist'[s].pos = 0 /\ ist'[s].dec = ist[s].dec
        BY <2>3, <2>4, <3>1 DEF InputState
      <3>. QED  BY <3>2
    <2>7. ist'[s].pos = 0
      <3>1. after[s] = [AtEnd(s).ist EXCEPT !.dec = <<>>] \/ after[s] = ist[s]
        BY <1>6
      <3>. QED  BY <2>3, <2>4, <3>1 DEF InputState
    <2>8. HasRead(s)' = HasRead(s)
      <3>. DEFINE p == Given(s)
                  l == Looped(s)
                  k == file[src].loop
                  sum(pos, given, looped, left) == pos + given * (looped - left)
      <3>1. p \in Int /\ l \in Int /\ k \in Int
        BY <1>5, <2>1, CountTypes
      <3>2. ist[s].pos = p
        BY <1>1, <1>7 DEF AllRead, Given
      <3>3. InFlight(s) = 0 /\ InFlight(s)' = 0
        BY <1>7 DEF InFlight
      <3>4. Read(s) = sum(p, p, l, k)
        <4>1. Read(s) = sum(ist[s].pos, Given(s), Looped(s), file[FileOf(s)].loop)
          BY DEF Read, FileOf
        <4>. HIDE DEF sum
        <4>. QED  BY <2>1, <3>2, <4>1
      <3>5. Read(s)' = sum(0, p, l, k - 1)
        <4>1. FileOf(s)' = src /\ file'[src].loop = k - 1
          BY <1>9, <2>1 DEF FileOf
        <4>2. Given(s)' = p /\ Looped(s)' = l
          BY DEF Given, Looped
        <4>3. Read(s)' = sum(ist'[s].pos, Given(s)', Looped(s)', file'[FileOf(s)'].loop)
          BY DEF Read, FileOf
        <4>. HIDE DEF sum, p, l, k
        <4>. QED  BY <2>7, <4>1, <4>2, <4>3
      <3>6. sum(0, p, l, k - 1) = sum(p, p, l, k)
        <4>. HIDE DEF p, l, k
        <4>1. l - (k - 1) = (l - k) + 1 /\ l - k \in Int
          BY <3>1
        <4>2. \A x, y \in Int : 0 + x * (y + 1) = x + x * y
          OBVIOUS
        <4>. QED  BY <3>1, <4>1, <4>2
      <3>. HIDE DEF sum, p, l, k
      <3>. QED  BY <3>3, <3>4, <3>5, <3>6 DEF HasRead
    <2>9. s \in D => Len(AtEnd(s).frames) = InDecoder(ist[s])
      <3>1. ASSUME s \in D PROVE Len(AtEnd(s).frames) = InDecoder(ist[s])
        <4>1. ~(InDecoder(ist[s]) > 1) /\ InDecoder(ist[s]) \in Nat
          BY <1>5, <1>7, <2>1, <3>1, CountTypes DEF InDecoder
        <4>2. ist[s].dec = <<>> => Len(AtEnd(s).frames) = 0 /\ InDecoder(ist[s]) = 0
          BY <2>1, AtEndCounts DEF InDecoder
        <4>3. ist[s].dec # <<>> => Len(AtEnd(s).frames) = 1 /\ InDecoder(ist[s]) # 0
          <5>1. ist[s].dec \in Seq(Frame)
            BY <2>3, InputFields
          <5>. QED  BY <2>1, <5>1, AtEndCounts, EmptySeq DEF InDecoder
        <4>. DEFINE x == InDecoder(ist[s])
                    y == Len(AtEnd(s).frames)
        <4>4. (y = 0 /\ x = 0) \/ (y = 1 /\ x # 0)
          <5>1. CASE ist[s].dec = <<>>
            <6>. HIDE DEF x, y
            <6>1. y = 0 /\ x = 0
              BY <4>2, <5>1 DEF x, y
            <6>. QED  BY <6>1
          <5>2. CASE ist[s].dec # <<>>
            <6>1. y = 1 /\ x # 0
              BY <4>3, <5>2
            <6>. QED  BY <6>1
          <5>. QED  BY <5>1, <5>2
        <4>5. ~(x > 1) /\ x \in Nat
          BY <4>1
        <4>. HIDE DEF x, y
        <4>6. y = x
          BY <4>4, <4>5
        <4>. QED  BY <4>6 DEF x, y
      <3>. QED  BY <3>1
    <2>. QED  BY <2>1, <2>2, <2>5, <2>6, <2>8, <2>9
  <1>12. ASSUME NEW s \in Streams, DecodingNeeded(s)
         PROVE  /\ Fed(s)' = Fed(s) + New(D, frames, s)
                /\ Drawn(s) => New(D, frames, s) = 0 /\ Drawn(s)'
                /\ s \in E => Drawn(s)'
    <2>1. CASE s \notin S
      <3>1. Unmoved(s) /\ New(D, frames, s) = 0
        BY <1>2, <1>10, <2>1 DEF New
      <3>2. Fed(s)' = Fed(s) /\ Fed(s) \in Int
        <4>1. InDecoder(ist[s])' = InDecoder(ist[s])
          BY <3>1 DEF Unmoved, InDecoder
        <4>. QED  BY <1>5, <3>1, <4>1, CountTypes DEF Unmoved, Fed
      <3>3. Drawn(s) => Drawn(s)'
        BY <3>1 DEF Drawn, Unmoved
      <3>4. Fed(s)' = Fed(s) + 0
        BY <3>2
      <3>. QED  BY <1>4, <3>1, <3>3, <3>4
    <2>2. CASE s \in S
      <3>1. s \in D
        BY <1>2, <1>12, <2>2
      <3>2. New(D, frames, s) = InDecoder(ist[s])
        BY <1>3, <1>11, <2>2, <3>1 DEF New
      <3>3. InDecoder(ist[s])' = 0
        BY <1>11, <2>2, <3>1 DEF InDecoder
      <3>4. HasRead(s)' = HasRead(s) /\ HasRead(s) \in Int /\ InDecoder(ist[s]) \in Nat
        BY <1>5, <1>11, <2>2, CountTypes
      <3>5. Fed(s)' = HasRead(s) - 0 /\ Fed(s) = HasRead(s) - InDecoder(ist[s])
        BY <3>3, <3>4 DEF Fed
      <3>6. Fed(s)' = Fed(s) + New(D, frames, s)
        BY <3>2, <3>4, <3>5
      <3>7. ~Drawn(s)
        BY <1>11, <2>2 DEF Drawn
      <3>. QED  BY <1>4, <3>6, <3>7
    <2>. QED  BY <2>1, <2>2
  <1>13. \A o \in Out : Alike(ost[o], ost'[o])
    BY <1>5, <1>7, FieldsAlike
  <1>14. ASSUME NEW o \in Encoded PROVE OutputAccount(o)'
    <2>1. \A s \in D : frames[s] \in Seq(Frame) /\ Len(frames[s]) \in {0, 1}
      BY <1>2, <1>3, <1>11, AtEndCounts
    <2>2. \A p \in Encoded : /\ GraphIs(p, Pushed(D, frames)[p], E \cap From(p))
                             /\ Alike(ost[p], ost'[p])
      BY <1>4, <1>7, <1>13 DEF GraphIs, Encoded
    <2>. QED  BY <1>5, <1>12, <2>1, <2>2, PushStepAccounts
  <1>15. ASSUME NEW o \in Out \ Encoded PROVE OutputAccount(o)'
    <2>1. Copied(o) /\ Copied(o)' /\ CopyAccount(o) /\ From(o) \subseteq Streams
          /\ From(o)' = From(o)
      BY <1>5, CountTypes DEF Encoded, Account, OutputAccount, Copied, From
    <2>2. ASSUME NEW s \in From(o)
          PROVE  /\ HasRead(s)' = HasRead(s) /\ (AtLast(s) => AtLast(s)')
                 /\ Ended(s)' => Ended(s)
      <3>1. s \in Streams
        BY <2>1
      <3>2. Ended(s)' => Ended(s)
        BY <1>5, <1>9, <3>1, StreamTypes DEF Ended, FileOf
      <3>3. CASE s \in S
        BY <1>11, <3>2, <3>3
      <3>4. CASE s \notin S
        BY <1>10, <3>1, <3>2, <3>4 DEF Unmoved
      <3>. QED  BY <3>3, <3>4
    <2>3. CopyAccount(o)'
      BY <1>7, <2>1, <2>2 DEF CopyAccount
    <2>. QED  BY <2>1, <2>3 DEF OutputAccount
  <1>16. PlaceAccount'
    <2>1. ASSUME NEW s \in StreamsOf(src)
          PROVE  ~Ended(s)' /\ Looped(s)' > 0 /\ (DecodingNeeded(s) => ist'[s].dec = <<>>)
      <3>1. s \in S /\ s \in Streams /\ FileOf(s) = src /\ FileOf(s)' = src /\ src \in Files
        BY <1>1, <1>5, StreamTypes DEF FileOf, StreamsOf
      <3>2. ~Ended(s)'
        <4>1. ~Ended(s)
          BY <1>5, <1>7 DEF Account, PlaceAccount, SourceAccount
        <4>. QED  BY <1>9, <3>1, <4>1 DEF Ended
      <3>3. Looped(s)' > 0
        <4>1. FileTyped(src) /\ Looped(s) \in Nat /\ Looped(s)' = Looped(s)
          BY <1>5, <3>1, CountTypes DEF Accounted, FilesTyped, Looped
        <4>. QED  BY <1>7, <3>1, <4>1 DEF FileTyped, Looped, FileOf
      <3>4. DecodingNeeded(s) => ist'[s].dec = <<>>
        BY <1>2, <1>11, <3>1
      <3>. QED  BY <3>2, <3>3, <3>4
    <2>2. StreamsOf(src)' = StreamsOf(src) /\ \A s : DecodingNeeded(s)' = DecodingNeeded(s)
      BY SameConversion DEF SeekToStart, StreamsOf, Streams, DecodingNeeded, Encoded, Out,
         Copied, From
    <2>. QED  BY <1>7, <2>1, <2>2 DEF PlaceAccount, SourceAccount
  <1>. QED  BY <1>5, <1>14, <1>15, <1>16 DEF OutputsAccounted
-----------------------------------------------------------------------------
(* A graph gives a frame *)

LEMMA MixStays ==
    ASSUME conv' = conv, NEW o \in Encoded, MixAccount(o), Mixed(o)' = Mixed(o),
           \A s \in From(o) : Unmoved(s),
           graph[o].closed \subseteq From(o),
           graph'[o].queue = graph[o].queue, graph'[o].closed = graph[o].closed,
           graph'[o].eof => /\ graph[o].closed = From(o) /\ graph'[o].held = <<>>
                            /\ \A s \in From(o) : graph[o].queue[s] = <<>>
    PROVE  MixAccount(o)'
  <1>1. From(o)' = From(o)
    BY DEF From
  <1>2. ASSUME NEW s \in From(o)
        PROVE  Fed(s)' = Fed(s) /\ Queued(graph[o], s)' = Queued(graph[o], s)
               /\ Queued(graph'[o], s) = Queued(graph[o], s) /\ Level(o, s)' = Level(o, s)
    <2>1. InDecoder(ist[s])' = InDecoder(ist[s])
      BY DEF Unmoved, InDecoder
    <2>2. Fed(s)' = Fed(s)
      BY <2>1 DEF Unmoved, Fed
    <2>3. Queued(graph[o], s)' = Queued(graph[o], s)
          /\ Queued(graph'[o], s) = Queued(graph[o], s)
      BY DEF Queued
    <2>. QED  BY <2>2, <2>3 DEF Level
  <1>3. \A s \in graph[o].closed : Drawn(s)'
    BY DEF MixAccount, Drawn, Unmoved
  <1>. QED  BY <1>1, <1>2, <1>3 DEF MixAccount

LEMMA MixStepKeepsMix ==
    ASSUME Accounted, conv' = conv, NEW o \in Encoded, MixAccount(o),
           \A s \in From(o) : Unmoved(s), ost'[o].taken = ost[o].taken,
           Starved(o) = {}, Waiting(o) # {}, graph'[o] = Mix(o)
    PROVE  MixAccount(o)'
  <1>. DEFINE g == graph[o]
              h == graph'[o]
  <1>1. StampInv /\ conv \in Conversions /\ GraphsTimed
    BY DEF Accounted, StampInv, InputSide
  <1>2. /\ h.closed = g.closed /\ h.eof = g.eof
        /\ Pieces(h) = Pieces(g) + 1
        /\ \A s \in Waiting(o) : Queued(h, s) = Queued(g, s) - 1
        /\ \A s \in From(o) \ Waiting(o) : h.queue[s] = g.queue[s]
    <2>1. h = Mix(o)
      OBVIOUS
    <2>. HIDE DEF h
    <2>. QED  BY <1>1, <2>1, MixCounts
  <1>3. /\ ost[o].taken \in Int /\ Pieces(g) \in Nat /\ Mixed(o) \in Int
        /\ \A s \in From(o) : Queued(g, s) \in Nat /\ Fed(s) \in Int
        /\ g.closed \subseteq From(o)
    <2>1. g.closed \subseteq From(o)
      BY <1>1, GraphFields DEF GraphsTimed
    <2>. QED  BY <1>1, <2>1, CountTypes DEF Encoded
  <1>4. Mixed(o)' = Mixed(o) + 1
    <2>1. Pieces(graph[o])' = Pieces(h)
      BY DEF Pieces, InSink, HeldBack
    <2>2. Mixed(o)' = ost[o].taken + Pieces(h) /\ Mixed(o) = ost[o].taken + Pieces(g)
      BY <2>1 DEF Mixed
    <2>. QED  BY <1>2, <1>3, <2>2
  <1>5. From(o)' = From(o)
    BY DEF From
  <1>6. ASSUME NEW s \in From(o) PROVE Fed(s)' = Fed(s)
    <2>1. InDecoder(ist[s])' = InDecoder(ist[s])
      BY DEF Unmoved, InDecoder
    <2>. QED  BY <2>1 DEF Unmoved, Fed
  <1>7. ASSUME NEW s \in From(o)
        PROVE  Queued(graph[o], s)' = Queued(h, s)
    BY DEF Queued
  <1>8. ASSUME NEW s \in Waiting(o)
        PROVE  Level(o, s)' /\ (Fed(s) - Queued(g, s))' <= Mixed(o)'
    <2>1. s \in From(o) /\ g.queue[s] # <<>>
      BY DEF Waiting
    <2>2. Level(o, s)
      BY <2>1 DEF MixAccount
    <2>. DEFINE a == Fed(s)
                b == Queued(g, s)
                c == Mixed(o)
    <2>3. a \in Int /\ b \in Int /\ c \in Int /\ a - b = c
      BY <1>3, <2>1, <2>2 DEF Level
    <2>4. Fed(s)' = a /\ Queued(graph[o], s)' = b - 1 /\ Mixed(o)' = c + 1
      BY <1>2, <1>4, <1>6, <1>7, <2>1
    <2>. HIDE DEF a, b, c
    <2>5. a - (b - 1) = c + 1 /\ a - (b - 1) <= c + 1
      BY <2>3
    <2>. QED  BY <2>4, <2>5 DEF Level
  <1>9. ASSUME NEW s \in From(o) \ Waiting(o)
        PROVE  /\ s \in h.closed /\ h.queue[s] = <<>>
               /\ (Fed(s) - Queued(g, s))' <= Mixed(o)'
    <2>1. s \in g.closed /\ g.queue[s] = <<>>
      BY DEF Waiting, Starved
    <2>. DEFINE a == Fed(s)
                b == Queued(g, s)
                c == Mixed(o)
    <2>2. a \in Int /\ b \in Int /\ c \in Int /\ a - b <= c
      BY <1>3 DEF MixAccount
    <2>3. h.queue[s] = <<>>
      BY <1>2, <2>1
    <2>4. Queued(h, s) = b
      BY <2>1, <2>3 DEF Queued
    <2>5. Fed(s)' = a /\ Queued(graph[o], s)' = b /\ Mixed(o)' = c + 1
      BY <1>4, <1>6, <1>7, <2>4
    <2>. HIDE DEF a, b, c
    <2>6. a - b <= c + 1
      BY <2>2
    <2>. QED  BY <1>2, <2>1, <2>3, <2>5, <2>6
  <1>10. PICK w \in Waiting(o) : w \in From(o) /\ g.queue[w] # <<>>
    BY DEF Waiting
  <1>11. ~h.eof
    BY <1>2, <1>10 DEF MixAccount
  <1>12. \A s \in h.closed : Drawn(s)'
    BY <1>2, <1>3 DEF MixAccount, Drawn, Unmoved
  <1>13. \A s \in From(o) : /\ (Fed(s) - Queued(g, s))' <= Mixed(o)'
                            /\ s \notin h.closed \/ h.queue[s] # <<>> => Level(o, s)'
    BY <1>8, <1>9
  <1>14. \E s \in From(o) : Level(o, s)'
    BY <1>8, <1>10
  <1>. QED  BY <1>5, <1>11, <1>12, <1>13, <1>14 DEF MixAccount

LEMMA FilterGivesAccounts ==
    ASSUME Accounted, [Next]_vars, conv' = conv, Clear', FilterGives
    PROVE  OutputsAccounted' /\ PlaceAccount'
  <1>0. PICK o : o = cur
    OBVIOUS
  <1>1. /\ StampInv /\ conv \in Conversions /\ ost \in [Out -> OutputState]
        /\ Account /\ Out' = Out /\ Encoded' = Encoded /\ GraphsTimed /\ GraphsTimed'
        /\ PlaceTyped
    <2>1. StampInv'
      BY StampInvNext DEF Accounted
    <2>. QED  BY <2>1, SameConversion
         DEF Accounted, StampInv, OutputSide, OutputsTimed, InputSide
  <1>2. /\ pc = "filter" /\ pc' = "reap" /\ at' = 1 /\ cur' = o /\ ost' = ost /\ ist' = ist
        /\ o \in Encoded /\ o \in Out /\ Starved(o) = {}
    BY <1>0, <1>1 DEF FilterGives, Reap, PlaceTyped, Encoded
  <1>3. /\ \A s \in Streams : Unmoved(s)
        /\ \A p \in Out : Alike(ost[p], ost'[p]) /\ ost'[p].taken = ost[p].taken
        /\ file' = file
    <2>1. \A p \in Out : Alike(ost[p], ost'[p])
      BY <1>1, <1>2, FieldsAlike
    <2>2. file' = file
      BY DEF FilterGives
    <2>. QED  BY <1>1, <1>2, <2>1, <2>2, NothingRead DEF Alike
  <1>4. From(o) \subseteq Streams /\ \A s \in From(o) : Unmoved(s)
    BY <1>1, <1>2, <1>3, CountTypes
  <1>. DEFINE g == graph[o]
              h == graph'[o]
  <1>5. /\ g \in GraphState(o) /\ DOMAIN graph = Encoded /\ g.closed \subseteq From(o)
    <2>1. g \in GraphState(o) /\ DOMAIN graph = Encoded
      BY <1>1, <1>2 DEF GraphsTimed
    <2>. QED  BY <2>1, GraphFields
  <1>6. \A p \in Encoded : p # o => graph'[p] = graph[p]
    BY <1>0, <1>5 DEF FilterGives
  <1>7. \/ Waiting(o) # {} /\ h = Mix(o) /\ flush' = FALSE
        \/ /\ Waiting(o) = {} /\ g.held # <<>>
           /\ h = [g EXCEPT !.sink = @ \o g.held, !.held = <<>>] /\ flush' = FALSE
        \/ /\ Waiting(o) = {} /\ g.held = <<>>
           /\ h = [g EXCEPT !.eof = TRUE] /\ flush' = TRUE
    BY <1>0, <1>2, <1>5 DEF FilterGives, Reap
  <1>8. PlaceAccount'
    <2>1. flush' => h.eof
      BY <1>5, <1>7 DEF GraphState
    <2>2. Encoded \subseteq Nat \ {0}
      BY <1>1, ConversionDomains DEF Encoded
    <2>3. \A p \in Encoded : ~(p < 1)
      BY <2>2
    <2>. QED  BY <1>1, <1>2, <2>1, <2>3 DEF PlaceAccount, SourceAccount
  <1>9. ASSUME NEW p \in Out, p # o PROVE OutputAccount(p)'
    <2>1. OutputAccount(p) /\ From(p) \subseteq Streams
      BY <1>1, CountTypes DEF Account
    <2>2. p \in Encoded => graph'[p] = graph[p]
      BY <1>6, <1>9
    <2>3. \A s \in From(p) : Unmoved(s) /\ (Ended(s)' => Ended(s))
      BY <1>3, <2>1 DEF Ended, FileOf
    <2>. QED  BY <1>1, <1>3, <2>1, <2>2, <2>3, OutputKept
  <1>10. ASSUME MixAccount(o) PROVE MixAccount(o)'
    <2>1. CASE Waiting(o) # {} /\ h = Mix(o)
      BY <1>2, <1>3, <1>4, <1>10, <2>1, MixStepKeepsMix
    <2>2. CASE /\ Waiting(o) = {} /\ g.held # <<>>
               /\ h = [g EXCEPT !.sink = @ \o g.held, !.held = <<>>]
      <3>1. /\ h.queue = g.queue /\ h.closed = g.closed /\ h.eof = g.eof
            /\ h.held = <<>> /\ h.sink = g.sink \o g.held
        BY <1>5, <2>2 DEF GraphState
      <3>2. Pieces(h) = Pieces(g)
        <4>1. g.sink \in Seq(Frame) /\ g.held \in Seq(Frame)
          BY <1>5, GraphFields
        <4>2. Len(g.sink \o g.held) = Len(g.sink) + Len(g.held)
          <5>. HIDE DEF g
          <5>. QED  BY <4>1, ConcatProperties
        <4>3. InSink(h) = InSink(g) + HeldBack(g) /\ HeldBack(h) = 0
          BY <3>1, <4>2 DEF InSink, HeldBack
        <4>4. InSink(g) \in Nat /\ HeldBack(g) \in Nat
          BY <1>5, PiecesTyped
        <4>5. InSink(g) + HeldBack(g) + 0 = InSink(g) + HeldBack(g)
          BY <4>4
        <4>. QED  BY <4>3, <4>5 DEF Pieces
      <3>3. Mixed(o)' = Mixed(o)
        <4>1. Pieces(graph[o])' = Pieces(h)
          BY DEF Pieces, InSink, HeldBack
        <4>. QED  BY <1>2, <1>3, <3>2, <4>1 DEF Mixed
      <3>4. ~h.eof
        BY <1>10, <2>2, <3>1 DEF MixAccount
      <3>. QED  BY <1>2, <1>4, <1>5, <1>10, <3>1, <3>3, <3>4, MixStays
    <2>3. CASE /\ Waiting(o) = {} /\ g.held = <<>> /\ h = [g EXCEPT !.eof = TRUE]
      <3>1. /\ h.queue = g.queue /\ h.closed = g.closed /\ h.held = g.held /\ h.sink = g.sink
        BY <1>5, <2>3 DEF GraphState
      <3>2. Mixed(o)' = Mixed(o)
        <4>1. Pieces(graph[o])' = Pieces(g)
          BY <3>1 DEF Pieces, InSink, HeldBack
        <4>. QED  BY <1>2, <1>3, <4>1 DEF Mixed
      <3>3. \A s \in From(o) : g.queue[s] = <<>>
        BY <2>3 DEF Waiting
      <3>4. g.closed = From(o)
        BY <1>2, <1>5, <3>3 DEF Starved
      <3>. QED  BY <1>2, <1>4, <1>5, <1>10, <2>3, <3>1, <3>2, <3>3, <3>4, MixStays
    <2>. QED  BY <1>7, <2>1, <2>2, <2>3
  <1>11. OutputAccount(o)'
    <2>1. /\ ~Copied(o) /\ ~Copied(o)' /\ EncodedAccount(o) /\ Video(o)' = Video(o)
      BY <1>1, <1>2 DEF Encoded, Account, OutputAccount, Copied, Video
    <2>2. CASE ost[o].finished # {}
      <3>1. \A s \in From(o) : Drawn(s) => Drawn(s)' /\ Fed(s)' = Fed(s)
        BY <1>4 DEF Unmoved, Drawn, Fed, InDecoder
      <3>. QED  BY <1>2, <1>3, <2>1, <2>2, <3>1, DoneKept DEF OutputAccount
    <2>3. CASE ost[o].finished = {}
      <3>1. MixAccount(o)'
        BY <1>10, <2>1, <2>3 DEF EncodedAccount
      <3>2. Coded(ost[o])' = Coded(ost[o])
        BY <1>2 DEF Coded, Written, InEncoder
      <3>. QED  BY <1>2, <2>1, <2>3, <3>1, <3>2 DEF OutputAccount, EncodedAccount
    <2>. QED  BY <2>2, <2>3
  <1>. QED  BY <1>1, <1>8, <1>9, <1>11 DEF OutputsAccounted
-----------------------------------------------------------------------------
(* A packet is read, or copied *)

LEMMA ReadAccounts ==
    ASSUME Accounted, [Next]_vars, conv' = conv, Clear', ReadPacket
    PROVE  OutputsAccounted' /\ PlaceAccount'
  <1>. DEFINE p(s) == conv.inputs[s].packets[ist[s].pos + 1]
  <1>1. PICK s \in StreamsOf(src) :
          LET c == Corrected(s, p(s))
          IN /\ pc \in {"input", "again"} /\ ist[s].pos < Len(conv.inputs[s].packets)
             /\ pkt' = [c.packet EXCEPT !.stream = s]
             /\ ist' = [ist EXCEPT ![s].pos = @ + 1,
                  ![s].max_pts = IF c.range = NoPts THEN @ ELSE Larger(c.range, @),
                  ![s].min_pts = IF c.range = NoPts THEN @ ELSE Smaller(c.range, @)]
             /\ ost' = Available(ost)
             /\ pc' = "packet" /\ graph' = graph
    BY DEF ReadPacket
  <1>. DEFINE c == Corrected(s, p(s))
              r == ist[s]
  <1>2. /\ StampInv /\ conv \in Conversions /\ FilesTimed /\ InputsTimed
        /\ s \in Streams /\ r \in InputState /\ ost \in [Out -> OutputState]
    <2>1. s \in Streams
      BY <1>1 DEF StreamsOf
    <2>. QED  BY <2>1 DEF Accounted, StampInv, InputSide, InputsTimed, OutputSide, OutputsTimed
  <1>3. p(s) \in Packet
    <2>1. conv.inputs[s].packets \in Seq(Packet) /\ r.pos \in Nat
      BY <1>2, StreamTypes, InputFields
    <2>2. r.pos < Len(conv.inputs[s].packets)
      BY <1>1
    <2>3. r.pos + 1 \in 1..Len(conv.inputs[s].packets)
      BY <2>1, <2>2
    <2>. QED  BY <2>1, <2>3, ElementOfSeq
  <1>4. c.packet \in Packet
    <2>. HIDE DEF p
    <2>. QED  BY <1>2, <1>3, CorrectedTimed
  <1>5. /\ pkt' = [c.packet EXCEPT !.stream = s]
        /\ ist' = [ist EXCEPT ![s].pos = @ + 1,
              ![s].max_pts = IF c.range = NoPts THEN @ ELSE Larger(c.range, @),
              ![s].min_pts = IF c.range = NoPts THEN @ ELSE Smaller(c.range, @)]
        /\ ost' = Available(ost) /\ pc' = "packet" /\ graph' = graph
        /\ pc \in {"input", "again"} /\ ist[s].pos < Len(conv.inputs[s].packets)
    BY <1>1
  <1>. HIDE DEF c
  <1>6. pkt'.stream = s
    BY <1>2, <1>4, <1>5 DEF Packet
  <1>7. ist'[s].pos = ist[s].pos + 1 /\ ist'[s].dec = ist[s].dec
        /\ \A t \in Streams : t # s => ist'[t] = ist[t]
    <2>. DEFINE a == IF c.range = NoPts THEN r.max_pts ELSE Larger(c.range, r.max_pts)
                b == IF c.range = NoPts THEN r.min_pts ELSE Smaller(c.range, r.min_pts)
                n == r.pos + 1
                e == [r EXCEPT !.pos = n, !.max_pts = a, !.min_pts = b]
    <2>1. ist' = [ist EXCEPT ![s] = e]
      BY <1>5
    <2>2. e.pos = n /\ e.dec = r.dec
      <3>. HIDE DEF a, b, n, r
      <3>. QED  BY <1>2 DEF InputState
    <2>. HIDE DEF e
    <2>. QED  BY <1>2, <2>1, <2>2 DEF InputsTimed
  <1>8. ASSUME NEW t \in Streams PROVE Unmoved(t)
    <2>1. FileOf(t) \in Files
      BY <1>2, CountTypes
    <2>2. ~SeekToStart
      BY <1>5 DEF SeekToStart
    <2>3. FileKept(FileOf(t))
      BY <1>2, <2>1, <2>2, FilesKept
    <2>4. CASE t # s
      <3>1. InFlight(t) = 0 /\ InFlight(t)' = 0
        BY <1>5, <1>6, <2>4 DEF InFlight
      <3>. QED  BY <1>7, <2>3, <2>4, <3>1, StreamUnmoved
    <2>5. CASE t = s
      <3>1. InFlight(s) = 0 /\ InFlight(s)' = 1
        BY <1>5, <1>6 DEF InFlight
      <3>2. Read(s)' = Read(s) + 1
        <4>. DEFINE n == Given(s) * (Looped(s) - file[FileOf(s)].loop)
        <4>1. n \in Int /\ ist[s].pos \in Nat
          <5>1. Given(s) \in Int /\ Looped(s) - file[FileOf(s)].loop \in Int
            BY <1>2, CountTypes
          <5>2. \A x, y \in Int : x * y \in Int
            OBVIOUS
          <5>. QED  BY <1>2, <5>1, <5>2, CountTypes
        <4>2. n' = n
          BY <2>3, <2>5 DEF FileKept, FileOf, Given, Looped
        <4>3. Read(s) = ist[s].pos + n
          BY DEF Read, FileOf
        <4>4. Read(s)' = ist'[s].pos + n'
          BY DEF Read, FileOf
        <4>. HIDE DEF n
        <4>. QED  BY <1>7, <4>1, <4>2, <4>3, <4>4
      <3>3. HasRead(s)' = HasRead(s)
        <4>1. Read(s) \in Int
          BY <1>2, CountTypes
        <4>. QED  BY <3>1, <3>2, <4>1 DEF HasRead
      <3>4. ~AtLast(s)
        <4>1. Given(s) \in Nat /\ ist[s].pos \in Nat
          BY <1>2, CountTypes
        <4>2. ~Ended(s)
          BY <1>1, <1>5 DEF Accounted, Account, PlaceAccount, SourceAccount
        <4>. QED  BY <1>5, <4>1, <4>2 DEF AtLast, Given
      <3>. QED  BY <1>7, <2>5, <3>3, <3>4 DEF Unmoved
    <2>. QED  BY <2>4, <2>5
  <1>9. \A o \in Out : Alike(ost[o], ost'[o])
    BY <1>2, <1>5, FieldsAlike DEF Available
  <1>10. OutputsAccounted'
    BY <1>2, <1>5, <1>8, <1>9, AllKept, EndsStayWhen
  <1>. QED  BY <1>5, <1>10 DEF PlaceAccount, SourceAccount
-----------------------------------------------------------------------------
\* No time is over, and no output is full.
LEMMA NoLimits ==
    ASSUME Accounted, conv' = conv, Clear'
    PROVE  /\ \A o \in Out : /\ recording_time[OutFile(o)] = NoLimit
                             /\ ost'[o].frame_number < conv.outputs[o].max_frames
           /\ trouble' = "none" /\ trouble = "none" /\ Out' = Out
  <1>1. conv \in Conversions /\ NoTimes /\ TimesTyped
    BY DEF Accounted, StampInv, Account
  <1>2. Out' = Out
    BY SameConversion
  <1>3. \A o \in Out : OutFile(o) \in DOMAIN recording_time
    BY <1>1 DEF TimesTyped
  <1>4. \A o \in Out : ost'[o].frame_number < conv.outputs[o].max_frames
    BY <1>2 DEF Clear, Unlimited
  <1>. QED  BY <1>1, <1>2, <1>3, <1>4 DEF NoTimes, Clear, Accounted

LEMMA StreamCopyCounts ==
    ASSUME Accounted, conv' = conv, Clear', NEW o \in Out, Copied(o),
           NEW i \in InputState, NEW p \in Packet, StreamCopy(o, i, p)
    PROVE  /\ \A x \in Out \ {o} : ost'[x] = ost[x]
           /\ ost'[o].finished = ost[o].finished /\ InEncoder(ost'[o]) = InEncoder(ost[o])
           /\ Written(ost'[o]) = Written(ost[o]) + 1
  <1>. DEFINE audio == ~Video(o) /\ p.dts # NoPts
              a == IF p.dts = NoPts THEN i.dts ELSE p.dts
              b == IF audio THEN p.dts ELSE p.pts
              packet == [dts |-> a, pts |-> b]
              stepped == [ost[o] EXCEPT !.sync_opts = @ + 1]
              moved == IF Video(o) THEN With(ost, o, stepped) ELSE ost
              m == ost[o].passed + 1
              more == [ost[o] EXCEPT !.passed = m]
  <1>1. ost \in [Out -> OutputState] /\ ost[o] \in OutputState
        /\ conv \in Conversions /\ ost[o].muxed \in Int /\ ost[o].passed \in Int
    <2>1. ost \in [Out -> OutputState] /\ conv \in Conversions
      BY DEF Accounted, StampInv, OutputSide, OutputsTimed
    <2>. QED  BY <2>1, OutputFields
  <1>2. packet \in [pts : Int, dts : Int]
    <2>1. a \in Int /\ b \in Int
      BY InputFields, PacketFields
    <2>. HIDE DEF a, b
    <2>. QED  BY <2>1
  <1>3. stepped \in OutputState /\ Alike(ost[o], stepped)
    <2>1. ost[o].sync_opts + 1 \in Int
      BY <1>1, OutputFields
    <2>. QED  BY <1>1, <2>1, SyncOptsTimed, FieldsAlike
  <1>4. ~TooLate(o, i)
    BY NoLimits DEF TooLate
  <1>5. CASE ost' = With(ost, o, more)
    <2>1. more.finished = ost[o].finished /\ more.muxed = ost[o].muxed /\ more.passed = m
          /\ InEncoder(more) = InEncoder(ost[o])
      <3>. HIDE DEF m
      <3>. QED  BY <1>1 DEF OutputState, InEncoder
    <2>2. Written(more) = Written(ost[o]) + 1
      <3>. HIDE DEF more
      <3>. QED  BY <1>1, <2>1 DEF Written
    <2>. HIDE DEF more
    <2>3. ost'[o] = more /\ \A x \in Out \ {o} : ost'[x] = ost[x]
      BY <1>5 DEF With
    <2>. QED  BY <2>1, <2>2, <2>3
  <1>6. CASE write_frame(o, packet, moved)
    <2>. HIDE DEF stepped
    <2>1. moved \in [Out -> OutputState] /\ Alike(ost[o], moved[o])
          /\ \A x \in Out \ {o} : moved[x] = ost[x]
      BY <1>1, <1>3, FieldsAlike DEF With
    <2>. HIDE DEF packet, moved
    <2>2. /\ \A x \in Out \ {o} : ost'[x] = moved[x]
          /\ ost'[o].finished = moved[o].finished /\ ost'[o].enc = moved[o].enc
          /\ Written(ost'[o]) = Written(moved[o]) + 1
      BY <1>1, <1>2, <1>6, <2>1, NoLimits, WriteCounts
    <2>. QED  BY <2>1, <2>2 DEF Alike, InEncoder, Written
  <1>. QED  BY <1>4, <1>5, <1>6 DEF StreamCopy

LEMMA CopyAccounts ==
    ASSUME Accounted, [Next]_vars, conv' = conv, Clear', CopyPacket
    PROVE  OutputsAccounted' /\ PlaceAccount'
  <1>0. PICK s : s = pkt.stream
    OBVIOUS
  <1>. DEFINE j == Seen(s, pkt, ist[s])
              i == Passed(s, pkt)
              copies == CopiesNow(s)
  <1>1. /\ StampInv /\ conv \in Conversions /\ InputsTimed /\ PacketTimed
        /\ ost \in [Out -> OutputState] /\ OutputsAccounted /\ Out' = Out
    BY SameConversion DEF Accounted, StampInv, InputSide, OutputSide,
                 OutputsTimed, Account, OutputsAccounted
  <1>2. /\ pc = "packet" /\ pc' = "reap" /\ at' = 1 /\ flush' = FALSE
        /\ file' = file /\ graph' = graph /\ ~DecodingNeeded(s)
        /\ ist' = [ist EXCEPT ![s] = i]
        /\ IF copies = {} THEN ost' = ost ELSE StreamCopy(Min(copies), i, pkt)
    BY <1>0 DEF CopyPacket, Reap
  <1>3. s \in Streams /\ pkt \in Packet /\ ist[s] \in InputState
    BY <1>0, <1>1, <1>2 DEF PacketTimed, InputsTimed
  <1>4. i \in InputState /\ i.pos = ist[s].pos /\ i.dec = ist[s].dec
    <2>1. j \in InputState /\ j.pos = ist[s].pos /\ j.dec = ist[s].dec
      BY <1>1, <1>3, SeenTimed, SeenFits
    <2>. HIDE DEF j
    <2>2. i = Passing(s, j, pkt)
      BY DEF Passed, j
    <2>. HIDE DEF i
    <2>. QED  BY <1>1, <1>3, <2>1, <2>2, PassingTimed, PassingFits
  <1>. HIDE DEF i
  <1>5. ist'[s] = i /\ \A t \in Streams : t # s => ist'[t] = ist[t]
    BY <1>1, <1>2, <1>3 DEF InputsTimed
  <1>6. ASSUME NEW t \in Streams, t # s PROVE Unmoved(t)
    <2>1. FileKept(FileOf(t))
      BY <1>2 DEF FileKept
    <2>2. InFlight(t) = 0 /\ InFlight(t)' = 0
      BY <1>0, <1>2, <1>6 DEF InFlight
    <2>. QED  BY <1>5, <1>6, <2>1, <2>2, StreamUnmoved
  <1>7. InFlight(s) = 1 /\ InFlight(s)' = 0 /\ ~AtLast(s)
    BY <1>0, <1>2 DEF AtLast, InFlight
  <1>8. HasRead(s)' = HasRead(s) + 1
    <2>1. Read(s)' = Read(s)
      BY <1>2, <1>4, <1>5 DEF Read, Given, Looped
    <2>2. Read(s) \in Int
      BY <1>1, <1>3, CountTypes
    <2>. QED  BY <1>7, <2>1, <2>2 DEF HasRead
  <1>9. copies \in SUBSET Out
    BY DEF CopiesNow, CopiesOf
  <1>10. ASSUME NEW o \in Out, s \in From(o)
         PROVE  Copied(o) /\ From(o) = {s} /\ ost[o].finished = {} /\ o \in copies
    <2>1. Copied(o)
      BY <1>2, <1>10 DEF DecodingNeeded, Encoded
    <2>2. From(o) = {s}
      BY <1>1, <1>10, <2>1, CopiedAlone
    <2>3. ost[o].finished = {}
      BY <1>1, <1>7, <1>10, <2>1 DEF OutputsAccounted, OutputAccount, CopyAccount
    <2>. QED  BY <2>1, <2>2, <2>3 DEF CopiesNow, CopiesOf
  <1>11. PlaceAccount'
    BY <1>1, <1>2, ReapStarts
  <1>12. ASSUME NEW o \in Out, s \notin From(o), ost'[o] = ost[o]
         PROVE  OutputAccount(o)'
    <2>1. \A t \in From(o) : Unmoved(t) /\ (Ended(t)' => Ended(t))
      BY <1>1, <1>2, <1>6, <1>12, CountTypes DEF Ended, FileOf
    <2>2. Alike(ost[o], ost'[o])
      BY <1>1, <1>12, FieldsAlike
    <2>3. OutputAccount(o)
      BY <1>1 DEF OutputsAccounted
    <2>. QED  BY <1>1, <1>2, <2>1, <2>2, <2>3, OutputKept
  <1>13. CASE copies = {}
    <2>1. ASSUME NEW o \in Out PROVE OutputAccount(o)'
      <3>1. s \notin From(o)
        BY <1>10, <1>13
      <3>. QED  BY <1>2, <1>12, <1>13, <3>1
    <2>. QED  BY <1>1, <1>11, <2>1 DEF OutputsAccounted
  <1>14. CASE copies # {}
    <2>. DEFINE m == Min(copies)
    <2>1. m \in copies
      <3>. HIDE DEF copies
      <3>. QED  BY <1>1, <1>9, <1>14, FirstOutput
    <2>2. PICK o : o = m
      OBVIOUS
    <2>3. /\ o \in Out /\ Copied(o) /\ From(o) \subseteq {s} /\ ost[o].finished = {}
          /\ StreamCopy(o, i, pkt)
      BY <1>2, <1>14, <2>1, <2>2 DEF CopiesNow, CopiesOf
    <2>. HIDE DEF copies, m
    <2>4. From(o) = {s}
      <3>1. From(o) # {}
        BY <1>1, <2>3, ConversionsAssumption DEF Out, From
      <3>. QED  BY <2>3, <3>1
    <2>5. /\ \A x \in Out \ {o} : ost'[x] = ost[x]
          /\ ost'[o].finished = {} /\ InEncoder(ost'[o]) = InEncoder(ost[o])
          /\ Written(ost'[o]) = Written(ost[o]) + 1
      BY <1>3, <1>4, <2>3, StreamCopyCounts
    <2>6. ASSUME NEW x \in Out, x # o PROVE OutputAccount(x)'
      <3>1. s \notin From(x)
        BY <1>1, <2>3, <2>4, <2>6, CopiedAlone
      <3>. QED  BY <1>12, <2>5, <2>6, <3>1
    <2>7. OutputAccount(o)'
      <3>1. From(o)' = {s} /\ Copied(o)'
        BY <2>3, <2>4 DEF From, Copied
      <3>2. Written(ost[o]) = HasRead(s) /\ InEncoder(ost[o]) = 0 /\ ~Ended(s)
        BY <1>1, <2>3, <2>4 DEF OutputsAccounted, OutputAccount, CopyAccount
      <3>3. Written(ost[o])' = HasRead(s)' /\ ~Ended(s)'
        BY <1>2, <1>8, <2>5, <3>2 DEF Written, Ended, FileOf
      <3>. QED  BY <2>5, <3>1, <3>2, <3>3 DEF OutputAccount, CopyAccount, InEncoder
    <2>. QED  BY <1>1, <1>11, <2>6, <2>7 DEF OutputsAccounted
  <1>. QED  BY <1>13, <1>14
-----------------------------------------------------------------------------
(* A frame is reaped *)

\* An audio frame goes into its encoder.
LEMMA AudioOutCounts ==
    ASSUME Accounted, conv' = conv, Clear', NEW o \in Out, ~Video(o),
           NEW frame \in Frame, do_audio_out(o, frame)
    PROVE  /\ \A x \in Out \ {o} : ost'[x] = ost[x]
           /\ ost'[o].finished = ost[o].finished
           /\ ost'[o].taken = ost[o].taken + 1
           /\ Coded(ost'[o]) = Coded(ost[o]) + 1
  <1>. DEFINE n == frame.pts + frame.dur
              k == ost[o].taken + 1
              st == [ost EXCEPT ![o].sync_opts = n, ![o].taken = k]
              r == [ost[o] EXCEPT !.sync_opts = n, !.taken = k]
  <1>1. /\ ost \in [Out -> OutputState] /\ ost[o] \in OutputState /\ conv \in Conversions
        /\ ost[o].taken \in Int
    <2>1. ost \in [Out -> OutputState] /\ conv \in Conversions
      BY DEF Accounted, StampInv, OutputSide, OutputsTimed
    <2>. QED  BY <2>1, CountTypes DEF Accounted
  <1>2. frame.pts \in Int /\ frame.dur \in Int /\ n \in Int /\ k \in Int
    BY <1>1 DEF Frame
  <1>3. ~RecordingTimeOver(o)
    BY NoLimits DEF RecordingTimeOver
  <1>4. Encode(o, frame.pts, st)
    BY <1>3 DEF do_audio_out
  <1>5. st = [ost EXCEPT ![o] = r]
    BY <1>1
  <1>6. r \in OutputState
    <2>. HIDE DEF n, k
    <2>. QED  BY <1>1, <1>2 DEF OutputState
  <1>7. /\ r.finished = ost[o].finished /\ r.passed = ost[o].passed
        /\ r.muxed = ost[o].muxed /\ r.enc = ost[o].enc /\ r.taken = k
    <2>. HIDE DEF n, k
    <2>. QED  BY <1>1 DEF OutputState
  <1>. HIDE DEF st, r
  <1>8. st \in [Out -> OutputState] /\ st[o] = r /\ \A x \in Out \ {o} : st[x] = ost[x]
    BY <1>1, <1>5, <1>6
  <1>9. /\ \A x \in Out \ {o} : ost'[x] = st[x]
        /\ ost'[o].finished = st[o].finished /\ ost'[o].taken = st[o].taken
        /\ Coded(ost'[o]) = Coded(st[o]) + 1
    BY <1>1, <1>2, <1>4, <1>8, NoLimits, EncodeCounts
  <1>10. Coded(st[o]) = Coded(ost[o])
    BY <1>7, <1>8 DEF Coded, Written, InEncoder
  <1>. QED  BY <1>7, <1>8, <1>9, <1>10

LEMMA ReapFrameAccounts ==
    ASSUME Accounted, [Next]_vars, conv' = conv, Clear', ReapFrame
    PROVE  OutputsAccounted' /\ PlaceAccount'
  <1>0. PICK o : o = at
    OBVIOUS
  <1>1. /\ StampInv /\ conv \in Conversions /\ ost \in [Out -> OutputState] /\ OutputsTimed
        /\ Account /\ Out' = Out /\ Encoded' = Encoded /\ GraphsTimed /\ PlaceTyped
    BY SameConversion DEF Accounted, StampInv, OutputSide, OutputsTimed, InputSide
  <1>. DEFINE g == graph[o]
              h == graph'[o]
  <1>01. PICK frame : frame = Head(g.sink)
    OBVIOUS
  <1>2. /\ pc = "reap" /\ o \in Encoded /\ o \in Out /\ ~Copied(o) /\ g.sink # <<>>
        /\ ist' = ist /\ file' = file /\ at' = o /\ flush' = flush
        /\ cur' = cur
        /\ graph' = [graph EXCEPT ![o].sink = Tail(@)]
        /\ \/ ost[o].finished # {} /\ ost' = ost /\ pc' = pc
           \/ ost[o].finished = {} /\ Video(o) /\ do_video_out(o, frame)
           \/ ost[o].finished = {} /\ ~Video(o) /\ do_audio_out(o, frame) /\ pc' = pc
    BY <1>0, <1>01 DEF ReapFrame, Reaped, Encoded, loop
  <1>3. g \in GraphState(o) /\ g.sink \in Seq(Frame) /\ g.closed \subseteq From(o)
        /\ DOMAIN graph = Encoded
    <2>1. g \in GraphState(o) /\ DOMAIN graph = Encoded
      BY <1>1, <1>2 DEF GraphsTimed
    <2>. HIDE DEF g
    <2>. QED  BY <2>1, GraphFields
  <1>4. frame \in Frame /\ Len(Tail(g.sink)) = Len(g.sink) - 1 /\ Len(g.sink) \in Nat
    <2>1. g.sink \in Seq(Frame) /\ g.sink # <<>> /\ frame = Head(g.sink)
      BY <1>01, <1>2, <1>3
    <2>. HIDE DEF g
    <2>. QED  BY <2>1, HeadTailProperties, LenProperties
  <1>5. /\ h.queue = g.queue /\ h.held = g.held /\ h.closed = g.closed /\ h.eof = g.eof
        /\ h.sink = Tail(g.sink)
        /\ \A p \in Encoded : p # o => graph'[p] = graph[p]
        /\ \A p \in Encoded : graph'[p].eof = graph[p].eof
    <2>1. h = [g EXCEPT !.sink = Tail(@)] /\ \A p \in Encoded : p # o => graph'[p] = graph[p]
      BY <1>2, <1>3
    <2>2. /\ h.queue = g.queue /\ h.held = g.held /\ h.closed = g.closed /\ h.eof = g.eof
          /\ h.sink = Tail(g.sink)
      <3>. HIDE DEF h, g
      <3>. QED  BY <1>3, <2>1 DEF GraphState
    <2>. QED  BY <2>1, <2>2
  <1>6. pc' \in {"reap", "video"}
    BY <1>2 DEF do_video_out, BeginPictures
  <1>7. /\ \A s \in Streams : Unmoved(s)
    BY <1>1, <1>2, <1>6, NothingRead
  <1>8. ASSUME ost[o].finished = {}
        PROVE  /\ \A x \in Out \ {o} : ost'[x] = ost[x]
               /\ ost'[o].finished = {} /\ ost'[o].taken = ost[o].taken + 1
               /\ Coded(ost'[o]) = IF Video(o) THEN ost'[o].frame_number
                                               ELSE ost'[o].taken
    <2>1. Coded(ost[o]) = IF Video(o) THEN ost[o].frame_number ELSE ost[o].taken
      BY <1>1, <1>2 DEF Account, OutputAccount, EncodedAccount
    <2>2. CASE Video(o)
      <3>. DEFINE f == SyncFrames(o, frame)
                  ends == SyncPts(frame) + DurationOf(o, frame)
      <3>1. BeginPictures(o, f.sync_opts, f.nb, f.nb0, TRUE, ends)
        BY <1>2, <1>8, <2>2 DEF do_video_out
      <3>. HIDE DEF f, ends
      <3>2. /\ \A x \in Out \ {o} : ost'[x] = ost[x]
            /\ PicturesBegin(ost[o], ost'[o], TRUE)
        BY <1>1, <1>2, <3>1, BeginPicturesCounts
      <3>3. Coded(ost'[o]) = Coded(ost[o])
        BY <3>2 DEF PicturesBegin, Coded, Written
      <3>. QED  BY <1>8, <2>1, <2>2, <3>2, <3>3 DEF PicturesBegin
    <2>3. CASE ~Video(o)
      <3>1. /\ \A x \in Out \ {o} : ost'[x] = ost[x]
            /\ ost'[o].finished = {} /\ ost'[o].taken = ost[o].taken + 1
            /\ Coded(ost'[o]) = Coded(ost[o]) + 1
        BY <1>2, <1>4, <1>8, <2>3, AudioOutCounts
      <3>. QED  BY <2>1, <2>3, <3>1
    <2>. QED  BY <2>2, <2>3
  <1>9. ost[o].finished # {} => ost' = ost
    BY <1>2
  <1>10. ASSUME NEW p \in Out, p # o PROVE OutputAccount(p)'
    <2>1. OutputAccount(p) /\ From(p) \subseteq Streams
      BY <1>1, CountTypes DEF Account
    <2>2. Alike(ost[p], ost'[p])
      BY <1>1, <1>8, <1>9, <1>10, FieldsAlike
    <2>3. \A s \in From(p) : Unmoved(s) /\ (Ended(s)' => Ended(s))
      BY <1>2, <1>7, <2>1 DEF Ended, FileOf
    <2>4. p \in Encoded => graph'[p] = graph[p]
      BY <1>5, <1>10
    <2>. QED  BY <1>1, <2>1, <2>2, <2>3, <2>4, OutputKept
  <1>11. OutputAccount(o)'
    <2>1. /\ ~Copied(o)' /\ EncodedAccount(o) /\ Video(o)' = Video(o)
          /\ From(o) \subseteq Streams /\ \A s \in From(o) : Unmoved(s)
      BY <1>1, <1>2, <1>7, CountTypes DEF Account, OutputAccount, Copied, Video
    <2>2. CASE ost[o].finished # {}
      <3>1. Alike(ost[o], ost'[o])
        BY <1>1, <1>2, <1>9, <2>2, FieldsAlike
      <3>2. \A s \in From(o) : Drawn(s) => Drawn(s)' /\ Fed(s)' = Fed(s)
        BY <2>1 DEF Unmoved, Drawn, Fed, InDecoder
      <3>. QED  BY <1>2, <2>1, <2>2, <3>1, <3>2, DoneKept DEF OutputAccount
    <2>3. CASE ost[o].finished = {}
      <3>1. MixAccount(o)
        BY <2>1, <2>3 DEF EncodedAccount
      <3>2. Mixed(o)' = Mixed(o)
        <4>. DEFINE a == InSink(g)
                    b == HeldBack(g)
                    c == ost[o].taken
        <4>1. a \in Int /\ b \in Int /\ c \in Int
          BY <1>1, <1>2, <1>3, CountTypes, PiecesTyped
        <4>2. InSink(h) = a - 1 /\ HeldBack(h) = b
          BY <1>4, <1>5 DEF InSink, HeldBack
        <4>3. Mixed(o) = c + (a + b)
          BY DEF Mixed, Pieces
        <4>4. Mixed(o)' = ost'[o].taken + (InSink(h) + HeldBack(h))
          BY DEF Mixed, Pieces, InSink, HeldBack
        <4>5. ost'[o].taken = c + 1
          BY <1>8, <2>3
        <4>. HIDE DEF a, b, c, h
        <4>. QED  BY <4>1, <4>2, <4>3, <4>4, <4>5
      <3>3. h.eof => /\ g.closed = From(o) /\ h.held = <<>>
                     /\ \A s \in From(o) : g.queue[s] = <<>>
        BY <1>5, <3>1 DEF MixAccount
      <3>4. MixAccount(o)'
        BY <1>2, <1>3, <1>5, <2>1, <3>1, <3>2, <3>3, MixStays
      <3>5. Coded(ost[o])' = Coded(ost'[o])
        BY DEF Coded, Written, InEncoder
      <3>. QED  BY <1>8, <2>1, <2>3, <3>4, <3>5 DEF OutputAccount, EncodedAccount
    <2>. QED  BY <2>2, <2>3
  <1>12. PlaceAccount'
    <2>1. ASSUME NEW p \in Encoded, p < o PROVE graph'[p].sink = <<>>
      <3>1. p \in Int /\ o \in Int
        BY <1>1, <1>2, ConversionDomains DEF Encoded
      <3>2. p # o
        BY <2>1, <3>1
      <3>. QED  BY <1>0, <1>1, <1>2, <1>5, <2>1, <3>2 DEF Account, PlaceAccount
    <2>2. flush => cur \in Encoded /\ graph'[cur].eof
      BY <1>1, <1>2, <1>5 DEF Account, PlaceAccount
    <2>. QED  BY <1>1, <1>2, <1>6, <2>1, <2>2 DEF PlaceAccount, SourceAccount
  <1>. QED  BY <1>1, <1>10, <1>11, <1>12 DEF OutputsAccounted
-----------------------------------------------------------------------------
(* An output ends; a picture is encoded; what is left in an encoder *)

\* The graph of an output that is at its end has given everything.
LEMMA GraphAtEnd ==
    ASSUME StampInv, NEW o \in Encoded, MixAccount(o), graph[o].eof, graph[o].sink = <<>>
    PROVE  AllTaken(o)
  <1>. DEFINE g == graph[o]
  <1>1. /\ g.closed = From(o) /\ g.held = <<>>
        /\ \A s \in From(o) : g.queue[s] = <<>> /\ Drawn(s)
    BY DEF MixAccount
  <1>2. ost[o].taken \in Int /\ \A s \in From(o) : s \in Streams /\ Fed(s) \in Int
    BY CountTypes
  <1>3. Mixed(o) = ost[o].taken
    <2>1. InSink(g) = 0 /\ HeldBack(g) = 0
      BY <1>1 DEF InSink, HeldBack
    <2>2. Mixed(o) = ost[o].taken + (0 + 0)
      BY <2>1 DEF Mixed, Pieces
    <2>. QED  BY <1>2, <2>2
  <1>4. ASSUME NEW s \in From(o) PROVE Fed(s) - Queued(g, s) = Fed(s)
    <2>1. Queued(g, s) = 0
      BY <1>1 DEF Queued
    <2>. QED  BY <1>2, <2>1
  <1>5. \A s \in From(o) : Fed(s) <= ost[o].taken
    BY <1>3, <1>4 DEF MixAccount
  <1>6. \E s \in From(o) : Fed(s) = ost[o].taken
    BY <1>3, <1>4 DEF MixAccount, Level
  <1>. QED  BY <1>1, <1>5, <1>6 DEF AllTaken

\* Frames that were taken stay taken.
LEMMA TakenStays ==
    ASSUME conv' = conv, NEW o \in Out, ost'[o].taken = ost[o].taken, AllTaken(o),
           \A s \in From(o) : Unmoved(s)
    PROVE  AllTaken(o)'
  <1>1. From(o)' = From(o)
    BY DEF From
  <1>2. ASSUME NEW s \in From(o), Drawn(s) PROVE Drawn(s)' /\ Fed(s)' = Fed(s)
    BY <1>2 DEF Unmoved, Drawn, Fed, InDecoder
  <1>. QED  BY <1>1, <1>2 DEF AllTaken

\* An encoder gets or gives something, and its graph nothing.
LEMMA EncoderKeepsMix ==
    ASSUME StampInv, conv' = conv, graph' = graph, NEW o \in Encoded, EncodedAccount(o),
           ost'[o].finished = ost[o].finished, ost'[o].taken = ost[o].taken,
           \A s \in From(o) : Unmoved(s),
           Coded(ost'[o]) = IF Video(o) THEN ost'[o].frame_number ELSE ost'[o].taken
    PROVE  EncodedAccount(o)'
  <1>1. Coded(ost[o])' = Coded(ost'[o]) /\ Video(o)' = Video(o)
    BY DEF Coded, Written, InEncoder, Video
  <1>2. CASE ost[o].finished # {}
    <2>1. AllTaken(o)'
      BY <1>2, TakenStays DEF EncodedAccount, Encoded
    <2>. QED  BY <1>1, <1>2, <2>1 DEF EncodedAccount
  <1>3. CASE ost[o].finished = {}
    <2>1. MixAccount(o)
      BY <1>3 DEF EncodedAccount
    <2>2. Mixed(o)' = Mixed(o)
      BY DEF Mixed, Pieces, InSink, HeldBack
    <2>3. graph[o].closed \subseteq From(o)
      BY CountTypes, GraphFields
    <2>4. MixAccount(o)'
      BY <2>1, <2>2, <2>3, MixStays DEF MixAccount
    <2>. QED  BY <1>1, <1>3, <2>4 DEF EncodedAccount
  <1>. QED  BY <1>2, <1>3

LEMMA ReapDoneAccounts ==
    ASSUME Accounted, [Next]_vars, conv' = conv, Clear', ReapDone
    PROVE  OutputsAccounted' /\ PlaceAccount'
  <1>1. /\ StampInv /\ conv \in Conversions /\ ost \in [Out -> OutputState]
        /\ Account /\ Out' = Out /\ Encoded' = Encoded /\ PlaceTyped
    BY SameConversion DEF Accounted, StampInv, OutputSide, OutputsTimed
  <1>2. /\ pc = "reap" /\ pc' = "loop" /\ at \notin Out /\ ist' = ist /\ graph' = graph
        /\ file' = file
        /\ ost' = Closed(ost, IF flush THEN {cur} ELSE {})
    BY DEF ReapDone, close_output_stream, inputs
  <1>3. PICK S : S = IF flush THEN {cur} ELSE {}
    OBVIOUS
  <1>4. \A p \in Out : ost'[p] = IF p \in S THEN [ost[p] EXCEPT !.finished = @ \cup {"ENCODER"}]
                                 ELSE ost[p]
    BY <1>2, <1>3 DEF Closed
  <1>5. \A s \in Streams : Unmoved(s)
    BY <1>1, <1>2, NothingRead
  <1>6. ASSUME NEW p \in Out, p \notin S PROVE OutputAccount(p)'
    <2>1. OutputAccount(p) /\ From(p) \subseteq Streams
      BY <1>1, CountTypes DEF Account
    <2>2. Alike(ost[p], ost'[p])
      BY <1>1, <1>4, <1>6, FieldsAlike
    <2>3. \A s \in From(p) : Unmoved(s) /\ (Ended(s)' => Ended(s))
      BY <1>2, <1>5, <2>1 DEF Ended, FileOf
    <2>. QED  BY <1>1, <1>2, <2>1, <2>2, <2>3, OutputKept
  <1>7. ASSUME NEW p \in S PROVE p \in Out /\ OutputAccount(p)'
    <2>1. p = cur /\ flush
      BY <1>3
    <2>2. p \in Encoded /\ p \in Out /\ graph[p].eof
      BY <1>1, <1>2, <2>1 DEF Account, PlaceAccount, Encoded
    <2>3. graph[p].sink = <<>>
      <3>1. Out = 1..Len(conv.outputs) /\ at \in 1..Len(conv.outputs) + 1
        BY <1>1, ConversionDomains DEF PlaceTyped
      <3>2. Len(conv.outputs) \in Nat
        BY ConversionsAssumption, <1>1, LenProperties
      <3>3. p < at
        BY <1>2, <2>2, <3>1, <3>2
      <3>. QED  BY <1>1, <1>2, <2>2, <3>3 DEF Account, PlaceAccount
    <2>4. /\ ~Copied(p)' /\ EncodedAccount(p) /\ Video(p)' = Video(p)
          /\ From(p) \subseteq Streams
      BY <1>1, <2>2, CountTypes DEF Encoded, Account, OutputAccount, Copied, Video
    <2>5. /\ ost'[p].finished = ost[p].finished \cup {"ENCODER"}
          /\ ost'[p].passed = ost[p].passed /\ ost'[p].muxed = ost[p].muxed
          /\ ost'[p].frame_number = ost[p].frame_number
          /\ ost'[p].enc = ost[p].enc /\ ost'[p].taken = ost[p].taken
      <3>. DEFINE F == ost[p].finished \cup {"ENCODER"}
      <3>1. ost[p] \in OutputState /\ ost'[p] = [ost[p] EXCEPT !.finished = F]
        BY <1>1, <1>4, <2>2
      <3>. HIDE DEF F
      <3>2. [ost[p] EXCEPT !.finished = F].finished = F
        BY <3>1 DEF OutputState
      <3>. QED  BY <3>1, <3>2 DEF OutputState, F
    <2>6. Coded(ost[p])' = Coded(ost[p])
      BY <2>5 DEF Coded, Written, InEncoder
    <2>7. AllTaken(p)'
      <3>1. AllTaken(p)
        <4>1. CASE ost[p].finished # {}
          BY <2>4, <4>1 DEF EncodedAccount
        <4>2. CASE ost[p].finished = {}
          <5>1. MixAccount(p)
            BY <2>4, <4>2 DEF EncodedAccount
          <5>. QED  BY <1>1, <2>2, <2>3, <5>1, GraphAtEnd
        <4>. QED  BY <4>1, <4>2
      <3>2. \A s \in From(p) : Unmoved(s)
        BY <1>5, <2>4
      <3>. QED  BY <1>2, <2>2, <2>5, <3>1, <3>2, TakenStays DEF ReapDone
    <2>. QED  BY <2>2, <2>4, <2>5, <2>6, <2>7 DEF OutputAccount, EncodedAccount
  <1>. QED  BY <1>1, <1>2, <1>6, <1>7 DEF OutputsAccounted, PlaceAccount, SourceAccount

LEMMA PictureAccounts ==
    ASSUME Accounted, [Next]_vars, conv' = conv, Clear', EncodePicture /\ ShowVideo
    PROVE  OutputsAccounted' /\ PlaceAccount'
  <1>0. PICK o : o = dup.o
    OBVIOUS
  <1>. DEFINE n == ost[o].sync_opts + 1
              k == ost[o].frame_number + 1
              st == [ost EXCEPT ![o].sync_opts = n, ![o].frame_number = k]
              pts == FrameTicks * ost[o].sync_opts
  <1>1. /\ StampInv /\ conv \in Conversions /\ ost \in [Out -> OutputState]
        /\ Account /\ Out' = Out /\ Encoded' = Encoded /\ CountInv
    BY SameConversion DEF Accounted, StampInv, OutputSide, OutputsTimed
  <1>2. /\ pc = "video" /\ pc' = "video" /\ ist' = ist /\ graph' = graph
        /\ at' = at /\ flush' = flush /\ cur' = cur /\ file' = file
        /\ Encode(o, pts, st)
    BY <1>0 DEF EncodePicture, ShowVideo, loop, inputs
  <1>3. o \in Encoded /\ Video(o) /\ o \in Out /\ ~Copied(o) /\ ~Counted(o)
    BY <1>0, <1>1, <1>2 DEF CountInv, DupTyped, Encoded, Counted
  <1>4. /\ ost[o] \in OutputState /\ n \in Int /\ k \in Int /\ pts \in Int
    BY <1>1, <1>3, OutputFields DEF FrameTicks
  <1>5. /\ st \in [Out -> OutputState] /\ \A x \in Out \ {o} : st[x] = ost[x]
        /\ st[o].finished = ost[o].finished /\ st[o].passed = ost[o].passed
        /\ st[o].muxed = ost[o].muxed /\ st[o].enc = ost[o].enc
        /\ st[o].frame_number = k /\ st[o].taken = ost[o].taken
    <2>. DEFINE r == [ost[o] EXCEPT !.sync_opts = n, !.frame_number = k]
    <2>1. st = [ost EXCEPT ![o] = r]
      BY <1>1, <1>3
    <2>2. /\ r \in OutputState /\ r.finished = ost[o].finished /\ r.passed = ost[o].passed
          /\ r.muxed = ost[o].muxed /\ r.enc = ost[o].enc /\ r.frame_number = k
          /\ r.taken = ost[o].taken
      <3>. HIDE DEF n, k
      <3>. QED  BY <1>4 DEF OutputState
    <2>. HIDE DEF r, st, n, k
    <2>. QED  BY <1>1, <1>3, <2>1, <2>2
  <1>. HIDE DEF st, pts
  <1>6. /\ \A x \in Out \ {o} : ost'[x] = st[x]
        /\ ost'[o].finished = st[o].finished /\ ost'[o].taken = st[o].taken
        /\ Coded(ost'[o]) = Coded(st[o]) + 1
        /\ ost'[o].frame_number = st[o].frame_number
    BY <1>1, <1>2, <1>3, <1>4, <1>5, NoLimits, EncodeCounts
  <1>7. \A s \in Streams : Unmoved(s)
    BY <1>1, <1>2, NothingRead
  <1>8. ASSUME NEW x \in Out, x # o PROVE OutputAccount(x)'
    <2>1. OutputAccount(x) /\ From(x) \subseteq Streams
      BY <1>1, CountTypes DEF Account
    <2>2. Alike(ost[x], ost'[x])
      BY <1>1, <1>5, <1>6, <1>8, FieldsAlike
    <2>3. \A s \in From(x) : Unmoved(s) /\ (Ended(s)' => Ended(s))
      BY <1>2, <1>7, <2>1 DEF Ended, FileOf
    <2>. QED  BY <1>1, <1>2, <2>1, <2>2, <2>3, OutputKept
  <1>9. OutputAccount(o)'
    <2>1. /\ ~Copied(o)' /\ EncodedAccount(o) /\ From(o) \subseteq Streams
      BY <1>1, <1>3, CountTypes DEF Account, OutputAccount, Copied
    <2>2. Coded(ost[o]) = ost[o].frame_number
      BY <1>3, <2>1 DEF EncodedAccount
    <2>3. Coded(st[o]) = Coded(ost[o])
      BY <1>5 DEF Coded, Written, InEncoder
    <2>4. Coded(ost'[o]) = ost'[o].frame_number
      BY <1>5, <1>6, <2>2, <2>3
    <2>5. \A s \in From(o) : Unmoved(s)
      BY <1>7, <2>1
    <2>6. EncodedAccount(o)'
      BY <1>1, <1>2, <1>3, <1>5, <1>6, <2>1, <2>4, <2>5, EncoderKeepsMix
    <2>. QED  BY <2>1, <2>6 DEF OutputAccount
  <1>10. PlaceAccount'
    BY <1>1, <1>2 DEF PlaceAccount, SourceAccount, Account
  <1>. QED  BY <1>1, <1>8, <1>9, <1>10 DEF OutputsAccounted

LEMMA FlushEncoderAccounts ==
    ASSUME Accounted, [Next]_vars, conv' = conv, Clear', FlushEncoder
    PROVE  OutputsAccounted' /\ PlaceAccount'
  <1>0. PICK o : o = Min(Held)
    OBVIOUS
  <1>. DEFINE e == Tail(ost[o].enc)
              st == [ost EXCEPT ![o].enc = e]
              pts == Head(ost[o].enc)
              packet == [pts |-> pts, dts |-> pts]
  <1>1. /\ StampInv /\ conv \in Conversions /\ ost \in [Out -> OutputState]
        /\ Account /\ Out' = Out /\ Encoded' = Encoded
    BY SameConversion DEF Accounted, StampInv, OutputSide, OutputsTimed
  <1>2. /\ pc = "flush_encoders" /\ pc' = pc /\ Held # {} /\ ist' = ist /\ graph' = graph
        /\ file' = file
        /\ \/ ~Muxing(o) /\ ost' = st
           \/ Muxing(o) /\ write_frame(o, packet, st)
    BY <1>0 DEF FlushEncoder, inputs
  <1>3. o \in Out /\ ost[o].enc # <<>>
    <2>1. o \in Held
      BY <1>0, <1>1, <1>2, FirstOutput DEF Held
    <2>. QED  BY <2>1 DEF Held
  <1>4. /\ ost[o] \in OutputState /\ ost[o].enc \in Seq(Int) /\ pts \in Int /\ e \in Seq(Int)
        /\ Len(e) = Len(ost[o].enc) - 1 /\ Len(ost[o].enc) \in Nat /\ Len(ost[o].enc) # 0
    <2>1. ost[o] \in OutputState /\ ost[o].enc \in Seq(Int)
      BY <1>1, <1>3, OutputFields
    <2>2. pts \in Int /\ e \in Seq(Int) /\ Len(e) = Len(ost[o].enc) - 1
      BY <1>3, <2>1, HeadTailProperties
    <2>3. Len(ost[o].enc) \in Nat /\ Len(ost[o].enc) # 0
      BY <1>3, <2>1, LenProperties, EmptySeq
    <2>. QED  BY <2>1, <2>2, <2>3
  <1>5. ~Copied(o)
    <2>1. InEncoder(ost[o]) # 0
      BY <1>4 DEF InEncoder
    <2>. QED  BY <1>1, <1>3, <2>1 DEF Account, OutputAccount, CopyAccount
  <1>6. EncodedAccount(o) /\ o \in Encoded /\ ost[o].finished # {} /\ Muxing(o)
    <2>1. EncodedAccount(o) /\ ost[o].finished # {}
      BY <1>1, <1>2, <1>3, <1>5 DEF Account, OutputAccount, PlaceAccount
    <2>. QED  BY <1>3, <1>5, <2>1 DEF EncodedAccount, Muxing, Encoded
  <1>7. /\ st \in [Out -> OutputState] /\ \A x \in Out \ {o} : st[x] = ost[x]
        /\ st[o].finished = ost[o].finished /\ st[o].passed = ost[o].passed
        /\ st[o].muxed = ost[o].muxed /\ st[o].enc = e
        /\ st[o].frame_number = ost[o].frame_number /\ st[o].taken = ost[o].taken
    <2>. HIDE DEF e
    <2>1. [ost[o] EXCEPT !.enc = e] \in OutputState
      BY <1>4, EncTimed
    <2>. QED  BY <1>1, <1>3, <1>4, <2>1, OneOutputTimed DEF OutputState
  <1>8. packet \in [pts : Int, dts : Int]
    <2>. HIDE DEF pts
    <2>. QED  BY <1>4
  <1>. HIDE DEF st, packet
  <1>9. /\ \A x \in Out \ {o} : ost'[x] = st[x]
        /\ ost'[o].finished = st[o].finished /\ ost'[o].enc = st[o].enc
        /\ ost'[o].taken = st[o].taken /\ Written(ost'[o]) = Written(st[o]) + 1
        /\ ~Counted(o) => ost'[o].frame_number = st[o].frame_number
    <2>1. write_frame(o, packet, st)
      BY <1>2, <1>6
    <2>. QED  BY <1>1, <1>3, <1>7, <1>8, <2>1, NoLimits, WriteCounts
  <1>10. \A s \in Streams : Unmoved(s)
    BY <1>1, <1>2, NothingRead
  <1>11. ASSUME NEW x \in Out, x # o PROVE OutputAccount(x)'
    <2>1. OutputAccount(x) /\ From(x) \subseteq Streams
      BY <1>1, CountTypes DEF Account
    <2>2. Alike(ost[x], ost'[x])
      BY <1>1, <1>7, <1>9, <1>11, FieldsAlike
    <2>3. \A s \in From(x) : Unmoved(s) /\ (Ended(s)' => Ended(s))
      BY <1>2, <1>10, <2>1 DEF Ended, FileOf
    <2>. QED  BY <1>1, <1>2, <2>1, <2>2, <2>3, OutputKept
  <1>12. Coded(ost'[o]) = Coded(ost[o])
    <2>. DEFINE a == Written(ost[o])
                b == Len(ost[o].enc)
    <2>1. a \in Int /\ b \in Nat
      BY <1>1, <1>3, <1>4, CountTypes
    <2>2. Coded(ost[o]) = a + b
      BY DEF Coded, InEncoder
    <2>3. Written(st[o]) = a
      BY <1>7 DEF Written
    <2>4. Coded(ost'[o]) = (a + 1) + (b - 1)
      BY <1>4, <1>7, <1>9, <2>3 DEF Coded, InEncoder
    <2>. HIDE DEF a, b
    <2>. QED  BY <2>1, <2>2, <2>4
  <1>13. OutputAccount(o)'
    <2>1. ~Copied(o)' /\ From(o) \subseteq Streams
      BY <1>1, <1>3, <1>5, CountTypes DEF Copied
    <2>2. \A s \in From(o) : Unmoved(s)
      BY <1>10, <2>1
    <2>3. Coded(ost'[o]) = IF Video(o) THEN ost'[o].frame_number ELSE ost'[o].taken
      BY <1>5, <1>6, <1>7, <1>9, <1>12 DEF EncodedAccount, Counted
    <2>4. EncodedAccount(o)'
      BY <1>1, <1>2, <1>6, <1>7, <1>9, <2>2, <2>3, EncoderKeepsMix DEF FlushEncoder
    <2>. QED  BY <2>1, <2>4 DEF OutputAccount
  <1>14. PlaceAccount'
    <2>1. \A x \in Out : ost[x].finished # {} /\ ost'[x].finished = ost[x].finished
      BY <1>1, <1>2, <1>7, <1>9 DEF Account, PlaceAccount
    <2>. QED  BY <1>1, <1>2, <2>1 DEF PlaceAccount, SourceAccount
  <1>. QED  BY <1>1, <1>11, <1>13, <1>14 DEF OutputsAccounted
-----------------------------------------------------------------------------
(* The invariant *)

LEMMA AccountInit == Init => AccountInv
  <1>. SUFFICES ASSUME Init, Unlimited PROVE Account
    BY DEF AccountInv, Clear
  <1>1. /\ conv \in Conversions /\ StampInv /\ ost = [o \in Out |-> NewStream]
        /\ recording_time = [f \in {OutFile(o) : o \in Out} |-> conv.time[f]]
        /\ pc = "loop"
    BY StampInvInit DEF Init, OutputInit
  <1>2. NoTimes
    <2>1. \A o \in Out : conv.time[OutFile(o)] = NoLimit
      <3>1. DOMAIN conv.time = {OutFile(o) : o \in Out}
        BY <1>1, ConversionsAssumption DEF Out, OutFile
      <3>. QED  BY <3>1 DEF Unlimited
    <2>. QED  BY <1>1, <2>1 DEF NoTimes
  <1>3. Len(<<>>) = 0
    OBVIOUS
  <1>4. ASSUME NEW s \in Streams
        PROVE  HasRead(s) = 0 /\ Fed(s) = 0 /\ ~Ended(s)
    <2>1. /\ file[FileOf(s)].loop = conv.files[FileOf(s)].loop /\ ~Ended(s)
          /\ ist[s].pos = 0 /\ ist[s].dec = <<>> /\ InFlight(s) = 0
      BY <1>1, CountTypes DEF Init, InFlight, Ended
    <2>2. Given(s) \in Nat /\ Looped(s) \in Nat /\ Looped(s) = file[FileOf(s)].loop
      BY <1>1, <2>1, CountTypes DEF Looped, FileOf
    <2>3. Read(s) = 0
      <3>. DEFINE a == Given(s)
                  b == Looped(s)
      <3>1. a \in Nat /\ b \in Nat /\ b = file[FileOf(s)].loop
        BY <2>2
      <3>2. Read(s) = 0 + a * (b - b)
        BY <2>1, <3>1 DEF Read, FileOf
      <3>. HIDE DEF a, b
      <3>. QED  BY <3>1, <3>2
    <2>4. HasRead(s) = 0
      BY <2>1, <2>3 DEF HasRead
    <2>5. InDecoder(ist[s]) = 0
      BY <1>3, <2>1 DEF InDecoder
    <2>. QED  BY <2>1, <2>4, <2>5 DEF Fed
  <1>5. ASSUME NEW o \in Out
        PROVE  /\ ost[o].finished = {} /\ ost[o].taken = 0 /\ ost[o].frame_number = 0
               /\ Written(ost[o]) = 0 /\ InEncoder(ost[o]) = 0 /\ Coded(ost[o]) = 0
    <2>1. /\ ost[o].finished = {} /\ ost[o].muxed = 0 /\ ost[o].passed = 0
          /\ ost[o].frame_number = 0 /\ ost[o].enc = <<>> /\ ost[o].taken = 0
      BY <1>1 DEF NewStream
    <2>2. InEncoder(ost[o]) = 0 /\ Written(ost[o]) = 0
      BY <1>3, <2>1 DEF InEncoder, Written
    <2>. QED  BY <2>1, <2>2 DEF Coded
  <1>6. ASSUME NEW o \in Encoded PROVE MixAccount(o)
    <2>1. /\ graph[o].closed = {} /\ ~graph[o].eof /\ graph[o].held = <<>>
          /\ graph[o].sink = <<>> /\ \A s \in From(o) : graph[o].queue[s] = <<>>
      BY DEF Init
    <2>2. Mixed(o) = 0
      <3>1. InSink(graph[o]) = 0 /\ HeldBack(graph[o]) = 0 /\ ost[o].taken = 0
        BY <1>3, <1>5, <2>1 DEF InSink, HeldBack, Encoded
      <3>. QED  BY <3>1 DEF Mixed, Pieces
    <2>3. ASSUME NEW s \in From(o) PROVE Fed(s) - Queued(graph[o], s) = 0
      <3>1. Fed(s) = 0
        BY <1>1, <1>4, CountTypes DEF Encoded
      <3>2. Queued(graph[o], s) = 0
        BY <1>3, <2>1 DEF Queued
      <3>. QED  BY <3>1, <3>2
    <2>4. From(o) # {}
      BY <1>1, ConversionsAssumption DEF Out, From, Encoded
    <2>. QED  BY <2>1, <2>2, <2>3, <2>4 DEF MixAccount, Level
  <1>7. ASSUME NEW o \in Out PROVE OutputAccount(o)
    <2>1. Copied(o) => CopyAccount(o)
      BY <1>1, <1>4, <1>5, CountTypes DEF CopyAccount
    <2>2. ~Copied(o) => EncodedAccount(o)
      BY <1>5, <1>6 DEF EncodedAccount, Encoded
    <2>. QED  BY <2>1, <2>2 DEF OutputAccount
  <1>. QED  BY <1>1, <1>2, <1>7 DEF Account, PlaceAccount, SourceAccount

LEMMA StutterAccounts ==
    ASSUME Accounted, UNCHANGED vars
    PROVE  OutputsAccounted' /\ PlaceAccount'
  <1>1. /\ StampInv /\ ost \in [Out -> OutputState] /\ Account
    BY DEF Accounted, StampInv, OutputSide, OutputsTimed
  <1>2. /\ conv' = conv /\ ost' = ost /\ graph' = graph /\ ist' = ist /\ pkt' = pkt
        /\ file' = file /\ pc' = pc /\ at' = at /\ flush' = flush /\ cur' = cur
        /\ src' = src
    BY DEF vars, loop, inputs
  <1>3. ASSUME NEW s \in Streams PROVE Unmoved(s)
    BY <1>2, StreamUnmoved DEF FileKept, InFlight
  <1>4. \A o \in Out : Alike(ost[o], ost'[o])
    BY <1>1, <1>2, FieldsAlike
  <1>5. OutputsAccounted'
    BY <1>2, <1>3, <1>4, AllKept DEF EndsStay
  <1>6. PlaceAccount'
    <2>1. PlaceAccount /\ Out' = Out /\ Encoded' = Encoded
      BY <1>1, <1>2, SameConversion DEF Account
    <2>2. SourceAccount'
      <3>1. StreamsOf(src)' = StreamsOf(src)
        BY <1>2 DEF StreamsOf, Streams
      <3>2. \A s : Ended(s)' = Ended(s) /\ Looped(s)' = Looped(s)
                   /\ DecodingNeeded(s)' = DecodingNeeded(s)
        BY <1>2, <2>1 DEF Ended, FileOf, Looped, DecodingNeeded, From
      <3>. QED  BY <1>2, <2>1, <3>1, <3>2 DEF PlaceAccount, SourceAccount
    <2>. QED  BY <1>2, <2>1, <2>2 DEF PlaceAccount
  <1>. QED  BY <1>5, <1>6

LEMMA AccountNext ==
    ASSUME StampInv, PlaceTyped, CountInv, TimesTyped, StreamsTyped, FilesTyped,
           AccountInv, [Next]_vars
    PROVE  AccountInv'
  <1>. SUFFICES ASSUME Clear' PROVE Account'
    BY DEF AccountInv
  <1>1. Clear /\ Account /\ conv' = conv
    BY ClearBefore, ConvStays DEF AccountInv
  <1>2. Accounted
    BY <1>1 DEF Accounted
  <1>3. NoTimes'
    BY <1>1, NoTimesKept DEF Account
  <1>4. trouble' = "none" /\ conv \in Conversions
    BY DEF Clear, StampInv
  <1>. SUFFICES OutputsAccounted' /\ PlaceAccount'
    BY <1>3 DEF Account, OutputsAccounted
  <1>5. CASE NeedOutput \/ choose_output \/ FilterNeeds \/ WouldBlock \/ Trailers \/ ReapNext
               \/ (NoPicture /\ ShowVideo) \/ (KeepPicture /\ ShowVideo)
    BY <1>1, <1>2, <1>5, QuietStepAccounts
  <1>6. CASE Stop \/ FilterFails \/ ReadFails \/ SeekFails \/ CopyFails \/ EncoderFails
    BY <1>4, <1>6 DEF Stop, FilterFails, ReadFails, SeekFails, CopyFails, EncoderFails
  <1>7. CASE FilterGives
    BY <1>1, <1>2, <1>7, FilterGivesAccounts
  <1>8. CASE ReadPacket
    BY <1>1, <1>2, <1>8, ReadAccounts
  <1>9. CASE DecodePacket
    BY <1>1, <1>2, <1>9, DecodeAccounts
  <1>10. CASE CopyPacket
    BY <1>1, <1>2, <1>10, CopyAccounts
  <1>11. CASE EndOfInput \/ BlocksAfterSeek
    BY <1>1, <1>2, <1>11, EndOfFileAccounts
  <1>12. CASE SeekToStart
    BY <1>1, <1>2, <1>12, SeekAccounts
  <1>13. CASE ReapFrame
    BY <1>1, <1>2, <1>13, ReapFrameAccounts
  <1>14. CASE ReapDone
    BY <1>1, <1>2, <1>14, ReapDoneAccounts
  <1>15. CASE ShowVideo
    <2>1. ~RecordingEnds
      <3>1. ASSUME RecordingEnds PROVE FALSE
        <4>1. dup.o \in Out
          BY <3>1 DEF RecordingEnds, CountInv, DupTyped, Encoded
        <4>. QED  BY <1>1, <1>2, <3>1, <4>1, NoLimits DEF RecordingEnds, RecordingTimeOver
      <3>. QED  BY <3>1
    <2>2. \/ (EncodePicture /\ ShowVideo) \/ (NoPicture /\ ShowVideo) \/ (KeepPicture /\ ShowVideo)
      BY <1>15, <2>1 DEF ShowVideo, VideoStep
    <2>3. CASE EncodePicture /\ ShowVideo
      BY <1>1, <1>2, <2>3, PictureAccounts
    <2>. QED  BY <1>5, <2>2, <2>3
  <1>16. CASE FlushDecoders
    BY <1>1, <1>2, <1>16, FlushDecodersAccounts
  <1>17. CASE FlushEncoder
    BY <1>1, <1>2, <1>17, FlushEncoderAccounts
  <1>18. CASE UNCHANGED vars
    BY <1>2, <1>18, StutterAccounts
  <1>. QED  BY <1>5, <1>6, <1>7, <1>8, <1>9, <1>10, <1>11, <1>12, <1>13, <1>14, <1>15, <1>16,
               <1>17, <1>18 DEF Next

\* The greatest of the numbers of packets read is the one that is not exceeded.
LEMMA MostRead ==
    ASSUME StampInv, NEW o \in Out, NEW n \in Int,
           \A s \in From(o) : Read(s) <= n, \E s \in From(o) : Read(s) = n
    PROVE  Max({Read(s) : s \in From(o)}) = n
  <1>. DEFINE T == {Read(s) : s \in From(o)}
  <1>1. From(o) \subseteq Streams /\ \A s \in From(o) : Read(s) \in Int
    BY CountTypes
  <1>2. IsFiniteSet(From(o))
    BY <1>1, ConversionDomains, FS_Subset DEF StampInv
  <1>3. IsFiniteSet(T) /\ T \subseteq Int /\ T # {} /\ n \in T /\ \A y \in T : y <= n
    <2>1. IsFiniteSet(T)
      <3>1. PICK f : f = [s \in From(o) |-> Read(s)]
        OBVIOUS
      <3>2. T = {f[s] : s \in From(o)}
        BY <3>1
      <3>. HIDE DEF T
      <3>. QED  BY <1>2, <3>1, <3>2, FiniteRange
    <2>. QED  BY <1>1, <2>1
  <1>. HIDE DEF T
  <1>4. Max(T) \in T /\ Max(T) >= n
    BY <1>3, MaxInSet
  <1>5. Max(T) \in Int /\ Max(T) <= n
    BY <1>3, <1>4
  <1>6. Max(T) = n
    BY <1>4, <1>5
  <1>. QED  BY <1>6 DEF T

LEMMA AccountsAtTheEnd ==
    ASSUME StampInv, FilesTyped, AccountInv PROVE NothingLost
  <1>. SUFFICES ASSUME pc = "ended", trouble = "none", Unlimited, NEW o \in Out
                PROVE  LET read == Max({Read(s) : s \in From(o)})
                           written == ost[o].muxed + ost[o].passed
                       IN /\ \A s \in From(o) : Looped(s) = 0 => Read(s) = Given(s)
                          /\ Copied(o) => written = read
                          /\ ~Copied(o) => /\ ost[o].taken = read
                                           /\ written = IF Video(o) THEN ost[o].frame_number
                                                                    ELSE ost[o].taken
    BY DEF NothingLost
  <1>1. /\ OutputAccount(o) /\ ost[o].finished # {} /\ ost[o].enc = <<>>
        /\ conv \in Conversions /\ From(o) # {}
    <2>1. conv \in Conversions
      BY DEF StampInv
    <2>2. From(o) # {}
      BY <2>1, ConversionsAssumption DEF Out, From
    <2>. QED  BY <2>1, <2>2 DEF AccountInv, Clear, Account, PlaceAccount
  <1>2. /\ From(o) \subseteq Streams /\ Written(ost[o]) \in Int /\ ost[o].taken \in Int
        /\ Written(ost[o]) = ost[o].muxed + ost[o].passed
        /\ \A s \in From(o) : Read(s) \in Int
    BY CountTypes DEF Written
  <1>3. ASSUME NEW s \in From(o), AtLast(s)
        PROVE  /\ HasRead(s) = Read(s) /\ (Drawn(s) => Fed(s) = Read(s))
               /\ Looped(s) = 0 => Read(s) = Given(s)
    <2>1. InFlight(s) = 0 /\ HasRead(s) = Read(s)
      BY <1>2, <1>3 DEF AtLast, HasRead
    <2>2. Drawn(s) => Fed(s) = Read(s)
      <3>1. Drawn(s) => InDecoder(ist[s]) = 0
        BY DEF Drawn, InDecoder
      <3>. QED  BY <1>2, <2>1, <3>1 DEF Fed
    <2>3. ASSUME Looped(s) = 0 PROVE Read(s) = Given(s)
      <3>1. FileOf(s) \in Files /\ Given(s) \in Nat
        BY <1>2, CountTypes
      <3>2. file[FileOf(s)].loop = 0
        BY <2>3, <3>1 DEF FilesTyped, FileTyped, Looped, FileOf
      <3>3. ist[s].pos = Given(s)
        BY <1>3, <2>3 DEF AtLast
      <3>. QED  BY <2>3, <3>1, <3>2, <3>3 DEF Read, FileOf
    <2>. QED  BY <2>1, <2>2, <2>3
  <1>4. CASE Copied(o)
    <2>1. (\A s \in From(o) : AtLast(s)) /\ \A s \in From(o) : Written(ost[o]) = HasRead(s)
      BY <1>1, <1>4 DEF OutputAccount, CopyAccount
    <2>2. \A s \in From(o) : Written(ost[o]) = Read(s)
      BY <1>3, <2>1
    <2>. DEFINE n == Written(ost[o])
    <2>3. n \in Int /\ (\A s \in From(o) : Read(s) <= n) /\ \E s \in From(o) : Read(s) = n
      BY <1>1, <1>2, <2>2
    <2>. HIDE DEF n
    <2>4. Max({Read(s) : s \in From(o)}) = n
      BY <2>3, MostRead
    <2>. QED  BY <1>2, <1>3, <1>4, <2>1, <2>4 DEF n
  <1>5. CASE ~Copied(o)
    <2>1. AllTaken(o) /\ Coded(ost[o]) = IF Video(o) THEN ost[o].frame_number ELSE ost[o].taken
      BY <1>1, <1>5 DEF OutputAccount, EncodedAccount
    <2>2. \A s \in From(o) : AtLast(s) /\ Fed(s) = Read(s)
      BY <1>3, <2>1 DEF AllTaken, Drawn
    <2>. DEFINE n == ost[o].taken
    <2>3. n \in Int /\ (\A s \in From(o) : Read(s) <= n) /\ \E s \in From(o) : Read(s) = n
      BY <1>2, <2>1, <2>2 DEF AllTaken
    <2>. HIDE DEF n
    <2>4. Max({Read(s) : s \in From(o)}) = n
      BY <2>3, MostRead
    <2>5. Written(ost[o]) = Coded(ost[o])
      <3>1. InEncoder(ost[o]) = 0
        BY <1>1 DEF InEncoder
      <3>. QED  BY <1>2, <3>1 DEF Coded
    <2>. QED  BY <1>2, <1>3, <1>5, <2>1, <2>2, <2>4, <2>5 DEF n
  <1>. QED  BY <1>4, <1>5

\* When nothing went wrong and nothing was limited, everything has been read
\* that was to be read once, and everything that was read has been written when
\* the program ends, copied or encoded (transcoding.cpp, lines 3836-3858,
\* 4040-4079, 1675-1752): an encoded output has taken as many frames from its
\* graph as its longest source has packets, videos too, and all that its encoder
\* was given is in the file.  So nothing stays in a decoder, in a graph or in an
\* encoder, whatever order the outputs are served in, however often the inputs
\* are read again or left before that, and wherever the frames are held back.
THEOREM NothingIsLostOnTheWay == Spec => []NothingLost
  <1>. DEFINE I == /\ StampInv /\ PlaceTyped /\ CountInv /\ TimesTyped
                   /\ StreamsTyped /\ FilesTyped /\ AccountInv
  <1>1. Init => I
    BY StampInvInit, PlaceTypedInit, CountInvInit, TimesTypedInit, StreamsTypedInit,
       FilesTypedInit, AccountInit
  <1>2. I /\ [Next]_vars => I'
    BY StampInvNext, PlaceTypedNext, CountInvNext, TimesTypedNext, StreamsTypedNext,
       FilesTypedNext, AccountNext
  <1>3. I => NothingLost
    BY AccountsAtTheEnd
  <1>4. Spec => []I
    <2>. HIDE DEF I
    <2>. QED  BY <1>1, <1>2, PTL DEF Spec
  <1>. HIDE DEF I
  <1>. QED  BY <1>3, <1>4, PTL
=============================================================================
