------------------------- MODULE OneFilterMixer_proofs -------------------------
(***************************************************************************)
(* Proofs about the mixer with one filter graph, for any number of inputs, *)
(* any lengths of the inputs and any lengths of their frames.              *)
(***************************************************************************)
EXTENDS OneFilterMixer, FiniteSetTheorems, TLAPS

-----------------------------------------------------------------------------
(* The inputs, which are those of both mixers *)

\* decode_audio_frame keeps the state of the inputs well formed.
LEMMA DecodeType ==
    ASSUME InputTypeOK, NEW s \in Inputs, DecodeAudioFrame(s)
    PROVE  InputTypeOK'
  <1>0. /\ left \in [Inputs -> 0..MaxPackets] /\ delayed \in [Inputs -> 0..depth]
        /\ depth \in 0..MaxDelay /\ MaxPackets \in Nat /\ MaxDelay \in Nat
    BY InputAssumption DEF InputTypeOK
  <1>1. depth' = depth /\ left' \in [Inputs -> 0..MaxPackets]
    BY <1>0 DEF DecodeAudioFrame, DecodePacket, DecodeAtEOF
  <1>2. DecodePacket(s) => delayed' \in [Inputs -> 0..depth]
    BY <1>0 DEF DecodePacket
  <1>3. DecodeAtEOF(s) => delayed' \in [Inputs -> 0..depth]
    BY <1>0 DEF DecodeAtEOF
  <1>4. DecodePacket(s) => data_present' \in BOOLEAN /\ finished' \in BOOLEAN
    BY DEF DecodePacket
  <1>5. DecodeAtEOF(s) => data_present' \in BOOLEAN /\ finished' \in BOOLEAN
    BY DEF DecodeAtEOF
  <1>. QED  BY <1>0, <1>1, <1>2, <1>3, <1>4, <1>5 DEF DecodeAudioFrame, InputTypeOK

\* The inputs start well formed.
LEMMA InputInitType == InputInit => InputTypeOK
  <1>1. InputInit => depth \in 0..MaxDelay /\ 0 \in 0..depth
    BY InputAssumption DEF InputInit
  <1>2. InputInit => delayed \in [Inputs -> 0..depth]
    BY <1>1 DEF InputInit
  <1>. QED  BY <1>1, <1>2 DEF InputInit, InputTypeOK

-----------------------------------------------------------------------------
(* Type correctness *)

\* No source of the graph gives more samples than it holds.
LEMMA PullType ==
    ASSUME TypeOK, PullFrame
    PROVE  pending' \in [Inputs -> Nat]
  <1>1. PICK samples \in {pending[s] : s \in Active} :
           /\ \A s \in Active : samples <= pending[s]
           /\ pending' = [s \in Inputs |->
                IF s \in Active THEN pending[s] - samples ELSE 0]
    BY DEF PullFrame
  <1>2. pending \in [Inputs -> Nat] /\ samples \in Nat
    BY DEF TypeOK, Active
  <1>. QED  BY <1>1, <1>2

\* Every step of the loop keeps the type invariant.
LEMMA TypeStep == TypeOK /\ [Next]_vars => TypeOK'
  <1>. SUFFICES ASSUME TypeOK, [Next]_vars PROVE TypeOK'
    OBVIOUS
  <1>0. /\ InputTypeOK
        /\ input_finished \in [Inputs -> BOOLEAN]
        /\ input_to_read \in [Inputs -> BOOLEAN]
        /\ nb_finished \in Nat
        /\ data_present_in_graph \in BOOLEAN
        /\ phase \in {"read", "drain", "done", "exit1"}
        /\ i \in 0..Tracks
        /\ pending \in [Inputs -> Nat]
        /\ eof \in [Inputs -> BOOLEAN]
        /\ failed \in [Inputs -> BOOLEAN]
        /\ Tracks \in Nat \ {0}
    BY InputAssumption DEF TypeOK
  <1>a. i < Tracks => i \in Inputs /\ i + 1 \in 0..Tracks
    BY <1>0 DEF Inputs
  <1>b. UNCHANGED inputVars => InputTypeOK'
    BY <1>0 DEF inputVars, InputTypeOK
  <1>c. ASSUME NextRound
        PROVE  /\ phase' \in {"read", "drain", "done", "exit1"}
               /\ i' \in 0..Tracks
               /\ data_present_in_graph' \in BOOLEAN
    <2>1. phase' \in {"read", "done"}
      BY <1>c DEF NextRound
    <2>2. i' \in 0..Tracks
      BY <1>0, <1>c DEF NextRound
    <2>3. data_present_in_graph' \in BOOLEAN
      BY <1>c DEF NextRound
    <2>. QED  BY <2>1, <2>2, <2>3
  <1>1. CASE SkipInput
    BY <1>0, <1>a, <1>b, <1>1 DEF SkipInput, graphVars, TypeOK
  <1>2. CASE ReadInput
    <2>1. i \in Inputs /\ i' \in 0..Tracks
      BY <1>a, <1>2 DEF ReadInput
    <2>2. InputTypeOK'
      BY <1>0, <1>2, <2>1, DecodeType DEF ReadInput
    <2>3. input_to_read' \in [Inputs -> BOOLEAN]
      BY <1>0, <1>2 DEF ReadInput
    <2>4. CASE Finish
      <3>0. /\ nb_finished' \in Nat
            /\ pending' = pending /\ UNCHANGED <<data_present_in_graph, phase>>
        BY <1>0, <2>4 DEF Finish, WriteEOF
      <3>1. input_finished' \in [Inputs -> BOOLEAN]
        BY <1>0, <2>4 DEF Finish
      <3>2. eof' \in [Inputs -> BOOLEAN] /\ failed' \in [Inputs -> BOOLEAN]
        BY <1>0, <2>4 DEF Finish, WriteEOF
      <3>. QED  BY <1>0, <2>1, <2>2, <2>3, <3>0, <3>1, <3>2 DEF TypeOK
    <2>5. CASE Feed
      <3>0. UNCHANGED <<input_finished, nb_finished>>
        BY <2>5 DEF Feed
      <3>1. CASE WriteFrame(i) /\ data_present_in_graph' = TRUE /\ UNCHANGED phase
        <4>1. FrameSize[i] \in Nat
          BY <2>1, FrameSizeAssumption
        <4>2. pending' \in [Inputs -> Nat]
          BY <1>0, <2>1, <3>1, <4>1 DEF WriteFrame
        <4>3. failed' \in [Inputs -> BOOLEAN]
          BY <1>0, <3>1 DEF WriteFrame
        <4>. QED  BY <1>0, <2>1, <2>2, <2>3, <3>0, <3>1, <4>2, <4>3
                  DEF WriteFrame, TypeOK
      <3>2. CASE phase' = "exit1" /\ UNCHANGED <<graphVars, data_present_in_graph>>
        BY <1>0, <2>1, <2>2, <2>3, <3>0, <3>2 DEF graphVars, TypeOK
      <3>. QED  BY <2>5, <3>1, <3>2 DEF Feed
    <2>6. CASE NoFrame
      BY <1>0, <2>1, <2>2, <2>3, <2>6 DEF NoFrame, graphVars, TypeOK
    <2>. QED  BY <1>2, <2>4, <2>5, <2>6 DEF ReadInput
  <1>3. CASE ReadFails
    <2>1. input_to_read' \in [Inputs -> BOOLEAN]
      BY <1>0, <1>3 DEF ReadFails
    <2>. QED  BY <1>0, <1>b, <1>3, <2>1 DEF ReadFails, graphVars, TypeOK
  <1>4. CASE StartDrain
    BY <1>0, <1>b, <1>4 DEF StartDrain, graphVars, TypeOK
  <1>5. CASE NoData
    <2>1. input_to_read' \in [Inputs -> BOOLEAN]
      BY <1>5 DEF NoData
    <2>. QED  BY <1>0, <1>b, <1>c, <1>5, <2>1 DEF NoData, graphVars, TypeOK
  <1>6. CASE PullFrame
    <2>1. InputTypeOK'
      BY <1>0, <1>6 DEF PullFrame, InputTypeOK
    <2>. QED  BY <1>0, <1>6, <2>1, PullType DEF PullFrame, loopVars, TypeOK
  <1>7. CASE PullNothing
    <2>1. failed' \in [Inputs -> BOOLEAN]
      BY <1>0, <1>7 DEF PullNothing
    <2>2. input_to_read' \in [Inputs -> BOOLEAN]
      BY <1>0, <1>7, <2>1 DEF PullNothing
    <2>. QED  BY <1>0, <1>b, <1>c, <1>7, <2>1, <2>2 DEF PullNothing, TypeOK
  <1>8. CASE PullFails
    BY <1>0, <1>b, <1>8 DEF PullFails, graphVars, TypeOK
  <1>9. CASE UNCHANGED vars
    BY <1>0, <1>b, <1>9 DEF vars, loopVars, graphVars, TypeOK
  <1>. QED  BY <1>1, <1>2, <1>3, <1>4, <1>5, <1>6, <1>7, <1>8, <1>9
            DEF Next, Stopped

LEMMA TypeInit == Init => TypeOK
  <1>. SUFFICES ASSUME Init PROVE TypeOK
    OBVIOUS
  <1>1. InputTypeOK
    BY InputInitType DEF Init
  <1>2. /\ input_finished \in [Inputs -> BOOLEAN]
        /\ input_to_read \in [Inputs -> BOOLEAN]
        /\ eof \in [Inputs -> BOOLEAN]
        /\ failed \in [Inputs -> BOOLEAN]
    BY DEF Init
  <1>3. /\ nb_finished \in Nat /\ pending \in [Inputs -> Nat]
        /\ i \in 0..Tracks
    BY InputAssumption DEF Init
  <1>. QED  BY <1>1, <1>2, <1>3 DEF Init, TypeOK

\* No counter, queue or index of the loop leaves its range; above all, no
\* source of the graph is ever asked for more samples than it holds.
THEOREM TypeCorrect == Spec => []TypeOK
  BY TypeInit, TypeStep, PTL DEF Spec

-----------------------------------------------------------------------------
(* When an input is finished *)

LEMMA EndStep ==
    TypeOK /\ FinishedWithoutDelay /\ [Next]_vars => FinishedWithoutDelay'
  <1>. SUFFICES ASSUME TypeOK, FinishedWithoutDelay, [Next]_vars, depth' = 0
                PROVE  FinishedAtEnd'
    BY DEF FinishedWithoutDelay
  <1>. depth = 0
    BY DEF Next, SkipInput, ReadInput, DecodeAudioFrame, DecodePacket,
           DecodeAtEOF, ReadFails, StartDrain, NoData, PullFrame,
           PullNothing, PullFails, Stopped, NextRound, vars, inputVars
  <1>. FinishedAtEnd
    BY DEF FinishedWithoutDelay
  <1>0. /\ left \in [Inputs -> Nat] /\ delayed \in [Inputs -> {0}]
        /\ input_finished \in [Inputs -> BOOLEAN]
        /\ Tracks \in Nat \ {0} /\ i \in 0..Tracks
    BY InputAssumption DEF TypeOK, InputTypeOK
  <1>1. CASE UNCHANGED <<left, delayed, input_finished>>
    BY <1>1 DEF FinishedAtEnd, AtEnd
  <1>2. CASE ReadInput
    <2>1. i \in Inputs
      BY <1>0, <1>2 DEF ReadInput, Inputs
    <2>2. CASE DecodePacket(i)
      <3>1. data_present' /\ ~finished'
        <4>1. ~(delayed[i] < depth)
          BY <1>0, <2>1
        <4>2. data_present' = TRUE
          BY <2>2, <4>1 DEF DecodePacket
        <4>3. finished' = (finished /\ ~data_present')
          BY <2>2 DEF DecodePacket
        <4>. QED  BY <4>2, <4>3
      <3>2. UNCHANGED <<delayed, input_finished>>
        BY <1>0, <1>2, <2>1, <2>2, <3>1 DEF ReadInput, DecodePacket, Feed
      <3>3. \A s \in Inputs : input_finished[s] => left'[s] = 0
        BY <1>0, <1>2, <2>1, <2>2 DEF ReadInput, DecodePacket, FinishedAtEnd, AtEnd
      <3>. QED  BY <1>0, <3>2, <3>3 DEF FinishedAtEnd, AtEnd
    <2>3. CASE DecodeAtEOF(i)
      <3>1. left' = left /\ delayed' = delayed /\ left[i] = 0
        BY <1>0, <2>1, <2>3 DEF DecodeAtEOF
      <3>2. \A s \in Inputs : input_finished'[s] => s = i \/ input_finished[s]
        BY <1>0, <1>2 DEF ReadInput, Finish, Feed, NoFrame
      <3>. QED  BY <1>0, <2>1, <3>1, <3>2 DEF FinishedAtEnd, AtEnd
    <2>. QED  BY <1>2, <2>2, <2>3 DEF ReadInput, DecodeAudioFrame
  <1>. QED  BY <1>1, <1>2
            DEF Next, SkipInput, ReadFails, StartDrain, NoData, PullFrame,
                PullNothing, PullFails, Stopped, NextRound, vars, loopVars, inputVars

\* With decoders that hold no frame back, as those of the PCM codecs, an input
\* that was declared finished has neither packets nor frames left: nothing of
\* it is cut off.
THEOREM FinishedInputsAreAtEnd ==
    Spec => []FinishedWithoutDelay
  <1>1. Init => FinishedWithoutDelay
    BY DEF Init, FinishedAtEnd, FinishedWithoutDelay
  <1>2. TypeOK /\ FinishedWithoutDelay /\ [Next]_vars => FinishedWithoutDelay'
    BY EndStep
  <1>. QED  BY <1>1, <1>2, TypeCorrect, PTL DEF Spec

-----------------------------------------------------------------------------
(* How often an input is counted *)

LEMMA InputsAreFinite ==
    /\ IsFiniteSet(Inputs)
    /\ Cardinality(Inputs) = Tracks
  <1>1. Tracks \in Nat \ {0} /\ 0 \in Int /\ Tracks - 1 \in Int
    BY InputAssumption
  <1>2. IsFiniteSet(0..(Tracks - 1)) /\ Cardinality(0..(Tracks - 1)) = Tracks
    BY <1>1, FS_Interval
  <1>. QED  BY <1>2 DEF Inputs

LEMMA CountStep == TypeOK /\ CountedOnce /\ [Next]_vars => CountedOnce'
  <1>. SUFFICES ASSUME TypeOK, CountedOnce, [Next]_vars PROVE CountedOnce'
    OBVIOUS
  <1>1. CASE UNCHANGED <<nb_finished, input_finished>>
    BY <1>1 DEF CountedOnce
  <1>2. CASE ReadInput /\ Finish
    <2> DEFINE F == {s \in Inputs : input_finished[s]}
    <2>1. /\ i \in Inputs /\ ~input_finished[i]
          /\ input_finished \in [Inputs -> BOOLEAN]
          /\ input_finished' = [input_finished EXCEPT ![i] = TRUE]
          /\ nb_finished' = nb_finished + 1
      BY <1>2, InputAssumption DEF ReadInput, Finish, TypeOK, Inputs
    <2>2. F' = F \cup {i}
      BY <2>1
    <2>3. IsFiniteSet(F) /\ i \notin F
      BY <2>1, InputsAreFinite, FS_Subset
    <2>4. Cardinality(F \cup {i}) = Cardinality(F) + 1
      BY <2>3, FS_AddElement
    <2>. QED  BY <2>1, <2>2, <2>4 DEF CountedOnce
  <1>3. CASE ReadInput /\ ~Finish
    BY <1>1, <1>3 DEF ReadInput, Feed, NoFrame
  <1>. QED  BY <1>1, <1>2, <1>3
            DEF Next, SkipInput, ReadFails, StartDrain, NoData, PullFrame,
                PullNothing, PullFails, Stopped, NextRound, vars, loopVars

\* The counter that ends the loop is exact: every finished input is in it
\* once, so that nb_finished < Tracks says that some input is not finished.
THEOREM EveryInputCountedOnce == Spec => []CountedOnce
  <1>1. Init => CountedOnce
    BY FS_EmptySet DEF Init, CountedOnce
  <1>2. TypeOK /\ CountedOnce /\ [Next]_vars => CountedOnce'
    BY CountStep
  <1>. QED  BY <1>1, <1>2, TypeCorrect, PTL DEF Spec

-----------------------------------------------------------------------------
(* How many frames can pile up in the graph *)

\* The packets the decoder of input t has kept back so far; all it ever can
\* when the end of the file is reached.
Kept(t) == IF left[t] > 0 THEN delayed[t] ELSE depth

\* Every occasion on which another input than s gave nothing because its
\* decoder kept the packet.
Held(s) == {p \in (Inputs \ {s}) \X (1..depth) : p[2] <= Kept(p[1])}

\* The rounds in which s may have been read without being mixed.
Waste(s) == nb_finished + Cardinality(Held(s))

\* Source s holds no more than those rounds account for, or a frame more.
Level(s) == pending[s] <= Waste(s) * FrameSize[s]
Ahead(s) == pending[s] <= (1 + Waste(s)) * FrameSize[s]

\* Only inputs that are level are asked for.  In a round that has put nothing
\* into the graph yet, somebody is still to be read, or all are level.
AheadInv ==
    /\ \A s \in Inputs : Ahead(s)
    /\ \A s \in Inputs : input_to_read[s] /\ ~input_finished[s] => Level(s)
    /\ phase = "read" /\ ~data_present_in_graph =>
         \A s \in Inputs :
           \/ Level(s)
           \/ \E t \in Inputs \ {s} :
                t >= i /\ ~input_finished[t] /\ input_to_read[t]
    /\ \A s \in Inputs : failed[s] => pending[s] = 0
    /\ \A s \in Inputs : eof[s] <=> input_finished[s]
    /\ phase = "drain" =>
         \A s \in Inputs : input_to_read[s] => input_finished[s]
    /\ phase = "read" =>
         \A s \in Inputs : s < i /\ input_to_read[s] => input_finished[s]

\* Held(s) is finite, and no decoder keeps more than depth packets back.
LEMMA HeldIsFinite ==
    ASSUME TypeOK, NEW s \in Inputs
    PROVE  /\ IsFiniteSet(Held(s))
           /\ Cardinality(Held(s)) \in Nat
           /\ Cardinality(Held(s)) <= depth * (Tracks - 1)
  <1> DEFINE Others == Inputs \ {s}
             All == Others \X (1..depth)
  <1>0. depth \in Nat /\ Tracks \in Nat \ {0}
    BY InputAssumption DEF TypeOK, InputTypeOK
  <1>1. IsFiniteSet(Others) /\ Cardinality(Others) = Tracks - 1
    BY <1>0, InputsAreFinite, FS_RemoveElement
  <1>2. IsFiniteSet(1..depth) /\ Cardinality(1..depth) = depth
    <2>1. 1 \in Int /\ depth \in Int
      BY <1>0
    <2>2. /\ IsFiniteSet(1..depth)
          /\ Cardinality(1..depth) = IF 1 > depth THEN 0 ELSE depth - 1 + 1
      BY <2>1, FS_Interval
    <2>. QED  BY <1>0, <2>2
  <1>3. IsFiniteSet(All) /\ Cardinality(All) = (Tracks - 1) * depth
    <2>1. IsFiniteSet(All) /\ Cardinality(All) = Cardinality(Others) * Cardinality(1..depth)
      BY <1>1, <1>2, FS_Product
    <2>. QED  BY <1>1, <1>2, <2>1
  <1>4. Held(s) \in SUBSET All
    BY DEF Held
  <1>5. IsFiniteSet(Held(s)) /\ Cardinality(Held(s)) <= Cardinality(All)
    BY <1>3, <1>4, FS_Subset
  <1>6. Cardinality(Held(s)) \in Nat
    BY <1>5, FS_CardinalityType
  <1>7. (Tracks - 1) * depth = depth * (Tracks - 1)
    BY <1>0
  <1>. QED  BY <1>3, <1>5, <1>6, <1>7

\* What a decoder has kept back never becomes less.
LEMMA KeptGrows ==
    ASSUME TypeOK, [Next]_vars
    PROVE  /\ depth' = depth
           /\ nb_finished' \in Nat /\ nb_finished <= nb_finished'
           /\ \A t \in Inputs : Kept(t) \in Nat /\ Kept(t)' \in Nat
                                /\ Kept(t) <= Kept(t)'
  <1>0. /\ depth \in Nat /\ nb_finished \in Nat
        /\ left \in [Inputs -> Nat] /\ delayed \in [Inputs -> 0..depth]
        /\ Tracks \in Nat \ {0} /\ i \in 0..Tracks
    BY InputAssumption DEF TypeOK, InputTypeOK
  <1>1. depth' = depth
    BY DEF Next, SkipInput, ReadInput, DecodeAudioFrame, DecodePacket,
           DecodeAtEOF, ReadFails, StartDrain, NoData, PullFrame,
           PullNothing, PullFails, Stopped, NextRound, vars, inputVars
  <1>2. nb_finished' \in {nb_finished, nb_finished + 1}
    BY DEF Next, SkipInput, ReadInput, Finish, Feed, NoFrame, ReadFails,
           StartDrain, NoData, PullFrame, PullNothing, PullFails, Stopped,
           NextRound, vars, loopVars
  <1>3. \A t \in Inputs : Kept(t) \in Nat
    BY <1>0 DEF Kept
  <1>4. CASE UNCHANGED <<left, delayed>>
    BY <1>0, <1>1, <1>2, <1>3, <1>4 DEF Kept
  <1>5. CASE ReadInput
    <2>1. i \in Inputs
      BY <1>0, <1>5 DEF ReadInput, Inputs
    <2>2. CASE DecodePacket(i)
      <3>1. left' \in [Inputs -> Nat] /\ \A t \in Inputs : left'[t] <= left[t]
        BY <1>0, <2>1, <2>2 DEF DecodePacket
      <3>2. /\ delayed' \in [Inputs -> 0..depth]
            /\ \A t \in Inputs : delayed[t] <= delayed'[t]
        BY <1>0, <2>1, <2>2 DEF DecodePacket
      <3>. QED  BY <1>0, <1>1, <1>2, <3>1, <3>2 DEF Kept
    <2>3. CASE DecodeAtEOF(i)
      <3>1. left' = left /\ left[i] = 0
        BY <2>3 DEF DecodeAtEOF
      <3>2. \A t \in Inputs : t # i => delayed'[t] = delayed[t]
        BY <1>0, <2>3 DEF DecodeAtEOF
      <3>. QED  BY <1>0, <1>1, <1>2, <3>1, <3>2 DEF Kept
    <2>. QED  BY <1>5, <2>2, <2>3 DEF ReadInput, DecodeAudioFrame
  <1>. QED  BY <1>4, <1>5
            DEF Next, SkipInput, ReadFails, StartDrain, NoData, PullFrame,
                PullNothing, PullFails, Stopped, NextRound, vars, loopVars, inputVars

\* The account of an input only grows, and an input that keeps a packet back
\* adds to the account of every other one.
LEMMA WasteGrows ==
    ASSUME TypeOK, TypeOK', [Next]_vars, NEW s \in Inputs
    PROVE  /\ Waste(s) \in Nat /\ Waste(s)' \in Nat
           /\ Waste(s) <= Waste(s)'
           /\ nb_finished' = nb_finished + 1 => Waste(s) + 1 <= Waste(s)'
           /\ \A t \in Inputs : t # s /\ Kept(t) < Kept(t)'
                                => Waste(s) + 1 <= Waste(s)'
  <1>0. depth \in Nat /\ depth' \in Nat /\ nb_finished \in Nat
    BY InputAssumption DEF TypeOK, InputTypeOK
  <1>1. IsFiniteSet(Held(s)) /\ Cardinality(Held(s)) \in Nat
    BY HeldIsFinite
  <1>2. IsFiniteSet(Held(s)') /\ Cardinality(Held(s)') \in Nat
    <2>1. TypeOK' /\ s \in Inputs
      OBVIOUS
    <2>2. /\ IsFiniteSet((Inputs \ {s}) \X (1..depth))
          /\ Held(s)' \in SUBSET ((Inputs \ {s}) \X (1..depth))
      <3>1. IsFiniteSet(Inputs \ {s})
        BY InputsAreFinite, FS_RemoveElement
      <3>2. IsFiniteSet(1..depth)
        <4>1. 1 \in Int /\ depth \in Int
          BY <1>0
        <4>. QED  BY <4>1, FS_Interval
      <3>3. depth' = depth
        BY KeptGrows
      <3>. QED  BY <3>1, <3>2, <3>3, FS_Product DEF Held
    <2>3. IsFiniteSet(Held(s)')
      BY <2>2, FS_Subset
    <2>. QED  BY <2>3, FS_CardinalityType
  <1>3. Held(s) \in SUBSET Held(s)'
    <2>1. ASSUME NEW p \in Held(s) PROVE p \in Held(s)'
      <3>1. /\ p \in (Inputs \ {s}) \X (1..depth) /\ p[2] <= Kept(p[1])
        BY DEF Held
      <3>2. p[1] \in Inputs /\ p[2] \in Nat
        BY <1>0, <3>1
      <3>3. p[2] <= Kept(p[1])'
        BY <3>1, <3>2, KeptGrows
      <3>. QED  BY <3>1, <3>3, KeptGrows DEF Held
    <2>. QED  BY <2>1
  <1>4. Cardinality(Held(s)) <= Cardinality(Held(s)')
    BY <1>2, <1>3, FS_Subset
  <1>5. ASSUME NEW t \in Inputs, t # s, Kept(t) < Kept(t)'
        PROVE  Cardinality(Held(s)) + 1 <= Cardinality(Held(s)')
    <2> DEFINE p == <<t, Kept(t) + 1>>
    <2>1. /\ Kept(t) \in Nat /\ Kept(t)' \in Nat /\ depth' = depth
          /\ Kept(t) + 1 <= Kept(t)'
      BY <1>5, KeptGrows
    <2>2. Kept(t)' <= depth
      <3>1. delayed' \in [Inputs -> 0..depth']
        BY DEF TypeOK, InputTypeOK
      <3>. QED  BY <1>0, <2>1, <3>1 DEF Kept
    <2>3. p \in Held(s)'
      BY <1>0, <1>5, <2>1, <2>2 DEF Held
    <2>4. p \notin Held(s)
      BY <2>1 DEF Held
    <2>5. Held(s) # Held(s)'
      BY <2>3, <2>4
    <2>6. Cardinality(Held(s)) # Cardinality(Held(s)')
      BY <1>2, <1>3, <2>5, FS_Subset
    <2>. QED  BY <1>1, <1>2, <1>4, <2>6
  <1>6. nb_finished' \in Nat /\ nb_finished <= nb_finished'
    BY KeptGrows
  <1>7. /\ Waste(s) = nb_finished + Cardinality(Held(s))
        /\ Waste(s)' = nb_finished' + Cardinality(Held(s)')
    BY DEF Waste
  <1>8. \A t \in Inputs : t # s /\ Kept(t) < Kept(t)'
           => Cardinality(Held(s)) + 1 <= Cardinality(Held(s)')
    BY <1>5
  <1>. QED  BY <1>0, <1>1, <1>2, <1>4, <1>6, <1>7, <1>8

\* More rounds on the account allow more samples.
LEMMA MoreRounds ==
    ASSUME NEW v \in Nat, NEW w \in Nat, NEW f \in Nat
    PROVE  /\ v <= w => v * f <= w * f /\ (1 + v) * f <= (1 + w) * f
           /\ v + 1 <= w => (1 + v) * f <= w * f
           /\ (1 + v) * f = v * f + f
           /\ v * f \in Nat
  <1>1. \A a, b \in Nat : a <= b => a * f <= b * f
    <2>1. ASSUME NEW a \in Nat, NEW b \in Nat, a <= b PROVE a * f <= b * f
      <3>1. PICK d \in Nat : b = a + d
        <4>1. b - a \in Nat /\ b = a + (b - a)
          BY <2>1
        <4>. QED  BY <4>1
      <3>2. b * f = a * f + d * f
        BY <3>1
      <3>3. d * f \in Nat /\ a * f \in Nat
        BY <3>1, <2>1
      <3>. QED  BY <3>2, <3>3
    <2>. QED  BY <2>1
  <1>2. 1 + v \in Nat /\ 1 + w \in Nat /\ 1 + v = v + 1
    OBVIOUS
  <1>3. v <= w => 1 + v <= 1 + w
    OBVIOUS
  <1>4. (1 + v) * f = v * f + f
    OBVIOUS
  <1>5. v * f \in Nat
    OBVIOUS
  <1>. QED  BY <1>1, <1>2, <1>3, <1>4, <1>5

\* What an input without new frames keeps in a step, and gains when the
\* account grows; and what an input that is fed keeps.
LEMMA LevelStep ==
    ASSUME TypeOK, TypeOK', [Next]_vars, NEW s \in Inputs
    PROVE  /\ Level(s) => Ahead(s)
           /\ pending'[s] <= pending[s] =>
                /\ Level(s) => Level(s)'
                /\ Ahead(s) => Ahead(s)'
                /\ Ahead(s) /\ Waste(s) + 1 <= Waste(s)' => Level(s)'
           /\ pending'[s] = 0 => Level(s)'
           /\ pending'[s] = pending[s] + FrameSize[s] /\ Level(s) => Ahead(s)'
  <1> DEFINE v == Waste(s)
             w == Waste(s)'
             f == FrameSize[s]
  <1>1. v \in Nat /\ w \in Nat /\ v <= w
    BY WasteGrows
  <1>2. f \in Nat /\ pending[s] \in Nat /\ pending'[s] \in Nat
    BY FrameSizeAssumption DEF TypeOK
  <1> HIDE DEF v, w, f
  <1>3. /\ v * f <= w * f /\ (1 + v) * f <= (1 + w) * f
        /\ v + 1 <= w => (1 + v) * f <= w * f
        /\ (1 + v) * f = v * f + f
        /\ v * f \in Nat
    BY <1>1, <1>2, MoreRounds
  <1>4. (1 + w) * f = w * f + f /\ w * f \in Nat
    BY <1>1, <1>2, MoreRounds
  <1>5. /\ Level(s) <=> pending[s] <= v * f
        /\ Level(s)' <=> pending'[s] <= w * f
        /\ Ahead(s) <=> pending[s] <= (1 + v) * f
        /\ Ahead(s)' <=> pending'[s] <= (1 + w) * f
    BY DEF Level, Ahead, v, w, f
  <1>6. pending[s] <= v * f => pending[s] <= (1 + v) * f
    BY <1>2, <1>3
  <1>7. ASSUME pending'[s] <= pending[s]
        PROVE  /\ pending[s] <= v * f => pending'[s] <= w * f
               /\ pending[s] <= (1 + v) * f => pending'[s] <= (1 + w) * f
               /\ pending[s] <= (1 + v) * f /\ v + 1 <= w => pending'[s] <= w * f
    BY <1>2, <1>3, <1>4, <1>7
  <1>8. pending'[s] = 0 => pending'[s] <= w * f
    BY <1>4
  <1>9. pending'[s] = pending[s] + f /\ pending[s] <= v * f
          => pending'[s] <= (1 + w) * f
    BY <1>2, <1>3, <1>4
  <1>. QED  BY <1>5, <1>6, <1>7, <1>8, <1>9 DEF v, w, f

\* Reading an input: it was level, so that with a frame more it is ahead; an
\* end, or a packet kept back, brings all inputs to level.
LEMMA AheadRead ==
    ASSUME TypeOK, TypeOK', AheadInv, [Next]_vars, ReadInput
    PROVE  AheadInv'
  <1>0. /\ i \in Inputs /\ i \in Nat /\ Inputs \subseteq Nat /\ i' = i + 1
        /\ phase = "read" /\ ~input_finished[i] /\ input_to_read[i]
        /\ input_to_read' = [input_to_read EXCEPT ![i] = FALSE]
        /\ DecodeAudioFrame(i)
        /\ input_to_read \in [Inputs -> BOOLEAN]
        /\ input_finished \in [Inputs -> BOOLEAN]
        /\ eof \in [Inputs -> BOOLEAN] /\ failed \in [Inputs -> BOOLEAN]
        /\ pending \in [Inputs -> Nat] /\ nb_finished \in Nat
    BY InputAssumption DEF ReadInput, TypeOK, Inputs
  <1>a. /\ ~eof[i] /\ Level(i)
        /\ \A s \in Inputs : Ahead(s) /\ (failed[s] => pending[s] = 0)
        /\ \A s \in Inputs : eof[s] <=> input_finished[s]
        /\ \A s \in Inputs : input_to_read[s] /\ ~input_finished[s] => Level(s)
        /\ \A s \in Inputs : s < i /\ input_to_read[s] => input_finished[s]
    BY <1>0 DEF AheadInv
  <1>b. \A s \in Inputs : input_to_read'[s] => s # i /\ input_to_read[s]
    BY <1>0
  <1>c. \A s \in Inputs : s < i' /\ s # i => s < i
    BY <1>0
  <1>1. CASE Finish
    <2>1. /\ pending' = pending /\ phase' = phase
          /\ input_finished' = [input_finished EXCEPT ![i] = TRUE]
          /\ eof' = [eof EXCEPT ![i] = TRUE]
          /\ failed' = [failed EXCEPT ![i] = FALSE]
          /\ nb_finished' = nb_finished + 1
      BY <1>1 DEF Finish, WriteEOF
    <2>2. \A s \in Inputs : Level(s)' /\ Ahead(s)'
      <3>1. \A s \in Inputs : Waste(s) + 1 <= Waste(s)'
        BY <2>1, WasteGrows
      <3>2. \A s \in Inputs : pending'[s] <= pending[s]
        BY <1>0, <2>1
      <3>. QED  BY <1>a, <3>1, <3>2, LevelStep
    <2>3. \A s \in Inputs : failed'[s] => pending'[s] = 0
      BY <1>0, <1>a, <2>1
    <2>4. \A s \in Inputs : eof'[s] <=> input_finished'[s]
      BY <1>0, <1>a, <2>1
    <2>5. \A s \in Inputs : s < i' /\ input_to_read'[s] => input_finished'[s]
      BY <1>0, <1>a, <1>b, <1>c, <2>1
    <2>. QED  BY <1>0, <2>1, <2>2, <2>3, <2>4, <2>5 DEF AheadInv
  <1>2. CASE Feed
    <2>1. /\ WriteFrame(i) /\ data_present_in_graph' = TRUE
          /\ phase' = phase /\ input_finished' = input_finished
      BY <1>2, <1>a DEF Feed
    <2>2. /\ pending' = [pending EXCEPT ![i] = @ + FrameSize[i]]
          /\ failed' = [failed EXCEPT ![i] = FALSE] /\ eof' = eof
      BY <2>1 DEF WriteFrame
    <2>3. \A s \in Inputs : s = i => Ahead(s)'
      <3>1. \A s \in Inputs : s = i => pending'[s] = pending[s] + FrameSize[s]
        BY <1>0, <2>2
      <3>2. \A s \in Inputs : s = i => Level(s)
        BY <1>a
      <3>. QED  BY <3>1, <3>2, LevelStep
    <2>4. \A s \in Inputs : s # i => Ahead(s)' /\ (Level(s) => Level(s)')
      <3>1. \A s \in Inputs : s # i => pending'[s] <= pending[s]
        BY <1>0, <2>2
      <3>. QED  BY <1>a, <3>1, LevelStep
    <2>5. \A s \in Inputs : input_to_read'[s] /\ ~input_finished'[s] => Level(s)'
      BY <1>a, <1>b, <2>1, <2>4
    <2>6. \A s \in Inputs : failed'[s] => pending'[s] = 0
      BY <1>0, <1>a, <2>2
    <2>7. \A s \in Inputs : s < i' /\ input_to_read'[s] => input_finished'[s]
      BY <1>a, <1>b, <1>c, <2>1
    <2>. QED  BY <1>0, <1>a, <2>1, <2>2, <2>3, <2>4, <2>5, <2>6, <2>7 DEF AheadInv
  <1>3. CASE ~finished' /\ ~data_present' /\ NoFrame
    <2>1. /\ pending' = pending /\ eof' = eof /\ failed' = failed
          /\ phase' = phase /\ input_finished' = input_finished
      BY <1>3 DEF NoFrame, graphVars
    <2>2. \A t \in Inputs : t = i => Kept(t) < Kept(t)'
      <3>1. DecodePacket(i) /\ ~data_present'
        BY <1>0, <1>3 DEF DecodeAudioFrame, DecodeAtEOF
      <3>2. /\ delayed[i] \in Nat /\ delayed[i] < depth /\ left[i] > 0
            /\ delayed' = [delayed EXCEPT ![i] = @ + 1] /\ depth' = depth
        BY <1>0, <3>1 DEF DecodePacket, TypeOK, InputTypeOK
      <3>3. delayed'[i] = delayed[i] + 1 /\ depth \in Nat
        BY <1>0, <3>2, InputAssumption DEF TypeOK, InputTypeOK
      <3>. QED  BY <3>2, <3>3 DEF Kept
    <2>3. \A s \in Inputs : pending'[s] <= pending[s]
      BY <1>0, <2>1
    <2>4. \A s \in Inputs : s # i => Waste(s) + 1 <= Waste(s)'
      <3>1. PICK t \in Inputs : t = i
        BY <1>0
      <3>. QED  BY <2>2, <3>1, WasteGrows
    <2>5. \A s \in Inputs : Level(s)' /\ Ahead(s)'
      BY <1>0, <1>a, <2>3, <2>4, LevelStep
    <2>6. \A s \in Inputs : s < i' /\ input_to_read'[s] => input_finished'[s]
      BY <1>a, <1>b, <1>c, <2>1
    <2>. QED  BY <1>0, <1>a, <2>1, <2>5, <2>6 DEF AheadInv
  <1>. QED  BY <1>1, <1>2, <1>3 DEF ReadInput

\* The sink has nothing to give: who is asked is empty, and if anybody else
\* still holds samples, there is somebody to ask.
LEMMA AheadAsk ==
    ASSUME TypeOK, TypeOK', AheadInv, [Next]_vars, PullNothing
    PROVE  AheadInv'
  <1>0. /\ phase = "drain" /\ ~CanMix /\ NextRound
        /\ pending' = pending /\ eof' = eof /\ input_finished' = input_finished
        /\ pending \in [Inputs -> Nat] /\ Inputs \subseteq Nat
    BY DEF PullNothing, TypeOK, Inputs
  <1>1. PICK asked \in SUBSET Starved :
           /\ Starved # {} => asked # {}
           /\ failed' = [s \in Inputs |-> failed[s] \/ s \in asked]
           /\ input_to_read' = [s \in Inputs |-> input_to_read[s] \/ failed'[s]]
    BY DEF PullNothing
  <1>2. phase' \in {"read", "done"} /\ i' = 0
    BY <1>0 DEF NextRound
  <1>a. \A s \in Inputs : pending'[s] <= pending[s]
    BY <1>0
  <1>3. \A s \in Inputs : failed'[s] => pending'[s] = 0
    BY <1>0, <1>1 DEF AheadInv, Starved
  <1>4. \A s \in Inputs : Ahead(s)'
    BY <1>a, LevelStep DEF AheadInv
  <1>5. \A s \in Inputs : input_to_read'[s] /\ ~input_finished'[s] => Level(s)'
    <2>1. \A s \in Inputs : input_to_read'[s] /\ ~input_finished'[s] => failed'[s]
      BY <1>0, <1>1 DEF AheadInv
    <2>. QED  BY <1>3, <2>1, LevelStep
  <1>6. ASSUME NEW s \in Inputs, ~Level(s)'
        PROVE  \E t \in Inputs \ {s} :
                 t >= i' /\ ~input_finished'[t] /\ input_to_read'[t]
    <2>1. pending[s] > 0
      <3>1. pending'[s] # 0
        BY <1>6, LevelStep
      <3>. QED  BY <1>0, <3>1
    <2>2. Starved # {}
      BY <1>0, <2>1 DEF CanMix, Active
    <2>3. PICK t \in asked : TRUE
      BY <1>1, <2>2
    <2>4. t \in Inputs /\ pending[t] = 0 /\ ~eof[t]
      BY <2>3 DEF Starved
    <2>5. ~input_finished'[t] /\ input_to_read'[t] /\ t >= i'
      <3>1. ~input_finished'[t]
        BY <1>0, <2>4 DEF AheadInv
      <3>2. failed'[t] /\ input_to_read'[t]
        BY <1>1, <2>3, <2>4
      <3>3. t >= i'
        BY <1>0, <1>2, <2>4
      <3>. QED  BY <3>1, <3>2, <3>3
    <2>6. t # s
      BY <2>1, <2>4
    <2>. QED  BY <2>4, <2>5, <2>6
  <1>7. \A s \in Inputs : ~(s < i')
    BY <1>0, <1>2
  <1>. QED  BY <1>0, <1>2, <1>3, <1>4, <1>5, <1>6, <1>7 DEF AheadInv

LEMMA AheadStep == TypeOK /\ TypeOK' /\ AheadInv /\ [Next]_vars => AheadInv'
  <1>. SUFFICES ASSUME TypeOK, TypeOK', AheadInv, [Next]_vars PROVE AheadInv'
    OBVIOUS
  <1>0. /\ pending \in [Inputs -> Nat] /\ Inputs \subseteq Nat
        /\ i \in 0..Tracks /\ Tracks \in Nat \ {0}
        /\ \A s \in Inputs : s < Tracks
        /\ input_to_read \in [Inputs -> BOOLEAN]
    BY InputAssumption DEF TypeOK, Inputs
  <1>a. ASSUME pending' = pending
        PROVE  \A s \in Inputs : Ahead(s)' /\ (Level(s) => Level(s)')
    <2>1. \A s \in Inputs : pending'[s] <= pending[s]
      BY <1>0, <1>a
    <2>. QED  BY <2>1, LevelStep DEF AheadInv
  <1>1. CASE SkipInput
    <2>1. /\ UNCHANGED <<graphVars, input_finished, input_to_read,
                         data_present_in_graph, phase>>
          /\ phase = "read" /\ i' = i + 1
          /\ input_finished[i] \/ ~input_to_read[i]
      BY <1>1 DEF SkipInput
    <2>2. pending' = pending /\ eof' = eof /\ failed' = failed
      BY <2>1 DEF graphVars
    <2>3. \A s \in Inputs : Ahead(s)' /\ (Level(s) => Level(s)')
      BY <1>a, <2>2
    <2>4. \A t \in Inputs :
            t >= i /\ ~input_finished[t] /\ input_to_read[t] => t >= i'
      BY <1>0, <2>1
    <2>5. \A s \in Inputs : s < i' /\ input_to_read[s] => input_finished[s]
      <3>1. \A s \in Inputs : s < i' => s < i \/ s = i
        BY <1>0, <2>1
      <3>. QED  BY <2>1, <3>1 DEF AheadInv
    <2>. QED  BY <2>1, <2>2, <2>3, <2>4, <2>5 DEF AheadInv
  <1>2. CASE ReadInput
    BY <1>2, AheadRead
  <1>3. CASE ReadFails
    <2>1. /\ phase' = "exit1"
          /\ UNCHANGED <<graphVars, input_finished>>
          /\ \A s \in Inputs : input_to_read'[s] => input_to_read[s]
      BY <1>0, <1>3 DEF ReadFails
    <2>2. pending' = pending /\ eof' = eof /\ failed' = failed
      BY <2>1 DEF graphVars
    <2>. QED  BY <1>a, <2>1, <2>2 DEF AheadInv
  <1>4. CASE StartDrain
    <2>1. /\ phase' = "drain" /\ phase = "read" /\ i = Tracks
          /\ UNCHANGED <<graphVars, input_finished, input_to_read>>
      BY <1>4 DEF StartDrain
    <2>2. pending' = pending /\ eof' = eof /\ failed' = failed
      BY <2>1 DEF graphVars
    <2>3. \A s \in Inputs : input_to_read[s] => input_finished[s]
      BY <1>0, <2>1 DEF AheadInv
    <2>. QED  BY <1>a, <2>1, <2>2, <2>3 DEF AheadInv
  <1>5. CASE NoData
    <2>1. /\ phase = "read" /\ i = Tracks /\ ~data_present_in_graph
          /\ NextRound
          /\ UNCHANGED <<graphVars, input_finished>>
      BY <1>5 DEF NoData
    <2>2. pending' = pending /\ eof' = eof /\ failed' = failed
      BY <2>1 DEF graphVars
    <2>3. \A s \in Inputs : Level(s)
      <3>1. \A t \in Inputs : ~(t >= i)
        BY <1>0, <2>1
      <3>. QED  BY <2>1, <3>1 DEF AheadInv
    <2>4. phase' \in {"read", "done"} /\ i' = 0
      BY <2>1 DEF NextRound
    <2>5. \A s \in Inputs : ~(s < i')
      BY <1>0, <2>4
    <2>. QED  BY <1>a, <2>1, <2>2, <2>3, <2>4, <2>5 DEF AheadInv
  <1>6. CASE PullFrame
    <2>1. /\ phase = "drain" /\ UNCHANGED <<loopVars, eof, failed>>
      BY <1>6 DEF PullFrame
    <2>2. \A s \in Inputs : pending'[s] <= pending[s]
      <3>1. PICK samples \in {pending[s] : s \in Active} :
               pending' = [s \in Inputs |->
                    IF s \in Active THEN pending[s] - samples ELSE 0]
        BY <1>6 DEF PullFrame
      <3>2. samples \in Nat
        BY <1>0 DEF Active
      <3>. QED  BY <1>0, <3>1, <3>2
    <2>3. \A s \in Inputs : failed'[s] => pending'[s] = 0
      <3>1. \A s \in Inputs : failed'[s] => pending[s] = 0
        BY <2>1 DEF AheadInv
      <3>2. pending' \in [Inputs -> Nat]
        BY DEF TypeOK
      <3>. QED  BY <1>0, <2>2, <3>1, <3>2
    <2>4. \A s \in Inputs : Ahead(s)' /\ (Level(s) => Level(s)')
      BY <2>2, LevelStep DEF AheadInv
    <2>. QED  BY <2>1, <2>3, <2>4 DEF AheadInv, loopVars
  <1>7. CASE PullNothing
    BY <1>7, AheadAsk
  <1>8. CASE PullFails
    <2>1. /\ phase' = "exit1"
          /\ UNCHANGED <<graphVars, input_finished, input_to_read>>
      BY <1>8 DEF PullFails
    <2>2. pending' = pending /\ eof' = eof /\ failed' = failed
      BY <2>1 DEF graphVars
    <2>. QED  BY <1>a, <2>1, <2>2 DEF AheadInv
  <1>9. CASE UNCHANGED vars
    <2>1. UNCHANGED <<loopVars, graphVars>>
      BY <1>9 DEF vars
    <2>2. pending' = pending /\ eof' = eof /\ failed' = failed
      BY <2>1 DEF graphVars
    <2>. QED  BY <1>a, <2>1, <2>2 DEF AheadInv, loopVars
  <1>. QED  BY <1>1, <1>2, <1>3, <1>4, <1>5, <1>6, <1>7, <1>8, <1>9
            DEF Next, Stopped

LEMMA AheadInit == Init => AheadInv
  <1>. SUFFICES ASSUME Init PROVE AheadInv
    OBVIOUS
  <1>0. /\ pending = [s \in Inputs |-> 0] /\ failed = [s \in Inputs |-> FALSE]
        /\ eof = [s \in Inputs |-> FALSE]
        /\ input_finished = [s \in Inputs |-> FALSE]
        /\ phase = "read" /\ i = 0 /\ Inputs \subseteq Nat /\ TypeOK
    BY TypeInit DEF Init, Inputs
  <1>1. ASSUME NEW s \in Inputs PROVE Level(s) /\ Ahead(s)
    <2> DEFINE v == Waste(s)
               f == FrameSize[s]
    <2>1. v \in Nat /\ f \in Nat
      BY <1>0, HeldIsFinite, FrameSizeAssumption DEF Waste, TypeOK
    <2>2. pending[s] = 0
      BY <1>0
    <2> HIDE DEF v, f
    <2>3. v * f \in Nat /\ (1 + v) * f = v * f + f
      BY <2>1, MoreRounds
    <2>4. 0 <= v * f /\ 0 <= (1 + v) * f
      BY <2>1, <2>3
    <2>. QED  BY <2>2, <2>4 DEF Level, Ahead, v, f
  <1>2. \A s \in Inputs : ~(s < i)
    BY <1>0
  <1>. QED  BY <1>0, <1>1, <1>2 DEF AheadInv

\* However many inputs there are, however long they are and however different
\* the lengths of their frames, the graph holds no more frames of an input
\* than one, one for each finished input, and what the decoders of the others
\* can hold back.
THEOREM FramesDoNotPileUp == Spec => []Bounded
  <1>1. TypeOK /\ AheadInv => Bounded
    <2>. SUFFICES ASSUME TypeOK, AheadInv, NEW s \in Inputs
                  PROVE  pending[s] <= (1 + nb_finished + depth * (Tracks - 1))
                                       * FrameSize[s]
      BY DEF Bounded
    <2> DEFINE v == Waste(s)
               w == nb_finished + depth * (Tracks - 1)
               f == FrameSize[s]
    <2>0. depth \in Nat /\ Tracks \in Nat \ {0} /\ nb_finished \in Nat
          /\ f \in Nat /\ pending[s] \in Nat
      BY InputAssumption, FrameSizeAssumption DEF TypeOK, InputTypeOK
    <2>1. depth * (Tracks - 1) \in Nat
      BY <2>0
    <2>2. v \in Nat /\ w \in Nat /\ v <= w
      BY <2>0, <2>1, HeldIsFinite DEF Waste
    <2>3. pending[s] <= (1 + v) * f
      BY DEF AheadInv, Ahead
    <2>4. 1 + nb_finished + depth * (Tracks - 1) = 1 + w
      BY <2>0, <2>1
    <2> HIDE DEF v, w, f
    <2>5. (1 + v) * f <= (1 + w) * f
      BY <2>0, <2>2, MoreRounds
    <2>6. (1 + v) * f = v * f + f /\ v * f \in Nat
          /\ (1 + w) * f = w * f + f /\ w * f \in Nat
      BY <2>0, <2>2, MoreRounds
    <2>7. pending[s] <= (1 + w) * f
      BY <2>0, <2>3, <2>5, <2>6
    <2>. QED  BY <2>4, <2>7 DEF f
  <1>. QED  BY <1>1, AheadInit, AheadStep, TypeCorrect, PTL DEF Spec
=============================================================================
