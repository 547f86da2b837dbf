-------------------------- MODULE ClientMixer_proofs --------------------------
(***************************************************************************)
(* Proofs about the conference mixer, for any number of clients and any    *)
(* lengths of their streams and of the frames in them.                     *)
(***************************************************************************)
EXTENDS ClientMixer, SequenceTheorems, FiniteSetTheorems, TLAPS

-----------------------------------------------------------------------------
(* The inputs, which are those of both mixers *)

\* decode_audio_frame keeps the state of the inputs well formed.
LEMMA DecodeType ==
    ASSUME InputTypeOK, NEW s \in Inputs, DecodeAudioFrame(s)
    PROVE  InputTypeOK'
  <1>0. /\ left \in [Inputs -> 0..MaxPackets] /\ delayed \in [Inputs -> 0..depth]
        /\ depth \in 0..MaxDelay /\ MaxPackets \in Nat /\ MaxDelay \in Nat
    BY InputAssumption DEF InputTypeOK
  <1>1. depth' = depth /\ left' \in [Inputs -> 0..MaxPackets]
    BY <1>0 DEF DecodeAudioFrame, DecodePacket, DecodeAtEOF
  <1>2. DecodePacket(s) => delayed' \in [Inputs -> 0..depth]
    BY <1>0 DEF DecodePacket
  <1>3. DecodeAtEOF(s) => delayed' \in [Inputs -> 0..depth]
    BY <1>0 DEF DecodeAtEOF
  <1>4. DecodePacket(s) => data_present' \in BOOLEAN /\ finished' \in BOOLEAN
    BY DEF DecodePacket
  <1>5. DecodeAtEOF(s) => data_present' \in BOOLEAN /\ finished' \in BOOLEAN
    BY DEF DecodeAtEOF
  <1>. QED  BY <1>0, <1>1, <1>2, <1>3, <1>4, <1>5 DEF DecodeAudioFrame, InputTypeOK

\* The inputs start well formed.
LEMMA InputInitType == InputInit => InputTypeOK
  <1>1. InputInit => depth \in 0..MaxDelay /\ 0 \in 0..depth
    BY InputAssumption DEF InputInit
  <1>2. InputInit => delayed \in [Inputs -> 0..depth]
    BY <1>1 DEF InputInit
  <1>. QED  BY <1>1, <1>2 DEF InputInit, InputTypeOK

-----------------------------------------------------------------------------
(* The sources of a client's graph *)

\* The sources of k's graph are numbered without gaps by the other inputs.
LEMMA SlotType ==
    ASSUME NEW k \in Inputs, NEW s \in Inputs, s # k
    PROVE  Slot(k, s) \in Slots
  BY InputAssumption, TracksAssumption DEF Slot, Slots, Inputs

\* Two other inputs never share a source.
LEMMA SlotInjective ==
    ASSUME NEW k \in Inputs, NEW s \in Inputs, NEW t \in Inputs,
           s # k, t # k, Slot(k, s) = Slot(k, t)
    PROVE  s = t
  BY InputAssumption DEF Slot, Inputs

\* process_all writes an input to the source that init_filter_graph has
\* configured for it: the two index computations of the code agree, for any
\* number of tracks.
THEOREM SlotFitsConfiguration ==
    \A k, s \in Inputs : s # k => ConfiguredFor(k, Slot(k, s)) = s
  BY InputAssumption DEF ConfiguredFor, Slot, Inputs

-----------------------------------------------------------------------------
(* Type correctness *)

QueueType == queue \in [Inputs -> [Slots -> Seq(Samples)]]
EofType == eof \in [Inputs -> [Slots -> BOOLEAN]]
HeardType == heard \in [Inputs -> SUBSET Samples]

\* A frame of n samples is a sequence of n samples.
LEMMA FrameIsSamples ==
    ASSUME i \in Inputs, made[i] \in Nat, NEW n \in Nat
    PROVE  /\ Frame(n) \in Seq(Samples) /\ Len(Frame(n)) = n
           /\ \A m \in 1..n : Frame(n)[m] = <<i, made[i] + m>>
  <1>1. \A m \in 1..n : <<i, made[i] + m>> \in Samples
    BY DEF Samples
  <1>. QED  BY <1>1 DEF Frame

\* What is left of a source when n samples are taken from it.
LEMMA RestOfSamples ==
    ASSUME NEW q \in Seq(Samples), NEW n \in Nat
    PROVE  LET r == SubSeq(q, n + 1, Len(q)) IN
           /\ r \in Seq(Samples)
           /\ n <= Len(q) => /\ Len(r) = Len(q) - n
                             /\ \A m \in 1..(Len(q) - n) : r[m] = q[n + m]
           /\ n >= Len(q) => r = <<>>
  <1>1. Len(q) \in Nat /\ \A m \in (n + 1)..Len(q) : q[m] \in Samples
    BY LenProperties
  <1>2. /\ SubSeq(q, n + 1, Len(q)) \in Seq(Samples)
        /\ Len(SubSeq(q, n + 1, Len(q))) = IF n + 1 <= Len(q) THEN Len(q) - (n + 1) + 1 ELSE 0
        /\ \A m \in 1..(Len(q) - (n + 1) + 1) :
             SubSeq(q, n + 1, Len(q))[m] = q[(n + 1) + m - 1]
    BY <1>1, SubSeqProperties
  <1>3. n >= Len(q) => SubSeq(q, n + 1, Len(q)) = <<>>
    BY <1>1, SubSeqEmpty
  <1>. QED  BY <1>1, <1>2, <1>3

\* Writing a frame or an end of file to the other clients' graphs.
LEMMA WriteFrameType ==
    ASSUME QueueType, NEW n \in Nat, i \in Inputs, made[i] \in Nat, WriteFrame(n)
    PROVE  QueueType'
  <1>1. ASSUME NEW k \in Inputs, k # i
        PROVE  [queue[k] EXCEPT ![Slot(k, i)] = @ \o Frame(n)] \in [Slots -> Seq(Samples)]
    <2>1. Slot(k, i) \in Slots
      BY <1>1, SlotType
    <2>2. queue[k] \in [Slots -> Seq(Samples)] /\ queue[k][Slot(k, i)] \in Seq(Samples)
      BY <2>1 DEF QueueType
    <2>3. queue[k][Slot(k, i)] \o Frame(n) \in Seq(Samples)
      BY <2>2, FrameIsSamples, ConcatProperties
    <2>. QED  BY <2>2, <2>3
  <1>. QED  BY <1>1 DEF WriteFrame, QueueType

LEMMA WriteEOFType ==
    ASSUME EofType, i \in Inputs, WriteEOF
    PROVE  EofType'
  <1>1. ASSUME NEW k \in Inputs, k # i
        PROVE  [eof[k] EXCEPT ![Slot(k, i)] = TRUE] \in [Slots -> BOOLEAN]
    <2>1. eof[k] \in [Slots -> BOOLEAN]
      BY DEF EofType
    <2>. QED  BY <2>1
  <1>. QED  BY <1>1 DEF WriteEOF, EofType

\* A frame takes as many samples from every source as its shortest one has.
LEMMA PullTakes ==
    ASSUME QueueType, i \in Inputs, PullFrame
    PROVE  \E n \in Nat \ {0} :
             /\ Mix(n)
             /\ \A s \in Filled(i) : n <= Len(queue[i][s])
             /\ \E s \in Filled(i) : n = Len(queue[i][s])
  <1>1. PICK t \in Shortest(i) : Mix(Len(queue[i][t]))
    BY DEF PullFrame
  <1>2. queue[i][t] \in Seq(Samples) /\ queue[i][t] # <<>> /\ t \in Filled(i)
    BY DEF Shortest, Filled, QueueType
  <1>3. Len(queue[i][t]) \in Nat \ {0}
    BY <1>2, EmptySeq, LenProperties
  <1>. QED  BY <1>1, <1>2, <1>3 DEF Shortest

\* A sink takes samples from every source that has some.
LEMMA PullType ==
    ASSUME QueueType, HeardType, PullFrame, i \in Inputs
    PROVE  QueueType' /\ HeardType'
  <1>1. queue[i] \in [Slots -> Seq(Samples)] /\ heard[i] \in SUBSET Samples
    BY DEF QueueType, HeardType
  <1>2. PICK n \in Nat \ {0} : Mix(n) /\ \A s \in Filled(i) : n <= Len(queue[i][s])
    BY PullTakes
  <1>3. ASSUME NEW s \in Filled(i), NEW m \in 1..n
        PROVE  queue[i][s][m] \in Samples
    <2>1. queue[i][s] \in Seq(Samples) /\ m \in 1..Len(queue[i][s])
      BY <1>1, <1>2 DEF Filled
    <2>. QED  BY <2>1, ElementOfSeq
  <1>4. heard[i] \cup {queue[i][s][m] : s \in Filled(i), m \in 1..n} \in SUBSET Samples
    BY <1>1, <1>3
  <1>5. HeardType'
    BY <1>2, <1>4 DEF Mix, HeardType
  <1>6. [s \in Slots |-> SubSeq(queue[i][s], n + 1, Len(queue[i][s]))] \in [Slots -> Seq(Samples)]
    BY <1>1, RestOfSamples
  <1>7. QueueType'
    BY <1>2, <1>6 DEF Mix, QueueType
  <1>. QED  BY <1>5, <1>7

Counted ==
    /\ nb_finished \in 0..(2 * Tracks - 1)
    /\ phase = "read" => nb_finished < Tracks + i
LengthType == lengths \in SUBSET (1..MaxLength) /\ lengths # {}

\* No input is counted twice in a round, and a round starts with less than
\* Tracks counted.
LEMMA CountedStep ==
    ASSUME Counted, i \in 0..Tracks, [Next]_vars
    PROVE  Counted'
  <1>0. /\ Tracks \in Nat /\ Tracks > 1 /\ nb_finished \in 0..(2 * Tracks - 1)
        /\ phase = "read" => nb_finished < Tracks + i
    BY InputAssumption, TracksAssumption DEF Counted
  <1>1. CASE nb_finished' = nb_finished /\ (phase' = "read" => phase = "read" /\ i' = i)
    BY <1>0, <1>1 DEF Counted
  <1>2. CASE nb_finished' = nb_finished /\ NextRound
    BY <1>0, <1>2 DEF Counted, NextRound
  <1>3. CASE ReadInput
    <2>1. phase = "read" /\ i < Tracks /\ i' = i + 1
      BY <1>3 DEF ReadInput
    <2>2. nb_finished' \in {nb_finished, nb_finished + 1}
      BY <1>3 DEF ReadInput, Finish, Feed, NoFrame
    <2>. QED  BY <1>0, <2>1, <2>2 DEF Counted
  <1>4. CASE PullFrame
    <2>1. phase' = phase /\ phase = "drain" /\ nb_finished' = nb_finished
      BY <1>4 DEF PullFrame, loopVars
    <2>. QED  BY <1>0, <2>1 DEF Counted
  <1>5. CASE StartDrain
    BY <1>1, <1>5 DEF StartDrain
  <1>6. CASE NoData
    BY <1>2, <1>6 DEF NoData
  <1>7. CASE PullNothing
    <2>1. CASE i < Tracks - 1 /\ i' = i + 1 /\ UNCHANGED <<phase, data_present_in_graph>>
      BY <1>1, <1>7, <2>1 DEF PullNothing
    <2>. QED  BY <1>2, <1>7, <2>1 DEF PullNothing
  <1>8. CASE OutOfRange \/ ReadFails \/ PullFails
    BY <1>1, <1>8 DEF OutOfRange, ReadFails, PullFails
  <1>9. CASE UNCHANGED vars
    BY <1>1, <1>9 DEF vars, loopVars
  <1>. QED  BY <1>3, <1>4, <1>5, <1>6, <1>7, <1>8, <1>9 DEF Next, Stopped

\* The lengths of the frames are those of the streams.
LEMMA LengthsStay == [Next]_vars => lengths' = lengths
  BY DEF Next, OutOfRange, ReadInput, ReadFails, StartDrain, NoData, PullFrame,
         PullNothing, PullFails, Stopped, vars, loopVars

\* Every step of the loop keeps the type invariant.
LEMMA TypeStep == TypeOK /\ [Next]_vars => TypeOK'
  <1>. SUFFICES ASSUME TypeOK, [Next]_vars PROVE TypeOK'
    OBVIOUS
  <1>0. /\ InputTypeOK /\ Counted /\ data_present_in_graph \in BOOLEAN
        /\ phase \in {"read", "drain", "done", "exit1", "refused", "crashed"}
        /\ i \in 0..Tracks /\ made \in [Inputs -> Nat] /\ Tracks \in Nat \ {0}
        /\ LengthType /\ QueueType /\ EofType /\ HeardType
    BY InputAssumption DEF TypeOK, Counted, LengthType, QueueType, EofType, HeardType
  <1>. SUFFICES /\ InputTypeOK' /\ Counted' /\ LengthType'
                /\ data_present_in_graph' \in BOOLEAN
                /\ phase' \in {"read", "drain", "done", "exit1", "refused", "crashed"}
                /\ i' \in 0..Tracks /\ made' \in [Inputs -> Nat]
                /\ QueueType' /\ EofType' /\ HeardType'
    BY DEF TypeOK, Counted, LengthType, QueueType, EofType, HeardType
  <1>a. i < Tracks => i \in Inputs /\ i + 1 \in 0..Tracks
    BY <1>0 DEF Inputs
  <1>b. UNCHANGED inputVars => InputTypeOK'
    BY <1>0 DEF inputVars, InputTypeOK
  <1>c. UNCHANGED graphVars => QueueType' /\ EofType' /\ HeardType'
    BY <1>0 DEF graphVars, QueueType, EofType, HeardType
  <1>d. ASSUME NextRound
        PROVE  /\ phase' \in {"read", "done"}
               /\ i' \in 0..Tracks
               /\ data_present_in_graph' \in BOOLEAN
    <2>1. phase' \in {"read", "done"}
      BY <1>d DEF NextRound
    <2>2. i' \in 0..Tracks
      BY <1>0, <1>d DEF NextRound
    <2>3. data_present_in_graph' \in BOOLEAN
      BY <1>d DEF NextRound
    <2>. QED  BY <2>1, <2>2, <2>3
  <1>e. Counted' /\ LengthType'
    BY <1>0, CountedStep, LengthsStay DEF LengthType
  <1>1. CASE OutOfRange
    BY <1>0, <1>e, <1>b, <1>c, <1>1 DEF OutOfRange
  <1>2. CASE ReadInput
    <2>1. i \in Inputs /\ i' \in 0..Tracks
      BY <1>a, <1>2 DEF ReadInput
    <2>2. InputTypeOK'
      BY <1>0, <1>2, <2>1, DecodeType DEF ReadInput
    <2>3. CASE Finish
      <3>1. EofType' /\ UNCHANGED <<queue, heard>>
        BY <1>0, <2>1, <2>3, WriteEOFType DEF Finish, WriteEOF
      <3>2. QueueType' /\ HeardType'
        BY <1>0, <3>1 DEF QueueType, HeardType
      <3>. QED  BY <1>e, <1>0, <2>1, <2>2, <2>3, <3>1, <3>2 DEF Finish
    <2>4. ASSUME NEW n \in lengths, Feed(n)
          PROVE  /\ data_present_in_graph' \in BOOLEAN /\ made' \in [Inputs -> Nat]
                 /\ phase' \in {"read", "refused"} /\ QueueType' /\ EofType' /\ HeardType'
      <3>0. /\ made' \in [Inputs -> Nat] /\ data_present_in_graph' \in BOOLEAN
            /\ n \in Nat /\ made[i] \in Nat /\ phase = "read"
        <4>1. n \in Nat /\ made[i] \in Nat /\ made[i] + n \in Nat
          BY <1>0, <2>1, LengthAssumption DEF LengthType
        <4>2. made' \in [Inputs -> Nat]
          BY <1>0, <2>4, <4>1 DEF Feed
        <4>. QED  BY <1>2, <2>4, <4>1, <4>2 DEF Feed, ReadInput
      <3>1. CASE WriteFrame(n) /\ UNCHANGED phase
        <4>1. QueueType'
          BY <1>0, <2>1, <3>0, <3>1, WriteFrameType
        <4>2. EofType' /\ HeardType'
          BY <1>0, <3>1 DEF WriteFrame, EofType, HeardType
        <4>. QED  BY <3>0, <3>1, <4>1, <4>2
      <3>2. CASE phase' = "refused" /\ UNCHANGED graphVars
        BY <1>c, <3>0, <3>2
      <3>. QED  BY <2>4, <3>1, <3>2 DEF Feed
    <2>5. CASE NoFrame
      BY <1>e, <1>0, <1>c, <2>1, <2>2, <2>5 DEF NoFrame
    <2>. QED  BY <1>e, <1>2, <2>1, <2>2, <2>3, <2>4, <2>5 DEF ReadInput
  <1>3. CASE ReadFails
    BY <1>e, <1>0, <1>b, <1>c, <1>3 DEF ReadFails
  <1>4. CASE StartDrain
    BY <1>e, <1>0, <1>b, <1>c, <1>4 DEF StartDrain
  <1>5. CASE NoData
    BY <1>e, <1>0, <1>b, <1>c, <1>d, <1>5 DEF NoData
  <1>6. CASE PullFrame
    <2>1. InputTypeOK'
      BY <1>0, <1>6 DEF PullFrame, InputTypeOK
    <2>2. QueueType' /\ HeardType'
      BY <1>0, <1>a, <1>6, PullType DEF PullFrame
    <2>3. EofType'
      BY <1>0, <1>6 DEF PullFrame, EofType
    <2>. QED  BY <1>e, <1>0, <1>6, <2>1, <2>2, <2>3 DEF PullFrame, loopVars
  <1>7. CASE PullNothing
    <2>1. CASE i < Tracks - 1 /\ i' = i + 1 /\ UNCHANGED <<phase, data_present_in_graph>>
      BY <1>e, <1>0, <1>a, <1>b, <1>c, <1>7, <2>1 DEF PullNothing
    <2>2. CASE NextRound
      BY <1>e, <1>0, <1>b, <1>c, <1>d, <1>7, <2>2 DEF PullNothing
    <2>. QED  BY <1>7, <2>1, <2>2 DEF PullNothing
  <1>8. CASE PullFails
    BY <1>e, <1>0, <1>b, <1>c, <1>8 DEF PullFails
  <1>9. CASE UNCHANGED vars
    BY <1>e, <1>0, <1>b, <1>c, <1>9 DEF vars, loopVars
  <1>. QED  BY <1>1, <1>2, <1>3, <1>4, <1>5, <1>6, <1>7, <1>8, <1>9
            DEF Next, Stopped

LEMMA TypeInit == Init => TypeOK
  <1>. SUFFICES ASSUME Init PROVE TypeOK
    OBVIOUS
  <1>1. InputTypeOK
    BY InputInitType DEF Init
  <1>2. queue \in [Inputs -> [Slots -> Seq(Samples)]]
    BY EmptySeq DEF Init
  <1>3. heard \in [Inputs -> SUBSET Samples] /\ lengths \in SUBSET (1..MaxLength) /\ lengths # {}
    BY DEF Init
  <1>4. eof \in [Inputs -> [Slots -> BOOLEAN]]
    BY DEF Init
  <1>5. /\ nb_finished \in 0..(2 * Tracks - 1) /\ nb_finished < Tracks + i
        /\ made \in [Inputs -> Nat] /\ i \in 0..Tracks
    BY InputAssumption DEF Init
  <1>. QED  BY <1>1, <1>2, <1>3, <1>4, <1>5 DEF Init, TypeOK

\* The loop never leaves its state space: what a client hears is made of
\* samples of inputs, and no round starts with Tracks inputs counted, so that
\* the counter stays below 2 * Tracks, whatever the lengths of the streams.
THEOREM TypeCorrect == Spec => []TypeOK
  BY TypeInit, TypeStep, PTL DEF Spec

-----------------------------------------------------------------------------
(* No graph refuses a frame *)

\* A source was closed because its input is at its end.
Closed ==
    \A k, s \in Inputs : s # k /\ eof[k][Slot(k, s)] => AtEnd(s)

ClosedAtEnd == depth = 0 => Closed

\* No step changes how many frames the decoders hold back.
LEMMA DepthStays == [Next]_vars => depth' = depth
  BY DEF Next, OutOfRange, ReadInput, DecodeAudioFrame, DecodePacket, DecodeAtEOF,
         ReadFails, StartDrain, NoData, PullFrame, PullNothing, PullFails, Stopped,
         vars, inputVars

\* With decoders that hold nothing back, a source is closed only when its
\* input is at its end, and an input that is at its end stays there.
LEMMA ClosedStep ==
    TypeOK /\ ClosedAtEnd /\ NeverRefused /\ [Next]_vars => (ClosedAtEnd /\ NeverRefused)'
  <1>. SUFFICES ASSUME TypeOK, ClosedAtEnd, NeverRefused, [Next]_vars, depth' = 0
                PROVE  Closed' /\ phase' # "refused"
    BY DEF ClosedAtEnd, NeverRefused
  <1>0. /\ depth = 0 /\ Closed /\ phase # "refused"
        /\ left \in [Inputs -> Nat] /\ delayed \in [Inputs -> {0}]
        /\ eof \in [Inputs -> [Slots -> BOOLEAN]]
        /\ Tracks \in Nat \ {0} /\ i \in 0..Tracks
    BY DepthStays, InputAssumption DEF TypeOK, InputTypeOK, ClosedAtEnd, NeverRefused
  <1>1. CASE UNCHANGED <<left, delayed, eof>> /\ phase' # "refused"
    BY <1>0, <1>1 DEF Closed, AtEnd
  <1>2. CASE ReadInput
    <2>1. i \in Inputs /\ phase = "read"
      BY <1>0, <1>2 DEF ReadInput, Inputs
    <2>2. CASE DecodePacket(i)
      <3>1. /\ data_present' /\ left[i] > 0 /\ delayed' = delayed
            /\ left' = [left EXCEPT ![i] = @ - 1]
        BY <1>0, <2>1, <2>2 DEF DecodePacket
      <3>2. ~Refused
        BY <1>0, <2>1, <3>1 DEF Refused, Closed, AtEnd
      <3>3. eof' = eof /\ phase' = "read"
        BY <1>2, <2>1, <3>1, <3>2 DEF ReadInput, Feed, WriteFrame
      <3>4. \A s \in Inputs : AtEnd(s) => AtEnd(s)'
        BY <1>0, <2>1, <3>1 DEF AtEnd
      <3>. QED  BY <1>0, <3>3, <3>4 DEF Closed
    <2>3. CASE DecodeAtEOF(i)
      <3>1. left' = left /\ delayed' = delayed /\ left[i] = 0 /\ ~data_present'
        <4>1. delayed[i] = 0
          BY <1>0, <2>1
        <4>2. delayed' = [delayed EXCEPT ![i] = 0]
          BY <2>3, <4>1 DEF DecodeAtEOF
        <4>3. ~data_present'
          <5>1. data_present' = (delayed[i] > 0)
            BY <2>3 DEF DecodeAtEOF
          <5>2. ~(delayed[i] > 0)
            BY <4>1
          <5>. QED  BY <5>1, <5>2, Zenon
        <4>. QED  BY <1>0, <2>3, <4>1, <4>2, <4>3 DEF DecodeAtEOF
      <3>2. phase' = "read"
        BY <1>2, <2>1, <3>1 DEF ReadInput, Finish, NoFrame
      <3>3. ASSUME NEW k \in Inputs, NEW s \in Inputs, s # k, eof'[k][Slot(k, s)]
            PROVE  AtEnd(s)
        <4>1. CASE s = i
          BY <1>0, <2>1, <3>1, <4>1 DEF AtEnd
        <4>2. CASE s # i
          <5>1. Slot(k, s) \in Slots /\ (k # i => Slot(k, s) # Slot(k, i))
            BY <2>1, <3>3, <4>2, SlotType, SlotInjective
          <5>2. eof[k] \in [Slots -> BOOLEAN]
            BY <1>0
          <5>3. eof'[k][Slot(k, s)] = eof[k][Slot(k, s)]
            BY <1>0, <1>2, <2>1, <3>1, <5>1, <5>2
            DEF ReadInput, Finish, WriteEOF, NoFrame, graphVars
          <5>. QED  BY <1>0, <3>3, <5>3 DEF Closed
        <4>. QED  BY <4>1, <4>2
      <3>. QED  BY <3>1, <3>2, <3>3 DEF Closed, AtEnd
    <2>. QED  BY <1>2, <2>2, <2>3 DEF ReadInput, DecodeAudioFrame
  <1>3. CASE NextRound /\ UNCHANGED <<left, delayed, eof>>
    <2>1. phase' # "refused"
      BY <1>3 DEF NextRound
    <2>. QED  BY <1>1, <1>3, <2>1
  <1>4. CASE Next /\ ~ReadInput /\ ~(NextRound /\ UNCHANGED <<left, delayed, eof>>)
    BY <1>0, <1>1, <1>4 DEF Next, OutOfRange, ReadFails, StartDrain, NoData, PullFrame,
       PullNothing, PullFails, Stopped, vars, loopVars, inputVars,
       graphVars
  <1>5. CASE UNCHANGED vars
    BY <1>0, <1>1, <1>5 DEF vars, loopVars, inputVars, graphVars
  <1>. QED  BY <1>2, <1>3, <1>4, <1>5

\* With decoders that hold nothing back no client's graph ever refuses a
\* frame: the conference is never torn down by its own end-of-file marks,
\* for any number of clients.
THEOREM NoFrameRefused == Spec => []NeverRefused
  <1>1. Init => ClosedAtEnd /\ NeverRefused
    <2>1. Init => NeverRefused
      BY DEF Init, NeverRefused
    <2>2. Init => ClosedAtEnd
      BY SlotType DEF Init, ClosedAtEnd, Closed
    <2>. QED  BY <2>1, <2>2
  <1>2. TypeOK /\ ClosedAtEnd /\ NeverRefused /\ [Next]_vars
          => (ClosedAtEnd /\ NeverRefused)'
    BY ClosedStep
  <1>. QED  BY <1>1, <1>2, TypeCorrect, PTL DEF Spec

-----------------------------------------------------------------------------
(* What a client hears *)

\* The samples of q are the d samples of input s that follow its n-th.
Follow(q, s, n, d) == Len(q) = d /\ \A m \in 1..d : q[m] = <<s, n + m>>

\* Client k heard n samples of s, and the others wait in its graph.
Hears(k, s, n) ==
    /\ HeardBy(k, s) = {<<s, m>> : m \in 1..n}
    /\ phase # "refused" => Follow(Unheard(k, s), s, n, made[s] - n)

HearInv ==
    \A k, s \in Inputs : IF k = s THEN HeardBy(k, s) = {}
                         ELSE \E n \in 0..made[s] : Hears(k, s, n)

LEMMA FollowIsFunction ==
    ASSUME NEW q \in Seq(Samples), NEW s, NEW n \in Nat, NEW d \in Nat
    PROVE  q = [m \in 1..d |-> <<s, n + m>>] <=> Follow(q, s, n, d)
  <1>1. q = [m \in 1..Len(q) |-> q[m]] /\ DOMAIN q = 1..Len(q) /\ Len(q) \in Nat
    BY LenProperties
  <1>2. ASSUME q = [m \in 1..d |-> <<s, n + m>>] PROVE Follow(q, s, n, d)
    <2>1. 1..Len(q) = 1..d
      BY <1>1, <1>2
    <2>2. Len(q) = d
      BY <1>1, <2>1
    <2>. QED  BY <1>2, <2>2 DEF Follow
  <1>3. ASSUME Follow(q, s, n, d) PROVE q = [m \in 1..d |-> <<s, n + m>>]
    BY <1>1, <1>3 DEF Follow
  <1>. QED  BY <1>2, <1>3

LEMMA HearInvIsEnough == TypeOK => (HearsTheOthers <=> HearInv)
  <1>. SUFFICES ASSUME TypeOK PROVE HearsTheOthers <=> HearInv
    OBVIOUS
  <1>1. ASSUME NEW k \in Inputs, NEW s \in Inputs, k # s, NEW n \in 0..made[s]
        PROVE  /\ ConfiguredFor(k, Slot(k, s)) = s
               /\ Unheard(k, s) = [m \in 1..(made[s] - n) |-> <<s, n + m>>]
                    <=> Follow(Unheard(k, s), s, n, made[s] - n)
    <2>1. Unheard(k, s) \in Seq(Samples)
      BY <1>1, SlotType DEF TypeOK, Unheard
    <2>2. made[s] \in Nat /\ n \in Nat /\ made[s] - n \in Nat
      BY DEF TypeOK
    <2>3. ConfiguredFor(k, Slot(k, s)) = s
      BY <1>1, SlotFitsConfiguration
    <2>. QED  BY <2>1, <2>2, <2>3, FollowIsFunction
  <1>2. ASSUME NEW k \in Inputs, NEW s \in Inputs, k # s
        PROVE  ConfiguredFor(k, Slot(k, s)) = s
    BY <1>2, SlotFitsConfiguration
  <1>. QED  BY <1>1, <1>2 DEF HearsTheOthers, HearInv, Hears

\* Every source of k's graph is the source of one of the other inputs.
LEMMA SlotSurjective ==
    ASSUME NEW k \in Inputs, NEW t \in Slots
    PROVE  /\ ConfiguredFor(k, t) \in Inputs \ {k}
           /\ Slot(k, ConfiguredFor(k, t)) = t
  BY InputAssumption, TracksAssumption DEF ConfiguredFor, Slot, Slots, Inputs

\* A frame goes into the graphs of all clients but its own.
LEMMA FedIsHeard ==
    ASSUME TypeOK, HearInv, i \in Inputs, phase # "refused", phase' = phase,
           NEW a \in Nat, made' = [made EXCEPT ![i] = @ + a], WriteFrame(a)
    PROVE  HearInv'
  <1>0. /\ made \in [Inputs -> Nat] /\ queue \in [Inputs -> [Slots -> Seq(Samples)]]
        /\ heard' = heard
    BY DEF TypeOK, WriteFrame
  <1>1. \A k, s \in Inputs : HeardBy(k, s)' = HeardBy(k, s)
    BY <1>0 DEF HeardBy
  <1>f. /\ Frame(a) \in Seq(Samples) /\ Len(Frame(a)) = a
        /\ \A m \in 1..a : Frame(a)[m] = <<i, made[i] + m>>
    BY <1>0, FrameIsSamples
  <1>2. ASSUME NEW k \in Inputs, NEW s \in Inputs, k # s
        PROVE  \E n \in 0..made'[s] : Hears(k, s, n)'
    <2>1. PICK n \in 0..made[s] : Hears(k, s, n)
      BY <1>2 DEF HearInv
    <2>2. n \in 0..made'[s] /\ n \in Nat /\ made[s] \in Nat
      BY <1>0, <2>1
    <2>3. /\ Slot(k, s) \in Slots /\ Unheard(k, s) \in Seq(Samples)
          /\ Follow(Unheard(k, s), s, n, made[s] - n)
      BY <1>0, <1>2, <2>1, SlotType DEF Hears, Unheard
    <2>4. CASE s = i
      <3>1. Unheard(k, s)' = Unheard(k, s) \o Frame(a)
        BY <1>0, <1>2, <2>3, <2>4 DEF WriteFrame, Unheard
      <3>2. made'[s] = made[s] + a
        BY <1>0, <2>2, <2>4
      <3>3. /\ Len(Unheard(k, s)') = made[s] - n + a
            /\ \A m \in 1..(made[s] - n + a) :
                 Unheard(k, s)'[m] = IF m <= made[s] - n THEN Unheard(k, s)[m]
                                     ELSE Frame(a)[m - (made[s] - n)]
        <4>. DEFINE q == Unheard(k, s)   r == Unheard(k, s)'   f == Frame(a)
        <4>1. /\ q \in Seq(Samples) /\ f \in Seq(Samples) /\ r = q \o f
              /\ Len(q) = made[s] - n /\ Len(f) = a
          BY <1>f, <2>3, <3>1 DEF Follow
        <4>. HIDE DEF q, r, f
        <4>2. /\ Len(r) = Len(q) + Len(f)
              /\ \A m \in 1..(Len(q) + Len(f)) : r[m] = IF m <= Len(q) THEN q[m] ELSE f[m - Len(q)]
          BY <4>1, ConcatProperties
        <4>3. /\ Len(r) = made[s] - n + a
              /\ \A m \in 1..(made[s] - n + a) :
                   r[m] = IF m <= made[s] - n THEN q[m] ELSE f[m - (made[s] - n)]
          BY <4>1, <4>2
        <4>. QED  BY <4>3 DEF q, r, f
      <3>4. ASSUME NEW m \in 1..(made[s] - n + a)
            PROVE  Unheard(k, s)'[m] = <<s, n + m>>
        <4>1. CASE m <= made[s] - n
          <5>1. m \in 1..(made[s] - n)
            BY <2>2, <4>1
          <5>. QED  BY <2>3, <3>3, <4>1, <5>1 DEF Follow
        <4>2. CASE ~(m <= made[s] - n)
          <5>1. m - (made[s] - n) \in 1..a /\ made[s] + (m - (made[s] - n)) = n + m
            BY <2>2, <4>2
          <5>. QED  BY <1>f, <2>4, <3>3, <4>2, <5>1
        <4>. QED  BY <4>1, <4>2
      <3>5. made'[s] - n = made[s] - n + a
        BY <2>2, <3>2
      <3>6. Follow(Unheard(k, s)', s, n, made'[s] - n)
        BY <3>3, <3>4, <3>5 DEF Follow
      <3>. QED  BY <1>1, <2>1, <2>2, <3>6 DEF Hears
    <2>5. CASE s # i
      <3>1. made'[s] = made[s]
        BY <1>0, <2>5
      <3>2. k # i => Slot(k, s) # Slot(k, i)
        BY <1>2, <2>5, SlotInjective
      <3>3. Unheard(k, s)' = Unheard(k, s)
        BY <1>0, <2>3, <3>2 DEF WriteFrame, Unheard
      <3>. QED  BY <1>1, <2>1, <2>2, <2>3, <3>1, <3>3 DEF Hears
    <2>. QED  BY <2>4, <2>5
  <1>. QED  BY <1>1, <1>2 DEF HearInv

\* A client hears the next a samples of every input whose source holds any.
LEMMA PulledIsHeard ==
    ASSUME TypeOK, HearInv, PullFrame
    PROVE  HearInv'
  <1>c. PICK c \in Inputs : c = i
    BY InputAssumption DEF TypeOK, PullFrame, Inputs
  <1>0. /\ c \in Inputs /\ c = i /\ c = i' /\ phase # "refused" /\ phase' = phase /\ made' = made
        /\ made \in [Inputs -> Nat] /\ queue \in [Inputs -> [Slots -> Seq(Samples)]]
        /\ heard \in [Inputs -> SUBSET Samples] /\ QueueType
    BY <1>c DEF TypeOK, PullFrame, loopVars, QueueType
  <1>p. PICK a \in Nat \ {0} : Mix(a) /\ \A t \in Filled(c) : a <= Len(queue[c][t])
    BY <1>0, PullTakes
  <1>. DEFINE F == {queue[c][t][m] : t \in Filled(c), m \in 1..a}
  <1>1. ASSUME NEW s \in Inputs, s # c, NEW n \in 0..made[s], Hears(c, s, n),
               Slot(c, s) \in Filled(c)
        PROVE  /\ \A m \in 1..a : queue[c][Slot(c, s)][m] = <<s, n + m>>
               /\ n + a \in 0..made[s]
               /\ Follow(SubSeq(queue[c][Slot(c, s)], a + 1, Len(queue[c][Slot(c, s)])),
                         s, n + a, made[s] - (n + a))
    <2>. DEFINE q == queue[c][Slot(c, s)]
    <2>1. q \in Seq(Samples) /\ made[s] \in Nat /\ n \in Nat /\ a <= Len(q)
      BY <1>0, <1>1, <1>p, SlotType DEF Filled
    <2>2. Len(q) = made[s] - n /\ \A m \in 1..(made[s] - n) : q[m] = <<s, n + m>>
      BY <1>0, <1>1 DEF Hears, Follow, Unheard
    <2>. HIDE DEF q
    <2>3. /\ Len(SubSeq(q, a + 1, Len(q))) = Len(q) - a
          /\ \A m \in 1..(Len(q) - a) : SubSeq(q, a + 1, Len(q))[m] = q[a + m]
      BY <2>1, RestOfSamples
    <2>4. n + a \in 0..made[s] /\ made[s] - (n + a) = Len(q) - a
      BY <2>1, <2>2
    <2>5. ASSUME NEW m \in 1..(made[s] - (n + a))
          PROVE  SubSeq(q, a + 1, Len(q))[m] = <<s, (n + a) + m>>
      <3>1. m \in 1..(Len(q) - a) /\ a + m \in 1..(made[s] - n) /\ n + (a + m) = (n + a) + m
        BY <2>1, <2>2, <2>4, <2>5
      <3>. QED  BY <2>2, <2>3, <3>1
    <2>6. \A m \in 1..a : q[m] = <<s, n + m>>
      BY <2>1, <2>2
    <2>. QED  BY <2>3, <2>4, <2>5, <2>6 DEF Follow, q
  <1>2. ASSUME NEW t \in Filled(c), NEW m \in 1..a
        PROVE  /\ t \in Slots /\ ConfiguredFor(c, t) \in Inputs \ {c}
               /\ Slot(c, ConfiguredFor(c, t)) = t
               /\ queue[c][t][m][1] = ConfiguredFor(c, t)
    <2>1. /\ t \in Slots /\ ConfiguredFor(c, t) \in Inputs \ {c}
          /\ Slot(c, ConfiguredFor(c, t)) = t
      BY <1>0, SlotSurjective DEF Filled
    <2>2. PICK n \in 0..made[ConfiguredFor(c, t)] : Hears(c, ConfiguredFor(c, t), n)
      BY <1>0, <2>1 DEF HearInv
    <2>3. queue[c][t][m] = <<ConfiguredFor(c, t), n + m>>
      BY <1>1, <2>1, <2>2
    <2>. QED  BY <2>1, <2>3
  <1>4. /\ heard' = [heard EXCEPT ![c] = @ \cup F]
        /\ \A t \in Slots : queue'[c][t] = SubSeq(queue[c][t], a + 1, Len(queue[c][t]))
        /\ \A k \in Inputs \ {c} : queue'[k] = queue[k]
    <2>1. heard' = [heard EXCEPT ![c] = @ \cup F]
      <3>1. heard' = [heard EXCEPT ![i] =
                        @ \cup {queue[i][t][m] : t \in Filled(i), m \in 1..a}]
        BY <1>p DEF Mix
      <3>2. Filled(i) = Filled(c) /\ queue[i] = queue[c]
        BY <1>0 DEF Filled
      <3>. DEFINE G == {queue[i][t][m] : t \in Filled(i), m \in 1..a}
      <3>4. G = F
        BY <3>2
      <3>5. heard' = [heard EXCEPT ![i] = @ \cup G]
        BY <3>1
      <3>. HIDE DEF F, G
      <3>3. heard' = [heard EXCEPT ![i] = @ \cup F]
        BY <3>4, <3>5
      <3>. QED  BY <1>0, <3>3
    <2>2. queue' = [queue EXCEPT ![c] =
                      [t \in Slots |-> SubSeq(@[t], a + 1, Len(@[t]))]]
      BY <1>0, <1>p DEF Mix
    <2>. QED  BY <1>0, <2>1, <2>2
  <1>. HIDE DEF F
  <1>5. ASSUME NEW s \in Inputs
        PROVE  HeardBy(c, s)' = HeardBy(c, s) \cup {f \in F : f[1] = s}
    <2>1. heard'[c] = heard[c] \cup F
      BY <1>0, <1>4
    <2>. QED  BY <1>0, <2>1 DEF HeardBy
  <1>6. ASSUME NEW k \in Inputs, NEW s \in Inputs, k # c
        PROVE  HeardBy(k, s)' = HeardBy(k, s) /\ Unheard(k, s)' = Unheard(k, s)
    <2>1. heard'[k] = heard[k] /\ queue'[k] = queue[k]
      BY <1>0, <1>4, <1>6
    <2>. QED  BY <2>1 DEF HeardBy, Unheard
  <1>7. HeardBy(c, c)' = {}
    <2>1. {f \in F : f[1] = c} = {}
      BY <1>2 DEF F
    <2>2. HeardBy(c, c) = {}
      BY <1>0 DEF HearInv
    <2>. QED  BY <1>0, <1>5, <2>1, <2>2
  <1>8. ASSUME NEW s \in Inputs, s # c
        PROVE  \E n \in 0..made[s] : Hears(c, s, n)'
    <2>0. PICK n \in 0..made[s] : Hears(c, s, n)
      BY <1>0, <1>8 DEF HearInv
    <2>1. Slot(c, s) \in Slots /\ ConfiguredFor(c, Slot(c, s)) = s /\ made[s] \in Nat /\ n \in Nat
      BY <1>0, <1>8, <2>0, SlotType, SlotFitsConfiguration
    <2>2. CASE Slot(c, s) \in Filled(c)
      <3>1. /\ \A m \in 1..a : queue[c][Slot(c, s)][m] = <<s, n + m>>
            /\ n + a \in 0..made[s]
            /\ Follow(SubSeq(queue[c][Slot(c, s)], a + 1, Len(queue[c][Slot(c, s)])),
                      s, n + a, made[s] - (n + a))
        BY <1>1, <1>8, <2>0, <2>2
      <3>2. {f \in F : f[1] = s} = {<<s, n + m>> : m \in 1..a}
        <4>1. \A t \in Filled(c), m \in 1..a :
                 queue[c][t][m][1] = s => t = Slot(c, s) /\ queue[c][t][m] = <<s, n + m>>
          BY <1>2, <3>1
        <4>2. \A m \in 1..a : <<s, n + m>> \in F
          BY <2>2, <3>1 DEF F
        <4>3. \A f \in F : f[1] = s => \E m \in 1..a : f = <<s, n + m>>
          BY <4>1 DEF F
        <4>. QED  BY <4>2, <4>3
      <3>3. {<<s, m>> : m \in 1..n} \cup {<<s, n + m>> : m \in 1..a}
              = {<<s, m>> : m \in 1..(n + a)}
        <4>1. \A m \in 1..(n + a) : m \in 1..n \/ (m - n \in 1..a /\ n + (m - n) = m)
          BY <2>1
        <4>2. \A m \in 1..a : n + m \in 1..(n + a)
          BY <2>1
        <4>3. \A m \in 1..n : m \in 1..(n + a)
          BY <2>1
        <4>4. ASSUME NEW m \in 1..(n + a)
              PROVE  <<s, m>> \in {<<s, x>> : x \in 1..n} \cup {<<s, n + x>> : x \in 1..a}
          <5>1. CASE m \in 1..n
            BY <5>1
          <5>2. CASE m - n \in 1..a /\ n + (m - n) = m
            BY <5>2
          <5>. QED  BY <4>1, <5>1, <5>2
        <4>. QED  BY <4>2, <4>3, <4>4
      <3>4. HeardBy(c, s)' = {<<s, m>> : m \in 1..(n + a)}
        BY <1>5, <2>0, <3>2, <3>3 DEF Hears
      <3>5. Unheard(c, s)' = SubSeq(queue[c][Slot(c, s)], a + 1, Len(queue[c][Slot(c, s)]))
        BY <1>4, <2>1, <2>2 DEF Unheard
      <3>6. Hears(c, s, n + a)'
        BY <1>0, <3>1, <3>4, <3>5 DEF Hears
      <3>. QED  BY <3>1, <3>6
    <2>3. CASE Slot(c, s) \notin Filled(c)
      <3>1. queue[c][Slot(c, s)] = <<>>
        BY <2>1, <2>3 DEF Filled
      <3>2. {f \in F : f[1] = s} = {}
        BY <1>2, <2>3 DEF F
      <3>3. HeardBy(c, s)' = HeardBy(c, s)
        BY <1>5, <3>2
      <3>4. Unheard(c, s)' = Unheard(c, s)
        <4>1. queue[c][Slot(c, s)] \in Seq(Samples) /\ a \in Nat /\ a >= Len(queue[c][Slot(c, s)])
          BY <1>0, <2>1, <3>1, EmptySeq
        <4>2. SubSeq(queue[c][Slot(c, s)], a + 1, Len(queue[c][Slot(c, s)])) = <<>>
          BY <4>1, RestOfSamples
        <4>. QED  BY <1>4, <2>1, <3>1, <4>2 DEF Unheard
      <3>. QED  BY <1>0, <2>0, <3>3, <3>4 DEF Hears
    <2>. QED  BY <2>2, <2>3
  <1>9. ASSUME NEW k \in Inputs, NEW s \in Inputs, k # c
        PROVE  IF k = s THEN HeardBy(k, s)' = {}
               ELSE \E n \in 0..made'[s] : Hears(k, s, n)'
    <2>1. CASE k = s
      BY <1>6, <1>9, <2>1 DEF HearInv
    <2>2. CASE k # s
      <3>1. PICK n \in 0..made[s] : Hears(k, s, n)
        BY <2>2 DEF HearInv
      <3>2. Hears(k, s, n)'
        BY <1>0, <1>6, <1>9, <3>1 DEF Hears
      <3>. QED  BY <1>0, <2>2, <3>2
    <2>. QED  BY <2>1, <2>2
  <1>. QED  BY <1>0, <1>7, <1>8, <1>9 DEF HearInv

\* A step that feeds no graph and pulls nothing from one.
LEMMA NothingMoves ==
    ASSUME HearInv, UNCHANGED <<queue, heard>>, made \in [Inputs -> Nat],
           made' \in [Inputs -> Nat], \A s \in Inputs : made'[s] >= made[s],
           phase' # "refused" => phase # "refused" /\ made' = made
    PROVE  HearInv'
  <1>1. \A k, s \in Inputs : HeardBy(k, s)' = HeardBy(k, s) /\ Unheard(k, s)' = Unheard(k, s)
    BY DEF HeardBy, Unheard
  <1>2. ASSUME NEW k \in Inputs, NEW s \in Inputs, k # s
        PROVE  \E n \in 0..made'[s] : Hears(k, s, n)'
    <2>1. PICK n \in 0..made[s] : Hears(k, s, n)
      BY <1>2 DEF HearInv
    <2>2. n \in 0..made'[s]
      BY <2>1
    <2>3. Hears(k, s, n)'
      BY <1>1, <2>1 DEF Hears
    <2>. QED  BY <2>2, <2>3
  <1>. QED  BY <1>1, <1>2 DEF HearInv

LEMMA HearStep == TypeOK /\ HearInv /\ [Next]_vars => HearInv'
  <1>. SUFFICES ASSUME TypeOK, HearInv, [Next]_vars PROVE HearInv'
    OBVIOUS
  <1>0. made \in [Inputs -> Nat] /\ i \in 0..Tracks /\ Tracks \in Nat \ {0}
    BY InputAssumption DEF TypeOK
  <1>1. CASE UNCHANGED <<queue, heard, made>> /\ (phase' # "refused" => phase # "refused")
    BY <1>0, <1>1, NothingMoves
  <1>2. CASE ReadInput
    <2>1. i \in Inputs /\ phase = "read"
      BY <1>0, <1>2 DEF ReadInput, Inputs
    <2>2. CASE Finish \/ NoFrame
      BY <1>1, <2>1, <2>2 DEF Finish, WriteEOF, NoFrame, graphVars
    <2>3. ASSUME NEW n \in lengths, Feed(n) PROVE HearInv'
      <3>1. made' = [made EXCEPT ![i] = @ + n] /\ n \in Nat
        BY <2>3, LengthAssumption DEF Feed, TypeOK
      <3>2. CASE WriteFrame(n) /\ UNCHANGED phase
        BY <2>1, <3>1, <3>2, FedIsHeard
      <3>3. CASE phase' = "refused" /\ UNCHANGED graphVars
        <4>1. made' \in [Inputs -> Nat] /\ \A s \in Inputs : made'[s] >= made[s]
          BY <1>0, <2>1, <3>1
        <4>. QED  BY <1>0, <3>3, <4>1, NothingMoves DEF graphVars
      <3>. QED  BY <2>3, <3>2, <3>3 DEF Feed
    <2>. QED  BY <1>2, <2>2, <2>3 DEF ReadInput
  <1>3. CASE PullFrame
    BY <1>3, PulledIsHeard
  <1>. QED  BY <1>1, <1>2, <1>3
            DEF Next, OutOfRange, ReadFails, StartDrain, NoData, NextRound, PullNothing,
                PullFails, Stopped, vars, loopVars, graphVars

LEMMA HearInit == Init => HearInv
  <1>. SUFFICES ASSUME Init PROVE HearInv
    OBVIOUS
  <1>1. \A k, s \in Inputs : HeardBy(k, s) = {}
    BY DEF Init, HeardBy
  <1>2. ASSUME NEW k \in Inputs, NEW s \in Inputs, k # s
        PROVE  0 \in 0..made[s] /\ Hears(k, s, 0)
    <2>1. made[s] = 0
      BY DEF Init
    <2>2. Unheard(k, s) = <<>>
      BY <1>2, SlotType DEF Init, Unheard
    <2>3. Follow(Unheard(k, s), s, 0, made[s] - 0)
      BY <2>1, <2>2 DEF Follow
    <2>. QED  BY <1>1, <2>1, <2>3 DEF Hears
  <1>. QED  BY <1>1, <1>2 DEF HearInv

\* Any number of clients, streams of any lengths and decoders of any delay: a
\* client hears every other client and never itself, each frame once and in
\* order, and the frames it has not heard yet wait in its graph
\* (filter_audio/RTPReceive.cpp, the index of afcx[k] in process_all and in
\* init_filter_graph).
THEOREM ClientsHearTheOthers == Spec => []HearsTheOthers
  <1>1. Init => HearInv
    BY HearInit
  <1>2. TypeOK /\ HearInv /\ [Next]_vars => HearInv'
    BY HearStep
  <1>3. TypeOK => (HearsTheOthers <=> HearInv)
    BY HearInvIsEnough
  <1>. QED  BY <1>1, <1>2, <1>3, TypeCorrect, PTL DEF Spec

-----------------------------------------------------------------------------
(* Every round is drained to its end *)

Empty(k) == \A t \in Slots : queue[k][t] = <<>>

\* No graph whose sink was drained in this round, or before it, can mix more;
\* a round that gave no data found the end of every input.
Drained ==
    /\ phase = "read" /\ i = 0 => \A k \in Inputs : ~CanMix(k)
    /\ phase = "read" /\ ~data_present_in_graph => nb_finished >= i
    /\ phase = "drain" => \A k \in Inputs : k < i => ~CanMix(k)

\* With decoders that hold nothing back a read gives a frame or the end.
LEMMA FrameOrEnd ==
    ASSUME TypeOK, depth = 0, i \in Inputs, DecodeAudioFrame(i)
    PROVE  finished' \/ data_present'
  <1>1. CASE DecodePacket(i)
    BY <1>1 DEF DecodePacket, TypeOK, InputTypeOK
  <1>2. CASE DecodeAtEOF(i)
    BY <1>2 DEF DecodeAtEOF
  <1>. QED  BY <1>1, <1>2 DEF DecodeAudioFrame

LEMMA DrainedStep ==
    TypeOK /\ (depth = 0 => Drained) /\ [Next]_vars => (depth = 0 => Drained)'
  <1>. SUFFICES ASSUME TypeOK, depth = 0, Drained, [Next]_vars PROVE Drained'
    BY DepthStays
  <1>0. /\ queue \in [Inputs -> [Slots -> Seq(Samples)]]
        /\ i \in 0..Tracks /\ Tracks \in Nat \ {0} /\ nb_finished \in Nat
        /\ Inputs \subseteq Nat /\ \A s \in Inputs : s < Tracks
    BY InputAssumption DEF TypeOK, Inputs
  <1>m. \A k \in Inputs : UNCHANGED graphVars => CanMix(k)' = CanMix(k)
    BY DEF graphVars, CanMix, Filled
  \* A round starts with all graphs drained.
  <1>n. ASSUME NextRound, UNCHANGED graphVars, nb_finished' \in Nat,
               nb_finished < Tracks => \A k \in Inputs : ~CanMix(k)
        PROVE  Drained'
    <2>1. phase' = "read" => nb_finished < Tracks
      BY <1>n DEF NextRound
    <2>2. i' = 0 /\ phase' # "drain"
      BY <1>n DEF NextRound
    <2>. QED  BY <1>m, <1>n, <2>1, <2>2 DEF Drained
  <1>1. CASE ReadInput
    <2>1. i \in Inputs /\ phase = "read" /\ i' = i + 1 /\ DecodeAudioFrame(i)
      BY <1>0, <1>1 DEF ReadInput, Inputs
    <2>2. finished' \/ data_present'
      BY <2>1, FrameOrEnd
    <2>3. i' # 0 /\ phase' # "drain"
      BY <1>0, <1>1, <2>1 DEF ReadInput, Finish, Feed, NoFrame
    <2>4. CASE Finish
      BY <1>0, <2>1, <2>3, <2>4 DEF Finish, Drained
    <2>5. ASSUME NEW n \in lengths, Feed(n) PROVE Drained'
      BY <2>3, <2>5 DEF Feed, Drained
    <2>. QED  BY <1>1, <2>2, <2>4, <2>5 DEF ReadInput
  <1>2. CASE StartDrain
    BY <1>0, <1>2 DEF StartDrain, Drained
  <1>3. CASE NoData
    <2>1. ~(nb_finished < Tracks)
      BY <1>0, <1>3 DEF NoData, Drained
    <2>. QED  BY <1>0, <1>3, <1>n, <2>1 DEF NoData
  <1>4. CASE PullFrame
    <2>1. /\ i \in Inputs /\ phase = "drain" /\ phase' = "drain" /\ i' = i /\ eof' = eof
      BY <1>0, <1>4 DEF PullFrame, loopVars, Inputs
    <2>2. \A k \in Inputs : k # i => queue'[k] = queue[k]
      BY <1>0, <1>4, <2>1 DEF PullFrame, Mix
    <2>3. ASSUME NEW k \in Inputs, k < i PROVE ~CanMix(k)'
      <3>1. k # i /\ ~CanMix(k)
        BY <1>0, <2>1, <2>3 DEF Drained
      <3>. QED  BY <2>1, <2>2, <3>1 DEF CanMix, Filled
    <2>. QED  BY <2>1, <2>3 DEF Drained
  <1>5. CASE PullNothing
    <2>1. i \in Inputs /\ phase = "drain" /\ ~CanMix(i) /\ UNCHANGED graphVars
      BY <1>0, <1>5 DEF PullNothing, Inputs
    <2>2. \A k \in Inputs : k < i + 1 => ~CanMix(k)
      BY <1>0, <2>1 DEF Drained
    <2>3. CASE i = Tracks - 1 /\ NextRound
      <3>1. \A k \in Inputs : ~CanMix(k)
        BY <1>0, <2>2, <2>3
      <3>. QED  BY <1>0, <1>5, <1>n, <2>1, <2>3, <3>1 DEF PullNothing
    <2>4. CASE i < Tracks - 1 /\ i' = i + 1 /\ UNCHANGED <<phase, data_present_in_graph>>
      BY <1>m, <2>1, <2>2, <2>4 DEF Drained
    <2>. QED  BY <1>5, <2>3, <2>4 DEF PullNothing
  <1>6. CASE OutOfRange \/ ReadFails \/ PullFails
    BY <1>6 DEF OutOfRange, ReadFails, PullFails, Drained
  <1>7. CASE UNCHANGED vars
    BY <1>m, <1>7 DEF vars, loopVars, graphVars, Drained
  <1>. QED  BY <1>1, <1>2, <1>3, <1>4, <1>5, <1>6, <1>7 DEF Next, Stopped

LEMMA DrainedInit == Init => Drained
  <1>. SUFFICES ASSUME Init PROVE Drained
    OBVIOUS
  <1>1. \A k \in Inputs : ~CanMix(k)
    BY DEF Init, CanMix, Filled
  <1>. QED  BY <1>1 DEF Init, Drained

\* Any number of clients, streams and frames of any lengths, with decoders
\* that hold nothing back: at the start of a round a client that has not heard
\* all there is of an input waits for another one, all of which it heard and
\* whose end its graph has not been told (filter_audio/RTPReceive.cpp, the
\* loop over the sinks, which tries each one until it gives EAGAIN, and the
\* NULL frames that keep an input that has ended from holding the others up).
THEOREM ClientsAreNeverBehind == Spec => []NeverBehind
  <1>1. Init => HearInv /\ (depth = 0 => Drained)
    BY HearInit, DrainedInit
  <1>2. TypeOK /\ HearInv /\ (depth = 0 => Drained) /\ [Next]_vars
          => HearInv' /\ (depth = 0 => Drained)'
    BY HearStep, DrainedStep
  <1>3. TypeOK /\ HearInv /\ (depth = 0 => Drained) => NeverBehind
    <2>. SUFFICES ASSUME TypeOK, HearInv, Drained, phase = "read", i = 0,
                         NEW k \in Inputs, NEW s \in Inputs, s # k
                  PROVE  \/ HeardAll(k, s)
                         \/ \E t \in Inputs \ {k, s} : ~eof[k][Slot(k, t)] /\ HeardAll(k, t)
      BY DEF NeverBehind
    <2>1. ASSUME NEW t \in Inputs, t # k, Unheard(k, t) = <<>>
          PROVE  HeardAll(k, t)
      <3>1. PICK n \in 0..made[t] : Hears(k, t, n)
        BY <2>1 DEF HearInv
      <3>2. made[t] \in Nat /\ made[t] - n = 0
        BY <2>1, <3>1 DEF TypeOK, Hears, Follow
      <3>3. n = made[t]
        BY <3>2
      <3>. QED  BY <3>1, <3>3 DEF Hears, HeardAll
    <2>2. ~CanMix(k)
      BY DEF Drained
    <2>3. CASE Filled(k) = {}
      BY <2>1, <2>3, SlotType DEF Filled, Unheard
    <2>4. CASE \E x \in Slots : ~eof[k][x] /\ x \notin Filled(k)
      <3>1. PICK x \in Slots : ~eof[k][x] /\ queue[k][x] = <<>>
        BY <2>4 DEF Filled
      <3>2. PICK t \in Inputs \ {k} : Slot(k, t) = x
        BY SlotSurjective
      <3>3. HeardAll(k, t)
        BY <2>1, <3>1, <3>2 DEF Unheard
      <3>. QED  BY <3>1, <3>2, <3>3
    <2>. QED  BY <2>2, <2>3, <2>4 DEF CanMix
  <1>. QED  BY <1>1, <1>2, <1>3, TypeCorrect, PTL DEF Spec

-----------------------------------------------------------------------------
(* Frames of one length *)

\* A source holds the frame of this round, which has l samples, or is closed.
Ready(k, t, l) == Len(queue[k][t]) = l \/ (queue[k][t] = <<>> /\ eof[k][t])

Rounds(l) ==
    /\ phase = "read" =>
         /\ \A k, s \in Inputs : k # s =>
              IF s < i THEN Ready(k, Slot(k, s), l) ELSE queue[k][Slot(k, s)] = <<>>
         /\ ~data_present_in_graph => \A k \in Inputs : Empty(k)
    /\ phase = "drain" =>
         \A k \in Inputs : Empty(k) \/ (k >= i /\ \A t \in Slots : Ready(k, t, l))
    /\ phase = "done" => \A k \in Inputs : Empty(k)

OneLength == \A l \in 1..MaxLength : depth = 0 /\ lengths = {l} => Rounds(l)

\* A graph all of whose sources have their frame, or are closed, mixes it.
LEMMA ReadyIsMixed ==
    ASSUME QueueType, NEW k \in Inputs, NEW l \in Nat \ {0},
           \A t \in Slots : Ready(k, t, l), ~CanMix(k)
    PROVE  Empty(k)
  <1>1. \A t \in Slots : queue[k][t] = <<>> \/ t \in Filled(k)
    BY DEF Filled
  <1>2. \A t \in Slots : eof[k][t] \/ t \in Filled(k)
    BY DEF Filled, Ready
  <1>. QED  BY <1>1, <1>2 DEF CanMix, Empty

LEMMA RoundsStep ==
    ASSUME TypeOK, depth = 0, NEW l \in 1..MaxLength, lengths = {l}, Rounds(l), [Next]_vars
    PROVE  Rounds(l)'
  <1>0. /\ QueueType /\ eof \in [Inputs -> [Slots -> BOOLEAN]]
        /\ delayed \in [Inputs -> {0}] /\ i \in 0..Tracks /\ Tracks \in Nat \ {0}
        /\ Inputs \subseteq Nat /\ data_present_in_graph \in BOOLEAN
        /\ \A s \in Inputs : s < Tracks
        /\ l \in Nat \ {0} /\ made \in [Inputs -> Nat]
    BY InputAssumption, LengthAssumption DEF TypeOK, InputTypeOK, QueueType, Inputs
  <1>1. CASE ReadInput
    <2>1. i \in Inputs /\ phase = "read" /\ i' = i + 1
      BY <1>0, <1>1 DEF ReadInput, Inputs
    <2>2. finished' \/ data_present'
      BY <1>1, <2>1, FrameOrEnd DEF ReadInput
    <2>3. \A s \in Inputs : s < i' <=> s < i \/ s = i
      BY <1>0, <2>1
    <2>4. \A k, s \in Inputs : k # s /\ k # i /\ s # i =>
             Slot(k, s) \in Slots /\ Slot(k, s) # Slot(k, i)
      BY <2>1, SlotType, SlotInjective
    <2>5. \A k, s \in Inputs : k # s => Slot(k, s) \in Slots
      BY SlotType
    <2>6. CASE Finish
      <3>1. phase' = "read" /\ queue' = queue /\ UNCHANGED data_present_in_graph
        BY <2>1, <2>6 DEF Finish, WriteEOF
      <3>2. \A k \in Inputs, t \in Slots : eof[k][t] => eof'[k][t]
        BY <1>0, <2>6 DEF Finish, WriteEOF
      <3>3. \A k \in Inputs : k # i => eof'[k][Slot(k, i)]
        BY <1>0, <2>1, <2>5, <2>6 DEF Finish, WriteEOF
      <3>4. ASSUME NEW k \in Inputs, NEW s \in Inputs, k # s
            PROVE  IF s < i' THEN Ready(k, Slot(k, s), l)' ELSE queue'[k][Slot(k, s)] = <<>>
        <4>1. Slot(k, s) \in Slots
          BY <2>5, <3>4
        <4>2. IF s < i THEN Ready(k, Slot(k, s), l) ELSE queue[k][Slot(k, s)] = <<>>
          BY <2>1, <3>4 DEF Rounds
        <4>3. s = i => eof'[k][Slot(k, s)]
          BY <3>3, <3>4
        <4>. QED  BY <1>0, <2>3, <3>1, <3>2, <4>1, <4>2, <4>3 DEF Ready
      <3>5. ~data_present_in_graph' => \A k \in Inputs : Empty(k)'
        BY <2>1, <3>1 DEF Rounds, Empty
      <3>. QED  BY <3>1, <3>4, <3>5 DEF Rounds
    <2>7. CASE Feed(l)
      <3>1. data_present_in_graph'
        BY <2>7 DEF Feed
      <3>2. CASE phase' = "refused"
        BY <3>2 DEF Rounds
      <3>3. CASE WriteFrame(l) /\ UNCHANGED phase
        <4>1. PICK f \in Seq(Samples) : /\ Len(f) = l
                /\ queue' = [k \in Inputs |->
                     IF k = i THEN queue[k] ELSE [queue[k] EXCEPT ![Slot(k, i)] = @ \o f]]
          BY <1>0, <2>1, <3>3, FrameIsSamples DEF WriteFrame
        <4>2. eof' = eof
          BY <3>3 DEF WriteFrame
        <4>3. ASSUME NEW k \in Inputs, NEW s \in Inputs, k # s
              PROVE  IF s < i' THEN Ready(k, Slot(k, s), l)' ELSE queue'[k][Slot(k, s)] = <<>>
          <5>1. Slot(k, s) \in Slots
            BY <2>5, <4>3
          <5>2. IF s < i THEN Ready(k, Slot(k, s), l) ELSE queue[k][Slot(k, s)] = <<>>
            BY <2>1, <4>3 DEF Rounds
          <5>3. CASE s = i
            <6>1. queue[k][Slot(k, s)] = <<>>
              BY <1>0, <5>2, <5>3
            <6>2. queue'[k][Slot(k, s)] = queue[k][Slot(k, s)] \o f
              BY <1>0, <4>1, <4>3, <5>1, <5>3 DEF QueueType
            <6>3. queue'[k][Slot(k, s)] = f
              BY <4>1, <6>1, <6>2, ConcatEmptySeq
            <6>. QED  BY <2>3, <4>1, <5>3, <6>3 DEF Ready
          <5>4. CASE s # i
            <6>1. queue'[k][Slot(k, s)] = queue[k][Slot(k, s)]
              BY <1>0, <2>4, <4>1, <4>3, <5>1, <5>4 DEF QueueType
            <6>. QED  BY <2>3, <4>2, <5>2, <5>4, <6>1 DEF Ready
          <5>. QED  BY <5>3, <5>4
        <4>. QED  BY <2>1, <3>1, <3>3, <4>3 DEF Rounds
      <3>. QED  BY <2>7, <3>2, <3>3 DEF Feed
    <2>. QED  BY <1>1, <2>2, <2>6, <2>7 DEF ReadInput
  \* The next round finds all graphs empty.
  <1>n. ASSUME NextRound, UNCHANGED graphVars, \A k \in Inputs : Empty(k)
        PROVE  Rounds(l)'
    <2>1. \A k \in Inputs : Empty(k)'
      BY <1>n DEF graphVars, Empty
    <2>2. \A k, s \in Inputs : k # s => queue'[k][Slot(k, s)] = <<>>
      BY <2>1, SlotType DEF Empty
    <2>3. phase' \in {"read", "done"} /\ \A s \in Inputs : ~(s < i')
      BY <1>0, <1>n DEF NextRound
    <2>. QED  BY <2>1, <2>2, <2>3 DEF Rounds
  <1>2. CASE StartDrain
    <2>1. phase = "read" /\ i = Tracks /\ phase' = "drain" /\ i' = 0 /\ UNCHANGED graphVars
      BY <1>2 DEF StartDrain
    <2>2. ASSUME NEW k \in Inputs, NEW t \in Slots PROVE Ready(k, t, l)'
      <3>1. PICK s \in Inputs : s # k /\ Slot(k, s) = t
        BY SlotSurjective
      <3>2. Ready(k, Slot(k, s), l)
        BY <1>0, <2>1, <3>1 DEF Rounds
      <3>. QED  BY <2>1, <3>1, <3>2 DEF Ready, graphVars
    <2>3. \A k \in Inputs : k >= i'
      BY <1>0, <2>1
    <2>. QED  BY <2>1, <2>2, <2>3 DEF Rounds
  <1>3. CASE NoData
    BY <1>3, <1>n DEF NoData, Rounds
  <1>4. CASE PullFrame
    <2>1. /\ i \in Inputs /\ phase = "drain" /\ phase' = "drain" /\ i' = i
          /\ eof' = eof /\ CanMix(i)
      BY <1>0, <1>4 DEF PullFrame, loopVars, Inputs
    <2>2. \A t \in Slots : Ready(i, t, l)
      BY <2>1 DEF Rounds, Empty, CanMix, Filled
    <2>3. PICK n \in Nat \ {0} : Mix(n) /\ \E t \in Filled(i) : n = Len(queue[i][t])
      BY <1>0, <1>4, <2>1, PullTakes
    <2>4. n = l
      BY <2>2, <2>3 DEF Filled, Ready
    <2>5. ASSUME NEW t \in Slots PROVE queue'[i][t] = <<>>
      <3>1. queue'[i][t] = SubSeq(queue[i][t], l + 1, Len(queue[i][t]))
        BY <1>0, <2>1, <2>3, <2>4 DEF Mix, QueueType
      <3>2. queue[i][t] \in Seq(Samples) /\ l >= Len(queue[i][t])
        BY <1>0, <2>1, <2>2, EmptySeq DEF Ready, QueueType
      <3>. QED  BY <1>0, <3>1, <3>2, RestOfSamples
    <2>6. \A k \in Inputs : k # i => queue'[k] = queue[k]
      BY <1>0, <2>1, <2>3 DEF Mix, QueueType
    <2>7. ASSUME NEW k \in Inputs
          PROVE  Empty(k)' \/ (k >= i' /\ \A t \in Slots : Ready(k, t, l)')
      <3>1. CASE k = i
        BY <2>5, <3>1 DEF Empty
      <3>2. CASE k # i
        BY <2>1, <2>6, <3>2 DEF Rounds, Empty, Ready
      <3>. QED  BY <3>1, <3>2
    <2>. QED  BY <2>1, <2>7 DEF Rounds
  <1>5. CASE PullNothing
    <2>1. i \in Inputs /\ phase = "drain" /\ ~CanMix(i) /\ UNCHANGED graphVars
      BY <1>0, <1>5 DEF PullNothing, Inputs
    <2>2. Empty(i)
      BY <1>0, <2>1, ReadyIsMixed DEF Rounds
    <2>3. \A k \in Inputs : k >= i => k = i \/ k >= i + 1
      BY <1>0
    <2>4. CASE i = Tracks - 1 /\ NextRound
      <3>1. \A k \in Inputs : k >= i => k = i
        BY <1>0, <2>3, <2>4
      <3>2. \A k \in Inputs : Empty(k)
        BY <2>1, <2>2, <3>1 DEF Rounds
      <3>. QED  BY <1>n, <2>1, <2>4, <3>2
    <2>5. CASE i < Tracks - 1 /\ i' = i + 1 /\ UNCHANGED <<phase, data_present_in_graph>>
      <3>1. \A k \in Inputs : Empty(k) \/ (k >= i' /\ \A t \in Slots : Ready(k, t, l))
        BY <2>1, <2>2, <2>3, <2>5 DEF Rounds
      <3>. QED  BY <2>1, <2>5, <3>1 DEF Rounds, Empty, Ready, graphVars
    <2>. QED  BY <1>5, <2>4, <2>5 DEF PullNothing
  <1>6. CASE OutOfRange \/ ReadFails \/ PullFails
    BY <1>6 DEF OutOfRange, ReadFails, PullFails, Rounds
  <1>7. CASE UNCHANGED vars
    BY <1>7 DEF vars, loopVars, graphVars, Rounds, Ready, Empty
  <1>. QED  BY <1>1, <1>2, <1>3, <1>4, <1>5, <1>6, <1>7 DEF Next, Stopped

LEMMA RoundsInit == Init => OneLength
  <1>. SUFFICES ASSUME Init, NEW l \in 1..MaxLength PROVE Rounds(l)
    BY DEF OneLength
  <1>1. \A k \in Inputs : Empty(k)
    BY DEF Init, Empty
  <1>2. \A s \in Inputs : ~(s < i)
    BY DEF Init, Inputs
  <1>3. \A k, s \in Inputs : k # s => queue[k][Slot(k, s)] = <<>>
    BY <1>1, SlotType DEF Empty
  <1>. QED  BY <1>1, <1>2, <1>3 DEF Init, Rounds

\* Any number of clients and streams of any lengths, with decoders that hold
\* nothing back and frames that all have the same number of samples: what was
\* decoded in a round is mixed in that round, so that the loop ends with empty
\* graphs (filter_audio/RTPReceive.cpp, the loop over the sinks, which tries
\* each one until it gives EAGAIN).  The length may be any.
THEOREM NothingStaysUnheard == Spec => []NothingUnheard
  <1>1. Init => OneLength
    BY RoundsInit
  <1>2. TypeOK /\ OneLength /\ [Next]_vars => OneLength'
    <2>. SUFFICES ASSUME TypeOK, OneLength, [Next]_vars, NEW l \in 1..MaxLength,
                         depth' = 0, lengths' = {l}
                  PROVE  Rounds(l)'
      BY DEF OneLength
    <2>1. depth = 0 /\ lengths = {l}
      BY DepthStays, LengthsStay
    <2>. QED  BY <2>1, RoundsStep DEF OneLength
  <1>3. TypeOK /\ OneLength => NothingUnheard
    <2>. SUFFICES ASSUME TypeOK, OneLength, depth = 0, Cardinality(lengths) = 1, phase = "done"
                  PROVE  \A k \in Inputs, s \in Slots : queue[k][s] = <<>>
      BY DEF NothingUnheard
    <2>1. IsFiniteSet(lengths)
      <3>1. 1 \in Int /\ MaxLength \in Int
        BY LengthAssumption
      <3>2. IsFiniteSet(1..MaxLength)
        BY <3>1, FS_Interval
      <3>3. lengths \in SUBSET (1..MaxLength)
        BY DEF TypeOK
      <3>. QED  BY <3>2, <3>3, FS_Subset
    <2>2. PICK l : lengths = {l}
      BY <2>1, FS_Singleton
    <2>3. l \in 1..MaxLength
      BY <2>2 DEF TypeOK
    <2>4. Rounds(l)
      BY <2>2, <2>3 DEF OneLength
    <2>. QED  BY <2>4 DEF Rounds, Empty
  <1>. QED  BY <1>1, <1>2, <1>3, TypeCorrect, PTL DEF Spec
=============================================================================
