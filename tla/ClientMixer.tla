------------------------------ MODULE ClientMixer ------------------------------
(***************************************************************************)
(* CRTPReceive::process_all of filter_audio/RTPReceive.cpp, the conference *)
(* mixer: every input is a client, and client k has a filter graph of its  *)
(* own, afcx[k] with the sink sinkVec[k], that mixes the Tracks - 1 other  *)
(* inputs into the file of k.  The same loop is in FFMPEGtest2/RTPReceive  *)
(* and in the other versions of filter_audio.                              *)
(*                                                                         *)
(* The test that skipped inputs which are finished or not wanted is        *)
(* commented out in these versions: every input is read in every round.    *)
(* input_finished and input_to_read are written and never read, and are    *)
(* left out but for their length: they have Tracks - 1 elements and are    *)
(* written at index Tracks - 1.                                            *)
(*                                                                         *)
(* The graphs mix samples, and a decoder may give frames of any length:    *)
(* the number of samples in a frame is one of lengths, a set that the      *)
(* streams have chosen before the loop starts.                             *)
(***************************************************************************)
EXTENDS MixerInput, Sequences, FiniteSets

CONSTANT MaxLength  (* bound: the most samples in a frame                  *)

ASSUME TracksAssumption == Tracks > 1
ASSUME LengthAssumption == MaxLength \in Nat \ {0}

Slots == 0..(Tracks - 2)

VARIABLES
    nb_finished,    (* as in the code                                      *)
    data_present_in_graph,
    phase,          (* read, drain; done: returned 0; exit1: error;        *)
                    (* refused: error, a graph did not take a frame;       *)
                    (* crashed: a write outside of a vector                *)
    i,              (* the input that is read, or the client drained       *)
    lengths,        (* how many samples the frames of the streams have     *)
    made,           (* history: made[s], the samples decoded from input s  *)
    queue,          (* queue[k][s]: the samples in source s of k's graph,  *)
                    (* each the pair of its input and its number           *)
    eof,            (* eof[k][s]: a NULL frame was written to that source  *)
    heard           (* history: heard[k], the samples mixed for client k   *)

loopVars == <<nb_finished, data_present_in_graph, phase, i, lengths, made>>
graphVars == <<queue, eof, heard>>
vars == <<inputVars, loopVars, graphVars>>

Samples == Inputs \X (Nat \ {0})

TypeOK ==
    /\ InputTypeOK
    /\ nb_finished \in 0..(2 * Tracks - 1)
    /\ phase = "read" => nb_finished < Tracks + i
    /\ data_present_in_graph \in BOOLEAN
    /\ phase \in {"read", "drain", "done", "exit1", "refused", "crashed"}
    /\ i \in 0..Tracks
    /\ lengths \in SUBSET (1..MaxLength) /\ lengths # {}
    /\ made \in [Inputs -> Nat]
    /\ queue \in [Inputs -> [Slots -> Seq(Samples)]]
    /\ eof \in [Inputs -> [Slots -> BOOLEAN]]
    /\ heard \in [Inputs -> SUBSET Samples]

Init ==
    /\ InputInit
    /\ nb_finished = 0
    /\ data_present_in_graph = FALSE
    /\ phase = "read"
    /\ i = 0
    /\ lengths \in (SUBSET (1..MaxLength)) \ {{}}
    /\ made = [s \in Inputs |-> 0]
    /\ queue = [k \in Inputs |-> [s \in Slots |-> <<>>]]
    /\ eof = [k \in Inputs |-> [s \in Slots |-> FALSE]]
    /\ heard = [k \in Inputs |-> {}]
-----------------------------------------------------------------------------
(* The sources of a client's graph. *)

\* init_filter_graph creates source s of client k's graph with the sample
\* rate, format and layout of this input.
ConfiguredFor(k, s) == IF s < k THEN s ELSE s + 1

\* The two branches of the test that shifts the index are exchanged.
SlotSwapped(k, s) ==
    IF k < s THEN s % (Tracks - 1) ELSE (s + Tracks - 2) % (Tracks - 1)

\* The source of client k's graph that process_all writes input s to.
Slot(k, s) == IF k < s THEN s - 1 ELSE s

\* The NULL frame goes to the source with the number of the input.
WriteEOFUnshifted ==
    /\ eof' = [k \in Inputs |-> IF k = i THEN eof[k]
                                ELSE [eof[k] EXCEPT ![i] = TRUE]]
    /\ UNCHANGED <<queue, heard>>

\* av_buffersrc_write_frame, for every client but the input itself: a NULL
\* frame closes the source; a source that is closed refuses a frame.
WriteEOF ==
    /\ eof' = [k \in Inputs |-> IF k = i THEN eof[k]
                                ELSE [eof[k] EXCEPT ![Slot(k, i)] = TRUE]]
    /\ UNCHANGED <<queue, heard>>

Refused == \E k \in Inputs \ {i} : eof[k][Slot(k, i)]

\* The samples of the frame: the next n of the input.
Frame(n) == [m \in 1..n |-> <<i, made[i] + m>>]

\* The frame goes to the clients after the input only.
WriteFrameBehind(n) ==
    /\ queue' = [k \in Inputs |->
                   IF k <= i THEN queue[k]
                   ELSE [queue[k] EXCEPT ![Slot(k, i)] = @ \o Frame(n)]]
    /\ UNCHANGED <<eof, heard>>

WriteFrame(n) ==
    /\ queue' = [k \in Inputs |->
                   IF k = i THEN queue[k]
                   ELSE [queue[k] EXCEPT ![Slot(k, i)] = @ \o Frame(n)]]
    /\ UNCHANGED <<eof, heard>>
-----------------------------------------------------------------------------
(* The loop over the inputs. *)

\* input_to_read[Tracks - 1], written for the last input and when a round gave
\* no data, is past the end of the vector: the process may die of it.
OutOfRange ==
    /\ phase = "read"
    /\ i = Tracks - 1 \/ (i = Tracks /\ ~data_present_in_graph)
    /\ phase' = "crashed"
    /\ UNCHANGED <<inputVars, graphVars, nb_finished, data_present_in_graph,
                   i, lengths, made>>

\* The input that ends is not counted.
FinishUncounted ==
    /\ WriteEOF
    /\ UNCHANGED <<nb_finished, data_present_in_graph, phase, made>>

Finish ==
    /\ nb_finished' = nb_finished + 1
    /\ WriteEOF
    /\ UNCHANGED <<data_present_in_graph, phase, made>>

\* A decoded frame of n samples goes to the graphs of the other clients.
Feed(n) ==
    /\ made' = [made EXCEPT ![i] = @ + n]
    /\ data_present_in_graph' = TRUE
    /\ UNCHANGED nb_finished
    /\ \/ /\ ~Refused
          /\ WriteFrame(n)
          /\ UNCHANGED phase
       \/ /\ Refused
          /\ phase' = "refused"
          /\ UNCHANGED graphVars

NoFrame == UNCHANGED <<graphVars, nb_finished, data_present_in_graph, phase,
                       made>>

ReadInput ==
    /\ phase = "read" /\ i < Tracks
    /\ i' = i + 1
    /\ DecodeAudioFrame(i)
    /\ \/ finished' /\ ~data_present' /\ Finish
       \/ data_present' /\ \E n \in lengths : Feed(n)
       \/ ~finished' /\ ~data_present' /\ NoFrame
    /\ UNCHANGED lengths

\* decode_audio_frame returns an error other than the end of the file.
ReadFails ==
    /\ phase = "read" /\ i < Tracks
    /\ phase' = "exit1"
    /\ UNCHANGED <<inputVars, graphVars, nb_finished, data_present_in_graph,
                   i, lengths, made>>
-----------------------------------------------------------------------------
(* The loop over the clients. *)

\* The loop waits for exactly tracks ends: while (nb_finished != tracks).
NextRoundExact ==
    /\ phase' = IF nb_finished # Tracks THEN "read" ELSE "done"
    /\ i' = 0
    /\ data_present_in_graph' = FALSE

\* while (nb_finished < tracks)
NextRound ==
    /\ phase' = IF nb_finished < Tracks THEN "read" ELSE "done"
    /\ i' = 0
    /\ data_present_in_graph' = FALSE

StartDrain ==
    /\ phase = "read" /\ i = Tracks
    /\ data_present_in_graph
    /\ phase' = "drain"
    /\ i' = 0
    /\ UNCHANGED <<inputVars, graphVars, nb_finished, data_present_in_graph,
                   lengths, made>>

NoData ==
    /\ phase = "read" /\ i = Tracks
    /\ ~data_present_in_graph
    /\ NextRound
    /\ UNCHANGED <<inputVars, graphVars, nb_finished, lengths, made>>

\* amix gives a frame when every source that is not closed holds samples: as
\* many as the shortest of those has that hold any.
Filled(k) == {s \in Slots : queue[k][s] # <<>>}
CanMix(k) == /\ Filled(k) # {}
             /\ \A s \in Slots : eof[k][s] \/ s \in Filled(k)
Shortest(k) == {t \in Filled(k) :
                  \A s \in Filled(k) : Len(queue[k][t]) <= Len(queue[k][s])}

\* The next n samples of every source that holds any are mixed.
Mix(n) ==
    /\ heard' = [heard EXCEPT ![i] =
                   @ \cup {queue[i][s][m] : s \in Filled(i), m \in 1..n}]
    /\ queue' = [queue EXCEPT ![i] =
                   [s \in Slots |-> SubSeq(@[s], n + 1, Len(@[s]))]]

PullFrame ==
    /\ phase = "drain" /\ i < Tracks
    /\ CanMix(i)
    /\ \E t \in Shortest(i) : Mix(Len(queue[i][t]))
    /\ data_present' \in BOOLEAN
    /\ UNCHANGED <<depth, left, delayed, finished, loopVars, eof>>

\* Only the first client's sink is drained.
PullFirstClient ==
    /\ phase = "drain" /\ i < Tracks
    /\ ~CanMix(i)
    /\ NextRound
    /\ UNCHANGED <<inputVars, graphVars, nb_finished, lengths, made>>

PullNothing ==
    /\ phase = "drain" /\ i < Tracks
    /\ ~CanMix(i)
    /\ \/ /\ i < Tracks - 1
          /\ i' = i + 1
          /\ UNCHANGED <<phase, data_present_in_graph>>
       \/ /\ i = Tracks - 1
          /\ NextRound
    /\ UNCHANGED <<inputVars, graphVars, nb_finished, lengths, made>>

PullFails ==
    /\ phase = "drain" /\ i < Tracks
    /\ phase' = "exit1"
    /\ UNCHANGED <<inputVars, graphVars, nb_finished, data_present_in_graph,
                   i, lengths, made>>

Stopped ==
    /\ phase \in {"done", "exit1", "refused", "crashed"}
    /\ UNCHANGED vars
-----------------------------------------------------------------------------
Next ==
    \/ OutOfRange \/ ReadInput \/ ReadFails
    \/ StartDrain \/ NoData
    \/ PullFrame \/ PullNothing \/ PullFails
    \/ Stopped

Spec == Init /\ [][Next]_vars
FairSpec == Spec /\ WF_vars(Next)
-----------------------------------------------------------------------------
(* Properties *)

HeardBy(k, s) == {f \in heard[k] : f[1] = s}
Unheard(k, s) == queue[k][Slot(k, s)]

\* A client hears every other client and never itself: the samples of input s
\* go to the source that was configured for its format, and those k heard
\* are the first ones of s, the rest of which waits in order.
HearsTheOthers ==
    \A k \in Inputs : \A s \in Inputs :
      IF k = s
      THEN HeardBy(k, s) = {}
      ELSE /\ ConfiguredFor(k, Slot(k, s)) = s
           /\ \E n \in 0..made[s] :
                /\ HeardBy(k, s) = {<<s, m>> : m \in 1..n}
                /\ phase # "refused" =>
                     Unheard(k, s) = [m \in 1..(made[s] - n) |-> <<s, n + m>>]

HeardAll(k, s) == HeardBy(k, s) = {<<s, m>> : m \in 1..made[s]}

\* At the start of a round a client that has not heard all there is of an
\* input waits for a third one, all of which it heard and whose end its graph
\* has not been told: no graph is behind by what it could have mixed,
\* whatever the lengths of the frames are.  (With decoders that hold nothing
\* back.)
NeverBehind ==
    (depth = 0 /\ phase = "read" /\ i = 0) =>
      \A k, s \in Inputs :
        s # k => \/ HeardAll(k, s)
                 \/ \E t \in Inputs \ {k, s} : /\ ~eof[k][Slot(k, t)]
                                              /\ HeardAll(k, t)

\* With decoders that hold nothing back and frames that are all of one
\* length nothing that was decoded is left in a graph when the loop ends.
NothingUnheard ==
    (depth = 0 /\ Cardinality(lengths) = 1 /\ phase = "done") =>
      \A k \in Inputs, s \in Slots : queue[k][s] = <<>>

\* With decoders that hold nothing back no graph refuses a frame: an input
\* that was declared finished never has another one.
NeverRefused == depth = 0 => phase # "refused"

\* Comment before the test: "if we are at the end of the file and there are
\* no more samples in the decoder which are delayed, we are actually
\* finished": the loop counts inputs that are finished.
CountsFinishedInputs ==
    nb_finished <= Cardinality({s \in Inputs : AtEnd(s)})

\* The loop ends once the inputs do.
Terminates == <>(phase \in {"done", "exit1", "refused", "crashed"})
=============================================================================
