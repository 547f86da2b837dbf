---------------------------- MODULE OneFilterMixer ----------------------------
(***************************************************************************)
(* CRTPReceive::process_all of filter_audio(1-1filter): all inputs are     *)
(* mixed by one filter graph into one output.  An input is read only when  *)
(* the graph asked for it (input_to_read), so that inputs whose frames     *)
(* have different lengths stay together.  The same loop is in CFilter.cpp  *)
(* and backupINET.cpp.                                                     *)
(*                                                                         *)
(* The filter graph is external.  Source i of it holds pending[i] samples; *)
(* the sink gives a mixed frame when every source that is not at its end   *)
(* holds some, and otherwise asks some of the sources that lack samples    *)
(* for more (av_buffersrc_get_nb_failed_requests).                         *)
(***************************************************************************)
EXTENDS MixerInput, FiniteSets

CONSTANT FrameSize   (* FrameSize[i]: the samples in a frame of input i    *)

ASSUME FrameSizeAssumption == FrameSize \in [Inputs -> Nat \ {0}]

VARIABLES
    input_finished,  (* as in the code, per input                          *)
    input_to_read,   (* as in the code, per input                          *)
    nb_finished,     (* how often an input was counted as finished         *)
    data_present_in_graph,
    phase,           (* read: in the loop over the inputs; drain: pulling  *)
                     (* from the sink; done: returned 0; exit1: error      *)
    i,               (* the input the loop is at                           *)
    pending,         (* pending[s]: samples queued in graph source s       *)
    eof,             (* eof[s]: a NULL frame was written to source s       *)
    failed           (* failed[s]: source s has failed requests            *)

graphVars == <<pending, eof, failed>>
loopVars == <<input_finished, input_to_read, nb_finished,
              data_present_in_graph, phase, i>>
vars == <<inputVars, loopVars, graphVars>>

TypeOK ==
    /\ InputTypeOK
    /\ input_finished \in [Inputs -> BOOLEAN]
    /\ input_to_read \in [Inputs -> BOOLEAN]
    /\ nb_finished \in Nat
    /\ data_present_in_graph \in BOOLEAN
    /\ phase \in {"read", "drain", "done", "exit1"}
    /\ i \in 0..Tracks
    /\ pending \in [Inputs -> Nat]
    /\ eof \in [Inputs -> BOOLEAN]
    /\ failed \in [Inputs -> BOOLEAN]

Init ==
    /\ InputInit
    /\ input_finished = [s \in Inputs |-> FALSE]
    /\ input_to_read = [s \in Inputs |-> TRUE]
    /\ nb_finished = 0
    /\ data_present_in_graph = FALSE
    /\ phase = "read"
    /\ i = 0
    /\ pending = [s \in Inputs |-> 0]
    /\ eof = [s \in Inputs |-> FALSE]
    /\ failed = [s \in Inputs |-> FALSE]
-----------------------------------------------------------------------------
(* The external filter graph. *)

\* av_buffersrc_write_frame(afcx[i], NULL)
WriteEOF(s) ==
    /\ eof' = [eof EXCEPT ![s] = TRUE]
    /\ failed' = [failed EXCEPT ![s] = FALSE]
    /\ UNCHANGED pending

\* av_buffersrc_write_frame(afcx[i], frame), which refuses a source at EOF.
WriteFrame(s) ==
    /\ ~eof[s]
    /\ pending' = [pending EXCEPT ![s] = @ + FrameSize[s]]
    /\ failed' = [failed EXCEPT ![s] = FALSE]
    /\ UNCHANGED eof

Active == {s \in Inputs : pending[s] > 0}
Starved == {s \in Inputs : pending[s] = 0 /\ ~eof[s]}
CanMix == Active # {} /\ Starved = {}
-----------------------------------------------------------------------------
(* The loop over the inputs. *)

\* if (input_finished[i] || input_to_read[i] == 0) continue;
SkipInput ==
    /\ phase = "read" /\ i < Tracks
    /\ input_finished[i] \/ ~input_to_read[i]
    /\ i' = i + 1
    /\ UNCHANGED <<inputVars, graphVars, input_finished, input_to_read,
                   nb_finished, data_present_in_graph, phase>>

\* No frame and the flag says end of file: the input is counted and its
\* source closed.
Finish ==
    /\ input_finished' = [input_finished EXCEPT ![i] = TRUE]
    /\ nb_finished' = nb_finished + 1
    /\ WriteEOF(i)
    /\ UNCHANGED <<data_present_in_graph, phase>>

\* A frame goes into the graph; a refusal is an error.
Feed ==
    /\ UNCHANGED <<input_finished, nb_finished>>
    /\ \/ /\ WriteFrame(i)
          /\ data_present_in_graph' = TRUE
          /\ UNCHANGED phase
       \/ /\ eof[i]
          /\ phase' = "exit1"
          /\ UNCHANGED <<graphVars, data_present_in_graph>>

\* Neither: the decoder kept the packet.
NoFrame == UNCHANGED <<graphVars, input_finished, nb_finished,
                       data_present_in_graph, phase>>

\* The body of the loop without the skip test before it.
ReadAnyInput ==
    /\ phase = "read" /\ i < Tracks
    /\ input_to_read' = [input_to_read EXCEPT ![i] = FALSE]
    /\ i' = i + 1
    /\ DecodeAudioFrame(i)
    /\ \/ finished' /\ ~data_present' /\ Finish
       \/ data_present' /\ Feed
       \/ ~finished' /\ ~data_present' /\ NoFrame

\* The loop skips finished inputs only, not those nobody asked for.
ReadUnwantedInput ==
    /\ phase = "read" /\ i < Tracks
    /\ ~input_finished[i]
    /\ input_to_read' = [input_to_read EXCEPT ![i] = FALSE]
    /\ i' = i + 1
    /\ DecodeAudioFrame(i)
    /\ \/ finished' /\ ~data_present' /\ Finish
       \/ data_present' /\ Feed
       \/ ~finished' /\ ~data_present' /\ NoFrame

ReadInput ==
    /\ phase = "read" /\ i < Tracks
    /\ ~input_finished[i] /\ input_to_read[i]
    /\ input_to_read' = [input_to_read EXCEPT ![i] = FALSE]
    /\ i' = i + 1
    /\ DecodeAudioFrame(i)
    /\ \/ finished' /\ ~data_present' /\ Finish
       \/ data_present' /\ Feed
       \/ ~finished' /\ ~data_present' /\ NoFrame

\* Any error of av_read_frame is taken for the end of the file.
ReadFailureFinishes ==
    /\ phase = "read" /\ i < Tracks
    /\ ~input_finished[i] /\ input_to_read[i]
    /\ left[i] > 0
    /\ input_to_read' = [input_to_read EXCEPT ![i] = FALSE]
    /\ i' = i + 1
    /\ Finish
    /\ UNCHANGED inputVars

\* decode_audio_frame returns an error other than the end of the file.
ReadFails ==
    /\ phase = "read" /\ i < Tracks
    /\ ~input_finished[i] /\ input_to_read[i]
    /\ input_to_read' = [input_to_read EXCEPT ![i] = FALSE]
    /\ phase' = "exit1"
    /\ UNCHANGED <<inputVars, graphVars, input_finished, nb_finished,
                   data_present_in_graph, i>>
-----------------------------------------------------------------------------
(* After the loop over the inputs. *)

\* while (nb_finished < tracks)
NextRound ==
    /\ phase' = IF nb_finished < Tracks THEN "read" ELSE "done"
    /\ i' = 0
    /\ data_present_in_graph' = FALSE

StartDrain ==
    /\ phase = "read" /\ i = Tracks
    /\ data_present_in_graph
    /\ phase' = "drain"
    /\ UNCHANGED <<inputVars, graphVars, input_finished, input_to_read,
                   nb_finished, data_present_in_graph, i>>

\* A round without data leaves input_to_read as it is.
NoDataIdle ==
    /\ phase = "read" /\ i = Tracks
    /\ ~data_present_in_graph
    /\ NextRound
    /\ UNCHANGED <<inputVars, graphVars, input_finished, input_to_read,
                   nb_finished>>

\* No data in graph: every input may be read again.
NoData ==
    /\ phase = "read" /\ i = Tracks
    /\ ~data_present_in_graph
    /\ input_to_read' = [s \in Inputs |-> TRUE]
    /\ NextRound
    /\ UNCHANGED <<inputVars, graphVars, input_finished, nb_finished>>

\* The mix is as long as what the fullest source holds.
PullLongest ==
    /\ phase = "drain"
    /\ CanMix
    /\ \E samples \in {pending[s] : s \in Active} :
         /\ \A s \in Active : samples >= pending[s]
         /\ pending' = [s \in Inputs |->
                IF s \in Active THEN pending[s] - samples ELSE 0]
    /\ data_present' \in BOOLEAN
    /\ UNCHANGED <<depth, left, delayed, finished, loopVars, eof, failed>>

\* The sink gives a frame, which is encoded and written: encode_audio_frame
\* leaves in data_present whether the encoder gave a packet.
PullFrame ==
    /\ phase = "drain"
    /\ CanMix
    /\ \E samples \in {pending[s] : s \in Active} :
         /\ \A s \in Active : samples <= pending[s]
         /\ pending' = [s \in Inputs |->
                IF s \in Active THEN pending[s] - samples ELSE 0]
    /\ data_present' \in BOOLEAN
    /\ UNCHANGED <<depth, left, delayed, finished, loopVars, eof, failed>>

\* EAGAIN: the sources asked in vain are to be read, or EOF: nobody is.
PullNothing ==
    /\ phase = "drain"
    /\ ~CanMix
    /\ \E asked \in SUBSET Starved :
         /\ Starved # {} => asked # {}
         /\ failed' = [s \in Inputs |-> failed[s] \/ s \in asked]
         /\ input_to_read' = [s \in Inputs |-> input_to_read[s] \/ failed'[s]]
    /\ NextRound
    /\ UNCHANGED <<inputVars, pending, eof, input_finished,
                   nb_finished>>

\* The encoder, the muxer or the sink reports an error.
PullFails ==
    /\ phase = "drain"
    /\ phase' = "exit1"
    /\ UNCHANGED <<inputVars, graphVars, input_finished, input_to_read,
                   nb_finished, data_present_in_graph, i>>

Stopped ==
    /\ phase \in {"done", "exit1"}
    /\ UNCHANGED vars
-----------------------------------------------------------------------------
Next ==
    \/ SkipInput \/ ReadInput \/ ReadFails
    \/ StartDrain \/ NoData
    \/ PullFrame \/ PullNothing \/ PullFails
    \/ Stopped

Spec == Init /\ [][Next]_vars

\* One thread that never waits.
FairSpec == Spec /\ WF_vars(Next)
-----------------------------------------------------------------------------
(* Properties *)

\* An input is counted as finished once: the test nb_finished < Tracks, which
\* ends the loop, asks whether some input is not finished yet.
CountedOnce == nb_finished = Cardinality({s \in Inputs : input_finished[s]})

\* Comment before the test: "if we are at the end of the file and there are
\* no more samples in the decoder which are delayed, we are actually
\* finished".  The flag of another input must not finish this one.
FinishedAtEnd == \A s \in Inputs : input_finished[s] => AtEnd(s)

\* With decoders that hold nothing back, as those of the PCM streams the
\* programs are fed with, the shared flag does no harm.
FinishedWithoutDelay == depth = 0 => FinishedAtEnd

\* An input is only read ahead of the mix in a round in which another input
\* ended or the decoder of another held a packet back, which each does depth
\* times at most: frames do not pile up in the graph, however long the inputs
\* are and however different the lengths of their frames.
Bounded ==
    \A s \in Inputs :
      pending[s] <= (1 + nb_finished + depth * (Tracks - 1)) * FrameSize[s]

\* The loop comes to an end: the graph always asks for an input that still
\* has something to give.
Terminates == <>(phase \in {"done", "exit1"})
=============================================================================
