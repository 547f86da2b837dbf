------------------------------ MODULE MixerInput ------------------------------
(***************************************************************************)
(* The inputs of a mixer (ifcx[i], iccx[i]) and decode_audio_frame, which  *)
(* every version of CRTPReceive::process_all shares.  libavformat and      *)
(* libavcodec are external: an input is a file or stream of some number of *)
(* packets, and its decoder may keep up to depth frames back before it     *)
(* gives one out, and gives out the rest when it is flushed at the end.    *)
(***************************************************************************)
EXTENDS Naturals

CONSTANTS
    Tracks,     (* tracks, the number of inputs                            *)
    MaxPackets, (* bound: the most packets an input has                    *)
    MaxDelay    (* bound: the most frames a decoder holds back             *)

Inputs == 0..(Tracks - 1)

ASSUME InputAssumption ==
    /\ Tracks \in Nat \ {0}
    /\ MaxPackets \in Nat
    /\ MaxDelay \in Nat

VARIABLES
    depth,         (* how many frames the decoders hold back; 0 for PCM    *)
    left,          (* left[i]: packets of input i not read yet             *)
    delayed,       (* delayed[i]: frames inside the decoder of input i     *)
    data_present,  (* the last decode call gave a frame (one for all)      *)
    finished       (* the end-of-file flag (one for all inputs)            *)

inputVars == <<depth, left, delayed, data_present, finished>>

InputTypeOK ==
    /\ depth \in 0..MaxDelay
    /\ left \in [Inputs -> 0..MaxPackets]
    /\ delayed \in [Inputs -> 0..depth]
    /\ data_present \in BOOLEAN
    /\ finished \in BOOLEAN

InputInit ==
    /\ depth \in 0..MaxDelay
    /\ left \in [Inputs -> 0..MaxPackets]
    /\ delayed = [i \in Inputs |-> 0]
    /\ data_present = FALSE
    /\ finished = FALSE

\* The input is at the end of its file and the decoder holds nothing back.
AtEnd(i) == left[i] = 0 /\ delayed[i] = 0

\* A packet was read: the decoder gives a frame, or keeps it.  finished is
\* not set, but it is only reset when there is a frame.
DecodePacket(i) ==
    /\ left[i] > 0
    /\ left' = [left EXCEPT ![i] = @ - 1]
    /\ \/ /\ data_present' = TRUE
          /\ UNCHANGED delayed
       \/ /\ data_present' = FALSE
          /\ delayed[i] < depth
          /\ delayed' = [delayed EXCEPT ![i] = @ + 1]
    /\ finished' = (finished /\ ~data_present')
    /\ UNCHANGED depth

\* End of file: the decoder is flushed by one frame, if it holds any.
DecodeAtEOF(i) ==
    /\ left[i] = 0
    /\ data_present' = (delayed[i] > 0)
    /\ delayed' = [delayed EXCEPT ![i] = IF @ > 0 THEN @ - 1 ELSE 0]
    /\ finished' = ~data_present'
    /\ UNCHANGED <<depth, left>>

\* decode_audio_frame when it returns 0.  Its errors end the process: see
\* the modules that use it.
DecodeAudioFrame(i) == DecodePacket(i) \/ DecodeAtEOF(i)
=============================================================================
