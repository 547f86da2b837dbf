-------------------------- MODULE MCCircularVariants --------------------------
(***************************************************************************)
(* Two other uses of ThreadedCircular, in one instance.  frames: the       *)
(* buffer of FFMPEGtest2, whose pop(max) removes a frame after max + 1     *)
(* reads, with two readers and a viewer.  ring: bBlockIN is false, a full  *)
(* buffer drops its oldest item; a popper, a viewer and a poller.          *)
(***************************************************************************)
EXTENDS ThreadedCircular

CONSTANT SecondPopper   (* the reader that only the frames have            *)

VARIABLE variant   (* frames or ring                                       *)

Ring == INSTANCE ThreadedCircular WITH
            BlockIn <- FALSE, MaxReads <- 0, Poppers <- Poppers \ {SecondPopper}

variantVars == <<vars, variant>>

\* Nobody polls frames.
FrameNext == Next /\ \A x \in Pollers : ~TryPop

VariantNext == /\ \/ variant = "frames" /\ FrameNext
                  \/ variant = "ring" /\ Ring!Next
               /\ UNCHANGED variant

VariantSpec == /\ Init /\ variant \in {"frames", "ring"}
               /\ [][VariantNext]_variantVars
               /\ variant = "ring" => Ring!Fairness

\* Frames are read in full: see ReadInFull.
FramesReadInFull == variant = "frames" => ReadInFull

\* With bBlockIN false the buffer is the queue that drops its oldest item:
\* its steps are steps of that queue, and once terminated it is emptied.
ringQueue == <<buffer, pushed, handed, terminated>>
RingSafety ==
    /\ variant = "ring" => Ring!Fifo!Init
    /\ [][variant = "ring" => Ring!Fifo!Next]_ringQueue
RingIsFifo == RingSafety /\ (variant = "ring" => WF_ringQueue(Ring!Fifo!Discard))
=============================================================================
