--------------------------- MODULE MCOneFilterMixer ---------------------------
(***************************************************************************)
(* Instances of OneFilterMixer: three inputs of every length up to         *)
(* MaxPackets.  One frame of the last input lasts as long as seven of the  *)
(* first, so that the others are read, and may hold a packet back, several *)
(* times while it waits.                                                   *)
(***************************************************************************)
EXTENDS OneFilterMixer

UnlikeFrames == [s \in 0..2 |-> IF s = 2 THEN 7 ELSE s + 1]
=============================================================================
