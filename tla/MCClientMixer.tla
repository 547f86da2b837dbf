---------------------------- MODULE MCClientMixer ----------------------------
(***************************************************************************)
(* Instances of ClientMixer: the three clients of the code, with streams   *)
(* of every length up to MaxPackets.                                       *)
(***************************************************************************)
EXTENDS ClientMixer
=============================================================================
