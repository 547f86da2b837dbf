----------------------------- MODULE MCAnnouncer -----------------------------
(***************************************************************************)
(* Instances of Announcer: chunks of four samples, headers of a few bits,  *)
(* and a counter that starts below zero, at zero, and close to a wrap.     *)
(***************************************************************************)
EXTENDS Announcer

SomeAmounts == {-3, 0, 6}
=============================================================================
