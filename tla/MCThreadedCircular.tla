-------------------------- MODULE MCThreadedCircular --------------------------
(***************************************************************************)
(* The instances of ThreadedCircular that TLC checks.  The threads of one  *)
(* role are interchangeable; the runs of temporal properties do not use    *)
(* that symmetry.                                                          *)
(***************************************************************************)
EXTENDS ThreadedCircular, TLC

Interchangeable == Permutations(Pushers) \cup Permutations(Poppers)
=============================================================================
