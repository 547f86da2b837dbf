----------------------------- MODULE MCMgcpRelay -----------------------------
(***************************************************************************)
(* The instance of MgcpRelay that TLC checks: two agents that share one    *)
(* relay, behaviours in which only one of them asks included.              *)
(***************************************************************************)
EXTENDS MgcpRelay
=============================================================================
