----------------------------- MODULE BoundedFifo -----------------------------
(***************************************************************************)
(* What a CThreadedCircular promises its users, without threads, locks or  *)
(* condition variables: a queue of at most Capacity items which leave in   *)
(* the order in which they entered, until it is closed and its rest is     *)
(* discarded.  Items are numbered 1, 2, 3, ... in the order of entry.      *)
(* ThreadedCircular implements this specification.                         *)
(***************************************************************************)
EXTENDS Naturals, Sequences

CONSTANTS Capacity, (* the most items the queue ever holds                 *)
          Lossy     (* TRUE: an entry into a full queue drops the oldest   *)

VARIABLES queue,    (* the items that have entered and not left            *)
          entered,  (* how many items have entered                         *)
          handed,   (* the items handed out, in order                      *)
          closed    (* the queue accepts nothing more                      *)

vars == <<queue, entered, handed, closed>>

Init ==
    /\ queue = <<>>
    /\ entered = 0
    /\ handed = <<>>
    /\ closed = FALSE

Enter ==
    /\ ~closed
    /\ entered' = entered + 1
    /\ \/ /\ Len(queue) < Capacity
          /\ queue' = Append(queue, entered + 1)
       \/ /\ Lossy
          /\ Len(queue) = Capacity
          /\ queue' = Append(Tail(queue), entered + 1)
    /\ UNCHANGED <<handed, closed>>

Leave ==
    /\ queue # <<>>
    /\ handed' = Append(handed, Head(queue))
    /\ queue' = Tail(queue)
    /\ UNCHANGED <<entered, closed>>

Close ==
    /\ closed' = TRUE
    /\ UNCHANGED <<queue, entered, handed>>

Discard ==
    /\ closed
    /\ queue' = <<>>
    /\ UNCHANGED <<entered, handed, closed>>

Next == Enter \/ Leave \/ Close \/ Discard

Safety == Init /\ [][Next]_vars

\* A closed queue is eventually emptied.
Spec == Safety /\ WF_vars(Discard)
=============================================================================
