--------------------------- MODULE ThreadedCircular ---------------------------
(***************************************************************************)
(* CThreadedCircular: a boost::circular_buffer shared by threads under one *)
(* mutex, with the condition variables condNotFull_ and condNotEmpty_ and  *)
(* the atomic flag bTerminated_ (SocketTest/TemplateStack.h, and, with     *)
(* frames that are read several times, FFMPEGtest2/Utils.h).               *)
(*                                                                         *)
(* Every method call is cut where another thread can interfere: at the     *)
(* acquisition of the mutex, at the wait, which releases it, and between   *)
(* two reads of bTerminated_, which terminate and resume store without     *)
(* holding the mutex.  A set of threads is given for each method; a thread *)
(* that calls several methods in turn is one member of each set.           *)
(***************************************************************************)
EXTENDS Naturals, Sequences, FiniteSets

CONSTANTS
    Pushers,     (* the threads that call push                             *)
    Poppers,     (* the threads that call pop                              *)
    Viewers,     (* the threads that call show                             *)
    Pollers,     (* the threads that call try_pop                          *)
    Terminators, (* the threads that call terminate                        *)
    Resumers,    (* the threads that call resume                           *)
    Capacity,    (* sz, the size of the buffer                             *)
    BlockIn,     (* bBlockIN_: push waits while the buffer is full         *)
    MaxReads,    (* the argument of pop(max); 0 for TemplateStack.h's pop  *)
    MaxItems     (* bound: how many items are pushed                       *)

ASSUME CapacityAssumption == Capacity \in Nat \ {0}
ASSUME BoundsAssumption == MaxReads \in Nat /\ MaxItems \in Nat
ASSUME BlockInAssumption == BlockIn \in BOOLEAN
ASSUME RolesAssumption ==
    /\ Pushers \cap (Poppers \cup Viewers \cup Terminators) = {}
    /\ Poppers \cap (Viewers \cup Terminators) = {}
    /\ Viewers \cap Terminators = {}

VARIABLES
    buffer,      (* buffer_: the items in it, each the number of its push  *)
    reads,       (* buffer_.front().reads; 0 when the buffer is empty      *)
    terminated,  (* bTerminated_                                           *)
    pc,          (* where each thread that can be inside a method is       *)
    pushed,      (* history: how many items push put in the buffer         *)
    handed,      (* history: the items pop and try_pop returned, in order  *)
    aborted      (* an assert has failed and the process is gone           *)

vars == <<buffer, reads, terminated, pc, pushed, handed, aborted>>

Threads == Pushers \cup Poppers \cup Viewers \cup Terminators

\* idle: outside; test: holds the mutex, about to evaluate the predicate of
\* the wait; go: holds the mutex, past the wait; asleep: in the wait; woken:
\* notified, has to take the mutex again; clear: in terminate, flag stored.
Stages == {"idle", "test", "go", "asleep", "woken", "clear"}

TypeOK ==
    /\ buffer \in Seq(Nat \ {0})
    /\ Len(buffer) <= Capacity
    /\ reads \in 0..MaxReads
    /\ terminated \in BOOLEAN
    /\ pc \in [Threads -> Stages]
    /\ pushed \in Nat
    /\ handed \in Seq(Nat \ {0})
    /\ aborted \in BOOLEAN

Init ==
    /\ buffer = <<>>
    /\ reads = 0
    /\ terminated = FALSE
    /\ pc = [t \in Threads |-> "idle"]
    /\ pushed = 0
    /\ handed = <<>>
    /\ aborted = FALSE
-----------------------------------------------------------------------------
(* The mutex and the two condition variables. *)

Holds(t) == pc[t] \in {"test", "go"}
MutexFree == ~aborted /\ \A t \in Threads : ~Holds(t)

FullOneLate == Len(buffer) = Capacity + 1
Full == Len(buffer) = Capacity

WaitingNotFull == {p \in Pushers : pc[p] = "asleep"}
WaitingNotEmpty == {c \in Poppers \cup Viewers : pc[c] = "asleep"}

\* The thread states notify_one can lead to from the thread states f: one of
\* the waiters W is woken, if there is one.
NotifyOne(f, W) ==
    IF W = {} THEN {f} ELSE {[f EXCEPT ![w] = "woken"] : w \in W}

\* A thread that enters a method takes the mutex.
Enter(t, stage) ==
    /\ pc[t] = "idle"
    /\ MutexFree
    /\ pc' = [pc EXCEPT ![t] = stage]
    /\ UNCHANGED <<buffer, reads, terminated, pushed, handed, aborted>>

\* wait(lk, predicate): the predicate is evaluated with the mutex held.
Test(t, predicate) ==
    /\ ~aborted
    /\ pc[t] = "test"
    /\ pc' = [pc EXCEPT ![t] = IF predicate THEN "go" ELSE "asleep"]
    /\ UNCHANGED <<buffer, reads, terminated, pushed, handed, aborted>>

\* A wait without its loop: the predicate is not evaluated again.
ReacquireWithoutTest(t) ==
    /\ pc[t] = "woken"
    /\ MutexFree
    /\ pc' = [pc EXCEPT ![t] = "go"]
    /\ UNCHANGED <<buffer, reads, terminated, pushed, handed, aborted>>

\* A woken thread takes the mutex and evaluates the predicate again.
Reacquire(t) ==
    /\ pc[t] = "woken"
    /\ MutexFree
    /\ pc' = [pc EXCEPT ![t] = "test"]
    /\ UNCHANGED <<buffer, reads, terminated, pushed, handed, aborted>>

\* std::condition_variable may wake a thread that nobody notified.
SpuriousWake(t) ==
    /\ ~aborted
    /\ pc[t] = "asleep"
    /\ pc' = [pc EXCEPT ![t] = "woken"]
    /\ UNCHANGED <<buffer, reads, terminated, pushed, handed, aborted>>

\* An assert fails: the process ends.
AssertFails ==
    /\ aborted' = TRUE
    /\ UNCHANGED <<buffer, reads, terminated, pc, pushed, handed>>
-----------------------------------------------------------------------------
(* push *)

\* Bound: the pushes under way and done are at most MaxItems.
PushCall(p) ==
    /\ pushed + Cardinality({q \in Pushers : pc[q] # "idle"}) < MaxItems
    /\ Enter(p, IF BlockIn THEN "test" ELSE "go")

PushTest(p) == Test(p, ~Full \/ terminated)

\* buffer_.push_back: a full circular buffer overwrites its oldest element.
PushBack(x) ==
    /\ buffer' = Append(IF Full THEN Tail(buffer) ELSE buffer, x)
    /\ reads' = IF Full THEN 0 ELSE reads

\* push notifies only when the buffer was empty.
PushNotifiesFirstOnly(p) ==
    /\ PushBack(pushed + 1)
    /\ pushed' = pushed + 1
    /\ pc' \in NotifyOne([pc EXCEPT ![p] = "idle"],
                         IF buffer = <<>> THEN WaitingNotEmpty ELSE {})
    /\ UNCHANGED <<terminated, handed, aborted>>

\* push notifies the condition variable it waits on itself.
PushNotifiesNotFull(p) ==
    /\ PushBack(pushed + 1)
    /\ pushed' = pushed + 1
    /\ pc' \in NotifyOne([pc EXCEPT ![p] = "idle"], WaitingNotFull)
    /\ UNCHANGED <<terminated, handed, aborted>>

PushAccept(p) ==
    /\ PushBack(pushed + 1)
    /\ pushed' = pushed + 1
    /\ pc' \in NotifyOne([pc EXCEPT ![p] = "idle"], WaitingNotEmpty)
    /\ UNCHANGED <<terminated, handed, aborted>>

\* if (!bTerminated_): otherwise the value is dropped without a word.
PushBody(p) ==
    /\ ~aborted
    /\ pc[p] = "go"
    /\ \/ /\ terminated
          /\ pc' = [pc EXCEPT ![p] = "idle"]
          /\ UNCHANGED <<buffer, reads, terminated, pushed, handed, aborted>>
       \/ /\ ~terminated
          /\ BlockIn /\ Full
          /\ AssertFails
       \/ /\ ~terminated
          /\ ~(BlockIn /\ Full)
          /\ PushAccept(p)
-----------------------------------------------------------------------------
(* pop, show and try_pop *)

PopCall(c) == Enter(c, "test")
PopTest(c) == Test(c, buffer # <<>> \/ terminated)

\* The element is handed out and stays in front.
TakeFrontKeeps ==
    /\ handed' = Append(handed, Head(buffer))
    /\ UNCHANGED <<buffer, reads>>

\* The count is compared after this read, not before it.
TakeFrontOneRead ==
    /\ handed' = Append(handed, Head(buffer))
    /\ \/ /\ reads + 1 >= MaxReads
          /\ buffer' = Tail(buffer)
          /\ reads' = 0
       \/ /\ reads + 1 < MaxReads
          /\ reads' = reads + 1
          /\ UNCHANGED buffer

\* The copy returned carries the count before this read, so that the element
\* leaves with read number MaxReads + 1.
TakeFront ==
    /\ handed' = Append(handed, Head(buffer))
    /\ \/ /\ reads = MaxReads
          /\ buffer' = Tail(buffer)
          /\ reads' = 0
       \/ /\ reads # MaxReads
          /\ reads' = reads + 1
          /\ UNCHANGED buffer

PopBody(c) ==
    /\ ~aborted
    /\ pc[c] = "go"
    /\ \/ /\ terminated
          /\ pc' = [pc EXCEPT ![c] = "idle"]
          /\ UNCHANGED <<buffer, reads, terminated, pushed, handed, aborted>>
       \/ /\ ~terminated
          /\ buffer = <<>>
          /\ AssertFails
       \/ /\ ~terminated
          /\ buffer # <<>>
          /\ TakeFront
          /\ pc' \in NotifyOne([pc EXCEPT ![c] = "idle"], WaitingNotFull)
          /\ UNCHANGED <<terminated, pushed, aborted>>

\* show(0): the same wait as pop, but nothing leaves the buffer.  A larger
\* index can be out of range whatever the caller knows: see the README.
ShowBody(v) ==
    /\ ~aborted
    /\ pc[v] = "go"
    /\ \/ /\ terminated
          /\ pc' = [pc EXCEPT ![v] = "idle"]
          /\ UNCHANGED <<buffer, reads, terminated, pushed, handed, aborted>>
       \/ /\ ~terminated
          /\ buffer = <<>>
          /\ AssertFails
       \/ /\ ~terminated
          /\ buffer # <<>>
          /\ pc' \in NotifyOne([pc EXCEPT ![v] = "idle"], WaitingNotFull)
          /\ UNCHANGED <<buffer, reads, terminated, pushed, handed, aborted>>

\* try_pop takes the newest element.
TryPopBack ==
    /\ MutexFree
    /\ buffer # <<>>
    /\ handed' = Append(handed, buffer[Len(buffer)])
    /\ buffer' = SubSeq(buffer, 1, Len(buffer) - 1)
    /\ reads' = 0
    /\ pc' \in NotifyOne(pc, WaitingNotFull)
    /\ UNCHANGED <<terminated, pushed, aborted>>

\* try_pop has no wait and one critical section: one step.  An empty buffer
\* changes nothing.
TryPop ==
    /\ MutexFree
    /\ buffer # <<>>
    /\ handed' = Append(handed, Head(buffer))
    /\ buffer' = Tail(buffer)
    /\ reads' = 0
    /\ pc' \in NotifyOne(pc, WaitingNotFull)
    /\ UNCHANGED <<terminated, pushed, aborted>>
-----------------------------------------------------------------------------
(* terminate and resume *)

\* bTerminated_ = true, before the mutex is taken.
TerminateStore(t) ==
    /\ ~aborted
    /\ pc[t] = "idle"
    /\ terminated' = TRUE
    /\ pc' = [pc EXCEPT ![t] = "clear"]
    /\ UNCHANGED <<buffer, reads, pushed, handed, aborted>>

\* terminate without buffer_.clear().
TerminateKeeps(t) ==
    /\ pc[t] = "clear"
    /\ MutexFree
    /\ \E f \in NotifyOne([pc EXCEPT ![t] = "idle"], WaitingNotFull) :
          pc' \in NotifyOne(f, WaitingNotEmpty)
    /\ UNCHANGED <<buffer, reads, terminated, pushed, handed, aborted>>

\* terminate notifies only the pushers.
TerminateNotifiesNotFull(t) ==
    /\ pc[t] = "clear"
    /\ MutexFree
    /\ buffer' = <<>>
    /\ reads' = 0
    /\ pc' \in NotifyOne([pc EXCEPT ![t] = "idle"], WaitingNotFull)
    /\ UNCHANGED <<terminated, pushed, handed, aborted>>

\* One waiter of each condition variable is notified, not all of them.
TerminateClear(t) ==
    /\ pc[t] = "clear"
    /\ MutexFree
    /\ buffer' = <<>>
    /\ reads' = 0
    /\ \E f \in NotifyOne([pc EXCEPT ![t] = "idle"], WaitingNotFull) :
          pc' \in NotifyOne(f, WaitingNotEmpty)
    /\ UNCHANGED <<terminated, pushed, handed, aborted>>

\* resume stores the flag and neither takes the mutex nor notifies.
Resume ==
    /\ ~aborted
    /\ terminated' = FALSE
    /\ UNCHANGED <<buffer, reads, pc, pushed, handed, aborted>>
-----------------------------------------------------------------------------
PushStep(p) == PushCall(p) \/ PushTest(p) \/ PushBody(p)
PopStep(c) == PopCall(c) \/ PopTest(c) \/ PopBody(c)
ShowStep(v) == PopCall(v) \/ PopTest(v) \/ ShowBody(v)

Next ==
    \/ \E p \in Pushers : PushStep(p)
    \/ \E c \in Poppers : PopStep(c)
    \/ \E v \in Viewers : ShowStep(v)
    \/ \E x \in Pollers : TryPop
    \/ \E t \in Terminators : TerminateStore(t) \/ TerminateClear(t)
    \/ \E r \in Resumers : Resume
    \/ \E t \in Threads : Reacquire(t) \/ SpuriousWake(t)

Spec == Init /\ [][Next]_vars

\* A thread inside a method goes on, and gets the mutex in the end; poppers
\* call pop again and again.  Nothing makes a thread push, terminate or wake
\* by itself.
Fairness ==
    /\ \A t \in Threads : SF_vars(Reacquire(t))
    /\ \A p \in Pushers : WF_vars(PushTest(p)) /\ WF_vars(PushBody(p))
    /\ \A c \in Poppers :
          SF_vars(PopCall(c)) /\ WF_vars(PopTest(c)) /\ WF_vars(PopBody(c))
    /\ \A v \in Viewers : WF_vars(PopTest(v)) /\ WF_vars(ShowBody(v))
    /\ \A t \in Terminators : SF_vars(TerminateClear(t))

FairSpec == Spec /\ Fairness
-----------------------------------------------------------------------------
(* Properties *)

\* No assert of the class fails: a pusher past its wait finds room and a
\* popper past its wait finds an item, because the predicate that let it
\* through still holds when bTerminated_ is read the second time.  (Needs
\* that nobody calls resume.)
NoAssertFails == ~aborted

\* The mutex has one holder at most.
OneHolder == \A s, t \in Threads : Holds(s) /\ Holds(t) => s = t

\* What a thread found out before its wait let it through is still so.
PredicateHolds ==
    /\ \A p \in Pushers : pc[p] = "go" /\ BlockIn /\ Full => terminated
    /\ \A c \in Poppers \cup Viewers :
          pc[c] = "go" /\ buffer = <<>> => terminated

\* Why no assert fails: the mutex is held from the last evaluation of the
\* predicate on.  This is the inductive invariant of the proof.
AssertInv == NoAssertFails /\ OneHolder /\ PredicateHolds

\* Until the buffer is terminated a blocking buffer loses nothing, invents
\* nothing and keeps the order: what pop and try_pop returned, followed by
\* what the buffer holds, is everything that was pushed.
NothingLost ==
    (BlockIn /\ ~terminated) => handed \o buffer = [i \in 1..pushed |-> i]

\* Terminated or overwriting, items may be lost, but those handed out are
\* still in the order of their pushes, each one once, and older than those
\* in the buffer, which are the latest pushed, without a gap.
InOrder ==
    /\ \A i, j \in 1..Len(handed) : i < j => handed[i] < handed[j]
    /\ \A i \in 1..Len(handed) : handed[i] <= pushed - Len(buffer)
    /\ \A i \in 1..Len(buffer) : buffer[i] = pushed - Len(buffer) + i

InFlight(T) == {t \in T : pc[t] \in {"test", "go", "woken"}}

\* No wake-up is lost: while a popper sleeps, every item in the buffer has a
\* popper on its way to it, although push notifies one thread per item and
\* others may come in between; and while a pusher sleeps, every free place
\* has a pusher on its way.
NoLostWakeUp ==
    ~terminated =>
      /\ WaitingNotEmpty # {} => Len(buffer) <= Cardinality(InFlight(Poppers))
      /\ WaitingNotFull # {} =>
            Capacity - Len(buffer) <= Cardinality(InFlight(Pushers))

TimesHanded(i) == Cardinality({k \in 1..Len(handed) : handed[k] = i})

\* A frame that pop has removed was read MaxReads + 1 times, the one in front
\* as often as its counter says, and those behind it not at all, whichever
\* threads read and whatever wakes them.  (Needs that nobody calls try_pop.)
ReadInFull ==
    (BlockIn /\ ~terminated) =>
      \A i \in 1..pushed :
        LET place == i - (pushed - Len(buffer))
        IN  TimesHanded(i) = CASE place < 1 -> MaxReads + 1
                               [] place = 1 -> reads
                               [] place > 1 -> 0

\* An item that was pushed is handed out, unless the buffer is terminated.
Delivered ==
    \A i \in 1..MaxItems :
        pushed >= i ~> (terminated \/ \E k \in 1..Len(handed) : handed[k] = i)

\* terminate gets the threads out of their waits: when it has stored the flag
\* and one waiter at most is left on each condition variable, for it notifies
\* one, nobody sleeps in the end.
TerminateReleases ==
    /\ \E t \in Terminators : pc[t] = "clear"
    /\ Cardinality(WaitingNotEmpty) <= 1 /\ Cardinality(WaitingNotFull) <= 1
    ~> WaitingNotEmpty \cup WaitingNotFull = {}

\* The buffer is a bounded first-in first-out queue.
Fifo == INSTANCE BoundedFifo
            WITH Lossy <- ~BlockIn, queue <- buffer, entered <- pushed,
                 closed <- terminated
ImplementsFifo == Fifo!Spec
=============================================================================
