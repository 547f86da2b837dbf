------------------------ MODULE ThreadedCircular_proofs ------------------------
(***************************************************************************)
(* Proofs about CThreadedCircular for any number of threads, any capacity  *)
(* and any number of items: types, the assertions, the order of the items, *)
(* that none is lost, the bounded queue; then what is proved by counting.  *)
(*                                                                         *)
(* No wake-up is lost, for any finite sets of pushers and poppers: whenever*)
(* an item comes or a place gets free one waiter is put in flight, and a   *)
(* thread that leaves a method takes one item, or one place, with it.      *)
(*                                                                         *)
(* A frame is read MaxReads + 1 times before it leaves: the count of the   *)
(* front element is how often it is in the history.  This is proved of the *)
(* buffer alone and of the two variants that are checked together.         *)
(***************************************************************************)
EXTENDS MCCircularVariants, SequenceTheorems, FiniteSetTheorems, TLAPS

-----------------------------------------------------------------------------
(* Type correctness *)

\* notify_one changes the state of one waiter at most, and wakes it.
LEMMA NotifyOneWakes ==
    ASSUME NEW f \in [Threads -> Stages], NEW W \in SUBSET Threads,
           NEW g \in NotifyOne(f, W)
    PROVE  /\ g \in [Threads -> Stages]
           /\ \A t \in Threads : g[t] = f[t] \/ g[t] = "woken"
  BY DEF NotifyOne, Stages

\* The waiters are threads.
LEMMA WaitersAreThreads ==
    WaitingNotFull \in SUBSET Threads /\ WaitingNotEmpty \in SUBSET Threads
  BY DEF WaitingNotFull, WaitingNotEmpty, Threads

\* Taking the front element keeps the buffer, the count and the history well
\* formed.
LEMMA TakeFrontType ==
    ASSUME TypeOK, buffer # <<>>, TakeFront
    PROVE  /\ buffer' \in Seq(Nat \ {0})
           /\ Len(buffer') <= Capacity
           /\ reads' \in 0..MaxReads
           /\ handed' \in Seq(Nat \ {0})
  <1>1. /\ buffer \in Seq(Nat \ {0}) /\ Len(buffer) <= Capacity
        /\ reads \in 0..MaxReads /\ handed \in Seq(Nat \ {0})
        /\ Len(buffer) \in Nat /\ Capacity \in Nat
    BY CapacityAssumption, LenProperties DEF TypeOK
  <1>2. Head(buffer) \in Nat \ {0} /\ Tail(buffer) \in Seq(Nat \ {0})
        /\ Len(Tail(buffer)) = Len(buffer) - 1
    BY <1>1, buffer # <<>>, HeadTailProperties
  <1>3. handed' \in Seq(Nat \ {0})
    BY <1>1, <1>2, AppendProperties DEF TakeFront
  <1>4. CASE reads = MaxReads
    <2>1. buffer' = Tail(buffer) /\ reads' = 0
      BY <1>4 DEF TakeFront
    <2>2. Len(buffer') <= Capacity
      BY <1>1, <1>2, <2>1
    <2>3. reads' \in 0..MaxReads
      BY <2>1, BoundsAssumption
    <2>. QED  BY <1>2, <1>3, <2>1, <2>2, <2>3
  <1>5. CASE reads # MaxReads
    BY <1>1, <1>3, <1>5, BoundsAssumption DEF TakeFront
  <1>. QED  BY <1>4, <1>5

\* push_back keeps the buffer within its capacity: it is full and loses its
\* oldest element, or has room for the new one.
LEMMA PushBackType ==
    ASSUME TypeOK, NEW x \in Nat \ {0}, PushBack(x)
    PROVE  /\ buffer' \in Seq(Nat \ {0})
           /\ Len(buffer') <= Capacity
           /\ reads' \in 0..MaxReads
  <1>1. /\ buffer \in Seq(Nat \ {0}) /\ Len(buffer) <= Capacity
        /\ reads \in 0..MaxReads
        /\ Len(buffer) \in Nat /\ Capacity \in Nat \ {0}
    BY CapacityAssumption, LenProperties DEF TypeOK
  <1>2. CASE Full
    <2>1. buffer' = Append(Tail(buffer), x) /\ reads' = 0
      BY <1>2 DEF PushBack
    <2>2. buffer # <<>>
      BY <1>1, <1>2, EmptySeq DEF Full
    <2>3. Tail(buffer) \in Seq(Nat \ {0}) /\ Len(Tail(buffer)) = Len(buffer) - 1
      BY <1>1, <2>2, HeadTailProperties
    <2>4. /\ Append(Tail(buffer), x) \in Seq(Nat \ {0})
          /\ Len(Append(Tail(buffer), x)) = Len(Tail(buffer)) + 1
      BY <2>3, AppendProperties
    <2>. QED  BY <1>1, <2>1, <2>3, <2>4, BoundsAssumption
  <1>3. CASE ~Full
    <2>1. buffer' = Append(buffer, x) /\ reads' = reads
      BY <1>3 DEF PushBack
    <2>2. /\ Append(buffer, x) \in Seq(Nat \ {0})
          /\ Len(Append(buffer, x)) = Len(buffer) + 1
      BY <1>1, AppendProperties
    <2>3. Len(buffer) < Capacity
      BY <1>1, <1>3 DEF Full
    <2>. QED  BY <1>1, <2>1, <2>2, <2>3
  <1>. QED  BY <1>2, <1>3

\* Every step of every method keeps the type invariant.
LEMMA TypeStep == TypeOK /\ [Next]_vars => TypeOK'
  <1>. SUFFICES ASSUME TypeOK, [Next]_vars PROVE TypeOK'
    OBVIOUS
  <1>0. /\ pc \in [Threads -> Stages] /\ pushed \in Nat
        /\ buffer \in Seq(Nat \ {0}) /\ Len(buffer) <= Capacity
        /\ reads \in 0..MaxReads /\ handed \in Seq(Nat \ {0})
        /\ terminated \in BOOLEAN /\ aborted \in BOOLEAN
    BY DEF TypeOK
  <1>e. << >> \in Seq(Nat \ {0}) /\ Len(<< >>) <= Capacity /\ 0 \in 0..MaxReads
    BY CapacityAssumption, BoundsAssumption
  <1>1. ASSUME NEW p \in Pushers, PushCall(p) PROVE TypeOK'
    BY <1>0, <1>1 DEF PushCall, Enter, TypeOK, Stages, Threads
  <1>2. ASSUME NEW p \in Pushers, PushTest(p) PROVE TypeOK'
    BY <1>0, <1>2 DEF PushTest, Test, TypeOK, Stages, Threads
  <1>3. ASSUME NEW p \in Pushers, PushBody(p) PROVE TypeOK'
    <2>1. CASE terminated /\ pc' = [pc EXCEPT ![p] = "idle"]
               /\ UNCHANGED <<buffer, reads, terminated, pushed, handed, aborted>>
      BY <1>0, <2>1 DEF TypeOK, Stages, Threads
    <2>2. CASE AssertFails
      BY <1>0, <2>2 DEF AssertFails, TypeOK
    <2>3. CASE PushAccept(p)
      <3>1. [pc EXCEPT ![p] = "idle"] \in [Threads -> Stages]
        BY <1>0 DEF Stages, Threads
      <3>2. pc' \in [Threads -> Stages]
        BY <2>3, <3>1, NotifyOneWakes, WaitersAreThreads DEF PushAccept
      <3>3. pushed + 1 \in Nat \ {0}
        BY <1>0
      <3>4. /\ buffer' \in Seq(Nat \ {0})
            /\ Len(buffer') <= Capacity
            /\ reads' \in 0..MaxReads
        BY <2>3, <3>3, PushBackType DEF PushAccept
      <3>. QED  BY <1>0, <2>3, <3>2, <3>3, <3>4 DEF PushAccept, TypeOK
    <2>. QED  BY <1>3, <2>1, <2>2, <2>3 DEF PushBody
  <1>4. ASSUME NEW c \in Poppers \cup Viewers, PopCall(c) PROVE TypeOK'
    BY <1>0, <1>4 DEF PopCall, Enter, TypeOK, Stages, Threads
  <1>5. ASSUME NEW c \in Poppers \cup Viewers, PopTest(c) PROVE TypeOK'
    BY <1>0, <1>5 DEF PopTest, Test, TypeOK, Stages, Threads
  <1>6. ASSUME NEW c \in Poppers, PopBody(c) PROVE TypeOK'
    <2>1. CASE terminated /\ pc' = [pc EXCEPT ![c] = "idle"]
               /\ UNCHANGED <<buffer, reads, terminated, pushed, handed, aborted>>
      BY <1>0, <2>1 DEF TypeOK, Stages, Threads
    <2>2. CASE AssertFails
      BY <1>0, <2>2 DEF AssertFails, TypeOK
    <2>3. CASE /\ buffer # <<>> /\ TakeFront
               /\ pc' \in NotifyOne([pc EXCEPT ![c] = "idle"], WaitingNotFull)
               /\ UNCHANGED <<terminated, pushed, aborted>>
      <3>1. [pc EXCEPT ![c] = "idle"] \in [Threads -> Stages]
        BY <1>0 DEF Stages, Threads
      <3>2. pc' \in [Threads -> Stages]
        BY <2>3, <3>1, NotifyOneWakes, WaitersAreThreads
      <3>. QED  BY <1>0, <2>3, <3>2, TakeFrontType DEF TypeOK
    <2>. QED  BY <1>6, <2>1, <2>2, <2>3 DEF PopBody
  <1>7. ASSUME NEW v \in Viewers, ShowBody(v) PROVE TypeOK'
    <2>1. CASE pc' = [pc EXCEPT ![v] = "idle"]
               /\ UNCHANGED <<buffer, reads, terminated, pushed, handed, aborted>>
      BY <1>0, <2>1 DEF TypeOK, Stages, Threads
    <2>2. CASE AssertFails
      BY <1>0, <2>2 DEF AssertFails, TypeOK
    <2>3. CASE /\ pc' \in NotifyOne([pc EXCEPT ![v] = "idle"], WaitingNotFull)
               /\ UNCHANGED <<buffer, reads, terminated, pushed, handed, aborted>>
      <3>1. [pc EXCEPT ![v] = "idle"] \in [Threads -> Stages]
        BY <1>0 DEF Stages, Threads
      <3>2. pc' \in [Threads -> Stages]
        BY <2>3, <3>1, NotifyOneWakes, WaitersAreThreads
      <3>. QED  BY <1>0, <2>3, <3>2 DEF TypeOK
    <2>. QED  BY <1>7, <2>1, <2>2, <2>3 DEF ShowBody
  <1>8. ASSUME TryPop PROVE TypeOK'
    <2>1. pc' \in [Threads -> Stages]
      BY <1>0, <1>8, NotifyOneWakes, WaitersAreThreads DEF TryPop
    <2>2. /\ Head(buffer) \in Nat \ {0} /\ Tail(buffer) \in Seq(Nat \ {0})
          /\ Len(Tail(buffer)) = Len(buffer) - 1 /\ Len(buffer) \in Nat
      BY <1>0, <1>8, HeadTailProperties, LenProperties DEF TryPop
    <2>3. Append(handed, Head(buffer)) \in Seq(Nat \ {0})
      BY <1>0, <2>2, AppendProperties
    <2>4. Len(Tail(buffer)) <= Capacity
      BY <1>0, <2>2, CapacityAssumption
    <2>. QED  BY <1>0, <1>8, <1>e, <2>1, <2>2, <2>3, <2>4 DEF TryPop, TypeOK
  <1>9. ASSUME NEW t \in Terminators, TerminateStore(t) PROVE TypeOK'
    BY <1>0, <1>9 DEF TerminateStore, TypeOK, Stages, Threads
  <1>10. ASSUME NEW t \in Terminators, TerminateClear(t) PROVE TypeOK'
    <2>1. [pc EXCEPT ![t] = "idle"] \in [Threads -> Stages]
      BY <1>0 DEF Stages, Threads
    <2>2. PICK f \in NotifyOne([pc EXCEPT ![t] = "idle"], WaitingNotFull) :
             pc' \in NotifyOne(f, WaitingNotEmpty)
      BY <1>10 DEF TerminateClear
    <2>3. f \in [Threads -> Stages]
      BY <2>1, <2>2, NotifyOneWakes, WaitersAreThreads
    <2>4. pc' \in [Threads -> Stages]
      BY <2>2, <2>3, NotifyOneWakes, WaitersAreThreads
    <2>. QED  BY <1>0, <1>10, <1>e, <2>4 DEF TerminateClear, TypeOK
  <1>11. ASSUME Resume PROVE TypeOK'
    BY <1>0, <1>11 DEF Resume, TypeOK
  <1>12. ASSUME NEW t \in Threads, Reacquire(t) \/ SpuriousWake(t) PROVE TypeOK'
    BY <1>0, <1>12 DEF Reacquire, SpuriousWake, TypeOK, Stages
  <1>13. CASE UNCHANGED vars
    BY <1>0, <1>13 DEF vars, TypeOK
  <1>. QED  BY <1>1, <1>2, <1>3, <1>4, <1>5, <1>6, <1>7, <1>8, <1>9, <1>10, <1>11,
               <1>12, <1>13 DEF Next, PushStep, PopStep, ShowStep

LEMMA TypeInit == Init => TypeOK
  <1>. SUFFICES ASSUME Init PROVE TypeOK
    OBVIOUS
  <1>1. << >> \in Seq(Nat \ {0}) /\ Len(<< >>) <= Capacity /\ 0 \in 0..MaxReads
    BY CapacityAssumption, BoundsAssumption
  <1>2. pc \in [Threads -> Stages]
    BY DEF Init, Stages
  <1>. QED  BY <1>1, <1>2 DEF Init, TypeOK

\* The buffer never holds more than Capacity items and the read counter of
\* its front never exceeds MaxReads, whatever the threads do.
THEOREM TypeCorrect == Spec => []TypeOK
  BY TypeInit, TypeStep, PTL DEF Spec

-----------------------------------------------------------------------------
(* No assert fails *)


\* Once nobody holds the mutex the threads' part of the invariant is void.
LEMMA Released ==
    ASSUME \A s \in Threads : pc'[s] \notin {"test", "go"}
    PROVE  (OneHolder /\ PredicateHolds)'
  BY DEF OneHolder, PredicateHolds, Holds, Threads

\* The only holder of the mutex leaves the method and notifies somebody.
LEMMA HolderLeaves ==
    ASSUME TypeOK, OneHolder, NEW t \in Threads, Holds(t),
           NEW W \in SUBSET Threads,
           pc' \in NotifyOne([pc EXCEPT ![t] = "idle"], W)
    PROVE  (OneHolder /\ PredicateHolds)'
  <1>1. [pc EXCEPT ![t] = "idle"] \in [Threads -> Stages]
    BY DEF TypeOK, Stages
  <1>2. \A s \in Threads : pc'[s] = [pc EXCEPT ![t] = "idle"][s] \/ pc'[s] = "woken"
    BY <1>1, NotifyOneWakes
  <1>3. \A s \in Threads : pc'[s] \notin {"test", "go"}
    BY <1>2 DEF TypeOK, OneHolder, Holds
  <1>. QED  BY <1>3, Released

\* A thread takes the free mutex and has the predicate still to evaluate, or
\* takes no interest in it.
LEMMA HolderEnters ==
    ASSUME TypeOK, MutexFree, NEW t \in Threads, NEW stage \in Stages,
           pc' = [pc EXCEPT ![t] = stage], UNCHANGED <<buffer, terminated>>,
           stage = "go" => t \in Pushers /\ ~BlockIn
    PROVE  (OneHolder /\ PredicateHolds)'
  <1>1. \A s \in Threads : s # t => pc'[s] \notin {"test", "go"}
    BY DEF TypeOK, MutexFree, Holds
  <1>2. OneHolder'
    BY <1>1 DEF OneHolder, Holds
  <1>3. pc'[t] = stage
    BY DEF TypeOK
  <1>4. \A p \in Pushers : pc'[p] = "go" => ~BlockIn
    BY <1>1, <1>3 DEF Threads
  <1>5. \A c \in Poppers \cup Viewers : pc'[c] # "go"
    BY <1>1, <1>3, RolesAssumption DEF Threads
  <1>. QED  BY <1>2, <1>4, <1>5 DEF PredicateHolds

\* The only holder of the mutex goes on when its predicate holds, or sleeps.
LEMMA HolderTests ==
    ASSUME TypeOK, OneHolder, NEW t \in Threads, pc[t] = "test",
           NEW stage \in {"go", "asleep"}, pc' = [pc EXCEPT ![t] = stage],
           UNCHANGED <<buffer, terminated>>,
           stage = "go" /\ t \in Pushers => ~Full \/ terminated,
           stage = "go" /\ t \in Poppers \cup Viewers => buffer # <<>> \/ terminated
    PROVE  (OneHolder /\ PredicateHolds)'
  <1>1. \A s \in Threads : s # t => pc'[s] \notin {"test", "go"}
    BY DEF TypeOK, OneHolder, Holds
  <1>2. OneHolder'
    BY <1>1 DEF OneHolder, Holds
  <1>3. pc'[t] = stage
    BY DEF TypeOK
  <1>4. \A p \in Pushers : pc'[p] = "go" => ~Full \/ terminated
    BY <1>1, <1>3 DEF Threads
  <1>5. \A c \in Poppers \cup Viewers : pc'[c] = "go" => buffer # <<>> \/ terminated
    BY <1>1, <1>3 DEF Threads
  <1>. QED  BY <1>2, <1>4, <1>5 DEF PredicateHolds, Full

\* A step that leaves the holders, the buffer and the flag alone.
LEMMA HolderStays ==
    ASSUME OneHolder, PredicateHolds, UNCHANGED buffer,
           terminated => terminated',
           \A s \in Threads : pc'[s] \in {"test", "go"} => pc'[s] = pc[s]
    PROVE  (OneHolder /\ PredicateHolds)'
  <1>1. OneHolder'
    BY DEF OneHolder, Holds
  <1>2. \A p \in Pushers : pc'[p] = "go" => pc[p] = "go"
    BY DEF Threads
  <1>3. \A c \in Poppers \cup Viewers : pc'[c] = "go" => pc[c] = "go"
    BY DEF Threads
  <1>. QED  BY <1>1, <1>2, <1>3 DEF PredicateHolds, Full

\* Every step keeps the invariant, as long as nobody calls resume.
LEMMA AssertStep ==
    ASSUME Resumers = {}
    PROVE  TypeOK /\ AssertInv /\ [Next]_vars => AssertInv'
  <1>. SUFFICES ASSUME TypeOK, AssertInv, [Next]_vars PROVE AssertInv'
    OBVIOUS
  <1>0. /\ pc \in [Threads -> Stages]
        /\ OneHolder /\ PredicateHolds /\ ~aborted
    BY DEF TypeOK, AssertInv, NoAssertFails
  <1>1. ASSUME NEW p \in Pushers, PushCall(p) PROVE AssertInv'
    <2>1. PICK stage \in {"test", "go"} :
            /\ stage = "go" => ~BlockIn
            /\ Enter(p, stage)
      BY <1>1, BlockInAssumption DEF PushCall
    <2>2. p \in Threads /\ stage \in Stages
      BY DEF Threads, Stages
    <2>3. (OneHolder /\ PredicateHolds)'
      BY <2>1, <2>2, HolderEnters DEF Enter
    <2>. QED  BY <1>0, <2>1, <2>3 DEF Enter, AssertInv, NoAssertFails
  <1>2. ASSUME NEW p \in Pushers, PushTest(p) PROVE AssertInv'
    <2>1. PICK stage \in {"go", "asleep"} :
            /\ stage = "go" => ~Full \/ terminated
            /\ pc' = [pc EXCEPT ![p] = stage]
      BY <1>2 DEF PushTest, Test
    <2>2. p \in Threads /\ p \notin Poppers \cup Viewers
      BY RolesAssumption DEF Threads
    <2>3. (OneHolder /\ PredicateHolds)'
      BY <1>0, <1>2, <2>1, <2>2, HolderTests DEF PushTest, Test
    <2>. QED  BY <1>0, <1>2, <2>3 DEF PushTest, Test, AssertInv, NoAssertFails
  <1>3. ASSUME NEW p \in Pushers, PushBody(p) PROVE AssertInv'
    <2>1. p \in Threads /\ Holds(p) /\ ~(BlockIn /\ Full /\ ~terminated)
      BY <1>0, <1>3 DEF PushBody, Threads, Holds, PredicateHolds
    <2>2. CASE terminated /\ pc' = [pc EXCEPT ![p] = "idle"]
               /\ UNCHANGED <<buffer, reads, terminated, pushed, handed, aborted>>
      <3>1. \A s \in Threads : pc'[s] \in {"test", "go"} => pc'[s] = pc[s]
        BY <1>0, <2>2
      <3>. QED  BY <1>0, <2>2, <3>1, HolderStays DEF AssertInv, NoAssertFails
    <2>3. CASE PushAccept(p)
      <3>1. (OneHolder /\ PredicateHolds)'
        BY <1>0, <2>1, <2>3, HolderLeaves, WaitersAreThreads DEF PushAccept
      <3>. QED  BY <1>0, <2>3, <3>1 DEF PushAccept, AssertInv, NoAssertFails
    <2>. QED  BY <1>3, <2>1, <2>2, <2>3 DEF PushBody
  <1>4. ASSUME NEW c \in Poppers \cup Viewers, PopCall(c) PROVE AssertInv'
    <2>1. c \in Threads /\ "test" \in Stages
      BY DEF Threads, Stages
    <2>2. (OneHolder /\ PredicateHolds)'
      BY <1>4, <2>1, HolderEnters DEF PopCall, Enter
    <2>. QED  BY <1>0, <1>4, <2>2 DEF PopCall, Enter, AssertInv, NoAssertFails
  <1>5. ASSUME NEW c \in Poppers \cup Viewers, PopTest(c) PROVE AssertInv'
    <2>1. PICK stage \in {"go", "asleep"} :
            /\ stage = "go" => buffer # <<>> \/ terminated
            /\ pc' = [pc EXCEPT ![c] = stage]
      BY <1>5 DEF PopTest, Test
    <2>2. c \in Threads /\ c \notin Pushers
      BY RolesAssumption DEF Threads
    <2>3. (OneHolder /\ PredicateHolds)'
      BY <1>0, <1>5, <2>1, <2>2, HolderTests DEF PopTest, Test
    <2>. QED  BY <1>0, <1>5, <2>3 DEF PopTest, Test, AssertInv, NoAssertFails
  <1>6. ASSUME NEW c \in Poppers \cup Viewers, PopBody(c) \/ ShowBody(c)
        PROVE  AssertInv'
    <2>1. c \in Threads /\ Holds(c) /\ ~(buffer = <<>> /\ ~terminated)
      BY <1>0, <1>6 DEF PopBody, ShowBody, Threads, Holds, PredicateHolds
    <2>2. CASE terminated /\ pc' = [pc EXCEPT ![c] = "idle"]
               /\ UNCHANGED <<buffer, reads, terminated, pushed, handed, aborted>>
      <3>1. \A s \in Threads : pc'[s] \in {"test", "go"} => pc'[s] = pc[s]
        BY <1>0, <2>2
      <3>. QED  BY <1>0, <2>2, <3>1, HolderStays DEF AssertInv, NoAssertFails
    <2>3. CASE /\ pc' \in NotifyOne([pc EXCEPT ![c] = "idle"], WaitingNotFull)
               /\ UNCHANGED aborted
      <3>1. (OneHolder /\ PredicateHolds)'
        BY <1>0, <2>1, <2>3, HolderLeaves, WaitersAreThreads
      <3>. QED  BY <1>0, <2>3, <3>1 DEF AssertInv, NoAssertFails
    <2>. QED  BY <1>6, <2>1, <2>2, <2>3 DEF PopBody, ShowBody
  <1>8. ASSUME TryPop PROVE AssertInv'
    <2>1. \A s \in Threads : pc'[s] = pc[s] \/ pc'[s] = "woken"
      BY <1>0, <1>8, NotifyOneWakes, WaitersAreThreads DEF TryPop
    <2>2. \A s \in Threads : pc'[s] \notin {"test", "go"}
      BY <1>8, <2>1 DEF TryPop, MutexFree, Holds
    <2>. QED  BY <1>0, <1>8, <2>2, Released DEF TryPop, AssertInv, NoAssertFails
  <1>9. ASSUME NEW t \in Terminators, TerminateStore(t) PROVE AssertInv'
    <2>1. \A s \in Threads : pc'[s] \in {"test", "go"} => pc'[s] = pc[s]
      BY <1>0, <1>9 DEF TerminateStore
    <2>. QED  BY <1>0, <1>9, <2>1, HolderStays
              DEF TerminateStore, AssertInv, NoAssertFails
  <1>10. ASSUME NEW t \in Terminators, TerminateClear(t) PROVE AssertInv'
    <2>0. t \in Threads /\ [pc EXCEPT ![t] = "idle"] \in [Threads -> Stages]
      BY <1>0 DEF Threads, Stages
    <2>1. PICK f \in NotifyOne([pc EXCEPT ![t] = "idle"], WaitingNotFull) :
             pc' \in NotifyOne(f, WaitingNotEmpty)
      BY <1>10 DEF TerminateClear
    <2>2. /\ f \in [Threads -> Stages]
          /\ \A s \in Threads : f[s] = [pc EXCEPT ![t] = "idle"][s] \/ f[s] = "woken"
      BY <2>0, <2>1, NotifyOneWakes, WaitersAreThreads
    <2>3. \A s \in Threads : pc'[s] = f[s] \/ pc'[s] = "woken"
      BY <2>1, <2>2, NotifyOneWakes, WaitersAreThreads
    <2>4. \A s \in Threads : pc[s] \notin {"test", "go"}
      BY <1>10 DEF TerminateClear, MutexFree, Holds
    <2>5. \A s \in Threads : pc'[s] \notin {"test", "go"}
      BY <1>0, <2>2, <2>3, <2>4
    <2>. QED  BY <1>0, <1>10, <2>5, Released
              DEF TerminateClear, AssertInv, NoAssertFails
  <1>11. ASSUME NEW t \in Threads, Reacquire(t) PROVE AssertInv'
    <2>1. (OneHolder /\ PredicateHolds)'
      BY <1>11, HolderEnters DEF Reacquire, Stages
    <2>. QED  BY <1>0, <1>11, <2>1 DEF Reacquire, AssertInv, NoAssertFails
  <1>12. ASSUME NEW t \in Threads, SpuriousWake(t) PROVE AssertInv'
    <2>1. \A s \in Threads : pc'[s] \in {"test", "go"} => pc'[s] = pc[s]
      BY <1>0, <1>12 DEF SpuriousWake
    <2>. QED  BY <1>0, <1>12, <2>1, HolderStays
              DEF SpuriousWake, AssertInv, NoAssertFails
  <1>13. CASE UNCHANGED vars
    BY <1>0, <1>13, HolderStays DEF vars, AssertInv, NoAssertFails
  <1>. QED  BY <1>1, <1>2, <1>3, <1>4, <1>5, <1>6, <1>8, <1>9, <1>10, <1>11,
               <1>12, <1>13 DEF Next, PushStep, PopStep, ShowStep

\* No assert of the class ever fails, whichever threads push, pop, show,
\* try_pop and terminate at the same time, as long as none of them calls
\* resume: while a thread holds the mutex its predicate cannot become false.
THEOREM NoAssertEverFails ==
    ASSUME Resumers = {}
    PROVE  Spec => []NoAssertFails
  <1>1. Init => AssertInv
    BY DEF Init, AssertInv, NoAssertFails, OneHolder, PredicateHolds, Holds, Threads
  <1>2. TypeOK /\ AssertInv /\ [Next]_vars => AssertInv'
    BY AssertStep
  <1>3. AssertInv => NoAssertFails
    BY DEF AssertInv
  <1>. QED  BY <1>1, <1>2, <1>3, TypeCorrect, PTL DEF Spec

-----------------------------------------------------------------------------
(* What a step does to the items *)

\* One item enters the buffer; a full one loses its oldest item.
ItemEnters ==
    /\ ~terminated /\ ~(BlockIn /\ Full)
    /\ PushBack(pushed + 1) /\ pushed' = pushed + 1
    /\ UNCHANGED <<handed, terminated>>

\* The front item is handed out and leaves.
ItemLeaves ==
    /\ buffer # <<>>
    /\ handed' = Append(handed, Head(buffer)) /\ buffer' = Tail(buffer)
    /\ UNCHANGED <<pushed, terminated>>

\* terminate discards the items, after its flag was stored.
ItemsCleared ==
    /\ \E t \in Terminators : pc[t] = "clear"
    /\ buffer' = <<>>
    /\ UNCHANGED <<handed, pushed, terminated>>

\* The items stay as they are, and the flag may be stored.
ItemsStay == UNCHANGED <<buffer, handed, pushed>>

\* Of the many steps of the threads only three kinds touch the items, when
\* frames are handed out once.
LEMMA EffectOnItems ==
    ASSUME MaxReads = 0
    PROVE  TypeOK /\ [Next]_vars =>
             ItemEnters \/ ItemLeaves \/ ItemsCleared \/ ItemsStay
  <1>. SUFFICES ASSUME TypeOK, [Next]_vars
                PROVE  ItemEnters \/ ItemLeaves \/ ItemsCleared \/ ItemsStay
    OBVIOUS
  <1>1. ASSUME NEW p \in Pushers, PushBody(p) PROVE ItemEnters \/ ItemsStay
    BY <1>1 DEF PushBody, PushAccept, AssertFails, ItemEnters, ItemsStay
  <1>2. ASSUME NEW c \in Poppers, PopBody(c) PROVE ItemLeaves \/ ItemsStay
    <2>1. reads = MaxReads
      BY DEF TypeOK
    <2>. QED  BY <1>2, <2>1 DEF PopBody, TakeFront, AssertFails, ItemLeaves, ItemsStay
  <1>3. ASSUME TryPop PROVE ItemLeaves
    BY <1>3 DEF TryPop, ItemLeaves
  <1>4. ASSUME NEW t \in Terminators, TerminateClear(t) PROVE ItemsCleared
    BY <1>4 DEF TerminateClear, ItemsCleared
  <1>5. ASSUME NEW t \in Threads, NEW stage \in {"test", "go"}, Enter(t, stage)
        PROVE  ItemsStay
    BY <1>5 DEF Enter, ItemsStay
  <1>6. ASSUME NEW t \in Threads, PushTest(t) \/ PopTest(t) PROVE ItemsStay
    BY <1>6 DEF PushTest, PopTest, Test, ItemsStay
  <1>7. ASSUME NEW v \in Viewers, ShowBody(v) PROVE ItemsStay
    BY <1>7 DEF ShowBody, AssertFails, ItemsStay
  <1>8. ASSUME NEW t \in Threads, Reacquire(t) \/ SpuriousWake(t) PROVE ItemsStay
    BY <1>8 DEF Reacquire, SpuriousWake, ItemsStay
  <1>9. ASSUME NEW t \in Terminators, TerminateStore(t) PROVE ItemsStay
    BY <1>9 DEF TerminateStore, ItemsStay
  <1>10. ASSUME Resume PROVE ItemsStay
    BY <1>10 DEF Resume, ItemsStay
  <1>11. CASE UNCHANGED vars
    BY <1>11 DEF vars, ItemsStay
  <1>12. \A t \in Threads : PushCall(t) \/ PopCall(t) =>
            \E stage \in {"test", "go"} : Enter(t, stage)
    BY BlockInAssumption DEF PushCall, PopCall
  <1>. QED  BY <1>1, <1>2, <1>3, <1>4, <1>5, <1>6, <1>7, <1>8, <1>9, <1>10, <1>11,
               <1>12 DEF Next, PushStep, PopStep, ShowStep, Threads

-----------------------------------------------------------------------------
(* The order of the items *)

LEMMA OrderStep ==
    ASSUME MaxReads = 0
    PROVE  TypeOK /\ InOrder /\ [Next]_vars => InOrder'
  <1>. SUFFICES ASSUME TypeOK, InOrder, [Next]_vars PROVE InOrder'
    OBVIOUS
  <1>0. /\ buffer \in Seq(Nat \ {0}) /\ handed \in Seq(Nat \ {0})
        /\ pushed \in Nat /\ Len(buffer) \in Nat /\ Len(handed) \in Nat
        /\ Len(buffer) <= Capacity /\ Capacity \in Nat \ {0}
    BY LenProperties, CapacityAssumption DEF TypeOK
  <1>1. CASE ItemEnters
    <2>0. /\ pushed' = pushed + 1 /\ handed' = handed
          /\ \A i \in 1..Len(handed) : handed[i] \in Nat
          /\ \A i \in 1..Len(handed) : handed[i] <= pushed - Len(buffer)
          /\ \A i, j \in 1..Len(handed') : i < j => handed'[i] < handed'[j]
      BY <1>0, <1>1, ElementOfSeq DEF ItemEnters, InOrder
    <2>1. CASE Full
      <3>1. buffer # <<>>
        BY <1>0, <2>1 DEF Full
      <3>2. buffer' = Append(Tail(buffer), pushed + 1)
        BY <1>1, <2>1 DEF ItemEnters, PushBack
      <3>3. /\ Tail(buffer) \in Seq(Nat \ {0}) /\ Len(Tail(buffer)) = Len(buffer) - 1
            /\ \A i \in 1..(Len(buffer) - 1) : Tail(buffer)[i] = buffer[i + 1]
        BY <1>0, <3>1, HeadTailProperties
      <3>4. /\ Len(buffer') = Len(buffer)
            /\ \A i \in 1..(Len(buffer) - 1) : buffer'[i] = buffer[i + 1]
            /\ buffer'[Len(buffer)] = pushed + 1
        BY <1>0, <3>2, <3>3, AppendProperties
      <3>5. ASSUME NEW i \in 1..Len(buffer')
            PROVE  buffer'[i] = pushed' - Len(buffer') + i
        <4>1. CASE i = Len(buffer)
          BY <1>0, <2>0, <3>4, <4>1
        <4>2. CASE i < Len(buffer)
          <5>1. i \in 1..(Len(buffer) - 1) /\ i + 1 \in 1..Len(buffer)
            BY <1>0, <3>4, <4>2
          <5>2. buffer[i + 1] = pushed - Len(buffer) + (i + 1)
            BY <5>1 DEF InOrder
          <5>. QED  BY <1>0, <2>0, <3>4, <5>1, <5>2
        <4>. QED  BY <1>0, <3>4, <4>1, <4>2
      <3>6. \A i \in 1..Len(handed') : handed'[i] <= pushed' - Len(buffer')
        BY <1>0, <2>0, <3>4
      <3>. QED  BY <2>0, <3>5, <3>6 DEF InOrder
    <2>2. CASE ~Full
      <3>1. buffer' = Append(buffer, pushed + 1)
        BY <1>1, <2>2 DEF ItemEnters, PushBack
      <3>2. /\ Len(buffer') = Len(buffer) + 1
            /\ \A i \in 1..Len(buffer) : buffer'[i] = buffer[i]
            /\ buffer'[Len(buffer) + 1] = pushed + 1
        BY <1>0, <3>1, AppendProperties
      <3>3. ASSUME NEW i \in 1..Len(buffer')
            PROVE  buffer'[i] = pushed' - Len(buffer') + i
        <4>1. CASE i = Len(buffer) + 1
          BY <1>0, <2>0, <3>2, <4>1
        <4>2. CASE i <= Len(buffer)
          <5>1. i \in 1..Len(buffer)
            BY <1>0, <3>2, <4>2
          <5>2. buffer[i] = pushed - Len(buffer) + i
            BY <5>1 DEF InOrder
          <5>. QED  BY <1>0, <2>0, <3>2, <5>1, <5>2
        <4>. QED  BY <1>0, <3>2, <4>1, <4>2
      <3>4. \A i \in 1..Len(handed') : handed'[i] <= pushed' - Len(buffer')
        BY <1>0, <2>0, <3>2
      <3>. QED  BY <2>0, <3>3, <3>4 DEF InOrder
    <2>. QED  BY <2>1, <2>2
  <1>2. CASE ItemLeaves
    <2>1. /\ Len(Tail(buffer)) = Len(buffer) - 1
          /\ \A i \in 1..(Len(buffer) - 1) : Tail(buffer)[i] = buffer[i + 1]
          /\ Head(buffer) = buffer[1] /\ Len(buffer) >= 1
          /\ Head(buffer) \in Nat \ {0}
      BY <1>0, <1>2, HeadTailProperties, EmptySeq DEF ItemLeaves
    <2>2. /\ Len(handed') = Len(handed) + 1
          /\ \A i \in 1..Len(handed) : handed'[i] = handed[i]
          /\ handed'[Len(handed) + 1] = Head(buffer)
      BY <1>0, <1>2, <2>1, AppendProperties DEF ItemLeaves
    <2>3. Head(buffer) = pushed - Len(buffer) + 1
      BY <1>0, <2>1 DEF InOrder
    <2>4. /\ pushed' = pushed /\ buffer' = Tail(buffer)
          /\ \A i \in 1..Len(handed) : handed[i] \in Nat
      BY <1>0, <1>2, ElementOfSeq DEF ItemLeaves
    <2>5. ASSUME NEW i \in 1..Len(handed'), NEW j \in 1..Len(handed'), i < j
          PROVE  handed'[i] < handed'[j]
      <3>1. i \in 1..Len(handed) /\ handed'[i] = handed[i] /\ handed[i] \in Nat
            /\ handed[i] <= pushed - Len(buffer)
        BY <1>0, <2>2, <2>4, <2>5 DEF InOrder
      <3>2. CASE j = Len(handed) + 1
        BY <1>0, <2>2, <2>3, <3>1, <3>2
      <3>3. CASE j <= Len(handed)
        <4>1. j \in 1..Len(handed) /\ handed'[j] = handed[j]
          BY <1>0, <2>2, <3>3
        <4>. QED  BY <2>5, <3>1, <4>1 DEF InOrder
      <3>. QED  BY <1>0, <2>2, <3>2, <3>3
    <2>6. ASSUME NEW i \in 1..Len(handed')
          PROVE  handed'[i] <= pushed' - Len(buffer')
      <3>1. CASE i = Len(handed) + 1
        BY <1>0, <2>1, <2>2, <2>3, <2>4, <3>1
      <3>2. CASE i <= Len(handed)
        <4>1. i \in 1..Len(handed) /\ handed'[i] = handed[i]
          BY <1>0, <2>2, <3>2
        <4>2. handed[i] <= pushed - Len(buffer) /\ handed[i] \in Nat
          BY <2>4, <4>1 DEF InOrder
        <4>. QED  BY <1>0, <2>1, <2>4, <4>1, <4>2
      <3>. QED  BY <1>0, <2>2, <3>1, <3>2
    <2>7. ASSUME NEW i \in 1..Len(buffer')
          PROVE  buffer'[i] = pushed' - Len(buffer') + i
      <3>1. i \in 1..(Len(buffer) - 1) /\ i + 1 \in 1..Len(buffer)
        BY <1>0, <2>1, <2>4
      <3>2. buffer[i + 1] = pushed - Len(buffer) + (i + 1)
        BY <3>1 DEF InOrder
      <3>3. buffer'[i] = buffer[i + 1]
        BY <2>1, <2>4, <3>1
      <3>4. Len(buffer') = Len(buffer) - 1 /\ pushed' = pushed
        BY <2>1, <2>4
      <3>. QED  BY <1>0, <3>2, <3>3, <3>4
    <2>. QED  BY <2>5, <2>6, <2>7 DEF InOrder
  <1>3. CASE ItemsCleared
    BY <1>0, <1>3, ElementOfSeq DEF InOrder, ItemsCleared
  <1>4. CASE ItemsStay
    BY <1>4 DEF InOrder, ItemsStay
  <1>. QED  BY <1>1, <1>2, <1>3, <1>4, EffectOnItems

\* The items handed out are in the order of their pushes, each one once, and
\* those in the buffer are the latest pushed without a gap: for a buffer that
\* blocks and for one that overwrites, with any threads and any calls of
\* terminate and resume.
THEOREM HandedInOrder ==
    ASSUME MaxReads = 0
    PROVE  Spec => []InOrder
  <1>1. Init => InOrder
    BY DEF Init, InOrder
  <1>2. TypeOK /\ InOrder /\ [Next]_vars => InOrder'
    BY OrderStep
  <1>. QED  BY <1>1, <1>2, TypeCorrect, PTL DEF Spec

-----------------------------------------------------------------------------
(* Nothing is lost *)

\* A thread in the second half of terminate finds its flag set.  (Needs that
\* nobody calls resume.)
FlagStays == \A t \in Terminators : pc[t] = "clear" => terminated

LEMMA FlagStep ==
    ASSUME Resumers = {}
    PROVE  TypeOK /\ FlagStays /\ [Next]_vars =>
             FlagStays' /\ (terminated => terminated')
  <1>. SUFFICES ASSUME TypeOK, FlagStays, [Next]_vars
                PROVE  FlagStays' /\ (terminated => terminated')
    OBVIOUS
  <1>0. pc \in [Threads -> Stages] /\ Terminators \subseteq Threads
    BY DEF TypeOK, Threads
  <1>1. ASSUME terminated' = terminated,
               \A t \in Terminators : pc'[t] = "clear" => pc[t] = "clear"
        PROVE  FlagStays' /\ (terminated => terminated')
    BY <1>1 DEF FlagStays
  <1>2. ASSUME NEW f \in [Threads -> Stages], NEW W \in SUBSET Threads,
               pc' \in NotifyOne(f, W), terminated' = terminated,
               \A t \in Terminators : f[t] = "clear" => pc[t] = "clear"
        PROVE  FlagStays' /\ (terminated => terminated')
    <2>1. \A t \in Threads : pc'[t] = f[t] \/ pc'[t] = "woken"
      BY <1>2, NotifyOneWakes
    <2>. QED  BY <1>0, <1>1, <1>2, <2>1
  <1>3. \A t \in Threads : /\ [pc EXCEPT ![t] = "idle"] \in [Threads -> Stages]
                           /\ \A s \in Terminators :
                                [pc EXCEPT ![t] = "idle"][s] = "clear" => pc[s] = "clear"
    BY <1>0 DEF Stages
  <1>4. ASSUME NEW p \in Pushers, PushStep(p)
        PROVE  FlagStays' /\ (terminated => terminated')
    <2>1. p \in Threads
      BY DEF Threads
    <2>2. CASE PushCall(p) \/ PushTest(p)
      BY <1>0, <1>1, <2>1, <2>2 DEF PushCall, Enter, PushTest, Test
    <2>3. CASE PushBody(p)
      <3>1. CASE PushAccept(p)
        BY <1>2, <1>3, <2>1, <3>1, WaitersAreThreads DEF PushAccept
      <3>2. CASE terminated' = terminated
                 /\ (pc' = [pc EXCEPT ![p] = "idle"] \/ pc' = pc)
        BY <1>0, <1>1, <2>1, <3>2
      <3>. QED  BY <2>3, <3>1, <3>2 DEF PushBody, AssertFails
    <2>. QED  BY <1>4, <2>2, <2>3 DEF PushStep
  <1>5. ASSUME NEW c \in Poppers \cup Viewers, PopStep(c) \/ ShowStep(c)
        PROVE  FlagStays' /\ (terminated => terminated')
    <2>1. c \in Threads
      BY DEF Threads
    <2>2. CASE PopCall(c) \/ PopTest(c)
      BY <1>0, <1>1, <2>1, <2>2 DEF PopCall, Enter, PopTest, Test
    <2>3. CASE PopBody(c) \/ ShowBody(c)
      <3>1. CASE terminated' = terminated
                 /\ pc' \in NotifyOne([pc EXCEPT ![c] = "idle"], WaitingNotFull)
        BY <1>2, <1>3, <2>1, <3>1, WaitersAreThreads
      <3>2. CASE terminated' = terminated
                 /\ (pc' = [pc EXCEPT ![c] = "idle"] \/ pc' = pc)
        BY <1>0, <1>1, <2>1, <3>2
      <3>. QED  BY <2>3, <3>1, <3>2 DEF PopBody, ShowBody, AssertFails
    <2>. QED  BY <1>5, <2>2, <2>3 DEF PopStep, ShowStep
  <1>6. ASSUME TryPop PROVE FlagStays' /\ (terminated => terminated')
    BY <1>0, <1>2, <1>6, WaitersAreThreads DEF TryPop
  <1>7. ASSUME NEW t \in Terminators, TerminateStore(t)
        PROVE  FlagStays' /\ (terminated => terminated')
    BY <1>7 DEF TerminateStore, FlagStays
  <1>8. ASSUME NEW t \in Terminators, TerminateClear(t)
        PROVE  FlagStays' /\ (terminated => terminated')
    <2>0. t \in Threads /\ [pc EXCEPT ![t] = "idle"] \in [Threads -> Stages]
      BY <1>3 DEF Threads
    <2>1. PICK f \in NotifyOne([pc EXCEPT ![t] = "idle"], WaitingNotFull) :
             pc' \in NotifyOne(f, WaitingNotEmpty)
      BY <1>8 DEF TerminateClear
    <2>2. /\ f \in [Threads -> Stages]
          /\ \A s \in Threads : f[s] = [pc EXCEPT ![t] = "idle"][s] \/ f[s] = "woken"
      BY <2>0, <2>1, NotifyOneWakes, WaitersAreThreads
    <2>3. \A s \in Terminators : f[s] = "clear" => pc[s] = "clear"
      BY <1>0, <1>3, <2>2
    <2>. QED  BY <1>2, <1>8, <2>1, <2>2, <2>3, WaitersAreThreads DEF TerminateClear
  <1>9. ASSUME NEW t \in Threads, Reacquire(t) \/ SpuriousWake(t)
        PROVE  FlagStays' /\ (terminated => terminated')
    BY <1>0, <1>1, <1>9 DEF Reacquire, SpuriousWake
  <1>10. CASE UNCHANGED vars
    BY <1>1, <1>10 DEF vars
  <1>. QED  BY <1>4, <1>5, <1>6, <1>7, <1>8, <1>9, <1>10 DEF Next

\* Moving the front of the second of two sequences to the end of the first
\* leaves their concatenation as it is.
LEMMA MoveFront ==
    ASSUME NEW S, NEW h \in Seq(S), NEW b \in Seq(S), b # <<>>
    PROVE  Append(h, Head(b)) \o Tail(b) = h \o b
  <1>1. /\ Head(b) \in S /\ Tail(b) \in Seq(S) /\ Len(Tail(b)) = Len(b) - 1
        /\ \A i \in 1..Len(Tail(b)) : Tail(b)[i] = b[i + 1]
        /\ Head(b) = b[1] /\ Len(b) \in Nat /\ Len(b) # 0
    BY HeadTailProperties, EmptySeq, LenProperties
  <1>2. <<Head(b)>> \in Seq(S) /\ Len(<<Head(b)>>) = 1 /\ <<Head(b)>>[1] = Head(b)
    BY <1>1
  <1>3. <<Head(b)>> \o Tail(b) = b
    <2> DEFINE r == Tail(b)
    <2> DEFINE one == <<Head(b)>>
    <2>1. /\ one \o r \in Seq(S) /\ Len(one \o r) = Len(one) + Len(r)
          /\ \A i \in 1..(Len(one) + Len(r)) :
                (one \o r)[i] = IF i <= Len(one) THEN one[i] ELSE r[i - Len(one)]
      BY <1>1, <1>2, ConcatProperties
    <2>2. Len(one \o r) = Len(b)
      BY <1>1, <1>2, <2>1
    <2>3. ASSUME NEW i \in 1..Len(b) PROVE (one \o r)[i] = b[i]
      <3>1. CASE i = 1
        BY <1>1, <1>2, <2>1, <3>1
      <3>2. CASE i # 1
        <4>1. i - 1 \in 1..Len(r) /\ r[i - 1] = b[(i - 1) + 1] /\ (i - 1) + 1 = i
          BY <1>1, <3>2
        <4>2. (one \o r)[i] = r[i - 1]
          BY <1>1, <1>2, <2>1, <3>2
        <4>. QED  BY <4>1, <4>2
      <3>. QED  BY <3>1, <3>2
    <2>. QED  BY <2>1, <2>2, <2>3, SeqEqual
  <1>4. Append(h, Head(b)) = h \o <<Head(b)>>
    BY <1>1, AppendIsConcat
  <1>5. (h \o <<Head(b)>>) \o Tail(b) = h \o (<<Head(b)>> \o Tail(b))
    BY <1>1, <1>2, ConcatAssociative
  <1>. QED  BY <1>3, <1>4, <1>5

LEMMA NothingLostStep ==
    ASSUME MaxReads = 0
    PROVE  /\ TypeOK /\ NothingLost /\ FlagStays
           /\ [Next]_vars /\ (terminated => terminated')
           => NothingLost'
  <1>. SUFFICES ASSUME TypeOK, NothingLost, FlagStays, [Next]_vars,
                       terminated => terminated', BlockIn, ~terminated'
                PROVE  handed' \o buffer' = [i \in 1..pushed' |-> i]
    BY DEF NothingLost
  <1>0. /\ buffer \in Seq(Nat \ {0}) /\ handed \in Seq(Nat \ {0}) /\ pushed \in Nat
        /\ handed \o buffer = [i \in 1..pushed |-> i]
    BY DEF TypeOK, NothingLost
  <1>1. CASE ItemEnters
    <2>1. buffer' = Append(buffer, pushed + 1) /\ pushed' = pushed + 1
          /\ handed' = handed
      BY <1>1 DEF ItemEnters, PushBack
    <2>2. Append(handed \o buffer, pushed + 1) = handed \o Append(buffer, pushed + 1)
      <3>1. pushed + 1 \in Nat \ {0}
        BY <1>0
      <3>2. buffer \in Seq(Nat \ {0}) /\ handed \in Seq(Nat \ {0})
        BY <1>0
      <3>3. <<pushed + 1>> \in Seq(Nat \ {0}) /\ handed \o buffer \in Seq(Nat \ {0})
        BY <3>1, <3>2, ConcatProperties
      <3>4. Append(buffer, pushed + 1) = buffer \o <<pushed + 1>>
        BY <3>1, <3>2, AppendIsConcat
      <3>5. Append(handed \o buffer, pushed + 1) = (handed \o buffer) \o <<pushed + 1>>
        BY <3>1, <3>3, AppendIsConcat
      <3>6. (handed \o buffer) \o <<pushed + 1>> = handed \o (buffer \o <<pushed + 1>>)
        BY <3>2, <3>3, ConcatAssociative
      <3>. QED  BY <3>4, <3>5, <3>6
    <2>3. Append([i \in 1..pushed |-> i], pushed + 1) = [i \in 1..(pushed + 1) |-> i]
      BY <1>0
    <2>. QED  BY <1>0, <2>1, <2>2, <2>3
  <1>2. CASE ItemLeaves
    <2>1. handed' = Append(handed, Head(buffer)) /\ buffer' = Tail(buffer)
          /\ pushed' = pushed /\ buffer # <<>>
      BY <1>2 DEF ItemLeaves
    <2>2. Append(handed, Head(buffer)) \o Tail(buffer) = handed \o buffer
      BY <1>0, <2>1, MoveFront
    <2>. QED  BY <1>0, <2>1, <2>2
  <1>3. CASE ItemsCleared
    BY <1>3 DEF ItemsCleared, FlagStays
  <1>4. CASE ItemsStay
    BY <1>0, <1>4 DEF ItemsStay
  <1>. QED  BY <1>1, <1>2, <1>3, <1>4, EffectOnItems

\* Until it is terminated, a blocking buffer loses nothing and invents
\* nothing, whichever threads push, pop, show and try_pop at the same time.
THEOREM NothingIsLost ==
    ASSUME Resumers = {}, MaxReads = 0
    PROVE  Spec => []NothingLost
  <1>1. Init => FlagStays /\ NothingLost
    <2>1. Init => FlagStays
      BY DEF Init, FlagStays, Threads
    <2>2. << >> \o << >> = [i \in 1..0 |-> i]
      OBVIOUS
    <2>. QED  BY <2>1, <2>2 DEF Init, NothingLost
  <1>2. TypeOK /\ FlagStays /\ [Next]_vars => FlagStays' /\ (terminated => terminated')
    BY FlagStep
  <1>3. /\ TypeOK /\ NothingLost /\ FlagStays
        /\ [Next]_vars /\ (terminated => terminated')
        => NothingLost'
    BY NothingLostStep
  <1>4. /\ TypeOK /\ FlagStays /\ NothingLost /\ [Next]_vars
        => (FlagStays /\ NothingLost)'
    BY <1>2, <1>3
  <1>. QED  BY <1>1, <1>4, TypeCorrect, PTL DEF Spec

-----------------------------------------------------------------------------
(* Implementation of the abstract queue *)

\* Every step of a thread is a step of BoundedFifo or leaves its variables
\* alone.
LEMMA FifoStep ==
    ASSUME MaxReads = 0
    PROVE  /\ TypeOK /\ FlagStays
           /\ [Next]_vars /\ (terminated => terminated')
           => [Fifo!Next]_(Fifo!vars)
  <1>. SUFFICES ASSUME TypeOK, FlagStays, [Next]_vars, terminated => terminated'
                PROVE  [Fifo!Next]_(Fifo!vars)
    OBVIOUS
  <1>0. Len(buffer) \in Nat /\ Len(buffer) <= Capacity /\ Capacity \in Nat
    BY LenProperties, CapacityAssumption DEF TypeOK
  <1>1. CASE ItemEnters
    <2>1. CASE Full
      BY <1>1, <2>1 DEF ItemEnters, PushBack, Full, Fifo!Next, Fifo!Enter
    <2>2. CASE ~Full
      <3>1. Len(buffer) < Capacity
        BY <1>0, <2>2 DEF Full
      <3>. QED  BY <1>1, <2>2, <3>1 DEF ItemEnters, PushBack, Fifo!Next, Fifo!Enter
    <2>. QED  BY <2>1, <2>2
  <1>2. CASE ItemLeaves
    BY <1>2 DEF ItemLeaves, Fifo!Next, Fifo!Leave
  <1>3. CASE ItemsCleared
    BY <1>3 DEF ItemsCleared, FlagStays, Fifo!Next, Fifo!Discard
  <1>4. CASE ItemsStay /\ terminated' # terminated
    <2>1. terminated' = TRUE
      <3>1. terminated \in BOOLEAN /\ terminated' \in BOOLEAN
        BY TypeStep DEF TypeOK
      <3>. QED  BY <1>4, <3>1
    <2>. QED  BY <1>4, <2>1 DEF ItemsStay, Fifo!Next, Fifo!Close
  <1>5. CASE ItemsStay /\ terminated' = terminated
    BY <1>5 DEF ItemsStay, Fifo!vars
  <1>. QED  BY <1>1, <1>2, <1>3, <1>4, <1>5, EffectOnItems

\* With frames handed out once and no resume, CThreadedCircular implements the
\* bounded queue (its safety part: that a terminated queue is emptied is left
\* to the model checker).
THEOREM ImplementsQueue ==
    ASSUME Resumers = {}, MaxReads = 0
    PROVE  Spec => Fifo!Safety
  <1>1. Init => FlagStays
    BY DEF Init, FlagStays, Threads
  <1>2. Init => Fifo!Init
    BY DEF Init, Fifo!Init
  <1>3. TypeOK /\ FlagStays /\ [Next]_vars => FlagStays' /\ (terminated => terminated')
    BY FlagStep
  <1>4. /\ TypeOK /\ FlagStays
        /\ [Next]_vars /\ (terminated => terminated')
        => [Fifo!Next]_(Fifo!vars)
    BY FifoStep
  <1>5. TypeOK /\ FlagStays /\ [Next]_vars => FlagStays' /\ [Fifo!Next]_(Fifo!vars)
    BY <1>3, <1>4
  <1>. QED  BY <1>1, <1>2, <1>5, TypeCorrect, PTL DEF Spec, Fifo!Safety

-----------------------------------------------------------------------------
(* Threads on their way *)

Asleep(T) == {t \in T : pc[t] = "asleep"}

\* While one of T sleeps, at least n of T are on their way.
Counted(T, n) == Asleep(T) # {} => n <= Cardinality(InFlight(T))

LEMMA FlightIsFinite ==
    ASSUME NEW T, IsFiniteSet(T)
    PROVE  /\ IsFiniteSet(InFlight(T)) /\ Cardinality(InFlight(T)) \in Nat
           /\ IsFiniteSet(InFlight(T)') /\ Cardinality(InFlight(T)') \in Nat
  <1>1. InFlight(T) \subseteq T /\ InFlight(T)' \subseteq T
    BY DEF InFlight
  <1>. QED  BY <1>1, FS_Subset, FS_CardinalityType

\* Nobody of T falls asleep and nobody leaves.
LEMMA NoneLeaves ==
    ASSUME NEW T, IsFiniteSet(T), NEW n \in Int, Counted(T, n), NEW m \in Int, m <= n,
           \A t \in T : pc'[t] = "asleep" => pc[t] = "asleep",
           \A t \in T : pc[t] \in {"test", "go", "woken"} =>
                        pc'[t] \in {"test", "go", "woken"}
    PROVE  Counted(T, m)'
  <1>1. InFlight(T) \subseteq InFlight(T)'
    BY DEF InFlight
  <1>2. Cardinality(InFlight(T)) <= Cardinality(InFlight(T)')
    BY <1>1, FlightIsFinite, FS_Subset
  <1>3. Asleep(T)' # {} => Asleep(T) # {}
    BY DEF Asleep
  <1>4. ASSUME Asleep(T)' # {} PROVE m <= Cardinality(InFlight(T)')
    <2>1. n <= Cardinality(InFlight(T))
      BY <1>3, <1>4 DEF Counted
    <2>. QED  BY <1>2, <2>1, FlightIsFinite
  <1>. QED  BY <1>4 DEF Counted

\* One of T, if any sleeps, is notified.
LEMMA OneIsWoken ==
    ASSUME NEW T \in SUBSET Threads, IsFiniteSet(T), NEW n \in Int, Counted(T, n),
           NEW f \in [Threads -> Stages], \A t \in T : f[t] = pc[t],
           pc' \in NotifyOne(f, Asleep(T))
    PROVE  Counted(T, n + 1)'
  <1>1. CASE Asleep(T) = {}
    <2>1. pc' = f
      BY <1>1 DEF NotifyOne
    <2>2. Asleep(T)' = {}
      BY <1>1, <2>1 DEF Asleep
    <2>. QED  BY <2>2 DEF Counted
  <1>2. CASE Asleep(T) # {}
    <2>1. PICK w \in Asleep(T) : pc' = [f EXCEPT ![w] = "woken"]
      BY <1>2 DEF NotifyOne
    <2>2. w \in T /\ w \in Threads /\ pc[w] = "asleep"
      BY DEF Asleep
    <2>3. w \notin InFlight(T) /\ InFlight(T)' = InFlight(T) \cup {w}
      BY <2>1, <2>2 DEF InFlight
    <2>4. Cardinality(InFlight(T)') = Cardinality(InFlight(T)) + 1
      BY <2>3, FlightIsFinite, FS_AddElement
    <2>5. n <= Cardinality(InFlight(T))
      BY <1>2 DEF Counted
    <2>. QED  BY <2>4, <2>5, FlightIsFinite DEF Counted
  <1>. QED  BY <1>1, <1>2

\* One of T leaves its method.
LEMMA OneLeaves ==
    ASSUME NEW T, IsFiniteSet(T), NEW n \in Int, Counted(T, n),
           NEW t \in InFlight(T), pc'[t] = "idle", \A s \in T \ {t} : pc'[s] = pc[s]
    PROVE  Counted(T, n - 1)'
  <1>1. InFlight(T)' = InFlight(T) \ {t} /\ Asleep(T)' = Asleep(T)
    BY DEF InFlight, Asleep
  <1>2. Cardinality(InFlight(T)') = Cardinality(InFlight(T)) - 1
    BY <1>1, FlightIsFinite, FS_RemoveElement
  <1>3. ASSUME Asleep(T)' # {} PROVE n - 1 <= Cardinality(InFlight(T)')
    <2>1. n <= Cardinality(InFlight(T))
      BY <1>1, <1>3 DEF Counted
    <2>. QED  BY <1>2, <2>1, FlightIsFinite
  <1>. QED  BY <1>3 DEF Counted

\* Whoever is notified, those outside of W notice nothing.
LEMMA OthersStay ==
    ASSUME NEW T \in SUBSET Threads, NEW W \in SUBSET Threads, T \cap W = {},
           NEW f \in [Threads -> Stages], pc' \in NotifyOne(f, W)
    PROVE  \A t \in T : pc'[t] = f[t]
  BY DEF NotifyOne

LEMMA Weaker ==
    ASSUME NEW T, IsFiniteSet(T), NEW n \in Int, NEW m \in Int, m <= n, Counted(T, n)'
    PROVE  Counted(T, m)'
  BY FlightIsFinite DEF Counted

LEMMA NothingToCount ==
    ASSUME NEW T, IsFiniteSet(T), NEW n \in Int, n <= 0
    PROVE  Counted(T, n)'
  BY FlightIsFinite DEF Counted
-----------------------------------------------------------------------------
Free == Capacity - Len(buffer)

\* Nobody waits in vain for an item, or for a place.
WakeUps == Counted(Poppers, Len(buffer)) /\ Counted(Pushers, Free)

LEMMA WakeUpsAreEnough ==
    ASSUME Viewers = {}
    PROVE  NoLostWakeUp <=> (~terminated => WakeUps)
  <1>1. WaitingNotEmpty = Asleep(Poppers) /\ WaitingNotFull = Asleep(Pushers)
    BY DEF WaitingNotEmpty, WaitingNotFull, Asleep
  <1>. QED  BY <1>1 DEF NoLostWakeUp, WakeUps, Counted, Free

\* The buffer gains an item when it is not full, and loses one to a reader.
LEMMA Lengths ==
    ASSUME TypeOK
    PROVE  /\ Len(buffer) \in Nat /\ Free \in Nat
           /\ ItemEnters => \/ ~Full /\ Len(buffer') = Len(buffer) + 1
                            \/ Full /\ Len(buffer') = Len(buffer)
           /\ ItemLeaves => Len(buffer') = Len(buffer) - 1
           /\ ItemsStay => Len(buffer') = Len(buffer)
  <1>1. /\ buffer \in Seq(Nat \ {0}) /\ Len(buffer) \in Nat /\ Len(buffer) <= Capacity
        /\ Capacity \in Nat \ {0} /\ pushed + 1 \in Nat \ {0}
    BY LenProperties, CapacityAssumption DEF TypeOK
  <1>2. Free \in Nat
    BY <1>1 DEF Free
  <1>3. ASSUME ItemEnters, ~Full PROVE Len(buffer') = Len(buffer) + 1
    BY <1>1, <1>3, AppendProperties DEF ItemEnters, PushBack
  <1>4. ASSUME ItemEnters, Full PROVE Len(buffer') = Len(buffer)
    <2>1. buffer # <<>>
      BY <1>1, <1>4 DEF Full
    <2>2. Tail(buffer) \in Seq(Nat \ {0}) /\ Len(Tail(buffer)) = Len(buffer) - 1
      BY <1>1, <2>1, HeadTailProperties
    <2>3. Len(Append(Tail(buffer), pushed + 1)) = Len(Tail(buffer)) + 1
      BY <1>1, <2>2, AppendProperties
    <2>. QED  BY <1>1, <1>4, <2>2, <2>3 DEF ItemEnters, PushBack
  <1>5. ItemLeaves => Len(buffer') = Len(buffer) - 1
    BY <1>1, HeadTailProperties DEF ItemLeaves
  <1>6. ItemsStay => Len(buffer') = Len(buffer)
    BY DEF ItemsStay
  <1>. QED  BY <1>1, <1>2, <1>3, <1>4, <1>5, <1>6
-----------------------------------------------------------------------------
LEMMA WakeUpsStep ==
    ASSUME Viewers = {}, Resumers = {}, MaxReads = 0,
           IsFiniteSet(Poppers), IsFiniteSet(Pushers)
    PROVE  /\ TypeOK /\ FlagStays /\ NoLostWakeUp
           /\ [Next]_vars /\ (terminated => terminated')
           => NoLostWakeUp'
  <1>. SUFFICES ASSUME TypeOK, FlagStays, NoLostWakeUp, [Next]_vars,
                       terminated => terminated', ~terminated'
                PROVE  WakeUps'
    BY WakeUpsAreEnough DEF NoLostWakeUp, WakeUps, Counted, Asleep, WaitingNotEmpty,
       WaitingNotFull, Free
  <1>0. /\ pc \in [Threads -> Stages] /\ ~terminated
        /\ Counted(Poppers, Len(buffer)) /\ Counted(Pushers, Free)
        /\ Poppers \in SUBSET Threads /\ Pushers \in SUBSET Threads
        /\ Poppers \cap Pushers = {} /\ Terminators \in SUBSET Threads
        /\ Len(buffer) \in Nat /\ Free \in Nat /\ Capacity \in Nat
    BY WakeUpsAreEnough, Lengths, RolesAssumption, CapacityAssumption
    DEF TypeOK, WakeUps, Threads
  \* The lengths before the step.
  <1>k. PICK n \in Nat, m \in Nat : n = Len(buffer) /\ m = Free
    BY <1>0
  <1>c. Counted(Poppers, n) /\ Counted(Pushers, m)
    BY <1>0, <1>k
  <1>w. WaitingNotEmpty = Asleep(Poppers) /\ WaitingNotFull = Asleep(Pushers)
    BY DEF WaitingNotEmpty, WaitingNotFull, Asleep
  \* Steps in which nobody falls asleep or leaves.
  <1>n. ASSUME UNCHANGED buffer,
               \A t \in Threads : pc'[t] = "asleep" => pc[t] = "asleep",
               \A t \in Threads : pc[t] \in {"test", "go", "woken"} =>
                                  pc'[t] \in {"test", "go", "woken"}
        PROVE  WakeUps'
    <2>1. Counted(Poppers, Len(buffer))'
      BY <1>0, <1>n, NoneLeaves
    <2>2. Counted(Pushers, Free)'
      <3>1. Free' = Free
        BY <1>n DEF Free
      <3>. QED  BY <1>0, <1>n, <3>1, NoneLeaves
    <2>. QED  BY <2>1, <2>2 DEF WakeUps
  <1>1. ASSUME NEW t \in Threads, NEW stage \in {"test", "go"}, Enter(t, stage)
        PROVE  WakeUps'
    BY <1>0, <1>1, <1>n DEF Enter
  <1>2. ASSUME NEW p \in Pushers, PushTest(p) PROVE WakeUps'
    <2>1. CASE ~Full
      <3>1. pc' = [pc EXCEPT ![p] = "go"] /\ UNCHANGED buffer
        BY <1>2, <2>1 DEF PushTest, Test
      <3>. QED  BY <1>0, <1>n, <3>1
    <2>2. CASE Full
      <3>1. pc' = [pc EXCEPT ![p] = "asleep"] /\ buffer' = buffer
        BY <1>0, <1>2, <2>2 DEF PushTest, Test
      <3>2. Counted(Pushers, Free)'
        <4>1. Free' = 0
          BY <1>0, <2>2, <3>1 DEF Free, Full
        <4>. QED  BY <4>1, NothingToCount
      <3>3. \A c \in Poppers : pc'[c] = pc[c]
        BY <1>0, <3>1
      <3>4. Counted(Poppers, Len(buffer))'
        BY <1>0, <3>1, <3>3, NoneLeaves
      <3>. QED  BY <3>2, <3>4 DEF WakeUps
    <2>. QED  BY <2>1, <2>2
  <1>3. ASSUME NEW p \in Pushers, PushBody(p) PROVE WakeUps'
    <2>1. CASE AssertFails
      BY <1>0, <1>n, <2>1 DEF AssertFails
    <2>2. CASE PushAccept(p)
      <3>. DEFINE f == [pc EXCEPT ![p] = "idle"]
      <3>1. /\ f \in [Threads -> Stages] /\ \A c \in Poppers : f[c] = pc[c]
            /\ f[p] = "idle" /\ \A q \in Pushers \ {p} : f[q] = pc[q]
        BY <1>0 DEF Stages
      <3>2. pc' \in NotifyOne(f, Asleep(Poppers)) /\ Asleep(Poppers) \in SUBSET Threads
        BY <1>0, <1>w, <2>2 DEF PushAccept, Asleep
      <3>3. ItemEnters
        BY <1>0, <1>3, <2>2 DEF PushBody, PushAccept, ItemEnters, AssertFails
      <3>. HIDE DEF f
      <3>4. Counted(Poppers, n + 1)'
        BY <1>0, <1>c, <3>1, <3>2, OneIsWoken
      <3>5. Counted(Poppers, Len(buffer))'
        <4>1. Len(buffer') \in Nat /\ Len(buffer') <= n + 1
          BY <1>0, <1>k, <3>3, Lengths
        <4>. QED  BY <1>k, <3>4, <4>1, Weaker
      <3>6. \A q \in Pushers : pc'[q] = f[q]
        BY <1>0, <3>1, <3>2, OthersStay DEF Asleep
      <3>7. p \in InFlight(Pushers)
        BY <1>3 DEF PushBody, InFlight
      <3>8. Counted(Pushers, m - 1)'
        BY <1>0, <1>c, <3>1, <3>6, <3>7, OneLeaves
      <3>9. Counted(Pushers, Free)'
        <4>1. CASE ~Full
          <5>1. Free' = m - 1
            BY <1>0, <1>k, <3>3, <4>1, Lengths DEF Free
          <5>. QED  BY <3>8, <5>1 DEF Counted
        <4>2. CASE Full
          <5>1. Free' = 0
            BY <1>0, <3>3, <4>2, Lengths DEF Free, Full
          <5>. QED  BY <5>1, NothingToCount
        <4>. QED  BY <4>1, <4>2
      <3>. QED  BY <3>5, <3>9 DEF WakeUps
    <2>. QED  BY <1>0, <1>3, <2>1, <2>2 DEF PushBody
  <1>4. ASSUME NEW c \in Poppers, PopTest(c) PROVE WakeUps'
    <2>1. CASE buffer # <<>>
      <3>1. pc' = [pc EXCEPT ![c] = "go"] /\ UNCHANGED buffer
        BY <1>4, <2>1 DEF PopTest, Test
      <3>. QED  BY <1>0, <1>n, <3>1
    <2>2. CASE buffer = <<>>
      <3>1. pc' = [pc EXCEPT ![c] = "asleep"] /\ buffer' = buffer
        BY <1>0, <1>4, <2>2 DEF PopTest, Test
      <3>2. Counted(Poppers, Len(buffer))'
        <4>1. Len(buffer') = 0
          BY <2>2, <3>1
        <4>. QED  BY <4>1, NothingToCount
      <3>3. \A p \in Pushers : pc'[p] = pc[p]
        BY <1>0, <3>1
      <3>4. Counted(Pushers, Free)'
        <4>1. Free' = Free
          BY <3>1 DEF Free
        <4>. QED  BY <1>0, <3>3, <4>1, NoneLeaves
      <3>. QED  BY <3>2, <3>4 DEF WakeUps
    <2>. QED  BY <2>1, <2>2
  \* An item leaves: a pusher is notified.
  <1>p. ASSUME ItemLeaves, NEW f \in [Threads -> Stages], \A p \in Pushers : f[p] = pc[p],
               pc' \in NotifyOne(f, WaitingNotFull)
        PROVE  Counted(Pushers, Free)' /\ \A c \in Poppers : pc'[c] = f[c]
    <2>1. Counted(Pushers, m + 1)'
      BY <1>0, <1>c, <1>w, <1>p, OneIsWoken
    <2>2. Free' = m + 1
      BY <1>0, <1>k, <1>p, Lengths DEF Free
    <2>3. \A c \in Poppers : pc'[c] = f[c]
      BY <1>0, <1>w, <1>p, OthersStay DEF Asleep
    <2>4. Counted(Pushers, Free)'
      BY <2>1, <2>2 DEF Counted
    <2>. QED  BY <2>3, <2>4
  <1>5. ASSUME NEW c \in Poppers, PopBody(c) PROVE WakeUps'
    <2>1. CASE AssertFails
      BY <1>0, <1>n, <2>1 DEF AssertFails
    <2>2. CASE ~AssertFails
      <3>. DEFINE f == [pc EXCEPT ![c] = "idle"]
      <3>1. /\ f \in [Threads -> Stages] /\ \A p \in Pushers : f[p] = pc[p]
            /\ f[c] = "idle" /\ \A d \in Poppers \ {c} : f[d] = pc[d]
        BY <1>0 DEF Stages
      <3>2. pc' \in NotifyOne(f, WaitingNotFull) /\ ItemLeaves
        <4>1. reads = MaxReads
          BY DEF TypeOK
        <4>. QED  BY <1>0, <1>5, <2>2, <4>1 DEF PopBody, TakeFront, ItemLeaves
      <3>. HIDE DEF f
      <3>3. Counted(Pushers, Free)' /\ \A d \in Poppers : pc'[d] = f[d]
        BY <1>p, <3>1, <3>2
      <3>4. c \in InFlight(Poppers)
        BY <1>5 DEF PopBody, InFlight
      <3>5. Counted(Poppers, n - 1)'
        BY <1>0, <1>c, <3>1, <3>3, <3>4, OneLeaves
      <3>6. Counted(Poppers, Len(buffer))'
        <4>1. Len(buffer') = n - 1
          BY <1>0, <1>k, <3>2, Lengths
        <4>. QED  BY <3>5, <4>1 DEF Counted
      <3>. QED  BY <3>3, <3>6 DEF WakeUps
    <2>. QED  BY <2>1, <2>2
  <1>6. ASSUME TryPop PROVE WakeUps'
    <2>1. ItemLeaves /\ pc' \in NotifyOne(pc, WaitingNotFull)
      BY <1>6 DEF TryPop, ItemLeaves
    <2>2. Counted(Pushers, Free)' /\ \A c \in Poppers : pc'[c] = pc[c]
      BY <1>0, <1>p, <2>1
    <2>3. Counted(Poppers, Len(buffer))'
      <3>1. Len(buffer') \in Int /\ Len(buffer') <= n
        BY <1>0, <1>k, <2>1, Lengths
      <3>. QED  BY <1>0, <1>c, <2>2, <3>1, NoneLeaves
    <2>. QED  BY <2>2, <2>3 DEF WakeUps
  <1>7. ASSUME NEW t \in Terminators, TerminateStore(t) \/ TerminateClear(t) PROVE FALSE
    BY <1>0, <1>7 DEF TerminateStore, TerminateClear, FlagStays
  <1>8. ASSUME NEW t \in Threads, Reacquire(t) \/ SpuriousWake(t) PROVE WakeUps'
    BY <1>0, <1>8, <1>n DEF Reacquire, SpuriousWake
  <1>9. CASE UNCHANGED vars
    BY <1>0, <1>9, <1>n DEF vars
  <1>10. \A t \in Threads : PushCall(t) \/ PopCall(t) =>
            \E stage \in {"test", "go"} : Enter(t, stage)
    BY DEF PushCall, PopCall
  <1>. QED  BY <1>0, <1>1, <1>2, <1>3, <1>4, <1>5, <1>6, <1>7, <1>8, <1>9, <1>10
            DEF Next, PushStep, PopStep

\* Any finite sets of pushers and poppers, any capacity, blocking or not, with
\* try_pop, spurious wake-ups and terminate: while a popper sleeps every item
\* has a popper on its way, and while a pusher sleeps every free place has a
\* pusher on its way, although push and pop notify one thread only and the one
\* they notify may find that others were faster.  Needs that nobody calls show,
\* which takes a notification and no item, resume, or pop(max).
THEOREM NoWakeUpIsLost ==
    ASSUME Viewers = {}, Resumers = {}, MaxReads = 0,
           IsFiniteSet(Poppers), IsFiniteSet(Pushers)
    PROVE  Spec => []NoLostWakeUp
  <1>1. Init => FlagStays /\ NoLostWakeUp
    BY DEF Init, FlagStays, NoLostWakeUp, WaitingNotEmpty, WaitingNotFull, Threads
  <1>2. TypeOK /\ FlagStays /\ [Next]_vars => FlagStays' /\ (terminated => terminated')
    BY FlagStep
  <1>3. /\ TypeOK /\ FlagStays /\ NoLostWakeUp
        /\ [Next]_vars /\ (terminated => terminated')
        => NoLostWakeUp'
    BY WakeUpsStep
  <1>4. TypeOK /\ FlagStays /\ NoLostWakeUp /\ [Next]_vars
        => (FlagStays /\ NoLostWakeUp)'
    BY <1>2, <1>3
  <1>. QED  BY <1>1, <1>4, TypeCorrect, PTL DEF Spec

-----------------------------------------------------------------------------
(* Reads of a frame *)

LEMMA TimesType ==
    ASSUME handed \in Seq(Nat \ {0}), NEW i
    PROVE  IsFiniteSet({k \in 1..Len(handed) : handed[k] = i}) /\ TimesHanded(i) \in Nat
  <1>1. Len(handed) \in Nat
    BY LenProperties
  <1>2. IsFiniteSet(1..Len(handed))
    BY <1>1, FS_Interval
  <1>3. {k \in 1..Len(handed) : handed[k] = i} \subseteq 1..Len(handed)
    OBVIOUS
  <1>. QED  BY <1>2, <1>3, FS_Subset, FS_CardinalityType DEF TimesHanded

\* Reading an item raises its count by one, and no other.
LEMMA TimesAppend ==
    ASSUME handed \in Seq(Nat \ {0}), NEW x \in Nat \ {0}, handed' = Append(handed, x), NEW i
    PROVE  TimesHanded(i)' = IF i = x THEN TimesHanded(i) + 1 ELSE TimesHanded(i)
  <1>. DEFINE n == Len(handed)
              S == {k \in 1..n : handed[k] = i}
              T == {k \in 1..Len(handed') : handed'[k] = i}
  <1>1. /\ n \in Nat /\ Len(handed') = n + 1 /\ handed'[n + 1] = x
        /\ \A k \in 1..n : handed'[k] = handed[k]
    BY AppendProperties, LenProperties
  <1>2. IsFiniteSet(S) /\ n + 1 \notin S
    <2>1. IsFiniteSet(S)
      BY TimesType
    <2>2. n + 1 \notin 1..n
      BY <1>1
    <2>. QED  BY <2>1, <2>2
  <1>3. TimesHanded(i) = Cardinality(S) /\ TimesHanded(i)' = Cardinality(T)
    BY DEF TimesHanded
  <1>4. CASE i = x
    <2>1. T = S \cup {n + 1}
      BY <1>1, <1>4
    <2>. HIDE DEF S, T
    <2>2. Cardinality(S \cup {n + 1}) = Cardinality(S) + 1
      BY <1>2, FS_AddElement
    <2>. QED  BY <1>3, <1>4, <2>1, <2>2
  <1>5. CASE i # x
    <2>1. T = S
      BY <1>1, <1>5
    <2>. QED  BY <1>3, <1>5, <2>1
  <1>. QED  BY <1>4, <1>5

\* While it blocks and is not terminated: a new item goes behind the others,
\* the one in front is read, or nothing happens to them.
FrameEnters ==
    /\ buffer' = Append(buffer, pushed + 1) /\ pushed' = pushed + 1
    /\ UNCHANGED <<reads, handed>>
FrameRead == buffer # <<>> /\ TakeFront /\ UNCHANGED pushed
FramesStay == UNCHANGED <<buffer, reads, handed, pushed>>

LEMMA EffectOnFrames ==
    ASSUME BlockIn
    PROVE  TypeOK /\ FlagStays /\ ~terminated /\ [FrameNext]_vars =>
             FrameEnters \/ FrameRead \/ FramesStay
  <1>. SUFFICES ASSUME TypeOK, FlagStays, ~terminated, [FrameNext]_vars
                PROVE  FrameEnters \/ FrameRead \/ FramesStay
    OBVIOUS
  <1>1. ASSUME NEW p \in Pushers, PushBody(p) PROVE FrameEnters \/ FramesStay
    BY <1>1 DEF PushBody, PushAccept, PushBack, AssertFails, FrameEnters, FramesStay
  <1>2. ASSUME NEW c \in Poppers, PopBody(c) PROVE FrameRead \/ FramesStay
    BY <1>2 DEF PopBody, AssertFails, FrameRead, FramesStay
  <1>3. ASSUME NEW t \in Terminators, TerminateClear(t) PROVE FALSE
    BY <1>3 DEF TerminateClear, FlagStays
  <1>4. ASSUME NEW t \in Threads, NEW stage \in {"test", "go"}, Enter(t, stage)
        PROVE  FramesStay
    BY <1>4 DEF Enter, FramesStay
  <1>5. ASSUME NEW t \in Threads, PushTest(t) \/ PopTest(t) PROVE FramesStay
    BY <1>5 DEF PushTest, PopTest, Test, FramesStay
  <1>6. ASSUME NEW v \in Viewers, ShowBody(v) PROVE FramesStay
    BY <1>6 DEF ShowBody, AssertFails, FramesStay
  <1>7. ASSUME NEW t \in Threads, Reacquire(t) \/ SpuriousWake(t) PROVE FramesStay
    BY <1>7 DEF Reacquire, SpuriousWake, FramesStay
  <1>8. ASSUME NEW t \in Terminators, TerminateStore(t) PROVE FramesStay
    BY <1>8 DEF TerminateStore, FramesStay
  <1>9. ASSUME Resume PROVE FramesStay
    BY <1>9 DEF Resume, FramesStay
  <1>10. CASE UNCHANGED vars
    BY <1>10 DEF vars, FramesStay
  <1>11. \A t \in Threads : PushCall(t) \/ PopCall(t) =>
            \E stage \in {"test", "go"} : Enter(t, stage)
    BY BlockInAssumption DEF PushCall, PopCall
  <1>. QED  BY <1>1, <1>2, <1>3, <1>4, <1>5, <1>6, <1>7, <1>8, <1>9, <1>10, <1>11
            DEF FrameNext, Next, PushStep, PopStep, ShowStep, Threads

\* How often the item of place p in the buffer was read, when the one in front
\* was read r times.
Due(r, p) == CASE p < 1 -> MaxReads + 1 [] p = 1 -> r [] p > 1 -> 0

\* A read of the front: it leaves and all move up, or its count is raised.
LEMMA DueAfterRead ==
    ASSUME NEW r \in Nat, NEW p \in Int
    PROVE  LET raised == IF p = 1 THEN Due(r, p) + 1 ELSE Due(r, p)
           IN  /\ r = MaxReads => Due(0, p - 1) = raised
               /\ r # MaxReads => Due(r + 1, p) = raised
  BY BoundsAssumption DEF Due

\* What was read was pushed, the buffer holds the last items, and an item that
\* comes to the front has not been read.
FrameInv ==
    (BlockIn /\ ~terminated) =>
      /\ \A k \in 1..Len(buffer) : buffer[k] = pushed - Len(buffer) + k
      /\ \A k \in 1..Len(handed) : handed[k] <= pushed
      /\ buffer = <<>> => reads = 0
      /\ \A i \in 1..pushed : TimesHanded(i) = Due(reads, i - (pushed - Len(buffer)))

LEMMA FrameStep ==
    /\ TypeOK /\ FlagStays /\ FrameInv
    /\ [FrameNext]_vars /\ (terminated => terminated')
    => FrameInv'
  <1>. SUFFICES ASSUME TypeOK, FlagStays, FrameInv, [FrameNext]_vars,
                       terminated => terminated',
                       BlockIn, ~terminated'
                PROVE  /\ \A k \in 1..Len(buffer') : buffer'[k] = pushed' - Len(buffer') + k
                       /\ \A k \in 1..Len(handed') : handed'[k] <= pushed'
                       /\ buffer' = <<>> => reads' = 0
                       /\ \A i \in 1..pushed' :
                            TimesHanded(i)' = Due(reads, i - (pushed - Len(buffer)))'
    BY DEF FrameInv
  <1>. DEFINE n == Len(buffer)
              h == Len(handed)
  <1>1. /\ buffer \in Seq(Nat \ {0}) /\ handed \in Seq(Nat \ {0}) /\ pushed \in Nat
        /\ reads \in Nat /\ MaxReads \in Nat /\ n \in Nat /\ h \in Nat
    BY BoundsAssumption, LenProperties DEF TypeOK
  <1>2. /\ \A k \in 1..n : buffer[k] = pushed - n + k
        /\ \A k \in 1..h : handed[k] <= pushed /\ handed[k] \in Nat
        /\ buffer = <<>> => reads = 0
        /\ \A i \in 1..pushed : TimesHanded(i) = Due(reads, i - (pushed - n))
    BY <1>1, ElementOfSeq DEF FrameInv
  <1>3. CASE FrameEnters
    <2>1. /\ Len(buffer') = n + 1 /\ \A k \in 1..n : buffer'[k] = buffer[k]
          /\ buffer'[n + 1] = pushed + 1
      BY <1>1, <1>3, AppendProperties DEF FrameEnters
    <2>2. pushed' = pushed + 1 /\ reads' = reads /\ handed' = handed
      BY <1>3 DEF FrameEnters
    <2>3. ASSUME NEW k \in 1..Len(buffer') PROVE buffer'[k] = pushed' - Len(buffer') + k
      <3>1. k \in 1..n \/ k = n + 1
        BY <1>1, <2>1
      <3>2. CASE k \in 1..n
        <4>1. buffer'[k] = pushed - n + k
          BY <1>2, <2>1, <3>2
        <4>. QED  BY <1>1, <2>1, <2>2, <4>1
      <3>3. CASE k = n + 1
        BY <1>1, <2>1, <2>2, <3>3
      <3>. QED  BY <3>1, <3>2, <3>3
    <2>4. \A k \in 1..Len(handed') : handed'[k] <= pushed'
      BY <1>1, <1>2, <2>2
    <2>5. buffer' # <<>>
      BY <1>1, <2>1
    <2>6. ASSUME NEW i \in 1..pushed'
          PROVE  TimesHanded(i)' = Due(reads, i - (pushed - Len(buffer)))'
      <3>1. TimesHanded(i)' = TimesHanded(i)
        BY <2>2 DEF TimesHanded
      <3>2. pushed' - Len(buffer') = pushed - n
        BY <1>1, <2>1, <2>2
      <3>3. Due(reads, i - (pushed - Len(buffer)))' = Due(reads, i - (pushed - n))
        BY <2>2, <3>2
      <3>4. CASE i \in 1..pushed
        BY <1>2, <3>1, <3>3, <3>4
      <3>5. CASE i = pushed + 1
        <4>1. {k \in 1..Len(handed) : handed[k] = i} = {}
          BY <1>1, <1>2, <3>5
        <4>2. TimesHanded(i) = 0
          BY <4>1, FS_EmptySet DEF TimesHanded
        <4>3. i - (pushed - n) = n + 1
          BY <1>1, <3>5
        <4>4. n = 0 => reads = 0
          BY <1>1, <1>2, EmptySeq
        <4>5. Due(reads, n + 1) = 0
          BY <1>1, <4>4 DEF Due
        <4>. QED  BY <3>1, <3>3, <4>2, <4>3, <4>5
      <3>. QED  BY <1>1, <2>2, <3>4, <3>5
    <2>. QED  BY <2>3, <2>4, <2>5, <2>6
  <1>4. CASE FrameRead
    <2>. DEFINE x == Head(buffer)
    <2>1. /\ buffer # <<>> /\ n >= 1 /\ x = buffer[1] /\ x \in Nat \ {0}
          /\ Len(Tail(buffer)) = n - 1
          /\ \A k \in 1..(n - 1) : Tail(buffer)[k] = buffer[k + 1]
      BY <1>1, <1>4, HeadTailProperties, EmptySeq DEF FrameRead
    <2>2. x = pushed - n + 1 /\ x <= pushed /\ pushed' = pushed
      <3>1. 1 \in 1..n
        BY <1>1, <2>1
      <3>. QED  BY <1>1, <1>2, <1>4, <2>1, <3>1 DEF FrameRead
    <2>3. handed' = Append(handed, x)
      BY <1>4 DEF FrameRead, TakeFront
    <2>. HIDE DEF x
    <2>4. \A k \in 1..Len(handed') : handed'[k] <= pushed'
      <3>1. /\ Len(handed') = h + 1 /\ handed'[h + 1] = x
            /\ \A k \in 1..h : handed'[k] = handed[k]
        BY <1>1, <2>1, <2>3, AppendProperties
      <3>2. \A k \in 1..(h + 1) : k \in 1..h \/ k = h + 1
        BY <1>1
      <3>. HIDE DEF h
      <3>. QED  BY <1>2, <2>2, <3>1, <3>2
    <2>5. \A i \in 1..pushed' : /\ TimesHanded(i) = Due(reads, i - (pushed - n))
                                /\ TimesHanded(i)' = IF i = x THEN TimesHanded(i) + 1
                                                              ELSE TimesHanded(i)
      BY <1>1, <1>2, <2>1, <2>2, <2>3, TimesAppend
    <2>6. \A i \in 1..pushed' : i - (pushed - n) \in Int /\ (i = x <=> i - (pushed - n) = 1)
      BY <1>1, <2>2
    <2>7. CASE reads = MaxReads /\ buffer' = Tail(buffer) /\ reads' = 0
      <3>0. Len(buffer') = n - 1 /\ n - 1 \in Nat
        BY <1>1, <2>1, <2>7
      <3>1. \A k \in 1..Len(buffer') : buffer'[k] = pushed' - Len(buffer') + k
        <4>1. ASSUME NEW k \in 1..(n - 1) PROVE Tail(buffer)[k] = pushed - (n - 1) + k
          <5>1. k + 1 \in 1..n
            BY <1>1
          <5>2. buffer[k + 1] = pushed - n + (k + 1) /\ Tail(buffer)[k] = buffer[k + 1]
            BY <1>2, <2>1, <5>1
          <5>3. pushed - n + (k + 1) = pushed - (n - 1) + k
            BY <1>1
          <5>. QED  BY <5>2, <5>3
        <4>. QED  BY <2>1, <2>2, <2>7, <4>1
      <3>2. ASSUME NEW i \in 1..pushed'
            PROVE  TimesHanded(i)' = Due(reads, i - (pushed - Len(buffer)))'
        <4>1. i - (pushed' - Len(buffer')) = (i - (pushed - n)) - 1 /\ reads' = 0
          BY <1>1, <2>2, <2>7, <3>0
        <4>2. Due(0, (i - (pushed - n)) - 1) = IF i - (pushed - n) = 1 THEN TimesHanded(i) + 1
                                                                    ELSE TimesHanded(i)
          BY <1>1, <2>5, <2>7, <2>6, DueAfterRead
        <4>. QED  BY <2>5, <2>6, <4>1, <4>2
      <3>. QED  BY <2>4, <2>7, <3>1, <3>2
    <2>8. CASE reads # MaxReads /\ reads' = reads + 1 /\ buffer' = buffer
      <3>1. ASSUME NEW i \in 1..pushed'
            PROVE  TimesHanded(i)' = Due(reads, i - (pushed - Len(buffer)))'
        <4>1. i - (pushed' - Len(buffer')) = i - (pushed - n) /\ reads' = reads + 1
          BY <2>2, <2>8
        <4>2. Due(reads + 1, i - (pushed - n)) = IF i - (pushed - n) = 1 THEN TimesHanded(i) + 1
                                                                      ELSE TimesHanded(i)
          BY <1>1, <2>5, <2>8, <2>6, DueAfterRead
        <4>. QED  BY <2>5, <2>6, <4>1, <4>2
      <3>. QED  BY <1>2, <2>1, <2>2, <2>4, <2>8, <3>1
    <2>. QED  BY <1>4, <2>7, <2>8 DEF FrameRead, TakeFront
  <1>5. CASE FramesStay
    <2>1. \A i : TimesHanded(i)' = TimesHanded(i)
      BY <1>5 DEF FramesStay, TimesHanded
    <2>. QED  BY <1>2, <1>5, <2>1 DEF FramesStay
  <1>. QED  BY <1>3, <1>4, <1>5, EffectOnFrames

LEMMA FrameInvHolds ==
    /\ Init => FlagStays /\ FrameInv
    /\ FrameInv => ReadInFull
  <1>1. Init => FlagStays /\ FrameInv
    BY DEF Init, FlagStays, FrameInv, Threads
  <1>2. FrameInv => ReadInFull
    BY DEF FrameInv, ReadInFull, Due
  <1>. QED  BY <1>1, <1>2

\* Any threads that read with pop(max), any capacity, any viewers: a frame is
\* read max + 1 times before it leaves, whoever reads it, and no later frame is
\* read before (FFMPEGtest2/Utils.h, pop).  Needs that nobody polls, which takes
\* a frame whatever its count, or resumes.
THEOREM FramesAreReadInFull ==
    ASSUME Pollers = {}, Resumers = {}
    PROVE  Spec => []ReadInFull
  <1>1. [Next]_vars => [FrameNext]_vars
    BY DEF FrameNext
  <1>2. TypeOK /\ FlagStays /\ [Next]_vars => FlagStays' /\ (terminated => terminated')
    BY FlagStep
  <1>3. TypeOK /\ FlagStays /\ FrameInv /\ [Next]_vars => (FlagStays /\ FrameInv)'
    BY <1>1, <1>2, FrameStep
  <1>. QED  BY <1>3, FrameInvHolds, TypeCorrect, PTL DEF Spec

-----------------------------------------------------------------------------
(* The variants *)

\* While the variant is frames, the invariants of the buffer hold, and nobody
\* polls although there may be pollers; nothing is said of the ring.
VariantInv == variant = "frames" => TypeOK /\ FlagStays /\ FrameInv

LEMMA VariantStep ==
    ASSUME Resumers = {}
    PROVE  VariantInv /\ [VariantNext]_variantVars => VariantInv'
  <1>. SUFFICES ASSUME VariantInv, [VariantNext]_variantVars, variant' = "frames"
                PROVE  (TypeOK /\ FlagStays /\ FrameInv)'
    BY DEF VariantInv
  <1>1. variant = "frames" /\ [FrameNext]_vars
    BY DEF VariantNext, variantVars
  <1>2. TypeOK /\ FlagStays /\ FrameInv
    BY <1>1 DEF VariantInv
  <1>3. [Next]_vars
    BY <1>1 DEF FrameNext
  <1>4. TypeOK' /\ FlagStays' /\ (terminated => terminated')
    BY <1>2, <1>3, TypeStep, FlagStep
  <1>. QED  BY <1>1, <1>2, <1>4, FrameStep

\* The frames of FFMPEGtest2 beside the ring, as they are checked together: a
\* frame that has left was read max + 1 times, the one in front as often as its
\* counter says, and those behind it not at all, for any readers and capacity.
THEOREM VariantFramesReadInFull ==
    ASSUME Resumers = {}
    PROVE  VariantSpec => []FramesReadInFull
  <1>1. Init => VariantInv
    BY TypeInit, FrameInvHolds DEF VariantInv
  <1>2. VariantInv /\ [VariantNext]_variantVars => VariantInv'
    BY VariantStep
  <1>3. VariantInv => FramesReadInFull
    BY FrameInvHolds DEF VariantInv, FramesReadInFull
  <1>. QED  BY <1>1, <1>2, <1>3, PTL DEF VariantSpec

\* While the variant is ring: what its steps need of the buffer and the threads.
RingTypes ==
    /\ buffer \in Seq(Nat \ {0}) /\ Len(buffer) <= Capacity
    /\ reads = 0 /\ pushed \in Nat
    /\ terminated \in BOOLEAN
    /\ pc \in [Threads -> Stages]
    /\ FlagStays
RingInv == variant = "ring" => RingTypes

\* The threads of the ring are threads of the instance.
LEMMA RingThreads ==
    /\ Ring!Threads \in SUBSET Threads
    /\ Ring!WaitingNotFull \in SUBSET Threads /\ Ring!WaitingNotEmpty \in SUBSET Threads
  BY DEF Ring!Threads, Threads, Ring!WaitingNotFull, Ring!WaitingNotEmpty

\* One item enters the ring; a full one loses its oldest item.
RingEnters ==
    /\ ~terminated
    /\ buffer' = Append(IF Full THEN Tail(buffer) ELSE buffer, pushed + 1)
    /\ pushed' = pushed + 1
    /\ UNCHANGED <<handed, terminated>>

\* What a step of the ring does to its items.
LEMMA EffectOnRing ==
    ASSUME Resumers = {}, RingTypes, [Ring!Next]_vars
    PROVE  /\ RingEnters \/ ItemLeaves \/ ItemsCleared \/ ItemsStay
           /\ reads' = 0
           /\ terminated' \in {terminated, TRUE}
  <1>. DEFINE Effect == /\ RingEnters \/ ItemLeaves \/ ItemsCleared \/ ItemsStay
                       /\ reads' = 0
                       /\ terminated' \in {terminated, TRUE}
  <1>0. reads = 0
    BY DEF RingTypes
  <1>1. ASSUME NEW p \in Pushers, Ring!PushBody(p) PROVE Effect
    <2>1. Ring!Full = Full
      BY DEF Ring!Full, Full
    <2>. QED  BY <1>0, <1>1, <2>1 DEF Ring!PushBody, Ring!PushAccept, Ring!PushBack, Ring!AssertFails,
                                      RingEnters, ItemsStay
  <1>2. ASSUME NEW c \in Poppers, Ring!PopBody(c) PROVE Effect
    BY <1>0, <1>2 DEF Ring!PopBody, Ring!TakeFront, Ring!AssertFails, ItemLeaves, ItemsStay
  <1>3. ASSUME Ring!TryPop PROVE Effect
    BY <1>3 DEF Ring!TryPop, ItemLeaves
  <1>4. ASSUME NEW t \in Terminators, Ring!TerminateClear(t) PROVE Effect
    BY <1>4 DEF Ring!TerminateClear, ItemsCleared
  <1>5. ASSUME NEW t, NEW stage, Ring!Enter(t, stage) PROVE Effect
    BY <1>0, <1>5 DEF Ring!Enter, ItemsStay
  <1>6. ASSUME NEW t, Ring!PushTest(t) \/ Ring!PopTest(t) PROVE Effect
    BY <1>0, <1>6 DEF Ring!PushTest, Ring!PopTest, Ring!Test, ItemsStay
  <1>7. ASSUME NEW v, Ring!ShowBody(v) PROVE Effect
    BY <1>0, <1>7 DEF Ring!ShowBody, Ring!AssertFails, ItemsStay
  <1>8. ASSUME NEW t, Ring!Reacquire(t) \/ Ring!SpuriousWake(t) PROVE Effect
    BY <1>0, <1>8 DEF Ring!Reacquire, Ring!SpuriousWake, ItemsStay
  <1>9. ASSUME NEW t, Ring!TerminateStore(t) PROVE Effect
    BY <1>0, <1>9 DEF Ring!TerminateStore, ItemsStay
  <1>10. CASE UNCHANGED vars
    BY <1>0, <1>10 DEF vars, ItemsStay
  <1>. HIDE DEF Effect
  <1>11. ASSUME NEW p \in Pushers, Ring!PushStep(p) PROVE Effect
    BY <1>1, <1>5, <1>6, <1>11 DEF Ring!PushStep, Ring!PushCall
  <1>12. ASSUME NEW c \in Poppers, Ring!PopStep(c) PROVE Effect
    BY <1>2, <1>5, <1>6, <1>12 DEF Ring!PopStep, Ring!PopCall
  <1>13. ASSUME NEW v \in Viewers, Ring!ShowStep(v) PROVE Effect
    BY <1>5, <1>6, <1>7, <1>13 DEF Ring!ShowStep, Ring!PopCall
  <1>14. Ring!Next => Effect
    BY <1>3, <1>4, <1>8, <1>9, <1>11, <1>12, <1>13 DEF Ring!Next
  <1>. QED  BY <1>10, <1>14 DEF Effect

\* notify_one of the ring changes the state of one waiter at most, and wakes it.
LEMMA RingNotifies ==
    ASSUME NEW f \in [Threads -> Stages], NEW W \in SUBSET Threads,
           NEW g \in Ring!NotifyOne(f, W)
    PROVE  /\ g \in [Threads -> Stages]
           /\ \A t \in Threads : g[t] = f[t] \/ g[t] = "woken"
  BY DEF Ring!NotifyOne, Stages

\* A thread of the ring that is in the second half of terminate finds its flag set.
LEMMA RingFlags ==
    ASSUME Resumers = {}, RingTypes, [Ring!Next]_vars
    PROVE  pc' \in [Threads -> Stages] /\ FlagStays'
  <1>. DEFINE Kept == pc' \in [Threads -> Stages] /\ FlagStays'
  <1>0. pc \in [Threads -> Stages] /\ FlagStays /\ Terminators \subseteq Threads
    BY DEF RingTypes, Threads
  <1>1. terminated => terminated'
    BY EffectOnRing
  <1>2. ASSUME pc' \in [Threads -> Stages],
               \A t \in Terminators : pc'[t] = "clear" => pc[t] = "clear"
        PROVE  Kept
    BY <1>0, <1>1, <1>2 DEF FlagStays
  <1>3. ASSUME NEW t \in Threads, NEW s \in Stages \ {"clear"}
        PROVE  /\ [pc EXCEPT ![t] = s] \in [Threads -> Stages]
               /\ \A u \in Terminators : [pc EXCEPT ![t] = s][u] = "clear" => pc[u] = "clear"
    BY <1>0, <1>3
  <1>4. ASSUME NEW f \in [Threads -> Stages], NEW W \in SUBSET Threads,
               pc' \in Ring!NotifyOne(f, W),
               \A t \in Terminators : f[t] = "clear" => pc[t] = "clear"
        PROVE  Kept
    <2>1. /\ pc' \in [Threads -> Stages]
          /\ \A t \in Threads : pc'[t] = f[t] \/ pc'[t] = "woken"
      BY <1>4, RingNotifies
    <2>. QED  BY <1>0, <1>2, <1>4, <2>1
  <1>5. ASSUME NEW t \in Threads, NEW s \in Stages \ {"clear"}, pc' = [pc EXCEPT ![t] = s]
        PROVE  Kept
    BY <1>2, <1>3, <1>5
  <1>6. ASSUME NEW t \in Threads, NEW W \in SUBSET Threads,
               pc' \in Ring!NotifyOne([pc EXCEPT ![t] = "idle"], W)
        PROVE  Kept
    <2>1. "idle" \in Stages \ {"clear"}
      BY DEF Stages
    <2>. QED  BY <1>3, <1>4, <1>6, <2>1
  <1>7. CASE pc' = pc
    BY <1>0, <1>2, <1>7
  <1>s. /\ "idle" \in Stages \ {"clear"} /\ "test" \in Stages \ {"clear"}
        /\ "go" \in Stages \ {"clear"} /\ "asleep" \in Stages \ {"clear"}
        /\ "woken" \in Stages \ {"clear"}
    BY DEF Stages
  <1>t. /\ Pushers \subseteq Threads /\ Poppers \subseteq Threads
        /\ Viewers \subseteq Threads /\ Ring!Threads \subseteq Threads
    BY RingThreads DEF Threads
  <1>. HIDE DEF Kept
  <1>8. ASSUME NEW p \in Pushers, Ring!PushStep(p) PROVE Kept
    BY <1>5, <1>6, <1>7, <1>8, <1>s, <1>t, RingThreads
       DEF Ring!PushStep, Ring!PushCall, Ring!Enter, Ring!PushTest, Ring!Test, Ring!PushBody,
           Ring!PushAccept, Ring!AssertFails
  <1>9. ASSUME NEW c \in Poppers, Ring!PopStep(c) PROVE Kept
    BY <1>5, <1>6, <1>7, <1>9, <1>s, <1>t, RingThreads
       DEF Ring!PopStep, Ring!PopCall, Ring!Enter, Ring!PopTest, Ring!Test, Ring!PopBody,
           Ring!AssertFails
  <1>10. ASSUME NEW v \in Viewers, Ring!ShowStep(v) PROVE Kept
    BY <1>5, <1>6, <1>7, <1>10, <1>s, <1>t, RingThreads
       DEF Ring!ShowStep, Ring!PopCall, Ring!Enter, Ring!PopTest, Ring!Test, Ring!ShowBody,
           Ring!AssertFails
  <1>11. ASSUME Ring!TryPop PROVE Kept
    BY <1>0, <1>4, <1>11, RingThreads DEF Ring!TryPop
  <1>12. ASSUME NEW t \in Terminators, Ring!TerminateStore(t) PROVE Kept
    <2>1. terminated' = TRUE /\ pc' = [pc EXCEPT ![t] = "clear"]
      BY <1>12 DEF Ring!TerminateStore
    <2>2. pc' \in [Threads -> Stages]
      BY <1>0, <2>1 DEF Stages
    <2>. QED  BY <2>1, <2>2 DEF Kept, FlagStays
  <1>13. ASSUME NEW t \in Terminators, Ring!TerminateClear(t) PROVE Kept
    <2>1. PICK f \in Ring!NotifyOne([pc EXCEPT ![t] = "idle"], Ring!WaitingNotFull) :
             pc' \in Ring!NotifyOne(f, Ring!WaitingNotEmpty)
      BY <1>13 DEF Ring!TerminateClear
    <2>2. /\ [pc EXCEPT ![t] = "idle"] \in [Threads -> Stages]
          /\ \A u \in Terminators :
                [pc EXCEPT ![t] = "idle"][u] = "clear" => pc[u] = "clear"
      BY <1>0, <1>3, <1>s
    <2>3. /\ f \in [Threads -> Stages]
          /\ \A s \in Threads : f[s] = [pc EXCEPT ![t] = "idle"][s] \/ f[s] = "woken"
      BY <2>1, <2>2, RingNotifies, RingThreads
    <2>4. \A u \in Terminators : f[u] = "clear" => pc[u] = "clear"
      BY <1>0, <2>2, <2>3
    <2>. QED  BY <1>4, <2>1, <2>3, <2>4, RingThreads
  <1>14. ASSUME NEW t \in Ring!Threads, Ring!Reacquire(t) \/ Ring!SpuriousWake(t) PROVE Kept
    BY <1>5, <1>14, <1>s, <1>t DEF Ring!Reacquire, Ring!SpuriousWake
  <1>15. CASE UNCHANGED vars
    BY <1>7, <1>15 DEF vars
  <1>16. Ring!Next => Kept
    BY <1>8, <1>9, <1>10, <1>11, <1>12, <1>13, <1>14 DEF Ring!Next
  <1>. QED  BY <1>15, <1>16 DEF Kept

\* Every step of the ring keeps its types, and is one of the queue that drops its
\* oldest item, or leaves that alone.
LEMMA RingStep ==
    ASSUME Resumers = {}, RingTypes, [Ring!Next]_vars
    PROVE  RingTypes' /\ (Ring!Fifo!Next \/ UNCHANGED ringQueue)
  <1>0. /\ buffer \in Seq(Nat \ {0}) /\ Len(buffer) \in Nat /\ Len(buffer) <= Capacity
        /\ Capacity \in Nat \ {0} /\ pushed \in Nat /\ terminated \in BOOLEAN
    BY LenProperties, CapacityAssumption DEF RingTypes
  <1>1. /\ RingEnters \/ ItemLeaves \/ ItemsCleared \/ ItemsStay
        /\ reads' = 0 /\ terminated' \in {terminated, TRUE}
    BY EffectOnRing
  <1>2. ASSUME buffer # << >>
        PROVE  Tail(buffer) \in Seq(Nat \ {0}) /\ Len(Tail(buffer)) = Len(buffer) - 1
    BY <1>0, <1>2, HeadTailProperties
  <1>3. /\ buffer' \in Seq(Nat \ {0}) /\ Len(buffer') <= Capacity
        /\ pushed' \in Nat
    <2>1. CASE RingEnters
      <3>1. pushed + 1 \in Nat \ {0}
        BY <1>0
      <3>2. CASE Full
        <4>1. buffer # << >>
          BY <1>0, <3>2 DEF Full
        <4>2. buffer' = Append(Tail(buffer), pushed + 1)
          BY <2>1, <3>2 DEF RingEnters
        <4>3. buffer' \in Seq(Nat \ {0}) /\ Len(buffer') = Len(buffer)
          BY <1>0, <1>2, <3>1, <4>1, <4>2, AppendProperties
        <4>. QED  BY <1>0, <2>1, <4>3 DEF RingEnters
      <3>3. CASE ~Full
        <4>1. buffer' = Append(buffer, pushed + 1) /\ Len(buffer) < Capacity
          BY <1>0, <2>1, <3>3 DEF RingEnters, Full
        <4>2. buffer' \in Seq(Nat \ {0}) /\ Len(buffer') = Len(buffer) + 1
          BY <1>0, <3>1, <4>1, AppendProperties
        <4>. QED  BY <1>0, <2>1, <4>1, <4>2 DEF RingEnters
      <3>. QED  BY <3>2, <3>3
    <2>2. CASE ItemLeaves
      BY <1>0, <1>2, <2>2 DEF ItemLeaves
    <2>3. CASE ItemsCleared
      BY <1>0, <2>3 DEF ItemsCleared
    <2>4. CASE ItemsStay
      BY <1>0, <2>4 DEF ItemsStay
    <2>. QED  BY <1>1, <2>1, <2>2, <2>3, <2>4
  <1>4. terminated' \in BOOLEAN
    BY <1>0, <1>1
  <1>5. RingTypes'
    BY <1>1, <1>3, <1>4, RingFlags DEF RingTypes
  <1>6. Ring!Fifo!Next \/ UNCHANGED ringQueue
    <2>1. CASE RingEnters
      <3>1. CASE Full
        BY <1>0, <2>1, <3>1 DEF RingEnters, Full, Ring!Fifo!Next, Ring!Fifo!Enter
      <3>2. CASE ~Full
        <4>1. Len(buffer) < Capacity
          BY <1>0, <3>2 DEF Full
        <4>. QED  BY <2>1, <3>2, <4>1 DEF RingEnters, Ring!Fifo!Next, Ring!Fifo!Enter
      <3>. QED  BY <3>1, <3>2
    <2>2. CASE ItemLeaves
      BY <2>2 DEF ItemLeaves, Ring!Fifo!Next, Ring!Fifo!Leave
    <2>3. CASE ItemsCleared
      <3>1. terminated
        BY <2>3 DEF ItemsCleared, RingTypes, FlagStays
      <3>. QED  BY <2>3, <3>1 DEF ItemsCleared, Ring!Fifo!Next, Ring!Fifo!Discard
    <2>4. CASE ItemsStay /\ terminated' = TRUE
      BY <2>4 DEF ItemsStay, Ring!Fifo!Next, Ring!Fifo!Close
    <2>5. CASE ItemsStay /\ terminated' = terminated
      BY <2>5 DEF ItemsStay, ringQueue
    <2>. QED  BY <1>1, <2>1, <2>2, <2>3, <2>4, <2>5
  <1>. QED  BY <1>5, <1>6

\* With bBlockIN false the buffer is the queue that drops its oldest item when it
\* is full (TemplateStack.h, push), whatever pops, shows, polls or terminates it at
\* the same time: each of its steps is one of that queue, for any capacity and any
\* threads.  That it is emptied in the end is left to the model checker.
THEOREM RingIsQueue ==
    ASSUME Resumers = {}
    PROVE  VariantSpec => RingSafety
  <1>1. Init => RingInv /\ (variant = "ring" => Ring!Fifo!Init)
    <2>. SUFFICES ASSUME Init PROVE RingTypes /\ Ring!Fifo!Init
      BY DEF RingInv
    <2>1. TypeOK
      BY TypeInit
    <2>2. FlagStays
      BY DEF Init, FlagStays, Threads
    <2>3. RingTypes
      BY <2>1, <2>2 DEF RingTypes, TypeOK, Init
    <2>4. Ring!Fifo!Init
      BY DEF Init, Ring!Fifo!Init
    <2>. QED  BY <2>3, <2>4
  <1>2. RingInv /\ [VariantNext]_variantVars =>
          RingInv' /\ [variant = "ring" => Ring!Fifo!Next]_ringQueue
    <2>. SUFFICES ASSUME RingInv, [VariantNext]_variantVars
                  PROVE  RingInv' /\ [variant = "ring" => Ring!Fifo!Next]_ringQueue
      OBVIOUS
    <2>1. variant' = variant
      BY DEF VariantNext, variantVars
    <2>2. CASE variant # "ring"
      BY <2>1, <2>2 DEF RingInv
    <2>3. CASE variant = "ring"
      <3>1. RingTypes /\ [Ring!Next]_vars
        BY <2>3 DEF RingInv, VariantNext, variantVars
      <3>2. RingTypes' /\ (Ring!Fifo!Next \/ UNCHANGED ringQueue)
        BY <3>1, RingStep
      <3>. QED  BY <2>1, <2>3, <3>2 DEF RingInv
    <2>. QED  BY <2>2, <2>3
  <1>. QED  BY <1>1, <1>2, PTL DEF VariantSpec, RingSafety
=============================================================================
