------------------------- MODULE ProgramPointers_proofs -------------------------
(***************************************************************************)
(* Proof that the programs that use FFmpeg only use what they have: no     *)
(* pointer that was not got, or has been given back, whichever calls fail. *)
(* A program has a plan, which says what is known of its pointers before   *)
(* each of its steps; a plan that is right is kept to by the program, and  *)
(* each of the twenty has one.                                             *)
(***************************************************************************)
EXTENDS Programs_proofs

-----------------------------------------------------------------------------
(* What is known of the pointers before each step of a program             *)

\* The pointers, and how many sinks are in sinkVec.  A pointer that owns what
\* it points to is never left dangling.
Stores ==
    {p \in [Contexts -> PointerStates] : \A c \in Contexts : Owned(c) => p[c] # "stale"} \X Nat

\* The condition that s is under; what s needs of the pointers and of sinkVec; what
\* it leaves.
Holds(s, p) == \A c \in s.only : p[c] # "null"
Sound(s, x) == /\ \A c \in s.uses : x[1][c] = "open"
               /\ \A c \in s.frees : x[1][c] # "stale"
               /\ s.pull <= x[2]
After(s, x) == << Give(Free(x[1], s.frees), s.gives), x[2] + (IF s.push = 0 THEN 0 ELSE 1) >>

\* The step s, taken where P is known, is defined and makes Q known; when it
\* returns an error E is, and when it breaks off the loop B is.
Takes(E, B) ==
    {t \in (SUBSET Stores) \X Steps \X (SUBSET Stores) :
       \A x \in t[1] : LET s == t[2] IN
         /\ s.skipped \/ ~Holds(s, x[1]) => x \in t[3]
         /\ Holds(s, x[1]) =>
              /\ Sound(s, x)
              /\ s.needs = {} => After(s, x) \in t[3]
              /\ s.needs # {} => x \in (IF \E c \in s.needs : x[1][c] # "null" THEN t[3] ELSE E)
              /\ s.failure = "returned" => << Free(x[1], s.undo), x[2] >> \in E
              /\ s.failure = "break" => x \in B}

\* The same, but a step that dereferences one of the sets of H need not be defined.
TakesBut(H, E, B) ==
    {t \in (SUBSET Stores) \X Steps \X (SUBSET Stores) :
       \A x \in t[1] : LET s == t[2] IN
         /\ s.skipped \/ ~Holds(s, x[1]) => x \in t[3]
         /\ Holds(s, x[1]) =>
              /\ Sound(s, x) \/ s.uses \in H
              /\ s.needs = {} /\ Sound(s, x) => After(s, x) \in t[3]
              /\ s.needs # {} => x \in (IF \E c \in s.needs : x[1][c] # "null" THEN t[3] ELSE E)
              /\ s.failure = "returned" /\ Sound(s, x) => << Free(x[1], s.undo), x[2] >> \in E
              /\ s.failure = "break" /\ Sound(s, x) => x \in B}

\* h says what is known before each of the elements of s, and after the last.
Along(R, s, h) ==
    /\ h \in [1..(Len(s) + 1) -> SUBSET Stores]
    /\ \A n \in 1..Len(s) : << h[n], s[n], h[n + 1] >> \in R

Chain(R, s, P, Q) == \E h : Along(R, s, h) /\ h[1] = P /\ h[Len(s) + 1] = Q

\* What is known where a caller goes on after an error: at the label end (T),
\* at the next call, if the program finds the failure out there, or nothing.
ErrorTo(c, Q, T) ==
    IF c.onerror = "cleanup" THEN T
    ELSE IF c.onerror = "ignore" /\ c.name \in FoundOutLater THEN Q ELSE Stores

\* What the steps of the calls nm of p that are holes dereference.
HolesIn(p, nm) == {u \in SUBSET Contexts : << p, nm, u >> \in Holes}

\* What is known along the call c of p, made where P is known, makes Q known; what
\* is known at the start of a loop is known after each of its rounds.
Follows(p, c, g, P, Q, T) ==
    /\ Along(TakesBut(HolesIn(p, c.name), ErrorTo(c, Q, T), Q), c.body, g)
    /\ g[1] = P
    /\ IF c.again THEN g[Len(c.body) + 1] = P /\ P \subseteq Q ELSE g[Len(c.body) + 1] = Q

\* A call made where P is known makes Q known, or goes to the label end with T.
CallRel(p, T) ==
    {t \in (SUBSET Stores) \X Calls(Steps) \X (SUBSET Stores) : LET c == t[2] IN
       /\ c.name = "end" => T \subseteq t[1]
       /\ \A m \in 1..Len(c.body) : c.body[m].failure = "unnoticed" => c.name \notin FoundOutLater
       /\ \E g : Follows(p, c, g, t[1], t[3], T)}

\* A program whose steps are all defined, but for the holes.
Planned(p, T, h) ==
    /\ Along(CallRel(p, T), Code[p], h)
    /\ << NothingOpen, 0 >> \in h[1]
    /\ T \in SUBSET Stores
    /\ T = {} \/ (Len(Code[p]) > 0 /\ Code[p][Len(Code[p])].name = "end")

\* What is known at the place the program is at.
KnownHere(T, h) ==
    Running /\ ignored \subseteq FoundOutLater =>
      /\ step \in 1..(Len(call.body) + 1)
      /\ \E g : Follows(program, call, g, h[at], h[at + 1], T) /\ << ptr, Len(sinks) >> \in g[step]

\* The invariant: the program is one of a plan, and what the plan says is known at
\* this place holds.
SafeInv ==
    /\ << ptr, Len(sinks) >> \in Stores
    /\ DefinedUnlessIgnored
    /\ \E T, h : Planned(program, T, h) /\ KnownHere(T, h)

\* Freeing and being given leave pointers that are such Stores.
LEMMA StoreTypes ==
    ASSUME NEW x \in Stores, NEW cs, NEW gs
    PROVE  /\ << Free(x[1], cs), x[2] >> \in Stores
           /\ \A k \in Nat : << Give(Free(x[1], cs), gs), x[2] + k >> \in Stores
           /\ x = << x[1], x[2] >> /\ x[2] \in Nat /\ x[1] \in [Contexts -> PointerStates]
  <1>1. /\ x[1] \in [Contexts -> PointerStates] /\ x[2] \in Nat /\ x = << x[1], x[2] >>
        /\ \A c \in Contexts : Owned(c) => x[1][c] # "stale"
    BY DEF Stores
  <1>2. /\ Free(x[1], cs) \in [Contexts -> PointerStates]
        /\ \A c \in Contexts : Owned(c) => Free(x[1], cs)[c] # "stale"
    BY <1>1 DEF Free, Owned, PointerStates
  <1>3. /\ Give(Free(x[1], cs), gs) \in [Contexts -> PointerStates]
        /\ \A c \in Contexts : Owned(c) => Give(Free(x[1], cs), gs)[c] # "stale"
    BY <1>2 DEF Give, PointerStates
  <1>. QED  BY <1>1, <1>2, <1>3 DEF Stores

\* What is known when a call is made.
LEMMA EnterCall ==
    ASSUME NEW p \in Program, NEW T, NEW h, Planned(p, T, h), NEW a \in 1..Len(Code[p]),
           NEW x \in h[a]
    PROVE  \E g : Follows(p, Code[p][a], g, h[a], h[a + 1], T) /\ x \in g[1]
  <1>1. << h[a], Code[p][a], h[a + 1] >> \in CallRel(p, T)
    BY DEF Planned, Along
  <1>2. \E g : Follows(p, Code[p][a], g, h[a], h[a + 1], T)
    BY <1>1 DEF CallRel
  <1>. QED  BY <1>2 DEF Follows

\* Where the program is, and what the plan says of its call.
LEMMA CallFacts ==
    ASSUME TypeOK, Running, NEW T, NEW h, Planned(program, T, h)
    PROVE  /\ at \in 1..Len(Code[program]) /\ call = Code[program][at]
           /\ << h[at], call, h[at + 1] >> \in CallRel(program, T)
           /\ h[at] \in SUBSET Stores /\ h[at + 1] \in SUBSET Stores
           /\ call \in Calls(Steps) /\ Len(call.body) \in Nat /\ Len(Code[program]) \in Nat
  <1>1. at \in 1..Len(Code[program]) /\ call = Code[program][at] /\ Len(Code[program]) \in Nat
    BY NowType
  <1>2. at \in 1..(Len(Code[program]) + 1) /\ at + 1 \in 1..(Len(Code[program]) + 1)
    BY <1>1
  <1>. QED  BY <1>1, <1>2, NowType DEF Planned, Along

-----------------------------------------------------------------------------
(* Each step of a program keeps what is known at its place                 *)

\* The next call, made with what is known before it.
LEMMA NextCall ==
    ASSUME TypeOK, NEW T, NEW h, Planned(program, T, h), program' = program,
           NEW a \in 1..(Len(Code[program]) + 1), at' = a, step' = 1,
           << ptr', Len(sinks') >> \in h[a]
    PROVE  KnownHere(T, h)'
  <1>. SUFFICES ASSUME Running'
                PROVE  /\ step' \in 1..(Len(call'.body) + 1)
                       /\ \E g : /\ Follows(program, call', g, h[at'], h[at' + 1], T)
                                 /\ << ptr', Len(sinks') >> \in g[step']
    BY DEF KnownHere
  <1>1. Code[program] \in Seq(Calls(Steps)) /\ Len(Code[program]) \in Nat /\ program \in Program
    BY NowType DEF TypeOK
  <1>2. a \in 1..Len(Code[program]) /\ call' = Code[program][a]
    BY <1>1 DEF Running, call
  <1>3. call' \in Calls(Steps)
    BY <1>1, <1>2
  <1>4. Len(call'.body) \in Nat
    BY <1>3 DEF Calls
  <1>6. \E g : /\ Follows(program, Code[program][a], g, h[a], h[a + 1], T)
               /\ << ptr', Len(sinks') >> \in g[1]
    BY <1>1, <1>2, EnterCall
  <1>. QED  BY <1>2, <1>4, <1>6

\* A step of the call.
LEMMA NextStep ==
    ASSUME TypeOK, NEW T, NEW h, NEW g,
           Running, step \in 1..Len(call.body),
           Follows(program, call, g, h[at], h[at + 1], T),
           program' = program, at' = at, step' = step + 1,
           << ptr', Len(sinks') >> \in g[step + 1]
    PROVE  KnownHere(T, h)'
  <1>1. call' = call /\ Len(call.body) \in Nat
    BY NowType DEF call
  <1>2. step' \in 1..(Len(call.body) + 1)
    BY <1>1
  <1>. QED  BY <1>1, <1>2 DEF KnownHere

\* The call is at a step of its text: what is known before it.
LEMMA KnownNow ==
    ASSUME TypeOK, NEW T, NEW h, Planned(program, T, h), KnownHere(T, h),
           InCall, ignored \subseteq FoundOutLater
    PROVE  \E g : /\ Follows(program, call, g, h[at], h[at + 1], T)
                  /\ << ptr, Len(sinks) >> \in g[step]
                  /\ << g[step], now, g[step + 1] >>
                        \in TakesBut(HolesIn(program, call.name), ErrorTo(call, h[at + 1], T),
                                     h[at + 1])
  <1>1. Running /\ step \in 1..Len(call.body) /\ now = call.body[step]
    BY NowType DEF InCall, now
  <1>. QED  BY <1>1 DEF KnownHere, Follows, Along

\* An error goes to what is known there.
LEMMA NextError ==
    ASSUME TypeOK, NEW T, NEW h, Planned(program, T, h), InCall, OnError,
           << ptr', Len(sinks) >> \in ErrorTo(call, h[at + 1], T)
    PROVE  KnownHere(T, h)'
  <1>0. /\ at \in 1..Len(Code[program]) /\ call = Code[program][at]
        /\ << h[at], call, h[at + 1] >> \in CallRel(program, T)
        /\ call \in Calls(Steps) /\ Len(Code[program]) \in Nat
    BY CallFacts DEF InCall
  <1>1. program' = program /\ sinks' = sinks
    BY DEF OnError
  <1>2. CASE call.onerror = "exit"
    BY <1>2 DEF OnError, KnownHere, Running
  <1>3. CASE call.onerror = "ignore"
    <2>1. at' = at + 1 /\ step' = 1 /\ ignored' = ignored \cup {call.name}
      BY <1>3 DEF OnError, GoTo
    <2>2. CASE call.name \in FoundOutLater
      <3>1. << ptr', Len(sinks') >> \in h[at + 1]
        BY <1>1, <1>3, <2>2 DEF ErrorTo
      <3>2. at + 1 \in 1..(Len(Code[program]) + 1)
        BY <1>0
      <3>. QED  BY <1>1, <2>1, <3>1, <3>2, NextCall
    <2>3. CASE call.name \notin FoundOutLater
      BY <2>1, <2>3 DEF KnownHere
    <2>. QED  BY <2>2, <2>3
  <1>4. CASE call.onerror = "cleanup"
    <2>. DEFINE l == Len(Code[program])
    <2>1. at' = l /\ step' = 1
      BY <1>4 DEF OnError, GoTo
    <2>2. << ptr', Len(sinks') >> \in T
      BY <1>1, <1>4 DEF ErrorTo
    <2>3. l > 0 /\ Code[program][l].name = "end"
      BY <2>2 DEF Planned
    <2>4. l \in 1..l /\ l \in 1..(l + 1)
      BY <1>0, <2>3
    <2>5. << h[l], Code[program][l], h[l + 1] >> \in CallRel(program, T)
      BY <2>4 DEF Planned, Along
    <2>6. T \subseteq h[l]
      BY <2>3, <2>5 DEF CallRel
    <2>. HIDE DEF l
    <2>. QED  BY <1>1, <2>1, <2>2, <2>4, <2>6, NextCall DEF l
  <1>. QED  BY <1>0, <1>2, <1>3, <1>4 DEF Calls

\* Each step of the program keeps what is known at its place, and none is undefined
\* but at a hole.
LEMMA KnownStep ==
    ASSUME TypeOK, [Next]_vars, NEW T, NEW h, Planned(program, T, h), KnownHere(T, h),
           << ptr, Len(sinks) >> \in Stores
    PROVE  /\ KnownHere(T, h)'
           /\ << ptr', Len(sinks') >> \in Stores
           /\ Undefined /\ ignored \subseteq FoundOutLater =>
                << program, call.name, now.uses >> \in Holes
  <1>. DEFINE x == << ptr, Len(sinks) >>
              y == << ptr', Len(sinks') >>
  <1>0. /\ program' = program /\ program \in Program /\ Len(sinks) \in Nat
        /\ Len(Code[program]) \in Nat
    BY ProgramStays, NowType DEF TypeOK
  <1>1. ASSUME Running
        PROVE  /\ at \in 1..Len(Code[program]) /\ call = Code[program][at]
               /\ << h[at], call, h[at + 1] >> \in CallRel(program, T)
               /\ call \in Calls(Steps) /\ Len(call.body) \in Nat
    BY <1>1, CallFacts
  <1>2. ASSUME InCall, ignored \subseteq FoundOutLater
        PROVE  \E g : /\ Follows(program, call, g, h[at], h[at + 1], T)
                      /\ x \in g[step]
                      /\ << g[step], now, g[step + 1] >>
                            \in TakesBut(HolesIn(program, call.name),
                                         ErrorTo(call, h[at + 1], T), h[at + 1])
    BY <1>2, KnownNow
  <1>3. InCall => Running /\ step \in 1..Len(call.body) /\ now \in Steps
    BY NowType DEF InCall
  <1>4. x[1] = ptr /\ x[2] = Len(sinks)
    OBVIOUS
  <1>5. ASSUME InCall, Guarded PROVE Holds(now, ptr)
    BY <1>5 DEF Guarded, Holds
  \* the sinks are counted
  <1>6. ASSUME Succeed PROVE y = After(now, x)
    <2>1. sinks \in Seq(Track) /\ now \in Steps
      BY <1>3, <1>6 DEF TypeOK, Succeed
    <2>2. Len(sinks') = Len(sinks) + (IF now.push = 0 THEN 0 ELSE 1)
      <3>1. CASE now.push = 0
        <4>1. sinks' = sinks
          BY <1>6, <3>1 DEF Succeed
        <4>. QED  BY <1>0, <3>1, <4>1
      <3>2. CASE now.push # 0
        <4>1. sinks' = Append(sinks, now.push) /\ now.push \in Track
          BY <1>6, <2>1, <3>2, TracksAssumption DEF Succeed, Steps, Track
        <4>2. Len(sinks') = Len(sinks) + 1
          BY <2>1, <4>1
        <4>. QED  BY <3>2, <4>2
      <3>. QED  BY <3>1, <3>2
    <2>3. ptr' = Give(Free(ptr, now.frees), now.gives)
      BY <1>6 DEF Succeed
    <2>. QED  BY <1>4, <2>2, <2>3 DEF After
  <1>. HIDE DEF x, y
  <1>7. y \in Stores
    <2>1. CASE Succeed
      <3>1. \A k \in Nat : << Give(Free(x[1], now.frees), now.gives), x[2] + k >> \in Stores
        BY StoreTypes DEF x
      <3>2. (IF now.push = 0 THEN 0 ELSE 1) \in Nat
        OBVIOUS
      <3>. QED  BY <1>6, <2>1, <3>1, <3>2 DEF After
    <2>2. CASE sinks' = sinks /\ (ptr' = ptr \/ \E cs : ptr' = Free(ptr, cs))
      BY <1>4, <2>2, StoreTypes DEF x, y
    <2>. QED  BY <2>1, <2>2, StepCases, ErrorPlace
              DEF Rests, Passes, ReturnsError, FailUnnoticed, FailBreaks, EndOfCall
  <1>5a. ASSUME InCall, Defined PROVE Sound(now, x)
    BY <1>4, <1>5a DEF Sound, Defined
  <1>8. Undefined /\ ignored \subseteq FoundOutLater =>
          << program, call.name, now.uses >> \in Holes
    <2>. SUFFICES ASSUME Undefined, ignored \subseteq FoundOutLater
                  PROVE  << program, call.name, now.uses >> \in Holes
      OBVIOUS
    <2>1. InCall /\ Guarded /\ ~Defined
      BY DEF Undefined
    <2>2. PICK g : /\ x \in g[step]
                   /\ << g[step], now, g[step + 1] >>
                        \in TakesBut(HolesIn(program, call.name), ErrorTo(call, h[at + 1], T),
                                     h[at + 1])
      BY <1>2, <2>1
    <2>3. Holds(now, x[1])
      BY <1>4, <1>5, <2>1
    <2>4. Sound(now, x) \/ now.uses \in HolesIn(program, call.name)
      BY <2>2, <2>3 DEF TakesBut
    <2>. QED  BY <1>4, <2>1, <2>4 DEF Sound, Defined, HolesIn
  <1>10. KnownHere(T, h)'
    <2>1. CASE /\ UNCHANGED << program, at, step, ptr, sinks >> /\ ignored \subseteq ignored'
               /\ (outcome' = "running" => outcome = "running")
      <3>1. call' = call
        BY <2>1 DEF call
      <3>. QED  BY <2>1, <3>1 DEF KnownHere, Running
    <2>2. CASE ~(ignored' \subseteq FoundOutLater)
      BY <2>2 DEF KnownHere
    <2>4. ASSUME InCall, ignored' \subseteq FoundOutLater,
                 ignored \subseteq ignored'
          PROVE  KnownHere(T, h)'
      <3>1. PICK g : /\ Follows(program, call, g, h[at], h[at + 1], T)
                     /\ x \in g[step]
                     /\ << g[step], now, g[step + 1] >>
                            \in TakesBut(HolesIn(program, call.name),
                                         ErrorTo(call, h[at + 1], T), h[at + 1])
        BY <1>2, <2>4
      <3>. DEFINE E == ErrorTo(call, h[at + 1], T)
      <3>2. /\ now.skipped \/ ~Holds(now, x[1]) => x \in g[step + 1]
            /\ Holds(now, x[1]) =>
                 /\ now.needs = {} /\ Sound(now, x) => After(now, x) \in g[step + 1]
                 /\ now.needs # {} =>
                      x \in (IF \E c \in now.needs : x[1][c] # "null" THEN g[step + 1] ELSE E)
                 /\ now.failure = "returned" /\ Sound(now, x) =>
                      << Free(x[1], now.undo), x[2] >> \in E
                 /\ now.failure = "break" /\ Sound(now, x) => x \in h[at + 1]
        BY <3>1 DEF TakesBut
      <3>. HIDE DEF E
      <3>3. Running /\ step \in 1..Len(call.body)
        BY <1>3, <2>4
      <3>4. ASSUME at' = at, step' = step + 1, y \in g[step + 1] PROVE KnownHere(T, h)'
        BY <1>0, <3>1, <3>3, <3>4, NextStep DEF y
      <3>5. ASSUME OnError, y \in E, sinks' = sinks PROVE KnownHere(T, h)'
        BY <2>4, <3>5, NextError DEF y, E
      <3>6. CASE Skip
        <4>1. y = x /\ at' = at /\ step' = step + 1
          BY <3>6 DEF Skip, GoTo, x, y
        <4>2. now.skipped \/ ~Holds(now, x[1])
          BY <1>4, <3>6 DEF Skip, Guarded, Holds
        <4>. QED  BY <3>2, <3>4, <4>1, <4>2
      <3>7. CASE Succeed
        <4>1. Holds(now, x[1]) /\ now.needs = {} /\ at' = at /\ step' = step + 1
          BY <1>4, <1>5, <3>7 DEF Succeed, GoTo
        <4>2. Sound(now, x)
          BY <1>5a, <3>7 DEF Succeed
        <4>. QED  BY <1>6, <3>2, <3>4, <3>7, <4>1, <4>2
      <3>8. CASE Missing
        <4>1. Holds(now, x[1]) /\ now.needs # {} /\ ptr' = ptr
          BY <1>4, <1>5, <3>8 DEF Missing
        <4>2. CASE \E c \in now.needs : ptr[c] # "null"
          <5>1. at' = at /\ step' = step + 1 /\ y = x
            BY <3>8, <4>2 DEF Missing, GoTo, x, y
          <5>. QED  BY <1>4, <3>2, <3>4, <4>1, <4>2, <5>1
        <4>3. CASE ~ \E c \in now.needs : ptr[c] # "null"
          <5>1. OnError
            BY <3>8, <4>3 DEF Missing
          <5>2. sinks' = sinks
            BY <5>1 DEF OnError
          <5>3. y = x
            BY <4>1, <5>2 DEF x, y
          <5>. QED  BY <1>4, <3>2, <3>5, <4>1, <4>3, <5>1, <5>2, <5>3
        <4>. QED  BY <4>2, <4>3
      <3>9. CASE FailReturned
        <4>1. /\ Holds(now, x[1]) /\ now.failure = "returned" /\ ptr' = Free(ptr, now.undo)
              /\ OnError /\ Sound(now, x)
          BY <1>4, <1>5, <1>5a, <3>9 DEF FailReturned, CanFail
        <4>2. sinks' = sinks
          BY <4>1 DEF OnError
        <4>3. y = << Free(x[1], now.undo), x[2] >>
          BY <1>4, <4>1, <4>2 DEF y
        <4>. QED  BY <3>2, <3>5, <4>1, <4>2, <4>3
      <3>10. CASE FailUnnoticed
        <4>1. /\ now.failure = "unnoticed" /\ call.name \in ignored'
          BY <3>10 DEF FailUnnoticed
        <4>2. now = call.body[step]
          BY DEF now
        <4>3. call.name \notin FoundOutLater
          BY <1>1, <2>4, <3>3, <4>1, <4>2 DEF CallRel
        <4>. QED  BY <2>4, <4>1, <4>3
      <3>11. CASE FailBreaks
        <4>1. /\ Holds(now, x[1]) /\ now.failure = "break" /\ y = x /\ at' = at + 1 /\ step' = 1
              /\ Sound(now, x)
          BY <1>4, <1>5, <1>5a, <3>11 DEF FailBreaks, CanFail, GoTo, x, y
        <4>2. y \in h[at + 1] /\ at + 1 \in 1..(Len(Code[program]) + 1)
          BY <1>0, <1>1, <3>2, <3>3, <4>1
        <4>. QED  BY <1>0, <4>1, <4>2, NextCall DEF y
      <3>13. ~EndOfCall
        <4>1. Len(call.body) \in Nat
          BY <1>1, <3>3
        <4>. QED  BY <3>3, <4>1 DEF EndOfCall
      <3>14. CASE UNCHANGED << program, at, step, ptr, sinks, ignored, outcome >>
        BY <2>1, <3>14
      <3>15. CASE outcome' # "running"
        BY <3>15 DEF KnownHere, Running
      <3>. QED  BY <3>6, <3>7, <3>8, <3>9, <3>10, <3>11, <3>13, <3>14, <3>15
                DEF Next, Undefined, MainReturns, Ended, vars
    <2>5. CASE EndOfCall
      <3>1. /\ Running /\ step > Len(call.body) /\ ignored' = ignored /\ y = x
            /\ \/ at' = at + 1 /\ step' = 1
               \/ at' = at /\ step' = 1 /\ call.again
        BY <2>5 DEF EndOfCall, GoTo, x, y
      <3>2. /\ at \in 1..Len(Code[program]) /\ Len(call.body) \in Nat
            /\ at \in 1..(Len(Code[program]) + 1) /\ at + 1 \in 1..(Len(Code[program]) + 1)
        BY <1>0, <1>1, <3>1
      <3>3. CASE ~(ignored \subseteq FoundOutLater)
        BY <2>2, <3>1, <3>3
      <3>5. CASE ignored \subseteq FoundOutLater
        <4>0. step = Len(call.body) + 1
          BY <3>1, <3>2, <3>5 DEF KnownHere
        <4>a. PICK g : Follows(program, call, g, h[at], h[at + 1], T) /\ x \in g[step]
          BY <3>1, <3>5 DEF KnownHere, x
        <4>1. x \in h[at + 1]
          BY <4>0, <4>a DEF Follows
        <4>2. call.again => x \in h[at]
          BY <4>0, <4>a DEF Follows
        <4>3. CASE at' = at + 1 /\ step' = 1
          BY <1>0, <3>1, <3>2, <4>1, <4>3, NextCall DEF y
        <4>4. CASE at' = at /\ step' = 1 /\ call.again
          BY <1>0, <3>1, <3>2, <4>2, <4>4, NextCall DEF y
        <4>. QED  BY <3>1, <4>3, <4>4
      <3>. QED  BY <3>3, <3>5
    <2>6. CASE ~InCall /\ ~EndOfCall
      <3>1. Rests
        BY <2>6, StepCases DEF Passes, Succeed, ReturnsError, FailUnnoticed, FailBreaks, CanFail
      <3>2. outcome' = "running" => outcome = "running"
        BY <2>6 DEF Next, Skip, Succeed, Missing, FailReturned, FailUnnoticed, FailBreaks,
                    CanFail, Undefined, MainReturns, Ended, vars
      <3>. QED  BY <2>1, <3>1, <3>2 DEF Rests
    <2>7. ignored \subseteq ignored'
      BY StepCases, ErrorPlace DEF Rests, Passes, Succeed, FailUnnoticed, FailBreaks, EndOfCall
    <2>. QED  BY <2>2, <2>4, <2>5, <2>6, <2>7
  <1>. QED  BY <1>7, <1>8, <1>10 DEF y

-----------------------------------------------------------------------------
(* Chains: texts one after the other                                       *)

\* What is known before and after each of two texts, and of both.
LEMMA ChainJoin ==
    ASSUME NEW S, NEW R, NEW s \in Seq(S), NEW t \in Seq(S), NEW P, NEW Q, NEW U,
           Chain(R, s, P, Q), Chain(R, t, Q, U)
    PROVE  Chain(R, s \o t, P, U)
  <1>1. PICK f : Along(R, s, f) /\ f[1] = P /\ f[Len(s) + 1] = Q
    BY DEF Chain
  <1>2. PICK g : Along(R, t, g) /\ g[1] = Q /\ g[Len(t) + 1] = U
    BY DEF Chain
  <1>. DEFINE a == Len(s)
              b == Len(t)
              h == [n \in 1..(a + b + 1) |-> IF n <= a THEN f[n] ELSE g[n - a]]
  <1>3. /\ a \in Nat /\ b \in Nat /\ Len(s \o t) = a + b
        /\ \A n \in 1..(a + b) : (s \o t)[n] = IF n <= a THEN s[n] ELSE t[n - a]
    BY ConcatProperties
  <1>4. /\ f \in [1..(a + 1) -> SUBSET Stores] /\ g \in [1..(b + 1) -> SUBSET Stores]
        /\ \A n \in 1..a : << f[n], s[n], f[n + 1] >> \in R
        /\ \A n \in 1..b : << g[n], t[n], g[n + 1] >> \in R
    BY <1>1, <1>2 DEF Along
  <1>5. f[1] = P /\ f[a + 1] = Q /\ g[1] = Q /\ g[b + 1] = U
    BY <1>1, <1>2
  <1>. HIDE DEF a, b
  <1>6. h \in [1..(a + b + 1) -> SUBSET Stores]
    <2>1. ASSUME NEW n \in 1..(a + b + 1)
          PROVE  (IF n <= a THEN f[n] ELSE g[n - a]) \in SUBSET Stores
      <3>1. CASE n <= a
        <4>1. n \in 1..(a + 1)
          BY <1>3, <3>1
        <4>. QED  BY <1>4, <3>1, <4>1
      <3>2. CASE ~(n <= a)
        <4>1. n - a \in 1..(b + 1)
          BY <1>3, <3>2
        <4>. QED  BY <1>4, <3>2, <4>1
      <3>. QED  BY <3>1, <3>2
    <2>. QED  BY <2>1
  <1>7. h[1] = P /\ h[a + b + 1] = U
    <2>1. 1 \in 1..(a + b + 1) /\ a + b + 1 \in 1..(a + b + 1) /\ ~(a + b + 1 <= a)
          /\ (a + b + 1) - a = b + 1
      BY <1>3
    <2>2. CASE a = 0
      BY <1>5, <2>1, <2>2
    <2>3. CASE a # 0
      <3>1. 1 <= a
        BY <1>3, <2>3
      <3>. QED  BY <1>5, <2>1, <3>1
    <2>. QED  BY <2>2, <2>3
  <1>8. ASSUME NEW n \in 1..(a + b) PROVE << h[n], (s \o t)[n], h[n + 1] >> \in R
    <2>0. n \in 1..(a + b + 1) /\ n + 1 \in 1..(a + b + 1)
      BY <1>3
    <2>1. CASE n <= a
      <3>1. h[n] = f[n] /\ (s \o t)[n] = s[n] /\ n \in 1..a
        BY <1>3, <2>0, <2>1
      <3>2. h[n + 1] = f[n + 1]
        <4>1. CASE n + 1 <= a
          BY <2>0, <4>1
        <4>2. CASE ~(n + 1 <= a)
          <5>1. n = a /\ (n + 1) - a = 1
            BY <1>3, <2>1, <4>2
          <5>. QED  BY <1>5, <2>0, <4>2, <5>1
        <4>. QED  BY <4>1, <4>2
      <3>. QED  BY <1>4, <3>1, <3>2
    <2>2. CASE ~(n <= a)
      <3>1. n - a \in 1..b /\ ~(n + 1 <= a) /\ (n + 1) - a = (n - a) + 1
        BY <1>3, <2>2
      <3>2. h[n] = g[n - a] /\ (s \o t)[n] = t[n - a] /\ h[n + 1] = g[(n - a) + 1]
        BY <1>3, <2>0, <2>2, <3>1
      <3>. QED  BY <1>4, <3>1, <3>2
    <2>. QED  BY <2>1, <2>2
  <1>. HIDE DEF h
  <1>9. Along(R, s \o t, h)
    BY <1>3, <1>6, <1>8 DEF Along
  <1>. QED  BY <1>3, <1>7, <1>9 DEF Chain

\* An empty text changes nothing.
LEMMA ChainNone ==
    ASSUME NEW R, NEW P \in SUBSET Stores
    PROVE  Chain(R, << >>, P, P)
  <1>. DEFINE h == [n \in 1..1 |-> P]
  <1>1. Along(R, << >>, h) /\ h[1] = P /\ Len(<< >>) = 0
    BY DEF Along
  <1>. QED  BY <1>1 DEF Chain

\* A text in which each step keeps what is known.
LEMMA ChainSame ==
    ASSUME NEW S, NEW R, NEW s \in Seq(S), NEW P \in SUBSET Stores,
           \A n \in 1..Len(s) : << P, s[n], P >> \in R
    PROVE  Chain(R, s, P, P)
  <1>. DEFINE h == [n \in 1..(Len(s) + 1) |-> P]
  <1>1. Len(s) \in Nat
    OBVIOUS
  <1>2. \A n \in 1..Len(s) : n \in 1..(Len(s) + 1) /\ n + 1 \in 1..(Len(s) + 1)
    BY <1>1
  <1>3. h[1] = P /\ h[Len(s) + 1] = P
    BY <1>1
  <1>4. h \in [1..(Len(s) + 1) -> SUBSET Stores]
    OBVIOUS
  <1>5. \A n \in 1..Len(s) : << h[n], s[n], h[n + 1] >> \in R
    BY <1>2
  <1>. QED  BY <1>3, <1>4, <1>5 DEF Along, Chain

\* Texts one after the other: A says what is known between them.
LEMMA ChainFlat ==
    ASSUME NEW S, NEW R, NEW n \in Nat, NEW g \in [1..n -> Seq(S)],
           NEW A \in [0..n -> SUBSET Stores],
           \A k \in 1..n : Chain(R, g[k], A[k - 1], A[k])
    PROVE  Chain(R, FlattenSeq(g), A[0], A[n])
  <1>1. PICK F \in [0..n -> Seq(S)] :
               /\ F[0] = << >>
               /\ \A i \in 1..n : F[i] = F[i - 1] \o g[i]
               /\ FlattenSeq(g) = F[n]
    BY FlattenByOne
  <1>. DEFINE Reached == {i \in Nat : i <= n => Chain(R, F[i], A[0], A[i])}
  <1>2. 0 \in Reached
    <2>1. A[0] \in SUBSET Stores
      OBVIOUS
    <2>. QED  BY <1>1, <2>1, ChainNone
  <1>3. ASSUME NEW i \in Nat, i \in Reached PROVE i + 1 \in Reached
    <2>. SUFFICES ASSUME i + 1 <= n PROVE Chain(R, F[i + 1], A[0], A[i + 1])
      OBVIOUS
    <2>1. i \in 0..n /\ i + 1 \in 1..n /\ (i + 1) - 1 = i /\ i <= n
      OBVIOUS
    <2>2. F[i + 1] = F[i] \o g[i + 1] /\ F[i] \in Seq(S) /\ g[i + 1] \in Seq(S)
      BY <1>1, <2>1
    <2>3. Chain(R, F[i], A[0], A[i]) /\ Chain(R, g[i + 1], A[i], A[i + 1])
      BY <1>3, <2>1
    <2>. QED  BY <2>2, <2>3, ChainJoin
  <1>4. n \in Reached
    <2>. HIDE DEF Reached
    <2>. QED  BY <1>2, <1>3, NaturalsAreReached
  <1>. QED  BY <1>1, <1>4

\* A text of one element.
LEMMA ChainOfOne ==
    ASSUME NEW R, NEW P \in SUBSET Stores, NEW Q \in SUBSET Stores, NEW a, << P, a, Q >> \in R
    PROVE  Chain(R, << a >>, P, Q)
  <1>. DEFINE h == << P, Q >>
  <1>1. h \in [1..(Len(<< a >>) + 1) -> SUBSET Stores] /\ h[1] = P /\ h[Len(<< a >>) + 1] = Q
    OBVIOUS
  <1>2. \A n \in 1..Len(<< a >>) : << h[n], << a >>[n], h[n + 1] >> \in R
    OBVIOUS
  <1>. QED  BY <1>1, <1>2 DEF Along, Chain

\* A chain one element longer.
LEMMA ChainAppend ==
    ASSUME NEW S, NEW R, NEW s \in Seq(S), NEW a \in S, NEW P, NEW Q \in SUBSET Stores,
           NEW U \in SUBSET Stores, Chain(R, s, P, Q), << Q, a, U >> \in R
    PROVE  Chain(R, s \o << a >>, P, U)
  <1>1. Chain(R, << a >>, Q, U)
    BY ChainOfOne
  <1>2. << a >> \in Seq(S)
    OBVIOUS
  <1>. QED  BY <1>1, <1>2, ChainJoin

\* A text of two elements.
LEMMA ChainOf2 ==
    ASSUME NEW R, NEW P0 \in SUBSET Stores, NEW P1 \in SUBSET Stores, NEW P2 \in SUBSET Stores,
           NEW a1, NEW a2,
           << P0, a1, P1 >> \in R, << P1, a2, P2 >> \in R
    PROVE  Chain(R, << a1, a2 >>, P0, P2)
  <1>. DEFINE s == << a1, a2 >>
              h == << P0, P1, P2 >>
  <1>1. Len(s) = 2 /\ h \in [1..3 -> SUBSET Stores] /\ h[1] = P0 /\ h[3] = P2
    OBVIOUS
  <1>2. \A n \in 1..2 : << h[n], s[n], h[n + 1] >> \in R
    OBVIOUS
  <1>. HIDE DEF s, h
  <1>. QED  BY <1>1, <1>2 DEF Along, Chain, s

\* A text of three elements.
LEMMA ChainOf3 ==
    ASSUME NEW R, NEW P0 \in SUBSET Stores, NEW P1 \in SUBSET Stores, NEW P2 \in SUBSET Stores,
           NEW P3 \in SUBSET Stores,
           NEW a1, NEW a2, NEW a3,
           << P0, a1, P1 >> \in R, << P1, a2, P2 >> \in R, << P2, a3, P3 >> \in R
    PROVE  Chain(R, << a1, a2, a3 >>, P0, P3)
  <1>. DEFINE s == << a1, a2, a3 >>
              h == << P0, P1, P2, P3 >>
  <1>1. Len(s) = 3 /\ h \in [1..4 -> SUBSET Stores] /\ h[1] = P0 /\ h[4] = P3
    OBVIOUS
  <1>2. \A n \in 1..3 : << h[n], s[n], h[n + 1] >> \in R
    OBVIOUS
  <1>. HIDE DEF s, h
  <1>. QED  BY <1>1, <1>2 DEF Along, Chain, s

\* A text of four elements.
LEMMA ChainOf4 ==
    ASSUME NEW R, NEW P0 \in SUBSET Stores, NEW P1 \in SUBSET Stores, NEW P2 \in SUBSET Stores,
           NEW P3 \in SUBSET Stores, NEW P4 \in SUBSET Stores,
           NEW a1, NEW a2, NEW a3, NEW a4,
           << P0, a1, P1 >> \in R, << P1, a2, P2 >> \in R, << P2, a3, P3 >> \in R, << P3, a4,
           P4 >> \in R
    PROVE  Chain(R, << a1, a2, a3, a4 >>, P0, P4)
  <1>. DEFINE s == << a1, a2, a3, a4 >>
              h == << P0, P1, P2, P3, P4 >>
  <1>1. Len(s) = 4 /\ h \in [1..5 -> SUBSET Stores] /\ h[1] = P0 /\ h[5] = P4
    OBVIOUS
  <1>2. \A n \in 1..4 : << h[n], s[n], h[n + 1] >> \in R
    OBVIOUS
  <1>. HIDE DEF s, h
  <1>. QED  BY <1>1, <1>2 DEF Along, Chain, s

\* A text of five elements.
LEMMA ChainOf5 ==
    ASSUME NEW R, NEW P0 \in SUBSET Stores, NEW P1 \in SUBSET Stores, NEW P2 \in SUBSET Stores,
           NEW P3 \in SUBSET Stores, NEW P4 \in SUBSET Stores, NEW P5 \in SUBSET Stores,
           NEW a1, NEW a2, NEW a3, NEW a4, NEW a5,
           << P0, a1, P1 >> \in R, << P1, a2, P2 >> \in R, << P2, a3, P3 >> \in R, << P3, a4,
           P4 >> \in R, << P4, a5, P5 >> \in R
    PROVE  Chain(R, << a1, a2, a3, a4, a5 >>, P0, P5)
  <1>. DEFINE s == << a1, a2, a3, a4, a5 >>
              h == << P0, P1, P2, P3, P4, P5 >>
  <1>1. Len(s) = 5 /\ h \in [1..6 -> SUBSET Stores] /\ h[1] = P0 /\ h[6] = P5
    OBVIOUS
  <1>2. \A n \in 1..5 : << h[n], s[n], h[n + 1] >> \in R
    OBVIOUS
  <1>. HIDE DEF s, h
  <1>. QED  BY <1>1, <1>2 DEF Along, Chain, s

\* A text of six elements.
LEMMA ChainOf6 ==
    ASSUME NEW R, NEW P0 \in SUBSET Stores, NEW P1 \in SUBSET Stores, NEW P2 \in SUBSET Stores,
           NEW P3 \in SUBSET Stores, NEW P4 \in SUBSET Stores, NEW P5 \in SUBSET Stores,
           NEW P6 \in SUBSET Stores,
           NEW a1, NEW a2, NEW a3, NEW a4, NEW a5, NEW a6,
           << P0, a1, P1 >> \in R, << P1, a2, P2 >> \in R, << P2, a3, P3 >> \in R, << P3, a4,
           P4 >> \in R, << P4, a5, P5 >> \in R, << P5, a6, P6 >> \in R
    PROVE  Chain(R, << a1, a2, a3, a4, a5, a6 >>, P0, P6)
  <1>. DEFINE s == << a1, a2, a3, a4, a5, a6 >>
              h == << P0, P1, P2, P3, P4, P5, P6 >>
  <1>1. Len(s) = 6 /\ h \in [1..7 -> SUBSET Stores] /\ h[1] = P0 /\ h[7] = P6
    OBVIOUS
  <1>2. \A n \in 1..6 : << h[n], s[n], h[n + 1] >> \in R
    OBVIOUS
  <1>. HIDE DEF s, h
  <1>. QED  BY <1>1, <1>2 DEF Along, Chain, s

\* A text of seven elements.
LEMMA ChainOf7 ==
    ASSUME NEW R, NEW P0 \in SUBSET Stores, NEW P1 \in SUBSET Stores, NEW P2 \in SUBSET Stores,
           NEW P3 \in SUBSET Stores, NEW P4 \in SUBSET Stores, NEW P5 \in SUBSET Stores,
           NEW P6 \in SUBSET Stores, NEW P7 \in SUBSET Stores,
           NEW a1, NEW a2, NEW a3, NEW a4, NEW a5, NEW a6, NEW a7,
           << P0, a1, P1 >> \in R, << P1, a2, P2 >> \in R, << P2, a3, P3 >> \in R, << P3, a4,
           P4 >> \in R, << P4, a5, P5 >> \in R, << P5, a6, P6 >> \in R, << P6, a7, P7 >> \in R
    PROVE  Chain(R, << a1, a2, a3, a4, a5, a6, a7 >>, P0, P7)
  <1>. DEFINE s == << a1, a2, a3, a4, a5, a6, a7 >>
              h == << P0, P1, P2, P3, P4, P5, P6, P7 >>
  <1>1. Len(s) = 7 /\ h \in [1..8 -> SUBSET Stores] /\ h[1] = P0 /\ h[8] = P7
    OBVIOUS
  <1>2. \A n \in 1..7 : << h[n], s[n], h[n + 1] >> \in R
    OBVIOUS
  <1>. HIDE DEF s, h
  <1>. QED  BY <1>1, <1>2 DEF Along, Chain, s

\* A text of eight elements.
LEMMA ChainOf8 ==
    ASSUME NEW R, NEW P0 \in SUBSET Stores, NEW P1 \in SUBSET Stores, NEW P2 \in SUBSET Stores,
           NEW P3 \in SUBSET Stores, NEW P4 \in SUBSET Stores, NEW P5 \in SUBSET Stores,
           NEW P6 \in SUBSET Stores, NEW P7 \in SUBSET Stores, NEW P8 \in SUBSET Stores,
           NEW a1, NEW a2, NEW a3, NEW a4, NEW a5, NEW a6, NEW a7, NEW a8,
           << P0, a1, P1 >> \in R, << P1, a2, P2 >> \in R, << P2, a3, P3 >> \in R, << P3, a4,
           P4 >> \in R, << P4, a5, P5 >> \in R, << P5, a6, P6 >> \in R, << P6, a7, P7 >> \in R,
           << P7, a8, P8 >> \in R
    PROVE  Chain(R, << a1, a2, a3, a4, a5, a6, a7, a8 >>, P0, P8)
  <1>. DEFINE s == << a1, a2, a3, a4, a5, a6, a7, a8 >>
              h == << P0, P1, P2, P3, P4, P5, P6, P7, P8 >>
  <1>1. Len(s) = 8 /\ h \in [1..9 -> SUBSET Stores] /\ h[1] = P0 /\ h[9] = P8
    OBVIOUS
  <1>2. \A n \in 1..8 : << h[n], s[n], h[n + 1] >> \in R
    OBVIOUS
  <1>. HIDE DEF s, h
  <1>. QED  BY <1>1, <1>2 DEF Along, Chain, s

\* A text of nine elements.
LEMMA ChainOf9 ==
    ASSUME NEW R, NEW P0 \in SUBSET Stores, NEW P1 \in SUBSET Stores, NEW P2 \in SUBSET Stores,
           NEW P3 \in SUBSET Stores, NEW P4 \in SUBSET Stores, NEW P5 \in SUBSET Stores,
           NEW P6 \in SUBSET Stores, NEW P7 \in SUBSET Stores, NEW P8 \in SUBSET Stores,
           NEW P9 \in SUBSET Stores,
           NEW a1, NEW a2, NEW a3, NEW a4, NEW a5, NEW a6, NEW a7, NEW a8, NEW a9,
           << P0, a1, P1 >> \in R, << P1, a2, P2 >> \in R, << P2, a3, P3 >> \in R, << P3, a4,
           P4 >> \in R, << P4, a5, P5 >> \in R, << P5, a6, P6 >> \in R, << P6, a7, P7 >> \in R,
           << P7, a8, P8 >> \in R, << P8, a9, P9 >> \in R
    PROVE  Chain(R, << a1, a2, a3, a4, a5, a6, a7, a8, a9 >>, P0, P9)
  <1>. DEFINE s == << a1, a2, a3, a4, a5, a6, a7, a8, a9 >>
              h == << P0, P1, P2, P3, P4, P5, P6, P7, P8, P9 >>
  <1>1. Len(s) = 9 /\ h \in [1..10 -> SUBSET Stores] /\ h[1] = P0 /\ h[10] = P9
    OBVIOUS
  <1>2. \A n \in 1..9 : << h[n], s[n], h[n + 1] >> \in R
    OBVIOUS
  <1>. HIDE DEF s, h
  <1>. QED  BY <1>1, <1>2 DEF Along, Chain, s

-----------------------------------------------------------------------------
(* What the kinds of steps make known                                      *)

\* The contexts H are open, of each pair of C the second is if the first is set,
\* and there are n sinks.
Known(H, C, n) ==
    {x \in Stores : /\ \A c \in H : x[1][c] = "open"
                    /\ \A d \in C : x[1][d[1]] # "null" => x[1][d[2]] = "open"
                    /\ x[2] >= n}

\* What is open when s is taken, what stays so, and whether s may be passed over.
OpenAt(s, H, C) == H \cup {c \in Contexts : \E g \in s.only : << g, c >> \in C}
Kept(s) == {c \in Contexts : c \notin s.frees /\ Whole(c) \notin s.frees}
Passing(s) == s.skipped \/ s.only # {}

\* Less may be known than is the case.
LEMMA KnownTypes ==
    ASSUME NEW H, NEW C, NEW n
    PROVE  /\ Known(H, C, n) \in SUBSET Stores
           /\ \A K, D : \A m \in Nat : n \in Nat /\ K \subseteq H /\ D \subseteq C /\ m <= n
                => Known(H, C, n) \subseteq Known(K, D, m)
  <1>1. Known(H, C, n) \in SUBSET Stores
    BY DEF Known
  <1>2. ASSUME NEW K, NEW D, NEW m \in Nat, n \in Nat, K \subseteq H, D \subseteq C, m <= n,
               NEW x \in Known(H, C, n)
        PROVE  x \in Known(K, D, m)
    <2>1. x \in Stores /\ x[2] \in Nat /\ x[2] >= n
      BY StoreTypes DEF Known
    <2>2. x[2] >= m
      BY <1>2, <2>1
    <2>. QED  BY <1>2, <2>1, <2>2 DEF Known
  <1>. QED  BY <1>1, <1>2

\* A step may be known to do more, or be taken where more is known.
LEMMA TakesMore ==
    ASSUME NEW E, NEW B, NEW P, NEW s, NEW Q, << P, s, Q >> \in Takes(E, B),
           NEW U \in SUBSET Stores, NEW V \in SUBSET Stores, U \subseteq P, Q \subseteq V
    PROVE  << U, s, V >> \in Takes(E, B)
  BY DEF Takes

\* A step keeps what it is taken with, adds what it gives, and forgets what it
\* frees; a step that may be passed over leaves what was known before it.
LEMMA StepKnown ==
    ASSUME NEW s \in Steps, s.needs = {},
           NEW H \in SUBSET Contexts, NEW K \in SUBSET Contexts,
           NEW C \in SUBSET (Contexts \X Contexts), NEW D \in SUBSET (Contexts \X Contexts),
           NEW n \in Nat, NEW m \in Nat, NEW E, NEW B,
           s.uses \subseteq OpenAt(s, H, C),
           \A c \in s.frees : Owned(c) \/ c \in OpenAt(s, H, C),
           s.pull <= n,
           m <= n \/ (m <= n + 1 /\ s.push # 0 /\ ~Passing(s)),
           \A c \in K : /\ c \in s.gives \/ (c \in OpenAt(s, H, C) /\ c \in Kept(s))
                        /\ Passing(s) => c \in H,
           \A d \in D : /\ \/ d[2] \in s.gives
                           \/ d[2] \in OpenAt(s, H, C) /\ d[2] \in Kept(s)
                           \/ d[1] \notin s.gives /\ d[1] \in s.frees
                           \/ d[1] \notin s.gives /\ d \in C /\ d[2] \in Kept(s)
                        /\ \/ d \in C
                           \/ d[2] \in H
                           \/ ~s.skipped /\ s.only \subseteq {d[1]},
           s.failure = "returned" =>
             \A x \in Known(H, C, n) : Holds(s, x[1]) => << Free(x[1], s.undo), x[2] >> \in E,
           s.failure = "break" => Known(H, C, n) \subseteq B
    PROVE  << Known(H, C, n), s, Known(K, D, m) >> \in Takes(E, B)
  <1>. DEFINE P == Known(H, C, n)
              Q == Known(K, D, m)
  <1>1. P \in SUBSET Stores /\ Q \in SUBSET Stores
    BY KnownTypes
  <1>. SUFFICES ASSUME NEW x \in P
                PROVE  /\ s.skipped \/ ~Holds(s, x[1]) => x \in Q
                       /\ Holds(s, x[1]) => Sound(s, x) /\ After(s, x) \in Q
    BY <1>1 DEF Takes
  <1>2. /\ x \in Stores /\ x[1] \in [Contexts -> PointerStates] /\ x[2] \in Nat /\ x[2] >= n
        /\ x = << x[1], x[2] >>
        /\ \A c \in H : x[1][c] = "open"
        /\ \A d \in C : x[1][d[1]] # "null" => x[1][d[2]] = "open"
    BY StoreTypes DEF Known
  <1>3. /\ s.uses \subseteq Contexts /\ s.gives \subseteq Contexts /\ s.frees \subseteq Contexts
        /\ s.only \subseteq Contexts /\ s.push \in Nat /\ s.pull \in Nat /\ s.skipped \in BOOLEAN
    BY TracksAssumption DEF Steps
  <1>4. ASSUME s.skipped \/ ~Holds(s, x[1]) PROVE x \in Q
    <2>1. Passing(s)
      BY <1>4 DEF Passing, Holds
    <2>2. \A c \in K : x[1][c] = "open"
      BY <1>2, <2>1
    <2>3. ASSUME NEW d \in D, x[1][d[1]] # "null" PROVE x[1][d[2]] = "open"
      <3>1. CASE ~s.skipped /\ s.only \subseteq {d[1]}
        BY <1>4, <2>3, <3>1 DEF Holds
      <3>. QED  BY <1>2, <2>3, <3>1
    <2>4. x[2] >= m
      <3>1. m <= n
        BY <2>1
      <3>. QED  BY <1>2, <3>1
    <2>. QED  BY <1>2, <2>2, <2>3, <2>4 DEF Known
  <1>5. ASSUME Holds(s, x[1]) PROVE Sound(s, x) /\ After(s, x) \in Q
    <2>1. \A c \in OpenAt(s, H, C) : x[1][c] = "open"
      <3>1. ASSUME NEW c \in Contexts, NEW g \in s.only, << g, c >> \in C PROVE x[1][c] = "open"
        <4>1. x[1][g] # "null"
          BY <1>5 DEF Holds
        <4>2. << g, c >>[1] = g /\ << g, c >>[2] = c
          OBVIOUS
        <4>. QED  BY <1>2, <3>1, <4>1, <4>2
      <3>. QED  BY <1>2, <3>1 DEF OpenAt
    <2>2. Sound(s, x)
      <3>1. \A c \in s.frees : x[1][c] # "stale"
        <4>1. \A c \in Contexts : Owned(c) => x[1][c] # "stale"
          BY <1>2 DEF Stores
        <4>. QED  BY <1>3, <2>1, <4>1
      <3>2. s.pull <= x[2]
        BY <1>2, <1>3
      <3>. QED  BY <2>1, <3>1, <3>2 DEF Sound
    <2>. DEFINE y == Give(Free(x[1], s.frees), s.gives)
                k == x[2] + (IF s.push = 0 THEN 0 ELSE 1)
    <2>3. y \in [Contexts -> PointerStates] /\ << y, k >> \in Stores
      BY <1>2, <1>3, StoreTypes DEF Stores
    <2>4. \A c \in Contexts : c \in s.gives \/ (x[1][c] = "open" /\ c \in Kept(s)) => y[c] = "open"
      BY <1>2 DEF Give, Free, Kept
    <2>5. \A c \in Contexts : c \notin s.gives /\ (c \in s.frees \/ x[1][c] = "null")
             => y[c] = "null"
      BY <1>2 DEF Give, Free
    <2>. HIDE DEF y
    <2>6. \A c \in K : y[c] = "open"
      BY <2>1, <2>4
    <2>7. ASSUME NEW d \in D, y[d[1]] # "null" PROVE y[d[2]] = "open"
      <3>0. d[1] \in Contexts /\ d[2] \in Contexts
        OBVIOUS
      <3>1. CASE d[2] \in s.gives \/ (d[2] \in OpenAt(s, H, C) /\ d[2] \in Kept(s))
        BY <2>1, <2>4, <3>0, <3>1
      <3>2. CASE d[1] \notin s.gives /\ d[1] \in s.frees
        BY <2>5, <2>7, <3>0, <3>2
      <3>3. CASE d[1] \notin s.gives /\ d \in C /\ d[2] \in Kept(s)
        <4>1. x[1][d[1]] # "null"
          BY <2>5, <2>7, <3>0, <3>3
        <4>. QED  BY <1>2, <2>4, <3>0, <3>3, <4>1
      <3>. QED  BY <3>1, <3>2, <3>3
    <2>8. k >= m
      BY <1>2, <1>3
    <2>9. After(s, x) = << y, k >>
      BY DEF After, y
    <2>10. << y, k >>[1] = y /\ << y, k >>[2] = k
      OBVIOUS
    <2>. HIDE DEF k
    <2>. QED  BY <2>2, <2>3, <2>6, <2>7, <2>8, <2>9, <2>10 DEF Known
  <1>. QED  BY <1>4, <1>5

\* if (!a && !b ...): one of cs is set when the step has been taken.
LEMMA RequireKnown ==
    ASSUME NEW cs \in SUBSET Contexts, cs # {}, NEW P \in SUBSET Stores, NEW Q \in SUBSET Stores,
           NEW E, NEW B, P \subseteq E,
           \A x \in P : \A c \in cs : x[1][c] # "null" => x \in Q
    PROVE  << P, Require(cs), Q >> \in Takes(E, B)
  <1>1. Require(cs) \in Steps
    BY StepTypes DEF Firm, Quiet
  <1>2. /\ Require(cs).needs = cs /\ Require(cs).only = {} /\ ~Require(cs).skipped
        /\ Require(cs).uses = {} /\ Require(cs).frees = {} /\ Require(cs).pull = 0
        /\ Require(cs).failure = "never"
    BY DEF Require, Sure
  <1>. DEFINE s == Require(cs)
  <1>. HIDE DEF s
  <1>3. \A x \in P : Holds(s, x[1]) /\ Sound(s, x)
    <2>1. \A x \in P : x[2] \in Nat
      BY StoreTypes
    <2>. QED  BY <1>2, <2>1 DEF Holds, Sound, s
  <1>4. \A x \in P : x \in (IF \E c \in s.needs : x[1][c] # "null" THEN Q ELSE E)
    BY <1>2 DEF s
  <1>5. s \in Steps /\ s.needs # {} /\ ~s.skipped /\ s.failure = "never"
    BY <1>1, <1>2 DEF s
  <1>6. << P, s, Q >> \in Takes(E, B)
    BY <1>3, <1>4, <1>5 DEF Takes
  <1>. QED  BY <1>6 DEF s

\* The contexts H are open and there are n sinks: what the mixers know.
Having(H, n) == Known(H, {}, n)

\* The calls that free nothing: E is anything.
LEMMA Opens ==
    ASSUME NEW H \in SUBSET Contexts, NEW G \in SUBSET Contexts, NEW n \in Nat, NEW B,
           NEW u \in SUBSET H, NEW g \in SUBSET Contexts, NEW d, G \subseteq H \cup g,
           d \in SUBSET Contexts
    PROVE  /\ << Having(H, n), Try(u, g, d), Having(G, n) >> \in Takes(Stores, B)
           /\ << Having(H, n), Sure(u, g), Having(G, n) >> \in Takes(Stores, B)
           /\ << Having(H, n), Unchecked(u, g), Having(G, n) >> \in Takes(Stores, B)
           /\ g = {} => /\ << Having(H, n), Maybe(Try(u, g, d)), Having(G, n) >> \in Takes(Stores,
                           B)
                        /\ << Having(H, n), Maybe(Sure(u, g)), Having(G, n) >> \in Takes(Stores, B)
                        /\ << Having(H, n), Maybe(Unchecked(u, g)), Having(G,
                            n) >> \in Takes(Stores, B)
  <1>1. ASSUME NEW s \in Firm(Contexts), s.uses = u, s.gives = g, s.needs = {}, s.frees = {},
               s.only = {}, s.pull = 0, s.skipped => g = {}
        PROVE  << Having(H, n), s, Having(G, n) >> \in Takes(Stores, B)
    <2>1. s \in Steps /\ s.failure # "break"
      BY <1>1 DEF Firm, Quiet
    <2>2. s.uses \subseteq OpenAt(s, H, {}) /\ s.pull <= n /\ H \subseteq OpenAt(s, H, {})
      BY <1>1 DEF OpenAt
    <2>3. \A c \in G : /\ c \in s.gives \/ (c \in OpenAt(s, H, {}) /\ c \in Kept(s))
                       /\ Passing(s) => c \in H
      BY <1>1, <2>2 DEF Kept, Passing
    <2>4. \A x \in Known(H, {}, n) : << Free(x[1], s.undo), x[2] >> \in Stores
      BY StoreTypes DEF Known
    <2>. QED  BY <1>1, <2>1, <2>2, <2>3, <2>4, StepKnown DEF Having
  <1>2. /\ Try(u, g, d) \in Firm(Contexts) /\ Sure(u, g) \in Firm(Contexts)
        /\ Unchecked(u, g) \in Firm(Contexts)
    BY StepTypes
  <1>3. /\ Maybe(Try(u, g, d)) \in Firm(Contexts) /\ Maybe(Sure(u, g)) \in Firm(Contexts)
        /\ Maybe(Unchecked(u, g)) \in Firm(Contexts)
    BY <1>2, StepTypes
  <1>4. \A s \in {Try(u, g, d), Sure(u, g), Unchecked(u, g)} :
          /\ s.uses = u /\ s.gives = g /\ s.needs = {} /\ s.frees = {} /\ s.only = {}
          /\ s.pull = 0 /\ ~s.skipped
    <2>1. /\ Sure(u, g).uses = u /\ Sure(u, g).gives = g /\ Sure(u, g).needs = {}
          /\ Sure(u, g).frees = {} /\ Sure(u, g).only = {} /\ Sure(u, g).pull = 0
          /\ ~Sure(u, g).skipped
      BY DEF Sure
    <2>2. /\ Try(u, g, d).uses = u /\ Try(u, g, d).gives = g /\ Try(u, g, d).needs = {}
          /\ Try(u, g, d).frees = {} /\ Try(u, g, d).only = {} /\ Try(u, g, d).pull = 0
          /\ ~Try(u, g, d).skipped
      BY DEF Try, Sure
    <2>3. /\ Unchecked(u, g).uses = u /\ Unchecked(u, g).gives = g
          /\ Unchecked(u, g).needs = {} /\ Unchecked(u, g).frees = {}
          /\ Unchecked(u, g).only = {} /\ Unchecked(u, g).pull = 0 /\ ~Unchecked(u, g).skipped
      BY DEF Unchecked, Sure
    <2>. QED  BY <2>1, <2>2, <2>3
  <1>5. \A s \in {Maybe(Try(u, g, d)), Maybe(Sure(u, g)), Maybe(Unchecked(u, g))} :
          /\ s.uses = u /\ s.gives = g /\ s.needs = {} /\ s.frees = {} /\ s.only = {}
          /\ s.pull = 0
    BY DEF Maybe, Try, Sure, Unchecked
  <1>. QED  BY <1>1, <1>2, <1>3, <1>4, <1>5

\* The calls that free: what is freed has to be somebody's own.
LEMMA Releases ==
    ASSUME NEW H \in SUBSET Contexts, NEW G \in SUBSET H, NEW n \in Nat, NEW B, NEW E,
           NEW cs \in SUBSET Contexts, \A c \in cs : Owned(c) \/ c \in H,
           \A c \in G : c \notin cs /\ Whole(c) \notin cs
    PROVE  << Having(H, n), Release(cs), Having(G, n) >> \in Takes(E, B)
  <1>1. Release(cs) \in Steps
    BY StepTypes DEF Firm, Quiet
  <1>2. /\ Release(cs).uses = {} /\ Release(cs).gives = {} /\ Release(cs).needs = {}
        /\ Release(cs).frees = cs /\ Release(cs).only = {} /\ Release(cs).pull = 0
        /\ Release(cs).failure = "never" /\ ~Release(cs).skipped
    BY DEF Release, Sure
  <1>. DEFINE s == Release(cs)
  <1>. HIDE DEF s
  <1>3. s \in Steps /\ s.needs = {} /\ s.uses = {} /\ s.frees = cs /\ s.pull <= n
        /\ s.failure = "never"
    BY <1>1, <1>2 DEF s
  <1>4. H \subseteq OpenAt(s, H, {})
    BY DEF OpenAt
  <1>5. \A c \in G : /\ c \in OpenAt(s, H, {}) /\ c \in Kept(s)
                     /\ Passing(s) => c \in H
    BY <1>3, <1>4 DEF Kept
  <1>6. << Known(H, {}, n), s, Known(G, {}, n) >> \in Takes(E, B)
    BY <1>3, <1>4, <1>5, StepKnown
  <1>. QED  BY <1>6 DEF s, Having

\* sinkVec grows when the graph of client k is there, and is pulled at k.
LEMMA SinkSteps ==
    ASSUME NEW H \in SUBSET Contexts, NEW n \in Nat, NEW B, NEW k \in Track
    PROVE  /\ Graph(k) \in H =>
                << Having(H, n), PushSink(k), Having(H \cup {Sink(k)}, n + 1) >> \in Takes(Stores,
                B)
           /\ Frame \in H /\ k <= n =>
                << Having(H, n), PullSink(k), Having(H, n) >> \in Takes(Stores, B)
  <1>1. ASSUME Graph(k) \in H
        PROVE  << Having(H, n), PushSink(k), Having(H \cup {Sink(k)}, n + 1) >> \in Takes(Stores, B)
    <2>. DEFINE s == PushSink(k)
    <2>1. /\ s \in Steps /\ s.uses = {Graph(k)} /\ s.gives = {Sink(k)} /\ s.frees = {}
          /\ s.needs = {} /\ s.only = {} /\ ~s.skipped /\ s.push # 0 /\ s.pull = 0
          /\ s.failure = "never"
      BY PushSinkType, TrackType DEF PushSink, Sure
    <2>2. Sink(k) \in Contexts
      BY ContextTypes
    <2>. HIDE DEF s
    <2>3. H \subseteq OpenAt(s, H, {}) /\ s.uses \subseteq OpenAt(s, H, {}) /\ ~Passing(s)
      BY <1>1, <2>1 DEF OpenAt, Passing
    <2>4. \A c \in H \cup {Sink(k)} : c \in s.gives \/ (c \in OpenAt(s, H, {}) /\ c \in Kept(s))
      BY <2>1, <2>3 DEF Kept
    <2>5. << Known(H, {}, n), s, Known(H \cup {Sink(k)}, {}, n + 1) >> \in Takes(Stores, B)
      BY <2>1, <2>2, <2>3, <2>4, StepKnown
    <2>. QED  BY <2>5 DEF Having, s
  <1>2. ASSUME Frame \in H, k <= n
        PROVE  << Having(H, n), PullSink(k), Having(H, n) >> \in Takes(Stores, B)
    <2>. DEFINE s == PullSink(k)
    <2>1. /\ s \in Steps /\ s.uses = {Frame} /\ s.gives = {} /\ s.frees = {}
          /\ s.needs = {} /\ s.only = {} /\ s.push = 0 /\ s.pull = k
          /\ s.failure = "returned"
      <3>1. s \in Steps
        BY PullSinkType DEF Firm, Quiet
      <3>. QED  BY <3>1 DEF PullSink, Maybe, Try, Sure
    <2>. HIDE DEF s
    <2>3. H \subseteq OpenAt(s, H, {}) /\ s.uses \subseteq OpenAt(s, H, {})
      BY <1>2, <2>1 DEF OpenAt
    <2>4. \A c \in H : c \in OpenAt(s, H, {}) /\ c \in Kept(s)
      BY <2>1, <2>3 DEF Kept
    <2>5. \A x \in Known(H, {}, n) : << Free(x[1], s.undo), x[2] >> \in Stores
      BY StoreTypes DEF Known
    <2>6. << Known(H, {}, n), s, Known(H, {}, n) >> \in Takes(Stores, B)
      BY <1>2, <2>1, <2>3, <2>4, <2>5, StepKnown
    <2>. QED  BY <2>6 DEF Having, s
  <1>. QED  BY <1>1, <1>2

\* The set of what the mixers know is a set of Stores.
LEMMA HavingType == \A H, n : Having(H, n) \in SUBSET Stores
  BY KnownTypes DEF Having

-----------------------------------------------------------------------------
(* What the functions of the mixers make known                             *)

\* The steps of a call whose error ends the process or is only printed.
Safe(B) == Takes(Stores, B)

\* sdp_open and the opening of a file both give the input.
LEMMA InputKnown ==
    ASSUME NEW i \in Track, NEW H \in SUBSET Contexts, NEW n \in Nat, NEW B
    PROVE  /\ Chain(Safe(B), open_input_file(i), Having(H, n), Having(H \cup {In(i), Dec(i)}, n))
           /\ Chain(Safe(B), OpenFile(i) \o FindDecoder(i), Having(H, n),
                    Having(H \cup {In(i), Dec(i)}, n))
  <1>. DEFINE S == Firm(Contexts)
              H1 == H \cup {In(i)}
              H2 == H \cup {In(i), Dec(i)}
              f == [m \in 1..4 |-> Try({In(i)}, {}, {In(i)})]
  <1>0. /\ In(i) \in Contexts /\ Dec(i) \in Contexts /\ Data(1) \in Contexts /\ Data(2) \in Contexts
        /\ Contexts \in SUBSET Contexts
    BY ContextTypes
  <1>1. /\ sdp_open(i) \in Seq(S) /\ FindDecoder(i) \in Seq(S) /\ OpenFile(i) \in Seq(S)
        /\ f \in Seq(S) /\ Sure({In(i)}, {Dec(i)}) \in S
    <2>1. Try({In(i)}, {}, {In(i)}) \in S /\ Sure({In(i)}, {Dec(i)}) \in S
      BY <1>0, StepTypes
    <2>. QED  BY <1>0, <2>1, InputTypes, FunctionIsSeq
  <1>2. Having(H, n) \in SUBSET Stores /\ Having(H1, n) \in SUBSET Stores
        /\ Having(H2, n) \in SUBSET Stores
    BY HavingType
  <1>3. Chain(Safe(B), OpenFile(i), Having(H, n), Having(H1, n))
    <2>1. << Having(H, n), Try({}, {In(i)}, {In(i)}), Having(H1, n) >> \in Safe(B)
      BY <1>0, Opens DEF Safe
    <2>. QED  BY <1>2, <2>1, ChainOfOne DEF OpenFile
  <1>4. Chain(Safe(B), sdp_open(i), Having(H, n), Having(H1, n))
    <2>. DEFINE A == H \cup {In(i), Data(1)}
                D == H \cup {In(i), Data(1), Data(2)}
    <2>1. << Having(H, n), Unchecked({}, {In(i)}), Having(H1, n) >> \in Safe(B)
      BY <1>0, Opens DEF Safe
    <2>2. << Having(H1, n), Unchecked({}, {Data(1)}), Having(A, n) >> \in Safe(B)
      BY <1>0, Opens DEF Safe
    <2>3. << Having(A, n), Unchecked({}, {Data(2)}), Having(D, n) >> \in Safe(B)
      BY <1>0, Opens DEF Safe
    <2>4. << Having(D, n), Try({In(i), Data(1), Data(2)}, {}, {In(i)}), Having(H1, n) >> \in Safe(B)
      BY <1>0, Opens DEF Safe
    <2>5. Having(A, n) \in SUBSET Stores /\ Having(D, n) \in SUBSET Stores
      BY HavingType
    <2>. HIDE DEF A, D
    <2>. QED  BY <1>2, <2>1, <2>2, <2>3, <2>4, <2>5, ChainOf4 DEF sdp_open
  <1>5. Chain(Safe(B), FindDecoder(i), Having(H1, n), Having(H2, n))
    <2>1. << Having(H1, n), Try({In(i)}, {}, {In(i)}), Having(H1, n) >> \in Safe(B)
      BY <1>0, Opens DEF Safe
    <2>2. << Having(H1, n), Sure({In(i)}, {Dec(i)}), Having(H2, n) >> \in Safe(B)
      BY <1>0, Opens DEF Safe
    <2>3. Len(f) = 4 /\ \A m \in 1..4 : f[m] = Try({In(i)}, {}, {In(i)})
      OBVIOUS
    <2>. HIDE DEF f, S, H1, H2
    <2>4. Chain(Safe(B), f, Having(H1, n), Having(H1, n))
      BY <1>1, <1>2, <2>1, <2>3, ChainSame
    <2>5. Chain(Safe(B), f \o << Sure({In(i)}, {Dec(i)}) >>, Having(H1, n), Having(H2, n))
      BY <1>1, <1>2, <2>2, <2>4, ChainAppend
    <2>. QED  BY <2>5 DEF FindDecoder, f
  <1>. HIDE DEF S, H1
  <1>. QED  BY <1>1, <1>3, <1>4, <1>5, ChainJoin DEF open_input_file

\* The filter graph k of the inputs ins, but for its sink.
Graphs(k, ins) == {Graph(k)} \cup {Src(k, j) : j \in ins}

\* A source for each input of the graph, the mixer, the sink, and their links.
LEMMA GraphKnown ==
    ASSUME NEW k \in Track, NEW ins \in SUBSET Track, NEW H \in SUBSET Contexts, NEW n \in Nat,
           NEW B, \A i \in ins : Dec(i) \in H
    PROVE  Chain(Safe(B), MakeGraph(k, ins), Having(H, n), Having(H \cup Graphs(k, ins), n))
  <1>. DEFINE S == Firm(Contexts)
              Source(i) == IF i \in ins THEN CreateSource(k, i) ELSE << >>
              Link(i) == IF i \in ins
                         THEN << Try({Graph(k), Src(k, i)}, {}, {}) >> ELSE << >>
              H1 == H \cup {Graph(k)}
              Until(m) == H1 \cup {Src(k, j) : j \in {i \in ins : i <= m}}
              A == [m \in 0..Tracks |-> Having(Until(m), n)]
              H2 == H \cup Graphs(k, ins)
  <1>0. /\ Graph(k) \in Contexts /\ \A i \in Track : Src(k, i) \in Contexts /\ Dec(i) \in Contexts
        /\ H1 \in SUBSET Contexts /\ H2 \in SUBSET Contexts
        /\ \A m \in 0..Tracks : Until(m) \in SUBSET Contexts
    BY ContextTypes DEF Graphs
  <1>0a. Tracks \in Nat /\ \A j \in ins : j \in Nat /\ ~(j <= 0) /\ j <= Tracks
    <2>1. \A j \in Track : j \in Nat /\ ~(j <= 0) /\ j <= Tracks
      BY TrackType
    <2>. QED  BY <2>1, TrackType
  <1>1. /\ << Try({}, {Graph(k)}, {}) >> \in Seq(S) /\ CreateMixAndSink(k) \in Seq(S)
        /\ << Try({Graph(k)}, {}, {}), Try({Graph(k)}, {}, {}) >> \in Seq(S)
        /\ \A i \in Track : Source(i) \in Seq(S) /\ Link(i) \in Seq(S)
    <2>1. Try({}, {Graph(k)}, {}) \in S /\ Try({Graph(k)}, {}, {}) \in S /\ Try({}, {}, {}) \in S
      BY <1>0, StepTypes
    <2>2. ASSUME NEW i \in Track PROVE Source(i) \in Seq(S) /\ Link(i) \in Seq(S)
      <3>1. Try({Dec(i), Graph(k)}, {Src(k, i)}, {}) \in S /\ Try({Graph(k), Src(k, i)}, {},
              {}) \in S
        BY <1>0, StepTypes
      <3>2. CreateSource(k, i) \in Seq(S) /\ << Try({Graph(k), Src(k, i)}, {}, {}) >> \in Seq(S)
        BY <2>1, <3>1 DEF CreateSource
      <3>. QED  BY <3>2, JoinedSeqs
    <2>. QED  BY <2>1, <2>2 DEF CreateMixAndSink
  <1>2. /\ Having(H, n) \in SUBSET Stores /\ Having(H1, n) \in SUBSET Stores
        /\ Having(H2, n) \in SUBSET Stores
        /\ \A m \in 0..Tracks : Having(Until(m), n) \in SUBSET Stores
    BY HavingType
  <1>3. Chain(Safe(B), << Try({}, {Graph(k)}, {}) >>, Having(H, n), Having(H1, n))
    <2>1. << Having(H, n), Try({}, {Graph(k)}, {}), Having(H1, n) >> \in Safe(B)
      BY <1>0, Opens DEF Safe
    <2>. QED  BY <1>2, <2>1, ChainOfOne
  <1>4. ASSUME NEW i \in 1..Tracks
        PROVE  Chain(Safe(B), Source(i), Having(Until(i - 1), n), Having(Until(i), n))
    <2>0. i \in Track /\ i - 1 \in 0..Tracks /\ i \in 0..Tracks /\ i \in Nat
      BY TrackType
    <2>1. CASE i \in ins
      <3>1. Until(i) = Until(i - 1) \cup {Src(k, i)}
        <4>1. {j \in ins : j <= i} = {j \in ins : j <= i - 1} \cup {i}
          <5>1. \A j \in ins : j <= i <=> (j <= i - 1 \/ j = i)
            BY <1>0a, <2>0
          <5>. QED  BY <2>1, <5>1
        <4>. QED  BY <4>1
      <3>2. {} \in SUBSET Until(i - 1) /\ {Dec(i), Graph(k)} \in SUBSET Until(i - 1)
        BY <2>1
      <3>. DEFINE U == Until(i - 1)
                  V == Until(i)
      <3>3. U \in SUBSET Contexts /\ V \in SUBSET Contexts /\ V = U \cup {Src(k, i)}
            /\ {Dec(i), Graph(k)} \in SUBSET U /\ Src(k, i) \in Contexts
            /\ Having(U, n) \in SUBSET Stores /\ Having(V, n) \in SUBSET Stores
        BY <1>0, <1>2, <2>0, <3>1, <3>2
      <3>. HIDE DEF U, V
      <3>4. << Having(U, n), Try({}, {}, {}), Having(U, n) >> \in Safe(B)
        BY <3>3, Opens DEF Safe
      <3>5. << Having(U, n), Try({Dec(i), Graph(k)}, {Src(k, i)}, {}), Having(V, n) >> \in Safe(B)
        BY <3>3, Opens DEF Safe
      <3>6. Chain(Safe(B), CreateSource(k, i), Having(U, n), Having(V, n))
        BY <3>3, <3>4, <3>5, ChainOf2 DEF CreateSource
      <3>. QED  BY <2>1, <3>6 DEF U, V
    <2>2. CASE i \notin ins
      <3>1. Until(i) = Until(i - 1)
        <4>1. {j \in ins : j <= i} = {j \in ins : j <= i - 1}
          <5>1. \A j \in ins : j <= i <=> j <= i - 1
            BY <1>0a, <2>0, <2>2
          <5>. QED  BY <5>1
        <4>. QED  BY <4>1
      <3>. HIDE DEF Until
      <3>. QED  BY <1>2, <2>0, <2>2, <3>1, ChainNone
    <2>. QED  BY <2>1, <2>2
  <1>5. Chain(Safe(B), FlattenSeq([i \in 1..Tracks |-> Source(i)]), Having(H1, n), Having(H2, n))
    <2>1. A[0] = Having(H1, n) /\ A[Tracks] = Having(H2, n)
      <3>1. Until(0) = H1
        <4>1. {i \in ins : i <= 0} = {}
          BY <1>0a
        <4>. QED  BY <4>1
      <3>2. Until(Tracks) = H2
        <4>1. {i \in ins : i <= Tracks} = ins
          BY <1>0a
        <4>. QED  BY <4>1 DEF Graphs
      <3>3. 0 \in 0..Tracks /\ Tracks \in 0..Tracks
        BY TrackType
      <3>. HIDE DEF Until, H1, H2
      <3>. QED  BY <3>1, <3>2, <3>3
    <2>2. A \in [0..Tracks -> SUBSET Stores]
      BY <1>2
    <2>. DEFINE g == [i \in 1..Tracks |-> Source(i)]
    <2>3. g \in [1..Tracks -> Seq(S)]
      <3>. HIDE DEF Source, S
      <3>. QED  BY <1>1, TrackType
    <2>4. \A i \in 1..Tracks : Chain(Safe(B), g[i], A[i - 1], A[i])
      <3>1. \A i \in 1..Tracks : i \in 0..Tracks /\ i - 1 \in 0..Tracks
        BY TrackType
      <3>. HIDE DEF Source, Until
      <3>. QED  BY <1>4, <3>1
    <2>. HIDE DEF A, g, S
    <2>5. Chain(Safe(B), FlattenSeq(g), A[0], A[Tracks])
      BY <2>2, <2>3, <2>4, TrackType, ChainFlat
    <2>. QED  BY <2>1, <2>5 DEF g
  <1>6. /\ << Having(H2, n), Try({}, {}, {}), Having(H2, n) >> \in Safe(B)
        /\ << Having(H2, n), Try({Graph(k)}, {}, {}), Having(H2, n) >> \in Safe(B)
        /\ \A i \in ins : << Having(H2, n), Try({Graph(k), Src(k, i)}, {}, {}), Having(H2,
            n) >> \in Safe(B)
    <2>1. {} \in SUBSET H2 /\ {Graph(k)} \in SUBSET H2
          /\ \A i \in ins : {Graph(k), Src(k, i)} \in SUBSET H2
      BY DEF Graphs
    <2>. HIDE DEF H2
    <2>. QED  BY <1>0, <2>1, Opens DEF Safe
  <1>7. Chain(Safe(B), CreateMixAndSink(k), Having(H2, n), Having(H2, n))
    <2>. HIDE DEF H2
    <2>. QED  BY <1>2, <1>6, ChainOf6 DEF CreateMixAndSink
  <1>8. Chain(Safe(B), FlattenSeq([i \in 1..Tracks |-> Link(i)]), Having(H2, n), Having(H2, n))
    <2>. DEFINE g == [i \in 1..Tracks |-> Link(i)]
                Z == [m \in 0..Tracks |-> Having(H2, n)]
    <2>1. g \in [1..Tracks -> Seq(S)]
      <3>. HIDE DEF Link, S
      <3>. QED  BY <1>1, TrackType
    <2>2. ASSUME NEW i \in 1..Tracks PROVE Chain(Safe(B), g[i], Z[i - 1], Z[i])
      <3>1. Z[i - 1] = Having(H2, n) /\ Z[i] = Having(H2, n)
        BY TrackType
      <3>2. CASE i \in ins
        <4>. HIDE DEF H2
        <4>. QED  BY <1>2, <1>6, <3>1, <3>2, ChainOfOne
      <3>3. CASE i \notin ins
        <4>. HIDE DEF H2
        <4>. QED  BY <1>2, <3>1, <3>3, ChainNone
      <3>. QED  BY <3>2, <3>3
    <2>3. Z \in [0..Tracks -> SUBSET Stores] /\ Z[0] = Having(H2, n) /\ Z[Tracks] = Having(H2, n)
      <3>1. 0 \in 0..Tracks /\ Tracks \in 0..Tracks
        BY TrackType
      <3>. HIDE DEF H2
      <3>. QED  BY <1>2, <3>1
    <2>. HIDE DEF g, Z, S
    <2>4. Chain(Safe(B), FlattenSeq(g), Z[0], Z[Tracks])
      BY <2>1, <2>2, <2>3, TrackType, ChainFlat
    <2>. QED  BY <2>3, <2>4 DEF g
  <1>9. Chain(Safe(B), << Try({Graph(k)}, {}, {}), Try({Graph(k)}, {}, {}) >>,
              Having(H2, n), Having(H2, n))
    <2>. HIDE DEF H2
    <2>. QED  BY <1>2, <1>6, ChainOf2
  <1>. DEFINE a == << Try({}, {Graph(k)}, {}) >>
              b == FlattenSeq([i \in 1..Tracks |-> Source(i)])
              c == CreateMixAndSink(k)
              d == FlattenSeq([i \in 1..Tracks |-> Link(i)])
              e == << Try({Graph(k)}, {}, {}), Try({Graph(k)}, {}, {}) >>
  <1>10. b \in Seq(S) /\ d \in Seq(S)
    <2>. HIDE DEF Source, Link, S
    <2>. QED  BY <1>1, JoinedSeqs, TrackType
  <1>11. MakeGraph(k, ins) = (((a \o b) \o c) \o d) \o e
    BY DEF MakeGraph, ForEach
  <1>. HIDE DEF S, H1, H2, a, b, c, d, e
  <1>12. a \in Seq(S) /\ c \in Seq(S) /\ e \in Seq(S)
    BY <1>1 DEF a, c, e
  <1>13. Chain(Safe(B), a \o b, Having(H, n), Having(H2, n)) /\ a \o b \in Seq(S)
    BY <1>3, <1>5, <1>10, <1>12, ChainJoin, Joined DEF a, b
  <1>14. Chain(Safe(B), (a \o b) \o c, Having(H, n), Having(H2, n)) /\ (a \o b) \o c \in Seq(S)
    BY <1>7, <1>12, <1>13, ChainJoin, Joined DEF c
  <1>15. Chain(Safe(B), ((a \o b) \o c) \o d, Having(H, n), Having(H2, n))
         /\ ((a \o b) \o c) \o d \in Seq(S)
    BY <1>8, <1>10, <1>14, ChainJoin, Joined DEF d
  <1>16. Chain(Safe(B), MakeGraph(k, ins), Having(H, n), Having(H2, n))
    BY <1>9, <1>11, <1>12, <1>15, ChainJoin DEF e
  <1>. QED  BY <1>16 DEF H2

\* open_output_file, write_output_file_header and write_output_file_trailer.
LEMMA OutputKnown ==
    ASSUME NEW i \in Track, NEW H \in SUBSET Contexts, NEW n \in Nat, NEW B
    PROVE  /\ \A uses \in SUBSET (H \cup {Out(i)}) : Dec(i) \in H =>
                Chain(Safe(B), OpenOutput(i, uses), Having(H, n),
                      Having(H \cup {Io(i), Out(i), Enc(i)}, n))
           /\ Out(i) \in H => Chain(Safe(B), write_output_file_header(i), Having(H, n),
                                    Having(H \cup {Muxer(i)}, n))
           /\ {Out(i), Muxer(i)} \subseteq H =>
                Chain(Safe(B), WriteTrailer(i), Having(H, n), Having({}, 0))
  <1>0. /\ Io(i) \in Contexts /\ Out(i) \in Contexts /\ Enc(i) \in Contexts /\ Muxer(i) \in Contexts
    BY ContextTypes
  <1>1. ASSUME NEW uses \in SUBSET (H \cup {Out(i)}), Dec(i) \in H
        PROVE  Chain(Safe(B), OpenOutput(i, uses), Having(H, n),
                     Having(H \cup {Io(i), Out(i), Enc(i)}, n))
    <2>. DEFINE A == H \cup {Io(i)}
                D == H \cup {Io(i), Out(i)}
                F == H \cup {Io(i), Out(i), Enc(i)}
                undo == {Io(i), Out(i)}
    <2>0. /\ A \in SUBSET Contexts /\ D \in SUBSET Contexts /\ F \in SUBSET Contexts
          /\ undo \in SUBSET Contexts /\ uses \in SUBSET D /\ {Out(i)} \in SUBSET D
          /\ {Out(i), Enc(i), Dec(i)} \in SUBSET F
          /\ A \subseteq H \cup {Io(i)} /\ D \subseteq A \cup {Out(i)} /\ F \subseteq D \cup {Enc(i)}
      BY <1>0, <1>1
    <2>1. Having(H, n) \in SUBSET Stores /\ Having(A, n) \in SUBSET Stores
          /\ Having(D, n) \in SUBSET Stores /\ Having(F, n) \in SUBSET Stores
      BY HavingType
    <2>. HIDE DEF A, D, F, undo
    <2>2. << Having(H, n), Try({}, {Io(i)}, {}), Having(A, n) >> \in Safe(B)
      BY <1>0, <2>0, Opens DEF Safe
    <2>3. << Having(A, n), Try({}, {Out(i)}, {}), Having(D, n) >> \in Safe(B)
      BY <1>0, <2>0, Opens DEF Safe
    <2>4. << Having(D, n), Try({Out(i)}, {}, undo), Having(D, n) >> \in Safe(B)
      BY <1>0, <2>0, Opens DEF Safe
    <2>5. << Having(D, n), Try(uses, {}, undo), Having(D, n) >> \in Safe(B)
      BY <1>0, <2>0, Opens DEF Safe
    <2>6. << Having(D, n), Try({Out(i)}, {Enc(i)}, undo), Having(F, n) >> \in Safe(B)
      BY <1>0, <2>0, Opens DEF Safe
    <2>7. << Having(F, n), Try({Out(i), Enc(i), Dec(i)}, {}, undo), Having(F, n) >> \in Safe(B)
      BY <1>0, <2>0, Opens DEF Safe
    <2>8. OpenOutput(i, uses) =
            << Try({}, {Io(i)}, {}), Try({}, {Out(i)}, {}),
               Try({Out(i)}, {}, undo), Try(uses, {}, undo),
               Try({Out(i)}, {Enc(i)}, undo),
               Try({Out(i), Enc(i), Dec(i)}, {}, undo) >>
      BY DEF OpenOutput, undo
    <2>9. Chain(Safe(B), << Try({}, {Io(i)}, {}), Try({}, {Out(i)}, {}),
                            Try({Out(i)}, {}, undo), Try(uses, {}, undo),
                            Try({Out(i)}, {Enc(i)}, undo),
                            Try({Out(i), Enc(i), Dec(i)}, {}, undo) >>,
                Having(H, n), Having(F, n))
      BY <2>1, <2>2, <2>3, <2>4, <2>5, <2>6, <2>7, ChainOf6
    <2>. QED  BY <2>8, <2>9 DEF F
  <1>2. ASSUME Out(i) \in H
        PROVE  Chain(Safe(B), write_output_file_header(i), Having(H, n), Having(H \cup {Muxer(i)},
            n))
    <2>1. << Having(H, n), Try({Out(i)}, {Muxer(i)}, {}), Having(H \cup {Muxer(i)},
            n) >> \in Safe(B)
      BY <1>0, <1>2, Opens DEF Safe
    <2>. QED  BY <2>1, HavingType, ChainOfOne DEF write_output_file_header
  <1>3. ASSUME {Out(i), Muxer(i)} \subseteq H
        PROVE  Chain(Safe(B), WriteTrailer(i), Having(H, n), Having({}, 0))
    <2>1. << Having(H, n), Try({Out(i), Muxer(i)}, {}, {}), Having(H, n) >> \in Safe(B)
      BY <1>0, <1>3, Opens DEF Safe
    <2>2. << Having(H, n), Release({Muxer(i)}), Having({}, 0) >> \in Safe(B)
      <3>1. << Having(H, n), Release({Muxer(i)}), Having({}, n) >> \in Safe(B)
        BY <1>0, <1>3, Releases DEF Safe
      <3>2. Having({}, n) \subseteq Having({}, 0)
        BY KnownTypes DEF Having
      <3>. QED  BY <3>1, <3>2, HavingType, TakesMore DEF Safe
    <2>. QED  BY <2>1, <2>2, HavingType, ChainOf2 DEF WriteTrailer
  <1>. QED  BY <1>1, <1>2, <1>3

\* What is done with a frame in a round: it is filled, fed and given back.
LEMMA FrameKnown ==
    ASSUME NEW H \in SUBSET Contexts, Frame \notin H, NEW n \in Nat, NEW B
    PROVE  LET F == H \cup {Frame} IN
           /\ Chain(Safe(B), init_input_frame, Having(H, n), Having(F, n))
           /\ Chain(Safe(B), CheckedFrame, Having(H, n), Having(F, n))
           /\ << Having(F, n), Release({Frame}), Having(H, n) >> \in Safe(B)
           /\ \A i \in Track : {In(i), Dec(i)} \subseteq H =>
                /\ Chain(Safe(B), decode_audio_frame(i), Having(F, n), Having(F, n))
                /\ Chain(Safe(B), [m \in 1..2 |-> Maybe(decode_audio_frame(i)[m])],
                         Having(F, n), Having(F, n))
                /\ Chain(Safe(B), DecodeToEnd(i), Having(F, n), Having(F, n))
           /\ \A k, i \in Track : Src(k, i) \in H =>
                << Having(F, n), Maybe(Try({Src(k, i), Frame}, {}, {})), Having(F, n) >> \in Safe(B)
           /\ \A k \in Track : k <= n =>
                Chain(Safe(B), << Unchecked({}, {Frame}), PullSink(k) >>, Having(H, n), Having(F,
                    n))
           /\ \A k \in Track : {Out(k), Enc(k), Muxer(k)} \subseteq H =>
                Chain(Safe(B), encode_audio_frame(k), Having(F, n), Having(F, n))
  <1>. DEFINE F == H \cup {Frame}
  <1>0. F \in SUBSET Contexts /\ Frame \in F /\ H \in SUBSET F /\ F \subseteq H \cup {Frame}
        /\ Frame \in Contexts /\ {Frame} \in SUBSET Contexts
    BY ContextTypes
  <1>1. Having(H, n) \in SUBSET Stores /\ Having(F, n) \in SUBSET Stores
    BY HavingType
  <1>2. \A c \in Contexts : c # Frame => Whole(c) # Frame
    <2>1. Frame[1] = "data" /\ \A i : In(i)[1] = "in" /\ Out(i)[1] = "out" /\ Graph(i)[1] = "graph"
      BY DEF Frame, Data, In, Out, Graph
    <2>. QED  BY <2>1 DEF Whole
  <1>3. Owned(Frame)
    BY DEF Owned, Whole, Frame, Data
  <1>. HIDE DEF F
  <1>4. Chain(Safe(B), init_input_frame, Having(H, n), Having(F, n))
    <2>1. << Having(H, n), Unchecked({}, {Frame}), Having(F, n) >> \in Safe(B)
      BY <1>0, Opens DEF Safe
    <2>. QED  BY <1>1, <2>1, ChainOfOne DEF init_input_frame
  <1>5. Chain(Safe(B), CheckedFrame, Having(H, n), Having(F, n))
    <2>1. << Having(H, n), Try({}, {Frame}, {}), Having(F, n) >> \in Safe(B)
      BY <1>0, Opens DEF Safe
    <2>. QED  BY <1>1, <2>1, ChainOfOne DEF CheckedFrame
  <1>6. << Having(F, n), Release({Frame}), Having(H, n) >> \in Safe(B)
    BY <1>0, <1>2, <1>3, Releases DEF Safe
  <1>7. ASSUME NEW i \in Track, {In(i), Dec(i)} \subseteq H
        PROVE  /\ Chain(Safe(B), decode_audio_frame(i), Having(F, n), Having(F, n))
               /\ Chain(Safe(B), [m \in 1..2 |-> Maybe(decode_audio_frame(i)[m])],
                        Having(F, n), Having(F, n))
               /\ Chain(Safe(B), DecodeToEnd(i), Having(F, n), Having(F, n))
    <2>0. {In(i)} \in SUBSET F /\ {In(i), Dec(i), Frame} \in SUBSET F
      BY <1>0, <1>7
    <2>1. /\ << Having(F, n), Try({In(i)}, {}, {}), Having(F, n) >> \in Safe(B)
          /\ << Having(F, n), Maybe(Try({In(i)}, {}, {})), Having(F, n) >> \in Safe(B)
          /\ << Having(F, n), Maybe(Sure({In(i)}, {})), Having(F, n) >> \in Safe(B)
      BY <1>0, <2>0, Opens DEF Safe
    <2>2. /\ << Having(F, n), Try({In(i), Dec(i), Frame}, {}, {}), Having(F, n) >> \in Safe(B)
          /\ << Having(F, n), Maybe(Try({In(i), Dec(i), Frame}, {}, {})), Having(F,
              n) >> \in Safe(B)
      BY <1>0, <2>0, Opens DEF Safe
    <2>3. [m \in 1..2 |-> Maybe(decode_audio_frame(i)[m])] =
            << Maybe(Try({In(i)}, {}, {})), Maybe(Try({In(i), Dec(i), Frame}, {}, {})) >>
      BY DEF decode_audio_frame
    <2>. QED  BY <1>1, <2>1, <2>2, <2>3, ChainOf2 DEF decode_audio_frame, DecodeToEnd
  <1>8. ASSUME NEW k \in Track, NEW i \in Track, Src(k, i) \in H
        PROVE  << Having(F, n), Maybe(Try({Src(k, i), Frame}, {}, {})), Having(F, n) >> \in Safe(B)
    <2>1. {Src(k, i), Frame} \in SUBSET F
      BY <1>0, <1>8
    <2>. QED  BY <1>0, <2>1, Opens DEF Safe
  <1>9. ASSUME NEW k \in Track, k <= n
        PROVE  Chain(Safe(B), << Unchecked({}, {Frame}), PullSink(k) >>, Having(H, n), Having(F, n))
    <2>1. << Having(H, n), Unchecked({}, {Frame}), Having(F, n) >> \in Safe(B)
      BY <1>0, Opens DEF Safe
    <2>2. << Having(F, n), PullSink(k), Having(F, n) >> \in Safe(B)
      BY <1>0, <1>9, SinkSteps DEF Safe
    <2>. QED  BY <1>1, <2>1, <2>2, ChainOf2
  <1>10. ASSUME NEW k \in Track, {Out(k), Enc(k), Muxer(k)} \subseteq H
         PROVE  Chain(Safe(B), encode_audio_frame(k), Having(F, n), Having(F, n))
    <2>1. {Out(k), Enc(k), Frame} \in SUBSET F /\ {Out(k), Enc(k), Muxer(k)} \in SUBSET F
      BY <1>0, <1>10
    <2>2. << Having(F, n), Maybe(Try({Out(k), Enc(k), Frame}, {}, {})), Having(F, n) >> \in Safe(B)
      BY <1>0, <2>1, Opens DEF Safe
    <2>3. << Having(F, n), Maybe(Try({Out(k), Enc(k), Muxer(k)}, {}, {})), Having(F,
            n) >> \in Safe(B)
      BY <1>0, <2>1, Opens DEF Safe
    <2>. QED  BY <1>1, <2>2, <2>3, ChainOf2 DEF encode_audio_frame
  <1>. QED  BY <1>4, <1>5, <1>6, <1>7, <1>8, <1>9, <1>10 DEF F

\* Texts one after the other, each of which keeps what is known.
LEMMA ChainFlatSame ==
    ASSUME NEW S, NEW R, NEW n \in Nat, NEW g \in [1..n -> Seq(S)], NEW P \in SUBSET Stores,
           \A k \in 1..n : Chain(R, g[k], P, P)
    PROVE  Chain(R, FlattenSeq(g), P, P)
  <1>. DEFINE A == [m \in 0..n |-> P]
  <1>1. A \in [0..n -> SUBSET Stores] /\ A[0] = P /\ A[n] = P
    OBVIOUS
  <1>2. \A k \in 1..n : Chain(R, g[k], A[k - 1], A[k])
    <2>1. \A k \in 1..n : k - 1 \in 0..n /\ k \in 0..n
      OBVIOUS
    <2>2. \A m \in 0..n : A[m] = P
      OBVIOUS
    <2>. HIDE DEF A
    <2>. QED  BY <2>1, <2>2
  <1>. HIDE DEF A
  <1>3. Chain(R, FlattenSeq(g), A[0], A[n])
    BY <1>1, <1>2, ChainFlat
  <1>. QED  BY <1>1, <1>3

\* A frame is read, fed to what takes it, and given back; a sink is pulled,
\* what comes is encoded, and given back.
LEMMA FrameRound ==
    ASSUME NEW S, NEW H \in SUBSET Contexts, Frame \notin H, NEW n \in Nat, NEW B,
           NEW a \in Seq(S), NEW b \in Seq(S), << Release({Frame}) >> \in Seq(S),
           Chain(Safe(B), a, Having(H, n), Having(H \cup {Frame}, n)),
           Chain(Safe(B), b, Having(H \cup {Frame}, n), Having(H \cup {Frame}, n))
    PROVE  Chain(Safe(B), (a \o b) \o << Release({Frame}) >>, Having(H, n), Having(H, n))
  <1>1. Chain(Safe(B), a \o b, Having(H, n), Having(H \cup {Frame}, n))
    BY ChainJoin
  <1>2. a \o b \in Seq(S)
    BY Joined
  <1>3. Chain(Safe(B), << Release({Frame}) >>, Having(H \cup {Frame}, n), Having(H, n))
    BY FrameKnown, HavingType, ChainOfOne
  <1>. QED  BY <1>1, <1>2, <1>3, ChainJoin

\* The rounds of the mixers with a graph for each client.
LEMMA RoundsKnown ==
    ASSUME NEW H \in SUBSET Contexts, Frame \notin H, NEW n \in Nat, Tracks <= n, NEW B,
           \A i \in Track : {In(i), Dec(i), Out(i), Enc(i), Muxer(i)} \subseteq H,
           \A j, i \in Track : i # j => Src(j, i) \in H
    PROVE  Chain(Safe(B), Rounds, Having(H, n), Having(H, n))
  <1>. DEFINE S == Firm(Contexts)
              F == H \cup {Frame}
              Feed(i, j) == IF j = i THEN << >> ELSE << Maybe(Try({Src(j, i), Frame}, {}, {})) >>
              Feeds(i) == FlattenSeq([j \in 1..Tracks |-> Feed(i, j)])
              Read(i) == ((init_input_frame \o decode_audio_frame(i)) \o Feeds(i))
                         \o << Release({Frame}) >>
              Pull(k) == (<< Unchecked({}, {Frame}), PullSink(k) >> \o encode_audio_frame(k))
                         \o << Release({Frame}) >>
  <1>0. Having(H, n) \in SUBSET Stores /\ Having(F, n) \in SUBSET Stores
    BY HavingType
  <1>1. ASSUME NEW i \in Track
        PROVE  Read(i) \in Seq(S) /\ Chain(Safe(B), Read(i), Having(H, n), Having(H, n))
    <2>1. ASSUME NEW j \in Track
          PROVE  Feed(i, j) \in Seq(S) /\ Chain(Safe(B), Feed(i, j), Having(F, n), Having(F, n))
      <3>1. CASE j = i
        BY <1>0, <3>1, ChainNone, JoinedSeqs
      <3>2. CASE j # i
        <4>1. << Maybe(Try({Src(j, i), Frame}, {}, {})) >> \in Seq(S)
          BY RoundTypes, ContextTypes
        <4>2. << Having(F, n), Maybe(Try({Src(j, i), Frame}, {}, {})), Having(F, n) >> \in Safe(B)
          BY <3>2, FrameKnown
        <4>3. Chain(Safe(B), << Maybe(Try({Src(j, i), Frame}, {}, {})) >>,
                    Having(F, n), Having(F, n))
          BY <1>0, <4>2, ChainOfOne
        <4>. QED  BY <3>2, <4>1, <4>3
      <3>. QED  BY <3>1, <3>2
    <2>2. Feeds(i) \in Seq(S) /\ Chain(Safe(B), Feeds(i), Having(F, n), Having(F, n))
      <3>. DEFINE g == [j \in 1..Tracks |-> Feed(i, j)]
      <3>1. g \in [1..Tracks -> Seq(S)] /\ \A j \in 1..Tracks : g[j] = Feed(i, j)
        <4>. HIDE DEF Feed, S
        <4>. QED  BY <2>1, TrackType
      <3>. HIDE DEF g, Feed, S, F
      <3>2. \A j \in 1..Tracks : Chain(Safe(B), g[j], Having(F, n), Having(F, n))
        BY <2>1, <3>1, TrackType
      <3>3. FlattenSeq(g) \in Seq(S) /\ Chain(Safe(B), FlattenSeq(g), Having(F, n), Having(F, n))
        BY <1>0, <3>1, <3>2, JoinedSeqs, TrackType, ChainFlatSame
      <3>. QED  BY <3>3 DEF g
    <2>3. /\ init_input_frame \in Seq(S) /\ decode_audio_frame(i) \in Seq(S)
          /\ << Release({Frame}) >> \in Seq(S)
      BY RoundTypes, ContextTypes
    <2>4. /\ Chain(Safe(B), init_input_frame, Having(H, n), Having(F, n))
          /\ Chain(Safe(B), decode_audio_frame(i), Having(F, n), Having(F, n))
      BY FrameKnown
    <2>. HIDE DEF S, Feeds
    <2>5. /\ init_input_frame \o decode_audio_frame(i) \in Seq(S)
          /\ Chain(Safe(B), init_input_frame \o decode_audio_frame(i), Having(H, n), Having(F, n))
      BY <2>3, <2>4, ChainJoin, Joined
    <2>6. Read(i) \in Seq(S)
      BY <2>2, <2>3, <2>5, Joined
    <2>7. Chain(Safe(B), Read(i), Having(H, n), Having(H, n))
      BY <2>2, <2>3, <2>5, FrameRound
    <2>. QED  BY <2>6, <2>7
  <1>2. ASSUME NEW k \in Track
        PROVE  Pull(k) \in Seq(S) /\ Chain(Safe(B), Pull(k), Having(H, n), Having(H, n))
    <2>1. /\ << Unchecked({}, {Frame}),
               PullSink(k) >> \in Seq(S) /\ encode_audio_frame(k) \in Seq(S)
          /\ << Release({Frame}) >> \in Seq(S)
      BY RoundTypes, ContextTypes
    <2>2. k <= n
      BY TrackType
    <2>3. /\ Chain(Safe(B), << Unchecked({}, {Frame}), PullSink(k) >>, Having(H, n), Having(F, n))
          /\ Chain(Safe(B), encode_audio_frame(k), Having(F, n), Having(F, n))
      BY <2>2, FrameKnown
    <2>. HIDE DEF S
    <2>. QED  BY <2>1, <2>3, FrameRound, Joined
  <1>. HIDE DEF Read, Pull, S
  <1>3. /\ FlattenSeq([i \in 1..Tracks |-> Read(i)]) \in Seq(S)
        /\ Chain(Safe(B), FlattenSeq([i \in 1..Tracks |-> Read(i)]), Having(H, n), Having(H, n))
    <2>. DEFINE g == [i \in 1..Tracks |-> Read(i)]
    <2>1. /\ g \in [1..Tracks -> Seq(S)]
          /\ \A i \in 1..Tracks : Chain(Safe(B), g[i], Having(H, n), Having(H, n))
      BY <1>1, TrackType
    <2>. HIDE DEF g
    <2>2. FlattenSeq(g) \in Seq(S) /\ Chain(Safe(B), FlattenSeq(g), Having(H, n), Having(H, n))
      BY <1>0, <2>1, JoinedSeqs, TrackType, ChainFlatSame
    <2>. QED  BY <2>2 DEF g
  <1>4. /\ FlattenSeq([k \in 1..Tracks |-> Pull(k)]) \in Seq(S)
        /\ Chain(Safe(B), FlattenSeq([k \in 1..Tracks |-> Pull(k)]), Having(H, n), Having(H, n))
    <2>. DEFINE g == [k \in 1..Tracks |-> Pull(k)]
    <2>1. /\ g \in [1..Tracks -> Seq(S)]
          /\ \A k \in 1..Tracks : Chain(Safe(B), g[k], Having(H, n), Having(H, n))
      BY <1>2, TrackType
    <2>. HIDE DEF g
    <2>2. FlattenSeq(g) \in Seq(S) /\ Chain(Safe(B), FlattenSeq(g), Having(H, n), Having(H, n))
      BY <1>0, <2>1, JoinedSeqs, TrackType, ChainFlatSame
    <2>. QED  BY <2>2 DEF g
  <1>5. Rounds = FlattenSeq([i \in 1..Tracks |-> Read(i)])
                 \o FlattenSeq([k \in 1..Tracks |-> Pull(k)])
    BY DEF Rounds, ReadRound, PullRound, ForEach, Read, Pull
  <1>. QED  BY <1>3, <1>4, <1>5, ChainJoin

\* The rounds in which one sink is pulled: n inputs are read, and what comes is
\* encoded m times.
LEMMA OneSinkKnown ==
    ASSUME NEW H \in SUBSET Contexts, Frame \notin H, NEW n \in Nat, 1 <= n, NEW B,
           NEW i \in Nat, NEW o \in Nat, i <= Tracks,
           NEW d \in [1..i -> Seq(Firm(Contexts))], NEW e \in Seq(Firm(Contexts)),
           \A k \in 1..i : Src(1, k) \in H,
           \A k \in 1..i : Chain(Safe(B), d[k], Having(H, n), Having(H \cup {Frame}, n)),
           Chain(Safe(B), e, Having(H \cup {Frame}, n), Having(H \cup {Frame}, n))
    PROVE  Chain(Safe(B),
                 ((FlattenSeq([k \in 1..i |->
                     d[k] \o << Maybe(Try({Src(1, k), Frame}, {}, {})), Release({Frame}) >>])
                   \o << Unchecked({}, {Frame}), PullSink(1) >>) \o e) \o << Release({Frame}) >>,
                 Having(H, n), Having(H, n))
  <1>. DEFINE S == Firm(Contexts)
              F == H \cup {Frame}
              Read(k) == d[k] \o << Maybe(Try({Src(1, k), Frame}, {}, {})), Release({Frame}) >>
              g == [k \in 1..i |-> Read(k)]
              p == << Unchecked({}, {Frame}), PullSink(1) >>
  <1>0. Having(H, n) \in SUBSET Stores /\ Having(F, n) \in SUBSET Stores
    BY HavingType
  <1>1. ASSUME NEW k \in 1..i
        PROVE  Read(k) \in Seq(S) /\ Chain(Safe(B), Read(k), Having(H, n), Having(H, n))
    <2>0. k \in Track /\ 1 \in Track /\ Src(1, k) \in H
      BY TrackType
    <2>. DEFINE a == Maybe(Try({Src(1, k), Frame}, {}, {}))
                z == Release({Frame})
    <2>1. a \in S /\ z \in S
      BY <2>0, StepTypes, ContextTypes
    <2>2. << Having(F, n), a, Having(F, n) >> \in Safe(B)
      BY <2>0, FrameKnown
    <2>. HIDE DEF a
    <2>3. << Having(F, n), z, Having(H, n) >> \in Safe(B)
      BY FrameKnown
    <2>4. << a, z >> \in Seq(S)
      <3>. HIDE DEF S, z
      <3>. QED  BY <2>1
    <2>. HIDE DEF z, S, F
    <2>5. Chain(Safe(B), << a, z >>, Having(F, n), Having(H, n))
      BY <1>0, <2>2, <2>3, ChainOf2
    <2>6. d[k] \in Seq(S) /\ Chain(Safe(B), d[k], Having(H, n), Having(F, n))
      BY DEF S, F
    <2>8. Chain(Safe(B), d[k] \o << a, z >>, Having(H, n), Having(H, n))
          /\ d[k] \o << a, z >> \in Seq(S)
      BY <2>4, <2>5, <2>6, ChainJoin, Joined
    <2>. QED  BY <2>8 DEF a, z, S
  <1>2. /\ p \in Seq(S) /\ << Release({Frame}) >> \in Seq(S)
        /\ Chain(Safe(B), p, Having(H, n), Having(F, n))
    <2>1. 1 \in Track
      BY TrackType
    <2>. QED  BY <2>1, RoundTypes, ContextTypes, FrameKnown
  <1>3. FlattenSeq(g) \in Seq(S) /\ Chain(Safe(B), FlattenSeq(g), Having(H, n), Having(H, n))
    <2>1. /\ g \in [1..i -> Seq(S)]
          /\ \A k \in 1..i : Chain(Safe(B), g[k], Having(H, n), Having(H, n))
      <3>. HIDE DEF Read, S
      <3>. QED  BY <1>1
    <2>. HIDE DEF g, S
    <2>. QED  BY <1>0, <2>1, JoinedSeqs, ChainFlatSame
  <1>. HIDE DEF g, p
  <1>4. /\ FlattenSeq(g) \o p \in Seq(S)
        /\ Chain(Safe(B), FlattenSeq(g) \o p, Having(H, n), Having(F, n))
    <2>. HIDE DEF S, F
    <2>. QED  BY <1>2, <1>3, ChainJoin, Joined
  <1>5. Chain(Safe(B), ((FlattenSeq(g) \o p) \o e) \o << Release({Frame}) >>, Having(H, n),
          Having(H, n))
    BY <1>2, <1>4, FrameRound
  <1>. QED  BY <1>5 DEF g, p

-----------------------------------------------------------------------------
(* What the calls of the mixers make known                                 *)

\* A step that is defined is one that need not be.
LEMMA TakesLess ==
    ASSUME NEW H, NEW E, NEW B, NEW b, NEW P, NEW Q, Chain(Takes(E, B), b, P, Q)
    PROVE  Chain(TakesBut(H, E, B), b, P, Q)
  <1>1. Takes(E, B) \subseteq TakesBut(H, E, B)
    BY DEF Takes, TakesBut
  <1>. QED  BY <1>1 DEF Chain, Along

\* A call, whatever an error leads to.  A loop keeps what it starts with.
LEMMA CallHoles ==
    ASSUME NEW p, NEW T, NEW nm \in Names, NEW e \in {"exit", "ignore", "cleanup"}, NEW E,
           NEW b \in Seq(Steps), NEW P \in SUBSET Stores, NEW Q \in SUBSET Stores,
           E = IF e = "cleanup" THEN T
               ELSE IF e = "ignore" /\ nm \in FoundOutLater THEN Q ELSE Stores,
           nm = "end" => T \subseteq P,
           \A m \in 1..Len(b) : b[m].failure = "unnoticed" => nm \notin FoundOutLater
    PROVE  /\ Chain(TakesBut(HolesIn(p, nm), E, Q), b, P, Q) =>
                << P, Call(nm, b, e), Q >> \in CallRel(p, T)
           /\ P \subseteq Q /\ Chain(TakesBut(HolesIn(p, nm), E, Q), b, P, P) =>
                << P, Loop(nm, b, e), Q >> \in CallRel(p, T)
  <1>. DEFINE R == TakesBut(HolesIn(p, nm), E, Q)
  <1>1. ASSUME NEW c \in Calls(Steps), c.name = nm, c.body = b, c.onerror = e,
               IF c.again THEN P \subseteq Q /\ Chain(R, b, P, P) ELSE Chain(R, b, P, Q)
        PROVE  << P, c, Q >> \in CallRel(p, T)
    <2>1. ErrorTo(c, Q, T) = E
      BY <1>1 DEF ErrorTo
    <2>2. \E g : Follows(p, c, g, P, Q, T)
      BY <1>1, <2>1 DEF Chain, Follows
    <2>. QED  BY <1>1, <2>2 DEF CallRel
  <1>2. /\ Call(nm, b, e) \in Calls(Steps) /\ Loop(nm, b, e) \in Calls(Steps)
        /\ Call(nm, b, e).name = nm /\ Loop(nm, b, e).name = nm
        /\ Call(nm, b, e).onerror = e /\ Loop(nm, b, e).onerror = e
        /\ ~Call(nm, b, e).again /\ Call(nm, b, e).body = b
        /\ Loop(nm, b, e).body = b
    BY CallTypes
  <1>3. Loop(nm, b, e).again
    BY DEF Loop, Call
  <1>. QED  BY <1>1, <1>2, <1>3

\* A call whose error ends the process, is printed, or goes to a label end that
\* needs nothing.
LEMMA CallKnown ==
    ASSUME NEW p, NEW T, NEW nm \in Names,
           NEW e \in {"exit", "ignore", "cleanup"}, e = "cleanup" => T = Stores,
           e = "ignore" => nm \notin FoundOutLater,
           NEW b \in Seq(Steps), NEW P \in SUBSET Stores, NEW Q \in SUBSET Stores,
           nm = "end" => T \subseteq P,
           \A m \in 1..Len(b) : b[m].failure = "unnoticed" => nm \notin FoundOutLater,
           Chain(Safe(Q), b, P, Q)
    PROVE  /\ << P, Call(nm, b, e), Q >> \in CallRel(p, T)
           /\ P = Q => << P, Loop(nm, b, e), Q >> \in CallRel(p, T)
  <1>1. Chain(TakesBut(HolesIn(p, nm), Stores, Q), b, P, Q)
    BY TakesLess DEF Safe
  <1>2. Stores = IF e = "cleanup" THEN T
                 ELSE IF e = "ignore" /\ nm \in FoundOutLater THEN Q ELSE Stores
    OBVIOUS
  <1>. QED  BY <1>1, <1>2, CallHoles

\* A chain through the calls of a program is a plan.
LEMMA PlannedFrom ==
    ASSUME NEW p \in Program, NEW T \in SUBSET Stores, NEW P, NEW Q,
           Chain(CallRel(p, T), Code[p], P, Q), << NothingOpen, 0 >> \in P,
           T = {} \/ (Len(Code[p]) > 0 /\ Code[p][Len(Code[p])].name = "end")
    PROVE  \E t, h : Planned(p, t, h)
  BY DEF Planned, Chain

\* All pointers are NULL when main begins.
LEMMA NothingAtFirst == << NothingOpen, 0 >> \in Having({}, 0)
  <1>1. << NothingOpen, 0 >>[1] = NothingOpen /\ << NothingOpen, 0 >>[2] = 0
    OBVIOUS
  <1>2. NothingOpen \in [Contexts -> PointerStates] /\ \A c \in Contexts : NothingOpen[c] = "null"
    BY DEF NothingOpen, PointerStates
  <1>3. << NothingOpen, 0 >> \in Stores
    BY <1>2 DEF Stores
  <1>. QED  BY <1>1, <1>3 DEF Having, Known

\* What the mixers have opened after i inputs, k graphs, and i outputs.
Inputs(i) == UNION {{In(j), Dec(j)} : j \in 1..i}
GraphSet(ins, k) == UNION {Graphs(j, ins[j]) \cup {Sink(j)} : j \in 1..k}
Outputs(i) == UNION {{Io(j), Out(j), Enc(j), Muxer(j)} : j \in 1..i}
Opened(ins, n, m) == (Inputs(Tracks) \cup GraphSet(ins, n)) \cup Outputs(m)

\* What one more input or output adds.
LEMMA TrackSets ==
    /\ \A i \in 0..Tracks : /\ Inputs(i) \in SUBSET Contexts /\ Frame \notin Inputs(i)
                            /\ Outputs(i) \in SUBSET Contexts /\ Frame \notin Outputs(i)
    /\ Inputs(0) = {} /\ Outputs(0) = {}
    /\ \A i \in 1..Tracks : /\ Inputs(i) = Inputs(i - 1) \cup {In(i), Dec(i)}
                            /\ Outputs(i) = Outputs(i - 1) \cup {Io(i), Out(i), Enc(i), Muxer(i)}
  <1>0. /\ \A i \in 0..Tracks : \A j \in 1..i : j \in Track
        /\ \A i \in 1..Tracks : 1..i = 1..(i - 1) \cup {i}
        /\ 1..0 = {}
    BY TrackType
  <1>1. ASSUME NEW i \in 0..Tracks
        PROVE  Inputs(i) \in SUBSET Contexts /\ Outputs(i) \in SUBSET Contexts
               /\ Frame \notin Inputs(i) /\ Frame \notin Outputs(i)
    <2>1. Inputs(i) \in SUBSET Contexts /\ Outputs(i) \in SUBSET Contexts
      BY <1>0, ContextTypes DEF Inputs, Outputs
    <2>2. Frame[1] = "data" /\ \A j : /\ In(j)[1] = "in" /\ Dec(j)[1] = "dec" /\ Io(j)[1] = "io"
                                      /\ Out(j)[1] = "out" /\ Enc(j)[1] = "enc" /\ Muxer(j)[1] = "muxer"
      BY DEF Frame, Data, In, Dec, Io, Out, Enc, Muxer
    <2>. QED  BY <2>1, <2>2 DEF Inputs, Outputs
  <1>2. Inputs(0) = {} /\ Outputs(0) = {}
    BY <1>0 DEF Inputs, Outputs
  <1>3. \A i \in 1..Tracks : /\ Inputs(i) = Inputs(i - 1) \cup {In(i), Dec(i)}
                             /\ Outputs(i) = Outputs(i - 1) \cup {Io(i), Out(i), Enc(i), Muxer(i)}
    BY <1>0 DEF Inputs, Outputs
  <1>. QED  BY <1>1, <1>2, <1>3

\* What one more graph adds.
LEMMA GraphSets ==
    ASSUME NEW n \in 0..Tracks, NEW ins \in [1..n -> SUBSET Track]
    PROVE  /\ \A k \in 0..n : GraphSet(ins, k) \in SUBSET Contexts /\ Frame \notin GraphSet(ins, k)
           /\ \A m \in 0..Tracks : Opened(ins, n,
               m) \in SUBSET Contexts /\ Frame \notin Opened(ins, n, m)
           /\ GraphSet(ins, 0) = {}
           /\ \A k \in 1..n : GraphSet(ins, k) = GraphSet(ins, k - 1) \cup (Graphs(k,
               ins[k]) \cup {Sink(k)})
  <1>0. /\ \A k \in 0..n : \A j \in 1..k : j \in Track /\ j \in 1..n
        /\ \A i \in 1..n : 1..i = 1..(i - 1) \cup {i}
        /\ 1..0 = {} /\ n \in 0..n
    BY TrackType
  <1>2. ASSUME NEW k \in 0..n PROVE GraphSet(ins,
               k) \in SUBSET Contexts /\ Frame \notin GraphSet(ins, k)
    <2>1. \A j \in 1..k : ins[j] \in SUBSET Track
      BY <1>0
    <2>2. GraphSet(ins, k) \in SUBSET Contexts
      BY <1>0, <2>1, ContextTypes DEF GraphSet, Graphs
    <2>3. Frame[1] = "data" /\ \A j : Graph(j)[1] = "graph" /\ Sink(j)[1] = "sink"
          /\ \A i : Src(j, i)[1] = "src"
      BY DEF Frame, Data, Graph, Sink, Src
    <2>. QED  BY <2>2, <2>3 DEF GraphSet, Graphs
  <1>3. \A m \in 0..Tracks : Opened(ins, n, m) \in SUBSET Contexts /\ Frame \notin Opened(ins, n, m)
    <2>1. Tracks \in 0..Tracks
      BY TrackType
    <2>. QED  BY <1>0, TrackSets, <1>2, <2>1 DEF Opened
  <1>4. GraphSet(ins, 0) = {}
    BY <1>0 DEF GraphSet
  <1>6. \A k \in 1..n : GraphSet(ins, k) = GraphSet(ins, k - 1) \cup (Graphs(k,
          ins[k]) \cup {Sink(k)})
    BY <1>0 DEF GraphSet
  <1>. QED  BY <1>2, <1>3, <1>4, <1>6

\* The inputs are opened one after the other.
LEMMA InputsKnown ==
    ASSUME NEW p, NEW T, NEW n \in 0..Tracks, NEW o \in [1..n -> Seq(Firm(Contexts))],
           NEW e \in {"exit", "ignore"},
           \A i \in 1..n : \A H \in SUBSET Contexts : \A B :
             Chain(Safe(B), o[i], Having(H, 0), Having(H \cup {In(i), Dec(i)}, 0))
    PROVE  Chain(CallRel(p, T),
                 FlattenSeq([i \in 1..n |->
                     << Call("open_input_file", o[i], e),
                        Call("av_dump_format", << Sure({In(i)}, {}) >>, "exit") >>]),
                 Having({}, 0), Having(Inputs(n), 0))
  <1>. DEFINE C == Calls(Steps)
              a(i) == Call("open_input_file", o[i], e)
              d(i) == Call("av_dump_format", << Sure({In(i)}, {}) >>, "exit")
              g == [i \in 1..n |-> << a(i), d(i) >>]
              A == [i \in 0..n |-> Having(Inputs(i), 0)]
  <1>0. n \in Nat /\ 1..n \subseteq Track /\ 0..n \subseteq 0..Tracks
        /\ Firm(Contexts) \subseteq Steps /\ Firm(Contexts) \subseteq Quiet(Contexts)
    BY TrackType, FirmSubset
  <1>1. /\ \A i \in 0..n : Inputs(i) \in SUBSET Contexts
        /\ \A i \in 1..n : Inputs(i) = Inputs(i - 1) \cup {In(i), Dec(i)}
        /\ Inputs(0) = {}
    <2>1. \A i \in 1..n : i \in 1..Tracks
      BY TrackType
    <2>. QED  BY <1>0, <2>1, TrackSets
  <1>2. ASSUME NEW i \in 1..n
        PROVE  /\ a(i) \in C /\ d(i) \in C
               /\ Chain(CallRel(p, T), g[i], Having(Inputs(i - 1), 0), Having(Inputs(i), 0))
    <2>. DEFINE P == Having(Inputs(i - 1), 0)
                Q == Having(Inputs(i), 0)
    <2>0. i - 1 \in 0..n /\ i \in 0..n /\ i \in Track
      BY <1>0
    <2>1. P \in SUBSET Stores /\ Q \in SUBSET Stores
      BY HavingType
    <2>2. o[i] \in Seq(Steps) /\ << Sure({In(i)}, {}) >> \in Seq(Steps)
      <3>1. Sure({In(i)}, {}) \in Firm(Contexts)
        BY <2>0, StepTypes, ContextTypes
      <3>2. o[i] \in Seq(Firm(Contexts))
        OBVIOUS
      <3>. QED  BY <1>0, <3>1, <3>2
    <2>3. Chain(Safe(Q), o[i], P, Q)
      BY <1>1, <2>0
    <2>4. Chain(Safe(Q), << Sure({In(i)}, {}) >>, Q, Q)
      <3>1. Inputs(i) \in SUBSET Contexts /\ {In(i)} \in SUBSET Inputs(i)
        BY <1>1, <2>0
      <3>2. << Q, Sure({In(i)}, {}), Q >> \in Safe(Q)
        BY <3>1, Opens DEF Safe
      <3>. QED  BY <2>1, <3>2, ChainOfOne
    <2>. HIDE DEF P, Q
    <2>5. << P, a(i), Q >> \in CallRel(p, T)
      BY <2>1, <2>2, <2>3, CallKnown DEF Names, FoundOutLater
    <2>6. << Q, d(i), Q >> \in CallRel(p, T)
      BY <2>1, <2>2, <2>4, CallKnown DEF Names, FoundOutLater
    <2>7. a(i) \in C /\ d(i) \in C
      <3>1. "open_input_file" \in Names /\ "av_dump_format" \in Names
            /\ e \in {"exit", "ignore", "cleanup"}
        BY DEF Names
      <3>. QED  BY <2>2, <3>1, CallTypes, ZenonT(40)
    <2>. HIDE DEF a, d, C
    <2>8. Chain(CallRel(p, T), << a(i), d(i) >>, P, Q)
      BY <2>1, <2>5, <2>6, ChainOf2
    <2>. QED  BY <2>7, <2>8 DEF P, Q
  <1>3. g \in [1..n -> Seq(C)]
    <2>. HIDE DEF a, d, C
    <2>1. \A i \in 1..n : a(i) \in C /\ d(i) \in C
      BY <1>2
    <2>. QED  BY <2>1
  <1>4. /\ A \in [0..n -> SUBSET Stores] /\ A[0] = Having({}, 0) /\ A[n] = Having(Inputs(n), 0)
        /\ \A i \in 1..n : A[i - 1] = Having(Inputs(i - 1), 0) /\ A[i] = Having(Inputs(i), 0)
    <2>1. \A i \in 1..n : i - 1 \in 0..n /\ i \in 0..n
      BY <1>0
    <2>2. 0 \in 0..n /\ n \in 0..n
      BY <1>0
    <2>. QED  BY <1>1, <2>1, <2>2, HavingType
  <1>. HIDE DEF A, C
  <1>5. \A i \in 1..n : Chain(CallRel(p, T), g[i], A[i - 1], A[i])
    BY <1>2, <1>4
  <1>. HIDE DEF g
  <1>6. Chain(CallRel(p, T), FlattenSeq(g), A[0], A[n])
    BY <1>0, <1>3, <1>4, <1>5, ChainFlat
  <1>. QED  BY <1>4, <1>6 DEF g

\* The graphs are made one after the other, each with its sink.
LEMMA GraphsKnown ==
    ASSUME NEW p, NEW T, NEW n \in 0..Tracks, NEW ins \in [1..n -> SUBSET Track],
           NEW o \in [1..n -> Seq(Firm(Contexts))],
           \A k \in 1..n : o[k] = MakeGraph(k, ins[k])
    PROVE  Chain(CallRel(p, T),
                 FlattenSeq([k \in 1..n |->
                     << Call("init_filter_graph", o[k] \o << PushSink(k) >>, "ignore") >>]),
                 Having(Inputs(Tracks), 0), Having(Inputs(Tracks) \cup GraphSet(ins, n), n))
  <1>. DEFINE C == Calls(Steps)
              I == Inputs(Tracks)
              a(k) == Call("init_filter_graph", o[k] \o << PushSink(k) >>, "ignore")
              g == [k \in 1..n |-> << a(k) >>]
              A == [k \in 0..n |-> Having(I \cup GraphSet(ins, k), k)]
  <1>0. n \in Nat /\ 1..n \subseteq Track /\ 0..n \subseteq 0..Tracks /\ Tracks \in 0..Tracks
        /\ Firm(Contexts) \subseteq Steps
    BY TrackType, FirmSubset
  <1>1. I \in SUBSET Contexts /\ \A i \in Track : Dec(i) \in I
    <2>1. I \in SUBSET Contexts
      BY <1>0, TrackSets
    <2>. QED  BY <2>1, TrackType DEF Inputs
  <1>2. ASSUME NEW k \in 1..n
        PROVE  /\ a(k) \in C
               /\ Chain(CallRel(p, T), << a(k) >>, Having(I \cup GraphSet(ins, k - 1), k - 1),
                                                   Having(I \cup GraphSet(ins, k), k))
    <2>. DEFINE H == I \cup GraphSet(ins, k - 1)
                G == H \cup Graphs(k, ins[k])
                F == I \cup GraphSet(ins, k)
                b == o[k] \o << PushSink(k) >>
    <2>0. /\ k - 1 \in 0..n /\ k \in 0..n /\ k \in Track /\ k - 1 \in Nat /\ (k - 1) + 1 = k
          /\ ins[k] \in SUBSET Track
      BY <1>0
    <2>1. /\ H \in SUBSET Contexts /\ F \in SUBSET Contexts /\ F = G \cup {Sink(k)}
          /\ G \in SUBSET Contexts /\ \A i \in ins[k] : Dec(i) \in H
      <3>1. H \in SUBSET Contexts /\ F \in SUBSET Contexts /\ F = G \cup {Sink(k)}
        <4>1. /\ GraphSet(ins, k) = GraphSet(ins, k - 1) \cup (Graphs(k, ins[k]) \cup {Sink(k)})
              /\ GraphSet(ins, k) \in SUBSET Contexts /\ GraphSet(ins, k - 1) \in SUBSET Contexts
          BY <2>0, GraphSets
        <4>. HIDE DEF I
        <4>. QED  BY <1>1, <4>1
      <3>. QED  BY <1>1, <2>0, <3>1
    <2>2. Having(H, k - 1) \in SUBSET Stores /\ Having(G, k - 1) \in SUBSET Stores
          /\ Having(F, k) \in SUBSET Stores
      BY HavingType
    <2>3. Graph(k) \in G
      BY DEF Graphs
    <2>4. o[k] \in Seq(Steps) /\ PushSink(k) \in Steps
      <3>1. o[k] \in Seq(Firm(Contexts))
        OBVIOUS
      <3>2. PushSink(k) \in Steps
        BY <2>0, PushSinkType
      <3>. QED  BY <1>0, <3>1, <3>2
    <2>. DEFINE P == Having(H, k - 1)
                Q == Having(F, k)
                M == Having(G, k - 1)
    <2>. HIDE DEF H, F
    <2>5. Chain(Safe(Q), o[k], P, M)
      BY <2>0, <2>1, GraphKnown
    <2>6. << M, PushSink(k), Q >> \in Safe(Q)
      <3>. HIDE DEF G
      <3>1. << Having(G, k - 1), PushSink(k), Having(G \cup {Sink(k)}, (k - 1) + 1) >> \in Safe(Q)
        BY <2>0, <2>1, <2>3, SinkSteps DEF Safe
      <3>. QED  BY <2>0, <2>1, <3>1
    <2>. HIDE DEF P, Q, M
    <2>7. P \in SUBSET Stores /\ Q \in SUBSET Stores /\ M \in SUBSET Stores
      BY <2>2 DEF P, Q, M
    <2>8. Chain(Safe(Q), b, P, Q)
      BY <2>4, <2>5, <2>6, <2>7, ChainAppend
    <2>9. b \in Seq(Steps)
      BY <2>4
    <2>10. \A m \in 1..Len(b) : "init_filter_graph" \notin FoundOutLater
      BY DEF FoundOutLater
    <2>. HIDE DEF b
    <2>11. << P, Call("init_filter_graph", b, "ignore"), Q >> \in CallRel(p, T)
      BY <2>7, <2>8, <2>9, <2>10, CallKnown DEF Names, FoundOutLater
    <2>12. a(k) \in C
      <3>1. "init_filter_graph" \in Names /\ "ignore" \in {"exit", "ignore", "cleanup"}
        BY DEF Names
      <3>. QED  BY <2>9, <3>1, CallTypes DEF b
    <2>. HIDE DEF C
    <2>13. Chain(CallRel(p, T), << a(k) >>, P, Q)
      BY <2>7, <2>11, ChainOfOne DEF b
    <2>. QED  BY <2>12, <2>13 DEF P, Q, H, F
  <1>. HIDE DEF a, C
  <1>3. g \in [1..n -> Seq(C)]
    <2>1. \A k \in 1..n : a(k) \in C
      BY <1>2
    <2>. QED  BY <2>1
  <1>4. /\ A \in [0..n -> SUBSET Stores] /\ A[0] = Having(I, 0)
        /\ A[n] = Having(I \cup GraphSet(ins, n), n)
        /\ \A k \in 1..n : /\ A[k - 1] = Having(I \cup GraphSet(ins, k - 1), k - 1)
                           /\ A[k] = Having(I \cup GraphSet(ins, k), k)
    <2>1. \A k \in 1..n : k - 1 \in 0..n /\ k \in 0..n
      BY <1>0
    <2>2. 0 \in 0..n /\ n \in 0..n /\ I \cup GraphSet(ins, 0) = I
      BY <1>0, GraphSets
    <2>. HIDE DEF I
    <2>. QED  BY <2>1, <2>2, HavingType
  <1>5. \A k \in 1..n : Chain(CallRel(p, T), g[k], A[k - 1], A[k])
    <2>. HIDE DEF A, I
    <2>1. \A k \in 1..n : g[k] = << a(k) >>
      OBVIOUS
    <2>. HIDE DEF g
    <2>. QED  BY <1>2, <1>4, <2>1
  <1>. HIDE DEF A, g
  <1>6. Chain(CallRel(p, T), FlattenSeq(g), A[0], A[n])
    BY <1>0, <1>3, <1>4, <1>5, ChainFlat
  <1>. QED  BY <1>4, <1>6 DEF g, a

\* The outputs are opened one after the other, and their headers are written.
LEMMA OutputsKnown ==
    ASSUME NEW p, NEW T, NEW n \in 0..Tracks, NEW o \in [1..n -> Seq(Firm(Contexts))],
           NEW e \in {"exit", "ignore"}, NEW dump \in BOOLEAN,
           NEW H \in SUBSET Contexts, NEW s \in Nat, \A i \in 1..n : {In(i), Dec(i)} \subseteq H,
           \A i \in 1..n : \E uses \in SUBSET {In(i), Out(i)} : o[i] = OpenOutput(i, uses)
    PROVE  Chain(CallRel(p, T),
                 FlattenSeq([i \in 1..n |->
                     << Call("open_output_file", o[i], "ignore"),
                        Call("av_dump_format",
                             IF dump THEN << Sure({Out(i)}, {}) >> ELSE << >>, "exit"),
                        Call("write_output_file_header", write_output_file_header(i), e) >>]),
                 Having(H, s), Having(H \cup Outputs(n), s))
  <1>. DEFINE C == Calls(Steps)
              D(i) == IF dump THEN << Sure({Out(i)}, {}) >> ELSE << >>
              a(i) == Call("open_output_file", o[i], "ignore")
              d(i) == Call("av_dump_format", D(i), "exit")
              h(i) == Call("write_output_file_header", write_output_file_header(i), e)
              g == [i \in 1..n |-> << a(i), d(i), h(i) >>]
              A == [i \in 0..n |-> Having(H \cup Outputs(i), s)]
  <1>0. n \in Nat /\ 1..n \subseteq Track /\ 0..n \subseteq 0..Tracks /\ 1..n \subseteq 1..Tracks
        /\ Firm(Contexts) \subseteq Steps
    BY TrackType, FirmSubset
  <1>1. /\ \A i \in 0..n : Outputs(i) \in SUBSET Contexts
        /\ \A i \in 1..n : Outputs(i) = Outputs(i - 1) \cup {Io(i), Out(i), Enc(i), Muxer(i)}
        /\ Outputs(0) = {}
    BY <1>0, TrackSets
  <1>2. ASSUME NEW i \in 1..n
        PROVE  /\ a(i) \in C /\ d(i) \in C /\ h(i) \in C
               /\ Chain(CallRel(p, T), << a(i), d(i), h(i) >>,
                        Having(H \cup Outputs(i - 1), s), Having(H \cup Outputs(i), s))
    <2>. DEFINE X == H \cup Outputs(i - 1)
                Y == X \cup {Io(i), Out(i), Enc(i)}
                Z == H \cup Outputs(i)
                P == Having(X, s)
                M == Having(Y, s)
                Q == Having(Z, s)
    <2>0. i - 1 \in 0..n /\ i \in 0..n /\ i \in Track
      BY <1>0
    <2>1. /\ X \in SUBSET Contexts /\ Y \in SUBSET Contexts /\ Z = Y \cup {Muxer(i)}
          /\ Out(i) \in Y /\ {In(i), Dec(i)} \subseteq X
      BY <1>1, <2>0, ContextTypes
    <2>2. P \in SUBSET Stores /\ Q \in SUBSET Stores /\ M \in SUBSET Stores
      BY HavingType
    <2>3. /\ o[i] \in Seq(Steps) /\ D(i) \in Seq(Steps)
          /\ write_output_file_header(i) \in Seq(Steps)
      <3>1. Sure({Out(i)}, {}) \in Firm(Contexts)
        BY <2>0, StepTypes, ContextTypes
      <3>2. o[i] \in Seq(Firm(Contexts)) /\ write_output_file_header(i) \in Seq(Firm(Contexts))
        BY <2>0, OutputTypes, ContextTypes
      <3>. QED  BY <1>0, <3>1, <3>2
    <2>4. Chain(Safe(M), o[i], P, M)
      <3>1. PICK uses \in SUBSET {In(i), Out(i)} : o[i] = OpenOutput(i, uses)
        OBVIOUS
      <3>2. uses \in SUBSET (X \cup {Out(i)}) /\ Dec(i) \in X
        BY <2>1
      <3>. HIDE DEF X
      <3>3. Chain(Safe(M), OpenOutput(i, uses), Having(X, s), Having(X \cup {Io(i), Out(i),
              Enc(i)}, s))
        <4>. HIDE DEF M
        <4>. QED  BY <2>0, <2>1, <3>2, OutputKnown
      <3>. QED  BY <3>1, <3>3
    <2>5. Chain(Safe(M), D(i), M, M)
      <3>1. << M, Sure({Out(i)}, {}), M >> \in Safe(M)
        <4>. HIDE DEF Y
        <4>. QED  BY <2>1, Opens DEF Safe
      <3>. HIDE DEF M
      <3>2. Chain(Safe(M), << Sure({Out(i)}, {}) >>, M, M) /\ Chain(Safe(M), << >>, M, M)
        BY <2>2, <3>1, ChainOfOne, ChainNone
      <3>. QED  BY <3>2
    <2>6. Chain(Safe(Q), write_output_file_header(i), M, Q)
      <3>. HIDE DEF Y, Z
      <3>. QED  BY <2>0, <2>1, OutputKnown
    <2>. HIDE DEF P, Q, M, D
    <2>7. << P, a(i), M >> \in CallRel(p, T)
      BY <2>2, <2>3, <2>4, CallKnown DEF Names, FoundOutLater
    <2>8. << M, d(i), M >> \in CallRel(p, T)
      BY <2>2, <2>3, <2>5, CallKnown DEF Names, FoundOutLater
    <2>9. << M, h(i), Q >> \in CallRel(p, T)
      BY <2>2, <2>3, <2>6, CallKnown DEF Names, FoundOutLater
    <2>10. a(i) \in C /\ d(i) \in C /\ h(i) \in C
      <3>1. "open_output_file" \in Names /\ "av_dump_format" \in Names
            /\ "write_output_file_header" \in Names /\ e \in {"exit", "ignore", "cleanup"}
        BY DEF Names
      <3>. QED  BY <2>3, <3>1, CallTypes
    <2>. HIDE DEF a, d, h, C
    <2>11. Chain(CallRel(p, T), << a(i), d(i), h(i) >>, P, Q)
      BY <2>2, <2>7, <2>8, <2>9, ChainOf3
    <2>. QED  BY <2>10, <2>11 DEF P, Q
  <1>. HIDE DEF a, d, h, C
  <1>3. g \in [1..n -> Seq(C)]
    <2>1. \A i \in 1..n : a(i) \in C /\ d(i) \in C /\ h(i) \in C
      BY <1>2
    <2>. QED  BY <2>1
  <1>4. /\ A \in [0..n -> SUBSET Stores] /\ A[0] = Having(H, s) /\ A[n] = Having(H \cup Outputs(n),
             s)
        /\ \A i \in 1..n : /\ A[i - 1] = Having(H \cup Outputs(i - 1), s)
                           /\ A[i] = Having(H \cup Outputs(i), s)
    <2>1. \A i \in 1..n : i - 1 \in 0..n /\ i \in 0..n
      BY <1>0
    <2>2. 0 \in 0..n /\ n \in 0..n /\ H \cup Outputs(0) = H
      BY <1>0, <1>1
    <2>. QED  BY <2>1, <2>2, HavingType
  <1>5. \A i \in 1..n : Chain(CallRel(p, T), g[i], A[i - 1], A[i])
    <2>. HIDE DEF A
    <2>1. \A i \in 1..n : g[i] = << a(i), d(i), h(i) >>
      OBVIOUS
    <2>. HIDE DEF g
    <2>. QED  BY <1>2, <1>4, <2>1
  <1>. HIDE DEF A, g
  <1>6. Chain(CallRel(p, T), FlattenSeq(g), A[0], A[n])
    BY <1>0, <1>3, <1>4, <1>5, ChainFlat
  <1>. QED  BY <1>4, <1>6 DEF g, a, d, h, D

\* The inputs o, the graphs g of the inputs ins, the outputs w and the rounds fit
\* each other.
MixerFits(o, g, w, ins, n, m, rounds) ==
    /\ \A i \in Track : \A H \in SUBSET Contexts : \A B :
         Chain(Safe(B), o[i], Having(H, 0), Having(H \cup {In(i), Dec(i)}, 0))
    /\ \A k \in 1..n : g[k] = MakeGraph(k, ins[k])
    /\ \A i \in 1..m : \E uses \in SUBSET {In(i), Out(i)} : w[i] = OpenOutput(i, uses)
    /\ \A B : Chain(Safe(B), rounds, Having(Opened(ins, n, m), n), Having(Opened(ins, n, m), n))

\* A mixer whose parts fit each other is planned.
LEMMA MixerKnown ==
    ASSUME NEW p \in Program, NEW n \in 0..Tracks, NEW m \in 0..Tracks,
           NEW o \in [1..Tracks -> Seq(Firm(Contexts))],
           NEW g \in [1..n -> Seq(Firm(Contexts))],
           NEW w \in [1..m -> Seq(Firm(Contexts))], NEW ins \in [1..n -> SUBSET Track],
           NEW ei \in {"exit", "ignore"}, NEW eo \in {"exit", "ignore"}, NEW dump \in BOOLEAN,
           NEW rounds \in Seq(Firm(Contexts)),
           MixerFits(o, g, w, ins, n, m, rounds),
           Code[p] = MixerText(o, ei, g, w, dump, eo, rounds)
    PROVE  \E t, h : Planned(p, t, h)
  <1>. DEFINE C == Calls(Steps)
              K == CallRel(p, {})
              i == FlattenSeq([j \in 1..Tracks |->
                     << Call("open_input_file", o[j], ei),
                        Call("av_dump_format", << Sure({In(j)}, {}) >>, "exit") >>])
              b == FlattenSeq([k \in 1..n |->
                     << Call("init_filter_graph", g[k] \o << PushSink(k) >>, "ignore") >>])
              c == FlattenSeq([j \in 1..m |->
                     << Call("open_output_file", w[j], "ignore"),
                        Call("av_dump_format",
                             IF dump THEN << Sure({Out(j)}, {}) >> ELSE << >>, "exit"),
                        Call("write_output_file_header", write_output_file_header(j), eo) >>])
              r == << Loop("process_all", rounds, "exit") >>
              P1 == Having(Inputs(Tracks), 0)
              P2 == Having(Inputs(Tracks) \cup GraphSet(ins, n), n)
              P3 == Having(Opened(ins, n, m), n)
  <1>f. /\ \A j \in Track : \A H \in SUBSET Contexts : \A B :
             Chain(Safe(B), o[j], Having(H, 0), Having(H \cup {In(j), Dec(j)}, 0))
        /\ \A k \in 1..n : g[k] = MakeGraph(k, ins[k])
        /\ \A j \in 1..m : \E uses \in SUBSET {In(j), Out(j)} : w[j] = OpenOutput(j, uses)
        /\ \A B : Chain(Safe(B), rounds, P3, P3)
    BY DEF MixerFits
  <1>. USE <1>f
  <1>0. Tracks \in 0..Tracks /\ 1..Tracks = Track /\ 1..m \subseteq Track /\ n \in Nat /\ n \in 0..n
    BY TrackType
  <1>1. i \in Seq(C) /\ b \in Seq(C) /\ c \in Seq(C) /\ r \in Seq(C)
    <2>1. MixerCall \subseteq C
      BY DEF MixerCall, PlainCall, Calls, Quiet
    <2>2. i \in Seq(MixerCall) /\ c \in Seq(MixerCall)
      BY <1>0, InputCalls, OutputCalls, ZenonT(40)
    <2>3. r \in Seq(MixerCall)
      <3>1. Loop("process_all", rounds, "exit") \in MixerCall
        BY MixerCallType DEF Names
      <3>. QED  BY <3>1
    <2>4. b \in Seq(C)
      BY GraphCalls
    <2>. HIDE DEF C, i, b, c, r
    <2>. QED  BY <2>1, <2>2, <2>3, <2>4
  <1>2. Chain(K, i, Having({}, 0), P1)
    BY <1>0, InputsKnown
  <1>3. Chain(K, b, P1, P2)
    BY GraphsKnown
  <1>4. Chain(K, c, P2, P3)
    <2>. DEFINE H == Inputs(Tracks) \cup GraphSet(ins, n)
    <2>1. H \in SUBSET Contexts /\ \A j \in 1..m : {In(j), Dec(j)} \subseteq H
      <3>1. H \in SUBSET Contexts
        BY <1>0, TrackSets, GraphSets
      <3>. QED  BY <1>0, <3>1 DEF Inputs
    <2>. HIDE DEF H
    <2>2. Chain(K, c, Having(H, n), Having(H \cup Outputs(m), n))
      BY <1>0, <2>1, OutputsKnown
    <2>. QED  BY <2>2 DEF H, Opened
  <1>5. Chain(K, r, P3, P3)
    <2>1. P3 \in SUBSET Stores
      BY HavingType
    <2>. HIDE DEF P3
    <2>2. rounds \in Seq(Steps)
      <3>1. Firm(Contexts) \subseteq Steps
        BY FirmSubset
      <3>. QED  BY <3>1
    <2>3. << P3, Loop("process_all", rounds, "exit"), P3 >> \in K
      <3>1. Chain(Safe(P3), rounds, P3, P3)
        BY DEF P3
      <3>. QED  BY <2>1, <2>2, <3>1, CallKnown DEF Names, FoundOutLater
    <2>. HIDE DEF K
    <2>. QED  BY <2>1, <2>3, ChainOfOne
  <1>6. Code[p] = ((i \o b) \o c) \o r
    BY DEF MixerText
  <1>. HIDE DEF C, K, i, b, c, r, P1, P2, P3
  <1>7. Chain(K, ((i \o b) \o c) \o r, Having({}, 0), P3)
    <2>1. Chain(K, i \o b, Having({}, 0), P2) /\ i \o b \in Seq(C)
      BY <1>1, <1>2, <1>3, ChainJoin, Joined
    <2>2. Chain(K, (i \o b) \o c, Having({}, 0), P3) /\ (i \o b) \o c \in Seq(C)
      BY <1>1, <1>4, <2>1, ChainJoin, Joined
    <2>. QED  BY <1>1, <1>5, <2>2, ChainJoin
  <1>8. {} \in SUBSET Stores
    OBVIOUS
  <1>. QED  BY <1>6, <1>7, <1>8, NothingAtFirst, PlannedFrom DEF K

-----------------------------------------------------------------------------
(* The mixers                                                              *)

\* The parts of the mixers.
SdpInputs == [i \in 1..Tracks |-> open_input_file(i)]
FileInputs == [i \in 1..Tracks |-> open_input_file_11(i)]
OthersGraphs == [k \in 1..Tracks |-> MakeGraph(k, Track \ {k})]
OneGraphs == [k \in 1..1 |-> MakeGraph(1, Track)]
SameCodec == [i \in 1..Tracks |-> open_output_file(i)]
OwnCodec(n) == [i \in 1..n |-> open_output_file_4broken(i)]
AskedFor == [i \in 1..Tracks |-> init_input_frame \o decode_audio_frame_2sdp(i)]
OneSinkRounds(d, n) ==
    ((FlattenSeq([i \in DOMAIN d |->
         d[i] \o << Maybe(Try({Src(1, i), Frame}, {}, {})), Release({Frame}) >>])
      \o << Unchecked({}, {Frame}), PullSink(1) >>)
     \o FlattenSeq([i \in 1..n |-> encode_audio_frame(i)])) \o << Release({Frame}) >>

\* The mixers in these terms.
LEMMA MixerTexts ==
    /\ filter_audio =
         MixerText(SdpInputs, "exit", OthersGraphs, SameCodec, FALSE, "exit", Rounds)
    /\ filter_audio_4broken =
         MixerText(SdpInputs, "exit", OthersGraphs, OwnCodec(Tracks), TRUE, "exit", Rounds)
    /\ filter_audio_cdec =
         MixerText(SdpInputs, "ignore", OthersGraphs, OwnCodec(Tracks), TRUE, "ignore", Rounds)
    /\ filter_audio_2sdp =
         MixerText(SdpInputs, "exit", OneGraphs, OwnCodec(Tracks), TRUE, "exit",
                   OneSinkRounds(AskedFor, Tracks))
    /\ filter_audio_11 =
         MixerText(FileInputs, "exit", OneGraphs, OwnCodec(1), TRUE, "exit",
                   OneSinkRounds(AskedFor, 1))
  <1>2. filter_audio =
         MixerText(SdpInputs, "exit", OthersGraphs, SameCodec, FALSE, "exit", Rounds)
    BY DEF filter_audio, init, process_all, OpenInputs, MakeGraphs, OpenOutputs, MixRounds,
           Rounds, ForEach, init_filter_graph, MixerText, SdpInputs, OthersGraphs, SameCodec
  <1>3. filter_audio_4broken =
         MixerText(SdpInputs, "exit", OthersGraphs, OwnCodec(Tracks), TRUE, "exit", Rounds)
    BY DEF filter_audio_4broken, init_4broken, process_all_4broken, OpenInputs, MakeGraphs,
           OpenOutputs, MixRounds, ReadRound, PullRound, Rounds, ForEach, MixerText,
           open_input_file_4broken, open_input_file, sdp_open_4broken,
           init_filter_graph_4broken, decode_audio_frame_4broken, encode_audio_frame_4broken,
           SdpInputs, OthersGraphs, OwnCodec
  <1>4. filter_audio_cdec =
         MixerText(SdpInputs, "ignore", OthersGraphs, OwnCodec(Tracks), TRUE, "ignore", Rounds)
    BY DEF filter_audio_cdec, init_cdec, process_all_cdec, OpenInputs, MakeGraphs,
           OpenOutputs, MixRounds, ReadRound, PullRound, Rounds, ForEach, MixerText,
           open_input_file_cdec, open_input_file, sdp_open_cdec, open_output_file_cdec,
           open_output_file_4broken, SdpInputs, OthersGraphs, OwnCodec,
           init_filter_graph_cdec, decode_audio_frame_cdec, encode_audio_frame_cdec
  \* one graph
  <1>5. /\ OneGraphs = [k \in 1..1 |-> MakeGraph(1, Track)]
        /\ FlattenSeq([k \in 1..1 |-> << Call("init_filter_graph",
                                              OneGraph, "ignore") >>])
             = FlattenSeq([k \in DOMAIN OneGraphs |->
                 << Call("init_filter_graph", OneGraphs[k] \o << PushSink(k) >>, "ignore") >>])
    <2>1. [k \in 1..1 |-> << Call("init_filter_graph", OneGraph, "ignore") >>]
            = [k \in DOMAIN OneGraphs |->
                << Call("init_filter_graph", OneGraphs[k] \o << PushSink(k) >>, "ignore") >>]
      <3>1. \A k \in 1..1 : k = 1
        OBVIOUS
      <3>. QED  BY <3>1 DEF OneGraphs, OneGraph
    <2>. QED  BY <2>1 DEF OneGraphs
  <1>6. filter_audio_2sdp =
         MixerText(SdpInputs, "exit", OneGraphs, OwnCodec(Tracks), TRUE, "exit",
                   OneSinkRounds(AskedFor, Tracks))
    <2>1. OpenInputs(open_input_file_2sdp, Tracks, "exit") =
             FlattenSeq([i \in DOMAIN SdpInputs |->
                << Call("open_input_file", SdpInputs[i], "exit"),
                   Call("av_dump_format", << Sure({In(i)}, {}) >>, "exit") >>])
      BY DEF OpenInputs, ForEach, open_input_file_2sdp, sdp_open_2sdp, open_input_file, SdpInputs
    <2>2. MakeGraphs(init_filter_graph_2sdp, 1) =
             FlattenSeq([k \in DOMAIN OneGraphs |->
                << Call("init_filter_graph", OneGraphs[k] \o << PushSink(k) >>, "ignore") >>])
      BY <1>5 DEF MakeGraphs, ForEach, init_filter_graph_2sdp
    <2>3. OpenOutputs(open_output_file_2sdp, TRUE, Tracks, "exit") =
             FlattenSeq([i \in DOMAIN OwnCodec(Tracks) |->
                << Call("open_output_file", OwnCodec(Tracks)[i], "ignore"),
                   Call("av_dump_format",
                        IF TRUE THEN << Sure({Out(i)}, {}) >> ELSE << >>, "exit"),
                   Call("write_output_file_header", write_output_file_header(i), "exit") >>])
      BY DEF OpenOutputs, ForEach, open_output_file_2sdp, open_output_file_4broken, OwnCodec
    <2>4. process_all_2sdp = << Loop("process_all", OneSinkRounds(AskedFor, Tracks), "exit") >>
      BY DEF process_all_2sdp, OneMixRound, ForEach, encode_audio_frame_2sdp,
             decode_audio_frame_2sdp, OneSinkRounds, AskedFor
    <2>. QED  BY <2>1, <2>2, <2>3, <2>4 DEF MixerText, filter_audio_2sdp, init_2sdp
  <1>7. filter_audio_11 =
         MixerText(FileInputs, "exit", OneGraphs, OwnCodec(1), TRUE, "exit",
                   OneSinkRounds(AskedFor, 1))
    <2>1. OpenInputs(open_input_file_11, Tracks, "exit") =
             FlattenSeq([i \in DOMAIN FileInputs |->
                << Call("open_input_file", FileInputs[i], "exit"),
                   Call("av_dump_format", << Sure({In(i)}, {}) >>, "exit") >>])
      BY DEF OpenInputs, ForEach, open_input_file_11, FileInputs
    <2>2. MakeGraphs(init_filter_graph_11, 1) =
             FlattenSeq([k \in DOMAIN OneGraphs |->
                << Call("init_filter_graph", OneGraphs[k] \o << PushSink(k) >>, "ignore") >>])
      BY <1>5 DEF MakeGraphs, ForEach, init_filter_graph_11
    <2>3. OpenOutputs(open_output_file_11, TRUE, 1, "exit") =
             FlattenSeq([i \in DOMAIN OwnCodec(1) |->
                << Call("open_output_file", OwnCodec(1)[i], "ignore"),
                   Call("av_dump_format",
                        IF TRUE THEN << Sure({Out(i)}, {}) >> ELSE << >>, "exit"),
                   Call("write_output_file_header", write_output_file_header(i), "exit") >>])
      BY DEF OpenOutputs, ForEach, open_output_file_11, open_output_file_4broken, OwnCodec
    <2>4. process_all_11 = << Loop("process_all", OneSinkRounds(AskedFor, 1), "exit") >>
      BY DEF process_all_11, OneMixRound, ForEach, encode_audio_frame_11,
             decode_audio_frame_11, decode_audio_frame_2sdp, OneSinkRounds, AskedFor
    <2>. QED  BY <2>1, <2>2, <2>3, <2>4 DEF MixerText, filter_audio_11, init_11
  <1>. QED  BY <1>2, <1>3, <1>4, <1>6, <1>7

\* The parts are texts.
LEMMA MixerPartTypes ==
    /\ SdpInputs \in [1..Tracks -> Seq(Firm(Contexts))]
    /\ FileInputs \in [1..Tracks -> Seq(Firm(Contexts))]
    /\ OthersGraphs \in [1..Tracks -> Seq(Firm(Contexts))]
    /\ OneGraphs \in [1..1 -> Seq(Firm(Contexts))]
    /\ SameCodec \in [1..Tracks -> Seq(Firm(Contexts))]
    /\ \A n \in 0..Tracks : OwnCodec(n) \in [1..n -> Seq(Firm(Contexts))]
    /\ AskedFor \in [1..Tracks -> Seq(Firm(Contexts))]
    /\ \A n \in 0..Tracks : OneSinkRounds(AskedFor, n) \in Seq(Firm(Contexts))
  <1>. DEFINE C == Seq(Firm(Contexts))
  <1>1. ASSUME NEW i \in Track
        PROVE  /\ open_input_file(i) \in C /\ open_input_file_11(i) \in C
               /\ init_input_frame \in C /\ decode_audio_frame_2sdp(i) \in C
               /\ encode_audio_frame(i) \in C
               /\ open_output_file(i) \in C /\ open_output_file_4broken(i) \in C
               /\ MakeGraph(i, Track \ {i}) \in C
    <2>1. /\ open_input_file(i) \in C /\ open_output_file_4broken(i) \in C
          /\ open_output_file(i) \in C /\ MakeGraph(i, Track \ {i}) \in C
      BY MixerFunctions
    <2>2. open_input_file_11(i) \in C
      BY InputTypes, ContextTypes, JoinedSeqs DEF open_input_file_11
    <2>3. decode_audio_frame_2sdp(i) \in C /\ encode_audio_frame(i) \in C /\ init_input_frame \in C
      BY RoundTypes, ContextTypes DEF decode_audio_frame_2sdp
    <2>. QED  BY <2>1, <2>2, <2>3
  <1>2. MakeGraph(1, Track) \in C
    BY GraphTypes, TrackType
  <1>3. \A i \in 1..Tracks : init_input_frame \o decode_audio_frame_2sdp(i) \in C
    BY <1>1, Joined, TrackType
  <1>4. ASSUME NEW n \in 0..Tracks PROVE OneSinkRounds(AskedFor, n) \in C
    <2>. DEFINE d == [i \in 1..Tracks |-> decode_audio_frame_2sdp(i)]
                e == [i \in 1..n |-> encode_audio_frame(i)]
    <2>1. \A i \in 1..Tracks : decode_audio_frame_2sdp(i) \in C
      BY <1>1, TrackType
    <2>2. \A i \in 1..n : encode_audio_frame(i) \in C
      <3>1. 1..n \subseteq Track
        BY TrackType
      <3>. QED  BY <1>1, <3>1
    <2>3. d \in [1..Tracks -> C] /\ e \in [1..n -> C]
      <3>. HIDE DEF C
      <3>. QED  BY <2>1, <2>2
    <2>4. OneSinkRounds(AskedFor, n) =
            ((FlattenSeq([i \in 1..Tracks |->
                ((init_input_frame \o d[i])
                 \o << Maybe(Try({Src(1, i), Frame}, {}, {})), Release({Frame}) >>)])
             \o << Unchecked({}, {Frame}), PullSink(1) >>)
            \o FlattenSeq([i \in 1..n |-> e[i]])) \o << Release({Frame}) >>
      BY DEF OneSinkRounds, AskedFor
    <2>5. Tracks \in 0..Tracks /\ Contexts \in SUBSET Contexts /\ Frame \in Contexts
      BY TrackType, ContextTypes
    <2>6. d \in [1..Tracks -> Seq(Firm(Contexts))] /\ e \in [1..n -> Seq(Firm(Contexts))]
      BY <2>3
    <2>. HIDE DEF d, e
    <2>7. ((FlattenSeq([i \in 1..Tracks |->
                ((init_input_frame \o d[i])
                 \o << Maybe(Try({Src(1, i), Frame}, {}, {})), Release({Frame}) >>)])
             \o << Unchecked({}, {Frame}), PullSink(1) >>)
            \o FlattenSeq([i \in 1..n |-> e[i]])) \o << Release({Frame}) >>
              \in Seq(Firm(Contexts))
      BY <2>5, <2>6, OneMixRoundType
    <2>. QED  BY <2>4, <2>7
  <1>. HIDE DEF C
  <1>5. \A n \in 0..Tracks : OwnCodec(n) \in [1..n -> C]
    <2>1. \A n \in 0..Tracks : 1..n \subseteq Track
      BY TrackType
    <2>. QED  BY <1>1, <2>1 DEF OwnCodec
  <1>6. /\ SdpInputs \in [1..Tracks -> C] /\ FileInputs \in [1..Tracks -> C]
        /\ OthersGraphs \in [1..Tracks -> C] /\ SameCodec \in [1..Tracks -> C]
    BY <1>1, TrackType DEF SdpInputs, FileInputs, OthersGraphs, SameCodec
  <1>7. OneGraphs \in [1..1 -> C] /\ AskedFor \in [1..Tracks -> C]
    BY <1>2, <1>3 DEF OneGraphs, AskedFor
  <1>. QED  BY <1>4, <1>5, <1>6, <1>7 DEF C

\* What the parts of a mixer make known.
LEMMA MixerPartsKnown ==
    /\ \A i \in Track : \A H \in SUBSET Contexts : \A B :
         /\ Chain(Safe(B), SdpInputs[i], Having(H, 0), Having(H \cup {In(i), Dec(i)}, 0))
         /\ Chain(Safe(B), FileInputs[i], Having(H, 0), Having(H \cup {In(i), Dec(i)}, 0))
    /\ \A i \in Track : \E uses \in SUBSET {In(i), Out(i)} : SameCodec[i] = OpenOutput(i, uses)
    /\ \A n \in 0..Tracks : \A i \in 1..n :
         \E uses \in SUBSET {In(i), Out(i)} : OwnCodec(n)[i] = OpenOutput(i, uses)
  <1>1. ASSUME NEW i \in Track, NEW H \in SUBSET Contexts, NEW B
        PROVE  /\ Chain(Safe(B), SdpInputs[i], Having(H, 0), Having(H \cup {In(i), Dec(i)}, 0))
               /\ Chain(Safe(B), FileInputs[i], Having(H, 0), Having(H \cup {In(i), Dec(i)}, 0))
    <2>1. SdpInputs[i] = open_input_file(i) /\ FileInputs[i] = OpenFile(i) \o FindDecoder(i)
      BY TrackType DEF SdpInputs, FileInputs, open_input_file_11
    <2>. QED  BY <2>1, InputKnown
  <1>2. ASSUME NEW i \in Track
        PROVE  \E uses \in SUBSET {In(i), Out(i)} : SameCodec[i] = OpenOutput(i, uses)
    <2>1. SameCodec[i] = OpenOutput(i, {Out(i), In(i)})
      BY TrackType DEF SameCodec, open_output_file
    <2>. QED  BY <2>1
  <1>3. ASSUME NEW n \in 0..Tracks, NEW i \in 1..n
        PROVE  \E uses \in SUBSET {In(i), Out(i)} : OwnCodec(n)[i] = OpenOutput(i, uses)
    <2>1. OwnCodec(n)[i] = OpenOutput(i, {Out(i)})
      BY DEF OwnCodec, open_output_file_4broken
    <2>. QED  BY <2>1
  <1>. QED  BY <1>1, <1>2, <1>3

\* The mixers with a graph for each client.
LEMMA ClientMixersPlanned ==
    \A p \in {"filter_audio", "broken_4", "CDecoder"} : \E t, h : Planned(p, t, h)
  <1>. DEFINE ins == [k \in 1..Tracks |-> Track \ {k}]
              H == Opened(ins, Tracks, Tracks)
  <1>0. Tracks \in 0..Tracks /\ Tracks \in Nat /\ Tracks <= Tracks /\ 1..Tracks = Track
    BY TrackType
  <1>1. ins \in [1..Tracks -> SUBSET Track]
    BY <1>0
  <1>2. \A k \in 1..Tracks : OthersGraphs[k] = MakeGraph(k, ins[k])
    BY DEF OthersGraphs
  <1>3. H \in SUBSET Contexts /\ Frame \notin H
    <2>. HIDE DEF ins
    <2>. QED  BY <1>0, <1>1, GraphSets
  <1>4. \A i \in Track : {In(i), Dec(i), Out(i), Enc(i), Muxer(i)} \subseteq H
    <2>1. \A i \in Track : i \in 1..Tracks
      BY <1>0
    <2>. QED  BY <2>1 DEF Opened, Inputs, Outputs
  <1>5. \A j, i \in Track : i # j => Src(j, i) \in H
    <2>. SUFFICES ASSUME NEW j \in Track, NEW i \in Track, i # j PROVE Src(j, i) \in H
      OBVIOUS
    <2>1. j \in 1..Tracks /\ i \in ins[j]
      BY <1>0
    <2>. HIDE DEF ins
    <2>2. Src(j, i) \in Graphs(j, ins[j])
      BY <2>1 DEF Graphs
    <2>. QED  BY <2>1, <2>2 DEF Opened, GraphSet
  <1>. HIDE DEF H
  <1>6. \A B : Chain(Safe(B), Rounds, Having(H, Tracks), Having(H, Tracks))
    BY <1>0, <1>3, <1>4, <1>5, RoundsKnown
  <1>. HIDE DEF ins
  <1>7. ASSUME NEW p \in Program, NEW w \in {SameCodec, OwnCodec(Tracks)},
               NEW ei \in {"exit", "ignore"}, NEW eo \in {"exit", "ignore"}, NEW dump \in BOOLEAN,
               Code[p] = MixerText(SdpInputs, ei, OthersGraphs, w, dump, eo, Rounds)
        PROVE  \E t, h : Planned(p, t, h)
    <2>1. /\ SdpInputs \in [1..Tracks -> Seq(Firm(Contexts))]
          /\ OthersGraphs \in [1..Tracks -> Seq(Firm(Contexts))]
          /\ w \in [1..Tracks -> Seq(Firm(Contexts))]
      BY <1>0, MixerPartTypes
    <2>2. \A i \in 1..Tracks : \E uses \in SUBSET {In(i), Out(i)} : w[i] = OpenOutput(i, uses)
      BY <1>0, MixerPartsKnown
    <2>3. \A i \in Track : \A G \in SUBSET Contexts : \A B :
             Chain(Safe(B), SdpInputs[i], Having(G, 0), Having(G \cup {In(i), Dec(i)}, 0))
      BY MixerPartsKnown
    <2>4. \A B : Chain(Safe(B), Rounds, Having(Opened(ins, Tracks, Tracks), Tracks),
                                         Having(Opened(ins, Tracks, Tracks), Tracks))
      BY <1>6 DEF H
    <2>6. Rounds \in Seq(Firm(Contexts))
      BY RoundsType
    <2>7. MixerFits(SdpInputs, OthersGraphs, w, ins, Tracks, Tracks, Rounds)
      BY <1>2, <2>2, <2>3, <2>4 DEF MixerFits
    <2>. QED  BY <1>0, <1>1, <1>7, <2>1, <2>6, <2>7, MixerKnown
  <1>8. /\ {"filter_audio", "broken_4", "CDecoder"} \subseteq Program
        /\ Code["filter_audio"] = filter_audio /\ Code["broken_4"] = filter_audio_4broken
        /\ Code["CDecoder"] = filter_audio_cdec
    BY DEF Program, Code
  <1>. QED  BY <1>7, <1>8, MixerTexts

\* The mixers with one graph of all clients.
LEMMA OneGraphPlanned ==
    \A p \in {"sdp_2", "filter_1_1"} : \E t, h : Planned(p, t, h)
  <1>. DEFINE ins == [k \in 1..1 |-> Track]
  <1>0. Tracks \in 0..Tracks /\ 1 \in 0..Tracks /\ 1..Tracks = Track /\ 1 \in Nat /\ 1 <= 1
        /\ Tracks \in Nat /\ Tracks <= Tracks
    BY TrackType
  <1>1. ins \in [1..1 -> SUBSET Track] /\ \A k \in 1..1 : OneGraphs[k] = MakeGraph(k, ins[k])
    <2>1. \A k \in 1..1 : k = 1
      OBVIOUS
    <2>. QED  BY <2>1 DEF OneGraphs
  <1>2. ASSUME NEW m \in 1..Tracks, NEW B
        PROVE  Chain(Safe(B), OneSinkRounds(AskedFor, m), Having(Opened(ins, 1, m), 1),
                                                          Having(Opened(ins, 1, m), 1))
    <2>. DEFINE H == Opened(ins, 1, m)
                G == H \cup {Frame}
                e == FlattenSeq([i \in 1..m |-> encode_audio_frame(i)])
    <2>0. m \in 0..Tracks /\ m \in Nat /\ 1..m \subseteq Track
      BY <1>0
    <2>1. H \in SUBSET Contexts /\ Frame \notin H
      <3>. HIDE DEF ins
      <3>. QED  BY <1>0, <1>1, <2>0, GraphSets
    <2>2. \A i \in Track : {In(i), Dec(i)} \subseteq H
      BY <1>0 DEF Opened, Inputs
    <2>3. \A i \in Track : Src(1, i) \in H
      <3>1. 1 \in 1..1 /\ ins[1] = Track
        OBVIOUS
      <3>. QED  BY <3>1 DEF Opened, GraphSet, Graphs
    <2>4. \A i \in 1..m : {Out(i), Enc(i), Muxer(i)} \subseteq H
      BY DEF Opened, Outputs
    <2>5. Having(H, 1) \in SUBSET Stores /\ Having(G, 1) \in SUBSET Stores
      BY HavingType
    <2>. HIDE DEF H
    <2>6. \A i \in Track : Chain(Safe(B), AskedFor[i], Having(H, 1), Having(G, 1))
      <3>. SUFFICES ASSUME NEW i \in Track
                    PROVE  Chain(Safe(B), AskedFor[i], Having(H, 1), Having(G, 1))
        OBVIOUS
      <3>1. /\ Chain(Safe(B), init_input_frame, Having(H, 1), Having(G, 1))
            /\ Chain(Safe(B), [n \in 1..2 |-> Maybe(decode_audio_frame(i)[n])],
                     Having(G, 1), Having(G, 1))
        BY <1>0, <2>1, <2>2, FrameKnown
      <3>2. /\ init_input_frame \in Seq(Firm(Contexts))
            /\ [n \in 1..2 |-> Maybe(decode_audio_frame(i)[n])] \in Seq(Firm(Contexts))
        BY RoundTypes, ContextTypes
      <3>3. AskedFor[i] = init_input_frame \o [n \in 1..2 |-> Maybe(decode_audio_frame(i)[n])]
        BY TrackType DEF AskedFor, decode_audio_frame_2sdp
      <3>. HIDE DEF G
      <3>. QED  BY <3>1, <3>2, <3>3, ChainJoin
    <2>7. e \in Seq(Firm(Contexts)) /\ Chain(Safe(B), e, Having(G, 1), Having(G, 1))
      <3>. DEFINE g == [i \in 1..m |-> encode_audio_frame(i)]
      <3>1. \A i \in 1..m : encode_audio_frame(i) \in Seq(Firm(Contexts))
        BY <2>0, RoundTypes, ContextTypes
      <3>2. g \in [1..m -> Seq(Firm(Contexts))]
        BY <3>1
      <3>3. \A i \in 1..m : Chain(Safe(B), g[i], Having(G, 1), Having(G, 1))
        BY <1>0, <2>0, <2>1, <2>4, FrameKnown
      <3>. HIDE DEF g, G
      <3>4. FlattenSeq(g) \in Seq(Firm(Contexts))
        BY <2>0, <3>2, JoinedSeqs
      <3>5. Chain(Safe(B), FlattenSeq(g), Having(G, 1), Having(G, 1))
        BY <2>0, <2>5, <3>2, <3>3, ChainFlatSame
      <3>. QED  BY <3>4, <3>5 DEF g
    <2>8. AskedFor \in [1..Tracks -> Seq(Firm(Contexts))]
      BY MixerPartTypes
    <2>. DEFINE r == ((FlattenSeq([k \in 1..Tracks |->
                     AskedFor[k] \o << Maybe(Try({Src(1, k), Frame}, {}, {})), Release({Frame}) >>])
                   \o << Unchecked({}, {Frame}), PullSink(1) >>) \o e) \o << Release({Frame}) >>
    <2>. HIDE DEF e
    <2>9. Chain(Safe(B), r, Having(H, 1), Having(H, 1))
      BY <1>0, <2>1, <2>3, <2>6, <2>7, <2>8, OneSinkKnown
    <2>10. OneSinkRounds(AskedFor, m) = r
      BY <2>8 DEF OneSinkRounds, e
    <2>. QED  BY <2>9, <2>10 DEF H
  <1>. HIDE DEF ins
  <1>3. ASSUME NEW p \in Program, NEW m \in 1..Tracks, NEW o \in {SdpInputs, FileInputs},
               Code[p] = MixerText(o, "exit", OneGraphs, OwnCodec(m), TRUE, "exit",
                                   OneSinkRounds(AskedFor, m))
        PROVE  \E t, h : Planned(p, t, h)
    <2>0. m \in 0..Tracks
      BY <1>0
    <2>1. /\ o \in [1..Tracks -> Seq(Firm(Contexts))]
          /\ OneGraphs \in [1..1 -> Seq(Firm(Contexts))]
          /\ OwnCodec(m) \in [1..m -> Seq(Firm(Contexts))]
          /\ OneSinkRounds(AskedFor, m) \in Seq(Firm(Contexts))
      BY <2>0, MixerPartTypes
    <2>2. \A i \in 1..m : \E uses \in SUBSET {In(i), Out(i)} : OwnCodec(m)[i] = OpenOutput(i, uses)
      BY <2>0, MixerPartsKnown
    <2>3. \A i \in Track : \A G \in SUBSET Contexts : \A B :
             Chain(Safe(B), o[i], Having(G, 0), Having(G \cup {In(i), Dec(i)}, 0))
      BY MixerPartsKnown
    <2>5. \A B : Chain(Safe(B), OneSinkRounds(AskedFor, m), Having(Opened(ins, 1, m), 1),
                                                          Having(Opened(ins, 1, m), 1))
      BY <1>2
    <2>6. "exit" \in {"exit", "ignore"} /\ TRUE \in BOOLEAN
      OBVIOUS
    <2>7. MixerFits(o, OneGraphs, OwnCodec(m), ins, 1, m, OneSinkRounds(AskedFor, m))
      BY <1>1, <2>2, <2>3, <2>5 DEF MixerFits
    <2>. QED  BY <1>0, <1>1, <1>3, <2>0, <2>1, <2>6, <2>7, MixerKnown
  <1>4. /\ {"sdp_2", "filter_1_1"} \subseteq Program
        /\ Code["sdp_2"] = filter_audio_2sdp /\ Code["filter_1_1"] = filter_audio_11
    BY DEF Program, Code
  <1>5. 1 \in 1..Tracks /\ Tracks \in 1..Tracks
    BY TrackType
  <1>6. \E t, h : Planned("sdp_2", t, h)
    BY <1>3, <1>4, <1>5, MixerTexts
  <1>7. \E t, h : Planned("filter_1_1", t, h)
    BY <1>3, <1>4, <1>5, MixerTexts
  <1>. QED  BY <1>6, <1>7

\* The other mixers say the same.
LEMMA PlannedSame ==
    ASSUME NEW p \in Program, NEW q \in Program, Code[q] = Code[p],
           p \notin {"trans_backup", "transcode_aac", "testRTPffmpeg"},
           q \notin {"trans_backup", "transcode_aac", "testRTPffmpeg"},
           \E t, h : Planned(p, t, h)
    PROVE  \E t, h : Planned(q, t, h)
  <1>1. PICK t, h : Planned(p, t, h)
    OBVIOUS
  <1>2. \A nm : HolesIn(p, nm) = HolesIn(q, nm)
    BY DEF HolesIn, Holes
  <1>3. \A x \in CallRel(p, t) : x \in CallRel(q, t)
    BY <1>2 DEF CallRel, Follows
  <1>4. Planned(q, t, h)
    BY <1>1, <1>3 DEF Planned, Along
  <1>. QED  BY <1>4

\* The graph of two inputs.
TwoInputParts == {Graph(1), Src(1, 1), Src(1, 2), Sink(1)}

\* What the graph of amix makes known.
LEMMA TwoInputGraphKnown ==
    ASSUME NEW H \in SUBSET Contexts, {Dec(1), Dec(2)} \subseteq H, NEW B
    PROVE  /\ Chain(Safe(B), TwoInputGraph, Having(H, 0), Having(H \cup TwoInputParts, 1))
           /\ TwoInputGraph \in Seq(Steps)
  <1>. DEFINE a == << Try({}, {Graph(1)}, {}) >>
              s(i) == << Try({}, {}, {}), Try({Dec(i), Graph(1)}, {}, {}) >>
              b == FlattenSeq([i \in 1..2 |-> s(i)])
              c == CreateMixAndSink(1)
              d == [n \in 1..4 |-> Try({Graph(1)}, {}, {})]
              e == << Sure({Graph(1)}, {Src(1, 1), Src(1, 2)}), PushSink(1) >>
              H1 == H \cup {Graph(1)}
              H2 == H1 \cup {Src(1, 1), Src(1, 2)}
              H3 == H2 \cup {Sink(1)}
              P == Having(H, 0)
              P1 == Having(H1, 0)
              P2 == Having(H2, 0)
              P3 == Having(H3, 1)
  <1>0. /\ 1 \in Track /\ 2 \in Track /\ 1..2 \subseteq Track /\ 2 \in Nat /\ 0 \in Nat
        /\ \A i \in 1..2 : Dec(i) \in H
    <2>1. \A i \in 1..2 : i = 1 \/ i = 2
      OBVIOUS
    <2>. QED  BY <2>1, TrackType
  <1>1. /\ H1 \in SUBSET Contexts /\ H2 \in SUBSET Contexts /\ H3 \in SUBSET Contexts
        /\ \A i \in 1..2 : Dec(i) \in Contexts
        /\ Graph(1) \in Contexts /\ {Src(1, 1), Src(1, 2)} \in SUBSET Contexts
    BY <1>0, ContextTypes
  <1>2. P \in SUBSET Stores /\ P1 \in SUBSET Stores /\ P2 \in SUBSET Stores /\ P3 \in SUBSET Stores
    BY HavingType
  <1>3. /\ << P, Try({}, {Graph(1)}, {}), P1 >> \in Safe(B)
        /\ << P1, Try({}, {}, {}), P1 >> \in Safe(B)
        /\ << P1, Try({Graph(1)}, {}, {}), P1 >> \in Safe(B)
        /\ \A i \in 1..2 : << P1, Try({Dec(i), Graph(1)}, {}, {}), P1 >> \in Safe(B)
        /\ << P1, Sure({Graph(1)}, {Src(1, 1), Src(1, 2)}), P2 >> \in Safe(B)
    <2>1. /\ {} \in SUBSET H /\ {} \in SUBSET H1 /\ {Graph(1)} \in SUBSET H1
          /\ \A i \in 1..2 : {Dec(i), Graph(1)} \in SUBSET H1
          /\ H2 \subseteq H1 \cup {Src(1, 1), Src(1, 2)}
      BY <1>0
    <2>2. << P, Try({}, {Graph(1)}, {}), P1 >> \in Safe(B)
      BY <1>0, <1>1, Opens DEF Safe
    <2>. HIDE DEF H1, H2
    <2>3. /\ << P1, Try({}, {}, {}), P1 >> \in Safe(B)
          /\ << P1, Try({Graph(1)}, {}, {}), P1 >> \in Safe(B)
          /\ \A i \in 1..2 : << P1, Try({Dec(i), Graph(1)}, {}, {}), P1 >> \in Safe(B)
      BY <1>0, <1>1, <2>1, Opens DEF Safe
    <2>4. << P1, Sure({Graph(1)}, {Src(1, 1), Src(1, 2)}), P2 >> \in Safe(B)
      BY <1>0, <1>1, <2>1, Opens DEF Safe
    <2>. QED  BY <2>2, <2>3, <2>4
  <1>4. << P2, PushSink(1), P3 >> \in Safe(B)
    <2>1. Graph(1) \in H2 /\ 0 + 1 = 1
      OBVIOUS
    <2>. HIDE DEF H2
    <2>. QED  BY <1>0, <1>1, <2>1, SinkSteps DEF Safe
  <1>5. a \in Seq(Steps) /\ b \in Seq(Steps) /\ c \in Seq(Steps) /\ d \in Seq(Steps) /\ e \in Seq(Steps)
        /\ \A i \in 1..2 : s(i) \in Seq(Steps)
    <2>1. /\ Try({}, {Graph(1)}, {}) \in Steps /\ Try({}, {}, {}) \in Steps
          /\ Try({Graph(1)}, {}, {}) \in Steps
          /\ \A i \in 1..2 : Try({Dec(i), Graph(1)}, {}, {}) \in Steps
          /\ Sure({Graph(1)}, {Src(1, 1), Src(1, 2)}) \in Steps
          /\ PushSink(1) \in Steps
      BY <1>0, <1>3, <1>4 DEF Safe, Takes
    <2>2. \A i \in 1..2 : s(i) \in Seq(Steps)
      BY <2>1
    <2>3. b \in Seq(Steps)
      <3>. HIDE DEF s
      <3>. QED  BY <1>0, <2>2, JoinedSeqs
    <2>4. d \in Seq(Steps)
      BY <2>1, FunctionIsSeq
    <2>. QED  BY <2>1, <2>2, <2>3, <2>4 DEF CreateMixAndSink
  <1>. HIDE DEF P, P1, P2, P3
  <1>6. Chain(Safe(B), a, P, P1)
    BY <1>2, <1>3, ChainOfOne
  <1>7. Chain(Safe(B), b, P1, P1)
    <2>1. \A i \in 1..2 : Chain(Safe(B), s(i), P1, P1)
      BY <1>2, <1>3, ChainOf2
    <2>. DEFINE g == [i \in 1..2 |-> s(i)]
    <2>. HIDE DEF s
    <2>2. g \in [1..2 -> Seq(Steps)] /\ \A i \in 1..2 : Chain(Safe(B), g[i], P1, P1)
      BY <1>5, <2>1
    <2>. HIDE DEF g
    <2>3. Chain(Safe(B), FlattenSeq(g), P1, P1)
      BY <1>0, <1>2, <2>2, ChainFlatSame
    <2>. QED  BY <2>3 DEF g
  <1>8. Chain(Safe(B), c, P1, P1)
    BY <1>2, <1>3, ChainOf6 DEF CreateMixAndSink
  <1>9. Chain(Safe(B), d, P1, P1)
    <2>1. Len(d) = 4 /\ \A n \in 1..4 : d[n] = Try({Graph(1)}, {}, {})
      BY <1>5
    <2>. HIDE DEF d
    <2>. QED  BY <1>2, <1>3, <1>5, <2>1, ChainSame
  <1>10. Chain(Safe(B), e, P1, P3)
    BY <1>2, <1>3, <1>4, ChainOf2
  <1>11. TwoInputGraph = (((a \o b) \o c) \o d) \o e
    BY DEF TwoInputGraph, ForEach
  <1>12. H3 = H \cup TwoInputParts
    BY DEF TwoInputParts
  <1>. HIDE DEF a, b, c, d, e, H3
  <1>13. Chain(Safe(B), a \o b, P, P1) /\ a \o b \in Seq(Steps)
    BY <1>5, <1>6, <1>7, ChainJoin, Joined
  <1>14. Chain(Safe(B), (a \o b) \o c, P, P1) /\ (a \o b) \o c \in Seq(Steps)
    BY <1>5, <1>8, <1>13, ChainJoin, Joined
  <1>15. Chain(Safe(B), ((a \o b) \o c) \o d, P, P1) /\ ((a \o b) \o c) \o d \in Seq(Steps)
    BY <1>5, <1>9, <1>14, ChainJoin, Joined
  <1>16. Chain(Safe(B), TwoInputGraph, P, P3) /\ TwoInputGraph \in Seq(Steps)
    BY <1>5, <1>10, <1>11, <1>15, ChainJoin, Joined
  <1>. QED  BY <1>12, <1>16 DEF P, P3

\* What amix has open when its loop begins.
AmixOpen == ((Inputs(2) \cup TwoInputParts) \cup {Io(1), Out(1), Enc(1)}) \cup {Muxer(1)}

\* amix, when its rounds keep what is known.
LEMMA TwoInputTextPlanned ==
    ASSUME NEW p \in Program, NEW rounds \in Seq(Firm(Contexts)), Code[p] = TwoInputText(rounds),
           \A B : Chain(Safe(B), rounds, Having(AmixOpen, 1), Having(AmixOpen, 1))
    PROVE  \E t, h : Planned(p, t, h)
  <1>. DEFINE K == CallRel(p, {})
              C == Calls(Steps)
              o == [i \in 1..2 |-> OpenFile(i) \o FindDecoder(i)]
              I == FlattenSeq([i \in 1..2 |->
                     << Call("open_input_file", o[i], "exit"),
                        Call("av_dump_format", << Sure({In(i)}, {}) >>, "exit") >>])
              g == Call("init_filter_graph", TwoInputGraph, "ignore")
              w == Call("open_output_file", OpenOutput(1, {Out(1)}), "ignore")
              d == Call("av_dump_format", << Sure({Out(1)}, {}) >>, "exit")
              f == Call("write_output_file_header", write_output_file_header(1), "exit")
              r == Loop("process_all", rounds, "exit")
              z == Call("write_output_file_trailer", WriteTrailer(1), "exit")
              H1 == Inputs(2)
              H2 == H1 \cup TwoInputParts
              H3 == H2 \cup {Io(1), Out(1), Enc(1)}
              H4 == H3 \cup {Muxer(1)}
              P0 == Having({}, 0)
              P1 == Having(H1, 0)
              P2 == Having(H2, 1)
              P3 == Having(H3, 1)
              P4 == Having(H4, 1)
  <1>0. /\ 2 \in 0..Tracks /\ 1..2 \subseteq Track /\ 1 \in Track /\ 2 \in Track
        /\ Firm(Contexts) \subseteq Steps /\ 0 \in Nat /\ 1 \in Nat
    BY TrackType, FirmSubset
  <1>1. /\ H1 \in SUBSET Contexts /\ H2 \in SUBSET Contexts /\ H3 \in SUBSET Contexts
        /\ H4 \in SUBSET Contexts /\ {Dec(1), Dec(2)} \subseteq H1
    <2>1. H1 \in SUBSET Contexts
      BY <1>0, TrackSets
    <2>2. {Dec(1), Dec(2)} \subseteq H1
      BY DEF Inputs
    <2>3. TwoInputParts \in SUBSET Contexts
      BY <1>0, ContextTypes DEF TwoInputParts
    <2>. QED  BY <1>0, <2>1, <2>2, <2>3, ContextTypes
  <1>2. /\ P0 \in SUBSET Stores /\ P1 \in SUBSET Stores /\ P2 \in SUBSET Stores
        /\ P3 \in SUBSET Stores /\ P4 \in SUBSET Stores
    BY HavingType
  <1>3. o \in [1..2 -> Seq(Firm(Contexts))]
    <2>1. \A i \in 1..2 : OpenFile(i) \o FindDecoder(i) \in Seq(Firm(Contexts))
      BY <1>0, InputTypes, ContextTypes, JoinedSeqs
    <2>. QED  BY <2>1
  <1>4. Chain(K, I, P0, P1)
    <2>1. \A i \in 1..2 : \A H \in SUBSET Contexts : \A B :
             Chain(Safe(B), o[i], Having(H, 0), Having(H \cup {In(i), Dec(i)}, 0))
      BY <1>0, InputKnown
    <2>. HIDE DEF o
    <2>. QED  BY <1>0, <1>3, <2>1, InputsKnown
  <1>5. I \in Seq(C)
    <2>1. I \in Seq(MixerCall)
      <3>. HIDE DEF o
      <3>. QED  BY <1>0, <1>3, InputCalls
    <2>2. MixerCall \subseteq C
      BY DEF MixerCall, PlainCall, Calls, Quiet
    <2>. HIDE DEF I, C
    <2>. QED  BY <2>1, <2>2
  <1>6. ASSUME NEW nm \in Names, nm \notin {"transcode", "end"}, NEW e \in {"exit", "ignore"},
               nm \notin FoundOutLater, NEW b \in Seq(Steps),
               NEW P \in SUBSET Stores, NEW Q \in SUBSET Stores, Chain(Safe(Q), b, P, Q)
        PROVE  /\ << P, Call(nm, b, e), Q >> \in K /\ Call(nm, b, e) \in C
               /\ P = Q => << P, Loop(nm, b, e), Q >> \in K /\ Loop(nm, b, e) \in C
    BY <1>6, CallKnown, CallTypes
  <1>7. << P1, g, P2 >> \in K /\ g \in C
    <2>1. Chain(Safe(P2), TwoInputGraph, P1, P2) /\ TwoInputGraph \in Seq(Steps)
      BY <1>1, TwoInputGraphKnown
    <2>. HIDE DEF P1, P2, K, C
    <2>. QED  BY <1>2, <1>6, <2>1 DEF Names, FoundOutLater
  <1>8. << P2, w, P3 >> \in K /\ w \in C
    <2>1. Chain(Safe(P3), OpenOutput(1, {Out(1)}), P2, P3)
      <3>1. {Out(1)} \in SUBSET (H2 \cup {Out(1)}) /\ Dec(1) \in H2
        BY <1>1
      <3>. HIDE DEF H2
      <3>. QED  BY <1>0, <1>1, <3>1, OutputKnown
    <2>2. OpenOutput(1, {Out(1)}) \in Seq(Steps)
      <3>1. OpenOutput(1, {Out(1)}) \in Seq(Firm(Contexts))
        BY <1>0, OutputTypes, ContextTypes
      <3>. QED  BY <1>0, <3>1
    <2>. HIDE DEF P3, P2, K, C
    <2>. QED  BY <1>2, <1>6, <2>1, <2>2 DEF Names, FoundOutLater
  <1>9. << P3, d, P3 >> \in K /\ d \in C
    <2>1. << P3, Sure({Out(1)}, {}), P3 >> \in Safe(P3)
      <3>1. {Out(1)} \in SUBSET H3
        OBVIOUS
      <3>. HIDE DEF H3
      <3>. QED  BY <1>0, <1>1, <3>1, Opens DEF Safe
    <2>2. Sure({Out(1)}, {}) \in Steps
      BY <2>1 DEF Safe, Takes
    <2>. HIDE DEF P3, K, C
    <2>3. Chain(Safe(P3), << Sure({Out(1)}, {}) >>, P3, P3) /\ << Sure({Out(1)},
            {}) >> \in Seq(Steps)
      BY <1>2, <2>1, <2>2, ChainOfOne
    <2>. QED  BY <1>2, <1>6, <2>3 DEF Names, FoundOutLater
  <1>10. << P3, f, P4 >> \in K /\ f \in C
    <2>1. Chain(Safe(P4), write_output_file_header(1), P3, P4)
      <3>1. Out(1) \in H3
        OBVIOUS
      <3>. HIDE DEF H3
      <3>. QED  BY <1>0, <1>1, <3>1, OutputKnown
    <2>2. write_output_file_header(1) \in Seq(Steps)
      <3>1. write_output_file_header(1) \in Seq(Firm(Contexts))
        BY <1>0, OutputTypes, ContextTypes
      <3>. QED  BY <1>0, <3>1
    <2>. HIDE DEF P3, P4, K, C
    <2>. QED  BY <1>2, <1>6, <2>1, <2>2 DEF Names, FoundOutLater
  <1>11. << P4, r, P4 >> \in K /\ r \in C
    <2>1. Chain(Safe(P4), rounds, P4, P4) /\ rounds \in Seq(Steps)
      <3>1. H4 = AmixOpen
        BY DEF AmixOpen
      <3>. HIDE DEF H4
      <3>. QED  BY <1>0, <3>1
    <2>. HIDE DEF P4, K, C
    <2>. QED  BY <1>2, <1>6, <2>1 DEF Names, FoundOutLater
  <1>12. << P4, z, P0 >> \in K /\ z \in C
    <2>1. Chain(Safe(P0), WriteTrailer(1), P4, P0)
      <3>1. {Out(1), Muxer(1)} \subseteq H4
        OBVIOUS
      <3>. HIDE DEF H4
      <3>. QED  BY <1>0, <1>1, <3>1, OutputKnown
    <2>2. WriteTrailer(1) \in Seq(Steps)
      <3>1. WriteTrailer(1) \in Seq(Firm(Contexts))
        BY <1>0, OutputTypes, ContextTypes
      <3>. QED  BY <1>0, <3>1
    <2>. HIDE DEF P4, P0, K, C
    <2>. QED  BY <1>2, <1>6, <2>1, <2>2 DEF Names, FoundOutLater
  <1>13. Code[p] = ((I \o << g, w, d, f >>) \o << r >>) \o << z >>
    BY DEF TwoInputText
  <1>. HIDE DEF K, C, I, g, w, d, f, r, z, P0, P1, P2, P3, P4
  <1>14. Chain(K, ((I \o << g, w, d, f >>) \o << r >>) \o << z >>, P0, P0)
    <2>1. Chain(K, << g, w, d, f >>, P1, P4)
      BY <1>2, <1>7, <1>8, <1>9, <1>10, ChainOf4
    <2>2. << g, w, d, f >> \in Seq(C)
      BY <1>7, <1>8, <1>9, <1>10
    <2>3. Chain(K, I \o << g, w, d, f >>, P0, P4) /\ I \o << g, w, d, f >> \in Seq(C)
      BY <1>4, <1>5, <2>1, <2>2, ChainJoin, Joined
    <2>4. << r >> \in Seq(C) /\ << z >> \in Seq(C) /\ Chain(K, << r >>, P4, P4) /\ Chain(K,
            << z >>, P4, P0)
      BY <1>2, <1>11, <1>12, ChainOfOne
    <2>5. Chain(K, (I \o << g, w, d, f >>) \o << r >>, P0, P4)
          /\ (I \o << g, w, d, f >>) \o << r >> \in Seq(C)
      BY <2>3, <2>4, ChainJoin, Joined
    <2>. QED  BY <2>4, <2>5, ChainJoin
  <1>15. << NothingOpen, 0 >> \in P0 /\ {} \in SUBSET Stores
    BY NothingAtFirst DEF P0
  <1>. QED  BY <1>13, <1>14, <1>15, PlannedFrom DEF K

\* How amix and its copy read their frames, and their rounds.
AmixFrames == [i \in 1..2 |-> CheckedFrame \o decode_audio_frame_amix(i)]
CopyFrames == [i \in 1..2 |-> init_input_frame \o decode_audio_frame_copy(i)]
TwoInputRounds(d) ==
    ((FlattenSeq([i \in 1..2 |->
         d[i] \o << Maybe(Try({Src(1, i), Frame}, {}, {})), Release({Frame}) >>])
      \o << Unchecked({}, {Frame}), PullSink(1) >>)
     \o encode_audio_frame(1)) \o << Release({Frame}) >>

\* amix and its copy in these terms.
LEMMA AmixTexts ==
    /\ main_amix = TwoInputText(TwoInputRounds(AmixFrames))
    /\ main_copy = TwoInputText(TwoInputRounds(CopyFrames))
    /\ \A G \in SUBSET Contexts : Frame \in G =>
         AmixFrames \in [1..2 -> Seq(Firm(G))] /\ CopyFrames \in [1..2 -> Seq(Firm(G))]
  <1>1. main_amix = TwoInputText(TwoInputRounds(AmixFrames))
    BY DEF main_amix, TwoInputText, TwoInputs, OpenInputs, ForEach, open_input_file_amix,
           init_filter_graph_amix, open_output_file_amix, write_output_file_header_amix,
           process_all_amix, encode_audio_frame_amix, write_output_file_trailer_amix,
           AmixFrames, TwoInputRounds
  <1>2. main_copy = TwoInputText(TwoInputRounds(CopyFrames))
    BY DEF main_copy, TwoInputText, TwoInputs, OpenInputs, ForEach, open_input_file_copy,
           init_filter_graph_copy, open_output_file_copy, write_output_file_header_copy,
           process_all_copy, encode_audio_frame_copy, write_output_file_trailer_copy,
           CopyFrames, TwoInputRounds
  <1>3. ASSUME NEW G \in SUBSET Contexts, Frame \in G
        PROVE  AmixFrames \in [1..2 -> Seq(Firm(G))] /\ CopyFrames \in [1..2 -> Seq(Firm(G))]
    <2>1. ASSUME NEW i \in 1..2
          PROVE  /\ CheckedFrame \o decode_audio_frame_amix(i) \in Seq(Firm(G))
                 /\ init_input_frame \o decode_audio_frame_copy(i) \in Seq(Firm(G))
      <3>1. i \in Track
        BY TrackType
      <3>. QED  BY <1>3, <3>1, RoundTypes, Joined
                DEF decode_audio_frame_amix, decode_audio_frame_copy
    <2>. QED  BY <2>1 DEF AmixFrames, CopyFrames
  <1>. QED  BY <1>1, <1>2, <1>3

\* The drivers amix, and backupINET, whose text is the same.
LEMMA AmixPlanned == \A p \in {"amix", "amix_copy", "backupINET"} : \E t, h : Planned(p, t, h)
  <1>. DEFINE H == AmixOpen
              G == H \cup {Frame}
  <1>0. /\ 2 \in Nat /\ 1 \in Nat /\ 1 <= 1 /\ 2 <= Tracks /\ 1 \in Track /\ 2 \in Track
        /\ \A i \in 1..2 : i \in Track /\ (i = 1 \/ i = 2)
    BY TrackType
  <1>1. H \in SUBSET Contexts /\ Frame \notin H
    <2>1. 2 \in 0..Tracks
      BY TrackType
    <2>2. /\ Inputs(2) \in SUBSET Contexts /\ Frame \notin Inputs(2)
      BY <2>1, TrackSets
    <2>3. {Graph(1), Src(1, 1), Src(1, 2), Sink(1), Io(1), Out(1), Enc(1),
            Muxer(1)} \subseteq Contexts
      BY <1>0, ContextTypes
    <2>4. Frame \notin {Graph(1), Src(1, 1), Src(1, 2), Sink(1), Io(1), Out(1), Enc(1), Muxer(1)}
      BY DEF Frame, Data, Graph, Src, Sink, Io, Out, Enc, Muxer
    <2>. QED  BY <2>2, <2>3, <2>4 DEF AmixOpen, TwoInputParts
  <1>2. /\ \A i \in 1..2 : {In(i), Dec(i)} \subseteq H /\ Src(1, i) \in H
        /\ {Out(1), Enc(1), Muxer(1)} \subseteq H
    <2>1. \A i \in 1..2 : Src(1, i) \in TwoInputParts
      BY <1>0 DEF TwoInputParts
    <2>. QED  BY <2>1 DEF AmixOpen, Inputs
  <1>. HIDE DEF H
  <1>3. ASSUME NEW d \in {AmixFrames, CopyFrames}, NEW B
        PROVE  /\ TwoInputRounds(d) \in Seq(Firm(Contexts))
               /\ Chain(Safe(B), TwoInputRounds(d), Having(H, 1), Having(H, 1))
    <2>1. d \in [1..2 -> Seq(Firm(Contexts))]
      BY AmixTexts, ContextTypes
    <2>2. encode_audio_frame(1) \in Seq(Firm(Contexts))
      BY <1>0, RoundTypes, ContextTypes
    <2>3. Chain(Safe(B), encode_audio_frame(1), Having(G, 1), Having(G, 1))
      BY <1>0, <1>1, <1>2, FrameKnown
    <2>4. \A i \in 1..2 : Chain(Safe(B), d[i], Having(H, 1), Having(G, 1))
      <3>. SUFFICES ASSUME NEW i \in 1..2 PROVE Chain(Safe(B), d[i], Having(H, 1), Having(G, 1))
        OBVIOUS
      <3>1. /\ Chain(Safe(B), init_input_frame, Having(H, 1), Having(G, 1))
            /\ Chain(Safe(B), CheckedFrame, Having(H, 1), Having(G, 1))
            /\ Chain(Safe(B), decode_audio_frame_copy(i), Having(G, 1), Having(G, 1))
            /\ Chain(Safe(B), decode_audio_frame_amix(i), Having(G, 1), Having(G, 1))
        BY <1>0, <1>1, <1>2, FrameKnown DEF decode_audio_frame_copy, decode_audio_frame_amix
      <3>2. /\ init_input_frame \in Seq(Firm(Contexts)) /\ CheckedFrame \in Seq(Firm(Contexts))
            /\ decode_audio_frame_copy(i) \in Seq(Firm(Contexts))
            /\ decode_audio_frame_amix(i) \in Seq(Firm(Contexts))
        BY <1>0, RoundTypes, ContextTypes DEF decode_audio_frame_copy, decode_audio_frame_amix
      <3>. HIDE DEF G
      <3>3. /\ Chain(Safe(B), init_input_frame \o decode_audio_frame_copy(i), Having(H, 1),
                 Having(G, 1))
            /\ Chain(Safe(B), CheckedFrame \o decode_audio_frame_amix(i), Having(H, 1), Having(G,
                1))
        BY <3>1, <3>2, ChainJoin
      <3>4. CASE d = AmixFrames
        BY <3>3, <3>4 DEF AmixFrames
      <3>5. CASE d = CopyFrames
        BY <3>3, <3>5 DEF CopyFrames
      <3>. QED  BY <3>4, <3>5
    <2>5. TwoInputRounds(d) \in Seq(Firm(Contexts))
      <3>. DEFINE F == Firm(Contexts)
                  Read(i) == d[i] \o << Maybe(Try({Src(1, i), Frame}, {}, {})), Release({Frame}) >>
      <3>1. \A i \in 1..2 : Read(i) \in Seq(F)
        <4>1. \A i \in 1..2 : /\ d[i] \in Seq(F)
                              /\ << Maybe(Try({Src(1, i), Frame}, {}, {})),
                                  Release({Frame}) >> \in Seq(F)
          BY <1>0, <2>1, RoundTypes, ContextTypes
        <4>. HIDE DEF F
        <4>. QED  BY <4>1, Joined
      <3>2. /\ << Unchecked({}, {Frame}),
                 PullSink(1) >> \in Seq(F) /\ << Release({Frame}) >> \in Seq(F)
        BY <1>0, RoundTypes, ContextTypes
      <3>. HIDE DEF F, Read
      <3>3. FlattenSeq([i \in 1..2 |-> Read(i)]) \in Seq(F)
        BY <1>0, <3>1, JoinedSeqs
      <3>. QED  BY <2>2, <3>2, <3>3, Joined DEF F, Read, TwoInputRounds
    <2>6. \A i \in 1..2 : Src(1, i) \in H
      BY <1>2
    <2>. DEFINE r == ((FlattenSeq([k \in 1..2 |->
                     d[k] \o << Maybe(Try({Src(1, k), Frame}, {}, {})), Release({Frame}) >>])
                   \o << Unchecked({}, {Frame}), PullSink(1) >>) \o encode_audio_frame(1))
                 \o << Release({Frame}) >>
    <2>7. Chain(Safe(B), r, Having(H, 1), Having(H, 1))
      BY <1>0, <1>1, <2>1, <2>2, <2>3, <2>4, <2>6, OneSinkKnown
    <2>8. TwoInputRounds(d) = r
      BY DEF TwoInputRounds
    <2>. QED  BY <2>5, <2>7, <2>8
  <1>4. ASSUME NEW p \in Program, NEW d \in {AmixFrames, CopyFrames},
               Code[p] = TwoInputText(TwoInputRounds(d))
        PROVE  \E t, h : Planned(p, t, h)
    <2>1. /\ TwoInputRounds(d) \in Seq(Firm(Contexts))
          /\ \A B : Chain(Safe(B), TwoInputRounds(d), Having(AmixOpen, 1), Having(AmixOpen, 1))
      BY <1>3 DEF H
    <2>. QED  BY <1>4, <2>1, TwoInputTextPlanned
  <1>5. /\ {"amix", "amix_copy", "backupINET"} \subseteq Program
        /\ Code["amix"] = main_amix /\ Code["amix_copy"] = main_copy /\ Code["backupINET"] = main_inet
    BY DEF Program, Code
  <1>. QED  BY <1>4, <1>5, AmixTexts, SameText

\* All the mixers.
LEMMA MixersPlanned ==
    \A p \in {"filter_audio", "ann_4_05", "working_31_03", "broken_4", "nfilter_3", "FFMPEGtest2",
              "CDecoder", "sdp_2", "filter_1_1", "amix", "amix_copy", "backupINET"} :
      \E t, h : Planned(p, t, h)
  <1>1. /\ {"filter_audio", "ann_4_05", "working_31_03", "FFMPEGtest2", "broken_4", "nfilter_3"}
             \subseteq Program
        /\ \A p \in {"ann_4_05", "working_31_03", "FFMPEGtest2"} : Code[p] = Code["filter_audio"]
        /\ Code["nfilter_3"] = Code["broken_4"]
    BY SameText DEF Program, Code
  <1>2. /\ \A p \in {"ann_4_05", "working_31_03", "FFMPEGtest2"} : \E t, h : Planned(p, t, h)
        /\ \E t, h : Planned("nfilter_3", t, h)
    BY <1>1, ClientMixersPlanned, PlannedSame
  <1>. QED  BY <1>2, ClientMixersPlanned, OneGraphPlanned, AmixPlanned

-----------------------------------------------------------------------------
(* The programs of one track: what their steps make known                  *)

\* What the programs of one track know: the contexts H are open, and of each pair
\* of C the second is if the first is set.
Certain(H, C) == Known(H, C, 0)

\* The step s is defined where Certain(H, C) is known, and makes Certain(K, D) known.
Fits(s, H, C, K, D) ==
    /\ s \in Quiet(Contexts) /\ s.needs = {} /\ s.pull = 0
    /\ s.uses \subseteq OpenAt(s, H, C)
    /\ \A c \in s.frees : Owned(c) \/ c \in OpenAt(s, H, C)
    /\ \A c \in K : /\ c \in s.gives \/ (c \in OpenAt(s, H, C) /\ c \in Kept(s))
                    /\ Passing(s) => c \in H
    /\ \A d \in D : /\ \/ d[2] \in s.gives
                       \/ d[2] \in OpenAt(s, H, C) /\ d[2] \in Kept(s)
                       \/ d[1] \notin s.gives /\ d[1] \in s.frees
                       \/ d[1] \notin s.gives /\ d \in C /\ d[2] \in Kept(s)
                    /\ \/ d \in C
                       \/ d[2] \in H
                       \/ ~s.skipped /\ s.only \subseteq {d[1]}

\* A step that fits is defined, and makes known what it should.
LEMMA StepFits ==
    ASSUME NEW H \in SUBSET Contexts, NEW K \in SUBSET Contexts,
           NEW C \in SUBSET (Contexts \X Contexts), NEW D \in SUBSET (Contexts \X Contexts),
           NEW s, Fits(s, H, C, K, D), NEW E, NEW B,
           s.failure = "returned" => E = Stores \/ (s.undo = {} /\ Certain(H, C) \subseteq E),
           s.failure = "break" => Certain(H, C) \subseteq B
    PROVE  << Certain(H, C), s, Certain(K, D) >> \in Takes(E, B)
  <1>1. s \in Steps /\ s.needs = {} /\ s.pull <= 0 /\ 0 \in Nat /\ 0 <= 0
    BY DEF Fits, Quiet
  <1>2. s.failure = "returned" =>
          \A x \in Known(H, C, 0) : Holds(s, x[1]) => << Free(x[1], s.undo), x[2] >> \in E
    <2>. SUFFICES ASSUME s.failure = "returned", NEW x \in Known(H, C, 0)
                  PROVE  << Free(x[1], s.undo), x[2] >> \in E
      OBVIOUS
    <2>1. x \in Stores
      BY DEF Known
    <2>2. CASE E = Stores
      BY <2>1, <2>2, StoreTypes
    <2>3. CASE s.undo = {} /\ Certain(H, C) \subseteq E
      <3>1. x = << x[1], x[2] >> /\ x[1] \in [Contexts -> PointerStates]
        BY <2>1, StoreTypes
      <3>2. Free(x[1], {}) = x[1]
        BY <3>1 DEF Free
      <3>. QED  BY <2>3, <3>1, <3>2 DEF Certain
    <2>. QED  BY <2>2, <2>3
  <1>3. s.failure = "break" => Known(H, C, 0) \subseteq B
    BY DEF Certain
  <1>. QED  BY <1>1, <1>2, <1>3, StepKnown DEF Fits, Certain

\* Less may be known than is the case.
LEMMA CertainTypes ==
    /\ \A H, C : Certain(H, C) \in SUBSET Stores
    /\ \A H, C, K, D : K \subseteq H /\ D \subseteq C => Certain(H, C) \subseteq Certain(K, D)
  BY KnownTypes DEF Certain

\* All pointers are NULL when main begins.
LEMMA CertainAtFirst == \A C \in SUBSET (Contexts \X Contexts) : << NothingOpen,
    0 >> \in Certain({}, C)
  <1>1. << NothingOpen, 0 >>[1] = NothingOpen /\ << NothingOpen, 0 >>[2] = 0
    OBVIOUS
  <1>2. NothingOpen \in [Contexts -> PointerStates] /\ \A c \in Contexts : NothingOpen[c] = "null"
    BY DEF NothingOpen, PointerStates
  <1>3. << NothingOpen, 0 >> \in Stores
    BY <1>2 DEF Stores
  <1>. QED  BY <1>1, <1>2, <1>3 DEF Certain, Known

\* A call of which every step is defined.
LEMMA CallFits ==
    ASSUME NEW p, NEW T, NEW nm \in Names,
           NEW e \in {"exit", "ignore", "cleanup"}, NEW E,
           NEW b \in Seq(Steps), NEW P \in SUBSET Stores, NEW Q \in SUBSET Stores,
           E = IF e = "cleanup" THEN T
               ELSE IF e = "ignore" /\ nm \in FoundOutLater THEN Q ELSE Stores,
           nm = "end" => T \subseteq P,
           nm \in FoundOutLater => \A m \in 1..Len(b) : b[m].failure # "unnoticed"
    PROVE  /\ Chain(Takes(E, Q), b, P, Q) => << P, Call(nm, b, e), Q >> \in CallRel(p, T)
           /\ P \subseteq Q /\ Chain(Takes(E, Q), b, P, P) => << P, Loop(nm, b, e),
               Q >> \in CallRel(p, T)
  BY TakesLess, CallHoles

\* A step that only dereferences what need not be there leaves all as it is.
LEMMA HoleKept ==
    ASSUME NEW s \in Steps, s.needs = {}, s.frees = {}, s.gives = {}, s.push = 0,
           s.failure = "never", NEW H, s.uses \in H, NEW P \in SUBSET Stores, NEW E, NEW B
    PROVE  << P, s, P >> \in TakesBut(H, E, B)
  <1>1. ASSUME NEW x \in P PROVE After(s, x) = x
    <2>1. x = << x[1], x[2] >> /\ x[2] \in Nat /\ x[1] \in [Contexts -> PointerStates]
      BY StoreTypes
    <2>2. Give(Free(x[1], {}), {}) = x[1]
      BY <2>1 DEF Give, Free
    <2>3. x[2] + 0 = x[2]
      BY <2>1
    <2>. QED  BY <2>1, <2>2, <2>3 DEF After
  <1>. QED  BY <1>1 DEF TakesBut

\* The contexts of a program of one track.
LEMMA OneTrack ==
    /\ {In(1), Dec(1), Out(1), Io(1), Io(2), Enc(1), Muxer(1), Graph(1), Src(1, 1), Sink(1),
        Data(1), Data(2), Frame} \subseteq Contexts
    /\ Whole(In(1)) = In(1) /\ Whole(Dec(1)) = In(1) /\ Whole(Out(1)) = Out(1)
    /\ Whole(Io(1)) = Io(1) /\ Whole(Io(2)) = Io(2) /\ Whole(Enc(1)) = Out(1)
    /\ Whole(Muxer(1)) = Out(1) /\ Whole(Graph(1)) = Graph(1) /\ Whole(Src(1, 1)) = Graph(1)
    /\ Whole(Sink(1)) = Graph(1) /\ Whole(Data(1)) = Data(1) /\ Whole(Data(2)) = Data(2)
    /\ Whole(Frame) = Frame
    /\ In(1)[1] = "in" /\ Dec(1)[1] = "dec" /\ Out(1)[1] = "out" /\ Io(1)[1] = "io"
    /\ Io(2)[1] = "io" /\ Enc(1)[1] = "enc" /\ Muxer(1)[1] = "muxer" /\ Graph(1)[1] = "graph"
    /\ Src(1, 1)[1] = "src" /\ Sink(1)[1] = "sink" /\ Data(1)[1] = "data" /\ Data(2)[1] = "data"
    /\ Frame[1] = "data" /\ Io(1) # Io(2) /\ Data(1) # Data(2) /\ Frame # Data(1) /\ Frame # Data(2)
  <1>1. 1 \in Track /\ 2 \in Track /\ 1 \in 0..3 /\ 2 \in 0..3
    BY TrackType
  <1>2. {In(1), Dec(1), Out(1), Io(1), Io(2), Enc(1), Muxer(1), Graph(1), Src(1, 1), Sink(1),
         Data(1), Data(2), Frame} \subseteq Contexts
    BY <1>1, ContextTypes
  <1>. QED  BY <1>2 DEF Whole, In, Dec, Out, Io, Enc, Muxer, Graph, Src, Sink, Data, Frame

\* The step s uses u, gives g and frees f, when all of o are set; it may be left
\* out if k holds.  Its failure is e; d is then freed.
Shape(s, u, g, f, o, k, e, d) ==
    /\ s \in Quiet(Contexts) /\ s.needs = {} /\ s.pull = 0
    /\ s.uses = u /\ s.gives = g /\ s.frees = f /\ s.only = o /\ s.skipped = k
    /\ s.failure = e /\ s.undo = d

\* Such a step is defined where Certain(H, C) is known, and makes Certain(K, D) known.
Leads(u, g, f, o, k, H, C, K, D) ==
    LET At == H \cup {c \in Contexts : \E x \in o : << x, c >> \in C}
        Keeps(c) == c \notin f /\ Whole(c) \notin f
    IN /\ u \subseteq At
       /\ \A c \in f : Owned(c) \/ c \in At
       /\ \A c \in K : /\ c \in g \/ (c \in At /\ Keeps(c))
                       /\ k \/ o # {} => c \in H
       /\ \A x \in D : /\ \/ x[2] \in g
                          \/ x[2] \in At /\ Keeps(x[2])
                          \/ x[1] \notin g /\ x[1] \in f
                          \/ x[1] \notin g /\ x \in C /\ Keeps(x[2])
                       /\ \/ x \in C
                          \/ x[2] \in H
                          \/ ~k /\ o \subseteq {x[1]}
       /\ H \in SUBSET Contexts /\ K \in SUBSET Contexts
       /\ C \in SUBSET (Contexts \X Contexts) /\ D \in SUBSET (Contexts \X Contexts)

\* Where P is known, such a failure may be followed by E, and end a loop with B.
Errs(e, d, P, E, B) ==
    /\ e = "returned" => E = Stores \/ (d = {} /\ P \subseteq E)
    /\ e = "break" => P \subseteq B

\* A step of that shape takes a program from what is known to what it leads to.
LEMMA StepLeads ==
    ASSUME NEW s, NEW u, NEW g, NEW f, NEW o, NEW k, NEW e, NEW d, Shape(s, u, g, f, o, k, e, d),
           NEW H, NEW C, NEW K, NEW D, Leads(u, g, f, o, k, H, C, K, D),
           NEW E, NEW B, Errs(e, d, Certain(H, C), E, B)
    PROVE  << Certain(H, C), s, Certain(K, D) >> \in Takes(E, B)
  <1>1. /\ H \in SUBSET Contexts /\ K \in SUBSET Contexts
        /\ C \in SUBSET (Contexts \X Contexts) /\ D \in SUBSET (Contexts \X Contexts)
    BY DEF Leads
  <1>1a. o \subseteq Contexts /\ f \subseteq Contexts
    BY DEF Shape, Quiet, Steps
  <1>2. /\ OpenAt(s, H, C) = H \cup {c \in Contexts : \E x \in o : << x, c >> \in C}
        /\ \A c \in Contexts : c \in Kept(s) <=> c \notin f /\ Whole(c) \notin f
        /\ Passing(s) <=> k \/ o # {}
    BY DEF Shape, OpenAt, Kept, Passing
  <1>3. Fits(s, H, C, K, D)
    <2>1. /\ s \in Quiet(Contexts) /\ s.needs = {} /\ s.pull = 0
          /\ s.uses = u /\ s.gives = g /\ s.frees = f /\ s.only = o /\ s.skipped = k
      BY DEF Shape
    <2>2. s.uses \subseteq OpenAt(s, H, C) /\ \A c \in s.frees : Owned(c) \/ c \in OpenAt(s, H, C)
      BY <1>2, <2>1 DEF Leads
    <2>3. \A c \in K : /\ c \in s.gives \/ (c \in OpenAt(s, H, C) /\ c \in Kept(s))
                       /\ Passing(s) => c \in H
      BY <1>1, <1>2, <2>1 DEF Leads
    <2>4. \A x \in D : x[1] \in Contexts /\ x[2] \in Contexts
      BY <1>1
    <2>5. \A x \in D : /\ \/ x[2] \in s.gives
                          \/ x[2] \in OpenAt(s, H, C) /\ x[2] \in Kept(s)
                          \/ x[1] \notin s.gives /\ x[1] \in s.frees
                          \/ x[1] \notin s.gives /\ x \in C /\ x[2] \in Kept(s)
                       /\ \/ x \in C
                          \/ x[2] \in H
                          \/ ~s.skipped /\ s.only \subseteq {x[1]}
      BY <1>2, <2>1, <2>4 DEF Leads
    <2>. QED  BY <2>1, <2>2, <2>3, <2>5 DEF Fits
  <1>4. s.failure = e /\ s.undo = d
    BY DEF Shape
  <1>5. /\ s.failure = "returned" => E = Stores \/ (s.undo = {} /\ Certain(H, C) \subseteq E)
        /\ s.failure = "break" => Certain(H, C) \subseteq B
    BY <1>4 DEF Errs
  <1>. QED  BY <1>1, <1>3, <1>5, StepFits

\* The shapes of the steps a text is written with.
LEMMA Shapes ==
    /\ \A u, g, d \in SUBSET Contexts :
         /\ Shape(Sure(u, g), u, g, {}, {}, FALSE, "never", {})
         /\ Shape(Try(u, g, d), u, g, {}, {}, FALSE, "returned", d)
         /\ Shape(Unchecked(u, g), u, g, {}, {}, FALSE, "unnoticed", {})
         /\ Shape(TryOrBreak(u, g), u, g, {}, {}, FALSE, "break", {})
         /\ Shape(Release(d), {}, {}, d, {}, FALSE, "never", {})
         /\ Shape(Move(u, g), u, g, u, {}, FALSE, "never", {})
    /\ \A s, u, g, f, k, e, d : Shape(s, u, g, f, {}, k, e, d) =>
         \A c \in Contexts : Shape(If(c, s), u, g, f, {c}, k, e, d)
    /\ \A s, u, g, f, o, k, e, d : Shape(s, u, g, f, o, k, e, d) =>
         Shape(Maybe(s), u, g, f, o, TRUE, e, d)
  <1>1. ASSUME NEW u \in SUBSET Contexts, NEW g \in SUBSET Contexts, NEW d \in SUBSET Contexts
        PROVE  /\ Shape(Sure(u, g), u, g, {}, {}, FALSE, "never", {})
               /\ Shape(Try(u, g, d), u, g, {}, {}, FALSE, "returned", d)
               /\ Shape(Unchecked(u, g), u, g, {}, {}, FALSE, "unnoticed", {})
               /\ Shape(TryOrBreak(u, g), u, g, {}, {}, FALSE, "break", {})
               /\ Shape(Release(d), {}, {}, d, {}, FALSE, "never", {})
               /\ Shape(Move(u, g), u, g, u, {}, FALSE, "never", {})
    <2>1. /\ Sure(u, g) \in Quiet(Contexts) /\ Try(u, g, d) \in Quiet(Contexts)
          /\ Unchecked(u, g) \in Quiet(Contexts) /\ TryOrBreak(u, g) \in Quiet(Contexts)
          /\ Release(d) \in Quiet(Contexts) /\ Move(u, g) \in Quiet(Contexts)
      BY QuietTypes
    <2>2. /\ Shape(Sure(u, g), u, g, {}, {}, FALSE, "never", {})
          /\ Shape(Release(d), {}, {}, d, {}, FALSE, "never", {})
      BY <2>1 DEF Shape, Sure, Release
    <2>3. Shape(Try(u, g, d), u, g, {}, {}, FALSE, "returned", d)
      BY <2>1 DEF Shape, Sure, Try
    <2>4. Shape(Unchecked(u, g), u, g, {}, {}, FALSE, "unnoticed", {})
      BY <2>1 DEF Shape, Sure, Unchecked
    <2>5. Shape(TryOrBreak(u, g), u, g, {}, {}, FALSE, "break", {})
      BY <2>1 DEF Shape, Sure, TryOrBreak
    <2>6. Shape(Move(u, g), u, g, u, {}, FALSE, "never", {})
      BY <2>1 DEF Shape, Sure, Move
    <2>. QED  BY <2>2, <2>3, <2>4, <2>5, <2>6
  <1>2. ASSUME NEW s, NEW u, NEW g, NEW f, NEW k, NEW e, NEW d, Shape(s, u, g, f, {}, k, e, d),
               NEW c \in Contexts
        PROVE  Shape(If(c, s), u, g, f, {c}, k, e, d)
    <2>1. s \in Quiet(Contexts) /\ If(c, s) \in Quiet(Contexts)
      BY <1>2, QuietTypes DEF Shape
    <2>. QED  BY <1>2, <2>1 DEF Shape, If, Quiet, Steps
  <1>3. ASSUME NEW s, NEW u, NEW g, NEW f, NEW o, NEW k, NEW e, NEW d,
               Shape(s, u, g, f, o, k, e, d)
        PROVE  Shape(Maybe(s), u, g, f, o, TRUE, e, d)
    <2>1. s \in Quiet(Contexts) /\ Maybe(s) \in Quiet(Contexts)
      BY <1>3, QuietTypes DEF Shape
    <2>2. s \in Steps /\ Maybe(s) = [s EXCEPT !.skipped = TRUE]
      BY <2>1 DEF Quiet, Maybe
    <2>3. /\ Maybe(s).uses = s.uses /\ Maybe(s).gives = s.gives /\ Maybe(s).frees = s.frees
          /\ Maybe(s).only = s.only /\ Maybe(s).failure = s.failure /\ Maybe(s).undo = s.undo
          /\ Maybe(s).needs = s.needs /\ Maybe(s).pull = s.pull
      BY <2>2 DEF Steps
    <2>4. Maybe(s).skipped = TRUE
      BY <2>2 DEF Steps
    <2>5. /\ s.needs = {} /\ s.pull = 0
          /\ s.uses = u /\ s.gives = g /\ s.frees = f /\ s.only = o
          /\ s.failure = e /\ s.undo = d
      BY <1>3 DEF Shape
    <2>. QED  BY <2>1, <2>3, <2>4, <2>5 DEF Shape
  <1>. QED  BY <1>1, <1>2, <1>3

-----------------------------------------------------------------------------
(* The programs of one track                                               *)

\* Where nothing is asked for, nothing is known.
LEMMA EmptyCertain == Certain({}, {}) = Stores
  <1>1. \A x \in Stores : x[2] \in Nat
    BY StoreTypes
  <1>. QED  BY <1>1 DEF Certain, Known

\* RTP: every error ends the process, so nothing has to be known at its end.
LEMMA RtpPlanned == \E t, h : Planned("RTP", t, h)
  <1>. DEFINE H0 == {}
              C0 == {}
              H1 == {In(1)}
              C1 == {}
              H2 == {In(1), Out(1)}
              C2 == {}
              H3 == {In(1), Out(1), Enc(1)}
              C3 == {}
              H4 == {In(1), Out(1), Muxer(1)}
              C4 == {}
              P0 == Certain(H0, C0)
              P1 == Certain(H1, C1)
              P2 == Certain(H2, C2)
              P3 == Certain(H3, C3)
              P4 == Certain(H4, C4)
              R == CallRel("RTP", {})
  <1>1. /\ Leads({}, {In(1)}, {}, {}, FALSE, H0, C0, H1, C1)
        /\ Leads({In(1)}, {}, {}, {}, FALSE, H1, C1, H1, C1)
        /\ Leads({}, {Out(1)}, {}, {}, FALSE, H1, C1, H2, C2)
        /\ Leads({Out(1)}, {Io(1)}, {}, {}, FALSE, H2, C2, H2, C2)
        /\ Leads({In(1)}, {}, {}, {}, FALSE, H2, C2, H2, C2)
        /\ Leads({Out(1)}, {Enc(1)}, {}, {}, FALSE, H2, C2, H3, C3)
        /\ Leads({Enc(1), In(1)}, {}, {}, {}, FALSE, H3, C3, H2, C2)
        /\ Leads({Out(1)}, {Muxer(1)}, {}, {}, FALSE, H2, C2, H4, C4)
        /\ Leads({In(1)}, {}, {}, {}, FALSE, H4, C4, H4, C4)
        /\ Leads({Out(1), Muxer(1)}, {}, {}, {}, TRUE, H4, C4, H4, C4)
        /\ Leads({Out(1), Muxer(1)}, {}, {}, {}, FALSE, H4, C4, H4, C4)
        /\ Leads({}, {}, {Muxer(1)}, {}, FALSE, H4, C4, H1, C1)
        /\ Leads({}, {}, {In(1)}, {}, FALSE, H1, C1, H0, C0)
    BY OneTrack DEF Leads, Owned
  <1>2. /\ P0 \in SUBSET Stores
        /\ P1 \in SUBSET Stores
        /\ P2 \in SUBSET Stores
        /\ P3 \in SUBSET Stores
        /\ P4 \in SUBSET Stores
    BY CertainTypes
  <1>3. << NothingOpen, 0 >> \in P0
    BY CertainAtFirst
  <1>. HIDE DEF H0, C0, H1, C1, H2, C2, H3, C3, H4, C4
  <1>5. << P0, Call("open", << Try({}, {In(1)}, {In(1)}), Try({In(1)}, {}, {}) >>, "exit"),
          P1 >> \in R
    <2>1. /\ Shape(Try({}, {In(1)}, {In(1)}), {}, {In(1)}, {}, {}, FALSE, "returned", {In(1)})
          /\ Shape(Try({In(1)}, {}, {}), {In(1)}, {}, {}, {}, FALSE, "returned", {})
      BY Shapes, OneTrack
    <2>2. /\ Errs("returned", {In(1)}, P0, Stores, P1)
          /\ Errs("returned", {}, P1, Stores, P1)
      BY <1>2 DEF Errs
    <2>3. /\ << P0, Try({}, {In(1)}, {In(1)}), P1 >> \in Takes(Stores, P1)
          /\ << P1, Try({In(1)}, {}, {}), P1 >> \in Takes(Stores, P1)
      BY <1>1, <2>1, <2>2, StepLeads
    <2>4. Chain(Takes(Stores, P1), << Try({}, {In(1)}, {In(1)}), Try({In(1)}, {}, {}) >>, P0, P1)
      BY <1>2, <2>3, ChainOf2
    <2>5. << Try({}, {In(1)}, {In(1)}), Try({In(1)}, {}, {}) >> \in Seq(Steps)
      <3>1. {Try({}, {In(1)}, {In(1)}), Try({In(1)}, {}, {})} \subseteq Steps
        BY <2>1 DEF Shape, Quiet
      <3>. QED  BY <3>1
    <2>. QED  BY <1>2, <2>4, <2>5, CallFits DEF Names, FoundOutLater
  <1>6. << P1, Call("Create_outRTP_Context", Create_outRTP_Context, "exit"), P2 >> \in R
    <2>1. /\ Shape(Try({}, {Out(1)}, {}), {}, {Out(1)}, {}, {}, FALSE, "returned", {})
          /\ Shape(Try({Out(1)}, {Io(1)}, {}), {Out(1)}, {Io(1)}, {}, {}, FALSE, "returned", {})
          /\ Shape(Try({In(1)}, {}, {}), {In(1)}, {}, {}, {}, FALSE, "returned", {})
          /\ Shape(Unchecked({Out(1)}, {Enc(1)}), {Out(1)}, {Enc(1)}, {}, {}, FALSE, "unnoticed",
              {})
          /\ Shape(Try({Enc(1), In(1)}, {}, {}), {Enc(1), In(1)}, {}, {}, {}, FALSE, "returned", {})
      BY Shapes, OneTrack
    <2>2. /\ Errs("returned", {}, P1, Stores, P2)
          /\ Errs("returned", {}, P2, Stores, P2)
          /\ Errs("unnoticed", {}, P2, Stores, P2)
          /\ Errs("returned", {}, P3, Stores, P2)
      BY <1>2 DEF Errs
    <2>3. /\ << P1, Try({}, {Out(1)}, {}), P2 >> \in Takes(Stores, P2)
          /\ << P2, Try({Out(1)}, {Io(1)}, {}), P2 >> \in Takes(Stores, P2)
          /\ << P2, Try({In(1)}, {}, {}), P2 >> \in Takes(Stores, P2)
          /\ << P2, Unchecked({Out(1)}, {Enc(1)}), P3 >> \in Takes(Stores, P2)
          /\ << P3, Try({Enc(1), In(1)}, {}, {}), P2 >> \in Takes(Stores, P2)
      BY <1>1, <2>1, <2>2, StepLeads
    <2>4. Chain(Takes(Stores, P2), Create_outRTP_Context, P1, P2)
      BY <1>2, <2>3, ChainOf5 DEF Create_outRTP_Context
    <2>5. Create_outRTP_Context \in Seq(Steps)
      <3>1. {Try({}, {Out(1)}, {}), Try({Out(1)}, {Io(1)}, {}), Try({In(1)}, {}, {}),
              Unchecked({Out(1)}, {Enc(1)}), Try({Enc(1), In(1)}, {}, {})} \subseteq Steps
        BY <2>1 DEF Shape, Quiet
      <3>. QED  BY <3>1 DEF Create_outRTP_Context
    <2>. QED  BY <1>2, <2>4, <2>5, CallFits DEF Names, FoundOutLater
  <1>7. << P2, Call("write_output_file_header", << Try({Out(1)}, {Muxer(1)}, {}) >>, "exit"),
          P4 >> \in R
    <2>1. Shape(Try({Out(1)}, {Muxer(1)}, {}), {Out(1)}, {Muxer(1)}, {}, {}, FALSE, "returned", {})
      BY Shapes, OneTrack
    <2>2. Errs("returned", {}, P2, Stores, P4)
      BY <1>2 DEF Errs
    <2>3. << P2, Try({Out(1)}, {Muxer(1)}, {}), P4 >> \in Takes(Stores, P4)
      BY <1>1, <2>1, <2>2, StepLeads
    <2>4. Chain(Takes(Stores, P4), << Try({Out(1)}, {Muxer(1)}, {}) >>, P2, P4)
      BY <1>2, <2>3, ChainOfOne
    <2>5. << Try({Out(1)}, {Muxer(1)}, {}) >> \in Seq(Steps)
      <3>1. {Try({Out(1)}, {Muxer(1)}, {})} \subseteq Steps
        BY <2>1 DEF Shape, Quiet
      <3>. QED  BY <3>1
    <2>. QED  BY <1>2, <2>4, <2>5, CallFits DEF Names, FoundOutLater
  <1>8. << P4, Loop("send", << TryOrBreak({In(1)}, {}), Maybe(Unchecked({Out(1), Muxer(1)},
          {})) >>, "exit"), P4 >> \in R
    <2>1. /\ Shape(TryOrBreak({In(1)}, {}), {In(1)}, {}, {}, {}, FALSE, "break", {})
          /\ Shape(Maybe(Unchecked({Out(1), Muxer(1)}, {})), {Out(1), Muxer(1)}, {}, {}, {}, TRUE,
              "unnoticed", {})
      BY Shapes, OneTrack
    <2>2. /\ Errs("break", {}, P4, Stores, P4)
          /\ Errs("unnoticed", {}, P4, Stores, P4)
      BY <1>2 DEF Errs
    <2>3. /\ << P4, TryOrBreak({In(1)}, {}), P4 >> \in Takes(Stores, P4)
          /\ << P4, Maybe(Unchecked({Out(1), Muxer(1)}, {})), P4 >> \in Takes(Stores, P4)
      BY <1>1, <2>1, <2>2, StepLeads
    <2>4. Chain(Takes(Stores, P4), << TryOrBreak({In(1)}, {}), Maybe(Unchecked({Out(1), Muxer(1)},
            {})) >>, P4, P4)
      BY <1>2, <2>3, ChainOf2
    <2>5. << TryOrBreak({In(1)}, {}), Maybe(Unchecked({Out(1), Muxer(1)}, {})) >> \in Seq(Steps)
      <3>1. {TryOrBreak({In(1)}, {}), Maybe(Unchecked({Out(1), Muxer(1)}, {}))} \subseteq Steps
        BY <2>1 DEF Shape, Quiet
      <3>. QED  BY <3>1
    <2>. QED  BY <1>2, <2>4, <2>5, CallFits DEF Names, FoundOutLater
  <1>9. << P4, Call("write_output_file_trailer", WriteTrailer(1), "ignore"), P1 >> \in R
    <2>1. /\ Shape(Try({Out(1), Muxer(1)}, {}, {}), {Out(1), Muxer(1)}, {}, {}, {}, FALSE,
               "returned", {})
          /\ Shape(Release({Muxer(1)}), {}, {}, {Muxer(1)}, {}, FALSE, "never", {})
      BY Shapes, OneTrack
    <2>2. /\ Errs("returned", {}, P4, Stores, P1)
          /\ Errs("never", {}, P4, Stores, P1)
      BY <1>2 DEF Errs
    <2>3. /\ << P4, Try({Out(1), Muxer(1)}, {}, {}), P4 >> \in Takes(Stores, P1)
          /\ << P4, Release({Muxer(1)}), P1 >> \in Takes(Stores, P1)
      BY <1>1, <2>1, <2>2, StepLeads
    <2>4. Chain(Takes(Stores, P1), WriteTrailer(1), P4, P1)
      BY <1>2, <2>3, ChainOf2 DEF WriteTrailer
    <2>5. WriteTrailer(1) \in Seq(Steps)
      <3>1. {Try({Out(1), Muxer(1)}, {}, {}), Release({Muxer(1)})} \subseteq Steps
        BY <2>1 DEF Shape, Quiet
      <3>. QED  BY <3>1 DEF WriteTrailer
    <2>. QED  BY <1>2, <2>4, <2>5, CallFits DEF Names, FoundOutLater
  <1>10. << P1, Call("end", << Release({In(1)}) >>, "exit"), P0 >> \in R
    <2>1. Shape(Release({In(1)}), {}, {}, {In(1)}, {}, FALSE, "never", {})
      BY Shapes, OneTrack
    <2>2. Errs("never", {}, P1, Stores, P0)
      BY <1>2 DEF Errs
    <2>3. << P1, Release({In(1)}), P0 >> \in Takes(Stores, P0)
      BY <1>1, <2>1, <2>2, StepLeads
    <2>4. Chain(Takes(Stores, P0), << Release({In(1)}) >>, P1, P0)
      BY <1>2, <2>3, ChainOfOne
    <2>5. << Release({In(1)}) >> \in Seq(Steps)
      <3>1. {Release({In(1)})} \subseteq Steps
        BY <2>1 DEF Shape, Quiet
      <3>. QED  BY <3>1
    <2>. QED  BY <1>2, <2>4, <2>5, CallFits DEF Names, FoundOutLater, Holes
  <1>. HIDE DEF P0, P1, P2, P3, P4
  <1>11. Chain(R, streamFileByRTP, P0, P0)
    BY <1>5, <1>6, <1>7, <1>8, <1>9, <1>10, <1>2, ChainOf6 DEF streamFileByRTP
  <1>12. /\ "RTP" \in Program /\ Code["RTP"] = streamFileByRTP
        /\ Len(streamFileByRTP) = 6 /\ streamFileByRTP[6].name = "end"
    BY DEF Program, Code, streamFileByRTP, Call, Loop
  <1>. HIDE DEF R
  <1>13. Chain(CallRel("RTP", {}), Code["RTP"], P0, P0)
    BY <1>11, <1>12 DEF R
  <1>14. "RTP" \in Program /\ Len(Code["RTP"]) > 0 /\ Code["RTP"][Len(Code["RTP"])].name = "end"
    BY <1>12
  <1>. QED  BY <1>2, <1>3, <1>13, <1>14, PlannedFrom

\* testRTPffmpeg: what its label end frees is free of parts that are used there.
LEMMA TestRtpPlanned == \E t, h : Planned("testRTPffmpeg", t, h)
  <1>. DEFINE H0 == {}
              C0 == {}
              H1 == {In(1)}
              C1 == {}
              H2 == {In(1), Out(1)}
              C2 == {}
              H4 == {In(1), Out(1), Muxer(1)}
              C4 == {}
              P0 == Certain(H0, C0)
              P1 == Certain(H1, C1)
              P2 == Certain(H2, C2)
              P4 == Certain(H4, C4)
              R == CallRel("testRTPffmpeg", Stores)
  <1>1. /\ Leads({}, {In(1)}, {}, {}, FALSE, H0, C0, H1, C1)
        /\ Leads({In(1)}, {}, {}, {}, FALSE, H1, C1, H1, C1)
        /\ Leads({In(1)}, {Dec(1)}, {}, {}, TRUE, H1, C1, H1, C1)
        /\ Leads({}, {Out(1)}, {}, {}, FALSE, H1, C1, H2, C2)
        /\ Leads({In(1), Out(1)}, {}, {}, {}, FALSE, H2, C2, H2, C2)
        /\ Leads({Out(1)}, {Io(1)}, {}, {}, TRUE, H2, C2, H2, C2)
        /\ Leads({Out(1)}, {Muxer(1)}, {}, {}, FALSE, H2, C2, H4, C4)
        /\ Leads({In(1)}, {}, {}, {}, FALSE, H4, C4, H4, C4)
        /\ Leads({In(1), Out(1), Muxer(1)}, {}, {}, {}, FALSE, H4, C4, H4, C4)
        /\ Leads({Out(1), Muxer(1)}, {}, {}, {}, FALSE, H4, C4, H4, C4)
        /\ Leads({}, {}, {Muxer(1)}, {}, FALSE, H4, C4, H0, C0)
        /\ Leads({}, {}, {In(1)}, {}, FALSE, H0, C0, H0, C0)
        /\ Leads({}, {}, {Io(1)}, {}, FALSE, H0, C0, H0, C0)
        /\ Leads({}, {}, {Out(1)}, {}, FALSE, H0, C0, H0, C0)
    BY OneTrack DEF Leads, Owned
  <1>2. /\ P0 \in SUBSET Stores
        /\ P1 \in SUBSET Stores
        /\ P2 \in SUBSET Stores
        /\ P4 \in SUBSET Stores
    BY CertainTypes
  <1>3. << NothingOpen, 0 >> \in P0
    BY CertainAtFirst
  <1>4. P0 = Stores
    BY EmptyCertain
  <1>. HIDE DEF H0, C0, H1, C1, H2, C2, H4, C4
  <1>5. << P0, Call("open", << Try({}, {In(1)}, {In(1)}), Try({In(1)}, {}, {}),
                             Maybe(Sure({In(1)}, {Dec(1)})) >>, "cleanup"), P1 >> \in R
    <2>1. /\ Shape(Try({}, {In(1)}, {In(1)}), {}, {In(1)}, {}, {}, FALSE, "returned", {In(1)})
          /\ Shape(Try({In(1)}, {}, {}), {In(1)}, {}, {}, {}, FALSE, "returned", {})
          /\ Shape(Maybe(Sure({In(1)}, {Dec(1)})), {In(1)}, {Dec(1)}, {}, {}, TRUE, "never", {})
      BY Shapes, OneTrack
    <2>2. /\ Errs("returned", {In(1)}, P0, Stores, P1)
          /\ Errs("returned", {}, P1, Stores, P1)
          /\ Errs("never", {}, P1, Stores, P1)
      BY <1>2 DEF Errs
    <2>3. /\ << P0, Try({}, {In(1)}, {In(1)}), P1 >> \in Takes(Stores, P1)
          /\ << P1, Try({In(1)}, {}, {}), P1 >> \in Takes(Stores, P1)
          /\ << P1, Maybe(Sure({In(1)}, {Dec(1)})), P1 >> \in Takes(Stores, P1)
      BY <1>1, <2>1, <2>2, StepLeads
    <2>. DEFINE b == << Try({}, {In(1)}, {In(1)}), Try({In(1)}, {}, {}),
                        Maybe(Sure({In(1)}, {Dec(1)})) >>
    <2>4. Chain(Takes(Stores, P1), b, P0, P1)
      BY <1>2, <2>3, ChainOf3
    <2>5. b \in Seq(Steps)
      <3>1. {Try({}, {In(1)}, {In(1)}), Try({In(1)}, {}, {}),
             Maybe(Sure({In(1)}, {Dec(1)}))} \subseteq Steps
        BY <2>1 DEF Shape, Quiet
      <3>. QED  BY <3>1
    <2>. QED  BY <1>2, <2>4, <2>5, CallFits DEF Names, FoundOutLater
  <1>6. << P1, Call("output", << Try({}, {Out(1)}, {}), Try({In(1), Out(1)}, {}, {}), Try({In(1),
          Out(1)}, {}, {}), Maybe(Try({Out(1)}, {Io(1)}, {})), Try({Out(1)}, {Muxer(1)}, {}) >>,
          "cleanup"), P4 >> \in R
    <2>1. /\ Shape(Try({}, {Out(1)}, {}), {}, {Out(1)}, {}, {}, FALSE, "returned", {})
          /\ Shape(Try({In(1), Out(1)}, {}, {}), {In(1), Out(1)}, {}, {}, {}, FALSE, "returned", {})
          /\ Shape(Maybe(Try({Out(1)}, {Io(1)}, {})), {Out(1)}, {Io(1)}, {}, {}, TRUE, "returned",
              {})
          /\ Shape(Try({Out(1)}, {Muxer(1)}, {}), {Out(1)}, {Muxer(1)}, {}, {}, FALSE, "returned",
              {})
      BY Shapes, OneTrack
    <2>2. /\ Errs("returned", {}, P1, Stores, P4)
          /\ Errs("returned", {}, P2, Stores, P4)
      BY <1>2 DEF Errs
    <2>3. /\ << P1, Try({}, {Out(1)}, {}), P2 >> \in Takes(Stores, P4)
          /\ << P2, Try({In(1), Out(1)}, {}, {}), P2 >> \in Takes(Stores, P4)
          /\ << P2, Maybe(Try({Out(1)}, {Io(1)}, {})), P2 >> \in Takes(Stores, P4)
          /\ << P2, Try({Out(1)}, {Muxer(1)}, {}), P4 >> \in Takes(Stores, P4)
      BY <1>1, <2>1, <2>2, StepLeads
    <2>4. Chain(Takes(Stores, P4), << Try({}, {Out(1)}, {}), Try({In(1), Out(1)}, {}, {}),
            Try({In(1), Out(1)}, {}, {}), Maybe(Try({Out(1)}, {Io(1)}, {})), Try({Out(1)},
            {Muxer(1)}, {}) >>, P1, P4)
      BY <1>2, <2>3, ChainOf5
    <2>5. << Try({}, {Out(1)}, {}), Try({In(1), Out(1)}, {}, {}), Try({In(1), Out(1)}, {}, {}),
            Maybe(Try({Out(1)}, {Io(1)}, {})), Try({Out(1)}, {Muxer(1)}, {}) >> \in Seq(Steps)
      <3>1. {Try({}, {Out(1)}, {}), Try({In(1), Out(1)}, {}, {}), Maybe(Try({Out(1)}, {Io(1)},
              {})), Try({Out(1)}, {Muxer(1)}, {})} \subseteq Steps
        BY <2>1 DEF Shape, Quiet
      <3>. QED  BY <3>1
    <2>. QED  BY <1>2, <2>4, <2>5, CallFits DEF Names, FoundOutLater
  <1>7. << P4, Loop("send", send_testRTP, "cleanup"), P4 >> \in R
    <2>. DEFINE N == HolesIn("testRTPffmpeg", "send")
    <2>1. /\ Shape(TryOrBreak({In(1)}, {}), {In(1)}, {}, {}, {}, FALSE, "break", {})
          /\ Shape(TryOrBreak({In(1), Out(1), Muxer(1)}, {}), {In(1), Out(1), Muxer(1)}, {}, {},
              {}, FALSE, "break", {})
          /\ Shape(Maybe(Sure({Dec(1)}, {})), {Dec(1)}, {}, {}, {}, TRUE, "never", {})
      BY Shapes, OneTrack
    <2>2. Errs("break", {}, P4, Stores, P4)
      BY <1>2 DEF Errs
    <2>3. /\ << P4, TryOrBreak({In(1)}, {}), P4 >> \in Takes(Stores, P4)
          /\ << P4, TryOrBreak({In(1), Out(1), Muxer(1)}, {}), P4 >> \in Takes(Stores, P4)
      BY <1>1, <2>1, <2>2, StepLeads
    <2>4. Takes(Stores, P4) \subseteq TakesBut(N, Stores, P4)
      BY DEF Takes, TakesBut
    <2>5. << P4, Maybe(Sure({Dec(1)}, {})), P4 >> \in TakesBut(N, Stores, P4)
      <3>1. {Dec(1)} \in N
        BY OneTrack DEF HolesIn, Holes
      <3>2. /\ Maybe(Sure({Dec(1)}, {})) \in Steps /\ Maybe(Sure({Dec(1)}, {})).push = 0
            /\ Maybe(Sure({Dec(1)}, {})).needs = {} /\ Maybe(Sure({Dec(1)}, {})).frees = {}
            /\ Maybe(Sure({Dec(1)}, {})).gives = {} /\ Maybe(Sure({Dec(1)}, {})).uses = {Dec(1)}
            /\ Maybe(Sure({Dec(1)}, {})).failure = "never"
        BY <2>1 DEF Shape, Quiet
      <3>. HIDE DEF N, P4
      <3>. QED  BY <1>2, <3>1, <3>2, HoleKept
    <2>6. Chain(TakesBut(N, Stores, P4), send_testRTP, P4, P4)
      <3>. HIDE DEF N, P4
      <3>. QED  BY <1>2, <2>3, <2>4, <2>5, ChainOf3 DEF send_testRTP
    <2>7. /\ send_testRTP \in Seq(Steps)
          /\ \A m \in 1..Len(send_testRTP) : send_testRTP[m].failure # "unnoticed"
      <3>. DEFINE a == TryOrBreak({In(1)}, {})
                  b == Maybe(Sure({Dec(1)}, {}))
                  c == TryOrBreak({In(1), Out(1), Muxer(1)}, {})
      <3>1. a \in Steps /\ b \in Steps /\ c \in Steps
        BY <2>1 DEF Shape, Quiet
      <3>2. a.failure = "break" /\ b.failure = "never" /\ c.failure = "break"
        BY <2>1 DEF Shape
      <3>3. send_testRTP = << a, b, c >>
        BY DEF send_testRTP
      <3>. HIDE DEF a, b, c
      <3>. QED  BY <3>1, <3>2, <3>3
    <2>. HIDE DEF P4
    <2>. QED  BY <1>2, <2>6, <2>7, CallHoles DEF Names, FoundOutLater, N
  <1>8. << P4, Call("write_output_file_trailer", << Unchecked({Out(1), Muxer(1)}, {}),
          Release({Muxer(1)}) >>, "cleanup"), P0 >> \in R
    <2>1. /\ Shape(Unchecked({Out(1), Muxer(1)}, {}), {Out(1), Muxer(1)}, {}, {}, {}, FALSE,
               "unnoticed", {})
          /\ Shape(Release({Muxer(1)}), {}, {}, {Muxer(1)}, {}, FALSE, "never", {})
      BY Shapes, OneTrack
    <2>2. /\ Errs("unnoticed", {}, P4, Stores, P0)
          /\ Errs("never", {}, P4, Stores, P0)
      BY <1>2 DEF Errs
    <2>3. /\ << P4, Unchecked({Out(1), Muxer(1)}, {}), P4 >> \in Takes(Stores, P0)
          /\ << P4, Release({Muxer(1)}), P0 >> \in Takes(Stores, P0)
      BY <1>1, <2>1, <2>2, StepLeads
    <2>4. Chain(Takes(Stores, P0), << Unchecked({Out(1), Muxer(1)}, {}), Release({Muxer(1)}) >>,
            P4, P0)
      BY <1>2, <2>3, ChainOf2
    <2>5. << Unchecked({Out(1), Muxer(1)}, {}), Release({Muxer(1)}) >> \in Seq(Steps)
      <3>1. {Unchecked({Out(1), Muxer(1)}, {}), Release({Muxer(1)})} \subseteq Steps
        BY <2>1 DEF Shape, Quiet
      <3>. QED  BY <3>1
    <2>. QED  BY <1>2, <2>4, <2>5, CallFits DEF Names, FoundOutLater
  <1>9. << P0, Call("end", end_testRTP, "exit"), P0 >> \in R
    <2>1. /\ Shape(Release({In(1)}), {}, {}, {In(1)}, {}, FALSE, "never", {})
          /\ Shape(Release({Io(1)}), {}, {}, {Io(1)}, {}, FALSE, "never", {})
          /\ Shape(Release({Out(1)}), {}, {}, {Out(1)}, {}, FALSE, "never", {})
      BY Shapes, OneTrack
    <2>2. Errs("never", {}, P0, Stores, P0)
      BY <1>2 DEF Errs
    <2>3. /\ << P0, Release({In(1)}), P0 >> \in Takes(Stores, P0)
          /\ << P0, Release({Io(1)}), P0 >> \in Takes(Stores, P0)
          /\ << P0, Release({Out(1)}), P0 >> \in Takes(Stores, P0)
      BY <1>1, <2>1, <2>2, StepLeads
    <2>4. Chain(Takes(Stores, P0), end_testRTP, P0, P0)
      BY <1>2, <2>3, ChainOf3 DEF end_testRTP
    <2>5. end_testRTP \in Seq(Steps)
      <3>1. {Release({In(1)}), Release({Io(1)}), Release({Out(1)})} \subseteq Steps
        BY <2>1 DEF Shape, Quiet
      <3>. QED  BY <3>1 DEF end_testRTP
    <2>. QED  BY <1>2, <1>4, <2>4, <2>5, CallFits DEF Names, FoundOutLater, Holes
  <1>. HIDE DEF P0, P1, P2, P4
  <1>10. Chain(R, main_testRTP, P0, P0)
    BY <1>5, <1>6, <1>7, <1>8, <1>9, <1>2, ChainOf5 DEF main_testRTP
  <1>11. /\ "testRTPffmpeg" \in Program /\ Code["testRTPffmpeg"] = main_testRTP
        /\ Len(main_testRTP) = 5 /\ main_testRTP[5].name = "end"
    BY DEF Program, Code, main_testRTP, Call, Loop
  <1>. HIDE DEF R
  <1>12. Chain(CallRel("testRTPffmpeg", Stores), Code["testRTPffmpeg"], P0, P0)
    BY <1>10, <1>11 DEF R
  <1>13. "testRTPffmpeg" \in Program /\ Len(Code["testRTPffmpeg"]) > 0 /\ Code["testRTPffmpeg"][Len(Code["testRTPffmpeg"])].name = "end"
    BY <1>11
  <1>. QED  BY <1>2, <1>3, <1>12, <1>13, PlannedFrom

\* reading: its label end frees three contexts of its own.
LEMMA ReadingPlanned == \E t, h : Planned("reading", t, h)
  <1>. DEFINE H0 == {}
              C0 == {}
              H1 == {Data(1)}
              C1 == {}
              H2 == {Data(1), In(1)}
              C2 == {}
              H3 == {Data(1), In(1), Data(2)}
              C3 == {}
              H4 == {Data(1), In(1), Io(1)}
              C4 == {}
              P0 == Certain(H0, C0)
              P1 == Certain(H1, C1)
              P2 == Certain(H2, C2)
              P3 == Certain(H3, C3)
              P4 == Certain(H4, C4)
              R == CallRel("reading", Stores)
  <1>1. /\ Leads({}, {Data(1)}, {}, {}, FALSE, H0, C0, H1, C1)
        /\ Leads({}, {In(1)}, {}, {}, FALSE, H1, C1, H2, C2)
        /\ Leads({}, {Data(2)}, {}, {}, FALSE, H2, C2, H3, C3)
        /\ Leads({Data(2)}, {}, {}, {}, FALSE, H3, C3, H3, C3)
        /\ Leads({Data(2)}, {Io(1)}, {Data(2)}, {}, FALSE, H3, C3, H4, C4)
        /\ Leads({In(1), Io(1), Data(1)}, {}, {}, {}, FALSE, H4, C4, H4, C4)
        /\ Leads({In(1)}, {}, {}, {}, FALSE, H4, C4, H0, C0)
        /\ Leads({}, {}, {In(1)}, {}, FALSE, H0, C0, H0, C0)
        /\ Leads({}, {}, {Io(1)}, {}, FALSE, H0, C0, H0, C0)
        /\ Leads({}, {}, {Data(1)}, {}, FALSE, H0, C0, H0, C0)
    BY OneTrack DEF Leads, Owned
  <1>2. /\ P0 \in SUBSET Stores
        /\ P1 \in SUBSET Stores
        /\ P2 \in SUBSET Stores
        /\ P3 \in SUBSET Stores
        /\ P4 \in SUBSET Stores
    BY CertainTypes
  <1>3. << NothingOpen, 0 >> \in P0
    BY CertainAtFirst
  <1>4. P0 = Stores
    BY EmptyCertain
  <1>. HIDE DEF H0, C0, H1, C1, H2, C2, H3, C3, H4, C4
  <1>5. << P0, Call("open", << Try({}, {Data(1)}, {}), Try({}, {In(1)}, {}), Try({}, {Data(2)},
          {}), Try({Data(2)}, {}, {}), Move({Data(2)}, {Io(1)}), Try({In(1), Io(1), Data(1)}, {},
          {In(1)}), Try({In(1), Io(1), Data(1)}, {}, {}), Sure({In(1)}, {}) >>, "cleanup"),
          P0 >> \in R
    <2>1. /\ Shape(Try({}, {Data(1)}, {}), {}, {Data(1)}, {}, {}, FALSE, "returned", {})
          /\ Shape(Try({}, {In(1)}, {}), {}, {In(1)}, {}, {}, FALSE, "returned", {})
          /\ Shape(Try({}, {Data(2)}, {}), {}, {Data(2)}, {}, {}, FALSE, "returned", {})
          /\ Shape(Try({Data(2)}, {}, {}), {Data(2)}, {}, {}, {}, FALSE, "returned", {})
          /\ Shape(Move({Data(2)}, {Io(1)}), {Data(2)}, {Io(1)}, {Data(2)}, {}, FALSE, "never", {})
          /\ Shape(Try({In(1), Io(1), Data(1)}, {}, {In(1)}), {In(1), Io(1), Data(1)}, {}, {}, {},
              FALSE, "returned", {In(1)})
          /\ Shape(Try({In(1), Io(1), Data(1)}, {}, {}), {In(1), Io(1), Data(1)}, {}, {}, {},
              FALSE, "returned", {})
          /\ Shape(Sure({In(1)}, {}), {In(1)}, {}, {}, {}, FALSE, "never", {})
      BY Shapes, OneTrack
    <2>2. /\ Errs("returned", {}, P0, Stores, P0)
          /\ Errs("returned", {}, P1, Stores, P0)
          /\ Errs("returned", {}, P2, Stores, P0)
          /\ Errs("returned", {}, P3, Stores, P0)
          /\ Errs("never", {}, P3, Stores, P0)
          /\ Errs("returned", {In(1)}, P4, Stores, P0)
          /\ Errs("returned", {}, P4, Stores, P0)
          /\ Errs("never", {}, P4, Stores, P0)
      BY <1>2 DEF Errs
    <2>3. /\ << P0, Try({}, {Data(1)}, {}), P1 >> \in Takes(Stores, P0)
          /\ << P1, Try({}, {In(1)}, {}), P2 >> \in Takes(Stores, P0)
          /\ << P2, Try({}, {Data(2)}, {}), P3 >> \in Takes(Stores, P0)
          /\ << P3, Try({Data(2)}, {}, {}), P3 >> \in Takes(Stores, P0)
          /\ << P3, Move({Data(2)}, {Io(1)}), P4 >> \in Takes(Stores, P0)
          /\ << P4, Try({In(1), Io(1), Data(1)}, {}, {In(1)}), P4 >> \in Takes(Stores, P0)
          /\ << P4, Try({In(1), Io(1), Data(1)}, {}, {}), P4 >> \in Takes(Stores, P0)
          /\ << P4, Sure({In(1)}, {}), P0 >> \in Takes(Stores, P0)
      <3>1. /\ << P0, Try({}, {Data(1)}, {}), P1 >> \in Takes(Stores, P0)
            /\ << P1, Try({}, {In(1)}, {}), P2 >> \in Takes(Stores, P0)
            /\ << P2, Try({}, {Data(2)}, {}), P3 >> \in Takes(Stores, P0)
            /\ << P3, Try({Data(2)}, {}, {}), P3 >> \in Takes(Stores, P0)
        BY <1>1, <2>1, <2>2, StepLeads
      <3>2. /\ << P3, Move({Data(2)}, {Io(1)}), P4 >> \in Takes(Stores, P0)
            /\ << P4, Try({In(1), Io(1), Data(1)}, {}, {In(1)}), P4 >> \in Takes(Stores, P0)
            /\ << P4, Try({In(1), Io(1), Data(1)}, {}, {}), P4 >> \in Takes(Stores, P0)
            /\ << P4, Sure({In(1)}, {}), P0 >> \in Takes(Stores, P0)
        BY <1>1, <2>1, <2>2, StepLeads
      <3>. QED  BY <3>1, <3>2
    <2>4. Chain(Takes(Stores, P0), << Try({}, {Data(1)}, {}), Try({}, {In(1)}, {}), Try({},
            {Data(2)}, {}), Try({Data(2)}, {}, {}), Move({Data(2)}, {Io(1)}), Try({In(1), Io(1),
            Data(1)}, {}, {In(1)}), Try({In(1), Io(1), Data(1)}, {}, {}), Sure({In(1)}, {}) >>, P0,
            P0)
      BY <1>2, <2>3, ChainOf8
    <2>5. << Try({}, {Data(1)}, {}), Try({}, {In(1)}, {}), Try({}, {Data(2)}, {}), Try({Data(2)},
            {}, {}), Move({Data(2)}, {Io(1)}), Try({In(1), Io(1), Data(1)}, {}, {In(1)}),
            Try({In(1), Io(1), Data(1)}, {}, {}), Sure({In(1)}, {}) >> \in Seq(Steps)
      <3>1. {Try({}, {Data(1)}, {}), Try({}, {In(1)}, {}), Try({}, {Data(2)}, {}), Try({Data(2)},
              {}, {}), Move({Data(2)}, {Io(1)}), Try({In(1), Io(1), Data(1)}, {}, {In(1)}),
              Try({In(1), Io(1), Data(1)}, {}, {}), Sure({In(1)}, {})} \subseteq Steps
        BY <2>1 DEF Shape, Quiet
      <3>. QED  BY <3>1
    <2>. QED  BY <1>2, <2>4, <2>5, CallFits DEF Names, FoundOutLater
  <1>6. << P0, Call("end", << Release({In(1)}), Release({Io(1)}), Release({Data(1)}) >>, "exit"),
          P0 >> \in R
    <2>1. /\ Shape(Release({In(1)}), {}, {}, {In(1)}, {}, FALSE, "never", {})
          /\ Shape(Release({Io(1)}), {}, {}, {Io(1)}, {}, FALSE, "never", {})
          /\ Shape(Release({Data(1)}), {}, {}, {Data(1)}, {}, FALSE, "never", {})
      BY Shapes, OneTrack
    <2>2. Errs("never", {}, P0, Stores, P0)
      BY <1>2 DEF Errs
    <2>3. /\ << P0, Release({In(1)}), P0 >> \in Takes(Stores, P0)
          /\ << P0, Release({Io(1)}), P0 >> \in Takes(Stores, P0)
          /\ << P0, Release({Data(1)}), P0 >> \in Takes(Stores, P0)
      BY <1>1, <2>1, <2>2, StepLeads
    <2>4. Chain(Takes(Stores, P0), << Release({In(1)}), Release({Io(1)}), Release({Data(1)}) >>,
            P0, P0)
      BY <1>2, <2>3, ChainOf3
    <2>5. << Release({In(1)}), Release({Io(1)}), Release({Data(1)}) >> \in Seq(Steps)
      <3>1. {Release({In(1)}), Release({Io(1)}), Release({Data(1)})} \subseteq Steps
        BY <2>1 DEF Shape, Quiet
      <3>. QED  BY <3>1
    <2>. QED  BY <1>2, <1>4, <2>4, <2>5, CallFits, ZenonT(40) DEF Names, FoundOutLater, Holes
  <1>. HIDE DEF P0, P1, P2, P3, P4
  <1>7. Chain(R, main_reading, P0, P0)
    BY <1>5, <1>6, <1>2, ChainOf2 DEF main_reading
  <1>8. /\ "reading" \in Program /\ Code["reading"] = main_reading
        /\ Len(main_reading) = 2 /\ main_reading[2].name = "end"
    BY DEF Program, Code, main_reading, Call, Loop
  <1>. HIDE DEF R
  <1>9. Chain(CallRel("reading", Stores), Code["reading"], P0, P0)
    BY <1>7, <1>8 DEF R
  <1>10. "reading" \in Program /\ Len(Code["reading"]) > 0 /\ Code["reading"][Len(Code["reading"])].name = "end"
    BY <1>8
  <1>. QED  BY <1>2, <1>3, <1>9, <1>10, PlannedFrom

\* dec_enc: every error ends the process.
LEMMA DecEncPlanned == \E t, h : Planned("dec_enc", t, h)
  <1>. DEFINE H0 == {}
              C0 == {}
              H1 == {Data(2)}
              C1 == {}
              H2 == {Data(2), Io(1)}
              C2 == {}
              H3 == {Data(2), Io(1), Frame}
              C3 == {}
              H4 == {Data(2), Io(1), Frame, Data(1)}
              C4 == {}
              P0 == Certain(H0, C0)
              P1 == Certain(H1, C1)
              P2 == Certain(H2, C2)
              P3 == Certain(H3, C3)
              P4 == Certain(H4, C4)
              R == CallRel("dec_enc", {})
  <1>1. /\ Leads({}, {}, {}, {}, FALSE, H0, C0, H0, C0)
        /\ Leads({}, {Data(2)}, {}, {}, FALSE, H0, C0, H1, C1)
        /\ Leads({Data(2)}, {}, {}, {}, FALSE, H1, C1, H1, C1)
        /\ Leads({}, {Io(1)}, {}, {}, FALSE, H1, C1, H2, C2)
        /\ Leads({}, {Frame}, {}, {}, FALSE, H2, C2, H3, C3)
        /\ Leads({Data(2)}, {}, {}, {}, FALSE, H3, C3, H3, C3)
        /\ Leads({}, {Data(1)}, {}, {}, FALSE, H3, C3, H4, C4)
        /\ Leads({Data(2), Frame, Data(1)}, {}, {}, {}, FALSE, H4, C4, H4, C4)
        /\ Leads({Data(1)}, {}, {}, {}, FALSE, H4, C4, H4, C4)
        /\ Leads({Data(2), Frame}, {}, {}, {}, FALSE, H4, C4, H4, C4)
        /\ Leads({Io(1)}, {}, {}, {}, TRUE, H4, C4, H4, C4)
        /\ Leads({Data(2)}, {}, {}, {}, FALSE, H4, C4, H4, C4)
        /\ Leads({}, {}, {Io(1)}, {}, FALSE, H4, C4, H1, C1)
        /\ Leads({}, {}, {Data(1)}, {}, FALSE, H1, C1, H1, C1)
        /\ Leads({}, {}, {Frame}, {}, FALSE, H1, C1, H1, C1)
        /\ Leads({}, {}, {Data(2)}, {}, FALSE, H1, C1, H0, C0)
    BY OneTrack DEF Leads, Owned
  <1>2. /\ P0 \in SUBSET Stores
        /\ P1 \in SUBSET Stores
        /\ P2 \in SUBSET Stores
        /\ P3 \in SUBSET Stores
        /\ P4 \in SUBSET Stores
    BY CertainTypes
  <1>3. << NothingOpen, 0 >> \in P0
    BY CertainAtFirst
  <1>. HIDE DEF H0, C0, H1, C1, H2, C2, H3, C3, H4, C4
  <1>5. << P0, Call("open", << Try({}, {}, {}), Try({}, {Data(2)}, {}), Try({Data(2)}, {}, {}),
          Try({}, {Io(1)}, {}), Try({}, {Frame}, {}), Try({Data(2)}, {}, {}), Try({}, {Data(1)},
          {}), Try({Data(2), Frame, Data(1)}, {}, {}) >>, "exit"), P4 >> \in R
    <2>1. /\ Shape(Try({}, {}, {}), {}, {}, {}, {}, FALSE, "returned", {})
          /\ Shape(Try({}, {Data(2)}, {}), {}, {Data(2)}, {}, {}, FALSE, "returned", {})
          /\ Shape(Try({Data(2)}, {}, {}), {Data(2)}, {}, {}, {}, FALSE, "returned", {})
          /\ Shape(Try({}, {Io(1)}, {}), {}, {Io(1)}, {}, {}, FALSE, "returned", {})
          /\ Shape(Try({}, {Frame}, {}), {}, {Frame}, {}, {}, FALSE, "returned", {})
          /\ Shape(Try({}, {Data(1)}, {}), {}, {Data(1)}, {}, {}, FALSE, "returned", {})
          /\ Shape(Try({Data(2), Frame, Data(1)}, {}, {}), {Data(2), Frame, Data(1)}, {}, {}, {},
              FALSE, "returned", {})
      BY Shapes, OneTrack
    <2>2. /\ Errs("returned", {}, P0, Stores, P4)
          /\ Errs("returned", {}, P1, Stores, P4)
          /\ Errs("returned", {}, P2, Stores, P4)
          /\ Errs("returned", {}, P3, Stores, P4)
          /\ Errs("returned", {}, P4, Stores, P4)
      BY <1>2 DEF Errs
    <2>3. /\ << P0, Try({}, {}, {}), P0 >> \in Takes(Stores, P4)
          /\ << P0, Try({}, {Data(2)}, {}), P1 >> \in Takes(Stores, P4)
          /\ << P1, Try({Data(2)}, {}, {}), P1 >> \in Takes(Stores, P4)
          /\ << P1, Try({}, {Io(1)}, {}), P2 >> \in Takes(Stores, P4)
          /\ << P2, Try({}, {Frame}, {}), P3 >> \in Takes(Stores, P4)
          /\ << P3, Try({Data(2)}, {}, {}), P3 >> \in Takes(Stores, P4)
          /\ << P3, Try({}, {Data(1)}, {}), P4 >> \in Takes(Stores, P4)
          /\ << P4, Try({Data(2), Frame, Data(1)}, {}, {}), P4 >> \in Takes(Stores, P4)
      <3>1. /\ << P0, Try({}, {}, {}), P0 >> \in Takes(Stores, P4)
            /\ << P0, Try({}, {Data(2)}, {}), P1 >> \in Takes(Stores, P4)
            /\ << P1, Try({Data(2)}, {}, {}), P1 >> \in Takes(Stores, P4)
            /\ << P1, Try({}, {Io(1)}, {}), P2 >> \in Takes(Stores, P4)
        BY <1>1, <2>1, <2>2, StepLeads
      <3>2. /\ << P2, Try({}, {Frame}, {}), P3 >> \in Takes(Stores, P4)
            /\ << P3, Try({Data(2)}, {}, {}), P3 >> \in Takes(Stores, P4)
            /\ << P3, Try({}, {Data(1)}, {}), P4 >> \in Takes(Stores, P4)
            /\ << P4, Try({Data(2), Frame, Data(1)}, {}, {}), P4 >> \in Takes(Stores, P4)
        BY <1>1, <2>1, <2>2, StepLeads
      <3>. QED  BY <3>1, <3>2
    <2>4. Chain(Takes(Stores, P4), << Try({}, {}, {}), Try({}, {Data(2)}, {}), Try({Data(2)}, {},
            {}), Try({}, {Io(1)}, {}), Try({}, {Frame}, {}), Try({Data(2)}, {}, {}), Try({},
            {Data(1)}, {}), Try({Data(2), Frame, Data(1)}, {}, {}) >>, P0, P4)
      BY <1>2, <2>3, ChainOf8, ZenonT(40)
    <2>5. << Try({}, {}, {}), Try({}, {Data(2)}, {}), Try({Data(2)}, {}, {}), Try({}, {Io(1)}, {}),
            Try({}, {Frame}, {}), Try({Data(2)}, {}, {}), Try({}, {Data(1)}, {}), Try({Data(2),
            Frame, Data(1)}, {}, {}) >> \in Seq(Steps)
      <3>1. {Try({}, {}, {}), Try({}, {Data(2)}, {}), Try({Data(2)}, {}, {}), Try({}, {Io(1)}, {}),
              Try({}, {Frame}, {}), Try({}, {Data(1)}, {}), Try({Data(2), Frame, Data(1)}, {},
              {})} \subseteq Steps
        BY <2>1 DEF Shape, Quiet
      <3>. QED  BY <3>1
    <2>. QED  BY <1>2, <2>4, <2>5, CallFits DEF Names, FoundOutLater
  <1>6. << P4, Loop("encode", << Sure({Data(1)}, {}), Try({Data(2), Frame}, {}, {}),
          Maybe(Sure({Io(1)}, {})) >>, "exit"), P4 >> \in R
    <2>1. /\ Shape(Sure({Data(1)}, {}), {Data(1)}, {}, {}, {}, FALSE, "never", {})
          /\ Shape(Try({Data(2), Frame}, {}, {}), {Data(2), Frame}, {}, {}, {}, FALSE, "returned",
              {})
          /\ Shape(Maybe(Sure({Io(1)}, {})), {Io(1)}, {}, {}, {}, TRUE, "never", {})
      BY Shapes, OneTrack
    <2>2. /\ Errs("never", {}, P4, Stores, P4)
          /\ Errs("returned", {}, P4, Stores, P4)
      BY <1>2 DEF Errs
    <2>3. /\ << P4, Sure({Data(1)}, {}), P4 >> \in Takes(Stores, P4)
          /\ << P4, Try({Data(2), Frame}, {}, {}), P4 >> \in Takes(Stores, P4)
          /\ << P4, Maybe(Sure({Io(1)}, {})), P4 >> \in Takes(Stores, P4)
      BY <1>1, <2>1, <2>2, StepLeads, ZenonT(40)
    <2>4. Chain(Takes(Stores, P4), << Sure({Data(1)}, {}), Try({Data(2), Frame}, {}, {}),
            Maybe(Sure({Io(1)}, {})) >>, P4, P4)
      BY <1>2, <2>3, ChainOf3
    <2>5. << Sure({Data(1)}, {}), Try({Data(2), Frame}, {}, {}), Maybe(Sure({Io(1)},
            {})) >> \in Seq(Steps)
      <3>1. {Sure({Data(1)}, {}), Try({Data(2), Frame}, {}, {}), Maybe(Sure({Io(1)},
              {}))} \subseteq Steps
        BY <2>1 DEF Shape, Quiet
      <3>. QED  BY <3>1
    <2>. QED  BY <1>2, <2>4, <2>5, CallFits DEF Names, FoundOutLater
  <1>7. << P4, Loop("flush", << Try({Data(2)}, {}, {}), Maybe(Sure({Io(1)}, {})) >>, "exit"),
          P4 >> \in R
    <2>1. /\ Shape(Try({Data(2)}, {}, {}), {Data(2)}, {}, {}, {}, FALSE, "returned", {})
          /\ Shape(Maybe(Sure({Io(1)}, {})), {Io(1)}, {}, {}, {}, TRUE, "never", {})
      BY Shapes, OneTrack
    <2>2. /\ Errs("returned", {}, P4, Stores, P4)
          /\ Errs("never", {}, P4, Stores, P4)
      BY <1>2 DEF Errs
    <2>3. /\ << P4, Try({Data(2)}, {}, {}), P4 >> \in Takes(Stores, P4)
          /\ << P4, Maybe(Sure({Io(1)}, {})), P4 >> \in Takes(Stores, P4)
      BY <1>1, <2>1, <2>2, StepLeads
    <2>4. Chain(Takes(Stores, P4), << Try({Data(2)}, {}, {}), Maybe(Sure({Io(1)}, {})) >>, P4, P4)
      BY <1>2, <2>3, ChainOf2
    <2>5. << Try({Data(2)}, {}, {}), Maybe(Sure({Io(1)}, {})) >> \in Seq(Steps)
      <3>1. {Try({Data(2)}, {}, {}), Maybe(Sure({Io(1)}, {}))} \subseteq Steps
        BY <2>1 DEF Shape, Quiet
      <3>. QED  BY <3>1
    <2>. QED  BY <1>2, <2>4, <2>5, CallFits DEF Names, FoundOutLater
  <1>8. << P4, Call("end", << Release({Io(1)}), Release({Data(1)}), Release({Frame}),
          Sure({Data(2)}, {}), Release({Data(2)}) >>, "exit"), P0 >> \in R
    <2>1. /\ Shape(Release({Io(1)}), {}, {}, {Io(1)}, {}, FALSE, "never", {})
          /\ Shape(Release({Data(1)}), {}, {}, {Data(1)}, {}, FALSE, "never", {})
          /\ Shape(Release({Frame}), {}, {}, {Frame}, {}, FALSE, "never", {})
          /\ Shape(Sure({Data(2)}, {}), {Data(2)}, {}, {}, {}, FALSE, "never", {})
          /\ Shape(Release({Data(2)}), {}, {}, {Data(2)}, {}, FALSE, "never", {})
      BY Shapes, OneTrack
    <2>2. /\ Errs("never", {}, P4, Stores, P0)
          /\ Errs("never", {}, P1, Stores, P0)
      BY <1>2 DEF Errs
    <2>3. /\ << P4, Release({Io(1)}), P1 >> \in Takes(Stores, P0)
          /\ << P1, Release({Data(1)}), P1 >> \in Takes(Stores, P0)
          /\ << P1, Release({Frame}), P1 >> \in Takes(Stores, P0)
          /\ << P1, Sure({Data(2)}, {}), P1 >> \in Takes(Stores, P0)
          /\ << P1, Release({Data(2)}), P0 >> \in Takes(Stores, P0)
      BY <1>1, <2>1, <2>2, StepLeads
    <2>4. Chain(Takes(Stores, P0), << Release({Io(1)}), Release({Data(1)}), Release({Frame}),
            Sure({Data(2)}, {}), Release({Data(2)}) >>, P4, P0)
      BY <1>2, <2>3, ChainOf5
    <2>5. << Release({Io(1)}), Release({Data(1)}), Release({Frame}), Sure({Data(2)}, {}),
            Release({Data(2)}) >> \in Seq(Steps)
      <3>1. {Release({Io(1)}), Release({Data(1)}), Release({Frame}), Sure({Data(2)}, {}),
              Release({Data(2)})} \subseteq Steps
        BY <2>1 DEF Shape, Quiet
      <3>. QED  BY <3>1
    <2>. QED  BY <1>2, <2>4, <2>5, CallFits DEF Names, FoundOutLater, Holes
  <1>. HIDE DEF P0, P1, P2, P3, P4
  <1>9. Chain(R, audio_encode_example, P0, P0)
    BY <1>5, <1>6, <1>7, <1>8, <1>2, ChainOf4 DEF audio_encode_example
  <1>10. /\ "dec_enc" \in Program /\ Code["dec_enc"] = audio_encode_example
        /\ Len(audio_encode_example) = 4 /\ audio_encode_example[4].name = "end"
    BY DEF Program, Code, audio_encode_example, Call, Loop
  <1>. HIDE DEF R
  <1>11. Chain(CallRel("dec_enc", {}), Code["dec_enc"], P0, P0)
    BY <1>9, <1>10 DEF R
  <1>12. "dec_enc" \in Program /\ Len(Code["dec_enc"]) > 0 /\ Code["dec_enc"][Len(Code["dec_enc"])].name = "end"
    BY <1>10
  <1>. QED  BY <1>2, <1>3, <1>11, <1>12, PlannedFrom

\* The steps whose failure is noticed.
Loud == {s \in Steps : s.failure # "unnoticed"}

\* A text of such steps is one of steps, all of whose failures are noticed.
LEMMA LoudText ==
    ASSUME NEW b \in Seq(Loud)
    PROVE  b \in Seq(Steps) /\ \A m \in 1..Len(b) : b[m].failure # "unnoticed"
  <1>1. Loud \subseteq Steps /\ \A m \in 1..Len(b) : b[m] \in Loud
    BY DEF Loud
  <1>. QED  BY <1>1 DEF Loud

\* extract: its label end uses the decoder only if there is one.
LEMMA ExtractPlanned == \E t, h : Planned("extract", t, h)
  <1>. DEFINE H0 == {}
              C0 == {<< Dec(1), Dec(1) >>}
              H1 == {In(1)}
              C1 == {<< Dec(1), Dec(1) >>}
              H2 == {In(1), Dec(1)}
              C2 == {<< Dec(1), Dec(1) >>}
              H3 == {In(1), Dec(1), Frame}
              C3 == {<< Dec(1), Dec(1) >>}
              HZ == {}
              CZ == {}
              P0 == Certain(H0, C0)
              P1 == Certain(H1, C1)
              P2 == Certain(H2, C2)
              P3 == Certain(H3, C3)
              PZ == Certain(HZ, CZ)
              T == P0
              R == CallRel("extract", T)
  <1>1. /\ Leads({}, {In(1)}, {}, {}, FALSE, H0, C0, H1, C1)
        /\ Leads({In(1)}, {}, {}, {}, FALSE, H1, C1, H1, C1)
        /\ Leads({In(1)}, {Dec(1)}, {}, {}, FALSE, H1, C1, H1, C1)
        /\ Leads({}, {Frame}, {}, {}, FALSE, H2, C2, H3, C3)
        /\ Leads({In(1)}, {}, {}, {}, FALSE, H3, C3, H3, C3)
        /\ Leads({Dec(1), Frame}, {}, {}, {}, TRUE, H3, C3, H3, C3)
        /\ Leads({Dec(1)}, {}, {}, {Dec(1)}, FALSE, H0, C0, H0, C0)
        /\ Leads({}, {}, {In(1)}, {}, FALSE, H0, C0, HZ, CZ)
        /\ Leads({}, {}, {Frame}, {}, FALSE, HZ, CZ, HZ, CZ)
    BY OneTrack DEF Leads, Owned
  <1>2. /\ P0 \in SUBSET Stores
        /\ P1 \in SUBSET Stores
        /\ P2 \in SUBSET Stores
        /\ P3 \in SUBSET Stores
        /\ PZ \in SUBSET Stores
        /\ P1 \subseteq P0
        /\ P2 \subseteq P0
        /\ P3 \subseteq P0
    BY CertainTypes
  <1>3. << NothingOpen, 0 >> \in P0
    BY CertainAtFirst, OneTrack
  <1>. HIDE DEF H0, C0, H1, C1, H2, C2, H3, C3, HZ, CZ
  <1>5. << P0, Call("open", << Try({}, {In(1)}, {In(1)}), Try({In(1)}, {}, {}) >>, "exit"),
          P1 >> \in R
    <2>1. /\ Shape(Try({}, {In(1)}, {In(1)}), {}, {In(1)}, {}, {}, FALSE, "returned", {In(1)})
          /\ Shape(Try({In(1)}, {}, {}), {In(1)}, {}, {}, {}, FALSE, "returned", {})
      BY Shapes, OneTrack
    <2>2. /\ Errs("returned", {In(1)}, P0, Stores, P1)
          /\ Errs("returned", {}, P1, Stores, P1)
      BY <1>2 DEF Errs
    <2>3. /\ << P0, Try({}, {In(1)}, {In(1)}), P1 >> \in Takes(Stores, P1)
          /\ << P1, Try({In(1)}, {}, {}), P1 >> \in Takes(Stores, P1)
      BY <1>1, <2>1, <2>2, StepLeads
    <2>4. Chain(Takes(Stores, P1), << Try({}, {In(1)}, {In(1)}), Try({In(1)}, {}, {}) >>, P0, P1)
      BY <1>2, <2>3, ChainOf2
    <2>5. << Try({}, {In(1)}, {In(1)}), Try({In(1)}, {}, {}) >> \in Seq(Steps)
      <3>1. {Try({}, {In(1)}, {In(1)}), Try({In(1)}, {}, {})} \subseteq Steps
        BY <2>1 DEF Shape, Quiet
      <3>. QED  BY <3>1
    <2>. QED  BY <1>2, <2>4, <2>5, CallFits DEF Names, FoundOutLater
  <1>6. << P1, Call("open_codec_context", open_codec_context_extract, "ignore"), P1 >> \in R
    <2>1. /\ Shape(Try({In(1)}, {}, {}), {In(1)}, {}, {}, {}, FALSE, "returned", {})
          /\ Shape(Sure({In(1)}, {Dec(1)}), {In(1)}, {Dec(1)}, {}, {}, FALSE, "never", {})
      BY Shapes, OneTrack
    <2>2. /\ Errs("returned", {}, P1, P1, P1)
          /\ Errs("never", {}, P1, P1, P1)
      BY <1>2 DEF Errs
    <2>3. /\ << P1, Try({In(1)}, {}, {}), P1 >> \in Takes(P1, P1)
          /\ << P1, Sure({In(1)}, {Dec(1)}), P1 >> \in Takes(P1, P1)
      BY <1>1, <2>1, <2>2, StepLeads
    <2>4. Chain(Takes(P1, P1), open_codec_context_extract, P1,
            P1) /\ open_codec_context_extract \in Seq(Loud)
      <3>. DEFINE f == [n \in 1..3 |-> Try({In(1)}, {}, {})]
      <3>1. Try({In(1)}, {}, {}) \in Loud /\ Sure({In(1)}, {Dec(1)}) \in Loud
        BY <2>1 DEF Shape, Quiet, Loud
      <3>2. f \in Seq(Loud) /\ Len(f) = 3 /\ \A n \in 1..3 : f[n] = Try({In(1)}, {}, {})
        BY <3>1, FunctionIsSeq
      <3>. HIDE DEF f
      <3>3. Chain(Takes(P1, P1), f, P1, P1)
        BY <1>2, <2>3, <3>2, ChainSame
      <3>4. Chain(Takes(P1, P1), f \o << Sure({In(1)}, {Dec(1)}) >>, P1, P1)
        BY <1>2, <2>3, <3>1, <3>2, <3>3, ChainAppend
      <3>5. << Sure({In(1)}, {Dec(1)}) >> \in Seq(Loud)
        BY <3>1
      <3>6. f \o << Sure({In(1)}, {Dec(1)}) >> \in Seq(Loud)
        BY <3>2, <3>5, Joined
      <3>. QED  BY <3>4, <3>6 DEF f, open_codec_context_extract
    <2>5. open_codec_context_extract \in Seq(Steps) /\ \A m \in 1..Len(open_codec_context_extract) : open_codec_context_extract[m].failure # "unnoticed"
      BY <2>4, LoudText
    <2>. QED  BY <1>2, <2>4, <2>5, CallFits DEF Names, FoundOutLater
  <1>7. << P1, Call("frame", << Sure({In(1)}, {}), Require({Dec(1)}), Try({}, {Frame}, {}) >>,
          "cleanup"), P3 >> \in R
    <2>1. /\ Shape(Sure({In(1)}, {}), {In(1)}, {}, {}, {}, FALSE, "never", {})
          /\ Shape(Try({}, {Frame}, {}), {}, {Frame}, {}, {}, FALSE, "returned", {})
      BY Shapes, OneTrack
    <2>2. /\ Errs("never", {}, P1, T, P3)
          /\ Errs("returned", {}, P2, T, P3)
      BY <1>2 DEF Errs
    <2>3. /\ << P1, Sure({In(1)}, {}), P1 >> \in Takes(T, P3)
          /\ << P2, Try({}, {Frame}, {}), P3 >> \in Takes(T, P3)
      BY <1>1, <2>1, <2>2, StepLeads
    <2>3a. Require({Dec(1)}) \in Steps /\ << P1, Require({Dec(1)}), P2 >> \in Takes(T, P3)
      <3>. DEFINE cs == {Dec(1)}
      <3>1. cs \in SUBSET Contexts /\ cs # {}
        BY OneTrack
      <3>2. Require(cs) \in Steps
        BY <3>1, QuietTypes DEF Quiet
      <3>3. \A x \in P1 : \A c \in cs : x[1][c] # "null" => x \in P2
        <4>1. \A x \in P1 : x[1][Dec(1)] # "null" => x[1][Dec(1)] = "open"
          BY DEF Certain, Known, C1
        <4>. QED  BY <4>1 DEF Certain, Known, H1, H2, C1, C2
      <3>. HIDE DEF cs, P0, P1, P2, P3
      <3>4. << P1, Require(cs), P2 >> \in Takes(T, P3)
        BY <1>2, <3>1, <3>3, RequireKnown
      <3>. QED  BY <3>2, <3>4 DEF cs
    <2>4. Chain(Takes(T, P3), << Sure({In(1)}, {}), Require({Dec(1)}), Try({}, {Frame}, {}) >>, P1,
            P3)
      BY <1>2, <2>3, <2>3a, ChainOf3
    <2>5. << Sure({In(1)}, {}), Require({Dec(1)}), Try({}, {Frame}, {}) >> \in Seq(Steps)
      <3>1. {Sure({In(1)}, {}), Require({Dec(1)}), Try({}, {Frame}, {})} \subseteq Steps
        BY <2>1, <2>3a DEF Shape, Quiet
      <3>. QED  BY <3>1
    <2>. QED  BY <1>2, <2>4, <2>5, CallFits DEF Names, FoundOutLater
  <1>8. << P3, Loop("read", << TryOrBreak({In(1)}, {}) >> \o decode_packet_extract, "cleanup"),
          P3 >> \in R
    <2>1. /\ Shape(TryOrBreak({In(1)}, {}), {In(1)}, {}, {}, {}, FALSE, "break", {})
          /\ Shape(Maybe(Unchecked({Dec(1), Frame}, {})), {Dec(1), Frame}, {}, {}, {}, TRUE,
              "unnoticed", {})
      BY Shapes, OneTrack
    <2>2. /\ Errs("break", {}, P3, T, P3)
          /\ Errs("unnoticed", {}, P3, T, P3)
      BY <1>2 DEF Errs
    <2>3. /\ << P3, TryOrBreak({In(1)}, {}), P3 >> \in Takes(T, P3)
          /\ << P3, Maybe(Unchecked({Dec(1), Frame}, {})), P3 >> \in Takes(T, P3)
      BY <1>1, <2>1, <2>2, StepLeads
    <2>4. Chain(Takes(T, P3), << TryOrBreak({In(1)}, {}) >> \o decode_packet_extract, P3, P3)
      <3>1. Chain(Takes(T, P3), << TryOrBreak({In(1)}, {}) >>, P3, P3) /\ Chain(Takes(T, P3),
              decode_packet_extract, P3, P3)
        BY <1>2, <2>3, ChainOfOne DEF decode_packet_extract
      <3>2. << TryOrBreak({In(1)}, {}) >> \in Seq(Steps) /\ decode_packet_extract \in Seq(Steps)
        BY <2>1 DEF Shape, Quiet, decode_packet_extract
      <3>. QED  BY <3>1, <3>2, ChainJoin
    <2>5. << TryOrBreak({In(1)}, {}) >> \o decode_packet_extract \in Seq(Steps)
      <3>1. << TryOrBreak({In(1)}, {}) >> \in Seq(Steps) /\ decode_packet_extract \in Seq(Steps)
        BY <2>1 DEF Shape, Quiet, decode_packet_extract
      <3>. QED  BY <3>1, Joined
    <2>. QED  BY <1>2, <2>4, <2>5, CallFits DEF Names, FoundOutLater
  <1>9. << P3, Loop("flush", decode_packet_extract, "cleanup"), P0 >> \in R
    <2>1. Shape(Maybe(Unchecked({Dec(1), Frame}, {})), {Dec(1), Frame}, {}, {}, {}, TRUE,
            "unnoticed", {})
      BY Shapes, OneTrack
    <2>2. Errs("unnoticed", {}, P3, T, P0)
      BY <1>2 DEF Errs
    <2>3. << P3, Maybe(Unchecked({Dec(1), Frame}, {})), P3 >> \in Takes(T, P0)
      BY <1>1, <2>1, <2>2, StepLeads
    <2>4. Chain(Takes(T, P0), decode_packet_extract, P3, P3)
      BY <1>2, <2>3, ChainOfOne DEF decode_packet_extract
    <2>5. decode_packet_extract \in Seq(Steps)
      <3>1. {Maybe(Unchecked({Dec(1), Frame}, {}))} \subseteq Steps
        BY <2>1 DEF Shape, Quiet
      <3>. QED  BY <3>1 DEF decode_packet_extract
    <2>. QED  BY <1>2, <2>4, <2>5, CallFits DEF Names, FoundOutLater
  <1>10. << P0, Call("end", << If(Dec(1), Sure({Dec(1)}, {})), Release({In(1)}),
          Release({Frame}) >>, "exit"), PZ >> \in R
    <2>1. /\ Shape(If(Dec(1), Sure({Dec(1)}, {})), {Dec(1)}, {}, {}, {Dec(1)}, FALSE, "never", {})
          /\ Shape(Release({In(1)}), {}, {}, {In(1)}, {}, FALSE, "never", {})
          /\ Shape(Release({Frame}), {}, {}, {Frame}, {}, FALSE, "never", {})
      BY Shapes, OneTrack
    <2>2. /\ Errs("never", {}, P0, Stores, PZ)
          /\ Errs("never", {}, PZ, Stores, PZ)
      BY <1>2 DEF Errs
    <2>3. /\ << P0, If(Dec(1), Sure({Dec(1)}, {})), P0 >> \in Takes(Stores, PZ)
          /\ << P0, Release({In(1)}), PZ >> \in Takes(Stores, PZ)
          /\ << PZ, Release({Frame}), PZ >> \in Takes(Stores, PZ)
      BY <1>1, <2>1, <2>2, StepLeads
    <2>4. Chain(Takes(Stores, PZ), << If(Dec(1), Sure({Dec(1)}, {})), Release({In(1)}),
            Release({Frame}) >>, P0, PZ)
      BY <1>2, <2>3, ChainOf3
    <2>5. << If(Dec(1), Sure({Dec(1)}, {})), Release({In(1)}), Release({Frame}) >> \in Seq(Steps)
      <3>1. {If(Dec(1), Sure({Dec(1)}, {})), Release({In(1)}), Release({Frame})} \subseteq Steps
        BY <2>1 DEF Shape, Quiet
      <3>. QED  BY <3>1
    <2>. QED  BY <1>2, <2>4, <2>5, CallFits DEF Names, FoundOutLater, Holes
  <1>. HIDE DEF P0, P1, P2, P3, PZ
  <1>11. Chain(R, main_extract, P0, PZ)
    BY <1>5, <1>6, <1>7, <1>8, <1>9, <1>10, <1>2, ChainOf6 DEF main_extract
  <1>12. /\ "extract" \in Program /\ Code["extract"] = main_extract
        /\ Len(main_extract) = 6 /\ main_extract[6].name = "end"
    BY DEF Program, Code, main_extract, Call, Loop
  <1>. HIDE DEF R
  <1>13. Chain(CallRel("extract", T), Code["extract"], P0, PZ)
    BY <1>11, <1>12 DEF R
  <1>14. "extract" \in Program /\ Len(Code["extract"]) > 0 /\ Code["extract"][Len(Code["extract"])].name = "end"
    BY <1>12
  <1>. QED  BY <1>2, <1>3, <1>13, <1>14, PlannedFrom

\* demuxing: a decoder that is there is open, and so are its raw file and buffer once they are made.
LEMMA DemuxingPlanned == \E t, h : Planned("demuxing", t, h)
  <1>. DEFINE H0 == {}
              C0 == {<< Dec(1), Dec(1) >>, << Data(1), Data(1) >>}
              H1 == {In(1)}
              C1 == {<< Dec(1), Dec(1) >>, << Data(1), Data(1) >>}
              H2 == {In(1)}
              C2 == {<< Dec(1), Dec(1) >>, << Data(1), Data(1) >>, << Dec(1), Io(1) >>}
              H3 == {In(1)}
              C3 == {<< Dec(1), Dec(1) >>, << Data(1), Data(1) >>, << Dec(1), Io(1) >>, << Dec(1),
                  Data(2) >>}
              H4 == {In(1)}
              C4 == {<< Dec(1), Dec(1) >>, << Data(1), Data(1) >>, << Dec(1), Io(1) >>, << Dec(1),
                  Data(2) >>, << Data(1), Io(2) >>}
              H5 == {In(1), Frame}
              C5 == {<< Dec(1), Dec(1) >>, << Data(1), Data(1) >>, << Dec(1), Io(1) >>, << Dec(1),
                  Data(2) >>, << Data(1), Io(2) >>}
              HZ == {}
              CZ == {}
              P0 == Certain(H0, C0)
              P1 == Certain(H1, C1)
              P2 == Certain(H2, C2)
              P3 == Certain(H3, C3)
              P4 == Certain(H4, C4)
              P5 == Certain(H5, C5)
              PZ == Certain(HZ, CZ)
              T == P0
              R == CallRel("demuxing", T)
  <1>1. /\ Leads({}, {In(1)}, {}, {}, FALSE, H0, C0, H1, C1)
        /\ Leads({In(1)}, {}, {}, {}, FALSE, H1, C1, H1, C1)
        /\ Leads({In(1)}, {Dec(1)}, {}, {}, FALSE, H1, C1, H1, C1)
        /\ Leads({}, {Io(1)}, {}, {Dec(1)}, FALSE, H1, C1, H2, C2)
        /\ Leads({Dec(1)}, {Data(2)}, {}, {Dec(1)}, FALSE, H2, C2, H3, C3)
        /\ Leads({In(1)}, {}, {}, {}, FALSE, H3, C3, H3, C3)
        /\ Leads({In(1)}, {Data(1)}, {}, {}, FALSE, H3, C3, H3, C3)
        /\ Leads({}, {Io(2)}, {}, {Data(1)}, FALSE, H3, C3, H4, C4)
        /\ Leads({In(1)}, {}, {}, {}, FALSE, H4, C4, H4, C4)
        /\ Leads({}, {Frame}, {}, {}, FALSE, H4, C4, H5, C5)
        /\ Leads({In(1)}, {}, {}, {}, FALSE, H5, C5, H5, C5)
        /\ Leads({Dec(1), Frame, Data(2), Io(1)}, {}, {}, {Dec(1)}, TRUE, H5, C5, H5, C5)
        /\ Leads({Data(1), Frame, Io(2)}, {}, {}, {Data(1)}, TRUE, H5, C5, H5, C5)
        /\ Leads({}, {}, {}, {Data(1)}, FALSE, H5, C5, H0, C0)
        /\ Leads({Dec(1)}, {}, {}, {Dec(1)}, FALSE, H0, C0, H0, C0)
        /\ Leads({Data(1)}, {}, {}, {Data(1)}, FALSE, H0, C0, H0, C0)
        /\ Leads({}, {}, {In(1), Data(1)}, {}, FALSE, H0, C0, HZ, CZ)
        /\ Leads({}, {}, {Io(1)}, {}, FALSE, HZ, CZ, HZ, CZ)
        /\ Leads({}, {}, {Io(2)}, {}, FALSE, HZ, CZ, HZ, CZ)
        /\ Leads({}, {}, {Frame}, {}, FALSE, HZ, CZ, HZ, CZ)
        /\ Leads({}, {}, {Data(2)}, {}, FALSE, HZ, CZ, HZ, CZ)
    <2>1. /\ Leads({}, {In(1)}, {}, {}, FALSE, H0, C0, H1, C1)
          /\ Leads({In(1)}, {}, {}, {}, FALSE, H1, C1, H1, C1)
          /\ Leads({In(1)}, {Dec(1)}, {}, {}, FALSE, H1, C1, H1, C1)
          /\ Leads({}, {Io(1)}, {}, {Dec(1)}, FALSE, H1, C1, H2, C2)
          /\ Leads({Dec(1)}, {Data(2)}, {}, {Dec(1)}, FALSE, H2, C2, H3, C3)
          /\ Leads({In(1)}, {}, {}, {}, FALSE, H3, C3, H3, C3)
      BY OneTrack DEF Leads, Owned
    <2>2. /\ Leads({In(1)}, {Data(1)}, {}, {}, FALSE, H3, C3, H3, C3)
          /\ Leads({}, {Io(2)}, {}, {Data(1)}, FALSE, H3, C3, H4, C4)
          /\ Leads({In(1)}, {}, {}, {}, FALSE, H4, C4, H4, C4)
          /\ Leads({}, {Frame}, {}, {}, FALSE, H4, C4, H5, C5)
          /\ Leads({In(1)}, {}, {}, {}, FALSE, H5, C5, H5, C5)
          /\ Leads({Dec(1), Frame, Data(2), Io(1)}, {}, {}, {Dec(1)}, TRUE, H5, C5, H5, C5)
      BY OneTrack DEF Leads, Owned
    <2>3. /\ Leads({Data(1), Frame, Io(2)}, {}, {}, {Data(1)}, TRUE, H5, C5, H5, C5)
          /\ Leads({}, {}, {}, {Data(1)}, FALSE, H5, C5, H0, C0)
          /\ Leads({Dec(1)}, {}, {}, {Dec(1)}, FALSE, H0, C0, H0, C0)
          /\ Leads({Data(1)}, {}, {}, {Data(1)}, FALSE, H0, C0, H0, C0)
          /\ Leads({}, {}, {In(1), Data(1)}, {}, FALSE, H0, C0, HZ, CZ)
          /\ Leads({}, {}, {Io(1)}, {}, FALSE, HZ, CZ, HZ, CZ)
      BY OneTrack DEF Leads, Owned
    <2>4. /\ Leads({}, {}, {Io(2)}, {}, FALSE, HZ, CZ, HZ, CZ)
          /\ Leads({}, {}, {Frame}, {}, FALSE, HZ, CZ, HZ, CZ)
          /\ Leads({}, {}, {Data(2)}, {}, FALSE, HZ, CZ, HZ, CZ)
      BY OneTrack DEF Leads, Owned
    <2>. QED  BY <2>1, <2>2, <2>3, <2>4
  <1>2. /\ P0 \in SUBSET Stores
        /\ P1 \in SUBSET Stores
        /\ P2 \in SUBSET Stores
        /\ P3 \in SUBSET Stores
        /\ P4 \in SUBSET Stores
        /\ P5 \in SUBSET Stores
        /\ PZ \in SUBSET Stores
        /\ P1 \subseteq P0
        /\ P2 \subseteq P0
        /\ P3 \subseteq P0
        /\ P4 \subseteq P0
        /\ P5 \subseteq P0
    BY CertainTypes
  <1>3. << NothingOpen, 0 >> \in P0
    BY CertainAtFirst, OneTrack
  <1>. HIDE DEF H0, C0, H1, C1, H2, C2, H3, C3, H4, C4, H5, C5, HZ, CZ
  <1>5. << P0, Call("open", << Try({}, {In(1)}, {In(1)}), Try({In(1)}, {}, {}) >>, "exit"),
          P1 >> \in R
    <2>1. /\ Shape(Try({}, {In(1)}, {In(1)}), {}, {In(1)}, {}, {}, FALSE, "returned", {In(1)})
          /\ Shape(Try({In(1)}, {}, {}), {In(1)}, {}, {}, {}, FALSE, "returned", {})
      BY Shapes, OneTrack
    <2>2. /\ Errs("returned", {In(1)}, P0, Stores, P1)
          /\ Errs("returned", {}, P1, Stores, P1)
      BY <1>2 DEF Errs
    <2>3. /\ << P0, Try({}, {In(1)}, {In(1)}), P1 >> \in Takes(Stores, P1)
          /\ << P1, Try({In(1)}, {}, {}), P1 >> \in Takes(Stores, P1)
      BY <1>1, <2>1, <2>2, StepLeads
    <2>4. Chain(Takes(Stores, P1), << Try({}, {In(1)}, {In(1)}), Try({In(1)}, {}, {}) >>, P0, P1)
      BY <1>2, <2>3, ChainOf2
    <2>5. << Try({}, {In(1)}, {In(1)}), Try({In(1)}, {}, {}) >> \in Seq(Steps)
      <3>1. {Try({}, {In(1)}, {In(1)}), Try({In(1)}, {}, {})} \subseteq Steps
        BY <2>1 DEF Shape, Quiet
      <3>. QED  BY <3>1
    <2>. QED  BY <1>2, <2>4, <2>5, CallFits DEF Names, FoundOutLater
  <1>6. << P1, Call("open_codec_context", open_codec_context(Dec(1)), "ignore"), P1 >> \in R
    <2>1. /\ Shape(Try({In(1)}, {}, {}), {In(1)}, {}, {}, {}, FALSE, "returned", {})
          /\ Shape(Sure({In(1)}, {Dec(1)}), {In(1)}, {Dec(1)}, {}, {}, FALSE, "never", {})
      BY Shapes, OneTrack
    <2>2. /\ Errs("returned", {}, P1, P1, P1)
          /\ Errs("never", {}, P1, P1, P1)
      BY <1>2 DEF Errs
    <2>3. /\ << P1, Try({In(1)}, {}, {}), P1 >> \in Takes(P1, P1)
          /\ << P1, Sure({In(1)}, {Dec(1)}), P1 >> \in Takes(P1, P1)
      BY <1>1, <2>1, <2>2, StepLeads
    <2>4. Chain(Takes(P1, P1), open_codec_context(Dec(1)), P1,
            P1) /\ open_codec_context(Dec(1)) \in Seq(Loud)
      <3>. DEFINE f == [n \in 1..3 |-> Try({In(1)}, {}, {})]
      <3>1. Try({In(1)}, {}, {}) \in Loud /\ Sure({In(1)}, {Dec(1)}) \in Loud
        BY <2>1 DEF Shape, Quiet, Loud
      <3>2. f \in Seq(Loud) /\ Len(f) = 3 /\ \A n \in 1..3 : f[n] = Try({In(1)}, {}, {})
        BY <3>1, FunctionIsSeq
      <3>. HIDE DEF f
      <3>3. Chain(Takes(P1, P1), f, P1, P1)
        BY <1>2, <2>3, <3>2, ChainSame
      <3>4. Chain(Takes(P1, P1), f \o << Sure({In(1)}, {Dec(1)}) >>, P1, P1)
        BY <1>2, <2>3, <3>1, <3>2, <3>3, ChainAppend
      <3>5. << Sure({In(1)}, {Dec(1)}) >> \in Seq(Loud)
        BY <3>1
      <3>6. f \o << Sure({In(1)}, {Dec(1)}) >> \in Seq(Loud)
        BY <3>2, <3>5, Joined
      <3>. QED  BY <3>4, <3>6 DEF f, open_codec_context
    <2>5. open_codec_context(Dec(1)) \in Seq(Steps) /\ \A m \in 1..Len(open_codec_context(Dec(1))) : open_codec_context(Dec(1))[m].failure # "unnoticed"
      BY <2>4, LoudText
    <2>. QED  BY <1>2, <2>4, <2>5, CallFits DEF Names, FoundOutLater
  <1>7. << P1, Call("video_dst", << If(Dec(1), Try({}, {Io(1)}, {})), If(Dec(1), Try({Dec(1)},
          {Data(2)}, {})) >>, "cleanup"), P3 >> \in R
    <2>1. /\ Shape(If(Dec(1), Try({}, {Io(1)}, {})), {}, {Io(1)}, {}, {Dec(1)}, FALSE, "returned",
               {})
          /\ Shape(If(Dec(1), Try({Dec(1)}, {Data(2)}, {})), {Dec(1)}, {Data(2)}, {}, {Dec(1)},
              FALSE, "returned", {})
      BY Shapes, OneTrack
    <2>2. /\ Errs("returned", {}, P1, T, P3)
          /\ Errs("returned", {}, P2, T, P3)
      BY <1>2 DEF Errs
    <2>3. /\ << P1, If(Dec(1), Try({}, {Io(1)}, {})), P2 >> \in Takes(T, P3)
          /\ << P2, If(Dec(1), Try({Dec(1)}, {Data(2)}, {})), P3 >> \in Takes(T, P3)
      BY <1>1, <2>1, <2>2, StepLeads
    <2>4. Chain(Takes(T, P3), << If(Dec(1), Try({}, {Io(1)}, {})), If(Dec(1), Try({Dec(1)},
            {Data(2)}, {})) >>, P1, P3)
      BY <1>2, <2>3, ChainOf2
    <2>5. << If(Dec(1), Try({}, {Io(1)}, {})), If(Dec(1), Try({Dec(1)}, {Data(2)},
            {})) >> \in Seq(Steps)
      <3>1. {If(Dec(1), Try({}, {Io(1)}, {})), If(Dec(1), Try({Dec(1)}, {Data(2)},
              {}))} \subseteq Steps
        BY <2>1 DEF Shape, Quiet
      <3>. QED  BY <3>1
    <2>. QED  BY <1>2, <2>4, <2>5, CallFits DEF Names, FoundOutLater
  <1>8. << P3, Call("open_codec_context", open_codec_context(Data(1)), "ignore"), P3 >> \in R
    <2>1. /\ Shape(Try({In(1)}, {}, {}), {In(1)}, {}, {}, {}, FALSE, "returned", {})
          /\ Shape(Sure({In(1)}, {Data(1)}), {In(1)}, {Data(1)}, {}, {}, FALSE, "never", {})
      BY Shapes, OneTrack
    <2>2. /\ Errs("returned", {}, P3, P3, P3)
          /\ Errs("never", {}, P3, P3, P3)
      BY <1>2 DEF Errs
    <2>3. /\ << P3, Try({In(1)}, {}, {}), P3 >> \in Takes(P3, P3)
          /\ << P3, Sure({In(1)}, {Data(1)}), P3 >> \in Takes(P3, P3)
      BY <1>1, <2>1, <2>2, StepLeads
    <2>4. Chain(Takes(P3, P3), open_codec_context(Data(1)), P3,
            P3) /\ open_codec_context(Data(1)) \in Seq(Loud)
      <3>. DEFINE f == [n \in 1..3 |-> Try({In(1)}, {}, {})]
      <3>1. Try({In(1)}, {}, {}) \in Loud /\ Sure({In(1)}, {Data(1)}) \in Loud
        BY <2>1 DEF Shape, Quiet, Loud
      <3>2. f \in Seq(Loud) /\ Len(f) = 3 /\ \A n \in 1..3 : f[n] = Try({In(1)}, {}, {})
        BY <3>1, FunctionIsSeq
      <3>. HIDE DEF f
      <3>3. Chain(Takes(P3, P3), f, P3, P3)
        BY <1>2, <2>3, <3>2, ChainSame
      <3>4. Chain(Takes(P3, P3), f \o << Sure({In(1)}, {Data(1)}) >>, P3, P3)
        BY <1>2, <2>3, <3>1, <3>2, <3>3, ChainAppend
      <3>5. << Sure({In(1)}, {Data(1)}) >> \in Seq(Loud)
        BY <3>1
      <3>6. f \o << Sure({In(1)}, {Data(1)}) >> \in Seq(Loud)
        BY <3>2, <3>5, Joined
      <3>. QED  BY <3>4, <3>6 DEF f, open_codec_context
    <2>5. open_codec_context(Data(1)) \in Seq(Steps) /\ \A m \in 1..Len(open_codec_context(Data(1))) : open_codec_context(Data(1))[m].failure # "unnoticed"
      BY <2>4, LoudText
    <2>. QED  BY <1>2, <2>4, <2>5, CallFits DEF Names, FoundOutLater
  <1>9. << P3, Call("audio_dst", << If(Data(1), Try({}, {Io(2)}, {})), Sure({In(1)}, {}),
          Require({Dec(1), Data(1)}), Try({}, {Frame}, {}) >>, "cleanup"), P5 >> \in R
    <2>1. /\ Shape(If(Data(1), Try({}, {Io(2)}, {})), {}, {Io(2)}, {}, {Data(1)}, FALSE,
               "returned", {})
          /\ Shape(Sure({In(1)}, {}), {In(1)}, {}, {}, {}, FALSE, "never", {})
          /\ Shape(Try({}, {Frame}, {}), {}, {Frame}, {}, {}, FALSE, "returned", {})
      BY Shapes, OneTrack
    <2>2. /\ Errs("returned", {}, P3, T, P5)
          /\ Errs("never", {}, P4, T, P5)
          /\ Errs("returned", {}, P4, T, P5)
      BY <1>2 DEF Errs
    <2>3. /\ << P3, If(Data(1), Try({}, {Io(2)}, {})), P4 >> \in Takes(T, P5)
          /\ << P4, Sure({In(1)}, {}), P4 >> \in Takes(T, P5)
          /\ << P4, Try({}, {Frame}, {}), P5 >> \in Takes(T, P5)
      BY <1>1, <2>1, <2>2, StepLeads
    <2>3a. Require({Dec(1), Data(1)}) \in Steps /\ << P4, Require({Dec(1), Data(1)}),
            P4 >> \in Takes(T, P5)
      <3>0. {Dec(1), Data(1)} \in SUBSET Contexts /\ {Dec(1), Data(1)} # {}
        BY OneTrack
      <3>1. Require({Dec(1), Data(1)}) \in Steps
        BY <3>0, QuietTypes DEF Quiet
      <3>. QED  BY <1>2, <3>0, <3>1, RequireKnown
    <2>4. Chain(Takes(T, P5), << If(Data(1), Try({}, {Io(2)}, {})), Sure({In(1)}, {}),
            Require({Dec(1), Data(1)}), Try({}, {Frame}, {}) >>, P3, P5)
      BY <1>2, <2>3, <2>3a, ChainOf4
    <2>5. << If(Data(1), Try({}, {Io(2)}, {})), Sure({In(1)}, {}), Require({Dec(1), Data(1)}),
            Try({}, {Frame}, {}) >> \in Seq(Steps)
      <3>1. {If(Data(1), Try({}, {Io(2)}, {})), Sure({In(1)}, {}), Require({Dec(1), Data(1)}),
              Try({}, {Frame}, {})} \subseteq Steps
        BY <2>1, <2>3a DEF Shape, Quiet
      <3>. QED  BY <3>1
    <2>. QED  BY <1>2, <2>4, <2>5, CallFits DEF Names, FoundOutLater
  <1>10. << P5, Loop("read", << TryOrBreak({In(1)}, {}) >> \o decode_packet, "cleanup"), P5 >> \in R
    <2>1. /\ Shape(TryOrBreak({In(1)}, {}), {In(1)}, {}, {}, {}, FALSE, "break", {})
          /\ Shape(If(Dec(1), Maybe(Unchecked({Dec(1), Frame, Data(2), Io(1)}, {}))), {Dec(1),
              Frame, Data(2), Io(1)}, {}, {}, {Dec(1)}, TRUE, "unnoticed", {})
          /\ Shape(If(Data(1), Maybe(Unchecked({Data(1), Frame, Io(2)}, {}))), {Data(1), Frame,
              Io(2)}, {}, {}, {Data(1)}, TRUE, "unnoticed", {})
      BY Shapes, OneTrack
    <2>2. /\ Errs("break", {}, P5, T, P5)
          /\ Errs("unnoticed", {}, P5, T, P5)
      BY <1>2 DEF Errs
    <2>3. /\ << P5, TryOrBreak({In(1)}, {}), P5 >> \in Takes(T, P5)
          /\ << P5, If(Dec(1), Maybe(Unchecked({Dec(1), Frame, Data(2), Io(1)}, {}))),
              P5 >> \in Takes(T, P5)
          /\ << P5, If(Data(1), Maybe(Unchecked({Data(1), Frame, Io(2)}, {}))), P5 >> \in Takes(T,
              P5)
      BY <1>1, <2>1, <2>2, StepLeads, ZenonT(40)
    <2>4. Chain(Takes(T, P5), << TryOrBreak({In(1)}, {}) >> \o decode_packet, P5, P5)
      <3>1. Chain(Takes(T, P5), << TryOrBreak({In(1)}, {}) >>, P5, P5) /\ Chain(Takes(T, P5),
              decode_packet, P5, P5)
        BY <1>2, <2>3, ChainOfOne, ChainOf2 DEF decode_packet
      <3>2. << TryOrBreak({In(1)}, {}) >> \in Seq(Steps) /\ decode_packet \in Seq(Steps)
        BY <2>1 DEF Shape, Quiet, decode_packet
      <3>. QED  BY <3>1, <3>2, ChainJoin
    <2>5. << TryOrBreak({In(1)}, {}) >> \o decode_packet \in Seq(Steps)
      <3>1. << TryOrBreak({In(1)}, {}) >> \in Seq(Steps) /\ decode_packet \in Seq(Steps)
        BY <2>1 DEF Shape, Quiet, decode_packet
      <3>. QED  BY <3>1, Joined
    <2>. QED  BY <1>2, <2>4, <2>5, CallFits DEF Names, FoundOutLater
  <1>11. << P5, Loop("flush", decode_packet, "cleanup"), P5 >> \in R
    <2>1. /\ Shape(If(Dec(1), Maybe(Unchecked({Dec(1), Frame, Data(2), Io(1)}, {}))), {Dec(1),
               Frame, Data(2), Io(1)}, {}, {}, {Dec(1)}, TRUE, "unnoticed", {})
          /\ Shape(If(Data(1), Maybe(Unchecked({Data(1), Frame, Io(2)}, {}))), {Data(1), Frame,
              Io(2)}, {}, {}, {Data(1)}, TRUE, "unnoticed", {})
      BY Shapes, OneTrack
    <2>2. Errs("unnoticed", {}, P5, T, P5)
      BY <1>2 DEF Errs
    <2>3. /\ << P5, If(Dec(1), Maybe(Unchecked({Dec(1), Frame, Data(2), Io(1)}, {}))),
               P5 >> \in Takes(T, P5)
          /\ << P5, If(Data(1), Maybe(Unchecked({Data(1), Frame, Io(2)}, {}))), P5 >> \in Takes(T,
              P5)
      BY <1>1, <2>1, <2>2, StepLeads
    <2>4. Chain(Takes(T, P5), decode_packet, P5, P5)
      BY <1>2, <2>3, ChainOf2 DEF decode_packet
    <2>5. decode_packet \in Seq(Steps)
      <3>1. {If(Dec(1), Maybe(Unchecked({Dec(1), Frame, Data(2), Io(1)}, {}))), If(Data(1),
              Maybe(Unchecked({Data(1), Frame, Io(2)}, {})))} \subseteq Steps
        BY <2>1 DEF Shape, Quiet
      <3>. QED  BY <3>1 DEF decode_packet
    <2>. QED  BY <1>2, <2>4, <2>5, CallFits DEF Names, FoundOutLater
  <1>12. << P5, Call("get_format", get_format_from_sample_fmt, "cleanup"), P0 >> \in R
    <2>1. Shape(If(Data(1), Try({}, {}, {})), {}, {}, {}, {Data(1)}, FALSE, "returned", {})
      BY Shapes, OneTrack
    <2>2. Errs("returned", {}, P5, T, P0)
      BY <1>2 DEF Errs
    <2>3. << P5, If(Data(1), Try({}, {}, {})), P0 >> \in Takes(T, P0)
      BY <1>1, <2>1, <2>2, StepLeads
    <2>4. Chain(Takes(T, P0), get_format_from_sample_fmt, P5, P0)
      BY <1>2, <2>3, ChainOfOne DEF get_format_from_sample_fmt
    <2>5. get_format_from_sample_fmt \in Seq(Steps)
      <3>1. {If(Data(1), Try({}, {}, {}))} \subseteq Steps
        BY <2>1 DEF Shape, Quiet
      <3>. QED  BY <3>1 DEF get_format_from_sample_fmt
    <2>. QED  BY <1>2, <2>4, <2>5, CallFits DEF Names, FoundOutLater
  <1>13. << P0, Call("end", end_demuxing, "exit"), PZ >> \in R
    <2>1. /\ Shape(If(Dec(1), Sure({Dec(1)}, {})), {Dec(1)}, {}, {}, {Dec(1)}, FALSE, "never", {})
          /\ Shape(If(Data(1), Sure({Data(1)}, {})), {Data(1)}, {}, {}, {Data(1)}, FALSE, "never",
              {})
          /\ Shape(Release({In(1), Data(1)}), {}, {}, {In(1), Data(1)}, {}, FALSE, "never", {})
          /\ Shape(Release({Io(1)}), {}, {}, {Io(1)}, {}, FALSE, "never", {})
          /\ Shape(Release({Io(2)}), {}, {}, {Io(2)}, {}, FALSE, "never", {})
          /\ Shape(Release({Frame}), {}, {}, {Frame}, {}, FALSE, "never", {})
          /\ Shape(Release({Data(2)}), {}, {}, {Data(2)}, {}, FALSE, "never", {})
      BY Shapes, OneTrack
    <2>2. /\ Errs("never", {}, P0, Stores, PZ)
          /\ Errs("never", {}, PZ, Stores, PZ)
      BY <1>2 DEF Errs
    <2>3. /\ << P0, If(Dec(1), Sure({Dec(1)}, {})), P0 >> \in Takes(Stores, PZ)
          /\ << P0, If(Data(1), Sure({Data(1)}, {})), P0 >> \in Takes(Stores, PZ)
          /\ << P0, Release({In(1), Data(1)}), PZ >> \in Takes(Stores, PZ)
          /\ << PZ, Release({Io(1)}), PZ >> \in Takes(Stores, PZ)
          /\ << PZ, Release({Io(2)}), PZ >> \in Takes(Stores, PZ)
          /\ << PZ, Release({Frame}), PZ >> \in Takes(Stores, PZ)
          /\ << PZ, Release({Data(2)}), PZ >> \in Takes(Stores, PZ)
      BY <1>1, <2>1, <2>2, StepLeads
    <2>4. Chain(Takes(Stores, PZ), end_demuxing, P0, PZ)
      BY <1>2, <2>3, ChainOf7 DEF end_demuxing
    <2>5. end_demuxing \in Seq(Steps)
      <3>1. {If(Dec(1), Sure({Dec(1)}, {})), If(Data(1), Sure({Data(1)}, {})), Release({In(1),
              Data(1)}), Release({Io(1)}), Release({Io(2)}), Release({Frame}),
              Release({Data(2)})} \subseteq Steps
        BY <2>1 DEF Shape, Quiet
      <3>. QED  BY <3>1 DEF end_demuxing
    <2>. QED  BY <1>2, <2>4, <2>5, CallFits DEF Names, FoundOutLater, Holes
  <1>. HIDE DEF P0, P1, P2, P3, P4, P5, PZ
  <1>14. Chain(R, main_demuxing, P0, PZ)
    BY <1>5, <1>6, <1>7, <1>8, <1>9, <1>10, <1>11, <1>12, <1>13, <1>2, ChainOf9, ZenonT(40) DEF main_demuxing
  <1>15. /\ "demuxing" \in Program /\ Code["demuxing"] = main_demuxing
        /\ Len(main_demuxing) = 9 /\ main_demuxing[9].name = "end"
    BY DEF Program, Code, main_demuxing, Call, Loop
  <1>. HIDE DEF R
  <1>16. Chain(CallRel("demuxing", T), Code["demuxing"], P0, PZ)
    BY <1>14, <1>15 DEF R
  <1>17. "demuxing" \in Program /\ Len(Code["demuxing"]) > 0 /\ Code["demuxing"][Len(Code["demuxing"])].name = "end"
    BY <1>15
  <1>. QED  BY <1>2, <1>3, <1>16, <1>17, PlannedFrom

\* A step that stays within V, whatever happens, leads to what it leads to in V.
LEMMA TakesWithin ==
    ASSUME NEW E, NEW B, NEW U, NEW P, NEW s, NEW Q, << P, s, Q >> \in Takes(Stores, B),
           NEW V \in SUBSET Stores, s.needs = {}, s.failure # "break",
           \A x \in V : Holds(s, x[1]) => After(s, x) \in V /\ << Free(x[1], s.undo), x[2] >> \in E
    PROVE  << P \cap V, s, Q \cap V >> \in Takes(E, U)
  BY DEF Takes

\* A step that cannot fail has no error to go anywhere.
LEMMA TakesNever ==
    ASSUME NEW E, NEW B, NEW U, NEW P, NEW s, NEW Q, << P, s, Q >> \in Takes(Stores, B),
           s.needs = {}, s.failure = "never"
    PROVE  << P, s, Q >> \in Takes(E, U)
  BY DEF Takes

\* The same of a text.
LEMMA ChainWithin ==
    ASSUME NEW E, NEW B, NEW U, NEW P, NEW b \in Seq(Steps), NEW Q, Chain(Takes(Stores, B), b, P, Q),
           NEW V \in SUBSET Stores,
           \A n \in 1..Len(b) :
             /\ b[n].needs = {} /\ b[n].failure # "break"
             /\ \A x \in V : Holds(b[n], x[1]) =>
                  After(b[n], x) \in V /\ << Free(x[1], b[n].undo), x[2] >> \in E
    PROVE  Chain(Takes(E, U), b, P \cap V, Q \cap V)
  <1>1. PICK h : Along(Takes(Stores, B), b, h) /\ h[1] = P /\ h[Len(b) + 1] = Q
    BY DEF Chain
  <1>. DEFINE g == [n \in 1..(Len(b) + 1) |-> h[n] \cap V]
  <1>2. Len(b) \in Nat
    OBVIOUS
  <1>3. g[1] = P \cap V /\ g[Len(b) + 1] = Q \cap V
    BY <1>1, <1>2
  <1>4. g \in [1..(Len(b) + 1) -> SUBSET Stores]
    OBVIOUS
  <1>5. ASSUME NEW n \in 1..Len(b) PROVE << g[n], b[n], g[n + 1] >> \in Takes(E, U)
    <2>1. n \in 1..(Len(b) + 1) /\ n + 1 \in 1..(Len(b) + 1)
      BY <1>2
    <2>2. << h[n], b[n], h[n + 1] >> \in Takes(Stores, B)
      BY <1>1 DEF Along
    <2>3. g[n] = h[n] \cap V /\ g[n + 1] = h[n + 1] \cap V
      BY <2>1
    <2>. HIDE DEF g
    <2>. QED  BY <2>2, <2>3, TakesWithin
  <1>. HIDE DEF g
  <1>. QED  BY <1>3, <1>4, <1>5 DEF Along, Chain

\* What is known at transcode_aac's label cleanup: a decoder that was found is open.
AacEnd == {x \in Stores : x[1][Dec(1)] # "null" => x[1][Dec(1)] = "open"}
\* The steps that neither close the input nor need anything of the pointers.
AacStep == {s \in Firm(Contexts) : /\ s.needs = {}
                                   /\ {In(1), Dec(1)} \cap (s.frees \cup s.undo) = {}}

\* Such steps keep it.
LEMMA AacKeeps ==
    ASSUME NEW B, NEW U, NEW P, NEW b \in Seq(AacStep), NEW Q, Chain(Safe(B), b, P, Q)
    PROVE  Chain(Takes(AacEnd, U), b, P \cap AacEnd, Q \cap AacEnd) /\ b \in Seq(Steps)
  <1>1. ASSUME NEW s \in AacStep, NEW x \in AacEnd
        PROVE  After(s, x) \in AacEnd /\ << Free(x[1], s.undo), x[2] >> \in AacEnd
    <2>1. /\ Dec(1) \in Contexts /\ Whole(Dec(1)) = In(1)
      BY OneTrack
    <2>2. x \in Stores /\ (x[1][Dec(1)] # "null" => x[1][Dec(1)] = "open")
      BY DEF AacEnd
    <2>3. ASSUME NEW cs, Dec(1) \notin cs, In(1) \notin cs, NEW gs, NEW k \in Nat
          PROVE  /\ << Give(Free(x[1], cs), gs), x[2] + k >> \in AacEnd
                 /\ << Free(x[1], cs), x[2] >> \in AacEnd
      <3>1. Free(x[1], cs)[Dec(1)] = x[1][Dec(1)]
        BY <2>1, <2>3 DEF Free
      <3>2. Give(Free(x[1], cs), gs)[Dec(1)] \in {"open", x[1][Dec(1)]}
        BY <2>1, <3>1 DEF Give
      <3>3. /\ << Give(Free(x[1], cs), gs), x[2] + k >> \in Stores
            /\ << Free(x[1], cs), x[2] >> \in Stores
        BY <2>2, StoreTypes
      <3>4. /\ << Give(Free(x[1], cs), gs), x[2] + k >>[1] = Give(Free(x[1], cs), gs)
            /\ << Free(x[1], cs), x[2] >>[1] = Free(x[1], cs)
        OBVIOUS
      <3>5. << Free(x[1], cs), x[2] >> \in AacEnd
        BY <2>2, <3>1, <3>3, <3>4 DEF AacEnd
      <3>6. << Give(Free(x[1], cs), gs), x[2] + k >> \in AacEnd
        BY <2>2, <3>2, <3>3, <3>4 DEF AacEnd
      <3>. QED  BY <3>5, <3>6
    <2>4. (IF s.push = 0 THEN 0 ELSE 1) \in Nat
      OBVIOUS
    <2>5. Dec(1) \notin s.frees /\ In(1) \notin s.frees /\ Dec(1) \notin s.undo /\ In(1) \notin s.undo
      BY DEF AacStep
    <2>6. After(s, x) \in AacEnd
      BY <2>3, <2>4, <2>5 DEF After
    <2>7. 0 \in Nat
      OBVIOUS
    <2>8. << Free(x[1], s.undo), x[2] >> \in AacEnd
      BY <2>3, <2>5, <2>7
    <2>. QED  BY <2>6, <2>8
  <1>2. AacStep \subseteq Steps /\ \A s \in AacStep : s.needs = {} /\ s.failure # "break"
    BY DEF AacStep, Firm, Quiet
  <1>3. \A n \in 1..Len(b) : b[n] \in AacStep
    OBVIOUS
  <1>4. AacEnd \in SUBSET Stores /\ b \in Seq(Steps)
    BY <1>2 DEF AacEnd
  <1>. QED  BY <1>1, <1>2, <1>3, <1>4, ChainWithin DEF Safe

\* transcode_aac: whatever a call needs is there before it; its label cleanup knows
\* that a decoder that was found is open, but not that the encoder is.
LEMMA AacPlanned == \E t, h : Planned("transcode_aac", t, h)
  <1>. DEFINE H1 == {In(1), Dec(1)}
              H2 == H1 \cup {Io(1), Out(1), Enc(1)}
              H3 == H2 \cup {Data(1)}
              H4 == H3 \cup {Data(2)}
              H5 == H4 \cup {Muxer(1)}
              P0 == {x \in Stores : x[1][Dec(1)] = "null"}
              P1 == Having(H1, 0)
              P2 == Having(H2, 0)
              P3 == Having(H3, 0)
              P4 == Having(H4, 0)
              P5 == Having(H5, 0)
              used == {In(1), Dec(1), Out(1), Enc(1), Muxer(1), Data(1), Data(2)}
              R == CallRel("transcode_aac", AacEnd)
  <1>0. /\ 1 \in Track /\ H5 \in SUBSET Contexts /\ {} \in SUBSET Contexts
        /\ In(1) \in Contexts /\ Dec(1) \in Contexts /\ Io(1) \in Contexts /\ Out(1) \in Contexts
        /\ Enc(1) \in Contexts /\ Data(1) \in Contexts /\ Data(2) \in Contexts /\ Muxer(1) \in Contexts
        /\ H1 \in SUBSET Contexts /\ H2 \in SUBSET Contexts /\ H3 \in SUBSET Contexts
        /\ H4 \in SUBSET Contexts /\ used \in SUBSET Contexts /\ 0 \in Nat
    BY OneTrack, TrackType
  <1>1. /\ P0 \in SUBSET Stores /\ P1 \in SUBSET Stores /\ P2 \in SUBSET Stores
        /\ P3 \in SUBSET Stores /\ P4 \in SUBSET Stores /\ P5 \in SUBSET Stores
        /\ AacEnd \in SUBSET Stores
    BY HavingType DEF AacEnd
  \* where the decoder is known to be open, so is what the label cleanup knows
  <1>1a. /\ P1 \cap AacEnd = P1 /\ P2 \cap AacEnd = P2 /\ P3 \cap AacEnd = P3
         /\ P4 \cap AacEnd = P4 /\ P5 \cap AacEnd = P5 /\ Having({}, 0) \cap AacEnd = AacEnd
    <2>1. \A H : Dec(1) \in H => Having(H, 0) \subseteq AacEnd
      BY DEF Having, Known, AacEnd
    <2>2. Having({}, 0) = Stores
      BY EmptyCertain DEF Certain, Having
    <2>. QED  BY <1>1, <2>1, <2>2
  <1>1b. /\ {Io(1), Out(1), Data(1), Muxer(1)} \cap {In(1), Dec(1)} = {}
    BY OneTrack
  \* the steps that open something
  <1>1c. /\ \A u, d \in SUBSET Contexts : \A g \in SUBSET Contexts : {In(1), Dec(1)} \cap d = {} =>
               Try(u, g, d) \in AacStep
         /\ Release({Muxer(1)}) \in AacStep
    <2>1. ASSUME NEW u \in SUBSET Contexts, NEW d \in SUBSET Contexts, NEW g \in SUBSET Contexts,
                 {In(1), Dec(1)} \cap d = {}
          PROVE  Try(u, g, d) \in AacStep
      <3>1. Try(u, g, d) \in Firm(Contexts)
        BY StepTypes
      <3>2. Try(u, g, d).needs = {} /\ Try(u, g, d).frees = {} /\ Try(u, g, d).undo = d
        BY DEF Try, Sure
      <3>. QED  BY <2>1, <3>1, <3>2 DEF AacStep
    <2>2. Release({Muxer(1)}) \in Firm(Contexts)
      BY <1>0, StepTypes
    <2>3. /\ Release({Muxer(1)}).needs = {} /\ Release({Muxer(1)}).frees = {Muxer(1)}
          /\ Release({Muxer(1)}).undo = {}
      BY DEF Release, Sure
    <2>. QED  BY <1>1b, <2>1, <2>2, <2>3 DEF AacStep
  \* a call of the middle of the program
  <1>1d. ASSUME NEW nm \in Names, nm \notin FoundOutLater, nm # "end", NEW b \in Seq(AacStep),
                NEW P, NEW Q, P \in SUBSET Stores, Q \in SUBSET Stores, Chain(Safe(Q), b, P, Q)
         PROVE  << P \cap AacEnd, Call(nm, b, "cleanup"), Q \cap AacEnd >> \in R
    <2>1. Chain(Takes(AacEnd, Q \cap AacEnd), b, P \cap AacEnd, Q \cap AacEnd) /\ b \in Seq(Steps)
      BY <1>1d, AacKeeps
    <2>2. P \cap AacEnd \in SUBSET Stores /\ Q \cap AacEnd \in SUBSET Stores
      BY <1>1d
    <2>. QED  BY <1>1d, <2>1, <2>2, CallFits
  <1>2. << P0, Call("open_input_file", open_input_file_aac(1), "cleanup"), P1 >> \in R
    <2>. DEFINE a == Try({}, {In(1)}, {In(1)})
                c == Try({In(1)}, {}, {In(1)})
                d == Sure({In(1)}, {Dec(1)})
                HI == {In(1)}
                A0 == Having({}, 0)
                A1 == Having(HI, 0)
                G == Takes(AacEnd, P1)
    <2>1. << A0, a, A1 >> \in Takes(Stores, P1) /\ << A1, c, A1 >> \in Takes(Stores, P1)
          /\ << A1, d, P1 >> \in Takes(Stores, P1)
      <3>1. HI \in SUBSET Contexts /\ HI \subseteq {} \cup {In(1)} /\ H1 \subseteq HI \cup {Dec(1)}
            /\ {In(1)} \in SUBSET HI /\ {Dec(1)} \in SUBSET Contexts /\ {In(1)} \in SUBSET Contexts
            /\ HI \subseteq HI \cup {}
        BY <1>0
      <3>. HIDE DEF HI, H1
      <3>. QED  BY <1>0, <3>1, Opens
    <2>2. /\ a.needs = {} /\ a.failure # "break" /\ a.undo = {In(1)} /\ a.frees = {} /\ a.gives = {In(1)}
          /\ c.needs = {} /\ c.failure # "break" /\ c.undo = {In(1)} /\ c.frees = {} /\ c.gives = {}
      BY DEF Try, Sure
    <2>3. \A x \in P0 : \A e \in {a, c} : /\ After(e, x) \in P0
                                          /\ << Free(x[1], e.undo), x[2] >> \in AacEnd
      <3>. SUFFICES ASSUME NEW x \in P0, NEW e \in {a, c}
                    PROVE  After(e, x) \in P0 /\ << Free(x[1], e.undo), x[2] >> \in AacEnd
        OBVIOUS
      <3>1. x \in Stores /\ x[1][Dec(1)] = "null" /\ Dec(1) \in Contexts /\ Dec(1) # In(1)
        BY <1>0, <1>1b, OneTrack
      <3>2. \A cs : Free(x[1], cs)[Dec(1)] = "null"
        BY <3>1 DEF Free
      <3>3. Dec(1) \notin e.gives
        BY <2>2, <3>1
      <3>. DEFINE k == IF e.push = 0 THEN 0 ELSE 1
      <3>4. k \in Nat
        OBVIOUS
      <3>. HIDE DEF k
      <3>5. /\ << Give(Free(x[1], e.frees), e.gives), x[2] + k >> \in Stores
            /\ << Free(x[1], e.undo), x[2] >> \in Stores
        BY <3>1, <3>4, StoreTypes
      <3>6. Give(Free(x[1], e.frees), e.gives)[Dec(1)] = "null"
        BY <3>1, <3>2, <3>3 DEF Give
      <3>7. /\ << Give(Free(x[1], e.frees), e.gives), x[2] + k >>[1] = Give(Free(x[1], e.frees), e.gives)
            /\ << Free(x[1], e.undo), x[2] >>[1] = Free(x[1], e.undo)
        OBVIOUS
      <3>8. After(e, x) \in P0
        BY <3>5, <3>6, <3>7 DEF After, k
      <3>. QED  BY <3>2, <3>5, <3>7, <3>8 DEF AacEnd
    <2>4. << A0 \cap P0, a, A1 \cap P0 >> \in G /\ << A1 \cap P0, c, A1 \cap P0 >> \in G
      <3>. HIDE DEF a, c, P0, P1, A0, A1
      <3>. QED  BY <1>1, <2>1, <2>2, <2>3, TakesWithin
    <2>5. << A1 \cap P0, d, P1 >> \in G
      <3>1. d.failure = "never" /\ d.needs = {}
        BY DEF Sure
      <3>2. << A1, d, P1 >> \in G
        <4>. HIDE DEF d, P1, A1
        <4>. QED  BY <2>1, <3>1, TakesNever
      <3>3. A1 \cap P0 \in SUBSET Stores /\ A1 \cap P0 \subseteq A1
        BY <1>1
      <3>. HIDE DEF d, P0, A1, P1
      <3>. QED  BY <1>1, <3>2, <3>3, TakesMore
    <2>6. A0 \cap P0 = P0
      <3>1. A0 = Stores
        BY EmptyCertain DEF Certain, Having
      <3>. QED  BY <1>1, <3>1
    <2>7. open_input_file_aac(1) = << a >> \o ([m \in 1..4 |-> c] \o << d >>)
      BY DEF open_input_file_aac, OpenFile, FindDecoder
    <2>. DEFINE f == [m \in 1..4 |-> c]
                N == A1 \cap P0
    <2>8. a \in Steps /\ c \in Steps /\ d \in Steps
      BY <2>1 DEF Takes
    <2>9. f \in Seq(Steps) /\ Len(f) = 4 /\ \A m \in 1..4 : f[m] = c
      <3>. HIDE DEF c
      <3>. QED  BY <2>8
    <2>. HIDE DEF f, a, c, d, P0, P1, G
    <2>10. N \in SUBSET Stores
      BY <1>1
    <2>. HIDE DEF N
    <2>11. Chain(G, f, N, N)
      BY <2>4, <2>9, <2>10, ChainSame DEF N
    <2>12. Chain(G, f \o << d >>, N, P1) /\ f \o << d >> \in Seq(Steps)
      <3>1. Chain(G, f \o << d >>, N, P1)
        BY <1>1, <2>5, <2>8, <2>9, <2>10, <2>11, ChainAppend DEF N
      <3>2. << d >> \in Seq(Steps)
        BY <2>8
      <3>. QED  BY <2>9, <3>1, <3>2, Joined
    <2>13. Chain(G, << a >>, P0, N) /\ << a >> \in Seq(Steps)
      <3>1. << P0, a, N >> \in G
        BY <2>4, <2>6 DEF N
      <3>2. Chain(G, << a >>, P0, N)
        BY <1>1, <2>10, <3>1, ChainOfOne
      <3>. QED  BY <2>8, <3>2
    <2>. DEFINE t == << a >> \o (f \o << d >>)
    <2>14. Chain(G, t, P0, P1) /\ t \in Seq(Steps)
      BY <2>12, <2>13, ChainJoin, Joined
    <2>15. open_input_file_aac(1) = t
      BY <2>7 DEF f
    <2>. HIDE DEF t
    <2>. QED  BY <1>1, <2>14, <2>15, CallFits DEF Names, FoundOutLater, G
  <1>3. << P1, Call("open_output_file", open_output_file_aac(1), "cleanup"), P2 >> \in R
    <2>1. Chain(Safe(P2), open_output_file_aac(1), P1, P2)
      <3>1. Dec(1) \in H1 /\ {Out(1)} \in SUBSET (H1 \cup {Out(1)})
        OBVIOUS
      <3>. HIDE DEF H1
      <3>. QED  BY <1>0, <3>1, OutputKnown DEF open_output_file_aac
    <2>2. open_output_file_aac(1) \in Seq(AacStep)
      <3>. DEFINE undo == {Io(1), Out(1)}
      <3>1. {In(1), Dec(1)} \cap undo = {} /\ {In(1), Dec(1)} \cap {} = {} /\ undo \in SUBSET Contexts
        BY <1>0, <1>1b
      <3>. HIDE DEF undo
      <3>. DEFINE a == Try({}, {Io(1)}, {})
                  b == Try({}, {Out(1)}, {})
                  c == Try({Out(1)}, {}, undo)
                  d == Try({Out(1)}, {Enc(1)}, undo)
                  e == Try({Out(1), Enc(1), Dec(1)}, {}, undo)
      <3>2. a \in AacStep /\ b \in AacStep /\ c \in AacStep /\ d \in AacStep /\ e \in AacStep
        BY <1>0, <1>1c, <3>1
      <3>3. open_output_file_aac(1) = << a, b, c, c, d, e >>
        BY DEF open_output_file_aac, OpenOutput, undo
      <3>. HIDE DEF a, b, c, d, e
      <3>. DEFINE S == AacStep
      <3>4. a \in S /\ b \in S /\ c \in S /\ d \in S /\ e \in S
        BY <3>2
      <3>. HIDE DEF S
      <3>5. << a, b, c >> \in Seq(S) /\ << c, d, e >> \in Seq(S)
        BY <3>4
      <3>6. << a, b, c, c, d, e >> = << a, b, c >> \o << c, d, e >>
        OBVIOUS
      <3>. QED  BY <3>3, <3>5, <3>6, Joined DEF S
    <2>. HIDE DEF P1, P2, R
    <2>3. << P1 \cap AacEnd, Call("open_output_file", open_output_file_aac(1), "cleanup"),
             P2 \cap AacEnd >> \in R
      BY <1>1, <1>1d, <2>1, <2>2 DEF Names, FoundOutLater
    <2>. QED  BY <1>1a, <2>3
  <1>4. << P2, Call("init_resampler", init_resampler, "cleanup"), P3 >> \in R
    <2>1. {Enc(1), Dec(1)} \in SUBSET H2 /\ {Data(1)} \in SUBSET H3 /\ H3 = H2 \cup {Data(1)}
      OBVIOUS
    <2>. HIDE DEF H2, H3
    <2>2. /\ << P2, Try({Enc(1), Dec(1)}, {Data(1)}, {}), P3 >> \in Safe(P3)
          /\ << P3, Try({Data(1)}, {}, {Data(1)}), P3 >> \in Safe(P3)
      BY <1>0, <2>1, Opens DEF Safe
    <2>3. Chain(Safe(P3), init_resampler, P2, P3)
      BY <1>1, <2>2, ChainOf2 DEF init_resampler
    <2>4. init_resampler \in Seq(AacStep)
      <3>1. Try({Enc(1), Dec(1)}, {Data(1)}, {}) \in AacStep /\ Try({Data(1)}, {}, {Data(1)}) \in AacStep
        BY <1>0, <1>1b, <1>1c
      <3>. QED  BY <3>1 DEF init_resampler
    <2>. HIDE DEF P2, P3, R
    <2>5. << P2 \cap AacEnd, Call("init_resampler", init_resampler, "cleanup"), P3 \cap AacEnd >> \in R
      BY <1>1, <1>1d, <2>3, <2>4 DEF Names, FoundOutLater
    <2>. QED  BY <1>1a, <2>5
  <1>5. << P3, Call("init_fifo", init_fifo, "cleanup"), P4 >> \in R
    <2>1. {Enc(1)} \in SUBSET H3 /\ H4 = H3 \cup {Data(2)}
      OBVIOUS
    <2>. HIDE DEF H3, H4
    <2>2. << P3, Try({Enc(1)}, {Data(2)}, {}), P4 >> \in Safe(P4)
      BY <1>0, <2>1, Opens DEF Safe
    <2>3. Chain(Safe(P4), init_fifo, P3, P4)
      BY <1>1, <2>2, ChainOfOne DEF init_fifo
    <2>4. init_fifo \in Seq(AacStep)
      <3>1. Try({Enc(1)}, {Data(2)}, {}) \in AacStep
        BY <1>0, <1>1c
      <3>. QED  BY <3>1 DEF init_fifo
    <2>. HIDE DEF P3, P4, R
    <2>5. << P3 \cap AacEnd, Call("init_fifo", init_fifo, "cleanup"), P4 \cap AacEnd >> \in R
      BY <1>1, <1>1d, <2>3, <2>4 DEF Names, FoundOutLater
    <2>. QED  BY <1>1a, <2>5
  <1>6. << P4, Call("write_output_file_header", write_output_file_header_aac(1), "cleanup"),
          P5 >> \in R
    <2>1. Chain(Safe(P5), write_output_file_header_aac(1), P4, P5)
      <3>1. Out(1) \in H4
        OBVIOUS
      <3>. HIDE DEF H4
      <3>. QED  BY <1>0, <3>1, OutputKnown DEF write_output_file_header_aac
    <2>2. write_output_file_header_aac(1) \in Seq(AacStep)
      <3>1. Try({Out(1)}, {Muxer(1)}, {}) \in AacStep
        BY <1>0, <1>1c
      <3>. QED  BY <3>1 DEF write_output_file_header_aac, write_output_file_header
    <2>. HIDE DEF P4, P5, R
    <2>3. << P4 \cap AacEnd, Call("write_output_file_header", write_output_file_header_aac(1),
             "cleanup"), P5 \cap AacEnd >> \in R
      BY <1>1, <1>1d, <2>1, <2>2 DEF Names, FoundOutLater
    <2>. QED  BY <1>1a, <2>3
  <1>7. << P5, Call("transcode", transcode, "cleanup"), P5 >> \in R
    <2>. DEFINE r == Require({Data(3)})
                G == Takes(AacEnd, P5)
    <2>1. used \in SUBSET H5
      OBVIOUS
    <2>2. Sure(used, {}).failure = "never" /\ Sure(used, {}).needs = {}
      BY DEF Sure
    <2>. HIDE DEF used, H5
    <2>3. << P5, Sure(used, {}), P5 >> \in Takes(Stores, P5)
      BY <1>0, <2>1, Opens
    <2>4. << P5, Sure(used, {}), P5 >> \in G
      <3>. HIDE DEF P5
      <3>. QED  BY <2>2, <2>3, TakesNever
    <2>5. {Data(3)} \in SUBSET Contexts /\ {Data(3)} # {}
      BY ContextTypes
    <2>6. P5 \subseteq AacEnd
      BY <1>1a
    <2>. HIDE DEF P5
    <2>7. << P5, r, P5 >> \in G
      BY <1>1, <2>5, <2>6, RequireKnown
    <2>8. Chain(G, transcode, P5, P5)
      <3>. HIDE DEF r, G
      <3>. QED  BY <1>1, <2>4, <2>7, ChainOf2 DEF transcode, r, used
    <2>9. transcode \in Seq(Steps)
      <3>1. Sure(used, {}) \in Steps /\ r \in Steps
        BY <2>4, <2>7 DEF Takes
      <3>. QED  BY <3>1 DEF transcode, used
    <2>. QED  BY <1>1, <2>8, <2>9, CallFits DEF Names, FoundOutLater
  <1>8. << P5, Call("write_output_file_trailer", write_output_file_trailer_aac(1), "cleanup"),
          AacEnd >> \in R
    <2>. DEFINE A0 == Having({}, 0)
    <2>1. Chain(Safe(A0), write_output_file_trailer_aac(1), P5, A0)
      <3>1. {Out(1), Muxer(1)} \subseteq H5
        OBVIOUS
      <3>. HIDE DEF H5
      <3>. QED  BY <1>0, <3>1, OutputKnown DEF write_output_file_trailer_aac
    <2>2. write_output_file_trailer_aac(1) \in Seq(AacStep)
      <3>1. Try({Out(1), Muxer(1)}, {}, {}) \in AacStep /\ Release({Muxer(1)}) \in AacStep
        BY <1>0, <1>1c
      <3>. QED  BY <3>1 DEF write_output_file_trailer_aac, WriteTrailer
    <2>3. A0 \in SUBSET Stores
      BY HavingType
    <2>. HIDE DEF P5, R
    <2>4. << P5 \cap AacEnd, Call("write_output_file_trailer", write_output_file_trailer_aac(1),
             "cleanup"), A0 \cap AacEnd >> \in R
      BY <1>1, <1>1d, <2>1, <2>2, <2>3 DEF Names, FoundOutLater
    <2>. QED  BY <1>1a, <2>4
  <1>9. << AacEnd, Call("end", cleanup_aac, "exit"), Stores >> \in R
    <2>. DEFINE N == HolesIn("transcode_aac", "end")
                G == TakesBut(N, Stores, Stores)
                D == {<< Dec(1), Dec(1) >>}
                encoder == If(Enc(1), Sure({Enc(1)}, {}))
                output == If(Out(1), Release({Io(1), Out(1)}))
                decoder == If(Dec(1), Sure({Dec(1)}, {}))
    <2>1. AacEnd = Certain({}, D)
      <3>1. \A x \in Stores : x[2] \in Nat
        BY StoreTypes
      <3>2. D # {} /\ \A e \in D : e[1] = Dec(1) /\ e[2] = Dec(1)
        OBVIOUS
      <3>. HIDE DEF D
      <3>. QED  BY <3>1, <3>2 DEF AacEnd, Certain, Known
    <2>2. /\ Leads({}, {}, {Data(2)}, {}, FALSE, {}, D, {}, D)
          /\ Leads({}, {}, {Data(1)}, {}, FALSE, {}, D, {}, D)
          /\ Leads({}, {}, {Io(1), Out(1)}, {Out(1)}, FALSE, {}, D, {}, D)
          /\ Leads({Dec(1)}, {}, {}, {Dec(1)}, FALSE, {}, D, {}, D)
          /\ Leads({}, {}, {In(1)}, {}, FALSE, {}, D, {}, {})
      BY OneTrack DEF Leads, Owned
    <2>3. /\ Shape(Release({Data(2)}), {}, {}, {Data(2)}, {}, FALSE, "never", {})
          /\ Shape(Release({Data(1)}), {}, {}, {Data(1)}, {}, FALSE, "never", {})
          /\ Shape(Release({In(1)}), {}, {}, {In(1)}, {}, FALSE, "never", {})
          /\ Shape(output, {}, {}, {Io(1), Out(1)}, {Out(1)}, FALSE, "never", {})
          /\ Shape(decoder, {Dec(1)}, {}, {}, {Dec(1)}, FALSE, "never", {})
          /\ Shape(encoder, {Enc(1)}, {}, {}, {Enc(1)}, FALSE, "never", {})
      <3>1. /\ Shape(Release({Io(1), Out(1)}), {}, {}, {Io(1), Out(1)}, {}, FALSE, "never", {})
            /\ Shape(Sure({Dec(1)}, {}), {Dec(1)}, {}, {}, {}, FALSE, "never", {})
            /\ Shape(Sure({Enc(1)}, {}), {Enc(1)}, {}, {}, {}, FALSE, "never", {})
        BY Shapes, OneTrack
      <3>2. /\ Shape(Release({Data(2)}), {}, {}, {Data(2)}, {}, FALSE, "never", {})
            /\ Shape(Release({Data(1)}), {}, {}, {Data(1)}, {}, FALSE, "never", {})
            /\ Shape(Release({In(1)}), {}, {}, {In(1)}, {}, FALSE, "never", {})
        BY Shapes, OneTrack
      <3>. QED  BY <1>0, <3>1, <3>2, Shapes
    <2>. HIDE DEF encoder, output, decoder, D
    <2>4. /\ << AacEnd, Release({Data(2)}), AacEnd >> \in Takes(Stores, Stores)
          /\ << AacEnd, Release({Data(1)}), AacEnd >> \in Takes(Stores, Stores)
          /\ << AacEnd, output, AacEnd >> \in Takes(Stores, Stores)
          /\ << AacEnd, decoder, AacEnd >> \in Takes(Stores, Stores)
          /\ << AacEnd, Release({In(1)}), Stores >> \in Takes(Stores, Stores)
      <3>1. Errs("never", {}, Certain({}, D), Stores, Stores)
        BY DEF Errs
      <3>. QED  BY <2>1, <2>2, <2>3, <3>1, StepLeads, EmptyCertain
    <2>5. Takes(Stores, Stores) \subseteq G
      BY DEF Takes, TakesBut
    <2>6. << AacEnd, encoder, AacEnd >> \in G
      <3>1. {Enc(1)} \in N
        BY OneTrack DEF HolesIn, Holes
      <3>2. /\ encoder \in Steps /\ encoder.push = 0 /\ encoder.needs = {} /\ encoder.frees = {}
            /\ encoder.gives = {} /\ encoder.uses = {Enc(1)} /\ encoder.failure = "never"
        BY <2>3 DEF Shape, Quiet
      <3>. HIDE DEF N
      <3>. QED  BY <1>1, <3>1, <3>2, HoleKept
    <2>7. cleanup_aac = << Release({Data(2)}), Release({Data(1)}), encoder, output, decoder,
                           Release({In(1)}) >>
      BY DEF cleanup_aac, encoder, output, decoder
    <2>8. Chain(G, cleanup_aac, AacEnd, Stores)
      <3>. HIDE DEF G
      <3>. QED  BY <1>1, <2>4, <2>5, <2>6, <2>7, ChainOf6
    <2>9. /\ cleanup_aac \in Seq(Steps)
      <3>1. {Release({Data(2)}), Release({Data(1)}), encoder, output, decoder, Release({In(1)})}
              \subseteq Steps
        BY <2>3 DEF Shape, Quiet
      <3>. QED  BY <2>7, <3>1
    <2>. QED  BY <1>1, <2>8, <2>9, CallHoles DEF Names, FoundOutLater, N, G
  <1>. HIDE DEF P0, P1, P2, P3, P4, P5, R
  <1>10. Chain(R, main_aac, P0, Stores)
    <2>1. Stores \in SUBSET Stores
      OBVIOUS
    <2>. QED  BY <1>1, <1>2, <1>3, <1>4, <1>5, <1>6, <1>7, <1>8, <1>9, <2>1, ChainOf8 DEF main_aac
  <1>11. "transcode_aac" \in Program /\ Code["transcode_aac"] = main_aac
         /\ Len(main_aac) = 8 /\ main_aac[8].name = "end"
    BY DEF Program, Code, main_aac, Call
  <1>12. Chain(CallRel("transcode_aac", AacEnd), Code["transcode_aac"], P0, Stores)
    BY <1>10, <1>11 DEF R
  <1>13. /\ "transcode_aac" \in Program /\ Len(Code["transcode_aac"]) > 0
         /\ Code["transcode_aac"][Len(Code["transcode_aac"])].name = "end"
    BY <1>11
  <1>14. << NothingOpen, 0 >> \in P0
    <2>1. << NothingOpen, 0 >> \in Having({}, 0)
      BY NothingAtFirst
    <2>2. << NothingOpen, 0 >>[1] = NothingOpen /\ NothingOpen[Dec(1)] = "null"
      BY <1>0 DEF NothingOpen
    <2>. QED  BY <2>1, <2>2 DEF P0, Having, Known
  <1>. QED  BY <1>1, <1>12, <1>13, <1>14, PlannedFrom

\* The steps that, under if (c), are in R.
Under(c, R) == {t \in (SUBSET Stores) \X Steps \X (SUBSET Stores) : << t[1], If(c, t[2]),
    t[3] >> \in R}

\* if (c) before every step of a text.
LEMMA ChainUnder ==
    ASSUME NEW S, NEW R, NEW c, NEW s \in Seq(S), NEW P, NEW Q, Chain(Under(c, R), s, P, Q)
    PROVE  Chain(R, [n \in DOMAIN s |-> If(c, s[n])], P, Q)
  <1>. DEFINE u == [n \in DOMAIN s |-> If(c, s[n])]
  <1>1. Len(s) \in Nat /\ DOMAIN s = 1..Len(s)
    OBVIOUS
  <1>2. Len(u) = Len(s) /\ \A n \in 1..Len(s) : u[n] = If(c, s[n])
    BY <1>1
  <1>. HIDE DEF u
  <1>3. PICK h : Along(Under(c, R), s, h) /\ h[1] = P /\ h[Len(s) + 1] = Q
    BY DEF Chain
  <1>4. \A n \in 1..Len(s) : << h[n], u[n], h[n + 1] >> \in R
    BY <1>2, <1>3 DEF Along, Under
  <1>5. Along(R, u, h)
    BY <1>2, <1>3, <1>4 DEF Along
  <1>. QED  BY <1>2, <1>3, <1>5 DEF Chain, u

\* The functions of trans_backup that are called with if (graph) before each step.
LEMMA BackupTexts ==
    LET z == << If(Graph(1), Maybe(Try({In(1), Out(1), Enc(1)}, {}, {}))),
                If(Graph(1), Maybe(Try({Out(1), Muxer(1)}, {}, {}))) >>
    IN /\ flush_encoder = z
       /\ filter_encode_write_frame =
             << If(Graph(1), Maybe(Try({Data(2), Src(1, 1)}, {}, {}))),
                If(Graph(1), Maybe(Try({Data(2), Sink(1)}, {}, {}))) >> \o z
  <1>1. flush_encoder = << If(Graph(1), encode_write_frame[1]), If(Graph(1),
          encode_write_frame[2]) >>
    <2>. DEFINE e(n) == If(Graph(1), encode_write_frame[n])
    <2>. HIDE DEF e
    <2>1. [n \in 1..2 |-> e(n)] = << e(1), e(2) >>
      OBVIOUS
    <2>. QED  BY <2>1 DEF e, flush_encoder
  <1>2. /\ encode_write_frame[1] = Maybe(Try({In(1), Out(1), Enc(1)}, {}, {}))
        /\ encode_write_frame[2] = Maybe(Try({Out(1), Muxer(1)}, {}, {}))
    BY DEF encode_write_frame
  <1>3. filter_encode_write_frame =
          << If(Graph(1), Maybe(Try({Data(2), Src(1, 1)}, {}, {}))),
             If(Graph(1), Maybe(Try({Data(2), Sink(1)}, {}, {}))) >> \o flush_encoder
    BY DEF filter_encode_write_frame, flush_encoder
  <1>. QED  BY <1>1, <1>2, <1>3

\* trans_backup: a decoder that was found is open, and so is what a graph is made of;
\* its label end, where the input may be missing, is one of the holes.
LEMMA BackupPlanned == \E t, h : Planned("trans_backup", t, h)
  <1>. DEFINE H0 == {}
              C0 == {<< Dec(1), Dec(1) >>, << Graph(1), Graph(1) >>, << Graph(1), Src(1, 1) >>,
                  << Graph(1), Sink(1) >>, << Graph(1), Dec(1) >>}
              H1 == {In(1)}
              C1 == {<< Dec(1), Dec(1) >>, << Graph(1), Graph(1) >>, << Graph(1), Src(1, 1) >>,
                  << Graph(1), Sink(1) >>, << Graph(1), Dec(1) >>}
              H2 == {In(1), Out(1)}
              C2 == {<< Dec(1), Dec(1) >>, << Graph(1), Graph(1) >>, << Graph(1), Src(1, 1) >>,
                  << Graph(1), Sink(1) >>, << Graph(1), Dec(1) >>}
              H3 == {In(1), Out(1), Enc(1)}
              C3 == {<< Dec(1), Dec(1) >>, << Graph(1), Graph(1) >>, << Graph(1), Src(1, 1) >>,
                  << Graph(1), Sink(1) >>, << Graph(1), Dec(1) >>}
              H4 == {In(1), Out(1), Enc(1), Muxer(1)}
              C4 == {<< Dec(1), Dec(1) >>, << Graph(1), Graph(1) >>, << Graph(1), Src(1, 1) >>,
                  << Graph(1), Sink(1) >>, << Graph(1), Dec(1) >>}
              H5 == {In(1), Out(1), Enc(1), Muxer(1), Data(2)}
              C5 == {<< Dec(1), Dec(1) >>, << Graph(1), Graph(1) >>, << Graph(1), Src(1, 1) >>,
                  << Graph(1), Sink(1) >>, << Graph(1), Dec(1) >>}
              H6 == {In(1), Out(1), Enc(1), Muxer(1), Data(2)}
              C6 == {<< Dec(1), Dec(1) >>, << Graph(1), Graph(1) >>, << Graph(1), Src(1, 1) >>,
                  << Graph(1), Sink(1) >>, << Graph(1), Dec(1) >>, << Dec(1), Data(1) >>}
              H7 == {In(1), Out(1), Enc(1), Muxer(1), Data(2)}
              C7 == {<< Dec(1), Dec(1) >>, << Graph(1), Graph(1) >>, << Graph(1), Src(1, 1) >>,
                  << Graph(1), Sink(1) >>, << Graph(1), Dec(1) >>, << Graph(1), Frame >>}
              HZ == {}
              CZ == {}
              P0 == Certain(H0, C0)
              P1 == Certain(H1, C1)
              P2 == Certain(H2, C2)
              P3 == Certain(H3, C3)
              P4 == Certain(H4, C4)
              P5 == Certain(H5, C5)
              P6 == Certain(H6, C6)
              P7 == Certain(H7, C7)
              PZ == Certain(HZ, CZ)
              R == CallRel("trans_backup", Stores)
  <1>1. /\ Leads({}, {In(1)}, {}, {}, FALSE, H0, C0, H1, C1)
        /\ Leads({In(1)}, {}, {}, {}, FALSE, H1, C1, H1, C1)
        /\ Leads({In(1)}, {Dec(1)}, {}, {}, TRUE, H1, C1, H1, C1)
        /\ Leads({}, {Out(1)}, {}, {}, FALSE, H1, C1, H2, C2)
        /\ Leads({Out(1)}, {Enc(1)}, {}, {}, FALSE, H2, C2, H3, C3)
        /\ Leads({In(1)}, {}, {}, {}, FALSE, H3, C3, H3, C3)
        /\ Leads({In(1), Enc(1)}, {}, {}, {}, FALSE, H3, C3, H3, C3)
        /\ Leads({Out(1)}, {Io(1)}, {}, {}, TRUE, H3, C3, H3, C3)
        /\ Leads({Out(1)}, {Muxer(1)}, {}, {}, FALSE, H3, C3, H4, C4)
        /\ Leads({In(1)}, {Data(2)}, {}, {}, FALSE, H4, C4, H5, C5)
        /\ Leads({}, {Data(1)}, {}, {Dec(1)}, FALSE, H5, C5, H6, C6)
        /\ Leads({}, {}, {}, {Dec(1)}, FALSE, H6, C6, H6, C6)
        /\ Leads({Dec(1), Data(1)}, {}, {}, {Dec(1)}, FALSE, H6, C6, H6, C6)
        /\ Leads({Data(1)}, {}, {}, {Dec(1)}, FALSE, H6, C6, H6, C6)
        /\ Leads({Enc(1), Data(1)}, {}, {}, {Dec(1)}, FALSE, H6, C6, H6, C6)
        /\ Leads({Data(1)}, {Graph(1), Src(1, 1), Sink(1)}, {Data(1)}, {Dec(1)}, FALSE, H6, C6, H5,
            C5)
        /\ Leads({In(1)}, {}, {}, {}, FALSE, H5, C5, H5, C5)
        /\ Leads({}, {Frame}, {}, {Graph(1)}, FALSE, H5, C5, H7, C7)
        /\ Leads({In(1), Dec(1), Frame}, {}, {}, {Graph(1)}, FALSE, H7, C7, H7, C7)
        /\ Leads({Data(2), Src(1, 1)}, {}, {}, {Graph(1)}, TRUE, H7, C7, H7, C7)
        /\ Leads({Data(2), Sink(1)}, {}, {}, {Graph(1)}, TRUE, H7, C7, H7, C7)
        /\ Leads({In(1), Out(1), Enc(1)}, {}, {}, {Graph(1)}, TRUE, H7, C7, H7, C7)
        /\ Leads({Out(1), Muxer(1)}, {}, {}, {Graph(1)}, TRUE, H7, C7, H7, C7)
        /\ Leads({}, {}, {Frame}, {}, FALSE, H7, C7, H5, C5)
        /\ Leads({Out(1), Muxer(1)}, {}, {}, {}, TRUE, H5, C5, H5, C5)
        /\ Leads({Data(2), Src(1, 1)}, {}, {}, {Graph(1)}, TRUE, H5, C5, H5, C5)
        /\ Leads({Data(2), Sink(1)}, {}, {}, {Graph(1)}, TRUE, H5, C5, H5, C5)
        /\ Leads({In(1), Out(1), Enc(1)}, {}, {}, {Graph(1)}, TRUE, H5, C5, H5, C5)
        /\ Leads({Out(1), Muxer(1)}, {}, {}, {Graph(1)}, TRUE, H5, C5, H5, C5)
        /\ Leads({Out(1), Muxer(1)}, {}, {}, {}, FALSE, H5, C5, H5, C5)
        /\ Leads({}, {}, {Muxer(1)}, {}, FALSE, H5, C5, HZ, CZ)
    <2>1. /\ Leads({}, {In(1)}, {}, {}, FALSE, H0, C0, H1, C1)
          /\ Leads({In(1)}, {}, {}, {}, FALSE, H1, C1, H1, C1)
          /\ Leads({In(1)}, {Dec(1)}, {}, {}, TRUE, H1, C1, H1, C1)
          /\ Leads({}, {Out(1)}, {}, {}, FALSE, H1, C1, H2, C2)
          /\ Leads({Out(1)}, {Enc(1)}, {}, {}, FALSE, H2, C2, H3, C3)
          /\ Leads({In(1)}, {}, {}, {}, FALSE, H3, C3, H3, C3)
      BY OneTrack DEF Leads, Owned
    <2>2. /\ Leads({In(1), Enc(1)}, {}, {}, {}, FALSE, H3, C3, H3, C3)
          /\ Leads({Out(1)}, {Io(1)}, {}, {}, TRUE, H3, C3, H3, C3)
          /\ Leads({Out(1)}, {Muxer(1)}, {}, {}, FALSE, H3, C3, H4, C4)
          /\ Leads({In(1)}, {Data(2)}, {}, {}, FALSE, H4, C4, H5, C5)
          /\ Leads({}, {Data(1)}, {}, {Dec(1)}, FALSE, H5, C5, H6, C6)
          /\ Leads({}, {}, {}, {Dec(1)}, FALSE, H6, C6, H6, C6)
      BY OneTrack DEF Leads, Owned
    <2>3. /\ Leads({Dec(1), Data(1)}, {}, {}, {Dec(1)}, FALSE, H6, C6, H6, C6)
          /\ Leads({Data(1)}, {}, {}, {Dec(1)}, FALSE, H6, C6, H6, C6)
          /\ Leads({Enc(1), Data(1)}, {}, {}, {Dec(1)}, FALSE, H6, C6, H6, C6)
          /\ Leads({Data(1)}, {Graph(1), Src(1, 1), Sink(1)}, {Data(1)}, {Dec(1)}, FALSE, H6, C6,
              H5, C5)
          /\ Leads({In(1)}, {}, {}, {}, FALSE, H5, C5, H5, C5)
          /\ Leads({}, {Frame}, {}, {Graph(1)}, FALSE, H5, C5, H7, C7)
      BY OneTrack DEF Leads, Owned
    <2>4. /\ Leads({In(1), Dec(1), Frame}, {}, {}, {Graph(1)}, FALSE, H7, C7, H7, C7)
          /\ Leads({Data(2), Src(1, 1)}, {}, {}, {Graph(1)}, TRUE, H7, C7, H7, C7)
          /\ Leads({Data(2), Sink(1)}, {}, {}, {Graph(1)}, TRUE, H7, C7, H7, C7)
          /\ Leads({In(1), Out(1), Enc(1)}, {}, {}, {Graph(1)}, TRUE, H7, C7, H7, C7)
          /\ Leads({Out(1), Muxer(1)}, {}, {}, {Graph(1)}, TRUE, H7, C7, H7, C7)
          /\ Leads({}, {}, {Frame}, {}, FALSE, H7, C7, H5, C5)
      BY OneTrack, SMTT(30) DEF Leads, Owned
    <2>5. /\ Leads({Out(1), Muxer(1)}, {}, {}, {}, TRUE, H5, C5, H5, C5)
          /\ Leads({Data(2), Src(1, 1)}, {}, {}, {Graph(1)}, TRUE, H5, C5, H5, C5)
          /\ Leads({Data(2), Sink(1)}, {}, {}, {Graph(1)}, TRUE, H5, C5, H5, C5)
          /\ Leads({In(1), Out(1), Enc(1)}, {}, {}, {Graph(1)}, TRUE, H5, C5, H5, C5)
          /\ Leads({Out(1), Muxer(1)}, {}, {}, {Graph(1)}, TRUE, H5, C5, H5, C5)
          /\ Leads({Out(1), Muxer(1)}, {}, {}, {}, FALSE, H5, C5, H5, C5)
      BY OneTrack DEF Leads, Owned
    <2>6. Leads({}, {}, {Muxer(1)}, {}, FALSE, H5, C5, HZ, CZ)
      BY OneTrack DEF Leads, Owned
    <2>. QED  BY <2>1, <2>2, <2>3, <2>4, <2>5, <2>6
  <1>2. /\ P0 \in SUBSET Stores
        /\ P1 \in SUBSET Stores
        /\ P2 \in SUBSET Stores
        /\ P3 \in SUBSET Stores
        /\ P4 \in SUBSET Stores
        /\ P5 \in SUBSET Stores
        /\ P6 \in SUBSET Stores
        /\ P7 \in SUBSET Stores
        /\ PZ \in SUBSET Stores
        /\ P6 \subseteq P5
        /\ P7 \subseteq P5
    BY CertainTypes
  <1>3. << NothingOpen, 0 >> \in P0
    BY CertainAtFirst, OneTrack
  <1>4. PZ = Stores
    BY EmptyCertain
  <1>. HIDE DEF H0, C0, H1, C1, H2, C2, H3, C3, H4, C4, H5, C5, H6, C6, H7, C7, HZ, CZ
  <1>5. << P0, Call("open_input_file", open_input_file_backup, "cleanup"), P1 >> \in R
    <2>1. /\ Shape(Try({}, {In(1)}, {In(1)}), {}, {In(1)}, {}, {}, FALSE, "returned", {In(1)})
          /\ Shape(Try({In(1)}, {}, {}), {In(1)}, {}, {}, {}, FALSE, "returned", {})
          /\ Shape(Maybe(Try({In(1)}, {Dec(1)}, {})), {In(1)}, {Dec(1)}, {}, {}, TRUE, "returned",
              {})
      BY Shapes, OneTrack
    <2>2. /\ Errs("returned", {In(1)}, P0, Stores, P1)
          /\ Errs("returned", {}, P1, Stores, P1)
      BY <1>2 DEF Errs
    <2>3. /\ << P0, Try({}, {In(1)}, {In(1)}), P1 >> \in Takes(Stores, P1)
          /\ << P1, Try({In(1)}, {}, {}), P1 >> \in Takes(Stores, P1)
          /\ << P1, Maybe(Try({In(1)}, {Dec(1)}, {})), P1 >> \in Takes(Stores, P1)
      BY <1>1, <2>1, <2>2, StepLeads
    <2>4. Chain(Takes(Stores, P1), open_input_file_backup, P0, P1)
      BY <1>2, <2>3, ChainOf3 DEF open_input_file_backup
    <2>5. open_input_file_backup \in Seq(Steps)
      <3>1. {Try({}, {In(1)}, {In(1)}), Try({In(1)}, {}, {}), Maybe(Try({In(1)}, {Dec(1)},
              {}))} \subseteq Steps
        BY <2>1 DEF Shape, Quiet
      <3>. QED  BY <3>1 DEF open_input_file_backup
    <2>. QED  BY <1>2, <2>4, <2>5, CallFits DEF Names, FoundOutLater
  <1>6. << P1, Call("open_output_file", open_output_file_backup, "cleanup"), P4 >> \in R
    <2>1. /\ Shape(Try({}, {Out(1)}, {}), {}, {Out(1)}, {}, {}, FALSE, "returned", {})
          /\ Shape(Try({Out(1)}, {Enc(1)}, {}), {Out(1)}, {Enc(1)}, {}, {}, FALSE, "returned", {})
          /\ Shape(Try({In(1)}, {}, {}), {In(1)}, {}, {}, {}, FALSE, "returned", {})
          /\ Shape(Try({In(1), Enc(1)}, {}, {}), {In(1), Enc(1)}, {}, {}, {}, FALSE, "returned", {})
          /\ Shape(Maybe(Try({Out(1)}, {Io(1)}, {})), {Out(1)}, {Io(1)}, {}, {}, TRUE, "returned",
              {})
          /\ Shape(Try({Out(1)}, {Muxer(1)}, {}), {Out(1)}, {Muxer(1)}, {}, {}, FALSE, "returned",
              {})
      BY Shapes, OneTrack
    <2>2. /\ Errs("returned", {}, P1, Stores, P4)
          /\ Errs("returned", {}, P2, Stores, P4)
          /\ Errs("returned", {}, P3, Stores, P4)
      BY <1>2 DEF Errs
    <2>3. /\ << P1, Try({}, {Out(1)}, {}), P2 >> \in Takes(Stores, P4)
          /\ << P2, Try({Out(1)}, {Enc(1)}, {}), P3 >> \in Takes(Stores, P4)
          /\ << P3, Try({In(1)}, {}, {}), P3 >> \in Takes(Stores, P4)
          /\ << P3, Try({In(1), Enc(1)}, {}, {}), P3 >> \in Takes(Stores, P4)
          /\ << P3, Maybe(Try({Out(1)}, {Io(1)}, {})), P3 >> \in Takes(Stores, P4)
          /\ << P3, Try({Out(1)}, {Muxer(1)}, {}), P4 >> \in Takes(Stores, P4)
      BY <1>1, <2>1, <2>2, StepLeads
    <2>4. Chain(Takes(Stores, P4), open_output_file_backup, P1, P4)
      BY <1>2, <2>3, ChainOf6 DEF open_output_file_backup
    <2>5. open_output_file_backup \in Seq(Steps)
      <3>1. {Try({}, {Out(1)}, {}), Try({Out(1)}, {Enc(1)}, {}), Try({In(1)}, {}, {}), Try({In(1),
              Enc(1)}, {}, {}), Maybe(Try({Out(1)}, {Io(1)}, {})), Try({Out(1)}, {Muxer(1)},
              {})} \subseteq Steps
        BY <2>1 DEF Shape, Quiet
      <3>. QED  BY <3>1 DEF open_output_file_backup
    <2>. QED  BY <1>2, <2>4, <2>5, CallFits DEF Names, FoundOutLater
  <1>7. << P4, Call("filter_ctx", << Try({In(1)}, {Data(2)}, {}) >>, "cleanup"), P5 >> \in R
    <2>1. Shape(Try({In(1)}, {Data(2)}, {}), {In(1)}, {Data(2)}, {}, {}, FALSE, "returned", {})
      BY Shapes, OneTrack
    <2>2. Errs("returned", {}, P4, Stores, P5)
      BY <1>2 DEF Errs
    <2>3. << P4, Try({In(1)}, {Data(2)}, {}), P5 >> \in Takes(Stores, P5)
      BY <1>1, <2>1, <2>2, StepLeads
    <2>4. Chain(Takes(Stores, P5), << Try({In(1)}, {Data(2)}, {}) >>, P4, P5)
      BY <1>2, <2>3, ChainOfOne
    <2>5. << Try({In(1)}, {Data(2)}, {}) >> \in Seq(Steps)
      <3>1. {Try({In(1)}, {Data(2)}, {})} \subseteq Steps
        BY <2>1 DEF Shape, Quiet
      <3>. QED  BY <3>1
    <2>. QED  BY <1>2, <2>4, <2>5, CallFits DEF Names, FoundOutLater
  <1>8. << P5, Call("init_filter", [n \in DOMAIN init_filter |-> If(Dec(1), init_filter[n])],
          "ignore"), P5 >> \in R
    <2>1. /\ Shape(If(Dec(1), Try({}, {Data(1)}, {})), {}, {Data(1)}, {}, {Dec(1)}, FALSE,
               "returned", {})
          /\ Shape(If(Dec(1), Try({}, {}, {})), {}, {}, {}, {Dec(1)}, FALSE, "returned", {})
          /\ Shape(If(Dec(1), Try({Dec(1), Data(1)}, {}, {})), {Dec(1), Data(1)}, {}, {}, {Dec(1)},
              FALSE, "returned", {})
          /\ Shape(If(Dec(1), Try({Data(1)}, {}, {})), {Data(1)}, {}, {}, {Dec(1)}, FALSE,
              "returned", {})
          /\ Shape(If(Dec(1), Try({Enc(1), Data(1)}, {}, {})), {Enc(1), Data(1)}, {}, {}, {Dec(1)},
              FALSE, "returned", {})
          /\ Shape(If(Dec(1), Move({Data(1)}, {Graph(1), Src(1, 1), Sink(1)})), {Data(1)},
              {Graph(1), Src(1, 1), Sink(1)}, {Data(1)}, {Dec(1)}, FALSE, "never", {})
      BY Shapes, OneTrack
    <2>2. /\ Errs("returned", {}, P5, P5, P5)
          /\ Errs("returned", {}, P6, P5, P5)
          /\ Errs("never", {}, P6, P5, P5)
      BY <1>2 DEF Errs
    <2>3. /\ << P5, If(Dec(1), Try({}, {Data(1)}, {})), P6 >> \in Takes(P5, P5)
          /\ << P6, If(Dec(1), Try({}, {}, {})), P6 >> \in Takes(P5, P5)
          /\ << P6, If(Dec(1), Try({Dec(1), Data(1)}, {}, {})), P6 >> \in Takes(P5, P5)
          /\ << P6, If(Dec(1), Try({Data(1)}, {}, {})), P6 >> \in Takes(P5, P5)
          /\ << P6, If(Dec(1), Try({Enc(1), Data(1)}, {}, {})), P6 >> \in Takes(P5, P5)
          /\ << P6, If(Dec(1), Move({Data(1)}, {Graph(1), Src(1, 1), Sink(1)})),
              P5 >> \in Takes(P5, P5)
      BY <1>1, <2>1, <2>2, StepLeads, ZenonT(40)
    <2>. DEFINE U == Under(Dec(1), Takes(P5, P5))
                x == << Try({}, {Data(1)}, {}), Try({}, {}, {}), Try({Dec(1), Data(1)}, {}, {}),
                        Try({Data(1)}, {}, {}) >>
                y == [n \in 1..3 |-> Try({Enc(1), Data(1)}, {}, {})]
                z == << Try({Data(1)}, {}, {}), Try({Data(1)}, {}, {}),
                        Move({Data(1)}, {Graph(1), Src(1, 1), Sink(1)}) >>
                M == {s \in Loud : If(Dec(1), s) \in Loud}
    <2>4. {Try({}, {Data(1)}, {}), Try({}, {}, {}), Try({Dec(1), Data(1)}, {}, {}), Try({Data(1)},
            {}, {}),
           Try({Enc(1), Data(1)}, {}, {}), Move({Data(1)}, {Graph(1), Src(1, 1),
               Sink(1)})} \subseteq M
      <3>1. /\ Shape(Try({}, {Data(1)}, {}), {}, {Data(1)}, {}, {}, FALSE, "returned", {})
            /\ Shape(Try({}, {}, {}), {}, {}, {}, {}, FALSE, "returned", {})
            /\ Shape(Try({Dec(1), Data(1)}, {}, {}), {Dec(1), Data(1)}, {}, {}, {}, FALSE,
                "returned", {})
            /\ Shape(Try({Data(1)}, {}, {}), {Data(1)}, {}, {}, {}, FALSE, "returned", {})
            /\ Shape(Try({Enc(1), Data(1)}, {}, {}), {Enc(1), Data(1)}, {}, {}, {}, FALSE,
                "returned", {})
            /\ Shape(Move({Data(1)}, {Graph(1), Src(1, 1), Sink(1)}), {Data(1)}, {Graph(1), Src(1,
                1), Sink(1)}, {Data(1)}, {}, FALSE, "never", {})
        BY Shapes, OneTrack
      <3>2. {Try({}, {Data(1)}, {}), Try({}, {}, {}), Try({Dec(1), Data(1)}, {}, {}),
              Try({Data(1)}, {}, {}),
             Try({Enc(1), Data(1)}, {}, {}), Move({Data(1)}, {Graph(1), Src(1, 1),
                 Sink(1)})} \subseteq Loud
        BY <3>1 DEF Shape, Quiet, Loud
      <3>3. /\ If(Dec(1), Try({}, {Data(1)}, {})) \in Loud /\ If(Dec(1), Try({}, {}, {})) \in Loud
            /\ If(Dec(1), Try({Dec(1), Data(1)}, {}, {})) \in Loud /\ If(Dec(1), Try({Data(1)}, {},
                {})) \in Loud
            /\ If(Dec(1), Try({Enc(1), Data(1)}, {}, {})) \in Loud
            /\ If(Dec(1), Move({Data(1)}, {Graph(1), Src(1, 1), Sink(1)})) \in Loud
        BY <2>1 DEF Shape, Quiet, Loud
      <3>. QED  BY <3>2, <3>3
    <2>5. x \in Seq(M) /\ y \in Seq(M) /\ z \in Seq(M) /\ Len(y) = 3
          /\ \A n \in 1..3 : y[n] = Try({Enc(1), Data(1)}, {}, {})
      BY <2>4
    <2>. HIDE DEF M
    <2>6. Chain(U, x, P5, P6)
      <3>1. /\ << P5, Try({}, {Data(1)}, {}), P6 >> \in U /\ << P6, Try({}, {}, {}), P6 >> \in U
            /\ << P6, Try({Dec(1), Data(1)}, {}, {}), P6 >> \in U /\ << P6, Try({Data(1)}, {}, {}),
                P6 >> \in U
        BY <1>2, <2>3, <2>4 DEF Under, M, Loud
      <3>. QED  BY <1>2, <3>1, ChainOf4
    <2>7. Chain(U, y, P6, P6)
      <3>1. << P6, Try({Enc(1), Data(1)}, {}, {}), P6 >> \in U
        BY <1>2, <2>3, <2>4 DEF Under, M, Loud
      <3>. HIDE DEF y, U
      <3>. QED  BY <1>2, <2>5, <3>1, ChainSame
    <2>8. Chain(U, z, P6, P5)
      <3>1. /\ << P6, Try({Data(1)}, {}, {}), P6 >> \in U
            /\ << P6, Move({Data(1)}, {Graph(1), Src(1, 1), Sink(1)}), P5 >> \in U
        BY <1>2, <2>3, <2>4 DEF Under, M, Loud
      <3>. QED  BY <1>2, <3>1, ChainOf3
    <2>9. Chain(U, init_filter, P5, P5) /\ init_filter \in Seq(M)
      <3>1. init_filter = (x \o y) \o z
        BY DEF init_filter
      <3>. HIDE DEF x, y, z, U
      <3>2. x \o y \in Seq(M) /\ Chain(U, x \o y, P5, P6)
        BY <2>5, <2>6, <2>7, ChainJoin, Joined
      <3>3. (x \o y) \o z \in Seq(M) /\ Chain(U, (x \o y) \o z, P5, P5)
        BY <2>5, <2>8, <3>2, ChainJoin, Joined
      <3>. QED  BY <3>1, <3>3
    <2>. HIDE DEF x, y, z
    <2>. DEFINE b == [n \in DOMAIN init_filter |-> If(Dec(1), init_filter[n])]
    <2>10. b \in Seq(Loud)
      <3>1. Len(init_filter) \in Nat /\ DOMAIN init_filter = 1..Len(init_filter)
            /\ \A n \in 1..Len(init_filter) : init_filter[n] \in M
        BY <2>9
      <3>2. \A n \in 1..Len(init_filter) : If(Dec(1), init_filter[n]) \in Loud
        BY <3>1 DEF M
      <3>. QED  BY <3>1, <3>2, FunctionIsSeq
    <2>11. Chain(Takes(P5, P5), b, P5, P5)
      <3>. HIDE DEF P5, b
      <3>1. init_filter \in Seq(M)
        BY <2>9
      <3>. QED  BY <2>9, <3>1, ChainUnder DEF b, U
    <2>12. b \in Seq(Steps) /\ \A m \in 1..Len(b) : b[m].failure # "unnoticed"
      BY <2>10, LoudText
    <2>. HIDE DEF b, P5, P6
    <2>13. << P5, Call("init_filter", b, "ignore"), P5 >> \in R
      BY <1>2, <2>11, <2>12, CallFits DEF Names, FoundOutLater
    <2>. QED  BY <2>13 DEF b
  <1>9. << P5, Loop("read", ReadPackets, "cleanup"), P5 >> \in R
    <2>1. /\ Shape(TryOrBreak({In(1)}, {}), {In(1)}, {}, {}, {}, FALSE, "break", {})
          /\ Shape(If(Graph(1), TryOrBreak({}, {Frame})), {}, {Frame}, {}, {Graph(1)}, FALSE,
              "break", {})
          /\ Shape(If(Graph(1), TryOrBreak({In(1), Dec(1), Frame}, {})), {In(1), Dec(1), Frame},
              {}, {}, {Graph(1)}, FALSE, "break", {})
          /\ Shape(If(Graph(1), Maybe(Try({Data(2), Src(1, 1)}, {}, {}))), {Data(2), Src(1, 1)},
              {}, {}, {Graph(1)}, TRUE, "returned", {})
          /\ Shape(If(Graph(1), Maybe(Try({Data(2), Sink(1)}, {}, {}))), {Data(2), Sink(1)}, {},
              {}, {Graph(1)}, TRUE, "returned", {})
          /\ Shape(If(Graph(1), Maybe(Try({In(1), Out(1), Enc(1)}, {}, {}))), {In(1), Out(1),
              Enc(1)}, {}, {}, {Graph(1)}, TRUE, "returned", {})
          /\ Shape(If(Graph(1), Maybe(Try({Out(1), Muxer(1)}, {}, {}))), {Out(1), Muxer(1)}, {},
              {}, {Graph(1)}, TRUE, "returned", {})
          /\ Shape(Release({Frame}), {}, {}, {Frame}, {}, FALSE, "never", {})
          /\ Shape(Maybe(Try({Out(1), Muxer(1)}, {}, {})), {Out(1), Muxer(1)}, {}, {}, {}, TRUE,
              "returned", {})
      BY Shapes, OneTrack
    <2>2. /\ Errs("break", {}, P5, Stores, P5)
          /\ Errs("break", {}, P7, Stores, P5)
          /\ Errs("returned", {}, P7, Stores, P5)
          /\ Errs("never", {}, P7, Stores, P5)
          /\ Errs("returned", {}, P5, Stores, P5)
      BY <1>2 DEF Errs
    <2>3. /\ << P5, TryOrBreak({In(1)}, {}), P5 >> \in Takes(Stores, P5)
          /\ << P5, If(Graph(1), TryOrBreak({}, {Frame})), P7 >> \in Takes(Stores, P5)
          /\ << P7, If(Graph(1), TryOrBreak({In(1), Dec(1), Frame}, {})), P7 >> \in Takes(Stores,
              P5)
          /\ << P7, If(Graph(1), Maybe(Try({Data(2), Src(1, 1)}, {}, {}))), P7 >> \in Takes(Stores,
              P5)
          /\ << P7, If(Graph(1), Maybe(Try({Data(2), Sink(1)}, {}, {}))), P7 >> \in Takes(Stores,
              P5)
          /\ << P7, If(Graph(1), Maybe(Try({In(1), Out(1), Enc(1)}, {}, {}))),
              P7 >> \in Takes(Stores, P5)
          /\ << P7, If(Graph(1), Maybe(Try({Out(1), Muxer(1)}, {}, {}))), P7 >> \in Takes(Stores,
              P5)
          /\ << P7, Release({Frame}), P5 >> \in Takes(Stores, P5)
          /\ << P5, Maybe(Try({Out(1), Muxer(1)}, {}, {})), P5 >> \in Takes(Stores, P5)
      <3>1. /\ << P5, TryOrBreak({In(1)}, {}), P5 >> \in Takes(Stores, P5)
            /\ << P5, If(Graph(1), TryOrBreak({}, {Frame})), P7 >> \in Takes(Stores, P5)
            /\ << P7, If(Graph(1), TryOrBreak({In(1), Dec(1), Frame}, {})), P7 >> \in Takes(Stores,
                P5)
            /\ << P7, If(Graph(1), Maybe(Try({Data(2), Src(1, 1)}, {}, {}))),
                P7 >> \in Takes(Stores, P5)
        BY <1>1, <2>1, <2>2, StepLeads, ZenonT(40)
      <3>2. /\ << P7, If(Graph(1), Maybe(Try({Data(2), Sink(1)}, {}, {}))), P7 >> \in Takes(Stores,
                 P5)
            /\ << P7, If(Graph(1), Maybe(Try({In(1), Out(1), Enc(1)}, {}, {}))),
                P7 >> \in Takes(Stores, P5)
            /\ << P7, If(Graph(1), Maybe(Try({Out(1), Muxer(1)}, {}, {}))), P7 >> \in Takes(Stores,
                P5)
            /\ << P7, Release({Frame}), P5 >> \in Takes(Stores, P5)
        BY <1>1, <2>1, <2>2, StepLeads, ZenonT(40)
      <3>3. << P5, Maybe(Try({Out(1), Muxer(1)}, {}, {})), P5 >> \in Takes(Stores, P5)
        BY <1>1, <2>1, <2>2, StepLeads
      <3>. QED  BY <3>1, <3>2, <3>3
    <2>. DEFINE x == << TryOrBreak({In(1)}, {}), If(Graph(1), TryOrBreak({}, {Frame})),
                        If(Graph(1), TryOrBreak({In(1), Dec(1), Frame}, {})) >>
                y == << If(Graph(1), Maybe(Try({Data(2), Src(1, 1)}, {}, {}))),
                        If(Graph(1), Maybe(Try({Data(2), Sink(1)}, {}, {}))) >>
                z == << If(Graph(1), Maybe(Try({In(1), Out(1), Enc(1)}, {}, {}))),
                        If(Graph(1), Maybe(Try({Out(1), Muxer(1)}, {}, {}))) >>
                w == << Release({Frame}), Maybe(Try({Out(1), Muxer(1)}, {}, {})) >>
                B == Takes(Stores, P5)
    <2>4. Chain(B, x, P5, P7) /\ Chain(B, y, P7, P7) /\ Chain(B, z, P7, P7) /\ Chain(B, w, P7, P5)
      <3>. HIDE DEF P5, P7
      <3>. QED  BY <1>2, <2>3, ChainOf2, ChainOf3
    <2>5. x \in Seq(Steps) /\ y \in Seq(Steps) /\ z \in Seq(Steps) /\ w \in Seq(Steps)
      BY <2>1 DEF Shape, Quiet
    <2>6. ReadPackets = (x \o (y \o z)) \o w
      BY BackupTexts DEF ReadPackets
    <2>. HIDE DEF x, y, z, w, B, P5, P7
    <2>7. Chain(B, y \o z, P7, P7) /\ y \o z \in Seq(Steps)
      BY <2>4, <2>5, ChainJoin, Joined
    <2>8. Chain(B, x \o (y \o z), P5, P7) /\ x \o (y \o z) \in Seq(Steps)
      BY <2>4, <2>5, <2>7, ChainJoin, Joined
    <2>9. Chain(B, ReadPackets, P5, P5) /\ ReadPackets \in Seq(Steps)
      BY <2>4, <2>5, <2>6, <2>8, ChainJoin, Joined
    <2>. QED  BY <1>2, <2>9, CallFits DEF Names, FoundOutLater, B
  <1>10. << P5, Call("flush", filter_encode_write_frame \o flush_encoder, "cleanup"), P5 >> \in R
    <2>1. /\ Shape(If(Graph(1), Maybe(Try({Data(2), Src(1, 1)}, {}, {}))), {Data(2), Src(1, 1)},
               {}, {}, {Graph(1)}, TRUE, "returned", {})
          /\ Shape(If(Graph(1), Maybe(Try({Data(2), Sink(1)}, {}, {}))), {Data(2), Sink(1)}, {},
              {}, {Graph(1)}, TRUE, "returned", {})
          /\ Shape(If(Graph(1), Maybe(Try({In(1), Out(1), Enc(1)}, {}, {}))), {In(1), Out(1),
              Enc(1)}, {}, {}, {Graph(1)}, TRUE, "returned", {})
          /\ Shape(If(Graph(1), Maybe(Try({Out(1), Muxer(1)}, {}, {}))), {Out(1), Muxer(1)}, {},
              {}, {Graph(1)}, TRUE, "returned", {})
      BY Shapes, OneTrack
    <2>2. Errs("returned", {}, P5, Stores, P5)
      BY <1>2 DEF Errs
    <2>3. /\ << P5, If(Graph(1), Maybe(Try({Data(2), Src(1, 1)}, {}, {}))), P5 >> \in Takes(Stores,
               P5)
          /\ << P5, If(Graph(1), Maybe(Try({Data(2), Sink(1)}, {}, {}))), P5 >> \in Takes(Stores,
              P5)
          /\ << P5, If(Graph(1), Maybe(Try({In(1), Out(1), Enc(1)}, {}, {}))),
              P5 >> \in Takes(Stores, P5)
          /\ << P5, If(Graph(1), Maybe(Try({Out(1), Muxer(1)}, {}, {}))), P5 >> \in Takes(Stores,
              P5)
      BY <1>1, <2>1, <2>2, StepLeads, ZenonT(40)
    <2>. DEFINE y == << If(Graph(1), Maybe(Try({Data(2), Src(1, 1)}, {}, {}))),
                        If(Graph(1), Maybe(Try({Data(2), Sink(1)}, {}, {}))) >>
                z == << If(Graph(1), Maybe(Try({In(1), Out(1), Enc(1)}, {}, {}))),
                        If(Graph(1), Maybe(Try({Out(1), Muxer(1)}, {}, {}))) >>
                B == Takes(Stores, P5)
                t == filter_encode_write_frame \o flush_encoder
    <2>4. Chain(B, y, P5, P5) /\ Chain(B, z, P5, P5)
      <3>. HIDE DEF P5
      <3>. QED  BY <1>2, <2>3, ChainOf2
    <2>5. y \in Seq(Steps) /\ z \in Seq(Steps)
      BY <2>1 DEF Shape, Quiet
    <2>6. t = (y \o z) \o z
      BY BackupTexts
    <2>. HIDE DEF y, z, B, P5, t
    <2>7. Chain(B, y \o z, P5, P5) /\ y \o z \in Seq(Steps)
      BY <2>4, <2>5, ChainJoin, Joined
    <2>8. Chain(B, t, P5, P5) /\ t \in Seq(Steps)
      BY <2>4, <2>5, <2>6, <2>7, ChainJoin, Joined
    <2>9. << P5, Call("flush", t, "cleanup"), P5 >> \in R
      BY <1>2, <2>8, CallFits DEF Names, FoundOutLater, B
    <2>. QED  BY <2>9 DEF t
  <1>11. << P5, Call("write_output_file_trailer", << Unchecked({Out(1), Muxer(1)}, {}),
          Release({Muxer(1)}) >>, "cleanup"), PZ >> \in R
    <2>1. /\ Shape(Unchecked({Out(1), Muxer(1)}, {}), {Out(1), Muxer(1)}, {}, {}, {}, FALSE,
               "unnoticed", {})
          /\ Shape(Release({Muxer(1)}), {}, {}, {Muxer(1)}, {}, FALSE, "never", {})
      BY Shapes, OneTrack
    <2>2. /\ Errs("unnoticed", {}, P5, Stores, PZ)
          /\ Errs("never", {}, P5, Stores, PZ)
      BY <1>2 DEF Errs
    <2>3. /\ << P5, Unchecked({Out(1), Muxer(1)}, {}), P5 >> \in Takes(Stores, PZ)
          /\ << P5, Release({Muxer(1)}), PZ >> \in Takes(Stores, PZ)
      BY <1>1, <2>1, <2>2, StepLeads
    <2>4. Chain(Takes(Stores, PZ), << Unchecked({Out(1), Muxer(1)}, {}), Release({Muxer(1)}) >>,
            P5, PZ)
      BY <1>2, <2>3, ChainOf2
    <2>5. << Unchecked({Out(1), Muxer(1)}, {}), Release({Muxer(1)}) >> \in Seq(Steps)
      <3>1. {Unchecked({Out(1), Muxer(1)}, {}), Release({Muxer(1)})} \subseteq Steps
        BY <2>1 DEF Shape, Quiet
      <3>. QED  BY <3>1
    <2>. QED  BY <1>2, <2>4, <2>5, CallFits DEF Names, FoundOutLater
  <1>12. << PZ, Call("end", end_backup, "exit"), PZ >> \in R
    <2>. DEFINE N == HolesIn("trans_backup", "end")
                G == TakesBut(N, Stores, PZ)
    <2>1. \A c \in {Frame, In(1), Graph(1), Data(2), Io(1), Out(1)} :
            Release({c}) \in EndStep /\ Sure({c}, {}) \in EndStep
      BY OneTrack, EndTypes
    <2>2. \A c \in {Frame, In(1), Graph(1), Data(2), Io(1), Out(1)} :
            << PZ, Release({c}), PZ >> \in G
      <3>1. ASSUME NEW c \in {Frame, In(1), Graph(1), Data(2), Io(1), Out(1)}
            PROVE  << PZ, Release({c}), PZ >> \in Takes(Stores, PZ)
        <4>1. Shape(Release({c}), {}, {}, {c}, {}, FALSE, "never", {})
          BY Shapes, OneTrack
        <4>2. Leads({}, {}, {c}, {}, FALSE, {}, {}, {}, {})
          BY OneTrack DEF Leads, Owned
        <4>3. Errs("never", {}, Certain({}, {}), Stores, PZ)
          BY DEF Errs
        <4>. HIDE DEF PZ
        <4>4. << Certain({}, {}), Release({c}), Certain({}, {}) >> \in Takes(Stores, PZ)
          BY <4>1, <4>2, <4>3, StepLeads
        <4>. QED  BY <1>4, <4>4, EmptyCertain
      <3>2. Takes(Stores, PZ) \subseteq G
        BY DEF Takes, TakesBut
      <3>. QED  BY <3>1, <3>2
    <2>3. << PZ, Sure({In(1)}, {}), PZ >> \in G
      <3>1. {In(1)} \in N
        BY OneTrack DEF HolesIn, Holes
      <3>2. Sure({In(1)}, {}) \in Steps
        BY <2>1 DEF EndStep, Quiet
      <3>3. /\ Sure({In(1)}, {}).push = 0 /\ Sure({In(1)}, {}).needs = {}
            /\ Sure({In(1)}, {}).frees = {} /\ Sure({In(1)}, {}).gives = {}
            /\ Sure({In(1)}, {}).uses = {In(1)} /\ Sure({In(1)}, {}).failure = "never"
        BY DEF Sure
      <3>. HIDE DEF N, PZ
      <3>. QED  BY <1>2, <3>1, <3>2, <3>3, HoleKept
    <2>4. end_backup \in Seq(Steps)
      <3>1. end_backup \in Seq(EndStep)
        BY <2>1 DEF end_backup
      <3>2. EndStep \subseteq Steps
        BY DEF EndStep, Quiet
      <3>. QED  BY <3>1, <3>2
    <2>5. Chain(G, end_backup, PZ, PZ)
      <3>. HIDE DEF G, PZ
      <3>. QED  BY <1>2, <2>2, <2>3, ChainOf7 DEF end_backup
    <2>6. Stores = PZ
      BY <1>4
    <2>. HIDE DEF PZ
    <2>. QED  BY <1>2, <2>4, <2>5, <2>6, CallHoles DEF Names, FoundOutLater, N, G
  <1>. HIDE DEF P0, P1, P2, P3, P4, P5, P6, P7, PZ
  <1>13. Chain(R, main_backup, P0, PZ)
    <2>. DEFINE c1 == Call("open_input_file", open_input_file_backup, "cleanup")
                c2 == Call("open_output_file", open_output_file_backup, "cleanup")
                c3 == Call("filter_ctx", << Try({In(1)}, {Data(2)}, {}) >>, "cleanup")
                c4 == Call("init_filter", [n \in DOMAIN init_filter |-> If(Dec(1),
                    init_filter[n])], "ignore")
                c5 == Loop("read", ReadPackets, "cleanup")
                c6 == Call("flush", filter_encode_write_frame \o flush_encoder, "cleanup")
                c7 == Call("write_output_file_trailer", << Unchecked({Out(1), Muxer(1)}, {}),
                    Release({Muxer(1)}) >>, "cleanup")
                c8 == Call("end", end_backup, "exit")
    <2>1. main_backup = (<< c1, c2 >> \o << c3, c4 >>) \o << c5, c6, c7, c8 >>
      BY DEF main_backup, init_filters
    <2>. HIDE DEF c1, c2, c3, c4, c5, c6, c7, c8
    <2>2. /\ << P0, c1, P1 >> \in R
          /\ << P1, c2, P4 >> \in R
          /\ << P4, c3, P5 >> \in R
          /\ << P5, c4, P5 >> \in R
          /\ << P5, c5, P5 >> \in R
          /\ << P5, c6, P5 >> \in R
          /\ << P5, c7, PZ >> \in R
          /\ << PZ, c8, PZ >> \in R
      BY <1>5, <1>6, <1>7, <1>8, <1>9, <1>10, <1>11, <1>12 DEF c1, c2, c3, c4, c5, c6, c7, c8
    <2>3. /\ Chain(R, << c1, c2 >>, P0, P4) /\ Chain(R, << c3, c4 >>, P4, P5)
          /\ Chain(R, << c5, c6, c7, c8 >>, P5, PZ)
      BY <1>2, <2>2, ChainOf2, ChainOf4
    <2>4. << c1, c2 >> \in Seq(Calls(Steps)) /\ << c3, c4 >> \in Seq(Calls(Steps))
          /\ << c5, c6, c7, c8 >> \in Seq(Calls(Steps))
      BY <2>2 DEF CallRel, R
    <2>5. << c1, c2 >> \o << c3, c4 >> \in Seq(Calls(Steps)) /\ Chain(R, << c1, c2 >> \o << c3,
            c4 >>, P0, P5)
      BY <2>3, <2>4, ChainJoin, Joined
    <2>. QED  BY <2>1, <2>3, <2>4, <2>5, ChainJoin
  <1>14. /\ "trans_backup" \in Program /\ Code["trans_backup"] = main_backup
        /\ Len(main_backup) = 8 /\ main_backup[8].name = "end"
    BY DEF Program, Code, main_backup, Call, Loop, init_filters
  <1>. HIDE DEF R
  <1>15. Chain(CallRel("trans_backup", Stores), Code["trans_backup"], P0, PZ)
    BY <1>13, <1>14 DEF R
  <1>16. "trans_backup" \in Program /\ Len(Code["trans_backup"]) > 0 /\ Code["trans_backup"][Len(Code["trans_backup"])].name = "end"
    BY <1>14
  <1>. QED  BY <1>2, <1>3, <1>15, <1>16, PlannedFrom

-----------------------------------------------------------------------------
(* Every program uses only what it has                                     *)

\* Every program is planned.
LEMMA ProgramsPlanned == \A p \in Program : \E T, h : Planned(p, T, h)
  <1>1. Program = {"filter_audio", "ann_4_05", "working_31_03", "broken_4", "nfilter_3",
                   "FFMPEGtest2", "CDecoder", "sdp_2", "filter_1_1", "amix", "amix_copy",
                   "backupINET"}
                  \cup {"transcode_aac", "trans_backup", "RTP", "testRTPffmpeg", "demuxing",
                        "extract", "reading", "dec_enc"}
    BY DEF Program, Code
  <1>. QED  BY <1>1, MixersPlanned, AacPlanned, BackupPlanned, RtpPlanned, TestRtpPlanned,
               DemuxingPlanned, ExtractPlanned, ReadingPlanned, DecEncPlanned

\* It holds when main begins.
LEMMA SafeStart == Init => SafeInv
  <1>. SUFFICES ASSUME Init PROVE SafeInv
    OBVIOUS
  <1>1. TypeOK
    BY ProgramStart
  <1>2. PICK T, h : Planned(program, T, h)
    BY <1>1, ProgramsPlanned DEF TypeOK
  <1>3. /\ at = 1 /\ step = 1 /\ << ptr, Len(sinks) >> = << NothingOpen, 0 >>
        /\ outcome = "running" /\ program \in Program
    BY DEF Init
  <1>4. << NothingOpen, 0 >> \in h[1] /\ << NothingOpen, 0 >> \in Stores
    BY <1>2, NothingAtFirst DEF Planned, Having, Known
  <1>5. KnownHere(T, h)
    <2>. SUFFICES ASSUME Running
                  PROVE  /\ step \in 1..(Len(call.body) + 1)
                         /\ \E g : /\ Follows(program, call, g, h[at], h[at + 1], T)
                                   /\ << ptr, Len(sinks) >> \in g[step]
      BY DEF KnownHere
    <2>1. 1 \in 1..Len(Code[program]) /\ call = Code[program][1] /\ Len(call.body) \in Nat
      BY <1>1, <1>3, NowType
    <2>. DEFINE x == << NothingOpen, 0 >>
    <2>. HIDE DEF x
    <2>2. x \in h[1] /\ << ptr, Len(sinks) >> = x
      BY <1>3, <1>4 DEF x
    <2>3. \E g : Follows(program, call, g, h[1], h[1 + 1], T) /\ x \in g[1]
      BY <1>2, <1>3, <2>1, <2>2, EnterCall
    <2>4. \E g : Follows(program, call, g, h[at], h[at + 1], T) /\ << ptr, Len(sinks) >> \in g[step]
      BY <1>3, <2>2, <2>3
    <2>. QED  BY <1>3, <2>1, <2>4
  <1>. QED  BY <1>2, <1>3, <1>4, <1>5 DEF SafeInv, DefinedUnlessIgnored

\* A program becomes undefined at a step that is not defined.
LEMMA BecomesUndefined ==
    ASSUME TypeOK, [Next]_vars, outcome' = "undefined"
    PROVE  \/ UNCHANGED << program, at, step, ignored, outcome >>
           \/ Undefined
  <1>1. CASE outcome = "undefined"
    <2>1. ~Running /\ ~InCall
      BY <1>1 DEF Running, InCall
    <2>. QED  BY <1>1, <2>1 DEF Next, Skip, Succeed, Missing, FailReturned, FailUnnoticed,
                  FailBreaks, CanFail, Undefined, EndOfCall, MainReturns, Ended, vars
  <1>2. CASE outcome # "undefined"
    <2>1. InCall /\ OnError => outcome' # "undefined"
      <3>1. InCall => call.onerror \in {"exit", "ignore", "cleanup"}
        BY NowType DEF InCall, Calls
      <3>. QED  BY <1>2, <3>1 DEF OnError
    <2>. QED  BY <1>2, <2>1 DEF Next, Skip, Succeed, Missing, FailReturned, FailUnnoticed,
                  FailBreaks, CanFail, EndOfCall, MainReturns, Ended, vars
  <1>. QED  BY <1>1, <1>2

\* Every step keeps it.
LEMMA SafeStep == TypeOK /\ SafeInv /\ [Next]_vars => SafeInv'
  <1>. SUFFICES ASSUME TypeOK, SafeInv, [Next]_vars PROVE SafeInv'
    OBVIOUS
  <1>1. PICK T, h : Planned(program, T, h) /\ KnownHere(T, h)
    BY DEF SafeInv
  <1>2. /\ KnownHere(T, h)' /\ << ptr', Len(sinks') >> \in Stores
        /\ Undefined /\ ignored \subseteq FoundOutLater =>
             << program, call.name, now.uses >> \in Holes
    BY <1>1, KnownStep DEF SafeInv
  <1>3. program' = program
    BY ProgramStays
  <1>4. DefinedUnlessIgnored'
    <2>. SUFFICES ASSUME outcome' = "undefined"
                  PROVE  \/ ignored' \ FoundOutLater # {}
                         \/ << program', call'.name, now'.uses >> \in Holes
      BY DEF DefinedUnlessIgnored
    <2>1. CASE UNCHANGED << program, at, step, ignored, outcome >>
      <3>1. call' = call /\ now' = now
        BY <2>1 DEF call, now
      <3>. QED  BY <2>1, <3>1 DEF SafeInv, DefinedUnlessIgnored
    <2>2. CASE Undefined
      <3>1. UNCHANGED << program, at, step, ignored >>
        BY <2>2 DEF Undefined
      <3>2. call' = call /\ now' = now
        BY <3>1 DEF call, now
      <3>. QED  BY <1>2, <2>2, <3>1, <3>2
    <2>. QED  BY <2>1, <2>2, BecomesUndefined
  <1>5. Planned(program', T, h)
    BY <1>1, <1>3
  <1>. QED  BY <1>2, <1>4, <1>5 DEF SafeInv

\* A program never goes on with a pointer that it did not get or has given back,
\* unless it ignored a failure before, or is at one of the three holes.
THEOREM PointersAreValid == Spec => []DefinedUnlessIgnored
  <1>1. Init => TypeOK /\ SafeInv
    BY ProgramStart, SafeStart
  <1>2. TypeOK /\ SafeInv /\ [Next]_vars => TypeOK' /\ SafeInv'
    BY ProgramTypeStep, SafeStep
  <1>3. SafeInv => DefinedUnlessIgnored
    BY DEF SafeInv
  <1>. QED  BY <1>1, <1>2, <1>3, PTL DEF Spec
=============================================================================
