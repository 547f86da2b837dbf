---------------------------- MODULE MgcpRelay_proofs ----------------------------
(***************************************************************************)
(* Proofs about the relay, for any agents, requests, notifications and     *)
(* restarts.  The argument is that a datagram is a token: a transaction is *)
(* in one place at most - on the wire, in the buffer of a receive that has *)
(* completed, or read by an agent - although the buffers keep old data.    *)
(***************************************************************************)
EXTENDS MgcpRelay, SequenceTheorems, TLAPS

LEMMA RelayTypes ==
    /\ "switch" \notin Agents /\ "server" \notin Agents
    /\ "media" \notin Agents /\ "nobody" \notin Agents
    /\ MaxRequests \in Nat /\ MaxNotes \in Nat /\ MaxRestarts \in Nat
  BY RelayAssumption

LEMMA OtherSide == \A side \in Sides : Other(side) \in Sides /\ Other(side) # side
  BY DEF Sides, Other
-----------------------------------------------------------------------------
(* Type correctness *)

\* Where a datagram may travel.
Travels ==
    [from : Agents, to : {"switch"}, transaction : Transactions]
      \cup [from : {"server"}, to : {"media"}, transaction : Transactions]
      \cup [from : {"media"}, to : {"server"}, transaction : Transactions]
      \cup [from : {"switch"}, to : Agents, transaction : Transactions]

LEMMA Routes ==
    ASSUME NEW d \in Travels
    PROVE  /\ d.transaction \in Transactions
           /\ d = Datagram(d.from, d.to, d.transaction)
           /\ d.to = "switch" => d.from \in Agents
           /\ d.to = "server" => d.from = "media"
           /\ d.to = "media" => d.from = "server"
  BY RelayTypes DEF Travels, Datagram

LEMMA NewRoutes ==
    ASSUME NEW t \in Transactions
    PROVE  /\ \A a \in Agents : Datagram(a, "switch", t) \in Travels
           /\ Datagram("server", "media", t) \in Travels
           /\ Datagram("media", "server", t) \in Travels
           /\ \A a \in Agents : Datagram("switch", a, t) \in Travels
  BY DEF Travels, Datagram

LEMMA TransactionsTyped ==
    /\ <<>> \in Transactions
    /\ \A a \in Agents \cup {"media"}, n \in Nat : <<a, n>> \in Transactions
  BY DEF Transactions

LEMMA PassOnTyped ==
    ASSUME TypeOK, NEW side \in Sides, PassOn(side)
    PROVE  /\ wire' \subseteq Travels
           /\ receive' \in [Sides -> {"armed", "completed", "failed", "ended"}]
  <1>1. wire \subseteq Travels /\ data[side] \in Transactions
    BY DEF TypeOK, Travels
  <1>2. Datagram(Other(side), location[Other(side)], data[side]) \in Travels
    <2>1. CASE side = "switch"
      BY <1>1, <2>1, NewRoutes DEF Other, TypeOK
    <2>2. CASE side = "server"
      BY <1>1, <2>2, NewRoutes DEF Other, TypeOK, PassOn
    <2>. QED  BY <2>1, <2>2 DEF Sides
  <1>3. wire' \subseteq Travels
    BY <1>1, <1>2 DEF PassOn
  <1>4. receive' \in [Sides -> {"armed", "completed", "failed", "ended"}]
    BY DEF PassOn, TypeOK
  <1>. QED  BY <1>3, <1>4

LEMMA TypeOKInit == Init => TypeOK
  <1>. SUFFICES ASSUME Init PROVE TypeOK
    OBVIOUS
  <1>1. <<>> \in Transactions /\ <<>> \in Seq(Transactions)
    BY TransactionsTyped
  <1>2. data \in [Sides -> Transactions] /\ replies \in [Agents -> Seq(Transactions)]
    BY <1>1 DEF Init
  <1>3. restarts \in 0..MaxRestarts /\ noted \in 0..MaxNotes /\ asked \in [Agents -> 0..MaxRequests]
    BY RelayTypes DEF Init
  <1>4. /\ location["switch"] \in Agents \cup {"nobody"} /\ location["server"] = "media"
        /\ DOMAIN location = Sides
    BY DEF Init, Sides
  <1>. QED  BY <1>2, <1>3, <1>4 DEF Init, TypeOK

LEMMA TypeOKNext == TypeOK /\ [Next]_vars => TypeOK'
  <1>. SUFFICES ASSUME TypeOK, [Next]_vars PROVE TypeOK'
    OBVIOUS
  <1>0. wire \subseteq Travels
    BY DEF TypeOK, Travels
  <1>. USE DEF relayVars, agentVars, histories
  <1>1. ASSUME NEW side \in Sides, Complete(side) PROVE TypeOK'
    <2>1. PICK d \in wire : /\ d.to = side
                            /\ wire' = wire \ {d}
                            /\ data' = [data EXCEPT ![side] = d.transaction]
                            /\ location' = [location EXCEPT ![side] = d.from]
      BY <1>1 DEF Complete
    <2>2. /\ d.transaction \in Transactions
          /\ side = "switch" => d.from \in Agents
          /\ side = "server" => d.from = "media"
      BY <1>0, <2>1, Routes
    <2>3. data' \in [Sides -> Transactions]
      BY <2>1, <2>2 DEF TypeOK
    <2>4. /\ location'["switch"] \in Agents \cup {"nobody"}
          /\ location'["server"] = "media" /\ DOMAIN location' = Sides
      BY <2>1, <2>2 DEF TypeOK, Sides
    <2>5. receive' \in [Sides -> {"armed", "completed", "failed", "ended"}]
      BY <1>1 DEF Complete, TypeOK
    <2>. QED  BY <1>1, <2>1, <2>3, <2>4, <2>5 DEF Complete, TypeOK
  <1>2. ASSUME NEW side \in Sides, CompleteFails(side) PROVE TypeOK'
    BY <1>2 DEF CompleteFails, TypeOK
  <1>3. ASSUME NEW side \in Sides, Receive(side) PROVE TypeOK'
    <2>1. CASE PassOn(side)
      <3>1. /\ wire' \subseteq Travels
            /\ receive' \in [Sides -> {"armed", "completed", "failed", "ended"}]
        BY <2>1, PassOnTyped
      <3>. QED  BY <1>3, <2>1, <3>1 DEF PassOn, Receive, TypeOK, Travels
    <2>2. CASE SendThrows
      BY <1>3, <2>2 DEF SendThrows, Receive, TypeOK
    <2>3. CASE /\ receive' = [receive EXCEPT ![side] = "ended"]
               /\ UNCHANGED <<running, data, location, restarts, wire, faulty>>
      BY <1>3, <2>3 DEF Receive, TypeOK
    <2>. QED  BY <1>3, <2>1, <2>2, <2>3 DEF Receive
  <1>4. CASE Restart
    BY <1>4, RelayTypes, TransactionsTyped DEF Restart, TypeOK, Sides
  <1>5. ASSUME NEW a \in Agents, Ask(a) PROVE TypeOK'
    <2>1. asked[a] + 1 \in 0..MaxRequests /\ <<a, asked[a] + 1>> \in Transactions
      BY <1>5, RelayTypes, TransactionsTyped DEF Ask, TypeOK
    <2>2. wire' \subseteq Travels
      BY <1>0, <1>5, <2>1, NewRoutes DEF Ask
    <2>. QED  BY <1>5, <2>1, <2>2 DEF Ask, TypeOK, Travels
  <1>6. ASSUME NEW a \in Agents, ReadReply(a) PROVE TypeOK'
    <2>1. PICK d \in wire : /\ wire' = wire \ {d}
                            /\ replies' = [replies EXCEPT ![a] = Append(@, d.transaction)]
      BY <1>6 DEF ReadReply
    <2>2. d.transaction \in Transactions
      BY <1>0, Routes
    <2>3. replies' \in [Agents -> Seq(Transactions)]
      BY <2>1, <2>2 DEF TypeOK
    <2>. QED  BY <1>6, <2>1, <2>3 DEF ReadReply, TypeOK
  <1>7. CASE Answer
    <2>1. PICK d \in wire : /\ d.to = "media"
                            /\ wire' = (wire \ {d}) \cup
                                       {Datagram("media", d.from, d.transaction)}
      BY <1>7 DEF Answer
    <2>2. wire' \subseteq Travels
      BY <1>0, <2>1, Routes, NewRoutes
    <2>. QED  BY <1>7, <2>2 DEF Answer, TypeOK, Travels
  <1>8. CASE Notify
    <2>1. noted + 1 \in 0..MaxNotes /\ <<"media", noted + 1>> \in Transactions
      BY <1>8, RelayTypes, TransactionsTyped DEF Notify, TypeOK
    <2>2. wire' \subseteq Travels
      BY <1>0, <1>8, <2>1, NewRoutes DEF Notify
    <2>. QED  BY <1>8, <2>1, <2>2 DEF Notify, TypeOK, Travels
  <1>9. CASE Lose
    BY <1>9 DEF Lose, TypeOK
  <1>10. CASE UNCHANGED vars
    BY <1>10 DEF vars, TypeOK
  <1>. QED  BY <1>1, <1>2, <1>3, <1>4, <1>5, <1>6, <1>7, <1>8, <1>9, <1>10 DEF Next

\* Any agents, bounds and faults: a datagram only travels between neighbours,
\* the relay takes no one but the media server for the server, and no one but
\* an agent for the switch (RedirectorMGCP.cpp, ReceiveSwitch, ReceiveServer).
THEOREM TypeCorrect == Spec => []TypeOK
  <1>1. Init => TypeOK
    BY TypeOKInit
  <1>2. TypeOK /\ [Next]_vars => TypeOK'
    BY TypeOKNext
  <1>. QED  BY <1>1, <1>2, PTL DEF Spec
-----------------------------------------------------------------------------
(* Tokens *)

Pending(side) == receive[side] = "completed"

OnWire(t) == \E d \in wire : d.transaction = t
InBuffer(t) == \E side \in Sides : Pending(side) /\ data[side] = t
Read(t) == \E a \in Agents : \E k \in 1..Len(replies[a]) : replies[a][k] = t

\* Requests are numbered by their agents, notifications by the server.
Issued(t) == \/ \E a \in Agents : \E n \in 1..asked[a] : t = <<a, n>>
             \/ \E n \in 1..noted : t = <<"media", n>>

Tokens ==
    /\ \A d, e \in wire : d.transaction = e.transaction => d = e
    /\ \A s, r \in Sides : Pending(s) /\ Pending(r) /\ data[s] = data[r] => s = r
    /\ \A t : /\ ~(OnWire(t) /\ InBuffer(t))
              /\ ~(OnWire(t) /\ Read(t)) /\ ~(InBuffer(t) /\ Read(t))
    /\ \A t : OnWire(t) \/ InBuffer(t) \/ Read(t) => Issued(t)
    /\ ReadOnce

\* A new transaction is not anywhere yet, and the old ones stay issued.
LEMMA NewRequest ==
    ASSUME TypeOK, NEW a \in Agents, asked' = [asked EXCEPT ![a] = @ + 1], noted' = noted,
           NEW t, t = <<a, asked[a] + 1>>
    PROVE  ~Issued(t) /\ Issued(t)' /\ \A u : Issued(u) => Issued(u)'
  <1>1. asked \in [Agents -> Nat] /\ a # "media"
    BY RelayTypes DEF TypeOK
  <1>2. asked'[a] = asked[a] + 1 /\ \A b \in Agents \ {a} : asked'[b] = asked[b]
    BY <1>1
  <1>3. ~Issued(t)
    <2>1. ASSUME NEW b \in Agents, NEW n \in 1..asked[b], t = <<b, n>>
          PROVE  FALSE
      <3>1. a = b /\ asked[a] + 1 = n
        BY <2>1
      <3>. QED  BY <1>1, <3>1
    <2>2. ASSUME NEW n, t = <<"media", n>> PROVE FALSE
      BY <1>1, <2>2
    <2>. QED  BY <2>1, <2>2 DEF Issued
  <1>4. Issued(t)'
    <2>1. asked[a] + 1 \in 1..asked'[a]
      BY <1>1, <1>2
    <2>. QED  BY <2>1 DEF Issued
  <1>5. ASSUME NEW u, Issued(u) PROVE Issued(u)'
    <2>1. \A b \in Agents : \A n \in 1..asked[b] : n \in 1..asked'[b]
      BY <1>1, <1>2
    <2>. QED  BY <1>5, <2>1 DEF Issued
  <1>. QED  BY <1>3, <1>4, <1>5

LEMMA NewNote ==
    ASSUME TypeOK, noted' = noted + 1, asked' = asked, NEW t, t = <<"media", noted + 1>>
    PROVE  ~Issued(t) /\ Issued(t)' /\ \A u : Issued(u) => Issued(u)'
  <1>1. noted \in Nat /\ "media" \notin Agents
    BY RelayTypes DEF TypeOK
  <1>2. ~Issued(t)
    <2>1. ASSUME NEW b \in Agents, NEW n, t = <<b, n>> PROVE FALSE
      BY <1>1, <2>1
    <2>2. ASSUME NEW n \in 1..noted, t = <<"media", n>> PROVE FALSE
      <3>1. noted + 1 = n
        BY <2>2
      <3>. QED  BY <1>1, <3>1
    <2>. QED  BY <2>1, <2>2 DEF Issued
  <1>3. Issued(t)'
    <2>1. noted + 1 \in 1..noted'
      BY <1>1
    <2>. QED  BY <2>1 DEF Issued
  <1>4. ASSUME NEW u, Issued(u) PROVE Issued(u)'
    <2>1. \A n \in 1..noted : n \in 1..noted'
      BY <1>1
    <2>. QED  BY <1>4, <2>1 DEF Issued
  <1>. QED  BY <1>2, <1>3, <1>4

\* The wire keeps at most what it had.
LEMMA LessOnWire ==
    ASSUME Tokens, wire' \subseteq wire,
           \A side \in Sides : Pending(side)' => Pending(side) /\ data'[side] = data[side],
           UNCHANGED <<replies, asked, noted>>
    PROVE  Tokens'
  <1>1. \A t : /\ OnWire(t)' => OnWire(t)
               /\ InBuffer(t)' => InBuffer(t)
               /\ (Read(t)' => Read(t)) /\ (Issued(t) => Issued(t)')
    BY DEF OnWire, InBuffer, Read, Issued
  <1>2. \A d, e \in wire' : d.transaction = e.transaction => d = e
    BY DEF Tokens
  <1>3. \A s, r \in Sides : Pending(s)' /\ Pending(r)' /\ data'[s] = data'[r] => s = r
    BY DEF Tokens
  <1>4. ReadOnce'
    BY DEF Tokens, ReadOnce
  <1>5. ASSUME NEW t
        PROVE  /\ ~(OnWire(t)' /\ InBuffer(t)') /\ ~(OnWire(t)' /\ Read(t)')
               /\ ~(InBuffer(t)' /\ Read(t)')
               /\ OnWire(t)' \/ InBuffer(t)' \/ Read(t)' => Issued(t)'
    <2>1. /\ ~(OnWire(t) /\ InBuffer(t)) /\ ~(OnWire(t) /\ Read(t))
          /\ ~(InBuffer(t) /\ Read(t)) /\ (OnWire(t) \/ InBuffer(t) \/ Read(t) => Issued(t))
      BY DEF Tokens
    <2>2. /\ OnWire(t)' => OnWire(t)
          /\ InBuffer(t)' => InBuffer(t)
          /\ Read(t)' => Read(t)
          /\ Issued(t) => Issued(t)'
      BY <1>1
    <2>. QED  BY <2>1, <2>2
  <1>. QED  BY <1>2, <1>3, <1>4, <1>5 DEF Tokens

\* A new transaction appears on the wire.
LEMMA MoreOnWire ==
    ASSUME Tokens, NEW d, ~Issued(d.transaction), wire' = wire \cup {d},
           NEW t, t = d.transaction, Issued(t)', \A u : Issued(u) => Issued(u)',
           UNCHANGED <<receive, data, replies>>
    PROVE  Tokens'
  <1>1. \A u : /\ OnWire(u)' => OnWire(u) \/ u = t
               /\ InBuffer(u)' = InBuffer(u) /\ Read(u)' = Read(u)
    BY DEF OnWire, InBuffer, Read, Pending
  <1>2. ~OnWire(t) /\ ~InBuffer(t) /\ ~Read(t)
    BY DEF Tokens
  <1>3. \A e, f \in wire' : e.transaction = f.transaction => e = f
    BY <1>2 DEF Tokens, OnWire
  <1>4. \A s, r \in Sides : Pending(s)' /\ Pending(r)' /\ data'[s] = data'[r] => s = r
    BY DEF Tokens, Pending
  <1>5. ReadOnce'
    BY DEF Tokens, ReadOnce
  <1>. QED  BY <1>1, <1>2, <1>3, <1>4, <1>5 DEF Tokens

\* A datagram on the wire is replaced by the next one on its way.
LEMMA MovedOnWire ==
    ASSUME Tokens, NEW d \in wire, NEW e, e.transaction = d.transaction,
           wire' = (wire \ {d}) \cup {e}, UNCHANGED <<receive, data, replies, asked, noted>>
    PROVE  Tokens'
  <1>1. \A u : /\ OnWire(u)' => OnWire(u)
               /\ InBuffer(u)' = InBuffer(u) /\ Read(u)' = Read(u) /\ Issued(u)' = Issued(u)
    BY DEF OnWire, InBuffer, Read, Issued, Pending
  <1>2. \A f, g \in wire' : f.transaction = g.transaction => f = g
    BY DEF Tokens
  <1>3. \A s, r \in Sides : Pending(s)' /\ Pending(r)' /\ data'[s] = data'[r] => s = r
    BY DEF Tokens, Pending
  <1>4. ReadOnce'
    BY DEF Tokens, ReadOnce
  <1>. QED  BY <1>1, <1>2, <1>3, <1>4 DEF Tokens

\* A receive takes a datagram off the wire into its buffer.
LEMMA Buffered ==
    ASSUME Tokens, NEW side \in Sides, ~Pending(side), NEW d \in wire,
           wire' = wire \ {d}, DOMAIN data = Sides, DOMAIN receive = Sides,
           data' = [data EXCEPT ![side] = d.transaction],
           receive' = [receive EXCEPT ![side] = "completed"],
           UNCHANGED <<replies, asked, noted>>
    PROVE  Tokens'
  <1>. DEFINE t == d.transaction
  <1>1. \A s \in Sides : Pending(s)' => IF s = side THEN data'[s] = t
                                       ELSE Pending(s) /\ data'[s] = data[s]
    BY DEF Pending
  <1>2. OnWire(t) /\ ~InBuffer(t) /\ ~Read(t)
    BY DEF Tokens, OnWire
  <1>3. \A u : OnWire(u)' => OnWire(u) /\ u # t
    BY DEF Tokens, OnWire
  <1>4. \A u : /\ InBuffer(u)' => InBuffer(u) \/ u = t
               /\ Read(u)' = Read(u) /\ Issued(u)' = Issued(u)
    BY <1>1 DEF InBuffer, Read, Issued
  <1>5. \A e, f \in wire' : e.transaction = f.transaction => e = f
    BY DEF Tokens
  <1>6. \A s, r \in Sides : Pending(s)' /\ Pending(r)' /\ data'[s] = data'[r] => s = r
    BY <1>1, <1>2 DEF Tokens, InBuffer
  <1>7. ReadOnce'
    BY DEF Tokens, ReadOnce
  <1>. HIDE DEF t
  <1>. QED  BY <1>2, <1>3, <1>4, <1>5, <1>6, <1>7 DEF Tokens

\* What a receive has completed with goes on the wire again, once.
LEMMA Sent ==
    ASSUME Tokens, NEW side \in Sides, Pending(side), NEW d, d.transaction = data[side],
           wire' = wire \cup {d}, DOMAIN receive = Sides,
           receive' = [receive EXCEPT ![side] = "armed"],
           UNCHANGED <<data, replies, asked, noted>>
    PROVE  Tokens'
  <1>. DEFINE t == data[side]
  <1>1. \A s \in Sides : Pending(s)' => s # side /\ Pending(s)
    BY DEF Pending
  <1>2. ~OnWire(t) /\ InBuffer(t) /\ ~Read(t)
    BY DEF Tokens, InBuffer
  <1>3. \A u : OnWire(u)' => OnWire(u) \/ u = t
    BY DEF OnWire
  <1>4. \A u : /\ InBuffer(u)' => InBuffer(u) /\ u # t
               /\ Read(u)' = Read(u) /\ Issued(u)' = Issued(u)
    BY <1>1 DEF Tokens, InBuffer, Read, Issued
  <1>5. \A e, f \in wire' : e.transaction = f.transaction => e = f
    BY <1>2 DEF Tokens, OnWire
  <1>6. \A s, r \in Sides : Pending(s)' /\ Pending(r)' /\ data'[s] = data'[r] => s = r
    BY <1>1 DEF Tokens
  <1>7. ReadOnce'
    BY DEF Tokens, ReadOnce
  <1>. HIDE DEF t
  <1>. QED  BY <1>2, <1>3, <1>4, <1>5, <1>6, <1>7 DEF Tokens

\* An agent reads a datagram.
LEMMA Taken ==
    ASSUME TypeOK, Tokens, NEW a \in Agents, NEW d \in wire, wire' = wire \ {d},
           replies' = [replies EXCEPT ![a] = Append(@, d.transaction)],
           UNCHANGED <<receive, data, asked, noted>>
    PROVE  Tokens'
  <1>. DEFINE t == d.transaction
              m == Len(replies[a])
  <1>1. /\ \A b \in Agents : Len(replies[b]) \in Nat
        /\ Len(replies'[a]) = m + 1 /\ replies'[a][m + 1] = t
        /\ \A k \in 1..m : replies'[a][k] = replies[a][k]
        /\ \A b \in Agents \ {a} : replies'[b] = replies[b]
    <2>1. replies[a] \in Seq(Transactions) /\ t \in Transactions
      BY Routes DEF TypeOK, Travels
    <2>. QED  BY <2>1, AppendProperties DEF TypeOK
  <1>2. OnWire(t) /\ ~InBuffer(t) /\ ~Read(t)
    BY DEF Tokens, OnWire
  <1>3. \A u : OnWire(u)' => OnWire(u) /\ u # t
    BY DEF Tokens, OnWire
  <1>4. \A u : InBuffer(u)' = InBuffer(u) /\ Issued(u)' = Issued(u)
    BY DEF InBuffer, Issued, Pending
  <1>5. \A b \in Agents : \A k \in 1..Len(replies'[b]) :
            \/ b = a /\ k = m + 1 /\ replies'[b][k] = t
            \/ k \in 1..Len(replies[b]) /\ replies'[b][k] = replies[b][k]
    BY <1>1
  <1>6. \A u : Read(u)' => Read(u) \/ u = t
    BY <1>5 DEF Read
  <1>7. \A e, f \in wire' : e.transaction = f.transaction => e = f
    BY DEF Tokens
  <1>8. \A s, r \in Sides : Pending(s)' /\ Pending(r)' /\ data'[s] = data'[r] => s = r
    BY DEF Tokens, Pending
  <1>9. ReadOnce'
    <2>1. \A b \in Agents : \A k \in 1..Len(replies[b]) : replies[b][k] # t
      BY <1>2 DEF Read
    <2>. HIDE DEF t, m
    <2>. QED  BY <1>5, <2>1 DEF Tokens, ReadOnce
  <1>. HIDE DEF t
  <1>. QED  BY <1>2, <1>3, <1>4, <1>6, <1>7, <1>8, <1>9 DEF Tokens

LEMMA TokensInit == Init => Tokens
  <1>. SUFFICES ASSUME Init PROVE Tokens
    OBVIOUS
  <1>1. wire = {} /\ (\A side \in Sides : ~Pending(side)) /\ \A a \in Agents : replies[a] = <<>>
    BY DEF Init, Pending
  <1>2. \A t : ~OnWire(t) /\ ~InBuffer(t)
    BY <1>1 DEF OnWire, InBuffer
  <1>3. \A a \in Agents : \A k \in 1..Len(replies[a]) : FALSE
    BY <1>1
  <1>4. \A t : ~Read(t)
    BY <1>3 DEF Read
  <1>5. ReadOnce
    BY <1>3 DEF ReadOnce
  <1>. QED  BY <1>1, <1>2, <1>4, <1>5 DEF Tokens

LEMMA TokensNext == TypeOK /\ Tokens /\ [Next]_vars => Tokens'
  <1>. SUFFICES ASSUME TypeOK, Tokens, [Next]_vars PROVE Tokens'
    OBVIOUS
  <1>0. DOMAIN receive = Sides /\ DOMAIN data = Sides
    BY DEF TypeOK
  <1>. USE DEF relayVars, agentVars, histories
  <1>1. ASSUME NEW side \in Sides, Complete(side) PROVE Tokens'
    <2>1. PICK d \in wire : /\ wire' = wire \ {d}
                            /\ data' = [data EXCEPT ![side] = d.transaction]
      BY <1>1 DEF Complete
    <2>. QED  BY <1>0, <1>1, <2>1, Buffered DEF Complete, Pending
  <1>2. ASSUME NEW side \in Sides, CompleteFails(side) PROVE Tokens'
    <2>1. /\ \A s \in Sides : Pending(s)' => Pending(s) /\ data'[s] = data[s]
          /\ UNCHANGED <<wire, replies, asked, noted>>
      BY <1>0, <1>2 DEF CompleteFails, Pending
    <2>. QED  BY <2>1, LessOnWire
  <1>3. ASSUME NEW side \in Sides, Receive(side) PROVE Tokens'
    <2>1. CASE Pending(side) /\ PassOn(side)
      <3>. DEFINE d == Datagram(Other(side), location[Other(side)], data[side])
      <3>1. d.transaction = data[side]
        BY DEF Datagram
      <3>2. /\ wire' = wire \cup {d} /\ receive' = [receive EXCEPT ![side] = "armed"]
            /\ UNCHANGED <<data, replies, asked, noted>>
        BY <1>3, <2>1 DEF PassOn, Receive
      <3>. HIDE DEF d
      <3>. QED  BY <1>0, <2>1, <3>1, <3>2, Sent
    <2>2. CASE \/ SendThrows
               \/ /\ receive' = [receive EXCEPT ![side] = "ended"]
                  /\ UNCHANGED <<running, data, location, restarts, wire, faulty>>
      <3>1. /\ \A s \in Sides : Pending(s)' => Pending(s) /\ data'[s] = data[s]
            /\ UNCHANGED <<wire, replies, asked, noted>>
        BY <1>0, <1>3, <2>2 DEF SendThrows, Receive, Pending
      <3>. QED  BY <3>1, LessOnWire
    <2>. QED  BY <1>3, <2>1, <2>2 DEF Receive, Pending
  <1>4. CASE Restart
    <2>1. /\ wire' \subseteq wire /\ UNCHANGED <<replies, asked, noted>>
          /\ \A s \in Sides : ~Pending(s)'
      BY <1>4 DEF Restart, Pending
    <2>. QED  BY <2>1, LessOnWire
  <1>5. ASSUME NEW a \in Agents, Ask(a) PROVE Tokens'
    <2>. DEFINE t == <<a, asked[a] + 1>>
                d == Datagram(a, "switch", t)
    <2>1. d.transaction = t
      BY DEF Datagram
    <2>2. /\ wire' = wire \cup {d} /\ asked' = [asked EXCEPT ![a] = @ + 1]
          /\ UNCHANGED <<receive, data, replies, noted>>
      BY <1>5 DEF Ask
    <2>3. PICK u : u = t
      OBVIOUS
    <2>4. ~Issued(u) /\ Issued(u)' /\ \A w : Issued(w) => Issued(w)'
      BY <2>2, <2>3, NewRequest
    <2>. HIDE DEF t, d
    <2>. QED  BY <2>1, <2>2, <2>3, <2>4, MoreOnWire
  <1>6. ASSUME NEW a \in Agents, ReadReply(a) PROVE Tokens'
    <2>1. PICK d \in wire : /\ wire' = wire \ {d}
                            /\ replies' = [replies EXCEPT ![a] = Append(@, d.transaction)]
      BY <1>6 DEF ReadReply
    <2>. QED  BY <1>6, <2>1, Taken DEF ReadReply
  <1>7. CASE Answer
    <2>1. PICK d \in wire :
            wire' = (wire \ {d}) \cup {Datagram("media", d.from, d.transaction)}
      BY <1>7 DEF Answer
    <2>. DEFINE e == Datagram("media", d.from, d.transaction)
    <2>2. e.transaction = d.transaction
      BY DEF Datagram
    <2>3. wire' = (wire \ {d}) \cup {e} /\ UNCHANGED <<receive, data, replies, asked, noted>>
      BY <1>7, <2>1 DEF Answer
    <2>. HIDE DEF e
    <2>. QED  BY <2>2, <2>3, MovedOnWire
  <1>8. CASE Notify
    <2>. DEFINE t == <<"media", noted + 1>>
                d == Datagram("media", "server", t)
    <2>1. d.transaction = t
      BY DEF Datagram
    <2>2. /\ wire' = wire \cup {d} /\ noted' = noted + 1
          /\ UNCHANGED <<receive, data, replies, asked>>
      BY <1>8 DEF Notify
    <2>3. PICK u : u = t
      OBVIOUS
    <2>4. ~Issued(u) /\ Issued(u)' /\ \A w : Issued(w) => Issued(w)'
      BY <2>2, <2>3, NewNote
    <2>. HIDE DEF t, d
    <2>. QED  BY <2>1, <2>2, <2>3, <2>4, MoreOnWire
  <1>9. CASE Lose
    <2>1. /\ wire' \subseteq wire
          /\ \A s \in Sides : Pending(s)' => Pending(s) /\ data'[s] = data[s]
          /\ UNCHANGED <<replies, asked, noted>>
      BY <1>9 DEF Lose, Pending
    <2>. QED  BY <2>1, LessOnWire
  <1>10. CASE UNCHANGED vars
    <2>1. /\ wire' \subseteq wire
          /\ \A s \in Sides : Pending(s)' => Pending(s) /\ data'[s] = data[s]
          /\ UNCHANGED <<replies, asked, noted>>
      BY <1>10 DEF vars, Pending
    <2>. QED  BY <2>1, LessOnWire
  <1>. QED  BY <1>1, <1>2, <1>3, <1>4, <1>5, <1>6, <1>7, <1>8, <1>9, <1>10 DEF Next

\* Any agents, bounds, losses, errors and restarts: no reply or notification
\* is read twice or by two agents, although a side of the relay that failed
\* still has the last datagram in its buffer (RedirectorMGCP.cpp: the test of
\* ec in the callbacks of async_receive_from).
THEOREM RepliesReadOnce == Spec => []ReadOnce
  <1>1. Init => TypeOK /\ Tokens
    BY TypeOKInit, TokensInit
  <1>2. TypeOK /\ Tokens /\ [Next]_vars => (TypeOK /\ Tokens)'
    BY TypeOKNext, TokensNext
  <1>3. Tokens => ReadOnce
    BY DEF Tokens
  <1>. QED  BY <1>1, <1>2, <1>3, PTL DEF Spec
-----------------------------------------------------------------------------
(* Replies *)

\* An agent asks again only when it has read something.
InTurn ==
    \A a \in Agents : asked[a] = Len(replies[a]) + (IF a \in reading THEN 1 ELSE 0)

RelayInv == TypeOK /\ Tokens /\ InTurn /\ RepliesMatch

LEMMA RelayInvInit == Init => RelayInv
  <1>. SUFFICES ASSUME Init PROVE InTurn /\ RepliesMatch
    BY TypeOKInit, TokensInit DEF RelayInv
  <1>1. \A a \in Agents : Len(replies[a]) = 0 /\ asked[a] = 0 /\ a \notin reading
    BY DEF Init
  <1>2. RepliesMatch
    <2>1. \A a \in Agents : \A k \in 1..Len(replies[a]) : FALSE
      BY <1>1
    <2>. QED  BY <2>1 DEF RepliesMatch
  <1>3. InTurn
    <2>1. ASSUME NEW a \in Agents
          PROVE  asked[a] = Len(replies[a]) + (IF a \in reading THEN 1 ELSE 0)
      <3>1. asked[a] = 0 /\ Len(replies[a]) = 0 /\ (IF a \in reading THEN 1 ELSE 0) = 0
        BY <1>1
      <3>2. 0 = 0 + 0
        OBVIOUS
      <3>. QED  BY <3>1, <3>2, Zenon
    <2>. QED  BY <2>1 DEF InTurn
  <1>. QED  BY <1>2, <1>3

LEMMA InTurnNext == TypeOK /\ InTurn /\ [Next]_vars => InTurn'
  <1>. SUFFICES ASSUME TypeOK, InTurn, [Next]_vars PROVE InTurn'
    OBVIOUS
  <1>0. /\ asked \in [Agents -> Nat] /\ replies \in [Agents -> Seq(Transactions)]
        /\ \A b \in Agents : Len(replies[b]) \in Nat
    BY RelayTypes DEF TypeOK
  <1>1. ASSUME NEW a \in Agents, Ask(a) PROVE InTurn'
    <2>1. /\ asked'[a] = asked[a] + 1 /\ reading' = reading \cup {a} /\ a \notin reading
          /\ replies' = replies /\ \A b \in Agents \ {a} : asked'[b] = asked[b]
      BY <1>0, <1>1 DEF Ask
    <2>. QED  BY <1>0, <2>1 DEF InTurn
  <1>2. ASSUME NEW a \in Agents, ReadReply(a) PROVE InTurn'
    <2>1. PICK t \in Transactions : replies' = [replies EXCEPT ![a] = Append(@, t)]
      <3>1. PICK d \in wire : replies' = [replies EXCEPT ![a] = Append(@, d.transaction)]
        BY <1>2 DEF ReadReply
      <3>2. d.transaction \in Transactions
        BY Routes DEF TypeOK, Travels
      <3>. QED  BY <3>1, <3>2
    <2>2. Len(replies'[a]) = Len(replies[a]) + 1
      BY <1>0, <2>1, AppendProperties
    <2>3. /\ asked' = asked /\ reading' = reading \ {a} /\ a \in reading
          /\ \A b \in Agents \ {a} : replies'[b] = replies[b]
      BY <1>0, <1>2, <2>1 DEF ReadReply
    <2>4. asked'[a] = Len(replies'[a]) + (IF a \in reading' THEN 1 ELSE 0)
      <3>1. asked[a] = Len(replies[a]) + 1
        BY <2>3 DEF InTurn
      <3>2. asked'[a] = asked[a] /\ a \notin reading'
        BY <2>3
      <3>. QED  BY <1>0, <2>2, <3>1, <3>2
    <2>5. ASSUME NEW b \in Agents \ {a}
          PROVE  asked'[b] = Len(replies'[b]) + (IF b \in reading' THEN 1 ELSE 0)
      <3>1. asked[b] = Len(replies[b]) + (IF b \in reading THEN 1 ELSE 0)
        BY DEF InTurn
      <3>2. asked'[b] = asked[b] /\ replies'[b] = replies[b] /\ (b \in reading' <=> b \in reading)
        BY <2>3
      <3>. QED  BY <3>1, <3>2
    <2>. QED  BY <2>4, <2>5 DEF InTurn
  <1>3. CASE UNCHANGED agentVars
    BY <1>3 DEF InTurn, agentVars
  <1>4. ASSUME [Next]_vars, \A a \in Agents : ~Ask(a) /\ ~ReadReply(a)
        PROVE  UNCHANGED agentVars
    BY <1>4 DEF Next, vars, Complete, CompleteFails, Receive, Restart, Answer, Notify, Lose
  <1>. QED  BY <1>1, <1>2, <1>3, <1>4

LEMMA RepliesMatchNext == RelayInv /\ [Next]_vars => RepliesMatch'
  <1>. SUFFICES ASSUME RelayInv, [Next]_vars,
                       NEW a \in Agents, noted' = 0, \A b \in Agents \ {a} : asked'[b] = 0
                PROVE  \A k \in 1..Len(replies'[a]) : replies'[a][k] = <<a, k>>
    BY DEF RepliesMatch
  <1>0. /\ TypeOK /\ Tokens /\ InTurn /\ RepliesMatch
        /\ asked \in [Agents -> Nat] /\ replies \in [Agents -> Seq(Transactions)]
        /\ noted \in Nat
    BY RelayTypes DEF RelayInv, TypeOK
  <1>1. noted = 0 /\ \A b \in Agents \ {a} : asked[b] = 0
    <2>1. noted' \in {noted, noted + 1}
      BY DEF Next, vars, relayVars, agentVars, histories, Complete, CompleteFails,
             Receive, Restart, Ask, ReadReply, Answer, Notify, Lose
    <2>2. \A b \in Agents : asked'[b] \in {asked[b], asked[b] + 1}
      BY <1>0 DEF Next, vars, relayVars, agentVars, histories, Complete, CompleteFails,
             Receive, Restart, Ask, ReadReply, Answer, Notify, Lose
    <2>. QED  BY <1>0, <2>1, <2>2
  <1>2. \A k \in 1..Len(replies[a]) : replies[a][k] = <<a, k>>
    BY <1>0, <1>1 DEF RepliesMatch
  <1>3. CASE replies'[a] = replies[a]
    BY <1>2, <1>3
  <1>4. CASE ReadReply(a)
    <2>1. PICK d \in wire : replies' = [replies EXCEPT ![a] = Append(@, d.transaction)]
      BY <1>4 DEF ReadReply
    <2>. DEFINE t == d.transaction
                m == Len(replies[a])
    <2>2. t \in Transactions /\ m \in Nat
      BY <1>0, Routes DEF TypeOK, Travels
    <2>3. /\ Len(replies'[a]) = m + 1 /\ replies'[a][m + 1] = t
          /\ \A k \in 1..m : replies'[a][k] = replies[a][k]
      BY <1>0, <2>1, <2>2, AppendProperties
    <2>4. asked[a] = m + 1
      BY <1>0, <1>4 DEF InTurn, ReadReply
    <2>5. Issued(t) /\ ~Read(t)
      BY <1>0 DEF Tokens, OnWire
    <2>. HIDE DEF t, m
    <2>6. PICK n \in 1..asked[a] : t = <<a, n>>
      <3>1. PICK b \in Agents : \E n \in 1..asked[b] : t = <<b, n>>
        BY <1>1, <2>5 DEF Issued
      <3>2. b = a
        BY <1>1, <3>1
      <3>. QED  BY <3>1, <3>2
    <2>7. n \notin 1..m
      BY <1>2, <2>5, <2>6 DEF Read, m
    <2>8. n = m + 1
      BY <2>2, <2>4, <2>6, <2>7
    <2>. QED  BY <1>2, <2>2, <2>3, <2>6, <2>8 DEF m
  <1>5. ASSUME [Next]_vars, ~ReadReply(a) PROVE replies'[a] = replies[a]
    BY <1>0, <1>5 DEF Next, vars, relayVars, agentVars, histories, Complete, CompleteFails,
             Receive, Restart, Ask, ReadReply, Answer, Notify, Lose
  <1>. QED  BY <1>3, <1>4, <1>5

\* Any bounds, losses, errors and restarts: as long as one agent asks, and the
\* server only answers, the n-th thing it reads is the reply to its n-th
\* request (CallAgent: send_to, then one receive_from, without a number).
THEOREM RepliesAreRight == Spec => []RepliesMatch
  <1>1. Init => RelayInv
    BY RelayInvInit
  <1>2. RelayInv /\ [Next]_vars => RelayInv'
    BY TypeOKNext, TokensNext, InTurnNext, RepliesMatchNext DEF RelayInv
  <1>3. RelayInv => RepliesMatch
    BY DEF RelayInv
  <1>. QED  BY <1>1, <1>2, <1>3, PTL DEF Spec
=============================================================================
