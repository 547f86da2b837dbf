------------------------------ MODULE MgcpRelay ------------------------------
(***************************************************************************)
(* RedirectorMGCP, which passes UDP datagrams between a switch and a media *)
(* server, with CallAgent processes in the place of the switch.            *)
(*                                                                         *)
(* The relay has two sides, each a port with one receive outstanding.  The *)
(* two callbacks are the same code with the sides exchanged, and run one   *)
(* at a time in io_service::run; a receive that completes stores data and  *)
(* sender before its callback runs.  Addresses: "switch" is port 2427 of   *)
(* the relay, "server" its port 2428, "media" the server's port 2427, and  *)
(* an agent is its own address.  A datagram is its sender, its receiver    *)
(* and the transaction it belongs to: the n-th request of an agent, or a   *)
(* notification.  The server and the network are external; the network     *)
(* reorders and loses, but does not repeat.                                *)
(***************************************************************************)
EXTENDS Naturals, Sequences

CONSTANTS
    Agents,       (* the CallAgent processes                               *)
    MaxRequests,  (* bound: the requests of an agent                       *)
    MaxNotes,     (* bound: the datagrams the server sends unasked         *)
    MaxRestarts   (* bound: how often the relay is started again           *)

ASSUME RelayAssumption ==
    /\ {"switch", "server", "media", "nobody"} \cap Agents = {}
    /\ {MaxRequests, MaxNotes, MaxRestarts} \subseteq Nat

Sides == {"switch", "server"}
Other(side) == IF side = "switch" THEN "server" ELSE "switch"
Transactions == ((Agents \cup {"media"}) \X Nat) \cup {<<>>}

VARIABLES
    running,   (* the relay is in io_service::run                          *)
    receive,   (* per side: armed, completed, failed (ec is set), or ended *)
    data,      (* RedirectSwitchData, RedirectServerData                   *)
    location,  (* SwitchLocation, ServerLocation                           *)
    restarts,  (* history: how often the relay was started again           *)
    wire,      (* the datagrams on their way or in the buffer of a socket  *)
    asked,     (* history: how many requests each agent has sent           *)
    reading,   (* the agents in receive_from                               *)
    replies,   (* history: the transactions of the replies, per agent      *)
    noted,     (* history: how many notifications the server has sent      *)
    faulty     (* history: something was lost, failed or started again     *)

relayVars == <<running, receive, data, location, restarts>>
agentVars == <<asked, reading, replies>>
histories == <<noted, faulty>>
vars == <<relayVars, wire, agentVars, histories>>

Datagram(from, to, transaction) ==
    [from |-> from, to |-> to, transaction |-> transaction]

\* A datagram travels between neighbours only, the server stays where it is,
\* and the switch is an agent or not known.
TypeOK ==
    /\ running \in BOOLEAN
    /\ receive \in [Sides -> {"armed", "completed", "failed", "ended"}]
    /\ data \in [Sides -> Transactions]
    /\ location["switch"] \in Agents \cup {"nobody"}
    /\ location["server"] = "media"
    /\ restarts \in 0..MaxRestarts
    /\ DOMAIN location = Sides
    /\ wire \subseteq [from : Agents, to : {"switch"}, transaction : Transactions]
            \cup [from : {"server"}, to : {"media"}, transaction : Transactions]
            \cup [from : {"media"}, to : {"server"}, transaction : Transactions]
            \cup [from : {"switch"}, to : Agents, transaction : Transactions]
    /\ asked \in [Agents -> 0..MaxRequests]
    /\ reading \subseteq Agents
    /\ replies \in [Agents -> Seq(Transactions)]
    /\ noted \in 0..MaxNotes
    /\ faulty \in BOOLEAN

Init ==
    /\ running = TRUE
    /\ receive = [side \in Sides |-> "armed"]
    /\ data = [side \in Sides |-> <<>>]
    /\ location = [side \in Sides |-> IF side = "server" THEN "media"
                                                         ELSE "nobody"]
    /\ restarts = 0
    /\ wire = {}
    /\ asked = [a \in Agents |-> 0]
    /\ reading = {}
    /\ replies = [a \in Agents |-> <<>>]
    /\ noted = 0
    /\ faulty = FALSE
-----------------------------------------------------------------------------
(* The relay. *)

\* The sender is stored as the location of the other side.
CompleteSwapped(side) ==
    /\ running
    /\ receive[side] = "armed"
    /\ \E d \in wire :
          /\ d.to = side
          /\ wire' = wire \ {d}
          /\ data' = [data EXCEPT ![side] = d.transaction]
          /\ location' = [location EXCEPT ![Other(side)] = d.from]
    /\ receive' = [receive EXCEPT ![side] = "completed"]
    /\ UNCHANGED <<running, restarts, agentVars, histories>>

\* async_receive_from completes: the sender becomes the location of its side.
Complete(side) ==
    /\ running
    /\ receive[side] = "armed"
    /\ \E d \in wire :
          /\ d.to = side
          /\ wire' = wire \ {d}
          /\ data' = [data EXCEPT ![side] = d.transaction]
          /\ location' = [location EXCEPT ![side] = d.from]
    /\ receive' = [receive EXCEPT ![side] = "completed"]
    /\ UNCHANGED <<running, restarts, agentVars, histories>>

\* async_receive_from completes with an error, as it does on Windows when an
\* earlier send met a closed port.
CompleteFails(side) ==
    /\ running
    /\ receive[side] = "armed"
    /\ receive' = [receive EXCEPT ![side] = "failed"]
    /\ faulty' = TRUE
    /\ UNCHANGED <<running, data, location, restarts, wire, agentVars, noted>>

\* send_to throws, as it must when no datagram has come from that side yet:
\* nobody catches it and the process ends.
SendThrows ==
    /\ running' = FALSE
    /\ faulty' = TRUE
    /\ UNCHANGED <<receive, data, location, restarts, wire>>

\* send_to and the next async_receive_from.
PassOn(side) ==
    /\ location[Other(side)] # "nobody"
    /\ wire' = wire \cup
          {Datagram(Other(side), location[Other(side)], data[side])}
    /\ receive' = [receive EXCEPT ![side] = "armed"]
    /\ UNCHANGED <<running, data, location, restarts, faulty>>

\* if (!ec) is missing.
ReceiveUnchecked(side) ==
    /\ running
    /\ receive[side] \in {"completed", "failed"}
    /\ PassOn(side) \/ SendThrows
    /\ UNCHANGED <<agentVars, noted>>

\* The datagram is passed on, but nothing is received after it.
ReceiveOnce(side) ==
    /\ running
    /\ receive[side] = "completed"
    /\ location[Other(side)] # "nobody"
    /\ wire' = wire \cup
          {Datagram(Other(side), location[Other(side)], data[side])}
    /\ receive' = [receive EXCEPT ![side] = "ended"]
    /\ UNCHANGED <<running, data, location, restarts, agentVars, histories>>

\* ReceiveSwitch and ReceiveServer: after an error this side stays silent.
Receive(side) ==
    /\ running
    /\ \/ /\ receive[side] = "completed"
          /\ PassOn(side) \/ SendThrows
       \/ /\ receive[side] = "failed"
          /\ receive' = [receive EXCEPT ![side] = "ended"]
          /\ UNCHANGED <<running, data, location, restarts, wire, faulty>>
    /\ UNCHANGED <<agentVars, noted>>

\* The relay is ended, if it still runs, and main starts again: what was in
\* its sockets is gone, and so is the address of the switch.
Restart ==
    /\ restarts < MaxRestarts
    /\ restarts' = restarts + 1
    /\ faulty' = TRUE
    /\ running' = TRUE
    /\ receive' = [side \in Sides |-> "armed"]
    /\ data' = [side \in Sides |-> <<>>]
    /\ location' = [side \in Sides |-> IF side = "server" THEN "media"
                                                          ELSE "nobody"]
    /\ \E kept \in SUBSET {d \in wire : d.to \in Sides} :
          wire' = {d \in wire : d.to \notin Sides} \cup kept
    /\ UNCHANGED <<agentVars, noted>>
-----------------------------------------------------------------------------
(* The agents, the server and the network. *)

\* send_to, then receive_from, which waits without a limit.
Ask(a) ==
    /\ a \notin reading
    /\ asked[a] < MaxRequests
    /\ asked' = [asked EXCEPT ![a] = @ + 1]
    /\ reading' = reading \cup {a}
    /\ wire' = wire \cup {Datagram(a, "switch", <<a, asked[a] + 1>>)}
    /\ UNCHANGED <<relayVars, replies, histories>>

\* receive_from returns with any datagram, whoever sent it.
ReadReply(a) ==
    /\ a \in reading
    /\ \E d \in wire :
          /\ d.to = a
          /\ wire' = wire \ {d}
          /\ replies' = [replies EXCEPT ![a] = Append(@, d.transaction)]
    /\ reading' = reading \ {a}
    /\ UNCHANGED <<relayVars, asked, histories>>

\* The server answers a request to the address it came from.
Answer ==
    /\ \E d \in wire :
          /\ d.to = "media"
          /\ wire' = (wire \ {d}) \cup
                     {Datagram("media", d.from, d.transaction)}
    /\ UNCHANGED <<relayVars, agentVars, histories>>

\* The server sends a notification.
Notify ==
    /\ noted < MaxNotes
    /\ noted' = noted + 1
    /\ wire' = wire \cup {Datagram("media", "server", <<"media", noted + 1>>)}
    /\ UNCHANGED <<relayVars, agentVars, faulty>>

Lose ==
    /\ \E d \in wire : wire' = wire \ {d}
    /\ faulty' = TRUE
    /\ UNCHANGED <<relayVars, agentVars, noted>>
-----------------------------------------------------------------------------
Next ==
    \/ \E side \in Sides : Complete(side) \/ CompleteFails(side) \/ Receive(side)
    \/ Restart
    \/ \E a \in Agents : Ask(a) \/ ReadReply(a)
    \/ Answer \/ Notify \/ Lose

Spec == Init /\ [][Next]_vars

\* The event loop of the relay, the server, and agents that wait for a reply
\* go on; nothing makes an agent ask or the server notify.
Fairness ==
    /\ \A side \in Sides : WF_vars(Complete(side)) /\ WF_vars(Receive(side))
    /\ \A a \in Agents : WF_vars(ReadReply(a))
    /\ WF_vars(Answer)

FairSpec == Spec /\ Fairness
-----------------------------------------------------------------------------
(* Properties *)

\* A reply, and a notification, is read once at most, by one agent, although
\* the relay keeps the last datagram in its buffer, fails and is restarted.
ReadOnce ==
    \A a, b \in Agents : \A j \in 1..Len(replies[a]), k \in 1..Len(replies[b]) :
        replies[a][j] = replies[b][k] => a = b /\ j = k

\* An agent takes the first datagram that comes for the reply to its request.
\* As long as no other agent has asked through this relay, and the server only
\* answers, it is right, whatever is lost and whenever the relay is restarted.
RepliesMatch ==
    \A a \in Agents :
      noted = 0 /\ (\A b \in Agents \ {a} : asked[b] = 0) =>
        \A k \in 1..Len(replies[a]) : replies[a][k] = <<a, k>>

Reached(a, transaction) ==
    \/ \E k \in 1..Len(replies[a]) : replies[a][k] = transaction
    \/ \E d \in wire : d.to = a /\ d.transaction = transaction

\* When nothing fails the answer to every request comes out of the relay on
\* the side of the agents, if only at the agent that was heard of last.  (A
\* notification before the first request is a failure: it ends the relay.)
EveryRequestAnswered ==
    \A a \in Agents : \A n \in 1..MaxRequests :
        asked[a] >= n ~> (faulty \/ \E b \in Agents : Reached(b, <<a, n>>))
=============================================================================
