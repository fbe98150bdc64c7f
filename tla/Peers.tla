------------------------------- MODULE Peers --------------------------------
(***************************************************************************)
(* The peer discovery of one node: the provider's loop and its table       *)
(* (p2p/peer), among remote nodes that come and go, over UDP packets that  *)
(* are lost, duplicated, delayed and reordered.                            *)
(*                                                                         *)
(* Time is discrete and relative: every time the code stores is kept as    *)
(* its age, up to the age beyond which it is the same to the code. One unit*)
(* is one period of the task ticker. A ping is its version, its time in    *)
(* seconds and the sender's key, so all pings of one task have the same    *)
(* hash, and the age of the ping stands for the hash.                      *)
(*                                                                         *)
(* Abstracted: a remote node is its ID and its address; coolingPeers, which*)
(* nothing ever fills, is left out.                                        *)
(***************************************************************************)
EXTENDS Integers, FiniteSets

CONSTANTS
  Self,          \* this node
  Peer,          \* the other nodes
  Seed,          \* those in the configuration
  Known,         \* those that may have pinged this node before its first task
  Discard,       \* msgDiscardTime
  PingInterval, Expired, GetInterval,  \* of pstate.go
  MaxDelay,      \* bound: the age of a packet on the network
  MaxFlight,     \* bound: packets on the network
  MaxFaults      \* bound: packets lost or duplicated, nodes that change

ASSUME Times ==
  /\ {Discard, PingInterval, Expired, GetInterval, MaxDelay, MaxFlight}
       \subseteq Nat \ {0}
  /\ MaxFaults \in Nat
  /\ Discard < Expired /\ PingInterval < Expired
  /\ Seed \subseteq Peer /\ Known \subseteq Peer /\ Self \notin Peer

VARIABLES
  seeds,         \* addresses of seeds that have not answered
  peers,         \* the table: a pstate for each of some peers
  pingHash,      \* the pings without answer
  flight,        \* packets on the network
  toTask,        \* whether the task ticker has fired in this unit
  answer,        \* the answer to the last question for neighbours
  up,            \* whether a remote node runs
  spoke,         \* age of the last pong that a remote node has sent
  faults         \* counter for the bound

table == <<seeds, peers>>
remote == <<up, spoke>>
vars == <<table, pingHash, flight, toTask, answer, remote, faults>>

Older(age, max) == IF age < max THEN age + 1 ELSE max

-----------------------------------------------------------------------------
(* The table *)

newPState(isSeed) ==
  [isSeed |-> isSeed, hasPingBefore |-> FALSE,
   lastActiveTime |-> Expired, lastGetNeighbourTime |-> GetInterval]

\* Mutant: a peer that is not available is not pinged.
isTimeToPing_active(s) ==
  s.lastActiveTime >= PingInterval /\ s.lastActiveTime < Expired

isTimeToPing(s) == s.lastActiveTime >= PingInterval
isAvaible(s) == s.lastActiveTime < Expired
isTimeToGetNeighbours(s) == s.lastGetNeighbourTime >= GetInterval

\* Mutant: a peer that was not pinged yet is removed, too, and so is a seed.
isToRemove_seed(s) == ~isAvaible(s) /\ s.hasPingBefore

isToRemove(s) == ~isAvaible(s) /\ s.hasPingBefore /\ ~s.isSeed

New(ps) == ps \ {Self}

\* addPeers and add: what is in the table already stays as it is, and this
\* node does not enter its own table.
addPeers(ps, isSeed) ==
  peers' = [p \in DOMAIN peers \cup New(ps) |->
              IF p \in DOMAIN peers THEN peers[p] ELSE newPState(isSeed)]

getPeers(exclude) == {p \in DOMAIN peers \ exclude : isAvaible(peers[p])}

recvPing(p) == addPeers({p}, FALSE) /\ UNCHANGED seeds

\* A peer of the table is active now; the answer of a seed adds it.
recvPong(p) ==
  LET active(s) == [s EXCEPT !.lastActiveTime = 0]
  IN  IF p \in DOMAIN peers
      THEN /\ peers' = [peers EXCEPT ![p] = active(@)]
           /\ UNCHANGED seeds
      ELSE IF p \in seeds
      THEN /\ peers' = [q \in DOMAIN peers \cup {p} |->
                IF q = p THEN active(newPState(TRUE)) ELSE peers[q]]
           /\ seeds' = seeds \ {p}
      ELSE UNCHANGED table

-----------------------------------------------------------------------------
(* The network *)

Msg(type, p) == [type |-> type, peer |-> p, age |-> 0]
Pong(p, ping) == [type |-> "Pong", peer |-> p, age |-> 0, ping |-> ping]
Neighbours(p, nodes) == [type |-> "Neighbours", peer |-> p, age |-> 0, nodes |-> nodes]

\* send drops what is too much for the queue.
Sent(in, msgs) == IF Cardinality(in \cup msgs) <= MaxFlight THEN in \cup msgs ELSE in

\* A packet is taken from the network; it may arrive once more.
Take(m, msgs) ==
  \/ flight' = Sent(flight \ {m}, msgs) /\ UNCHANGED faults
  \/ faults < MaxFaults /\ flight' = Sent(flight, msgs) /\ faults' = faults + 1

Lose(m) ==
  /\ faults < MaxFaults
  /\ flight' = flight \ {m} /\ faults' = faults + 1
  /\ UNCHANGED <<table, pingHash, toTask, answer, remote>>

-----------------------------------------------------------------------------
(* The provider's loop *)

ToPing == {p \in DOMAIN peers : isTimeToPing(peers[p])}
ToAsk == {p \in DOMAIN peers : isTimeToGetNeighbours(peers[p])}

\* The task ticker: ping, then getNeighbours. Seeds are pinged every time.
Task ==
  /\ toTask
  /\ peers' = [p \in DOMAIN peers |->
       [peers[p] EXCEPT
          !.hasPingBefore = @ \/ p \in ToPing,
          !.lastGetNeighbourTime = IF p \in ToAsk THEN 0 ELSE @]]
  /\ flight' = Sent(Sent(flight, {Msg("ToPing", p) : p \in ToPing \cup seeds}),
                    {Msg("ToAsk", p) : p \in ToAsk})
  /\ pingHash' = pingHash \cup (IF ToPing \cup seeds = {} THEN {} ELSE {0})
  /\ toTask' = FALSE
  /\ answer' = {}
  /\ UNCHANGED <<seeds, remote, faults>>

\* The refresh ticker, which fires now and then.
refresh ==
  /\ peers' = [p \in {q \in DOMAIN peers : ~isToRemove(peers[q])} |-> peers[p]]
  /\ UNCHANGED <<seeds, pingHash, flight, toTask, answer, remote, faults>>

\* Mutant: the time in the head is not looked at.
Accepted_any(m) == TRUE

\* handleRecv ignores packets from long ago.
Accepted(m) == m.age <= Discard

Ignore(m) ==
  /\ m.type \notin {"ToPing", "ToAsk"} /\ ~Accepted(m)
  /\ Take(m, {})
  /\ UNCHANGED <<table, pingHash, toTask, answer, remote>>

\* The pong that is sent back concerns the remote node's table only.
handlePing(m) ==
  /\ m.type = "Ping" /\ Accepted(m)
  /\ Take(m, {}) /\ recvPing(m.peer)
  /\ UNCHANGED <<pingHash, toTask, answer, remote>>

\* The first pong for a hash takes the entry; the others are ignored.
handlePong(m) ==
  /\ m.type = "Pong" /\ Accepted(m)
  /\ Take(m, {})
  /\ pingHash' = pingHash \ {m.ping}
  /\ IF m.ping \in pingHash THEN recvPong(m.peer) ELSE UNCHANGED table
  /\ UNCHANGED <<toTask, answer, remote>>

\* The neighbours that p is told of; they are told of p.
Answer(p) == [to |-> p, nodes |-> getPeers({p})]

handleGetNeigoubours(m) ==
  /\ m.type = "GetNeighbours" /\ Accepted(m)
  /\ Take(m, {})
  /\ answer' = IF m.peer \in DOMAIN peers THEN {Answer(m.peer)} ELSE answer
  /\ UNCHANGED <<table, pingHash, toTask, remote>>

handleNeigoubours(m) ==
  /\ m.type = "Neighbours" /\ Accepted(m)
  /\ Take(m, {}) /\ addPeers(m.nodes, FALSE)
  /\ UNCHANGED <<seeds, pingHash, toTask, answer, remote>>

-----------------------------------------------------------------------------
(* The other nodes run the same code *)

\* A remote node answers a packet of this node.
Respond(m) ==
  /\ m.type \in {"ToPing", "ToAsk"}
  /\ IF up[m.peer] /\ Accepted(m)
     THEN IF m.type = "ToPing"
          THEN /\ Take(m, {Pong(m.peer, m.age)})
               /\ spoke' = [spoke EXCEPT ![m.peer] = 0]
          ELSE /\ \E nodes \in SUBSET ((Peer \cup {Self}) \ {m.peer}) :
                    Take(m, {Neighbours(m.peer, nodes)})
               /\ UNCHANGED spoke
     ELSE Take(m, {}) /\ UNCHANGED spoke
  /\ UNCHANGED <<table, pingHash, toTask, answer, up>>

\* A remote node starts to talk to this one.
Approach(p) ==
  /\ up[p] /\ Cardinality(flight) < MaxFlight /\ faults < MaxFaults
  /\ \E type \in {"Ping", "GetNeighbours"} : flight' = flight \cup {Msg(type, p)}
  /\ faults' = faults + 1
  /\ UNCHANGED <<table, pingHash, toTask, answer, remote>>

\* A remote node stops or starts.
Switch(p) ==
  /\ faults < MaxFaults /\ faults' = faults + 1
  /\ up' = [up EXCEPT ![p] = ~@]
  /\ UNCHANGED <<table, pingHash, flight, toTask, answer, spoke>>

-----------------------------------------------------------------------------

\* A unit of time passes, once the tickers that are due have been served.
\* No packet lasts longer than MaxDelay. A ping is forgotten when no packet
\* can name it any more.
Elapse ==
  /\ ~toTask
  /\ \A m \in flight : m.age < MaxDelay
  /\ peers' = [p \in DOMAIN peers |->
       [peers[p] EXCEPT !.lastActiveTime = Older(@, Expired),
                        !.lastGetNeighbourTime = Older(@, GetInterval)]]
  /\ pingHash' = {a + 1 : a \in pingHash} \ {Discard + MaxDelay + 1}
  /\ flight' = {[m EXCEPT !.age = @ + 1] : m \in {x \in flight : x.type # "Pong"}}
                 \cup {[m EXCEPT !.age = @ + 1, !.ping = @ + 1] :
                         m \in {x \in flight : x.type = "Pong"}}
  /\ toTask' = TRUE
  /\ answer' = {}
  /\ spoke' = [p \in Peer |-> Older(spoke[p], Expired + Discard)]
  /\ UNCHANGED <<seeds, up, faults>>

\* NewProvider, AddSeeds and the pings that have come already.
Init ==
  /\ seeds = Seed
  /\ \E known \in SUBSET Known : peers = [p \in known |-> newPState(FALSE)]
  /\ pingHash = {} /\ flight = {} /\ answer = {}
  /\ toTask = TRUE
  /\ up \in [Peer -> BOOLEAN]
  /\ spoke = [p \in Peer |-> Expired + Discard]
  /\ faults = 0

handleRecv(m) ==
  \/ Ignore(m) \/ handlePing(m) \/ handlePong(m)
  \/ handleGetNeigoubours(m) \/ handleNeigoubours(m)

Next ==
  \/ Task \/ refresh \/ Elapse
  \/ \E m \in flight : handleRecv(m) \/ Respond(m) \/ Lose(m)
  \/ \E p \in Peer : Approach(p) \/ Switch(p)

Spec == Init /\ [][Next]_vars

\* Time passes, the loop serves its tickers, packets arrive or are lost.
Fairness ==
  /\ WF_vars(Task) /\ WF_vars(refresh) /\ WF_vars(Elapse)
  /\ WF_vars(\E m \in flight : handleRecv(m) \/ Respond(m))

FairSpec == Spec /\ Fairness

-----------------------------------------------------------------------------
(* Properties *)

PState == [isSeed : BOOLEAN, hasPingBefore : BOOLEAN,
           lastActiveTime : 0 .. Expired, lastGetNeighbourTime : 0 .. GetInterval]

\* Types; this node is not in its own table.
TypeOK ==
  /\ seeds \subseteq Seed
  /\ DOMAIN peers \subseteq Peer /\ peers \in [DOMAIN peers -> PState]
  /\ pingHash \subseteq 0 .. Discard + MaxDelay
  /\ \A m \in flight : m.peer \in Peer /\ m.age \in 0 .. MaxDelay
  /\ toTask \in BOOLEAN
  /\ up \in [Peer -> BOOLEAN]

\* pstate.go:20: a seed is never forgotten. Its address is still pinged with
\* the seeds, or it is a peer that refresh does not remove, also when the
\* seed was first known by its own ping or by the word of a neighbour.
SeedKept ==
  \A p \in Seed : p \in seeds \/ (p \in DOMAIN peers /\ peers[p].isSeed)

\* A peer is handed out, to the node or to neighbours who ask, only when it
\* has sent a pong within peerExpiredTime and the time a packet may take,
\* however packets were delayed, duplicated or reordered.
FreshlyAlive ==
  /\ \A p \in getPeers({}) : spoke[p] < Expired + Discard
  /\ \A a \in answer : a.to \notin a.nodes
                         /\ \A p \in a.nodes : spoke[p] < Expired + Discard

\* A node that is down for good is not taken for available any more, and if
\* it is not a seed the table drops it whenever a neighbour names it again.
SilentLeave ==
  \A p \in Peer :
    <>[](~up[p]) => /\ <>[](p \notin getPeers({}))
                    /\ p \in Seed \/ []<>(p \notin DOMAIN peers)
=============================================================================
