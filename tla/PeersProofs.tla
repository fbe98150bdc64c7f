---------------------------- MODULE PeersProofs -----------------------------
(***************************************************************************)
(* Proofs about Peers, for every set of peers and seeds, every length of   *)
(* the intervals, and any number of packets lost, duplicated or delayed.   *)
(*                                                                         *)
(* The code keeps the time at which a pong was handled, not the time at    *)
(* which the peer sent it. The two are tied by what the network holds: a   *)
(* pong on its way is at least as old as the word of its sender (Answered),*)
(* and a pong that is taken is not older than msgDiscardTime, so the peer  *)
(* of a pstate has spoken at most that much earlier (Spoken).              *)
(***************************************************************************)
EXTENDS Peers, TLAPS

\* What is on the network.
Plain == [type : {"ToPing", "ToAsk", "Ping", "GetNeighbours"},
          peer : Peer, age : 0 .. MaxDelay]
Pongs == [type : {"Pong"}, peer : Peer, age : 0 .. MaxDelay, ping : Nat]
Told == [type : {"Neighbours"}, peer : Peer, age : 0 .. MaxDelay,
         nodes : SUBSET (Peer \cup {Self})]
Packet == Plain \cup Pongs \cup Told

Types ==
  /\ TypeOK
  /\ flight \subseteq Packet
  /\ spoke \in [Peer -> 0 .. Expired + Discard]

\* A pong on its way was sent at its age, or its sender has sent one since.
Answered == \A m \in flight : m.type = "Pong" => spoke[m.peer] <= m.age

\* The peer of a pstate that counts as active has spoken at most
\* msgDiscardTime before the pong was handled.
Spoken ==
  \A p \in DOMAIN peers :
    isAvaible(peers[p]) => spoke[p] <= peers[p].lastActiveTime + Discard

\* An answer that was given in this unit names peers that were available.
Named ==
  \A a \in answer : a.to \notin a.nodes
                      /\ \A p \in a.nodes : p \in Peer /\ spoke[p] < Expired + Discard

Inv == Types /\ Answered /\ Spoken /\ Named /\ SeedKept

-----------------------------------------------------------------------------
(* Lemmas *)

\* The ages.
LEMMA OlderAge ==
  ASSUME NEW max \in Nat, NEW a \in 0 .. max
  PROVE  /\ Older(a, max) \in 0 .. max
         /\ Older(a, max) <= a + 1 /\ a <= Older(a, max)
         /\ Older(a, max) < max => Older(a, max) = a + 1
BY DEF Older

\* What the assumption on times and addresses says.
LEMMA Constants ==
  /\ Discard \in Nat /\ Expired \in Nat /\ GetInterval \in Nat /\ PingInterval \in Nat
  /\ MaxDelay \in Nat /\ MaxFlight \in Nat /\ Discard > 0
  /\ Self \notin Peer /\ Seed \subseteq Peer /\ Known \subseteq Peer
BY Times

\* A new entry of the table is typed and is handed out to nobody.
LEMMA NewPStateType ==
  ASSUME NEW b \in BOOLEAN
  PROVE  /\ newPState(b) \in PState
         /\ ~isAvaible(newPState(b)) /\ newPState(b).isSeed = b
BY Constants DEF newPState, PState, isAvaible

\* send: nothing is on the network that was not there or was not sent.
LEMMA SentWithin ==
  ASSUME NEW in, NEW msgs
  PROVE  Sent(in, msgs) \subseteq in \cup msgs
BY DEF Sent

\* Handling a datagram leaves on the network what was there and the answers.
LEMMA TakeWithin ==
  ASSUME NEW m, NEW msgs, Take(m, msgs)
  PROVE  flight' \subseteq flight \cup msgs
<1>1. CASE flight' = Sent(flight \ {m}, msgs)
  BY <1>1, SentWithin
<1>2. CASE flight' = Sent(flight, msgs)
  BY <1>2, SentWithin
<1> QED
  BY <1>1, <1>2 DEF Take

\* The fields of a packet, by its type.
LEMMA PacketFields ==
  ASSUME NEW m \in Packet
  PROVE  /\ m.peer \in Peer /\ m.age \in 0 .. MaxDelay
         /\ m.type \in {"ToPing", "ToAsk", "Ping", "GetNeighbours", "Pong", "Neighbours"}
         /\ m.type = "Pong" => m \in Pongs
         /\ m.type = "Neighbours" => m \in Told
         /\ m.type \notin {"Pong", "Neighbours"} => m \in Plain
<1>1. CASE m \in Plain
  BY <1>1 DEF Plain
<1>2. CASE m \in Pongs
  BY <1>2 DEF Pongs
<1>3. CASE m \in Told
  <2> DEFINE S == SUBSET (Peer \cup {Self})
  <2>1. m \in [type : {"Neighbours"}, peer : Peer, age : 0 .. MaxDelay, nodes : S]
    BY <1>3 DEF Told
  <2> HIDE DEF S
  <2>2. m.peer \in Peer /\ m.age \in 0 .. MaxDelay /\ m.type = "Neighbours"
    BY <2>1
  <2> QED
    BY <2>2, <1>3
<1> QED
  BY <1>1, <1>2, <1>3 DEF Packet

\* A unit of time makes every packet older and nothing else.
LEMMA OlderPacket ==
  ASSUME NEW m \in Packet, m.age < MaxDelay
  PROVE  /\ m.type # "Pong" => [m EXCEPT !.age = @ + 1] \in Packet
         /\ m.type # "Pong" => [m EXCEPT !.age = @ + 1].type = m.type
         /\ m.type = "Pong" =>
              LET o == [m EXCEPT !.age = @ + 1, !.ping = @ + 1]
              IN  o \in Packet /\ o.peer = m.peer /\ o.age = m.age + 1
<1>1. CASE m \in Plain
  BY <1>1, Constants DEF Plain, Packet
<1>2. CASE m \in Pongs
  <2> DEFINE o == [m EXCEPT !.age = @ + 1, !.ping = @ + 1]
  <2>1. m.type = "Pong" /\ m.age \in 0 .. MaxDelay /\ m.ping \in Nat
    BY <1>2 DEF Pongs
  <2>2. ASSUME NEW a \in 0 .. MaxDelay, NEW b \in Nat
        PROVE  LET e == [[m EXCEPT !.age = a] EXCEPT !.ping = b]
               IN  e \in Pongs /\ e.peer = m.peer /\ e.age = a
    BY <1>2 DEF Pongs
  <2>3. o = [[m EXCEPT !.age = m.age + 1] EXCEPT !.ping = m.ping + 1]
    BY <1>2 DEF Pongs
  <2>4. m.age + 1 \in 0 .. MaxDelay /\ m.ping + 1 \in Nat
    BY <2>1, Constants
  <2>5. o \in Pongs /\ o.peer = m.peer /\ o.age = m.age + 1
    BY <2>2, <2>3, <2>4
  <2> QED
    BY <2>1, <2>5 DEF Packet
<1>3. CASE m \in Told
  <2> DEFINE S == SUBSET (Peer \cup {Self})
             T == [type : {"Neighbours"}, peer : Peer, age : 0 .. MaxDelay, nodes : S]
  <2>1. m \in T /\ T = Told
    BY <1>3 DEF Told
  <2> HIDE DEF S
  <2>2. /\ [m EXCEPT !.age = @ + 1] \in T
        /\ [m EXCEPT !.age = @ + 1].type = m.type /\ m.type = "Neighbours"
    BY <2>1, Constants
  <2> QED
    BY <2>1, <2>2 DEF Packet
<1> QED
  BY <1>1, <1>2, <1>3 DEF Packet

\* Packets that are sent, lost or duplicated, and peers that speak again.
LEMMA FlightKept ==
  ASSUME Types, Answered, Named, answer' = answer,
         spoke' \in [Peer -> 0 .. Expired + Discard],
         \A p \in Peer : spoke'[p] <= spoke[p],
         flight' \subseteq
           flight \cup {m \in Packet : m.type = "Pong" => spoke'[m.peer] <= m.age}
  PROVE  flight' \subseteq Packet /\ Answered' /\ Named'
<1>1. flight' \subseteq Packet
  BY DEF Types
<1>2. Answered'
  <2> SUFFICES ASSUME NEW m \in flight', m.type = "Pong"
               PROVE  spoke'[m.peer] <= m.age
    BY DEF Answered
  <2>1. m.peer \in Peer /\ m.age \in 0 .. MaxDelay
    BY <1>1, PacketFields
  <2>2. CASE m \in flight
    <3>1. spoke[m.peer] <= m.age
      BY <2>2 DEF Answered
    <3>2. spoke[m.peer] \in Nat /\ spoke'[m.peer] \in Nat /\ m.age \in Nat
      BY <2>1, Constants DEF Types
    <3> QED
      BY <2>1, <3>1, <3>2
  <2> QED
    BY <2>2
<1>3. Named'
  <2> SUFFICES ASSUME NEW a \in answer
               PROVE  a.to \notin a.nodes
                        /\ \A p \in a.nodes : p \in Peer /\ spoke'[p] < Expired + Discard
    BY DEF Named
  <2>1. \A p \in Peer : spoke[p] \in Nat /\ spoke'[p] \in Nat /\ spoke'[p] <= spoke[p]
    BY Constants DEF Types
  <2> QED
    BY <2>1, Constants DEF Named
<1> QED
  BY <1>1, <1>2, <1>3

\* addPeers: the newcomers are not available yet, and no seed is displaced.
LEMMA AddPeersKeeps ==
  ASSUME Types, Spoken, SeedKept, NEW ps \in SUBSET (Peer \cup {Self}),
         addPeers(ps, FALSE), seeds' = seeds, spoke' = spoke
  PROVE  /\ DOMAIN peers' \subseteq Peer /\ peers' \in [DOMAIN peers' -> PState]
         /\ Spoken' /\ SeedKept'
<1>1. /\ DOMAIN peers' = DOMAIN peers \cup New(ps)
      /\ \A p \in DOMAIN peers' :
           peers'[p] = IF p \in DOMAIN peers THEN peers[p] ELSE newPState(FALSE)
      /\ peers' = [p \in DOMAIN peers' |-> peers'[p]]
  BY DEF addPeers
<1>2. New(ps) \subseteq Peer
  BY DEF New
<1>3. \A p \in DOMAIN peers : peers[p] \in PState
  BY DEF Types, TypeOK
<1>4. \A p \in DOMAIN peers' : peers'[p] \in PState
  BY <1>1, <1>3, NewPStateType
<1>5. peers' \in [DOMAIN peers' -> PState]
  BY <1>1, <1>4
<1>6. DOMAIN peers' \subseteq Peer
  BY <1>1, <1>2 DEF Types, TypeOK
<1>7. Spoken'
  BY <1>1, NewPStateType DEF Spoken, isAvaible
<1>8. SeedKept'
  BY <1>1 DEF SeedKept
<1> QED
  BY <1>5, <1>6, <1>7, <1>8

\* recvPong: an address leaves the seeds only when the peer enters the table
\* as a seed.
LEMMA RecvPongKeeps ==
  ASSUME Types, Spoken, SeedKept, NEW p \in Peer, spoke[p] <= Discard,
         recvPong(p), spoke' = spoke
  PROVE  /\ DOMAIN peers' \subseteq Peer /\ peers' \in [DOMAIN peers' -> PState]
         /\ seeds' \subseteq Seed /\ Spoken' /\ SeedKept'
<1> DEFINE active(s) == [s EXCEPT !.lastActiveTime = 0]
<1>1. ASSUME NEW s \in PState
      PROVE  /\ active(s) \in PState /\ active(s).lastActiveTime = 0
             /\ active(s).isSeed = s.isSeed
  BY Constants DEF PState
<1>2. \A q \in DOMAIN peers : peers[q] \in PState
  BY DEF Types, TypeOK
<1> HIDE DEF active
<1>3. CASE p \in DOMAIN peers
  <2>1. /\ peers' = [peers EXCEPT ![p] = active(peers[p])]
        /\ seeds' = seeds
    BY <1>3 DEF recvPong, active
  <2>2. /\ DOMAIN peers' = DOMAIN peers
        /\ peers' \in [DOMAIN peers -> PState]
        /\ \A q \in DOMAIN peers :
             peers'[q] = IF q = p THEN active(peers[p]) ELSE peers[q]
    BY <2>1, <1>1, <1>2, <1>3 DEF Types, TypeOK
  <2>3. Spoken'
    <3> SUFFICES ASSUME NEW q \in DOMAIN peers, isAvaible(peers'[q])
                 PROVE  spoke[q] <= peers'[q].lastActiveTime + Discard
      BY <2>2 DEF Spoken, isAvaible
    <3>1. CASE q = p
      BY <3>1, <2>2, <1>1, <1>2, Constants
    <3>2. CASE q # p
      BY <3>2, <2>2 DEF Spoken
    <3> QED
      BY <3>1, <3>2
  <2>4. SeedKept'
    BY <2>1, <2>2, <1>1, <1>2 DEF SeedKept
  <2> QED
    BY <2>1, <2>2, <2>3, <2>4 DEF Types, TypeOK
<1>4. CASE p \notin DOMAIN peers /\ p \in seeds
  <2> DEFINE n == active(newPState(TRUE))
  <2>1. /\ peers' = [q \in DOMAIN peers \cup {p} |-> IF q = p THEN n ELSE peers[q]]
        /\ seeds' = seeds \ {p}
    BY <1>4 DEF recvPong, active
  <2>2. n \in PState /\ n.lastActiveTime = 0 /\ n.isSeed = TRUE
    BY <1>1, NewPStateType
  <2> HIDE DEF n
  <2>3. /\ DOMAIN peers' = DOMAIN peers \cup {p}
        /\ peers' \in [DOMAIN peers' -> PState]
        /\ \A q \in DOMAIN peers' : peers'[q] = IF q = p THEN n ELSE peers[q]
    BY <2>1, <2>2, <1>2
  <2>4. Spoken'
    <3> SUFFICES ASSUME NEW q \in DOMAIN peers', isAvaible(peers'[q])
                 PROVE  spoke[q] <= peers'[q].lastActiveTime + Discard
      BY DEF Spoken, isAvaible
    <3>1. CASE q = p
      BY <3>1, <2>2, <2>3, Constants
    <3>2. CASE q # p
      BY <3>2, <2>3 DEF Spoken
    <3> QED
      BY <3>1, <3>2
  <2>5. SeedKept'
    BY <2>1, <2>2, <2>3 DEF SeedKept
  <2> QED
    BY <2>1, <2>3, <2>4, <2>5 DEF Types, TypeOK
<1>5. CASE p \notin DOMAIN peers /\ p \notin seeds
  <2>1. peers' = peers /\ seeds' = seeds
    BY <1>5 DEF recvPong, table
  <2> QED
    BY <2>1 DEF Types, TypeOK, Spoken, SeedKept, isAvaible
<1> QED
  BY <1>3, <1>4, <1>5

-----------------------------------------------------------------------------
(* The initial states and the steps *)

\* A new node has its seeds in the table and nothing on the network.
LEMMA InitInv == Init => Inv
<1> SUFFICES ASSUME Init PROVE Inv
  OBVIOUS
<1> PICK known \in SUBSET Known : peers = [p \in known |-> newPState(FALSE)]
  BY DEF Init
<1>1. DOMAIN peers \subseteq Peer /\ peers \in [DOMAIN peers -> PState]
  BY NewPStateType, Constants
<1>2. Types
  <2>1. Expired + Discard \in 0 .. Expired + Discard
    BY Constants
  <2>2. spoke \in [Peer -> 0 .. Expired + Discard]
    BY <2>1 DEF Init
  <2>3. /\ seeds = Seed /\ pingHash = {} /\ flight = {} /\ toTask = TRUE
        /\ up \in [Peer -> BOOLEAN]
    BY DEF Init
  <2> QED
    BY <1>1, <2>2, <2>3 DEF Types, TypeOK
<1>3. Spoken
  BY NewPStateType DEF Spoken
<1>4. Answered /\ Named /\ SeedKept
  BY DEF Init, Answered, Named, SeedKept
<1> QED
  BY <1>2, <1>3, <1>4 DEF Inv

\* The loop of the provider.
LEMMA TaskStep == Inv /\ Task => Inv'
<1> SUFFICES ASSUME Inv, Task PROVE Inv'
  OBVIOUS
<1> DEFINE nps(p) == [peers[p] EXCEPT
              !.hasPingBefore = @ \/ p \in ToPing,
              !.lastGetNeighbourTime = IF p \in ToAsk THEN 0 ELSE @]
<1> DEFINE e(s, b, t) == [[s EXCEPT !.hasPingBefore = b] EXCEPT !.lastGetNeighbourTime = t]
<1>1. ASSUME NEW s \in PState, NEW b \in BOOLEAN, NEW t \in 0 .. GetInterval
      PROVE  /\ e(s, b, t) \in PState /\ e(s, b, t).isSeed = s.isSeed
             /\ e(s, b, t).lastActiveTime = s.lastActiveTime
  BY DEF PState
<1>2. ASSUME NEW p \in DOMAIN peers
      PROVE  /\ nps(p) \in PState /\ nps(p).isSeed = peers[p].isSeed
             /\ nps(p).lastActiveTime = peers[p].lastActiveTime
  <2> DEFINE b == peers[p].hasPingBefore \/ p \in ToPing
             t == IF p \in ToAsk THEN 0 ELSE peers[p].lastGetNeighbourTime
  <2>1. peers[p] \in PState
    BY DEF Inv, Types, TypeOK
  <2>2. nps(p) = e(peers[p], b, t)
    BY <2>1 DEF PState
  <2>3. b \in BOOLEAN /\ t \in 0 .. GetInterval
    BY <2>1, Constants DEF PState
  <2> HIDE DEF b, t, nps, e
  <2> QED
    BY <1>1, <2>1, <2>2, <2>3
<1>3. peers' = [p \in DOMAIN peers |-> nps(p)]
  BY DEF Task
<1> HIDE DEF nps
<1>4. /\ DOMAIN peers' = DOMAIN peers /\ DOMAIN peers \subseteq Peer
      /\ \A p \in DOMAIN peers : peers'[p] = nps(p)
      /\ peers' \in [DOMAIN peers' -> PState]
  BY <1>2, <1>3 DEF Inv, Types, TypeOK
<1>5. flight' \subseteq flight \cup {m \in Packet : m.type # "Pong"}
  <2>1. ToPing \cup seeds \subseteq Peer /\ ToAsk \subseteq Peer
    BY Constants DEF Inv, Types, TypeOK, ToPing, ToAsk
  <2>2. \A p \in Peer : /\ Msg("ToPing", p) \in Packet /\ Msg("ToPing", p).type # "Pong"
                         /\ Msg("ToAsk", p) \in Packet /\ Msg("ToAsk", p).type # "Pong"
    BY Constants DEF Msg, Packet, Plain
  <2> DEFINE Ps == {Msg("ToPing", p) : p \in ToPing \cup seeds}
             As == {Msg("ToAsk", p) : p \in ToAsk}
  <2>3. flight' = Sent(Sent(flight, Ps), As)
    BY DEF Task
  <2>4. flight' \subseteq flight \cup Ps \cup As
    <3> HIDE DEF Ps, As
    <3> QED
      BY <2>3, SentWithin
  <2> QED
    BY <2>1, <2>2, <2>4
<1>6. flight' \subseteq Packet /\ Answered'
  BY <1>5 DEF Inv, Types, Answered, Task, remote
<1>7. Spoken' /\ SeedKept' /\ Named'
  BY <1>2, <1>4 DEF Inv, Task, Spoken, SeedKept, Named, isAvaible, remote
<1>8. pingHash' \subseteq 0 .. Discard + MaxDelay
  <2>1. pingHash' \subseteq pingHash \cup {0}
    BY DEF Task
  <2>2. 0 \in 0 .. Discard + MaxDelay
    BY Constants
  <2> QED
    BY <2>1, <2>2 DEF Inv, Types, TypeOK
<1>9. /\ seeds' \subseteq Seed /\ toTask' \in BOOLEAN /\ up' \in [Peer -> BOOLEAN]
      /\ spoke' \in [Peer -> 0 .. Expired + Discard]
  BY DEF Inv, Types, TypeOK, Task, remote
<1>10. Types'
  BY <1>4, <1>6, <1>8, <1>9, PacketFields DEF Types, TypeOK
<1> QED
  BY <1>6, <1>7, <1>10 DEF Inv

\* Removing silent peers keeps the invariant (table.go refresh).
LEMMA RefreshStep == Inv /\ refresh => Inv'
<1> SUFFICES ASSUME Inv, refresh PROVE Inv'
  OBVIOUS
<1>1. /\ DOMAIN peers' = {q \in DOMAIN peers : ~isToRemove(peers[q])}
      /\ \A p \in DOMAIN peers' : peers'[p] = peers[p]
      /\ peers' = [p \in DOMAIN peers' |-> peers'[p]]
  BY DEF refresh
<1>2. peers' \in [DOMAIN peers' -> PState] /\ DOMAIN peers' \subseteq Peer
  BY <1>1 DEF Inv, Types, TypeOK
<1>3. /\ seeds' = seeds /\ pingHash' = pingHash /\ flight' = flight
      /\ toTask' = toTask /\ answer' = answer /\ up' = up /\ spoke' = spoke
  BY DEF refresh, remote
<1>4. Types'
  BY <1>2, <1>3 DEF Inv, Types, TypeOK
<1>5. SeedKept'
  BY <1>1, <1>3 DEF Inv, SeedKept, isToRemove
<1>6. Spoken' /\ Answered' /\ Named'
  BY <1>1, <1>3 DEF Inv, Spoken, Answered, Named, isAvaible
<1> QED
  BY <1>4, <1>5, <1>6 DEF Inv

\* The handlers: nothing but the table, the pings and the last answer changes
\* besides the network.
LEMMA ReceiveStep == \A m \in flight : Inv /\ handleRecv(m) => Inv'
<1> SUFFICES ASSUME NEW m \in flight, Inv, handleRecv(m) PROVE Inv'
  OBVIOUS
<1>1. m \in Packet /\ m.peer \in Peer /\ m.age \in 0 .. MaxDelay
  BY PacketFields DEF Inv, Types
<1>2. flight' \subseteq flight
  <2>1. Take(m, {})
    BY DEF handleRecv, Ignore, handlePing, handlePong, handleGetNeigoubours,
           handleNeigoubours
  <2>2. flight' \subseteq flight \cup {}
    BY <2>1, TakeWithin
  <2> QED
    BY <2>2
<1>3. up' = up /\ spoke' = spoke /\ toTask' = toTask
  BY DEF handleRecv, Ignore, handlePing, handlePong, handleGetNeigoubours,
         handleNeigoubours, remote
<1>4. flight' \subseteq Packet /\ Answered'
  BY <1>2, <1>3 DEF Inv, Types, Answered
<1> DEFINE Table == /\ DOMAIN peers' \subseteq Peer /\ peers' \in [DOMAIN peers' -> PState]
                    /\ seeds' \subseteq Seed /\ Spoken' /\ SeedKept'
<1>5. peers' = peers /\ seeds' = seeds => Table
  BY <1>3 DEF Inv, Types, TypeOK, Spoken, SeedKept, isAvaible
<1>6. answer' = answer => Named'
  BY <1>3 DEF Inv, Named
<1>7. ASSUME Table, Named', pingHash' \subseteq pingHash PROVE Inv'
  <2>1. Types'
    BY <1>3, <1>4, <1>7, PacketFields DEF Inv, Types, TypeOK
  <2> QED
    BY <2>1, <1>4, <1>7 DEF Inv
<1> HIDE DEF Table
<1>8. CASE Ignore(m)
  BY <1>5, <1>6, <1>7, <1>8 DEF Ignore, table
<1>9. CASE handlePing(m)
  <2>1. addPeers({m.peer}, FALSE) /\ seeds' = seeds
    BY <1>9 DEF handlePing, recvPing
  <2>2. Table
    BY <2>1, <1>1, <1>3, AddPeersKeeps DEF Inv, Table, Types, TypeOK
  <2> QED
    BY <2>2, <1>6, <1>7, <1>9 DEF handlePing
<1>10. CASE handlePong(m)
  <2>1. Table
    <3>1. CASE m.ping \in pingHash
      <4>1. recvPong(m.peer) /\ spoke[m.peer] <= m.age /\ m.age <= Discard
        BY <1>10, <3>1 DEF handlePong, Inv, Answered, Accepted
      <4>2. spoke[m.peer] \in Nat
        BY <1>1, Constants DEF Inv, Types
      <4>3. spoke[m.peer] <= Discard
        BY <4>1, <4>2, <1>1, Constants
      <4> QED
        BY <4>1, <4>3, <1>1, <1>3, RecvPongKeeps DEF Inv, Table
    <3>2. CASE m.ping \notin pingHash
      BY <1>5, <1>10, <3>2 DEF handlePong, table
    <3> QED
      BY <3>1, <3>2
  <2> QED
    BY <2>1, <1>6, <1>7, <1>10 DEF handlePong
<1>11. CASE handleGetNeigoubours(m)
  <2>1. \A p \in getPeers({m.peer}) : p \in Peer /\ spoke[p] < Expired + Discard
    <3> SUFFICES ASSUME NEW p \in DOMAIN peers, isAvaible(peers[p])
                 PROVE  p \in Peer /\ spoke[p] < Expired + Discard
      BY DEF getPeers
    <3>1. p \in Peer /\ peers[p] \in PState
      BY DEF Inv, Types, TypeOK
    <3>2. spoke[p] \in Nat /\ peers[p].lastActiveTime \in Nat
      BY <3>1, Constants DEF Inv, Types, PState
    <3>3. spoke[p] <= peers[p].lastActiveTime + Discard
      BY DEF Inv, Spoken
    <3> QED
      BY <3>1, <3>2, <3>3, Constants DEF isAvaible
  <2>2. Named'
    <3>1. CASE m.peer \in DOMAIN peers
      <4>1. answer' = {Answer(m.peer)}
        BY <1>11, <3>1 DEF handleGetNeigoubours
      <4>2. Answer(m.peer).to = m.peer /\ Answer(m.peer).nodes = getPeers({m.peer})
        BY DEF Answer
      <4>3. m.peer \notin getPeers({m.peer})
        BY DEF getPeers
      <4> QED
        BY <1>3, <2>1, <4>1, <4>2, <4>3 DEF Named
    <3>2. CASE m.peer \notin DOMAIN peers
      BY <1>6, <1>11, <3>2 DEF handleGetNeigoubours
    <3> QED
      BY <3>1, <3>2
  <2> QED
    BY <2>2, <1>5, <1>7, <1>11 DEF handleGetNeigoubours, table
<1>12. CASE handleNeigoubours(m)
  <2>1. addPeers(m.nodes, FALSE) /\ seeds' = seeds /\ m.type = "Neighbours"
    BY <1>12 DEF handleNeigoubours
  <2>2. m.nodes \in SUBSET (Peer \cup {Self})
    <3>1. m \in Told
      BY <1>1, <2>1, PacketFields
    <3> DEFINE S == SUBSET (Peer \cup {Self})
    <3>2. m \in [type : {"Neighbours"}, peer : Peer, age : 0 .. MaxDelay, nodes : S]
      BY <3>1 DEF Told
    <3> HIDE DEF S
    <3>3. m.nodes \in S
      BY <3>2
    <3> QED
      BY <3>3 DEF S
  <2>3. Table
    BY <2>1, <2>2, <1>3, AddPeersKeeps DEF Inv, Table, Types, TypeOK
  <2> QED
    BY <2>3, <1>6, <1>7, <1>12 DEF handleNeigoubours
<1> QED
  BY <1>8, <1>9, <1>10, <1>11, <1>12 DEF handleRecv

\* The network and the remote nodes: the table is left alone.
LEMMA AroundStep ==
  ASSUME Inv, UNCHANGED <<table, pingHash, toTask, answer>>,
         up' \in [Peer -> BOOLEAN],
         spoke' \in [Peer -> 0 .. Expired + Discard],
         \A p \in Peer : spoke'[p] <= spoke[p],
         flight' \subseteq
           flight \cup {m \in Packet : m.type = "Pong" => spoke'[m.peer] <= m.age}
  PROVE  Inv'
<1>1. flight' \subseteq Packet /\ Answered' /\ Named'
  BY FlightKept DEF Inv
<1>2. Types'
  BY <1>1, PacketFields DEF Inv, Types, TypeOK, table
<1>3. Spoken'
  <2> SUFFICES ASSUME NEW p \in DOMAIN peers, isAvaible(peers[p])
               PROVE  spoke'[p] <= peers[p].lastActiveTime + Discard
    BY DEF Spoken, table, isAvaible
  <2>1. p \in Peer /\ peers[p] \in PState
    BY DEF Inv, Types, TypeOK
  <2>2. spoke[p] \in Nat /\ spoke'[p] \in Nat /\ peers[p].lastActiveTime \in Nat
    BY <2>1, Constants DEF Inv, Types, PState
  <2>3. spoke[p] <= peers[p].lastActiveTime + Discard
    BY DEF Inv, Spoken
  <2> QED
    BY <2>1, <2>2, <2>3, Constants
<1>4. SeedKept'
  BY DEF Inv, SeedKept, table
<1> QED
  BY <1>1, <1>2, <1>3, <1>4 DEF Inv

\* A datagram handled by a remote node keeps the invariant.
LEMMA RespondStep == \A m \in flight : Inv /\ Respond(m) => Inv'
<1> SUFFICES ASSUME NEW m \in flight, Inv, Respond(m) PROVE Inv'
  OBVIOUS
<1>1. m \in Packet /\ m.peer \in Peer /\ m.age \in 0 .. MaxDelay
  BY PacketFields DEF Inv, Types
<1>2. /\ UNCHANGED <<table, pingHash, toTask, answer>> /\ up' = up
      /\ up' \in [Peer -> BOOLEAN] /\ spoke \in [Peer -> 0 .. Expired + Discard]
  BY DEF Respond, Inv, Types, TypeOK
<1>3. CASE up[m.peer] /\ Accepted(m) /\ m.type = "ToPing"
  <2> DEFINE n == Pong(m.peer, m.age)
  <2>1. Take(m, {n}) /\ spoke' = [spoke EXCEPT ![m.peer] = 0]
    BY <1>3 DEF Respond
  <2>2. n \in Packet /\ n.peer = m.peer /\ n.age = 0
    <3>1. m.age \in Nat /\ 0 \in 0 .. MaxDelay
      BY <1>1, Constants
    <3> QED
      BY <1>1, <3>1 DEF Pong, Packet, Pongs
  <2> HIDE DEF n
  <2>3. 0 \in 0 .. Expired + Discard
    BY Constants
  <2>4. /\ spoke' \in [Peer -> 0 .. Expired + Discard] /\ spoke'[m.peer] = 0
        /\ \A p \in Peer : p # m.peer => spoke'[p] = spoke[p]
    BY <1>1, <1>2, <2>1, <2>3
  <2>5. \A p \in Peer : spoke'[p] <= spoke[p]
    <3> TAKE p \in Peer
    <3>1. spoke[p] \in Nat
      BY <1>2, Constants
    <3> QED
      BY <3>1, <2>4
  <2>6. flight' \subseteq flight \cup {n}
    BY <2>1, TakeWithin
  <2>7. n.type = "Pong" => spoke'[n.peer] <= n.age
    BY <2>2, <2>4
  <2> QED
    BY <1>2, <2>2, <2>4, <2>5, <2>6, <2>7, AroundStep
<1>4. CASE ~(up[m.peer] /\ Accepted(m) /\ m.type = "ToPing")
  <2>1. spoke' = spoke
    BY <1>4 DEF Respond
  <2>2. flight' \subseteq flight \cup {x \in Packet : x.type # "Pong"}
    <3>1. CASE up[m.peer] /\ Accepted(m)
      <4>1. PICK nodes \in SUBSET ((Peer \cup {Self}) \ {m.peer}) :
              Take(m, {Neighbours(m.peer, nodes)})
        BY <1>4, <3>1 DEF Respond
      <4> DEFINE n == Neighbours(m.peer, nodes)
                 S == SUBSET (Peer \cup {Self})
      <4>2. n \in Packet /\ n.type # "Pong"
        <5>1. nodes \in S /\ 0 \in 0 .. MaxDelay
          BY Constants
        <5> HIDE DEF S
        <5>2. n \in [type : {"Neighbours"}, peer : Peer, age : 0 .. MaxDelay, nodes : S]
          BY <1>1, <5>1 DEF Neighbours
        <5>3. n \in Told
          BY <5>2 DEF Told, S
        <5>4. n.type = "Neighbours"
          BY DEF Neighbours
        <5> QED
          BY <5>3, <5>4 DEF Packet
      <4>3. flight' \subseteq flight \cup {n}
        BY <4>1, TakeWithin
      <4> QED
        BY <4>2, <4>3
    <3>2. CASE ~(up[m.peer] /\ Accepted(m))
      <4>1. flight' \subseteq flight \cup {}
        BY <3>2, TakeWithin DEF Respond
      <4> QED
        BY <4>1
    <3> QED
      BY <3>1, <3>2
  <2>3. \A p \in Peer : spoke'[p] <= spoke[p]
    <3> TAKE p \in Peer
    <3>1. spoke[p] \in Nat
      BY <1>2, Constants
    <3> QED
      BY <3>1, <2>1
  <2> QED
    BY <1>2, <2>1, <2>2, <2>3, AroundStep
<1> QED
  BY <1>3, <1>4

\* Packets are lost, and remote nodes approach, stop and start.
LEMMA RemoteStep ==
  ASSUME Inv, \/ \E m \in flight : Lose(m)
              \/ \E p \in Peer : Approach(p) \/ Switch(p)
  PROVE  Inv'
<1>1. /\ UNCHANGED <<table, pingHash, toTask, answer>> /\ spoke' = spoke
      /\ spoke \in [Peer -> 0 .. Expired + Discard]
  BY DEF Inv, Types, Lose, Approach, Switch, remote
<1>2. up' \in [Peer -> BOOLEAN]
  BY DEF Inv, Types, TypeOK, Lose, Approach, Switch, remote
<1>3. flight' \subseteq flight \cup {x \in Packet : x.type # "Pong"}
  <2>1. ASSUME NEW p \in Peer, Approach(p)
        PROVE  flight' \subseteq flight \cup {x \in Packet : x.type # "Pong"}
    <3>1. \A type \in {"Ping", "GetNeighbours"} :
            Msg(type, p) \in Packet /\ Msg(type, p).type # "Pong"
      BY Constants DEF Msg, Packet, Plain
    <3> QED
      BY <2>1, <3>1 DEF Approach
  <2> QED
    BY <2>1 DEF Lose, Switch
<1>4. \A p \in Peer : spoke'[p] <= spoke[p]
  <2> TAKE p \in Peer
  <2>1. spoke[p] \in Nat
    BY <1>1, Constants
  <2> QED
    BY <1>1, <2>1
<1> QED
  BY <1>1, <1>2, <1>3, <1>4, AroundStep

\* A unit of time: the words of the peers get older by no more than the
\* packets and the pstates do.
LEMMA ElapseStep == Inv /\ Elapse => Inv'
<1> SUFFICES ASSUME Inv, Elapse PROVE Inv'
  OBVIOUS
<1>1. /\ spoke' \in [Peer -> 0 .. Expired + Discard]
      /\ \A p \in Peer : /\ spoke[p] \in Nat /\ spoke'[p] \in Nat
                          /\ spoke'[p] <= spoke[p] + 1
  <2>1. spoke' = [p \in Peer |-> Older(spoke[p], Expired + Discard)]
    BY DEF Elapse
  <2>2. Expired + Discard \in Nat
    BY Constants
  <2>3. \A p \in Peer : spoke[p] \in 0 .. Expired + Discard
    BY DEF Inv, Types
  <2>4. \A p \in Peer : /\ Older(spoke[p], Expired + Discard) \in 0 .. Expired + Discard
                         /\ Older(spoke[p], Expired + Discard) <= spoke[p] + 1
    BY <2>2, <2>3, OlderAge
  <2>5. /\ spoke' \in [Peer -> 0 .. Expired + Discard]
        /\ \A p \in Peer : spoke'[p] <= spoke[p] + 1
    BY <2>1, <2>4
  <2> QED
    BY <2>2, <2>3, <2>5
<1> DEFINE nps(p) == [peers[p] EXCEPT !.lastActiveTime = Older(@, Expired),
                                      !.lastGetNeighbourTime = Older(@, GetInterval)]
           e(s, t, g) == [[s EXCEPT !.lastActiveTime = t] EXCEPT !.lastGetNeighbourTime = g]
<1>2. ASSUME NEW s \in PState, NEW t \in 0 .. Expired, NEW g \in 0 .. GetInterval
      PROVE  /\ e(s, t, g) \in PState /\ e(s, t, g).isSeed = s.isSeed
             /\ e(s, t, g).lastActiveTime = t
  BY DEF PState
<1>3. ASSUME NEW p \in DOMAIN peers
      PROVE  /\ peers[p] \in PState
             /\ peers[p].lastActiveTime \in 0 .. Expired
             /\ nps(p) \in PState /\ nps(p).isSeed = peers[p].isSeed
             /\ nps(p).lastActiveTime = Older(peers[p].lastActiveTime, Expired)
  <2> DEFINE t == Older(peers[p].lastActiveTime, Expired)
             g == Older(peers[p].lastGetNeighbourTime, GetInterval)
  <2>1. peers[p] \in PState
    BY DEF Inv, Types, TypeOK
  <2>2. nps(p) = e(peers[p], t, g)
    BY <2>1 DEF PState
  <2>3. /\ peers[p].lastActiveTime \in 0 .. Expired
        /\ peers[p].lastGetNeighbourTime \in 0 .. GetInterval
    BY <2>1 DEF PState
  <2>4. t \in 0 .. Expired /\ g \in 0 .. GetInterval
    BY <2>3, OlderAge, Constants
  <2> HIDE DEF t, g, nps, e
  <2>5. /\ nps(p) \in PState /\ nps(p).isSeed = peers[p].isSeed
        /\ nps(p).lastActiveTime = t
    BY <1>2, <2>1, <2>2, <2>4
  <2> QED
    BY <2>1, <2>3, <2>5 DEF t
<1>4. peers' = [p \in DOMAIN peers |-> nps(p)]
  BY DEF Elapse
<1> HIDE DEF nps, e
<1>5. /\ DOMAIN peers' = DOMAIN peers /\ DOMAIN peers \subseteq Peer
      /\ \A p \in DOMAIN peers : peers'[p] = nps(p)
      /\ peers' \in [DOMAIN peers' -> PState]
  BY <1>3, <1>4 DEF Inv, Types, TypeOK
<1>6. Spoken'
  <2> SUFFICES ASSUME NEW p \in DOMAIN peers, isAvaible(peers'[p])
               PROVE  spoke'[p] <= peers'[p].lastActiveTime + Discard
    BY <1>5 DEF Spoken, isAvaible
  <2>1. peers'[p].lastActiveTime < Expired
    BY DEF isAvaible
  <2>2. /\ peers'[p].lastActiveTime = Older(peers[p].lastActiveTime, Expired)
        /\ peers[p].lastActiveTime \in 0 .. Expired
    BY <1>3, <1>5
  <2>3. /\ peers'[p].lastActiveTime = peers[p].lastActiveTime + 1
        /\ peers[p].lastActiveTime < Expired
    BY <2>1, <2>2, Constants DEF Older
  <2>4. spoke[p] <= peers[p].lastActiveTime + Discard
    BY <2>3 DEF Inv, Spoken, isAvaible
  <2>5. p \in Peer
    BY <1>5
  <2> QED
    BY <1>1, <2>2, <2>3, <2>4, <2>5, Constants
<1>7. SeedKept'
  BY <1>3, <1>5 DEF Inv, SeedKept, Elapse
<1>8. ASSUME NEW n \in flight'
      PROVE  n \in Packet /\ (n.type = "Pong" => spoke'[n.peer] <= n.age)
  <2>1. CASE \E m \in flight : m.type # "Pong" /\ n = [m EXCEPT !.age = @ + 1]
    <3>1. PICK m \in flight : m.type # "Pong" /\ n = [m EXCEPT !.age = @ + 1]
      BY <2>1
    <3>2. m \in Packet /\ m.age < MaxDelay
      BY DEF Inv, Types, Elapse
    <3> QED
      BY <3>1, <3>2, OlderPacket
  <2>2. CASE \E m \in flight : m.type = "Pong"
                               /\ n = [m EXCEPT !.age = @ + 1, !.ping = @ + 1]
    <3>1. PICK m \in flight : m.type = "Pong"
                               /\ n = [m EXCEPT !.age = @ + 1, !.ping = @ + 1]
      BY <2>2
    <3>2. m \in Packet /\ m.age < MaxDelay /\ spoke[m.peer] <= m.age
      BY <3>1 DEF Inv, Types, Elapse, Answered
    <3>3. n \in Packet /\ n.peer = m.peer /\ n.age = m.age + 1
      BY <3>1, <3>2, OlderPacket
    <3>4. m.peer \in Peer /\ m.age \in 0 .. MaxDelay
      BY <3>2, PacketFields
    <3>5. spoke'[m.peer] <= m.age + 1
      BY <1>1, <3>2, <3>4, Constants
    <3> QED
      BY <3>3, <3>5
  <2>3. flight' = {[m EXCEPT !.age = @ + 1] : m \in {x \in flight : x.type # "Pong"}}
                    \cup {[m EXCEPT !.age = @ + 1, !.ping = @ + 1] :
                            m \in {x \in flight : x.type = "Pong"}}
    BY DEF Elapse
  <2>4. \/ n \in {[m EXCEPT !.age = @ + 1] : m \in {x \in flight : x.type # "Pong"}}
        \/ n \in {[m EXCEPT !.age = @ + 1, !.ping = @ + 1] :
                   m \in {x \in flight : x.type = "Pong"}}
    BY <2>3
  <2> QED
    BY <2>1, <2>2, <2>4
<1>9. Answered' /\ flight' \subseteq Packet
  BY <1>8 DEF Answered
<1>10. Named'
  BY DEF Elapse, Named
<1>11. pingHash' \subseteq 0 .. Discard + MaxDelay
  <2> SUFFICES ASSUME NEW a \in pingHash, a + 1 # Discard + MaxDelay + 1
               PROVE  a + 1 \in 0 .. Discard + MaxDelay
    BY DEF Elapse
  <2>1. a \in 0 .. Discard + MaxDelay
    BY DEF Inv, Types, TypeOK
  <2> QED
    BY <2>1, Constants
<1>12. seeds' \subseteq Seed /\ toTask' \in BOOLEAN /\ up' \in [Peer -> BOOLEAN]
  BY DEF Inv, Types, TypeOK, Elapse
<1>13. Types'
  BY <1>1, <1>5, <1>9, <1>11, <1>12, PacketFields DEF Types, TypeOK
<1> QED
  BY <1>6, <1>7, <1>9, <1>10, <1>13 DEF Inv

\* Every step keeps the invariant.
LEMMA Step == Inv /\ [Next]_vars => Inv'
<1> SUFFICES ASSUME Inv, [Next]_vars PROVE Inv'
  OBVIOUS
<1>1. CASE UNCHANGED vars
  BY <1>1 DEF vars, table, remote, Inv, Types, TypeOK, Answered, Spoken, Named, SeedKept,
              isAvaible
<1>2. CASE Next
  <2>1. CASE Task
    BY <2>1, TaskStep
  <2>2. CASE refresh
    BY <2>2, RefreshStep
  <2>3. CASE Elapse
    BY <2>3, ElapseStep
  <2>4. CASE \E m \in flight : handleRecv(m)
    BY <2>4, ReceiveStep
  <2>5. CASE \E m \in flight : Respond(m)
    BY <2>5, RespondStep
  <2>6. CASE \/ \E m \in flight : Lose(m)
             \/ \E p \in Peer : Approach(p) \/ Switch(p)
    BY <2>6, RemoteStep
  <2> QED
    BY <1>2, <2>1, <2>2, <2>3, <2>4, <2>5, <2>6 DEF Next
<1> QED
  BY <1>1, <1>2

\* Being active by the table's clock means having spoken, up to the delay a
\* packet may have had.
LEMMA InvFreshlyAlive == Inv => FreshlyAlive
<1> SUFFICES ASSUME Inv PROVE FreshlyAlive
  OBVIOUS
<1>1. ASSUME NEW p \in getPeers({}) PROVE spoke[p] < Expired + Discard
  <2>1. p \in DOMAIN peers /\ isAvaible(peers[p])
    BY DEF getPeers
  <2>2. p \in Peer /\ peers[p] \in PState
    BY <2>1 DEF Inv, Types, TypeOK
  <2>3. spoke[p] \in Nat /\ peers[p].lastActiveTime \in Nat
    BY <2>2, Constants DEF Inv, Types, PState
  <2>4. spoke[p] <= peers[p].lastActiveTime + Discard
    BY <2>1 DEF Inv, Spoken
  <2> QED
    BY <2>1, <2>3, <2>4, Constants DEF isAvaible
<1> QED
  BY <1>1 DEF Inv, Named, FreshlyAlive

-----------------------------------------------------------------------------
(* Theorems *)

\* The invariant holds in every reachable state.
LEMMA Invariance == Spec => []Inv
<1>1. Init => Inv
  BY InitInv
<1>2. Inv /\ [Next]_vars => Inv'
  BY Step
<1> QED
  BY <1>1, <1>2, PTL DEF Spec

\* The provider's table, its pings and the packets keep their types; this
\* node is never in its own table.
THEOREM TypeCorrect == Spec => []TypeOK
<1>1. Inv => TypeOK
  BY DEF Inv, Types
<1> QED
  BY <1>1, Invariance, PTL

\* No seed of the configuration is ever forgotten, whether it answers, falls
\* silent, or is first known by its own ping or by a neighbour (pstate.go:20,
\* table.go recvPong and refresh).
THEOREM SeedsKept == Spec => []SeedKept
<1>1. Inv => SeedKept
  BY DEF Inv
<1> QED
  BY <1>1, Invariance, PTL

\* GetPeers and the answers to neighbours name only peers that have sent a
\* pong within peerExpiredTime plus msgDiscardTime, for all delays, losses and
\* duplicates of packets.
THEOREM OnlyFreshlyAlive == Spec => []FreshlyAlive
<1>1. Inv => FreshlyAlive
  BY InvFreshlyAlive
<1> QED
  BY <1>1, Invariance, PTL
=============================================================================
