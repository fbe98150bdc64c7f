----------------------------- MODULE P2PProofs ------------------------------
(***************************************************************************)
(* Proofs about P2P, for every set of nodes, every network of addresses,   *)
(* every limit and any number of attempts, timeouts and broken connections.*)
(*                                                                         *)
(* The manager removes by ID and in another goroutine than the one that    *)
(* adds. That it never removes a live connection rests on two facts about  *)
(* the table: an ID that waits to be removed is still in it (Waiting), so  *)
(* no new connection of that ID can have been added; and a connection that *)
(* would call back is the one that the table has under its ID (Listed).    *)
(***************************************************************************)
EXTENDS P2P, FiniteSetTheorems, TLAPS

Stage == {None, "queue", "wait", "refused", "add", "in", "dead", "end"}
Used == {"in", "dead"}

Types ==
  /\ connectTask \in [Node -> SUBSET Node]
  /\ sock \in Seq([d : Node, r : Node, want : Node]) /\ Len(sock) <= MaxSock
  /\ proc \in [Sock -> [Side -> Stage]]
  /\ open \in [Sock -> [Side -> BOOLEAN]]
  /\ cb \in [Sock -> [Side -> BOOLEAN]]
  /\ DOMAIN conns = Node
  /\ removing \in [Node -> SUBSET Node]
  /\ ngBlackList \in [Node -> SUBSET Node]

\* A socket that was not dialed yet has seen nothing; only a connection that
\* got through addConn has a callback.
Fresh ==
  \A s \in Sock, x \in Side :
    /\ s \notin DOMAIN sock => proc[s][x] = None
    /\ cb[s][x] => proc[s][x] \in Used

\* What the handshake has found out about the other end.
Proved ==
  \A s \in DOMAIN sock :
    /\ proc[s]["d"] \in {"add", "in", "dead"} =>
         sock[s].r = sock[s].want /\ sock[s].r \notin Old /\ sock[s].r \notin Light
    /\ proc[s]["r"] \in {"add", "in", "dead"} =>
         ChainID[sock[s].d] = ChainID[sock[s].r] /\ sock[s].d \notin Old

\* Each entry of the table is the end of a socket that was added here, under
\* the ID it was added with.
Entries ==
  \A n \in Node :
    /\ DOMAIN conns[n] \subseteq Node
    /\ IsFiniteSet(DOMAIN conns[n])
    /\ \A i \in DOMAIN conns[n] : \E s \in DOMAIN sock, x \in Side :
         /\ conns[n][i] = <<s, x>>
         /\ At(s, x) = n /\ ID(s, x) = i /\ proc[s][x] \in Used

\* An ID that waits for its removal is in the table.
Waiting == \A n \in Node : removing[n] \subseteq DOMAIN conns[n]

\* An open connection that would call back is in the table.
Listed ==
  \A s \in DOMAIN sock, x \in Side :
    open[s][x] /\ cb[s][x] =>
      /\ ID(s, x) \in DOMAIN conns[At(s, x)]
      /\ conns[At(s, x)][ID(s, x)] = <<s, x>>

Inv == /\ Types /\ Fresh /\ Proved /\ Entries /\ Waiting /\ Listed
       /\ WithinLimit /\ RemovalMeant

-----------------------------------------------------------------------------
(* Lemmas *)

\* The two ends of a socket.
LEMMA SocketEnds ==
  ASSUME Types, NEW s \in DOMAIN sock, NEW x \in Side
  PROVE  /\ s \in Sock /\ s \in Nat
         /\ sock[s] \in [d : Node, r : Node, want : Node]
         /\ At(s, x) \in Node /\ ID(s, x) \in Node
         /\ Other(x) \in Side
<1>1. s \in Sock /\ s \in Nat /\ sock[s] \in [d : Node, r : Node, want : Node]
  <2> DEFINE E == [d : Node, r : Node, want : Node]
  <2>1. sock \in Seq(E) /\ Len(sock) <= MaxSock /\ MaxSock \in Nat
    BY P2PConstants DEF Types
  <2> HIDE DEF E
  <2>2. DOMAIN sock = 1 .. Len(sock) /\ Len(sock) \in Nat /\ sock[s] \in E
    BY <2>1
  <2>3. s \in Sock /\ s \in Nat
    BY <2>1, <2>2 DEF Sock
  <2> QED
    BY <2>2, <2>3 DEF E
<1>2. At(s, x) \in Node /\ ID(s, x) \in Node /\ Other(x) \in Side
  BY <1>1 DEF At, ID, Side, Other
<1> QED
  BY <1>1, <1>2

\* A goroutine that has not come to addConn goes on to another place before
\* it, to addConn when the handshake allows it, or to its end; its socket may
\* be closed. The table is not concerned.
LEMMA BeforeTable ==
  ASSUME Inv, NEW s \in DOMAIN sock, NEW x \in Side, NEW v \in Stage \ Used,
         proc[s][x] \notin Used,
         proc' = [proc EXCEPT ![s][x] = v],
         open' = open \/ open' = [open EXCEPT ![s][x] = FALSE],
         UNCHANGED <<sock, cb, conns, removing>>,
         v = "add" => IF x = "d" THEN /\ sock[s].r = sock[s].want
                                      /\ sock[s].r \notin Old
                                      /\ sock[s].r \notin Light
                      ELSE /\ ChainID[sock[s].d] = ChainID[sock[s].r]
                           /\ sock[s].d \notin Old
  PROVE  /\ proc' \in [Sock -> [Side -> Stage]] /\ open' \in [Sock -> [Side -> BOOLEAN]]
         /\ Fresh' /\ Proved' /\ Entries' /\ Waiting' /\ Listed'
         /\ WithinLimit' /\ RemovalMeant'
<1>1. s \in Sock
  BY SocketEnds DEF Inv
<1>2. /\ proc' \in [Sock -> [Side -> Stage]]
      /\ \A t \in Sock, y \in Side :
           proc'[t][y] = IF t = s /\ y = x THEN v ELSE proc[t][y]
  BY <1>1 DEF Inv, Types
<1>3. /\ open' \in [Sock -> [Side -> BOOLEAN]]
      /\ \A t \in Sock, y \in Side : open'[t][y] => open[t][y]
  <2>1. CASE open' = open
    BY <2>1 DEF Inv, Types
  <2>2. CASE open' = [open EXCEPT ![s][x] = FALSE]
    BY <1>1, <2>2 DEF Inv, Types
  <2> QED
    BY <2>1, <2>2
<1>4. \A t \in DOMAIN sock : t \in Sock
  BY SocketEnds DEF Inv, Side
<1>5. Fresh'
  BY <1>2 DEF Inv, Fresh
<1>6. Proved'
  BY <1>2, <1>4 DEF Inv, Proved, Side, Used
<1>7. Entries'
  BY <1>2, <1>4 DEF Inv, Entries, At, ID
<1>8. Waiting' /\ WithinLimit'
  BY DEF Inv, Waiting, WithinLimit, size
<1>9. Listed'
  BY <1>3, <1>4 DEF Inv, Listed, At, ID
<1>10. RemovalMeant'
  <2> SUFFICES ASSUME NEW n \in Node, NEW id \in removing[n] \cap DOMAIN conns[n]
               PROVE  ~open'[conns[n][id][1]][conns[n][id][2]]
    BY DEF RemovalMeant
  <2>1. PICK t \in DOMAIN sock, y \in Side : conns[n][id] = <<t, y>>
    BY DEF Inv, Entries
  <2>2. ~open[t][y]
    BY <2>1 DEF Inv, RemovalMeant
  <2> QED
    BY <2>1, <2>2, <1>3, <1>4
<1> QED
  BY <1>2, <1>3, <1>5, <1>6, <1>7, <1>8, <1>9, <1>10

\* Steps that concern neither sockets nor tables.
LEMMA Aside ==
  ASSUME Inv, Types', UNCHANGED <<sock, proc, open, cb, conns, removing>>
  PROVE  Inv'
<1>1. Fresh' /\ Proved' /\ Waiting' /\ WithinLimit' /\ RemovalMeant'
  BY DEF Inv, Fresh, Proved, Waiting, WithinLimit, RemovalMeant, size
<1>2. Entries' /\ Listed'
  BY DEF Inv, Entries, Listed, At, ID
<1> QED
  BY <1>1, <1>2 DEF Inv

\* A socket is closed under its goroutine, by the other end or because it
\* breaks. What the callback queues is the connection that was open.
LEMMA StopStep ==
  ASSUME Inv, NEW s \in DOMAIN sock, NEW x \in Side, stop(s, x),
         UNCHANGED <<connectTask, sock, proc, cb, conns, ngBlackList>>
  PROVE  Inv'
<1>1. s \in Sock /\ At(s, x) \in Node /\ ID(s, x) \in Node
  BY SocketEnds DEF Inv
<1>2. \A t \in DOMAIN sock : t \in Sock
  BY SocketEnds DEF Inv, Side
<1>3. /\ open' \in [Sock -> [Side -> BOOLEAN]]
      /\ \A t \in Sock, y \in Side : open'[t][y] => open[t][y]
      /\ ~open'[s][x]
  BY <1>1 DEF Inv, Types, stop
<1>4. \A n \in Node : \A id \in removing'[n] :
        \/ id \in removing[n]
        \/ n = At(s, x) /\ id = ID(s, x) /\ open[s][x] /\ cb[s][x]
  BY <1>1 DEF Inv, Types, stop, Callback
<1>5. removing' \in [Node -> SUBSET Node]
  <2>1. Callback(s, x) \in SUBSET Node
    BY <1>1 DEF Callback
  <2> QED
    BY <1>1, <2>1 DEF Inv, Types, stop
<1>6. Types'
  BY <1>3, <1>5 DEF Inv, Types
<1>7. Fresh' /\ Proved' /\ Entries' /\ WithinLimit'
  BY DEF Inv, Fresh, Proved, Entries, WithinLimit, size, At, ID
<1>8. Waiting'
  BY <1>4 DEF Inv, Waiting, Listed
<1>9. Listed'
  BY <1>2, <1>3 DEF Inv, Listed, At, ID
<1>10. RemovalMeant'
  <2> SUFFICES ASSUME NEW n \in Node, NEW id \in removing'[n] \cap DOMAIN conns[n]
               PROVE  ~open'[conns[n][id][1]][conns[n][id][2]]
    BY DEF RemovalMeant
  <2>1. PICK t \in DOMAIN sock, y \in Side : conns[n][id] = <<t, y>>
    BY DEF Inv, Entries
  <2>2. CASE id \in removing[n]
    BY <2>1, <2>2, <1>2, <1>3 DEF Inv, RemovalMeant
  <2>3. CASE n = At(s, x) /\ id = ID(s, x) /\ open[s][x] /\ cb[s][x]
    BY <2>3, <1>3 DEF Inv, Listed
  <2> QED
    BY <1>4, <2>2, <2>3
<1> QED
  BY <1>6, <1>7, <1>8, <1>9, <1>10 DEF Inv

\* The manager's loop: the ID leaves the queue and the table together.
LEMMA LoopStep ==
  ASSUME Inv, NEW n \in Node, loop(n)
  PROVE  Inv'
<1>1. PICK id \in removing[n] :
        /\ removing' = [removing EXCEPT ![n] = @ \ {id}]
        /\ conns' = [conns EXCEPT ![n] = [i \in DOMAIN @ \ {id} |-> @[i]]]
  BY DEF loop
<1>2. UNCHANGED <<connectTask, sock, proc, open, cb, ngBlackList>>
  BY DEF loop, sockVars
<1>3. /\ DOMAIN conns' = Node
      /\ \A m \in Node : m # n => conns'[m] = conns[m]
      /\ DOMAIN conns'[n] = DOMAIN conns[n] \ {id}
      /\ \A i \in DOMAIN conns'[n] : conns'[n][i] = conns[n][i]
  BY <1>1 DEF Inv, Types
<1>4. /\ removing' \in [Node -> SUBSET Node]
      /\ \A m \in Node : m # n => removing'[m] = removing[m]
      /\ removing'[n] = removing[n] \ {id}
  BY <1>1 DEF Inv, Types
<1>5. Types' /\ Fresh' /\ Proved'
  BY <1>2, <1>3, <1>4 DEF Inv, Types, Fresh, Proved
<1>6. \A m \in Node : /\ DOMAIN conns'[m] \subseteq DOMAIN conns[m]
                      /\ \A i \in DOMAIN conns'[m] : conns'[m][i] = conns[m][i]
  BY <1>3
<1>7. \A m \in Node : /\ IsFiniteSet(DOMAIN conns'[m])
                      /\ Cardinality(DOMAIN conns'[m]) <= Cardinality(DOMAIN conns[m])
                      /\ Cardinality(DOMAIN conns'[m]) \in Nat
                      /\ Cardinality(DOMAIN conns[m]) \in Nat
  BY <1>6, FS_Subset, FS_CardinalityType DEF Inv, Entries
<1>8. Entries'
  BY <1>2, <1>6, <1>7 DEF Inv, Entries, At, ID
<1>9. WithinLimit'
  BY <1>7, P2PConstants DEF Inv, WithinLimit, size
<1>10. Waiting'
  BY <1>3, <1>4 DEF Inv, Waiting
<1>11. ~open[conns[n][id][1]][conns[n][id][2]]
  BY <1>1 DEF Inv, Waiting, RemovalMeant
<1>12. Listed'
  <2> SUFFICES ASSUME NEW s \in DOMAIN sock, NEW x \in Side, open[s][x] /\ cb[s][x]
               PROVE  /\ ID(s, x) \in DOMAIN conns'[At(s, x)]
                      /\ conns'[At(s, x)][ID(s, x)] = <<s, x>>
    BY <1>2 DEF Listed, At, ID
  <2>1. /\ At(s, x) \in Node /\ ID(s, x) \in DOMAIN conns[At(s, x)]
        /\ conns[At(s, x)][ID(s, x)] = <<s, x>>
    BY SocketEnds DEF Inv, Listed
  <2>2. At(s, x) = n => ID(s, x) # id
    BY <1>11, <2>1
  <2> QED
    BY <1>3, <2>1, <2>2
<1>13. RemovalMeant'
  BY <1>2, <1>4, <1>6 DEF Inv, RemovalMeant
<1> QED
  BY <1>5, <1>8, <1>9, <1>10, <1>12, <1>13 DEF Inv

\* setupConn: a new socket has been in no table and has no callback.
LEMMA SetupConnStep ==
  ASSUME Inv, NEW n \in Node, NEW p \in Node, setupConn(n, p)
  PROVE  Inv'
<1>1. connectTask' \in [Node -> SUBSET Node]
  BY DEF Inv, Types, setupConn
<1>2. UNCHANGED <<conns, removing, ngBlackList, cb>>
  BY DEF setupConn, sockVars
<1>3. CASE UNCHANGED sockVars
  <2>1. UNCHANGED <<sock, proc, open, cb, conns, removing>>
    BY <1>2, <1>3 DEF sockVars
  <2>2. Types'
    BY <1>1, <1>2, <2>1 DEF Inv, Types
  <2> QED
    BY <2>1, <2>2, Aside
<1>4. ASSUME NEW s \in Sock, NEW r \in {p} \cup Moved[p],
             s = Len(sock) + 1,
             sock' = Append(sock, [d |-> n, r |-> r, want |-> p]),
             proc' = [proc EXCEPT ![s]["d"] = "wait", ![s]["r"] = "queue"],
             open' = [open EXCEPT ![s] = [x \in Side |-> TRUE]]
      PROVE  Inv'
  <2> DEFINE E == [d : Node, r : Node, want : Node]
             e == [d |-> n, r |-> r, want |-> p]
  <2>1. e \in E
    BY P2PConstants
  <2>2. sock \in Seq(E) /\ Len(sock) <= MaxSock /\ MaxSock \in Nat
    BY P2PConstants DEF Inv, Types
  <2> HIDE DEF E, e
  <2>3. /\ sock' \in Seq(E) /\ Len(sock') <= MaxSock
        /\ DOMAIN sock' = DOMAIN sock \cup {s} /\ s \notin DOMAIN sock
        /\ \A t \in DOMAIN sock : sock'[t] = sock[t] /\ t # s
    BY <1>4, <2>1, <2>2 DEF Sock, e
  <2>4. /\ proc' \in [Sock -> [Side -> Stage]]
        /\ \A t \in Sock, y \in Side : t # s => proc'[t][y] = proc[t][y]
        /\ \A y \in Side : proc'[s][y] \in {"wait", "queue"}
    BY <1>4 DEF Inv, Types, Stage, Side
  <2>5. /\ open' \in [Sock -> [Side -> BOOLEAN]]
        /\ \A t \in Sock, y \in Side : t # s => open'[t][y] = open[t][y]
    BY <1>4 DEF Inv, Types
  <2>6. \A t \in DOMAIN sock : t \in Sock
    BY SocketEnds DEF Inv, Side
  <2>7. Types'
    BY <1>1, <1>2, <2>3, <2>4, <2>5 DEF Inv, Types, E
  <2>8. \A y \in Side : ~cb[s][y]
    BY <2>3 DEF Inv, Fresh, Used, None
  <2>9. Fresh'
    BY <1>2, <2>3, <2>4, <2>8 DEF Inv, Fresh
  <2>10. Proved'
    BY <2>3, <2>4, <2>6 DEF Inv, Proved, Side
  <2>11. Entries'
    BY <1>2, <2>3, <2>4, <2>6 DEF Inv, Entries, At, ID
  <2>12. Waiting' /\ WithinLimit'
    BY <1>2 DEF Inv, Waiting, WithinLimit, size
  <2>13. Listed'
    <3> SUFFICES ASSUME NEW t \in DOMAIN sock', NEW y \in Side, open'[t][y], cb[t][y]
                 PROVE  /\ ID(t, y)' \in DOMAIN conns[At(t, y)']
                        /\ conns[At(t, y)'][ID(t, y)'] = <<t, y>>
      BY <1>2 DEF Listed
    <3>1. t \in DOMAIN sock /\ t # s /\ t \in Sock /\ open[t][y]
      BY <2>3, <2>5, <2>6, <2>8
    <3>2. At(t, y)' = At(t, y) /\ ID(t, y)' = ID(t, y)
      BY <3>1, <2>3 DEF At, ID
    <3> QED
      BY <3>1, <3>2 DEF Inv, Listed
  <2>14. RemovalMeant'
    <3> SUFFICES ASSUME NEW m \in Node, NEW id \in removing[m] \cap DOMAIN conns[m]
                 PROVE  ~open'[conns[m][id][1]][conns[m][id][2]]
      BY <1>2 DEF RemovalMeant
    <3>1. PICK t \in DOMAIN sock, y \in Side : conns[m][id] = <<t, y>>
      BY DEF Inv, Entries
    <3>2. ~open[t][y]
      BY <3>1 DEF Inv, RemovalMeant
    <3> QED
      BY <3>1, <3>2, <2>3, <2>5, <2>6
  <2> QED
    BY <2>7, <2>9, <2>10, <2>11, <2>12, <2>13, <2>14 DEF Inv
<1> QED
  BY <1>3, <1>4 DEF setupConn

\* addConn when there is room and no connection of that ID: in particular no
\* removal of that ID waits.
LEMMA EnterStep ==
  ASSUME Inv, NEW s \in DOMAIN sock, NEW x \in Side,
         proc[s][x] = "add",
         ID(s, x) \notin DOMAIN conns[At(s, x)], ~Full(At(s, x)),
         conns' = [conns EXCEPT ![At(s, x)] =
                     [i \in DOMAIN @ \cup {ID(s, x)} |->
                        IF i = ID(s, x) THEN <<s, x>> ELSE @[i]]],
         cb' = [cb EXCEPT ![s][x] = TRUE],
         proc' = [proc EXCEPT ![s][x] = IF open[s][x] THEN "in" ELSE "dead"],
         UNCHANGED <<connectTask, sock, open, removing, ngBlackList>>
  PROVE  Inv'
<1>1. s \in Sock /\ At(s, x) \in Node /\ ID(s, x) \in Node
  BY SocketEnds DEF Inv
<1>0. PICK n \in Node, id \in Node : n = At(s, x) /\ id = ID(s, x)
  BY <1>1
<1>2. \A t \in DOMAIN sock : t \in Sock
  BY SocketEnds DEF Inv, Side
<1>16. \A t, y : At(t, y)' = At(t, y) /\ ID(t, y)' = ID(t, y)
  BY DEF At, ID
<1>3. /\ DOMAIN conns' = Node
      /\ \A m \in Node : m # n => conns'[m] = conns[m]
      /\ DOMAIN conns'[n] = DOMAIN conns[n] \cup {id}
      /\ conns'[n][id] = <<s, x>>
      /\ \A i \in DOMAIN conns[n] : conns'[n][i] = conns[n][i]
  BY <1>0 DEF Inv, Types
<1>4. /\ cb' \in [Sock -> [Side -> BOOLEAN]]
      /\ \A t \in Sock, y \in Side : cb'[t][y] => cb[t][y] \/ (t = s /\ y = x)
  BY <1>1 DEF Inv, Types
<1>5. /\ proc' \in [Sock -> [Side -> Stage]]
      /\ proc'[s][x] \in Used
      /\ \A t \in Sock, y \in Side : ~(t = s /\ y = x) => proc'[t][y] = proc[t][y]
  BY <1>1 DEF Inv, Types, Stage, Used
<1>6. Types'
  BY <1>3, <1>4, <1>5 DEF Inv, Types
<1>7. Fresh'
  BY <1>4, <1>5 DEF Inv, Fresh
<1>8. Proved'
  BY <1>2, <1>5 DEF Inv, Proved, Side, Used
<1>9. \A m \in Node : m # n => IsFiniteSet(DOMAIN conns'[m]) /\ size(m)' = size(m)
  BY <1>3 DEF Inv, Entries, size
<1>10. /\ IsFiniteSet(DOMAIN conns'[n])
       /\ size(n)' = size(n) + 1
       /\ size(n) \in Nat
  <2>1. IsFiniteSet(DOMAIN conns[n]) /\ id \notin DOMAIN conns[n]
    BY <1>0 DEF Inv, Entries
  <2>2. /\ IsFiniteSet(DOMAIN conns[n] \cup {id})
        /\ Cardinality(DOMAIN conns[n] \cup {id}) = Cardinality(DOMAIN conns[n]) + 1
    BY <2>1, FS_AddElement
  <2>3. DOMAIN conns'[n] = DOMAIN conns[n] \cup {id}
    BY <1>3
  <2>4. Cardinality(DOMAIN conns[n]) \in Nat
    BY <2>1, FS_CardinalityType
  <2> QED
    BY <2>2, <2>3, <2>4 DEF size
<1>11. WithinLimit'
  <2>1. size(n)' <= maxPeersNum
    BY <1>0, <1>10, P2PConstants DEF Full
  <2> QED
    BY <1>9, <2>1 DEF Inv, WithinLimit, size
<1>12. Entries'
  <2>1. ASSUME NEW m \in Node
        PROVE  DOMAIN conns'[m] \subseteq Node /\ IsFiniteSet(DOMAIN conns'[m])
    BY <1>1, <1>3, <1>9, <1>10 DEF Inv, Entries
  <2>2. ASSUME NEW m \in Node, NEW i \in DOMAIN conns'[m]
        PROVE  \E t \in DOMAIN sock', y \in Side :
                 /\ conns'[m][i] = <<t, y>>
                 /\ At(t, y)' = m /\ ID(t, y)' = i /\ proc'[t][y] \in Used
    <3>1. CASE m = n /\ i = id
      BY <3>1, <1>0, <1>3, <1>5, <1>16
    <3>2. CASE ~(m = n /\ i = id)
      <4>1. i \in DOMAIN conns[m] /\ conns'[m][i] = conns[m][i]
        BY <3>2, <1>3
      <4>2. PICK t \in DOMAIN sock, y \in Side :
              /\ conns[m][i] = <<t, y>>
              /\ At(t, y) = m /\ ID(t, y) = i /\ proc[t][y] \in Used
        BY <4>1 DEF Inv, Entries
      <4>3. proc'[t][y] \in Used
        BY <4>2, <1>2, <1>5
      <4> QED
        BY <4>1, <4>2, <4>3, <1>16
    <3> QED
      BY <3>1, <3>2
  <2> QED
    BY <2>1, <2>2 DEF Entries
<1>13. Waiting'
  BY <1>3 DEF Inv, Waiting
<1>14. Listed'
  <2> SUFFICES ASSUME NEW t \in DOMAIN sock, NEW y \in Side, open[t][y] /\ cb'[t][y]
               PROVE  /\ ID(t, y) \in DOMAIN conns'[At(t, y)]
                      /\ conns'[At(t, y)][ID(t, y)] = <<t, y>>
    BY <1>16 DEF Listed
  <2>1. CASE t = s /\ y = x
    BY <2>1, <1>0, <1>3
  <2>2. CASE cb[t][y]
    <3>1. /\ At(t, y) \in Node /\ ID(t, y) \in DOMAIN conns[At(t, y)]
          /\ conns[At(t, y)][ID(t, y)] = <<t, y>>
      BY <2>2, SocketEnds DEF Inv, Listed
    <3> QED
      BY <3>1, <1>0, <1>3
  <2> QED
    BY <2>1, <2>2, <1>2, <1>4
<1>15. RemovalMeant'
  <2> SUFFICES ASSUME NEW m \in Node, NEW i \in removing[m], i \in DOMAIN conns'[m]
               PROVE  ~open[conns'[m][i][1]][conns'[m][i][2]]
    BY DEF RemovalMeant
  <2>1. i \in DOMAIN conns[m]
    BY DEF Inv, Waiting
  <2>2. conns'[m][i] = conns[m][i]
    BY <1>3, <2>1
  <2>3. ~open[conns[m][i][1]][conns[m][i][2]]
    <3>1. RemovalMeant
      BY DEF Inv
    <3>2. i \in removing[m] \cap DOMAIN conns[m]
      BY <2>1
    <3> QED
      BY <3>1, <3>2, Zenon DEF RemovalMeant
  <2> QED
    BY <2>2, <2>3, Zenon
<1> QED
  BY <1>6, <1>7, <1>8, <1>11, <1>12, <1>13, <1>14, <1>15 DEF Inv

\* Disconnect before the table, whatever the black list becomes.
LEMMA DisconnectStep ==
  ASSUME Inv, NEW s \in DOMAIN sock, NEW x \in Side,
         proc[s][x] \notin Used, Disconnect(s, x),
         UNCHANGED <<connectTask, sock, cb, conns>>,
         ngBlackList' \in [Node -> SUBSET Node]
  PROVE  Inv'
<1>1. "end" \in Stage \ Used /\ "end" # "add"
  BY DEF Stage, Used
<1>2. /\ proc' = [proc EXCEPT ![s][x] = "end"]
      /\ open' = [open EXCEPT ![s][x] = FALSE]
      /\ UNCHANGED <<sock, cb, conns, removing>>
  BY DEF Disconnect
<1>3. /\ proc' \in [Sock -> [Side -> Stage]] /\ open' \in [Sock -> [Side -> BOOLEAN]]
      /\ Fresh' /\ Proved' /\ Entries' /\ Waiting' /\ Listed'
      /\ WithinLimit' /\ RemovalMeant'
  BY <1>1, <1>2, BeforeTable
<1>4. Types'
  BY <1>2, <1>3 DEF Inv, Types
<1> QED
  BY <1>3, <1>4 DEF Inv

\* The goroutine moves on before the table, its socket as it was.
LEMMA MoveStep ==
  ASSUME Inv, NEW s \in DOMAIN sock, NEW x \in Side, NEW v \in Stage \ Used,
         proc[s][x] \notin Used,
         proc' = [proc EXCEPT ![s][x] = v],
         UNCHANGED <<connectTask, sock, open, cb, conns, removing, ngBlackList>>,
         v = "add" => IF x = "d" THEN /\ sock[s].r = sock[s].want
                                      /\ sock[s].r \notin Old
                                      /\ sock[s].r \notin Light
                      ELSE /\ ChainID[sock[s].d] = ChainID[sock[s].r]
                           /\ sock[s].d \notin Old
  PROVE  Inv'
<1>3. /\ proc' \in [Sock -> [Side -> Stage]] /\ open' \in [Sock -> [Side -> BOOLEAN]]
      /\ Fresh' /\ Proved' /\ Entries' /\ Waiting' /\ Listed'
      /\ WithinLimit' /\ RemovalMeant'
  BY BeforeTable
<1>4. Types'
  BY <1>3 DEF Inv, Types
<1> QED
  BY <1>3, <1>4 DEF Inv

\* handshakeTo goes to addConn only with what the response has proved.
LEMMA HandshakeToStep ==
  ASSUME Inv, NEW s \in DOMAIN sock, handshakeTo(s)
  PROVE  Inv'
<1>1. "d" \in Side /\ proc[s]["d"] = "wait" /\ proc[s]["d"] \notin Used
  BY DEF handshakeTo, Side, Used
<1>2. CASE whetherRejectResp(s)
  <2>1. sock[s].want \in Node
    BY SocketEnds, <1>1 DEF Inv
  <2>2. ngBlackList' \in [Node -> SUBSET Node]
    BY <1>2, <2>1 DEF handshakeTo, Inv, Types
  <2> QED
    BY <1>1, <1>2, <2>2, DisconnectStep DEF handshakeTo
<1>3. CASE ~whetherRejectResp(s)
  <2>1. sock[s].r = sock[s].want /\ sock[s].r \notin Old /\ sock[s].r \notin Light
    BY <1>3 DEF whetherRejectResp, At
  <2>2. "add" \in Stage \ Used
    BY DEF Stage, Used
  <2>3. /\ proc' = [proc EXCEPT ![s]["d"] = "add"]
        /\ UNCHANGED <<connectTask, sock, open, cb, conns, removing, ngBlackList>>
    BY <1>3 DEF handshakeTo
  <2> QED
    BY <1>1, <2>1, <2>2, <2>3, MoveStep
<1> QED
  BY <1>2, <1>3

\* A timeout ends the attempt before the table.
LEMMA TimeoutStep ==
  ASSUME Inv, NEW s \in DOMAIN sock, NEW x \in Side, Timeout(s, x)
  PROVE  Inv'
<1>1. proc[s][x] \notin Used
  BY DEF Timeout, Used
<1>2. sock[s].want \in Node /\ At(s, x) \in Node
  BY SocketEnds DEF Inv
<1>3. ngBlackList' \in [Node -> SUBSET Node]
  BY <1>2 DEF Timeout, Inv, Types
<1> QED
  BY <1>1, <1>3, DisconnectStep DEF Timeout

\* What the responder does before the table.
LEMMA ResponderStep ==
  ASSUME Inv, NEW s \in DOMAIN sock, recvConn(s) \/ recvHandshake(s) \/ Refused(s)
  PROVE  Inv'
<1>1. "r" \in Side /\ "r" # "d"
  BY DEF Side
<1>2. {"wait", "refused", "add"} \subseteq Stage \ Used
  BY DEF Stage, Used
<1>3. CASE recvConn(s)
  <2>1. /\ proc[s]["r"] \notin Used
        /\ proc' = [proc EXCEPT ![s]["r"] = "wait"]
        /\ UNCHANGED <<connectTask, sock, open, cb, conns, removing, ngBlackList>>
    BY <1>3 DEF recvConn, Used
  <2> QED
    BY <1>1, <1>2, <2>1, MoveStep
<1>4. CASE Refused(s)
  <2>1. /\ proc[s]["r"] \notin Used /\ Disconnect(s, "r")
        /\ UNCHANGED <<connectTask, sock, cb, conns, ngBlackList>>
    BY <1>4 DEF Refused, Used
  <2> QED
    BY <1>1, <2>1, DisconnectStep DEF Inv, Types
<1>5. CASE recvHandshake(s)
  <2>1. /\ proc[s]["r"] \notin Used
        /\ UNCHANGED <<connectTask, sock, cb, conns, ngBlackList>>
    BY <1>5 DEF recvHandshake, Used
  <2>2. CASE Disconnect(s, "r")
    BY <1>1, <2>1, <2>2, DisconnectStep DEF Inv, Types
  <2>3. CASE proc' = [proc EXCEPT ![s]["r"] = "refused"] /\ UNCHANGED <<open, removing>>
    BY <1>1, <1>2, <2>1, <2>3, MoveStep
  <2>4. CASE /\ ~whetherRejectReq(s)
             /\ proc' = [proc EXCEPT ![s]["r"] = "add"] /\ UNCHANGED <<open, removing>>
    <3>1. ChainID[sock[s].d] = ChainID[sock[s].r] /\ sock[s].d \notin Old
      BY <2>4 DEF whetherRejectReq, At
    <3> QED
      BY <1>1, <1>2, <2>1, <2>4, <3>1, MoveStep
  <2> QED
    BY <1>5, <2>2, <2>3, <2>4 DEF recvHandshake
<1> QED
  BY <1>3, <1>4, <1>5

\* addConn either enters the table or ends the attempt.
LEMMA AddConnStep ==
  ASSUME Inv, NEW s \in DOMAIN sock, NEW x \in Side, addConn(s, x)
  PROVE  Inv'
<1>1. /\ proc[s][x] = "add" /\ proc[s][x] \notin Used
      /\ UNCHANGED <<connectTask, sock, ngBlackList>>
  BY DEF addConn, Used
<1>2. CASE ID(s, x) \in DOMAIN conns[At(s, x)] \/ Full(At(s, x))
  <2>1. Disconnect(s, x) /\ UNCHANGED <<cb, conns>>
    BY <1>2 DEF addConn, Refuse
  <2> QED
    BY <1>1, <2>1, DisconnectStep DEF Inv, Types
<1>3. CASE ~(ID(s, x) \in DOMAIN conns[At(s, x)] \/ Full(At(s, x)))
  <2>1. /\ conns' = [conns EXCEPT ![At(s, x)] =
                       [i \in DOMAIN @ \cup {ID(s, x)} |->
                          IF i = ID(s, x) THEN <<s, x>> ELSE @[i]]]
        /\ cb' = [cb EXCEPT ![s][x] = TRUE]
        /\ proc' = [proc EXCEPT ![s][x] = IF open[s][x] THEN "in" ELSE "dead"]
        /\ UNCHANGED <<open, removing>>
    BY <1>3 DEF addConn
  <2> QED
    BY <1>1, <1>3, <2>1, EnterStep
<1> QED
  BY <1>2, <1>3

-----------------------------------------------------------------------------
(* The theorems *)

\* No node has a connection at first.
LEMMA InitInv == Init => Inv
<1> SUFFICES ASSUME Init PROVE Inv
  OBVIOUS
<1>1. Types
  BY P2PConstants DEF Init, Types, Stage, None
<1>2. Fresh /\ Proved /\ Waiting /\ Listed /\ RemovalMeant
  BY DEF Init, Fresh, Proved, Waiting, Listed, RemovalMeant, Used, None
<1>3. Entries /\ WithinLimit
  <2>1. \A n \in Node : DOMAIN conns[n] = {}
    BY DEF Init
  <2>2. IsFiniteSet({}) /\ Cardinality({}) = 0
    BY FS_EmptySet
  <2>3. 0 <= maxPeersNum
    BY P2PConstants
  <2> QED
    BY <2>1, <2>2, <2>3 DEF Entries, WithinLimit, size
<1> QED
  BY <1>1, <1>2, <1>3 DEF Inv

\* Every step of every node keeps the invariant.
LEMMA NextInv == Inv /\ [Next]_vars => Inv'
<1> SUFFICES ASSUME Inv, [Next]_vars PROVE Inv'
  OBVIOUS
<1>1. ASSUME NEW n \in Node, loop(n) PROVE Inv'
  BY <1>1, LoopStep
<1>2. ASSUME NEW s \in DOMAIN sock, NEW x \in Side, Goes(s, x) PROVE Inv'
  BY <1>2, HandshakeToStep, ResponderStep, AddConnStep, TimeoutStep DEF Goes
<1>3. ASSUME NEW s \in DOMAIN sock, NEW x \in Side, Write(s, x) PROVE Inv'
  BY <1>3, Aside DEF Write, Inv, Types
<1>4. ASSUME NEW s \in DOMAIN sock, NEW x \in Side, RemoteClosed(s, x) PROVE Inv'
  BY <1>4, StopStep DEF RemoteClosed
<1>5. ASSUME NEW s \in DOMAIN sock, NEW x \in Side, Breaks(s, x) PROVE Inv'
  BY <1>5, StopStep DEF Breaks
<1>6. ASSUME NEW n \in Node, getPeersToConnect(n) PROVE Inv'
  <2>1. PICK ps \in SUBSET (Finds[n] \ getExcludePeers(n)) :
          connectTask' = [connectTask EXCEPT ![n] = ps]
    BY <1>6 DEF getPeersToConnect
  <2>2. ps \subseteq Node
    BY P2PConstants
  <2>3. UNCHANGED <<sock, proc, open, cb, conns, removing, ngBlackList>>
    BY <1>6 DEF getPeersToConnect, sockVars
  <2>4. Types'
    BY <2>1, <2>2, <2>3 DEF Inv, Types
  <2> QED
    BY <2>3, <2>4, Aside
<1>7. ASSUME NEW n \in Node, cleanNgBlackList(n) PROVE Inv'
  <2>1. UNCHANGED <<connectTask, sock, proc, open, cb, conns, removing>>
    BY <1>7 DEF cleanNgBlackList, sockVars
  <2>2. Types'
    BY <1>7, <2>1 DEF cleanNgBlackList, Inv, Types
  <2> QED
    BY <2>1, <2>2, Aside
<1>8. ASSUME NEW n \in Node, NEW p \in Node, setupConn(n, p) PROVE Inv'
  BY <1>8, SetupConnStep
<1>9. CASE UNCHANGED vars
  <2>1. UNCHANGED <<connectTask, sock, proc, open, cb, conns, removing, ngBlackList>>
    BY <1>9 DEF vars, sockVars
  <2> QED
    BY <2>1, Aside DEF Inv, Types
<1> QED
  BY <1>1, <1>2, <1>3, <1>4, <1>5, <1>6, <1>7, <1>8, <1>9 DEF Next, Runs

\* So it always holds.
LEMMA Invariance == Spec => []Inv
  BY InitInv, NextInv, PTL DEF Spec

\* Of whatever socket the table knows, the handshake at this end has proved
\* the node at the other end.
LEMMA InvAuthentic == Inv => Authentic
<1> SUFFICES ASSUME Inv PROVE Authentic
  OBVIOUS
<1>1. ASSUME NEW n \in Node, NEW i \in DOMAIN conns[n]
      PROVE  /\ At(conns[n][i][1], conns[n][i][2]) = n
             /\ At(conns[n][i][1], Other(conns[n][i][2])) = i
  <2>1. PICK s \in DOMAIN sock, x \in Side :
          /\ conns[n][i] = <<s, x>>
          /\ At(s, x) = n /\ ID(s, x) = i /\ proc[s][x] \in Used
    BY DEF Inv, Entries
  <2>2. At(s, Other(x)) = ID(s, x)
    BY <2>1 DEF Inv, Proved, At, ID, Other, Side, Used
  <2> QED
    BY <2>1, <2>2
<1>2. ASSUME NEW s \in DOMAIN sock,
             \A x \in Side : <<s, x>> \in Connected(At(s, x))
      PROVE  /\ At(s, "r") \notin Light
             /\ ChainID[At(s, "d")] = ChainID[At(s, "r")]
             /\ At(s, "d") \notin Old /\ At(s, "r") \notin Old
  <2>1. ASSUME NEW x \in Side PROVE proc[s][x] \in Used
    <3>1. PICK i \in DOMAIN conns[At(s, x)] : conns[At(s, x)][i] = <<s, x>>
      BY <1>2 DEF Connected
    <3>2. At(s, x) \in Node
      BY SocketEnds DEF Inv
    <3>3. PICK t \in DOMAIN sock, y \in Side :
            conns[At(s, x)][i] = <<t, y>> /\ proc[t][y] \in Used
      BY <3>1, <3>2 DEF Inv, Entries
    <3> QED
      BY <3>1, <3>3
  <2> QED
    BY <2>1 DEF Inv, Proved, At, Side, Used
<1> QED
  BY <1>1, <1>2 DEF Authentic

\* Types, and that only connections in the table have a callback: the whole
\* of what conn_manager.go and tcp.go keep per connection is well formed.
THEOREM TypeCorrect == Spec => []TypeOK
<1>1. Inv => TypeOK
  <2> SUFFICES ASSUME Inv PROVE TypeOK
    OBVIOUS
  <2>1. ASSUME NEW n \in Node, NEW i \in DOMAIN conns[n]
        PROVE  conns[n][i] \in Sock \X Side
    <3>1. PICK s \in DOMAIN sock, x \in Side : conns[n][i] = <<s, x>>
      BY DEF Inv, Entries
    <3>2. s \in Sock
      BY SocketEnds DEF Inv
    <3> QED
      BY <3>1, <3>2
  <2> QED
    BY <2>1 DEF Inv, Types, Fresh, TypeOK, Stage, Used
<1> QED
  BY <1>1, Invariance, PTL

\* However many handshakes run at once, no node holds more than maxPeersNum
\* connections: addConn looks for room again under the table's lock.
THEOREM NeverTooMany == Spec => []WithinLimit
<1>1. Inv => WithinLimit
  BY DEF Inv
<1> QED
  BY <1>1, Invariance, PTL

\* Behind an ID of the table is the node of that ID, and a connection that
\* both ends use joins two nodes that the handshake's conditions allow.
THEOREM PeersAuthentic == Spec => []Authentic
  BY InvAuthentic, Invariance, PTL

\* Removal by ID, queued by a callback and done later by the manager's loop,
\* never hits an open connection.
THEOREM RemovesOnlyClosed == Spec => []RemovalMeant
<1>1. Inv => RemovalMeant
  BY DEF Inv
<1> QED
  BY <1>1, Invariance, PTL
=============================================================================
