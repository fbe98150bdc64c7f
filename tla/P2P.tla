-------------------------------- MODULE P2P ---------------------------------
(***************************************************************************)
(* How the nodes of the p2p layer find each other and set up connections:  *)
(* node.go, the negotiator, the connection manager's table and the TCP     *)
(* connections below (utils/tcp.go).                                       *)
(*                                                                         *)
(* Every attempt is a socket with two ends, the dialer's "d" and the       *)
(* responder's "r". At each end a goroutine carries the attempt through    *)
(* the handshake into the table (proc), while the socket may be closed     *)
(* under it by the end of the other side (open). Closing loses what the    *)
(* send loop has not written yet, and calls back the manager only when the *)
(* callback is already set (cb).                                           *)
(*                                                                         *)
(* Abstracted: keys, signatures and sessions. A request carries its        *)
(* sender; a response verifies only with the key of the node that made it. *)
(***************************************************************************)
EXTENDS Integers, FiniteSets, Sequences

CONSTANTS
  Node,
  Finds,         \* node -> the peers its provider returns
  Moved,         \* node -> the nodes that may sit at its old address now
  Light,         \* light nodes; the others are full nodes
  ChainID,       \* node -> its chain
  Old,           \* nodes whose code is below MinimizeVersionRequired
  maxPeersNum,
  MaxSock,       \* bound: attempts
  MaxFaults      \* bound: timeouts of slow answers, connections that break

ASSUME P2PConstants ==
  /\ Finds \in [Node -> SUBSET Node] /\ \A n \in Node : n \notin Finds[n]
  /\ Moved \in [Node -> SUBSET Node]
  /\ Light \subseteq Node /\ Old \subseteq Node /\ DOMAIN ChainID = Node
  /\ maxPeersNum \in Nat \ {0} /\ MaxSock \in Nat /\ MaxFaults \in Nat

Sock == 1 .. MaxSock
Side == {"d", "r"}
Other(x) == IF x = "d" THEN "r" ELSE "d"
None == "none"

VARIABLES
  connectTask,   \* node -> peers to connect to
  sock,          \* the sockets so far: the node at each end, and the peer wanted
  proc,          \* socket, side -> where the goroutine of the attempt is
  open,          \* socket, side -> whether the socket is open there
  out,           \* socket, side -> what was sent, and whether it is written
  cb,            \* socket, side -> whether the disconnect callback is set
  accept,        \* socket -> whether the responder had room
  conns,         \* node -> peer ID -> the end of a socket
  removing,      \* node -> IDs that the manager's loop has to remove
  ngBlackList,   \* node -> IDs it does not dial again
  faults         \* counter for the bound

sockVars == <<sock, proc, open, out, cb, accept>>
vars == <<connectTask, sockVars, conns, removing, ngBlackList, faults>>

At(s, x) == sock[s][x]

\* The peer that the node at this end takes the other one for.
ID(s, x) == IF x = "d" THEN sock[s].want ELSE sock[s].d

-----------------------------------------------------------------------------
(* Closing a connection *)

Nothing == [msg |-> None, written |-> FALSE]

\* Mutant: nobody is called back.
Callback_no(s, x) == {}

\* The callback, if there is one, queues the ID for the manager's loop.
Callback(s, x) == IF open[s][x] /\ cb[s][x] THEN {ID(s, x)} ELSE {}

\* tcpConn.stop at this end: what is not written is lost.
stop(s, x) ==
  /\ open' = [open EXCEPT ![s][x] = FALSE]
  /\ out' = [out EXCEPT ![s][x] = IF @.written THEN @ ELSE Nothing]
  /\ removing' = [removing EXCEPT ![At(s, x)] = @ \cup Callback(s, x)]

\* The attempt ends here without a connection.
Disconnect(s, x) ==
  /\ open' = [open EXCEPT ![s][x] = FALSE]
  /\ out' = [out EXCEPT ![s][x] = IF @.written THEN @ ELSE Nothing,
                        ![s][Other(x)] = Nothing]
  /\ proc' = [proc EXCEPT ![s][x] = "end"]
  /\ UNCHANGED removing

\* The recv loop meets the end of the stream, after all that was written.
RemoteClosed(s, x) ==
  /\ open[s][x] /\ proc[s][x] # None /\ ~open[s][Other(x)]
  /\ stop(s, x)
  /\ UNCHANGED <<connectTask, sock, proc, cb, accept, conns, ngBlackList, faults>>

\* The connection breaks: a failed write, or a packet that cannot be decrypted.
Breaks(s, x) ==
  /\ open[s][x] /\ proc[s][x] = "in" /\ faults < MaxFaults
  /\ stop(s, x) /\ faults' = faults + 1
  /\ UNCHANGED <<connectTask, sock, proc, cb, accept, conns, ngBlackList>>

\* The send loop writes the packet.
Write(s, x) ==
  /\ open[s][x] /\ out[s][x].msg # None /\ ~out[s][x].written
  /\ out' = [out EXCEPT ![s][x].written = TRUE]
  /\ UNCHANGED <<connectTask, sock, proc, open, cb, accept, conns, removing,
                 ngBlackList, faults>>

\* The manager's loop deletes a connection by its ID.
loop(n) ==
  /\ \E id \in removing[n] :
       /\ removing' = [removing EXCEPT ![n] = @ \ {id}]
       /\ conns' = [conns EXCEPT ![n] = [i \in DOMAIN @ \ {id} |-> @[i]]]
  /\ UNCHANGED <<connectTask, sockVars, ngBlackList, faults>>

-----------------------------------------------------------------------------
(* Dialing *)

size(n) == Cardinality(DOMAIN conns[n])

getExcludePeers(n) == ngBlackList[n] \cup DOMAIN conns[n]

\* The ticker's 10 seconds are enough for the loop to empty connectTask.
getPeersToConnect(n) ==
  /\ size(n) < maxPeersNum /\ connectTask[n] = {}
  /\ \E ps \in SUBSET (Finds[n] \ getExcludePeers(n)) :
       /\ ps # {} /\ Cardinality(ps) <= maxPeersNum - size(n)
       /\ connectTask' = [connectTask EXCEPT ![n] = ps]
  /\ UNCHANGED <<sockVars, conns, removing, ngBlackList, faults>>

\* setupConn up to the request: nothing when the peer is connected already,
\* or when nobody answers at the address, where another node may sit now.
\* The node with the larger ID comes 10 seconds later, at no certain time.
setupConn(n, p) ==
  /\ p \in connectTask[n]
  /\ connectTask' = [connectTask EXCEPT ![n] = @ \ {p}]
  /\ \/ UNCHANGED sockVars      \* connected already, or the dial fails
     \/ /\ p \notin DOMAIN conns[n]
        /\ \E s \in Sock, r \in {p} \cup Moved[p] :
             /\ s = Len(sock) + 1 /\ r # n
             /\ sock' = Append(sock, [d |-> n, r |-> r, want |-> p])
             /\ proc' = [proc EXCEPT ![s]["d"] = "wait", ![s]["r"] = "queue"]
             /\ open' = [open EXCEPT ![s] = [x \in Side |-> TRUE]]
             /\ out' = [out EXCEPT ![s]["d"] = [msg |-> "request", written |-> TRUE]]
             /\ UNCHANGED <<cb, accept>>
  /\ UNCHANGED <<conns, removing, ngBlackList, faults>>

Readable(s, x) == out[s][Other(x)].msg # None /\ out[s][Other(x)].written

\* Mutant: the signature of the response is not verified.
whetherRejectResp_any(s) ==
  LET r == At(s, "r")
  IN  out[s]["r"].msg = "reject" \/ r \in Old \/ r \in Light

\* The response is signed by the peer that was wanted, accepts, and comes
\* from a full node with recent code.
whetherRejectResp(s) ==
  LET r == At(s, "r")
  IN  r # sock[s].want \/ out[s]["r"].msg = "reject" \/ r \in Old \/ r \in Light

\* handshakeTo: the response comes; what is refused goes to the black list.
handshakeTo(s) ==
  /\ proc[s]["d"] = "wait" /\ Readable(s, "d")
  /\ IF whetherRejectResp(s)
     THEN /\ Disconnect(s, "d")
          /\ ngBlackList' = [ngBlackList EXCEPT ![At(s, "d")] = @ \cup {sock[s].want}]
     ELSE /\ proc' = [proc EXCEPT ![s]["d"] = "add"]
          /\ out' = [out EXCEPT ![s]["r"] = Nothing]
          /\ UNCHANGED <<open, removing, ngBlackList>>
  /\ UNCHANGED <<connectTask, sock, cb, accept, conns, faults>>

\* Bound: only MaxFaults waits end while the packet may still come.
Late(s, x) ==
  /\ ~Readable(s, x)
  /\ LET gone == ~open[s][Other(x)]
     IN  /\ gone \/ faults < MaxFaults
         /\ faults' = IF gone THEN faults ELSE faults + 1

\* Mutant: an attempt that times out keeps its socket.
Timeout_kept(s, x) ==
  /\ proc[s][x] = "wait" /\ Late(s, x)
  /\ proc' = [proc EXCEPT ![s][x] = "end"]
  /\ UNCHANGED <<connectTask, sock, open, out, cb, accept, conns, removing, ngBlackList>>

\* readPacket gives up after 5 seconds; a closed socket does not wake it.
Timeout(s, x) ==
  /\ proc[s][x] = "wait" /\ Late(s, x)
  /\ Disconnect(s, x)
  /\ ngBlackList' = [ngBlackList EXCEPT ![At(s, x)] =
       IF x = "d" THEN @ \cup {sock[s].want} ELSE @]
  /\ UNCHANGED <<connectTask, sock, cb, accept, conns>>

cleanNgBlackList(n) ==
  /\ ngBlackList[n] # {}
  /\ ngBlackList' = [ngBlackList EXCEPT ![n] = {}]
  /\ UNCHANGED <<connectTask, sockVars, conns, removing, faults>>

-----------------------------------------------------------------------------
(* Being dialed *)

\* recvConn: whether there is room is decided before the handshake.
recvConn(s) ==
  /\ proc[s]["r"] = "queue"
  /\ proc' = [proc EXCEPT ![s]["r"] = "wait"]
  /\ accept' = [accept EXCEPT ![s] = size(At(s, "r")) < maxPeersNum]
  /\ UNCHANGED <<connectTask, sock, open, out, cb, conns, removing,
                 ngBlackList, faults>>

whetherRejectReq(s) ==
  LET n == At(s, "r") d == At(s, "d")
  IN  ChainID[d] # ChainID[n] \/ d \in Old \/ {n, d} \subseteq Light

\* recvHandshake: without room, a response that refuses, then the end; for a
\* request that does not fit the end without a response.
recvHandshake(s) ==
  /\ proc[s]["r"] = "wait" /\ Readable(s, "r")
  /\ \/ /\ ~accept[s]
        /\ proc' = [proc EXCEPT ![s]["r"] = "refused"]
        /\ out' = [out EXCEPT ![s]["r"] = [msg |-> "reject", written |-> FALSE],
                              ![s]["d"] = Nothing]
        /\ UNCHANGED <<open, removing>>
     \/ accept[s] /\ whetherRejectReq(s) /\ Disconnect(s, "r")
     \/ /\ accept[s] /\ ~whetherRejectReq(s)
        /\ proc' = [proc EXCEPT ![s]["r"] = "add"]
        /\ out' = [out EXCEPT ![s]["r"] = [msg |-> "accept", written |-> FALSE],
                              ![s]["d"] = Nothing]
        /\ UNCHANGED <<open, removing>>
  /\ accept' = [accept EXCEPT ![s] = FALSE]
  /\ UNCHANGED <<connectTask, sock, cb, conns, ngBlackList, faults>>

Refused(s) ==
  /\ proc[s]["r"] = "refused" /\ Disconnect(s, "r")
  /\ UNCHANGED <<connectTask, sock, cb, accept, conns, ngBlackList, faults>>

-----------------------------------------------------------------------------
(* The table *)

\* Mutant: room is not looked for again.
Full_no(n) == FALSE

Full(n) == size(n) >= maxPeersNum

\* Mutant: the callback is set before the table is looked at.
Refuse_called(s, x) ==
  /\ cb' = [cb EXCEPT ![s][x] = TRUE]
  /\ open' = [open EXCEPT ![s][x] = FALSE] /\ UNCHANGED out
  /\ removing' = [removing EXCEPT ![At(s, x)] = @ \cup {ID(s, x)}]
  /\ proc' = [proc EXCEPT ![s][x] = "end"]

\* A connection that does not enter the table is closed, without callback.
Refuse(s, x) == Disconnect(s, x) /\ UNCHANGED cb

\* addConn: the connection enters the table, is called back from now on and
\* starts its loop; or there is one already, or no room any more. The code
\* does not tell "dead" from "in": the socket is closed already.
addConn(s, x) ==
  LET n == At(s, x)
  IN  /\ proc[s][x] = "add"
      /\ IF ID(s, x) \in DOMAIN conns[n] \/ Full(n)
         THEN Refuse(s, x) /\ UNCHANGED conns
         ELSE /\ conns' = [conns EXCEPT ![n] =
                   [i \in DOMAIN @ \cup {ID(s, x)} |->
                      IF i = ID(s, x) THEN <<s, x>> ELSE @[i]]]
              /\ cb' = [cb EXCEPT ![s][x] = TRUE]
              /\ proc' = [proc EXCEPT ![s][x] = IF open[s][x] THEN "in" ELSE "dead"]
              /\ UNCHANGED <<open, out, removing>>
      /\ UNCHANGED <<connectTask, sock, accept, ngBlackList, faults>>

Init ==
  /\ connectTask = [n \in Node |-> {}]
  /\ sock = <<>>
  /\ proc = [s \in Sock |-> [x \in Side |-> None]]
  /\ open = [s \in Sock |-> [x \in Side |-> FALSE]]
  /\ out = [s \in Sock |-> [x \in Side |-> Nothing]]
  /\ cb = [s \in Sock |-> [x \in Side |-> FALSE]]
  /\ accept = [s \in Sock |-> FALSE]
  /\ conns = [n \in Node |-> <<>>]
  /\ removing = [n \in Node |-> {}]
  /\ ngBlackList = [n \in Node |-> {}]
  /\ faults = 0

\* The steps that a goroutine of the end takes by itself.
Goes(s, x) ==
  \/ x = "d" /\ handshakeTo(s)
  \/ x = "r" /\ (recvConn(s) \/ recvHandshake(s) \/ Refused(s))
  \/ addConn(s, x) \/ Timeout(s, x)

\* What the loops and goroutines do by themselves.
Runs ==
  \/ \E n \in Node : loop(n)
  \/ \E s \in DOMAIN sock, x \in Side :
       Goes(s, x) \/ Write(s, x) \/ RemoteClosed(s, x)

Next ==
  \/ Runs
  \/ \E n \in Node : getPeersToConnect(n) \/ cleanNgBlackList(n)
  \/ \E n \in Node, p \in Node : setupConn(n, p)
  \/ \E s \in DOMAIN sock, x \in Side : Breaks(s, x)

Spec == Init /\ [][Next]_vars

\* While some goroutine can go on, one does. Nobody has to dial.
FairSpec == Spec /\ WF_vars(Runs)

-----------------------------------------------------------------------------
(* Properties *)

\* Types; only connections in the table have a callback.
TypeOK ==
  /\ connectTask \in [Node -> SUBSET Node]
  /\ \A n \in Node : \A i \in DOMAIN conns[n] : conns[n][i] \in Sock \X Side
  /\ removing \in [Node -> SUBSET Node] /\ ngBlackList \in [Node -> SUBSET Node]
  /\ proc \in [Sock -> [Side -> {None, "queue", "wait", "refused", "add", "in", "dead", "end"}]]
  /\ open \in [Sock -> [Side -> BOOLEAN]] /\ cb \in [Sock -> [Side -> BOOLEAN]]
  /\ \A s \in Sock, x \in Side : cb[s][x] => proc[s][x] \in {"in", "dead"}

Connected(n) == {conns[n][i] : i \in DOMAIN conns[n]}

\* However many handshakes run at once, a node never holds more connections
\* than maxPeersNum (conn_manager.go:118).
WithinLimit == \A n \in Node : size(n) <= maxPeersNum

\* The table names each peer by the key it has proved: behind the ID is the
\* node of that ID, also when another one has taken over the address. A
\* connection that both ends use is never one to a light node, nor one between
\* two chains, nor one with old code (error.go:15).
Authentic ==
  /\ \A n \in Node : \A i \in DOMAIN conns[n] :
       LET e == conns[n][i]
       IN  /\ At(e[1], e[2]) = n
           /\ At(e[1], Other(e[2])) = i
  /\ \A s \in DOMAIN sock :
       (\A x \in Side : <<s, x>> \in Connected(At(s, x)))
         => /\ At(s, "r") \notin Light
            /\ ChainID[At(s, "d")] = ChainID[At(s, "r")]
            /\ At(s, "d") \notin Old /\ At(s, "r") \notin Old

\* The manager's loop removes by ID. It never removes a connection that is
\* open at this end, in particular not when the one that was closed was a
\* duplicate of it.
RemovalMeant ==
  \A n \in Node : \A id \in removing[n] \cap DOMAIN conns[n] :
    LET e == conns[n][id] IN ~open[e[1]][e[2]]

\* Every attempt ends: in the table, or closed at this end. Once no more
\* attempts are made, no goroutine and no socket is left behind.
AttemptsEnd ==
  []<>(\A s \in DOMAIN sock, x \in Side :
         proc[s][x] \in {"in", "dead"} \/ (proc[s][x] = "end" /\ ~open[s][x]))

\* A connection that is closed at one end leaves both tables, unless it was
\* closed in the moment between the handshake and the callback
\* (conn_manager.go:124): such an entry stays for ever.
HalfOpenEnds ==
  []<>(\A s \in DOMAIN sock, x \in Side :
         <<s, x>> \in Connected(At(s, x)) =>
           proc[s][x] = "dead" \/ \A y \in Side : open[s][y])
=============================================================================
