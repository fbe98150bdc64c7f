-------------------------------- MODULE Sync --------------------------------
(***************************************************************************)
(* The core protocol of core/net.go between several nodes: the two-step    *)
(* synchronisation of blocks and the flooding of broadcasts.               *)
(*                                                                         *)
(* A node asks for the successors of its branch heads (SyncReq), keeps one *)
(* answer per peer, turns the answers into block requests, and counts the  *)
(* blocks that arrive against the number announced. Packets travel in      *)
(* order on one connection per pair of nodes; they may be lost at a full   *)
(* queue, and the 80 seconds after which a request is given up may pass    *)
(* while answers to it are still on their way.                             *)
(*                                                                         *)
(* Abstracted: a block is its hash in a tree of hashes. The chain of a node*)
(* (module Chain) is its set of branch heads and the head of the longest   *)
(* branch; every block is valid. Evidence broadcasts use the code of block *)
(* broadcasts and end in the pool (module EvPool) instead of the chain.    *)
(***************************************************************************)
EXTENDS Integers, Sequences, FiniteSets

CONSTANTS
  Node,
  Peers,         \* node -> the nodes it is connected with
  Hash, Genesis, Parent, Depth,  \* the tree of blocks, as in module Chain
  Start,         \* ways to start: node -> the head of its only branch
  Mines,         \* node -> the blocks it may find
  Ready,         \* nodes that have finished initialising already
  Asking,        \* nodes whose sync ticker fires
  Chunk,         \* maxBlocksNumInResponse
  SyncMax,       \* chain.go: syncMaxBlocks
  Wrap,          \* stands for 2^32, the modulus of remainNums
  MaxPending,    \* chain.go: capacity of pendingBlocks
  MaxFlight,     \* bound: packets under way from one node to another
  MaxLost,       \* bound: packets lost
  Early          \* bound: how many ticks, and how many timeouts, may find
                 \*   an answer still under way: a set of pairs

ASSUME SyncTree ==
  /\ Genesis \in Hash
  /\ Parent \in [Hash \ {Genesis} -> Hash]
  /\ Depth \in [Hash -> Nat \ {0}]
  /\ \A h \in Hash \ {Genesis} : Depth[h] = Depth[Parent[h]] + 1

ASSUME SyncBounds ==
  /\ Start \subseteq [Node -> Hash] /\ Mines \in [Node -> SUBSET Hash]
  /\ Peers \in [Node -> SUBSET Node]
  /\ \A n \in Node : n \notin Peers[n] /\ \A m \in Peers[n] : n \in Peers[m]
  /\ Ready \subseteq Node /\ Asking \subseteq Node
  /\ {Chunk, SyncMax, Wrap, MaxPending, MaxFlight} \subseteq Nat \ {0}
  /\ MaxLost \in Nat /\ Early \subseteq Nat \X Nat

VARIABLES
  heads,           \* node -> heads of its branches
  longest,         \* node -> head of the longest branch
  lastHeight,      \* node -> height of the longest branch when it was last chosen
  pendingBlocks,   \* node -> batches the chain has not looked at
  inited,          \* node -> whether the initial synchronisation is over
  watingHash,      \* node -> whether answers to SyncReq are welcome
  syncHashResp,    \* node -> the answers, by peer
  waitingBlocks,   \* node -> the block requests under way, by peer
  broadcastFilter, \* node -> the broadcasts it has sent
  flight,          \* pair of nodes -> packets under way
  lost, early      \* counters for the bounds

chainVars == <<heads, longest, lastHeight, pendingBlocks>>
netVars == <<inited, watingHash, syncHashResp, waitingBlocks, broadcastFilter>>
vars == <<chainVars, netVars, flight, lost, early>>

Link == {l \in Node \X Node : l[2] \in Peers[l[1]]}
Empty == <<>>

-----------------------------------------------------------------------------
(* The chain of a node *)

Path[h \in Hash] == IF h = Genesis THEN {h} ELSE {h} \cup Path[Parent[h]]

Known(n) == UNION {Path[h] : h \in heads[n]}

\* The block of depth d on the way to h.
At(h, d) == CHOOSE g \in Path[h] : Depth[g] = d

\* The blocks after base up to end, in the order of the chain.
Between(base, end) ==
  [i \in 1 .. Depth[end] - Depth[base] |-> At(end, Depth[base] + i)]

\* How many blocks of the batch follow each other.
Linked(batch) ==
  CHOOSE k \in DOMAIN batch :
    /\ \A i \in 2 .. k : Parent[batch[i]] = batch[i-1]
    /\ k = Len(batch) \/ Parent[batch[k+1]] # batch[k]

\* chain.go notifyCheck: choose among the highest branches when they are
\* higher than the last choice was. grown is the head of the longest branch,
\* which the batch at hand may have moved.
notifyCheck(n, grown) ==
  \E h \in heads'[n] :
    /\ \A g \in heads'[n] : Depth[g] <= Depth[h]
    /\ LET higher == Depth[h] > lastHeight[n]
       IN  /\ longest' = [longest EXCEPT ![n] = IF higher THEN h ELSE grown]
           /\ lastHeight' = [lastHeight EXCEPT ![n] = IF higher THEN Depth[h] ELSE @]

\* chain.go addBlocks: a batch extends a branch, maybe the longest one, or
\* opens a branch. The blocks behind a gap are left out, and no longer branch
\* is looked for when there was a gap.
addBlocks(n, batch) ==
  LET first == batch[1]
      last == batch[Linked(batch)]
      grown == IF Parent[first] = longest[n] THEN last ELSE longest[n]
      fits == Parent[first] \in heads[n]
                \/ (Parent[first] \in Known(n) /\ first \notin Known(n))
  IN  IF fits
      THEN /\ heads' = [heads EXCEPT ![n] = (@ \ {Parent[first]}) \cup {last}]
           /\ IF last = batch[Len(batch)] THEN notifyCheck(n, grown)
              ELSE /\ longest' = [longest EXCEPT ![n] = grown]
                   /\ UNCHANGED lastHeight
      ELSE UNCHANGED <<heads, longest, lastHeight>>

\* chain.go AddBlocks: hand a batch to the chain, wait while its queue is full.
AddBlocks(n, batch) ==
  /\ Len(pendingBlocks[n]) < MaxPending
  /\ pendingBlocks' = [pendingBlocks EXCEPT ![n] = Append(@, batch)]

\* The chain's loop takes a batch.
ChainLoop(n) ==
  /\ pendingBlocks[n] # <<>>
  /\ addBlocks(n, Head(pendingBlocks[n]))
  /\ pendingBlocks' = [pendingBlocks EXCEPT ![n] = Tail(@)]
  /\ UNCHANGED <<netVars, flight, lost, early>>

\* Possible answers to a request for the successors of base; none for a hash
\* that is not on the longest branch. The cache answers with all of them, the
\* database with those it has, at most SyncMax.
GetSyncHash(n, base) ==
  IF base \notin Path[longest[n]] THEN {}
  ELSE LET ahead == Depth[longest[n]] - Depth[base]
       IN  {[type |-> "SyncResp", uptodate |-> ahead = 0, base |-> base,
             end |-> At(longest[n], Depth[base] + diff), diff |-> diff] :
              diff \in {d \in 0 .. ahead : d = ahead \/ d \in 1 .. SyncMax}}

GetSyncBlocks(n, base, end) ==
  IF {base, end} \subseteq Path[longest[n]] /\ Depth[base] < Depth[end]
  THEN Between(base, end) ELSE <<>>

-----------------------------------------------------------------------------
(* Packets: the send queue, the p2p layer and the receiver's queue *)

\* Room for k packets on every link of a set: the bound of the model.
Room(links, k) == \A l \in links : Len(flight[l]) + k <= MaxFlight
Out(n) == {l \in Link : l[1] = n}

\* broadcast: put msgs on the way to all peers, without what is too much for
\* a queue. q is the state of the links after the packet at hand was taken.
broadcast(n, q, msgs) ==
  flight' = [l \in Link |->
    IF l \in Out(n) /\ Len(q[l]) + Len(msgs) <= MaxFlight
    THEN q[l] \o msgs ELSE q[l]]

Taken(n, m) == [flight EXCEPT ![<<m, n>>] = Tail(@)]

\* Take the packet of m and answer with msgs.
Reply(n, m, msgs) ==
  /\ Room({<<n, m>>}, Len(msgs))
  /\ flight' = [Taken(n, m) EXCEPT ![<<n, m>>] = @ \o msgs]

\* A packet is dropped where the receiver's queue is full.
Lose(m, n) ==
  /\ flight[<<m, n>>] # <<>> /\ lost < MaxLost
  /\ flight' = [flight EXCEPT ![<<m, n>>] = Tail(@)]
  /\ lost' = lost + 1
  /\ UNCHANGED <<chainVars, netVars, early>>

-----------------------------------------------------------------------------
(* sync: every tick of the sync ticker *)

\* A tick comes 1 or 5 seconds after the last one, a timeout 80 seconds after
\* the last answer. Bound: only so many find packets of the question still
\* under way.
InTime(quiet, next) ==
  /\ quiet \/ next \in Early
  /\ early' = IF quiet THEN early ELSE next

OneMoreTick == <<early[1] + 1, early[2]>>
OneMoreTimeout == <<early[1], early[2] + 1>>

Underway(l, type) == \E i \in DOMAIN flight[l] : flight[l][i].type = type

Answered(n) == \A p \in Peers[n] :
  ~Underway(<<n, p>>, "SyncReq") /\ ~Underway(<<p, n>>, "SyncResp")

SyncReq(h) == [type |-> "SyncReq", base |-> h]

\* No answers yet: ask everybody about every branch, a packet per branch.
RequestHash(n) ==
  /\ n \in Asking
  /\ waitingBlocks[n] = Empty /\ syncHashResp[n] = Empty
  /\ \E order \in [1 .. Cardinality(heads[n]) -> heads[n]] :
       /\ \A h \in heads[n] : \E i \in DOMAIN order : order[i] = h
       /\ InTime(Answered(n), OneMoreTick)
       /\ broadcast(n, flight, [i \in DOMAIN order |-> SyncReq(order[i])])
  /\ watingHash' = [watingHash EXCEPT ![n] = TRUE]
  /\ UNCHANGED <<chainVars, inited, syncHashResp, waitingBlocks,
                 broadcastFilter, lost>>

\* Mutant: an answer that this node is up to date is not skipped.
Behind_all(n) == DOMAIN syncHashResp[n]

\* The peers whose answer names blocks.
Behind(n) == {p \in DOMAIN syncHashResp[n] : ~syncHashResp[n][p].uptodate}

Same(r, s) == r.end = s.end /\ r.diff = s.diff

\* Peers to ask, one for each different answer; the map has no order.
Chosen(n, ask) ==
  /\ ask \subseteq Behind(n)
  /\ \A p \in Behind(n) :
       Cardinality({q \in ask : Same(syncHashResp[n][p], syncHashResp[n][q])}) = 1

\* The answers become block requests. When all say that this node is up to
\* date, the initial synchronisation is over.
RequestBlocks(n) ==
  /\ n \in Asking
  /\ waitingBlocks[n] = Empty /\ syncHashResp[n] # Empty
  /\ InTime(Answered(n), OneMoreTick)
  /\ \E ask \in SUBSET Peers[n] :
       /\ Chosen(n, ask)
       /\ Room({n} \X ask, 1)
       /\ flight' = [l \in Link |-> flight[l] \o
            (IF l \in {n} \X ask
             THEN <<[type |-> "BlockReq", base |-> syncHashResp[n][l[2]].base,
                     end |-> syncHashResp[n][l[2]].end]>>
             ELSE <<>>)]
       /\ waitingBlocks' = [waitingBlocks EXCEPT ![n] =
            [p \in ask |-> [remainNums |-> syncHashResp[n][p].diff,
                            response |-> <<>>]]]
  /\ inited' = [inited EXCEPT ![n] = @ \/ Behind(n) = {}]
  /\ syncHashResp' = [syncHashResp EXCEPT ![n] = Empty]
  /\ watingHash' = [watingHash EXCEPT ![n] = FALSE]
  /\ UNCHANGED <<chainVars, broadcastFilter, lost>>

Remove(f, p) == [q \in DOMAIN f \ {p} |-> f[q]]

\* Mutant: a request that has timed out is kept.
TimeoutBlocks_kept(n, p) == p \in DOMAIN waitingBlocks[n] /\ UNCHANGED vars

\* A tick that gives up the request to p.
TimeoutBlocks(n, p) ==
  /\ n \in Asking /\ p \in DOMAIN waitingBlocks[n]
  /\ InTime(~Underway(<<n, p>>, "BlockReq") /\ ~Underway(<<p, n>>, "BlockResp"),
            OneMoreTimeout)
  /\ waitingBlocks' = [waitingBlocks EXCEPT ![n] = Remove(@, p)]
  /\ UNCHANGED <<chainVars, inited, watingHash, syncHashResp,
                 broadcastFilter, flight, lost>>

-----------------------------------------------------------------------------
(* handleRecvPacket *)

Packet(m, n) == Head(flight[<<m, n>>])
Receives(n, m, type) ==
  /\ flight[<<m, n>>] # <<>>
  /\ Packet(m, n).type = type

handleSyncRequest(n, m) ==
  /\ Receives(n, m, "SyncReq")
  /\ LET answer == GetSyncHash(n, Packet(m, n).base)
     IN  \/ \E a \in answer : Reply(n, m, <<a>>)
         \/ answer = {} /\ Reply(n, m, <<>>)
  /\ UNCHANGED <<chainVars, netVars, lost, early>>

handleSyncResponse(n, m) ==
  /\ Receives(n, m, "SyncResp")
  /\ Reply(n, m, <<>>)
  /\ syncHashResp' = [syncHashResp EXCEPT ![n] =
       IF watingHash[n]
       THEN [p \in DOMAIN @ \cup {m} |-> IF p = m THEN Packet(m, n) ELSE @[p]]
       ELSE @]
  /\ UNCHANGED <<chainVars, inited, watingHash, waitingBlocks,
                 broadcastFilter, lost, early>>

\* Mutant: the first block of a packet is the last one of the packet before.
Chunks_overlap(blocks) ==
  [i \in 1 .. (Len(blocks) + Chunk - 1) \div Chunk |->
     [type |-> "BlockResp",
      blocks |-> SubSeq(blocks, IF i = 1 THEN 1 ELSE (i - 1) * Chunk,
                        IF i * Chunk < Len(blocks) THEN i * Chunk ELSE Len(blocks))]]

\* Blocks cut into packets of Chunk blocks.
Chunks(blocks) ==
  [i \in 1 .. (Len(blocks) + Chunk - 1) \div Chunk |->
     [type |-> "BlockResp",
      blocks |-> SubSeq(blocks, (i - 1) * Chunk + 1,
                        IF i * Chunk < Len(blocks) THEN i * Chunk ELSE Len(blocks))]]

handleBlocksRequest(n, m) ==
  /\ Receives(n, m, "BlockReq")
  /\ LET req == Packet(m, n)
     IN  Reply(n, m, Chunks(GetSyncBlocks(n, req.base, req.end)))
  /\ UNCHANGED <<chainVars, netVars, lost, early>>

\* remainNums is unsigned: it wraps below zero and is never negative.
subtract(remainNums, k) == (remainNums - k) % Wrap

handleBlocksResponse(n, m) ==
  /\ Receives(n, m, "BlockResp")
  /\ Reply(n, m, <<>>)
  /\ \/ /\ m \notin DOMAIN waitingBlocks[n]
        /\ UNCHANGED <<waitingBlocks, pendingBlocks>>
     \/ /\ m \in DOMAIN waitingBlocks[n]
        /\ LET blocks == Packet(m, n).blocks
               got == waitingBlocks[n][m].response \o blocks
               rest == subtract(waitingBlocks[n][m].remainNums, Len(blocks))
           IN  IF rest = 0
               THEN /\ waitingBlocks' = [waitingBlocks EXCEPT ![n] = Remove(@, m)]
                    /\ AddBlocks(n, got)
               ELSE /\ waitingBlocks' = [waitingBlocks EXCEPT ![n][m] =
                         [remainNums |-> rest, response |-> got]]
                    /\ UNCHANGED pendingBlocks
  /\ UNCHANGED <<heads, longest, lastHeight, inited, watingHash, syncHashResp,
                 broadcastFilter, lost, early>>

Announce(b) == <<[type |-> "Block", block |-> b]>>

\* Mutant: the filter is not looked at.
relayBroadcast_always(n, b) == TRUE

\* Whether this node has not sent the broadcast yet.
relayBroadcast(n, b) == b \notin broadcastFilter[n]

\* The first time a broadcast arrives it is sent on, to all peers, and its
\* block goes to the chain. Before the end of the initialisation, and from
\* the second time on, it is dropped.
handleBlockBroadcast(n, m) ==
  /\ Receives(n, m, "Block")
  /\ LET b == Packet(m, n).block
     IN  \/ /\ inited[n] /\ relayBroadcast(n, b)
            /\ broadcast(n, Taken(n, m), Announce(b))
            /\ broadcastFilter' = [broadcastFilter EXCEPT ![n] = @ \cup {b}]
            /\ AddBlocks(n, <<b>>)
         \/ /\ ~inited[n] \/ ~relayBroadcast(n, b)
            /\ Reply(n, m, <<>>)
            /\ UNCHANGED <<broadcastFilter, pendingBlocks>>
  /\ UNCHANGED <<heads, longest, lastHeight, inited, watingHash, syncHashResp,
                 waitingBlocks, lost, early>>

\* The scheduler, which waits for InitFinishC, finds a block on the longest
\* branch, adds it and broadcasts it. No branch is chosen after a block of
\* its own, so that lastHeight stays behind.
Mine(n) ==
  /\ inited[n]
  /\ \E b \in Mines[n] \ Known(n) :
       /\ Parent[b] = longest[n]
       /\ heads' = [heads EXCEPT ![n] = (@ \ {Parent[b]}) \cup {b}]
       /\ longest' = [longest EXCEPT ![n] = b]
       /\ broadcastFilter' = [broadcastFilter EXCEPT ![n] = @ \cup {b}]
       /\ broadcast(n, flight, Announce(b))
  /\ UNCHANGED <<lastHeight, pendingBlocks, inited, watingHash, syncHashResp,
                 waitingBlocks, lost, early>>

\* The nodes were just started, with chains so short that initFromDB has
\* loaded them whole: lastHeight is the height of the first block it loaded.
Init ==
  /\ longest \in Start
  /\ lastHeight = [n \in Node |-> Depth[Genesis]]
  /\ heads = [n \in Node |-> {longest[n]}]
  /\ pendingBlocks = [n \in Node |-> <<>>]
  /\ inited = [n \in Node |-> n \in Ready]
  /\ watingHash = [n \in Node |-> FALSE]
  /\ syncHashResp = [n \in Node |-> Empty]
  /\ waitingBlocks = [n \in Node |-> Empty]
  /\ broadcastFilter = [n \in Node |-> {}]
  /\ flight = [l \in Link |-> <<>>]
  /\ lost = 0 /\ early = <<0, 0>>

Receive(n, m) ==
  \/ handleSyncRequest(n, m) \/ handleSyncResponse(n, m)
  \/ handleBlocksRequest(n, m) \/ handleBlocksResponse(n, m)
  \/ handleBlockBroadcast(n, m)

Tick(n) == RequestHash(n) \/ RequestBlocks(n)

Next ==
  \/ \E n \in Node : ChainLoop(n) \/ Tick(n) \/ Mine(n)
  \/ \E n \in Node : \E m \in Peers[n] :
       Receive(n, m) \/ Lose(m, n) \/ TimeoutBlocks(n, m)

Spec == Init /\ [][Next]_vars

\* The loops run on, packets that are not lost arrive, the ticker fires. A
\* request whose answer was lost is given up in the end. Nobody has to mine.
Fairness ==
  /\ \A n \in Node : WF_vars(ChainLoop(n)) /\ WF_vars(Tick(n))
  /\ \A l \in Link : WF_vars(Receive(l[2], l[1]))
  /\ \A l \in Link : SF_vars(TimeoutBlocks(l[1], l[2]))

FairSpec == Spec /\ Fairness

-----------------------------------------------------------------------------
(* Properties *)

Answer == [type : {"SyncResp"}, uptodate : BOOLEAN, base : Hash, end : Hash,
           diff : Nat]

\* Types, and the capacity of the chain's queue.
TypeOK ==
  /\ heads \in [Node -> SUBSET Hash] /\ longest \in [Node -> Hash]
  /\ lastHeight \in [Node -> Nat]
  /\ \A n \in Node : longest[n] \in heads[n]
  /\ pendingBlocks \in [Node -> Seq(Seq(Hash))]
  /\ \A n \in Node : Len(pendingBlocks[n]) <= MaxPending
  /\ inited \in [Node -> BOOLEAN] /\ watingHash \in [Node -> BOOLEAN]
  /\ \A n \in Node :
       /\ syncHashResp[n] \in [DOMAIN syncHashResp[n] -> Answer]
       /\ waitingBlocks[n] \in [DOMAIN waitingBlocks[n] ->
                                  [remainNums : Nat, response : Seq(Hash)]]
  /\ broadcastFilter \in [Node -> SUBSET Hash]

\* The blocks that arrive for a request are never more than its answer
\* announced, whatever was lost or asked again before, and whether the sync
\* ticker was faster than the answers or a request was given up while its
\* blocks were under way. When they are, the unsigned counter wraps and the
\* test for a negative count (net.go:408) does not see it.
NeverMiscounted ==
  \A n \in Node : \A p \in DOMAIN waitingBlocks[n] :
    waitingBlocks[n][p].remainNums < Wrap \div 2

Diverged(n, p) == heads[n] \cap Path[longest[p]] = {}

\* A broadcast is sent on once by each node, so that all its copies are gone
\* in the end (relayBroadcast, net.go:438).
FloodEnds == []<>(\A l \in Link : ~Underway(l, "Block"))

\* Once no more blocks are found, a node has all blocks of the longest
\* branch of every peer, through lost, stale and miscounted answers, unless
\* none of its branch heads is on that branch: then the peer has nothing to
\* answer (net.go:338).
CatchesUp ==
  \A n \in Asking : \A p \in Peers[n] :
    []<>(Path[longest[p]] \subseteq Known(n) \/ Diverged(n, p))

\* The initial synchronisation ends, and with it the wait of the scheduler,
\* unless all peers have diverged from this node.
InitEnds ==
  \A n \in Asking : []<>(inited[n] \/ \A p \in Peers[n] : Diverged(n, p))

\* net.go:31: nodes reach agreement through the longest chain rule, so the
\* blocks of a branch get to a node whose own branches are lower.
Agreement ==
  \A n \in Asking : \A p \in Peers[n], h \in Hash :
    longest[p] = h ~> (h \in Known(n) \/ Depth[longest[n]] >= Depth[h])
=============================================================================
