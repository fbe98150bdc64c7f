----------------------------- MODULE SyncProofs -----------------------------
(***************************************************************************)
(* Proofs about module Sync: types, and that the blocks that arrive for a  *)
(* request are never miscounted.                                           *)
(***************************************************************************)
EXTENDS Sync, Iteration, SequenceTheorems, FiniteSetTheorems

-----------------------------------------------------------------------------
(* The tree of blocks *)

\* The way to a block is what its definition says.
LEMMA PathDef ==
  \A h \in Hash : Path[h] = IF h = Genesis THEN {h} ELSE {h} \cup Path[Parent[h]]
<1> DEFINE S == [Hash -> SUBSET Hash]
           F == [v \in S |-> [h \in Hash |->
                  IF h = Genesis THEN {h} ELSE {h} \cup v[Parent[h]]]]
           a == [h \in Hash |-> {}]
           D(f) == f = [h \in Hash |-> IF h = Genesis THEN {h} ELSE {h} \cup f[Parent[h]]]
<1>1. F \in [S -> S] /\ a \in S
  BY SyncTree
<1>2. PICK g : IsIterate(g, S, F, a)
  <2> HIDE DEF F, S, a
  <2> QED
    BY <1>1, Iterates
<1>3. ASSUME NEW k \in Nat, NEW h \in Hash
      PROVE  g[k + 1][h] = IF h = Genesis THEN {h} ELSE {h} \cup g[k][Parent[h]]
  <2>1. g[k] \in S /\ g[k + 1] = F[g[k]]
    BY <1>2 DEF IsIterate
  <2> QED
    BY <2>1
<1> DEFINE f == [h \in Hash |-> g[Depth[h]][h]]
<1>4. ASSUME NEW h \in Hash
      PROVE  f[h] = IF h = Genesis THEN {h} ELSE {h} \cup f[Parent[h]]
  <2> HIDE DEF F, S, a
  <2>1. PICK k \in Nat : Depth[h] = k + 1
    BY SyncTree
  <2>2. f[h] = g[k + 1][h]
    BY <2>1
  <2>3. CASE h = Genesis
    BY <1>3, <2>2, <2>3
  <2>4. CASE h # Genesis
    <3>1. Parent[h] \in Hash /\ Depth[Parent[h]] \in Nat /\ Depth[h] = Depth[Parent[h]] + 1
      BY <2>4, SyncTree
    <3>2. Depth[Parent[h]] = k
      BY <2>1, <3>1
    <3>3. f[Parent[h]] = g[k][Parent[h]]
      BY <3>1, <3>2
    <3> QED
      BY <1>3, <2>2, <2>4, <3>3
  <2> QED
    BY <2>3, <2>4
<1>5. D(f)
  <2> HIDE DEF F, S, a
  <2>1. f = [h \in Hash |-> f[h]]
    OBVIOUS
  <2> HIDE DEF f
  <2> QED
    BY <1>4, <2>1
<1>6. Path = CHOOSE x : D(x)
  BY DEF Path
<1>7. D(Path)
  <2> HIDE DEF D, f
  <2> QED
    BY <1>5, <1>6
<1> QED
  BY <1>7

\* The way to a block has a block of every depth, and no others than blocks.
LEMMA PathDepths ==
  ASSUME NEW h \in Hash
  PROVE  /\ Path[h] \subseteq Hash
         /\ \A g \in Path[h] : Depth[Genesis] <= Depth[g]
         /\ \A d \in Depth[Genesis] .. Depth[h] : \E g \in Path[h] : Depth[g] = d
<1> DEFINE Q(x) == /\ Path[x] \subseteq Hash
                   /\ \A g \in Path[x] : Depth[Genesis] <= Depth[g]
                   /\ \A d \in Depth[Genesis] .. Depth[x] : \E g \in Path[x] : Depth[g] = d
           T == {k \in Nat : \A x \in Hash : Depth[x] <= k => Q(x)}
<1>1. 0 \in T
  BY SyncTree
<1>2. ASSUME NEW k \in Nat, k \in T PROVE k + 1 \in T
  <2> SUFFICES ASSUME NEW x \in Hash, Depth[x] <= k + 1 PROVE Q(x)
    OBVIOUS
  <2>0. Depth[Genesis] \in Nat /\ Depth[x] \in Nat
    BY SyncTree
  <2>1. CASE x = Genesis
    <3>1. Path[x] = {x}
      BY <2>1, PathDef
    <3>2. \A d \in Depth[Genesis] .. Depth[x] : d = Depth[x]
      BY <2>0, <2>1
    <3> QED
      BY <2>0, <2>1, <3>1, <3>2
  <2>2. CASE x # Genesis
    <3>1. Parent[x] \in Hash /\ Depth[Parent[x]] \in Nat /\ Depth[x] = Depth[Parent[x]] + 1
      BY <2>2, SyncTree
    <3>2. Q(Parent[x])
      <4>1. Depth[Parent[x]] <= k
        BY <3>1, <2>0
      <4> HIDE DEF Q
      <4> QED
        BY <1>2, <3>1, <4>1
    <3>3. Path[x] = {x} \cup Path[Parent[x]]
      BY <2>2, PathDef
    <3>4. Depth[Genesis] <= Depth[Parent[x]]
      <4>1. Parent[x] \in Path[Parent[x]]
        BY <3>1, PathDef
      <4> QED
        BY <3>2, <4>1
    <3>5. \A d \in Depth[Genesis] .. Depth[x] : d = Depth[x] \/ d \in Depth[Genesis] .. Depth[Parent[x]]
      BY <3>1, <2>0
    <3>6. \A g \in Path[x] : g = x \/ g \in Path[Parent[x]]
      BY <3>3
    <3>7. \A d \in Depth[Genesis] .. Depth[x] : \E g \in Path[x] : Depth[g] = d
      BY <3>2, <3>3, <3>5
    <3>8. \A g \in Path[x] : Depth[Genesis] <= Depth[g]
      BY <3>2, <3>6, <3>4, <3>1, <2>0
    <3> QED
      BY <3>2, <3>3, <3>7, <3>8
  <2> QED
    BY <2>1, <2>2
<1>3. Nat \subseteq T
  <2> HIDE DEF T
  <2> QED
    BY <1>1, <1>2, SetInduction
<1>4. Depth[h] \in Nat /\ Depth[h] <= Depth[h]
  BY SyncTree
<1>5. Depth[h] \in T
  BY <1>3, <1>4
<1> QED
  BY <1>4, <1>5

\* No block is below the first one.
LEMMA AboveGenesis ==
  ASSUME NEW h \in Hash
  PROVE  Depth[h] \in Nat /\ Depth[Genesis] \in Nat /\ Depth[Genesis] <= Depth[h]
<1>1. h \in Path[h]
  BY PathDef
<1> QED
  BY <1>1, PathDepths, SyncTree

\* At finds the block of every depth there is on the way.
LEMMA AtDepth ==
  ASSUME NEW h \in Hash, NEW base \in Hash, NEW d \in Depth[base] .. Depth[h]
  PROVE  At(h, d) \in Hash /\ Depth[At(h, d)] = d
<1>1. d \in Depth[Genesis] .. Depth[h]
  BY AboveGenesis
<1>2. \E g \in Path[h] : Depth[g] = d
  BY <1>1, PathDepths
<1>3. At(h, d) \in Path[h] /\ Depth[At(h, d)] = d
  BY <1>2 DEF At
<1> QED
  BY <1>3, PathDepths

\* The blocks between two blocks are one for each depth.
LEMMA BetweenDepths ==
  ASSUME NEW base \in Hash, NEW end \in Hash, Depth[base] < Depth[end]
  PROVE  /\ Between(base, end) \in Seq(Hash)
         /\ Len(Between(base, end)) = Depth[end] - Depth[base]
         /\ \A i \in 1 .. Depth[end] - Depth[base] : Depth[Between(base, end)[i]] = Depth[base] + i
<1>1. PICK k \in Nat : k = Depth[end] - Depth[base]
  BY AboveGenesis
<1>2. Depth[base] \in Nat /\ Depth[end] = Depth[base] + k
  BY <1>1, AboveGenesis
<1>3. \A i \in 1 .. k : /\ At(end, Depth[base] + i) \in Hash
                        /\ Depth[At(end, Depth[base] + i)] = Depth[base] + i
  <2> TAKE i \in 1 .. k
  <2>1. Depth[base] + i \in Depth[base] .. Depth[end]
    BY <1>2
  <2> QED
    BY <2>1, AtDepth
<1>4. Between(base, end) = [i \in 1 .. k |-> At(end, Depth[base] + i)]
  BY <1>1 DEF Between
<1> HIDE DEF Between
<1> QED
  BY <1>1, <1>3, <1>4

-----------------------------------------------------------------------------
(* Packets *)

\* Answers that count the blocks they announce, and runs of blocks without a
\* gap in their depths.
Answers == {a \in Answer : a.diff = Depth[a.end] - Depth[a.base]}
Runs == {s \in Seq(Hash) : s # <<>> /\ Len(s) = Depth[s[Len(s)]] - Depth[s[1]] + 1}

Packets ==
  [type : {"SyncReq"}, base : Hash] \cup Answers
    \cup [type : {"BlockReq"}, base : Hash, end : Hash]
    \cup [type : {"BlockResp"}, blocks : Runs]
    \cup [type : {"Block"}, block : Hash]

First(m) == Depth[m.blocks[1]]
Last(m) == Depth[m.blocks[Len(m.blocks)]]

\* The fields of a packet depend on its type.
LEMMA PacketKinds ==
  ASSUME NEW m \in Packets
  PROVE  /\ m.type = "SyncReq" => m.base \in Hash
         /\ m.type = "SyncResp" => m \in Answers
         /\ m.type = "BlockReq" => m.base \in Hash /\ m.end \in Hash
         /\ m.type = "BlockResp" => m.blocks \in Runs
         /\ m.type = "Block" => m.block \in Hash
  BY DEF Packets, Answers, Answer

\* Where a run starts and ends.
LEMMA RunEnds ==
  ASSUME NEW s \in Runs
  PROVE  /\ s \in Seq(Hash) /\ Len(s) \in Nat \ {0}
         /\ s[1] \in Hash /\ s[Len(s)] \in Hash
         /\ Depth[s[1]] \in Nat /\ Depth[s[Len(s)]] \in Nat
         /\ Len(s) = Depth[s[Len(s)]] - Depth[s[1]] + 1
<1>1. s \in Seq(Hash) /\ s # <<>> /\ Len(s) = Depth[s[Len(s)]] - Depth[s[1]] + 1
  BY DEF Runs
<1>2. Len(s) \in Nat \ {0}
  BY <1>1
<1>3. s[1] \in Hash /\ s[Len(s)] \in Hash
  BY <1>1, <1>2
<1> QED
  BY <1>1, <1>2, <1>3, SyncTree

\* A part of a sequence of blocks of growing depth is a run.
LEMMA PartIsRun ==
  ASSUME NEW s \in Seq(Hash), NEW d \in Nat, \A i \in 1 .. Len(s) : Depth[s[i]] = d + i,
         NEW lo \in 1 .. Len(s), NEW hi \in lo .. Len(s)
  PROVE  LET r == SubSeq(s, lo, hi)
         IN  r \in Runs /\ Depth[r[1]] = d + lo /\ Depth[r[Len(r)]] = d + hi
<1> DEFINE r == SubSeq(s, lo, hi)
<1>1. \A i \in lo .. hi : s[i] \in Hash
  OBVIOUS
<1>2. /\ r \in Seq(Hash) /\ Len(r) = hi - lo + 1
      /\ \A i \in 1 .. hi - lo + 1 : r[i] = s[lo + i - 1]
  <2>1. lo \in Int /\ hi \in Int /\ lo <= hi
    OBVIOUS
  <2>2. /\ SubSeq(s, lo, hi) \in Seq(Hash)
        /\ Len(SubSeq(s, lo, hi)) = IF lo <= hi THEN hi - lo + 1 ELSE 0
        /\ \A i \in 1 .. hi - lo + 1 : SubSeq(s, lo, hi)[i] = s[lo + i - 1]
    BY <1>1, <2>1, SubSeqProperties
  <2> QED
    BY <2>1, <2>2
<1> HIDE DEF r
<1>3. r[1] = s[lo] /\ r[Len(r)] = s[hi]
  <2>1. 1 \in 1 .. hi - lo + 1 /\ hi - lo + 1 \in 1 .. hi - lo + 1
    OBVIOUS
  <2>2. lo + 1 - 1 = lo /\ lo + (hi - lo + 1) - 1 = hi
    OBVIOUS
  <2> QED
    BY <1>2, <2>1, <2>2
<1>4. Depth[s[lo]] = d + lo /\ Depth[s[hi]] = d + hi
  OBVIOUS
<1>5. r # <<>> /\ Len(r) = (d + hi) - (d + lo) + 1
  BY <1>2
<1>6. r \in Runs
  BY <1>2, <1>3, <1>4, <1>5 DEF Runs
<1> QED
  BY <1>3, <1>4, <1>6 DEF r

\* What Chunks makes of blocks of growing depth: runs in the order of the
\* chain that do not overlap.
LEMMA ChunksAreRuns ==
  ASSUME NEW s \in Seq(Hash), NEW d \in Nat, \A i \in 1 .. Len(s) : Depth[s[i]] = d + i
  PROVE  LET c == Chunks(s)
         IN  /\ c \in Seq(Packets)
             /\ \A i \in DOMAIN c : c[i].type = "BlockResp"
             /\ \A i \in DOMAIN c : d + 1 <= First(c[i]) /\ Last(c[i]) <= d + Len(s)
             /\ \A i, j \in DOMAIN c : i < j => Last(c[i]) < First(c[j])
<1>1. PICK n \in Nat : n = Len(s)
  OBVIOUS
<1>2. PICK k \in Nat \ {0} : k = Chunk
  BY SyncBounds
<1>3. PICK q \in Nat : q = (n + k - 1) \div k
  OBVIOUS
<1> DEFINE lo(i) == (i - 1) * k + 1
           hi(i) == IF i * k < n THEN i * k ELSE n
           c == [i \in 1 .. q |-> [type |-> "BlockResp", blocks |-> SubSeq(s, lo(i), hi(i))]]
<1>4. Chunks(s) = c
  BY <1>1, <1>2, <1>3 DEF Chunks
<1>5. ASSUME NEW i \in 1 .. q
      PROVE  lo(i) \in 1 .. n /\ hi(i) \in lo(i) .. n
  <2>1. q * k <= n + k - 1
    BY <1>3
  <2>2. PICK x \in Nat : x = (i - 1) * k
    OBVIOUS
  <2>3. i * k = x + k
    BY <2>2
  <2>4. i * k <= q * k
    BY TimesMonotone
  <2> QED
    BY <2>1, <2>2, <2>3, <2>4
<1>6. ASSUME NEW i \in 1 .. q, NEW j \in 1 .. q, i < j
      PROVE  hi(i) < lo(j)
  <2>1. i \in Nat /\ j - 1 \in Nat /\ i <= j - 1
    BY <1>6
  <2>2. i * k <= (j - 1) * k
    BY <2>1, TimesMonotone
  <2>3. PICK x \in Nat, y \in Nat : x = i * k /\ y = (j - 1) * k
    BY <2>1
  <2>4. x <= y /\ hi(i) <= x /\ lo(j) = y + 1 /\ hi(i) \in Int
    BY <2>2, <2>3
  <2> HIDE DEF lo, hi
  <2> QED
    BY <2>3, <2>4
<1> DEFINE r(i) == SubSeq(s, lo(i), hi(i))
<1>7. ASSUME NEW i \in 1 .. q
      PROVE  r(i) \in Runs /\ Depth[r(i)[1]] = d + lo(i) /\ Depth[r(i)[Len(r(i))]] = d + hi(i)
  <2> HIDE DEF lo, hi
  <2> QED
    BY <1>1, <1>5, PartIsRun, ZenonT(60)
<1>8. \A i \in 1 .. q : lo(i) \in Nat /\ hi(i) \in Nat
  <2> HIDE DEF lo, hi
  <2> QED
    BY <1>5
<1> HIDE DEF lo, hi
<1>9. \A i \in 1 .. q : c[i].type = "BlockResp" /\ c[i].blocks = r(i)
  OBVIOUS
<1>10. c \in Seq(Packets)
  <2>1. \A i \in 1 .. q : [type |-> "BlockResp", blocks |-> r(i)] \in Packets
    BY <1>7 DEF Packets
  <2> QED
    BY <2>1
<1>11. DOMAIN c = 1 .. q
  OBVIOUS
<1>12. \A i \in 1 .. q : First(c[i]) = d + lo(i) /\ Last(c[i]) = d + hi(i)
  BY <1>7, <1>9 DEF First, Last
<1> HIDE DEF c
<1>13. \A i \in 1 .. q : d + 1 <= First(c[i]) /\ Last(c[i]) <= d + Len(s)
  BY <1>1, <1>5, <1>8, <1>12
<1>14. \A i, j \in 1 .. q : i < j => Last(c[i]) < First(c[j])
  BY <1>6, <1>8, <1>12
<1> QED
  BY <1>4, <1>9, <1>10, <1>11, <1>13, <1>14

-----------------------------------------------------------------------------
(* The packets between a node and a peer. a are the packets on the way from *)
(* the node to the peer and b those on the way back.                        *)

Requests == {"SyncReq", "BlockReq"}
Responses == {"SyncResp", "BlockResp"}

Has(c, type) == \E i \in DOMAIN c : c[i].type = type

\* No request for blocks, and no blocks, are on the way.
Quiet(a, b) == ~Has(a, "BlockReq") /\ ~Has(b, "BlockResp")

Before(c, t, u) == \A i, j \in DOMAIN c : c[i].type = t /\ c[j].type = u => i < j

\* Requests for blocks that were given up, and what answers them, arrive
\* before any later answer for hashes.
Ordered(a, b) ==
  /\ Before(a, "BlockReq", "SyncReq")
  /\ Before(b, "BlockResp", "SyncResp")
  /\ ~Has(b, "SyncResp") \/ ~Has(a, "BlockReq")

\* What will arrive is at most rem blocks, each of them once: there is one
\* request, or there are the packets that answer it.
Measured(a, b, rem) ==
  /\ \A i, j \in DOMAIN a : a[i].type = "BlockReq" /\ a[j].type = "BlockReq" => i = j
  /\ \A i \in DOMAIN a : a[i].type = "BlockReq" => Depth[a[i].end] - Depth[a[i].base] <= rem
  /\ ~Has(a, "BlockReq") \/ ~Has(b, "BlockResp")
  /\ \A i, j \in DOMAIN b : b[i].type = "BlockResp" /\ b[j].type = "BlockResp" =>
       /\ Last(b[j]) - First(b[i]) + 1 <= rem
       /\ i < j => Last(b[i]) < First(b[j])

\* The packets of some types in c are the last ones of b, in the same order.
Kept(c, b, types) ==
  \E d \in Nat : \A i \in DOMAIN c :
    c[i].type \in types => i + d \in DOMAIN b /\ c[i] = b[i + d]

\* The elements of a sequence without its first one.
LEMMA TailAt ==
  ASSUME NEW P, NEW c \in Seq(P), c # <<>>
  PROVE  /\ Tail(c) \in Seq(P) /\ Head(c) = c[1] /\ c[1] \in P /\ 1 \in DOMAIN c
         /\ Len(c) \in Nat \ {0} /\ Len(Tail(c)) = Len(c) - 1
         /\ DOMAIN c = 1 .. Len(c) /\ DOMAIN Tail(c) = 1 .. Len(c) - 1
         /\ \A i \in DOMAIN Tail(c) : i + 1 \in DOMAIN c /\ Tail(c)[i] = c[i + 1]
OBVIOUS

\* The elements of two sequences, one behind the other.
LEMMA ConcatAt ==
  ASSUME NEW P, NEW c \in Seq(P), NEW m \in Seq(P)
  PROVE  /\ c \o m \in Seq(P) /\ Len(c) \in Nat /\ Len(m) \in Nat
         /\ Len(c \o m) = Len(c) + Len(m)
         /\ DOMAIN c = 1 .. Len(c) /\ DOMAIN m = 1 .. Len(m)
         /\ DOMAIN (c \o m) = 1 .. Len(c) + Len(m)
         /\ \A i \in DOMAIN (c \o m) :
              \/ i \in DOMAIN c /\ (c \o m)[i] = c[i]
              \/ i - Len(c) \in DOMAIN m /\ (c \o m)[i] = m[i - Len(c)]
<1>1. /\ c \o m \in Seq(P)
      /\ Len(c \o m) = Len(c) + Len(m)
      /\ \A i \in 1 .. Len(c) + Len(m) : (c \o m)[i] =
                     IF i <= Len(c) THEN c[i] ELSE m[i - Len(c)]
  BY ConcatProperties
<1>2. Len(c) \in Nat /\ Len(m) \in Nat /\ DOMAIN c = 1 .. Len(c) /\ DOMAIN m = 1 .. Len(m)
  OBVIOUS
<1>3. DOMAIN (c \o m) = 1 .. Len(c) + Len(m)
  BY <1>1
<1> QED
  BY <1>1, <1>2, <1>3

\* Nothing happens on a link.
LEMMA KeptSame ==
  ASSUME NEW c \in Seq(Packets), NEW types
  PROVE  Kept(c, c, types)
<1>1. \A i \in DOMAIN c : i + 0 \in DOMAIN c /\ c[i] = c[i + 0]
  OBVIOUS
<1> QED
  BY <1>1 DEF Kept

\* The first packet of a link is taken.
LEMMA KeptTail ==
  ASSUME NEW c \in Seq(Packets), c # <<>>, NEW types
  PROVE  Kept(Tail(c), c, types)
  BY TailAt DEF Kept

\* Packets of other types are sent.
LEMMA KeptConcat ==
  ASSUME NEW c \in Seq(Packets), NEW b \in Seq(Packets), NEW m \in Seq(Packets), NEW types,
         Kept(c, b, types), \A i \in DOMAIN m : m[i].type \notin types
  PROVE  Kept(c \o m, b, types)
<1>1. PICK d \in Nat : \A i \in DOMAIN c :
        c[i].type \in types => i + d \in DOMAIN b /\ c[i] = b[i + d]
  BY DEF Kept
<1>2. \A i \in DOMAIN (c \o m) : \/ i \in DOMAIN c /\ (c \o m)[i] = c[i]
                                 \/ i - Len(c) \in DOMAIN m /\ (c \o m)[i] = m[i - Len(c)]
  BY ConcatAt
<1>3. \A i \in DOMAIN (c \o m) :
        (c \o m)[i].type \in types => i + d \in DOMAIN b /\ (c \o m)[i] = b[i + d]
  BY <1>1, <1>2
<1> QED
  BY <1>3 DEF Kept

\* Where the packets of the exchange are kept, nothing of the above changes.
LEMMA KeptMonotone ==
  ASSUME NEW a \in Seq(Packets), NEW b \in Seq(Packets),
         NEW c \in Seq(Packets), NEW e \in Seq(Packets),
         Kept(c, a, Requests), Kept(e, b, Responses)
  PROVE  /\ Quiet(a, b) => Quiet(c, e)
         /\ Ordered(a, b) => Ordered(c, e)
         /\ \A rem \in Nat : Measured(a, b, rem) => Measured(c, e, rem)
         /\ ~Has(a, "SyncReq") => ~Has(c, "SyncReq")
         /\ ~Has(b, "SyncResp") => ~Has(e, "SyncResp")
<1>1. PICK d \in Nat : \A i \in DOMAIN c :
        c[i].type \in Requests => i + d \in DOMAIN a /\ c[i] = a[i + d]
  BY DEF Kept
<1>2. PICK f \in Nat : \A i \in DOMAIN e :
        e[i].type \in Responses => i + f \in DOMAIN b /\ e[i] = b[i + f]
  BY DEF Kept
<1>3. DOMAIN a \subseteq Nat /\ DOMAIN b \subseteq Nat /\ DOMAIN c \subseteq Nat /\ DOMAIN e \subseteq Nat
  OBVIOUS
<1>4. \A t \in Requests : Has(c, t) => Has(a, t)
  BY <1>1 DEF Has
<1>5. \A t \in Responses : Has(e, t) => Has(b, t)
  BY <1>2 DEF Has
<1>6. "SyncReq" \in Requests /\ "BlockReq" \in Requests /\ "SyncResp" \in Responses /\ "BlockResp" \in Responses
  BY DEF Requests, Responses
<1>7. Quiet(a, b) => Quiet(c, e)
  BY <1>4, <1>5, <1>6 DEF Quiet
<1>8. Ordered(a, b) => Ordered(c, e)
  <2> SUFFICES ASSUME Ordered(a, b) PROVE Ordered(c, e)
    OBVIOUS
  <2>1. ~Has(e, "SyncResp") \/ ~Has(c, "BlockReq")
    BY <1>4, <1>5, <1>6 DEF Ordered
  <2>2. Before(c, "BlockReq", "SyncReq")
    <3>1. \A i, j \in DOMAIN c : c[i].type = "BlockReq" /\ c[j].type = "SyncReq" => i + d < j + d
      BY <1>1, <1>6 DEF Ordered, Before
    <3> QED
      BY <1>3, <3>1 DEF Before
  <2>3. Before(e, "BlockResp", "SyncResp")
    <3>1. \A i, j \in DOMAIN e : e[i].type = "BlockResp" /\ e[j].type = "SyncResp" => i + f < j + f
      BY <1>2, <1>6 DEF Ordered, Before
    <3> QED
      BY <1>3, <3>1 DEF Before
  <2> QED
    BY <2>1, <2>2, <2>3 DEF Ordered
<1>9. ASSUME NEW rem \in Nat, Measured(a, b, rem) PROVE Measured(c, e, rem)
  <2>1. \A i, j \in DOMAIN c : c[i].type = "BlockReq" /\ c[j].type = "BlockReq" => i = j
    <3>1. \A i, j \in DOMAIN c : c[i].type = "BlockReq" /\ c[j].type = "BlockReq" => i + d = j + d
      BY <1>1, <1>6, <1>9 DEF Measured
    <3> QED
      BY <1>3, <3>1
  <2>2. \A i \in DOMAIN c : c[i].type = "BlockReq" => Depth[c[i].end] - Depth[c[i].base] <= rem
    BY <1>1, <1>6, <1>9 DEF Measured
  <2>3. ~Has(c, "BlockReq") \/ ~Has(e, "BlockResp")
    BY <1>4, <1>5, <1>6, <1>9 DEF Measured
  <2>4. ASSUME NEW i \in DOMAIN e, NEW j \in DOMAIN e, e[i].type = "BlockResp", e[j].type = "BlockResp"
        PROVE  Last(e[j]) - First(e[i]) + 1 <= rem /\ (i < j => Last(e[i]) < First(e[j]))
    <3>1. i + f \in DOMAIN b /\ j + f \in DOMAIN b /\ e[i] = b[i + f] /\ e[j] = b[j + f]
      BY <1>2, <1>6, <2>4
    <3>2. i < j => i + f < j + f
      BY <1>3
    <3>3. /\ Last(b[j + f]) - First(b[i + f]) + 1 <= rem
          /\ i + f < j + f => Last(b[i + f]) < First(b[j + f])
      BY <1>9, <2>4, <3>1 DEF Measured
    <3> QED
      BY <3>1, <3>2, <3>3
  <2> QED
    BY <2>1, <2>2, <2>3, <2>4 DEF Measured
<1> QED
  BY <1>4, <1>5, <1>6, <1>7, <1>8, <1>9

\* The node asks for hashes.
LEMMA AskHashes ==
  ASSUME NEW a \in Seq(Packets), NEW b \in Seq(Packets), NEW m \in Seq(Packets),
         \A i \in DOMAIN m : m[i].type = "SyncReq"
  PROVE  /\ Quiet(a, b) => Quiet(a \o m, b)
         /\ Ordered(a, b) => Ordered(a \o m, b)
<1>1. /\ \A i \in DOMAIN (a \o m) : \/ i \in DOMAIN a /\ (a \o m)[i] = a[i]
                                    \/ i - Len(a) \in DOMAIN m /\ (a \o m)[i] = m[i - Len(a)]
      /\ Len(a) \in Nat /\ DOMAIN a = 1 .. Len(a) /\ DOMAIN m = 1 .. Len(m)
      /\ DOMAIN (a \o m) = 1 .. Len(a) + Len(m) /\ Len(m) \in Nat
  BY ConcatAt
<1>2. \A i \in DOMAIN (a \o m) : (a \o m)[i].type = "BlockReq" => i \in DOMAIN a /\ (a \o m)[i] = a[i]
  BY <1>1
<1>3. Has(a \o m, "BlockReq") => Has(a, "BlockReq")
  BY <1>2 DEF Has
<1>4. ASSUME Ordered(a, b) PROVE Before(a \o m, "BlockReq", "SyncReq")
  <2> SUFFICES ASSUME NEW i \in DOMAIN (a \o m), NEW j \in DOMAIN (a \o m),
                      (a \o m)[i].type = "BlockReq", (a \o m)[j].type = "SyncReq"
               PROVE  i < j
    BY DEF Before
  <2>1. i \in DOMAIN a /\ a[i].type = "BlockReq"
    BY <1>2
  <2>2. CASE j \in DOMAIN a /\ (a \o m)[j] = a[j]
    BY <1>4, <2>1, <2>2 DEF Ordered, Before
  <2>3. CASE j - Len(a) \in DOMAIN m
    <3>1. i \in Nat /\ i <= Len(a) /\ j \in Nat /\ 1 <= j - Len(a)
      BY <1>1, <2>1, <2>3
    <3> HIDE DEF Has
    <3> QED
      BY <1>1, <3>1
  <2> QED
    BY <1>1, <2>2, <2>3
<1> QED
  BY <1>3, <1>4 DEF Quiet, Ordered

\* The peer answers a request for hashes, or has nothing to answer.
LEMMA AnswerHashes ==
  ASSUME NEW a \in Seq(Packets), NEW b \in Seq(Packets), NEW m \in Seq(Packets),
         a # <<>>, Head(a).type = "SyncReq", \A i \in DOMAIN m : m[i].type = "SyncResp"
  PROVE  /\ Quiet(a, b) => Quiet(Tail(a), b \o m)
         /\ Ordered(a, b) => Ordered(Tail(a), b \o m)
         /\ \A rem \in Nat : Measured(a, b, rem) => Measured(Tail(a), b \o m, rem)
<1>1. /\ \A i \in DOMAIN (b \o m) : \/ i \in DOMAIN b /\ (b \o m)[i] = b[i]
                                    \/ i - Len(b) \in DOMAIN m /\ (b \o m)[i] = m[i - Len(b)]
      /\ Len(b) \in Nat /\ DOMAIN b = 1 .. Len(b) /\ DOMAIN m = 1 .. Len(m)
      /\ DOMAIN (b \o m) = 1 .. Len(b) + Len(m) /\ Len(m) \in Nat /\ b \o m \in Seq(Packets)
  BY ConcatAt
<1>2. \A i \in DOMAIN (b \o m) : (b \o m)[i].type = "BlockResp" => i \in DOMAIN b /\ (b \o m)[i] = b[i]
  BY <1>1
<1>3. Tail(a) \in Seq(Packets) /\ Kept(Tail(a), a, Requests)
  BY KeptTail, TailAt
<1>4. Has(b \o m, "BlockResp") => Has(b, "BlockResp")
  BY <1>2 DEF Has
<1>5. Kept(b, b, Responses)
  BY KeptSame
<1>6. /\ Quiet(a, b) => Quiet(Tail(a), b)
      /\ Ordered(a, b) => Ordered(Tail(a), b)
      /\ \A rem \in Nat : Measured(a, b, rem) => Measured(Tail(a), b, rem)
  BY <1>3, <1>5, KeptMonotone
<1>7. Quiet(a, b) => Quiet(Tail(a), b \o m)
  BY <1>4, <1>6 DEF Quiet
<1>8. ASSUME Ordered(a, b) PROVE Ordered(Tail(a), b \o m)
  <2>1. ~Has(Tail(a), "BlockReq")
    <3>1. SUFFICES ASSUME NEW i \in DOMAIN Tail(a), Tail(a)[i].type = "BlockReq" PROVE FALSE
      BY DEF Has
    <3>2. i + 1 \in DOMAIN a /\ a[i + 1].type = "BlockReq" /\ 1 \in DOMAIN a /\ a[1].type = "SyncReq" /\ i \in Nat
      BY <3>1, TailAt
    <3>3. i + 1 < 1
      BY <1>8, <3>2 DEF Ordered, Before
    <3> QED
      BY <3>2, <3>3
  <2>2. Before(b \o m, "BlockResp", "SyncResp")
    <3> SUFFICES ASSUME NEW i \in DOMAIN (b \o m), NEW j \in DOMAIN (b \o m),
                        (b \o m)[i].type = "BlockResp", (b \o m)[j].type = "SyncResp"
                 PROVE  i < j
      BY DEF Before
    <3>1. i \in DOMAIN b /\ b[i].type = "BlockResp"
      BY <1>2
    <3>2. CASE j \in DOMAIN b /\ (b \o m)[j] = b[j]
      BY <1>8, <3>1, <3>2 DEF Ordered, Before
    <3>3. CASE j - Len(b) \in DOMAIN m
      <4>1. i \in Nat /\ i <= Len(b) /\ j \in Nat /\ 1 <= j - Len(b)
        BY <1>1, <3>1, <3>3
      <4> QED
        BY <1>1, <4>1
    <3> QED
      BY <1>1, <3>2, <3>3
  <2> QED
    BY <1>6, <1>8, <2>1, <2>2 DEF Ordered
<1>9. ASSUME NEW rem \in Nat, Measured(a, b, rem) PROVE Measured(Tail(a), b \o m, rem)
  <2>1. Measured(Tail(a), b, rem)
    BY <1>6, <1>9
  <2>2. \A i, j \in DOMAIN (b \o m) : (b \o m)[i].type = "BlockResp" /\ (b \o m)[j].type = "BlockResp" =>
          /\ Last((b \o m)[j]) - First((b \o m)[i]) + 1 <= rem
          /\ i < j => Last((b \o m)[i]) < First((b \o m)[j])
    BY <1>2, <2>1 DEF Measured
  <2> QED
    BY <1>4, <2>1, <2>2 DEF Measured
<1> QED
  BY <1>7, <1>8, <1>9

\* The answer of hashes arrives: what was given up has arrived before it.
LEMMA HashesArrive ==
  ASSUME NEW a \in Seq(Packets), NEW b \in Seq(Packets), b # <<>>, Head(b).type = "SyncResp",
         Ordered(a, b)
  PROVE  Quiet(a, Tail(b))
<1>1. 1 \in DOMAIN b /\ b[1].type = "SyncResp"
  BY TailAt
<1>2. ~Has(a, "BlockReq")
  BY <1>1 DEF Ordered, Has
<1>3. ~Has(Tail(b), "BlockResp")
  <2>1. SUFFICES ASSUME NEW i \in DOMAIN Tail(b), Tail(b)[i].type = "BlockResp" PROVE FALSE
    BY DEF Has
  <2>2. i + 1 \in DOMAIN b /\ b[i + 1].type = "BlockResp" /\ i \in Nat
    BY <2>1, TailAt
  <2>3. i + 1 < 1
    BY <1>1, <2>2 DEF Ordered, Before
  <2> QED
    BY <2>2, <2>3
<1> QED
  BY <1>2, <1>3 DEF Quiet

\* The node asks for the blocks that were announced.
LEMMA AskBlocks ==
  ASSUME NEW a \in Seq(Packets), NEW b \in Seq(Packets), NEW m \in Packets,
         m.type = "BlockReq", Quiet(a, b), NEW rem \in Nat, rem = Depth[m.end] - Depth[m.base]
  PROVE  Measured(a \o <<m>>, b, rem)
<1>1. <<m>> \in Seq(Packets) /\ Len(<<m>>) = 1 /\ <<m>>[1] = m
  OBVIOUS
<1>2. \A i \in DOMAIN (a \o <<m>>) : \/ i \in DOMAIN a /\ (a \o <<m>>)[i] = a[i]
                                     \/ i = Len(a) + 1 /\ (a \o <<m>>)[i] = m
  <2>1. /\ DOMAIN (a \o <<m>>) = 1 .. Len(a) + 1 /\ Len(a) \in Nat /\ DOMAIN <<m>> = 1 .. 1
        /\ \A i \in DOMAIN (a \o <<m>>) :
             \/ i \in DOMAIN a /\ (a \o <<m>>)[i] = a[i]
             \/ i - Len(a) \in DOMAIN <<m>> /\ (a \o <<m>>)[i] = <<m>>[i - Len(a)]
    BY <1>1, ConcatAt
  <2>2. \A i \in 1 .. Len(a) + 1 : i - Len(a) \in 1 .. 1 => i = Len(a) + 1 /\ i - Len(a) = 1
    BY <2>1
  <2> QED
    BY <1>1, <2>1, <2>2
<1>3. \A i \in DOMAIN (a \o <<m>>) : (a \o <<m>>)[i].type = "BlockReq" => i = Len(a) + 1 /\ (a \o <<m>>)[i] = m
  BY <1>2 DEF Quiet, Has
<1>4. \A i \in DOMAIN b : b[i].type # "BlockResp"
  BY DEF Quiet, Has
<1>5. ~Has(b, "BlockResp")
  BY DEF Quiet
<1>6. rem <= rem
  OBVIOUS
<1> QED
  BY <1>3, <1>4, <1>5, <1>6 DEF Measured

\* The peer answers a request for blocks with chunks of them.
LEMMA AnswerBlocks ==
  ASSUME NEW a \in Seq(Packets), NEW b \in Seq(Packets), NEW c \in Seq(Packets),
         a # <<>>, Head(a).type = "BlockReq", \A i \in DOMAIN c : c[i].type = "BlockResp",
         \A i, j \in DOMAIN c :
           /\ Last(c[j]) - First(c[i]) + 1 <= Depth[Head(a).end] - Depth[Head(a).base]
           /\ i < j => Last(c[i]) < First(c[j])
  PROVE  /\ ~Quiet(a, b)
         /\ Ordered(a, b) => Ordered(Tail(a), b \o c)
         /\ \A rem \in Nat : Measured(a, b, rem) => Measured(Tail(a), b \o c, rem)
<1>1. /\ \A i \in DOMAIN (b \o c) : \/ i \in DOMAIN b /\ (b \o c)[i] = b[i]
                                    \/ i - Len(b) \in DOMAIN c /\ (b \o c)[i] = c[i - Len(b)]
      /\ Len(b) \in Nat /\ DOMAIN b = 1 .. Len(b) /\ DOMAIN c = 1 .. Len(c)
      /\ DOMAIN (b \o c) = 1 .. Len(b) + Len(c) /\ Len(c) \in Nat /\ b \o c \in Seq(Packets)
  BY ConcatAt
<1>2. 1 \in DOMAIN a /\ a[1] = Head(a) /\ a[1].type = "BlockReq"
  BY TailAt
<1>3. Has(a, "BlockReq")
  BY <1>2 DEF Has
<1>4. Tail(a) \in Seq(Packets) /\ Kept(Tail(a), a, Requests) /\ Kept(b, b, Responses)
  BY KeptTail, KeptSame, TailAt
<1>5. ASSUME Ordered(a, b) PROVE Ordered(Tail(a), b \o c)
  <2>1. Ordered(Tail(a), b)
    BY <1>4, <1>5, KeptMonotone
  <2>2. \A i \in DOMAIN (b \o c) : (b \o c)[i].type # "SyncResp"
    <3>1. \A i \in DOMAIN b : b[i].type # "SyncResp"
      BY <1>3, <1>5 DEF Ordered, Has
    <3> QED
      BY <1>1, <3>1
  <2> QED
    BY <2>1, <2>2 DEF Ordered, Before, Has
<1>6. ASSUME NEW rem \in Nat, Measured(a, b, rem) PROVE Measured(Tail(a), b \o c, rem)
  <2>1. \A i \in DOMAIN Tail(a) : Tail(a)[i].type # "BlockReq"
    <3>1. SUFFICES ASSUME NEW i \in DOMAIN Tail(a), Tail(a)[i].type = "BlockReq" PROVE FALSE
      OBVIOUS
    <3>2. i + 1 \in DOMAIN a /\ a[i + 1].type = "BlockReq" /\ i \in Nat /\ i # 0
      BY <3>1, TailAt
    <3>3. i + 1 = 1
      BY <1>2, <1>6, <3>2 DEF Measured
    <3> QED
      BY <3>2, <3>3
  <2>2. \A i \in DOMAIN b : b[i].type # "BlockResp"
    BY <1>3, <1>6 DEF Measured, Has
  <2>3. Depth[a[1].end] - Depth[a[1].base] <= rem
    BY <1>2, <1>6 DEF Measured
  <2>4. \A i \in DOMAIN c : c[i].blocks \in Runs /\ First(c[i]) \in Nat /\ Last(c[i]) \in Nat
    <3> TAKE i \in DOMAIN c
    <3>1. c[i] \in Packets
      OBVIOUS
    <3>2. c[i].blocks \in Runs
      BY <3>1, PacketKinds
    <3> QED
      BY <3>2, RunEnds DEF First, Last
  <2>5. a[1].base \in Hash /\ a[1].end \in Hash /\ Depth[a[1].base] \in Nat /\ Depth[a[1].end] \in Nat
    <3>1. a[1] \in Packets
      BY TailAt
    <3>2. a[1].base \in Hash /\ a[1].end \in Hash
      BY <1>2, <3>1, PacketKinds
    <3> QED
      BY <3>2, SyncTree
  <2>6. \A i, j \in DOMAIN c : Last(c[j]) - First(c[i]) + 1 <= rem
    <3> TAKE i, j \in DOMAIN c
    <3>1. Last(c[j]) - First(c[i]) + 1 <= Depth[a[1].end] - Depth[a[1].base]
      BY <1>2
    <3>2. PICK m \in Nat, n \in Nat : m = First(c[i]) /\ n = Last(c[j])
      BY <2>4
    <3>3. PICK x \in Nat, y \in Nat : x = Depth[a[1].end] /\ y = Depth[a[1].base]
      BY <2>5
    <3>4. x - y <= rem
      BY <2>3, <3>3
    <3>5. n - m + 1 <= x - y
      BY <3>1, <3>2, <3>3
    <3> QED
      BY <3>2, <3>4, <3>5
  <2>7. \A i \in DOMAIN (b \o c) : (b \o c)[i].type = "BlockResp" =>
          i - Len(b) \in DOMAIN c /\ (b \o c)[i] = c[i - Len(b)]
    BY <1>1, <2>2
  <2>8. ASSUME NEW i \in DOMAIN (b \o c), NEW j \in DOMAIN (b \o c),
               (b \o c)[i].type = "BlockResp", (b \o c)[j].type = "BlockResp"
        PROVE  /\ Last((b \o c)[j]) - First((b \o c)[i]) + 1 <= rem
               /\ i < j => Last((b \o c)[i]) < First((b \o c)[j])
    <3>1. /\ i - Len(b) \in DOMAIN c /\ (b \o c)[i] = c[i - Len(b)]
          /\ j - Len(b) \in DOMAIN c /\ (b \o c)[j] = c[j - Len(b)]
      BY <2>7, <2>8
    <3>2. i < j => i - Len(b) < j - Len(b)
      BY <1>1
    <3> QED
      BY <2>6, <3>1, <3>2
  <2>9. \A i \in DOMAIN Tail(a) : Tail(a)[i].type = "BlockReq" =>
           Depth[Tail(a)[i].end] - Depth[Tail(a)[i].base] <= rem
    BY <2>1
  <2> QED
    BY <2>1, <2>8, <2>9 DEF Measured, Has
<1> QED
  BY <1>3, <1>5, <1>6 DEF Quiet

\* Blocks arrive: no more than the node waits for, and when they are all,
\* nothing is left on the way.
LEMMA BlocksArrive ==
  ASSUME NEW a \in Seq(Packets), NEW b \in Seq(Packets), b # <<>>, Head(b).type = "BlockResp",
         NEW rem \in Nat, Measured(a, b, rem), NEW k \in Nat, k = Len(Head(b).blocks)
  PROVE  /\ k <= rem
         /\ Measured(a, Tail(b), rem - k)
         /\ k = rem => Quiet(a, Tail(b))
<1>1. 1 \in DOMAIN b /\ b[1] = Head(b) /\ b[1].type = "BlockResp" /\ Tail(b) \in Seq(Packets)
  BY TailAt
<1>2. \A i \in DOMAIN b : b[i].type = "BlockResp" =>
        First(b[i]) \in Nat /\ Last(b[i]) \in Nat /\ First(b[i]) <= Last(b[i])
  <2> SUFFICES ASSUME NEW i \in DOMAIN b, b[i].type = "BlockResp"
               PROVE  First(b[i]) \in Nat /\ Last(b[i]) \in Nat /\ First(b[i]) <= Last(b[i])
    OBVIOUS
  <2>1. b[i] \in Packets
    OBVIOUS
  <2>2. PICK s \in Runs : s = b[i].blocks
    BY <2>1, PacketKinds
  <2>3. First(b[i]) = Depth[s[1]] /\ Last(b[i]) = Depth[s[Len(s)]]
    BY <2>2 DEF First, Last
  <2> QED
    BY <2>3, RunEnds
<1>3. k = Last(b[1]) - First(b[1]) + 1
  <2>1. b[1] \in Packets
    BY TailAt
  <2>2. b[1].blocks \in Runs
    BY <1>1, <2>1, PacketKinds
  <2> QED
    BY <1>1, <2>2, RunEnds DEF First, Last
<1>4. k <= rem
  BY <1>1, <1>3 DEF Measured
<1>5. \A i \in DOMAIN a : a[i].type # "BlockReq"
  BY <1>1 DEF Measured, Has
<1>6. ASSUME NEW i \in DOMAIN Tail(b), Tail(b)[i].type = "BlockResp"
      PROVE  /\ i + 1 \in DOMAIN b /\ Tail(b)[i] = b[i + 1] /\ i \in Nat
             /\ Last(b[i + 1]) - First(b[1]) + 1 <= rem
             /\ Last(b[1]) < First(b[i + 1])
  <2>1. i + 1 \in DOMAIN b /\ Tail(b)[i] = b[i + 1] /\ i \in Nat /\ 1 < i + 1
    BY TailAt
  <2> QED
    BY <1>1, <1>6, <2>1 DEF Measured
<1>7. k = rem => Quiet(a, Tail(b))
  <2>1. SUFFICES ASSUME k = rem, NEW i \in DOMAIN Tail(b), Tail(b)[i].type = "BlockResp" PROVE FALSE
    BY <1>5 DEF Quiet, Has
  <2>2. First(b[i + 1]) \in Nat /\ Last(b[i + 1]) \in Nat /\ First(b[i + 1]) <= Last(b[i + 1])
    BY <1>2, <1>6, <2>1
  <2>3. PICK x \in Nat, y \in Nat : x = First(b[1]) /\ y = Last(b[1])
    BY <1>1, <1>2
  <2>4. PICK m \in Nat, n \in Nat : m = First(b[i + 1]) /\ n = Last(b[i + 1]) /\ m <= n
    BY <2>2
  <2>5. n - x + 1 <= rem /\ y < m
    BY <1>6, <2>1, <2>3, <2>4
  <2>6. k = y - x + 1 /\ k = rem
    BY <1>3, <2>1, <2>3
  <2> QED
    BY <2>4, <2>5, <2>6, RunsLeft
<1>8. Measured(a, Tail(b), rem - k)
  <2>1. ASSUME NEW i \in DOMAIN Tail(b), NEW j \in DOMAIN Tail(b),
               Tail(b)[i].type = "BlockResp", Tail(b)[j].type = "BlockResp"
        PROVE  /\ Last(Tail(b)[j]) - First(Tail(b)[i]) + 1 <= rem - k
               /\ i < j => Last(Tail(b)[i]) < First(Tail(b)[j])
    <3>1. /\ i + 1 \in DOMAIN b /\ Tail(b)[i] = b[i + 1] /\ i \in Nat
          /\ j + 1 \in DOMAIN b /\ Tail(b)[j] = b[j + 1] /\ j \in Nat
          /\ Last(b[j + 1]) - First(b[1]) + 1 <= rem
          /\ Last(b[1]) < First(b[i + 1])
      BY <1>6, <2>1
    <3>2. First(b[i + 1]) \in Nat /\ Last(b[j + 1]) \in Nat /\ First(b[1]) \in Nat /\ Last(b[1]) \in Nat
      BY <1>1, <1>2, <2>1, <3>1
    <3>3. i < j => Last(b[i + 1]) < First(b[j + 1])
      <4>1. i < j => i + 1 < j + 1
        BY <3>1
      <4> QED
        BY <2>1, <3>1, <4>1 DEF Measured
    <3>4. PICK m \in Nat, n \in Nat : m = First(b[i + 1]) /\ n = Last(b[j + 1])
      BY <3>2
    <3>5. PICK x \in Nat, y \in Nat : x = First(b[1]) /\ y = Last(b[1])
      BY <3>2
    <3>6. n - x + 1 <= rem /\ y < m /\ k = y - x + 1
      BY <1>3, <3>1, <3>4, <3>5
    <3>7. n - m + 1 <= rem - k
      BY <3>6, RunsLeft
    <3> QED
      BY <3>1, <3>3, <3>4, <3>7
  <2> QED
    BY <1>5, <2>1 DEF Measured, Has
<1> QED
  BY <1>4, <1>7, <1>8

-----------------------------------------------------------------------------
(* Types *)

Request == [remainNums : Nat, response : Seq(Hash)]

ChainTyped ==
  /\ heads \in [Node -> SUBSET Hash] /\ longest \in [Node -> Hash]
  /\ lastHeight \in [Node -> Nat]
  /\ \A n \in Node : longest[n] \in heads[n] /\ IsFiniteSet(heads[n])
  /\ pendingBlocks \in [Node -> Seq(Seq(Hash) \ {<<>>})]
  /\ \A n \in Node : Len(pendingBlocks[n]) <= MaxPending

AskTyped(n) ==
  /\ DOMAIN syncHashResp[n] \subseteq Peers[n]
  /\ syncHashResp[n] \in [DOMAIN syncHashResp[n] -> Answers]
  /\ DOMAIN waitingBlocks[n] \subseteq Peers[n]
  /\ waitingBlocks[n] \in [DOMAIN waitingBlocks[n] -> Request]

NodeTyped ==
  /\ inited \in [Node -> BOOLEAN] /\ watingHash \in [Node -> BOOLEAN]
  /\ broadcastFilter \in [Node -> SUBSET Hash]
  /\ DOMAIN syncHashResp = Node /\ DOMAIN waitingBlocks = Node
  /\ \A n \in Node : AskTyped(n)

LinkTyped ==
  /\ flight \in [Link -> Seq(Packets)]
  /\ early \in Early \cup {<<0, 0>>}

Typed == ChainTyped /\ NodeTyped /\ LinkTyped

\* The type invariant of the model is part of this one.
LEMMA TypedIsTypeOK == Typed => TypeOK
<1> SUFFICES ASSUME Typed PROVE TypeOK
  OBVIOUS
<1>1. pendingBlocks \in [Node -> Seq(Seq(Hash))]
  <2>1. \A n \in Node : pendingBlocks[n] \in Seq(Seq(Hash) \ {<<>>})
    BY DEF Typed, ChainTyped
  <2>2. \A n \in Node : pendingBlocks[n] \in Seq(Seq(Hash))
    BY <2>1
  <2> QED
    BY <2>2 DEF Typed, ChainTyped
<1>2. ASSUME NEW n \in Node
      PROVE  /\ syncHashResp[n] \in [DOMAIN syncHashResp[n] -> Answer]
             /\ waitingBlocks[n] \in [DOMAIN waitingBlocks[n] ->
                                        [remainNums : Nat, response : Seq(Hash)]]
  <2>1. AskTyped(n)
    BY DEF Typed, NodeTyped
  <2>2. Answers \subseteq Answer
    BY DEF Answers
  <2> QED
    BY <2>1, <2>2 DEF AskTyped, Request
<1> QED
  BY <1>1, <1>2 DEF Typed, ChainTyped, NodeTyped, TypeOK

\* The connection between two nodes has two directions.
LEMMA Links ==
  ASSUME NEW n \in Node, NEW p \in Peers[n]
  PROVE  /\ p \in Node /\ n \in Peers[p] /\ n # p
         /\ <<n, p>> \in Link /\ <<p, n>> \in Link /\ <<n, p>> # <<p, n>>
  BY SyncBounds DEF Link

\* Every link is one.
LEMMA LinkEnds ==
  ASSUME NEW l \in Link
  PROVE  l[1] \in Node /\ l[2] \in Peers[l[1]] /\ l = <<l[1], l[2]>>
  BY SyncBounds DEF Link

\* The longest run of blocks of a batch that follow each other ends in it.
LEMMA LinkedIn ==
  ASSUME NEW batch \in Seq(Hash), batch # <<>>
  PROVE  Linked(batch) \in DOMAIN batch
<1>1. Len(batch) \in Nat \ {0} /\ DOMAIN batch = 1 .. Len(batch)
  OBVIOUS
<1>0. \A x \in 1 .. Len(batch) : x \in Nat /\ x <= Len(batch)
  OBVIOUS
<1> DEFINE B == {x \in 1 .. Len(batch) : x = Len(batch) \/ Parent[batch[x+1]] # batch[x]}
<1>2. PICK k \in B : \A y \in B : k <= y
  <2>1. B \in SUBSET Nat /\ Len(batch) \in B
    BY <1>1
  <2> HIDE DEF B
  <2> QED
    BY <2>1, Least
<1>3. /\ k \in 1 .. Len(batch) /\ (k = Len(batch) \/ Parent[batch[k+1]] # batch[k])
      /\ \A y \in 1 .. Len(batch) : ~(k <= y) => Parent[batch[y+1]] = batch[y]
  BY <1>2
<1> HIDE DEF B
<1>a. ASSUME NEW i \in 2 .. k PROVE Parent[batch[i]] = batch[i-1]
  <2>0. Len(batch) \in Nat /\ k \in Nat /\ k <= Len(batch)
    BY <1>0, <1>1, <1>3
  <2>1. i - 1 \in 1 .. Len(batch) /\ ~(k <= i - 1) /\ (i - 1) + 1 = i
    BY <2>0
  <2> QED
    BY <1>3, <2>1
<1> DEFINE L(x) == /\ \A i \in 2 .. x : Parent[batch[i]] = batch[i-1]
                   /\ x = Len(batch) \/ Parent[batch[x+1]] # batch[x]
<1>4. k \in DOMAIN batch /\ L(k)
  BY <1>1, <1>3, <1>a
<1>5. Linked(batch) = CHOOSE x \in DOMAIN batch : L(x)
  BY DEF Linked
<1> HIDE DEF L
<1> QED
  BY <1>4, <1>5

\* Init is typed.
LEMMA InitTyped == Init => Typed
<1> SUFFICES ASSUME Init PROVE Typed
  OBVIOUS
<1>1. ChainTyped
  <2>1. \A n \in Node : heads[n] = {longest[n]} /\ longest[n] \in Hash
    BY SyncBounds DEF Init
  <2>2. \A n \in Node : IsFiniteSet(heads[n])
    BY <2>1, FS_Singleton
  <2>3. \A n \in Node : pendingBlocks[n] = <<>> /\ <<>> \in Seq(Seq(Hash) \ {<<>>}) /\ Len(<<>>) = 0 /\ 0 <= MaxPending
    BY SyncBounds DEF Init
  <2>4. lastHeight \in [Node -> Nat]
    BY SyncTree DEF Init
  <2> QED
    BY <2>1, <2>2, <2>3, <2>4, SyncBounds DEF Init, ChainTyped
<1>2. NodeTyped
  <2>1. \A n \in Node : syncHashResp[n] = <<>> /\ waitingBlocks[n] = <<>>
    BY DEF Init, Empty
  <2>2. DOMAIN <<>> = {} /\ <<>> \in [{} -> Answers] /\ <<>> \in [{} -> Request]
    OBVIOUS
  <2>3. \A n \in Node : AskTyped(n)
    BY <2>1, <2>2 DEF AskTyped
  <2> QED
    BY <2>3 DEF Init, NodeTyped
<1>3. LinkTyped
  BY DEF Init, LinkTyped
<1> QED
  BY <1>1, <1>2, <1>3 DEF Typed

-----------------------------------------------------------------------------
(* What the actions do to the links *)

\* Nothing of the exchange in which n asks p is added or overtaken.
Untouched(n, p) ==
  /\ Kept(flight'[<<n, p>>], flight[<<n, p>>], Requests)
  /\ Kept(flight'[<<p, n>>], flight[<<p, n>>], Responses)

\* The packet at hand is taken and answered.
LEMMA ReplyLinks ==
  ASSUME flight \in [Link -> Seq(Packets)], NEW n \in Node, NEW m \in Peers[n],
         flight[<<m, n>>] # <<>>, NEW msgs \in Seq(Packets), Reply(n, m, msgs)
  PROVE  /\ flight' \in [Link -> Seq(Packets)]
         /\ flight'[<<m, n>>] = Tail(flight[<<m, n>>])
         /\ flight'[<<n, m>>] = flight[<<n, m>>] \o msgs
         /\ \A l \in Link \ {<<m, n>>, <<n, m>>} : flight'[l] = flight[l]
<1>1. <<m, n>> \in Link /\ <<n, m>> \in Link /\ <<m, n>> # <<n, m>>
  BY Links
<1>2. PICK x, y : x = <<m, n>> /\ y = <<n, m>>
  OBVIOUS
<1>3. x \in Link /\ y \in Link /\ x # y /\ flight[x] \in Seq(Packets) /\ flight[y] \in Seq(Packets)
  BY <1>1, <1>2
<1>4. Tail(flight[x]) \in Seq(Packets) /\ flight[y] \o msgs \in Seq(Packets)
  BY <1>2, <1>3, TailAt, ConcatAt
<1>5. flight' = [[flight EXCEPT ![x] = Tail(@)] EXCEPT ![y] = @ \o msgs]
  BY <1>2 DEF Reply, Taken
<1>6. /\ flight' \in [Link -> Seq(Packets)]
      /\ flight'[x] = Tail(flight[x]) /\ flight'[y] = flight[y] \o msgs
      /\ \A l \in Link \ {x, y} : flight'[l] = flight[l]
  BY <1>3, <1>4, <1>5
<1> QED
  BY <1>2, <1>6

\* A reply with no request and no response of the exchange leaves it alone.
LEMMA ReplyElsewhere ==
  ASSUME flight \in [Link -> Seq(Packets)], NEW n \in Node, NEW m \in Peers[n],
         flight[<<m, n>>] # <<>>, NEW msgs \in Seq(Packets), Reply(n, m, msgs),
         NEW c \in Node, NEW p \in Peers[c],
         <<c, p>> = <<n, m>> => \A i \in DOMAIN msgs : msgs[i].type \notin Requests,
         <<c, p>> = <<m, n>> => \A i \in DOMAIN msgs : msgs[i].type \notin Responses
  PROVE  Untouched(c, p)
<1>1. /\ <<c, p>> \in Link /\ <<p, c>> \in Link /\ <<c, p>> # <<p, c>>
      /\ <<n, m>> \in Link /\ <<m, n>> \in Link /\ <<n, m>> # <<m, n>>
  BY Links
<1>2. /\ flight'[<<m, n>>] = Tail(flight[<<m, n>>])
      /\ flight'[<<n, m>>] = flight[<<n, m>>] \o msgs
      /\ \A l \in Link \ {<<m, n>>, <<n, m>>} : flight'[l] = flight[l]
  BY ReplyLinks
<1>3. \A types : Kept(Tail(flight[<<m, n>>]), flight[<<m, n>>], types)
  BY <1>1, KeptTail
<1>4. ASSUME NEW types, \A i \in DOMAIN msgs : msgs[i].type \notin types
      PROVE  Kept(flight[<<n, m>>] \o msgs, flight[<<n, m>>], types)
  <2>1. Kept(flight[<<n, m>>], flight[<<n, m>>], types) /\ flight[<<n, m>>] \in Seq(Packets)
    BY <1>1, KeptSame
  <2> QED
    BY <1>4, <2>1, KeptConcat
<1>5. \A types : \A l \in Link \ {<<m, n>>, <<n, m>>} : Kept(flight'[l], flight[l], types)
  BY <1>2, KeptSame
<1>6. Kept(flight'[<<c, p>>], flight[<<c, p>>], Requests)
  <2>1. CASE <<c, p>> = <<n, m>>
    BY <1>2, <1>4, <2>1
  <2>2. CASE <<c, p>> = <<m, n>>
    BY <1>2, <1>3, <2>2
  <2>3. CASE <<c, p>> \notin {<<m, n>>, <<n, m>>}
    BY <1>1, <1>5, <2>3
  <2> QED
    BY <2>1, <2>2, <2>3
<1>7. Kept(flight'[<<p, c>>], flight[<<p, c>>], Responses)
  <2>1. CASE <<p, c>> = <<n, m>>
    <3>1. <<c, p>> = <<m, n>>
      BY <2>1
    <3> QED
      BY <1>2, <1>4, <2>1, <3>1
  <2>2. CASE <<p, c>> = <<m, n>>
    BY <1>2, <1>3, <2>2
  <2>3. CASE <<p, c>> \notin {<<m, n>>, <<n, m>>}
    BY <1>1, <1>5, <2>3
  <2> QED
    BY <2>1, <2>2, <2>3
<1> QED
  BY <1>6, <1>7 DEF Untouched

\* Packets are put on the links from n, or not.
LEMMA BroadcastLinks ==
  ASSUME NEW n \in Node, NEW q \in [Link -> Seq(Packets)], NEW msgs \in Seq(Packets),
         broadcast(n, q, msgs)
  PROVE  /\ flight' \in [Link -> Seq(Packets)]
         /\ \A l \in Link : flight'[l] = q[l] \/ (l[1] = n /\ flight'[l] = q[l] \o msgs)
<1>1. \A l \in Link : q[l] \in Seq(Packets) /\ q[l] \o msgs \in Seq(Packets)
  BY ConcatAt
<1> QED
  BY <1>1 DEF broadcast, Out

\* A broadcast of a block leaves the exchanges alone.
LEMMA BroadcastElsewhere ==
  ASSUME flight \in [Link -> Seq(Packets)], NEW n \in Node, NEW q \in [Link -> Seq(Packets)],
         \A l \in Link : \A types : Kept(q[l], flight[l], types),
         NEW b \in Hash, broadcast(n, q, Announce(b)), NEW c \in Node, NEW p \in Peers[c]
  PROVE  Untouched(c, p) /\ Announce(b) \in Seq(Packets)
<1>1. Announce(b) \in Seq(Packets) /\ \A i \in DOMAIN Announce(b) : Announce(b)[i].type = "Block"
  <2>1. [type |-> "Block", block |-> b] \in Packets
    BY DEF Packets
  <2> QED
    BY <2>1 DEF Announce
<1>2. ASSUME NEW l \in Link, NEW types, "Block" \notin types
      PROVE  Kept(flight'[l], flight[l], types)
  <2>1. flight'[l] = q[l] \/ flight'[l] = q[l] \o Announce(b)
    BY DEF broadcast
  <2>2. Kept(q[l], flight[l], types) /\ q[l] \in Seq(Packets) /\ flight[l] \in Seq(Packets)
    OBVIOUS
  <2>3. Kept(q[l] \o Announce(b), flight[l], types)
    <3>1. \A i \in DOMAIN Announce(b) : Announce(b)[i].type \notin types
      BY <1>1, <1>2
    <3> QED
      BY <1>1, <2>2, <3>1, KeptConcat
  <2> QED
    BY <2>1, <2>2, <2>3
<1>3. "Block" \notin Requests /\ "Block" \notin Responses
  BY DEF Requests, Responses
<1>4. <<c, p>> \in Link /\ <<p, c>> \in Link
  BY Links
<1> QED
  BY <1>1, <1>2, <1>3, <1>4 DEF Untouched

\* The packet at hand is taken from its link.
LEMMA TakenLinks ==
  ASSUME flight \in [Link -> Seq(Packets)], NEW n \in Node, NEW m \in Peers[n],
         flight[<<m, n>>] # <<>>
  PROVE  /\ Taken(n, m) \in [Link -> Seq(Packets)]
         /\ \A l \in Link : \A types : Kept(Taken(n, m)[l], flight[l], types)
<1>1. PICK x \in Link : x = <<m, n>>
  BY Links
<1>2. flight[x] \in Seq(Packets) /\ flight[x] # <<>> /\ Tail(flight[x]) \in Seq(Packets)
  BY <1>1, TailAt
<1>3. Taken(n, m) = [flight EXCEPT ![x] = Tail(flight[x])]
  BY <1>1 DEF Taken
<1>4. \A l \in Link : Taken(n, m)[l] = flight[l] \/ (l = x /\ Taken(n, m)[l] = Tail(flight[x]))
  BY <1>3
<1>5. \A types : Kept(Tail(flight[x]), flight[x], types)
  BY <1>2, KeptTail
<1>6. \A l \in Link : \A types : Kept(flight[l], flight[l], types)
  BY KeptSame
<1> QED
  BY <1>2, <1>3, <1>4, <1>5, <1>6

-----------------------------------------------------------------------------
(* What the chain answers *)

\* An answer of hashes counts the blocks up to its end.
LEMMA HashAnswers ==
  ASSUME NEW n \in Node, longest[n] \in Hash, NEW base \in Hash, NEW a \in GetSyncHash(n, base)
  PROVE  a \in Answers /\ a.type = "SyncResp" /\ a \in Packets
<1>1. PICK top \in Hash : top = longest[n]
  OBVIOUS
<1>2. PICK db \in Nat, dt \in Nat : db = Depth[base] /\ dt = Depth[top]
  BY SyncTree
<1>3. PICK diff \in 0 .. dt - db :
        a = [type |-> "SyncResp", uptodate |-> dt - db = 0, base |-> base,
             end |-> At(top, db + diff), diff |-> diff]
  <2>1. a \in {[type |-> "SyncResp", uptodate |-> dt - db = 0, base |-> base,
             end |-> At(top, db + diff), diff |-> diff] :
              diff \in {d \in 0 .. dt - db : d = dt - db \/ d \in 1 .. SyncMax}}
    BY <1>1, <1>2 DEF GetSyncHash
  <2> QED
    BY <2>1
<1>4. db + diff \in Depth[base] .. Depth[top] /\ diff \in Nat
  BY <1>2
<1>5. PICK end \in Hash : end = At(top, db + diff) /\ Depth[end] = db + diff
  BY <1>4, AtDepth
<1>6. a = [type |-> "SyncResp", uptodate |-> dt - db = 0, base |-> base, end |-> end, diff |-> diff]
  BY <1>3, <1>5
<1>7. (dt - db = 0) \in BOOLEAN
  OBVIOUS
<1>8. a \in Answer
  BY <1>4, <1>6, <1>7 DEF Answer
<1>9. a.diff = Depth[a.end] - Depth[a.base] /\ a.type = "SyncResp"
  BY <1>2, <1>4, <1>5, <1>6
<1> QED
  BY <1>8, <1>9 DEF Answers, Packets

\* An answer of blocks: chunks between the two ends that were asked for.
LEMMA BlockAnswers ==
  ASSUME NEW n \in Node, longest[n] \in Hash, NEW base \in Hash, NEW end \in Hash
  PROVE  LET c == Chunks(GetSyncBlocks(n, base, end))
         IN  /\ c \in Seq(Packets)
             /\ \A i \in DOMAIN c : c[i].type = "BlockResp"
             /\ \A i, j \in DOMAIN c : /\ Last(c[j]) - First(c[i]) + 1 <= Depth[end] - Depth[base]
                                       /\ i < j => Last(c[i]) < First(c[j])
<1>1. PICK db \in Nat, de \in Nat : db = Depth[base] /\ de = Depth[end]
  BY SyncTree
<1>2. PICK s : s = GetSyncBlocks(n, base, end)
  OBVIOUS
<1>3. s \in Seq(Hash) /\ (\A i \in 1 .. Len(s) : Depth[s[i]] = db + i)
        /\ (s = <<>> \/ db + Len(s) = de)
  <2>1. CASE s = <<>>
    BY <2>1
  <2>2. CASE s # <<>>
    <3>1. s = Between(base, end) /\ db < de
      BY <1>1, <1>2, <2>2 DEF GetSyncBlocks
    <3> QED
      BY <1>1, <3>1, BetweenDepths, SMTT(30)
  <2> QED
    BY <2>1, <2>2
<1>4. PICK c : c = Chunks(s)
  OBVIOUS
<1>5. /\ c \in Seq(Packets)
      /\ \A i \in DOMAIN c : c[i].type = "BlockResp"
      /\ \A i \in DOMAIN c : db + 1 <= First(c[i]) /\ Last(c[i]) <= db + Len(s)
      /\ \A i, j \in DOMAIN c : i < j => Last(c[i]) < First(c[j])
  BY <1>3, <1>4, ChunksAreRuns
<1>6. ASSUME NEW i \in DOMAIN c, NEW j \in DOMAIN c
      PROVE  Last(c[j]) - First(c[i]) + 1 <= de - db
  <2>1. c[i] \in Packets /\ c[j] \in Packets /\ c[i].type = "BlockResp" /\ c[j].type = "BlockResp"
    BY <1>5
  <2>2. c[i].blocks \in Runs /\ c[j].blocks \in Runs
    BY <2>1, PacketKinds
  <2>3. First(c[i]) \in Nat /\ Last(c[j]) \in Nat /\ First(c[i]) <= Last(c[i]) /\ Last(c[i]) \in Nat
    <3>1. PICK u \in Runs, v \in Runs : u = c[i].blocks /\ v = c[j].blocks
      BY <2>2
    <3>2. /\ First(c[i]) = Depth[u[1]] /\ Last(c[i]) = Depth[u[Len(u)]]
          /\ Last(c[j]) = Depth[v[Len(v)]]
      BY <3>1 DEF First, Last
    <3> QED
      BY <3>2, RunEnds
  <2>4. s # <<>>
    <3>1. SUFFICES ASSUME s = <<>> PROVE FALSE
      OBVIOUS
    <3>2. db + 1 <= First(c[i]) /\ Last(c[i]) <= db + 0
      BY <1>5, <3>1
    <3> QED
      BY <2>3, <3>2
  <2>5. Len(s) \in Nat /\ db + Len(s) = de
    BY <1>3, <2>4
  <2> QED
    BY <1>5, <2>3, <2>5
<1> QED
  BY <1>1, <1>2, <1>4, <1>5, <1>6

-----------------------------------------------------------------------------
(* Every action keeps the types *)

\* A branch head is replaced by another.
LEMMA ReplaceFinite ==
  ASSUME NEW S, IsFiniteSet(S), NEW x, NEW y, NEW T, T = (S \ {x}) \cup {y}
  PROVE  IsFiniteSet(T)
<1>1. PICK R : R = S \ {x}
  OBVIOUS
<1>2. IsFiniteSet(R)
  BY <1>1, FS_Subset
<1>3. IsFiniteSet(R \cup {y})
  BY <1>2, FS_AddElement
<1> QED
  BY <1>1, <1>3

\* The chain takes a batch.
LEMMA ChainLoopTyped ==
  ASSUME Typed, NEW n \in Node, ChainLoop(n)
  PROVE  Typed'
<1>1. PICK batch \in Seq(Hash) \ {<<>>} : batch = Head(pendingBlocks[n])
  <2>1. pendingBlocks[n] \in Seq(Seq(Hash) \ {<<>>}) /\ pendingBlocks[n] # <<>>
    BY DEF Typed, ChainTyped, ChainLoop
  <2> QED
    BY <2>1, TailAt
<1>2. PICK first \in Hash, last \in Hash : first = batch[1] /\ last = batch[Linked(batch)]
  <2>1. Linked(batch) \in DOMAIN batch /\ 1 \in DOMAIN batch
    BY LinkedIn
  <2> QED
    BY <2>1
<1>a. PICK grown : grown = IF Parent[first] = longest[n] THEN last ELSE longest[n]
  OBVIOUS
<1>b. \/ UNCHANGED <<heads, longest, lastHeight>>
      \/ /\ heads' = [heads EXCEPT ![n] = (@ \ {Parent[first]}) \cup {last}]
         /\ \/ \E h \in heads'[n] :
                 /\ longest' = [longest EXCEPT ![n] = IF Depth[h] > lastHeight[n] THEN h ELSE grown]
                 /\ lastHeight' = [lastHeight EXCEPT ![n] = IF Depth[h] > lastHeight[n] THEN Depth[h] ELSE @]
            \/ /\ longest' = [longest EXCEPT ![n] = grown]
               /\ UNCHANGED lastHeight
  BY <1>1, <1>2, <1>a DEF ChainLoop, addBlocks, notifyCheck
<1>3. ASSUME NEW c \in Node
      PROVE  /\ heads'[c] \in SUBSET Hash /\ IsFiniteSet(heads'[c])
             /\ longest'[c] \in heads'[c] /\ lastHeight'[c] \in Nat
  <2>0. /\ heads[c] \in SUBSET Hash /\ IsFiniteSet(heads[c]) /\ longest[c] \in heads[c]
        /\ heads \in [Node -> SUBSET Hash] /\ longest \in [Node -> Hash]
        /\ lastHeight \in [Node -> Nat]
    BY DEF Typed, ChainTyped
  <2>1. CASE c # n \/ UNCHANGED <<heads, longest, lastHeight>>
    BY <1>b, <2>0, <2>1
  <2>2. CASE c = n /\ heads' = [heads EXCEPT ![n] = (@ \ {Parent[first]}) \cup {last}]
    <3>1. heads'[c] = (heads[c] \ {Parent[first]}) \cup {last}
      BY <2>0, <2>2
    <3>2. heads'[c] \in SUBSET Hash /\ IsFiniteSet(heads'[c]) /\ grown \in heads'[c]
      BY <1>a, <2>0, <2>2, <3>1, ReplaceFinite
    <3>3. \A h \in Hash : Depth[h] \in Nat
      BY SyncTree
    <3>4. CASE UNCHANGED <<heads, longest, lastHeight>>
      BY <2>0, <3>4
    <3>5. CASE \E h \in heads'[n] :
                 /\ longest' = [longest EXCEPT ![n] = IF Depth[h] > lastHeight[n] THEN h ELSE grown]
                 /\ lastHeight' = [lastHeight EXCEPT ![n] = IF Depth[h] > lastHeight[n] THEN Depth[h] ELSE @]
      <4>1. PICK h \in heads'[c] :
              /\ longest'[c] = IF Depth[h] > lastHeight[c] THEN h ELSE grown
              /\ lastHeight'[c] = IF Depth[h] > lastHeight[c] THEN Depth[h] ELSE lastHeight[c]
        BY <2>0, <2>2, <3>5
      <4> QED
        BY <2>0, <3>2, <3>3, <4>1
    <3>6. CASE longest' = [longest EXCEPT ![n] = grown] /\ UNCHANGED lastHeight
      BY <2>0, <2>2, <3>2, <3>6
    <3> QED
      BY <1>b, <3>4, <3>5, <3>6
  <2> QED
    BY <1>b, <2>1, <2>2
<1>4. /\ heads' = [c \in Node |-> heads'[c]] /\ longest' = [c \in Node |-> longest'[c]]
      /\ lastHeight' = [c \in Node |-> lastHeight'[c]]
  BY <1>b DEF Typed, ChainTyped
<1>5. ASSUME NEW c \in Node
      PROVE  pendingBlocks'[c] \in Seq(Seq(Hash) \ {<<>>}) /\ Len(pendingBlocks'[c]) <= MaxPending
  <2>1. pendingBlocks[c] \in Seq(Seq(Hash) \ {<<>>}) /\ Len(pendingBlocks[c]) <= MaxPending /\ MaxPending \in Nat
    BY SyncBounds DEF Typed, ChainTyped
  <2>2. CASE c # n
    BY <2>1, <2>2 DEF Typed, ChainTyped, ChainLoop
  <2>3. CASE c = n
    <3>1. pendingBlocks'[c] = Tail(pendingBlocks[c]) /\ pendingBlocks[c] # <<>>
      BY <2>3 DEF Typed, ChainTyped, ChainLoop
    <3>2. Tail(pendingBlocks[c]) \in Seq(Seq(Hash) \ {<<>>}) /\ Len(pendingBlocks[c]) \in Nat
            /\ Len(Tail(pendingBlocks[c])) = Len(pendingBlocks[c]) - 1
      BY <2>1, <3>1, TailAt
    <3> QED
      BY <2>1, <3>1, <3>2
  <2> QED
    BY <2>2, <2>3
<1>6. pendingBlocks' = [c \in Node |-> pendingBlocks'[c]]
  BY DEF Typed, ChainTyped, ChainLoop
<1>7. ChainTyped'
  <2>1. heads' \in [Node -> SUBSET Hash]
    BY <1>3, <1>4
  <2>2. longest' \in [Node -> Hash] /\ lastHeight' \in [Node -> Nat]
    BY <1>3, <1>4
  <2>3. pendingBlocks' \in [Node -> Seq(Seq(Hash) \ {<<>>})]
    BY <1>5, <1>6
  <2> QED
    BY <1>3, <1>5, <2>1, <2>2, <2>3 DEF ChainTyped
<1>8. NodeTyped' /\ LinkTyped'
  BY DEF Typed, NodeTyped, LinkTyped, AskTyped, ChainLoop, netVars
<1> QED
  BY <1>7, <1>8 DEF Typed

\* A batch is handed to the chain.
LEMMA AddBlocksTyped ==
  ASSUME ChainTyped, NEW n \in Node, NEW batch \in Seq(Hash), batch # <<>>,
         AddBlocks(n, batch), UNCHANGED <<heads, longest, lastHeight>>
  PROVE  ChainTyped'
<1>1. ASSUME NEW c \in Node
      PROVE  pendingBlocks'[c] \in Seq(Seq(Hash) \ {<<>>}) /\ Len(pendingBlocks'[c]) <= MaxPending
  <2>1. pendingBlocks[c] \in Seq(Seq(Hash) \ {<<>>}) /\ Len(pendingBlocks[c]) <= MaxPending /\ MaxPending \in Nat
    BY SyncBounds DEF ChainTyped
  <2>2. CASE c # n
    BY <2>1, <2>2 DEF ChainTyped, AddBlocks
  <2>3. CASE c = n
    <3>1. pendingBlocks'[c] = Append(pendingBlocks[c], batch) /\ Len(pendingBlocks[c]) < MaxPending
      BY <2>3 DEF ChainTyped, AddBlocks
    <3>2. /\ Append(pendingBlocks[c], batch) \in Seq(Seq(Hash) \ {<<>>}) /\ Len(pendingBlocks[c]) \in Nat
          /\ Len(Append(pendingBlocks[c], batch)) = Len(pendingBlocks[c]) + 1
      <4>1. batch \in Seq(Hash) \ {<<>>}
        OBVIOUS
      <4> QED
        BY <2>1, <4>1, AppendProperties
    <3> QED
      BY <2>1, <3>1, <3>2
  <2> QED
    BY <2>2, <2>3
<1>2. pendingBlocks' = [c \in Node |-> pendingBlocks'[c]]
  BY DEF ChainTyped, AddBlocks
<1>3. pendingBlocks' \in [Node -> Seq(Seq(Hash) \ {<<>>})]
  BY <1>1, <1>2
<1> QED
  BY <1>1, <1>3 DEF ChainTyped

\* The scheduler finds a block.
LEMMA MineTyped ==
  ASSUME Typed, NEW n \in Node, Mine(n)
  PROVE  Typed'
<1>1. PICK b \in Mines[n] \ Known(n) :
       /\ heads' = [heads EXCEPT ![n] = (@ \ {Parent[b]}) \cup {b}]
       /\ longest' = [longest EXCEPT ![n] = b]
       /\ broadcastFilter' = [broadcastFilter EXCEPT ![n] = @ \cup {b}]
       /\ broadcast(n, flight, Announce(b))
  BY DEF Mine
<1>2. b \in Hash
  BY SyncBounds
<1>3. ASSUME NEW c \in Node
      PROVE  heads'[c] \in SUBSET Hash /\ IsFiniteSet(heads'[c]) /\ longest'[c] \in heads'[c]
  <2>1. /\ heads[c] \in SUBSET Hash /\ IsFiniteSet(heads[c]) /\ longest[c] \in heads[c]
        /\ heads \in [Node -> SUBSET Hash] /\ longest \in [Node -> Hash]
    BY DEF Typed, ChainTyped
  <2>2. CASE c # n
    BY <1>1, <2>1, <2>2
  <2>3. CASE c = n
    <3>1. heads'[c] = (heads[c] \ {Parent[b]}) \cup {b} /\ longest'[c] = b
      BY <1>1, <2>1, <2>3
    <3>2. IsFiniteSet(heads'[c])
      BY <2>1, <3>1, ReplaceFinite
    <3> QED
      BY <1>2, <2>1, <3>1, <3>2
  <2> QED
    BY <2>2, <2>3
<1>4. heads' = [c \in Node |-> heads'[c]] /\ longest' = [c \in Node |-> longest'[c]]
  BY <1>1 DEF Typed, ChainTyped
<1>5. ChainTyped'
  <2>1. heads' \in [Node -> SUBSET Hash] /\ longest' \in [Node -> Hash]
    BY <1>3, <1>4
  <2>2. pendingBlocks' = pendingBlocks /\ lastHeight' = lastHeight
    BY DEF Mine
  <2> QED
    BY <1>3, <2>1, <2>2 DEF Typed, ChainTyped
<1>6. NodeTyped'
  <2>1. broadcastFilter' \in [Node -> SUBSET Hash]
    BY <1>1, <1>2 DEF Typed, NodeTyped
  <2> QED
    BY <2>1 DEF Typed, NodeTyped, AskTyped, Mine
<1>7. LinkTyped'
  <2>1. Announce(b) \in Seq(Packets)
    BY <1>2 DEF Announce, Packets
  <2>2. flight' \in [Link -> Seq(Packets)]
    <3>1. \A l \in Link : flight[l] \in Seq(Packets) /\ flight[l] \o Announce(b) \in Seq(Packets)
      BY <2>1, ConcatAt DEF Typed, LinkTyped
    <3> QED
      BY <1>1, <3>1 DEF broadcast
  <2> QED
    BY <2>2 DEF Typed, LinkTyped, Mine
<1> QED
  BY <1>5, <1>6, <1>7 DEF Typed

\* The counters of the bounds.
LEMMA InTimeTyped ==
  ASSUME LinkTyped, NEW quiet, NEW next, InTime(quiet, next)
  PROVE  early' \in Early \cup {<<0, 0>>}
  BY DEF InTime, LinkTyped

\* What a node asks everybody.
LEMMA HashRequests ==
  ASSUME ChainTyped, NEW n \in Node, NEW order \in [1 .. Cardinality(heads[n]) -> heads[n]]
  PROVE  LET msgs == [i \in DOMAIN order |-> SyncReq(order[i])]
         IN  msgs \in Seq(Packets) /\ \A i \in DOMAIN msgs : msgs[i].type = "SyncReq"
<1>1. PICK k \in Nat : k = Cardinality(heads[n])
  BY FS_CardinalityType DEF ChainTyped
<1>2. \A i \in 1 .. k : order[i] \in Hash
  BY <1>1 DEF ChainTyped
<1>3. \A h \in Hash : SyncReq(h) \in Packets /\ SyncReq(h).type = "SyncReq"
  BY DEF SyncReq, Packets
<1>4. DOMAIN order = 1 .. k
  BY <1>1
<1> DEFINE msgs == [i \in 1 .. k |-> SyncReq(order[i])]
<1>5. msgs \in Seq(Packets) /\ \A i \in DOMAIN msgs : msgs[i].type = "SyncReq"
  BY <1>2, <1>3
<1> QED
  BY <1>4, <1>5

\* The node asks for hashes.
LEMMA RequestHashTyped ==
  ASSUME Typed, NEW n \in Node, RequestHash(n)
  PROVE  Typed'
<1>1. PICK order \in [1 .. Cardinality(heads[n]) -> heads[n]] :
       /\ InTime(Answered(n), OneMoreTick)
       /\ broadcast(n, flight, [i \in DOMAIN order |-> SyncReq(order[i])])
  BY DEF RequestHash
<1>2. PICK msgs \in Seq(Packets) : msgs = [i \in DOMAIN order |-> SyncReq(order[i])]
  BY HashRequests DEF Typed
<1>3. flight' \in [Link -> Seq(Packets)]
  <2>1. \A l \in Link : flight[l] \in Seq(Packets) /\ flight[l] \o msgs \in Seq(Packets)
    BY ConcatAt DEF Typed, LinkTyped
  <2>2. flight' = [l \in Link |-> IF l \in Out(n) /\ Len(flight[l]) + Len(msgs) <= MaxFlight
                                  THEN flight[l] \o msgs ELSE flight[l]]
    BY <1>1, <1>2 DEF broadcast
  <2> QED
    BY <2>1, <2>2
<1>4. LinkTyped'
  <2>1. early' \in Early \cup {<<0, 0>>}
    BY <1>1 DEF InTime, Typed, LinkTyped
  <2> QED
    BY <1>3, <2>1 DEF LinkTyped
<1>5. ChainTyped'
  BY DEF Typed, ChainTyped, RequestHash, chainVars
<1>6. NodeTyped'
  BY DEF Typed, NodeTyped, AskTyped, RequestHash
<1> QED
  BY <1>4, <1>5, <1>6 DEF Typed

\* The block request that an answer becomes.
BlockReq(r) == [type |-> "BlockReq", base |-> r.base, end |-> r.end]

\* The node asks for blocks, some of the peers that have answered.
LEMMA BlockRequests ==
  ASSUME Typed, NEW n \in Node, RequestBlocks(n)
  PROVE  \E ask \in SUBSET DOMAIN syncHashResp[n] :
           /\ \A p \in ask : <<n, p>> \in Link /\ BlockReq(syncHashResp[n][p]) \in Packets
                /\ syncHashResp[n][p] \in Answers
                /\ flight'[<<n, p>>] = flight[<<n, p>>] \o <<BlockReq(syncHashResp[n][p])>>
           /\ \A l \in Link : (\A p \in ask : l # <<n, p>>) => flight'[l] = flight[l]
           /\ waitingBlocks' = [waitingBlocks EXCEPT ![n] =
                [p \in ask |-> [remainNums |-> syncHashResp[n][p].diff, response |-> <<>>]]]
           /\ flight' \in [Link -> Seq(Packets)]
<1>1. PICK ask \in SUBSET Peers[n] :
       /\ Chosen(n, ask)
       /\ flight' = [l \in Link |-> flight[l] \o
            (IF l \in {n} \X ask
             THEN <<[type |-> "BlockReq", base |-> syncHashResp[n][l[2]].base,
                     end |-> syncHashResp[n][l[2]].end]>>
             ELSE <<>>)]
       /\ waitingBlocks' = [waitingBlocks EXCEPT ![n] =
            [p \in ask |-> [remainNums |-> syncHashResp[n][p].diff,
                            response |-> <<>>]]]
  BY DEF RequestBlocks
<1>2. ask \subseteq DOMAIN syncHashResp[n]
  BY <1>1 DEF Chosen, Behind
<1>3. \A p \in ask : /\ syncHashResp[n][p] \in Answers /\ BlockReq(syncHashResp[n][p]) \in Packets
  <2>1. \A p \in DOMAIN syncHashResp[n] : syncHashResp[n][p] \in Answers
    BY DEF Typed, NodeTyped, AskTyped
  <2>2. \A r \in Answers : r.base \in Hash /\ r.end \in Hash
    BY DEF Answers, Answer
  <2>3. \A r \in Answers : BlockReq(r) \in Packets
    BY <2>2 DEF BlockReq, Packets
  <2> QED
    BY <1>2, <2>1, <2>3
<1>4. \A l \in Link : flight[l] \in Seq(Packets)
  BY DEF Typed, LinkTyped
<1>5. ASSUME NEW p \in ask
      PROVE  <<n, p>> \in Link /\ flight'[<<n, p>>] = flight[<<n, p>>] \o <<BlockReq(syncHashResp[n][p])>>
  <2>1. <<n, p>> \in Link /\ <<n, p>> \in {n} \X ask /\ <<n, p>>[2] = p
    BY Links
  <2> QED
    BY <1>1, <2>1 DEF BlockReq
<1>6. ASSUME NEW l \in Link, \A p \in ask : l # <<n, p>>
      PROVE  flight'[l] = flight[l]
  <2>1. l \notin {n} \X ask
    BY <1>6
  <2>2. flight'[l] = flight[l] \o <<>>
    BY <1>1, <2>1
  <2> QED
    BY <1>4, <2>2
<1>7. flight' \in [Link -> Seq(Packets)]
  <2>1. ASSUME NEW l \in Link PROVE flight'[l] \in Seq(Packets)
    <3>1. CASE \A p \in ask : l # <<n, p>>
      BY <1>4, <1>6, <3>1
    <3>2. ASSUME NEW p \in ask, l = <<n, p>> PROVE flight'[l] \in Seq(Packets)
      <4>1. <<BlockReq(syncHashResp[n][p])>> \in Seq(Packets)
        BY <1>3
      <4>2. PICK c \in Seq(Packets), m \in Seq(Packets) : flight'[l] = c \o m
        BY <1>4, <1>5, <3>2, <4>1
      <4>3. c \o m \in Seq(Packets)
        OBVIOUS
      <4> QED
        BY <4>2, <4>3
    <3> QED
      BY <3>1, <3>2
  <2>2. flight' = [l \in Link |-> flight'[l]]
    BY <1>1
  <2> QED
    BY <2>1, <2>2
<1> QED
  BY <1>1, <1>2, <1>3, <1>5, <1>6, <1>7

\* The answers become block requests.
LEMMA RequestBlocksTyped ==
  ASSUME Typed, NEW n \in Node, RequestBlocks(n)
  PROVE  Typed'
<1>1. PICK ask \in SUBSET DOMAIN syncHashResp[n] :
           /\ \A p \in ask : syncHashResp[n][p] \in Answers
           /\ waitingBlocks' = [waitingBlocks EXCEPT ![n] =
                [p \in ask |-> [remainNums |-> syncHashResp[n][p].diff, response |-> <<>>]]]
           /\ flight' \in [Link -> Seq(Packets)]
  BY BlockRequests
<1>2. LinkTyped'
  BY <1>1 DEF Typed, LinkTyped, RequestBlocks, InTime
<1>3. ChainTyped'
  BY DEF Typed, ChainTyped, RequestBlocks, chainVars
<1>4. /\ DOMAIN syncHashResp = Node /\ DOMAIN waitingBlocks = Node
      /\ syncHashResp' = [syncHashResp EXCEPT ![n] = <<>>]
  BY DEF Typed, NodeTyped, RequestBlocks, Empty
<1>5. ASSUME NEW c \in Node PROVE AskTyped(c)'
  <2>0. AskTyped(c)
    BY DEF Typed, NodeTyped
  <2>1. CASE c # n
    <3>1. syncHashResp'[c] = syncHashResp[c] /\ waitingBlocks'[c] = waitingBlocks[c]
      BY <1>1, <1>4, <2>1
    <3> QED
      BY <2>0, <3>1 DEF AskTyped
  <2>2. CASE c = n
    <3>1. /\ syncHashResp'[c] = <<>>
          /\ waitingBlocks'[c] = [p \in ask |-> [remainNums |-> syncHashResp[n][p].diff, response |-> <<>>]]
      BY <1>1, <1>4, <2>2
    <3>2. DOMAIN <<>> = {} /\ <<>> \in [{} -> Answers] /\ <<>> \in Seq(Hash)
      OBVIOUS
    <3>3. \A p \in ask : [remainNums |-> syncHashResp[n][p].diff, response |-> <<>>] \in Request
      <4>1. \A p \in ask : syncHashResp[n][p].diff \in Nat
        BY <1>1 DEF Answers, Answer
      <4> QED
        BY <3>2, <4>1 DEF Request
    <3>4. ask \subseteq Peers[n]
      BY <2>0, <2>2 DEF AskTyped
    <3> QED
      BY <2>2, <3>1, <3>2, <3>3, <3>4 DEF AskTyped
  <2> QED
    BY <2>1, <2>2
<1>6. inited' \in [Node -> BOOLEAN] /\ watingHash' \in [Node -> BOOLEAN] /\ broadcastFilter' = broadcastFilter
  <2>1. (inited[n] \/ Behind(n) = {}) \in BOOLEAN
    OBVIOUS
  <2> QED
    BY <2>1 DEF Typed, NodeTyped, RequestBlocks
<1>7. NodeTyped'
  <2>1. DOMAIN syncHashResp' = Node /\ DOMAIN waitingBlocks' = Node
    BY <1>1, <1>4
  <2> QED
    BY <1>5, <1>6, <2>1 DEF Typed, NodeTyped
<1> QED
  BY <1>2, <1>3, <1>7 DEF Typed

\* A request that is forgotten.
LEMMA RemoveTyped ==
  ASSUME NEW W, W \in [DOMAIN W -> Request], NEW p
  PROVE  /\ DOMAIN Remove(W, p) = DOMAIN W \ {p}
         /\ Remove(W, p) \in [DOMAIN Remove(W, p) -> Request]
         /\ \A q \in DOMAIN W \ {p} : Remove(W, p)[q] = W[q]
  BY DEF Remove

\* The waiting requests of a node change, nothing else about it.
LEMMA WaitingTyped ==
  ASSUME NodeTyped, NEW n \in Node, NEW W, waitingBlocks' = [waitingBlocks EXCEPT ![n] = W],
         DOMAIN W \subseteq Peers[n], W \in [DOMAIN W -> Request],
         UNCHANGED <<inited, watingHash, syncHashResp, broadcastFilter>>
  PROVE  NodeTyped'
<1>1. ASSUME NEW c \in Node PROVE AskTyped(c)'
  <2>0. AskTyped(c) /\ DOMAIN waitingBlocks = Node
    BY DEF NodeTyped
  <2>1. CASE c # n
    <3>1. waitingBlocks'[c] = waitingBlocks[c]
      BY <2>0, <2>1
    <3> QED
      BY <2>0, <3>1 DEF AskTyped
  <2>2. CASE c = n
    <3>1. waitingBlocks'[c] = W
      BY <2>0, <2>2
    <3> QED
      BY <2>0, <2>2, <3>1 DEF AskTyped
  <2> QED
    BY <2>1, <2>2
<1> QED
  BY <1>1 DEF NodeTyped

\* A request is given up.
LEMMA TimeoutTyped ==
  ASSUME Typed, NEW n \in Node, NEW p \in Peers[n], TimeoutBlocks(n, p)
  PROVE  Typed'
<1>1. LinkTyped' /\ ChainTyped'
  BY DEF Typed, LinkTyped, ChainTyped, TimeoutBlocks, InTime, chainVars
<1>2. PICK W : W = waitingBlocks[n] /\ W \in [DOMAIN W -> Request] /\ DOMAIN W \subseteq Peers[n]
  BY DEF Typed, NodeTyped, AskTyped
<1>3. PICK V : /\ V = Remove(W, p) /\ DOMAIN V \subseteq Peers[n] /\ V \in [DOMAIN V -> Request]
  BY <1>2, RemoveTyped
<1>4. waitingBlocks' = [waitingBlocks EXCEPT ![n] = V]
  BY <1>2, <1>3 DEF TimeoutBlocks
<1>5. NodeTyped'
  BY <1>3, <1>4, WaitingTyped DEF Typed, TimeoutBlocks
<1> QED
  BY <1>1, <1>5 DEF Typed

\* A packet is lost.
LEMMA LoseTyped ==
  ASSUME Typed, NEW n \in Node, NEW m \in Peers[n], Lose(m, n)
  PROVE  /\ Typed'
         /\ \A c \in Node : \A p \in Peers[c] : Untouched(c, p)
<1>1. flight \in [Link -> Seq(Packets)] /\ flight[<<m, n>>] # <<>> /\ flight' = Taken(n, m)
  BY DEF Typed, LinkTyped, Lose, Taken
<1>2. /\ flight' \in [Link -> Seq(Packets)]
      /\ \A l \in Link : \A types : Kept(flight'[l], flight[l], types)
  BY <1>1, TakenLinks
<1>3. Typed'
  BY <1>2 DEF Typed, LinkTyped, ChainTyped, NodeTyped, AskTyped, Lose, chainVars, netVars
<1>4. \A c \in Node : \A p \in Peers[c] : <<c, p>> \in Link /\ <<p, c>> \in Link
  BY Links
<1> QED
  BY <1>2, <1>3, <1>4 DEF Untouched

\* The packet at hand.
LEMMA Received ==
  ASSUME Typed, NEW n \in Node, NEW m \in Peers[n], NEW type, Receives(n, m, type)
  PROVE  /\ flight \in [Link -> Seq(Packets)]
         /\ flight[<<m, n>>] \in Seq(Packets) /\ flight[<<m, n>>] # <<>>
         /\ Packet(m, n) = Head(flight[<<m, n>>]) /\ Packet(m, n) \in Packets
         /\ Packet(m, n).type = type
<1>1. <<m, n>> \in Link
  BY Links
<1>2. flight \in [Link -> Seq(Packets)] /\ flight[<<m, n>>] \in Seq(Packets) /\ flight[<<m, n>>] # <<>>
  BY <1>1 DEF Typed, LinkTyped, Receives
<1> QED
  BY <1>2, TailAt DEF Receives, Packet

\* A request for hashes is answered with at most one answer of hashes.
LEMMA SyncRequestReply ==
  ASSUME Typed, NEW n \in Node, NEW m \in Peers[n], handleSyncRequest(n, m)
  PROVE  \E msgs \in Seq(Packets) : /\ Reply(n, m, msgs)
                                    /\ \A i \in DOMAIN msgs : msgs[i].type = "SyncResp"
<1>1. Packet(m, n).base \in Hash /\ longest[n] \in Hash
  <2>1. Packet(m, n) \in Packets /\ Packet(m, n).type = "SyncReq"
    BY Received DEF handleSyncRequest
  <2> QED
    BY <2>1, PacketKinds DEF Typed, ChainTyped
<1>2. PICK answer : answer = GetSyncHash(n, Packet(m, n).base)
  OBVIOUS
<1>3. \/ \E a \in answer : Reply(n, m, <<a>>)
      \/ Reply(n, m, <<>>)
  BY <1>2 DEF handleSyncRequest
<1>4. ASSUME NEW a \in answer, Reply(n, m, <<a>>)
      PROVE  \E msgs \in Seq(Packets) : /\ Reply(n, m, msgs)
                                        /\ \A i \in DOMAIN msgs : msgs[i].type = "SyncResp"
  <2>1. a \in Packets /\ a.type = "SyncResp"
    BY <1>1, <1>2, HashAnswers
  <2>2. <<a>> \in Seq(Packets) /\ \A i \in DOMAIN <<a>> : <<a>>[i].type = "SyncResp"
    BY <2>1
  <2> QED
    BY <1>4, <2>2
<1>5. ASSUME Reply(n, m, <<>>)
      PROVE  \E msgs \in Seq(Packets) : /\ Reply(n, m, msgs)
                                        /\ \A i \in DOMAIN msgs : msgs[i].type = "SyncResp"
  <2>1. <<>> \in Seq(Packets) /\ \A i \in DOMAIN <<>> : <<>>[i].type = "SyncResp"
    OBVIOUS
  <2> QED
    BY <1>5, <2>1
<1> QED
  BY <1>3, <1>4, <1>5

\* A request for blocks is answered with chunks of the blocks asked for.
LEMMA BlocksRequestReply ==
  ASSUME Typed, NEW n \in Node, NEW m \in Peers[n], handleBlocksRequest(n, m)
  PROVE  \E c \in Seq(Packets) :
           /\ Reply(n, m, c)
           /\ \A i \in DOMAIN c : c[i].type = "BlockResp"
           /\ \A i, j \in DOMAIN c :
                /\ Last(c[j]) - First(c[i]) + 1 <= Depth[Packet(m, n).end] - Depth[Packet(m, n).base]
                /\ i < j => Last(c[i]) < First(c[j])
<1>0. Packet(m, n) \in Packets /\ Packet(m, n).type = "BlockReq"
  BY Received DEF handleBlocksRequest
<1>1. PICK req \in Packets : req = Packet(m, n) /\ req.type = "BlockReq"
  BY <1>0
<1>2. PICK base \in Hash, end \in Hash : base = req.base /\ end = req.end
  BY <1>1, PacketKinds
<1>3. longest[n] \in Hash
  BY DEF Typed, ChainTyped
<1>4. PICK c : c = Chunks(GetSyncBlocks(n, base, end))
  OBVIOUS
<1>5. Reply(n, m, c)
  BY <1>1, <1>2, <1>4 DEF handleBlocksRequest
<1>6. /\ c \in Seq(Packets)
      /\ \A i \in DOMAIN c : c[i].type = "BlockResp"
      /\ \A i, j \in DOMAIN c :
                /\ Last(c[j]) - First(c[i]) + 1 <= Depth[end] - Depth[base]
                /\ i < j => Last(c[i]) < First(c[j])
  BY <1>3, <1>4, BlockAnswers
<1> QED
  BY <1>1, <1>2, <1>5, <1>6

\* A reply keeps the types of the links.
LEMMA ReplyTyped ==
  ASSUME Typed, NEW n \in Node, NEW m \in Peers[n], flight[<<m, n>>] # <<>>,
         NEW msgs \in Seq(Packets), Reply(n, m, msgs), early' = early
  PROVE  LinkTyped'
<1>1. flight \in [Link -> Seq(Packets)]
  BY DEF Typed, LinkTyped
<1>2. flight' \in [Link -> Seq(Packets)]
  BY <1>1, ReplyLinks
<1> QED
  BY <1>2 DEF Typed, LinkTyped

\* Requests are answered.
LEMMA RequestsTyped ==
  ASSUME Typed, NEW n \in Node, NEW m \in Peers[n],
         handleSyncRequest(n, m) \/ handleBlocksRequest(n, m)
  PROVE  Typed'
<1>1. \E msgs \in Seq(Packets) : Reply(n, m, msgs)
  BY SyncRequestReply, BlocksRequestReply
<1>2. PICK msgs \in Seq(Packets) : Reply(n, m, msgs)
  BY <1>1
<1>3. flight[<<m, n>>] # <<>> /\ early' = early
  BY DEF handleSyncRequest, handleBlocksRequest, Receives
<1>4. LinkTyped'
  BY <1>2, <1>3, ReplyTyped
<1>5. ChainTyped' /\ NodeTyped'
  <2>1. UNCHANGED <<chainVars, netVars>>
    BY DEF handleSyncRequest, handleBlocksRequest
  <2> QED
    BY <2>1 DEF Typed, ChainTyped, NodeTyped, AskTyped, chainVars, netVars
<1> QED
  BY <1>4, <1>5 DEF Typed

\* An empty reply takes the packet at hand.
LEMMA Take ==
  ASSUME Typed, NEW n \in Node, NEW m \in Peers[n], flight[<<m, n>>] # <<>>, Reply(n, m, <<>>)
  PROVE  /\ flight' \in [Link -> Seq(Packets)]
         /\ flight'[<<m, n>>] = Tail(flight[<<m, n>>])
         /\ \A l \in Link \ {<<m, n>>} : flight'[l] = flight[l]
         /\ \A c \in Node : \A p \in Peers[c] : Untouched(c, p)
<1>0. <<>> \in Seq(Packets)
  OBVIOUS
<1>1. PICK msgs \in Seq(Packets) : msgs = <<>>
  BY <1>0
<1>2. flight \in [Link -> Seq(Packets)] /\ Reply(n, m, msgs) /\ \A i \in DOMAIN msgs : FALSE
  BY <1>1 DEF Typed, LinkTyped
<1>3. /\ flight' \in [Link -> Seq(Packets)]
      /\ flight'[<<m, n>>] = Tail(flight[<<m, n>>])
      /\ flight'[<<n, m>>] = flight[<<n, m>>] \o msgs
      /\ \A l \in Link \ {<<m, n>>, <<n, m>>} : flight'[l] = flight[l]
  BY <1>2, ReplyLinks
<1>4. flight'[<<n, m>>] = flight[<<n, m>>]
  <2>1. flight[<<n, m>>] \in Seq(Packets)
    BY <1>2, Links
  <2> QED
    BY <1>1, <1>3, <2>1
<1>5. \A c \in Node : \A p \in Peers[c] : Untouched(c, p)
  BY <1>2, ReplyElsewhere
<1> QED
  BY <1>3, <1>4, <1>5

\* An answer of hashes arrives.
LEMMA SyncResponseTyped ==
  ASSUME Typed, NEW n \in Node, NEW m \in Peers[n], handleSyncResponse(n, m)
  PROVE  Typed'
<1>0. Packet(m, n) \in Packets /\ Packet(m, n).type = "SyncResp"
  BY Received DEF handleSyncResponse
<1>1. PICK a \in Packets : a = Packet(m, n) /\ a.type = "SyncResp"
  BY <1>0
<1>2. a \in Answers
  BY <1>1, PacketKinds
<1>3. flight' \in [Link -> Seq(Packets)]
  BY Take DEF handleSyncResponse, Receives
<1>4. LinkTyped' /\ ChainTyped'
  BY <1>3 DEF Typed, LinkTyped, ChainTyped, handleSyncResponse, chainVars
<1>5. DOMAIN syncHashResp = Node /\ syncHashResp' = [syncHashResp EXCEPT ![n] =
       IF watingHash[n]
       THEN [p \in DOMAIN @ \cup {m} |-> IF p = m THEN a ELSE @[p]]
       ELSE @]
  BY <1>1 DEF Typed, NodeTyped, handleSyncResponse
<1>6. ASSUME NEW c \in Node PROVE AskTyped(c)'
  <2>0. AskTyped(c) /\ waitingBlocks' = waitingBlocks
    BY DEF Typed, NodeTyped, handleSyncResponse
  <2>1. CASE syncHashResp'[c] = syncHashResp[c]
    BY <2>0, <2>1 DEF AskTyped
  <2>2. CASE c = n /\ watingHash[n]
    <3>1. syncHashResp'[c] = [p \in DOMAIN syncHashResp[c] \cup {m} |-> IF p = m THEN a ELSE syncHashResp[c][p]]
      BY <1>5, <2>2
    <3> QED
      BY <1>2, <2>0, <2>2, <3>1 DEF AskTyped
  <2> QED
    BY <1>5, <2>1, <2>2
<1>7. NodeTyped'
  <2>1. DOMAIN syncHashResp' = Node
    BY <1>5
  <2> QED
    BY <1>6, <2>1 DEF Typed, NodeTyped, handleSyncResponse
<1> QED
  BY <1>4, <1>7 DEF Typed

\* Blocks arrive: forgotten, counted, or handed to the chain.
LEMMA BlocksResponseTyped ==
  ASSUME Typed, NEW n \in Node, NEW m \in Peers[n], handleBlocksResponse(n, m)
  PROVE  Typed'
<1>1. Packet(m, n) \in Packets /\ Packet(m, n).type = "BlockResp"
  BY Received DEF handleBlocksResponse
<1>2. PICK blocks \in Runs : blocks = Packet(m, n).blocks
  BY <1>1, PacketKinds
<1>3. flight' \in [Link -> Seq(Packets)]
  BY Take DEF handleBlocksResponse, Receives
<1>4. LinkTyped'
  BY <1>3 DEF Typed, LinkTyped, handleBlocksResponse
<1>5. UNCHANGED <<heads, longest, lastHeight, inited, watingHash, syncHashResp, broadcastFilter>>
  BY DEF handleBlocksResponse
<1>6. CASE UNCHANGED <<waitingBlocks, pendingBlocks>>
  BY <1>4, <1>5, <1>6 DEF Typed, ChainTyped, NodeTyped, AskTyped
<1>7. CASE m \in DOMAIN waitingBlocks[n]
  <2>1. PICK W : W = waitingBlocks[n] /\ W \in [DOMAIN W -> Request] /\ DOMAIN W \subseteq Peers[n]
    BY DEF Typed, NodeTyped, AskTyped
  <2>2. W[m] \in Request /\ m \in DOMAIN W
    BY <1>7, <2>1
  <2>3. W[m].remainNums \in Nat /\ W[m].response \in Seq(Hash) /\ blocks \in Seq(Hash) /\ Len(blocks) \in Nat \ {0}
    BY <2>2, RunEnds DEF Request
  <2>4. PICK got \in Seq(Hash) : got = W[m].response \o blocks /\ got # <<>>
    <3>1. W[m].response \o blocks \in Seq(Hash) /\ Len(W[m].response \o blocks) = Len(W[m].response) + Len(blocks)
      BY <2>3, ConcatAt
    <3>2. Len(W[m].response \o blocks) # 0
      BY <2>3, <3>1
    <3>3. W[m].response \o blocks # <<>>
      BY <3>2
    <3> QED
      BY <3>1, <3>3
  <2>5. PICK rest \in Nat : rest = subtract(W[m].remainNums, Len(blocks))
    <3>1. Wrap \in Nat \ {0}
      BY SyncBounds
    <3>2. \A x \in Int : x % Wrap \in Nat
      BY <3>1
    <3>3. W[m].remainNums - Len(blocks) \in Int
      BY <2>3
    <3>4. subtract(W[m].remainNums, Len(blocks)) \in Nat
      BY <3>2, <3>3 DEF subtract
    <3> QED
      BY <3>4
  <2>6. IF rest = 0
        THEN /\ waitingBlocks' = [waitingBlocks EXCEPT ![n] = Remove(@, m)]
             /\ AddBlocks(n, got)
        ELSE /\ waitingBlocks' = [waitingBlocks EXCEPT ![n][m] =
                  [remainNums |-> rest, response |-> got]]
             /\ UNCHANGED pendingBlocks
    BY <1>2, <1>7, <2>1, <2>4, <2>5 DEF handleBlocksResponse
  <2>7. CASE rest = 0
    <3>1. ChainTyped'
      BY <1>5, <2>4, <2>6, <2>7, AddBlocksTyped DEF Typed
    <3>2. PICK V : /\ V = Remove(W, m) /\ DOMAIN V \subseteq Peers[n] /\ V \in [DOMAIN V -> Request]
      BY <2>1, RemoveTyped
    <3>3. waitingBlocks' = [waitingBlocks EXCEPT ![n] = V]
      BY <2>1, <2>6, <2>7, <3>2
    <3>4. NodeTyped'
      BY <1>5, <3>2, <3>3, WaitingTyped DEF Typed
    <3> QED
      BY <1>4, <3>1, <3>4 DEF Typed
  <2>8. CASE rest # 0
    <3>1. ChainTyped'
      BY <1>5, <2>6, <2>8 DEF Typed, ChainTyped
    <3>2. PICK V : V = [W EXCEPT ![m] = [remainNums |-> rest, response |-> got]]
      OBVIOUS
    <3>3. DOMAIN V \subseteq Peers[n] /\ V \in [DOMAIN V -> Request]
      BY <2>1, <2>2, <3>2 DEF Request
    <3>4. waitingBlocks' = [waitingBlocks EXCEPT ![n] = V]
      BY <2>1, <2>6, <2>8, <3>2
    <3>5. NodeTyped'
      BY <1>5, <3>3, <3>4, WaitingTyped DEF Typed
    <3> QED
      BY <1>4, <3>1, <3>5 DEF Typed
  <2> QED
    BY <2>7, <2>8
<1> QED
  BY <1>6, <1>7 DEF handleBlocksResponse

\* A broadcast arrives: dropped, or sent on and handed to the chain.
LEMMA BroadcastTyped ==
  ASSUME Typed, NEW n \in Node, NEW m \in Peers[n], handleBlockBroadcast(n, m)
  PROVE  /\ Typed'
         /\ \A c \in Node : \A p \in Peers[c] : Untouched(c, p)
<1>1. Packet(m, n) \in Packets /\ Packet(m, n).type = "Block" /\ flight[<<m, n>>] # <<>>
        /\ flight \in [Link -> Seq(Packets)]
  BY Received DEF handleBlockBroadcast
<1>2. PICK b \in Hash : b = Packet(m, n).block
  BY <1>1, PacketKinds
<1>3. UNCHANGED <<heads, longest, lastHeight, inited, watingHash, syncHashResp, waitingBlocks, early>>
  BY DEF handleBlockBroadcast
<1>4. CASE /\ broadcast(n, Taken(n, m), Announce(b))
           /\ broadcastFilter' = [broadcastFilter EXCEPT ![n] = @ \cup {b}]
           /\ AddBlocks(n, <<b>>)
  <2>1. PICK q : q = Taken(n, m)
    OBVIOUS
  <2>2. q \in [Link -> Seq(Packets)] /\ \A l \in Link : \A types : Kept(q[l], flight[l], types)
    BY <1>1, <2>1, TakenLinks
  <2>3. broadcast(n, q, Announce(b))
    BY <1>4, <2>1
  <2>4. Announce(b) \in Seq(Packets)
    BY <1>2 DEF Announce, Packets
  <2>5. flight' \in [Link -> Seq(Packets)]
    <3>1. \A l \in Link : q[l] \in Seq(Packets) /\ q[l] \o Announce(b) \in Seq(Packets)
      BY <2>2, <2>4, ConcatAt
    <3> QED
      BY <2>3, <3>1 DEF broadcast
  <2>6. \A c \in Node : \A p \in Peers[c] : Untouched(c, p)
    BY <1>1, <2>2, <2>3, BroadcastElsewhere
  <2>7. ChainTyped'
    <3>1. <<b>> \in Seq(Hash) /\ <<b>> # <<>>
      OBVIOUS
    <3> QED
      BY <1>3, <1>4, <3>1, AddBlocksTyped DEF Typed
  <2>8. NodeTyped' /\ LinkTyped'
    <3>1. broadcastFilter' \in [Node -> SUBSET Hash]
      BY <1>4 DEF Typed, NodeTyped
    <3> QED
      BY <1>3, <2>5, <3>1 DEF Typed, NodeTyped, AskTyped, LinkTyped
  <2> QED
    BY <2>6, <2>7, <2>8 DEF Typed
<1>5. CASE Reply(n, m, <<>>) /\ UNCHANGED <<broadcastFilter, pendingBlocks>>
  <2>1. flight' \in [Link -> Seq(Packets)] /\ \A c \in Node : \A p \in Peers[c] : Untouched(c, p)
    BY <1>1, <1>5, Take
  <2> QED
    BY <1>3, <1>5, <2>1 DEF Typed, ChainTyped, NodeTyped, AskTyped, LinkTyped
<1> QED
  BY <1>2, <1>4, <1>5 DEF handleBlockBroadcast

\* Every step keeps the types.
LEMMA StepTyped ==
  ASSUME Typed, [Next]_vars
  PROVE  Typed'
<1>1. ASSUME NEW n \in Node, ChainLoop(n) \/ Tick(n) \/ Mine(n) PROVE Typed'
  BY <1>1, ChainLoopTyped, RequestHashTyped, RequestBlocksTyped, MineTyped DEF Tick
<1>2. ASSUME NEW n \in Node, NEW m \in Peers[n], Receive(n, m) \/ Lose(m, n) \/ TimeoutBlocks(n, m)
      PROVE  Typed'
  BY <1>2, RequestsTyped, SyncResponseTyped, BlocksResponseTyped, BroadcastTyped, LoseTyped,
     TimeoutTyped DEF Receive
<1>3. CASE UNCHANGED vars
  BY <1>3 DEF vars, chainVars, netVars, Typed, ChainTyped, NodeTyped, AskTyped, LinkTyped
<1> QED
  BY <1>1, <1>2, <1>3 DEF Next

\* The queues, answers, requests and heads of every node have their types in
\* every state: in particular the last of a batch's blocks that follow each
\* other exists (addBlocks), and the queue of the chain keeps its capacity.
THEOREM Types == Spec => []TypeOK
<1>1. Init => Typed
  BY InitTyped
<1>2. Typed /\ [Next]_vars => Typed'
  BY StepTyped
<1>3. Typed => TypeOK
  BY TypedIsTypeOK
<1> QED
  BY <1>1, <1>2, <1>3, PTL DEF Spec

-----------------------------------------------------------------------------
(* The count of the blocks *)

\* While blocks are awaited, answers of hashes are neither kept nor welcome,
\* and none is on the way unless a tick came early.
Asked(n) ==
  \A q \in DOMAIN waitingBlocks[n] :
    /\ DOMAIN syncHashResp[n] = {} /\ ~watingHash[n]
    /\ early[1] = 0 => Answered(n)

\* What is on the way between n and p fits what n waits for. When n waits for
\* nothing, it is nothing, or a request was given up early, and then it
\* arrives before the next answer of hashes.
Counted(n, p) ==
  LET a == flight[<<n, p>>]
      b == flight[<<p, n>>]
  IN  /\ p \in DOMAIN waitingBlocks[n] =>
           /\ Measured(a, b, waitingBlocks[n][p].remainNums)
           /\ waitingBlocks[n][p].remainNums < Wrap \div 2
      /\ p \notin DOMAIN waitingBlocks[n] =>
           \/ Quiet(a, b)
           \/ early[2] > 0 /\ Ordered(a, b) /\ p \notin DOMAIN syncHashResp[n]

Exchange ==
  Typed /\ \A n \in Node : Asked(n) /\ \A p \in Peers[n] : Counted(n, p)

\* Ticks and timeouts are not both early, and no counter starts in the upper
\* half of its range.
NotBothEarly == \A x \in Early : x[1] = 0 \/ x[2] = 0
CountsFit == \A h \in Hash : Depth[h] < Wrap \div 2

\* A number below the modulus is its own remainder.
LEMMA SmallRemainder ==
  ASSUME NEW w \in Nat \ {0}, NEW x \in Nat, x < w
  PROVE  x % w = x
<1>1. PICK q \in Nat, r \in Nat : q = x \div w /\ r = x % w /\ x = (q * w) + r
  BY DivBounds
<1>2. CASE q = 0
  BY <1>1, <1>2
<1>3. CASE q # 0
  <2>1. 1 * w <= q * w /\ 1 * w = w /\ q * w \in Nat
    BY <1>3, TimesMonotone
  <2> QED
    BY <1>1, <2>1
<1> QED
  BY <1>2, <1>3

\* The counters of early ticks and timeouts.
LEMMA EarlyType ==
  ASSUME Typed
  PROVE  early[1] \in Nat /\ early[2] \in Nat /\ (NotBothEarly => early[1] = 0 \/ early[2] = 0)
<1>1. early \in Nat \X Nat
  BY SyncBounds DEF Typed, LinkTyped
<1>2. CASE early = <<0, 0>>
  BY <1>2
<1>3. CASE early \in Early
  BY <1>1, <1>3 DEF NotBothEarly
<1> QED
  BY <1>2, <1>3 DEF Typed, LinkTyped

\* Types of packets behind each other.
LEMMA HasConcat ==
  ASSUME NEW c \in Seq(Packets), NEW m \in Seq(Packets), NEW t, Has(c \o m, t)
  PROVE  Has(c, t) \/ Has(m, t)
<1>1. PICK i \in DOMAIN (c \o m) : (c \o m)[i].type = t
  BY DEF Has
<1>2. \/ i \in DOMAIN c /\ (c \o m)[i] = c[i]
      \/ i - Len(c) \in DOMAIN m /\ (c \o m)[i] = m[i - Len(c)]
  BY ConcatAt
<1> QED
  BY <1>1, <1>2 DEF Has

\* The links of an exchange are typed before and after a step.
LEMMA LinksTyped ==
  ASSUME Typed, Typed', NEW n \in Node, NEW p \in Peers[n]
  PROVE  /\ flight[<<n, p>>] \in Seq(Packets) /\ flight[<<p, n>>] \in Seq(Packets)
         /\ flight'[<<n, p>>] \in Seq(Packets) /\ flight'[<<p, n>>] \in Seq(Packets)
<1>1. <<n, p>> \in Link /\ <<p, n>> \in Link
  BY Links
<1>2. flight \in [Link -> Seq(Packets)] /\ flight' \in [Link -> Seq(Packets)]
  BY DEF Typed, LinkTyped
<1> QED
  BY <1>1, <1>2

\* All is answered when it was and the exchanges of the node are untouched.
LEMMA AnsweredStays ==
  ASSUME Typed, Typed', NEW n \in Node, \A p \in Peers[n] : Untouched(n, p), Answered(n)
  PROVE  Answered(n)'
<1> SUFFICES ASSUME NEW p \in Peers[n]
             PROVE  ~Has(flight'[<<n, p>>], "SyncReq") /\ ~Has(flight'[<<p, n>>], "SyncResp")
  BY DEF Answered, Underway, Has
<1>1. ~Has(flight[<<n, p>>], "SyncReq") /\ ~Has(flight[<<p, n>>], "SyncResp")
  BY DEF Answered, Underway, Has
<1>2. /\ Kept(flight'[<<n, p>>], flight[<<n, p>>], Requests)
      /\ Kept(flight'[<<p, n>>], flight[<<p, n>>], Responses)
  BY DEF Untouched
<1> QED
  BY <1>1, <1>2, LinksTyped, KeptMonotone

\* What a node has asked stays true when no new answer is on the way or kept.
LEMMA AskedStays ==
  ASSUME Typed, Typed', NEW n \in Node, Asked(n), Answered(n) => Answered(n)',
         DOMAIN waitingBlocks'[n] \subseteq DOMAIN waitingBlocks[n],
         watingHash'[n] = watingHash[n],
         ~watingHash[n] => syncHashResp'[n] = syncHashResp[n],
         early'[1] = 0 => early[1] = 0
  PROVE  Asked(n)'
  BY DEF Asked

\* The count between two nodes stays true when their exchange is untouched.
LEMMA CountedStays ==
  ASSUME Typed, Typed', NEW n \in Node, NEW p \in Peers[n], Counted(n, p), Untouched(n, p),
         p \in DOMAIN waitingBlocks'[n] <=> p \in DOMAIN waitingBlocks[n],
         p \in DOMAIN waitingBlocks[n] => waitingBlocks'[n][p] = waitingBlocks[n][p],
         p \in DOMAIN syncHashResp'[n] => p \in DOMAIN syncHashResp[n],
         early[2] > 0 => early'[2] > 0
  PROVE  Counted(n, p)'
<1>1. PICK a \in Seq(Packets), b \in Seq(Packets) : a = flight[<<n, p>>] /\ b = flight[<<p, n>>]
  BY LinksTyped
<1>2. PICK c \in Seq(Packets), e \in Seq(Packets) : c = flight'[<<n, p>>] /\ e = flight'[<<p, n>>]
  BY LinksTyped
<1>3. Kept(c, a, Requests) /\ Kept(e, b, Responses)
  BY <1>1, <1>2 DEF Untouched
<1>4. /\ Quiet(a, b) => Quiet(c, e)
      /\ Ordered(a, b) => Ordered(c, e)
      /\ \A rem \in Nat : Measured(a, b, rem) => Measured(c, e, rem)
  BY <1>3, KeptMonotone
<1>5. CASE p \in DOMAIN waitingBlocks[n]
  <2>1. waitingBlocks[n][p].remainNums \in Nat
    BY <1>5 DEF Typed, NodeTyped, AskTyped, Request
  <2>2. Measured(a, b, waitingBlocks[n][p].remainNums) /\ waitingBlocks[n][p].remainNums < Wrap \div 2
    BY <1>1, <1>5 DEF Counted
  <2>3. Measured(c, e, waitingBlocks'[n][p].remainNums) /\ waitingBlocks'[n][p].remainNums < Wrap \div 2
    BY <1>4, <1>5, <2>1, <2>2
  <2> QED
    BY <1>2, <1>5, <2>3 DEF Counted
<1>6. CASE p \notin DOMAIN waitingBlocks[n]
  <2>1. \/ Quiet(a, b)
        \/ early[2] > 0 /\ Ordered(a, b) /\ p \notin DOMAIN syncHashResp[n]
    BY <1>1, <1>6 DEF Counted
  <2>2. \/ Quiet(c, e)
        \/ early'[2] > 0 /\ Ordered(c, e) /\ p \notin DOMAIN syncHashResp'[n]
    BY <1>4, <2>1
  <2> QED
    BY <1>2, <1>6, <2>2 DEF Counted
<1> QED
  BY <1>5, <1>6

\* A step that touches no exchange.
LEMMA ExchangeStays ==
  ASSUME Exchange, Typed', \A c \in Node : \A p \in Peers[c] : Untouched(c, p),
         UNCHANGED <<waitingBlocks, syncHashResp, watingHash, early>>
  PROVE  Exchange'
<1>1. ASSUME NEW c \in Node PROVE Asked(c)'
  <2>1. Answered(c) => Answered(c)'
    BY AnsweredStays DEF Exchange
  <2> QED
    BY <2>1, AskedStays DEF Exchange
<1>2. ASSUME NEW c \in Node, NEW p \in Peers[c] PROVE Counted(c, p)'
  BY CountedStays DEF Exchange
<1> QED
  BY <1>1, <1>2 DEF Exchange

\* A step that leaves the links alone.
LEMMA FlightStays ==
  ASSUME Typed, flight' = flight
  PROVE  \A c \in Node : \A p \in Peers[c] : Untouched(c, p)
<1>1. \A c \in Node : \A p \in Peers[c] :
        flight[<<c, p>>] \in Seq(Packets) /\ flight[<<p, c>>] \in Seq(Packets)
  BY Links DEF Typed, LinkTyped
<1> QED
  BY <1>1, KeptSame DEF Untouched

\* At the start there is nothing to count.
LEMMA InitExchange == Init => Exchange
<1> SUFFICES ASSUME Init PROVE Exchange
  OBVIOUS
<1>1. Typed
  BY InitTyped
<1>2. ASSUME NEW n \in Node, NEW p \in Peers[n] PROVE Counted(n, p)
  <2>1. <<n, p>> \in Link /\ <<p, n>> \in Link
    BY Links
  <2>2. flight[<<n, p>>] = <<>> /\ flight[<<p, n>>] = <<>> /\ waitingBlocks[n] = <<>>
    BY <2>1 DEF Init, Empty
  <2>3. Quiet(<<>>, <<>>) /\ p \notin DOMAIN <<>>
    BY DEF Quiet, Has
  <2> QED
    BY <2>2, <2>3 DEF Counted
<1>3. ASSUME NEW n \in Node PROVE Asked(n)
  BY DEF Init, Asked, Empty
<1> QED
  BY <1>1, <1>2, <1>3 DEF Exchange

\* Asking for hashes leaves every count as it is.
LEMMA RequestHashCounted ==
  ASSUME Exchange, NEW n \in Node, RequestHash(n)
  PROVE  Exchange'
<1>0. Typed /\ Typed' /\ flight \in [Link -> Seq(Packets)]
  BY RequestHashTyped DEF Exchange, Typed, LinkTyped
<1>1. PICK order \in [1 .. Cardinality(heads[n]) -> heads[n]] :
       /\ InTime(Answered(n), OneMoreTick)
       /\ broadcast(n, flight, [i \in DOMAIN order |-> SyncReq(order[i])])
  BY DEF RequestHash
<1>2. PICK msgs \in Seq(Packets) : /\ msgs = [i \in DOMAIN order |-> SyncReq(order[i])]
                                   /\ \A i \in DOMAIN msgs : msgs[i].type = "SyncReq"
  BY <1>0, HashRequests DEF Typed
<1>3. \A l \in Link : flight'[l] = flight[l] \/ (l[1] = n /\ flight'[l] = flight[l] \o msgs)
  BY <1>1, <1>2 DEF broadcast, Out
<1>4. /\ waitingBlocks' = waitingBlocks /\ syncHashResp' = syncHashResp
      /\ waitingBlocks[n] = <<>> /\ watingHash' = [watingHash EXCEPT ![n] = TRUE]
  BY DEF RequestHash, Empty
<1>5. early'[2] = early[2] /\ (early'[1] = 0 => early[1] = 0)
  <2>1. early' = early \/ early' = <<early[1] + 1, early[2]>>
    BY <1>1 DEF InTime, OneMoreTick
  <2> QED
    BY <1>0, <2>1, EarlyType
<1>6. ASSUME NEW c \in Node, NEW p \in Peers[c], c # n PROVE Untouched(c, p)
  <2>1. <<c, p>> \in Link /\ <<p, c>> \in Link
    BY Links
  <2>2. flight'[<<c, p>>] = flight[<<c, p>>]
    BY <1>3, <1>6, <2>1
  <2>3. flight'[<<p, c>>] = flight[<<p, c>>] \/ flight'[<<p, c>>] = flight[<<p, c>>] \o msgs
    BY <1>3, <2>1
  <2>4. \A i \in DOMAIN msgs : msgs[i].type \notin Responses
    BY <1>2 DEF Responses
  <2>5. /\ flight[<<p, c>>] \in Seq(Packets) /\ flight[<<c, p>>] \in Seq(Packets)
    BY <1>0, <2>1
  <2>6. /\ Kept(flight[<<p, c>>], flight[<<p, c>>], Responses)
        /\ Kept(flight[<<c, p>>], flight[<<c, p>>], Requests)
    BY <2>5, KeptSame
  <2>7. Kept(flight[<<p, c>>] \o msgs, flight[<<p, c>>], Responses)
    BY <2>4, <2>5, <2>6, KeptConcat
  <2> QED
    BY <2>2, <2>3, <2>6, <2>7 DEF Untouched
<1>7. ASSUME NEW c \in Node PROVE Asked(c)'
  <2>1. CASE c = n
    BY <1>4, <2>1 DEF Asked
  <2>2. CASE c # n
    <3>1. Answered(c) => Answered(c)'
      BY <1>0, <1>6, <2>2, AnsweredStays
    <3>2. watingHash'[c] = watingHash[c]
      BY <1>0, <1>4, <2>2 DEF Typed, NodeTyped
    <3> QED
      BY <1>0, <1>4, <1>5, <3>1, <3>2, AskedStays DEF Exchange
  <2> QED
    BY <2>1, <2>2
<1>8. ASSUME NEW c \in Node, NEW p \in Peers[c] PROVE Counted(c, p)'
  <2>1. CASE c # n
    BY <1>0, <1>4, <1>5, <1>6, <2>1, CountedStays DEF Exchange
  <2>2. CASE c = n
    <3>1. <<n, p>> \in Link /\ <<p, n>> \in Link /\ p # n
      BY <2>2, Links
    <3>2. PICK a \in Seq(Packets), b \in Seq(Packets) : a = flight[<<n, p>>] /\ b = flight[<<p, n>>]
      BY <1>0, <3>1
    <3>3. flight'[<<p, n>>] = b /\ (flight'[<<n, p>>] = a \/ flight'[<<n, p>>] = a \o msgs)
      BY <1>3, <3>1, <3>2
    <3>4. \/ Quiet(a, b)
          \/ early[2] > 0 /\ Ordered(a, b) /\ p \notin DOMAIN syncHashResp[n]
      BY <1>4, <2>2, <3>2 DEF Exchange, Counted
    <3>5. /\ Quiet(a, b) => Quiet(a \o msgs, b)
          /\ Ordered(a, b) => Ordered(a \o msgs, b)
      BY <1>2, AskHashes
    <3>6. \/ Quiet(flight'[<<n, p>>], flight'[<<p, n>>])
          \/ early'[2] > 0 /\ Ordered(flight'[<<n, p>>], flight'[<<p, n>>]) /\ p \notin DOMAIN syncHashResp'[n]
      BY <1>4, <1>5, <3>3, <3>4, <3>5
    <3> QED
      BY <1>4, <2>2, <3>6 DEF Counted
  <2> QED
    BY <2>1, <2>2
<1> QED
  BY <1>0, <1>7, <1>8 DEF Exchange

\* Asking for blocks starts the counts of the peers that are asked.
LEMMA RequestBlocksCounted ==
  ASSUME CountsFit, Exchange, NEW n \in Node, RequestBlocks(n)
  PROVE  Exchange'
<1>0. Typed /\ Typed' /\ flight \in [Link -> Seq(Packets)]
  BY RequestBlocksTyped DEF Exchange, Typed, LinkTyped
<1>1. PICK ask \in SUBSET DOMAIN syncHashResp[n] :
           /\ \A p \in ask : <<n, p>> \in Link /\ BlockReq(syncHashResp[n][p]) \in Packets
                /\ syncHashResp[n][p] \in Answers
                /\ flight'[<<n, p>>] = flight[<<n, p>>] \o <<BlockReq(syncHashResp[n][p])>>
           /\ \A l \in Link : (\A p \in ask : l # <<n, p>>) => flight'[l] = flight[l]
           /\ waitingBlocks' = [waitingBlocks EXCEPT ![n] =
                [p \in ask |-> [remainNums |-> syncHashResp[n][p].diff, response |-> <<>>]]]
  BY <1>0, BlockRequests
<1>2. /\ DOMAIN waitingBlocks = Node /\ DOMAIN syncHashResp = Node /\ watingHash \in [Node -> BOOLEAN]
      /\ waitingBlocks[n] = <<>>
      /\ syncHashResp' = [syncHashResp EXCEPT ![n] = <<>>]
      /\ watingHash' = [watingHash EXCEPT ![n] = FALSE]
      /\ InTime(Answered(n), OneMoreTick)
  BY <1>0 DEF Typed, NodeTyped, RequestBlocks, Empty
<1>3. early'[2] = early[2] /\ (early'[1] = 0 => early[1] = 0 /\ Answered(n))
  <2>1. (early' = early /\ Answered(n)) \/ early' = <<early[1] + 1, early[2]>>
    BY <1>2 DEF InTime, OneMoreTick
  <2> QED
    BY <1>0, <2>1, EarlyType
<1>4. \A p \in ask : /\ BlockReq(syncHashResp[n][p]).type = "BlockReq"
                     /\ <<BlockReq(syncHashResp[n][p])>> \in Seq(Packets)
                     /\ \A t : Has(<<BlockReq(syncHashResp[n][p])>>, t) => t = "BlockReq"
  <2> TAKE p \in ask
  <2>1. PICK r \in Packets : r = BlockReq(syncHashResp[n][p])
    BY <1>1
  <2>2. r.type = "BlockReq"
    BY <2>1 DEF BlockReq
  <2>3. <<r>> \in Seq(Packets) /\ \A i \in DOMAIN <<r>> : <<r>>[i] = r
    OBVIOUS
  <2> QED
    BY <2>1, <2>2, <2>3 DEF Has
<1>5. ASSUME NEW c \in Node, NEW p \in Peers[c], c # n PROVE Untouched(c, p)
  <2>1. <<c, p>> \in Link /\ <<p, c>> \in Link
    BY Links
  <2>2. flight[<<p, c>>] \in Seq(Packets) /\ flight[<<c, p>>] \in Seq(Packets)
    BY <1>0, <2>1
  <2>3. /\ Kept(flight[<<p, c>>], flight[<<p, c>>], Responses)
        /\ Kept(flight[<<c, p>>], flight[<<c, p>>], Requests)
    BY <2>2, KeptSame
  <2>4. flight'[<<c, p>>] = flight[<<c, p>>]
    BY <1>1, <1>5, <2>1
  <2>5. Kept(flight'[<<p, c>>], flight[<<p, c>>], Responses)
    <3>1. CASE \A x \in ask : <<p, c>> # <<n, x>>
      BY <1>1, <2>1, <2>3, <3>1
    <3>2. ASSUME NEW x \in ask, <<p, c>> = <<n, x>>
          PROVE  Kept(flight'[<<p, c>>], flight[<<p, c>>], Responses)
      <4>1. PICK m \in Seq(Packets) : /\ m = <<BlockReq(syncHashResp[n][x])>>
                                      /\ \A t : Has(m, t) => t = "BlockReq"
        BY <1>4
      <4>2. flight'[<<p, c>>] = flight[<<p, c>>] \o m
        BY <1>1, <3>2, <4>1
      <4>3. \A i \in DOMAIN m : m[i].type \notin Responses
        BY <4>1 DEF Has, Responses
      <4> QED
        BY <2>2, <2>3, <4>2, <4>3, KeptConcat
    <3> QED
      BY <3>1, <3>2
  <2> QED
    BY <2>3, <2>4, <2>5 DEF Untouched
<1>6. ASSUME Answered(n) PROVE Answered(n)'
  <2> SUFFICES ASSUME NEW p \in Peers[n]
               PROVE  ~Has(flight'[<<n, p>>], "SyncReq") /\ ~Has(flight'[<<p, n>>], "SyncResp")
    BY DEF Answered, Underway, Has
  <2>1. ~Has(flight[<<n, p>>], "SyncReq") /\ ~Has(flight[<<p, n>>], "SyncResp")
    BY <1>6 DEF Answered, Underway, Has
  <2>2. <<n, p>> \in Link /\ <<p, n>> \in Link /\ p # n
    BY Links
  <2>3. flight'[<<p, n>>] = flight[<<p, n>>]
    BY <1>1, <2>2
  <2>4. CASE p \notin ask
    <3>1. flight'[<<n, p>>] = flight[<<n, p>>]
      BY <1>1, <2>2, <2>4
    <3> QED
      BY <2>1, <2>3, <3>1
  <2>5. CASE p \in ask
    <3>1. PICK m \in Seq(Packets) : /\ m = <<BlockReq(syncHashResp[n][p])>>
                                    /\ \A t : Has(m, t) => t = "BlockReq"
      BY <1>4, <2>5
    <3>2. flight'[<<n, p>>] = flight[<<n, p>>] \o m
      BY <1>1, <2>5, <3>1
    <3>3. flight[<<n, p>>] \in Seq(Packets)
      BY <1>0, <2>2
    <3>4. ~Has(flight[<<n, p>>] \o m, "SyncReq")
      BY <2>1, <3>1, <3>3, HasConcat
    <3> QED
      BY <2>1, <2>3, <3>2, <3>4
  <2> QED
    BY <2>4, <2>5
<1>7. ASSUME NEW c \in Node PROVE Asked(c)'
  <2>1. CASE c = n
    <3>1. DOMAIN syncHashResp'[c] = {} /\ ~watingHash'[c]
      BY <1>2, <2>1
    <3> QED
      BY <1>3, <1>6, <2>1, <3>1 DEF Asked
  <2>2. CASE c # n
    <3>1. Answered(c) => Answered(c)'
      BY <1>0, <1>5, <2>2, AnsweredStays
    <3>2. watingHash'[c] = watingHash[c] /\ syncHashResp'[c] = syncHashResp[c] /\ waitingBlocks'[c] = waitingBlocks[c]
      BY <1>1, <1>2, <2>2
    <3> QED
      BY <1>0, <1>3, <3>1, <3>2, AskedStays DEF Exchange
  <2> QED
    BY <2>1, <2>2
<1>8. ASSUME NEW c \in Node, NEW p \in Peers[c] PROVE Counted(c, p)'
  <2>1. CASE c # n
    <3>1. syncHashResp'[c] = syncHashResp[c] /\ waitingBlocks'[c] = waitingBlocks[c]
      BY <1>1, <1>2, <2>1
    <3> QED
      BY <1>0, <1>3, <1>5, <2>1, <3>1, CountedStays DEF Exchange
  <2>2. CASE c = n
    <3>1. <<n, p>> \in Link /\ <<p, n>> \in Link /\ p # n
      BY <2>2, Links
    <3>2. PICK a \in Seq(Packets), b \in Seq(Packets) : a = flight[<<n, p>>] /\ b = flight[<<p, n>>]
      BY <1>0, <3>1
    <3>3. \/ Quiet(a, b)
          \/ early[2] > 0 /\ Ordered(a, b) /\ p \notin DOMAIN syncHashResp[n]
      BY <1>2, <2>2, <3>2 DEF Exchange, Counted
    <3>4. flight'[<<p, n>>] = b
      BY <1>1, <3>1, <3>2
    <3>5. waitingBlocks'[n] = [x \in ask |-> [remainNums |-> syncHashResp[n][x].diff, response |-> <<>>]]
            /\ syncHashResp'[n] = <<>>
      BY <1>1, <1>2
    <3>6. CASE p \in ask
      <4>1. Quiet(a, b)
        BY <3>3, <3>6
      <4>2. PICK r \in Answers : r = syncHashResp[n][p]
        BY <1>1, <3>6
      <4>3. PICK m \in Packets : m = BlockReq(r) /\ m.type = "BlockReq"
        BY <1>1, <1>4, <3>6, <4>2
      <4>4. /\ r.base \in Hash /\ r.end \in Hash /\ r.diff \in Nat
            /\ r.diff = Depth[r.end] - Depth[r.base]
        BY DEF Answers, Answer
      <4>5. m.end = r.end /\ m.base = r.base
        BY <4>3 DEF BlockReq
      <4>6. PICK rem \in Nat : rem = r.diff /\ rem = Depth[m.end] - Depth[m.base]
        BY <4>4, <4>5
      <4>7. Measured(a \o <<m>>, b, rem)
        BY <4>1, <4>3, <4>6, AskBlocks
      <4>8. rem < Wrap \div 2
        <5>1. Depth[r.end] \in Nat /\ Depth[r.base] \in Nat /\ Depth[r.end] < Wrap \div 2
          BY <4>4, SyncTree DEF CountsFit
        <5>2. Wrap \in Nat /\ Wrap \div 2 \in Nat
          BY SyncBounds
        <5> QED
          BY <4>4, <4>6, <5>1, <5>2
      <4>9. flight'[<<n, p>>] = a \o <<m>> /\ waitingBlocks'[n][p].remainNums = rem /\ p \in DOMAIN waitingBlocks'[n]
        <5>1. flight'[<<n, p>>] = flight[<<n, p>>] \o <<BlockReq(syncHashResp[n][p])>>
          BY <1>1, <3>6
        <5>2. flight'[<<n, p>>] = a \o <<m>>
          BY <3>2, <4>2, <4>3, <5>1
        <5>3. waitingBlocks'[n][p] = [remainNums |-> rem, response |-> <<>>] /\ p \in DOMAIN waitingBlocks'[n]
          BY <3>5, <3>6, <4>2, <4>6
        <5> QED
          BY <5>2, <5>3
      <4> QED
        BY <2>2, <3>4, <4>7, <4>8, <4>9 DEF Counted
    <3>7. CASE p \notin ask
      <4>1. flight'[<<n, p>>] = a
        BY <1>1, <3>1, <3>2, <3>7
      <4>2. p \notin DOMAIN waitingBlocks'[n] /\ p \notin DOMAIN syncHashResp'[n]
        BY <3>5, <3>7
      <4>3. Quiet(a, b) \/ (early'[2] > 0 /\ Ordered(a, b))
        BY <1>3, <3>3
      <4> QED
        BY <2>2, <3>4, <4>1, <4>2, <4>3 DEF Counted
    <3> QED
      BY <3>6, <3>7
  <2> QED
    BY <2>1, <2>2
<1> QED
  BY <1>0, <1>7, <1>8 DEF Exchange

\* A request for hashes is answered: all that was given up has left before.
LEMMA SyncRequestCounted ==
  ASSUME Exchange, NEW n \in Node, NEW m \in Peers[n], handleSyncRequest(n, m)
  PROVE  Exchange'
<1>0. /\ Typed /\ Typed' /\ flight \in [Link -> Seq(Packets)] /\ flight[<<m, n>>] # <<>>
      /\ Head(flight[<<m, n>>]).type = "SyncReq" /\ flight[<<m, n>>] \in Seq(Packets)
  BY RequestsTyped, Received DEF Exchange, handleSyncRequest
<1>1. UNCHANGED <<waitingBlocks, syncHashResp, watingHash, early>>
  BY DEF handleSyncRequest, netVars
<1>2. PICK msgs \in Seq(Packets) : /\ Reply(n, m, msgs)
                                   /\ \A i \in DOMAIN msgs : msgs[i].type = "SyncResp"
  BY <1>0, SyncRequestReply
<1>3. m \in Node /\ n \in Peers[m] /\ n # m /\ <<n, m>> \in Link
  BY Links
<1>4. ASSUME NEW c \in Node, NEW p \in Peers[c], <<c, p>> # <<m, n>> PROVE Untouched(c, p)
  <2>1. \A i \in DOMAIN msgs : msgs[i].type \notin Requests
    BY <1>2 DEF Requests
  <2> QED
    BY <1>0, <1>2, <1>4, <2>1, ReplyElsewhere
<1>5. ASSUME NEW c \in Node PROVE Asked(c)'
  <2>1. CASE c # m
    <3>1. \A p \in Peers[c] : Untouched(c, p)
      BY <1>4, <2>1
    <3>2. Answered(c) => Answered(c)'
      BY <1>0, <3>1, AnsweredStays
    <3> QED
      BY <1>0, <1>1, <3>2, AskedStays DEF Exchange
  <2>2. CASE c = m
    <3>1. ~Answered(m)
      <4>1. Underway(<<m, n>>, "SyncReq")
        BY <1>0, TailAt DEF Underway
      <4> QED
        BY <1>3, <4>1 DEF Answered
    <3>2. Answered(c) => Answered(c)'
      BY <2>2, <3>1
    <3> QED
      BY <1>0, <1>1, <3>2, AskedStays DEF Exchange
  <2> QED
    BY <2>1, <2>2
<1>6. ASSUME NEW c \in Node, NEW p \in Peers[c] PROVE Counted(c, p)'
  <2>1. CASE <<c, p>> # <<m, n>>
    BY <1>0, <1>1, <1>4, <2>1, CountedStays DEF Exchange
  <2>2. CASE c = m /\ p = n
    <3>1. PICK a \in Seq(Packets), b \in Seq(Packets) : a = flight[<<m, n>>] /\ b = flight[<<n, m>>]
      BY <1>0, <1>3
    <3>2. flight'[<<m, n>>] = Tail(a) /\ flight'[<<n, m>>] = b \o msgs
      BY <1>0, <1>2, <3>1, ReplyLinks
    <3>3. /\ Quiet(a, b) => Quiet(Tail(a), b \o msgs)
          /\ Ordered(a, b) => Ordered(Tail(a), b \o msgs)
          /\ \A rem \in Nat : Measured(a, b, rem) => Measured(Tail(a), b \o msgs, rem)
      BY <1>0, <1>2, <3>1, AnswerHashes
    <3>4. CASE n \in DOMAIN waitingBlocks[m]
      <4>1. waitingBlocks[m][n].remainNums \in Nat
        BY <1>0, <1>3, <3>4 DEF Typed, NodeTyped, AskTyped, Request
      <4>2. Measured(a, b, waitingBlocks[m][n].remainNums) /\ waitingBlocks[m][n].remainNums < Wrap \div 2
        BY <1>3, <3>1, <3>4 DEF Exchange, Counted
      <4>3. Measured(Tail(a), b \o msgs, waitingBlocks[m][n].remainNums)
        BY <3>3, <4>1, <4>2
      <4> QED
        BY <1>1, <2>2, <3>2, <3>4, <4>2, <4>3 DEF Counted
    <3>5. CASE n \notin DOMAIN waitingBlocks[m]
      <4>1. \/ Quiet(a, b)
            \/ early[2] > 0 /\ Ordered(a, b) /\ n \notin DOMAIN syncHashResp[m]
        BY <1>3, <3>1, <3>5 DEF Exchange, Counted
      <4>2. \/ Quiet(Tail(a), b \o msgs)
            \/ early[2] > 0 /\ Ordered(Tail(a), b \o msgs) /\ n \notin DOMAIN syncHashResp[m]
        BY <3>3, <4>1
      <4> QED
        BY <1>1, <2>2, <3>2, <3>5, <4>2 DEF Counted
    <3> QED
      BY <3>4, <3>5
  <2> QED
    BY <2>1, <2>2
<1> QED
  BY <1>0, <1>5, <1>6 DEF Exchange

\* A request for blocks becomes the blocks: what is on the way stays as much.
LEMMA BlocksRequestCounted ==
  ASSUME Exchange, NEW n \in Node, NEW m \in Peers[n], handleBlocksRequest(n, m)
  PROVE  Exchange'
<1>0. /\ Typed /\ Typed' /\ flight \in [Link -> Seq(Packets)] /\ flight[<<m, n>>] # <<>>
      /\ Packet(m, n) = Head(flight[<<m, n>>])
      /\ Head(flight[<<m, n>>]).type = "BlockReq" /\ flight[<<m, n>>] \in Seq(Packets)
  BY RequestsTyped, Received DEF Exchange, handleBlocksRequest
<1>1. UNCHANGED <<waitingBlocks, syncHashResp, watingHash, early>>
  BY DEF handleBlocksRequest, netVars
<1>2. PICK k \in Seq(Packets) :
           /\ Reply(n, m, k)
           /\ \A i \in DOMAIN k : k[i].type = "BlockResp"
           /\ \A i, j \in DOMAIN k :
                /\ Last(k[j]) - First(k[i]) + 1 <= Depth[Packet(m, n).end] - Depth[Packet(m, n).base]
                /\ i < j => Last(k[i]) < First(k[j])
  BY <1>0, BlocksRequestReply
<1>3. m \in Node /\ n \in Peers[m] /\ n # m /\ <<n, m>> \in Link
  BY Links
<1>4. ASSUME NEW c \in Node, NEW p \in Peers[c], <<c, p>> # <<m, n>> PROVE Untouched(c, p)
  <2>1. \A i \in DOMAIN k : k[i].type \notin Requests
    BY <1>2 DEF Requests
  <2> QED
    BY <1>0, <1>2, <1>4, <2>1, ReplyElsewhere
<1>a. PICK a \in Seq(Packets), b \in Seq(Packets) : a = flight[<<m, n>>] /\ b = flight[<<n, m>>]
  BY <1>0, <1>3
<1>b. flight'[<<m, n>>] = Tail(a) /\ flight'[<<n, m>>] = b \o k
  BY <1>0, <1>2, <1>a, ReplyLinks
<1>5. ASSUME NEW c \in Node PROVE Asked(c)'
  <2>1. Answered(c) => Answered(c)'
    <3> SUFFICES ASSUME Answered(c), NEW p \in Peers[c]
                 PROVE  ~Has(flight'[<<c, p>>], "SyncReq") /\ ~Has(flight'[<<p, c>>], "SyncResp")
      BY DEF Answered, Underway, Has
    <3>1. ~Has(flight[<<c, p>>], "SyncReq") /\ ~Has(flight[<<p, c>>], "SyncResp")
      BY DEF Answered, Underway, Has
    <3>2. CASE <<c, p>> # <<m, n>>
      <4>1. /\ Kept(flight'[<<c, p>>], flight[<<c, p>>], Requests)
            /\ Kept(flight'[<<p, c>>], flight[<<p, c>>], Responses)
        BY <1>4, <3>2 DEF Untouched
      <4> QED
        BY <1>0, <3>1, <4>1, LinksTyped, KeptMonotone
    <3>3. CASE c = m /\ p = n
      <4>1. ~Has(Tail(a), "SyncReq")
        <5>1. \A i \in DOMAIN Tail(a) : i + 1 \in DOMAIN a /\ Tail(a)[i] = a[i + 1]
          BY <1>0, <1>a, TailAt
        <5> QED
          BY <1>a, <3>1, <3>3, <5>1 DEF Has
      <4>2. ~Has(b \o k, "SyncResp")
        <5>1. ~Has(k, "SyncResp")
          BY <1>2 DEF Has
        <5> QED
          BY <1>a, <3>1, <3>3, <5>1, HasConcat
      <4> QED
        BY <1>b, <3>3, <4>1, <4>2
    <3> QED
      BY <3>2, <3>3
  <2> QED
    BY <1>0, <1>1, <2>1, AskedStays DEF Exchange
<1>6. ASSUME NEW c \in Node, NEW p \in Peers[c] PROVE Counted(c, p)'
  <2>1. CASE <<c, p>> # <<m, n>>
    BY <1>0, <1>1, <1>4, <2>1, CountedStays DEF Exchange
  <2>2. CASE c = m /\ p = n
    <3>3. /\ ~Quiet(a, b)
          /\ Ordered(a, b) => Ordered(Tail(a), b \o k)
          /\ \A rem \in Nat : Measured(a, b, rem) => Measured(Tail(a), b \o k, rem)
      <4>1. /\ a # <<>> /\ Head(a).type = "BlockReq"
            /\ \A i, j \in DOMAIN k :
                /\ Last(k[j]) - First(k[i]) + 1 <= Depth[Head(a).end] - Depth[Head(a).base]
                /\ i < j => Last(k[i]) < First(k[j])
        BY <1>0, <1>2, <1>a
      <4> QED
        BY <1>2, <4>1, AnswerBlocks
    <3>4. CASE n \in DOMAIN waitingBlocks[m]
      <4>1. waitingBlocks[m][n].remainNums \in Nat
        BY <1>0, <1>3, <3>4 DEF Typed, NodeTyped, AskTyped, Request
      <4>2. Measured(a, b, waitingBlocks[m][n].remainNums) /\ waitingBlocks[m][n].remainNums < Wrap \div 2
        BY <1>3, <1>a, <3>4 DEF Exchange, Counted
      <4>3. Measured(Tail(a), b \o k, waitingBlocks[m][n].remainNums)
        BY <3>3, <4>1, <4>2
      <4> QED
        BY <1>1, <1>b, <2>2, <3>4, <4>2, <4>3 DEF Counted
    <3>5. CASE n \notin DOMAIN waitingBlocks[m]
      <4>1. early[2] > 0 /\ Ordered(a, b) /\ n \notin DOMAIN syncHashResp[m]
        BY <1>3, <1>a, <3>3, <3>5 DEF Exchange, Counted
      <4>2. early[2] > 0 /\ Ordered(Tail(a), b \o k) /\ n \notin DOMAIN syncHashResp[m]
        BY <3>3, <4>1
      <4> QED
        BY <1>1, <1>b, <2>2, <3>5, <4>2 DEF Counted
    <3> QED
      BY <3>4, <3>5
  <2> QED
    BY <2>1, <2>2
<1> QED
  BY <1>0, <1>5, <1>6 DEF Exchange

\* An answer of hashes is kept: what was given up has arrived before it.
LEMMA SyncResponseCounted ==
  ASSUME Exchange, NEW n \in Node, NEW m \in Peers[n], handleSyncResponse(n, m)
  PROVE  Exchange'
<1>0. /\ Typed /\ Typed' /\ flight[<<m, n>>] # <<>> /\ flight[<<m, n>>] \in Seq(Packets)
      /\ Head(flight[<<m, n>>]).type = "SyncResp"
  BY SyncResponseTyped, Received DEF Exchange, handleSyncResponse
<1>1. /\ flight'[<<m, n>>] = Tail(flight[<<m, n>>])
      /\ \A l \in Link \ {<<m, n>>} : flight'[l] = flight[l]
      /\ \A c \in Node : \A p \in Peers[c] : Untouched(c, p)
  BY <1>0, Take DEF handleSyncResponse
<1>2. UNCHANGED <<waitingBlocks, watingHash, early>>
  BY DEF handleSyncResponse
<1>3. /\ DOMAIN syncHashResp = Node
      /\ \A c \in Node : syncHashResp'[c] = syncHashResp[c] \/ (c = n /\ watingHash[n])
      /\ \A c \in Node : \A p \in DOMAIN syncHashResp'[c] : p \in DOMAIN syncHashResp[c] \/ (c = n /\ p = m)
  BY <1>0 DEF Typed, NodeTyped, handleSyncResponse
<1>4. ASSUME NEW c \in Node PROVE Asked(c)'
  <2>1. Answered(c) => Answered(c)'
    BY <1>0, <1>1, AnsweredStays
  <2>2. ~watingHash[c] => syncHashResp'[c] = syncHashResp[c]
    BY <1>3
  <2> QED
    BY <1>0, <1>2, <2>1, <2>2, AskedStays DEF Exchange
<1>5. ASSUME NEW c \in Node, NEW p \in Peers[c] PROVE Counted(c, p)'
  <2>1. CASE p \in DOMAIN syncHashResp'[c] => p \in DOMAIN syncHashResp[c]
    BY <1>0, <1>1, <1>2, <2>1, CountedStays DEF Exchange
  <2>2. CASE ~(p \in DOMAIN syncHashResp'[c] => p \in DOMAIN syncHashResp[c])
    <3>1. c = n /\ p = m /\ watingHash[n]
      BY <1>3, <2>2
    <3>2. m \notin DOMAIN waitingBlocks[n]
      BY <3>1 DEF Exchange, Asked
    <3>3. <<n, m>> \in Link /\ <<m, n>> \in Link /\ <<n, m>> # <<m, n>>
      BY Links
    <3>4. PICK a \in Seq(Packets), b \in Seq(Packets) : a = flight[<<n, m>>] /\ b = flight[<<m, n>>]
      BY <1>0, LinksTyped
    <3>5. flight'[<<n, m>>] = a /\ flight'[<<m, n>>] = Tail(b)
      BY <1>1, <3>3, <3>4
    <3>6. Quiet(a, b) \/ Ordered(a, b)
      BY <3>2, <3>4 DEF Exchange, Counted
    <3>7. Quiet(a, Tail(b))
      <4>1. CASE Ordered(a, b)
        BY <1>0, <3>4, <4>1, HashesArrive
      <4>2. CASE Quiet(a, b)
        <5>1. \A i \in DOMAIN Tail(b) : i + 1 \in DOMAIN b /\ Tail(b)[i] = b[i + 1]
          BY <1>0, <3>4, TailAt
        <5> QED
          BY <4>2, <5>1 DEF Quiet, Has
      <4> QED
        BY <3>6, <4>1, <4>2
    <3> QED
      BY <1>2, <3>1, <3>2, <3>5, <3>7 DEF Counted
  <2> QED
    BY <2>1, <2>2
<1> QED
  BY <1>0, <1>4, <1>5 DEF Exchange

\* The blocks that arrive are counted, and the counter does not wrap.
LEMMA BlocksResponseCounted ==
  ASSUME Exchange, NEW n \in Node, NEW m \in Peers[n], handleBlocksResponse(n, m)
  PROVE  Exchange'
<1>0. /\ Typed /\ Typed' /\ flight[<<m, n>>] # <<>> /\ flight[<<m, n>>] \in Seq(Packets)
      /\ Packet(m, n) = Head(flight[<<m, n>>]) /\ Packet(m, n) \in Packets
      /\ Head(flight[<<m, n>>]).type = "BlockResp"
  BY BlocksResponseTyped, Received DEF Exchange, handleBlocksResponse
<1>1. /\ flight'[<<m, n>>] = Tail(flight[<<m, n>>])
      /\ \A l \in Link \ {<<m, n>>} : flight'[l] = flight[l]
      /\ \A c \in Node : \A p \in Peers[c] : Untouched(c, p)
  BY <1>0, Take DEF handleBlocksResponse
<1>2. UNCHANGED <<syncHashResp, watingHash, early>>
  BY DEF handleBlocksResponse
<1>3. CASE UNCHANGED waitingBlocks
  BY <1>0, <1>1, <1>2, <1>3, ExchangeStays
<1>4. CASE m \in DOMAIN waitingBlocks[n]
  <2>1. PICK a \in Seq(Packets), b \in Seq(Packets) : a = flight[<<n, m>>] /\ b = flight[<<m, n>>]
    BY <1>0, LinksTyped
  <2>2. flight'[<<n, m>>] = a /\ flight'[<<m, n>>] = Tail(b)
    <3>1. <<n, m>> \in Link /\ <<n, m>> # <<m, n>>
      BY Links
    <3> QED
      BY <1>1, <2>1, <3>1
  <2>3. PICK rem \in Nat : rem = waitingBlocks[n][m].remainNums
    BY <1>0, <1>4 DEF Typed, NodeTyped, AskTyped, Request
  <2>4. PICK k \in Nat : k = Len(Packet(m, n).blocks)
    <3>1. Packet(m, n).blocks \in Runs
      BY <1>0, PacketKinds
    <3> QED
      BY <3>1, RunEnds
  <2>5. Measured(a, b, rem) /\ rem < Wrap \div 2
    BY <1>4, <2>1, <2>3 DEF Exchange, Counted
  <2>6. k <= rem /\ Measured(a, Tail(b), rem - k) /\ (k = rem => Quiet(a, Tail(b)))
    <3>1. b # <<>> /\ Head(b).type = "BlockResp" /\ k = Len(Head(b).blocks)
      BY <1>0, <2>1, <2>4
    <3> QED
      BY <2>5, <3>1, BlocksArrive
  <2>7. subtract(rem, k) = rem - k /\ rem - k \in Nat /\ rem - k < Wrap \div 2
    <3>1. Wrap \in Nat \ {0} /\ Wrap \div 2 \in Nat /\ Wrap \div 2 <= Wrap
      BY SyncBounds
    <3>2. rem - k \in Nat /\ rem - k < Wrap \div 2 /\ rem - k < Wrap
      BY <2>5, <2>6, <3>1
    <3> QED
      BY <3>1, <3>2, SmallRemainder DEF subtract
  <2>8. DOMAIN waitingBlocks = Node
    BY <1>0 DEF Typed, NodeTyped
  <2>9. /\ \A c \in Node \ {n} : waitingBlocks'[c] = waitingBlocks[c]
        /\ DOMAIN waitingBlocks'[n] \subseteq DOMAIN waitingBlocks[n]
        /\ \A p \in DOMAIN waitingBlocks[n] \ {m} :
             p \in DOMAIN waitingBlocks'[n] /\ waitingBlocks'[n][p] = waitingBlocks[n][p]
        /\ m \in DOMAIN waitingBlocks'[n] <=> rem - k # 0
        /\ rem - k # 0 => waitingBlocks'[n][m].remainNums = rem - k
    <3>1. PICK got : IF rem - k = 0
          THEN waitingBlocks' = [waitingBlocks EXCEPT ![n] = Remove(@, m)]
          ELSE waitingBlocks' = [waitingBlocks EXCEPT ![n][m] =
                         [remainNums |-> rem - k, response |-> got]]
      BY <1>4, <2>3, <2>4, <2>7 DEF handleBlocksResponse
    <3>2. PICK W : W = waitingBlocks[n] /\ W \in [DOMAIN W -> Request]
      BY <1>0 DEF Typed, NodeTyped, AskTyped
    <3>3. CASE rem - k = 0
      <4>1. \A c \in Node \ {n} : waitingBlocks'[c] = waitingBlocks[c]
        BY <2>8, <3>1, <3>3
      <4>2. waitingBlocks'[n] = Remove(W, m)
        BY <2>8, <3>1, <3>2, <3>3
      <4>3. DOMAIN Remove(W, m) = DOMAIN W \ {m} /\ \A q \in DOMAIN W \ {m} : Remove(W, m)[q] = W[q]
        BY DEF Remove
      <4>4. m \notin DOMAIN waitingBlocks'[n]
        BY <4>2, <4>3
      <4> QED
        BY <3>2, <3>3, <4>1, <4>2, <4>3, <4>4
    <3>4. CASE rem - k # 0
      <4>1. \A c \in Node \ {n} : waitingBlocks'[c] = waitingBlocks[c]
        BY <2>8, <3>1, <3>4
      <4>2. waitingBlocks'[n] = [W EXCEPT ![m] = [remainNums |-> rem - k, response |-> got]]
        BY <2>8, <3>1, <3>2, <3>4
      <4> QED
        BY <1>4, <3>2, <3>4, <4>1, <4>2
    <3> QED
      BY <3>3, <3>4
  <2>10. ASSUME NEW c \in Node PROVE Asked(c)'
    <3>1. Answered(c) => Answered(c)'
      BY <1>0, <1>1, AnsweredStays
    <3>2. DOMAIN waitingBlocks'[c] \subseteq DOMAIN waitingBlocks[c]
      BY <2>9
    <3> QED
      BY <1>0, <1>2, <3>1, <3>2, AskedStays DEF Exchange
  <2>11. ASSUME NEW c \in Node, NEW p \in Peers[c] PROVE Counted(c, p)'
    <3>1. CASE c # n \/ p # m
      <4>1. /\ p \in DOMAIN waitingBlocks'[c] <=> p \in DOMAIN waitingBlocks[c]
            /\ p \in DOMAIN waitingBlocks[c] => waitingBlocks'[c][p] = waitingBlocks[c][p]
        BY <2>9, <3>1
      <4> QED
        BY <1>0, <1>1, <1>2, <4>1, CountedStays DEF Exchange
    <3>2. CASE c = n /\ p = m
      <4>1. CASE rem - k = 0
        <5>1. Quiet(a, Tail(b)) /\ m \notin DOMAIN waitingBlocks'[n]
          BY <2>6, <2>9, <4>1
        <5> QED
          BY <2>2, <3>2, <5>1 DEF Counted
      <4>2. CASE rem - k # 0
        BY <2>2, <2>6, <2>7, <2>9, <3>2, <4>2 DEF Counted
      <4> QED
        BY <4>1, <4>2
    <3> QED
      BY <3>1, <3>2
  <2> QED
    BY <1>0, <2>10, <2>11 DEF Exchange
<1> QED
  BY <1>3, <1>4 DEF handleBlocksResponse

\* A request is given up: what is still on the way will arrive first.
LEMMA TimeoutCounted ==
  ASSUME NotBothEarly, Exchange, NEW n \in Node, NEW m \in Peers[n], TimeoutBlocks(n, m)
  PROVE  Exchange'
<1>0. Typed /\ Typed' /\ \A c \in Node : \A p \in Peers[c] : Untouched(c, p)
  BY TimeoutTyped, FlightStays DEF Exchange, TimeoutBlocks
<1>1. /\ UNCHANGED <<syncHashResp, watingHash, flight>> /\ m \in DOMAIN waitingBlocks[n]
      /\ DOMAIN waitingBlocks = Node
      /\ waitingBlocks' = [waitingBlocks EXCEPT ![n] = Remove(@, m)]
  BY <1>0 DEF Typed, NodeTyped, TimeoutBlocks
<1>2. /\ \A c \in Node \ {n} : waitingBlocks'[c] = waitingBlocks[c]
      /\ DOMAIN waitingBlocks'[n] = DOMAIN waitingBlocks[n] \ {m}
      /\ \A p \in DOMAIN waitingBlocks[n] \ {m} : waitingBlocks'[n][p] = waitingBlocks[n][p]
  BY <1>1 DEF Remove
<1>3. PICK a, b : a = flight[<<n, m>>] /\ b = flight[<<m, n>>]
  OBVIOUS
<1>4. (Quiet(a, b) /\ early' = early) \/ early' = <<early[1], early[2] + 1>>
  BY <1>3 DEF TimeoutBlocks, InTime, OneMoreTimeout, Underway, Quiet, Has
<1>5. early[1] \in Nat /\ early[2] \in Nat /\ (early'[1] = 0 \/ early'[2] = 0)
  <2>1. early[1] \in Nat /\ early[2] \in Nat
    BY <1>0, EarlyType
  <2>2. early' \in Early \cup {<<0, 0>>}
    BY <1>0 DEF Typed, LinkTyped
  <2> QED
    BY <2>1, <2>2 DEF NotBothEarly
<1>6. early'[1] = early[1] /\ (early[2] > 0 => early'[2] > 0)
  BY <1>4, <1>5
<1>7. ASSUME NEW c \in Node PROVE Asked(c)'
  <2>1. Answered(c) => Answered(c)'
    BY <1>0, AnsweredStays
  <2>2. DOMAIN waitingBlocks'[c] \subseteq DOMAIN waitingBlocks[c]
    BY <1>2
  <2> QED
    BY <1>0, <1>1, <1>6, <2>1, <2>2, AskedStays DEF Exchange
<1>8. Quiet(a, b) \/ (early'[2] > 0 /\ Ordered(a, b) /\ m \notin DOMAIN syncHashResp[n])
  <2>1. SUFFICES ASSUME ~Quiet(a, b)
                 PROVE  early'[2] > 0 /\ Ordered(a, b) /\ m \notin DOMAIN syncHashResp[n]
    OBVIOUS
  <2>2. early'[2] = early[2] + 1
    BY <1>4, <2>1
  <2>3. early'[2] > 0 /\ early[1] = 0
    BY <1>5, <1>6, <2>2
  <2>4. Answered(n) /\ DOMAIN syncHashResp[n] = {}
    BY <1>1, <2>3 DEF Exchange, Asked
  <2>5. ~Has(a, "SyncReq") /\ ~Has(b, "SyncResp")
    BY <1>3, <2>4 DEF Answered, Underway, Has
  <2>6. Ordered(a, b)
    BY <2>5 DEF Ordered, Before, Has
  <2> QED
    BY <2>3, <2>4, <2>6
<1>9. ASSUME NEW c \in Node, NEW p \in Peers[c] PROVE Counted(c, p)'
  <2>1. CASE c # n \/ p # m
    <3>1. /\ p \in DOMAIN waitingBlocks'[c] <=> p \in DOMAIN waitingBlocks[c]
          /\ p \in DOMAIN waitingBlocks[c] => waitingBlocks'[c][p] = waitingBlocks[c][p]
      BY <1>2, <2>1
    <3> QED
      BY <1>0, <1>1, <1>6, <3>1, CountedStays DEF Exchange
  <2>2. CASE c = n /\ p = m
    BY <1>1, <1>2, <1>3, <1>8, <2>2 DEF Counted
  <2> QED
    BY <2>1, <2>2
<1> QED
  BY <1>0, <1>7, <1>9 DEF Exchange

\* Finding a block touches no exchange.
LEMMA MineCounted ==
  ASSUME Exchange, NEW n \in Node, Mine(n)
  PROVE  Exchange'
<1>0. Typed /\ Typed' /\ flight \in [Link -> Seq(Packets)]
  BY MineTyped DEF Exchange, Typed, LinkTyped
<1>1. PICK b \in Hash : broadcast(n, flight, Announce(b))
  BY SyncBounds DEF Mine
<1>2. PICK q \in [Link -> Seq(Packets)] : q = flight
  BY <1>0
<1>3. \A l \in Link : \A types : Kept(q[l], flight[l], types)
  BY <1>2, KeptSame
<1>4. broadcast(n, q, Announce(b))
  BY <1>1, <1>2
<1>5. \A c \in Node : \A p \in Peers[c] : Untouched(c, p)
  BY <1>0, <1>3, <1>4, BroadcastElsewhere
<1> QED
  BY <1>0, <1>5, ExchangeStays DEF Mine

\* Every step keeps the counts.
LEMMA StepCounted ==
  ASSUME NotBothEarly, CountsFit, Exchange, [Next]_vars
  PROVE  Exchange'
<1>0. Typed /\ Typed'
  BY StepTyped DEF Exchange
<1>1. ASSUME NEW n \in Node, ChainLoop(n) PROVE Exchange'
  <2>1. flight' = flight /\ UNCHANGED <<waitingBlocks, syncHashResp, watingHash, early>>
    BY <1>1 DEF ChainLoop, netVars
  <2> QED
    BY <1>0, <2>1, FlightStays, ExchangeStays
<1>2. ASSUME NEW n \in Node, Tick(n) \/ Mine(n) PROVE Exchange'
  BY <1>2, RequestHashCounted, RequestBlocksCounted, MineCounted DEF Tick
<1>3. ASSUME NEW n \in Node, NEW m \in Peers[n], handleBlockBroadcast(n, m) \/ Lose(m, n) PROVE Exchange'
  <2>1. \A c \in Node : \A p \in Peers[c] : Untouched(c, p)
    BY <1>0, <1>3, BroadcastTyped, LoseTyped
  <2>2. UNCHANGED <<waitingBlocks, syncHashResp, watingHash, early>>
    BY <1>3 DEF handleBlockBroadcast, Lose, netVars
  <2> QED
    BY <1>0, <2>1, <2>2, ExchangeStays
<1>4. ASSUME NEW n \in Node, NEW m \in Peers[n], Receive(n, m) \/ Lose(m, n) \/ TimeoutBlocks(n, m)
      PROVE  Exchange'
  BY <1>3, <1>4, SyncRequestCounted, SyncResponseCounted, BlocksRequestCounted,
     BlocksResponseCounted, TimeoutCounted DEF Receive
<1>5. CASE UNCHANGED vars
  <2>1. flight' = flight /\ UNCHANGED <<waitingBlocks, syncHashResp, watingHash, early>>
    BY <1>5 DEF vars, netVars
  <2> QED
    BY <1>0, <2>1, FlightStays, ExchangeStays
<1> QED
  BY <1>1, <1>2, <1>4, <1>5 DEF Next

\* The counter of the blocks that are awaited never wraps (net.go:394):
\* whatever is lost, however many peers there are and however often it is
\* asked again, the blocks that arrive for a request are never more than
\* were announced. Two things are assumed: the ticker is not faster than an
\* answer in the same run in which a request is given up early, and the
\* chain is lower than half of the counter's range.
THEOREM NoMiscount ==
  ASSUME NotBothEarly, CountsFit
  PROVE  Spec => []NeverMiscounted
<1>1. Init => Exchange
  BY InitExchange
<1>2. Exchange /\ [Next]_vars => Exchange'
  BY StepCounted
<1>3. Exchange => NeverMiscounted
  <2> SUFFICES ASSUME Exchange, NEW n \in Node, NEW p \in DOMAIN waitingBlocks[n]
               PROVE  waitingBlocks[n][p].remainNums < Wrap \div 2
    BY DEF NeverMiscounted
  <2>1. p \in Peers[n]
    BY DEF Exchange, Typed, NodeTyped, AskTyped
  <2> QED
    BY <2>1 DEF Exchange, Counted
<1> QED
  BY <1>1, <1>2, <1>3, PTL DEF Spec
=============================================================================
