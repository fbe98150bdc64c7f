---------------------------- MODULE ChainProofs ----------------------------
(***************************************************************************)
(* Proofs about Chain, for every block tree, every alpha, every bound and  *)
(* every behaviour of the peers.                                           *)
(*                                                                         *)
(* PutBlock compares heights and nothing else, so that the stored blocks   *)
(* are linked rests on what the objects of the cache know: Links (fordward *)
(* references lead to children, one higher), StoredInDb (an object marked  *)
(* stored is in the database at its height) and Anchored (the block that   *)
(* maintain looks at next is stored, or its parent is).                    *)
(***************************************************************************)
EXTENDS Chain, ChainSync, QCache, Iteration, FiniteSetTheorems, SequenceTheorems

\* A fordward reference leads to a child, one higher.
Links ==
  \A o \in Obj : \A p \in heap[o].fordward :
    /\ heap[p].height = heap[o].height + 1
    /\ p[1] # Genesis
    /\ Parent[p[1]] = o[1]

\* A block marked stored is in the database at its height.
StoredInDb ==
  \A o \in Obj : heap[o].stored =>
    heap[o].height \in 1 .. Len(db) /\ db[heap[o].height] = o[1]

\* o is stored, or its parent is the stored block below its height.
Anchored(o) ==
  \/ heap[o].stored
  \/ /\ o[1] # Genesis
     /\ heap[o].height - 1 \in 1 .. Len(db)
     /\ db[heap[o].height - 1] = Parent[o[1]]

DbDepth == \A i \in 1 .. Len(db) : Depth[db[i]] = i

\* The inductive invariant.
Inv ==
  /\ TypeOK
  /\ Links
  /\ StoredInDb
  /\ Anchored(oldestBlock)
  /\ pc = "flush" => Anchored(iter)
  /\ DbLinked
  /\ DbDepth

-----------------------------------------------------------------------------
(* The operators *)

\* An assignment to the forward references of one object (block.go addFordward,
\* removeForward), named so that the provers need not look into it.
WithFordward(f, x, F) == [f EXCEPT ![x].fordward = F]

\* Assignments to one field of an object leave the other fields and the other
\* objects alone.
LEMMA SetFordward ==
  ASSUME NEW f \in [Obj -> Block], NEW x \in Obj, NEW F \in SUBSET Obj, NEW g,
         g = WithFordward(f, x, F)
  PROVE  /\ g \in [Obj -> Block]
         /\ g[x].height = f[x].height /\ g[x].stored = f[x].stored
         /\ g[x].fordward = F
         /\ \A q \in Obj \ {x} : g[q] = f[q]
  BY DEF Block, WithFordward

\* The same when a backward reference is cleared (branch.remove, maintain).
LEMMA SetBackward ==
  ASSUME NEW f \in [Obj -> Block], NEW x \in Obj, NEW g,
         g = [f EXCEPT ![x].backward = Nil]
  PROVE  /\ g \in [Obj -> Block]
         /\ g[x].height = f[x].height /\ g[x].stored = f[x].stored
         /\ g[x].fordward = f[x].fordward
         /\ \A q \in Obj \ {x} : g[q] = f[q]
  BY DEF Block

\* The same when a block is marked as stored (maintain after PutBlock).
LEMMA SetStored ==
  ASSUME NEW f \in [Obj -> Block], NEW x \in Obj, NEW v \in BOOLEAN, NEW g,
         g = [f EXCEPT ![x].stored = v]
  PROVE  /\ g \in [Obj -> Block]
         /\ g[x].height = f[x].height /\ g[x].stored = v
         /\ g[x].fordward = f[x].fordward
         /\ \A q \in Obj \ {x} : g[q] = f[q]
  BY DEF Block

\* Following backward references yields objects.
LEMMA BackPathType == \A o : BackPath(o) \subseteq Obj
  BY DEF BackPath

\* A set of objects has hashes of blocks.
LEMMA HashesType == \A S \in SUBSET Obj : Hashes(S) \subseteq Hash
  BY DEF Hashes, Obj

\* newBranch returns a branch with typed caches.
LEMMA NewBranchType ==
  ASSUME NEW o \in Obj
  PROVE  newBranch(o) \in Branch
<1> DEFINE path == BackPath(o)
<1>1. path \in SUBSET Obj
  BY BackPathType
<1>2. Hashes(path) \subseteq Hash
  BY <1>1, HashesType
<1>3. UNION {Evds[h] : h \in Hashes(path)} \in SUBSET Evidence
  BY <1>2, BatchAssumption
<1> QED
  BY <1>1, <1>3 DEF newBranch, Branch

\* A block gets an object that nothing refers to.
LEMMA NewObjFresh ==
  ASSUME NEW h \in Hash, FreeCopies(h) # {}
  PROVE  NewObj(h) \in Obj /\ ~Referenced(NewObj(h)) /\ NewObj(h)[1] = h
<1>1. PICK k \in FreeCopies(h) : NewObj(h) = <<h, k>>
  BY DEF NewObj
<1> QED
  BY <1>1 DEF FreeCopies, Obj


-----------------------------------------------------------------------------
(* The invariant *)

\* A new process on an empty database satisfies the invariant (initGenesis).
LEMMA InitInv == Init => Inv
<1> SUFFICES ASSUME Init PROVE Inv
  OBVIOUS
<1> DEFINE g == <<Genesis, 1>>
<1>1. g \in Obj /\ g[1] = Genesis
  BY TreeAssumption, BoundAssumption DEF Obj
<1>2. TypeOK
  <2>1. heap \in [Obj -> Block]
    BY <1>1 DEF Init, Block, FreeBlock, Nil
  <2>2. BranchesOK
    BY <1>1, TreeAssumption, BatchAssumption, BoundAssumption
    DEF Init, BranchesOK, Branch, BranchIds
  <2>3. OpOK
    BY DEF Init, OpOK
  <2>4. db \in Seq(Hash) /\ db # <<>>
    BY TreeAssumption DEF Init
  <2>5. PassiveChangeNotify \in BOOLEAN /\ local \in BOOLEAN
    BY DEF Init
  <2> QED
    BY <1>1, <2>1, <2>2, <2>3, <2>4, <2>5, BoundAssumption DEF Init, TypeOK
<1>3. Links
  BY DEF Init, Links, FreeBlock
<1>4. StoredInDb
  BY DEF Init, StoredInDb, FreeBlock
<1>5. Anchored(oldestBlock)
  BY <1>1 DEF Init, Anchored, FreeBlock
<1>6. DbLinked /\ DbDepth
  BY TreeAssumption DEF Init, DbLinked, DbDepth
<1> QED
  BY <1>2, <1>3, <1>4, <1>5, <1>6 DEF Inv, Init

\* A branch never lags behind itself.
LEMMA LagSelf == \A a \in Nat : Lag(a, a) = 0
  BY BoundAssumption DEF Lag

\* The block that createBranch forks at is an object of the cache.
LEMMA MatchType ==
  ASSUME TypeOK, NEW b \in DOMAIN branches, NEW h, b \in Holding(h)
  PROVE  getBlock(b, h) \in Obj
<1>1. \E o \in branches[b].cache : o[1] = h
  BY DEF Holding, Hashes
<1>2. getBlock(b, h) \in branches[b].cache
  BY <1>1 DEF getBlock
<1> QED
  BY <1>2 DEF TypeOK, BranchesOK, Branch

\* The beginning of addBlocks, for a peer's blocks and for the miner's.
LEMMA AddBlocksType ==
  ASSUME TypeOK, NEW blocks \in Seq(Hash \ {Genesis}), NEW isLocal \in BOOLEAN,
         addBlocks(blocks, isLocal)
  PROVE  BranchesOK' /\ OpOK' /\ local' \in BOOLEAN
<1> DEFINE found == getBranch(Parent[blocks[1]])
<1>1. CASE \E b \in found : IsFirst(b, found) /\ br' = b /\ UNCHANGED branches
  BY <1>1 DEF addBlocks, getBranch, TypeOK, BranchesOK, OpOK
<1>2. CASE createBranch(blocks[1])
  <2> DEFINE h == blocks[1]
  <2>1. PICK b \in DOMAIN branches, id \in BranchIds :
          /\ b \in Holding(Parent[h])
          /\ br' = id
          /\ branches' = [c \in DOMAIN branches \cup {id} |->
                            IF c = id THEN newBranch(getBlock(b, Parent[h]))
                            ELSE branches[c]]
    BY <1>2 DEF createBranch, Forkable, IsFirst
  <2>2. newBranch(getBlock(b, Parent[h])) \in Branch
    BY <2>1, MatchType, NewBranchType
  <2> HIDE DEF h
  <2>3. BranchesOK'
    BY <2>1, <2>2 DEF addBlocks, TypeOK, BranchesOK
  <2>4. br' \in DOMAIN branches'
    BY <2>1
  <2> QED
    BY <2>3, <2>4 DEF addBlocks, OpOK
<1>3. local' \in BOOLEAN
  BY DEF addBlocks
<1> QED
  BY <1>1, <1>2, <1>3 DEF addBlocks

\* Taking the lock for the blocks of a peer, with getBranch or createBranch,
\* preserves the invariant (addBlocks, chain.go:401-419).
LEMMA AddRemoteInv == Inv /\ AddRemote => Inv'
<1> SUFFICES ASSUME Inv, AddRemote PROVE Inv'
  OBVIOUS
<1>1. PICK blocks \in Batches : addBlocks(blocks, FALSE)
  BY DEF AddRemote
<1>2. BranchesOK' /\ OpOK' /\ local' \in BOOLEAN
  BY <1>1, AddBlocksType, BatchAssumption DEF Inv
<1>3. TypeOK'
  BY <1>1, <1>2 DEF addBlocks, AddRemote, Inv, TypeOK
<1> QED
  BY <1>1, <1>3 DEF addBlocks, Inv, Links, StoredInDb, Anchored, DbLinked,
                    DbDepth

\* The same for a block mined here (scheduler.go:90-97).
LEMMA MinedInv == Inv /\ Mined => Inv'
<1> SUFFICES ASSUME Inv, Mined PROVE Inv'
  OBVIOUS
<1>1. PICK h \in Own : addBlocks(<<h>>, TRUE)
  BY DEF Mined
<1>2. <<h>> \in Seq(Hash \ {Genesis})
  BY BatchAssumption
<1>3. BranchesOK' /\ OpOK' /\ local' \in BOOLEAN
  BY <1>1, <1>2, AddBlocksType DEF Inv
<1>4. TypeOK'
  BY <1>1, <1>3 DEF addBlocks, Mined, Inv, TypeOK
<1> QED
  BY <1>1, <1>4 DEF addBlocks, Inv, Links, StoredInDb, Anchored, DbLinked,
                    DbDepth

\* The loop of addBlocks hangs a new object under the head of a branch.
LEMMA AddInv ==
  ASSUME Inv, NEW h \in Hash \ {Genesis}, NEW b \in DOMAIN branches,
         HeadHash(b) = Parent[h], add(b, h)
  PROVE  /\ heap' \in [Obj -> Block] /\ BranchesOK
         /\ branches' \in [DOMAIN branches -> Branch]
         /\ (UNCHANGED db => Links' /\ StoredInDb')
         /\ heap'[oldestBlock].stored = heap[oldestBlock].stored
         /\ heap'[oldestBlock].height = heap[oldestBlock].height
<1> DEFINE o == NewObj(h)
           oldHead == branches[b].head
<1>1. o \in Obj /\ ~Referenced(o) /\ o[1] = h
  BY NewObjFresh DEF add
<1>2. oldHead \in Obj
  BY DEF Inv, TypeOK, BranchesOK, Branch
<1>3. /\ o # oldHead /\ o # oldestBlock
      /\ \A q \in Obj : o \notin heap[q].fordward
  BY <1>1 DEF Referenced
<1>4. heap \in [Obj -> Block] /\ oldestBlock \in Obj /\ BranchesOK
  BY DEF Inv, TypeOK
<1> DEFINE new == [height |-> heap[oldHead].height + 1, stored |-> FALSE,
                   backward |-> oldHead, fordward |-> {}]
           links == Store(heap[oldHead].fordward, o)
           mid == [heap EXCEPT ![oldHead].fordward = links]
<1>5. heap' = [mid EXCEPT ![o] = new] /\ new \in Block
  BY <1>2, <1>4 DEF add, Height, Block
<1>6. branches' = [branches EXCEPT ![b] =
            [head |-> o, cache |-> Store(@.cache, o),
             evds |-> @.evds \cup Evds[h]]]
  BY DEF add
<1>7. links \in SUBSET Obj
  BY <1>1, <1>2, <1>4 DEF Store, Block
<1>b. mid = WithFordward(heap, oldHead, links)
  BY DEF WithFordward
<1> HIDE DEF o, oldHead, mid, links
<1>a. /\ mid \in [Obj -> Block] /\ mid[oldHead].height = heap[oldHead].height
      /\ mid[oldHead].stored = heap[oldHead].stored
      /\ mid[oldHead].fordward = links
      /\ \A q \in Obj \ {oldHead} : mid[q] = heap[q]
  BY <1>2, <1>4, <1>7, <1>b, SetFordward
<1>8. /\ heap' \in [Obj -> Block]
      /\ heap'[o] = new
      /\ heap'[oldHead].height = heap[oldHead].height
      /\ heap'[oldHead].stored = heap[oldHead].stored
      /\ heap'[oldHead].fordward = links
      /\ \A q \in Obj \ {o, oldHead} : heap'[q] = heap[q]
  <2> HIDE DEF new
  <2> QED
    BY <1>1, <1>2, <1>3, <1>5, <1>a
<1>9. branches' \in [DOMAIN branches -> Branch]
  BY <1>1, <1>4, <1>6, BatchAssumption DEF BranchesOK, Branch, Store
<1>10. ASSUME UNCHANGED db PROVE Links'
  <2> SUFFICES ASSUME NEW q \in Obj, NEW p \in heap'[q].fordward
               PROVE  /\ heap'[p].height = heap'[q].height + 1
                      /\ p[1] # Genesis /\ Parent[p[1]] = q[1]
    BY DEF Links
  <2>1. CASE q = o
    BY <2>1, <1>1, <1>2, <1>3, <1>4, <1>8
  <2>2. CASE q = oldHead /\ p = o
    BY <2>2, <1>1, <1>2, <1>3, <1>4, <1>8 DEF HeadHash, oldHead, Block, new
  <2>3. CASE q # o /\ p # o
    <3>1. p \in heap[q].fordward
      BY <2>3, <1>1, <1>2, <1>3, <1>4, <1>8 DEF Store, links
    <3>2. p \in Obj
      BY <3>1, <1>4 DEF Block
    <3>3. heap'[p].height = heap[p].height /\ heap'[q].height = heap[q].height
      BY <2>3, <3>2, <1>1, <1>2, <1>4, <1>8
    <3> QED
      BY <3>1, <3>3 DEF Inv, Links
  <2>4. CASE q # o /\ q # oldHead /\ p = o
    BY <2>4, <1>1, <1>2, <1>3, <1>4, <1>8
  <2> QED
    BY <2>1, <2>2, <2>3, <2>4
<1>11. ASSUME UNCHANGED db PROVE StoredInDb'
  BY <1>1, <1>2, <1>3, <1>4, <1>8, <1>11 DEF Inv, StoredInDb
<1>12. /\ heap'[oldestBlock].stored = heap[oldestBlock].stored
       /\ heap'[oldestBlock].height = heap[oldestBlock].height
  BY <1>1, <1>2, <1>3, <1>4, <1>8
<1> QED
  BY <1>4, <1>8, <1>9, <1>10, <1>11, <1>12

\* Verifying and adding the next block of a batch preserves the invariant:
\* refused, early or redelivered blocks included (chain.go:421-427).
LEMMA AddNextInv == Inv /\ AddNext => Inv'
<1> SUFFICES ASSUME Inv, AddNext PROVE Inv'
  OBVIOUS
<1> DEFINE h == Head(batch)
<1>1. /\ batch \in Seq(Hash \ {Genesis}) /\ batch # <<>>
      /\ br \in DOMAIN branches
  BY DEF Inv, TypeOK, OpOK, AddNext
<1>2. h \in Hash \ {Genesis} /\ Tail(batch) \in Seq(Hash \ {Genesis})
  BY <1>1
<1>3. /\ UNCHANGED <<longestBranch, lastHeight, oldestBlock, db, round, restarts>>
      /\ UNCHANGED PassiveChangeNotify
  BY DEF AddNext
<1>4. CASE "ok" \in verifyBlock(br, h) /\ add(br, h) /\ batch' = Tail(batch)
           /\ UNCHANGED <<pc, br, local, iter, proc>>
  <2>1. HeadHash(br) = Parent[h]
    BY <1>4 DEF verifyBlock
  <2>2. /\ heap' \in [Obj -> Block] /\ BranchesOK
        /\ branches' \in [DOMAIN branches -> Branch]
        /\ Links' /\ StoredInDb'
        /\ heap'[oldestBlock].stored = heap[oldestBlock].stored
        /\ heap'[oldestBlock].height = heap[oldestBlock].height
    BY <1>1, <1>2, <1>3, <1>4, <2>1, AddInv
  <2>3. BranchesOK' /\ OpOK'
    BY <1>1, <1>2, <1>3, <1>4, <2>2 DEF BranchesOK, OpOK, Inv, TypeOK
  <2>4. TypeOK'
    BY <1>3, <1>4, <2>2, <2>3 DEF Inv, TypeOK
  <2>5. Anchored(oldestBlock)'
    BY <1>3, <2>2 DEF Inv, Anchored
  <2>6. DbLinked' /\ DbDepth' /\ pc' # "flush"
    BY <1>3, <1>4 DEF Inv, DbLinked, DbDepth, AddNext
  <2> QED
    BY <2>2, <2>4, <2>5, <2>6 DEF Inv
<1>5. CASE Release /\ UNCHANGED <<heap, branches, proc>>
  <2>1. BranchesOK' /\ OpOK'
    BY <1>3, <1>5 DEF Release, BranchesOK, OpOK, Inv, TypeOK
  <2>2. TypeOK'
    BY <1>3, <1>5, <2>1 DEF Release, Inv, TypeOK
  <2> QED
    BY <1>3, <1>5, <2>2 DEF Release, Inv, Links, StoredInDb, Anchored, DbLinked,
                            DbDepth
<1>6. CASE proc' = "target" /\ UNCHANGED <<heap, branches, opVars>>
  <2>1. BranchesOK' /\ OpOK'
    BY <1>3, <1>6 DEF opVars, BranchesOK, OpOK, Inv, TypeOK
  <2>2. TypeOK'
    BY <1>3, <1>6, <2>1 DEF opVars, Inv, TypeOK
  <2> QED
    BY <1>3, <1>6, <2>2 DEF opVars, Inv, Links, StoredInDb, Anchored, DbLinked,
                            DbDepth
<1> QED
  BY <1>4, <1>5, <1>6 DEF AddNext

\* notifyCheck at the end of a batch preserves the invariant: the branch it
\* switches to is one of the list (chain.go:487-498).
LEMMA AddDoneInv == Inv /\ AddDone => Inv'
<1> SUFFICES ASSUME Inv, AddDone PROVE Inv'
  OBVIOUS
<1>1. /\ UNCHANGED <<heap, branches, oldestBlock, db, round, proc, restarts>>
      /\ Release
  BY DEF AddDone
<1>2. /\ longestBranch' \in DOMAIN branches /\ lastHeight' \in Nat
      /\ PassiveChangeNotify' \in BOOLEAN
  <2>1. CASE UNCHANGED <<longestBranch, lastHeight, PassiveChangeNotify>>
    BY <2>1 DEF Inv, TypeOK, BranchesOK
  <2>2. CASE \E b \in DOMAIN branches : /\ longestBranch' = b
                                       /\ lastHeight' = Height(b)
                                       /\ PassiveChangeNotify' = TRUE
    BY <2>2 DEF Inv, TypeOK, BranchesOK, Height, Branch, Block
  <2> QED
    BY <2>1, <2>2 DEF AddDone, notifyCheck, getLongestBranch
<1>3. BranchesOK' /\ OpOK'
  BY <1>1, <1>2 DEF Release, Inv, TypeOK, BranchesOK, OpOK
<1>4. TypeOK'
  BY <1>1, <1>2, <1>3 DEF Release, Inv, TypeOK
<1> QED
  BY <1>1, <1>4 DEF Release, Inv, Links, StoredInDb, Anchored, DbLinked, DbDepth

\* maintain starts with the oldest block, which is anchored.
LEMMA MaintainBeginInv == Inv /\ MaintainBegin => Inv'
<1> SUFFICES ASSUME Inv, MaintainBegin PROVE Inv'
  OBVIOUS
<1>1. BranchesOK' /\ OpOK'
  BY DEF MaintainBegin, chainVars, Inv, TypeOK, BranchesOK, OpOK
<1>2. TypeOK'
  BY <1>1 DEF MaintainBegin, chainVars, Inv, TypeOK
<1> QED
  BY <1>2 DEF MaintainBegin, chainVars, Inv, Links, StoredInDb, Anchored,
              DbLinked, DbDepth

\* Pruning keeps the longest branch in the list: its own lag is 0 (chain.go:346).
LEMMA PruneStepInv == Inv /\ PruneStep => Inv'
<1> SUFFICES ASSUME Inv, PruneStep PROVE Inv'
  OBVIOUS
<1>1. UNCHANGED <<heap, longestBranch, lastHeight, oldestBlock,
                  PassiveChangeNotify, db, batch, br, local, round, proc,
                  restarts>>
  BY DEF PruneStep
<1>2. CASE \E b \in DOMAIN branches :
             /\ Pruned(b)
             /\ pc' = "remove"
             /\ iter' = branches[b].head
             /\ branches' = [c \in DOMAIN branches \ {b} |-> branches[c]]
  <2>1. PICK b \in DOMAIN branches :
             /\ Pruned(b)
             /\ pc' = "remove"
             /\ iter' = branches[b].head
             /\ branches' = [c \in DOMAIN branches \ {b} |-> branches[c]]
    BY <1>2
  <2>2. Height(longestBranch) \in Nat
    BY DEF Inv, TypeOK, BranchesOK, Height, Branch, Block
  <2>3. b # longestBranch
    BY <2>1, <2>2, LagSelf, BoundAssumption DEF Pruned
  <2>4. BranchesOK' /\ OpOK'
    BY <1>1, <2>1, <2>3 DEF Inv, TypeOK, BranchesOK, OpOK, Branch
  <2>5. TypeOK'
    BY <1>1, <2>1, <2>4 DEF Inv, TypeOK
  <2> QED
    BY <1>1, <2>1, <2>5 DEF Inv, Links, StoredInDb, Anchored, DbLinked, DbDepth
<1>3. CASE pc' = "flush" /\ iter' = oldestBlock /\ UNCHANGED branches
  <2>1. BranchesOK' /\ OpOK'
    BY <1>1, <1>3 DEF Inv, TypeOK, BranchesOK, OpOK
  <2>2. TypeOK'
    BY <1>1, <1>3, <2>1 DEF Inv, TypeOK
  <2> QED
    BY <1>1, <1>3, <2>2 DEF Inv, Links, StoredInDb, Anchored, DbLinked, DbDepth
<1> QED
  BY <1>2, <1>3 DEF PruneStep

\* The rounds of the miner touch nothing that the invariant is about.
LEMMA MinerInv == Inv /\ (StartRound \/ Interrupted \/ MinedInVain) => Inv'
<1> SUFFICES ASSUME Inv, StartRound \/ Interrupted \/ MinedInVain PROVE Inv'
  OBVIOUS
<1>1. UNCHANGED <<heap, branches, longestBranch, lastHeight, oldestBlock, db,
                  opVars, restarts>>
  BY DEF StartRound, Interrupted, MinedInVain, chainVars
<1>2. /\ round' \in {HeadHash(longestBranch), NoHash}
      /\ PassiveChangeNotify' \in BOOLEAN
      /\ proc' \in {"up", "target", "store", "nilblock"}
  BY DEF StartRound, Interrupted, MinedInVain, NewRound, chainVars, Inv, TypeOK
<1>3. round' \in Hash \cup {NoHash}
  BY <1>2 DEF HeadHash, Inv, TypeOK, BranchesOK, Branch, Obj
<1>4. BranchesOK' /\ OpOK'
  BY <1>1 DEF opVars, Inv, TypeOK, BranchesOK, OpOK
<1>5. TypeOK'
  BY <1>1, <1>2, <1>3, <1>4 DEF opVars, Inv, TypeOK
<1> QED
  BY <1>1, <1>5 DEF opVars, Inv, Links, StoredInDb, Anchored, DbLinked, DbDepth

\* branch.remove clears references only; the blocks behind the oldest one stay
\* connected to the database (branch.go:49-69).
LEMMA RemoveStepInv == Inv /\ RemoveStep => Inv'
<1> SUFFICES ASSUME Inv, RemoveStep PROVE Inv'
  OBVIOUS
<1>1. UNCHANGED <<branches, longestBranch, lastHeight, oldestBlock,
                  PassiveChangeNotify, db, batch, br, local, round, restarts>>
  BY DEF RemoveStep
<1>2. iter \in Obj /\ heap \in [Obj -> Block] /\ pc = "remove"
  BY DEF RemoveStep, Inv, TypeOK, OpOK
<1> DEFINE back == heap[iter].backward
<1>3. CASE UNCHANGED heap /\ pc' # "flush" /\ OpOK' /\ proc' \in {"up", "nilblock"}
  <2>1. TypeOK'
    BY <1>1, <1>3 DEF Inv, TypeOK, BranchesOK
  <2> QED
    BY <1>1, <1>3, <2>1 DEF Inv, Links, StoredInDb, Anchored, DbLinked, DbDepth
<1>4. CASE /\ back # Nil /\ iter' = back /\ UNCHANGED <<pc, proc>>
           /\ heap' = [heap EXCEPT ![back].fordward = Delete(@, iter),
                                   ![iter].backward = Nil]
  <2> DEFINE kept == Delete(heap[back].fordward, iter)
             mid == [heap EXCEPT ![back].fordward = kept]
  <2>1. back \in Obj
    BY <1>2, <1>4 DEF Block
  <2>2. kept \in SUBSET Obj /\ kept \subseteq heap[back].fordward
    BY <1>2, <1>4, <2>1 DEF Delete, Block
  <2>a. mid = WithFordward(heap, back, kept)
    BY DEF WithFordward
  <2>b. heap' = [mid EXCEPT ![iter].backward = Nil]
    BY <1>4
  <2> HIDE DEF mid, kept, back
  <2>3. /\ mid \in [Obj -> Block]
        /\ \A q \in Obj : /\ mid[q].height = heap[q].height
                          /\ mid[q].stored = heap[q].stored
                          /\ mid[q].fordward \subseteq heap[q].fordward
    <3>1. /\ mid \in [Obj -> Block]
          /\ mid[back].height = heap[back].height
          /\ mid[back].stored = heap[back].stored
          /\ mid[back].fordward = kept
          /\ \A q \in Obj \ {back} : mid[q] = heap[q]
      BY <1>2, <2>1, <2>2, <2>a, SetFordward
    <3> QED
      BY <2>2, <3>1
  <2>4. /\ heap' \in [Obj -> Block]
        /\ \A q \in Obj : /\ heap'[q].height = heap[q].height
                          /\ heap'[q].stored = heap[q].stored
                          /\ heap'[q].fordward \subseteq heap[q].fordward
    <3>1. /\ heap' \in [Obj -> Block]
          /\ heap'[iter].height = mid[iter].height
          /\ heap'[iter].stored = mid[iter].stored
          /\ heap'[iter].fordward = mid[iter].fordward
          /\ \A q \in Obj \ {iter} : heap'[q] = mid[q]
      BY <1>2, <2>3, <2>b, SetBackward
    <3> QED
      BY <1>2, <2>3, <3>1
  <2>5. BranchesOK' /\ OpOK'
    BY <1>1, <1>2, <1>4, <2>1 DEF Inv, TypeOK, BranchesOK, OpOK
  <2>6. TypeOK'
    BY <1>1, <1>4, <2>4, <2>5 DEF Inv, TypeOK
  <2>7. Links'
    BY <1>2, <2>4 DEF Inv, Links, Block
  <2>8. StoredInDb' /\ Anchored(oldestBlock)'
    BY <1>1, <2>4 DEF Inv, TypeOK, StoredInDb, Anchored
  <2> QED
    BY <1>1, <1>2, <1>4, <2>6, <2>7, <2>8 DEF Inv, DbLinked, DbDepth
<1> QED
  <2>1. CASE pc' = "prune" /\ iter' = Nil /\ UNCHANGED <<heap, proc>>
    BY <1>1, <1>2, <1>3, <2>1 DEF RemoveStep, Inv, TypeOK, OpOK
  <2>2. CASE proc' = "nilblock" /\ UNCHANGED <<heap, pc, iter>>
    BY <1>1, <1>2, <1>3, <2>2 DEF Inv, TypeOK, OpOK
  <2> QED
    BY <1>4, <2>1, <2>2 DEF RemoveStep

\* What one turn of the flush loop does to the objects.
LEMMA AdvanceHeap ==
  ASSUME heap \in [Obj -> Block], NEW rm \in Obj, NEW child \in Obj,
         Advance(rm, child)
  PROVE  /\ heap' \in [Obj -> Block]
         /\ heap'[rm].stored = TRUE
         /\ \A q \in Obj : /\ heap'[q].height = heap[q].height
                           /\ q # rm => heap'[q].stored = heap[q].stored
                           /\ heap'[q].fordward \subseteq heap[q].fordward
<1> DEFINE first == [heap EXCEPT ![rm].stored = TRUE]
<1>1. first = [heap EXCEPT ![rm].stored = TRUE]
  OBVIOUS
<1>a. PICK v \in BOOLEAN : v = TRUE
  OBVIOUS
<1>b. first = [heap EXCEPT ![rm].stored = v]
  BY <1>a
<1> HIDE DEF first
<1>2. /\ first \in [Obj -> Block]
      /\ first[rm].height = heap[rm].height /\ first[rm].stored = TRUE
      /\ first[rm].fordward = heap[rm].fordward
      /\ \A q \in Obj \ {rm} : first[q] = heap[q]
  <2>1. /\ first \in [Obj -> Block]
        /\ first[rm].height = heap[rm].height /\ first[rm].stored = v
        /\ first[rm].fordward = heap[rm].fordward
        /\ \A q \in Obj \ {rm} : first[q] = heap[q]
    BY <1>b, SetStored
  <2> QED
    BY <2>1, <1>a
<1>3. CASE heap' = first
  BY <1>2, <1>3
<1>4. CASE heap' = [heap EXCEPT ![rm].stored = TRUE,
                                ![rm].fordward = Delete(@, child),
                                ![child].backward = Nil]
  <2> DEFINE kept == Delete(first[rm].fordward, child)
             second == [first EXCEPT ![rm].fordward = kept]
  <2>1. second = WithFordward(first, rm, kept)
    BY DEF WithFordward
  <2>a. heap' = [second EXCEPT ![child].backward = Nil]
    BY <1>1, <1>4
  <2>b. first \in [Obj -> Block]
    BY <1>2
  <2>2. kept \in SUBSET Obj /\ kept \subseteq heap[rm].fordward
    BY <1>2 DEF Delete, Block
  <2> HIDE DEF second, kept
  <2>3. /\ second \in [Obj -> Block]
        /\ second[rm].height = first[rm].height
        /\ second[rm].stored = first[rm].stored
        /\ second[rm].fordward = kept
        /\ \A q \in Obj \ {rm} : second[q] = first[q]
    BY <2>b, <2>1, <2>2, SetFordward
  <2>4. /\ heap' \in [Obj -> Block]
        /\ heap'[child].height = second[child].height
        /\ heap'[child].stored = second[child].stored
        /\ heap'[child].fordward = second[child].fordward
        /\ \A q \in Obj \ {child} : heap'[q] = second[q]
    <3>1. second \in [Obj -> Block]
      BY <2>3
    <3> QED
      BY <2>a, <3>1 DEF Block
  <2> QED
    BY <1>2, <2>2, <2>3, <2>4
<1> QED
  BY <1>1, <1>3, <1>4 DEF Advance

\* The caches stay caches when a block is dropped from them.
LEMMA AdvanceBranches ==
  ASSUME BranchesOK, NEW rm \in Obj, NEW child \in Obj, Advance(rm, child),
         UNCHANGED longestBranch
  PROVE  BranchesOK'
<1>1. CASE UNCHANGED branches
  BY <1>1 DEF BranchesOK
<1>2. CASE branches' = removeFromCache(rm)
  BY <1>2 DEF removeFromCache, BranchesOK, Branch, Delete
<1> QED
  BY <1>1, <1>2 DEF Advance

\* Storing a block appends the child of the last stored one: the walk of
\* maintain and the end of the database are linked (chain.go:355-399).
LEMMA FlushStepInv == Inv /\ FlushStep => Inv'
<1> SUFFICES ASSUME Inv, FlushStep PROVE Inv'
  OBVIOUS
<1>1. UNCHANGED <<longestBranch, lastHeight, PassiveChangeNotify, round,
                  restarts>>
  BY DEF FlushStep
<1>2. iter \in Obj /\ heap \in [Obj -> Block] /\ Anchored(iter) /\ pc = "flush"
  BY DEF FlushStep, Inv, TypeOK, OpOK
<1>3. CASE Release /\ UNCHANGED <<heap, branches, oldestBlock, db, proc>>
  <2>1. BranchesOK' /\ OpOK'
    BY <1>1, <1>3 DEF Release, Inv, TypeOK, BranchesOK, OpOK
  <2>2. TypeOK'
    BY <1>1, <1>3, <2>1 DEF Release, Inv, TypeOK
  <2> QED
    BY <1>3, <2>2 DEF Release, Inv, Links, StoredInDb, Anchored, DbLinked, DbDepth
<1>4. CASE proc' = "store" /\ UNCHANGED <<heap, branches, oldestBlock, db, opVars>>
  <2>1. BranchesOK' /\ OpOK'
    BY <1>1, <1>4 DEF opVars, Inv, TypeOK, BranchesOK, OpOK
  <2>2. TypeOK'
    BY <1>1, <1>4, <2>1 DEF opVars, Inv, TypeOK
  <2> QED
    BY <1>4, <2>2 DEF opVars, Inv, Links, StoredInDb, Anchored, DbLinked, DbDepth
<1>5. CASE /\ \/ heap[iter].stored /\ UNCHANGED db
              \/ ~heap[iter].stored /\ PutBlock(iter)
           /\ \E child \in heap[iter].fordward : Advance(iter, child)
           /\ UNCHANGED <<pc, batch, br, local, proc>>
  <2>1. PICK child \in heap[iter].fordward : Advance(iter, child)
    BY <1>5
  <2>2. child \in Obj
    BY <1>2, <2>1 DEF Block
  <2>3. /\ heap' \in [Obj -> Block]
        /\ heap'[iter].stored = TRUE
        /\ \A q \in Obj : /\ heap'[q].height = heap[q].height
                          /\ q # iter => heap'[q].stored = heap[q].stored
                          /\ heap'[q].fordward \subseteq heap[q].fordward
    BY <1>2, <2>1, <2>2, AdvanceHeap
  <2>4. iter' = child /\ oldestBlock' \in {child, oldestBlock}
    BY <2>1 DEF Advance
  <2>5. /\ db' \in Seq(Hash) /\ db' # <<>> /\ Len(db') >= Len(db)
        /\ \A i \in 1 .. Len(db) : db'[i] = db[i]
        /\ heap[iter].height \in 1 .. Len(db')
        /\ db'[heap[iter].height] = iter[1]
        /\ DbLinked' /\ DbDepth'
    <3>0. db \in Seq(Hash) /\ db # <<>> /\ iter[1] \in Hash
      BY <1>2 DEF Inv, TypeOK, Obj
    <3>1. CASE heap[iter].stored /\ UNCHANGED db
      BY <1>2, <3>0, <3>1 DEF Inv, StoredInDb, DbLinked, DbDepth
    <3>2. CASE ~heap[iter].stored /\ PutBlock(iter)
      <4>1. /\ iter[1] # Genesis /\ heap[iter].height = Len(db) + 1
            /\ db' = Append(db, iter[1]) /\ db[Len(db)] = Parent[iter[1]]
        BY <1>2, <3>0, <3>2 DEF Anchored, PutBlock
      <4>2. /\ db' \in Seq(Hash) /\ Len(db') = Len(db) + 1 /\ Len(db) \in Nat
            /\ Len(db) # 0
            /\ db'[Len(db) + 1] = iter[1]
            /\ \A i \in 1 .. Len(db) : db'[i] = db[i]
        BY <3>0, <4>1
      <4>3. DbLinked'
        BY <4>1, <4>2 DEF Inv, DbLinked
      <4>4. DbDepth'
        BY <3>0, <4>1, <4>2, TreeAssumption DEF Inv, DbDepth
      <4> QED
        BY <4>1, <4>2, <4>3, <4>4
    <3> QED
      BY <1>5, <3>1, <3>2
  <2>6. BranchesOK' /\ OpOK'
    <3>1. BranchesOK'
      BY <1>1, <1>2, <2>1, <2>2, AdvanceBranches DEF Inv, TypeOK
    <3> QED
      BY <1>2, <1>5, <2>2, <2>4, <3>1 DEF Inv, TypeOK, OpOK
  <2>7. TypeOK'
    BY <1>1, <1>5, <2>2, <2>3, <2>4, <2>5, <2>6 DEF Inv, TypeOK
  <2>8. Links'
    BY <1>2, <2>3 DEF Inv, Links, Block
  <2>9. StoredInDb'
    <3> SUFFICES ASSUME NEW q \in Obj, heap'[q].stored
                 PROVE  /\ heap'[q].height \in 1 .. Len(db')
                        /\ db'[heap'[q].height] = q[1]
      BY DEF StoredInDb
    <3>1. CASE q = iter
      BY <2>3, <2>5, <3>1
    <3>2. CASE q # iter
      BY <2>3, <2>5, <3>2 DEF Inv, TypeOK, StoredInDb
    <3> QED
      BY <3>1, <3>2
  <2>10. Anchored(child)'
    <3>1. /\ heap[child].height = heap[iter].height + 1 /\ child[1] # Genesis
          /\ Parent[child[1]] = iter[1]
      BY <1>2, <2>1 DEF Inv, Links
    <3> QED
      BY <1>2, <2>2, <2>3, <2>5, <3>1 DEF Anchored, Block
  <2>11. Anchored(oldestBlock)'
    <3>1. CASE oldestBlock' = child
      BY <2>10, <3>1 DEF Anchored
    <3>2. CASE oldestBlock' = oldestBlock
      BY <1>2, <2>3, <2>5, <3>2 DEF Inv, TypeOK, Anchored
    <3> QED
      BY <2>4, <3>1, <3>2
  <2>12. Anchored(iter)'
    BY <2>4, <2>10 DEF Anchored
  <2> QED
    BY <2>5, <2>7, <2>8, <2>9, <2>11, <2>12 DEF Inv
<1> QED
  BY <1>3, <1>4, <1>5 DEF FlushStep

\* The height that initFromDB gives to a loaded block is its place in the
\* database, which is its depth, so no two places compete.
LEMMA LoadedHeight ==
  ASSUME Inv, NEW lo \in 1 .. Len(db), NEW i \in lo .. Len(db)
  PROVE  Loaded(lo, <<db[i], 1>>) =
           [height |-> i, stored |-> TRUE,
            backward |-> IF i = lo THEN Nil ELSE <<db[i-1], 1>>,
            fordward |-> IF i = Len(db) THEN {} ELSE {<<db[i+1], 1>>}]
<1> DEFINE place == CHOOSE j \in lo .. Len(db) : db[j] = db[i]
<1>1. place \in lo .. Len(db) /\ db[place] = db[i]
  OBVIOUS
<1>2. Len(db) \in Nat
  BY DEF Inv, TypeOK
<1>3. place = i
  BY <1>1, <1>2 DEF Inv, DbDepth
<1> QED
  BY <1>3 DEF Loaded

\* The process that initFromDB builds from the database satisfies the invariant
\* (chain.go:282-317).
LEMMA RestartInv == Inv /\ Restart => Inv'
<1> SUFFICES ASSUME Inv, Restart PROVE Inv'
  OBVIOUS
<1> DEFINE lo == IF Len(db) > RefBlocks THEN Len(db) - RefBlocks ELSE 1
           objs == {<<db[i], 1>> : i \in lo .. Len(db)}
<1>1. /\ db \in Seq(Hash) /\ Len(db) \in Nat /\ Len(db) # 0
      /\ lo \in 1 .. Len(db) /\ lo \in Nat
  BY BoundAssumption DEF Inv, TypeOK
<1>2. \A i \in 1 .. Len(db) : db[i] \in Hash /\ <<db[i], 1>> \in Obj
  BY <1>1, BoundAssumption DEF Obj
<1>3. /\ heap' = [o \in Obj |-> IF o \in objs THEN Loaded(lo, o) ELSE FreeBlock]
      /\ branches' = [b \in {1} |->
           [head |-> <<db[Len(db)], 1>>, cache |-> objs,
            evds |-> UNION {Evds[db[i]] : i \in lo .. Len(db)}]]
      /\ oldestBlock' = <<db[lo], 1>> /\ longestBranch' = 1 /\ lastHeight' = lo
      /\ PassiveChangeNotify' = FALSE
      /\ Release /\ round' = NoHash /\ proc' = "up" /\ UNCHANGED db
      /\ restarts < MaxRestarts /\ restarts' = restarts + 1
  BY DEF Restart, initFromDB
<1> HIDE DEF lo
<1> DEFINE rec(i) ==
             [height |-> i, stored |-> TRUE,
              backward |-> IF i = lo THEN Nil ELSE <<db[i-1], 1>>,
              fordward |-> IF i = Len(db) THEN {} ELSE {<<db[i+1], 1>>}]
<1>4. \A i \in lo .. Len(db) : heap'[<<db[i], 1>>] = rec(i)
  BY <1>1, <1>2, <1>3, LoadedHeight
<1>a. \A i \in lo .. Len(db) :
        /\ rec(i).height = i /\ rec(i).stored
        /\ rec(i).fordward = IF i = Len(db) THEN {} ELSE {<<db[i+1], 1>>}
  OBVIOUS
<1>b. ASSUME NEW i \in lo .. Len(db) PROVE rec(i) \in Block
  <2>1. /\ i \in Nat
        /\ (IF i = lo THEN Nil ELSE <<db[i-1], 1>>) \in Obj \cup {Nil}
        /\ (IF i = Len(db) THEN {} ELSE {<<db[i+1], 1>>}) \in SUBSET Obj
    BY <1>1, <1>2
  <2> QED
    BY <2>1 DEF Block
<1> HIDE DEF rec
<1>5. \A o \in Obj \ objs : heap'[o] = FreeBlock
  BY <1>3
<1>6. ASSUME NEW o \in Obj
      PROVE  \/ heap'[o] = FreeBlock
             \/ \E i \in lo .. Len(db) : o = <<db[i], 1>>
  BY <1>5
<1>7. heap' \in [Obj -> Block]
  <2>1. ASSUME NEW o \in Obj PROVE heap'[o] \in Block
    <3>1. CASE heap'[o] = FreeBlock
      BY <3>1 DEF FreeBlock, Block
    <3>2. CASE \E i \in lo .. Len(db) : o = <<db[i], 1>>
      BY <1>4, <1>b, <3>2
    <3> QED
      BY <1>6, <3>1, <3>2
  <2> QED
    BY <1>3, <2>1
<1>8. TypeOK'
  <2>1. objs \in SUBSET Obj
    BY <1>1, <1>2
  <2>2. UNION {Evds[db[i]] : i \in lo .. Len(db)} \in SUBSET Evidence
    BY <1>1, <1>2, BatchAssumption
  <2>3. <<db[Len(db)], 1>> \in Obj /\ <<db[lo], 1>> \in Obj
    BY <1>1, <1>2
  <2> HIDE DEF objs
  <2>4. BranchesOK'
    BY <1>3, <2>1, <2>2, <2>3, BoundAssumption DEF BranchesOK, Branch, BranchIds
  <2>5. OpOK'
    BY <1>3 DEF Release, OpOK
  <2>6. restarts' \in 0 .. MaxRestarts
    BY <1>3, BoundAssumption DEF Inv, TypeOK
  <2>7. PassiveChangeNotify' \in BOOLEAN /\ local' \in BOOLEAN
    BY <1>3 DEF Release
  <2> QED
    BY <1>1, <1>3, <1>7, <2>3, <2>4, <2>5, <2>6, <2>7 DEF Inv, TypeOK
<1>9. Links'
  <2> SUFFICES ASSUME NEW o \in Obj, NEW p \in heap'[o].fordward
               PROVE  /\ heap'[p].height = heap'[o].height + 1
                      /\ p[1] # Genesis /\ Parent[p[1]] = o[1]
    BY DEF Links
  <2>1. heap'[o] # FreeBlock
    BY DEF FreeBlock
  <2>2. PICK i \in lo .. Len(db) : o = <<db[i], 1>>
    BY <1>6, <2>1
  <2>3. i \in Nat /\ i # Len(db) /\ p = <<db[i+1], 1>> /\ heap'[o].height = i
    <3>1. heap'[o] = rec(i) /\ i \in Nat
      BY <1>1, <1>4, <2>2
    <3>2. p \in rec(i).fordward
      BY <3>1
    <3> QED
      BY <1>a, <3>1, <3>2
  <2>4. i + 1 \in lo .. Len(db) /\ i + 1 \in 2 .. Len(db) /\ (i + 1) - 1 = i
    BY <1>1, <2>2, <2>3
  <2>5. heap'[p].height = i + 1
    BY <1>4, <1>a, <2>3, <2>4
  <2>6. db[i+1] # Genesis /\ Parent[db[i+1]] = db[i]
    BY <2>4 DEF Inv, DbLinked
  <2> QED
    BY <2>2, <2>3, <2>5, <2>6
<1>10. StoredInDb'
  <2> SUFFICES ASSUME NEW o \in Obj, heap'[o].stored
               PROVE  /\ heap'[o].height \in 1 .. Len(db)
                      /\ db[heap'[o].height] = o[1]
    BY <1>3 DEF StoredInDb
  <2>1. PICK i \in lo .. Len(db) : o = <<db[i], 1>>
    BY <1>6 DEF FreeBlock
  <2>2. heap'[o].height = i
    BY <1>4, <1>a, <2>1
  <2> QED
    BY <1>1, <2>1, <2>2
<1>11. Anchored(oldestBlock)'
  <2>1. heap'[<<db[lo], 1>>].stored
    <3>1. lo \in lo .. Len(db)
      BY <1>1
    <3>2. heap'[<<db[lo], 1>>] = rec(lo) /\ rec(lo).stored
      BY <1>4, <1>a, <3>1
    <3> QED
      BY <3>2
  <2> QED
    BY <1>3, <2>1 DEF Anchored
<1> QED
  BY <1>3, <1>8, <1>9, <1>10, <1>11 DEF Inv, Release, DbLinked, DbDepth

\* A step that changes nothing preserves the invariant.
LEMMA StutterInv == Inv /\ UNCHANGED vars => Inv'
<1> SUFFICES ASSUME Inv, UNCHANGED vars PROVE Inv'
  OBVIOUS
<1>1. TypeOK'
  BY DEF vars, chainVars, opVars, Inv, TypeOK, BranchesOK, OpOK
<1> QED
  BY <1>1 DEF vars, chainVars, opVars, Inv, Links, StoredInDb, Anchored,
              DbLinked, DbDepth

\* The invariant holds in every reachable state.
THEOREM Invariance == Spec => []Inv
<1>1. Init => Inv
  BY InitInv
<1>2. Inv /\ [Next]_vars => Inv'
  BY AddRemoteInv, AddNextInv, AddDoneInv, MaintainBeginInv, PruneStepInv,
     RemoveStepInv, FlushStepInv, MinerInv, MinedInv, RestartInv, StutterInv
  DEF Next
<1> QED
  BY <1>1, <1>2, PTL DEF Spec

\* Every variable keeps its type; no step of the code follows a pointer that
\* is not an object.
THEOREM TypeCorrect == Spec => []TypeOK
<1>1. Inv => TypeOK
  BY DEF Inv
<1> QED
  BY <1>1, Invariance, PTL

\* The blocks stored form a chain from the genesis block, although PutBlock
\* never compares a block with its predecessor.
THEOREM StoredChain == Spec => []DbLinked
<1>1. Inv => DbLinked
  BY DEF Inv
<1> QED
  BY <1>1, Invariance, PTL

-----------------------------------------------------------------------------
(* Refinement *)

\* A step leaves the database alone or appends a child of its last block.
LEMMA DbStep ==
  ASSUME Inv, [Next]_vars
  PROVE  \/ UNCHANGED db
         \/ \E h \in Hash \ {Genesis} : /\ Parent[h] = db[Len(db)]
                                       /\ db' = Append(db, h)
<1>1. CASE FlushStep /\ ~heap[iter].stored /\ PutBlock(iter)
  <2>1. iter \in Obj /\ Anchored(iter) /\ db \in Seq(Hash)
    BY <1>1 DEF FlushStep, Inv, TypeOK, OpOK
  <2>2. /\ iter[1] \in Hash \ {Genesis} /\ Parent[iter[1]] = db[Len(db)]
        /\ db' = Append(db, iter[1])
    BY <1>1, <2>1 DEF Anchored, PutBlock, Obj
  <2> QED
    BY <2>2
<1>2. CASE UNCHANGED db
  BY <1>2
<1>3. FlushStep => UNCHANGED db \/ (~heap[iter].stored /\ PutBlock(iter))
  BY DEF FlushStep
<1>4. AddRemote \/ Mined => UNCHANGED db
  BY DEF AddRemote, Mined, addBlocks
<1>5. \/ AddNext \/ AddDone \/ MaintainBegin \/ PruneStep \/ RemoveStep
      \/ StartRound \/ Interrupted \/ MinedInVain \/ Restart \/ UNCHANGED vars
      => UNCHANGED db
  BY DEF AddNext, AddDone, MaintainBegin, PruneStep, RemoveStep, StartRound,
         Interrupted, MinedInVain, Restart, vars
<1> QED
  BY <1>1, <1>2, <1>3, <1>4, <1>5 DEF Next

\* The chain with its cache, forks and restarts implements the append-only
\* ledger of stored blocks.
THEOREM LedgerRefinement == Spec => RefinesLedger
<1>1. Init => Stored!Init
  BY DEF Init, Stored!Init
<1>2. Inv /\ [Next]_vars => [Stored!Next]_db
  BY DbStep DEF Stored!Next, Stored!Extend
<1> QED
  BY <1>1, <1>2, Invariance, PTL DEF Spec, Stored!Spec, RefinesLedger

-----------------------------------------------------------------------------
(* The longest chain rule *)

\* lastHeight may be out of date, but never too large.
NotAhead == lastHeight <= Height(longestBranch)

\* The heights of heads that do not move are left alone.
LEMMA HeightsKept ==
  ASSUME Inv, NotAhead, UNCHANGED <<longestBranch, lastHeight>>,
         branches'[longestBranch].head = branches[longestBranch].head,
         \A o \in Obj : heap'[o].height = heap[o].height
  PROVE  NotAhead'
  BY DEF NotAhead, Height, Inv, TypeOK, BranchesOK, Branch

\* add makes one branch one block higher and leaves the others alone.
LEMMA AddHeights ==
  ASSUME Inv, NEW h \in Hash, NEW b \in DOMAIN branches, add(b, h)
  PROVE  /\ DOMAIN branches' = DOMAIN branches
         /\ heap'[branches'[b].head].height = Height(b) + 1
         /\ \A c \in DOMAIN branches \ {b} :
              /\ branches'[c].head = branches[c].head
              /\ heap'[branches'[c].head].height = Height(c)
<1> DEFINE o == NewObj(h)
           oldHead == branches[b].head
<1>1. /\ oldHead \in Obj /\ heap \in [Obj -> Block]
      /\ branches \in [DOMAIN branches -> Branch]
  BY DEF Inv, TypeOK, BranchesOK, Branch
<1>2. o \in Obj /\ ~Referenced(o)
  BY NewObjFresh DEF add
<1>3. \A c \in DOMAIN branches : o # branches[c].head
  BY <1>2 DEF Referenced
<1>4. /\ heap' = [heap EXCEPT ![oldHead].fordward = Store(@, o),
                 ![o] = [height |-> heap[oldHead].height + 1, stored |-> FALSE,
                         backward |-> oldHead, fordward |-> {}]]
      /\ branches' = [branches EXCEPT ![b] =
                 [head |-> o, cache |-> Store(@.cache, o),
                  evds |-> @.evds \cup Evds[h]]]
  BY DEF add, Height
<1> HIDE DEF o, oldHead
<1>5. \A q \in Obj \ {o} : heap'[q].height = heap[q].height
  BY <1>1, <1>2, <1>4 DEF Block
<1>6. heap'[o].height = heap[oldHead].height + 1
  BY <1>1, <1>2, <1>4
<1>7. /\ DOMAIN branches' = DOMAIN branches /\ branches'[b].head = o
      /\ \A c \in DOMAIN branches \ {b} : branches'[c] = branches[c]
  BY <1>1, <1>4
<1>8. \A c \in DOMAIN branches : branches[c].head \in Obj
  BY <1>1 DEF Branch
<1> QED
  BY <1>3, <1>5, <1>6, <1>7, <1>8 DEF Height, oldHead

\* No step makes lastHeight larger than the height of the longest branch:
\* maintain and pruning keep the head, adding raises it, a switch sets both and a
\* restart leaves lastHeight at its first block (chain.go:487-498).
LEMMA NotAheadStep == Inv /\ Inv' /\ NotAhead /\ [Next]_vars => NotAhead'
<1> SUFFICES ASSUME Inv, Inv', NotAhead, [Next]_vars PROVE NotAhead'
  OBVIOUS
<1>0. /\ longestBranch \in DOMAIN branches /\ heap \in [Obj -> Block]
      /\ branches \in [DOMAIN branches -> Branch]
      /\ lastHeight \in Nat /\ Height(longestBranch) \in Nat
  BY DEF Inv, TypeOK, BranchesOK, Height, Branch, Block
<1>1. ASSUME NEW blocks, NEW isLocal, addBlocks(blocks, isLocal) PROVE NotAhead'
  <2>1. CASE UNCHANGED branches
    BY <1>1, <2>1, HeightsKept DEF addBlocks
  <2>2. CASE createBranch(blocks[1])
    <3>1. PICK id \in BranchIds : \E begin :
            /\ IsNew(id)
            /\ branches' = [c \in DOMAIN branches \cup {id} |->
                              IF c = id THEN newBranch(begin) ELSE branches[c]]
      BY <2>2 DEF createBranch
    <3>2. id # longestBranch
      BY <1>0, <3>1 DEF IsNew, BranchIds, Inv, TypeOK, BranchesOK
    <3>3. branches'[longestBranch] = branches[longestBranch]
      BY <1>0, <3>1, <3>2
    <3> QED
      BY <1>1, <3>3, HeightsKept DEF addBlocks
  <2> QED
    BY <1>1, <2>1, <2>2 DEF addBlocks
<1>2. CASE AddNext
  <2>1. CASE UNCHANGED <<heap, branches>>
    BY <1>2, <2>1, HeightsKept DEF AddNext
  <2>2. CASE "ok" \in verifyBlock(br, Head(batch)) /\ add(br, Head(batch))
    <3>1. Head(batch) \in Hash /\ br \in DOMAIN branches
      BY <1>0, <1>2 DEF AddNext, Inv, TypeOK, OpOK
    <3>2. UNCHANGED <<longestBranch, lastHeight>>
      BY <1>2 DEF AddNext
    <3>3. Height(longestBranch)' \in {Height(longestBranch), Height(longestBranch) + 1}
      BY <1>0, <2>2, <3>1, <3>2, AddHeights DEF Height
    <3> QED
      BY <1>0, <3>2, <3>3 DEF NotAhead
  <2> QED
    BY <1>2, <2>1, <2>2 DEF AddNext
<1>3. CASE AddDone
  <2>1. UNCHANGED <<heap, branches>>
    BY <1>3 DEF AddDone
  <2>2. CASE UNCHANGED <<longestBranch, lastHeight>>
    BY <2>1, <2>2, HeightsKept
  <2>3. CASE lastHeight' = Height(longestBranch')
    <3>1. lastHeight' \in Nat
      BY DEF Inv, TypeOK
    <3> QED
      BY <2>1, <2>3, <3>1 DEF NotAhead, Height
  <2> QED
    BY <1>3, <2>2, <2>3 DEF AddDone, notifyCheck
<1>4. CASE \/ MaintainBegin \/ StartRound \/ Interrupted \/ MinedInVain
           \/ UNCHANGED vars
  BY <1>4, HeightsKept DEF MaintainBegin, StartRound, Interrupted, MinedInVain,
                           vars, chainVars
<1>5. CASE PruneStep
  <2>1. UNCHANGED <<heap, longestBranch, lastHeight>>
    BY <1>5 DEF PruneStep
  <2>2. longestBranch \in DOMAIN branches'
    BY <2>1 DEF Inv, TypeOK, BranchesOK
  <2>3. branches'[longestBranch] = branches[longestBranch]
    BY <1>5, <2>2 DEF PruneStep
  <2> QED
    BY <2>1, <2>3, HeightsKept
<1>6. CASE RemoveStep
  <2>1. UNCHANGED <<branches, longestBranch, lastHeight>> /\ iter \in Obj
    BY <1>6 DEF RemoveStep, Inv, TypeOK, OpOK
  <2>2. \A o \in Obj : heap'[o].height = heap[o].height
    <3>1. CASE UNCHANGED heap
      BY <3>1
    <3>2. CASE /\ heap[iter].backward # Nil
               /\ heap' = [heap EXCEPT
                     ![heap[iter].backward].fordward = Delete(@, iter),
                     ![iter].backward = Nil]
      <4>1. heap[iter].backward \in Obj
        BY <1>0, <2>1, <3>2 DEF Block
      <4> QED
        BY <1>0, <2>1, <3>2, <4>1 DEF Block
    <3> QED
      BY <1>6, <3>1, <3>2 DEF RemoveStep
  <2> QED
    BY <2>1, <2>2, HeightsKept
<1>7. CASE FlushStep
  <2>1. UNCHANGED <<longestBranch, lastHeight>> /\ iter \in Obj
    BY <1>7 DEF FlushStep, Inv, TypeOK, OpOK
  <2>2. CASE UNCHANGED <<heap, branches>>
    BY <2>1, <2>2, HeightsKept
  <2>3. CASE \E child \in heap[iter].fordward : Advance(iter, child)
    <3>1. PICK child \in heap[iter].fordward : Advance(iter, child)
      BY <2>3
    <3>2. child \in Obj
      BY <1>0, <2>1, <3>1 DEF Block
    <3>3. \A o \in Obj : heap'[o].height = heap[o].height
      BY <1>0, <2>1, <3>1, <3>2, AdvanceHeap
    <3>4. branches'[longestBranch].head = branches[longestBranch].head
      BY <1>0, <3>1 DEF Advance, removeFromCache
    <3> QED
      BY <2>1, <3>3, <3>4, HeightsKept
  <2> QED
    BY <1>7, <2>2, <2>3 DEF FlushStep
<1>8. CASE Restart
  <2> DEFINE lo == IF Len(db) > RefBlocks THEN Len(db) - RefBlocks ELSE 1
             last == Len(db)
             objs == {<<db[i], 1>> : i \in lo .. last}
  <2>1. /\ lo \in 1 .. last /\ last \in lo .. last
        /\ lastHeight' = lo /\ longestBranch' = 1
        /\ branches'[1].head = <<db[last], 1>>
        /\ heap' = [o \in Obj |-> IF o \in objs THEN Loaded(lo, o) ELSE FreeBlock]
    BY <1>8, BoundAssumption DEF Restart, initFromDB, Inv, TypeOK
  <2>2. <<db[last], 1>> \in Obj /\ <<db[last], 1>> \in objs
    BY <2>1, BoundAssumption DEF Inv, TypeOK, Obj
  <2> HIDE DEF objs
  <2>4. heap'[<<db[last], 1>>] = Loaded(lo, <<db[last], 1>>)
    BY <2>1, <2>2
  <2>5. Loaded(lo, <<db[last], 1>>).height = last
    <3> DEFINE rec == [height |-> last, stored |-> TRUE,
                       backward |-> IF last = lo THEN Nil ELSE <<db[last-1], 1>>,
                       fordward |-> IF last = Len(db) THEN {} ELSE {<<db[last+1], 1>>}]
    <3>1. Loaded(lo, <<db[last], 1>>) = rec
      <4> HIDE DEF lo
      <4> QED BY <2>1, LoadedHeight
    <3>2. rec.height = last
      OBVIOUS
    <3> HIDE DEF rec
    <3> QED
      BY <3>1, <3>2
  <2>3. heap'[<<db[last], 1>>].height = last
    BY <2>4, <2>5
  <2> HIDE DEF lo, last
  <2> QED
    BY <2>1, <2>3 DEF NotAhead, Height
<1>9. AddRemote \/ Mined => NotAhead'
  BY <1>1 DEF AddRemote, Mined
<1> QED
  BY <1>2, <1>3, <1>4, <1>5, <1>6, <1>7, <1>8, <1>9 DEF Next

\* Both are the height of the genesis block at first (initGenesis).
LEMMA NotAheadInit == Init => NotAhead
<1> SUFFICES ASSUME Init PROVE NotAhead
  OBVIOUS
<1>1. <<Genesis, 1>> \in Obj
  BY TreeAssumption, BoundAssumption DEF Obj
<1> QED
  BY <1>1 DEF Init, NotAhead, Height, FreeBlock

\* So it never is.
LEMMA NotAheadInvariant == Spec => []NotAhead
<1>1. Init => NotAhead
  BY NotAheadInit
<1>2. Inv /\ Inv' /\ NotAhead /\ [Next]_vars => NotAhead'
  BY NotAheadStep
<1> QED
  BY <1>1, <1>2, Invariance, PTL DEF Spec

\* Whenever the blocks of a peer have been added, the branch that is mined on
\* is as high as any other.
THEOREM LongestChain == Spec => LongestChainRule
<1>1. Spec => []NotAhead
  BY NotAheadInvariant
<1> DEFINE A == (pc = "add" /\ batch = <<>> /\ ~local /\ pc' = "idle") =>
       \A b \in DOMAIN branches' : Height(b)' <= Height(longestBranch)'
<1>2. Inv /\ Inv' /\ NotAhead /\ [Next]_vars => [A]_vars
  <2> SUFFICES ASSUME Inv, Inv', NotAhead, Next, pc = "add", batch = <<>>, ~local,
                      pc' = "idle", NEW b \in DOMAIN branches'
               PROVE  Height(b)' <= Height(longestBranch)'
    OBVIOUS
  <2>1. Height(longestBranch)' \in Nat
    BY DEF Inv, TypeOK, BranchesOK, Height, Branch, Block
  <2>2. CASE AddDone
    <3>1. UNCHANGED <<heap, branches>> /\ notifyCheck
      BY <2>2 DEF AddDone
    <3>2. PICK m \in getLongestBranch :
            IF Height(m) > lastHeight THEN longestBranch' = m
            ELSE UNCHANGED longestBranch
      BY <3>1 DEF notifyCheck
    <3>3. /\ m \in DOMAIN branches /\ Height(b) <= Height(m)
          /\ Height(b) \in Nat /\ Height(m) \in Nat
          /\ Height(longestBranch) \in Nat /\ lastHeight \in Nat
      BY <3>1, <3>2 DEF getLongestBranch, Inv, TypeOK, BranchesOK, Height, Branch,
                        Block
    <3>4. Height(b) <= Height(longestBranch')
      BY <3>2, <3>3 DEF NotAhead
    <3> QED
      BY <3>1, <3>4 DEF Height
  <2>3. CASE Restart
    <3>1. b = longestBranch'
      BY <2>3 DEF Restart, initFromDB
    <3> QED
      BY <2>1, <3>1
  <2>4. Next => AddDone \/ Restart
    BY DEF Next, AddRemote, Mined, addBlocks, AddNext, MaintainBegin, PruneStep,
           RemoveStep, FlushStep, StartRound, Interrupted, MinedInVain, Idle
  <2> QED
    BY <2>2, <2>3, <2>4
<1> QED
  BY <1>1, <1>2, Invariance, PTL DEF Spec, LongestChainRule

-----------------------------------------------------------------------------
(* The miner follows the longest branch *)

\* The rest of a peer's batch is dropped: chain.go:424 returns without
\* notifyCheck, although blocks before the bad one may have been added.
Refusal == /\ pc = "add" /\ ~local /\ batch # <<>>
           /\ pc' = "idle" /\ UNCHANGED restarts

\* A round without a notification builds on the head of the longest branch,
\* or on the one before the blocks that are being added: the height of these
\* will make notifyCheck notify. While an own block is added there is no round.
Followed ==
  /\ pc = "add" /\ local => round = NoHash
  /\ round # NoHash /\ ~PassiveChangeNotify =>
       \/ round = HeadHash(longestBranch)
       \/ pc = "add" /\ Height(longestBranch) > lastHeight

\* Steps other than adding that leave the head of the longest branch alone.
LEMMA HeadKept ==
  ASSUME Followed, pc # "add",
         UNCHANGED <<longestBranch, PassiveChangeNotify, round, local>>,
         branches'[longestBranch].head = branches[longestBranch].head,
         pc' = "add" => ~local
  PROVE  Followed'
  BY DEF Followed, HeadHash

\* Only a refused batch can leave the miner behind.
LEMMA FollowedStep ==
  ASSUME Inv, Inv', NotAhead, Followed, [Next]_vars, [~Refusal]_vars
  PROVE  Followed'
<1>0. /\ longestBranch \in DOMAIN branches
      /\ lastHeight \in Nat /\ Height(longestBranch) \in Nat
  BY DEF Inv, TypeOK, BranchesOK, Height, Branch, Block
<1>1. CASE AddRemote
  <2>1. PICK blocks \in Batches : addBlocks(blocks, FALSE)
    BY <1>1 DEF AddRemote
  <2>2. /\ pc = "idle" /\ ~local'
        /\ UNCHANGED <<longestBranch, PassiveChangeNotify, round>>
    BY <1>1, <2>1 DEF AddRemote, addBlocks, Idle
  <2>3. branches'[longestBranch].head = branches[longestBranch].head
    <3>1. CASE createBranch(blocks[1])
      <4>1. PICK id \in BranchIds : \E begin :
              /\ IsNew(id)
              /\ branches' = [c \in DOMAIN branches \cup {id} |->
                                IF c = id THEN newBranch(begin) ELSE branches[c]]
        BY <3>1 DEF createBranch
      <4>2. id # longestBranch
        BY <1>0, <4>1 DEF IsNew, BranchIds, Inv, TypeOK, BranchesOK
      <4> QED
        BY <1>0, <4>1, <4>2
    <3> QED
      BY <2>1, <3>1 DEF addBlocks
  <2> QED
    BY <2>2, <2>3 DEF Followed, HeadHash
<1>2. CASE Mined \/ MinedInVain \/ Restart
  BY <1>2 DEF Mined, MinedInVain, Restart, Followed
<1>3. CASE AddNext
  <2>1. pc = "add" /\ UNCHANGED <<longestBranch, lastHeight, PassiveChangeNotify, round>>
    BY <1>3 DEF AddNext
  <2>2. CASE add(br, Head(batch)) /\ UNCHANGED <<pc, local>>
    <3>1. Head(batch) \in Hash /\ br \in DOMAIN branches
      BY <1>3 DEF AddNext, Inv, TypeOK, OpOK
    <3>2. \/ /\ branches'[longestBranch].head = branches[longestBranch].head
             /\ heap'[branches'[longestBranch].head].height = Height(longestBranch)
          \/ heap'[branches'[longestBranch].head].height = Height(longestBranch) + 1
      BY <1>0, <2>2, <3>1, AddHeights
    <3>3. /\ Height(longestBranch)' = heap'[branches'[longestBranch].head].height
          /\ HeadHash(longestBranch)' = branches'[longestBranch].head[1]
      BY <2>1 DEF Height, HeadHash
    <3>4. \/ /\ HeadHash(longestBranch)' = HeadHash(longestBranch)
             /\ Height(longestBranch)' = Height(longestBranch)
          \/ Height(longestBranch)' > lastHeight'
      BY <1>0, <2>1, <3>2, <3>3 DEF HeadHash, NotAhead
    <3> QED
      BY <2>1, <2>2, <3>4 DEF Followed
  <2>3. CASE Release
    <3>1. local
      <4>1. pc' = "idle" /\ batch # <<>> /\ UNCHANGED restarts
        BY <1>3, <2>3 DEF AddNext, Release
      <4>2. ~(UNCHANGED vars)
        BY <2>1, <4>1 DEF vars, opVars
      <4>3. ~Refusal
        BY <4>2
      <4> QED
        BY <2>1, <4>1, <4>3 DEF Refusal
    <3> QED
      BY <2>1, <2>3, <3>1 DEF Followed, Release
  <2>4. CASE UNCHANGED <<heap, branches, opVars>>
    BY <2>1, <2>4 DEF Followed, opVars, HeadHash, Height
  <2> QED
    BY <1>3, <2>2, <2>3, <2>4 DEF AddNext
<1>4. CASE AddDone
  <2>1. /\ pc = "add" /\ pc' = "idle"
        /\ UNCHANGED <<heap, branches, round>>
    BY <1>4 DEF AddDone, Release
  <2>2. CASE local
    BY <2>1, <2>2 DEF Followed
  <2>3. CASE ~local
    <3>1. PICK b \in getLongestBranch :
            IF Height(b) > lastHeight THEN PassiveChangeNotify' = TRUE
            ELSE UNCHANGED <<longestBranch, lastHeight, PassiveChangeNotify>>
      BY <1>4, <2>3 DEF AddDone, notifyCheck
    <3>2. CASE Height(b) > lastHeight
      BY <2>1, <3>1, <3>2 DEF Followed
    <3>3. CASE ~(Height(b) > lastHeight)
      <4>1. Height(longestBranch) <= Height(b) /\ Height(b) \in Nat
        BY <1>0 DEF getLongestBranch, Inv, TypeOK, BranchesOK, Height, Branch, Block
      <4>2. ~(Height(longestBranch) > lastHeight)
        BY <1>0, <3>3, <4>1
      <4> QED
        BY <2>1, <3>1, <3>3, <4>2 DEF Followed, HeadHash
    <3> QED
      BY <3>2, <3>3
  <2> QED
    BY <2>2, <2>3
<1>5. CASE MaintainBegin
  BY <1>5, HeadKept DEF MaintainBegin, Idle, chainVars
<1>6. CASE PruneStep
  <2>1. /\ pc = "prune" /\ pc' # "add"
        /\ UNCHANGED <<longestBranch, PassiveChangeNotify, round, local>>
    BY <1>6 DEF PruneStep
  <2>2. longestBranch \in DOMAIN branches'
    BY <2>1 DEF Inv, TypeOK, BranchesOK
  <2>3. branches'[longestBranch] = branches[longestBranch]
    BY <1>6, <2>2 DEF PruneStep
  <2> QED
    BY <2>1, <2>3, HeadKept
<1>7. CASE RemoveStep
  <2>1. /\ pc = "remove" /\ pc' # "add"
        /\ UNCHANGED <<longestBranch, PassiveChangeNotify, round, local, branches>>
    BY <1>7 DEF RemoveStep
  <2> QED
    BY <2>1, HeadKept
<1>8. CASE FlushStep
  <2>1. /\ pc = "flush" /\ pc' # "add"
        /\ UNCHANGED <<longestBranch, PassiveChangeNotify, round>>
    BY <1>8 DEF FlushStep, Release, opVars
  <2>2. branches'[longestBranch].head = branches[longestBranch].head
    <3>1. CASE UNCHANGED branches
      BY <3>1
    <3>2. CASE \E child \in heap[iter].fordward : Advance(iter, child)
      BY <1>0, <3>2 DEF Advance, removeFromCache
    <3> QED
      BY <1>8, <3>1, <3>2 DEF FlushStep
  <2> QED
    BY <2>1, <2>2 DEF Followed, HeadHash
<1>9. CASE StartRound \/ Interrupted
  BY <1>9 DEF StartRound, Interrupted, NewRound, Idle, Followed, HeadHash, chainVars, opVars
<1>10. CASE UNCHANGED vars
  BY <1>10 DEF vars, chainVars, opVars, Followed, HeadHash, Height
<1> QED
  BY <1>1, <1>2, <1>3, <1>4, <1>5, <1>6, <1>7, <1>8, <1>9, <1>10 DEF Next

\* As long as no batch of a peer is refused, a round that nothing interrupts
\* builds on the head of the longest branch (chain.go:487-498, scheduler.go:81-86),
\* however late notifyCheck runs and however far lastHeight lags behind.
THEOREM MinerFollows == Spec /\ [][~Refusal]_vars => []MinerNotStale
<1>1. Init => Followed
  BY DEF Init, Followed
<1>2. Inv /\ Inv' /\ NotAhead /\ Followed /\ [Next]_vars /\ [~Refusal]_vars => Followed'
  BY FollowedStep
<1>3. Followed => MinerNotStale
  BY DEF Followed, MinerNotStale, Idle
<1> QED
  BY <1>1, <1>2, <1>3, Invariance, NotAheadInvariant, PTL DEF Spec

-----------------------------------------------------------------------------
(***************************************************************************)
(* Proofs about the pointers of Chain: the objects of the block cache form *)
(* a tree that hangs from oldestBlock, and every branch has the path from  *)
(* its head to that root in its cache.                                     *)
(*                                                                         *)
(* They hold as long as no fork stays without a block: one whose first     *)
(* block is refused leaves a branch that ends inside another one, and a    *)
(* second object for a block may then take the place of the first.         *)
(***************************************************************************)

\* addBlocks gives up a fork before its first block: verifyBlock refuses it.
DeadFork == /\ restarts' = restarts /\ pc = "add" /\ pc' = "idle"
            /\ heap[branches[br].head].fordward # {}

\* The references of two objects to each other come and go together.
Mutual == \A o, p \in Obj : p \in heap[o].fordward <=> heap[p].backward = o

\* The children of an object have different hashes.
Keyed == \A o \in Obj : \A p, q \in heap[o].fordward : p[1] = q[1] => p = q

\* Only the oldest block has nothing behind it, among the objects with a child.
Grounded ==
  /\ heap[oldestBlock].backward = Nil
  /\ \A o \in Obj : heap[o].backward \in Obj =>
       heap[o].backward = oldestBlock \/ heap[heap[o].backward].backward \in Obj

\* The cache C of a branch with this head is one path from it to oldestBlock.
IsPath(C, head) ==
  /\ C \subseteq Obj /\ head \in C /\ oldestBlock \in C
  /\ \A o \in C : heap[o].height = Depth[o[1]] /\ heap[o].height <= heap[head].height
  /\ \A o \in C : o = oldestBlock \/ heap[o].backward \in C
  /\ \A o \in C : o = head \/ \E q \in C : heap[q].backward = o
  /\ \A o, p \in C : heap[o].height = heap[p].height => o = p

Paths == \A b \in DOMAIN branches : IsPath(branches[b].cache, branches[b].head)

\* A branch knows the evidence of its cache, which has none twice.
IsEvds(E, C) ==
  /\ E = UNION {Evds[h] : h \in Hashes(C)}
  /\ \A o, p \in C : o # p => Evds[o[1]] \cap Evds[p[1]] = {}

EvdsKnown == \A b \in DOMAIN branches : IsEvds(branches[b].evds, branches[b].cache)

\* Branches end in different leaves, but for a fork that gets its first block.
Tips ==
  /\ \A b, c \in DOMAIN branches : branches[b].head = branches[c].head => b = c
  /\ \A b \in DOMAIN branches :
       \/ heap[branches[b].head].fordward = {}
       \/ /\ pc = "add" /\ b = br /\ batch # <<>>
          /\ Head(batch) \notin Hashes(heap[branches[b].head].fordward)

\* The object that remove looks at is not the end of a branch.
Removing ==
  pc = "remove" => /\ \A b \in DOMAIN branches : branches[b].head # iter
                   /\ iter = oldestBlock \/ heap[iter].backward \in Obj

\* The object that the flush looks at is on every branch. Behind the first
\* one that stays, all stay.
Flushing ==
  pc = "flush" => /\ \A b \in DOMAIN branches : iter \in branches[b].cache
                  /\ iter = oldestBlock \/ ~Evictable(iter)

Tree ==
  /\ Mutual /\ Keyed /\ Grounded
  /\ Paths /\ EvdsKnown /\ Tips
  /\ Removing /\ Flushing

-----------------------------------------------------------------------------
(* What holds when forks branch off within alpha, and after a restart above *)
(* what is stored                                                           *)

NewFork == pc = "idle" /\ pc' = "add" /\ DOMAIN branches' # DOMAIN branches

\* The block that a fork begins at.
Base == heap[branches'[br'].head].height

LateFork == NewFork /\ Base + Alpha < Height(longestBranch)

\* Only a process that was restarted has a longest branch that ends in the
\* database.
StoredFork == NewFork /\ restarts > 0 /\ Base < Len(db)

\* The cache reaches far enough back, from the longest branch or, when it was
\* loaded, from the end of the database.
Deep ==
  \/ heap[oldestBlock].height = 1
  \/ /\ \/ Height(longestBranch) > heap[oldestBlock].height + SyncMax
        \/ Len(db) >= heap[oldestBlock].height + RefBlocks
     /\ \A b \in DOMAIN branches :
          Height(b) >= heap[oldestBlock].height + RefBlocks

\* What is in the database is marked, and is below alpha until a restart.
Flushed ==
  /\ \A b \in DOMAIN branches :
       /\ Height(b) >= Len(db)
       /\ \A o \in branches[b].cache : heap[o].height <= Len(db) => heap[o].stored
  /\ restarts > 0 \/ Len(db) = 1 \/ Len(db) + Alpha < Height(longestBranch)

Close ==
  pc = "flush" =>
    \A b \in DOMAIN branches : Height(longestBranch) <= Height(b) + Alpha

Sound == proc = "up" /\ Deep /\ Flushed /\ Close
-----------------------------------------------------------------------------
(* Following backward references *)

\* The backward reference of a child is its parent, one lower.
Down ==
  \A o, p \in Obj : heap[o].backward = p =>
    /\ heap[o].height = heap[p].height + 1
    /\ o[1] # Genesis /\ Parent[o[1]] = p[1]

\* Forward references lead to children, so backward ones lead to parents.
LEMMA TreeDown == Links /\ Mutual => Down
  BY DEF Links, Mutual, Down

\* No object is nil.
LEMMA NilNoObj == Nil \notin Obj
  BY DEF Nil, Obj

\* An object behind another one, or nothing.
LEMMA BackType ==
  ASSUME heap \in [Obj -> Block], NEW o \in Obj
  PROVE  /\ heap[o].backward \in Obj \/ heap[o].backward = Nil
         /\ heap[o].height \in Nat /\ heap[o].fordward \subseteq Obj
  BY DEF Block

\* One turn of the walk back.
Wider(X) == X \cup ({heap[p].backward : p \in X} \ {Nil})

\* The sets of objects met after each turn, from o on.
IsWalk(w, o) ==
  /\ w \in [Nat -> SUBSET Obj] /\ w[0] = {o}
  /\ \A n \in Nat : w[n + 1] = Wider(w[n])

\* BackPath is the walk after as many turns as the object is high.
LEMMA WalkBack ==
  ASSUME heap \in [Obj -> Block], NEW o \in Obj
  PROVE  \E w : IsWalk(w, o) /\ BackPath(o) = w[heap[o].height]
<1> DEFINE S == SUBSET Obj
           F == [X \in S |-> Wider(X)]
           IsRec(f) == f = [n \in Nat |-> IF n = 0 THEN {o} ELSE
                              f[n-1] \cup ({heap[p].backward : p \in f[n-1]} \ {Nil})]
           w == CHOOSE f : IsRec(f)
<1>1. F \in [S -> S]
  <2> SUFFICES ASSUME NEW X \in S PROVE Wider(X) \in S
    OBVIOUS
  <2>1. \A p \in X : heap[p].backward \in Obj \cup {Nil}
    BY BackType
  <2> QED
    BY <2>1 DEF Wider
<1>2. IsRec(w)
  <2>1. PICK f : IsIterate(f, S, F, {o})
    <3>1. PICK a \in S : a = {o}
      OBVIOUS
    <3> HIDE DEF S, F
    <3>2. \E f : IsIterate(f, S, F, a)
      BY <1>1, Iterates
    <3> QED
      BY <3>1, <3>2
  <2>2. f \in [Nat -> S] /\ f[0] = {o} /\ \A n \in Nat : f[n + 1] = F[f[n]]
    <3> HIDE DEF S, F
    <3> QED
      BY <2>1 DEF IsIterate
  <2>3. ASSUME NEW n \in Nat
        PROVE  f[n] = IF n = 0 THEN {o} ELSE
                        f[n-1] \cup ({heap[p].backward : p \in f[n-1]} \ {Nil})
    <3>1. CASE n = 0
      BY <2>2, <3>1
    <3>2. CASE n # 0
      <4>1. PICK j \in Nat : j = n - 1
        BY <3>2
      <4>2. n = j + 1
        BY <4>1
      <4>3. f[n] = F[f[j]] /\ f[j] \in S
        <5> HIDE DEF S, F
        <5> QED
          BY <2>2, <4>2
      <4>4. F[f[j]] = Wider(f[j])
        <5> HIDE DEF S
        <5> QED
          BY <4>3
      <4>5. f[n] = Wider(f[j])
        BY <4>3, <4>4
      <4> QED
        BY <3>2, <4>1, <4>5 DEF Wider
    <3> QED
      BY <3>1, <3>2
  <2>4. IsRec(f)
    BY <2>2, <2>3
  <2> HIDE DEF IsRec
  <2> QED
    BY <2>4
<1>3. BackPath(o) = {p \in Obj : p \in w[heap[o].height]}
  BY DEF BackPath
<1> HIDE DEF w
<1>4. \A n \in Nat : w[n] = IF n = 0 THEN {o} ELSE
                        w[n-1] \cup ({heap[p].backward : p \in w[n-1]} \ {Nil})
  BY <1>2
<1>5. w[0] = {o} /\ \A n \in Nat : w[n + 1] = Wider(w[n])
  <2>1. ASSUME NEW n \in Nat PROVE w[n + 1] = Wider(w[n])
    <3>1. PICK j \in Nat : j = n + 1
      OBVIOUS
    <3>2. j # 0 /\ j - 1 = n
      BY <3>1
    <3>3. w[j] = w[j-1] \cup ({heap[p].backward : p \in w[j-1]} \ {Nil})
      BY <1>4, <3>2
    <3> QED
      BY <3>1, <3>2, <3>3 DEF Wider
  <2> QED
    BY <1>4, <2>1
<1>6. \A n \in Nat : w[n] \subseteq Obj
  <2> DEFINE T == {n \in Nat : w[n] \subseteq Obj}
  <2>1. 0 \in T
    BY <1>5
  <2>2. ASSUME NEW n \in Nat, n \in T PROVE n + 1 \in T
    <3>1. w[n] \in S
      BY <2>2
    <3>2. F[w[n]] = Wider(w[n]) /\ F[w[n]] \in S
      <4> HIDE DEF S
      <4> QED
        BY <1>1, <3>1
    <3>3. w[n + 1] \subseteq Obj
      BY <1>5, <3>2
    <3> QED
      BY <3>3
  <2> HIDE DEF T
  <2>3. Nat \subseteq T
    BY <2>1, <2>2, SetInduction
  <2> QED
    BY <2>3 DEF T
<1>7. w \in [Nat -> SUBSET Obj]
  <2>1. w = [n \in Nat |-> w[n]]
    BY <1>2
  <2> QED
    BY <1>6, <2>1
<1>8. heap[o].height \in Nat
  BY BackType
<1>9. BackPath(o) = w[heap[o].height]
  BY <1>3, <1>6, <1>8
<1> HIDE DEF IsRec
<1>10. IsWalk(w, o)
  BY <1>5, <1>7 DEF IsWalk
<1> QED
  BY <1>9, <1>10

\* P is the least set that has o and what is behind its members.
IsLeast(P, o) ==
  /\ P \subseteq Obj /\ o \in P
  /\ \A p \in P : heap[p].backward \in Obj => heap[p].backward \in P
  /\ \A X \in SUBSET Obj :
       o \in X /\ (\A p \in X : heap[p].backward \in Obj => heap[p].backward \in X)
         => P \subseteq X

\* The walk is not cut short by the number of its turns: each turn leads one
\* lower.
LEMMA BackPathLeast ==
  ASSUME heap \in [Obj -> Block], Down, NEW o \in Obj
  PROVE  IsLeast(BackPath(o), o)
<1>1. PICK w : IsWalk(w, o) /\ BackPath(o) = w[heap[o].height]
  BY WalkBack
<1>2. PICK H \in Nat : H = heap[o].height
  BY BackType
<1>3. w \in [Nat -> SUBSET Obj] /\ w[0] = {o} /\ \A n \in Nat : w[n + 1] = Wider(w[n])
  BY <1>1 DEF IsWalk
<1>4. \A n \in Nat : w[n] \subseteq w[n + 1]
  BY <1>3 DEF Wider
<1> DEFINE Level(n) == \A p \in w[n] : \E k \in 0 .. n : p \in w[k] /\ heap[p].height + k = H
           T == {n \in Nat : Level(n)}
<1>5. 0 \in T
  <2>1. 0 \in 0 .. 0 /\ heap[o].height + 0 = H
    BY <1>2
  <2> QED
    BY <1>3, <2>1
<1>6. ASSUME NEW n \in Nat, n \in T PROVE n + 1 \in T
  <2> SUFFICES ASSUME NEW p \in w[n + 1]
               PROVE  \E k \in 0 .. n + 1 : p \in w[k] /\ heap[p].height + k = H
    OBVIOUS
  <2>1. CASE p \in w[n]
    <3>1. PICK k \in 0 .. n : p \in w[k] /\ heap[p].height + k = H
      BY <1>6, <2>1
    <3>2. k \in 0 .. n + 1
      BY <3>1
    <3> QED
      BY <3>1, <3>2
  <2>2. CASE p \notin w[n]
    <3>0. p \in Wider(w[n])
      BY <1>3
    <3>1. PICK q \in w[n] : p = heap[q].backward /\ p # Nil
      BY <2>2, <3>0 DEF Wider
    <3>2. q \in Obj /\ p \in Obj
      BY <1>3, <3>1, BackType
    <3>3. heap[q].height = heap[p].height + 1 /\ heap[p].height \in Nat
      BY <3>1, <3>2, BackType DEF Down
    <3>4. PICK k \in 0 .. n : q \in w[k] /\ heap[q].height + k = H
      BY <1>6, <3>1
    <3>5. k + 1 \in 0 .. n + 1 /\ heap[p].height + (k + 1) = H
      BY <3>3, <3>4
    <3>6. p \in w[k + 1]
      BY <1>3, <3>1, <3>4 DEF Wider
    <3> QED
      BY <3>5, <3>6
  <2> QED
    BY <2>1, <2>2
<1>7. \A n \in Nat : Level(n)
  <2> HIDE DEF Level
  <2>1. Nat \subseteq T
    <3> HIDE DEF T
    <3> QED
      BY <1>5, <1>6, SetInduction
  <2> QED
    BY <2>1
<1>8. ASSUME NEW k \in Nat PROVE \A m \in Nat : k <= m => w[k] \subseteq w[m]
  <2> DEFINE U == {i \in Nat : w[k] \subseteq w[k + i]}
  <2>1. 0 \in U
    OBVIOUS
  <2>2. ASSUME NEW i \in Nat, i \in U PROVE i + 1 \in U
    <3>1. PICK j \in Nat : j = k + i
      OBVIOUS
    <3>2. j + 1 = k + (i + 1) /\ w[k] \subseteq w[j] /\ w[j] \subseteq w[j + 1]
      BY <1>4, <2>2, <3>1
    <3> QED
      BY <3>2
  <2> HIDE DEF U
  <2>3. Nat \subseteq U
    BY <2>1, <2>2, SetInduction
  <2> TAKE m \in Nat
  <2> HAVE k <= m
  <2>4. m - k \in Nat
    OBVIOUS
  <2>5. PICK i \in Nat : i = m - k
    BY <2>4, Zenon
  <2>6. k + i = m
    BY <2>5
  <2> QED
    BY <2>3, <2>6 DEF U
<1> DEFINE P == w[H]
<1>9. P \subseteq Obj /\ o \in P
  <2>1. 0 <= H /\ w[0] \subseteq w[H]
    BY <1>8
  <2> QED
    BY <1>3, <2>1
<1>10. ASSUME NEW p \in P, heap[p].backward \in Obj PROVE heap[p].backward \in P
  <2>1. PICK k \in 0 .. H : p \in w[k] /\ heap[p].height + k = H
    BY <1>7
  <2>2. PICK q \in Obj : q = heap[p].backward
    BY <1>10
  <2>3. heap[p].height = heap[q].height + 1 /\ heap[q].height \in Nat
    BY <1>9, <2>2, BackType DEF Down
  <2>4. k + 1 \in Nat /\ k + 1 <= H /\ k \in Nat
    BY <2>1, <2>3
  <2>5. q \in w[k + 1]
    BY <1>3, <2>1, <2>2, <2>4, NilNoObj DEF Wider
  <2>6. w[k + 1] \subseteq w[H]
    BY <1>8, <2>4
  <2> QED
    BY <2>2, <2>5, <2>6
<1>11. ASSUME NEW X \in SUBSET Obj, o \in X,
              \A p \in X : heap[p].backward \in Obj => heap[p].backward \in X
       PROVE  P \subseteq X
  <2> DEFINE U == {n \in Nat : w[n] \subseteq X}
  <2>1. 0 \in U
    BY <1>3, <1>11
  <2>2. ASSUME NEW n \in Nat, n \in U PROVE n + 1 \in U
    <3>1. \A p \in w[n] : p \in X /\ (heap[p].backward \in X \/ heap[p].backward = Nil)
      BY <1>11, <2>2, BackType
    <3>2. Wider(w[n]) \subseteq X
      BY <3>1 DEF Wider
    <3> QED
      BY <1>3, <3>2
  <2> HIDE DEF U
  <2>3. Nat \subseteq U
    BY <2>1, <2>2, SetInduction
  <2> QED
    BY <2>3 DEF U
<1>12. BackPath(o) = P
  BY <1>1, <1>2
<1> HIDE DEF P
<1>13. IsLeast(P, o)
  BY <1>9, <1>10, <1>11 DEF IsLeast
<1> QED
  BY <1>12, <1>13

\* A set of objects that is not empty has a lowest one.
LEMMA Lowest ==
  ASSUME heap \in [Obj -> Block], NEW S \in SUBSET Obj, S # {}
  PROVE  \E p \in S : \A q \in S : heap[p].height <= heap[q].height
<1> SUFFICES ASSUME \A p \in S : \E q \in S : ~(heap[p].height <= heap[q].height)
             PROVE  FALSE
  OBVIOUS
<1> DEFINE T == {n \in Nat : \A p \in S : heap[p].height > n}
<1>1. \A p \in S : heap[p].height \in Nat
  BY BackType
<1>2. \A p \in S : \E q \in S : heap[q].height < heap[p].height
  BY <1>1
<1>3. 0 \in T
  <2> SUFFICES ASSUME NEW p \in S PROVE heap[p].height > 0
    OBVIOUS
  <2>1. PICK q \in S : heap[q].height < heap[p].height
    BY <1>2
  <2> QED
    BY <1>1, <2>1
<1>4. ASSUME NEW n \in Nat, n \in T PROVE n + 1 \in T
  <2> SUFFICES ASSUME NEW p \in S PROVE heap[p].height > n + 1
    OBVIOUS
  <2>1. PICK q \in S : heap[q].height < heap[p].height
    BY <1>2
  <2>2. heap[q].height > n
    BY <1>4
  <2> QED
    BY <1>1, <2>1, <2>2
<1> HIDE DEF T
<1>5. Nat \subseteq T
  BY <1>3, <1>4, SetInduction
<1>6. PICK p \in S : TRUE
  OBVIOUS
<1>7. heap[p].height \in T
  BY <1>1, <1>5
<1> QED
  BY <1>1, <1>7 DEF T

\* The path from a block of a branch is the lower part of the branch.
LEMMA SubPath ==
  ASSUME heap \in [Obj -> Block], Down, heap[oldestBlock].backward = Nil,
         NEW C, NEW head, IsPath(C, head), NEW o \in C
  PROVE  IsPath(BackPath(o), o) /\ BackPath(o) \subseteq C
<1>1. /\ C \subseteq Obj /\ head \in C /\ oldestBlock \in C
      /\ \A p \in C : heap[p].height = Depth[p[1]] /\ heap[p].height <= heap[head].height
      /\ \A p \in C : p = oldestBlock \/ heap[p].backward \in C
      /\ \A p, q \in C : heap[p].height = heap[q].height => p = q
  BY DEF IsPath
<1>2. PICK P : P = BackPath(o)
  OBVIOUS
<1>3. IsLeast(P, o)
  BY <1>1, <1>2, BackPathLeast
<1>4. /\ P \subseteq Obj /\ o \in P
      /\ \A p \in P : heap[p].backward \in Obj => heap[p].backward \in P
      /\ \A X \in SUBSET Obj :
           o \in X /\ (\A p \in X : heap[p].backward \in Obj => heap[p].backward \in X)
             => P \subseteq X
  BY <1>3 DEF IsLeast
<1>5. \A p \in Obj : heap[p].height \in Nat
  BY BackType
<1>6. P \subseteq C /\ \A p \in P : heap[p].height <= heap[o].height
  <2> DEFINE X == {p \in C : heap[p].height <= heap[o].height}
  <2>1. X \in SUBSET Obj /\ o \in X
    BY <1>1, <1>5
  <2>2. ASSUME NEW p \in X, heap[p].backward \in Obj PROVE heap[p].backward \in X
    <3>1. p # oldestBlock /\ p \in C /\ heap[p].height <= heap[o].height
      BY <2>2, NilNoObj
    <3>2. PICK q \in C : q = heap[p].backward
      BY <1>1, <3>1
    <3>3. heap[p].height = heap[q].height + 1
      BY <1>1, <3>1, <3>2 DEF Down
    <3>4. heap[q].height <= heap[o].height
      BY <1>1, <1>5, <3>1, <3>2, <3>3
    <3> QED
      BY <3>2, <3>4
  <2> HIDE DEF X
  <2>3. P \subseteq X
    BY <1>4, <2>1, <2>2
  <2> QED
    BY <2>3 DEF X
<1>7. \A p \in P : p = oldestBlock \/ heap[p].backward \in P
  BY <1>1, <1>4, <1>6
<1>8. oldestBlock \in P
  <2>1. PICK p \in P : \A q \in P : heap[p].height <= heap[q].height
    BY <1>4, Lowest
  <2>2. CASE heap[p].backward \in P
    <3>1. PICK q \in P : q = heap[p].backward
      BY <2>2
    <3>2. heap[p].height = heap[q].height + 1
      BY <1>4, <3>1 DEF Down
    <3> QED
      BY <1>4, <1>5, <2>1, <3>1, <3>2
  <2> QED
    BY <1>7, <2>2
<1>9. ASSUME NEW p \in P, p # o PROVE \E q \in P : heap[q].backward = p
  <2> SUFFICES ASSUME \A q \in P : heap[q].backward # p PROVE FALSE
    OBVIOUS
  <2> DEFINE X == P \ {p}
  <2>1. X \in SUBSET Obj /\ o \in X
    BY <1>4, <1>9
  <2>2. \A q \in X : heap[q].backward \in Obj => heap[q].backward \in X
    BY <1>4
  <2> HIDE DEF X
  <2>3. P \subseteq X
    BY <1>4, <2>1, <2>2
  <2> QED
    BY <2>3 DEF X
<1>10. IsPath(P, o)
  BY <1>1, <1>4, <1>6, <1>7, <1>8, <1>9 DEF IsPath
<1> QED
  BY <1>2, <1>6, <1>10

\* A branch's cache is the path from its head.
LEMMA PathIsBackPath ==
  ASSUME heap \in [Obj -> Block], Down, heap[oldestBlock].backward = Nil,
         NEW C, NEW head, IsPath(C, head)
  PROVE  C = BackPath(head)
<1>1. /\ C \subseteq Obj /\ head \in C
      /\ \A p \in C : heap[p].height <= heap[head].height
      /\ \A p \in C : p = head \/ \E q \in C : heap[q].backward = p
      /\ \A p, q \in C : heap[p].height = heap[q].height => p = q
  BY DEF IsPath
<1>2. PICK P : P = BackPath(head)
  OBVIOUS
<1>3. P \subseteq C /\ head \in P /\ IsLeast(P, head)
  BY <1>1, <1>2, SubPath, BackPathLeast DEF IsLeast
<1>4. \A p \in P : heap[p].backward \in Obj => heap[p].backward \in P
  BY <1>3 DEF IsLeast
<1>5. \A p \in Obj : heap[p].height \in Nat
  BY BackType
<1> DEFINE T == {n \in Nat : \A p \in C : heap[p].height + n = heap[head].height => p \in P}
<1>6. 0 \in T
  BY <1>1, <1>3, <1>5
<1>7. ASSUME NEW n \in Nat, n \in T PROVE n + 1 \in T
  <2> SUFFICES ASSUME NEW p \in C, heap[p].height + (n + 1) = heap[head].height
               PROVE  p \in P
    OBVIOUS
  <2>1. p # head /\ p \in Obj
    BY <1>1, <1>5
  <2>2. PICK q \in C : heap[q].backward = p
    BY <1>1, <2>1
  <2>3. heap[q].height = heap[p].height + 1
    BY <1>1, <2>1, <2>2 DEF Down
  <2>4. heap[q].height + n = heap[head].height
    BY <1>1, <1>5, <2>1, <2>3
  <2>5. q \in P
    BY <1>7, <2>4
  <2> QED
    BY <1>4, <2>1, <2>2, <2>5
<1>8. Nat \subseteq T
  <2> HIDE DEF T
  <2> QED
    BY <1>6, <1>7, SetInduction
<1>9. ASSUME NEW p \in C PROVE p \in P
  <2>1. heap[head].height - heap[p].height \in Nat
    BY <1>1, <1>5
  <2>2. PICK n \in Nat : n = heap[head].height - heap[p].height
    BY <2>1, Zenon
  <2>3. heap[p].height + n = heap[head].height
    BY <1>1, <1>5, <2>2
  <2> QED
    BY <1>8, <2>3
<1> QED
  BY <1>2, <1>3, <1>9

-----------------------------------------------------------------------------
(* The steps *)

\* What the invariant says about types.
LEMMA Typed ==
  ASSUME Inv
  PROVE  /\ heap \in [Obj -> Block] /\ oldestBlock \in Obj
         /\ longestBranch \in DOMAIN branches
         /\ \A b \in DOMAIN branches :
              /\ branches[b] \in Branch
              /\ branches[b].head \in Obj /\ branches[b].cache \subseteq Obj
         /\ pc = "add" => br \in DOMAIN branches
         /\ pc \in {"remove", "flush"} => iter \in Obj
         /\ batch \in Seq(Hash \ {Genesis}) /\ Links
<1>1. branches \in [DOMAIN branches -> Branch]
  BY DEF Inv, TypeOK, BranchesOK
<1>2. \A b \in DOMAIN branches :
              /\ branches[b] \in Branch
              /\ branches[b].head \in Obj /\ branches[b].cache \subseteq Obj
  BY <1>1 DEF Branch
<1> QED
  BY <1>2 DEF Inv, TypeOK, BranchesOK, OpOK

\* A step that leaves the objects alone leaves every path a path.
LEMMA PathsFrame ==
  ASSUME UNCHANGED <<heap, oldestBlock>>
  PROVE  /\ \A C, head : IsPath(C, head) => IsPath(C, head)'
         /\ Mutual => Mutual'
         /\ Keyed => Keyed'
         /\ Grounded => Grounded'
  BY DEF IsPath, Mutual, Keyed, Grounded

\* A step that touches one object leaves every path without it a path.
LEMMA PathFrame ==
  ASSUME oldestBlock' = oldestBlock, NEW x, NEW C \in SUBSET Obj, NEW head, x \notin C,
         \A q \in Obj : q # x => /\ heap'[q].height = heap[q].height
                                 /\ heap'[q].backward = heap[q].backward,
         IsPath(C, head)
  PROVE  IsPath(C, head)'
<1>1. head \in C
  BY DEF IsPath
<1>2. \A q \in C : /\ heap'[q].height = heap[q].height
                   /\ heap'[q].backward = heap[q].backward
  OBVIOUS
<1> QED
  BY <1>1, <1>2 DEF IsPath

\* Steps that change neither the objects nor the branches.
LEMMA QuietStep ==
  ASSUME Tree, UNCHANGED <<heap, oldestBlock, branches>>,
         \/ pc' \notin {"remove", "flush"} /\ pc # "add"
         \/ UNCHANGED <<pc, batch, br, iter, longestBranch>>
  PROVE  Tree'
<1>1. Mutual' /\ Keyed' /\ Grounded' /\ Paths'
  BY PathsFrame DEF Tree, Paths
<1>2. EvdsKnown'
  BY DEF Tree, EvdsKnown, IsEvds
<1>3. CASE pc' \notin {"remove", "flush"} /\ pc # "add"
  BY <1>1, <1>2, <1>3 DEF Tree, Tips, Removing, Flushing
<1>4. CASE UNCHANGED <<pc, batch, br, iter, longestBranch>>
  BY <1>1, <1>2, <1>4 DEF Tree, Tips, Removing, Flushing, Evictable, Height
<1> QED
  BY <1>3, <1>4

\* A part of a path has part of its evidence, and none twice.
LEMMA EvdsPart ==
  ASSUME NEW C, NEW P \in SUBSET C, NEW E, IsEvds(E, C)
  PROVE  IsEvds(UNION {Evds[h] : h \in Hashes(P)}, P)
  BY DEF IsEvds

\* The beginning of addBlocks: a fork gets the path from the block it leaves.
LEMMA AddBlocksTree ==
  ASSUME Inv, Tree, NEW blocks \in Seq(Hash \ {Genesis}), blocks # <<>>,
         NEW isLocal, addBlocks(blocks, isLocal)
  PROVE  Tree'
<1> DEFINE found == getBranch(Parent[blocks[1]])
           h == blocks[1]
<1>1. /\ pc = "idle" /\ pc' = "add" /\ batch' = blocks /\ UNCHANGED <<heap, oldestBlock>>
  BY DEF addBlocks, Idle
<1>2. Mutual' /\ Keyed' /\ Grounded' /\ \A C, head : IsPath(C, head) => IsPath(C, head)'
  BY <1>1, PathsFrame DEF Tree
<1>3. Removing' /\ Flushing'
  BY <1>1 DEF Removing, Flushing
<1>4. /\ \A b, c \in DOMAIN branches : branches[b].head = branches[c].head => b = c
      /\ \A b \in DOMAIN branches : heap[branches[b].head].fordward = {}
  BY <1>1 DEF Tree, Tips
<1>5. CASE UNCHANGED branches
  <2>1. Paths' /\ EvdsKnown'
    BY <1>2, <1>5 DEF Tree, Paths, EvdsKnown, IsEvds
  <2>2. Tips'
    BY <1>1, <1>4, <1>5 DEF Tips
  <2> QED
    BY <1>2, <1>3, <2>1, <2>2 DEF Tree
<1>6. CASE found = {} /\ createBranch(h)
  <2>1. PICK b \in Forkable(h), id \in BranchIds :
          /\ IsNew(id) /\ br' = id
          /\ branches' = [c \in DOMAIN branches \cup {id} |->
                            IF c = id THEN newBranch(getBlock(b, Parent[h]))
                            ELSE branches[c]]
    BY <1>6 DEF createBranch
  <2>2. PICK match : match = getBlock(b, Parent[h])
    OBVIOUS
  <2>3. b \in DOMAIN branches /\ b \in Holding(Parent[h]) /\ ~isBackwardOf(match, h)
    BY <2>2 DEF Forkable, IsFirst
  <2>4. match \in branches[b].cache /\ match[1] = Parent[h]
    <3>1. \E o \in branches[b].cache : o[1] = Parent[h]
      BY <2>3 DEF Holding, Hashes
    <3> QED
      BY <2>2, <3>1 DEF getBlock
  <2>5. PICK P : P = BackPath(match)
    OBVIOUS
  <2>6. IsPath(P, match) /\ P \subseteq branches[b].cache
    <3>1. IsPath(branches[b].cache, branches[b].head) /\ heap[oldestBlock].backward = Nil
      BY <2>3 DEF Tree, Paths, Grounded
    <3>2. Down /\ heap \in [Obj -> Block]
      BY TreeDown, Typed DEF Tree
    <3> QED
      BY <2>4, <2>5, <3>1, <3>2, SubPath
  <2>7. PICK new : new = newBranch(match)
    OBVIOUS
  <2>8. /\ new.head = match /\ new.cache = P
        /\ new.evds = UNION {Evds[g] : g \in Hashes(P)}
    BY <2>5, <2>7 DEF newBranch
  <2>9. IsEvds(new.evds, new.cache)
    BY <2>3, <2>6, <2>8, EvdsPart DEF Tree, EvdsKnown
  <2>10. id \notin DOMAIN branches
    BY <2>1, Typed DEF IsNew, Inv, TypeOK, BranchesOK, BranchIds
  <2>11. /\ DOMAIN branches' = DOMAIN branches \cup {id} /\ branches'[id] = new
         /\ \A c \in DOMAIN branches : branches'[c] = branches[c]
    BY <2>1, <2>2, <2>7, <2>10
  <2>12. Paths'
    BY <1>2, <2>6, <2>8, <2>11 DEF Tree, Paths
  <2>13. EvdsKnown'
    BY <2>9, <2>11 DEF Tree, EvdsKnown, IsEvds
  <2>14. \A c \in DOMAIN branches : branches[c].head # match
    BY <1>6, <2>4 DEF getBranch, HeadHash
  <2>15. Head(batch') \notin Hashes(heap'[match].fordward) /\ batch' # <<>>
    BY <1>1, <2>3 DEF isBackwardOf
  <2>16. Tips'
    <3>1. \A c, d \in DOMAIN branches' : branches'[c].head = branches'[d].head => c = d
      BY <1>4, <2>8, <2>11, <2>14
    <3>2. ASSUME NEW c \in DOMAIN branches'
          PROVE  \/ heap'[branches'[c].head].fordward = {}
                 \/ /\ pc' = "add" /\ c = br' /\ batch' # <<>>
                    /\ Head(batch') \notin Hashes(heap'[branches'[c].head].fordward)
      BY <1>1, <1>4, <2>1, <2>8, <2>11, <2>15
    <3> QED
      BY <3>1, <3>2 DEF Tips
  <2> QED
    BY <1>2, <1>3, <2>12, <2>13, <2>16 DEF Tree
<1> QED
  BY <1>5, <1>6 DEF addBlocks

\* The objects after a block o was hung under the object last.
Hung(o, last, height) ==
  /\ \A q \in Obj : q # o => /\ heap'[q].height = heap[q].height
                             /\ heap'[q].backward = heap[q].backward
                             /\ heap'[q].stored = heap[q].stored
  /\ \A q \in Obj : q # o /\ q # last => heap'[q].fordward = heap[q].fordward
  /\ heap'[last].fordward = Store(heap[last].fordward, o)
  /\ heap'[o].height = height + 1 /\ heap'[o].backward = last
  /\ heap'[o].stored = FALSE /\ heap'[o].fordward = {}

\* add of branch.go hangs a new object under the head.
LEMMA AddHeap ==
  ASSUME heap \in [Obj -> Block], NEW b, branches[b].head \in Obj,
         NEW h, NEW o \in Obj, o = NewObj(h), o # branches[b].head, add(b, h)
  PROVE  Hung(o, branches[b].head, heap[branches[b].head].height)
<1>1. PICK last \in Obj : last = branches[b].head
  OBVIOUS
<1>2. heap' = [heap EXCEPT
            ![last].fordward = Store(@, o),
            ![o] = [height |-> heap[last].height + 1, stored |-> FALSE,
                    backward |-> last, fordward |-> {}]]
  BY <1>1 DEF add, Height
<1> QED
  BY <1>1, <1>2 DEF Hung, Block

\* An object without references is the end of no reference.
LEMMA Unreferenced ==
  ASSUME NEW o, ~Referenced(o)
  PROVE  /\ o # oldestBlock
         /\ \A b \in DOMAIN branches : o # branches[b].head /\ o \notin branches[b].cache
         /\ \A q \in Obj : o \notin heap[q].fordward /\ heap[q].backward # o
  BY DEF Referenced

\* The heights on a path are the depths of its blocks, so that a child of
\* its head is not on it.
LEMMA ChildNotOnPath ==
  ASSUME NEW C, NEW head, IsPath(C, head), heap \in [Obj -> Block],
         NEW h \in Hash \ {Genesis}, Parent[h] = head[1], NEW p \in C
  PROVE  p[1] # h /\ Depth[h] = heap[head].height + 1
<1>1. /\ head \in C /\ heap[p].height = Depth[p[1]] /\ heap[p].height <= heap[head].height
      /\ heap[head].height = Depth[head[1]] /\ C \subseteq Obj
  BY DEF IsPath
<1>2. Depth[h] = heap[head].height + 1 /\ heap[head].height \in Nat
  BY <1>1, BackType, TreeAssumption
<1> QED
  BY <1>1, <1>2

\* A block hung under the head makes the path longer by one.
LEMMA PathLonger ==
  ASSUME heap \in [Obj -> Block], oldestBlock' = oldestBlock, NEW C, NEW head,
         IsPath(C, head), NEW o \in Obj, o \notin C, o[1] \in Hash \ {Genesis},
         Parent[o[1]] = head[1], Hung(o, head, heap[head].height),
         \A q \in Obj : heap[q].backward # o
  PROVE  Store(C, o) = C \cup {o} /\ IsPath(C \cup {o}, o)'
<1>1. /\ C \subseteq Obj /\ head \in C /\ oldestBlock \in C
      /\ \A p \in C : heap[p].height = Depth[p[1]] /\ heap[p].height <= heap[head].height
      /\ \A p \in C : p = oldestBlock \/ heap[p].backward \in C
      /\ \A p \in C : p = head \/ \E q \in C : heap[q].backward = p
      /\ \A p, q \in C : heap[p].height = heap[q].height => p = q
  BY DEF IsPath
<1>2. /\ \A p \in C : p[1] # o[1]
      /\ Depth[o[1]] = heap[head].height + 1
  BY <1>1, ChildNotOnPath
<1>3. Store(C, o) = C \cup {o}
  BY <1>2 DEF Store
<1>4. /\ \A p \in C : /\ heap'[p].height = heap[p].height
                      /\ heap'[p].backward = heap[p].backward
                      /\ heap[p].height \in Nat
      /\ heap'[o].height = heap[head].height + 1 /\ heap'[o].backward = head
  BY <1>1, BackType DEF Hung
<1>5. PICK D : D = C \cup {o}
  OBVIOUS
<1>6. \A p \in D : heap'[p].height = Depth[p[1]] /\ heap'[p].height <= heap'[o].height
  BY <1>1, <1>2, <1>4, <1>5
<1>7. \A p \in D : p = oldestBlock \/ heap'[p].backward \in D
  BY <1>1, <1>4, <1>5
<1>8. \A p \in D : p = o \/ \E q \in D : heap'[q].backward = p
  BY <1>1, <1>4, <1>5
<1>9. \A p, q \in D : heap'[p].height = heap'[q].height => p = q
  BY <1>1, <1>4, <1>5
<1>10. IsPath(D, o)'
  BY <1>1, <1>5, <1>6, <1>7, <1>8, <1>9 DEF IsPath
<1> QED
  BY <1>3, <1>5, <1>10

\* The new block has no evidence that the branch knows.
LEMMA EvdsLonger ==
  ASSUME NEW C, NEW E, IsEvds(E, C), NEW o, \A e \in Evds[o[1]] : e \notin E
  PROVE  IsEvds(E \cup Evds[o[1]], C \cup {o})
<1>1. \A p \in C : Evds[p[1]] \subseteq E /\ Evds[p[1]] \cap Evds[o[1]] = {}
  BY DEF IsEvds, Hashes
<1>2. E \cup Evds[o[1]] = UNION {Evds[h] : h \in Hashes(C \cup {o})}
  BY DEF IsEvds, Hashes
<1> QED
  BY <1>1, <1>2 DEF IsEvds

\* To look at the caches after a step, one branch at a time.
LEMMA CachesAfter ==
  ASSUME NEW f, f = branches',
         \A b \in DOMAIN f : IsPath(f[b].cache, f[b].head)' /\ IsEvds(f[b].evds, f[b].cache)
  PROVE  Paths' /\ EvdsKnown'
<1>1. Paths'
  BY DEF Paths
<1>2. EvdsKnown'
  BY DEF EvdsKnown, IsEvds
<1> QED
  BY <1>1, <1>2

\* One turn of the loop of addBlocks.
LEMMA AddTree ==
  ASSUME Inv, Tree, pc = "add", batch # <<>>, UNCHANGED <<pc, br, oldestBlock>>,
         batch' = Tail(batch), "ok" \in verifyBlock(br, Head(batch)),
         add(br, Head(batch))
  PROVE  Tree'
<1>1. PICK h : h = Head(batch)
  OBVIOUS
<1>2. PICK last : last = branches[br].head
  OBVIOUS
<1>3. PICK C : C = branches[br].cache
  OBVIOUS
<1>4. /\ heap \in [Obj -> Block] /\ br \in DOMAIN branches /\ last \in Obj /\ C \subseteq Obj
      /\ oldestBlock \in Obj /\ Links
      /\ \A b \in DOMAIN branches : branches[b].head \in Obj /\ branches[b].cache \subseteq Obj
  BY <1>2, <1>3, Typed
<1>5. h \in Hash \ {Genesis}
  BY <1>1, Typed
<1>6. last[1] = Parent[h] /\ \A e \in Evds[h] : e \notin branches[br].evds
  BY <1>1, <1>2 DEF verifyBlock, verifyEvidence, HeadHash
<1>7. PICK o : o = NewObj(h)
  OBVIOUS
<1>8. o \in Obj /\ ~Referenced(o) /\ o[1] = h
  BY <1>1, <1>5, <1>7, NewObjFresh DEF add
<1>9. /\ o # oldestBlock /\ o # last
      /\ \A b \in DOMAIN branches : o # branches[b].head /\ o \notin branches[b].cache
      /\ \A q \in Obj : o \notin heap[q].fordward /\ heap[q].backward # o
  BY <1>2, <1>4, <1>8, Unreferenced
<1>10. Hung(o, last, heap[last].height)
  BY <1>1, <1>2, <1>4, <1>7, <1>8, <1>9, AddHeap
<1>11. Mutual /\ Keyed /\ Grounded /\ Paths /\ EvdsKnown /\ Tips
  BY DEF Tree
<1>12. \A q \in heap[last].fordward : q[1] # h
  BY <1>1, <1>2, <1>4, <1>11 DEF Tips, Hashes
<1>13. heap'[last].fordward = heap[last].fordward \cup {o}
  BY <1>8, <1>10, <1>12 DEF Hung, Store
<1>14. Mutual'
  <2> SUFFICES ASSUME NEW x \in Obj, NEW p \in Obj
               PROVE  p \in heap'[x].fordward <=> heap'[p].backward = x
    BY DEF Mutual
  <2>1. p \in heap[x].fordward <=> heap[p].backward = x
    BY <1>11 DEF Mutual
  <2>2. CASE p = o
    BY <1>4, <1>8, <1>9, <1>10, <1>13, <2>2 DEF Hung
  <2>3. CASE p # o
    BY <1>4, <1>8, <1>9, <1>10, <1>13, <2>1, <2>3 DEF Hung
  <2> QED
    BY <2>2, <2>3
<1>15. Keyed'
  <2> SUFFICES ASSUME NEW x \in Obj, NEW p \in heap'[x].fordward,
                      NEW q \in heap'[x].fordward, p[1] = q[1]
               PROVE  p = q
    BY DEF Keyed
  <2>1. CASE x = o
    BY <1>10, <2>1 DEF Hung
  <2>2. CASE x = last
    BY <1>4, <1>8, <1>11, <1>12, <1>13, <2>2 DEF Keyed
  <2>3. CASE x # o /\ x # last
    BY <1>10, <1>11, <2>3 DEF Keyed, Hung
  <2> QED
    BY <2>1, <2>2, <2>3
<1>16. Grounded'
  <2>1. heap'[oldestBlock].backward = Nil
    BY <1>4, <1>9, <1>10, <1>11 DEF Hung, Grounded
  <2>2. last = oldestBlock \/ heap[last].backward \in Obj
    BY <1>2, <1>4, <1>11 DEF Paths, IsPath
  <2>3. ASSUME NEW x \in Obj, heap'[x].backward \in Obj
        PROVE  heap'[x].backward = oldestBlock \/ heap'[heap'[x].backward].backward \in Obj
    <3>1. CASE x = o
      BY <1>4, <1>9, <1>10, <2>2, <3>1 DEF Hung
    <3>2. CASE x # o
      <4>1. PICK y \in Obj : y = heap[x].backward /\ heap'[x].backward = y
        BY <1>10, <2>3, <3>2 DEF Hung
      <4>2. y # o /\ heap'[y].backward = heap[y].backward
        BY <1>9, <1>10, <4>1 DEF Hung
      <4> QED
        BY <1>11, <4>1, <4>2 DEF Grounded
    <3> QED
      BY <3>1, <3>2
  <2> QED
    BY <2>1, <2>3 DEF Grounded
<1>17. IsPath(C, last) /\ IsEvds(branches[br].evds, C)
  BY <1>2, <1>3, <1>4, <1>11 DEF Paths, EvdsKnown
<1>18. Store(C, o) = C \cup {o} /\ IsPath(C \cup {o}, o)'
  BY <1>3, <1>4, <1>5, <1>6, <1>8, <1>9, <1>10, <1>17, PathLonger
<1>19. IsEvds(branches[br].evds \cup Evds[h], C \cup {o})
  BY <1>6, <1>8, <1>17, EvdsLonger
<1>20. /\ DOMAIN branches' = DOMAIN branches
       /\ branches'[br] = [head |-> o, cache |-> C \cup {o},
                           evds |-> branches[br].evds \cup Evds[h]]
       /\ \A b \in DOMAIN branches : b # br => branches'[b] = branches[b]
  <2>1. branches' = [branches EXCEPT ![br] =
            [head |-> o, cache |-> Store(branches[br].cache, o),
             evds |-> branches[br].evds \cup Evds[h]]]
    BY <1>1, <1>7 DEF add
  <2> QED
    BY <1>3, <1>4, <1>18, <2>1
<1>21. PICK f : f = branches'
  OBVIOUS
<1>22. ASSUME NEW b \in DOMAIN f
       PROVE  IsPath(f[b].cache, f[b].head)' /\ IsEvds(f[b].evds, f[b].cache)
  <2>1. CASE b = br
    <3>1. /\ f[b].cache = C \cup {o} /\ f[b].head = o
          /\ f[b].evds = branches[br].evds \cup Evds[h]
      BY <1>20, <1>21, <2>1
    <3>2. IsPath(f[b].cache, f[b].head)'
      BY <1>18, <3>1
    <3>3. IsEvds(f[b].evds, f[b].cache)
      BY <1>19, <3>1
    <3> QED
      BY <3>2, <3>3
  <2>2. CASE b # br
    <3>1. b \in DOMAIN branches /\ f[b] = branches[b]
      BY <1>20, <1>21, <1>22, <2>2
    <3>2. o \notin f[b].cache /\ IsPath(f[b].cache, f[b].head) /\ f[b].cache \in SUBSET Obj
      BY <1>4, <1>9, <1>11, <3>1 DEF Paths
    <3>3. IsPath(f[b].cache, f[b].head)'
      BY <1>10, <3>2, PathFrame DEF Hung
    <3>4. IsEvds(f[b].evds, f[b].cache)
      BY <1>11, <3>1 DEF EvdsKnown
    <3> QED
      BY <3>3, <3>4
  <2> QED
    BY <2>1, <2>2
<1>25. Paths' /\ EvdsKnown'
  BY <1>21, <1>22, CachesAfter
<1>23. Tips'
  <2>1. \A b, c \in DOMAIN branches' : branches'[b].head = branches'[c].head => b = c
    BY <1>9, <1>11, <1>20 DEF Tips
  <2>2. ASSUME NEW b \in DOMAIN branches' PROVE heap'[branches'[b].head].fordward = {}
    <3>1. CASE b = br
      BY <1>10, <1>20, <3>1 DEF Hung
    <3>2. CASE b # br
      <4>1. branches[b].head # last /\ heap[branches[b].head].fordward = {}
        BY <1>2, <1>4, <1>11, <1>20, <3>2 DEF Tips
      <4> QED
        BY <1>4, <1>9, <1>10, <1>20, <3>2, <4>1 DEF Hung
    <3> QED
      BY <3>1, <3>2
  <2> QED
    BY <2>1, <2>2 DEF Tips
<1>24. Removing' /\ Flushing'
  BY DEF Removing, Flushing
<1> QED
  BY <1>14, <1>15, <1>16, <1>25, <1>23, <1>24 DEF Tree

\* The lock is released when every branch ends in a leaf.
LEMMA ReleaseTree ==
  ASSUME Tree, UNCHANGED <<heap, oldestBlock, branches>>, pc' = "idle",
         \A b \in DOMAIN branches : heap[branches[b].head].fordward = {}
  PROVE  Tree'
<1>1. Mutual' /\ Keyed' /\ Grounded' /\ Paths'
  BY PathsFrame DEF Tree, Paths
<1>2. EvdsKnown'
  BY DEF Tree, EvdsKnown, IsEvds
<1> QED
  BY <1>1, <1>2 DEF Tree, Tips, Removing, Flushing

\* A block that is refused ends the operation; that the branch then ends in a
\* leaf is what a fork without a block spoils (chain.go:421-427).
LEMMA AddNextTree ==
  ASSUME Inv, Tree, AddNext, ~DeadFork
  PROVE  Tree'
<1>1. PICK verdict \in verifyBlock(br, Head(batch)) :
       \/ /\ verdict = "ok"
          /\ add(br, Head(batch))
          /\ batch' = Tail(batch)
          /\ UNCHANGED <<pc, br, local, iter, proc>>
       \/ /\ verdict \in {"early", "refused"}
          /\ Release
          /\ UNCHANGED <<heap, branches, proc>>
       \/ /\ verdict = "fatal"
          /\ proc' = "target"
          /\ UNCHANGED <<heap, branches, opVars>>
  BY DEF AddNext
<1>2. pc = "add" /\ batch # <<>> /\ UNCHANGED <<longestBranch, oldestBlock, restarts>>
  BY DEF AddNext
<1>3. CASE /\ verdict = "ok" /\ add(br, Head(batch)) /\ batch' = Tail(batch)
           /\ UNCHANGED <<pc, br, local, iter, proc>>
  BY <1>2, <1>3, AddTree
<1>4. CASE Release /\ UNCHANGED <<heap, branches, proc>>
  <2>1. pc' = "idle" /\ heap[branches[br].head].fordward = {}
    BY <1>2, <1>4 DEF Release, DeadFork
  <2>2. \A b \in DOMAIN branches : heap[branches[b].head].fordward = {}
    BY <2>1 DEF Tree, Tips
  <2> QED
    BY <1>2, <1>4, <2>1, <2>2, ReleaseTree
<1>5. CASE UNCHANGED <<heap, branches, opVars>>
  BY <1>2, <1>5, QuietStep DEF opVars
<1> QED
  BY <1>1, <1>3, <1>4, <1>5

\* The end of addBlocks.
LEMMA AddDoneTree ==
  ASSUME Tree, AddDone
  PROVE  Tree'
<1>1. /\ pc = "add" /\ batch = <<>> /\ pc' = "idle"
      /\ UNCHANGED <<heap, oldestBlock, branches>>
  BY DEF AddDone, Release
<1>2. \A b \in DOMAIN branches : heap[branches[b].head].fordward = {}
  BY <1>1 DEF Tree, Tips
<1> QED
  BY <1>1, <1>2, ReleaseTree

\* maintain takes a branch out of the list, or begins to flush.
LEMMA PruneTree ==
  ASSUME Inv, Tree, PruneStep
  PROVE  Tree'
<1>1. /\ pc = "prune" /\ UNCHANGED <<heap, oldestBlock, longestBranch>>
  BY DEF PruneStep
<1>2. Mutual' /\ Keyed' /\ Grounded' /\ \A C, head : IsPath(C, head) => IsPath(C, head)'
  BY <1>1, PathsFrame DEF Tree
<1>3. /\ \A b, c \in DOMAIN branches : branches[b].head = branches[c].head => b = c
      /\ \A b \in DOMAIN branches : heap[branches[b].head].fordward = {}
  BY <1>1 DEF Tree, Tips
<1>4. Paths /\ EvdsKnown
  BY DEF Tree
<1>5. ASSUME NEW b \in DOMAIN branches, pc' = "remove", iter' = branches[b].head,
             branches' = [c \in DOMAIN branches \ {b} |-> branches[c]]
      PROVE  Tree'
  <2>1. /\ DOMAIN branches' = DOMAIN branches \ {b}
        /\ \A c \in DOMAIN branches' : c \in DOMAIN branches /\ branches'[c] = branches[c]
    BY <1>5
  <2>2. Paths'
    BY <1>2, <1>4, <2>1 DEF Paths
  <2>3. EvdsKnown'
    BY <1>4, <2>1 DEF EvdsKnown, IsEvds
  <2>4. Tips'
    BY <1>1, <1>3, <2>1 DEF Tips
  <2>5. branches[b].head = oldestBlock \/ heap[branches[b].head].backward \in Obj
    BY <1>4, <1>5, Typed DEF Paths, IsPath
  <2>6. Removing' /\ Flushing'
    BY <1>1, <1>3, <1>5, <2>1, <2>5 DEF Removing, Flushing
  <2> QED
    BY <1>2, <2>2, <2>3, <2>4, <2>6 DEF Tree
<1>6. CASE pc' = "flush" /\ iter' = oldestBlock /\ UNCHANGED branches
  <2>1. Paths'
    BY <1>2, <1>4, <1>6 DEF Paths
  <2>2. EvdsKnown'
    BY <1>4, <1>6 DEF EvdsKnown, IsEvds
  <2>3. Tips'
    BY <1>1, <1>3, <1>6 DEF Tips
  <2>4. Removing' /\ Flushing'
    BY <1>1, <1>4, <1>6 DEF Removing, Flushing, Paths, IsPath
  <2> QED
    BY <1>2, <2>1, <2>2, <2>3, <2>4 DEF Tree
<1> QED
  BY <1>5, <1>6 DEF PruneStep

\* The objects after a leaf was taken off the object back.
Cut(o, back) ==
  /\ \A q \in Obj : heap'[q].height = heap[q].height /\ heap'[q].stored = heap[q].stored
  /\ \A q \in Obj : q # o => heap'[q].backward = heap[q].backward
  /\ \A q \in Obj : q # back => heap'[q].fordward = heap[q].fordward
  /\ heap'[o].backward = Nil
  /\ heap'[back].fordward = Delete(heap[back].fordward, o)

\* One turn of branch.remove takes a leaf off the tree, which is on no branch.
LEMMA RemoveTree ==
  ASSUME Inv, Tree, RemoveStep
  PROVE  Tree'
<1>1. /\ pc = "remove" /\ UNCHANGED <<oldestBlock, longestBranch, branches, batch, br>>
  BY DEF RemoveStep
<1>2. CASE pc' = "prune" /\ UNCHANGED heap
  BY <1>1, <1>2, QuietStep
<1>3. CASE UNCHANGED <<heap, pc, iter>>
  BY <1>1, <1>3, QuietStep
<1>4. ASSUME heap[iter].fordward = {}, heap[iter].backward # Nil,
             heap' = [heap EXCEPT
                 ![heap[iter].backward].fordward = Delete(@, iter),
                 ![iter].backward = Nil],
             iter' = heap[iter].backward, UNCHANGED pc
      PROVE  Tree'
  <2>1. PICK o \in Obj : o = iter
    BY <1>1, Typed
  <2>2. PICK back \in Obj : back = heap[o].backward
    BY <1>4, <2>1, Typed, BackType
  <2>3. /\ heap \in [Obj -> Block] /\ Links /\ Down /\ oldestBlock \in Obj
        /\ \A b \in DOMAIN branches : branches[b].head \in Obj /\ branches[b].cache \subseteq Obj
    BY Typed, TreeDown DEF Tree
  <2>4. o # back
    <3>1. heap[o].height = heap[back].height + 1 /\ heap[back].height \in Nat
      BY <2>2, <2>3, BackType DEF Down
    <3> QED
      BY <3>1
  <2>5. Cut(o, back)
    BY <1>4, <2>1, <2>2, <2>3, <2>4 DEF Cut, Block
  <2>6. Mutual /\ Keyed /\ Grounded /\ Paths /\ EvdsKnown /\ Tips /\ Removing
    BY DEF Tree
  <2>7. o \in heap[back].fordward /\ \A q \in Obj : heap[q].backward # o
    BY <1>4, <2>1, <2>2, <2>6 DEF Mutual
  <2>8. heap'[back].fordward = heap[back].fordward \ {o}
    BY <2>5, <2>6, <2>7 DEF Cut, Keyed, Delete
  <2>9. ASSUME NEW b \in DOMAIN branches
        PROVE  branches[b].head # o /\ branches[b].head # back /\ o \notin branches[b].cache
    <3>1. branches[b].head # o
      BY <1>1, <2>1, <2>6 DEF Removing
    <3>2. heap[branches[b].head].fordward = {}
      BY <1>1, <2>6 DEF Tips
    <3>3. IsPath(branches[b].cache, branches[b].head)
      BY <2>6 DEF Paths
    <3>4. o \notin branches[b].cache
      BY <2>3, <2>7, <3>1, <3>3 DEF IsPath
    <3> QED
      BY <2>7, <3>1, <3>2, <3>4
  <2>10. Mutual'
    <3> SUFFICES ASSUME NEW x \in Obj, NEW p \in Obj
                 PROVE  p \in heap'[x].fordward <=> heap'[p].backward = x
      BY DEF Mutual
    <3>1. p \in heap[x].fordward <=> heap[p].backward = x
      BY <2>6 DEF Mutual
    <3>2. CASE p = o
      BY <2>2, <2>5, <2>8, <3>1, <3>2, NilNoObj DEF Cut
    <3>3. CASE p # o
      BY <2>5, <2>8, <3>1, <3>3 DEF Cut
    <3> QED
      BY <3>2, <3>3
  <2>11. Keyed'
    <3>1. \A x \in Obj : heap'[x].fordward \subseteq heap[x].fordward
      BY <2>5, <2>8 DEF Cut
    <3> QED
      BY <2>6, <3>1 DEF Keyed
  <2>12. Grounded'
    <3>1. heap'[oldestBlock].backward = Nil
      BY <2>3, <2>5, <2>6 DEF Cut, Grounded
    <3>2. ASSUME NEW x \in Obj, heap'[x].backward \in Obj
          PROVE  heap'[x].backward = oldestBlock \/ heap'[heap'[x].backward].backward \in Obj
      <4>1. x # o
        BY <2>5, <3>2, NilNoObj DEF Cut
      <4>2. PICK y \in Obj : y = heap[x].backward /\ heap'[x].backward = y
        BY <2>5, <3>2, <4>1 DEF Cut
      <4>3. y # o /\ heap'[y].backward = heap[y].backward
        BY <2>5, <2>7, <4>2 DEF Cut
      <4> QED
        BY <2>6, <4>2, <4>3 DEF Grounded
    <3> QED
      BY <1>1, <3>1, <3>2 DEF Grounded
  <2>13. Paths' /\ EvdsKnown'
    <3>1. PICK f : f = branches'
      OBVIOUS
    <3>2. ASSUME NEW b \in DOMAIN f
          PROVE  IsPath(f[b].cache, f[b].head)' /\ IsEvds(f[b].evds, f[b].cache)
      <4>1. /\ o \notin f[b].cache /\ IsPath(f[b].cache, f[b].head)
            /\ f[b].cache \in SUBSET Obj /\ IsEvds(f[b].evds, f[b].cache)
        BY <1>1, <2>3, <2>6, <2>9, <3>1 DEF Paths, EvdsKnown
      <4>2. IsPath(f[b].cache, f[b].head)'
        BY <1>1, <2>5, <4>1, PathFrame DEF Cut
      <4> QED
        BY <4>1, <4>2
    <3> QED
      BY <3>1, <3>2, CachesAfter
  <2>14. Tips'
    <3>1. \A b \in DOMAIN branches : heap'[branches[b].head].fordward = {}
      BY <1>1, <2>3, <2>5, <2>6, <2>9 DEF Tips, Cut
    <3> QED
      BY <1>1, <2>6, <3>1 DEF Tips
  <2>15. back = oldestBlock \/ heap[back].backward \in Obj
    BY <2>2, <2>6 DEF Grounded
  <2>16. Removing' /\ Flushing'
    BY <1>1, <1>4, <2>1, <2>2, <2>4, <2>5, <2>9, <2>15 DEF Removing, Flushing, Cut
  <2> QED
    BY <2>10, <2>11, <2>12, <2>13, <2>14, <2>16 DEF Tree
<1> QED
  BY <1>2, <1>3, <1>4 DEF RemoveStep

\* On the longest branch the subtraction of heights does not wrap around.
LEMMA LagOnBranch ==
  ASSUME Inv, Tree, NEW o \in branches[longestBranch].cache
  PROVE  /\ Height(longestBranch) \in Nat /\ heap[o].height \in Nat
         /\ heap[o].height <= Height(longestBranch)
         /\ Lag(Height(longestBranch), heap[o].height) = Height(longestBranch) - heap[o].height
<1>1. PICK H : H = Height(longestBranch)
  OBVIOUS
<1>2. PICK h : h = heap[o].height
  OBVIOUS
<1>3. PICK top \in Obj : top = branches[longestBranch].head
  BY Typed
<1>4. IsPath(branches[longestBranch].cache, top) /\ heap \in [Obj -> Block] /\ o \in Obj
  BY <1>3, Typed DEF Tree, Paths
<1>5. H \in Nat /\ h \in Nat
  BY <1>1, <1>2, <1>3, <1>4, BackType DEF Height
<1>6. h <= H /\ H = Depth[top[1]]
  BY <1>1, <1>2, <1>3, <1>4 DEF Height, IsPath
<1>7. H < Wrap
  BY <1>3, <1>6, LimitAssumption DEF Obj
<1>8. H - h \in Nat /\ H - h < Wrap
  BY <1>5, <1>6, <1>7, BoundAssumption
<1>9. (H - h) % Wrap = H - h
  BY <1>8, BoundAssumption
<1> QED
  BY <1>1, <1>2, <1>5, <1>6, <1>9 DEF Lag

\* The only child of the object that the flush looks at is on every branch.
LEMMA OnlyChild ==
  ASSUME Inv, Tree, pc = "flush", NEW child \in Obj, heap[iter].fordward = {child}
  PROVE  /\ iter \in Obj /\ child # iter /\ heap[child].backward = iter
         /\ heap[child].height = heap[iter].height + 1
         /\ \A b \in DOMAIN branches :
              /\ iter \in branches[b].cache /\ branches[b].head # iter
              /\ child \in branches[b].cache
<1>1. iter \in Obj /\ heap \in [Obj -> Block] /\ Down
  BY Typed, TreeDown DEF Tree
<1>2. /\ \A p \in Obj : p \in heap[iter].fordward <=> heap[p].backward = iter
      /\ heap[child].backward = iter /\ heap[child].height = heap[iter].height + 1
  BY <1>1 DEF Tree, Mutual, Down
<1>3. child # iter
  BY <1>1, <1>2, BackType
<1>4. ASSUME NEW b \in DOMAIN branches
      PROVE  /\ iter \in branches[b].cache /\ branches[b].head # iter
             /\ child \in branches[b].cache
  <2>1. iter \in branches[b].cache /\ heap[branches[b].head].fordward = {}
    BY DEF Tree, Flushing, Tips
  <2>2. branches[b].head # iter /\ IsPath(branches[b].cache, branches[b].head)
    BY <2>1 DEF Tree, Paths
  <2>3. PICK q \in branches[b].cache : heap[q].backward = iter
    BY <2>1, <2>2 DEF IsPath
  <2>4. q \in Obj
    BY Typed, <2>3
  <2> QED
    BY <1>2, <2>1, <2>2, <2>3, <2>4
<1> QED
  BY <1>1, <1>2, <1>3, <1>4

\* Behind the first block that stays in the cache, all stay.
LEMMA EvictOldest ==
  ASSUME Inv, Tree, pc = "flush", NEW child \in Obj, heap[iter].fordward = {child},
         Evictable(child)
  PROVE  iter = oldestBlock
<1>1. /\ iter \in branches[longestBranch].cache /\ child \in branches[longestBranch].cache
      /\ heap[child].height = heap[iter].height + 1
  BY OnlyChild, Typed
<1>2. PICK H \in Nat : H = Height(longestBranch)
  BY <1>1, LagOnBranch
<1>3. PICK k \in Nat : k = heap[iter].height
  BY <1>1, LagOnBranch
<1>4. Lag(H, k) = H - k /\ Lag(H, k + 1) = H - (k + 1)
  BY <1>1, <1>2, <1>3, LagOnBranch
<1>5. H - (k + 1) > SyncMax
  BY <1>1, <1>2, <1>3, <1>4 DEF Evictable
<1>6. Lag(H, k) > SyncMax
  BY <1>4, <1>5, BoundAssumption
<1> QED
  BY <1>2, <1>3, <1>6 DEF Tree, Flushing, Evictable

\* The objects after the oldest block gave way to its only child.
Shed(o, child) ==
  /\ \A q \in Obj : heap'[q].height = heap[q].height
  /\ \A q \in Obj : q # o => /\ heap'[q].fordward = heap[q].fordward
                             /\ heap'[q].stored = heap[q].stored
  /\ \A q \in Obj : q # child => heap'[q].backward = heap[q].backward
  /\ heap'[o].stored = TRUE /\ heap'[o].fordward = {} /\ heap'[child].backward = Nil

\* A path without its lowest object is the path of the rest.
LEMMA PathShorter ==
  ASSUME heap \in [Obj -> Block], Down, NEW C, NEW head, IsPath(C, head),
         NEW o, o = oldestBlock, heap[o].backward = Nil, head # o,
         NEW child \in C, oldestBlock' = child, heap[child].backward = o,
         \A q \in Obj : heap[q].backward = o => q = child, Shed(o, child)
  PROVE  Delete(C, o) = C \ {o} /\ IsPath(C \ {o}, head)'
<1>1. /\ C \subseteq Obj /\ head \in C /\ o \in C
      /\ \A p \in C : heap[p].height = Depth[p[1]] /\ heap[p].height <= heap[head].height
      /\ \A p \in C : p = o \/ heap[p].backward \in C
      /\ \A p \in C : p = head \/ \E q \in C : heap[q].backward = p
      /\ \A p, q \in C : heap[p].height = heap[q].height => p = q
  BY DEF IsPath
<1>2. Delete(C, o) = C \ {o}
  BY <1>1 DEF Delete
<1>3. PICK D : D = C \ {o}
  OBVIOUS
<1>4. child # o
  BY <1>1, NilNoObj
<1>5. /\ \A p \in C : heap'[p].height = heap[p].height
      /\ \A p \in C : p # child => heap'[p].backward = heap[p].backward
  BY <1>1 DEF Shed
<1>6. \A p \in D : p = child \/ heap'[p].backward \in D
  BY <1>1, <1>3, <1>5
<1>7. ASSUME NEW p \in D, p # head PROVE \E q \in D : heap'[q].backward = p
  <2>1. PICK q \in C : heap[q].backward = p
    BY <1>1, <1>3, <1>7
  <2>2. q # o /\ q # child
    BY <1>1, <1>3, <1>7, <2>1, NilNoObj
  <2> QED
    BY <1>3, <1>5, <2>1, <2>2
<1>8. /\ \A p \in D : heap'[p].height = Depth[p[1]] /\ heap'[p].height <= heap'[head].height
      /\ \A p, q \in D : heap'[p].height = heap'[q].height => p = q
  BY <1>1, <1>3, <1>5
<1>9. IsPath(D, head)'
  BY <1>1, <1>3, <1>4, <1>6, <1>7, <1>8 DEF IsPath
<1> QED
  BY <1>2, <1>3, <1>9

\* The branch forgets the evidence of the block it drops, and no other.
LEMMA EvdsShorter ==
  ASSUME NEW C, NEW E, IsEvds(E, C), NEW o \in C
  PROVE  IsEvds(E \ Evds[o[1]], C \ {o})
<1>1. E = UNION {Evds[p[1]] : p \in C}
  BY DEF IsEvds, Hashes
<1>2. \A p \in C \ {o} : Evds[p[1]] \cap Evds[o[1]] = {}
  BY DEF IsEvds
<1>3. E \ Evds[o[1]] = UNION {Evds[p[1]] : p \in C \ {o}}
  BY <1>1, <1>2
<1>4. UNION {Evds[p[1]] : p \in C \ {o}} = UNION {Evds[h] : h \in Hashes(C \ {o})}
  BY DEF Hashes
<1> QED
  BY <1>3, <1>4 DEF IsEvds

\* The flush moves on from the oldest block, which leaves the cache.
LEMMA ShedTree ==
  ASSUME Inv, Tree, pc = "flush", NEW child \in Obj, heap[iter].fordward = {child},
         Evictable(child), Advance(iter, child), UNCHANGED <<pc, longestBranch>>
  PROVE  Tree'
<1>1. PICK o \in Obj : o = iter
  BY Typed
<1>2. o = oldestBlock
  BY <1>1, EvictOldest
<1>3. /\ heap \in [Obj -> Block] /\ Down
      /\ \A b \in DOMAIN branches : branches[b].head \in Obj /\ branches[b].cache \subseteq Obj
  BY Typed, TreeDown DEF Tree
<1>4. /\ child # o /\ heap[child].backward = o
      /\ \A b \in DOMAIN branches :
              /\ o \in branches[b].cache /\ branches[b].head # o
              /\ child \in branches[b].cache
  BY <1>1, OnlyChild
<1>5. /\ iter' = child /\ oldestBlock' = child /\ branches' = removeFromCache(o)
      /\ heap' = [heap EXCEPT ![o].stored = TRUE, ![o].fordward = Delete(@, child),
                              ![child].backward = Nil]
  BY <1>1 DEF Advance
<1>6. Shed(o, child)
  <2>1. Delete({child}, child) = {} /\ heap[o].fordward = {child}
    BY <1>1 DEF Delete
  <2>2. PICK first : first = [heap EXCEPT ![o].stored = TRUE]
    OBVIOUS
  <2>3. /\ first \in [Obj -> Block] /\ first[o].stored = TRUE
        /\ first[o].height = heap[o].height /\ first[o].backward = heap[o].backward
        /\ first[o].fordward = {child}
        /\ \A q \in Obj : q # o => first[q] = heap[q]
    <3>1. PICK v \in BOOLEAN : v = TRUE
      OBVIOUS
    <3>2. first = [heap EXCEPT ![o].stored = v] /\ heap \in [Obj -> Block]
      BY <1>3, <2>2, <3>1
    <3>3. /\ first \in [Obj -> Block] /\ first[o].stored = v
          /\ first[o].height = heap[o].height /\ first[o].backward = heap[o].backward
          /\ first[o].fordward = heap[o].fordward
          /\ \A q \in Obj : q # o => first[q] = heap[q]
      BY <3>2 DEF Block
    <3> QED
      BY <2>1, <3>1, <3>3
  <2>4. PICK second : second = [first EXCEPT ![o].fordward = Delete(@, child)]
    OBVIOUS
  <2>5. /\ second \in [Obj -> Block] /\ second[o].stored = TRUE
        /\ second[o].height = heap[o].height /\ second[o].backward = heap[o].backward
        /\ second[o].fordward = {}
        /\ \A q \in Obj : q # o => second[q] = heap[q]
    BY <2>1, <2>3, <2>4 DEF Block
  <2>6. heap' = [second EXCEPT ![child].backward = Nil]
    BY <1>5, <2>2, <2>4
  <2> QED
    BY <1>4, <2>5, <2>6 DEF Shed, Block
<1>7. Mutual /\ Keyed /\ Grounded /\ Paths /\ EvdsKnown /\ Tips
  BY DEF Tree
<1>8. heap[o].backward = Nil /\ \A q \in Obj : heap[q].backward = o => q = child
  BY <1>1, <1>2, <1>7 DEF Grounded, Mutual
<1>9. Mutual'
  <2> SUFFICES ASSUME NEW x \in Obj, NEW p \in Obj
               PROVE  p \in heap'[x].fordward <=> heap'[p].backward = x
    BY DEF Mutual
  <2>1. p \in heap[x].fordward <=> heap[p].backward = x
    BY <1>7 DEF Mutual
  <2>2. CASE p = child
    BY <1>4, <1>6, <2>1, <2>2, NilNoObj DEF Shed
  <2>3. CASE p # child
    BY <1>6, <1>8, <2>1, <2>3 DEF Shed
  <2> QED
    BY <2>2, <2>3
<1>10. Keyed'
  BY <1>6, <1>7 DEF Keyed, Shed
<1>11. Grounded'
  <2>1. ASSUME NEW x \in Obj, heap'[x].backward \in Obj
        PROVE  heap'[x].backward = child \/ heap'[heap'[x].backward].backward \in Obj
    <3>1. x # child
      BY <1>6, <2>1, NilNoObj DEF Shed
    <3>2. PICK y \in Obj : y = heap[x].backward /\ heap'[x].backward = y
      BY <1>6, <2>1, <3>1 DEF Shed
    <3>3. y # o
      BY <1>8, <3>1, <3>2
    <3>4. heap[y].backward \in Obj
      BY <1>2, <1>7, <3>2, <3>3 DEF Grounded
    <3> QED
      BY <1>6, <3>2, <3>4 DEF Shed
  <2> QED
    BY <1>5, <1>6, <2>1 DEF Grounded, Shed
<1>12. PICK f : f = branches'
  OBVIOUS
<1>13. /\ DOMAIN f = DOMAIN branches
       /\ \A b \in DOMAIN branches : /\ f[b].head = branches[b].head
                                     /\ f[b].cache = Delete(branches[b].cache, o)
                                     /\ f[b].evds = branches[b].evds \ Evds[o[1]]
  BY <1>5, <1>12 DEF removeFromCache
<1>14. ASSUME NEW b \in DOMAIN f
       PROVE  /\ IsPath(f[b].cache, f[b].head)' /\ IsEvds(f[b].evds, f[b].cache)
              /\ child \in f[b].cache
  <2>1. PICK C : C = branches[b].cache
    OBVIOUS
  <2>2. IsPath(C, f[b].head) /\ IsEvds(branches[b].evds, C)
    BY <1>7, <1>13, <2>1 DEF Paths, EvdsKnown
  <2>3. /\ f[b].head # o /\ child \in C /\ o \in C /\ f[b].cache = Delete(C, o)
        /\ f[b].evds = branches[b].evds \ Evds[o[1]]
    BY <1>4, <1>13, <2>1
  <2>4. Delete(C, o) = C \ {o} /\ IsPath(C \ {o}, f[b].head)'
    BY <1>2, <1>3, <1>4, <1>5, <1>6, <1>8, <2>2, <2>3, PathShorter
  <2>5. f[b].cache = C \ {o}
    BY <2>3, <2>4
  <2>6. IsPath(f[b].cache, f[b].head)'
    BY <2>4, <2>5
  <2>7. IsEvds(f[b].evds, f[b].cache)
    BY <2>2, <2>3, <2>5, EvdsShorter
  <2> QED
    BY <1>4, <2>3, <2>5, <2>6, <2>7
<1>15. Paths' /\ EvdsKnown'
  BY <1>12, <1>14, CachesAfter
<1>16. Tips'
  <2>1. \A b \in DOMAIN branches : heap'[branches[b].head].fordward = {}
    BY <1>3, <1>4, <1>6, <1>7 DEF Tips, Shed
  <2> QED
    BY <1>7, <1>12, <1>13, <2>1 DEF Tips
<1>17. Removing' /\ Flushing'
  BY <1>5, <1>12, <1>14 DEF Removing, Flushing
<1> QED
  BY <1>9, <1>10, <1>11, <1>15, <1>16, <1>17 DEF Tree

\* The flush moves on, and the block stays in the cache.
LEMMA KeepTree ==
  ASSUME Inv, Tree, pc = "flush", NEW child \in Obj, heap[iter].fordward = {child},
         ~Evictable(child), Advance(iter, child), UNCHANGED <<pc, longestBranch>>
  PROVE  Tree'
<1>1. PICK o \in Obj : o = iter
  BY Typed
<1>2. heap \in [Obj -> Block] /\ UNCHANGED <<branches, oldestBlock>> /\ iter' = child
  BY Typed DEF Advance
<1>3. heap' = [heap EXCEPT ![o].stored = TRUE]
  BY <1>1 DEF Advance
<1>4. \A q \in Obj : /\ heap'[q].height = heap[q].height
                     /\ heap'[q].backward = heap[q].backward
                     /\ heap'[q].fordward = heap[q].fordward
  BY <1>2, <1>3 DEF Block
<1>5. Mutual /\ Keyed /\ Grounded /\ Paths /\ EvdsKnown /\ Tips
  BY DEF Tree
<1>6. Mutual' /\ Keyed'
  BY <1>4, <1>5, Typed DEF Mutual, Keyed
<1>7. Grounded'
  BY <1>2, <1>4, <1>5, Typed DEF Grounded
<1>8. PICK f : f = branches'
  OBVIOUS
<1>9. ASSUME NEW b \in DOMAIN f
      PROVE  IsPath(f[b].cache, f[b].head)' /\ IsEvds(f[b].evds, f[b].cache)
  <2>1. /\ IsPath(f[b].cache, f[b].head) /\ IsEvds(f[b].evds, f[b].cache)
        /\ f[b].cache \subseteq Obj
    BY <1>2, <1>5, <1>8, Typed DEF Paths, EvdsKnown
  <2>2. \A q \in f[b].cache : /\ heap'[q].height = heap[q].height
                              /\ heap'[q].backward = heap[q].backward
    BY <1>4, <2>1
  <2>3. f[b].head \in f[b].cache
    BY <2>1 DEF IsPath
  <2>4. IsPath(f[b].cache, f[b].head)'
    BY <1>2, <2>1, <2>2, <2>3 DEF IsPath
  <2> QED
    BY <2>1, <2>4
<1>10. Paths' /\ EvdsKnown'
  BY <1>8, <1>9, CachesAfter
<1>11. Tips'
  BY <1>2, <1>4, <1>5, Typed DEF Tips
<1>12. \A b \in DOMAIN branches : child \in branches[b].cache
  BY OnlyChild
<1>13. ~Evictable(child)'
  <2>1. Height(longestBranch)' = Height(longestBranch) /\ heap'[child].height = heap[child].height
    BY <1>2, <1>4, Typed DEF Height
  <2> QED
    BY <2>1 DEF Evictable, Lag
<1>14. Removing' /\ Flushing'
  BY <1>2, <1>12, <1>13 DEF Removing, Flushing, Evictable
<1> QED
  BY <1>6, <1>7, <1>10, <1>11, <1>14 DEF Tree

\* One turn of the flush loop.
LEMMA FlushTree ==
  ASSUME Inv, Tree, FlushStep
  PROVE  Tree'
<1>1. pc = "flush" /\ UNCHANGED longestBranch
  BY DEF FlushStep
<1>2. CASE Release /\ UNCHANGED <<heap, branches, oldestBlock>>
  <2>1. \A b \in DOMAIN branches : heap[branches[b].head].fordward = {}
    BY <1>1 DEF Tree, Tips
  <2> QED
    BY <1>2, <2>1, ReleaseTree DEF Release
<1>3. CASE UNCHANGED <<heap, branches, oldestBlock, opVars>>
  BY <1>1, <1>3, QuietStep DEF opVars
<1>4. ASSUME Buried(iter), NEW child \in heap[iter].fordward, Advance(iter, child), UNCHANGED pc
      PROVE  Tree'
  <2>1. child \in Obj /\ heap[iter].fordward = {child}
    BY <1>4 DEF Buried
  <2> QED
    BY <1>1, <1>4, <2>1, ShedTree, KeepTree
<1> QED
  BY <1>2, <1>3, <1>4 DEF FlushStep

-----------------------------------------------------------------------------
(* Starting again *)

\* No evidence is twice in the database, and what is not stored yet has none
\* that is.
Apart ==
  /\ \A i, j \in 1 .. Len(db) : i # j => Evds[db[i]] \cap Evds[db[j]] = {}
  /\ \A b \in DOMAIN branches : \A o \in branches[b].cache :
       heap[o].stored \/ \A i \in 1 .. Len(db) : Evds[o[1]] \cap Evds[db[i]] = {}

\* The objects after initFromDB: a row x of loaded blocks, and free ones.
Row(x, lo, n) ==
  /\ lo \in 1 .. n /\ n \in Nat /\ n = Len(db)
  /\ \A i \in lo .. n : x[i] \in Obj /\ x[i][1] = db[i] /\ Depth[db[i]] = i
  /\ \A i \in lo .. n : heap'[x[i]].height = i /\ heap'[x[i]].stored = TRUE
  /\ \A i \in lo .. n : /\ i = lo => heap'[x[i]].backward = Nil
                        /\ i # lo => heap'[x[i]].backward = x[i-1]
  /\ \A i \in lo .. n : /\ i = n => heap'[x[i]].fordward = {}
                        /\ i # n => heap'[x[i]].fordward = {x[i+1]}
  /\ \A o \in Obj : \/ \E i \in lo .. n : o = x[i]
                    \/ heap'[o].backward = Nil /\ heap'[o].fordward = {}

\* They are the cache of the only branch.
OneBranch(x, lo, n) ==
  /\ oldestBlock' = x[lo]
  /\ branches' = [b \in {1} |->
       [head |-> x[n], cache |-> {x[i] : i \in lo .. n},
        evds |-> UNION {Evds[db[i]] : i \in lo .. n}]]

\* initFromDB loads the end of the database.
LEMMA LoadRow ==
  ASSUME Inv, Restart
  PROVE  \E x, lo, n : Row(x, lo, n) /\ OneBranch(x, lo, n)
<1>1. PICK n \in Nat : n = Len(db)
  BY DEF Inv, TypeOK
<1> DEFINE low == IF Len(db) > RefBlocks THEN Len(db) - RefBlocks ELSE 1
<1>a. n # 0 /\ low \in 1 .. n
  BY <1>1, BoundAssumption DEF Inv, TypeOK
<1>2. PICK lo \in 1 .. n : lo = low
  <2> HIDE DEF low
  <2> QED
    BY <1>a, Zenon
<1>3. PICK x : x = [i \in 1 .. n |-> <<db[i], 1>>]
  OBVIOUS
<1>4. /\ heap' = [o \in Obj |-> IF o \in {<<db[i], 1>> : i \in lo .. n} THEN Loaded(lo, o)
                                ELSE FreeBlock]
      /\ branches' = [b \in {1} |->
           [head |-> <<db[n], 1>>, cache |-> {<<db[i], 1>> : i \in lo .. n},
            evds |-> UNION {Evds[db[i]] : i \in lo .. n}]]
      /\ oldestBlock' = <<db[lo], 1>>
  BY <1>1, <1>2 DEF Restart, initFromDB
<1>5. \A i \in 1 .. n : db[i] \in Hash /\ Depth[db[i]] = i
  BY <1>1 DEF Inv, TypeOK, DbDepth
<1>6. \A i \in lo .. n : x[i] = <<db[i], 1>> /\ x[i] \in Obj /\ x[i][1] = db[i]
  BY <1>2, <1>3, <1>5, BoundAssumption DEF Obj
<1>7. ASSUME NEW i \in lo .. n
      PROVE  /\ heap'[x[i]].height = i /\ heap'[x[i]].stored = TRUE
             /\ i = lo => heap'[x[i]].backward = Nil
             /\ i # lo => heap'[x[i]].backward = x[i-1]
             /\ i = n => heap'[x[i]].fordward = {}
             /\ i # n => heap'[x[i]].fordward = {x[i+1]}
  <2>1. heap'[x[i]] = Loaded(lo, x[i])
    BY <1>4, <1>6
  <2>2. Loaded(lo, x[i]) =
           [height |-> i, stored |-> TRUE,
            backward |-> IF i = lo THEN Nil ELSE <<db[i-1], 1>>,
            fordward |-> IF i = n THEN {} ELSE {<<db[i+1], 1>>}]
    <3>1. x[i] = <<db[i], 1>> /\ lo \in 1 .. Len(db) /\ i \in lo .. Len(db)
      BY <1>1, <1>2, <1>6
    <3>2. Loaded(lo, <<db[i], 1>>) =
           [height |-> i, stored |-> TRUE,
            backward |-> IF i = lo THEN Nil ELSE <<db[i-1], 1>>,
            fordward |-> IF i = Len(db) THEN {} ELSE {<<db[i+1], 1>>}]
      BY <3>1, LoadedHeight
    <3> QED
      BY <1>1, <3>1, <3>2
  <2>3. i # lo => x[i-1] = <<db[i-1], 1>>
    BY <1>2, <1>6
  <2>4. i # n => x[i+1] = <<db[i+1], 1>>
    BY <1>2, <1>6
  <2> QED
    BY <2>1, <2>2, <2>3, <2>4
<1>8. ASSUME NEW o \in Obj
      PROVE  \/ \E i \in lo .. n : o = x[i]
             \/ heap'[o].backward = Nil /\ heap'[o].fordward = {}
  BY <1>4, <1>6 DEF FreeBlock
<1>9. Row(x, lo, n)
  <2> HIDE DEF low
  <2>1. \A i \in lo .. n : i \in 1 .. n
    BY <1>2
  <2>2. \A i \in lo .. n : x[i] \in Obj /\ x[i][1] = db[i] /\ Depth[db[i]] = i
    BY <1>5, <1>6, <2>1
  <2>3. /\ \A i \in lo .. n : heap'[x[i]].height = i /\ heap'[x[i]].stored = TRUE
        /\ \A i \in lo .. n : /\ i = lo => heap'[x[i]].backward = Nil
                              /\ i # lo => heap'[x[i]].backward = x[i-1]
        /\ \A i \in lo .. n : /\ i = n => heap'[x[i]].fordward = {}
                              /\ i # n => heap'[x[i]].fordward = {x[i+1]}
    BY <1>7, Zenon
  <2> QED
    BY <1>1, <1>2, <1>8, <2>2, <2>3 DEF Row
<1>10. {<<db[i], 1>> : i \in lo .. n} = {x[i] : i \in lo .. n}
  BY <1>6
<1>11. oldestBlock' = x[lo] /\ <<db[n], 1>> = x[n]
  BY <1>2, <1>4, <1>6
<1>12. branches' = [b \in {1} |->
                [head |-> x[n], cache |-> {x[i] : i \in lo .. n},
                 evds |-> UNION {Evds[db[i]] : i \in lo .. n}]]
  BY <1>4, <1>10, <1>11
<1>13. OneBranch(x, lo, n)
  BY <1>11, <1>12 DEF OneBranch
<1> QED
  BY <1>9, <1>13, Zenon

\* The loaded objects are a tree with one branch.
LEMMA RestartTree ==
  ASSUME Inv, Apart, Restart
  PROVE  Tree'
<1>a. PICK x, lo, n : Row(x, lo, n) /\ OneBranch(x, lo, n)
  BY LoadRow
<1>1. /\ Row(x, lo, n)
      /\ oldestBlock' = x[lo]
      /\ branches' = [b \in {1} |->
           [head |-> x[n], cache |-> {x[i] : i \in lo .. n},
            evds |-> UNION {Evds[db[i]] : i \in lo .. n}]]
  BY <1>a DEF OneBranch
<1>2. lo \in 1 .. n /\ n \in Nat /\ n = Len(db) /\ lo \in lo .. n /\ n \in lo .. n
  BY <1>1 DEF Row
<1>3. \A i \in lo .. n : x[i] \in Obj /\ x[i][1] = db[i] /\ Depth[db[i]] = i
  BY <1>1 DEF Row
<1>4. /\ \A i \in lo .. n : heap'[x[i]].height = i
      /\ \A i \in lo .. n : /\ i = lo => heap'[x[i]].backward = Nil
                            /\ i # lo => heap'[x[i]].backward = x[i-1]
      /\ \A i \in lo .. n : /\ i = n => heap'[x[i]].fordward = {}
                            /\ i # n => heap'[x[i]].fordward = {x[i+1]}
  BY <1>1 DEF Row
<1>5. \A o \in Obj : \/ \E i \in lo .. n : o = x[i]
                     \/ heap'[o].backward = Nil /\ heap'[o].fordward = {}
  BY <1>1 DEF Row
<1>6. \A i, j \in lo .. n : x[i] = x[j] => i = j
  BY <1>3
<1>7. ASSUME NEW p \in Obj, NEW y \in Obj, heap'[p].backward = y
      PROVE  \E j \in lo .. n : j # lo /\ p = x[j] /\ y = x[j-1] /\ j - 1 \in lo .. n
  <2>1. PICK j \in lo .. n : p = x[j]
    BY <1>5, <1>7, NilNoObj
  <2>2. j # lo /\ y = x[j-1]
    BY <1>4, <1>7, <2>1, NilNoObj
  <2> QED
    BY <1>2, <2>1, <2>2
<1>8. Mutual'
  <2> SUFFICES ASSUME NEW y \in Obj, NEW p \in Obj
               PROVE  p \in heap'[y].fordward <=> heap'[p].backward = y
    BY DEF Mutual
  <2>1. ASSUME heap'[p].backward = y PROVE p \in heap'[y].fordward
    <3>1. PICK j \in lo .. n : j # lo /\ p = x[j] /\ y = x[j-1] /\ j - 1 \in lo .. n
      BY <1>7, <2>1
    <3>2. j - 1 # n /\ (j - 1) + 1 = j
      BY <1>2, <3>1
    <3> QED
      BY <1>4, <3>1, <3>2
  <2>2. ASSUME p \in heap'[y].fordward PROVE heap'[p].backward = y
    <3>1. PICK i \in lo .. n : y = x[i]
      BY <1>5, <2>2
    <3>2. i # n /\ p = x[i+1]
      BY <1>4, <2>2, <3>1
    <3>3. i + 1 \in lo .. n /\ i + 1 # lo /\ (i + 1) - 1 = i
      BY <1>2, <3>1, <3>2
    <3> QED
      BY <1>4, <3>1, <3>2, <3>3
  <2> QED
    BY <2>1, <2>2
<1>9. Keyed'
  <2> SUFFICES ASSUME NEW y \in Obj, NEW p \in heap'[y].fordward, NEW q \in heap'[y].fordward
               PROVE  p = q
    BY DEF Keyed
  <2>1. PICK i \in lo .. n : y = x[i]
    BY <1>5
  <2> QED
    BY <1>4, <2>1
<1>10. Grounded'
  <2>1. heap'[oldestBlock'].backward = Nil
    BY <1>1, <1>2, <1>4
  <2>2. ASSUME NEW p \in Obj, heap'[p].backward \in Obj
        PROVE  heap'[p].backward = oldestBlock' \/ heap'[heap'[p].backward].backward \in Obj
    <3>1. PICK y \in Obj : y = heap'[p].backward
      BY <2>2
    <3>2. PICK j \in lo .. n : j # lo /\ p = x[j] /\ y = x[j-1] /\ j - 1 \in lo .. n
      BY <1>7, <3>1
    <3>3. CASE j - 1 = lo
      BY <1>1, <3>1, <3>2, <3>3
    <3>4. CASE j - 1 # lo
      <4>1. (j - 1) - 1 \in lo .. n
        BY <1>2, <3>2, <3>4
      <4>2. heap'[y].backward = x[(j-1)-1]
        BY <1>4, <3>2, <3>4
      <4> QED
        BY <1>3, <3>1, <4>1, <4>2
    <3> QED
      BY <3>3, <3>4
  <2> QED
    BY <2>1, <2>2 DEF Grounded
<1>11. PICK C : C = {x[i] : i \in lo .. n}
  OBVIOUS
<1>12. IsPath(C, x[n])'
  <2>1. C \subseteq Obj /\ x[n] \in C /\ oldestBlock' \in C
    BY <1>1, <1>2, <1>3, <1>11
  <2>2. \A o \in C : heap'[o].height = Depth[o[1]] /\ heap'[o].height <= heap'[x[n]].height
    BY <1>2, <1>3, <1>4, <1>11
  <2>3. ASSUME NEW o \in C, o # oldestBlock' PROVE heap'[o].backward \in C
    <3>1. PICK i \in lo .. n : o = x[i]
      BY <1>11
    <3>2. i # lo /\ i - 1 \in lo .. n
      BY <1>1, <1>2, <2>3, <3>1
    <3> QED
      BY <1>4, <1>11, <3>1, <3>2
  <2>4. ASSUME NEW o \in C, o # x[n] PROVE \E q \in C : heap'[q].backward = o
    <3>1. PICK i \in lo .. n : o = x[i]
      BY <1>11
    <3>2. i # n /\ i + 1 \in lo .. n /\ i + 1 # lo /\ (i + 1) - 1 = i
      BY <1>2, <2>4, <3>1
    <3>3. heap'[x[i+1]].backward = o /\ x[i+1] \in C
      BY <1>4, <1>11, <3>1, <3>2
    <3> QED
      BY <3>3
  <2>5. \A o, p \in C : heap'[o].height = heap'[p].height => o = p
    BY <1>4, <1>11
  <2> QED
    BY <2>1, <2>2, <2>3, <2>4, <2>5 DEF IsPath
<1>13. PICK E : E = UNION {Evds[db[i]] : i \in lo .. n}
  OBVIOUS
<1>14. IsEvds(E, C)
  <2>1. Hashes(C) = {db[i] : i \in lo .. n}
    BY <1>3, <1>11 DEF Hashes
  <2>2. E = UNION {Evds[h] : h \in Hashes(C)}
    BY <1>13, <2>1
  <2>3. ASSUME NEW o \in C, NEW p \in C, o # p PROVE Evds[o[1]] \cap Evds[p[1]] = {}
    <3>1. PICK i \in lo .. n, j \in lo .. n : o = x[i] /\ p = x[j]
      BY <1>11
    <3>2. i # j /\ i \in 1 .. Len(db) /\ j \in 1 .. Len(db)
      BY <1>2, <2>3, <3>1
    <3>3. Evds[db[i]] \cap Evds[db[j]] = {}
      BY <3>2 DEF Apart
    <3>4. o[1] = db[i] /\ p[1] = db[j]
      BY <1>3, <3>1
    <3> QED
      BY <3>3, <3>4
  <2> QED
    BY <2>2, <2>3 DEF IsEvds
<1>15. PICK f : f = branches'
  OBVIOUS
<1>16. DOMAIN f = {1} /\ f[1].head = x[n] /\ f[1].cache = C /\ f[1].evds = E
  BY <1>1, <1>11, <1>13, <1>15
<1>17. IsPath(f[1].cache, f[1].head)' /\ IsEvds(f[1].evds, f[1].cache)
  BY <1>12, <1>14, <1>16
<1>18. Paths' /\ EvdsKnown'
  BY <1>15, <1>16, <1>17, CachesAfter
<1>19. Tips'
  <2>1. heap'[branches'[1].head].fordward = {}
    BY <1>2, <1>4, <1>15, <1>16
  <2>2. DOMAIN branches' = {1}
    BY <1>15, <1>16
  <2> QED
    BY <2>1, <2>2 DEF Tips
<1>20. Removing' /\ Flushing'
  BY DEF Restart, Release, Removing, Flushing
<1> QED
  BY <1>8, <1>9, <1>10, <1>18, <1>19, <1>20 DEF Tree

-----------------------------------------------------------------------------
(* Evidence *)

\* A step that stores nothing and puts nothing new into a cache.
LEMMA ApartFrame ==
  ASSUME Inv, Apart, db' = db,
         \A b \in DOMAIN branches' : \E c \in DOMAIN branches :
           branches'[b].cache \subseteq branches[c].cache,
         \A o \in Obj : heap'[o].stored = heap[o].stored
  PROVE  Apart'
<1>1. ASSUME NEW b \in DOMAIN branches', NEW o \in branches'[b].cache
      PROVE  heap'[o].stored \/ \A i \in 1 .. Len(db) : Evds[o[1]] \cap Evds[db[i]] = {}
  <2>1. PICK c \in DOMAIN branches : o \in branches[c].cache
    BY <1>1
  <2>2. o \in Obj
    BY <2>1, Typed
  <2> QED
    BY <2>1, <2>2 DEF Apart
<1> QED
  BY <1>1 DEF Apart

\* A fork begins with a part of the cache of a branch.
LEMMA ForkCaches ==
  ASSUME Inv, Tree, NEW h, createBranch(h)
  PROVE  \A b \in DOMAIN branches' : \E c \in DOMAIN branches :
           branches'[b].cache \subseteq branches[c].cache
<1>1. PICK b \in Forkable(h), id \in BranchIds :
          /\ branches' = [c \in DOMAIN branches \cup {id} |->
                            IF c = id THEN newBranch(getBlock(b, Parent[h]))
                            ELSE branches[c]]
  BY DEF createBranch
<1>2. PICK match : match = getBlock(b, Parent[h])
  OBVIOUS
<1>3. b \in DOMAIN branches /\ b \in Holding(Parent[h])
  BY DEF Forkable, IsFirst
<1>4. match \in branches[b].cache
  <2>1. \E o \in branches[b].cache : o[1] = Parent[h]
    BY <1>3 DEF Holding, Hashes
  <2> QED
    BY <1>2, <2>1 DEF getBlock
<1>5. newBranch(match).cache \subseteq branches[b].cache
  <2>1. IsPath(branches[b].cache, branches[b].head) /\ heap[oldestBlock].backward = Nil
    BY <1>3 DEF Tree, Paths, Grounded
  <2>2. Down /\ heap \in [Obj -> Block]
    BY TreeDown, Typed DEF Tree
  <2>3. BackPath(match) \subseteq branches[b].cache
    BY <1>4, <2>1, <2>2, SubPath
  <2> QED
    BY <2>3 DEF newBranch
<1> QED
  BY <1>1, <1>2, <1>3, <1>5

\* A block is added when its evidence is in neither the cache nor the database.
LEMMA AddApart ==
  ASSUME Inv, Tree, Apart, pc = "add", batch # <<>>, db' = db,
         "ok" \in verifyBlock(br, Head(batch)), add(br, Head(batch))
  PROVE  Apart'
<1>1. PICK h : h = Head(batch)
  OBVIOUS
<1>2. PICK last : last = branches[br].head
  OBVIOUS
<1>3. PICK o : o = NewObj(h)
  OBVIOUS
<1>4. /\ heap \in [Obj -> Block] /\ br \in DOMAIN branches /\ last \in Obj
      /\ h \in Hash \ {Genesis}
  BY <1>1, <1>2, Typed
<1>5. o \in Obj /\ ~Referenced(o) /\ o[1] = h
  BY <1>1, <1>3, <1>4, NewObjFresh DEF add
<1>6. /\ o # last
      /\ \A b \in DOMAIN branches : o \notin branches[b].cache
  BY <1>2, <1>4, <1>5, Unreferenced
<1>7. Hung(o, last, heap[last].height)
  BY <1>1, <1>2, <1>3, <1>4, <1>5, <1>6, AddHeap
<1>8. \A i \in 1 .. Len(db) : Evds[h] \cap Evds[db[i]] = {}
  <2>1. \A e \in Evds[h] : ~HasEvidence(e)
    BY <1>1 DEF verifyBlock, verifyEvidence
  <2>2. DOMAIN db = 1 .. Len(db)
    BY DEF Inv, TypeOK
  <2> QED
    BY <2>1, <2>2 DEF HasEvidence
<1>9. /\ DOMAIN branches' = DOMAIN branches
      /\ \A b \in DOMAIN branches : branches'[b].cache \subseteq branches[b].cache \cup {o}
  <2>1. branches' = [branches EXCEPT ![br] =
            [head |-> o, cache |-> Store(branches[br].cache, o),
             evds |-> branches[br].evds \cup Evds[h]]]
    BY <1>1, <1>3 DEF add
  <2>2. Store(branches[br].cache, o) \subseteq branches[br].cache \cup {o}
    BY DEF Store
  <2> QED
    BY <1>4, <2>1, <2>2
<1>10. ASSUME NEW b \in DOMAIN branches', NEW p \in branches'[b].cache
       PROVE  heap'[p].stored \/ \A i \in 1 .. Len(db) : Evds[p[1]] \cap Evds[db[i]] = {}
  <2>1. CASE p = o
    BY <1>5, <1>8, <2>1
  <2>2. CASE p # o
    <3>1. p \in branches[b].cache /\ b \in DOMAIN branches /\ p \in Obj
      BY <1>9, <1>10, <2>2, Typed
    <3>2. heap'[p].stored = heap[p].stored
      BY <1>7, <2>2, <3>1 DEF Hung
    <3> QED
      BY <3>1, <3>2 DEF Apart
  <2> QED
    BY <2>1, <2>2
<1> QED
  BY <1>10 DEF Apart

\* A block that is stored is on every branch, so that none has its evidence
\* again; and it has none that is stored.
LEMMA FlushApart ==
  ASSUME Inv, Tree, Apart, pc = "flush", Buried(iter),
         \/ heap[iter].stored /\ UNCHANGED db
         \/ ~heap[iter].stored /\ PutBlock(iter),
         NEW child \in heap[iter].fordward, Advance(iter, child)
  PROVE  Apart'
<1>1. child \in Obj /\ heap[iter].fordward = {child}
  BY DEF Buried
<1>2. PICK o \in Obj : o = iter
  BY Typed
<1>3. heap \in [Obj -> Block] /\ longestBranch \in DOMAIN branches
  BY Typed
<1>4. heap'[o].stored = TRUE /\ \A q \in Obj : q # o => heap'[q].stored = heap[q].stored
  BY <1>1, <1>2, <1>3, AdvanceHeap
<1>5. \A b \in DOMAIN branches : o \in branches[b].cache
  BY <1>1, <1>2, OnlyChild
<1>6. \A b \in DOMAIN branches' : b \in DOMAIN branches /\ branches'[b].cache \subseteq branches[b].cache
  BY DEF Advance, removeFromCache, Delete
<1>7. \A b \in DOMAIN branches : \A p \in branches[b].cache :
        p # o => Evds[p[1]] \cap Evds[o[1]] = {}
  BY <1>5 DEF Tree, EvdsKnown, IsEvds
<1>8. db \in Seq(Hash) /\ Len(db) \in Nat
  BY DEF Inv, TypeOK
<1>9. \/ db' = db
      \/ /\ ~heap[o].stored /\ Len(db') = Len(db) + 1 /\ db'[Len(db) + 1] = o[1]
         /\ \A i \in 1 .. Len(db) : db'[i] = db[i]
  BY <1>2, <1>8 DEF PutBlock, Obj
<1>10. ASSUME NEW b \in DOMAIN branches', NEW p \in branches'[b].cache
       PROVE  heap'[p].stored \/ \A i \in 1 .. Len(db') : Evds[p[1]] \cap Evds[db'[i]] = {}
  <2>1. b \in DOMAIN branches /\ p \in branches[b].cache /\ p \in Obj
    BY <1>6, <1>10, Typed
  <2>2. CASE p = o
    BY <1>4, <2>2
  <2>3. CASE p # o
    <3>1. heap'[p].stored = heap[p].stored /\ Evds[p[1]] \cap Evds[o[1]] = {}
      BY <1>4, <1>7, <2>1, <2>3
    <3>2. heap[p].stored \/ \A i \in 1 .. Len(db) : Evds[p[1]] \cap Evds[db[i]] = {}
      BY <2>1 DEF Apart
    <3>3. CASE heap[p].stored
      BY <3>1, <3>3
    <3>4. CASE \A i \in 1 .. Len(db) : Evds[p[1]] \cap Evds[db[i]] = {}
      BY <1>8, <1>9, <3>1, <3>4
    <3> QED
      BY <3>2, <3>3, <3>4
  <2> QED
    BY <2>2, <2>3
<1>11. ASSUME NEW i \in 1 .. Len(db'), NEW j \in 1 .. Len(db'), i # j
       PROVE  Evds[db'[i]] \cap Evds[db'[j]] = {}
  <2>1. CASE db' = db
    BY <1>11, <2>1 DEF Apart
  <2>2. CASE /\ ~heap[o].stored /\ Len(db') = Len(db) + 1 /\ db'[Len(db) + 1] = o[1]
             /\ \A k \in 1 .. Len(db) : db'[k] = db[k]
    <3>1. \A k \in 1 .. Len(db) : Evds[o[1]] \cap Evds[db[k]] = {}
      BY <1>3, <1>5, <2>2 DEF Apart
    <3>2. \A k, l \in 1 .. Len(db) : k # l => Evds[db[k]] \cap Evds[db[l]] = {}
      BY DEF Apart
    <3>3. i \in 1 .. Len(db) \/ i = Len(db) + 1
      BY <1>8, <2>2
    <3>4. j \in 1 .. Len(db) \/ j = Len(db) + 1
      BY <1>8, <2>2
    <3> QED
      BY <1>11, <2>2, <3>1, <3>2, <3>3, <3>4
  <2> QED
    BY <1>9, <2>1, <2>2
<1> QED
  BY <1>10, <1>11 DEF Apart

\* Every step keeps the evidence apart.
LEMMA ApartStep ==
  ASSUME Inv, Tree, Apart, [Next]_vars
  PROVE  Apart'
<1>1. ASSUME UNCHANGED <<db, heap, branches>> PROVE Apart'
  BY <1>1 DEF Apart
<1>2. ASSUME NEW blocks, NEW isLocal, addBlocks(blocks, isLocal) PROVE Apart'
  <2>1. UNCHANGED <<db, heap>>
    BY <1>2 DEF addBlocks
  <2>2. CASE UNCHANGED branches
    BY <1>1, <2>1, <2>2
  <2>3. CASE createBranch(blocks[1])
    BY <2>1, <2>3, ForkCaches, ApartFrame
  <2> QED
    BY <1>2, <2>2, <2>3 DEF addBlocks
<1>3. CASE AddRemote \/ Mined
  BY <1>2, <1>3 DEF AddRemote, Mined
<1>4. CASE AddNext
  <2>1. pc = "add" /\ batch # <<>> /\ db' = db
    BY <1>4 DEF AddNext
  <2>2. CASE "ok" \in verifyBlock(br, Head(batch)) /\ add(br, Head(batch))
    BY <2>1, <2>2, AddApart
  <2>3. CASE UNCHANGED <<heap, branches>>
    BY <1>1, <2>1, <2>3
  <2> QED
    BY <1>4, <2>2, <2>3 DEF AddNext
<1>5. CASE PruneStep
  <2>1. UNCHANGED <<db, heap>> /\ \A b \in DOMAIN branches' :
          b \in DOMAIN branches /\ branches'[b].cache \subseteq branches[b].cache
    BY <1>5 DEF PruneStep
  <2> QED
    BY <2>1, ApartFrame
<1>6. CASE RemoveStep
  <2>1. UNCHANGED <<db, branches>> /\ heap \in [Obj -> Block] /\ iter \in Obj
    BY <1>6, Typed DEF RemoveStep
  <2>2. CASE UNCHANGED heap
    BY <1>1, <2>1, <2>2
  <2>3. CASE /\ heap[iter].backward # Nil
             /\ heap' = [heap EXCEPT ![heap[iter].backward].fordward = Delete(@, iter),
                                     ![iter].backward = Nil]
    <3>1. heap[iter].backward \in Obj
      BY <2>1, <2>3, BackType
    <3>2. \A q \in Obj : heap'[q].stored = heap[q].stored
      BY <2>1, <2>3, <3>1 DEF Block
    <3> QED
      BY <2>1, <3>2, ApartFrame
  <2> QED
    BY <1>6, <2>2, <2>3 DEF RemoveStep
<1>7. CASE FlushStep
  <2>1. pc = "flush"
    BY <1>7 DEF FlushStep
  <2>2. CASE UNCHANGED <<heap, branches, db>>
    BY <1>1, <2>2
  <2>3. CASE /\ Buried(iter)
             /\ \/ heap[iter].stored /\ UNCHANGED db
                \/ ~heap[iter].stored /\ PutBlock(iter)
             /\ \E child \in heap[iter].fordward : Advance(iter, child)
    BY <2>1, <2>3, FlushApart
  <2> QED
    BY <1>7, <2>2, <2>3 DEF FlushStep
<1>8. CASE Restart
  <2>1. PICK x, lo, n : Row(x, lo, n) /\ OneBranch(x, lo, n)
    BY <1>8, LoadRow
  <2>2. DOMAIN branches' = {1} /\ branches'[1].cache = {x[i] : i \in lo .. n}
    BY <2>1 DEF OneBranch
  <2>3. \A o \in branches'[1].cache : heap'[o].stored = TRUE
    BY <2>1, <2>2 DEF Row
  <2>4. db' = db
    BY <1>8 DEF Restart
  <2> QED
    BY <2>2, <2>3, <2>4 DEF Apart
<1>9. CASE AddDone \/ MaintainBegin \/ StartRound \/ Interrupted \/ MinedInVain \/ UNCHANGED vars
  BY <1>1, <1>9 DEF AddDone, MaintainBegin, StartRound, Interrupted, MinedInVain,
                    vars, chainVars
<1> QED
  BY <1>3, <1>4, <1>5, <1>6, <1>7, <1>8, <1>9 DEF Next

\* Every step but the end of a dead fork leaves a tree.
LEMMA TreeStep ==
  ASSUME Inv, Tree, Apart, [Next]_vars, ~DeadFork
  PROVE  Tree'
<1>1. CASE AddRemote
  <2>1. PICK blocks \in Batches : addBlocks(blocks, FALSE)
    BY <1>1 DEF AddRemote
  <2>2. blocks \in Seq(Hash \ {Genesis}) /\ blocks # <<>>
    BY BatchAssumption
  <2> QED
    BY <2>1, <2>2, AddBlocksTree
<1>2. CASE Mined
  <2>1. PICK h \in Own : addBlocks(<<h>>, TRUE)
    BY <1>2 DEF Mined
  <2>2. <<h>> \in Seq(Hash \ {Genesis}) /\ <<h>> # <<>>
    BY BatchAssumption
  <2> QED
    BY <2>1, <2>2, AddBlocksTree
<1>3. CASE MaintainBegin
  BY <1>3, QuietStep DEF MaintainBegin, Idle, chainVars
<1>4. CASE StartRound \/ Interrupted \/ MinedInVain \/ UNCHANGED vars
  BY <1>4, QuietStep DEF StartRound, Interrupted, MinedInVain, vars, chainVars, opVars
<1> QED
  BY <1>1, <1>2, <1>3, <1>4, AddNextTree, AddDoneTree, PruneTree, RemoveTree, FlushTree,
     RestartTree DEF Next

\* The genesis block alone is a tree.
LEMMA TreeInit ==
  ASSUME Init
  PROVE  Tree /\ Apart
<1>1. PICK g : g = <<Genesis, 1>>
  OBVIOUS
<1>2. g \in Obj /\ g[1] = Genesis /\ Depth[Genesis] = 1
  BY <1>1, TreeAssumption, BoundAssumption DEF Obj
<1>3. /\ oldestBlock = g /\ pc = "idle" /\ db = <<Genesis>>
      /\ branches = [b \in {1} |-> [head |-> g, cache |-> {g}, evds |-> Evds[Genesis]]]
  BY <1>1 DEF Init
<1>4. /\ \A o \in Obj : heap[o].backward = Nil /\ heap[o].fordward = {}
      /\ heap[g].height = 1 /\ heap[g].stored = TRUE
  BY <1>1, <1>2 DEF Init, FreeBlock
<1>5. Mutual /\ Keyed /\ Grounded
  BY <1>2, <1>3, <1>4, NilNoObj DEF Mutual, Keyed, Grounded
<1>6. IsPath({g}, g)
  BY <1>2, <1>3, <1>4 DEF IsPath
<1>7. IsEvds(Evds[Genesis], {g})
  BY <1>2 DEF IsEvds, Hashes
<1>8. Paths /\ EvdsKnown
  BY <1>3, <1>6, <1>7 DEF Paths, EvdsKnown
<1>9. Tips /\ Removing /\ Flushing
  BY <1>2, <1>3, <1>4 DEF Tips, Removing, Flushing
<1>10. Apart
  BY <1>3, <1>4 DEF Apart
<1> QED
  BY <1>5, <1>8, <1>9, <1>10 DEF Tree

\* The objects that the chain keeps are a tree whose paths are the caches of
\* the branches, across forks, pruning, the flush and restarts.
THEOREM TreeInvariant == Spec /\ [][~DeadFork]_vars => [](Tree /\ Apart)
<1>1. Init => Tree /\ Apart
  BY TreeInit
<1>2. Inv /\ Tree /\ Apart /\ [Next]_vars /\ [~DeadFork]_vars => Tree' /\ Apart'
  <2> SUFFICES ASSUME Inv, Tree, Apart, [Next]_vars, [~DeadFork]_vars PROVE Tree' /\ Apart'
    OBVIOUS
  <2>1. ~DeadFork
    BY DEF DeadFork, vars, opVars
  <2> QED
    BY <2>1, TreeStep, ApartStep
<1> QED
  BY <1>1, <1>2, Invariance, PTL DEF Spec

\* A set of blocks that has the parents of its members.
Closed(X) == X \subseteq Hash /\ \A h \in X : h = Genesis \/ Parent[h] \in X

\* Ancestors is what its recursive definition says.
LEMMA AncestorsOf ==
  \A h \in Hash : Ancestors[h] = IF h = Genesis THEN {h} ELSE {h} \cup Ancestors[Parent[h]]
<1> DEFINE IsRec(f) == f = [h \in Hash |-> IF h = Genesis THEN {h} ELSE {h} \cup f[Parent[h]]]
           least == [h \in Hash |-> {p \in Hash : \A X \in SUBSET Hash : Closed(X) /\ h \in X => p \in X}]
<1>1. IsRec(least)
  <2>1. ASSUME NEW h \in Hash, h # Genesis
        PROVE  least[h] = {h} \cup least[Parent[h]]
    <3>1. PICK g \in Hash : g = Parent[h]
      BY <2>1, TreeAssumption
    <3>2. ASSUME NEW p \in least[h], p # h PROVE p \in least[g]
      <4>1. p \in Hash
        OBVIOUS
      <4>2. ASSUME NEW X \in SUBSET Hash, Closed(X), g \in X PROVE p \in X
        <5>1. PICK Y \in SUBSET Hash : Y = X \cup {h}
          OBVIOUS
        <5>2. Closed(Y) /\ h \in Y
          BY <3>1, <4>2, <5>1 DEF Closed
        <5> QED
          BY <3>2, <5>1, <5>2
      <4> QED
        BY <4>1, <4>2
    <3>3. ASSUME NEW p \in least[g] PROVE p \in least[h]
      BY <2>1, <3>1 DEF Closed
    <3>4. h \in least[h]
      OBVIOUS
    <3> HIDE DEF least
    <3> QED
      BY <3>1, <3>2, <3>3, <3>4
  <2>2. least[Genesis] = {Genesis}
    <3>1. Closed({Genesis})
      BY TreeAssumption DEF Closed
    <3> QED
      BY <3>1, TreeAssumption
  <2>3. \A h \in Hash : least[h] = IF h = Genesis THEN {h} ELSE {h} \cup least[Parent[h]]
    <3> HIDE DEF least
    <3> QED
      BY <2>1, <2>2
  <2>4. least = [h \in Hash |-> least[h]]
    OBVIOUS
  <2> HIDE DEF least
  <2> QED
    BY <2>3, <2>4
<1>2. Ancestors = CHOOSE f : IsRec(f)
  BY DEF Ancestors
<1>3. IsRec(Ancestors)
  <2> HIDE DEF IsRec, least
  <2> QED
    BY <1>1, <1>2
<1> QED
  BY <1>3

\* The ancestors of a block are in every set that has it and the parents of
\* its members.
LEMMA AncestorsIn ==
  ASSUME NEW X, Closed(X), NEW h \in X
  PROVE  Ancestors[h] \subseteq X
<1> DEFINE T == {n \in Nat : \A g \in X : Depth[g] <= n + 1 => Ancestors[g] \subseteq X}
<1>1. X \subseteq Hash /\ \A g \in X : g = Genesis \/ Parent[g] \in X
  BY DEF Closed
<1>2. \A g \in Hash : Depth[g] \in Nat /\ Depth[g] # 0
  BY TreeAssumption
<1>3. \A g \in X : Ancestors[g] = IF g = Genesis THEN {g} ELSE {g} \cup Ancestors[Parent[g]]
  BY <1>1, AncestorsOf
<1>4. \A g \in X : g # Genesis => Parent[g] \in X /\ Depth[g] = Depth[Parent[g]] + 1
  BY <1>1, TreeAssumption
<1>5. 0 \in T
  <2> SUFFICES ASSUME NEW g \in X, Depth[g] <= 0 + 1 PROVE Ancestors[g] \subseteq X
    OBVIOUS
  <2>1. g = Genesis
    BY <1>1, <1>2, <1>4
  <2> QED
    BY <1>3, <2>1
<1>6. ASSUME NEW n \in Nat, n \in T PROVE n + 1 \in T
  <2> SUFFICES ASSUME NEW g \in X, Depth[g] <= (n + 1) + 1 PROVE Ancestors[g] \subseteq X
    OBVIOUS
  <2>1. CASE g = Genesis
    BY <1>3, <2>1
  <2>2. CASE g # Genesis
    <3>1. Parent[g] \in X /\ Depth[Parent[g]] <= n + 1
      BY <1>1, <1>2, <1>4, <2>2
    <3>2. Ancestors[Parent[g]] \subseteq X
      BY <1>6, <3>1
    <3> QED
      BY <1>3, <2>2, <3>2
  <2> QED
    BY <2>1, <2>2
<1>7. Nat \subseteq T
  <2> HIDE DEF T
  <2> QED
    BY <1>5, <1>6, SetInduction
<1>8. Depth[h] \in T
  BY <1>1, <1>2, <1>7
<1>9. h \in Hash /\ Depth[h] <= Depth[h] + 1
  BY <1>1, <1>2
<1> QED
  BY <1>8, <1>9

\* Below the oldest block of the cache the chain of every branch goes on in
\* the database.
LEMMA ChainCovered ==
  ASSUME Inv, Tree, NEW b \in DOMAIN branches
  PROVE  Ancestors[HeadHash(b)] \subseteq Hashes(branches[b].cache) \cup {db[i] : i \in 1 .. Len(db)}
<1>1. PICK C : C = branches[b].cache
  OBVIOUS
<1>2. PICK D : D = {db[i] : i \in 1 .. Len(db)}
  OBVIOUS
<1>3. /\ heap \in [Obj -> Block] /\ Down /\ C \subseteq Obj /\ oldestBlock \in Obj
      /\ IsPath(C, branches[b].head)
  BY <1>1, Typed, TreeDown DEF Tree, Paths
<1>4. db \in Seq(Hash) /\ Len(db) \in Nat /\ D \subseteq Hash
  BY <1>2 DEF Inv, TypeOK
<1>5. \A i \in 1 .. Len(db) : db[i] = Genesis \/ Parent[db[i]] \in D
  <2> SUFFICES ASSUME NEW i \in 1 .. Len(db), i # 1 PROVE Parent[db[i]] \in D
    BY DEF Inv, DbLinked
  <2>1. i \in 2 .. Len(db) /\ i - 1 \in 1 .. Len(db)
    BY <1>4
  <2> QED
    BY <1>2, <2>1 DEF Inv, DbLinked
<1>6. oldestBlock[1] = Genesis \/ Parent[oldestBlock[1]] \in D
  <2>1. Anchored(oldestBlock) /\ StoredInDb
    BY DEF Inv
  <2>2. CASE heap[oldestBlock].stored
    BY <1>3, <1>5, <2>1, <2>2 DEF StoredInDb
  <2>3. CASE ~heap[oldestBlock].stored
    BY <1>2, <2>1, <2>3 DEF Anchored
  <2> QED
    BY <2>2, <2>3
<1>7. ASSUME NEW o \in C PROVE o[1] \in Hash /\ (o[1] = Genesis \/ Parent[o[1]] \in Hashes(C) \cup D)
  <2>1. CASE o = oldestBlock
    BY <1>3, <1>6, <2>1 DEF Obj
  <2>2. CASE o # oldestBlock
    <3>1. PICK p \in C : heap[o].backward = p
      BY <1>3, <2>2 DEF IsPath
    <3>2. Parent[o[1]] = p[1]
      BY <1>3, <1>7, <3>1 DEF Down
    <3> QED
      BY <1>3, <1>7, <3>1, <3>2 DEF Hashes, Obj
  <2> QED
    BY <2>1, <2>2
<1>8. Closed(Hashes(C) \cup D)
  BY <1>2, <1>4, <1>5, <1>7 DEF Closed, Hashes
<1>9. HeadHash(b) \in Hashes(C) \cup D
  BY <1>3 DEF HeadHash, IsPath, Hashes
<1> QED
  BY <1>1, <1>2, <1>8, <1>9, AncestorsIn

\* Two blocks of one chain have no evidence in common.
LEMMA ApartOnce ==
  ASSUME Inv, Tree, Apart
  PROVE  EvidenceOnce
<1> SUFFICES ASSUME NEW b \in DOMAIN branches, NEW g \in Ancestors[HeadHash(b)],
                    NEW h \in Ancestors[HeadHash(b)], g # h
             PROVE  Evds[g] \cap Evds[h] = {}
  BY DEF EvidenceOnce
<1> DEFINE OnDisk(x) == \E i \in 1 .. Len(db) : x = db[i]
           Unstored(x) == \E o \in branches[b].cache : x = o[1] /\ ~heap[o].stored
<1>1. ASSUME NEW x \in Ancestors[HeadHash(b)] PROVE OnDisk(x) \/ Unstored(x)
  <2>1. CASE \E i \in 1 .. Len(db) : x = db[i]
    BY <2>1
  <2>2. CASE \E o \in branches[b].cache : x = o[1]
    <3>1. PICK o \in branches[b].cache : x = o[1]
      BY <2>2
    <3>2. o \in Obj
      BY Typed
    <3>3. heap[o].stored => OnDisk(x)
      BY <3>1, <3>2 DEF Inv, StoredInDb
    <3> QED
      BY <3>1, <3>3
  <2> QED
    BY <1>1, <2>1, <2>2, ChainCovered DEF Hashes
<1>2. ASSUME NEW x, NEW y, x # y, OnDisk(x), OnDisk(y) PROVE Evds[x] \cap Evds[y] = {}
  BY <1>2 DEF Apart
<1>3. ASSUME NEW x, NEW y, Unstored(x), OnDisk(y) PROVE Evds[x] \cap Evds[y] = {}
  BY <1>3 DEF Apart
<1>4. ASSUME NEW x, NEW y, x # y, Unstored(x), Unstored(y) PROVE Evds[x] \cap Evds[y] = {}
  <2>1. IsEvds(branches[b].evds, branches[b].cache)
    BY DEF Tree, EvdsKnown
  <2> QED
    BY <1>4, <2>1 DEF IsEvds
<1> HIDE DEF OnDisk, Unstored
<1> QED
  BY <1>1, <1>2, <1>3, <1>4

\* An evidence is at most once on any chain, whatever leaves the cache, is
\* pruned or is loaded again, as long as no fork stays without a block
\* (branch.go verifyEvidence, chain.go maintain).
THEOREM EvidenceOnceOnly == Spec /\ [][~DeadFork]_vars => []EvidenceOnce
<1>1. Inv /\ Tree /\ Apart => EvidenceOnce
  BY ApartOnce
<1> QED
  BY <1>1, Invariance, TreeInvariant, PTL

-----------------------------------------------------------------------------
(* The process stays up *)

\* A path has one object at each height from the oldest block to its head.
LEMMA PathHeights ==
  ASSUME heap \in [Obj -> Block], Down, NEW C, NEW head, IsPath(C, head)
  PROVE  /\ \A o \in C : heap[o].height \in heap[oldestBlock].height .. heap[head].height
         /\ \A k \in heap[oldestBlock].height .. heap[head].height :
              \E o \in C : heap[o].height = k
<1>1. /\ C \subseteq Obj /\ head \in C /\ oldestBlock \in C
      /\ \A p \in C : heap[p].height <= heap[head].height
      /\ \A p \in C : p = oldestBlock \/ heap[p].backward \in C
  BY DEF IsPath
<1>2. \A p \in C : heap[p].height \in Nat
  BY <1>1, BackType
<1>3. PICK low \in C : \A q \in C : heap[low].height <= heap[q].height
  BY <1>1, Lowest
<1>4. low = oldestBlock
  <2> SUFFICES ASSUME low # oldestBlock PROVE FALSE
    OBVIOUS
  <2>1. PICK q \in C : q = heap[low].backward
    BY <1>1
  <2>2. heap[low].height = heap[q].height + 1
    BY <1>1, <2>1 DEF Down
  <2> QED
    BY <1>2, <1>3, <2>1, <2>2
<1>5. PICK l \in Nat : l = heap[oldestBlock].height
  BY <1>1, <1>2
<1>6. PICK H \in Nat : H = heap[head].height
  BY <1>1, <1>2
<1>7. \A o \in C : heap[o].height \in l .. H
  BY <1>1, <1>2, <1>3, <1>4, <1>5, <1>6
<1> DEFINE T == {n \in Nat : n <= H - l => \E o \in C : heap[o].height = H - n}
<1>8. 0 \in T
  <2>1. heap[head].height = H - 0
    BY <1>6
  <2> QED
    BY <1>1, <2>1
<1>9. ASSUME NEW n \in Nat, n \in T PROVE n + 1 \in T
  <2> SUFFICES ASSUME n + 1 <= H - l PROVE \E o \in C : heap[o].height = H - (n + 1)
    OBVIOUS
  <2>1. PICK o \in C : heap[o].height = H - n
    BY <1>9
  <2>2. o # oldestBlock
    BY <1>5, <2>1
  <2>3. PICK q \in C : q = heap[o].backward
    BY <1>1, <2>2
  <2>4. heap[o].height = heap[q].height + 1
    BY <1>1, <2>1, <2>3 DEF Down
  <2>5. heap[q].height = H - (n + 1)
    BY <1>2, <2>1, <2>3, <2>4
  <2> QED
    BY <2>5
<1>10. Nat \subseteq T
  <2> HIDE DEF T
  <2> QED
    BY <1>8, <1>9, SetInduction
<1>11. ASSUME NEW k \in l .. H PROVE \E o \in C : heap[o].height = k
  <2>1. PICK n \in Nat : n = H - k
    <3>1. H - k \in Nat
      OBVIOUS
    <3> QED
      BY <3>1, Zenon
  <2>2. n <= H - l /\ H - n = k
    BY <2>1
  <2> QED
    BY <1>10, <2>2
<1> QED
  BY <1>5, <1>6, <1>7, <1>11

\* So a path has as many objects as there are heights on it.
LEMMA PathCount ==
  ASSUME heap \in [Obj -> Block], Down, NEW C, NEW head, IsPath(C, head)
  PROVE  /\ Cardinality(C) = heap[head].height - heap[oldestBlock].height + 1
         /\ heap[oldestBlock].height <= heap[head].height
<1>1. /\ \A p, q \in C : heap[p].height = heap[q].height => p = q
      /\ C \subseteq Obj /\ head \in C /\ oldestBlock \in C
  BY DEF IsPath
<1>2. PICK l \in Nat : l = heap[oldestBlock].height
  BY <1>1, BackType
<1>3. PICK H \in Nat : H = heap[head].height
  BY <1>1, BackType
<1>4. /\ \A o \in C : heap[o].height \in l .. H
      /\ \A k \in l .. H : \E o \in C : heap[o].height = k
  BY <1>2, <1>3, PathHeights
<1>5. l <= H
  BY <1>1, <1>2, <1>4
<1> DEFINE g == [k \in l .. H |-> CHOOSE o \in C : heap[o].height = k]
<1>6. \A k \in l .. H : g[k] \in C /\ heap[g[k]].height = k
  BY <1>4
<1>7. g \in [l .. H -> C]
  BY <1>6
<1> HIDE DEF g
<1>8. \A i, j \in l .. H : g[i] = g[j] => i = j
  BY <1>6
<1>9. \A o \in C : \E k \in l .. H : g[k] = o
  <2> SUFFICES ASSUME NEW o \in C PROVE \E k \in l .. H : g[k] = o
    OBVIOUS
  <2>1. PICK k \in l .. H : k = heap[o].height
    BY <1>4
  <2> QED
    BY <1>1, <1>6, <2>1
<1>10. g \in Bijection(l .. H, C)
  BY <1>7, <1>8, <1>9 DEF Bijection, Injection, Surjection, IsInjective
<1>11. ExistsBijection(l .. H, C)
  BY <1>10 DEF ExistsBijection
<1>12. IsFiniteSet(l .. H) /\ Cardinality(l .. H) = H - l + 1
  BY <1>5, FS_Interval
<1>13. Cardinality(C) = Cardinality(l .. H)
  BY <1>11, <1>12, FS_Bijection
<1> QED
  BY <1>2, <1>3, <1>5, <1>12, <1>13

\* nextBlockTarget finds its reference blocks.
LEMMA TargetFound ==
  ASSUME Inv, Tree, Deep, NEW b \in DOMAIN branches
  PROVE  ~TargetBug(b)
<1>1. /\ heap \in [Obj -> Block] /\ Down /\ heap[oldestBlock].backward = Nil
      /\ IsPath(branches[b].cache, branches[b].head) /\ branches[b].head \in Obj
      /\ oldestBlock \in Obj
  BY Typed, TreeDown DEF Tree, Paths, Grounded
<1>2. PICK C : C = branches[b].cache
  OBVIOUS
<1>3. C = BackPath(branches[b].head)
  BY <1>1, <1>2, PathIsBackPath
<1>4. PICK H \in Nat : H = Height(b)
  BY <1>1, BackType DEF Height
<1>5. PICK l \in Nat : l = heap[oldestBlock].height
  BY <1>1, BackType
<1>6. Cardinality(C) = H - l + 1
  BY <1>1, <1>2, <1>4, <1>5, PathCount DEF Height
<1>7. l = 1 \/ H >= l + RefBlocks
  BY <1>4, <1>5 DEF Deep
<1>8. RefBlocks \in Nat
  BY BoundAssumption
<1> QED
  BY <1>3, <1>4, <1>6, <1>7, <1>8 DEF TargetBug

\* Heights and limits are natural numbers.
LEMMA Numbers ==
  ASSUME Inv
  PROVE  /\ \A b \in DOMAIN branches : Height(b) \in Nat
         /\ \A o \in Obj : heap[o].height \in Nat
         /\ oldestBlock \in Obj /\ longestBranch \in DOMAIN branches
         /\ Len(db) \in Nat /\ Len(db) # 0
         /\ Alpha \in Nat /\ SyncMax \in Nat /\ RefBlocks \in Nat
         /\ Alpha + RefBlocks <= SyncMax + 1
<1>1. \A o \in Obj : heap[o].height \in Nat
  BY Typed, BackType
<1>2. \A b \in DOMAIN branches : Height(b) \in Nat
  BY <1>1, Typed DEF Height
<1>3. Len(db) \in Nat /\ Len(db) # 0
  BY DEF Inv, TypeOK
<1> QED
  BY <1>1, <1>2, <1>3, Typed, BoundAssumption, LimitAssumption

\* A block k within alpha of the longest height h, and no lower than the
\* n blocks of the database, is r blocks above the oldest block w.
LEMMA OldestBehind ==
  ASSUME NEW w \in Nat, NEW r \in Nat, NEW s \in Nat, NEW a \in Nat, NEW n \in Nat,
         NEW k \in Nat, NEW h \in Nat, a + r <= s + 1, h > w + s \/ n >= w + r, k + a >= h, k >= n
  PROVE  k >= w + r
OBVIOUS

\* Steps that leave the blocks and the branches alone.
LEMMA SoundQuiet ==
  ASSUME Sound, UNCHANGED <<heap, branches, db, oldestBlock, longestBranch, restarts>>,
         proc' = "up", pc' # "flush" \/ pc' = pc
  PROVE  Sound'
<1>1. Deep'
  BY DEF Sound, Deep, Height
<1>2. Flushed'
  BY DEF Sound, Flushed, Height
<1>3. Close'
  BY DEF Sound, Close, Height
<1> QED
  BY <1>1, <1>2, <1>3 DEF Sound

\* The longest branch is switched to a branch that is not lower.
LEMMA SwitchSound ==
  ASSUME Inv, Sound, AddDone
  PROVE  Sound'
<1>1. UNCHANGED <<heap, branches, oldestBlock, db, proc, restarts>> /\ pc' = "idle"
  BY DEF AddDone, Release
<1>2. CASE UNCHANGED longestBranch
  BY <1>1, <1>2, SoundQuiet DEF Sound
<1>3. CASE longestBranch' \in getLongestBranch
  <2>1. \A b \in DOMAIN branches : Height(b)' = Height(b)
    BY <1>1 DEF Height
  <2>2. /\ longestBranch' \in DOMAIN branches
        /\ Height(longestBranch) <= Height(longestBranch')
    BY <1>3, Numbers DEF getLongestBranch
  <2>3. Height(longestBranch)' = Height(longestBranch')
    BY <1>1 DEF Height
  <2>4. PICK H \in Nat : H = Height(longestBranch)
    BY Numbers
  <2>5. PICK G \in Nat : G = Height(longestBranch')
    BY <2>2, Numbers
  <2>6. H <= G /\ Height(longestBranch)' = G
    BY <2>2, <2>3, <2>4, <2>5
  <2>7. Deep'
    BY <1>1, <2>1, <2>4, <2>6, Numbers DEF Sound, Deep
  <2>8. Flushed'
    BY <1>1, <2>1, <2>4, <2>6, Numbers DEF Sound, Flushed
  <2> QED
    BY <1>1, <2>7, <2>8 DEF Sound, Close
<1> QED
  BY <1>2, <1>3 DEF AddDone, notifyCheck

\* A fork that is not late begins above what is stored and what is dropped.
LEMMA ForkSound ==
  ASSUME Inv, Tree, Sound, ~LateFork, ~StoredFork, NEW blocks, NEW isLocal, addBlocks(blocks, isLocal)
  PROVE  Sound'
<1>1. /\ UNCHANGED <<heap, longestBranch, oldestBlock, db, proc, restarts>>
      /\ pc = "idle" /\ pc' = "add"
  BY DEF addBlocks, Idle
<1>2. CASE UNCHANGED branches
  BY <1>1, <1>2, SoundQuiet DEF Sound
<1>3. CASE createBranch(blocks[1])
  <2>1. PICK h : h = blocks[1]
    OBVIOUS
  <2>2. PICK b \in Forkable(h), id \in BranchIds :
          /\ IsNew(id) /\ br' = id
          /\ branches' = [c \in DOMAIN branches \cup {id} |->
                            IF c = id THEN newBranch(getBlock(b, Parent[h]))
                            ELSE branches[c]]
    BY <1>3, <2>1 DEF createBranch
  <2>3. id \notin DOMAIN branches
    BY <2>2, Typed DEF IsNew, Inv, TypeOK, BranchesOK, BranchIds
  <2>4. PICK match : match = getBlock(b, Parent[h])
    OBVIOUS
  <2>5. b \in DOMAIN branches /\ match \in branches[b].cache
    <3>1. b \in DOMAIN branches /\ b \in Holding(Parent[h])
      BY DEF Forkable, IsFirst
    <3>2. \E o \in branches[b].cache : o[1] = Parent[h]
      BY <3>1 DEF Holding, Hashes
    <3> QED
      BY <2>4, <3>1, <3>2 DEF getBlock
  <2>6. /\ DOMAIN branches' = DOMAIN branches \cup {id} /\ branches'[id].head = match
        /\ \A c \in DOMAIN branches : branches'[c] = branches[c]
    BY <2>2, <2>3, <2>4 DEF newBranch
  <2>7. \A c \in DOMAIN branches' : \E d \in DOMAIN branches :
          branches'[c].cache \subseteq branches[d].cache
    BY <1>3, ForkCaches
  <2>8. PICK k \in Nat : k = heap[match].height
    BY <2>5, Typed, Numbers
  <2>9. PICK H \in Nat : H = Height(longestBranch)
    BY Numbers
  <2>10. k + Alpha >= H /\ (restarts > 0 => k >= Len(db))
    <3>1. /\ ~(Base + Alpha < Height(longestBranch))
          /\ restarts > 0 => ~(Base < Len(db))
      BY <1>1, <2>2, <2>3, <2>6 DEF LateFork, StoredFork, NewFork
    <3>2. Base = k
      BY <2>2, <2>6, <2>8 DEF Base
    <3> QED
      BY <2>8, <2>9, <3>1, <3>2, Numbers
  <2>11. k >= 1
    <3>1. match \in Obj /\ k = Depth[match[1]]
      BY <2>5, <2>8, Typed DEF Tree, Paths, IsPath
    <3> QED
      BY <3>1, TreeAssumption DEF Obj
  <2>12. /\ Height(id)' = k /\ \A c \in DOMAIN branches : Height(c)' = Height(c)
         /\ Height(longestBranch)' = H
    BY <1>1, <2>6, <2>8, <2>9, Numbers DEF Height
  <2>13. k >= Len(db)
    <3>1. restarts > 0 \/ Len(db) = 1 \/ Len(db) + Alpha < H
      BY <2>9 DEF Sound, Flushed
    <3>2. PICK n \in Nat, a \in Nat : n = Len(db) /\ a = Alpha
      BY Numbers
    <3>3. k + a >= H /\ (k >= n \/ n = 1 \/ n + a < H)
      BY <2>10, <3>1, <3>2
    <3> QED
      BY <2>11, <3>2, <3>3
  <2>14. Deep'
    <3>1. CASE heap[oldestBlock].height = 1
      BY <1>1, <3>1 DEF Deep
    <3>2. CASE /\ \/ H > heap[oldestBlock].height + SyncMax
                  \/ Len(db) >= heap[oldestBlock].height + RefBlocks
               /\ \A c \in DOMAIN branches : Height(c) >= heap[oldestBlock].height + RefBlocks
      <4>1. k >= heap[oldestBlock].height + RefBlocks
        <5>1. PICK w \in Nat, r \in Nat, s \in Nat, a \in Nat, n \in Nat :
                w = heap[oldestBlock].height /\ r = RefBlocks /\ s = SyncMax
                /\ a = Alpha /\ n = Len(db) /\ a + r <= s + 1
          BY Numbers
        <5>2. (H > w + s \/ n >= w + r) /\ k + a >= H /\ k >= n
          BY <2>10, <2>13, <3>2, <5>1
        <5>3. k >= w + r
          BY <5>1, <5>2, OldestBehind
        <5> QED
          BY <5>1, <5>3
      <4> QED
        BY <1>1, <2>6, <2>12, <3>2, <4>1 DEF Deep
    <3> QED
      BY <2>9, <3>1, <3>2 DEF Sound, Deep
  <2>15. Flushed'
    <3>1. restarts > 0 \/ Len(db) = 1 \/ Len(db) + Alpha < H
      BY <2>9 DEF Sound, Flushed
    <3>3. \A c \in DOMAIN branches' : Height(c)' >= Len(db)
      BY <2>6, <2>12, <2>13 DEF Sound, Flushed
    <3>4. \A c \in DOMAIN branches' : \A o \in branches'[c].cache :
            heap[o].height <= Len(db) => heap[o].stored
      BY <2>7 DEF Sound, Flushed
    <3> QED
      BY <1>1, <2>12, <3>1, <3>3, <3>4 DEF Flushed
  <2> QED
    BY <1>1, <2>14, <2>15 DEF Sound, Close
<1> QED
  BY <1>2, <1>3 DEF addBlocks

\* A branch that grows.
LEMMA AddSound ==
  ASSUME Inv, Tree, Sound, pc = "add", batch # <<>>, "ok" \in verifyBlock(br, Head(batch)),
         add(br, Head(batch)), UNCHANGED <<pc, db, oldestBlock, longestBranch, proc, restarts>>
  PROVE  Sound'
<1>1. PICK h : h = Head(batch)
  OBVIOUS
<1>2. PICK last : last = branches[br].head
  OBVIOUS
<1>3. PICK o : o = NewObj(h)
  OBVIOUS
<1>4. /\ heap \in [Obj -> Block] /\ br \in DOMAIN branches /\ last \in Obj
      /\ h \in Hash \ {Genesis}
      /\ \A b \in DOMAIN branches : branches[b].head \in Obj /\ branches[b].cache \subseteq Obj
  BY <1>1, <1>2, Typed
<1>5. o \in Obj /\ ~Referenced(o) /\ o[1] = h
  BY <1>1, <1>3, <1>4, NewObjFresh DEF add
<1>6. /\ o # last /\ o # oldestBlock
      /\ \A b \in DOMAIN branches : o \notin branches[b].cache /\ o # branches[b].head
  BY <1>2, <1>4, <1>5, Unreferenced
<1>7. Hung(o, last, heap[last].height)
  BY <1>1, <1>2, <1>3, <1>4, <1>5, <1>6, AddHeap
<1>8. /\ DOMAIN branches' = DOMAIN branches /\ branches'[br].head = o
      /\ branches'[br].cache \subseteq branches[br].cache \cup {o}
      /\ \A b \in DOMAIN branches : b # br => branches'[b] = branches[b]
  <2>1. branches' = [branches EXCEPT ![br] =
            [head |-> o, cache |-> Store(branches[br].cache, o),
             evds |-> branches[br].evds \cup Evds[h]]]
    BY <1>1, <1>3 DEF add
  <2>2. Store(branches[br].cache, o) \subseteq branches[br].cache \cup {o}
    BY DEF Store
  <2> QED
    BY <1>4, <2>1, <2>2
<1>9. /\ heap'[o].height = Height(br) + 1
      /\ \A b \in DOMAIN branches : Height(b)' = IF b = br THEN Height(b) + 1 ELSE Height(b)
  BY <1>2, <1>4, <1>5, <1>6, <1>7, <1>8 DEF Hung, Height
<1>10. /\ \A b \in DOMAIN branches : Height(b)' \in Nat /\ Height(b)' >= Height(b)
       /\ Height(longestBranch)' >= Height(longestBranch) /\ Height(longestBranch)' \in Nat
       /\ heap'[oldestBlock].height = heap[oldestBlock].height
  <2>1. \A b \in DOMAIN branches : Height(b)' \in Nat /\ Height(b)' >= Height(b)
    BY <1>9, Numbers
  <2>3. heap'[oldestBlock].height = heap[oldestBlock].height
    BY <1>6, <1>7, Typed DEF Hung
  <2> QED
    BY <2>1, <2>3, Numbers DEF Height
<1>11. Deep'
  <2>1. PICK w \in Nat, r \in Nat, s \in Nat :
          w = heap[oldestBlock].height /\ r = RefBlocks /\ s = SyncMax
    BY Numbers
  <2>2. CASE heap[oldestBlock].height = 1
    BY <1>10, <2>2 DEF Deep
  <2>3. CASE /\ \/ Height(longestBranch) > w + s
                \/ Len(db) >= w + r
             /\ \A b \in DOMAIN branches : Height(b) >= w + r
    <3>1. \A b \in DOMAIN branches' : Height(b)' >= w + r
      BY <1>8, <1>10, <2>1, <2>3, Numbers
    <3>2. Height(longestBranch)' > w + s \/ Len(db) >= w + r
      BY <1>10, <2>1, <2>3, Numbers
    <3> QED
      BY <1>10, <2>1, <3>1, <3>2 DEF Deep
  <2> QED
    BY <2>1, <2>2, <2>3 DEF Sound, Deep
<1>12. Flushed'
  <2>1. ASSUME NEW b \in DOMAIN branches, NEW p \in branches'[b].cache,
               heap'[p].height <= Len(db)
        PROVE  heap'[p].stored
    <3>1. p # o
      BY <1>4, <1>9, <2>1, Numbers DEF Sound, Flushed
    <3>2. p \in branches[b].cache /\ p \in Obj
      BY <1>4, <1>8, <2>1, <3>1
    <3>3. heap'[p].height = heap[p].height /\ heap'[p].stored = heap[p].stored
      BY <1>7, <3>1, <3>2 DEF Hung
    <3> QED
      BY <2>1, <3>2, <3>3 DEF Sound, Flushed
  <2>2. \A b \in DOMAIN branches : Height(b)' >= Len(db)
    BY <1>10, Numbers DEF Sound, Flushed
  <2>3. restarts > 0 \/ Len(db) = 1 \/ Len(db) + Alpha < Height(longestBranch)'
    BY <1>10, Numbers DEF Sound, Flushed
  <2> QED
    BY <1>8, <2>1, <2>2, <2>3 DEF Flushed
<1> QED
  BY <1>11, <1>12 DEF Sound, Close

\* After the pruning no branch lags behind by more than alpha.
LEMMA PruneSound ==
  ASSUME Inv, Inv', Tree, Sound, PruneStep
  PROVE  Sound'
<1>1. UNCHANGED <<heap, longestBranch, oldestBlock, db, proc, restarts>>
  BY DEF PruneStep
<1>2. ASSUME NEW b \in DOMAIN branches, pc' = "remove",
             branches' = [c \in DOMAIN branches \ {b} |-> branches[c]]
      PROVE  Sound'
  <2>1. \A c \in DOMAIN branches' : c \in DOMAIN branches /\ branches'[c] = branches[c]
    BY <1>2
  <2>2. longestBranch \in DOMAIN branches'
    BY <1>1, Typed DEF Inv, TypeOK, BranchesOK
  <2>3. /\ \A c \in DOMAIN branches' : Height(c)' = Height(c)
        /\ Height(longestBranch)' = Height(longestBranch)
    BY <1>1, <2>1, <2>2 DEF Height
  <2>4. Deep'
    BY <1>1, <2>1, <2>3 DEF Sound, Deep
  <2>5. Flushed'
    BY <1>1, <2>1, <2>3 DEF Sound, Flushed
  <2> QED
    BY <1>1, <1>2, <2>4, <2>5 DEF Sound, Close
<1>3. CASE UNCHANGED branches /\ \A b \in DOMAIN branches : ~Pruned(b)
  <2>1. Height(longestBranch)' = Height(longestBranch) /\ \A c : Height(c)' = Height(c)
    BY <1>1, <1>3 DEF Height
  <2>2. Deep'
    BY <1>1, <1>3, <2>1 DEF Sound, Deep
  <2>3. Flushed'
    BY <1>1, <1>3, <2>1 DEF Sound, Flushed
  <2>4. ASSUME NEW b \in DOMAIN branches PROVE Height(longestBranch) <= Height(b) + Alpha
    <3>1. PICK H \in Nat : H = Height(longestBranch)
      BY Numbers
    <3>2. PICK h \in Nat : h = Height(b)
      BY Numbers
    <3>3. H < Wrap
      <4>1. branches[longestBranch].head \in branches[longestBranch].cache
        BY Typed DEF Tree, Paths, IsPath
      <4>2. branches[longestBranch].head \in Obj /\ H = Depth[branches[longestBranch].head[1]]
        BY <3>1, <4>1, Typed DEF Tree, Paths, IsPath, Height
      <4> QED
        BY <4>2, LimitAssumption DEF Obj
    <3>4. ~((H - h) % Wrap > Alpha)
      BY <1>3, <3>1, <3>2 DEF Pruned, Lag
    <3>5. CASE h <= H
      <4>1. H - h \in Nat /\ H - h < Wrap
        BY <3>3, <3>5, BoundAssumption
      <4>2. (H - h) % Wrap = H - h
        BY <4>1, BoundAssumption
      <4> QED
        BY <3>1, <3>2, <3>4, <4>2, BoundAssumption
    <3>6. CASE ~(h <= H)
      BY <3>1, <3>2, <3>6, BoundAssumption
    <3> QED
      BY <3>5, <3>6
  <2>5. Close'
    BY <1>3, <2>1, <2>4 DEF Close
  <2> QED
    BY <1>1, <2>2, <2>3, <2>5 DEF Sound
<1> QED
  BY <1>2, <1>3 DEF PruneStep

\* Removing a branch does not reach the end of the references: every branch
\* has the oldest block, and the longest one is not removed.
LEMMA RemoveSound ==
  ASSUME Inv, Tree, Sound, RemoveStep
  PROVE  Sound'
<1>1. /\ pc = "remove" /\ UNCHANGED <<oldestBlock, longestBranch, branches, db, restarts>>
      /\ iter \in Obj /\ heap \in [Obj -> Block]
  BY Typed DEF RemoveStep
<1>2. CASE pc' = "prune" /\ UNCHANGED <<heap, proc>>
  BY <1>1, <1>2, SoundQuiet DEF Sound
<1>3. CASE heap[iter].fordward = {} /\ heap[iter].backward = Nil
  <2>1. iter = oldestBlock
    BY <1>1, <1>3, NilNoObj DEF Tree, Removing
  <2>2. longestBranch \in DOMAIN branches /\ branches[longestBranch].head # oldestBlock
    BY <1>1, <2>1, Typed DEF Tree, Removing
  <2>3. /\ IsPath(branches[longestBranch].cache, branches[longestBranch].head)
        /\ branches[longestBranch].cache \subseteq Obj
    BY <2>2, Typed DEF Tree, Paths
  <2>4. PICK q \in branches[longestBranch].cache : heap[q].backward = oldestBlock
    BY <2>2, <2>3 DEF IsPath
  <2>5. q \in heap[iter].fordward
    BY <1>1, <2>1, <2>3, <2>4 DEF Tree, Mutual
  <2> QED
    BY <1>3, <2>5
<1>4. CASE /\ heap[iter].backward # Nil /\ UNCHANGED <<pc, proc>>
           /\ heap' = [heap EXCEPT ![heap[iter].backward].fordward = Delete(@, iter),
                                   ![iter].backward = Nil]
  <2>1. heap[iter].backward \in Obj
    BY <1>1, <1>4, BackType
  <2>2. \A q \in Obj : heap'[q].height = heap[q].height /\ heap'[q].stored = heap[q].stored
    BY <1>1, <1>4, <2>1 DEF Block
  <2>3. /\ \A b \in DOMAIN branches : Height(b)' = Height(b)
        /\ Height(longestBranch)' = Height(longestBranch)
    BY <1>1, <2>2, Typed DEF Height
  <2>4. Deep'
    BY <1>1, <2>2, <2>3, Typed DEF Sound, Deep
  <2>5. Flushed'
    BY <1>1, <2>2, <2>3, Typed DEF Sound, Flushed
  <2> QED
    BY <1>1, <1>4, <2>4, <2>5 DEF Sound, Close
<1> QED
  BY <1>2, <1>3, <1>4 DEF RemoveStep

\* A block to be stored has the next height.
LEMMA NextHeight ==
  ASSUME Inv, Tree, Sound, pc = "flush", ~heap[iter].stored
  PROVE  heap[iter].height = Len(db) + 1
<1>1. iter \in Obj /\ longestBranch \in DOMAIN branches
  BY Typed
<1>2. iter \in branches[longestBranch].cache
  BY <1>1 DEF Tree, Flushing
<1>3. PICK k \in Nat, n \in Nat : k = heap[iter].height /\ n = Len(db)
  BY <1>1, Numbers
<1>4. ~(k <= n)
  BY <1>1, <1>2, <1>3 DEF Sound, Flushed
<1>5. k - 1 \in 1 .. n
  BY <1>3 DEF Inv, Anchored
<1> QED
  BY <1>3, <1>4, <1>5

\* The flush stores what alpha blocks lie above, and keeps what the difficulty
\* needs.
LEMMA FlushSound ==
  ASSUME Inv, Tree, Sound, FlushStep
  PROVE  Sound'
<1>1. pc = "flush" /\ UNCHANGED <<longestBranch, restarts>> /\ longestBranch \in DOMAIN branches
  BY Typed DEF FlushStep
<1>2. CASE Release /\ UNCHANGED <<heap, branches, oldestBlock, db, proc>>
  BY <1>1, <1>2, SoundQuiet DEF Release, Sound
<1>3. CASE ~heap[iter].stored /\ heap[iter].height # Len(db) + 1
  BY <1>1, <1>3, NextHeight
<1>4. ASSUME Buried(iter), NEW child \in heap[iter].fordward, Advance(iter, child),
             \/ heap[iter].stored /\ UNCHANGED db
             \/ ~heap[iter].stored /\ PutBlock(iter),
             UNCHANGED <<pc, proc>>
      PROVE  Sound'
  <2>1. PICK o \in Obj : o = iter
    BY <1>1, Typed
  <2>2. child \in Obj /\ heap[o].fordward = {child}
    BY <1>4, <2>1 DEF Buried
  <2>3. /\ heap \in [Obj -> Block]
        /\ \A b \in DOMAIN branches : branches[b].head \in Obj /\ branches[b].cache \subseteq Obj
    BY Typed
  <2>4. /\ heap'[o].stored = TRUE
        /\ \A q \in Obj : /\ heap'[q].height = heap[q].height
                          /\ q # o => heap'[q].stored = heap[q].stored
    BY <1>4, <2>1, <2>2, <2>3, AdvanceHeap
  <2>5. /\ DOMAIN branches' = DOMAIN branches
        /\ \A b \in DOMAIN branches : /\ branches'[b].head = branches[b].head
                                      /\ branches'[b].cache \subseteq branches[b].cache
    BY <1>4, <2>1 DEF Advance, removeFromCache, Delete
  <2>6. /\ \A b \in DOMAIN branches : Height(b)' = Height(b)
        /\ Height(longestBranch)' = Height(longestBranch)
    BY <1>1, <2>3, <2>4, <2>5 DEF Height
  <2>7. \A b \in DOMAIN branches : /\ o \in branches[b].cache /\ child \in branches[b].cache
                                   /\ heap[child].height = heap[o].height + 1
    BY <1>1, <2>1, <2>2, OnlyChild
  <2>8. PICK H \in Nat, k \in Nat : H = Height(longestBranch) /\ k = heap[o].height
    BY Numbers
  <2>9. PICK a \in Nat, s \in Nat, r \in Nat :
          a = Alpha /\ s = SyncMax /\ r = RefBlocks /\ a + r <= s + 1
    BY Numbers
  <2>10. H > k + a
    <3>1. Lag(H, k) = H - k /\ Lag(H, k) > a
      BY <1>1, <1>4, <2>1, <2>7, <2>8, <2>9, LagOnBranch DEF Buried
    <3> QED
      BY <3>1
  <2>11. Deep'
    <3>1. CASE oldestBlock' = oldestBlock
      <4>1. Len(db') >= Len(db) /\ Len(db) \in Nat /\ Len(db') \in Nat
        BY <1>4, <2>1, Numbers DEF PutBlock, Obj, Inv, TypeOK
      <4> QED
        BY <2>4, <2>5, <2>6, <2>9, <3>1, <4>1, Numbers DEF Sound, Deep
    <3>2. CASE oldestBlock' = child /\ Evictable(child)
      <4>1. Lag(H, k + 1) = H - (k + 1) /\ Lag(H, k + 1) > s
        BY <1>1, <2>7, <2>8, <2>9, <3>2, LagOnBranch DEF Evictable
      <4>2. H > (k + 1) + s
        BY <4>1
      <4>3. ASSUME NEW b \in DOMAIN branches PROVE Height(b) >= (k + 1) + r
        <5>1. PICK h \in Nat : h = Height(b)
          BY Numbers
        <5>2. H <= h + a
          BY <1>1, <2>8, <2>9, <5>1 DEF Sound, Close
        <5>3. h >= (k + 1) + r
          BY <2>9, <4>2, <5>2
        <5> QED
          BY <5>1, <5>3
      <4>4. heap'[oldestBlock'].height = k + 1
        BY <1>1, <2>2, <2>4, <2>7, <2>8, <3>2
      <4> QED
        BY <2>5, <2>6, <2>8, <2>9, <4>2, <4>3, <4>4 DEF Deep
    <3> QED
      BY <1>4, <3>1, <3>2 DEF Advance
  <2>12. \A b \in DOMAIN branches : /\ Height(b) >= Len(db)
                                    /\ \A p \in branches[b].cache :
                                         heap[p].height <= Len(db) => heap[p].stored
    BY DEF Sound, Flushed
  <2>13. Flushed'
    <3>1. CASE db' = db
      <4>1. ASSUME NEW b \in DOMAIN branches, NEW p \in branches'[b].cache,
                   heap'[p].height <= Len(db)
            PROVE  heap'[p].stored
        BY <2>3, <2>4, <2>5, <2>12, <4>1
      <4>2. restarts > 0 \/ Len(db) = 1 \/ Len(db) + Alpha < Height(longestBranch)'
        BY <2>6 DEF Sound, Flushed
      <4> QED
        BY <1>1, <2>5, <2>6, <2>12, <3>1, <4>1, <4>2 DEF Flushed
    <3>2. CASE ~heap[o].stored /\ PutBlock(o)
      <4>1. k = Len(db) + 1 /\ Len(db) \in Nat
        BY <1>1, <2>1, <2>8, <3>2, NextHeight, Numbers
      <4>2. Len(db') = k
        BY <3>2, <4>1 DEF PutBlock, Obj, Inv, TypeOK
      <4>3. ASSUME NEW b \in DOMAIN branches
            PROVE  /\ Height(b) >= k
                   /\ \A p \in branches[b].cache : heap[p].height = k => p = o
        BY <2>7, <2>8, <4>3, Numbers DEF Tree, Paths, IsPath, Height
      <4>4. ASSUME NEW b \in DOMAIN branches, NEW p \in branches'[b].cache, heap'[p].height <= k
            PROVE  heap'[p].stored
        <5>1. p \in branches[b].cache /\ p \in Obj
          BY <2>3, <2>5, <4>4
        <5>2. CASE p = o
          BY <2>4, <5>2
        <5>3. CASE p # o
          <6>1. heap[p].height # k /\ heap[p].height <= k /\ heap[p].height \in Nat
            BY <2>4, <4>3, <4>4, <5>1, <5>3, Numbers
          <6>2. heap[p].height <= Len(db)
            BY <4>1, <6>1
          <6> QED
            BY <2>4, <2>12, <5>1, <5>3, <6>2
        <5> QED
          BY <5>2, <5>3
      <4>5. k + Alpha < Height(longestBranch)'
        BY <2>6, <2>8, <2>9, <2>10
      <4> QED
        BY <2>5, <2>6, <4>2, <4>3, <4>4, <4>5 DEF Flushed
    <3> QED
      BY <1>4, <2>1, <3>1, <3>2
  <2>14. Close'
    BY <1>1, <2>5, <2>6 DEF Sound, Close
  <2> QED
    BY <1>4, <2>11, <2>13, <2>14 DEF Sound
<1> QED
  BY <1>2, <1>3, <1>4 DEF FlushStep

\* What is loaded is stored, and reaches as far back as the difficulty needs.
LEMMA RestartSound ==
  ASSUME Inv, Restart
  PROVE  Sound'
<1>1. PICK x, lo, n : Row(x, lo, n) /\ OneBranch(x, lo, n)
  BY LoadRow
<1>2. /\ oldestBlock' = x[lo] /\ DOMAIN branches' = {1} /\ branches'[1].head = x[n]
      /\ branches'[1].cache = {x[i] : i \in lo .. n}
  BY <1>1 DEF OneBranch
<1>3. /\ n = Len(db) /\ n \in Nat /\ lo \in lo .. n /\ n \in lo .. n /\ lo \in 1 .. n
      /\ \A i \in lo .. n : heap'[x[i]].height = i /\ heap'[x[i]].stored = TRUE
  BY <1>1 DEF Row
<1>4. /\ longestBranch' = 1 /\ db' = db /\ pc' = "idle" /\ proc' = "up"
      /\ restarts' = restarts + 1
      /\ oldestBlock' = <<db[IF Len(db) > RefBlocks THEN Len(db) - RefBlocks ELSE 1], 1>>
  BY DEF Restart, initFromDB, Release
<1>5. Height(1)' = n
  BY <1>2, <1>3 DEF Height
<1>6. heap'[oldestBlock'].height = lo
  BY <1>2, <1>3
<1>7. lo = 1 \/ n = lo + RefBlocks
  <2>1. \A i \in 1 .. n : Depth[db[i]] = i
    BY <1>3 DEF Inv, DbDepth
  <2>2. x[lo][1] = db[lo]
    BY <1>1, <1>3 DEF Row
  <2>3. PICK r \in Nat : r = RefBlocks
    BY Numbers
  <2>4. PICK low \in 1 .. n : low = IF n > r THEN n - r ELSE 1
    <3>1. (IF n > r THEN n - r ELSE 1) \in 1 .. n
      BY <1>3, <2>3
    <3> QED
      BY <3>1, Zenon
  <2>5. db[lo] = db[low]
    BY <1>2, <1>3, <1>4, <2>2, <2>3, <2>4
  <2>6. lo = low
    BY <1>3, <2>1, <2>5
  <2> QED
    BY <1>3, <2>3, <2>4, <2>6
<1>8. restarts' > 0
  BY <1>4, BoundAssumption DEF Inv, TypeOK
<1>9. Deep'
  BY <1>2, <1>3, <1>4, <1>5, <1>6, <1>7, Numbers DEF Deep
<1>10. Flushed'
  BY <1>2, <1>3, <1>4, <1>5, <1>8 DEF Flushed
<1> QED
  BY <1>4, <1>9, <1>10 DEF Sound, Close

\* What peers and the miner do when the first block of a fork is valid, it
\* branches off within alpha of the longest branch and, after a restart, not
\* below the end of the database.
Undisturbed == ~DeadFork /\ ~LateFork /\ ~StoredFork

\* Every step of an undisturbed process leaves it sound.
LEMMA SoundStep ==
  ASSUME Inv, Inv', Tree, Sound, [Next]_vars, [Undisturbed]_vars
  PROVE  Sound'
<1>1. ~LateFork /\ ~StoredFork
  BY DEF Undisturbed, LateFork, StoredFork, NewFork, vars, opVars
<1>2. CASE AddRemote \/ Mined
  BY <1>1, <1>2, ForkSound DEF AddRemote, Mined
<1>3. CASE AddNext
  <2>1. pc = "add" /\ batch # <<>> /\ UNCHANGED <<db, oldestBlock, longestBranch, restarts>>
    BY <1>3 DEF AddNext
  <2>2. CASE /\ "ok" \in verifyBlock(br, Head(batch)) /\ add(br, Head(batch))
             /\ UNCHANGED <<pc, proc>>
    BY <2>1, <2>2, AddSound
  <2>3. CASE Release /\ UNCHANGED <<heap, branches, proc>>
    BY <2>1, <2>3, SoundQuiet DEF Release, Sound
  <2>4. "fatal" \notin verifyBlock(br, Head(batch))
    <3>1. ~TargetBug(br)
      BY <2>1, Typed, TargetFound DEF Sound
    <3> QED
      BY <3>1 DEF verifyBlock
  <2> QED
    BY <1>3, <2>2, <2>3, <2>4 DEF AddNext
<1>4. CASE StartRound \/ Interrupted
  <2>1. ~TargetBug(longestBranch)
    BY Typed, TargetFound DEF Sound
  <2>2. /\ proc' = "up"
        /\ UNCHANGED <<heap, branches, db, oldestBlock, longestBranch, pc, restarts>>
    BY <1>4, <2>1 DEF StartRound, Interrupted, NewRound, chainVars, opVars
  <2> QED
    BY <2>2, SoundQuiet
<1>5. CASE MaintainBegin \/ MinedInVain \/ UNCHANGED vars
  BY <1>5, SoundQuiet DEF MaintainBegin, MinedInVain, vars, chainVars, opVars, Sound
<1>6. CASE Restart
  BY <1>6, RestartSound
<1> QED
  BY <1>2, <1>3, <1>4, <1>5, <1>6, SwitchSound, PruneSound, RemoveSound, FlushSound DEF Next

\* The genesis block is stored, and it is where the difficulty begins.
LEMMA SoundInit ==
  ASSUME Init
  PROVE  Sound
<1>1. PICK g : g = <<Genesis, 1>>
  OBVIOUS
<1>2. g \in Obj
  BY <1>1, TreeAssumption, BoundAssumption DEF Obj
<1>3. heap[g].height = 1 /\ heap[g].stored = TRUE
  BY <1>1, <1>2 DEF Init, FreeBlock
<1>4. /\ oldestBlock = g /\ pc = "idle" /\ Len(db) = 1 /\ proc = "up"
      /\ branches = [b \in {1} |-> [head |-> g, cache |-> {g}, evds |-> Evds[Genesis]]]
  BY <1>1 DEF Init
<1> QED
  BY <1>3, <1>4 DEF Sound, Deep, Flushed, Close, Height

\* The tree and the flush of an undisturbed process.
LEMMA SoundInvariant == Spec /\ [][Undisturbed]_vars => [](Inv /\ Tree /\ Sound)
<1>1. Init => Sound
  BY SoundInit
<1>2. Inv /\ Inv' /\ Tree /\ Sound /\ [Next]_vars /\ [Undisturbed]_vars => Sound'
  BY SoundStep
<1>3. [Undisturbed]_vars => [~DeadFork]_vars
  BY DEF Undisturbed
<1> QED
  BY <1>1, <1>2, <1>3, Invariance, TreeInvariant, PTL DEF Spec

\* The process never ends itself: remove never runs out of references
\* (block.go:82), PutBlock never refuses a height (badger.go:96) and
\* nextBlockTarget finds its reference blocks (branch.go:107), whatever the
\* interleaving of peers, miner and maintain.
THEOREM RunsOn == Spec /\ [][Undisturbed]_vars => []StaysUp
<1>1. Sound => StaysUp
  BY DEF Sound, StaysUp
<1> QED
  BY <1>1, SoundInvariant, PTL

\* The caches of a branch are exactly its chain back to the oldest block, and
\* reach back as far as the difficulty needs (branch.go, chain.go maintain).
THEOREM CachesArePaths == Spec /\ [][Undisturbed]_vars => []CacheIsPath
<1>1. ASSUME Inv, Tree, Sound PROVE CacheIsPath
  <2> SUFFICES ASSUME NEW b \in DOMAIN branches
               PROVE  /\ branches[b].cache = BackPath(branches[b].head)
                      /\ branches[b].evds = UNION {Evds[h] : h \in Hashes(BackPath(branches[b].head))}
                      /\ oldestBlock \in BackPath(branches[b].head)
                      /\ ~TargetBug(b)
    BY DEF CacheIsPath
  <2>1. /\ heap \in [Obj -> Block] /\ Down /\ heap[oldestBlock].backward = Nil
        /\ IsPath(branches[b].cache, branches[b].head)
    BY <1>1, Typed, TreeDown DEF Tree, Paths, Grounded
  <2>2. branches[b].cache = BackPath(branches[b].head)
    BY <2>1, PathIsBackPath
  <2>3. branches[b].evds = UNION {Evds[h] : h \in Hashes(branches[b].cache)}
    BY <1>1 DEF Tree, EvdsKnown, IsEvds
  <2>4. oldestBlock \in branches[b].cache
    BY <2>1 DEF IsPath
  <2>5. ~TargetBug(b)
    BY <1>1, TargetFound DEF Sound
  <2> QED
    BY <2>2, <2>3, <2>4, <2>5
<1>2. Inv /\ Tree /\ Sound => CacheIsPath
  BY <1>1
<1> QED
  BY <1>2, SoundInvariant, PTL

-----------------------------------------------------------------------------
(***************************************************************************)
(* Proofs about what others are told of the chain: the answers of the query*)
(* cache (QCache) and the blocks served to a peer that is behind           *)
(* (ChainSync), for every tree of blocks.                                  *)
(*                                                                         *)
(* Both read the tree of pointers at one moment and are used at a later    *)
(* one. What was read then stays right for two reasons: blocks are named by*)
(* hashes, so that heights and parents are facts about the names, and the  *)
(* database only grows.                                                    *)
(***************************************************************************)

\* The cache of the longest branch is its path.
LEMMA LongestPath ==
  ASSUME Inv, Tree
  PROVE  LET C == branches[longestBranch].cache
             head == branches[longestBranch].head
         IN  /\ heap \in [Obj -> Block] /\ Down /\ C \subseteq Obj
             /\ IsPath(C, head) /\ C = BackPath(head)
<1>1. /\ heap \in [Obj -> Block] /\ Down /\ heap[oldestBlock].backward = Nil
      /\ longestBranch \in DOMAIN branches /\ branches[longestBranch].cache \subseteq Obj
  BY Typed, TreeDown DEF Tree, Grounded
<1>2. IsPath(branches[longestBranch].cache, branches[longestBranch].head)
  BY <1>1 DEF Tree, Paths
<1> QED
  BY <1>1, <1>2, PathIsBackPath

-----------------------------------------------------------------------------
(* The query cache *)

\* The copy goes on where the database ended when it was made: it has no gap,
\* and the block below each of its blocks is its parent.
Copied ==
  /\ \A h \in Heights : h \in Nat /\ sortedBlocks[h] \in Hash \ {Genesis}
  /\ \A h \in Heights :
       IF h - 1 \in Heights THEN Parent[sortedBlocks[h]] = sortedBlocks[h-1]
       ELSE h - 1 \in 1 .. Len(db) /\ Parent[sortedBlocks[h]] = db[h-1]
  /\ \A h, k \in Heights : \A i \in h .. k : i \in Heights
  /\ Heights = {} \/ \E top \in Heights : \A h \in Heights : h <= top

\* Neither copy nor database is ahead of the longest branch.
Below ==
  /\ Len(db) <= Height(longestBranch)
  /\ \A h \in Heights : h <= Height(longestBranch)

\* The blocks that are copied: the upper part of the path of the longest
\* branch, down to the first stored block.
LEMMA Unstored ==
  ASSUME Inv, Tree, NEW B, B = GetUnstoredBlocks
  PROVE  /\ B \subseteq branches[longestBranch].cache
         /\ \A o, p \in B : heap[o].height = heap[p].height => o = p
         /\ \A o \in B : ~heap[o].stored /\ o[1] \in Hash \ {Genesis} /\ heap[o].height \in Nat
         /\ \A o \in B :
              \/ \E p \in B : heap[p].height = heap[o].height - 1 /\ Parent[o[1]] = p[1]
              \/ /\ \A p \in B : heap[p].height # heap[o].height - 1
                 /\ heap[o].height - 1 \in 1 .. Len(db)
                 /\ db[heap[o].height - 1] = Parent[o[1]]
         /\ \A o, p \in B : \A i \in heap[o].height .. heap[p].height :
              \E q \in B : heap[q].height = i
         /\ \/ branches[longestBranch].head \in B
            \/ B = {} /\ Height(longestBranch) \in 1 .. Len(db)
<1>1. PICK C, head : C = branches[longestBranch].cache /\ head = branches[longestBranch].head
  OBVIOUS
<1>2. /\ heap \in [Obj -> Block] /\ Down /\ C \subseteq Obj
      /\ IsPath(C, head) /\ C = BackPath(head)
  BY <1>1, LongestPath
<1>3. /\ head \in C /\ oldestBlock \in C
      /\ \A o \in C : heap[o].height <= heap[head].height
      /\ \A o \in C : o = oldestBlock \/ heap[o].backward \in C
      /\ \A o, p \in C : heap[o].height = heap[p].height => o = p
  BY <1>2 DEF IsPath
<1>4. \A o \in C : heap[o].height \in Nat /\ o \in Obj
  BY <1>2, BackType
<1>5. B = {o \in C : \A p \in C : heap[p].height >= heap[o].height => ~heap[p].stored}
  BY <1>1, <1>2 DEF GetUnstoredBlocks
<1>6. B \subseteq C /\ \A o \in B : ~heap[o].stored
  BY <1>4, <1>5
<1>7. \A o \in C : heap[o].stored => heap[o].height \in 1 .. Len(db) /\ db[heap[o].height] = o[1]
  BY <1>4 DEF Inv, StoredInDb
<1>8. \A o \in C : o # oldestBlock =>
        /\ heap[o].backward \in C /\ heap[heap[o].backward].height = heap[o].height - 1
        /\ o[1] # Genesis /\ Parent[o[1]] = heap[o].backward[1]
  <2> SUFFICES ASSUME NEW o \in C, o # oldestBlock
               PROVE  /\ heap[o].backward \in C /\ heap[heap[o].backward].height = heap[o].height - 1
                      /\ o[1] # Genesis /\ Parent[o[1]] = heap[o].backward[1]
    OBVIOUS
  <2>1. PICK p \in C : p = heap[o].backward
    BY <1>3
  <2>2. heap[o].height = heap[p].height + 1 /\ o[1] # Genesis /\ Parent[o[1]] = p[1]
    BY <1>2, <1>4, <2>1 DEF Down
  <2> QED
    BY <1>4, <2>1, <2>2
<1>9. oldestBlock \in B => /\ oldestBlock[1] # Genesis
                           /\ heap[oldestBlock].height - 1 \in 1 .. Len(db)
                           /\ db[heap[oldestBlock].height - 1] = Parent[oldestBlock[1]]
  BY <1>6 DEF Inv, Anchored
<1>10. \A o \in B : o[1] \in Hash \ {Genesis}
  BY <1>4, <1>6, <1>8, <1>9 DEF Obj
<1>11. ASSUME NEW o \in B
       PROVE  \/ \E p \in B : heap[p].height = heap[o].height - 1 /\ Parent[o[1]] = p[1]
              \/ /\ \A p \in B : heap[p].height # heap[o].height - 1
                 /\ heap[o].height - 1 \in 1 .. Len(db)
                 /\ db[heap[o].height - 1] = Parent[o[1]]
  <2>1. CASE o = oldestBlock
    <3>1. \A p \in C : heap[p].height >= heap[oldestBlock].height
      BY <1>2, <1>4, PathHeights
    <3> QED
      BY <1>3, <1>4, <1>6, <1>9, <2>1, <3>1
  <2>2. CASE o # oldestBlock
    <3>1. PICK p \in C : /\ p = heap[o].backward /\ heap[p].height = heap[o].height - 1
                         /\ Parent[o[1]] = p[1]
      BY <1>6, <1>8, <2>2
    <3>2. CASE p \in B
      BY <3>1, <3>2
    <3>3. CASE p \notin B
      <4>1. PICK q \in C : heap[q].height >= heap[p].height /\ heap[q].stored
        BY <1>5, <3>3
      <4>2. ~(heap[q].height >= heap[o].height)
        BY <1>5, <4>1
      <4>3. heap[q].height = heap[p].height
        BY <1>4, <1>6, <3>1, <4>1, <4>2
      <4>4. q = p
        BY <1>3, <4>3
      <4>5. heap[p].height \in 1 .. Len(db) /\ db[heap[p].height] = p[1]
        BY <1>7, <4>1, <4>4
      <4>6. \A r \in B : heap[r].height # heap[o].height - 1
        BY <1>3, <1>6, <3>1, <3>3
      <4> QED
        BY <3>1, <4>5, <4>6
    <3> QED
      BY <3>2, <3>3
  <2> QED
    BY <2>1, <2>2
<1>12. ASSUME NEW o \in B, NEW p \in B, NEW i \in heap[o].height .. heap[p].height
       PROVE  \E q \in B : heap[q].height = i
  <2>1. i \in heap[oldestBlock].height .. heap[head].height
    BY <1>2, <1>3, <1>4, <1>6, PathHeights
  <2>2. PICK q \in C : heap[q].height = i
    BY <1>2, <2>1, PathHeights
  <2>3. q \in B
    BY <1>4, <1>5, <1>6, <2>2
  <2> QED
    BY <2>2, <2>3
<1>13. \/ head \in B
       \/ B = {} /\ heap[head].height \in 1 .. Len(db)
  <2>1. CASE head \in B
    BY <2>1
  <2>2. CASE head \notin B
    <3>1. PICK q \in C : heap[q].height >= heap[head].height /\ heap[q].stored
      BY <1>3, <1>5, <2>2
    <3>2. heap[q].height = heap[head].height
      BY <1>3, <1>4, <3>1
    <3>3. \A o \in C : heap[q].height >= heap[o].height
      BY <1>3, <3>2
    <3>4. B = {}
      BY <1>5, <3>1, <3>3
    <3> QED
      BY <1>7, <3>1, <3>2, <3>4
  <2> QED
    BY <2>1, <2>2
<1> QED
  BY <1>1, <1>3, <1>4, <1>6, <1>10, <1>11, <1>12, <1>13 DEF Height

\* A refresh copies what is not in the database.
LEMMA RefreshCopy ==
  ASSUME Inv, Tree, refresh
  PROVE  /\ Copied'
         /\ \A h \in Heights' : h <= Height(longestBranch)
         /\ \/ Height(longestBranch) \in Heights'
            \/ Heights' = {} /\ Height(longestBranch) \in 1 .. Len(db)
<1>1. PICK B : B = GetUnstoredBlocks
  OBVIOUS
<1>2. /\ B \subseteq branches[longestBranch].cache
      /\ \A o, p \in B : heap[o].height = heap[p].height => o = p
      /\ \A o \in B : o[1] \in Hash \ {Genesis} /\ heap[o].height \in Nat
      /\ \A o \in B :
              \/ \E p \in B : heap[p].height = heap[o].height - 1 /\ Parent[o[1]] = p[1]
              \/ /\ \A p \in B : heap[p].height # heap[o].height - 1
                 /\ heap[o].height - 1 \in 1 .. Len(db)
                 /\ db[heap[o].height - 1] = Parent[o[1]]
      /\ \A o, p \in B : \A i \in heap[o].height .. heap[p].height :
              \E q \in B : heap[q].height = i
      /\ \/ branches[longestBranch].head \in B
         \/ B = {} /\ Height(longestBranch) \in 1 .. Len(db)
  BY <1>1, Unstored
<1>3. PICK f : f = sortedBlocks'
  OBVIOUS
<1>4. f = [h \in {heap[o].height : o \in B} |-> (CHOOSE o \in B : heap[o].height = h)[1]]
  BY <1>1, <1>3 DEF refresh
<1>5. \A o \in B : heap[o].height \in DOMAIN f /\ f[heap[o].height] = o[1]
  BY <1>2, <1>4
<1>6. \A h \in DOMAIN f : \E o \in B : heap[o].height = h
  BY <1>4
<1>7. Heights' = DOMAIN f /\ UNCHANGED db
  BY <1>3 DEF Heights, refresh, vars
<1>8. \A o \in B : heap[o].height <= Height(longestBranch)
  BY <1>2, LongestPath DEF IsPath, Height
<1>9. \A h \in DOMAIN f : h \in Nat /\ f[h] \in Hash \ {Genesis} /\ h <= Height(longestBranch)
  BY <1>2, <1>5, <1>6, <1>8
<1>10. ASSUME NEW h \in DOMAIN f
       PROVE  IF h - 1 \in DOMAIN f THEN Parent[f[h]] = f[h-1]
              ELSE h - 1 \in 1 .. Len(db) /\ Parent[f[h]] = db[h-1]
  <2>1. PICK o \in B : heap[o].height = h
    BY <1>6
  <2>2. f[h] = o[1]
    BY <1>5, <2>1
  <2>3. CASE \E p \in B : heap[p].height = h - 1 /\ Parent[o[1]] = p[1]
    BY <1>5, <2>2, <2>3
  <2>4. CASE /\ \A p \in B : heap[p].height # h - 1
             /\ h - 1 \in 1 .. Len(db) /\ db[h - 1] = Parent[o[1]]
    BY <1>6, <2>2, <2>4
  <2> QED
    BY <1>2, <2>1, <2>3, <2>4
<1>11. \A h, k \in DOMAIN f : \A i \in h .. k : i \in DOMAIN f
  BY <1>2, <1>5, <1>6
<1>12. \/ Height(longestBranch) \in DOMAIN f
       \/ DOMAIN f = {} /\ Height(longestBranch) \in 1 .. Len(db)
  BY <1>2, <1>5, <1>6 DEF Height
<1>13. DOMAIN f = {} \/ \E top \in DOMAIN f : \A h \in DOMAIN f : h <= top
  BY <1>9, <1>12
<1>14. Copied'
  BY <1>3, <1>7, <1>9, <1>10, <1>11, <1>13 DEF Copied, Heights
<1> QED
  BY <1>7, <1>9, <1>12, <1>14

\* Up to the latest block there is an answer for every height.
LEMMA Covered ==
  ASSUME Inv, Copied
  PROVE  /\ getLatestHeight \in Nat
         /\ \A h \in 1 .. getLatestHeight : h \in Heights \/ h \in 1 .. Len(db)
         /\ \/ Heights = {} /\ getLatestHeight = Len(db)
            \/ getLatestHeight \in Heights /\ \A h \in Heights : h <= getLatestHeight
<1>1. CASE Heights = {}
  BY <1>1, Numbers DEF getLatestHeight
<1>2. CASE Heights # {}
  <2>1. Heights \subseteq Nat
    BY DEF Copied
  <2>2. PICK top \in Heights : \A h \in Heights : h <= top
    BY <1>2 DEF Copied
  <2>3. getLatestHeight \in Heights /\ \A h \in Heights : h <= getLatestHeight
    BY <1>2, <2>2 DEF getLatestHeight
  <2>4. PICK low \in Heights : \A h \in Heights : low <= h
    BY <1>2, <2>1, Least
  <2>5. low - 1 \notin Heights /\ low \in Nat
    BY <2>1, <2>4
  <2>6. low - 1 \in 1 .. Len(db)
    BY <2>5 DEF Copied
  <2>7. ASSUME NEW h \in 1 .. getLatestHeight PROVE h \in Heights \/ h \in 1 .. Len(db)
    <3>1. CASE h < low
      BY <2>1, <2>3, <2>6, <3>1, Numbers
    <3>2. CASE low <= h
      <4>1. h \in low .. getLatestHeight
        BY <2>1, <2>3, <3>2
      <4> QED
        BY <2>3, <4>1 DEF Copied
    <3> QED
      BY <2>1, <2>3, <3>1, <3>2
  <2> QED
    BY <2>1, <2>3, <2>7
<1> QED
  BY <1>1, <1>2

\* The copy and the database together are one chain.
LEMMA CopiedAnswers ==
  ASSUME Inv, Copied
  PROVE  AnswersAreChain
<1> SUFFICES ASSUME NEW h \in 2 .. getLatestHeight
             PROVE  /\ getBlockViaHeight(h) \in Hash \ {Genesis}
                    /\ Parent[getBlockViaHeight(h)] = getBlockViaHeight(h-1)
  BY DEF AnswersAreChain
<1>1. db \in Seq(Hash) /\ DOMAIN db = 1 .. Len(db) /\ Len(db) \in Nat
  BY DEF Inv, TypeOK
<1>2. getLatestHeight \in Nat /\ h \in Nat /\ h \in 1 .. getLatestHeight
  BY Covered
<1>3. CASE h \in Heights
  <2>1. getBlockViaHeight(h) = sortedBlocks[h] /\ sortedBlocks[h] \in Hash \ {Genesis}
    BY <1>3 DEF getBlockViaHeight, Copied
  <2>2. CASE h - 1 \in Heights
    BY <1>3, <2>1, <2>2 DEF getBlockViaHeight, Copied
  <2>3. CASE h - 1 \notin Heights
    <3>1. h - 1 \in 1 .. Len(db) /\ Parent[sortedBlocks[h]] = db[h-1]
      BY <1>3, <2>3 DEF Copied
    <3> QED
      BY <1>1, <2>1, <2>3, <3>1 DEF getBlockViaHeight
  <2> QED
    BY <2>2, <2>3
<1>4. CASE h \notin Heights
  <2>1. h \in 2 .. Len(db)
    BY <1>2, <1>4, Covered
  <2>2. h - 1 \notin Heights
    <3> SUFFICES ASSUME h - 1 \in Heights PROVE FALSE
      OBVIOUS
    <3>1. getLatestHeight \in Heights
      BY Covered
    <3>2. h \in h - 1 .. getLatestHeight
      BY <1>2
    <3> QED
      BY <1>4, <3>1, <3>2 DEF Copied
  <2>3. getBlockViaHeight(h) = db[h] /\ getBlockViaHeight(h-1) = db[h-1]
    BY <1>1, <1>4, <2>1, <2>2 DEF getBlockViaHeight
  <2>4. db[h] \in Hash /\ db[h] # Genesis /\ Parent[db[h]] = db[h-1]
    BY <1>1, <2>1 DEF Inv, DbLinked
  <2> QED
    BY <2>3, <2>4
<1> QED
  BY <1>3, <1>4

\* The database grows at its end only.
LEMMA DbGrows ==
  ASSUME Inv, [Next]_vars
  PROVE  /\ Len(db) <= Len(db') /\ Len(db') \in Nat
         /\ \A i \in 1 .. Len(db) : i \in 1 .. Len(db') /\ db'[i] = db[i]
<1>1. db \in Seq(Hash) /\ Len(db) \in Nat
  BY DEF Inv, TypeOK
<1>2. CASE UNCHANGED db
  BY <1>1, <1>2
<1>3. CASE \E h \in Hash : db' = Append(db, h)
  BY <1>1, <1>3
<1> QED
  BY <1>2, <1>3, DbStep

\* Nothing that happens to the chain makes the copy wrong.
LEMMA CopiedStep ==
  ASSUME Inv, Tree, Copied, [QNext]_<<vars, sortedBlocks>>
  PROVE  Copied'
<1>1. CASE refresh
  BY <1>1, RefreshCopy
<1>2. ASSUME [Next]_vars, UNCHANGED sortedBlocks PROVE Copied'
  <2>1. Heights' = Heights
    BY <1>2 DEF Heights
  <2>2. \A i \in 1 .. Len(db) : i \in 1 .. Len(db') /\ db'[i] = db[i]
    BY <1>2, DbGrows
  <2>3. \A h \in Heights :
       IF h - 1 \in Heights THEN Parent[sortedBlocks[h]] = sortedBlocks[h-1]
       ELSE h - 1 \in 1 .. Len(db') /\ Parent[sortedBlocks[h]] = db'[h-1]
    BY <2>2 DEF Copied
  <2> QED
    BY <1>2, <2>1, <2>3 DEF Copied
<1>3. ASSUME sortedBlocks' = <<>> PROVE Copied'
  <2>1. Heights' = {}
    BY <1>3 DEF Heights
  <2> QED
    BY <2>1 DEF Copied
<1> QED
  BY <1>1, <1>2, <1>3 DEF QNext, Forgotten

\* The steps of the chain are those of its own specification.
LEMMA QueriesOnly == QSpec => Spec
<1>1. QInit => Init
  BY DEF QInit
<1>2. [QNext]_<<vars, sortedBlocks>> => [Next]_vars
  BY DEF QNext, refresh
<1> QED
  BY <1>1, <1>2, PTL DEF QSpec, Spec

\* No answer comes from before a restart, and none mixes two chains.
LEMMA CopiedInvariant ==
  QSpec /\ [][~DeadFork]_vars => [](Inv /\ Tree /\ Copied)
<1>1. QInit => Copied
  BY DEF QInit, Copied, Heights
<1>2. Inv /\ Tree /\ Copied /\ [QNext]_<<vars, sortedBlocks>> => Copied'
  BY CopiedStep
<1> QED
  BY <1>1, <1>2, QueriesOnly, Invariance, TreeInvariant, PTL DEF QSpec

\* A client that asks for one height after the other is told one chain,
\* although a part of it comes from a copy made earlier and the rest from the
\* database of now (qcache.go getBlockViaHeight).
THEOREM OneChainAnswered == QSpec /\ [][~DeadFork]_vars => []AnswersAreChain
<1>1. Inv /\ Copied => AnswersAreChain
  BY CopiedAnswers
<1> QED
  BY <1>1, CopiedInvariant, PTL

\* Without a restart the longest branch never gets lower: its head moves up,
\* it is not pruned, and a switch leads to a branch that is as high.
LEMMA NotLower ==
  ASSUME Inv, Inv', [Next]_vars, restarts' = restarts
  PROVE  Height(longestBranch) <= Height(longestBranch)'
<1>0. /\ longestBranch \in DOMAIN branches /\ heap \in [Obj -> Block]
      /\ branches \in [DOMAIN branches -> Branch]
      /\ Height(longestBranch) \in Nat
  BY DEF Inv, TypeOK, BranchesOK, Height, Branch, Block
<1> DEFINE Kept == /\ longestBranch' = longestBranch
                   /\ branches'[longestBranch].head = branches[longestBranch].head
                   /\ \A o \in Obj : heap'[o].height = heap[o].height
<1>1. Kept => Height(longestBranch) <= Height(longestBranch)'
  <2> SUFFICES ASSUME Kept PROVE Height(longestBranch)' = Height(longestBranch)
    BY <1>0
  <2>1. branches[longestBranch].head \in Obj
    BY <1>0 DEF Branch
  <2> QED
    BY <2>1 DEF Height
<1>2. ASSUME NEW blocks, NEW isLocal, addBlocks(blocks, isLocal) PROVE Kept
  <2>1. CASE UNCHANGED branches
    BY <1>2, <2>1 DEF addBlocks
  <2>2. CASE createBranch(blocks[1])
    <3>1. PICK id \in BranchIds : \E begin :
            /\ IsNew(id)
            /\ branches' = [c \in DOMAIN branches \cup {id} |->
                              IF c = id THEN newBranch(begin) ELSE branches[c]]
      BY <2>2 DEF createBranch
    <3>2. id # longestBranch
      BY <1>0, <3>1 DEF IsNew, BranchIds, Inv, TypeOK, BranchesOK
    <3>3. branches'[longestBranch] = branches[longestBranch]
      BY <1>0, <3>1, <3>2
    <3> QED
      BY <1>2, <3>3 DEF addBlocks
  <2> QED
    BY <1>2, <2>1, <2>2 DEF addBlocks
<1>3. ASSUME AddNext PROVE Height(longestBranch) <= Height(longestBranch)'
  <2>1. CASE UNCHANGED <<heap, branches>>
    BY <1>1, <1>3, <2>1 DEF AddNext
  <2>2. CASE "ok" \in verifyBlock(br, Head(batch)) /\ add(br, Head(batch))
    <3>1. Head(batch) \in Hash /\ br \in DOMAIN branches
      BY <1>0, <1>3 DEF AddNext, Inv, TypeOK, OpOK
    <3>2. UNCHANGED longestBranch
      BY <1>3 DEF AddNext
    <3>3. Height(longestBranch)' \in {Height(longestBranch), Height(longestBranch) + 1}
      BY <1>0, <2>2, <3>1, <3>2, AddHeights DEF Height
    <3> QED
      BY <1>0, <3>3
  <2> QED
    BY <1>3, <2>1, <2>2 DEF AddNext
<1>4. ASSUME AddDone PROVE Height(longestBranch) <= Height(longestBranch)'
  <2>1. UNCHANGED <<heap, branches>>
    BY <1>4 DEF AddDone
  <2>2. CASE UNCHANGED longestBranch
    BY <1>1, <2>1, <2>2
  <2>3. CASE longestBranch' \in getLongestBranch
    <3>1. Height(longestBranch) <= Height(longestBranch')
      BY <1>0, <2>3 DEF getLongestBranch
    <3> QED
      BY <2>1, <3>1 DEF Height
  <2> QED
    BY <1>4, <2>2, <2>3 DEF AddDone, notifyCheck
<1>5. MaintainBegin \/ StartRound \/ Interrupted \/ MinedInVain \/ UNCHANGED vars => Kept
  BY DEF MaintainBegin, StartRound, Interrupted, MinedInVain, vars, chainVars
<1>6. ASSUME PruneStep PROVE Kept
  <2>1. UNCHANGED <<heap, longestBranch>>
    BY <1>6 DEF PruneStep
  <2>2. longestBranch \in DOMAIN branches'
    BY <2>1 DEF Inv, TypeOK, BranchesOK
  <2> QED
    BY <1>6, <2>1, <2>2 DEF PruneStep
<1>7. ASSUME RemoveStep PROVE Kept
  <2>1. UNCHANGED <<branches, longestBranch>> /\ iter \in Obj
    BY <1>7 DEF RemoveStep, Inv, TypeOK, OpOK
  <2>2. CASE UNCHANGED heap
    BY <2>1, <2>2
  <2>3. CASE /\ heap[iter].backward # Nil
             /\ heap' = [heap EXCEPT
                   ![heap[iter].backward].fordward = Delete(@, iter),
                   ![iter].backward = Nil]
    <3>1. heap[iter].backward \in Obj
      BY <1>0, <2>1, <2>3 DEF Block
    <3> QED
      BY <1>0, <2>1, <2>3, <3>1 DEF Block
  <2> QED
    BY <1>7, <2>2, <2>3 DEF RemoveStep
<1>8. ASSUME FlushStep PROVE Kept
  <2>1. UNCHANGED longestBranch /\ iter \in Obj
    BY <1>8 DEF FlushStep, Inv, TypeOK, OpOK
  <2>2. CASE UNCHANGED <<heap, branches>>
    BY <2>1, <2>2
  <2>3. CASE \E child \in heap[iter].fordward : Advance(iter, child)
    <3>1. PICK child \in heap[iter].fordward : Advance(iter, child)
      BY <2>3
    <3>2. child \in Obj
      BY <1>0, <2>1, <3>1 DEF Block
    <3>3. \A o \in Obj : heap'[o].height = heap[o].height
      BY <1>0, <2>1, <3>1, <3>2, AdvanceHeap
    <3>4. branches'[longestBranch].head = branches[longestBranch].head
      BY <1>0, <3>1 DEF Advance, removeFromCache
    <3> QED
      BY <2>1, <3>3, <3>4
  <2> QED
    BY <1>8, <2>2, <2>3 DEF FlushStep
<1>9. ~Restart
  <2>1. restarts \in Nat
    BY BoundAssumption DEF Inv, TypeOK
  <2> QED
    BY <2>1 DEF Restart
<1>10. AddRemote \/ Mined => Kept
  BY <1>2 DEF AddRemote, Mined
<1> HIDE DEF Kept
<1> QED
  BY <1>1, <1>3, <1>4, <1>5, <1>6, <1>7, <1>8, <1>9, <1>10 DEF Next

\* What maintain stores is on the longest branch, and a restart begins with
\* the last stored block as its head.
LEMMA DbNotAhead ==
  ASSUME Inv, Inv', Tree, Tree', [Next]_vars, Len(db) <= Height(longestBranch)
  PROVE  Len(db)' <= Height(longestBranch)'
<1>0. /\ longestBranch \in DOMAIN branches /\ Height(longestBranch) \in Nat
      /\ Len(db) \in Nat /\ db \in Seq(Hash)
      /\ Height(longestBranch)' \in Nat
  BY Numbers DEF Inv, TypeOK, BranchesOK, Height, Branch, Block
<1>1. CASE Restart
  <2>1. PICK n, o : n \in Nat /\ n = Len(db) /\ o = <<db[n], 1>>
    BY <1>0
  <2>2. /\ longestBranch' = 1 /\ branches'[1].head = o /\ UNCHANGED db
    BY <1>1, <2>1 DEF Restart, initFromDB
  <2>3. IsPath(branches[longestBranch].cache, branches[longestBranch].head)'
    BY DEF Tree, Paths, Inv, TypeOK, BranchesOK
  <2>4. heap'[o].height = Depth[o[1]]
    BY <2>2, <2>3 DEF IsPath
  <2>5. n \in 1 .. n /\ Depth[db[n]] = n
    BY <2>1, Numbers DEF Inv, DbDepth
  <2> QED
    BY <2>1, <2>2, <2>4, <2>5 DEF Height
<1>2. CASE restarts' = restarts
  <2>1. Height(longestBranch) <= Height(longestBranch)'
    BY <1>2, NotLower
  <2>2. CASE UNCHANGED db
    BY <1>0, <2>1, <2>2
  <2>3. CASE pc = "flush" /\ PutBlock(iter)
    <3>1. iter \in branches[longestBranch].cache
      BY <1>0, <2>3 DEF Tree, Flushing
    <3>2. heap[iter].height <= Height(longestBranch)
      BY <3>1, LongestPath DEF IsPath, Height
    <3>3. Len(db)' = heap[iter].height
      BY <1>0, <2>3 DEF PutBlock
    <3> QED
      BY <1>0, <2>1, <3>2, <3>3
  <2>4. UNCHANGED db \/ (pc = "flush" /\ PutBlock(iter))
    <3>1. FlushStep => UNCHANGED db \/ (pc = "flush" /\ PutBlock(iter))
      BY DEF FlushStep
    <3>2. AddRemote \/ Mined => UNCHANGED db
      BY DEF AddRemote, Mined, addBlocks
    <3>3. \/ AddNext \/ AddDone \/ MaintainBegin \/ PruneStep \/ RemoveStep
          \/ StartRound \/ Interrupted \/ MinedInVain \/ Restart \/ UNCHANGED vars
          => UNCHANGED db
      BY DEF AddNext, AddDone, MaintainBegin, PruneStep, RemoveStep, StartRound,
             Interrupted, MinedInVain, Restart, vars
    <3> QED
      BY <3>1, <3>2, <3>3 DEF Next
  <2> QED
    BY <2>2, <2>3, <2>4
<1>3. Restart \/ restarts' = restarts
  BY DEF Next, AddRemote, Mined, addBlocks, AddNext, AddDone, MaintainBegin, PruneStep,
         RemoveStep, FlushStep, StartRound, Interrupted, MinedInVain, vars
<1> QED
  BY <1>1, <1>2, <1>3

\* No step takes the copy or the database ahead of the longest branch.
LEMMA BelowStep ==
  ASSUME Inv, Inv', Tree, Tree', Copied, Below, [QNext]_<<vars, sortedBlocks>>
  PROVE  Below'
<1>0. /\ Height(longestBranch) \in Nat /\ Height(longestBranch)' \in Nat
      /\ [Next]_vars
  BY Numbers DEF QNext, refresh, Inv, TypeOK, BranchesOK, Height, Branch, Block
<1>1. Len(db)' <= Height(longestBranch)'
  BY <1>0, DbNotAhead DEF Below
<1>2. CASE refresh
  <2>1. Height(longestBranch)' = Height(longestBranch)
    BY <1>2 DEF refresh, vars, chainVars, Height
  <2> QED
    BY <1>1, <1>2, <2>1, RefreshCopy DEF Below
<1>3. CASE UNCHANGED sortedBlocks /\ restarts' = restarts
  <2>1. Height(longestBranch) <= Height(longestBranch)'
    BY <1>0, <1>3, NotLower
  <2>2. Heights' = Heights /\ \A h \in Heights : h \in Nat
    BY <1>3 DEF Heights, Copied
  <2> QED
    BY <1>0, <1>1, <2>1, <2>2 DEF Below
<1>4. CASE sortedBlocks' = <<>>
  <2>1. Heights' = {}
    BY <1>4 DEF Heights
  <2> QED
    BY <1>1, <2>1 DEF Below
<1> QED
  BY <1>2, <1>3, <1>4 DEF QNext, Forgotten, vars

\* What clients are told and the chain, together.
LEMMA BelowInvariant ==
  QSpec /\ [][~DeadFork]_vars => [](Inv /\ Tree /\ Copied /\ Below)
<1>1. QInit => Below
  <2> SUFFICES ASSUME QInit PROVE Below
    OBVIOUS
  <2>1. Heights = {} /\ Len(db) = 1
    BY DEF QInit, Init, Heights
  <2>2. PICK g : g = <<Genesis, 1>>
    OBVIOUS
  <2>3. g \in Obj
    BY <2>2, TreeAssumption, BoundAssumption DEF Obj
  <2>4. heap[g].height = 1 /\ branches[longestBranch].head = g
    BY <2>2, <2>3 DEF QInit, Init, FreeBlock
  <2> QED
    BY <2>1, <2>4 DEF Below, Height
<1>2. Inv /\ Inv' /\ Tree /\ Tree' /\ Copied /\ Below /\ [QNext]_<<vars, sortedBlocks>> => Below'
  BY BelowStep
<1> QED
  BY <1>1, <1>2, CopiedInvariant, PTL DEF QSpec

\* The height that clients are told is the highest of the copy, or of the
\* database when the copy is empty.
LatestIs ==
  /\ getLatestHeight \in Nat
  /\ \/ Heights = {} /\ getLatestHeight = Len(db)
     \/ getLatestHeight \in Heights /\ \A h \in Heights : h <= getLatestHeight

\* The latest height that clients are told of never falls while the process
\* runs, although a refresh replaces the copy by the path of another branch
\* (qcache.go refresh, getLatestBlock).
THEOREM LatestOnlyRises == QSpec /\ [][~DeadFork]_vars => LatestNotBack
<1>1. ASSUME Inv, Tree, Below, LatestIs, LatestIs', [QNext]_<<vars, sortedBlocks>>,
             restarts' = restarts
      PROVE  getLatestHeight' >= getLatestHeight
  <2>1. /\ getLatestHeight \in Nat
        /\ \/ Heights = {} /\ getLatestHeight = Len(db)
           \/ getLatestHeight \in Heights /\ \A h \in Heights : h <= getLatestHeight
    BY <1>1 DEF LatestIs
  <2>2. /\ getLatestHeight' \in Nat
        /\ \/ Heights' = {} /\ getLatestHeight' = Len(db')
           \/ getLatestHeight' \in Heights' /\ \A h \in Heights' : h <= getLatestHeight'
    BY <1>1 DEF LatestIs
  <2>3. [Next]_vars
    BY <1>1 DEF QNext, refresh
  <2>4. CASE refresh
    <3>1. Height(longestBranch) \in Nat /\ getLatestHeight <= Height(longestBranch)
      BY <1>1, <2>1, Numbers DEF Below
    <3>2. UNCHANGED db /\ Len(db) \in Nat
      BY <1>1, <2>4, Numbers DEF refresh, vars
    <3>3. Height(longestBranch) <= getLatestHeight'
      BY <1>1, <2>2, <2>4, <3>1, <3>2, RefreshCopy
    <3> QED
      BY <2>1, <2>2, <3>1, <3>3
  <2>5. CASE UNCHANGED sortedBlocks
    <3>1. Heights' = Heights /\ Len(db) <= Len(db') /\ Len(db') \in Nat /\ Len(db) \in Nat
      BY <1>1, <2>3, <2>5, DbGrows, Numbers DEF Heights
    <3> QED
      BY <2>1, <2>2, <3>1
  <2> QED
    BY <1>1, <2>4, <2>5 DEF QNext, Forgotten
<1>2. Inv /\ Tree /\ Below /\ LatestIs /\ LatestIs' /\ [QNext]_<<vars, sortedBlocks>>
        => [restarts' = restarts => getLatestHeight' >= getLatestHeight]_<<vars, sortedBlocks>>
  BY <1>1
<1>3. Inv /\ Copied => LatestIs
  BY Covered DEF LatestIs
<1> QED
  BY <1>2, <1>3, BelowInvariant, PTL DEF QSpec, LatestNotBack

\* The copy and the database share no height.
Disjoint == \A h \in Heights : h > Len(db)

\* The score of an account is the number of its blocks among the answers.
Counted ==
  \A id \in {Miner[h] : h \in Hash} :
    getAccount(id) = Cardinality({h \in 1 .. getLatestHeight : Miner[getBlockViaHeight(h)] = id})

\* A block that is counted once in the copy or in the database counts once.
LEMMA DisjointCounts ==
  ASSUME Inv, Copied, Disjoint
  PROVE  Counted
<1> SUFFICES ASSUME NEW id
             PROVE  getAccount(id) =
                      Cardinality({h \in 1 .. getLatestHeight : Miner[getBlockViaHeight(h)] = id})
  BY DEF Counted
<1> DEFINE X == {h \in Heights : Miner[sortedBlocks[h]] = id}
           Y == {i \in DOMAIN db : Miner[db[i]] = id}
           Z == {h \in 1 .. getLatestHeight : Miner[getBlockViaHeight(h)] = id}
<1>1. DOMAIN db = 1 .. Len(db) /\ Len(db) \in Nat /\ Len(db) # 0
  BY DEF Inv, TypeOK
<1>2. /\ getLatestHeight \in Nat
      /\ \A h \in 1 .. getLatestHeight : h \in Heights \/ h \in 1 .. Len(db)
      /\ \/ Heights = {} /\ getLatestHeight = Len(db)
         \/ getLatestHeight \in Heights /\ \A h \in Heights : h <= getLatestHeight
  BY Covered
<1>3. \A h \in Heights : h \in Nat /\ h > Len(db)
  BY DEF Copied, Disjoint
<1>4. \A h \in 1 .. getLatestHeight : h \in Heights \/ h \in DOMAIN db
  BY <1>1, <1>2
<1>5. Heights \subseteq 1 .. getLatestHeight /\ DOMAIN db \subseteq 1 .. getLatestHeight
  <2>1. PICK n \in Nat, t \in Nat : n = Len(db) /\ t = getLatestHeight
    BY <1>1, <1>2
  <2>2. \A h \in Heights : h \in Nat /\ h > n /\ h <= t
    BY <1>2, <1>3, <2>1
  <2>3. Heights \subseteq 1 .. t
    BY <2>2
  <2>4. n = t \/ t \in Heights
    BY <1>2, <2>1
  <2>5. 1 .. n \subseteq 1 .. t
    BY <2>2, <2>4
  <2> QED
    BY <1>1, <2>1, <2>3, <2>5
<1>6. Heights \cap DOMAIN db = {}
  BY <1>1, <1>3
<1>7. Z = X \cup Y
  <2>1. \A h \in Heights : getBlockViaHeight(h) = sortedBlocks[h]
    BY DEF getBlockViaHeight
  <2>2. \A h \in DOMAIN db : getBlockViaHeight(h) = db[h]
    BY <1>6 DEF getBlockViaHeight
  <2> QED
    BY <1>4, <1>5, <2>1, <2>2
<1>8. X \cap Y = {}
  BY <1>6
<1>9. IsFiniteSet(1 .. getLatestHeight)
  BY <1>2, FS_Interval
<1>10. X \in SUBSET (1 .. getLatestHeight) /\ Y \in SUBSET (1 .. getLatestHeight)
  BY <1>5
<1>11. getAccount(id) = Cardinality(X) + Cardinality(Y)
  BY DEF getAccount
<1> HIDE DEF X, Y, Z
<1>12. IsFiniteSet(X) /\ IsFiniteSet(Y)
  BY <1>9, <1>10, FS_Subset
<1>13. Cardinality(X \cup Y) = Cardinality(X) + Cardinality(Y) - Cardinality(X \cap Y)
  BY <1>12, FS_Union
<1>14. /\ Cardinality(X) \in Nat /\ Cardinality(Y) \in Nat
       /\ Cardinality({}) = 0
  BY <1>12, FS_CardinalityType, FS_EmptySet
<1>15. Cardinality(Z) = Cardinality(X) + Cardinality(Y)
  <2>1. Cardinality(Z) = Cardinality(X \cup Y) /\ Cardinality(X \cap Y) = 0
    BY <1>7, <1>8, <1>14
  <2> QED
    BY <1>13, <1>14, <2>1
<1> QED
  BY <1>11, <1>15 DEF Z

\* At a refresh nothing that is copied is stored, because maintain has marked
\* what it stored on every branch.
LEMMA RefreshDisjoint ==
  ASSUME Inv, Tree, Sound, [QNext]_<<vars, sortedBlocks>>, sortedBlocks' # sortedBlocks
  PROVE  Disjoint'
<1>1. CASE refresh
  <2>1. PICK B : B = GetUnstoredBlocks
    OBVIOUS
  <2>2. /\ B \subseteq branches[longestBranch].cache
        /\ \A o \in B : ~heap[o].stored /\ heap[o].height \in Nat
    BY <2>1, Unstored
  <2>3. \A o \in B : ~(heap[o].height <= Len(db))
    BY <2>2, Numbers DEF Sound, Flushed
  <2>4. Heights' = {heap[o].height : o \in B} /\ UNCHANGED db /\ Len(db) \in Nat
    BY <1>1, <2>1, Numbers DEF refresh, vars, Heights
  <2> QED
    BY <2>2, <2>3, <2>4 DEF Disjoint
<1>2. CASE sortedBlocks' = <<>>
  BY <1>2 DEF Disjoint, Heights
<1> QED
  BY <1>1, <1>2 DEF QNext, Forgotten

\* After a refresh the score of an account is the number of blocks it mined
\* on the chain that clients are told (technical.md:363, qcache.go getAccount).
THEOREM ScoresAreBlocks == QSpec /\ [][Undisturbed]_vars => ScoreCountsBlocks
<1>1. [Undisturbed]_vars => [~DeadFork]_vars
  BY DEF Undisturbed
<1>2. Inv /\ Copied /\ Disjoint => Counted
  BY DisjointCounts
<1>3. Inv /\ Tree /\ Sound /\ [QNext]_<<vars, sortedBlocks>>
        => (sortedBlocks' # sortedBlocks => Disjoint')
  BY RefreshDisjoint
<1>4. Counted' => [sortedBlocks' # sortedBlocks => \A id \in {Miner[h] : h \in Hash} :
       getAccount(id)' = Cardinality({h \in 1 .. getLatestHeight :
                                       Miner[getBlockViaHeight(h)] = id})']_<<vars, sortedBlocks>>
  BY DEF Counted
<1>5. sortedBlocks' = sortedBlocks => [sortedBlocks' # sortedBlocks => \A id \in {Miner[h] : h \in Hash} :
       getAccount(id)' = Cardinality({h \in 1 .. getLatestHeight :
                                       Miner[getBlockViaHeight(h)] = id})']_<<vars, sortedBlocks>>
  OBVIOUS
<1> QED
  BY <1>1, <1>2, <1>3, <1>4, <1>5, CopiedInvariant, SoundInvariant, QueriesOnly, PTL
  DEF QSpec, ScoreCountsBlocks

-----------------------------------------------------------------------------
(* Blocks served to a peer *)

\* w[n] is the object n steps behind o.
IsTrail(w, o) ==
  /\ w[0] = o
  /\ \A n \in Nat : w[n + 1] = IF w[n] = Nil THEN Nil ELSE heap[w[n]].backward
  /\ \A n \in Nat : w[n] \in Obj \cup {Nil}

\* Behind is what its recursive definition says.
LEMMA TrailOf ==
  ASSUME heap \in [Obj -> Block], NEW o \in Obj
  PROVE  \E w : IsTrail(w, o) /\ \A n \in Nat : Behind(o, n) = w[n]
<1> DEFINE S == Obj \cup {Nil}
           F == [x \in S |-> IF x = Nil THEN Nil ELSE heap[x].backward]
           IsRec(f) == f = [i \in Nat |-> IF i = 0 THEN o ELSE
                              IF f[i-1] = Nil THEN Nil ELSE heap[f[i-1]].backward]
           w == CHOOSE f : IsRec(f)
<1>1. F \in [S -> S]
  <2> SUFFICES ASSUME NEW x \in S PROVE (IF x = Nil THEN Nil ELSE heap[x].backward) \in S
    OBVIOUS
  <2>1. CASE x \in Obj
    BY <2>1, BackType
  <2> QED
    BY <2>1
<1>2. IsRec(w)
  <2>1. PICK f : IsIterate(f, S, F, o)
    <3>1. o \in S
      OBVIOUS
    <3> HIDE DEF S, F
    <3> QED
      BY <1>1, <3>1, Iterates
  <2>2. f \in [Nat -> S] /\ f[0] = o /\ \A n \in Nat : f[n + 1] = F[f[n]]
    <3> HIDE DEF S, F
    <3> QED
      BY <2>1 DEF IsIterate
  <2>3. ASSUME NEW n \in Nat
        PROVE  f[n] = IF n = 0 THEN o ELSE
                        IF f[n-1] = Nil THEN Nil ELSE heap[f[n-1]].backward
    <3>1. CASE n = 0
      BY <2>2, <3>1
    <3>2. CASE n # 0
      <4>1. PICK j \in Nat : j = n - 1
        BY <3>2
      <4>2. n = j + 1
        BY <4>1
      <4>3. f[n] = F[f[j]] /\ f[j] \in S
        <5> HIDE DEF S, F
        <5> QED
          BY <2>2, <4>2
      <4>4. F[f[j]] = IF f[j] = Nil THEN Nil ELSE heap[f[j]].backward
        <5> HIDE DEF S
        <5> QED
          BY <4>3
      <4> QED
        BY <3>2, <4>1, <4>3, <4>4
    <3> QED
      BY <3>1, <3>2
  <2>4. IsRec(f)
    BY <2>2, <2>3
  <2> HIDE DEF IsRec
  <2> QED
    BY <2>4
<1>3. \A n : Behind(o, n) = w[n]
  BY DEF Behind
<1> HIDE DEF w
<1>4. \A n \in Nat : w[n] = IF n = 0 THEN o ELSE
                        IF w[n-1] = Nil THEN Nil ELSE heap[w[n-1]].backward
  BY <1>2
<1>5. w[0] = o
  BY <1>4
<1>6. ASSUME NEW n \in Nat PROVE w[n + 1] = IF w[n] = Nil THEN Nil ELSE heap[w[n]].backward
  <2>1. PICK j \in Nat : j = n + 1
    OBVIOUS
  <2>2. j # 0 /\ j - 1 = n
    BY <2>1
  <2>3. w[j] = IF w[j-1] = Nil THEN Nil ELSE heap[w[j-1]].backward
    BY <1>4, <2>2
  <2> QED
    BY <2>1, <2>2, <2>3
<1>7. \A n \in Nat : w[n] \in S
  <2> DEFINE T == {n \in Nat : w[n] \in S}
  <2>1. 0 \in T
    BY <1>5
  <2>2. ASSUME NEW n \in Nat, n \in T PROVE n + 1 \in T
    <3>1. CASE w[n] \in Obj
      BY <1>6, <3>1, BackType
    <3>2. CASE w[n] = Nil
      BY <1>6, <3>2
    <3> QED
      BY <2>2, <3>1, <3>2
  <2> HIDE DEF T
  <2>3. Nat \subseteq T
    BY <2>1, <2>2, SetInduction
  <2> QED
    BY <2>3 DEF T
<1> QED
  BY <1>3, <1>5, <1>6, <1>7 DEF IsTrail

\* An object n steps behind o is n lower, by the hashes alone.
LEMMA TrailDepth ==
  ASSUME Inv, Tree, NEW o \in Obj, NEW n \in Nat, Behind(o, n) # Nil
  PROVE  Behind(o, n) \in Obj /\ Depth[o[1]] = Depth[Behind(o, n)[1]] + n
<1>1. heap \in [Obj -> Block] /\ Down
  BY Typed, TreeDown DEF Tree
<1>2. PICK w : IsTrail(w, o) /\ \A k \in Nat : Behind(o, k) = w[k]
  BY <1>1, TrailOf
<1>3. \A p \in Obj : p[1] \in Hash /\ Depth[p[1]] \in Nat
  BY TreeAssumption DEF Obj
<1> DEFINE T == {k \in Nat : w[k] # Nil => Depth[o[1]] = Depth[w[k][1]] + k}
<1>4. 0 \in T
  BY <1>2, <1>3 DEF IsTrail
<1>5. ASSUME NEW k \in Nat, k \in T PROVE k + 1 \in T
  <2> SUFFICES ASSUME w[k + 1] # Nil PROVE Depth[o[1]] = Depth[w[k + 1][1]] + (k + 1)
    OBVIOUS
  <2>1. PICK p \in Obj, q \in Obj : p = w[k] /\ q = w[k + 1] /\ q = heap[p].backward
    BY <1>2 DEF IsTrail
  <2>2. p[1] # Genesis /\ Parent[p[1]] = q[1]
    BY <1>1, <2>1 DEF Down
  <2>3. Depth[p[1]] = Depth[q[1]] + 1
    BY <1>3, <2>2, TreeAssumption
  <2>4. Depth[o[1]] = Depth[p[1]] + k
    BY <1>5, <2>1, NilNoObj
  <2> QED
    BY <1>3, <2>1, <2>3, <2>4
<1> HIDE DEF T
<1>6. Nat \subseteq T
  BY <1>4, <1>5, SetInduction
<1> QED
  BY <1>2, <1>6 DEF T, IsTrail

\* On the longest branch the walk goes down one height at a time, as long as
\* there is a block of the cache below.
LEMMA TrailOnPath ==
  ASSUME Inv, Tree, NEW from \in branches[longestBranch].cache,
         NEW base \in branches[longestBranch].cache, NEW n \in Nat,
         heap[from].height = heap[base].height + n
  PROVE  /\ \A k \in 0 .. n : /\ Behind(from, k) \in branches[longestBranch].cache
                              /\ heap[Behind(from, k)].height = heap[from].height - k
         /\ Behind(from, 0) = from /\ Behind(from, n) = base
         /\ \A k \in 0 .. n : k < n => heap[Behind(from, k)].backward = Behind(from, k + 1)
<1>1. PICK C, head : C = branches[longestBranch].cache /\ head = branches[longestBranch].head
  OBVIOUS
<1>2. /\ heap \in [Obj -> Block] /\ Down /\ C \subseteq Obj /\ IsPath(C, head)
  BY <1>1, LongestPath
<1>3. /\ \A o \in C : o = oldestBlock \/ heap[o].backward \in C
      /\ \A o, p \in C : heap[o].height = heap[p].height => o = p
      /\ \A o \in C : heap[oldestBlock].height <= heap[o].height
      /\ \A o \in C : heap[o].height \in Nat /\ o \in Obj
  BY <1>2, PathHeights, BackType DEF IsPath
<1>4. PICK w : IsTrail(w, from) /\ \A k \in Nat : Behind(from, k) = w[k]
  BY <1>1, <1>2, TrailOf
<1> DEFINE On(k) == w[k] \in C /\ heap[w[k]].height = heap[from].height - k
           T == {k \in Nat : k <= n => On(k)}
<1>5. 0 \in T
  BY <1>1, <1>3, <1>4 DEF IsTrail
<1>6. ASSUME NEW k \in Nat, k < n, On(k)
      PROVE  On(k + 1) /\ heap[w[k]].backward = w[k + 1]
  <2>1. heap[w[k]].height > heap[base].height
    BY <1>1, <1>3, <1>6
  <2>2. w[k] # oldestBlock
    BY <1>1, <1>3, <1>6, <2>1
  <2>3. PICK p \in C : p = heap[w[k]].backward
    BY <1>3, <1>6, <2>2
  <2>4. heap[w[k]].height = heap[p].height + 1
    BY <1>2, <1>6, <2>3 DEF Down
  <2>5. w[k] # Nil
    BY <1>3, <1>6, NilNoObj
  <2>6. w[k + 1] = p
    BY <1>4, <2>3, <2>5 DEF IsTrail
  <2> QED
    BY <1>1, <1>3, <1>6, <2>3, <2>4, <2>6
<1>7. ASSUME NEW k \in Nat, k \in T PROVE k + 1 \in T
  BY <1>6, <1>7
<1>8. \A k \in 0 .. n : On(k)
  <2> HIDE DEF T
  <2>1. Nat \subseteq T
    BY <1>5, <1>7, SetInduction
  <2> QED
    BY <2>1 DEF T
<1>9. w[n] = base
  <2>1. n \in 0 .. n
    OBVIOUS
  <2>2. w[n] \in C /\ heap[w[n]].height = heap[base].height
    BY <1>1, <1>3, <1>8, <2>1
  <2> QED
    BY <1>1, <1>3, <2>2
<1> HIDE DEF On
<1>10. \A k \in 0 .. n : k < n => heap[w[k]].backward = w[k + 1]
  BY <1>6, <1>8
<1>11. \A k \in 0 .. n : Behind(from, k) = w[k] /\ k + 1 \in Nat
  BY <1>4
<1>12. Behind(from, 0) = from /\ Behind(from, n) = base
  BY <1>4, <1>9 DEF IsTrail
<1>13. \A k \in 0 .. n : k < n => heap[Behind(from, k)].backward = Behind(from, k + 1)
  BY <1>4, <1>10, <1>11
<1> QED
  BY <1>1, <1>8, <1>11, <1>12, <1>13 DEF On

\* A promise is right about the distance of its two blocks, whatever becomes
\* of the chain.
Promised ==
  \/ promise = NoPromise
  \/ /\ promise.base \in Hash /\ promise.end \in Hash /\ promise.diff \in Nat
     /\ Depth[promise.end] = Depth[promise.base] + promise.diff

\* What ServedAsPromised says of the answer.
Served ==
  answer # <<>> =>
    /\ Len(answer) = promise.diff
    /\ answer[Len(answer)] = promise.end
    /\ Parent[answer[1]] = promise.base
    /\ \A i \in 2 .. Len(answer) : Parent[answer[i]] = answer[i-1]

\* A stored block is at the height of its depth, so that it is there once.
LEMMA DbHeightIs ==
  ASSUME Inv, NEW h, InDb(h)
  PROVE  /\ DbHeight(h) \in 1 .. Len(db) /\ db[DbHeight(h)] = h
         /\ h \in Hash /\ Depth[h] = DbHeight(h)
<1>1. db \in Seq(Hash) /\ DOMAIN db = 1 .. Len(db)
  BY DEF Inv, TypeOK
<1>2. DbHeight(h) \in DOMAIN db /\ db[DbHeight(h)] = h
  BY DEF InDb, DbHeight
<1> QED
  BY <1>1, <1>2 DEF Inv, DbDepth

\* GetSyncHash counts what there is between the two blocks.
LEMMA PromiseRight ==
  ASSUME Inv, Tree, HandleSyncRequest
  PROVE  Promised' /\ answer' = <<>> /\ UNCHANGED vars
<1>1. PICK base \in Hash : promise' \in GetSyncHash(base)
  BY AskedAssumption DEF HandleSyncRequest
<1>2. CASE InCache(base)
  <2>1. PICK head \in Obj : head = branches[longestBranch].head
    BY Typed
  <2>2. PICK n \in Distance(head, base) :
          promise' = [base |-> base, end |-> head[1], diff |-> n]
    BY <1>1, <1>2, <2>1 DEF GetSyncHash, HeadHash
  <2>3. n \in Nat /\ Behind(head, n) # Nil /\ Behind(head, n)[1] = base
    BY <2>1, Numbers DEF Distance
  <2>4. Depth[head[1]] = Depth[base] + n
    BY <2>3, TrailDepth
  <2>5. head[1] \in Hash
    BY DEF Obj
  <2> QED
    BY <2>2, <2>3, <2>4, <2>5 DEF Promised, HandleSyncRequest
<1>3. CASE ~InCache(base) /\ InDb(base)
  <2>1. PICK d \in Nat, l \in Nat : d = DbHeight(base) /\ l = Len(db)
    BY <1>3, DbHeightIs, Numbers
  <2>2. d \in 1 .. l /\ Depth[base] = d
    BY <1>3, <2>1, DbHeightIs
  <2>3. PICK n : n = IF l - d >= SyncMax THEN SyncMax ELSE l - d
    OBVIOUS
  <2>4. n \in Nat /\ d + n \in 1 .. l
    BY <2>2, <2>3, BoundAssumption
  <2>5. promise' = [base |-> base, end |-> db[d + n], diff |-> n]
    BY <1>1, <1>3, <2>1, <2>3 DEF GetSyncHash
  <2>6. db[d + n] \in Hash /\ Depth[db[d + n]] = d + n
    BY <2>1, <2>4 DEF Inv, TypeOK, DbDepth
  <2> QED
    BY <2>2, <2>4, <2>5, <2>6 DEF Promised, HandleSyncRequest
<1>4. InCache(base) \/ InDb(base)
  BY <1>1 DEF GetSyncHash
<1> QED
  BY <1>2, <1>3, <1>4

\* From the cache of the longest branch: every block of the walk is there, the
\* one at the height of base included.
LEMMA CacheServes ==
  ASSUME Inv, Tree, Promised, promise # NoPromise,
         InCache(promise.base), InCache(promise.end),
         NEW walk, walk = CacheWalk(promise.base, promise.end),
         heap[getBlock(longestBranch, promise.base)].height
           < heap[getBlock(longestBranch, promise.end)].height
  PROVE  /\ \A i \in DOMAIN walk : walk[i] # Nil
         /\ promise.diff \in Nat \ {0} /\ DOMAIN walk = 0 .. promise.diff
         /\ \A i \in 1 .. promise.diff : walk[i][1] \in Hash
         /\ walk[promise.diff][1] = promise.end
         /\ Parent[walk[1][1]] = promise.base
         /\ \A i \in 2 .. promise.diff : Parent[walk[i][1]] = walk[i-1][1]
<1>1. PICK C : C = branches[longestBranch].cache
  OBVIOUS
<1>2. PICK from \in C : from = getBlock(longestBranch, promise.end) /\ from[1] = promise.end
  BY <1>1 DEF InCache, Hashes, getBlock
<1>3. PICK base \in C : base = getBlock(longestBranch, promise.base) /\ base[1] = promise.base
  BY <1>1 DEF InCache, Hashes, getBlock
<1>4. /\ C \subseteq Obj /\ Down
      /\ \A o \in C : heap[o].height = Depth[o[1]] /\ heap[o].height \in Nat /\ o[1] \in Hash
  <2>1. /\ heap \in [Obj -> Block] /\ Down /\ C \subseteq Obj
        /\ IsPath(C, branches[longestBranch].head)
    BY <1>1, LongestPath
  <2>2. \A o \in C : heap[o].height = Depth[o[1]]
    BY <2>1 DEF IsPath
  <2>3. \A o \in C : heap[o].height \in Nat /\ o[1] \in Hash
    BY <2>1, BackType DEF Obj
  <2> QED
    BY <2>1, <2>2, <2>3
<1>5. PICK n \in Nat : n = promise.diff
  BY DEF Promised
<1>6. heap[from].height = heap[base].height + n /\ n # 0
  BY <1>2, <1>3, <1>4, <1>5 DEF Promised
<1>7. heap[from].height - heap[base].height = n
  BY <1>2, <1>3, <1>4, <1>6
<1>8. walk = [i \in 0 .. n |-> Behind(from, n - i)]
  BY <1>2, <1>3, <1>7 DEF CacheWalk
<1>9. /\ \A k \in 0 .. n : Behind(from, k) \in C
      /\ Behind(from, 0) = from /\ Behind(from, n) = base
      /\ \A k \in 0 .. n : k < n => heap[Behind(from, k)].backward = Behind(from, k + 1)
  BY <1>1, <1>2, <1>3, <1>6, TrailOnPath
<1>10. \A k \in 0 .. n : k < n => Parent[Behind(from, k)[1]] = Behind(from, k + 1)[1]
  <2> SUFFICES ASSUME NEW k \in 0 .. n, k < n
               PROVE  Parent[Behind(from, k)[1]] = Behind(from, k + 1)[1]
    OBVIOUS
  <2>1. k + 1 \in 0 .. n
    OBVIOUS
  <2> QED
    BY <1>4, <1>9, <2>1 DEF Down
<1>11. ASSUME NEW i \in 1 .. n
       PROVE  /\ walk[i] \in C /\ walk[i] = Behind(from, n - i)
              /\ Parent[walk[i][1]] = Behind(from, n - i + 1)[1]
  <2>1. n - i \in 0 .. n /\ n - i < n /\ i \in 0 .. n
    OBVIOUS
  <2> QED
    BY <1>8, <1>9, <1>10, <2>1
<1>12. walk[n][1] = promise.end
  <2>1. n \in 1 .. n /\ n - n = 0
    BY <1>6
  <2> QED
    BY <1>2, <1>9, <1>11, <2>1
<1>13. Parent[walk[1][1]] = promise.base
  <2>1. 1 \in 1 .. n /\ n - 1 + 1 = n
    BY <1>6
  <2> QED
    BY <1>3, <1>9, <1>11, <2>1
<1>14. ASSUME NEW i \in 2 .. n PROVE Parent[walk[i][1]] = walk[i-1][1]
  <2>1. i \in 1 .. n /\ i - 1 \in 1 .. n /\ n - i + 1 = n - (i - 1)
    OBVIOUS
  <2> QED
    BY <1>11, <2>1
<1>15. \A i \in 1 .. n : walk[i] # Nil /\ walk[i][1] \in Hash
  BY <1>4, <1>11, NilNoObj
<1>16. walk[0] # Nil
  <2>1. 0 \in 0 .. n /\ n - 0 = n
    OBVIOUS
  <2>2. walk[0] = base
    BY <1>8, <1>9, <2>1
  <2> QED
    BY <1>4, <2>2, NilNoObj
<1>17. DOMAIN walk = 0 .. n /\ \A i \in 0 .. n : i = 0 \/ i \in 1 .. n
  BY <1>8
<1> QED
  BY <1>5, <1>6, <1>12, <1>13, <1>14, <1>15, <1>16, <1>17

\* From the database.
LEMMA DbServes ==
  ASSUME Inv, Promised, promise # NoPromise, InDb(promise.base), InDb(promise.end),
         DbHeight(promise.base) < DbHeight(promise.end),
         answer' = DbBlocks(promise.base, promise.end), UNCHANGED promise
  PROVE  Served'
<1>1. PICK b \in Nat, e \in Nat : b = DbHeight(promise.base) /\ e = DbHeight(promise.end)
  BY DbHeightIs
<1>2. /\ b \in 1 .. Len(db) /\ e \in 1 .. Len(db) /\ b < e
      /\ db[b] = promise.base /\ db[e] = promise.end
      /\ Depth[promise.base] = b /\ Depth[promise.end] = e
  BY <1>1, DbHeightIs
<1>3. PICK n \in Nat : n = promise.diff
  BY DEF Promised
<1>4. e = b + n /\ n # 0
  BY <1>1, <1>2, <1>3 DEF Promised
<1>5. \A i \in b + 1 .. e : db[i] \in Hash /\ Parent[db[i]] = db[i-1]
  BY <1>2 DEF Inv, TypeOK, DbLinked
<1>6. PICK s : s = SubSeq(db, b + 1, e)
  OBVIOUS
<1>7. Len(s) = n /\ \A i \in 1 .. n : s[i] = db[b + i]
  <2>1. b + 1 \in Int /\ e \in Int /\ b + 1 <= e /\ e - (b + 1) + 1 = n
    BY <1>4
  <2>2. /\ Len(s) = e - (b + 1) + 1
        /\ \A i \in 1 .. e - (b + 1) + 1 : s[i] = db[(b + 1) + i - 1]
    BY <1>5, <1>6, <2>1, SubSeqProperties
  <2>3. \A i \in 1 .. n : (b + 1) + i - 1 = b + i
    OBVIOUS
  <2> QED
    BY <2>1, <2>2, <2>3
<1>8. s[n] = promise.end
  BY <1>2, <1>4, <1>7
<1>9. Parent[s[1]] = promise.base
  <2>1. 1 \in 1 .. n /\ b + 1 \in b + 1 .. e /\ b + 1 - 1 = b
    BY <1>4
  <2> QED
    BY <1>2, <1>5, <1>7, <2>1
<1>10. ASSUME NEW i \in 2 .. n PROVE Parent[s[i]] = s[i-1]
  <2>1. /\ i \in 1 .. n /\ i - 1 \in 1 .. n /\ b + i \in b + 1 .. e
        /\ b + i - 1 = b + (i - 1)
    BY <1>4
  <2> QED
    BY <1>5, <1>7, <2>1
<1>11. answer' = s
  BY <1>1, <1>6 DEF DbBlocks
<1> QED
  BY <1>3, <1>7, <1>8, <1>9, <1>10, <1>11 DEF Served

\* GetSyncBlocks keeps the promise, and meets no nil block on its way.
LEMMA AnswerRight ==
  ASSUME Inv, Tree, Promised, HandleBlocksRequest
  PROVE  Served' /\ UNCHANGED <<vars, promise>>
<1>1. /\ Idle /\ promise # NoPromise
      /\ UNCHANGED <<promise, chainVars, db, opVars, round, restarts>>
  BY DEF HandleBlocksRequest
<1>2. PICK walk : walk = CacheWalk(promise.base, promise.end)
  OBVIOUS
<1>3. CASE /\ InCache(promise.base) /\ InCache(promise.end)
           /\ heap[getBlock(longestBranch, promise.base)].height
                < heap[getBlock(longestBranch, promise.end)].height
           /\ proc' = IF \E i \in DOMAIN walk : walk[i] = Nil THEN "nilblock" ELSE "up"
           /\ answer' = IF \E i \in DOMAIN walk : walk[i] = Nil THEN <<>>
                        ELSE [i \in DOMAIN walk \ {0} |-> walk[i][1]]
  <2>1. PICK n \in Nat : n = promise.diff
    BY <1>1 DEF Promised
  <2>2. /\ \A i \in DOMAIN walk : walk[i] # Nil
        /\ n # 0 /\ DOMAIN walk = 0 .. n
        /\ \A i \in 1 .. n : walk[i][1] \in Hash
        /\ walk[n][1] = promise.end
        /\ Parent[walk[1][1]] = promise.base
        /\ \A i \in 2 .. n : Parent[walk[i][1]] = walk[i-1][1]
    BY <1>1, <1>2, <1>3, <2>1, CacheServes
  <2>0. DOMAIN walk \ {0} = 1 .. n
    BY <2>1, <2>2
  <2>3. proc' = "up" /\ answer' = [i \in 1 .. n |-> walk[i][1]]
    BY <1>3, <2>0, <2>2
  <2>4. PICK s : s = [i \in 1 .. n |-> walk[i][1]]
    OBVIOUS
  <2>5. s \in Seq(Hash) /\ Len(s) = n
    BY <2>2, <2>4
  <2>6. \A i \in 1 .. n : s[i] = walk[i][1]
    BY <2>4
  <2>7. n \in 1 .. n /\ 1 \in 1 .. n /\ \A i \in 2 .. n : i \in 1 .. n /\ i - 1 \in 1 .. n
    BY <2>2
  <2>8. /\ s[n] = promise.end /\ Parent[s[1]] = promise.base
        /\ \A i \in 2 .. n : Parent[s[i]] = s[i-1]
    BY <2>2, <2>6, <2>7
  <2>9. Served'
    BY <1>1, <2>1, <2>3, <2>4, <2>5, <2>8 DEF Served
  <2> QED
    BY <1>1, <2>3, <2>9 DEF vars, Idle
<1>4. CASE /\ InDb(promise.base) /\ InDb(promise.end)
           /\ DbHeight(promise.base) < DbHeight(promise.end)
           /\ answer' = DbBlocks(promise.base, promise.end)
           /\ UNCHANGED proc
  BY <1>1, <1>4, DbServes DEF vars
<1> QED
  BY <1>2, <1>3, <1>4 DEF HandleBlocksRequest

\* Of its own the chain ends with a nil block only when remove runs out of
\* references, which the longest branch prevents.
LEMMA NoNilBlock ==
  ASSUME Inv, Tree, [Next]_vars, proc # "nilblock"
  PROVE  proc' # "nilblock"
<1>1. ASSUME RemoveStep PROVE proc' = proc
  <2> SUFFICES ASSUME heap[iter].fordward = {}, heap[iter].backward = Nil PROVE FALSE
    BY <1>1 DEF RemoveStep
  <2>0. pc = "remove" /\ iter \in Obj
    BY <1>1, Typed DEF RemoveStep
  <2>1. iter = oldestBlock
    BY <2>0, NilNoObj DEF Tree, Removing
  <2>2. longestBranch \in DOMAIN branches /\ branches[longestBranch].head # oldestBlock
    BY <2>0, <2>1, Typed DEF Tree, Removing
  <2>3. /\ IsPath(branches[longestBranch].cache, branches[longestBranch].head)
        /\ branches[longestBranch].cache \subseteq Obj
    BY LongestPath
  <2>4. PICK q \in branches[longestBranch].cache : heap[q].backward = oldestBlock
    BY <2>2, <2>3 DEF IsPath
  <2>5. q \in heap[iter].fordward
    BY <2>0, <2>1, <2>3, <2>4 DEF Tree, Mutual
  <2> QED
    BY <2>5
<1>2. AddRemote \/ Mined => proc' = proc
  BY DEF AddRemote, Mined, addBlocks
<1>3. \/ AddNext \/ AddDone \/ MaintainBegin \/ PruneStep \/ FlushStep
      \/ StartRound \/ Interrupted \/ MinedInVain \/ Restart \/ UNCHANGED vars
      => proc' \in {proc, "target", "store", "up"}
  BY DEF AddNext, AddDone, MaintainBegin, PruneStep, FlushStep, StartRound,
         Interrupted, NewRound, MinedInVain, Restart, vars
<1> QED
  BY <1>1, <1>2, <1>3 DEF Next

\* The steps of the chain, all invariants together.
LEMMA ChainKept ==
  ASSUME Inv, Tree, Apart, proc # "nilblock", [Next]_vars, [~DeadFork]_vars
  PROVE  Inv' /\ Tree' /\ Apart' /\ proc' # "nilblock"
<1>1. Inv'
  BY AddRemoteInv, AddNextInv, AddDoneInv, MaintainBeginInv, PruneStepInv,
     RemoveStepInv, FlushStepInv, MinerInv, MinedInv, RestartInv, StutterInv
  DEF Next
<1>2. ~DeadFork
  BY DEF DeadFork, vars, opVars
<1> QED
  BY <1>1, <1>2, TreeStep, ApartStep, NoNilBlock

\* What holds between requests: answering peers never changes the chain.
SyncInv == Inv /\ Tree /\ Apart /\ proc # "nilblock" /\ Promised /\ Served

\* Every step of the chain and every request keep what was promised.
LEMMA SyncStep ==
  ASSUME SyncInv, [SyncNext]_<<vars, syncVars>>, [~DeadFork]_vars
  PROVE  SyncInv'
<1>1. Inv /\ Tree /\ Apart /\ proc # "nilblock" /\ Promised /\ Served
  BY DEF SyncInv
<1>2. CASE HandleSyncRequest
  <2>1. Promised' /\ answer' = <<>> /\ UNCHANGED vars
    BY <1>1, <1>2, PromiseRight
  <2> QED
    BY <1>1, <2>1, ChainKept DEF SyncInv, Served
<1>3. CASE HandleBlocksRequest
  <2>1. Served' /\ UNCHANGED <<vars, promise>>
    BY <1>1, <1>3, AnswerRight
  <2>2. Promised'
    BY <1>1, <2>1 DEF Promised
  <2> QED
    BY <1>1, <2>1, <2>2, ChainKept DEF SyncInv
<1>4. CASE [Next]_vars /\ UNCHANGED syncVars
  <2>1. Promised' /\ Served'
    BY <1>1, <1>4 DEF Promised, Served, syncVars
  <2> QED
    BY <1>1, <1>4, <2>1, ChainKept DEF SyncInv
<1> QED
  BY <1>2, <1>3, <1>4 DEF SyncNext

\* What a peer is served is what it was promised, although branches are
\* switched and pruned, blocks stored and dropped from the cache, and the
\* process started again between the two requests (chain.go GetSyncHash,
\* GetSyncBlocks). The walk through the cache never meets a nil block, at no
\* height down to the one of base.
THEOREM KeepsPromises == SyncSpec /\ [][~DeadFork]_vars => []ServedAsPromised
<1>1. SyncInit => SyncInv
  BY InitInv, TreeInit DEF SyncInit, SyncInv, Promised, Served, Init
<1>2. SyncInv /\ [SyncNext]_<<vars, syncVars>> /\ [~DeadFork]_vars => SyncInv'
  BY SyncStep
<1>3. SyncInv => ServedAsPromised
  BY DEF SyncInv, Served, ServedAsPromised
<1> QED
  BY <1>1, <1>2, <1>3, PTL DEF SyncSpec
=============================================================================
