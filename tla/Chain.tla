------------------------------- MODULE Chain -------------------------------
(***************************************************************************)
(* The block chain of one node: core/blockchain (chain.go, branch.go,      *)
(* block.go), the block part of the database (db/badger.go) and the loop   *)
(* of the miner that feeds it (core/scheduler.go).                         *)
(*                                                                         *)
(* What is kept: the pointer structure of the block cache (one record per  *)
(* *block object, with its backward and fordward references), the list of  *)
(* branches with their two caches, the longest-branch bookkeeping, the     *)
(* flush of buried blocks to the database and the reload after a restart.  *)
(* Operations that run under branchLock are split into the steps between   *)
(* which a crash leaves a different database; `pc' says which operation    *)
(* holds the lock.                                                         *)
(*                                                                         *)
(* What is abstracted: a block is its hash; the header checks of           *)
(* verifyBlock are properties of the hash (Ahead, Invalid); an evidence is *)
(* a model value. The queue pendingBlocks holds what the network delivered *)
(* and has no other reader than the loop, so the model picks a batch when  *)
(* the loop takes it out.                                                  *)
(***************************************************************************)
EXTENDS Integers, Sequences, FiniteSets

CONSTANTS
  Hash,          \* the hashes of all blocks the network can produce
  Genesis,       \* the hash of the genesis block
  NoHash,        \* no round of mining has begun
  Parent,        \* LastHash of every other block
  Depth,         \* distance from the genesis block, which counts as 1
  Evidence,      \* all evidence
  Evds,          \* the evidence a block carries
  Alpha,         \* chain.go: alpha
  SyncMax,       \* chain.go: syncMaxBlocks
  RefBlocks,     \* difficulty.go: ReferenceBlocks
  Wrap,          \* stands for 2^64, the modulus of height subtraction
  Ahead,         \* blocks whose time may be ahead of this node's clock
  Invalid,       \* blocks that fail the target, pow or merkle root check
  Batches,       \* the sequences of blocks a peer may deliver
  Own,           \* blocks this node's miner may find
  MaxCopies,     \* bound: *block objects that may exist for one hash
  MaxBranches,   \* bound: branch list length
  MaxRestarts    \* bound: how often the process is started again

ASSUME TreeAssumption ==
  /\ Genesis \in Hash /\ NoHash \notin Hash
  /\ Parent \in [Hash \ {Genesis} -> Hash]
  /\ Depth \in [Hash -> Nat \ {0}]
  /\ Depth[Genesis] = 1
  /\ \A h \in Hash \ {Genesis} : Depth[h] = Depth[Parent[h]] + 1

ASSUME BatchAssumption ==
  /\ Batches \subseteq Seq(Hash \ {Genesis})
  /\ <<>> \notin Batches
  /\ Own \subseteq Hash \ {Genesis}
  /\ Evds \in [Hash -> SUBSET Evidence]

ASSUME BoundAssumption ==
  /\ Alpha \in Nat /\ SyncMax \in Nat /\ RefBlocks \in Nat \ {0}
  /\ Wrap \in Nat \ {0}
  /\ MaxCopies \in Nat \ {0}
  /\ MaxBranches \in Nat \ {0}
  /\ MaxRestarts \in Nat

\* Heights fit in 64 bits, and the cache reaches back behind alpha far enough
\* for the blocks that the difficulty is computed from.
ASSUME LimitAssumption ==
  /\ \A h \in Hash : Depth[h] < Wrap
  /\ Alpha + RefBlocks <= SyncMax + 1

VARIABLES
  heap,                 \* the *block objects
  branches,             \* Chain.branches: list position -> branch
  longestBranch,        \* position of Chain.longestBranch
  lastHeight,           \* Chain.lastHeight
  oldestBlock,          \* Chain.oldestBlock
  PassiveChangeNotify,  \* whether the one-place channel is full
  db,                   \* the stored blocks, by height
  pc,                   \* the operation that holds branchLock
  batch,                \* add: the blocks still to be added
  br,                   \* add: the branch they are added to
  local,                \* add: whether the miner called it
  iter,                 \* remove, flush: the loop's *block pointer
  round,                \* LastHash of the block being mined
  proc,                 \* "up", or why the process ended
  restarts              \* starts after the first one

chainVars == <<heap, branches, longestBranch, lastHeight, oldestBlock,
               PassiveChangeNotify>>
opVars == <<pc, batch, br, local, iter>>
vars == <<chainVars, db, opVars, round, proc, restarts>>

-----------------------------------------------------------------------------
(* Block objects: block.go *)

\* Two objects of one hash are two pointers; the number tells them apart.
Obj == Hash \X (1 .. MaxCopies)
Nil == <<>>

Block == [height : Nat, stored : BOOLEAN, backward : Obj \cup {Nil},
          fordward : SUBSET Obj]

FreeBlock == [height |-> 0, stored |-> FALSE, backward |-> Nil,
              fordward |-> {}]

Hashes(objs) == {o[1] : o \in objs}

\* The fordward and blockCache maps are keyed by hash.
Store(map, o) == {p \in map : p[1] # o[1]} \cup {o}
Delete(map, o) == {p \in map : p[1] # o[1]}

\* A *block that nothing refers to is garbage, its number can be reused.
Referenced(p) ==
  \/ p = oldestBlock
  \/ \E b \in DOMAIN branches : p = branches[b].head \/ p \in branches[b].cache
  \/ \E o \in Obj : p \in heap[o].fordward \/ p = heap[o].backward

FreeCopies(h) == {k \in 1 .. MaxCopies : ~Referenced(<<h, k>>)}

NewObj(h) == <<h, CHOOSE k \in FreeCopies(h) : TRUE>>

isBackwardOf(o, h) == h \in Hashes(heap[o].fordward)

-----------------------------------------------------------------------------
(* Branches: branch.go *)

BranchIds == 1 .. MaxBranches

Height(b) == heap[branches[b].head].height
HeadHash(b) == branches[b].head[1]

\* uint64 subtraction
Lag(a, b) == (a - b) % Wrap

\* The objects met by following backward from o, o included.
BackPath(o) ==
  LET walk[n \in Nat] ==
        IF n = 0 THEN {o}
        ELSE LET near == walk[n-1]
             IN  near \cup ({heap[p].backward : p \in near} \ {Nil})
  IN  {p \in Obj : p \in walk[heap[o].height]}

newBranch(begin) ==
  LET path == BackPath(begin)
  IN  [head |-> begin, cache |-> path,
       evds |-> UNION {Evds[h] : h \in Hashes(path)}]

\* nextBlockTarget finds fewer than ReferenceBlocks predecessors: Fatal.
TargetBug(b) ==
  /\ Height(b) > RefBlocks + 1
  /\ Cardinality(BackPath(branches[b].head)) <= RefBlocks

HasEvidence(e) == \E i \in DOMAIN db : e \in Evds[db[i]]

\* Trust the cache of the branch alone.
verifyEvidence_noDb(b, e) == e \notin branches[b].evds

verifyEvidence(b, e) == e \notin branches[b].evds /\ ~HasEvidence(e)

\* The outcomes of verifyBlock, in the order of its checks.
verifyBlock(b, h) ==
  (IF h \in Ahead /\ ~local THEN {"early"} ELSE {})
    \cup {IF TargetBug(b) THEN "fatal"
          ELSE IF /\ HeadHash(b) = Parent[h]
                  /\ h \notin Invalid
                  /\ \A e \in Evds[h] : verifyEvidence(b, e)
               THEN "ok" ELSE "refused"}

-----------------------------------------------------------------------------
(* The chain: chain.go *)

Idle == proc = "up" /\ pc = "idle"

\* The first of the branches ids in list order, and the next free position.
IsFirst(b, ids) == b \in ids /\ \A c \in ids : b <= c
IsNew(b) == /\ b - 1 \in DOMAIN branches
            /\ \A c \in DOMAIN branches : c < b

\* The branches that end in h, and those whose blockCache has h.
getBranch(h) == {b \in DOMAIN branches : HeadHash(b) = h}
Holding(h) == {b \in DOMAIN branches : h \in Hashes(branches[b].cache)}
getBlock(b, h) == CHOOSE o \in branches[b].cache : o[1] = h

\* The first branch that holds the parent of h, if it lets h fork there.
Forkable(h) ==
  {b \in DOMAIN branches :
     LET match == getBlock(b, Parent[h])
     IN  /\ IsFirst(b, Holding(Parent[h]))
         /\ Lag(Height(b), heap[match].height) <= Alpha
         /\ ~isBackwardOf(match, h)}

createBranch(h) ==
  \E b \in Forkable(h), id \in BranchIds :
    /\ IsNew(id)
    /\ br' = id
    /\ branches' = [c \in DOMAIN branches \cup {id} |->
                      IF c = id THEN newBranch(getBlock(b, Parent[h]))
                      ELSE branches[c]]

\* addBlocks up to its loop. A batch that finds no branch changes nothing.
addBlocks(blocks, isLocal) ==
  LET found == getBranch(Parent[blocks[1]])
  IN  /\ Idle
      /\ \A i \in DOMAIN blocks : FreeCopies(blocks[i]) # {}
      /\ \/ \E b \in found : IsFirst(b, found) /\ br' = b /\ UNCHANGED branches
         \/ found = {} /\ createBranch(blocks[1])
      /\ pc' = "add"
      /\ batch' = blocks
      /\ local' = isLocal
      /\ UNCHANGED <<heap, longestBranch, lastHeight, oldestBlock,
                     PassiveChangeNotify, db, iter, proc, restarts>>

AddRemote == /\ \E blocks \in Batches : addBlocks(blocks, FALSE)
             /\ UNCHANGED round

Release == /\ pc' = "idle"
           /\ batch' = <<>>
           /\ br' = 0
           /\ local' = FALSE
           /\ iter' = Nil

add(b, h) ==
  LET o == NewObj(h)
      oldHead == branches[b].head
  IN  /\ FreeCopies(h) # {}
      /\ heap' = [heap EXCEPT
            ![oldHead].fordward = Store(@, o),
            ![o] = [height |-> Height(b) + 1, stored |-> FALSE,
                    backward |-> oldHead, fordward |-> {}]]
      /\ branches' = [branches EXCEPT ![b] =
            [head |-> o, cache |-> Store(@.cache, o),
             evds |-> @.evds \cup Evds[h]]]

\* One turn of the loop of addBlocks.
AddNext ==
  /\ proc = "up" /\ pc = "add" /\ batch # <<>>
  /\ \E verdict \in verifyBlock(br, Head(batch)) :
       \/ /\ verdict = "ok"
          /\ add(br, Head(batch))
          /\ batch' = Tail(batch)
          /\ UNCHANGED <<pc, br, local, iter, proc>>
       \/ /\ verdict \in {"early", "refused"}
          /\ Release
          /\ UNCHANGED <<heap, branches, proc>>
       \/ /\ verdict = "fatal"
          /\ proc' = "target"
          /\ UNCHANGED <<heap, branches, opVars>>
  /\ UNCHANGED <<longestBranch, lastHeight, oldestBlock, PassiveChangeNotify,
                 db, round, restarts>>

\* Forget to remember the height seen so far: the last branch wins.
getLongestBranch_last ==
  {b \in DOMAIN branches : \A c \in DOMAIN branches : c <= b}

\* The highest branches; the clock breaks a tie.
getLongestBranch ==
  {b \in DOMAIN branches : \A c \in DOMAIN branches : Height(c) <= Height(b)}

\* Notify only when another branch becomes the longest.
notifyCheck_switch ==
  \E b \in getLongestBranch :
    IF Height(b) > lastHeight
    THEN /\ longestBranch' = b
         /\ lastHeight' = Height(b)
         /\ PassiveChangeNotify' = (PassiveChangeNotify \/ b # longestBranch)
    ELSE UNCHANGED <<longestBranch, lastHeight, PassiveChangeNotify>>

notifyCheck ==
  \E b \in getLongestBranch :
    IF Height(b) > lastHeight
    THEN /\ longestBranch' = b
         /\ lastHeight' = Height(b)
         /\ PassiveChangeNotify' = TRUE
    ELSE UNCHANGED <<longestBranch, lastHeight, PassiveChangeNotify>>

\* The end of addBlocks, every block added.
AddDone ==
  /\ proc = "up" /\ pc = "add" /\ batch = <<>>
  /\ IF local
     THEN UNCHANGED <<longestBranch, lastHeight, PassiveChangeNotify>>
     ELSE notifyCheck
  /\ Release
  /\ UNCHANGED <<heap, branches, oldestBlock, db, round, proc, restarts>>

-----------------------------------------------------------------------------
(* maintain: prune lagging branches, then flush buried blocks *)

MaintainBegin ==
  /\ Idle
  /\ pc' = "prune"
  /\ UNCHANGED <<chainVars, db, batch, br, local, iter, round, proc, restarts>>

\* Compare with the height of the last switch.
Pruned_last(b) == Lag(lastHeight, Height(b)) > Alpha

Pruned(b) == Lag(Height(longestBranch), Height(b)) > Alpha

\* The first branch to remove; after the last one the flush begins.
PruneStep ==
  /\ proc = "up" /\ pc = "prune"
  /\ LET doomed == {b \in DOMAIN branches : Pruned(b)}
     IN  \/ \E b \in doomed :
              /\ IsFirst(b, doomed)
              /\ pc' = "remove"
              /\ iter' = branches[b].head
              /\ branches' = [c \in DOMAIN branches \ {b} |-> branches[c]]
         \/ /\ doomed = {}
            /\ pc' = "flush"
            /\ iter' = oldestBlock
            /\ UNCHANGED branches
  /\ UNCHANGED <<heap, longestBranch, lastHeight, oldestBlock,
                 PassiveChangeNotify, db, batch, br, local, round, proc,
                 restarts>>

\* One turn of branch.remove: block.remove on iter. A block without
\* backward is dereferenced all the same, and the process panics.
RemoveStep ==
  LET back == heap[iter].backward
  IN  /\ proc = "up" /\ pc = "remove"
      /\ \/ /\ heap[iter].fordward # {}
            /\ pc' = "prune" /\ iter' = Nil
            /\ UNCHANGED <<heap, proc>>
         \/ /\ heap[iter].fordward = {} /\ back # Nil
            /\ heap' = [heap EXCEPT
                 ![back].fordward = Delete(@, iter),
                 ![iter].backward = Nil]
            /\ iter' = back
            /\ UNCHANGED <<pc, proc>>
         \/ /\ heap[iter].fordward = {} /\ back = Nil
            /\ proc' = "nilblock"
            /\ UNCHANGED <<heap, pc, iter>>
      /\ UNCHANGED <<branches, longestBranch, lastHeight, oldestBlock,
                     PassiveChangeNotify, db, batch, br, local, round,
                     restarts>>

\* Clean up the longest branch only.
removeFromCache_longest(rm) ==
  [branches EXCEPT ![longestBranch] =
     [@ EXCEPT !.cache = Delete(@, rm), !.evds = @ \ Evds[rm[1]]]]

removeFromCache(rm) ==
  [b \in DOMAIN branches |->
     [head |-> branches[b].head,
      cache |-> Delete(branches[b].cache, rm),
      evds |-> branches[b].evds \ Evds[rm[1]]]]

\* Store without looking at the height.
PutBlock_anyHeight(o) == db' = Append(db, o[1])

\* db.PutBlock refuses a height that is not the next one.
PutBlock(o) ==
  /\ heap[o].height = Len(db) + 1
  /\ db' = Append(db, o[1])

\* Wait for one block more than alpha.
Buried_late(o) ==
  /\ \E child \in Obj : heap[o].fordward = {child}
  /\ Lag(Height(longestBranch), heap[o].height) > Alpha + 1

Buried(o) == /\ \E child \in Obj : heap[o].fordward = {child}
             /\ Lag(Height(longestBranch), heap[o].height) > Alpha

\* Old enough to leave the cache, so that its child becomes the oldest block.
Evictable(child) == Lag(Height(longestBranch), heap[child].height) > SyncMax

\* Forget to mark the block.
Advance_unmarked(rm, child) ==
  /\ iter' = child
  /\ UNCHANGED <<heap, branches, oldestBlock>>

\* Move from rm to its only child, and drop rm when it is old enough.
Advance(rm, child) ==
  /\ iter' = child
  /\ IF Evictable(child)
     THEN /\ heap' = [heap EXCEPT
               ![rm].stored = TRUE,
               ![rm].fordward = Delete(@, child),
               ![child].backward = Nil]
          /\ branches' = removeFromCache(rm)
          /\ oldestBlock' = child
     ELSE /\ heap' = [heap EXCEPT ![rm].stored = TRUE]
          /\ UNCHANGED <<branches, oldestBlock>>

\* One turn of the flush loop.
FlushStep ==
  /\ proc = "up" /\ pc = "flush"
  /\ \/ /\ ~Buried(iter)
        /\ Release
        /\ UNCHANGED <<heap, branches, oldestBlock, db, proc>>
     \/ /\ Buried(iter)
        /\ \/ heap[iter].stored /\ UNCHANGED db
           \/ ~heap[iter].stored /\ PutBlock(iter)
        /\ \E child \in heap[iter].fordward : Advance(iter, child)
        /\ UNCHANGED <<pc, batch, br, local, proc>>
     \/ /\ Buried(iter)
        /\ ~heap[iter].stored /\ heap[iter].height # Len(db) + 1
        /\ proc' = "store"
        /\ UNCHANGED <<heap, branches, oldestBlock, db, opVars>>
  /\ UNCHANGED <<longestBranch, lastHeight, PassiveChangeNotify, round,
                 restarts>>

-----------------------------------------------------------------------------
(* The miner: core/scheduler.go *)

\* A round builds on the head of the longest branch, and asks for its target.
NewRound == /\ round' = HeadHash(longestBranch)
            /\ proc' = IF TargetBug(longestBranch) THEN "target" ELSE "up"

StartRound ==
  /\ Idle
  /\ round = NoHash
  /\ NewRound
  /\ UNCHANGED <<chainVars, db, opVars, restarts>>

\* The notification ends the round and the next one begins.
Interrupted ==
  /\ Idle
  /\ round # NoHash
  /\ PassiveChangeNotify
  /\ PassiveChangeNotify' = FALSE
  /\ NewRound
  /\ UNCHANGED <<heap, branches, longestBranch, lastHeight, oldestBlock,
                 db, opVars, restarts>>

Known == UNION {Hashes(branches[b].cache) : b \in DOMAIN branches}
           \cup {db[i] : i \in DOMAIN db}

\* The nonce is found; a block just mined is known to nobody yet.
Mined ==
  /\ \E h \in Own \ Known : Parent[h] = round /\ addBlocks(<<h>>, TRUE)
  /\ round' = NoHash

\* The same, on a branch that was removed meanwhile: the block is dropped.
MinedInVain ==
  /\ Idle
  /\ \E h \in Own \ Known :
       Parent[h] = round /\ getBranch(round) = {} /\ Forkable(h) = {}
  /\ round' = NoHash
  /\ UNCHANGED <<chainVars, db, opVars, proc, restarts>>

-----------------------------------------------------------------------------
(* Start: initGenesis, initFromDB *)

\* The cache that initFromDB builds from the blocks lo .. Len(db).
Loaded(lo, o) ==
  LET i == CHOOSE j \in lo .. Len(db) : db[j] = o[1]
  IN  [height |-> i, stored |-> TRUE,
       backward |-> IF i = lo THEN Nil ELSE <<db[i-1], 1>>,
       fordward |-> IF i = Len(db) THEN {} ELSE {<<db[i+1], 1>>}]

initFromDB ==
  LET lo == IF Len(db) > RefBlocks THEN Len(db) - RefBlocks ELSE 1
      objs == {<<db[i], 1>> : i \in lo .. Len(db)}
  IN  /\ heap' = [o \in Obj |-> IF o \in objs THEN Loaded(lo, o)
                                ELSE FreeBlock]
      /\ branches' = [b \in {1} |->
           [head |-> <<db[Len(db)], 1>>, cache |-> objs,
            evds |-> UNION {Evds[db[i]] : i \in lo .. Len(db)}]]
      /\ oldestBlock' = <<db[lo], 1>>
      /\ longestBranch' = 1
      /\ lastHeight' = lo          \* initFirstBranch ran on blocks[0]
      /\ PassiveChangeNotify' = FALSE

\* The process is killed at any step, or has ended itself, and is started
\* again: memory is lost and the database is kept.
Restart ==
  /\ restarts < MaxRestarts
  /\ restarts' = restarts + 1
  /\ initFromDB
  /\ Release
  /\ round' = NoHash
  /\ proc' = "up"
  /\ UNCHANGED db

Init ==
  LET g == <<Genesis, 1>>
  IN  /\ db = <<Genesis>>
      /\ heap = [o \in Obj |->
                   IF o = g THEN [FreeBlock EXCEPT !.height = 1,
                                                   !.stored = TRUE]
                   ELSE FreeBlock]
      /\ branches = [b \in {1} |-> [head |-> g, cache |-> {g},
                                    evds |-> Evds[Genesis]]]
      /\ longestBranch = 1
      /\ lastHeight = 1
      /\ oldestBlock = g
      /\ PassiveChangeNotify = FALSE
      /\ pc = "idle" /\ batch = <<>> /\ br = 0 /\ local = FALSE
      /\ iter = Nil
      /\ round = NoHash
      /\ proc = "up"
      /\ restarts = 0

Next ==
  \/ AddRemote \/ AddNext \/ AddDone
  \/ MaintainBegin \/ PruneStep \/ RemoveStep \/ FlushStep
  \/ StartRound \/ Interrupted \/ Mined \/ MinedInVain
  \/ Restart

Spec == Init /\ [][Next]_vars

\* The goroutine that holds branchLock runs on, and the ticker of the chain
\* loop fires for ever.
Fairness ==
  /\ WF_vars(AddNext) /\ WF_vars(AddDone)
  /\ WF_vars(PruneStep) /\ WF_vars(RemoveStep) /\ WF_vars(FlushStep)
  /\ SF_vars(MaintainBegin)

FairSpec == Spec /\ Fairness

-----------------------------------------------------------------------------
(* Properties *)

Branch == [head : Obj, cache : SUBSET Obj, evds : SUBSET Evidence]

BranchesOK == /\ DOMAIN branches \subseteq BranchIds
              /\ branches \in [DOMAIN branches -> Branch]
              /\ longestBranch \in DOMAIN branches

OpOK == /\ pc \in {"idle", "add", "prune", "remove", "flush"}
        /\ batch \in Seq(Hash \ {Genesis})
        /\ pc = "add" => br \in DOMAIN branches
        /\ pc \in {"remove", "flush"} => iter \in Obj

\* Every variable has its type: heights are naturals, every pointer the code
\* dereferences is an object, and the longest branch is in the list.
TypeOK ==
  /\ heap \in [Obj -> Block]
  /\ BranchesOK
  /\ OpOK
  /\ lastHeight \in Nat
  /\ oldestBlock \in Obj
  /\ db \in Seq(Hash) /\ db # <<>>
  /\ PassiveChangeNotify \in BOOLEAN /\ local \in BOOLEAN
  /\ round \in Hash \cup {NoHash}
  /\ proc \in {"up", "target", "store", "nilblock"}
  /\ restarts \in 0 .. MaxRestarts

\* The database is a chain of hashes from the genesis block on. PutBlock
\* checks the height of a block and never its LastHash, so this rests on the
\* walk of maintain, across forks, refused blocks, kills and restarts.
DbLinked ==
  /\ db[1] = Genesis
  /\ \A i \in 2 .. Len(db) : db[i] # Genesis /\ Parent[db[i]] = db[i-1]

\* The blocks stored are an append-only ledger: see module Ledger.
Stored == INSTANCE Ledger WITH ledger <- db
RefinesLedger == Stored!Spec

\* After blocks of a peer were added, no branch is higher than the one that
\* is mined on (chain.go notifyCheck, whose lastHeight may be out of date).
LongestChainRule ==
  [][(pc = "add" /\ batch = <<>> /\ ~local /\ pc' = "idle") =>
       \A b \in DOMAIN branches' : Height(b)' <= Height(longestBranch)']_vars

\* A round that nothing will interrupt builds on the head of the longest
\* branch: every change of that head left a notification (scheduler.go).
\* It needs peers that send only valid blocks.
MinerNotStale ==
  Idle /\ round # NoHash /\ ~PassiveChangeNotify
    => round = HeadHash(longestBranch)

\* The caches of a branch hold its chain, exactly: the objects on the
\* backward path of its head, down to oldestBlock, and their evidence. They
\* reach back as far as nextBlockTarget looks, whatever maintain has dropped.
CacheIsPath ==
  Idle => \A b \in DOMAIN branches :
    LET path == BackPath(branches[b].head)
    IN  /\ branches[b].cache = path
        /\ branches[b].evds = UNION {Evds[h] : h \in Hashes(path)}
        /\ oldestBlock \in path
        /\ ~TargetBug(b)

Ancestors[h \in Hash] ==
  IF h = Genesis THEN {h} ELSE {h} \cup Ancestors[Parent[h]]

\* An evidence is at most once on any chain, although the branch forgets the
\* evidence of a block that maintain drops from its cache. It needs forks
\* whose first block is not refused (branch.go verifyEvidence).
EvidenceOnce ==
  \A b \in DOMAIN branches :
    \A g, h \in Ancestors[HeadHash(b)] : g # h => Evds[g] \cap Evds[h] = {}

\* Valid blocks alone never end the process, in whatever order peers and the
\* miner bring them: remove finds the references it follows (block.go:82), the
\* block to store has the next height (badger.go:96) and nextBlockTarget its
\* reference blocks (branch.go:107). It needs a process that was not restarted,
\* and forks that branch off within alpha.
StaysUp == proc = "up"

\* Rule 2 of alpha: a block that is alpha lower than the longest branch and
\* has no fork at or below it gets into the database, unless it stops being
\* such a block.
Settled(h) ==
  /\ proc = "up"
  /\ \E o \in BackPath(branches[longestBranch].head) :
       /\ o[1] = h
       /\ Lag(Height(longestBranch), heap[o].height) > Alpha
       /\ \A p \in BackPath(o) : Cardinality(heap[p].fordward) = 1
SettledIsStored ==
  \A h \in Hash :
    Settled(h) ~> (~Settled(h) \/ \E i \in DOMAIN db : db[i] = h)
============================================================================
