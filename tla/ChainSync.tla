----------------------------- MODULE ChainSync -----------------------------
(***************************************************************************)
(* What a node answers to a peer that is behind: GetSyncHash promises a    *)
(* number of blocks, GetSyncBlocks delivers them later (chain.go, called   *)
(* by handleSyncRequest and handleBlocksRequest of core/net.go). Between   *)
(* the two calls the chain of module Chain goes on: branches switch, blocks*)
(* are flushed to the database and dropped from the cache, and the process *)
(* may be started again. The peer keeps the promise; it counts the blocks  *)
(* that arrive against it and uses nothing before the count is complete.   *)
(***************************************************************************)
EXTENDS Chain

CONSTANT Asked    \* the block hashes peers ask about

ASSUME AskedAssumption == Asked \subseteq Hash

VARIABLES
  promise,        \* the last SyncResponse sent
  answer          \* the blocks sent for it, empty before

syncVars == <<promise, answer>>

NoPromise == [base |-> NoHash, end |-> NoHash, diff |-> 0]

InCache(h) == h \in Hashes(branches[longestBranch].cache)
InDb(h) == \E i \in DOMAIN db : db[i] = h
DbHeight(h) == CHOOSE i \in DOMAIN db : db[i] = h

\* The n-th block behind o, Nil when the cache ends before.
Behind(o, n) ==
  LET walk[i \in Nat] ==
        IF i = 0 THEN o
        ELSE LET p == walk[i-1]
             IN  IF p = Nil THEN Nil ELSE heap[p].backward
  IN  walk[n]

\* How far h is behind o; empty when the walk meets the end of the cache.
Distance(o, h) ==
  {n \in 0 .. heap[o].height : Behind(o, n) # Nil /\ Behind(o, n)[1] = h}

\* The promises GetSyncHash may make; none for its three errors.
GetSyncHash(base) ==
  IF InCache(base)
  THEN {[base |-> base, end |-> HeadHash(longestBranch), diff |-> n] :
          n \in Distance(branches[longestBranch].head, base) \ {0}}
  ELSE IF InDb(base)
  THEN LET rest == Len(db) - DbHeight(base)
           n == IF rest >= SyncMax THEN SyncMax ELSE rest
       IN  {[base |-> base, end |-> db[DbHeight(base) + n], diff |-> n]}
  ELSE {}

HandleSyncRequest ==
  /\ Idle
  /\ \E base \in Asked : promise' \in GetSyncHash(base)
  /\ answer' = <<>>
  /\ UNCHANGED vars

\* GetSyncBlocks, from the end block back to the height of base: entry 0 is
\* the block the walk stops at, the others are served. The height of every
\* entry is read before it is known whether it is Nil, the last one included.
CacheWalk(base, end) ==
  LET from == getBlock(longestBranch, end)
      n == heap[from].height - heap[getBlock(longestBranch, base)].height
  IN  [i \in 0 .. n |-> Behind(from, n - i)]

DbBlocks(base, end) == SubSeq(db, DbHeight(base) + 1, DbHeight(end))

HandleBlocksRequest ==
  LET base == promise.base
      end == promise.end
      height(h) == heap[getBlock(longestBranch, h)].height
      walk == CacheWalk(base, end)
      broken == \E i \in DOMAIN walk : walk[i] = Nil
  IN  /\ Idle
      /\ promise # NoPromise /\ answer = <<>>
      /\ \/ /\ InCache(base) /\ InCache(end) /\ height(base) < height(end)
            /\ proc' = IF broken THEN "nilblock" ELSE "up"
            /\ answer' = IF broken THEN <<>>
                          ELSE [i \in DOMAIN walk \ {0} |-> walk[i][1]]
         \/ /\ ~(InCache(base) /\ InCache(end))
            /\ InDb(base) /\ InDb(end) /\ DbHeight(base) < DbHeight(end)
            /\ answer' = DbBlocks(base, end)
            /\ UNCHANGED proc
      /\ UNCHANGED <<promise, chainVars, db, opVars, round, restarts>>

SyncInit == Init /\ promise = NoPromise /\ answer = <<>>

SyncNext ==
  \/ HandleSyncRequest \/ HandleBlocksRequest
  \/ Next /\ UNCHANGED syncVars

SyncSpec == SyncInit /\ [][SyncNext]_<<vars, syncVars>>

-----------------------------------------------------------------------------
(* Properties *)

\* What GetSyncBlocks serves is what GetSyncHash promised before, however the
\* chain moved meanwhile: as many blocks as announced, the first a child of
\* base, each the child of the one before, the last one the end block.
\* net.go:398 waits for exactly that number and gives up otherwise. The walk
\* reads iter.height before it looks whether iter is nil, also at the height
\* of base where it stops, so the cache of the longest branch must hold no
\* block that its head does not lead to.
ServedAsPromised ==
  /\ proc # "nilblock"
  /\ answer # <<>> =>
       /\ Len(answer) = promise.diff
       /\ answer[Len(answer)] = promise.end
       /\ Parent[answer[1]] = promise.base
       /\ \A i \in 2 .. Len(answer) : Parent[answer[i]] = answer[i-1]
============================================================================
