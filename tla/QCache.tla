------------------------------- MODULE QCache -------------------------------
(***************************************************************************)
(* The query cache of core/qcache.go: a copy of the unstored blocks of the *)
(* longest branch, renewed when a query finds it older than its refresh    *)
(* interval. A query by height answers from the copy or from the database, *)
(* two sources that were read at different times, while the chain of module*)
(* Chain switches branches, stores blocks and is started again.            *)
(*                                                                         *)
(* Queries change nothing but the copy, so they are operators: what a      *)
(* caller would be told in the present state.                              *)
(***************************************************************************)
EXTENDS Chain

CONSTANT Miner          \* block -> the account that mined it

ASSUME MinerAssumption == DOMAIN Miner = Hash

VARIABLE sortedBlocks   \* height -> hash, the unstored blocks at the refresh

Heights == DOMAIN sortedBlocks

\* Copy the unstored blocks of every branch; the map keeps one per height.
GetUnstoredBlocks_all ==
  {o \in UNION {BackPath(branches[b].head) : b \in DOMAIN branches} :
     ~heap[o].stored}

\* The walk back from the head ends at the first stored block.
GetUnstoredBlocks ==
  LET path == BackPath(branches[longestBranch].head)
  IN  {o \in path :
         \A p \in path : heap[p].height >= heap[o].height => ~heap[p].stored}

\* A query after the refresh interval. The process was just started: no copy.
refresh ==
  LET blocks == GetUnstoredBlocks
  IN  /\ Idle
      /\ sortedBlocks' =
           [h \in {heap[o].height : o \in blocks} |->
              (CHOOSE o \in blocks : heap[o].height = h)[1]]
      /\ UNCHANGED vars

\* The answer for height h; NoHash when there is none. begin and end of an
\* empty copy are 0, so that height 0 is looked for in it: index out of range.
getBlockViaHeight(h) ==
  IF h \in Heights THEN sortedBlocks[h]
  ELSE IF h \in DOMAIN db THEN db[h]
  ELSE IF h = 0 /\ Heights = {} THEN "panic" ELSE NoHash

getLatestHeight ==
  IF Heights = {} THEN Len(db)
  ELSE CHOOSE h \in Heights : \A g \in Heights : g <= h

\* Mutant: what the copy knows of the account hides the database.
getAccount_copy(id) ==
  LET copied == {h \in Heights : Miner[sortedBlocks[h]] = id}
  IN  IF copied # {} THEN Cardinality(copied)
      ELSE Cardinality({i \in DOMAIN db : Miner[db[i]] = id})

\* The score of an account: its blocks in the copy and its score in the
\* database, which PutBlock raises by one per block.
getAccount(id) == Cardinality({h \in Heights : Miner[sortedBlocks[h]] = id})
                    + Cardinality({i \in DOMAIN db : Miner[db[i]] = id})

QInit == Init /\ sortedBlocks = <<>>

\* lastRefreshTime is zero in a new process: its first query refreshes.
Forgotten ==
  sortedBlocks' = IF restarts' = restarts THEN sortedBlocks ELSE <<>>

QNext == refresh \/ (Next /\ Forgotten)

QSpec == QInit /\ [][QNext]_<<vars, sortedBlocks>>

-----------------------------------------------------------------------------
(* Properties *)

\* The answers for the heights up to the latest block are one chain: no gap
\* between what is copied and what is stored, and the block at each height
\* is the parent of the next one, whatever was stored or switched after the
\* copy was made (qcache.go getBlockViaHeight).
AnswersAreChain ==
  \A h \in 2 .. getLatestHeight :
    /\ getBlockViaHeight(h) \in Hash \ {Genesis}
    /\ Parent[getBlockViaHeight(h)] = getBlockViaHeight(h-1)

\* The latest block that a client is told of never gets lower while the
\* process runs: a refresh sees the longest branch, and a switch of branches
\* never lowers it (qcache.go getLatestBlock).
LatestNotBack ==
  [][restarts' = restarts => getLatestHeight' >= getLatestHeight]_<<vars, sortedBlocks>>

\* technical.md:363: the score of an account is one point for each block that
\* it mined. A refresh makes it so: copy and database then share no block and
\* together hold the chain that is answered. Later a block that is stored is
\* counted in both (qcache.go:173), until the next refresh.
ScoreCountsBlocks ==
  [][sortedBlocks' # sortedBlocks => \A id \in {Miner[h] : h \in Hash} :
       getAccount(id)' = Cardinality({h \in 1 .. getLatestHeight :
                                       Miner[getBlockViaHeight(h)] = id})']_<<vars, sortedBlocks>>
=============================================================================
