------------------------------ MODULE MCReads ------------------------------
(* A peer that synchronises and clients that query, on one small tree. *)
EXTENDS ChainSync, QCache

\* 1 - 2 - 3 - 4 - 5 - 6 - 7         the main chain, long enough to be evicted
\*             | - 8 - 9 - 10 - 11   a fork that overtakes it
ReadsParent == [h \in 2 .. 11 |-> IF h = 8 THEN 4 ELSE h - 1]
ReadsDepth ==
  LET d[h \in 1 .. 11] == IF h = 1 THEN 1 ELSE d[ReadsParent[h]] + 1 IN d
ReadsBatches == {<<2, 3, 4>>, <<5>>, <<6, 7>>, <<8>>, <<9>>, <<10, 11>>}
ReadsNoEvds == [h \in 1 .. 11 |-> {}]
ReadsMiner == [h \in 1 .. 11 |-> h % 2]

ReadsInit == SyncInit /\ QInit

\* A peer and the clients of the query cache do not meet: a behaviour has
\* requests of the one or queries of the others.
ReadsNext ==
  \/ /\ sortedBlocks = <<>>
     /\ HandleSyncRequest \/ HandleBlocksRequest
     /\ UNCHANGED sortedBlocks
  \/ promise = NoPromise /\ refresh /\ UNCHANGED syncVars
  \/ Next /\ Forgotten /\ UNCHANGED syncVars

ReadsSpec == ReadsInit /\ [][ReadsNext]_<<vars, syncVars, sortedBlocks>>
=============================================================================
