------------------------------- MODULE EvPool -------------------------------
(***************************************************************************)
(* The evidence pool of a node: core/ev_pool.go. Evidence comes from the   *)
(* clients of this node, raw (the pool does the proof of work) or ready,   *)
(* and from the broadcasts of other nodes. It waits in a list ordered by   *)
(* weight until the miner takes it. Clients, the network loop, the goroutine*)
(* of the pool and the miner work on it at the same time.                  *)
(*                                                                         *)
(* The weight of an evidence is the value of its proof of work, a number;  *)
(* the bytes of an evidence are left out.                                  *)
(***************************************************************************)
EXTENDS Integers, Sequences, FiniteSets

CONSTANTS
  Evidence,       \* all evidence
  Weight,         \* the value of its proof of work
  CacheSize,      \* evdsCacheSize: length of the list and of both channels
  MaxOffers       \* bound: how often one evidence reaches the pool

ASSUME PoolAssumption ==
  /\ Weight \in [Evidence -> Nat]
  /\ CacheSize \in Nat \ {0} /\ MaxOffers \in Nat

VARIABLES
  raws,           \* the channel of raw evidence
  evds,           \* the list, ascending by weight
  toBroadcast,    \* the channel evdsToBroadcast of the network
  offers,         \* how often each evidence was offered
  uploaders       \* evidence whose client waits in addEvidence

poolVars == <<raws, evds, toBroadcast, offers, uploaders>>

-----------------------------------------------------------------------------
(* The ordered list *)

\* One turn of the loop: the half of begin .. end that has the place for w.
Narrow(list, w, range) ==
  LET begin == range[1]
      end == range[2]
      mid == (begin + end) \div 2
  IN  IF begin = end THEN range
      ELSE IF Weight[list[mid + 1]] >= w THEN <<begin, mid>> ELSE <<mid + 1, end>>

\* Where the loop ends: every turn shortens the range.
Place(list, w) ==
  LET range[n \in Nat] ==
        IF n = 0 THEN <<0, Len(list)>> ELSE Narrow(list, w, range[n - 1])
  IN  range[Len(list)][1]

\* Insert behind the place found, whatever its weight.
binarySearchInsertIndex_after(list, w) ==
  LET at == Place(list, w)
  IN  IF at = 0 THEN 0 ELSE IF at = Len(list) THEN -1 ELSE at + 1

\* The position, from 0, before which w is inserted; -1 appends.
binarySearchInsertIndex(list, w) ==
  LET at == Place(list, w)
  IN  IF at = 0 THEN 0
      ELSE IF at = Len(list) THEN -1
      ELSE IF Weight[list[at+1]] > w THEN at ELSE at + 1

\* Only the insertion in the middle shortens the list.
insert(list, ev) ==
  LET i == binarySearchInsertIndex(list, Weight[ev])
      longer == SubSeq(list, 1, i) \o <<ev>> \o SubSeq(list, i + 1, Len(list))
  IN  IF i = -1 THEN Append(list, ev)
      ELSE SubSeq(longer, 1, IF Len(longer) > CacheSize THEN CacheSize
                             ELSE Len(longer))
-----------------------------------------------------------------------------
(* Operations *)

Offer(ev) == /\ offers[ev] < MaxOffers
             /\ offers' = [offers EXCEPT ![ev] = @ + 1]

\* UploadEvidenceRaw: a full channel drops the evidence.
addRawEvidence(ev) ==
  /\ Offer(ev)
  /\ raws' = IF Len(raws) < CacheSize THEN Append(raws, ev) ELSE raws
  /\ UNCHANGED <<evds, toBroadcast, uploaders>>

\* The goroutine of the pool signs a raw evidence, does its proof of work and
\* asks the network to spread it; a full channel drops the request.
calculateRaw ==
  /\ raws # <<>>
  /\ raws' = Tail(raws)
  /\ evds' = insert(evds, Head(raws))
  /\ toBroadcast' = IF Len(toBroadcast) < CacheSize
                    THEN Append(toBroadcast, Head(raws)) ELSE toBroadcast
  /\ UNCHANGED <<offers, uploaders>>

\* UploadEvidence, after VerifyEvidence: the client then waits for room in
\* the channel.
addEvidence(ev) ==
  /\ Offer(ev)
  /\ ev \notin uploaders
  /\ evds' = insert(evds, ev)
  /\ uploaders' = uploaders \cup {ev}
  /\ UNCHANGED <<raws, toBroadcast>>

UploadReturns(ev) ==
  /\ ev \in uploaders
  /\ Len(toBroadcast) < CacheSize
  /\ toBroadcast' = Append(toBroadcast, ev)
  /\ uploaders' = uploaders \ {ev}
  /\ UNCHANGED <<raws, evds, offers>>

\* An evidence that another node spreads is inserted and not verified.
handleEvidenceBroadcast(ev) ==
  /\ Offer(ev)
  /\ evds' = insert(evds, ev)
  /\ UNCHANGED <<raws, toBroadcast, uploaders>>

\* Put back what could not be sent, to try it again.
broadcastEvidence_retry ==
  /\ toBroadcast # <<>>
  /\ toBroadcast' = Append(Tail(toBroadcast), Head(toBroadcast))
  /\ UNCHANGED <<raws, evds, offers, uploaders>>

\* The loop of the network takes what it has to spread.
broadcastEvidence ==
  /\ toBroadcast # <<>>
  /\ toBroadcast' = Tail(toBroadcast)
  /\ UNCHANGED <<raws, evds, offers, uploaders>>

nextEvidence ==
  /\ evds' = IF evds = <<>> THEN evds ELSE Tail(evds)
  /\ UNCHANGED <<raws, toBroadcast, offers, uploaders>>

PoolInit ==
  /\ raws = <<>> /\ evds = <<>> /\ toBroadcast = <<>>
  /\ offers = [ev \in Evidence |-> 0]
  /\ uploaders = {}

PoolNext ==
  \/ \E ev \in Evidence :
       \/ addRawEvidence(ev) \/ addEvidence(ev) \/ UploadReturns(ev)
       \/ handleEvidenceBroadcast(ev)
  \/ calculateRaw \/ broadcastEvidence \/ nextEvidence

PoolSpec == PoolInit /\ [][PoolNext]_poolVars

\* The loops of the pool and of the network run on.
PoolFairSpec ==
  /\ PoolSpec
  /\ WF_poolVars(calculateRaw) /\ WF_poolVars(broadcastEvidence)
  /\ \A ev \in Evidence : SF_poolVars(UploadReturns(ev))

-----------------------------------------------------------------------------
(* Properties *)

\* The miner takes the evidence with the lowest proof of work value first:
\* binary search, insertion and cut keep the list in ascending order, also
\* among equal weights (ev_pool.go:28).
PoolSorted ==
  \A i, j \in DOMAIN evds : i <= j => Weight[evds[i]] <= Weight[evds[j]]

\* A client that uploads is not kept waiting for ever although addEvidence
\* blocks on a full channel: the network loop never waits for the pool.
UploadsReturn == \A ev \in Evidence : ev \in uploaders ~> ev \notin uploaders
=============================================================================
