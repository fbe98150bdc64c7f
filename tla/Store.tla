------------------------------- MODULE Store -------------------------------
(***************************************************************************)
(* The block store of db/badger.go over its key-value database (badger,    *)
(* external: a transaction is atomic, a view sees one state).              *)
(*                                                                         *)
(* A block is written in one transaction that follows a separate check of  *)
(* the height, and read in several: a query picks up a hash, then the      *)
(* header, the list of evidence and each evidence, while blocks are put    *)
(* in between and the process may end at any moment. The writer is the     *)
(* flush of module Chain, which runs under branchLock, so there is one;    *)
(* its callers hand over a child of a stored block with the block's own    *)
(* height. One query is in flight: queries do not see each other.          *)
(*                                                                         *)
(* Keys are what schema.go puts together, with a height, a hash and a      *)
(* public key as one symbol each. A stored header is the header and its    *)
(* height; of the header, the evidence root is what matters here.          *)
(***************************************************************************)
EXTENDS Naturals, Sequences, FiniteSets, Merkle

CONSTANTS
  Hash,      \* the hashes of the blocks, strings like all other symbols
  Genesis,   \* the hash of the genesis block
  Parent,    \* LastHash of every other block
  Depth,     \* height of a block
  Evds,      \* block -> the sequence of its evidence
  PubKey,    \* evidence -> the key that signed it
  Miner,     \* block -> the key of its miner
  NoHash     \* nothing was put or found yet

Evidence == DOMAIN PubKey
Account == {PubKey[e] : e \in Evidence} \cup {Miner[h] : h \in Hash}
Heights == {Depth[h] : h \in Hash}

ASSUME StoreAssumption ==
  /\ Genesis \in Hash /\ NoHash \notin Hash
  /\ Parent \in [Hash \ {Genesis} -> Hash]
  /\ Depth \in [Hash -> Nat] /\ Depth[Genesis] = 1
  /\ \A h \in Hash \ {Genesis} : Depth[h] = Depth[Parent[h]] + 1
  /\ Evds \in [Hash -> Seq(Evidence)]

\* A hash is not the suffix of the key that leads to it, and no public key
\* begins like the prefix of another key (its first byte is 2 or 3).
ASSUME Symbols ==
  "n" \notin Hash /\ Account \cap {"h", "H", "b", "e", "E"} = {}

VARIABLES
  kv,        \* the database: key -> value
  putting,   \* the block whose height has passed the check, or NoHash
  query      \* the query in flight

vars == <<kv, putting, query>>

-----------------------------------------------------------------------------
(* Keys: schema.go *)

headerKey(height, hash) == <<"h", height, hash>>
hashKey(height) == <<"h", height, "n">>
headerHeightKey(hash) == <<"H", hash>>
blockKey(height, hash) == <<"b", height, hash>>
evidenceKey(height, hash) == <<"e", height, hash>>
evidenceHeightKey(hash) == <<"E", hash>>
scoreKey(key) == <<key, "Score">>
accountEvidenceKey(key, hash) == <<key, "e", hash>>
mLatestHeight == <<"mLatestHeigh">>
mGenesis == <<"mGenesis">>

Has(key) == key \in DOMAIN kv

\* A transaction: the pairs it sets replace the old values together.
Set(old, new) ==
  [k \in DOMAIN old \cup DOMAIN new |->
     IF k \in DOMAIN new THEN new[k] ELSE old[k]]

-----------------------------------------------------------------------------
(* Writing *)

EmptyEvidenceRoot == <<>>

\* The root of a list of evidence, as genBlock and verifyBlock compute it.
Root(evds) ==
  IF evds = <<>> THEN EmptyEvidenceRoot
  ELSE ComputeRoot([i \in DOMAIN evds |-> Leaf(evds[i])])

EmptyRoot(hash) == Root(Evds[hash]) = EmptyEvidenceRoot

EvdsOf(hash) == {Evds[hash][i] : i \in DOMAIN Evds[hash]}

\* Each evidence, its height, the entry of its account (the key and value of
\* updateAccountEvidenceTX) and the list of hashes of the block.
putEvidenceTX(hash, height) ==
  Set([k \in {evidenceKey(height, e) : e \in EvdsOf(hash)} |-> k[3]],
      Set([k \in {evidenceHeightKey(e) : e \in EvdsOf(hash)} |-> height],
          Set([k \in {accountEvidenceKey(PubKey[e], e) : e \in EvdsOf(hash)} |->
                 height],
              [k \in {blockKey(height, hash)} |-> Evds[hash]])))

\* Mutant: the first point of an account is never raised.
updateScoreTX_once(key) == [k \in {scoreKey(key)} |-> 1]

updateScoreTX(key) ==
  [k \in {scoreKey(key)} |-> IF Has(k) THEN kv[k] + 1 ELSE 1]

updateLatestHeightTX(height) == [k \in {mLatestHeight} |-> height]

\* The header, the two entries between hash and height, the miner's score and
\* the evidence, of which a block with an empty root has none.
putBlockTX(hash, height) ==
  Set([k \in {headerKey(height, hash)} |->
         [hash |-> hash, height |-> height, root |-> Root(Evds[hash])]],
      Set([k \in {hashKey(height)} |-> hash],
          Set([k \in {headerHeightKey(hash)} |-> height],
              Set(updateScoreTX(Miner[hash]),
                  IF EmptyRoot(hash) THEN <<>> ELSE putEvidenceTX(hash, height)))))

HasGenesis == Has(mGenesis)

\* Chain.Init: createGenesis on a database that has none.
PutGenesis ==
  /\ ~HasGenesis
  /\ kv' = Set(kv, Set([k \in {mGenesis} |-> "0"],
                       Set(putBlockTX(Genesis, 1), updateLatestHeightTX(1))))
  /\ UNCHANGED <<putting, query>>

\* The blocks callers may hand over: the child of a stored block.
Offered == {h \in Hash \ {Genesis} : Has(headerHeightKey(Parent[h]))}

\* Mutant: a height that is taken passes as well.
Fits_any(height) == height <= kv[mLatestHeight] + 1

Fits(height) == height = kv[mLatestHeight] + 1

\* PutBlock up to its transaction. A block that does not fit is refused with
\* ErrInvalidHeight and nothing changes.
CheckHeight(h) ==
  /\ HasGenesis /\ putting = NoHash
  /\ h \in Offered
  /\ Fits(Depth[h])
  /\ putting' = h
  /\ UNCHANGED <<kv, query>>

\* Mutant: the hash and the latest height are committed before the block.
PutBlock_parts ==
  LET h == putting
      first == Set(updateLatestHeightTX(Depth[h]),
                   [k \in {hashKey(Depth[h])} |-> h])
      second == putBlockTX(h, Depth[h])
  IN  /\ putting # NoHash
      /\ IF kv[mLatestHeight] = Depth[h]
         THEN kv' = Set(kv, second) /\ putting' = NoHash
         ELSE kv' = Set(kv, first) /\ UNCHANGED putting
      /\ UNCHANGED query

\* The transaction of PutBlock.
PutBlock ==
  /\ putting # NoHash
  /\ kv' = Set(kv, Set(putBlockTX(putting, Depth[putting]),
                       updateLatestHeightTX(Depth[putting])))
  /\ putting' = NoHash
  /\ UNCHANGED query

-----------------------------------------------------------------------------
(* Reading: every step of a query is one view of the database *)

\* `todo' are the evidence still to read, `evds' the ones read; `before' is
\* the latest height when the query began.
NoQuery == [op |-> "none", asked |-> NoHash, next |-> "done",
            height |-> 0, hash |-> NoHash, header |-> NoHash, todo |-> <<>>,
            evds |-> <<>>, before |-> 0, found |-> FALSE]

ByHeight == {"GetHeaderViaHeight", "GetBlockViaHeight"}
ByHash == {"GetHeaderViaHash", "GetBlockViaHash"}

\* GetLatestHeader reads the latest height and goes on by height; the query
\* cache's getLatestBlock goes on with the block.
Latest == {"GetLatestHeader", "getLatestBlock"}

Whole == {"GetBlockViaHeight", "GetBlockViaHash", "getLatestBlock"}

Ask(op, next, height, hash) ==
  /\ HasGenesis /\ query.next = "done"
  /\ query' = [NoQuery EXCEPT !.op = op, !.asked = hash, !.next = next,
                              !.height = height, !.hash = hash,
                              !.before = kv[mLatestHeight]]
  /\ UNCHANGED <<kv, putting>>

Query ==
  \/ \E op \in ByHeight, i \in Heights : Ask(op, "GetHash", i, NoHash)
  \/ \E op \in ByHash, h \in Hash : Ask(op, "getHeaderHeight", 0, h)
  \/ \E op \in Latest : Ask(op, "GetLatestHeight", 0, NoHash)
  \/ \E e \in Evidence : Ask("getEvidence", "getEvidenceHeight", 0, e)

\* ErrNotFound, or the next step of the query with what was read.
Step(step, key, found) ==
  /\ query.next = step
  /\ query' = IF Has(key) THEN found
              ELSE [query EXCEPT !.next = "done", !.found = FALSE]
  /\ UNCHANGED <<kv, putting>>

GetLatestHeight ==
  Step("GetLatestHeight", mLatestHeight,
       [query EXCEPT !.next = "GetHash", !.height = kv[mLatestHeight]])

GetHash ==
  Step("GetHash", hashKey(query.height),
       [query EXCEPT !.next = "getHeader", !.hash = kv[hashKey(query.height)]])

getHeaderHeight ==
  Step("getHeaderHeight", headerHeightKey(query.hash),
       [query EXCEPT !.next = "getHeader",
                     !.height = kv[headerHeightKey(query.hash)]])

\* A header query ends here, a block with an empty root has no evidence.
getHeader ==
  LET header == kv[headerKey(query.height, query.hash)]
  IN  Step("getHeader", headerKey(query.height, query.hash),
           IF query.op \in Whole /\ header.root # EmptyEvidenceRoot
           THEN [query EXCEPT !.next = "getBlock", !.header = header.hash]
           ELSE [query EXCEPT !.next = "done", !.header = header.hash,
                              !.found = TRUE])

getBlock ==
  Step("getBlock", blockKey(query.height, query.hash),
       [query EXCEPT !.next = "getEvidence",
                     !.todo = kv[blockKey(query.height, query.hash)]])

\* GetEvidenceViaHash; the query cache (qcache.go getEvidence) goes on with
\* the header at the same height.
getEvidenceHeight ==
  Step("getEvidenceHeight", evidenceHeightKey(query.hash),
       [query EXCEPT !.next = "getEvidence", !.todo = <<query.hash>>,
                     !.height = kv[evidenceHeightKey(query.hash)]])

getEvidence ==
  LET e == Head(query.todo)
      more == [query EXCEPT !.todo = Tail(query.todo),
                            !.evds = Append(@, kv[evidenceKey(query.height, e)])]
  IN  Step("getEvidence", evidenceKey(query.height, e),
           IF Len(query.todo) > 1 THEN more
           ELSE IF query.op = "getEvidence" THEN [more EXCEPT !.next = "GetHash"]
           ELSE [more EXCEPT !.next = "done", !.found = TRUE])

Read == \/ GetLatestHeight \/ GetHash \/ getHeaderHeight \/ getHeader
        \/ getBlock \/ getEvidenceHeight \/ getEvidence

\* The process ends, or the transaction fails (ErrInternal, which ends the
\* process in Chain.maintain): what was committed stays, the rest is gone.
Stop ==
  /\ putting # NoHash \/ query # NoQuery
  /\ putting' = NoHash
  /\ query' = NoQuery
  /\ UNCHANGED kv

-----------------------------------------------------------------------------
(* Queries of one view *)

HasEvidence(e) == Has(evidenceHeightKey(e))

\* The iterator over the keys that begin with the account's prefix.
GetEvidenceViaKey(key) ==
  {<<k[3], kv[k]>> : k \in {k \in DOMAIN kv :
                              Len(k) = 3 /\ k[1] = key /\ k[2] = "e"}}

GetScoreViaKey(key) == IF Has(scoreKey(key)) THEN kv[scoreKey(key)] ELSE 0

-----------------------------------------------------------------------------
Init == kv = <<>> /\ putting = NoHash /\ query = NoQuery

Next == \/ PutGenesis
        \/ \E h \in Hash : CheckHeight(h)
        \/ PutBlock
        \/ Query \/ Read \/ Stop

Spec == Init /\ [][Next]_vars

-----------------------------------------------------------------------------
(* Properties *)

\* The stored blocks by height; what the node will begin with counts as
\* stored before the first start has put it.
ledger == IF HasGenesis
          THEN [i \in 1 .. kv[mLatestHeight] |-> kv[hashKey(i)]]
          ELSE <<Genesis>>

TheLedger == INSTANCE Ledger

\* The store implements the list of blocks that only grows: a height, once
\* taken, keeps its block, and each block is the child of the one below, with
\* stops between the check of the height and the transaction (badger.go
\* PutBlock and its comment).
StoreIsLedger == TheLedger!Spec

Answered == query.op # "none" /\ query.next = "done"

\* A query that finds its block answers with the block that was put, its hash
\* and its height fitting together and with all its evidence, even though
\* every part came from a view of its own (badger.go getCPBlock,
\* GetEvidenceViaHash, qcache.go getEvidence). The evidence comes in the order
\* of the tree whose root is in the header, although ComputeRoot overwrites
\* the array it reads from (merkle.go ComputeRoot). A query fails only for what
\* was not stored when it began: no part of a block is missing once its hash,
\* its height or one of its evidence can be found (every ErrNotFound).
ReadsWhole ==
  /\ Answered /\ query.found =>
       /\ query.header \in Hash /\ query.header = query.hash
       /\ Depth[query.header] = query.height
       /\ query.op \in Whole =>
            /\ Root(query.evds) = Root(Evds[query.header])
            /\ query.evds # <<>> => Root(query.evds) =
                 TreeRoot([i \in DOMAIN query.evds |-> Leaf(query.evds[i])])
       /\ query.op = "getEvidence" =>
            query.evds = <<query.asked>> /\ query.asked \in EvdsOf(query.header)
  /\ Answered /\ ~query.found =>
       /\ query.op \in ByHeight => query.height > query.before
       /\ query.op \in ByHash =>
            ~\E i \in 1 .. query.before : ledger[i] = query.asked
       /\ query.op \notin Latest
       /\ query.op = "getEvidence" =>
            ~\E i \in 1 .. query.before : query.asked \in EvdsOf(ledger[i])

\* The entries by account are the ones that follow from the list of blocks:
\* one point for every block mined (technical.md:363) and every evidence with
\* the height of its block (badger.go updateScoreTX, updateAccountEvidenceTX).
IndexesAgree ==
  HasGenesis =>
    \A a \in Account :
      /\ GetScoreViaKey(a) =
           Cardinality({i \in DOMAIN ledger : Miner[ledger[i]] = a})
      /\ GetEvidenceViaKey(a) =
           {p \in Evidence \X DOMAIN ledger :
              PubKey[p[1]] = a /\ p[1] \in EvdsOf(ledger[p[2]])}
      /\ \A e \in Evidence :
           HasEvidence(e) <=> \E i \in DOMAIN ledger : e \in EvdsOf(ledger[i])
=============================================================================
