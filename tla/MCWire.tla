------------------------------- MODULE MCWire -------------------------------
EXTENDS Wire

MCIPText == [a \in {"v4", "v6"} |-> IF a = "v4" THEN <<1, 2>> ELSE <<1, 2, 3>>]
MCNow == 8^7 + 5

\* A description of nine bytes needs the second digit of its length. Nonces
\* run over a carry, and over the end of their four bytes.
MCEvidence ==
  {[NewEvidenceV1(<<4>>, d, <<3>>, <<1, 2>>) EXCEPT !.Nonce = n] :
     d \in {<<>>, [i \in 1 .. 9 |-> i % 8]}, n \in {6, 8^4 - 2}}
Empty == <<1, 2, 3>>
MCHeader == {[NewBlockHeaderV1(<<7>>, <<0>>, Empty) EXCEPT !.Nonce = 6, !.Target = 8^3]}

Msg(kind, body) == [kind |-> kind, body |-> body]

MCHandshakes ==
  {Msg("Request", NewRequestV1(1, 1, 2, <<3>>, <<0>>, <<5>>)),
   Msg("Response", NewAcceptResponseV1(1, 2, <<0>>, <<5, 6>>))}

MCStreamed(e, h) ==
  {Msg("SyncResponse", NewSyncResponse(<<>>, <<>>, 0, TRUE)),
   Msg("BlockBroadcast", NewBlockBroadcast(NewBlock(h, <<e>>)))}

Lists(x) == {<<>>, <<x>>, <<x, x>>, [i \in 1 .. 9 |-> x]}
Hashes == {<<>>, <<0>>, <<7>>}

MCWhole(e, h) ==
  LET other == [h EXCEPT !.EvidenceRoot = <<5>>, !.Time = 0]
      blocks == {NewBlock(g, evds) : g \in {h, other}, evds \in Lists(e)}
      nodes == {NewNode(ip, 8^4 - 1, <<3>>) : ip \in DOMAIN IPText}
  IN  {Msg("SyncRequest", NewSyncRequest(b)) : b \in Hashes}
      \cup {Msg("SyncResponse", NewSyncResponse(b, c, d, d = 0)) :
              b, c \in Hashes, d \in {0, 9, 8^4 - 1}}
      \cup {Msg("BlockRequest", NewBlockRequest(b, c, o)) :
              b, c \in Hashes, o \in BOOLEAN}
      \cup {Msg("BlockResponse", NewBlockResponse(<<b, c>>)) : b, c \in blocks}
      \cup {Msg("BlockResponse", NewBlockResponse(<<>>))}
      \cup {Msg("BlockBroadcast", NewBlockBroadcast(b)) : b \in blocks}
      \cup {Msg("EvidenceBroadcast", NewEvidenceBroadcast(l)) : l \in Lists(e)}
      \cup {Msg("Ping", NewPing(<<3>>)), Msg("GetNeighbours", NewGetNeighbours(<<3>>))}
      \cup {Msg("Pong", NewPong(b, <<3>>)) : b \in Hashes}
      \cup {Msg("Neighbours", NewNeighbours(l)) :
              l \in UNION {Lists(node) : node \in nodes}}
      \cup MCHandshakes
      \cup {Msg("Response", NewRejectResponseV1(<<5>>))}
      \cup {Msg("StoredHeader", [BlockHeader |-> g, Height |-> i]) :
              g \in {h, other}, i \in {1, 8^7}}
      \cup {Msg("StoredBlock", [EvdsHash |-> l]) : l \in Lists([hash |-> <<7>>])}
      \cup {Msg("StoredEvidence", e)}
=============================================================================
