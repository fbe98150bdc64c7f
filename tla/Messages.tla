------------------------------ MODULE Messages ------------------------------
(***************************************************************************)
(* The messages of the three protocols and the values in the database: the *)
(* constructors, the Marshal functions (names ending in Out) and the       *)
(* Unmarshal functions (In) of serialize/cp, discover, handshake, storage. *)
(***************************************************************************)
EXTENDS Layout

CONSTANT Now          \* the time, in seconds, that a new message carries

V1 == 1               \* CoreProtocolV1, DiscoverV1, HandshakeV1
MsgSyncReq == 1
MsgSyncResp == 2
MsgBlockRequest == 3
MsgBlockResponse == 4
MsgBlockBroadcast == 5
MsgEvidenceBroadcast == 6
MsgPing == 1
MsgPong == 2
MsgGetNeighbours == 3
MsgNeighbours == 4

-----------------------------------------------------------------------------
(* serialize/cp *)

HeadOut == <<Uint("Version", 1), Uint("Type", 1), Uint("Reserved", 2)>>
HeadIn == <<Uint("Version", 1), Uint("Type", 1), Uint("Reserved", 2)>>
NewHeadV1(type) == [Version |-> V1, Type |-> type, Reserved |-> 0]

EvidenceOut == <<Uint("Version", 1), Uint("Nonce", 4), Bytes("Hash", 1),
                 Bytes("Description", 2), Bytes("PubKey", 1), Bytes("Sig", 2)>>

\* Mutant: the order that the comment in cp.go lists the lengths in.
EvidenceIn_listed ==
  <<Uint("Version", 1), Uint("Nonce", 4), Bytes("Hash", 1),
    Bytes("PubKey", 1), Bytes("Description", 2), Bytes("Sig", 2)>>
EvidenceIn == <<Uint("Version", 1), Uint("Nonce", 4), Bytes("Hash", 1),
                Bytes("Description", 2), Bytes("PubKey", 1), Bytes("Sig", 2)>>
NewEvidenceV1(hash, description, pubKey, sig) ==
  [Version |-> V1, Nonce |-> 0, Hash |-> hash, Description |-> description,
   PubKey |-> pubKey, Sig |-> sig]

BlockHeaderOut ==
  <<Uint("Version", 1), Uint("Time", 8), Uint("Nonce", 4), Uint("Target", 4),
    Bytes("LastHash", 1), Bytes("Miner", 1), Bytes("EvidenceRoot", 1)>>
BlockHeaderIn ==
  <<Uint("Version", 1), Uint("Time", 8), Uint("Nonce", 4), Uint("Target", 4),
    Bytes("LastHash", 1), Bytes("Miner", 1), Bytes("EvidenceRoot", 1)>>
NewBlockHeaderV1(lastHash, miner, root) ==
  [Version |-> V1, Time |-> Now, Nonce |-> 0, Target |-> 0,
   LastHash |-> lastHash, Miner |-> miner, EvidenceRoot |-> root]

BlockOut == <<Struct("BlockHeader", BlockHeaderOut), List("Evds", EvidenceOut)>>
BlockIn == <<Struct("BlockHeader", BlockHeaderIn), List("Evds", EvidenceIn)>>
NewBlock(header, evds) == [BlockHeader |-> header, Evds |-> evds]

SyncRequestOut == <<Struct("Head", HeadOut), Bytes("Base", 1)>>
SyncRequestIn == <<Struct("Head", HeadIn), Bytes("Base", 1)>>
NewSyncRequest(base) == [Head |-> NewHeadV1(MsgSyncReq), Base |-> base]

SyncResponseOut ==
  <<Struct("Head", HeadOut), Bytes("Base", 1), Bytes("End", 1),
    Uint("HeightDiff", 4), Uint("Uptodate", 1)>>
SyncResponseIn ==
  <<Struct("Head", HeadIn), Bytes("Base", 1), Bytes("End", 1),
    Uint("HeightDiff", 4), Uint("Uptodate", 1)>>
NewSyncResponse(base, end, heightDiff, uptodate) ==
  [Head |-> NewHeadV1(MsgSyncResp), Base |-> base, End |-> end,
   HeightDiff |-> heightDiff, Uptodate |-> IF uptodate THEN 1 ELSE 0]

BlockRequestOut ==
  <<Struct("Head", HeadOut), Bytes("Base", 1), Bytes("End", 1),
    Uint("OnlyHeader", 1)>>
BlockRequestIn ==
  <<Struct("Head", HeadIn), Bytes("Base", 1), Bytes("End", 1),
    Uint("OnlyHeader", 1)>>
NewBlockRequest(base, end, onlyHeader) ==
  [Head |-> NewHeadV1(MsgBlockRequest), Base |-> base, End |-> end,
   OnlyHeader |-> IF onlyHeader THEN 1 ELSE 0]

BlockResponseOut == <<Struct("Head", HeadOut), List("Blocks", BlockOut)>>
BlockResponseIn == <<Struct("Head", HeadIn), List("Blocks", BlockIn)>>
NewBlockResponse(blocks) ==
  [Head |-> NewHeadV1(MsgBlockResponse), Blocks |-> blocks]

BlockBroadcastOut == <<Struct("Head", HeadOut), Struct("Block", BlockOut)>>
BlockBroadcastIn == <<Struct("Head", HeadIn), Struct("Block", BlockIn)>>
NewBlockBroadcast(block) ==
  [Head |-> NewHeadV1(MsgBlockBroadcast), Block |-> block]

EvidenceBroadcastOut == <<Struct("Head", HeadOut), List("Evds", EvidenceOut)>>
EvidenceBroadcastIn == <<Struct("Head", HeadIn), List("Evds", EvidenceIn)>>
NewEvidenceBroadcast(evds) ==
  [Head |-> NewHeadV1(MsgEvidenceBroadcast), Evds |-> evds]

-----------------------------------------------------------------------------
(* serialize/discover *)

DiscoverHeadOut ==
  <<Uint("Version", 1), Uint("Type", 1), Uint("Time", 8), Uint("Reserved", 2)>>
DiscoverHeadIn ==
  <<Uint("Version", 1), Uint("Type", 1), Uint("Time", 8), Uint("Reserved", 2)>>
NewDiscoverHeadV1(type) ==
  [Version |-> V1, Type |-> type, Time |-> Now, Reserved |-> 0]

AddressOut == <<IP("IP"), Uint("Port", 4)>>
AddressIn == <<IP("IP"), Uint("Port", 4)>>
NodeOut == <<Struct("Addr", AddressOut), Bytes("PubKey", 1)>>
NodeIn == <<Struct("Addr", AddressIn), Bytes("PubKey", 1)>>
NewNode(ip, port, pubKey) ==
  [Addr |-> [IP |-> ip, Port |-> port], PubKey |-> pubKey]

PingOut == <<Struct("Head", DiscoverHeadOut), Bytes("PubKey", 1)>>
PingIn == <<Struct("Head", DiscoverHeadIn), Bytes("PubKey", 1)>>
NewPing(pubKey) == [Head |-> NewDiscoverHeadV1(MsgPing), PubKey |-> pubKey]

PongOut ==
  <<Struct("Head", DiscoverHeadOut), Bytes("PingHash", 1), Bytes("PubKey", 1)>>
PongIn ==
  <<Struct("Head", DiscoverHeadIn), Bytes("PingHash", 1), Bytes("PubKey", 1)>>
NewPong(pingHash, pubKey) ==
  [Head |-> NewDiscoverHeadV1(MsgPong), PingHash |-> pingHash, PubKey |-> pubKey]

GetNeighboursOut == <<Struct("Head", DiscoverHeadOut), Bytes("PubKey", 1)>>
GetNeighboursIn == <<Struct("Head", DiscoverHeadIn), Bytes("PubKey", 1)>>
NewGetNeighbours(pubKey) ==
  [Head |-> NewDiscoverHeadV1(MsgGetNeighbours), PubKey |-> pubKey]

NeighboursOut == <<Struct("Head", DiscoverHeadOut), List("Nodes", NodeOut)>>
NeighboursIn == <<Struct("Head", DiscoverHeadIn), List("Nodes", NodeIn)>>
NewNeighbours(nodes) ==
  [Head |-> NewDiscoverHeadV1(MsgNeighbours), Nodes |-> nodes]

-----------------------------------------------------------------------------
(* serialize/handshake *)

RequestOut ==
  <<Uint("Version", 1), Uint("ChainID", 1), Uint("CodeVersion", 2),
    Uint("NodeType", 1), Bytes("PubKey", 1), Bytes("SessionKey", 1),
    Bytes("Sig", 2)>>
RequestIn ==
  <<Uint("Version", 1), Uint("ChainID", 1), Uint("CodeVersion", 2),
    Uint("NodeType", 1), Bytes("PubKey", 1), Bytes("SessionKey", 1),
    Bytes("Sig", 2)>>
NewRequestV1(chainID, codeVersion, nodeType, pubKey, sessionKey, sig) ==
  [Version |-> V1, ChainID |-> chainID, CodeVersion |-> codeVersion,
   NodeType |-> nodeType, PubKey |-> pubKey, SessionKey |-> sessionKey,
   Sig |-> sig]

ResponseOut ==
  <<Uint("Version", 1), Uint("Accept", 1), Uint("CodeVersion", 2),
    Uint("NodeType", 1), Bytes("SessionKey", 1), Bytes("Sig", 2)>>
ResponseIn ==
  <<Uint("Version", 1), Uint("Accept", 1), Uint("CodeVersion", 2),
    Uint("NodeType", 1), Bytes("SessionKey", 1), Bytes("Sig", 2)>>
NewAcceptResponseV1(codeVersion, nodeType, sessionKey, sig) ==
  [Version |-> V1, Accept |-> 1, CodeVersion |-> codeVersion,
   NodeType |-> nodeType, SessionKey |-> sessionKey, Sig |-> sig]
NewRejectResponseV1(sig) ==
  [Version |-> V1, Accept |-> 2, CodeVersion |-> 0, NodeType |-> 0,
   SessionKey |-> <<>>, Sig |-> sig]

-----------------------------------------------------------------------------
(* serialize/storage *)

StoredHeaderOut == <<Struct("BlockHeader", BlockHeaderOut), Uint("Height", 8)>>
StoredHeaderIn == <<Struct("BlockHeader", BlockHeaderIn), Uint("Height", 8)>>

\* A list of hashes, each after its length.
StoredBlockOut == <<List("EvdsHash", <<Bytes("hash", 1)>>)>>
StoredBlockIn == <<List("EvdsHash", <<Bytes("hash", 1)>>)>>

-----------------------------------------------------------------------------
(* Which function writes and reads which message *)

Out == [SyncRequest |-> SyncRequestOut, SyncResponse |-> SyncResponseOut,
        BlockRequest |-> BlockRequestOut, BlockResponse |-> BlockResponseOut,
        BlockBroadcast |-> BlockBroadcastOut,
        EvidenceBroadcast |-> EvidenceBroadcastOut,
        Ping |-> PingOut, Pong |-> PongOut, GetNeighbours |-> GetNeighboursOut,
        Neighbours |-> NeighboursOut, Request |-> RequestOut,
        Response |-> ResponseOut, StoredHeader |-> StoredHeaderOut,
        StoredBlock |-> StoredBlockOut, StoredEvidence |-> EvidenceOut]

In == [SyncRequest |-> SyncRequestIn, SyncResponse |-> SyncResponseIn,
       BlockRequest |-> BlockRequestIn, BlockResponse |-> BlockResponseIn,
       BlockBroadcast |-> BlockBroadcastIn,
       EvidenceBroadcast |-> EvidenceBroadcastIn,
       Ping |-> PingIn, Pong |-> PongIn, GetNeighbours |-> GetNeighboursIn,
       Neighbours |-> NeighboursIn, Request |-> RequestIn,
       Response |-> ResponseIn, StoredHeader |-> StoredHeaderIn,
       StoredBlock |-> StoredBlockIn, StoredEvidence |-> EvidenceIn]

\* The switches over the type of a message, by its number.
handleRecvPacket ==
  <<"SyncRequest", "SyncResponse", "BlockRequest", "BlockResponse",
    "BlockBroadcast", "EvidenceBroadcast">>
handleRecv == <<"Ping", "Pong", "GetNeighbours", "Neighbours">>
=============================================================================
