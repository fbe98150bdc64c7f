-------------------------------- MODULE Wire --------------------------------
(***************************************************************************)
(* From a message to the bytes of a TCP stream and back: the framing of    *)
(* p2p/tcp_utils.go, the two goroutines of utils/tcp.go, the receiving     *)
(* loop of p2p/conn.go and readPacket of p2p/negotiator.go, one direction  *)
(* of one connection. The first message is the one of the handshake, in    *)
(* plain text, the others are sealed. TCP delivers the bytes in order, in  *)
(* pieces of any size (external).                                          *)
(*                                                                         *)
(* A message is first put together from an evidence and a header that were *)
(* mined in place, in the cache of their bytes (cp/pow_cache.go), and may  *)
(* be handed over whole instead: a datagram or a value in the database.    *)
(***************************************************************************)
EXTENDS Messages, SequencesExt

CONSTANTS
  NewEvidence,   \* the evidence to mine, its first nonce set
  NewHeader,     \* the header to mine, its first nonce set
  Handshakes,    \* the messages that may come first on a connection
  Protocol,      \* the ID of the core protocol
  LastNonce,     \* bound: the nonces at which mining ends
  RecvQSize,     \* tcpRecvQSize
  ReadSize,      \* tcpReadBufferSize
  MaxSent        \* bound: messages on the connection

\* The messages, built from the evidence and the header.
CONSTANTS Whole(_, _), Streamed(_, _)

VARIABLES
  pow,           \* what is mined: the structure and its marshalCache
  handed,        \* the last message that was handed over whole
  sent,          \* the messages sent on the connection
  stream,        \* the bytes under way
  split,         \* whether the receiver's split function is set
  early,         \* the last bytes were read before it was
  buffer,        \* bytes read and not yet split off
  recvQ,         \* packets split off
  dropped,       \* packets that found recvQ full
  delivered      \* the messages that reached their handler

connVars == <<sent, stream, split, early, buffer, recvQ, dropped, delivered>>
vars == <<pow, handed, connVars>>

-----------------------------------------------------------------------------
(* Mining in place: pow_cache.go, NextNonce of evidence and header *)

None == <<>>

layoutOf == [evidence |-> EvidenceOut, header |-> BlockHeaderOut]

\* Mutant: the nonce is written after the version in both.
nonceIndex_one == [evidence |-> 1, header |-> 1]

\* Where the nonce is: after the version, and after version and time.
nonceIndex == [evidence |-> 1, header |-> 1 + 8]

\* powCache.update: four bytes are replaced in the cache.
update(cache, nonce, index) ==
  [i \in DOMAIN cache |->
     IF i \in index + 1 .. index + 4 THEN Digits(nonce, 4)[i - index] ELSE cache[i]]

Mined(x) == pow[x].cache # None /\ pow[x].msg.Nonce \in LastNonce

\* The first call only fills the cache.
NextNonce(x) ==
  LET msg == pow[x].msg
      nonce == (msg.Nonce + 1) % Base^4
  IN  /\ ~Mined(x)
      /\ pow' = [pow EXCEPT ![x] =
                   IF @.cache = None
                   THEN [@ EXCEPT !.cache = Marshal(layoutOf[x], msg)]
                   ELSE [msg |-> [msg EXCEPT !.Nonce = nonce],
                         cache |-> update(@.cache, nonce, nonceIndex[x])]]
      /\ UNCHANGED <<handed, connVars>>

AllMined == Mined("evidence") /\ Mined("header")

-----------------------------------------------------------------------------
(* Whole messages *)

\* Read the head, then everything by its type.
Dispatch(headIn, switch, data) ==
  LET head == Unmarshal(headIn, data)
  IN  IF ~head.ok \/ head.msg.Type \notin DOMAIN switch THEN Error
      ELSE Unmarshal(In[switch[head.msg.Type]], data)

\* The receiver of a datagram goes by its head, the database by its key.
Decode(kind, data) ==
  IF kind \in Range(handleRecv) THEN Dispatch(DiscoverHeadIn, handleRecv, data)
  ELSE IF kind \in Range(handleRecvPacket)
       THEN Dispatch(HeadIn, handleRecvPacket, data)
  ELSE Unmarshal(In[kind], data)

Hand(m) ==
  /\ AllMined /\ sent = <<>>
  /\ handed' = [kind |-> m.kind, body |-> m.body,
                data |-> Marshal(Out[m.kind], m.body)]
  /\ UNCHANGED <<pow, connVars>>

-----------------------------------------------------------------------------
(* Packets: tcp_utils.go; the sum and the seal are external *)

Total(data) == IF data = <<>> THEN 0
               ELSE LET t[i \in 0 .. Len(data)] ==
                          IF i = 0 THEN 0 ELSE t[i-1] + i * data[i]
                    IN  t[Len(data)]

ChecksumIEEE(data) == Total(data) % Base^4

\* aesgcmCodec: the text and an authenticator.
encrypt(text) == text \o <<Total(text) % Base>>
decrypt(data) ==
  LET text == SubSeq(data, 1, Len(data) - 1)
  IN  [ok |-> data # <<>> /\ encrypt(text) = data, text |-> text]

tcpHeaderSize == 9

buildTCPPacket(payload, protocolID) ==
  Digits(Len(payload), 4) \o Digits(ChecksumIEEE(payload), 4)
    \o Digits(protocolID, 1) \o payload

PacketLen(data) == tcpHeaderSize + Number(SubSeq(data, 1, 4))

\* Mutant: one packet for each piece that is read.
splitTCPStream_once(data) ==
  IF Len(data) > tcpHeaderSize /\ Len(data) >= PacketLen(data)
  THEN [packets |-> <<SubSeq(data, 1, PacketLen(data))>>,
        left |-> Cut(data, PacketLen(data))]
  ELSE [packets |-> <<>>, left |-> data]

\* Mutant: peeking at a packet does not take it out.
splitTCPStream_peek(data) ==
  IF Len(data) > tcpHeaderSize /\ Len(data) >= PacketLen(data)
  THEN [packets |-> <<SubSeq(data, 1, PacketLen(data))>>, left |-> data]
  ELSE [packets |-> <<>>, left |-> data]

\* All packets that are complete, and the rest.
splitTCPStream(data) ==
  LET from[i \in 0 .. Len(data)] ==    \* the first packets from byte i on
        LET rest == Cut(data, i)
        IN  IF Len(rest) > tcpHeaderSize /\ Len(rest) >= PacketLen(rest)
            THEN [packets |-> <<SubSeq(rest, 1, PacketLen(rest))>>
                                \o from[i + PacketLen(rest)].packets,
                  left |-> from[i + PacketLen(rest)].left]
            ELSE [packets |-> <<>>, left |-> rest]
  IN  from[0]

verifyTCPPacket(packet) ==
  LET length == Number(SubSeq(packet, 1, 4))
      crc == Number(SubSeq(packet, 5, 8))
      payload == SubSeq(packet, tcpHeaderSize + 1, tcpHeaderSize + length)
  IN  [ok |-> crc = ChecksumIEEE(payload), payload |-> payload,
       protocolID |-> packet[9]]

-----------------------------------------------------------------------------
(* The connection *)

handshakeProtocolID == 0

\* genRequest and genAcceptResponse, or conn.send. Write takes the whole packet.
\* Who sent a request waits for the answer to it.
Send(m) ==
  LET data == Marshal(Out[m.kind], m.body)
  IN  /\ AllMined /\ handed = None
      /\ Len(sent) < MaxSent
      /\ sent # <<>> /\ sent[1].kind = "Request" => delivered # <<>>
      /\ sent' = Append(sent, m)
      /\ stream' = stream \o (IF sent = <<>>
                              THEN buildTCPPacket(data, handshakeProtocolID)
                              ELSE buildTCPPacket(encrypt(data), Protocol))
      /\ UNCHANGED <<pow, handed, split, early, buffer, recvQ, dropped, delivered>>

\* The goroutine that takes the connection over sets it while recv runs.
SetSplitFunc ==
  /\ sent # <<>> /\ ~split
  /\ split' = TRUE
  /\ UNCHANGED <<pow, handed, sent, stream, early, buffer, recvQ, dropped, delivered>>

\* recvQ takes what it has place for, the rest is dropped.
Queued(queue, packets) ==
  SubSeq(queue \o packets, 1, Min({RecvQSize, Len(queue \o packets)}))

\* One turn of recv: n bytes are there to read.
Read(n) ==
  LET data == buffer \o SubSeq(stream, 1, n)
      parts == splitTCPStream(data)
  IN  /\ n <= Len(stream)
      /\ stream' = Cut(stream, n)
      /\ early' = ~split
      /\ IF split
         THEN /\ buffer' = parts.left
              /\ recvQ' = Queued(recvQ, parts.packets)
              /\ dropped' = dropped + Len(recvQ) + Len(parts.packets) - Len(recvQ')
         ELSE buffer' = data /\ UNCHANGED <<recvQ, dropped>>
      /\ UNCHANGED <<pow, handed, sent, split, delivered>>

\* What becomes of a packet: readPacket for the first, conn.loop for the
\* others, which decrypts; node.recv finds the handler by the protocol's ID.
Received(packet) ==
  LET p == verifyTCPPacket(packet)
      plain == decrypt(p.payload)
      first == delivered = <<>>
      kind == IF first THEN sent[1].kind
              ELSE handleRecvPacket[Unmarshal(HeadIn, plain.text).msg.Type]
      r == IF first THEN Unmarshal(In[kind], p.payload) ELSE Decode(kind, plain.text)
  IN  [ok |-> /\ p.ok
              /\ IF first THEN p.protocolID = handshakeProtocolID
                 ELSE p.protocolID = Protocol /\ plain.ok
              /\ r.ok,
       msg |-> [kind |-> kind, body |-> r.msg]]

Refused == [kind |-> "refused"]

\* A packet that is refused is not delivered. It ends a handshake; conn.loop
\* has the connection stopped and goes on until that is done.
Take ==
  LET r == Received(Head(recvQ))
  IN  /\ recvQ # <<>>
      /\ delivered # <<>> => Head(delivered) # Refused
      /\ recvQ' = Tail(recvQ)
      /\ delivered' = Append(delivered, IF r.ok THEN r.msg ELSE Refused)
      /\ UNCHANGED <<pow, handed, sent, stream, split, early, buffer, dropped>>

-----------------------------------------------------------------------------
Init ==
  /\ \E e \in NewEvidence, h \in NewHeader :
       pow = [evidence |-> [msg |-> e, cache |-> None],
              header |-> [msg |-> h, cache |-> None]]
  /\ handed = None
  /\ sent = <<>> /\ stream = <<>> /\ buffer = <<>> /\ recvQ = <<>>
  /\ split = FALSE /\ early = FALSE /\ dropped = 0 /\ delivered = <<>>

Next ==
  \/ \E x \in {"evidence", "header"} : NextNonce(x)
  \/ \E m \in Whole(pow["evidence"].msg, pow["header"].msg) : Hand(m)
  \/ \E m \in IF sent = <<>> THEN Handshakes
              ELSE Streamed(pow["evidence"].msg, pow["header"].msg) : Send(m)
  \/ SetSplitFunc
  \/ \E n \in 1 .. ReadSize : Read(n)
  \/ Take

Spec == Init /\ [][Next]_vars

-----------------------------------------------------------------------------
(* Properties *)

\* The bytes that are hashed for a nonce are the ones of the message with that
\* nonce: writing it in place misses no carry and no field (NextNonce of
\* block_header.go and evidence.go, powCache.update).
HashesTheMessage ==
  \A x \in {"evidence", "header"} :
    pow[x].cache # None => pow[x].cache = Marshal(layoutOf[x], pow[x].msg)

\* Every message is read back as it was written, to its last byte, by the
\* function that its type selects; a message that is cut off is refused, at
\* whichever byte (the Marshal and Unmarshal functions of serialize).
RoundTrip ==
  handed # None =>
    /\ Decode(handed.kind, handed.data) =
         [ok |-> TRUE, msg |-> handed.body, left |-> <<>>]
    /\ \A n \in 0 .. Len(handed.data) - 1 :
         ~Decode(handed.kind, SubSeq(handed.data, 1, n)).ok

\* What is delivered was sent, in the same order and unchanged, however the
\* stream was cut into pieces; a message is missing only if it found the
\* queue full (tcp.go recv, conn.go loop).
InOrder ==
  /\ \E at \in [DOMAIN delivered -> DOMAIN sent] :
       /\ \A i \in DOMAIN delivered : delivered[i] = sent[at[i]]
       /\ \A i, j \in DOMAIN delivered : i < j => at[i] < at[j]
  /\ Len(delivered) + Len(recvQ) + dropped <= Len(sent)
  /\ stream = <<>> /\ buffer = <<>> =>
       Len(delivered) + Len(recvQ) + dropped = Len(sent)

\* A packet is never held back until the next one comes, unless its last byte
\* was read before the split function was set (tcp.go recv, tcp_utils.go
\* splitTCPStream).
NothingHeldBack == stream = <<>> /\ ~early => buffer = <<>>
=============================================================================
