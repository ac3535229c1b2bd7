------------------------------ MODULE Framing ------------------------------
(***************************************************************************)
(* The stream wrappers of the dialling library: what a node's connection   *)
(* does with the bytes of TCP, whatever way TCP cuts them.  One connection *)
(* of one kind; "down" is what the server sends and Read returns, "up" is  *)
(* what Write is given and the server decodes.                             *)
(*                                                                         *)
(* A wire is a sequence of tokens: payload bytes, numbered from 1, and the *)
(* fields of the headers.  A header of many bytes is one token, two where  *)
(* a wrapper can meet half of it.  io.ReadFull is a guard: the tokens are  *)
(* there; a plain Conn.Read returns any number of them from one on.        *)
(***************************************************************************)
EXTENDS Integers, Sequences, SequencesExt

CONSTANTS
    Kinds,      \* the wrappers of the instance
    Caps,       \* the lengths of the buffers Read is called with
    MaxBytes,   \* bound: payload bytes sent on a connection
    MaxFrame,   \* bound: payload bytes of one frame of the server, or of one Write
    MaxSize,    \* the largest frame a chunk reader accepts
    ChunkSize,  \* the largest payload a chunking writer puts in a frame
    Wrap        \* 2^16: what a two-byte length field counts to

AllKinds == {"http", "http_simple", "vmess_http", "snell", "tls", "chunk", "aead",
             "mux", "gun", "ws", "sha1", "aes128", "chain", "chain_b"}

ASSUME FramingAssumption ==
    /\ Kinds \subseteq AllKinds
    /\ Caps \subseteq Nat \ {0}
    /\ {MaxBytes, MaxFrame, MaxSize} \subseteq Nat
    /\ {ChunkSize, Wrap} \subseteq Nat \ {0}

VARIABLES
    kind, dir,      \* the wrapper, and the direction looked at
    wire,           \* tokens in flight
    sent, frames,   \* payload bytes and frames sent
    ended,          \* how the sender ended: "no", "fin" or "cut"
    first,          \* Read or Write has not met its first header yet
    remain,         \* bytes of the frame that the next Read takes
    carry,          \* bytes decoded that found no room in the caller's buffer
    under,          \* tokens received that are not decoded yet (SSR)
    opts,           \* status[1] of a Mux: kept from frame to frame
    count,          \* frames decoded, or encoded: the nonce, packID and recvID
    got,            \* what the callers of Read got
    over,           \* Read returned an error or EOF
    astray          \* a header that a plain Read takes came in pieces, or a length does not fit

peer == <<kind, dir, sent, frames, ended>>
state == <<first, remain, carry, under, opts, count>>
vars == <<peer, state, wire, got, over, astray>>

Init ==
    /\ kind \in Kinds /\ dir \in {"down", "up"}
    /\ wire = <<>> /\ sent = 0 /\ frames = 0 /\ ended = "no"
    /\ first = TRUE /\ remain = 0 /\ carry = <<>> /\ under = <<>>
    /\ opts = 0 /\ count = 0
    /\ got = <<>> /\ over = FALSE /\ astray = FALSE

Lower(a, b) == IF a < b THEN a ELSE b
Tok(t, v) == [t |-> t, v |-> v]
Field(v) == <<Tok("head", v)>>
Size(n) == <<Tok("size", n)>>
Size16(n) == <<Tok("size", n % Wrap)>>
Payload(from, n) == [i \in 1..n |-> Tok("byte", from + i)]

-----------------------------------------------------------------------------
(* Frames, as either side builds them                                      *)

Ssr == {"sha1", "aes128", "chain", "chain_b"}

(* Padding.  In the chain protocols both sides draw its length from the    *)
(* same generator, seeded by the last frame; the others send the length.   *)
RandLength(id) == id % 2

PackedFrame(id, from, n) ==
    Field(id) \o Size(n + RandLength(id) + 1) \o Field(RandLength(id))
      \o [i \in 1..RandLength(id) |-> Tok("pad", 0)]
      \o Payload(from, n)

(* The first frame of a chain begins with two bytes more, here one.        *)
ChainFrame(id, from, n) ==
    LET extra == IF id = 0 THEN Field(0) ELSE <<>> IN
    Field(id) \o Size(n + Len(extra) + RandLength(id)) \o extra
      \o [i \in 1..RandLength(id) |-> Tok("pad", 0)] \o Payload(from, n)

MuxHeader(status, option) ==
    Field(0) \o <<Tok("status", status), Tok("option", option)>>

(* What stands before the first frame of a server.                         *)
Prelude(k) ==
    CASE k \in {"http", "http_simple", "vmess_http"} -> Field(0) \o <<Tok("end", 0)>>
      [] k \in {"snell", "tls", "chunk", "aead"} -> Field(0)
      [] OTHER -> <<>>

ServerFrame(k, id, from, n) ==
    CASE k \in {"http", "http_simple", "vmess_http", "snell"} -> Payload(from, n)
      [] k \in {"tls", "gun", "aead"} -> Field(id) \o Size(n) \o Payload(from, n)
      [] k \in {"chunk", "ws"} -> Size(n) \o Payload(from, n)
      [] k = "mux" -> MuxHeader(2, 1) \o Size16(n) \o Payload(from, n)
      [] k \in {"sha1", "aes128"} -> PackedFrame(id, from, n)
      [] OTHER -> ChainFrame(id, from, n)

ServerSends(n) ==
    /\ dir = "down" /\ ended = "no" /\ sent + n <= MaxBytes /\ frames < MaxBytes
    /\ kind = "mux" => n < Wrap
    /\ wire' = wire \o (IF frames = 0 THEN Prelude(kind) ELSE <<>>)
                    \o ServerFrame(kind, frames, sent, n)
    /\ sent' = sent + n
    /\ frames' = frames + 1
    /\ UNCHANGED <<kind, dir, ended, state, got, over, astray>>

(* A mux server keeps the session alive, or sends a frame without data.    *)
ServerKeepsAlive(status) ==
    /\ kind = "mux" /\ dir = "down" /\ ended = "no" /\ frames < MaxBytes
    /\ wire' = wire \o MuxHeader(status, 0)
    /\ frames' = frames + 1
    /\ UNCHANGED <<kind, dir, sent, ended, state, got, over, astray>>

ServerEnds ==
    /\ dir = "down" /\ ended = "no" /\ frames > 0
    /\ ended' = "fin"
    /\ UNCHANGED <<kind, dir, sent, frames, state, wire, got, over, astray>>

(* The connection breaks: what is in flight may be lost from some token on.*)
ServerCut ==
    /\ dir = "down" /\ ended = "no"
    /\ ended' = "cut"
    /\ \E n \in 0..Len(wire) : wire' = SubSeq(wire, 1, n)
    /\ UNCHANGED <<kind, dir, sent, frames, state, got, over, astray>>

-----------------------------------------------------------------------------
(* What a Read does with the wire                                          *)

Read == dir = "down" /\ ~over
Kept == UNCHANGED <<peer, under, opts, count, over, astray>>

(* skip tokens of a header are dropped and the next n are delivered.       *)
Deliver(skip, n) ==
    /\ skip + n <= Len(wire)
    /\ got' = got \o SubSeq(wire, skip + 1, skip + n)
    /\ wire' = SubSeq(wire, skip + n + 1, Len(wire))

(* All of a buffer, of which the caller's takes cap bytes.                 *)
DeliverBuffered(buf, cap) ==
    /\ got' = got \o SubSeq(buf, 1, Lower(cap, Len(buf)))
    /\ carry' = SubSeq(buf, cap + 1, Len(buf))

Fail ==
    /\ over' = TRUE /\ astray' = TRUE
    /\ UNCHANGED <<peer, state, wire, got>>

(* Conn.Read(b) with nothing between.                                      *)
ReadRaw(cap) ==
    \E n \in 1..Lower(cap, Len(wire)) : Deliver(0, n)

ReadCarryWhole(cap) ==                \* bug: what is buffered is given out only whole
    /\ carry # <<>> /\ Len(carry) <= cap
    /\ DeliverBuffered(carry, cap)
    /\ UNCHANGED <<first, remain, wire>> /\ Kept
ReadCarry(cap) ==
    /\ carry # <<>>
    /\ DeliverBuffered(carry, cap)
    /\ UNCHANGED <<first, remain, wire>> /\ Kept

(* The first segment must hold the whole header of the answer.             *)
ReadFirstSegment(cap) ==
    \E n \in 1..Len(wire) :
        IF \E i \in 1..n : wire[i].t = "end"
        THEN /\ first' = FALSE
             /\ DeliverBuffered(SubSeq(wire, Len(Prelude(kind)) + 1, n), cap)
             /\ wire' = SubSeq(wire, n + 1, Len(wire))
             /\ UNCHANGED <<peer, remain, under, opts, count, over, astray>>
        ELSE Fail

HTTPObfsRead(cap) ==
    /\ Read /\ kind = "http"
    /\ \/ ReadCarry(cap)
       \/ carry = <<>> /\ first /\ ReadFirstSegment(cap)
       \/ carry = <<>> /\ ~first /\ ReadRaw(cap) /\ UNCHANGED <<first, remain, carry>> /\ Kept

HTTPSimpleRead(cap) ==
    /\ Read /\ kind = "http_simple"
    /\ \/ ReadCarry(cap)
       \/ carry = <<>> /\ ~first /\ ReadRaw(cap) /\ UNCHANGED <<first, remain, carry>> /\ Kept
       \/ carry = <<>> /\ first /\ ReadFirstSegment(cap)

(* A reader of lines keeps what it has read too much for the next Reads.   *)
VmessHTTPRead(cap) ==
    /\ Read /\ kind = "vmess_http"
    /\ LET skip == IF first THEN Len(Prelude(kind)) ELSE 0 IN
       \E n \in 1..Lower(cap, Len(wire) - skip) : Deliver(skip, n)
    /\ first' = FALSE
    /\ UNCHANGED <<remain, carry>> /\ Kept

(* One byte of reply, then the stream.                                     *)
SnellRead(cap) ==
    /\ Read /\ kind = "snell"
    /\ LET skip == IF first THEN 1 ELSE 0 IN
       \E n \in 1..Lower(cap, Len(wire) - skip) : Deliver(skip, n)
    /\ first' = FALSE
    /\ UNCHANGED <<remain, carry>> /\ Kept

(* io.ReadFull of what is left of the frame, as far as it fits.            *)
ReadRestBuffer(cap) ==                \* bug: counts len(b), not what was read
    /\ remain > 0
    /\ Deliver(0, Lower(remain, cap))
    /\ remain' = remain - cap
    /\ UNCHANGED <<first, carry>> /\ Kept
ReadRest(cap) ==
    /\ remain > 0
    /\ Deliver(0, Lower(remain, cap))
    /\ remain' = remain - Lower(remain, cap)
    /\ UNCHANGED <<first, carry>> /\ Kept

(* A frame longer than b is begun with a plain Read.                       *)
TLSReadFrame(cap, skip) ==
    LET size == wire[skip].v IN
    IF size > cap
      THEN \E n \in 1..Lower(cap, Len(wire) - skip) : Deliver(skip, n) /\ remain' = size - n
      ELSE Deliver(skip, size) /\ remain' = 0

TLSObfsRead(cap) ==
    /\ Read /\ kind = "tls"
    /\ \/ ReadRest(cap)
       \/ LET skip == IF first THEN 3 ELSE 2 IN
          /\ remain = 0 /\ Len(wire) >= skip
          /\ TLSReadFrame(cap, skip)
          /\ first' = FALSE
          /\ UNCHANGED carry /\ Kept

GunRead(cap) ==
    /\ Read /\ kind = "gun"
    /\ \/ ReadRest(cap)
       \/ /\ remain = 0 /\ Len(wire) >= 2
          /\ Deliver(2, Lower(wire[2].v, cap))
          /\ remain' = wire[2].v - Lower(wire[2].v, cap)
          /\ UNCHANGED <<first, carry>> /\ Kept

(* The library's reader of one message; its end makes Read take the next.  *)
WebsocketRead(cap) ==
    /\ Read /\ kind = "ws"
    /\ \/ /\ remain > 0
          /\ \E n \in 1..Lower(Lower(cap, remain), Len(wire)) : Deliver(0, n) /\ remain' = remain - n
       \/ /\ remain = 0 /\ Len(wire) >= 1
          /\ Deliver(1, 0)
          /\ remain' = wire[1].v
    /\ UNCHANGED <<first, carry>> /\ Kept

(* The header of the answer, then whole chunks; what does not fit is kept. *)
VmessSkip == IF first THEN 1 ELSE 0

ChunkRead(cap) ==
    /\ Read /\ kind = "chunk"
    /\ \/ ReadCarry(cap)
       \/ LET skip == VmessSkip + 1 size == wire[skip].v IN
          /\ carry = <<>> /\ Len(wire) >= skip
          /\ IF size > MaxSize THEN Fail ELSE
             /\ Len(wire) >= skip + size
             /\ DeliverBuffered(SubSeq(wire, skip + 1, skip + size), cap)
             /\ wire' = SubSeq(wire, skip + size + 1, Len(wire))
             /\ first' = FALSE
             /\ UNCHANGED remain /\ Kept

(* The same, and each chunk opens only with the nonce of its number.       *)
AEADRead(cap) ==
    /\ Read /\ kind = "aead"
    /\ \/ ReadCarry(cap)
       \/ LET skip == VmessSkip + 2 size == wire[skip].v IN
          /\ carry = <<>> /\ Len(wire) >= skip
          /\ IF size > MaxSize \/ wire[skip - 1].v # count THEN Fail ELSE
             /\ Len(wire) >= skip + size
             /\ DeliverBuffered(SubSeq(wire, skip + 1, skip + size), cap)
             /\ wire' = SubSeq(wire, skip + size + 1, Len(wire))
             /\ first' = FALSE /\ count' = count + 1
             /\ UNCHANGED <<remain, peer, under, opts, over, astray>>

(* One turn of the loop.  The two bytes of status are taken with a plain   *)
(* Read: after half of them nothing stands where it is looked for.         *)
MuxRead(cap) ==
    /\ Read /\ kind = "mux"
    /\ \/ /\ remain > 0
          /\ \E n \in 1..Lower(Lower(cap, remain), Len(wire)) : Deliver(0, n) /\ remain' = remain - n
          /\ UNCHANGED <<first, carry>> /\ Kept
       \/ remain = 0 /\ Len(wire) >= 2 /\ Fail
       \/ /\ remain = 0 /\ Len(wire) >= 3
          /\ wire[2].v = 4 \/ wire[3].v # 1
          /\ Deliver(3, 0) /\ opts' = wire[3].v
          /\ UNCHANGED <<peer, first, remain, carry, under, count, over, astray>>
       \/ /\ remain = 0 /\ Len(wire) >= 4
          /\ wire[2].v # 4 /\ wire[3].v = 1
          /\ \E n \in 0..Lower(cap, wire[4].v) :
               /\ n = 0 => wire[4].v = 0
               /\ Deliver(4, n) /\ remain' = wire[4].v - n
          /\ opts' = 1
          /\ UNCHANGED <<peer, first, carry, under, count, over, astray>>

-----------------------------------------------------------------------------
(* ShadowsocksR: what is received is added to under, whole frames decoded  *)

(* The loop over src: Data(i, id) is the payload of the frame behind       *)
(* position i, of number id; a length below `least` is an error.           *)
DecodeLoop(src, ids, least, Data(_, _)) ==
    LET from[p \in (0..Len(src)) \X Nat] ==
          LET i == p[1]
              id == p[2]
              end == i + 2 + src[i + 2].v
              rest == from[<<end, id + 1>>] IN
          IF i + 2 > Len(src) \/ end > Len(src)
            THEN [dst |-> <<>>, left |-> SubSeq(src, i + 1, Len(src)), id |-> id, ok |-> TRUE]
          ELSE IF src[i + 2].v < least \/ (ids /\ src[i + 1].v # id)
            THEN [dst |-> <<>>, left |-> <<>>, id |-> id, ok |-> FALSE]
          ELSE [dst |-> SubSeq(src, Data(i, id), end) \o rest.dst,
                left |-> rest.left, id |-> rest.id, ok |-> rest.ok]
    IN from[<<0, count>>]

SHA1Decode(src) ==
    DecodeLoop(src, FALSE, 1, LAMBDA i, id : i + 4 + src[i + 3].v)
AES128Decode(src) ==
    DecodeLoop(src, TRUE, 1, LAMBDA i, id : i + 4 + src[i + 3].v)
ChainDecodeKeepsHead(src) ==          \* bug: recvID starts at 0
    DecodeLoop(src, TRUE, 0, LAMBDA i, id : i + 3 + RandLength(id))
ChainDecode(src) ==
    DecodeLoop(src, TRUE, 0, LAMBDA i, id :
        i + 3 + RandLength(id) + IF id = 0 THEN 1 ELSE 0)

Decode(src) ==
    CASE kind = "sha1" -> SHA1Decode(src)
      [] kind = "aes128" -> AES128Decode(src)
      [] OTHER -> ChainDecode(src)

(* A Read that completes no frame returns 0 bytes and no error.            *)
SSRRead(cap) ==
    /\ Read /\ kind \in Ssr
    /\ \/ ReadCarry(cap)
       \/ /\ carry = <<>>
          /\ \E n \in 1..Len(wire) :
               LET d == Decode(under \o SubSeq(wire, 1, n)) IN
               IF ~d.ok THEN Fail ELSE
               /\ DeliverBuffered(d.dst, cap)
               /\ under' = d.left /\ count' = d.id
               /\ wire' = SubSeq(wire, n + 1, Len(wire))
               /\ UNCHANGED <<peer, first, remain, opts, over, astray>>

-----------------------------------------------------------------------------
(* EOF, or an error after a cut, which may come before the last bytes.     *)

EndsOverBuffer ==                     \* bug: asks the connection before the buffer
    /\ Read
    /\ ended = "fin" /\ wire = <<>>
    /\ over' = TRUE
    /\ UNCHANGED <<peer, state, wire, got, astray>>
ReadEnds ==
    /\ Read
    /\ \/ ended = "cut"
       \/ /\ ended = "fin" /\ carry = <<>>
          /\ wire = <<>> \/ (first /\ wire = Prelude(kind))
    /\ over' = TRUE
    /\ UNCHANGED <<peer, state, wire, got, astray>>

-----------------------------------------------------------------------------
(* Writes                                                                  *)

(* What Write puts before its first frame; newConn of vmess and the header *)
(* of snell are written when the connection is made.                       *)
Opening(k) == IF k = "mux" THEN Field(1) ELSE Prelude(k)

Write(n) == dir = "up" /\ sent + n <= MaxBytes /\ frames < MaxBytes

(* n payload bytes, as tokens, in k frames.                                *)
Put(tokens, n, k) ==
    /\ wire' = wire \o tokens
    /\ sent' = sent + n
    /\ frames' = frames + k
    /\ UNCHANGED <<kind, dir, ended, remain, carry, under, opts, got, over>>

OpeningNow == IF first THEN Opening(kind) ELSE <<>>

(* The loop over b: frames of ChunkSize and a last one with the rest.      *)
Chunks(n) == (n + ChunkSize - 1) \div ChunkSize
ChunksRounded(id, from, n) ==         \* bug: the rest gets no frame of its own
    FlattenSeq([i \in 1..(n \div ChunkSize) |->
        ServerFrame(kind, id + i - 1, from + (i - 1) * ChunkSize, ChunkSize)])
ChunkFrames(id, from, n) ==
    FlattenSeq([i \in 1..Chunks(n) |->
        ServerFrame(kind, id + i - 1, from + (i - 1) * ChunkSize,
                    Lower(ChunkSize, n - (i - 1) * ChunkSize))])

HTTPWrite(n) ==
    /\ Write(n) /\ kind \in {"http", "vmess_http", "snell"}
    /\ Put(OpeningNow \o Payload(sent, n), n, 1)
    /\ first' = FALSE /\ UNCHANGED <<count, astray>>

(* Some of b goes into the URL of the request, all of it when b is short.  *)
HTTPSimpleWrite(n) ==
    /\ Write(n) /\ kind = "http_simple"
    /\ \E d \in 0..n :
         /\ d = 0 => ~first \/ n = 0
         /\ Put(IF first THEN Field(0) \o Payload(sent, d) \o <<Tok("end", 0)>>
                                \o Payload(sent + d, n - d)
                         ELSE Payload(sent, n), n, 1)
    /\ first' = FALSE /\ UNCHANGED <<count, astray>>

(* The first chunk travels in the ClientHello; nothing for an empty Write. *)
TLSObfsWrite(n) ==
    /\ Write(n) /\ kind = "tls" /\ n > 0
    /\ Put(OpeningNow \o ChunkFrames(count, sent, n), n, 1)
    /\ first' = FALSE /\ count' = count + Chunks(n) /\ UNCHANGED astray

ChunkWrite(n) ==
    /\ Write(n) /\ kind = "chunk"
    /\ Put(OpeningNow \o ChunkFrames(count, sent, n), n, 1)
    /\ first' = FALSE /\ UNCHANGED <<count, astray>>

AEADWrite(n) ==
    /\ Write(n) /\ kind = "aead"
    /\ Put(OpeningNow \o ChunkFrames(count, sent, n), n, 1)
    /\ first' = FALSE /\ count' = count + Chunks(n) /\ UNCHANGED astray

GunWrite(n) ==
    /\ Write(n) /\ kind \in {"gun", "ws"}
    /\ Put(ServerFrame(kind, count, sent, n), n, 1)
    /\ count' = count + 1 /\ UNCHANGED <<first, astray>>

(* One frame whatever the length of b, which its two bytes may not hold.   *)
MuxWrite(n) ==
    /\ Write(n) /\ kind = "mux"
    /\ Put(OpeningNow \o ServerFrame("mux", 0, sent, n), n, 1)
    /\ astray' = (astray \/ n >= Wrap)
    /\ first' = FALSE /\ UNCHANGED count

(* The first frame authenticates and takes part of the first Write, which  *)
(* is the target's address and never empty.                                *)
SSREncode(n) ==
    /\ Write(n) /\ kind \in Ssr /\ n > 0
    /\ \E d \in 1..n :
         LET a == IF first THEN 1 ELSE 0 IN
         /\ d < n => first
         /\ IF first
              THEN Put(ServerFrame(kind, 0, sent, d) \o ChunkFrames(1, sent + d, n - d), n, 1)
              ELSE Put(ChunkFrames(count, sent, n), n, 1)
         /\ count' = count + a + Chunks(IF first THEN n - d ELSE n)
    /\ first' = FALSE /\ UNCHANGED astray

-----------------------------------------------------------------------------
ReadStep ==
    \/ ReadEnds
    \/ \E cap \in Caps :
         \/ HTTPObfsRead(cap) \/ HTTPSimpleRead(cap) \/ VmessHTTPRead(cap) \/ SnellRead(cap)
         \/ TLSObfsRead(cap) \/ GunRead(cap) \/ WebsocketRead(cap)
         \/ ChunkRead(cap) \/ AEADRead(cap) \/ MuxRead(cap) \/ SSRRead(cap)

Server ==
    \/ \E n \in 0..MaxFrame : ServerSends(n)
    \/ \E status \in {2, 4} : ServerKeepsAlive(status)
    \/ ServerEnds \/ ServerCut

WriteStep ==
    \E n \in 0..MaxFrame :
        \/ HTTPWrite(n) \/ HTTPSimpleWrite(n) \/ TLSObfsWrite(n) \/ ChunkWrite(n)
        \/ AEADWrite(n) \/ GunWrite(n) \/ MuxWrite(n) \/ SSREncode(n)

Next == Server \/ ReadStep \/ WriteStep

Spec == Init /\ [][Next]_vars

(* The relay goroutine goes on reading.                                    *)
FairSpec == Spec /\ WF_vars(ReadStep)

-----------------------------------------------------------------------------
Token == [t : {"head", "size", "byte", "pad", "status", "option", "end"}, v : Nat]

TypeOK ==
    /\ kind \in AllKinds /\ dir \in {"down", "up"} /\ ended \in {"no", "fin", "cut"}
    /\ {sent, frames, remain, opts, count} \subseteq Nat
    /\ {first, over, astray} \subseteq BOOLEAN
    /\ \A s \in {wire, carry, under, got} : s \in Seq(Token)

(* However TCP cuts the stream and whatever buffers Read is given, the     *)
(* callers get the payload from the first byte on, in order, each once:    *)
(* no byte of a header or of padding, none twice, none left out.           *)
InOrder == got = Payload(0, Len(got))

(* A reader that met an orderly end has delivered everything, except when  *)
(* the wrapper gave up: an HTTP header in two segments, half a status of a *)
(* Mux, a chunk that is too large.                                         *)
Complete ==
    (over /\ ended = "fin" /\ ~astray) => Len(got) = sent

(* No frame makes a reader wait for more than was sent: after an orderly   *)
(* end Read comes to its end.                                              *)
ReadToTheEnd == ended = "fin" => over

(* How a server that knows the formats reads what Write put on the wire:   *)
(* the opening, then headers and as many tokens as each announces.         *)
HeaderLength == CASE kind \in {"chunk", "ws"} -> 1 [] kind = "mux" -> 4 [] OTHER -> 2
RawKinds == {"http", "http_simple", "vmess_http", "snell"}

(* The bytes among the tokens.                                             *)
Bytes(s) ==
    LET upTo[i \in 0..Len(s)] ==
          IF i = 0 THEN <<>>
          ELSE IF s[i].t = "byte" THEN Append(upTo[i - 1], s[i]) ELSE upTo[i - 1]
    IN upTo[Len(s)]

Understood ==
    LET from[i \in 0..Len(wire)] ==
          LET end == i + HeaderLength + wire[i + HeaderLength].v IN
          IF i = Len(wire) THEN <<>>
          ELSE IF i + HeaderLength > Len(wire) \/ wire[i + HeaderLength].t # "size" \/ end > Len(wire)
            THEN Field(0)
          ELSE Bytes(SubSeq(wire, i + HeaderLength + 1, end)) \o from[end]
    IN IF kind \in RawKinds THEN Bytes(wire)
       ELSE IF wire = <<>> THEN <<>> ELSE from[Len(Opening(kind))]

(* Such a server reads what was written, all of it and in order, except    *)
(* after a Write to a Mux that is longer than its two bytes can say.       *)
WritesUnderstood ==
    (dir = "up" /\ ~astray) => Understood = Payload(0, sent)
=============================================================================
