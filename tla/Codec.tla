------------------------------- MODULE Codec -------------------------------
(***************************************************************************)
(* What happens to messages between the session of one engine and the      *)
(* session of another: the encoder turns them into bytes, the transport    *)
(* delivers the bytes in pieces of any size, and the decoder finds the     *)
(* messages again (encoder.hpp, decoder.hpp and their v1, v2 and raw       *)
(* versions).  The v2 and raw decoders do not copy a message that lies in  *)
(* the receive buffer as a whole: the message points into the buffer,      *)
(* which counts the messages that do and is replaced, not reused, as long  *)
(* as there are any (decoder_allocators.cpp).  A message itself may be     *)
(* shared by copies that count each other (msg.cpp).                       *)
(*                                                                         *)
(* A byte of a header is its value; a byte of a body tells which message   *)
(* it belongs to and where, so that a byte in the wrong place shows.       *)
(***************************************************************************)
EXTENDS Integers, Sequences, FiniteSets

LOCAL INSTANCE SequencesExt

CONSTANTS
  Streams,   \* the connections: records of version, limit (maxmsgsize) and msgs
  Base,      \* values of a byte, 256
  Wide,      \* bytes of a long size, 8
  Batch,     \* out_batch_size
  BufSize,   \* in_batch_size
  VsmMax,    \* max_vsm_size: longer messages have their content elsewhere
  Room,      \* messages that the session and the application hold
  Copies     \* how many of them may be copies

VARIABLES
  stream,    \* the connection, with the messages the sender's session has
  enc,       \* encoder_base_t, and the number of messages it was given
  out,       \* outpos, outsize
  wire,      \* bytes in the transport
  dec,       \* decoder_base_t with its allocator, and the engine's input
  bufs,      \* receive buffers: what counts their users, and the bytes
  content,   \* content_t of the long messages
  held       \* messages that have left the decoder and are not closed

codecvars == <<stream, enc, out, wire, dec, bufs, content, held>>

V1 == 1
V2 == 2
Raw == 0

Least(a, b) == IF a < b THEN a ELSE b
From(s, n) == SubSeq(s, n + 1, Len(s))
First(s, n) == SubSeq(s, 1, n)

Size(k) == stream.msgs[k].size
More(k) == stream.msgs[k].more
BodyOf(k) == [i \in 1..Size(k) |-> 1000 * k + i]

(* put_uint64 and get_uint64: most significant byte first.                 *)
Uint(n) == [i \in 1..Wide |-> (n \div Base ^ (Wide - i)) % Base]
Value(bytes) == FoldLeft(LAMBDA n, b : n * Base + b, 0, bytes)

-----------------------------------------------------------------------------
(* The encoder.                                                            *)

Flag(b, value) == IF b THEN value ELSE 0

V1Header(k) ==
  LET size == Size(k) + 1
  IN (IF size < Base - 1 THEN <<size>> ELSE <<Base - 1>> \o Uint(size))
       \o <<Flag(More(k), 1)>>

V2Header(k) ==
  IF Size(k) > Base - 1 THEN <<Flag(More(k), 1) + 2>> \o Uint(Size(k))
  ELSE <<Flag(More(k), 1), Size(k)>>

(* next_step(): what is to be written, whether the body follows, and       *)
(* whether the message is done with then (new_msg_flag).                   *)
BodyStep(e) == [e EXCEPT !.left = BodyOf(e.msg), !.body = FALSE, !.new = TRUE]
HeaderStep(e) ==
  IF stream.version = Raw THEN BodyStep(e)
  ELSE [e EXCEPT !.left = IF stream.version = V1 THEN V1Header(e.msg) ELSE V2Header(e.msg),
                 !.body = TRUE, !.new = FALSE]
NextStep(e) == IF e.body THEN BodyStep(e) ELSE HeaderStep(e)

LoadMsg(e) == HeaderStep([e EXCEPT !.msg = e.sent + 1, !.sent = @ + 1])

(* encode(): fills a buffer of the given room; with its own buffer it      *)
(* points to the message instead if that fills the buffer at once.         *)
RECURSIVE Encode(_, _, _, _)
Encode(e, bytes, room, own) ==
  IF Len(bytes) >= room THEN [enc |-> e, bytes |-> bytes]
  ELSE IF e.left = <<>> /\ e.new THEN [enc |-> [e EXCEPT !.msg = 0], bytes |-> bytes]
  ELSE LET s == IF e.left = <<>> THEN NextStep(e) ELSE e
           n == IF own /\ bytes = <<>> /\ Len(s.left) >= room THEN Len(s.left)
                ELSE Least(Len(s.left), room - Len(bytes))
           t == [s EXCEPT !.left = From(s.left, n)]
       IN IF n > room THEN [enc |-> t, bytes |-> s.left]
          ELSE Encode(t, bytes \o First(s.left, n), room, own)

(* stream_engine_t::out_event() collects messages until a batch is full.   *)
RECURSIVE FillBatch(_, _, _)
FillBatch(e, bytes, own) ==
  IF Len(bytes) >= Batch \/ e.sent = Len(stream.msgs)
    THEN [enc |-> e, bytes |-> bytes]
    ELSE LET r == Encode(LoadMsg(e), <<>>, Batch - Len(bytes), own)
         IN FillBatch(r.enc, bytes \o r.bytes, FALSE)

Batched ==
  IF enc.msg = 0 THEN FillBatch(enc, <<>>, TRUE)
  ELSE LET r == Encode(enc, <<>>, Batch, TRUE) IN FillBatch(r.enc, r.bytes, FALSE)

OutEvent ==
  /\ out = <<>>
  /\ Batched.bytes # <<>>
  /\ enc' = Batched.enc
  /\ out' = Batched.bytes
  /\ UNCHANGED <<stream, wire, dec, bufs, content, held>>

(* tcp_write().  Whether it takes the batch at once makes no difference to *)
(* the reads, which cut the stream anywhere.                               *)
TcpWrite ==
  /\ out # <<>>
  /\ wire' = wire \o out /\ out' = <<>>
  /\ UNCHANGED <<stream, enc, dec, bufs, content, held>>

-----------------------------------------------------------------------------
(* Receive buffers and messages.  x stands for the decoder d, the buffers  *)
(* b and the contents c on the way through a call.                         *)

Buffers == 1..Room + 2
NoBuffer == [refs |-> 0, cells |-> <<>>]
Unused(b) == CHOOSE i \in Buffers : b[i].refs = 0

DecRef(b, i) ==
  IF b[i].refs = 1 THEN [b EXCEPT ![i] = NoBuffer] ELSE [b EXCEPT ![i].refs = @ - 1]

(* A buffer is used again if only the decoder holds it.  The allocator of  *)
(* v1 has one buffer and leaves the size that resize_buffer() gave it.     *)
AllocateAnew(x) ==
  LET b == IF x.d.buf = 0 THEN x.b ELSE DecRef(x.b, x.d.buf)
      i == Unused(b)
  IN [x EXCEPT !.b = [b EXCEPT ![i] = [NoBuffer EXCEPT !.refs = 1]],
               !.d.buf = i, !.d.size = BufSize, !.d.slot = 0]
AllocateSame(x) == [x EXCEPT !.d.size = BufSize, !.d.slot = 0]
AllocateAlwaysSame(x) ==
  IF stream.version = V1 \/ x.d.buf # 0 THEN AllocateSame(x) ELSE AllocateAnew(x)
Allocate(x) ==
  IF stream.version = V1 THEN x
  ELSE IF x.d.buf # 0 /\ x.b[x.d.buf].refs = 1 THEN AllocateSame(x)
  ELSE AllocateAnew(x)

NoMsg == [kind |-> "vsm", bytes |-> <<>>, id |-> <<0, 0>>, shared |-> FALSE, more |-> FALSE]
Content == [refs |-> 1, buf |-> 0, off |-> 0, size |-> 0, bytes |-> <<>>]
With(c, id, new) == [i \in DOMAIN c \cup {id} |-> IF i = id THEN new ELSE c[i]]
Without(c, id) == [i \in DOMAIN c \ {id} |-> c[i]]
FreshId(c) == <<0, CHOOSE n \in 1..Room + 2 : <<0, n>> \notin DOMAIN c>>

(* msg_t::init_size().                                                     *)
InitSize(x, n) ==
  IF n <= VsmMax THEN [x EXCEPT !.d.msg = NoMsg]
  ELSE LET id == FreshId(x.c)
       IN [x EXCEPT !.d.msg = [NoMsg EXCEPT !.kind = "long", !.id = id],
                    !.c = With(x.c, id, [Content EXCEPT !.size = n])]

(* init_external_storage() with provide_content().  The raw decoder gives  *)
(* the buffer away, the v2 decoder shares it.                              *)
InitStorage(x, off, n) ==
  LET id == <<x.d.buf, x.d.slot>>
  IN [x EXCEPT !.d.msg = [NoMsg EXCEPT !.kind = "zc", !.id = id],
               !.c = With(x.c, id, [Content EXCEPT !.buf = x.d.buf, !.off = off, !.size = n])]
Shares(x) == [x EXCEPT !.d.slot = @ + 1, !.b[x.d.buf].refs = @ + 1]
GivesAway(x) == [x EXCEPT !.d.buf = 0]

Bytes(m, b, c) ==
  CASE m.kind = "vsm" -> m.bytes
    [] m.kind = "long" -> c[m.id].bytes
    [] m.kind = "zc" -> SubSeq(b[c[m.id].buf].cells, c[m.id].off + 1, c[m.id].off + c[m.id].size)

(* msg_t::close(): the last of the copies frees the content, and with it   *)
(* its share in a receive buffer.                                          *)
FreeContent(m, b, c) ==
  [b |-> IF m.kind = "zc" THEN DecRef(b, c[m.id].buf) ELSE b, c |-> Without(c, m.id)]
CloseMsg(m, b, c) ==
  IF m.kind = "vsm" THEN [b |-> b, c |-> c]
  ELSE IF ~m.shared \/ c[m.id].refs = 1 THEN FreeContent(m, b, c)
  ELSE [b |-> b, c |-> [c EXCEPT ![m.id].refs = @ - 1]]

-----------------------------------------------------------------------------
(* The decoder's steps, each the next_ that is due when to_read is 0.      *)

Expect(x, next, n) == [x EXCEPT !.d.next = next, !.d.need = n, !.d.tmp = <<>>]
Wrong(x) == [x EXCEPT !.d.result = "error"]
Restart(x) == Expect(x, IF stream.version = V1 THEN "size1" ELSE "flags", 1)

TooLong(n) == stream.limit >= 0 /\ n > stream.limit

V1Size(x, n) ==
  IF n = 0 \/ TooLong(n - 1) THEN Wrong(x)
  ELSE Expect([InitSize(x, n - 1) EXCEPT !.d.size1 = n - 1], "flags", 1)
V1OneByteSizeReady(x) ==
  IF x.d.tmp[1] = Base - 1 THEN Expect(x, "size8", Wide) ELSE V1Size(x, x.d.tmp[1])
V1FlagsReady(x) ==
  Expect([x EXCEPT !.d.msg.more = x.d.tmp[1] % 2 = 1], "body", x.d.size1)

V2FlagsReady(x) ==
  LET f == x.d.tmp[1]
      y == [x EXCEPT !.d.more = f % 2 = 1]
  IN IF (f \div 2) % 2 = 1 THEN Expect(y, "size8", Wide) ELSE Expect(y, "size1", 1)

(* size_ready(): the message stays in the buffer if it ends there.         *)
FitsInput(x, n) == x.d.pos + n <= x.d.size
V2SizeReady(x, n) ==
  LET y == IF ~FitsInput(x, n) \/ n < VsmMax THEN InitSize(x, n)
           ELSE Shares(InitStorage(x, x.d.pos, n))
  IN IF TooLong(n) THEN Wrong(x)
     ELSE Expect([y EXCEPT !.d.msg.more = x.d.more], "body", n)

MessageReady(x) == [Restart(x) EXCEPT !.d.result = "message"]

Ready(x) ==
  CASE x.d.next = "body"  -> MessageReady(x)
    [] x.d.next = "flags" -> IF stream.version = V1 THEN V1FlagsReady(x) ELSE V2FlagsReady(x)
    [] x.d.next = "size1" -> IF stream.version = V1 THEN V1OneByteSizeReady(x)
                             ELSE V2SizeReady(x, x.d.tmp[1])
    [] x.d.next = "size8" -> IF stream.version = V1 THEN V1Size(x, Value(x.d.tmp))
                             ELSE V2SizeReady(x, Value(x.d.tmp))

(* The machine runs as long as nothing is to be read for the next step.    *)
RECURSIVE RunMachine(_)
RunMachine(x) ==
  IF x.d.need > 0 \/ x.d.result # "more" THEN x ELSE RunMachine(Ready(x))

(* Bytes go to the temporary buffer or to the message; a message in the    *)
(* receive buffer has them already.                                        *)
Store(x, bytes) ==
  LET y == [x EXCEPT !.d.need = @ - Len(bytes)]
      m == x.d.msg
  IN IF x.d.next # "body" THEN [y EXCEPT !.d.tmp = @ \o bytes]
     ELSE CASE m.kind = "vsm"  -> [y EXCEPT !.d.msg.bytes = @ \o bytes]
            [] m.kind = "long" -> [y EXCEPT !.c[m.id].bytes = @ \o bytes]
            [] m.kind = "zc"   -> y

(* decode() of v1 and v2 up to the next message, and of raw.               *)
RECURSIVE DecodeFramed(_)
DecodeFramed(x) ==
  IF x.d.left = 0 \/ x.d.result # "more" THEN x
  ELSE LET n == Least(x.d.need, x.d.left)
           y == Store(x, SubSeq(x.b[x.d.buf].cells, x.d.pos + 1, x.d.pos + n))
       IN DecodeFramed(RunMachine([y EXCEPT !.d.pos = @ + n, !.d.left = @ - n]))

DecodeRaw(x) ==
  LET n == x.d.left
      y == IF n < VsmMax THEN Store([InitSize(x, n) EXCEPT !.d.next = "body"],
                                    First(x.b[x.d.buf].cells, n))
           ELSE GivesAway(InitStorage(x, 0, n))
  IN [y EXCEPT !.d.pos = n, !.d.left = 0, !.d.result = "message"]

Decode(x) == IF stream.version = Raw THEN DecodeRaw(x) ELSE DecodeFramed(x)

-----------------------------------------------------------------------------
(* The engine and the application.                                         *)

State == [d |-> dec, b |-> bufs, c |-> content, h |-> held]
Becomes(y) ==
  \E x \in {y} : dec' = x.d /\ bufs' = x.b /\ content' = x.c /\ held' = x.h

(* The session takes the message unless its pipe is full.                  *)
Full == Len(held) = Room
HasRoom(x) == Len(x.h) < Room
Pushed(x) ==
  [x EXCEPT !.h = Append(@, [msg |-> x.d.msg, at |-> x.d.got]), !.d.msg = NoMsg,
            !.d.result = "more",
            !.d.got = @ + IF stream.version = Raw THEN Len(Bytes(x.d.msg, x.b, x.c)) ELSE 1]

(* The destructors of the decoder and its allocator.                       *)
Deleted(x) ==
  LET y == CloseMsg(x.d.msg, x.b, x.c)
  IN [x EXCEPT !.b = IF x.d.buf = 0 THEN y.b ELSE DecRef(y.b, x.d.buf), !.c = y.c,
               !.d.msg = NoMsg, !.d.buf = 0, !.d.left = 0, !.d.stopped = FALSE, !.d.dead = TRUE]

RECURSIVE Consume(_)
Consume(x) ==
  LET y == IF x.d.left = 0 THEN x ELSE Decode(x)
  IN CASE y.d.result = "error"   -> Deleted(y)
       [] y.d.result = "more"    -> y
       [] y.d.result = "message" ->
            IF ~HasRoom(y) THEN [y EXCEPT !.d.stopped = TRUE]
            ELSE IF y.d.left = 0 THEN Pushed(y) ELSE Consume(Pushed(y))

(* get_buffer(), tcp_read() and resize_buffer(): what is read goes to the  *)
(* receive buffer, or to a message that needs more than fits there.        *)
Directly(x) == stream.version # Raw /\ x.d.need >= x.d.size
ReadDirectly(x, n) ==
  RunMachine([Store(x, First(wire, n)) EXCEPT !.d.size = n])
ReadToBuffer(x, n) ==
  [x EXCEPT !.d.size = n, !.d.left = n, !.d.pos = 0,
            !.b[x.d.buf].cells =
               First(wire, n) \o IF x.b[x.d.buf].refs = 1 THEN <<>> ELSE From(@, n)]

InEvent ==
  /\ ~dec.dead /\ ~dec.stopped /\ dec.left = 0
  /\ LET x == Allocate(State)
         room == IF Directly(x) THEN x.d.need ELSE x.d.size
     IN \E n \in 1..Least(room, Len(wire)) :
          /\ Becomes(Consume(IF Directly(x) THEN ReadDirectly(x, n) ELSE ReadToBuffer(x, n)))
          /\ wire' = From(wire, n)
  /\ UNCHANGED <<stream, enc, out>>

(* restart_input() pushes the message that was refused; its speculative    *)
(* read is InEvent.                                                        *)
RestartInput ==
  /\ dec.stopped /\ ~Full
  /\ LET x == Pushed([State EXCEPT !.d.stopped = FALSE])
     IN Becomes(IF x.d.left = 0 THEN x ELSE Consume(x))
  /\ UNCHANGED <<stream, enc, out, wire>>

(* The connection may end at any time.                                     *)
Detach ==
  /\ ~dec.dead
  /\ Becomes(Deleted(State))
  /\ UNCHANGED <<stream, enc, out, wire>>

(* msg_t::copy().                                                          *)
CopyMsg ==
  /\ ~Full
  /\ Cardinality({i \in DOMAIN held : held[i].msg.shared}) < 2 * Copies
  /\ \E i \in DOMAIN held :
       LET m == held[i].msg
           copy == [held[i] EXCEPT !.msg.shared = TRUE]
       IN /\ m.kind # "vsm"
          /\ held' = Append([held EXCEPT ![i] = copy], copy)
          /\ content' = [content EXCEPT ![m.id].refs = IF m.shared THEN @ + 1 ELSE 2]
  /\ UNCHANGED <<stream, enc, out, wire, dec, bufs>>

Close(i) ==
  /\ LET y == CloseMsg(held[i].msg, bufs, content)
     IN bufs' = y.b /\ content' = y.c
  /\ held' = RemoveAt(held, i)
  /\ UNCHANGED <<stream, enc, out, wire, dec>>
Application == CopyMsg \/ \E i \in DOMAIN held : Close(i)

CodecInit ==
  /\ stream \in Streams
  /\ enc = [msg |-> 0, sent |-> 0, left |-> <<>>, body |-> FALSE, new |-> TRUE]
  /\ out = <<>> /\ wire = <<>> /\ held = <<>> /\ content = [id \in {} |-> Content]
  /\ bufs = [i \in Buffers |->
       IF i = 1 /\ stream.version # Raw THEN [NoBuffer EXCEPT !.refs = 1] ELSE NoBuffer]
  /\ dec = [next |-> IF stream.version = V1 THEN "size1" ELSE "flags", need |-> 1, tmp |-> <<>>,
            more |-> FALSE, size1 |-> 0, msg |-> NoMsg, result |-> "more", got |-> 0,
            buf |-> IF stream.version = Raw THEN 0 ELSE 1, size |-> BufSize, slot |-> 0,
            pos |-> 0, left |-> 0, stopped |-> FALSE, dead |-> FALSE]

CodecNext == OutEvent \/ TcpWrite \/ InEvent \/ RestartInput \/ Detach \/ Application
CodecSpec == CodecInit /\ [][CodecNext]_codecvars

-----------------------------------------------------------------------------
(* Properties.                                                             *)

AllBodies == FoldLeft(LAMBDA s, k : s \o BodyOf(k), <<>>, [k \in DOMAIN stream.msgs |-> k])
ReadsAs(m, at) ==
  IF stream.version = Raw
    THEN Bytes(m, bufs, content)
           = SubSeq(AllBodies, at + 1, at + Len(Bytes(m, bufs, content)))
    ELSE Bytes(m, bufs, content) = BodyOf(at + 1) /\ m.more = More(at + 1)

(* A message has the bytes and the flag it was sent with from the moment   *)
(* it leaves the decoder until the last of its copies is closed, however   *)
(* the transport cuts the stream, and although its bytes may lie in a      *)
(* receive buffer that the decoder goes on using (decoder.hpp,             *)
(* decoder_allocators.cpp).                                                *)
ReceivedIntact ==
  /\ \A i \in DOMAIN held : ReadsAs(held[i].msg, held[i].at)
  /\ dec.stopped => ReadsAs(dec.msg, dec.got)

(* A receive buffer is allocated exactly as long as the decoder or a       *)
(* message uses it, and content exactly as long as there are messages that *)
(* share it, in whatever order copies, messages and the decoder go         *)
(* (shared_message_memory_allocator, msg_t::close).                        *)
Sharing(id) ==
  Cardinality({i \in DOMAIN held : held[i].msg.kind # "vsm" /\ held[i].msg.id = id})
    + IF dec.msg.kind # "vsm" /\ dec.msg.id = id THEN 1 ELSE 0
BuffersCounted ==
  /\ \A i \in Buffers :
       bufs[i].refs = Cardinality({id \in DOMAIN content : content[id].buf = i})
                        + IF dec.buf = i THEN 1 ELSE 0
  /\ \A id \in DOMAIN content : content[id].refs = Sharing(id)

(* Everything sent has come out of the decoder when the stream is read to  *)
(* its end, also an empty message at the end of what was read and a        *)
(* message that took many reads: the decoder never waits for bytes that do *)
(* not come.  A connection that ends and a message longer than             *)
(* ZMQ_MAXMSGSIZE are the exceptions (decoder_base_t::decode).             *)
Sent == IF stream.version = Raw THEN Len(AllBodies) ELSE Len(stream.msgs)
AllRead == Batched.bytes = <<>> /\ out = <<>> /\ wire = <<>>
NothingStuck == AllRead /\ ~dec.stopped => dec.dead \/ dec.got = Sent
=============================================================================
