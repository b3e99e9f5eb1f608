------------------------------- MODULE Engine -------------------------------
(***************************************************************************)
(* Two stream_engine_t at the ends of a TCP connection: the greeting, the  *)
(* handshake of the NULL, PLAIN, CURVE or GSSAPI mechanism with the ZAP    *)
(* handler of the server, and the exchange of messages and heartbeats,     *)
(* with an input that stops while the session's pipe is full.  Ciphers are *)
(* not modelled, the nonces of CURVE are.  An engine runs in one I/O       *)
(* thread, so a handler is one step; the interleaving is that of the two   *)
(* engines, the network, the ZAP handler and the two applications.  The    *)
(* stream is a sequence of tokens: pieces of the greeting, commands and    *)
(* messages.                                                               *)
(***************************************************************************)
EXTENDS Integers, Sequences, FiniteSets, SequencesExt

CONSTANTS
  Configs,     \* how the two sockets may be set up
  Capacity,    \* tokens the network holds in one direction
  Batch,       \* out_batch_size: tokens encoded in one out_event()
  MaxMsgs,     \* MaxMsgs[e]: bound on the messages application e sends
  MaxPings     \* bound on the heartbeats of an engine

Ends == {"client", "server"}
Peer(e) == IF e = "client" THEN "server" ELSE "client"
Mechanisms == {"NULL", "PLAIN", "CURVE", "GSSAPI"}

(* mech[e], as_server[e]: options of the two sockets; zap: whether the     *)
(* server has a ZAP handler, and whether its reply is there when the       *)
(* request has been sent; allow: what it replies; old: an old library at   *)
(* the server's end; recv_identity, hwm, left: the server's option, and    *)
(* the room and the messages in the pipe to its socket, which may be there *)
(* from an earlier connection; heartbeat; maxmsgsize: largest message;     *)
(* types_match: whether sockets of the two types may be connected.  A ZAP  *)
(* handler is asked by NULL and by the server's side of the others, and    *)
(* zap is about this library's server: not for an old one.                 *)
ASSUME EngineAssumption ==
  /\ Capacity \in Nat \ {0} /\ Batch \in Nat \ {0}
  /\ MaxMsgs \in [Ends -> Nat] /\ MaxPings \in Nat
  /\ \A c \in Configs :
       /\ c.mech \in [Ends -> Mechanisms]
       /\ c.as_server \in [Ends -> BOOLEAN]
       /\ c.zap \in {"off", "slow", "fast"} /\ c.allow \in BOOLEAN
       /\ c.old \in {"no", "ZMTP 1 or 2", "unversioned"}
       /\ c.recv_identity \in BOOLEAN /\ c.hwm \in Nat /\ c.left \in Nat
       /\ c.heartbeat \in BOOLEAN /\ c.maxmsgsize \in Nat
       /\ c.types_match \in BOOLEAN
       /\ c.zap # "off" => c.old = "no" /\ (c.mech["server"] = "NULL" \/ c.as_server["server"])

VARIABLES
  opt,    \* the set-up, a member of Configs
  eng,    \* eng[e]: the engine at end e, its session's pipe, and wire: what
          \*   it has written that its peer has not read
  sent    \* sent[e]: messages the application of end e has sent
vars == <<opt, eng, sent>>

Tok(k)     == [k |-> k, v |-> 0, n |-> 0]
Data(v)    == [k |-> "data", v |-> v, n |-> 0]
Commands   == {"PING", "PONG"}

------------------------------------------------------------------------------
(* Constructor and plug().  out is outpos/outsize; next and process are    *)
(* next_msg and process_msg; did holds the flags of null_mechanism_t, state *)
(* is that of the other mechanisms.  The timer set is for the handshake.   *)
NewEngine(e) ==
  [who |-> e, life |-> "open", greet |-> "signature", mech |-> "none",
   state |-> "none", did |-> {}, zap |-> "none", nonce |-> 1, peer_nonce |-> 1,
   next |-> "identity", process |-> "identity", rc |-> "ok", dry |-> FALSE,
   out |-> <<Tok("signature")>>, wire |-> <<>>, in |-> <<>>,
   held |-> Tok("none"), input_stopped |-> FALSE, output_stopped |-> FALSE,
   io_error |-> FALSE, pollout |-> TRUE, timers |-> {"handshake"},
   bailed |-> FALSE, pings |-> 0,
   to_send |-> <<>>, asleep |-> FALSE,             \* the pipe to the engine
   got |-> <<>>, queued |-> 0, full |-> FALSE]     \* the pipe to the socket

(* error(): the engine unplugs itself, cancels its timers and closes.      *)
Error(x, reason) == [x EXCEPT !.life = reason, !.timers = {}, !.pollout = FALSE,
                              !.out = <<>>]

(* zmq_assert() ends the process.                                          *)
Abort(x) == [x EXCEPT !.life = "aborted", !.rc = "abort", !.timers = {}]

Emit(x, tok) == [x EXCEPT !.out = Append(@, tok)]
Fails(x, rc) == [x EXCEPT !.rc = rc]                  \* errno of a return -1
Dry(x)       == [x EXCEPT !.dry = TRUE]               \* next_msg returns -1

Hwm(x)  == IF x.who = "server" THEN opt.hwm ELSE MaxMsgs["server"] + 2
IsZap(x) == x.who = "server" /\ opt.zap # "off"

(* session_base_t::push_msg(): commands stop here.                         *)
Push(x, tok) ==
  IF tok.k \in Commands THEN x
  ELSE IF x.queued < Hwm(x)
    THEN [x EXCEPT !.queued = @ + 1, !.got = Append(@, tok)]
    ELSE [x EXCEPT !.full = TRUE, !.rc = "again"]

------------------------------------------------------------------------------
(* The mechanisms: what they send next, and what they do with a command.   *)

(* The reply of the ZAP handler, which a mechanism may have to wait for.    *)
Verdict == IF opt.allow THEN "200" ELSE "denied"
Judged(x, yes, no) == [x EXCEPT !.zap = Verdict, !.state = IF opt.allow THEN yes ELSE no]

(* parse_metadata(): the socket types are checked in READY and INITIATE.   *)
Metadata(x) == IF opt.types_match THEN x ELSE Fails(x, "proto")

NullVerdict(x) == [x EXCEPT !.zap = Verdict]

NullReply(x) ==
  IF x.zap = "denied" THEN Emit([x EXCEPT !.did = @ \cup {"error_sent"}], Tok("ERROR"))
  ELSE Emit([x EXCEPT !.did = @ \cup {"ready_sent"}], Tok("READY"))

(* Bug: READY is sent before the handler has replied.                      *)
NullNextHasty(x) ==
  IF x.did \cap {"ready_sent", "error_sent"} # {} THEN Dry(x)
  ELSE IF IsZap(x) /\ x.zap = "none"
    THEN NullReply([x EXCEPT !.zap = "asked"])
  ELSE NullReply(x)

NullNext(x) ==
  IF x.did \cap {"ready_sent", "error_sent"} # {} \/ x.zap = "asked" THEN Dry(x)
  ELSE IF IsZap(x) /\ x.zap = "none"
    THEN IF opt.zap = "slow" THEN Dry([x EXCEPT !.zap = "asked"])
         ELSE NullReply(NullVerdict(x))
  ELSE NullReply(x)

NullProcess(x, tok) ==
  IF x.did \cap {"ready_received", "error_received"} # {} THEN Fails(x, "proto")
  ELSE IF tok.k = "READY" THEN Metadata([x EXCEPT !.did = @ \cup {"ready_received"}])
  ELSE IF tok.k = "ERROR" THEN [x EXCEPT !.did = @ \cup {"error_received"}]
  ELSE Fails(x, "proto")

NullStatus(x) ==
  IF {"ready_sent", "ready_received"} \subseteq x.did THEN "ready"
  ELSE IF Cardinality(x.did) = 2 THEN "error" ELSE "handshaking"

(* A handler that produces a command, and moves to state to; one that      *)
(* consumes a command is rejected in any but its own states.               *)
Produce(x, to, tok) == Emit([x EXCEPT !.state = to], tok)
Expect(x, states, y) == IF x.state \in states THEN y ELSE Fails(x, "proto")

PlainHello(x)    == Produce(x, "wait welcome", Tok("HELLO"))
PlainInitiate(x) == Produce(x, "wait ready", Tok("INITIATE"))

PlainClientNext(x) ==
  CASE x.state = "hello"    -> PlainHello(x)
    [] x.state = "initiate" -> PlainInitiate(x)
    [] OTHER                -> Dry(x)

PlainProcessWelcome(x) ==
  Expect(x, {"wait welcome"}, [x EXCEPT !.state = "initiate"])
PlainProcessReady(x) ==
  Expect(x, {"wait ready"}, Metadata([x EXCEPT !.state = "ready"]))
PlainProcessError(x) ==
  Expect(x, {"wait welcome", "wait ready"}, [x EXCEPT !.state = "error"])

PlainClientProcess(x, tok) ==
  CASE tok.k = "WELCOME" -> PlainProcessWelcome(x)
    [] tok.k = "READY"   -> PlainProcessReady(x)
    [] tok.k = "ERROR"   -> PlainProcessError(x)
    [] OTHER             -> Fails(x, "proto")

PlainWelcome(x) == Produce(x, "wait initiate", Tok("WELCOME"))
PlainReady(x)   == Produce(x, "ready", Tok("READY"))
PlainError(x)   == Produce(x, "error", Tok("ERROR"))

PlainServerNext(x) ==
  CASE x.state = "welcome"    -> PlainWelcome(x)
    [] x.state = "send ready" -> PlainReady(x)
    [] x.state = "send error" -> PlainError(x)
    [] OTHER                  -> Dry(x)

(* zap_connect(), send_zap_request(), receive_and_process_zap_reply().     *)
PlainVerdict(x) == Judged(x, "welcome", "send error")
PlainAskZap(x) ==
  IF ~IsZap(x) THEN [x EXCEPT !.state = "welcome"]
  ELSE IF opt.zap = "slow" THEN [x EXCEPT !.state = "wait zap", !.zap = "asked"]
  ELSE PlainVerdict(x)

PlainProcessHello(x, tok) ==
  IF tok.k = "HELLO" THEN PlainAskZap(x)
  ELSE Fails(x, "proto")
PlainProcessInitiate(x, tok) ==
  IF tok.k = "INITIATE" THEN Metadata([x EXCEPT !.state = "send ready"])
  ELSE Fails(x, "proto")

PlainServerProcess(x, tok) ==
  CASE x.state = "wait hello"    -> PlainProcessHello(x, tok)
    [] x.state = "wait initiate" -> PlainProcessInitiate(x, tok)
    [] OTHER                     -> Fails(x, "proto")

(* CURVE numbers what it sends, and asks the handler at INITIATE, when it  *)
(* knows the key of the client.                                            *)
Sealed(x, tok) == [tok EXCEPT !.n = x.nonce]
Count(x) == [x EXCEPT !.nonce = @ + 1]

CurveHello(x)    == Produce(Count(x), "wait welcome", Sealed(x, Tok("HELLO")))
CurveInitiate(x) == Produce(Count(x), "wait ready", Sealed(x, Tok("INITIATE")))

CurveClientNext(x) ==
  CASE x.state = "hello"    -> CurveHello(x)
    [] x.state = "initiate" -> CurveInitiate(x)
    [] OTHER                -> Dry(x)

(* Nothing but the cookie and the keys, which only the server has, says in *)
(* which state WELCOME and READY come.                                     *)
CurveProcessWelcome(x)    == [x EXCEPT !.state = "initiate"]
CurveProcessReady(x, tok) == Metadata([x EXCEPT !.state = "ready", !.peer_nonce = tok.n])
CurveProcessError(x) ==
  Expect(x, {"wait welcome", "wait ready"}, [x EXCEPT !.state = "error"])

CurveClientProcess(x, tok) ==
  CASE tok.k = "WELCOME" -> CurveProcessWelcome(x)
    [] tok.k = "READY"   -> CurveProcessReady(x, tok)
    [] tok.k = "ERROR"   -> CurveProcessError(x)
    [] OTHER             -> Fails(x, "proto")

CurveWelcome(x) == Produce(x, "wait initiate", Tok("WELCOME"))
CurveReady(x)   == Produce(Count(x), "ready", Sealed(x, Tok("READY")))
CurveError(x)   == Produce(x, "error", Tok("ERROR"))

CurveServerNext(x) ==
  CASE x.state = "welcome"    -> CurveWelcome(x)
    [] x.state = "send ready" -> CurveReady(x)
    [] x.state = "send error" -> CurveError(x)
    [] OTHER                  -> Dry(x)

CurveProcessHello(x, tok) ==
  IF tok.k = "HELLO" THEN [x EXCEPT !.state = "welcome", !.peer_nonce = tok.n]
  ELSE Fails(x, "proto")
CurveVerdict(x) == Judged(x, "send ready", "send error")
CurveAskZap(x) ==
  IF ~IsZap(x) THEN [x EXCEPT !.state = "send ready"]
  ELSE IF opt.zap = "slow" THEN [x EXCEPT !.state = "wait zap", !.zap = "asked"]
  ELSE CurveVerdict(x)

CurveProcessInitiate(x, tok) ==
  IF tok.k = "INITIATE"
    THEN Metadata(CurveAskZap([x EXCEPT !.peer_nonce = tok.n]))
  ELSE Fails(x, "proto")

CurveServerProcess(x, tok) ==
  CASE x.state = "wait hello"    -> CurveProcessHello(x, tok)
    [] x.state = "wait initiate" -> CurveProcessInitiate(x, tok)
    [] OTHER                     -> Fails(x, "proto")

(* GSSAPI: the client's and the server's library exchange tokens until     *)
(* both have a security context: here one token each.  The client's second *)
(* call yields no token, but an empty command is sent all the same, and it *)
(* is what makes the server ask the handler.                               *)
GssNextToken(x) ==                              \* initialize_context()
  IF "token" \notin x.did
    THEN Produce([x EXCEPT !.did = {"token"}], "recv next token", Tok("TOKEN"))
  ELSE Produce(x, "recv ready", Tok("empty"))
GssReady(x, to) == Produce(x, to, Tok("READY"))
GssProcessReady(x, tok, to) ==
  IF tok.k = "READY" THEN Metadata([x EXCEPT !.state = to]) ELSE Fails(x, "proto")
GssProcessToken(x, tok, to) ==
  IF tok.k = "TOKEN" THEN [x EXCEPT !.state = to] ELSE Fails(x, "proto")

GssClientNext(x) ==
  CASE x.state = "send ready"     -> GssReady(x, "ready")
    [] x.state = "call next init" -> GssNextToken(x)
    [] OTHER                      -> Dry(x)
GssClientProcess(x, tok) ==
  CASE x.state = "recv ready"      -> GssProcessReady(x, tok, "send ready")
    [] x.state = "recv next token" -> GssProcessToken(x, tok, "call next init")
    [] OTHER                       -> Fails(x, "proto")

(* A client that is refused gets no ERROR: its connection is closed.       *)
GssVerdict(x) == IF opt.allow THEN Judged(x, "send ready", "none")
                 ELSE Fails([x EXCEPT !.zap = Verdict], "proto")
GssAskZap(x) ==
  IF ~IsZap(x) THEN [x EXCEPT !.state = "send ready"]
  ELSE IF opt.zap = "slow" THEN [x EXCEPT !.state = "wait zap", !.zap = "asked"]
  ELSE GssVerdict(x)

GssServerNext(x) ==
  CASE x.state = "send ready" -> GssReady(x, "recv ready")
    [] x.state = "send next token" ->
         Produce([x EXCEPT !.did = {"token"}], "recv next token", Tok("TOKEN"))
    [] OTHER -> Dry(x)
GssServerProcess(x, tok) ==
  CASE x.state = "recv ready" -> GssProcessReady(x, tok, "ready")
    [] x.state = "recv next token" ->
         IF x.did = {"token"} THEN GssAskZap(x)
         ELSE GssProcessToken(x, tok, "send next token")
    [] OTHER -> Fails(x, "proto")

(* encode() and decode() of the mechanism.                                 *)
CurveEncode(x, tok) == Emit(Count(x), Sealed(x, tok))
CurveDecode(x, tok) ==
  IF tok.k \in Commands \cup {"data"} /\ tok.n > x.peer_nonce
    THEN [x EXCEPT !.peer_nonce = tok.n]
  ELSE Fails(x, "proto")

Encode(x, tok) == IF x.mech = "CURVE" THEN CurveEncode(x, tok) ELSE Emit(x, tok)
Decode(x, tok) == IF x.mech = "CURVE" THEN CurveDecode(x, tok) ELSE x

Server(x) == opt.as_server[x.who]

MechNext(x) ==
  CASE x.mech = "NULL"                -> NullNext(x)
    [] x.mech = "PLAIN" /\ ~Server(x) -> PlainClientNext(x)
    [] x.mech = "PLAIN" /\ Server(x)  -> PlainServerNext(x)
    [] x.mech = "CURVE" /\ ~Server(x) -> CurveClientNext(x)
    [] x.mech = "CURVE" /\ Server(x)  -> CurveServerNext(x)
    [] x.mech = "GSSAPI" /\ ~Server(x) -> GssClientNext(x)
    [] x.mech = "GSSAPI" /\ Server(x) -> GssServerNext(x)

MechProcess(x, tok) ==
  CASE x.mech = "NULL"                -> NullProcess(x, tok)
    [] x.mech = "PLAIN" /\ ~Server(x) -> PlainClientProcess(x, tok)
    [] x.mech = "PLAIN" /\ Server(x)  -> PlainServerProcess(x, tok)
    [] x.mech = "CURVE" /\ ~Server(x) -> CurveClientProcess(x, tok)
    [] x.mech = "CURVE" /\ Server(x)  -> CurveServerProcess(x, tok)
    [] x.mech = "GSSAPI" /\ ~Server(x) -> GssClientProcess(x, tok)
    [] x.mech = "GSSAPI" /\ Server(x) -> GssServerProcess(x, tok)

Status(x) ==
  IF x.mech = "NULL" THEN NullStatus(x)
  ELSE IF x.state \in {"ready", "error"} THEN x.state ELSE "handshaking"

------------------------------------------------------------------------------
(* Output.                                                                 *)

(* mechanism_ready().  If the pipe takes no identity it gives up half-way. *)
MechanismReady(x) ==
  LET y == [x EXCEPT !.timers = @ \cup IF opt.heartbeat THEN {"interval"} ELSE {}]
      z == IF opt.recv_identity /\ x.who = "server" THEN Push(y, Tok("identity")) ELSE y
  IN  IF z.rc # "ok" THEN [z EXCEPT !.rc = "ok", !.bailed = TRUE]
      ELSE [z EXCEPT !.next = "pull", !.process = "credential"]

(* pull_msg() of the session, whose reader sleeps from when there was      *)
(* nothing until it is activated, and encode() of the mechanism.           *)
PullAndEncode(x) ==
  IF x.asleep \/ x.to_send = <<>> THEN Dry([x EXCEPT !.asleep = TRUE])
  ELSE Encode([x EXCEPT !.to_send = Tail(@)], Head(x.to_send))

NextHandshakeCommand(x) ==
  CASE Status(x) = "ready" -> PullAndEncode(MechanismReady(x))
    [] Status(x) = "error" -> Dry(x)
    [] OTHER               -> MechNext(x)

ProducePing(x) == [Encode(x, Tok("PING")) EXCEPT !.next = "pull",
                                                 !.timers = @ \cup {"timeout"}]
ProducePong(x) == [Encode(x, Tok("PONG")) EXCEPT !.next = "pull"]

(* The call through next_msg.                                              *)
NextMsg(x) ==
  CASE x.next = "identity"  -> Emit([x EXCEPT !.next = "pull"], Tok("identity"))
    [] x.next = "handshake" -> NextHandshakeCommand(x)
    [] x.next = "pull"      -> PullAndEncode(x)
    [] x.next = "ping"      -> ProducePing(x)
    [] x.next = "pong"      -> ProducePong(x)

Load(x) ==
  LET f[i \in 0 .. Batch] ==
        IF i = 0 THEN [x EXCEPT !.dry = FALSE]
        ELSE CHOOSE z \in {IF y.dry THEN y ELSE NextMsg(y) : y \in {f[i - 1]}} : TRUE
  IN  f[Batch]

(* tcp_write(): as much as the network takes.                              *)
Write(x) ==
  LET n == IF Len(x.out) < Capacity - Len(x.wire) THEN Len(x.out)
           ELSE Capacity - Len(x.wire)
  IN  [x EXCEPT !.wire = @ \o SubSeq(x.out, 1, n),
                !.out = SubSeq(@, n + 1, Len(@)),
                !.pollout = @ /\ ~(x.greet # "done" /\ n = Len(x.out))]

WriteOrStop(y) ==
  IF y.out = <<>> THEN [y EXCEPT !.output_stopped = TRUE, !.pollout = FALSE] ELSE Write(y)

OutEvent(x) ==
  IF x.io_error THEN Abort(x)
  ELSE IF x.out = <<>> /\ x.greet # "done" THEN x             \* no encoder yet
  ELSE WriteOrStop(IF x.out = <<>> THEN Load(x) ELSE x)

RestartOutput(x) ==
  IF x.io_error THEN x
  ELSE OutEvent([x EXCEPT !.pollout = @ \/ x.output_stopped, !.output_stopped = FALSE])

------------------------------------------------------------------------------
(* Input.                                                                  *)

Answer(x) == IF x.output_stopped THEN RestartOutput(x) ELSE x

(* The next step, if nothing has gone wrong.                               *)
IfOk(x, GoOn(_)) == IF x.rc = "ok" THEN GoOn(x) ELSE x

(* Bug: output that has stopped is not started again.                      *)
ProceedMute(x) == IF Status(x) = "error" THEN Fails(x, "proto")
                  ELSE IF Status(x) = "ready" THEN MechanismReady(x) ELSE x
ProcessHandshakeCommandMute(x, tok) == IfOk(MechProcess(x, tok), ProceedMute)

Proceed(x) ==
  IF Status(x) = "error" THEN Fails(x, "proto")
  ELSE Answer(IF Status(x) = "ready" THEN MechanismReady(x) ELSE x)
ProcessHandshakeCommand(x, tok) == IfOk(MechProcess(x, tok), Proceed)

(* process_identity_msg(): from a peer without a mechanism.                *)
ProcessIdentityMsg(x, tok) ==
  LET y == IF opt.recv_identity /\ x.who = "server" THEN Push(x, Tok("identity")) ELSE x
  IN  IF y.rc # "ok" THEN Abort(y) ELSE [y EXCEPT !.process = "push"]

(* process_heartbeat_message().                                            *)
ProcessHeartbeat(x, tok) ==
  IF tok.k # "PING" THEN x
  ELSE OutEvent([x EXCEPT !.timers = @ \cup {"ttl"}, !.next = "pong"])

(* Bug: the message that was decoded is decoded a second time.             *)
Heard(x) == [x EXCEPT !.timers = @ \ {"timeout", "ttl"}]
DecodeAndPushTwice(x, tok) ==
  IfOk(Decode(x, tok), LAMBDA y :
    IfOk(ProcessHeartbeat(Heard(y), tok), LAMBDA z : Push(z, tok)))

Decoder(x) == IF x.rc = "again" THEN [x EXCEPT !.process = "push one"] ELSE x
DecodeAndPush(x, tok) ==
  IfOk(Decode(x, tok), LAMBDA y :
    IfOk(ProcessHeartbeat(Heard(y), tok), LAMBDA z : Decoder(Push(z, tok))))

PushOne(x, tok) ==
  LET y == Push(x, tok)
  IN  IF y.rc = "ok" THEN [y EXCEPT !.process = "decode"] ELSE y

(* write_credential(): the user id of the ZAP reply goes first.            *)
WriteCredential(x, tok) ==
  IfOk(IF x.zap = "200" THEN Push(x, Tok("credential")) ELSE x,
       LAMBDA y : DecodeAndPush([y EXCEPT !.process = "decode"], tok))

(* The decoder refuses a message above maxmsgsize; then the call through   *)
(* process_msg.  A message that cannot be pushed stays in the decoder.     *)
Hold(x, tok) == IF x.rc = "again" THEN [x EXCEPT !.held = tok] ELSE x
ProcessMsg(x, tok) ==
  Hold(CASE tok.v > opt.maxmsgsize    -> Fails(x, "proto")
         [] x.process = "identity"   -> ProcessIdentityMsg(x, tok)
         [] x.process = "handshake"  -> ProcessHandshakeCommand(x, tok)
         [] x.process = "credential" -> WriteCredential(x, tok)
         [] x.process = "decode"     -> DecodeAndPush(x, tok)
         [] x.process = "push one"   -> PushOne(x, tok)
         [] x.process = "push"       -> Push(x, tok), tok)

(* handshake(): a piece of the greeting of the peer.                       *)
Queue(x, tok) == [Emit(x, tok) EXCEPT !.pollout = @ \/ x.out = <<>>]
Greeted(x) == [x EXCEPT !.greet = "done", !.pollout = @ \/ x.out = <<>>,
                        !.timers = @ \ {"handshake"}]
ZapEnabled(x) == opt.mech[x.who] # "NULL" \/ IsZap(x)
FirstState(mech, server) ==
  IF mech = "GSSAPI" THEN IF server THEN "recv next token" ELSE "call next init"
  ELSE IF server THEN "wait hello" ELSE "hello"

Handshake(x, tok) ==
  CASE tok.k = "signature" -> [Queue(x, Tok("version 3")) EXCEPT !.greet = "version"]
    [] tok.k = "version 3" ->
         [Queue(x, Tok(opt.mech[x.who])) EXCEPT !.greet = "mechanism"]
    [] tok.k = "version old" -> [Queue(x, Tok("type")) EXCEPT !.greet = "type"]
    [] tok.k = "type" -> IF ZapEnabled(x) THEN Fails(x, "proto") ELSE Greeted(x)
    [] tok.k \in Mechanisms ->
         IF tok.k # opt.mech[x.who] THEN Fails(x, "proto")
         ELSE [Greeted(x) EXCEPT !.mech = tok.k, !.state = FirstState(tok.k, Server(x)),
                                 !.next = "handshake", !.process = "handshake"]
    [] OTHER ->                 \* no signature: the header of a message
         IF ZapEnabled(x) THEN Fails(x, "proto")
         ELSE ProcessMsg([Emit(Greeted(x), Tok("identity")) EXCEPT !.next = "pull"],
                         Tok("identity"))

(* The loop of in_event() and restart_input() over what has been read.     *)
DecodeOne(y, tok) == IF y.rc # "ok" THEN [y EXCEPT !.in = Append(@, tok)]
                     ELSE IF y.greet # "done" THEN Handshake(y, tok)
                     ELSE ProcessMsg(y, tok)
Decoded(x, toks) ==
  LET f[i \in 0 .. Len(toks)] ==
        IF i = 0 THEN [x EXCEPT !.rc = "ok", !.in = <<>>]
        ELSE CHOOSE z \in {DecodeOne(y, toks[i]) : y \in {f[i - 1]}} : TRUE
  IN  f[Len(toks)]

InOutcome(x) ==
  CASE x.rc = "proto" -> Error(x, "protocol")
    [] x.rc = "again" -> [x EXCEPT !.input_stopped = TRUE]
    [] OTHER          -> x
InEvent(x, toks) == InOutcome(Decoded(x, toks))

(* Bug: the message that was held is forgotten when input was broken off.  *)
RestartInputBroken(x) ==
  IF x.io_error THEN Error(x, "connection")
  ELSE [Decoded([x EXCEPT !.held = Tok("none")], x.in) EXCEPT !.input_stopped = FALSE]

(* The read that restart_input() ends with is the next InEvent.            *)
Restarted(x) ==
  CASE x.rc \in {"again", "abort"} -> x
    [] x.rc \in {"ok", "proto"} /\ x.io_error -> Error(x, "connection")
    [] x.rc = "proto" /\ ~x.io_error -> Error(x, "protocol")
    [] x.rc = "ok" /\ ~x.io_error -> [x EXCEPT !.input_stopped = FALSE]
Rest(x) ==
  CASE x.rc = "ok"    -> Restarted(Decoded([x EXCEPT !.held = Tok("none")], x.in))
    [] x.rc = "proto" -> Error(x, "protocol")
    [] x.rc \in {"again", "abort"} -> x
RestartInput(x) ==
  IF ~x.input_stopped THEN Abort(x) ELSE Rest(ProcessMsg([x EXCEPT !.rc = "ok"], x.held))

ZapAnswered(x) ==
  IF x.rc = "proto" THEN Error(x, "protocol")
  ELSE Answer(IF x.input_stopped THEN RestartInput(x) ELSE x)
ZapMsgAvailable(x) ==
  ZapAnswered(CASE x.mech = "NULL"   -> NullVerdict(x)
                [] x.mech = "PLAIN"  -> PlainVerdict(x)
                [] x.mech = "CURVE"  -> CurveVerdict(x)
                [] x.mech = "GSSAPI" -> GssVerdict(x))

------------------------------------------------------------------------------
(* What the pipe of a session holds when the engine is plugged.            *)
Plugged(e, c) ==
  LET again == e = "server" /\ c.left > 0
  IN  [NewEngine(e) EXCEPT !.queued = IF again THEN c.left ELSE 0,
                           !.asleep = again]

(* An old peer has sent its part before it reads ours.                     *)
OldPeer(c) ==
  [NewEngine("server") EXCEPT !.life = "old", !.timers = {}, !.out = <<>>,
     !.wire = CASE c.old = "ZMTP 1 or 2" ->
                     <<Tok("signature"), Tok("version old"), Tok("type"),
                       Tok("identity"), Data(1)>>
                [] c.old = "unversioned" -> <<Tok("header"), Data(1)>>]

Init == /\ opt \in Configs
        /\ eng = [e \in Ends |-> IF e = "server" /\ opt.old # "no" THEN OldPeer(opt)
                                 ELSE Plugged(e, opt)]
        /\ sent = [e \in Ends |-> IF e = "server" /\ opt.old # "no" THEN 1 ELSE 0]

Live(e) == eng[e].life = "open"
Gone(e) == eng[e].life \notin {"open", "old"}
Becomes(e, x) == eng' = [eng EXCEPT ![e] = x] /\ UNCHANGED <<opt, sent>>

(* The poller reports input: the next tokens, or the end of the stream.    *)
In(e) ==
  /\ Live(e) /\ ~eng[e].input_stopped
  /\ \E n \in 1 .. Len(eng[Peer(e)].wire) :
       /\ eng' = [eng EXCEPT ![e] = InEvent(eng[e], SubSeq(eng[Peer(e)].wire, 1, n)),
                             ![Peer(e)].wire = SubSeq(@, n + 1, Len(@))]
       /\ UNCHANGED <<opt, sent>>

InEnds(e) == /\ Live(e) /\ ~eng[e].input_stopped
             /\ Gone(Peer(e)) /\ eng[Peer(e)].wire = <<>>
             /\ Becomes(e, Error(eng[e], "connection"))

(* While input is stopped the poller still reports that the peer is gone.  *)
InBreaks(e) == /\ Live(e) /\ eng[e].input_stopped /\ ~eng[e].io_error
               /\ Gone(Peer(e))
               /\ Becomes(e, [eng[e] EXCEPT !.io_error = TRUE, !.pollout = FALSE])

Out(e) == /\ Live(e) /\ eng[e].pollout /\ ~eng[e].io_error
          /\ Len(eng[e].wire) < Capacity
          /\ Becomes(e, OutEvent(eng[e]))

(* tcp_write() fails once the peer has closed.                             *)
OutFails(e) == /\ Live(e) /\ eng[e].pollout /\ ~eng[e].io_error
               /\ Gone(Peer(e)) /\ eng[e].out # <<>>
               /\ Becomes(e, [eng[e] EXCEPT !.pollout = FALSE])

(* The session's read_activated() and write_activated().                   *)
ReadActivated(e) == /\ Live(e) /\ eng[e].asleep /\ eng[e].to_send # <<>>
                    /\ Becomes(e, RestartOutput([eng[e] EXCEPT !.asleep = FALSE]))

WriteActivated(e) == /\ Live(e) /\ eng[e].full /\ eng[e].queued < Hwm(eng[e])
                     /\ Becomes(e, RestartInput([eng[e] EXCEPT !.full = FALSE]))

(* The handler has replied, on the session's other pipe.                   *)
ZapReply(e) == /\ Live(e) /\ eng[e].zap = "asked"
               /\ Becomes(e, ZapMsgAvailable(eng[e]))

(* timer_event()                                                           *)
Interval(e) == /\ Live(e) /\ "interval" \in eng[e].timers /\ eng[e].pings < MaxPings
               /\ Becomes(e, OutEvent([eng[e] EXCEPT !.next = "ping", !.pings = @ + 1]))

Expires(e) == /\ Live(e) /\ eng[e].timers \cap {"handshake", "ttl", "timeout"} # {}
              /\ Becomes(e, Error(eng[e], "timeout"))

(* The two applications, and an old peer that reads what we write.         *)
AppSend(e) == /\ Live(e) /\ sent[e] < MaxMsgs[e]
              /\ sent' = [sent EXCEPT ![e] = @ + 1]
              /\ eng' = [eng EXCEPT ![e].to_send = Append(@, Data(sent'[e]))]
              /\ UNCHANGED opt

AppRecv(e) == /\ eng[e].queued > 0
              /\ Becomes(e, [eng[e] EXCEPT !.queued = @ - 1])

OldReads == /\ eng["server"].life = "old" /\ eng["client"].wire # <<>>
            /\ eng' = [eng EXCEPT !["server"].got = Append(@, Head(eng["client"].wire)),
                                  !["client"].wire = Tail(@)]
            /\ UNCHANGED <<opt, sent>>

(* A connection that is closed may lose what is still under way.           *)
Lost(e) == /\ Gone(e) /\ eng[e].wire # <<>>
           /\ Becomes(e, [eng[e] EXCEPT !.wire = <<>>])

Step(e) == \/ In(e) \/ InEnds(e) \/ InBreaks(e) \/ Out(e)
           \/ ReadActivated(e) \/ WriteActivated(e) \/ ZapReply(e)

Next == \/ \E e \in Ends : \/ Step(e) \/ OutFails(e) \/ Interval(e) \/ Expires(e)
                           \/ AppSend(e) \/ AppRecv(e) \/ Lost(e)
        \/ OldReads

Spec == Init /\ [][Next]_vars

(* Every handler of an engine that can run eventually does, the            *)
(* applications read what has arrived, and the ZAP handler replies.  No    *)
(* timer has to run out, and no one has to send.  Handles(e) is the guard  *)
(* of Step(e), and so ENABLED <<Step(e)>>_vars: each of its actions        *)
(* changes the state.                                                      *)
Handles(e) ==
  /\ Live(e)
  /\ \/ ~eng[e].input_stopped /\ (eng[Peer(e)].wire # <<>> \/ Gone(Peer(e)))
     \/ eng[e].input_stopped /\ ~eng[e].io_error /\ Gone(Peer(e))
     \/ eng[e].pollout /\ ~eng[e].io_error /\ Len(eng[e].wire) < Capacity
     \/ eng[e].asleep /\ eng[e].to_send # <<>>
     \/ eng[e].full /\ eng[e].queued < Hwm(eng[e])
     \/ eng[e].zap = "asked"
Fairness == /\ \A e \in Ends : /\ []<>~Handles(e) \/ []<><<Step(e)>>_vars
                               /\ WF_vars(AppRecv(e))
            /\ WF_vars(OldReads)
FairSpec == Spec /\ Fairness

------------------------------------------------------------------------------
(* Properties.                                                             *)

IsData(tok) == tok.k = "data"
Values(toks) == LET d == SelectSeq(toks, IsData) IN [i \in DOMAIN d |-> d[i].v]
Arrived(e) == Values(eng[e].got)
UnderWay(e) ==                \* from the application of e to that of its peer
  LET p == eng[Peer(e)]
  IN  Arrived(Peer(e)) \o Values(<<p.held>>) \o Values(p.in)
      \o Values(eng[e].wire) \o Values(eng[e].out) \o Values(eng[e].to_send)

(* Every variable has its type: the type invariant of this module.         *)
TypeOK ==
  /\ opt \in Configs
  /\ \A e \in Ends :
       /\ eng[e].life \in {"open", "old", "connection", "protocol", "timeout", "aborted"}
       /\ eng[e].timers \subseteq {"handshake", "interval", "ttl", "timeout"}
       /\ eng[e].queued \in 0 .. Hwm(eng[e])
       /\ eng[e].rc \in {"ok", "again", "proto", "abort"}
       /\ Live(e) /\ eng[e].input_stopped => eng[e].full
  /\ \A e \in Ends : sent[e] \in 0 .. MaxMsgs[e]

(* Nothing is lost, repeated or reordered on the way between two engines   *)
(* that are open, through a full network, an input that stops because the  *)
(* session's pipe is full and the restart of it (in_event(),               *)
(* restart_input(), push_one_then_decode_and_push()); and what has arrived *)
(* is always a beginning of what was sent.                                 *)
Conserved == TypeOK /\
  \A e \in Ends :
    /\ Live(e) /\ ~Gone(Peer(e)) => UnderWay(e) = [i \in 1 .. sent[e] |-> i]
    /\ IsPrefix(Arrived(Peer(e)), [i \in 1 .. sent[e] |-> i])

HasData(toks) == \E i \in DOMAIN toks : IsData(toks[i])

(* A server with a ZAP handler passes a message on to its socket, and      *)
(* sends one, only after the handler has accepted the client, and the      *)
(* credential of the client comes before its first message.                *)
Authenticated ==
  opt.zap # "off" =>
    /\ HasData(eng["server"].got) \/ HasData(eng["client"].got)
         => opt.allow /\ eng["server"].zap = "200"
    /\ HasData(eng["server"].got) =>
         \E i \in DOMAIN eng["server"].got :
           /\ eng["server"].got[i].k = "credential"
           /\ \A j \in 1 .. i : ~IsData(eng["server"].got[j])

(* Two engines that are set up alike, one as the server, never end their   *)
(* connection for an error in the protocol: the greeting, the handshake in *)
(* both directions and the nonces of CURVE fit together in every           *)
(* interleaving.                                                           *)
Agreeing == /\ opt.mech["client"] = opt.mech["server"]
            /\ opt.mech["client"] # "NULL" => ~opt.as_server["client"] /\ opt.as_server["server"]
            /\ opt.allow /\ opt.types_match
            /\ opt.old = "no" \/ opt.mech["client"] = "NULL"
            /\ \A e \in Ends : MaxMsgs[e] <= opt.maxmsgsize
AgreeingPeersTalk == Agreeing => \A e \in Ends : eng[e].life # "protocol"

(* No engine runs into an assertion: whatever the peer, the session and    *)
(* the timers do, out_event() and restart_input() find the engine in the   *)
(* state their zmq_assert()s ask for.                                      *)
NoAssertFails == \A e \in Ends : eng[e].life # "aborted"

(* Every message sent reaches the other application, unless the connection *)
(* is closed: the handshake does not hang and no wake-up of a stopped      *)
(* input or output is lost.                                                *)
Settles ==
  \A e \in Ends : \A i \in 1 .. MaxMsgs[e] :
    (sent[e] >= i) ~> (Gone("client") \/ Gone("server")
                       \/ Len(Arrived(Peer(e))) >= i)
=============================================================================
