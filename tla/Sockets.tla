------------------------------ MODULE Sockets -------------------------------
(***************************************************************************)
(* One socket of each type (the x... methods that socket_base.cpp calls)   *)
(* and the peers at the other ends of its pipes.  The user sends, receives *)
(* and polls; a peer sends, takes what is sent to it, and may leave; the   *)
(* commands of a pipe are processed between two calls of the user, in any  *)
(* order the peers' speed allows.                                          *)
(***************************************************************************)
EXTENDS Routing, PubSub

CONSTANTS
  Setups,       \* the sockets: type, options, high-water mark, the pipes it
                \* may have, how many parts the messages have that it sends,
                \* and gets, what is subscribed to, and how often at most
  MaxRequests,  \* bound on the requests of a REQ
  MaxPending    \* bound on what an XPUB is still to tell

VARIABLES
  sock,         \* the socket
  app,          \* its user: frames still to send, the last one received, who
                \* it is from, the requests made, what is subscribed to and how
                \* often, what the subscribers want as far as told, how many
                \* messages have passed one that waits, the pipes of a message
                \* that was refused, and what went wrong
  peer          \* peer[p]: the other end of p

vars == <<sock, app, peer>>

Body(m, i, more) == Frame("body", m, i, more)
Message(m, n) == [i \in 1..n |-> Body(m, i, i < n)]

Routers == {"ROUTER", "REP"}
Serving == {"SERVER", "STREAM"}
Pubs    == {"PUB", "XPUB"}
Subs    == {"SUB", "XSUB"}
Balance == {"PUSH", "SCATTER", "DEALER", "CLIENT", "REQ"}
FairQ   == {"PULL", "GATHER", "DEALER", "CLIENT", "REQ", "DISH"}
             \cup Routers \cup Serving \cup Subs
Dists   == {"RADIO", "DISH"} \cup Pubs \cup Subs
NoDelay == {"PUSH", "SCATTER", "PUB", "RADIO"}

New(type) ==
  CASE type \in Routers -> NewRouter
    [] type \in Serving -> NewServer
    [] type = "REQ"     -> NewReq
    [] type \in Pubs    -> NewXPub
    [] type \in Subs    -> NewXSub
    [] type = "RADIO"   -> NewRadio
    [] type = "DISH"    -> NewDish
    [] OTHER            -> [one |-> NoPipe]

NewPeer == [up |-> TRUE, id |-> "", told |-> FALSE, knows |-> {}, deaf |-> FALSE,
            lost |-> {}, asked |-> <<>>]

Init ==
  /\ \E c \in Setups :
       sock = [type |-> c.type, opts |-> c.opts, pipes |-> c.pipes, sends |-> c.sends,
               gets |-> c.gets, topics |-> c.topics, subs |-> c.subs, t |-> New(c.type),
               pipe |-> [p \in Pipes |-> NewPipe("none", c.hwm)],
               fq |-> NewFq, lb |-> NewLb, dist |-> NewDist,
               rc |-> "ok", msg |-> NoFrame, via |-> NoPipe, failed |-> FALSE]
  /\ app = [todo |-> <<>>, last |-> NoFrame, who |-> NoPipe, requests |-> 0,
            count |-> [m \in sock.topics |-> 0], topics |-> {},
            passed |-> [p \in Pipes |-> 0], refused |-> {}, torn |-> FALSE, stray |-> FALSE]
  /\ peer = [p \in Pipes |-> NewPeer]

------------------------------------------------------------------------------
(* The virtual methods.  pair_t keeps one pipe and turns others away.      *)
XAttach(s, p, toAll) ==
  CASE s.type \in Routers -> RouterAttach(s, p)
    [] s.type \in Serving -> ServerAttach(s, p)
    [] s.type \in Pubs    -> XPubAttach(s, p, toAll)
    [] s.type \in Subs    -> XSubAttach(s, p)
    [] s.type = "RADIO"   -> RadioAttach(s, p, toAll)
    [] s.type = "DISH"    -> DishAttach(s, p)
    [] s.type = "PAIR"    -> IF s.t.one = NoPipe THEN [s EXCEPT !.t.one = p]
                             ELSE TerminatePipe(s, p, FALSE)
    [] OTHER -> [s EXCEPT !.fq = IF s.type \in FairQ THEN Attached(s.fq, p) ELSE s.fq,
                          !.lb = IF s.type \in Balance THEN Attached(s.lb, p) ELSE s.lb]

XReadActivated(s, p) ==
  CASE s.type \in Routers -> RouterReadActivated(s, p)
    [] s.type \in Pubs    -> ReadSubs(s, p)
    [] s.type = "RADIO"   -> ReadJoins(s, p)
    [] s.type \in FairQ \ Routers -> [s EXCEPT !.fq = Activated(s.fq, p)]
    [] OTHER -> s

XWriteActivated(s, p) ==
  CASE s.type \in Routers \cup Serving -> PeerWriteActivated(s, p)
    [] s.type \in Balance -> [s EXCEPT !.lb = Activated(s.lb, p)]
    [] s.type \in Dists   -> [s EXCEPT !.dist = DistActivated(s.dist, p)]
    [] OTHER -> s

FqTerminated(s, p) == [s EXCEPT !.fq = Terminated(s.fq, p)]

XTerminated(s, p) ==
  CASE s.type \in Routers -> RouterTerminated(s, p)
    [] s.type \in Serving -> PeerTerminated(s, p)
    [] s.type \in Pubs    -> XPubTerminated(s, p)
    [] s.type = "RADIO"   -> RadioTerminated(s, p)
    [] s.type \in Subs \cup {"DISH"} ->
         [FqTerminated(s, p) EXCEPT !.dist = DistTerminated(s.dist, p)]
    [] s.type = "REQ" ->
         LbTerminated(FqTerminated([s EXCEPT !.t.reply =
           IF s.t.reply = p THEN NoPipe ELSE s.t.reply], p), p)
    [] s.type \in {"DEALER", "CLIENT"} -> LbTerminated(FqTerminated(s, p), p)
    [] s.type \in {"PULL", "GATHER"}   -> FqTerminated(s, p)
    [] s.type \in {"PUSH", "SCATTER"}  -> LbTerminated(s, p)
    [] OTHER -> [s EXCEPT !.t.one = IF s.t.one = p THEN NoPipe ELSE s.t.one]

PairSend(s, f) ==
  IF s.t.one = NoPipe THEN Fail(s, "EAGAIN")
  ELSE LET r == WritePipe(s, s.t.one, f)
       IN IF r.rc = "ok" /\ ~f.more THEN FlushPipe(r, s.t.one) ELSE r

PairRecv(s) == IF s.t.one = NoPipe THEN Fail(s, "EAGAIN") ELSE ReadPipe(s, s.t.one)

XSend(s, f) ==
  CASE s.type = "ROUTER" -> RouterSend(s, f)
    [] s.type = "REP"    -> RepSend(s, f)
    [] s.type = "SERVER" -> ServerSend(s, f)
    [] s.type = "STREAM" -> StreamSend(s, f)
    [] s.type = "REQ"    -> ReqSend(s, f)
    [] s.type \in Pubs   -> XPubSend(s, f)
    [] s.type \in Subs   -> XSubSend(s, f)
    [] s.type = "RADIO"  -> RadioSend(s, f)
    [] s.type = "DISH"   -> DishSend(s, f)
    [] s.type = "PAIR"   -> PairSend(s, f)
    [] OTHER             -> LbSend(s, f)

XRecv(s) ==
  CASE s.type = "ROUTER" -> RouterRecv(s)
    [] s.type = "REP"    -> RepRecv(s)
    [] s.type \in {"SERVER", "CLIENT", "GATHER"} -> SinglePart(FqRecv(s))
    [] s.type = "STREAM" -> StreamRecv(s)
    [] s.type = "REQ"    -> ReqRecv(s)
    [] s.type = "XPUB"   -> XPubRecv(s)
    [] s.type \in Subs   -> XSubRecv(s)
    [] s.type = "DISH"   -> DishRecv(s)
    [] s.type = "PAIR"   -> PairRecv(s)
    [] OTHER             -> FqRecv(s)

XHasIn(s) ==
  CASE s.type \in Routers ->
         IF s.type = "REP" /\ s.t.sending THEN Fail(s, "EAGAIN") ELSE RouterHasIn(s)
    [] s.type = "STREAM" -> StreamHasIn(s)
    [] s.type = "REQ"    -> IF s.t.receiving THEN FqHasIn(s) ELSE Fail(s, "EAGAIN")
    [] s.type \in Subs   -> XSubHasIn(s)
    [] s.type = "DISH"   -> DishHasIn(s)
    [] s.type = "PAIR"   -> IF s.t.one = NoPipe THEN s ELSE CheckRead(s, s.t.one)
    [] s.type \in FairQ  -> FqHasIn(s)
    [] OTHER             -> s

XHasOut(s) ==
  CASE s.type = "REQ"    -> IF s.t.receiving THEN s ELSE LbHasOut(s)
    [] s.type = "PAIR"   -> IF s.t.one = NoPipe THEN s ELSE CheckWrite(s, s.t.one)
    [] s.type \in Balance -> LbHasOut(s)
    [] OTHER             -> s

------------------------------------------------------------------------------
(* The user.                                                               *)
Becomes(r) == sock' = [r EXCEPT !.rc = "ok", !.msg = NoFrame, !.via = NoPipe]

(* What a user of the socket may want to send.                             *)
Messages(s) ==
  LET All(ms) == {Message(m, n) : m \in ms, n \in s.sends}
      To(p, fs) == <<Frame("id", p, 0, TRUE)>> \o fs
      Subscribe(k, ms) == {<<Frame(k, m, 0, FALSE)>> : m \in ms}
  IN CASE s.type = "REQ"    -> All({app.requests + 1})
       [] s.type = "REP"    -> IF s.t.sending THEN All({app.who}) ELSE {}
       [] s.type = "ROUTER" -> {To(i, Message(i, n)) : i \in sock.pipes \cup {"A"}, n \in s.sends}
       [] s.type = "SERVER" -> All(sock.pipes)
       [] s.type = "STREAM" ->
            UNION {{To(p, Message(p, 1)), To(p, <<Frame("empty", p, 1, FALSE)>>)} : p \in sock.pipes}
       [] s.type \in {"PUB", "XPUB", "RADIO"} -> All(sock.topics)
       [] s.type \in Subs   ->
            (IF s.type = "XSUB" THEN All({<<0>>}) ELSE {})
              \cup Subscribe("sub", {m \in sock.topics : app.count[m] < sock.subs})
              \cup Subscribe("unsub", sock.topics)
       [] s.type = "DISH"   -> Subscribe("join", sock.topics) \cup Subscribe("leave", sock.topics)
       [] s.type \in {"PULL", "GATHER"} -> {}
       [] OTHER             -> All({"x"})

(* How many frames more r has on p than s.                                 *)
Length(q)       == Len(q.outq) + Len(q.tail)
Grew(s, r, p)   == Length(r.pipe[p]) - Length(s.pipe[p])

(* What the socket tells a new peer, and what is lost of it in r because   *)
(* the pipe has become full.                                               *)
Cached(s) == IF s.type \in Subs THEN ToSet(Subscriptions(s))
             ELSE IF s.type = "DISH" THEN ToSet(Joins(s)) ELSE {}
Unsaid(r, p) ==
  IF HasRoom(r.pipe[p]) THEN {}
  ELSE {f.m : f \in Cached(r) \ ToSet(r.pipe[p].outq \o r.pipe[p].tail)}

(* How often a topic is subscribed to after f.                             *)
Counts(f) ==
  IF f.kind \in {"sub", "join"} THEN [app.count EXCEPT ![f.m] = @ + 1]
  ELSE IF f.kind \in {"unsub", "leave"} /\ app.count[f.m] > 0
    THEN [app.count EXCEPT ![f.m] = @ - 1]
  ELSE app.count

(* A subscription or the end of one that is forwarded, and the topics of   *)
(* which p no longer knows: it is lost to a pipe that is full, or deaf.    *)
GoesUp(f) == /\ f.kind \in {"sub", "join", "unsub", "leave"}
             /\ f.kind = "unsub" => app.count[f.m] = 1

Lost(r, p, f) ==
  IF ~GoesUp(f) \/ r.rc # "ok" THEN peer[p].lost
  ELSE IF Grew(sock, r, p) > 0 THEN peer[p].lost \ {f.m}
  ELSE IF r.pipe[p].st = "active" /\ (~HasRoom(r.pipe[p]) \/ peer[p].deaf)
    THEN peer[p].lost \cup {f.m}
  ELSE peer[p].lost

(* A message of p waits its turn.                                          *)
Waits(p) == /\ sock.type \in FairQ /\ Reading(sock.pipe[p]) /\ sock.pipe[p].inAct
            /\ sock.pipe[p].inq # <<>> /\ sock.pipe[p].inq[1].kind # "delimiter"
            /\ p \in First(sock.fq.pipes, sock.fq.active)

Ended(q) == Cardinality({i \in DOMAIN q.inq : ~q.inq[i].more})

Passed(r) == [p \in Pipes |->
  IF ~Waits(p) \/ r.pipe[p].inq # sock.pipe[p].inq THEN 0
  ELSE IF \E o \in Pipes : Ended(r.pipe[o]) < Ended(sock.pipe[o])
    THEN app.passed[p] + 1 ELSE app.passed[p]]

(* The next part, or the first of a message: a user who fails to send a    *)
(* part starts over with the message.                                      *)
SendPart(fs) ==
  \E f \in {Head(fs)} : \E r \in {XSend(sock, f)} :
    /\ Becomes(r)
    /\ app' = IF r.rc # "ok"
                THEN [app EXCEPT !.todo = <<>>, !.passed = Passed(r),
                        !.refused = IF sock.type = "XPUB"
                                    THEN First(r.dist.pipes, r.dist.matching) ELSE {}]
              ELSE [app EXCEPT !.todo = Tail(fs), !.passed = Passed(r), !.refused = {},
                      !.requests = IF f.more \/ sock.type # "REQ" THEN app.requests
                                   ELSE app.requests + 1,
                      !.last = IF sock.type = "REQ" THEN NoFrame ELSE app.last,
                      !.who = IF f.more THEN app.who ELSE NoPipe,
                      !.count = Counts(f)]
    /\ peer' = [p \in Pipes |-> [peer[p] EXCEPT !.lost = Lost(r, p, f)]]

Send ==
  /\ sock.type = "REQ" => app.requests < MaxRequests /\ sock.t.id < MaxRequests
  /\ IF app.todo # <<>> THEN SendPart(app.todo)
     ELSE \E fs \in Messages(sock) : SendPart(fs)

(* The subscriptions that are known after f has come.                      *)
Learns(knows, f) == IF f.kind \in {"sub", "join"} THEN knows \cup {f.m}
                    ELSE IF f.kind \in {"unsub", "leave"} THEN knows \ {f.m} ELSE knows

(* b is the part of a message after a.                                     *)
Follows(a, b) ==
  CASE a.kind = "number" -> b.kind = "empty"
    [] a.kind = "empty"  -> b.kind = "body" /\ b.part = 1
    [] OTHER             -> b.part = a.part + 1 /\ b.m = a.m

Continues(last, f) == IF last.more THEN Follows(last, f) ELSE f.part <= 1

(* An identity tells the pipe that the rest comes from.                    *)
IdOf(p) == IF peer[p].id = "" THEN p ELSE peer[p].id

Noted(r) == IF r.msg.kind = "id" /\ sock.type = "ROUTER"
            THEN [r.msg EXCEPT !.m = r.t.in] ELSE r.msg

Misnamed(r) == /\ r.msg.kind = "id" /\ sock.type = "ROUTER"
               /\ r.msg.m \notin {r.t.in, IdOf(r.t.in)}

(* A reply to an earlier request, a message that was not subscribed to.    *)
Unwanted(f) ==
  CASE sock.type = "REQ" -> "correlate" \in sock.opts /\ f.m # app.requests
    [] sock.type \in {"SUB", "DISH"} ->
         /\ sock.t.fetched = <<>> /\ f.part = 1
         /\ (\A m \in sock.topics : IsPrefix(m, f.m) => app.count[m] = 0)
              # ("invert" \in sock.opts)
    [] OTHER -> FALSE

Recv ==
  /\ \E r \in {XRecv(sock)} :
       /\ Becomes(r)
       /\ app' = IF r.rc # "ok" THEN [app EXCEPT !.passed = Passed(r)]
                 ELSE [app EXCEPT
                   !.passed = Passed(r),
                   !.last   = IF r.msg.more THEN Noted(r) ELSE NoFrame,
                   !.torn   = app.torn \/ ~Continues(app.last, r.msg) \/ Misnamed(r),
                   !.stray  = app.stray \/ Unwanted(r.msg),
                   !.who    = IF sock.type = "REP" THEN r.msg.m ELSE app.who,
                   !.topics = Learns(app.topics, r.msg)]
  /\ UNCHANGED peer

(* zmq_poll(), or zmq_getsockopt() of ZMQ_EVENTS.                          *)
Poll ==
  /\ \E r \in {XHasIn(sock)} :
       /\ Becomes(XHasOut(r))
       /\ app' = [app EXCEPT !.passed = Passed(r)]
  /\ UNCHANGED peer

------------------------------------------------------------------------------
(* The peers.  Deliver: what p's peer flushes, waking the reader.          *)
Deliver(p, fs, cmds) ==
  LET q == sock.pipe[p]
  IN sock' = [sock EXCEPT
       !.pipe[p].inq = q.inq \o fs,
       !.pipe[p].cmds = q.cmds \cup cmds
                          \cup IF q.inAct THEN {} ELSE {"activate_read"}]

Up(p) == sock.pipe[p].st \notin {"none", "dead"} /\ peer[p].up

(* Bound: what an XPUB's user has not been told.                           *)
Listens == sock.type = "XPUB" => Len(sock.t.pending) < MaxPending

Hello(p, id) == <<Frame("id", id, 0, FALSE)>>

(* A pipe of a router begins with the peer's identity, which the engine    *)
(* may or may not have pushed when the pipe is attached.                   *)
Attach(p) ==
  /\ p \in sock.pipes /\ sock.pipe[p].st = "none" /\ Listens
  /\ \E id \in IF sock.type = "ROUTER" THEN {"", "A"} ELSE {""},
        told \in IF sock.type \in Routers THEN BOOLEAN ELSE {TRUE},
        toAll \in IF sock.type \in Pubs \cup {"RADIO"} THEN BOOLEAN ELSE {FALSE} :
       \E s \in {[sock EXCEPT !.pipe[p] =
                   [NewPipe("active", sock.pipe[p].hwm) EXCEPT
                      !.inq = IF told /\ sock.type \in Routers THEN Hello(p, id) ELSE <<>>]]} :
       \E r \in {XAttach(s, p, toAll)} :
         /\ Becomes(r)
         /\ peer' = [peer EXCEPT ![p] =
              [NewPeer EXCEPT !.id = id, !.told = told, !.lost = Unsaid(r, p),
                              !.knows = IF toAll THEN {<<>>} ELSE {}]]
  /\ UNCHANGED app

TellIdentity(p) ==
  /\ Up(p) /\ ~peer[p].told
  /\ Deliver(p, Hello(p, peer[p].id), {})
  /\ peer' = [peer EXCEPT ![p].told = TRUE]
  /\ UNCHANGED app

(* What p's peer may send.                                                 *)
Offers(p) ==
  LET All(ms) == {Message(m, n) : m \in ms, n \in sock.gets}
  IN CASE sock.type = "REP" -> {<<Frame("empty", p, 0, TRUE)>> \o Message(p, 1), Message(p, 1)}
       [] sock.type \in Subs \cup {"DISH"} -> All(sock.topics)
       [] sock.type \in {"REQ", "PUSH", "SCATTER", "PUB", "RADIO"} -> {}
       [] OTHER -> All({p})


PeerSends(p) ==
  /\ Up(p) /\ peer[p].told /\ sock.pipe[p].inq = <<>> /\ Listens
  /\ peer[p].asked = <<>>
  /\ \E fs \in Offers(p) :
       /\ Deliver(p, fs, {})
       /\ peer' = IF sock.type = "REP" THEN [peer EXCEPT ![p].asked = fs] ELSE peer
  /\ UNCHANGED app

(* The peer of a REQ answers what it was asked, sooner or later.           *)
PeerReplies(p) ==
  /\ Up(p) /\ sock.type = "REQ" /\ peer[p].asked # <<>> /\ sock.pipe[p].inq = <<>>
  /\ Deliver(p, peer[p].asked, {})
  /\ peer' = [peer EXCEPT ![p].asked = <<>>]
  /\ UNCHANGED app

(* A subscriber forwards each subscription, and the end of the last one.   *)
PeerSubscribes(p, m, on) ==
  /\ Up(p) /\ sock.type \in Pubs \cup {"RADIO"} /\ sock.pipe[p].inq = <<>> /\ Listens
  /\ IF sock.type = "RADIO" THEN on = (m \notin peer[p].knows)
     ELSE on \/ m \in peer[p].knows
  /\ LET kind == IF sock.type = "RADIO" THEN (IF on THEN "join" ELSE "leave")
                 ELSE IF on THEN "sub" ELSE "unsub"
     IN Deliver(p, <<Frame(kind, m, 0, FALSE)>>, {})
  /\ peer' = [peer EXCEPT ![p].knows = IF on THEN @ \cup {m} ELSE @ \ {m}]
  /\ UNCHANGED app

(* The first whole message of a sequence of frames, and the rest.          *)
MessageLen(fs) == CHOOSE n \in DOMAIN fs : ~fs[n].more /\ \A i \in 1..n - 1 : fs[i].more

PeerTakes(p) ==
  /\ Up(p) /\ sock.pipe[p].outq # <<>>
  /\ sock.type = "REQ" => peer[p].asked = <<>>
  /\ LET q == sock.pipe[p].outq
         n == MessageLen(q)
     IN /\ sock' = [sock EXCEPT !.pipe[p].outq = SubSeq(q, n + 1, Len(q)),
                                !.pipe[p].cmds = @ \cup {"activate_write"}]
        /\ peer' = [peer EXCEPT
             ![p].asked = IF sock.type = "REQ" THEN SubSeq(q, 1, n) ELSE <<>>,
             ![p].knows = IF sock.type \in Subs \cup {"DISH"} THEN Learns(@, q[1]) ELSE @]
  /\ UNCHANGED app

PeerLeaves(p) ==
  /\ Up(p)
  /\ Deliver(p, <<Delimiter>>, {"pipe_term"})
  /\ peer' = [peer EXCEPT ![p].up = FALSE]
  /\ UNCHANGED app

(* The connection of a subscriber is lost and made again: what it had sent *)
(* is gone, and the publisher, which knows nothing, is told again.  If the *)
(* pipe was full it has room now, but dist_t does not hear of that.        *)
Hiccup(p) ==
  /\ Up(p) /\ sock.type \in Subs \cup {"DISH"} /\ sock.pipe[p].st = "active"
  /\ LET q == sock.pipe[p]
         whole == {i \in DOMAIN (q.outq \o q.tail) : ~(q.outq \o q.tail)[i].more}
         s == [sock EXCEPT !.pipe[p] = [q EXCEPT !.outq = <<>>, !.tail = <<>>, !.outAct = TRUE,
                                                 !.unread = q.unread - Cardinality(whole)]]
         r == IF sock.type = "DISH" THEN DishHiccuped(s, p) ELSE XSubHiccuped(s, p)
     IN /\ Becomes(r)
        /\ peer' = [peer EXCEPT ![p].knows = {},
                                ![p].deaf = @ \/ ~q.outAct,
                                ![p].lost = Unsaid(r, p)]
  /\ UNCHANGED app

------------------------------------------------------------------------------
(* The commands of the peer's end, in the order it sent them.              *)
Process(p, cmd) ==
  /\ cmd \in sock.pipe[p].cmds
  /\ cmd = "pipe_term" => sock.pipe[p].cmds = {cmd}

Taken(p, cmd) == [sock EXCEPT !.pipe[p].cmds = @ \ {cmd}]

ProcessActivateRead(p) ==
  /\ Process(p, "activate_read")
  /\ LET s == Taken(p, "activate_read")
         q == sock.pipe[p]
     IN IF q.inAct \/ ~Reading(q) THEN sock' = s
        ELSE Becomes(XReadActivated([s EXCEPT !.pipe[p].inAct = TRUE], p))
  /\ UNCHANGED <<app, peer>>

ProcessActivateWrite(p) ==
  /\ Process(p, "activate_write")
  /\ LET q == sock.pipe[p]
         all == q.outq \o q.tail
         s == [Taken(p, "activate_write") EXCEPT
                 !.pipe[p].unread = Cardinality({i \in DOMAIN all : ~all[i].more})]
     IN IF q.outAct \/ q.st # "active" THEN sock' = s /\ UNCHANGED peer
        ELSE /\ Becomes(XWriteActivated([s EXCEPT !.pipe[p].outAct = TRUE], p))
             /\ peer' = [peer EXCEPT ![p].deaf = FALSE]
  /\ UNCHANGED app

ProcessPipeTerm(p) ==
  /\ Process(p, "pipe_term")
  /\ LET s == Taken(p, "pipe_term")
     IN sock' = [s EXCEPT !.pipe[p].st =
                   IF s.pipe[p].st = "active" /\ sock.type \notin NoDelay
                   THEN "waiting" ELSE "dead"]
  /\ UNCHANGED <<app, peer>>

(* process_pipe_term_ack(): both ends agree.                               *)
PipeTerminated(p) ==
  /\ sock.pipe[p].st = "dead"
  /\ \E r \in {XTerminated(sock, p)} :
       Becomes([r EXCEPT !.pipe[p] = NewPipe("none", r.pipe[p].hwm)])
  /\ peer' = [peer EXCEPT ![p] = NewPeer]
  /\ app' = [app EXCEPT !.passed[p] = 0, !.refused = @ \ {p}]

Commands == \E p \in Pipes :
  ProcessActivateRead(p) \/ ProcessActivateWrite(p) \/ ProcessPipeTerm(p) \/ PipeTerminated(p)

Peers == \E p \in Pipes :
  \/ Attach(p) \/ TellIdentity(p) \/ PeerSends(p) \/ PeerReplies(p)
  \/ PeerTakes(p) \/ PeerLeaves(p) \/ Hiccup(p)
  \/ \E m \in sock.topics, on \in BOOLEAN : PeerSubscribes(p, m, on)

Next == Send \/ Recv \/ Poll \/ Peers \/ Commands

Spec == Init /\ [][Next]_vars

------------------------------------------------------------------------------
OutFrames(p) == sock.pipe[p].outq \o sock.pipe[p].tail

(* Every message goes whole to one pipe, and comes whole from one pipe,    *)
(* whoever leaves in the middle of it and however full the pipes are: what *)
(* is flushed ends with a message, and each part follows the one before.   *)
Whole ==
  /\ ~app.torn
  /\ \A p \in Pipes :
       LET fs == OutFrames(p)
           n  == Len(sock.pipe[p].outq)
       IN /\ n > 0 => ~fs[n].more
          /\ \A i \in 2..Len(fs) : Continues(fs[i - 1], fs[i])

(* What is addressed to a peer goes to that peer and to no other that has  *)
(* come in its place: a ROUTER's, SERVER's or STREAM's message to the one  *)
(* it names, a REP's reply to one who has asked and not been answered.     *)
(* What is received is the reply to the last request, if requests are      *)
(* numbered, and on a topic that is subscribed to.                         *)
Addressed ==
  /\ ~app.stray
  /\ \A p \in Pipes : \A i \in DOMAIN OutFrames(p) :
       LET f == OutFrames(p)[i]
       IN /\ f.kind = "body" /\ sock.type \in Routers \cup Serving => f.m \in {p, IdOf(p)}
          /\ sock.type = "REP" => peer[p].asked # <<>>

(* No pipe is forgotten: one that has something to read is in the turn of  *)
(* fair queueing, and one that has room in that of load balancing, or may  *)
(* be published or routed to, unless the peer's command that says so is    *)
(* still to be processed.  One kind is: dist_t never hears of the room     *)
(* that process_hiccup() makes in a full pipe of an XSUB, SUB or DISH,     *)
(* which sets out_active without write_activated() (pipe.cpp:295); such a  *)
(* pipe is deaf until a write to it fails and its peer has read.           *)
NothingForgotten ==
  \A p \in Pipes :
    LET q == sock.pipe[p]
        room == q.st = "active" /\ Cardinality({i \in DOMAIN OutFrames(p) :
                                     ~OutFrames(p)[i].more}) < q.hwm
    IN /\ /\ sock.type \in FairQ /\ Reading(q) /\ q.inq # <<>>
          /\ ~(sock.type \in Routers /\ p \in sock.t.anon)
          => \/ p \in First(sock.fq.pipes, sock.fq.active)
             \/ "activate_read" \in q.cmds
       /\ sock.type \in Balance /\ room
          => \/ p \in First(sock.lb.pipes, sock.lb.active)
             \/ "activate_write" \in q.cmds
       /\ sock.type \in Dists /\ room /\ ~peer[p].deaf
          => \/ p \in First(sock.dist.pipes, sock.dist.eligible)
             \/ "activate_write" \in q.cmds
       /\ sock.type \in Routers \cup Serving /\ room
          => \A o \in sock.t.outs : o.pipe = p => o.active \/ "activate_write" \in q.cmds

(* Fair queueing is fair: a message that waits is passed by at most as     *)
(* many as there are other pipes.                                          *)
Fair == \A p \in Pipes : app.passed[p] < Cardinality(sock.pipes)

(* No assertion of the sockets fails: the pipes are where their tables say *)
(* they are, a message once begun is all there, and what a pipe cancels it *)
(* had subscribed to.                                                      *)
NoAbort == ~sock.failed

(* A message would now reach those peers that want it, are listened to and *)
(* have room, and no others, whatever has come and gone in the tries and   *)
(* in the array of dist_t; with ZMQ_XPUB_NODROP all that want it.  One     *)
(* exception: what NODROP has refused leaves its peers marked              *)
(* (xpub.cpp:245), and they get the next message too.                      *)
Wants(p, m) == \E t \in peer[p].knows : IF sock.type = "RADIO" THEN t \in {m, <<>>}
                                         ELSE IsPrefix(t, m)
Published ==
  sock.type \in Pubs \cup {"RADIO"} /\ app.todo = <<>> =>
    \A m \in sock.topics :
      LET r == XSend(sock, Body(m, 1, FALSE))
      IN r.rc = "ok" =>
           \A p \in Pipes :
             sock.pipe[p].st # "none" /\ sock.pipe[p].inq = <<>> =>
               LET q     == sock.pipe[p]
                   wants == Wants(p, m) # ("invert" \in sock.opts)
               IN /\ Grew(sock, r, p) = 1 <=> HasRoom(q) /\ (wants \/ p \in app.refused)
                  /\ "nodrop" \in sock.opts /\ q.st = "active" /\ wants => HasRoom(q)

(* A publisher knows, or is on the way to know, of each topic whether its  *)
(* subscriber has subscribed to it, but for those of which the last word   *)
(* was lost to a full pipe (xsub.cpp:244-250, dist_t::write()) or to one   *)
(* that is deaf since a hiccup (NothingForgotten); and the user of an XPUB *)
(* who has read everything knows what all its subscribers want.            *)
RECURSIVE LearnsAll(_, _)
LearnsAll(knows, fs) ==
  IF fs = <<>> THEN knows ELSE LearnsAll(Learns(knows, Head(fs)), Tail(fs))

Told ==
  /\ sock.type \in Subs \cup {"DISH"} =>
       \A p \in Pipes :
         sock.pipe[p].st = "active" =>
           \A m \in sock.topics \ peer[p].lost :
             m \in LearnsAll(peer[p].knows, OutFrames(p)) <=> app.count[m] > 0
  /\ /\ sock.type = "XPUB" /\ sock.t.pending = <<>>
     /\ \A p \in Pipes : sock.pipe[p].inq = <<>>
     => app.topics \ {<<>>} = UNION {peer[p].knows \ {<<>>} :
                                        p \in {q \in Pipes : sock.pipe[q].st # "none"}}

------------------------------------------------------------------------------


(* Publisher and subscriber agree on what is subscribed to, and that       *)
(* decides who gets a message (xpub_t, xsub_t, radio_t, dish_t).           *)
Subscribed == Published /\ Told
=============================================================================
