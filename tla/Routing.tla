------------------------------ MODULE Routing -------------------------------
(***************************************************************************)
(* The sockets that know their peers by an identity (router.cpp, rep.cpp,  *)
(* server.cpp, stream.cpp) and the one that waits for a reply (req.cpp):   *)
(* their tables of peers and their machines of message parts, in the field *)
(* t of the socket.  An automatic identity is the name of the pipe.        *)
(***************************************************************************)
EXTENDS Queues

FqAttach(s, p) == [s EXCEPT !.fq = Attached(s.fq, p)]

------------------------------------------------------------------------------
(* router_t.  outs: who can be sent to; anon: pipes that have not told who *)
(* they are; in, out: the pipe of the message being received, or sent, and *)
(* moreIn, moreOut: whether it has further parts; pre: parts fetched ahead *)
(* of the user; kill: the pipe `in' has lost its identity to another.      *)
NewRouter == [outs |-> {}, anon |-> {}, in |-> NoPipe, moreIn |-> FALSE,
              kill |-> FALSE, out |-> NoPipe, moreOut |-> FALSE, pre |-> <<>>,
              sending |-> FALSE, begins |-> TRUE]

Peer(id, p, active) == [id |-> id, pipe |-> p, active |-> active]
Of(s, p)    == CHOOSE o \in s.t.outs : o.pipe = p
Named(s, i) == {o \in s.t.outs : o.id = i}
Owner(s, i) == IF Named(s, i) = {} THEN NoPipe
               ELSE (CHOOSE o \in Named(s, i) : TRUE).pipe

SetActive(s, p, b) ==
  [s EXCEPT !.t.outs = {IF o.pipe = p THEN [o EXCEPT !.active = b] ELSE o : o \in s.t.outs}]

AddPeer(s, id, p) == Ok([s EXCEPT !.t.outs = s.t.outs \cup {Peer(id, p, TRUE)}])

(* With ZMQ_ROUTER_HANDOVER the newcomer takes the identity, and the pipe  *)
(* that had it is terminated, once the message being read from it is over. *)
Handover(s, o) ==
  LET r == [s EXCEPT !.t.outs = (s.t.outs \ {o}) \cup {Peer(o.pipe, o.pipe, o.active)}]
  IN IF o.pipe = s.t.in THEN [r EXCEPT !.t.kill = TRUE]
     ELSE TerminatePipe(r, o.pipe, TRUE)

IdentifyPeer(s, p) ==
  IfOk(ReadPipe(s, p), LAMBDA r :
    LET id   == IF r.msg.m = "" THEN p ELSE r.msg.m
        dups == Named(r, id)
    IN IF dups = {} THEN AddPeer(r, id, p)
       ELSE IF "handover" \notin s.opts THEN Fail(r, "EAGAIN")
       ELSE AddPeer(Handover(r, CHOOSE o \in dups : TRUE), id, p))

RouterAttach(s, p) ==
  LET r == IdentifyPeer(s, p)
  IN IF r.rc = "ok" THEN FqAttach(r, p)
     ELSE [r EXCEPT !.t.anon = r.t.anon \cup {p}]

RouterReadActivated(s, p) ==
  IF p \notin s.t.anon THEN [s EXCEPT !.fq = Activated(s.fq, p)]
  ELSE IfOk(IdentifyPeer(s, p), LAMBDA r : FqAttach([r EXCEPT !.t.anon = @ \ {p}], p))

PeerWriteActivated(s, p) ==
  IF \E o \in s.t.outs : o.pipe = p /\ ~o.active THEN SetActive(s, p, TRUE)
  ELSE [s EXCEPT !.failed = TRUE]

PeerTerminated(s, p) ==
  IF p \notin {o.pipe : o \in s.t.outs} THEN [s EXCEPT !.failed = TRUE]
  ELSE [s EXCEPT !.t.outs = s.t.outs \ {Of(s, p)}, !.fq = Terminated(s.fq, p),
                 !.t.out = IF s.t.out = p THEN NoPipe ELSE s.t.out]

RouterTerminated(s, p) ==
  IF p \in s.t.anon THEN [s EXCEPT !.t.anon = s.t.anon \ {p}]
  ELSE PeerTerminated(s, p)

(* The first part of what is sent names the peer.                          *)
RouterAddress(s, f) ==
  LET r == CheckWrite(s, Owner(s, f.m))
  IN IF s.t.out # NoPipe THEN [s EXCEPT !.failed = TRUE]
     ELSE IF ~f.more THEN Ok(s)
     ELSE IF Owner(s, f.m) = NoPipe
       THEN IF "mandatory" \in s.opts THEN Fail(s, "EHOSTUNREACH")
            ELSE Ok([s EXCEPT !.t.moreOut = TRUE])
     ELSE IF r.rc = "ok"
       THEN [r EXCEPT !.t.moreOut = TRUE, !.t.out = Owner(s, f.m)]
     ELSE IF "mandatory" \in s.opts
       THEN SetActive(r, Owner(s, f.m), FALSE)
     ELSE Ok([SetActive(r, Owner(s, f.m), FALSE) EXCEPT !.t.moreOut = TRUE])

(* The others follow, or are dropped if there is no one to send them to.   *)
RouterSend(s, f) ==
  IF ~s.t.moreOut THEN RouterAddress(s, f)
  ELSE LET a == [s EXCEPT !.t.moreOut = f.more]
           r == WritePipe(a, s.t.out, f)
       IN IF s.t.out = NoPipe THEN Ok(a)
          ELSE IF r.rc # "ok" THEN Ok([r EXCEPT !.t.out = NoPipe])
          ELSE IF f.more THEN r
          ELSE FlushPipe([r EXCEPT !.t.out = NoPipe], s.t.out)

RouterRollback(s) ==
  IF s.t.out = NoPipe THEN s
  ELSE [RollbackPipe(s, s.t.out) EXCEPT !.t.out = NoPipe, !.t.moreOut = FALSE]

(* The end of the message being received.                                  *)
PartRead(s) ==
  LET r == IF s.t.kill /\ ~s.msg.more
             THEN TerminatePipe([s EXCEPT !.t.kill = FALSE], s.t.in, TRUE) ELSE s
  IN [r EXCEPT !.t.moreIn = s.msg.more,
               !.t.in = IF s.msg.more THEN s.t.in ELSE NoPipe]

(* Identities that come after a reconnection are skipped.                  *)
RECURSIVE SkipIdentities(_)
SkipIdentities(s) ==
  LET r == FqRecv(s)
  IN IF r.rc = "ok" /\ r.msg.kind = "id" THEN SkipIdentities(r) ELSE r

Identity(s, p) == Frame("id", Of(s, p).id, 0, TRUE)

RouterRecv(s) ==
  IF s.t.pre # <<>>
    THEN PartRead(Ok([s EXCEPT !.msg = Head(s.t.pre), !.t.pre = Tail(s.t.pre)]))
  ELSE IfOk(SkipIdentities(s), LAMBDA r :
    IF s.t.moreIn THEN PartRead(r)
    ELSE [r EXCEPT !.t.pre = <<r.msg>>, !.t.in = r.via, !.msg = Identity(r, r.via)])

RouterHasIn(s) ==
  IF s.t.moreIn \/ s.t.pre # <<>> THEN Ok(s)
  ELSE IfOk(SkipIdentities(s), LAMBDA r :
    [r EXCEPT !.t.pre = <<Identity(r, r.via), r.msg>>, !.t.in = r.via])

------------------------------------------------------------------------------
(* rep_t: the labels of a request, down to the empty part, are copied to   *)
(* the reply before the user gets the rest.                                *)
RECURSIVE RepLabels(_)
RepLabels(s) ==
  IfOk(RouterRecv(s), LAMBDA r :
    IF ~r.msg.more THEN RepLabels(RouterRollback(r))
    ELSE IF r.msg.kind = "empty" THEN RouterSend(r, r.msg)
    ELSE RepLabels(RouterSend(r, r.msg)))

RepRecv(s) ==
  IF s.t.sending THEN Fail(s, "EFSM")
  ELSE IfOk(IF s.t.begins THEN RepLabels(s) ELSE Ok(s), LAMBDA l :
    IfOk(RouterRecv([l EXCEPT !.t.begins = FALSE]), LAMBDA r :
      IF r.msg.more THEN r ELSE [r EXCEPT !.t.sending = TRUE, !.t.begins = TRUE]))

RepSend(s, f) ==
  IF ~s.t.sending THEN Fail(s, "EFSM")
  ELSE IfOk(RouterSend(s, f), LAMBDA r : [r EXCEPT !.t.sending = f.more])

------------------------------------------------------------------------------
(* server_t and stream_t.  A SERVER's message is of one part and carries   *)
(* the peer's routing id; others that come are dropped.                    *)
NewServer == [outs |-> {}, out |-> NoPipe, moreOut |-> FALSE, pre |-> <<>>]

ServerAttach(s, p) == FqAttach(AddPeer(s, p, p), p)

ServerSend(s, f) ==
  LET p == Owner(s, f.m)
      r == CheckWrite(s, p)
  IN IF f.more THEN Fail(s, "EINVAL")
     ELSE IF p = NoPipe THEN Fail(s, "EHOSTUNREACH")
     ELSE IF r.rc # "ok" THEN SetActive(r, p, FALSE)
     ELSE FlushPipe(WritePipe(s, p, f), p)

(* gather_t, client_t and server_t drop what has several parts: the rest   *)
(* of a message whose first part is in r is read too.                      *)
RECURSIVE SinglePart(_)
SinglePart(r) ==
  LET n == FqRecv(r)
  IN IF r.rc # "ok" \/ ~r.msg.more THEN r
     ELSE IF n.rc = "ok" /\ ~n.msg.more THEN SinglePart(FqRecv(n))
     ELSE SinglePart(n)

StreamSend(s, f) ==
  LET p == Owner(s, f.m)
      r == CheckWrite(s, p)
      w == WritePipe(s, s.t.out, f)
      a == [s EXCEPT !.t.moreOut = FALSE, !.t.out = NoPipe]
  IN IF ~s.t.moreOut
       THEN IF f.more /\ p = NoPipe THEN Fail(s, "EHOSTUNREACH")
            ELSE IF f.more /\ r.rc # "ok" THEN SetActive(r, p, FALSE)
            ELSE Ok([s EXCEPT !.t.moreOut = TRUE, !.t.out = IF f.more THEN p ELSE NoPipe])
     ELSE IF s.t.out = NoPipe THEN Ok(a)
     ELSE IF f.kind = "empty" THEN Ok(TerminatePipe(a, s.t.out, FALSE))
     ELSE IF w.rc # "ok" THEN Ok(a)
     ELSE FlushPipe([w EXCEPT !.t.moreOut = FALSE, !.t.out = NoPipe], s.t.out)

StreamRecv(s) ==
  IF s.t.pre # <<>>
    THEN Ok([s EXCEPT !.msg = Head(s.t.pre), !.t.pre = Tail(s.t.pre)])
  ELSE IfOk(FqRecv(s), LAMBDA r :
    [r EXCEPT !.failed = @ \/ r.msg.more, !.t.pre = <<r.msg>>, !.msg = Identity(r, r.via)])

StreamHasIn(s) ==
  IF s.t.pre # <<>> THEN Ok(s)
  ELSE IfOk(FqRecv(s), LAMBDA r :
    [r EXCEPT !.failed = @ \/ r.msg.more, !.t.pre = <<Identity(r, r.via), r.msg>>])

------------------------------------------------------------------------------
(* req_t: receiving a reply or not, at the beginning of a message or not,  *)
(* the pipe the request went to, and the number of the request, sent ahead *)
(* of it with ZMQ_REQ_CORRELATE.                                           *)
NewReq == [receiving |-> FALSE, begins |-> TRUE, reply |-> NoPipe, id |-> 0]

RECURSIVE Drain(_)
Drain(s) == LET r == FqRecv(s) IN IF r.rc = "ok" THEN Drain(r) ELSE r

(* The request number, the bottom, and nothing that came before is kept.   *)
ReqBegin(s) ==
  LET a == [s EXCEPT !.t.reply = NoPipe]
  IN IfOk(IF "correlate" \in s.opts
            THEN LbSend([a EXCEPT !.t.id = @ + 1], Frame("number", s.t.id + 1, 0, TRUE))
            ELSE Ok(a), LAMBDA n :
     IfOk(LbSend(n, Frame("empty", "", 0, TRUE)), LAMBDA b :
       Ok(Drain([b EXCEPT !.t.reply = b.via, !.t.begins = FALSE,
                          !.failed = @ \/ b.via = NoPipe]))))

ReqSend(s, f) ==
  LET a == IF s.t.receiving THEN [s EXCEPT !.t.receiving = FALSE, !.t.begins = TRUE] ELSE s
  IN IF s.t.receiving /\ "relaxed" \notin s.opts THEN Fail(s, "EFSM")
     ELSE IfOk(IF a.t.begins THEN ReqBegin(a) ELSE Ok(a), LAMBDA b :
       IfOk(LbSend(b, f), LAMBDA r :
         IF f.more THEN r ELSE [r EXCEPT !.t.receiving = TRUE, !.t.begins = TRUE]))

(* recv_reply_pipe(): what other pipes than the one of the request deliver *)
(* is dropped.                                                             *)
RECURSIVE RecvReply(_)
RecvReply(s) ==
  LET r == FqRecv(s)
  IN IF r.rc # "ok" \/ s.t.reply \in {NoPipe, r.via} THEN r ELSE RecvReply(r)

RECURSIVE SkipReply(_)
SkipReply(s) ==
  LET r == RecvReply(s)
  IN IF ~s.msg.more THEN s
     ELSE IF r.rc # "ok" THEN [r EXCEPT !.failed = TRUE] ELSE SkipReply(r)

Correlates(s, f) == f.more /\ f.kind = "number" /\ f.m = s.t.id

(* Replies are skipped until one begins with the number, and the bottom.   *)
RECURSIVE ReplyBegin(_)
ReplyBegin(s) ==
  IfOk(IF "correlate" \in s.opts THEN RecvReply(s) ELSE Ok(s), LAMBDA n :
    IF "correlate" \in s.opts /\ ~Correlates(s, n.msg) THEN ReplyBegin(SkipReply(n))
    ELSE IfOk(RecvReply(n), LAMBDA b :
      IF ~b.msg.more \/ b.msg.kind # "empty" THEN ReplyBegin(SkipReply(b))
      ELSE [b EXCEPT !.t.begins = FALSE]))

ReqRecv(s) ==
  IF ~s.t.receiving THEN Fail(s, "EFSM")
  ELSE IfOk(IF s.t.begins THEN ReplyBegin(s) ELSE Ok(s), LAMBDA b :
    IfOk(RecvReply(b), LAMBDA r :
      IF r.msg.more THEN r ELSE [r EXCEPT !.t.receiving = FALSE, !.t.begins = TRUE]))
=============================================================================
