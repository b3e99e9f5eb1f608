------------------------------- MODULE Queues -------------------------------
(***************************************************************************)
(* How a socket uses its pipes: the socket's end of a pipe (pipe.cpp), and *)
(* the three ways to share messages among several: fair queueing of what   *)
(* comes in (fq.cpp), balancing the load of what goes out (lb.cpp), and a  *)
(* copy to each pipe that matches (dist.cpp).  All three keep an array     *)
(* whose first `active' pipes are those with something to read, or room.   *)
(*                                                                         *)
(* An operation maps a socket to a socket.  What it returns is in the      *)
(* fields rc, msg (the frame it read) and via (the pipe it used).          *)
(***************************************************************************)
EXTENDS Integers, Sequences, FiniteSets

CONSTANT Pipes

NoPipe == "none"

Frame(kind, m, part, more) == [kind |-> kind, m |-> m, part |-> part, more |-> more]

NoFrame   == Frame("none", "", 0, FALSE)
Delimiter == Frame("delimiter", "", 0, FALSE)

Ok(s)      == [s EXCEPT !.rc = "ok"]
Fail(s, e) == [s EXCEPT !.rc = e]

(* What comes next, unless the operation before has failed.                *)
IfOk(s, GoOn(_)) == IF s.rc = "ok" THEN GoOn(s) ELSE s

------------------------------------------------------------------------------
(* The socket's end of a pipe.  st: "none" before it is attached and after *)
(* its termination, "active", "waiting" for the delimiter, "delimited",    *)
(* and "dead" once it has sent its request or acknowledgement.  inq is     *)
(* what the peer has flushed, outq what the socket has, tail what it has   *)
(* written and not flushed; unread counts messages the peer may not have   *)
(* read yet.                                                               *)
NewPipe(st, hwm) == [st |-> st, hwm |-> hwm, inq |-> <<>>, inAct |-> TRUE, outq |-> <<>>,
                tail |-> <<>>, outAct |-> TRUE, unread |-> 0, cmds |-> {}]

Reading(q) == q.st \in {"active", "waiting"}
HasRoom(q) == q.st = "active" /\ q.outAct /\ q.unread < q.hwm

(* read(): nothing to read puts the end to sleep, the delimiter ends it.   *)
ReadPipe(s, p) ==
  LET q == s.pipe[p]
  IN IF ~q.inAct \/ ~Reading(q) THEN Fail(s, "EAGAIN")
     ELSE IF q.inq = <<>>
       THEN [s EXCEPT !.rc = "EAGAIN", !.pipe[p].inAct = FALSE]
     ELSE IF Head(q.inq).kind = "delimiter"
       THEN [s EXCEPT !.rc = "EAGAIN", !.pipe[p].inq = <<>>,
                      !.pipe[p].st = IF q.st = "active" THEN "delimited" ELSE "dead"]
     ELSE [s EXCEPT !.rc = "ok", !.msg = Head(q.inq), !.via = p,
                    !.pipe[p].inq = Tail(q.inq)]

CheckRead(s, p) ==
  LET r == ReadPipe(s, p) IN IF r.rc = "ok" THEN Ok(s) ELSE r

CheckWrite(s, p) ==
  LET q == s.pipe[p]
  IN IF HasRoom(q) THEN Ok(s)
     ELSE IF q.st = "active"
       THEN [s EXCEPT !.rc = "EAGAIN", !.pipe[p].outAct = FALSE]
     ELSE Fail(s, "EAGAIN")

WritePipe(s, p, f) ==
  IfOk(CheckWrite(s, p), LAMBDA c :
    [c EXCEPT !.via = p, !.pipe[p].tail = Append(@, f),
              !.pipe[p].unread = IF f.more THEN @ ELSE @ + 1])

FlushPipe(s, p) ==
  LET q == s.pipe[p]
  IN IF q.st = "dead" THEN s
     ELSE [s EXCEPT !.pipe[p].outq = q.outq \o q.tail, !.pipe[p].tail = <<>>]

RollbackPipe(s, p) == [s EXCEPT !.pipe[p].tail = <<>>]

(* terminate(): what is unread is lost, unless the peer has asked already  *)
(* and we had agreed to wait.                                              *)
TerminatePipe(s, p, delay) ==
  LET q == s.pipe[p]
  IN IF q.st = "dead" \/ (q.st = "waiting" /\ delay) THEN RollbackPipe(s, p)
     ELSE [s EXCEPT !.pipe[p].st = "dead", !.pipe[p].tail = <<>>]

------------------------------------------------------------------------------
(* array_t, with indices from 0.                                           *)
At(a, i)       == a[i + 1]
Index(a, p)    == (CHOOSE i \in DOMAIN a : a[i] = p) - 1
Swap(a, i, j)  == [a EXCEPT ![i + 1] = At(a, j), ![j + 1] = At(a, i)]
Erase(a, p)    == SubSeq([a EXCEPT ![Index(a, p) + 1] = a[Len(a)]], 1, Len(a) - 1)
Members(a)     == {a[i] : i \in DOMAIN a}
First(a, n)    == {a[i] : i \in 1..n}

(* What fq_t and lb_t do with a pipe that has nothing, or no room, ...     *)
Deactivate(q) ==
  LET n == q.active - 1
  IN [q EXCEPT !.active = n, !.pipes = Swap(q.pipes, q.current, n),
               !.current = IF q.current = n THEN 0 ELSE q.current]

Activated(q, p) ==
  [q EXCEPT !.pipes = Swap(q.pipes, Index(q.pipes, p), q.active),
            !.active = q.active + 1]

Attached(q, p) == Activated([q EXCEPT !.pipes = Append(q.pipes, p)], p)

(* ... and with one that is terminated.                                    *)
Terminated(q, p) ==
  LET i == Index(q.pipes, p)
      n == q.active - 1
      a == IF i < q.active
             THEN [q EXCEPT !.active = n, !.pipes = Swap(q.pipes, i, n),
                            !.current = IF q.current = n THEN 0 ELSE q.current]
             ELSE q
  IN [a EXCEPT !.pipes = Erase(a.pipes, p)]

------------------------------------------------------------------------------
(* fq_t                                                                    *)
NewFq == [pipes |-> <<>>, active |-> 0, current |-> 0, more |-> FALSE]

(* After the last part of a message it is the next pipe's turn.            *)
Turn(q, more) == IF more THEN q.current ELSE (q.current + 1) % q.active

(* recvpipe(): the assertion is that a message, once begun, is all there.  *)
RECURSIVE FqRecv(_)
FqRecv(s) ==
  IF s.fq.active = 0 THEN Fail(s, "EAGAIN")
  ELSE LET r == ReadPipe(s, At(s.fq.pipes, s.fq.current))
       IN IF r.rc # "ok"
            THEN FqRecv([r EXCEPT !.fq = Deactivate(s.fq),
                                  !.failed = r.failed \/ s.fq.more])
          ELSE [r EXCEPT !.fq.more = r.msg.more, !.fq.current = Turn(s.fq, r.msg.more)]

RECURSIVE FqHasIn(_)
FqHasIn(s) ==
  IF s.fq.more THEN Ok(s)
  ELSE IF s.fq.active = 0 THEN Fail(s, "EAGAIN")
  ELSE LET r == CheckRead(s, At(s.fq.pipes, s.fq.current))
       IN IF r.rc = "ok" THEN r ELSE FqHasIn([r EXCEPT !.fq = Deactivate(s.fq)])

------------------------------------------------------------------------------
(* lb_t                                                                    *)
NewLb == [pipes |-> <<>>, active |-> 0, current |-> 0, more |-> FALSE,
          dropping |-> FALSE]

(* sendpipe(): to the current pipe, or the next one that has room.  A part *)
(* after the first does not go to another pipe.                            *)
RECURSIVE LbWrite(_, _)
LbWrite(s, f) ==
  IF s.lb.active = 0 THEN Fail(s, "EAGAIN")
  ELSE LET p == At(s.lb.pipes, s.lb.current)
           r == WritePipe(s, p, f)
       IN IF r.rc = "ok"
            THEN IF f.more THEN [r EXCEPT !.lb.more = TRUE]
                 ELSE FlushPipe([r EXCEPT !.lb.more = FALSE,
                                   !.lb.current = IF s.lb.current + 1 < s.lb.active
                                                  THEN s.lb.current + 1 ELSE 0], p)
          ELSE IF s.lb.more
            THEN RollbackPipe([r EXCEPT !.lb.more = FALSE], p)
          ELSE LbWrite([r EXCEPT !.lb = Deactivate(s.lb)], f)

LbSend(s, f) ==
  IF s.lb.dropping
    THEN Ok([s EXCEPT !.lb.more = f.more, !.lb.dropping = f.more])
  ELSE LbWrite(s, f)

LbTerminated(s, p) ==
  [s EXCEPT !.lb = [Terminated(s.lb, p) EXCEPT
     !.dropping = s.lb.dropping \/ (s.lb.more /\ Index(s.lb.pipes, p) = s.lb.current)]]

RECURSIVE LbHasOut(_)
LbHasOut(s) ==
  IF s.lb.more THEN Ok(s)
  ELSE IF s.lb.active = 0 THEN Fail(s, "EAGAIN")
  ELSE LET r == CheckWrite(s, At(s.lb.pipes, s.lb.current))
       IN IF r.rc = "ok" THEN r ELSE LbHasOut([r EXCEPT !.lb = Deactivate(s.lb)])

------------------------------------------------------------------------------
(* dist_t: the pipes that match the message being sent come first, then    *)
(* the other active ones, then those that are eligible for the next one.   *)
NewDist == [pipes |-> <<>>, matching |-> 0, active |-> 0, eligible |-> 0,
            more |-> FALSE]

DistAttached(d, p) ==
  LET a == Append(d.pipes, p)
      n == Len(d.pipes)
  IN IF d.more THEN [d EXCEPT !.pipes = Swap(a, d.eligible, n),
                              !.eligible = d.eligible + 1]
     ELSE [d EXCEPT !.pipes = Swap(a, d.active, n), !.active = d.active + 1,
                    !.eligible = d.eligible + 1]

DistMatch(d, p) ==
  LET i == Index(d.pipes, p)
  IN IF i < d.matching \/ i >= d.eligible THEN d
     ELSE [d EXCEPT !.pipes = Swap(d.pipes, i, d.matching),
                    !.matching = d.matching + 1]

RECURSIVE DistMatchAll(_, _)
DistMatchAll(d, ps) ==
  IF ps = {} THEN d
  ELSE LET p == CHOOSE q \in ps : TRUE
       IN DistMatchAll(DistMatch(d, p), ps \ {p})

(* reverse_match(): the eligible ones that did not match do, and reversely.*)
ReverseMatch(d) ==
  [d EXCEPT !.pipes = SubSeq(d.pipes, d.matching + 1, d.eligible)
                      \o SubSeq(d.pipes, 1, d.matching)
                      \o SubSeq(d.pipes, d.eligible + 1, Len(d.pipes)),
            !.matching = d.eligible - d.matching]

DistUnmatch(d) == [d EXCEPT !.matching = 0]

DistTerminated(d, p) ==
  LET Out(e, n) == IF Index(e.pipes, p) < n
                     THEN Swap(e.pipes, Index(e.pipes, p), n - 1) ELSE e.pipes
      Less(e, n) == IF Index(e.pipes, p) < n THEN n - 1 ELSE n
      m == [d EXCEPT !.pipes = Out(d, d.matching), !.matching = Less(d, d.matching)]
      a == [m EXCEPT !.pipes = Out(m, m.active), !.active = Less(m, m.active)]
      e == [a EXCEPT !.pipes = Out(a, a.eligible), !.eligible = Less(a, a.eligible)]
  IN [e EXCEPT !.pipes = Erase(e.pipes, p)]

DistActivated(d, p) ==
  LET e == IF d.eligible < Len(d.pipes)
             THEN [d EXCEPT !.pipes = Swap(d.pipes, Index(d.pipes, p), d.eligible),
                            !.eligible = d.eligible + 1]
             ELSE d
  IN IF d.more \/ e.active = Len(e.pipes) THEN e
     ELSE [e EXCEPT !.pipes = Swap(e.pipes, e.eligible - 1, e.active),
                    !.active = e.active + 1]

(* A pipe without room is neither matching, active nor eligible.           *)
DistDrop(d, p) ==
  LET a == Swap(d.pipes, Index(d.pipes, p), d.matching - 1)
      b == Swap(a, Index(a, p), d.active - 1)
  IN [d EXCEPT !.pipes = Swap(b, d.active - 1, d.eligible - 1),
               !.matching = d.matching - 1, !.active = d.active - 1,
               !.eligible = d.eligible - 1]

(* distribute(): from the i-th matching pipe on.                           *)
RECURSIVE Distribute(_, _, _)
Distribute(s, f, i) ==
  IF i >= s.dist.matching THEN s
  ELSE LET p == At(s.dist.pipes, i)
           r == WritePipe(s, p, f)
       IN IF r.rc = "ok"
            THEN Distribute(IF f.more THEN r ELSE FlushPipe(r, p), f, i + 1)
          ELSE Distribute([r EXCEPT !.dist = DistDrop(s.dist, p)], f, i)

SendToMatching(s, f) ==
  LET Sent(r) == [r EXCEPT !.rc = "ok", !.dist.more = f.more,
                           !.dist.active = IF f.more THEN @ ELSE r.dist.eligible]
  IN Sent(Distribute(s, f, 0))

SendToAll(s, f) ==
  SendToMatching([s EXCEPT !.dist.matching = s.dist.active], f)

CheckHwm(s) == \A p \in First(s.dist.pipes, s.dist.matching) : s.pipe[p].unread < s.pipe[p].hwm
=============================================================================
