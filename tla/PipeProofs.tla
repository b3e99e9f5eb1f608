----------------------------- MODULE PipeProofs -----------------------------
(***************************************************************************)
(* Theorems about Pipe, for every high-water mark and every number of      *)
(* messages, frames and hiccups.                                           *)
(***************************************************************************)
EXTENDS Pipe, FiniteSetTheorems, SequenceTheorems, TLAPS

(* The queues that the session reads, one after the other.                 *)
SessionQueues == {"session"} \X (0 .. MaxHiccups)

(* The commands that pipes send each other.                                *)
Command ==
  [cmd : {"activate_read", "pipe_term", "pipe_term_ack"}, arg : {0}]
    \cup [cmd : {"activate_write"}, arg : Nat] \cup [cmd : {"hiccup"}, arg : SessionQueues]

Counts == [read : Nat, written : Int, peersRead : Nat]
Frame  == [msg : Nat, part : Nat, more : BOOLEAN]
Queue  == [flushed : Seq(Frame), written : Seq(Frame), partial : Seq(Frame),
           asleep : BOOLEAN, memory : {"none", "live", "freed"}]

(* The types of all variables but those of the history.                    *)
Typed ==
  /\ state \in [Ends -> States]
  /\ delay \subseteq Ends /\ inactive \subseteq Ends /\ stopped \subseteq Ends
  /\ inpipe \in [Ends -> Queues \cup {None}] /\ outpipe \in [Ends -> Queues \cup {None}]
  /\ counts \in [Ends -> Counts]
  /\ ypipe \in [Queues -> Queue]
  /\ mbox \in [Ends -> Seq(Command)]
  /\ sent \in [Ends -> Nat] /\ (\A e \in Ends : sent[e] <= MaxMsgs[e])
  /\ begun \in [Ends -> Nat] /\ (\A e \in Ends : begun[e] <= MaxFrames[e])
  /\ got \in [Ends -> Seq(Frame)]
  /\ asked \subseteq Ends /\ drained \subseteq Ends

(* A mailbox holds a command, or a hiccup that announces queue n.          *)
Holds(box, c)   == \E k \in 1 .. Len(box) : box[k].cmd = c
Carries(box, n) == \E k \in 1 .. Len(box) :
                      box[k].cmd = "hiccup" /\ box[k].arg = <<"session", n>>

(* In every mailbox the acknowledgement comes last, no hiccup follows the  *)
(* request to terminate, and hiccups announce newer and newer queues.      *)
Ordered(box) ==
  \A j, k \in 1 .. Len(box) : j < k =>
    /\ box[j].cmd # "pipe_term_ack"
    /\ box[j].cmd = "pipe_term" => box[k].cmd \notin {"pipe_term", "hiccup"}
    /\ box[j].cmd = "hiccup" /\ box[k].cmd = "hiccup" => box[j].arg[2] < box[k].arg[2]

(* How far the two ends can be apart in their termination: the states the  *)
(* peer may be in.                                                         *)
PeersOf(s) ==
  CASE s \in {"active", "delimiter_received"} ->
         {"active", "delimiter_received", "term_req_sent1"}
    [] s = "waiting_for_delimiter" -> {"term_req_sent1"}
    [] s = "term_ack_sent"         -> {"term_req_sent1", "freed"}
    [] s = "term_req_sent1"        -> States \ {"freed"}
    [] s = "term_req_sent2"        -> {"term_req_sent1", "term_req_sent2", "freed"}
    [] s = "freed"                 -> {"term_ack_sent", "term_req_sent2", "freed"}

(* An end has asked, has given up its outgoing queue, has not answered.    *)
Requesting == {"term_req_sent1", "term_req_sent2"}
Gone       == {"term_ack_sent", "term_req_sent2", "freed"}
Unaware    == {"active", "delimiter_received", "term_req_sent1"}

(* The handshake of a termination: a request is in the mailbox as long as  *)
(* its sender has asked and its receiver does not know; an acknowledgement *)
(* as long as its sender has given up and its receiver waits for it.       *)
Handshake ==
  \A e \in Ends :
    /\ state[Peer(e)] \in PeersOf(state[e])
    /\ Holds(mbox[e], "pipe_term") <=> state[Peer(e)] \in Requesting /\ state[e] \in Unaware
    /\ Holds(mbox[e], "pipe_term_ack") <=>
         /\ state[Peer(e)] \in Gone
         /\ state[e] \in {"term_req_sent1", "term_req_sent2", "term_ack_sent"}
    /\ outpipe[e] = None <=> state[e] \in Gone
    /\ inpipe[e] = None <=> state[e] = "freed"
    /\ state[e] = "freed" => mbox[e] = <<>>
    /\ Ordered(mbox[e])

(* The newest queue of the session, and the oldest that is still in use.   *)
Newest == inpipe["session"][2]
Oldest == IF outpipe["socket"] = None THEN Newest ELSE outpipe["socket"][2]

(* The queues to the session: the hiccups under way announce one by one    *)
(* those that the socket does not know of yet.                             *)
Announced ==
  /\ inpipe["socket"] # None => inpipe["socket"] = <<"socket", 0>>
  /\ outpipe["session"] # None => outpipe["session"] = <<"socket", 0>>
  /\ inpipe["session"] # None => inpipe["session"][1] = "session"
  /\ outpipe["socket"] # None => outpipe["socket"][1] = "session"
  /\ ~Holds(mbox["session"], "hiccup")
  /\ Holds(mbox["socket"], "hiccup") => state["socket"] \in Unaware
  /\ state["session"] # "freed" =>
       /\ Oldest <= Newest
       /\ \A n \in 0 .. MaxHiccups : Carries(mbox["socket"], n) <=> n \in Oldest + 1 .. Newest

(* A queue is live while one of its two users may touch it.                *)
InUse(q) ==
  IF q[1] = "socket" THEN state["socket"] # "freed"
  ELSE state["session"] # "freed" /\ q[2] \in Oldest .. Newest
Memory == \A q \in Queues : ypipe[q].memory = "live" <=> InUse(q)

PipeInv == Typed /\ Handshake /\ Announced /\ Memory

-----------------------------------------------------------------------------
(* Mailboxes.                                                              *)

(* The ends, and the constants' types.                                     *)
LEMMA TwoEnds ==
  \A e \in Ends : /\ Peer(e) \in Ends /\ Peer(e) # e /\ Peer(Peer(e)) = e
                  /\ \A d \in Ends : d = e \/ d = Peer(e)
                  /\ e = "socket" <=> Peer(e) = "session"
                  /\ e = "session" <=> Peer(e) = "socket"
BY DEF Ends, Peer

(* A queue is something.                                                   *)
LEMMA SomeQueue == \A q \in Queues : q # None
<1> SUFFICES ASSUME NEW q \in Queues PROVE Len(q) = 2 /\ Len(None) = 0
  OBVIOUS
<1> QED BY DEF Queues, None

(* What a command is.                                                      *)
LEMMA CommandType ==
  /\ \A c \in Command : /\ c = [cmd |-> c.cmd, arg |-> c.arg]
                        /\ c.cmd = "hiccup" => c.arg \in SessionQueues /\ c.arg \in Queues
                        /\ c.cmd = "activate_write" => c.arg \in Nat
                        /\ c.cmd \in {"activate_read", "pipe_term", "pipe_term_ack",
                                      "activate_write", "hiccup"}
  /\ \A c \in {"activate_read", "pipe_term", "pipe_term_ack"} :
       Cmd(c, 0) \in Command /\ Cmd(c, 0).cmd = c
  /\ \A n \in Nat : Cmd("activate_write", n) \in Command
  /\ \A q \in SessionQueues : Cmd("hiccup", q) \in Command
BY DEF Command, Cmd, Queues, SessionQueues

(* A command is put at the end of a mailbox.                               *)
LEMMA AppendBox ==
  ASSUME NEW box \in Seq(Command), NEW c \in Command
  PROVE  /\ Append(box, c) \in Seq(Command) /\ Append(box, c) # <<>>
         /\ \A x : Holds(Append(box, c), x) <=> Holds(box, x) \/ c.cmd = x
         /\ \A n : Carries(Append(box, c), n) <=>
                    Carries(box, n) \/ (c.cmd = "hiccup" /\ c.arg = <<"session", n>>)
<1> DEFINE new == Append(box, c)
<1>1. /\ new \in Seq(Command) /\ new # <<>>
      /\ Len(new) = Len(box) + 1 /\ Len(box) \in Nat /\ new[Len(box) + 1] = c
      /\ \A k \in 1 .. Len(box) : new[k] = box[k] /\ k \in 1 .. Len(new)
  OBVIOUS
<1>2. \A k \in 1 .. Len(new) : k \in 1 .. Len(box) \/ k = Len(box) + 1
  BY <1>1
<1>3. Len(box) + 1 \in 1 .. Len(new)
  BY <1>1
<1> HIDE DEF new
<1>4. \A x : Holds(new, x) <=> Holds(box, x) \/ c.cmd = x
  BY <1>1, <1>2, <1>3 DEF Holds
<1>5. \A n : Carries(new, n) <=>
              Carries(box, n) \/ (c.cmd = "hiccup" /\ c.arg = <<"session", n>>)
  BY <1>1, <1>2, <1>3 DEF Carries
<1> QED BY <1>1, <1>4, <1>5 DEF new

(* Nothing is in an empty mailbox.                                         *)
LEMMA EmptyBox == \A x : ~Holds(<<>>, x) /\ ~Carries(<<>>, x)
BY DEF Holds, Carries

(* It comes after all the others.                                          *)
LEMMA AppendOrdered ==
  ASSUME NEW box \in Seq(Command), NEW c \in Command, Ordered(box),
         ~Holds(box, "pipe_term_ack"),
         c.cmd \in {"pipe_term", "hiccup"} => ~Holds(box, "pipe_term"),
         c.cmd = "hiccup" => \A k \in 1 .. Len(box) :
                                box[k].cmd = "hiccup" => box[k].arg[2] < c.arg[2]
  PROVE  Ordered(Append(box, c))
<1> DEFINE new == Append(box, c)
<1>1. /\ Len(new) = Len(box) + 1 /\ Len(box) \in Nat /\ new[Len(box) + 1] = c
      /\ \A k \in 1 .. Len(box) : new[k] = box[k]
  OBVIOUS
<1> HIDE DEF new
<1>2. ASSUME NEW j \in 1 .. Len(new), NEW k \in 1 .. Len(new), j < k
      PROVE  /\ new[j].cmd # "pipe_term_ack"
             /\ new[j].cmd = "pipe_term" => new[k].cmd \notin {"pipe_term", "hiccup"}
             /\ new[j].cmd = "hiccup" /\ new[k].cmd = "hiccup" => new[j].arg[2] < new[k].arg[2]
  <2>1. j \in 1 .. Len(box) /\ new[j] = box[j]
    BY <1>1, <1>2
  <2>2. box[j].cmd # "pipe_term_ack"
    BY <2>1 DEF Holds
  <2>3. CASE k \in 1 .. Len(box)
    BY <1>1, <1>2, <2>1, <2>3 DEF Ordered
  <2>4. CASE k = Len(box) + 1
    BY <1>1, <2>1, <2>2, <2>4 DEF Holds
  <2> QED BY <1>1, <2>3, <2>4
<1> QED BY <1>2 DEF Ordered, new

(* The first command is taken out.                                         *)
LEMMA TailBox ==
  ASSUME NEW box \in Seq(Command), box # <<>>, Ordered(box)
  PROVE  /\ Tail(box) \in Seq(Command) /\ Ordered(Tail(box))
         /\ Head(box) \in Command /\ Holds(box, Head(box).cmd)
         /\ \A x : Holds(box, x) <=> Holds(Tail(box), x) \/ Head(box).cmd = x
         /\ \A n : Carries(box, n) <=>
              Carries(Tail(box), n)
                \/ (Head(box).cmd = "hiccup" /\ Head(box).arg = <<"session", n>>)
         /\ Head(box).cmd = "pipe_term_ack" => Tail(box) = <<>>
         /\ Head(box).cmd = "pipe_term" =>
              ~Holds(Tail(box), "pipe_term") /\ ~Holds(Tail(box), "hiccup")
         /\ Head(box).cmd = "hiccup" =>
              \A k \in 1 .. Len(Tail(box)) :
                 Tail(box)[k].cmd = "hiccup" => Head(box).arg[2] < Tail(box)[k].arg[2]
<1> DEFINE new == Tail(box)
           h == Head(box)
<1>1. /\ new \in Seq(Command) /\ h = box[1] /\ h \in Command
      /\ Len(box) = Len(new) + 1 /\ Len(new) \in Nat
      /\ \A k \in 1 .. Len(new) : new[k] = box[k + 1]
      /\ Len(new) = 0 => new = <<>>
  <2>1. /\ new \in Seq(Command) /\ h = box[1] /\ h \in Command
        /\ Len(box) = Len(new) + 1 /\ Len(new) \in Nat
        /\ \A k \in 1 .. Len(new) : new[k] = box[k + 1]
    OBVIOUS
  <2>2. Len(new) = 0 => new = <<>>
    BY <2>1, EmptySeq
  <2> QED BY <2>1, <2>2
<1> HIDE DEF new, h
<1>2. \A k \in 1 .. Len(new) : k + 1 \in 1 .. Len(box) /\ 1 < k + 1
  BY <1>1
<1>3. 1 \in 1 .. Len(box) /\ \A k \in 1 .. Len(box) : k = 1 \/ k - 1 \in 1 .. Len(new)
  BY <1>1
<1>4. \A k \in 1 .. Len(box) : k # 1 => box[k] = new[k - 1]
  <2> TAKE k \in 1 .. Len(box)
  <2>1. k # 1 => k - 1 \in 1 .. Len(new) /\ (k - 1) + 1 = k
    BY <1>3
  <2> QED BY <1>1, <2>1
<1>5. Ordered(new)
  <2>1. ASSUME NEW j \in 1 .. Len(new), NEW k \in 1 .. Len(new), j < k
        PROVE  j + 1 < k + 1 /\ j + 1 \in 1 .. Len(box) /\ k + 1 \in 1 .. Len(box)
    BY <1>2, <2>1, <1>1
  <2> QED BY <1>1, <2>1 DEF Ordered
<1>6. \A x : Holds(box, x) <=> Holds(new, x) \/ h.cmd = x
  <2>1. ASSUME NEW x, Holds(box, x) PROVE Holds(new, x) \/ h.cmd = x
    BY <2>1, <1>1, <1>3, <1>4 DEF Holds
  <2>2. ASSUME NEW x, Holds(new, x) \/ h.cmd = x PROVE Holds(box, x)
    BY <2>2, <1>1, <1>2, <1>3 DEF Holds
  <2> QED BY <2>1, <2>2
<1>7. \A n : Carries(box, n) <=>
              Carries(new, n) \/ (h.cmd = "hiccup" /\ h.arg = <<"session", n>>)
  <2>1. ASSUME NEW n, Carries(box, n)
        PROVE  Carries(new, n) \/ (h.cmd = "hiccup" /\ h.arg = <<"session", n>>)
    BY <2>1, <1>1, <1>3, <1>4 DEF Carries
  <2>2. ASSUME NEW n, Carries(new, n) \/ (h.cmd = "hiccup" /\ h.arg = <<"session", n>>)
        PROVE  Carries(box, n)
    BY <2>2, <1>1, <1>2, <1>3 DEF Carries
  <2> QED BY <2>1, <2>2
<1>8. \A k \in 1 .. Len(new) :
        /\ h.cmd # "pipe_term_ack"
        /\ h.cmd = "pipe_term" => new[k].cmd \notin {"pipe_term", "hiccup"}
        /\ h.cmd = "hiccup" /\ new[k].cmd = "hiccup" => h.arg[2] < new[k].arg[2]
  BY <1>1, <1>2, <1>3 DEF Ordered
<1>9. h.cmd = "pipe_term_ack" => new = <<>>
  <2>1. h.cmd = "pipe_term_ack" => Len(new) = 0
    BY <1>1, <1>8
  <2> QED BY <1>1, <2>1
<1> QED BY <1>1, <1>5, <1>6, <1>7, <1>8, <1>9 DEF Holds, new, h

-----------------------------------------------------------------------------
(* Types.                                                                  *)

(* Counting messages gives a number.                                       *)
LEMMA WholeType == ASSUME NEW s \in Seq(Frame) PROVE Whole(s) \in Nat
<1> DEFINE K == {k \in DOMAIN s : ~s[k].more}
<1>1. IsFiniteSet(1 .. Len(s))
  BY FS_Interval
<1>2. K \subseteq 1 .. Len(s)
  OBVIOUS
<1>3. IsFiniteSet(K)
  BY <1>1, <1>2, FS_Subset
<1> QED BY <1>3, FS_CardinalityType DEF Whole

(* The fields of a queue, and what replacing them gives.                   *)
LEMMA QueueFields ==
  ASSUME NEW q \in Queue
  PROVE  /\ q.flushed \in Seq(Frame) /\ q.written \in Seq(Frame) /\ q.partial \in Seq(Frame)
         /\ \A s \in Seq(Frame) : /\ [q EXCEPT !.partial = s] \in Queue
                                  /\ [q EXCEPT !.flushed = s] \in Queue
         /\ \A s, t \in Seq(Frame) :
              /\ [q EXCEPT !.written = s, !.partial = t] \in Queue
              /\ [q EXCEPT !.flushed = s, !.written = t, !.asleep = FALSE] \in Queue
         /\ [q EXCEPT !.asleep = TRUE] \in Queue
BY DEF Queue

(* New queues, and those that are deallocated.                             *)
LEMMA EmptyQueues == NewQueue \in Queue /\ NoQueue \in Queue /\ \A q : YFree(q) \in Queue
<1>1. <<>> \in Seq(Frame)
  OBVIOUS
<1>2. NewQueue \in Queue
  BY <1>1 DEF NewQueue, Queue
<1>3. NoQueue \in Queue
  BY <1>1, <1>2 DEF NoQueue, Queue
<1>4. \A q : YFree(q) \in Queue
  BY <1>3 DEF YFree, Queue
<1> QED BY <1>2, <1>3, <1>4

(* Operations of a queue lead to queues, and leave the memory alone.       *)
LEMMA WriteOps ==
  ASSUME NEW q \in Queue
  PROVE  /\ \A f \in Frame : YWrite(q, f) \in Queue
         /\ YUnwrite(q) \in Queue /\ YFlush(q) \in Queue
<1>1. /\ <<>> \in Seq(Frame)
      /\ \A f \in Frame : /\ Append(q.partial, f) \in Seq(Frame)
                          /\ q.written \o q.partial \o <<f>> \in Seq(Frame)
      /\ q.flushed \o q.written \in Seq(Frame)
  <2>1. \A s, t \in Seq(Frame) : s \o t \in Seq(Frame)
    BY ConcatProperties
  <2>2. \A f \in Frame : <<f>> \in Seq(Frame)
    OBVIOUS
  <2>3. \A f \in Frame : Append(q.partial, f) \in Seq(Frame)
    BY QueueFields, AppendProperties
  <2>4. \A f \in Frame : q.written \o q.partial \o <<f>> \in Seq(Frame)
    BY <2>1, <2>2, QueueFields
  <2>5. q.flushed \o q.written \in Seq(Frame)
    BY <2>1, QueueFields
  <2> QED BY <2>3, <2>4, <2>5
<1>2. \A f \in Frame : YWrite(q, f) \in Queue
  BY <1>1, QueueFields DEF YWrite
<1>3. YUnwrite(q) \in Queue
  BY <1>1, QueueFields DEF YUnwrite
<1>4. YFlush(q) \in Queue
  BY <1>1, QueueFields DEF YFlush
<1> QED BY <1>2, <1>3, <1>4

LEMMA QueueOps ==
  ASSUME NEW q \in Queue
  PROVE  /\ \A f \in Frame : YWrite(q, f) \in Queue /\ YWrite(q, f).memory = q.memory
         /\ YUnwrite(q) \in Queue /\ YUnwrite(q).memory = q.memory
         /\ YFlush(q) \in Queue /\ YFlush(q).memory = q.memory
         /\ q.flushed # <<>> => YRead(q) \in Queue /\ YRead(q).memory = q.memory
         /\ YSleep(q) \in Queue /\ YSleep(q).memory = q.memory
         /\ YFree(q) \in Queue /\ YFree(q).memory = "freed"
         /\ YFlush(YWrite(YUnwrite(q), Delimiter)) \in Queue
         /\ YFlush(YWrite(YUnwrite(q), Delimiter)).memory = q.memory
<1>1. \A r \in Queue, f \in Frame : YWrite(r, f) \in Queue /\ YWrite(r, f).memory = r.memory
  <2> TAKE r \in Queue, f \in Frame
  <2>1. YWrite(r, f).memory = r.memory
    BY DEF YWrite, Queue
  <2> QED BY <2>1, WriteOps
<1>2. \A r \in Queue : YUnwrite(r) \in Queue /\ YUnwrite(r).memory = r.memory
  <2> TAKE r \in Queue
  <2>1. YUnwrite(r).memory = r.memory
    BY DEF YUnwrite, Queue
  <2> QED BY <2>1, WriteOps
<1>3. \A r \in Queue : YFlush(r) \in Queue /\ YFlush(r).memory = r.memory
  <2> TAKE r \in Queue
  <2>1. YFlush(r).memory = r.memory
    BY DEF YFlush, Queue
  <2> QED BY <2>1, WriteOps
<1>4. Delimiter \in Frame
  BY DEF Delimiter, Frame
<1>5. q.flushed # <<>> => YRead(q) \in Queue /\ YRead(q).memory = q.memory
  <2>1. q.flushed # <<>> => Tail(q.flushed) \in Seq(Frame)
    BY QueueFields, HeadTailProperties
  <2>2. YRead(q).memory = q.memory
    BY DEF YRead, Queue
  <2> QED BY <2>1, <2>2, QueueFields DEF YRead
<1>6. YSleep(q) \in Queue /\ YSleep(q).memory = q.memory
  BY QueueFields DEF YSleep, Queue
<1>7. YFree(q) \in Queue /\ YFree(q).memory = "freed"
  BY EmptyQueues DEF YFree, NoQueue, NewQueue
<1>8. /\ YFlush(YWrite(YUnwrite(q), Delimiter)) \in Queue
      /\ YFlush(YWrite(YUnwrite(q), Delimiter)).memory = q.memory
  BY <1>1, <1>2, <1>3, <1>4
<1> QED BY <1>1, <1>2, <1>3, <1>5, <1>6, <1>7, <1>8

(* The queues that an end uses are queues.                                 *)
LEMMA UsedQueues ==
  ASSUME Typed, NEW e \in Ends
  PROVE  /\ outpipe[e] # None => outpipe[e] \in Queues /\ Out(e) \in Queue
         /\ inpipe[e] # None => inpipe[e] \in Queues /\ Mine(e) \in Queue
BY DEF Typed, Out, Mine

(* Sending to an end adds well-typed commands to its mailbox.              *)
LEMMA SendType ==
  ASSUME Typed, NEW p \in Ends, NEW cmds \in Seq(Command), Send(p, cmds)
  PROVE  mbox' \in [Ends -> Seq(Command)]
<1>1. mbox[p] \o cmds \in Seq(Command)
  BY ConcatProperties DEF Typed
<1> QED BY <1>1 DEF Typed, Send

(* Taking the first command, and answering it.                             *)
LEMMA TakeType ==
  ASSUME Typed, NEW e \in Ends, mbox[e] # <<>>
  PROVE  /\ Rest(e) \in [Ends -> Seq(Command)]
         /\ \A c \in Command : RestAnd(e, c) \in [Ends -> Seq(Command)]
         /\ Head(mbox[e]) \in Command
<1>1. Tail(mbox[e]) \in Seq(Command) /\ Head(mbox[e]) \in Command
  BY DEF Typed
<1>2. \A c \in Command : Append(mbox[Peer(e)], c) \in Seq(Command)
  BY TwoEnds DEF Typed
<1>3. Rest(e) \in [Ends -> Seq(Command)]
  BY <1>1 DEF Typed, Rest
<1>4. \A c \in Command : RestAnd(e, c) \in [Ends -> Seq(Command)]
  BY <1>1, <1>2, TwoEnds DEF Typed, RestAnd
<1> QED BY <1>1, <1>3, <1>4

(* Every step keeps the types.                                             *)
LEMMA UseType ==
  ASSUME Typed, Handshake, NEW e \in Ends, Use(e)
  PROVE  Typed'
<1> USE PipeAssumption
<1>0. /\ Peer(e) \in Ends
      /\ outpipe[e] # None => outpipe[e] \in Queues /\ Out(e) \in Queue
      /\ inpipe[e] # None => inpipe[e] \in Queues /\ Mine(e) \in Queue
      /\ state[e] \notin Gone => outpipe[e] # None
      /\ state[e] # "freed" => inpipe[e] # None
  BY TwoEnds, UsedQueues DEF Handshake
<1>c. /\ <<>> \in Seq(Command)
      /\ \A c \in Command : <<c>> \in Seq(Command) /\ <<c>> \o <<>> \in Seq(Command)
      /\ \A c, d \in Command : <<c>> \o <<d>> \in Seq(Command)
      /\ Cmd("activate_read", 0) \in Command /\ Cmd("pipe_term", 0) \in Command
      /\ Cmd("pipe_term_ack", 0) \in Command
      /\ \A q \in SessionQueues : Cmd("hiccup", q) \in Command
  BY CommandType
<1>1. ASSUME NEW more \in BOOLEAN, Write(e, more) PROVE Typed'
  <2>1. [msg |-> sent[e] + 1, part |-> begun[e] + 1, more |-> more] \in Frame
    BY DEF Frame, Typed
  <2>2. ypipe' \in [Queues -> Queue]
    <3>1. outpipe[e] \in Queues /\ ypipe[outpipe[e]] \in Queue
      BY <1>1, <1>0 DEF Write, Gone, Typed
    <3>2. YWrite(ypipe[outpipe[e]],
                 [msg |-> sent[e] + 1, part |-> begun[e] + 1, more |-> more]) \in Queue
      BY <2>1, <3>1, QueueOps
    <3> QED BY <1>1, <3>1, <3>2 DEF Write, Typed
  <2>3. counts' \in [Ends -> Counts]
    <3>1. counts[e] \in Counts
      BY DEF Typed
    <3>2. [counts[e] EXCEPT !.written = @ + 1] \in Counts
      BY <3>1 DEF Counts
    <3> QED BY <1>1, <3>2 DEF Write, Typed
  <2>4. sent' \in [Ends -> Nat] /\ (\A d \in Ends : sent'[d] <= MaxMsgs[d])
    <3>1. /\ sent \in [Ends -> Nat] /\ MaxMsgs \in [Ends -> Nat]
          /\ sent[e] < MaxMsgs[e] /\ \A d \in Ends : sent[d] <= MaxMsgs[d]
          /\ sent' = sent \/ sent' = [sent EXCEPT ![e] = @ + 1]
      BY <1>1 DEF Write, Typed
    <3> QED BY <3>1
  <2>5. begun' \in [Ends -> Nat] /\ (\A d \in Ends : begun'[d] <= MaxFrames[d])
    <3>1. /\ begun \in [Ends -> Nat] /\ MaxFrames \in [Ends -> Nat]
          /\ more => begun[e] + 1 < MaxFrames[e]
          /\ \A d \in Ends : begun[d] <= MaxFrames[d]
          /\ begun' = [begun EXCEPT ![e] = IF more THEN @ + 1 ELSE 0]
      BY <1>1 DEF Write, Typed
    <3> QED BY <3>1
  <2> QED BY <1>1, <2>2, <2>3, <2>4, <2>5 DEF Write, Typed
<1>2. ASSUME WriteFull(e) PROVE Typed'
  BY <1>2 DEF WriteFull, Typed, hist
<1>3. ASSUME Flush(e) PROVE Typed'
  <2>1. ypipe' \in [Queues -> Queue]
    BY <1>0, <1>3, QueueOps DEF Flush, Typed
  <2>2. mbox' \in [Ends -> Seq(Command)]
    BY <1>0, <1>3, <1>c, SendType DEF Flush
  <2> QED BY <1>3, <2>1, <2>2 DEF Flush, Typed, ends, hist
<1>4. ASSUME Rollback(e) PROVE Typed'
  <2>1. ypipe' \in [Queues -> Queue]
    BY <1>0, <1>4, QueueOps DEF Rollback, Typed
  <2>2. begun' \in [Ends -> Nat] /\ (\A d \in Ends : begun'[d] <= MaxFrames[d])
    <3>1. /\ begun \in [Ends -> Nat] /\ MaxFrames \in [Ends -> Nat]
          /\ \A d \in Ends : begun[d] <= MaxFrames[d]
          /\ begun' = [begun EXCEPT ![e] = 0]
      BY <1>4 DEF Rollback, Typed
    <3> QED BY <3>1
  <2> QED BY <1>4, <2>1, <2>2 DEF Rollback, Typed, ends, hist
<1>5. ASSUME NEW wait \in BOOLEAN, Terminate(e, wait) PROVE Typed'
  <2>1. ypipe' \in [Queues -> Queue]
    <3>1. state[e] \notin Gone => LastWords(e) \in Queue
      BY <1>0, QueueOps DEF LastWords
    <3> QED BY <1>0, <1>5, <3>1 DEF Terminate, Typed, Gone
  <2>2. mbox' \in [Ends -> Seq(Command)]
    BY <1>0, <1>5, <1>c, SendType DEF Terminate, Typed
  <2>3. state' \in [Ends -> States] /\ outpipe' \in [Ends -> Queues \cup {None}]
    BY <1>5 DEF Terminate, Typed, SetState, States
  <2> QED BY <1>5, <2>1, <2>2, <2>3 DEF Terminate, Typed
<1>6. ASSUME Hiccup(e) PROVE Typed'
  <2> DEFINE new == <<e, inpipe[e][2] + 1>>
  <2>1. new \in SessionQueues /\ new \in Queues
    BY <1>0, <1>6 DEF Hiccup, Queues, SessionQueues, Typed
  <2>2. NewQueue \in Queue
    BY DEF NewQueue, Queue
  <2>3. mbox' \in [Ends -> Seq(Command)]
    BY <1>0, <1>6, <1>c, <2>1, SendType DEF Hiccup
  <2> QED BY <1>6, <2>1, <2>2, <2>3 DEF Hiccup, Typed, hist
<1> QED BY <1>1, <1>2, <1>3, <1>4, <1>5, <1>6 DEF Use

(* Reading keeps the types.                                                *)
LEMMA ReadType ==
  ASSUME Typed, Handshake, NEW e \in Ends, Read(e)
  PROVE  Typed'
<1> USE PipeAssumption
<1>0. /\ Peer(e) \in Ends /\ inpipe[e] \in Queues /\ Mine(e) \in Queue
      /\ ypipe \in [Queues -> Queue] /\ Mine(e) = ypipe[inpipe[e]]
      /\ Mine(e).flushed \in Seq(Frame)
  <2>1. Reading(e)
    BY DEF Read, ReadNothing, ReadDelimiter, ReadFrame
  <2>2. inpipe[e] # None
    BY <2>1 DEF Reading, Handshake
  <2> QED BY <2>2, TwoEnds, UsedQueues, QueueFields DEF Typed, Mine
<1>1. CASE ReadNothing(e)
  <2>1. ypipe' \in [Queues -> Queue]
    BY <1>0, <1>1, QueueOps DEF ReadNothing
  <2> QED BY <1>1, <2>1 DEF ReadNothing, Typed, hist
<1>2. CASE ReadDelimiter(e)
  <2>1. ypipe' \in [Queues -> Queue]
    BY <1>0, <1>2, QueueOps DEF ReadDelimiter
  <2>2. mbox' \in [Ends -> Seq(Command)]
    <3>1. <<Cmd("pipe_term_ack", 0)>> \in Seq(Command)
      BY CommandType
    <3> QED BY <1>0, <1>2, <3>1, SendType DEF ReadDelimiter, ProcessDelimiter, Typed
  <2>3. state' \in [Ends -> States] /\ outpipe' \in [Ends -> Queues \cup {None}]
    BY <1>2 DEF ReadDelimiter, ProcessDelimiter, SetState, Typed, States
  <2> QED BY <1>2, <2>1, <2>2, <2>3 DEF ReadDelimiter, ProcessDelimiter, Typed
<1>3. CASE ReadFrame(e)
  <2> DEFINE f == Head(Mine(e).flushed)
             n == counts[e].read + IF f.more THEN 0 ELSE 1
  <2>1. ypipe' \in [Queues -> Queue]
    BY <1>0, <1>3, QueueOps DEF ReadFrame
  <2>2. f \in Frame
    BY <1>0, <1>3 DEF ReadFrame
  <2>3. counts[e] \in Counts /\ n \in Nat
    BY DEF Typed, Counts
  <2>4. counts' = [counts EXCEPT ![e].read = n] /\ got' = [got EXCEPT ![e] = Append(@, f)]
    BY <1>3 DEF ReadFrame
  <2>5. Send(Peer(e), <<Cmd("activate_write", n)>>) \/ Send(Peer(e), <<>>)
    BY <1>3 DEF ReadFrame
  <2> HIDE DEF f, n
  <2>6. counts' \in [Ends -> Counts]
    <3>1. [counts[e] EXCEPT !.read = n] \in Counts
      BY <2>3 DEF Counts
    <3> QED BY <2>4, <3>1 DEF Typed
  <2>7. got' \in [Ends -> Seq(Frame)]
    BY <2>2, <2>4 DEF Typed
  <2>8. mbox' \in [Ends -> Seq(Command)]
    <3>1. <<Cmd("activate_write", n)>> \in Seq(Command) /\ <<>> \in Seq(Command)
      BY <2>3, CommandType
    <3> QED BY <1>0, <2>5, <3>1, SendType
  <2> QED BY <1>3, <2>1, <2>6, <2>7, <2>8 DEF ReadFrame, Typed
<1> QED BY <1>1, <1>2, <1>3 DEF Read

(* Processing a command keeps the types.                                   *)
LEMMA ProcessType ==
  ASSUME Typed, Handshake, InTurn, NEW e \in Ends, Process(e)
  PROVE  Typed'
<1>0. /\ Peer(e) \in Ends /\ Cmd("pipe_term_ack", 0) \in Command
      /\ outpipe[e] # None => outpipe[e] \in Queues /\ Out(e) \in Queue
      /\ inpipe[e] # None => inpipe[e] \in Queues /\ Mine(e) \in Queue
      /\ mbox[e] # <<>> /\ Head(mbox[e]) \in Command
      /\ Rest(e) \in [Ends -> Seq(Command)]
      /\ \A c \in Command : RestAnd(e, c) \in [Ends -> Seq(Command)]
  <2>1. mbox[e] # <<>>
    BY DEF Process, ProcessActivateRead, ProcessActivateWrite, ProcessHiccup,
           ProcessPipeTerm, ProcessPipeTermAck, Arrives
  <2> QED BY <2>1, TwoEnds, CommandType, UsedQueues, TakeType
<1>1. CASE ProcessActivateRead(e)
  <2>1. mbox' \in [Ends -> Seq(Command)]
    BY <1>0, <1>1 DEF ProcessActivateRead
  <2> QED BY <1>1, <2>1 DEF ProcessActivateRead, Typed, hist
<1>2. CASE ProcessActivateWrite(e)
  <2>1. mbox' \in [Ends -> Seq(Command)]
    BY <1>0, <1>2 DEF ProcessActivateWrite
  <2>2. Arg(e) \in Nat
    BY <1>0, <1>2, CommandType DEF ProcessActivateWrite, Arrives, Arg
  <2>3. counts' \in [Ends -> Counts]
    <3>1. counts[e] \in Counts
      BY DEF Typed
    <3>2. [counts[e] EXCEPT !.peersRead = Arg(e)] \in Counts
      BY <2>2, <3>1 DEF Counts
    <3> QED BY <1>2, <3>2 DEF ProcessActivateWrite, Typed
  <2> QED BY <1>2, <2>1, <2>3 DEF ProcessActivateWrite, Typed, hist
<1>3. CASE ProcessHiccup(e)
  <2>1. mbox' \in [Ends -> Seq(Command)]
    BY <1>0, <1>3 DEF ProcessHiccup
  <2>2. Arg(e) \in Queues
    BY <1>0, <1>3, CommandType DEF ProcessHiccup, Arrives, Arg
  <2>3. outpipe[e] # None
    BY <1>0, <1>3 DEF ProcessHiccup, Arrives, InTurn, Expects
  <2>4. counts' \in [Ends -> Counts]
    <3> DEFINE q == YFlush(Out(e))
    <3>1. q \in Queue
      BY <1>0, <2>3, QueueOps
    <3>2. Whole(q.flushed) \in Nat
      BY <3>1, QueueFields, WholeType
    <3>3. counts' = [counts EXCEPT ![e].written = @ - Whole(q.flushed)]
      BY <1>3 DEF ProcessHiccup
    <3> HIDE DEF q
    <3>4. counts[e] \in Counts
      BY DEF Typed
    <3>5. [counts[e] EXCEPT !.written = @ - Whole(q.flushed)] \in Counts
      BY <3>2, <3>4 DEF Counts
    <3> QED BY <3>3, <3>5 DEF Typed
  <2>5. ypipe' \in [Queues -> Queue]
    BY <1>3, EmptyQueues DEF ProcessHiccup, Typed
  <2> QED BY <1>3, <2>1, <2>2, <2>4, <2>5 DEF ProcessHiccup, Typed, hist
<1>4. CASE ProcessPipeTerm(e)
  <2>1. mbox' \in [Ends -> Seq(Command)]
    BY <1>0, <1>4 DEF ProcessPipeTerm
  <2>2. state' \in [Ends -> States] /\ outpipe' \in [Ends -> Queues \cup {None}]
    BY <1>4 DEF ProcessPipeTerm, SetState, Typed, States
  <2> QED BY <1>4, <2>1, <2>2 DEF ProcessPipeTerm, Typed, hist
<1>5. CASE ProcessPipeTermAck(e)
  <2>1. mbox' \in [Ends -> Seq(Command)]
    BY <1>0, <1>5 DEF ProcessPipeTermAck
  <2>2. /\ state' \in [Ends -> States]
        /\ outpipe' \in [Ends -> Queues \cup {None}] /\ inpipe' \in [Ends -> Queues \cup {None}]
    BY <1>5 DEF ProcessPipeTermAck, SetState, Typed, States
  <2>3. ypipe' \in [Queues -> Queue]
    BY <1>5, EmptyQueues DEF ProcessPipeTermAck, Typed
  <2> QED BY <1>5, <2>1, <2>2, <2>3 DEF ProcessPipeTermAck, Typed, hist
<1> QED BY <1>1, <1>2, <1>3, <1>4, <1>5 DEF Process

-----------------------------------------------------------------------------
(* The handshake, the queues announced and the memory.                     *)

(* With no hiccup under way, the socket writes the newest queue.           *)
LEMMA NoHiccups ==
  ASSUME Typed, Handshake, Announced, state["session"] # "freed",
         ~Holds(mbox["socket"], "hiccup")
  PROVE  Oldest = Newest
<1>1. inpipe["session"] # None /\ inpipe["session"] \in Queues /\ inpipe["session"][1] = "session"
  BY DEF Handshake, Announced, Typed, Ends
<1>2. Newest \in 0 .. MaxHiccups
  BY <1>1 DEF Newest, Queues
<1>3. outpipe["socket"] # None => Oldest \in 0 .. MaxHiccups
  BY PipeAssumption DEF Oldest, Queues, Announced, Typed, Ends
<1>4. ~Carries(mbox["socket"], Newest)
  BY DEF Carries, Holds
<1>5. Oldest <= Newest /\ Newest \notin Oldest + 1 .. Newest
  BY <1>2, <1>4 DEF Announced
<1> QED BY <1>2, <1>3, <1>5 DEF Oldest, Newest

(* What the control part of the invariant sees of a mailbox does not       *)
(* change.                                                                 *)
SameControl(old, new) ==
  /\ Ordered(new)
  /\ \A c \in {"pipe_term", "pipe_term_ack", "hiccup"} : Holds(new, c) <=> Holds(old, c)
  /\ \A n : Carries(new, n) <=> Carries(old, n)

(* A command that only wakes.                                              *)
Waking == {"activate_read", "activate_write"}

(* Steps that only wake each other, or touch the contents of a queue.      *)
LEMMA Quiet ==
  ASSUME Handshake, Announced, Memory, UNCHANGED <<state, inpipe, outpipe>>,
         \A q \in Queues : ypipe'[q].memory = ypipe[q].memory,
         \A d \in Ends : /\ SameControl(mbox[d], mbox'[d])
                         /\ state[d] = "freed" => mbox'[d] = <<>>
  PROVE  Handshake' /\ Announced' /\ Memory'
<1>1. Handshake'
  BY TwoEnds DEF Handshake, SameControl
<1>2. Newest' = Newest /\ Oldest' = Oldest
  BY DEF Newest, Oldest
<1>3. Announced'
  BY <1>2 DEF Announced, Ends, SameControl
<1>4. Memory'
  BY <1>2 DEF Memory, InUse
<1> QED BY <1>1, <1>3, <1>4

(* Nothing or one command is sent.                                         *)
LEMMA SendOne ==
  ASSUME Typed, NEW p \in Ends, NEW c \in Command
  PROVE  /\ Send(p, <<>>) => mbox' = mbox
         /\ Send(p, <<c>>) => /\ mbox'[p] = Append(mbox[p], c)
                              /\ \A d \in Ends : d # p => mbox'[d] = mbox[d]
<1>1. mbox[p] \in Seq(Command) /\ mbox \in [Ends -> Seq(Command)]
  BY DEF Typed
<1>2. mbox[p] \o <<>> = mbox[p] /\ mbox[p] \o <<c>> = Append(mbox[p], c)
  BY <1>1, ConcatEmptySeq, AppendIsConcat
<1> QED BY <1>1, <1>2 DEF Send

(* An end that has not given up may wake its peer.                         *)
LEMMA Wakes ==
  ASSUME Typed, Handshake, NEW e \in Ends, state[e] \notin Gone,
         NEW c \in Command, c.cmd \in Waking,
         Send(Peer(e), <<c>>) \/ Send(Peer(e), <<>>) \/ mbox' = mbox
  PROVE  \A d \in Ends : /\ SameControl(mbox[d], mbox'[d])
                         /\ state[d] = "freed" => mbox'[d] = <<>>
<1> DEFINE p == Peer(e)
<1>0. p \in Ends /\ p # e /\ \A d \in Ends : d = e \/ d = p
  BY TwoEnds
<1>1. \A d \in Ends : /\ SameControl(mbox[d], mbox[d])
                      /\ state[d] = "freed" => mbox[d] = <<>>
                      /\ mbox[d] \in Seq(Command)
  BY DEF SameControl, Handshake, Typed
<1>2. ~Holds(mbox[p], "pipe_term_ack") /\ state[p] # "freed"
  BY TwoEnds DEF Handshake, PeersOf, Gone, States, Typed
<1>3. CASE Send(p, <<c>>)
  <2>1. mbox'[p] = Append(mbox[p], c) /\ mbox'[e] = mbox[e]
    BY <1>0, <1>3, SendOne
  <2>2. SameControl(mbox[p], mbox'[p])
    <3>1. Ordered(mbox[p])
      BY <1>0 DEF Handshake
    <3>2. Ordered(mbox'[p])
      BY <1>0, <1>1, <1>2, <2>1, <3>1, AppendOrdered DEF Waking
    <3> QED BY <1>0, <1>1, <2>1, <3>2, AppendBox DEF SameControl, Waking
  <2> QED BY <1>0, <1>1, <1>2, <2>1, <2>2
<1>4. CASE Send(p, <<>>)
  BY <1>0, <1>1, <1>4, SendOne
<1> QED BY <1>1, <1>3, <1>4

(* Taking a command out that only wakes.                                   *)
LEMMA Woken ==
  ASSUME Typed, Handshake, NEW e \in Ends, mbox[e] # <<>>, Head(mbox[e]).cmd \in Waking,
         mbox' = Rest(e)
  PROVE  \A d \in Ends : /\ SameControl(mbox[d], mbox'[d])
                         /\ state[d] = "freed" => mbox'[d] = <<>>
<1>1. \A d \in Ends : /\ SameControl(mbox[d], mbox[d])
                      /\ state[d] = "freed" => mbox[d] = <<>>
                      /\ mbox[d] \in Seq(Command) /\ Ordered(mbox[d])
  BY DEF SameControl, Handshake, Typed
<1>2. mbox'[e] = Tail(mbox[e]) /\ \A d \in Ends : d # e => mbox'[d] = mbox[d]
  BY DEF Rest, Typed
<1>3. SameControl(mbox[e], Tail(mbox[e]))
  BY <1>1, TailBox DEF SameControl, Waking
<1> QED BY <1>1, <1>2, <1>3

(* Writing, flushing and reading frames.                                   *)
LEMMA FrameSteps ==
  ASSUME PipeInv, NEW e \in Ends,
         \/ \E more \in BOOLEAN : Write(e, more)
         \/ WriteFull(e) \/ Flush(e) \/ Rollback(e) \/ ReadNothing(e) \/ ReadFrame(e)
  PROVE  Handshake' /\ Announced' /\ Memory'
<1>0. /\ outpipe[e] # None => outpipe[e] \in Queues /\ Out(e) \in Queue
      /\ inpipe[e] # None => inpipe[e] \in Queues /\ Mine(e) \in Queue
      /\ state[e] \notin Gone => outpipe[e] # None
      /\ state[e] # "freed" => inpipe[e] # None
      /\ sent[e] \in Nat /\ begun[e] \in Nat /\ ypipe \in [Queues -> Queue]
      /\ Cmd("activate_read", 0) \in Command
      /\ Cmd("activate_read", 0).cmd \in Waking
  BY TwoEnds, UsedQueues, CommandType DEF PipeInv, Handshake, Typed, Waking, Cmd
<1>1. /\ UNCHANGED <<state, inpipe, outpipe>> /\ state[e] \notin Gone
      /\ \A q \in Queues : ypipe'[q].memory = ypipe[q].memory
  <2>1. ASSUME NEW more \in BOOLEAN, Write(e, more)
        PROVE  \A q \in Queues : ypipe'[q].memory = ypipe[q].memory
    <3>1. [msg |-> sent[e] + 1, part |-> begun[e] + 1, more |-> more] \in Frame
      BY <1>0 DEF Frame
    <3>2. YWrite(ypipe[outpipe[e]],
                 [msg |-> sent[e] + 1, part |-> begun[e] + 1, more |-> more]).memory
             = ypipe[outpipe[e]].memory
      BY <1>0, <2>1, <3>1, QueueOps DEF Write, Out, Gone
    <3> QED BY <1>0, <2>1, <3>2 DEF Write
  <2>2. ASSUME Flush(e) \/ Rollback(e)
        PROVE  \A q \in Queues : ypipe'[q].memory = ypipe[q].memory
    BY <1>0, <2>2, QueueOps DEF Flush, Rollback, Out
  <2>3. ASSUME ReadNothing(e) \/ ReadFrame(e)
        PROVE  \A q \in Queues : ypipe'[q].memory = ypipe[q].memory
    BY <1>0, <2>3, QueueOps DEF ReadNothing, ReadFrame, Reading, Mine
  <2>4. ASSUME WriteFull(e)
        PROVE  \A q \in Queues : ypipe'[q].memory = ypipe[q].memory
    BY <2>4 DEF WriteFull
  <2>5. UNCHANGED <<state, inpipe, outpipe>>
    BY DEF Write, WriteFull, Flush, Rollback, ReadNothing, ReadFrame, ends
  <2>6. state[e] \notin Gone
    <3>1. CASE Flush(e) \/ Rollback(e)
      BY <3>1 DEF Flush, Rollback, PipeInv, Handshake
    <3>2. ASSUME state[e] = "active" \/ Reading(e) PROVE state[e] \notin Gone
      BY <3>2 DEF Reading, Gone
    <3> QED BY <3>1, <3>2 DEF Write, WriteFull, ReadNothing, ReadFrame
  <2> QED BY <2>1, <2>2, <2>3, <2>4, <2>5, <2>6
<1>2. \E c \in Command : /\ c.cmd \in Waking
                         /\ Send(Peer(e), <<c>>) \/ Send(Peer(e), <<>>) \/ mbox' = mbox
  <2>1. CASE mbox' = mbox
    BY <1>0, <2>1
  <2>2. CASE Flush(e)
    BY <1>0, <2>2 DEF Flush
  <2>3. CASE ReadFrame(e)
    <3> DEFINE f == Head(Mine(e).flushed)
               n == counts[e].read + IF f.more THEN 0 ELSE 1
    <3>1. n \in Nat
      BY DEF PipeInv, Typed, Counts
    <3>2. Send(Peer(e), <<Cmd("activate_write", n)>>) \/ Send(Peer(e), <<>>)
      BY <2>3 DEF ReadFrame
    <3> HIDE DEF n
    <3>3. Cmd("activate_write", n) \in Command /\ Cmd("activate_write", n).cmd \in Waking
      BY <3>1, CommandType DEF Cmd, Waking
    <3> QED BY <3>2, <3>3
  <2> QED BY <2>1, <2>2, <2>3 DEF Write, WriteFull, Rollback, ReadNothing
<1>3. \A d \in Ends : /\ SameControl(mbox[d], mbox'[d])
                      /\ state[d] = "freed" => mbox'[d] = <<>>
  BY <1>1, <1>2, Wakes DEF PipeInv
<1> QED BY <1>1, <1>3, Quiet DEF PipeInv

(* Being woken.                                                            *)
LEMMA WakeSteps ==
  ASSUME PipeInv, NEW e \in Ends, ProcessActivateRead(e) \/ ProcessActivateWrite(e)
  PROVE  Handshake' /\ Announced' /\ Memory'
<1>1. /\ mbox[e] # <<>> /\ Head(mbox[e]).cmd \in Waking /\ mbox' = Rest(e)
      /\ UNCHANGED <<state, inpipe, outpipe, ypipe>>
  BY DEF ProcessActivateRead, ProcessActivateWrite, Arrives, Waking
<1> QED BY <1>1, Woken, Quiet DEF PipeInv

(* An end that forgets its outgoing queue wrote the newest one.            *)
LEMMA GivesUp ==
  ASSUME Typed, Handshake, Announced, NEW e \in Ends,
         e = "socket" => ~Holds(mbox["socket"], "hiccup"),
         outpipe' = [outpipe EXCEPT ![e] = None], inpipe' = inpipe
  PROVE  Newest' = Newest /\ (state["session"] # "freed" => Oldest' = Oldest)
<1>1. Newest' = Newest
  BY DEF Newest
<1>2. CASE e = "socket"
  <2>1. outpipe'["socket"] = None
    BY <1>2 DEF Typed
  <2> QED BY <1>1, <1>2, <2>1, NoHiccups DEF Oldest
<1>3. CASE e = "session"
  <2>1. outpipe'["socket"] = outpipe["socket"]
    BY <1>3 DEF Typed
  <2> QED BY <1>1, <2>1 DEF Oldest
<1> QED BY <1>2, <1>3 DEF Ends

(* The reader of the delimiter, or who does not wait for it any longer,    *)
(* acknowledges the request.                                               *)
LEMMA Acknowledges ==
  ASSUME PipeInv, NEW e \in Ends, state[e] = "waiting_for_delimiter",
         SetState(e, "term_ack_sent"), outpipe' = [outpipe EXCEPT ![e] = None],
         inpipe' = inpipe, Send(Peer(e), <<Cmd("pipe_term_ack", 0)>>),
         \A q \in Queues : ypipe'[q].memory = ypipe[q].memory
  PROVE  Handshake' /\ Announced' /\ Memory'
<1> DEFINE p == Peer(e)
<1>0. p \in Ends /\ p # e /\ Peer(p) = e /\ \A d \in Ends : d = e \/ d = p
  BY TwoEnds
<1>1. state[p] = "term_req_sent1"
  BY <1>0 DEF PipeInv, Handshake, PeersOf
<1>2. /\ state'[e] = "term_ack_sent" /\ state'[p] = state[p]
      /\ outpipe'[e] = None /\ outpipe'[p] = outpipe[p]
  BY <1>0 DEF PipeInv, Typed, SetState
<1>3. /\ mbox'[p] = Append(mbox[p], Cmd("pipe_term_ack", 0)) /\ mbox'[e] = mbox[e]
      /\ mbox[p] \in Seq(Command) /\ Cmd("pipe_term_ack", 0) \in Command
      /\ Cmd("pipe_term_ack", 0).cmd = "pipe_term_ack"
  BY <1>0, SendOne, CommandType DEF PipeInv, Typed
<1>4. ~Holds(mbox[p], "pipe_term_ack") /\ Ordered(mbox[p])
  BY <1>0 DEF PipeInv, Handshake, Gone
<1>5. /\ Ordered(mbox'[p]) /\ mbox'[p] # <<>>
      /\ \A x : Holds(mbox'[p], x) <=> Holds(mbox[p], x) \/ x = "pipe_term_ack"
      /\ \A n : Carries(mbox'[p], n) <=> Carries(mbox[p], n)
  BY <1>3, <1>4, AppendBox, AppendOrdered
<1>6. Handshake'
  <2>1. \A d \in Ends : state'[Peer(d)] \in PeersOf(state'[d])
    BY <1>0, <1>1, <1>2 DEF PeersOf, States
  <2>2. \A d \in Ends : Holds(mbox'[d], "pipe_term") <=>
          state'[Peer(d)] \in Requesting /\ state'[d] \in Unaware
    BY <1>0, <1>1, <1>2, <1>3, <1>5 DEF PipeInv, Handshake, Requesting, Unaware
  <2>3. \A d \in Ends : Holds(mbox'[d], "pipe_term_ack") <=>
          /\ state'[Peer(d)] \in Gone
          /\ state'[d] \in {"term_req_sent1", "term_req_sent2", "term_ack_sent"}
    BY <1>0, <1>1, <1>2, <1>3, <1>5 DEF PipeInv, Handshake, Gone
  <2>4. \A d \in Ends : outpipe'[d] = None <=> state'[d] \in Gone
    BY <1>0, <1>1, <1>2 DEF PipeInv, Handshake, Gone
  <2>5. \A d \in Ends : inpipe'[d] = None <=> state'[d] = "freed"
    BY <1>0, <1>1, <1>2 DEF PipeInv, Handshake
  <2>6. \A d \in Ends : Ordered(mbox'[d]) /\ state'[d] # "freed"
    BY <1>0, <1>1, <1>2, <1>3, <1>5 DEF PipeInv, Handshake
  <2> QED BY <2>1, <2>2, <2>3, <2>4, <2>5, <2>6 DEF Handshake
<1>7. e = "socket" => ~Holds(mbox["socket"], "hiccup")
  BY DEF PipeInv, Announced, Unaware
<1>8. Newest' = Newest /\ (state["session"] # "freed" => Oldest' = Oldest)
  BY <1>7, GivesUp DEF PipeInv
<1>9. Announced'
  <2>1. \A d \in Ends : /\ Holds(mbox'[d], "hiccup") <=> Holds(mbox[d], "hiccup")
                        /\ \A n : Carries(mbox'[d], n) <=> Carries(mbox[d], n)
                        /\ inpipe'[d] = inpipe[d] /\ outpipe'[d] \in {outpipe[d], None}
    BY <1>0, <1>2, <1>3, <1>5
  <2>2. /\ state["session"] # "freed"
        /\ Holds(mbox["socket"], "hiccup") => state'["socket"] \in Unaware
    BY <1>0, <1>1, <1>2, <1>7 DEF PipeInv, Announced, Unaware, Ends
  <2> QED BY <1>8, <2>1, <2>2 DEF PipeInv, Announced, Ends
<1>10. Memory'
  BY <1>0, <1>1, <1>2, <1>8 DEF PipeInv, Memory, InUse, Ends
<1> QED BY <1>6, <1>9, <1>10

(* Reading the delimiter.                                                  *)
LEMMA DelimiterStep ==
  ASSUME PipeInv, NEW e \in Ends, ReadDelimiter(e)
  PROVE  Handshake' /\ Announced' /\ Memory'
<1>0. /\ inpipe[e] \in Queues /\ Mine(e) \in Queue /\ state[e] \in States
      /\ ypipe \in [Queues -> Queue] /\ inpipe' = inpipe
      /\ state[e] \in {"active", "waiting_for_delimiter"}
  <2>1. state[e] \in {"active", "waiting_for_delimiter"} /\ inpipe' = inpipe
    BY DEF ReadDelimiter, ProcessDelimiter, Reading
  <2>2. inpipe[e] # None
    BY <2>1 DEF PipeInv, Handshake
  <2> QED BY <2>1, <2>2, UsedQueues DEF PipeInv, Typed
<1>1. \A q \in Queues : ypipe'[q].memory = ypipe[q].memory
  <2>1. YRead(Mine(e)).memory = Mine(e).memory
    BY <1>0, QueueOps DEF ReadDelimiter
  <2>2. ypipe' = [ypipe EXCEPT ![inpipe[e]] = YRead(@)] /\ Mine(e) = ypipe[inpipe[e]]
    BY DEF ReadDelimiter, Mine
  <2> QED BY <1>0, <2>1, <2>2
<1>2. CASE state[e] = "active"
  <2>1. /\ SetState(e, "delimiter_received")
        /\ UNCHANGED <<inpipe, outpipe, mbox>>
    BY <1>0, <1>2 DEF ReadDelimiter, ProcessDelimiter
  <2>2. /\ state' \in [Ends -> States] /\ state'[e] = "delimiter_received"
        /\ \A d \in Ends : d # e => state'[d] = state[d]
    BY <2>1 DEF PipeInv, Typed, SetState, States
  <2>3. \A d \in Ends : /\ state'[d] \in Gone <=> state[d] \in Gone
                        /\ state'[d] \in Requesting <=> state[d] \in Requesting
                        /\ state'[d] \in Unaware <=> state[d] \in Unaware
                        /\ state'[d] = "freed" <=> state[d] = "freed"
                        /\ state'[d] \in {"term_req_sent1", "term_req_sent2", "term_ack_sent"}
                             <=> state[d] \in {"term_req_sent1", "term_req_sent2", "term_ack_sent"}
    BY <1>2, <2>2 DEF Gone, Requesting, Unaware
  <2>4. \A d \in Ends : state'[Peer(d)] \in PeersOf(state'[d])
    BY <1>2, <2>2, TwoEnds DEF PipeInv, Handshake, PeersOf, States
  <2>5. Handshake'
    BY <2>1, <2>3, <2>4, TwoEnds DEF PipeInv, Handshake
  <2>6. Newest' = Newest /\ Oldest' = Oldest
    BY <2>1 DEF Newest, Oldest
  <2>7. Announced'
    BY <2>1, <2>3, <2>6 DEF PipeInv, Announced, Ends
  <2>8. Memory'
    BY <1>1, <2>3, <2>6 DEF PipeInv, Memory, InUse, Ends
  <2> QED BY <2>5, <2>7, <2>8
<1>3. CASE state[e] = "waiting_for_delimiter"
  BY <1>1, <1>3, Acknowledges DEF ReadDelimiter, ProcessDelimiter
<1> QED BY <1>0, <1>2, <1>3

(* Asking to terminate.                                                    *)
LEMMA Asks ==
  ASSUME PipeInv, NEW e \in Ends, state[e] \in {"active", "delimiter_received"},
         SetState(e, "term_req_sent1"), UNCHANGED <<inpipe, outpipe>>,
         \/ Send(Peer(e), <<Cmd("pipe_term", 0)>> \o <<Cmd("activate_read", 0)>>)
         \/ Send(Peer(e), <<Cmd("pipe_term", 0)>> \o <<>>),
         \A q \in Queues : ypipe'[q].memory = ypipe[q].memory
  PROVE  Handshake' /\ Announced' /\ Memory'
<1> DEFINE p == Peer(e)
           c == Cmd("pipe_term", 0)
           a == Cmd("activate_read", 0)
           box == Append(mbox[p], c)
<1>0. p \in Ends /\ p # e /\ Peer(p) = e /\ \A d \in Ends : d = e \/ d = p
  BY TwoEnds
<1>1. state[p] \in Unaware /\ state[p] # "freed"
  BY <1>0 DEF PipeInv, Handshake, PeersOf, Unaware
<1>2. /\ state'[e] = "term_req_sent1" /\ state'[p] = state[p]
      /\ outpipe'[e] = outpipe[e] /\ outpipe'[p] = outpipe[p]
  BY <1>0 DEF PipeInv, Typed, SetState
<1>3. /\ mbox[p] \in Seq(Command) /\ mbox \in [Ends -> Seq(Command)]
      /\ c \in Command /\ a \in Command /\ c.cmd = "pipe_term" /\ a.cmd = "activate_read"
  BY <1>0, CommandType DEF PipeInv, Typed
<1>4. box \in Seq(Command) /\ Append(box, a) \in Seq(Command)
  BY <1>3, AppendBox
<1>5. mbox'[p] \in {box, Append(box, a)} /\ mbox'[e] = mbox[e]
  <2>1. mbox[p] \o (<<c>> \o <<>>) = box
    <3>1. <<c>> \o <<>> = <<c>>
      OBVIOUS
    <3> QED BY <1>3, <3>1, AppendIsConcat
  <2>2. mbox[p] \o (<<c>> \o <<a>>) = Append(box, a)
    <3>1. <<c>> \in Seq(Command) /\ <<a>> \in Seq(Command)
      BY <1>3
    <3>2. mbox[p] \o (<<c>> \o <<a>>) = (mbox[p] \o <<c>>) \o <<a>>
      BY <1>3, <3>1, ConcatAssociative
    <3>3. mbox[p] \o <<c>> = box /\ box \o <<a>> = Append(box, a)
      BY <1>3, <1>4, AppendIsConcat
    <3> QED BY <3>2, <3>3
  <2> HIDE DEF c, a, box
  <2> QED BY <1>0, <1>3, <2>1, <2>2 DEF Send, c, a
<1>6. ~Holds(mbox[p], "pipe_term") /\ ~Holds(mbox[p], "pipe_term_ack") /\ Ordered(mbox[p])
  BY <1>0 DEF PipeInv, Handshake, Gone, Requesting
<1> HIDE DEF c, a, box
<1>7. /\ Ordered(box) /\ box # <<>>
      /\ \A x : Holds(box, x) <=> Holds(mbox[p], x) \/ x = "pipe_term"
      /\ \A n : Carries(box, n) <=> Carries(mbox[p], n)
  BY <1>3, <1>6, AppendBox, AppendOrdered DEF box
<1>8. /\ Ordered(Append(box, a))
      /\ \A x : Holds(Append(box, a), x) <=> Holds(box, x) \/ x = "activate_read"
      /\ \A n : Carries(Append(box, a), n) <=> Carries(box, n)
  BY <1>3, <1>4, <1>6, <1>7, AppendBox, AppendOrdered
<1>9. /\ Ordered(mbox'[p])
      /\ Holds(mbox'[p], "pipe_term")
      /\ \A x \in {"pipe_term_ack", "hiccup"} : Holds(mbox'[p], x) <=> Holds(mbox[p], x)
      /\ \A n : Carries(mbox'[p], n) <=> Carries(mbox[p], n)
  BY <1>5, <1>7, <1>8
<1>10. Handshake'
  <2>1. \A d \in Ends : state'[Peer(d)] \in PeersOf(state'[d])
    BY <1>0, <1>1, <1>2 DEF PeersOf, States, Unaware
  <2>2. \A d \in Ends : Holds(mbox'[d], "pipe_term") <=>
          state'[Peer(d)] \in Requesting /\ state'[d] \in Unaware
    BY <1>0, <1>1, <1>2, <1>5, <1>9 DEF PipeInv, Handshake, Requesting, Unaware
  <2>3. \A d \in Ends : Holds(mbox'[d], "pipe_term_ack") <=>
          /\ state'[Peer(d)] \in Gone
          /\ state'[d] \in {"term_req_sent1", "term_req_sent2", "term_ack_sent"}
    BY <1>0, <1>1, <1>2, <1>5, <1>9 DEF PipeInv, Handshake, Gone, Unaware
  <2>4. \A d \in Ends : outpipe'[d] = None <=> state'[d] \in Gone
    BY <1>0, <1>1, <1>2 DEF PipeInv, Handshake, Gone
  <2>5. \A d \in Ends : inpipe'[d] = None <=> state'[d] = "freed"
    BY <1>0, <1>1, <1>2 DEF PipeInv, Handshake
  <2>6. \A d \in Ends : Ordered(mbox'[d]) /\ state'[d] # "freed"
    BY <1>0, <1>1, <1>2, <1>5, <1>9 DEF PipeInv, Handshake
  <2> QED BY <2>1, <2>2, <2>3, <2>4, <2>5, <2>6 DEF Handshake
<1>11. Newest' = Newest /\ Oldest' = Oldest
  BY DEF Newest, Oldest
<1>12. Announced'
  <2>1. \A d \in Ends : /\ Holds(mbox'[d], "hiccup") <=> Holds(mbox[d], "hiccup")
                        /\ \A n : Carries(mbox'[d], n) <=> Carries(mbox[d], n)
    BY <1>0, <1>5, <1>9
  <2>2. \A d \in Ends : state'[d] \in Unaware /\ state[d] # "freed"
    BY <1>0, <1>1, <1>2 DEF Unaware
  <2> QED BY <1>11, <2>1, <2>2 DEF PipeInv, Announced, Ends
<1>13. Memory'
  BY <1>0, <1>1, <1>2, <1>11 DEF PipeInv, Memory, InUse, Ends
<1> QED BY <1>10, <1>12, <1>13

(* terminate()                                                             *)
LEMMA TerminateStep ==
  ASSUME PipeInv, NEW e \in Ends, NEW wait \in BOOLEAN, Terminate(e, wait)
  PROVE  Handshake' /\ Announced' /\ Memory'
<1>0. /\ outpipe[e] # None => outpipe[e] \in Queues /\ Out(e) \in Queue
      /\ state[e] \notin Gone => outpipe[e] # None
      /\ ypipe \in [Queues -> Queue] /\ inpipe' = inpipe /\ Peer(e) \in Ends
      /\ Cmd("activate_read", 0) \in Command /\ Cmd("activate_read", 0).cmd \in Waking
  BY UsedQueues, CommandType, TwoEnds
     DEF PipeInv, Typed, Handshake, Terminate, Waking, Cmd
<1>1. ASSUME state[e] \notin Gone, ypipe' = [ypipe EXCEPT ![outpipe[e]] = LastWords(e)]
      PROVE  \A q \in Queues : ypipe'[q].memory = ypipe[q].memory
  <2>1. outpipe[e] \in Queues /\ Out(e) = ypipe[outpipe[e]] /\ Out(e) \in Queue
    BY <1>0, <1>1 DEF Out
  <2>2. LastWords(e).memory = ypipe[outpipe[e]].memory
    BY <2>1, QueueOps DEF LastWords
  <2> QED BY <1>0, <1>1, <2>1, <2>2
<1>2. CASE state[e] \in {"term_req_sent1", "term_req_sent2", "term_ack_sent"}
  <2>1. UNCHANGED <<state, inpipe, outpipe, ypipe, mbox>>
    BY <1>2 DEF Terminate
  <2>2. \A d \in Ends : /\ SameControl(mbox[d], mbox'[d])
                        /\ state[d] = "freed" => mbox'[d] = <<>>
    BY <2>1 DEF SameControl, PipeInv, Handshake
  <2> QED BY <2>1, <2>2, Quiet DEF PipeInv
<1>3. CASE state[e] \in {"active", "delimiter_received"}
  <2>1. /\ SetState(e, "term_req_sent1") /\ UNCHANGED <<inpipe, outpipe>>
        /\ ypipe' = [ypipe EXCEPT ![outpipe[e]] = LastWords(e)]
        /\ \/ Send(Peer(e), <<Cmd("pipe_term", 0)>> \o <<Cmd("activate_read", 0)>>)
           \/ Send(Peer(e), <<Cmd("pipe_term", 0)>> \o <<>>)
    BY <1>3 DEF Terminate
  <2>2. state[e] \notin Gone
    BY <1>3 DEF Gone
  <2> QED BY <1>1, <1>3, <2>1, <2>2, Asks
<1>4. CASE state[e] = "waiting_for_delimiter" /\ ~wait
  BY <1>0, <1>4, Acknowledges DEF Terminate
<1>5. CASE state[e] = "waiting_for_delimiter" /\ wait
  <2>1. /\ UNCHANGED <<state, inpipe, outpipe>> /\ state[e] \notin Gone
        /\ ypipe' = [ypipe EXCEPT ![outpipe[e]] = LastWords(e)]
        /\ Send(Peer(e), <<Cmd("activate_read", 0)>>) \/ Send(Peer(e), <<>>)
    BY <1>5 DEF Terminate, Gone
  <2>2. \A d \in Ends : /\ SameControl(mbox[d], mbox'[d])
                        /\ state[d] = "freed" => mbox'[d] = <<>>
    BY <1>0, <2>1, Wakes DEF PipeInv
  <2> QED BY <1>1, <2>1, <2>2, Quiet DEF PipeInv
<1> QED BY <1>2, <1>3, <1>4, <1>5 DEF Terminate

(* hiccup()                                                                *)
LEMMA HiccupStep ==
  ASSUME PipeInv, NEW e \in Ends, Hiccup(e)
  PROVE  Handshake' /\ Announced' /\ Memory'
<1> USE PipeAssumption
<1> DEFINE new == <<"session", Newest + 1>>
           c   == Cmd("hiccup", new)
<1>0. /\ e = "session" /\ Peer(e) = "socket" /\ "socket" \in Ends /\ "session" \in Ends
      /\ state["session"] = "active" /\ state["socket"] \in Unaware
      /\ state["socket"] \notin Gone
  BY TwoEnds DEF Hiccup, PipeInv, Handshake, Ends, PeersOf, Unaware, Gone
<1>1. /\ inpipe["session"] \in SessionQueues /\ inpipe["session"] = <<"session", Newest>>
      /\ Newest \in 0 .. MaxHiccups /\ Newest < MaxHiccups
      /\ inpipe' = [inpipe EXCEPT !["session"] = new]
      /\ Send("socket", <<c>>) /\ ypipe' = [ypipe EXCEPT ![new] = NewQueue]
      /\ UNCHANGED <<state, outpipe>>
  <2>1. inpipe["session"] # None /\ inpipe["session"] \in Queues /\ inpipe["session"][1] = "session"
    BY <1>0 DEF PipeInv, Handshake, Announced, Typed
  <2>2. inpipe["session"] \in SessionQueues /\ Newest \in 0 .. MaxHiccups
    BY <2>1 DEF Queues, SessionQueues, Newest
  <2>3. inpipe["session"] = <<"session", Newest>>
    BY <2>1, <2>2 DEF SessionQueues, Newest
  <2> QED BY <1>0, <2>2, <2>3 DEF Hiccup, Newest
<1>2. new \in SessionQueues /\ new \in Queues /\ c \in Command /\ c.cmd = "hiccup" /\ c.arg = new
  <2>1. new \in SessionQueues /\ new \in Queues
    BY <1>1 DEF SessionQueues, Queues
  <2> QED BY <2>1, CommandType DEF Cmd
<1>3. Newest' = Newest + 1 /\ Oldest' = Oldest /\ Oldest = outpipe["socket"][2]
  BY <1>0, <1>1 DEF Newest, Oldest, PipeInv, Typed, Handshake
<1>4. /\ mbox'["socket"] = Append(mbox["socket"], c) /\ mbox'["session"] = mbox["session"]
      /\ mbox["socket"] \in Seq(Command)
  BY <1>0, <1>1, <1>2, SendOne DEF PipeInv, Typed
<1>5. /\ ~Holds(mbox["socket"], "pipe_term") /\ ~Holds(mbox["socket"], "pipe_term_ack")
      /\ Ordered(mbox["socket"])
  BY <1>0, TwoEnds DEF PipeInv, Handshake, Requesting, Gone
<1>6. \A k \in 1 .. Len(mbox["socket"]) :
        mbox["socket"][k].cmd = "hiccup" => mbox["socket"][k].arg[2] < new[2]
  <2> SUFFICES ASSUME NEW k \in 1 .. Len(mbox["socket"]), mbox["socket"][k].cmd = "hiccup"
               PROVE  mbox["socket"][k].arg[2] < Newest + 1
    OBVIOUS
  <2>1. mbox["socket"][k].arg \in SessionQueues
    BY <1>4, CommandType
  <2>2. PICK n \in 0 .. MaxHiccups : mbox["socket"][k].arg = <<"session", n>>
    BY <2>1 DEF SessionQueues
  <2>3. Carries(mbox["socket"], n)
    BY <2>2 DEF Carries
  <2>4. n \in Oldest + 1 .. Newest
    BY <1>0, <2>3 DEF PipeInv, Announced
  <2> QED BY <1>1, <2>2, <2>4
<1> HIDE DEF c
<1>7. /\ Ordered(mbox'["socket"]) /\ mbox'["socket"] # <<>>
      /\ \A x : Holds(mbox'["socket"], x) <=> Holds(mbox["socket"], x) \/ x = "hiccup"
      /\ \A n : Carries(mbox'["socket"], n) <=>
                Carries(mbox["socket"], n) \/ new = <<"session", n>>
  <2> HIDE DEF new
  <2>1. \A k \in 1 .. Len(mbox["socket"]) :
          mbox["socket"][k].cmd = "hiccup" => mbox["socket"][k].arg[2] < c.arg[2]
    BY <1>2, <1>6
  <2>2. Ordered(Append(mbox["socket"], c))
    BY <1>2, <1>4, <1>5, <2>1, AppendOrdered
  <2>3. /\ Append(mbox["socket"], c) # <<>>
        /\ \A x : Holds(Append(mbox["socket"], c), x) <=>
                  Holds(mbox["socket"], x) \/ c.cmd = x
        /\ \A n : Carries(Append(mbox["socket"], c), n) <=>
                  Carries(mbox["socket"], n) \/ (c.cmd = "hiccup" /\ c.arg = <<"session", n>>)
    BY <1>2, <1>4, AppendBox
  <2> QED BY <1>2, <1>4, <2>2, <2>3
<1>8. Handshake'
  <2>1. \A d \in Ends : state'[Peer(d)] \in PeersOf(state'[d])
    BY <1>1 DEF PipeInv, Handshake
  <2>2. \A d \in Ends : \A x \in {"pipe_term", "pipe_term_ack"} :
          Holds(mbox'[d], x) <=> Holds(mbox[d], x)
    BY <1>4, <1>7 DEF Ends
  <2>3. \A d \in Ends : inpipe'[d] = None <=> state'[d] = "freed"
    BY <1>0, <1>1 DEF PipeInv, Handshake, Typed, Ends, None
  <2>4. \A d \in Ends : Ordered(mbox'[d]) /\ (state'[d] = "freed" => mbox'[d] = <<>>)
    BY <1>0, <1>1, <1>4, <1>7 DEF PipeInv, Handshake, Ends, Unaware
  <2>5. \A d \in Ends : outpipe'[d] = None <=> state'[d] \in Gone
    BY <1>1 DEF PipeInv, Handshake
  <2> QED BY <1>1, <2>1, <2>2, <2>3, <2>4, <2>5 DEF PipeInv, Handshake
<1>9. Announced'
  <2>1. ASSUME NEW n \in 0 .. MaxHiccups
        PROVE  Carries(mbox'["socket"], n) <=> n \in Oldest' + 1 .. Newest'
    <3>1. Oldest \in Nat /\ Oldest <= Newest
      <4>1. outpipe["socket"] \in SessionQueues
        BY <1>0 DEF PipeInv, Handshake, Announced, Typed, Queues, SessionQueues
      <4> QED BY <1>0, <1>3, <4>1 DEF PipeInv, Announced, SessionQueues
    <3>2. Carries(mbox["socket"], n) <=> n \in Oldest + 1 .. Newest
      BY <1>0 DEF PipeInv, Announced
    <3>3. Carries(mbox'["socket"], n) <=> Carries(mbox["socket"], n) \/ n = Newest + 1
      BY <1>7
    <3> QED BY <1>1, <1>3, <3>1, <3>2, <3>3
  <2>2. Oldest' <= Newest'
    <3>1. outpipe["socket"] \in SessionQueues
      BY <1>0 DEF PipeInv, Handshake, Announced, Typed, Queues, SessionQueues
    <3> QED BY <1>0, <1>1, <1>3, <3>1 DEF PipeInv, Announced, SessionQueues
  <2>3. /\ inpipe'["session"][1] = "session" /\ inpipe'["socket"] = inpipe["socket"]
        /\ outpipe' = outpipe /\ state' = state
    BY <1>0, <1>1 DEF PipeInv, Typed
  <2>4. ~Holds(mbox'["session"], "hiccup")
    BY <1>4 DEF PipeInv, Announced
  <2> QED BY <1>0, <2>1, <2>2, <2>3, <2>4 DEF PipeInv, Announced
<1>10. Memory'
  <2> SUFFICES ASSUME NEW q \in Queues PROVE ypipe'[q].memory = "live" <=> InUse(q)'
    BY DEF Memory
  <2>1. CASE q = new
    <3>1. ypipe'[q] = NewQueue
      BY <1>1, <1>2, <2>1 DEF PipeInv, Typed
    <3>2. Oldest' <= Newest'
      BY <1>9, <1>0, <1>1 DEF Announced
    <3>3. InUse(q)'
      BY <1>0, <1>1, <1>3, <2>1, <3>2 DEF InUse
    <3> QED BY <3>1, <3>3 DEF NewQueue
  <2>2. CASE q # new
    <3>1. ypipe'[q] = ypipe[q]
      BY <1>1, <1>2, <2>2 DEF PipeInv, Typed
    <3>2. q[1] = "socket" \/ q[2] # Newest + 1
      BY <2>2 DEF Queues
    <3>3. q[1] = "socket" \/ q[2] \in Nat
      BY DEF Queues
    <3>4. InUse(q)' <=> InUse(q)
      BY <1>0, <1>1, <1>3, <3>2, <3>3 DEF InUse
    <3> QED BY <3>1, <3>4 DEF PipeInv, Memory
  <2> QED BY <2>1, <2>2
<1> QED BY <1>8, <1>9, <1>10

(* The socket takes the next queue of the session and gives up its own.    *)
LEMMA Replaces ==
  ASSUME PipeInv, NEW e \in Ends, ProcessHiccup(e)
  PROVE  /\ e = "socket" /\ "socket" \in Ends /\ "session" \in Ends
         /\ Peer("socket") = "session" /\ Peer("session") = "socket"
         /\ state["socket"] \in Unaware /\ state["socket"] # "freed" /\ state["session"] # "freed"
         /\ state["socket"] \notin Gone
         /\ mbox["socket"] \in Seq(Command) /\ mbox["socket"] # <<>> /\ Ordered(mbox["socket"])
         /\ Head(mbox["socket"]).cmd = "hiccup" /\ Head(mbox["socket"]) \in Command
         /\ mbox'["socket"] = Tail(mbox["socket"]) /\ mbox'["session"] = mbox["session"]
         /\ outpipe["socket"] \in SessionQueues /\ outpipe["socket"] = <<"session", Oldest>>
         /\ inpipe["session"] \in SessionQueues /\ inpipe["session"] = <<"session", Newest>>
         /\ Newest \in 0 .. MaxHiccups /\ Oldest \in 0 .. MaxHiccups
         /\ \A m \in 0 .. MaxHiccups : Carries(mbox["socket"], m) <=> m \in Oldest + 1 .. Newest
         /\ \E n \in 0 .. MaxHiccups :
              /\ n = Oldest + 1 /\ n <= Newest
              /\ Newest' = Newest /\ Oldest' = n /\ outpipe'["socket"] = <<"session", n>>
              /\ \A m \in 0 .. MaxHiccups : Carries(Tail(mbox["socket"]), m) => n < m
              /\ \A m \in 0 .. MaxHiccups :
                   Carries(mbox["socket"], m) <=> Carries(Tail(mbox["socket"]), m) \/ m = n
<1> USE PipeAssumption
<1> DEFINE box == mbox["socket"]
           new == Head(box).arg
           was == outpipe["socket"]
<1>1. /\ mbox[e] # <<>> /\ Head(mbox[e]).cmd = "hiccup" /\ mbox' = Rest(e)
      /\ ypipe' = [ypipe EXCEPT ![outpipe[e]] = YFree(@)]
      /\ outpipe' = [outpipe EXCEPT ![e] = Head(mbox[e]).arg]
      /\ UNCHANGED <<state, inpipe>>
  BY DEF ProcessHiccup, Arrives, Arg
<1>2. \A d \in Ends : mbox[d] \in Seq(Command) /\ Ordered(mbox[d])
  BY DEF PipeInv, Typed, Handshake
<1>3. /\ e = "socket" /\ "socket" \in Ends /\ "session" \in Ends
      /\ Peer("socket") = "session" /\ Peer("session") = "socket"
      /\ state["socket"] \in Unaware /\ state["socket"] # "freed" /\ state["session"] # "freed"
      /\ state["socket"] \notin Gone
  <2>1. Holds(mbox[e], "hiccup")
    BY <1>1, <1>2, TailBox
  <2>2. e = "socket" /\ state["socket"] \in Unaware
    BY <2>1 DEF PipeInv, Announced, Ends
  <2>3. state["session"] # "freed"
    BY <2>2, TwoEnds DEF PipeInv, Handshake, PeersOf, Unaware, States, Ends
  <2> QED BY <2>2, <2>3, TwoEnds DEF Unaware, Gone, Ends
<1>4. /\ box \in Seq(Command) /\ box # <<>> /\ Ordered(box)
      /\ Head(box).cmd = "hiccup" /\ Head(box) \in Command
      /\ mbox'["socket"] = Tail(box) /\ mbox'["session"] = mbox["session"]
  <2>1. mbox'["socket"] = Tail(box) /\ mbox'["session"] = mbox["session"]
    BY <1>1, <1>3 DEF Rest, PipeInv, Typed
  <2> QED BY <1>1, <1>2, <1>3, <2>1, TailBox
<1>5. PICK n \in 0 .. MaxHiccups : new = <<"session", n>>
  BY <1>4, CommandType DEF SessionQueues
<1>6. /\ was \in SessionQueues /\ was = <<"session", Oldest>> /\ Oldest \in 0 .. MaxHiccups
  <2>1. was # None
    BY <1>3 DEF PipeInv, Handshake
  <2>2. was \in Queues /\ was[1] = "session"
    BY <1>3, <2>1 DEF PipeInv, Typed, Announced
  <2> QED BY <2>1, <2>2 DEF Oldest, Queues, SessionQueues
<1>7. /\ inpipe["session"] \in SessionQueues /\ Newest \in 0 .. MaxHiccups
      /\ inpipe["session"] = <<"session", Newest>>
  <2>1. inpipe["session"] \in Queues /\ inpipe["session"][1] = "session"
    BY <1>3 DEF PipeInv, Typed, Handshake, Announced
  <2> QED BY <2>1 DEF Newest, Queues, SessionQueues
<1> HIDE DEF box, new
<1>8. \A m \in 0 .. MaxHiccups : Carries(box, m) <=> m \in Oldest + 1 .. Newest
  BY <1>3 DEF PipeInv, Announced, box
<1>9. \A m \in 0 .. MaxHiccups : Carries(Tail(box), m) => n < m
  <2> SUFFICES ASSUME NEW m \in 0 .. MaxHiccups, Carries(Tail(box), m) PROVE n < m
    OBVIOUS
  <2>1. PICK k \in 1 .. Len(Tail(box)) :
          Tail(box)[k].cmd = "hiccup" /\ Tail(box)[k].arg = <<"session", m>>
    BY DEF Carries
  <2>2. Head(box).arg[2] < Tail(box)[k].arg[2]
    BY <1>4, <2>1, TailBox
  <2> QED BY <1>5, <2>1, <2>2 DEF new
<1>10. \A m \in 0 .. MaxHiccups : Carries(box, m) <=> Carries(Tail(box), m) \/ m = n
  <2>1. \A m : Carries(box, m) <=>
              Carries(Tail(box), m)
                \/ (Head(box).cmd = "hiccup" /\ Head(box).arg = <<"session", m>>)
    BY <1>4, TailBox
  <2>2. \A m : Head(box).arg = <<"session", m>> <=> m = n
    BY <1>5 DEF new
  <2> QED BY <1>4, <2>1, <2>2
<1>11. n = Oldest + 1 /\ n <= Newest
  <2>1. n \in Oldest + 1 .. Newest
    BY <1>8, <1>10
  <2>2. Carries(box, Oldest + 1)
    BY <1>6, <1>7, <1>8, <2>1
  <2>3. Oldest + 1 \in 0 .. MaxHiccups
    BY <1>6, <1>7, <2>1
  <2> QED BY <1>6, <1>7, <1>9, <1>10, <2>1, <2>2, <2>3
<1>12. Newest' = Newest /\ Oldest' = n /\ outpipe'["socket"] = <<"session", n>>
  <2>1. outpipe'["socket"] = <<"session", n>>
    BY <1>1, <1>3, <1>5 DEF PipeInv, Typed, new, box
  <2>2. outpipe'["socket"] # None
    BY <2>1, SomeQueue DEF Queues
  <2> QED BY <1>1, <2>1, <2>2 DEF Newest, Oldest
<1>13. \E m \in 0 .. MaxHiccups :
         /\ m = Oldest + 1 /\ m <= Newest
         /\ Newest' = Newest /\ Oldest' = m /\ outpipe'["socket"] = <<"session", m>>
         /\ \A l \in 0 .. MaxHiccups : Carries(Tail(box), l) => m < l
         /\ \A l \in 0 .. MaxHiccups : Carries(box, l) <=> Carries(Tail(box), l) \/ l = m
  <2> WITNESS n \in 0 .. MaxHiccups
  <2> QED BY <1>9, <1>10, <1>11, <1>12
<1> HIDE DEF was
<1> QED BY <1>3, <1>4, <1>6, <1>7, <1>8, <1>13 DEF box, was

(* process_hiccup(): the next queue is the one announced first.            *)
LEMMA ReplaceStep ==
  ASSUME PipeInv, NEW e \in Ends, ProcessHiccup(e)
  PROVE  Handshake' /\ Announced' /\ Memory'
<1> USE PipeAssumption
<1> DEFINE box == mbox["socket"]
           was == outpipe["socket"]
<1>1. /\ mbox[e] # <<>> /\ Head(mbox[e]).cmd = "hiccup" /\ mbox' = Rest(e)
      /\ ypipe' = [ypipe EXCEPT ![outpipe[e]] = YFree(@)]
      /\ outpipe' = [outpipe EXCEPT ![e] = Head(mbox[e]).arg]
      /\ UNCHANGED <<state, inpipe>>
  BY DEF ProcessHiccup, Arrives, Arg
<1>2. \A d \in Ends : mbox[d] \in Seq(Command) /\ Ordered(mbox[d])
  BY DEF PipeInv, Typed, Handshake
<1>3. /\ e = "socket" /\ "socket" \in Ends /\ "session" \in Ends
      /\ Peer("socket") = "session" /\ Peer("session") = "socket"
      /\ state["socket"] \in Unaware /\ state["socket"] # "freed" /\ state["session"] # "freed"
      /\ state["socket"] \notin Gone
  BY Replaces
<1>4. /\ box \in Seq(Command) /\ box # <<>> /\ Ordered(box)
      /\ Head(box).cmd = "hiccup" /\ Head(box) \in Command
      /\ mbox'["socket"] = Tail(box) /\ mbox'["session"] = mbox["session"]
  BY Replaces
<1>5. PICK n \in 0 .. MaxHiccups :
        /\ n = Oldest + 1 /\ n <= Newest
        /\ Newest' = Newest /\ Oldest' = n /\ outpipe'["socket"] = <<"session", n>>
        /\ \A m \in 0 .. MaxHiccups : Carries(Tail(box), m) => n < m
        /\ \A m \in 0 .. MaxHiccups : Carries(box, m) <=> Carries(Tail(box), m) \/ m = n
  BY Replaces
<1>6. /\ was \in SessionQueues /\ was = <<"session", Oldest>> /\ Oldest \in 0 .. MaxHiccups
      /\ inpipe["session"] \in SessionQueues /\ Newest \in 0 .. MaxHiccups
      /\ \A m \in 0 .. MaxHiccups : Carries(box, m) <=> m \in Oldest + 1 .. Newest
  BY Replaces
<1> HIDE DEF box, was
<1>7. Handshake'
  <2>1. /\ Ordered(Tail(box))
        /\ \A x \in {"pipe_term", "pipe_term_ack"} : Holds(Tail(box), x) <=> Holds(box, x)
    BY <1>4, TailBox
  <2>2. \A d \in Ends : \A x \in {"pipe_term", "pipe_term_ack"} :
          Holds(mbox'[d], x) <=> Holds(mbox[d], x)
    BY <1>4, <2>1 DEF Ends, box
  <2>3. /\ Ordered(mbox'["socket"]) /\ Ordered(mbox'["session"])
        /\ state'["socket"] # "freed" /\ state'["session"] # "freed"
    BY <1>1, <1>2, <1>3, <1>4, <2>1
  <2>4. /\ outpipe'["socket"] # None /\ outpipe["socket"] # None
        /\ outpipe'["session"] = outpipe["session"]
    <3>1. <<"session", n>> \in Queues /\ was \in Queues
      BY <1>6 DEF Queues, SessionQueues
    <3>2. outpipe'["socket"] # None /\ outpipe["socket"] # None
      BY <1>5, <3>1, SomeQueue DEF was
    <3>3. outpipe'["session"] = outpipe["session"]
      BY <1>1, <1>3 DEF PipeInv, Typed
    <3> QED BY <3>2, <3>3
  <2>5. \A d \in Ends : Ordered(mbox'[d]) /\ state'[d] # "freed"
    BY <2>3 DEF Ends
  <2>6. UNCHANGED <<state, inpipe>>
    BY <1>1
  <2>7. \A d \in Ends : state'[Peer(d)] \in PeersOf(state'[d])
    BY <2>6 DEF PipeInv, Handshake
  <2>8. \A d \in Ends : Holds(mbox'[d], "pipe_term") <=>
          state'[Peer(d)] \in Requesting /\ state'[d] \in Unaware
    BY <2>2, <2>6 DEF PipeInv, Handshake
  <2>9. \A d \in Ends : Holds(mbox'[d], "pipe_term_ack") <=>
          /\ state'[Peer(d)] \in Gone
          /\ state'[d] \in {"term_req_sent1", "term_req_sent2", "term_ack_sent"}
    BY <2>2, <2>6 DEF PipeInv, Handshake
  <2>10. \A d \in Ends : outpipe'[d] = None <=> state'[d] \in Gone
    BY <2>4, <2>6 DEF PipeInv, Handshake, Ends
  <2>11. \A d \in Ends : inpipe'[d] = None <=> state'[d] = "freed"
    BY <2>6 DEF PipeInv, Handshake
  <2> QED BY <2>5, <2>7, <2>8, <2>9, <2>10, <2>11 DEF Handshake
<1>8. Announced'
  <2>1. ASSUME NEW m \in 0 .. MaxHiccups
        PROVE  Carries(mbox'["socket"], m) <=> m \in Oldest' + 1 .. Newest'
    <3>1. Carries(Tail(box), m) <=> m \in n + 1 .. Newest
      <4>1. m \in Nat /\ Oldest \in Nat /\ Newest \in Nat /\ n \in Nat
        BY <1>6
      <4>2. CASE m = n
        BY <1>5, <4>1, <4>2
      <4>3. CASE m # n
        BY <1>5, <1>6, <4>1, <4>3
      <4> QED BY <4>2, <4>3
    <3> QED BY <1>4, <1>5, <3>1
  <2>2. /\ outpipe'["session"] = outpipe["session"] /\ outpipe'["socket"][1] = "session"
        /\ UNCHANGED <<inpipe, state>>
    BY <1>1, <1>3, <1>5 DEF PipeInv, Typed
  <2>3. Oldest' <= Newest'
    BY <1>5
  <2> QED BY <1>3, <1>4, <2>1, <2>2, <2>3 DEF PipeInv, Announced
<1>9. Memory'
  <2> SUFFICES ASSUME NEW q \in Queues PROVE ypipe'[q].memory = "live" <=> InUse(q)'
    BY DEF Memory
  <2>1. CASE q = was
    <3>1. ypipe'[q].memory = "freed"
      BY <1>1, <1>3, <2>1 DEF PipeInv, Typed, YFree, NoQueue, NewQueue, was
    <3>2. ~InUse(q)'
      BY <1>5, <1>6, <2>1 DEF InUse
    <3> QED BY <3>1, <3>2
  <2>2. CASE q # was
    <3>1. ypipe'[q] = ypipe[q]
      BY <1>1, <1>3, <2>2 DEF PipeInv, Typed, was
    <3>2. q[1] = "socket" \/ (q[2] \in Nat /\ q[2] # Oldest)
      BY <1>6, <2>2 DEF Queues
    <3>3. InUse(q)' <=> InUse(q)
      BY <1>1, <1>3, <1>5, <1>6, <3>2 DEF InUse
    <3> QED BY <3>1, <3>3 DEF PipeInv, Memory
  <2> QED BY <2>1, <2>2
<1> QED BY <1>7, <1>8, <1>9

(* Taking the first command, and answering it or not.                      *)
LEMMA TakeOne ==
  ASSUME Typed, Handshake, NEW e \in Ends, mbox[e] # <<>>, NEW c \in Command
  PROVE  /\ mbox' = Rest(e) => /\ mbox'[e] = Tail(mbox[e])
                               /\ mbox'[Peer(e)] = mbox[Peer(e)]
         /\ mbox' = RestAnd(e, c) => /\ mbox'[e] = Tail(mbox[e])
                                     /\ mbox'[Peer(e)] = Append(mbox[Peer(e)], c)
         /\ mbox[e] \in Seq(Command) /\ Ordered(mbox[e])
         /\ mbox[Peer(e)] \in Seq(Command) /\ Ordered(mbox[Peer(e)])
BY TwoEnds DEF Typed, Handshake, Rest, RestAnd

(* What the end that answers a request, or takes the answer, sends.        *)
LEMMA Answer ==
  ASSUME NEW box \in Seq(Command), Ordered(box), ~Holds(box, "pipe_term_ack")
  PROVE  LET new == Append(box, Cmd("pipe_term_ack", 0))
         IN  /\ new \in Seq(Command) /\ Ordered(new) /\ Cmd("pipe_term_ack", 0) \in Command
             /\ \A x : Holds(new, x) <=> Holds(box, x) \/ x = "pipe_term_ack"
             /\ \A n : Carries(new, n) <=> Carries(box, n)
<1> DEFINE c == Cmd("pipe_term_ack", 0)
<1>1. c \in Command /\ c.cmd = "pipe_term_ack"
  BY CommandType
<1> HIDE DEF c
<1>2. Ordered(Append(box, c))
  BY <1>1, AppendOrdered
<1>3. /\ Append(box, c) \in Seq(Command)
      /\ \A x : Holds(Append(box, c), x) <=> Holds(box, x) \/ c.cmd = x
      /\ \A n : Carries(Append(box, c), n) <=>
                Carries(box, n) \/ (c.cmd = "hiccup" /\ c.arg = <<"session", n>>)
  BY <1>1, AppendBox
<1>4. \A n : Carries(Append(box, c), n) <=> Carries(box, n)
  BY <1>1, <1>3
<1>5. \A x : Holds(Append(box, c), x) <=> Holds(box, x) \/ x = "pipe_term_ack"
  BY <1>1, <1>3
<1> QED BY <1>1, <1>2, <1>3, <1>4, <1>5 DEF c

(* process_pipe_term()                                                     *)
LEMMA RequestStep ==
  ASSUME PipeInv, NEW e \in Ends, ProcessPipeTerm(e)
  PROVE  Handshake' /\ Announced' /\ Memory'
<1> DEFINE p == Peer(e)
           box == mbox[e]
<1>0. p \in Ends /\ p # e /\ Peer(p) = e /\ \A d \in Ends : d = e \/ d = p
  BY TwoEnds
<1>1. /\ mbox[e] # <<>> /\ Head(mbox[e]).cmd = "pipe_term"
      /\ UNCHANGED <<inpipe, ypipe>>
  BY DEF ProcessPipeTerm, Arrives
<1>2. /\ box \in Seq(Command) /\ Ordered(box)
      /\ mbox[p] \in Seq(Command) /\ Ordered(mbox[p])
      /\ mbox'[e] = Tail(box)
  <2>1. mbox' = Rest(e) \/ mbox' = RestAnd(e, Cmd("pipe_term_ack", 0))
    BY DEF ProcessPipeTerm
  <2>2. Cmd("pipe_term_ack", 0) \in Command
    BY CommandType
  <2> QED BY <1>1, <2>1, <2>2, TakeOne DEF PipeInv
<1>3. /\ Ordered(Tail(box)) /\ ~Holds(Tail(box), "pipe_term") /\ ~Holds(Tail(box), "hiccup")
      /\ ~Holds(box, "hiccup") /\ Holds(box, "pipe_term")
      /\ Holds(Tail(box), "pipe_term_ack") <=> Holds(box, "pipe_term_ack")
      /\ \A n : Carries(Tail(box), n) <=> Carries(box, n)
  <2>1. /\ Ordered(Tail(box)) /\ Holds(box, Head(box).cmd)
        /\ \A x : Holds(box, x) <=> Holds(Tail(box), x) \/ Head(box).cmd = x
        /\ \A n : Carries(box, n) <=>
              Carries(Tail(box), n)
                \/ (Head(box).cmd = "hiccup" /\ Head(box).arg = <<"session", n>>)
        /\ Head(box).cmd = "pipe_term" =>
              ~Holds(Tail(box), "pipe_term") /\ ~Holds(Tail(box), "hiccup")
    BY <1>1, <1>2, TailBox
  <2> QED BY <1>1, <2>1
<1> HIDE DEF box
<1>4. state[p] \in Requesting /\ state[e] \in Unaware /\ state[p] \in PeersOf(state[e])
  BY <1>0, <1>3 DEF PipeInv, Handshake, box
<1>5. state[p] # "freed" /\ state[e] # "freed" /\ state[e] \notin Gone
  BY <1>4 DEF Requesting, Unaware, Gone
<1>6. ~Holds(mbox[p], "pipe_term_ack")
  BY <1>0, <1>5 DEF PipeInv, Handshake
<1>7. (* The request waits for the delimiter. *)
      CASE state[e] = "active" /\ e \in delay
  <2>1. /\ state'[e] = "waiting_for_delimiter" /\ state'[p] = state[p] /\ outpipe' = outpipe
        /\ mbox'[p] = mbox[p]
    <3>1. mbox' = Rest(e)
      BY <1>7 DEF ProcessPipeTerm
    <3> QED BY <1>0, <1>1, <1>7, <3>1, TakeOne DEF ProcessPipeTerm, SetState, PipeInv, Typed, Rest
  <2>2. state[p] = "term_req_sent1"
    BY <1>4, <1>7 DEF Requesting, PeersOf
  <2>3. Handshake'
    <3>1. \A d \in Ends : state'[Peer(d)] \in PeersOf(state'[d])
      BY <1>0, <2>1, <2>2 DEF PeersOf, States
    <3>2. \A d \in Ends : Holds(mbox'[d], "pipe_term") <=>
            state'[Peer(d)] \in Requesting /\ state'[d] \in Unaware
      BY <1>0, <1>2, <1>3, <1>7, <2>1, <2>2 DEF PipeInv, Handshake, Requesting, Unaware
    <3>3. \A d \in Ends : Holds(mbox'[d], "pipe_term_ack") <=>
            /\ state'[Peer(d)] \in Gone
            /\ state'[d] \in {"term_req_sent1", "term_req_sent2", "term_ack_sent"}
      BY <1>0, <1>2, <1>3, <1>7, <2>1, <2>2 DEF PipeInv, Handshake, Gone, box
    <3>4. \A d \in Ends : outpipe'[d] = None <=> state'[d] \in Gone
      BY <1>0, <1>7, <2>1 DEF PipeInv, Handshake, Gone
    <3>5. \A d \in Ends : inpipe'[d] = None <=> state'[d] = "freed"
      BY <1>0, <1>1, <1>7, <2>1 DEF PipeInv, Handshake
    <3>6. \A d \in Ends : Ordered(mbox'[d]) /\ state'[d] # "freed"
      BY <1>0, <1>2, <1>3, <2>1, <2>2
    <3> QED BY <3>1, <3>2, <3>3, <3>4, <3>5, <3>6 DEF Handshake
  <2>4. Newest' = Newest /\ Oldest' = Oldest
    BY <1>1, <2>1 DEF Newest, Oldest
  <2>5. \A d \in Ends : /\ Holds(mbox'[d], "hiccup") <=> Holds(mbox[d], "hiccup")
                        /\ \A n : Carries(mbox'[d], n) <=> Carries(mbox[d], n)
    BY <1>0, <1>2, <1>3, <2>1 DEF box
  <2>6. \A d \in Ends : state[d] # "freed" /\ state'[d] # "freed"
    BY <1>0, <1>5, <2>1
  <2>7. Holds(mbox["socket"], "hiccup") => state'["socket"] \in Unaware
    <3>1. CASE e = "socket"
      BY <1>3, <3>1 DEF box
    <3>2. CASE p = "socket"
      BY <2>1, <3>2 DEF PipeInv, Announced
    <3> QED BY <1>0, <3>1, <3>2 DEF Ends
  <2>8. Announced'
    BY <1>1, <2>1, <2>4, <2>5, <2>6, <2>7 DEF PipeInv, Announced, Ends
  <2>9. Memory'
    BY <1>1, <2>4, <2>6 DEF PipeInv, Memory, InUse, Ends
  <2> QED BY <2>3, <2>8, <2>9
<1>8. CASE ~(state[e] = "active" /\ e \in delay)
  <2>1. /\ state'[e] = IF state[e] = "term_req_sent1" THEN "term_req_sent2" ELSE "term_ack_sent"
        /\ state'[p] = state[p] /\ outpipe' = [outpipe EXCEPT ![e] = None]
        /\ outpipe'[e] = None /\ outpipe'[p] = outpipe[p]
        /\ mbox'[p] = Append(mbox[p], Cmd("pipe_term_ack", 0))
    <3>1. mbox' = RestAnd(e, Cmd("pipe_term_ack", 0)) /\ Cmd("pipe_term_ack", 0) \in Command
      BY <1>8, CommandType DEF ProcessPipeTerm
    <3>2. mbox'[p] = Append(mbox[p], Cmd("pipe_term_ack", 0))
      BY <1>1, <3>1, TakeOne DEF PipeInv
    <3> QED BY <1>0, <1>8, <3>2 DEF ProcessPipeTerm, SetState, PipeInv, Typed
  <2>2. /\ Ordered(mbox'[p])
        /\ \A x : Holds(mbox'[p], x) <=> Holds(mbox[p], x) \/ x = "pipe_term_ack"
        /\ \A n : Carries(mbox'[p], n) <=> Carries(mbox[p], n)
    BY <1>2, <1>6, <2>1, Answer
  <2>3. Handshake'
    <3>1. \A d \in Ends : state'[Peer(d)] \in PeersOf(state'[d])
      BY <1>0, <1>4, <2>1 DEF PeersOf, States, Requesting, Unaware
    <3>2. \A d \in Ends : Holds(mbox'[d], "pipe_term") <=>
            state'[Peer(d)] \in Requesting /\ state'[d] \in Unaware
      <4>1. Holds(mbox'[p], "pipe_term") <=> Holds(mbox[p], "pipe_term")
        BY <2>2
      <4>2. /\ state'[e] \notin Unaware
            /\ state[p] \in Unaware => (state'[e] \in Requesting <=> state[e] \in Requesting)
        BY <1>4, <2>1 DEF Requesting, Unaware, PeersOf
      <4>3. ~Holds(mbox'[e], "pipe_term")
        BY <1>2, <1>3
      <4>4. Holds(mbox[p], "pipe_term") <=> state[e] \in Requesting /\ state[p] \in Unaware
        BY <1>0 DEF PipeInv, Handshake
      <4> QED BY <1>0, <2>1, <4>1, <4>2, <4>3, <4>4
    <3>3. \A d \in Ends : Holds(mbox'[d], "pipe_term_ack") <=>
            /\ state'[Peer(d)] \in Gone
            /\ state'[d] \in {"term_req_sent1", "term_req_sent2", "term_ack_sent"}
      <4>1. Holds(mbox'[p], "pipe_term_ack")
        BY <2>2
      <4>2. /\ state'[e] \in Gone
            /\ state[p] \in {"term_req_sent1", "term_req_sent2", "term_ack_sent"}
        BY <1>4, <2>1 DEF Requesting, Gone
      <4>3. Holds(mbox'[e], "pipe_term_ack") <=> Holds(mbox[e], "pipe_term_ack")
        BY <1>2, <1>3 DEF box
      <4>4. Holds(mbox[e], "pipe_term_ack") <=>
              /\ state[p] \in Gone
              /\ state[e] \in {"term_req_sent1", "term_req_sent2", "term_ack_sent"}
        BY <1>0 DEF PipeInv, Handshake
      <4>5. state[p] \in Gone =>
              (/\ state'[e] \in {"term_req_sent1", "term_req_sent2", "term_ack_sent"}
               /\ state[e] \in {"term_req_sent1", "term_req_sent2", "term_ack_sent"})
        BY <1>4, <2>1 DEF Requesting, Unaware, PeersOf, Gone
      <4> QED BY <1>0, <2>1, <4>1, <4>2, <4>3, <4>4, <4>5
    <3>4. \A d \in Ends : outpipe'[d] = None <=> state'[d] \in Gone
      BY <1>0, <2>1 DEF PipeInv, Handshake, Gone
    <3>5. \A d \in Ends : inpipe'[d] = None <=> state'[d] = "freed"
      BY <1>0, <1>1, <1>5, <2>1 DEF PipeInv, Handshake
    <3>6. \A d \in Ends : Ordered(mbox'[d]) /\ state'[d] # "freed"
      BY <1>0, <1>2, <1>3, <1>5, <2>1, <2>2
    <3> QED BY <3>1, <3>2, <3>3, <3>4, <3>5, <3>6 DEF Handshake
  <2>4. e = "socket" => ~Holds(mbox["socket"], "hiccup")
    BY <1>3 DEF box
  <2>5. Newest' = Newest /\ (state["session"] # "freed" => Oldest' = Oldest)
    BY <1>1, <2>1, <2>4, GivesUp DEF PipeInv
  <2>6. \A d \in Ends : /\ Holds(mbox'[d], "hiccup") <=> Holds(mbox[d], "hiccup")
                        /\ \A n : Carries(mbox'[d], n) <=> Carries(mbox[d], n)
    BY <1>0, <1>2, <1>3, <2>2 DEF box
  <2>7. \A d \in Ends : /\ state[d] # "freed" /\ state'[d] # "freed"
                        /\ outpipe'[d] \in {outpipe[d], None}
    BY <1>0, <1>5, <2>1
  <2>8. Holds(mbox["socket"], "hiccup") => state'["socket"] \in Unaware
    <3>1. CASE e = "socket"
      BY <2>4, <3>1
    <3>2. CASE p = "socket"
      BY <2>1, <3>2 DEF PipeInv, Announced
    <3> QED BY <1>0, <3>1, <3>2 DEF Ends
  <2>9. Announced'
    BY <1>1, <2>5, <2>6, <2>7, <2>8 DEF PipeInv, Announced, Ends
  <2>10. Memory'
    BY <1>1, <2>5, <2>7 DEF PipeInv, Memory, InUse, Ends
  <2> QED BY <2>3, <2>9, <2>10
<1> QED BY <1>7, <1>8

(* process_pipe_term_ack()                                                 *)
LEMMA FreeStep ==
  ASSUME PipeInv, NEW e \in Ends, ProcessPipeTermAck(e)
  PROVE  Handshake' /\ Announced' /\ Memory'
<1> DEFINE p == Peer(e)
           box == mbox[e]
<1>0. /\ p \in Ends /\ p # e /\ Peer(p) = e /\ \A d \in Ends : d = e \/ d = p
      /\ e = "socket" => p = "session"
      /\ e = "session" => p = "socket"
  BY TwoEnds
<1>1. /\ mbox[e] # <<>> /\ Head(mbox[e]).cmd = "pipe_term_ack"
      /\ SetState(e, "freed") /\ outpipe' = [outpipe EXCEPT ![e] = None]
      /\ inpipe' = [inpipe EXCEPT ![e] = None]
      /\ ypipe' = [ypipe EXCEPT ![inpipe[e]] = YFree(@)]
  BY DEF ProcessPipeTermAck, Arrives
<1>2. /\ box \in Seq(Command) /\ Ordered(box)
      /\ mbox[p] \in Seq(Command) /\ Ordered(mbox[p])
      /\ mbox'[e] = Tail(box)
  <2>1. mbox' = Rest(e) \/ mbox' = RestAnd(e, Cmd("pipe_term_ack", 0))
    BY DEF ProcessPipeTermAck
  <2>2. Cmd("pipe_term_ack", 0) \in Command
    BY CommandType
  <2> QED BY <1>1, <2>1, <2>2, TakeOne DEF PipeInv
<1>3. /\ Tail(box) = <<>> /\ Holds(box, "pipe_term_ack") /\ Ordered(Tail(box))
      /\ \A x : ~Holds(Tail(box), x)
      /\ ~Holds(box, "hiccup")
  <2>1. /\ Tail(box) = <<>> /\ Ordered(Tail(box)) /\ Holds(box, Head(box).cmd)
        /\ \A x : Holds(box, x) <=> Holds(Tail(box), x) \/ Head(box).cmd = x
    BY <1>1, <1>2, TailBox
  <2>2. \A x : ~Holds(Tail(box), x)
    BY <2>1, EmptyBox
  <2>3. Holds(box, "hiccup") <=> Holds(Tail(box), "hiccup") \/ Head(box).cmd = "hiccup"
    BY <2>1
  <2> QED BY <1>1, <2>1, <2>2, <2>3
<1> HIDE DEF box
<1>4. /\ state[p] \in Gone /\ state[e] \in {"term_req_sent1", "term_req_sent2", "term_ack_sent"}
      /\ state[p] \in PeersOf(state[e]) /\ state[p] \notin Unaware
  BY <1>0, <1>3 DEF PipeInv, Handshake, box, Gone, Unaware
<1>5. /\ state'[e] = "freed" /\ state'[p] = state[p]
      /\ outpipe'[e] = None /\ inpipe'[e] = None
      /\ outpipe'[p] = outpipe[p] /\ inpipe'[p] = inpipe[p]
  BY <1>0, <1>1 DEF PipeInv, Typed, SetState
<1>6. /\ Ordered(mbox'[p])
      /\ Holds(mbox'[p], "pipe_term_ack") <=> state[p] \in {"term_ack_sent", "term_req_sent2"}
      /\ \A x \in {"pipe_term", "hiccup"} : Holds(mbox'[p], x) <=> Holds(mbox[p], x)
      /\ state[p] = "freed" => mbox'[p] = <<>>
  <2>0. /\ Holds(mbox[p], "pipe_term_ack") <=>
             /\ state[e] \in Gone
             /\ state[p] \in {"term_req_sent1", "term_req_sent2", "term_ack_sent"}
        /\ state[p] = "freed" => mbox[p] = <<>>
    BY <1>0 DEF PipeInv, Handshake
  <2>1. CASE state[e] = "term_req_sent1"
    <3>1. mbox' = RestAnd(e, Cmd("pipe_term_ack", 0)) /\ Cmd("pipe_term_ack", 0) \in Command
      BY <2>1, CommandType DEF ProcessPipeTermAck
    <3>2. mbox'[p] = Append(mbox[p], Cmd("pipe_term_ack", 0))
      BY <1>1, <3>1, TakeOne DEF PipeInv
    <3>3. state[p] \in {"term_ack_sent", "term_req_sent2"} /\ ~Holds(mbox[p], "pipe_term_ack")
      BY <1>4, <2>0, <2>1 DEF PeersOf, Gone, States
    <3>4. /\ Ordered(mbox'[p])
          /\ \A x : Holds(mbox'[p], x) <=> Holds(mbox[p], x) \/ x = "pipe_term_ack"
      BY <1>2, <3>2, <3>3, Answer
    <3> QED BY <3>3, <3>4
  <2>2. CASE state[e] # "term_req_sent1"
    <3>1. mbox' = Rest(e)
      BY <2>2 DEF ProcessPipeTermAck
    <3>2. mbox'[p] = mbox[p]
      BY <1>1, <3>1, TakeOne, CommandType DEF PipeInv
    <3>3. state[e] \in Gone /\ (state[p] # "freed" => state[p] = "term_req_sent2")
      BY <1>4, <2>2 DEF PeersOf, Gone
    <3> QED BY <1>2, <2>0, <3>2, <3>3
  <2> QED BY <2>1, <2>2
<1>7. Handshake'
  <2>1. \A d \in Ends : state'[Peer(d)] \in PeersOf(state'[d])
    BY <1>0, <1>4, <1>5 DEF PeersOf, States, Gone
  <2>2. \A d \in Ends : Holds(mbox'[d], "pipe_term") <=>
          state'[Peer(d)] \in Requesting /\ state'[d] \in Unaware
    <3>1. ~Holds(mbox[p], "pipe_term") /\ state[p] \notin Unaware
      BY <1>0, <1>4 DEF PipeInv, Handshake
    <3>2. state'[e] \notin Unaware /\ state'[e] \notin Requesting
      BY <1>5 DEF Unaware, Requesting
    <3>3. ~Holds(mbox'[e], "pipe_term") /\ ~Holds(mbox'[p], "pipe_term")
      BY <1>2, <1>3, <1>6, <3>1
    <3> QED BY <1>0, <1>5, <3>1, <3>2, <3>3
  <2>3. \A d \in Ends : Holds(mbox'[d], "pipe_term_ack") <=>
          /\ state'[Peer(d)] \in Gone
          /\ state'[d] \in {"term_req_sent1", "term_req_sent2", "term_ack_sent"}
    <3>1. state'[e] \in Gone /\ ~Holds(mbox'[e], "pipe_term_ack")
      BY <1>2, <1>3, <1>5 DEF Gone
    <3>2. state[p] \in {"term_ack_sent", "term_req_sent2"} <=>
            state[p] \in {"term_req_sent1", "term_req_sent2", "term_ack_sent"}
      BY <1>4 DEF Gone
    <3> QED BY <1>0, <1>5, <1>6, <3>1, <3>2
  <2>4. \A d \in Ends : outpipe'[d] = None <=> state'[d] \in Gone
    BY <1>0, <1>5 DEF PipeInv, Handshake, Gone
  <2>5. \A d \in Ends : inpipe'[d] = None <=> state'[d] = "freed"
    BY <1>0, <1>5 DEF PipeInv, Handshake
  <2>6. \A d \in Ends : Ordered(mbox'[d]) /\ (state'[d] = "freed" => mbox'[d] = <<>>)
    BY <1>0, <1>2, <1>3, <1>5, <1>6
  <2> QED BY <2>1, <2>2, <2>3, <2>4, <2>5, <2>6 DEF Handshake
<1>8. ~Holds(mbox["socket"], "hiccup") /\ ~Holds(mbox'["socket"], "hiccup")
  <2>1. CASE e = "socket"
    BY <1>2, <1>3, <2>1 DEF box
  <2>2. CASE p = "socket"
    BY <1>4, <1>6, <2>2 DEF PipeInv, Announced
  <2> QED BY <1>0, <2>1, <2>2 DEF Ends
<1>9. ~Holds(mbox'["session"], "hiccup")
  <2>1. CASE e = "session"
    BY <1>2, <1>3, <2>1 DEF box
  <2>2. CASE p = "session"
    BY <1>6, <2>2 DEF PipeInv, Announced
  <2> QED BY <1>0, <2>1, <2>2 DEF Ends
<1>10. state'["session"] # "freed" =>
         /\ state["session"] # "freed" /\ e = "socket"
         /\ Newest' = Newest /\ Oldest' = Newest /\ Oldest = Newest
  <2> SUFFICES ASSUME state'["session"] # "freed"
               PROVE  /\ state["session"] # "freed" /\ e = "socket"
                      /\ Newest' = Newest /\ Oldest' = Newest /\ Oldest = Newest
    OBVIOUS
  <2>1. e = "socket" /\ p = "session"
    BY <1>0, <1>5 DEF Ends
  <2>2. state["session"] # "freed" /\ inpipe'["session"] = inpipe["session"]
    BY <1>5, <2>1
  <2>3. Oldest = Newest
    BY <1>8, <2>2, NoHiccups DEF PipeInv
  <2>4. Newest' = Newest
    BY <2>2 DEF Newest
  <2>5. Oldest' = Newest'
    BY <1>5, <2>1 DEF Oldest
  <2> QED BY <2>1, <2>2, <2>3, <2>4, <2>5
<1>11. Announced'
  <2>1. \A d \in Ends : inpipe'[d] \in {inpipe[d], None} /\ outpipe'[d] \in {outpipe[d], None}
    BY <1>0, <1>5
  <2>2. ASSUME state'["session"] # "freed"
        PROVE  /\ Oldest' <= Newest'
               /\ \A n \in 0 .. MaxHiccups :
                    Carries(mbox'["socket"], n) <=> n \in Oldest' + 1 .. Newest'
    <3>1. Newest \in Int
      <4>1. inpipe["session"] # None
        BY <1>10, <2>2 DEF PipeInv, Handshake, Ends
      <4>2. inpipe["session"] \in Queues
        BY <4>1 DEF PipeInv, Typed, Ends
      <4> QED BY <4>2, PipeAssumption DEF Newest, Queues
    <3>2. \A n \in 0 .. MaxHiccups : ~Carries(mbox'["socket"], n)
      BY <1>8 DEF Carries, Holds
    <3>3. Oldest' = Newest /\ Newest' = Newest
      BY <1>10, <2>2
    <3> QED BY <3>1, <3>2, <3>3
  <2> QED BY <1>8, <1>9, <2>1, <2>2 DEF PipeInv, Announced, Ends
<1>12. Memory'
  <2> SUFFICES ASSUME NEW q \in Queues PROVE ypipe'[q].memory = "live" <=> InUse(q)'
    BY DEF Memory
  <2>0. inpipe[e] # None /\ inpipe[e] \in Queues /\ state[e] # "freed"
    BY <1>4 DEF PipeInv, Handshake, Typed
  <2>1. CASE q = inpipe[e]
    <3>1. ypipe'[q].memory = "freed"
      BY <1>1, <2>0, <2>1 DEF PipeInv, Typed, YFree, NoQueue, NewQueue
    <3>2. CASE e = "socket"
      <4>1. q[1] = "socket"
        BY <2>0, <2>1, <3>2 DEF PipeInv, Announced
      <4> QED BY <1>5, <3>1, <3>2, <4>1 DEF InUse
    <3>3. CASE e = "session"
      <4>1. q[1] = "session"
        BY <2>0, <2>1, <3>3 DEF PipeInv, Announced
      <4> QED BY <1>5, <3>1, <3>3, <4>1 DEF InUse
    <3> QED BY <3>2, <3>3 DEF Ends
  <2>2. CASE q # inpipe[e]
    <3>1. ypipe'[q] = ypipe[q]
      BY <1>1, <2>0, <2>2 DEF PipeInv, Typed
    <3>2. CASE e = "socket"
      <4>1. q[1] = "session"
        <5>1. inpipe["socket"] = <<"socket", 0>>
          BY <2>0, <3>2 DEF PipeInv, Announced
        <5> QED BY <2>2, <3>2, <5>1 DEF Queues
      <4>2. state'["session"] = state["session"]
        BY <1>0, <1>5, <3>2
      <4>3. InUse(q)' <=> InUse(q)
        BY <1>10, <4>1, <4>2 DEF InUse
      <4> QED BY <3>1, <4>3 DEF PipeInv, Memory
    <3>3. CASE e = "session"
      <4>1. CASE q[1] = "socket"
        BY <1>0, <1>5, <3>1, <3>3, <4>1 DEF InUse, PipeInv, Memory
      <4>2. CASE q[1] # "socket"
        <5>1. Oldest = Newest /\ state["session"] # "freed"
          BY <1>8, <2>0, <3>3, NoHiccups DEF PipeInv
        <5>2. inpipe["session"][1] = "session" /\ q[1] = "session"
          BY <2>0, <3>3, <4>2 DEF PipeInv, Announced, Queues
        <5>3. q[2] # Newest /\ q[2] \in Int /\ Newest \in Int
          BY <2>0, <2>2, <3>3, <5>2, PipeAssumption DEF Newest, Queues
        <5>4. ~InUse(q)
          BY <4>2, <5>1, <5>3 DEF InUse
        <5>5. ~InUse(q)'
          BY <1>5, <3>3, <4>2 DEF InUse
        <5> QED BY <3>1, <5>4, <5>5 DEF PipeInv, Memory
      <4> QED BY <4>1, <4>2
    <3> QED BY <3>2, <3>3 DEF Ends
  <2> QED BY <2>1, <2>2
<1> QED BY <1>7, <1>11, <1>12

-----------------------------------------------------------------------------
(* The state of a pipe is sound.                                           *)

(* A command finds its end in a state that expects it.                     *)
LEMMA InTurnFromInv == ASSUME PipeInv PROVE InTurn
<1> SUFFICES ASSUME NEW e \in Ends, mbox[e] # <<>>
             PROVE  Expects(e, Head(mbox[e]).cmd)
  BY DEF InTurn
<1>1. mbox[e] \in Seq(Command) /\ Ordered(mbox[e]) /\ state[e] # "freed"
  BY DEF PipeInv, Typed, Handshake
<1>2. Holds(mbox[e], Head(mbox[e]).cmd) /\ Head(mbox[e]) \in Command
  BY <1>1, TailBox
<1>3. /\ Holds(mbox[e], "pipe_term") => state[e] \in Unaware
      /\ Holds(mbox[e], "pipe_term_ack") =>
           state[e] \in {"term_req_sent1", "term_req_sent2", "term_ack_sent"}
      /\ outpipe[e] = None <=> state[e] \in Gone
  BY DEF PipeInv, Handshake
<1>4. Holds(mbox[e], "hiccup") => state[e] \in Unaware
  BY DEF PipeInv, Announced, Ends
<1> QED BY <1>1, <1>2, <1>3, <1>4 DEF Expects, Unaware, Gone

(* No end touches a queue that was deallocated, and none is forgotten.     *)
LEMMA NoDanglingFromInv == ASSUME PipeInv PROVE NoDangling
<1>1. ASSUME NEW e \in Ends
      PROVE  /\ inpipe[e] # None => Mine(e).memory = "live"
             /\ outpipe[e] # None => Out(e).memory = "live"
  <2>0. "socket" \in Ends /\ "session" \in Ends /\ (e = "socket" \/ e = "session")
    BY DEF Ends
  <2>1. ASSUME inpipe[e] # None PROVE InUse(inpipe[e]) /\ inpipe[e] \in Queues
    <3>1. inpipe[e] \in Queues /\ state[e] # "freed"
      BY <2>1 DEF PipeInv, Typed, Handshake
    <3>2. CASE e = "socket"
      BY <2>1, <3>1, <3>2 DEF PipeInv, Announced, InUse
    <3>3. CASE e = "session"
      <4>1. inpipe["session"][1] = "session" /\ Oldest <= Newest /\ Newest \in Int
        BY <2>1, <3>1, <3>3, PipeAssumption DEF PipeInv, Announced, Newest, Queues
      <4>2. Oldest \in Int
        <5>1. outpipe["socket"] # None => outpipe["socket"] \in Queues /\ outpipe["socket"][1] = "session"
          BY <2>0 DEF PipeInv, Typed, Announced
        <5> QED BY <4>1, <5>1, PipeAssumption DEF Oldest, Queues
      <4> QED BY <3>1, <3>3, <4>1, <4>2 DEF InUse, Newest
    <3> QED BY <2>0, <3>2, <3>3
  <2>2. ASSUME outpipe[e] # None PROVE InUse(outpipe[e]) /\ outpipe[e] \in Queues
    <3>1. outpipe[e] \in Queues /\ state[e] \notin Gone
      BY <2>2 DEF PipeInv, Typed, Handshake
    <3>2. state[Peer(e)] # "freed"
      <4>1. state[Peer(e)] \in States /\ Peer(e) \in Ends /\ state[e] \in PeersOf(state[Peer(e)])
        BY TwoEnds DEF PipeInv, Typed, Handshake
      <4> QED BY <3>1, <4>1 DEF PeersOf, Gone
    <3>3. CASE e = "session"
      BY <2>2, <3>1, <3>2, <3>3, TwoEnds DEF PipeInv, Announced, InUse
    <3>4. CASE e = "socket"
      <4>1. state["session"] # "freed"
        BY <3>2, <3>4, TwoEnds
      <4>2. outpipe["socket"][1] = "session" /\ Oldest <= Newest /\ Oldest = outpipe["socket"][2]
        BY <2>2, <3>4, <4>1 DEF PipeInv, Announced, Oldest
      <4>3. Oldest \in Int
        BY <3>1, <3>4, <4>2, PipeAssumption DEF Queues
      <4>4. inpipe["session"] \in Queues /\ inpipe["session"][1] = "session"
        BY <2>0, <4>1 DEF PipeInv, Typed, Handshake, Announced
      <4>5. Newest \in Int
        BY <4>4, PipeAssumption DEF Newest, Queues
      <4> QED BY <3>1, <3>4, <4>1, <4>2, <4>3, <4>5 DEF InUse
    <3> QED BY <2>0, <3>3, <3>4
  <2> QED BY <2>1, <2>2 DEF PipeInv, Memory, Mine, Out
<1>2. ASSUME \A e \in Ends : state[e] = "freed", NEW q \in Queues
      PROVE  ypipe[q].memory # "live"
  BY <1>2 DEF PipeInv, Memory, InUse, Ends
<1> QED BY <1>1, <1>2 DEF NoDangling

(* The invariant holds in the beginning, ...                               *)
LEMMA PipeInvInit == PipeInit => PipeInv
<1> SUFFICES ASSUME PipeInit PROVE PipeInv
  OBVIOUS
<1> USE PipeAssumption
<1>0. /\ <<"socket", 0>> \in Queues /\ <<"session", 0>> \in Queues
      /\ \A e \in Ends : <<e, 0>> \in Queues /\ <<Peer(e), 0>> \in Queues
  BY DEF Queues, Ends, Peer
<1>1. Typed
  <2>1. ypipe \in [Queues -> Queue]
    BY EmptyQueues DEF PipeInit
  <2>2. \A e \in Ends : <<>> \in Seq(Command) /\ <<>> \in Seq(Frame)
    OBVIOUS
  <2>3. [read |-> 0, written |-> 0, peersRead |-> 0] \in Counts
    BY DEF Counts
  <2>4. inpipe \in [Ends -> Queues \cup {None}] /\ outpipe \in [Ends -> Queues \cup {None}]
    BY <1>0 DEF PipeInit
  <2>5. /\ state \in [Ends -> States] /\ counts \in [Ends -> Counts]
        /\ mbox \in [Ends -> Seq(Command)] /\ got \in [Ends -> Seq(Frame)]
        /\ sent \in [Ends -> Nat] /\ (\A e \in Ends : sent[e] <= MaxMsgs[e])
    BY <2>2, <2>3 DEF PipeInit, States
  <2> QED BY <2>1, <2>4, <2>5 DEF PipeInit, Typed
<1>2. /\ \A e \in Ends : /\ state[e] = "active" /\ Peer(e) \in Ends /\ mbox[e] = <<>>
                         /\ inpipe[e] # None /\ outpipe[e] # None
      /\ inpipe["socket"] = <<"socket", 0>> /\ outpipe["session"] = <<"socket", 0>>
      /\ inpipe["session"] = <<"session", 0>> /\ outpipe["socket"] = <<"session", 0>>
  BY <1>0, SomeQueue, TwoEnds DEF PipeInit, Ends, Peer
<1>3. Ordered(<<>>)
  BY DEF Ordered
<1>4. Handshake
  BY <1>2, <1>3, EmptyBox DEF Handshake, PeersOf, Requesting, Gone, Unaware
<1>5. Newest = 0 /\ Oldest = 0
  BY <1>2 DEF Newest, Oldest, Ends
<1>6. Announced
  BY <1>2, <1>5, EmptyBox DEF Announced, Ends
<1>7. Memory
  <2> SUFFICES ASSUME NEW q \in Queues PROVE ypipe[q].memory = "live" <=> InUse(q)
    BY DEF Memory
  <2>1. ypipe[q].memory = "live" <=> q[2] = 0
    BY DEF PipeInit, NewQueue, NoQueue
  <2>2. q[1] = "socket" => q[2] = 0
    BY DEF Queues
  <2>3. q[2] \in Nat
    BY DEF Queues
  <2> QED BY <1>2, <1>5, <2>1, <2>2, <2>3 DEF InUse, Ends
<1> QED BY <1>1, <1>4, <1>6, <1>7 DEF PipeInv

(* ... and every step keeps it.                                            *)
LEMMA PipeInvStep == PipeInv /\ [PipeNext]_pvars => PipeInv'
<1> SUFFICES ASSUME PipeInv, [PipeNext]_pvars PROVE PipeInv'
  OBVIOUS
<1>0. InTurn
  BY InTurnFromInv
<1>1. CASE UNCHANGED pvars
  BY <1>1 DEF pvars, ends, hist, PipeInv, Typed, Handshake, Announced, Memory, InUse, Newest,
              Oldest
<1>2. ASSUME NEW e \in Ends, Use(e) PROVE PipeInv'
  <2>1. Typed'
    BY <1>2, UseType DEF PipeInv
  <2>2. Handshake' /\ Announced' /\ Memory'
    BY <1>2, FrameSteps, TerminateStep, HiccupStep DEF Use
  <2> QED BY <2>1, <2>2 DEF PipeInv
<1>3. ASSUME NEW e \in Ends, Read(e) PROVE PipeInv'
  <2>1. Typed'
    BY <1>3, ReadType DEF PipeInv
  <2>2. Handshake' /\ Announced' /\ Memory'
    BY <1>3, FrameSteps, DelimiterStep DEF Read
  <2> QED BY <2>1, <2>2 DEF PipeInv
<1>4. ASSUME NEW e \in Ends, Process(e) PROVE PipeInv'
  <2>1. Typed'
    BY <1>0, <1>4, ProcessType DEF PipeInv
  <2>2. Handshake' /\ Announced' /\ Memory'
    BY <1>4, WakeSteps, ReplaceStep, RequestStep, FreeStep DEF Process
  <2> QED BY <2>1, <2>2 DEF PipeInv
<1> QED BY <1>1, <1>2, <1>3, <1>4 DEF PipeNext

THEOREM PipeInvariant == PipeSpec => []PipeInv
BY PipeInvInit, PipeInvStep, PTL DEF PipeSpec

(* Whatever the interleaving of the two threads, their terminations and    *)
(* hiccups: commands arrive in states that expect them, and a queue is     *)
(* deallocated once, by one end, when the other can no longer touch it.    *)
THEOREM PipeIsSound == PipeSpec => []SoundPipe
<1>1. PipeInv => SoundPipe
  <2> SUFFICES ASSUME PipeInv PROVE SoundPipe
    OBVIOUS
  <2>1. PipeTypeOK
    BY PipeAssumption DEF PipeInv, Typed, PipeTypeOK, Counts
  <2> QED BY <2>1, InTurnFromInv, NoDanglingFromInv DEF SoundPipe
<1> QED BY <1>1, PipeInvariant, PTL

-----------------------------------------------------------------------------
(* Each direction implements Channel.                                      *)

(* What a reader has still to come, the delimiter included; frames without *)
(* the delimiter, and with it at the end only.                             *)
Content(q)       == q.flushed \o q.written
Pure(frames)     == \A i \in 1 .. Len(frames) : frames[i] # Delimiter
LastOnly(frames) == \A i \in 1 .. Len(frames) : frames[i] = Delimiter => i = Len(frames)

(* The delimiter comes last, and its writer has asked to terminate; who    *)
(* has read it reads no more.                                              *)
DelimitedAt(r) ==
  Reading(r) =>
    /\ r \notin drained
    /\ LastOnly(Content(Mine(r)))
    /\ state[Peer(r)] \in {"active", "delimiter_received"} => Pure(Content(Mine(r)))

(* Of the b frames of an unfinished message the last ones are in the pipe, *)
(* all of them unless the message is torn.                                 *)
Begun(frames, n, b) ==
  /\ Len(frames) <= b
  /\ \A l \in 1 .. Len(frames) :
       frames[l] = [msg |-> n, part |-> b - Len(frames) + l, more |-> TRUE]
UnfinishedAt(e) ==
  state[e] = "active" =>
    Begun(Out(e).partial, sent[e] + 1, begun[e]) /\ begun[e] < MaxFrames[e]

(* The unfinished message of d stays as it is, or is given up.             *)
Same(d)  == /\ state'[d] = "active" <=> state[d] = "active"
            /\ state[d] = "active" =>
                 /\ outpipe'[d] = outpipe[d] /\ begun'[d] = begun[d]
                 /\ ypipe'[outpipe[d]].partial = ypipe[outpipe[d]].partial
Given(d) == state'[d] = "active" =>
              /\ state[d] = "active" /\ outpipe'[d] = outpipe[d] /\ begun'[d] = 0
              /\ ypipe'[outpipe[d]].partial = <<>>

(* Nothing has been written to the queues the socket does not know of.     *)
Blank(q)  == Content(q) = <<>> /\ q.partial = <<>>
Unplugged ==
  state["session"] # "freed" =>
    \A n \in 0 .. MaxHiccups : n > Oldest => Blank(ypipe[<<"session", n>>])

(* Who does not wait has been told to terminate.                           *)
WillingAt(e) == /\ e \notin delay => e \in asked
                /\ state[e] = "delimiter_received" => e \in drained

Flow == Unplugged /\ \A e \in Ends : DelimitedAt(e) /\ UnfinishedAt(e) /\ WillingAt(e)

(* Frames before and after the delimiter is dropped.                       *)
LEMMA DelimiterFrame ==
  /\ Delimiter \in Frame
  /\ \A n, k \in Nat, more \in BOOLEAN :
       /\ [msg |-> n + 1, part |-> k, more |-> more] \in Frame
       /\ [msg |-> n + 1, part |-> k, more |-> more] # Delimiter
<1>1. Delimiter \in Frame /\ Delimiter.msg = 0
  BY DEF Delimiter, Frame
<1>2. ASSUME NEW n \in Nat, NEW k \in Nat, NEW more \in BOOLEAN
      PROVE  /\ [msg |-> n + 1, part |-> k, more |-> more] \in Frame
             /\ [msg |-> n + 1, part |-> k, more |-> more].msg # 0
  BY DEF Frame
<1> QED BY <1>1, <1>2

LEMMA PureFrames ==
  ASSUME NEW c \in Seq(Frame)
  PROVE  /\ Pure(<<>>) /\ LastOnly(<<>>)
         /\ Pure(c) => LastOnly(c) /\ Undelimited(c) = c
         /\ \A m \in Seq(Frame) : Pure(c) /\ Pure(m) => Pure(c \o m)
         /\ Pure(c) => LastOnly(c \o <<Delimiter>>) /\ Undelimited(c \o <<Delimiter>>) = c
<1>1. Pure(<<>>) /\ LastOnly(<<>>)
  BY DEF Pure, LastOnly
<1>2. Pure(c) => LastOnly(c) /\ Undelimited(c) = c
  <2>1. c # <<>> => Len(c) \in 1 .. Len(c)
    BY EmptySeq
  <2> QED BY <2>1 DEF Pure, LastOnly, Undelimited
<1>3. ASSUME NEW m \in Seq(Frame), Pure(c), Pure(m) PROVE Pure(c \o m)
  <2>1. /\ Len(c \o m) = Len(c) + Len(m) /\ Len(c) \in Nat /\ Len(m) \in Nat
        /\ \A i \in 1 .. Len(c) + Len(m) :
             (c \o m)[i] = IF i <= Len(c) THEN c[i] ELSE m[i - Len(c)]
    BY ConcatProperties
  <2>2. ASSUME NEW i \in 1 .. Len(c) + Len(m) PROVE (c \o m)[i] # Delimiter
    <3>1. CASE i <= Len(c)
      BY <1>3, <2>1, <3>1 DEF Pure
    <3>2. CASE ~(i <= Len(c))
      <4>1. i - Len(c) \in 1 .. Len(m)
        BY <2>1, <3>2
      <4> QED BY <1>3, <2>1, <3>2, <4>1 DEF Pure
    <3> QED BY <3>1, <3>2
  <2> QED BY <2>1, <2>2 DEF Pure
<1>4. ASSUME Pure(c)
      PROVE  LastOnly(c \o <<Delimiter>>) /\ Undelimited(c \o <<Delimiter>>) = c
  <2> DEFINE d == Append(c, Delimiter)
  <2>1. c \o <<Delimiter>> = d /\ d \in Seq(Frame)
    BY DelimiterFrame, AppendIsConcat, AppendProperties
  <2>2. /\ Len(d) = Len(c) + 1 /\ Len(c) \in Nat /\ d[Len(d)] = Delimiter /\ d # <<>>
        /\ \A i \in 1 .. Len(c) : d[i] = c[i]
    BY DelimiterFrame, AppendProperties
  <2> HIDE DEF d
  <2>3. LastOnly(d)
    BY <1>4, <2>2 DEF LastOnly, Pure
  <2>4. SubSeq(d, 1, Len(d) - 1) = c
    <3>1. SubSeq(d, 1, Len(c)) = c
      BY <2>1, <2>2 DEF d
    <3> QED BY <2>2, <3>1
  <2> QED BY <2>1, <2>2, <2>3, <2>4 DEF Undelimited
<1> QED BY <1>1, <1>2, <1>3, <1>4

(* Reading the first frame.                                                *)
LEMMA FirstFrame ==
  ASSUME NEW c \in Seq(Frame), c # <<>>, LastOnly(c)
  PROVE  /\ LastOnly(Tail(c)) /\ (Pure(c) => Pure(Tail(c)))
         /\ Head(c) = Delimiter => Undelimited(c) = <<>> /\ ~Pure(c)
         /\ Head(c) # Delimiter =>
              /\ Undelimited(c) # <<>> /\ Head(Undelimited(c)) = Head(c)
              /\ Tail(Undelimited(c)) = Undelimited(Tail(c))
<1> DEFINE t == Tail(c)
<1>1. /\ t \in Seq(Frame) /\ Len(c) = Len(t) + 1 /\ Len(t) \in Nat /\ Head(c) = c[1]
      /\ \A i \in 1 .. Len(t) : t[i] = c[i + 1]
  OBVIOUS
<1> HIDE DEF t
<1>2. \A i \in 1 .. Len(t) : i + 1 \in 1 .. Len(c)
  BY <1>1
<1>3. LastOnly(t) /\ (Pure(c) => Pure(t))
  BY <1>1, <1>2 DEF LastOnly, Pure
<1>4. ASSUME Head(c) = Delimiter PROVE Undelimited(c) = <<>> /\ ~Pure(c)
  <2>1. 1 \in 1 .. Len(c) /\ c[1] = Delimiter
    BY <1>1, <1>4
  <2>2. Len(c) = 1
    BY <1>1, <2>1 DEF LastOnly
  <2>3. Undelimited(c) = SubSeq(c, 1, 0)
    BY <2>1, <2>2 DEF Undelimited
  <2> QED BY <2>1, <2>3 DEF Pure
<1>5. ASSUME Head(c) # Delimiter
      PROVE  /\ Undelimited(c) # <<>> /\ Head(Undelimited(c)) = Head(c)
             /\ Tail(Undelimited(c)) = Undelimited(t)
  <2>1. CASE c[Len(c)] # Delimiter
    <3>1. Undelimited(c) = c
      BY <2>1 DEF Undelimited
    <3>2. t # <<>> => t[Len(t)] = c[Len(c)]
      BY <1>1, EmptySeq
    <3>3. Undelimited(t) = t
      BY <2>1, <3>2 DEF Undelimited
    <3> QED BY <3>1, <3>3 DEF t
  <2>2. CASE c[Len(c)] = Delimiter
    <3>1. Len(c) # 1
      BY <1>1, <1>5, <2>2
    <3>2. t # <<>> /\ t[Len(t)] = Delimiter
      BY <1>1, <2>2, <3>1
    <3>3. Undelimited(c) = SubSeq(c, 1, Len(c) - 1) /\ Undelimited(t) = SubSeq(t, 1, Len(t) - 1)
      BY <2>2, <3>2 DEF Undelimited
    <3>4. Tail(SubSeq(c, 1, Len(c) - 1)) = SubSeq(t, 1, Len(t) - 1)
      <4> DEFINE a == SubSeq(c, 1, Len(c) - 1)
                 b == SubSeq(t, 1, Len(t) - 1)
      <4>1. /\ a \in Seq(Frame) /\ Len(a) = Len(t) /\ \A i \in 1 .. Len(t) : a[i] = c[i]
            /\ b \in Seq(Frame) /\ Len(b) = Len(t) - 1
            /\ \A i \in 1 .. Len(t) - 1 : b[i] = t[i]
        <5>1. /\ \A i \in 1 .. Len(c) - 1 : c[i] \in Frame
              /\ \A i \in 1 .. Len(t) - 1 : t[i] \in Frame
          BY <1>1, ElementOfSeq
        <5>2. /\ a \in Seq(Frame) /\ Len(a) = IF 1 <= Len(c) - 1 THEN (Len(c) - 1) - 1 + 1 ELSE 0
              /\ \A i \in 1 .. (Len(c) - 1) - 1 + 1 : a[i] = c[1 + i - 1]
          BY <1>1, <5>1, SubSeqProperties
        <5>3. /\ b \in Seq(Frame) /\ Len(b) = IF 1 <= Len(t) - 1 THEN (Len(t) - 1) - 1 + 1 ELSE 0
              /\ \A i \in 1 .. (Len(t) - 1) - 1 + 1 : b[i] = t[1 + i - 1]
          BY <1>1, <5>1, SubSeqProperties
        <5> HIDE DEF a, b
        <5>4. (Len(c) - 1) - 1 + 1 = Len(t) /\ (Len(t) - 1) - 1 + 1 = Len(t) - 1 /\ Len(t) >= 1
          BY <1>1, <3>1
        <5>5. Len(a) = Len(t) /\ Len(b) = Len(t) - 1
          BY <1>1, <5>2, <5>3, <5>4
        <5>6. \A i \in 1 .. Len(t) : a[i] = c[i]
          <6> TAKE i \in 1 .. Len(t)
          <6>1. i \in 1 .. (Len(c) - 1) - 1 + 1 /\ 1 + i - 1 = i
            BY <1>1
          <6> QED BY <5>2, <6>1
        <5>7. \A i \in 1 .. Len(t) - 1 : b[i] = t[i]
          <6> TAKE i \in 1 .. Len(t) - 1
          <6>1. i \in 1 .. (Len(t) - 1) - 1 + 1 /\ 1 + i - 1 = i
            BY <1>1
          <6> QED BY <5>3, <6>1
        <5> QED BY <5>2, <5>3, <5>5, <5>6, <5>7
      <4>2. a # <<>> /\ Len(t) >= 1
        BY <1>1, <3>1, <4>1
      <4> HIDE DEF a, b
      <4>3. /\ Tail(a) \in Seq(Frame) /\ Len(Tail(a)) = Len(t) - 1
            /\ \A i \in 1 .. Len(t) - 1 : Tail(a)[i] = a[i + 1]
        BY <4>1, <4>2
      <4>4. \A i \in 1 .. Len(t) - 1 : Tail(a)[i] = b[i]
        <5> TAKE i \in 1 .. Len(t) - 1
        <5>1. i + 1 \in 1 .. Len(t) /\ i \in 1 .. Len(t)
          BY <1>1
        <5>2. Tail(a)[i] = a[i + 1] /\ a[i + 1] = c[i + 1] /\ t[i] = c[i + 1] /\ b[i] = t[i]
          BY <1>1, <4>1, <4>3, <5>1
        <5> QED BY <5>2
      <4>5. Tail(a) = b
        BY <4>1, <4>3, <4>4, SeqEqual
      <4> QED BY <4>5 DEF a, b
    <3>5. Head(SubSeq(c, 1, Len(c) - 1)) = c[1] /\ SubSeq(c, 1, Len(c) - 1) # <<>>
      BY <1>1, <3>1
    <3> QED BY <1>1, <3>3, <3>4, <3>5
  <2> QED BY <2>1, <2>2
<1> QED BY <1>3, <1>4, <1>5 DEF t

(* Putting sequences of frames together.                                   *)
LEMMA FrameConcat ==
  /\ \A a, b \in Seq(Frame) : a \o b \in Seq(Frame)
  /\ \A a, b, c \in Seq(Frame) : (a \o b) \o c = a \o (b \o c)
<1>1. \A a, b \in Seq(Frame) : a \o b \in Seq(Frame)
  BY ConcatProperties
<1>2. ASSUME NEW a \in Seq(Frame), NEW b \in Seq(Frame), NEW c \in Seq(Frame)
      PROVE  (a \o b) \o c = a \o (b \o c)
  BY ConcatAssociative
<1> QED BY <1>1, <1>2

(* What the operations of a queue do to its content.                       *)
LEMMA ContentOps ==
  ASSUME NEW q \in Queue
  PROVE  /\ Content(q) \in Seq(Frame)
         /\ \A f \in Frame :
              /\ f.more => /\ Content(YWrite(q, f)) = Content(q)
                           /\ YWrite(q, f).partial = Append(q.partial, f)
              /\ ~f.more =>
                   /\ Content(YWrite(q, f)) = Content(q) \o Append(q.partial, f)
                   /\ YWrite(q, f).partial = <<>>
         /\ Content(YUnwrite(q)) = Content(q) /\ YUnwrite(q).partial = <<>>
         /\ Content(YFlush(q)) = Content(q) /\ YFlush(q).partial = q.partial
         /\ Content(YSleep(q)) = Content(q) /\ YSleep(q).partial = q.partial
         /\ q.flushed # <<>> =>
              /\ Content(q) # <<>> /\ Head(Content(q)) = Head(q.flushed)
              /\ Content(YRead(q)) = Tail(Content(q)) /\ YRead(q).partial = q.partial
         /\ Content(YFlush(YWrite(YUnwrite(q), Delimiter))) = Content(q) \o <<Delimiter>>
<1>0. q.flushed \in Seq(Frame) /\ q.written \in Seq(Frame) /\ q.partial \in Seq(Frame)
  BY QueueFields
<1>1. Content(q) \in Seq(Frame)
  BY <1>0, ConcatProperties DEF Content
<1>2. \A r \in Queue : Content(YFlush(r)) = Content(r)
  <2> TAKE r \in Queue
  <2>0. r.flushed \in Seq(Frame) /\ r.written \in Seq(Frame)
    BY QueueFields
  <2>1. (r.flushed \o r.written) \o <<>> = r.flushed \o r.written
    BY <2>0, ConcatProperties, ConcatEmptySeq
  <2>2. CASE r.written = <<>>
    BY <2>2 DEF YFlush
  <2>3. CASE r.written # <<>>
    <3>1. YFlush(r).flushed = r.flushed \o r.written /\ YFlush(r).written = <<>>
      BY <2>3 DEF YFlush, Queue
    <3> QED BY <2>1, <3>1 DEF Content
  <2> QED BY <2>2, <2>3
<1>3. ASSUME NEW f \in Frame, f.more
      PROVE  /\ Content(YWrite(q, f)) = Content(q)
             /\ YWrite(q, f).partial = Append(q.partial, f)
  BY <1>3 DEF YWrite, Content, Queue
<1>4. ASSUME NEW f \in Frame, ~f.more
      PROVE  /\ Content(YWrite(q, f)) = Content(q) \o Append(q.partial, f)
             /\ YWrite(q, f).partial = <<>>
  <2>1. /\ YWrite(q, f).flushed = q.flushed /\ YWrite(q, f).partial = <<>>
        /\ YWrite(q, f).written = q.written \o q.partial \o <<f>>
    BY <1>4 DEF YWrite, Queue
  <2>2. <<f>> \in Seq(Frame) /\ q.partial \o <<f>> = Append(q.partial, f)
    BY <1>0, AppendIsConcat
  <2>3. (q.written \o q.partial) \o <<f>> = q.written \o (q.partial \o <<f>>)
    BY <1>0, <2>2, FrameConcat
  <2>4. q.partial \o <<f>> \in Seq(Frame)
    BY <1>0, <2>2, ConcatProperties
  <2>5. q.flushed \o (q.written \o (q.partial \o <<f>>))
          = (q.flushed \o q.written) \o (q.partial \o <<f>>)
    BY <1>0, <2>4, FrameConcat
  <2> QED BY <2>1, <2>2, <2>3, <2>5 DEF Content
<1>5. Content(YUnwrite(q)) = Content(q) /\ YUnwrite(q).partial = <<>>
  BY DEF YUnwrite, Content, Queue
<1>6. YFlush(q).partial = q.partial
  BY DEF YFlush, Queue
<1>7. Content(YSleep(q)) = Content(q) /\ YSleep(q).partial = q.partial
  BY DEF YSleep, Content, Queue
<1>8. ASSUME q.flushed # <<>>
      PROVE  /\ Content(q) # <<>> /\ Head(Content(q)) = Head(q.flushed)
             /\ Content(YRead(q)) = Tail(Content(q)) /\ YRead(q).partial = q.partial
  <2>1. YRead(q).flushed = Tail(q.flushed) /\ YRead(q).written = q.written
    BY DEF YRead, Queue
  <2>2. /\ Head(q.flushed \o q.written) = Head(q.flushed)
        /\ Tail(q.flushed \o q.written) = Tail(q.flushed) \o q.written
        /\ q.flushed \o q.written # <<>>
    <3>1. \A s, t \in Seq(Frame) : s # <<>> =>
            Head(s \o t) = Head(s) /\ Tail(s \o t) = Tail(s) \o t /\ s \o t # <<>>
      OBVIOUS
    <3> QED BY <1>0, <1>8, <3>1
  <2>3. YRead(q).partial = q.partial
    BY DEF YRead, Queue
  <2> QED BY <2>1, <2>2, <2>3 DEF Content
<1>9. Content(YFlush(YWrite(YUnwrite(q), Delimiter))) = Content(q) \o <<Delimiter>>
  <2> DEFINE u == YUnwrite(q)
  <2>1. u \in Queue /\ Content(u) = Content(q) /\ u.partial = <<>>
    BY <1>5, WriteOps
  <2>2. u.flushed = q.flushed /\ u.written = q.written
    BY DEF YUnwrite, Queue
  <2>3. YWrite(u, Delimiter) \in Queue
    BY <2>1, WriteOps, DelimiterFrame
  <2>4. /\ YWrite(u, Delimiter).flushed = u.flushed
        /\ YWrite(u, Delimiter).written = u.written \o u.partial \o <<Delimiter>>
    <3> HIDE DEF u
    <3> QED BY <2>1 DEF YWrite, Queue, Delimiter
  <2>5. <<Delimiter>> \in Seq(Frame)
    BY DelimiterFrame
  <2>6. u.written \o <<>> = q.written
    BY <1>0, <2>2, ConcatEmptySeq
  <2>7. q.flushed \o (q.written \o <<Delimiter>>) = (q.flushed \o q.written) \o <<Delimiter>>
    BY <1>0, <2>5, FrameConcat
  <2>8. Content(YWrite(u, Delimiter)) = Content(q) \o <<Delimiter>>
    <3> HIDE DEF u
    <3> QED BY <2>1, <2>2, <2>4, <2>6, <2>7 DEF Content
  <2> QED BY <1>2, <2>3, <2>8
<1> QED BY <1>1, <1>2, <1>3, <1>4, <1>5, <1>6, <1>7, <1>8, <1>9

(* The queues that the two ends use.                                       *)
LEMMA Apart ==
  ASSUME PipeInv, NEW e \in Ends
  PROVE  /\ inpipe[e] # None => inpipe[e] \in Queues /\ Mine(e) \in Queue
         /\ outpipe[e] # None => outpipe[e] \in Queues /\ Out(e) \in Queue
         /\ state[e] # "freed" => inpipe[e] # None
         /\ state[e] \notin Gone => outpipe[e] # None
         /\ inpipe[e] # None => inpipe[e] # outpipe[e] /\ inpipe[e] # inpipe[Peer(e)]
         /\ outpipe[e] # None => outpipe[e] # outpipe[Peer(e)]
<1>1. /\ inpipe[e] # None => inpipe[e] \in Queues /\ Mine(e) \in Queue
      /\ outpipe[e] # None => outpipe[e] \in Queues /\ Out(e) \in Queue
      /\ state[e] # "freed" => inpipe[e] # None
      /\ state[e] \notin Gone => outpipe[e] # None
  BY UsedQueues DEF PipeInv, Handshake
<1>2. /\ inpipe["socket"] # None => inpipe["socket"][1] = "socket"
      /\ outpipe["session"] # None => outpipe["session"][1] = "socket"
      /\ inpipe["session"] # None => inpipe["session"][1] = "session"
      /\ outpipe["socket"] # None => outpipe["socket"][1] = "session"
  BY DEF PipeInv, Announced
<1>3. /\ inpipe[e] # None => inpipe[e] # outpipe[e] /\ inpipe[e] # inpipe[Peer(e)]
      /\ outpipe[e] # None => outpipe[e] # outpipe[Peer(e)]
  BY <1>2 DEF Ends, Peer
<1> QED BY <1>1, <1>3

(* Until the socket knows of the newest queue, nothing is there to read.   *)
LEMMA Plugged ==
  ASSUME PipeInv, Unplugged, NEW r \in Ends, Reading(r)
  PROVE  /\ state[Peer(r)] \in Unaware /\ outpipe[Peer(r)] # None
         /\ outpipe[Peer(r)] # inpipe[r] =>
              /\ r = "session" /\ Oldest < Newest /\ Content(Mine(r)) = <<>>
<1> USE PipeAssumption
<1> DEFINE p == Peer(r)
<1>0. p \in Ends /\ "socket" \in Ends /\ "session" \in Ends
  BY TwoEnds DEF Ends
<1>1. state[p] \in PeersOf(state[r]) /\ state[r] \in {"active", "waiting_for_delimiter"}
  BY DEF PipeInv, Handshake, Reading
<1>2. state[p] \in Unaware /\ state[p] \notin Gone /\ state[r] # "freed" /\ state[p] # "freed"
  BY <1>1 DEF PeersOf, Unaware, Gone
<1>3. outpipe[p] # None /\ inpipe[r] # None
  BY <1>0, <1>2, Apart
<1>4. ASSUME outpipe[p] # inpipe[r] PROVE r = "session" /\ Oldest < Newest /\ Content(Mine(r)) = <<>>
  <2>1. r # "socket"
    BY <1>3, <1>4, TwoEnds DEF PipeInv, Announced
  <2>2. r = "session" /\ p = "socket"
    BY <2>1, TwoEnds DEF Ends
  <2>3. /\ inpipe["session"] \in Queues /\ inpipe["session"][1] = "session"
        /\ outpipe["socket"] \in Queues /\ outpipe["socket"][1] = "session"
        /\ Oldest = outpipe["socket"][2] /\ Oldest <= Newest
    BY <1>0, <1>2, <1>3, <2>2 DEF PipeInv, Typed, Announced, Oldest
  <2>4. /\ inpipe["session"] = <<"session", Newest>> /\ outpipe["socket"] = <<"session", Oldest>>
        /\ Newest \in 0 .. MaxHiccups /\ Oldest \in 0 .. MaxHiccups
    BY <2>3 DEF Newest, Queues
  <2>5. Oldest < Newest
    <3>1. Oldest # Newest
      BY <1>4, <2>2, <2>4
    <3> QED BY <2>3, <2>4, <3>1
  <2>6. Blank(Mine(r))
    BY <1>2, <2>2, <2>4, <2>5 DEF Unplugged, Mine
  <2> QED BY <2>2, <2>5, <2>6 DEF Blank, Content
<1> QED BY <1>2, <1>3, <1>4

(* What a step does to the direction that r reads; a step that does not    *)
(* disturb it neither writes nor reads a message, nor changes whether r    *)
(* reads on.                                                               *)
StepOf(r) == [Direction(r)!Next]_(Direction(r)!vars)
Undisturbed(r) ==
  /\ sent'[Peer(r)] = sent[Peer(r)] /\ got'[r] = got[r]
  /\ Reading(r)' <=> Reading(r)
  /\ r \in drained' <=> r \in drained
  /\ Reading(r) => /\ Content(Mine(r)') = Content(Mine(r))
                   /\ outpipe'[Peer(r)] = inpipe'[r] <=> outpipe[Peer(r)] = inpipe[r]

LEMMA UnderWayContent ==
  \A r \in Ends : /\ Reading(r) => UnderWay(r) = Undelimited(Content(Mine(r)))
                  /\ ~Reading(r) => UnderWay(r) = <<>>
BY DEF UnderWay, Content

(* A message is torn only by a hiccup.                                     *)
LEMMA NotTorn ==
  \A d \in Ends : /\ Same(d) => (Torn(d)' <=> Torn(d))
                  /\ Given(d) => ~Torn(d)'
<1> SUFFICES ASSUME NEW d \in Ends
             PROVE  (Same(d) => (Torn(d)' <=> Torn(d))) /\ (Given(d) => ~Torn(d)')
  OBVIOUS
<1>1. ASSUME Same(d) PROVE Torn(d)' <=> Torn(d)
  BY <1>1 DEF Same, Torn, Out
<1>2. ASSUME Given(d) PROVE ~Torn(d)'
  BY <1>2 DEF Given, Torn, Out
<1> QED BY <1>1, <1>2

LEMMA Calm ==
  ASSUME NEW r \in Ends, Undisturbed(r), DelimitedAt(r), Torn(Peer(r))' => Torn(Peer(r))
  PROVE  /\ (state'[Peer(r)] \in {"active", "delimiter_received"} =>
               state[Peer(r)] \in {"active", "delimiter_received"}) => DelimitedAt(r)'
         /\ (r \in asked' <=> r \in asked) /\ (state'[Peer(r)] = "active" => state[Peer(r)] = "active")
              => StepOf(r)
         /\ (r \in asked => r \in asked') /\ (state'[Peer(r)] = "active" <=> state[Peer(r)] = "active")
              /\ (Torn(Peer(r))' <=> Torn(Peer(r)))
              => StepOf(r)
<1>1. UnderWay(r)' = UnderWay(r)
  BY DEF UnderWay, Content, Undisturbed
<1>2. (state'[Peer(r)] \in {"active", "delimiter_received"} =>
         state[Peer(r)] \in {"active", "delimiter_received"}) => DelimitedAt(r)'
  BY DEF Undisturbed, DelimitedAt
<1> DEFINE link == IF Reading(r) /\ outpipe[Peer(r)] # inpipe[r] THEN "cut" ELSE "up"
           reader == IF Reading(r) THEN "reading"
                     ELSE IF r \in drained THEN "drained" ELSE "left"
<1>3. link' = link /\ reader' = reader /\ sent'[Peer(r)] = sent[Peer(r)] /\ got'[r] = got[r]
  BY DEF Undisturbed
<1>4. ASSUME r \in asked' <=> r \in asked, state'[Peer(r)] = "active" => state[Peer(r)] = "active"
      PROVE  StepOf(r)
  <2>1. CASE /\ state'[Peer(r)] = "active" <=> state[Peer(r)] = "active"
             /\ Torn(Peer(r))' <=> Torn(Peer(r))
    BY <1>1, <1>3, <1>4, <2>1 DEF StepOf, Direction!vars
  <2>2. CASE state'[Peer(r)] # "active"
    <3>1. ~Torn(Peer(r))'
      BY <2>2 DEF Torn
    <3>2. Direction(r)!Close
      BY <1>1, <1>3, <1>4, <2>2, <3>1 DEF Direction!Close
    <3> QED BY <3>2 DEF StepOf, Direction!Next
  <2>3. CASE state'[Peer(r)] = "active" /\ ~Torn(Peer(r))'
    <3>1. Direction(r)!Abandon
      BY <1>1, <1>3, <1>4, <2>3 DEF Direction!Abandon
    <3> QED BY <3>1 DEF StepOf, Direction!Next
  <2> QED BY <1>4, <2>1, <2>2, <2>3
<1>5. ASSUME r \in asked => r \in asked', state'[Peer(r)] = "active" <=> state[Peer(r)] = "active",
             Torn(Peer(r))' <=> Torn(Peer(r))
      PROVE  StepOf(r)
  <2>1. CASE r \in asked
    BY <1>1, <1>3, <1>5, <2>1 DEF StepOf, Direction!vars
  <2>2. CASE r \in asked'
    <3>1. Direction(r)!Ask
      BY <1>1, <1>3, <1>5, <2>2 DEF Direction!Ask
    <3> QED BY <3>1 DEF StepOf, Direction!Next
  <2>3. CASE r \notin asked /\ r \notin asked'
    BY <1>1, <1>3, <1>5, <2>3 DEF StepOf, Direction!vars
  <2> QED BY <2>1, <2>2, <2>3
<1> QED BY <1>2, <1>4, <1>5

(* The reader gives up what is left, having been told to.                  *)
LEMMA Leaves ==
  ASSUME NEW r \in Ends, Reading(r), ~Reading(r)', r \notin drained', r \in asked',
         sent'[Peer(r)] = sent[Peer(r)], got'[r] = got[r], state'[Peer(r)] = state[Peer(r)],
         Torn(Peer(r))' <=> Torn(Peer(r))
  PROVE  StepOf(r)
<1>1. UnderWay(r)' = <<>>
  BY DEF UnderWay
<1>2. Direction(r)!Leave
  BY <1>1 DEF Direction!Leave
<1> QED BY <1>2 DEF StepOf, Direction!Next

(* The queue that an end writes is not newer than the oldest in use.       *)
LEMMA OutIsOld ==
  ASSUME PipeInv, NEW e \in Ends, outpipe[e] # None
  PROVE  \A n \in 0 .. MaxHiccups : n > Oldest => outpipe[e] # <<"session", n>>
<1>1. CASE e = "socket"
  <2>1. Oldest = outpipe["socket"][2]
    BY <1>1 DEF Oldest
  <2>2. outpipe["socket"] \in Queues
    BY <1>1 DEF PipeInv, Typed
  <2>3. Oldest \in Int
    BY <2>1, <2>2, PipeAssumption DEF Queues
  <2> QED BY <1>1, <2>1, <2>3
<1>2. CASE e = "session"
  BY <1>2 DEF PipeInv, Announced
<1> QED BY <1>1, <1>2 DEF Ends

(* The frames of message n, or the rest of them when it is torn.           *)
LEMMA WholeMessage ==
  ASSUME NEW s \in Seq(Frame), NEW n \in Nat, NEW b \in Nat, NEW e \in Ends,
         Begun(s, n, b), b < MaxFrames[e]
  PROVE  LET m == Append(s, [msg |-> n, part |-> b + 1, more |-> FALSE]) IN
         /\ Len(s) = b => m \in FramesOf(n)
         /\ Len(s) # b => \E w \in FramesOf(n) : \E k \in 2 .. Len(w) : m = SubSeq(w, k, Len(w))
<1> USE PipeAssumption
<1> DEFINE f == [msg |-> n, part |-> b + 1, more |-> FALSE]
           m == Append(s, f)
           w == [l \in 1 .. b + 1 |-> [msg |-> n, part |-> l, more |-> l < b + 1]]
           k == b - Len(s) + 1
           u == SubSeq(w, k, b + 1)
<1>0. f \in Frame
  BY DEF Frame
<1>1. /\ m \in Seq(Frame) /\ Len(m) = Len(s) + 1 /\ Len(s) \in Nat /\ Len(s) <= b
      /\ m[Len(s) + 1] = f
      /\ \A l \in 1 .. Len(s) : m[l] = s[l]
  BY <1>0, AppendProperties DEF Begun
<1>2. w \in Seq(Frame) /\ Len(w) = b + 1
  <2>1. \A l \in 1 .. b + 1 : [msg |-> n, part |-> l, more |-> l < b + 1] \in Frame
    BY DEF Frame
  <2> QED BY <2>1, IsASeq
<1>3. w \in FramesOf(n)
  <2>1. MaxFrames["socket"] \in Nat /\ MaxFrames["session"] \in Nat /\ MaxFrames[e] \in Nat
    BY DEF Ends
  <2>2. e = "socket" \/ e = "session"
    BY DEF Ends
  <2>3. b + 1 \in 1 .. MaxFrames["socket"] + MaxFrames["session"]
    BY <2>1, <2>2
  <2> QED BY <2>3 DEF FramesOf
<1>4. k \in 1 .. b + 1 /\ b + 1 - k + 1 = Len(s) + 1 /\ (Len(s) = b => k = 1)
  BY <1>1
<1>5. u \in Seq(Frame) /\ Len(u) = Len(s) + 1 /\ \A l \in 1 .. Len(s) + 1 : u[l] = w[k + l - 1]
  <2>1. \A l \in k .. b + 1 : w[l] \in Frame
    BY <1>2, <1>4, ElementOfSeq
  <2>2. k \in Int /\ b + 1 \in Int /\ k <= b + 1
    BY <1>4
  <2> HIDE DEF w, k
  <2>3. /\ u \in Seq(Frame)
        /\ Len(u) = IF k <= b + 1 THEN b + 1 - k + 1 ELSE 0
        /\ \A l \in 1 .. b + 1 - k + 1 : u[l] = w[k + l - 1]
    BY <1>2, <1>4, <2>1, <2>2, SubSeqProperties
  <2> HIDE DEF u
  <2> QED BY <1>4, <2>2, <2>3
<1>6. \A l \in 1 .. Len(s) + 1 : u[l] = m[l]
  <2> TAKE l \in 1 .. Len(s) + 1
  <2>1. k + l - 1 = b - Len(s) + l /\ b - Len(s) + l \in 1 .. b + 1
    BY <1>1
  <2>2. w[b - Len(s) + l] = [msg |-> n, part |-> b - Len(s) + l, more |-> b - Len(s) + l < b + 1]
    BY <2>1
  <2>3. CASE l = Len(s) + 1
    <3>1. b - Len(s) + l = b + 1 /\ (b - Len(s) + l < b + 1) = FALSE
      BY <1>1, <2>3
    <3>2. w[b - Len(s) + l] = f
      BY <2>2, <3>1
    <3> HIDE DEF f, w, m, u, k
    <3> QED BY <1>1, <1>5, <2>1, <2>3, <3>2
  <2>4. CASE l # Len(s) + 1
    <3>1. l \in 1 .. Len(s) /\ (b - Len(s) + l < b + 1) = TRUE
      BY <1>1, <2>4
    <3>2. s[l] = w[b - Len(s) + l]
      BY <2>2, <3>1 DEF Begun
    <3> HIDE DEF f, w, m, u, k
    <3> QED BY <1>1, <1>5, <2>1, <3>1, <3>2
  <2> QED BY <2>3, <2>4
<1>7. u = m
  <2> HIDE DEF m, u
  <2> QED BY <1>1, <1>5, <1>6, SeqEqual
<1>8. ASSUME Len(s) = b PROVE m \in FramesOf(n)
  <2>1. u = w
    <3>1. u = SubSeq(w, 1, Len(w))
      BY <1>2, <1>4, <1>8
    <3> HIDE DEF w, u
    <3> QED BY <1>2, <3>1
  <2> QED BY <1>3, <1>7, <2>1
<1>9. ASSUME Len(s) # b
      PROVE  \E x \in FramesOf(n) : \E j \in 2 .. Len(x) : m = SubSeq(x, j, Len(x))
  <2>1. k \in 2 .. Len(w)
    BY <1>1, <1>2, <1>4, <1>9
  <2>2. m = SubSeq(w, k, Len(w))
    BY <1>2, <1>7
  <2> HIDE DEF w, k, m
  <2> QED BY <1>3, <2>1, <2>2
<1> QED BY <1>8, <1>9

(* Messages that begin with the unfinished one have no delimiter.          *)
LEMMA BegunPure ==
  ASSUME NEW s \in Seq(Frame), NEW n \in Nat, NEW b \in Nat, Begun(s, n + 1, b),
         NEW more \in BOOLEAN
  PROVE  LET t == Append(s, [msg |-> n + 1, part |-> b + 1, more |-> more])
         IN  t \in Seq(Frame) /\ Pure(t) /\ (more => Begun(t, n + 1, b + 1))
<1> DEFINE f == [msg |-> n + 1, part |-> b + 1, more |-> more]
           t == Append(s, f)
<1>1. f \in Frame /\ f # Delimiter
  BY DelimiterFrame
<1>2. /\ t \in Seq(Frame) /\ Len(t) = Len(s) + 1 /\ Len(s) \in Nat /\ t[Len(t)] = f
      /\ \A l \in 1 .. Len(s) : t[l] = s[l]
  BY <1>1, AppendProperties
<1>3. \A l \in 1 .. Len(s) : s[l] # Delimiter
  <2> TAKE l \in 1 .. Len(s)
  <2>1. b - Len(s) + l \in Nat /\ s[l] = [msg |-> n + 1, part |-> b - Len(s) + l, more |-> TRUE]
    BY <1>2 DEF Begun
  <2> QED BY <2>1, DelimiterFrame
<1> HIDE DEF t
<1>4. Pure(t)
  <2> SUFFICES ASSUME NEW l \in 1 .. Len(t) PROVE t[l] # Delimiter
    BY DEF Pure
  <2>1. l \in 1 .. Len(s) \/ l = Len(t)
    BY <1>2
  <2> QED BY <1>1, <1>2, <1>3, <2>1
<1>5. ASSUME more PROVE Begun(t, n + 1, b + 1)
  <2> SUFFICES ASSUME NEW l \in 1 .. Len(t)
               PROVE  t[l] = [msg |-> n + 1, part |-> b + 1 - Len(t) + l, more |-> TRUE]
    BY <1>2 DEF Begun
  <2>1. l \in 1 .. Len(s) \/ l = Len(t)
    BY <1>2
  <2>2. b + 1 - Len(t) + l = b - Len(s) + l
    BY <1>2
  <2>3. CASE l \in 1 .. Len(s)
    BY <1>2, <2>2, <2>3 DEF Begun
  <2>4. CASE l = Len(t)
    <3>1. b + 1 - Len(t) + l = b + 1
      BY <1>2, <2>4
    <3>2. f = [msg |-> n + 1, part |-> b + 1, more |-> TRUE]
      BY <1>5
    <3> HIDE DEF f
    <3> QED BY <1>2, <2>4, <3>1, <3>2
  <2> QED BY <2>1, <2>3, <2>4
<1> QED BY <1>2, <1>4, <1>5 DEF t

(* write()                                                                 *)
LEMMA WriteFlow ==
  ASSUME PipeInv, Flow, NEW e \in Ends, NEW more \in BOOLEAN, Write(e, more)
  PROVE  Flow' /\ \A r \in Ends : StepOf(r)
<1> USE PipeAssumption
<1> DEFINE p == Peer(e)
           x == outpipe[e]
           n == sent[e] + 1
           b == begun[e]
           f == [msg |-> n, part |-> b + 1, more |-> more]
<1>0. p \in Ends /\ p # e /\ Peer(p) = e /\ \A d \in Ends : d = e \/ d = p
  BY TwoEnds
<1>1. /\ state[e] = "active" /\ ypipe' = [ypipe EXCEPT ![x] = YWrite(@, f)]
      /\ more => b + 1 < MaxFrames[e]
      /\ begun' = [begun EXCEPT ![e] = IF more THEN @ + 1 ELSE 0]
      /\ ~more => sent' = [sent EXCEPT ![e] = @ + 1]
      /\ more => sent' = sent
      /\ UNCHANGED <<state, delay, inpipe, outpipe, got, asked, drained>>
  BY DEF Write
<1>2. /\ x # None /\ x \in Queues /\ Out(e) \in Queue /\ Out(e) = ypipe[x]
      /\ ypipe'[x] = YWrite(Out(e), f) /\ \A q \in Queues : q # x => ypipe'[q] = ypipe[q]
      /\ sent[e] \in Nat /\ sent \in [Ends -> Nat] /\ f \in Frame /\ f.more = more
      /\ b \in Nat /\ begun'[p] = begun[p] /\ begun'[e] = IF more THEN b + 1 ELSE 0
  <2>1. x # None /\ x \in Queues /\ Out(e) \in Queue
    BY <1>1, Apart DEF Gone
  <2>2. /\ sent[e] \in Nat /\ sent \in [Ends -> Nat]
        /\ b \in Nat /\ begun'[p] = begun[p] /\ begun'[e] = IF more THEN b + 1 ELSE 0
    BY <1>0, <1>1 DEF PipeInv, Typed
  <2>3. f \in Frame
    BY <2>2 DEF Frame
  <2> QED BY <1>1, <2>1, <2>2, <2>3 DEF PipeInv, Typed, Out
<1>3. /\ Begun(Out(e).partial, n, b) /\ b < MaxFrames[e]
      /\ Out(e).partial \in Seq(Frame) /\ Content(Out(e)) \in Seq(Frame)
  BY <1>1, <1>2, QueueFields, ContentOps DEF Flow, UnfinishedAt
<1>4. Newest' = Newest /\ Oldest' = Oldest
  BY <1>1 DEF Newest, Oldest
<1>5. Unplugged'
  <2>1. \A m \in 0 .. MaxHiccups : m > Oldest => <<"session", m>> # x /\ <<"session", m>> \in Queues
    BY <1>2, OutIsOld DEF Queues
  <2>2. \A m \in 0 .. MaxHiccups : m > Oldest => ypipe'[<<"session", m>>] = ypipe[<<"session", m>>]
    BY <1>2, <2>1
  <2> QED BY <1>1, <1>4, <2>2 DEF Flow, Unplugged
<1>6. \A d \in Ends : WillingAt(d)'
  BY <1>1 DEF Flow, WillingAt
<1> HIDE DEF f, x
<1>7. (* The end that writes reads another queue. *)
      DelimitedAt(e)' /\ StepOf(e)
  <2>1. Reading(e) => Mine(e)' = Mine(e)
    <3>1. Reading(e) => inpipe[e] # None /\ inpipe[e] \in Queues /\ inpipe[e] # x
      BY Apart DEF Reading, x
    <3> QED BY <1>1, <1>2, <3>1 DEF Mine
  <2>2. sent'[p] = sent[p]
    BY <1>0, <1>1, <1>2
  <2>3. Undisturbed(e)
    BY <1>1, <2>1, <2>2 DEF Undisturbed, Reading
  <2>4. state[p] = "active" => outpipe[p] # None /\ outpipe[p] \in Queues /\ outpipe[p] # x
    BY <1>0, Apart DEF Gone, x
  <2>5. Same(p)
    BY <1>1, <1>2, <2>4 DEF Same
  <2>6. Torn(p)' <=> Torn(p)
    BY <1>0, <2>5, NotTorn
  <2> QED BY <1>1, <2>3, <2>6, Calm DEF Flow
<1>8. UnfinishedAt(p)'
  <2>1. state[p] = "active" => outpipe[p] # None /\ outpipe[p] \in Queues /\ outpipe[p] # x
    BY <1>0, Apart DEF Gone, x
  <2>2. state[p] = "active" => Out(p)' = Out(p) /\ sent'[p] = sent[p]
    BY <1>0, <1>1, <1>2, <2>1 DEF Out
  <2> QED BY <1>0, <1>1, <1>2, <2>2 DEF Flow, UnfinishedAt
<1>9. Out(e)' = YWrite(Out(e), f)
  BY <1>1, <1>2 DEF Out, x
<1>13. /\ more => f.more
       /\ ~more => ~f.more /\ f = [msg |-> n, part |-> b + 1, more |-> FALSE]
  <2>1. ASSUME more PROVE f.more
    BY <2>1 DEF f
  <2>2. ASSUME ~more PROVE more = FALSE
    BY <2>2, Zenon
  <2>3. ASSUME ~more PROVE ~f.more /\ f = [msg |-> n, part |-> b + 1, more |-> FALSE]
    <3>1. f = [msg |-> n, part |-> b + 1, more |-> FALSE]
      BY <2>2, <2>3 DEF f
    <3> QED BY <3>1
  <2> QED BY <2>1, <2>3
<1>14. /\ f.more => /\ Content(Out(e)') = Content(Out(e))
                    /\ Out(e)'.partial = Append(Out(e).partial, f)
       /\ ~f.more => /\ Content(Out(e)') = Content(Out(e)) \o Append(Out(e).partial, f)
                     /\ Out(e)'.partial = <<>>
  <2>1. Out(e) \in Queue /\ f \in Frame
    BY <1>2
  <2>2. /\ f.more => /\ Content(YWrite(Out(e), f)) = Content(Out(e))
                     /\ YWrite(Out(e), f).partial = Append(Out(e).partial, f)
        /\ ~f.more =>
             /\ Content(YWrite(Out(e), f)) = Content(Out(e)) \o Append(Out(e).partial, f)
             /\ YWrite(Out(e), f).partial = <<>>
    BY <2>1, ContentOps
  <2> QED BY <1>9, <2>2, Zenon
<1>10. UnfinishedAt(e)'
  <2>1. CASE more
    <3>1. Out(e)'.partial = Append(Out(e).partial, f)
      BY <1>13, <1>14, <2>1
    <3>2. Begun(Append(Out(e).partial, f), n, b + 1)
      BY <1>2, <1>3, <2>1, BegunPure DEF f
    <3>3. sent'[e] + 1 = n /\ begun'[e] = b + 1 /\ b + 1 < MaxFrames[e]
      BY <1>1, <1>2, <2>1
    <3> QED BY <1>9, <3>1, <3>2, <3>3 DEF UnfinishedAt
  <2>2. CASE ~more
    <3>1. Out(e)'.partial = <<>>
      BY <1>13, <1>14, <2>2
    <3>2. Begun(<<>>, sent'[e] + 1, 0)
      BY DEF Begun
    <3>3. MaxFrames[e] > 0 /\ begun'[e] = 0
      BY <1>2, <2>2
    <3> QED BY <1>9, <3>1, <3>2, <3>3 DEF UnfinishedAt
  <2> QED BY <2>1, <2>2
<1>15. /\ ~more => ~Torn(e)'
       /\ more => (Torn(e)' <=> Torn(e))
  <2>1. CASE ~more
    <3>1. Out(e)'.partial = <<>> /\ begun'[e] = 0
      BY <1>2, <1>13, <1>14, <2>1
    <3> QED BY <2>1, <3>1 DEF Torn
  <2>2. CASE more
    <3>1. Out(e)'.partial = Append(Out(e).partial, f) /\ begun'[e] = b + 1
      BY <1>2, <1>13, <1>14, <2>2
    <3>2. /\ Len(Append(Out(e).partial, f)) = Len(Out(e).partial) + 1
          /\ Len(Out(e).partial) \in Nat
      BY <1>2, <1>3, AppendProperties
    <3>3. b + 1 > Len(Out(e).partial) + 1 <=> b > Len(Out(e).partial)
      BY <1>2, <3>2
    <3> QED BY <1>1, <2>2, <3>1, <3>2, <3>3 DEF Torn
  <2> QED BY <2>1, <2>2
<1>11. (* The peer reads this queue, if it has not replaced it. *)
       DelimitedAt(p)' /\ StepOf(p)
  <2>1. CASE Reading(p) /\ inpipe[p] = x /\ ~more
    <3> DEFINE m == Append(Out(e).partial, f)
    <3>1. Mine(p) = Out(e) /\ Mine(p)' = Out(e)'
      BY <1>1, <2>1 DEF Mine, Out, x
    <3>2. Content(Mine(p)') = Content(Mine(p)) \o m
      BY <1>13, <1>14, <2>1, <3>1
    <3>3. /\ m \in Seq(Frame) /\ Pure(m)
          /\ ~Torn(e) => m \in FramesOf(n)
          /\ Torn(e) => \E w \in FramesOf(n) : m \in Direction(p)!Rests(w)
      <4>1. m \in Seq(Frame) /\ Pure(m)
        BY <1>2, <1>3, BegunPure DEF f
      <4>2. /\ Len(Out(e).partial) = b => m \in FramesOf(n)
            /\ Len(Out(e).partial) # b =>
                 \E w \in FramesOf(n) : \E k \in 2 .. Len(w) : m = SubSeq(w, k, Len(w))
        <5> DEFINE s == Out(e).partial
                   g == [msg |-> n, part |-> b + 1, more |-> FALSE]
        <5>1. f = g /\ n \in Nat /\ b \in Nat
          BY <1>2, <1>13, <2>1
        <5>2. s \in Seq(Frame) /\ Begun(s, n, b) /\ b < MaxFrames[e]
          BY <1>3
        <5> HIDE DEF s, n, b
        <5>3. /\ Len(s) = b => Append(s, g) \in FramesOf(n)
              /\ Len(s) # b => \E w \in FramesOf(n) : \E k \in 2 .. Len(w) :
                                 Append(s, g) = SubSeq(w, k, Len(w))
          BY <5>1, <5>2, WholeMessage
        <5> QED BY <5>1, <5>3 DEF s
      <4>3. Torn(e) <=> Len(Out(e).partial) # b
        BY <1>1, <1>2, <1>3 DEF Torn, Begun
      <4>4. ASSUME NEW w, NEW k \in 2 .. Len(w), m = SubSeq(w, k, Len(w))
            PROVE  m \in Direction(p)!Rests(w)
        BY <4>4 DEF Direction!Rests
      <4> HIDE DEF m
      <4> QED BY <4>1, <4>2, <4>3, <4>4
    <3>4. Pure(Content(Mine(p))) /\ p \notin drained
      BY <1>0, <1>1, <2>1 DEF Flow, DelimitedAt
    <3>5. Content(Mine(p)) \in Seq(Frame)
      BY <1>3, <3>1
    <3> HIDE DEF m
    <3>6. Pure(Content(Mine(p)')) /\ Content(Mine(p)') \in Seq(Frame)
      BY <3>2, <3>3, <3>4, <3>5, PureFrames, FrameConcat
    <3>7. DelimitedAt(p)'
      BY <1>1, <3>4, <3>6, PureFrames DEF DelimitedAt
    <3>8. UnderWay(p) = Content(Mine(p)) /\ UnderWay(p)' = Content(Mine(p)')
      BY <1>1, <2>1, <3>4, <3>5, <3>6, PureFrames, UnderWayContent, <1>0 DEF Reading, UnderWay, Content
    <3>9. sent'[e] = n
      BY <1>1, <1>2, <2>1
    <3>11. ~Torn(e)'
      BY <1>15, <2>1
    <3>12. \E w \in FramesOf(sent'[e]) :
             IF ~Torn(e) THEN UnderWay(p)' = UnderWay(p) \o w
             ELSE \E rest \in Direction(p)!Rests(w) : UnderWay(p)' = UnderWay(p) \o rest
      <4>1. UnderWay(p)' = UnderWay(p) \o m
        BY <3>2, <3>8
      <4> QED BY <3>3, <3>9, <4>1
    <3>10. Direction(p)!Send
      BY <1>0, <1>1, <2>1, <3>9, <3>11, <3>12 DEF Direction!Send, Reading, x
    <3> QED BY <3>7, <3>10 DEF StepOf, Direction!Next
  <2>2. CASE ~more /\ ~(Reading(p) /\ inpipe[p] = x)
    <3>1. Reading(p) => Mine(p)' = Mine(p)
      <4>1. Reading(p) => inpipe[p] # None /\ inpipe[p] \in Queues
        BY <1>0, Apart DEF Reading
      <4> QED BY <1>1, <1>2, <2>2, <4>1 DEF Mine
    <3>2. UnderWay(p)' = UnderWay(p)
      BY <1>1, <3>1 DEF UnderWay, Reading
    <3>3. sent'[e] = n
      BY <1>1, <1>2, <2>2
    <3>4. Direction(p)!Send
      <4>1. ~Torn(e)'
        BY <1>15, <2>2
      <4> QED BY <1>0, <1>1, <2>2, <3>2, <3>3, <4>1 DEF Direction!Send, Reading, x
    <3>5. DelimitedAt(p)'
      BY <1>0, <1>1, <3>1 DEF Flow, DelimitedAt, Reading
    <3> QED BY <3>4, <3>5 DEF StepOf, Direction!Next
  <2>3. CASE more
    <3>1. Content(Out(e)') = Content(Out(e))
      BY <1>13, <1>14, <2>3
    <3>2. Reading(p) => Content(Mine(p)') = Content(Mine(p))
      <4>1. Reading(p) => inpipe[p] # None /\ inpipe[p] \in Queues
        BY <1>0, Apart DEF Reading
      <4>2. CASE inpipe[p] = x
        BY <1>1, <3>1, <4>2 DEF Mine, Out, x
      <4>3. CASE inpipe[p] # x
        BY <1>1, <1>2, <4>1, <4>3 DEF Mine
      <4> QED BY <4>2, <4>3
    <3>3. Undisturbed(p)
      BY <1>1, <2>3, <3>2 DEF Undisturbed, Reading
    <3> QED BY <1>0, <1>1, <1>15, <2>3, <3>3, Calm DEF Flow
  <2> QED BY <2>1, <2>2, <2>3
<1>12. \A d \in Ends : DelimitedAt(d)' /\ UnfinishedAt(d)' /\ StepOf(d)
  BY <1>0, <1>7, <1>8, <1>10, <1>11
<1> QED BY <1>5, <1>6, <1>12 DEF Flow

(* Nothing is written or read, and no end terminates: the direction is     *)
(* undisturbed.                                                            *)
LEMMA Still ==
  ASSUME PipeInv, NEW r \in Ends, UNCHANGED <<inpipe, outpipe, sent, got, drained>>,
         Reading(r)' <=> Reading(r),
         \A q \in Queues : Content(ypipe'[q]) = Content(ypipe[q])
  PROVE  Undisturbed(r)
<1>1. Reading(r) => inpipe[r] # None /\ inpipe[r] \in Queues
  BY Apart DEF Reading
<1>2. Reading(r) => Content(Mine(r)') = Content(Mine(r))
  BY <1>1 DEF Mine
<1> QED BY <1>2 DEF Undisturbed

(* A step that leaves unfinished messages alone or drops them, and writes  *)
(* nothing to a queue that the socket does not know of.                    *)
LEMMA KeptQueues ==
  ASSUME PipeInv, Flow, UNCHANGED sent,
         state'["session"] # "freed" => state["session"] # "freed" /\ Oldest' = Oldest,
         \A n \in 0 .. MaxHiccups :
           n > Oldest /\ Blank(ypipe[<<"session", n>>]) => Blank(ypipe'[<<"session", n>>]),
         \A d \in Ends : state'[d] = "active" => Same(d) \/ Given(d)
  PROVE  /\ Unplugged'
         /\ \A d \in Ends : UnfinishedAt(d)' /\ (Torn(d)' => Torn(d))
<1> USE PipeAssumption
<1>1. Unplugged'
  BY DEF Flow, Unplugged
<1>2. ASSUME NEW d \in Ends PROVE UnfinishedAt(d)'
  <2> SUFFICES ASSUME state'[d] = "active"
               PROVE  (Begun(Out(d).partial, sent[d] + 1, begun[d]) /\ begun[d] < MaxFrames[d])'
    BY DEF UnfinishedAt
  <2>1. CASE Same(d)
    <3>1. Begun(Out(d).partial, sent[d] + 1, begun[d]) /\ begun[d] < MaxFrames[d]
      BY <2>1 DEF Flow, UnfinishedAt, Same
    <3>2. Out(d)'.partial = Out(d).partial /\ begun'[d] = begun[d]
      BY <2>1 DEF Out, Same
    <3> QED BY <3>1, <3>2
  <2>2. CASE Given(d)
    <3>1. Out(d)'.partial = <<>> /\ begun'[d] = 0
      BY <2>2 DEF Out, Given
    <3>2. Begun(<<>>, sent'[d] + 1, 0) /\ 0 < MaxFrames[d]
      BY DEF Begun
    <3> QED BY <3>1, <3>2
  <2> QED BY <2>1, <2>2
<1>3. ASSUME NEW d \in Ends PROVE Torn(d)' => Torn(d)
  <2>1. state'[d] # "active" => ~Torn(d)'
    BY DEF Torn
  <2> QED BY <2>1, NotTorn
<1> QED BY <1>1, <1>2, <1>3

(* Steps within one end.                                                   *)
LEMMA StillFlow ==
  ASSUME PipeInv, Flow, UNCHANGED <<state, inpipe, outpipe, sent, got, drained>>,
         \A d \in Ends : d \in asked => d \in asked',
         \A d \in Ends : d \notin delay' => d \in asked',
         \A q \in Queues : /\ Content(ypipe'[q]) = Content(ypipe[q])
                           /\ ypipe'[q].partial \in {ypipe[q].partial, <<>>},
         (\A d \in Ends : Same(d)) \/ (asked' = asked /\ \A d \in Ends : Same(d) \/ Given(d))
  PROVE  Flow' /\ \A r \in Ends : StepOf(r)
<1>1. Unplugged' /\ \A d \in Ends : UnfinishedAt(d)' /\ (Torn(d)' => Torn(d))
  <2>1. Oldest' = Oldest
    BY DEF Newest, Oldest
  <2>2. \A n \in 0 .. MaxHiccups : <<"session", n>> \in Queues
    BY DEF Queues
  <2>3. \A n \in 0 .. MaxHiccups :
          Blank(ypipe[<<"session", n>>]) => Blank(ypipe'[<<"session", n>>])
    BY <2>2 DEF Blank
  <2> QED BY <2>1, <2>3, KeptQueues
<1>2. \A d \in Ends : WillingAt(d)'
  BY DEF Flow, WillingAt
<1>3. ASSUME NEW r \in Ends PROVE DelimitedAt(r)' /\ StepOf(r)
  <2>1. Reading(r)' <=> Reading(r)
    BY DEF Reading
  <2>2. Undisturbed(r)
    BY <2>1, Still
  <2>3. DelimitedAt(r) /\ (r \in asked => r \in asked')
    BY DEF Flow
  <2>4. Peer(r) \in Ends /\ (Torn(Peer(r))' => Torn(Peer(r)))
    BY <1>1, TwoEnds
  <2>5. CASE \A d \in Ends : Same(d)
    <3>1. Torn(Peer(r))' <=> Torn(Peer(r))
      BY <2>4, <2>5, NotTorn
    <3> QED BY <2>2, <2>3, <2>4, <3>1, Calm
  <2>6. CASE asked' = asked
    BY <2>2, <2>3, <2>4, <2>6, Calm
  <2> QED BY <2>5, <2>6
<1> QED BY <1>1, <1>2, <1>3 DEF Flow

LEMMA InnerFlow ==
  ASSUME PipeInv, Flow, NEW e \in Ends,
         \/ WriteFull(e) \/ Flush(e) \/ Rollback(e) \/ ReadNothing(e)
         \/ ProcessActivateRead(e) \/ ProcessActivateWrite(e)
  PROVE  Flow' /\ \A r \in Ends : StepOf(r)
<1>0. \A d \in Ends : d \notin delay => d \in asked
  BY DEF Flow, WillingAt
<1>1. \A q \in Queues : ypipe[q] \in Queue
  BY DEF PipeInv, Typed
<1>2. UNCHANGED <<state, delay, inpipe, outpipe, sent, got, asked, drained>>
  BY DEF WriteFull, Flush, Rollback, ReadNothing, ProcessActivateRead, ProcessActivateWrite,
         ends, hist
<1>3. CASE WriteFull(e) \/ ProcessActivateRead(e) \/ ProcessActivateWrite(e)
  <2>1. ypipe' = ypipe /\ begun' = begun
    BY <1>3 DEF WriteFull, ProcessActivateRead, ProcessActivateWrite, hist
  <2>2. \A d \in Ends : Same(d)
    BY <1>2, <2>1 DEF Same
  <2> QED BY <1>0, <1>2, <2>1, <2>2, StillFlow
<1>8. \A d \in Ends : state[d] = "active" => outpipe[d] \in Queues
  BY Apart DEF Gone
<1>4. ASSUME NEW x \in Queues, NEW new, ypipe' = [ypipe EXCEPT ![x] = new],
             Content(new) = Content(ypipe[x]),
             \/ new.partial = ypipe[x].partial /\ begun' = begun
             \/ x = outpipe[e] /\ new.partial = <<>> /\ begun' = [begun EXCEPT ![e] = 0]
      PROVE  Flow' /\ \A r \in Ends : StepOf(r)
  <2>1. ypipe \in [Queues -> Queue]
    BY DEF PipeInv, Typed
  <2>2. \A q \in Queues : ypipe'[q] = IF q = x THEN new ELSE ypipe[q]
    BY <1>4, <2>1
  <2>3. \A q \in Queues : /\ Content(ypipe'[q]) = Content(ypipe[q])
                          /\ ypipe'[q].partial \in {ypipe[q].partial, <<>>}
    BY <1>4, <2>2
  <2>4. CASE new.partial = ypipe[x].partial /\ begun' = begun
    <3>1. \A d \in Ends : Same(d)
      BY <1>2, <1>8, <2>2, <2>4 DEF Same
    <3> QED BY <1>0, <1>2, <2>3, <3>1, StillFlow
  <2>5. CASE x = outpipe[e] /\ new.partial = <<>> /\ begun' = [begun EXCEPT ![e] = 0]
    <3>1. begun'[e] = 0 /\ \A d \in Ends : d # e => begun'[d] = begun[d]
      BY <2>5 DEF PipeInv, Typed
    <3>2. Given(e)
      BY <1>2, <2>2, <2>5, <3>1 DEF Given
    <3>3. ASSUME NEW d \in Ends, d # e PROVE Same(d)
      <4>1. d = Peer(e) /\ e = Peer(d)
        BY <3>3, TwoEnds
      <4>2. state[d] = "active" => outpipe[d] # x
        BY <2>5, <4>1, Apart DEF Gone
      <4> QED BY <1>2, <1>8, <2>2, <3>1, <3>3, <4>2 DEF Same
    <3> QED BY <1>0, <1>2, <2>3, <3>2, <3>3, StillFlow
  <2> QED BY <1>4, <2>4, <2>5
<1>5. CASE Flush(e)
  <2>1. outpipe[e] \in Queues /\ ypipe' = [ypipe EXCEPT ![outpipe[e]] = YFlush(ypipe[outpipe[e]])]
    BY <1>5, Apart DEF Flush
  <2>2. /\ Content(YFlush(ypipe[outpipe[e]])) = Content(ypipe[outpipe[e]])
        /\ YFlush(ypipe[outpipe[e]]).partial = ypipe[outpipe[e]].partial
    BY <1>1, <2>1, ContentOps
  <2>3. begun' = begun
    BY <1>5 DEF Flush, hist
  <2> QED BY <1>4, <2>1, <2>2, <2>3
<1>6. CASE Rollback(e)
  <2>1. /\ outpipe[e] \in Queues
        /\ ypipe' = [ypipe EXCEPT ![outpipe[e]] = YUnwrite(ypipe[outpipe[e]])]
    BY <1>6, Apart DEF Rollback
  <2>2. /\ Content(YUnwrite(ypipe[outpipe[e]])) = Content(ypipe[outpipe[e]])
        /\ YUnwrite(ypipe[outpipe[e]]).partial = <<>>
    BY <1>1, <2>1, ContentOps
  <2>3. begun' = [begun EXCEPT ![e] = 0]
    BY <1>6 DEF Rollback
  <2> QED BY <1>4, <2>1, <2>2, <2>3
<1>7. CASE ReadNothing(e)
  <2>1. inpipe[e] \in Queues /\ ypipe' = [ypipe EXCEPT ![inpipe[e]] = YSleep(ypipe[inpipe[e]])]
    BY <1>7, Apart DEF ReadNothing, Reading
  <2>2. /\ Content(YSleep(ypipe[inpipe[e]])) = Content(ypipe[inpipe[e]])
        /\ YSleep(ypipe[inpipe[e]]).partial = ypipe[inpipe[e]].partial
    BY <1>1, <2>1, ContentOps
  <2>3. begun' = begun
    BY <1>7 DEF ReadNothing, hist
  <2> QED BY <1>4, <2>1, <2>2, <2>3
<1> QED BY <1>3, <1>5, <1>6, <1>7

(* Reading the next frame of a queue that holds one.                       *)
LEMMA TakesFrame ==
  ASSUME PipeInv, Flow, NEW e \in Ends, Reading(e), Mine(e).flushed # <<>>,
         ypipe' = [ypipe EXCEPT ![inpipe[e]] = YRead(@)]
  PROVE  /\ inpipe[e] \in Queues /\ outpipe[Peer(e)] = inpipe[e]
         /\ Content(Mine(e)) \in Seq(Frame) /\ Content(Mine(e)) # <<>>
         /\ Head(Content(Mine(e))) = Head(Mine(e).flushed)
         /\ Content(ypipe'[inpipe[e]]) = Tail(Content(Mine(e)))
         /\ \A q \in Queues : /\ ypipe'[q].partial = ypipe[q].partial
                              /\ Blank(ypipe[q]) => Blank(ypipe'[q])
                              /\ q # inpipe[e] => ypipe'[q] = ypipe[q]
<1> DEFINE x == inpipe[e]
<1>1. x \in Queues /\ Mine(e) \in Queue /\ Mine(e) = ypipe[x] /\ ypipe \in [Queues -> Queue]
  BY Apart DEF Reading, Mine, PipeInv, Typed
<1>2. /\ Content(Mine(e)) \in Seq(Frame) /\ Content(Mine(e)) # <<>>
      /\ Head(Content(Mine(e))) = Head(Mine(e).flushed)
      /\ Content(YRead(Mine(e))) = Tail(Content(Mine(e)))
      /\ YRead(Mine(e)).partial = Mine(e).partial
  BY <1>1, ContentOps
<1>3. outpipe[Peer(e)] = x
  BY <1>2, Plugged DEF Flow
<1>4. ypipe'[x] = YRead(Mine(e)) /\ \A q \in Queues : q # x => ypipe'[q] = ypipe[q]
  BY <1>1
<1> HIDE DEF x
<1>5. ASSUME NEW q \in Queues
      PROVE  ypipe'[q].partial = ypipe[q].partial /\ (Blank(ypipe[q]) => Blank(ypipe'[q]))
  <2>1. CASE q = x
    BY <1>1, <1>2, <1>4, <2>1 DEF Blank
  <2>2. CASE q # x
    BY <1>4, <2>2
  <2> QED BY <2>1, <2>2
<1> QED BY <1>1, <1>2, <1>3, <1>4, <1>5 DEF x

(* A step of e that only reads does not disturb what it writes.            *)
LEMMA ReaderApart ==
  ASSUME PipeInv, NEW e \in Ends, UNCHANGED <<inpipe, sent>>,
         \A q \in Queues : q # inpipe[e] => ypipe'[q] = ypipe[q],
         got'[Peer(e)] = got[Peer(e)], state'[Peer(e)] = state[Peer(e)],
         Peer(e) \in drained' <=> Peer(e) \in drained,
         Reading(Peer(e)) => outpipe'[e] = outpipe[e]
  PROVE  Undisturbed(Peer(e))
<1> DEFINE p == Peer(e)
<1>0. p \in Ends /\ Peer(p) = e
  BY TwoEnds
<1>1. Reading(p) => inpipe[p] # None /\ inpipe[p] \in Queues /\ inpipe[p] # inpipe[e]
  BY <1>0, Apart DEF Reading
<1>2. Reading(p) => Mine(p)' = Mine(p)
  BY <1>1 DEF Mine
<1> QED BY <1>0, <1>2 DEF Undisturbed, Reading

LEMMA ReadFrameFlow ==
  ASSUME PipeInv, Flow, NEW e \in Ends, ReadFrame(e)
  PROVE  Flow' /\ \A r \in Ends : StepOf(r)
<1> DEFINE p == Peer(e)
           c == Content(Mine(e))
           f == Head(Mine(e).flushed)
<1>0. p \in Ends /\ p # e /\ Peer(p) = e /\ \A d \in Ends : d = e \/ d = p
  BY TwoEnds
<1>1. /\ Reading(e) /\ Mine(e).flushed # <<>> /\ f # Delimiter
      /\ ypipe' = [ypipe EXCEPT ![inpipe[e]] = YRead(@)]
      /\ got' = [got EXCEPT ![e] = Append(@, f)]
      /\ UNCHANGED <<state, delay, inpipe, outpipe, sent, begun, asked, drained>>
  BY DEF ReadFrame
<1>2. /\ inpipe[e] \in Queues /\ outpipe[p] = inpipe[e]
      /\ c \in Seq(Frame) /\ c # <<>> /\ Head(c) = f
      /\ Content(ypipe'[inpipe[e]]) = Tail(c)
      /\ \A q \in Queues : /\ ypipe'[q].partial = ypipe[q].partial
                           /\ Blank(ypipe[q]) => Blank(ypipe'[q])
                           /\ q # inpipe[e] => ypipe'[q] = ypipe[q]
  BY <1>1, TakesFrame
<1>3. /\ Unplugged'
      /\ \A d \in Ends : UnfinishedAt(d)' /\ (Torn(d)' <=> Torn(d))
  <2>1. Oldest' = Oldest
    BY <1>1 DEF Newest, Oldest
  <2>2. \A n \in 0 .. MaxHiccups : <<"session", n>> \in Queues
    BY DEF Queues
  <2>3. \A d \in Ends : state[d] = "active" => outpipe[d] \in Queues
    BY Apart DEF Gone
  <2>4. \A d \in Ends : state[d] = "active" =>
          ypipe'[outpipe[d]].partial = ypipe[outpipe[d]].partial
    BY <1>2, <2>3
  <2>5. \A n \in 0 .. MaxHiccups :
          Blank(ypipe[<<"session", n>>]) => Blank(ypipe'[<<"session", n>>])
    BY <1>2, <2>2
  <2>6. \A d \in Ends : Same(d)
    BY <1>1, <2>4 DEF Same
  <2>7. \A d \in Ends : Torn(d)' <=> Torn(d)
    BY <2>6, NotTorn
  <2> QED BY <1>1, <2>1, <2>5, <2>6, <2>7, KeptQueues
<1>4. \A d \in Ends : WillingAt(d)'
  BY <1>1 DEF Flow, WillingAt
<1>5. got \in [Ends -> Seq(Frame)]
  BY DEF PipeInv, Typed
<1>6. got'[e] = Append(got[e], f) /\ got'[p] = got[p]
  BY <1>0, <1>1, <1>5
<1>7. DelimitedAt(p)' /\ StepOf(p)
  <2>1. Undisturbed(p)
    BY <1>1, <1>2, <1>6, ReaderApart
  <2>2. DelimitedAt(p)
    BY <1>0 DEF Flow
  <2> QED BY <1>0, <1>1, <1>3, <2>1, <2>2, Calm
<1>8. LastOnly(c) /\ (state[p] \in {"active", "delimiter_received"} => Pure(c)) /\ e \notin drained
  BY <1>1 DEF Flow, DelimitedAt
<1>9. Content(Mine(e)') = Tail(c) /\ Reading(e)'
  BY <1>1, <1>2 DEF Mine, Reading
<1> HIDE DEF c, f
<1>10. /\ LastOnly(Tail(c)) /\ (Pure(c) => Pure(Tail(c)))
       /\ Undelimited(c) # <<>> /\ Head(Undelimited(c)) = f
       /\ Tail(Undelimited(c)) = Undelimited(Tail(c))
  BY <1>1, <1>2, <1>8, FirstFrame
<1>11. DelimitedAt(e)'
  BY <1>1, <1>8, <1>9, <1>10 DEF DelimitedAt
<1>12. UnderWay(e) = Undelimited(c) /\ UnderWay(e)' = Undelimited(Tail(c))
  <2>1. UnderWay(e)' = Undelimited(Content(Mine(e)'))
    BY <1>9 DEF UnderWay, Content
  <2>2. UnderWay(e) = Undelimited(c)
    BY <1>1 DEF UnderWay, Content, c
  <2> QED BY <1>9, <2>1, <2>2
<1>13. Direction(e)!Take
  BY <1>0, <1>1, <1>2, <1>3, <1>6, <1>9, <1>10, <1>12 DEF Direction!Take
<1>14. \A d \in Ends : DelimitedAt(d)' /\ StepOf(d)
  BY <1>0, <1>7, <1>11, <1>13 DEF StepOf, Direction!Next
<1> QED BY <1>3, <1>4, <1>14 DEF Flow

LEMMA ReadDelimiterFlow ==
  ASSUME PipeInv, Flow, NEW e \in Ends, ReadDelimiter(e)
  PROVE  Flow' /\ \A r \in Ends : StepOf(r)
<1> DEFINE p == Peer(e)
           c == Content(Mine(e))
<1>0. p \in Ends /\ p # e /\ Peer(p) = e /\ \A d \in Ends : d = e \/ d = p
  BY TwoEnds
<1>1. /\ Reading(e) /\ Mine(e).flushed # <<>> /\ Head(Mine(e).flushed) = Delimiter
      /\ ypipe' = [ypipe EXCEPT ![inpipe[e]] = YRead(@)]
      /\ drained' = drained \cup {e}
      /\ UNCHANGED <<delay, inpipe, sent, begun, got, asked>>
  BY DEF ReadDelimiter, ProcessDelimiter
<1>2. state \in [Ends -> States] /\ outpipe \in [Ends -> Queues \cup {None}]
  BY DEF PipeInv, Typed
<1>3. /\ state'[p] = state[p] /\ outpipe'[p] = outpipe[p]
      /\ state[e] = "active" => state'[e] = "delimiter_received" /\ outpipe' = outpipe
      /\ state[e] # "active" =>
           /\ state[e] = "waiting_for_delimiter"
           /\ state'[e] = "term_ack_sent" /\ outpipe' = [outpipe EXCEPT ![e] = None]
  <2>1. CASE state[e] = "active"
    BY <1>0, <1>2, <2>1 DEF ReadDelimiter, ProcessDelimiter, SetState
  <2>2. CASE state[e] # "active"
    <3>1. state[e] = "waiting_for_delimiter"
      BY <1>1, <2>2 DEF Reading
    <3> QED BY <1>0, <1>2, <2>2, <3>1 DEF ReadDelimiter, ProcessDelimiter, SetState
  <2> QED BY <2>1, <2>2
<1>4. /\ inpipe[e] \in Queues /\ outpipe[p] = inpipe[e]
      /\ c \in Seq(Frame) /\ c # <<>> /\ Head(c) = Delimiter
      /\ Content(ypipe'[inpipe[e]]) = Tail(c)
      /\ \A q \in Queues : /\ ypipe'[q].partial = ypipe[q].partial
                           /\ Blank(ypipe[q]) => Blank(ypipe'[q])
                           /\ q # inpipe[e] => ypipe'[q] = ypipe[q]
  BY <1>1, TakesFrame
<1>5. (* The peer reads this queue no more, if e has given it up. *)
      state[e] # "active" => state[p] = "term_req_sent1"
  BY <1>3 DEF PipeInv, Handshake, PeersOf
<1>6. ~Reading(e)' /\ e \in drained'
  BY <1>1, <1>3 DEF Reading
<1>7. Unplugged' /\ \A d \in Ends : UnfinishedAt(d)' /\ (Torn(d)' => Torn(d))
  <2>1. ASSUME state'["session"] # "freed"
        PROVE  state["session"] # "freed" /\ Oldest' = Oldest
    <3>1. state["session"] # "freed"
      BY <1>0, <1>3, <2>1 DEF Ends
    <3>2. CASE state[e] = "active"
      BY <1>1, <1>3, <3>1, <3>2 DEF Newest, Oldest
    <3>3. CASE state[e] # "active"
      <4>1. e = "socket" => ~Holds(mbox["socket"], "hiccup")
        BY <1>3, <3>3 DEF PipeInv, Announced, Unaware
      <4> QED BY <1>1, <1>3, <3>1, <3>3, <4>1, GivesUp DEF PipeInv
    <3> QED BY <3>2, <3>3
  <2>2. \A n \in 0 .. MaxHiccups : <<"session", n>> \in Queues
    BY DEF Queues
  <2>3. \A n \in 0 .. MaxHiccups :
          Blank(ypipe[<<"session", n>>]) => Blank(ypipe'[<<"session", n>>])
    BY <1>4, <2>2
  <2>4. \A d \in Ends : state'[d] = "active" => d = p /\ state[d] = "active" /\ outpipe[d] \in Queues
    BY <1>0, <1>3, Apart DEF Gone
  <2>5. \A d \in Ends : state'[d] = "active" => Same(d)
    BY <1>1, <1>3, <1>4, <2>4 DEF Same
  <2> QED BY <1>1, <2>1, <2>3, <2>5, KeptQueues
<1>8. \A d \in Ends : WillingAt(d)'
  <2> TAKE d \in Ends
  <2>1. CASE d = e
    BY <1>1, <2>1 DEF Flow, WillingAt
  <2>2. CASE d = p
    BY <1>1, <1>3, <2>2 DEF Flow, WillingAt
  <2> QED BY <1>0, <2>1, <2>2
<1>9. DelimitedAt(p)' /\ StepOf(p)
  <2>1. Reading(p) => outpipe'[e] = outpipe[e]
    BY <1>3, <1>5 DEF Reading
  <2>2. Undisturbed(p)
    BY <1>0, <1>1, <1>3, <1>4, <2>1, ReaderApart
  <2>3. DelimitedAt(p)
    BY <1>0 DEF Flow
  <2>4. /\ state'[e] \in {"active", "delimiter_received"} =>
             state[e] \in {"active", "delimiter_received"}
        /\ state'[e] = "active" => state[e] = "active"
    BY <1>3
  <2> QED BY <1>0, <1>1, <1>7, <2>2, <2>3, <2>4, Calm
<1>10. DelimitedAt(e)'
  BY <1>6 DEF DelimitedAt
<1>11. LastOnly(c) /\ (state[p] \in {"active", "delimiter_received"} => Pure(c))
  BY <1>1 DEF Flow, DelimitedAt
<1>12. UnderWay(e) = Undelimited(c) /\ UnderWay(e)' = <<>>
  BY <1>1, <1>6 DEF UnderWay, Content
<1> HIDE DEF c
<1>13. Undelimited(c) = <<>> /\ ~Pure(c)
  BY <1>4, <1>11, FirstFrame
<1>14. Direction(e)!Drain
  <2>1. ~Torn(p) /\ ~Torn(p)'
    BY <1>3, <1>11, <1>13 DEF Torn
  <2> QED BY <1>1, <1>3, <1>4, <1>6, <1>11, <1>12, <1>13, <2>1 DEF Direction!Drain
<1>15. \A d \in Ends : DelimitedAt(d)' /\ StepOf(d)
  BY <1>0, <1>9, <1>10, <1>14 DEF StepOf, Direction!Next
<1> QED BY <1>7, <1>8, <1>15 DEF Flow

(* Writing the delimiter.                                                  *)
LEMMA WritesDelimiter ==
  ASSUME PipeInv, Flow, NEW e \in Ends, outpipe[e] # None, state'[e] # "active",
         state'[Peer(e)] = state[Peer(e)],
         \A d \in Ends : state'[d] # "freed" => state[d] # "freed",
         ypipe' = [ypipe EXCEPT ![outpipe[e]] = LastWords(e)],
         UNCHANGED <<inpipe, outpipe, sent, begun>>
  PROVE  /\ Unplugged' /\ \A d \in Ends : UnfinishedAt(d)' /\ (Torn(d)' => Torn(d))
         /\ Torn(Peer(e))' <=> Torn(Peer(e))
         /\ outpipe[e] \in Queues /\ Out(e) \in Queue
         /\ Content(ypipe'[outpipe[e]]) = Content(Out(e)) \o <<Delimiter>>
         /\ \A q \in Queues : q # outpipe[e] => ypipe'[q] = ypipe[q]
<1> DEFINE p == Peer(e)
           x == outpipe[e]
<1>0. /\ p \in Ends /\ \A d \in Ends : d = e \/ d = p
      /\ "session" \in Ends
  BY TwoEnds DEF Ends
<1>1. x \in Queues /\ Out(e) \in Queue /\ ypipe \in [Queues -> Queue]
  BY Apart DEF PipeInv, Typed
<1>2. Content(LastWords(e)) = Content(Out(e)) \o <<Delimiter>>
  BY <1>1, ContentOps DEF LastWords
<1>3. ypipe'[x] = LastWords(e) /\ \A q \in Queues : q # x => ypipe'[q] = ypipe[q]
  BY <1>1
<1>4. Oldest' = Oldest
  BY DEF Newest, Oldest
<1>5. \A n \in 0 .. MaxHiccups : n > Oldest => ypipe'[<<"session", n>>] = ypipe[<<"session", n>>]
  <2>1. \A n \in 0 .. MaxHiccups : <<"session", n>> \in Queues
    BY DEF Queues
  <2>2. \A n \in 0 .. MaxHiccups : n > Oldest => x # <<"session", n>>
    BY OutIsOld
  <2> HIDE DEF x
  <2> QED BY <1>3, <2>1, <2>2
<1>6. state[p] = "active" => outpipe[p] \in Queues /\ outpipe[p] # x
  BY <1>0, Apart, TwoEnds DEF Gone
<1>7. Same(p)
  BY <1>0, <1>3, <1>6 DEF Same
<1>9. \A d \in Ends : state'[d] = "active" => Same(d)
  BY <1>0, <1>7
<1>8. Unplugged' /\ \A d \in Ends : UnfinishedAt(d)' /\ (Torn(d)' => Torn(d))
  BY <1>0, <1>4, <1>5, <1>9, KeptQueues
<1>10. Torn(p)' <=> Torn(p)
  BY <1>0, <1>7, NotTorn
<1> QED BY <1>1, <1>2, <1>3, <1>8, <1>10

(* Who does not read is not disturbed.                                     *)
LEMMA NotReading ==
  ASSUME NEW r \in Ends, ~Reading(r), ~Reading(r)', sent'[Peer(r)] = sent[Peer(r)],
         got'[r] = got[r], r \in drained' <=> r \in drained
  PROVE  Undisturbed(r) /\ DelimitedAt(r)'
BY DEF Undisturbed, DelimitedAt

(* The peer of an end that terminates finds the delimiter behind all else. *)
LEMMA FindsDelimiter ==
  ASSUME PipeInv, Flow, NEW e \in Ends, state[e] \in {"active", "delimiter_received"},
         state'[e] = "term_req_sent1", state'[Peer(e)] = state[Peer(e)],
         ypipe' = [ypipe EXCEPT ![outpipe[e]] = LastWords(e)],
         Peer(e) \in asked' <=> Peer(e) \in asked,
         UNCHANGED <<inpipe, outpipe, sent, begun, got, drained>>
  PROVE  DelimitedAt(Peer(e))' /\ StepOf(Peer(e))
<1> DEFINE p == Peer(e)
           x == outpipe[e]
           c == Content(Mine(p))
<1>0. p \in Ends /\ p # e /\ Peer(p) = e /\ \A d \in Ends : d = e \/ d = p
  BY TwoEnds
<1>1. outpipe[e] # None
  BY Apart DEF Gone
<1>2. /\ x \in Queues /\ Out(e) \in Queue
      /\ Content(ypipe'[x]) = Content(Out(e)) \o <<Delimiter>>
      /\ \A q \in Queues : q # x => ypipe'[q] = ypipe[q]
  <2>1. \A d \in Ends : state'[d] # "freed" => state[d] # "freed"
    BY <1>0
  <2> QED BY <1>1, <2>1, WritesDelimiter
<1>3. Reading(p) => /\ inpipe[p] \in Queues /\ p \notin drained
                    /\ c \in Seq(Frame) /\ Pure(c)
  <2>1. Reading(p) => inpipe[p] \in Queues /\ Mine(p) \in Queue
    BY <1>0, Apart DEF Reading
  <2>2. Reading(p) => p \notin drained /\ Pure(c)
    BY <1>0 DEF Flow, DelimitedAt
  <2> QED BY <2>1, <2>2, ContentOps
<1>4. Reading(p)' <=> Reading(p)
  BY DEF Reading
<1>7. ~Torn(e)'
  BY DEF Torn
<1>5. CASE Reading(p) /\ inpipe[p] = x
  <2>1. Content(Mine(p)') = c \o <<Delimiter>>
    BY <1>2, <1>5 DEF Mine, Out
  <2>2. c \in Seq(Frame) /\ Pure(c) /\ p \notin drained
    BY <1>3, <1>5
  <2>3. UnderWay(p) = Undelimited(c) /\ UnderWay(p)' = Undelimited(Content(Mine(p)'))
    BY <1>4, <1>5 DEF UnderWay, Content
  <2> HIDE DEF c
  <2>4. LastOnly(c \o <<Delimiter>>) /\ Undelimited(c \o <<Delimiter>>) = c /\ Undelimited(c) = c
    BY <2>2, PureFrames
  <2>5. UnderWay(p)' = UnderWay(p)
    BY <2>1, <2>3, <2>4
  <2>6. DelimitedAt(p)'
    BY <1>0, <1>4, <2>1, <2>2, <2>4 DEF DelimitedAt
  <2>7. Direction(p)!Close
    BY <1>0, <1>4, <1>7, <2>5 DEF Direction!Close
  <2> QED BY <2>6, <2>7 DEF StepOf, Direction!Next
<1>6. CASE ~(Reading(p) /\ inpipe[p] = x)
  <2>1. Reading(p) => Mine(p)' = Mine(p)
    BY <1>2, <1>3, <1>6 DEF Mine
  <2>2. Undisturbed(p)
    BY <1>0, <1>4, <2>1 DEF Undisturbed
  <2>3. DelimitedAt(p)
    BY <1>0 DEF Flow
  <2> QED BY <1>0, <1>7, <2>2, <2>3, Calm
<1> QED BY <1>5, <1>6

LEMMA TerminateFlow ==
  ASSUME PipeInv, Flow, NEW e \in Ends, NEW wait \in BOOLEAN, Terminate(e, wait)
  PROVE  Flow' /\ \A r \in Ends : StepOf(r)
<1> DEFINE p == Peer(e)
<1>0. p \in Ends /\ p # e /\ Peer(p) = e /\ \A d \in Ends : d = e \/ d = p
  BY TwoEnds
<1>1. /\ asked' = asked \cup {e} /\ \A d \in Ends : d # e => (d \in delay' <=> d \in delay)
      /\ UNCHANGED <<inpipe, sent, begun, got, drained>>
  BY DEF Terminate
<1>2. \A d \in Ends : d \notin delay' => d \in asked'
  BY <1>1 DEF Flow, WillingAt
<1>3. state \in [Ends -> States] /\ outpipe \in [Ends -> Queues \cup {None}]
  BY DEF PipeInv, Typed
<1>4. /\ \A d \in Ends : d \in asked => d \in asked'
      /\ e \in asked' /\ (p \in asked' <=> p \in asked)
  BY <1>0, <1>1
<1>5. CASE state' = state /\ outpipe' = outpipe /\ ypipe' = ypipe
  <2>1. \A d \in Ends : Same(d)
    BY <1>1, <1>5 DEF Same
  <2> QED BY <1>1, <1>2, <1>4, <1>5, <2>1, StillFlow
<1>6. ASSUME state'[p] = state[p], state'[e] # "delimiter_received"
      PROVE  \A d \in Ends : WillingAt(d)'
  <2> TAKE d \in Ends
  <2>1. state'[d] = "delimiter_received" => state[d] = "delimiter_received"
    BY <1>0, <1>6
  <2> QED BY <1>1, <1>2, <2>1 DEF Flow, WillingAt
<1>7. CASE /\ state[e] \in {"active", "delimiter_received"}
           /\ SetState(e, "term_req_sent1") /\ UNCHANGED outpipe
           /\ ypipe' = [ypipe EXCEPT ![outpipe[e]] = LastWords(e)]
  <2>1. state'[e] = "term_req_sent1" /\ state'[p] = state[p]
    BY <1>0, <1>3, <1>7 DEF SetState
  <2>2. outpipe[e] # None
    BY <1>7, Apart DEF Gone
  <2>3. \A d \in Ends : state'[d] # "freed" => state[d] # "freed"
    BY <1>0, <1>7, <2>1
  <2>4. Unplugged' /\ (\A d \in Ends : UnfinishedAt(d)') /\ (Torn(p)' <=> Torn(p))
    BY <1>1, <1>7, <2>1, <2>2, <2>3, WritesDelimiter
  <2>5. DelimitedAt(p)' /\ StepOf(p)
    BY <1>1, <1>4, <1>7, <2>1, FindsDelimiter
  <2>6. ~Reading(e)'
    BY <2>1 DEF Reading
  <2>7. DelimitedAt(e)'
    BY <2>6 DEF DelimitedAt
  <2>8. StepOf(e)
    <3>1. CASE Reading(e)
      <4>1. e \notin drained'
        BY <1>1, <3>1 DEF Flow, DelimitedAt
      <4> QED BY <1>1, <1>4, <2>1, <2>4, <2>6, <3>1, <4>1, Leaves
    <3>2. CASE ~Reading(e)
      <4>1. Undisturbed(e) /\ DelimitedAt(e)
        BY <1>1, <2>6, <3>2, NotReading DEF Flow
      <4> QED BY <1>4, <2>1, <2>4, <4>1, Calm
    <3> QED BY <3>1, <3>2
  <2>9. \A d \in Ends : DelimitedAt(d)' /\ StepOf(d)
    BY <1>0, <2>5, <2>7, <2>8
  <2>10. \A d \in Ends : WillingAt(d)'
    BY <1>6, <2>1
  <2> QED BY <2>4, <2>9, <2>10 DEF Flow
<1>8. ASSUME state[e] = "waiting_for_delimiter"
      PROVE  state[p] = "term_req_sent1" /\ ~Reading(p) /\ Reading(e) /\ e \notin drained
  BY <1>8 DEF PipeInv, Handshake, PeersOf, Reading, Flow, DelimitedAt
<1>9. CASE /\ state[e] = "waiting_for_delimiter" /\ SetState(e, "term_ack_sent")
           /\ outpipe' = [outpipe EXCEPT ![e] = None] /\ UNCHANGED ypipe
  <2>1. state'[e] = "term_ack_sent" /\ state'[p] = state[p]
    BY <1>0, <1>3, <1>9 DEF SetState
  <2>2. ~Reading(e)' /\ ~Reading(p)'
    BY <1>8, <1>9, <2>1 DEF Reading
  <2>3. Unplugged' /\ \A d \in Ends : UnfinishedAt(d)'
    <3>1. e = "socket" => ~Holds(mbox["socket"], "hiccup")
      BY <1>9 DEF PipeInv, Announced, Unaware
    <3>2. state["session"] # "freed" => Oldest' = Oldest
      BY <1>1, <1>9, <3>1, GivesUp DEF PipeInv
    <3>3. state'["session"] # "freed" => state["session"] # "freed"
      BY <1>0, <1>9, <2>1 DEF Ends
    <3>4. \A d \in Ends : state'[d] # "active"
      BY <1>0, <1>8, <1>9, <2>1
    <3> QED BY <1>1, <1>9, <3>2, <3>3, <3>4, KeptQueues
  <2>8. \A d \in Ends : ~Torn(d) /\ ~Torn(d)'
    BY <1>0, <1>8, <1>9, <2>1 DEF Torn
  <2>4. StepOf(e)
    BY <1>0, <1>1, <1>4, <1>8, <1>9, <2>1, <2>2, <2>8, Leaves
  <2>5. StepOf(p)
    <3>1. Undisturbed(p) /\ DelimitedAt(p)
      BY <1>0, <1>1, <1>8, <1>9, <2>2, NotReading DEF Flow
    <3>2. state'[e] # "active" /\ state[e] # "active"
      BY <1>9, <2>1
    <3> QED BY <1>0, <1>4, <2>8, <3>1, <3>2, Calm
  <2>6. \A d \in Ends : DelimitedAt(d)' /\ StepOf(d)
    BY <1>0, <2>2, <2>4, <2>5 DEF DelimitedAt
  <2>7. \A d \in Ends : WillingAt(d)'
    BY <1>6, <2>1
  <2> QED BY <2>3, <2>6, <2>7 DEF Flow
<1>10. CASE /\ state[e] = "waiting_for_delimiter" /\ UNCHANGED <<state, outpipe>>
            /\ ypipe' = [ypipe EXCEPT ![outpipe[e]] = LastWords(e)]
  <2>1. outpipe[e] # None
    BY <1>10, Apart DEF Gone
  <2>2. /\ Unplugged' /\ \A d \in Ends : UnfinishedAt(d)'
        /\ \A q \in Queues : q # outpipe[e] => ypipe'[q] = ypipe[q]
    BY <1>1, <1>10, <2>1, WritesDelimiter
  <2>3. inpipe[e] \in Queues /\ inpipe[e] # outpipe[e]
    BY <1>10, Apart
  <2>4. Mine(e)' = Mine(e)
    BY <1>1, <2>2, <2>3 DEF Mine
  <2>5. Undisturbed(e)
    BY <1>1, <1>10, <2>4 DEF Undisturbed, Reading
  <2>6. Undisturbed(p)
    BY <1>0, <1>1, <1>8, <1>10 DEF Undisturbed, Reading
  <2>7. \A d \in Ends : DelimitedAt(d)' /\ StepOf(d)
    <3> TAKE d \in Ends
    <3>1. Undisturbed(d) /\ DelimitedAt(d) /\ (d \in asked => d \in asked')
      BY <1>0, <1>4, <2>5, <2>6 DEF Flow
    <3>2. state[Peer(d)] # "active" /\ state'[Peer(d)] # "active"
      BY <1>0, <1>8, <1>10
    <3>3. ~Torn(Peer(d)) /\ ~Torn(Peer(d))'
      BY <3>2 DEF Torn
    <3> QED BY <1>10, <3>1, <3>3, Calm
  <2>8. \A d \in Ends : WillingAt(d)'
    BY <1>6, <1>10
  <2> QED BY <2>2, <2>7, <2>8 DEF Flow
<1> QED BY <1>5, <1>7, <1>9, <1>10 DEF Terminate

(* hiccup(): the session reads a queue the socket does not know of.        *)
LEMMA HiccupFlow ==
  ASSUME PipeInv, Flow, NEW e \in Ends, Hiccup(e)
  PROVE  Flow' /\ \A r \in Ends : StepOf(r)
<1> USE PipeAssumption
<1> DEFINE new == <<"session", Newest + 1>>
<1>0. /\ e = "session" /\ Peer("session") = "socket" /\ Peer("socket") = "session"
      /\ "socket" \in Ends /\ "session" \in Ends
      /\ \A d \in Ends : d = "socket" \/ d = "session"
      /\ state["session"] = "active" /\ state["socket"] \in Unaware
      /\ state["socket"] \notin Gone /\ state["session"] \notin Gone
  BY TwoEnds DEF Hiccup, PipeInv, Handshake, Ends, PeersOf, Unaware, Gone
<1>1. /\ Newest \in 0 .. MaxHiccups /\ Newest < MaxHiccups
      /\ inpipe' = [inpipe EXCEPT !["session"] = new]
      /\ ypipe' = [ypipe EXCEPT ![new] = NewQueue]
      /\ UNCHANGED <<state, delay, outpipe, sent, begun, got, asked, drained>>
  <2>1. inpipe["session"] # None /\ inpipe["session"] \in Queues /\ inpipe["session"][1] = "session"
    BY <1>0 DEF PipeInv, Handshake, Announced, Typed, Gone
  <2>2. Newest \in 0 .. MaxHiccups
    BY <2>1 DEF Queues, Newest
  <2> QED BY <1>0, <2>2 DEF Hiccup, Newest, hist
<1>2. new \in Queues
  BY <1>1 DEF Queues
<1>3. /\ outpipe["socket"] \in Queues /\ outpipe["socket"] # new
      /\ outpipe["session"] \in Queues /\ outpipe["session"] # new
      /\ inpipe["socket"] # None => inpipe["socket"] # new
      /\ Oldest' = Oldest
  <2>1. /\ outpipe["socket"] \in Queues /\ outpipe["session"] \in Queues
        /\ outpipe["socket"] # None /\ outpipe["session"] # None
    BY <1>0, Apart
  <2>2. Oldest' = Oldest /\ Oldest = outpipe["socket"][2]
    BY <1>1, <2>1 DEF Oldest
  <2>3. Oldest <= Newest
    BY <1>0 DEF PipeInv, Announced, Gone
  <2>4. outpipe["socket"] # new
    BY <1>1, <2>1, <2>2, <2>3 DEF Queues
  <2>5. /\ outpipe["session"] = <<"socket", 0>>
        /\ inpipe["socket"] # None => inpipe["socket"] = <<"socket", 0>>
    BY <2>1 DEF PipeInv, Announced
  <2>6. <<"socket", 0>> # new
    OBVIOUS
  <2> QED BY <2>1, <2>2, <2>4, <2>5, <2>6
<1>4. ypipe'[new] = NewQueue /\ \A q \in Queues : q # new => ypipe'[q] = ypipe[q]
  BY <1>1, <1>2 DEF PipeInv, Typed
<1>5. inpipe'["session"] = new /\ inpipe'["socket"] = inpipe["socket"]
  BY <1>0, <1>1 DEF PipeInv, Typed
<1>6. Content(NewQueue) = <<>> /\ NewQueue.partial = <<>>
  BY ConcatEmptySeq DEF NewQueue, Content
<1> HIDE DEF new
<1>7. Unplugged' /\ \A d \in Ends : UnfinishedAt(d)' /\ (Torn(d)' <=> Torn(d))
  <2>1. ASSUME NEW n \in 0 .. MaxHiccups, Blank(ypipe[<<"session", n>>])
        PROVE  Blank(ypipe'[<<"session", n>>])
    <3>1. <<"session", n>> \in Queues
      BY DEF Queues
    <3>2. CASE <<"session", n>> = new
      BY <1>4, <1>6, <3>2 DEF Blank
    <3>3. CASE <<"session", n>> # new
      BY <1>4, <2>1, <3>1, <3>3
    <3> QED BY <3>2, <3>3
  <2>2. \A d \in Ends : ypipe'[outpipe[d]].partial = ypipe[outpipe[d]].partial
    BY <1>0, <1>3, <1>4
  <2>3. \A d \in Ends : Same(d)
    BY <1>1, <2>2 DEF Same
  <2>4. \A d \in Ends : Torn(d)' <=> Torn(d)
    BY <2>3, NotTorn
  <2> QED BY <1>1, <1>3, <2>1, <2>3, <2>4, KeptQueues
<1>8. \A d \in Ends : WillingAt(d)'
  BY <1>1 DEF Flow, WillingAt
<1>9. DelimitedAt("socket")' /\ StepOf("socket")
  <2>1. Reading("socket") => inpipe["socket"] \in Queues /\ inpipe["socket"] # new
    BY <1>0, <1>3, Apart DEF Reading
  <2>2. Reading("socket") => Mine("socket")' = Mine("socket")
    BY <1>4, <1>5, <2>1 DEF Mine
  <2>3. Undisturbed("socket")
    BY <1>0, <1>1, <1>5, <2>2 DEF Undisturbed, Reading
  <2> QED BY <1>0, <1>1, <1>7, <2>3, Calm DEF Flow
<1>10. Reading("session") /\ Reading("session")' /\ "session" \notin drained
  BY <1>0, <1>1 DEF Reading, Flow, DelimitedAt
<1>11. Content(Mine("session")') = <<>>
  BY <1>4, <1>5, <1>6 DEF Mine
<1>12. DelimitedAt("session")'
  <2>1. Pure(<<>>) /\ LastOnly(<<>>)
    BY DEF Pure, LastOnly
  <2> QED BY <1>1, <1>10, <1>11, <2>1 DEF DelimitedAt
<1>13. UnderWay("session")' = <<>>
  <2>1. UnderWay("session")' = Undelimited(Content(Mine("session")'))
    BY <1>10 DEF UnderWay, Content
  <2>2. Undelimited(<<>>) = <<>>
    BY DEF Undelimited
  <2> QED BY <1>11, <2>1, <2>2
<1>14. Direction("session")!Cut
  BY <1>0, <1>1, <1>3, <1>5, <1>7, <1>10, <1>13 DEF Direction!Cut
<1>15. \A d \in Ends : DelimitedAt(d)' /\ StepOf(d)
  BY <1>0, <1>9, <1>12, <1>14 DEF StepOf, Direction!Next
<1> QED BY <1>7, <1>8, <1>15 DEF Flow

(* process_hiccup(): the socket writes the next queue of the session.      *)
LEMMA ReplaceFlow ==
  ASSUME PipeInv, Flow, NEW e \in Ends, ProcessHiccup(e)
  PROVE  Flow' /\ \A r \in Ends : StepOf(r)
<1> USE PipeAssumption
<1> DEFINE was == <<"session", Oldest>>
<1>0. /\ e = "socket" /\ Peer("session") = "socket" /\ Peer("socket") = "session"
      /\ "socket" \in Ends /\ "session" \in Ends
      /\ \A d \in Ends : d = "socket" \/ d = "session"
      /\ state["session"] # "freed" /\ state["socket"] \notin Gone
      /\ outpipe["socket"] = was /\ inpipe["session"] = <<"session", Newest>>
      /\ Newest \in 0 .. MaxHiccups /\ Oldest \in 0 .. MaxHiccups
  BY Replaces DEF Ends
<1>1. PICK n \in 0 .. MaxHiccups :
        /\ n = Oldest + 1 /\ n <= Newest
        /\ Newest' = Newest /\ Oldest' = n /\ outpipe'["socket"] = <<"session", n>>
  BY Replaces
<1>2. /\ ypipe' = [ypipe EXCEPT ![was] = YFree(ypipe[was])]
      /\ outpipe' = [outpipe EXCEPT !["socket"] = Arg("socket")]
      /\ UNCHANGED <<state, delay, inpipe, sent, begun, got, asked, drained>>
  BY <1>0 DEF ProcessHiccup, hist
<1>3. /\ \A q \in Queues : q # was => ypipe'[q] = ypipe[q]
      /\ outpipe'["session"] = outpipe["session"]
      /\ \A m \in 0 .. MaxHiccups : <<"session", m>> \in Queues
      /\ \A m \in 0 .. MaxHiccups : m > Oldest => <<"session", m>> # was
  <2>1. outpipe'["session"] = outpipe["session"]
    <3>1. outpipe \in [Ends -> Queues \cup {None}]
      BY DEF PipeInv, Typed
    <3> QED BY <1>0, <1>2, <3>1
  <2>2. ASSUME NEW q \in Queues, q # was PROVE ypipe'[q] = ypipe[q]
    <3>1. ypipe \in [Queues -> Queue]
      BY DEF PipeInv, Typed
    <3> HIDE DEF was
    <3> QED BY <1>2, <2>2, <3>1
  <2>3. ASSUME NEW m \in 0 .. MaxHiccups PROVE <<"session", m>> \in Queues
    BY <1>0 DEF Queues, Ends
  <2>4. ASSUME NEW m \in 0 .. MaxHiccups, m > Oldest PROVE <<"session", m>> # was
    BY <1>0, <2>4
  <2> QED BY <2>1, <2>2, <2>3, <2>4
<1>4. ypipe'[<<"session", n>>] = ypipe[<<"session", n>>] /\ Blank(ypipe[<<"session", n>>])
  <2>1. n > Oldest
    BY <1>0, <1>1
  <2> QED BY <1>0, <1>3, <2>1 DEF Flow, Unplugged
<1>5. Unplugged'
  <2> SUFFICES ASSUME NEW m \in 0 .. MaxHiccups, m > n PROVE Blank(ypipe'[<<"session", m>>])
    BY <1>1 DEF Unplugged
  <2>1. m > Oldest
    BY <1>0, <1>1
  <2> QED BY <1>0, <1>3, <2>1 DEF Flow, Unplugged
<1> HIDE DEF was
<1>6. (* The queue the session writes is another one. *)
      /\ outpipe["session"] # None => outpipe["session"] \in Queues /\ outpipe["session"] # was
      /\ inpipe["socket"] # None => inpipe["socket"] \in Queues /\ inpipe["socket"] # was
  <2>1. /\ outpipe["session"] # None => outpipe["session"] = <<"socket", 0>>
        /\ inpipe["socket"] # None => inpipe["socket"] = <<"socket", 0>>
    BY DEF PipeInv, Announced
  <2>2. <<"socket", 0>> # was
    BY DEF was
  <2> QED BY <1>0, <2>1, <2>2, Apart
<1>7. UnfinishedAt("session")' /\ (Torn("session")' <=> Torn("session"))
  <2>1. state["session"] = "active" => Out("session")' = Out("session")
    <3>1. state["session"] = "active" => outpipe["session"] # None
      BY <1>0, Apart DEF Gone
    <3> QED BY <1>3, <1>6, <3>1 DEF Out
  <2>2. UnfinishedAt("session")'
    BY <1>0, <1>2, <2>1 DEF Flow, UnfinishedAt
  <2>3. Torn("session")' <=> Torn("session")
    BY <1>2, <2>1 DEF Torn
  <2> QED BY <2>2, <2>3
<1>8. UnfinishedAt("socket")' /\ (Torn("socket") => Torn("socket")')
  <2>1. Out("socket")'.partial = <<>>
    BY <1>1, <1>4 DEF Out, Blank
  <2>2. begun["socket"] \in Nat
    BY <1>0 DEF PipeInv, Typed
  <2>3. Begun(<<>>, sent'["socket"] + 1, begun["socket"])
    BY <2>2 DEF Begun
  <2>4. state["socket"] = "active" => begun["socket"] < MaxFrames["socket"]
    BY <1>0 DEF Flow, UnfinishedAt
  <2>5. UnfinishedAt("socket")'
    BY <1>2, <2>1, <2>3, <2>4 DEF UnfinishedAt
  <2>6. ASSUME Torn("socket") PROVE Torn("socket")'
    <3>1. /\ Len(Out("socket").partial) <= begun["socket"]
          /\ state["socket"] = "active" /\ begun["socket"] > Len(Out("socket").partial)
      BY <1>0, <2>6 DEF Flow, UnfinishedAt, Torn, Begun
    <3>2. Len(Out("socket").partial) \in Nat
      <4>1. Out("socket") \in Queue
        BY <1>0, Apart DEF Gone
      <4>2. Out("socket").partial \in Seq(Frame)
        BY <4>1, QueueFields
      <4> QED BY <4>2, LenProperties
    <3>3. begun["socket"] > 0
      BY <2>2, <3>1, <3>2
    <3> QED BY <1>2, <2>1, <3>1, <3>3 DEF Torn
  <2> QED BY <2>5, <2>6
<1>9. \A d \in Ends : WillingAt(d)'
  BY <1>2 DEF Flow, WillingAt
<1>10. DelimitedAt("socket")' /\ StepOf("socket")
  <2>1. Reading("socket") => inpipe["socket"] # None
    BY <1>0, Apart DEF Reading
  <2>2. Reading("socket") => Mine("socket")' = Mine("socket")
    BY <1>2, <1>3, <1>6, <2>1 DEF Mine
  <2>3. Undisturbed("socket")
    BY <1>0, <1>2, <1>3, <2>2 DEF Undisturbed, Reading
  <2> QED BY <1>0, <1>2, <1>7, <2>3, Calm DEF Flow
<1>11. Mine("session")' = Mine("session")
  <2>1. Newest > Oldest
    BY <1>0, <1>1
  <2> QED BY <1>0, <1>2, <1>3, <2>1 DEF Mine
<1>12. DelimitedAt("session")'
  BY <1>0, <1>2, <1>11 DEF Flow, DelimitedAt, Reading
<1>13. UnderWay("session")' = UnderWay("session")
  BY <1>2, <1>11 DEF UnderWay, Reading
<1>14. StepOf("session")
  <2>1. outpipe["socket"] # inpipe["session"]
    <3>1. Newest > Oldest
      BY <1>0, <1>1
    <3> QED BY <1>0, <1>3, <3>1
  <2>2. Torn("socket")' => state["socket"] = "active"
    BY <1>2 DEF Torn
  <2>3. Direction("session")!Resume
    BY <1>0, <1>2, <1>8, <1>13, <2>1, <2>2 DEF Direction!Resume, Reading
  <2> QED BY <2>3 DEF StepOf, Direction!Next
<1>15. \A d \in Ends : DelimitedAt(d)' /\ UnfinishedAt(d)' /\ StepOf(d)
  BY <1>0, <1>7, <1>8, <1>10, <1>12, <1>14
<1> QED BY <1>5, <1>9, <1>15 DEF Flow

(* process_pipe_term(): an end that does not wait gives up what is left.   *)
LEMMA RequestFlow ==
  ASSUME PipeInv, Flow, NEW e \in Ends, ProcessPipeTerm(e)
  PROVE  Flow' /\ \A r \in Ends : StepOf(r)
<1> DEFINE p == Peer(e)
<1>0. /\ p \in Ends /\ p # e /\ Peer(p) = e /\ \A d \in Ends : d = e \/ d = p
      /\ state \in [Ends -> States] /\ outpipe \in [Ends -> Queues \cup {None}]
  BY TwoEnds DEF PipeInv, Typed
<1>1. /\ mbox[e] # <<>> /\ Head(mbox[e]).cmd = "pipe_term"
      /\ UNCHANGED <<delay, inpipe, ypipe, sent, got, asked, drained>>
  BY DEF ProcessPipeTerm, Arrives, hist
<1>2. Holds(mbox[e], "pipe_term") /\ ~Holds(mbox[e], "hiccup")
  <2> DEFINE box == mbox[e]
  <2>0. box \in Seq(Command) /\ Ordered(box) /\ box # <<>> /\ Head(box).cmd = "pipe_term"
    BY <1>1 DEF PipeInv, Typed, Handshake
  <2> HIDE DEF box
  <2>1. /\ Holds(box, Head(box).cmd)
        /\ \A x : Holds(box, x) <=> Holds(Tail(box), x) \/ Head(box).cmd = x
        /\ Head(box).cmd = "pipe_term" =>
              ~Holds(Tail(box), "pipe_term") /\ ~Holds(Tail(box), "hiccup")
    BY <2>0, TailBox
  <2>2. Holds(box, "hiccup") <=> Holds(Tail(box), "hiccup") \/ Head(box).cmd = "hiccup"
    BY <2>1
  <2>3. Holds(box, "pipe_term") /\ ~Holds(box, "hiccup")
    BY <2>0, <2>1, <2>2
  <2> QED BY <2>3 DEF box
<1>3. state[p] \in Requesting /\ state[e] \in Unaware
  BY <1>2 DEF PipeInv, Handshake
<1>4. /\ state'[p] = state[p]
      /\ state[e] = "active" /\ e \in delay =>
           state'[e] = "waiting_for_delimiter" /\ outpipe' = outpipe
      /\ ~(state[e] = "active" /\ e \in delay) =>
           /\ state'[e] \in {"term_req_sent2", "term_ack_sent"}
           /\ outpipe' = [outpipe EXCEPT ![e] = None]
  <2>1. CASE state[e] = "active" /\ e \in delay
    BY <1>0, <2>1 DEF ProcessPipeTerm, SetState
  <2>2. CASE ~(state[e] = "active" /\ e \in delay)
    BY <1>0, <2>2 DEF ProcessPipeTerm, SetState
  <2> QED BY <2>1, <2>2
<1>5. /\ \A d \in Ends : state'[d] \notin {"active", "delimiter_received", "freed"}
      /\ ~Reading(p) /\ ~Reading(p)' /\ state[e] # "freed" /\ state[p] # "active"
      /\ \A d \in Ends : state[d] # "freed"
  BY <1>0, <1>3, <1>4 DEF Requesting, Reading, Unaware
<1>6. Unplugged' /\ \A d \in Ends : UnfinishedAt(d)' /\ (Torn(d)' => Torn(d))
  <2>1. Oldest' = Oldest
    <3>1. CASE outpipe' = outpipe
      BY <1>1, <3>1 DEF Newest, Oldest
    <3>2. CASE outpipe' = [outpipe EXCEPT ![e] = None]
      <4>1. e = "socket" => ~Holds(mbox["socket"], "hiccup")
        BY <1>2
      <4>2. state["session"] # "freed"
        BY <1>5 DEF Ends
      <4> QED BY <1>1, <3>2, <4>1, <4>2, GivesUp DEF PipeInv
    <3> QED BY <1>4, <3>1, <3>2
  <2>2. state["session"] # "freed"
    BY <1>5 DEF Ends
  <2> QED BY <1>1, <1>5, <2>1, <2>2, KeptQueues
<1>7. \A d \in Ends : WillingAt(d)'
  BY <1>1, <1>5 DEF Flow, WillingAt
<1>11. ~Torn(p) /\ ~Torn(p)'
  BY <1>4, <1>5 DEF Torn
<1>8. DelimitedAt(p)' /\ StepOf(p)
  <2>1. Undisturbed(p) /\ DelimitedAt(p)
    BY <1>0, <1>1, <1>5, NotReading DEF Flow
  <2> QED BY <1>0, <1>1, <1>5, <1>6, <2>1, Calm
<1>9. DelimitedAt(e)' /\ StepOf(e)
  <2>1. CASE state[e] = "active" /\ e \in delay
    <3>1. Undisturbed(e) /\ DelimitedAt(e)
      BY <1>1, <1>4, <2>1 DEF Undisturbed, Reading, Mine, Flow
    <3> QED BY <1>0, <1>1, <1>4, <1>6, <3>1, Calm
  <2>2. CASE ~(state[e] = "active" /\ e \in delay)
    <3>1. ~Reading(e)'
      BY <1>4, <2>2 DEF Reading
    <3>2. DelimitedAt(e)'
      BY <3>1 DEF DelimitedAt
    <3>3. CASE state[e] = "active"
      <4>1. Reading(e) /\ e \notin drained' /\ e \in asked'
        BY <1>1, <2>2, <3>3 DEF Reading, Flow, DelimitedAt, WillingAt
      <4>2. StepOf(e)
        BY <1>0, <1>1, <1>4, <1>11, <3>1, <4>1, Leaves
      <4> QED BY <3>2, <4>2
    <3>4. CASE state[e] # "active"
      <4>1. ~Reading(e)
        BY <1>3, <3>4 DEF Unaware, Reading
      <4>2. Undisturbed(e) /\ DelimitedAt(e)
        BY <1>1, <3>1, <4>1, NotReading DEF Flow
      <4> QED BY <1>0, <1>1, <1>4, <1>6, <4>2, Calm
    <3> QED BY <3>3, <3>4
  <2> QED BY <2>1, <2>2
<1>10. \A d \in Ends : DelimitedAt(d)' /\ StepOf(d)
  BY <1>0, <1>8, <1>9
<1> QED BY <1>6, <1>7, <1>10 DEF Flow

(* process_pipe_term_ack(): both ends have finished reading.               *)
LEMMA FreeFlow ==
  ASSUME PipeInv, Flow, NEW e \in Ends, ProcessPipeTermAck(e)
  PROVE  Flow' /\ \A r \in Ends : StepOf(r)
<1> DEFINE p == Peer(e)
<1>0. /\ p \in Ends /\ p # e /\ Peer(p) = e /\ \A d \in Ends : d = e \/ d = p
      /\ state \in [Ends -> States]
  BY TwoEnds DEF PipeInv, Typed
<1>1. /\ mbox[e] # <<>> /\ Head(mbox[e]).cmd = "pipe_term_ack"
      /\ SetState(e, "freed") /\ outpipe' = [outpipe EXCEPT ![e] = None]
      /\ inpipe' = [inpipe EXCEPT ![e] = None]
      /\ ypipe' = [ypipe EXCEPT ![inpipe[e]] = YFree(@)]
      /\ UNCHANGED <<delay, sent, got, asked, drained>>
  BY DEF ProcessPipeTermAck, Arrives, hist
<1>2. Holds(mbox[e], "pipe_term_ack") /\ ~Holds(mbox[e], "hiccup")
  <2> DEFINE box == mbox[e]
  <2>0. box \in Seq(Command) /\ Ordered(box) /\ box # <<>> /\ Head(box).cmd = "pipe_term_ack"
    BY <1>1 DEF PipeInv, Typed, Handshake
  <2> HIDE DEF box
  <2>1. /\ Tail(box) = <<>> /\ Holds(box, Head(box).cmd)
        /\ \A x : Holds(box, x) <=> Holds(Tail(box), x) \/ Head(box).cmd = x
    BY <2>0, TailBox
  <2>2. Holds(box, "hiccup") <=> Holds(Tail(box), "hiccup") \/ Head(box).cmd = "hiccup"
    BY <2>1
  <2>3. ~Holds(Tail(box), "hiccup")
    BY <2>1, EmptyBox
  <2>4. Holds(box, "pipe_term_ack") /\ ~Holds(box, "hiccup")
    BY <2>0, <2>1, <2>2, <2>3
  <2> QED BY <2>4 DEF box
<1>3. state[p] \in Gone /\ state[e] \in {"term_req_sent1", "term_req_sent2", "term_ack_sent"}
  BY <1>2 DEF PipeInv, Handshake
<1>4. state'[e] = "freed" /\ state'[p] = state[p]
  BY <1>0, <1>1 DEF SetState
<1>5. \A d \in Ends : /\ ~Reading(d) /\ ~Reading(d)'
                      /\ state[d] # "active"
                      /\ state'[d] \notin {"active", "delimiter_received"}
  BY <1>0, <1>3, <1>4 DEF Gone, Reading
<1>6. Unplugged' /\ \A d \in Ends : UnfinishedAt(d)'
  <2>1. ASSUME state'["session"] # "freed"
        PROVE  state["session"] # "freed" /\ Oldest' = Oldest /\ e = "socket"
    <3>1. e = "socket" /\ state["session"] # "freed" /\ p = "session"
      BY <1>0, <1>4, <2>1 DEF Ends
    <3>2. Oldest = Newest
      BY <1>2, <3>1, NoHiccups DEF PipeInv
    <3>3. Newest' = Newest /\ outpipe'["socket"] = None
      BY <1>0, <1>1, <3>1 DEF Newest, PipeInv, Typed
    <3>4. Oldest' = Oldest
      BY <3>2, <3>3 DEF Oldest
    <3> QED BY <3>1, <3>4
  <2>2. ASSUME state'["session"] # "freed", NEW n \in 0 .. MaxHiccups
        PROVE  ypipe'[<<"session", n>>] = ypipe[<<"session", n>>]
    <3>1. inpipe["socket"] # None => inpipe["socket"] # <<"session", n>>
      BY DEF PipeInv, Announced
    <3>2. inpipe["socket"] # None
      BY <1>3, <2>1, <2>2, Apart
    <3>3. <<"session", n>> \in Queues
      BY DEF Queues
    <3> QED BY <1>1, <2>1, <2>2, <3>1, <3>2, <3>3 DEF PipeInv, Typed
  <2>3. Unplugged'
    BY <2>1, <2>2 DEF Flow, Unplugged
  <2> QED BY <1>5, <2>3 DEF UnfinishedAt
<1>7. \A d \in Ends : WillingAt(d)'
  BY <1>1, <1>5 DEF Flow, WillingAt
<1>8. \A d \in Ends : DelimitedAt(d)' /\ StepOf(d)
  <2> TAKE d \in Ends
  <2>1. Peer(d) \in Ends
    BY TwoEnds
  <2>2. Undisturbed(d) /\ DelimitedAt(d)
    BY <1>1, <1>5, NotReading DEF Flow
  <2>3. ~Torn(Peer(d))'
    BY <1>5, <2>1 DEF Torn
  <2> QED BY <1>1, <1>5, <2>1, <2>2, <2>3, Calm
<1> QED BY <1>6, <1>7, <1>8 DEF Flow

(* The invariant and the refinement together.                              *)
LEMMA FlowInit == PipeInit => Flow /\ \A r \in Ends : Direction(r)!Init
<1> SUFFICES ASSUME PipeInit PROVE Flow /\ \A r \in Ends : Direction(r)!Init
  OBVIOUS
<1> USE PipeAssumption
<1>0. /\ "socket" \in Ends /\ "session" \in Ends
      /\ \A d \in Ends : Peer(d) \in Ends /\ Peer(Peer(d)) = d
  BY TwoEnds DEF Ends
<1>1. Content(NewQueue) = <<>> /\ Content(NoQueue) = <<>>
      /\ NewQueue.partial = <<>> /\ NoQueue.partial = <<>>
  BY ConcatEmptySeq DEF NewQueue, NoQueue, Content
<1>2. \A q \in Queues : Blank(ypipe[q])
  <2>1. \A q \in Queues : ypipe[q] = NewQueue \/ ypipe[q] = NoQueue
    BY DEF PipeInit
  <2> QED BY <1>1, <2>1 DEF Blank
<1>3. \A e \in Ends : inpipe[e] \in Queues /\ outpipe[e] \in Queues /\ outpipe[e] = inpipe[Peer(e)]
  <2>1. <<"socket", 0>> \in Queues /\ <<"session", 0>> \in Queues
    BY DEF Queues
  <2> QED BY <2>1 DEF PipeInit, Ends, Peer
<1>4. \A e \in Ends : /\ state[e] = "active" /\ Reading(e) /\ e \notin drained
                      /\ sent[e] = 0 /\ begun[e] = 0 /\ got[e] = <<>>
                      /\ e \notin delay => e \in asked
  BY DEF PipeInit, Reading
<1>5. \A e \in Ends : Content(Mine(e)) = <<>> /\ Out(e).partial = <<>>
  BY <1>2, <1>3 DEF Blank, Mine, Out
<1>6. Unplugged
  <2>1. \A n \in 0 .. MaxHiccups : <<"session", n>> \in Queues
    BY DEF Queues
  <2> QED BY <1>2, <2>1 DEF Unplugged
<1>7. \A e \in Ends : DelimitedAt(e) /\ UnfinishedAt(e) /\ WillingAt(e)
  <2> TAKE e \in Ends
  <2>1. Pure(<<>>) /\ LastOnly(<<>>) /\ Begun(<<>>, sent[e] + 1, 0) /\ 0 < MaxFrames[e]
    BY DEF Pure, LastOnly, Begun
  <2> QED BY <1>4, <1>5, <2>1 DEF DelimitedAt, UnfinishedAt, WillingAt
<1>8. \A r \in Ends : UnderWay(r) = <<>>
  <2>1. Undelimited(<<>>) = <<>>
    BY DEF Undelimited
  <2> QED BY <1>4, <1>5, <2>1 DEF UnderWay, Content
<1>9. \A r \in Ends : outpipe[Peer(r)] = inpipe[r]
  BY <1>0, <1>3
<1>10. ASSUME NEW r \in Ends PROVE Direction(r)!Init
  BY <1>0, <1>4, <1>5, <1>8, <1>9 DEF Direction!Init, Torn
<1> QED BY <1>6, <1>7, <1>10 DEF Flow

LEMMA FlowStep ==
  ASSUME PipeInv, Flow, [PipeNext]_pvars
  PROVE  Flow' /\ \A r \in Ends : StepOf(r)
<1>1. CASE UNCHANGED pvars
  <2>1. UNCHANGED <<state, delay, inpipe, outpipe, ypipe, sent, begun, got, asked, drained>>
    BY <1>1 DEF pvars, ends, hist
  <2>3. \A d \in Ends : Same(d)
    BY <2>1 DEF Same
  <2>2. \A d \in Ends : d \notin delay => d \in asked
    BY DEF Flow, WillingAt
  <2> QED BY <2>1, <2>2, <2>3, StillFlow
<1>2. ASSUME NEW e \in Ends, Use(e) \/ Read(e) \/ Process(e)
      PROVE  Flow' /\ \A r \in Ends : StepOf(r)
  <2>1. ASSUME NEW more \in BOOLEAN, Write(e, more) PROVE Flow' /\ \A r \in Ends : StepOf(r)
    BY <2>1, WriteFlow
  <2>2. CASE \/ WriteFull(e) \/ Flush(e) \/ Rollback(e) \/ ReadNothing(e)
             \/ ProcessActivateRead(e) \/ ProcessActivateWrite(e)
    BY <2>2, InnerFlow
  <2>3. ASSUME NEW wait \in BOOLEAN, Terminate(e, wait) PROVE Flow' /\ \A r \in Ends : StepOf(r)
    BY <2>3, TerminateFlow
  <2>4. CASE Hiccup(e)
    BY <2>4, HiccupFlow
  <2>5. CASE ReadDelimiter(e)
    BY <2>5, ReadDelimiterFlow
  <2>6. CASE ReadFrame(e)
    BY <2>6, ReadFrameFlow
  <2>7. CASE ProcessHiccup(e)
    BY <2>7, ReplaceFlow
  <2>8. CASE ProcessPipeTerm(e)
    BY <2>8, RequestFlow
  <2>9. CASE ProcessPipeTermAck(e)
    BY <2>9, FreeFlow
  <2> QED BY <1>2, <2>1, <2>2, <2>3, <2>4, <2>5, <2>6, <2>7, <2>8, <2>9 DEF Use, Read, Process
<1> QED BY <1>1, <1>2 DEF PipeNext

(* Each direction of a pipe implements Channel, whatever the two threads   *)
(* do and in whatever order commands are processed: frames arrive in order *)
(* and once, with all the frames of their message, except that a hiccup    *)
(* may cut the message under way at either end; and messages written       *)
(* before terminate() are lost only to a reader that was itself told to    *)
(* terminate.                                                              *)
THEOREM PipeImplementsChannel == PipeSpec => ImplementsChannel
<1>1. PipeInit => PipeInv /\ Flow /\ \A r \in Ends : Direction(r)!Init
  BY PipeInvInit, FlowInit
<1>2. (PipeInv /\ Flow) /\ [PipeNext]_pvars => (PipeInv /\ Flow)'
  BY PipeInvStep, FlowStep
<1>3. (PipeInv /\ Flow) /\ [PipeNext]_pvars =>
        [\A r \in Ends : [Direction(r)!Next]_(Direction(r)!vars)]_pvars
  BY FlowStep DEF StepOf
<1> QED BY <1>1, <1>2, <1>3, PTL DEF PipeSpec, ImplementsChannel

-----------------------------------------------------------------------------
(* A stopped writer goes on.                                               *)

(* The last command of a mailbox that tells how much was read, if it is    *)
(* command k.                                                              *)
Tells(box, k)   == k \in 1 .. Len(box) /\ box[k].cmd = "activate_write"
Latest(box, k)  == Tells(box, k) /\ \A j \in 1 .. Len(box) : k < j => ~Tells(box, j)

(* A writer that knows of p messages, or will when it has processed its    *)
(* commands, is less than l messages behind a reader that has read r: it   *)
(* has been told at each multiple of l.                                    *)
Told(box, p, r, l) ==
  /\ p % l = 0 /\ \A k \in 1 .. Len(box) : Tells(box, k) => box[k].arg % l = 0
  /\ (\A k \in 1 .. Len(box) : ~Tells(box, k)) => r < p + l
  /\ \A k \in 1 .. Len(box) : Latest(box, k) => r < box[k].arg + l

CreditAt(e) == Lwm(Peer(e)) > 0 => Told(mbox[e], counts[e].peersRead,
                                        counts[Peer(e)].read, Lwm(Peer(e)))
FullAt(e)   == e \in stopped /\ state[e] = "active" => Full(e)
Credit      == \A e \in Ends : CreditAt(e) /\ FullAt(e)

(* The next multiple.                                                      *)
LEMMA NextMultiple ==
  ASSUME NEW p \in Nat, NEW l \in Nat \ {0}, p % l = 0
  PROVE  (p + l) % l = 0
<1>1. PICK q \in Nat : p = l * q
  <2> WITNESS p \div l \in Nat
  <2> QED OBVIOUS
<1>2. p + l = l * (q + 1) /\ q + 1 \in Nat
  BY <1>1
<1>3. \A m \in Nat : (l * m) % l = 0
  OBVIOUS
<1> QED BY <1>2, <1>3

(* The low-water mark is at most the high-water mark.                      *)
LEMMA WaterMarks ==
  \A e \in Ends : /\ OutHwm[e] \in Nat /\ Lwm(Peer(e)) \in Nat
                  /\ OutHwm[e] > 0 => Lwm(Peer(e)) > 0 /\ Lwm(Peer(e)) <= OutHwm[e]
<1> TAKE e \in Ends
<1>1. OutHwm[e] \in Nat /\ Peer(Peer(e)) = e
  BY PipeAssumption, TwoEnds
<1> QED BY <1>1 DEF Lwm

(* Commands that tell nothing of it come and go.                           *)
Keeps(old, new) == \A p, r, l \in Nat : Told(old, p, r, l) => Told(new, p, r, l)

LEMMA ToldAppend ==
  ASSUME NEW box \in Seq(Command), NEW c \in Command, c.cmd # "activate_write"
  PROVE  Keeps(box, Append(box, c))
<1> DEFINE new == Append(box, c)
<1>1. /\ Len(new) = Len(box) + 1 /\ Len(box) \in Nat /\ new[Len(box) + 1] = c
      /\ \A k \in 1 .. Len(box) : new[k] = box[k] /\ k \in 1 .. Len(new)
  OBVIOUS
<1>2. \A k \in 1 .. Len(new) : k \in 1 .. Len(box) \/ k = Len(box) + 1
  BY <1>1
<1> HIDE DEF new
<1>3. \A k \in 1 .. Len(new) : Tells(new, k) <=> Tells(box, k)
  BY <1>1, <1>2 DEF Tells
<1>4. \A k \in 1 .. Len(new) : Tells(new, k) => k \in 1 .. Len(box) /\ new[k] = box[k]
  BY <1>1, <1>3 DEF Tells
<1>5. \A k \in 1 .. Len(new) : Latest(new, k) => Latest(box, k)
  BY <1>1, <1>3 DEF Latest
<1>6. ASSUME NEW p \in Nat, NEW r \in Nat, NEW l \in Nat, Told(box, p, r, l)
      PROVE  Told(new, p, r, l)
  <2>1. \A k \in 1 .. Len(new) : Tells(new, k) => new[k].arg % l = 0
    BY <1>4, <1>3, <1>6 DEF Told
  <2>2. (\A k \in 1 .. Len(new) : ~Tells(new, k)) => r < p + l
    BY <1>1, <1>3, <1>6 DEF Told
  <2>3. \A k \in 1 .. Len(new) : Latest(new, k) => r < new[k].arg + l
    BY <1>4, <1>5, <1>6 DEF Told, Latest
  <2> QED BY <1>6, <2>1, <2>2, <2>3 DEF Told
<1> QED BY <1>6 DEF Keeps, new

LEMMA ToldTail ==
  ASSUME NEW box \in Seq(Command), box # <<>>, NEW p \in Nat, NEW r \in Nat, NEW l \in Nat,
         Told(box, p, r, l)
  PROVE  /\ Head(box).cmd # "activate_write" => Told(Tail(box), p, r, l)
         /\ Head(box).cmd = "activate_write" => Told(Tail(box), Head(box).arg, r, l)
<1> DEFINE new == Tail(box)
           h == Head(box)
<1>1. /\ h = box[1] /\ Len(box) = Len(new) + 1 /\ Len(new) \in Nat
      /\ \A k \in 1 .. Len(new) : new[k] = box[k + 1]
  OBVIOUS
<1> HIDE DEF new, h
<1>2. /\ \A k \in 1 .. Len(new) : k + 1 \in 1 .. Len(box)
      /\ \A k \in 1 .. Len(box) : k = 1 \/ k - 1 \in 1 .. Len(new)
      /\ 1 \in 1 .. Len(box)
  BY <1>1
<1>3. \A k \in 1 .. Len(new) : Tells(new, k) <=> Tells(box, k + 1)
  BY <1>1, <1>2 DEF Tells
<1>4. \A k \in 1 .. Len(box) : k # 1 => (Tells(box, k) <=> Tells(new, k - 1))
  <2> TAKE k \in 1 .. Len(box)
  <2>1. k # 1 => k - 1 \in 1 .. Len(new) /\ (k - 1) + 1 = k
    BY <1>2
  <2> QED BY <1>3, <2>1
<1>5. Tells(box, 1) <=> h.cmd = "activate_write"
  BY <1>1, <1>2 DEF Tells
<1>6. \A k \in 1 .. Len(new) : Latest(new, k) => Latest(box, k + 1)
  <2> SUFFICES ASSUME NEW k \in 1 .. Len(new), Latest(new, k) PROVE Latest(box, k + 1)
    OBVIOUS
  <2>1. Tells(box, k + 1)
    BY <1>3 DEF Latest
  <2>2. ASSUME NEW j \in 1 .. Len(box), k + 1 < j PROVE ~Tells(box, j)
    <3>1. j - 1 \in 1 .. Len(new) /\ k < j - 1 /\ j # 1
      BY <1>2, <2>2
    <3> QED BY <1>4, <3>1 DEF Latest
  <2> QED BY <2>1, <2>2 DEF Latest
<1>7. \A k \in 1 .. Len(new) : Tells(new, k) => new[k].arg % l = 0
  BY <1>1, <1>2, <1>3 DEF Told
<1>8. \A k \in 1 .. Len(new) : Latest(new, k) => r < new[k].arg + l
  BY <1>1, <1>2, <1>6 DEF Told
<1>9. CASE h.cmd # "activate_write"
  <2>1. (\A k \in 1 .. Len(new) : ~Tells(new, k)) => \A k \in 1 .. Len(box) : ~Tells(box, k)
    BY <1>2, <1>4, <1>5, <1>9
  <2> QED BY <1>7, <1>8, <1>9, <2>1 DEF Told, new, h
<1>10. CASE h.cmd = "activate_write"
  <2>1. h.arg % l = 0
    BY <1>1, <1>2, <1>5, <1>10 DEF Told
  <2>2. ASSUME \A k \in 1 .. Len(new) : ~Tells(new, k) PROVE r < h.arg + l
    <3>1. Latest(box, 1)
      BY <1>2, <1>4, <1>5, <1>10, <2>2 DEF Latest
    <3> QED BY <1>1, <1>2, <3>1 DEF Told
  <2> QED BY <1>7, <1>8, <1>10, <2>1, <2>2 DEF Told, new, h
<1> QED BY <1>9, <1>10 DEF h

(* The reader reads on: it tells the writer, or has not come to a multiple *)
(* of l yet.                                                               *)
LEMMA ToldMore ==
  ASSUME NEW box \in Seq(Command), NEW p \in Nat, NEW r \in Nat, NEW l \in Nat \ {0},
         NEW n \in {r, r + 1}, Told(box, p, r, l)
  PROVE  /\ n % l = 0 => Told(Append(box, Cmd("activate_write", n)), p, n, l)
         /\ n % l # 0 => Told(box, p, n, l)
<1>1. CASE n % l = 0
  <2> DEFINE c == Cmd("activate_write", n)
             new == Append(box, c)
  <2>1. /\ Len(new) = Len(box) + 1 /\ Len(box) \in Nat /\ new[Len(box) + 1] = c
        /\ \A k \in 1 .. Len(box) : new[k] = box[k] /\ k \in 1 .. Len(new)
        /\ c.cmd = "activate_write" /\ c.arg = n
    BY DEF Cmd
  <2>2. \A k \in 1 .. Len(new) : k \in 1 .. Len(box) \/ k = Len(box) + 1
    BY <2>1
  <2> HIDE DEF new, c
  <2>3. Tells(new, Len(box) + 1) /\ Len(box) + 1 \in 1 .. Len(new)
    BY <2>1 DEF Tells
  <2>4. \A k \in 1 .. Len(new) : Latest(new, k) => k = Len(box) + 1
    <3> SUFFICES ASSUME NEW k \in 1 .. Len(box) PROVE ~Latest(new, k)
      BY <2>2
    <3>1. k < Len(box) + 1
      BY <2>1
    <3> QED BY <2>3, <3>1 DEF Latest
  <2>5. \A k \in 1 .. Len(new) : Tells(new, k) => new[k].arg % l = 0
    BY <1>1, <2>1, <2>2 DEF Told, Tells
  <2>6. \A k \in 1 .. Len(new) : Latest(new, k) => n < new[k].arg + l
    BY <2>1, <2>4
  <2> QED BY <1>1, <2>3, <2>5, <2>6 DEF Told, new, c
<1>2. CASE n % l # 0
  <2>1. \A m \in Nat : m % l = 0 /\ r < m + l => n < m + l
    <3> SUFFICES ASSUME NEW m \in Nat, m % l = 0, r < m + l PROVE n < m + l
      OBVIOUS
    <3>1. n # m + l
      BY <1>2, NextMultiple
    <3> QED BY <3>1
  <2>2. \A k \in 1 .. Len(box) : Tells(box, k) => box[k].arg \in Nat
    BY CommandType DEF Tells
  <2> QED BY <1>2, <2>1, <2>2 DEF Told, Latest
<1> QED BY <1>1, <1>2

(* Steps that tell nothing of it, and read no frame.                       *)
LEMMA CreditKept ==
  ASSUME Typed, Credit, Typed', \A e \in Ends : Keeps(mbox[e], mbox'[e]),
         \A e \in Ends : /\ counts'[e].peersRead = counts[e].peersRead
                         /\ counts'[e].read = counts[e].read,
         \A e \in Ends : FullAt(e)'
  PROVE  Credit'
<1> SUFFICES ASSUME NEW e \in Ends PROVE CreditAt(e)'
  BY DEF Credit
<1>1. /\ Peer(e) \in Ends /\ counts[e].peersRead \in Nat /\ counts[Peer(e)].read \in Nat
      /\ Lwm(Peer(e)) \in Nat
  BY TwoEnds, WaterMarks DEF Typed, Counts
<1>2. CreditAt(e)
  BY DEF Credit
<1> QED BY <1>1, <1>2 DEF CreditAt, Keeps, Lwm

(* A writer stays as full as it was.                                       *)
LEMMA FullKept ==
  ASSUME Credit, NEW e \in Ends, counts'[e] = counts[e],
         e \in stopped' /\ state'[e] = "active" => e \in stopped /\ state[e] = "active"
  PROVE  FullAt(e)'
BY DEF Credit, FullAt, Full

LEMMA KeepsItself == \A box : Keeps(box, box)
BY DEF Keeps

(* Commands that are sent.                                                 *)
LEMMA SendKeeps ==
  ASSUME Typed, NEW p \in Ends, NEW c \in Command, c.cmd # "activate_write"
  PROVE  /\ Send(p, <<>>) => \A e \in Ends : Keeps(mbox[e], mbox'[e])
         /\ Send(p, <<c>>) => \A e \in Ends : Keeps(mbox[e], mbox'[e])
         /\ \A b \in Command : b.cmd # "activate_write" /\ Send(p, <<b>> \o <<c>>)
              => \A e \in Ends : Keeps(mbox[e], mbox'[e])
<1>1. mbox \in [Ends -> Seq(Command)] /\ mbox[p] \in Seq(Command)
  BY DEF Typed
<1>2. Send(p, <<>>) => \A e \in Ends : Keeps(mbox[e], mbox'[e])
  BY KeepsItself, SendOne
<1>3. Send(p, <<c>>) => \A e \in Ends : Keeps(mbox[e], mbox'[e])
  BY <1>1, KeepsItself, SendOne, ToldAppend
<1>4. ASSUME NEW b \in Command, b.cmd # "activate_write", Send(p, <<b>> \o <<c>>)
      PROVE  \A e \in Ends : Keeps(mbox[e], mbox'[e])
  <2>1. mbox[p] \o (<<b>> \o <<c>>) = Append(Append(mbox[p], b), c)
    BY <1>1
  <2>2. Append(mbox[p], b) \in Seq(Command)
    BY <1>1
  <2>3. Keeps(mbox[p], Append(mbox[p], b)) /\ Keeps(Append(mbox[p], b), Append(Append(mbox[p], b), c))
    BY <1>1, <1>4, <2>2, ToldAppend
  <2>4. Keeps(mbox[p], Append(Append(mbox[p], b), c))
    BY <2>3 DEF Keeps
  <2>5. mbox'[p] = Append(Append(mbox[p], b), c) /\ \A e \in Ends : e # p => mbox'[e] = mbox[e]
    BY <1>1, <1>4, <2>1 DEF Send
  <2> QED BY <2>4, <2>5, KeepsItself
<1> QED BY <1>2, <1>3, <1>4

(* Commands that are taken, and answered.                                  *)
LEMMA TakeKeeps ==
  ASSUME Typed, NEW e \in Ends, mbox[e] # <<>>, Head(mbox[e]).cmd # "activate_write",
         NEW c \in Command, c.cmd # "activate_write", mbox' \in {Rest(e), RestAnd(e, c)}
  PROVE  \A d \in Ends : Keeps(mbox[d], mbox'[d])
<1>1. /\ mbox \in [Ends -> Seq(Command)] /\ mbox[e] \in Seq(Command)
      /\ Peer(e) \in Ends /\ Peer(e) # e /\ mbox[Peer(e)] \in Seq(Command)
      /\ \A d \in Ends : d = e \/ d = Peer(e)
  BY TwoEnds DEF Typed
<1>2. mbox'[e] = Tail(mbox[e])
  BY <1>1 DEF Rest, RestAnd
<1>3. mbox'[Peer(e)] \in {mbox[Peer(e)], Append(mbox[Peer(e)], c)}
  BY <1>1 DEF Rest, RestAnd
<1>4. Keeps(mbox[e], Tail(mbox[e]))
  BY <1>1, ToldTail DEF Keeps
<1>5. Keeps(mbox[Peer(e)], mbox'[Peer(e)])
  BY <1>1, <1>3, KeepsItself, ToldAppend
<1> QED BY <1>1, <1>2, <1>4, <1>5
(* Writing, flushing, going to sleep.                                      *)
LEMMA CreditWrites ==
  ASSUME PipeInv, Credit, Typed', NEW e \in Ends,
         \/ \E more \in BOOLEAN : Write(e, more)
         \/ WriteFull(e) \/ Flush(e) \/ Rollback(e) \/ ReadNothing(e)
  PROVE  Credit'
<1>0. Typed /\ Peer(e) \in Ends /\ counts \in [Ends -> Counts]
  BY TwoEnds DEF PipeInv, Typed
<1>1. ASSUME NEW more \in BOOLEAN, Write(e, more) PROVE Credit'
  <2>1. /\ \A d \in Ends : Keeps(mbox[d], mbox'[d])
        /\ \A d \in Ends : /\ counts'[d].peersRead = counts[d].peersRead
                           /\ counts'[d].read = counts[d].read
    <3>1. mbox' = mbox /\ (counts' = counts \/ counts' = [counts EXCEPT ![e].written = @ + 1])
      BY <1>1 DEF Write
    <3> QED BY <1>0, <3>1, KeepsItself DEF Counts
  <2>2. FullAt(e)' /\ UNCHANGED <<state, stopped>>
    BY <1>1 DEF Write, FullAt
  <2>3. \A d \in Ends : d # e => counts'[d] = counts[d]
    BY <1>0, <1>1 DEF Write
  <2>4. \A d \in Ends : FullAt(d)'
    BY <2>2, <2>3, FullKept
  <2> QED BY <1>0, <2>1, <2>4, CreditKept
<1>2. CASE WriteFull(e)
  <2>1. UNCHANGED <<counts, mbox, state>> /\ stopped' = stopped \cup {e} /\ Full(e)
    BY <1>2 DEF WriteFull
  <2>2. \A d \in Ends : FullAt(d)'
    BY <2>1 DEF FullAt, Full, Credit
  <2> QED BY <1>0, <2>1, <2>2, KeepsItself, CreditKept
<1>3. CASE Flush(e)
  <2>1. UNCHANGED <<counts, state, stopped>>
    BY <1>3 DEF Flush, ends
  <2>2. \A d \in Ends : FullAt(d)'
    BY <2>1, FullKept
  <2>3. \A d \in Ends : Keeps(mbox[d], mbox'[d])
    <3>1. Cmd("activate_read", 0) \in Command /\ Cmd("activate_read", 0).cmd # "activate_write"
      BY CommandType
    <3> QED BY <1>0, <1>3, <3>1, SendKeeps DEF Flush
  <2> QED BY <1>0, <2>1, <2>2, <2>3, CreditKept
<1>4. CASE Rollback(e) \/ ReadNothing(e)
  <2>1. UNCHANGED <<counts, mbox, state, stopped>>
    BY <1>4 DEF Rollback, ReadNothing, ends, hist
  <2>2. \A d \in Ends : FullAt(d)'
    BY <2>1, FullKept
  <2> QED BY <1>0, <2>1, <2>2, KeepsItself, CreditKept
<1> QED BY <1>1, <1>2, <1>3, <1>4

(* Reading a frame: the step that owes the writer a command.               *)
LEMMA CreditReads ==
  ASSUME PipeInv, Credit, Typed', NEW e \in Ends, ReadFrame(e)
  PROVE  Credit'
<1> DEFINE w == Peer(e)
           f == Head(Mine(e).flushed)
           n == counts[e].read + IF f.more THEN 0 ELSE 1
<1>1. /\ Typed /\ w \in Ends /\ w # e /\ Peer(w) = e /\ \A d \in Ends : d = e \/ d = w
      /\ counts \in [Ends -> Counts] /\ mbox \in [Ends -> Seq(Command)]
      /\ mbox[w] \in Seq(Command) /\ counts[w].peersRead \in Nat /\ counts[e].read \in Nat
      /\ Lwm(e) \in Nat
  BY TwoEnds, WaterMarks DEF PipeInv, Typed, Counts
<1>2. n \in {counts[e].read, counts[e].read + 1} /\ n \in Nat
  BY <1>1
<1>3. /\ UNCHANGED <<state, stopped>>
      /\ counts'[e].read = n /\ counts'[e].peersRead = counts[e].peersRead
      /\ counts'[e].written = counts[e].written /\ counts'[w] = counts[w]
  BY <1>1 DEF ReadFrame, Counts
<1>4. Send(w, IF Lwm(e) > 0 /\ n % Lwm(e) = 0 THEN <<Cmd("activate_write", n)>> ELSE <<>>)
  BY DEF ReadFrame
<1> HIDE DEF n, w
<1>5. \A d \in Ends : FullAt(d)'
  BY <1>1, <1>3 DEF Credit, FullAt, Full
<1>6. Cmd("activate_write", n) \in Command
  BY <1>2, CommandType
<1>7. mbox'[e] = mbox[e]
  BY <1>1, <1>4, <1>6, SendOne
<1>8. CreditAt(e)'
  BY <1>1, <1>3, <1>7 DEF Credit, CreditAt, Lwm, w
<1>9. CreditAt(w)'
  <2> SUFFICES ASSUME Lwm(e) > 0
               PROVE  Told(mbox'[w], counts[w].peersRead, n, Lwm(e))
    BY <1>1, <1>3 DEF CreditAt, Lwm
  <2>1. Told(mbox[w], counts[w].peersRead, counts[e].read, Lwm(e))
    BY <1>1 DEF Credit, CreditAt
  <2>2. /\ n % Lwm(e) = 0 => Told(Append(mbox[w], Cmd("activate_write", n)),
                                   counts[w].peersRead, n, Lwm(e))
        /\ n % Lwm(e) # 0 => Told(mbox[w], counts[w].peersRead, n, Lwm(e))
    BY <1>1, <1>2, <2>1, ToldMore
  <2>3. CASE n % Lwm(e) = 0
    BY <1>1, <1>4, <1>6, <2>2, <2>3, SendOne
  <2>4. CASE n % Lwm(e) # 0
    BY <1>1, <1>4, <1>6, <2>2, <2>4, SendOne
  <2> QED BY <2>3, <2>4
<1> QED BY <1>1, <1>5, <1>8, <1>9 DEF Credit

(* The end of a pipe, and the replacement of a queue.                      *)
LEMMA CreditEnds ==
  ASSUME PipeInv, Credit, Typed', NEW e \in Ends,
         \/ \E wait \in BOOLEAN : Terminate(e, wait)
         \/ ReadDelimiter(e) \/ Hiccup(e)
  PROVE  Credit'
<1>0. /\ Typed /\ Peer(e) \in Ends /\ state \in [Ends -> States]
      /\ inpipe["session"] \in Queues \cup {None}
  BY TwoEnds DEF PipeInv, Typed, Ends
<1>1. /\ \A x \in {"activate_read", "pipe_term", "pipe_term_ack"} :
           Cmd(x, 0) \in Command /\ Cmd(x, 0).cmd # "activate_write"
  BY CommandType
<1>2. ASSUME NEW wait \in BOOLEAN, Terminate(e, wait) PROVE Credit'
  <2>1. UNCHANGED counts
    BY <1>2 DEF Terminate
  <2>2. \A d \in Ends : Keeps(mbox[d], mbox'[d])
    <3>1. \/ mbox' = mbox
          \/ Send(Peer(e), <<Cmd("pipe_term", 0)>> \o
                     IF Out(e).asleep THEN <<Cmd("activate_read", 0)>> ELSE <<>>)
          \/ Send(Peer(e), <<Cmd("pipe_term_ack", 0)>>)
          \/ Send(Peer(e), IF Out(e).asleep THEN <<Cmd("activate_read", 0)>> ELSE <<>>)
      BY <1>2 DEF Terminate
    <3>2. <<Cmd("pipe_term", 0)>> \o <<>> = <<Cmd("pipe_term", 0)>>
      OBVIOUS
    <3> QED BY <1>0, <1>1, <3>1, <3>2, KeepsItself, SendKeeps
  <2>3. \A d \in Ends : d \in stopped' /\ state'[d] = "active" => d \in stopped /\ state[d] = "active"
    BY <1>0, <1>2 DEF Terminate, SetState
  <2>4. \A d \in Ends : FullAt(d)'
    BY <2>1, <2>3, FullKept
  <2> QED BY <1>0, <2>1, <2>2, <2>4, CreditKept
<1>3. CASE ReadDelimiter(e)
  <2>1. UNCHANGED <<counts, stopped>>
    BY <1>3 DEF ReadDelimiter, ProcessDelimiter
  <2>2. \A d \in Ends : Keeps(mbox[d], mbox'[d])
    BY <1>0, <1>1, <1>3, KeepsItself, SendKeeps DEF ReadDelimiter, ProcessDelimiter
  <2>3. \A d \in Ends : state'[d] = "active" => state[d] = "active"
    BY <1>0, <1>3 DEF ReadDelimiter, ProcessDelimiter, SetState
  <2>4. \A d \in Ends : FullAt(d)'
    BY <2>1, <2>3, FullKept
  <2> QED BY <1>0, <2>1, <2>2, <2>4, CreditKept
<1>4. CASE Hiccup(e)
  <2>1. UNCHANGED <<counts, stopped, state>>
    BY <1>4 DEF Hiccup
  <2>2. Cmd("hiccup", <<e, inpipe[e][2] + 1>>) \in Command
    <3>1. inpipe["session"] # None
      BY <1>0, <1>4 DEF PipeInv, Handshake, Hiccup, Ends
    <3>2. inpipe["session"][2] + 1 \in 0 .. MaxHiccups /\ e = "session"
      BY <1>0, <1>4, <3>1, PipeAssumption DEF Queues, Hiccup, PipeInv, Announced
    <3> QED BY <3>2, CommandType DEF SessionQueues
  <2>3. \A d \in Ends : Keeps(mbox[d], mbox'[d])
    BY <1>0, <1>4, <2>2, SendKeeps DEF Hiccup, Cmd
  <2>4. \A d \in Ends : FullAt(d)'
    BY <2>1, FullKept
  <2> QED BY <1>0, <2>1, <2>3, <2>4, CreditKept
<1> QED BY <1>2, <1>3, <1>4

(* Commands.                                                               *)
LEMMA CreditProcesses ==
  ASSUME PipeInv, Credit, Typed', NEW e \in Ends, Process(e)
  PROVE  Credit'
<1>0. /\ Typed /\ Peer(e) \in Ends /\ state \in [Ends -> States]
      /\ counts \in [Ends -> Counts] /\ mbox \in [Ends -> Seq(Command)]
      /\ mbox[e] \in Seq(Command)
  BY TwoEnds DEF PipeInv, Typed
<1>1. Cmd("pipe_term_ack", 0) \in Command /\ Cmd("pipe_term_ack", 0).cmd # "activate_write"
  BY CommandType
<1>2. CASE ProcessActivateRead(e)
  <2>1. UNCHANGED <<counts, state, stopped>>
    BY <1>2 DEF ProcessActivateRead
  <2>2. \A d \in Ends : Keeps(mbox[d], mbox'[d])
    BY <1>0, <1>1, <1>2, TakeKeeps DEF ProcessActivateRead, Arrives
  <2>3. \A d \in Ends : FullAt(d)'
    BY <2>1, FullKept
  <2> QED BY <1>0, <2>1, <2>2, <2>3, CreditKept
<1>3. CASE ProcessActivateWrite(e)
  <2>1. /\ mbox[e] # <<>> /\ Head(mbox[e]).cmd = "activate_write"
        /\ mbox'[e] = Tail(mbox[e]) /\ \A d \in Ends : d # e => mbox'[d] = mbox[d]
    BY <1>0, <1>3 DEF ProcessActivateWrite, Arrives, Rest
  <2>2. /\ counts'[e].peersRead = Head(mbox[e]).arg
        /\ \A d \in Ends : /\ counts'[d].read = counts[d].read
                           /\ d # e => counts'[d] = counts[d]
    BY <1>0, <1>3 DEF ProcessActivateWrite, Arg, Counts
  <2>3. \A d \in Ends : FullAt(d)'
    <3>1. state'[e] = "active" => e \notin stopped'
      BY <1>3 DEF ProcessActivateWrite
    <3>2. \A d \in Ends : d # e => (d \in stopped' => d \in stopped) /\ state' = state
      BY <1>3 DEF ProcessActivateWrite
    <3> QED BY <2>2, <3>1, <3>2, FullKept DEF FullAt
  <2>4. \A d \in Ends : CreditAt(d)'
    <3> SUFFICES ASSUME NEW d \in Ends, Lwm(Peer(d)) > 0
                 PROVE  Told(mbox'[d], counts'[d].peersRead, counts'[Peer(d)].read, Lwm(Peer(d)))
      BY DEF CreditAt, Lwm
    <3>1. /\ Told(mbox[d], counts[d].peersRead, counts[Peer(d)].read, Lwm(Peer(d)))
          /\ Peer(d) \in Ends /\ counts[d].peersRead \in Nat /\ counts[Peer(d)].read \in Nat
          /\ Lwm(Peer(d)) \in Nat
      BY <1>0, TwoEnds, WaterMarks DEF Credit, CreditAt, Counts
    <3>2. CASE d = e
      BY <1>0, <2>1, <2>2, <3>1, <3>2, ToldTail
    <3>3. CASE d # e
      BY <2>1, <2>2, <3>1, <3>3
    <3> QED BY <3>2, <3>3
  <2> QED BY <2>3, <2>4 DEF Credit
<1>4. CASE ProcessHiccup(e)
  <2>1. /\ UNCHANGED state /\ stopped' = stopped \ {e}
        /\ \A d \in Ends : /\ counts'[d].read = counts[d].read
                           /\ counts'[d].peersRead = counts[d].peersRead
                           /\ d # e => counts'[d] = counts[d]
    BY <1>0, <1>4 DEF ProcessHiccup, Counts
  <2>2. \A d \in Ends : Keeps(mbox[d], mbox'[d])
    BY <1>0, <1>1, <1>4, TakeKeeps DEF ProcessHiccup, Arrives
  <2>3. \A d \in Ends : FullAt(d)'
    BY <2>1, FullKept DEF FullAt
  <2> QED BY <1>0, <2>1, <2>2, <2>3, CreditKept
<1>5. CASE ProcessPipeTerm(e) \/ ProcessPipeTermAck(e)
  <2>1. UNCHANGED <<counts, stopped>>
    BY <1>5 DEF ProcessPipeTerm, ProcessPipeTermAck
  <2>2. \A d \in Ends : Keeps(mbox[d], mbox'[d])
    BY <1>0, <1>1, <1>5, TakeKeeps DEF ProcessPipeTerm, ProcessPipeTermAck, Arrives
  <2>3. \A d \in Ends : state'[d] = "active" => state[d] = "active"
    BY <1>0, <1>5 DEF ProcessPipeTerm, ProcessPipeTermAck, SetState
  <2>4. \A d \in Ends : FullAt(d)'
    BY <2>1, <2>3, FullKept
  <2> QED BY <1>0, <2>1, <2>2, <2>4, CreditKept
<1> QED BY <1>2, <1>3, <1>4, <1>5 DEF Process

LEMMA CreditInit == PipeInit => Credit
<1> SUFFICES ASSUME PipeInit, NEW e \in Ends PROVE CreditAt(e) /\ FullAt(e)
  BY DEF Credit
<1>1. /\ mbox[e] = <<>> /\ counts[e].peersRead = 0 /\ counts[Peer(e)].read = 0
      /\ e \notin stopped /\ Lwm(Peer(e)) \in Nat
  BY TwoEnds, WaterMarks DEF PipeInit
<1> QED BY <1>1 DEF CreditAt, FullAt, Told, Tells

LEMMA CreditStep == PipeInv /\ Credit /\ [PipeNext]_pvars => Credit'
<1> SUFFICES ASSUME PipeInv, Credit, [PipeNext]_pvars PROVE Credit'
  OBVIOUS
<1>1. Typed'
  BY PipeInvStep DEF PipeInv
<1>2. CASE UNCHANGED pvars
  BY <1>2 DEF pvars, ends, Credit, CreditAt, FullAt, Full, Lwm
<1>3. ASSUME NEW e \in Ends, Use(e) \/ Read(e) \/ Process(e) PROVE Credit'
  BY <1>1, <1>3, CreditWrites, CreditReads, CreditEnds, CreditProcesses DEF Use, Read
<1> QED BY <1>2, <1>3 DEF PipeNext

(* Flow control never stalls (pipe_t::check_hwm(), compute_lwm() and the   *)
(* activate_write of read()): a writer that a full pipe has stopped is     *)
(* told to go on, by a command under way or by the messages that the       *)
(* reader is still to read, for every high-water mark and through hiccups. *)
THEOREM StoppedWritersResume == PipeSpec => []StoppedResumes
<1>1. ASSUME PipeInv, Credit PROVE StoppedResumes
  <2> SUFFICES ASSUME NEW e \in Ends, e \in stopped, state[e] = "active" PROVE WillResume(e)
    BY DEF StoppedResumes
  <2> DEFINE r == Peer(e)
             l == Lwm(r)
             p == counts[e].peersRead
  <2>1. /\ r \in Ends /\ p \in Nat /\ counts[e].written \in Int /\ counts[r].read \in Nat
        /\ mbox[e] \in Seq(Command) /\ OutHwm[e] \in Nat /\ l \in Nat
    BY <1>1, TwoEnds, WaterMarks DEF PipeInv, Typed, Counts
  <2>2. OutHwm[e] > 0 /\ counts[e].written - p >= OutHwm[e]
    BY <1>1 DEF Credit, FullAt, Full
  <2>3. l > 0 /\ l <= OutHwm[e]
    BY <2>2, WaterMarks
  <2>4. Told(mbox[e], p, counts[r].read, l)
    BY <1>1, <2>3 DEF Credit, CreditAt
  <2> HIDE DEF l, p, r
  <2>5. CASE \E k \in 1 .. Len(mbox[e]) : Tells(mbox[e], k)
    <3>1. \E k \in DOMAIN mbox[e] : mbox[e][k].cmd = "activate_write"
      BY <2>1, <2>5 DEF Tells
    <3> QED BY <3>1 DEF WillResume
  <2>6. CASE \A k \in 1 .. Len(mbox[e]) : ~Tells(mbox[e], k)
    <3>1. counts[r].read < p + l /\ p % l = 0
      BY <2>4, <2>6 DEF Told
    <3>2. (p + l) % l = 0
      <4>1. p \in Nat /\ l \in Nat \ {0}
        BY <2>1, <2>3
      <4> QED BY <3>1, <4>1, NextMultiple
    <3>3. p + l \in counts[r].read + 1 .. counts[e].written
      BY <2>1, <2>2, <2>3, <3>1
    <3> QED BY <3>2, <3>3 DEF WillResume, r, l
  <2> QED BY <2>5, <2>6
<1>2. PipeInit => PipeInv /\ Credit
  BY PipeInvInit, CreditInit
<1>3. (PipeInv /\ Credit) /\ [PipeNext]_pvars => (PipeInv /\ Credit)'
  BY PipeInvStep, CreditStep
<1> QED BY <1>1, <1>2, <1>3, PTL DEF PipeSpec
=============================================================================
