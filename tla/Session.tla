------------------------------ MODULE Session ------------------------------
(***************************************************************************)
(* The objects behind a socket that sends (own.cpp, object.cpp,            *)
(* session_base.cpp, the connecters and listeners, socket_base.cpp): a     *)
(* tree of objects in several threads that are created, launched, and      *)
(* shut down by commands.  A socket that connects owns a session, which    *)
(* owns a connecter whenever it has no connection; a socket that binds     *)
(* owns a listener, which owns a session for each connection it accepts.   *)
(* Pipes carry messages from the socket to the sessions: here a pipe is    *)
(* the number of messages in it and the states of its two ends, which      *)
(* Pipe.tla gives in full.                                                 *)
(***************************************************************************)
EXTENDS Integers, Sequences, FiniteSets, SequencesExt

CONSTANTS
  Sessions, Connecters,  \* objects, used again once they are deleted
  Pipes,                 \* pipes, used again once both ends are deleted
  Threads, Thread,       \* Thread[o]: the thread of object o
  MaxQueue,              \* bound on the messages in a pipe
  MaxFails,              \* bound on the connections that break
  Options                \* what the user may set before connect or bind

Objects == {"socket", "listener"} \cup Sessions \cup Connecters
None    == "none"
Lingers == {"for ever", "for a time", "not at all"}    \* -1, > 0, and 0

ASSUME SessionAssumption ==
  /\ Thread \in [Objects -> Threads]
  /\ \A o \in Objects \ {"socket"} : Thread[o] # Thread["socket"]
  /\ Options \subseteq [active : BOOLEAN, linger : Lingers,
                        immediate : BOOLEAN, reconnect : BOOLEAN]

VARIABLES
  opt,        \* the options of the socket, a member of Options
  own,        \* own[o]: the members of own_t
  sess,       \* sess[s]: the members of session_base_t
  conn,       \* conn[c]: what a connecter, or the listener, holds
  pipe,       \* pipe[p]: a pipe, with its two ends
  mbox,       \* mbox[t]: the commands to objects in thread t
  launching,  \* launching[t]: what thread t still has to send before it
              \*   leaves launch_child()
  user,       \* user: what the owner of the socket did
  fails       \* number of connections that broke
vars == <<opt, own, sess, conn, pipe, mbox, launching, user, fails>>

------------------------------------------------------------------------------
(* own_t: due is sent_seqnum - processed_seqnum, the commands on their way *)
(* that the object has to wait for.                                        *)
NoObject == [alive |-> FALSE, owner |-> None, owned |-> {}, acks |-> 0,
             due |-> 0, terminating |-> FALSE]
NewObject(o) == [NoObject EXCEPT !.alive = TRUE, !.owner = o]

NoSession == [pipe |-> None, ending |-> {}, pending |-> FALSE,
              engine |-> FALSE, timer |-> FALSE]

NoPipe == [sock |-> "freed", sess |-> "freed", session |-> None, n |-> 0,
           delim |-> FALSE, reader |-> "awake", delay |-> TRUE]

(* pipepair().  The reader sleeps when it has found the pipe empty         *)
(* (in_active is false); the next writer wakes it up by a command.         *)
NewPipe(s) == [NoPipe EXCEPT !.sock = "active", !.sess = "active",
                             !.session = s]

(* Commands to an object, and to an end, "sock" or "sess", of a pipe.      *)
Cmd(o, c, arg) == [to |-> o, end |-> None, cmd |-> c, arg |-> arg]
PipeCmd(p, e, c) == [to |-> p, end |-> e, cmd |-> c, arg |-> None]

(* The commands for which send_*() calls inc_seqnum() of the destination.  *)
Counted == {"plug", "own", "attach", "bind"}

ThreadOf(c) == CASE c.end = None   -> Thread[c.to]
                 [] c.end = "sock" -> Thread["socket"]
                 [] c.end = "sess" -> Thread[pipe[c.to].session]

(* inc_seqnum()                                                            *)
Count(objs, cmds) ==
  [o \in Objects |-> [objs[o] EXCEPT !.due = @ +
     Cardinality({i \in DOMAIN cmds : cmds[i].to = o /\ cmds[i].cmd \in Counted})]]


(* What check_term_acks() tests.                                           *)
Finished(r) == r.terminating /\ r.due = 0 /\ r.acks = 0

Post(boxes, cmds) ==
  [t \in Threads |-> boxes[t] \o SelectSeq(cmds, LAMBDA c : ThreadOf(c) = t)]

(* One step of object o: its own_t becomes r, it sends now at once and the *)
(* commands later when launch_child() goes on, and is deleted if that was  *)
(* the last thing it waited for (check_term_acks(), process_destroy()).    *)
Step(o, r, boxes, now, later) ==
  LET objs == Count([own EXCEPT ![o] = r], now \o later)
      gone == Finished(objs[o])
      ack  == IF gone /\ r.owner # None
                THEN <<Cmd(r.owner, "term_ack", o)>> ELSE <<>>
  IN  /\ own' = IF gone THEN [objs EXCEPT ![o] = NoObject] ELSE objs
      /\ mbox' = Post(boxes, now \o ack)
      /\ launching' = IF later = <<>> THEN launching
                      ELSE [launching EXCEPT ![Thread[o]] = later]

Gone(o) == ~own'[o].alive

(* own_t::process_term(): every child is told.                             *)
Terminating(r) == [r EXCEPT !.terminating = TRUE, !.owned = {},
                            !.acks = @ + Cardinality(r.owned)]
Terms(r, linger) == SetToSeq({Cmd(x, "term", linger) : x \in r.owned})

(* own_t::terminate() of an object that has an owner.                      *)
TermReq(o) == IF own[o].terminating THEN <<>>
              ELSE <<Cmd(own[o].owner, "term_req", o)>>

------------------------------------------------------------------------------
(* pipe_t: what is left of terminate(), process_pipe_term(), ... when only *)
(* the socket writes.  The end of the socket is set_nodelay().             *)
Other(e) == IF e = "sock" THEN "sess" ELSE "sock"

Woken(x) == IF x.reader = "asleep" THEN "woken" ELSE x.reader
WakeUp(p, x) == IF x.reader = "asleep"
                  THEN <<PipeCmd(p, "sess", "activate_read")>> ELSE <<>>

Ends(e, x) == x[e] \in {"active", "delimiter_received"}   \* has not ended yet

TerminatePipe(x, e, wait) ==
  LET y == IF e = "sess" THEN [x EXCEPT !.delay = wait] ELSE x
  IN  IF Ends(e, x)
        THEN [y EXCEPT ![e] = "term_req_sent1",
                       !.delim = @ \/ e = "sock",
                       !.reader = IF e = "sock" THEN Woken(x) ELSE @]
      ELSE IF x[e] = "waiting_for_delimiter" /\ ~wait
        THEN [y EXCEPT ![e] = "term_ack_sent"]
      ELSE y

TerminateCmds(p, x, e, wait) ==
  IF Ends(e, x)
    THEN <<PipeCmd(p, Other(e), "pipe_term")>> \o
         IF e = "sock" THEN WakeUp(p, x) ELSE <<>>
  ELSE IF x[e] = "waiting_for_delimiter" /\ ~wait
    THEN <<PipeCmd(p, Other(e), "pipe_term_ack")>>
  ELSE <<>>

(* check_read() of the session's end: an empty pipe puts it to sleep, a    *)
(* delimiter is taken out and processed.                                   *)
SeesDelimiter(x) == /\ x.sess \in {"active", "waiting_for_delimiter"}
                    /\ x.reader = "awake" /\ x.n = 0 /\ x.delim
CheckRead(x) ==
  IF SeesDelimiter(x)
    THEN [x EXCEPT !.delim = FALSE,
                   !.sess = IF @ = "active" THEN "delimiter_received"
                                            ELSE "term_ack_sent"]
  ELSE IF /\ x.sess \in {"active", "waiting_for_delimiter"}
          /\ x.reader = "awake" /\ x.n = 0
    THEN [x EXCEPT !.reader = "asleep"]
  ELSE x
CheckReadCmds(p, x) ==
  IF SeesDelimiter(x) /\ x.sess = "waiting_for_delimiter"
    THEN <<PipeCmd(p, "sock", "pipe_term_ack")>> ELSE <<>>

(* terminate(wait) and then, if check, check_read(), by the session.       *)
EndPipe(p, wait, check) ==
  LET x == TerminatePipe(pipe[p], "sess", wait)
  IN  pipe' = [pipe EXCEPT ![p] = IF check THEN CheckRead(x) ELSE x]
EndPipeCmds(p, wait, check) ==
  TerminateCmds(p, pipe[p], "sess", wait) \o
  IF check THEN CheckReadCmds(p, TerminatePipe(pipe[p], "sess", wait)) ELSE <<>>

FreePipes == {p \in Pipes : pipe[p].sock = "freed" /\ pipe[p].sess = "freed"}
FreshPipe == CHOOSE p \in FreePipes : TRUE

------------------------------------------------------------------------------
(* The socket and its user.                                                *)

(* The pipes that the socket has attached.                                 *)
SocketPipes == {p \in Pipes : pipe[p].sock # "freed" /\ p \notin user.binding}

(* The pipe that connect() noted is deallocated; pipe_terminated() leaves  *)
(* the note as it is.                                                      *)
StalePipe == user.pipe # None /\ pipe[user.pipe].sock = "freed"

(* connect(): a session, with a pipe unless the option immediate is set.   *)
Connect ==
  /\ opt.active /\ user.state = "idle" /\ launching["app"] = <<>>
  /\ \E s \in Sessions :
       LET own1 == [own EXCEPT ![s] = NewObject("socket")]
       IN  /\ ~own[s].alive
           /\ own' = Count(own1, <<Cmd(s, "plug", None), Cmd("socket", "own", s)>>)
           /\ mbox' = Post(mbox, <<Cmd(s, "plug", None)>>)
           /\ launching' = [launching EXCEPT !["app"] = <<Cmd("socket", "own", s)>>]
           /\ IF opt.immediate
                THEN /\ user' = [user EXCEPT !.state = "open", !.session = s]
                     /\ UNCHANGED <<sess, pipe>>
                ELSE LET p == FreshPipe IN
                       /\ pipe' = [pipe EXCEPT ![p] = NewPipe(s)]
                       /\ sess' = [sess EXCEPT ![s].pipe = p]
                       /\ user' = [user EXCEPT !.state = "open", !.session = s,
                                               !.pipe = p]
  /\ UNCHANGED <<fails, opt, conn>>

(* bind(): a listener.                                                     *)
Bind ==
  /\ ~opt.active /\ user.state = "idle" /\ launching["app"] = <<>>
  /\ LET now   == <<Cmd("listener", "plug", None)>>
         later == <<Cmd("socket", "own", "listener")>>
     IN  /\ own' = Count([own EXCEPT !["listener"] = NewObject("socket")],
                         now \o later)
         /\ mbox' = Post(mbox, now)
         /\ launching' = [launching EXCEPT !["app"] = later]
  /\ user' = [user EXCEPT !.state = "open", !.session = "listener"]
  /\ conn' = [conn EXCEPT !["listener"] = {"fd"}]
  /\ UNCHANGED <<fails, opt, sess, pipe>>

(* The rest of launch_child(), and of the function that called it.         *)
Launch(t) ==
  /\ launching[t] # <<>>
  /\ mbox' = Post(mbox, launching[t])
  /\ launching' = [launching EXCEPT ![t] = <<>>]
  /\ UNCHANGED <<fails, opt, own, sess, conn, pipe, user>>

(* send(): a message goes into a pipe.                                     *)
Send(p) ==
  /\ user.state = "open" /\ launching["app"] = <<>>
  /\ p \in SocketPipes /\ pipe[p].sock = "active" /\ pipe[p].n < MaxQueue
  /\ pipe' = [pipe EXCEPT ![p].n = @ + 1, ![p].reader = Woken(pipe[p])]
  /\ mbox' = Post(mbox, WakeUp(p, pipe[p]))
  /\ UNCHANGED <<fails, opt, own, sess, conn, launching, user>>

(* term_endpoint(), which processes all commands first.  It terminates the *)
(* pipe that connect() noted; if that pipe is deallocated by then, which   *)
(* nobody looks at, anything may happen, and stale records that it did.    *)
Disconnect ==
  /\ user.state = "open" /\ user.session # None
  /\ launching["app"] = <<>> /\ mbox["app"] = <<>>
  /\ user' = [user EXCEPT !.session = None, !.pipe = None,
                          !.stale = @ \/ StalePipe]
  /\ LET p  == user.pipe
         x  == user.session
         r  == own["socket"]
         ok == x \in r.owned
         live == p # None /\ ~StalePipe
     IN  /\ pipe' = IF live THEN [pipe EXCEPT ![p] = TerminatePipe(@, "sock", FALSE)]
                    ELSE pipe
         /\ Step("socket",
                 IF ok THEN [r EXCEPT !.owned = @ \ {x}, !.acks = @ + 1] ELSE r,
                 mbox,
                 (IF live THEN TerminateCmds(p, pipe[p], "sock", FALSE) ELSE <<>>)
                 \o (IF ok THEN <<Cmd(x, "term", opt.linger)>> ELSE <<>>), <<>>)
  /\ UNCHANGED <<fails, opt, sess, conn>>

(* close(): socket_base_t::process_term(), in the reaper.                  *)
Close ==
  /\ user.state \in {"idle", "open"} /\ launching["app"] = <<>>
  /\ user' = [user EXCEPT !.state = "closed", !.session = None, !.pipe = None]
  /\ pipe' = [p \in Pipes |-> IF p \in SocketPipes
                              THEN TerminatePipe(pipe[p], "sock", FALSE)
                              ELSE pipe[p]]
  /\ LET r    == own["socket"]
         cmds == FoldSet(LAMBDA p, acc : acc \o
                           TerminateCmds(p, pipe[p], "sock", FALSE),
                         <<>>, SocketPipes)
     IN  Step("socket",
              Terminating([r EXCEPT !.acks = @ + Cardinality(SocketPipes)]),
              mbox, cmds \o Terms(r, opt.linger), <<>>)
  /\ UNCHANGED <<fails, opt, sess, conn>>

------------------------------------------------------------------------------
(* process_command(): the object that a command is for processes it.       *)

Arrives(t, c) == launching[t] = <<>> /\ mbox[t] # <<>> /\ Head(mbox[t]).cmd = c
Popped(t)     == [mbox EXCEPT ![t] = Tail(@)]
Caught(o)     == [own[o] EXCEPT !.due = @ - 1]      \* process_seqnum()

(* session_base_t::start_connecting(): launch_child() of a connecter.  The *)
(* mailboxes are popped already; r is the session's own_t.                 *)
StartConnecting(s, r, boxes, cmds, when) ==
  LET free == {x \in Connecters : ~own[x].alive}
      c    == CHOOSE x \in free : TRUE
      plug == <<Cmd(c, "plug", when)>>
      mine == <<Cmd(s, "own", c)>>
  IN  /\ free # {}
      /\ own' = Count([own EXCEPT ![s] = r, ![c] = NewObject(s)], plug \o mine)
      /\ mbox' = Post(boxes, cmds \o plug)
      /\ launching' = [launching EXCEPT ![Thread[s]] = mine]

(* What add_reconnect_timer() and start_connecting() of a connecter leave: *)
(* open() fails, or the connection is under way.                           *)
Retrying   == {"reconnect_timer"}
Connecting == {"fd", "handle", "connect_timer"}

(* process_plug() of a session, ...                                        *)
PlugSession(t) ==
  /\ Arrives(t, "plug")
  /\ LET s == Head(mbox[t]).to IN
     /\ s \in Sessions
     /\ IF opt.active THEN StartConnecting(s, Caught(s), Popped(t), <<>>, "now")
        ELSE Step(s, Caught(s), Popped(t), <<>>, <<>>)
  /\ UNCHANGED <<fails, opt, sess, conn, pipe, user>>

(* ... of a listener, and of a connecter, which tries at once or, after a  *)
(* failure, when its timer expires.                                        *)
PlugOther(t) ==
  /\ Arrives(t, "plug")
  /\ LET o == Head(mbox[t]).to IN
     /\ o \notin Sessions
     /\ Step(o, Caught(o), Popped(t), <<>>, <<>>)
     /\ IF o \in Connecters
          THEN \E what \in {Retrying, Connecting} :
                 /\ Head(mbox[t]).arg = "later" => what = Retrying
                 /\ conn' = [conn EXCEPT ![o] = what]
          ELSE conn' = [conn EXCEPT ![o] = {"fd", "handle"}]
  /\ UNCHANGED <<fails, opt, sess, pipe, user>>

(* process_own()                                                           *)
ProcessOwn(t) ==
  /\ Arrives(t, "own")
  /\ LET o == Head(mbox[t]).to
         x == Head(mbox[t]).arg
         r == Caught(o)
     IN  IF r.terminating
           THEN Step(o, [r EXCEPT !.acks = @ + 1], Popped(t),
                     <<Cmd(x, "term", "not at all")>>, <<>>)
           ELSE Step(o, [r EXCEPT !.owned = @ \cup {x}], Popped(t), <<>>, <<>>)
  /\ UNCHANGED <<fails, opt, sess, conn, pipe, user>>

(* process_term_req(): nothing if the child is not found.                  *)
ProcessTermReq(t) ==
  /\ Arrives(t, "term_req")
  /\ LET o == Head(mbox[t]).to
         x == Head(mbox[t]).arg
         r == own[o]
     IN  IF r.terminating \/ x \notin r.owned
           THEN Step(o, r, Popped(t), <<>>, <<>>)
           ELSE Step(o, [r EXCEPT !.owned = @ \ {x}, !.acks = @ + 1], Popped(t),
                     <<Cmd(x, "term", opt.linger)>>, <<>>)
  /\ UNCHANGED <<fails, opt, sess, conn, pipe, user>>

(* process_term_ack()                                                      *)
ProcessTermAck(t) ==
  /\ Arrives(t, "term_ack")
  /\ LET o == Head(mbox[t]).to
     IN  /\ Step(o, [own[o] EXCEPT !.acks = @ - 1], Popped(t), <<>>, <<>>)
         /\ sess' = IF o \in Sessions /\ Gone(o)
                      THEN [sess EXCEPT ![o] = NoSession] ELSE sess
  /\ UNCHANGED <<fails, opt, conn, pipe, user>>

(* Bug: the timers are not cancelled.                                      *)
TermOtherKeepsTimers(t) ==
  /\ Arrives(t, "term")
  /\ LET o == Head(mbox[t]).to
     IN  /\ o \notin Sessions
         /\ Step(o, Terminating(own[o]), Popped(t),
                 Terms(own[o], Head(mbox[t]).arg), <<>>)
         /\ conn' = [conn EXCEPT ![o] = @ \ {"fd", "handle"}]
  /\ UNCHANGED <<fails, opt, sess, pipe, user>>

(* process_term() of a connecter or listener: timers, handle and file      *)
(* descriptor are released.                                                *)
TermOther(t) ==
  /\ Arrives(t, "term")
  /\ LET o == Head(mbox[t]).to
     IN  /\ o \notin Sessions
         /\ Step(o, Terminating(own[o]), Popped(t),
                 Terms(own[o], Head(mbox[t]).arg), <<>>)
         /\ conn' = [conn EXCEPT ![o] = {}]
  /\ UNCHANGED <<fails, opt, sess, pipe, user>>

(* Bug: a session without an engine does not look for the delimiter.       *)
TermSessionBlind(t) ==
  /\ Arrives(t, "term")
  /\ LET s == Head(mbox[t]).to
         m == sess[s]
     IN  /\ s \in Sessions /\ m.pipe # None
         /\ EndPipe(m.pipe, Head(mbox[t]).arg # "not at all", FALSE)
         /\ Step(s, own[s], Popped(t),
                 EndPipeCmds(m.pipe, Head(mbox[t]).arg # "not at all", FALSE), <<>>)
         /\ sess' = [sess EXCEPT ![s].pending = TRUE]
  /\ UNCHANGED <<fails, opt, conn, user>>

(* process_term() of a session: it waits for its pipes.                    *)
TermSession(t) ==
  /\ Arrives(t, "term")
  /\ LET s      == Head(mbox[t]).to
         linger == Head(mbox[t]).arg
         m      == sess[s]
     IN  /\ s \in Sessions
         /\ \/ /\ m.pipe = None /\ m.ending = {}
               /\ Step(s, Terminating(own[s]), Popped(t), Terms(own[s], "not at all"), <<>>)
               /\ sess' = IF Gone(s) THEN [sess EXCEPT ![s] = NoSession] ELSE sess
               /\ UNCHANGED pipe
            \/ /\ m.pipe = None /\ m.ending # {}
               /\ Step(s, own[s], Popped(t), <<>>, <<>>)
               /\ sess' = [sess EXCEPT ![s].pending = TRUE]
               /\ UNCHANGED pipe
            \/ /\ m.pipe # None
               /\ EndPipe(m.pipe, linger # "not at all", ~m.engine)
               /\ Step(s, own[s], Popped(t),
                       EndPipeCmds(m.pipe, linger # "not at all", ~m.engine), <<>>)
               /\ sess' = [sess EXCEPT ![s].pending = TRUE,
                                       ![s].timer = (linger = "for a time")]
  /\ UNCHANGED <<fails, opt, conn, user>>

(* process_attach(): a connection is there.  The session gets a pipe if it *)
(* has none; a session that terminates keeps the engine until it goes.     *)
ProcessAttach(t) ==
  /\ Arrives(t, "attach")
  /\ LET s == Head(mbox[t]).to
         m == sess[s]
     IN  IF m.pipe = None /\ ~own[s].terminating
           THEN LET p == FreshPipe IN
                  /\ FreePipes # {}
                  /\ pipe' = [pipe EXCEPT ![p] = NewPipe(s)]
                  /\ sess' = [sess EXCEPT ![s].pipe = p, ![s].engine = TRUE]
                  /\ user' = [user EXCEPT !.binding = @ \cup {p}]
                  /\ Step(s, Caught(s), Popped(t), <<Cmd("socket", "bind", p)>>, <<>>)
           ELSE /\ Step(s, Caught(s), Popped(t), <<>>, <<>>)
                /\ sess' = IF Gone(s) THEN [sess EXCEPT ![s] = NoSession]
                           ELSE [sess EXCEPT ![s].engine = TRUE]
                /\ UNCHANGED <<pipe, user>>
  /\ UNCHANGED <<fails, opt, conn>>

(* process_bind(), attach_pipe(): a socket that closes ends it at once.    *)
ProcessBind(t) ==
  /\ Arrives(t, "bind")
  /\ LET p == Head(mbox[t]).arg
         r == Caught("socket")
     IN  IF r.terminating
           THEN /\ pipe' = [pipe EXCEPT ![p] = TerminatePipe(@, "sock", FALSE)]
                /\ Step("socket", [r EXCEPT !.acks = @ + 1], Popped(t),
                        TerminateCmds(p, pipe[p], "sock", FALSE), <<>>)
           ELSE /\ Step("socket", r, Popped(t), <<>>, <<>>)
                /\ UNCHANGED pipe
  /\ user' = [user EXCEPT !.binding = @ \ {Head(mbox[t]).arg}]
  /\ UNCHANGED <<fails, opt, sess, conn>>

(* Commands to the ends of pipes.                                          *)

(* process_activate_read(), read_activated(): without an engine a session  *)
(* looks for the delimiter only.                                           *)
ActivateRead(t) ==
  /\ Arrives(t, "activate_read")
  /\ LET p == Head(mbox[t]).to
         s == pipe[p].session
         x == [pipe[p] EXCEPT !.reader = "awake"]
         check == sess[s].pipe = p /\ ~sess[s].engine
     IN  /\ pipe' = [pipe EXCEPT ![p] = IF check THEN CheckRead(x) ELSE x]
         /\ Step(s, own[s], Popped(t), IF check THEN CheckReadCmds(p, x) ELSE <<>>,
                 <<>>)
  /\ UNCHANGED <<fails, opt, sess, conn, user>>

(* process_hiccup(), hiccuped(): with the option immediate the socket ends *)
(* the pipe.                                                               *)
ProcessHiccup(t) ==
  /\ Arrives(t, "hiccup")
  /\ LET p == Head(mbox[t]).to
         live == pipe[p].sock = "active"
     IN  /\ pipe' = IF live THEN [pipe EXCEPT ![p] = TerminatePipe(@, "sock", FALSE)]
                    ELSE pipe
         /\ mbox' = Post(Popped(t), IF live
                           THEN TerminateCmds(p, pipe[p], "sock", FALSE) ELSE <<>>)
  /\ UNCHANGED <<fails, opt, own, sess, conn, launching, user>>

(* process_pipe_term()                                                     *)
ProcessPipeTerm(t) ==
  /\ Arrives(t, "pipe_term")
  /\ LET p == Head(mbox[t]).to
         e == Head(mbox[t]).end
         x == pipe[p]
         wait == e = "sess" /\ x.sess = "active" /\ x.delay
     IN  /\ pipe' = [pipe EXCEPT ![p][e] =
                       IF wait THEN "waiting_for_delimiter"
                       ELSE IF @ = "term_req_sent1" THEN "term_req_sent2"
                       ELSE "term_ack_sent"]
         /\ mbox' = Post(Popped(t), IF wait THEN <<>>
                          ELSE <<PipeCmd(p, Other(e), "pipe_term_ack")>>)
  /\ UNCHANGED <<fails, opt, own, sess, conn, launching, user>>

(* What process_pipe_term_ack() still sends, and the pipe it leaves.       *)
LastAck(p, e) == IF pipe[p][e] = "term_req_sent1"
                   THEN <<PipeCmd(p, Other(e), "pipe_term_ack")>> ELSE <<>>
Freed(p, e) == IF pipe[p][Other(e)] = "freed" THEN NoPipe
               ELSE [pipe[p] EXCEPT ![e] = "freed"]

(* process_pipe_term_ack() of the socket's end, pipe_terminated(), ...     *)
AckSocket(t) ==
  /\ Arrives(t, "pipe_term_ack")
  /\ LET p == Head(mbox[t]).to
         r == own["socket"]
     IN  /\ Head(mbox[t]).end = "sock"
         /\ pipe' = [pipe EXCEPT ![p] = Freed(p, "sock")]
         /\ Step("socket", IF r.terminating THEN [r EXCEPT !.acks = @ - 1] ELSE r,
                 Popped(t), LastAck(p, "sock"), <<>>)
  /\ UNCHANGED <<fails, opt, sess, conn, user>>

(* ... and of the session's end: a session that waited for its last pipe   *)
(* goes on to terminate.                                                   *)
AckSession(t) ==
  /\ Arrives(t, "pipe_term_ack")
  /\ LET p  == Head(mbox[t]).to
         s  == pipe[p].session
         m  == IF sess[s].pipe = p
                 THEN [sess[s] EXCEPT !.pipe = None, !.timer = FALSE]
                 ELSE [sess[s] EXCEPT !.ending = @ \ {p}]
         go == m.pending /\ m.pipe = None /\ m.ending = {}
     IN  /\ Head(mbox[t]).end = "sess"
         /\ pipe' = [pipe EXCEPT ![p] = Freed(p, "sess")]
         /\ Step(s, IF go THEN Terminating(own[s]) ELSE own[s], Popped(t),
                 LastAck(p, "sess") \o (IF go THEN Terms(own[s], "not at all") ELSE <<>>), <<>>)
         /\ sess' = [sess EXCEPT ![s] = IF Gone(s) THEN NoSession
                       ELSE [m EXCEPT !.pending = @ /\ ~go]]
  /\ UNCHANGED <<fails, opt, conn, user>>

Deliver(t) ==
  \/ PlugSession(t) \/ PlugOther(t) \/ ProcessOwn(t)
  \/ ProcessTermReq(t) \/ ProcessTermAck(t) \/ TermOther(t) \/ TermSession(t)
  \/ ProcessAttach(t) \/ ProcessBind(t)
  \/ ActivateRead(t) \/ ProcessHiccup(t) \/ ProcessPipeTerm(t)
  \/ AckSocket(t) \/ AckSession(t)

------------------------------------------------------------------------------
(* Events of the I/O threads.                                              *)

(* out_event() of a connecter: the connection failed, ...                  *)
ConnectFails(c) ==
  /\ "handle" \in conn[c] /\ launching[Thread[c]] = <<>> /\ c # "listener"
  /\ conn' = [conn EXCEPT ![c] = Retrying]
  /\ UNCHANGED <<fails, opt, own, sess, pipe, mbox, launching, user>>

(* Bug: the descriptor is not taken out of the poller.                     *)
ConnectedPolls(c) ==
  /\ "handle" \in conn[c] /\ launching[Thread[c]] = <<>> /\ c # "listener"
  /\ Step(c, own[c], mbox,
          <<Cmd(own[c].owner, "attach", None)>> \o TermReq(c), <<>>)
  /\ UNCHANGED <<fails, opt, sess, conn, pipe, user>>

(* ... or is there: it is handed to the session, and the connecter asks to *)
(* be terminated.                                                          *)
Connected(c) ==
  /\ "handle" \in conn[c] /\ launching[Thread[c]] = <<>> /\ c # "listener"
  /\ conn' = [conn EXCEPT ![c] = {}]
  /\ Step(c, own[c], mbox,
          <<Cmd(own[c].owner, "attach", None)>> \o TermReq(c), <<>>)
  /\ UNCHANGED <<fails, opt, sess, pipe, user>>

(* timer_event() of a connecter that waits to try again; the timer that    *)
(* gives an attempt up does what ConnectFails does.                        *)
Retry(c) ==
  /\ "reconnect_timer" \in conn[c] /\ launching[Thread[c]] = <<>>
  /\ \E what \in {Retrying, Connecting} : conn' = [conn EXCEPT ![c] = what]
  /\ UNCHANGED <<fails, opt, own, sess, pipe, mbox, launching, user>>

(* in_event() of the listener.                                             *)
Accept ==
  /\ "handle" \in conn["listener"] /\ launching[Thread["listener"]] = <<>>
  /\ \E s \in Sessions :
       LET now   == <<Cmd(s, "plug", None)>>
           later == <<Cmd("listener", "own", s), Cmd(s, "attach", None)>>
       IN  /\ ~own[s].alive
           /\ own' = Count([own EXCEPT ![s] = NewObject("listener")], now \o later)
           /\ mbox' = Post(mbox, now)
           /\ launching' = [launching EXCEPT ![Thread["listener"]] = later]
  /\ UNCHANGED <<fails, opt, sess, conn, pipe, user>>

(* The engine sends a message, or finds none or the delimiter.             *)
Pull(s) ==
  /\ sess[s].engine /\ sess[s].pipe # None /\ launching[Thread[s]] = <<>>
  /\ LET p == sess[s].pipe
         x == pipe[p]
     IN  /\ x.sess \in {"active", "waiting_for_delimiter"} /\ x.reader = "awake"
         /\ pipe' = [pipe EXCEPT ![p] = IF x.n > 0 THEN [x EXCEPT !.n = @ - 1]
                                        ELSE CheckRead(x)]
         /\ mbox' = Post(mbox, CheckReadCmds(p, x))
  /\ UNCHANGED <<fails, opt, own, sess, conn, launching, user>>

(* engine_error(): the session terminates after a protocol error or when   *)
(* it belongs to a listener; then it may find the delimiter in its pipe.   *)
EngineFails(s, protocol) ==
  /\ sess[s].engine /\ fails < MaxFails /\ launching[Thread[s]] = <<>>
  /\ protocol \/ ~opt.active
  /\ sess' = [sess EXCEPT ![s].engine = FALSE]
  /\ LET p == sess[s].pipe
     IN  /\ pipe' = IF p = None THEN pipe ELSE [pipe EXCEPT ![p] = CheckRead(@)]
         /\ Step(s, own[s], mbox, TermReq(s) \o
                 (IF p = None THEN <<>> ELSE CheckReadCmds(p, pipe[p])), <<>>)
  /\ fails' = fails + 1
  /\ UNCHANGED <<opt, conn, user>>

(* engine_error(), reconnect(): with the option immediate the pipe is not  *)
(* used again.  hiccup() drops what is in it.                              *)
Reconnect(s) ==
  /\ sess[s].engine /\ fails < MaxFails /\ launching[Thread[s]] = <<>> /\ opt.active
  /\ LET p     == sess[s].pipe
         drop  == p # None /\ opt.immediate
         live  == drop /\ pipe[p].sess = "active"
         cmds  == IF drop
                    THEN (IF live THEN <<PipeCmd(p, "sock", "hiccup")>>
                          ELSE <<>>) \o TerminateCmds(p, pipe[p], "sess", FALSE)
                  ELSE IF p # None THEN CheckReadCmds(p, pipe[p]) ELSE <<>>
     IN  /\ sess' = [sess EXCEPT ![s].engine = FALSE,
                      ![s].pipe = IF drop THEN None ELSE @,
                      ![s].ending = IF drop THEN @ \cup {p} ELSE @]
         /\ pipe' = IF drop
                      THEN [pipe EXCEPT ![p] = TerminatePipe(
                              IF live THEN [@ EXCEPT !.n = 0] ELSE @, "sess", FALSE)]
                    ELSE IF p # None THEN [pipe EXCEPT ![p] = CheckRead(@)]
                    ELSE pipe
         /\ IF opt.reconnect THEN StartConnecting(s, own[s], mbox, cmds, "later")
            ELSE Step(s, own[s], mbox, cmds, <<>>)
  /\ fails' = fails + 1
  /\ UNCHANGED <<opt, conn, user>>

(* timer_event() of a session, which asserts that there is a pipe.         *)
LingerExpires(s) ==
  /\ sess[s].timer /\ sess[s].pipe # None /\ launching[Thread[s]] = <<>>
  /\ sess' = [sess EXCEPT ![s].timer = FALSE]
  /\ EndPipe(sess[s].pipe, FALSE, FALSE)
  /\ Step(s, own[s], mbox, EndPipeCmds(sess[s].pipe, FALSE, FALSE), <<>>)
  /\ UNCHANGED <<fails, opt, conn, user>>

------------------------------------------------------------------------------
Init ==
  /\ opt \in Options
  /\ own = [o \in Objects |-> IF o = "socket" THEN NewObject(None) ELSE NoObject]
  /\ sess = [s \in Sessions |-> NoSession]
  /\ conn = [c \in Connecters \cup {"listener"} |-> {}]
  /\ pipe = [p \in Pipes |-> NoPipe]
  /\ mbox = [t \in Threads |-> <<>>]
  /\ launching = [t \in Threads |-> <<>>]
  /\ user = [state |-> "idle", session |-> None, pipe |-> None, binding |-> {},
              stale |-> FALSE]
  /\ fails = 0

Events(s) == \/ \E protocol \in BOOLEAN : EngineFails(s, protocol)
             \/ Reconnect(s) \/ LingerExpires(s) \/ Pull(s)

Next ==
  \/ Connect \/ Bind \/ Disconnect \/ Close \/ \E p \in Pipes : Send(p)
  \/ \E t \in Threads : Launch(t) \/ Deliver(t)
  \/ \E c \in Connecters : ConnectFails(c) \/ Connected(c) \/ Retry(c)
  \/ Accept
  \/ \E s \in Sessions : Events(s)

Spec == Init /\ [][Next]_vars

(* Threads process their commands and expired timers; engines send what    *)
(* there is to send.  Nothing is assumed of the network or of the user.    *)
FairSpec ==
  /\ Spec
  /\ \A t \in Threads : WF_vars(Launch(t)) /\ WF_vars(Deliver(t))
  /\ \A s \in Sessions : WF_vars(LingerExpires(s)) /\ WF_vars(Pull(s))

------------------------------------------------------------------------------
(* Properties.                                                             *)

Commands == UNION {{mbox[t][i] : i \in DOMAIN mbox[t]} : t \in Threads}
Waiting  == UNION {{launching[t][i] : i \in DOMAIN launching[t]} : t \in Threads}

(* Every variable has its type: the type invariant of this module.         *)
TypeOK ==
  /\ opt \in Options
  /\ \A o \in Objects : /\ own[o].owned \subseteq Objects
                        /\ own[o].acks \in Nat /\ own[o].due \in Nat
  /\ \A s \in Sessions : sess[s].pipe \in Pipes \cup {None}
  /\ \A p \in Pipes : pipe[p].n \in 0 .. MaxQueue

(* No command reaches an object or an end of a pipe that is deallocated:   *)
(* whoever may still be sent a command waits for it.                       *)
NoLateCommand ==
  \A c \in Commands \cup Waiting :
    IF c.end = None THEN own[c.to].alive ELSE pipe[c.to][c.end] # "freed"

(* A session never works on two connections: there is one connecter that   *)
(* tries, or one engine on its way, or one engine (process_attach()        *)
(* asserts that there is none).                                            *)
OneConnection ==
  \A s \in Sessions :
    Cardinality({c \in Connecters : own[c].owner = s /\ conn[c] # {}})
    + Cardinality({c \in Commands : c.to = s /\ c.cmd = "attach"})
    + (IF sess[s].engine THEN 1 ELSE 0) <= 1

(* Every acknowledgement that a terminating object waits for will come: it *)
(* counts exactly its children that have been told and its pipes.          *)
Told(o) == {x \in Objects : own[x].alive /\ own[x].owner = o /\
              (own[x].terminating \/ (x \in Sessions /\ sess[x].pending)
               \/ \E c \in Commands : c.to = x /\ c.cmd = "term")}
AcksAreDue ==
  \A o \in Objects :
    own[o].acks = Cardinality(Told(o))
                + Cardinality({c \in Commands : c.to = o /\ c.cmd = "term_ack"})
                + (IF o = "socket" /\ own[o].terminating
                     THEN Cardinality(SocketPipes) ELSE 0)

(* The socket goes last, and nothing it ever launched outlives it; what    *)
(* connecters, listeners and sessions hold is released before they go.     *)
NothingLeft ==
  /\ ~own["socket"].alive =>
       /\ \A o \in Objects : ~own[o].alive
       /\ FreePipes = Pipes /\ Commands = {}
  /\ \A o \in DOMAIN conn : own[o].terminating \/ ~own[o].alive => conn[o] = {}
  /\ \A s \in Sessions : own[s].terminating \/ ~own[s].alive =>
                          sess[s].pipe = None

(* "All the references to the pipe should be dropped" when it ends, says   *)
(* process_pipe_term_ack(): disconnect() never uses a pipe that is         *)
(* deallocated.  It does: session_endpoint.cfg.                            *)
ReferencesDropped == ~user.stale

(* The exception is this one: the note of connect() outlives its pipe only *)
(* when the session ended itself, after a protocol error, and the socket   *)
(* has forgotten it; however often the connection breaks otherwise,        *)
(* disconnect() finds the pipe.                                            *)
EndpointPipe ==
  StalePipe => /\ user.session \notin own["socket"].owned
               /\ Cmd("socket", "own", user.session) \notin Commands \cup Waiting
               /\ fails > 0


(* The tree of objects comes down in order (own_t::check_term_acks).       *)
ComesDown == AcksAreDue /\ NothingLeft

(* close() ends: every object is deallocated, unless messages may linger   *)
(* for ever and there is no connection to send them on.                    *)
Lingering == opt.linger = "for ever" /\ \E s \in Sessions :
               ~sess[s].engine /\ sess[s].pipe # None /\ pipe[sess[s].pipe].n > 0
Closes == (user.state = "closed") ~>
            (Lingering \/ \A o \in Objects : ~own[o].alive)
=============================================================================
