-------------------------------- MODULE Pipe --------------------------------
(***************************************************************************)
(* A pipe between a socket and a session (pipe.cpp, ypipe.hpp): two ends   *)
(* in two threads, a lock-free queue in each direction, and the commands   *)
(* by which the ends wake each other up, replace a queue, and agree on     *)
(* their deallocation.  Each end may start to terminate at any moment; the *)
(* requests may cross, and messages still in the pipe are delivered unless *)
(* the reading end gives up.                                               *)
(***************************************************************************)
EXTENDS Integers, Sequences, FiniteSets

CONSTANTS
  OutHwm,       \* OutHwm[e]: high-water mark of what e writes, 0 for none
  MaxMsgs,      \* MaxMsgs[e]: bound on the messages e writes
  MaxFrames,    \* MaxFrames[e]: bound on the frames of a message of e
  MaxHiccups    \* bound on the queues that the session replaces

Ends == {"socket", "session"}
Peer(e) == IF e = "socket" THEN "session" ELSE "socket"

ASSUME PipeAssumption ==
  /\ OutHwm \in [Ends -> Nat] /\ MaxMsgs \in [Ends -> Nat]
  /\ MaxFrames \in [Ends -> Nat \ {0}] /\ MaxHiccups \in Nat

VARIABLES
  state,      \* state[e]: pipe_t::state, or "freed"
  delay,      \* ends that read what is pending before they terminate
  inactive,   \* ends whose in_active is false: they found nothing to read
  stopped,    \* ends whose out_active is false: they found the pipe full
  inpipe,     \* inpipe[e]: the queue e reads, <<e, n>>, or None
  outpipe,    \* outpipe[e]: the queue e writes, <<Peer(e), n>>, or None
  ypipe,      \* the queues
  counts,     \* counts[e]: msgs_read, msgs_written, peers_msgs_read
  mbox,       \* mbox[e]: commands to e, in the mailbox of its thread
  sent,       \* sent[e]: number of messages e has written
  begun,      \* begun[e]: number of frames of its unfinished message e has
              \* written, those that a hiccup has thrown away among them
  got,        \* got[e]: the frames e has read
  asked,      \* ends whose user has called terminate() or set_nodelay()
  drained     \* ends that have read the delimiter

ends  == <<state, delay, inactive, stopped, inpipe, outpipe, counts>>
hist  == <<sent, begun, got, asked, drained>>
pvars == <<ends, ypipe, mbox, hist>>

None == <<>>

------------------------------------------------------------------------------
(* The queue ypipe_t, as its two users see it: what has been flushed, what *)
(* is complete but not flushed, the frames of an unfinished message, and   *)
(* whether the reader sleeps (c is NULL).                                  *)
Delimiter == [msg |-> 0, part |-> 1, more |-> FALSE]

NewQueue == [flushed |-> <<>>, written |-> <<>>, partial |-> <<>>,
             asleep |-> FALSE, memory |-> "live"]
NoQueue  == [NewQueue EXCEPT !.memory = "none"]

YWrite(q, frame) ==
  IF frame.more THEN [q EXCEPT !.partial = Append(@, frame)]
  ELSE [q EXCEPT !.written = @ \o q.partial \o <<frame>>, !.partial = <<>>]

YUnwrite(q) == [q EXCEPT !.partial = <<>>]

(* flush() returns false, and the writer has to wake the reader, if ...    *)
MustWake(q) == q.written # <<>> /\ q.asleep

YFlush(q) == IF q.written = <<>> THEN q
             ELSE [q EXCEPT !.flushed = @ \o q.written, !.written = <<>>,
                            !.asleep = FALSE]

YRead(q)  == [q EXCEPT !.flushed = Tail(@)]
YSleep(q) == [q EXCEPT !.asleep = TRUE]
YFree(q)  == [NoQueue EXCEPT !.memory = "freed"]

------------------------------------------------------------------------------
Cmd(c, a) == [cmd |-> c, arg |-> a]

Send(e, cmds) == mbox' = [mbox EXCEPT ![e] = @ \o cmds]

SetState(e, s) == state' = [state EXCEPT ![e] = s]

Reading(e) == state[e] \in {"active", "waiting_for_delimiter"}
Mine(e)    == ypipe[inpipe[e]]      \* the queue e reads
Out(e)     == ypipe[outpipe[e]]     \* the queue e writes

(* compute_lwm(), of the high-water mark of the messages that e reads.     *)
Lwm(e) == (OutHwm[Peer(e)] + 1) \div 2

(* !check_hwm()                                                            *)
Full(e) == OutHwm[e] > 0 /\ counts[e].written - counts[e].peersRead >= OutHwm[e]

------------------------------------------------------------------------------
(* Operations of the users of end e.                                       *)

(* write() of the next frame.                                              *)
Write(e, more) ==
  /\ state[e] = "active" /\ e \notin stopped /\ ~Full(e)
  /\ sent[e] < MaxMsgs[e]
  /\ more => begun[e] + 1 < MaxFrames[e]
  /\ ypipe' = [ypipe EXCEPT ![outpipe[e]] =
                 YWrite(@, [msg |-> sent[e] + 1, part |-> begun[e] + 1,
                            more |-> more])]
  /\ begun' = [begun EXCEPT ![e] = IF more THEN @ + 1 ELSE 0]
  /\ IF more THEN UNCHANGED <<counts, sent>>
     ELSE /\ counts' = [counts EXCEPT ![e].written = @ + 1]
          /\ sent' = [sent EXCEPT ![e] = @ + 1]
  /\ UNCHANGED <<state, delay, inactive, stopped, inpipe, outpipe, mbox, got,
                 asked, drained>>

(* check_write() finds the pipe full.                                      *)
WriteFull(e) ==
  /\ state[e] = "active" /\ e \notin stopped /\ Full(e)
  /\ stopped' = stopped \cup {e}
  /\ UNCHANGED <<state, delay, inactive, inpipe, outpipe, counts, ypipe, mbox,
                 hist>>

(* flush()                                                                 *)
Flush(e) ==
  /\ state[e] \notin {"term_ack_sent", "freed"} /\ outpipe[e] # None
  /\ Out(e).written # <<>>
  /\ ypipe' = [ypipe EXCEPT ![outpipe[e]] = YFlush(@)]
  /\ Send(Peer(e), IF MustWake(Out(e)) THEN <<Cmd("activate_read", 0)>>
                                       ELSE <<>>)
  /\ UNCHANGED <<ends, hist>>

(* rollback(): the user gives up the rest of the message too.              *)
Rollback(e) ==
  /\ state[e] # "freed" /\ outpipe[e] # None /\ begun[e] # 0
  /\ ypipe' = [ypipe EXCEPT ![outpipe[e]] = YUnwrite(@)]
  /\ begun' = [begun EXCEPT ![e] = 0]
  /\ UNCHANGED <<ends, mbox, sent, got, asked, drained>>

(* process_delimiter(): everything is read.  If the peer's request is here *)
(* it is acknowledged, otherwise it is on its way.                         *)
ProcessDelimiter(e) ==
  /\ drained' = drained \cup {e}
  /\ IF state[e] = "active"
       THEN SetState(e, "delimiter_received") /\ UNCHANGED <<outpipe, mbox>>
       ELSE /\ SetState(e, "term_ack_sent")
            /\ outpipe' = [outpipe EXCEPT ![e] = None]
            /\ Send(Peer(e), <<Cmd("pipe_term_ack", 0)>>)
  /\ UNCHANGED <<delay, inactive, stopped, inpipe, counts, sent, begun, got, asked>>

(* read() or check_read() of an empty queue, ...                           *)
ReadNothing(e) ==
  /\ Reading(e) /\ e \notin inactive /\ Mine(e).flushed = <<>>
  /\ inactive' = inactive \cup {e}
  /\ ypipe' = [ypipe EXCEPT ![inpipe[e]] = YSleep(@)]
  /\ UNCHANGED <<state, delay, stopped, inpipe, outpipe, counts, mbox, hist>>

(* ... of the delimiter, ...                                               *)
ReadDelimiter(e) ==
  /\ Reading(e) /\ e \notin inactive
  /\ Mine(e).flushed # <<>> /\ Head(Mine(e).flushed) = Delimiter
  /\ ypipe' = [ypipe EXCEPT ![inpipe[e]] = YRead(@)]
  /\ ProcessDelimiter(e)

(* Bug: the writer is told at the low-water mark only once.                *)
ReadFrameAtLwm(e) ==
  /\ Reading(e) /\ e \notin inactive
  /\ Mine(e).flushed # <<>> /\ Head(Mine(e).flushed) # Delimiter
  /\ LET f == Head(Mine(e).flushed)
         n == counts[e].read + IF f.more THEN 0 ELSE 1
     IN  /\ counts' = [counts EXCEPT ![e].read = n]
         /\ Send(Peer(e), IF n = Lwm(e) THEN <<Cmd("activate_write", n)>>
                          ELSE <<>>)
         /\ got' = [got EXCEPT ![e] = Append(@, f)]
  /\ ypipe' = [ypipe EXCEPT ![inpipe[e]] = YRead(@)]
  /\ UNCHANGED <<state, delay, inactive, stopped, inpipe, outpipe, sent,
                 begun, asked, drained>>

(* ... and of a frame: the writer is told whenever the number of messages  *)
(* read is a multiple of the low-water mark.                               *)
ReadFrame(e) ==
  /\ Reading(e) /\ e \notin inactive
  /\ Mine(e).flushed # <<>> /\ Head(Mine(e).flushed) # Delimiter
  /\ LET f == Head(Mine(e).flushed)
         n == counts[e].read + IF f.more THEN 0 ELSE 1
     IN  /\ counts' = [counts EXCEPT ![e].read = n]
         /\ Send(Peer(e), IF Lwm(e) > 0 /\ n % Lwm(e) = 0
                          THEN <<Cmd("activate_write", n)>> ELSE <<>>)
         /\ got' = [got EXCEPT ![e] = Append(@, f)]
  /\ ypipe' = [ypipe EXCEPT ![inpipe[e]] = YRead(@)]
  /\ UNCHANGED <<state, delay, inactive, stopped, inpipe, outpipe, sent,
                 begun, asked, drained>>

(* The end of terminate(): drop an unfinished message, write the delimiter *)
(* and flush.                                                              *)
LastWords(e) == YFlush(YWrite(YUnwrite(Out(e)), Delimiter))

(* Bug: the delimiter is written but the reader is not woken up.           *)
TerminateSilently(e, wait) ==
  /\ state[e] \in {"active", "delimiter_received"}
  /\ delay' = IF wait THEN delay \cup {e} ELSE delay \ {e}
  /\ asked' = asked \cup {e}
  /\ SetState(e, "term_req_sent1")
  /\ stopped' = stopped \cup {e}
  /\ ypipe' = [ypipe EXCEPT ![outpipe[e]] = LastWords(e)]
  /\ Send(Peer(e), <<Cmd("pipe_term", 0)>>)
  /\ UNCHANGED <<inactive, inpipe, outpipe, counts, sent, begun, got, drained>>

(* terminate(): the states in which the end has already asked or agreed;   *)
(* in the others it asks, or gives up the messages it was waiting for.     *)
(* Only the first call of a user may ask to wait.                          *)
Terminate(e, wait) ==
  /\ state[e] # "freed" /\ (wait => e \notin asked)
  /\ delay' = IF wait THEN delay \cup {e} ELSE delay \ {e}
  /\ asked' = asked \cup {e}
  /\ \/ /\ state[e] \in {"term_req_sent1", "term_req_sent2", "term_ack_sent"}
        /\ UNCHANGED <<state, outpipe, stopped, ypipe, mbox>>
     \/ /\ state[e] \in {"active", "delimiter_received"}
        /\ SetState(e, "term_req_sent1")
        /\ stopped' = stopped \cup {e}
        /\ ypipe' = [ypipe EXCEPT ![outpipe[e]] = LastWords(e)]
        /\ Send(Peer(e), <<Cmd("pipe_term", 0)>> \o
                         IF Out(e).asleep THEN <<Cmd("activate_read", 0)>>
                                          ELSE <<>>)
        /\ UNCHANGED outpipe
     \/ /\ state[e] = "waiting_for_delimiter" /\ ~wait
        /\ SetState(e, "term_ack_sent")
        /\ stopped' = stopped \cup {e}
        /\ outpipe' = [outpipe EXCEPT ![e] = None]
        /\ Send(Peer(e), <<Cmd("pipe_term_ack", 0)>>)
        /\ UNCHANGED ypipe
     \/ /\ state[e] = "waiting_for_delimiter" /\ wait
        /\ stopped' = stopped \cup {e}
        /\ ypipe' = [ypipe EXCEPT ![outpipe[e]] = LastWords(e)]
        /\ Send(Peer(e), IF Out(e).asleep THEN <<Cmd("activate_read", 0)>>
                                          ELSE <<>>)
        /\ UNCHANGED <<state, outpipe>>
  /\ UNCHANGED <<inactive, inpipe, counts, sent, begun, got, drained>>

(* hiccup(): only sessions do it.  The old queue is now the peer's.        *)
Hiccup(e) ==
  /\ e = "session" /\ state[e] = "active" /\ inpipe[e][2] < MaxHiccups
  /\ LET new == <<e, inpipe[e][2] + 1>>
     IN  /\ ypipe' = [ypipe EXCEPT ![new] = NewQueue]
         /\ inpipe' = [inpipe EXCEPT ![e] = new]
         /\ Send(Peer(e), <<Cmd("hiccup", new)>>)
  /\ inactive' = inactive \ {e}
  /\ UNCHANGED <<state, delay, stopped, outpipe, counts, hist>>

------------------------------------------------------------------------------
(* Commands to end e.                                                      *)

Arrives(e, c) == mbox[e] # <<>> /\ Head(mbox[e]).cmd = c
Arg(e)        == Head(mbox[e]).arg
Rest(e)       == [mbox EXCEPT ![e] = Tail(@)]
RestAnd(e, c) == [mbox EXCEPT ![e] = Tail(@), ![Peer(e)] = Append(@, c)]

ProcessActivateRead(e) ==
  /\ Arrives(e, "activate_read")
  /\ mbox' = Rest(e)
  /\ inactive' = IF Reading(e) THEN inactive \ {e} ELSE inactive
  /\ UNCHANGED <<state, delay, stopped, inpipe, outpipe, counts, ypipe, hist>>

ProcessActivateWrite(e) ==
  /\ Arrives(e, "activate_write")
  /\ mbox' = Rest(e)
  /\ counts' = [counts EXCEPT ![e].peersRead = Arg(e)]
  /\ stopped' = IF state[e] = "active" THEN stopped \ {e} ELSE stopped
  /\ UNCHANGED <<state, delay, inactive, inpipe, outpipe, ypipe, hist>>

(* Whole messages in a sequence of frames.                                 *)
Whole(frames) == Cardinality({k \in DOMAIN frames : ~frames[k].more})

(* The old queue is emptied and freed, the new one plugged in.  The        *)
(* delimiter, if it was there, is thrown away too (and counted).           *)
ProcessHiccup(e) ==
  /\ Arrives(e, "hiccup")
  /\ mbox' = Rest(e)
  /\ LET q == YFlush(Out(e))
     IN  counts' = [counts EXCEPT ![e].written = @ - Whole(q.flushed)]
  /\ ypipe' = [ypipe EXCEPT ![outpipe[e]] = YFree(@)]
  /\ outpipe' = [outpipe EXCEPT ![e] = Arg(e)]
  /\ stopped' = stopped \ {e}
  /\ UNCHANGED <<state, delay, inactive, inpipe, hist>>

(* Bug: pending messages are dropped, whatever delay says.                 *)
ProcessPipeTermAtOnce(e) ==
  /\ Arrives(e, "pipe_term")
  /\ SetState(e, IF state[e] = "term_req_sent1" THEN "term_req_sent2"
                                                ELSE "term_ack_sent")
  /\ outpipe' = [outpipe EXCEPT ![e] = None]
  /\ mbox' = RestAnd(e, Cmd("pipe_term_ack", 0))
  /\ UNCHANGED <<delay, inactive, stopped, inpipe, counts, ypipe, hist>>

(* Bug: the queue that the peer is going to deallocate is not forgotten.   *)
ProcessPipeTermKeeps(e) ==
  /\ Arrives(e, "pipe_term")
  /\ IF state[e] = "active" /\ e \in delay
       THEN SetState(e, "waiting_for_delimiter") /\ mbox' = Rest(e)
       ELSE /\ SetState(e, IF state[e] = "term_req_sent1" THEN "term_req_sent2"
                                                          ELSE "term_ack_sent")
            /\ mbox' = RestAnd(e, Cmd("pipe_term_ack", 0))
  /\ UNCHANGED <<delay, inactive, stopped, inpipe, outpipe, counts, ypipe, hist>>

(* process_pipe_term(): the peer asks to terminate.                        *)
ProcessPipeTerm(e) ==
  /\ Arrives(e, "pipe_term")
  /\ IF state[e] = "active" /\ e \in delay
       THEN /\ SetState(e, "waiting_for_delimiter")
            /\ mbox' = Rest(e)
            /\ UNCHANGED outpipe
       ELSE /\ SetState(e, IF state[e] = "term_req_sent1" THEN "term_req_sent2"
                                                          ELSE "term_ack_sent")
            /\ outpipe' = [outpipe EXCEPT ![e] = None]
            /\ mbox' = RestAnd(e, Cmd("pipe_term_ack", 0))
  /\ UNCHANGED <<delay, inactive, stopped, inpipe, counts, ypipe, hist>>

(* process_pipe_term_ack(): the end and the queue it reads are deallocated.*)
ProcessPipeTermAck(e) ==
  /\ Arrives(e, "pipe_term_ack")
  /\ SetState(e, "freed")
  /\ IF state[e] = "term_req_sent1"
       THEN mbox' = RestAnd(e, Cmd("pipe_term_ack", 0)) ELSE mbox' = Rest(e)
  /\ outpipe' = [outpipe EXCEPT ![e] = None]
  /\ ypipe' = [ypipe EXCEPT ![inpipe[e]] = YFree(@)]
  /\ inpipe' = [inpipe EXCEPT ![e] = None]
  /\ UNCHANGED <<delay, inactive, stopped, counts, hist>>

Process(e) == \/ ProcessActivateRead(e) \/ ProcessActivateWrite(e)
              \/ ProcessHiccup(e)
              \/ ProcessPipeTerm(e) \/ ProcessPipeTermAck(e)

Read(e) == ReadNothing(e) \/ ReadDelimiter(e) \/ ReadFrame(e)

------------------------------------------------------------------------------
Queues == {<<"socket", 0>>} \cup ({"session"} \X (0 .. MaxHiccups))

(* pipepair(), after which some users call set_nodelay() for their end.    *)
PipeInit ==
  /\ state = [e \in Ends |-> "active"]
  /\ asked \in SUBSET Ends /\ delay = Ends \ asked
  /\ inactive = {} /\ stopped = {}
  /\ inpipe = [e \in Ends |-> <<e, 0>>]
  /\ outpipe = [e \in Ends |-> <<Peer(e), 0>>]
  /\ ypipe = [q \in Queues |-> IF q[2] = 0 THEN NewQueue ELSE NoQueue]
  /\ counts = [e \in Ends |-> [read |-> 0, written |-> 0, peersRead |-> 0]]
  /\ mbox = [e \in Ends |-> <<>>]
  /\ sent = [e \in Ends |-> 0] /\ begun = [e \in Ends |-> 0]
  /\ got = [e \in Ends |-> <<>>]
  /\ drained = {}

Use(e) == \/ \E more \in BOOLEAN : Write(e, more)
          \/ WriteFull(e) \/ Flush(e) \/ Rollback(e)
          \/ \E wait \in BOOLEAN : Terminate(e, wait)
          \/ Hiccup(e)

PipeNext == \E e \in Ends : Use(e) \/ Read(e) \/ Process(e)

PipeSpec == PipeInit /\ [][PipeNext]_pvars

(* The threads of both ends process commands, and read what there is.      *)
FairPipeSpec == PipeSpec /\ \A e \in Ends : WF_pvars(Process(e)) /\ WF_pvars(Read(e))

------------------------------------------------------------------------------
(* Properties.                                                             *)

States == {"active", "delimiter_received", "waiting_for_delimiter",
           "term_ack_sent", "term_req_sent1", "term_req_sent2", "freed"}

(* Every variable has its type: the type invariant of this module.         *)
PipeTypeOK ==
  /\ state \in [Ends -> States]
  /\ delay \subseteq Ends /\ inactive \subseteq Ends /\ stopped \subseteq Ends
  /\ asked \subseteq Ends /\ drained \subseteq Ends
  /\ \A e \in Ends : /\ inpipe[e] \in Queues \cup {None}
                     /\ outpipe[e] \in Queues \cup {None}
                     /\ counts[e].read \in Nat /\ counts[e].peersRead \in Nat
                     /\ sent[e] \in 0 .. MaxMsgs[e]
                     /\ begun[e] \in 0 .. MaxFrames[e]

(* The assertions of pipe.cpp: however terminations and hiccups of the two *)
(* ends cross, a command finds its end in a state that expects it, and     *)
(* never deallocated.                                                      *)
Expects(e, c) ==
  CASE c = "hiccup"        -> outpipe[e] # None
    [] c = "pipe_term"     -> state[e] \in {"active", "delimiter_received",
                                            "term_req_sent1"}
    [] c = "pipe_term_ack" -> state[e] \in {"term_ack_sent", "term_req_sent1",
                                            "term_req_sent2"}
    [] OTHER               -> state[e] # "freed"
InTurn == \A e \in Ends : mbox[e] # <<>> => Expects(e, Head(mbox[e]).cmd)

(* A queue is deallocated by exactly one of its two users: never while the *)
(* other may still touch it, and always by the time both ends are gone.    *)
NoDangling ==
  /\ \A e \in Ends : /\ inpipe[e] # None => Mine(e).memory = "live"
                     /\ outpipe[e] # None => Out(e).memory = "live"
  /\ (\A e \in Ends : state[e] = "freed") =>
       \A q \in Queues : ypipe[q].memory # "live"

(* The state of a pipe is sound: both of the above.                        *)
SoundPipe == PipeTypeOK /\ InTurn /\ NoDangling

(* A writer that was stopped by a full pipe will be told to go on: there   *)
(* is a command on its way, or the pipe holds enough messages for the      *)
(* reader to come to a multiple of the low-water mark.                     *)
WillResume(e) ==
  LET r == Peer(e) IN
  \/ \E k \in DOMAIN mbox[e] : mbox[e][k].cmd \in {"activate_write", "hiccup"}
  \/ \E n \in counts[r].read + 1 .. counts[e].written : n % Lwm(r) = 0
StoppedResumes ==
  \A e \in Ends : e \in stopped /\ state[e] = "active" /\ Reading(Peer(e))
                   => WillResume(e)

(* The frames of each direction, as the reader may still get them: without *)
(* the delimiter, after which nothing is written.                          *)
Undelimited(frames) ==
  IF frames # <<>> /\ frames[Len(frames)] = Delimiter
    THEN SubSeq(frames, 1, Len(frames) - 1) ELSE frames
UnderWay(r) == IF Reading(r) THEN Undelimited(Mine(r).flushed \o Mine(r).written)
                             ELSE <<>>
FramesOf(n) == {[l \in 1 .. k |-> [msg |-> n, part |-> l, more |-> l < k]] :
                  k \in 1 .. MaxFrames["socket"] + MaxFrames["session"]}

(* A hiccup has thrown away the first frames of the message that e is      *)
(* writing: process_hiccup() does not tell the user, who writes the rest.  *)
Torn(e) == state[e] = "active" /\ begun[e] > Len(Out(e).partial)

(* Each direction implements Channel: whatever the threads do, frames      *)
(* arrive in order and in whole messages, and what was written before      *)
(* terminate() is lost only to a reader that was itself told to terminate. *)
(* Two messages alone are not whole: that in the middle of which the       *)
(* reader itself makes a hiccup loses its end, and that in the middle of   *)
(* which the writer notices the hiccup, and goes on, loses its beginning.  *)
Direction(r) == INSTANCE Channel WITH
  Messages <- FramesOf,
  sent     <- sent[Peer(r)],
  queue    <- UnderWay(r),
  got      <- got[r],
  writer   <- IF state[Peer(r)] = "active" THEN "open" ELSE "closed",
  reader   <- IF Reading(r) THEN "reading"
              ELSE IF r \in drained THEN "drained" ELSE "left",
  asked    <- IF r \in asked THEN "yes" ELSE "no",
  link     <- IF Reading(r) /\ outpipe[Peer(r)] # inpipe[r] THEN "cut" ELSE "up",
  torn     <- IF Torn(Peer(r)) THEN "yes" ELSE "no"
ImplementsChannel == /\ \A r \in Ends : Direction(r)!Init
                     /\ [][\A r \in Ends : [Direction(r)!Next]_(Direction(r)!vars)]_pvars

(* A hiccup has thrown the delimiter away: it had crossed the request to   *)
(* terminate, and the session waits for a delimiter that does not come     *)
(* until its owner tells it not to wait.                                   *)
DelimiterLost ==
  /\ state["session"] = "waiting_for_delimiter"
  /\ inpipe["session"][2] > 0

(* Once one end has asked the other, both are deallocated, if the reader   *)
(* goes on reading.                                                        *)
Terminates ==
  (\E e \in Ends : state[e] = "term_req_sent1")
    ~> (\A e \in Ends : state[e] = "freed") \/ DelimiterLost
=============================================================================
