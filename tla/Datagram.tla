------------------------------ MODULE Datagram ------------------------------
(***************************************************************************)
(* Messages in groups and datagrams: a RADIO and a DISH socket over UDP or *)
(* TCP, or two DGRAM sockets over UDP, with the sessions that split and    *)
(* join the frames and the engine that has no codec (udp_engine.cpp,       *)
(* dgram.cpp, and the sessions of radio.cpp and dish.cpp).  A pipe is      *)
(* known by its frames; the network of UDP loses, repeats and reorders.    *)
(***************************************************************************)
EXTENDS Integers, Sequences, FiniteSets

CONSTANTS
  Links,        \* of "radio udp", "radio tcp", "dgram udp"
  Hwm,          \* of both pipes, in messages
  NetMax,       \* datagrams or frames that the network holds
  MaxMsgs,      \* messages that are sent
  MaxCommands   \* groups that are joined and left

VARIABLES
  link,
  tx,           \* the sending socket, its pipe, session and engine
  net,          \* what is under way
  rx,           \* the receiving engine, session, pipe and socket
  last,         \* the frame that the receiving user took last
  joins         \* JOIN and LEAVE: what DISH has sent, what is in its pipe and
                \* under way, and what RADIO has heard
datagramvars == <<link, tx, net, rx, last, joins>>

Udp == link # "radio tcp"
Dgram == link = "dgram udp"
Frame(k, n) == [k |-> k, n |-> n, g |-> 0]
Message(n, g) == [k |-> "message", n |-> n, g |-> g]
Closed == Frame("closed", 0)
NoFrame == Frame("none", 0)
Ends(f) == f.k # "address"
Messages(frames) == Cardinality({i \in DOMAIN frames : Ends(frames[i])})

-----------------------------------------------------------------------------
(* The sender's pipe.  A full one takes no frame and remembers it.  A      *)
(* flush wakes a reader that has found nothing.                            *)
WritePipe(x, f) ==
  IF ~x.out_active \/ Messages(x.frames) + Messages(x.buf) >= Hwm
    THEN [x EXCEPT !.out_active = FALSE, !.rc = "again"]
    ELSE [x EXCEPT !.buf = Append(@, f), !.rc = "ok"]
FlushPipe(x) ==
  [x EXCEPT !.frames = @ \o x.buf, !.buf = <<>>,
            !.told = @ \/ (x.asleep /\ x.buf # <<>>), !.asleep = @ /\ x.buf = <<>>]
(* pull_msg() of the session.  The socket learns of the room at once.      *)
PullPipe(x) ==
  IF x.frames = <<>> THEN [x EXCEPT !.asleep = TRUE, !.pulled = NoFrame]
  ELSE [x EXCEPT !.frames = Tail(@), !.pulled = Head(x.frames), !.out_active = TRUE]

(* dgram_t::xsend(): a message is an address and a body.  The turn of the  *)
(* frame has changed when the pipe is full, and the frame that is sent     *)
(* again is refused as one too many.                                       *)
DgramSend(x, f) ==
  IF (f.k = "address") # ~x.more_out THEN [x EXCEPT !.rc = "invalid"]
  ELSE LET y == WritePipe([x EXCEPT !.more_out = ~@], f)
       IN  IF y.rc = "ok" /\ f.k = "body" THEN FlushPipe(y) ELSE y
RadioSend(x, n) ==
  LET y == WritePipe(x, Message(n, n)) IN IF y.rc = "ok" THEN FlushPipe(y) ELSE y

(* The user of DGRAM goes on with the body when the address was taken, and *)
(* tries the frame again otherwise.  Not every address is one.             *)
Good == 0
Bad == 1
AppSend ==
  /\ tx.n <= MaxMsgs /\ joins.sent = <<>>
  /\ \E a \in IF Dgram /\ tx.part = "address" THEN {Good, Bad} ELSE {Good} :
     LET y == IF Dgram THEN DgramSend(tx, [Frame(tx.part, tx.n) EXCEPT !.g = a])
              ELSE RadioSend(tx, tx.n)
     IN  tx' = CASE ~Dgram -> [y EXCEPT !.n = @ + 1]
                 [] Dgram /\ y.rc # "ok" -> [y EXCEPT !.choked = TRUE]
                 [] Dgram /\ y.rc = "ok" /\ tx.part = "address" -> [y EXCEPT !.part = "body"]
                 [] OTHER -> [y EXCEPT !.part = "address", !.n = @ + 1]
  /\ UNCHANGED <<link, net, rx, last, joins>>

-----------------------------------------------------------------------------
(* radio_session_t::pull_msg(): the group, then the body of the message.   *)
RadioPull(x) ==
  IF x.state = "body" THEN [x EXCEPT !.state = "group", !.pulled = [x.pending EXCEPT !.k = "body"]]
  ELSE LET y == PullPipe(x)
       IN  IF y.pulled = NoFrame THEN y
           ELSE [y EXCEPT !.pending = y.pulled, !.state = "body",
                          !.pulled = Frame("group", y.pulled.g)]
Pull(x) == IF Dgram THEN PullPipe(x) ELSE RadioPull(x)

(* udp_engine_t::out_event(): two frames make a datagram, unless the first *)
(* is no address (resolve_raw_address()).  The second is not looked for: a *)
(* missing one would be read uninitialised.                                *)
OutEvent(x) ==
  LET first == Pull(x)
      second == Pull(first)
  IN  IF first.pulled = NoFrame THEN [first EXCEPT !.pollout = FALSE, !.datagram = <<>>]
      ELSE IF second.pulled = NoFrame THEN [second EXCEPT !.life = "undefined", !.datagram = <<>>]
      ELSE IF Dgram /\ first.pulled.g = Bad THEN [second EXCEPT !.datagram = <<>>]
      ELSE [second EXCEPT !.datagram = <<first.pulled, second.pulled>>]
(* The encoder of a stream takes one frame after the other.                *)
StreamOut(x) ==
  LET y == Pull(x)
  IN  IF y.pulled = NoFrame THEN [y EXCEPT !.pollout = FALSE, !.datagram = <<>>]
      ELSE [y EXCEPT !.datagram = <<y.pulled>>]
Sends(x) ==
  LET y == IF Udp THEN OutEvent(x) ELSE StreamOut(x)
  IN  /\ tx' = y
      /\ net' = IF y.datagram = <<>> THEN net ELSE Append(net, y.datagram)
EngineOut ==
  /\ tx.life = "open" /\ tx.pollout /\ Len(net) < NetMax
  /\ Sends(tx) /\ UNCHANGED <<link, rx, last, joins>>
(* restart_output() of an engine that sends.                               *)
RestartOutput ==
  /\ tx.life = "open" /\ tx.told /\ Len(net) < NetMax
  /\ Sends([tx EXCEPT !.told = FALSE, !.pollout = TRUE])
  /\ UNCHANGED <<link, rx, last, joins>>

Without(s, i) == SubSeq(s, 1, i - 1) \o SubSeq(s, i + 1, Len(s))
(* A datagram that is lost, or that does not fit and is ignored.           *)
Lose(i) == /\ Udp /\ net' = Without(net, i) /\ UNCHANGED <<link, tx, rx, last, joins>>
Repeat(i) == /\ Udp /\ Len(net) < NetMax /\ net' = Append(net, net[i])
             /\ UNCHANGED <<link, tx, rx, last, joins>>

-----------------------------------------------------------------------------
(* session_base_t::push_msg(), and what the receiver's pipe counts.        *)
Full(x) == Messages(x.frames) + Messages(x.buf) + x.untold >= Hwm
Push(x, f) ==
  IF ~x.out_active \/ Full(x) THEN [x EXCEPT !.out_active = FALSE, !.rc = "again"]
  ELSE [x EXCEPT !.buf = Append(@, f), !.rc = "ok"]
Flush(x) == [x EXCEPT !.frames = @ \o x.buf, !.buf = <<>>]

(* dish_session_t::push_msg(): the group is kept for the body and gone     *)
(* when the body finds the pipe full; it is then read from a message that  *)
(* has been closed, which ends the program.                                *)
DishPush(x, f) ==
  IF x.state = "group"
    THEN IF f.k # "group" THEN [x EXCEPT !.rc = "fault"]
         ELSE [x EXCEPT !.group = f, !.state = "body", !.rc = "ok"]
  ELSE IF x.group = Closed THEN [x EXCEPT !.life = "aborted"]
  ELSE LET y == Push([x EXCEPT !.group = Closed], Message(f.n, x.group.n))
       IN  IF y.rc = "ok" THEN [y EXCEPT !.state = "group"] ELSE y

(* udp_engine_t::in_event(): a pipe that is full is noticed with the first *)
(* frame, and asserted not to be with the second.                          *)
DatagramIn(x, d) ==
  LET first == IF Dgram THEN Push(x, d[1]) ELSE DishPush(x, d[1])
      second == IF Dgram THEN Push(first, d[2]) ELSE DishPush(first, d[2])
  IN  IF first.rc = "again" THEN [first EXCEPT !.pollin = FALSE]
      ELSE IF second.rc # "ok" THEN [second EXCEPT !.life = "aborted"]
      ELSE Flush(second)
(* The engine of a stream keeps the frame and stops.                       *)
StreamIn(x, f) ==
  LET y == DishPush(x, f)
  IN  IF y.rc # "ok" THEN [y EXCEPT !.pollin = FALSE, !.held = f]
      ELSE [Flush(y) EXCEPT !.held = NoFrame]

EngineIn(i) ==
  /\ rx.life = "open" /\ rx.pollin /\ (Udp \/ i = 1)
  /\ rx' = IF Udp THEN DatagramIn(rx, net[i]) ELSE StreamIn(rx, net[i][1])
  /\ net' = Without(net, i)
  /\ UNCHANGED <<link, tx, last, joins>>
(* process_activate_write(), and restart_input() if the writer had been    *)
(* stopped: that of UDP goes on with what comes next.                      *)
ActivateWrite ==
  /\ rx.life = "open" /\ rx.untold > 0
  /\ LET y == [rx EXCEPT !.untold = 0, !.out_active = TRUE]
     IN  rx' = IF rx.out_active THEN y
               ELSE IF y.held # NoFrame THEN StreamIn([y EXCEPT !.pollin = TRUE], y.held)
               ELSE [y EXCEPT !.pollin = TRUE]
  /\ UNCHANGED <<link, tx, net, last, joins>>

(* A message that is received is told to the writer.                       *)
AppRecv ==
  /\ rx.frames # <<>>
  /\ rx' = [rx EXCEPT !.frames = Tail(@), !.untold = @ + IF Ends(Head(rx.frames)) THEN 1 ELSE 0]
  /\ last' = Head(rx.frames)
  /\ UNCHANGED <<link, tx, net, joins>>

-----------------------------------------------------------------------------
(* JOIN and LEAVE.  The session of DISH makes commands of them, which a    *)
(* stream carries and an engine that only receives drops; the session of   *)
(* RADIO makes messages of those it knows.                                 *)
DishPull(m) == [k |-> "command", of |-> m.k, g |-> m.g]
RadioPush(c) == [k |-> c.of, g |-> c.g]
SendSubscription ==
  /\ ~Dgram /\ Len(joins.sent) < MaxCommands /\ tx.n = 1
  /\ \E k \in {"join", "leave"}, g \in 1 .. 2 :
       joins' = [joins EXCEPT !.sent = Append(@, [k |-> k, g |-> g]),
                            !.pipe = Append(@, [k |-> k, g |-> g])]
  /\ UNCHANGED <<link, tx, net, rx, last>>
CommandOut ==
  /\ joins.pipe # <<>>
  /\ joins' = [joins EXCEPT !.pipe = Tail(@),
                          !.net = IF Udp THEN @ ELSE Append(@, DishPull(Head(joins.pipe)))]
  /\ UNCHANGED <<link, tx, net, rx, last>>
CommandIn ==
  /\ joins.net # <<>>
  /\ joins' = [joins EXCEPT !.net = Tail(@), !.heard = Append(@, RadioPush(Head(joins.net)))]
  /\ UNCHANGED <<link, tx, net, rx, last>>

-----------------------------------------------------------------------------
DatagramInit ==
  /\ link \in Links
  /\ tx = [life |-> "open", pollout |-> TRUE, state |-> "group", pending |-> NoFrame,
           pulled |-> NoFrame, datagram |-> <<>>, more_out |-> FALSE, part |-> "address",
           n |-> 1, rc |-> "ok", choked |-> FALSE, out_active |-> TRUE, buf |-> <<>>,
           frames |-> <<>>, asleep |-> FALSE, told |-> FALSE]
  /\ rx = [life |-> "open", pollin |-> TRUE, state |-> "group", group |-> NoFrame, rc |-> "ok",
           held |-> NoFrame, out_active |-> TRUE, buf |-> <<>>, frames |-> <<>>, untold |-> 0]
  /\ net = <<>> /\ last = NoFrame
  /\ joins = [sent |-> <<>>, pipe |-> <<>>, net |-> <<>>, heard |-> <<>>]
DatagramNext ==
  \/ AppSend \/ EngineOut \/ RestartOutput \/ ActivateWrite \/ AppRecv
  \/ \E i \in DOMAIN net : Lose(i) \/ Repeat(i) \/ EngineIn(i)
  \/ SendSubscription \/ CommandOut \/ CommandIn
DatagramSpec == DatagramInit /\ [][DatagramNext]_datagramvars

-----------------------------------------------------------------------------
(* Properties.                                                             *)

(* A message that is received is one that was sent, with its own group or  *)
(* behind its own address, whatever UDP loses, repeats and reorders, and   *)
(* in order and once over TCP; so are JOIN and LEAVE                       *)
(* (dish_session_t::push_msg, udp_engine_t::in_event).                     *)
Arrived == <<last>> \o rx.frames \o rx.buf
GroupsFit ==
  /\ \A i \in 2 .. Len(Arrived) :
       LET f == Arrived[i]
           before == Arrived[i - 1]
       IN  /\ ~Dgram => f.k = "message" /\ f.n = f.g
           /\ ~Udp => before.n < f.n
           /\ Dgram => IF f.k = "body" THEN before.k = "address" /\ before.n = f.n
                       ELSE before.k # "address"
  /\ ~Udp => joins.heard = SubSeq(joins.sent, 1, Len(joins.heard))

(* A sender with a message in its pipe is polled for, or about to be; a    *)
(* receiver that has stopped has a reason to: the pipe is full, or room in *)
(* it has not been told of yet (reset_pollout(), reset_pollin(),           *)
(* restart_output(), restart_input()).                                     *)
NoneForgotten ==
  /\ tx.life = "open" /\ tx.frames # <<>> => tx.pollout \/ tx.told
  /\ rx.life = "open" /\ ~rx.pollin => Full(rx) \/ rx.untold > 0

(* A DGRAM socket whose pipe has not been full expects the frame that its  *)
(* user sends next (dgram_t::xsend).  After a full pipe it refuses every   *)
(* address until it gets a body alone.                                     *)
SendsInTurn == Dgram /\ ~tx.choked => (tx.more_out <=> tx.part = "body")

(* The assertions of the engine and of the session fail only for a DISH    *)
(* whose pipe is or was full, and the second frame of a datagram is never  *)
(* missing (udp_engine_t::in_event, dish_session_t::push_msg).             *)
OnlyDishAborts ==
  /\ tx.life = "open"
  /\ rx.life = "aborted" => ~Dgram /\ rx.group = Closed /\ rx.rc = "again"
=============================================================================
