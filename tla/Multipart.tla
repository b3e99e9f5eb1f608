----------------------------- MODULE Multipart ------------------------------
(***************************************************************************)
(* zmq.send.multipart() and zmq.recv.multipart()                           *)
(* (R/R_zmq_sendrecv_multipart.r) over a bound PUSH socket and a PULL      *)
(* socket that connects to it, with the part of libzmq that keeps the      *)
(* parts of a message together (lb.cpp, fq.cpp, pipe.cpp, ypipe.hpp) while *)
(* connections are lost and made again.  Call k of the sender sends list   *)
(* k; the receiver calls again and again.                                  *)
(***************************************************************************)
EXTENDS Integers, FiniteSets, SequencesExt

CONSTANTS
  Workloads,   \* what the sender may be given: sequences of lists
  Hwm,         \* messages the pipe holds before a send blocks
  MaxBreaks,   \* bound on the number of broken connections
  MaxInterrupts   \* bound on the number of interrupted sends

ASSUME MultipartAssumption ==
  /\ Workloads \subseteq Seq(Seq({"NULL", "value"}))
  /\ Hwm \in Nat \ {0} /\ MaxBreaks \in Nat /\ MaxInterrupts \in Nat

VARIABLES
  lists,      \* lists[k][i]: whether part i of list k is "NULL" or a "value"
  call,       \* number of the sender's current or next call
  step,       \* its next zmq.msg.send(); 0 between two calls
  pipe,       \* the sender's pipe: "active", "closing" or "none"
  unflushed,  \* frames written to it and not flushed
  more,       \* lb_t::more: "yes" in the middle of a message
  dropping,   \* lb_t::dropping: "yes" while the rest of one is thrown away
  wire,       \* frames flushed and not read by the receiver
  rcvmore,    \* ZMQ_RCVMORE of the receiver's socket: 0 or 1
  ipart,      \* i.part; 0 between two calls
  ret,        \* the list the receiver's call is building
  got,        \* the lists its calls have returned
  breaks, interrupts,
  mishaps     \* what has kept a message from being sent whole

svars == <<lists, call, step, more, dropping, unflushed>>
rvars == <<rcvmore, ipart, ret, got>>
multivars == <<svars, pipe, wire, rvars, breaks, interrupts, mishaps>>

------------------------------------------------------------------------------
(* A part is <<k, i>>, and R's NULL is the same wherever it comes from.    *)
NullPart == <<0, 0>>
Part(k, i) == IF lists[k][i] = "NULL" THEN NullPart ELSE <<k, i>>
ListOf(k)  == [i \in DOMAIN lists[k] |-> Part(k, i)]

PartFrame(p, m) == [part |-> p, more |-> m]

(* Messages in a sequence of frames.                                       *)
Ends(frames) == {n \in DOMAIN frames : frames[n].more = "no"}

------------------------------------------------------------------------------
(* The sender.                                                             *)

(* The indices of the parts sent: 1:(length(parts) - 1), which counts down *)
(* if there are fewer than two, and then length(parts).                    *)
Indices(n) == (IF n >= 2 THEN [j \in 1 .. n - 1 |-> j]
                         ELSE [j \in 1 .. 3 - n |-> 2 - j]) \o <<n>>

Schedule == Indices(Len(lists[call]))
Flag == IF step = Len(Schedule) THEN "no" ELSE "yes"

SCall == /\ step = 0 /\ call <= Len(lists)
         /\ step' = 1
         /\ UNCHANGED <<lists, call, more, dropping, unflushed, pipe, wire,
                        rvars, breaks, interrupts, mishaps>>

(* The call goes on to the next part, or returns.                          *)
NextPart == /\ IF step < Len(Schedule)
                 THEN step' = step + 1 /\ UNCHANGED call
                 ELSE step' = 0 /\ call' = call + 1
            /\ UNCHANGED lists

(* parts[[i]] with an index that does not exist is an R error.             *)
BadIndex == /\ step > 0 /\ Schedule[step] \notin DOMAIN lists[call]
            /\ step' = 0 /\ call' = call + 1
            /\ mishaps' = mishaps \cup {"subscript"}
            /\ UNCHANGED <<lists, more, dropping, unflushed, pipe, wire, rvars,
                           breaks, interrupts>>

Sends == step > 0 /\ Schedule[step] \in DOMAIN lists[call]

(* check_write()                                                           *)
Room == pipe = "active" /\ Cardinality(Ends(wire)) < Hwm

(* Bug: every part is flushed.                                             *)
FlushedEach(frames) == wire' = wire \o frames /\ unflushed' = <<>>

(* Bug: a message is flushed when the next one begins.                     *)
FlushedLate(frames) ==
  IF Last(frames).more = "yes" /\ Ends(unflushed) # {}
    THEN wire' = wire \o unflushed /\ unflushed' = <<Last(frames)>>
    ELSE unflushed' = frames /\ UNCHANGED wire

(* Incomplete messages are never flushed.                                  *)
Flushed(frames) == IF Last(frames).more = "no"
                     THEN wire' = wire \o frames /\ unflushed' = <<>>
                     ELSE unflushed' = frames /\ UNCHANGED wire

(* zmq.msg.send(): the part is written to the pipe, ...                    *)
SendPart == /\ Sends /\ dropping = "no" /\ Room
            /\ Flushed(Append(unflushed, PartFrame(Part(call, Schedule[step]), Flag)))
            /\ more' = Flag
            /\ NextPart
            /\ UNCHANGED <<dropping, pipe, rvars, breaks, interrupts, mishaps>>

(* ... or dropped, with the rest of a message whose pipe has gone.         *)
DropPart == /\ Sends /\ dropping = "yes"
            /\ more' = Flag /\ dropping' = Flag
            /\ NextPart
            /\ UNCHANGED <<unflushed, pipe, wire, rvars, breaks, interrupts,
                           mishaps>>

(* A pipe that is closing refuses the part: the parts before it are        *)
(* removed, and the blocked send tries again with a new message.           *)
Rollback == /\ Sends /\ dropping = "no" /\ pipe = "closing" /\ more = "yes"
            /\ unflushed' = <<>> /\ more' = "no"
            /\ mishaps' = mishaps \cup {"rollback"}
            /\ UNCHANGED <<lists, call, step, dropping, pipe, wire, rvars,
                           breaks, interrupts>>

(* A blocked send is interrupted: the failure is printed and forgotten.    *)
SendInterrupted == /\ Sends /\ dropping = "no" /\ ~Room
                   /\ pipe = "closing" => more = "no"
                   /\ interrupts < MaxInterrupts
                   /\ interrupts' = interrupts + 1
                   /\ mishaps' = mishaps \cup {"interrupt"}
                   /\ NextPart
                   /\ UNCHANGED <<more, dropping, unflushed, pipe, wire, rvars,
                                  breaks>>

Sender == SCall \/ BadIndex \/ SendPart \/ DropPart \/ Rollback \/ SendInterrupted

------------------------------------------------------------------------------
(* The connection.                                                         *)

(* It breaks: the sender's pipe begins to close, and complete messages     *)
(* that have not arrived are lost.                                         *)
Break == /\ pipe = "active" /\ breaks < MaxBreaks
         /\ pipe' = "closing" /\ breaks' = breaks + 1
         /\ \E n \in Ends(wire) \cup (IF rcvmore = 0 THEN {0} ELSE {}) :
              wire' = SubSeq(wire, 1, n)
         /\ UNCHANGED <<svars, rvars, interrupts, mishaps>>

(* Bug: the rest of the message is not dropped.                            *)
PipeTerminatedForgets ==
  /\ pipe = "closing" /\ pipe' = "none"
  /\ unflushed' = <<>>
  /\ UNCHANGED <<lists, call, step, more, dropping, wire, rvars, breaks,
                 interrupts, mishaps>>

(* pipe_terminated(): in the middle of a message, drop its rest.           *)
PipeTerminated ==
  /\ pipe = "closing" /\ pipe' = "none"
  /\ unflushed' = <<>>
  /\ dropping' = IF more = "yes" THEN "yes" ELSE dropping
  /\ UNCHANGED <<lists, call, step, more, wire, rvars, breaks, interrupts,
                 mishaps>>

(* The receiver has connected again.                                       *)
Attach == /\ pipe = "none" /\ pipe' = "active"
          /\ UNCHANGED <<svars, wire, rvars, breaks, interrupts, mishaps>>

------------------------------------------------------------------------------
(* The receiver.                                                           *)

(* ret[[i]] <- p: assigning NULL beyond the end of a list adds nothing,    *)
(* assigning anything else fills the gap with NULLs.                       *)
Assign(list, i, p) ==
  IF p = NullPart THEN list
  ELSE [j \in 1 .. i |-> IF j <= Len(list) THEN list[j]
                         ELSE IF j = i THEN p ELSE NullPart]

(* R_zmq_getsockopt() writes ZMQ_RCVMORE, an int, into the caller's vector. *)
RcvMore(frame) == IF frame.more = "yes" THEN 1 ELSE 0

(* zmq.getsockopt() returns that vector.                                   *)
GoesOn(opt) == opt = 1

(* zmq.msg.recv() and the ZMQ_RCVMORE that decides whether the call goes   *)
(* on.  (An interrupted receive ends the call in an R error, before it has *)
(* taken anything: nothing changes.)                                       *)
RecvPart ==
  /\ wire # <<>>
  /\ wire' = Tail(wire)
  /\ rcvmore' = RcvMore(Head(wire))
  /\ LET list == Assign(ret, ipart + 1, Head(wire).part) IN
     IF GoesOn(rcvmore') THEN ipart' = ipart + 1 /\ ret' = list /\ UNCHANGED got
     ELSE ipart' = 0 /\ ret' = <<>> /\ got' = Append(got, list)
  /\ UNCHANGED <<svars, pipe, breaks, interrupts, mishaps>>

------------------------------------------------------------------------------
MultiInit == /\ lists \in Workloads /\ call = 1 /\ step = 0 /\ more = "no" /\ dropping = "no"
             /\ unflushed = <<>> /\ wire = <<>> /\ pipe = "none"
             /\ rcvmore = 0 /\ ipart = 0 /\ ret = <<>> /\ got = <<>>
             /\ breaks = 0 /\ interrupts = 0 /\ mishaps = {}

MultiNext == Sender \/ Break \/ PipeTerminated \/ Attach \/ RecvPart

MultiSpec == MultiInit /\ [][MultiNext]_multivars

(* Both processes keep running and a lost connection is made again.        *)
FairMultiSpec == /\ MultiSpec
                 /\ WF_multivars(SCall \/ BadIndex \/ SendPart \/ DropPart \/ Rollback)
                 /\ WF_multivars(PipeTerminated) /\ WF_multivars(Attach) /\ WF_multivars(RecvPart)

------------------------------------------------------------------------------
(* Properties.                                                             *)

Frames == Seq([part : Nat \X Nat, more : {"yes", "no"}])

(* Every variable has its type: the type invariant of this module.         *)
MultiTypeOK ==
  /\ lists \in Workloads
  /\ call \in 1 .. Len(lists) + 1
  /\ step \in Nat /\ (step > 0 => call <= Len(lists) /\ step <= Len(Schedule))
  /\ pipe \in {"active", "closing", "none"}
  /\ more \in {"yes", "no"} /\ dropping \in {"yes", "no"}
  /\ unflushed \in Frames /\ wire \in Frames
  /\ rcvmore \in {0, 1} /\ ipart \in Nat
  /\ ret \in Seq(Nat \X Nat) /\ got \in Seq(Seq(Nat \X Nat))
  /\ breaks \in 0 .. MaxBreaks /\ interrupts \in 0 .. MaxInterrupts
  /\ mishaps \subseteq {"subscript", "rollback", "interrupt"}

(* zmq.recv.multipart() returns, in order, lists that zmq.send.multipart() *)
(* was given: no part is missing and none belongs to another call.  Lists  *)
(* may be lost with a connection, but only whole ones.                     *)
Whole ==
  \E f \in [DOMAIN got -> DOMAIN lists] :
    /\ \A n \in DOMAIN got : got[n] = ListOf(f[n])
    /\ \A m, n \in DOMAIN got : m < n => f[m] < f[n]

(* So it is as long as no send is interrupted, no connection breaks        *)
(* between two parts of a message in a way that rolls it back, and no list *)
(* is too short for the loop of zmq.send.multipart().                      *)
WholeBarMishaps == mishaps = {} => Whole

(* Whatever happens, parts arrive in the order in which they were sent,    *)
(* and never twice, within a list and from list to list.                   *)
Received(n) == IF n <= Len(got) THEN got[n] ELSE ret
Earlier(p, q) == p[1] < q[1] \/ (p[1] = q[1] /\ p[2] < q[2])
InOrder ==
  \A m, n \in 1 .. Len(got) + 1 : m <= n =>
    \A i \in DOMAIN Received(m), j \in DOMAIN Received(n) :
      (m < n \/ i < j) /\ Received(m)[i] # NullPart /\ Received(n)[j] # NullPart
        => Earlier(Received(m)[i], Received(n)[j])

(* Once zmq.recv.multipart() has the first part it never blocks: the parts *)
(* that ZMQ_RCVMORE announces are there, even if the connection has broken *)
(* or the sender is stuck in the middle of its next call (fq_t asserts     *)
(* it).                                                                    *)
RestIsThere == rcvmore = 1 => Ends(wire) # {}

(* The parts of a list follow one another: both of the above.              *)
PartsFollow == MultiTypeOK /\ InOrder /\ RestIsThere

(* zmq.send.multipart() has returned, so the list will be received: its    *)
(* last part has flushed all of it, whatever becomes of later calls, and   *)
(* only a broken connection may lose it.                                   *)
Delivered == \A k \in UNION {DOMAIN w : w \in Workloads} :
               call = k + 1 /\ mishaps = {} ~> Len(got) >= k \/ breaks > 0
==============================================================================
