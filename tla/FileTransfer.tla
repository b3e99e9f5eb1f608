---------------------------- MODULE FileTransfer ----------------------------
(***************************************************************************)
(* zmq.sendfile() and zmq.recvfile() (R/R_zmq_transfer.r and               *)
(* src/R_zmq_transfer.c) over one pair of user-supplied sockets: PUSH/PULL, *)
(* REQ/REP or REP/REQ.  Two R processes each make NCalls calls; call k of  *)
(* the sender transfers file k and call k of the receiver writes out[k].   *)
(* The state machines of REQ and REP sockets are those of the bundled      *)
(* libzmq (req.cpp, rep.cpp); the queues stand for pipe, TCP stream and    *)
(* pipe again, so a message in a queue may or may not have arrived yet.    *)
(***************************************************************************)
EXTENDS Naturals, Sequences

CONSTANTS
  SenderTypes, \* types the sender's socket may have
  NCalls,      \* calls made by each side on the same socket
  FileLen,     \* FileLen[k]: length in bytes of file k
  BufLen,      \* BUFLEN: bytes per chunk
  MetaLen,     \* bytes of a serialized file size
  Hwm,         \* messages the PUSH pipe holds before a send blocks
  Faults,      \* kinds of fault that may happen
  Lossy,       \* types of the sender's socket with which messages may be lost
  MaxFaults,   \* bound on the number of faults
  Retry        \* whether a side goes on with its next call after an error

FaultKinds == {"missing", "open", "read", "write", "interrupt", "loss"}

ASSUME SocketAssumption == SenderTypes \subseteq {"PUSH", "REQ", "REP"}
ASSUME SizeAssumption ==
  /\ NCalls \in Nat \ {0}
  /\ FileLen \in [1 .. NCalls -> Nat]
  /\ BufLen \in Nat \ {0}
  /\ MetaLen \in 1 .. BufLen - 1
  /\ Hwm \in Nat \ {0}
ASSUME FaultAssumption == /\ Faults \subseteq FaultKinds
                          /\ MaxFaults \in Nat
                          /\ Retry \in BOOLEAN

Calls == 1 .. NCalls

VARIABLES
  SenderType, \* type of the sender's socket: "PUSH", "REQ" or "REP"
  spc,      \* where the sender is in zmq.sendfile()
  scall,    \* number of its current (or next) call
  pos,      \* read position in the input file
  ssize,    \* size: what the last fread() returned
  sfsm,     \* what the state machine of the sender's socket allows
  sret,     \* sret[k]: how sending call k ended, or "none"
  rpc,      \* where the receiver is in zmq.recvfile()
  rcall,    \* number of its current (or next) call
  rsize,    \* size: what the last fwrite() returned
  rfsm,     \* what the state machine of the receiver's socket allows
  out,      \* out[k]: bytes of the output file of receiving call k
  rret,     \* rret[k]: how receiving call k ended, or "none"
  toR,      \* messages under way to the receiver
  toS,      \* messages under way to the sender
  faults    \* the faults so far, in order

svars == <<spc, scall, pos, ssize, sret>>
rvars == <<rpc, rcall, rsize, out, rret>>
net   == <<toR, toS, sfsm, rfsm>>
vars  == <<SenderType, svars, rvars, net, faults>>

------------------------------------------------------------------------------
(* Messages.  A "size" message is the serialized file size, a "chunk" is a *)
(* buffer of raw bytes; "null" is serialize(NULL) and "byte" the one-byte  *)
(* message of the C loops.                                                 *)
SizeMsg(k)         == [kind |-> "size", call |-> k, off |-> 0, len |-> MetaLen]
ChunkMsg(k, o, n)  == [kind |-> "chunk", call |-> k, off |-> o, len |-> n]
Null == "null"
Byte == "byte"

(* What fwrite() puts in the file: byte i of file k is <<k, i>>; a size    *)
(* message taken for a chunk writes foreign bytes.                         *)
Bytes(m, n) == [i \in 1 .. n |-> IF m.kind = "chunk" THEN <<m.call, m.off + i>>
                                                    ELSE <<m.call, 0>>]

(* fread(buf, 1, BUFLEN, file) at position p of file k.                    *)
ReadLen(k, p) == IF FileLen[k] - p < BufLen THEN FileLen[k] - p ELSE BufLen

Fault(f) == /\ f \in Faults
            /\ Len(faults) < MaxFaults
            /\ faults' = Append(faults, f)
NoFault  == UNCHANGED faults

------------------------------------------------------------------------------
(* The two sockets.  On REQ and REP a completed send or receive flips the  *)
(* socket's state; PUSH always sends and PULL always receives.             *)
Flip(fsm) == IF SenderType = "PUSH" THEN fsm
             ELSE IF fsm = "send" THEN "recv" ELSE "send"

(* The states in which zmq_socket() creates them.                          *)
SFresh == IF SenderType = "REP" THEN "recv" ELSE "send"
RFresh == IF SenderType = "REP" THEN "send" ELSE "recv"

(* Bug: the socket sends out of turn (as with ZMQ_REQ_RELAXED).            *)
SSendRelaxed(m) == /\ Len(toR) < Hwm
                   /\ toR' = Append(toR, m)
                   /\ sfsm' = Flip(sfsm)
                   /\ UNCHANGED <<toS, rfsm, faults>>

(* zmq_send() on the sender's socket.  A REQ socket first drops every      *)
(* message waiting to be read.                                             *)
SSend(m) == /\ sfsm = "send"
            /\ Len(toR) < Hwm
            /\ toR' = Append(toR, m)
            /\ toS' = IF SenderType = "REQ" THEN <<>> ELSE toS
            /\ sfsm' = Flip(sfsm)
            /\ UNCHANGED rfsm
            /\ NoFault

(* It fails with EFSM out of turn.  A PUSH or REQ socket without a         *)
(* connected peer, or at its high-water mark, blocks, and then a signal    *)
(* (or ZMQ_DONTWAIT) makes it fail; a REP socket never blocks.             *)
SSendFails == /\ \/ sfsm = "recv" /\ NoFault
                 \/ sfsm = "send" /\ SenderType # "REP" /\ Fault("interrupt")
              /\ UNCHANGED net

(* zmq_recv() on the sender's socket, and its failure: EFSM out of turn,   *)
(* EINTR or EAGAIN while the message has not arrived.                      *)
SRecv == /\ sfsm = "recv"
         /\ toS # <<>>
         /\ toS' = Tail(toS)
         /\ sfsm' = Flip(sfsm)
         /\ UNCHANGED <<toR, rfsm>>
         /\ NoFault

SRecvFails == /\ \/ sfsm = "send" /\ NoFault
                 \/ sfsm = "recv" /\ Fault("interrupt")
              /\ UNCHANGED net

(* The same on the receiver's socket.  It is the connecting side, whose    *)
(* pipe exists from zmq_connect() on: its sends fail out of turn only.     *)
RSend(m) == /\ rfsm = "send"
            /\ toS' = Append(toS, m)
            /\ toR' = IF SenderType = "REP" THEN <<>> ELSE toR
            /\ rfsm' = Flip(rfsm)
            /\ UNCHANGED sfsm
            /\ NoFault

RSendFails == rfsm = "recv" /\ NoFault /\ UNCHANGED net

RRecv == /\ rfsm = "recv"
         /\ toR # <<>>
         /\ toR' = Tail(toR)
         /\ rfsm' = Flip(rfsm)
         /\ UNCHANGED <<toS, sfsm>>
         /\ NoFault

RRecvFails == /\ \/ rfsm = "send" /\ NoFault
                 \/ rfsm = "recv" /\ Fault("interrupt")
              /\ UNCHANGED net

(* A broken connection loses the messages that were not delivered yet: the *)
(* last ones sent to the receiver, or the one under way to the sender.     *)
Lose == /\ SenderType \in Lossy
        /\ Fault("loss")
        /\ \/ /\ \E n \in 0 .. Len(toR) - 1 : toR' = SubSeq(toR, 1, n)
              /\ UNCHANGED toS
           \/ toS # <<>> /\ toS' = <<>> /\ UNCHANGED toR
        /\ UNCHANGED <<svars, rvars, sfsm, rfsm>>

------------------------------------------------------------------------------
(* The sender: zmq.sendfile().                                             *)

(* The call returns ("ok") or ends in an R error; error() unwinds past     *)
(* everything the call still had to do.                                    *)
SReturn(r) ==
  /\ sret' = [sret EXCEPT ![scall] = r]
  /\ scall' = scall + 1
  /\ spc' = IF scall = NCalls \/ (r = "error" /\ ~Retry) THEN "stopped"
                                                         ELSE "idle"

SGoto(l) == spc' = l /\ UNCHANGED <<scall, sret>>

(* The test of the do ... while (size == BUFLEN) loops.                    *)
More(size) == size = BufLen

SLoop == IF SenderType = "REP" THEN "go" ELSE "chunk"

(* Bug: send_file() goes on until it has sent an empty chunk.              *)
SRoundNonempty(size) == IF size > 0 THEN SGoto(SLoop) ELSE SReturn("ok")

SRound(size) == IF More(size) THEN SGoto(SLoop) ELSE SReturn("ok")

(* Entry, up to the check that the file exists.                            *)
SCall == /\ spc = "idle"
         /\ \/ Fault("missing") /\ SReturn("error")
            \/ NoFault /\ SGoto(IF SenderType = "REP" THEN "request" ELSE "size")
         /\ UNCHANGED <<pos, ssize, rvars, net>>

(* REP: receive.socket() takes the receiver's serialized NULL.  A failed   *)
(* receive, or bytes that are no serialized object, are an R error.        *)
SRecvRequest == /\ spc = "request"
                /\ \/ SRecv /\ IF Head(toS) = Null THEN SGoto("size")
                                                   ELSE SReturn("error")
                   \/ SRecvFails /\ SReturn("error")
                /\ UNCHANGED <<pos, ssize, rvars>>

(* send.socket(socket, filesize): a failure is printed and forgotten.      *)
SSendSize == /\ spc = "size"
             /\ SSend(SizeMsg(scall)) \/ SSendFails
             /\ SGoto(IF SenderType = "REQ" THEN "reply" ELSE "open")
             /\ UNCHANGED <<pos, ssize, rvars>>

(* REQ: receive.socket() takes the answer to the file size.                *)
SRecvReply == /\ spc = "reply"
              /\ \/ SRecv /\ IF Head(toS) = Null THEN SGoto("open")
                                                 ELSE SReturn("error")
                 \/ SRecvFails /\ SReturn("error")
              /\ UNCHANGED <<pos, ssize, rvars>>

(* R_zmq_send_file(): allocate the buffer and open the file.               *)
SOpen == /\ spc = "open"
         /\ \/ Fault("open") /\ SReturn("error") /\ UNCHANGED pos
            \/ NoFault /\ SGoto(SLoop) /\ pos' = 0
         /\ UNCHANGED <<ssize, rvars, net>>

(* send_file(), REP: wait for the receiver's byte, whatever comes of it.   *)
SRecvGo == /\ spc = "go"
           /\ SRecv \/ SRecvFails
           /\ SGoto("chunk")
           /\ UNCHANGED <<pos, ssize, rvars>>

(* send_file(): read a chunk, send it, go round again after a full one.    *)
SChunk == /\ spc = "chunk"
          /\ LET n == ReadLen(scall, pos) IN
             \/ /\ Fault("read") /\ SReturn("error")
                /\ UNCHANGED <<pos, ssize, net>>
             \/ /\ SSend(ChunkMsg(scall, pos, n))
                /\ pos' = pos + n /\ ssize' = n
                /\ IF SenderType = "REQ" THEN SGoto("ack") ELSE SRound(n)
             \/ /\ SSendFails /\ SReturn("error")
                /\ pos' = pos + n /\ ssize' = n
          /\ UNCHANGED rvars

(* send_file(), REQ: wait for the receiver's byte, whatever comes of it.   *)
SRecvAck == /\ spc = "ack"
            /\ SRecv \/ SRecvFails
            /\ SRound(ssize)
            /\ UNCHANGED <<pos, ssize, rvars>>

Sender == \/ SCall \/ SRecvRequest \/ SSendSize \/ SRecvReply
          \/ SOpen \/ SRecvGo \/ SChunk \/ SRecvAck

------------------------------------------------------------------------------
(* The receiver: zmq.recvfile().                                           *)

RReturn(r) ==
  /\ rret' = [rret EXCEPT ![rcall] = r]
  /\ rcall' = rcall + 1
  /\ rpc' = IF rcall = NCalls \/ (r = "error" /\ ~Retry) THEN "stopped"
                                                         ELSE "idle"

RGoto(l) == rpc' = l /\ UNCHANGED <<rcall, rret>>

RLoop == IF SenderType = "REP" THEN "go" ELSE "chunk"

RRound(size) == IF More(size) THEN RGoto(RLoop) ELSE RReturn("ok")

RCall == /\ rpc = "idle"
         /\ RGoto(IF SenderType = "REP" THEN "request" ELSE "size")
         /\ NoFault
         /\ UNCHANGED <<rsize, out, svars, net>>

(* REQ: ask for the file size; a failure is printed and forgotten.         *)
RSendRequest == /\ rpc = "request"
                /\ RSend(Null) \/ RSendFails
                /\ RGoto("size")
                /\ UNCHANGED <<rsize, out, svars>>

(* receive.socket() takes the file size; raw bytes do not unserialize.     *)
RRecvSize == /\ rpc = "size"
             /\ \/ /\ RRecv
                   /\ IF Head(toR).kind # "size" THEN RReturn("error")
                      ELSE RGoto(IF SenderType = "REQ" THEN "reply" ELSE "open")
                \/ RRecvFails /\ RReturn("error")
             /\ UNCHANGED <<rsize, out, svars>>

(* REP: answer it.                                                         *)
RSendReply == /\ rpc = "reply"
              /\ RSend(Null) \/ RSendFails
              /\ RGoto("open")
              /\ UNCHANGED <<rsize, out, svars>>

(* R_zmq_recv_file(): allocate the buffer, create or truncate the file.    *)
ROpen == /\ rpc = "open"
         /\ \/ Fault("open") /\ RReturn("error") /\ UNCHANGED out
            \/ NoFault /\ RGoto(RLoop) /\ out' = [out EXCEPT ![rcall] = <<>>]
         /\ UNCHANGED <<rsize, svars, net>>

(* recv_file(), REQ: ask for the next chunk, whatever comes of it.         *)
RSendGo == /\ rpc = "go"
           /\ RSend(Byte) \/ RSendFails
           /\ RGoto("chunk")
           /\ UNCHANGED <<rsize, out, svars>>

(* fwrite() of n bytes of message m to the output file.                    *)
FWrite(m, n) == /\ out' = [out EXCEPT ![rcall] = @ \o Bytes(m, n)]
                /\ rsize' = n

(* Bug: the result of fwrite() is not compared with what was received.     *)
RChunkShortWrite ==
  /\ rpc = "chunk" /\ rfsm = "recv" /\ toR # <<>>
  /\ toR' = Tail(toR) /\ rfsm' = Flip(rfsm)
  /\ \E n \in 0 .. Head(toR).len :
       /\ IF n = Head(toR).len THEN NoFault ELSE Fault("write")
       /\ FWrite(Head(toR), n)
       /\ IF SenderType = "REQ" THEN RGoto("ack") ELSE RRound(n)
  /\ UNCHANGED <<toS, sfsm, svars>>

(* Bug: a failed zmq_recv() is taken for an empty chunk.                   *)
RChunkUnchecked ==
  /\ rpc = "chunk"
  /\ \/ /\ RRecv
        /\ FWrite(Head(toR), Head(toR).len)
        /\ IF SenderType = "REQ" THEN RGoto("ack") ELSE RRound(Head(toR).len)
     \/ RRecvFails /\ RReturn("ok") /\ UNCHANGED <<rsize, out>>
  /\ UNCHANGED svars

(* Bug: a REP socket acknowledges the chunk before it is written.          *)
RChunkAckFirst ==
  /\ rpc = "chunk" /\ rfsm = "recv" /\ toR # <<>>
  /\ toR' = Tail(toR)
  /\ \/ /\ NoFault
        /\ FWrite(Head(toR), Head(toR).len)
        /\ rfsm' = Flip(rfsm) /\ UNCHANGED toS
        /\ RGoto("ack")
     \/ /\ Fault("write")
        /\ \E n \in 0 .. Head(toR).len - 1 : FWrite(Head(toR), n)
        /\ toS' = Append(toS, Byte) /\ UNCHANGED rfsm
        /\ RReturn("error")
  /\ UNCHANGED <<sfsm, svars>>

(* recv_file(): receive a chunk and write it; a short write is an error.   *)
RChunk == /\ rpc = "chunk"
          /\ \/ /\ RRecv
                /\ FWrite(Head(toR), Head(toR).len)
                /\ IF SenderType = "REQ" THEN RGoto("ack")
                                        ELSE RRound(Head(toR).len)
             \/ /\ rfsm = "recv" /\ toR # <<>> /\ Fault("write")
                /\ toR' = Tail(toR) /\ rfsm' = Flip(rfsm)
                /\ UNCHANGED <<toS, sfsm>>
                /\ \E n \in 0 .. Head(toR).len - 1 : FWrite(Head(toR), n)
                /\ RReturn("error")
             \/ RRecvFails /\ RReturn("error") /\ UNCHANGED <<rsize, out>>
          /\ UNCHANGED svars

(* recv_file(), REP: acknowledge the chunk, whatever comes of it.          *)
RSendAck == /\ rpc = "ack"
            /\ RSend(Byte) \/ RSendFails
            /\ RRound(rsize)
            /\ UNCHANGED <<rsize, out, svars>>

Receiver == \/ RCall \/ RSendRequest \/ RRecvSize \/ RSendReply
            \/ ROpen \/ RSendGo \/ RChunk \/ RSendAck

------------------------------------------------------------------------------
Init == /\ SenderType \in SenderTypes
        /\ spc = "idle" /\ scall = 1 /\ pos = 0 /\ ssize = 0
        /\ sret = [k \in Calls |-> "none"]
        /\ rpc = "idle" /\ rcall = 1 /\ rsize = 0
        /\ out = [k \in Calls |-> <<>>]
        /\ rret = [k \in Calls |-> "none"]
        /\ toR = <<>> /\ toS = <<>> /\ faults = <<>>
        /\ sfsm = SFresh /\ rfsm = RFresh

(* Both sides have made all their calls.                                   *)
Finished == spc = "stopped" /\ rpc = "stopped" /\ UNCHANGED vars

Next == /\ Sender \/ Receiver \/ Lose \/ Finished
        /\ UNCHANGED SenderType

Spec == Init /\ [][Next]_vars

(* Each R process keeps running, and a send or receive that can proceed    *)
(* does: libzmq's I/O threads keep delivering.  No fault ever has to come. *)
SenderRuns   == Sender /\ NoFault /\ UNCHANGED SenderType
ReceiverRuns == Receiver /\ NoFault /\ UNCHANGED SenderType
FairSpec == Spec /\ WF_vars(SenderRuns) /\ WF_vars(ReceiverRuns)

------------------------------------------------------------------------------
(* Properties.                                                             *)

Message == [kind : {"size", "chunk"}, call : Calls, off : Nat,
            len : 0 .. BufLen]
Result  == {"none", "ok", "error"}

(* Every variable has its type: the type invariant of this module.         *)
TypeOK ==
  /\ SenderType \in SenderTypes
  /\ spc \in {"idle", "request", "size", "reply", "open", "go", "chunk",
              "ack", "stopped"}
  /\ rpc \in {"idle", "request", "size", "reply", "open", "go", "chunk",
              "ack", "stopped"}
  /\ scall \in 1 .. NCalls + 1 /\ rcall \in 1 .. NCalls + 1
  /\ (spc # "stopped" => scall \in Calls) /\ (rpc # "stopped" => rcall \in Calls)
  /\ pos \in Nat /\ ssize \in 0 .. BufLen /\ rsize \in 0 .. BufLen
  /\ (spc \in {"go", "chunk", "ack"} => pos <= FileLen[scall])
  /\ sfsm \in {"send", "recv"} /\ rfsm \in {"send", "recv"}
  /\ sret \in [Calls -> Result] /\ rret \in [Calls -> Result]
  /\ out \in [Calls -> Seq(Calls \X Nat)]
  /\ toR \in Seq(Message) /\ toS \in Seq({Null, Byte})
  /\ faults \in Seq(FaultKinds)

Happened(f) == \E i \in DOMAIN faults : faults[i] = f

(* The first n bytes of file k, and the whole of it.                       *)
FileBytes(k, n) == [i \in 1 .. n |-> <<k, i>>]
Complete(k) == out[k] = FileBytes(k, FileLen[k])

(* REQ/REP pairs run in lockstep (send_file() and recv_file() alternate):  *)
(* whatever calls fail, exactly one party holds the turn or one message is *)
(* under way, unless that message was lost; so no stale byte is ever taken *)
(* for the answer to a later chunk.                                        *)
Turns == (IF sfsm = "send" THEN 1 ELSE 0) + (IF rfsm = "send" THEN 1 ELSE 0)
Lockstep == SenderType # "PUSH" =>
              /\ Turns + Len(toR) + Len(toS) <= 1
              /\ ~Happened("loss") => Turns + Len(toR) + Len(toS) = 1

(* A receiving call that returns 0 has written its file completely and     *)
(* correctly, whatever failed on the way: unreadable or unwritable files,  *)
(* interrupted calls whose result the loops ignore, lost messages on a     *)
(* REQ/REP pair.  (It needs Reliable below: a sender that calls again      *)
(* after an error, and a PUSH socket that loses messages, break it.)       *)
IntactWhenOk == \A k \in Calls : rret[k] = "ok" => Complete(k)

(* A REQ sender's return value means more: recv_file() acknowledges after  *)
(* it has written, so a sending call that returns 0 without having been    *)
(* interrupted implies that the complete copy exists.                      *)
AckedMeansWritten ==
  SenderType = "REQ" => \A k \in Calls :
      sret[k] = "ok" => Complete(k) \/ Happened("interrupt")

(* After equally many successful calls the sockets are as they were at the *)
(* start: nothing is left under way and both state machines are reset, so  *)
(* the next file can follow on the same pair.                              *)
Reusable ==
  /\ spc = "idle" /\ rpc = "idle" /\ scall = rcall
  /\ \A k \in 1 .. scall - 1 : sret[k] = "ok" /\ rret[k] = "ok"
  /\ ~Happened("interrupt")
  => /\ toR = <<>> /\ toS = <<>>
     /\ sfsm = SFresh /\ rfsm = RFresh

(* The receiver's files behave as FileCopy promises.                       *)
Copy == INSTANCE FileCopy
ImplementsCopy == Copy!Spec

(* Without faults every call on both sides returns 0: neither loop waits   *)
(* for a message the other does not send.                                  *)
Completes == [](faults = <<>>) =>
               <>(\A k \in Calls : sret[k] = "ok" /\ rret[k] = "ok")

(* A file sent with success is never left pending at the receiver: unless  *)
(* messages are lost, the receiving call ends too, or an earlier one did   *)
(* in error.  (What has been sent stays sent, and what has been received   *)
(* received, so that this says for each call that the one follows the      *)
(* other.)                                                                 *)
SentIsReceived ==
  []<>(\A k \in Calls : sret[k] = "ok" =>
         rret[k] # "none" \/ rpc = "stopped" \/ Happened("loss"))

------------------------------------------------------------------------------
(* The strengthening that makes IntactWhenOk inductive.  A position names  *)
(* the next message of the stream of sizes and chunks: <<call, kind,       *)
(* offset>>.  Every message leads from the position before it to the one   *)
(* after it.                                                               *)
Before(m) == <<m.call, m.kind, m.off>>
After(m)  == IF m.kind = "size" THEN <<m.call, "chunk", 0>>
             ELSE IF m.len = BufLen THEN <<m.call, "chunk", m.off + m.len>>
             ELSE <<m.call + 1, "size", 0>>

(* The position the sender has reached, and the one the receiver expects.  *)
SPos == CASE spc \in {"idle", "request", "size"} -> <<scall, "size", 0>>
          [] spc \in {"reply", "open"}           -> <<scall, "chunk", 0>>
          [] spc \in {"go", "chunk"}             -> <<scall, "chunk", pos>>
          [] spc = "ack" /\ ssize = BufLen       -> <<scall, "chunk", pos>>
          [] OTHER                               -> <<scall + 1, "size", 0>>
RPos == CASE rpc \in {"idle", "request", "size"} -> <<rcall, "size", 0>>
          [] rpc \in {"reply", "open"}           -> <<rcall, "chunk", 0>>
          [] rpc \in {"go", "chunk"}   -> <<rcall, "chunk", Len(out[rcall])>>
          [] rpc = "ack" /\ rsize = BufLen
                                       -> <<rcall, "chunk", Len(out[rcall])>>
          [] OTHER                               -> <<rcall + 1, "size", 0>>

(* Positions agree, but for a file size whose sending failed unnoticed.    *)
Link(p, q) == q = p \/ (p[2] = "size" /\ q = <<p[1], "chunk", 0>>)

(* The conditions of IntactWhenOk: nobody goes on after an error, and only *)
(* REQ/REP pairs may lose messages.                                        *)
Reliable == ~Retry /\ "PUSH" \notin Lossy

(* No message was lost.                                                    *)
InStep == SenderType = "PUSH" \/ Turns + Len(toR) + Len(toS) = 1

(* The messages under way are the consecutive part of the stream between   *)
(* what recv_file() expects next and what send_file() sends next: none is  *)
(* missing, repeated or out of order while both sides are in a call.       *)
Linked == InStep =>
  /\ toR # <<>> /\ rpc # "stopped" => Link(RPos, Before(toR[1]))
  /\ \A i \in 1 .. Len(toR) - 1 : Link(After(toR[i]), Before(toR[i + 1]))
  /\ toR # <<>> /\ spc # "stopped" => Link(After(toR[Len(toR)]), SPos)
  /\ toR = <<>> /\ rpc # "stopped" /\ spc # "stopped" => Link(RPos, SPos)

(* A REQ sender's success means that the copy was written; between calls   *)
(* that succeeded nothing is left under way on any of the pairs, so that   *)
(* the next file can follow (the acknowledgements of send_file()).         *)
EndsClean == TypeOK /\ Linked /\ AckedMeansWritten /\ Reusable

(* Every chunk lies in its file, and only the last one is not full.        *)
Fits(m) ==
  /\ m.kind = "size" => m.off = 0
  /\ m.kind = "chunk" => /\ m.off + m.len <= FileLen[m.call]
                         /\ m.len < BufLen => m.off + m.len = FileLen[m.call]
ChunksFit == \A i \in 1 .. Len(toR) : Fits(toR[i])

(* What the receiver has written is always a prefix of the right file,     *)
(* nothing before its call opened the output, all of it when it answers    *)
(* the short chunk that ends the file.                                     *)
CopyInv ==
  /\ \A k \in Calls :
       /\ Len(out[k]) <= FileLen[k]
       /\ \A i \in 1 .. Len(out[k]) : out[k][i] = <<k, i>>
       /\ rret[k] = "ok" => Len(out[k]) = FileLen[k]
       /\ k >= rcall => rret[k] = "none"
       /\ k > rcall => out[k] = <<>>
       /\ k < rcall /\ rpc # "stopped" => rret[k] = "ok"
  /\ rpc \in {"idle", "request", "size", "reply", "open"} => out[rcall] = <<>>
  /\ rpc = "ack" /\ rsize < BufLen => Len(out[rcall]) = FileLen[rcall]
==============================================================================
