------------------------ MODULE FileTransferProofs ------------------------
(***************************************************************************)
(* Proofs about FileTransfer for every number of calls, every file length, *)
(* every chunk size, every high-water mark and every bound on faults.      *)
(***************************************************************************)
EXTENDS FileTransfer, SequenceTheorems, TLAPS

USE DEF Calls

(* The first message of a queue, and the queue without its last messages.  *)
LEMMA HeadType ==
  ASSUME NEW s \in Seq(Message), s # <<>>
  PROVE  /\ Head(s) \in Message /\ Head(s) = s[1] /\ Len(s) > 0
         /\ Head(s).call \in Calls /\ Head(s).off \in Nat
         /\ Head(s).len \in 0 .. BufLen /\ Head(s).len \in Nat
<1>1. Head(s) \in Message /\ Head(s) = s[1] /\ Len(s) > 0
  OBVIOUS
<1> QED BY <1>1, SizeAssumption DEF Message

(* Cutting messages off the end of a queue keeps it a queue of messages.   *)
LEMMA PrefixType ==
  ASSUME NEW s \in Seq(Message), NEW n \in 0 .. Len(s) - 1
  PROVE  SubSeq(s, 1, n) \in Seq(Message) /\ Len(SubSeq(s, 1, n)) = n
OBVIOUS

(* What the socket operations do to the types of the state they change.    *)
NetOK == /\ toR \in Seq(Message) /\ toS \in Seq({Null, Byte})
         /\ sfsm \in {"send", "recv"} /\ rfsm \in {"send", "recv"}
         /\ faults \in Seq(FaultKinds)

(* A fault is recorded as one.                                             *)
LEMMA FaultType ==
  ASSUME faults \in Seq(FaultKinds), NEW f, Fault(f)
  PROVE  faults' \in Seq(FaultKinds)
BY FaultAssumption DEF Fault

(* The sender's socket operations keep the network state well typed.       *)
LEMMA SenderNetType ==
  ASSUME NetOK
  PROVE  /\ \A m \in Message : SSend(m) => NetOK'
         /\ SSendFails => NetOK'
         /\ SRecv => NetOK'
         /\ SRecvFails => NetOK'
<1>1. ASSUME NEW m \in Message, SSend(m) PROVE NetOK'
  BY <1>1 DEF NetOK, SSend, Flip, NoFault
<1>2. ASSUME SSendFails PROVE NetOK'
  <2>1. faults' \in Seq(FaultKinds)
    BY <1>2, FaultType DEF NetOK, SSendFails, NoFault
  <2> QED BY <1>2, <2>1 DEF NetOK, SSendFails, net
<1>3. ASSUME SRecv PROVE NetOK'
  BY <1>3 DEF NetOK, SRecv, Flip, NoFault
<1>4. ASSUME SRecvFails PROVE NetOK'
  <2>1. faults' \in Seq(FaultKinds)
    BY <1>4, FaultType DEF NetOK, SRecvFails, NoFault
  <2> QED BY <1>4, <2>1 DEF NetOK, SRecvFails, net
<1> QED BY <1>1, <1>2, <1>3, <1>4

(* So do the receiver's.                                                   *)
LEMMA ReceiverNetType ==
  ASSUME NetOK
  PROVE  /\ \A m \in {Null, Byte} : RSend(m) => NetOK'
         /\ RSendFails => NetOK'
         /\ RRecv => NetOK'
         /\ RRecvFails => NetOK'
<1>1. ASSUME NEW m \in {Null, Byte}, RSend(m) PROVE NetOK'
  BY <1>1 DEF NetOK, RSend, Flip, NoFault
<1>2. ASSUME RSendFails PROVE NetOK'
  BY <1>2 DEF NetOK, RSendFails, NoFault, net
<1>3. ASSUME RRecv PROVE NetOK'
  BY <1>3 DEF NetOK, RRecv, Flip, NoFault
<1>4. ASSUME RRecvFails PROVE NetOK'
  <2>1. faults' \in Seq(FaultKinds)
    BY <1>4, FaultType DEF NetOK, RRecvFails, NoFault
  <2> QED BY <1>4, <2>1 DEF NetOK, RRecvFails, net
<1> QED BY <1>1, <1>2, <1>3, <1>4

(* The parts of TypeOK that one side alone writes.                         *)
SenderOK ==
  /\ spc \in {"idle", "request", "size", "reply", "open", "go", "chunk",
              "ack", "stopped"}
  /\ scall \in 1 .. NCalls + 1
  /\ spc # "stopped" => scall \in Calls
  /\ pos \in Nat /\ ssize \in 0 .. BufLen
  /\ spc \in {"go", "chunk", "ack"} => pos <= FileLen[scall]
  /\ sret \in [Calls -> Result]

ReceiverOK ==
  /\ rpc \in {"idle", "request", "size", "reply", "open", "go", "chunk",
              "ack", "stopped"}
  /\ rcall \in 1 .. NCalls + 1
  /\ rpc # "stopped" => rcall \in Calls
  /\ rsize \in 0 .. BufLen
  /\ rret \in [Calls -> Result]
  /\ out \in [Calls -> Seq(Calls \X Nat)]

(* TypeOK in three parts: each side, and the network between them.         *)
KindOK == SenderType \in SenderTypes
LEMMA TypeParts == TypeOK <=> KindOK /\ SenderOK /\ ReceiverOK /\ NetOK
BY DEF TypeOK, KindOK, SenderOK, ReceiverOK, NetOK

(* A returning call leaves the sender between calls, well typed.           *)
LEMMA SReturnType ==
  ASSUME SenderOK, spc # "stopped", NEW r \in Result, SReturn(r),
         pos' \in Nat, ssize' \in 0 .. BufLen
  PROVE  SenderOK'
BY SizeAssumption DEF SenderOK, SReturn, Result

(* The serialized file size that zmq.sendfile() sends is a message.        *)
LEMMA SizeMsgType == ASSUME NEW k \in Calls PROVE SizeMsg(k) \in Message
BY SizeAssumption DEF SizeMsg, Message

(* fread() returns between 0 and BUFLEN bytes, and fewer than BUFLEN only  *)
(* at the end of the file.                                                 *)
LEMMA ReadLenRange ==
  ASSUME NEW k \in Calls, NEW p \in Nat, p <= FileLen[k]
  PROVE  /\ ReadLen(k, p) \in 0 .. BufLen
         /\ p + ReadLen(k, p) <= FileLen[k]
         /\ ReadLen(k, p) < BufLen => p + ReadLen(k, p) = FileLen[k]
         /\ ChunkMsg(k, p, ReadLen(k, p)) \in Message
<1>1. FileLen[k] \in Nat /\ BufLen \in Nat
  BY SizeAssumption
<1> QED BY <1>1 DEF ReadLen, ChunkMsg, Message

(* Every step of the sender keeps the types.                               *)
LEMMA SenderStepType == TypeOK /\ Sender /\ UNCHANGED SenderType => TypeOK'
<1> SUFFICES ASSUME TypeOK, Sender PROVE SenderOK' /\ ReceiverOK' /\ NetOK'
  BY DEF TypeOK, SenderOK, ReceiverOK, NetOK
<1> USE DEF Result
<1>0. SenderOK /\ ReceiverOK /\ NetOK
  BY TypeParts
<1>r. UNCHANGED rvars => ReceiverOK'
  BY <1>0 DEF ReceiverOK, rvars
<1>n. UNCHANGED net /\ faults' \in Seq(FaultKinds) => NetOK'
  BY <1>0 DEF NetOK, net
<1>1. CASE SCall
  <2>1. faults' \in Seq(FaultKinds)
    BY <1>1, <1>0, FaultType DEF SCall, NoFault, NetOK
  <2>2. SenderOK'
    BY <1>1, <1>0, SReturnType DEF SCall, SGoto, SenderOK
  <2> QED BY <1>1, <2>1, <2>2, <1>r, <1>n DEF SCall
<1>2. CASE SRecvRequest
  <2>1. SenderOK'
    BY <1>2, <1>0, SReturnType DEF SRecvRequest, SGoto, SenderOK
  <2> QED BY <1>2, <1>0, <2>1, <1>r, SenderNetType DEF SRecvRequest
<1>3. CASE SSendSize
  <2>1. SenderOK'
    BY <1>3, <1>0 DEF SSendSize, SGoto, SenderOK
  <2>2. NetOK'
    BY <1>3, <1>0, SenderNetType, SizeMsgType DEF SSendSize, SenderOK
  <2> QED BY <1>3, <2>1, <2>2, <1>r DEF SSendSize
<1>4. CASE SRecvReply
  <2>1. SenderOK'
    BY <1>4, <1>0, SReturnType DEF SRecvReply, SGoto, SenderOK
  <2> QED BY <1>4, <1>0, <2>1, <1>r, SenderNetType DEF SRecvReply
<1>5. CASE SOpen
  <2>1. faults' \in Seq(FaultKinds)
    BY <1>5, <1>0, FaultType DEF SOpen, NoFault, NetOK
  <2>2. SenderOK'
    <3>1. CASE SReturn("error")
      BY <3>1, <1>5, <1>0, SReturnType DEF SOpen, SenderOK
    <3>2. CASE SGoto(SLoop) /\ pos' = 0
      BY <3>2, <1>5, <1>0, SizeAssumption DEF SOpen, SGoto, SLoop, SenderOK
    <3> QED BY <1>5, <3>1, <3>2 DEF SOpen
  <2> QED BY <1>5, <2>1, <2>2, <1>r, <1>n DEF SOpen
<1>6. CASE SRecvGo
  <2>1. SenderOK'
    BY <1>6, <1>0 DEF SRecvGo, SGoto, SenderOK
  <2> QED BY <1>6, <1>0, <2>1, <1>r, SenderNetType DEF SRecvGo
<1>7. CASE SChunk
  <2> DEFINE n == ReadLen(scall, pos)
  <2>1. /\ scall \in Calls /\ pos \in Nat /\ pos <= FileLen[scall]
        /\ n \in 0 .. BufLen /\ pos + n <= FileLen[scall]
        /\ ChunkMsg(scall, pos, n) \in Message
    BY <1>7, <1>0, ReadLenRange DEF SChunk, SenderOK
  <2> HIDE DEF n
  <2>2. \/ Fault("read") /\ SReturn("error") /\ UNCHANGED <<pos, ssize, net>>
        \/ /\ SSend(ChunkMsg(scall, pos, n)) /\ pos' = pos + n /\ ssize' = n
           /\ IF SenderType = "REQ" THEN SGoto("ack") ELSE SRound(n)
        \/ SSendFails /\ SReturn("error") /\ pos' = pos + n /\ ssize' = n
    BY <1>7 DEF SChunk, n
  <2>3. SenderOK'
    <3>1. pos' \in Nat /\ ssize' \in 0 .. BufLen
      BY <2>1, <2>2, <1>0 DEF SenderOK
    <3>2. CASE \E r \in Result : SReturn(r)
      BY <3>1, <3>2, <1>0, <1>7, SReturnType DEF SChunk
    <3>3. CASE pos' = pos + n /\ \E l \in {"ack", "go", "chunk"} : SGoto(l)
      BY <3>1, <3>3, <2>1, <1>0 DEF SGoto, SenderOK
    <3> QED BY <2>2, <3>2, <3>3 DEF SRound, SLoop
  <2>4. NetOK'
    BY <2>1, <2>2, <1>0, <1>n, SenderNetType, FaultType DEF NetOK
  <2> QED BY <1>7, <2>3, <2>4, <1>r DEF SChunk
<1>8. CASE SRecvAck
  <2>1. SenderOK'
    BY <1>8, <1>0, SReturnType DEF SRecvAck, SRound, SLoop, SGoto, SenderOK
  <2> QED BY <1>8, <1>0, <2>1, <1>r, SenderNetType DEF SRecvAck
<1> QED
  BY <1>1, <1>2, <1>3, <1>4, <1>5, <1>6, <1>7, <1>8 DEF Sender

(* The same for the receiver.                                              *)
LEMMA RReturnType ==
  ASSUME ReceiverOK, rpc # "stopped", NEW r \in Result, RReturn(r),
         rsize' \in 0 .. BufLen, out' \in [Calls -> Seq(Calls \X Nat)]
  PROVE  ReceiverOK'
BY SizeAssumption DEF ReceiverOK, RReturn, Result

(* fwrite() appends bytes of some file to the output.                      *)
LEMMA FWriteType ==
  ASSUME ReceiverOK, rpc # "stopped",
         NEW m \in Message, NEW n \in 0 .. m.len, FWrite(m, n)
  PROVE  /\ rsize' \in 0 .. BufLen
         /\ out' \in [Calls -> Seq(Calls \X Nat)]
<1>1. /\ n \in Nat /\ m.len \in 0 .. BufLen /\ BufLen \in Nat
      /\ m.call \in Calls /\ m.off \in Nat
  BY SizeAssumption DEF Message
<1>2. Bytes(m, n) \in Seq(Calls \X Nat)
  BY <1>1 DEF Bytes
<1>3. rcall \in Calls /\ out[rcall] \in Seq(Calls \X Nat)
  BY DEF ReceiverOK
<1>4. out[rcall] \o Bytes(m, n) \in Seq(Calls \X Nat)
  BY <1>2, <1>3
<1>5. out' \in [Calls -> Seq(Calls \X Nat)]
  BY <1>4 DEF FWrite, ReceiverOK
<1> QED BY <1>1, <1>5 DEF FWrite

(* Every step of the receiver keeps the types.                             *)
LEMMA ReceiverStepType == TypeOK /\ Receiver /\ UNCHANGED SenderType => TypeOK'
<1> SUFFICES ASSUME TypeOK, Receiver PROVE SenderOK' /\ ReceiverOK' /\ NetOK'
  BY DEF TypeOK, SenderOK, ReceiverOK, NetOK
<1> USE DEF Result
<1>0. SenderOK /\ ReceiverOK /\ NetOK
  BY TypeParts
<1>s. UNCHANGED svars => SenderOK'
  BY <1>0 DEF SenderOK, svars
<1>n. UNCHANGED net /\ faults' \in Seq(FaultKinds) => NetOK'
  BY <1>0 DEF NetOK, net
<1>1. CASE RCall
  <2>1. ReceiverOK' /\ NetOK'
    BY <1>1, <1>0, <1>n DEF RCall, RGoto, ReceiverOK, NoFault, NetOK
  <2> QED BY <1>1, <2>1, <1>s DEF RCall
<1>2. CASE RSendRequest
  <2>1. ReceiverOK'
    BY <1>2, <1>0 DEF RSendRequest, RGoto, ReceiverOK
  <2> QED BY <1>2, <1>0, <2>1, <1>s, ReceiverNetType DEF RSendRequest
<1>3. CASE RRecvSize
  <2>1. ReceiverOK'
    BY <1>3, <1>0, RReturnType DEF RRecvSize, RGoto, ReceiverOK
  <2> QED BY <1>3, <1>0, <2>1, <1>s, ReceiverNetType DEF RRecvSize
<1>4. CASE RSendReply
  <2>1. ReceiverOK'
    BY <1>4, <1>0 DEF RSendReply, RGoto, ReceiverOK
  <2> QED BY <1>4, <1>0, <2>1, <1>s, ReceiverNetType DEF RSendReply
<1>5. CASE ROpen
  <2>1. NetOK'
    BY <1>5, <1>0, <1>n, FaultType DEF ROpen, NoFault, NetOK
  <2>2. ReceiverOK'
    <3>1. CASE RReturn("error") /\ UNCHANGED out
      BY <3>1, <1>5, <1>0, RReturnType DEF ROpen, ReceiverOK
    <3>2. CASE RGoto(RLoop) /\ out' = [out EXCEPT ![rcall] = <<>>]
      BY <3>2, <1>5, <1>0 DEF ROpen, RGoto, RLoop, ReceiverOK
    <3> QED BY <1>5, <3>1, <3>2 DEF ROpen
  <2> QED BY <1>5, <2>1, <2>2, <1>s DEF ROpen
<1>6. CASE RSendGo
  <2>1. ReceiverOK'
    BY <1>6, <1>0 DEF RSendGo, RGoto, ReceiverOK
  <2> QED BY <1>6, <1>0, <2>1, <1>s, ReceiverNetType DEF RSendGo
<1>7. CASE RChunk
  <2> DEFINE m == Head(toR)
  <2>1. CASE /\ RRecv /\ FWrite(m, m.len)
             /\ IF SenderType = "REQ" THEN RGoto("ack") ELSE RRound(m.len)
    <3>1. m \in Message /\ m.len \in 0 .. m.len
      BY <2>1, <1>0, HeadType DEF RRecv, NetOK
    <3>2. rsize' \in 0 .. BufLen /\ out' \in [Calls -> Seq(Calls \X Nat)]
      BY <1>0, <1>7, <2>1, <3>1, FWriteType DEF RChunk
    <3>3. ReceiverOK'
      <4>1. CASE RReturn("ok")
        BY <4>1, <3>2, <1>0, <1>7, RReturnType DEF RChunk
      <4>2. CASE \E l \in {"ack", "go", "chunk"} : RGoto(l)
        BY <4>2, <3>2, <1>0, <1>7 DEF RChunk, RGoto, ReceiverOK
      <4> QED BY <2>1, <4>1, <4>2 DEF RRound, RLoop
    <3> QED BY <1>7, <2>1, <3>3, <1>0, <1>s, ReceiverNetType DEF RChunk
  <2>2. CASE /\ rfsm = "recv" /\ toR # <<>> /\ Fault("write")
             /\ toR' = Tail(toR) /\ rfsm' = Flip(rfsm) /\ UNCHANGED <<toS, sfsm>>
             /\ \E n \in 0 .. m.len - 1 : FWrite(m, n)
             /\ RReturn("error")
    <3>1. m \in Message /\ m.len \in Nat
      BY <2>2, <1>0, HeadType DEF NetOK
    <3>2. rsize' \in 0 .. BufLen /\ out' \in [Calls -> Seq(Calls \X Nat)]
      BY <1>0, <1>7, <2>2, <3>1, FWriteType DEF RChunk
    <3>3. ReceiverOK'
      BY <2>2, <3>2, <1>0, <1>7, RReturnType DEF RChunk
    <3>4. NetOK'
      BY <2>2, <1>0, FaultType DEF NetOK, Flip
    <3> QED BY <1>7, <3>3, <3>4, <1>s DEF RChunk
  <2>3. CASE RRecvFails /\ RReturn("error") /\ UNCHANGED <<rsize, out>>
    <3>1. ReceiverOK'
      BY <2>3, <1>0, <1>7, RReturnType DEF RChunk, ReceiverOK
    <3> QED BY <1>7, <2>3, <3>1, <1>0, <1>s, ReceiverNetType DEF RChunk
  <2> QED BY <1>7, <2>1, <2>2, <2>3 DEF RChunk
<1>8. CASE RSendAck
  <2>1. ReceiverOK'
    BY <1>8, <1>0, RReturnType DEF RSendAck, RRound, RLoop, RGoto, ReceiverOK
  <2> QED BY <1>8, <1>0, <2>1, <1>s, ReceiverNetType DEF RSendAck
<1> QED
  BY <1>1, <1>2, <1>3, <1>4, <1>5, <1>6, <1>7, <1>8 DEF Receiver

(* A lost connection keeps the types.                                      *)
LEMMA LoseType == TypeOK /\ Lose /\ UNCHANGED SenderType => TypeOK'
<1> SUFFICES ASSUME TypeOK, Lose PROVE SenderOK' /\ ReceiverOK' /\ NetOK'
  BY DEF TypeOK, SenderOK, ReceiverOK, NetOK
<1>0. SenderOK /\ ReceiverOK /\ NetOK
  BY TypeParts
<1>1. SenderOK' /\ ReceiverOK'
  BY <1>0 DEF SenderOK, ReceiverOK, Lose, svars, rvars
<1>2. NetOK'
  <2>1. toR' \in Seq(Message)
    <3>1. CASE \E n \in 0 .. Len(toR) - 1 : toR' = SubSeq(toR, 1, n)
      BY <3>1, <1>0, PrefixType DEF NetOK
    <3>2. CASE UNCHANGED toR
      BY <3>2, <1>0 DEF NetOK
    <3> QED BY <3>1, <3>2 DEF Lose
  <2>2. toS' \in Seq({Null, Byte})
    <3>1. toS' = toS \/ toS' = <<>>
      BY DEF Lose
    <3>2. <<>> \in Seq({Null, Byte}) /\ toS \in Seq({Null, Byte})
      BY <1>0 DEF NetOK
    <3> QED BY <3>1, <3>2
  <2> QED BY <2>1, <2>2, <1>0, FaultType DEF NetOK, Lose
<1> QED BY <1>1, <1>2

(* A pair's sockets are of one of three kinds, and stay so.                *)
LEMMA PairKinds ==
  /\ TypeOK => SenderType \in {"PUSH", "REQ", "REP"}
  /\ [Next]_vars => UNCHANGED SenderType
BY SocketAssumption DEF TypeOK, Next, vars

(* The types hold at first and after every step.                           *)
LEMMA TypeInit == Init => TypeOK
BY SizeAssumption DEF Init, TypeOK, Result, SFresh, RFresh

LEMMA TypeStep == TypeOK /\ [Next]_vars => TypeOK'
<1> SUFFICES ASSUME TypeOK, [Next]_vars PROVE TypeOK'
  OBVIOUS
<1>1. CASE UNCHANGED vars
  BY <1>1 DEF TypeOK, vars, svars, rvars, net
<1> QED
  BY <1>1, SenderStepType, ReceiverStepType, LoseType DEF Next, Finished

(* Type correctness: whatever fails, every call number, position, buffer   *)
(* size, message and output byte stays in its range; in particular         *)
(* send_file() never reads past the end and recv_file() never writes more  *)
(* than BUFLEN bytes of a message.                                         *)
THEOREM TypeCorrect == Spec => []TypeOK
<1> QED BY TypeInit, TypeStep, PTL DEF Spec

-----------------------------------------------------------------------------
(* Lockstep.                                                               *)

Load == Turns + Len(toR) + Len(toS)

(* A socket operation of a REQ/REP pair passes the turn on; it neither     *)
(* creates nor destroys it.                                                *)
LEMMA SenderLoad ==
  ASSUME NetOK, SenderType # "PUSH", Load <= 1
  PROVE  /\ \A m \in Message : SSend(m) => Load' = Load
         /\ SRecv => Load' = Load
         /\ UNCHANGED net => Load' = Load
<1> USE DEF Load, Turns, Flip, NetOK
<1>0. Len(toR) \in Nat /\ Len(toS) \in Nat
  OBVIOUS
<1>1. ASSUME NEW m \in Message, SSend(m) PROVE Load' = Load
  <2>1. Len(toR') = Len(toR) + 1 /\ sfsm = "send" /\ sfsm' = "recv" /\ rfsm' = rfsm
    BY <1>1 DEF SSend
  <2>2. toS' = <<>> \/ toS' = toS
    BY <1>1 DEF SSend
  <2>3. Len(toS) = 0
    BY <2>1, <1>0
  <2>4. Len(toS') = 0
    BY <2>2, <2>3
  <2> QED BY <2>1, <2>3, <2>4, <1>0
<1>2. ASSUME SRecv PROVE Load' = Load
  <2>1. Len(toS') = Len(toS) - 1 /\ toR' = toR /\ sfsm = "recv" /\ sfsm' = "send"
        /\ rfsm' = rfsm
    BY <1>2 DEF SRecv
  <2> QED BY <2>1, <1>0
<1>3. UNCHANGED net => Load' = Load
  BY DEF net
<1> QED BY <1>1, <1>2, <1>3

(* The same for the sends and receives of the receiver's socket.           *)
LEMMA ReceiverLoad ==
  ASSUME NetOK, SenderType # "PUSH", Load <= 1
  PROVE  /\ \A m \in {Null, Byte} : RSend(m) => Load' = Load
         /\ rfsm = "recv" /\ toR # <<>> /\ toR' = Tail(toR) /\ rfsm' = Flip(rfsm)
            /\ UNCHANGED <<toS, sfsm>> => Load' = Load
         /\ UNCHANGED net => Load' = Load
<1> USE DEF Load, Turns, Flip, NetOK
<1>0. Len(toR) \in Nat /\ Len(toS) \in Nat
  OBVIOUS
<1>1. ASSUME NEW m \in {Null, Byte}, RSend(m) PROVE Load' = Load
  <2>1. Len(toS') = Len(toS) + 1 /\ rfsm = "send" /\ rfsm' = "recv" /\ sfsm' = sfsm
    BY <1>1 DEF RSend
  <2>2. toR' = <<>> \/ toR' = toR
    BY <1>1 DEF RSend
  <2>3. Len(toR) = 0
    BY <2>1, <1>0
  <2>4. Len(toR') = 0
    BY <2>2, <2>3
  <2> QED BY <2>1, <2>3, <2>4, <1>0
<1>2. ASSUME rfsm = "recv", toR # <<>>, toR' = Tail(toR), rfsm' = Flip(rfsm),
             UNCHANGED <<toS, sfsm>>
      PROVE  Load' = Load
  <2>1. Len(toR') = Len(toR) - 1
    BY <1>2
  <2> QED BY <2>1, <1>0, <1>2
<1>3. UNCHANGED net => Load' = Load
  BY DEF net
<1> QED BY <1>1, <1>2, <1>3

(* Recorded faults stay recorded.                                          *)
LEMMA HappenedStays ==
  ASSUME faults \in Seq(FaultKinds), NEW f,
         faults' = faults \/ \E g \in FaultKinds : faults' = Append(faults, g)
  PROVE  Happened(f) => Happened(f)'
BY DEF Happened

(* What a step does to the network, seen from the sockets.                 *)
LEMMA SenderNet ==
  ASSUME TypeOK, Sender
  PROVE  /\ (\E m \in Message : SSend(m)) \/ SRecv \/ UNCHANGED net
         /\ faults' = faults \/ \E g \in FaultKinds : faults' = Append(faults, g)
<1> USE DEF SSendFails, SRecvFails, Fault, NoFault, FaultKinds
<1>0. SenderOK
  BY TypeParts
<1>1. CASE SCall        BY <1>1 DEF SCall
<1>2. CASE SRecvRequest BY <1>2 DEF SRecvRequest, SRecv
<1>3. CASE SSendSize
  <2>1. SizeMsg(scall) \in Message
    BY <1>3, <1>0, SizeMsgType DEF SSendSize, SenderOK
  <2> QED BY <2>1, <1>3 DEF SSendSize, SSend
<1>4. CASE SRecvReply   BY <1>4 DEF SRecvReply, SRecv
<1>5. CASE SOpen        BY <1>5 DEF SOpen
<1>6. CASE SRecvGo      BY <1>6 DEF SRecvGo, SRecv
<1>7. CASE SChunk
  <2>1. ChunkMsg(scall, pos, ReadLen(scall, pos)) \in Message
    BY <1>7, <1>0, ReadLenRange DEF SChunk, SenderOK
  <2> QED BY <2>1, <1>7 DEF SChunk, SSend, net
<1>8. CASE SRecvAck     BY <1>8 DEF SRecvAck, SRecv
<1> QED
  BY <1>1, <1>2, <1>3, <1>4, <1>5, <1>6, <1>7, <1>8 DEF Sender

(* The same for a step of the receiver.                                    *)
LEMMA ReceiverNet ==
  ASSUME TypeOK, Receiver
  PROVE  /\ \/ \E m \in {Null, Byte} : RSend(m)
            \/ rfsm = "recv" /\ toR # <<>> /\ toR' = Tail(toR)
               /\ rfsm' = Flip(rfsm) /\ UNCHANGED <<toS, sfsm>>
            \/ UNCHANGED net
         /\ faults' = faults \/ \E g \in FaultKinds : faults' = Append(faults, g)
<1> USE DEF RSendFails, RRecvFails, Fault, NoFault, FaultKinds
<1>1. CASE RCall        BY <1>1 DEF RCall
<1>2. CASE RSendRequest BY <1>2 DEF RSendRequest, RSend
<1>3. CASE RRecvSize    BY <1>3 DEF RRecvSize, RRecv
<1>4. CASE RSendReply   BY <1>4 DEF RSendReply, RSend
<1>5. CASE ROpen        BY <1>5 DEF ROpen
<1>6. CASE RSendGo      BY <1>6 DEF RSendGo, RSend
<1>7. CASE RChunk       BY <1>7 DEF RChunk, RRecv
<1>8. CASE RSendAck     BY <1>8 DEF RSendAck, RSend
<1> QED
  BY <1>1, <1>2, <1>3, <1>4, <1>5, <1>6, <1>7, <1>8 DEF Receiver

(* Arithmetic: what is left of a load of at most one.                      *)
LEMMA Squeeze ==
  ASSUME NEW a \in Nat, NEW b \in Nat, NEW t \in Nat, NEW n \in Nat,
         n < a, t + a + b <= 1
  PROVE  n = 0 /\ a = 1 /\ b = 0 /\ t = 0
OBVIOUS

(* A lost message takes the turn with it.                                  *)
LEMMA LoseLoad ==
  ASSUME NetOK, SenderType # "PUSH", Load <= 1, Lose
  PROVE  Load' = 0 /\ Happened("loss")' /\ toR' = <<>>
<1>0. /\ Len(toR) \in Nat /\ Len(toS) \in Nat /\ Turns \in Nat
      /\ Load = Turns + Len(toR) + Len(toS) /\ Turns' = Turns
  BY DEF NetOK, Load, Turns, Lose
<1>1. Happened("loss")'
  BY DEF Lose, Fault, Happened, NetOK
<1>2. CASE /\ \E n \in 0 .. Len(toR) - 1 : toR' = SubSeq(toR, 1, n)
           /\ UNCHANGED toS
  <2>1. PICK n \in 0 .. Len(toR) - 1 : toR' = SubSeq(toR, 1, n)
    BY <1>2
  <2>2. n = 0 /\ Len(toR) = 1 /\ Len(toS) = 0 /\ Turns = 0
    <3>1. n \in Nat /\ n < Len(toR)
      BY <1>0
    <3>2. Turns + Len(toR) + Len(toS) <= 1
      BY <1>0
    <3> QED BY <3>1, <3>2, <1>0, Squeeze
  <2>3. toR' = <<>>
    BY <2>1, <2>2
  <2> QED BY <2>2, <2>3, <1>0, <1>1, <1>2 DEF Load
<1>3. CASE toS # <<>> /\ toS' = <<>> /\ UNCHANGED toR
  <2>1. Len(toS) > 0
    BY <1>3 DEF NetOK
  <2>2. Len(toR) = 0 /\ Turns = 0
    BY <2>1, <1>0
  <2>3. toR = <<>>
    BY <2>2 DEF NetOK
  <2> QED BY <2>2, <2>3, <1>0, <1>1, <1>3 DEF Load
<1> QED BY <1>2, <1>3 DEF Lose

(* One turn at first, and after every step.                                *)
LEMMA LockstepInit == Init => Lockstep
BY SocketAssumption DEF Init, Lockstep, Turns, SFresh, RFresh

LEMMA LockstepStep == TypeOK /\ Lockstep /\ [Next]_vars => Lockstep'
<1> SUFFICES ASSUME TypeOK, Lockstep, [Next]_vars, SenderType # "PUSH"
             PROVE  Load' <= 1 /\ (~Happened("loss")' => Load' = 1)
  BY PairKinds DEF Lockstep, Load
<1>0. NetOK /\ faults \in Seq(FaultKinds)
  BY TypeParts DEF NetOK
<1>1. Load <= 1 /\ (~Happened("loss") => Load = 1)
  BY DEF Lockstep, Load
<1>2. CASE Sender
  BY <1>2, <1>0, <1>1, SenderNet, SenderLoad, HappenedStays
<1>3. CASE Receiver
  BY <1>3, <1>0, <1>1, ReceiverNet, ReceiverLoad, HappenedStays
<1>4. CASE Lose
  BY <1>4, <1>0, <1>1, LoseLoad
<1>5. CASE UNCHANGED vars
  BY <1>5, <1>1 DEF vars, net, Load, Turns, Happened
<1> QED BY <1>2, <1>3, <1>4, <1>5 DEF Next, Finished

(* On REQ/REP and REP/REQ pairs, whatever fails and even when calls are    *)
(* repeated after errors, there is never more than one turn or message,    *)
(* and exactly one until a connection is lost.                             *)
THEOREM LockstepCorrect == Spec => []Lockstep
<1> QED BY LockstepInit, LockstepStep, TypeCorrect, PTL DEF Spec

-----------------------------------------------------------------------------
(* The stream of sizes and chunks.                                         *)

(* Two links over the same position make one: at most one file size is     *)
(* skipped, since the position after a skipped one is not a size.          *)
LEMMA LinkTransitive ==
  ASSUME NEW p, NEW q, NEW r, Link(p, q), Link(q, r)
  PROVE  Link(p, r)
BY DEF Link

(* A step of the sender either sends the message of its position and moves *)
(* behind it, or sends nothing and at most gives up on a file size.        *)
SendsNext ==
  \E m \in Message : /\ SSend(m)
                     /\ Before(m) = SPos
                     /\ Fits(m)
                     /\ spc' = "stopped" \/ SPos' = After(m)
SendsNothing == /\ SRecv \/ UNCHANGED net
                /\ spc' = "stopped" \/ Link(SPos, SPos')

(* A step of send_file() either leaves the stream and the sender's position *)
(* alone or appends the message at that position and moves past it.        *)
LEMMA SenderStream ==
  ASSUME TypeOK, Sender, ~Retry
  PROVE  UNCHANGED rvars /\ spc # "stopped" /\ (SendsNext \/ SendsNothing)
<1>0. SenderOK
  BY TypeParts
<1>r. SReturn("error") => spc' = "stopped"
  BY DEF SReturn
<1>1. CASE SCall
  <2>1. spc' = "stopped" \/ SPos' = SPos
    BY <1>1, <1>r DEF SCall, SGoto, SPos
  <2> QED BY <1>1, <2>1 DEF SCall, SendsNothing, Link
<1>2. CASE SRecvRequest
  <2>1. spc' = "stopped" \/ SPos' = SPos
    BY <1>2, <1>r DEF SRecvRequest, SGoto, SPos
  <2> QED BY <1>2, <2>1 DEF SRecvRequest, SRecvFails, SendsNothing, Link
<1>3. CASE SSendSize
  <2>1. SPos = <<scall, "size", 0>> /\ SPos' = <<scall, "chunk", 0>>
    BY <1>3 DEF SSendSize, SGoto, SPos
  <2>2. CASE SSend(SizeMsg(scall))
    <3>1. /\ SizeMsg(scall) \in Message /\ Fits(SizeMsg(scall))
          /\ Before(SizeMsg(scall)) = <<scall, "size", 0>>
          /\ After(SizeMsg(scall)) = <<scall, "chunk", 0>>
      BY <1>3, <1>0, SizeMsgType
         DEF SSendSize, SenderOK, SizeMsg, Fits, Before, After
    <3> QED BY <1>3, <2>1, <2>2, <3>1 DEF SSendSize, SendsNext
  <2>3. CASE SSendFails
    BY <1>3, <2>1, <2>3 DEF SSendSize, SSendFails, SendsNothing, Link
  <2> QED BY <1>3, <2>2, <2>3 DEF SSendSize
<1>4. CASE SRecvReply
  <2>1. spc' = "stopped" \/ SPos' = SPos
    BY <1>4, <1>r DEF SRecvReply, SGoto, SPos
  <2> QED BY <1>4, <2>1 DEF SRecvReply, SRecvFails, SendsNothing, Link
<1>5. CASE SOpen
  <2>1. spc' = "stopped" \/ SPos' = SPos
    BY <1>5, <1>r DEF SOpen, SGoto, SLoop, SPos
  <2> QED BY <1>5, <2>1 DEF SOpen, SendsNothing, Link
<1>6. CASE SRecvGo
  <2>1. SPos' = SPos
    BY <1>6 DEF SRecvGo, SGoto, SPos
  <2> QED BY <1>6, <2>1 DEF SRecvGo, SRecvFails, SendsNothing, Link
<1>7. CASE SChunk
  <2> DEFINE n == ReadLen(scall, pos)
             m == ChunkMsg(scall, pos, n)
  <2>1. /\ n \in 0 .. BufLen /\ pos + n <= FileLen[scall] /\ m \in Message
        /\ n < BufLen => pos + n = FileLen[scall]
    BY <1>7, <1>0, ReadLenRange DEF SChunk, SenderOK
  <2>2. SPos = <<scall, "chunk", pos>>
    BY <1>7 DEF SChunk, SPos
  <2>3. /\ Before(m) = <<scall, "chunk", pos>> /\ Fits(m)
        /\ After(m) = IF n = BufLen THEN <<scall, "chunk", pos + n>>
                                    ELSE <<scall + 1, "size", 0>>
    BY <2>1 DEF ChunkMsg, Before, After, Fits
  <2> HIDE DEF n
  <2>4. CASE /\ SSend(m) /\ pos' = pos + n /\ ssize' = n
             /\ IF SenderType = "REQ" THEN SGoto("ack") ELSE SRound(n)
    <3>1. CASE SGoto("ack")
      <4>1. SPos' = After(m)
        BY <2>3, <2>4, <3>1 DEF SGoto, SPos
      <4> QED BY <1>7, <2>1, <2>2, <2>3, <2>4, <4>1 DEF SChunk, SendsNext
    <3>2. CASE n = BufLen /\ SGoto(SLoop)
      <4>1. SPos' = After(m)
        BY <2>3, <2>4, <3>2 DEF SGoto, SLoop, SPos
      <4> QED BY <1>7, <2>1, <2>2, <2>3, <2>4, <4>1 DEF SChunk, SendsNext
    <3>3. CASE n # BufLen /\ SReturn("ok")
      <4>1. spc' = "stopped" \/ SPos' = After(m)
        BY <2>3, <2>4, <3>3 DEF SReturn, SPos
      <4> QED BY <1>7, <2>1, <2>2, <2>3, <2>4, <4>1 DEF SChunk, SendsNext
    <3> QED BY <2>4, <3>1, <3>2, <3>3 DEF SRound, More
  <2>5. CASE SReturn("error") /\ UNCHANGED net
    BY <1>7, <2>5, <1>r DEF SChunk, SendsNothing
  <2> QED BY <1>7, <2>4, <2>5 DEF SChunk, SSendFails, n, net
<1>8. CASE SRecvAck
  <2>1. spc' = "stopped" \/ SPos' = SPos
    BY <1>8, SizeAssumption, <1>0
       DEF SRecvAck, SRound, More, SReturn, SGoto, SLoop, SPos, SenderOK
  <2> QED BY <1>8, <2>1 DEF SRecvAck, SRecvFails, SendsNothing, Link
<1> QED
  BY <1>1, <1>2, <1>3, <1>4, <1>5, <1>6, <1>7, <1>8 DEF Sender

(* Appending the next message keeps the stream linked; so does a step that *)
(* sends nothing.                                                          *)
LEMMA SenderLinked ==
  ASSUME TypeOK, Lockstep, Linked, ChunksFit, Sender, ~Retry, UNCHANGED SenderType
  PROVE  Linked' /\ ChunksFit'
<1>0. NetOK /\ toR \in Seq(Message) /\ Len(toR) \in Nat
  BY TypeParts DEF NetOK
<1>1. UNCHANGED rvars /\ spc # "stopped" /\ (SendsNext \/ SendsNothing)
  BY SenderStream
<1>2. RPos' = RPos /\ rpc' = rpc
  BY <1>1 DEF rvars, RPos
<1>3. InStep' => InStep
  <2>1. SenderType # "PUSH" => Load' = Load
    BY <1>0, SenderNet, SenderLoad DEF Lockstep, Load
  <2> QED BY <2>1 DEF InStep, Load
<1>4. CASE SendsNext
  <2>1. PICK m \in Message : /\ SSend(m) /\ Before(m) = SPos /\ Fits(m)
                             /\ spc' = "stopped" \/ SPos' = After(m)
    BY <1>4 DEF SendsNext
  <2>2. /\ toR' = Append(toR, m) /\ Len(toR') = Len(toR) + 1
        /\ toR'[Len(toR')] = m
        /\ \A i \in 1 .. Len(toR) : toR'[i] = toR[i]
    BY <2>1, <1>0 DEF SSend
  <2>3. ChunksFit'
    BY <2>1, <2>2, <1>0 DEF ChunksFit, Fits
  <2>4. ASSUME InStep' PROVE Linked'
    <3>1. toR' # <<>>
      BY <2>2, <1>0
    <3>2. rpc' # "stopped" => Link(RPos', Before(toR'[1]))
      <4>1. CASE toR = <<>>
        <5>1. toR'[1] = m
          BY <2>2, <4>1
        <5> QED BY <5>1, <2>1, <1>1, <1>2, <1>3, <2>4, <4>1 DEF Linked
      <4>2. CASE toR # <<>>
        <5>1. toR'[1] = toR[1]
          BY <2>2, <4>2, <1>0
        <5> QED BY <5>1, <1>2, <1>3, <2>4, <4>2 DEF Linked
      <4> QED BY <4>1, <4>2
    <3>3. ASSUME NEW i \in 1 .. Len(toR') - 1
          PROVE  Link(After(toR'[i]), Before(toR'[i + 1]))
      <4>1. CASE i < Len(toR)
        <5>1. toR'[i] = toR[i] /\ toR'[i + 1] = toR[i + 1] /\ i \in 1 .. Len(toR) - 1
          BY <2>2, <4>1, <1>0
        <5> QED BY <5>1, <1>3, <2>4 DEF Linked
      <4>2. CASE i = Len(toR)
        <5>1. toR # <<>> /\ toR'[i] = toR[Len(toR)] /\ toR'[i + 1] = m
          BY <2>2, <4>2, <1>0
        <5> QED BY <5>1, <2>1, <1>1, <1>3, <2>4 DEF Linked
      <4> QED BY <4>1, <4>2, <2>2, <1>0
    <3>4. spc' # "stopped" => Link(After(toR'[Len(toR')]), SPos')
      BY <2>1, <2>2 DEF Link
    <3> QED BY <3>1, <3>2, <3>3, <3>4 DEF Linked
  <2> QED BY <2>3, <2>4 DEF Linked
<1>5. CASE SendsNothing
  <2>1. toR' = toR /\ (spc' = "stopped" \/ Link(SPos, SPos'))
    BY <1>5 DEF SendsNothing, SRecv, net
  <2>2. ChunksFit'
    BY <2>1 DEF ChunksFit
  <2>3. ASSUME InStep' PROVE Linked'
    <3>1. toR # <<>> /\ spc' # "stopped" => Link(After(toR[Len(toR)]), SPos')
      BY <2>1, <2>3, <1>1, <1>3, LinkTransitive DEF Linked
    <3>2. toR = <<>> /\ rpc # "stopped" /\ spc' # "stopped" => Link(RPos, SPos')
      BY <2>1, <2>3, <1>1, <1>3, LinkTransitive DEF Linked
    <3> QED BY <2>1, <2>3, <3>1, <3>2, <1>2, <1>3 DEF Linked
  <2> QED BY <2>2, <2>3 DEF Linked
<1> QED BY <1>1, <1>4, <1>5

(* The output file of the current call after a step: n bytes of its file.  *)
Holds(n) == /\ out' \in [Calls -> Seq(Calls \X Nat)]
            /\ \A k \in Calls : k # rcall => out'[k] = out[k]
            /\ Len(out'[rcall]) = n
            /\ \A i \in 1 .. n : out'[rcall][i] = <<rcall, i>>

(* A call that ends, in error or with the whole file, keeps CopyInv.       *)
LEMMA ReturnCopy ==
  ASSUME ReceiverOK, CopyInv, ~Retry, rpc # "stopped",
         NEW r \in {"ok", "error"}, RReturn(r),
         NEW n \in 0 .. FileLen[rcall], Holds(n), r = "ok" => n = FileLen[rcall]
  PROVE  CopyInv'
<1>0. rcall \in Calls /\ NCalls \in Nat /\ rret \in [Calls -> Result]
  BY SizeAssumption DEF ReceiverOK
<1>1. /\ rret' = [rret EXCEPT ![rcall] = r] /\ rcall' = rcall + 1
      /\ rpc' \in {"idle", "stopped"}
      /\ rpc' = "idle" => rcall # NCalls /\ r = "ok"
  BY DEF RReturn
<1>2. ASSUME NEW k \in Calls
      PROVE  /\ Len(out'[k]) <= FileLen[k]
             /\ \A i \in 1 .. Len(out'[k]) : out'[k][i] = <<k, i>>
             /\ rret'[k] = "ok" => Len(out'[k]) = FileLen[k]
             /\ k >= rcall' => rret'[k] = "none"
             /\ k > rcall' => out'[k] = <<>>
             /\ k < rcall' /\ rpc' # "stopped" => rret'[k] = "ok"
  <2>1. CASE k = rcall
    BY <2>1, <1>0, <1>1 DEF Holds
  <2>2. CASE k # rcall
    <3>1. out'[k] = out[k] /\ rret'[k] = rret[k]
      BY <2>2, <1>0, <1>1 DEF Holds
    <3>2. /\ k >= rcall' => k >= rcall
          /\ k > rcall' => k > rcall
          /\ k < rcall' => k < rcall
      BY <2>2, <1>0, <1>1
    <3> QED BY <3>1, <3>2 DEF CopyInv
  <2> QED BY <2>1, <2>2
<1>3. rpc' = "idle" => out'[rcall'] = <<>>
  <2>1. rpc' = "idle" => rcall' \in Calls /\ rcall' > rcall /\ rcall' # rcall
    BY <1>0, <1>1
  <2> QED BY <2>1 DEF CopyInv, Holds
<1> QED BY <1>1, <1>2, <1>3 DEF CopyInv

(* A step inside a call keeps CopyInv.                                     *)
LEMMA GotoCopy ==
  ASSUME ReceiverOK, CopyInv, rpc # "stopped",
         NEW l \in {"request", "size", "reply", "open", "go", "chunk", "ack"},
         RGoto(l), NEW n \in 0 .. FileLen[rcall], Holds(n),
         l \in {"request", "size", "reply", "open"} => n = 0,
         l = "ack" /\ rsize' < BufLen => n = FileLen[rcall]
  PROVE  CopyInv'
<1>0. rcall \in Calls
  BY DEF ReceiverOK
<1>1. rret' = rret /\ rcall' = rcall /\ rpc' = l
  BY DEF RGoto
<1>2. ASSUME NEW k \in Calls
      PROVE  /\ Len(out'[k]) <= FileLen[k]
             /\ \A i \in 1 .. Len(out'[k]) : out'[k][i] = <<k, i>>
             /\ rret'[k] = "ok" => Len(out'[k]) = FileLen[k]
             /\ k >= rcall' => rret'[k] = "none"
             /\ k > rcall' => out'[k] = <<>>
             /\ k < rcall' /\ rpc' # "stopped" => rret'[k] = "ok"
  <2>1. CASE k = rcall
    BY <2>1, <1>0, <1>1 DEF Holds, CopyInv
  <2>2. CASE k # rcall
    BY <2>2, <1>0, <1>1 DEF Holds, CopyInv
  <2> QED BY <2>1, <2>2
<1>3. l \in {"request", "size", "reply", "open"} => out'[rcall'] = <<>>
  BY <1>0, <1>1 DEF Holds
<1>4. l = "ack" /\ rsize' < BufLen => Len(out'[rcall']) = FileLen[rcall']
  BY <1>0, <1>1 DEF Holds
<1> QED BY <1>1, <1>2, <1>3, <1>4 DEF CopyInv

(* The elements of a concatenation.                                        *)
LEMMA ConcatElements ==
  ASSUME NEW s \in Seq(Calls \X Nat), NEW t \in Seq(Calls \X Nat)
  PROVE  /\ Len(s \o t) = Len(s) + Len(t)
         /\ \A i \in 1 .. Len(s) : (s \o t)[i] = s[i]
         /\ \A i \in 1 .. Len(t) : (s \o t)[Len(s) + i] = t[i]
OBVIOUS

(* Writing n bytes of the chunk expected next extends the copy by them.    *)
LEMMA FWriteHolds ==
  ASSUME ReceiverOK, CopyInv, rpc = "chunk",
         NEW m \in Message, m.kind = "chunk", m.call = rcall,
         m.off = Len(out[rcall]), NEW n \in 0 .. m.len, FWrite(m, n)
  PROVE  Holds(m.off + n)
<1>0. rcall \in Calls /\ out \in [Calls -> Seq(Calls \X Nat)] /\ n \in Nat
      /\ out[rcall] \in Seq(Calls \X Nat)
  BY DEF ReceiverOK, Message
<1>1. out' \in [Calls -> Seq(Calls \X Nat)]
  BY FWriteType
<1>2. out'[rcall] = out[rcall] \o Bytes(m, n)
  BY <1>0 DEF FWrite
<1>3. \A k \in Calls : k # rcall => out'[k] = out[k]
  BY <1>0 DEF FWrite
<1>4. Bytes(m, n) = [i \in 1 .. n |-> <<rcall, m.off + i>>]
  BY DEF Bytes
<1>5. /\ Len(Bytes(m, n)) = n /\ Bytes(m, n) \in Seq(Calls \X Nat)
      /\ \A i \in 1 .. n : Bytes(m, n)[i] = <<rcall, m.off + i>>
  <2>1. m.off \in Nat
    BY DEF Message
  <2> QED BY <2>1, <1>0, <1>4
<1>6. /\ Len(out'[rcall]) = m.off + n
      /\ \A i \in 1 .. m.off : out'[rcall][i] = out[rcall][i]
      /\ \A i \in 1 .. n : out'[rcall][m.off + i] = <<rcall, m.off + i>>
  <2>1. /\ Len(out[rcall] \o Bytes(m, n)) = Len(out[rcall]) + Len(Bytes(m, n))
        /\ \A i \in 1 .. Len(out[rcall]) :
              (out[rcall] \o Bytes(m, n))[i] = out[rcall][i]
        /\ \A i \in 1 .. Len(Bytes(m, n)) :
              (out[rcall] \o Bytes(m, n))[Len(out[rcall]) + i] = Bytes(m, n)[i]
    BY <1>0, <1>5, ConcatElements
  <2> QED BY <2>1, <1>2, <1>5
<1>7. ASSUME NEW i \in 1 .. m.off + n PROVE out'[rcall][i] = <<rcall, i>>
  <2>0. m.off \in Nat
    BY DEF Message
  <2>1. CASE i <= m.off
    <3>1. i \in 1 .. m.off /\ i \in 1 .. Len(out[rcall])
      BY <2>0, <2>1
    <3>2. out[rcall][i] = <<rcall, i>>
      BY <3>1, <1>0 DEF CopyInv
    <3> QED BY <3>1, <3>2, <1>6
  <2>2. CASE i > m.off
    <3>1. i - m.off \in 1 .. n /\ m.off + (i - m.off) = i
      BY <2>0, <2>2, <1>0
    <3> QED BY <3>1, <1>6
  <2> QED BY <2>0, <2>1, <2>2, <1>0
<1> QED BY <1>1, <1>3, <1>6, <1>7 DEF Holds

(* A step of the receiver either takes the first message and moves behind  *)
(* it, or takes none and stays.                                            *)
TakesNext == /\ rfsm = "recv" /\ toR # <<>> /\ toR' = Tail(toR)
             /\ rpc' = "stopped" \/ RPos' = After(Head(toR))
TakesNothing == /\ \/ toR' = toR
                   \/ SenderType # "PUSH" /\ rfsm = "send" /\ toR' = <<>>
                /\ rpc' = "stopped" \/ RPos' = RPos

StreamInv == TypeOK /\ Lockstep /\ Linked /\ ChunksFit /\ CopyInv

(* A message that can be received is the one recv_file() expects.          *)
LEMMA ExpectedMessage ==
  ASSUME StreamInv, rpc # "stopped", toR # <<>>
  PROVE  /\ Link(RPos, Before(Head(toR))) /\ Fits(Head(toR))
         /\ Head(toR) \in Message
<1>0. NetOK
  BY TypeParts DEF StreamInv
<1>1. Head(toR) \in Message /\ Head(toR) = toR[1] /\ Len(toR) > 0 /\ Len(toR) \in Nat
  BY <1>0, HeadType DEF NetOK
<1>2. InStep
  <2>1. CASE SenderType = "PUSH"
    BY <2>1 DEF InStep
  <2>2. CASE SenderType # "PUSH"
    <3>1. Turns \in Nat /\ Len(toS) \in Nat /\ Turns + Len(toR) + Len(toS) <= 1
      BY <2>2, <1>0 DEF StreamInv, Lockstep, Turns, NetOK
    <3> QED BY <3>1, <1>1 DEF InStep
  <2> QED BY <2>1, <2>2
<1> QED BY <1>1, <1>2 DEF StreamInv, Linked, ChunksFit

(* A step of recv_file() takes at most the first message, writes what      *)
(* belongs at its position, and keeps CopyInv.                             *)
LEMMA ReceiverStream ==
  ASSUME StreamInv, Receiver, ~Retry
  PROVE  /\ UNCHANGED svars /\ rpc # "stopped"
         /\ TakesNext \/ TakesNothing
         /\ CopyInv'
<1>0. ReceiverOK /\ rpc # "stopped" /\ rcall \in Calls /\ CopyInv
      /\ FileLen[rcall] \in Nat /\ out \in [Calls -> Seq(Calls \X Nat)]
      /\ BufLen \in Nat
  BY TypeParts, SizeAssumption
     DEF StreamInv, ReceiverOK, Receiver, RCall, RSendRequest, RRecvSize,
         RSendReply, ROpen, RSendGo, RChunk, RSendAck
<1>r. RReturn("error") => rpc' = "stopped"
  BY DEF RReturn
<1>l. /\ Len(out[rcall]) \in 0 .. FileLen[rcall]
      /\ UNCHANGED out => Holds(Len(out[rcall]))
      /\ rpc \in {"idle", "request", "size", "reply", "open"} =>
            Len(out[rcall]) = 0
  <2>1. Len(out[rcall]) \in Nat /\ Len(out[rcall]) <= FileLen[rcall]
    BY <1>0 DEF CopyInv
  <2>2. ASSUME UNCHANGED out PROVE Holds(Len(out[rcall]))
    BY <2>2, <1>0 DEF CopyInv, Holds
  <2>3. rpc \in {"idle", "request", "size", "reply", "open"} => out[rcall] = <<>>
    BY <1>0 DEF CopyInv
  <2> QED BY <2>1, <2>2, <2>3, <1>0
<1>s. ASSUME NEW m, RSend(m) \/ RSendFails
      PROVE  toR' = toR \/ (SenderType # "PUSH" /\ rfsm = "send" /\ toR' = <<>>)
  BY <1>s DEF RSend, RSendFails, net
<1>1. CASE RCall
  <2>1. RPos' = RPos
    BY <1>1 DEF RCall, RGoto, RPos
  <2>2. CopyInv'
    BY <1>1, <1>0, <1>l, GotoCopy DEF RCall
  <2> QED BY <1>1, <1>0, <2>1, <2>2 DEF RCall, TakesNothing, net
<1>2. CASE RSendRequest
  <2>1. RPos' = RPos
    BY <1>2 DEF RSendRequest, RGoto, RPos
  <2>2. CopyInv'
    BY <1>2, <1>0, <1>l, GotoCopy DEF RSendRequest
  <2> QED BY <1>2, <1>0, <1>s, <2>1, <2>2 DEF RSendRequest, TakesNothing
<1>3. CASE RRecvSize
  <2>1. RPos = <<rcall, "size", 0>>
    BY <1>3 DEF RRecvSize, RPos
  <2>2. CASE RReturn("error")
    <3>1. CopyInv'
      BY <1>3, <2>2, <1>0, <1>l, ReturnCopy DEF RRecvSize
    <3> QED BY <1>3, <2>2, <1>0, <1>r, <3>1
            DEF RRecvSize, RRecv, RRecvFails, TakesNext, TakesNothing, net
  <2>3. CASE /\ RRecv /\ Head(toR).kind = "size"
             /\ RGoto(IF SenderType = "REQ" THEN "reply" ELSE "open")
    <3>1. CopyInv'
      BY <1>3, <2>3, <1>0, <1>l, GotoCopy DEF RRecvSize
    <3>2. Before(Head(toR)) = <<rcall, "size", 0>>
      BY <2>1, <2>3, <1>0, ExpectedMessage DEF RRecv, Link, Before
    <3>3. After(Head(toR)) = <<rcall, "chunk", 0>>
      BY <2>3, <3>2 DEF Before, After
    <3>4. RPos' = <<rcall, "chunk", 0>>
      BY <2>3 DEF RGoto, RPos
    <3> QED BY <1>3, <2>3, <1>0, <3>1, <3>3, <3>4 DEF RRecvSize, RRecv, TakesNext
  <2> QED BY <1>3, <2>2, <2>3 DEF RRecvSize
<1>4. CASE RSendReply
  <2>1. RPos' = RPos
    BY <1>4 DEF RSendReply, RGoto, RPos
  <2>2. CopyInv'
    BY <1>4, <1>0, <1>l, GotoCopy DEF RSendReply
  <2> QED BY <1>4, <1>0, <1>s, <2>1, <2>2 DEF RSendReply, TakesNothing
<1>5. CASE ROpen
  <2>1. CASE RReturn("error") /\ UNCHANGED out
    <3>1. CopyInv'
      BY <1>5, <2>1, <1>0, <1>l, ReturnCopy
    <3> QED BY <1>5, <2>1, <1>0, <1>r, <3>1 DEF ROpen, TakesNothing, net
  <2>2. CASE RGoto(RLoop) /\ out' = [out EXCEPT ![rcall] = <<>>]
    <3>1. Holds(0) /\ Len(out'[rcall]) = 0
      BY <2>2, <1>0 DEF Holds
    <3>2. RLoop \in {"go", "chunk"} /\ 0 \in 0 .. FileLen[rcall]
      BY <1>0 DEF RLoop
    <3>3. CopyInv'
      BY <2>2, <3>1, <3>2, <1>0, GotoCopy
    <3>4. RPos' = RPos
      BY <1>5, <2>2, <3>1, <3>2 DEF ROpen, RGoto, RPos
    <3> QED BY <1>5, <1>0, <3>3, <3>4 DEF ROpen, TakesNothing, net
  <2> QED BY <1>5, <2>1, <2>2 DEF ROpen
<1>6. CASE RSendGo
  <2>1. RPos' = RPos
    BY <1>6 DEF RSendGo, RGoto, RPos
  <2>2. CopyInv'
    BY <1>6, <1>0, <1>l, GotoCopy DEF RSendGo
  <2> QED BY <1>6, <1>0, <1>s, <2>1, <2>2 DEF RSendGo, TakesNothing
<1>7. CASE RChunk
  <2> DEFINE m == Head(toR)
  <2>1. rpc = "chunk" /\ UNCHANGED svars /\ RPos = <<rcall, "chunk", Len(out[rcall])>>
    BY <1>7 DEF RChunk, RPos
  <2>2. ASSUME toR # <<>>
        PROVE  /\ m \in Message /\ m.kind = "chunk" /\ m.call = rcall
               /\ m.off = Len(out[rcall]) /\ m.len \in 0 .. BufLen /\ m.off \in Nat
               /\ m.off + m.len <= FileLen[rcall]
               /\ m.len < BufLen => m.off + m.len = FileLen[rcall]
               /\ After(m) = IF m.len = BufLen
                             THEN <<rcall, "chunk", m.off + m.len>>
                             ELSE <<rcall + 1, "size", 0>>
    <3>1. Link(RPos, Before(m)) /\ Fits(m) /\ m \in Message
      BY <2>2, <1>0, ExpectedMessage
    <3>2. m.kind = "chunk" /\ m.call = rcall /\ m.off = Len(out[rcall])
      BY <3>1, <2>1 DEF Link, Before
    <3>3. m.len \in 0 .. BufLen /\ m.off \in Nat
      BY <3>1 DEF Message
    <3> QED BY <3>1, <3>2, <3>3 DEF Fits, After
  <2> HIDE DEF m
  <2>3. CASE /\ RRecv /\ FWrite(m, m.len)
             /\ IF SenderType = "REQ" THEN RGoto("ack") ELSE RRound(m.len)
    <3>0. toR # <<>> /\ toR' = Tail(toR) /\ rfsm = "recv"
      BY <2>3 DEF RRecv
    <3>1. Holds(m.off + m.len) /\ rsize' = m.len
      <4>1. m.len \in 0 .. m.len
        BY <2>2, <3>0
      <4> QED BY <4>1, <2>1, <2>2, <2>3, <3>0, <1>0, FWriteHolds DEF FWrite
    <3>2. m.off + m.len \in 0 .. FileLen[rcall]
      BY <2>2, <3>0, <1>0
    <3>3. CASE RGoto("ack")
      <4>1. CopyInv'
        BY <3>0, <3>1, <3>2, <3>3, <2>2, <1>0, GotoCopy
      <4>2. RPos' = After(m)
        BY <3>0, <3>1, <3>3, <2>2 DEF RGoto, RPos, Holds
      <4> QED BY <4>1, <4>2, <3>0, <2>1, <1>0 DEF TakesNext, m
    <3>4. CASE m.len = BufLen /\ RGoto(RLoop)
      <4>0. RLoop \in {"go", "chunk"}
        BY DEF RLoop
      <4>1. CopyInv'
        BY <3>1, <3>2, <3>4, <4>0, <1>0, GotoCopy
      <4>2. RPos' = After(m)
        BY <3>0, <3>1, <3>4, <4>0, <2>2 DEF RGoto, RPos, Holds
      <4> QED BY <4>1, <4>2, <3>0, <2>1, <1>0 DEF TakesNext, m
    <3>5. CASE m.len # BufLen /\ RReturn("ok")
      <4>0. m.len < BufLen
        BY <3>0, <3>5, <2>2, <1>0
      <4>1. CopyInv'
        BY <3>0, <3>1, <3>2, <3>5, <4>0, <2>2, <1>0, ReturnCopy
      <4>2. rpc' = "stopped" \/ RPos' = After(m)
        BY <3>0, <3>5, <2>2 DEF RReturn, RPos
      <4> QED BY <4>1, <4>2, <3>0, <2>1, <1>0 DEF TakesNext, m
    <3> QED BY <2>3, <3>3, <3>4, <3>5 DEF RRound, More
  <2>4. CASE /\ rfsm = "recv" /\ toR # <<>> /\ toR' = Tail(toR)
             /\ \E n \in 0 .. m.len - 1 : FWrite(m, n)
             /\ RReturn("error")
    <3>1. PICK n \in 0 .. m.len - 1 : FWrite(m, n)
      BY <2>4
    <3>2. n \in 0 .. m.len /\ m.off + n \in 0 .. FileLen[rcall]
      BY <2>2, <2>4, <1>0
    <3>3. Holds(m.off + n)
      BY <3>1, <3>2, <2>1, <2>2, <2>4, <1>0, FWriteHolds
    <3>4. CopyInv'
      BY <3>2, <3>3, <2>4, <1>0, ReturnCopy
    <3> QED BY <3>4, <2>1, <2>4, <1>0, <1>r DEF TakesNext
  <2>5. CASE RRecvFails /\ RReturn("error") /\ UNCHANGED <<rsize, out>>
    <3>1. CopyInv'
      BY <2>5, <1>0, <1>l, ReturnCopy
    <3> QED BY <3>1, <2>1, <2>5, <1>0, <1>r DEF RRecvFails, TakesNothing, net
  <2> QED BY <1>7, <2>3, <2>4, <2>5 DEF RChunk, m
<1>8. CASE RSendAck
  <2>1. CASE rsize = BufLen /\ RGoto(RLoop)
    <3>0. RLoop \in {"go", "chunk"} /\ UNCHANGED <<rsize, out>>
      BY <1>8 DEF RLoop, RSendAck
    <3>1. CopyInv'
      BY <2>1, <3>0, <1>0, <1>l, GotoCopy
    <3>2. RPos' = RPos
      BY <1>8, <2>1, <3>0 DEF RSendAck, RGoto, RPos
    <3> QED BY <1>8, <1>0, <1>s, <3>1, <3>2 DEF RSendAck, TakesNothing
  <2>2. CASE rsize # BufLen /\ RReturn("ok")
    <3>0. rsize < BufLen /\ Len(out[rcall]) = FileLen[rcall] /\ UNCHANGED out
      BY <1>8, <2>2, <1>0 DEF RSendAck, ReceiverOK, CopyInv
    <3>1. CopyInv'
      BY <2>2, <3>0, <1>0, <1>l, ReturnCopy
    <3>2. rpc' = "stopped" \/ RPos' = RPos
      BY <1>8, <2>2 DEF RSendAck, RReturn, RPos
    <3> QED BY <1>8, <1>0, <1>s, <3>1, <3>2 DEF RSendAck, TakesNothing
  <2> QED BY <1>8, <2>1, <2>2 DEF RSendAck, RRound, More
<1> QED
  BY <1>1, <1>2, <1>3, <1>4, <1>5, <1>6, <1>7, <1>8 DEF Receiver

(* Taking the first message keeps the rest of the stream linked.           *)
LEMMA ReceiverLinked ==
  ASSUME StreamInv, Receiver, ~Retry, UNCHANGED SenderType
  PROVE  Linked' /\ ChunksFit'
<1>0. /\ TypeOK /\ Lockstep /\ Linked /\ ChunksFit /\ NetOK
      /\ toR \in Seq(Message) /\ Len(toR) \in Nat
  BY TypeParts DEF StreamInv, NetOK
<1>1. /\ UNCHANGED svars /\ rpc # "stopped"
      /\ TakesNext \/ TakesNothing
  BY ReceiverStream
<1>2. SPos' = SPos /\ spc' = spc
  BY <1>1 DEF svars, SPos
<1>3. InStep' => InStep
  <2>1. SenderType # "PUSH" => Load' = Load
    BY <1>0, ReceiverNet, ReceiverLoad DEF Lockstep, Load
  <2> QED BY <2>1 DEF InStep, Load
<1>4. CASE TakesNext
  <2>1. /\ Len(toR) > 0 /\ Len(toR') = Len(toR) - 1 /\ Head(toR) = toR[1]
        /\ \A i \in 1 .. Len(toR') : toR'[i] = toR[i + 1]
    BY <1>0, <1>4 DEF TakesNext
  <2>2. rpc' = "stopped" \/ RPos' = After(toR[1])
    BY <1>4, <2>1 DEF TakesNext
  <2>3. ChunksFit'
    BY <1>0, <2>1 DEF ChunksFit, Fits
  <2>4. ASSUME InStep' PROVE Linked'
    <3>0. /\ toR # <<>>
          /\ \A i \in 1 .. Len(toR) - 1 : Link(After(toR[i]), Before(toR[i + 1]))
          /\ spc # "stopped" => Link(After(toR[Len(toR)]), SPos)
      BY <1>0, <1>3, <1>4, <2>4 DEF Linked, TakesNext
    <3>1. ASSUME toR' # <<>>, rpc' # "stopped" PROVE Link(RPos', Before(toR'[1]))
      <4>1. 1 \in 1 .. Len(toR) - 1 /\ toR'[1] = toR[1 + 1]
        <5>1. toR' \in Seq(Message)
          BY <1>0, <1>4 DEF TakesNext
        <5>2. Len(toR') > 0 /\ Len(toR') \in Nat
          BY <5>1, <3>1
        <5> QED BY <5>2, <2>1, <1>0
      <4> QED BY <4>1, <3>0, <3>1, <2>2
    <3>2. ASSUME NEW i \in 1 .. Len(toR') - 1
          PROVE  Link(After(toR'[i]), Before(toR'[i + 1]))
      <4>1. /\ toR'[i] = toR[i + 1] /\ toR'[i + 1] = toR[(i + 1) + 1]
            /\ i + 1 \in 1 .. Len(toR) - 1
        BY <2>1, <1>0
      <4> QED BY <4>1, <3>0
    <3>3. ASSUME toR' # <<>>, spc' # "stopped"
          PROVE  Link(After(toR'[Len(toR')]), SPos')
      <4>1. toR'[Len(toR')] = toR[Len(toR)]
        <5>1. toR' \in Seq(Message)
          BY <1>0, <1>4 DEF TakesNext
        <5>2. Len(toR') \in 1 .. Len(toR') /\ Len(toR') + 1 = Len(toR)
          BY <5>1, <3>3, <2>1, <1>0
        <5> QED BY <5>2, <2>1
      <4> QED BY <4>1, <3>0, <3>3, <1>2
    <3>4. ASSUME toR' = <<>>, rpc' # "stopped", spc' # "stopped"
          PROVE  Link(RPos', SPos')
      <4>1. Len(toR) = 1
        BY <3>4, <2>1, <1>0
      <4> QED BY <4>1, <3>0, <3>4, <2>2, <1>2
    <3> QED BY <3>1, <3>2, <3>3, <3>4 DEF Linked
  <2> QED BY <2>3, <2>4 DEF Linked
<1>5. CASE TakesNothing
  <2>1. CASE toR' = toR
    <3>1. ChunksFit'
      BY <2>1, <1>0 DEF ChunksFit
    <3>2. ASSUME InStep' PROVE Linked'
      BY <2>1, <3>2, <1>0, <1>1, <1>2, <1>3, <1>5 DEF Linked, TakesNothing
    <3> QED BY <3>1, <3>2 DEF Linked
  <2>2. CASE SenderType # "PUSH" /\ rfsm = "send" /\ toR' = <<>>
    <3>1. Turns >= 1 /\ Turns \in Nat /\ Len(toS) \in Nat
      BY <2>2, <1>0 DEF Turns, NetOK
    <3>2. Len(toR) = 0
      BY <3>1, <2>2, <1>0 DEF Lockstep
    <3>3. toR' = toR
      BY <3>2, <2>2, <1>0
    <3> QED BY <3>3, <2>1
  <2> QED BY <1>5, <2>1, <2>2 DEF TakesNothing
<1> QED BY <1>1, <1>4, <1>5

(* Nothing is lost on a reliable PUSH/PULL pair, and on the other pairs a  *)
(* loss ends the exchange.                                                 *)
LEMMA LoseLinked ==
  ASSUME StreamInv, Lose, Reliable, UNCHANGED SenderType
  PROVE  Linked' /\ ChunksFit' /\ CopyInv'
<1>0. NetOK
  BY TypeParts DEF StreamInv
<1>1. SenderType # "PUSH"
  BY DEF Lose, Reliable
<1>2. Load' = 0 /\ toR' = <<>>
  BY <1>0, <1>1, LoseLoad DEF StreamInv, Lockstep, Load
<1>3. CopyInv'
  BY DEF StreamInv, CopyInv, Lose, rvars
<1> QED BY <1>1, <1>2, <1>3 DEF Linked, InStep, Load, ChunksFit

(* Nothing is under way and nothing is written when the calls begin.       *)
LEMMA StreamInit == Init => StreamInv
<1> SUFFICES ASSUME Init PROVE Linked /\ ChunksFit /\ CopyInv
  BY TypeInit, LockstepInit DEF StreamInv
<1> USE DEF Init
<1>1. RPos = <<1, "size", 0>> /\ SPos = <<1, "size", 0>>
  BY DEF RPos, SPos
<1>2. Linked
  BY <1>1 DEF Linked, Link
<1>3. ChunksFit
  BY DEF ChunksFit
<1>4. CopyInv
  BY SizeAssumption DEF CopyInv
<1> QED BY <1>2, <1>3, <1>4

(* No step of the sender, the receiver or the network breaks the stream.   *)
LEMMA StreamStep == ASSUME Reliable PROVE StreamInv /\ [Next]_vars => StreamInv'
<1> SUFFICES ASSUME StreamInv, [Next]_vars PROVE Linked' /\ ChunksFit' /\ CopyInv'
  BY TypeStep, LockstepStep DEF StreamInv
<1>0. /\ TypeOK /\ Lockstep /\ Linked /\ ChunksFit /\ CopyInv /\ ~Retry
      /\ UNCHANGED SenderType
  BY PairKinds DEF StreamInv, Reliable
<1>1. CASE Sender
  <2>1. CopyInv'
    BY <1>1, <1>0, SenderStream DEF CopyInv, rvars
  <2> QED BY <1>1, <1>0, <2>1, SenderLinked
<1>2. CASE Receiver
  BY <1>2, <1>0, ReceiverLinked, ReceiverStream
<1>3. CASE Lose
  BY <1>0, <1>3, LoseLinked
<1>4. CASE UNCHANGED vars
  <2>1. Linked' /\ ChunksFit'
    BY <1>4, <1>0 DEF vars, svars, rvars, net, Linked, ChunksFit, InStep, Turns,
                      SPos, RPos
  <2>2. CopyInv'
    BY <1>4, <1>0 DEF vars, rvars, CopyInv
  <2> QED BY <2>1, <2>2
<1> QED BY <1>1, <1>2, <1>3, <1>4 DEF Next, Finished

(* The inductive invariant.                                                *)
THEOREM StreamCorrect == ASSUME Reliable PROVE Spec => []StreamInv
<1> QED BY StreamInit, StreamStep, PTL DEF Spec

(* A sequence is determined by its length and its elements.                *)
LEMMA SeqByElements ==
  ASSUME NEW k, NEW n \in Nat, NEW s \in Seq(Calls \X Nat), Len(s) = n,
         \A i \in 1 .. n : s[i] = <<k, i>>
  PROVE  s = [i \in 1 .. n |-> <<k, i>>]
<1>1. s = [i \in 1 .. n |-> s[i]]
  BY LenProperties
<1> QED BY <1>1

(* CopyInv says of a successful call what IntactWhenOk promises.           *)
LEMMA CopyComplete == TypeOK /\ CopyInv => IntactWhenOk
<1> SUFFICES ASSUME TypeOK, CopyInv, NEW k \in Calls, rret[k] = "ok"
             PROVE  Complete(k)
  BY DEF IntactWhenOk
<1>1. out[k] \in Seq(Calls \X Nat) /\ FileLen[k] \in Nat
  BY SizeAssumption DEF TypeOK
<1>2. Len(out[k]) = FileLen[k] /\ \A i \in 1 .. Len(out[k]) : out[k][i] = <<k, i>>
  BY DEF CopyInv
<1> QED BY <1>1, <1>2, SeqByElements DEF Complete, FileBytes

(* For every session in which nobody calls again after an error, and       *)
(* without losses on PUSH/PULL: when zmq.recvfile() returns 0 the file is  *)
(* there, complete and byte for byte, whatever else failed.                *)
THEOREM Intact == ASSUME Reliable PROVE Spec => []IntactWhenOk
<1>1. StreamInv => IntactWhenOk
  BY CopyComplete DEF StreamInv
<1> QED BY <1>1, StreamCorrect, PTL

-----------------------------------------------------------------------------
(* Refinement of FileCopy.                                                 *)

(* A step of the receiver touches the file and the result of its current   *)
(* call only, and never shortens the file.                                 *)
LEMMA ReceiverFrame ==
  ASSUME TypeOK, CopyInv, Receiver, UNCHANGED SenderType
  PROVE  /\ out' \in [Calls -> Seq(Calls \X Nat)] /\ rret' \in [Calls -> Result]
         /\ \A k \in Calls : k # rcall => out'[k] = out[k] /\ rret'[k] = rret[k]
         /\ Len(out[rcall]) <= Len(out'[rcall])
<1>0. /\ TypeOK' /\ rcall \in Calls /\ out[rcall] \in Seq(Calls \X Nat)
      /\ rret \in [Calls -> Result] /\ out \in [Calls -> Seq(Calls \X Nat)]
      /\ ReceiverOK /\ NetOK /\ rpc # "stopped"
  BY ReceiverStepType, TypeParts
     DEF TypeOK, Receiver, RCall, RSendRequest, RRecvSize,
         RSendReply, ROpen, RSendGo, RChunk, RSendAck
<1>1. out' \in [Calls -> Seq(Calls \X Nat)] /\ rret' \in [Calls -> Result]
  BY <1>0 DEF TypeOK
<1>2. \A k \in Calls : k # rcall => rret'[k] = rret[k]
  BY <1>0 DEF Receiver, RCall, RSendRequest, RRecvSize, RSendReply, ROpen, RSendGo,
              RChunk, RSendAck, RGoto, RReturn, RRound
<1>3. \/ out' = out
      \/ out[rcall] = <<>> /\ out' = [out EXCEPT ![rcall] = <<>>]
      \/ toR # <<>> /\ \E n \in 0 .. Head(toR).len : FWrite(Head(toR), n)
  <2>1. CASE RChunk
    <3>1. toR # <<>> => Head(toR).len \in Nat
      BY <1>0, HeadType DEF NetOK
    <3> QED BY <3>1, <2>1 DEF RChunk, RRecv
  <2>2. CASE ROpen
    BY <2>2 DEF ROpen, CopyInv
  <2> QED BY <2>1, <2>2 DEF Receiver, RCall, RSendRequest, RRecvSize, RSendReply,
                            RSendGo, RSendAck
<1>4. CASE out' = out
  BY <1>0, <1>1, <1>2, <1>4
<1>5. CASE out[rcall] = <<>> /\ out' = [out EXCEPT ![rcall] = <<>>]
  BY <1>0, <1>1, <1>2, <1>5
<1>6. CASE toR # <<>> /\ \E n \in 0 .. Head(toR).len : FWrite(Head(toR), n)
  <2>1. PICK n \in 0 .. Head(toR).len : FWrite(Head(toR), n)
    BY <1>6
  <2>2. /\ n \in Nat /\ Head(toR).call \in Calls /\ Head(toR).off \in Nat
    BY <1>0, <1>6, HeadType DEF NetOK
  <2>3. Bytes(Head(toR), n) \in Seq(Calls \X Nat)
    BY <2>2 DEF Bytes
  <2>4. /\ out'[rcall] = out[rcall] \o Bytes(Head(toR), n)
        /\ \A k \in Calls : k # rcall => out'[k] = out[k]
    BY <2>1, <1>0 DEF FWrite
  <2>5. Len(out'[rcall]) = Len(out[rcall]) + Len(Bytes(Head(toR), n))
    BY <2>3, <2>4, <1>0, ConcatElements
  <2> QED BY <2>3, <2>4, <2>5, <1>0, <1>1, <1>2
<1> QED BY <1>3, <1>4, <1>5, <1>6

(* So it is a step of FileCopy.                                            *)
LEMMA ReceiverCopies ==
  ASSUME TypeOK, CopyInv, CopyInv', Receiver, UNCHANGED SenderType
  PROVE  Copy!Next
<1> DEFINE n == Len(out'[rcall])
           r == rret'[rcall]
<1>0. /\ rpc # "stopped" /\ rcall \in Calls /\ FileLen[rcall] \in Nat
      /\ out \in [Calls -> Seq(Calls \X Nat)] /\ rret \in [Calls -> Result]
  BY SizeAssumption
     DEF TypeOK, Receiver, RCall, RSendRequest, RRecvSize,
         RSendReply, ROpen, RSendGo, RChunk, RSendAck
<1>1. /\ out' \in [Calls -> Seq(Calls \X Nat)] /\ rret' \in [Calls -> Result]
      /\ \A k \in Calls : k # rcall => out'[k] = out[k] /\ rret'[k] = rret[k]
      /\ Len(out[rcall]) <= n
  BY ReceiverFrame
<1>2. /\ n \in 0 .. FileLen[rcall] /\ r \in Result
      /\ r = "ok" => n = FileLen[rcall]
      /\ \A i \in 1 .. n : out'[rcall][i] = <<rcall, i>>
  BY <1>0, <1>1 DEF CopyInv
<1>3. Copy!Active(rcall)
  <2>1. rret[rcall] = "none"
    BY <1>0 DEF CopyInv
  <2>2. ASSUME NEW j \in 1 .. rcall - 1 PROVE rret[j] = "ok"
    <3>1. j \in Calls /\ j < rcall
      BY <1>0, SizeAssumption
    <3> QED BY <3>1, <1>0 DEF CopyInv
  <2> QED BY <2>1, <2>2 DEF Copy!Active
<1>4. out'[rcall] = Copy!FileBytes(rcall, n)
  <2>1. out'[rcall] \in Seq(Calls \X Nat)
    BY <1>0, <1>1
  <2>2. n \in Nat
    BY <2>1
  <2>3. out'[rcall] = [i \in 1 .. n |-> <<rcall, i>>]
    BY <1>2, <2>1, <2>2, SeqByElements
  <2> QED BY <2>3 DEF Copy!FileBytes
<1>5. out' = [out EXCEPT ![rcall] = Copy!FileBytes(rcall, n)]
  BY <1>0, <1>1, <1>4
<1>6. rret' = [rret EXCEPT ![rcall] = r]
  BY <1>0, <1>1
<1>7. Copy!Write(rcall, n, r)
  BY <1>1, <1>2, <1>3, <1>5, <1>6 DEF Copy!Write
<1> HIDE DEF n, r
<1> QED BY <1>0, <1>2, <1>7 DEF Copy!Next, Copy!Calls, Result

(* The detailed protocol implements the abstract copy.                     *)
THEOREM Refinement == ASSUME Reliable PROVE Spec => ImplementsCopy
<1>1. Init => Copy!Init
  BY DEF Init, Copy!Init, Copy!Calls
<1>2. StreamInv /\ StreamInv' /\ [Next]_vars => [Copy!Next]_(Copy!vars)
  <2> SUFFICES ASSUME StreamInv, StreamInv', [Next]_vars
               PROVE  Copy!Next \/ UNCHANGED <<out, rret>>
    BY DEF Copy!vars
  <2>1. CASE Receiver
    BY <2>1, ReceiverCopies, PairKinds DEF StreamInv
  <2>2. CASE Sender
    BY <2>2, SenderStream DEF StreamInv, Reliable, rvars
  <2>3. CASE Lose \/ UNCHANGED vars
    BY <2>3 DEF Lose, vars, rvars
  <2> QED BY <2>1, <2>2, <2>3 DEF Next, Finished
<1> QED BY <1>1, <1>2, StreamCorrect, PTL DEF Spec, Copy!Spec, ImplementsCopy

-----------------------------------------------------------------------------
(* Answers and the ends of calls.                                          *)

(* Without interrupts a REQ socket is never used out of turn: where a      *)
(* process is in its call tells whose turn it is.  PUSH and PULL have none *)
(* to take.                                                                *)
STurn == IF spc \in {"reply", "ack"} THEN "recv" ELSE "send"
RTurn == IF rpc \in {"size", "chunk"} THEN "recv" ELSE "send"
InTurn ==
  /\ SenderType = "PUSH" => sfsm = "send" /\ rfsm = "recv" /\ toS = <<>>
  /\ SenderType = "REQ" /\ ~Happened("interrupt") /\ spc # "stopped" =>
       spc \notin {"request", "go"} /\ sfsm = STurn
  /\ SenderType = "REP" /\ ~Happened("interrupt") /\ rpc # "stopped" =>
       rpc \notin {"reply", "ack"} /\ rfsm = RTurn

(* What is under way belongs to calls that were made.                      *)
Called == \A i \in 1 .. Len(toR) : /\ toR[i].call <= scall
                                   /\ spc = "idle" => toR[i].call < scall

(* A short chunk that was answered is in the file.                         *)
Answered == SenderType = "REQ" /\ ~Happened("interrupt") =>
              /\ spc = "ack" /\ ssize < BufLen /\ toS # <<>> => Complete(scall)
              /\ \A k \in Calls : sret[k] = "ok" => Complete(k)

(* No step forgets an interrupt.                                           *)
LEMMA InterruptStays ==
  ASSUME TypeOK, [Next]_vars, ~Happened("interrupt")'
  PROVE  ~Happened("interrupt")
<1>0. faults \in Seq(FaultKinds)
  BY DEF TypeOK
<1>1. \/ faults' = faults
      \/ \E g \in FaultKinds : faults' = Append(faults, g)
  BY SenderNet, ReceiverNet DEF Next, Finished, Lose, Fault, FaultKinds, vars, net
<1> QED BY <1>0, <1>1, HappenedStays

(* An interrupt is one afterwards.                                         *)
LEMMA Interrupted ==
  ASSUME TypeOK, Fault("interrupt")
  PROVE  Happened("interrupt")'
BY DEF TypeOK, Fault, Happened

(* The steps of the sender, of the receiver, and a loss keep the turns.    *)
LEMMA SenderInTurn ==
  ASSUME TypeOK, InTurn, ~Retry, Sender, UNCHANGED SenderType
  PROVE  InTurn'
<1>0. UNCHANGED rvars /\ spc # "stopped" /\ (Happened("interrupt") => Happened("interrupt")')
  BY SenderStream, InterruptStays DEF Next
<1>i. SSendFails \/ SRecvFails => Happened("interrupt")' \/ UNCHANGED net
  BY Interrupted DEF SSendFails, SRecvFails
<1>r. SReturn("error") => spc' = "stopped"
  BY DEF SReturn
<1>1. CASE SenderType = "PUSH"
  <2>1. toS = <<>> /\ sfsm = "send" /\ rfsm = "recv"
    BY <1>1 DEF InTurn
  <2>2. (\E m \in Message : SSend(m)) \/ SRecv \/ UNCHANGED net
    BY SenderNet
  <2> QED BY <1>1, <2>1, <2>2 DEF InTurn, SSend, SRecv, Flip, net
<1>2. CASE SenderType = "REP"
  <2>1. rfsm' = rfsm
    BY SenderNet DEF SSend, SRecv, net
  <2> QED BY <1>0, <1>2, <2>1 DEF InTurn, rvars, RTurn
<1>3. CASE SenderType = "REQ"
  <2> SUFFICES ASSUME ~Happened("interrupt")', spc' # "stopped"
               PROVE  spc' \notin {"request", "go"} /\ sfsm' = STurn'
    BY <1>3 DEF InTurn
  <2>0. ~Happened("interrupt") /\ sfsm = STurn /\ spc \notin {"request", "go"}
    BY <1>0, <1>3 DEF InTurn
  <2> USE <1>3, <1>r, <2>0 DEF STurn, SGoto, SReturn, SLoop, Flip
  <2>1. CASE SCall     BY <2>1 DEF SCall, net
  <2>2. CASE SSendSize
    BY <2>2, Interrupted DEF SSendSize, SSend, SSendFails, net
  <2>3. CASE SRecvReply
    BY <2>3, Interrupted DEF SRecvReply, SRecv, SRecvFails, net
  <2>4. CASE SOpen     BY <2>4 DEF SOpen, net
  <2>5. CASE SChunk
    BY <2>5, Interrupted DEF SChunk, SSend, SSendFails, net
  <2>6. CASE SRecvAck
    BY <2>6, Interrupted DEF SRecvAck, SRound, SRecv, SRecvFails, net
  <2> QED BY <2>1, <2>2, <2>3, <2>4, <2>5, <2>6 DEF Sender, SRecvRequest, SRecvGo
<1> QED BY <1>1, <1>2, <1>3, PairKinds

LEMMA ReceiverInTurn ==
  ASSUME TypeOK, InTurn, ~Retry, Receiver, UNCHANGED SenderType
  PROVE  InTurn'
<1>0. UNCHANGED svars /\ rpc # "stopped" /\ (Happened("interrupt") => Happened("interrupt")')
  <2>1. UNCHANGED svars /\ rpc # "stopped"
    BY DEF Receiver, RCall, RSendRequest, RRecvSize, RSendReply, ROpen, RSendGo, RChunk,
           RSendAck
  <2> QED BY <2>1, InterruptStays DEF Next
<1>r. RReturn("error") => rpc' = "stopped"
  BY DEF RReturn
<1>1. CASE SenderType = "PUSH"
  <2>1. toS = <<>> /\ sfsm = "send" /\ rfsm = "recv"
    BY <1>1 DEF InTurn
  <2>2. \/ \E m \in {Null, Byte} : RSend(m)
        \/ rfsm' = Flip(rfsm) /\ UNCHANGED <<toS, sfsm>>
        \/ UNCHANGED net
    BY ReceiverNet
  <2> QED BY <1>1, <2>1, <2>2 DEF InTurn, RSend, Flip, net
<1>2. CASE SenderType = "REQ"
  <2>1. sfsm' = sfsm
    BY ReceiverNet DEF RSend, net
  <2> QED BY <1>0, <1>2, <2>1 DEF InTurn, svars, STurn
<1>3. CASE SenderType = "REP"
  <2> SUFFICES ASSUME ~Happened("interrupt")', rpc' # "stopped"
               PROVE  rpc' \notin {"reply", "ack"} /\ rfsm' = RTurn'
    BY <1>3 DEF InTurn
  <2>0. ~Happened("interrupt") /\ rfsm = RTurn /\ rpc \notin {"reply", "ack"}
    BY <1>0, <1>3 DEF InTurn
  <2> USE <1>3, <1>r, <2>0 DEF RTurn, RGoto, RReturn, RLoop, Flip
  <2>1. CASE RCall        BY <2>1 DEF RCall, net
  <2>2. CASE RSendRequest
    BY <2>2 DEF RSendRequest, RSend, RSendFails, net
  <2>3. CASE RRecvSize
    BY <2>3, Interrupted DEF RRecvSize, RRecv, RRecvFails, net
  <2>4. CASE ROpen        BY <2>4 DEF ROpen, net
  <2>5. CASE RSendGo
    BY <2>5 DEF RSendGo, RSend, RSendFails, net
  <2>6. CASE RChunk
    BY <2>6, Interrupted DEF RChunk, RRecv, RRound, RRecvFails, net
  <2> QED BY <2>1, <2>2, <2>3, <2>4, <2>5, <2>6 DEF Receiver, RSendReply, RSendAck
<1> QED BY <1>1, <1>2, <1>3, PairKinds

LEMMA InTurnStep ==
  ASSUME TypeOK, InTurn, ~Retry, [Next]_vars
  PROVE  InTurn'
<1>1. CASE Lose
  <2>1. ~Happened("interrupt")' => ~Happened("interrupt")
    BY InterruptStays
  <2>2. UNCHANGED <<svars, rvars, sfsm, rfsm>> /\ (toS' = <<>> \/ toS' = toS)
    BY <1>1 DEF Lose
  <2> QED BY <2>1, <2>2, PairKinds DEF InTurn, svars, rvars, STurn, RTurn
<1>2. CASE UNCHANGED vars
  BY <1>2 DEF InTurn, vars, svars, rvars, net, STurn, RTurn, Happened
<1> QED BY <1>1, <1>2, SenderInTurn, ReceiverInTurn, PairKinds DEF Next, Finished

(* The sender goes on within its call or to the next one, and what it      *)
(* sends is of its call.                                                   *)
LEMMA SenderCalls ==
  ASSUME TypeOK, Sender
  PROVE  /\ toR' = toR \/ \E m \in Message : m.call = scall /\ toR' = Append(toR, m)
         /\ scall' = scall + 1 \/ (scall' = scall /\ spc' # "idle")
<1>0. SenderOK
  BY TypeParts
<1> USE DEF SReturn, SGoto, SRound, SLoop
<1>1. CASE SCall        BY <1>1 DEF SCall, net
<1>2. CASE SRecvRequest BY <1>2 DEF SRecvRequest, SRecv, SRecvFails, net
<1>3. CASE SSendSize
  <2>1. SizeMsg(scall) \in Message /\ SizeMsg(scall).call = scall
    BY <1>3, <1>0, SizeMsgType DEF SSendSize, SenderOK, SizeMsg
  <2> QED BY <2>1, <1>3 DEF SSendSize, SSend, SSendFails, net
<1>4. CASE SRecvReply   BY <1>4 DEF SRecvReply, SRecv, SRecvFails, net
<1>5. CASE SOpen        BY <1>5 DEF SOpen, net
<1>6. CASE SRecvGo      BY <1>6 DEF SRecvGo, SRecv, SRecvFails, net
<1>7. CASE SChunk
  <2> DEFINE m == ChunkMsg(scall, pos, ReadLen(scall, pos))
  <2>1. m \in Message /\ m.call = scall
    BY <1>7, <1>0, ReadLenRange DEF SChunk, SenderOK, Message, ChunkMsg
  <2>2. toR' = toR \/ toR' = Append(toR, m)
    BY <1>7 DEF SChunk, SSend, SSendFails, net
  <2>3. scall' = scall + 1 \/ (scall' = scall /\ spc' # "idle")
    BY <1>7 DEF SChunk
  <2> QED BY <2>1, <2>2, <2>3
<1>8. CASE SRecvAck     BY <1>8 DEF SRecvAck, SRecv, SRecvFails, net
<1> QED BY <1>1, <1>2, <1>3, <1>4, <1>5, <1>6, <1>7, <1>8 DEF Sender

LEMMA CalledStep ==
  ASSUME TypeOK, Called, [Next]_vars
  PROVE  Called'
<1>0. /\ toR \in Seq(Message) /\ Len(toR) \in Nat /\ scall \in Nat
      /\ \A i \in 1 .. Len(toR) : toR[i].call \in Nat
  <2>1. toR \in Seq(Message) /\ scall \in Nat /\ \A m \in Message : m.call \in Nat
    BY SizeAssumption DEF TypeOK, Message, Calls
  <2> QED BY <2>1
<1>1. CASE Sender
  <2>1. scall' \in Nat /\ scall <= scall' /\ (spc' = "idle" => scall' = scall + 1)
    BY <1>0, <1>1, SenderCalls
  <2>2. CASE toR' = toR
    BY <1>0, <2>1, <2>2 DEF Called
  <2>3. CASE \E m \in Message : m.call = scall /\ toR' = Append(toR, m)
    <3>1. PICK m \in Message : m.call = scall /\ toR' = Append(toR, m)
      BY <2>3
    <3>2. \A i \in 1 .. Len(toR') : (i \in 1 .. Len(toR) /\ toR'[i] = toR[i]) \/ toR'[i] = m
      BY <3>1, <1>0
    <3>3. \A i \in 1 .. Len(toR') : toR'[i].call <= scall
      BY <3>1, <3>2, <1>0 DEF Called
    <3>4. \A i \in 1 .. Len(toR') : toR'[i].call \in Nat
      BY <3>1, <3>2, <1>0
    <3> QED BY <3>3, <3>4, <2>1, <1>0 DEF Called
  <2> QED BY <1>1, <2>2, <2>3, SenderCalls
<1>2. ASSUME UNCHANGED <<spc, scall>>, Len(toR') \in Nat, Len(toR') <= Len(toR),
             \A i \in 1 .. Len(toR') : \E j \in 1 .. Len(toR) : toR'[i] = toR[j]
      PROVE  Called'
  BY <1>2 DEF Called
<1>3. CASE Receiver
  <2>1. UNCHANGED <<spc, scall>>
    BY <1>3 DEF Receiver, RCall, RSendRequest, RRecvSize, RSendReply, ROpen, RSendGo, RChunk,
               RSendAck, svars
  <2>2. toR' = toR \/ toR' = <<>> \/ (toR # <<>> /\ toR' = Tail(toR))
    BY <1>3, ReceiverNet DEF RSend, net
  <2>3. toR # <<>> => /\ Len(Tail(toR)) = Len(toR) - 1
                      /\ \A i \in 1 .. Len(toR) - 1 : Tail(toR)[i] = toR[i + 1]
    BY <1>0
  <2>4. CASE toR # <<>> /\ toR' = Tail(toR)
    <3>1. /\ Len(toR') = Len(toR) - 1 /\ Len(toR) # 0
          /\ \A i \in 1 .. Len(toR') : toR'[i] = toR[i + 1]
      BY <2>3, <2>4, <1>0
    <3>2. \A i \in 1 .. Len(toR') : i + 1 \in 1 .. Len(toR)
      BY <3>1, <1>0
    <3>3. Len(toR') \in Nat /\ Len(toR') <= Len(toR)
      BY <3>1, <1>0
    <3> QED BY <3>1, <3>2, <3>3, <1>2, <2>1
  <2>5. CASE toR' = toR \/ toR' = <<>>
    BY <2>5, <1>0, <1>2, <2>1
  <2> QED BY <2>2, <2>4, <2>5
<1>4. CASE Lose
  <2>1. toR' = toR \/ \E n \in 0 .. Len(toR) - 1 : toR' = SubSeq(toR, 1, n)
    BY <1>4 DEF Lose
  <2>2. CASE \E n \in 0 .. Len(toR) - 1 : toR' = SubSeq(toR, 1, n)
    <3>1. PICK n \in 0 .. Len(toR) - 1 : toR' = SubSeq(toR, 1, n)
      BY <2>2
    <3>2. Len(toR') = n /\ n \in Nat /\ n < Len(toR)
      BY <3>1, <1>0, PrefixType
    <3>3. \A i \in 1 .. n : toR'[i] = toR[i]
      BY <3>1, <1>0
    <3> QED BY <3>2, <3>3, <1>0, <1>2, <1>4 DEF Lose, svars
  <2> QED BY <2>1, <2>2, <1>0, <1>2, <1>4 DEF Lose, svars
<1>5. CASE UNCHANGED vars
  BY <1>5, <1>0, <1>2 DEF vars, svars, net
<1> QED BY <1>1, <1>3, <1>4, <1>5 DEF Next, Finished

(* A finished file is not written to any more.                             *)
LEMMA CompleteStays ==
  ASSUME TypeOK, CopyInv, CopyInv', Receiver, NEW k \in Calls, Complete(k), UNCHANGED SenderType
  PROVE  Complete(k)'
<1>1. /\ FileLen[k] \in Nat /\ out[k] \in Seq(Calls \X Nat) /\ out'[k] \in Seq(Calls \X Nat)
      /\ Len(out[k]) <= Len(out'[k])
  <2>1. FileLen[k] \in Nat /\ out[k] \in Seq(Calls \X Nat) /\ rcall \in Calls
    BY SizeAssumption DEF TypeOK, Receiver, RCall, RSendRequest, RRecvSize, RSendReply,
                          ROpen, RSendGo, RChunk, RSendAck
  <2>2. /\ out' \in [Calls -> Seq(Calls \X Nat)]
        /\ k # rcall => out'[k] = out[k]
        /\ Len(out[rcall]) <= Len(out'[rcall])
    BY ReceiverFrame
  <2>3. Len(out[k]) \in Nat /\ out'[k] \in Seq(Calls \X Nat)
    BY <2>1, <2>2
  <2> QED BY <2>1, <2>2, <2>3
<1>2. Len(out[k]) = FileLen[k]
  BY <1>1 DEF Complete, FileBytes
<1>3. Len(out'[k]) = FileLen[k] /\ \A i \in 1 .. Len(out'[k]) : out'[k][i] = <<k, i>>
  BY <1>1, <1>2 DEF CopyInv
<1> QED BY <1>1, <1>3, SeqByElements DEF Complete, FileBytes

(* When the receiver sends while the sender waits for the answer to its    *)
(* last chunk, the receiver has written that chunk.                        *)
LEMMA AnswersLast ==
  ASSUME StreamInv, SenderType # "PUSH", Receiver, rfsm = "send",
         spc = "ack", ssize < BufLen
  PROVE  scall \in Calls /\ Complete(scall)
<1>0. /\ NetOK /\ TypeOK /\ CopyInv /\ scall \in Calls /\ rcall \in 1 .. NCalls + 1
      /\ ssize \in Nat /\ rsize \in 0 .. BufLen /\ BufLen \in Nat /\ NCalls \in Nat
  BY TypeParts, SizeAssumption DEF StreamInv, TypeOK
<1>1. toR = <<>> /\ InStep
  <2>1. Turns \in Nat /\ Turns >= 1 /\ Len(toS) \in Nat /\ Len(toR) \in Nat
    BY <1>0 DEF Turns, NetOK
  <2>2. Turns + Len(toR) + Len(toS) <= 1
    BY DEF StreamInv, Lockstep
  <2>3. Len(toR) = 0 /\ Turns + Len(toR) + Len(toS) = 1
    BY <2>1, <2>2
  <2> QED BY <2>3, <1>0 DEF NetOK, InStep
<1>2. rpc # "stopped" /\ rcall \in Calls
  BY <1>0 DEF TypeOK, Receiver, RCall, RSendRequest, RRecvSize, RSendReply, ROpen, RSendGo,
              RChunk, RSendAck
<1>3. Link(RPos, SPos)
  BY <1>1, <1>2 DEF StreamInv, Linked
<1>4. SPos = <<scall + 1, "size", 0>>
  BY <1>0 DEF SPos
<1>5. RPos = <<scall + 1, "size", 0>>
  BY <1>3, <1>4 DEF Link
<1>6. CASE rpc \in {"idle", "request", "size"}
  <2>1. rcall = scall + 1
    BY <1>5, <1>6 DEF RPos
  <2>2. rret[scall] = "ok"
    BY <2>1, <1>0, <1>2 DEF CopyInv, Calls
  <2> QED BY <2>2, <1>0, CopyComplete DEF IntactWhenOk
<1>7. CASE rpc = "ack" /\ rsize # BufLen
  <2>1. rcall = scall /\ rsize < BufLen
    <3>1. RPos = <<rcall + 1, "size", 0>>
      BY <1>7 DEF RPos
    <3>2. rcall + 1 = scall + 1
      BY <3>1, <1>5
    <3> QED BY <3>2, <1>7, <1>0 DEF Calls
  <2>2. /\ Len(out[scall]) = FileLen[scall]
        /\ \A i \in 1 .. FileLen[scall] : out[scall][i] = <<scall, i>>
    BY <2>1, <1>7, <1>0 DEF CopyInv
  <2>3. out[scall] \in Seq(Calls \X Nat) /\ FileLen[scall] \in Nat
    BY <1>0, SizeAssumption DEF TypeOK
  <2>4. out[scall] = [i \in 1 .. FileLen[scall] |-> <<scall, i>>]
    BY <2>2, <2>3, SeqByElements
  <2> QED BY <1>0, <2>4 DEF Complete, FileBytes
<1>8. CASE rpc \in {"reply", "open", "go", "chunk"} \/ (rpc = "ack" /\ rsize = BufLen)
  BY <1>5, <1>8 DEF RPos
<1> QED BY <1>2, <1>6, <1>7, <1>8, <1>0 DEF TypeOK

LEMMA AnsweredStep ==
  ASSUME Reliable, StreamInv, InTurn, Answered, [Next]_vars
  PROVE  Answered'
<1> SUFFICES ASSUME SenderType = "REQ", ~Happened("interrupt")'
             PROVE  /\ spc' = "ack" /\ ssize' < BufLen /\ toS' # <<>> => Complete(scall)'
                    /\ \A k \in Calls : sret'[k] = "ok" => Complete(k)'
  BY PairKinds DEF Answered
<1>0. /\ TypeOK /\ NetOK /\ CopyInv /\ ~Retry /\ StreamInv' /\ CopyInv'
      /\ sret \in [Calls -> Result] /\ SenderOK
  BY TypeParts, StreamStep DEF StreamInv, TypeOK, Reliable
<1>1. /\ ~Happened("interrupt")
      /\ spc = "ack" /\ ssize < BufLen /\ toS # <<>> => Complete(scall)
      /\ \A k \in Calls : sret[k] = "ok" => Complete(k)
  BY <1>0, InterruptStays DEF Answered
<1>2. CASE Sender
  <2>0. UNCHANGED rvars
    BY <1>0, <1>2, SenderStream
  <2>1. \A k \in Calls : Complete(k) => Complete(k)'
    BY <2>0 DEF Complete, FileBytes, rvars
  <2>2. spc' = "ack" => toS' = <<>>
    BY <1>2 DEF Sender, SCall, SRecvRequest, SSendSize, SRecvReply, SOpen, SRecvGo, SChunk,
                SRecvAck, SGoto, SReturn, SRound, SLoop, SSend
  <2>3. CASE SRecvAck
    <3>1. sfsm = "recv" /\ scall \in Calls /\ ssize \in 0 .. BufLen /\ BufLen \in Nat
      BY <2>3, <1>0, <1>1, SizeAssumption DEF InTurn, STurn, SRecvAck, TypeOK
    <3>2. toS # <<>>
      BY <2>3, <3>1, <1>0, Interrupted DEF SRecvAck, SRecv, SRecvFails
    <3>3. sret' = sret \/ (ssize < BufLen /\ sret' = [sret EXCEPT ![scall] = "ok"])
      BY <2>3, <3>1 DEF SRecvAck, SRound, More, SReturn, SGoto
    <3>4. ssize < BufLen => Complete(scall)
      BY <3>2, <1>1, <2>3 DEF SRecvAck
    <3> QED BY <3>1, <3>3, <3>4, <2>1, <2>2, <1>0, <1>1
  <2>4. CASE ~SRecvAck
    <3>1. sret' = sret \/ sret' = [sret EXCEPT ![scall] = "error"]
      BY <1>2, <2>4 DEF Sender, SCall, SRecvRequest, SSendSize, SRecvReply, SOpen, SRecvGo,
                        SChunk, SGoto, SReturn
    <3>2. scall \in Calls
      BY <1>2, <1>0 DEF TypeOK, Sender, SCall, SRecvRequest, SSendSize, SRecvReply, SOpen,
                        SRecvGo, SChunk, SRecvAck
    <3> QED BY <3>1, <3>2, <2>1, <2>2, <1>0, <1>1
  <2> QED BY <2>3, <2>4
<1>3. CASE Receiver
  <2>1. UNCHANGED svars
    BY <1>0, <1>3, ReceiverStream
  <2>2. \A k \in Calls : Complete(k) => Complete(k)'
    BY <1>0, <1>3, CompleteStays, PairKinds
  <2>3. toS' = toS \/ rfsm = "send"
    BY <1>0, <1>3, ReceiverNet DEF RSend, net
  <2>4. spc = "ack" => scall \in Calls
    BY <1>0 DEF TypeOK
  <2> QED BY <2>1, <2>2, <2>3, <2>4, <1>1, <1>3, AnswersLast DEF svars
<1>4. CASE Lose
  BY <1>4, <1>1 DEF Lose, svars, rvars, Complete, FileBytes
<1>5. CASE UNCHANGED vars
  BY <1>5, <1>1 DEF vars, svars, rvars, net, Complete, FileBytes
<1> QED BY <1>2, <1>3, <1>4, <1>5 DEF Next, Finished

(* A pair whose calls have all succeeded is as it was at the start.        *)
LEMMA CleanWhenIdle == StreamInv /\ InTurn /\ Called => Reusable
<1> SUFFICES ASSUME StreamInv, InTurn, Called, spc = "idle", rpc = "idle", scall = rcall,
                    ~Happened("interrupt")
             PROVE  toR = <<>> /\ toS = <<>> /\ sfsm = SFresh /\ rfsm = RFresh
  BY DEF Reusable
<1>0. NetOK /\ scall \in Nat /\ SenderType \in {"PUSH", "REQ", "REP"}
  <2>1. NetOK /\ scall \in Nat
    BY TypeParts, SizeAssumption DEF StreamInv, TypeOK
  <2> QED BY <2>1, PairKinds DEF StreamInv
<1>1. toR = <<>>
  <2> SUFFICES ASSUME toR # <<>> PROVE FALSE
    OBVIOUS
  <2>1. Link(RPos, Before(Head(toR))) /\ Head(toR) = toR[1] /\ 1 \in 1 .. Len(toR)
    BY <1>0, ExpectedMessage, HeadType DEF NetOK
  <2>2. RPos = <<rcall, "size", 0>>
    BY DEF RPos
  <2>3. toR[1].call = rcall
    BY <2>1, <2>2 DEF Link, Before
  <2> QED BY <2>1, <2>3, <1>0 DEF Called
<1>2. CASE SenderType = "PUSH"
  BY <1>1, <1>2 DEF InTurn, SFresh, RFresh
<1>3. CASE SenderType # "PUSH"
  <2>1. sfsm = "send" \/ rfsm = "send"
    BY <1>0, <1>3 DEF InTurn, STurn, RTurn
  <2>2. Turns + Len(toS) <= 1 /\ Len(toS) \in Nat
    BY <1>0, <1>1, <1>3 DEF StreamInv, Lockstep, NetOK, Turns
  <2>3. Len(toS) = 0 /\ ~(sfsm = "send" /\ rfsm = "send")
    BY <2>1, <2>2 DEF Turns
  <2>4. toS = <<>>
    BY <2>3, <1>0 DEF NetOK
  <2>5. SenderType = "REQ" => sfsm = "send"
    BY DEF InTurn, STurn
  <2>6. SenderType = "REP" => rfsm = "send"
    BY DEF InTurn, RTurn
  <2> QED BY <1>0, <1>1, <1>3, <2>3, <2>4, <2>5, <2>6 DEF NetOK, SFresh, RFresh
<1> QED BY <1>2, <1>3

(* What the transfers keep: the stream, the turns, and what is answered.   *)
TransferInv == StreamInv /\ InTurn /\ Called /\ Answered

LEMMA TransferInit == Init => TransferInv
<1> SUFFICES ASSUME Init PROVE InTurn /\ Called /\ Answered
  BY StreamInit DEF TransferInv
<1>1. InTurn
  BY DEF Init, InTurn, SFresh, RFresh, STurn, RTurn
<1>2. Called
  BY DEF Init, Called
<1>3. Answered
  BY DEF Init, Answered
<1> QED BY <1>1, <1>2, <1>3

LEMMA TransferStep == ASSUME Reliable PROVE TransferInv /\ [Next]_vars => TransferInv'
BY StreamStep, InTurnStep, CalledStep, AnsweredStep DEF TransferInv, StreamInv, Reliable

LEMMA TransferMeans == TransferInv => EndsClean
BY CleanWhenIdle DEF TransferInv, StreamInv, Answered, AckedMeansWritten, EndsClean

(* A REQ sender's call that returns 0 without having been interrupted      *)
(* means that the receiver has the complete file (send_file(),             *)
(* recv_file()): the acknowledgement it took is the one of its last chunk. *)
(* After equally many calls that succeeded without interrupts nothing is   *)
(* left under way and both sockets are as new, for the next file.          *)
THEOREM CallsEndClean == ASSUME Reliable PROVE Spec => []EndsClean
<1> QED BY TransferInit, TransferStep, TransferMeans, PTL DEF Spec
=============================================================================
