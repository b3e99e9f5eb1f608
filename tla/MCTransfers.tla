---------------------------- MODULE MCTransfers -----------------------------
(***************************************************************************)
(* The pairs of sockets that files are sent over, and the pipe that lies   *)
(* below each of these sockets.  Which of the two a behaviour is about is  *)
(* chosen in the initial state; the other one rests in its own.            *)
(***************************************************************************)
EXTENDS MCFileTransfer, Pipe

(* The socket writes two messages of one or two frames through a pipe that *)
(* holds one message.                                                      *)
MCHwm       == [e \in Ends |-> 1]
MCMaxMsgs   == [e \in Ends |-> IF e = "socket" THEN 2 ELSE 0]
MCMaxFrames == [e \in Ends |-> 2]

VARIABLE part  \* "files" or "pipe"

PairInit ==
  /\ part \in {"files", "pipe"}
  /\ Init /\ PipeInit
  /\ part = "files" => asked = {}
  /\ part = "pipe" => SenderType = "PUSH"
FilesOnly == part = "files" /\ UNCHANGED <<part, pvars>>
PipeOnly  == part = "pipe" /\ UNCHANGED <<part, vars>>

PairNext ==
  \/ FilesOnly /\ Next
  \/ PipeOnly /\ PipeNext
pairvars == <<part, vars, pvars>>
PairSpec ==
  /\ PairInit /\ [][PairNext]_pairvars
  /\ WF_pairvars(FilesOnly /\ SenderRuns) /\ WF_pairvars(FilesOnly /\ ReceiverRuns)
  /\ \A e \in Ends : WF_pairvars(PipeOnly /\ Process(e)) /\ WF_pairvars(PipeOnly /\ Read(e))

(* Without faults every call on both sides of a pair returns 0: neither    *)
(* loop waits for a message the other does not send (send_file(),          *)
(* recv_file()); and a file sent with success is never left pending at the *)
(* receiver, whatever fails.                                               *)
FilesComplete == part = "files" => Completes /\ SentIsReceived
=============================================================================
