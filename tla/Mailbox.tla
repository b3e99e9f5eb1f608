------------------------------ MODULE Mailbox ------------------------------
(***************************************************************************)
(* How threads wait for commands: mailbox_t with its signaler, read by the *)
(* one thread that has the socket, and mailbox_safe_t with its condition,  *)
(* whose lock is that of the socket, so that several threads read          *)
(* (mailbox.cpp, mailbox_safe.cpp, signaler.cpp, condition_variable.hpp);  *)
(* and the loops of socket_base_t::recv() and process_commands() above     *)
(* them.  Each command brings some messages, or is "stop", the             *)
(* termination of the context.  The queue of commands is as Ypipe shows    *)
(* it: a flush() fails if the reader has found it empty since the last.    *)
(***************************************************************************)
EXTENDS Integers, Sequences, FiniteSets

CONSTANTS
  Senders, Receivers,  \* threads
  Commands             \* sequences of commands: numbers of messages, 0 is "stop"

VARIABLES
  safe,      \* whether it is a mailbox_safe_t
  cpipe, asleep,       \* commands, and whether the last read found none
  sync,      \* who has the lock, "nobody" if none has
  active, signaler,    \* mailbox_t's, and bytes or count in the signaler
  toSend,    \* commands to come
  sender,    \* what each sender is about to do
  receiver,  \* each receiver's place in recv(), and what it waits for
  messages, terminated \* what the socket has: messages and ctx_terminated
mailvars == <<safe, cpipe, asleep, sync, active, signaler, toSend, sender, receiver, messages,
              terminated>>

InCall(r) == receiver[r].pc # "out"
Goes(r, pc) == receiver' = [receiver EXCEPT ![r].pc = pc]
Leaves(r, result) ==
  receiver' = [receiver EXCEPT ![r] = [pc |-> "out", block |-> FALSE, result |-> result]]
SyncFree == sync = "nobody"

-----------------------------------------------------------------------------
(* send(): the lock is held for write and flush, and by mailbox_safe_t     *)
(* for broadcast() too; mailbox_t signals after it.                        *)
SendLocks(p) ==
  /\ sender[p] = "idle" /\ toSend # <<>> /\ SyncFree
  /\ sync' = p
  /\ sender' = [sender EXCEPT ![p] = "flush"]
  /\ UNCHANGED <<safe, cpipe, asleep, active, signaler, toSend, receiver, messages, terminated>>
WriteFlush(p) ==
  /\ sender[p] = "flush"
  /\ cpipe' = Append(cpipe, Head(toSend)) /\ toSend' = Tail(toSend)
  /\ asleep' = FALSE
  /\ sender' = [sender EXCEPT ![p] = IF asleep THEN "signal" ELSE "unlock"]
  /\ sync' = IF safe THEN p ELSE "nobody"
  /\ UNCHANGED <<safe, active, signaler, receiver, messages, terminated>>
Broadcast ==
  receiver' = [r \in Receivers |->
    IF receiver[r].pc \in {"wait", "poll"} THEN [receiver[r] EXCEPT !.pc = "woken"] ELSE receiver[r]]
Signal(p) ==
  /\ sender[p] = "signal"
  /\ IF safe THEN Broadcast /\ UNCHANGED signaler
     ELSE signaler' = signaler + 1 /\ UNCHANGED receiver
  /\ sender' = [sender EXCEPT ![p] = "unlock"]
  /\ UNCHANGED <<safe, cpipe, asleep, sync, active, toSend, messages, terminated>>
SendEnds(p) ==
  /\ sender[p] = "unlock"
  /\ sender' = [sender EXCEPT ![p] = "idle"]
  /\ sync' = IF safe THEN "nobody" ELSE sync
  /\ UNCHANGED <<safe, cpipe, asleep, active, signaler, toSend, receiver, messages, terminated>>

-----------------------------------------------------------------------------
(* socket_base_t::recv(): a message that is there is taken at once; else   *)
(* the commands are processed, without waiting the first time if messages  *)
(* were taken before (ticks).                                              *)
Take ==
  messages > 0 /\ messages' = messages - 1
RecvBegins(r) ==
  /\ ~InCall(r) /\ (safe => SyncFree) /\ ~terminated
  /\ IF messages > 0 THEN Take /\ UNCHANGED <<receiver, sync>>
     ELSE /\ \E block \in BOOLEAN :
               receiver' = [receiver EXCEPT ![r] = [pc |-> "get", block |-> block, result |-> "none"]]
          /\ sync' = IF safe THEN r ELSE sync
          /\ UNCHANGED messages
  /\ UNCHANGED <<safe, cpipe, asleep, active, signaler, toSend, sender, terminated>>

(* process_command().                                                      *)
Process ==
  /\ cpipe' = Tail(cpipe)
  /\ messages' = messages + Head(cpipe)
  /\ terminated' = (terminated \/ Head(cpipe) = 0)

(* mailbox recv(): a command that is there is processed, and then all that *)
(* follow, without waiting.                                                *)
HasCommand == cpipe # <<>>
ReadCommand(r) ==
  /\ receiver[r].pc \in {"get", "more"} /\ (safe \/ active) /\ HasCommand
  /\ Process /\ Goes(r, "more")
  /\ UNCHANGED <<safe, asleep, sync, active, signaler, toSend, sender>>
(* None is there: the read puts the queue to sleep.                        *)
FindsNone(r) ==
  /\ receiver[r].pc \in {"get", "more"}
  /\ IF safe \/ active THEN ~HasCommand /\ asleep' = TRUE ELSE UNCHANGED asleep
  /\ active' = FALSE
  /\ LET blocks == receiver[r].pc = "get" /\ receiver[r].block
     IN Goes(r, IF blocks THEN "wait" ELSE "poll")
  /\ sync' = IF safe THEN "nobody" ELSE sync
  /\ UNCHANGED <<safe, cpipe, signaler, toSend, sender, messages, terminated>>

(* mailbox_t: signaler.wait(), recv_failable(), and the read that must     *)
(* succeed.                                                                *)
Woken(r) ==
  /\ ~safe /\ receiver[r].pc \in {"wait", "poll"} /\ signaler > 0
  /\ signaler' = signaler - 1 /\ active' = TRUE
  /\ IF HasCommand THEN Process /\ Goes(r, "more")
     ELSE Goes(r, "assert") /\ UNCHANGED <<cpipe, messages, terminated>>
  /\ UNCHANGED <<safe, asleep, sync, toSend, sender>>
(* mailbox_safe_t: the lock is had again, and another thread may have      *)
(* fetched the command.                                                    *)
WokenSafe(r) ==
  /\ receiver[r].pc = "woken" /\ SyncFree
  /\ sync' = r
  /\ IF HasCommand THEN Process /\ Goes(r, "more") /\ UNCHANGED asleep
     ELSE Goes(r, "again") /\ asleep' = TRUE /\ UNCHANGED <<cpipe, messages, terminated>>
  /\ UNCHANGED <<safe, active, signaler, toSend, sender>>

(* process_commands() has returned; recv() tries again, unless it may not  *)
(* block or its time is over.                                              *)
Again(r) ==
  /\ receiver[r].pc = "again"
  /\ IF terminated THEN Leaves(r, "ETERM") /\ UNCHANGED messages
     ELSE IF messages > 0 THEN Take /\ Leaves(r, "ok")
     ELSE /\ \/ receiver' = [receiver EXCEPT ![r].pc = "get", ![r].block = TRUE]
             \/ Leaves(r, "EAGAIN")
          /\ UNCHANGED messages
  /\ sync' = IF safe /\ ~InCall(r)' THEN "nobody" ELSE sync
  /\ UNCHANGED <<safe, cpipe, asleep, active, signaler, toSend, sender, terminated>>

(* No signal has come in time.                                             *)
TimesOut(r) ==
  /\ receiver[r].pc \in {"wait", "poll"}
  /\ IF safe THEN SyncFree /\ sync' = r ELSE signaler = 0 /\ UNCHANGED sync
  /\ Goes(r, "again")
  /\ UNCHANGED <<safe, cpipe, asleep, active, signaler, toSend, sender, messages, terminated>>

MailInit ==
  /\ safe \in BOOLEAN
  /\ cpipe = <<>> /\ asleep = TRUE /\ sync = "nobody"
  /\ active = FALSE /\ signaler = 0
  /\ toSend \in Commands
  /\ sender = [p \in Senders |-> "idle"]
  /\ receiver = [r \in Receivers |-> [pc |-> "out", block |-> FALSE, result |-> "none"]]
  /\ messages = 0 /\ terminated = FALSE
(* Only one thread uses a socket that is not thread-safe.                  *)
MayRun(r) == safe \/ r = CHOOSE x \in Receivers : TRUE
MailNext ==
  \/ \E p \in Senders : SendLocks(p) \/ WriteFlush(p) \/ Signal(p) \/ SendEnds(p)
  \/ \E r \in Receivers :
       MayRun(r) /\ \/ RecvBegins(r) \/ ReadCommand(r) \/ FindsNone(r) \/ Woken(r)
                    \/ WokenSafe(r) \/ Again(r) \/ TimesOut(r)
MailSpec == MailInit /\ [][MailNext]_mailvars

-----------------------------------------------------------------------------
(* Properties.                                                             *)

(* A thread that waits for commands is woken: nobody waits without a       *)
(* timeout while there are commands, messages or the termination to see,   *)
(* unless a signal is on its way, although one command may bring messages  *)
(* for several threads and any thread may fetch it (mailbox_safe_t::recv). *)
NobodySleepsOn ==
  \A r \in Receivers :
    receiver[r].pc = "wait" =>
      \/ ~HasCommand /\ messages = 0 /\ ~terminated
      \/ signaler > 0
      \/ \E p \in Senders : sender[p] = "signal"

(* Every signal is for a command that is still there: the assertion after  *)
(* the signaler was read holds, and signals do not pile up                 *)
(* (mailbox_t::recv).                                                      *)
SignalMeansCommand ==
  /\ signaler + Cardinality({p \in Senders : ~safe /\ sender[p] = "signal"}) <= 1
  /\ \A r \in Receivers : receiver[r].pc # "assert"
=============================================================================
