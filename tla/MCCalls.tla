------------------------------- MODULE MCCalls --------------------------------
(***************************************************************************)
(* Calls of rzmq that send whole things: the one-shot transfers, which     *)
(* make what they are not given, and multipart messages.  A behaviour is   *)
(* one of one of them, `subject'; the other rests in an initial state.     *)
(***************************************************************************)
EXTENDS OneShot, MCMultipart

VARIABLE subject

callvars == <<subject, vars, multivars>>
CallInit ==
  /\ Init /\ MultiInit
  /\ \/ subject = "one-shot" /\ lists = CHOOSE w \in Workloads : TRUE
     \/ subject = "multipart"
OneShotOnly == subject = "one-shot" /\ UNCHANGED <<subject, multivars>>
MultipartOnly == subject = "multipart" /\ UNCHANGED <<subject, vars>>
CallNext == (OneShotOnly /\ Next) \/ (MultipartOnly /\ MultiNext)

(* The fairness of OneShot and of Multipart.                               *)
CallSpec ==
  /\ CallInit /\ [][CallNext]_callvars
  /\ WF_callvars(OneShotOnly /\ waits = None /\ Proceed)
  /\ WF_callvars(OneShotOnly /\ TermReturns /\ UNCHANGED ovars)
  /\ \A c \in Ctxs : WF_callvars(OneShotOnly /\ Reaper(c) /\ UNCHANGED ovars)
  /\ \A s \in Socks : /\ WF_callvars(OneShotOnly /\ CloseListener(s) /\ UNCHANGED ovars)
                      /\ WF_callvars(OneShotOnly /\ Deliver(s) /\ UNCHANGED ovars)
  /\ WF_callvars(MultipartOnly /\ (SCall \/ BadIndex \/ SendPart \/ DropPart \/ Rollback))
  /\ WF_callvars(MultipartOnly /\ PipeTerminated)
  /\ WF_callvars(MultipartOnly /\ Attach)
  /\ WF_callvars(MultipartOnly /\ RecvPart)
=============================================================================
