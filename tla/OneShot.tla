------------------------------ MODULE OneShot -------------------------------
(***************************************************************************)
(* Who creates and who closes what: zmq.sendfile(), zmq.recvfile()         *)
(* (R/R_zmq_transfer.r), zmq.senddir() and zmq.recvdir()                   *)
(* (R/R_zmq_transfers.r) called without a socket, or without a context,    *)
(* make their own and dispose of it at the end; the directory functions    *)
(* call the file functions with the socket they have made.  An R error     *)
(* unwinds all of it.  One R process with the reaper and the I/O threads   *)
(* of its contexts (module Context); how the bytes of a file are           *)
(* transferred is the subject of FileTransfer.                             *)
(***************************************************************************)
EXTENDS Context

CONSTANT Busy   \* ports that another process listens on

ASSUME BusyAssumption == Busy \subseteq Ports
ASSUME SockAssumption == None \notin Socks

VARIABLES
  frames,   \* the active calls, innermost first: [op, own], own being what
            \* the call has to dispose of: "socket" and "ctx"
  pc,       \* where the innermost call is; "user" if there is none
  ctx,      \* their common variable ctx, and
  sock,     \* their common variable socket
  kept,     \* contexts and sockets of the user
  made,     \* contexts and sockets the calls have made
  left      \* of these, the ones of calls that an error or signal cut short

ovars == <<frames, pc, ctx, sock, kept, made, left>>
vars  == <<cvars, ovars>>

Senders == {"sendfile", "senddir"}
Ops     == Senders \cup {"recvfile", "recvdir"}

------------------------------------------------------------------------------
(* Bug: a call that is given a context does not look at the socket.        *)
OwnedByCtx(c, s) == IF c # None THEN {"socket"}
                    ELSE IF s # None THEN {} ELSE {"ctx", "socket"}

(* socket.close and ctx.destroy, from the arguments.                       *)
Owned(c, s) == IF s # None THEN {}
               ELSE IF c # None THEN {"socket"} ELSE {"ctx", "socket"}

Frame(o) == [op |-> o, own |-> Owned(ctx', sock')]
Op  == Head(frames).op
Own == Head(frames).own

Goto(l) == pc' = l /\ UNCHANGED <<frames, ctx, sock, kept, made, left>>

(* What the outermost call has made so far.                                *)
Mine == {ctx, sock} \cap made

(* stop() or error(): nothing of what the calls still had to do is done.   *)
Abort == /\ frames' = <<>> /\ pc' = "user"
         /\ ctx' = None /\ sock' = None
         /\ left' = left \cup Mine
         /\ UNCHANGED <<kept, made>>

(* A new object; which address it gets does not matter.  Ctxs and Socks    *)
(* bound how many there can be.                                            *)
HasFresh(S, st) == \E x \in S : st[x] = "none"
Fresh(S, st)    == CHOOSE x \in S : st[x] = "none"

------------------------------------------------------------------------------
(* The user: makes contexts and sockets of his own, closes them, and calls *)
(* with one, both or none of them.                                         *)
UserMakes ==
  \/ /\ HasFresh(Ctxs, cst) /\ CtxNew(Fresh(Ctxs, cst))
     /\ kept' = kept \cup {Fresh(Ctxs, cst)}
     /\ UNCHANGED <<frames, pc, ctx, sock, made, left>>
  \/ /\ HasFresh(Socks, sst)
     /\ \E c \in kept \cap Ctxs : NewSocket(Fresh(Socks, sst), c)
     /\ kept' = kept \cup {Fresh(Socks, sst)}
     /\ UNCHANGED <<frames, pc, ctx, sock, made, left>>

UserCloses ==
  \E o \in kept :
    /\ \/ o \in Socks /\ Close(o)
       \/ /\ o \in Ctxs /\ Destroy(o)
          /\ \A s \in kept \cap Socks : owner[s] # o
    /\ kept' = kept \ {o}
    /\ UNCHANGED <<frames, pc, ctx, sock, made, left>>

Call(o, c, s) ==
  /\ s # None /\ c # None => owner[s] = c
  /\ s = None => HasFresh(Socks, sst)
  /\ s = None /\ c = None => HasFresh(Ctxs, cst)
  /\ ctx' = c /\ sock' = s
  /\ frames' = <<Frame(o)>>
  /\ pc' = IF s # None THEN "type" ELSE IF c # None THEN "socket" ELSE "ctx"
  /\ UNCHANGED <<cvars, kept, made, left>>

UserActs ==
  /\ pc = "user"
  /\ \/ UserMakes
     \/ UserCloses
     \/ \E o \in Ops, c \in (kept \cap Ctxs) \cup {None},
                      s \in (kept \cap Socks) \cup {None} : Call(o, c, s)

------------------------------------------------------------------------------
(* A call.                                                                 *)

CreateCtx == /\ pc = "ctx"
             /\ CtxNew(Fresh(Ctxs, cst))
             /\ ctx' = Fresh(Ctxs, cst)
             /\ made' = made \cup {ctx'}
             /\ pc' = "socket"
             /\ UNCHANGED <<frames, sock, kept, left>>

CreateSocket == /\ pc = "socket"
                /\ NewSocket(Fresh(Socks, sst), ctx)
                /\ sock' = Fresh(Socks, sst)
                /\ made' = made \cup {sock'}
                /\ pc' = "attach"
                /\ UNCHANGED <<frames, ctx, kept, left>>

(* zmq.bind() of address("*", port): if somebody listens there it fails,   *)
(* with a warning (stop.at.error is FALSE), and the call goes on.          *)
BindSocket == /\ pc = "attach" /\ Op \in Senders
              /\ \E p \in Ports :
                   \/ p \notin Busy /\ Bind(sock, p)
                   \/ /\ p \in Busy \/ \E t \in Socks : bound[t] = p
                      /\ UNCHANGED cvars
              /\ Goto("type")

(* zmq.connect() only starts to connect.                                   *)
ConnectSocket == /\ pc = "attach" /\ Op \notin Senders
                 /\ UNCHANGED cvars
                 /\ Goto("type")

(* The type attribute of the user's socket may be missing or wrong.        *)
CheckType == /\ pc = "type"
             /\ \/ Goto(IF Op \in {"senddir", "recvdir"} THEN "inner" ELSE "transfer")
                \/ sock \in kept /\ Len(frames) = 1 /\ Abort
             /\ UNCHANGED cvars

(* The directory functions call the file functions, after zip().           *)
CallInner == /\ pc = "inner"
             /\ UNCHANGED <<ctx, sock>>
             /\ frames' = <<Frame(IF Op = "senddir" THEN "sendfile"
                                                    ELSE "recvfile")>> \o frames
             /\ pc' = "type"
             /\ UNCHANGED <<cvars, kept, made, left>>

(* A PUSH socket sends when a peer has connected to it; the user's socket  *)
(* is already connected to one.                                            *)
CanSend == sock \in kept \/ bound[sock] # None

(* The transfer itself, which leaves messages queued: it succeeds, or ends *)
(* in an error at some point.  Without a peer it blocks, maybe for ever:   *)
(* nothing makes this step happen.                                         *)
Transfer == /\ pc = "transfer"
            /\ \/ /\ Op \in Senders => CanSend
                  /\ Goto("close")
                  /\ IF Op \in Senders /\ sock \notin pending
                       THEN Queue(sock) ELSE UNCHANGED cvars
               \/ /\ Abort
                  /\ \/ UNCHANGED cvars
                     \/ Op \in Senders /\ CanSend /\ Queue(sock)

(* Bug: the context is destroyed before the socket is closed.              *)
CloseSocketLate == /\ pc = "close"
                   /\ IF "ctx" \in Own THEN Destroy(ctx)
                      ELSE IF "socket" \in Own THEN Close(sock)
                      ELSE UNCHANGED cvars
                   /\ Goto("destroy")

CloseSocket == /\ pc = "close"
               /\ IF "socket" \in Own THEN Close(sock) ELSE UNCHANGED cvars
               /\ Goto("destroy")

(* Bug: a context is destroyed only if nothing is left to be sent.         *)
DestroyCtxIdle == /\ pc = "destroy"
                  /\ IF "ctx" \in Own /\ sock \notin pending
                       THEN Destroy(ctx) ELSE UNCHANGED cvars
                  /\ Goto("return")

DestroyCtx == /\ pc = "destroy"
              /\ IF "ctx" \in Own THEN Destroy(ctx) ELSE UNCHANGED cvars
              /\ Goto("return")

(* The innermost call returns.  The directory functions go on with their   *)
(* own socket, recvdir() after unzip().                                    *)
Return == /\ pc = "return"
          /\ frames' = Tail(frames)
          /\ IF Len(frames) > 1
               THEN pc' = "close" /\ UNCHANGED <<ctx, sock>>
               ELSE pc' = "user" /\ ctx' = None /\ sock' = None
          /\ UNCHANGED <<cvars, kept, made, left>>

(* A signal ends zmq.ctx.destroy(); the call takes no notice.              *)
Interrupted == /\ TermInterrupted
               /\ left' = left \cup Mine
               /\ UNCHANGED <<frames, pc, ctx, sock, kept, made>>

(* The steps that do not wait for a peer.                                  *)
Proceed == \/ CreateCtx \/ CreateSocket \/ BindSocket \/ ConnectSocket
           \/ CheckType \/ CallInner
           \/ CloseSocket \/ DestroyCtx \/ Return

Step == Proceed \/ Transfer

------------------------------------------------------------------------------
Init == /\ CtxInit
        /\ frames = <<>> /\ pc = "user" /\ ctx = None /\ sock = None
        /\ kept = {} /\ made = {} /\ left = {}

Next == \/ waits = None /\ (UserActs \/ Step)
        \/ Interrupted
        \/ Library /\ UNCHANGED ovars

Spec == Init /\ [][Next]_vars

(* A call that need not wait for a peer goes on, and the threads of libzmq *)
(* keep running.                                                           *)
FairSpec == /\ Spec
            /\ WF_vars(waits = None /\ Proceed)
            /\ WF_vars(TermReturns /\ UNCHANGED ovars)
            /\ \A c \in Ctxs : WF_vars(Reaper(c) /\ UNCHANGED ovars)
            /\ \A s \in Socks : /\ WF_vars(CloseListener(s) /\ UNCHANGED ovars)
                                /\ WF_vars(Deliver(s) /\ UNCHANGED ovars)

------------------------------------------------------------------------------
(* Properties.                                                             *)

(* Every variable has its type: the type invariant of this module.         *)
TypeOK ==
  /\ CtxTypeOK
  /\ frames \in Seq([op : Ops, own : SUBSET {"ctx", "socket"}])
  /\ pc \in {"user", "ctx", "socket", "attach", "type", "inner", "transfer",
             "close", "destroy", "return"}
  /\ pc = "user" <=> frames = <<>>
  /\ ctx \in Ctxs \cup {None} /\ sock \in Socks \cup {None}
  /\ kept \subseteq Ctxs \cup Socks /\ made \subseteq Ctxs \cup Socks
  /\ left \subseteq made /\ kept \cap made = {}

(* No call disposes of what it was given: the user's contexts and sockets  *)
(* stay usable, whatever is called with them and however it ends.          *)
CallerKeeps ==
  /\ TypeOK
  /\ \A o \in kept : IF o \in Socks THEN sst[o] = "open" /\ cst[owner[o]] = "live"
                     ELSE cst[o] = "live"

(* "The function will create one at the beginning and close it after       *)
(* finishing file transfer": once a call has returned, its socket is       *)
(* closed; if the context was its own too, both are gone, what was sent    *)
(* has left the process, and the port is free for the next call.           *)
LeavesNothing ==
  \A o \in made \ (left \cup {ctx, sock}) :
    IF o \in Ctxs THEN cst[o] = "freed"
    ELSE /\ sst[o] # "open"
         /\ owner[o] \in made =>
              sst[o] = "freed" /\ bound[o] = None /\ o \notin pending

(* A call always comes to its transfer, whatever it has to make for it.    *)
(* Once the transfer is over, the call ends, unless messages cannot be     *)
(* delivered; and so does the user's zmq.ctx.destroy(), unless a call that *)
(* ended in an error has left an open socket in the context.  The transfer *)
(* itself may wait for its peer for ever.                                  *)
Blocked == waits # None /\ (Stuck(waits) \/ \E s \in left : s \in SocketsOf(waits))
Opening == pc \in {"ctx", "socket", "attach", "type", "inner"}
Closing == pc \in {"close", "destroy", "return"} \/ waits # None
CallsEnd == /\ Opening ~> pc \in {"user", "transfer"}
            /\ Closing ~> (pc = "user" /\ waits = None) \/ Blocked
=============================================================================
