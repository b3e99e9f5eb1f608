----------------------------- MODULE Finalizers -----------------------------
(***************************************************************************)
(* init.context() and init.socket() (R/rzmq_wrapper.r), which promise that *)
(* zmq.ctx.destroy() and zmq.close() are called automatically: each        *)
(* registers a finalizer with the R object.  Finalizers run, one after the *)
(* other, when the garbage collector finds the object unreachable and at   *)
(* the end of the session; zmq.ctx.destroy() blocks while a socket of the  *)
(* context is open, so everything depends on their order.                  *)
(*                                                                         *)
(* R itself is external: reg.finalizer() puts the newest registration      *)
(* first, a collection runs the finalizers it has found before user code   *)
(* goes on, and a finalizer and what it refers to stay reachable as long   *)
(* as the object it is registered with.                                    *)
(***************************************************************************)
EXTENDS Context, SequencesExt

CONSTANTS
  Plain,    \* objects made with zmq.ctx.new() or zmq.socket(), which have no
            \* finalizer: the user closes them
  Clumsy    \* objects the user may close more often than that

ASSUME PlainAssumption == Plain \cup Clumsy \subseteq Ctxs \cup Socks

VARIABLES
  held,    \* objects the user's variables refer to
  refs,    \* objects with a registered finalizer, newest first
  ready,   \* those whose finalizer is to be run
  mode,    \* "user", "finalizing", "quitting" or "ended"
  twice    \* objects the user has closed although they had been closed, or
           \* although they have a finalizer

rvars == <<held, refs, ready, mode, twice>>
vars  == <<cvars, rvars>>

Objects == Ctxs \cup Socks

Registered == {refs[i] : i \in DOMAIN refs}

------------------------------------------------------------------------------
(* init.context(): a context with a finalizer; zmq.ctx.new(): without.     *)
InitContext(c) == /\ CtxNew(c)
                  /\ held' = held \cup {c}
                  /\ refs' = IF c \in Plain THEN refs ELSE <<c>> \o refs
                  /\ UNCHANGED <<ready, mode, twice>>

(* Bug: the context registers after, so that its finalizer runs first.     *)
InitSocketOldest(s, c) == /\ c \in held
                          /\ NewSocket(s, c)
                          /\ held' = held \cup {s}
                          /\ refs' = IF s \in Plain THEN refs ELSE refs \o <<s>>
                          /\ UNCHANGED <<ready, mode, twice>>

(* Bug: zmq.socket() registers a finalizer and init.socket() another one.  *)
InitSocketTwice(s, c) == /\ c \in held
                         /\ NewSocket(s, c)
                         /\ held' = held \cup {s}
                         /\ refs' = IF s \in Plain THEN <<s>> \o refs
                                                   ELSE <<s, s>> \o refs
                         /\ UNCHANGED <<ready, mode, twice>>

(* init.socket(), and zmq.socket().                                        *)
InitSocket(s, c) == /\ c \in held
                    /\ NewSocket(s, c)
                    /\ held' = held \cup {s}
                    /\ refs' = IF s \in Plain THEN refs ELSE <<s>> \o refs
                    /\ UNCHANGED <<ready, mode, twice>>

(* rm(): the user forgets an object.                                       *)
Forget(o) == /\ held' = held \ {o}
             /\ UNCHANGED <<cvars, refs, ready, mode, twice>>

Closed(o) == IF o \in Socks THEN sst[o] # "open" ELSE cst[o] = "freed"

(* zmq.close() or zmq.ctx.destroy() called by the user, of any object at   *)
(* hand: it may have been closed before, and it may have a finalizer, of   *)
(* which R_zmq_close() and R_zmq_ctx_destroy() know nothing.  Only that    *)
(* the sockets come before their context is up to the user.                *)
CloseByHand(o) ==
  /\ \/ /\ o \in Socks
        /\ Close(o)
     \/ /\ o \in Ctxs
        /\ \A s \in SocketsOf(o) : sst[s] # "open"
        /\ Destroy(o)
  /\ twice' = IF o \in Registered \/ Closed(o) THEN twice \cup {o} ELSE twice
  /\ twice' \subseteq Clumsy
  /\ UNCHANGED <<held, refs, ready, mode>>

(* Bug: the finalizer is not a closure over the context.                   *)
KeepsNothing(live) == TRUE

(* The finalizer of init.socket() is a closure made in that call: it keeps *)
(* the call's argument, the context, reachable.  The external pointer of a *)
(* socket does not refer to its context.                                   *)
KeepsContext(live) ==
  \A s \in live \cap Socks \cap Registered : owner[s] \in live

(* The garbage collector retains what is reachable, and perhaps more (it   *)
(* is generational); the finalizers of all other objects run.              *)
Collect == \E live \in SUBSET Objects :
             /\ held \subseteq live /\ KeepsContext(live)
             /\ Registered \ live # {}
             /\ ready' = Registered \ live
             /\ mode' = "finalizing"
             /\ UNCHANGED <<cvars, held, refs, twice>>

(* The end of the session: onexit = TRUE, so all finalizers run, and the   *)
(* user's variables are used no more.                                      *)
Quit == /\ ready' = Registered
        /\ mode' = "quitting"
        /\ held' = {}
        /\ UNCHANGED <<cvars, refs, twice>>

(* Run finalizer i of the list: zmq.ctx.destroy() or zmq.close().     *)
Finalize(i) == /\ refs' = RemoveAt(refs, i)
               /\ ready' = ready \cap Registered'
               /\ IF refs[i] \in Ctxs THEN Destroy(refs[i]) ELSE Close(refs[i])
               /\ UNCHANGED <<held, mode, twice>>

(* R_RunFinalizers walks the list from its newest entry.                   *)
RunFinalizer ==
  /\ mode \in {"finalizing", "quitting"} /\ ready # {}
  /\ \E i \in DOMAIN refs :
       /\ refs[i] \in ready
       /\ \A j \in 1 .. i - 1 : refs[j] \notin ready
       /\ Finalize(i)

FinalizersDone == /\ mode \in {"finalizing", "quitting"} /\ ready = {}
                  /\ mode' = IF mode = "quitting" THEN "ended" ELSE "user"
                  /\ UNCHANGED <<cvars, held, refs, ready, twice>>

(* The user's calls.                                                       *)
UserCall ==
  \/ \E c \in Ctxs : InitContext(c)
  \/ \E c \in Ctxs, s \in Socks : InitSocket(s, c)
  \/ \E o \in held : Forget(o) \/ CloseByHand(o)
  \/ /\ UNCHANGED rvars
     /\ \/ \E s \in held \cap Socks, p \in Ports : Bind(s, p)
        \/ \E s \in held \cap Socks : Queue(s)

RThread == /\ waits = None
           /\ \/ mode = "user" /\ (UserCall \/ Collect \/ Quit)
              \/ RunFinalizer
              \/ FinalizersDone

Init == /\ CtxInit /\ held = {} /\ refs = <<>> /\ ready = {}
        /\ mode = "user" /\ twice = {}

Next == \/ RThread
        \/ (TermInterrupted \/ Library) /\ UNCHANGED rvars

Spec == Init /\ [][Next]_vars

(* The threads of libzmq run (peers take messages unless Unreachable), and *)
(* R goes through a list of finalizers once it has begun.                  *)
FairSpec ==
  /\ Spec
  /\ WF_vars(TermReturns /\ UNCHANGED rvars)
  /\ \A c \in Ctxs : WF_vars(Reaper(c) /\ UNCHANGED rvars)
  /\ \A s \in Socks : /\ WF_vars(CloseListener(s) /\ UNCHANGED rvars)
                      /\ WF_vars(Deliver(s) /\ UNCHANGED rvars)
  /\ WF_vars(waits = None /\ (RunFinalizer \/ FinalizersDone))

------------------------------------------------------------------------------
(* Properties.                                                             *)

(* Every variable has its type: the type invariant of this module.         *)
TypeOK ==
  /\ CtxTypeOK
  /\ held \subseteq Objects /\ ready \subseteq Registered
  /\ refs \in Seq(Objects)
  /\ \A i, j \in DOMAIN refs : refs[i] = refs[j] => i = j
  /\ mode \in {"user", "finalizing", "quitting", "ended"}
  /\ twice \subseteq Objects

(* The finalizer of a context (try.zmq.ctx.destroy in init.context()) runs *)
(* when the finalizers of all its sockets have: R never blocks in          *)
(* zmq_ctx_term() on a socket that only the blocked thread could close.    *)
(* A plain socket the user has left open is the one exception.             *)
SocketsFirst ==
  waits # None => \A s \in SocketsOf(waits) : sst[s] = "open" => s \in Plain

(* Contexts and sockets end in order: every socket is finalized before its *)
(* context, is freed before it, and is counted by its reaper (CtxTypeOK,   *)
(* FreedLast and ReaperCounts of Context).                                 *)
EndInOrder == TypeOK /\ SocketsFirst /\ FreedLast /\ ReaperCounts

(* What the user can still reach has not been destroyed behind his back:   *)
(* no held socket is closed and no context of a held, open socket is       *)
(* terminated by a finalizer before the session ends.  (The sockets closed *)
(* by hand are those in twice.)                                            *)
HeldIsUsable ==
  mode \in {"user", "finalizing"} =>
    \A s \in (held \cap Socks) \ (Plain \cup twice) :
      sst[s] = "open" /\ cst[owner[s]] = "live"

(* R_zmq_close() and R_zmq_ctx_destroy() check for NULL only, and nobody   *)
(* clears the pointers.  A freed object is passed to them only if the user *)
(* has closed it twice, or once although it has a finalizer: of themselves *)
(* the finalizers, also together with closing by hand what has none, use   *)
(* nothing after it was freed.                                             *)
NoUseAfterFree == misuse \subseteq twice

(* random_open_port() relies on this: when the finalizers of a socket and  *)
(* its context have run (gc() after rm()), uninterrupted, the port is free *)
(* for the caller to bind.                                                 *)
PortReleased ==
  mode \in {"user", "ended"} /\ signals = 0 =>
    \A s \in Socks \ Plain :
      waits = None /\ sst[s] # "none" /\ owner[s] \notin Registered \cup Plain
        => bound[s] = None

(* The end of the session is reached: no finalizer blocks for ever, unless *)
(* a plain socket was left open or a message can never be delivered.       *)
QuitEnds ==
  mode = "quitting" ~> \/ mode = "ended"
                       \/ \E s \in Plain \cap Socks : sst[s] = "open"
                       \/ \E c \in Ctxs : Stuck(c)

(* No wait is for ever: zmq.ctx.destroy() returns however the reaper's     *)
(* last command and the first of zmq_ctx_term() interleave, a closed       *)
(* socket is freed and its port released also when nobody destroys the     *)
(* context, and the end of the session is reached.                         *)
NothingHangs == DestroyReturns /\ ClosedIsFreed /\ QuitEnds
=============================================================================
