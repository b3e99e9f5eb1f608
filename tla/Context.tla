------------------------------ MODULE Context -------------------------------
(***************************************************************************)
(* Contexts and sockets: zmq.ctx.new(), zmq.socket(), zmq.bind(),          *)
(* zmq.close() and zmq.ctx.destroy() (R_zmq_context.c, R_zmq_socket.c)     *)
(* with the part of the bundled libzmq that carries them out.  The R       *)
(* thread only asks for a socket to be closed: the context's reaper thread *)
(* takes it over through its mailbox, waits until the I/O threads have     *)
(* closed the listener and delivered what was still queued (ZMQ_LINGER is  *)
(* -1), and frees it; zmq_ctx_term() blocks until the reaper reports that  *)
(* the last socket is gone.                                                *)
(***************************************************************************)
EXTENDS Naturals, Sequences, FiniteSets

CONSTANTS
  Ctxs,          \* contexts
  Socks,         \* sockets
  Ports,         \* ports to bind to
  Unreachable,   \* sockets whose peer never takes what they have queued
  MaxSignals     \* bound on the signals that interrupt zmq_ctx_term()

None == "none"

ASSUME ObjectsAssumption == /\ IsFiniteSet(Socks)
                            /\ Ctxs \cap Socks = {} /\ None \notin Ctxs \cup Ports
                            /\ Unreachable \subseteq Socks
ASSUME SignalAssumption == MaxSignals \in Nat

VARIABLES
  cst,       \* cst[c]: "none", "live", "terminating" or "freed"
  sst,       \* sst[s]: "none", "open", "closed", "reaping", "erased", "freed"
  owner,     \* owner[s]: the context of s
  bound,     \* bound[s]: the port s listens on
  pending,   \* sockets with messages queued and not delivered
  mbox,      \* mbox[c]: commands to the reaper of c
  rcount,    \* rcount[c]: reaper_t::sockets
  rstop,     \* reapers told to stop (reaper_t::terminating)
  done,      \* contexts whose term_mailbox holds the reaper's "done"
  waits,     \* the context whose zmq_ctx_term() the R thread is blocked in
  signals,   \* number of interrupted zmq_ctx_term() calls so far
  misuse     \* pointers passed to libzmq after their object was freed

cvars == <<cst, sst, owner, bound, pending, mbox, rcount, rstop, done, waits,
           signals, misuse>>

------------------------------------------------------------------------------
Reap(s) == [cmd |-> "reap", sock |-> s]
Reaped  == [cmd |-> "reaped", sock |-> None]
Stop    == [cmd |-> "stop", sock |-> None]

(* ctx_t::sockets, and whether ctx_t::starting is over.                    *)
SocketsOf(c) == {s \in Socks : owner[s] = c /\
                               sst[s] \in {"open", "closed", "reaping"}}
Started(c)   == \E s \in Socks : owner[s] = c

Post(c, cmds) == mbox' = [mbox EXCEPT ![c] = @ \o cmds]

------------------------------------------------------------------------------
(* Calls of the R thread.                                                  *)

(* zmq.ctx.new()                                                           *)
CtxNew(c) == /\ cst[c] = "none"
             /\ cst' = [cst EXCEPT ![c] = "live"]
             /\ UNCHANGED <<sst, owner, bound, pending, mbox, rcount, rstop,
                            done, waits, signals, misuse>>

(* zmq.socket(); in a terminating context it fails with ETERM.             *)
NewSocket(s, c) == /\ cst[c] = "live" /\ sst[s] = "none"
                   /\ sst' = [sst EXCEPT ![s] = "open"]
                   /\ owner' = [owner EXCEPT ![s] = c]
                   /\ UNCHANGED <<cst, bound, pending, mbox, rcount, rstop,
                                  done, waits, signals, misuse>>

(* zmq.bind() of a port nobody listens on; otherwise it fails.             *)
Bind(s, p) == /\ sst[s] = "open" /\ bound[s] = None
              /\ cst[owner[s]] = "live"
              /\ \A t \in Socks : bound[t] # p
              /\ bound' = [bound EXCEPT ![s] = p]
              /\ UNCHANGED <<cst, sst, owner, pending, mbox, rcount, rstop,
                             done, waits, signals, misuse>>

(* A message is sent: it waits for the I/O thread and the peer.            *)
Queue(s) == /\ sst[s] = "open" /\ s \notin pending
            /\ cst[owner[s]] = "live"
            /\ pending' = pending \cup {s}
            /\ UNCHANGED <<cst, sst, owner, bound, mbox, rcount, rstop, done,
                           waits, signals, misuse>>

(* zmq_close() marks the socket and hands it to the reaper; it fails on a  *)
(* marked one, and reads memory that is not the socket's any more once the *)
(* reaper has freed it: the external pointer is never cleared.  (What it   *)
(* reads is undefined; here it finds no socket and the call fails.)        *)
Close(s) ==
  /\ \/ /\ sst[s] = "open"
        /\ sst' = [sst EXCEPT ![s] = "closed"]
        /\ Post(owner[s], <<Reap(s)>>)
        /\ UNCHANGED misuse
     \/ /\ sst[s] \in {"closed", "reaping", "erased"}
        /\ UNCHANGED <<sst, mbox, misuse>>
     \/ /\ sst[s] = "freed"
        /\ misuse' = misuse \cup {s}
        /\ UNCHANGED <<sst, mbox>>
  /\ UNCHANGED <<cst, owner, bound, pending, rcount, rstop, done, waits,
                 signals>>

(* Bug: the call returns without waiting (as zmq_ctx_shutdown() does).     *)
DestroyShutdown(c) ==
  /\ cst[c] = "live"
  /\ cst' = [cst EXCEPT ![c] = "terminating"]
  /\ Post(c, IF Started(c) /\ SocketsOf(c) = {} THEN <<Stop>> ELSE <<>>)
  /\ UNCHANGED <<sst, owner, bound, pending, rcount, rstop, done, waits,
                 signals, misuse>>

(* zmq_ctx_term(): a context that never had a socket is freed at once.     *)
(* Otherwise the first call tells the reaper to stop if there is no socket *)
(* left; every call then waits for the reaper.                             *)
Destroy(c) ==
  /\ \/ /\ cst[c] = "live" /\ ~Started(c)
        /\ cst' = [cst EXCEPT ![c] = "freed"]
        /\ UNCHANGED <<mbox, waits, misuse>>
     \/ /\ cst[c] = "live" /\ Started(c)
        /\ cst' = [cst EXCEPT ![c] = "terminating"]
        /\ Post(c, IF SocketsOf(c) = {} THEN <<Stop>> ELSE <<>>)
        /\ waits' = c
        /\ UNCHANGED misuse
     \/ /\ cst[c] = "terminating"
        /\ waits' = c
        /\ UNCHANGED <<cst, mbox, misuse>>
     \/ /\ cst[c] = "freed"
        /\ misuse' = misuse \cup {c}
        /\ UNCHANGED <<cst, mbox, waits>>
  /\ UNCHANGED <<sst, owner, bound, pending, rcount, rstop, done, signals>>

(* The blocked call returns 0, having deleted the context, ...             *)
TermReturns ==
  /\ waits # None /\ waits \in done
  /\ cst' = [cst EXCEPT ![waits] = "freed"]
  /\ done' = done \ {waits}
  /\ waits' = None
  /\ UNCHANGED <<sst, owner, bound, pending, mbox, rcount, rstop, signals,
                 misuse>>

(* ... or -1 with EINTR: the context is left terminating.                  *)
TermInterrupted ==
  /\ waits # None /\ waits \notin done
  /\ signals < MaxSignals
  /\ signals' = signals + 1
  /\ waits' = None
  /\ UNCHANGED <<cst, sst, owner, bound, pending, mbox, rcount, rstop, done,
                 misuse>>

------------------------------------------------------------------------------
(* The reaper thread of context c.                                         *)

(* It is between two commands: not in the middle of freeing a socket.      *)
AtMailbox(c) == \A s \in Socks : owner[s] = c => sst[s] # "erased"

TakesCommand(c, cmd) == /\ AtMailbox(c)
                        /\ mbox[c] # <<>> /\ Head(mbox[c]).cmd = cmd
                        /\ mbox' = [mbox EXCEPT ![c] = Tail(@)]

ProcessReap(c) ==
  /\ TakesCommand(c, "reap")
  /\ sst' = [sst EXCEPT ![Head(mbox[c]).sock] = "reaping"]
  /\ rcount' = [rcount EXCEPT ![c] = @ + 1]
  /\ UNCHANGED <<cst, owner, bound, pending, rstop, done, waits, signals,
                 misuse>>

ProcessStop(c) ==
  /\ TakesCommand(c, "stop")
  /\ rstop' = rstop \cup {c}
  /\ done' = IF rcount[c] = 0 THEN done \cup {c} ELSE done
  /\ UNCHANGED <<cst, sst, owner, bound, pending, rcount, waits, signals,
                 misuse>>

ProcessReaped(c) ==
  /\ TakesCommand(c, "reaped")
  /\ rcount' = [rcount EXCEPT ![c] = @ - 1]
  /\ done' = IF rcount[c] = 1 /\ c \in rstop THEN done \cup {c} ELSE done
  /\ UNCHANGED <<cst, sst, owner, bound, pending, rstop, waits, signals,
                 misuse>>

(* Bug: nobody asks the reaper to stop after the last socket.              *)
EraseSocketSilently(s) ==
  /\ sst[s] = "reaping" /\ AtMailbox(owner[s])
  /\ bound[s] = None /\ s \notin pending
  /\ sst' = [sst EXCEPT ![s] = "erased"]
  /\ UNCHANGED <<cst, owner, bound, pending, mbox, rcount, rstop, done, waits,
                 signals, misuse>>

(* check_destroy() once everything the socket owned has terminated: take   *)
(* it off the context's list, ask the reaper itself to stop if it was the  *)
(* last one of a terminating context, ...                                  *)
EraseSocket(s) ==
  /\ sst[s] = "reaping" /\ AtMailbox(owner[s])
  /\ bound[s] = None /\ s \notin pending
  /\ sst' = [sst EXCEPT ![s] = "erased"]
  /\ Post(owner[s], IF /\ cst[owner[s]] = "terminating"
                       /\ SocketsOf(owner[s]) = {s}
                    THEN <<Stop>> ELSE <<>>)
  /\ UNCHANGED <<cst, owner, bound, pending, rcount, rstop, done, waits,
                 signals, misuse>>

(* ... then, with the context unlocked again, report and deallocate it.    *)
FreeSocket(s) ==
  /\ sst[s] = "erased"
  /\ sst' = [sst EXCEPT ![s] = "freed"]
  /\ Post(owner[s], <<Reaped>>)
  /\ UNCHANGED <<cst, owner, bound, pending, rcount, rstop, done, waits,
                 signals, misuse>>

Reaper(c) == \/ ProcessReap(c) \/ ProcessStop(c) \/ ProcessReaped(c)
             \/ \E s \in Socks : owner[s] = c /\ (EraseSocket(s) \/ FreeSocket(s))

(* The I/O threads: the listener of a socket that is being reaped closes,  *)
(* and messages are delivered.                                             *)
CloseListener(s) == /\ sst[s] = "reaping" /\ bound[s] # None
                    /\ bound' = [bound EXCEPT ![s] = None]
                    /\ UNCHANGED <<cst, sst, owner, pending, mbox, rcount,
                                   rstop, done, waits, signals, misuse>>

Deliver(s) == /\ s \in pending /\ s \notin Unreachable
              /\ pending' = pending \ {s}
              /\ UNCHANGED <<cst, sst, owner, bound, mbox, rcount, rstop,
                             done, waits, signals, misuse>>

IO(s) == CloseListener(s) \/ Deliver(s)

------------------------------------------------------------------------------
(* A user of the functions above: any call, in any order, with any pointer *)
(* the user has been given.                                                *)
User ==
  /\ waits = None
  /\ \/ \E c \in Ctxs : CtxNew(c) \/ Destroy(c)
     \/ \E c \in Ctxs, s \in Socks : NewSocket(s, c)
     \/ \E s \in Socks, p \in Ports : Bind(s, p)
     \/ \E s \in Socks : Queue(s) \/ Close(s)

CtxInit ==
  /\ cst = [c \in Ctxs |-> "none"]
  /\ sst = [s \in Socks |-> "none"]
  /\ owner = [s \in Socks |-> None]
  /\ bound = [s \in Socks |-> None]
  /\ pending = {} /\ rstop = {} /\ done = {} /\ misuse = {}
  /\ mbox = [c \in Ctxs |-> <<>>]
  /\ rcount = [c \in Ctxs |-> 0]
  /\ waits = None /\ signals = 0

(* The threads of libzmq, and the return of a blocked call.                *)
Library == \/ TermReturns
           \/ \E c \in Ctxs : Reaper(c)
           \/ \E s \in Socks : IO(s)

CtxNext == User \/ TermInterrupted \/ Library

CtxSpec == CtxInit /\ [][CtxNext]_cvars

(* The threads of libzmq keep running; the user need not do anything.      *)
LibraryFairness == /\ WF_cvars(TermReturns)
                   /\ \A c \in Ctxs : WF_cvars(Reaper(c))
                   /\ \A s \in Socks : WF_cvars(CloseListener(s)) /\ WF_cvars(Deliver(s))

FairCtxSpec == CtxSpec /\ LibraryFairness

------------------------------------------------------------------------------
(* Properties.                                                             *)

Command == {Stop, Reaped} \cup {Reap(s) : s \in Socks}

(* Every variable has its type: the type invariant of this module.         *)
CtxTypeOK ==
  /\ cst \in [Ctxs -> {"none", "live", "terminating", "freed"}]
  /\ sst \in [Socks -> {"none", "open", "closed", "reaping", "erased", "freed"}]
  /\ owner \in [Socks -> Ctxs \cup {None}]
  /\ \A s \in Socks : sst[s] = "none" <=> owner[s] = None
  /\ bound \in [Socks -> Ports \cup {None}]
  /\ pending \subseteq Socks /\ rstop \subseteq Ctxs /\ done \subseteq Ctxs
  /\ mbox \in [Ctxs -> Seq(Command)]
  /\ rcount \in [Ctxs -> Nat]
  /\ waits \in Ctxs \cup {None}
  /\ signals \in 0 .. MaxSignals
  /\ misuse \subseteq Ctxs \cup Socks

(* A context is deleted last (ctx_t::~ctx_t): when the reaper has reported *)
(* and zmq_ctx_term() is about to return 0, or has, every socket of the    *)
(* context is freed, its port is free for others, what it had to send is   *)
(* delivered, and no command can reach the deleted reaper any more.        *)
FreedLast ==
  \A c \in Ctxs : cst[c] = "freed" \/ c \in done =>
    /\ mbox[c] = <<>>
    /\ \A s \in Socks : owner[s] = c =>
         sst[s] = "freed" /\ bound[s] = None /\ s \notin pending

(* reaper_t counts right: the sockets it is reaping and its own reports of *)
(* freed ones that it has not seen yet; and it is told to stop only once,  *)
(* when the context has no socket left.                                    *)
CommandsAt(c, cmd) == {i \in 1 .. Len(mbox[c]) : mbox[c][i].cmd = cmd}
ReaperCounts ==
  \A c \in Ctxs :
    /\ rcount[c] = Cardinality({s \in Socks : owner[s] = c /\
                                              sst[s] \in {"reaping", "erased"}})
                   + Cardinality(CommandsAt(c, "reaped"))
    /\ Cardinality(CommandsAt(c, "stop")) <= IF c \in rstop THEN 0 ELSE 1
    /\ CommandsAt(c, "stop") # {} \/ c \in rstop => SocketsOf(c) = {}

(* The sockets of c that wait for a peer that never comes.                 *)
Stuck(c) == \E s \in pending \cap Unreachable : owner[s] = c

(* zmq.ctx.destroy() returns if all sockets of the context are closed and  *)
(* their messages can be delivered: whichever way the last step of the     *)
(* reaper and the first of zmq_ctx_term() interleave, somebody tells the   *)
(* reaper to stop, also after an interrupted attempt.                      *)
DestroyReturns ==
  (waits # None /\ \A s \in SocketsOf(waits) : sst[s] # "open")
    ~> (waits = None \/ Stuck(waits))

(* A closed socket is freed and its port released, also when nobody ever   *)
(* destroys the context.                                                   *)
ClosedIsFreed == \A s \in Socks :
  sst[s] = "closed" ~> sst[s] = "freed" \/ s \in pending \cap Unreachable
==============================================================================
