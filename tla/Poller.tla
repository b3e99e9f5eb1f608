------------------------------- MODULE Poller -------------------------------
(***************************************************************************)
(* The event loop of an I/O thread over each of the mechanisms it is       *)
(* built with: epoll, kqueue, poll, select, devpoll and pollset.  A round  *)
(* of the loop asks the kernel which descriptors are ready and calls the   *)
(* objects that added them.  A call may remove its own descriptor, remove  *)
(* that of an object whose event is still to be handled in this round,     *)
(* and add objects, whose descriptors may have the number of one just      *)
(* closed.  Each mechanism has its own way to recognise what is stale.     *)
(***************************************************************************)
EXTENDS Integers, Sequences, FiniteSets

LOCAL INSTANCE SequencesExt

CONSTANTS
  Mechanisms,  \* those that are looked at
  Sinks,       \* objects that may be added, each once
  FirstSinks,  \* those there at the start
  Fds,         \* numbers of descriptors
  MaxOps       \* what one call does to the poller at most

VARIABLES
  mech,        \* the mechanism
  sink,        \* of every object: "new", "added" or "gone"
  asks,        \* the events it has set (set_pollin, set_pollout)
  entries,     \* poll_entry_t, pollfd or fd_entry_t in the order added
  fdtab,       \* fd_table of poll, devpoll and pollset
  kern,        \* the events the kernel looks for
  round,       \* the events of this round and how far the loop has come
  calling,     \* the object that is being called, or none
  stopping

pollervars == <<mech, sink, asks, entries, fdtab, kern, round, calling, stopping>>

NoSink == "none"
Retired == -1
Lowest(S) == CHOOSE n \in S : \A m \in S : n <= m
Index(o) == CHOOSE i \in DOMAIN entries : entries[i].obj = o
FdOf(o) == entries[Index(o)].fd
Added == {o \in Sinks : sink[o] = "added"}
FreeFds == {f \in Fds : \A o \in Added : FdOf(o) # f}

NoEntry == [obj |-> NoSink, valid |-> FALSE, accepted |-> FALSE, index |-> 0]
KeepsTable == mech \in {"poll", "devpoll", "pollset"}

-----------------------------------------------------------------------------
(* What an object does to the poller.                                      *)

(* rm_fd(): an entry is marked and freed at the end of the round; devpoll  *)
(* has no entries but the table.  The descriptor is closed.                *)
Marked(i) == [entries EXCEPT ![i].fd = Retired]
DevpollRm(i) == RemoveAt(entries, i)
RmEntry(i) == IF mech = "devpoll" THEN DevpollRm(i) ELSE Marked(i)
RmTable(f) == IF KeepsTable THEN [fdtab EXCEPT ![f] = NoEntry] ELSE fdtab
RmFd(o) ==
  /\ entries' = RmEntry(Index(o))
  /\ fdtab' = RmTable(FdOf(o))
  /\ kern' = [kern EXCEPT ![FdOf(o)] = {}]
  /\ sink' = [sink EXCEPT ![o] = "gone"]
  /\ asks' = [asks EXCEPT ![o] = {}]

(* What the kernel looks for after set_pollin() and the like: epoll passes *)
(* it the whole mask, kqueue a filter if its flag changes, poll and select *)
(* pass theirs when they wait.  devpoll and pollset can only add events,   *)
(* so that they remove the descriptor first to take one away.              *)
EpollMod(k, events) == events
KqueueFilter(k, events) == (k \cap events) \cup (events \ k)
PollMask(k, events) == events
SelectSet(k, events) == events
DevpollWrite(k, events) == IF events = {} THEN k ELSE k \cup events
DevpollCtl(k, events) == DevpollWrite({}, events)
PollsetMod(k, events) == k \cup events
PollsetReset(k, events) == PollsetMod({}, events)
KernelAfter(k, events) ==
  CASE mech = "epoll"   -> EpollMod(k, events)
    [] mech = "kqueue"  -> KqueueFilter(k, events)
    [] mech = "poll"    -> PollMask(k, events)
    [] mech = "select"  -> SelectSet(k, events)
    [] mech = "devpoll" -> DevpollCtl(k, events)
    [] mech = "pollset" ->
         IF k \subseteq events THEN PollsetMod(k, events) ELSE PollsetReset(k, events)

(* add_fd(): devpoll accepts no event for a descriptor in the round that   *)
(* it was added in, poll notes the place in its set.  The owner sets       *)
(* pollin first.                                                           *)
Valid(o) == [NoEntry EXCEPT !.obj = o, !.valid = TRUE]
PollAdd(o)    == [Valid(o) EXCEPT !.index = Len(entries) + 1]
DevpollAdd(o) == Valid(o)
PollsetAdd(o) == Valid(o)
TableEntry(o) ==
  CASE mech = "poll"    -> PollAdd(o)
    [] mech = "devpoll" -> DevpollAdd(o)
    [] mech = "pollset" -> PollsetAdd(o)
AddFd(o) ==
  \E f \in {Lowest(FreeFds)} :
    /\ entries' = Append(entries, [fd |-> f, obj |-> o])
    /\ fdtab' = IF KeepsTable THEN [fdtab EXCEPT ![f] = TableEntry(o)] ELSE fdtab
    /\ kern' = [kern EXCEPT ![f] = KernelAfter({}, {"in"})]
    /\ sink' = [sink EXCEPT ![o] = "added"]
    /\ asks' = [asks EXCEPT ![o] = {"in"}]

MaskOf(o) ==
  IF mech = "poll" THEN entries[fdtab[FdOf(o)].index].fd ELSE FdOf(o)
SetEvents(o, events) ==
  /\ asks' = [asks EXCEPT ![o] = events]
  /\ kern' = [kern EXCEPT ![MaskOf(o)] = KernelAfter(@, events)]
  /\ UNCHANGED <<sink, entries, fdtab>>

-----------------------------------------------------------------------------
(* The loop.  An event names the entry and the descriptor it is for; obj   *)
(* is the object that had the descriptor when the kernel was asked.        *)

NoRound == [at |-> "wait", ready |-> <<>>, next |-> 1, rc |-> 0, ops |-> 0,
             pe |-> NoSink, served |-> {}]

(* The order in which the callbacks of one event come; an error is an      *)
(* in_event().  kqueue reports every filter on its own, select counts what *)
(* it has handled.                                                         *)
Order == IF mech = "select" THEN <<"in", "out">> ELSE <<"out", "in">>
CallsOf(event) ==
  LET wanted(e) == e \in event.what
  IN [n \in DOMAIN SelectSeq(Order, wanted) |->
       [obj |-> event.obj, fd |-> event.fd, i |-> event.i, call |-> SelectSeq(Order, wanted)[n]]]

(* The kernel reports some of the events asked for.                        *)
Reports ==
  {w \in [Added -> SUBSET {"in", "out"}] :
     /\ \E o \in Added : w[o] # {}
     /\ \A o \in Added : w[o] \subseteq kern[FdOf(o)]}

Wait ==
  /\ round.at = "wait" /\ ~stopping
  /\ \E w \in Reports :
       LET order == SelectSeq([i \in DOMAIN entries |-> entries[i].obj], LAMBDA o : sink[o] = "added")
           calls == FlattenSeq([n \in DOMAIN order |->
                      CallsOf([obj |-> order[n], fd |-> FdOf(order[n]), i |-> Index(order[n]),
                               what |-> w[order[n]]])])
       IN round' = [NoRound EXCEPT !.at = "dispatch", !.ready = calls, !.rc = Len(calls)]
  /\ UNCHANGED <<mech, sink, asks, entries, fdtab, kern, calling, stopping>>

(* Whom an event goes to.                                                  *)
ByEntry(c) == IF entries[c.i].fd = Retired THEN {} ELSE {entries[c.i].obj}
PollTarget(c) == IF entries[c.i].fd = Retired THEN {} ELSE {fdtab[entries[c.i].fd].obj}
SelectTarget(c) == IF round.rc = 0 THEN {} ELSE ByEntry(c)
DevpollTarget(c) ==
  IF fdtab[c.fd].valid /\ fdtab[c.fd].accepted THEN {fdtab[c.fd].obj} ELSE {}

(* pollset looks the entry up once for every event.                        *)
Current == round.ready[round.next]
BeginsEvent == round.next = 1 \/ round.ready[round.next - 1].fd # Current.fd
PollsetEntry == IF BeginsEvent THEN fdtab[Current.fd].obj ELSE round.pe
PollsetTarget == IF PollsetEntry \in Added THEN {PollsetEntry} ELSE {}

Target(c) ==
  CASE mech \in {"epoll", "kqueue"} -> ByEntry(c)
    [] mech = "poll"    -> PollTarget(c)
    [] mech = "select"  -> SelectTarget(c)
    [] mech = "devpoll" -> DevpollTarget(c)
    [] mech = "pollset" -> PollsetTarget

Dispatch ==
  /\ round.at = "dispatch" /\ calling = NoSink /\ round.next <= Len(round.ready)
  /\ \/ /\ Target(Current) = {}
        /\ round' = [round EXCEPT !.next = @ + 1, !.pe = PollsetEntry]
        /\ UNCHANGED calling
     \/ \E o \in Target(Current) :
          /\ calling' = o
          /\ round' = [round EXCEPT !.ops = 0, !.served = @ \cup {o}, !.pe = PollsetEntry,
                         !.rc = IF mech = "select" THEN @ - 1 ELSE @]
  /\ UNCHANGED <<mech, sink, asks, entries, fdtab, kern, stopping>>

(* in_event() or out_event() at work: objects come and go, and the one     *)
(* called sets or resets its events; a new one sets them all.              *)
ComeOrGo ==
  \/ \E o \in Sinks : sink[o] = "new" /\ FreeFds # {} /\ AddFd(o)
  \/ \E o \in Added : RmFd(o)
Toggle(o, e) == SetEvents(o, IF e \in asks[o] THEN asks[o] \ {e} ELSE asks[o] \cup {e})
Operation == ComeOrGo \/ \E o \in Added \cap {calling}, e \in {"in", "out"} : Toggle(o, e)
CalledWorks ==
  /\ calling # NoSink /\ round.ops < MaxOps
  /\ Operation
  /\ round' = [round EXCEPT !.ops = @ + 1]
  /\ UNCHANGED <<mech, calling, stopping>>
CalledReturns ==
  /\ calling # NoSink
  /\ calling' = NoSink
  /\ round' = [round EXCEPT !.next = @ + 1]
  /\ UNCHANGED <<mech, sink, asks, entries, fdtab, kern, stopping>>

(* The timers that are due come before the wait.                           *)
TimersWork ==
  /\ round.at = "wait" /\ round.ops < MaxOps
  /\ ComeOrGo
  /\ round' = [round EXCEPT !.ops = @ + 1]
  /\ UNCHANGED <<mech, calling, stopping>>

(* The end of a round destroys what was retired; poll finds the indices    *)
(* again, and devpoll accepts what is pending as the next round begins.    *)
Living == SelectSeq(entries, LAMBDA e : e.fd # Retired)
Reindexed(tab, list) ==
  [f \in Fds |-> IF \E i \in DOMAIN list : list[i].fd = f
                   THEN [tab[f] EXCEPT !.index = CHOOSE i \in DOMAIN list : list[i].fd = f]
                   ELSE tab[f]]
AcceptsPending(tab) == [f \in Fds |-> [tab[f] EXCEPT !.accepted = tab[f].valid]]
CleanedUp(cleans) ==
  /\ entries' = IF cleans THEN Living ELSE entries
  /\ fdtab' = AcceptsPending(IF cleans THEN Reindexed(fdtab, Living) ELSE fdtab)

RoundEnds ==
  /\ round.at = "dispatch" /\ calling = NoSink /\ round.next > Len(round.ready)
  /\ CleanedUp(TRUE)
  /\ round' = NoRound
  /\ UNCHANGED <<mech, sink, asks, kern, calling, stopping>>

(* The wait times out, after which only poll leaves out the rest of the    *)
(* round, or is interrupted, after which all do.                           *)
WaitInVain ==
  /\ round.at = "wait" /\ ~stopping
  /\ \E interrupted \in BOOLEAN : CleanedUp(~interrupted /\ mech # "poll")
  /\ round' = NoRound
  /\ UNCHANGED <<mech, sink, asks, kern, calling, stopping>>

(* io_thread_t::process_stop(), from its in_event().                       *)
Stop ==
  /\ calling \in Added /\ ~stopping
  /\ RmFd(calling)
  /\ stopping' = TRUE
  /\ UNCHANGED <<mech, round, calling>>

PollerInit ==
  /\ mech \in Mechanisms
  /\ sink = [o \in Sinks |-> IF o \in FirstSinks THEN "added" ELSE "new"]
  /\ asks = [o \in Sinks |-> IF o \in FirstSinks THEN {"in"} ELSE {}]
  /\ \E order \in SetToSeqs(FirstSinks) :
       LET n == Len(order)
       IN /\ entries = [i \in 1..n |-> [fd |-> i, obj |-> order[i]]]
          /\ fdtab = [f \in Fds |->
                IF f <= n /\ KeepsTable
                  THEN [obj |-> order[f], valid |-> TRUE, accepted |-> TRUE, index |-> f]
                  ELSE NoEntry]
  /\ kern = [f \in Fds |-> IF f <= Cardinality(FirstSinks) THEN {"in"} ELSE {}]
  /\ round = NoRound /\ calling = NoSink /\ stopping = FALSE

PollerNext ==
  Wait \/ Dispatch \/ CalledWorks \/ CalledReturns \/ TimersWork \/ RoundEnds \/ WaitInVain \/ Stop
PollerSpec == PollerInit /\ [][PollerNext]_pollervars

-----------------------------------------------------------------------------
(* Properties.                                                             *)

(* An object is called only as long as its descriptor is added, and only   *)
(* for an event of its own descriptor: not after it was removed in the     *)
(* same round, and not because it got the number of a descriptor that was  *)
(* (retired_fd, fd_entry_t::accepted, the cached size in select_t::loop).  *)
(* pollset_t keeps only the first half: a new object with an old number    *)
(* gets the old one's event (pollset.cpp:219).                             *)
NoStaleCall ==
  calling # NoSink /\ round.ops = 0 /\ ~stopping =>
    /\ calling \in Added
    /\ mech # "pollset" => calling = Current.obj

(* Whoever had an event in a round is called in it, whatever the calls     *)
(* before did to the poller, unless it was removed, or, with devpoll, came *)
(* after the round began.                                                  *)
Forgotten == {c \in ToSet(round.ready) : c.obj \in Added \ round.served}
NobodyMissed ==
  round.at = "dispatch" /\ round.next > Len(round.ready) =>
    \A c \in Forgotten : mech = "devpoll" /\ ~fdtab[c.fd].accepted

(* The kernel looks for exactly the events that the owner of a descriptor  *)
(* has set and not reset, across removals, numbers used again and the      *)
(* compaction of the table (set_pollin, reset_pollin and the like).        *)
PollsWhatIsAsked == \A o \in Added : kern[FdOf(o)] = asks[o]
=============================================================================
