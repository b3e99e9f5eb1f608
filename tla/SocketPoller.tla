---------------------------- MODULE SocketPoller ----------------------------
(***************************************************************************)
(* socket_poller_t, behind zmq_poller_new() (socket_poller.cpp), on poll() *)
(* and on select().  It waits for sockets, for thread-safe sockets, which  *)
(* have no descriptor and signal the poller's own signaler instead, and    *)
(* for descriptors.  Another thread sends the sockets commands at any      *)
(* moment.  Between two calls a mailbox is asleep if and only if it is     *)
(* empty, since process_commands() reads until there is none, so that a    *)
(* command is signalled when the mailbox was empty.                        *)
(***************************************************************************)
EXTENDS Integers, Sequences, FiniteSets

LOCAL INSTANCE SequencesExt

CONSTANTS
  Plains, Safes,  \* sockets, and those that are thread-safe
  Fds,            \* other descriptors
  Low,            \* of all these, whose descriptor is below the signaler's
  Wants,          \* sets of events that are asked for
  MaxSent, MaxItems, MaxEdits

VARIABLES
  backend,     \* "poll" or "select"
  events,      \* what is true of a socket, as it knows, and of a descriptor
  mail,        \* commands in a socket's mailbox: "in", "out" or "stop"
  stopped,     \* sockets whose ctx_terminated is set
  signalers,   \* thread-safe sockets that have the poller's signaler
  signals,     \* in the poller's signaler
  items, rebuildNext, pollfds,  \* items, need_rebuild, the pollset
  waiting,     \* a running wait()
  sent, edits
pollervars == <<backend, events, mail, stopped, signalers, signals, items, rebuildNext, pollfds,
                waiting, sent, edits>>

Socks == Plains \cup Safes
Objects == Socks \cup Fds
Idle == [phase |-> "idle", first |-> TRUE, timeout |-> 0, room |-> 0, ready |-> <<>>, at |-> 0,
         found |-> <<>>]
On(o) == \E i \in DOMAIN items : items[i].obj = o
ItemOf(o) == CHOOSE i \in DOMAIN items : items[i].obj = o

-----------------------------------------------------------------------------
(* The other threads: commands to sockets, what becomes of descriptors,    *)
(* and calls of a thread-safe socket that process its commands.            *)

(* mailbox_safe_t::send(): signalers are told when the reader slept.       *)
Send(s, e) ==
  /\ sent < MaxSent /\ sent' = sent + 1
  /\ mail' = [mail EXCEPT ![s] = Append(@, e)]
  /\ signals' = IF s \in signalers /\ mail[s] = <<>> THEN signals + 1 ELSE signals
  /\ UNCHANGED <<events, stopped>>

ProcessCommands(s) ==
  /\ mail' = [mail EXCEPT ![s] = <<>>]
  /\ events' = [events EXCEPT ![s] = @ \cup (ToSet(mail[s]) \ {"stop"})]
  /\ stopped' = IF "stop" \in ToSet(mail[s]) THEN stopped \cup {s} ELSE stopped

OtherCall(s) ==
  /\ s \notin stopped
  /\ ProcessCommands(s)
  /\ UNCHANGED <<signals, sent>>
FdChanges(f) ==
  /\ sent < MaxSent /\ sent' = sent + 1
  /\ \E e \in SUBSET {"in", "out", "err"} : e # events[f] /\ events' = [events EXCEPT ![f] = e]
  /\ UNCHANGED <<mail, stopped, signals>>

Elsewhere ==
  /\ \/ \E s \in Socks, e \in {"in", "stop"} : Send(s, e)
     \/ \E s \in Safes : OtherCall(s)
     \/ \E f \in Fds : FdChanges(f)
  /\ UNCHANGED <<backend, signalers, items, rebuildNext, pollfds, waiting, edits>>

-----------------------------------------------------------------------------
(* add, modify, remove and their counterparts for descriptors.             *)

Edits ==
  /\ waiting.phase = "idle" /\ edits < MaxEdits /\ edits' = edits + 1
  /\ rebuildNext' = TRUE
  /\ UNCHANGED <<backend, events, mail, stopped, signals, pollfds, waiting, sent>>

NewItem(o, want) == [obj |-> o, events |-> want, index |-> -1]
(* A socket that is stopped cannot be asked whether it is thread-safe.     *)
AddSocket(s, want) ==
  /\ ~On(s) /\ s \notin stopped /\ Len(items) < MaxItems
  /\ items' = Append(items, NewItem(s, want))
  /\ signalers' = signalers \cup ({s} \cap Safes)
AddFd(f, want) ==
  /\ ~On(f) /\ Len(items) < MaxItems
  /\ items' = Append(items, NewItem(f, want))
  /\ UNCHANGED signalers

Modify(o, want) ==
  /\ On(o)
  /\ items' = [items EXCEPT ![ItemOf(o)].events = want]
  /\ UNCHANGED signalers

RemoveSocket(s) ==
  /\ On(s)
  /\ items' = RemoveAt(items, ItemOf(s))
  /\ signalers' = IF s \in stopped THEN signalers ELSE signalers \ {s}
RemoveFd(f) ==
  /\ On(f)
  /\ items' = RemoveAt(items, ItemOf(f))
  /\ UNCHANGED signalers

Edit ==
  /\ Edits
  /\ \/ \E o \in Objects, want \in Wants : Modify(o, want)
     \/ \E s \in Socks : RemoveSocket(s) \/ \E want \in Wants : AddSocket(s, want)
     \/ \E f \in Fds : RemoveFd(f) \/ \E want \in Wants : AddFd(f, want)

-----------------------------------------------------------------------------
(* rebuild(): an entry of the pollset for each item that wants something,  *)
(* one for all thread-safe sockets, and the entry's place in the item of a *)
(* descriptor.  An item that wants nothing keeps the place it had.         *)
Wanted(i) == items[i].events # {}
UseSignaler == \E i \in DOMAIN items : Wanted(i) /\ items[i].obj \in Safes
FirstEntry == IF UseSignaler THEN <<[of |-> "signaler", events |-> {"in"}]>> ELSE <<>>
Polled(i) == Wanted(i) /\ items[i].obj \notin Safes
PolledUpTo(i) == Cardinality({j \in 1..i : Polled(j)})
EntryOf(item) ==
  [of |-> item.obj, events |-> IF item.obj \in Fds THEN item.events ELSE {"in"}]
Pollset ==
  LET own == SelectSeq(items, LAMBDA it : it.events # {} /\ it.obj \notin Safes)
  IN FirstEntry \o [i \in DOMAIN own |-> EntryOf(own[i])]
IndexedUnshifted ==
  [i \in DOMAIN items |->
     IF Polled(i) /\ items[i].obj \in Fds THEN [items[i] EXCEPT !.index = PolledUpTo(i)] ELSE items[i]]
Indexed ==
  [i \in DOMAIN items |->
     IF Polled(i) /\ items[i].obj \in Fds
       THEN [items[i] EXCEPT !.index = Len(FirstEntry) + PolledUpTo(i)] ELSE items[i]]
AnyStopped ==
  \E i \in DOMAIN items : items[i].obj \in stopped /\ (backend = "select" \/ Wanted(i))

(* wait() until it polls.  Without an entry it sleeps and reports nothing. *)
Wait(n, timeout) ==
  /\ waiting.phase = "idle" /\ ~(rebuildNext /\ AnyStopped)
  /\ IF rebuildNext
       THEN pollfds' = Pollset /\ items' = Indexed /\ rebuildNext' = FALSE
       ELSE UNCHANGED <<pollfds, items, rebuildNext>>
  /\ waiting' = IF pollfds' = <<>> THEN Idle
                ELSE [Idle EXCEPT !.phase = "poll", !.room = n, !.timeout = timeout]
  /\ UNCHANGED <<backend, events, mail, stopped, signalers, signals, sent, edits>>

-----------------------------------------------------------------------------
(* What poll() and select() say of an entry.  select() does not look at    *)
(* descriptors above the largest of the items' own: the signaler's is not  *)
(* counted.                                                                *)
Here(entry) ==
  IF entry.of = "signaler" THEN (IF signals > 0 THEN {"in"} ELSE {})
  ELSE IF entry.of \in Plains THEN (IF mail[entry.of] # <<>> THEN {"in"} ELSE {})
  ELSE events[entry.of]
Above(entry) ==
  /\ backend = "select" /\ entry.of = "signaler"
  /\ \A i \in DOMAIN pollfds : pollfds[i].of \in Low \cup {"signaler"}
Says(entry) ==
  IF Above(entry) THEN {}
  ELSE Here(entry) \cap (entry.events \cup IF backend = "poll" THEN {"err"} ELSE {})
PollSays == [i \in DOMAIN pollfds |-> Says(pollfds[i])]
SomeReady == \E i \in DOMAIN pollfds : Says(pollfds[i]) # {}

(* The first pass does not block; the signal is taken before the sockets   *)
(* are asked.                                                              *)
PollIt ==
  /\ waiting.phase = "poll"
  /\ waiting.first \/ waiting.timeout > 0 \/ SomeReady
  /\ waiting' = [waiting EXCEPT !.phase = "check", !.ready = PollSays, !.at = 1, !.found = <<>>]
  /\ signals' = IF pollfds[1].of = "signaler" /\ Says(pollfds[1]) # {} THEN signals - 1 ELSE signals
  /\ UNCHANGED <<backend, events, mail, stopped, signalers, items, rebuildNext, pollfds, sent, edits>>

More == waiting.at <= Len(items) /\ Len(waiting.found) < waiting.room
Report(e) ==
  waiting' = [waiting EXCEPT
    !.at = @ + 1,
    !.found = IF e = {} THEN @ ELSE Append(@, [item |-> items[waiting.at], events |-> e])]

(* A socket says itself what is true of it, after it has processed its     *)
(* commands; once it is stopped the call fails.                            *)
CheckSocket ==
  /\ waiting.phase = "check" /\ More /\ items[waiting.at].obj \in Socks
  /\ LET s == items[waiting.at].obj
     IN IF s \in stopped \/ "stop" \in ToSet(mail[s])
          THEN /\ waiting' = Idle
               /\ IF s \in stopped THEN UNCHANGED <<mail, events, stopped>> ELSE ProcessCommands(s)
          ELSE ProcessCommands(s) /\ Report(items[waiting.at].events \cap events'[s])
  /\ UNCHANGED <<backend, signalers, signals, items, rebuildNext, pollfds, sent, edits>>

(* Of a descriptor that wants nothing, poll() reads the entry that was its *)
(* own before, or the memory before the first.                             *)
Place(item) ==
  IF backend = "poll" THEN item.index
  ELSE SelectInSeq(pollfds, LAMBDA entry : entry.of = item.obj)
CheckFd ==
  /\ waiting.phase = "check" /\ More /\ items[waiting.at].obj \in Fds
  /\ LET k == Place(items[waiting.at])
     IN IF k \in DOMAIN pollfds THEN Report(waiting.ready[k])
        ELSE IF backend = "select" THEN Report({})
        ELSE \E e \in {{}, {"in"}} : Report(e)
  /\ UNCHANGED <<backend, events, mail, stopped, signalers, signals, items, rebuildNext, pollfds,
                 sent, edits>>

(* The end of a pass; a finite timeout ends when the time is over.         *)
PassEnds ==
  /\ waiting.phase = "check" /\ ~More
  /\ \/ /\ waiting.found # <<>> \/ waiting.timeout >= 0
        /\ waiting' = Idle
     \/ /\ waiting.found = <<>> /\ waiting.timeout # 0
        /\ waiting' = [waiting EXCEPT !.phase = "poll", !.first = FALSE, !.ready = <<>>, !.at = 0]
  /\ UNCHANGED <<backend, events, mail, stopped, signalers, signals, items, rebuildNext, pollfds,
                 sent, edits>>

(* The application receives from a socket, and what it knows goes.         *)
Receive(s) ==
  /\ waiting.phase = "idle" /\ "in" \in events[s]
  /\ events' = [events EXCEPT ![s] = @ \ {"in"}]
  /\ UNCHANGED <<backend, mail, stopped, signalers, signals, items, rebuildNext, pollfds, waiting,
                 sent, edits>>

PollerInit ==
  /\ backend \in {"poll", "select"}
  /\ events = [o \in Objects |-> IF o \in Socks THEN {"out"} ELSE {}]
  /\ mail = [s \in Socks |-> <<>>]
  /\ stopped = {} /\ signalers = {} /\ signals = 0
  /\ items = <<>> /\ rebuildNext = TRUE /\ pollfds = <<>> /\ waiting = Idle
  /\ sent = 0 /\ edits = 0
PollerNext ==
  \/ Elsewhere \/ Edit
  \/ \E n \in 1..2, timeout \in {-1, 0, 1} : Wait(n, timeout)
  \/ PollIt \/ CheckSocket \/ CheckFd \/ PassEnds
  \/ \E s \in Socks : Receive(s)
PollerSpec == PollerInit /\ [][PollerNext]_pollervars

-----------------------------------------------------------------------------
(* Properties.                                                             *)

(* A wait() that blocks is woken for whatever an item wants, also for a    *)
(* thread-safe socket whose commands another thread processes, and for     *)
(* what comes between the check of an item and the next poll, and also to  *)
(* be told that the context is terminated.  On                             *)
(* select() that is not so of the signaler when its descriptor is above    *)
(* those of the items (maxfd, socket_poller.cpp).                          *)
ToTell(o) == events[o] \cup IF o \in Socks THEN ToSet(mail[o]) ELSE {}
HasWhatIsWanted(item) ==
  /\ item.events # {}
  /\ item.obj \in stopped \/ ToTell(item.obj) \cap (item.events \cup {"stop"}) # {}
WaitIsWoken ==
  waiting.phase = "poll" /\ ~waiting.first /\ ~(\E i \in DOMAIN pollfds : Above(pollfds[i]))
    => \A i \in DOMAIN items : HasWhatIsWanted(items[i]) => SomeReady

(* What is reported was asked for of that very object, however the items   *)
(* were edited and the pollset rebuilt between two waits; a descriptor may *)
(* also have an error.  A descriptor that wants nothing is left out: it is *)
(* given another's events (modify_fd, socket_poller_t::wait).              *)
ReportsAsked ==
  \A k \in DOMAIN waiting.found :
    LET r == waiting.found[k]
    IN r.item.obj \in Socks \/ r.item.events # {} =>
         /\ r.events \subseteq r.item.events \cup {"err"}
         /\ \A j \in DOMAIN waiting.found : waiting.found[j].item.obj = r.item.obj => j = k
         /\ r.item.obj \in Fds =>
              \E i \in DOMAIN pollfds : pollfds[i].of = r.item.obj /\ r.events = waiting.ready[i]

(* A socket has the poller's signaler exactly while it is on the list, but *)
(* for one that was stopped before it was removed: it keeps the signaler,  *)
(* even when the poller is destroyed (remove, ~socket_poller_t).           *)
SignalersKnown ==
  /\ {s \in Safes : On(s)} \subseteq signalers
  /\ \A s \in signalers : On(s) \/ s \in stopped
=============================================================================
