------------------------------- MODULE Timers -------------------------------
(***************************************************************************)
(* Two lists of timers sorted by the time they are due: timers_t, behind   *)
(* zmq_timers_new() (timers.cpp), whose timers come again and are          *)
(* cancelled by a note, and that of an I/O thread (poller_base.cpp), whose *)
(* timers come once.  Handlers are called in the middle of the walk over   *)
(* the list,  and time passes while they run; they add, cancel and move     *)
(* timers.  A handler that moves its own timer, or calls zmq_timers_       *)
(* timeout() after cancelling it, takes the iterator of the walk away;     *)
(* that is left out, as is an interval of 0, which never ends a walk.      *)
(***************************************************************************)
EXTENDS Integers, Sequences, FiniteSets

LOCAL INSTANCE SequencesExt

CONSTANTS Kinds, Intervals, MaxTimers, MaxTime, MaxHandled

VARIABLES
  owner,       \* "timers" or "poller"
  time,       \* clock.now_ms()
  timers,       \* timers: records of at, id and interval
  cancelled,  \* cancelled_timers
  lastId,     \* next_timer_id
  walk,       \* a running execute(): its now, its iterator, whom it called
  dead        \* timers that a call has cancelled
timervars == <<owner, time, timers, cancelled, lastId, walk, dead>>

NoWalk == [on |-> FALSE, now |-> 0, it |-> 0, in |-> FALSE, called |-> {}, work |-> 0]
Ids == {timers[i].id : i \in DOMAIN timers}
Place(l, id) == CHOOSE i \in DOMAIN l : l[i].id = id
Entry(l, id) == l[Place(l, id)]
Erase(l, id) == RemoveAt(l, Place(l, id))
Insert(l, t) ==
  LET before == SelectSeq(l, LAMBDA u : u.at <= t.at)
  IN before \o <<t>> \o SubSeq(l, Len(before) + 1, Len(l))
Next1(l, id) ==
  IF Place(l, id) = Len(l) THEN 0 ELSE l[Place(l, id) + 1].id
Front1(l) == IF l = <<>> THEN 0 ELSE Head(l).id

-----------------------------------------------------------------------------
(* What the application, or an object of the I/O thread, does, in a        *)
(* handler or between walks.                                               *)

AddTimer(ivl) ==
  /\ lastId < MaxTimers
  /\ lastId' = lastId + 1
  /\ timers' = Insert(timers, [at |-> time + ivl, id |-> lastId + 1, interval |-> ivl])
  /\ UNCHANGED <<cancelled, dead>>

(* cancel() does not look whether there is such a timer; cancel_timer()    *)
(* of an I/O thread must find it.                                          *)
Cancel(id) ==
  /\ id \notin cancelled
  /\ cancelled' = cancelled \cup {id}
  /\ dead' = dead \cup {id}
  /\ UNCHANGED <<timers, lastId>>
CancelTimer(id) ==
  /\ id \in Ids /\ (walk.in => id # walk.it)
  /\ timers' = Erase(timers, id)
  /\ dead' = dead \cup {id}
  /\ UNCHANGED <<cancelled, lastId>>

Moved(id, ivl) ==
  Insert(Erase(timers, id), [at |-> time + ivl, id |-> id, interval |-> ivl])
SetInterval(id, ivl) ==
  /\ id \in Ids /\ (walk.in => id # walk.it)
  /\ timers' = Moved(id, ivl)
  /\ UNCHANGED <<cancelled, lastId, dead>>
ResetTimer(id) ==
  /\ id \in Ids /\ (walk.in => id # walk.it)
  /\ timers' = Moved(id, Entry(timers, id).interval)
  /\ UNCHANGED <<cancelled, lastId, dead>>

Work ==
  \/ \E ivl \in Intervals : AddTimer(ivl)
  \/ \E id \in 1..lastId :
       \/ owner = "timers" /\ (Cancel(id) \/ ResetTimer(id) \/ \E ivl \in Intervals : SetInterval(id, ivl))
       \/ owner = "poller" /\ CancelTimer(id)

Between == ~walk.on /\ Work /\ UNCHANGED <<owner, time, walk>>
InHandler ==
  /\ walk.in /\ walk.work < MaxHandled
  /\ Work
  /\ walk' = [walk EXCEPT !.work = @ + 1]
  /\ UNCHANGED <<owner, time>>
TimePasses ==
  /\ time < MaxTime /\ time' = time + 1
  /\ UNCHANGED <<owner, timers, cancelled, lastId, walk, dead>>

(* timeout() drops cancelled timers at the head of the list; what it   *)
(* returns is -1 if there is none left.                                    *)
LiveFirst == SelectInSeq(timers, LAMBDA t : t.id \notin cancelled)
Dropped == IF LiveFirst = 0 THEN timers ELSE SubSeq(timers, 1, LiveFirst - 1)
TimeoutIs == IF LiveFirst = 0 THEN -1
             ELSE IF timers[LiveFirst].at > time THEN timers[LiveFirst].at - time ELSE 0
Timeout ==
  /\ owner = "timers" /\ ~walk.on
  /\ timers' = SubSeq(timers, Len(Dropped) + 1, Len(timers))
  /\ cancelled' = cancelled \ {t.id : t \in ToSet(Dropped)}
  /\ UNCHANGED <<owner, time, lastId, walk, dead>>

-----------------------------------------------------------------------------
(* execute() and execute_timers().                                         *)

Execute ==
  /\ ~walk.on /\ timers # <<>>
  /\ walk' = [NoWalk EXCEPT !.on = TRUE, !.now = time, !.it = Front1(timers)]
  /\ UNCHANGED <<owner, time, timers, cancelled, lastId, dead>>

DropCancelled ==
  /\ walk.on /\ ~walk.in /\ walk.it \in cancelled
  /\ timers' = Erase(timers, walk.it)
  /\ cancelled' = cancelled \ {walk.it}
  /\ walk' = [walk EXCEPT !.it = Next1(timers, walk.it)]
  /\ UNCHANGED <<owner, time, lastId, dead>>

AtLive == walk.on /\ ~walk.in /\ walk.it # 0 /\ walk.it \notin cancelled
Handle ==
  /\ AtLive /\ Entry(timers, walk.it).at <= walk.now
  /\ walk' = [walk EXCEPT !.in = TRUE, !.called = @ \cup {walk.it}, !.work = 0]
  /\ UNCHANGED <<owner, time, timers, cancelled, lastId, dead>>

(* A timer of timers_t comes again an interval after the walk began, as    *)
(* long as it was when it was called.                                      *)
Again(t) == Insert(Erase(timers, t.id), [t EXCEPT !.at = walk.now + t.interval])
Handled ==
  /\ walk.in
  /\ LET t == Entry(timers, walk.it)
     IN timers' = IF owner = "timers" THEN Again(t) ELSE Erase(timers, t.id)
  /\ walk' = [walk EXCEPT !.in = FALSE, !.it = Next1(timers, walk.it)]
  /\ UNCHANGED <<owner, time, cancelled, lastId, dead>>

Ends ==
  /\ walk.on /\ ~walk.in
  /\ walk.it = 0 \/ (AtLive /\ Entry(timers, walk.it).at > walk.now)
  /\ walk' = [walk EXCEPT !.on = FALSE, !.it = 0]
  /\ UNCHANGED <<owner, time, timers, cancelled, lastId, dead>>

TimerInit ==
  /\ owner \in Kinds
  /\ time = 0 /\ timers = <<>> /\ cancelled = {} /\ lastId = 0 /\ walk = NoWalk /\ dead = {}
TimerNext ==
  Between \/ InHandler \/ TimePasses \/ Timeout \/ Execute \/ DropCancelled \/ Handle \/ Handled \/ Ends
TimerSpec == TimerInit /\ [][TimerNext]_timervars

-----------------------------------------------------------------------------
(* Properties.                                                             *)

(* A handler is called only if its timer is due and no call has cancelled  *)
(* it, not even the handler before it in the same walk.                    *)
CalledInTime ==
  walk.in /\ walk.work = 0 => walk.it \notin dead /\ Entry(timers, walk.it).at <= walk.now

(* A walk leaves no live timer behind that was due when it began, whatever *)
(* the handlers did to the list meanwhile, and a cancelled timer is only   *)
(* noted by timers_t: it stays on the list as long as its note.            *)
NoneOverdue ==
  /\ ~walk.on => \A t \in ToSet(timers) : t.at > walk.now \/ t.id \in cancelled
  /\ \A t \in ToSet(timers) : t.id \in dead => t.id \in cancelled

(* timeout() is the time to the first timer that is neither cancelled nor  *)
(* handled, so that a caller that sleeps as long misses none.              *)
TimeoutRight ==
  LET live == {t \in ToSet(timers) : t.id \notin dead}
  IN owner = "timers" /\ ~walk.on =>
       IF live = {} THEN TimeoutIs = -1
       ELSE /\ \A t \in live : TimeoutIs <= (IF t.at > time THEN t.at - time ELSE 0)
            /\ \E t \in live : TimeoutIs = IF t.at > time THEN t.at - time ELSE 0
=============================================================================
