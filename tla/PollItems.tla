----------------------------- MODULE PollItems ------------------------------
(***************************************************************************)
(* zmq.poll(), zmq.poll.free(), zmq.poll.length() and                      *)
(* zmq.poll.get.revents() (R/R_zmq_poll.r, src/R_zmq_poll.c): one global   *)
(* array of poll items, allocated by each poll and freed by the next one   *)
(* or by the user.  The bundled zmq_poll() fills in the items' revents     *)
(* while the I/O threads deliver messages: it sleeps on the descriptors of *)
(* the sockets' mailboxes, which an I/O thread signals only when the       *)
(* reader of a pipe has gone to sleep (pipe.cpp, ypipe.hpp, mailbox.cpp).  *)
(* Each socket reads from one pipe here.                                   *)
(***************************************************************************)
EXTENDS Naturals, Integers, Sequences, FiniteSets

CONSTANTS
  PollSocks, \* sockets
  Writers,   \* those that can also send; the others are PULL or SUB sockets
  PollLists, \* arguments of zmq.poll(): sequences of sockets with events
  Closable,  \* sockets the user may close
  MaxIn,     \* messages a socket queues
  MaxLeaks   \* bound on the arrays that are never freed

Events == SUBSET {"in", "out"}

ASSUME PollAssumption ==
  /\ PollLists \subseteq Seq([sock : PollSocks, events : Events \ {{}}])
  /\ Writers \subseteq PollSocks /\ Closable \subseteq PollSocks
  /\ MaxIn \in Nat \ {0} /\ MaxLeaks \in Nat \ {0}

VARIABLES
  alloc,     \* whether PBD_POLLITEM points to an array ("yes", "no")
  pitems,    \* the array; Len(pitems) is PBD_POLLITEM_LENGTH
  leaks,     \* arrays no pointer leads to any more
  at,        \* "user", or where the R thread is in zmq_poll()
  timeout,   \* "zero", "finite" or "forever"
  pass,      \* "first" or "later"
  idx,       \* item that is being scanned
  nevents,
  found,     \* what the last zmq.poll() returned; Jumped if it did not
  inq,       \* inq[s]: messages written to the pipe and not read
  reading,   \* reading[s]: state of the reading end of the pipe
  signal,    \* sockets whose mailbox descriptor is signalled
  writable,  \* sockets that can take a message
  closed,    \* sockets the user has closed
  received   \* sockets received from since the last poll

heapvars == <<alloc, pitems, leaks>>
waitvars == <<timeout, pass, idx, nevents>>
sockvars == <<inq, reading, signal, writable, closed>>
itemvars == <<heapvars, at, waitvars, found, sockvars, received>>

Unset  == {"uninitialised"}
Item   == [sock : PollSocks, events : Events, revents : Events \cup {Unset}]
Failed == -1
Jumped == -2

------------------------------------------------------------------------------
(* The array of poll items.                                                *)

(* R_zmq_poll_free() does nothing when the length is 0.                    *)
Freed == IF pitems # <<>> THEN alloc' = "no" /\ pitems' = <<>>
                         ELSE UNCHANGED <<alloc, pitems>>

(* zmq.poll.free() called by the user.                                     *)
Free == /\ at = "user"
        /\ Freed
        /\ UNCHANGED <<leaks, at, waitvars, found, sockvars, received>>

(* Bug: zmq.poll() does not call zmq.poll.free().                          *)
AllocatesOnly(new) ==
  /\ leaks' = IF alloc = "yes" THEN leaks + 1 ELSE leaks
  /\ alloc' = "yes" /\ pitems' = new

(* zmq.poll.free() and malloc(): an array that was not freed is lost.      *)
Reallocates(new) ==
  /\ leaks' = IF alloc = "yes" /\ pitems = <<>> THEN leaks + 1 ELSE leaks
  /\ alloc' = "yes" /\ pitems' = new

(* The end of R_zmq_poll(): with check.eintr a pending interrupt jumps out *)
(* of the call, which then returns nothing.  The locals are gone.          *)
Returns(r) == /\ at' = "user" /\ found' \in {r, Jumped}
              /\ pass' = "first" /\ idx' = 1 /\ nevents' = 0

(* zmq.poll() up to the loop of zmq_poll(): the items' sockets and events  *)
(* are set, their revents are not.  Without items zmq_poll() sleeps and    *)
(* returns.  It fails with ENOTSOCK when it asks a closed socket for its   *)
(* descriptor.                                                             *)
Poll(p, t) ==
  /\ at = "user" /\ leaks < MaxLeaks
  /\ Reallocates([n \in DOMAIN p |-> [sock    |-> p[n].sock,
                                      events  |-> p[n].events,
                                      revents |-> Unset]])
  /\ timeout' = t
  /\ received' = {}
  /\ \/ p = <<>> /\ (Returns(0) \/ Returns(Failed))
     \/ /\ \E n \in DOMAIN p : p[n].sock \in closed
        /\ Returns(Failed)
     \/ /\ p # <<>> /\ \A n \in DOMAIN p : p[n].sock \notin closed
        /\ at' = "wait" /\ UNCHANGED <<pass, idx, nevents, found>>
  /\ UNCHANGED sockvars

------------------------------------------------------------------------------
(* The loop of zmq_poll().                                                 *)

(* poll(): at once in the first pass, later when a descriptor is signalled *)
(* or the time is over.                                                    *)
Wait == /\ at = "wait"
        /\ \/ pass = "first" \/ timeout = "finite"
           \/ \E n \in DOMAIN pitems : pitems[n].sock \in signal
        /\ at' = "scan"
        /\ UNCHANGED <<heapvars, timeout, pass, idx, nevents, found, sockvars,
                       received>>

(* A signal ends poll(), and with it zmq_poll(), which returns -1 (EINTR). *)
WaitInterrupted == /\ at = "wait"
                   /\ Returns(Failed)
                   /\ UNCHANGED <<heapvars, timeout, sockvars, received>>

(* Bug: the pipe is read from before the commands are processed.           *)
HasInStale(s) == reading[s] = "awake" /\ inq[s] > 0

(* has_in() once the mailbox is empty: an activate_read has woken the      *)
(* reader, which sees what is in the pipe.                                 *)
HasIn(s) == reading[s] \in {"awake", "called"} /\ inq[s] > 0

(* Bug: what is pending is reported whether it was asked for or not.       *)
PendingAll(item) == (IF HasIn(item.sock) THEN {"in"} ELSE {})
                    \cup (IF item.sock \in writable THEN {"out"} ELSE {})

(* The events asked for that ZMQ_EVENTS reports of a socket.               *)
Pending(item) == item.events \cap
  ((IF HasIn(item.sock) THEN {"in"} ELSE {})
   \cup (IF item.sock \in writable THEN {"out"} ELSE {}))

(* check_read(), the mailbox emptied: a reader that finds the pipe empty   *)
(* goes to sleep.  One that is being woken up stays asleep until the       *)
(* activate_read has arrived.                                              *)
Check(s) ==
  /\ signal' = signal \ {s}
  /\ reading' = [reading EXCEPT ![s] = IF HasIn(s) THEN "awake"
                                     ELSE IF @ = "woken" THEN "woken"
                                     ELSE "asleep"]

(* Look at one item.                                                       *)
Scan == /\ at = "scan" /\ idx <= Len(pitems)
        /\ pitems' = [pitems EXCEPT ![idx].revents = Pending(pitems[idx])]
        /\ nevents' = nevents + (IF Pending(pitems[idx]) # {} THEN 1 ELSE 0)
        /\ idx' = idx + 1
        /\ Check(pitems[idx].sock)
        /\ UNCHANGED <<at, pass, found>>
        /\ UNCHANGED <<alloc, leaks, timeout, inq, writable, closed, received>>

(* A failing zmq_getsockopt() ends the call with the item's revents 0 and  *)
(* the following ones as they were.                                        *)
ScanFails == /\ at = "scan" /\ idx <= Len(pitems)
             /\ pitems' = [pitems EXCEPT ![idx].revents = {}]
             /\ Returns(Failed)
             /\ UNCHANGED <<alloc, leaks, timeout, sockvars, received>>

(* All items seen: return what was found, or wait for more.                *)
Scanned == /\ at = "scan" /\ idx > Len(pitems)
           /\ \/ /\ \/ nevents > 0 \/ timeout = "zero"
                    \/ timeout = "finite" /\ pass = "later"
                 /\ Returns(nevents)
              \/ /\ nevents = 0 /\ timeout # "zero"
                 /\ at' = "wait" /\ pass' = "later" /\ idx' = 1
                 /\ UNCHANGED <<nevents, found>>
           /\ UNCHANGED <<heapvars, timeout, sockvars, received>>

------------------------------------------------------------------------------
(* The other calls of the user.                                            *)

(* zmq.recv() or zmq.msg.recv() with ZMQ.DONTWAIT().  Commands may be left *)
(* in the mailbox while there is something to read.                        *)
Recv(s) ==
  /\ at = "user" /\ s \notin closed
  /\ IF HasIn(s)
       THEN /\ inq' = [inq EXCEPT ![s] = @ - 1] /\ received' = received \cup {s}
            /\ \/ Check(s)
               \/ reading[s] = "awake" /\ UNCHANGED <<reading, signal>>
       ELSE Check(s) /\ UNCHANGED <<inq, received>>
  /\ UNCHANGED <<heapvars, at, waitvars, found, writable, closed>>

ClosePolled(s) == /\ at = "user" /\ s \in Closable \ closed
                  /\ closed' = closed \cup {s}
                  /\ UNCHANGED <<heapvars, at, waitvars, found, inq, reading,
                                 signal, writable, received>>

------------------------------------------------------------------------------
(* The I/O threads.                                                        *)

(* Bug: flush() does not notice that the reader is asleep.                 *)
ArriveUnnoticed(s) == /\ inq[s] < MaxIn
                      /\ inq' = [inq EXCEPT ![s] = @ + 1]
                      /\ UNCHANGED <<heapvars, at, waitvars, found, reading,
                                     signal, writable, closed, received>>

(* A message is written and flushed: flush() finds out whether the reader  *)
(* is asleep and has to be woken up.                                       *)
Arrive(s) == /\ inq[s] < MaxIn
             /\ inq' = [inq EXCEPT ![s] = @ + 1]
             /\ reading' = [reading EXCEPT ![s] = IF @ = "asleep" THEN "woken"
                                                ELSE @]
             /\ UNCHANGED <<heapvars, at, waitvars, found, signal, writable,
                            closed, received>>

(* The activate_read command that wakes the reader is put in the mailbox.  *)
Activate(s) == /\ reading[s] = "woken"
               /\ reading' = [reading EXCEPT ![s] = "called"]
               /\ signal' = signal \cup {s}
               /\ UNCHANGED <<heapvars, at, waitvars, found, inq, writable,
                              closed, received>>

(* A pipe comes or goes, fills up or drains: a command says so.            *)
PipeCommand(s) == /\ writable' = IF s \in writable THEN writable \ {s}
                                 ELSE writable \cup ({s} \cap Writers)
                  /\ signal' = signal \cup {s}
                  /\ UNCHANGED <<heapvars, at, waitvars, found, inq, reading,
                                 closed, received>>

------------------------------------------------------------------------------
PollInit ==
  /\ alloc = "no" /\ pitems = <<>> /\ leaks = 0
  /\ at = "user" /\ timeout = "zero" /\ pass = "first"
  /\ idx = 1 /\ nevents = 0 /\ found = 0
  /\ inq = [s \in PollSocks |-> 0] /\ reading = [s \in PollSocks |-> "awake"]
  /\ signal = {} /\ writable = {} /\ closed = {} /\ received = {}

PollNext ==
  \/ \E p \in PollLists, t \in {"zero", "finite", "forever"} : Poll(p, t)
  \/ Free
  \/ Wait \/ WaitInterrupted \/ Scan \/ ScanFails \/ Scanned
  \/ \E s \in PollSocks : Recv(s) \/ ClosePolled(s)
  \/ \E s \in PollSocks : Arrive(s) \/ Activate(s) \/ PipeCommand(s)

PollSpec == PollInit /\ [][PollNext]_itemvars

------------------------------------------------------------------------------
(* Properties.                                                             *)

(* Every variable has its type: the type invariant of this module.         *)
PollTypeOK ==
  /\ alloc \in {"yes", "no"} /\ pitems \in Seq(Item)
  /\ (pitems # <<>> => alloc = "yes")
  /\ leaks \in 0 .. MaxLeaks
  /\ at \in {"user", "wait", "scan"}
  /\ timeout \in {"zero", "finite", "forever"} /\ pass \in {"first", "later"}
  /\ idx \in 1 .. Len(pitems) + 1 /\ nevents \in 0 .. Len(pitems)
  /\ found \in Nat \cup {Failed, Jumped}
  /\ inq \in [PollSocks -> 0 .. MaxIn]
  /\ reading \in [PollSocks -> {"awake", "asleep", "woken", "called"}]
  /\ signal \subseteq PollSocks /\ writable \subseteq PollSocks
  /\ closed \subseteq PollSocks /\ received \subseteq PollSocks

(* After a zmq.poll() that did not fail, zmq.poll.get.revents() tells the  *)
(* truth: it returns events that were asked for, as many items have some   *)
(* as zmq.poll() said, none only if the timeout allows it; and a socket    *)
(* reported readable can be received from without blocking, until the user *)
(* has done so.                                                            *)
PollTells ==
  at = "user" /\ found \in Nat /\ pitems # <<>> =>
    /\ \A n \in DOMAIN pitems : pitems[n].revents \subseteq pitems[n].events
    /\ found = Cardinality({n \in DOMAIN pitems : pitems[n].revents # {}})
    /\ timeout = "forever" => found > 0
    /\ \A n \in DOMAIN pitems :
         "in" \in pitems[n].revents /\ pitems[n].sock \notin received
           => HasIn(pitems[n].sock)

(* Every array of poll items is freed by the next zmq.poll() or by         *)
(* zmq.poll.free(), also after a poll that an interrupt jumped out of.     *)
NoLeak == leaks = 0 /\ (alloc = "yes" => pitems # <<>>)

(* The reader of a pipe never sleeps over a message without somebody on    *)
(* the way to wake it, and its activate_read keeps the descriptor that     *)
(* poll() waits for signalled.                                             *)
NoLostWakeup ==
  \A s \in PollSocks : /\ reading[s] = "asleep" => inq[s] = 0
                       /\ reading[s] = "called" => s \in signal

(* Two items are of one socket.                                            *)
GivenTwice(s) ==
  \E m, n \in DOMAIN pitems : m # n /\ pitems[m].sock = s /\ pitems[n].sock = s

(* zmq_poll() never goes to sleep over a message that it was asked for and *)
(* that has come: as long as it waits, after it has found nothing, the     *)
(* descriptor of such a socket is signalled, or an I/O thread is about to  *)
(* signal it.  One case is excepted, a socket that two items are of: the   *)
(* scan of the second one takes the activate_read out of the mailbox that  *)
(* has come after the scan of the first one (zmq.cpp, zmq_poll()).         *)
WaitIsWatched ==
  at = "wait" /\ pass = "later" =>
    \A n \in DOMAIN pitems :
      LET s == pitems[n].sock IN
      "in" \in pitems[n].events /\ inq[s] > 0 /\ ~GivenTwice(s)
        => s \in signal \/ reading[s] = "woken"
==============================================================================
