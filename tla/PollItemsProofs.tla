-------------------------- MODULE PollItemsProofs ---------------------------
(***************************************************************************)
(* Theorems about PollItems, for any number of sockets, any length of the  *)
(* lists passed to zmq.poll() and any number of queued messages.           *)
(***************************************************************************)
EXTENDS PollItems, FiniteSetTheorems, TLAPS

(* What the wake-up protocol needs of the types.                           *)
PipeType == /\ inq \in [PollSocks -> 0 .. MaxIn]
            /\ reading \in [PollSocks -> {"awake", "asleep", "woken", "called"}]
            /\ pitems \in Seq(Item)
            /\ idx \in Nat \ {0}

(* The inductive invariant: NoLostWakeup needs only the types above.       *)
WakeInv == PipeType /\ NoLostWakeup

(* The elements of a sequence.                                             *)
LEMMA ElementType ==
  ASSUME NEW S, NEW q \in Seq(S), NEW n \in 1 .. Len(q)
  PROVE  q[n] \in S
OBVIOUS

(* The items of a new poll are items, in the order of the arguments.       *)
LEMMA NewItems ==
  ASSUME NEW p \in PollLists
  PROVE  [n \in DOMAIN p |-> [sock    |-> p[n].sock,
                              events  |-> p[n].events,
                              revents |-> Unset]] \in Seq(Item)
<1>1. p \in Seq([sock : PollSocks, events : Events \ {{}}])
  BY PollAssumption
<1>2. DOMAIN p = 1 .. Len(p) /\ Len(p) \in Nat
  BY <1>1
<1>3. \A n \in 1 .. Len(p) : [sock    |-> p[n].sock,
                              events  |-> p[n].events,
                              revents |-> Unset] \in Item
  <2> TAKE n \in 1 .. Len(p)
  <2>1. p[n] \in [sock : PollSocks, events : Events \ {{}}]
    BY <1>1, ElementType
  <2>2. p[n].sock \in PollSocks /\ p[n].events \in Events
    BY <2>1
  <2>3. Unset \in Events \cup {Unset}
    OBVIOUS
  <2> QED BY <2>2, <2>3 DEF Item
<1> QED BY <1>2, <1>3

(* Emptying the mailbox and looking into the pipe puts the reader to sleep *)
(* only over an empty pipe.                                                *)
LEMMA CheckKeeps ==
  ASSUME WakeInv, NEW s \in PollSocks, Check(s),
         inq' \in [PollSocks -> 0 .. MaxIn],
         \A t \in PollSocks : t # s => inq'[t] = inq[t],
         inq'[s] = inq[s] \/ HasIn(s)
  PROVE  /\ NoLostWakeup'
         /\ reading' \in [PollSocks -> {"awake", "asleep", "woken", "called"}]
<1> USE PollAssumption DEF WakeInv, PipeType
<1>1. reading' \in [PollSocks -> {"awake", "asleep", "woken", "called"}]
  BY DEF Check
<1>2. ASSUME NEW t \in PollSocks, reading'[t] = "asleep" PROVE inq'[t] = 0
  <2>1. CASE t = s
    <3>1. ~HasIn(s) /\ reading[s] # "woken" /\ inq'[s] = inq[s]
      BY <1>2, <2>1 DEF Check
    <3>2. reading[s] = "asleep" => inq[s] = 0
      BY DEF NoLostWakeup
    <3>3. reading[s] \in {"awake", "called"} => inq[s] = 0
      BY <3>1 DEF HasIn
    <3> QED BY <2>1, <3>1, <3>2, <3>3
  <2>2. CASE t # s
    BY <1>2, <2>2 DEF Check, NoLostWakeup
  <2> QED BY <2>1, <2>2
<1>3. ASSUME NEW t \in PollSocks, reading'[t] = "called" PROVE t \in signal'
  <2>1. t # s
    BY <1>3 DEF Check, HasIn
  <2> QED BY <1>3, <2>1 DEF Check, NoLostWakeup
<1> QED BY <1>1, <1>2, <1>3 DEF NoLostWakeup

(* A poll that ends goes back to the first item.                           *)
LEMMA ReturnsFirst ==
  ASSUME NEW r, Returns(r)
  PROVE  idx' = 1
BY DEF Returns

(* Every step keeps the invariant.                                         *)
LEMMA WakeStep ==
  ASSUME WakeInv, [PollNext]_itemvars
  PROVE  WakeInv'
<1> USE PollAssumption DEF WakeInv
<1>1. ASSUME NEW p \in PollLists, NEW t \in {"zero", "finite", "forever"}, Poll(p, t)
      PROVE  WakeInv'
  <2>1. pitems' \in Seq(Item)
    BY <1>1, NewItems DEF Poll, Reallocates
  <2>2. idx' \in Nat \ {0}
    BY <1>1, ReturnsFirst DEF Poll, PipeType
  <2>3. UNCHANGED <<inq, reading, signal>>
    BY <1>1 DEF Poll, sockvars
  <2> QED BY <2>1, <2>2, <2>3 DEF PipeType, NoLostWakeup
<1>2. CASE Free
  <2>0. <<>> \in Seq(Item)
    OBVIOUS
  <2>1. pitems' \in Seq(Item)
    <3>1. pitems' = <<>> \/ pitems' = pitems
      BY <1>2 DEF Free, Freed
    <3> QED BY <2>0, <3>1 DEF PipeType
  <2>2. UNCHANGED <<inq, reading, signal, idx>>
    BY <1>2 DEF Free, sockvars, waitvars
  <2> QED BY <2>1, <2>2 DEF PipeType, NoLostWakeup
<1>3. CASE Wait \/ WaitInterrupted
  <2>1. idx' \in Nat \ {0}
    BY <1>3, ReturnsFirst DEF Wait, WaitInterrupted, PipeType
  <2>2. UNCHANGED <<inq, reading, signal, pitems>>
    BY <1>3 DEF Wait, WaitInterrupted, sockvars, heapvars
  <2> QED BY <2>1, <2>2 DEF PipeType, NoLostWakeup
<1>4. CASE Scan \/ ScanFails
  <2>0. idx \in 1 .. Len(pitems) /\ pitems[idx] \in Item /\ pitems[idx].sock \in PollSocks
    <3>1. idx \in Nat \ {0} /\ pitems \in Seq(Item) /\ idx <= Len(pitems)
      BY <1>4 DEF Scan, ScanFails, PipeType
    <3>2. idx \in 1 .. Len(pitems)
      BY <3>1
    <3>3. pitems[idx] \in Item
      BY <3>1, <3>2, ElementType
    <3> QED BY <3>2, <3>3 DEF Item
  <2>1. Pending(pitems[idx]) \in Events
    BY <2>0 DEF Pending, Item, Events
  <2>2. pitems' \in Seq(Item)
    <3>1. PICK v \in Events : pitems' = [pitems EXCEPT ![idx].revents = v]
      BY <1>4, <2>1 DEF Scan, ScanFails, Events
    <3>2. [pitems[idx] EXCEPT !.revents = v] \in Item
      BY <2>0 DEF Item
    <3>3. pitems' = [pitems EXCEPT ![idx] = [pitems[idx] EXCEPT !.revents = v]]
      BY <3>1
    <3> QED BY <2>0, <3>2, <3>3 DEF PipeType
  <2>3. idx' \in Nat \ {0}
    BY <1>4, <2>0, ReturnsFirst DEF Scan, ScanFails
  <2>4. inq' = inq
    BY <1>4 DEF Scan, ScanFails, sockvars
  <2>5. CASE Check(pitems[idx].sock)
    BY <2>0, <2>2, <2>3, <2>4, <2>5, CheckKeeps DEF PipeType
  <2>6. CASE UNCHANGED <<reading, signal>>
    BY <2>2, <2>3, <2>4, <2>6 DEF PipeType, NoLostWakeup
  <2> QED BY <1>4, <2>5, <2>6 DEF Scan, ScanFails, sockvars
<1>5. CASE Scanned
  <2>1. idx' \in Nat \ {0}
    BY <1>5, ReturnsFirst DEF Scanned, PipeType
  <2>2. UNCHANGED <<inq, reading, signal, pitems>>
    BY <1>5 DEF Scanned, sockvars, heapvars
  <2> QED BY <2>1, <2>2 DEF PipeType, NoLostWakeup
<1>6. ASSUME NEW s \in PollSocks, Recv(s) PROVE WakeInv'
  <2>1. UNCHANGED <<pitems, idx>>
    BY <1>6 DEF Recv, heapvars, waitvars
  <2>2. CASE HasIn(s)
    <3>1. inq[s] \in 1 .. MaxIn
      BY <2>2 DEF HasIn, PipeType
    <3>a. inq' = [inq EXCEPT ![s] = inq[s] - 1]
      BY <1>6, <2>2 DEF Recv
    <3>2. Check(s) \/ (reading[s] = "awake" /\ UNCHANGED <<reading, signal>>)
      BY <1>6, <2>2 DEF Recv
    <3>3. /\ inq' \in [PollSocks -> 0 .. MaxIn]
          /\ \A t \in PollSocks : t # s => inq'[t] = inq[t]
      BY <3>1, <3>a DEF PipeType
    <3>4. CASE Check(s)
      BY <2>1, <2>2, <3>3, <3>4, CheckKeeps DEF PipeType
    <3>5. CASE reading[s] = "awake" /\ UNCHANGED <<reading, signal>>
      BY <2>1, <3>3, <3>5 DEF PipeType, NoLostWakeup
    <3> QED BY <3>2, <3>4, <3>5
  <2>3. CASE ~HasIn(s)
    <3>1. Check(s) /\ inq' = inq
      BY <1>6, <2>3 DEF Recv
    <3> QED BY <2>1, <3>1, CheckKeeps DEF PipeType
  <2> QED BY <2>2, <2>3
<1>7. ASSUME NEW s \in PollSocks, ClosePolled(s) PROVE WakeInv'
  <2>1. UNCHANGED <<inq, reading, signal, pitems, idx>>
    BY <1>7 DEF ClosePolled, heapvars, waitvars
  <2> QED BY <2>1 DEF PipeType, NoLostWakeup
<1>8. ASSUME NEW s \in PollSocks, Arrive(s) PROVE WakeInv'
  <2>1. UNCHANGED <<signal, pitems, idx>>
    BY <1>8 DEF Arrive, heapvars, waitvars
  <2>2. inq' \in [PollSocks -> 0 .. MaxIn]
    BY <1>8 DEF Arrive, PipeType
  <2>3. reading' \in [PollSocks -> {"awake", "asleep", "woken", "called"}]
    BY <1>8 DEF Arrive, PipeType
  <2>4. \A t \in PollSocks : reading'[t] = "asleep" => t # s /\ reading[t] = "asleep"
    BY <1>8 DEF Arrive, PipeType
  <2>5. \A t \in PollSocks : reading'[t] = "called" => reading[t] = "called"
    BY <1>8 DEF Arrive, PipeType
  <2>6. \A t \in PollSocks : t # s => inq'[t] = inq[t]
    BY <1>8 DEF Arrive, PipeType
  <2> QED BY <2>1, <2>2, <2>3, <2>4, <2>5, <2>6 DEF PipeType, NoLostWakeup
<1>9. ASSUME NEW s \in PollSocks, Activate(s) PROVE WakeInv'
  <2>1. UNCHANGED <<inq, pitems, idx>>
    BY <1>9 DEF Activate, heapvars, waitvars
  <2>2. reading' \in [PollSocks -> {"awake", "asleep", "woken", "called"}]
    BY <1>9 DEF Activate, PipeType
  <2> QED BY <1>9, <2>1, <2>2 DEF Activate, PipeType, NoLostWakeup
<1>10. ASSUME NEW s \in PollSocks, PipeCommand(s) PROVE WakeInv'
  <2>1. UNCHANGED <<inq, reading, pitems, idx>>
    BY <1>10 DEF PipeCommand, heapvars, waitvars
  <2> QED BY <1>10, <2>1 DEF PipeCommand, PipeType, NoLostWakeup
<1>11. CASE UNCHANGED itemvars
  BY <1>11 DEF itemvars, heapvars, waitvars, sockvars, PipeType, NoLostWakeup
<1> QED
  BY <1>1, <1>2, <1>3, <1>4, <1>5, <1>6, <1>7, <1>8, <1>9, <1>10, <1>11
     DEF PollNext

(* The handshake between zmq_poll(), zmq.recv() and the I/O threads loses  *)
(* no wake-up, for any sockets and any lists of them: a message never lies *)
(* in a pipe whose reader sleeps without somebody on the way to wake it.   *)
THEOREM WakeCorrect == PollSpec => []NoLostWakeup
<1>1. PollInit => WakeInv
  BY PollAssumption DEF PollInit, WakeInv, PipeType, NoLostWakeup
<1>2. WakeInv /\ [PollNext]_itemvars => WakeInv'
  BY WakeStep
<1>3. WakeInv => NoLostWakeup
  BY DEF WakeInv
<1> QED BY <1>1, <1>2, <1>3, PTL DEF PollSpec

------------------------------------------------------------------------------
(* The allocation of the array, if no list is empty.                       *)
LEMMA LeakStep ==
  ASSUME <<>> \notin PollLists, NoLeak, [PollNext]_itemvars
  PROVE  NoLeak'
<1>1. ASSUME NEW p \in PollLists, NEW t \in {"zero", "finite", "forever"}, Poll(p, t)
      PROVE  NoLeak'
  <2>1. p \in Seq([sock : PollSocks, events : Events \ {{}}]) /\ p # <<>>
    BY PollAssumption
  <2>2. 1 \in DOMAIN p
    <3>1. Len(p) \in Nat /\ Len(p) # 0 /\ DOMAIN p = 1 .. Len(p)
      BY <2>1
    <3> QED BY <3>1
  <2>3. DOMAIN pitems' = DOMAIN p /\ leaks' = 0
    BY <1>1 DEF Poll, Reallocates, NoLeak
  <2> QED BY <2>2, <2>3 DEF NoLeak
<1>2. CASE Free
  BY <1>2 DEF Free, Freed, NoLeak
<1>3. CASE Scan \/ ScanFails
  <2>1. UNCHANGED <<alloc, leaks>> /\ DOMAIN pitems' = DOMAIN pitems
    BY <1>3 DEF Scan, ScanFails
  <2>2. CASE alloc = "yes"
    <3>1. idx <= Len(pitems) /\ pitems # <<>>
      BY <1>3, <2>2 DEF Scan, ScanFails, NoLeak
    <3>2. pitems' = <<>> => DOMAIN pitems = {}
      BY <2>1
    <3> QED BY <2>1, <3>1, <3>2 DEF NoLeak
  <2> QED BY <2>1, <2>2 DEF NoLeak
<1>4. CASE UNCHANGED heapvars
  BY <1>4 DEF heapvars, NoLeak
<1> QED
  BY <1>1, <1>2, <1>3, <1>4
     DEF PollNext, Wait, WaitInterrupted, Scanned, Recv, ClosePolled, Arrive,
         Activate, PipeCommand, itemvars

(* zmq.poll() and zmq.poll.free() leak no array of poll items, whatever    *)
(* interrupts, failing calls and jumps out of R_zmq_poll() there are, as   *)
(* long as no list of sockets is empty.                                    *)
THEOREM NoLeakCorrect == ASSUME <<>> \notin PollLists PROVE PollSpec => []NoLeak
<1>1. PollInit => NoLeak
  BY DEF PollInit, NoLeak
<1>2. NoLeak /\ [PollNext]_itemvars => NoLeak'
  BY LeakStep
<1> QED BY <1>1, <1>2, PTL DEF PollSpec

------------------------------------------------------------------------------
(* What a poll tells.  During the poll, the items before the i-th have     *)
(* been looked at: what was found still holds, because only the user       *)
(* receives, and nevents counts those with events.                         *)
Hits(m) == {n \in 1 .. m : pitems[n].revents # {}}
Seen(m) == \A n \in 1 .. m :
             /\ pitems[n].revents \subseteq pitems[n].events
             /\ "in" \in pitems[n].revents /\ pitems[n].sock \notin received
                  => HasIn(pitems[n].sock)

Scanning ==
  /\ at \in {"user", "wait", "scan"}
  /\ at # "scan" => idx = 1 /\ nevents = 0
  /\ at # "user" => /\ idx <= Len(pitems) + 1 /\ Seen(idx - 1)
                    /\ nevents = Cardinality(Hits(idx - 1))

PollInv == WakeInv /\ Scanning /\ PollTells

(* A count of some of the first numbers, and of one more.                  *)
LEMMA CountOne ==
  ASSUME NEW m \in Nat, NEW H \in SUBSET (1 .. m)
  PROVE  /\ IsFiniteSet(H) /\ Cardinality(H) \in Nat
         /\ Cardinality(H \cup {m + 1}) = Cardinality(H) + 1
<1>1. IsFiniteSet(1 .. m)
  BY FS_Interval
<1>2. IsFiniteSet(H) /\ Cardinality(H) \in Nat
  BY <1>1, FS_Subset, FS_CardinalityType
<1>3. m + 1 \notin H
  OBVIOUS
<1> QED BY <1>2, <1>3, FS_AddElement

(* All that changes is what does not matter: a socket with something to    *)
(* read keeps it.                                                          *)
LEMMA TellsKept ==
  ASSUME PollInv, WakeInv', UNCHANGED <<pitems, at, idx, nevents, found, timeout>>,
         received \subseteq received',
         \A s \in PollSocks : HasIn(s) /\ s \notin received'
                            => reading'[s] \in {"awake", "called"} /\ inq'[s] > 0
  PROVE  PollInv'
<1>1. \A n \in DOMAIN pitems : pitems[n].sock \in PollSocks
  <2> TAKE n \in DOMAIN pitems
  <2>1. pitems \in Seq(Item) /\ n \in 1 .. Len(pitems)
    BY DEF PollInv, WakeInv, PipeType
  <2>2. pitems[n] \in Item
    BY <2>1, ElementType
  <2> QED BY <2>2 DEF Item
<1>2. PollTells'
  <2>1. \A n \in DOMAIN pitems : pitems[n].sock \notin received' /\ HasIn(pitems[n].sock)
          => reading'[pitems[n].sock] \in {"awake", "called"} /\ inq'[pitems[n].sock] > 0
    BY <1>1
  <2> QED BY <2>1 DEF PollInv, PollTells, HasIn
<1>3. Scanning'
  <2>1. ASSUME at # "user" PROVE Seen(idx - 1)'
    <3>1. \A n \in 1 .. idx - 1 : n \in DOMAIN pitems
      BY <2>1 DEF PollInv, WakeInv, PipeType, Scanning
    <3>2. \A n \in 1 .. idx - 1 : pitems[n].sock \notin received' /\ HasIn(pitems[n].sock)
            => reading'[pitems[n].sock] \in {"awake", "called"} /\ inq'[pitems[n].sock] > 0
      BY <1>1, <3>1
    <3> QED BY <2>1, <3>2 DEF PollInv, Scanning, Seen, HasIn
  <2>2. (Hits(idx - 1))' = Hits(idx - 1)
    BY DEF Hits
  <2> QED BY <2>1, <2>2 DEF PollInv, Scanning
<1> QED BY <1>2, <1>3 DEF PollInv

(* One more item has been looked at.                                       *)
LEMMA TellsScan ==
  ASSUME PollInv, WakeInv', Scan
  PROVE  PollInv'
<1>1. /\ at = "scan" /\ idx \in Nat /\ idx > 0 /\ idx <= Len(pitems) /\ Seen(idx - 1)
      /\ nevents = Cardinality(Hits(idx - 1)) /\ pitems \in Seq(Item)
      /\ UNCHANGED <<inq, received>>
  BY DEF Scan, PollInv, Scanning, WakeInv, PipeType
<1>2. /\ pitems' = [pitems EXCEPT ![idx].revents = Pending(pitems[idx])]
      /\ nevents' = nevents + (IF Pending(pitems[idx]) # {} THEN 1 ELSE 0)
      /\ idx' = idx + 1
      /\ Check(pitems[idx].sock)
      /\ UNCHANGED <<at, pass, found>>
  BY DEF Scan
<1>3. PollInv'
  <2> DEFINE p == Pending(pitems[idx])
  <2>1. /\ idx \in 1 .. Len(pitems) /\ pitems[idx] \in Item /\ pitems[idx].sock \in PollSocks
        /\ \A n \in DOMAIN pitems : pitems[n].sock \in PollSocks
    <3>1. idx \in 1 .. Len(pitems) /\ DOMAIN pitems = 1 .. Len(pitems)
      BY <1>1
    <3>2. \A n \in 1 .. Len(pitems) : pitems[n] \in Item
      BY <1>1, ElementType
    <3>3. \A n \in 1 .. Len(pitems) : pitems[n].sock \in PollSocks
      BY <3>2 DEF Item
    <3> QED BY <3>1, <3>2, <3>3
  <2>2. /\ DOMAIN pitems' = DOMAIN pitems /\ Len(pitems') = Len(pitems)
        /\ \A n \in 1 .. idx - 1 : pitems'[n] = pitems[n] /\ n \in DOMAIN pitems
        /\ pitems'[idx].revents = p /\ pitems'[idx].sock = pitems[idx].sock
        /\ pitems'[idx].events = pitems[idx].events
    <3>1. pitems' = [pitems EXCEPT ![idx] = [pitems[idx] EXCEPT !.revents = p]]
      BY <1>2
    <3>2. pitems'[idx] = [pitems[idx] EXCEPT !.revents = p]
      BY <1>1, <2>1, <3>1
    <3>3. \A n \in 1 .. idx - 1 : pitems'[n] = pitems[n] /\ n \in DOMAIN pitems
      BY <1>1, <3>1
    <3>4. DOMAIN pitems' = DOMAIN pitems /\ pitems' \in Seq(Item)
      BY <3>1 DEF WakeInv, PipeType
    <3> QED BY <1>1, <2>1, <3>2, <3>3, <3>4 DEF Item
  <2>3. p \subseteq pitems[idx].events /\ ("in" \in p => HasIn(pitems[idx].sock))
    BY DEF Pending
  <2>4. \A s \in PollSocks : HasIn(s) => reading'[s] \in {"awake", "called"} /\ inq'[s] > 0
    BY <1>1, <1>2, <2>1 DEF Check, HasIn, PollInv, WakeInv, PipeType
  <2> HIDE DEF p
  <2>5. \A n \in 1 .. idx :
          /\ pitems'[n].revents \subseteq pitems'[n].events
          /\ "in" \in pitems'[n].revents /\ pitems'[n].sock \notin received
               => reading'[pitems'[n].sock] \in {"awake", "called"} /\ inq'[pitems'[n].sock] > 0
    <3> TAKE n \in 1 .. idx
    <3>1. CASE n = idx
      BY <2>1, <2>2, <2>3, <2>4, <3>1
    <3>2. CASE n \in 1 .. idx - 1
      <4>1. pitems'[n] = pitems[n] /\ pitems[n].sock \in PollSocks
        BY <2>1, <2>2, <3>2
      <4> QED BY <1>1, <2>4, <3>2, <4>1 DEF Seen
    <3> QED BY <1>1, <3>1, <3>2
  <2>6. nevents' = Cardinality({n \in 1 .. idx : pitems'[n].revents # {}})
    <3> DEFINE new == {n \in 1 .. idx : pitems'[n].revents # {}}
    <3>1. \A n \in 1 .. idx - 1 : pitems'[n].revents = pitems[n].revents
      BY <2>2
    <3>2. \A n \in 1 .. idx : n \in 1 .. idx - 1 \/ n = idx
      BY <1>1
    <3>3. idx \in 1 .. idx /\ idx \notin 1 .. idx - 1 /\ \A n \in 1 .. idx - 1 : n \in 1 .. idx
      BY <1>1
    <3>4. new = Hits(idx - 1) \cup (IF p # {} THEN {idx} ELSE {})
      BY <2>2, <3>1, <3>2, <3>3 DEF Hits
    <3>5. Hits(idx - 1) \in SUBSET (1 .. idx - 1) /\ idx - 1 \in Nat /\ (idx - 1) + 1 = idx
      BY <1>1 DEF Hits
    <3>6. /\ Cardinality(Hits(idx - 1)) \in Nat
          /\ Cardinality(Hits(idx - 1) \cup {idx}) = Cardinality(Hits(idx - 1)) + 1
      BY <3>5, CountOne
    <3>7. nevents' = nevents + (IF p # {} THEN 1 ELSE 0)
      BY <1>2 DEF p
    <3> HIDE DEF new
    <3>8. CASE p # {}
      BY <1>1, <3>4, <3>6, <3>7, <3>8 DEF new
    <3>9. CASE p = {}
      <4>1. new = Hits(idx - 1)
        BY <3>4, <3>9
      <4>2. nevents' = nevents
        BY <1>1, <3>6, <3>7, <3>9
      <4> QED BY <1>1, <4>1, <4>2 DEF new
    <3> QED BY <3>8, <3>9
  <2>7. /\ at' = "scan" /\ idx' = idx + 1 /\ idx' - 1 = idx
        /\ idx' <= Len(pitems') + 1 /\ received' = received
    BY <1>1, <1>2, <2>2
  <2>8. Scanning'
    BY <2>5, <2>6, <2>7 DEF Scanning, Seen, Hits, HasIn
  <2> QED BY <2>7, <2>8 DEF PollInv, PollTells
<1> QED BY <1>3

(* All items have been looked at.                                          *)
LEMMA TellsScanned ==
  ASSUME PollInv, WakeInv', Scanned
  PROVE  PollInv'
<1>1. /\ at = "scan" /\ idx \in Nat /\ idx > Len(pitems) /\ idx <= Len(pitems) + 1 /\ Seen(idx - 1)
      /\ nevents = Cardinality(Hits(idx - 1)) /\ pitems \in Seq(Item)
      /\ UNCHANGED <<pitems, timeout, inq, reading, received>>
  BY DEF Scanned, PollInv, Scanning, WakeInv, PipeType, heapvars, sockvars
<1>2. idx - 1 = Len(pitems) /\ 1 .. idx - 1 = DOMAIN pitems /\ Len(pitems) \in Nat
  BY <1>1
<1>3. CASE /\ \/ nevents > 0 \/ timeout = "zero"
              \/ timeout = "finite" /\ pass = "later"
           /\ Returns(nevents)
  <2>1. at' = "user" /\ found' \in {nevents, Jumped} /\ idx' = 1 /\ nevents' = 0
    BY <1>3 DEF Returns
  <2>2. ASSUME found' \in Nat
        PROVE  /\ \A n \in DOMAIN pitems : pitems[n].revents \subseteq pitems[n].events
               /\ found' = Cardinality({n \in DOMAIN pitems : pitems[n].revents # {}})
               /\ timeout = "forever" => found' > 0
               /\ \A n \in DOMAIN pitems :
                    "in" \in pitems[n].revents /\ pitems[n].sock \notin received
                      => HasIn(pitems[n].sock)
    <3>1. found' = nevents
      BY <2>1, <2>2 DEF Jumped
    <3>2. {n \in DOMAIN pitems : pitems[n].revents # {}} = Hits(idx - 1)
      BY <1>2 DEF Hits
    <3> QED BY <1>1, <1>2, <1>3, <3>1, <3>2 DEF Seen
  <2>3. PollTells'
    BY <1>1, <2>2 DEF PollTells, HasIn
  <2> QED BY <2>1, <2>3 DEF PollInv, Scanning
<1>4. CASE nevents = 0 /\ at' = "wait" /\ idx' = 1 /\ UNCHANGED <<nevents, found>>
  <2>1. idx' <= Len(pitems') + 1 /\ idx' - 1 = 0
    BY <1>1, <1>2, <1>4
  <2>2. Cardinality({n \in 1 .. 0 : pitems'[n].revents # {}}) = 0
    <3>1. {n \in 1 .. 0 : pitems'[n].revents # {}} = {}
      OBVIOUS
    <3> QED BY <3>1, FS_EmptySet
  <2> QED BY <1>4, <2>1, <2>2 DEF PollInv, Scanning, Seen, Hits, PollTells
<1> QED BY <1>3, <1>4 DEF Scanned

(* Each step keeps what a poll tells.                                      *)
LEMMA TellsStep ==
  ASSUME PollInv, [PollNext]_itemvars
  PROVE  PollInv'
<1>0. /\ WakeInv' /\ inq \in [PollSocks -> 0 .. MaxIn] /\ idx \in Nat
      /\ reading \in [PollSocks -> {"awake", "asleep", "woken", "called"}]
  BY WakeStep DEF PollInv, WakeInv, PipeType
<1>1. ASSUME NEW p \in PollLists, NEW t \in {"zero", "finite", "forever"}, Poll(p, t)
      PROVE  PollInv'
  <2>1. /\ at = "user" /\ idx = 1 /\ nevents = 0
        /\ pitems' \in Seq(Item) /\ DOMAIN pitems' = DOMAIN p
        /\ p \in Seq([sock : PollSocks, events : Events \ {{}}])
    BY <1>0, <1>1, PollAssumption DEF Poll, Reallocates, PollInv, Scanning, WakeInv, PipeType
  <2>2. CASE p = <<>> /\ (Returns(0) \/ Returns(Failed))
    <3>1. at' = "user" /\ idx' = 1 /\ nevents' = 0 /\ pitems' = <<>>
      BY <2>1, <2>2 DEF Returns
    <3> QED BY <1>0, <3>1 DEF PollInv, Scanning, PollTells
  <2>3. CASE Returns(Failed)
    <3>1. at' = "user" /\ found' \notin Nat /\ idx' = 1 /\ nevents' = 0
      BY <2>3 DEF Returns, Failed, Jumped
    <3> QED BY <1>0, <3>1 DEF PollInv, Scanning, PollTells
  <2>4. CASE at' = "wait" /\ UNCHANGED <<pass, idx, nevents, found>>
    <3>1. idx' <= Len(pitems') + 1 /\ idx' - 1 = 0 /\ idx' = 1 /\ nevents' = 0
      BY <2>1, <2>4
    <3>2. Cardinality({n \in 1 .. 0 : pitems'[n].revents # {}}) = 0
      <4>1. {n \in 1 .. 0 : pitems'[n].revents # {}} = {}
        OBVIOUS
      <4> QED BY <4>1, FS_EmptySet
    <3> QED BY <1>0, <2>4, <3>1, <3>2 DEF PollInv, Scanning, Seen, Hits, PollTells
  <2> QED BY <1>1, <2>2, <2>3, <2>4 DEF Poll
<1>2. CASE Free
  <2>1. /\ at = "user" /\ (pitems' = <<>> \/ pitems' = pitems)
        /\ UNCHANGED <<at, idx, nevents, found, timeout, inq, reading, received>>
    BY <1>2 DEF Free, Freed, waitvars, sockvars
  <2>2. CASE pitems' = <<>>
    BY <1>0, <1>2, <2>1, <2>2 DEF Free, PollInv, Scanning, PollTells
  <2>3. CASE pitems' = pitems
    BY <1>0, <2>1, <2>3, TellsKept DEF HasIn
  <2> QED BY <2>1, <2>2, <2>3
<1>3. CASE Wait
  <2>1. /\ at = "wait" /\ at' = "scan" /\ UNCHANGED <<idx, nevents, found>>
        /\ UNCHANGED <<pitems, timeout, inq, reading, received>>
    BY <1>3 DEF Wait, heapvars, sockvars
  <2> QED BY <1>0, <2>1 DEF PollInv, Scanning, Seen, Hits, PollTells, HasIn
<1>4. CASE Scan
  BY <1>0, <1>4, TellsScan
<1>5. CASE Scanned
  BY <1>0, <1>5, TellsScanned
<1>6. ASSUME NEW s \in PollSocks, Recv(s) PROVE PollInv'
  <2>1. UNCHANGED <<pitems, at, idx, nevents, found, timeout>>
    BY <1>6 DEF Recv, heapvars, waitvars
  <2>2. CASE HasIn(s)
    <3>1. /\ inq' = [inq EXCEPT ![s] = @ - 1] /\ received' = received \cup {s}
          /\ Check(s) \/ UNCHANGED reading
      BY <1>6, <2>2 DEF Recv
    <3>2. \A t \in PollSocks : t # s => inq'[t] = inq[t] /\ reading'[t] = reading[t]
      BY <1>0, <3>1 DEF Check
    <3> QED BY <1>0, <2>1, <3>1, <3>2, TellsKept DEF HasIn
  <2>3. CASE ~HasIn(s)
    <3>1. Check(s) /\ UNCHANGED <<inq, received>>
      BY <1>6, <2>3 DEF Recv
    <3>2. \A t \in PollSocks : t # s => inq'[t] = inq[t] /\ reading'[t] = reading[t]
      BY <1>0, <3>1 DEF Check
    <3> QED BY <1>0, <2>1, <2>3, <3>1, <3>2, TellsKept DEF HasIn
  <2> QED BY <2>2, <2>3
<1>7. ASSUME NEW s \in PollSocks, ClosePolled(s) \/ PipeCommand(s) PROVE PollInv'
  <2>1. UNCHANGED <<pitems, at, idx, nevents, found, timeout, received, inq, reading>>
    BY <1>7 DEF ClosePolled, PipeCommand, heapvars, waitvars
  <2> QED BY <1>0, <2>1, TellsKept DEF HasIn
<1>8. ASSUME NEW s \in PollSocks, Arrive(s) \/ Activate(s) PROVE PollInv'
  <2>1. UNCHANGED <<pitems, at, idx, nevents, found, timeout, received>>
    BY <1>8 DEF Arrive, Activate, heapvars, waitvars
  <2>2. ASSUME NEW t \in PollSocks, HasIn(t)
        PROVE  reading'[t] \in {"awake", "called"} /\ inq'[t] > 0
    BY <1>0, <1>8, <2>2 DEF Arrive, Activate, HasIn
  <2> QED BY <1>0, <2>1, <2>2, TellsKept
<1>9. CASE WaitInterrupted \/ ScanFails
  <2>1. at' = "user" /\ found' \notin Nat /\ idx' = 1 /\ nevents' = 0
    BY <1>9 DEF WaitInterrupted, ScanFails, Returns, Failed, Jumped
  <2> QED BY <1>0, <2>1 DEF PollInv, Scanning, PollTells
<1>10. CASE UNCHANGED itemvars
  <2>1. UNCHANGED <<pitems, at, idx, nevents, found, timeout, received, inq, reading>>
    BY <1>10 DEF itemvars, heapvars, waitvars, sockvars
  <2> QED BY <1>0, <2>1, TellsKept DEF HasIn
<1> QED
  BY <1>1, <1>2, <1>3, <1>4, <1>5, <1>6, <1>7, <1>8, <1>9,
     <1>10 DEF PollNext

(* What zmq.poll.get.revents() returns after a zmq.poll() that did not     *)
(* fail is true, for any sockets and lists of them, whatever the I/O       *)
(* threads did meanwhile: only events that were asked for, as many items   *)
(* as the poll said, and a socket reported readable still is.              *)
THEOREM PollTellsTruth == PollSpec => []PollTells
<1>1. PollInit => PollInv
  <2>1. PollInit => WakeInv
    BY PollAssumption DEF PollInit, WakeInv, PipeType, NoLostWakeup
  <2> QED BY <2>1 DEF PollInit, PollInv, Scanning, PollTells
<1>2. PollInv /\ [PollNext]_itemvars => PollInv'
  BY TellsStep
<1>3. PollInv => PollTells
  BY DEF PollInv
<1> QED BY <1>1, <1>2, <1>3, PTL DEF PollSpec

------------------------------------------------------------------------------
(* Why no message is slept over.  The scan of an item that has no event    *)
(* leaves the reader of its socket asleep or about to be woken, and only a *)
(* look at the same socket, which nobody takes before the next scan, makes *)
(* a reader awake.                                                         *)
Quiet(n) == "in" \in pitems[n].events /\ ~GivenTwice(pitems[n].sock)
              => reading[pitems[n].sock] # "awake"

Watching ==
  /\ at = "user" => pass = "first"
  /\ at = "scan" => \A n \in 1 .. idx - 1 : pitems[n].revents = {} => Quiet(n)
  /\ at = "wait" /\ pass = "later" => \A n \in DOMAIN pitems : Quiet(n)

(* The I/O threads wake readers, but none becomes awake by that.           *)
LEMMA QuietKept ==
  ASSUME Watching, PollInv, UNCHANGED <<pitems, at, idx, pass>>,
         \A s \in PollSocks : reading'[s] = "awake" => reading[s] = "awake"
  PROVE  Watching'
<1>1. \A n \in DOMAIN pitems : pitems[n].sock \in PollSocks
  <2> TAKE n \in DOMAIN pitems
  <2>1. pitems \in Seq(Item) /\ n \in 1 .. Len(pitems)
    BY DEF PollInv, WakeInv, PipeType
  <2>2. pitems[n] \in Item
    BY <2>1, ElementType
  <2> QED BY <2>2 DEF Item
<1>2. \A n \in DOMAIN pitems : Quiet(n) => Quiet(n)'
  BY <1>1 DEF Quiet, GivenTwice
<1>3. at = "scan" => \A n \in 1 .. idx - 1 : n \in DOMAIN pitems
  BY DEF PollInv, Scanning, WakeInv, PipeType
<1>4. at = "scan" => \A n \in 1 .. idx - 1 : pitems[n].revents = {} => Quiet(n)'
  BY <1>2, <1>3 DEF Watching
<1>5. at = "wait" /\ pass = "later" => \A n \in DOMAIN pitems : Quiet(n)'
  BY <1>2 DEF Watching
<1> QED BY <1>4, <1>5 DEF Watching

(* One more item has been looked at.                                       *)
LEMMA QuietScan ==
  ASSUME Watching, PollInv, Scan
  PROVE  Watching'
<1> DEFINE p == Pending(pitems[idx])
           x == pitems[idx].sock
<1>0. pitems' = [pitems EXCEPT ![idx] = [pitems[idx] EXCEPT !.revents = p]]
  BY DEF Scan
<1>1. /\ at = "scan" /\ at' = "scan" /\ idx \in Nat \ {0} /\ idx <= Len(pitems)
      /\ idx' = idx + 1 /\ pitems \in Seq(Item) /\ Check(x)
  BY DEF Scan, PollInv, WakeInv, PipeType
<1>2. \A n \in 1 .. Len(pitems) : pitems[n] \in Item /\ pitems[n].sock \in PollSocks
  <2> TAKE n \in 1 .. Len(pitems)
  <2>1. pitems[n] \in Item
    BY <1>1, ElementType
  <2> QED BY <2>1 DEF Item
<1>3. /\ DOMAIN pitems = 1 .. Len(pitems) /\ DOMAIN pitems' = DOMAIN pitems
      /\ idx \in DOMAIN pitems
      /\ \A n \in DOMAIN pitems : n # idx => pitems'[n] = pitems[n]
      /\ pitems'[idx] = [pitems[idx] EXCEPT !.revents = p]
  BY <1>0, <1>1
<1>4. /\ pitems'[idx].revents = p
      /\ pitems'[idx].sock = x /\ pitems'[idx].events = pitems[idx].events
  BY <1>2, <1>3 DEF Item
<1>5. \A n \in DOMAIN pitems : /\ pitems'[n].sock = pitems[n].sock
                              /\ pitems'[n].events = pitems[n].events
  BY <1>3, <1>4
<1>6. \A s : GivenTwice(s)' <=> GivenTwice(s)
  BY <1>3, <1>5 DEF GivenTwice
<1>7. /\ \A s \in PollSocks : s # x => reading'[s] = reading[s]
      /\ ~HasIn(x) => reading'[x] # "awake"
  BY <1>1, <1>2, <1>3 DEF Check, PollInv, WakeInv, PipeType
<1>8. p = {} /\ "in" \in pitems[idx].events => ~HasIn(x)
  BY DEF Pending
<1>9. ASSUME NEW n \in 1 .. idx, pitems'[n].revents = {},
             "in" \in pitems[n].events, ~GivenTwice(pitems[n].sock)
      PROVE  reading'[pitems[n].sock] # "awake"
  <2>1. n \in DOMAIN pitems
    BY <1>1, <1>3
  <2>2. CASE n = idx
    BY <1>4, <1>7, <1>8, <1>9, <2>2
  <2>3. CASE n # idx
    <3>1. pitems[n].sock # x
      BY <1>3, <1>9, <2>1, <2>3 DEF GivenTwice
    <3>2. n \in 1 .. idx - 1 /\ pitems[n].revents = {}
      BY <1>1, <1>3, <1>9, <2>1, <2>3
    <3>3. reading[pitems[n].sock] # "awake"
      BY <1>1, <1>9, <3>2 DEF Watching, Quiet
    <3> QED BY <1>2, <1>3, <1>7, <2>1, <3>1, <3>3
  <2> QED BY <2>2, <2>3
<1>10. \A n \in 1 .. idx' - 1 : n \in 1 .. idx /\ n \in DOMAIN pitems
  BY <1>1, <1>3
<1> HIDE DEF p, x
<1>11. \A n \in 1 .. idx' - 1 : pitems'[n].revents = {} => Quiet(n)'
  BY <1>5, <1>6, <1>9, <1>10 DEF Quiet
<1> QED BY <1>1, <1>11 DEF Watching

(* All items have been looked at: none has an event if zmq_poll() waits.   *)
LEMMA QuietScanned ==
  ASSUME Watching, PollInv, Scanned
  PROVE  Watching'
<1>1. CASE \E r : Returns(r)
  BY <1>1 DEF Returns, Watching
<1>2. CASE nevents = 0 /\ at' = "wait" /\ pass' = "later"
  <2>1. /\ at = "scan" /\ idx - 1 = Len(pitems) /\ idx \in Nat
        /\ Cardinality(Hits(idx - 1)) = 0 /\ DOMAIN pitems = 1 .. idx - 1
        /\ UNCHANGED <<pitems, reading>>
    BY <1>2 DEF Scanned, PollInv, Scanning, WakeInv, PipeType, heapvars, sockvars
  <2>2. Hits(idx - 1) \in SUBSET (1 .. idx - 1) /\ idx - 1 \in Nat
    BY <2>1 DEF Hits, PollInv, WakeInv, PipeType
  <2>3. Hits(idx - 1) = {}
    BY <2>1, <2>2, CountOne, FS_EmptySet
  <2>4. \A n \in DOMAIN pitems : Quiet(n)
    BY <2>1, <2>3 DEF Hits, Watching
  <2>5. \A n \in DOMAIN pitems : Quiet(n)'
    BY <2>1, <2>4 DEF Quiet, GivenTwice
  <2> QED BY <1>2, <2>1, <2>5 DEF Watching
<1> QED BY <1>1, <1>2 DEF Scanned

(* Every step keeps watch.                                                 *)
LEMMA WatchStep ==
  ASSUME Watching, PollInv, [PollNext]_itemvars
  PROVE  Watching'
<1>1. ASSUME NEW p \in PollLists, NEW t \in {"zero", "finite", "forever"}, Poll(p, t)
      PROVE  Watching'
  BY <1>1 DEF Poll, Returns, Watching
<1>2. CASE Free \/ \E s \in PollSocks : Recv(s) \/ ClosePolled(s)
  BY <1>2 DEF Free, Recv, ClosePolled, waitvars, Watching
<1>3. CASE Wait
  <2>1. at' = "scan" /\ idx' = 1
    BY <1>3 DEF Wait, PollInv, Scanning
  <2> QED BY <2>1 DEF Watching
<1>4. CASE WaitInterrupted \/ ScanFails
  BY <1>4 DEF WaitInterrupted, ScanFails, Returns, Watching
<1>5. CASE Scan
  BY <1>5, QuietScan
<1>6. CASE Scanned
  BY <1>6, QuietScanned
<1>7. ASSUME NEW s \in PollSocks, Arrive(s) \/ Activate(s) \/ PipeCommand(s)
      PROVE  Watching'
  <2>1. UNCHANGED <<pitems, at, idx, pass>>
    BY <1>7 DEF Arrive, Activate, PipeCommand, heapvars, waitvars
  <2>2. \A t \in PollSocks : reading'[t] = "awake" => reading[t] = "awake"
    BY <1>7 DEF Arrive, Activate, PipeCommand, PollInv, WakeInv, PipeType
  <2> QED BY <2>1, <2>2, QuietKept
<1>8. CASE UNCHANGED itemvars
  <2>1. UNCHANGED <<pitems, at, idx, pass, reading>>
    BY <1>8 DEF itemvars, heapvars, waitvars, sockvars
  <2> QED BY <2>1, QuietKept
<1> QED
  BY <1>1, <1>2, <1>3, <1>4, <1>5, <1>6, <1>7, <1>8 DEF PollNext

(* zmq_poll() never goes to sleep over a message that it was asked for, of *)
(* any number of sockets, any of which may be polled by any number of      *)
(* items: only of a socket that is given twice may it miss one.            *)
THEOREM WaitIsWatchedCorrect == PollSpec => []WaitIsWatched
<1>1. PollInit => PollInv /\ Watching
  <2>1. PollInit => WakeInv
    BY PollAssumption DEF PollInit, WakeInv, PipeType, NoLostWakeup
  <2> QED BY <2>1 DEF PollInit, PollInv, Scanning, PollTells, Watching
<1>2. PollInv /\ Watching /\ [PollNext]_itemvars => (PollInv /\ Watching)'
  BY TellsStep, WatchStep
<1>3. PollInv /\ Watching => WaitIsWatched
  <2> SUFFICES ASSUME PollInv, Watching, at = "wait", pass = "later",
                      NEW n \in DOMAIN pitems, "in" \in pitems[n].events,
                      inq[pitems[n].sock] > 0, ~GivenTwice(pitems[n].sock)
               PROVE  \/ pitems[n].sock \in signal
                      \/ reading[pitems[n].sock] = "woken"
    BY DEF WaitIsWatched
  <2>1. pitems[n].sock \in PollSocks
    <3>1. pitems \in Seq(Item) /\ n \in 1 .. Len(pitems)
      BY DEF PollInv, WakeInv, PipeType
    <3>2. pitems[n] \in Item
      BY <3>1, ElementType
    <3> QED BY <3>2 DEF Item
  <2>2. reading[pitems[n].sock] \in {"asleep", "woken", "called"}
    BY <2>1 DEF Watching, Quiet, PollInv, WakeInv, PipeType
  <2> QED BY <2>1, <2>2 DEF PollInv, WakeInv, PipeType, NoLostWakeup
<1> QED BY <1>1, <1>2, <1>3, PTL DEF PollSpec
==============================================================================
