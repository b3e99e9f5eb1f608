--------------------------- MODULE ContextProofs ----------------------------
(***************************************************************************)
(* Contexts, for any contexts, sockets and ports and any number of         *)
(* signals: the reaper counts right and a context is deleted last.         *)
(***************************************************************************)
EXTENDS Context, FiniteSetTheorems, SequenceTheorems, TLAPS

(* A mailbox holds a command; only reports can come again.                 *)
In(box, c)    == \E k \in 1 .. Len(box) : box[k] = c
NoRepeat(box) == \A j, k \in 1 .. Len(box) :
                    j # k /\ box[j] = box[k] => box[j].cmd = "reaped"
Reports(box)  == {k \in 1 .. Len(box) : box[k].cmd = "reaped"}

(* The sockets that the reaper of c counts.                                *)
InReaper(c) == {s \in Socks : owner[s] = c /\ sst[s] \in {"reaping", "erased"}}

(* Each socket is handed to the reaper once; the reaper is told to stop    *)
(* once, when no socket is left, and there can be none from then on; and   *)
(* a context is done when every socket has been reported.                  *)
ReaperOK(c) ==
  /\ rcount[c] = Cardinality(InReaper(c)) + Cardinality(Reports(mbox[c]))
  /\ NoRepeat(mbox[c])
  /\ \A s \in Socks : In(mbox[c], Reap(s)) => owner[s] = c /\ sst[s] = "closed"
  /\ In(mbox[c], Stop) \/ c \in rstop =>
       cst[c] \in {"terminating", "freed"} /\ SocketsOf(c) = {}
  /\ c \in rstop => ~In(mbox[c], Stop)
  /\ c \in done => c \in rstop
  /\ cst[c] = "none" => ~Started(c)
  /\ ~Started(c) => mbox[c] = <<>>
  /\ cst[c] = "freed" \/ c \in done =>
       mbox[c] = <<>> /\ \A s \in Socks : owner[s] = c => sst[s] = "freed"

(* A socket that the reaper has let go of has nothing left in libzmq.      *)
Released(s) == sst[s] \in {"none", "erased", "freed"} => bound[s] = None /\ s \notin pending

CtxInv == /\ CtxTypeOK
          /\ \A c \in Ctxs : ReaperOK(c)
          /\ \A s \in Socks : Released(s)

-----------------------------------------------------------------------------
(* Mailboxes.                                                              *)

LEMMA Commands ==
  /\ Stop \in Command /\ Reaped \in Command /\ \A s \in Socks : Reap(s) \in Command
  /\ \A c \in Command : c.cmd \in {"stop", "reaped", "reap"}
  /\ \A c \in Command : (c.cmd = "stop") <=> (c = Stop)
  /\ \A c \in Command : (c.cmd = "reaped") <=> (c = Reaped)
  /\ \A c \in Command : c.cmd = "reap" => \E s \in Socks : c = Reap(s)
  /\ \A s \in Socks : Reap(s).cmd = "reap" /\ Reap(s).sock = s
  /\ Stop.cmd = "stop" /\ Reaped.cmd = "reaped"
<1>1. /\ \A s \in Socks : Reap(s).cmd = "reap" /\ Reap(s).sock = s
      /\ Stop.cmd = "stop" /\ Reaped.cmd = "reaped"
  BY DEF Stop, Reaped, Reap
<1>2. \A c : c \in Command <=> c = Stop \/ c = Reaped \/ \E s \in Socks : c = Reap(s)
  BY DEF Command
<1>3. Stop \in Command /\ Reaped \in Command /\ \A s \in Socks : Reap(s) \in Command
  BY <1>2
<1>4. ASSUME NEW c \in Command
      PROVE  /\ c.cmd \in {"stop", "reaped", "reap"}
             /\ (c.cmd = "stop") <=> (c = Stop)
             /\ (c.cmd = "reaped") <=> (c = Reaped)
             /\ c.cmd = "reap" => \E s \in Socks : c = Reap(s)
  BY <1>1, <1>2
<1> QED BY <1>1, <1>3, <1>4

(* A command that is put into a mailbox.                                   *)
LEMMA AppendCommand ==
  ASSUME NEW box \in Seq(Command), NEW c \in Command
  PROVE  /\ Append(box, c) \in Seq(Command)
         /\ \A x : In(Append(box, c), x) <=> In(box, x) \/ x = c
         /\ NoRepeat(box) /\ (c.cmd = "reaped" \/ ~In(box, c)) => NoRepeat(Append(box, c))
         /\ IsFiniteSet(Reports(box)) /\ Cardinality(Reports(box)) \in Nat
         /\ Cardinality(Reports(Append(box, c))) =
              Cardinality(Reports(box)) + IF c.cmd = "reaped" THEN 1 ELSE 0
<1> DEFINE new == Append(box, c)
           n   == Len(box) + 1
<1>1. /\ new \in Seq(Command) /\ Len(new) = n /\ Len(box) \in Nat /\ new[n] = c
      /\ \A k \in 1 .. Len(box) : new[k] = box[k] /\ k \in 1 .. n
      /\ n \in 1 .. n /\ n \notin 1 .. Len(box)
      /\ \A k \in 1 .. n : k \in 1 .. Len(box) \/ k = n
  OBVIOUS
<1> HIDE DEF new, n
<1>2. \A x : In(new, x) <=> In(box, x) \/ x = c
  BY <1>1 DEF In
<1>3. ASSUME NoRepeat(box), c.cmd = "reaped" \/ ~In(box, c) PROVE NoRepeat(new)
  <2> SUFFICES ASSUME NEW j \in 1 .. n, NEW k \in 1 .. n, j # k, new[j] = new[k]
               PROVE  new[j].cmd = "reaped"
    BY <1>1 DEF NoRepeat
  <2>1. CASE j \in 1 .. Len(box) /\ k \in 1 .. Len(box)
    BY <1>1, <1>3, <2>1 DEF NoRepeat
  <2>2. CASE j = n \/ k = n
    BY <1>1, <1>3, <2>2 DEF In
  <2> QED BY <1>1, <2>1, <2>2
<1>4. IsFiniteSet(Reports(box)) /\ Cardinality(Reports(box)) \in Nat
  <2>1. IsFiniteSet(1 .. Len(box)) /\ Reports(box) \in SUBSET (1 .. Len(box))
    BY <1>1, FS_Interval DEF Reports
  <2>2. IsFiniteSet(Reports(box))
    BY <2>1, FS_Subset
  <2> QED BY <2>2, FS_CardinalityType
<1>5. Cardinality(Reports(new)) = Cardinality(Reports(box)) + IF c.cmd = "reaped" THEN 1 ELSE 0
  <2>1. CASE c.cmd = "reaped"
    <3>1. Reports(new) = Reports(box) \cup {n}
      BY <1>1, <2>1 DEF Reports
    <3>2. n \notin Reports(box)
      BY <1>1 DEF Reports
    <3> QED BY <1>4, <2>1, <3>1, <3>2, FS_AddElement
  <2>2. CASE c.cmd # "reaped"
    <3>1. Reports(new) = Reports(box)
      BY <1>1, <2>2 DEF Reports
    <3> QED BY <1>4, <2>2, <3>1
  <2> QED BY <2>1, <2>2
<1> QED BY <1>1, <1>2, <1>3, <1>4, <1>5 DEF new

(* The reaper takes the first command.                                     *)
LEMMA TailCommand ==
  ASSUME NEW box \in Seq(Command), box # <<>>, NoRepeat(box)
  PROVE  /\ Tail(box) \in Seq(Command) /\ Head(box) \in Command /\ In(box, Head(box))
         /\ \A x : In(box, x) <=> In(Tail(box), x) \/ x = Head(box)
         /\ NoRepeat(Tail(box))
         /\ Head(box).cmd # "reaped" => ~In(Tail(box), Head(box))
         /\ Cardinality(Reports(Tail(box))) \in Nat
         /\ Cardinality(Reports(box)) =
              Cardinality(Reports(Tail(box))) + IF Head(box).cmd = "reaped" THEN 1 ELSE 0
<1> DEFINE new == Tail(box)
           h == Head(box)
<1>1. /\ new \in Seq(Command) /\ h = box[1] /\ h \in Command
      /\ Len(box) = Len(new) + 1 /\ Len(new) \in Nat
      /\ \A k \in 1 .. Len(new) : new[k] = box[k + 1]
  OBVIOUS
<1> HIDE DEF new, h
<1>2. \A k \in 1 .. Len(new) : k + 1 \in 1 .. Len(box) /\ k + 1 # 1
  BY <1>1
<1>3. 1 \in 1 .. Len(box) /\ \A k \in 1 .. Len(box) : k = 1 \/ k - 1 \in 1 .. Len(new)
  BY <1>1
<1>4. \A k \in 1 .. Len(box) : k # 1 => box[k] = new[k - 1]
  <2> TAKE k \in 1 .. Len(box)
  <2>1. k # 1 => k - 1 \in 1 .. Len(new) /\ (k - 1) + 1 = k
    BY <1>3
  <2> QED BY <1>1, <2>1
<1>5. \A x : In(box, x) <=> In(new, x) \/ x = h
  <2>1. ASSUME NEW x, In(box, x) PROVE In(new, x) \/ x = h
    BY <2>1, <1>1, <1>3, <1>4 DEF In
  <2>2. ASSUME NEW x, In(new, x) \/ x = h PROVE In(box, x)
    BY <2>2, <1>1, <1>2, <1>3 DEF In
  <2> QED BY <2>1, <2>2
<1>6. NoRepeat(new)
  <2>1. ASSUME NEW j \in 1 .. Len(new), NEW k \in 1 .. Len(new), j # k
        PROVE  j + 1 # k + 1 /\ j + 1 \in 1 .. Len(box) /\ k + 1 \in 1 .. Len(box)
    BY <1>1, <1>2, <2>1
  <2> QED BY <1>1, <2>1 DEF NoRepeat
<1>7. h.cmd # "reaped" => ~In(new, h)
  BY <1>1, <1>2, <1>3 DEF In, NoRepeat
<1>8. /\ Cardinality(Reports(new)) \in Nat
      /\ Cardinality(Reports(box)) =
           Cardinality(Reports(new)) + IF h.cmd = "reaped" THEN 1 ELSE 0
  <2> DEFINE later == Reports(box) \ {1}
             up == [k \in Reports(new) |-> k + 1]
  <2>1. IsFiniteSet(Reports(new)) /\ Cardinality(Reports(new)) \in Nat
    <3>1. IsFiniteSet(1 .. Len(new)) /\ Reports(new) \in SUBSET (1 .. Len(new))
      BY <1>1, FS_Interval DEF Reports
    <3>2. IsFiniteSet(Reports(new))
      BY <3>1, FS_Subset
    <3> QED BY <3>2, FS_CardinalityType
  <2>2. IsFiniteSet(Reports(box)) /\ Cardinality(Reports(box)) \in Nat
    <3>1. IsFiniteSet(1 .. Len(box)) /\ Reports(box) \in SUBSET (1 .. Len(box))
      BY <1>1, FS_Interval DEF Reports
    <3>2. IsFiniteSet(Reports(box))
      BY <3>1, FS_Subset
    <3> QED BY <3>2, FS_CardinalityType
  <2>3. up \in [Reports(new) -> later]
    <3> SUFFICES ASSUME NEW k \in Reports(new) PROVE k + 1 \in later
      OBVIOUS
    <3> QED BY <1>1, <1>2 DEF Reports
  <2>4. ASSUME NEW k \in later PROVE k - 1 \in Reports(new) /\ up[k - 1] = k
    <3>1. k \in 1 .. Len(box) /\ k # 1 /\ k - 1 \in 1 .. Len(new) /\ box[k] = new[k - 1]
      BY <1>3, <1>4 DEF Reports
    <3>2. k - 1 \in Reports(new)
      BY <3>1 DEF Reports
    <3> QED BY <3>1, <3>2
  <2>5. ASSUME NEW j \in Reports(new), NEW k \in Reports(new), up[j] = up[k] PROVE j = k
    <3>1. j \in Int /\ k \in Int
      BY <1>1 DEF Reports
    <3> QED BY <2>5, <3>1
  <2>6. up \in Bijection(Reports(new), later)
    <3> HIDE DEF up, later
    <3>1. up \in Injection(Reports(new), later)
      BY <2>3, <2>5 DEF Injection, IsInjective
    <3>2. up \in Surjection(Reports(new), later)
      BY <2>3, <2>4 DEF Surjection
    <3> QED BY <3>1, <3>2 DEF Bijection
  <2>7. Cardinality(later) = Cardinality(Reports(new))
    BY <2>1, <2>6, FS_Bijection DEF ExistsBijection
  <2>8. Cardinality(later) = IF 1 \in Reports(box) THEN Cardinality(Reports(box)) - 1
                                                  ELSE Cardinality(Reports(box))
    BY <2>2, FS_RemoveElement
  <2>9. 1 \in Reports(box) <=> h.cmd = "reaped"
    BY <1>1, <1>3 DEF Reports
  <2> HIDE DEF later, up
  <2> QED BY <2>1, <2>2, <2>7, <2>8, <2>9
<1>9. In(box, h)
  BY <1>5
<1> QED BY <1>1, <1>5, <1>6, <1>7, <1>8, <1>9 DEF new, h

(* A mailbox without any command is empty.                                 *)
LEMMA NoCommand ==
  ASSUME NEW box \in Seq(Command)
  PROVE  /\ (\A c \in Command : ~In(box, c)) => box = <<>>
         /\ Cardinality(Reports(box)) = 0 => ~In(box, Reaped)
         /\ \A x : ~In(<<>>, x)
         /\ Cardinality(Reports(<<>>)) = 0 /\ NoRepeat(<<>>)
<1>1. ASSUME box # <<>> PROVE \E c \in Command : In(box, c)
  <2>1. 1 \in 1 .. Len(box) /\ box[1] \in Command
    BY <1>1
  <2> QED BY <2>1 DEF In
<1>2. ASSUME Cardinality(Reports(box)) = 0 PROVE ~In(box, Reaped)
  <2>1. IsFiniteSet(Reports(box))
    BY Commands, AppendCommand
  <2>2. Reports(box) = {}
    BY <1>2, <2>1, FS_EmptySet
  <2> QED BY <2>2, Commands DEF Reports, In
<1>3. /\ \A x : ~In(<<>>, x)
      /\ NoRepeat(<<>>)
  BY DEF In, NoRepeat
<1>4. Reports(<<>>) = {}
  BY DEF Reports
<1> QED BY <1>1, <1>2, <1>3, <1>4, FS_EmptySet

(* Posting a command, and taking one.                                      *)
LEMMA PostOne ==
  ASSUME CtxTypeOK, NEW c \in Ctxs, NEW x \in Command
  PROVE  /\ Post(c, <<>>) => mbox' = mbox
         /\ Post(c, <<x>>) => /\ mbox' \in [Ctxs -> Seq(Command)]
                              /\ mbox'[c] = Append(mbox[c], x)
                              /\ \A d \in Ctxs : d # c => mbox'[d] = mbox[d]
         /\ \A d \in Ctxs : mbox[d] \in Seq(Command)
<1>1. mbox \in [Ctxs -> Seq(Command)] /\ mbox[c] \in Seq(Command)
  BY DEF CtxTypeOK
<1>2. mbox[c] \o <<>> = mbox[c] /\ mbox[c] \o <<x>> = Append(mbox[c], x)
  BY <1>1, ConcatEmptySeq, AppendIsConcat
<1>3. Append(mbox[c], x) \in Seq(Command)
  BY <1>1, AppendCommand
<1> QED BY <1>1, <1>2, <1>3 DEF Post

LEMMA TakeOne ==
  ASSUME CtxTypeOK, NEW c \in Ctxs, mbox[c] # <<>>, mbox' = [mbox EXCEPT ![c] = Tail(@)]
  PROVE  /\ mbox' \in [Ctxs -> Seq(Command)] /\ mbox'[c] = Tail(mbox[c])
         /\ \A d \in Ctxs : d # c => mbox'[d] = mbox[d]
<1>1. mbox \in [Ctxs -> Seq(Command)] /\ Tail(mbox[c]) \in Seq(Command)
  BY DEF CtxTypeOK
<1> QED BY <1>1

-----------------------------------------------------------------------------
(* Steps.                                                                  *)

(* A step that does not concern the reaper of d.                           *)
LEMMA Elsewhere ==
  ASSUME NEW d \in Ctxs, ReaperOK(d), cst'[d] = cst[d], mbox'[d] = mbox[d],
         rcount'[d] = rcount[d], d \in rstop' <=> d \in rstop, d \in done' <=> d \in done,
         \A s \in Socks : /\ (owner'[s] = d) <=> (owner[s] = d)
                          /\ owner[s] = d => sst'[s] = sst[s]
  PROVE  ReaperOK(d)'
<1>1. InReaper(d)' = InReaper(d) /\ SocketsOf(d)' = SocketsOf(d)
  BY DEF InReaper, SocketsOf
<1>2. Started(d)' <=> Started(d)
  BY DEF Started
<1>3. \A s \in Socks : In(mbox'[d], Reap(s)) => owner'[s] = d /\ sst'[s] = "closed"
  BY DEF ReaperOK
<1>4. cst'[d] = "freed" \/ d \in done' =>
        mbox'[d] = <<>> /\ \A s \in Socks : owner'[s] = d => sst'[s] = "freed"
  BY DEF ReaperOK
<1>5. /\ rcount'[d] = Cardinality(InReaper(d)') + Cardinality(Reports(mbox'[d]))
      /\ NoRepeat(mbox'[d])
      /\ In(mbox'[d], Stop) \/ d \in rstop' =>
           cst'[d] \in {"terminating", "freed"} /\ SocketsOf(d)' = {}
      /\ d \in rstop' => ~In(mbox'[d], Stop)
      /\ d \in done' => d \in rstop'
      /\ cst'[d] = "none" => ~Started(d)'
      /\ ~Started(d)' => mbox'[d] = <<>>
  BY <1>1, <1>2 DEF ReaperOK
<1> QED BY <1>3, <1>4, <1>5 DEF ReaperOK, Stop, Reap

(* Ports, messages and signals.                                            *)
LEMMA IdleStep ==
  ASSUME CtxInv,
         \/ \E s \in Socks, p \in Ports : Bind(s, p)
         \/ \E s \in Socks : Queue(s) \/ IO(s)
         \/ TermInterrupted
  PROVE  CtxInv'
<1>1. UNCHANGED <<cst, sst, owner, mbox, rcount, rstop, done, misuse>>
  BY DEF Bind, Queue, IO, CloseListener, Deliver, TermInterrupted
<1>2. \A c \in Ctxs : ReaperOK(c)'
  BY <1>1, Elsewhere DEF CtxInv
<1>3. /\ bound' \in [Socks -> Ports \cup {None}] /\ pending' \subseteq Socks
      /\ waits' \in Ctxs \cup {None} /\ signals' \in 0 .. MaxSignals
      /\ \A s \in Socks : sst[s] # "open" =>
           (bound[s] = None => bound'[s] = None) /\ (s \notin pending => s \notin pending')
  <2>1. CASE \E s \in Socks, p \in Ports : Bind(s, p)
    BY <2>1 DEF Bind, CtxInv, CtxTypeOK
  <2>2. CASE \E s \in Socks : Queue(s)
    BY <2>2 DEF Queue, CtxInv, CtxTypeOK
  <2>3. CASE \E s \in Socks : IO(s)
    BY <2>3 DEF IO, CloseListener, Deliver, CtxInv, CtxTypeOK
  <2>4. CASE TermInterrupted
    BY <2>4, SignalAssumption DEF TermInterrupted, CtxInv, CtxTypeOK
  <2> QED BY <2>1, <2>2, <2>3, <2>4
<1>4. \A s \in Socks : Released(s)'
  BY <1>1, <1>3 DEF CtxInv, Released
<1>5. CtxTypeOK'
  BY <1>1, <1>3 DEF CtxInv, CtxTypeOK, Command, Stop, Reaped, Reap
<1> QED BY <1>2, <1>4, <1>5 DEF CtxInv

(* zmq.ctx.new()                                                           *)
LEMMA CtxNewStep ==
  ASSUME CtxInv, NEW c \in Ctxs, CtxNew(c)
  PROVE  CtxInv'
<1>1. /\ cst[c] = "none" /\ cst' = [cst EXCEPT ![c] = "live"]
      /\ UNCHANGED <<sst, owner, bound, pending, mbox, rcount, rstop, done, waits, signals,
                     misuse>>
  BY DEF CtxNew
<1>2. CtxTypeOK'
  BY <1>1 DEF CtxInv, CtxTypeOK, Command, Stop, Reaped, Reap
<1>3. ASSUME NEW d \in Ctxs PROVE ReaperOK(d)'
  <2>1. CASE d # c
    BY <1>1, <2>1, Elsewhere DEF CtxInv, CtxTypeOK
  <2>2. CASE d = c
    <3>1. ReaperOK(c) /\ cst'[c] = "live" /\ ~Started(c) /\ mbox[c] = <<>> /\ c \notin rstop
          /\ c \notin done /\ ~In(mbox[c], Stop)
      BY <1>1 DEF CtxInv, CtxTypeOK, ReaperOK
    <3>2. InReaper(c)' = InReaper(c) /\ SocketsOf(c)' = SocketsOf(c) /\ ~Started(c)'
      BY <1>1, <3>1 DEF InReaper, SocketsOf, Started
    <3> QED BY <1>1, <2>2, <3>1, <3>2 DEF ReaperOK, Stop, Reap
  <2> QED BY <2>1, <2>2
<1>4. \A s \in Socks : Released(s)'
  BY <1>1 DEF CtxInv, Released
<1> QED BY <1>2, <1>3, <1>4 DEF CtxInv

(* zmq.socket(): nobody has told the reaper to stop.                       *)
LEMMA NewSocketStep ==
  ASSUME CtxInv, NEW s \in Socks, NEW c \in Ctxs, NewSocket(s, c)
  PROVE  CtxInv'
<1>1. /\ cst[c] = "live" /\ sst[s] = "none" /\ sst' = [sst EXCEPT ![s] = "open"]
      /\ owner' = [owner EXCEPT ![s] = c]
      /\ UNCHANGED <<cst, bound, pending, mbox, rcount, rstop, done, waits, signals, misuse>>
  BY DEF NewSocket
<1>2. c # None /\ owner[s] = None /\ None \notin Ctxs
  BY <1>1, ObjectsAssumption DEF CtxInv, CtxTypeOK
<1>3. /\ sst'[s] = "open" /\ owner'[s] = c
      /\ \A t \in Socks : t # s => sst'[t] = sst[t] /\ owner'[t] = owner[t]
  BY <1>1 DEF CtxInv, CtxTypeOK
<1>4. CtxTypeOK'
  <2>1. \A t \in Socks : sst'[t] = "none" <=> owner'[t] = None
    BY <1>2, <1>3 DEF CtxInv, CtxTypeOK
  <2>2. /\ sst' \in [Socks -> {"none", "open", "closed", "reaping", "erased", "freed"}]
        /\ owner' \in [Socks -> Ctxs \cup {None}]
    BY <1>1 DEF CtxInv, CtxTypeOK
  <2> QED BY <1>1, <2>1, <2>2 DEF CtxInv, CtxTypeOK, Command, Stop, Reaped, Reap
<1>5. ASSUME NEW d \in Ctxs PROVE ReaperOK(d)'
  <2>1. CASE d # c
    <3>1. \A t \in Socks : /\ (owner'[t] = d) <=> (owner[t] = d)
                           /\ owner[t] = d => sst'[t] = sst[t]
      BY <1>2, <1>3, <2>1
    <3> QED BY <1>1, <3>1, Elsewhere DEF CtxInv
  <2>2. CASE d = c
    <3>1. ReaperOK(c) /\ c \notin rstop /\ c \notin done /\ ~In(mbox[c], Stop)
      BY <1>1 DEF CtxInv, ReaperOK
    <3>2. InReaper(c)' = InReaper(c)
      BY <1>2, <1>3 DEF InReaper
    <3>3. Started(c)'
      BY <1>3 DEF Started
    <3>4. \A t \in Socks : In(mbox[c], Reap(t)) => owner'[t] = c /\ sst'[t] = "closed"
      BY <1>1, <1>3, <3>1 DEF ReaperOK
    <3> QED BY <1>1, <2>2, <3>1, <3>2, <3>3, <3>4 DEF ReaperOK, Stop, Reap
  <2> QED BY <2>1, <2>2
<1>6. \A t \in Socks : Released(t)'
  BY <1>1, <1>3 DEF CtxInv, Released
<1> QED BY <1>4, <1>5, <1>6 DEF CtxInv

(* What a socket that libzmq still knows of means for its context.         *)
LEMMA KnownSocket ==
  ASSUME CtxInv, NEW s \in Socks, sst[s] # "none"
  PROVE  /\ owner[s] \in Ctxs /\ Started(owner[s]) /\ cst[owner[s]] # "none"
         /\ sst[s] # "freed" => cst[owner[s]] # "freed" /\ owner[s] \notin done
         /\ sst[s] \in {"open", "closed", "reaping"} =>
              owner[s] \notin rstop /\ ~In(mbox[owner[s]], Stop)
<1>1. owner[s] \in Ctxs
  BY DEF CtxInv, CtxTypeOK
<1>2. ReaperOK(owner[s]) /\ Started(owner[s])
  BY <1>1 DEF CtxInv, Started
<1>3. sst[s] \in {"open", "closed", "reaping"} => s \in SocketsOf(owner[s])
  BY DEF SocketsOf
<1> QED BY <1>1, <1>2, <1>3 DEF ReaperOK

(* zmq_close()                                                             *)
LEMMA CloseStep ==
  ASSUME CtxInv, NEW s \in Socks, sst[s] # "none", Close(s)
  PROVE  CtxInv'
<1> PICK c \in Ctxs : c = owner[s]
  BY KnownSocket
<1>1. UNCHANGED <<cst, owner, bound, pending, rcount, rstop, done, waits, signals>>
  BY DEF Close
<1>2. Started(c) /\ ReaperOK(c)
  BY KnownSocket DEF CtxInv
<1>3. CASE UNCHANGED <<sst, mbox>> /\ misuse' \in {misuse, misuse \cup {s}}
  <2>1. \A d \in Ctxs : ReaperOK(d)'
    BY <1>1, <1>3, Elsewhere DEF CtxInv
  <2>2. CtxTypeOK'
    BY <1>1, <1>3 DEF CtxInv, CtxTypeOK, Command, Stop, Reaped, Reap
  <2>3. \A t \in Socks : Released(t)'
    BY <1>1, <1>3 DEF CtxInv, Released
  <2> QED BY <2>1, <2>2, <2>3 DEF CtxInv
<1>4. CASE /\ sst[s] = "open" /\ sst' = [sst EXCEPT ![s] = "closed"]
           /\ Post(c, <<Reap(s)>>) /\ UNCHANGED misuse
  <2>1. Reap(s) \in Command /\ Reap(s).cmd = "reap"
    BY Commands
  <2>2. /\ mbox' \in [Ctxs -> Seq(Command)] /\ mbox'[c] = Append(mbox[c], Reap(s))
        /\ mbox[c] \in Seq(Command) /\ \A d \in Ctxs : d # c => mbox'[d] = mbox[d]
    BY <1>2, <1>4, <2>1, PostOne DEF CtxInv
  <2>3. sst'[s] = "closed" /\ \A t \in Socks : t # s => sst'[t] = sst[t]
    BY <1>4 DEF CtxInv, CtxTypeOK
  <2>4. /\ c \notin rstop /\ ~In(mbox[c], Stop) /\ c \notin done /\ cst[c] # "freed"
        /\ cst[c] # "none"
    BY <1>4, KnownSocket
  <2>5. ~In(mbox[c], Reap(s))
    BY <1>2, <1>4 DEF ReaperOK
  <2>6. /\ NoRepeat(mbox'[c])
        /\ \A x : In(mbox'[c], x) <=> In(mbox[c], x) \/ x = Reap(s)
        /\ Cardinality(Reports(mbox'[c])) = Cardinality(Reports(mbox[c]))
    <3>1. NoRepeat(mbox[c])
      BY <1>2 DEF ReaperOK
    <3>2. /\ NoRepeat(Append(mbox[c], Reap(s)))
          /\ \A x : In(Append(mbox[c], Reap(s)), x) <=> In(mbox[c], x) \/ x = Reap(s)
          /\ Cardinality(Reports(Append(mbox[c], Reap(s)))) = Cardinality(Reports(mbox[c])) + 0
          /\ Cardinality(Reports(mbox[c])) \in Nat
      BY <2>1, <2>2, <2>5, <3>1, AppendCommand
    <3> QED BY <2>2, <3>2
  <2>7. CtxTypeOK'
    <3>1. /\ sst' \in [Socks -> {"none", "open", "closed", "reaping", "erased", "freed"}]
          /\ \A t \in Socks : sst'[t] = "none" <=> owner'[t] = None
      BY <1>1, <1>4, <2>3 DEF CtxInv, CtxTypeOK
    <3> QED BY <1>1, <1>4, <2>2, <3>1 DEF CtxInv, CtxTypeOK, Command, Stop, Reaped, Reap
  <2>8. ASSUME NEW d \in Ctxs PROVE ReaperOK(d)'
    <3>1. CASE d # c
      BY <1>1, <2>2, <2>3, <3>1, Elsewhere DEF CtxInv
    <3>2. CASE d = c
      <4>1. InReaper(c)' = InReaper(c)
        BY <1>1, <1>4, <2>3 DEF InReaper
      <4>2. \A t \in Socks : In(mbox'[c], Reap(t)) => owner'[t] = c /\ sst'[t] = "closed"
        <5> TAKE t \in Socks
        <5>1. t # s => Reap(t) # Reap(s)
          BY Commands
        <5> QED BY <1>1, <1>2, <2>3, <2>6, <5>1 DEF ReaperOK
      <4>3. ~In(mbox'[c], Stop) /\ Started(c)'
        <5>1. Stop # Reap(s)
          BY Commands
        <5> QED BY <1>1, <1>2, <2>4, <2>6, <5>1 DEF Started
      <4>4. rcount'[c] = Cardinality(InReaper(c)') + Cardinality(Reports(mbox'[c]))
        BY <1>1, <1>2, <2>6, <4>1 DEF ReaperOK
      <4> QED BY <1>1, <2>4, <2>6, <3>2, <4>2, <4>3, <4>4 DEF ReaperOK, Stop, Reap
    <3> QED BY <3>1, <3>2
  <2>9. \A t \in Socks : Released(t)'
    BY <1>1, <2>3 DEF CtxInv, Released
  <2> QED BY <2>7, <2>8, <2>9 DEF CtxInv
<1> QED BY <1>3, <1>4 DEF Close

(* zmq_ctx_term(): the reaper is told to stop if there is no socket left.  *)
LEMMA DestroyStep ==
  ASSUME CtxInv, NEW c \in Ctxs, cst[c] # "none", Destroy(c)
  PROVE  CtxInv'
<1>1. /\ UNCHANGED <<sst, owner, bound, pending, rcount, rstop, done, signals>>
      /\ ReaperOK(c)
  BY DEF Destroy, CtxInv
<1>2. \A s \in Socks : Released(s)'
  BY <1>1 DEF CtxInv, Released
<1>3. /\ InReaper(c)' = InReaper(c) /\ SocketsOf(c)' = SocketsOf(c)
      /\ Started(c)' <=> Started(c)
  BY <1>1 DEF InReaper, SocketsOf, Started
<1>4. /\ waits' \in Ctxs \cup {None} /\ misuse' \subseteq Ctxs \cup Socks
      /\ cst' \in [Ctxs -> {"none", "live", "terminating", "freed"}]
      /\ \A d \in Ctxs : d # c => cst'[d] = cst[d]
  BY DEF Destroy, CtxInv, CtxTypeOK
<1>5. CASE /\ UNCHANGED mbox
           /\ \/ cst' = cst
              \/ ~Started(c) /\ cst' = [cst EXCEPT ![c] = "freed"]
  <2>1. CtxTypeOK'
    BY <1>1, <1>4, <1>5 DEF CtxInv, CtxTypeOK, Command, Stop, Reaped, Reap
  <2>2. ASSUME NEW d \in Ctxs PROVE ReaperOK(d)'
    <3>1. CASE d # c \/ cst' = cst
      BY <1>1, <1>4, <1>5, <3>1, Elsewhere DEF CtxInv
    <3>2. CASE d = c /\ cst' # cst
      <4>1. ~Started(c) /\ cst'[c] = "freed" /\ mbox[c] = <<>>
        BY <1>1, <1>5, <3>2 DEF CtxInv, CtxTypeOK, ReaperOK
      <4>2. \A s \in Socks : owner'[s] # c
        BY <1>1, <4>1 DEF Started
      <4>3. \A x : ~In(mbox'[c], x)
        BY <1>5, <4>1 DEF In
      <4>4. c \in rstop => SocketsOf(c) = {}
        BY <1>1 DEF ReaperOK
      <4> QED BY <1>1, <1>3, <1>5, <3>2, <4>1, <4>2, <4>3, <4>4 DEF ReaperOK, Stop, Reap
    <3> QED BY <3>1, <3>2
  <2> QED BY <1>2, <2>1, <2>2 DEF CtxInv
<1>6. CASE /\ cst[c] = "live" /\ Started(c) /\ cst' = [cst EXCEPT ![c] = "terminating"]
           /\ Post(c, IF SocketsOf(c) = {} THEN <<Stop>> ELSE <<>>)
  <2>1. cst'[c] = "terminating" /\ c \notin rstop /\ ~In(mbox[c], Stop) /\ c \notin done
    BY <1>1, <1>6 DEF CtxInv, CtxTypeOK, ReaperOK
  <2>2. CASE SocketsOf(c) = {}
    <3>1. Post(c, <<Stop>>) /\ Stop \in Command /\ Stop.cmd = "stop"
      BY <1>6, <2>2, Commands
    <3>2. /\ mbox' \in [Ctxs -> Seq(Command)] /\ mbox'[c] = Append(mbox[c], Stop)
          /\ mbox[c] \in Seq(Command) /\ \A d \in Ctxs : d # c => mbox'[d] = mbox[d]
      BY <3>1, PostOne DEF CtxInv
    <3>3. /\ NoRepeat(mbox'[c])
          /\ \A x : In(mbox'[c], x) <=> In(mbox[c], x) \/ x = Stop
          /\ Cardinality(Reports(mbox'[c])) = Cardinality(Reports(mbox[c]))
      <4>1. NoRepeat(mbox[c])
        BY <1>1 DEF ReaperOK
      <4>2. /\ NoRepeat(Append(mbox[c], Stop))
            /\ \A x : In(Append(mbox[c], Stop), x) <=> In(mbox[c], x) \/ x = Stop
            /\ Cardinality(Reports(Append(mbox[c], Stop))) = Cardinality(Reports(mbox[c])) + 0
            /\ Cardinality(Reports(mbox[c])) \in Nat
        BY <2>1, <3>1, <3>2, <4>1, AppendCommand
      <4> QED BY <3>2, <4>2
    <3>4. CtxTypeOK'
      BY <1>1, <1>4, <3>2 DEF CtxInv, CtxTypeOK, Command, Stop, Reaped, Reap
    <3>5. ASSUME NEW d \in Ctxs PROVE ReaperOK(d)'
      <4>1. CASE d # c
        BY <1>1, <1>4, <3>2, <4>1, Elsewhere DEF CtxInv
      <4>2. CASE d = c
        <5>1. \A t \in Socks : In(mbox'[c], Reap(t)) => owner'[t] = c /\ sst'[t] = "closed"
          <6> TAKE t \in Socks
          <6>1. Reap(t) # Stop
            BY Commands
          <6> QED BY <1>1, <3>3, <6>1 DEF ReaperOK
        <5>2. rcount'[c] = Cardinality(InReaper(c)') + Cardinality(Reports(mbox'[c]))
          BY <1>1, <1>3, <3>3 DEF ReaperOK
        <5> QED BY <1>1, <1>3, <1>6, <2>1, <2>2, <3>3, <4>2, <5>1, <5>2 DEF ReaperOK, Stop, Reap
      <4> QED BY <4>1, <4>2
    <3> QED BY <1>2, <3>4, <3>5 DEF CtxInv
  <2>3. CASE SocketsOf(c) # {}
    <3>1. mbox' = mbox
      BY <1>6, <2>3, PostOne, Commands DEF CtxInv
    <3>2. CtxTypeOK'
      BY <1>1, <1>4, <3>1 DEF CtxInv, CtxTypeOK, Command, Stop, Reaped, Reap
    <3>3. ASSUME NEW d \in Ctxs PROVE ReaperOK(d)'
      <4>1. CASE d # c
        BY <1>1, <1>4, <3>1, <4>1, Elsewhere DEF CtxInv
      <4>2. CASE d = c
        BY <1>1, <1>3, <1>6, <2>1, <3>1, <4>2 DEF ReaperOK, Stop, Reap
      <4> QED BY <4>1, <4>2
    <3> QED BY <1>2, <3>2, <3>3 DEF CtxInv
  <2> QED BY <2>2, <2>3
<1>7. \/ UNCHANGED mbox /\ UNCHANGED cst
      \/ ~Started(c) /\ cst' = [cst EXCEPT ![c] = "freed"] /\ UNCHANGED mbox
      \/ /\ cst[c] = "live" /\ Started(c) /\ cst' = [cst EXCEPT ![c] = "terminating"]
         /\ Post(c, IF SocketsOf(c) = {} THEN <<Stop>> ELSE <<>>)
  BY DEF Destroy
<1> QED BY <1>5, <1>6, <1>7

(* zmq_ctx_term() returns 0.                                               *)
LEMMA TermReturnsStep ==
  ASSUME CtxInv, TermReturns
  PROVE  CtxInv'
<1> PICK c \in Ctxs : c = waits
  BY DEF TermReturns, CtxInv, CtxTypeOK
<1>1. /\ c \in done
      /\ cst' = [cst EXCEPT ![c] = "freed"] /\ done' = done \ {c} /\ waits' = None
      /\ UNCHANGED <<sst, owner, bound, pending, mbox, rcount, rstop, signals, misuse>>
  BY DEF TermReturns
<1>2. cst'[c] = "freed" /\ \A d \in Ctxs : d # c => cst'[d] = cst[d]
  BY <1>1 DEF CtxInv, CtxTypeOK
<1>3. CtxTypeOK'
  BY <1>1 DEF CtxInv, CtxTypeOK, Command, Stop, Reaped, Reap
<1>4. ASSUME NEW d \in Ctxs PROVE ReaperOK(d)'
  <2>1. CASE d # c
    BY <1>1, <1>2, <2>1, Elsewhere DEF CtxInv
  <2>2. CASE d = c
    <3>1. ReaperOK(c)
      BY DEF CtxInv
    <3>2. /\ InReaper(c)' = InReaper(c) /\ SocketsOf(c)' = SocketsOf(c)
          /\ Started(c)' <=> Started(c)
      BY <1>1 DEF InReaper, SocketsOf, Started
    <3> QED BY <1>1, <1>2, <2>2, <3>1, <3>2 DEF ReaperOK, Stop, Reap
  <2> QED BY <2>1, <2>2
<1>5. \A s \in Socks : Released(s)'
  BY <1>1 DEF CtxInv, Released
<1> QED BY <1>3, <1>4, <1>5 DEF CtxInv

(* A reaper that has counted down to zero has nothing left to do.          *)
LEMMA AllReported ==
  ASSUME NEW box \in Seq(Command), NEW S \in SUBSET Socks,
         Cardinality(S) + Cardinality(Reports(box)) = 0,
         ~In(box, Stop), \A s \in Socks : ~In(box, Reap(s))
  PROVE  box = <<>> /\ S = {}
<1>1. IsFiniteSet(S) /\ Cardinality(S) \in Nat
  <2>1. IsFiniteSet(S)
    BY ObjectsAssumption, FS_Subset
  <2> QED BY <2>1, FS_CardinalityType
<1>2. Cardinality(Reports(box)) \in Nat
  BY Commands, AppendCommand
<1>3. Cardinality(S) = 0 /\ Cardinality(Reports(box)) = 0
  BY <1>1, <1>2
<1>4. ~In(box, Reaped)
  BY <1>3, NoCommand
<1>5. \A x \in Command : ~In(box, x)
  BY <1>4, Commands
<1> QED BY <1>1, <1>3, <1>5, NoCommand, FS_EmptySet

(* The sockets of a context that has none on its list and none that its    *)
(* reaper counts have been freed.                                          *)
LEMMA AllFreed ==
  ASSUME CtxTypeOK, NEW c \in Ctxs, SocketsOf(c) = {}, InReaper(c) = {},
         NEW s \in Socks, owner[s] = c
  PROVE  sst[s] = "freed"
<1>1. sst[s] # "none"
  BY ObjectsAssumption DEF CtxTypeOK
<1> QED BY <1>1 DEF CtxTypeOK, SocketsOf, InReaper

(* The command that the reaper takes.                                      *)
LEMMA CommandTaken ==
  ASSUME CtxInv, NEW c \in Ctxs, NEW cmd, TakesCommand(c, cmd)
  PROVE  /\ Started(c) /\ Head(mbox[c]) \in Command /\ Head(mbox[c]).cmd = cmd
         /\ In(mbox[c], Head(mbox[c]))
         /\ mbox' \in [Ctxs -> Seq(Command)] /\ NoRepeat(mbox'[c])
         /\ \A d \in Ctxs : d # c => mbox'[d] = mbox[d]
         /\ \A x : In(mbox'[c], x) => In(mbox[c], x)
         /\ cmd # "reaped" => ~In(mbox'[c], Head(mbox[c]))
         /\ Cardinality(Reports(mbox'[c])) \in Nat
         /\ Cardinality(Reports(mbox[c])) =
              Cardinality(Reports(mbox'[c])) + IF cmd = "reaped" THEN 1 ELSE 0
         /\ cst[c] # "freed" /\ c \notin done
<1>1. mbox[c] # <<>> /\ Head(mbox[c]).cmd = cmd /\ mbox' = [mbox EXCEPT ![c] = Tail(@)]
  BY DEF TakesCommand
<1>2. ReaperOK(c) /\ mbox[c] \in Seq(Command) /\ CtxTypeOK
  BY DEF CtxInv, CtxTypeOK
<1>3. /\ mbox' \in [Ctxs -> Seq(Command)] /\ mbox'[c] = Tail(mbox[c])
      /\ \A d \in Ctxs : d # c => mbox'[d] = mbox[d]
  BY <1>1, <1>2, TakeOne
<1>4. NoRepeat(mbox[c]) /\ Started(c) /\ cst[c] # "freed" /\ c \notin done
  BY <1>1, <1>2 DEF ReaperOK
<1>5. /\ Head(mbox[c]) \in Command /\ In(mbox[c], Head(mbox[c]))
      /\ \A x : In(mbox[c], x) <=> In(Tail(mbox[c]), x) \/ x = Head(mbox[c])
      /\ NoRepeat(Tail(mbox[c]))
      /\ Head(mbox[c]).cmd # "reaped" => ~In(Tail(mbox[c]), Head(mbox[c]))
      /\ Cardinality(Reports(Tail(mbox[c]))) \in Nat
      /\ Cardinality(Reports(mbox[c])) = Cardinality(Reports(Tail(mbox[c])))
                                         + IF Head(mbox[c]).cmd = "reaped" THEN 1 ELSE 0
  BY <1>1, <1>2, <1>4, TailCommand
<1> QED BY <1>1, <1>3, <1>4, <1>5

(* reaper_t::process_reap()                                                *)
LEMMA ProcessReapStep ==
  ASSUME CtxInv, NEW c \in Ctxs, ProcessReap(c)
  PROVE  CtxInv'
<1>1. /\ TakesCommand(c, "reap") /\ rcount' = [rcount EXCEPT ![c] = @ + 1]
      /\ sst' = [sst EXCEPT ![Head(mbox[c]).sock] = "reaping"]
      /\ UNCHANGED <<cst, owner, bound, pending, rstop, done, waits, signals, misuse>>
  BY DEF ProcessReap
<1>2. /\ Head(mbox[c]) \in Command /\ Head(mbox[c]).cmd = "reap"
      /\ In(mbox[c], Head(mbox[c])) /\ Started(c) /\ cst[c] # "freed" /\ c \notin done
      /\ mbox' \in [Ctxs -> Seq(Command)] /\ NoRepeat(mbox'[c])
      /\ \A d \in Ctxs : d # c => mbox'[d] = mbox[d]
      /\ \A x : In(mbox'[c], x) => In(mbox[c], x)
      /\ ~In(mbox'[c], Head(mbox[c]))
      /\ Cardinality(Reports(mbox'[c])) \in Nat
      /\ Cardinality(Reports(mbox[c])) = Cardinality(Reports(mbox'[c])) + 0
  BY <1>1, CommandTaken
<1> PICK s \in Socks : Head(mbox[c]) = Reap(s)
  BY <1>2, Commands
<1>3. ReaperOK(c) /\ owner[s] = c /\ sst[s] = "closed" /\ Head(mbox[c]).sock = s
  BY <1>2, Commands DEF CtxInv, ReaperOK
<1>4. sst'[s] = "reaping" /\ \A t \in Socks : t # s => sst'[t] = sst[t]
  BY <1>1, <1>3 DEF CtxInv, CtxTypeOK
<1>5. c \notin rstop /\ ~In(mbox[c], Stop) /\ cst[c] # "none"
  BY <1>3, KnownSocket
<1>6. rcount'[c] = rcount[c] + 1 /\ \A d \in Ctxs : d # c => rcount'[d] = rcount[d]
  BY <1>1 DEF CtxInv, CtxTypeOK
<1>7. CtxTypeOK'
  <2>1. /\ sst' \in [Socks -> {"none", "open", "closed", "reaping", "erased", "freed"}]
        /\ \A t \in Socks : sst'[t] = "none" <=> owner'[t] = None
    BY <1>1, <1>3, <1>4 DEF CtxInv, CtxTypeOK
  <2>2. rcount' \in [Ctxs -> Nat]
    BY <1>1 DEF CtxInv, CtxTypeOK
  <2> QED BY <1>1, <1>2, <2>1, <2>2 DEF CtxInv, CtxTypeOK, Command, Stop, Reaped, Reap
<1>8. ASSUME NEW d \in Ctxs PROVE ReaperOK(d)'
  <2>1. CASE d # c
    BY <1>1, <1>2, <1>3, <1>4, <1>6, <2>1, Elsewhere DEF CtxInv
  <2>2. CASE d = c
    <3>1. InReaper(c)' = InReaper(c) \cup {s} /\ s \notin InReaper(c)
      BY <1>1, <1>3, <1>4 DEF InReaper
    <3>2. /\ Cardinality(InReaper(c)') = Cardinality(InReaper(c)) + 1
          /\ Cardinality(InReaper(c)) \in Nat
      <4>1. IsFiniteSet(InReaper(c))
        BY ObjectsAssumption, FS_Subset DEF InReaper
      <4> QED BY <3>1, <4>1, FS_AddElement, FS_CardinalityType
    <3>3. rcount'[c] = Cardinality(InReaper(c)') + Cardinality(Reports(mbox'[c]))
      BY <1>2, <1>3, <1>6, <3>2 DEF ReaperOK
    <3>4. ASSUME NEW t \in Socks, In(mbox'[c], Reap(t)) PROVE owner'[t] = c /\ sst'[t] = "closed"
      <4>1. t # s /\ In(mbox[c], Reap(t))
        BY <1>2, <3>4
      <4> QED BY <1>1, <1>3, <1>4, <4>1 DEF ReaperOK
    <3>5. ~In(mbox'[c], Stop) /\ Started(c)'
      BY <1>1, <1>2, <1>5 DEF Started
    <3> QED BY <1>1, <1>2, <1>5, <2>2, <3>3, <3>4, <3>5 DEF ReaperOK, Stop, Reap
  <2> QED BY <2>1, <2>2
<1>9. \A t \in Socks : Released(t)'
  BY <1>1, <1>4 DEF CtxInv, Released
<1> QED BY <1>7, <1>8, <1>9 DEF CtxInv

(* reaper_t::process_stop()                                                *)
LEMMA ProcessStopStep ==
  ASSUME CtxInv, NEW c \in Ctxs, ProcessStop(c)
  PROVE  CtxInv'
<1>1. /\ TakesCommand(c, "stop") /\ rstop' = rstop \cup {c}
      /\ done' = IF rcount[c] = 0 THEN done \cup {c} ELSE done
      /\ UNCHANGED <<cst, sst, owner, bound, pending, rcount, waits, signals, misuse>>
  BY DEF ProcessStop
<1>2. /\ Head(mbox[c]) \in Command /\ Head(mbox[c]).cmd = "stop"
      /\ In(mbox[c], Head(mbox[c])) /\ Started(c) /\ cst[c] # "freed"
      /\ mbox' \in [Ctxs -> Seq(Command)] /\ NoRepeat(mbox'[c])
      /\ \A d \in Ctxs : d # c => mbox'[d] = mbox[d]
      /\ \A x : In(mbox'[c], x) => In(mbox[c], x)
      /\ ~In(mbox'[c], Head(mbox[c]))
      /\ Cardinality(Reports(mbox[c])) = Cardinality(Reports(mbox'[c])) + 0
      /\ Cardinality(Reports(mbox'[c])) \in Nat
  BY <1>1, CommandTaken
<1>3. In(mbox[c], Stop) /\ ~In(mbox'[c], Stop)
  BY <1>2, Commands
<1>4. /\ ReaperOK(c) /\ c \notin rstop /\ SocketsOf(c) = {}
      /\ cst[c] \in {"terminating", "freed"}
  BY <1>3 DEF CtxInv, ReaperOK
<1>5. \A t \in Socks : ~In(mbox'[c], Reap(t))
  <2> SUFFICES ASSUME NEW t \in Socks, In(mbox'[c], Reap(t)) PROVE FALSE
    OBVIOUS
  <2>1. owner[t] = c /\ sst[t] = "closed"
    BY <1>2, <1>4 DEF ReaperOK
  <2> QED BY <1>4, <2>1 DEF SocketsOf
<1>6. CtxTypeOK'
  BY <1>1, <1>2 DEF CtxInv, CtxTypeOK, Command, Stop, Reaped, Reap
<1>7. ASSUME NEW d \in Ctxs PROVE ReaperOK(d)'
  <2>1. CASE d # c
    BY <1>1, <1>2, <2>1, Elsewhere DEF CtxInv
  <2>2. CASE d = c
    <3>1. InReaper(c)' = InReaper(c) /\ SocketsOf(c)' = {} /\ Started(c)'
      BY <1>1, <1>2, <1>4 DEF InReaper, SocketsOf, Started
    <3>2. rcount'[c] = Cardinality(InReaper(c)) + Cardinality(Reports(mbox'[c]))
      BY <1>1, <1>2, <1>4 DEF ReaperOK
    <3>3. ASSUME rcount[c] = 0
          PROVE  mbox'[c] = <<>> /\ \A t \in Socks : owner'[t] = c => sst'[t] = "freed"
      <4>1. InReaper(c) \in SUBSET Socks /\ mbox'[c] \in Seq(Command)
        BY <1>2 DEF InReaper
      <4>2. mbox'[c] = <<>> /\ InReaper(c) = {}
        BY <1>1, <1>3, <1>5, <3>2, <3>3, <4>1, AllReported
      <4> QED BY <1>1, <1>4, <4>2, AllFreed DEF CtxInv
    <3>4. c \in done' => rcount[c] = 0
      BY <1>1, <1>4 DEF ReaperOK
    <3> QED BY <1>1, <1>2, <1>3, <1>4, <1>5, <2>2, <3>1, <3>2, <3>3, <3>4 DEF ReaperOK, Stop, Reap
  <2> QED BY <2>1, <2>2
<1>8. \A t \in Socks : Released(t)'
  BY <1>1 DEF CtxInv, Released
<1> QED BY <1>6, <1>7, <1>8 DEF CtxInv

(* reaper_t::process_reaped(): it is the last one only if nobody is left.  *)
LEMMA ProcessReapedStep ==
  ASSUME CtxInv, NEW c \in Ctxs, ProcessReaped(c)
  PROVE  CtxInv'
<1>1. /\ TakesCommand(c, "reaped") /\ rcount' = [rcount EXCEPT ![c] = @ - 1]
      /\ done' = IF rcount[c] = 1 /\ c \in rstop THEN done \cup {c} ELSE done
      /\ UNCHANGED <<cst, sst, owner, bound, pending, rstop, waits, signals, misuse>>
  BY DEF ProcessReaped
<1>2. /\ Head(mbox[c]) \in Command /\ In(mbox[c], Head(mbox[c]))
      /\ Started(c) /\ cst[c] # "freed" /\ c \notin done
      /\ mbox' \in [Ctxs -> Seq(Command)] /\ NoRepeat(mbox'[c])
      /\ \A d \in Ctxs : d # c => mbox'[d] = mbox[d]
      /\ \A x : In(mbox'[c], x) => In(mbox[c], x)
      /\ Cardinality(Reports(mbox[c])) = Cardinality(Reports(mbox'[c])) + 1
      /\ Cardinality(Reports(mbox'[c])) \in Nat
  BY <1>1, CommandTaken
<1>3. ReaperOK(c)
  BY DEF CtxInv
<1>4. Cardinality(InReaper(c)) \in Nat
  <2>1. IsFiniteSet(InReaper(c))
    BY ObjectsAssumption, FS_Subset DEF InReaper
  <2> QED BY <2>1, FS_CardinalityType
<1>5. /\ rcount'[c] = rcount[c] - 1 /\ \A d \in Ctxs : d # c => rcount'[d] = rcount[d]
      /\ rcount[c] - 1 = Cardinality(InReaper(c)) + Cardinality(Reports(mbox'[c]))
      /\ rcount[c] - 1 \in Nat
  <2>1. /\ rcount'[c] = rcount[c] - 1 /\ \A d \in Ctxs : d # c => rcount'[d] = rcount[d]
    BY <1>1 DEF CtxInv, CtxTypeOK
  <2>2. rcount[c] = Cardinality(InReaper(c)) + Cardinality(Reports(mbox[c]))
    BY <1>3 DEF ReaperOK
  <2> QED BY <1>2, <1>4, <2>1, <2>2
<1>6. CtxTypeOK'
  <2>1. rcount' \in [Ctxs -> Nat]
    BY <1>1, <1>5 DEF CtxInv, CtxTypeOK
  <2> QED BY <1>1, <1>2, <2>1 DEF CtxInv, CtxTypeOK, Command, Stop, Reaped, Reap
<1>7. ASSUME NEW d \in Ctxs PROVE ReaperOK(d)'
  <2>1. CASE d # c
    BY <1>1, <1>2, <1>5, <2>1, Elsewhere DEF CtxInv
  <2>2. CASE d = c
    <3>1. InReaper(c)' = InReaper(c) /\ SocketsOf(c)' = SocketsOf(c) /\ Started(c)'
      BY <1>1, <1>2 DEF InReaper, SocketsOf, Started
    <3>2. ASSUME rcount[c] = 1, c \in rstop
          PROVE  mbox'[c] = <<>> /\ \A t \in Socks : owner'[t] = c => sst'[t] = "freed"
      <4>1. InReaper(c) \in SUBSET Socks /\ mbox'[c] \in Seq(Command)
        BY <1>2 DEF InReaper
      <4>2. SocketsOf(c) = {} /\ ~In(mbox'[c], Stop)
        BY <1>2, <1>3, <3>2 DEF ReaperOK
      <4>3. \A t \in Socks : ~In(mbox'[c], Reap(t))
        <5> SUFFICES ASSUME NEW t \in Socks, In(mbox'[c], Reap(t)) PROVE FALSE
          OBVIOUS
        <5>1. owner[t] = c /\ sst[t] = "closed"
          BY <1>2, <1>3 DEF ReaperOK
        <5> QED BY <4>2, <5>1 DEF SocketsOf
      <4>4. mbox'[c] = <<>> /\ InReaper(c) = {}
        BY <1>5, <3>2, <4>1, <4>2, <4>3, AllReported
      <4> QED BY <1>1, <4>2, <4>4, AllFreed DEF CtxInv
    <3>3. c \in done' => rcount[c] = 1 /\ c \in rstop
      BY <1>1, <1>2
    <3>4. /\ NoRepeat(mbox'[c])
          /\ \A t \in Socks : In(mbox'[c], Reap(t)) => owner'[t] = c /\ sst'[t] = "closed"
          /\ In(mbox'[c], Stop) \/ c \in rstop' =>
               cst'[c] \in {"terminating", "freed"} /\ SocketsOf(c)' = {}
          /\ c \in rstop' => ~In(mbox'[c], Stop)
          /\ cst'[c] # "none" /\ cst'[c] # "freed"
      BY <1>1, <1>2, <1>3, <3>1 DEF ReaperOK
    <3>5. rcount'[c] = Cardinality(InReaper(c)') + Cardinality(Reports(mbox'[c]))
      BY <1>5, <3>1
    <3> QED BY <1>1, <2>2, <3>1, <3>2, <3>3, <3>4, <3>5 DEF ReaperOK, Stop, Reap
  <2> QED BY <2>1, <2>2
<1>8. \A t \in Socks : Released(t)'
  BY <1>1 DEF CtxInv, Released
<1> QED BY <1>6, <1>7, <1>8 DEF CtxInv

(* socket_base_t::check_destroy(), first ctx_t::destroy_socket(), ...      *)
LEMMA EraseSocketStep ==
  ASSUME CtxInv, NEW s \in Socks, EraseSocket(s)
  PROVE  CtxInv'
<1>1. /\ sst[s] = "reaping" /\ bound[s] = None /\ s \notin pending
      /\ sst' = [sst EXCEPT ![s] = "erased"]
      /\ UNCHANGED <<cst, owner, bound, pending, rcount, rstop, done, waits, signals, misuse>>
  BY DEF EraseSocket
<1> PICK c \in Ctxs : c = owner[s]
  BY <1>1, KnownSocket
<1>2. /\ ReaperOK(c) /\ Started(c) /\ c \notin rstop /\ ~In(mbox[c], Stop) /\ c \notin done
      /\ cst[c] # "freed" /\ cst[c] # "none"
  BY <1>1, KnownSocket DEF CtxInv
<1>3. sst'[s] = "erased" /\ \A t \in Socks : t # s => sst'[t] = sst[t]
  BY <1>1 DEF CtxInv, CtxTypeOK
<1>4. InReaper(c)' = InReaper(c) /\ SocketsOf(c)' = SocketsOf(c) \ {s} /\ Started(c)'
  BY <1>1, <1>3 DEF InReaper, SocketsOf, Started
<1>5. /\ sst' \in [Socks -> {"none", "open", "closed", "reaping", "erased", "freed"}]
      /\ \A t \in Socks : sst'[t] = "none" <=> owner'[t] = None
  BY <1>1, <1>3 DEF CtxInv, CtxTypeOK
<1>6. \A t \in Socks : Released(t)'
  BY <1>1, <1>3 DEF CtxInv, Released
<1>7. \A t \in Socks : In(mbox[c], Reap(t)) => owner'[t] = c /\ sst'[t] = "closed"
  BY <1>1, <1>2, <1>3 DEF ReaperOK
<1>8. CASE Post(c, <<>>)
  <2>1. mbox' = mbox
    BY <1>8, Commands, PostOne DEF CtxInv
  <2>2. CtxTypeOK'
    BY <1>1, <1>5, <2>1 DEF CtxInv, CtxTypeOK, Command, Stop, Reaped, Reap
  <2>3. ASSUME NEW d \in Ctxs PROVE ReaperOK(d)'
    <3>1. CASE d # c
      BY <1>1, <1>3, <2>1, <3>1, Elsewhere DEF CtxInv
    <3>2. CASE d = c
      BY <1>1, <1>2, <1>4, <1>7, <2>1, <3>2 DEF ReaperOK, Stop, Reap
    <3> QED BY <3>1, <3>2
  <2> QED BY <1>6, <2>2, <2>3 DEF CtxInv
<1>9. CASE Post(c, <<Stop>>) /\ cst[c] = "terminating" /\ SocketsOf(c) = {s}
  <2>1. Stop \in Command /\ Stop.cmd = "stop"
    BY Commands
  <2>2. /\ mbox' \in [Ctxs -> Seq(Command)] /\ mbox'[c] = Append(mbox[c], Stop)
        /\ mbox[c] \in Seq(Command) /\ \A d \in Ctxs : d # c => mbox'[d] = mbox[d]
    BY <1>9, <2>1, PostOne DEF CtxInv
  <2>3. /\ NoRepeat(mbox'[c])
        /\ \A x : In(mbox'[c], x) <=> In(mbox[c], x) \/ x = Stop
        /\ Cardinality(Reports(mbox'[c])) = Cardinality(Reports(mbox[c]))
    <3>1. NoRepeat(mbox[c])
      BY <1>2 DEF ReaperOK
    <3>2. /\ NoRepeat(Append(mbox[c], Stop))
          /\ \A x : In(Append(mbox[c], Stop), x) <=> In(mbox[c], x) \/ x = Stop
          /\ Cardinality(Reports(Append(mbox[c], Stop))) = Cardinality(Reports(mbox[c])) + 0
          /\ Cardinality(Reports(mbox[c])) \in Nat
      BY <1>2, <2>1, <2>2, <3>1, AppendCommand
    <3> QED BY <2>2, <3>2
  <2>4. CtxTypeOK'
    BY <1>1, <1>5, <2>2 DEF CtxInv, CtxTypeOK, Command, Stop, Reaped, Reap
  <2>5. ASSUME NEW d \in Ctxs PROVE ReaperOK(d)'
    <3>1. CASE d # c
      BY <1>1, <1>3, <2>2, <3>1, Elsewhere DEF CtxInv
    <3>2. CASE d = c
      <4>1. \A t \in Socks : In(mbox'[c], Reap(t)) => owner'[t] = c /\ sst'[t] = "closed"
        BY <1>7, <2>3, Commands
      <4>2. rcount'[c] = Cardinality(InReaper(c)') + Cardinality(Reports(mbox'[c]))
        BY <1>1, <1>2, <1>4, <2>3 DEF ReaperOK
      <4>3. SocketsOf(c)' = {}
        BY <1>4, <1>9
      <4> QED BY <1>1, <1>2, <1>4, <1>9, <2>3, <3>2, <4>1, <4>2, <4>3 DEF ReaperOK, Stop, Reap
    <3> QED BY <3>1, <3>2
  <2> QED BY <1>6, <2>4, <2>5 DEF CtxInv
<1>10. \/ Post(c, <<>>)
       \/ Post(c, <<Stop>>) /\ cst[c] = "terminating" /\ SocketsOf(c) = {s}
  <2>1. Post(c, IF cst[c] = "terminating" /\ SocketsOf(c) = {s} THEN <<Stop>> ELSE <<>>)
    BY DEF EraseSocket
  <2> QED BY <2>1
<1> QED BY <1>8, <1>9, <1>10

(* ... then the report to the reaper, and the socket is freed.             *)
LEMMA FreeSocketStep ==
  ASSUME CtxInv, NEW s \in Socks, FreeSocket(s)
  PROVE  CtxInv'
<1>1. /\ sst[s] = "erased" /\ sst' = [sst EXCEPT ![s] = "freed"]
      /\ Post(owner[s], <<Reaped>>)
      /\ UNCHANGED <<cst, owner, bound, pending, rcount, rstop, done, waits, signals, misuse>>
  BY DEF FreeSocket
<1> PICK c \in Ctxs : c = owner[s]
  BY <1>1, KnownSocket
<1>2. /\ ReaperOK(c) /\ Started(c) /\ c \notin done /\ cst[c] # "freed" /\ cst[c] # "none"
  BY <1>1, KnownSocket DEF CtxInv
<1>3. sst'[s] = "freed" /\ \A t \in Socks : t # s => sst'[t] = sst[t]
  BY <1>1 DEF CtxInv, CtxTypeOK
<1>4. /\ InReaper(c)' = InReaper(c) \ {s} /\ s \in InReaper(c)
      /\ SocketsOf(c)' = SocketsOf(c) /\ Started(c)'
  BY <1>1, <1>3 DEF InReaper, SocketsOf, Started
<1>5. Reaped \in Command /\ Reaped.cmd = "reaped"
  BY Commands
<1>6. /\ mbox' \in [Ctxs -> Seq(Command)] /\ mbox'[c] = Append(mbox[c], Reaped)
      /\ mbox[c] \in Seq(Command) /\ \A d \in Ctxs : d # c => mbox'[d] = mbox[d]
  BY <1>1, <1>5, PostOne DEF CtxInv
<1>7. /\ NoRepeat(mbox'[c])
      /\ \A x : In(mbox'[c], x) <=> In(mbox[c], x) \/ x = Reaped
      /\ Cardinality(Reports(mbox'[c])) = Cardinality(Reports(mbox[c])) + 1
      /\ Cardinality(Reports(mbox[c])) \in Nat
  <2>1. NoRepeat(mbox[c])
    BY <1>2 DEF ReaperOK
  <2>2. /\ NoRepeat(Append(mbox[c], Reaped))
        /\ \A x : In(Append(mbox[c], Reaped), x) <=> In(mbox[c], x) \/ x = Reaped
        /\ Cardinality(Reports(Append(mbox[c], Reaped))) = Cardinality(Reports(mbox[c])) + 1
        /\ Cardinality(Reports(mbox[c])) \in Nat
    BY <1>5, <1>6, <2>1, AppendCommand
  <2> QED BY <1>6, <2>2
<1>8. /\ Cardinality(InReaper(c)') = Cardinality(InReaper(c)) - 1
      /\ Cardinality(InReaper(c)) \in Nat
  <2>1. IsFiniteSet(InReaper(c))
    BY ObjectsAssumption, FS_Subset DEF InReaper
  <2> QED BY <1>4, <2>1, FS_RemoveElement, FS_CardinalityType
<1>9. CtxTypeOK'
  <2>1. /\ sst' \in [Socks -> {"none", "open", "closed", "reaping", "erased", "freed"}]
        /\ \A t \in Socks : sst'[t] = "none" <=> owner'[t] = None
    BY <1>1, <1>3 DEF CtxInv, CtxTypeOK
  <2> QED BY <1>1, <1>6, <2>1 DEF CtxInv, CtxTypeOK, Command, Stop, Reaped, Reap
<1>10. ASSUME NEW d \in Ctxs PROVE ReaperOK(d)'
  <2>1. CASE d # c
    BY <1>1, <1>3, <1>6, <2>1, Elsewhere DEF CtxInv
  <2>2. CASE d = c
    <3>1. \A t \in Socks : In(mbox'[c], Reap(t)) => owner'[t] = c /\ sst'[t] = "closed"
      <4> TAKE t \in Socks
      <4>1. Reap(t) # Reaped
        BY Commands
      <4> QED BY <1>1, <1>2, <1>3, <1>7, <4>1 DEF ReaperOK
    <3>2. rcount'[c] = Cardinality(InReaper(c)') + Cardinality(Reports(mbox'[c]))
      <4>1. rcount'[c] = Cardinality(InReaper(c)) + Cardinality(Reports(mbox[c]))
        BY <1>1, <1>2 DEF ReaperOK
      <4> QED BY <1>7, <1>8, <4>1
    <3>3. In(mbox'[c], Stop) <=> In(mbox[c], Stop)
      <4>1. Stop # Reaped
        BY Commands
      <4> QED BY <1>7, <4>1
    <3> QED BY <1>1, <1>2, <1>4, <1>7, <2>2, <3>1, <3>2, <3>3 DEF ReaperOK, Stop, Reap
  <2> QED BY <2>1, <2>2
<1>11. \A t \in Socks : Released(t)'
  BY <1>1, <1>3 DEF CtxInv, Released
<1> QED BY <1>9, <1>10, <1>11 DEF CtxInv

(* What the threads of libzmq leave alone: only sockets that were closed   *)
(* and contexts that were destroyed go on, and what is freed stays so.     *)
LEMMA LibraryKeeps ==
  ASSUME CtxInv, Library
  PROVE  /\ owner' = owner /\ misuse' = misuse /\ signals' = signals
         /\ \A s \in Socks : /\ (sst'[s] = "open") <=> (sst[s] = "open")
                             /\ sst[s] = "freed" => sst'[s] = "freed"
                             /\ bound'[s] \in {bound[s], None}
         /\ pending' \subseteq pending
         /\ \A c \in Ctxs : \/ cst'[c] = cst[c]
                            \/ cst[c] \in {"terminating", "freed"} /\ cst'[c] = "freed"
         /\ waits' = waits \/ (waits' = None /\ cst'[waits] = "freed")
<1>1. CASE TermReturns
  <2> PICK c \in Ctxs : c = waits
    BY <1>1 DEF TermReturns, CtxInv, CtxTypeOK
  <2>1. /\ c \in done /\ cst' = [cst EXCEPT ![c] = "freed"] /\ waits' = None
        /\ UNCHANGED <<sst, owner, bound, pending, signals, misuse>>
    BY <1>1 DEF TermReturns
  <2>2. cst'[c] = "freed" /\ \A d \in Ctxs : d # c => cst'[d] = cst[d]
    BY <2>1 DEF CtxInv, CtxTypeOK
  <2>3. cst[c] \in {"terminating", "freed"}
    BY <2>1 DEF CtxInv, ReaperOK
  <2> QED BY <2>1, <2>2, <2>3
<1>2. CASE \E c \in Ctxs : ProcessReap(c)
  <2> PICK c \in Ctxs : ProcessReap(c)
    BY <1>2
  <2>1. /\ TakesCommand(c, "reap") /\ sst' = [sst EXCEPT ![Head(mbox[c]).sock] = "reaping"]
        /\ UNCHANGED <<cst, owner, bound, pending, waits, signals, misuse>>
    BY DEF ProcessReap
  <2>2. /\ Head(mbox[c]) \in Command /\ Head(mbox[c]).cmd = "reap"
        /\ In(mbox[c], Head(mbox[c]))
    BY <2>1, CommandTaken
  <2> PICK s \in Socks : Head(mbox[c]) = Reap(s)
    BY <2>2, Commands
  <2>3. sst[s] = "closed" /\ Head(mbox[c]).sock = s
    BY <2>2, Commands DEF CtxInv, ReaperOK
  <2>4. \A t \in Socks : /\ (sst'[t] = "open") <=> (sst[t] = "open")
                         /\ sst[t] = "freed" => sst'[t] = "freed"
    BY <2>1, <2>3 DEF CtxInv, CtxTypeOK
  <2> QED BY <2>1, <2>4
<1>3. CASE \E c \in Ctxs : ProcessStop(c) \/ ProcessReaped(c)
  <2>1. UNCHANGED <<cst, sst, owner, bound, pending, waits, signals, misuse>>
    BY <1>3 DEF ProcessStop, ProcessReaped
  <2> QED BY <2>1
<1>4. CASE \E s \in Socks : EraseSocket(s) \/ FreeSocket(s)
  <2> PICK s \in Socks : EraseSocket(s) \/ FreeSocket(s)
    BY <1>4
  <2>1. /\ sst[s] \in {"reaping", "erased"} /\ UNCHANGED <<cst, owner, bound, pending, waits, signals, misuse>>
        /\ sst' \in {[sst EXCEPT ![s] = "erased"], [sst EXCEPT ![s] = "freed"]}
    BY DEF EraseSocket, FreeSocket
  <2>2. \A t \in Socks : /\ (sst'[t] = "open") <=> (sst[t] = "open")
                         /\ sst[t] = "freed" => sst'[t] = "freed"
    BY <2>1 DEF CtxInv, CtxTypeOK
  <2> QED BY <2>1, <2>2
<1>5. CASE \E s \in Socks : IO(s)
  <2> PICK s \in Socks : IO(s)
    BY <1>5
  <2>1. /\ UNCHANGED <<cst, sst, owner, waits, signals, misuse>>
        /\ bound' \in {bound, [bound EXCEPT ![s] = None]} /\ pending' \in {pending, pending \ {s}}
    BY DEF IO, CloseListener, Deliver
  <2> QED BY <2>1 DEF CtxInv, CtxTypeOK
<1> QED BY <1>1, <1>2, <1>3, <1>4, <1>5 DEF Library, Reaper

LEMMA CtxInvInit == CtxInit => CtxInv
<1> SUFFICES ASSUME CtxInit PROVE CtxInv
  OBVIOUS
<1>1. CtxTypeOK
  <2>1. 0 \in 0 .. MaxSignals
    BY SignalAssumption
  <2>2. <<>> \in Seq(Command)
    OBVIOUS
  <2> QED BY <2>1, <2>2 DEF CtxInit, CtxTypeOK
<1>2. ASSUME NEW c \in Ctxs PROVE ReaperOK(c)
  <2>1. /\ cst[c] = "none" /\ mbox[c] = <<>> /\ c \notin rstop /\ c \notin done
        /\ rcount[c] = 0 /\ ~Started(c)
    BY ObjectsAssumption DEF CtxInit, Started
  <2>2. InReaper(c) = {} /\ Reports(mbox[c]) = {}
    BY <2>1 DEF CtxInit, InReaper, Reports
  <2>3. Cardinality({}) = 0
    BY FS_EmptySet
  <2>4. NoRepeat(mbox[c]) /\ \A x : ~In(mbox[c], x)
    BY <2>1 DEF NoRepeat, In
  <2>5. rcount[c] = Cardinality(InReaper(c)) + Cardinality(Reports(mbox[c]))
    <3>1. Cardinality(InReaper(c)) = 0
      BY <2>2, <2>3
    <3>2. Cardinality(Reports(mbox[c])) = 0
      BY <2>2, <2>3
    <3> QED BY <2>1, <3>1, <3>2
  <2>6. ~In(mbox[c], Stop) /\ \A s \in Socks : ~In(mbox[c], Reap(s))
    BY <2>4
  <2> QED BY <2>1, <2>4, <2>5, <2>6 DEF ReaperOK
<1>3. \A s \in Socks : Released(s)
  BY DEF CtxInit, Released
<1> QED BY <1>1, <1>2, <1>3 DEF CtxInv

LEMMA CtxInvStep ==
  ASSUME CtxInv, [CtxNext]_cvars
  PROVE  CtxInv'
<1>1. CASE \E c \in Ctxs : CtxNew(c)
  BY <1>1, CtxNewStep
<1>2. CASE \E c \in Ctxs : Destroy(c)
  BY <1>2, DestroyStep DEF Destroy
<1>3. CASE \E c \in Ctxs, s \in Socks : NewSocket(s, c)
  BY <1>3, NewSocketStep
<1>4. CASE \/ \E s \in Socks, p \in Ports : Bind(s, p)
           \/ \E s \in Socks : Queue(s) \/ IO(s)
           \/ TermInterrupted
  BY <1>4, IdleStep
<1>5. CASE \E s \in Socks : Close(s)
  BY <1>5, CloseStep DEF Close
<1>6. CASE TermReturns
  BY <1>6, TermReturnsStep
<1>7. CASE \E c \in Ctxs : Reaper(c)
  BY <1>7, ProcessReapStep, ProcessStopStep, ProcessReapedStep, EraseSocketStep,
     FreeSocketStep DEF Reaper
<1>8. CASE UNCHANGED cvars
  <2>1. UNCHANGED <<cst, sst, owner, bound, pending, mbox, rcount, rstop, done, waits, signals,
                    misuse>>
    BY <1>8 DEF cvars
  <2>2. CtxTypeOK'
    BY <2>1 DEF CtxInv, CtxTypeOK, Command, Stop, Reaped, Reap
  <2>3. \A c \in Ctxs : ReaperOK(c)'
    BY <2>1, Elsewhere DEF CtxInv
  <2>4. \A s \in Socks : Released(s)'
    BY <2>1 DEF CtxInv, Released
  <2> QED BY <2>2, <2>3, <2>4 DEF CtxInv
<1> QED BY <1>1, <1>2, <1>3, <1>4, <1>5, <1>6, <1>7, <1>8 DEF CtxNext, User, Library

(* What the invariant says of the context's end, and of the reaper's count. *)
LEMMA CtxInvMeans == CtxInv => FreedLast /\ ReaperCounts
<1> SUFFICES ASSUME CtxInv PROVE FreedLast /\ ReaperCounts
  OBVIOUS
<1>1. FreedLast
  BY DEF CtxInv, ReaperOK, Released, FreedLast
<1>2. ASSUME NEW c \in Ctxs
      PROVE  /\ rcount[c] = Cardinality(InReaper(c)) + Cardinality(CommandsAt(c, "reaped"))
             /\ Cardinality(CommandsAt(c, "stop")) <= IF c \in rstop THEN 0 ELSE 1
             /\ CommandsAt(c, "stop") # {} \/ c \in rstop => SocketsOf(c) = {}
  <2>1. ReaperOK(c) /\ mbox[c] \in Seq(Command)
    BY DEF CtxInv, CtxTypeOK
  <2>2. CommandsAt(c, "reaped") = Reports(mbox[c])
    BY DEF CommandsAt, Reports
  <2>3. \A i \in CommandsAt(c, "stop") : i \in 1 .. Len(mbox[c]) /\ mbox[c][i] = Stop
    BY <2>1, Commands DEF CommandsAt
  <2>4. CommandsAt(c, "stop") # {} => In(mbox[c], Stop)
    BY <2>3 DEF In
  <2>5. \A i, j \in CommandsAt(c, "stop") : i = j
    BY <2>1, <2>3, Commands DEF ReaperOK, NoRepeat
  <2>6. CommandsAt(c, "stop") = {} \/ \E i : CommandsAt(c, "stop") = {i}
    BY <2>5
  <2>7. Cardinality(CommandsAt(c, "stop")) <= IF c \in rstop THEN 0 ELSE 1
    <3>1. CASE CommandsAt(c, "stop") = {}
      <4>1. Cardinality(CommandsAt(c, "stop")) = 0
        BY <3>1, FS_EmptySet
      <4> QED BY <4>1
    <3>2. CASE CommandsAt(c, "stop") # {}
      <4>1. c \notin rstop
        BY <2>1, <2>4, <3>2 DEF ReaperOK
      <4>2. Cardinality(CommandsAt(c, "stop")) = 1
        BY <2>6, <3>2, FS_Singleton
      <4> QED BY <4>1, <4>2
    <3> QED BY <3>1, <3>2
  <2> QED BY <2>1, <2>2, <2>4, <2>7 DEF ReaperOK
<1> QED BY <1>1, <1>2 DEF ReaperCounts, InReaper

(* A context is deleted last, when every socket of it has been freed, and  *)
(* its reaper counts right: whatever calls the user makes, in any order,   *)
(* with any pointer he has been given (R_zmq_close(), R_zmq_ctx_destroy()).*)
THEOREM ContextEndsInOrder == CtxSpec => [](CtxTypeOK /\ FreedLast /\ ReaperCounts)
<1>1. CtxInit => CtxInv
  BY CtxInvInit
<1>2. CtxInv /\ [CtxNext]_cvars => CtxInv'
  BY CtxInvStep
<1>3. CtxInv => CtxTypeOK /\ FreedLast /\ ReaperCounts
  BY CtxInvMeans DEF CtxInv
<1> QED BY <1>1, <1>2, <1>3, PTL DEF CtxSpec
=============================================================================
