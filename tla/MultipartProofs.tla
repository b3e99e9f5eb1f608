-------------------------- MODULE MultipartProofs ---------------------------
(***************************************************************************)
(* Theorems about Multipart, for any workloads, high-water mark and any    *)
(* number of broken connections and interrupted sends.                     *)
(***************************************************************************)
EXTENDS Multipart, SequenceTheorems, TLAPS

List  == Seq({"NULL", "value"})
PartT == Nat \X Nat
Frame == [part : PartT, more : {"yes", "no"}]
Numbers(l) == 1 .. Len(l)

(* The types of all variables, and how far a call may have come: to the    *)
(* first index that its list does not have.                                *)
Typed ==
  /\ lists \in Seq(List) /\ lists \in Workloads
  /\ call \in 1 .. Len(lists) + 1
  /\ step \in Nat /\ (step = 0 \/ call <= Len(lists))
  /\ step > 0 => /\ step <= Len(Schedule)
                 /\ \A j \in 1 .. step - 1 : Schedule[j] \in DOMAIN lists[call]
  /\ pipe \in {"active", "closing", "none"}
  /\ more \in {"yes", "no"} /\ dropping \in {"yes", "no"}
  /\ unflushed \in Seq(Frame) /\ wire \in Seq(Frame)
  /\ rcvmore \in {0, 1} /\ ipart \in Nat
  /\ ret \in Seq(PartT) /\ Len(ret) <= ipart /\ got \in Seq(Seq(PartT))
  /\ breaks \in 0 .. MaxBreaks /\ interrupts \in 0 .. MaxInterrupts
  /\ mishaps \subseteq {"subscript", "rollback", "interrupt"}

-----------------------------------------------------------------------------
(* The indices of the parts that are sent.                                 *)

LEMMA IndicesOf ==
  ASSUME NEW n \in Nat
  PROVE  /\ Len(Indices(n)) = IF n >= 2 THEN n ELSE 4 - n
         /\ n >= 2 => \A j \in 1 .. n : Indices(n)[j] = j
         /\ n < 2 => Indices(n)[1] = 1 /\ Indices(n)[2] = 0
<1>1. CASE n >= 2
  <2> DEFINE up == [j \in 1 .. n - 1 |-> j]
  <2>1. up \in Seq(Int) /\ Len(up) = n - 1 /\ <<n>> \in Seq(Int) /\ Len(<<n>>) = 1
    BY <1>1
  <2>2. Indices(n) = up \o <<n>>
    BY <1>1 DEF Indices
  <2> HIDE DEF up
  <2>3. /\ Len(up \o <<n>>) = n
        /\ \A i \in 1 .. n : (up \o <<n>>)[i] = IF i <= n - 1 THEN up[i] ELSE <<n>>[i - (n - 1)]
    BY <1>1, <2>1, ConcatProperties
  <2>4. \A i \in 1 .. n : (up \o <<n>>)[i] = i
    <3> TAKE i \in 1 .. n
    <3>0. i <= n - 1 \/ i = n
      BY <1>1
    <3>1. CASE i <= n - 1
      BY <2>3, <3>1 DEF up
    <3>2. CASE i = n
      <4>1. i - (n - 1) = 1 /\ ~(i <= n - 1) /\ i \in 1 .. n
        BY <1>1, <3>2
      <4>2. (up \o <<n>>)[i] = <<n>>[1]
        BY <2>3, <4>1
      <4> QED BY <3>2, <4>2
    <3> QED BY <3>0, <3>1, <3>2
  <2> QED BY <1>1, <2>2, <2>3, <2>4
<1>2. CASE n < 2
  <2> DEFINE down == [j \in 1 .. 3 - n |-> 2 - j]
  <2>1. /\ down \in Seq(Int) /\ Len(down) = 3 - n /\ <<n>> \in Seq(Int) /\ Len(<<n>>) = 1
        /\ down[1] = 1 /\ down[2] = 0
    BY <1>2
  <2>2. Indices(n) = down \o <<n>>
    BY <1>2 DEF Indices
  <2> HIDE DEF down
  <2>3. /\ Len(down \o <<n>>) = 4 - n
        /\ \A i \in 1 .. 4 - n : (down \o <<n>>)[i] =
                                  IF i <= 3 - n THEN down[i] ELSE <<n>>[i - (3 - n)]
    BY <1>2, <2>1, ConcatProperties
  <2> QED BY <1>2, <2>1, <2>2, <2>3
<1> QED BY <1>1, <1>2

(* A call sends its parts in their order, until one is not there; only a   *)
(* list of two or more has a last part.                                    *)
LEMMA InStep ==
  ASSUME Typed, step > 0
  PROVE  /\ call \in DOMAIN lists /\ lists[call] \in List /\ DOMAIN lists = 1 .. Len(lists)
         /\ DOMAIN lists[call] = 1 .. Len(lists[call]) /\ Len(lists[call]) \in Nat
         /\ Sends => /\ Schedule[step] = step /\ step \in 1 .. Len(lists[call])
                     /\ step = Len(Schedule) <=> Len(lists[call]) >= 2 /\ step = Len(lists[call])
                     /\ Len(Schedule) \in Nat
         /\ Sends => \A j \in 1 .. step : Schedule[j] \in DOMAIN lists[call]
<1> DEFINE n == Len(lists[call])
<1>1. /\ call \in DOMAIN lists /\ lists[call] \in List /\ DOMAIN lists = 1 .. Len(lists)
      /\ DOMAIN lists[call] = 1 .. n /\ n \in Nat
  BY DEF Typed, List
<1>2. Schedule = Indices(n) /\ step \in Nat
  BY DEF Schedule, Typed
<1> HIDE DEF n
<1>3. /\ Len(Schedule) = IF n >= 2 THEN n ELSE 4 - n
      /\ n >= 2 => \A j \in 1 .. n : Schedule[j] = j
      /\ n < 2 => Schedule[1] = 1 /\ Schedule[2] = 0
  BY <1>1, <1>2, IndicesOf
<1>4. step <= Len(Schedule) /\ \A j \in 1 .. step - 1 : Schedule[j] \in 1 .. n
  BY <1>1 DEF Typed
<1>5. ASSUME Sends PROVE Schedule[step] = step /\ step \in 1 .. n
  <2>1. Schedule[step] \in 1 .. n
    BY <1>1, <1>5 DEF Sends
  <2>2. CASE n >= 2
    BY <1>2, <1>3, <1>4, <2>2
  <2>3. CASE n < 2
    <3>1. step < 3
      <4> SUFFICES ASSUME step >= 3 PROVE FALSE
        BY <1>2
      <4>1. 2 \in 1 .. step - 1
        BY <1>2
      <4>2. Schedule[2] = 0 /\ Schedule[2] \in 1 .. n
        BY <1>3, <1>4, <2>3, <4>1
      <4> QED BY <1>1, <4>2
    <3>2. step # 2
      BY <1>3, <2>1, <2>3
    <3>3. step = 1
      BY <1>2, <3>1, <3>2
    <3> QED BY <1>3, <2>1, <2>3, <3>3
  <2> QED BY <1>1, <2>2, <2>3
<1>6. ASSUME Sends PROVE \A j \in 1 .. step : Schedule[j] \in 1 .. n
  <2>1. \A j \in 1 .. step : j \in 1 .. step - 1 \/ j = step
    BY <1>2
  <2> QED BY <1>4, <1>5, <1>6, <2>1
<1>7. ASSUME Sends PROVE step = Len(Schedule) <=> n >= 2 /\ step = n
  BY <1>1, <1>2, <1>3, <1>5, <1>7
<1> QED BY <1>1, <1>3, <1>5, <1>6, <1>7 DEF n

(* A part has its type.                                                    *)
LEMMA PartType ==
  /\ NullPart \in PartT
  /\ \A k, i \in Nat : Part(k, i) \in PartT /\ Part(k, i) \in {NullPart, <<k, i>>}
BY DEF NullPart, Part, PartT
-----------------------------------------------------------------------------
(* What the steps do.                                                      *)

(* The part that is sent, as a frame.                                      *)
Now == PartFrame(Part(call, step), Flag)

LEMMA Advances ==
  ASSUME Typed, Sends, NextPart
  PROVE  /\ Flag \in {"yes", "no"} /\ Now \in Frame /\ lists' = lists
         /\ Flag = "no" => /\ step' = 0 /\ call' = call + 1
                           /\ Len(lists[call]) >= 2 /\ step = Len(lists[call])
         /\ Flag = "yes" => /\ step' = step + 1 /\ call' = call /\ Schedule' = Schedule
                            /\ step + 1 <= Len(Schedule)
                            /\ ~(Len(lists[call]) >= 2 /\ step = Len(lists[call]))
<1>1. step > 0 /\ step \in Nat /\ call \in Nat
  BY DEF Sends, Typed
<1>2. /\ step = Len(Schedule) <=> Len(lists[call]) >= 2 /\ step = Len(lists[call])
      /\ Len(Schedule) \in Nat /\ step <= Len(Schedule)
  BY <1>1, InStep DEF Typed
<1>3. lists' = lists
  BY DEF NextPart
<1>4. CASE step = Len(Schedule)
  BY <1>1, <1>2, <1>3, <1>4, PartType DEF NextPart, Flag, Now, PartFrame, Frame
<1>5. CASE step # Len(Schedule)
  <2>1. step < Len(Schedule) /\ step + 1 <= Len(Schedule)
    BY <1>1, <1>2, <1>5
  <2>2. step' = step + 1 /\ call' = call
    BY <2>1 DEF NextPart
  <2> QED BY <1>1, <1>2, <1>3, <1>5, <2>1, <2>2, PartType DEF Flag, Now, PartFrame, Frame, Schedule
<1> QED BY <1>4, <1>5

LEMMA Writes ==
  ASSUME Typed, SendPart
  PROVE  /\ NextPart /\ Sends /\ dropping = "no" /\ pipe = "active" /\ more' = Flag
         /\ UNCHANGED <<dropping, pipe, rcvmore, ipart, ret, got, breaks, interrupts, mishaps>>
         /\ Append(unflushed, Now) \in Seq(Frame)
         /\ Flag = "no" => wire' = wire \o Append(unflushed, Now) /\ unflushed' = <<>>
         /\ Flag = "yes" => wire' = wire /\ unflushed' = Append(unflushed, Now)
<1>1. /\ NextPart /\ Sends /\ dropping = "no" /\ pipe = "active" /\ more' = Flag
      /\ UNCHANGED <<dropping, pipe, rcvmore, ipart, ret, got, breaks, interrupts, mishaps>>
  BY DEF SendPart, rvars, Room
<1>2. Schedule[step] = step /\ Now \in Frame /\ unflushed \in Seq(Frame)
  BY <1>1, InStep, Advances DEF Sends, Typed
<1>3. Flushed(Append(unflushed, Now))
  BY <1>2 DEF SendPart, Now
<1>4. /\ Append(unflushed, Now) \in Seq(Frame)
      /\ Append(unflushed, Now)[Len(Append(unflushed, Now))] = Now
  BY <1>2, AppendProperties
<1>5. Last(Append(unflushed, Now)).more = Flag
  BY <1>4 DEF Last, Now, PartFrame
<1> QED BY <1>1, <1>3, <1>4, <1>5 DEF Flushed

(* ret[[i]] <- p, beyond the end of ret.                                   *)
LEMMA Assigned ==
  ASSUME NEW l \in Seq(PartT), NEW i \in Nat, Len(l) < i, NEW p \in PartT
  PROVE  /\ Assign(l, i, p) \in Seq(PartT) /\ Len(Assign(l, i, p)) <= i
         /\ p = NullPart => Assign(l, i, p) = l
         /\ p # NullPart =>
              /\ Len(Assign(l, i, p)) = i /\ Assign(l, i, p)[i] = p
              /\ \A j \in Numbers(l) : Assign(l, i, p)[j] = l[j]
              /\ \A j \in Len(l) + 1 .. i - 1 : Assign(l, i, p)[j] = NullPart
              /\ Assign(l, i, p) = [j \in 1 .. i |-> IF j <= Len(l) THEN l[j]
                                                    ELSE IF j = i THEN p ELSE NullPart]
<1>1. CASE p = NullPart
  BY <1>1 DEF Assign
<1>2. CASE p # NullPart
  <2> DEFINE new == [j \in 1 .. i |-> IF j <= Len(l) THEN l[j] ELSE IF j = i THEN p ELSE NullPart]
  <2>1. Assign(l, i, p) = new
    BY <1>2 DEF Assign
  <2>2. \A j \in 1 .. i : new[j] \in PartT
    BY PartType
  <2>3. new \in Seq(PartT) /\ Len(new) = i
    BY <2>2
  <2>4. \A j \in 1 .. i : new[j] = IF j <= Len(l) THEN l[j] ELSE IF j = i THEN p ELSE NullPart
    OBVIOUS
  <2>5. Len(l) \in Nat /\ i \in 1 .. i /\ ~(i <= Len(l)) /\ \A j \in Numbers(l) : j \in 1 .. i
    BY DEF Numbers
  <2> HIDE DEF new
  <2>6. \A j \in Numbers(l) : new[j] = l[j]
    BY <2>4, <2>5 DEF Numbers
  <2>7. \A j \in Len(l) + 1 .. i - 1 : new[j] = NullPart
    BY <2>4, <2>5
  <2>8. new[i] = p /\ Len(new) <= i
    BY <2>3, <2>4, <2>5
  <2>9. /\ new \in Seq(PartT) /\ Len(new) = i
        /\ new = [j \in 1 .. i |-> IF j <= Len(l) THEN l[j] ELSE IF j = i THEN p ELSE NullPart]
    BY <2>3 DEF new
  <2> QED BY <1>2, <2>1, <2>6, <2>7, <2>8, <2>9
<1> QED BY <1>1, <1>2

(* The list as it is with the part that arrives.                           *)
Taken == Assign(ret, ipart + 1, Head(wire).part)

LEMMA Receives ==
  ASSUME Typed, RecvPart
  PROVE  /\ wire # <<>> /\ wire' = Tail(wire) /\ Head(wire) \in Frame /\ Head(wire) = wire[1]
         /\ Taken \in Seq(PartT) /\ Len(Taken) <= ipart + 1 /\ ipart + 1 \in Nat
         /\ Len(ret) < ipart + 1 /\ Head(wire).part \in PartT
         /\ Head(wire).more = "yes" => /\ rcvmore' = 1 /\ ipart' = ipart + 1
                                       /\ ret' = Taken /\ got' = got
         /\ Head(wire).more = "no" => /\ rcvmore' = 0 /\ ipart' = 0
                                      /\ ret' = <<>> /\ got' = Append(got, Taken)
         /\ UNCHANGED <<lists, call, step, more, dropping, unflushed, pipe, breaks, interrupts,
                        mishaps>>
<1>1. /\ wire # <<>> /\ wire' = Tail(wire) /\ Head(wire) \in Frame /\ Head(wire) = wire[1]
  BY DEF Typed, RecvPart
<1>2. Head(wire).part \in PartT /\ Head(wire).more \in {"yes", "no"}
  BY <1>1 DEF Frame
<1>3. ret \in Seq(PartT) /\ ipart + 1 \in Nat /\ Len(ret) < ipart + 1
  BY DEF Typed
<1>4. Taken \in Seq(PartT) /\ Len(Taken) <= ipart + 1
  BY <1>2, <1>3, Assigned DEF Taken
<1>5. rcvmore' = IF Head(wire).more = "yes" THEN 1 ELSE 0
  BY DEF RecvPart, RcvMore
<1> QED BY <1>1, <1>2, <1>3, <1>4, <1>5 DEF RecvPart, GoesOn, Taken, svars

(* Complete messages that have not arrived are lost.                       *)
LEMMA Loses ==
  ASSUME Typed, Break
  PROVE  /\ UNCHANGED <<lists, call, step, more, dropping, unflushed, rcvmore, ipart, ret, got,
                        interrupts, mishaps>>
         /\ pipe' = "closing" /\ breaks' \in 0 .. MaxBreaks
         /\ \E n \in 0 .. Len(wire) :
              /\ n = 0 => rcvmore = 0
              /\ n > 0 => wire[n].more = "no"
              /\ wire' = SubSeq(wire, 1, n)
              /\ wire' \in Seq(Frame) /\ Len(wire') = n /\ \A m \in 1 .. n : wire'[m] = wire[m]
<1>1. PICK n \in Ends(wire) \cup (IF rcvmore = 0 THEN {0} ELSE {}) : wire' = SubSeq(wire, 1, n)
  BY DEF Break
<1>2. /\ n \in 0 .. Len(wire) /\ (n = 0 => rcvmore = 0) /\ (n > 0 => wire[n].more = "no")
      /\ wire \in Seq(Frame) /\ Len(wire) \in Nat
  BY <1>1 DEF Ends, Typed
<1>3. \A m \in 1 .. n : wire[m] \in Frame
  BY <1>2
<1>4. /\ SubSeq(wire, 1, n) \in Seq(Frame)
      /\ Len(SubSeq(wire, 1, n)) = IF 1 <= n THEN n - 1 + 1 ELSE 0
      /\ \A m \in 1 .. n - 1 + 1 : SubSeq(wire, 1, n)[m] = wire[1 + m - 1]
  BY <1>2, <1>3, SubSeqProperties
<1>5. Len(SubSeq(wire, 1, n)) = n /\ \A m \in 1 .. n : SubSeq(wire, 1, n)[m] = wire[m]
  BY <1>2, <1>4
<1>6. breaks' \in 0 .. MaxBreaks
  BY MultipartAssumption DEF Break, Typed
<1> QED BY <1>1, <1>2, <1>4, <1>5, <1>6 DEF Break, svars, rvars

-----------------------------------------------------------------------------
(* Types, and that the rest of a message is there.                         *)

LEMMA TypedInit == MultiInit => Typed
<1> SUFFICES ASSUME MultiInit PROVE Typed
  OBVIOUS
<1>1. lists \in Seq(List) /\ lists \in Workloads /\ call = 1 /\ step = 0
  BY MultipartAssumption DEF MultiInit, List
<1>2. 1 \in 1 .. Len(lists) + 1
  BY <1>1
<1>3. <<>> \in Seq(Frame) /\ <<>> \in Seq(PartT) /\ <<>> \in Seq(Seq(PartT)) /\ Len(<<>>) = 0
  OBVIOUS
<1> QED BY <1>1, <1>2, <1>3, MultipartAssumption DEF MultiInit, Typed

LEMMA TypedSends ==
  ASSUME Typed, SendPart \/ DropPart \/ SendInterrupted
  PROVE  Typed'
<1>1. Sends /\ NextPart
  BY DEF SendPart, DropPart, SendInterrupted
<1>2. /\ lists' = lists /\ call' \in 1 .. Len(lists) + 1 /\ step' \in Nat
      /\ step' = 0 \/ call' <= Len(lists)
      /\ step' > 0 => /\ step' <= Len(Schedule')
                      /\ \A j \in 1 .. step' - 1 : Schedule'[j] \in DOMAIN lists[call']
  <2>1. /\ call \in 1 .. Len(lists) /\ step \in Nat /\ step > 0 /\ Len(lists) \in Nat
        /\ \A j \in 1 .. step : Schedule[j] \in DOMAIN lists[call]
    BY <1>1, InStep DEF Sends, Typed
  <2>2. call \in Nat /\ call + 1 \in 1 .. Len(lists) + 1 /\ Flag \in {"yes", "no"}
    BY <1>1, <2>1, Advances
  <2>3. CASE Flag = "no"
    <3>1. step' = 0 /\ call' = call + 1 /\ lists' = lists
      BY <1>1, <2>3, Advances
    <3> QED BY <2>2, <3>1
  <2>4. CASE Flag = "yes"
    <3>1. /\ step' = step + 1 /\ call' = call /\ lists' = lists /\ Schedule' = Schedule
          /\ step + 1 <= Len(Schedule)
      BY <1>1, <2>4, Advances
    <3>2. \A j \in 1 .. step' - 1 : j \in 1 .. step
      BY <2>1, <3>1
    <3> QED BY <2>1, <2>2, <3>1, <3>2
  <2> QED BY <2>2, <2>3, <2>4
<1>3. more' \in {"yes", "no"} /\ dropping' \in {"yes", "no"}
  BY <1>1, Advances DEF SendPart, DropPart, SendInterrupted, Typed
<1>4. unflushed' \in Seq(Frame) /\ wire' \in Seq(Frame)
  <2>1. CASE SendPart
    <3>1. wire \in Seq(Frame) /\ Append(unflushed, Now) \in Seq(Frame)
      BY <2>1, Writes DEF Typed
    <3>2. wire \o Append(unflushed, Now) \in Seq(Frame) /\ <<>> \in Seq(Frame)
      BY <3>1, ConcatProperties
    <3> QED BY <1>1, <2>1, <3>1, <3>2, Writes, Advances
  <2>2. CASE DropPart \/ SendInterrupted
    BY <2>2 DEF DropPart, SendInterrupted, Typed
  <2> QED BY <2>1, <2>2
<1>5. /\ UNCHANGED <<pipe, rcvmore, ipart, ret, got, breaks>>
      /\ interrupts' \in 0 .. MaxInterrupts
      /\ mishaps' \subseteq {"subscript", "rollback", "interrupt"}
  <2>1. CASE SendPart \/ DropPart
    BY <2>1 DEF SendPart, DropPart, rvars, Typed
  <2>2. CASE SendInterrupted
    <3>1. interrupts + 1 \in 0 .. MaxInterrupts
      BY <2>2, MultipartAssumption DEF SendInterrupted, Typed
    <3> QED BY <2>2, <3>1 DEF SendInterrupted, rvars, Typed
  <2> QED BY <2>1, <2>2
<1> QED BY <1>2, <1>3, <1>4, <1>5 DEF Typed

LEMMA TypedStep == Typed /\ [MultiNext]_multivars => Typed'
<1> SUFFICES ASSUME Typed, [MultiNext]_multivars PROVE Typed'
  OBVIOUS
<1>1. CASE UNCHANGED multivars
  BY <1>1 DEF multivars, svars, rvars, Typed, Schedule
<1>2. CASE SCall
  <2>1. /\ call \in 1 .. Len(lists) /\ step' = 1 /\ UNCHANGED <<lists, call>>
    BY <1>2 DEF SCall, Typed
  <2>2. lists[call] \in List
    BY <2>1 DEF Typed
  <2>3. 1 <= Len(Schedule) /\ Schedule' = Schedule
    <3>1. Len(lists[call]) \in Nat
      BY <2>2 DEF List
    <3> QED BY <2>1, <3>1, IndicesOf DEF Schedule
  <2>4. \A j \in 1 .. step' - 1 : FALSE
    BY <2>1
  <2> QED BY <1>2, <2>1, <2>3, <2>4 DEF SCall, Typed, rvars
<1>3. CASE BadIndex
  <2>1. step' = 0 /\ call' = call + 1 /\ call \in 1 .. Len(lists) /\ Len(lists) \in Nat
    BY <1>3 DEF BadIndex, Typed
  <2> QED BY <1>3, <2>1 DEF BadIndex, Typed, rvars
<1>4. CASE SendPart \/ DropPart \/ SendInterrupted
  BY <1>4, TypedSends
<1>5. CASE Rollback \/ PipeTerminated \/ Attach
  <2>1. <<>> \in Seq(Frame) /\ UNCHANGED <<lists, call, step>>
    BY <1>5 DEF Rollback, PipeTerminated, Attach, svars
  <2> QED BY <1>5, <2>1 DEF Rollback, PipeTerminated, Attach, Typed, svars, rvars, Schedule
<1>6. CASE Break
  BY <1>6, Loses DEF Typed, Schedule
<1>7. CASE RecvPart
  <2>1. Tail(wire) \in Seq(Frame) /\ <<>> \in Seq(PartT) /\ Len(<<>>) = 0
    BY <1>7, Receives DEF Typed
  <2>2. Append(got, Taken) \in Seq(Seq(PartT))
    BY <1>7, Receives DEF Typed
  <2>3. Head(wire).more \in {"yes", "no"}
    BY <1>7, Receives DEF Frame
  <2>4. /\ rcvmore' \in {0, 1} /\ ipart' \in Nat /\ wire' \in Seq(Frame)
        /\ ret' \in Seq(PartT) /\ Len(ret') <= ipart' /\ got' \in Seq(Seq(PartT))
    <3>1. CASE Head(wire).more = "yes"
      BY <1>7, <2>1, <3>1, Receives DEF Typed
    <3>2. CASE Head(wire).more = "no"
      <4>1. /\ rcvmore' = 0 /\ ipart' = 0 /\ ret' = <<>> /\ got' = Append(got, Taken)
            /\ wire' = Tail(wire)
        BY <1>7, <3>2, Receives
      <4> QED BY <2>1, <2>2, <4>1
    <3> QED BY <2>3, <3>1, <3>2
  <2>5. UNCHANGED <<lists, call, step, more, dropping, unflushed, pipe, breaks, interrupts, mishaps>>
    BY <1>7, Receives
  <2>6. Schedule' = Schedule
    BY <2>5 DEF Schedule
  <2> QED BY <2>4, <2>5, <2>6 DEF Typed
<1> QED BY <1>1, <1>2, <1>3, <1>4, <1>5, <1>6, <1>7 DEF MultiNext, Sender

(* Only whole messages are flushed and lost, and a message that the        *)
(* receiver has begun is not lost any more.                                *)
EndsWhole == /\ wire # <<>> => wire[Len(wire)].more = "no"
             /\ rcvmore = 1 => wire # <<>>

(* The end of a wire that is written to, that breaks, and that is read.    *)
LEMMA EndsWholeStep ==
  ASSUME Typed, EndsWhole, [MultiNext]_multivars
  PROVE  EndsWhole'
<1>1. CASE SendPart
  <2>1. Sends /\ NextPart /\ Flag \in {"yes", "no"} /\ rcvmore' = rcvmore /\ Now.more = Flag
    BY <1>1, Writes, Advances DEF Now, PartFrame
  <2>2. CASE Flag = "yes"
    BY <1>1, <2>1, <2>2, Writes DEF EndsWhole
  <2>3. CASE Flag = "no"
    <3> DEFINE new == Append(unflushed, Now)
    <3>1. /\ new \in Seq(Frame) /\ wire \in Seq(Frame) /\ wire' = wire \o new
          /\ unflushed \in Seq(Frame) /\ Now \in Frame
      BY <1>1, <2>1, <2>3, Writes, Advances DEF Typed
    <3>2. Len(new) = Len(unflushed) + 1 /\ new[Len(new)] = Now /\ Len(unflushed) \in Nat
      BY <3>1, AppendProperties
    <3> HIDE DEF new
    <3>3. /\ Len(wire \o new) = Len(wire) + Len(new) /\ Len(wire) \in Nat /\ Len(new) \in Nat
          /\ wire \o new \in Seq(Frame)
          /\ \A i \in 1 .. Len(wire) + Len(new) :
               (wire \o new)[i] = IF i <= Len(wire) THEN wire[i] ELSE new[i - Len(wire)]
      BY <3>1, ConcatProperties
    <3>4. (wire \o new)[Len(wire \o new)] = Now
      <4>1. /\ Len(wire) + Len(new) \in 1 .. Len(wire) + Len(new)
            /\ ~(Len(wire) + Len(new) <= Len(wire))
            /\ (Len(wire) + Len(new)) - Len(wire) = Len(new)
        BY <3>2, <3>3
      <4> QED BY <3>2, <3>3, <4>1
    <3>5. wire \o new # <<>>
      BY <3>2, <3>3, EmptySeq
    <3> QED BY <2>1, <2>3, <3>1, <3>4, <3>5 DEF EndsWhole
  <2> QED BY <2>1, <2>2, <2>3
<1>2. CASE Break
  <2>1. PICK n \in 0 .. Len(wire) :
          /\ n = 0 => rcvmore = 0
          /\ n > 0 => wire[n].more = "no"
          /\ wire' \in Seq(Frame) /\ Len(wire') = n /\ \A m \in 1 .. n : wire'[m] = wire[m]
    BY <1>2, Loses
  <2>2. rcvmore' = rcvmore
    BY <1>2, Loses
  <2>3. wire' = <<>> <=> n = 0
    BY <2>1, EmptySeq
  <2>4. n > 0 => wire'[Len(wire')].more = "no"
    <3> SUFFICES ASSUME n > 0 PROVE wire'[Len(wire')].more = "no"
      OBVIOUS
    <3>1. n \in 1 .. n /\ Len(wire') = n
      BY <2>1
    <3> QED BY <2>1, <3>1
  <2> QED BY <2>1, <2>2, <2>3, <2>4 DEF EndsWhole
<1>3. CASE RecvPart
  <2>1. /\ wire \in Seq(Frame) /\ wire # <<>> /\ wire' = Tail(wire) /\ Head(wire) = wire[1]
        /\ Head(wire).more \in {"yes", "no"}
        /\ Head(wire).more = "yes" => rcvmore' = 1
        /\ Head(wire).more = "no" => rcvmore' = 0
    BY <1>3, Receives DEF Typed, Frame
  <2>2. /\ Tail(wire) \in Seq(Frame) /\ Len(Tail(wire)) = Len(wire) - 1
        /\ \A i \in 1 .. Len(Tail(wire)) : Tail(wire)[i] = wire[i + 1]
    BY <2>1, HeadTailProperties
  <2>3. Len(wire) \in Nat \ {0} /\ wire[Len(wire)].more = "no"
    BY <2>1, EmptySeq DEF EndsWhole
  <2>4. Tail(wire) = <<>> <=> Len(wire) = 1
    BY <2>2, <2>3, EmptySeq
  <2>5. Len(wire) # 1 => Tail(wire)[Len(Tail(wire))].more = "no"
    <3> SUFFICES ASSUME Len(wire) # 1 PROVE Tail(wire)[Len(Tail(wire))].more = "no"
      OBVIOUS
    <3>1. Len(Tail(wire)) \in 1 .. Len(Tail(wire)) /\ Len(Tail(wire)) + 1 = Len(wire)
      BY <2>2, <2>3
    <3> QED BY <2>2, <2>3, <3>1
  <2>6. rcvmore' = 1 => Len(wire) # 1
    BY <2>1, <2>3
  <2> QED BY <2>1, <2>4, <2>5, <2>6 DEF EndsWhole
<1>4. CASE ~(SendPart \/ Break \/ RecvPart)
  <2>1. UNCHANGED <<wire, rcvmore>>
    BY <1>4 DEF MultiNext, Sender, SCall, BadIndex, DropPart, Rollback, SendInterrupted,
                PipeTerminated, Attach, multivars, svars, rvars
  <2> QED BY <2>1 DEF EndsWhole
<1> QED BY <1>1, <1>2, <1>3, <1>4

LEMMA RestFromEnd == ASSUME Typed, EndsWhole PROVE RestIsThere
<1> SUFFICES ASSUME rcvmore = 1 PROVE Ends(wire) # {}
  BY DEF RestIsThere
<1>1. Len(wire) \in DOMAIN wire /\ wire[Len(wire)].more = "no"
  BY EmptySeq DEF EndsWhole, Typed
<1> QED BY <1>1 DEF Ends

-----------------------------------------------------------------------------
(* The order of the parts: those of the receiver, on the wire, not         *)
(* flushed, and still to be sent.                                          *)

Vals(frames)   == {frames[m].part : m \in Numbers(frames)} \ {NullPart}
Sorted(frames) == \A m, n \in Numbers(frames) :
                    m < n /\ frames[m].part # NullPart /\ frames[n].part # NullPart
                      => Earlier(frames[m].part, frames[n].part)
AllBefore(A, B) == \A p \in A, q \in B : Earlier(p, q)

Arrived == (UNION {{Received(n)[i] : i \in DOMAIN Received(n)} : n \in 1 .. Len(got) + 1})
             \ {NullPart}
Past(p) == p[1] < call \/ (p[1] = call /\ p[2] < step)

Order ==
  /\ InOrder /\ Sorted(wire) /\ Sorted(unflushed)
  /\ AllBefore(Arrived, Vals(wire)) /\ AllBefore(Arrived, Vals(unflushed))
  /\ AllBefore(Vals(wire), Vals(unflushed))
  /\ \A p \in Arrived \cup Vals(wire) \cup Vals(unflushed) : Past(p)

(* What an empty sequence, a longer one, and pieces of one hold.           *)
LEMMA NoVals == Vals(<<>>) = {} /\ Sorted(<<>>)
BY DEF Vals, Sorted, Numbers

LEMMA MoreVals ==
  ASSUME NEW s \in Seq(Frame), NEW f \in Frame
  PROVE  /\ Vals(Append(s, f)) = Vals(s) \cup ({f.part} \ {NullPart})
         /\ Sorted(s) /\ AllBefore(Vals(s), {f.part} \ {NullPart}) => Sorted(Append(s, f))
<1> DEFINE t == Append(s, f)
<1>1. /\ Len(t) = Len(s) + 1 /\ Len(s) \in Nat /\ t[Len(s) + 1] = f
      /\ \A m \in 1 .. Len(s) : t[m] = s[m]
  BY AppendProperties
<1> HIDE DEF t
<1>2. Numbers(t) = Numbers(s) \cup {Len(s) + 1}
  BY <1>1 DEF Numbers
<1>3. Vals(t) = Vals(s) \cup ({f.part} \ {NullPart})
  BY <1>1, <1>2 DEF Vals, Numbers
<1>4. ASSUME Sorted(s), AllBefore(Vals(s), {f.part} \ {NullPart}) PROVE Sorted(t)
  <2> SUFFICES ASSUME NEW m \in Numbers(t), NEW n \in Numbers(t), m < n,
                      t[m].part # NullPart, t[n].part # NullPart
               PROVE  Earlier(t[m].part, t[n].part)
    BY DEF Sorted
  <2>1. m \in Numbers(s) /\ t[m] = s[m]
    BY <1>1, <1>2 DEF Numbers
  <2>2. CASE n \in Numbers(s)
    BY <1>1, <1>4, <2>1, <2>2 DEF Sorted, Numbers
  <2>3. CASE n = Len(s) + 1
    BY <1>1, <1>4, <2>1, <2>3 DEF AllBefore, Vals
  <2> QED BY <1>2, <2>2, <2>3
<1> QED BY <1>3, <1>4 DEF t

LEMMA JoinVals ==
  ASSUME NEW s \in Seq(Frame), NEW t \in Seq(Frame)
  PROVE  /\ Vals(s \o t) = Vals(s) \cup Vals(t)
         /\ Sorted(s) /\ Sorted(t) /\ AllBefore(Vals(s), Vals(t)) => Sorted(s \o t)
<1> DEFINE u == s \o t
<1>1. /\ Len(u) = Len(s) + Len(t) /\ Len(s) \in Nat /\ Len(t) \in Nat
      /\ \A i \in 1 .. Len(s) + Len(t) : u[i] = IF i <= Len(s) THEN s[i] ELSE t[i - Len(s)]
  BY ConcatProperties
<1> HIDE DEF u
<1>2. /\ \A i \in Numbers(s) : i \in Numbers(u) /\ u[i] = s[i]
      /\ \A i \in Numbers(u) : \/ i \in Numbers(s)
                               \/ i - Len(s) \in Numbers(t) /\ u[i] = t[i - Len(s)] /\ i > Len(s)
      /\ \A j \in Numbers(t) : j + Len(s) \in Numbers(u) /\ u[j + Len(s)] = t[j]
  <2>1. \A i \in Numbers(s) : i \in Numbers(u) /\ u[i] = s[i]
    BY <1>1 DEF Numbers
  <2>2. \A i \in Numbers(u) : \/ i \in Numbers(s)
                              \/ i - Len(s) \in Numbers(t) /\ u[i] = t[i - Len(s)] /\ i > Len(s)
    BY <1>1 DEF Numbers
  <2>3. ASSUME NEW j \in Numbers(t) PROVE j + Len(s) \in Numbers(u) /\ u[j + Len(s)] = t[j]
    <3>1. /\ j + Len(s) \in 1 .. Len(s) + Len(t) /\ ~(j + Len(s) <= Len(s))
          /\ (j + Len(s)) - Len(s) = j
      BY <1>1, <2>3 DEF Numbers
    <3> QED BY <1>1, <3>1 DEF Numbers
  <2> QED BY <2>1, <2>2, <2>3
<1>3. Vals(u) = Vals(s) \cup Vals(t)
  <2>1. \A p : p \in Vals(u) => p \in Vals(s) \cup Vals(t)
    BY <1>2 DEF Vals
  <2>2. \A p : p \in Vals(s) \cup Vals(t) => p \in Vals(u)
    BY <1>2 DEF Vals
  <2> QED BY <2>1, <2>2
<1>4. ASSUME Sorted(s), Sorted(t), AllBefore(Vals(s), Vals(t)) PROVE Sorted(u)
  <2> SUFFICES ASSUME NEW m \in Numbers(u), NEW n \in Numbers(u), m < n,
                      u[m].part # NullPart, u[n].part # NullPart
               PROVE  Earlier(u[m].part, u[n].part)
    BY DEF Sorted
  <2>1. m \in Nat /\ n \in Nat
    BY <1>1 DEF Numbers
  <2>2. CASE n \in Numbers(s)
    <3>1. m \in Numbers(s)
      BY <1>1, <2>1, <2>2 DEF Numbers
    <3> QED BY <1>2, <1>4, <2>2, <3>1 DEF Sorted
  <2>3. CASE n - Len(s) \in Numbers(t) /\ u[n] = t[n - Len(s)] /\ m \in Numbers(s)
    BY <1>2, <1>4, <2>3 DEF AllBefore, Vals
  <2>4. CASE /\ n - Len(s) \in Numbers(t) /\ u[n] = t[n - Len(s)]
             /\ m - Len(s) \in Numbers(t) /\ u[m] = t[m - Len(s)]
    <3>1. m - Len(s) < n - Len(s)
      BY <1>1, <2>1
    <3> QED BY <1>4, <2>4, <3>1 DEF Sorted
  <2> QED BY <1>2, <2>2, <2>3, <2>4
<1> QED BY <1>3, <1>4 DEF u

LEMMA FewerVals ==
  ASSUME NEW s \in Seq(Frame), NEW t \in Seq(Frame), NEW d \in Nat,
         \A m \in Numbers(t) : m + d \in Numbers(s) /\ t[m] = s[m + d]
  PROVE  Vals(t) \subseteq Vals(s) /\ (Sorted(s) => Sorted(t))
<1>1. Vals(t) \subseteq Vals(s)
  BY DEF Vals
<1>2. ASSUME Sorted(s) PROVE Sorted(t)
  <2> SUFFICES ASSUME NEW m \in Numbers(t), NEW n \in Numbers(t), m < n,
                      t[m].part # NullPart, t[n].part # NullPart
               PROVE  Earlier(t[m].part, t[n].part)
    BY DEF Sorted
  <2>1. m + d < n + d
    BY DEF Numbers
  <2> QED BY <1>2, <2>1 DEF Sorted
<1> QED BY <1>1, <1>2
-----------------------------------------------------------------------------
(* The order is kept.                                                      *)

LEMMA OrderTypes ==
  ASSUME Typed
  PROVE  /\ Arrived \subseteq PartT /\ Vals(wire) \subseteq PartT /\ Vals(unflushed) \subseteq PartT
         /\ \A n \in 1 .. Len(got) + 1 : Received(n) \in Seq(PartT)
<1>1. ASSUME NEW n \in 1 .. Len(got) + 1 PROVE Received(n) \in Seq(PartT)
  <2>1. CASE n <= Len(got)
    <3>1. n \in 1 .. Len(got) /\ got \in Seq(Seq(PartT))
      BY <2>1 DEF Typed
    <3>2. got[n] \in Seq(PartT)
      BY <3>1
    <3> QED BY <2>1, <3>2 DEF Received
  <2>2. CASE ~(n <= Len(got))
    BY <2>2 DEF Received, Typed
  <2> QED BY <2>1, <2>2
<1>2. ASSUME NEW n \in 1 .. Len(got) + 1, NEW i \in DOMAIN Received(n)
      PROVE  Received(n)[i] \in PartT
  BY <1>1
<1>3. Arrived \subseteq PartT
  BY <1>2 DEF Arrived
<1>4. ASSUME NEW s \in Seq(Frame) PROVE Vals(s) \subseteq PartT
  <2>1. \A m \in Numbers(s) : s[m] \in Frame
    BY DEF Numbers
  <2>2. \A m \in Numbers(s) : s[m].part \in PartT
    BY <2>1 DEF Frame
  <2> QED BY <2>2 DEF Vals
<1> QED BY <1>1, <1>3, <1>4 DEF Typed

LEMMA OrderInit == MultiInit => Order
<1> SUFFICES ASSUME MultiInit PROVE Order
  OBVIOUS
<1>1. got = <<>> /\ ret = <<>> /\ wire = <<>> /\ unflushed = <<>> /\ Len(<<>>) = 0
  BY DEF MultiInit
<1>2. \A n \in 1 .. Len(got) + 1 : Received(n) = <<>>
  BY <1>1 DEF Received
<1>3. \A n \in 1 .. Len(got) + 1 : DOMAIN Received(n) = {}
  BY <1>2
<1>4. Arrived = {} /\ InOrder
  BY <1>3 DEF Arrived, InOrder
<1>5. Vals(wire) = {} /\ Vals(unflushed) = {} /\ Sorted(wire) /\ Sorted(unflushed)
  BY <1>1, NoVals
<1> QED BY <1>4, <1>5 DEF Order, AllBefore

(* What is past stays past.                                                *)
LEMMA PastKept ==
  ASSUME Typed, NEW p \in PartT, Past(p),
         call' = call + 1 \/ (call' = call /\ (step' = step \/ step' = step + 1 \/ step = 0)),
         step' \in Nat
  PROVE  Past(p)'
BY DEF Past, PartT, Typed

(* The part that is sent comes after all that have been sent.              *)
LEMMA OrderSend ==
  ASSUME Typed, Order, SendPart
  PROVE  Order'
<1> DEFINE New == {Now.part} \ {NullPart}
<1>1. /\ Sends /\ NextPart /\ Flag \in {"yes", "no"} /\ Now \in Frame
      /\ UNCHANGED <<got, ret>>
  BY Writes, Advances
<1>2. call \in Nat /\ step \in Nat /\ wire \in Seq(Frame) /\ unflushed \in Seq(Frame)
  BY DEF Typed
<1>3. New \subseteq {<<call, step>>}
  BY <1>2, PartType DEF Now, PartFrame
<1>4. \A p : Past(p) => Earlier(p, <<call, step>>)
  BY DEF Past, Earlier
<1>5. AllBefore(Arrived, New) /\ AllBefore(Vals(wire), New) /\ AllBefore(Vals(unflushed), New)
  BY <1>3, <1>4 DEF Order, AllBefore
<1>6. /\ call' = call + 1 \/ (call' = call /\ step' = step + 1)
      /\ step' \in Nat
  BY <1>1, <1>2, Advances
<1>7. call < call' \/ (call = call' /\ step < step')
  BY <1>2, <1>6
<1>8. \A p \in Arrived \cup Vals(wire) \cup Vals(unflushed) \cup New : Past(p)'
  <2>1. ASSUME NEW p \in New PROVE Past(p)'
    <3>1. p[1] = call /\ p[2] = step
      BY <1>3
    <3> QED BY <1>7, <3>1 DEF Past
  <2>2. ASSUME NEW p \in Arrived \cup Vals(wire) \cup Vals(unflushed) PROVE Past(p)'
    <3>1. p \in PartT /\ Past(p)
      BY OrderTypes DEF Order
    <3> QED BY <1>2, <1>6, <3>1 DEF Past, PartT
  <2> QED BY <2>1, <2>2
<1>9. \A n : Received(n)' = Received(n)
  BY <1>1 DEF Received
<1>10. InOrder' /\ Arrived' = Arrived
  BY <1>1, <1>9 DEF InOrder, Arrived, Order
<1>11. /\ Vals(Append(unflushed, Now)) = Vals(unflushed) \cup New
       /\ Sorted(Append(unflushed, Now)) /\ Append(unflushed, Now) \in Seq(Frame)
  BY <1>1, <1>2, <1>5, MoreVals DEF Order
<1> HIDE DEF New
<1>12. CASE Flag = "yes"
  <2>1. wire' = wire /\ unflushed' = Append(unflushed, Now)
    BY <1>12, Writes
  <2> QED BY <1>5, <1>8, <1>10, <1>11, <2>1 DEF Order, AllBefore
<1>13. CASE Flag = "no"
  <2>1. wire' = wire \o Append(unflushed, Now) /\ unflushed' = <<>>
    BY <1>13, Writes
  <2>2. AllBefore(Vals(wire), Vals(Append(unflushed, Now)))
    BY <1>5, <1>11 DEF Order, AllBefore
  <2>3. /\ Vals(wire') = Vals(wire) \cup Vals(unflushed) \cup New
        /\ Sorted(wire')
    <3>1. /\ Vals(wire \o Append(unflushed, Now)) = Vals(wire) \cup Vals(Append(unflushed, Now))
          /\ Sorted(wire \o Append(unflushed, Now))
      BY <1>2, <1>11, <2>2, JoinVals DEF Order
    <3> QED BY <1>11, <2>1, <3>1
  <2> QED BY <1>5, <1>8, <1>10, <2>1, <2>3, NoVals DEF Order, AllBefore
<1> QED BY <1>1, <1>12, <1>13

(* The part that arrives comes after all that have arrived.                *)
LEMMA ReceivedStep ==
  ASSUME Typed, RecvPart, NEW n \in 1 .. Len(got') + 1
  PROVE  /\ n <= Len(got) => Received(n)' = Received(n)
         /\ n = Len(got) + 1 => Received(n)' = Taken /\ Received(n) = ret
         /\ n > Len(got) + 1 => Received(n)' = <<>>
         /\ Len(got) \in Nat /\ n \in Nat
<1>1. got \in Seq(Seq(PartT)) /\ Len(got) \in Nat /\ Taken \in Seq(PartT)
  BY Receives DEF Typed
<1>2. Head(wire).more \in {"yes", "no"}
  BY Receives DEF Frame
<1>3. CASE Head(wire).more = "yes"
  <2>1. got' = got /\ ret' = Taken
    BY <1>3, Receives
  <2> QED BY <1>1, <2>1 DEF Received
<1>4. CASE Head(wire).more = "no"
  <2>1. got' = Append(got, Taken) /\ ret' = <<>>
    BY <1>4, Receives
  <2>2. /\ Len(got') = Len(got) + 1 /\ got'[Len(got) + 1] = Taken
        /\ \A m \in 1 .. Len(got) : got'[m] = got[m]
    BY <1>1, <2>1, AppendProperties
  <2> QED BY <1>1, <2>1, <2>2 DEF Received
<1> QED BY <1>2, <1>3, <1>4

LEMMA ReceivedAt ==
  ASSUME Typed, RecvPart, NEW n \in 1 .. Len(got') + 1,
         NEW j \in DOMAIN (Received(n)'), (Received(n)')[j] # NullPart
  PROVE  /\ n \in 1 .. Len(got) + 1 /\ j \in Nat
         /\ n = Len(got) + 1 => j <= ipart + 1
         /\ \/ j \in DOMAIN Received(n) /\ (Received(n)')[j] = Received(n)[j]
            \/ n = Len(got) + 1 /\ j = ipart + 1 /\ (Received(n)')[j] = Head(wire).part
<1>1. Len(got) \in Nat /\ n \in Nat /\ ret \in Seq(PartT)
  BY ReceivedStep DEF Typed
<1>2. n <= Len(got) + 1
  <2> SUFFICES ASSUME n > Len(got) + 1 PROVE FALSE
    BY <1>1
  <2>1. Received(n)' = <<>>
    BY ReceivedStep
  <2> QED BY <2>1
<1>3. CASE n <= Len(got)
  <2>1. Received(n)' = Received(n)
    BY <1>3, ReceivedStep
  <2>2. Received(n) \in Seq(PartT)
    BY <1>1, <1>2, OrderTypes
  <2> QED BY <1>1, <1>2, <1>3, <2>1, <2>2
<1>4. CASE n = Len(got) + 1
  <2>1. Received(n)' = Taken /\ Received(n) = ret
    BY <1>4, ReceivedStep
  <2>2. Taken \in Seq(PartT) /\ Len(Taken) <= ipart + 1 /\ ipart \in Nat
    BY Receives DEF Typed
  <2>3. j \in 1 .. Len(Taken) /\ j <= ipart + 1
    BY <2>1, <2>2
  <2>4. CASE Head(wire).part = NullPart
    <3>1. Taken = ret
      BY <2>4, Receives, Assigned DEF Taken, Typed
    <3> QED BY <1>1, <1>2, <1>4, <2>1, <2>3, <3>1
  <2>5. CASE Head(wire).part # NullPart
    <3>1. /\ Taken[ipart + 1] = Head(wire).part
          /\ \A m \in Numbers(ret) : Taken[m] = ret[m]
          /\ \A m \in Len(ret) + 1 .. (ipart + 1) - 1 : Taken[m] = NullPart
      <4>1. /\ ret \in Seq(PartT) /\ ipart + 1 \in Nat /\ Len(ret) < ipart + 1
            /\ Head(wire).part \in PartT
        BY <1>1, Receives
      <4> QED BY <2>5, <4>1, Assigned DEF Taken
    <3>2. \/ j \in Numbers(ret) \/ j = ipart + 1 \/ j \in Len(ret) + 1 .. (ipart + 1) - 1
      BY <1>1, <2>2, <2>3 DEF Numbers
    <3>3. j \notin Len(ret) + 1 .. (ipart + 1) - 1
      BY <2>1, <3>1
    <3>4. Numbers(ret) = DOMAIN ret
      BY <1>1 DEF Numbers
    <3> QED BY <1>1, <1>2, <1>4, <2>1, <2>3, <3>1, <3>2, <3>3, <3>4
  <2> QED BY <2>4, <2>5
<1> QED BY <1>1, <1>2, <1>3, <1>4

LEMMA OrderRecv ==
  ASSUME Typed, Order, RecvPart
  PROVE  Order'
<1> DEFINE h == Head(wire).part
           New == {h} \ {NullPart}
<1>1. /\ wire \in Seq(Frame) /\ wire # <<>> /\ wire' = Tail(wire) /\ h \in PartT /\ h = wire[1].part
      /\ UNCHANGED <<call, step, unflushed>> /\ Len(got) \in Nat
  BY Receives DEF Typed
<1>2. /\ Tail(wire) \in Seq(Frame) /\ Len(Tail(wire)) = Len(wire) - 1
      /\ \A m \in 1 .. Len(Tail(wire)) : Tail(wire)[m] = wire[m + 1]
      /\ Len(wire) \in Nat \ {0}
  BY <1>1, HeadTailProperties, EmptySeq
<1>3. \A m \in Numbers(Tail(wire)) :
         /\ m + 1 \in Numbers(wire) /\ Tail(wire)[m] = wire[m + 1]
         /\ 1 < m + 1 /\ 1 \in Numbers(wire)
  BY <1>2 DEF Numbers
<1>4. Vals(wire') \subseteq Vals(wire) /\ Sorted(wire')
  BY <1>1, <1>2, <1>3, FewerVals DEF Order
<1>5. New \subseteq Vals(wire)
  BY <1>1, <1>2 DEF Vals, Numbers
<1>6. AllBefore(New, Vals(wire'))
  <2> SUFFICES ASSUME NEW m \in Numbers(Tail(wire)), Tail(wire)[m].part # NullPart, h # NullPart
               PROVE  Earlier(h, Tail(wire)[m].part)
    BY <1>1 DEF AllBefore, Vals
  <2> QED BY <1>1, <1>3 DEF Order, Sorted
<1>7. \A n \in 1 .. Len(got) + 1 : \A j \in DOMAIN Received(n) :
         Received(n)[j] # NullPart => Received(n)[j] \in Arrived
  <2> TAKE n \in 1 .. Len(got) + 1
  <2> TAKE j \in DOMAIN Received(n)
  <2>1. Received(n)[j] \in {Received(n)[i] : i \in DOMAIN Received(n)}
    OBVIOUS
  <2> DEFINE inOne(l) == {Received(l)[i] : i \in DOMAIN Received(l)}
  <2>2. inOne(n) \in {inOne(l) : l \in 1 .. Len(got) + 1}
    OBVIOUS
  <2>3. Received(n)[j] \in UNION {inOne(l) : l \in 1 .. Len(got) + 1}
    BY <2>1, <2>2
  <2> QED BY <2>3 DEF Arrived
<1>8. Arrived' \subseteq Arrived \cup New
  <2> SUFFICES ASSUME NEW n \in 1 .. Len(got') + 1, NEW j \in DOMAIN (Received(n)'),
                      (Received(n)')[j] # NullPart
               PROVE  (Received(n)')[j] \in Arrived \cup New
    <3>1. ASSUME NEW p \in Arrived'
          PROVE  \E n \in 1 .. Len(got') + 1 : \E j \in DOMAIN (Received(n)') :
                    p = (Received(n)')[j] /\ p # NullPart
      <4>1. /\ p # NullPart
            /\ p \in UNION {{(Received(n)')[i] : i \in DOMAIN (Received(n)')}
                               : n \in 1 .. Len(got') + 1}
        BY DEF Arrived
      <4> QED BY <4>1
    <3> QED BY <3>1
  <2> HIDE DEF Arrived
  <2> QED BY <1>7, ReceivedAt
<1>9. InOrder'
  <2> SUFFICES ASSUME NEW m \in 1 .. Len(got') + 1, NEW n \in 1 .. Len(got') + 1, m <= n,
                      NEW i \in DOMAIN (Received(m)'), NEW j \in DOMAIN (Received(n)'),
                      m < n \/ i < j,
                      (Received(m)')[i] # NullPart, (Received(n)')[j] # NullPart
               PROVE  Earlier((Received(m)')[i], (Received(n)')[j])
    BY DEF InOrder
  <2>1. /\ m \in 1 .. Len(got) + 1 /\ i \in Nat
        /\ m = Len(got) + 1 => i <= ipart + 1
        /\ \/ i \in DOMAIN Received(m) /\ (Received(m)')[i] = Received(m)[i]
           \/ m = Len(got) + 1 /\ i = ipart + 1 /\ (Received(m)')[i] = h
    BY ReceivedAt
  <2>2. /\ n \in 1 .. Len(got) + 1 /\ j \in Nat
        /\ n = Len(got) + 1 => j <= ipart + 1
        /\ \/ j \in DOMAIN Received(n) /\ (Received(n)')[j] = Received(n)[j]
           \/ n = Len(got) + 1 /\ j = ipart + 1 /\ (Received(n)')[j] = h
    BY ReceivedAt
  <2>3. i \in DOMAIN Received(m) /\ (Received(m)')[i] = Received(m)[i]
    <3> SUFFICES ASSUME m = Len(got) + 1, i = ipart + 1 PROVE FALSE
      BY <2>1
    <3>1. ipart \in Nat /\ m \in Nat /\ n \in Nat
      BY <1>1 DEF Typed
    <3>2. n = Len(got) + 1
      BY <1>1, <2>2, <3>1
    <3> QED BY <2>2, <3>1, <3>2
  <2>4. CASE j \in DOMAIN Received(n) /\ (Received(n)')[j] = Received(n)[j]
    BY <2>1, <2>2, <2>3, <2>4 DEF Order, InOrder
  <2>5. CASE (Received(n)')[j] = h
    <3>1. h \in Vals(wire) /\ Received(m)[i] \in Arrived
      BY <1>5, <1>7, <2>1, <2>3, <2>5
    <3> QED BY <2>3, <2>5, <3>1 DEF Order, AllBefore
  <2> QED BY <2>2, <2>4, <2>5
<1> HIDE DEF New
<1>10. \A p : Past(p)' <=> Past(p)
  BY <1>1 DEF Past
<1>11. AllBefore(Arrived', Vals(wire')) /\ AllBefore(Arrived', Vals(unflushed))
  BY <1>4, <1>5, <1>6, <1>8 DEF Order, AllBefore
<1>12. AllBefore(Vals(wire'), Vals(unflushed))
  BY <1>4 DEF Order, AllBefore
<1>13. \A p \in Arrived' \cup Vals(wire') \cup Vals(unflushed) : Past(p)'
  BY <1>4, <1>5, <1>8, <1>10 DEF Order
<1> QED BY <1>1, <1>4, <1>9, <1>11, <1>12, <1>13 DEF Order

LEMMA OrderStep ==
  ASSUME Typed, Order, [MultiNext]_multivars
  PROVE  Order'
<1>1. CASE SendPart
  BY <1>1, OrderSend
<1>2. CASE RecvPart
  BY <1>2, OrderRecv
<1>3. CASE ~(SendPart \/ RecvPart)
  <2>1. UNCHANGED <<got, ret>>
    BY <1>3 DEF MultiNext, Sender, SCall, BadIndex, DropPart, Rollback, SendInterrupted,
                Break, PipeTerminated, Attach, multivars, svars, rvars
  <2>2. \A n : Received(n)' = Received(n)
    BY <2>1 DEF Received
  <2>3. InOrder' /\ Arrived' = Arrived
    BY <2>1, <2>2 DEF InOrder, Arrived, Order
  <2>4. unflushed' = unflushed \/ unflushed' = <<>>
    BY <1>3 DEF MultiNext, Sender, SCall, BadIndex, DropPart, Rollback, SendInterrupted,
                Break, PipeTerminated, Attach, multivars, svars, rvars
  <2>5. Vals(unflushed') \subseteq Vals(unflushed) /\ Sorted(unflushed')
    BY <2>4, NoVals DEF Order
  <2>6. Vals(wire') \subseteq Vals(wire) /\ Sorted(wire')
    <3>1. CASE Break
      <4>1. PICK n \in 0 .. Len(wire) :
               wire' \in Seq(Frame) /\ Len(wire') = n /\ \A m \in 1 .. n : wire'[m] = wire[m]
        BY <3>1, Loses
      <4>2. \A m \in Numbers(wire') : m + 0 \in Numbers(wire) /\ wire'[m] = wire[m + 0]
        BY <4>1 DEF Numbers, Typed
      <4>3. wire \in Seq(Frame) /\ wire' \in Seq(Frame) /\ 0 \in Nat
        BY <4>1 DEF Typed
      <4> QED BY <4>2, <4>3, FewerVals DEF Order
    <3>2. CASE ~Break
      <4>1. wire' = wire
        BY <1>3, <3>2 DEF MultiNext, Sender, SCall, BadIndex, DropPart, Rollback,
             SendInterrupted, PipeTerminated, Attach, multivars, svars, rvars
      <4> QED BY <4>1 DEF Order
    <3> QED BY <3>1, <3>2
  <2>7. /\ call' = call + 1 \/ (call' = call /\ (step' = step \/ step' = step + 1 \/ step = 0))
        /\ step' \in Nat
    <3>1. CASE DropPart \/ SendInterrupted
      <4>1. Sends /\ NextPart
        BY <3>1 DEF DropPart, SendInterrupted
      <4> QED BY <4>1, Advances DEF Typed
    <3>2. CASE ~(DropPart \/ SendInterrupted)
      BY <1>3, <3>2 DEF MultiNext, Sender, SCall, BadIndex, Rollback, Break, PipeTerminated,
           Attach, multivars, svars, rvars, Typed
    <3> QED BY <3>1, <3>2
  <2>8. \A p \in Arrived \cup Vals(wire) \cup Vals(unflushed) : Past(p)'
    BY <2>7, PastKept, OrderTypes DEF Order
  <2> QED BY <2>3, <2>5, <2>6, <2>8 DEF Order, AllBefore
<1> QED BY <1>1, <1>2, <1>3

-----------------------------------------------------------------------------
(* Whole lists.  As long as nothing has gone wrong, what a call has        *)
(* written and not flushed are the parts before the next one, or nothing   *)
(* if they are dropped; ...                                                *)
Sending ==
  /\ more = "no" <=> step <= 1
  /\ dropping = "yes" => more = "yes" /\ unflushed = <<>>
  /\ dropping = "no" =>
       /\ Len(unflushed) = IF step = 0 THEN 0 ELSE step - 1
       /\ \A j \in 1 .. Len(unflushed) : unflushed[j] = PartFrame(Part(call, j), "yes")

(* ... every frame on the wire is part at[n][2] of list at[n][1], and the  *)
(* lists follow one another, each from its first part to its last; ...     *)
LastOf(k) == Len(lists[k])
OnWire(at) ==
  /\ Len(at) = Len(wire)
  /\ \A n \in 1 .. Len(wire) :
       /\ at[n][1] \in 1 .. call - 1 /\ at[n][2] \in 1 .. LastOf(at[n][1])
       /\ wire[n].part = Part(at[n][1], at[n][2])
       /\ wire[n].more = "no" <=> at[n][2] = LastOf(at[n][1])
  /\ \A n \in 1 .. Len(wire) - 1 :
       IF at[n][2] = LastOf(at[n][1])
         THEN at[n][1] < at[n + 1][1] /\ at[n + 1][2] = 1
         ELSE at[n + 1][1] = at[n][1] /\ at[n + 1][2] = at[n][2] + 1
  /\ \A m, n \in 1 .. Len(wire) : m < n => at[m][1] <= at[n][1]

(* ... the receiver has the first parts of the list whose next part is the *)
(* first on the wire; ...                                                  *)
Building(at) ==
  /\ rcvmore = 0 => ipart = 0
  /\ wire # <<>> => /\ at[1][2] = ipart + 1
                    /\ \A j \in 1 .. ipart :
                         Part(at[1][1], j) = IF j <= Len(ret) THEN ret[j] ELSE NullPart

(* ... and it has returned lists f[1], f[2] and so on, all of them before  *)
(* those on the wire.                                                      *)
Returned(f, at) ==
  /\ Len(f) = Len(got)
  /\ \A n \in 1 .. Len(got) : f[n] \in 1 .. call - 1 /\ got[n] = ListOf(f[n])
  /\ \A m, n \in 1 .. Len(got) : m < n => f[m] < f[n]
  /\ \A n \in 1 .. Len(got), m \in 1 .. Len(wire) : f[n] < at[m][1]

Witnessed == \E at \in Seq(PartT), f \in Seq(Nat) :
               OnWire(at) /\ Building(at) /\ Returned(f, at)

Intact == mishaps = {} => Sending /\ Witnessed

LEMMA IntactInit == MultiInit => Intact
<1> SUFFICES ASSUME MultiInit PROVE Sending /\ Witnessed
  BY DEF Intact
<1>1. /\ wire = <<>> /\ got = <<>> /\ unflushed = <<>> /\ Len(<<>>) = 0
      /\ rcvmore = 0 /\ ipart = 0 /\ step = 0 /\ more = "no" /\ dropping = "no"
  BY DEF MultiInit
<1>2. Sending
  BY <1>1 DEF Sending
<1>3. OnWire(<<>>) /\ Building(<<>>) /\ Returned(<<>>, <<>>)
  BY <1>1 DEF OnWire, Building, Returned
<1>4. <<>> \in Seq(PartT) /\ <<>> \in Seq(Nat)
  OBVIOUS
<1> QED BY <1>2, <1>3, <1>4 DEF Witnessed

(* A mishap is remembered.                                                 *)
LEMMA NoMishap ==
  ASSUME Typed, [MultiNext]_multivars, mishaps' = {}
  PROVE  /\ mishaps = {} /\ lists' = lists
         /\ ~BadIndex /\ ~Rollback /\ ~SendInterrupted
<1>1. ~BadIndex /\ ~Rollback /\ ~SendInterrupted
  BY DEF BadIndex, Rollback, SendInterrupted
<1>2. mishaps' = mishaps /\ lists' = lists
  BY <1>1 DEF MultiNext, Sender, SCall, SendPart, DropPart, Break, PipeTerminated, Attach,
              RecvPart, NextPart, multivars, svars, rvars
<1> QED BY <1>1, <1>2

LEMMA SendingStep ==
  ASSUME Typed, Sending, [MultiNext]_multivars, mishaps' = {}
  PROVE  Sending'
<1>1. /\ step \in Nat /\ call \in Nat /\ lists' = lists /\ unflushed \in Seq(Frame)
      /\ more \in {"yes", "no"} /\ dropping \in {"yes", "no"} /\ Len(unflushed) \in Nat
  BY NoMishap DEF Typed
<1>2. \A k, j : Part(k, j)' = Part(k, j)
  BY <1>1 DEF Part
<1>3. Len(<<>>) = 0
  OBVIOUS
<1>4. CASE SCall
  <2>1. step = 0 /\ step' = 1 /\ UNCHANGED <<call, more, dropping, unflushed>>
    BY <1>4 DEF SCall
  <2> QED BY <1>1, <1>2, <2>1 DEF Sending
<1>5. CASE SendPart
  <2>1. /\ Sends /\ NextPart /\ Flag \in {"yes", "no"} /\ Now \in Frame /\ step > 0
        /\ dropping = "no" /\ dropping' = "no" /\ more' = Flag
    BY <1>5, Writes, Advances DEF Sends
  <2>2. CASE Flag = "yes"
    <3>1. step' = step + 1 /\ call' = call /\ unflushed' = Append(unflushed, Now)
      BY <1>5, <2>1, <2>2, Writes, Advances
    <3>2. /\ Len(unflushed') = Len(unflushed) + 1
          /\ unflushed'[Len(unflushed) + 1] = Now
          /\ \A j \in 1 .. Len(unflushed) : unflushed'[j] = unflushed[j]
      BY <1>1, <2>1, <3>1, AppendProperties
    <3>3. Len(unflushed) = step - 1 /\ Now = PartFrame(Part(call, step), "yes")
      BY <2>1, <2>2 DEF Sending, Now
    <3>4. \A j \in 1 .. Len(unflushed') :
             unflushed'[j] = PartFrame(Part(call, j), "yes")
      <4> TAKE j \in 1 .. Len(unflushed')
      <4>1. j \in 1 .. Len(unflushed) \/ j = step
        BY <1>1, <3>2, <3>3
      <4> QED BY <1>1, <2>1, <3>2, <3>3, <4>1 DEF Sending
    <3> QED BY <1>1, <1>2, <2>1, <2>2, <3>1, <3>2, <3>3, <3>4 DEF Sending, PartFrame
  <2>3. CASE Flag = "no"
    <3>1. step' = 0 /\ unflushed' = <<>>
      BY <1>5, <2>1, <2>3, Writes, Advances
    <3> QED BY <1>3, <2>1, <2>3, <3>1 DEF Sending
  <2> QED BY <2>1, <2>2, <2>3
<1>6. CASE DropPart
  <2>1. /\ Sends /\ NextPart /\ dropping = "yes" /\ more' = Flag /\ dropping' = Flag
        /\ unflushed' = unflushed /\ unflushed = <<>> /\ step > 1
    BY <1>1, <1>6 DEF DropPart, Sending
  <2>2. /\ Flag \in {"yes", "no"}
        /\ Flag = "yes" => step' = step + 1
        /\ Flag = "no" => step' = 0
    BY <2>1, Advances
  <2>3. CASE Flag = "yes"
    BY <1>1, <2>1, <2>2, <2>3 DEF Sending
  <2>4. CASE Flag = "no"
    BY <1>1, <1>3, <2>1, <2>2, <2>4 DEF Sending
  <2> QED BY <2>2, <2>3, <2>4
<1>7. CASE PipeTerminated
  <2>1. /\ UNCHANGED <<call, step, more>> /\ unflushed' = <<>>
        /\ dropping' = IF more = "yes" THEN "yes" ELSE dropping
    BY <1>7 DEF PipeTerminated
  <2> QED BY <1>1, <1>3, <2>1 DEF Sending
<1>8. CASE ~(SCall \/ SendPart \/ DropPart \/ PipeTerminated)
  <2>1. UNCHANGED <<call, step, more, dropping, unflushed>>
    BY <1>8, NoMishap DEF MultiNext, Sender, Break, Attach, RecvPart, multivars, svars, rvars
  <2> QED BY <1>2, <2>1 DEF Sending
<1> QED BY <1>4, <1>5, <1>6, <1>7, <1>8

(* The end of a call puts a list on the wire, whole.                       *)
LEMMA FlushOfAll ==
  ASSUME Typed, Sending, SendPart, Flag = "no"
  PROVE  LET n == LastOf(call) IN
         /\ n \in Nat /\ n >= 2 /\ call \in Nat /\ call >= 1 /\ call' = call + 1 /\ lists' = lists
         /\ UNCHANGED <<rcvmore, ipart, ret, got>>
         /\ wire' \in Seq(Frame) /\ Len(wire') = Len(wire) + n /\ Len(wire) \in Nat
         /\ \A m \in 1 .. Len(wire) : wire'[m] = wire[m]
         /\ \A j \in 1 .. n :
              wire'[Len(wire) + j] = PartFrame(Part(call, j), IF j = n THEN "no" ELSE "yes")
<1> DEFINE n == LastOf(call)
           new == Append(unflushed, Now)
<1>1. /\ Sends /\ NextPart /\ step > 0 /\ dropping = "no" /\ wire' = wire \o new
      /\ new \in Seq(Frame) /\ Now \in Frame
      /\ UNCHANGED <<rcvmore, ipart, ret, got>>
  BY Writes, Advances DEF Sends
<1>2. /\ call' = call + 1 /\ n >= 2 /\ step = n /\ lists' = lists
  BY <1>1, Advances DEF LastOf
<1>3. /\ call \in Nat /\ call >= 1 /\ n \in Nat /\ wire \in Seq(Frame) /\ unflushed \in Seq(Frame)
  BY <1>1, InStep DEF Typed, LastOf
<1>4. /\ Len(unflushed) = n - 1
      /\ \A j \in 1 .. n - 1 : unflushed[j] = PartFrame(Part(call, j), "yes")
  BY <1>1, <1>2, <1>3 DEF Sending
<1>5. Now = PartFrame(Part(call, n), "no")
  BY <1>2 DEF Now
<1>6. /\ Len(new) = n /\ new[n] = Now /\ \A j \in 1 .. n - 1 : new[j] = unflushed[j]
  BY <1>1, <1>3, <1>4, AppendProperties
<1>7. \A j \in 1 .. n : new[j] = PartFrame(Part(call, j), IF j = n THEN "no" ELSE "yes")
  <2> TAKE j \in 1 .. n
  <2>1. j = n \/ (j \in 1 .. n - 1 /\ j # n)
    BY <1>3
  <2> QED BY <1>4, <1>5, <1>6, <2>1
<1> HIDE DEF n, new
<1>8. /\ wire \o new \in Seq(Frame) /\ Len(wire \o new) = Len(wire) + n /\ Len(wire) \in Nat
      /\ \A i \in 1 .. Len(wire) + n :
           (wire \o new)[i] = IF i <= Len(wire) THEN wire[i] ELSE new[i - Len(wire)]
  <2>1. /\ wire \o new \in Seq(Frame) /\ Len(wire \o new) = Len(wire) + Len(new)
        /\ \A i \in 1 .. Len(wire) + Len(new) :
             (wire \o new)[i] = IF i <= Len(wire) THEN wire[i] ELSE new[i - Len(wire)]
    BY <1>1, <1>3, ConcatProperties
  <2> QED BY <1>3, <1>6, <2>1
<1>9. \A j \in 1 .. n : wire'[Len(wire) + j] = new[j]
  <2> TAKE j \in 1 .. n
  <2>1. /\ Len(wire) + j \in 1 .. Len(wire) + n /\ ~(Len(wire) + j <= Len(wire))
        /\ (Len(wire) + j) - Len(wire) = j
    BY <1>3, <1>8
  <2> QED BY <1>1, <1>8, <2>1
<1>10. \A m \in 1 .. Len(wire) : wire'[m] = wire[m]
  BY <1>1, <1>3, <1>8
<1> QED BY <1>1, <1>2, <1>3, <1>7, <1>8, <1>9, <1>10 DEF n

LEMMA WitnessSend ==
  ASSUME Typed, EndsWhole, Sending, SendPart, Flag = "no", Witnessed
  PROVE  Witnessed'
<1> DEFINE n == LastOf(call)
           L == Len(wire)
<1>1. /\ n \in Nat /\ n >= 2 /\ call \in Nat /\ call >= 1 /\ call' = call + 1 /\ lists' = lists
      /\ UNCHANGED <<rcvmore, ipart, ret, got>>
      /\ wire' \in Seq(Frame) /\ Len(wire') = L + n /\ L \in Nat
      /\ \A m \in 1 .. L : wire'[m] = wire[m]
      /\ \A j \in 1 .. n :
           wire'[L + j] = PartFrame(Part(call, j), IF j = n THEN "no" ELSE "yes")
  BY FlushOfAll
<1>2. \A i : i \in 1 .. call - 1 => i \in 1 .. call' - 1
  <2>1. call' = call + 1 /\ call \in Nat
    BY <1>1
  <2> QED BY <2>1
<1>3. PICK at \in Seq(PartT), f \in Seq(Nat) : OnWire(at) /\ Building(at) /\ Returned(f, at)
  BY DEF Witnessed
<1>4. PICK at2 \in Seq(PartT) :
         /\ Len(at2) = L + n
         /\ \A m \in 1 .. L : at2[m] = at[m]
         /\ \A j \in 1 .. n : at2[L + j] = <<call, j>>
  <2> DEFINE news == [j \in 1 .. n |-> <<call, j>>]
  <2>1. \A j \in 1 .. n : <<call, j>> \in PartT
    BY <1>1 DEF PartT
  <2>2. news \in Seq(PartT) /\ Len(news) = n /\ \A j \in 1 .. n : news[j] = <<call, j>>
    BY <1>1, <2>1
  <2> HIDE DEF news
  <2>3. /\ at \o news \in Seq(PartT) /\ Len(at \o news) = Len(at) + Len(news)
        /\ \A i \in 1 .. Len(at) + Len(news) :
             (at \o news)[i] = IF i <= Len(at) THEN at[i] ELSE news[i - Len(at)]
    BY <2>2, ConcatProperties
  <2>4. Len(at) = L
    BY <1>3 DEF OnWire
  <2>5. \A j \in 1 .. n : (at \o news)[L + j] = <<call, j>>
    <3> TAKE j \in 1 .. n
    <3>1. L + j \in 1 .. L + n /\ ~(L + j <= L) /\ (L + j) - L = j
      BY <1>1
    <3> QED BY <2>2, <2>3, <2>4, <3>1
  <2>6. \A m \in 1 .. L : (at \o news)[m] = at[m]
    BY <1>1, <2>2, <2>3, <2>4
  <2> QED BY <2>2, <2>3, <2>4, <2>5, <2>6
<1> HIDE DEF n
<1>5. \A m \in 1 .. L + n : m \in 1 .. L \/ \E j \in 1 .. n : m = L + j
  <2> TAKE m \in 1 .. L + n
  <2>1. m \in 1 .. L \/ (m - L \in 1 .. n /\ m = L + (m - L))
    BY <1>1
  <2> QED BY <2>1
<1>6. \A m \in 1 .. L : at[m][1] \in 1 .. call - 1
  BY <1>3 DEF OnWire
<1>7. OnWire(at2)'
  <2>1. ASSUME NEW m \in 1 .. L + n
        PROVE  /\ at2[m][1] \in 1 .. call' - 1 /\ at2[m][2] \in 1 .. LastOf(at2[m][1])
               /\ wire'[m].part = Part(at2[m][1], at2[m][2])
               /\ wire'[m].more = "no" <=> at2[m][2] = LastOf(at2[m][1])
    <3>1. CASE m \in 1 .. L
      <4>1. /\ at[m][1] \in 1 .. call - 1 /\ at[m][2] \in 1 .. LastOf(at[m][1])
            /\ wire[m].part = Part(at[m][1], at[m][2])
            /\ wire[m].more = "no" <=> at[m][2] = LastOf(at[m][1])
        BY <1>3, <3>1 DEF OnWire
      <4>2. at2[m] = at[m] /\ wire'[m] = wire[m]
        BY <1>1, <1>4, <3>1
      <4> QED BY <1>2, <4>1, <4>2
    <3>2. CASE \E j \in 1 .. n : m = L + j
      <4>1. PICK j \in 1 .. n : m = L + j
        BY <3>2
      <4>2. /\ at2[m] = <<call, j>>
            /\ wire'[m] = PartFrame(Part(call, j), IF j = n THEN "no" ELSE "yes")
        BY <1>1, <1>4, <4>1
      <4>3. /\ at2[m][1] = call /\ at2[m][2] = j /\ wire'[m].part = Part(call, j)
            /\ wire'[m].more = IF j = n THEN "no" ELSE "yes"
        BY <4>2 DEF PartFrame
      <4> QED BY <1>1, <4>1, <4>3 DEF n
    <3> QED BY <1>5, <3>1, <3>2
  <2>2. ASSUME NEW m \in 1 .. L + n - 1
        PROVE  IF at2[m][2] = LastOf(at2[m][1])
                 THEN at2[m][1] < at2[m + 1][1] /\ at2[m + 1][2] = 1
                 ELSE at2[m + 1][1] = at2[m][1] /\ at2[m + 1][2] = at2[m][2] + 1
    <3>1. CASE m \in 1 .. L - 1
      <4>1. m \in 1 .. L /\ m + 1 \in 1 .. L
        BY <1>1, <3>1
      <4>2. IF at[m][2] = LastOf(at[m][1])
              THEN at[m][1] < at[m + 1][1] /\ at[m + 1][2] = 1
              ELSE at[m + 1][1] = at[m][1] /\ at[m + 1][2] = at[m][2] + 1
        BY <1>3, <3>1 DEF OnWire
      <4> QED BY <1>4, <4>1, <4>2
    <3>2. CASE m = L
      <4>1. L \in 1 .. L /\ wire # <<>> /\ 1 \in 1 .. n
        BY <1>1, <3>2
      <4>2. wire[L].more = "no"
        BY <4>1 DEF EndsWhole
      <4>3. at[L][2] = LastOf(at[L][1]) /\ at[L][1] < call
        BY <1>1, <1>3, <1>6, <4>1, <4>2 DEF OnWire
      <4>4. at2[L] = at[L] /\ at2[L + 1] = <<call, 1>>
        BY <1>4, <1>4, <4>1
      <4> QED BY <3>2, <4>3, <4>4
    <3>3. CASE m \in L + 1 .. L + n - 1
      <4>1. /\ m - L \in 1 .. n /\ m - L + 1 \in 1 .. n /\ m = L + (m - L)
            /\ m + 1 = L + (m - L + 1) /\ m - L # n
        BY <1>1, <3>3
      <4>2. at2[m] = <<call, m - L>> /\ at2[m + 1] = <<call, m - L + 1>>
        BY <1>4, <4>1
      <4>3. /\ at2[m][1] = call /\ at2[m][2] = m - L /\ at2[m + 1][1] = call
            /\ at2[m + 1][2] = m - L + 1
        BY <4>2
      <4> QED BY <4>1, <4>3 DEF n
    <3> QED BY <1>1, <3>1, <3>2, <3>3
  <2>3. ASSUME NEW m \in 1 .. L + n, NEW o \in 1 .. L + n, m < o
        PROVE  at2[m][1] <= at2[o][1]
    <3>1. CASE o \in 1 .. L
      <4>1. m \in 1 .. L
        BY <1>1, <2>3, <3>1
      <4> QED BY <1>3, <1>4, <2>3, <3>1, <4>1 DEF OnWire
    <3>2. CASE \E j \in 1 .. n : o = L + j
      <4>1. at2[o][1] = call
        BY <1>4, <3>2
      <4>2. at2[m][1] \in 1 .. call
        BY <1>1, <2>1
      <4> QED BY <1>1, <4>1, <4>2
    <3> QED BY <1>5, <3>1, <3>2
  <2> QED BY <1>1, <1>4, <2>1, <2>2, <2>3 DEF OnWire, Part, LastOf
<1>8. Building(at2)'
  <2>1. /\ at2[1][2] = ipart + 1
        /\ \A j \in 1 .. ipart :
             Part(at2[1][1], j) = IF j <= Len(ret) THEN ret[j] ELSE NullPart
    <3>1. CASE wire # <<>>
      <4>1. 1 \in 1 .. L
        BY <1>1, <3>1, EmptySeq DEF Typed
      <4> QED BY <1>3, <1>4, <3>1, <4>1 DEF Building
    <3>2. CASE wire = <<>>
      <4>1. L = 0 /\ rcvmore = 0 /\ 1 \in 1 .. n
        BY <1>1, <3>2 DEF EndsWhole, Typed
      <4>2. ipart = 0 /\ at2[1] = <<call, 1>>
        BY <1>3, <1>4, <4>1 DEF Building
      <4> QED BY <4>2
    <3> QED BY <3>1, <3>2
  <2> QED BY <1>1, <1>3, <2>1 DEF Building, Part
<1>9. Returned(f, at2)'
  <2>1. \A k \in 1 .. Len(got), m \in 1 .. L + n : f[k] < at2[m][1]
    <3> TAKE k \in 1 .. Len(got), m \in 1 .. L + n
    <3>1. CASE m \in 1 .. L
      BY <1>3, <1>4, <3>1 DEF Returned
    <3>2. CASE \E j \in 1 .. n : m = L + j
      <4>1. at2[m][1] = call
        BY <1>4, <3>2
      <4>2. f[k] \in 1 .. call - 1
        BY <1>3 DEF Returned
      <4> QED BY <1>1, <4>1, <4>2
    <3> QED BY <1>5, <3>1, <3>2
  <2>2. \A k \in 1 .. Len(got) : f[k] \in 1 .. call' - 1 /\ got[k] = ListOf(f[k])
    BY <1>2, <1>3 DEF Returned
  <2> QED BY <1>1, <1>3, <1>4, <2>1, <2>2 DEF Returned, ListOf, Part
<1> QED BY <1>3, <1>4, <1>7, <1>8, <1>9 DEF Witnessed

(* Whole lists are lost.                                                   *)
LEMMA WitnessBreak ==
  ASSUME Typed, Break, Witnessed
  PROVE  Witnessed'
<1>1. PICK n \in 0 .. Len(wire) :
         /\ n = 0 => rcvmore = 0
         /\ Len(wire') = n /\ \A m \in 1 .. n : wire'[m] = wire[m]
         /\ wire' \in Seq(Frame)
  BY Loses
<1>2. UNCHANGED <<lists, call, rcvmore, ipart, ret, got>> /\ Len(wire) \in Nat
  BY Loses DEF Typed
<1>3. PICK at \in Seq(PartT), f \in Seq(Nat) : OnWire(at) /\ Building(at) /\ Returned(f, at)
  BY DEF Witnessed
<1>4. PICK at2 \in Seq(PartT) : Len(at2) = n /\ \A m \in 1 .. n : at2[m] = at[m]
  <2> DEFINE some == [m \in 1 .. n |-> at[m]]
  <2>1. Len(at) = Len(wire)
    BY <1>3 DEF OnWire
  <2>2. \A m \in 1 .. n : at[m] \in PartT
    BY <1>2, <2>1
  <2>3. some \in Seq(PartT) /\ Len(some) = n /\ \A m \in 1 .. n : some[m] = at[m]
    BY <2>2
  <2> QED BY <2>3
<1>5. \A m \in 1 .. n : m \in 1 .. Len(wire)
  BY <1>2
<1>6. OnWire(at2)'
  <2>1. \A m \in 1 .. n - 1 : m \in 1 .. Len(wire) - 1 /\ m \in 1 .. n /\ m + 1 \in 1 .. n
    BY <1>2
  <2>2. /\ Len(at2) = Len(wire')
        /\ \A m \in 1 .. n :
             /\ at2[m][1] \in 1 .. call - 1 /\ at2[m][2] \in 1 .. LastOf(at2[m][1])
             /\ wire'[m].part = Part(at2[m][1], at2[m][2])
             /\ wire'[m].more = "no" <=> at2[m][2] = LastOf(at2[m][1])
    BY <1>1, <1>3, <1>4, <1>5 DEF OnWire
  <2>3. \A m \in 1 .. n - 1 :
          IF at2[m][2] = LastOf(at2[m][1])
            THEN at2[m][1] < at2[m + 1][1] /\ at2[m + 1][2] = 1
            ELSE at2[m + 1][1] = at2[m][1] /\ at2[m + 1][2] = at2[m][2] + 1
    BY <1>3, <1>4, <2>1 DEF OnWire
  <2>4. \A m, o \in 1 .. n : m < o => at2[m][1] <= at2[o][1]
    BY <1>3, <1>4, <1>5 DEF OnWire
  <2> QED BY <1>1, <1>2, <2>2, <2>3, <2>4 DEF OnWire, Part, LastOf
<1>7. Building(at2)'
  <2>1. ASSUME wire' # <<>>
        PROVE  /\ at2[1][2] = ipart + 1
               /\ \A j \in 1 .. ipart :
                    Part(at2[1][1], j) = IF j <= Len(ret) THEN ret[j] ELSE NullPart
    <3>1. 1 \in 1 .. n
      BY <1>1, <2>1, EmptySeq
    <3>2. wire # <<>> /\ at2[1] = at[1]
      BY <1>4, <1>5, <3>1
    <3> QED BY <1>3, <3>2 DEF Building
  <2> QED BY <1>2, <1>3, <2>1 DEF Building, Part
<1>8. Returned(f, at2)'
  <2>1. \A k \in 1 .. Len(got), m \in 1 .. n : f[k] < at2[m][1]
    BY <1>3, <1>4, <1>5 DEF Returned
  <2> QED BY <1>1, <1>2, <1>3, <2>1 DEF Returned, ListOf, Part
<1> QED BY <1>3, <1>4, <1>6, <1>7, <1>8 DEF Witnessed

(* Nothing moves on the wire.                                              *)
LEMMA WitnessSame ==
  ASSUME Typed, Witnessed, UNCHANGED <<lists, wire, rcvmore, ipart, ret, got>>,
         call' = call \/ call' = call + 1
  PROVE  Witnessed'
<1>1. PICK at \in Seq(PartT), f \in Seq(Nat) : OnWire(at) /\ Building(at) /\ Returned(f, at)
  BY DEF Witnessed
<1>2. \A i : i \in 1 .. call - 1 => i \in 1 .. call' - 1
  <2>1. call \in Nat
    BY DEF Typed
  <2> QED BY <2>1
<1>3. OnWire(at)'
  BY <1>1, <1>2 DEF OnWire, Part, LastOf
<1>4. Building(at)'
  BY <1>1 DEF Building, Part
<1>5. Returned(f, at)'
  <2>1. \A n \in 1 .. Len(got) : f[n] \in 1 .. call' - 1 /\ got[n] = ListOf(f[n])
    BY <1>1, <1>2 DEF Returned
  <2> QED BY <1>1, <2>1 DEF Returned, ListOf, Part
<1> QED BY <1>1, <1>3, <1>4, <1>5 DEF Witnessed

(* The list as it is when its next part has been taken.                    *)
LEMMA TakenIs ==
  ASSUME Typed, RecvPart, NEW k \in Nat,
         \A j \in 1 .. ipart : Part(k, j) = IF j <= Len(ret) THEN ret[j] ELSE NullPart,
         Head(wire).part = Part(k, ipart + 1)
  PROVE  \A j \in 1 .. ipart + 1 :
           Part(k, j) = IF j <= Len(Taken) THEN Taken[j] ELSE NullPart
<1>1. /\ ret \in Seq(PartT) /\ ipart \in Nat /\ ipart + 1 \in Nat /\ Len(ret) < ipart + 1
      /\ Head(wire).part \in PartT /\ Len(ret) \in Nat
  BY Receives DEF Typed
<1> SUFFICES ASSUME NEW j \in 1 .. ipart + 1
             PROVE  Part(k, j) = IF j <= Len(Taken) THEN Taken[j] ELSE NullPart
  OBVIOUS
<1>2. j \in 1 .. ipart \/ (j = ipart + 1 /\ ~(j <= Len(ret)))
  BY <1>1
<1>3. CASE Head(wire).part = NullPart
  <2>1. Taken = ret
    BY <1>1, <1>3, Assigned DEF Taken
  <2> QED BY <1>2, <1>3, <2>1
<1>4. CASE Head(wire).part # NullPart
  <2>1. /\ Len(Taken) = ipart + 1 /\ Taken[ipart + 1] = Head(wire).part
        /\ \A m \in Numbers(ret) : Taken[m] = ret[m]
        /\ \A m \in Len(ret) + 1 .. (ipart + 1) - 1 : Taken[m] = NullPart
    BY <1>1, <1>4, Assigned DEF Taken
  <2>2. CASE j = ipart + 1
    BY <2>1, <2>2
  <2>3. CASE j \in 1 .. ipart
    <3>1. j <= Len(Taken) /\ (j \in Numbers(ret) \/ j \in Len(ret) + 1 .. (ipart + 1) - 1)
      BY <1>1, <2>1, <2>3 DEF Numbers
    <3>2. j \in Numbers(ret) <=> j <= Len(ret)
      BY <1>1, <2>3 DEF Numbers
    <3> QED BY <2>1, <2>3, <3>1, <3>2
  <2> QED BY <1>2, <2>2, <2>3
<1> QED BY <1>3, <1>4

(* Nothing tells a list that ends in NULLs from the same without them, so  *)
(* zmq.recv.multipart() returns it shorter: the lists of the theorem end   *)
(* in a value.                                                             *)
EndsInValue == \A w \in Workloads : \A k \in DOMAIN w :
                 w[k] # <<>> => w[k][Len(w[k])] = "value"

LEMMA TakenWhole ==
  ASSUME Typed, RecvPart, EndsInValue, NEW k \in 1 .. call - 1, ipart + 1 = LastOf(k),
         \A j \in 1 .. ipart + 1 :
           Part(k, j) = IF j <= Len(Taken) THEN Taken[j] ELSE NullPart
  PROVE  Taken = ListOf(k)
<1>1. k \in DOMAIN lists /\ lists[k] \in List /\ k \in Nat /\ k > 0 /\ ipart \in Nat
  <2>1. k \in 1 .. Len(lists) /\ lists \in Seq(List) /\ ipart \in Nat
    BY DEF Typed
  <2> QED BY <2>1
<1>2. DOMAIN lists[k] = 1 .. ipart + 1 /\ lists[k] # <<>>
  <2>1. lists[k] \in Seq({"NULL", "value"}) /\ Len(lists[k]) = ipart + 1
    BY <1>1 DEF LastOf, List
  <2> QED BY <1>1, <2>1
<1>3. lists[k][ipart + 1] = "value"
  <2>1. lists \in Workloads /\ Len(lists[k]) = ipart + 1
    BY DEF Typed, LastOf
  <2> QED BY <1>1, <1>2, <2>1 DEF EndsInValue
<1>4. Part(k, ipart + 1) # NullPart
  BY <1>1, <1>3 DEF Part, NullPart
<1>5. Taken \in Seq(PartT) /\ Len(Taken) <= ipart + 1 /\ Len(Taken) \in Nat
  BY Receives
<1>6. Len(Taken) = ipart + 1
  BY <1>1, <1>4, <1>5
<1>7. \A j \in 1 .. ipart + 1 : Taken[j] = Part(k, j)
  BY <1>6
<1>8. Taken = [j \in 1 .. ipart + 1 |-> Part(k, j)]
  BY <1>5, <1>6, <1>7
<1> QED BY <1>2, <1>8 DEF ListOf

LEMMA WitnessRecv ==
  ASSUME Typed, EndsWhole, RecvPart, EndsInValue, Witnessed
  PROVE  Witnessed'
<1> DEFINE L == Len(wire)
<1>1. PICK at \in Seq(PartT), f \in Seq(Nat) : OnWire(at) /\ Building(at) /\ Returned(f, at)
  BY DEF Witnessed
<1>2. /\ wire \in Seq(Frame) /\ wire # <<>> /\ wire' = Tail(wire) /\ Head(wire) = wire[1]
      /\ Head(wire).more \in {"yes", "no"} /\ UNCHANGED <<lists, call>>
      /\ Len(at) = L /\ call \in Nat
  <2>1. /\ wire # <<>> /\ wire' = Tail(wire) /\ Head(wire) = wire[1] /\ Head(wire) \in Frame
        /\ UNCHANGED <<lists, call>>
    BY Receives
  <2>2. wire \in Seq(Frame) /\ call \in Nat
    BY DEF Typed
  <2>3. Len(at) = L /\ Head(wire).more \in {"yes", "no"}
    BY <1>1, <2>1 DEF OnWire, Frame
  <2> QED BY <2>1, <2>2, <2>3
<1>3. /\ wire' \in Seq(Frame) /\ Len(wire') = L - 1 /\ L \in Nat /\ L > 0
      /\ \A m \in 1 .. L - 1 : wire'[m] = wire[m + 1]
  <2>1. /\ Tail(wire) \in Seq(Frame) /\ Len(Tail(wire)) = L - 1
        /\ \A m \in 1 .. Len(Tail(wire)) : Tail(wire)[m] = wire[m + 1]
    BY <1>2, HeadTailProperties
  <2>2. L \in Nat /\ L > 0
    BY <1>2, EmptySeq
  <2> QED BY <1>2, <2>1, <2>2
<1>4. PICK at2 \in Seq(PartT) : Len(at2) = L - 1 /\ \A m \in 1 .. L - 1 : at2[m] = at[m + 1]
  <2>1. at # <<>>
    BY <1>2, <1>3
  <2>2. /\ Tail(at) \in Seq(PartT) /\ Len(Tail(at)) = L - 1
        /\ \A m \in 1 .. Len(Tail(at)) : Tail(at)[m] = at[m + 1]
    BY <1>2, <2>1, HeadTailProperties
  <2> QED BY <2>2
<1>5. \A m \in 1 .. L - 1 : m \in 1 .. L /\ m + 1 \in 1 .. L /\ 1 \in 1 .. L
  BY <1>3
<1>6. PICK k \in 1 .. call - 1 : k = at[1][1]
  BY <1>1, <1>3 DEF OnWire
<1>7. /\ at[1][2] = ipart + 1
      /\ \A j \in 1 .. ipart : Part(k, j) = IF j <= Len(ret) THEN ret[j] ELSE NullPart
  BY <1>1, <1>2, <1>6 DEF Building
<1>8. /\ Head(wire).part = Part(k, ipart + 1)
      /\ Head(wire).more = "no" <=> ipart + 1 = LastOf(k)
  BY <1>1, <1>2, <1>3, <1>6, <1>7 DEF OnWire
<1>9. \A j \in 1 .. ipart + 1 : Part(k, j) = IF j <= Len(Taken) THEN Taken[j] ELSE NullPart
  <2>1. k \in Nat
    BY <1>2, <1>6
  <2> QED BY <1>7, <1>8, <2>1, TakenIs
<1>10. OnWire(at2)'
  <2>1. /\ Len(at2) = Len(wire')
        /\ \A m \in 1 .. L - 1 :
             /\ at2[m][1] \in 1 .. call - 1 /\ at2[m][2] \in 1 .. LastOf(at2[m][1])
             /\ wire'[m].part = Part(at2[m][1], at2[m][2])
             /\ wire'[m].more = "no" <=> at2[m][2] = LastOf(at2[m][1])
    <3>1. Len(at2) = Len(wire')
      BY <1>3, <1>4
    <3> SUFFICES ASSUME NEW m \in 1 .. L - 1
                 PROVE  /\ at2[m][1] \in 1 .. call - 1 /\ at2[m][2] \in 1 .. LastOf(at2[m][1])
                        /\ wire'[m].part = Part(at2[m][1], at2[m][2])
                        /\ wire'[m].more = "no" <=> at2[m][2] = LastOf(at2[m][1])
      BY <3>1
    <3>2. at2[m] = at[m + 1] /\ wire'[m] = wire[m + 1] /\ m + 1 \in 1 .. L
      BY <1>3, <1>4, <1>5
    <3> DEFINE o == m + 1
    <3> HIDE DEF o
    <3>3. /\ at[o][1] \in 1 .. call - 1 /\ at[o][2] \in 1 .. LastOf(at[o][1])
          /\ wire[o].part = Part(at[o][1], at[o][2])
          /\ wire[o].more = "no" <=> at[o][2] = LastOf(at[o][1])
      BY <1>1, <3>2 DEF OnWire, o
    <3> QED BY <3>2, <3>3 DEF o
  <2>2. \A m \in 1 .. (L - 1) - 1 :
          /\ m + 1 \in 1 .. L - 1 /\ m \in 1 .. L - 1
          /\ at2[m] = at[m + 1] /\ at2[m + 1] = at[(m + 1) + 1]
    <3> TAKE m \in 1 .. (L - 1) - 1
    <3>1. m + 1 \in 1 .. L - 1 /\ m \in 1 .. L - 1
      BY <1>3
    <3> QED BY <1>4, <3>1
  <2>3. \A m \in 1 .. (L - 1) - 1 :
          IF at2[m][2] = LastOf(at2[m][1])
            THEN at2[m][1] < at2[m + 1][1] /\ at2[m + 1][2] = 1
            ELSE at2[m + 1][1] = at2[m][1] /\ at2[m + 1][2] = at2[m][2] + 1
    <3> TAKE m \in 1 .. (L - 1) - 1
    <3> DEFINE o == m + 1
    <3>1. o \in 1 .. L - 1 /\ at2[m] = at[o] /\ at2[m + 1] = at[o + 1]
      BY <2>2
    <3>2. at2[m + 1][2] = at2[m][2] + 1 <=> at[o + 1][2] = at[o][2] + 1
      BY <3>1
    <3> HIDE DEF o
    <3>3. IF at[o][2] = LastOf(at[o][1])
            THEN at[o][1] < at[o + 1][1] /\ at[o + 1][2] = 1
            ELSE at[o + 1][1] = at[o][1] /\ at[o + 1][2] = at[o][2] + 1
      BY <1>1, <3>1 DEF OnWire
    <3> QED BY <3>1, <3>2, <3>3
  <2>4. \A m, o \in 1 .. L - 1 : m < o => at2[m][1] <= at2[o][1]
    <3> TAKE m, o \in 1 .. L - 1
    <3> HAVE m < o
    <3>1. m + 1 < o + 1
      OBVIOUS
    <3> QED BY <1>1, <1>4, <1>5, <3>1 DEF OnWire
  <2> QED BY <1>2, <1>3, <2>1, <2>3, <2>4 DEF OnWire, Part, LastOf
<1>11. ASSUME 1 \in 1 .. L - 1
       PROVE  IF ipart + 1 = LastOf(k)
                THEN /\ at2[1][2] = 1
                     /\ \A m \in 1 .. L - 1 : k < at2[m][1]
                ELSE at2[1][1] = k /\ at2[1][2] = ipart + 2
  <2>1. at2[1] = at[2] /\ ipart \in Nat
    BY <1>4, <1>11 DEF Typed
  <2>2. IF at[1][2] = LastOf(at[1][1])
          THEN at[1][1] < at[2][1] /\ at[2][2] = 1
          ELSE at[2][1] = at[1][1] /\ at[2][2] = at[1][2] + 1
    BY <1>1, <1>11 DEF OnWire
  <2>3. CASE ipart + 1 = LastOf(k)
    <3>1. k < at[2][1] /\ at[2][2] = 1
      BY <1>6, <1>7, <2>2, <2>3
    <3>2. ASSUME NEW m \in 1 .. L - 1 PROVE k < at2[m][1]
      <4>1. at2[m] = at[m + 1] /\ m + 1 \in 1 .. L /\ 2 \in 1 .. L /\ (m = 1 \/ 2 < m + 1)
        BY <1>3, <1>4, <1>5, <1>11
      <4>2. m = 1 \/ at[2][1] <= at[m + 1][1]
        BY <1>1, <4>1 DEF OnWire
      <4>3. at[2][1] \in Nat /\ at[m + 1][1] \in Nat /\ k \in Nat
        BY <1>1, <4>1 DEF OnWire
      <4> QED BY <3>1, <4>1, <4>2, <4>3
    <3> QED BY <2>1, <2>3, <3>1, <3>2
  <2>4. CASE ipart + 1 # LastOf(k)
    BY <1>6, <1>7, <2>1, <2>2, <2>4
  <2> QED BY <2>3, <2>4
<1>12. wire' # <<>> => 1 \in 1 .. L - 1
  BY <1>3, EmptySeq
<1>13. CASE Head(wire).more = "yes"
  <2>1. /\ rcvmore' = 1 /\ ipart' = ipart + 1 /\ ret' = Taken /\ got' = got
        /\ ipart + 1 # LastOf(k) /\ ipart \in Nat
    BY <1>8, <1>13, Receives DEF Typed
  <2>2. Building(at2)'
    <3>1. ASSUME wire' # <<>>
          PROVE  /\ at2[1][2] = ipart' + 1
                 /\ \A j \in 1 .. ipart' :
                      Part(at2[1][1], j) = IF j <= Len(ret') THEN ret'[j] ELSE NullPart
      BY <1>9, <1>11, <1>12, <2>1, <3>1
    <3> QED BY <1>2, <2>1, <3>1 DEF Building, Part
  <2>3. Returned(f, at2)'
    <3>1. \A n \in 1 .. Len(got), m \in 1 .. L - 1 : f[n] < at2[m][1]
      BY <1>1, <1>4, <1>5 DEF Returned
    <3> QED BY <1>1, <1>2, <1>3, <2>1, <3>1 DEF Returned, ListOf, Part
  <2> QED BY <1>1, <1>4, <1>10, <2>2, <2>3 DEF Witnessed
<1>14. CASE Head(wire).more = "no"
  <2>1. /\ rcvmore' = 0 /\ ipart' = 0 /\ got' = Append(got, Taken)
        /\ ipart + 1 = LastOf(k) /\ ipart \in Nat /\ got \in Seq(Seq(PartT))
        /\ Taken \in Seq(PartT)
    BY <1>8, <1>14, Receives DEF Typed
  <2>2. Taken = ListOf(k)
    BY <1>9, <2>1, TakenWhole
  <2>3. Building(at2)'
    <3>1. wire' # <<>> => at2[1][2] = ipart' + 1
      BY <1>11, <1>12, <2>1
    <3>2. \A j \in 1 .. ipart' : FALSE
      BY <2>1
    <3> QED BY <2>1, <3>1, <3>2 DEF Building
  <2> DEFINE N == Len(got)
  <2>4. /\ Len(got') = N + 1 /\ got'[N + 1] = ListOf(k) /\ N \in Nat
        /\ \A n \in 1 .. N : got'[n] = got[n]
    BY <2>1, <2>2, AppendProperties
  <2>5. PICK f2 \in Seq(Nat) : Len(f2) = N + 1 /\ f2[N + 1] = k /\ \A n \in 1 .. N : f2[n] = f[n]
    <3>1. Len(f) = N /\ k \in Nat
      BY <1>1 DEF Returned
    <3>2. /\ Append(f, k) \in Seq(Nat) /\ Len(Append(f, k)) = N + 1 /\ Append(f, k)[N + 1] = k
          /\ \A n \in 1 .. N : Append(f, k)[n] = f[n]
      BY <3>1, AppendProperties
    <3> QED BY <3>2
  <2>6. \A n \in 1 .. N + 1 : n \in 1 .. N \/ n = N + 1
    BY <2>4
  <2>7. \A n \in 1 .. N : f[n] < k
    BY <1>1, <1>3, <1>6 DEF Returned
  <2>8. Returned(f2, at2)'
    <3>1. \A n \in 1 .. N + 1 : f2[n] \in 1 .. call - 1 /\ got'[n] = ListOf(f2[n])
      BY <1>1, <2>4, <2>5, <2>6 DEF Returned
    <3>2. ASSUME NEW m \in 1 .. N + 1, NEW n \in 1 .. N + 1, m < n PROVE f2[m] < f2[n]
      <4>1. m \in 1 .. N
        BY <2>4, <3>2
      <4>2. CASE n \in 1 .. N
        BY <1>1, <2>5, <3>2, <4>1, <4>2 DEF Returned
      <4>3. CASE n = N + 1
        BY <2>5, <2>7, <4>1, <4>3
      <4> QED BY <2>6, <4>2, <4>3
    <3>3. ASSUME NEW n \in 1 .. N + 1, NEW m \in 1 .. L - 1 PROVE f2[n] < at2[m][1]
      <4>1. CASE n \in 1 .. N
        <5>1. f2[n] = f[n] /\ at2[m] = at[m + 1] /\ m + 1 \in 1 .. L
          BY <1>4, <1>5, <2>5, <4>1
        <5> QED BY <1>1, <4>1, <5>1 DEF Returned
      <4>2. CASE n = N + 1
        <5>1. 1 \in 1 .. L - 1
          BY <1>3
        <5> QED BY <1>11, <2>1, <2>5, <4>2, <5>1
      <4> QED BY <2>6, <4>1, <4>2
    <3> QED BY <1>2, <1>3, <2>4, <2>5, <3>1, <3>2, <3>3 DEF Returned, ListOf, Part
  <2> QED BY <1>4, <1>10, <2>3, <2>5, <2>8 DEF Witnessed
<1> QED BY <1>2, <1>13, <1>14

LEMMA IntactStep ==
  ASSUME Typed, EndsWhole, EndsInValue, Intact, [MultiNext]_multivars
  PROVE  Intact'
<1> SUFFICES ASSUME mishaps' = {} PROVE Sending' /\ Witnessed'
  BY DEF Intact
<1>1. /\ mishaps = {} /\ lists' = lists /\ ~BadIndex /\ ~Rollback /\ ~SendInterrupted
      /\ Sending /\ Witnessed
  BY NoMishap DEF Intact
<1>2. Sending'
  BY <1>1, SendingStep
<1>3. Witnessed'
  <2>1. CASE SendPart \/ DropPart
    <3>1. /\ Sends /\ NextPart /\ Flag \in {"yes", "no"}
          /\ call' = call \/ call' = call + 1
          /\ UNCHANGED <<rcvmore, ipart, ret, got>>
      <4>1. Sends /\ NextPart /\ UNCHANGED <<rcvmore, ipart, ret, got>>
        BY <2>1 DEF SendPart, DropPart, rvars
      <4> QED BY <4>1, Advances
    <3>2. CASE SendPart /\ Flag = "no"
      BY <1>1, <3>2, WitnessSend
    <3>3. CASE SendPart /\ Flag = "yes"
      <4>1. wire' = wire
        BY <3>3, Writes
      <4> QED BY <1>1, <3>1, <4>1, WitnessSame
    <3>4. CASE DropPart
      <4>1. wire' = wire
        BY <3>4 DEF DropPart
      <4> QED BY <1>1, <3>1, <4>1, WitnessSame
    <3> QED BY <2>1, <3>1, <3>2, <3>3, <3>4
  <2>2. CASE Break
    BY <1>1, <2>2, WitnessBreak
  <2>3. CASE RecvPart
    BY <1>1, <2>3, WitnessRecv
  <2>4. CASE ~(SendPart \/ DropPart \/ Break \/ RecvPart)
    <3>1. UNCHANGED <<call, wire, rcvmore, ipart, ret, got>>
      BY <1>1, <2>4 DEF MultiNext, Sender, SCall, PipeTerminated, Attach, multivars, svars, rvars
    <3> QED BY <1>1, <3>1, WitnessSame
  <2> QED BY <2>1, <2>2, <2>3, <2>4
<1> QED BY <1>2, <1>3

LEMMA WholeFromIntact == ASSUME Typed, Intact PROVE WholeBarMishaps
<1> SUFFICES ASSUME mishaps = {} PROVE Whole
  BY DEF WholeBarMishaps
<1>1. PICK at \in Seq(PartT), f \in Seq(Nat) : OnWire(at) /\ Building(at) /\ Returned(f, at)
  BY DEF Intact, Witnessed
<1>2. /\ DOMAIN got = 1 .. Len(got) /\ DOMAIN lists = 1 .. Len(lists) /\ DOMAIN f = DOMAIN got
      /\ call \in 1 .. Len(lists) + 1 /\ Len(lists) \in Nat
  BY <1>1 DEF Typed, Returned
<1>3. \A n \in DOMAIN got : f[n] \in DOMAIN lists
  BY <1>1, <1>2 DEF Returned
<1>4. f \in [DOMAIN got -> DOMAIN lists]
  BY <1>2, <1>3
<1>5. /\ \A n \in DOMAIN got : got[n] = ListOf(f[n])
      /\ \A m, n \in DOMAIN got : m < n => f[m] < f[n]
  BY <1>1, <1>2 DEF Returned
<1> QED BY <1>4, <1>5 DEF Whole

-----------------------------------------------------------------------------
LEMMA TypesFollow == Typed => MultiTypeOK
<1> SUFFICES ASSUME Typed PROVE MultiTypeOK
  OBVIOUS
<1>1. Seq(Frame) = Frames /\ Seq(PartT) = Seq(Nat \X Nat)
  BY DEF Frame, Frames, PartT
<1> QED BY <1>1 DEF Typed, MultiTypeOK

(* Every variable of the model has its type.                               *)
THEOREM MultipartTypes == MultiSpec => []MultiTypeOK
<1> QED BY TypedInit, TypedStep, TypesFollow, PTL DEF MultiSpec

(* Whatever breaks, is interrupted or rolled back, zmq.recv.multipart()    *)
(* gets the parts in the order in which zmq.send.multipart() sent them and *)
(* none of them twice, and once it has the first part of a message the     *)
(* others are there: it never blocks in the middle of a list.              *)
THEOREM PartsFollowEachOther == MultiSpec => []PartsFollow
<1> DEFINE Inv == Typed /\ EndsWhole /\ Order
<1>1. MultiInit => EndsWhole
  BY DEF MultiInit, EndsWhole
<1>2. MultiInit => Inv
  BY <1>1, TypedInit, OrderInit
<1>3. Inv /\ [MultiNext]_multivars => Inv'
  BY TypedStep, EndsWholeStep, OrderStep
<1>4. Inv => PartsFollow
  BY TypesFollow, RestFromEnd DEF PartsFollow, Order
<1> QED BY <1>2, <1>3, <1>4, PTL DEF MultiSpec

(* As long as no send is interrupted, no message is rolled back and no     *)
(* list is too short for the loop of zmq.send.multipart(), every list that *)
(* zmq.recv.multipart() returns is one that was sent, with all its parts   *)
(* and NULLs in their places, and they come in their order: connections    *)
(* that break lose whole lists only.                                       *)
THEOREM ListsArriveWhole == ASSUME EndsInValue PROVE MultiSpec => []WholeBarMishaps
<1> DEFINE Inv == Typed /\ EndsWhole /\ Intact
<1>1. MultiInit => EndsWhole
  BY DEF MultiInit, EndsWhole
<1>2. MultiInit => Inv
  BY <1>1, TypedInit, IntactInit
<1>3. Inv /\ [MultiNext]_multivars => Inv'
  BY TypedStep, EndsWholeStep, IntactStep
<1>4. Inv => WholeBarMishaps
  BY WholeFromIntact
<1> QED BY <1>2, <1>3, <1>4, PTL DEF MultiSpec
=============================================================================
