------------------------------- MODULE PubSub -------------------------------
(***************************************************************************)
(* The sockets that publish and subscribe (xpub.cpp, pub.cpp, xsub.cpp,    *)
(* sub.cpp) or send to groups (radio.cpp, dish.cpp), with their state in   *)
(* the field t of the socket.  A topic is a sequence of characters.        *)
(***************************************************************************)
EXTENDS Queues, SequencesExt

Hold(ps, p)    == ps \cup {p}
Release(ps, p) == ps \ {p}
Incr(n, x)     == n + 1
Decr(n, x)     == n - 1

M == INSTANCE Trie WITH Nothing <- {}, Put <- Hold, Cut <- Release  \* mtrie_t
R == INSTANCE Trie WITH Nothing <- 0, Put <- Incr, Cut <- Decr      \* trie_t

------------------------------------------------------------------------------
(* xpub_t: who has subscribed to what, and what its user is still to be    *)
(* told.  With ZMQ_XPUB_MANUAL it would be the user who subscribes.        *)
NewXPub == [subs |-> M!Leaf, pending |-> <<>>, more |-> FALSE]

Tell(s, f) == IF s.type = "PUB" THEN s
              ELSE [s EXCEPT !.t.pending = Append(s.t.pending, f)]

(* A subscription, the end of one, or a message of an XSUB's user.         *)
ApplySub(s, p, f) ==
  LET old == s.t.subs
      add == [s EXCEPT !.t.subs = M!Add(old, f.m, p)]
      rm  == [s EXCEPT !.t.subs = M!Remove(old, f.m, p),
                       !.failed = s.failed \/ (M!Holds(old, f.m) # {} /\ p \notin M!Holds(old, f.m))]
  IN IF f.kind = "sub"
       THEN IF M!Holds(old, f.m) = {} \/ "verbose" \in s.opts THEN Tell(add, f) ELSE add
     ELSE IF f.kind = "unsub"
       THEN IF \/ M!Has(old, f.m) /\ M!Holds(rm.t.subs, f.m) = {}
               \/ "verboser" \in s.opts
              THEN Tell(rm, f) ELSE rm
     ELSE [s EXCEPT !.t.pending = Append(s.t.pending, f)]

RECURSIVE ReadSubs(_, _)
ReadSubs(s, p) ==
  IfOk(ReadPipe(s, p), LAMBDA r : ReadSubs(ApplySub(r, p, r.msg), p))

XPubAttach(s, p, toAll) ==
  LET a == [s EXCEPT !.dist = DistAttached(s.dist, p)]
  IN ReadSubs(IF toAll THEN [a EXCEPT !.t.subs = M!Add(a.t.subs, <<>>, p)] ELSE a, p)

(* What nobody is interested in any more is told to the user.              *)
XPubTerminated(s, p) ==
  LET gone(topic) == /\ p \in M!Holds(s.t.subs, topic)
                     /\ "verboser" \in s.opts \/ M!Holds(s.t.subs, topic) = {p}
      topics == SelectSeq(M!Prefixes(s.t.subs), gone)
      unsubs == [i \in DOMAIN topics |-> Frame("unsub", topics[i], 0, FALSE)]
  IN [s EXCEPT !.t.subs = M!RemoveAll(s.t.subs, p), !.dist = DistTerminated(s.dist, p),
               !.t.pending = IF s.type = "PUB" THEN <<>> ELSE s.t.pending \o unsubs]

(* The first part of a message tells which pipes match; they still do      *)
(* after a message that ZMQ_XPUB_NODROP has refused.                       *)
XPubSend(s, f) ==
  LET d == DistMatchAll(s.dist, UNION M!Match(s.t.subs, f.m))
      a == IF s.t.more THEN s
           ELSE [s EXCEPT !.dist = IF "invert" \in s.opts THEN ReverseMatch(d) ELSE d]
      r == SendToMatching(a, f)
  IN IF "nodrop" \in s.opts /\ ~CheckHwm(a) THEN Fail(a, "EAGAIN")
     ELSE [r EXCEPT !.t.more = f.more,
                    !.dist = IF f.more THEN r.dist ELSE DistUnmatch(r.dist)]

XPubRecv(s) ==
  IF s.t.pending = <<>> THEN Fail(s, "EAGAIN")
  ELSE Ok([s EXCEPT !.msg = Head(s.t.pending), !.t.pending = Tail(s.t.pending)])

------------------------------------------------------------------------------
(* xsub_t: how often it has subscribed to what; a message that xhas_in()   *)
(* has fetched.                                                            *)
NewXSub == [subs |-> R!Leaf, more |-> FALSE, fetched |-> <<>>]

RECURSIVE WriteAll(_, _, _)
WriteAll(s, p, fs) ==
  IF fs = <<>> THEN FlushPipe(s, p)
  ELSE WriteAll(WritePipe(s, p, Head(fs)), p, Tail(fs))

Subscriptions(s) ==
  LET topics == R!Prefixes(s.t.subs)
  IN [i \in DOMAIN topics |-> Frame("sub", topics[i], 0, FALSE)]

BothAttach(s, p) == [s EXCEPT !.fq = Attached(s.fq, p),
                              !.dist = DistAttached(s.dist, p)]

XSubAttach(s, p)   == WriteAll(BothAttach(s, p), p, Subscriptions(s))

(* Bug: a publisher that has come back is not told again.                  *)
XSubHiccupedSilently(s, p) == s
XSubHiccuped(s, p) == WriteAll(s, p, Subscriptions(s))

(* A subscription goes upstream each time, its end only after the last.    *)
XSubSend(s, f) ==
  IF f.kind = "sub"
    THEN SendToAll([s EXCEPT !.t.subs = R!Add(s.t.subs, f.m, 1)], f)
  ELSE IF f.kind = "unsub"
    THEN LET r == [s EXCEPT !.t.subs = R!Remove(s.t.subs, f.m, 1)]
         IN IF R!Holds(s.t.subs, f.m) = 1 THEN SendToAll(r, f) ELSE Ok(r)
  ELSE SendToAll(s, f)

Wanted(s, f) == \/ s.type = "XSUB"
                \/ (R!Match(s.t.subs, f.m) # {0}) # ("invert" \in s.opts)

RECURSIVE SkipRest(_)
SkipRest(s) ==
  LET r == FqRecv(s)
  IN IF ~s.msg.more THEN s
     ELSE IF r.rc # "ok" THEN [r EXCEPT !.failed = TRUE] ELSE SkipRest(r)

(* The next message that is wanted; parts after the first are.             *)
RECURSIVE RecvWanted(_)
RecvWanted(s) ==
  LET r == FqRecv(s)
  IN IF r.rc # "ok" \/ s.t.more \/ Wanted(s, r.msg) THEN r
     ELSE RecvWanted(SkipRest(r))

XSubRecv(s) ==
  IfOk(IF s.t.fetched = <<>> THEN RecvWanted(s)
       ELSE Ok([s EXCEPT !.msg = Head(s.t.fetched), !.t.fetched = <<>>]),
       LAMBDA r : [r EXCEPT !.t.more = r.msg.more])

XSubHasIn(s) ==
  IF s.t.more \/ s.t.fetched # <<>> THEN Ok(s)
  ELSE IfOk(RecvWanted(s), LAMBDA r : [r EXCEPT !.t.fetched = <<r.msg>>])

------------------------------------------------------------------------------
(* radio_t: who has joined which group, and the pipes of UDP, which get    *)
(* everything.                                                             *)
NewRadio == [subs |-> <<>>, udp |-> {}]

RECURSIVE ReadJoins(_, _)
ReadJoins(s, p) ==
  LET r  == ReadPipe(s, p)
      gp == <<r.msg.m, p>>
      a  == [r EXCEPT !.t.subs = IF r.msg.kind = "join" THEN Append(r.t.subs, gp)
                                 ELSE Remove(r.t.subs, gp)]
  IN IF r.rc # "ok" THEN r ELSE ReadJoins(a, p)

RadioAttach(s, p, toAll) ==
  LET a == [s EXCEPT !.dist = DistAttached(s.dist, p)]
  IN IF toAll THEN [a EXCEPT !.t.udp = a.t.udp \cup {p}] ELSE ReadJoins(a, p)

RadioTerminated(s, p) ==
  LET stays(gp) == gp[2] # p
  IN [s EXCEPT !.t.subs = SelectSeq(s.t.subs, stays), !.t.udp = s.t.udp \ {p},
               !.dist = DistTerminated(s.dist, p)]

RadioSend(s, f) ==
  LET joined == {s.t.subs[i][2] : i \in {j \in DOMAIN s.t.subs : s.t.subs[j][1] = f.m}}
      d == DistMatchAll(DistUnmatch(s.dist), joined \cup s.t.udp)
  IN IF f.more THEN Fail(s, "EINVAL") ELSE SendToMatching([s EXCEPT !.dist = d], f)

------------------------------------------------------------------------------
(* dish_t                                                                  *)
NewDish == [joined |-> {}, fetched |-> <<>>]

Joins(s) == LET gs == SetToSeq(s.t.joined)
            IN [i \in DOMAIN gs |-> Frame("join", gs[i], 0, FALSE)]

DishAttach(s, p)   == WriteAll(BothAttach(s, p), p, Joins(s))
DishHiccuped(s, p) == WriteAll(s, p, Joins(s))

(* xjoin() and xleave(); a group is joined once.                           *)
DishSend(s, f) ==
  IF (f.kind = "join") = (f.m \in s.t.joined) THEN Fail(s, "EINVAL")
  ELSE SendToAll([s EXCEPT !.t.joined = IF f.kind = "join" THEN s.t.joined \cup {f.m}
                                        ELSE s.t.joined \ {f.m}], f)

RECURSIVE RecvJoined(_)
RecvJoined(s) ==
  LET r == FqRecv(s)
  IN IF r.rc # "ok" \/ r.msg.m \in s.t.joined THEN r ELSE RecvJoined(r)

DishRecv(s) == IF s.t.fetched = <<>> THEN RecvJoined(s)
               ELSE Ok([s EXCEPT !.msg = Head(s.t.fetched), !.t.fetched = <<>>])

DishHasIn(s) ==
  IF s.t.fetched # <<>> THEN Ok(s)
  ELSE IfOk(RecvJoined(s), LAMBDA r : [r EXCEPT !.t.fetched = <<r.msg>>])
=============================================================================
