--------------------------- MODULE OneShotProofs ----------------------------
(***************************************************************************)
(* The calls that make what they are not given, for any contexts, sockets  *)
(* and ports: none of them disposes of what is the user's, and one that    *)
(* returns leaves nothing of its own behind.                               *)
(***************************************************************************)
EXTENDS OneShot, ContextProofs

(* The call of the user; a second one can only be the file call inside it. *)
Outer == frames[Len(frames)]

Nesting ==
  /\ Len(frames) \in 0 .. 2
  /\ pc \in {"ctx", "socket", "attach", "inner"} => Len(frames) = 1
  /\ Len(frames) = 2 => /\ Op \notin {"senddir", "recvdir"} /\ Own = {}
                        /\ pc \in {"type", "transfer", "close", "destroy", "return"}

(* What the call has to dispose of says whose its context and socket are.  *)
Whose ==
  frames # <<>> =>
    \/ Outer.own = {} /\ ctx \in kept \cup {None} /\ sock \in kept
    \/ Outer.own = {"socket"} /\ ctx \in kept /\ sock \in made \cup {None}
    \/ Outer.own = {"ctx", "socket"} /\ ctx \in made \cup {None} /\ sock \in made \cup {None}

(* The user's call is past the close of its socket.                        *)
Ending == pc \in {"destroy", "return"} /\ Len(frames) = 1

(* How far a call has got in making what it needs ...                      *)
Making ==
  /\ pc = "user" => ctx = None
  /\ pc = "ctx" => ctx = None /\ HasFresh(Ctxs, cst)
  /\ pc = "socket" => ctx # None
  /\ pc \in {"ctx", "socket"} => HasFresh(Socks, sst)
  /\ sock = None <=> pc \in {"user", "ctx", "socket"}

(* ... and in disposing of it: the socket first.                           *)
Disposing ==
  /\ sock \in made => /\ owner[sock] = ctx
                      /\ IF Ending THEN sst[sock] # "open"
                                   ELSE sst[sock] = "open" /\ cst[ctx] = "live"
  /\ ctx \in made /\ Ending /\ pc = "destroy" => cst[ctx] = "live"
  /\ ctx \in made /\ Ending /\ pc = "return" =>
       cst[ctx] = "freed" \/ waits = ctx \/ {ctx, sock} \subseteq left

(* Only the last thing a call does, or the user himself, can block.        *)
Waiting == waits # None =>
             pc = "user" \/ (pc = "return" /\ waits = ctx /\ ctx \in made /\ Ending)

(* Whatever a call has made exists, and the contexts of the user's sockets *)
(* are the user's.                                                         *)
Known ==
  /\ \A o \in made : IF o \in Socks THEN sst[o] # "none" ELSE cst[o] # "none"
  /\ \A s \in kept \cap Socks : owner[s] \in kept

OneInv == /\ CtxInv /\ CallerKeeps /\ LeavesNothing /\ Known
          /\ Nesting /\ Whose /\ Making /\ Disposing /\ Waiting

-----------------------------------------------------------------------------
(* Helpers.                                                                *)

Frames == [op : Ops, own : SUBSET {"ctx", "socket"}]

LEMMA FreshIsNew ==
  ASSUME NEW S, NEW st, HasFresh(S, st)
  PROVE  Fresh(S, st) \in S /\ st[Fresh(S, st)] = "none"
BY DEF HasFresh, Fresh

(* Nobody has a name twice: contexts, sockets, None.                       *)
LEMMA Names ==
  ASSUME OneInv
  PROVE  /\ None \notin kept /\ None \notin made /\ kept \cap made = {}
         /\ kept \subseteq Ctxs \cup Socks /\ made \subseteq Ctxs \cup Socks
         /\ Ctxs \cap Socks = {} /\ None \notin Ctxs /\ None \notin Socks
         /\ ctx \in Ctxs \cup {None} /\ sock \in Socks \cup {None}
         /\ TypeOK /\ CtxTypeOK
BY ObjectsAssumption, SockAssumption DEF OneInv, CallerKeeps, TypeOK

(* The active calls, by how many there are.                                *)
LEMMA FrameFacts ==
  ASSUME OneInv
  PROVE  /\ frames \in Seq(Frames) /\ Len(frames) \in 0 .. 2
         /\ frames = <<>> <=> pc = "user"
         /\ frames = <<>> <=> Len(frames) = 0
         /\ Len(frames) = 1 => Own = Outer.own /\ Op = Outer.op /\ Tail(frames) = <<>>
         /\ Len(frames) = 2 => Tail(frames) = <<Outer>> /\ Own = {} /\ pc # "attach"
         /\ frames # <<>> => Outer \in Frames
<1>1. frames \in Seq(Frames) /\ Len(frames) \in 0 .. 2 /\ (pc = "user" <=> frames = <<>>)
  BY DEF OneInv, CallerKeeps, TypeOK, Frames, Nesting
<1>2. frames = <<>> <=> Len(frames) = 0
  BY <1>1
<1>3. ASSUME Len(frames) \in {1, 2}
      PROVE  /\ Head(frames) = frames[1] /\ Tail(frames) \in Seq(Frames)
             /\ Len(Tail(frames)) = Len(frames) - 1
             /\ \A k \in 1 .. Len(frames) - 1 : Tail(frames)[k] = frames[k + 1]
  BY <1>1, <1>2, <1>3, HeadTailProperties
<1>4. /\ Len(frames) = 1 => Own = Outer.own /\ Op = Outer.op /\ Tail(frames) = <<>>
      /\ Len(frames) = 2 => Tail(frames) = <<Outer>> /\ Own = {} /\ pc # "attach"
  <2>1. \A s \in Seq(Frames) : Len(s) = 1 => s = <<s[1]>>
    OBVIOUS
  <2>2. \A s \in Seq(Frames) : Len(s) = 0 => s = <<>>
    OBVIOUS
  <2>3. ASSUME Len(frames) = 2 PROVE Tail(frames) = <<Outer>>
    <3>1. Len(Tail(frames)) = 1 /\ Tail(frames)[1] = frames[2]
      BY <1>3, <2>3
    <3> QED BY <1>3, <2>1, <2>3, <3>1 DEF Outer
  <2>4. ASSUME Len(frames) = 1 PROVE Own = Outer.own /\ Op = Outer.op /\ Tail(frames) = <<>>
    <3>1. Len(Tail(frames)) = 0
      BY <1>3, <2>4
    <3> QED BY <1>3, <2>2, <2>4, <3>1 DEF Outer, Own, Op
  <2>5. Len(frames) = 2 => Own = {} /\ pc # "attach"
    BY DEF OneInv, Nesting
  <2> QED BY <2>3, <2>4, <2>5
<1>5. frames # <<>> => Outer \in Frames
  BY <1>1, <1>2 DEF Outer
<1> QED BY <1>1, <1>2, <1>3, <1>4, <1>5

(* What a call has made is its own until it returns.                       *)
LEMMA WhoseAre ==
  ASSUME OneInv, frames # <<>>
  PROVE  /\ "socket" \in Outer.own <=> (sock \in made \/ pc \in {"ctx", "socket"})
         /\ sock \in made \/ sock \in kept \/ pc \in {"ctx", "socket"}
         /\ "ctx" \in Outer.own /\ pc \notin {"ctx", "socket"} => ctx \in made
         /\ ctx \in made => "ctx" \in Outer.own
         /\ sock \in made /\ ctx # None => ctx \in Ctxs
<1> USE Names
<1>1. Whose /\ Making /\ Disposing /\ Known
  BY DEF OneInv
<1>2. sock = None <=> pc \in {"ctx", "socket"}
  BY <1>1, FrameFacts DEF Making
<1>3. sock \in made => ctx \in Ctxs
  <2> SUFFICES ASSUME sock \in made PROVE ctx \in Ctxs
    OBVIOUS
  <2>1. sock \in Socks /\ sst[sock] # "none" /\ owner[sock] = ctx
    BY <1>1 DEF Known, Disposing
  <2> QED BY <2>1, KnownSocket DEF OneInv
<1>4. \/ Outer.own = {} /\ ctx \in kept \cup {None} /\ sock \in kept
      \/ Outer.own = {"socket"} /\ ctx \in kept /\ sock \in made \cup {None}
      \/ Outer.own = {"ctx", "socket"} /\ ctx \in made \cup {None} /\ sock \in made \cup {None}
  BY <1>1 DEF Whose
<1> QED BY <1>2, <1>3, <1>4

-----------------------------------------------------------------------------
(* What a step does to the objects.                                        *)

Usable(o) == IF o \in Socks THEN sst[o] = "open" /\ cst[owner[o]] = "live" ELSE cst[o] = "live"

Gone(o) == IF o \in Ctxs THEN cst[o] = "freed"
           ELSE /\ sst[o] # "open"
                /\ owner[o] \in made => sst[o] = "freed" /\ bound[o] = None /\ o \notin pending

Objects == /\ \A o \in kept : Usable(o)
           /\ \A o \in made \ (left \cup {ctx, sock}) : Gone(o)
           /\ Known

LEMMA ObjectsMean ==
  ASSUME TypeOK
  PROVE  Objects <=> CallerKeeps /\ LeavesNothing /\ Known
BY DEF Objects, CallerKeeps, LeavesNothing, Usable, Gone

LEMMA Assemble ==
  ASSUME CtxInv', TypeOK', Objects', Nesting', Whose', Making', Disposing', Waiting'
  PROVE  OneInv'
BY DEF OneInv, Objects, CallerKeeps, LeavesNothing, Usable, Gone

(* A step that makes nothing, disposes only of what is not the user's, and *)
(* uses only the call's own socket, does no harm.                          *)
LEMMA ObjectsKeep ==
  ASSUME OneInv,
         kept' \subseteq kept, \A s \in kept' \cap Socks : owner[s] \in kept',
         made' = made, owner' = owner,
         \A o \in made' \ (left' \cup {ctx', sock'}) : o \notin left \cup {ctx, sock},
         \A c \in Ctxs : c \in kept' => cst'[c] = cst[c],
         \A s \in Socks : s \in kept' => sst'[s] = sst[s],
         \A c \in Ctxs : /\ cst[c] # "none" => cst'[c] # "none"
                         /\ cst[c] = "freed" => cst'[c] = "freed",
         \A s \in Socks : /\ sst[s] # "none" => sst'[s] # "none"
                          /\ sst[s] \notin {"none", "open"} => sst'[s] # "open"
                          /\ sst[s] = "freed" => sst'[s] = "freed"
                          /\ s # sock => bound'[s] \in {bound[s], None}
                          /\ s # sock /\ s \notin pending => s \notin pending'
  PROVE  Objects'
<1> USE Names
<1>1. Objects
  BY ObjectsMean DEF OneInv
<1>2. ASSUME NEW o \in kept' PROVE Usable(o)'
  <2>1. Usable(o)
    BY <1>1 DEF Objects
  <2>2. o \in Socks => owner[o] \in kept' /\ owner[o] \in Ctxs
    BY <1>1, <2>1, KnownSocket DEF Usable, OneInv
  <2> QED BY <2>1, <2>2 DEF Usable
<1>3. ASSUME NEW o \in made' \ (left' \cup {ctx', sock'}) PROVE Gone(o)'
  <2>1. Gone(o) /\ o # sock /\ o \in made /\ Known
    BY <1>1 DEF Objects
  <2>2. o \in Socks => sst[o] # "none"
    BY <2>1 DEF Known
  <2> QED BY <2>1, <2>2 DEF Gone
<1>4. Known'
  BY <1>1 DEF Objects, Known
<1> QED BY <1>2, <1>3, <1>4 DEF Objects

(* A new object is nobody's yet, and nothing refers to it.                 *)
LEMMA NewObject ==
  ASSUME OneInv, NEW o \in Ctxs \cup Socks,
         IF o \in Socks THEN sst[o] = "none" ELSE cst[o] = "none"
  PROVE  /\ o \notin kept /\ o \notin made
         /\ \A s \in Socks : sst[s] # "none" => owner[s] # o
<1> USE Names
<1>1. Objects
  BY ObjectsMean DEF OneInv
<1>2. o \notin kept /\ o \notin made
  BY <1>1 DEF Objects, Known, Usable
<1>3. ASSUME NEW s \in Socks, sst[s] # "none" PROVE owner[s] # o
  BY <1>3, KnownSocket DEF OneInv
<1> QED BY <1>2, <1>3

(* Between calls there is nothing to dispose of.                           *)
LEMMA AtRest ==
  ASSUME frames' = <<>>, pc' = "user", ctx' = None, sock' = None, made' \subseteq Ctxs \cup Socks
  PROVE  /\ Nesting' /\ Whose' /\ Making' /\ Disposing' /\ Waiting'
<1>1. None \notin made' /\ Len(frames') = 0
  BY ObjectsAssumption, SockAssumption
<1> QED BY <1>1 DEF Nesting, Whose, Making, Disposing, Waiting, Ending

(* A call of libzmq that a step of the R thread makes.                     *)
LEMMA UserCalls ==
  ASSUME OneInv, waits = None,
         \/ \E c \in Ctxs : CtxNew(c) \/ Destroy(c)
         \/ \E c \in Ctxs, s \in Socks : NewSocket(s, c)
         \/ \E s \in Socks, p \in Ports : Bind(s, p)
         \/ \E s \in Socks : Queue(s) \/ Close(s)
         \/ UNCHANGED cvars
  PROVE  CtxInv' /\ CtxTypeOK'
<1>1. [CtxNext]_cvars
  BY DEF CtxNext, User
<1> QED BY <1>1, CtxInvStep DEF OneInv, CtxInv

LEMMA UserMakesStep ==
  ASSUME OneInv, waits = None, pc = "user", UserMakes
  PROVE  OneInv'
<1> USE Names
<1>1. /\ frames = <<>> /\ ctx = None /\ sock = None /\ Objects
  BY FrameFacts, ObjectsMean DEF OneInv, Making
<1>2. UNCHANGED <<frames, pc, ctx, sock, made, left>>
  BY DEF UserMakes
<1>3. CASE HasFresh(Ctxs, cst) /\ CtxNew(Fresh(Ctxs, cst)) /\ kept' = kept \cup {Fresh(Ctxs, cst)}
  <2> PICK x \in Ctxs : cst[x] = "none" /\ CtxNew(x) /\ kept' = kept \cup {x}
    BY <1>3, FreshIsNew
  <2>1. CtxInv' /\ CtxTypeOK'
    BY UserCalls
  <2>2. /\ cst'[x] = "live" /\ (\A c \in Ctxs : c # x => cst'[c] = cst[c])
        /\ UNCHANGED <<sst, owner, bound, pending>>
    BY DEF CtxNew, CtxTypeOK
  <2>3. x \notin kept /\ x \notin made
    BY NewObject
  <2>4. TypeOK'
    BY <1>2, <2>1, <2>3 DEF TypeOK
  <2>5. Objects'
    <3>1. ASSUME NEW o \in kept' PROVE Usable(o)'
      <4>1. o # x => Usable(o) /\ (o \in Socks => owner[o] \in Ctxs /\ owner[o] # x)
        BY <1>1, NewObject, KnownSocket DEF OneInv, Objects, Usable
      <4> QED BY <2>2, <4>1 DEF Usable
    <3>2. ASSUME NEW o \in made' \ (left' \cup {ctx', sock'}) PROVE Gone(o)'
      <4>1. Gone(o) /\ o # x
        BY <1>1, <1>2, <2>3 DEF Objects
      <4> QED BY <1>2, <2>2, <4>1 DEF Gone
    <3>3. Known'
      BY <1>1, <1>2, <2>2, <2>3 DEF Objects, Known
    <3> QED BY <3>1, <3>2, <3>3 DEF Objects
  <2> QED BY <1>1, <1>2, <2>1, <2>4, <2>5, AtRest, Assemble
<1>4. CASE /\ HasFresh(Socks, sst) /\ \E c \in kept \cap Ctxs : NewSocket(Fresh(Socks, sst), c)
           /\ kept' = kept \cup {Fresh(Socks, sst)}
  <2> PICK x \in Socks, c \in kept \cap Ctxs :
         sst[x] = "none" /\ NewSocket(x, c) /\ kept' = kept \cup {x}
    BY <1>4, FreshIsNew
  <2>1. CtxInv' /\ CtxTypeOK'
    BY UserCalls
  <2>2. /\ sst'[x] = "open" /\ owner'[x] = c /\ cst[c] = "live"
        /\ \A s \in Socks : s # x => sst'[s] = sst[s] /\ owner'[s] = owner[s]
        /\ UNCHANGED <<cst, bound, pending>>
    BY DEF NewSocket, CtxTypeOK
  <2>3. x \notin kept /\ x \notin made
    BY NewObject
  <2>4. TypeOK'
    BY <1>2, <2>1, <2>3 DEF TypeOK
  <2>5. Objects'
    <3>1. ASSUME NEW o \in kept' PROVE Usable(o)'
      <4>1. o # x => Usable(o)
        BY <1>1 DEF Objects
      <4> QED BY <2>2, <4>1 DEF Usable
    <3>2. ASSUME NEW o \in made' \ (left' \cup {ctx', sock'}) PROVE Gone(o)'
      <4>1. Gone(o) /\ o # x
        BY <1>1, <1>2, <2>3 DEF Objects
      <4> QED BY <1>2, <2>2, <4>1 DEF Gone
    <3>3. Known'
      BY <1>1, <1>2, <2>2, <2>3 DEF Objects, Known
    <3> QED BY <3>1, <3>2, <3>3 DEF Objects
  <2> QED BY <1>1, <1>2, <2>1, <2>4, <2>5, AtRest, Assemble
<1> QED BY <1>3, <1>4 DEF UserMakes

(* zmq_close() of an open socket, zmq_ctx_term() of a live context.        *)
LEMMA CloseOpen ==
  ASSUME CtxTypeOK, NEW s \in Socks, sst[s] = "open", Close(s)
  PROVE  /\ sst'[s] = "closed" /\ \A t \in Socks : t # s => sst'[t] = sst[t]
         /\ UNCHANGED <<cst, owner, bound, pending, waits>>
BY DEF Close, CtxTypeOK

LEMMA DestroyLive ==
  ASSUME CtxTypeOK, NEW c \in Ctxs, cst[c] = "live", Destroy(c)
  PROVE  /\ cst'[c] \in {"terminating", "freed"} /\ \A d \in Ctxs : d # c => cst'[d] = cst[d]
         /\ UNCHANGED <<sst, owner, bound, pending>>
         /\ waits' \in {waits, c} /\ (Started(c) => waits' = c)
BY DEF Destroy, CtxTypeOK

LEMMA UserClosesStep ==
  ASSUME OneInv, waits = None, pc = "user", UserCloses
  PROVE  OneInv'
<1> USE Names
<1>1. /\ frames = <<>> /\ ctx = None /\ sock = None /\ Objects
  BY FrameFacts, ObjectsMean DEF OneInv, Making
<1>2. UNCHANGED <<frames, pc, ctx, sock, made, left>>
  BY DEF UserCloses
<1> PICK o \in kept :
      /\ \/ o \in Socks /\ Close(o)
         \/ o \in Ctxs /\ Destroy(o) /\ \A s \in kept \cap Socks : owner[s] # o
      /\ kept' = kept \ {o}
  BY DEF UserCloses
<1>3. CtxInv' /\ CtxTypeOK' /\ TypeOK'
  <2>1. CtxInv' /\ CtxTypeOK'
    BY UserCalls
  <2> QED BY <1>2, <2>1 DEF TypeOK
<1>4. Usable(o) /\ \A s \in kept \cap Socks : owner[s] \in kept
  BY <1>1 DEF Objects, Known
<1>5. Objects'
  <2>1. CASE o \in Socks /\ Close(o)
    <3>1. /\ sst'[o] = "closed" /\ \A t \in Socks : t # o => sst'[t] = sst[t]
          /\ UNCHANGED <<cst, owner, bound, pending>>
      BY <1>4, <2>1, CloseOpen DEF Usable
    <3>2. \A s \in Socks : /\ s \in kept' => sst'[s] = sst[s]
                           /\ sst[s] # "none" => sst'[s] # "none"
                           /\ sst[s] \notin {"none", "open"} => sst'[s] # "open"
                           /\ sst[s] = "freed" => sst'[s] = "freed"
      BY <1>4, <2>1, <3>1 DEF Usable
    <3>3. \A s \in kept' \cap Socks : owner[s] \in kept'
      BY <1>1, <1>4, <2>1, KnownSocket DEF Objects, Usable, OneInv
    <3> QED BY <1>1, <1>2, <3>1, <3>2, <3>3, ObjectsKeep
  <2>2. CASE o \in Ctxs /\ Destroy(o) /\ \A s \in kept \cap Socks : owner[s] # o
    <3>1. /\ cst'[o] \in {"terminating", "freed"} /\ \A d \in Ctxs : d # o => cst'[d] = cst[d]
          /\ UNCHANGED <<sst, owner, bound, pending>>
      BY <1>4, <2>2, DestroyLive DEF Usable
    <3>2. /\ \A c \in Ctxs : c \in kept' => cst'[c] = cst[c]
          /\ \A c \in Ctxs : /\ cst[c] # "none" => cst'[c] # "none"
                             /\ cst[c] = "freed" => cst'[c] = "freed"
      BY <1>4, <2>2, <3>1 DEF Usable
    <3>3. \A s \in kept' \cap Socks : owner[s] \in kept'
      BY <1>4, <2>2
    <3> QED BY <1>1, <1>2, <3>1, <3>2, <3>3, ObjectsKeep
  <2> QED BY <2>1, <2>2
<1> QED BY <1>1, <1>2, <1>3, <1>5, AtRest, Assemble

(* A call begins with what it is given.                                    *)
LEMMA CallStep ==
  ASSUME OneInv, waits = None, pc = "user", NEW o \in Ops,
         NEW c \in (kept \cap Ctxs) \cup {None}, NEW s \in (kept \cap Socks) \cup {None},
         Call(o, c, s)
  PROVE  OneInv'
<1> USE Names
<1>1. /\ frames = <<>> /\ ctx = None /\ sock = None /\ Objects
  BY FrameFacts, ObjectsMean DEF OneInv, Making
<1>2. /\ UNCHANGED <<kept, made, left>> /\ ctx' = c /\ sock' = s
      /\ frames' = <<[op |-> o, own |-> Owned(c, s)]>>
      /\ pc' = IF s # None THEN "type" ELSE IF c # None THEN "socket" ELSE "ctx"
      /\ s = None => HasFresh(Socks, sst)
      /\ s = None /\ c = None => HasFresh(Ctxs, cst)
  BY DEF Call, Frame
<1>3. UNCHANGED <<cst, sst, owner, bound, pending, waits>> /\ UNCHANGED cvars
  BY DEF Call, cvars
<1>4. CtxInv' /\ CtxTypeOK'
  BY <1>3, UserCalls
<1>5. /\ frames' \in Seq(Frames) /\ Len(frames') = 1 /\ frames' # <<>>
      /\ Outer' = [op |-> o, own |-> Owned(c, s)]
  <2>1. [op |-> o, own |-> Owned(c, s)] \in Frames
    BY DEF Frames, Owned
  <2> QED BY <1>2, <2>1 DEF Outer
<1>6. TypeOK'
  BY <1>2, <1>4, <1>5 DEF TypeOK, Frames
<1>7. Objects'
  BY <1>1, <1>2, <1>3, ObjectsKeep DEF Objects, Known
<1>8. Nesting' /\ Waiting'
  BY <1>2, <1>3, <1>5 DEF Nesting, Waiting
<1>9. Whose'
  BY <1>2, <1>5 DEF Whose, Owned
<1>10. HasFresh(Ctxs, cst)' = HasFresh(Ctxs, cst) /\ HasFresh(Socks, sst)' = HasFresh(Socks, sst)
  BY <1>3 DEF HasFresh
<1>11. Making' /\ Disposing'
  BY <1>2, <1>3, <1>10 DEF Making, Disposing
<1> QED BY <1>4, <1>6, <1>7, <1>8, <1>9, <1>11, Assemble

(* What a call needs is made, and what it has made is its own: the context *)
LEMMA CreateCtxStep ==
  ASSUME OneInv, waits = None, CreateCtx
  PROVE  OneInv'
<1> USE Names
<1>1. /\ pc = "ctx" /\ ctx = None /\ sock = None /\ Objects /\ Whose
      /\ HasFresh(Ctxs, cst) /\ HasFresh(Socks, sst) /\ Len(frames) = 1 /\ frames # <<>>
  BY ObjectsMean, FrameFacts DEF OneInv, CreateCtx, Making, Nesting
<1> PICK x \in Ctxs : cst[x] = "none" /\ CtxNew(x) /\ ctx' = x /\ made' = made \cup {x}
  BY <1>1, FreshIsNew DEF CreateCtx
<1>2. pc' = "socket" /\ UNCHANGED <<frames, sock, kept, left>>
  BY DEF CreateCtx
<1>3. /\ cst'[x] = "live" /\ (\A c \in Ctxs : c # x => cst'[c] = cst[c])
      /\ UNCHANGED <<sst, owner, bound, pending, waits>>
  BY DEF CtxNew, CtxTypeOK
<1>4. x \notin kept /\ x \notin made /\ \A s \in Socks : sst[s] # "none" => owner[s] # x
  BY NewObject
<1>5. CtxInv' /\ CtxTypeOK'
  BY UserCalls
<1>6. TypeOK'
  BY <1>1, <1>2, <1>4, <1>5 DEF TypeOK
<1>7. Objects'
  <2>1. ASSUME NEW o \in kept' PROVE Usable(o)'
    <3>1. /\ o # x /\ Usable(o) /\ o \in Ctxs \cup Socks
          /\ o \in Socks => owner[o] # x /\ owner[o] \in Ctxs
      BY <1>1, <1>2, <1>4, KnownSocket DEF OneInv, Objects, Usable
    <3> QED BY <1>3, <3>1 DEF Usable
  <2>2. ASSUME NEW o \in made' \ (left' \cup {ctx', sock'}) PROVE Gone(o)'
    <3>1. o \in made /\ Gone(o) /\ o # x
      BY <1>1, <1>2 DEF Objects
    <3>2. o \in Socks => owner[o] # x
      BY <1>1, <1>4, <3>1 DEF Objects, Known
    <3> QED BY <1>3, <3>1, <3>2 DEF Gone
  <2>3. Known'
    BY <1>1, <1>2, <1>3, <1>4 DEF Objects, Known
  <2> QED BY <2>1, <2>2, <2>3 DEF Objects
<1>8. Nesting' /\ Whose'
  <2>1. Outer' = Outer /\ frames' = frames
    BY <1>2 DEF Outer
  <2>2. Whose'
    BY <1>1, <1>2, <2>1 DEF Whose
  <2> QED BY <1>1, <1>2, <2>1, <2>2 DEF Nesting
<1>9. Making' /\ Disposing' /\ Waiting'
  <2>1. HasFresh(Socks, sst)'
    BY <1>1, <1>3 DEF HasFresh
  <2> QED BY <1>1, <1>2, <1>3, <2>1 DEF Making, Disposing, Waiting
<1> QED BY <1>5, <1>6, <1>7, <1>8, <1>9, Assemble

(* ... and the socket, in the context it was given or has made.            *)
LEMMA CreateSocketStep ==
  ASSUME OneInv, waits = None, CreateSocket
  PROVE  OneInv'
<1> USE Names
<1>1. /\ pc = "socket" /\ ctx \in Ctxs /\ sock = None /\ Objects /\ Whose
      /\ HasFresh(Socks, sst) /\ Len(frames) = 1 /\ frames # <<>>
  BY ObjectsMean, FrameFacts DEF OneInv, CreateSocket, Making, Nesting
<1> PICK x \in Socks : sst[x] = "none" /\ NewSocket(x, ctx) /\ sock' = x /\ made' = made \cup {x}
  BY <1>1, FreshIsNew DEF CreateSocket
<1>2. pc' = "attach" /\ UNCHANGED <<frames, ctx, kept, left>>
  BY DEF CreateSocket
<1>3. /\ sst'[x] = "open" /\ owner'[x] = ctx /\ cst[ctx] = "live"
      /\ \A s \in Socks : s # x => sst'[s] = sst[s] /\ owner'[s] = owner[s]
      /\ UNCHANGED <<cst, bound, pending, waits>>
  BY DEF NewSocket, CtxTypeOK
<1>4. x \notin kept /\ x \notin made
  BY NewObject
<1>5. CtxInv' /\ CtxTypeOK'
  BY <1>1, UserCalls
<1>6. TypeOK'
  BY <1>1, <1>2, <1>4, <1>5 DEF TypeOK
<1>7. Objects'
  <2>1. ASSUME NEW o \in kept' PROVE Usable(o)'
    <3>1. o # x /\ Usable(o)
      BY <1>1, <1>2, <1>4 DEF Objects
    <3> QED BY <1>3, <3>1 DEF Usable
  <2>2. ASSUME NEW o \in made' \ (left' \cup {ctx', sock'}) PROVE Gone(o)'
    <3>1. o \in made /\ Gone(o) /\ o # x
      BY <1>1, <1>2 DEF Objects
    <3>2. o \in Socks => owner[o] # x
      <4>1. o \in Socks => sst[o] # "none"
        BY <1>1, <3>1 DEF Objects, Known
      <4> QED BY <4>1, KnownSocket DEF OneInv
    <3> QED BY <1>3, <3>1, <3>2 DEF Gone
  <2>3. Known'
    BY <1>1, <1>2, <1>3, <1>4 DEF Objects, Known
  <2> QED BY <2>1, <2>2, <2>3 DEF Objects
<1>8. Nesting' /\ Whose'
  <2>1. Outer' = Outer /\ frames' = frames
    BY <1>2 DEF Outer
  <2>2. Whose'
    BY <1>1, <1>2, <2>1 DEF Whose
  <2> QED BY <1>1, <1>2, <2>1, <2>2 DEF Nesting
<1>9. Making' /\ Disposing' /\ Waiting'
  BY <1>1, <1>2, <1>3 DEF Making, Disposing, Waiting, Ending
<1> QED BY <1>5, <1>6, <1>7, <1>8, <1>9, Assemble

(* What a call does with its socket before it closes it.                   *)
UsesSocket == UNCHANGED cvars \/ Queue(sock) \/ \E p \in Ports : Bind(sock, p)

LEMMA UsesKeep ==
  ASSUME OneInv, waits = None, pc \in {"attach", "type", "transfer"}, UsesSocket
  PROVE  /\ CtxInv' /\ CtxTypeOK' /\ UNCHANGED <<cst, sst, owner, waits>>
         /\ \A s \in Socks : s # sock => /\ bound'[s] = bound[s]
                                         /\ s \in pending' <=> s \in pending
         /\ sock \in Socks
<1> USE Names
<1>1. sock \in Socks
  BY DEF OneInv, Making
<1>2. CtxInv' /\ CtxTypeOK'
  BY <1>1, UserCalls DEF UsesSocket
<1>3. UNCHANGED <<cst, sst, owner, waits>>
  BY DEF UsesSocket, Queue, Bind, cvars
<1>4. \A s \in Socks : s # sock => bound'[s] = bound[s] /\ (s \in pending' <=> s \in pending)
  BY <1>1 DEF UsesSocket, Queue, Bind, cvars, CtxTypeOK
<1> QED BY <1>1, <1>2, <1>3, <1>4

(* It goes on to its next step ...                                         *)
LEMMA ProceedStep ==
  ASSUME OneInv, waits = None, pc \in {"attach", "type", "transfer"}, UsesSocket,
         NEW l \in {"type", "inner", "transfer", "close"}, Goto(l),
         l = "inner" => Len(frames) = 1
  PROVE  OneInv'
<1> USE Names
<1>1. /\ frames # <<>> /\ Objects /\ Nesting /\ Whose /\ Making /\ Disposing
  BY ObjectsMean, FrameFacts DEF OneInv
<1>2. pc' = l /\ UNCHANGED <<frames, ctx, sock, kept, made, left>>
  BY DEF Goto
<1>3. /\ CtxInv' /\ CtxTypeOK' /\ UNCHANGED <<cst, sst, owner, waits>>
      /\ \A s \in Socks : s # sock => bound'[s] = bound[s] /\ (s \in pending' <=> s \in pending)
  BY UsesKeep
<1>4. TypeOK'
  BY <1>1, <1>2, <1>3, FrameFacts DEF TypeOK
<1>5. Objects'
  BY <1>1, <1>2, <1>3, ObjectsKeep DEF Objects, Known
<1>6. Op' = Op /\ Own' = Own /\ Outer' = Outer
  BY <1>2 DEF Op, Own, Outer
<1>7. Nesting' /\ Whose'
  <2>1. Len(frames) # 2 => Len(frames) = 1
    BY <1>1, FrameFacts
  <2>2. Nesting'
    BY <1>1, <1>2, <1>6, <2>1, FrameFacts DEF Nesting
  <2> QED BY <1>1, <1>2, <1>6, <2>2 DEF Whose
<1>8. Making' /\ Disposing' /\ Waiting'
  BY <1>1, <1>2, <1>3 DEF Making, Disposing, Waiting, Ending
<1> QED BY <1>3, <1>4, <1>5, <1>7, <1>8, Assemble

(* ... or an error unwinds it, and what it has made is left behind.        *)
LEMMA AbortStep ==
  ASSUME OneInv, waits = None, pc \in {"attach", "type", "transfer"}, UsesSocket, Abort
  PROVE  OneInv'
<1> USE Names
<1>1. Objects
  BY ObjectsMean DEF OneInv
<1>2. /\ frames' = <<>> /\ pc' = "user" /\ ctx' = None /\ sock' = None
      /\ left' = left \cup ({ctx, sock} \cap made) /\ UNCHANGED <<kept, made>>
  BY DEF Abort, Mine
<1>3. /\ CtxInv' /\ CtxTypeOK' /\ UNCHANGED <<cst, sst, owner, waits>>
      /\ \A s \in Socks : s # sock => bound'[s] = bound[s] /\ (s \in pending' <=> s \in pending)
  BY UsesKeep
<1>4. TypeOK'
  BY <1>2, <1>3 DEF TypeOK
<1>5. Objects'
  BY <1>1, <1>2, <1>3, ObjectsKeep DEF Objects, Known
<1> QED BY <1>2, <1>3, <1>4, <1>5, AtRest, Assemble

(* The socket is bound or connected, checked, and transferred with.        *)
LEMMA MiddleStep ==
  ASSUME OneInv, waits = None, BindSocket \/ ConnectSocket \/ CheckType \/ Transfer
  PROVE  OneInv'
<1>1. CASE BindSocket
  BY <1>1, ProceedStep DEF BindSocket, UsesSocket
<1>2. CASE ConnectSocket
  BY <1>2, ProceedStep DEF ConnectSocket, UsesSocket
<1>3. CASE CheckType
  <2>1. pc = "type" /\ UsesSocket
    BY <1>3 DEF CheckType, UsesSocket
  <2>2. CASE Abort
    BY <2>1, <2>2, AbortStep
  <2>3. CASE Goto(IF Op \in {"senddir", "recvdir"} THEN "inner" ELSE "transfer")
    <3>1. Op \in {"senddir", "recvdir"} => Len(frames) = 1
      <4>1. Len(frames) # 0 /\ Len(frames) \in 0 .. 2
        BY <2>1, FrameFacts
      <4> QED BY <4>1 DEF OneInv, Nesting
    <3> QED BY <2>1, <2>3, <3>1, ProceedStep
  <2> QED BY <1>3, <2>2, <2>3 DEF CheckType
<1>4. CASE Transfer
  <2>1. pc = "transfer" /\ UsesSocket
    BY <1>4 DEF Transfer, UsesSocket
  <2>2. CASE Abort
    BY <2>1, <2>2, AbortStep
  <2>3. CASE Goto("close")
    BY <2>1, <2>3, ProceedStep
  <2> QED BY <1>4, <2>2, <2>3 DEF Transfer
<1> QED BY <1>1, <1>2, <1>3, <1>4

(* The directory functions call the file functions with their own socket.  *)
LEMMA CallInnerStep ==
  ASSUME OneInv, waits = None, CallInner
  PROVE  OneInv'
<1> USE Names
<1>1. /\ pc = "inner" /\ frames # <<>> /\ Len(frames) = 1 /\ frames \in Seq(Frames)
      /\ Objects /\ Nesting /\ Whose /\ Making /\ Disposing /\ sock # None
  BY ObjectsMean, FrameFacts DEF OneInv, CallInner, Nesting, Making
<1>2. PICK o \in {"sendfile", "recvfile"} : frames' = <<[op |-> o, own |-> {}]>> \o frames
  BY <1>1 DEF CallInner, Frame, Owned
<1>3. pc' = "type" /\ UNCHANGED <<cvars, ctx, sock, kept, made, left>>
  BY DEF CallInner
<1>4. UNCHANGED <<cst, sst, owner, bound, pending, waits>>
  BY <1>3 DEF cvars
<1>5. CtxInv' /\ CtxTypeOK'
  BY <1>3, UserCalls
<1>6. /\ frames' \in Seq(Frames) /\ Len(frames') = 2 /\ Head(frames') = [op |-> o, own |-> {}]
      /\ frames'[2] = frames[1] /\ frames' # <<>>
  <2>1. [op |-> o, own |-> {}] \in Frames
    BY DEF Frames, Ops, Senders
  <2>2. \A f \in Frames : /\ <<f>> \in Seq(Frames) /\ <<f>> \o frames \in Seq(Frames)
                          /\ Len(<<f>> \o frames) = 2
                          /\ (<<f>> \o frames)[1] = f /\ (<<f>> \o frames)[2] = frames[1]
    <3> TAKE f \in Frames
    <3>1. <<f>> \in Seq(Frames) /\ Len(<<f>>) = 1 /\ <<f>>[1] = f
      OBVIOUS
    <3> QED BY <1>1, <3>1, ConcatProperties
  <2>3. frames' \in Seq(Frames) /\ Len(frames') = 2 /\ frames'[1] = [op |-> o, own |-> {}]
        /\ frames'[2] = frames[1]
    BY <1>2, <2>1, <2>2
  <2> QED BY <2>3
<1>7. Outer' = Outer /\ Op' = o /\ Own' = {}
  BY <1>1, <1>6 DEF Outer, Op, Own
<1>8. TypeOK'
  BY <1>1, <1>3, <1>5, <1>6 DEF TypeOK, Frames
<1>9. Objects'
  BY <1>1, <1>3, <1>4, ObjectsKeep DEF Objects, Known
<1>10. Nesting' /\ Whose'
  BY <1>1, <1>3, <1>6, <1>7 DEF Nesting, Whose
<1>11. Making' /\ Disposing' /\ Waiting'
  BY <1>1, <1>3, <1>4, <1>6 DEF Making, Disposing, Waiting, Ending
<1> QED BY <1>5, <1>8, <1>9, <1>10, <1>11, Assemble

(* The user's call closes the socket it has made; the file call inside a   *)
(* directory call has made none.                                           *)
LEMMA CloseSocketStep ==
  ASSUME OneInv, waits = None, CloseSocket
  PROVE  OneInv'
<1> USE Names
<1>1. /\ pc = "close" /\ frames # <<>> /\ Len(frames) \in {1, 2} /\ sock \in Socks
      /\ Objects /\ Nesting /\ Whose /\ Making /\ Disposing
  BY ObjectsMean, FrameFacts DEF OneInv, CloseSocket, Making
<1>2. pc' = "destroy" /\ UNCHANGED <<frames, ctx, sock, kept, made, left>>
  BY DEF CloseSocket, Goto
<1>3. CASE "socket" \in Own
  <2>1. Len(frames) = 1 /\ sock \in made /\ sock \notin kept
    BY <1>1, <1>3, FrameFacts, WhoseAre
  <2>2. sst[sock] = "open" /\ cst[ctx] = "live" /\ owner[sock] = ctx /\ Close(sock)
    BY <1>1, <1>3, <2>1 DEF Disposing, Ending, CloseSocket
  <2>3. /\ sst'[sock] = "closed" /\ (\A t \in Socks : t # sock => sst'[t] = sst[t])
        /\ UNCHANGED <<cst, owner, bound, pending, waits>>
    BY <1>1, <2>2, CloseOpen
  <2>4. CtxInv' /\ CtxTypeOK'
    BY <1>1, <2>2, UserCalls
  <2>5. TypeOK'
    BY <1>1, <1>2, <2>4, FrameFacts DEF TypeOK
  <2>6. Objects'
    <3>1. \A s \in Socks : /\ s \in kept' => sst'[s] = sst[s]
                           /\ sst[s] # "none" => sst'[s] # "none"
                           /\ sst[s] \notin {"none", "open"} => sst'[s] # "open"
                           /\ sst[s] = "freed" => sst'[s] = "freed"
      BY <1>2, <2>1, <2>2, <2>3
    <3> QED BY <1>1, <1>2, <2>3, <3>1, ObjectsKeep DEF Objects, Known
  <2>7. Outer' = Outer /\ Own' = Own /\ Op' = Op
    BY <1>2 DEF Outer, Own, Op
  <2>8. Nesting' /\ Whose'
    <3>1. Whose'
      BY <1>1, <1>2, <2>7 DEF Whose
    <3> QED BY <1>1, <1>2, <2>7, <3>1 DEF Nesting
  <2>9. Making' /\ Disposing' /\ Waiting'
    BY <1>1, <1>2, <2>1, <2>2, <2>3 DEF Making, Disposing, Waiting, Ending
  <2> QED BY <2>4, <2>5, <2>6, <2>8, <2>9, Assemble
<1>4. CASE "socket" \notin Own
  <2>1. Len(frames) = 1 => sock \notin made
    BY <1>1, <1>4, FrameFacts, WhoseAre
  <2>2. Len(frames) = 1 => ctx \notin made
    BY <1>1, <1>4, <2>1, FrameFacts DEF Whose
  <2>3. UNCHANGED cvars /\ UNCHANGED <<cst, sst, owner, bound, pending, waits>>
    BY <1>4 DEF CloseSocket, cvars
  <2>4. CtxInv' /\ CtxTypeOK'
    BY <2>3, UserCalls
  <2>5. TypeOK'
    BY <1>1, <1>2, <2>4, FrameFacts DEF TypeOK
  <2>6. Objects'
    BY <1>1, <1>2, <2>3, ObjectsKeep DEF Objects, Known
  <2>7. Outer' = Outer /\ Own' = Own /\ Op' = Op
    BY <1>2 DEF Outer, Own, Op
  <2>8. Nesting' /\ Whose'
    <3>1. Whose'
      BY <1>1, <1>2, <2>7 DEF Whose
    <3> QED BY <1>1, <1>2, <2>7, <3>1 DEF Nesting
  <2>9. Making' /\ Disposing' /\ Waiting'
    BY <1>1, <1>2, <2>1, <2>2, <2>3 DEF Making, Disposing, Waiting, Ending
  <2> QED BY <2>4, <2>5, <2>6, <2>8, <2>9, Assemble
<1> QED BY <1>3, <1>4

(* Then it destroys the context it has made, and waits for its sockets.    *)
LEMMA DestroyCtxStep ==
  ASSUME OneInv, waits = None, DestroyCtx
  PROVE  OneInv'
<1> USE Names
<1>1. /\ pc = "destroy" /\ frames # <<>> /\ Len(frames) \in {1, 2} /\ sock \in Socks
      /\ Objects /\ Nesting /\ Whose /\ Making /\ Disposing
  BY ObjectsMean, FrameFacts DEF OneInv, DestroyCtx, Making
<1>2. pc' = "return" /\ UNCHANGED <<frames, ctx, sock, kept, made, left>>
  BY DEF DestroyCtx, Goto
<1>3. CASE "ctx" \in Own
  <2>1. Len(frames) = 1 /\ ctx \in made /\ ctx \notin kept
    BY <1>1, <1>3, FrameFacts, WhoseAre
  <2>2. sock \in made /\ owner[sock] = ctx /\ sst[sock] # "open" /\ ctx \in Ctxs
    BY <1>1, <2>1, WhoseAre, FrameFacts DEF Whose, Disposing, Ending
  <2>3. cst[ctx] = "live" /\ Started(ctx) /\ Destroy(ctx)
    BY <1>1, <1>3, <2>1, <2>2 DEF Disposing, Ending, Started, DestroyCtx
  <2>4. /\ cst'[ctx] \in {"terminating", "freed"} /\ (\A d \in Ctxs : d # ctx => cst'[d] = cst[d])
        /\ UNCHANGED <<sst, owner, bound, pending>> /\ waits' = ctx
    BY <2>2, <2>3, DestroyLive
  <2>5. CtxInv' /\ CtxTypeOK'
    BY <2>2, <2>3, UserCalls
  <2>6. TypeOK'
    BY <1>1, <1>2, <2>5, FrameFacts DEF TypeOK
  <2>7. Objects'
    <3>1. \A c \in Ctxs : /\ c \in kept' => cst'[c] = cst[c]
                          /\ cst[c] # "none" => cst'[c] # "none"
                          /\ cst[c] = "freed" => cst'[c] = "freed"
      BY <1>2, <2>1, <2>3, <2>4
    <3> QED BY <1>1, <1>2, <2>4, <3>1, ObjectsKeep DEF Objects, Known
  <2>8. Outer' = Outer /\ Own' = Own /\ Op' = Op
    BY <1>2 DEF Outer, Own, Op
  <2>9. Nesting' /\ Whose'
    <3>1. Whose'
      BY <1>1, <1>2, <2>8 DEF Whose
    <3> QED BY <1>1, <1>2, <2>8, <3>1 DEF Nesting
  <2>10. Making' /\ Disposing' /\ Waiting'
    BY <1>1, <1>2, <2>1, <2>2, <2>4 DEF Making, Disposing, Waiting, Ending
  <2> QED BY <2>5, <2>6, <2>7, <2>9, <2>10, Assemble
<1>4. CASE "ctx" \notin Own
  <2>1. Len(frames) = 1 => ctx \notin made
    BY <1>1, <1>4, FrameFacts, WhoseAre
  <2>2. UNCHANGED cvars /\ UNCHANGED <<cst, sst, owner, bound, pending, waits>>
    BY <1>4 DEF DestroyCtx, cvars
  <2>3. CtxInv' /\ CtxTypeOK'
    BY <2>2, UserCalls
  <2>4. TypeOK'
    BY <1>1, <1>2, <2>3, FrameFacts DEF TypeOK
  <2>5. Objects'
    BY <1>1, <1>2, <2>2, ObjectsKeep DEF Objects, Known
  <2>6. Outer' = Outer /\ Own' = Own /\ Op' = Op
    BY <1>2 DEF Outer, Own, Op
  <2>7. Nesting' /\ Whose'
    <3>1. Whose'
      BY <1>1, <1>2, <2>6 DEF Whose
    <3> QED BY <1>1, <1>2, <2>6, <3>1 DEF Nesting
  <2>8. Making' /\ Disposing' /\ Waiting'
    BY <1>1, <1>2, <2>1, <2>2 DEF Making, Disposing, Waiting, Ending
  <2> QED BY <2>3, <2>4, <2>5, <2>7, <2>8, Assemble
<1> QED BY <1>3, <1>4

(* A call returns: what it had made is gone, unless a signal cut it short. *)
LEMMA ReturnStep ==
  ASSUME OneInv, waits = None, Return
  PROVE  OneInv'
<1> USE Names
<1>1. /\ pc = "return" /\ frames # <<>> /\ Len(frames) \in {1, 2} /\ sock \in Socks
      /\ frames \in Seq(Frames)
      /\ Objects /\ Nesting /\ Whose /\ Making /\ Disposing
  BY ObjectsMean, FrameFacts DEF OneInv, Return, Making
<1>2. UNCHANGED cvars /\ UNCHANGED <<cst, sst, owner, bound, pending, waits, kept, made, left>>
  BY DEF Return, cvars
<1>3. CtxInv' /\ CtxTypeOK'
  BY <1>2, UserCalls
<1>4. CASE Len(frames) = 2
  <2>1. /\ frames' = <<Outer>> /\ Outer \in Frames /\ pc' = "close" /\ UNCHANGED <<ctx, sock>>
    BY <1>1, <1>4, FrameFacts DEF Return
  <2>2. /\ frames' \in Seq(Frames) /\ Len(frames') = 1 /\ frames' # <<>> /\ Outer' = Outer
    BY <2>1 DEF Outer
  <2>3. TypeOK'
    BY <1>2, <1>3, <2>1, <2>2 DEF TypeOK, Frames
  <2>4. Objects'
    BY <1>1, <1>2, <2>1, ObjectsKeep DEF Objects, Known
  <2>5. Nesting' /\ Whose'
    <3>1. Whose'
      BY <1>1, <1>2, <2>1, <2>2 DEF Whose
    <3> QED BY <2>1, <2>2, <3>1 DEF Nesting
  <2>6. Making' /\ Disposing' /\ Waiting'
    BY <1>1, <1>2, <1>4, <2>1, <2>2 DEF Making, Disposing, Waiting, Ending
  <2> QED BY <1>3, <2>3, <2>4, <2>5, <2>6, Assemble
<1>5. CASE Len(frames) = 1
  <2>1. /\ frames' = <<>> /\ pc' = "user" /\ ctx' = None /\ sock' = None
    BY <1>1, <1>5, FrameFacts DEF Return
  <2>2. TypeOK'
    BY <1>2, <1>3, <2>1 DEF TypeOK
  <2>3. ctx \in made \ left => cst[ctx] = "freed"
    <3>1. ctx \in made => cst[ctx] = "freed" \/ {ctx, sock} \subseteq left
      BY <1>1, <1>5 DEF Disposing, Ending
    <3> QED BY <3>1
  <2>4. ASSUME sock \in made \ left PROVE Gone(sock)
    <3>1. /\ sst[sock] # "open" /\ owner[sock] = ctx
          /\ ctx \in made => cst[ctx] = "freed"
      BY <1>1, <1>5, <2>4 DEF Disposing, Ending
    <3>2. ctx \in Ctxs /\ cst[ctx] = "freed" =>
             sst[sock] = "freed" /\ bound[sock] = None /\ sock \notin pending
      BY <1>1, <3>1, CtxInvMeans DEF OneInv, FreedLast
    <3> QED BY <3>1, <3>2 DEF Gone
  <2>5. Objects'
    <3>1. \A o \in made \ left : Gone(o)
      BY <1>1, <2>3, <2>4 DEF Objects, Gone
    <3> QED BY <1>1, <1>2, <3>1 DEF Objects, Usable, Gone, Known
  <2> QED BY <1>2, <1>3, <2>1, <2>2, <2>5, AtRest, Assemble
<1> QED BY <1>1, <1>4, <1>5

(* A signal ends the wait for the context's last socket.                   *)
LEMMA InterruptedStep ==
  ASSUME OneInv, Interrupted
  PROVE  OneInv'
<1> USE Names
<1>1. /\ Objects /\ Nesting /\ Whose /\ Making /\ Disposing /\ Waiting
  BY ObjectsMean DEF OneInv
<1>2. /\ UNCHANGED <<cst, sst, owner, bound, pending>> /\ waits # None /\ waits' = None
      /\ left' = left \cup ({ctx, sock} \cap made)
      /\ UNCHANGED <<frames, pc, ctx, sock, kept, made>>
  BY DEF Interrupted, TermInterrupted, Mine
<1>3. CtxInv' /\ CtxTypeOK'
  <2>1. [CtxNext]_cvars
    BY DEF Interrupted, CtxNext
  <2> QED BY <2>1, CtxInvStep DEF OneInv, CtxInv
<1>4. TypeOK'
  BY <1>2, <1>3 DEF TypeOK
<1>5. Objects'
  BY <1>1, <1>2, ObjectsKeep DEF Objects, Known
<1>6. Outer' = Outer /\ Own' = Own /\ Op' = Op
  BY <1>2 DEF Outer, Own, Op
<1>7. Nesting' /\ Whose'
  <2>1. Whose'
    BY <1>1, <1>2, <1>6 DEF Whose
  <2> QED BY <1>1, <1>2, <1>6, <2>1 DEF Nesting
<1>8. HasFresh(Ctxs, cst)' = HasFresh(Ctxs, cst) /\ HasFresh(Socks, sst)' = HasFresh(Socks, sst)
  BY <1>2 DEF HasFresh
<1>9. ctx \in made /\ Ending /\ pc = "return" => {ctx, sock} \subseteq left'
  <2>1. ctx \in made /\ Ending /\ pc = "return" => frames # <<>>
    BY FrameFacts DEF Ending
  <2>2. ctx \in made /\ Ending /\ pc = "return" => sock \in made
    BY <1>1, <2>1 DEF Whose, Making
  <2> QED BY <1>2, <2>2
<1>10. Making' /\ Disposing' /\ Waiting'
  BY <1>1, <1>2, <1>8, <1>9 DEF Making, Disposing, Waiting, Ending
<1> QED BY <1>3, <1>4, <1>5, <1>7, <1>10, Assemble

(* The threads of libzmq take a step.                                      *)
LEMMA LibraryStep ==
  ASSUME OneInv, Library, UNCHANGED ovars
  PROVE  OneInv'
<1> USE Names
<1>1. /\ Objects /\ Nesting /\ Whose /\ Making /\ Disposing /\ Waiting /\ CtxInv
  BY ObjectsMean DEF OneInv
<1>2. UNCHANGED <<frames, pc, ctx, sock, kept, made, left>>
  BY DEF ovars
<1>3. CtxInv' /\ CtxTypeOK'
  <2>1. [CtxNext]_cvars
    BY DEF CtxNext
  <2> QED BY <2>1, CtxInvStep DEF OneInv, CtxInv
<1>4. /\ owner' = owner /\ pending' \subseteq pending
      /\ \A s \in Socks : /\ (sst'[s] = "open") <=> (sst[s] = "open")
                          /\ sst[s] = "freed" => sst'[s] = "freed"
                          /\ bound'[s] \in {bound[s], None}
                          /\ sst'[s] = "none" <=> sst[s] = "none"
      /\ \A c \in Ctxs : \/ cst'[c] = cst[c]
                         \/ cst[c] \in {"terminating", "freed"} /\ cst'[c] = "freed"
      /\ waits' = waits \/ (waits' = None /\ cst'[waits] = "freed")
  <2>1. \A s \in Socks : (sst[s] = "none" <=> owner[s] = None) /\ (sst'[s] = "none" <=> owner'[s] = None)
    BY <1>3 DEF CtxTypeOK
  <2>2. /\ owner' = owner /\ pending' \subseteq pending
        /\ \A s \in Socks : /\ (sst'[s] = "open") <=> (sst[s] = "open")
                            /\ sst[s] = "freed" => sst'[s] = "freed"
                            /\ bound'[s] \in {bound[s], None}
        /\ \A c \in Ctxs : \/ cst'[c] = cst[c]
                           \/ cst[c] \in {"terminating", "freed"} /\ cst'[c] = "freed"
        /\ waits' = waits \/ (waits' = None /\ cst'[waits] = "freed")
    BY <1>1, LibraryKeeps
  <2>3. \A s \in Socks : sst'[s] = "none" <=> sst[s] = "none"
    BY <2>1, <2>2
  <2> QED BY <2>2, <2>3
<1>5. TypeOK'
  BY <1>2, <1>3 DEF TypeOK
<1>6. Objects'
  <2>1. \A c \in Ctxs : c \in kept' => cst'[c] = cst[c]
    BY <1>1, <1>2, <1>4 DEF Objects, Usable
  <2>2. \A s \in Socks : s \in kept' => sst'[s] = sst[s]
    BY <1>1, <1>2, <1>4 DEF Objects, Usable
  <2> QED BY <1>1, <1>2, <1>4, <2>1, <2>2, ObjectsKeep DEF Objects, Known
<1>7. Outer' = Outer /\ Own' = Own /\ Op' = Op
  BY <1>2 DEF Outer, Own, Op
<1>8. Nesting' /\ Whose'
  <2>1. Whose'
    BY <1>1, <1>2, <1>7 DEF Whose
  <2> QED BY <1>1, <1>2, <1>7, <2>1 DEF Nesting
<1>9. (HasFresh(Ctxs, cst) => HasFresh(Ctxs, cst)') /\ (HasFresh(Socks, sst) => HasFresh(Socks, sst)')
  BY <1>4 DEF HasFresh
<1>10. Making'
  BY <1>1, <1>2, <1>9 DEF Making
<1>11. Disposing' /\ Waiting'
  <2>1. sock \in made => sock \in Socks /\ ctx \in Ctxs
    <3>1. sock \in made => sst[sock] # "none" /\ sock \in Socks /\ owner[sock] = ctx
      BY <1>1 DEF Known, Objects, Disposing
    <3> QED BY <1>1, <3>1, KnownSocket
  <2>2. ctx \in made => ctx \in Ctxs
    OBVIOUS
  <2>3. Disposing'
    BY <1>1, <1>2, <1>4, <2>1, <2>2 DEF Disposing, Ending
  <2> QED BY <1>1, <1>2, <1>4, <2>3 DEF Waiting, Ending
<1> QED BY <1>3, <1>5, <1>6, <1>8, <1>10, <1>11, Assemble

-----------------------------------------------------------------------------
(* The calls as a whole.                                                   *)

LEMMA OneInvInit == Init => OneInv
<1> SUFFICES ASSUME Init PROVE OneInv
  OBVIOUS
<1>1. /\ CtxInit /\ frames = <<>> /\ pc = "user" /\ ctx = None /\ sock = None
      /\ kept = {} /\ made = {} /\ left = {} /\ waits = None
  BY DEF Init, CtxInit
<1>2. CtxInv
  BY <1>1, CtxInvInit
<1>3. TypeOK
  BY <1>1, <1>2 DEF TypeOK, CtxInv
<1>4. CallerKeeps /\ LeavesNothing /\ Known
  BY <1>1, <1>3 DEF CallerKeeps, LeavesNothing, Known
<1>5. Nesting /\ Whose /\ Making /\ Disposing /\ Waiting
  <2>1. Len(frames) = 0
    BY <1>1
  <2> QED BY <1>1, <2>1 DEF Nesting, Whose, Making, Disposing, Waiting, Ending
<1> QED BY <1>2, <1>4, <1>5 DEF OneInv

LEMMA OneInvStep ==
  ASSUME OneInv, [Next]_vars
  PROVE  OneInv'
<1>1. CASE waits = None /\ UserActs
  <2>1. pc = "user"
    BY <1>1 DEF UserActs
  <2>2. CASE UserMakes
    BY <1>1, <2>1, <2>2, UserMakesStep
  <2>3. CASE UserCloses
    BY <1>1, <2>1, <2>3, UserClosesStep
  <2>4. CASE \E o \in Ops, c \in (kept \cap Ctxs) \cup {None},
                s \in (kept \cap Socks) \cup {None} : Call(o, c, s)
    BY <1>1, <2>1, <2>4, CallStep
  <2> QED BY <1>1, <2>2, <2>3, <2>4 DEF UserActs
<1>2. CASE waits = None /\ Step
  BY <1>2, CreateCtxStep, CreateSocketStep, MiddleStep, CallInnerStep, CloseSocketStep,
     DestroyCtxStep, ReturnStep DEF Step, Proceed
<1>3. CASE Interrupted
  BY <1>3, InterruptedStep
<1>4. CASE Library /\ UNCHANGED ovars
  BY <1>4, LibraryStep
<1>5. CASE UNCHANGED vars
  <2>1. /\ UNCHANGED cvars /\ UNCHANGED <<frames, pc, ctx, sock, kept, made, left>>
        /\ UNCHANGED <<cst, sst, owner, bound, pending, mbox, rcount, rstop, done, waits, signals,
                       misuse>>
    BY <1>5 DEF vars, ovars, cvars
  <2>2. CtxInv'
    BY <2>1, CtxInvStep DEF OneInv
  <2>3. CallerKeeps' /\ LeavesNothing' /\ Known'
    <3>1. TypeOK'
      BY <2>1, <2>2 DEF OneInv, CallerKeeps, TypeOK, CtxInv
    <3> QED BY <2>1, <3>1 DEF OneInv, CallerKeeps, LeavesNothing, Known
  <2>4. Nesting' /\ Whose'
    BY <2>1 DEF OneInv, Nesting, Whose, Outer, Own, Op
  <2>5. Making' /\ Disposing' /\ Waiting'
    BY <2>1 DEF OneInv, Making, Disposing, Waiting, Ending, HasFresh
  <2> QED BY <2>2, <2>3, <2>4, <2>5 DEF OneInv
<1> QED BY <1>1, <1>2, <1>3, <1>4, <1>5 DEF Next

LEMMA OneInvAlways == Spec => []OneInv
<1>1. Init => OneInv
  BY OneInvInit
<1>2. OneInv /\ [Next]_vars => OneInv'
  BY OneInvStep
<1> QED BY <1>1, <1>2, PTL DEF Spec

(* The user's contexts and sockets stay usable, whichever calls are made   *)
(* with them and however they end (zmq.sendfile(), zmq.recvfile(),         *)
(* zmq.senddir(), zmq.recvdir()).                                          *)
THEOREM CallersKeepTheirs == Spec => []CallerKeeps
<1>1. OneInv => CallerKeeps
  BY DEF OneInv
<1> QED BY <1>1, OneInvAlways, PTL

(* A call that returns without an error has disposed of what it has made:  *)
(* its socket is closed, its context freed, its port and messages are gone. *)
THEOREM CallsLeaveNothing == Spec => []LeavesNothing
<1>1. OneInv => LeavesNothing
  BY DEF OneInv
<1> QED BY <1>1, OneInvAlways, PTL
=============================================================================
