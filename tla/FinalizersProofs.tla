-------------------------- MODULE FinalizersProofs --------------------------
(***************************************************************************)
(* The finalizers of init.context() and init.socket(), for any objects:    *)
(* in whatever order the garbage collector finds them, a socket is closed  *)
(* before its context is destroyed, and what was freed is used only by who *)
(* closes it twice.                                                        *)
(***************************************************************************)
EXTENDS Finalizers, ContextProofs

(* A registered object is in use and so is the context of a registered     *)
(* socket: none of their destructors has run, unless the user has called   *)
(* it by hand.                                                             *)
Live == \A o \in Registered :
          /\ o \notin Plain
          /\ o \in Ctxs => /\ cst[o] # "none"
                           /\ o \notin twice => cst[o] = "live"
          /\ o \in Socks => /\ owner[o] \in Ctxs /\ cst[owner[o]] # "none"
                            /\ o \notin twice => /\ sst[o] = "open"
                                                 /\ cst[owner[o]] = "live"

(* A context is registered before its sockets: newest first.               *)
Nested == \A i, j \in DOMAIN refs :
            refs[i] \in Socks /\ refs[j] = owner[refs[i]] => i < j

(* A context is found unreachable only together with all its sockets.      *)
Together == \A s \in (Registered \cap Socks) \ ready : owner[s] \notin ready

(* What is ready, and what is held, in each mode.                          *)
Modes == /\ mode \in {"user", "ended"} => ready = {}
         /\ mode \in {"user", "finalizing"} =>
              held \cap ready = {} /\ (held \cap Socks) \ Plain \subseteq Registered
         /\ mode = "quitting" => ready = Registered

(* No finalizer is lost: an object without one has not been made yet, is   *)
(* plain, or has been finalized; a context is then freed unless its        *)
(* zmq_ctx_term() is still blocked or was interrupted.                     *)
Finalized ==
  /\ \A s \in Socks \ Plain : sst[s] = "open" => s \in Registered
  /\ \A c \in Ctxs \ Plain :
       cst[c] # "none" /\ c \notin Registered /\ signals = 0
         => cst[c] = "freed" \/ waits = c

FinInv == CtxInv /\ TypeOK /\ Live /\ Nested /\ Together /\ Modes /\ Finalized
          /\ SocketsFirst /\ NoUseAfterFree

-----------------------------------------------------------------------------
(* The list of finalizers.                                                 *)

(* An object registers first in the list.                                  *)
LEMMA PrependRef ==
  ASSUME NEW o, refs \in Seq(Objects), o \in Objects, refs' = <<o>> \o refs
  PROVE  /\ refs' \in Seq(Objects) /\ refs'[1] = o /\ 1 \in DOMAIN refs'
         /\ Registered' = Registered \cup {o}
         /\ \A k \in DOMAIN refs' : \/ k = 1
                                    \/ k > 1 /\ k - 1 \in DOMAIN refs /\ refs'[k] = refs[k - 1]
<1>1. /\ refs' \in Seq(Objects) /\ refs'[1] = o /\ Len(refs') = Len(refs) + 1
      /\ \A k \in 1 .. Len(refs) : refs'[k + 1] = refs[k]
      /\ Len(refs) \in Nat /\ DOMAIN refs = 1 .. Len(refs) /\ DOMAIN refs' = 1 .. Len(refs')
  OBVIOUS
<1>2. \A k \in DOMAIN refs' : \/ k = 1
                              \/ k > 1 /\ k - 1 \in DOMAIN refs /\ refs'[k] = refs[k - 1]
  <2> TAKE k \in DOMAIN refs'
  <2>1. k # 1 => k > 1 /\ k - 1 \in 1 .. Len(refs) /\ (k - 1) + 1 = k
    BY <1>1
  <2> QED BY <1>1, <2>1
<1>3. 1 \in DOMAIN refs' /\ \A k \in DOMAIN refs : k + 1 \in DOMAIN refs'
  BY <1>1
<1>4. Registered' = Registered \cup {o}
  <2>1. \A k \in DOMAIN refs : refs[k] \in Registered'
    BY <1>1, <1>3 DEF Registered
  <2>2. o \in Registered'
    BY <1>1, <1>3 DEF Registered
  <2>3. \A k \in DOMAIN refs' : refs'[k] \in Registered \cup {o}
    BY <1>1, <1>2 DEF Registered
  <2> QED BY <2>1, <2>2, <2>3 DEF Registered
<1> QED BY <1>1, <1>2, <1>3, <1>4

(* An entry leaves a list.                                                 *)
LEMMA RemoveAtProperties ==
  ASSUME NEW S, NEW s \in Seq(S), NEW i \in 1 .. Len(s)
  PROVE  /\ RemoveAt(s, i) \in Seq(S) /\ Len(RemoveAt(s, i)) = Len(s) - 1
         /\ \A k \in 1 .. Len(s) - 1 :
              RemoveAt(s, i)[k] = IF k < i THEN s[k] ELSE s[k + 1]
<1>1. Len(s) \in Nat /\ i \in Nat /\ 1 <= i /\ i <= Len(s) /\ \A k \in 1 .. Len(s) : s[k] \in S
  OBVIOUS
<1>2. /\ SubSeq(s, 1, i - 1) \in Seq(S) /\ Len(SubSeq(s, 1, i - 1)) = i - 1
      /\ \A k \in 1 .. i - 1 : SubSeq(s, 1, i - 1)[k] = s[k]
  BY <1>1, SubSeqProperties
<1>3. /\ SubSeq(s, i + 1, Len(s)) \in Seq(S) /\ Len(SubSeq(s, i + 1, Len(s))) = Len(s) - i
      /\ \A k \in 1 .. Len(s) - i : SubSeq(s, i + 1, Len(s))[k] = s[i + k]
  BY <1>1, SubSeqProperties
<1>4. ASSUME NEW before \in Seq(S), NEW after \in Seq(S),
             Len(before) = i - 1, \A k \in 1 .. i - 1 : before[k] = s[k],
             Len(after) = Len(s) - i, \A k \in 1 .. Len(s) - i : after[k] = s[i + k]
      PROVE  /\ before \o after \in Seq(S) /\ Len(before \o after) = Len(s) - 1
             /\ \A k \in 1 .. Len(s) - 1 :
                  (before \o after)[k] = IF k < i THEN s[k] ELSE s[k + 1]
  <2>1. /\ before \o after \in Seq(S)
        /\ Len(before \o after) = Len(before) + Len(after)
        /\ \A k \in 1 .. Len(before) + Len(after) :
               (before \o after)[k] = IF k <= Len(before) THEN before[k]
                                                         ELSE after[k - Len(before)]
    BY ConcatProperties
  <2>2. Len(before) + Len(after) = Len(s) - 1
    BY <1>1, <1>4
  <2>3. ASSUME NEW k \in 1 .. Len(s) - 1
        PROVE  (before \o after)[k] = IF k < i THEN s[k] ELSE s[k + 1]
    <3>1. (before \o after)[k] = IF k <= i - 1 THEN before[k] ELSE after[k - (i - 1)]
      BY <1>4, <2>1, <2>2
    <3>2. CASE k < i
      <4>1. k <= i - 1 /\ k \in 1 .. i - 1
        BY <1>1, <3>2
      <4> QED BY <1>4, <3>1, <3>2, <4>1
    <3>3. CASE ~(k < i)
      <4>1. ~(k <= i - 1) /\ k - (i - 1) \in 1 .. Len(s) - i /\ i + (k - (i - 1)) = k + 1
        BY <1>1, <3>3
      <4> QED BY <1>4, <3>1, <3>3, <4>1
    <3> QED BY <3>2, <3>3
  <2> QED BY <2>1, <2>2, <2>3
<1>5. RemoveAt(s, i) = SubSeq(s, 1, i - 1) \o SubSeq(s, i + 1, Len(s))
  BY DEF RemoveAt
<1> DEFINE x == SubSeq(s, 1, i - 1)
           y == SubSeq(s, i + 1, Len(s))
<1> HIDE DEF x, y
<1>6. /\ x \o y \in Seq(S) /\ Len(x \o y) = Len(s) - 1
      /\ \A k \in 1 .. Len(s) - 1 : (x \o y)[k] = IF k < i THEN s[k] ELSE s[k + 1]
  <2>1. /\ x \in Seq(S) /\ Len(x) = i - 1 /\ \A k \in 1 .. i - 1 : x[k] = s[k]
    BY <1>2 DEF x
  <2>2. /\ y \in Seq(S) /\ Len(y) = Len(s) - i /\ \A k \in 1 .. Len(s) - i : y[k] = s[i + k]
    BY <1>3 DEF y
  <2> QED BY <1>4, <2>1, <2>2
<1>7. RemoveAt(s, i) = x \o y
  BY <1>5 DEF x, y
<1> QED BY <1>6, <1>7

(* A finalizer is taken from the list to be run.                           *)
LEMMA RemoveRef ==
  ASSUME refs \in Seq(Objects), NEW i \in DOMAIN refs, refs' = RemoveAt(refs, i),
         \A j, k \in DOMAIN refs : refs[j] = refs[k] => j = k
  PROVE  /\ refs' \in Seq(Objects) /\ Registered' = Registered \ {refs[i]}
         /\ \A k \in DOMAIN refs' : /\ k < i => k \in DOMAIN refs /\ refs'[k] = refs[k]
                                    /\ ~(k < i) => k + 1 \in DOMAIN refs /\ refs'[k] = refs[k + 1]
<1>1. /\ DOMAIN refs = 1 .. Len(refs) /\ Len(refs) \in Nat /\ i \in 1 .. Len(refs)
      /\ \A k \in 1 .. Len(refs) : refs[k] \in Objects
  OBVIOUS
<1>5. /\ refs' \in Seq(Objects) /\ Len(refs') = Len(refs) - 1
      /\ DOMAIN refs' = 1 .. Len(refs) - 1
      /\ \A k \in 1 .. Len(refs) - 1 : refs'[k] = IF k < i THEN refs[k] ELSE refs[k + 1]
  <2>1. /\ refs' \in Seq(Objects) /\ Len(refs') = Len(refs) - 1
        /\ \A k \in 1 .. Len(refs) - 1 : refs'[k] = IF k < i THEN refs[k] ELSE refs[k + 1]
    BY <1>1, RemoveAtProperties
  <2>2. DOMAIN refs' = 1 .. Len(refs) - 1
    BY <2>1
  <2> QED BY <2>1, <2>2
<1>6. \A k \in DOMAIN refs' : /\ k < i => k \in DOMAIN refs /\ refs'[k] = refs[k]
                              /\ ~(k < i) => k + 1 \in DOMAIN refs /\ refs'[k] = refs[k + 1]
  <2> TAKE k \in DOMAIN refs'
  <2>1. k < i => k \in 1 .. Len(refs)
    BY <1>1, <1>5
  <2>2. ~(k < i) => k + 1 \in 1 .. Len(refs)
    BY <1>1, <1>5
  <2> QED BY <1>1, <1>5, <2>1, <2>2
<1>7. \A k \in DOMAIN refs : k # i =>
        \E m \in DOMAIN refs' : refs'[m] = refs[k]
  <2> TAKE k \in DOMAIN refs
  <2>1. CASE k < i
    <3>1. k \in DOMAIN refs' /\ refs'[k] = refs[k]
      BY <1>1, <1>5, <1>6, <2>1
    <3> QED BY <3>1
  <2>2. CASE k > i
    <3>1. k - 1 \in DOMAIN refs' /\ ~(k - 1 < i) /\ (k - 1) + 1 = k
      BY <1>1, <1>5, <2>2
    <3>2. refs'[k - 1] = refs[k]
      BY <1>6, <3>1
    <3> QED BY <3>1, <3>2
  <2> QED BY <1>1, <2>1, <2>2
<1>8. \A k \in DOMAIN refs' : refs'[k] # refs[i]
  BY <1>1, <1>5, <1>6
<1>9. Registered' = Registered \ {refs[i]}
  <2>1. \A k \in DOMAIN refs' : refs'[k] \in Registered
    BY <1>6 DEF Registered
  <2> QED BY <1>7, <1>8, <2>1 DEF Registered
<1> QED BY <1>5, <1>6, <1>9

-----------------------------------------------------------------------------
(* Steps.                                                                  *)

(* What the threads of libzmq, or a signal, leave alone.                    *)
LEMMA ThreadsKeep ==
  ASSUME CtxInv, TermInterrupted \/ Library
  PROVE  /\ owner' = owner /\ misuse' = misuse
         /\ \A s \in Socks : (sst'[s] = "open") <=> (sst[s] = "open")
         /\ \A c \in Ctxs : \/ cst'[c] = cst[c]
                            \/ cst[c] \in {"terminating", "freed"} /\ cst'[c] = "freed"
         /\ waits' = waits \/ (waits' = None /\ (signals' = 0 => cst'[waits] = "freed"))
         /\ signals' = 0 => signals = 0
<1>1. CASE TermInterrupted
  <2>1. /\ UNCHANGED <<cst, sst, owner, misuse>> /\ waits' = None
        /\ signals' = signals + 1 /\ signals \in Nat
    BY <1>1, SignalAssumption DEF TermInterrupted, CtxInv, CtxTypeOK
  <2> QED BY <2>1
<1>2. CASE Library
  BY <1>2, LibraryKeeps
<1> QED BY <1>1, <1>2

(* The threads of libzmq take a step.                                      *)
LEMMA ThreadStep ==
  ASSUME FinInv, TermInterrupted \/ Library, UNCHANGED rvars
  PROVE  FinInv'
<1>1. /\ CtxInv /\ TypeOK /\ Live /\ Nested /\ Together /\ Modes /\ Finalized
      /\ SocketsFirst /\ NoUseAfterFree
  BY DEF FinInv
<1>2. CtxInv'
  <2>1. [CtxNext]_cvars
    BY DEF CtxNext
  <2> QED BY <1>1, <2>1, CtxInvStep
<1>3. /\ held' = held /\ refs' = refs /\ ready' = ready /\ mode' = mode
      /\ twice' = twice /\ Registered' = Registered
  BY DEF rvars, Registered
<1>4. /\ owner' = owner /\ misuse' = misuse
      /\ \A s \in Socks : (sst'[s] = "open") <=> (sst[s] = "open")
      /\ \A c \in Ctxs : \/ cst'[c] = cst[c]
                         \/ cst[c] \in {"terminating", "freed"} /\ cst'[c] = "freed"
      /\ waits' = waits \/ (waits' = None /\ (signals' = 0 => cst'[waits] = "freed"))
      /\ signals' = 0 => signals = 0
  BY <1>1, ThreadsKeep
<1>5. TypeOK'
  BY <1>1, <1>2, <1>3 DEF TypeOK, CtxInv, Objects
<1>6. Live'
  <2>1. \A c \in Ctxs : /\ cst[c] # "none" => cst'[c] # "none"
                        /\ cst[c] = "live" => cst'[c] = "live"
    BY <1>4
  <2> QED BY <1>1, <1>3, <1>4, <2>1 DEF Live
<1>7. Nested' /\ Together' /\ Modes'
  BY <1>1, <1>3, <1>4 DEF Nested, Together, Modes
<1>8. Finalized'
  <2>1. ASSUME NEW s \in Socks \ Plain, sst'[s] = "open" PROVE s \in Registered'
    BY <1>1, <1>3, <1>4, <2>1 DEF Finalized
  <2>2. ASSUME NEW c \in Ctxs \ Plain, cst'[c] # "none", c \notin Registered', signals' = 0
        PROVE  cst'[c] = "freed" \/ waits' = c
    <3>1. cst[c] # "none" /\ c \notin Registered /\ signals = 0
      BY <1>3, <1>4, <2>2
    <3>2. cst[c] = "freed" \/ waits = c
      BY <1>1, <3>1 DEF Finalized
    <3> QED BY <1>4, <2>2, <3>2
  <2> QED BY <2>1, <2>2 DEF Finalized
<1>9. SocketsFirst'
  <2>1. waits' # None => waits' = waits
    BY <1>4
  <2>2. ASSUME waits' # None, NEW s \in Socks, owner'[s] = waits', sst'[s] = "open"
        PROVE  s \in Plain
    <3>1. s \in SocketsOf(waits) /\ waits # None /\ sst[s] = "open"
      BY <1>4, <2>1, <2>2 DEF SocketsOf
    <3> QED BY <1>1, <3>1 DEF SocketsFirst
  <2> QED BY <2>2 DEF SocketsFirst, SocketsOf
<1>10. NoUseAfterFree'
  BY <1>1, <1>3, <1>4 DEF NoUseAfterFree
<1> QED BY <1>2, <1>5, <1>6, <1>7, <1>8, <1>9, <1>10 DEF FinInv

(* A new object registers: its own context, if any, has done so before.    *)
LEMMA RegisterFirst ==
  ASSUME NEW o \in Objects, TypeOK, Nested, o \notin Registered, refs' = <<o>> \o refs,
         \A s \in Registered \cap Socks : owner'[s] = owner[s] /\ owner[s] # o,
         o \in Socks => owner'[o] # o
  PROVE  /\ refs' \in Seq(Objects) /\ Registered' = Registered \cup {o} /\ Nested'
         /\ \A j, k \in DOMAIN refs' : refs'[j] = refs'[k] => j = k
<1>1. /\ refs \in Seq(Objects) /\ \A j, k \in DOMAIN refs : refs[j] = refs[k] => j = k
      /\ \A k \in DOMAIN refs : refs[k] \in Registered
  BY DEF TypeOK, Registered
<1>2. /\ refs' \in Seq(Objects) /\ refs'[1] = o /\ 1 \in DOMAIN refs'
      /\ Registered' = Registered \cup {o}
      /\ \A k \in DOMAIN refs' : \/ k = 1
                                 \/ k > 1 /\ k - 1 \in DOMAIN refs /\ refs'[k] = refs[k - 1]
  BY <1>1, PrependRef
<1>3. DOMAIN refs' \subseteq Nat
  BY <1>2
<1>4. ASSUME NEW j \in DOMAIN refs', NEW k \in DOMAIN refs', refs'[j] = refs'[k] PROVE j = k
  <2>1. CASE j = 1 \/ k = 1
    BY <1>1, <1>2, <1>4, <2>1
  <2>2. CASE j # 1 /\ k # 1
    <3>1. j - 1 = k - 1
      BY <1>1, <1>2, <1>4, <2>2
    <3> QED BY <1>3, <3>1
  <2> QED BY <2>1, <2>2
<1>5. ASSUME NEW j \in DOMAIN refs', NEW k \in DOMAIN refs',
             refs'[j] \in Socks, refs'[k] = owner'[refs'[j]]
      PROVE  j < k
  <2>1. CASE j = 1
    <3>1. k # 1
      BY <1>2, <1>5, <2>1
    <3> QED BY <1>2, <2>1, <3>1
  <2>2. CASE j # 1
    <3>1. /\ j - 1 \in DOMAIN refs /\ refs'[j] = refs[j - 1] /\ refs[j - 1] \in Registered
      BY <1>1, <1>2, <2>2
    <3>2. refs'[k] = owner[refs[j - 1]] /\ refs'[k] # o
      BY <1>5, <3>1
    <3>3. k # 1 /\ k - 1 \in DOMAIN refs /\ refs'[k] = refs[k - 1]
      BY <1>2, <3>2
    <3>4. j - 1 < k - 1
      BY <1>5, <3>1, <3>2, <3>3 DEF Nested
    <3> QED BY <1>3, <3>4
  <2> QED BY <2>1, <2>2
<1> QED BY <1>2, <1>4, <1>5 DEF Nested

(* A new object in the user's hands, with the finalizer that is due to it. *)
LEMMA RegisterOrNot ==
  ASSUME NEW o \in Objects, TypeOK, Nested, o \notin Registered,
         refs' = IF o \in Plain THEN refs ELSE <<o>> \o refs,
         \A s \in Registered \cap Socks : owner'[s] = owner[s] /\ owner[s] # o,
         o \in Socks => owner'[o] # o
  PROVE  /\ refs' \in Seq(Objects) /\ Nested'
         /\ Registered' = Registered \cup ({o} \ Plain)
         /\ \A j, k \in DOMAIN refs' : refs'[j] = refs'[k] => j = k
<1>1. CASE o \in Plain
  <2>1. refs' = refs /\ Registered' = Registered
    BY <1>1 DEF Registered
  <2>2. \A k \in DOMAIN refs : refs[k] \in Registered
    BY DEF Registered
  <2>3. Nested'
    BY <2>1, <2>2 DEF Nested
  <2> QED BY <1>1, <2>1, <2>3 DEF TypeOK
<1>2. CASE o \notin Plain
  <2>1. refs' = <<o>> \o refs
    BY <1>2
  <2>2. /\ refs' \in Seq(Objects) /\ Registered' = Registered \cup {o} /\ Nested'
        /\ \A j, k \in DOMAIN refs' : refs'[j] = refs'[k] => j = k
    BY <2>1, RegisterFirst
  <2> QED BY <1>2, <2>2
<1> QED BY <1>1, <1>2

(* init.context() and zmq.ctx.new()                                        *)
LEMMA InitContextStep ==
  ASSUME FinInv, CtxInv', mode = "user", NEW c \in Ctxs, InitContext(c)
  PROVE  FinInv'
<1>1. /\ CtxInv /\ TypeOK /\ Live /\ Nested /\ Together /\ Modes /\ Finalized
      /\ SocketsFirst /\ NoUseAfterFree
  BY DEF FinInv
<1>2. /\ cst[c] = "none" /\ cst' = [cst EXCEPT ![c] = "live"] /\ held' = held \cup {c}
      /\ refs' = IF c \in Plain THEN refs ELSE <<c>> \o refs
      /\ UNCHANGED <<sst, owner, waits, signals, misuse, ready, mode, twice>>
  BY DEF InitContext, CtxNew
<1>3. cst'[c] = "live" /\ \A d \in Ctxs : d # c => cst'[d] = cst[d]
  BY <1>1, <1>2 DEF CtxInv, CtxTypeOK
<1>4. c \notin Registered /\ \A s \in Registered \cap Socks : owner[s] # c /\ owner[s] \in Ctxs
  BY <1>1, <1>2 DEF Live
<1>5. c \in Objects /\ c \notin Socks
  BY ObjectsAssumption DEF Objects
<1>6. /\ refs' \in Seq(Objects) /\ Nested'
      /\ Registered' = Registered \cup ({c} \ Plain)
      /\ \A j, k \in DOMAIN refs' : refs'[j] = refs'[k] => j = k
  BY <1>1, <1>2, <1>4, <1>5, RegisterOrNot
<1>7. ready = {}
  BY <1>1 DEF Modes
<1>8. TypeOK'
  <2>1. /\ held' \subseteq Objects /\ ready' \subseteq Registered'
        /\ twice' \subseteq Objects
    BY <1>1, <1>2, <1>5, <1>7 DEF TypeOK
  <2>2. CtxTypeOK' /\ mode' \in {"user", "finalizing", "quitting", "ended"}
    BY <1>1, <1>2 DEF TypeOK, CtxInv
  <2> QED BY <1>6, <2>1, <2>2 DEF TypeOK, Objects
<1>9. Live'
  <2> SUFFICES ASSUME NEW o \in Registered'
               PROVE  /\ o \notin Plain
                      /\ o \in Ctxs => /\ cst'[o] # "none"
                                       /\ o \notin twice' => cst'[o] = "live"
                      /\ o \in Socks => /\ owner'[o] \in Ctxs /\ cst'[owner'[o]] # "none"
                                        /\ o \notin twice' => /\ sst'[o] = "open"
                                                              /\ cst'[owner'[o]] = "live"
    BY DEF Live
  <2>1. CASE o = c
    BY <1>3, <1>5, <1>6, <1>4, <2>1
  <2>2. CASE o # c
    <3>1. o \in Registered
      BY <1>6, <2>2
    <3>2. o \in Socks => owner[o] # c /\ owner[o] \in Ctxs
      BY <1>4, <3>1
    <3> QED BY <1>1, <1>2, <1>3, <2>2, <3>1, <3>2 DEF Live
  <2> QED BY <2>1, <2>2
<1>10. Together' /\ Modes'
  BY <1>1, <1>2, <1>5, <1>6, <1>7 DEF Together, Modes
<1>11. Finalized'
  <2>1. \A s \in Socks \ Plain : sst'[s] = "open" => s \in Registered'
    BY <1>1, <1>2, <1>6 DEF Finalized
  <2>2. ASSUME NEW d \in Ctxs \ Plain, cst'[d] # "none", d \notin Registered', signals' = 0
        PROVE  cst'[d] = "freed" \/ waits' = d
    <3>1. d # c /\ d \notin Registered
      BY <1>6, <2>2
    <3> QED BY <1>1, <1>2, <1>3, <2>2, <3>1 DEF Finalized
  <2> QED BY <2>1, <2>2 DEF Finalized
<1>12. SocketsFirst' /\ NoUseAfterFree'
  BY <1>1, <1>2 DEF SocketsFirst, SocketsOf, NoUseAfterFree
<1> QED BY <1>6, <1>8, <1>9, <1>10, <1>11, <1>12 DEF FinInv

(* init.socket() and zmq.socket()                                          *)
LEMMA InitSocketStep ==
  ASSUME FinInv, CtxInv', mode = "user", waits = None,
         NEW s \in Socks, NEW c \in Ctxs, InitSocket(s, c)
  PROVE  FinInv'
<1>1. /\ CtxInv /\ TypeOK /\ Live /\ Nested /\ Together /\ Modes /\ Finalized
      /\ SocketsFirst /\ NoUseAfterFree
  BY DEF FinInv
<1>2. /\ cst[c] = "live" /\ sst[s] = "none" /\ c \in held
      /\ sst' = [sst EXCEPT ![s] = "open"] /\ owner' = [owner EXCEPT ![s] = c]
      /\ held' = held \cup {s}
      /\ refs' = IF s \in Plain THEN refs ELSE <<s>> \o refs
      /\ UNCHANGED <<cst, waits, signals, misuse, ready, mode, twice>>
  BY DEF InitSocket, NewSocket
<1>3. /\ sst'[s] = "open" /\ owner'[s] = c
      /\ \A t \in Socks : t # s => sst'[t] = sst[t] /\ owner'[t] = owner[t]
  BY <1>1, <1>2 DEF CtxInv, CtxTypeOK
<1>4. s \notin Registered /\ \A t \in Registered \cap Socks : t # s /\ owner[t] \in Ctxs
  <2>1. owner[s] = None /\ None \notin Ctxs
    BY <1>1, <1>2, ObjectsAssumption DEF CtxInv, CtxTypeOK
  <2> QED BY <1>1, <2>1 DEF Live
<1>5. s \in Objects /\ s \notin Ctxs /\ c # s
  BY ObjectsAssumption DEF Objects
<1>6. /\ refs' \in Seq(Objects) /\ Nested'
      /\ Registered' = Registered \cup ({s} \ Plain)
      /\ \A j, k \in DOMAIN refs' : refs'[j] = refs'[k] => j = k
  <2>1. \A t \in Registered \cap Socks : owner'[t] = owner[t] /\ owner[t] # s
    BY <1>3, <1>4, <1>5
  <2>2. owner'[s] # s
    BY <1>3, <1>5
  <2> QED BY <1>1, <1>2, <1>4, <1>5, <2>1, <2>2, RegisterOrNot
<1>7. ready = {}
  BY <1>1 DEF Modes
<1>8. TypeOK'
  <2>1. /\ held' \subseteq Objects /\ ready' \subseteq Registered'
        /\ twice' \subseteq Objects
    BY <1>1, <1>2, <1>5, <1>7 DEF TypeOK
  <2>2. CtxTypeOK' /\ mode' \in {"user", "finalizing", "quitting", "ended"}
    BY <1>1, <1>2 DEF TypeOK, CtxInv
  <2> QED BY <1>6, <2>1, <2>2 DEF TypeOK, Objects
<1>9. Live'
  <2> SUFFICES ASSUME NEW o \in Registered'
               PROVE  /\ o \notin Plain
                      /\ o \in Ctxs => /\ cst'[o] # "none"
                                       /\ o \notin twice' => cst'[o] = "live"
                      /\ o \in Socks => /\ owner'[o] \in Ctxs /\ cst'[owner'[o]] # "none"
                                        /\ o \notin twice' => /\ sst'[o] = "open"
                                                              /\ cst'[owner'[o]] = "live"
    BY DEF Live
  <2>1. CASE o = s
    BY <1>2, <1>3, <1>4, <1>5, <1>6, <2>1
  <2>2. CASE o # s
    <3>1. o \in Registered
      BY <1>6, <2>2
    <3>2. o \in Socks => sst'[o] = sst[o] /\ owner'[o] = owner[o]
      BY <1>3, <2>2
    <3> QED BY <1>1, <1>2, <3>1, <3>2 DEF Live
  <2> QED BY <2>1, <2>2
<1>10. Together' /\ Modes'
  BY <1>1, <1>2, <1>5, <1>6, <1>7 DEF Together, Modes
<1>11. Finalized'
  <2>1. \A t \in Socks \ Plain : sst'[t] = "open" => t \in Registered'
    BY <1>1, <1>3, <1>6 DEF Finalized
  <2>2. \A d \in Ctxs \ Plain :
          cst'[d] # "none" /\ d \notin Registered' /\ signals' = 0
            => cst'[d] = "freed" \/ waits' = d
    BY <1>1, <1>2, <1>5, <1>6 DEF Finalized
  <2> QED BY <2>1, <2>2 DEF Finalized
<1>12. SocketsFirst' /\ NoUseAfterFree'
  BY <1>1, <1>2 DEF SocketsFirst, NoUseAfterFree
<1> QED BY <1>6, <1>8, <1>9, <1>10, <1>11, <1>12 DEF FinInv

(* A step in which nothing is made, closed or destroyed.                   *)
LEMMA NothingEnds ==
  ASSUME FinInv, CtxInv', UNCHANGED <<cst, sst, owner, waits, signals, misuse, refs, twice>>,
         held' \subseteq Objects, ready' \subseteq Registered, Together', Modes',
         mode' \in {"user", "finalizing", "quitting", "ended"}
  PROVE  FinInv'
<1>1. /\ CtxInv /\ TypeOK /\ Live /\ Nested /\ Finalized /\ SocketsFirst /\ NoUseAfterFree
  BY DEF FinInv
<1>2. Registered' = Registered
  BY DEF Registered
<1>3. TypeOK'
  BY <1>1, <1>2 DEF TypeOK, CtxInv, Objects
<1>4. Live' /\ Nested' /\ Finalized'
  BY <1>1, <1>2 DEF Live, Nested, Finalized
<1>5. SocketsFirst' /\ NoUseAfterFree'
  BY <1>1 DEF SocketsFirst, SocketsOf, NoUseAfterFree
<1> QED BY <1>3, <1>4, <1>5 DEF FinInv

(* rm(), zmq.bind() and a message sent.                                    *)
LEMMA UseStep ==
  ASSUME FinInv, CtxInv', mode = "user",
         \/ \E o \in held : Forget(o)
         \/ (\E s \in Socks, p \in Ports : Bind(s, p)) /\ UNCHANGED rvars
         \/ (\E s \in Socks : Queue(s)) /\ UNCHANGED rvars
  PROVE  FinInv'
<1>1. /\ UNCHANGED <<cst, sst, owner, waits, signals, misuse, refs, ready, mode, twice>>
      /\ held' \subseteq held
  BY DEF Forget, Bind, Queue, rvars, cvars
<1>2. TypeOK /\ Together /\ Modes
  BY DEF FinInv
<1>3. Registered' = Registered
  BY <1>1 DEF Registered
<1>4. Together' /\ Modes'
  BY <1>1, <1>2, <1>3 DEF Together, Modes
<1> QED BY <1>1, <1>2, <1>4, NothingEnds DEF TypeOK

(* The garbage collector, the end of the session, the end of the list.     *)
LEMMA CollectorStep ==
  ASSUME FinInv, CtxInv', (mode = "user" /\ (Collect \/ Quit)) \/ FinalizersDone
  PROVE  FinInv'
<1>1. TypeOK /\ Together /\ Modes
  BY DEF FinInv
<1>2. /\ UNCHANGED <<cst, sst, owner, waits, signals, misuse, refs, twice>>
      /\ held' \subseteq held /\ Registered' = Registered
  BY DEF Collect, Quit, FinalizersDone, cvars, Registered
<1>3. CASE mode = "user" /\ Collect
  <2> PICK live \in SUBSET Objects : /\ held \subseteq live /\ KeepsContext(live)
                                     /\ ready' = Registered \ live /\ mode' = "finalizing"
                                     /\ held' = held
    BY <1>3 DEF Collect
  <2>1. Together'
    <3> SUFFICES ASSUME NEW s \in (Registered \cap Socks) \ ready' PROVE owner[s] \notin ready'
      BY <1>2 DEF Together
    <3>1. s \in live \cap Socks \cap Registered
      OBVIOUS
    <3> QED BY <3>1 DEF KeepsContext
  <2>2. Modes'
    BY <1>1, <1>2, <1>3 DEF Modes
  <2> QED BY <1>1, <1>2, <2>1, <2>2, NothingEnds DEF TypeOK
<1>4. CASE mode = "user" /\ Quit
  <2>1. ready' = Registered /\ mode' = "quitting"
    BY <1>4 DEF Quit
  <2>2. Together' /\ Modes'
    BY <1>2, <2>1 DEF Together, Modes
  <2> QED BY <1>1, <1>2, <2>1, <2>2, NothingEnds DEF TypeOK
<1>5. CASE FinalizersDone
  <2>1. /\ mode \in {"finalizing", "quitting"} /\ ready = {} /\ ready' = {}
        /\ held' = held
        /\ mode' = IF mode = "quitting" THEN "ended" ELSE "user"
    BY <1>5 DEF FinalizersDone
  <2>2. Together' /\ Modes'
    BY <1>1, <1>2, <2>1 DEF Together, Modes
  <2> QED BY <1>1, <1>2, <2>1, <2>2, NothingEnds DEF TypeOK
<1> QED BY <1>3, <1>4, <1>5

(* A finalizer leaves the list.                                            *)
LEMMA Unlist ==
  ASSUME TypeOK, Nested, NEW i \in DOMAIN refs, refs' = RemoveAt(refs, i), owner' = owner
  PROVE  /\ refs' \in Seq(Objects) /\ Registered' = Registered \ {refs[i]} /\ Nested'
         /\ \A j, k \in DOMAIN refs' : refs'[j] = refs'[k] => j = k
<1>1. /\ refs \in Seq(Objects) /\ \A j, k \in DOMAIN refs : refs[j] = refs[k] => j = k
      /\ DOMAIN refs \subseteq Nat /\ i \in Nat
  BY DEF TypeOK
<1>2. /\ refs' \in Seq(Objects) /\ Registered' = Registered \ {refs[i]}
      /\ \A k \in DOMAIN refs' : /\ k < i => k \in DOMAIN refs /\ refs'[k] = refs[k]
                                 /\ ~(k < i) => k + 1 \in DOMAIN refs /\ refs'[k] = refs[k + 1]
  BY <1>1, RemoveRef
<1>3. DOMAIN refs' \subseteq Nat
  BY <1>2
<1>4. ASSUME NEW k \in DOMAIN refs'
      PROVE  \E m \in DOMAIN refs : refs'[k] = refs[m] /\ m = IF k < i THEN k ELSE k + 1
  BY <1>2
<1>5. ASSUME NEW j \in DOMAIN refs', NEW k \in DOMAIN refs', refs'[j] = refs'[k] PROVE j = k
  <2> PICK m \in DOMAIN refs : refs'[j] = refs[m] /\ m = IF j < i THEN j ELSE j + 1
    BY <1>4
  <2> PICK n \in DOMAIN refs : refs'[k] = refs[n] /\ n = IF k < i THEN k ELSE k + 1
    BY <1>4
  <2>1. m = n
    BY <1>1, <1>5
  <2> QED BY <1>1, <1>3, <2>1
<1>6. ASSUME NEW j \in DOMAIN refs', NEW k \in DOMAIN refs',
             refs'[j] \in Socks, refs'[k] = owner'[refs'[j]]
      PROVE  j < k
  <2> PICK m \in DOMAIN refs : refs'[j] = refs[m] /\ m = IF j < i THEN j ELSE j + 1
    BY <1>4
  <2> PICK n \in DOMAIN refs : refs'[k] = refs[n] /\ n = IF k < i THEN k ELSE k + 1
    BY <1>4
  <2>1. m < n
    BY <1>6 DEF Nested
  <2> QED BY <1>1, <1>3, <2>1
<1> QED BY <1>2, <1>5, <1>6 DEF Nested

(* zmq.ctx.destroy() of any context.                                       *)
LEMMA DestroyAny ==
  ASSUME CtxInv, NEW c \in Ctxs, Destroy(c), waits = None
  PROVE  /\ UNCHANGED <<sst, owner, signals>> /\ waits' \in {None, c}
         /\ \A d \in Ctxs : d # c => cst'[d] = cst[d]
         /\ cst'[c] # "none" /\ (cst'[c] = "freed" \/ waits' = c)
         /\ misuse' = misuse \/ (cst[c] = "freed" /\ misuse' = misuse \cup {c})
<1>1. UNCHANGED <<sst, owner, signals>>
  BY DEF Destroy
<1>2. \/ cst[c] = "live" /\ cst' = [cst EXCEPT ![c] = "freed"] /\ UNCHANGED <<waits, misuse>>
      \/ cst' = [cst EXCEPT ![c] = "terminating"] /\ waits' = c /\ UNCHANGED misuse
      \/ cst[c] = "terminating" /\ waits' = c /\ UNCHANGED <<cst, misuse>>
      \/ cst[c] = "freed" /\ misuse' = misuse \cup {c} /\ UNCHANGED <<cst, waits>>
  BY DEF Destroy
<1> QED BY <1>1, <1>2 DEF CtxInv, CtxTypeOK

(* A context ends when no socket of it is open, except plain ones, ...     *)
LEMMA ContextEnds ==
  ASSUME FinInv, waits = None, NEW c \in Ctxs, Destroy(c),
         \A s \in SocketsOf(c) : sst[s] = "open" => s \in Plain,
         Registered' \in {Registered, Registered \ {c}}, twice' \in {twice, twice \cup {c}},
         c \in twice' \/ (c \notin Registered' /\ cst[c] # "freed")
  PROVE  Live' /\ Finalized' /\ SocketsFirst' /\ NoUseAfterFree'
<1>1. CtxInv /\ Live /\ Finalized /\ NoUseAfterFree
  BY DEF FinInv
<1>2. /\ UNCHANGED <<sst, owner, signals>> /\ waits' \in {None, c}
      /\ \A d \in Ctxs : d # c => cst'[d] = cst[d]
      /\ cst'[c] # "none" /\ (cst'[c] = "freed" \/ waits' = c)
      /\ misuse' = misuse \/ (cst[c] = "freed" /\ misuse' = misuse \cup {c})
  BY <1>1, DestroyAny
<1>3. c # None /\ c \notin Socks
  BY ObjectsAssumption
<1>4. Live'
  <2> SUFFICES ASSUME NEW o \in Registered'
               PROVE  /\ o \notin Plain
                      /\ o \in Ctxs => /\ cst'[o] # "none"
                                       /\ o \notin twice' => cst'[o] = "live"
                      /\ o \in Socks => /\ owner'[o] \in Ctxs /\ cst'[owner'[o]] # "none"
                                        /\ o \notin twice' => /\ sst'[o] = "open"
                                                              /\ cst'[owner'[o]] = "live"
    BY DEF Live
  <2>1. o \in Registered /\ (o = c => c \in twice') /\ (o \notin twice' => o \notin twice)
    OBVIOUS
  <2>2. CASE o = c
    BY <1>1, <1>2, <1>3, <2>1, <2>2 DEF Live
  <2>3. CASE o \in Ctxs \ {c}
    <3>1. o \notin Socks
      BY <2>3, ObjectsAssumption
    <3> QED BY <1>1, <1>2, <2>1, <2>3, <3>1 DEF Live
  <2>4. CASE o \in Socks
    <3>1. /\ o \notin Plain /\ owner[o] \in Ctxs /\ cst[owner[o]] # "none"
          /\ o \notin twice => sst[o] = "open" /\ cst[owner[o]] = "live"
      BY <1>1, <2>1, <2>4 DEF Live
    <3>2. sst[o] = "open" => owner[o] # c
      BY <2>4, <3>1 DEF SocketsOf
    <3>3. o \notin Ctxs
      BY <2>4, ObjectsAssumption
    <3> QED BY <1>2, <2>1, <3>1, <3>2, <3>3
  <2>5. CASE o \notin Ctxs \cup Socks
    BY <1>1, <2>1, <2>5 DEF Live
  <2> QED BY <2>2, <2>3, <2>4, <2>5
<1>5. Finalized'
  <2>1. ASSUME NEW s \in Socks \ Plain, sst'[s] = "open" PROVE s \in Registered'
    <3>1. s \in Registered
      BY <1>1, <1>2, <2>1 DEF Finalized
    <3> QED BY <1>3, <3>1
  <2>2. ASSUME NEW d \in Ctxs \ Plain, cst'[d] # "none", d \notin Registered', signals' = 0
        PROVE  cst'[d] = "freed" \/ waits' = d
    <3>1. CASE d = c
      BY <1>2, <3>1
    <3>2. CASE d # c
      <4>1. cst[d] # "none" /\ d \notin Registered /\ signals = 0 /\ waits # d
        BY <1>2, <2>2, <3>2, ObjectsAssumption
      <4>2. cst[d] = "freed"
        BY <1>1, <4>1 DEF Finalized
      <4> QED BY <1>2, <3>2, <4>2
    <3> QED BY <3>1, <3>2
  <2> QED BY <2>1, <2>2 DEF Finalized
<1>6. SocketsFirst'
  <2>1. ASSUME waits' # None PROVE \A s \in SocketsOf(waits)' : sst'[s] = "open" => s \in Plain
    <3>1. waits' = c
      BY <1>2, <2>1
    <3>2. \A s \in SocketsOf(waits)' : s \in SocketsOf(c)
      BY <1>2, <3>1 DEF SocketsOf
    <3> QED BY <1>2, <3>2
  <2> QED BY <2>1 DEF SocketsFirst
<1>7. NoUseAfterFree'
  <2>1. twice \subseteq twice' /\ misuse \subseteq twice
    BY <1>1 DEF NoUseAfterFree
  <2>2. CASE cst[c] = "freed"
    BY <1>2, <2>1, <2>2 DEF NoUseAfterFree
  <2>3. CASE cst[c] # "freed"
    BY <1>2, <2>1, <2>3 DEF NoUseAfterFree
  <2> QED BY <2>2, <2>3
<1> QED BY <1>4, <1>5, <1>6, <1>7

(* ... and a socket ends once, unless the user closes it twice.            *)
LEMMA SocketEnds ==
  ASSUME FinInv, waits = None, NEW s \in Socks, Close(s),
         Registered' \in {Registered, Registered \ {s}}, twice' \in {twice, twice \cup {s}},
         s \in twice' \/ (s \notin Registered' /\ sst[s] = "open")
  PROVE  Live' /\ Finalized' /\ SocketsFirst' /\ NoUseAfterFree'
<1>1. CtxInv /\ Live /\ Finalized /\ NoUseAfterFree
  BY DEF FinInv
<1>2. /\ UNCHANGED <<cst, owner, waits, signals>>
      /\ \/ sst' = [sst EXCEPT ![s] = "closed"]
         \/ sst' = sst /\ sst[s] # "open"
      /\ misuse' = misuse \/ (sst[s] = "freed" /\ misuse' = misuse \cup {s})
  BY DEF Close
<1>3. sst'[s] # "open" /\ \A t \in Socks : t # s => sst'[t] = sst[t]
  BY <1>1, <1>2 DEF CtxInv, CtxTypeOK
<1>4. s \notin Ctxs
  BY ObjectsAssumption
<1>5. Live'
  <2> SUFFICES ASSUME NEW o \in Registered'
               PROVE  /\ o \notin Plain
                      /\ o \in Ctxs => /\ cst'[o] # "none"
                                       /\ o \notin twice' => cst'[o] = "live"
                      /\ o \in Socks => /\ owner'[o] \in Ctxs /\ cst'[owner'[o]] # "none"
                                        /\ o \notin twice' => /\ sst'[o] = "open"
                                                              /\ cst'[owner'[o]] = "live"
    BY DEF Live
  <2>1. o \in Registered /\ (o = s => s \in twice') /\ (o \notin twice' => o \notin twice)
    OBVIOUS
  <2>2. CASE o = s
    BY <1>1, <1>2, <1>4, <2>1, <2>2 DEF Live
  <2>3. CASE o # s
    BY <1>1, <1>2, <1>3, <2>1, <2>3 DEF Live
  <2> QED BY <2>2, <2>3
<1>6. Finalized'
  <2>1. \A t \in Socks \ Plain : sst'[t] = "open" => t \in Registered'
    BY <1>1, <1>3 DEF Finalized
  <2>2. \A d \in Ctxs \ Plain :
          cst'[d] # "none" /\ d \notin Registered' /\ signals' = 0
            => cst'[d] = "freed" \/ waits' = d
    BY <1>1, <1>2, <1>4 DEF Finalized
  <2> QED BY <2>1, <2>2 DEF Finalized
<1>7. SocketsFirst'
  BY <1>2 DEF SocketsFirst
<1>8. NoUseAfterFree'
  <2>1. twice \subseteq twice' /\ misuse \subseteq twice
    BY <1>1 DEF NoUseAfterFree
  <2>2. CASE sst[s] = "freed"
    BY <1>2, <2>1, <2>2 DEF NoUseAfterFree
  <2>3. CASE sst[s] # "freed"
    BY <1>2, <2>1, <2>3 DEF NoUseAfterFree
  <2> QED BY <2>2, <2>3
<1> QED BY <1>5, <1>6, <1>7, <1>8

(* What closing by hand leaves of the invariant.                           *)
LEMMA CloseByHandKeeps ==
  ASSUME FinInv, CtxInv', NEW o \in Objects, CloseByHand(o),
         Live', Finalized', SocketsFirst', NoUseAfterFree'
  PROVE  FinInv'
<1>1. TypeOK /\ Nested /\ Together /\ Modes
  BY DEF FinInv
<1>2. /\ UNCHANGED <<held, refs, ready, mode>> /\ Registered' = Registered
      /\ twice' \subseteq twice \cup {o}
  BY DEF CloseByHand, Registered
<1>3. owner' = owner
  BY DEF CloseByHand, Close, Destroy
<1>4. Nested' /\ Together' /\ Modes'
  BY <1>1, <1>2, <1>3 DEF Nested, Together, Modes
<1>5. TypeOK'
  BY <1>1, <1>2 DEF TypeOK, CtxInv, Objects
<1> QED BY <1>4, <1>5 DEF FinInv

(* The user closes a socket or destroys a context by hand.                 *)
LEMMA CloseByHandStep ==
  ASSUME FinInv, CtxInv', waits = None, NEW o \in Objects, CloseByHand(o)
  PROVE  FinInv'
<1>1. /\ Registered' = Registered
      /\ twice' = IF o \in Registered \/ Closed(o) THEN twice \cup {o} ELSE twice
  BY DEF CloseByHand, Registered
<1>2. /\ twice' \in {twice, twice \cup {o}}
      /\ o \in twice' \/ (o \notin Registered' /\ ~Closed(o))
  BY <1>1
<1>3. CASE o \in Socks
  <2>1. Close(o)
    BY <1>3, ObjectsAssumption DEF CloseByHand
  <2>2. ~Closed(o) => sst[o] = "open"
    BY <1>3 DEF Closed
  <2> QED BY <1>1, <1>2, <1>3, <2>1, <2>2, SocketEnds, CloseByHandKeeps
<1>4. CASE o \notin Socks
  <2>1. o \in Ctxs /\ Destroy(o) /\ \A s \in SocketsOf(o) : sst[s] # "open"
    BY <1>4 DEF CloseByHand
  <2>2. ~Closed(o) => cst[o] # "freed"
    BY <1>4 DEF Closed
  <2> QED BY <1>1, <1>2, <2>1, <2>2, ContextEnds, CloseByHandKeeps
<1> QED BY <1>3, <1>4

(* R_RunFinalizers: the newest finalizer that is ready is not of a context *)
(* that has a socket left.                                                 *)
LEMMA RunFinalizerStep ==
  ASSUME FinInv, CtxInv', waits = None, RunFinalizer
  PROVE  FinInv'
<1>1. /\ CtxInv /\ TypeOK /\ Live /\ Nested /\ Together /\ Modes /\ Finalized
  BY DEF FinInv
<1> PICK i \in DOMAIN refs : /\ refs[i] \in ready /\ Finalize(i)
                             /\ \A j \in 1 .. i - 1 : refs[j] \notin ready
  BY DEF RunFinalizer
<1> PICK o \in Registered : o = refs[i]
  BY DEF Registered
<1>2. /\ refs' = RemoveAt(refs, i) /\ ready' = ready \cap Registered'
      /\ UNCHANGED <<held, mode, twice>> /\ mode \in {"finalizing", "quitting"}
      /\ IF o \in Ctxs THEN Destroy(o) ELSE Close(o)
  BY DEF Finalize, RunFinalizer
<1>3. o \in Ctxs \cup Socks
  BY <1>1 DEF TypeOK, Registered, Objects
<1>4. owner' = owner
  BY <1>2 DEF Close, Destroy
<1>5. /\ refs' \in Seq(Objects) /\ Registered' = Registered \ {o} /\ Nested'
      /\ \A j, k \in DOMAIN refs' : refs'[j] = refs'[k] => j = k
  BY <1>1, <1>2, <1>4, Unlist
<1>6. Live' /\ Finalized' /\ SocketsFirst' /\ NoUseAfterFree'
  <2>1. CASE o \in Ctxs
    <3>1. Destroy(o) /\ (o \in twice \/ cst[o] = "live")
      BY <1>1, <1>2, <2>1 DEF Live
    <3>2. ASSUME NEW s \in SocketsOf(o), sst[s] = "open", s \notin Plain PROVE FALSE
      <4>1. s \in Socks /\ owner[s] = o /\ s \in Registered
        BY <1>1, <3>2 DEF SocketsOf, Finalized
      <4>2. s \in ready
        BY <1>1, <4>1 DEF Together
      <4> PICK j \in DOMAIN refs : s = refs[j]
        BY <4>1 DEF Registered
      <4>3. j < i
        BY <1>1, <4>1 DEF Nested
      <4>4. j \in 1 .. i - 1
        <5>1. refs \in Seq(Objects)
          BY <1>1 DEF TypeOK
        <5>2. j \in Nat /\ i \in Nat /\ 1 <= j
          BY <5>1
        <5> QED BY <4>3, <5>2
      <4> QED BY <4>2, <4>4
    <3> QED BY <1>2, <1>5, <2>1, <3>1, <3>2, ContextEnds
  <2>2. CASE o \notin Ctxs
    <3>1. o \in Socks /\ Close(o) /\ (o \in twice \/ sst[o] = "open")
      BY <1>1, <1>2, <1>3, <2>2 DEF Live
    <3> QED BY <1>2, <1>5, <3>1, SocketEnds
  <2> QED BY <2>1, <2>2
<1>7. TypeOK'
  BY <1>1, <1>2, <1>5 DEF TypeOK, CtxInv, Objects
<1>8. Together'
  <2> SUFFICES ASSUME NEW s \in Registered' \cap Socks, s \notin ready' PROVE owner'[s] \notin ready'
    BY DEF Together
  <2>1. s \in Registered \cap Socks /\ s \notin ready
    BY <1>2, <1>5
  <2> QED BY <1>1, <1>2, <1>4, <2>1 DEF Together
<1>9. Modes'
  BY <1>1, <1>2, <1>5 DEF Modes
<1> QED BY <1>5, <1>6, <1>7, <1>8, <1>9 DEF FinInv

-----------------------------------------------------------------------------
LEMMA FinInvInit == Init => FinInv
<1> SUFFICES ASSUME Init PROVE FinInv
  OBVIOUS
<1>1. CtxInv
  BY CtxInvInit DEF Init
<1>2. /\ refs = <<>> /\ Registered = {} /\ ready = {} /\ held = {} /\ mode = "user"
      /\ twice = {}
  BY DEF Init, Registered
<1>3. /\ \A s \in Socks : sst[s] = "none"
      /\ \A c \in Ctxs : cst[c] = "none"
      /\ waits = None /\ misuse = {}
  BY DEF Init, CtxInit
<1>4. TypeOK
  BY <1>1, <1>2 DEF TypeOK, CtxInv
<1>5. Live /\ Nested /\ Together /\ Modes
  BY <1>2 DEF Live, Nested, Together, Modes
<1>6. Finalized /\ SocketsFirst /\ NoUseAfterFree
  BY <1>3 DEF Finalized, SocketsFirst, NoUseAfterFree
<1> QED BY <1>1, <1>4, <1>5, <1>6 DEF FinInv

(* What R does to contexts and sockets, a user of them may do.             *)
LEMMA RThreadIsUser ==
  ASSUME TypeOK, RThread
  PROVE  User \/ UNCHANGED cvars
<1>1. waits = None
  BY DEF RThread
<1>2. CASE \E c \in Ctxs : InitContext(c)
  BY <1>1, <1>2 DEF InitContext, User
<1>3. CASE \E c \in Ctxs, s \in Socks : InitSocket(s, c)
  BY <1>1, <1>3 DEF InitSocket, User
<1>4. CASE (\E o \in held : Forget(o)) \/ Collect \/ Quit \/ FinalizersDone
  BY <1>4 DEF Forget, Collect, Quit, FinalizersDone
<1>5. CASE \E s \in Socks, p \in Ports : Bind(s, p)
  BY <1>1, <1>5 DEF User
<1>6. CASE \E s \in Socks : Queue(s) \/ Close(s)
  BY <1>1, <1>6 DEF User
<1>7. CASE \E c \in Ctxs : Destroy(c)
  BY <1>1, <1>7 DEF User
<1>8. CASE \E o \in held : CloseByHand(o)
  BY <1>6, <1>7, <1>8 DEF CloseByHand
<1>9. CASE RunFinalizer
  <2> PICK i \in DOMAIN refs : IF refs[i] \in Ctxs THEN Destroy(refs[i]) ELSE Close(refs[i])
    BY <1>9 DEF RunFinalizer, Finalize
  <2>1. refs[i] \in Ctxs \cup Socks
    BY DEF TypeOK, Objects
  <2> QED BY <1>6, <1>7, <2>1
<1> QED BY <1>2, <1>3, <1>4, <1>5, <1>6, <1>8, <1>9 DEF RThread, UserCall

LEMMA FinInvStep ==
  ASSUME FinInv, [Next]_vars
  PROVE  FinInv'
<1>1. CtxInv'
  <2>1. CtxInv /\ TypeOK
    BY DEF FinInv
  <2>2. [CtxNext]_cvars
    BY <2>1, RThreadIsUser DEF Next, CtxNext, vars
  <2> QED BY <2>1, <2>2, CtxInvStep
<1>2. CASE (TermInterrupted \/ Library) /\ UNCHANGED rvars
  BY <1>2, ThreadStep
<1>3. CASE waits = None /\ mode = "user" /\ UserCall
  <2>1. CASE \E c \in Ctxs : InitContext(c)
    BY <1>1, <1>3, <2>1, InitContextStep
  <2>2. CASE \E c \in Ctxs, s \in Socks : InitSocket(s, c)
    BY <1>1, <1>3, <2>2, InitSocketStep
  <2>3. CASE \/ \E o \in held : Forget(o)
             \/ (\E s \in Socks, p \in Ports : Bind(s, p)) /\ UNCHANGED rvars
             \/ (\E s \in Socks : Queue(s)) /\ UNCHANGED rvars
    BY <1>1, <1>3, <2>3, UseStep
  <2>4. CASE \E o \in held : CloseByHand(o)
    BY <1>1, <1>3, <2>4, CloseByHandStep DEF FinInv, TypeOK
  <2> QED BY <1>3, <2>1, <2>2, <2>3, <2>4 DEF UserCall
<1>4. CASE (mode = "user" /\ (Collect \/ Quit)) \/ FinalizersDone
  BY <1>1, <1>4, CollectorStep
<1>5. CASE waits = None /\ RunFinalizer
  BY <1>1, <1>5, RunFinalizerStep
<1>6. CASE UNCHANGED vars
  <2>1. UNCHANGED <<cst, sst, owner, waits, signals, misuse, refs, held, ready, mode, twice>>
    BY <1>6 DEF vars, cvars, rvars
  <2>2. Together' /\ Modes' /\ TypeOK
    BY <2>1 DEF FinInv, Together, Modes, Registered
  <2> QED BY <1>1, <2>1, <2>2, NothingEnds DEF TypeOK
<1> QED BY <1>2, <1>3, <1>4, <1>5, <1>6 DEF Next, RThread

LEMMA FinInvAlways == Spec => []FinInv
<1>1. FinInv /\ [Next]_vars => FinInv'
  BY FinInvStep
<1> QED BY FinInvInit, <1>1, PTL DEF Spec

-----------------------------------------------------------------------------
(* Contexts and sockets end in order, whatever the collector finds, and    *)
(* also when the session ends: zmq.ctx.destroy() never waits for a socket  *)
(* that only the blocked R thread could close (init.socket() of            *)
(* rzmq_wrapper.r, whose finalizer keeps the context reachable), each      *)
(* context is freed after its sockets, and its reaper counts them right.   *)
THEOREM FinalizersEndInOrder == Spec => []EndInOrder
<1>1. FinInv => EndInOrder
  BY CtxInvMeans DEF FinInv, EndInOrder
<1> QED BY FinInvAlways, <1>1, PTL

(* A socket that the user still holds and has not closed by hand is open   *)
(* and its context is live: no finalizer destroys what can be reached.     *)
THEOREM HeldStaysUsable == Spec => []HeldIsUsable
<1>1. FinInv => HeldIsUsable
  BY DEF FinInv, HeldIsUsable, Modes, Live
<1> QED BY FinInvAlways, <1>1, PTL

(* A pointer is passed to R_zmq_close() or R_zmq_ctx_destroy(), which      *)
(* check for NULL only, after its object was freed only if the user has    *)
(* closed the object twice, or by hand although it has a finalizer: in     *)
(* whatever order finalizers run and others are closed by hand, the        *)
(* finalizers alone use nothing after it was freed.                        *)
THEOREM OnlyClosingTwiceMisuses == Spec => []NoUseAfterFree
<1>1. FinInv => NoUseAfterFree
  BY DEF FinInv
<1> QED BY FinInvAlways, <1>1, PTL

(* When the finalizers of a socket and its context have run without        *)
(* interruption, the port can be bound again (random_open_port()).         *)
THEOREM PortsAreReleased == Spec => []PortReleased
<1>1. FinInv => PortReleased
  <2> SUFFICES ASSUME FinInv, signals = 0, NEW s \in Socks, waits = None, sst[s] # "none",
                      owner[s] \notin Registered \cup Plain
               PROVE  bound[s] = None
    BY DEF PortReleased
  <2>1. CtxInv /\ Finalized
    BY DEF FinInv
  <2>2. owner[s] \in Ctxs /\ cst[owner[s]] # "none" /\ owner[s] # None
    BY <2>1, KnownSocket, ObjectsAssumption
  <2>3. cst[owner[s]] = "freed"
    BY <2>1, <2>2 DEF Finalized
  <2> QED BY <2>1, <2>2, <2>3, CtxInvMeans DEF FreedLast
<1> QED BY FinInvAlways, <1>1, PTL
=============================================================================
