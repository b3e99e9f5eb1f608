---------------------------- MODULE EngineProofs ----------------------------
(***************************************************************************)
(* Authenticated holds in every reachable state.  An engine is a record    *)
(* and a handler a function of it, so the invariant is about one engine    *)
(* (Sound) and every function of Engine.tla has a lemma that says what it  *)
(* keeps (Goes).                                                           *)
(***************************************************************************)
EXTENDS Engine, FiniteSetTheorems, TLAPS

------------------------------------------------------------------------------
(* What an engine is.                                                      *)

Kinds == {"none", "signature", "version 3", "version old", "type", "header", "identity",
          "NULL", "PLAIN", "CURVE", "GSSAPI", "HELLO", "WELCOME", "INITIATE", "READY",
          "ERROR", "TOKEN", "empty", "PING", "PONG", "credential", "data"}
Token == [k : Kinds, v : Int, n : Int]

Reasons == {"connection", "protocol", "timeout"}
Lives == {"open", "aborted"} \cup Reasons
Greets == {"signature", "version", "mechanism", "type", "done"}
States == {"none", "hello", "wait hello", "welcome", "wait welcome", "initiate",
           "wait initiate", "wait zap", "send ready", "wait ready", "send error",
           "recv next token", "send next token", "call next init", "recv ready",
           "ready", "error"}
Flags == {"ready_sent", "ready_received", "error_sent", "error_received", "token"}
Zaps == {"none", "asked", "200", "denied"}
Nexts == {"identity", "handshake", "pull", "ping", "pong"}
Processes == {"identity", "handshake", "credential", "decode", "push one", "push"}
Codes == {"ok", "again", "proto", "abort"}
Timers == {"handshake", "interval", "ttl", "timeout"}

EngineType ==
  [who : Ends, life : Lives, greet : Greets, mech : Mechanisms \cup {"none"},
   state : States, did : SUBSET Flags, zap : Zaps, nonce : Int, peer_nonce : Int,
   next : Nexts, process : Processes, rc : Codes, dry : BOOLEAN,
   out : Seq(Token), wire : Seq(Token), in : Seq(Token),
   held : Token, input_stopped : BOOLEAN, output_stopped : BOOLEAN,
   io_error : BOOLEAN, pollout : BOOLEAN, timers : SUBSET Timers,
   bailed : BOOLEAN, pings : Int,
   to_send : Seq(Token), asleep : BOOLEAN,
   got : Seq(Token), queued : Int, full : BOOLEAN]

(* The members of these sets that are named below. *)
LEMMA Literals ==
  /\ "aborted" \in Lives /\ Reasons \subseteq Lives
  /\ {"ok", "again", "proto", "abort"} \subseteq Codes
  /\ {"none", "asked", "200", "denied"} \subseteq Zaps
BY DEF Lives, Codes, Zaps

(* Tokens without a message, and with a credential before the first one.   *)
NoData(toks) == \A i \in DOMAIN toks : toks[i].k # "data"
Credited(toks) == \E i \in DOMAIN toks : /\ toks[i].k = "credential"
                                         /\ \A j \in 1 .. i : toks[j].k # "data"

(* The handler has accepted the client.                                    *)
Passed(x) == opt.allow /\ x.zap = "200"

(* Before it has, no state of a mechanism leads to READY without it, ...   *)
Pending(mech) ==
  CASE mech = "PLAIN"  -> {"wait hello", "wait zap", "send error", "error"}
    [] mech = "CURVE"  -> {"wait hello", "welcome", "wait initiate", "wait zap",
                           "send error", "error"}
    [] mech = "GSSAPI" -> {"recv next token", "send next token", "wait zap", "none"}
Unready(x) ==
  /\ x.mech = "NULL" => "ready_sent" \notin x.did
  /\ x.mech \notin {"NULL", "none"} => x.state \in Pending(x.mech)

(* ... nothing but the handshake is sent or understood, and no message has *)
(* come in or gone out.                                                    *)
Before(x) ==
  /\ Unready(x)
  /\ x.next \in {"identity", "handshake"} /\ x.process \in {"identity", "handshake"}
  /\ "interval" \notin x.timers
  /\ NoData(x.got) /\ NoData(x.out) /\ NoData(x.wire)

(* A mechanism asks the handler once.                                      *)
Fresh(mech) ==
  CASE mech = "PLAIN"  -> {"wait hello"}
    [] mech = "CURVE"  -> {"wait hello", "welcome", "wait initiate"}
    [] mech = "GSSAPI" -> {"recv next token", "send next token"}
AsksOnce(x) ==
  /\ x.mech \notin {"NULL", "none"} /\ x.state \in Fresh(x.mech) => x.zap # "200"
  /\ x.zap = "200" => opt.allow

(* The greeting is that of ZMTP 3 with the mechanism that is set.          *)
Greeting(x) ==
  /\ x.greet # "done" => /\ x.next = "identity" /\ x.process = "identity"
                         /\ x.mech = "none" /\ x.did = {} /\ "interval" \notin x.timers
                         /\ x.rc # "again" /\ ~x.full /\ ~x.input_stopped
  /\ x.greet = "done" => /\ x.mech = opt.mech["server"]
                         /\ x.next # "identity"
                         /\ x.process \notin {"identity", "push"}

(* A server with a handler.                                                *)
Guarded(x) ==
  /\ Greeting(x) /\ AsksOnce(x)
  /\ ~Passed(x) => Before(x)
  /\ x.process \in {"decode", "push one"} => Credited(x.got)
  /\ NoData(x.got) \/ Credited(x.got)

Sound(x) ==
  /\ x \in EngineType /\ Len(x.wire) <= Capacity
  /\ x.mech = "none" => /\ x.next # "handshake" /\ x.process # "handshake"
                        /\ x.zap = "none"
  /\ IsZap(x) => Guarded(x)

(* What a step of an engine keeps: a decision of the handler stands, and   *)
(* so does a credential; and no message comes in with another token.       *)
Steps(x, y) ==
  /\ Sound(y) /\ y.who = x.who
  /\ IsZap(x) => /\ Passed(x) => Passed(y)
                 /\ Credited(x.got) => Credited(y.got)
  /\ x.greet = "done" => y.greet = "done"
Clean(x) == NoData(x.got) /\ NoData(x.in) /\ x.held.k # "data"
Goes(x, y) == Steps(x, y) /\ (Clean(x) => Clean(y))
Takes(x, tok, y) == Steps(x, y) /\ (tok.k # "data" => Goes(x, y))

(* What may be said of the set-up when the server has a handler.           *)
ZapConfig == /\ opt \in Configs /\ opt.zap # "off"

------------------------------------------------------------------------------
(* Sequences of tokens.                                                    *)

LEMMA TokIsToken == ASSUME NEW k \in Kinds PROVE Tok(k) \in Token /\ Tok(k).k = k
BY DEF Tok, Token

LEMMA TokensEmpty == NoData(<<>>) /\ <<>> \in Seq(Token)
BY DEF NoData

LEMMA TokensAppend ==
  ASSUME NEW s \in Seq(Token), NEW tok \in Token
  PROVE  /\ Append(s, tok) \in Seq(Token)
         /\ NoData(s) /\ tok.k # "data" => NoData(Append(s, tok))
         /\ Credited(s) => Credited(Append(s, tok))
         /\ NoData(s) /\ tok.k = "credential" => Credited(Append(s, tok))
<1> DEFINE t == Append(s, tok)
<1>1. /\ t \in Seq(Token) /\ Len(t) = Len(s) + 1 /\ Len(s) \in Nat
      /\ t[Len(s) + 1] = tok
      /\ \A i \in 1 .. Len(s) : t[i] = s[i]
      /\ DOMAIN s = 1 .. Len(s) /\ DOMAIN t = 1 .. Len(s) + 1
  OBVIOUS
<1> HIDE DEF t
<1>2. NoData(s) /\ tok.k # "data" => NoData(t)
  BY <1>1 DEF NoData
<1>3. Credited(s) => Credited(t)
  BY <1>1 DEF Credited
<1>4. ASSUME NoData(s), tok.k = "credential" PROVE Credited(t)
  <2>1. \A j \in 1 .. Len(s) + 1 : t[j].k # "data"
    BY <1>1, <1>4 DEF NoData
  <2> QED BY <1>1, <1>4, <2>1 DEF Credited
<1> QED BY <1>1, <1>2, <1>3, <1>4 DEF t

LEMMA TokensConcat ==
  ASSUME NEW s \in Seq(Token), NEW t \in Seq(Token)
  PROVE  /\ s \o t \in Seq(Token)
         /\ NoData(s) /\ NoData(t) => NoData(s \o t)
BY DEF NoData

LEMMA TokensPart ==
  ASSUME NEW s \in Seq(Token), NEW m \in Nat \ {0}, NEW n \in Int, n <= Len(s)
  PROVE  /\ SubSeq(s, m, n) \in Seq(Token)
         /\ NoData(s) => NoData(SubSeq(s, m, n))
BY DEF NoData

------------------------------------------------------------------------------
(* The small functions.                                                    *)

LEMMA ZapKept == ASSUME NEW x, NEW y, y.who = x.who PROVE IsZap(y) <=> IsZap(x)
BY DEF IsZap

LEMMA GoesSelf == ASSUME NEW x, Sound(x) PROVE Goes(x, x)
BY DEF Goes, Steps

LEMMA GoesOn == ASSUME NEW x, NEW y, NEW z, Goes(x, y), Goes(y, z) PROVE Goes(x, z)
BY ZapKept DEF Goes, Steps

LEMMA TakesOn ==
  ASSUME NEW x, NEW y, NEW z, NEW tok,
         (Goes(x, y) /\ Takes(y, tok, z)) \/ (Takes(x, tok, y) /\ Goes(y, z))
  PROVE  Takes(x, tok, z)
BY ZapKept DEF Goes, Steps, Takes

(* A change that the invariant does not see: it stops no input and adds    *)
(* no message.                                                             *)
Same(x, y) ==
  /\ y.who = x.who /\ y.greet = x.greet /\ y.mech = x.mech /\ y.state = x.state
  /\ y.did = x.did /\ y.zap = x.zap /\ y.next = x.next /\ y.process = x.process
  /\ y.got = x.got
Alike(x, y) ==
  /\ y \in EngineType /\ Len(y.wire) <= Capacity /\ Same(x, y)
  /\ "interval" \in y.timers => "interval" \in x.timers
  /\ y.rc = "again" => x.rc = "again"
  /\ y.full => x.full
  /\ y.input_stopped => x.input_stopped
  /\ IsZap(x) => \/ Passed(x)
                 \/ NoData(x.out) /\ NoData(x.wire) => NoData(y.out) /\ NoData(y.wire)

LEMMA AlikeSteps == ASSUME NEW x, NEW y, Sound(x), Alike(x, y) PROVE Steps(x, y)
<1>1. Passed(x) <=> Passed(y)
  BY DEF Alike, Same, Passed
<1>2. IsZap(x) <=> IsZap(y)
  BY DEF Alike, Same, IsZap
<1>3. ASSUME IsZap(x) PROVE Guarded(y)
  <2>1. Greeting(x) /\ Greeting(y)
    BY <1>3 DEF Sound, Guarded, Greeting, Alike, Same
  <2>2. AsksOnce(y)
    BY <1>3 DEF Sound, Guarded, AsksOnce, Alike, Same
  <2>3. ~Passed(y) => Before(y)
    BY <1>1, <1>3 DEF Sound, Guarded, Before, Unready, Alike, Same
  <2> QED BY <2>1, <2>2, <2>3, <1>3 DEF Sound, Guarded, Alike, Same
<1> QED BY <1>1, <1>2, <1>3 DEF Steps, Sound, Alike, Same

LEMMA AlikeGoes ==
  ASSUME NEW x, NEW y, Sound(x), Alike(x, y), y.in = x.in, y.held = x.held PROVE Goes(x, y)
BY AlikeSteps DEF Goes, Clean, Alike, Same

(* A change of an engine that has passed.                                  *)
Talks(x, y) ==
  /\ y \in EngineType /\ Len(y.wire) <= Capacity
  /\ y.who = x.who /\ y.greet = x.greet /\ y.mech = x.mech /\ y.state = x.state
  /\ y.did = x.did /\ y.zap = x.zap
  /\ y.mech = "none" => y.next # "handshake" /\ y.process # "handshake"
  /\ IsZap(x) => /\ Passed(x) /\ x.greet = "done"
                 /\ y.next # "identity" /\ y.process \notin {"identity", "push"}
                 /\ y.process \in {"decode", "push one"} => Credited(y.got)
                 /\ NoData(y.got) \/ Credited(y.got)
                 /\ Credited(x.got) => Credited(y.got)

LEMMA TalksSteps == ASSUME NEW x, NEW y, Sound(x), Talks(x, y) PROVE Steps(x, y)
<1>1. Passed(x) <=> Passed(y)
  BY DEF Talks, Passed
<1>2. IsZap(x) <=> IsZap(y)
  BY DEF Talks, IsZap
<1>3. ASSUME IsZap(x) PROVE Guarded(y)
  <2>1. Greeting(y)
    BY <1>3 DEF Sound, Guarded, Greeting, Talks
  <2>2. AsksOnce(y)
    BY <1>3 DEF Sound, Guarded, AsksOnce, Talks
  <2> QED BY <2>1, <2>2, <1>1, <1>3 DEF Guarded, Talks
<1> QED BY <1>1, <1>2, <1>3 DEF Steps, Sound, Talks

LEMMA ErrorGoes ==
  ASSUME NEW x, Sound(x), NEW reason \in Reasons PROVE Goes(x, Error(x, reason))
<1> DEFINE y == Error(x, reason)
<1>0. x \in EngineType
  BY DEF Sound
<1>1. y \in EngineType
  BY <1>0, TokensEmpty, Literals DEF Error, EngineType
<1>2. /\ Same(x, y) /\ y.timers = {} /\ y.out = <<>> /\ y.wire = x.wire
      /\ y.rc = x.rc /\ y.full = x.full /\ y.input_stopped = x.input_stopped
      /\ y.in = x.in /\ y.held = x.held
  BY <1>0 DEF Error, EngineType, Same
<1> HIDE DEF y
<1>3. Alike(x, y)
  BY <1>1, <1>2, TokensEmpty DEF Alike, Sound
<1> QED BY <1>2, <1>3, AlikeGoes DEF y

LEMMA FailsGoes ==
  ASSUME NEW x, Sound(x), NEW rc \in Codes, rc # "again" PROVE Goes(x, Fails(x, rc))
<1> DEFINE y == Fails(x, rc)
<1>0. x \in EngineType
  BY DEF Sound
<1>1. y \in EngineType
  BY <1>0 DEF Fails, EngineType
<1>2. /\ Same(x, y) /\ y.timers = x.timers /\ y.out = x.out /\ y.wire = x.wire
      /\ y.rc = rc /\ y.full = x.full /\ y.input_stopped = x.input_stopped
      /\ y.in = x.in /\ y.held = x.held
  BY <1>0 DEF Fails, EngineType, Same
<1> HIDE DEF y
<1>3. Alike(x, y)
  BY <1>1, <1>2 DEF Alike, Sound
<1> QED BY <1>2, <1>3, AlikeGoes DEF y

LEMMA AbortGoes == ASSUME NEW x, Sound(x) PROVE Goes(x, Abort(x))
<1> DEFINE y == Abort(x)
<1>0. x \in EngineType
  BY DEF Sound
<1>1. y \in EngineType
  <2>1. "aborted" \in Lives /\ "abort" \in Codes
    BY Literals
  <2> QED BY <1>0, <2>1 DEF Abort, EngineType
<1>2. /\ Same(x, y) /\ y.timers = {} /\ y.out = x.out /\ y.wire = x.wire
      /\ y.rc = "abort" /\ y.full = x.full /\ y.input_stopped = x.input_stopped
      /\ y.in = x.in /\ y.held = x.held
  BY <1>0 DEF Abort, EngineType, Same
<1> HIDE DEF y
<1>3. Alike(x, y)
  BY <1>1, <1>2 DEF Alike, Sound
<1> QED BY <1>2, <1>3, AlikeGoes DEF y

(* Of these three more is needed: that they leave the mechanism alone.      *)
Quiet(x, y) ==
  /\ Same(x, y) /\ y.timers = x.timers /\ y.wire = x.wire /\ y.rc = x.rc
  /\ y.full = x.full /\ y.input_stopped = x.input_stopped
  /\ y.in = x.in /\ y.held = x.held

LEMMA QuietGoes ==
  ASSUME NEW x, NEW y, Sound(x), Quiet(x, y), y \in EngineType,
         IsZap(x) => Passed(x) \/ (NoData(x.out) => NoData(y.out))
  PROVE  Goes(x, y)
<1>1. Alike(x, y)
  BY DEF Alike, Sound, Quiet
<1> QED BY <1>1, AlikeGoes DEF Quiet

LEMMA DryQuiet ==
  ASSUME NEW x \in EngineType
  PROVE  Dry(x) \in EngineType /\ Quiet(x, Dry(x)) /\ Dry(x).out = x.out
<1>1. Dry(x) \in EngineType
  BY DEF Dry, EngineType
<1>2. Quiet(x, Dry(x)) /\ Dry(x).out = x.out
  BY DEF Dry, EngineType, Quiet, Same
<1> QED BY <1>1, <1>2

LEMMA CountQuiet ==
  ASSUME NEW x \in EngineType
  PROVE  Count(x) \in EngineType /\ Quiet(x, Count(x)) /\ Count(x).out = x.out
<1> DEFINE n == x.nonce + 1
<1>1. x.nonce \in Int
  BY DEF EngineType
<1>2. n \in Int
  BY <1>1
<1>3. Count(x) = [x EXCEPT !.nonce = n]
  BY DEF Count
<1> HIDE DEF n
<1>4. [x EXCEPT !.nonce = n] \in EngineType
  BY <1>2 DEF EngineType
<1>5. Quiet(x, [x EXCEPT !.nonce = n]) /\ [x EXCEPT !.nonce = n].out = x.out
  BY DEF EngineType, Quiet, Same
<1> QED BY <1>3, <1>4, <1>5

LEMMA EmitQuiet ==
  ASSUME NEW x \in EngineType, NEW tok \in Token
  PROVE  /\ Emit(x, tok) \in EngineType /\ Quiet(x, Emit(x, tok))
         /\ tok.k # "data" => (NoData(x.out) => NoData(Emit(x, tok).out))
<1>0. x.out \in Seq(Token)
  BY DEF EngineType
<1>1. /\ Append(x.out, tok) \in Seq(Token)
      /\ NoData(x.out) /\ tok.k # "data" => NoData(Append(x.out, tok))
  BY <1>0, TokensAppend
<1> DEFINE s == Append(x.out, tok)
<1>2. Emit(x, tok) = [x EXCEPT !.out = s]
  BY DEF Emit
<1> HIDE DEF s
<1>3. [x EXCEPT !.out = s] \in EngineType
  BY <1>1 DEF EngineType, s
<1>4. Quiet(x, [x EXCEPT !.out = s]) /\ [x EXCEPT !.out = s].out = s
  BY DEF EngineType, Quiet, Same
<1> QED BY <1>1, <1>2, <1>3, <1>4 DEF s

LEMMA DryGoes == ASSUME NEW x, Sound(x) PROVE Goes(x, Dry(x))
BY DryQuiet, QuietGoes DEF Sound

LEMMA CountGoes == ASSUME NEW x, Sound(x) PROVE Goes(x, Count(x))
BY CountQuiet, QuietGoes DEF Sound

LEMMA EmitGoes ==
  ASSUME NEW x, Sound(x), NEW tok \in Token, IsZap(x) => Passed(x) \/ tok.k # "data"
  PROVE  Goes(x, Emit(x, tok))
BY EmitQuiet, QuietGoes DEF Sound

------------------------------------------------------------------------------
(* The mechanisms.                                                         *)

(* What a mechanism leaves alone, whatever it does; and that it leaves the *)
(* invariant's view of its own state alone as well.                        *)
Moved(x, y) ==
  /\ y \in EngineType
  /\ y.who = x.who /\ y.greet = x.greet /\ y.mech = x.mech /\ y.next = x.next
  /\ y.process = x.process /\ y.got = x.got /\ y.in = x.in /\ y.held = x.held
  /\ y.timers = x.timers /\ y.wire = x.wire /\ y.full = x.full
  /\ y.input_stopped = x.input_stopped
  /\ NoData(x.out) => NoData(y.out)
Marks(x, y) == y.state = x.state /\ y.did = x.did /\ y.zap = x.zap

Fits(x, y) == AsksOnce(y) /\ (Passed(x) => Passed(y)) /\ (~Passed(y) => Unready(y))

LEMMA ZapFacts ==
  ASSUME NEW x, Sound(x), x.mech # "none", IsZap(x)
  PROVE  /\ x.greet = "done" /\ x.mech = opt.mech["server"] /\ x.who = "server"
         /\ AsksOnce(x) /\ (~Passed(x) => Unready(x))
BY DEF Sound, Guarded, Greeting, Before, IsZap

LEMMA ZapServer ==
  ASSUME NEW x, Sound(x), opt \in Configs, IsZap(x), x.mech \notin {"none", "NULL"}
  PROVE  Server(x)
<1>1. opt.zap # "off"
  BY DEF IsZap
<1> QED BY <1>1, ZapFacts, EngineAssumption DEF Server

LEMMA MovedGoes ==
  ASSUME NEW x, NEW y, Sound(x), x.mech # "none", Moved(x, y), IsZap(x) => Fits(x, y)
  PROVE  Goes(x, y)
<1>1. IsZap(y) <=> IsZap(x)
  BY ZapKept DEF Moved
<1>2. ASSUME IsZap(x) PROVE Guarded(y)
  <2>1. x.greet = "done" /\ Greeting(y)
    BY <1>2, ZapFacts DEF Sound, Guarded, Greeting, Moved
  <2>2. ~Passed(y) => Before(y)
    BY <1>2 DEF Fits, Sound, Guarded, Before, Moved
  <2> QED BY <2>1, <2>2, <1>2 DEF Sound, Guarded, Moved, Fits
<1> QED BY <1>1, <1>2 DEF Goes, Steps, Sound, Clean, Moved, Fits

LEMMA MovedOn ==
  ASSUME NEW x, NEW y, NEW z, Moved(x, y), Moved(y, z)
  PROVE  Moved(x, z)
BY DEF Moved

LEMMA MarksGoes ==
  ASSUME NEW x, NEW y, Sound(x), x.mech # "none", Moved(x, y), Marks(x, y)
  PROVE  Goes(x, y)
<1>1. /\ y.mech = x.mech /\ y.state = x.state /\ y.did = x.did /\ y.zap = x.zap
  BY DEF Moved, Marks
<1>2. ASSUME IsZap(x) PROVE Fits(x, y)
  <2>1. AsksOnce(x) /\ (~Passed(x) => Unready(x))
    BY <1>2, ZapFacts
  <2>2. AsksOnce(y)
    BY <1>1, <2>1 DEF AsksOnce
  <2>3. Passed(x) <=> Passed(y)
    BY <1>1 DEF Passed
  <2>4. Unready(x) => Unready(y)
    BY <1>1 DEF Unready
  <2> QED BY <2>1, <2>2, <2>3, <2>4 DEF Fits
<1> QED BY <1>2, MovedGoes

LEMMA QuietMoves ==
  ASSUME NEW x, NEW y \in EngineType, Quiet(x, y), NoData(x.out) => NoData(y.out)
  PROVE  Moved(x, y) /\ Marks(x, y)
BY DEF Quiet, Same, Moved, Marks

LEMMA SetState ==
  ASSUME NEW x \in EngineType, NEW st \in States
  PROVE  LET y == [x EXCEPT !.state = st]
         IN  Moved(x, y) /\ y.state = st /\ y.did = x.did /\ y.zap = x.zap
<1>1. [x EXCEPT !.state = st] \in EngineType
  BY DEF EngineType
<1> QED BY <1>1 DEF Moved, EngineType

LEMMA SetDid ==
  ASSUME NEW x \in EngineType, NEW d \in SUBSET Flags
  PROVE  LET y == [x EXCEPT !.did = d]
         IN  Moved(x, y) /\ y.state = x.state /\ y.did = d /\ y.zap = x.zap
<1>1. [x EXCEPT !.did = d] \in EngineType
  BY DEF EngineType
<1> QED BY <1>1 DEF Moved, EngineType

LEMMA SetZap ==
  ASSUME NEW x \in EngineType, NEW z \in Zaps
  PROVE  LET y == [x EXCEPT !.zap = z]
         IN  Moved(x, y) /\ y.state = x.state /\ y.did = x.did /\ y.zap = z
<1>1. [x EXCEPT !.zap = z] \in EngineType
  BY DEF EngineType
<1> QED BY <1>1 DEF Moved, EngineType

ZapState(x, z, st) == [x EXCEPT !.zap = z, !.state = st]
LEMMA SetZapState ==
  ASSUME NEW x \in EngineType, NEW st \in States, NEW z \in Zaps
  PROVE  LET y == ZapState(x, z, st)
         IN  Moved(x, y) /\ y.state = st /\ y.did = x.did /\ y.zap = z
<1>1. ZapState(x, z, st) \in EngineType
  BY DEF EngineType, ZapState
<1> QED BY <1>1 DEF Moved, EngineType, ZapState

StateZap(x, st, z) == [x EXCEPT !.state = st, !.zap = z]
LEMMA SetStateZap ==
  ASSUME NEW x \in EngineType, NEW st \in States, NEW z \in Zaps
  PROVE  LET y == StateZap(x, st, z)
         IN  Moved(x, y) /\ y.state = st /\ y.did = x.did /\ y.zap = z
<1>1. StateZap(x, st, z) \in EngineType
  BY DEF EngineType, StateZap
<1> QED BY <1>1 DEF Moved, EngineType, StateZap

LEMMA SetNonce ==
  ASSUME NEW x \in EngineType, NEW n \in Int
  PROVE  LET y == [x EXCEPT !.peer_nonce = n] IN Moved(x, y) /\ Marks(x, y)
<1>1. [x EXCEPT !.peer_nonce = n] \in EngineType
  BY DEF EngineType
<1> QED BY <1>1 DEF Moved, Marks, EngineType

StateNonce(x, st, n) == [x EXCEPT !.state = st, !.peer_nonce = n]
LEMMA SetStateNonce ==
  ASSUME NEW x \in EngineType, NEW st \in States, NEW n \in Int
  PROVE  LET y == StateNonce(x, st, n)
         IN  Moved(x, y) /\ y.state = st /\ y.did = x.did /\ y.zap = x.zap
<1>1. StateNonce(x, st, n) \in EngineType
  BY DEF EngineType, StateNonce
<1> QED BY <1>1 DEF Moved, EngineType, StateNonce

LEMMA FailsMoves ==
  ASSUME NEW x \in EngineType
  PROVE  Moved(x, Fails(x, "proto")) /\ Marks(x, Fails(x, "proto"))
<1>1. "proto" \in Codes
  BY Literals
<1>2. Fails(x, "proto") \in EngineType
  BY <1>1 DEF Fails, EngineType
<1> QED BY <1>2 DEF Moved, Marks, Fails, EngineType

LEMMA DryMoves == ASSUME NEW x \in EngineType PROVE Moved(x, Dry(x)) /\ Marks(x, Dry(x))
BY DryQuiet, QuietMoves

LEMMA CountMoves == ASSUME NEW x \in EngineType PROVE Moved(x, Count(x)) /\ Marks(x, Count(x))
BY CountQuiet, QuietMoves

LEMMA EmitMoves ==
  ASSUME NEW x \in EngineType, NEW tok \in Token, tok.k # "data"
  PROVE  Moved(x, Emit(x, tok)) /\ Marks(x, Emit(x, tok))
BY EmitQuiet, QuietMoves

LEMMA MetadataMoves ==
  ASSUME NEW x \in EngineType
  PROVE  Moved(x, Metadata(x)) /\ Marks(x, Metadata(x))
<1>1. Moved(x, x) /\ Marks(x, x)
  BY DEF Moved, Marks
<1> QED BY <1>1, FailsMoves DEF Metadata

LEMMA ProduceMoves ==
  ASSUME NEW x \in EngineType, NEW to \in States, NEW tok \in Token, tok.k # "data"
  PROVE  LET y == Produce(x, to, tok)
         IN  Moved(x, y) /\ y.state = to /\ y.did = x.did /\ y.zap = x.zap
<1> DEFINE w == [x EXCEPT !.state = to]
           y == Emit(w, tok)
<1>1. Moved(x, w) /\ w.state = to /\ w.did = x.did /\ w.zap = x.zap
  BY SetState
<1>2. w \in EngineType
  BY <1>1 DEF Moved
<1>3. y = Produce(x, to, tok)
  BY DEF Produce
<1> HIDE DEF w
<1>4. Moved(w, y) /\ Marks(w, y)
  BY <1>2, EmitMoves
<1> HIDE DEF y
<1> QED BY <1>1, <1>3, <1>4, MovedOn DEF Marks

LEMMA VerdictIs ==
  /\ Verdict \in {"200", "denied"} /\ Verdict \in Zaps
  /\ Verdict = "200" => opt.allow
  /\ opt.allow => Verdict = "200"
BY DEF Verdict, Zaps

Named == Kinds \ {"data"}
LEMMA TokIs == \A k \in Named : Tok(k) \in Token /\ Tok(k).k # "data" /\ Tok(k).k = k
BY TokIsToken DEF Named

LEMMA SealedIs ==
  ASSUME NEW x \in EngineType, NEW tok \in Token
  PROVE  Sealed(x, tok) \in Token /\ Sealed(x, tok).k = tok.k
<1>1. x.nonce \in Int
  BY DEF EngineType
<1> QED BY <1>1 DEF Sealed, Token

(* NULL.                                                                   *)
LEMMA NullReplyGoes ==
  ASSUME NEW x, Sound(x), x.mech = "NULL", IsZap(x) => Passed(x) \/ x.zap = "denied"
  PROVE  Goes(x, NullReply(x))
<1>0. x \in EngineType /\ x.did \in SUBSET Flags
  BY DEF Sound, EngineType
<1>1. CASE x.zap = "denied"
  <2> DEFINE d == x.did \cup {"error_sent"}
             w == [x EXCEPT !.did = d]
             y == Emit(w, Tok("ERROR"))
  <2>0. Tok("ERROR") \in Token /\ Tok("ERROR").k # "data"
    <3>1. "ERROR" \in Named
      BY DEF Named, Kinds
    <3> QED BY <3>1, TokIs
  <2>1. d \in SUBSET Flags /\ ("ready_sent" \in d => "ready_sent" \in x.did)
    BY <1>0 DEF Flags
  <2>2. NullReply(x) = y
    BY <1>1 DEF NullReply
  <2> HIDE DEF d
  <2>3. Moved(x, w) /\ w.did = d /\ w.zap = x.zap
    BY <1>0, <2>1, SetDid
  <2> HIDE DEF w
  <2>4. Moved(w, y) /\ Marks(w, y)
    BY <2>0, <2>3, EmitMoves DEF Moved
  <2> HIDE DEF y
  <2>5. Moved(x, y) /\ y.did = d /\ y.zap = x.zap /\ y.mech = "NULL"
    BY <2>3, <2>4, MovedOn DEF Marks, Moved
  <2>6. ASSUME IsZap(x) PROVE Fits(x, y)
    <3>1. (~Passed(x) => Unready(x))
      BY <2>6, ZapFacts
    <3>2. AsksOnce(y)
      BY <2>5, <1>1 DEF AsksOnce
    <3> QED BY <2>1, <2>5, <3>1, <3>2 DEF Fits, Passed, Unready
  <2> QED BY <2>2, <2>5, <2>6, MovedGoes
<1>2. CASE x.zap # "denied"
  <2> DEFINE d == x.did \cup {"ready_sent"}
             w == [x EXCEPT !.did = d]
             y == Emit(w, Tok("READY"))
  <2>0. Tok("READY") \in Token /\ Tok("READY").k # "data"
    <3>1. "READY" \in Named
      BY DEF Named, Kinds
    <3> QED BY <3>1, TokIs
  <2>1. d \in SUBSET Flags
    BY <1>0 DEF Flags
  <2>2. NullReply(x) = y
    BY <1>2 DEF NullReply
  <2> HIDE DEF d
  <2>3. Moved(x, w) /\ w.did = d /\ w.zap = x.zap
    BY <1>0, <2>1, SetDid
  <2> HIDE DEF w
  <2>4. Moved(w, y) /\ Marks(w, y)
    BY <2>0, <2>3, EmitMoves DEF Moved
  <2> HIDE DEF y
  <2>5. Moved(x, y) /\ y.zap = x.zap /\ y.mech = "NULL"
    BY <2>3, <2>4, MovedOn DEF Marks, Moved
  <2>6. ASSUME IsZap(x) PROVE Fits(x, y)
    <3>1. Passed(x) /\ AsksOnce(x)
      BY <1>2, <2>6, ZapFacts
    <3>2. AsksOnce(y)
      BY <2>5, <3>1 DEF AsksOnce
    <3> QED BY <2>5, <3>1, <3>2 DEF Fits, Passed
  <2> QED BY <2>2, <2>5, <2>6, MovedGoes
<1> QED BY <1>1, <1>2

LEMMA NullVerdictGoes ==
  ASSUME NEW x, Sound(x), x.mech = "NULL"
  PROVE  /\ Goes(x, NullVerdict(x)) /\ NullVerdict(x).zap = Verdict
         /\ NullVerdict(x).mech = "NULL"
<1>0. x \in EngineType
  BY DEF Sound
<1> DEFINE y == NullVerdict(x)
<1>1. Moved(x, y) /\ y.did = x.did /\ y.zap = Verdict /\ y.mech = "NULL"
  BY <1>0, SetZap, VerdictIs DEF NullVerdict, Moved
<1> HIDE DEF y
<1>2. ASSUME IsZap(x) PROVE Fits(x, y)
  <2>1. ~Passed(x) => Unready(x)
    BY <1>2, ZapFacts
  <2>2. AsksOnce(y)
    BY <1>1, VerdictIs DEF AsksOnce
  <2>3. ~Passed(y) => ~Passed(x)
    BY <1>1, VerdictIs DEF Passed
  <2> QED BY <1>1, <2>1, <2>2, <2>3 DEF Fits, Unready
<1> QED BY <1>1, <1>2, MovedGoes DEF y

LEMMA NullNextGoes ==
  ASSUME NEW x, Sound(x), opt \in Configs, x.mech = "NULL"
  PROVE  Goes(x, NullNext(x))
<1>0. x \in EngineType /\ x.zap \in Zaps
  BY DEF Sound, EngineType
<1>1. CASE x.did \cap {"ready_sent", "error_sent"} # {} \/ x.zap = "asked"
  BY <1>1, DryGoes DEF NullNext
<1>2. CASE /\ ~(x.did \cap {"ready_sent", "error_sent"} # {} \/ x.zap = "asked")
           /\ IsZap(x) /\ x.zap = "none"
  <2>1. CASE opt.zap = "slow"
    <3> DEFINE w == [x EXCEPT !.zap = "asked"]
               y == Dry(w)
    <3>1. Moved(x, w) /\ w.did = x.did /\ w.zap = "asked"
      BY <1>0, SetZap, Literals
    <3>2. NullNext(x) = y
      BY <1>2, <2>1 DEF NullNext
    <3> HIDE DEF w
    <3>3. Moved(w, y) /\ Marks(w, y)
      BY <3>1, DryMoves DEF Moved
    <3> HIDE DEF y
    <3>4. Moved(x, y) /\ y.did = x.did /\ y.zap = "asked" /\ y.mech = "NULL"
      BY <3>1, <3>3, MovedOn DEF Marks, Moved
    <3>5. ~Passed(x) /\ Unready(x)
      BY <1>2, ZapFacts DEF Passed
    <3>6. Fits(x, y)
      BY <3>4, <3>5 DEF Fits, AsksOnce, Unready
    <3> QED BY <3>2, <3>4, <3>6, MovedGoes
  <2>2. CASE opt.zap # "slow"
    <3>1. Goes(x, NullVerdict(x)) /\ NullVerdict(x).zap = Verdict /\ NullVerdict(x).mech = "NULL"
      BY NullVerdictGoes
    <3>2. Passed(NullVerdict(x)) \/ NullVerdict(x).zap = "denied"
      BY <3>1, VerdictIs DEF Passed
    <3>3. Goes(NullVerdict(x), NullReply(NullVerdict(x)))
      BY <3>1, <3>2, NullReplyGoes DEF Goes, Steps
    <3> QED BY <1>2, <2>2, <3>1, <3>3, GoesOn DEF NullNext
  <2> QED BY <2>1, <2>2
<1>3. CASE /\ ~(x.did \cap {"ready_sent", "error_sent"} # {} \/ x.zap = "asked")
           /\ ~(IsZap(x) /\ x.zap = "none")
  <2>1. IsZap(x) => Passed(x) \/ x.zap = "denied"
    <3>1. ASSUME IsZap(x), x.zap = "200" PROVE Passed(x)
      BY <3>1, ZapFacts DEF AsksOnce, Passed
    <3> QED BY <1>0, <1>3, <3>1 DEF Zaps
  <2> QED BY <1>3, <2>1, NullReplyGoes DEF NullNext
<1> QED BY <1>1, <1>2, <1>3

LEMMA NullProcessGoes ==
  ASSUME NEW x, Sound(x), x.mech = "NULL", NEW tok \in Token
  PROVE  Goes(x, NullProcess(x, tok))
<1>0. x \in EngineType /\ x.did \in SUBSET Flags
  BY DEF Sound, EngineType
<1>1. Goes(x, Fails(x, "proto"))
  BY FailsGoes, Literals
<1>2. ASSUME NEW f \in {"ready_received", "error_received"}
      PROVE  LET w == [x EXCEPT !.did = @ \cup {f}]
             IN  Goes(x, w) /\ w \in EngineType /\ w.mech = "NULL"
  <2> DEFINE d == x.did \cup {f}
             w == [x EXCEPT !.did = d]
  <2>1. d \in SUBSET Flags /\ ("ready_sent" \in d => "ready_sent" \in x.did)
    BY <1>0, <1>2 DEF Flags
  <2> HIDE DEF d
  <2>2. Moved(x, w) /\ w.did = d /\ w.zap = x.zap /\ w.mech = "NULL"
    BY <1>0, <2>1, SetDid DEF Moved
  <2> HIDE DEF w
  <2>3. ASSUME IsZap(x) PROVE Fits(x, w)
    <3>1. (~Passed(x) => Unready(x)) /\ AsksOnce(x)
      BY <2>3, ZapFacts
    <3>2. AsksOnce(w)
      BY <2>2, <3>1 DEF AsksOnce
    <3> QED BY <2>1, <2>2, <3>1, <3>2 DEF Fits, Passed, Unready
  <2>4. Goes(x, w) /\ w \in EngineType
    BY <2>2, <2>3, MovedGoes DEF Moved
  <2> QED BY <2>2, <2>4 DEF w, d
<1> DEFINE w == [x EXCEPT !.did = @ \cup {"ready_received"}]
<1>3. Goes(x, w) /\ w \in EngineType /\ w.mech = "NULL"
  BY <1>2
<1> HIDE DEF w
<1>4. Goes(w, Metadata(w))
  BY <1>3, MetadataMoves, MarksGoes DEF Goes, Steps
<1>5. Goes(x, Metadata(w))
  BY <1>3, <1>4, GoesOn
<1> QED BY <1>1, <1>2, <1>5 DEF NullProcess, w

(* The other mechanisms are automata: Stated is what such a step changes.  *)
Stated(x) == x.mech \in {"PLAIN", "CURVE", "GSSAPI"}

LEMMA StateGoes ==
  ASSUME NEW x, NEW y, Sound(x), Stated(x), Moved(x, y), y.zap = x.zap,
         IsZap(x) => /\ Passed(x) \/ y.state \in Pending(x.mech)
                     /\ y.state \in Fresh(x.mech) => x.zap # "200"
  PROVE  Goes(x, y)
<1>1. x.mech \notin {"none", "NULL"} /\ y.mech = x.mech
  BY DEF Stated, Moved
<1>2. ASSUME IsZap(x) PROVE Fits(x, y)
  <2>1. AsksOnce(x) /\ (~Passed(x) => Unready(x))
    BY <1>1, <1>2, ZapFacts
  <2>2. AsksOnce(y)
    BY <1>1, <1>2, <2>1 DEF AsksOnce
  <2>3. Passed(x) <=> Passed(y)
    BY DEF Passed
  <2>4. ~Passed(y) => Unready(y)
    BY <1>1, <1>2, <2>3 DEF Unready
  <2> QED BY <2>2, <2>3, <2>4 DEF Fits
<1> QED BY <1>1, <1>2, MovedGoes

LEMMA StatedFacts ==
  ASSUME NEW x, Sound(x), Stated(x), IsZap(x)
  PROVE  /\ Passed(x) \/ x.state \in Pending(x.mech)
         /\ x.state \in Fresh(x.mech) => x.zap # "200"
<1>1. x.mech \notin {"none", "NULL"}
  BY DEF Stated
<1> QED BY <1>1, ZapFacts DEF AsksOnce, Unready

LEMMA JudgedGoes ==
  ASSUME NEW x, Sound(x), Stated(x), NEW yes \in States, NEW no \in States,
         no \in Pending(x.mech), yes \notin Fresh(x.mech)
  PROVE  LET y == Judged(x, yes, no)
         IN  Goes(x, y) /\ y.mech = x.mech
<1> DEFINE st == IF opt.allow THEN yes ELSE no
           y == ZapState(x, Verdict, st)
<1>0. x \in EngineType /\ st \in States /\ x.mech \notin {"none", "NULL"}
  BY DEF Sound, Stated
<1>1. Judged(x, yes, no) = y
  BY DEF Judged, ZapState
<1>2. (opt.allow => st = yes) /\ (~opt.allow => st = no)
  OBVIOUS
<1> HIDE DEF st
<1>6. Moved(x, y) /\ y.state = st /\ y.zap = Verdict
  BY <1>0, SetZapState, VerdictIs
<1> HIDE DEF y
<1>3. Moved(x, y) /\ y.state = st /\ y.zap = Verdict /\ y.mech = x.mech
  BY <1>6 DEF Moved
<1>4. ASSUME IsZap(x) PROVE Fits(x, y)
  <2>1. opt.allow => Passed(y)
    BY <1>3, VerdictIs DEF Passed
  <2>2. AsksOnce(y)
    <3>1. y.zap = "200" => opt.allow
      BY <1>3, VerdictIs
    <3>2. CASE opt.allow
      BY <1>2, <1>3, <3>1, <3>2 DEF AsksOnce
    <3>3. CASE ~opt.allow
      BY <1>3, <3>1, <3>3 DEF AsksOnce
    <3> QED BY <3>2, <3>3
  <2>3. ~Passed(y) => Unready(y)
    <3>1. ~opt.allow => Unready(y)
      BY <1>0, <1>2, <1>3 DEF Unready
    <3> QED BY <2>1, <3>1
  <2>4. Passed(x) => opt.allow
    BY DEF Passed
  <2> QED BY <2>1, <2>2, <2>3, <2>4 DEF Fits
<1>5. Goes(x, y)
  BY <1>0, <1>3, <1>4, MovedGoes
<1> QED BY <1>1, <1>3, <1>5

LEMMA AskedMoves ==
  ASSUME NEW x \in EngineType
  PROVE  LET y == StateZap(x, "wait zap", "asked")
         IN  Moved(x, y) /\ y.state = "wait zap" /\ y.zap = "asked"
<1>1. "asked" \in Zaps /\ "wait zap" \in States
  BY DEF Zaps, States
<1>2. \A st \in States, z \in Zaps :
        /\ Moved(x, StateZap(x, st, z))
        /\ StateZap(x, st, z).state = st /\ StateZap(x, st, z).zap = z
  BY SetStateZap
<1> QED BY <1>1, <1>2, Zenon

LEMMA AskedGoes ==
  ASSUME NEW x, Sound(x), Stated(x), IsZap(x) => x.zap # "200"
  PROVE  LET y == [x EXCEPT !.state = "wait zap", !.zap = "asked"]
         IN  Goes(x, y) /\ y.mech = x.mech
<1> DEFINE y == StateZap(x, "wait zap", "asked")
<1>0. x \in EngineType /\ x.mech \notin {"none", "NULL"}
  BY DEF Sound, Stated
<1>6. Moved(x, y) /\ y.state = "wait zap" /\ y.zap = "asked"
  BY <1>0, AskedMoves
<1> HIDE DEF y
<1>1. Moved(x, y) /\ y.state = "wait zap" /\ y.zap = "asked" /\ y.mech = x.mech
  BY <1>6 DEF Moved
<1>2. "wait zap" \in Pending(x.mech) /\ "wait zap" \notin Fresh(x.mech)
  <2>1. CASE x.mech = "PLAIN"
    BY <2>1 DEF Pending, Fresh
  <2>2. CASE x.mech = "CURVE"
    BY <2>2 DEF Pending, Fresh
  <2>3. CASE x.mech = "GSSAPI"
    BY <2>3 DEF Pending, Fresh
  <2> QED BY <2>1, <2>2, <2>3 DEF Stated
<1>3. IsZap(x) => Fits(x, y)
  BY <1>0, <1>1, <1>2 DEF Fits, Passed, AsksOnce, Unready
<1>4. Goes(x, y)
  BY <1>0, <1>1, <1>3, MovedGoes
<1> QED BY <1>1, <1>4 DEF y, StateZap

LEMMA MetadataGoes == ASSUME NEW x, Sound(x), x.mech # "none" PROVE Goes(x, Metadata(x))
BY MetadataMoves, MarksGoes DEF Sound

LEMMA RefusedGoes == ASSUME NEW x, Sound(x) PROVE Goes(x, Fails(x, "proto"))
<1>1. "proto" \in Codes
  BY Literals
<1> QED BY <1>1, FailsGoes

(* A new state without, and with, a command.                               *)
LEMMA ToGoes ==
  ASSUME NEW x, Sound(x), Stated(x), NEW to \in States,
         IsZap(x) => /\ Passed(x) \/ to \in Pending(x.mech)
                     /\ to \in Fresh(x.mech) => x.zap # "200"
  PROVE  LET y == [x EXCEPT !.state = to]
         IN  Goes(x, y) /\ Goes(x, Metadata(y)) /\ Sound(y) /\ y.mech = x.mech /\ y.zap = x.zap
<1> DEFINE y == [x EXCEPT !.state = to]
<1>1. Moved(x, y) /\ y.state = to /\ y.zap = x.zap
  BY SetState DEF Sound
<1> HIDE DEF y
<1>2. Goes(x, y) /\ y.mech = x.mech
  BY <1>1, StateGoes DEF Moved
<1>3. Goes(y, Metadata(y))
  BY <1>2, MetadataGoes DEF Goes, Steps, Stated
<1> QED BY <1>1, <1>2, <1>3, GoesOn DEF y, Goes, Steps

LEMMA ProduceGoes ==
  ASSUME NEW x, Sound(x), Stated(x), NEW to \in States, NEW tok \in Token, tok.k # "data",
         IsZap(x) => /\ Passed(x) \/ to \in Pending(x.mech)
                     /\ to \in Fresh(x.mech) => x.zap # "200"
  PROVE  Goes(x, Produce(x, to, tok))
<1> DEFINE y == Produce(x, to, tok)
<1>1. Moved(x, y) /\ y.state = to /\ y.zap = x.zap
  BY ProduceMoves DEF Sound
<1> HIDE DEF y
<1> QED BY <1>1, StateGoes DEF y

LEMMA SendGoes ==
  ASSUME NEW x, Sound(x), Stated(x), NEW to \in States, NEW k \in Named,
         IsZap(x) => /\ Passed(x) \/ to \in Pending(x.mech)
                     /\ to \in Fresh(x.mech) => x.zap # "200"
  PROVE  /\ Goes(x, Produce(x, to, Tok(k)))
         /\ Goes(x, Produce(Count(x), to, Sealed(x, Tok(k))))
<1>1. Tok(k) \in Token /\ Tok(k).k # "data"
  BY TokIs
<1>2. Goes(x, Produce(x, to, Tok(k)))
  BY <1>1, ProduceGoes
<1> DEFINE y == Count(x)
           tok == Sealed(x, Tok(k))
<1>3. tok \in Token /\ tok.k # "data"
  BY <1>1, SealedIs DEF Sound
<1>4. Goes(x, y) /\ Moved(x, y) /\ Marks(x, y)
  BY CountGoes, CountMoves DEF Sound
<1> HIDE DEF y, tok
<1>5. Sound(y) /\ y.mech = x.mech /\ y.zap = x.zap /\ (IsZap(y) => IsZap(x))
  BY <1>4, ZapKept DEF Goes, Steps, Moved, Marks
<1>6. Goes(y, Produce(y, to, tok))
  BY <1>3, <1>5, ProduceGoes DEF Stated, Passed
<1>7. Goes(x, Produce(y, to, tok))
  BY <1>4, <1>6, GoesOn
<1> QED BY <1>2, <1>7 DEF y, tok

LEMMA ExpectGoes ==
  ASSUME NEW x, NEW y, Sound(x), Goes(x, y), NEW states PROVE Goes(x, Expect(x, states, y))
BY RefusedGoes DEF Expect

(* PLAIN.                                                                  *)
LEMMA PlainClientNextGoes ==
  ASSUME NEW x, Sound(x), x.mech = "PLAIN", ~IsZap(x)
  PROVE  Goes(x, PlainClientNext(x))
<1>0. Stated(x)
  BY DEF Stated
<1>1. CASE x.state = "hello"
  <2>1. "wait welcome" \in States /\ "HELLO" \in Named
    BY DEF States, Named, Kinds
  <2> QED BY <1>0, <1>1, <2>1, SendGoes DEF PlainClientNext, PlainHello
<1>2. CASE x.state = "initiate"
  <2>1. "wait ready" \in States /\ "INITIATE" \in Named
    BY DEF States, Named, Kinds
  <2> QED BY <1>0, <1>2, <2>1, SendGoes DEF PlainClientNext, PlainInitiate
<1>3. CASE x.state \notin {"hello", "initiate"}
  BY <1>3, DryGoes DEF PlainClientNext
<1> QED BY <1>1, <1>2, <1>3

LEMMA PlainServerNextGoes ==
  ASSUME NEW x, Sound(x), x.mech = "PLAIN"
  PROVE  Goes(x, PlainServerNext(x))
<1>0. Stated(x)
  BY DEF Stated
<1>1. CASE x.state = "welcome"
  <2>1. "wait initiate" \in States /\ "WELCOME" \in Named
    BY DEF States, Named, Kinds
  <2>2. IsZap(x) => /\ Passed(x) \/ "wait initiate" \in Pending("PLAIN")
                    /\ "wait initiate" \in Fresh("PLAIN") => x.zap # "200"
    BY <1>0, <1>1, StatedFacts DEF Pending, Fresh
  <2>3. /\ Goes(x, Produce(x, "wait initiate", Tok("WELCOME")))
        /\ Goes(x, Produce(Count(x), "wait initiate", Sealed(x, Tok("WELCOME"))))
    BY <1>0, <2>1, <2>2, SendGoes
  <2> QED BY <1>1, <2>3 DEF PlainServerNext, PlainWelcome
<1>2. CASE x.state = "send ready"
  <2>1. "ready" \in States /\ "READY" \in Named
    BY DEF States, Named, Kinds
  <2>2. IsZap(x) => /\ Passed(x) \/ "ready" \in Pending("PLAIN")
                    /\ "ready" \in Fresh("PLAIN") => x.zap # "200"
    BY <1>0, <1>2, StatedFacts DEF Pending, Fresh
  <2>3. /\ Goes(x, Produce(x, "ready", Tok("READY")))
        /\ Goes(x, Produce(Count(x), "ready", Sealed(x, Tok("READY"))))
    BY <1>0, <2>1, <2>2, SendGoes
  <2> QED BY <1>2, <2>3 DEF PlainServerNext, PlainReady
<1>3. CASE x.state = "send error"
  <2>1. "error" \in States /\ "ERROR" \in Named
    BY DEF States, Named, Kinds
  <2>2. IsZap(x) => /\ Passed(x) \/ "error" \in Pending("PLAIN")
                    /\ "error" \in Fresh("PLAIN") => x.zap # "200"
    BY <1>0, <1>3, StatedFacts DEF Pending, Fresh
  <2>3. /\ Goes(x, Produce(x, "error", Tok("ERROR")))
        /\ Goes(x, Produce(Count(x), "error", Sealed(x, Tok("ERROR"))))
    BY <1>0, <2>1, <2>2, SendGoes
  <2> QED BY <1>3, <2>3 DEF PlainServerNext, PlainError
<1>4. CASE x.state \notin {"welcome", "send ready", "send error"}
  BY <1>4, DryGoes DEF PlainServerNext
<1> QED BY <1>1, <1>2, <1>3, <1>4

(* CURVE.                                                                  *)
LEMMA CurveClientNextGoes ==
  ASSUME NEW x, Sound(x), x.mech = "CURVE", ~IsZap(x)
  PROVE  Goes(x, CurveClientNext(x))
<1>0. Stated(x)
  BY DEF Stated
<1>1. CASE x.state = "hello"
  <2>1. "wait welcome" \in States /\ "HELLO" \in Named
    BY DEF States, Named, Kinds
  <2> QED BY <1>0, <1>1, <2>1, SendGoes DEF CurveClientNext, CurveHello
<1>2. CASE x.state = "initiate"
  <2>1. "wait ready" \in States /\ "INITIATE" \in Named
    BY DEF States, Named, Kinds
  <2> QED BY <1>0, <1>2, <2>1, SendGoes DEF CurveClientNext, CurveInitiate
<1>3. CASE x.state \notin {"hello", "initiate"}
  BY <1>3, DryGoes DEF CurveClientNext
<1> QED BY <1>1, <1>2, <1>3

LEMMA CurveServerNextGoes ==
  ASSUME NEW x, Sound(x), x.mech = "CURVE"
  PROVE  Goes(x, CurveServerNext(x))
<1>0. Stated(x)
  BY DEF Stated
<1>1. CASE x.state = "welcome"
  <2>1. "wait initiate" \in States /\ "WELCOME" \in Named
    BY DEF States, Named, Kinds
  <2>2. IsZap(x) => /\ Passed(x) \/ "wait initiate" \in Pending("CURVE")
                    /\ "wait initiate" \in Fresh("CURVE") => x.zap # "200"
    BY <1>0, <1>1, StatedFacts DEF Pending, Fresh
  <2>3. /\ Goes(x, Produce(x, "wait initiate", Tok("WELCOME")))
        /\ Goes(x, Produce(Count(x), "wait initiate", Sealed(x, Tok("WELCOME"))))
    BY <1>0, <2>1, <2>2, SendGoes
  <2> QED BY <1>1, <2>3 DEF CurveServerNext, CurveWelcome
<1>2. CASE x.state = "send ready"
  <2>1. "ready" \in States /\ "READY" \in Named
    BY DEF States, Named, Kinds
  <2>2. IsZap(x) => /\ Passed(x) \/ "ready" \in Pending("CURVE")
                    /\ "ready" \in Fresh("CURVE") => x.zap # "200"
    BY <1>0, <1>2, StatedFacts DEF Pending, Fresh
  <2>3. /\ Goes(x, Produce(x, "ready", Tok("READY")))
        /\ Goes(x, Produce(Count(x), "ready", Sealed(x, Tok("READY"))))
    BY <1>0, <2>1, <2>2, SendGoes
  <2> QED BY <1>2, <2>3 DEF CurveServerNext, CurveReady
<1>3. CASE x.state = "send error"
  <2>1. "error" \in States /\ "ERROR" \in Named
    BY DEF States, Named, Kinds
  <2>2. IsZap(x) => /\ Passed(x) \/ "error" \in Pending("CURVE")
                    /\ "error" \in Fresh("CURVE") => x.zap # "200"
    BY <1>0, <1>3, StatedFacts DEF Pending, Fresh
  <2>3. /\ Goes(x, Produce(x, "error", Tok("ERROR")))
        /\ Goes(x, Produce(Count(x), "error", Sealed(x, Tok("ERROR"))))
    BY <1>0, <2>1, <2>2, SendGoes
  <2> QED BY <1>3, <2>3 DEF CurveServerNext, CurveError
<1>4. CASE x.state \notin {"welcome", "send ready", "send error"}
  BY <1>4, DryGoes DEF CurveServerNext
<1> QED BY <1>1, <1>2, <1>3, <1>4

LEMMA PlainClientProcessGoes ==
  ASSUME NEW x, Sound(x), x.mech = "PLAIN", ~IsZap(x), NEW tok \in Token
  PROVE  Goes(x, PlainClientProcess(x, tok))
<1>0. Stated(x) /\ {"initiate", "ready", "error"} \subseteq States
  BY DEF Stated, States
<1>1. Goes(x, Fails(x, "proto"))
  BY RefusedGoes
<1>2. \A st \in {"initiate", "ready", "error"} :
        LET y == [x EXCEPT !.state = st] IN Goes(x, y) /\ Goes(x, Metadata(y))
  BY <1>0, ToGoes
<1>3. Goes(x, PlainProcessWelcome(x))
  BY <1>2, ExpectGoes DEF PlainProcessWelcome
<1>4. Goes(x, PlainProcessReady(x))
  BY <1>2, ExpectGoes DEF PlainProcessReady
<1>5. Goes(x, PlainProcessError(x))
  BY <1>2, ExpectGoes DEF PlainProcessError
<1> QED BY <1>1, <1>3, <1>4, <1>5 DEF PlainClientProcess

LEMMA PlainVerdictGoes ==
  ASSUME NEW x, Sound(x), x.mech = "PLAIN"
  PROVE  Goes(x, PlainVerdict(x))
<1>1. Stated(x) /\ "welcome" \in States /\ "send error" \in States
  BY DEF Stated, States
<1>2. "send error" \in Pending(x.mech) /\ "welcome" \notin Fresh(x.mech)
  BY DEF Pending, Fresh
<1> QED BY <1>1, <1>2, JudgedGoes DEF PlainVerdict

LEMMA PlainServerProcessGoes ==
  ASSUME NEW x, Sound(x), x.mech = "PLAIN", NEW tok \in Token
  PROVE  Goes(x, PlainServerProcess(x, tok))
<1>0. Stated(x) /\ "welcome" \in States /\ "send ready" \in States
  BY DEF Stated, States
<1>1. Goes(x, Fails(x, "proto"))
  BY RefusedGoes
<1>2. CASE x.state = "wait hello" /\ tok.k = "HELLO"
  <2>1. IsZap(x) => x.zap # "200"
    BY <1>0, <1>2, StatedFacts DEF Fresh
  <2>2. ~IsZap(x) => Goes(x, [x EXCEPT !.state = "welcome"])
    BY <1>0, ToGoes
  <2>3. Goes(x, [x EXCEPT !.state = "wait zap", !.zap = "asked"])
    BY <1>0, <2>1, AskedGoes
  <2>4. Goes(x, PlainAskZap(x))
    BY <2>2, <2>3, PlainVerdictGoes DEF PlainAskZap
  <2> QED BY <1>2, <2>4 DEF PlainServerProcess, PlainProcessHello
<1>3. CASE x.state = "wait initiate" /\ tok.k = "INITIATE"
  <2>1. IsZap(x) => Passed(x) /\ "send ready" \notin Fresh(x.mech)
    BY <1>0, <1>3, StatedFacts DEF Fresh, Pending
  <2>2. Goes(x, Metadata([x EXCEPT !.state = "send ready"]))
    BY <1>0, <2>1, ToGoes
  <2> QED BY <1>3, <2>2 DEF PlainServerProcess, PlainProcessInitiate
<1> QED BY <1>1, <1>2, <1>3 DEF PlainServerProcess, PlainProcessHello, PlainProcessInitiate

LEMMA CurveClientProcessGoes ==
  ASSUME NEW x, Sound(x), x.mech = "CURVE", ~IsZap(x), NEW tok \in Token
  PROVE  Goes(x, CurveClientProcess(x, tok))
<1>0. Stated(x) /\ {"initiate", "ready", "error"} \subseteq States /\ tok.n \in Int
  BY DEF Stated, States, Token
<1>1. Goes(x, Fails(x, "proto"))
  BY RefusedGoes
<1>2. \A st \in {"initiate", "error"} : Goes(x, [x EXCEPT !.state = st])
  BY <1>0, ToGoes
<1>3. Goes(x, CurveProcessReady(x, tok))
  <2> DEFINE y == StateNonce(x, "ready", tok.n)
  <2>1. Moved(x, y) /\ y.zap = x.zap
    BY <1>0, SetStateNonce DEF Sound
  <2>2. CurveProcessReady(x, tok) = Metadata(y)
    BY DEF CurveProcessReady, StateNonce
  <2> HIDE DEF y
  <2>3. Goes(x, y) /\ y.mech = x.mech
    BY <1>0, <2>1, StateGoes DEF Moved
  <2>4. Goes(y, Metadata(y))
    BY <2>3, MetadataGoes DEF Goes, Steps
  <2> QED BY <2>2, <2>3, <2>4, GoesOn
<1>4. Goes(x, CurveProcessWelcome(x)) /\ Goes(x, CurveProcessError(x))
  BY <1>2, ExpectGoes DEF CurveProcessWelcome, CurveProcessError
<1> QED BY <1>1, <1>3, <1>4 DEF CurveClientProcess

LEMMA CurveVerdictGoes ==
  ASSUME NEW x, Sound(x), x.mech = "CURVE"
  PROVE  Goes(x, CurveVerdict(x))
<1>1. Stated(x) /\ "send ready" \in States /\ "send error" \in States
  BY DEF Stated, States
<1>2. "send error" \in Pending(x.mech) /\ "send ready" \notin Fresh(x.mech)
  BY DEF Pending, Fresh
<1> QED BY <1>1, <1>2, JudgedGoes DEF CurveVerdict

LEMMA CurveAskZapGoes ==
  ASSUME NEW x, Sound(x), x.mech = "CURVE", x.state = "wait initiate"
  PROVE  Goes(x, CurveAskZap(x))
<1>0. Stated(x) /\ "send ready" \in States
  BY DEF Stated, States
<1>1. IsZap(x) => x.zap # "200"
  BY <1>0, StatedFacts DEF Fresh
<1>2. ~IsZap(x) => Goes(x, [x EXCEPT !.state = "send ready"])
  BY <1>0, ToGoes
<1>3. Goes(x, [x EXCEPT !.state = "wait zap", !.zap = "asked"])
  BY <1>0, <1>1, AskedGoes
<1> QED BY <1>2, <1>3, CurveVerdictGoes DEF CurveAskZap

LEMMA CurveServerProcessGoes ==
  ASSUME NEW x, Sound(x), x.mech = "CURVE", NEW tok \in Token
  PROVE  Goes(x, CurveServerProcess(x, tok))
<1>0. Stated(x) /\ "welcome" \in States /\ tok.n \in Int /\ x \in EngineType
  BY DEF Stated, States, Token, Sound
<1>1. Goes(x, Fails(x, "proto"))
  BY RefusedGoes
<1>2. CASE x.state = "wait hello" /\ tok.k = "HELLO"
  <2> DEFINE y == StateNonce(x, "welcome", tok.n)
  <2>1. Moved(x, y) /\ y.state = "welcome" /\ y.zap = x.zap
    BY <1>0, SetStateNonce
  <2>2. CurveProcessHello(x, tok) = y
    BY <1>2 DEF CurveProcessHello, StateNonce
  <2> HIDE DEF y
  <2>3. IsZap(x) => x.zap # "200" /\ "welcome" \in Pending(x.mech)
    BY <1>0, <1>2, StatedFacts DEF Fresh, Pending
  <2>4. Goes(x, y)
    BY <1>0, <2>1, <2>3, StateGoes
  <2> QED BY <1>2, <2>2, <2>4 DEF CurveServerProcess
<1>3. CASE x.state = "wait initiate" /\ tok.k = "INITIATE"
  <2> DEFINE y == [x EXCEPT !.peer_nonce = tok.n]
             z == CurveAskZap(y)
  <2>1. Moved(x, y) /\ Marks(x, y)
    BY <1>0, SetNonce
  <2>2. CurveProcessInitiate(x, tok) = Metadata(z)
    BY <1>3 DEF CurveProcessInitiate
  <2> HIDE DEF y
  <2>3. Goes(x, y) /\ y.mech = "CURVE" /\ y.state = "wait initiate" /\ Sound(y)
    BY <1>3, <2>1, MarksGoes DEF Moved, Marks, Goes, Steps
  <2>4. Goes(y, z)
    BY <2>3, CurveAskZapGoes
  <2>5. z.mech # "none"
    BY <2>3 DEF CurveAskZap, CurveVerdict, Judged, Sound, EngineType
  <2> HIDE DEF z
  <2>6. Goes(z, Metadata(z))
    BY <2>4, <2>5, MetadataGoes DEF Goes, Steps
  <2>7. Goes(x, Metadata(z))
    BY <2>3, <2>4, <2>6, GoesOn
  <2> QED BY <1>3, <2>2, <2>7 DEF CurveServerProcess
<1> QED BY <1>1, <1>2, <1>3 DEF CurveServerProcess, CurveProcessHello, CurveProcessInitiate

(* GSSAPI.                                                                 *)
LEMMA TokenFlagGoes ==
  ASSUME NEW x, Sound(x), Stated(x)
  PROVE  LET y == [x EXCEPT !.did = {"token"}]
         IN  /\ Goes(x, y) /\ Sound(y) /\ y.mech = x.mech /\ y.zap = x.zap
             /\ y.state = x.state /\ y.who = x.who
<1> DEFINE d == {"token"}
           y == [x EXCEPT !.did = d]
<1>0. d \in SUBSET Flags
  BY DEF Flags
<1> HIDE DEF d
<1>1. Moved(x, y) /\ y.state = x.state /\ y.zap = x.zap
  BY <1>0, SetDid DEF Sound
<1> HIDE DEF y
<1>2. y.state = x.state /\ (IsZap(x) => /\ Passed(x) \/ y.state \in Pending(x.mech)
                                        /\ y.state \in Fresh(x.mech) => x.zap # "200")
  BY <1>1, StatedFacts
<1>3. Goes(x, y)
  BY <1>1, <1>2, StateGoes
<1> QED BY <1>1, <1>3 DEF Goes, Steps, Moved, y, d

LEMMA GssProcessGoes ==
  ASSUME NEW x, Sound(x), Stated(x), NEW tok \in Token, NEW to \in States,
         IsZap(x) => /\ Passed(x) \/ to \in Pending(x.mech)
                     /\ to \in Fresh(x.mech) => x.zap # "200"
  PROVE  Goes(x, GssProcessReady(x, tok, to)) /\ Goes(x, GssProcessToken(x, tok, to))
<1>1. Goes(x, [x EXCEPT !.state = to]) /\ Goes(x, Metadata([x EXCEPT !.state = to]))
  BY ToGoes
<1> QED BY <1>1, RefusedGoes DEF GssProcessReady, GssProcessToken

LEMMA GssClientNextGoes ==
  ASSUME NEW x, Sound(x), x.mech = "GSSAPI", ~IsZap(x)
  PROVE  Goes(x, GssClientNext(x))
<1>0. /\ Stated(x) /\ {"ready", "recv next token", "recv ready"} \subseteq States
      /\ {"READY", "TOKEN", "empty"} \subseteq Named
  BY DEF Stated, States, Named, Kinds
<1>1. Goes(x, GssReady(x, "ready"))
  BY <1>0, SendGoes DEF GssReady
<1>2. Goes(x, GssNextToken(x))
  <2> DEFINE y == [x EXCEPT !.did = {"token"}]
  <2>1. Goes(x, y) /\ Sound(y) /\ y.mech = x.mech /\ y.who = x.who
    BY <1>0, TokenFlagGoes
  <2>2. GssNextToken(x) = IF "token" \notin x.did
                            THEN Produce(y, "recv next token", Tok("TOKEN"))
                          ELSE Produce(x, "recv ready", Tok("empty"))
    BY DEF GssNextToken
  <2> HIDE DEF y
  <2>3. ~IsZap(y) /\ Stated(y)
    BY <1>0, <2>1 DEF IsZap, Stated
  <2>4. Goes(y, Produce(y, "recv next token", Tok("TOKEN")))
    BY <1>0, <2>1, <2>3, SendGoes
  <2>5. Goes(x, Produce(x, "recv ready", Tok("empty")))
    BY <1>0, SendGoes
  <2>6. Goes(x, Produce(y, "recv next token", Tok("TOKEN")))
    BY <2>1, <2>4, GoesOn
  <2> QED BY <2>2, <2>5, <2>6
<1> QED BY <1>1, <1>2, DryGoes DEF GssClientNext

LEMMA GssClientProcessGoes ==
  ASSUME NEW x, Sound(x), x.mech = "GSSAPI", ~IsZap(x), NEW tok \in Token
  PROVE  Goes(x, GssClientProcess(x, tok))
<1>1. Stated(x) /\ "send ready" \in States /\ "call next init" \in States
  BY DEF Stated, States
<1>2. /\ Goes(x, GssProcessReady(x, tok, "send ready"))
      /\ Goes(x, GssProcessToken(x, tok, "call next init"))
  BY <1>1, GssProcessGoes
<1> QED BY <1>2, RefusedGoes DEF GssClientProcess

LEMMA GssServerNextGoes ==
  ASSUME NEW x, Sound(x), x.mech = "GSSAPI"
  PROVE  Goes(x, GssServerNext(x))
<1>0. /\ Stated(x) /\ "recv ready" \in States /\ "recv next token" \in States
      /\ "READY" \in Named /\ "TOKEN" \in Named
  BY DEF Stated, States, Named, Kinds
<1>1. CASE x.state = "send ready"
  <2>1. IsZap(x) => Passed(x) /\ "recv ready" \notin Fresh(x.mech)
    BY <1>0, <1>1, StatedFacts DEF Pending, Fresh
  <2>2. Goes(x, Produce(x, "recv ready", Tok("READY")))
    BY <1>0, <2>1, SendGoes
  <2> QED BY <1>1, <2>2 DEF GssServerNext, GssReady
<1>2. CASE x.state = "send next token"
  <2> DEFINE y == [x EXCEPT !.did = {"token"}]
  <2>1. Goes(x, y) /\ Sound(y) /\ y.mech = x.mech /\ y.zap = x.zap /\ y.who = x.who
    BY <1>0, TokenFlagGoes
  <2>2. GssServerNext(x) = Produce(y, "recv next token", Tok("TOKEN"))
    BY <1>2 DEF GssServerNext
  <2> HIDE DEF y
  <2>3. IsZap(y) => y.zap # "200" /\ "recv next token" \in Pending(y.mech)
    BY <1>0, <1>2, <2>1, StatedFacts, ZapKept DEF Pending, Fresh
  <2>4. Goes(y, Produce(y, "recv next token", Tok("TOKEN")))
    BY <1>0, <2>1, <2>3, SendGoes DEF Stated
  <2> QED BY <2>1, <2>2, <2>4, GoesOn
<1>3. CASE x.state \notin {"send ready", "send next token"}
  BY <1>3, DryGoes DEF GssServerNext
<1> QED BY <1>1, <1>2, <1>3

LEMMA GssVerdictGoes ==
  ASSUME NEW x, Sound(x), x.mech = "GSSAPI"
  PROVE  Goes(x, GssVerdict(x))
<1>0. /\ Stated(x) /\ "send ready" \in States /\ "none" \in States
      /\ x.mech \notin {"NULL", "none"}
  BY DEF Stated, States
<1>1. CASE opt.allow
  <2>1. "none" \in Pending(x.mech) /\ "send ready" \notin Fresh(x.mech)
    BY DEF Pending, Fresh
  <2> QED BY <1>0, <1>1, <2>1, JudgedGoes DEF GssVerdict
<1>2. CASE ~opt.allow
  <2> DEFINE y == [x EXCEPT !.zap = Verdict]
  <2>1. Verdict = "denied" /\ Verdict \in Zaps
    BY <1>2, VerdictIs
  <2>2. Moved(x, y) /\ y.state = x.state /\ y.zap = Verdict
    BY <2>1, SetZap DEF Sound
  <2>3. GssVerdict(x) = Fails(y, "proto")
    BY <1>2 DEF GssVerdict
  <2> HIDE DEF y
  <2>4. y.mech = x.mech
    BY <2>2 DEF Moved
  <2>5. ASSUME IsZap(x) PROVE Fits(x, y)
    <3>1. ~Passed(x) /\ AsksOnce(y)
      BY <1>2, <2>1, <2>2 DEF Passed, AsksOnce
    <3>2. Unready(y)
      BY <1>0, <2>2, <2>4, <2>5, <3>1, StatedFacts DEF Unready
    <3> QED BY <3>1, <3>2 DEF Fits
  <2>6. Goes(x, y)
    BY <1>0, <2>2, <2>5, MovedGoes
  <2>7. Goes(y, Fails(y, "proto"))
    BY <2>6, RefusedGoes DEF Goes, Steps
  <2> QED BY <2>3, <2>6, <2>7, GoesOn
<1> QED BY <1>1, <1>2

LEMMA GssServerProcessGoes ==
  ASSUME NEW x, Sound(x), x.mech = "GSSAPI", NEW tok \in Token
  PROVE  Goes(x, GssServerProcess(x, tok))
<1>0. Stated(x) /\ {"ready", "send next token", "send ready"} \subseteq States
  BY DEF Stated, States
<1>1. CASE x.state = "recv ready"
  <2>1. IsZap(x) => Passed(x) /\ "ready" \notin Fresh(x.mech)
    BY <1>0, <1>1, StatedFacts DEF Pending, Fresh
  <2>2. Goes(x, GssProcessReady(x, tok, "ready"))
    BY <1>0, <2>1, GssProcessGoes
  <2> QED BY <1>1, <2>2 DEF GssServerProcess
<1>2. CASE x.state = "recv next token"
  <2>1. IsZap(x) => x.zap # "200"
    BY <1>0, <1>2, StatedFacts DEF Fresh
  <2>2. "send next token" \in Pending(x.mech)
    BY DEF Pending
  <2>3. Goes(x, GssProcessToken(x, tok, "send next token"))
    BY <1>0, <2>1, <2>2, GssProcessGoes
  <2>4. ~IsZap(x) => Goes(x, [x EXCEPT !.state = "send ready"])
    BY <1>0, ToGoes
  <2>5. Goes(x, [x EXCEPT !.state = "wait zap", !.zap = "asked"])
    BY <1>0, <2>1, AskedGoes
  <2>6. Goes(x, GssAskZap(x))
    BY <2>4, <2>5, GssVerdictGoes DEF GssAskZap
  <2> QED BY <1>2, <2>3, <2>6 DEF GssServerProcess
<1>3. CASE x.state \notin {"recv ready", "recv next token"}
  BY <1>3, RefusedGoes DEF GssServerProcess
<1> QED BY <1>1, <1>2, <1>3

(* All of them; and encode() and decode().                                 *)
LEMMA MechNextGoes ==
  ASSUME NEW x, Sound(x), opt \in Configs, x.mech # "none"
  PROVE  Goes(x, MechNext(x))
<1>1. x.mech \in Mechanisms
  BY DEF Sound, EngineType
<1>2. x.mech # "NULL" /\ ~Server(x) => ~IsZap(x)
  BY ZapServer
<1>3. CASE x.mech = "NULL"
  BY <1>3, NullNextGoes DEF MechNext
<1>4. CASE x.mech = "PLAIN"
  BY <1>2, <1>4, PlainClientNextGoes, PlainServerNextGoes DEF MechNext
<1>5. CASE x.mech = "CURVE"
  BY <1>2, <1>5, CurveClientNextGoes, CurveServerNextGoes DEF MechNext
<1>6. CASE x.mech = "GSSAPI"
  BY <1>2, <1>6, GssClientNextGoes, GssServerNextGoes DEF MechNext
<1> QED BY <1>1, <1>3, <1>4, <1>5, <1>6 DEF Mechanisms

LEMMA MechProcessGoes ==
  ASSUME NEW x, Sound(x), opt \in Configs, x.mech # "none", NEW tok \in Token
  PROVE  Goes(x, MechProcess(x, tok))
<1>1. x.mech \in Mechanisms
  BY DEF Sound, EngineType
<1>2. x.mech # "NULL" /\ ~Server(x) => ~IsZap(x)
  BY ZapServer
<1>3. CASE x.mech = "NULL"
  BY <1>3, NullProcessGoes DEF MechProcess
<1>4. CASE x.mech = "PLAIN"
  BY <1>2, <1>4, PlainClientProcessGoes, PlainServerProcessGoes DEF MechProcess
<1>5. CASE x.mech = "CURVE"
  BY <1>2, <1>5, CurveClientProcessGoes, CurveServerProcessGoes DEF MechProcess
<1>6. CASE x.mech = "GSSAPI"
  BY <1>2, <1>6, GssClientProcessGoes, GssServerProcessGoes DEF MechProcess
<1> QED BY <1>1, <1>3, <1>4, <1>5, <1>6 DEF Mechanisms

LEMMA EncodeGoes ==
  ASSUME NEW x, Sound(x), NEW tok \in Token, IsZap(x) => Passed(x) \/ tok.k # "data"
  PROVE  Goes(x, Encode(x, tok))
<1>1. Goes(x, Emit(x, tok))
  BY EmitGoes
<1> DEFINE y == Count(x)
           t == Sealed(x, tok)
<1>2. t \in Token /\ t.k = tok.k
  BY SealedIs DEF Sound
<1>3. Goes(x, y) /\ y.zap = x.zap
  BY CountGoes, CountMoves DEF Marks, Sound
<1> HIDE DEF y, t
<1>4. Goes(y, Emit(y, t))
  BY <1>2, <1>3, EmitGoes, ZapKept DEF Goes, Steps, Passed
<1>5. Goes(x, Emit(y, t))
  BY <1>3, <1>4, GoesOn
<1> QED BY <1>1, <1>5 DEF Encode, CurveEncode, y, t

LEMMA DecodeGoes ==
  ASSUME NEW x, Sound(x), NEW tok \in Token PROVE Goes(x, Decode(x, tok))
<1>1. Goes(x, x) /\ Goes(x, Fails(x, "proto"))
  BY GoesSelf, RefusedGoes
<1> DEFINE y == [x EXCEPT !.peer_nonce = tok.n]
<1>2. ASSUME x.mech # "none" PROVE Goes(x, y)
  <2>1. Moved(x, y) /\ Marks(x, y)
    BY SetNonce DEF Sound, Token
  <2> QED BY <1>2, <2>1, MarksGoes
<1> QED BY <1>1, <1>2 DEF Decode, CurveDecode

------------------------------------------------------------------------------
(* Messages.                                                               *)

LEMMA TalksGoes ==
  ASSUME NEW x, NEW y, Sound(x), Talks(x, y),
         y.got = x.got, y.in = x.in, y.held = x.held
  PROVE  Goes(x, y)
BY TalksSteps DEF Goes, Clean

(* What a server with a handler may say of itself once it has passed.      *)
LEMMA TalkFacts ==
  ASSUME NEW x, Sound(x), IsZap(x), x.greet = "done"
  PROVE  /\ x.next # "identity" /\ x.process \notin {"identity", "push"}
         /\ x.process \in {"decode", "push one"} => Credited(x.got)
         /\ NoData(x.got) \/ Credited(x.got)
         /\ ~Passed(x) => x.next = "handshake" /\ x.process = "handshake"
BY DEF Sound, Guarded, Greeting, Before

LEMMA PushFacts ==
  ASSUME NEW x \in EngineType, NEW tok \in Token
  PROVE  LET y == Push(x, tok)
         IN  /\ y \in EngineType
             /\ y.who = x.who /\ y.greet = x.greet /\ y.mech = x.mech /\ y.state = x.state
             /\ y.did = x.did /\ y.zap = x.zap /\ y.next = x.next /\ y.process = x.process
             /\ y.timers = x.timers /\ y.wire = x.wire /\ y.in = x.in /\ y.held = x.held
             /\ y.got = x.got \/ y.got = Append(x.got, tok)
             /\ y.rc = "ok" /\ tok.k \notin Commands => y.got = Append(x.got, tok)
<1>1. CASE tok.k \in Commands
  BY <1>1 DEF Push
<1>2. CASE tok.k \notin Commands /\ x.queued < Hwm(x)
  <2> DEFINE q == x.queued + 1
             g == Append(x.got, tok)
             y == [x EXCEPT !.queued = q, !.got = g]
  <2>1. x.queued \in Int /\ x.got \in Seq(Token)
    BY DEF EngineType
  <2>2. q \in Int /\ g \in Seq(Token)
    BY <2>1
  <2>3. Push(x, tok) = y
    BY <1>2 DEF Push
  <2>4. g = Append(x.got, tok)
    OBVIOUS
  <2> HIDE DEF q, g
  <2>5. y \in EngineType
    BY <2>2 DEF EngineType
  <2>6. /\ y.who = x.who /\ y.greet = x.greet /\ y.mech = x.mech /\ y.state = x.state
        /\ y.did = x.did /\ y.zap = x.zap /\ y.next = x.next /\ y.process = x.process
        /\ y.timers = x.timers /\ y.wire = x.wire /\ y.in = x.in /\ y.held = x.held
        /\ y.got = g
    BY DEF EngineType
  <2> HIDE DEF y
  <2> QED BY <2>3, <2>4, <2>5, <2>6
<1>3. CASE tok.k \notin Commands /\ ~(x.queued < Hwm(x))
  <2> DEFINE y == [x EXCEPT !.full = TRUE, !.rc = "again"]
  <2>1. "again" \in Codes
    BY Literals
  <2>2. Push(x, tok) = y
    BY <1>3 DEF Push
  <2>3. y \in EngineType
    BY <2>1 DEF EngineType
  <2>4. /\ y.who = x.who /\ y.greet = x.greet /\ y.mech = x.mech /\ y.state = x.state
        /\ y.did = x.did /\ y.zap = x.zap /\ y.next = x.next /\ y.process = x.process
        /\ y.timers = x.timers /\ y.wire = x.wire /\ y.in = x.in /\ y.held = x.held
        /\ y.got = x.got /\ y.rc = "again"
    BY DEF EngineType
  <2> HIDE DEF y
  <2> QED BY <2>2, <2>3, <2>4
<1> QED BY <1>1, <1>2, <1>3

(* A message may be pushed when the client has passed and its credential   *)
(* is there.                                                               *)
LEMMA PushTakes ==
  ASSUME NEW x, Sound(x), NEW tok \in Token,
         IsZap(x) => /\ Passed(x) /\ x.greet = "done"
                     /\ tok.k = "data" => Credited(x.got)
  PROVE  LET y == Push(x, tok)
         IN  /\ Takes(x, tok, y) /\ y.process = x.process
             /\ IsZap(x) /\ tok.k = "credential" /\ y.rc = "ok" => Credited(y.got)
<1> DEFINE y == Push(x, tok)
<1>1. /\ y \in EngineType
      /\ y.who = x.who /\ y.greet = x.greet /\ y.mech = x.mech /\ y.state = x.state
      /\ y.did = x.did /\ y.zap = x.zap /\ y.next = x.next /\ y.process = x.process
      /\ y.timers = x.timers /\ y.wire = x.wire /\ y.in = x.in /\ y.held = x.held
      /\ y.got = x.got \/ y.got = Append(x.got, tok)
      /\ y.rc = "ok" /\ tok.k \notin Commands => y.got = Append(x.got, tok)
  BY PushFacts DEF Sound
<1> HIDE DEF y
<1>2. /\ NoData(x.got) /\ tok.k # "data" => NoData(y.got)
      /\ Credited(x.got) => Credited(y.got)
      /\ NoData(x.got) /\ tok.k = "credential" /\ y.got = Append(x.got, tok) => Credited(y.got)
  BY <1>1, TokensAppend, ZenonT(60) DEF Sound, EngineType
<1>3. ASSUME IsZap(x)
      PROVE  /\ y.next # "identity" /\ y.process \notin {"identity", "push"}
             /\ y.process \in {"decode", "push one"} => Credited(y.got)
             /\ NoData(y.got) \/ Credited(y.got)
  BY <1>1, <1>2, <1>3, TalkFacts
<1>4. Talks(x, y)
  BY <1>1, <1>2, <1>3 DEF Talks, Sound
<1>5. Steps(x, y)
  BY <1>4, TalksSteps
<1>6. tok.k # "data" => Goes(x, y)
  BY <1>1, <1>2, <1>5 DEF Goes, Clean
<1>7. ASSUME IsZap(x), tok.k = "credential", y.rc = "ok" PROVE Credited(y.got)
  <2>1. tok.k \notin Commands
    BY <1>7 DEF Commands
  <2> QED BY <1>1, <1>2, <1>7, <2>1, TalkFacts
<1> QED BY <1>1, <1>5, <1>6, <1>7 DEF Takes, y

(* mechanism_ready().                                                      *)
Bailed(z) == [z EXCEPT !.rc = "ok", !.bailed = TRUE]
Pulling(z) == [z EXCEPT !.next = "pull", !.process = "credential"]

LEMMA BailedGoes ==
  ASSUME NEW x, Sound(x) PROVE Goes(x, Bailed(x))
<1> DEFINE y == Bailed(x)
<1>0. x \in EngineType /\ "ok" \in Codes
  BY Literals DEF Sound
<1>1. y \in EngineType
  BY <1>0 DEF Bailed, EngineType
<1>2. /\ Same(x, y) /\ y.timers = x.timers /\ y.out = x.out /\ y.wire = x.wire
      /\ y.rc = "ok" /\ y.full = x.full /\ y.input_stopped = x.input_stopped
      /\ y.in = x.in /\ y.held = x.held
  BY <1>0 DEF Bailed, EngineType, Same
<1> HIDE DEF y
<1>3. Alike(x, y)
  BY <1>1, <1>2 DEF Alike, Sound
<1> QED BY <1>2, <1>3, AlikeGoes DEF y

LEMMA PullingGoes ==
  ASSUME NEW x, Sound(x), IsZap(x) => Passed(x) /\ x.greet = "done"
  PROVE  Goes(x, Pulling(x))
<1> DEFINE y == Pulling(x)
<1>0. x \in EngineType /\ "pull" \in Nexts /\ "credential" \in Processes
  BY DEF Sound, Nexts, Processes
<1>1. y \in EngineType
  BY <1>0 DEF Pulling, EngineType
<1>2. /\ y.who = x.who /\ y.greet = x.greet /\ y.mech = x.mech /\ y.state = x.state
      /\ y.did = x.did /\ y.zap = x.zap /\ y.next = "pull" /\ y.process = "credential"
      /\ y.wire = x.wire /\ y.got = x.got /\ y.in = x.in /\ y.held = x.held
  BY <1>0 DEF Pulling, EngineType
<1> HIDE DEF y
<1>3. Talks(x, y)
  BY <1>1, <1>2, TalkFacts DEF Talks, Sound
<1> QED BY <1>2, <1>3, TalksGoes DEF y

LEMMA TimersGoes ==
  ASSUME NEW x, Sound(x), NEW t \in SUBSET Timers,
         "interval" \in t => "interval" \in x.timers \/ (IsZap(x) => Passed(x) /\ x.greet = "done")
  PROVE  Goes(x, [x EXCEPT !.timers = t])
<1> DEFINE y == [x EXCEPT !.timers = t]
<1>0. x \in EngineType
  BY DEF Sound
<1>1. y \in EngineType
  BY <1>0 DEF EngineType
<1>2. /\ Same(x, y) /\ y.timers = t /\ y.out = x.out /\ y.wire = x.wire
      /\ y.rc = x.rc /\ y.full = x.full /\ y.input_stopped = x.input_stopped
      /\ y.in = x.in /\ y.held = x.held
  BY <1>0 DEF EngineType, Same
<1> HIDE DEF y
<1>3. CASE "interval" \in t => "interval" \in x.timers
  <2>1. Alike(x, y)
    BY <1>1, <1>2, <1>3 DEF Alike, Sound
  <2> QED BY <1>2, <2>1, AlikeGoes DEF y
<1>4. CASE IsZap(x) => Passed(x) /\ x.greet = "done"
  <2>1. Talks(x, y)
    BY <1>1, <1>2, <1>4, TalkFacts DEF Talks, Sound, Same
  <2> QED BY <1>2, <2>1, TalksGoes DEF y, Same
<1> QED BY <1>3, <1>4

LEMMA MechanismReadyGoes ==
  ASSUME NEW x, Sound(x), IsZap(x) => Passed(x) /\ x.greet = "done"
  PROVE  Goes(x, MechanismReady(x))
<1> DEFINE t == x.timers \cup (IF opt.heartbeat THEN {"interval"} ELSE {})
           y == [x EXCEPT !.timers = t]
           z == IF opt.recv_identity /\ x.who = "server" THEN Push(y, Tok("identity")) ELSE y
<1>1. t \in SUBSET Timers
  BY DEF Sound, EngineType, Timers
<1>2. MechanismReady(x) = IF z.rc # "ok" THEN Bailed(z) ELSE Pulling(z)
  BY DEF MechanismReady, Bailed, Pulling
<1> HIDE DEF t
<1>3. Goes(x, y)
  BY <1>1, TimersGoes
<1> HIDE DEF y
<1>4. Sound(y) /\ (IsZap(y) => Passed(y) /\ y.greet = "done")
  BY <1>3, ZapKept DEF Goes, Steps
<1>5. Tok("identity") \in Token /\ Tok("identity").k # "data"
  <2>1. "identity" \in Named
    BY DEF Named, Kinds
  <2> QED BY <2>1, TokIs
<1>6. Goes(y, z)
  BY <1>4, <1>5, GoesSelf, PushTakes DEF Takes
<1> HIDE DEF z
<1>7. Sound(z) /\ (IsZap(z) => Passed(z) /\ z.greet = "done")
  BY <1>4, <1>6, ZapKept DEF Goes, Steps
<1>8. Goes(z, Bailed(z)) /\ Goes(z, Pulling(z))
  BY <1>7, BailedGoes, PullingGoes
<1> QED BY <1>2, <1>3, <1>6, <1>8, GoesOn

LEMMA PullAndEncodeGoes ==
  ASSUME NEW x, Sound(x), IsZap(x) => Passed(x)
  PROVE  Goes(x, PullAndEncode(x))
<1>0. x \in EngineType /\ x.to_send \in Seq(Token)
  BY DEF Sound, EngineType
<1>1. Goes(x, Dry([x EXCEPT !.asleep = TRUE]))
  <2> DEFINE y == [x EXCEPT !.asleep = TRUE]
  <2>1. y \in EngineType
    BY <1>0 DEF EngineType
  <2>2. Quiet(x, y)
    BY <1>0 DEF EngineType, Quiet, Same
  <2> HIDE DEF y
  <2>3. Goes(x, y)
    BY <2>1, <2>2, QuietGoes
  <2>4. Goes(y, Dry(y))
    BY <2>3, DryGoes DEF Goes, Steps
  <2> QED BY <2>3, <2>4, GoesOn DEF y
<1>2. ASSUME x.to_send # <<>>
      PROVE  Goes(x, Encode([x EXCEPT !.to_send = Tail(@)], Head(x.to_send)))
  <2> DEFINE s == Tail(x.to_send)
             y == [x EXCEPT !.to_send = s]
  <2>1. s \in Seq(Token) /\ Head(x.to_send) \in Token
    BY <1>0, <1>2
  <2> HIDE DEF s
  <2>2. y \in EngineType
    BY <1>0, <2>1 DEF EngineType
  <2>3. Quiet(x, y)
    BY <1>0 DEF EngineType, Quiet, Same
  <2> HIDE DEF y
  <2>4. Goes(x, y)
    BY <2>2, <2>3, QuietGoes
  <2>5. Sound(y) /\ (IsZap(y) => Passed(y))
    BY <2>4, ZapKept DEF Goes, Steps
  <2>6. Goes(y, Encode(y, Head(x.to_send)))
    BY <2>1, <2>5, EncodeGoes
  <2> QED BY <2>4, <2>6, GoesOn DEF y, s
<1> QED BY <1>1, <1>2 DEF PullAndEncode

LEMMA ReadyPassed ==
  ASSUME NEW x, Sound(x), IsZap(x), x.mech # "none", Status(x) = "ready"
  PROVE  Passed(x)
<1> SUFFICES ASSUME ~Passed(x) PROVE FALSE
  OBVIOUS
<1>1. Unready(x)
  BY ZapFacts
<1>2. x.mech \in Mechanisms
  BY DEF Sound, EngineType
<1>3. CASE x.mech = "NULL"
  BY <1>1, <1>3 DEF Unready, Status, NullStatus
<1>4. CASE x.mech # "NULL"
  <2>1. x.state = "ready"
    BY <1>4 DEF Status
  <2>2. "ready" \notin Pending(x.mech)
    BY <1>2, <1>4 DEF Mechanisms, Pending
  <2> QED BY <1>1, <1>4, <2>1, <2>2 DEF Unready
<1> QED BY <1>3, <1>4

LEMMA NextHandshakeCommandGoes ==
  ASSUME NEW x, Sound(x), opt \in Configs, x.mech # "none"
  PROVE  Goes(x, NextHandshakeCommand(x))
<1>1. CASE Status(x) = "ready"
  <2> DEFINE y == MechanismReady(x)
  <2>1. IsZap(x) => Passed(x) /\ x.greet = "done"
    BY <1>1, ReadyPassed, ZapFacts
  <2>2. Goes(x, y)
    BY <2>1, MechanismReadyGoes
  <2> HIDE DEF y
  <2>3. Sound(y) /\ (IsZap(y) => Passed(y))
    BY <2>1, <2>2, ZapKept DEF Goes, Steps
  <2>4. Goes(y, PullAndEncode(y))
    BY <2>3, PullAndEncodeGoes
  <2>5. Goes(x, PullAndEncode(y))
    BY <2>2, <2>4, GoesOn
  <2> QED BY <1>1, <2>5 DEF NextHandshakeCommand, y
<1>2. CASE Status(x) # "ready"
  BY <1>2, DryGoes, MechNextGoes DEF NextHandshakeCommand
<1> QED BY <1>1, <1>2

(* next_msg becomes pull; with a timer in a ping.                          *)
Pull(x) == [x EXCEPT !.next = "pull"]
LEMMA PullGoes ==
  ASSUME NEW x, Sound(x), IsZap(x) => Passed(x) /\ x.greet = "done"
  PROVE  Goes(x, Pull(x))
<1> DEFINE y == Pull(x)
<1>0. x \in EngineType /\ "pull" \in Nexts
  BY DEF Sound, Nexts
<1>1. y \in EngineType
  BY <1>0 DEF Pull, EngineType
<1>2. /\ y.who = x.who /\ y.greet = x.greet /\ y.mech = x.mech /\ y.state = x.state
      /\ y.did = x.did /\ y.zap = x.zap /\ y.next = "pull" /\ y.process = x.process
      /\ y.wire = x.wire /\ y.got = x.got /\ y.in = x.in /\ y.held = x.held
  BY <1>0 DEF Pull, EngineType
<1> HIDE DEF y
<1>3. Talks(x, y)
  BY <1>1, <1>2, TalkFacts DEF Talks, Sound
<1> QED BY <1>2, <1>3, TalksGoes DEF y

LEMMA NextMsgGoes ==
  ASSUME NEW x, Sound(x), opt \in Configs, IsZap(x) => x.greet = "done"
  PROVE  Goes(x, NextMsg(x))
<1>0. x \in EngineType /\ x.next \in Nexts
  BY DEF Sound, EngineType
<1>1. CASE x.next = "identity"
  <2>1. ~IsZap(x)
    BY <1>1, TalkFacts
  <2>2. Goes(x, Pull(x))
    BY <2>1, PullGoes
  <2>3. "identity" \in Named
    BY DEF Named, Kinds
  <2>4. Tok("identity") \in Token /\ Tok("identity").k # "data"
    BY <2>3, TokIs
  <2>5. Goes(Pull(x), Emit(Pull(x), Tok("identity")))
    BY <2>2, <2>4, EmitGoes DEF Goes, Steps
  <2>6. Goes(x, Emit(Pull(x), Tok("identity")))
    BY <2>2, <2>5, GoesOn
  <2> QED BY <1>1, <2>6 DEF NextMsg, Pull
<1>2. CASE x.next = "handshake"
  <2>1. x.mech # "none"
    BY <1>2 DEF Sound
  <2> QED BY <1>2, <2>1, NextHandshakeCommandGoes DEF NextMsg
<1>3. CASE x.next \in {"pull", "ping", "pong"}
  <2>1. IsZap(x) => Passed(x) /\ x.greet = "done"
    BY <1>3, TalkFacts
  <2>2. Goes(x, PullAndEncode(x))
    BY <2>1, PullAndEncodeGoes
  <2>3. {"PING", "PONG"} \subseteq Named
    BY DEF Named, Kinds
  <2>4. ASSUME NEW k \in {"PING", "PONG"}
        PROVE  LET y == Encode(x, Tok(k))
               IN  Goes(x, y) /\ Goes(x, Pull(y)) /\ Sound(Pull(y))
    <3> DEFINE y == Encode(x, Tok(k))
    <3>1. Tok(k) \in Token /\ Tok(k).k # "data"
      BY <2>3, <2>4, TokIs
    <3>2. Goes(x, y)
      BY <3>1, EncodeGoes
    <3> HIDE DEF y
    <3>3. Goes(y, Pull(y))
      BY <2>1, <3>2, PullGoes, ZapKept DEF Goes, Steps
    <3> QED BY <3>2, <3>3, GoesOn DEF Goes, Steps, y
  <2>5. Goes(x, ProducePong(x))
    BY <2>4 DEF ProducePong, Pull
  <2>6. Goes(x, ProducePing(x))
    <3> DEFINE y == Pull(Encode(x, Tok("PING")))
               t == y.timers \cup {"timeout"}
    <3>1. Goes(x, y) /\ Sound(y)
      BY <2>4
    <3>2. ProducePing(x) = [y EXCEPT !.timers = t]
      <4> DEFINE w == Encode(x, Tok("PING"))
      <4>1. w \in EngineType
        BY <2>4 DEF Goes, Steps, Sound
      <4> HIDE DEF w
      <4>2. [w EXCEPT !.next = "pull", !.timers = @ \cup {"timeout"}]
              = [Pull(w) EXCEPT !.timers = Pull(w).timers \cup {"timeout"}]
        BY <4>1 DEF Pull, EngineType
      <4> QED BY <4>2 DEF ProducePing, w
    <3> HIDE DEF y
    <3>3. t \in SUBSET Timers /\ ("interval" \in t => "interval" \in y.timers)
      BY <3>1 DEF Sound, EngineType, Timers
    <3> HIDE DEF t
    <3>4. Goes(y, [y EXCEPT !.timers = t])
      BY <3>1, <3>3, TimersGoes
    <3> QED BY <3>1, <3>2, <3>4, GoesOn
  <2> QED BY <1>3, <2>2, <2>5, <2>6 DEF NextMsg
<1> QED BY <1>0, <1>1, <1>2, <1>3 DEF Nexts

------------------------------------------------------------------------------
(* Induction, over a set of numbers, and the loop of out_event().          *)

LEMMA SetInduction ==
  ASSUME NEW S, 0 \in S, \A n \in Nat : n \in S => n + 1 \in S
  PROVE  Nat \subseteq S
<1> DEFINE Bad == {n \in Nat : n \notin S}
           T == {0 .. k : k \in Bad}
<1> SUFFICES ASSUME Bad # {} PROVE FALSE
  OBVIOUS
<1>1. T \subseteq FiniteSubsetsOf(Nat) /\ T # {}
  <2>1. ASSUME NEW k \in Bad PROVE 0 .. k \in FiniteSubsetsOf(Nat)
    <3>1. k \in Int /\ 0 .. k \subseteq Nat
      OBVIOUS
    <3>2. IsFiniteSet(0 .. k)
      BY <3>1, FS_Interval
    <3> QED BY <3>1, <3>2 DEF FiniteSubsetsOf
  <2>2. T # {}
    OBVIOUS
  <2>3. T \subseteq FiniteSubsetsOf(Nat)
    BY <2>1
  <2> QED BY <2>2, <2>3
<1>2. PICK x \in T : \A y \in T : ~(<<y, x>> \in StrictSubsetOrdering(Nat))
  BY <1>1, FS_StrictSubsetOrderingWellFounded, WFMin
<1>3. PICK k \in Bad : x = 0 .. k
  OBVIOUS
<1>4. k # 0 /\ k - 1 \in Bad
  OBVIOUS
<1>5. <<0 .. (k - 1), x>> \in StrictSubsetOrdering(Nat)
  <2>1. 0 .. (k - 1) \subseteq 0 .. k /\ k \in 0 .. k /\ k \notin 0 .. (k - 1)
    BY <1>4
  <2> QED BY <2>1, <1>3, <1>4 DEF StrictSubsetOrdering
<1> QED BY <1>2, <1>4, <1>5

(* A recursive function of that loop's form exists and obeys its equations. *)
LoadIs(x0, n, g) ==
  g = [i \in 0 .. n |->
         IF i = 0 THEN x0
         ELSE CHOOSE z \in {IF y.dry THEN y ELSE NextMsg(y) : y \in {g[i - 1]}} : TRUE]

LEMMA LoadExists == ASSUME NEW x0, NEW n \in Nat PROVE \E g : LoadIs(x0, n, g)
<1> DEFINE S == {m \in Nat : \E g : LoadIs(x0, m, g)}
<1>1. 0 \in S
  <2>1. LoadIs(x0, 0, [i \in 0 .. 0 |-> x0])
    BY DEF LoadIs
  <2> QED BY <2>1
<1>2. ASSUME NEW m \in Nat, m \in S PROVE m + 1 \in S
  <2>1. PICK g : LoadIs(x0, m, g)
    BY <1>2
  <2> DEFINE last == CHOOSE z \in {IF y.dry THEN y ELSE NextMsg(y) : y \in {g[m]}} : TRUE
             h == [i \in 0 .. m + 1 |-> IF i = m + 1 THEN last ELSE g[i]]
  <2>2. \A i \in 0 .. m : h[i] = g[i]
    OBVIOUS
  <2>3. h[m + 1] = last
    OBVIOUS
  <2>4. DOMAIN h = 0 .. m + 1 /\ h = [i \in 0 .. m + 1 |-> h[i]]
    OBVIOUS
  <2>5. ASSUME NEW i \in 0 .. m + 1
        PROVE  h[i] = IF i = 0 THEN x0
                      ELSE CHOOSE z \in {IF y.dry THEN y ELSE NextMsg(y) : y \in {h[i - 1]}} : TRUE
    <3>1. CASE i = m + 1
      BY <2>2, <2>3, <3>1
    <3>2. CASE i \in 0 .. m
      <4>1. h[i] = g[i] /\ (i # 0 => h[i - 1] = g[i - 1])
        BY <2>2, <3>2
      <4> HIDE DEF h
      <4>2. g[i] = IF i = 0 THEN x0
                   ELSE CHOOSE z \in {IF y.dry THEN y ELSE NextMsg(y) : y \in {g[i - 1]}} : TRUE
        BY <2>1, <3>2 DEF LoadIs
      <4> QED BY <4>1, <4>2
    <3> QED BY <3>1, <3>2
  <2> HIDE DEF h
  <2>6. LoadIs(x0, m + 1, h)
    BY <2>4, <2>5 DEF LoadIs
  <2> QED BY <2>6
<1> HIDE DEF S
<1>3. Nat \subseteq S
  BY <1>1, <1>2, SetInduction
<1> QED BY <1>3 DEF S

LEMMA OnceGoes ==
  ASSUME NEW x, Sound(x), opt \in Configs, IsZap(x) => x.greet = "done"
  PROVE  Goes(x, IF x.dry THEN x ELSE NextMsg(x))
BY GoesSelf, NextMsgGoes

LEMMA LoadGoes ==
  ASSUME NEW x, Sound(x), opt \in Configs, IsZap(x) => x.greet = "done"
  PROVE  Goes(x, Load(x))
<1> DEFINE x0 == [x EXCEPT !.dry = FALSE]
<1>1. Goes(x, x0)
  <2>1. x \in EngineType
    BY DEF Sound
  <2>2. x0 \in EngineType
    BY <2>1 DEF EngineType
  <2>3. Quiet(x, x0) /\ x0.out = x.out
    BY <2>1 DEF EngineType, Quiet, Same
  <2> HIDE DEF x0
  <2> QED BY <2>2, <2>3, QuietGoes
<1> DEFINE f == CHOOSE g : LoadIs(x0, Batch, g)
<1>2. Load(x) = f[Batch]
  BY DEF Load, LoadIs
<1> HIDE DEF x0
<1>3. Batch \in Nat
  BY EngineAssumption
<1>4. f = [i \in 0 .. Batch |->
             IF i = 0 THEN x0
             ELSE CHOOSE z \in {IF y.dry THEN y ELSE NextMsg(y) : y \in {f[i - 1]}} : TRUE]
  <2>1. \E g : LoadIs(x0, Batch, g)
    BY <1>3, LoadExists
  <2>2. LoadIs(x0, Batch, f)
    BY <2>1, Zenon
  <2> HIDE DEF f
  <2> QED BY <2>2 DEF LoadIs
<1> HIDE DEF f
<1>5. f[0] = x0
  BY <1>3, <1>4
<1>6. ASSUME NEW n \in Nat, n + 1 \in 0 .. Batch
      PROVE  f[n + 1] = IF f[n].dry THEN f[n] ELSE NextMsg(f[n])
  <2>1. f[n + 1] = CHOOSE z \in {IF y.dry THEN y ELSE NextMsg(y) : y \in {f[n]}} : TRUE
    <3>1. (n + 1) - 1 = n /\ n + 1 # 0
      OBVIOUS
    <3> QED BY <1>4, <1>6, <3>1
  <2>2. \A w : (CHOOSE z \in {w} : TRUE) = w
    OBVIOUS
  <2>3. {IF y.dry THEN y ELSE NextMsg(y) : y \in {f[n]}}
          = {IF f[n].dry THEN f[n] ELSE NextMsg(f[n])}
    OBVIOUS
  <2> QED BY <2>1, <2>2, <2>3
<1> DEFINE S == {n \in Nat : n <= Batch => Goes(x, f[n])}
<1>7. 0 \in S
  BY <1>1, <1>5
<1>8. ASSUME NEW n \in Nat, n \in S PROVE n + 1 \in S
  <2> SUFFICES ASSUME n + 1 <= Batch PROVE Goes(x, f[n + 1])
    BY <1>3
  <2>1. Goes(x, f[n]) /\ n + 1 \in 0 .. Batch
    BY <1>3, <1>8
  <2>2. Sound(f[n]) /\ (IsZap(f[n]) => f[n].greet = "done")
    BY <2>1, ZapKept DEF Goes, Steps
  <2>3. Goes(f[n], f[n + 1])
    BY <1>6, <2>1, <2>2, OnceGoes
  <2> QED BY <2>1, <2>3, GoesOn
<1> HIDE DEF S
<1>9. Nat \subseteq S
  BY <1>7, <1>8, SetInduction
<1>10. Goes(x, f[Batch])
  BY <1>3, <1>9 DEF S
<1> QED BY <1>2, <1>10

(* The network, and the two ends of out_event().                           *)
LEMMA WriteGoes == ASSUME NEW x, Sound(x) PROVE Goes(x, Write(x))
<1> DEFINE n == IF Len(x.out) < Capacity - Len(x.wire) THEN Len(x.out)
                ELSE Capacity - Len(x.wire)
           w == x.wire \o SubSeq(x.out, 1, n)
           o == SubSeq(x.out, n + 1, Len(x.out))
           p == x.pollout /\ ~(x.greet # "done" /\ n = Len(x.out))
           y == [x EXCEPT !.wire = w, !.out = o, !.pollout = p]
<1>0. /\ x \in EngineType /\ x.wire \in Seq(Token) /\ x.out \in Seq(Token)
      /\ Len(x.wire) <= Capacity /\ Capacity \in Nat /\ x.pollout \in BOOLEAN
  BY EngineAssumption DEF Sound, EngineType
<1>1. Write(x) = y
  BY DEF Write
<1>9. Len(x.out) \in Nat /\ Len(x.wire) \in Nat
  BY <1>0
<1>2. n \in 0 .. Len(x.out) /\ Len(x.wire) + n <= Capacity
  <2> DEFINE a == Len(x.out)
             b == Len(x.wire)
  <2>1. a \in Nat /\ b \in Nat /\ b <= Capacity /\ Capacity \in Nat
    BY <1>0, <1>9
  <2>2. n = IF a < Capacity - b THEN a ELSE Capacity - b
    OBVIOUS
  <2> HIDE DEF a, b, n
  <2>3. n \in 0 .. a /\ b + n <= Capacity
    BY <2>1, <2>2
  <2> QED BY <2>3 DEF a, b
<1> HIDE DEF n
<1>3. /\ SubSeq(x.out, 1, n) \in Seq(Token) /\ Len(SubSeq(x.out, 1, n)) = n
      /\ o \in Seq(Token)
      /\ NoData(x.out) => NoData(SubSeq(x.out, 1, n)) /\ NoData(o)
  <2>1. Len(SubSeq(x.out, 1, n)) = n
    BY <1>0, <1>2, <1>9
  <2>2. n \in Int /\ n <= Len(x.out) /\ 1 \in Nat \ {0} /\ n + 1 \in Nat \ {0}
    BY <1>2, <1>9
  <2>3. /\ SubSeq(x.out, 1, n) \in Seq(Token)
        /\ NoData(x.out) => NoData(SubSeq(x.out, 1, n))
    BY <1>0, <2>2, TokensPart
  <2>4. o \in Seq(Token) /\ (NoData(x.out) => NoData(o))
    BY <1>0, <1>9, <2>2, TokensPart
  <2> QED BY <2>1, <2>3, <2>4
<1>4. w \in Seq(Token) /\ Len(w) <= Capacity /\ p \in BOOLEAN
  <2>1. w \in Seq(Token) /\ Len(w) = Len(x.wire) + Len(SubSeq(x.out, 1, n))
    BY <1>0, <1>3
  <2> QED BY <1>2, <1>3, <2>1
<1>5. NoData(x.out) /\ NoData(x.wire) => NoData(o) /\ NoData(w)
  BY <1>0, <1>3, TokensConcat
<1> HIDE DEF w, o, p
<1>6. y \in EngineType
  BY <1>0, <1>3, <1>4 DEF EngineType
<1>7. /\ Same(x, y) /\ y.timers = x.timers /\ y.out = o /\ y.wire = w
      /\ y.rc = x.rc /\ y.full = x.full /\ y.input_stopped = x.input_stopped
      /\ y.in = x.in /\ y.held = x.held
  BY <1>0 DEF EngineType, Same
<1> HIDE DEF y
<1>8. Alike(x, y)
  BY <1>4, <1>5, <1>6, <1>7 DEF Alike
<1> QED BY <1>1, <1>7, <1>8, AlikeGoes

LEMMA WriteOrStopGoes == ASSUME NEW x, Sound(x) PROVE Goes(x, WriteOrStop(x))
<1> DEFINE y == [x EXCEPT !.output_stopped = TRUE, !.pollout = FALSE]
<1>0. x \in EngineType
  BY DEF Sound
<1>1. y \in EngineType
  BY <1>0 DEF EngineType
<1>2. Quiet(x, y) /\ y.out = x.out
  BY <1>0 DEF EngineType, Quiet, Same
<1> HIDE DEF y
<1>3. Goes(x, y)
  BY <1>1, <1>2, QuietGoes
<1> QED BY <1>3, WriteGoes DEF WriteOrStop, y

LEMMA OutEventGoes ==
  ASSUME NEW x, Sound(x), opt \in Configs
  PROVE  Goes(x, OutEvent(x))
<1>1. CASE x.io_error
  BY <1>1, AbortGoes DEF OutEvent
<1>2. CASE ~x.io_error /\ x.out = <<>> /\ x.greet # "done"
  BY <1>2, GoesSelf DEF OutEvent
<1>3. CASE ~x.io_error /\ ~(x.out = <<>> /\ x.greet # "done")
  <2> DEFINE y == IF x.out = <<>> THEN Load(x) ELSE x
  <2>1. Goes(x, y)
    BY <1>3, LoadGoes, GoesSelf
  <2>2. OutEvent(x) = WriteOrStop(y)
    BY <1>3 DEF OutEvent
  <2> HIDE DEF y
  <2>3. Goes(y, WriteOrStop(y))
    BY <2>1, WriteOrStopGoes DEF Goes, Steps
  <2> QED BY <2>1, <2>2, <2>3, GoesOn
<1> QED BY <1>1, <1>2, <1>3

LEMMA RestartOutputGoes ==
  ASSUME NEW x, Sound(x), opt \in Configs
  PROVE  Goes(x, RestartOutput(x))
<1> DEFINE p == x.pollout \/ x.output_stopped
           y == [x EXCEPT !.pollout = p, !.output_stopped = FALSE]
<1>0. x \in EngineType /\ p \in BOOLEAN
  BY DEF Sound, EngineType
<1>1. RestartOutput(x) = IF x.io_error THEN x ELSE OutEvent(y)
  BY DEF RestartOutput
<1> HIDE DEF p
<1>2. y \in EngineType
  BY <1>0 DEF EngineType
<1>3. Quiet(x, y) /\ y.out = x.out
  BY <1>0 DEF EngineType, Quiet, Same
<1> HIDE DEF y
<1>4. Goes(x, y)
  BY <1>2, <1>3, QuietGoes
<1>5. Goes(y, OutEvent(y))
  BY <1>4, OutEventGoes DEF Goes, Steps
<1> QED BY <1>1, <1>4, <1>5, GoesOn, GoesSelf

LEMMA AnswerGoes ==
  ASSUME NEW x, Sound(x), opt \in Configs
  PROVE  Goes(x, Answer(x))
BY RestartOutputGoes, GoesSelf DEF Answer

------------------------------------------------------------------------------
(* Input.                                                                  *)

LEMMA ZapMech ==
  ASSUME NEW x, Sound(x), opt \in Configs, IsZap(x), x.greet = "done"
  PROVE  x.mech # "none"
<1>1. x.mech = opt.mech["server"]
  BY DEF Sound, Guarded, Greeting
<1>2. opt.mech["server"] \in Mechanisms
  BY EngineAssumption DEF Ends
<1> QED BY <1>1, <1>2 DEF Mechanisms

LEMMA ProceedGoes ==
  ASSUME NEW x, Sound(x), opt \in Configs, IsZap(x) => x.greet = "done"
  PROVE  Goes(x, Proceed(x))
<1> DEFINE y == IF Status(x) = "ready" THEN MechanismReady(x) ELSE x
<1>1. Status(x) = "ready" => (IsZap(x) => Passed(x) /\ x.greet = "done")
  BY ZapMech, ReadyPassed
<1>2. Goes(x, y)
  BY <1>1, MechanismReadyGoes, GoesSelf
<1>3. Proceed(x) = IF Status(x) = "error" THEN Fails(x, "proto") ELSE Answer(y)
  BY DEF Proceed
<1> HIDE DEF y
<1>4. Goes(x, Answer(y))
  BY <1>2, AnswerGoes, GoesOn DEF Goes, Steps
<1> QED BY <1>3, <1>4, RefusedGoes

LEMMA ProcessHandshakeCommandGoes ==
  ASSUME NEW x, Sound(x), opt \in Configs, x.mech # "none", NEW tok \in Token
  PROVE  Goes(x, ProcessHandshakeCommand(x, tok))
<1> DEFINE y == MechProcess(x, tok)
<1>1. Goes(x, y)
  BY MechProcessGoes
<1>2. ProcessHandshakeCommand(x, tok) = IF y.rc = "ok" THEN Proceed(y) ELSE y
  BY DEF ProcessHandshakeCommand, IfOk
<1> HIDE DEF y
<1>3. Sound(y) /\ (IsZap(y) => y.greet = "done")
  BY <1>1, ZapFacts, ZapKept DEF Goes, Steps
<1>4. Goes(y, Proceed(y))
  BY <1>3, ProceedGoes
<1> QED BY <1>1, <1>2, <1>4, GoesOn

(* process_msg is set to p.                                                *)
Will(x, p) == [x EXCEPT !.process = p]
LEMMA WillGoes ==
  ASSUME NEW x, Sound(x), NEW p \in Processes, p # "handshake",
         IsZap(x) => /\ Passed(x) /\ x.greet = "done" /\ p \notin {"identity", "push"}
                     /\ p \in {"decode", "push one"} => Credited(x.got)
  PROVE  Goes(x, Will(x, p)) /\ Will(x, p).got = x.got
<1> DEFINE y == Will(x, p)
<1>0. x \in EngineType
  BY DEF Sound
<1>1. y \in EngineType
  BY <1>0 DEF Will, EngineType
<1>2. /\ y.who = x.who /\ y.greet = x.greet /\ y.mech = x.mech /\ y.state = x.state
      /\ y.did = x.did /\ y.zap = x.zap /\ y.next = x.next /\ y.process = p
      /\ y.wire = x.wire /\ y.got = x.got /\ y.in = x.in /\ y.held = x.held
  BY <1>0 DEF Will, EngineType
<1> HIDE DEF y
<1>3. Talks(x, y)
  BY <1>1, <1>2, TalkFacts DEF Talks, Sound
<1> QED BY <1>2, <1>3, TalksGoes DEF y

LEMMA ProcessIdentityMsgGoes ==
  ASSUME NEW x, Sound(x), ~IsZap(x), NEW tok \in Token
  PROVE  Goes(x, ProcessIdentityMsg(x, tok))
<1> DEFINE y == IF opt.recv_identity /\ x.who = "server" THEN Push(x, Tok("identity")) ELSE x
<1>1. Tok("identity") \in Token /\ Tok("identity").k # "data"
  <2>1. "identity" \in Named
    BY DEF Named, Kinds
  <2> QED BY <2>1, TokIs
<1>2. Goes(x, y)
  BY <1>1, PushTakes, GoesSelf DEF Takes
<1>3. ProcessIdentityMsg(x, tok) = IF y.rc # "ok" THEN Abort(y) ELSE Will(y, "push")
  BY DEF ProcessIdentityMsg, Will
<1> HIDE DEF y
<1>4. Sound(y) /\ ~IsZap(y)
  BY <1>2, ZapKept DEF Goes, Steps
<1>5. Goes(y, Abort(y))
  BY <1>4, AbortGoes
<1>6. Goes(y, Will(y, "push"))
  <2>1. "push" \in Processes
    BY DEF Processes
  <2> QED BY <1>4, <2>1, WillGoes
<1> QED BY <1>2, <1>3, <1>5, <1>6, GoesOn

(* What is known of a server with a handler when messages are exchanged.   *)
Trusted(x) == IsZap(x) => Passed(x) /\ x.greet = "done" /\ Credited(x.got)

LEMMA TrustedOn ==
  ASSUME NEW x, NEW y, Trusted(x), Steps(x, y) PROVE Trusted(y)
BY ZapKept DEF Trusted, Steps

LEMMA ProcessHeartbeatGoes ==
  ASSUME NEW x, Sound(x), opt \in Configs, Trusted(x), NEW tok \in Token
  PROVE  Goes(x, ProcessHeartbeat(x, tok))
<1> DEFINE t == x.timers \cup {"ttl"}
           y == [x EXCEPT !.timers = t, !.next = "pong"]
<1>1. ProcessHeartbeat(x, tok) = IF tok.k # "PING" THEN x ELSE OutEvent(y)
  BY DEF ProcessHeartbeat
<1>2. x \in EngineType /\ t \in SUBSET Timers /\ "pong" \in Nexts
  BY DEF Sound, EngineType, Timers, Nexts
<1> HIDE DEF t
<1>3. y \in EngineType
  BY <1>2 DEF EngineType
<1>4. /\ y.who = x.who /\ y.greet = x.greet /\ y.mech = x.mech /\ y.state = x.state
      /\ y.did = x.did /\ y.zap = x.zap /\ y.next = "pong" /\ y.process = x.process
      /\ y.wire = x.wire /\ y.got = x.got /\ y.in = x.in /\ y.held = x.held
  BY <1>2 DEF EngineType
<1> HIDE DEF y
<1>5. Talks(x, y)
  BY <1>3, <1>4, TalkFacts DEF Talks, Sound, Trusted
<1>6. Goes(x, y)
  BY <1>4, <1>5, TalksGoes
<1>7. Goes(y, OutEvent(y))
  BY <1>6, OutEventGoes DEF Goes, Steps
<1> QED BY <1>1, <1>6, <1>7, GoesOn, GoesSelf

LEMMA HeardGoes == ASSUME NEW x, Sound(x) PROVE Goes(x, Heard(x))
<1> DEFINE t == x.timers \ {"timeout", "ttl"}
<1>1. t \in SUBSET Timers /\ ("interval" \in t => "interval" \in x.timers)
  BY DEF Sound, EngineType
<1> HIDE DEF t
<1>2. Goes(x, [x EXCEPT !.timers = t])
  BY <1>1, TimersGoes
<1> QED BY <1>2 DEF Heard, t

LEMMA DecoderGoes == ASSUME NEW x, Sound(x), Trusted(x) PROVE Goes(x, Decoder(x))
<1>1. "push one" \in Processes
  BY DEF Processes
<1>2. Goes(x, Will(x, "push one"))
  BY <1>1, WillGoes DEF Trusted
<1> QED BY <1>2, GoesSelf DEF Decoder, Will

LEMMA DecodeAndPushTakes ==
  ASSUME NEW x, Sound(x), opt \in Configs, Trusted(x), NEW tok \in Token
  PROVE  Takes(x, tok, DecodeAndPush(x, tok))
<1> DEFINE y == Decode(x, tok)
           h == Heard(y)
           z == ProcessHeartbeat(h, tok)
           w == Push(z, tok)
<1>1. DecodeAndPush(x, tok)
        = IF y.rc = "ok" THEN IF z.rc = "ok" THEN Decoder(w) ELSE z ELSE y
  BY DEF DecodeAndPush, IfOk
<1>2. Goes(x, y)
  BY DecodeGoes
<1> HIDE DEF y
<1>3. Goes(x, h)
  BY <1>2, HeardGoes, GoesOn DEF Goes, Steps
<1> HIDE DEF h
<1>4. Sound(h) /\ Trusted(h)
  BY <1>3, TrustedOn DEF Goes, Steps
<1>5. Goes(x, z)
  BY <1>3, <1>4, ProcessHeartbeatGoes, GoesOn
<1> HIDE DEF z
<1>6. Sound(z) /\ Trusted(z)
  BY <1>5, TrustedOn DEF Goes, Steps
<1>7. Takes(z, tok, w)
  BY <1>6, PushTakes DEF Trusted
<1> HIDE DEF w
<1>8. Sound(w) /\ Trusted(w)
  BY <1>6, <1>7, TrustedOn DEF Takes, Steps
<1>9. Goes(w, Decoder(w))
  BY <1>8, DecoderGoes
<1>10. Takes(z, tok, Decoder(w))
  BY <1>7, <1>9, TakesOn
<1>11. Takes(x, tok, Decoder(w))
  BY <1>5, <1>10, TakesOn
<1> QED BY <1>1, <1>2, <1>5, <1>11 DEF Takes, Goes

LEMMA PushOneTakes ==
  ASSUME NEW x, Sound(x), opt \in Configs, Trusted(x), NEW tok \in Token
  PROVE  Takes(x, tok, PushOne(x, tok))
<1> DEFINE y == Push(x, tok)
<1>1. Takes(x, tok, y)
  BY PushTakes DEF Trusted
<1>2. PushOne(x, tok) = IF y.rc = "ok" THEN Will(y, "decode") ELSE y
  BY DEF PushOne, Will
<1> HIDE DEF y
<1>3. Sound(y) /\ Trusted(y)
  BY <1>1, TrustedOn DEF Takes, Steps
<1>4. "decode" \in Processes
  BY DEF Processes
<1>5. Goes(y, Will(y, "decode"))
  BY <1>3, <1>4, WillGoes DEF Trusted
<1>6. Takes(x, tok, Will(y, "decode"))
  BY <1>1, <1>5, TakesOn
<1> QED BY <1>1, <1>2, <1>6

LEMMA WriteCredentialTakes ==
  ASSUME NEW x, Sound(x), opt \in Configs, NEW tok \in Token,
         IsZap(x) => Passed(x) /\ x.greet = "done"
  PROVE  Takes(x, tok, WriteCredential(x, tok))
<1> DEFINE y == IF x.zap = "200" THEN Push(x, Tok("credential")) ELSE x
           z == Will(y, "decode")
<1>1. WriteCredential(x, tok) = IF y.rc = "ok" THEN DecodeAndPush(z, tok) ELSE y
  BY DEF WriteCredential, IfOk, Will
<1>2. /\ Tok("credential") \in Token /\ Tok("credential").k # "data"
      /\ Tok("credential").k = "credential"
  <2>1. "credential" \in Named
    BY DEF Named, Kinds
  <2> QED BY <2>1, TokIs
<1>3. Goes(x, y)
  BY <1>2, PushTakes, GoesSelf DEF Takes
<1>4. IsZap(x) /\ y.rc = "ok" => Credited(y.got)
  BY <1>2, PushTakes DEF Passed
<1> HIDE DEF y
<1>5. CASE y.rc = "ok"
  <2>1. Sound(y) /\ Trusted(y)
    BY <1>3, <1>4, <1>5, ZapKept DEF Goes, Steps, Trusted
  <2>2. "decode" \in Processes
    BY DEF Processes
  <2>3. Goes(y, z)
    BY <2>1, <2>2, WillGoes DEF Trusted
  <2> HIDE DEF z
  <2>4. Sound(z) /\ Trusted(z)
    BY <2>1, <2>3, TrustedOn DEF Goes, Steps
  <2>5. Takes(z, tok, DecodeAndPush(z, tok))
    BY <2>4, DecodeAndPushTakes
  <2>6. Takes(x, tok, DecodeAndPush(z, tok))
    BY <1>3, <2>3, <2>5, GoesOn, TakesOn
  <2> QED BY <1>1, <1>5, <2>6
<1>6. CASE y.rc # "ok"
  BY <1>1, <1>3, <1>6 DEF Takes, Goes
<1> QED BY <1>5, <1>6

LEMMA HoldTakes ==
  ASSUME NEW x, Sound(x), NEW tok \in Token
  PROVE  Takes(x, tok, Hold(x, tok))
<1> DEFINE y == [x EXCEPT !.held = tok]
<1>0. x \in EngineType
  BY DEF Sound
<1>1. y \in EngineType
  BY <1>0 DEF EngineType
<1>2. /\ Same(x, y) /\ y.timers = x.timers /\ y.out = x.out /\ y.wire = x.wire
      /\ y.rc = x.rc /\ y.full = x.full /\ y.input_stopped = x.input_stopped
      /\ y.in = x.in /\ y.held = tok
  BY <1>0 DEF EngineType, Same
<1> HIDE DEF y
<1>3. Steps(x, y)
  <2>1. Alike(x, y)
    BY <1>1, <1>2 DEF Alike, Sound
  <2> QED BY <2>1, AlikeSteps
<1>4. Takes(x, tok, y)
  BY <1>2, <1>3 DEF Takes, Goes, Clean, Same
<1>5. Takes(x, tok, x)
  BY GoesSelf DEF Takes, Goes
<1> QED BY <1>4, <1>5 DEF Hold, y

LEMMA ProcessMsgTakes ==
  ASSUME NEW x, Sound(x), opt \in Configs, NEW tok \in Token, IsZap(x) => x.greet = "done"
  PROVE  Takes(x, tok, ProcessMsg(x, tok))
<1> DEFINE y == CASE tok.v > opt.maxmsgsize    -> Fails(x, "proto")
                  [] x.process = "identity"   -> ProcessIdentityMsg(x, tok)
                  [] x.process = "handshake"  -> ProcessHandshakeCommand(x, tok)
                  [] x.process = "credential" -> WriteCredential(x, tok)
                  [] x.process = "decode"     -> DecodeAndPush(x, tok)
                  [] x.process = "push one"   -> PushOne(x, tok)
                  [] x.process = "push"       -> Push(x, tok)
<1>0. x.process \in Processes
  BY DEF Sound, EngineType
<1>1. Takes(x, tok, Fails(x, "proto"))
  BY RefusedGoes DEF Takes, Goes
<1>2. ASSUME x.process = "identity" PROVE Takes(x, tok, y)
  <2>1. ~IsZap(x)
    BY <1>2, TalkFacts
  <2>2. Takes(x, tok, ProcessIdentityMsg(x, tok))
    BY <2>1, ProcessIdentityMsgGoes DEF Takes, Goes
  <2>3. Takes(x, tok, y)
    BY <1>1, <1>2, <2>2
  <2> QED BY <2>3
<1>3. ASSUME x.process = "handshake" PROVE Takes(x, tok, y)
  <2>1. x.mech # "none"
    BY <1>3 DEF Sound
  <2>2. Takes(x, tok, ProcessHandshakeCommand(x, tok))
    BY <2>1, ProcessHandshakeCommandGoes DEF Takes, Goes
  <2>3. Takes(x, tok, y)
    BY <1>1, <1>3, <2>2
  <2> QED BY <2>3
<1>4. ASSUME x.process = "credential" PROVE Takes(x, tok, y)
  <2>1. IsZap(x) => Passed(x) /\ x.greet = "done"
    BY <1>4, TalkFacts
  <2>2. Takes(x, tok, WriteCredential(x, tok))
    BY <2>1, WriteCredentialTakes
  <2>3. Takes(x, tok, y)
    BY <1>1, <1>4, <2>2
  <2> QED BY <2>3
<1>5. ASSUME x.process \in {"decode", "push one"} PROVE Takes(x, tok, y)
  <2>1. Trusted(x)
    BY <1>5, TalkFacts DEF Trusted
  <2>2. Takes(x, tok, DecodeAndPush(x, tok)) /\ Takes(x, tok, PushOne(x, tok))
    BY <2>1, DecodeAndPushTakes, PushOneTakes
  <2>3. Takes(x, tok, y)
    BY <1>1, <1>5, <2>2
  <2> QED BY <2>3
<1>6. ASSUME x.process = "push" PROVE Takes(x, tok, y)
  <2>1. ~IsZap(x)
    BY <1>6, TalkFacts
  <2>2. Takes(x, tok, Push(x, tok))
    BY <2>1, PushTakes
  <2>3. Takes(x, tok, y)
    BY <1>1, <1>6, <2>2
  <2> QED BY <2>3
<1>7. ProcessMsg(x, tok) = Hold(y, tok)
  BY DEF ProcessMsg
<1> HIDE DEF y
<1>8. Takes(x, tok, y)
  BY <1>0, <1>2, <1>3, <1>4, <1>5, <1>6 DEF Processes
<1>9. Takes(y, tok, Hold(y, tok))
  BY <1>8, HoldTakes DEF Takes, Steps
<1> QED BY <1>7, <1>8, <1>9, ZapKept DEF Takes, Goes, Steps

(* The greeting.                                                           *)
LEMMA QueueGoes ==
  ASSUME NEW x, Sound(x), NEW tok \in Token, tok.k # "data"
  PROVE  Goes(x, Queue(x, tok)) /\ Queue(x, tok).greet = x.greet
<1> DEFINE w == Emit(x, tok)
           p == w.pollout \/ x.out = <<>>
           y == [w EXCEPT !.pollout = p]
<1>1. Goes(x, w) /\ w.greet = x.greet /\ w \in EngineType
  BY EmitGoes, EmitQuiet DEF Quiet, Same, Goes, Steps, Sound
<1>2. Queue(x, tok) = y
  BY DEF Queue
<1> HIDE DEF w
<1>3. p \in BOOLEAN
  BY <1>1 DEF EngineType
<1> HIDE DEF p
<1>4. y \in EngineType
  BY <1>1, <1>3 DEF EngineType
<1>5. Quiet(w, y) /\ y.out = w.out /\ y.greet = w.greet
  BY <1>1 DEF EngineType, Quiet, Same
<1> HIDE DEF y
<1>6. Goes(w, y)
  BY <1>1, <1>4, <1>5, QuietGoes DEF Goes, Steps
<1> QED BY <1>1, <1>2, <1>5, <1>6, GoesOn

LEMMA GreetGoes ==
  ASSUME NEW x, Sound(x), x.greet # "done", NEW g \in Greets, g # "done"
  PROVE  Goes(x, [x EXCEPT !.greet = g])
<1> DEFINE y == [x EXCEPT !.greet = g]
<1>0. x \in EngineType
  BY DEF Sound
<1>1. y \in EngineType
  BY <1>0 DEF EngineType
<1>2. /\ y.who = x.who /\ y.greet = g /\ y.mech = x.mech /\ y.state = x.state
      /\ y.did = x.did /\ y.zap = x.zap /\ y.next = x.next /\ y.process = x.process
      /\ y.wire = x.wire /\ y.got = x.got /\ y.in = x.in /\ y.held = x.held
      /\ y.out = x.out /\ y.timers = x.timers /\ y.rc = x.rc /\ y.full = x.full
      /\ y.input_stopped = x.input_stopped
  BY <1>0 DEF EngineType
<1> HIDE DEF y
<1>3. ASSUME IsZap(x) PROVE Guarded(y)
  <2>1. Greeting(y) /\ y.mech = "none"
    BY <1>2, <1>3 DEF Sound, Guarded, Greeting
  <2>2. AsksOnce(y)
    BY <1>2, <1>3, <2>1 DEF Sound, Guarded, AsksOnce
  <2>3. ~Passed(y) => Before(y)
    BY <1>2, <1>3, <2>1 DEF Sound, Guarded, Before, Unready, Passed
  <2> QED BY <1>2, <1>3, <2>1, <2>2, <2>3 DEF Sound, Guarded
<1> QED BY <1>1, <1>2, <1>3, ZapKept DEF Goes, Steps, Sound, Clean, Passed, y

LEMMA GreetedGoes ==
  ASSUME NEW x, Sound(x), ~IsZap(x) PROVE Goes(x, Greeted(x))
<1> DEFINE p == x.pollout \/ x.out = <<>>
           t == x.timers \ {"handshake"}
           y == [x EXCEPT !.greet = "done", !.pollout = p, !.timers = t]
<1>0. /\ x \in EngineType /\ p \in BOOLEAN /\ t \in SUBSET Timers /\ "done" \in Greets
  BY DEF Sound, EngineType, Greets
<1>1. Greeted(x) = y
  BY DEF Greeted
<1> HIDE DEF p, t
<1>2. y \in EngineType
  BY <1>0 DEF EngineType
<1>3. /\ y.who = x.who /\ y.mech = x.mech /\ y.zap = x.zap /\ y.next = x.next
      /\ y.process = x.process /\ y.wire = x.wire /\ y.got = x.got /\ y.in = x.in
      /\ y.held = x.held /\ y.greet = "done"
  BY <1>0 DEF EngineType
<1> HIDE DEF y
<1> QED BY <1>1, <1>2, <1>3, ZapKept DEF Goes, Steps, Sound, Clean

Agreed(x, mech) ==
  [Greeted(x) EXCEPT !.mech = mech, !.state = FirstState(mech, Server(x)),
                     !.next = "handshake", !.process = "handshake"]

LEMMA AgreedGoes ==
  ASSUME NEW x, Sound(x), opt \in Configs, x.greet # "done",
         NEW mech \in Mechanisms, mech = opt.mech[x.who]
  PROVE  Goes(x, Agreed(x, mech))
<1> DEFINE p == x.pollout \/ x.out = <<>>
           t == x.timers \ {"handshake"}
           st == FirstState(mech, Server(x))
           y == [x EXCEPT !.greet = "done", !.pollout = p, !.timers = t, !.mech = mech,
                          !.state = st, !.next = "handshake", !.process = "handshake"]
<1>0. /\ x \in EngineType /\ p \in BOOLEAN /\ t \in SUBSET Timers
      /\ "interval" \in t => "interval" \in x.timers
  BY DEF Sound, EngineType
<1>1. "done" \in Greets /\ "handshake" \in Nexts /\ "handshake" \in Processes
  BY DEF Greets, Nexts, Processes
<1>2. st \in States
  BY DEF FirstState, States
<1>3. mech # "NULL" /\ Server(x) => st \in Pending(mech)
  BY DEF FirstState, Pending, Mechanisms
<1>4. Agreed(x, mech) = y
  <2> HIDE DEF st
  <2>1. [[x EXCEPT !.greet = "done", !.pollout = p, !.timers = t]
            EXCEPT !.mech = mech, !.state = st, !.next = "handshake",
                   !.process = "handshake"] = y
    BY <1>0 DEF EngineType
  <2> QED BY <2>1 DEF Agreed, Greeted, st
<1> HIDE DEF p, t, st
<1>5. y \in EngineType
  BY <1>0, <1>1, <1>2, ZenonT(60) DEF EngineType
<1>6. /\ y.who = x.who /\ y.mech = mech /\ y.state = st /\ y.did = x.did /\ y.zap = x.zap
      /\ y.next = "handshake" /\ y.process = "handshake" /\ y.wire = x.wire
      /\ y.got = x.got /\ y.in = x.in /\ y.held = x.held /\ y.greet = "done"
      /\ y.out = x.out /\ y.timers = t
  BY <1>0 DEF EngineType
<1> HIDE DEF y
<1>7. mech # "none"
  BY DEF Mechanisms
<1>8. ASSUME IsZap(x) PROVE Guarded(y)
  <2>1. /\ x.who = "server" /\ x.mech = "none" /\ x.did = {} /\ x.zap = "none"
        /\ "interval" \notin x.timers
    BY <1>8 DEF Sound, Guarded, Greeting, IsZap
  <2>2. Greeting(y)
    BY <1>6, <2>1 DEF Greeting
  <2>3. AsksOnce(y)
    BY <1>6, <2>1 DEF AsksOnce
  <2>4. mech # "NULL" => Server(x)
    <3>1. opt.zap # "off"
      BY <1>8 DEF IsZap
    <3>2. opt.mech["server"] = "NULL" \/ opt.as_server["server"]
      BY <3>1, EngineAssumption
    <3> QED BY <2>1, <3>2 DEF Server
  <2>5. Unready(y)
    BY <1>3, <1>6, <2>1, <2>4 DEF Unready
  <2>6. Before(x)
    BY <1>8, <2>1 DEF Sound, Guarded, Passed
  <2>7. Before(y)
    BY <1>0, <1>6, <2>1, <2>5, <2>6 DEF Before
  <2> QED BY <1>6, <1>8, <2>2, <2>3, <2>7 DEF Guarded, Sound
<1> QED BY <1>4, <1>5, <1>6, <1>7, <1>8, ZapKept DEF Goes, Steps, Sound, Clean, Passed

LEMMA HandshakeGoes ==
  ASSUME NEW x, Sound(x), opt \in Configs, x.greet # "done", NEW tok \in Token
  PROVE  Goes(x, Handshake(x, tok))
<1> DEFINE header == [Emit(Greeted(x), Tok("identity")) EXCEPT !.next = "pull"]
<1>1. Goes(x, Fails(x, "proto"))
  BY RefusedGoes
<1>2. ASSUME NEW k \in Named, NEW g \in Greets, g # "done"
      PROVE  Goes(x, [Queue(x, Tok(k)) EXCEPT !.greet = g])
  <2> DEFINE y == Queue(x, Tok(k))
  <2>1. Goes(x, y) /\ y.greet = x.greet
    BY TokIs, QueueGoes
  <2> HIDE DEF y
  <2>2. Goes(y, [y EXCEPT !.greet = g])
    BY <1>2, <2>1, GreetGoes DEF Goes, Steps
  <2>3. Goes(x, [y EXCEPT !.greet = g])
    BY <2>1, <2>2, GoesOn
  <2> QED BY <2>3 DEF y
<1>3. CASE tok.k = "signature"
  <2>1. "version 3" \in Named /\ "version" \in Greets
    BY DEF Named, Kinds, Greets
  <2>2. Goes(x, [Queue(x, Tok("version 3")) EXCEPT !.greet = "version"])
    BY <1>2, <2>1
  <2> QED BY <1>3, <2>2 DEF Handshake, Mechanisms
<1>4. CASE tok.k = "version 3"
  <2>1. opt.mech[x.who] \in Mechanisms
    BY EngineAssumption, ZenonT(60) DEF Sound, EngineType
  <2>2. opt.mech[x.who] \in Named /\ "mechanism" \in Greets
    BY <2>1 DEF Named, Kinds, Greets, Mechanisms
  <2>3. Goes(x, [Queue(x, Tok(opt.mech[x.who])) EXCEPT !.greet = "mechanism"])
    BY <1>2, <2>2
  <2> QED BY <1>4, <2>3 DEF Handshake, Mechanisms
<1>5. CASE tok.k = "version old"
  <2>1. "type" \in Named /\ "type" \in Greets
    BY DEF Named, Kinds, Greets
  <2>2. Goes(x, [Queue(x, Tok("type")) EXCEPT !.greet = "type"])
    BY <1>2, <2>1
  <2> QED BY <1>5, <2>2 DEF Handshake, Mechanisms
<1>6. CASE tok.k = "type"
  <2>1. ~ZapEnabled(x) => Goes(x, Greeted(x))
    BY GreetedGoes DEF ZapEnabled
  <2> QED BY <1>1, <1>6, <2>1 DEF Handshake, Mechanisms
<1>7. CASE tok.k \in Mechanisms
  <2>1. tok.k = opt.mech[x.who] => Goes(x, Agreed(x, tok.k))
    BY <1>7, AgreedGoes
  <2> QED BY <1>1, <1>7, <2>1 DEF Handshake, Agreed, Mechanisms
<1>8. CASE tok.k \notin {"signature", "version 3", "version old", "type"} \cup Mechanisms
  <2>1. ASSUME ~ZapEnabled(x) PROVE Goes(x, ProcessMsg(header, Tok("identity")))
    <3>1. ~IsZap(x)
      BY <2>1 DEF ZapEnabled
    <3>2. Goes(x, Greeted(x))
      BY <3>1, GreetedGoes
    <3>3. Sound(Greeted(x)) /\ ~IsZap(Greeted(x))
      BY <3>1, <3>2, ZapKept DEF Goes, Steps
    <3>4. Tok("identity") \in Token /\ Tok("identity").k # "data"
      <4>1. "identity" \in Named
        BY DEF Named, Kinds
      <4> QED BY <4>1, TokIs
    <3> DEFINE y == Emit(Greeted(x), Tok("identity"))
    <3>5. Goes(Greeted(x), y)
      BY <3>3, <3>4, EmitGoes
    <3>6. header = Pull(y)
      BY DEF Pull
    <3> HIDE DEF y, header
    <3>7. Sound(y) /\ ~IsZap(y)
      BY <3>3, <3>5, ZapKept DEF Goes, Steps
    <3>8. Goes(y, header)
      BY <3>6, <3>7, PullGoes
    <3>9. Sound(header) /\ ~IsZap(header)
      BY <3>7, <3>8, ZapKept DEF Goes, Steps
    <3>10. Goes(header, ProcessMsg(header, Tok("identity")))
      BY <3>4, <3>9, ProcessMsgTakes DEF Takes
    <3> QED BY <3>2, <3>5, <3>8, <3>10, GoesOn
  <2> QED BY <1>1, <1>8, <2>1 DEF Handshake
<1> QED BY <1>3, <1>4, <1>5, <1>6, <1>7, <1>8

(* The loop of in_event() and restart_input().                             *)
LEMMA DecodeOneTakes ==
  ASSUME NEW x, Sound(x), opt \in Configs, NEW tok \in Token
  PROVE  Takes(x, tok, DecodeOne(x, tok))
<1>1. CASE x.rc # "ok"
  <2> DEFINE s == Append(x.in, tok)
             y == [x EXCEPT !.in = s]
  <2>0. x \in EngineType /\ x.in \in Seq(Token)
    BY DEF Sound, EngineType
  <2>1. s \in Seq(Token) /\ (NoData(x.in) /\ tok.k # "data" => NoData(s))
    BY <2>0, TokensAppend
  <2>2. DecodeOne(x, tok) = y
    BY <1>1 DEF DecodeOne
  <2> HIDE DEF s
  <2>3. y \in EngineType
    BY <2>0, <2>1 DEF EngineType
  <2>4. /\ Same(x, y) /\ y.timers = x.timers /\ y.out = x.out /\ y.wire = x.wire
        /\ y.rc = x.rc /\ y.full = x.full /\ y.input_stopped = x.input_stopped
        /\ y.in = s /\ y.held = x.held
    BY <2>0 DEF EngineType, Same
  <2> HIDE DEF y
  <2>5. Alike(x, y)
    BY <2>3, <2>4 DEF Alike, Sound
  <2>6. Steps(x, y)
    BY <2>5, AlikeSteps
  <2> QED BY <2>1, <2>2, <2>4, <2>6 DEF Takes, Goes, Clean, Same
<1>2. CASE x.rc = "ok" /\ x.greet # "done"
  BY <1>2, HandshakeGoes DEF DecodeOne, Takes, Goes
<1>3. CASE x.rc = "ok" /\ x.greet = "done"
  BY <1>3, ProcessMsgTakes DEF DecodeOne
<1> QED BY <1>1, <1>2, <1>3

DecodedIs(x0, toks, n, g) ==
  g = [i \in 0 .. n |->
         IF i = 0 THEN x0
         ELSE CHOOSE z \in {DecodeOne(y, toks[i]) : y \in {g[i - 1]}} : TRUE]

LEMMA DecodedExists ==
  ASSUME NEW x0, NEW toks, NEW n \in Nat PROVE \E g : DecodedIs(x0, toks, n, g)
<1> DEFINE S == {m \in Nat : \E g : DecodedIs(x0, toks, m, g)}
<1>1. 0 \in S
  <2>1. DecodedIs(x0, toks, 0, [i \in 0 .. 0 |-> x0])
    BY DEF DecodedIs
  <2> QED BY <2>1
<1>2. ASSUME NEW m \in Nat, m \in S PROVE m + 1 \in S
  <2>1. PICK g : DecodedIs(x0, toks, m, g)
    BY <1>2
  <2> DEFINE last == CHOOSE z \in {DecodeOne(y, toks[m + 1]) : y \in {g[m]}} : TRUE
             h == [i \in 0 .. m + 1 |-> IF i = m + 1 THEN last ELSE g[i]]
  <2>2. \A i \in 0 .. m : h[i] = g[i]
    OBVIOUS
  <2>3. h[m + 1] = last
    OBVIOUS
  <2>4. DOMAIN h = 0 .. m + 1 /\ h = [i \in 0 .. m + 1 |-> h[i]]
    OBVIOUS
  <2>5. ASSUME NEW i \in 0 .. m + 1
        PROVE  h[i] = IF i = 0 THEN x0
                      ELSE CHOOSE z \in {DecodeOne(y, toks[i]) : y \in {h[i - 1]}} : TRUE
    <3>1. CASE i = m + 1
      BY <2>2, <2>3, <3>1
    <3>2. CASE i \in 0 .. m
      <4>1. h[i] = g[i] /\ (i # 0 => h[i - 1] = g[i - 1])
        BY <2>2, <3>2
      <4> HIDE DEF h
      <4>2. g[i] = IF i = 0 THEN x0
                   ELSE CHOOSE z \in {DecodeOne(y, toks[i]) : y \in {g[i - 1]}} : TRUE
        BY <2>1, <3>2 DEF DecodedIs
      <4> QED BY <4>1, <4>2
    <3> QED BY <3>1, <3>2
  <2> HIDE DEF h
  <2>6. DecodedIs(x0, toks, m + 1, h)
    BY <2>4, <2>5 DEF DecodedIs
  <2> QED BY <2>6
<1> HIDE DEF S
<1>3. Nat \subseteq S
  BY <1>1, <1>2, SetInduction
<1> QED BY <1>3 DEF S

LEMMA DecodedSteps ==
  ASSUME NEW x, Sound(x), opt \in Configs, NEW toks \in Seq(Token)
  PROVE  /\ Steps(x, Decoded(x, toks))
         /\ NoData(toks) => Goes(x, Decoded(x, toks))
<1> DEFINE x0 == [x EXCEPT !.rc = "ok", !.in = <<>>]
<1>1. Goes(x, x0)
  <2>1. x \in EngineType /\ "ok" \in Codes /\ <<>> \in Seq(Token)
    BY Literals, TokensEmpty DEF Sound
  <2>2. x0 \in EngineType
    BY <2>1 DEF EngineType
  <2>3. /\ Same(x, x0) /\ x0.timers = x.timers /\ x0.out = x.out /\ x0.wire = x.wire
        /\ x0.rc = "ok" /\ x0.full = x.full /\ x0.input_stopped = x.input_stopped
        /\ x0.in = <<>> /\ x0.held = x.held
    BY <2>1 DEF EngineType, Same
  <2> HIDE DEF x0
  <2>4. Alike(x, x0)
    BY <2>2, <2>3 DEF Alike, Sound
  <2> QED BY <2>3, <2>4, AlikeSteps, TokensEmpty DEF Goes, Clean, Same
<1> DEFINE f == CHOOSE g : DecodedIs(x0, toks, Len(toks), g)
<1>2. Decoded(x, toks) = f[Len(toks)]
  BY DEF Decoded, DecodedIs
<1> HIDE DEF x0
<1>3. Len(toks) \in Nat /\ \A i \in 1 .. Len(toks) : toks[i] \in Token
  OBVIOUS
<1>4. f = [i \in 0 .. Len(toks) |->
             IF i = 0 THEN x0
             ELSE CHOOSE z \in {DecodeOne(y, toks[i]) : y \in {f[i - 1]}} : TRUE]
  <2>1. \E g : DecodedIs(x0, toks, Len(toks), g)
    BY <1>3, DecodedExists
  <2>2. DecodedIs(x0, toks, Len(toks), f)
    BY <2>1, Zenon
  <2> HIDE DEF f
  <2> QED BY <2>2 DEF DecodedIs
<1> HIDE DEF f
<1>5. f[0] = x0
  BY <1>3, <1>4
<1>6. ASSUME NEW n \in Nat, n + 1 \in 0 .. Len(toks)
      PROVE  f[n + 1] = DecodeOne(f[n], toks[n + 1])
  <2>1. f[n + 1] = CHOOSE z \in {DecodeOne(y, toks[n + 1]) : y \in {f[n]}} : TRUE
    <3>1. (n + 1) - 1 = n /\ n + 1 # 0
      OBVIOUS
    <3> QED BY <1>4, <1>6, <3>1
  <2>2. \A w : (CHOOSE z \in {w} : TRUE) = w
    OBVIOUS
  <2>3. {DecodeOne(y, toks[n + 1]) : y \in {f[n]}} = {DecodeOne(f[n], toks[n + 1])}
    OBVIOUS
  <2> QED BY <2>1, <2>2, <2>3
<1> DEFINE Kept(y) == Steps(x, y) /\ (NoData(toks) => Goes(x, y))
           S == {n \in Nat : n <= Len(toks) => Kept(f[n])}
<1>7. 0 \in S
  BY <1>1, <1>5 DEF Goes
<1>8. ASSUME NEW n \in Nat, n \in S PROVE n + 1 \in S
  <2> SUFFICES ASSUME n + 1 <= Len(toks) PROVE Kept(f[n + 1])
    BY <1>3
  <2> DEFINE y == f[n]
             tok == toks[n + 1]
             z == f[n + 1]
  <2>1. Kept(y) /\ n + 1 \in 0 .. Len(toks) /\ n + 1 \in 1 .. Len(toks)
    BY <1>3, <1>8
  <2>2. tok \in Token /\ (NoData(toks) => tok.k # "data")
    BY <1>3, <2>1 DEF NoData
  <2>3. z = DecodeOne(y, tok)
    BY <1>6, <2>1
  <2> HIDE DEF y, z, tok
  <2>4. Takes(y, tok, z)
    BY <2>1, <2>2, <2>3, DecodeOneTakes DEF Steps
  <2>5. Steps(x, z)
    BY <2>1, <2>4, ZapKept DEF Takes, Steps
  <2>6. NoData(toks) => Goes(x, z)
    BY <2>1, <2>2, <2>4, GoesOn DEF Takes
  <2> QED BY <2>5, <2>6 DEF z
<1> HIDE DEF S, Kept
<1>9. Nat \subseteq S
  BY <1>7, <1>8, SetInduction
<1>10. Kept(f[Len(toks)])
  BY <1>3, <1>9 DEF S
<1> QED BY <1>2, <1>10 DEF Kept

LEMMA InputGoes ==
  ASSUME NEW x, Sound(x), NEW b \in BOOLEAN, b => x.rc = "again"
  PROVE  Goes(x, [x EXCEPT !.input_stopped = b])
<1> DEFINE y == [x EXCEPT !.input_stopped = b]
<1>0. x \in EngineType
  BY DEF Sound
<1>1. y \in EngineType
  BY <1>0 DEF EngineType
<1>2. /\ Same(x, y) /\ y.timers = x.timers /\ y.out = x.out /\ y.wire = x.wire
      /\ y.rc = x.rc /\ y.full = x.full /\ y.input_stopped = b
      /\ y.in = x.in /\ y.held = x.held
  BY <1>0 DEF EngineType, Same
<1> HIDE DEF y
<1>3. ASSUME IsZap(x) PROVE Guarded(y)
  <2>1. Greeting(y)
    BY <1>2, <1>3 DEF Sound, Guarded, Greeting, Same
  <2>2. AsksOnce(y)
    BY <1>2, <1>3 DEF Sound, Guarded, AsksOnce, Same
  <2>3. ~Passed(y) => Before(y)
    BY <1>2, <1>3 DEF Sound, Guarded, Before, Unready, Passed, Same
  <2> QED BY <1>2, <1>3, <2>1, <2>2, <2>3 DEF Sound, Guarded, Same
<1> QED BY <1>1, <1>2, <1>3, ZapKept DEF Goes, Steps, Sound, Clean, Same, Passed, y

LEMMA InEventSteps ==
  ASSUME NEW x, Sound(x), opt \in Configs, NEW toks \in Seq(Token)
  PROVE  /\ Steps(x, InEvent(x, toks))
         /\ NoData(toks) => Goes(x, InEvent(x, toks))
<1> DEFINE y == Decoded(x, toks)
           z == InOutcome(y)
<1>1. Steps(x, y) /\ (NoData(toks) => Goes(x, y))
  BY DecodedSteps
<1>2. InEvent(x, toks) = z
  BY DEF InEvent
<1> HIDE DEF y
<1>3. Sound(y) /\ "protocol" \in Reasons
  BY <1>1 DEF Steps, Reasons
<1>4. Goes(y, z)
  BY <1>3, ErrorGoes, InputGoes, GoesSelf DEF InOutcome
<1> HIDE DEF z
<1>5. Steps(x, z)
  BY <1>1, <1>4, ZapKept DEF Goes, Steps
<1> QED BY <1>1, <1>2, <1>4, <1>5, GoesOn

LEMMA RestartedGoes == ASSUME NEW x, Sound(x) PROVE Goes(x, Restarted(x))
<1>1. "protocol" \in Reasons /\ "connection" \in Reasons /\ x.rc \in Codes /\ x.io_error \in BOOLEAN
  BY DEF Reasons, Sound, EngineType
<1>2. /\ Goes(x, x) /\ Goes(x, Error(x, "protocol")) /\ Goes(x, Error(x, "connection"))
      /\ Goes(x, [x EXCEPT !.input_stopped = FALSE])
  BY <1>1, GoesSelf, ErrorGoes, InputGoes
<1> QED BY <1>1, <1>2 DEF Restarted, Codes

LEMMA RestGoes == ASSUME NEW x, Sound(x), opt \in Configs PROVE Goes(x, Rest(x))
<1> DEFINE y == [x EXCEPT !.held = Tok("none")]
           z == Decoded(y, x.in)
<1>0. x \in EngineType /\ x.in \in Seq(Token) /\ x.rc \in Codes /\ "protocol" \in Reasons
  BY DEF Sound, EngineType, Reasons
<1>1. Goes(x, y)
  <2>1. "none" \in Named
    BY DEF Named, Kinds
  <2>2. Tok("none") \in Token /\ Tok("none").k # "data"
    BY <2>1, TokIs
  <2>3. y \in EngineType
    BY <1>0, <2>2 DEF EngineType
  <2>4. /\ Same(x, y) /\ y.timers = x.timers /\ y.out = x.out /\ y.wire = x.wire
        /\ y.rc = x.rc /\ y.full = x.full /\ y.input_stopped = x.input_stopped
        /\ y.in = x.in /\ y.held = Tok("none")
    BY <1>0 DEF EngineType, Same
  <2> HIDE DEF y
  <2>5. Alike(x, y)
    BY <2>3, <2>4 DEF Alike, Sound
  <2> QED BY <2>2, <2>4, <2>5, AlikeSteps DEF Goes, Clean, Same
<1>2. x.rc = "ok" => Rest(x) = Restarted(z)
  BY DEF Rest
<1> HIDE DEF y
<1>3. Steps(y, z) /\ (NoData(x.in) => Goes(y, z))
  BY <1>0, <1>1, DecodedSteps DEF Goes, Steps
<1> HIDE DEF z
<1>4. Goes(x, z)
  BY <1>1, <1>3, ZapKept, GoesOn DEF Goes, Steps, Clean
<1>5. Goes(x, Restarted(z))
  BY <1>4, RestartedGoes, GoesOn DEF Goes, Steps
<1>6. Goes(x, x) /\ Goes(x, Error(x, "protocol"))
  BY <1>0, GoesSelf, ErrorGoes
<1> QED BY <1>0, <1>2, <1>5, <1>6 DEF Rest, Codes

LEMMA RestartInputGoes ==
  ASSUME NEW x, Sound(x), opt \in Configs
  PROVE  Goes(x, RestartInput(x))
<1>1. CASE ~x.input_stopped
  BY <1>1, AbortGoes DEF RestartInput
<1>2. CASE x.input_stopped
  <2> DEFINE y == Fails(x, "ok")
             z == ProcessMsg(y, x.held)
  <2>1. IsZap(x) => x.greet = "done"
    BY <1>2 DEF Sound, Guarded, Greeting
  <2>2. x.held \in Token /\ "ok" \in Codes
    BY Literals DEF Sound, EngineType
  <2>3. Goes(x, y)
    BY <2>2, FailsGoes
  <2>4. RestartInput(x) = Rest(z)
    BY <1>2 DEF RestartInput, Fails
  <2> HIDE DEF y
  <2>5. Sound(y) /\ (IsZap(y) => y.greet = "done")
    BY <2>1, <2>3, ZapKept DEF Goes, Steps
  <2>6. Takes(y, x.held, z)
    BY <2>2, <2>5, ProcessMsgTakes
  <2> HIDE DEF z
  <2>7. Goes(x, z)
    BY <2>3, <2>6, ZapKept, GoesOn DEF Goes, Takes, Steps, Clean
  <2>8. Goes(z, Rest(z))
    BY <2>7, RestGoes DEF Goes, Steps
  <2> QED BY <2>4, <2>7, <2>8, GoesOn
<1> QED BY <1>1, <1>2

LEMMA ZapMsgAvailableGoes ==
  ASSUME NEW x, Sound(x), opt \in Configs, x.mech # "none"
  PROVE  Goes(x, ZapMsgAvailable(x))
<1> DEFINE y == CASE x.mech = "NULL"   -> NullVerdict(x)
                  [] x.mech = "PLAIN"  -> PlainVerdict(x)
                  [] x.mech = "CURVE"  -> CurveVerdict(x)
                  [] x.mech = "GSSAPI" -> GssVerdict(x)
           z == IF y.input_stopped THEN RestartInput(y) ELSE y
<1>1. Goes(x, y)
  <2>1. x.mech \in Mechanisms
    BY DEF Sound, EngineType
  <2> QED BY <2>1, NullVerdictGoes, PlainVerdictGoes, CurveVerdictGoes, GssVerdictGoes
          DEF Mechanisms
<1>2. ZapMsgAvailable(x) = IF y.rc = "proto" THEN Error(y, "protocol") ELSE Answer(z)
  BY DEF ZapMsgAvailable, ZapAnswered
<1> HIDE DEF y
<1>3. Sound(y) /\ "protocol" \in Reasons
  BY <1>1 DEF Goes, Steps, Reasons
<1>4. Goes(y, Error(y, "protocol"))
  BY <1>3, ErrorGoes
<1>5. Goes(y, z)
  BY <1>3, RestartInputGoes, GoesSelf
<1> HIDE DEF z
<1>6. Goes(z, Answer(z))
  BY <1>5, AnswerGoes DEF Goes, Steps
<1> QED BY <1>1, <1>2, <1>4, <1>5, <1>6, GoesOn

------------------------------------------------------------------------------
(* The two engines.                                                        *)

(* The inductive invariant: both engines are sound, and until the handler  *)
(* has accepted the client there is no message at the client's end either. *)
Inv ==
  /\ opt \in Configs /\ sent \in [Ends -> Int]
  /\ opt.zap # "off" =>
       /\ eng \in [Ends -> EngineType]
       /\ \A e \in Ends : Sound(eng[e]) /\ eng[e].who = e
       /\ ~Passed(eng["server"]) => Clean(eng["client"])

LEMMA PeerIs == ASSUME NEW e \in Ends PROVE Peer(e) \in Ends /\ Peer(e) # e
BY DEF Ends, Peer

LEMMA BecomesKeeps ==
  ASSUME Inv, opt' = opt, sent' \in [Ends -> Int], NEW e \in Ends, NEW x,
         eng' = [eng EXCEPT ![e] = x],
         opt.zap # "off" => Goes(eng[e], x)
  PROVE  Inv'
<1>1. CASE opt.zap = "off"
  BY <1>1 DEF Inv
<1>2. CASE opt.zap # "off"
  <2>1. Sound(x) /\ x.who = e /\ x \in EngineType
    BY <1>2 DEF Inv, Goes, Steps, Sound
  <2>2. eng' \in [Ends -> EngineType] /\ eng'[e] = x /\ \A d \in Ends \ {e} : eng'[d] = eng[d]
    BY <1>2, <2>1 DEF Inv
  <2>3. \A d \in Ends : Sound(eng'[d]) /\ eng'[d].who = d
    BY <1>2, <2>1, <2>2 DEF Inv
  <2>4. "server" \in Ends /\ "client" \in Ends
    BY DEF Ends
  <2>5. IsZap(eng["server"])
    BY <1>2, <2>4 DEF Inv, IsZap
  <2>6. ~Passed(eng'["server"]) => Clean(eng'["client"])
    <3>1. CASE e = "server"
      BY <1>2, <2>2, <2>4, <2>5, <3>1 DEF Inv, Goes, Steps
    <3>2. CASE e = "client"
      BY <1>2, <2>2, <2>4, <3>2 DEF Inv, Goes
    <3> QED BY <3>1, <3>2 DEF Ends
  <2>7. \A d \in Ends : (Sound(eng[d]))' <=> Sound(eng'[d])
    BY DEF Sound, Guarded, Greeting, AsksOnce, Before, IsZap, Passed, Unready
  <2>8. /\ (Passed(eng["server"]))' <=> Passed(eng'["server"])
        /\ (Clean(eng["client"]))' <=> Clean(eng'["client"])
    BY DEF Passed, Clean
  <2> QED BY <2>2, <2>3, <2>6, <2>7, <2>8 DEF Inv
<1> QED BY <1>1, <1>2

LEMMA NewEngineSound ==
  ASSUME NEW e \in Ends, opt \in Configs, opt.zap # "off"
  PROVE  Sound(Plugged(e, opt)) /\ Plugged(e, opt).who = e /\ Clean(Plugged(e, opt))
<1> DEFINE n == NewEngine(e)
           q == IF e = "server" /\ opt.left > 0 THEN opt.left ELSE 0
           a == e = "server" /\ opt.left > 0
           y == [n EXCEPT !.queued = q, !.asleep = a]
<1>1. /\ Tok("signature") \in Token /\ Tok("signature").k # "data"
      /\ Tok("none") \in Token /\ Tok("none").k # "data"
  <2>1. "signature" \in Named /\ "none" \in Named
    BY DEF Named, Kinds
  <2> QED BY <2>1, TokIs
<1>2. /\ "open" \in Lives /\ "signature" \in Greets /\ "none" \in States /\ "none" \in Zaps
      /\ "identity" \in Nexts /\ "identity" \in Processes /\ "ok" \in Codes
      /\ {"handshake"} \in SUBSET Timers
  BY DEF Lives, Greets, States, Zaps, Nexts, Processes, Codes, Timers
<1>3. <<Tok("signature")>> \in Seq(Token) /\ NoData(<<Tok("signature")>>)
  BY <1>1 DEF NoData
<1>4. n \in EngineType
  BY <1>1, <1>2, <1>3 DEF NewEngine, EngineType
<1>5. opt.left \in Nat
  BY EngineAssumption
<1>6. q \in Int /\ a \in BOOLEAN
  BY <1>5
<1>7. Plugged(e, opt) = y
  BY DEF Plugged
<1>8. /\ n.who = e /\ n.greet = "signature" /\ n.next = "identity" /\ n.process = "identity"
      /\ n.mech = "none" /\ n.did = {} /\ n.timers = {"handshake"} /\ n.rc = "ok"
      /\ n.full = FALSE /\ n.input_stopped = FALSE /\ n.zap = "none" /\ n.wire = <<>>
      /\ n.got = <<>> /\ n.in = <<>> /\ n.held = Tok("none") /\ n.out = <<Tok("signature")>>
  BY DEF NewEngine
<1> HIDE DEF n, q, a
<1>9. y \in EngineType
  BY <1>4, <1>6 DEF EngineType
<1>10. /\ y.who = n.who /\ y.greet = n.greet /\ y.next = n.next /\ y.process = n.process
       /\ y.mech = n.mech /\ y.did = n.did /\ y.timers = n.timers /\ y.rc = n.rc
       /\ y.full = n.full /\ y.input_stopped = n.input_stopped /\ y.zap = n.zap
       /\ y.wire = n.wire /\ y.got = n.got /\ y.in = n.in /\ y.held = n.held /\ y.out = n.out
  BY <1>4 DEF EngineType
<1> HIDE DEF y
<1>11. Greeting(y) /\ AsksOnce(y)
  BY <1>8, <1>10 DEF Greeting, AsksOnce
<1>12. Before(y)
  BY <1>3, <1>8, <1>10, TokensEmpty DEF Before, Unready
<1>13. Guarded(y)
  BY <1>8, <1>10, <1>11, <1>12 DEF Guarded, Before
<1>14. Len(y.wire) <= Capacity
  <2>1. y.wire = <<>> /\ Capacity \in Nat
    BY <1>8, <1>10, EngineAssumption
  <2> QED BY <2>1
<1>15. Clean(y)
  BY <1>1, <1>8, <1>10, TokensEmpty DEF Clean
<1> QED BY <1>7, <1>8, <1>9, <1>10, <1>13, <1>14, <1>15 DEF Sound

LEMMA InitInv == ASSUME Init PROVE Inv
<1>1. opt \in Configs /\ sent \in [Ends -> Int]
  BY DEF Init
<1>2. ASSUME opt.zap # "off"
      PROVE  /\ eng \in [Ends -> EngineType]
             /\ \A e \in Ends : Sound(eng[e]) /\ eng[e].who = e
             /\ Clean(eng["client"])
  <2>1. opt.old = "no"
    BY <1>1, <1>2, EngineAssumption
  <2>2. eng = [e \in Ends |-> Plugged(e, opt)]
    BY <2>1 DEF Init
  <2>3. \A e \in Ends : Sound(Plugged(e, opt)) /\ Plugged(e, opt).who = e
                        /\ Clean(Plugged(e, opt)) /\ Plugged(e, opt) \in EngineType
    BY <1>1, <1>2, NewEngineSound DEF Sound
  <2> QED BY <2>2, <2>3 DEF Ends
<1> QED BY <1>1, <1>2 DEF Inv

(* A change outside the invariant's view, and one that only takes tokens   *)
(* off the network.                                                        *)
LEMMA SoundEngine ==
  ASSUME Inv, NEW e \in Ends, opt.zap # "off"
  PROVE  Sound(eng[e]) /\ eng[e] \in EngineType /\ opt \in Configs /\ eng[e].who = e
BY DEF Inv, Sound

LEMMA WireGoes ==
  ASSUME NEW x, Sound(x), NEW w \in Seq(Token), Len(w) <= Capacity, NoData(x.wire) => NoData(w)
  PROVE  LET y == [x EXCEPT !.wire = w] IN Goes(x, y) /\ y.got = x.got /\ y.zap = x.zap
<1> DEFINE y == [x EXCEPT !.wire = w]
<1>0. x \in EngineType
  BY DEF Sound
<1>1. y \in EngineType
  BY <1>0 DEF EngineType
<1>2. /\ Same(x, y) /\ y.timers = x.timers /\ y.out = x.out /\ y.wire = w
      /\ y.rc = x.rc /\ y.full = x.full /\ y.input_stopped = x.input_stopped
      /\ y.in = x.in /\ y.held = x.held
  BY <1>0 DEF EngineType, Same
<1> HIDE DEF y
<1>3. Alike(x, y)
  BY <1>1, <1>2 DEF Alike, Sound
<1>4. Goes(x, y)
  BY <1>2, <1>3, AlikeGoes
<1> QED BY <1>2, <1>4 DEF y, Same

LEMMA InInv == ASSUME Inv, NEW e \in Ends, In(e) PROVE Inv'
<1>0. opt' = opt /\ sent' = sent /\ opt \in Configs /\ sent \in [Ends -> Int]
  BY DEF In, Inv
<1>1. CASE opt.zap = "off"
  BY <1>0, <1>1 DEF Inv
<1>2. CASE opt.zap # "off"
  <2> DEFINE p == Peer(e)
  <2>1. p \in Ends /\ p # e
    BY PeerIs
  <2> HIDE DEF p
  <2>2. PICK n \in 1 .. Len(eng[p].wire) :
          eng' = [eng EXCEPT ![e] = InEvent(eng[e], SubSeq(eng[p].wire, 1, n)),
                             ![p].wire = SubSeq(@, n + 1, Len(@))]
    BY DEF In, p
  <2>3. Sound(eng[e]) /\ Sound(eng[p]) /\ eng[p] \in EngineType
    BY <1>2, <2>1, SoundEngine
  <2> DEFINE s == eng[p].wire
             toks == SubSeq(s, 1, n)
             rest == SubSeq(s, n + 1, Len(s))
             x == InEvent(eng[e], toks)
             y == [eng[p] EXCEPT !.wire = rest]
  <2>4. s \in Seq(Token) /\ Len(s) <= Capacity /\ Len(s) \in Nat
    BY <2>3 DEF Sound, EngineType
  <2>5. n \in Int /\ 1 <= n /\ n <= Len(s) /\ 1 \in Nat \ {0} /\ n + 1 \in Nat \ {0}
    BY <2>2, <2>4
  <2>6. eng' = [eng EXCEPT ![e] = x, ![p] = y]
    <3>1. eng \in [Ends -> EngineType]
      BY <1>2 DEF Inv
    <3> QED BY <2>1, <2>2, <3>1
  <2> HIDE DEF s
  <2>7. /\ toks \in Seq(Token) /\ rest \in Seq(Token)
        /\ NoData(s) => NoData(toks) /\ NoData(rest)
    BY <2>4, <2>5, TokensPart
  <2>8. Len(rest) <= Capacity
    <3>1. Len(rest) = Len(s) - n
      BY <2>4, <2>5
    <3>2. Capacity \in Nat
      BY EngineAssumption
    <3> DEFINE l == Len(rest)
               m == Len(s)
    <3>3. l = m - n /\ m \in Nat /\ m <= Capacity
      BY <2>4, <3>1
    <3> HIDE DEF l, m
    <3>4. l <= Capacity
      BY <2>5, <3>2, <3>3
    <3> QED BY <3>4 DEF l
  <2> HIDE DEF toks, rest
  <2>9. Steps(eng[e], x) /\ (NoData(toks) => Goes(eng[e], x))
    BY <1>0, <2>3, <2>7, InEventSteps
  <2>10. Goes(eng[p], y) /\ y.got = eng[p].got /\ y.zap = eng[p].zap
    BY <2>3, <2>7, <2>8, WireGoes DEF s
  <2> HIDE DEF x, y
  <2>11. /\ eng' \in [Ends -> EngineType] /\ eng'[e] = x /\ eng'[p] = y
         /\ Sound(x) /\ Sound(y) /\ x.who = e /\ y.who = p
    <3>1. x \in EngineType /\ y \in EngineType /\ Sound(x) /\ Sound(y)
      BY <2>9, <2>10 DEF Goes, Steps, Sound
    <3>2. x.who = e /\ y.who = p
      BY <1>2, <2>1, <2>9, <2>10, SoundEngine DEF Goes, Steps
    <3> QED BY <1>2, <2>1, <2>6, <3>1, <3>2 DEF Inv
  <2>12. \A d \in Ends : d = e \/ d = p
    BY <2>1 DEF Ends
  <2>13. \A d \in Ends : Sound(eng'[d]) /\ eng'[d].who = d
    BY <2>11, <2>12
  <2>14. ~Passed(eng'["server"]) => Clean(eng'["client"])
    <3>1. "server" \in Ends /\ "client" \in Ends
      BY DEF Ends
    <3>2. IsZap(eng["server"])
      BY <1>2, <3>1, SoundEngine DEF IsZap
    <3>3. ASSUME e = "server" PROVE ~Passed(eng'["server"]) => Clean(eng'["client"])
      <4>1. p = "client"
        BY <3>1, <3>3, <2>12, <2>1
      <4>2. Passed(eng["server"]) => Passed(x)
        BY <2>9, <3>2, <3>3 DEF Steps
      <4>3. Clean(eng["client"]) => Clean(y)
        BY <2>10, <4>1 DEF Goes
      <4> QED BY <1>2, <2>11, <3>3, <4>1, <4>2, <4>3 DEF Inv
    <3>4. ASSUME e = "client" PROVE ~Passed(eng'["server"]) => Clean(eng'["client"])
      <4>1. p = "server"
        BY <3>1, <3>4, <2>12, <2>1
      <4>2. Passed(eng["server"]) => Passed(y)
        BY <2>10, <3>2, <4>1 DEF Goes, Steps
      <4>3. ~Passed(eng["server"]) => NoData(s)
        BY <2>3, <3>2, <4>1 DEF Sound, Guarded, Before, s
      <4>4. ~Passed(eng["server"]) /\ Clean(eng["client"]) => Clean(x)
        BY <2>7, <2>9, <3>4, <4>3 DEF Goes
      <4> QED BY <1>2, <2>11, <3>4, <4>1, <4>2, <4>4 DEF Inv
    <3> QED BY <3>3, <3>4 DEF Ends
  <2>15. \A d \in Ends : (Sound(eng[d]))' <=> Sound(eng'[d])
    BY <1>0 DEF Sound, Guarded, Greeting, AsksOnce, Before, IsZap, Passed, Unready
  <2>16. /\ (Passed(eng["server"]))' <=> Passed(eng'["server"])
         /\ (Clean(eng["client"]))' <=> Clean(eng'["client"])
    BY <1>0 DEF Passed, Clean
  <2> QED BY <1>0, <2>11, <2>13, <2>14, <2>15, <2>16 DEF Inv
<1> QED BY <1>1, <1>2

(* The other actions change one engine.                                    *)
LEMMA InEndsInv == ASSUME Inv, NEW e \in Ends, InEnds(e) PROVE Inv'
<1> DEFINE x == eng[e]
           y == Error(x, "connection")
<1>0. opt' = opt /\ sent' \in [Ends -> Int] /\ eng' = [eng EXCEPT ![e] = y]
  BY DEF InEnds, Becomes, Inv
<1>1. ASSUME opt.zap # "off" PROVE Goes(x, y)
  <2>1. Sound(x) /\ x \in EngineType /\ opt \in Configs
    BY <1>1, SoundEngine
  <2>2. "connection" \in Reasons
    BY DEF Reasons
  <2> QED BY <2>1, <2>2, ErrorGoes
<1> HIDE DEF y
<1> QED BY <1>0, <1>1, BecomesKeeps

LEMMA ExpiresInv == ASSUME Inv, NEW e \in Ends, Expires(e) PROVE Inv'
<1> DEFINE x == eng[e]
           y == Error(x, "timeout")
<1>0. opt' = opt /\ sent' \in [Ends -> Int] /\ eng' = [eng EXCEPT ![e] = y]
  BY DEF Expires, Becomes, Inv
<1>1. ASSUME opt.zap # "off" PROVE Goes(x, y)
  <2>1. Sound(x) /\ x \in EngineType /\ opt \in Configs
    BY <1>1, SoundEngine
  <2>2. "timeout" \in Reasons
    BY DEF Reasons
  <2> QED BY <2>1, <2>2, ErrorGoes
<1> HIDE DEF y
<1> QED BY <1>0, <1>1, BecomesKeeps

LEMMA InBreaksInv == ASSUME Inv, NEW e \in Ends, InBreaks(e) PROVE Inv'
<1> DEFINE x == eng[e]
           y == [x EXCEPT !.io_error = TRUE, !.pollout = FALSE]
<1>0. opt' = opt /\ sent' \in [Ends -> Int] /\ eng' = [eng EXCEPT ![e] = y]
  BY DEF InBreaks, Becomes, Inv
<1>1. ASSUME opt.zap # "off" PROVE Goes(x, y)
  <2>1. Sound(x) /\ x \in EngineType /\ opt \in Configs
    BY <1>1, SoundEngine
  <2>2. y \in EngineType
    BY <2>1 DEF EngineType
  <2>3. Quiet(x, y) /\ y.out = x.out
    BY <2>1 DEF EngineType, Quiet, Same
  <2> HIDE DEF y
  <2> QED BY <2>1, <2>2, <2>3, QuietGoes
<1> HIDE DEF y
<1> QED BY <1>0, <1>1, BecomesKeeps

LEMMA OutInv == ASSUME Inv, NEW e \in Ends, Out(e) PROVE Inv'
<1> DEFINE x == eng[e]
           y == OutEvent(x)
<1>0. opt' = opt /\ sent' \in [Ends -> Int] /\ eng' = [eng EXCEPT ![e] = y]
  BY DEF Out, Becomes, Inv
<1>1. ASSUME opt.zap # "off" PROVE Goes(x, y)
  BY <1>1, SoundEngine, OutEventGoes
<1> HIDE DEF y
<1> QED BY <1>0, <1>1, BecomesKeeps

LEMMA OutFailsInv == ASSUME Inv, NEW e \in Ends, OutFails(e) PROVE Inv'
<1> DEFINE x == eng[e]
           y == [x EXCEPT !.pollout = FALSE]
<1>0. opt' = opt /\ sent' \in [Ends -> Int] /\ eng' = [eng EXCEPT ![e] = y]
  BY DEF OutFails, Becomes, Inv
<1>1. ASSUME opt.zap # "off" PROVE Goes(x, y)
  <2>1. Sound(x) /\ x \in EngineType /\ opt \in Configs
    BY <1>1, SoundEngine
  <2>2. y \in EngineType
    BY <2>1 DEF EngineType
  <2>3. Quiet(x, y) /\ y.out = x.out
    BY <2>1 DEF EngineType, Quiet, Same
  <2> HIDE DEF y
  <2> QED BY <2>1, <2>2, <2>3, QuietGoes
<1> HIDE DEF y
<1> QED BY <1>0, <1>1, BecomesKeeps

LEMMA ReadActivatedInv == ASSUME Inv, NEW e \in Ends, ReadActivated(e) PROVE Inv'
<1> DEFINE x == eng[e]
           z == [x EXCEPT !.asleep = FALSE]
           y == RestartOutput(z)
<1>0. opt' = opt /\ sent' \in [Ends -> Int] /\ eng' = [eng EXCEPT ![e] = y]
  BY DEF ReadActivated, Becomes, Inv
<1>1. ASSUME opt.zap # "off" PROVE Goes(x, y)
  <2>1. Sound(x) /\ x \in EngineType /\ opt \in Configs
    BY <1>1, SoundEngine
  <2>2. z \in EngineType
    BY <2>1 DEF EngineType
  <2>3. Quiet(x, z) /\ z.out = x.out
    BY <2>1 DEF EngineType, Quiet, Same
  <2> HIDE DEF z
  <2>4. Goes(x, z)
    BY <2>1, <2>2, <2>3, QuietGoes
  <2> QED BY <2>1, <2>4, RestartOutputGoes, GoesOn DEF Goes, Steps
<1> HIDE DEF y
<1> QED BY <1>0, <1>1, BecomesKeeps

LEMMA WriteActivatedInv == ASSUME Inv, NEW e \in Ends, WriteActivated(e) PROVE Inv'
<1> DEFINE x == eng[e]
           z == [x EXCEPT !.full = FALSE]
           y == RestartInput(z)
<1>0. opt' = opt /\ sent' \in [Ends -> Int] /\ eng' = [eng EXCEPT ![e] = y]
  BY DEF WriteActivated, Becomes, Inv
<1>1. ASSUME opt.zap # "off" PROVE Goes(x, y)
  <2>1. Sound(x) /\ x \in EngineType /\ opt \in Configs
    BY <1>1, SoundEngine
  <2>2. z \in EngineType
    BY <2>1 DEF EngineType
  <2>3. /\ Same(x, z) /\ z.timers = x.timers /\ z.out = x.out /\ z.wire = x.wire
        /\ z.rc = x.rc /\ z.full = FALSE /\ z.input_stopped = x.input_stopped
        /\ z.in = x.in /\ z.held = x.held
    BY <2>1 DEF EngineType, Same
  <2> HIDE DEF z
  <2>4. Alike(x, z)
    BY <2>1, <2>2, <2>3 DEF Alike, Sound
  <2>5. Goes(x, z)
    BY <2>1, <2>3, <2>4, AlikeGoes
  <2> QED BY <2>1, <2>5, RestartInputGoes, GoesOn DEF Goes, Steps
<1> HIDE DEF y
<1> QED BY <1>0, <1>1, BecomesKeeps

LEMMA ZapReplyInv == ASSUME Inv, NEW e \in Ends, ZapReply(e) PROVE Inv'
<1> DEFINE x == eng[e]
           y == ZapMsgAvailable(x)
<1>0. opt' = opt /\ sent' \in [Ends -> Int] /\ eng' = [eng EXCEPT ![e] = y]
  BY DEF ZapReply, Becomes, Inv
<1>1. ASSUME opt.zap # "off" PROVE Goes(x, y)
  <2>1. Sound(x) /\ x \in EngineType /\ opt \in Configs
    BY <1>1, SoundEngine
  <2>2. x.mech # "none"
    BY <2>1 DEF ZapReply, Sound
  <2> QED BY <2>1, <2>2, ZapMsgAvailableGoes
<1> HIDE DEF y
<1> QED BY <1>0, <1>1, BecomesKeeps

LEMMA AppRecvInv == ASSUME Inv, NEW e \in Ends, AppRecv(e) PROVE Inv'
<1> DEFINE x == eng[e]
           q == x.queued - 1
           y == [x EXCEPT !.queued = q]
<1>0. opt' = opt /\ sent' \in [Ends -> Int] /\ eng' = [eng EXCEPT ![e] = y]
  BY DEF AppRecv, Becomes, Inv
<1>1. ASSUME opt.zap # "off" PROVE Goes(x, y)
  <2>1. Sound(x) /\ x \in EngineType /\ opt \in Configs
    BY <1>1, SoundEngine
  <2>0. q \in Int
    <3>1. x.queued \in Int
      BY <2>1 DEF EngineType
    <3> QED BY <3>1
  <2> HIDE DEF q
  <2>2. y \in EngineType
    BY <2>1, <2>0 DEF EngineType
  <2>3. Quiet(x, y) /\ y.out = x.out
    BY <2>1 DEF EngineType, Quiet, Same
  <2> HIDE DEF y
  <2> QED BY <2>1, <2>2, <2>3, QuietGoes
<1> HIDE DEF y
<1> QED BY <1>0, <1>1, BecomesKeeps

LEMMA LostInv == ASSUME Inv, NEW e \in Ends, Lost(e) PROVE Inv'
<1> DEFINE x == eng[e]
           y == [x EXCEPT !.wire = <<>>]
<1>0. opt' = opt /\ sent' \in [Ends -> Int] /\ eng' = [eng EXCEPT ![e] = y]
  BY DEF Lost, Becomes, Inv
<1>1. ASSUME opt.zap # "off" PROVE Goes(x, y)
  <2>1. Sound(x)
    BY <1>1, SoundEngine
  <2>2. Capacity \in Nat
    BY EngineAssumption
  <2>3. <<>> \in Seq(Token) /\ Len(<<>>) <= Capacity
    BY <2>2
  <2> QED BY <2>1, <2>3, WireGoes, TokensEmpty
<1> HIDE DEF y
<1> QED BY <1>0, <1>1, BecomesKeeps

LEMMA IntervalInv == ASSUME Inv, NEW e \in Ends, Interval(e) PROVE Inv'
<1> DEFINE x == eng[e]
           q == x.pings + 1
           z == [x EXCEPT !.next = "ping", !.pings = q]
           y == OutEvent(z)
<1>0. opt' = opt /\ sent' \in [Ends -> Int] /\ eng' = [eng EXCEPT ![e] = y]
  BY DEF Interval, Becomes, Inv
<1>1. ASSUME opt.zap # "off" PROVE Goes(x, y)
  <2>1. Sound(x) /\ x \in EngineType /\ opt \in Configs
    BY <1>1, SoundEngine
  <2>2. IsZap(x) => Passed(x) /\ x.greet = "done"
    BY <2>1 DEF Interval, Sound, Guarded, Greeting, Before
  <2>3. x.pings \in Int /\ "ping" \in Nexts
    BY <2>1 DEF EngineType, Nexts
  <2>4. q \in Int
    BY <2>3
  <2> HIDE DEF q
  <2>5. z \in EngineType
    BY <2>1, <2>3, <2>4 DEF EngineType
  <2>6. /\ z.who = x.who /\ z.greet = x.greet /\ z.mech = x.mech /\ z.state = x.state
        /\ z.did = x.did /\ z.zap = x.zap /\ z.next = "ping" /\ z.process = x.process
        /\ z.wire = x.wire /\ z.got = x.got /\ z.in = x.in /\ z.held = x.held
    BY <2>1 DEF EngineType
  <2> HIDE DEF z
  <2>7. Talks(x, z)
    BY <2>1, <2>2, <2>5, <2>6, TalkFacts DEF Talks, Sound
  <2>8. Goes(x, z)
    BY <2>1, <2>6, <2>7, TalksGoes
  <2> QED BY <2>1, <2>8, OutEventGoes, GoesOn DEF Goes, Steps
<1> HIDE DEF y
<1> QED BY <1>0, <1>1, BecomesKeeps

LEMMA AppSendInv == ASSUME Inv, NEW e \in Ends, AppSend(e) PROVE Inv'
<1> DEFINE x == eng[e]
           tok == Data(sent'[e])
           s == Append(x.to_send, tok)
           y == [x EXCEPT !.to_send = s]
<1>0. opt' = opt /\ sent' \in [Ends -> Int] /\ eng' = [eng EXCEPT ![e] = y]
  <2>1. sent \in [Ends -> Int] /\ sent' = [sent EXCEPT ![e] = @ + 1]
    BY DEF AppSend, Inv
  <2> QED BY <2>1 DEF AppSend
<1>1. ASSUME opt.zap # "off" PROVE Goes(x, y)
  <2>1. Sound(x) /\ x \in EngineType /\ x.to_send \in Seq(Token)
    BY <1>1, SoundEngine DEF EngineType
  <2>2. tok \in Token
    <3>1. "data" \in Kinds /\ sent'[e] \in Int
      BY <1>0 DEF Kinds
    <3> QED BY <3>1 DEF Data, Token
  <2>3. s \in Seq(Token)
    BY <2>1, <2>2
  <2> HIDE DEF s, tok
  <2>4. y \in EngineType
    BY <2>1, <2>3 DEF EngineType
  <2>5. Quiet(x, y) /\ y.out = x.out
    BY <2>1 DEF EngineType, Quiet, Same
  <2> HIDE DEF y
  <2> QED BY <2>1, <2>4, <2>5, QuietGoes
<1> HIDE DEF y
<1> QED BY <1>0, <1>1, BecomesKeeps

(* Only a server without a handler is an old library.                      *)
LEMMA OldReadsInv == ASSUME Inv, OldReads PROVE Inv'
<1>1. opt' = opt /\ sent' = sent
  BY DEF OldReads
<1>2. CASE opt.zap = "off"
  BY <1>1, <1>2 DEF Inv
<1>3. CASE opt.zap # "off"
  <2>1. "server" \in Ends
    BY DEF Ends
  <2>2. eng["server"].life \in Lives
    BY <1>3, <2>1, SoundEngine DEF EngineType
  <2> QED BY <2>2 DEF OldReads, Lives, Reasons
<1> QED BY <1>2, <1>3

LEMMA StutterInv == ASSUME Inv, UNCHANGED vars PROVE Inv'
<1>1. opt' = opt /\ sent' = sent /\ eng' = eng
  BY DEF vars
<1>2. \A d \in Ends : (Sound(eng[d]))' <=> Sound(eng[d])
  BY <1>1 DEF Sound, Guarded, Greeting, AsksOnce, Before, IsZap, Passed, Unready
<1>3. /\ (Passed(eng["server"]))' <=> Passed(eng["server"])
      /\ (Clean(eng["client"]))' <=> Clean(eng["client"])
  BY <1>1 DEF Passed, Clean
<1> QED BY <1>1, <1>2, <1>3 DEF Inv

LEMMA NextInv == ASSUME Inv, [Next]_vars PROVE Inv'
<1>1. ASSUME NEW e \in Ends, Step(e) PROVE Inv'
  BY <1>1, InInv, InEndsInv, InBreaksInv, OutInv, ReadActivatedInv, WriteActivatedInv,
     ZapReplyInv DEF Step
<1>2. ASSUME NEW e \in Ends,
             OutFails(e) \/ Interval(e) \/ Expires(e) \/ AppSend(e) \/ AppRecv(e) \/ Lost(e)
      PROVE  Inv'
  BY <1>2, OutFailsInv, IntervalInv, ExpiresInv, AppSendInv, AppRecvInv, LostInv
<1> QED BY <1>1, <1>2, OldReadsInv, StutterInv DEF Next

(* What the property says of one engine.                                   *)
LEMMA InvAuthenticated == ASSUME Inv PROVE Authenticated
<1> SUFFICES ASSUME opt.zap # "off" PROVE Authenticated
  BY DEF Authenticated
<1>1. "server" \in Ends /\ "client" \in Ends
  BY DEF Ends
<1> DEFINE s == eng["server"]
           c == eng["client"]
<1>2. IsZap(s) /\ Guarded(s)
  BY <1>1, SoundEngine DEF IsZap, Sound
<1>3. \A toks : HasData(toks) <=> ~NoData(toks)
  BY DEF HasData, NoData, IsData
<1>4. HasData(s.got) => Passed(s)
  BY <1>2, <1>3 DEF Guarded, Before
<1>5. HasData(c.got) => Passed(s)
  BY <1>3 DEF Inv, Clean
<1>6. HasData(s.got) => Credited(s.got)
  BY <1>2, <1>3 DEF Guarded
<1> HIDE DEF s, c
<1> QED BY <1>4, <1>5, <1>6 DEF Authenticated, Passed, Credited, IsData, s, c

(* A server with a ZAP handler passes on a message and sends one only      *)
(* after the handler has accepted the client, and the credential comes     *)
(* before the first message (stream_engine_t::mechanism_ready(),           *)
(* write_credential(), and the next_handshake_command() and process_       *)
(* handshake_command() of every mechanism), however many messages there    *)
(* are and whatever the network, the batches and the pipes take.           *)
THEOREM Authentication == Spec => []Authenticated
<1>1. Init => Inv
  BY InitInv
<1>2. Inv /\ [Next]_vars => Inv'
  BY NextInv
<1>3. Inv => Authenticated
  BY InvAuthenticated
<1> QED BY <1>1, <1>2, <1>3, PTL DEF Spec

=============================================================================
