------------------------------ MODULE Options ------------------------------
(***************************************************************************)
(* The options of a socket: what zmq.setsockopt() and zmq.getsockopt() of  *)
(* R pass on, and what options_t does with it (options.cpp).  An option    *)
(* has a field, and several have the same one: the mechanism and the part  *)
(* played in it come from a dozen options.  The library sees a value as    *)
(* bytes, whose number says what they are; R sends a string without its    *)
(* end, or an integer.  options.cpp is modelled for the options that the   *)
(* build has; GSSAPI and VMCI, which it has not, are refused.              *)
(***************************************************************************)
EXTENDS Integers, FiniteSets

CONSTANTS
  Settable,   \* the options that are set, a part of AllOptions
  Values,     \* values: records of len, int (as an int), key (as text) and id
  MaxCalls

VARIABLES
  opts,       \* options_t
  told,       \* what each option was set to last
  served,     \* the mechanism that an option last chose the server's part of
  calls
optvars == <<opts, told, served, calls>>

Nothing == [len |-> 0, int |-> 0, key |-> "none", id |-> "null"]
SizeofInt == 4
CurveKey == 32
CurveText == 40
IsInt(v) == v.len = SizeofInt
Is(v, low) == IsInt(v) /\ v.int >= low
IsBool(v) == IsInt(v) /\ v.int \in {0, 1}
IsText(v) == v.len > 0 /\ v.len < 256

(* Numbers and their least value.                                          *)
LeastNumber ==
  [SNDHWM |-> 0, RCVHWM |-> 0, RATE |-> 1, RECOVERY_IVL |-> 0, SNDBUF |-> -1, RCVBUF |-> -1,
   TOS |-> 0, LINGER |-> -1, CONNECT_TIMEOUT |-> 0, TCP_MAXRT |-> 0, RECONNECT_IVL |-> -1,
   RECONNECT_IVL_MAX |-> 0, BACKLOG |-> 0, MULTICAST_HOPS |-> 1, MULTICAST_MAXTPDU |-> 1,
   RCVTIMEO |-> -1, SNDTIMEO |-> -1]
LeastTuning ==
  [TCP_KEEPALIVE_CNT |-> -1, TCP_KEEPALIVE_IDLE |-> -1, TCP_KEEPALIVE_INTVL |-> -1]
LeastInterval ==
  [HANDSHAKE_IVL |-> 0, HEARTBEAT_IVL |-> 0, HEARTBEAT_TIMEOUT |-> 0, USE_FD |-> -1]
Plain == {"PLAIN_SERVER", "PLAIN_USERNAME", "PLAIN_PASSWORD"}
Keys == {"CURVE_PUBLICKEY", "CURVE_SECRETKEY", "CURVE_SERVERKEY"}
Curve == Keys \cup {"CURVE_SERVER"}
Servers == {"PLAIN_SERVER", "CURVE_SERVER"}
Filters == {"IPC_FILTER_UID", "IPC_FILTER_GID", "IPC_FILTER_PID"}
AllOptions ==
  DOMAIN LeastNumber \cup DOMAIN LeastTuning \cup DOMAIN LeastInterval \cup Plain \cup Curve
    \cup Filters
    \cup {"AFFINITY", "MAXMSGSIZE", "IDENTITY", "IPV4ONLY", "IPV6", "SOCKS_PROXY",
          "TCP_KEEPALIVE", "IMMEDIATE", "ZAP_DOMAIN", "CONFLATE", "INVERT_MATCHING",
          "HEARTBEAT_TTL"}

-----------------------------------------------------------------------------
(* options_t::setsockopt(), option by option: a set with the options that  *)
(* result, none when the call is refused.                                  *)

Sets(field, value) == {[opts EXCEPT ![field] = value]}
Number(o, least, v) == IF Is(v, least) THEN Sets(o, v.int) ELSE {}
SetsWide(o, v) == IF v.len = 2 * SizeofInt THEN Sets(o, v.id) ELSE {}

SetNumber(o, v) == IF o \in DOMAIN LeastNumber THEN Number(o, LeastNumber[o], v) ELSE {}
SetWide(o, v) ==
  CASE o \in {"AFFINITY", "MAXMSGSIZE"} -> SetsWide(o, v)
    [] o = "IDENTITY" -> IF IsText(v) THEN Sets(o, v.id) ELSE {}
    [] OTHER -> {}
SetNetwork(o, v) ==
  CASE o = "IPV4ONLY" -> IF IsBool(v) THEN Sets("IPV6", 1 - v.int) ELSE {}
    [] o \in {"IPV6", "IMMEDIATE"} -> IF IsBool(v) THEN Sets(o, v.int) ELSE {}
    [] o = "SOCKS_PROXY" -> IF v = Nothing \/ v.len > 0 THEN Sets(o, v.id) ELSE {}
    [] o = "TCP_KEEPALIVE" -> IF IsBool(v) \/ (IsInt(v) /\ v.int = -1) THEN Sets(o, v.int) ELSE {}
    [] o \in DOMAIN LeastTuning -> Number(o, LeastTuning[o], v)
    [] OTHER -> {}
SetFilter(o, v) ==
  IF o \notin Filters THEN {}
  ELSE IF v = Nothing THEN Sets(o, {})
  ELSE IF IsInt(v) THEN Sets(o, opts[o] \cup {v.id}) ELSE {}

Chooses(e, mechanism, server) == [e EXCEPT !.MECHANISM = mechanism, !.AS_SERVER = server]
SetPlain(o, v) ==
  CASE o = "PLAIN_SERVER" ->
         IF IsBool(v) THEN {Chooses(opts, IF v.int = 1 THEN "PLAIN" ELSE "NULL", v.int)} ELSE {}
    [] o \in Plain \ Servers ->
         IF v = Nothing THEN Sets("MECHANISM", "NULL")
         ELSE IF IsText(v) THEN {Chooses([opts EXCEPT ![o] = v.id], "PLAIN", 0)} ELSE {}
    [] OTHER -> {}

(* set_curve_key(): 32 bytes, or 40 characters with or without an end.     *)
KeyTaken(v) == v.len = CurveKey \/ (v.len \in {CurveText, CurveText + 1} /\ v.key = "good")
SetCurveKey(o, v) ==
  IF KeyTaken(v) THEN {[opts EXCEPT ![o] = v.id, !.MECHANISM = "CURVE"]} ELSE {}
SetCurve(o, v) ==
  CASE o = "CURVE_SERVER" ->
         IF IsBool(v) THEN {Chooses(opts, IF v.int = 1 THEN "CURVE" ELSE "NULL", v.int)} ELSE {}
    [] o = "CURVE_SERVERKEY" -> {[e EXCEPT !.AS_SERVER = 0] : e \in SetCurveKey(o, v)}
    [] o \in Keys \ {"CURVE_SERVERKEY"} -> SetCurveKey(o, v)
    [] o = "ZAP_DOMAIN" -> IF v.len < 256 THEN Sets(o, v.id) ELSE {}
    [] o = "CONFLATE" -> IF IsBool(v) THEN Sets(o, v.int) ELSE {}
    [] OTHER -> {}

(* The time to live is kept in tenths of seconds, of 16 bits; the division *)
(* cuts towards zero.                                                      *)
Tenths(n) == IF n < 0 THEN -((-n) \div 100) ELSE n \div 100
SetHeartbeat(o, v) ==
  CASE o \in DOMAIN LeastInterval -> Number(o, LeastInterval[o], v)
    [] o = "INVERT_MATCHING" -> IF IsInt(v) THEN Sets(o, IF v.int = 0 THEN 0 ELSE 1) ELSE {}
    [] o = "HEARTBEAT_TTL" ->
         IF IsInt(v) /\ Tenths(v.int) \in 0..6553 THEN Sets(o, Tenths(v.int)) ELSE {}
    [] OTHER -> {}

Setsockopt(o, v) ==
  SetNumber(o, v) \cup SetWide(o, v) \cup SetNetwork(o, v) \cup SetFilter(o, v)
    \cup SetPlain(o, v) \cup SetCurve(o, v) \cup SetHeartbeat(o, v)

(* A bad key in text form is written as far as it can be read before the   *)
(* call is refused (zmq_z85_decode).                                       *)
Spoiled(o, v) ==
  IF o \in Keys /\ v.len \in {CurveText, CurveText + 1} /\ v.key = "bad"
    THEN [opts EXCEPT ![o] = "spoiled"] ELSE opts

-----------------------------------------------------------------------------
(* options_t::getsockopt().  R hands over the buffer, a string of R or an  *)
(* integer, whose length says how much may be written.                     *)

GetNumber(o) == opts[o]
GetNetwork(o) == IF o = "IPV4ONLY" THEN 1 - opts.IPV6 ELSE opts[o]
Plays(mechanism) == IF opts.AS_SERVER = 1 /\ opts.MECHANISM = mechanism THEN 1 ELSE 0
GetSecurity(o) ==
  CASE o = "PLAIN_SERVER" -> Plays("PLAIN")
    [] o = "CURVE_SERVER" -> Plays("CURVE")
    [] OTHER -> opts[o]
GetHeartbeatTenths(o) == opts[o]
GetHeartbeat(o) == IF o = "HEARTBEAT_TTL" THEN 100 * opts[o] ELSE opts[o]
Getsockopt(o) ==
  CASE o \in DOMAIN LeastNumber \cup {"AFFINITY", "MAXMSGSIZE", "IDENTITY"} -> GetNumber(o)
    [] o \in Plain \cup Curve \cup {"ZAP_DOMAIN"} -> GetSecurity(o)
    [] o \in DOMAIN LeastInterval \cup {"INVERT_MATCHING", "HEARTBEAT_TTL", "CONFLATE"} ->
         GetHeartbeat(o)
    [] OTHER -> GetNetwork(o)

-----------------------------------------------------------------------------
Defaults ==
  [o \in AllOptions \cup {"MECHANISM", "AS_SERVER"} |->
     CASE o \in {"SNDHWM", "RCVHWM"} -> 1000
       [] o \in {"RATE", "RECONNECT_IVL", "BACKLOG"} -> 100
       [] o = "RECOVERY_IVL" -> 10000
       [] o = "MULTICAST_MAXTPDU" -> 1500
       [] o = "MULTICAST_HOPS" -> 1
       [] o \in {"SNDBUF", "RCVBUF", "LINGER", "RCVTIMEO", "SNDTIMEO", "TCP_KEEPALIVE",
                 "TCP_KEEPALIVE_CNT", "TCP_KEEPALIVE_IDLE", "TCP_KEEPALIVE_INTVL",
                 "HEARTBEAT_TIMEOUT", "USE_FD"} -> -1
       [] o = "HANDSHAKE_IVL" -> 30000
       [] o \in Filters -> {}
       [] o = "MECHANISM" -> "NULL"
       [] o \in ((Plain \cup Curve) \ Servers) \cup {"IDENTITY", "SOCKS_PROXY", "ZAP_DOMAIN",
                  "AFFINITY", "MAXMSGSIZE"} -> "null"
       [] OTHER -> 0]

OptInit ==
  /\ opts = Defaults
  /\ told = [o \in Settable |-> Nothing]
  /\ served = "none"
  /\ calls = 0

(* Whose server's part was asked for last: naming a user or a server's key *)
(* is a client's doing.                                                    *)
ServedAfter(o, v) ==
  CASE o \in Servers -> IF v.int = 1 THEN o ELSE "none"
    [] o \in {"PLAIN_USERNAME", "PLAIN_PASSWORD"} -> IF v = Nothing THEN served ELSE "none"
    [] o = "CURVE_SERVERKEY" -> "none"
    [] OTHER -> served

Accepted(o, v) ==
  /\ opts' \in Setsockopt(o, v)
  /\ told' = [told EXCEPT ![o] = v]
  /\ served' = ServedAfter(o, v)
Refused(o, v) ==
  /\ Setsockopt(o, v) = {}
  /\ opts' = Spoiled(o, v)
  /\ UNCHANGED <<told, served>>
SetOption(o, v) ==
  /\ calls < MaxCalls /\ calls' = calls + 1
  /\ Accepted(o, v) \/ Refused(o, v)

OptNext == \E o \in Settable, v \in Values : SetOption(o, v)
OptSpec == OptInit /\ [][OptNext]_optvars

-----------------------------------------------------------------------------
(* Properties.                                                             *)

(* An option reads back as what it was set to last, whatever other options *)
(* were set in between: no two of them use the same field, but for IPV6    *)
(* and IPV4ONLY, the server options, and a key that a refused text has     *)
(* spoiled (options_t::setsockopt, getsockopt).                            *)
Shared == Servers \cup {"IPV4ONLY", "IPV6"}
AsRead(o, v) ==
  CASE o = "HEARTBEAT_TTL" -> 100 * Tenths(v.int)
    [] o = "INVERT_MATCHING" -> IF v.int = 0 THEN 0 ELSE 1
    [] o \in DOMAIN LeastNumber \cup DOMAIN LeastTuning \cup DOMAIN LeastInterval
               \cup {"TCP_KEEPALIVE", "IMMEDIATE", "CONFLATE"} -> v.int
    [] OTHER -> v.id
ReadsBack ==
  \A o \in Settable \ (Shared \cup Filters) :
    told[o] # Nothing /\ ~(o \in Keys /\ opts[o] = "spoiled")
      => Getsockopt(o) = AsRead(o, told[o])

(* A socket plays the server's part of a mechanism only if it was asked to *)
(* be a server and has not been given a client's credentials since, and it *)
(* then has a mechanism that authenticates, unless that was taken back by  *)
(* a null user or password.  Which mechanism may have changed: a key makes *)
(* a PLAIN server a CURVE server (ZMQ_PLAIN_SERVER, ZMQ_CURVE_SERVER).     *)
ServerWasAsked ==
  /\ opts.AS_SERVER = 1 <=> served # "none"
  /\ opts.MECHANISM = "PLAIN" /\ opts.AS_SERVER = 1 => served = "PLAIN_SERVER"
  /\ Plays("PLAIN") + Plays("CURVE") <= 1
=============================================================================
