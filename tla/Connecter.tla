----------------------------- MODULE Connecter -----------------------------
(***************************************************************************)
(* A connecter on tcp, ipc, tipc or vmci: it opens a descriptor, waits for *)
(* the connection to be made, by itself or with a timer, waits before it   *)
(* tries again, hands the connection over to its session and ends          *)
(* (tcp_connecter.cpp, ipc_connecter.cpp, tipc_connecter.cpp,              *)
(* vmci_connecter.cpp).  A handler is a function of the connecter and of   *)
(* what the system answers to its calls: to open(), to getsockopt() for    *)
(* SO_ERROR and to generate_random().                                      *)
(***************************************************************************)
EXTENDS Integers, FiniteSets

CONSTANTS
  Settings,     \* records: transport, whether it starts delayed, ivl and max of
                \* the reconnect interval, whether there is a connect timeout
  MaxInt,       \* the largest int
  MaxRetries    \* reconnect timers that expire

VARIABLES
  setting,      \* one of Settings
  con           \* the connecter, with the descriptors and timers it has at the
                \* reactor, and what became of its connection

connectervars == <<setting, con>>

Retired == 0
Ids == {"connect", "reconnect"}
Wrap(n) == ((n + MaxInt + 1) % (2 * MaxInt + 2)) - MaxInt - 1
Smaller(a, b) == IF a < b THEN a ELSE b

-----------------------------------------------------------------------------
(* Each transport has a class of its own with the handlers below, written  *)
(* once more for it. Beside the addresses they differ in whether connect() *)
(* may leave the connection to be made later, in whether that has a        *)
(* timeout, and in the errors that open() and connect() have.              *)
TcpConnecter  == [pends |-> TRUE, times |-> TRUE]
IpcConnecter  == [pends |-> TRUE, times |-> FALSE]
TipcConnecter == [pends |-> TRUE, times |-> FALSE]
VmciConnecter == [pends |-> FALSE, times |-> FALSE]
Class == CASE setting.transport = "tcp"  -> TcpConnecter
           [] setting.transport = "ipc"  -> IpcConnecter
           [] setting.transport = "tipc" -> TipcConnecter
           [] setting.transport = "vmci" -> VmciConnecter

(* open(): "none" is a failure without a descriptor (an address that does  *)
(* not resolve, no descriptor left, no family for VMCI), "failed" one with *)
(* it; an interrupted call counts as pending.                              *)
TcpOpen  == {"none", "failed", "pending", "connected"}
IpcOpen  == {"none", "failed", "pending", "connected"}
TipcOpen == {"none", "failed", "pending", "connected"}
VmciOpen == {"none", "failed", "connected"}
Open == CASE setting.transport = "tcp"  -> TcpOpen
          [] setting.transport = "ipc"  -> IpcOpen
          [] setting.transport = "tipc" -> TipcOpen
          [] setting.transport = "vmci" -> VmciOpen

(* connect(): SO_ERROR when the wait is over.  tcp ends the program for    *)
(* what is a bug of its own, the others for all that they do not expect;   *)
(* getsockopt() itself may lack the option on ipc.                         *)
Errors == {"0", "ECONNREFUSED", "EINVAL", "ENOPROTOOPT", "ENOBUFS"}
TcpConnect(err)  == IF err = "0" THEN "made"
                    ELSE IF err \in {"ENOPROTOOPT", "ENOBUFS"} THEN "abort" ELSE "refused"
IpcConnect(err)  == IF err \in {"0", "ENOPROTOOPT"} THEN "made"
                    ELSE IF err = "ECONNREFUSED" THEN "refused" ELSE "abort"
TipcConnect(err) == IF err = "0" THEN "made"
                    ELSE IF err = "ECONNREFUSED" THEN "refused" ELSE "abort"
VmciConnect(err) == IF err = "0" THEN "made"
                    ELSE IF err \in {"ECONNREFUSED", "EINVAL"} THEN "refused" ELSE "abort"
Connect(err) == CASE setting.transport = "tcp"  -> TcpConnect(err)
                  [] setting.transport = "ipc"  -> IpcConnect(err)
                  [] setting.transport = "tipc" -> TipcConnect(err)
                  [] setting.transport = "vmci" -> VmciConnect(err)

-----------------------------------------------------------------------------
(* The reactor's part: timers[id] is the number of timers that run,        *)
(* polled the descriptor it has been given and out whether it looks for    *)
(* it to become writable.  Cancelling a timer that does not run, or        *)
(* removing a descriptor that is not there, ends the program.              *)
Aborts(x, how) == IF x.life = "running" THEN [x EXCEPT !.life = how] ELSE x
AddTimer(x, id) == [x EXCEPT !.timers[id] = @ + 1, !.started[id] = TRUE]
CancelTimer(x, id) ==
  IF ~x.started[id] THEN x
  ELSE IF x.timers[id] = 0 THEN Aborts(x, "asserted")
  ELSE [x EXCEPT !.timers[id] = @ - 1, !.started[id] = FALSE]
AddFd(x, out) == [x EXCEPT !.polled = x.s, !.out = out, !.handle_valid = TRUE]
RmFd(x) == IF x.polled = Retired THEN Aborts(x, "asserted")
           ELSE [x EXCEPT !.polled = Retired, !.out = FALSE, !.handle_valid = FALSE]

(* The lowest descriptor that is free, as the system gives them.           *)
Socket(x) ==
  LET d == CHOOSE n \in 1 .. Cardinality(x.open) + 1 :
             /\ n \notin x.open /\ \A m \in 1 .. n - 1 : m \in x.open
  IN  IF x.s # Retired THEN Aborts(x, "asserted")
      ELSE [x EXCEPT !.s = d, !.open = @ \cup {d}]
Close(x) == IF x.s = Retired THEN Aborts(x, "asserted")
            ELSE [x EXCEPT !.open = @ \ {x.s}, !.s = Retired]

-----------------------------------------------------------------------------
(* get_new_reconnect_ivl(): the remainder of a random uint32_t by the      *)
(* interval.  By 0 it ends the program; -1, converted, is the largest      *)
(* uint32_t, so that the remainder may be anything.                        *)
Randoms == IF setting.ivl > 0 THEN 0 .. setting.ivl - 1
           ELSE IF setting.ivl = 0 THEN {0} ELSE {0, 1, MaxInt, -MaxInt}
GetNewReconnectIvl(x, random) ==
  [x EXCEPT
    !.interval = Wrap(x.current + random),
    !.current = IF setting.max > 0 /\ setting.max > setting.ivl
                  THEN Smaller(Wrap(2 * @), setting.max) ELSE @]
AddReconnectTimer(x, random) ==
  IF setting.ivl = 0 THEN Aborts(x, "divided")
  ELSE AddTimer([GetNewReconnectIvl(x, random) EXCEPT !.intervals = @ + 1], "reconnect")

(* out_event(): the connection has been made or has failed.                *)
Terminate(x) == IF x.term = "no" THEN [x EXCEPT !.term = "asked"] ELSE x
SendAttach(x) == [x EXCEPT !.attached = @ \cup {x.s}, !.s = Retired]
OutEvent(x, answer) ==
  LET y == RmFd(CancelTimer(x, "connect"))
      result == Connect(answer.err)
  IN  CASE result = "abort"   -> Aborts(y, "unexpected")
        [] result = "refused" -> AddReconnectTimer(Close(y), answer.random)
        [] result = "made"    -> Terminate(SendAttach(y))

AddConnectTimer(x) == IF Class.times /\ setting.timeout THEN AddTimer(x, "connect") ELSE x
StartConnecting(x, answer) ==
  CASE answer.open = "connected" -> OutEvent(AddFd(Socket(x), FALSE), answer)
    [] answer.open = "pending" /\ Class.pends -> AddConnectTimer(AddFd(Socket(x), TRUE))
    [] answer.open = "failed" -> AddReconnectTimer(Close(Socket(x)), answer.random)
    [] OTHER -> AddReconnectTimer(x, answer.random)

(* The timer that expires is still among those of the reactor while its    *)
(* handler runs (poller_base_t::execute_timers).                           *)
Expired(x, id) == [x EXCEPT !.timers[id] = @ - 1]
TimerEvent(x, id, answer) ==
  LET y == [x EXCEPT !.started[id] = FALSE]
  IN  IF id = "connect" THEN AddReconnectTimer(Close(RmFd(y)), answer.random)
      ELSE StartConnecting([y EXCEPT !.retries = @ + 1], answer)

-----------------------------------------------------------------------------
Idle == [id \in Ids |-> 0]
ConnecterInit ==
  /\ setting \in Settings
  /\ con = [life |-> "unplugged", term |-> "no", s |-> Retired, handle_valid |-> FALSE,
            polled |-> Retired, out |-> FALSE, timers |-> Idle,
            started |-> [id \in Ids |-> FALSE], current |-> setting.ivl, interval |-> 0,
            intervals |-> 0, retries |-> 0, open |-> {}, attached |-> {}]

Answers == [open : Open, err : Errors, random : Randoms]
Plugged(x) == [x EXCEPT !.life = "running"]
ProcessPlug(answer) ==
  /\ con.life = "unplugged"
  /\ con' = IF setting.delayed THEN AddReconnectTimer(Plugged(con), answer.random)
            ELSE StartConnecting(Plugged(con), answer)

(* in_event() is out_event().                                              *)
InEvent(answer) ==
  /\ con.life = "running" /\ con.polled # Retired
  /\ con' = OutEvent(con, answer)
Expires(id, answer) ==
  /\ con.life = "running" /\ con.timers[id] > 0
  /\ id = "reconnect" => con.retries < MaxRetries
  /\ con' = Expired(TimerEvent(con, id, answer), id)

(* The session tells it to end, because it was asked to or by itself.      *)
SendTerm == /\ con.term \in {"no", "asked"} /\ con' = [con EXCEPT !.term = "sent"]
ProcessTerm ==
  /\ con.life = "running" /\ con.term = "sent"
  /\ LET y == CancelTimer(CancelTimer(con, "connect"), "reconnect")
         z == IF y.handle_valid THEN RmFd(y) ELSE y
     IN  con' = [(IF z.s # Retired THEN Close(z) ELSE z) EXCEPT
                  !.life = IF z.life = "running" THEN "destroyed" ELSE @]

ConnecterNext ==
  /\ \/ \E answer \in Answers :
          \/ ProcessPlug(answer) \/ InEvent(answer)
          \/ \E id \in Ids : Expires(id, answer)
     \/ SendTerm \/ ProcessTerm
  /\ UNCHANGED setting
ConnecterSpec == ConnecterInit /\ [][ConnecterNext]_connectervars

-----------------------------------------------------------------------------
(* Properties.                                                             *)

(* A connecter that has not handed a connection over and was not told to   *)
(* end has exactly one thing to wait for: a descriptor that the reactor    *)
(* watches until it is writable, with a timer if there is a timeout, or    *)
(* the reconnect timer (start_connecting(), add_reconnect_timer()).        *)
OneWayOn ==
  con.life = "running" =>
    /\ con.handle_valid <=> con.polled # Retired
    /\ con.polled = con.s /\ (con.polled # Retired => con.out)
    /\ \A id \in Ids : con.timers[id] = IF con.started[id] THEN 1 ELSE 0
    /\ con.attached = {} => (con.polled # Retired) # con.started["reconnect"]
    /\ con.started["connect"] => con.polled # Retired
    /\ con.polled # Retired /\ Class.times /\ setting.timeout => con.started["connect"]

(* It hands over one connection, and does nothing afterwards but wait for  *)
(* its end; each descriptor it opened is closed, handed over or the one it *)
(* has; and nothing of it is left when it has been deleted                 *)
(* (out_event(), process_term(), the assertions of the destructor).        *)
NothingOfItLeft ==
  con.life \in {"running", "destroyed"} =>
    /\ Cardinality(con.attached) <= 1
    /\ con.open = con.attached \cup ({con.s} \ {Retired})
    /\ con.attached # {} \/ con.life = "destroyed" =>
         con.s = Retired /\ con.polled = Retired /\ con.timers = Idle
    /\ con.attached # {} => con.term # "no"

(* Each interval begins where the doubling has got, within the maximum,    *)
(* and ends before one more interval as it was set                         *)
(* (get_new_reconnect_ivl()).  That is so if twice the maximum is an int   *)
(* and an interval was set.                                                *)
Doubled(n) == IF setting.max > setting.ivl THEN Smaller(setting.ivl * 2 ^ n, setting.max)
              ELSE setting.ivl
BacksOff ==
  setting.ivl > 0 /\ setting.ivl <= MaxInt \div 2 /\ setting.max <= MaxInt \div 2 =>
    /\ con.current = Doubled(con.intervals)
    /\ con.intervals > 0 => con.interval \in Doubled(con.intervals - 1) ..
                                             Doubled(con.intervals - 1) + setting.ivl - 1

(* No assertion of the reactor, of close() or of open() fails; the program *)
(* ends for an error that is not expected of a connection, or for an       *)
(* interval of 0, which zmq_setsockopt() takes and which is the divisor of *)
(* the random delay (cancel_timer(), rm_fd(), get_new_reconnect_ivl()).    *)
NoAssertionFails == con.life # "asserted" /\ (con.life = "divided" => setting.ivl = 0)
=============================================================================
