------------------------------- MODULE Socks -------------------------------
(***************************************************************************)
(* A connection through a SOCKS5 proxy: socks_connecter_t with the         *)
(* encoders and decoders of its four messages (socks_connecter.cpp,        *)
(* socks.cpp).  Writes and reads take any part of a message; what follows  *)
(* the proxy's response on the stream is the peer's and must be left to    *)
(* the engine.  A message is known by how many of its bytes have come, so  *)
(* that a byte is its place on the stream.                                 *)
(***************************************************************************)
EXTENDS Integers

CONSTANTS
  Replies,     \* of proxies: records of version, method, code and size
  PeerBytes,   \* what the peer sends at once
  MaxAttempts  \* connections that are begun

GreetingSize == 3
ChoiceSize == 2
RequestSize == 4
HeadSize == 5

VARIABLES
  status,    \* socks_connecter_t::status
  sock,      \* s: "retired" or "open"
  poll,      \* what the poller looks for, of the descriptor that was added
  timer,     \* whether the reconnect timer runs
  greeting, request,  \* encoders: bytes encoded and written
  choice, response,   \* decoders: bytes read, on which connection
  proxy,     \* the other end: its replies, and bytes it received and sent
  taken,     \* bytes read from the stream
  attempt,   \* connections so far
  outcome    \* "", "attached", "terminated" or the assertion that failed
socksvars == <<status, sock, poll, timer, greeting, request, choice, response, proxy, taken,
               attempt, outcome>>

NoPoll == {"none"}
Encoded(n) == [encoded |-> n, written |-> 0]
Blank == Encoded(0)
Pending(e) == e.written < e.encoded
Unread == [read |-> 0, of |-> 0]
Lesser(a, b) == IF a < b THEN a ELSE b
Available == proxy.sent - taken
Connected == {"sending_greeting", "waiting_for_choice", "sending_request", "waiting_for_response"}

-----------------------------------------------------------------------------
(* The proxy answers what it has received as a whole; the peer behind it   *)
(* talks at once.                                                          *)
ProxyReplies ==
  /\ sock = "open"
  /\ \/ /\ proxy.received = GreetingSize /\ proxy.sent = 0
        /\ proxy' = [proxy EXCEPT !.sent = ChoiceSize]
     \/ /\ proxy.received = GreetingSize + RequestSize /\ proxy.sent = ChoiceSize
        /\ \E peer \in {0, PeerBytes} :
             proxy' = [proxy EXCEPT !.sent = ChoiceSize + proxy.reply.size + peer]
  /\ UNCHANGED <<status, sock, poll, timer, greeting, request, choice, response, taken, attempt,
                 outcome>>

-----------------------------------------------------------------------------
StartTimer ==
  /\ timer' = TRUE
  /\ status' = "waiting_for_reconnect_time"

(* error(): the encoders and decoders begin anew.                          *)
Reset ==
  /\ greeting' = Blank /\ request' = Blank
  /\ choice' = Unread /\ response' = Unread
Error ==
  /\ poll' = NoPoll /\ sock' = "retired"
  /\ Reset
  /\ StartTimer
  /\ UNCHANGED <<attempt, outcome>>

(* connect_to_proxy(): a connection at once leaves the greeting unwritten. *)
InitiateConnect ==
  /\ attempt < MaxAttempts /\ attempt' = attempt + 1
  /\ \/ /\ \E reply \in Replies : proxy' = [reply |-> reply, received |-> 0, sent |-> 0]
        /\ taken' = 0 /\ sock' = "open" /\ poll' = {"out"} /\ timer' = FALSE
        /\ status' \in {"sending_greeting", "waiting_for_proxy_connection"}
     \/ StartTimer /\ UNCHANGED <<proxy, taken, sock, poll>>
  /\ UNCHANGED <<greeting, request, choice, response, outcome>>

ProcessPlug ==
  /\ status = "unplugged" /\ outcome = ""
  /\ \/ InitiateConnect
     \/ /\ StartTimer
        /\ UNCHANGED <<sock, poll, greeting, request, choice, response, proxy, taken, attempt,
                       outcome>>
TimerEvent == timer /\ InitiateConnect

(* out_event().                                                            *)
CheckProxyConnection ==
  /\ status = "waiting_for_proxy_connection"
  /\ \/ Error
     \/ /\ greeting' = Encoded(GreetingSize) /\ status' = "sending_greeting"
        /\ UNCHANGED <<sock, poll, timer, request, choice, response, attempt, outcome>>
  /\ UNCHANGED <<proxy, taken>>

Fails(assertion) ==
  /\ outcome' = assertion
  /\ UNCHANGED <<status, sock, poll, timer, greeting, request, choice, response, proxy, taken,
                 attempt>>

(* output(): a write that takes nothing ends the connection.               *)
Output(e, put(_)) ==
  \/ Error /\ UNCHANGED <<proxy, taken>>
  \/ \E n \in 1..e.encoded - e.written :
       /\ put([e EXCEPT !.written = @ + n])
       /\ proxy' = [proxy EXCEPT !.received = @ + n]
       /\ UNCHANGED <<sock, timer, choice, response, taken, attempt, outcome>>
SendsThenWaits(e, next) ==
  IF Pending(e) THEN UNCHANGED <<poll, status>>
  ELSE poll' = (poll \ {"out"}) \cup {"in"} /\ status' = next

SendGreeting ==
  /\ status = "sending_greeting"
  /\ IF ~Pending(greeting) THEN Fails("has_pending_data")
     ELSE Output(greeting, LAMBDA e : /\ greeting' = e /\ UNCHANGED request
                                      /\ SendsThenWaits(e, "waiting_for_choice"))
SendRequest ==
  /\ status = "sending_request"
  /\ Output(request, LAMBDA e : /\ request' = e /\ UNCHANGED greeting
                                /\ SendsThenWaits(e, "waiting_for_response"))

(* in_event().  What the proxy says is looked at as far as it was read.    *)
ReadChoice(n) ==
  LET c == [read |-> choice.read + n, of |-> attempt]
      bad == proxy.reply.version # 5 \/ (c.read = ChoiceSize /\ proxy.reply.method # 0)
  IN IF bad THEN Error
     ELSE /\ choice' = c
          /\ IF c.read = ChoiceSize
               THEN /\ request' = Encoded(RequestSize) /\ status' = "sending_request"
                    /\ poll' = (poll \ {"in"}) \cup {"out"}
               ELSE UNCHANGED <<request, status, poll>>
          /\ UNCHANGED <<sock, timer, greeting, response, attempt, outcome>>
InputChoice ==
  /\ status = "waiting_for_choice"
  /\ IF choice.read >= ChoiceSize THEN Fails("bytes_read < 2")
     ELSE \E n \in 1..Lesser(Available, ChoiceSize - choice.read) :
            taken' = taken + n /\ ReadChoice(n) /\ UNCHANGED proxy

(* The rest of a response is asked for as if nothing of it had been read,  *)
(* so that a response that comes in parts takes bytes of the peer's; it is *)
(* then never found to be ready.                                           *)
ToRead(read) == IF read < HeadSize THEN HeadSize - read ELSE proxy.reply.size - HeadSize
Attach ==
  /\ outcome' = "attached" /\ poll' = NoPoll /\ sock' = "retired" /\ status' = "unplugged"
  /\ UNCHANGED <<timer, greeting, request, choice, attempt>>
ReadResponse(n) ==
  LET read == response.read + n
      ready == read = proxy.reply.size
      bad == proxy.reply.version # 5 \/ (ready /\ proxy.reply.code # 0)
  IN IF bad THEN Error
     ELSE /\ response' = [read |-> read, of |-> attempt]
          /\ IF ready THEN Attach
             ELSE UNCHANGED <<status, sock, poll, timer, greeting, request, choice, attempt, outcome>>
InputResponse ==
  /\ status = "waiting_for_response"
  /\ \E n \in 1..Lesser(Available, ToRead(response.read)) :
       taken' = taken + n /\ ReadResponse(n) /\ UNCHANGED proxy

(* The connection ends, which shows when the descriptor is read or has an  *)
(* error.                                                                  *)
InEventError ==
  /\ status \in Connected \cup {"waiting_for_proxy_connection"}
  /\ Error /\ UNCHANGED <<proxy, taken>>

InEvent == InputChoice \/ InputResponse \/ InEventError
OutEvent == CheckProxyConnection \/ SendGreeting \/ SendRequest

(* process_term(), which ends the timer or the connection.                 *)
ProcessTerm ==
  /\ outcome \in {"", "attached"}
  /\ timer' = FALSE /\ poll' = NoPoll /\ sock' = "retired"
  /\ outcome' = IF outcome = "" THEN "terminated" ELSE "done"
  /\ UNCHANGED <<status, greeting, request, choice, response, proxy, taken, attempt>>

SocksInit ==
  /\ status = "unplugged" /\ sock = "retired" /\ poll = NoPoll /\ timer = FALSE
  /\ greeting = Blank /\ request = Blank /\ choice = Unread /\ response = Unread
  /\ proxy \in [reply : Replies, received : {0}, sent : {0}]
  /\ taken = 0 /\ attempt = 0 /\ outcome = ""
Working == outcome = ""
SocksNext ==
  \/ Working /\ (ProcessPlug \/ TimerEvent \/ ProxyReplies)
  \/ Working /\ (OutEvent \/ InEvent)
  \/ ProcessTerm
SocksSpec == SocksInit /\ [][SocksNext]_socksvars

-----------------------------------------------------------------------------
(* Properties.                                                             *)

(* The engine gets the connection only when the proxy has accepted method  *)
(* and request on this very connection, and it gets the stream from the    *)
(* byte after the response on, however reads and writes were cut           *)
(* (socks_response_decoder_t::input, message_ready).                       *)
HandsOverClean ==
  outcome \in {"attached", "done"} =>
    /\ taken = ChoiceSize + proxy.reply.size
    /\ proxy.received = GreetingSize + RequestSize
    /\ proxy.reply.version = 5 /\ proxy.reply.method = 0 /\ proxy.reply.code = 0

(* Over all reconnections: there is a descriptor, and it is polled, in the *)
(* states that expect its events and in no other, a timer only between     *)
(* them, and nothing that a decoder holds is from an earlier connection.   *)
(* The one assertion that fails is that of a connection made at once       *)
(* (socks_connecter.cpp:227).                                              *)
Polls ==
  CASE status \in {"waiting_for_proxy_connection", "sending_greeting", "sending_request"} -> {"out"}
    [] status \in {"waiting_for_choice", "waiting_for_response"} -> {"in"}
    [] OTHER -> NoPoll
NothingStale ==
  /\ outcome \in {"", "attached", "terminated", "done", "has_pending_data"}
  /\ outcome = "has_pending_data" => greeting = Blank
  /\ outcome = "" =>
       /\ poll = Polls
       /\ sock = "open" <=> poll # NoPoll
       /\ timer <=> status = "waiting_for_reconnect_time"
       /\ choice.read > 0 => choice.of = attempt
       /\ response.read > 0 => response.of = attempt /\ choice.read = ChoiceSize
=============================================================================
