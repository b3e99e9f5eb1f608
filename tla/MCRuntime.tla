------------------------------ MODULE MCRuntime ------------------------------
(***************************************************************************)
(* The components of libzmq that work alone, and the zmq.poll() of pbdZMQ  *)
(* over zmq_poll(), checked side by side: a behaviour is one of one        *)
(* component, `part', while the variables of the others are parked at 0    *)
(* (those of PollItems rest in their initial state).                       *)
(***************************************************************************)
EXTENDS MCPollItems, TLC

CONSTANTS Parts
(* Codec *)
CONSTANTS Base, Wide, Batch, BufSize, VsmMax, Room, Copies
VARIABLES stream, enc, out, wire, dec, bufs, content, held
(* Poller *)
CONSTANTS Mechanisms, Sinks, FirstSinks, Descriptors, MaxOps
VARIABLES mech, sink, asks, entries, fdtab, kern, round, calling, stopping
(* SocketPoller *)
CONSTANTS Plains, Safes, Fds, Low, Wants, MaxSent, MaxItems, MaxEdits
VARIABLES backend, events, mail, stopped, signalers, signals, items, rebuildNext, pollfds,
          waiting, sent, edits
(* Timers *)
CONSTANTS Kinds, Intervals, MaxTimers, MaxTime, MaxHandled
VARIABLES owner, time, timers, cancelled, lastId, walk, dead
(* Socks *)
CONSTANTS PeerBytes, MaxAttempts
VARIABLES status, sock, poll, timer, greeting, request, choice, response, proxy, taken, attempt,
          outcome
(* Ypipe *)
CONSTANTS N, Addresses, MaxWritten
VARIABLES conflate, chunks, begin, back, end, spare, w, r, f, c, writer, reader, written,
          complete, got, buffer, lock
(* Mailbox *)
CONSTANTS Senders, Receivers
VARIABLES safe, cpipe, asleep, sync, active, signaler, toSend, sender, receiver, messages,
          terminated
(* Listener *)
CONSTANTS Listeners, Names, Peers, Welcome
VARIABLES state, files, dirs, backlog, peer
(* Inproc *)
CONSTANTS Binders, Connectors, Pairs, Addrs
VARIABLES endpoints, pending, conn, socks, cmds, binding, term
(* Options *)
CONSTANTS Settable, MaxCalls
VARIABLES opts, told, served, calls
(* Connecter *)
CONSTANTS MaxInt, MaxRetries
VARIABLES setting, con
(* Datagram *)
CONSTANTS Links, Hwm, NetMax, MaxMsgs, MaxCommands
VARIABLES link, tx, net, rx, last, joins
(* Address *)
CONSTANTS ByteBits
VARIABLES stage, name, system, mine, published, yours

VARIABLE part

-----------------------------------------------------------------------------
(* Values too long for a .cfg.  A connection of each version (0 is raw),   *)
(* with and without a limit on the size of messages.                       *)
Message(n, m) == [size |-> n, more |-> m]
Connection(v, limit, msgs) == [version |-> v, limit |-> limit, msgs |-> msgs]
Streams ==
  {Connection(2, -1, <<Message(1, TRUE), Message(2, FALSE), Message(0, FALSE), Message(5, FALSE)>>),
   Connection(1, -1, <<Message(2, TRUE), Message(5, TRUE), Message(0, FALSE)>>),
   Connection(2, 4, <<Message(0, FALSE), Message(4, FALSE), Message(5, FALSE)>>),
   Connection(1, 2, <<Message(2, FALSE), Message(3, FALSE)>>),
   Connection(0, -1, <<Message(3, FALSE), Message(2, FALSE), Message(3, FALSE)>>)}

(* A proxy agrees or not, with a short or a long address.                  *)
Reply(v, m, k, n) == [version |-> v, method |-> m, code |-> k, size |-> n]
Replies ==
  {Reply(5, 0, k, n) : k \in {0, 1}, n \in {7, 10, 22}}
    \cup {Reply(5, 255, 0, 10), Reply(4, 0, 0, 10)}

(* The commands of each sender: numbers of messages, 0 stops the socket.   *)
Commands == {<<1, 2, 1, 0>>, <<2, 0>>, <<1, 1, 1>>}

(* Numbers at the limits of some option, and texts and keys of the lengths *)
(* that count; 4 characters pass for an int.                               *)
Num(i) == [len |-> 4, int |-> i, key |-> "none", id |-> ToString(i)]
Txt(n, k, id) ==
  [len |-> n, int |-> IF n = 4 THEN 825373492 ELSE 0, key |-> k, id |-> id]
Values ==
  {[len |-> 0, int |-> 0, key |-> "none", id |-> "null"], Txt(4, "none", "four"),
   Txt(8, "none", "wide"), Txt(40, "good", "key"), Txt(40, "bad", "nokey"), Txt(256, "none", "long")}
    \cup {Num(i) : i \in {-150, -1, 0, 1, 950, 655399}}

(* Connecters, with an interval that is none, and maxima below it, at the   *)
(* largest int and between.                                                *)
Setting(t, d, i, o) == [transport |-> t, delayed |-> d, ivl |-> i[1], max |-> i[2], timeout |-> o]
Settings ==
  {Setting(t, d, i, o) :
     t \in {"tcp", "ipc", "tipc", "vmci"}, d \in BOOLEAN, o \in BOOLEAN,
     i \in {<<1, 0>>, <<2, 7>>, <<3, 2>>, <<0, 0>>, <<-1, 0>>, <<2, 15>>}}

(* Names with ports of 16 bits and more, paths at the limit of their       *)
(* length, types at the limit of the reserved ones.                        *)
Host(h, z, p) == [host |-> h, zone |-> z, port |-> p]
NoHost == [host |-> "none"]
TcpHosts ==
  {Host(h, "none", p) : p \in {0, 80, 65536, 65617},
     h \in {"*", "eth0", "tun0", "localhost", "nohost", "10.0.0.1", "fe80::1"}}
    \cup {Host("fe80::1", z, 80) : z \in {"eth0", "nodev", ""}}
NamesOf ==
  [tcp  |-> [src : {NoHost, Host("eth0", "none", 0), Host("nohost", "none", 0)}, dst : TcpHosts],
   udp  |-> [host : {"*", "10.0.0.1", "224.0.0.1", "255.255.255.255"}, port : {80, 65536, 65617}],
   ipc  |-> [len : {1, 2, 107, 108}, at : BOOLEAN] \cup {[len |-> 0, at |-> FALSE]},
   tipc |-> [type : {63, 64, 65}, lower : {1, 3}, upper : {-1, 2, 3}, domain : {-2, -1, 7}],
   vmci |-> [cid : {"@", "*", "-1", "2", ""}, port : {"*", "7", "x"}]]
Systems ==
  [platform : {"linux"}, nics : {"listed", "unsupported", "failed"}, here : {2, 2 ^ 30}]
    \cup [platform : {"solaris", "aix", "windows"}, nics : {"listed", "failed"}, here : {2}]
    \cup [platform : {"freebsd", "other"}, nics : {"listed"}, here : {2}]

(* Filters of each mask, and a client for each address of 2 or 3 bytes.    *)
BytesOf(n) == [1 .. n -> 0 .. 2 ^ ByteBits - 1]
Filters ==
  [family : {"inet"}, bytes : {<<1, 2>>, <<3, 0>>}, mask : -1 .. 5]
    \cup [family : {"inet6"}, bytes : {<<1, 2, 3>>, <<3, 3, 0>>}, mask : {-1, 0, 1, 3, 6, 7}]
Clients == [family : {"inet"}, bytes : BytesOf(2)] \cup [family : {"inet6"}, bytes : BytesOf(3)]

CodecPart == INSTANCE Codec
PollPart == INSTANCE Poller WITH Fds <- Descriptors
SocketPollPart == INSTANCE SocketPoller
TimerPart == INSTANCE Timers
SocksPart == INSTANCE Socks
YpipePart == INSTANCE Ypipe
MailPart == INSTANCE Mailbox
ListenPart == INSTANCE Listener
InprocPart == INSTANCE Inproc
OptPart == INSTANCE Options
ConnectPart == INSTANCE Connecter
DatagramPart == INSTANCE Datagram
AddressPart == INSTANCE Address WITH Names <- NamesOf

-----------------------------------------------------------------------------
CodecParked ==
  /\ stream = 0 /\ enc = 0 /\ out = 0 /\ wire = 0 /\ dec = 0 /\ bufs = 0
  /\ content = 0 /\ held = 0
PollParked ==
  /\ mech = 0 /\ sink = 0 /\ asks = 0 /\ entries = 0 /\ fdtab = 0 /\ kern = 0
  /\ round = 0 /\ calling = 0 /\ stopping = 0
SocketPollParked ==
  /\ backend = 0 /\ events = 0 /\ mail = 0 /\ stopped = 0
  /\ signalers = 0 /\ signals = 0 /\ items = 0 /\ rebuildNext = 0 /\ pollfds = 0
  /\ waiting = 0 /\ sent = 0 /\ edits = 0
TimerParked ==
  /\ owner = 0 /\ time = 0 /\ timers = 0 /\ cancelled = 0 /\ lastId = 0
  /\ walk = 0 /\ dead = 0
SocksParked ==
  /\ status = 0 /\ sock = 0 /\ poll = 0 /\ timer = 0 /\ greeting = 0
  /\ request = 0 /\ choice = 0 /\ response = 0 /\ proxy = 0 /\ taken = 0 /\ attempt = 0
  /\ outcome = 0
YpipeParked ==
  /\ conflate = 0 /\ chunks = 0 /\ begin = 0 /\ back = 0 /\ end = 0
  /\ spare = 0 /\ w = 0 /\ r = 0 /\ f = 0 /\ c = 0 /\ writer = 0 /\ reader = 0
  /\ written = 0 /\ complete = 0 /\ got = 0 /\ buffer = 0 /\ lock = 0
MailParked ==
  /\ safe = 0 /\ cpipe = 0 /\ asleep = 0 /\ sync = 0 /\ active = 0
  /\ signaler = 0 /\ toSend = 0 /\ sender = 0 /\ receiver = 0 /\ messages = 0 /\ terminated = 0
ListenParked ==
  /\ state = 0 /\ files = 0 /\ dirs = 0 /\ backlog = 0 /\ peer = 0
InprocParked ==
  /\ endpoints = 0 /\ pending = 0 /\ conn = 0 /\ socks = 0 /\ cmds = 0
  /\ binding = 0 /\ term = 0
OptParked ==
  /\ opts = 0 /\ told = 0 /\ served = 0 /\ calls = 0
ConnectParked == setting = 0 /\ con = 0
DatagramParked == link = 0 /\ tx = 0 /\ net = 0 /\ rx = 0 /\ last = 0 /\ joins = 0
AddressParked ==
  /\ stage = 0 /\ name = 0 /\ system = 0 /\ mine = 0 /\ published = 0 /\ yours = 0
codecvars == <<stream, enc, out, wire, dec, bufs, content, held>>
pollvars == <<mech, sink, asks, entries, fdtab, kern, round, calling, stopping>>
socketpollvars == <<backend, events, mail, stopped, signalers, signals, items, rebuildNext,
     pollfds, waiting, sent, edits>>
timervars == <<owner, time, timers, cancelled, lastId, walk, dead>>
socksvars == <<status, sock, poll, timer, greeting, request, choice, response, proxy, taken,
     attempt, outcome>>
ypipevars == <<conflate, chunks, begin, back, end, spare, w, r, f, c, writer, reader, written,
     complete, got, buffer, lock>>
mailvars == <<safe, cpipe, asleep, sync, active, signaler, toSend, sender, receiver, messages,
     terminated>>
listenvars == <<state, files, dirs, backlog, peer>>
inprocvars == <<endpoints, pending, conn, socks, cmds, binding, term>>
optvars == <<opts, told, served, calls>>
connectvars == <<setting, con>>
datagramvars == <<link, tx, net, rx, last, joins>>
addressvars == <<stage, name, system, mine, published, yours>>

Init ==
  /\ part \in Parts
  /\ IF part = "codec" THEN CodecPart!CodecInit ELSE CodecParked
  /\ IF part = "poller" THEN PollPart!PollerInit ELSE PollParked
  /\ IF part = "socket_poller" THEN SocketPollPart!PollerInit ELSE SocketPollParked
  /\ IF part = "timers" THEN TimerPart!TimerInit ELSE TimerParked
  /\ IF part = "socks" THEN SocksPart!SocksInit ELSE SocksParked
  /\ IF part = "ypipe" THEN YpipePart!YInit ELSE YpipeParked
  /\ IF part = "mailbox" THEN MailPart!MailInit ELSE MailParked
  /\ IF part = "listener" THEN ListenPart!ListenerInit ELSE ListenParked
  /\ IF part = "inproc" THEN InprocPart!InprocInit ELSE InprocParked
  /\ IF part = "options" THEN OptPart!OptInit ELSE OptParked
  /\ IF part = "connecter" THEN ConnectPart!ConnecterInit ELSE ConnectParked
  /\ IF part = "datagram" THEN DatagramPart!DatagramInit ELSE DatagramParked
  /\ IF part = "address" THEN AddressPart!AddressInit ELSE AddressParked
  /\ PollInit

OthersRest ==
  /\ UNCHANGED part
  /\ IF part = "codec" THEN TRUE ELSE UNCHANGED codecvars
  /\ IF part = "poller" THEN TRUE ELSE UNCHANGED pollvars
  /\ IF part = "socket_poller" THEN TRUE ELSE UNCHANGED socketpollvars
  /\ IF part = "timers" THEN TRUE ELSE UNCHANGED timervars
  /\ IF part = "socks" THEN TRUE ELSE UNCHANGED socksvars
  /\ IF part = "ypipe" THEN TRUE ELSE UNCHANGED ypipevars
  /\ IF part = "mailbox" THEN TRUE ELSE UNCHANGED mailvars
  /\ IF part = "listener" THEN TRUE ELSE UNCHANGED listenvars
  /\ IF part = "inproc" THEN TRUE ELSE UNCHANGED inprocvars
  /\ IF part = "options" THEN TRUE ELSE UNCHANGED optvars
  /\ IF part = "connecter" THEN TRUE ELSE UNCHANGED connectvars
  /\ IF part = "datagram" THEN TRUE ELSE UNCHANGED datagramvars
  /\ IF part = "address" THEN TRUE ELSE UNCHANGED addressvars
  /\ IF part = "zmq_poll" THEN TRUE ELSE UNCHANGED itemvars

Next ==
  \/ part = "codec" /\ CodecPart!CodecNext /\ OthersRest
  \/ part = "poller" /\ PollPart!PollerNext /\ OthersRest
  \/ part = "socket_poller" /\ SocketPollPart!PollerNext /\ OthersRest
  \/ part = "timers" /\ TimerPart!TimerNext /\ OthersRest
  \/ part = "socks" /\ SocksPart!SocksNext /\ OthersRest
  \/ part = "ypipe" /\ YpipePart!YNext /\ OthersRest
  \/ part = "mailbox" /\ MailPart!MailNext /\ OthersRest
  \/ part = "listener" /\ ListenPart!ListenerNext /\ OthersRest
  \/ part = "inproc" /\ InprocPart!InprocNext /\ OthersRest
  \/ part = "options" /\ OptPart!OptNext /\ OthersRest
  \/ part = "connecter" /\ ConnectPart!ConnecterNext /\ OthersRest
  \/ part = "datagram" /\ DatagramPart!DatagramNext /\ OthersRest
  \/ part = "address" /\ AddressPart!AddressNext /\ OthersRest
  \/ part = "zmq_poll" /\ PollNext /\ OthersRest
vars ==
  <<part, codecvars, pollvars, socketpollvars, timervars, socksvars, ypipevars, mailvars,
     listenvars, inprocvars, optvars, connectvars, datagramvars, addressvars, itemvars>>
Spec == Init /\ [][Next]_vars

-----------------------------------------------------------------------------
(* Properties: those of the component's module, where they are stated.     *)

(* What was sent is received, and no buffer is freed while a message has   *)
(* its content in it (encoder_base_t, decoder_base_t and its allocator).   *)
CodecCorrect ==
  part = "codec" => CodecPart!ReceivedIntact /\ CodecPart!BuffersCounted /\ CodecPart!NothingStuck

(* Every poller calls an object only for what it asks for, misses none,    *)
(* and has the kernel look for just that (epoll_t, select_t and others).   *)
PollerCorrect ==
  part = "poller" => PollPart!NoStaleCall /\ PollPart!NobodyMissed /\ PollPart!PollsWhatIsAsked

(* zmq_poller_wait() ends when one of its items has an event, and reports  *)
(* only what was asked for (socket_poller_t).                              *)
SocketPollerCorrect ==
  part = "socket_poller" => /\ SocketPollPart!WaitIsWoken
                            /\ SocketPollPart!ReportsAsked
                            /\ SocketPollPart!SignalersKnown

(* No timer is handled early, after it was cancelled, or never (timers_t,  *)
(* poller_base_t).                                                         *)
TimersCorrect ==
  part = "timers" => TimerPart!CalledInTime /\ TimerPart!NoneOverdue /\ TimerPart!TimeoutRight

(* A connection through a proxy is handed over with no byte of the proxy   *)
(* left in it, and nothing of one attempt is taken for another's           *)
(* (socks_connecter_t).                                                    *)
SocksCorrect == part = "socks" => SocksPart!HandsOverClean /\ SocksPart!NothingStale

(* The lock-free queue gives each value once, in order, and its reader is  *)
(* asleep only when there is none (ypipe_t, yqueue_t, dbuffer_t).          *)
YpipeCorrect ==
  part = "ypipe" => YpipePart!ReadInOrder /\ YpipePart!MemoryInUse /\ YpipePart!AsleepMeansEmpty

(* Nobody sleeps on a mailbox that has a command (mailbox_t,               *)
(* mailbox_safe_t, condition_variable_t).                                  *)
MailboxCorrect == part = "mailbox" => MailPart!NobodySleepsOn /\ MailPart!SignalMeansCommand

(* A bound listener is reached at its address, its filters hold, and it    *)
(* leaves nothing behind (ipc_listener_t, tcp_listener_t).                 *)
ListenerCorrect ==
  part = "listener" => /\ ListenPart!ReachedWhileBound /\ ListenPart!OneListener
                       /\ ListenPart!NothingLeft /\ ListenPart!FiltersHold

(* An inproc connection finds its binder whichever of them comes first,    *)
(* and no socket is freed that is owed a command (ctx_t).                  *)
InprocCorrect ==
  part = "inproc" => /\ InprocPart!NoneWaitsInVain /\ InprocPart!IdentityFirst
                     /\ InprocPart!NoneIsFreedEarly /\ InprocPart!TermServesAll

(* An option reads back as it was set, and only a socket that was asked to *)
(* plays a server (options_t).                                             *)
OptionsCorrect == part = "options" => OptPart!ReadsBack /\ OptPart!ServerWasAsked

(* A connecter always has one thing to wait for, its intervals grow as     *)
(* they are set, and nothing of it is left when it ends (tcp_connecter_t,  *)
(* ipc_connecter_t, tipc_connecter_t, vmci_connecter_t).                   *)
ConnecterCorrect ==
  part = "connecter" => /\ ConnectPart!OneWayOn /\ ConnectPart!NothingOfItLeft
                        /\ ConnectPart!BacksOff /\ ConnectPart!NoAssertionFails

(* Groups and addresses stay with their messages, and no end of a          *)
(* connection stops for good (udp_engine_t, dgram_t, radio_session_t,      *)
(* dish_session_t).                                                        *)
DatagramCorrect ==
  part = "datagram" => /\ DatagramPart!GroupsFit /\ DatagramPart!NoneForgotten
                       /\ DatagramPart!SendsInTurn /\ DatagramPart!OnlyDishAborts

(* The address a socket publishes leads to it, and a filter lets in whom   *)
(* it names (tcp_address_t, udp_address_t, ipc_address_t, tipc_address_t,  *)
(* vmci_address_t).                                                        *)
AddressCorrect ==
  part = "address" => /\ AddressPart!LeadsBack /\ AddressPart!AsAsked
                      /\ AddressPart!Meet /\ AddressPart!FiltersByPrefix

-----------------------------------------------------------------------------
(* Events reach those who wait for them, and only what they wait for: of   *)
(* descriptors, of sockets and of time.                                    *)
EventsCorrect == PollerCorrect /\ SocketPollerCorrect /\ TimersCorrect

(* What one thread writes the other reads, and is woken for; what one      *)
(* socket sends in groups and datagrams the other receives.                *)
QueuesCorrect == YpipeCorrect /\ MailboxCorrect /\ DatagramCorrect

(* A connection is made with the peer that was meant, and leaves nothing   *)
(* behind, over TCP or IPC, through a proxy, or within the process.        *)
ConnectionsCorrect ==
  ListenerCorrect /\ InprocCorrect /\ SocksCorrect /\ ConnecterCorrect /\ AddressCorrect
=============================================================================
