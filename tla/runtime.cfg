SPECIFICATION Spec
CHECK_DEADLOCK FALSE
CONSTANTS
  Parts = {"codec", "poller", "socket_poller", "timers", "socks", "ypipe", "mailbox", "listener", "inproc", "options",
           "connecter", "datagram", "address", "zmq_poll"}
  Base = 4
  Wide = 2
  Batch = 6
  BufSize = 6
  VsmMax = 1
  Room = 2
  Copies = 1
  Mechanisms = {"epoll", "kqueue", "poll", "select", "devpoll", "pollset"}
  Sinks = {"a", "b", "c"}
  FirstSinks = {"a", "b"}
  Descriptors = {1, 2}
  MaxOps = 2
  Plains = {"plain"}
  Safes = {"safe"}
  Fds = {"fd"}
  Low = {"plain"}
  Wants = {{}, {"in"}}
  MaxSent = 2
  MaxItems = 3
  MaxEdits = 2
  Kinds = {"timers", "poller"}
  Intervals = {1, 2}
  MaxTimers = 3
  MaxTime = 2
  MaxHandled = 1
  PeerBytes = 4
  MaxAttempts = 2
  N = 2
  Addresses = {"c1", "c2", "c3", "c4"}
  MaxWritten = 5
  Senders = {"p1", "p2"}
  Receivers = {"r1", "r2"}
  Listeners = {"l1", "l2"}
  Names = {"a", "*"}
  Peers = {"p1", "p2"}
  Welcome = {"p1"}
  Binders = {"b1"}
  Connectors = {"k1"}
  Pairs = {"q1"}
  Addrs = {"a"}
  Settable = {"SNDHWM", "LINGER", "IDENTITY", "MAXMSGSIZE", "IPV6", "IPV4ONLY", "IPC_FILTER_UID", "HEARTBEAT_TTL", "PLAIN_SERVER", "PLAIN_USERNAME", "CURVE_SERVER", "CURVE_SECRETKEY", "CURVE_SERVERKEY"}
  MaxCalls = 3
  MaxInt = 15
  MaxRetries = 4
  Links = {"radio udp", "radio tcp", "dgram udp"}
  Hwm = 2
  NetMax = 2
  MaxMsgs = 4
  MaxCommands = 2
  ByteBits = 2
  pa = pa
  pb = pb
  PollSocks = {pa, pb}
  Writers = {pb}
  PollLists <- PollerPolls
  Closable = {pb}
  MaxIn = 1
  MaxLeaks = 1
INVARIANTS
  CodecCorrect
  EventsCorrect
  QueuesCorrect
  ConnectionsCorrect
  OptionsCorrect
  PollTells
  NoLeak
  NoLostWakeup
  WaitIsWatched
