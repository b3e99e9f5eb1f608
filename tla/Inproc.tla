------------------------------- MODULE Inproc -------------------------------
(***************************************************************************)
(* Inproc connections: the addresses of a context, connections that wait   *)
(* for their address to be bound, and the end of the context, which binds  *)
(* what still waits (ctx.cpp, socket_base.cpp).  A socket is not freed     *)
(* while a command is owed to it: it counts those announced and those      *)
(* processed (own_t::inc_seqnum, process_seqnum).  What becomes of a       *)
(* connection's pipes is the subject of Pipe; here they carry identities.  *)
(***************************************************************************)
EXTENDS Integers, Sequences, FiniteSets

CONSTANTS
  Binders, Connectors,  \* sockets; each connector connects once
  Pairs,                \* sockets that the end of the context makes
  Addrs

VARIABLES
  endpoints,   \* from addresses to sockets, "none" if there is none
  pending,     \* connectors whose connection waits
  conn,        \* each connector's connection
  socks,       \* each socket: its life and its numbers of commands
  cmds,        \* the commands on their way
  binding,     \* the address that a socket has registered and not yet served
  term         \* zmq_ctx_term(): its stage and what it found waiting
inprocvars == <<endpoints, pending, conn, socks, cmds, binding, term>>

All == Binders \cup Connectors \cup Pairs
WantsIdentity(s) == socks[s].recvIdentity
NoConn == [at |-> "none", addr |-> "none", peer |-> "none", toPeer |-> <<>>, toSelf |-> <<>>,
           cut |-> FALSE, late |-> FALSE, byConnector |-> FALSE]
Post(m, s, cmd) == [m EXCEPT ![s] = Append(@, cmd)]
Announce(sk, s) == [sk EXCEPT ![s].announced = @ + 1]
SeqSet(q) == {q[i] : i \in DOMAIN q}
Usable(s) == socks[s].life = "open" /\ ~socks[s].stopped
Put(k, field, e) == [conn EXCEPT ![k][field] = Append(@, e)]

-----------------------------------------------------------------------------
(* connect(): the address is looked up; the pipes are made; then the other *)
(* end is sent to the peer, or the connection waits.                       *)

FindEndpoint(k, a) ==
  /\ Usable(k) /\ conn[k].at = "none"
  /\ conn' = [conn EXCEPT ![k].at = "found", ![k].addr = a, ![k].peer = endpoints[a]]
  /\ socks' = IF endpoints[a] = "none" THEN socks ELSE Announce(socks, endpoints[a])
  /\ UNCHANGED <<endpoints, pending, cmds, binding, term>>

Ident(wanted) == IF wanted THEN <<"id">> ELSE <<>>
ConnectDirectly(k) ==
  /\ conn[k].at = "found" /\ conn[k].peer # "none"
  /\ conn' = [conn EXCEPT ![k].at = "attached", ![k].toPeer = Ident(WantsIdentity(conn[k].peer)),
                          ![k].toSelf = Ident(WantsIdentity(k))]
  /\ cmds' = Post(cmds, conn[k].peer, k)
  /\ UNCHANGED <<endpoints, pending, socks, binding, term>>

(* connect_inproc_sockets(), on the side of the connector: the identity    *)
(* that was written in any case is dropped if the peer does not want it,   *)
(* and the peer is sent its end before it has the identity for the other.  *)
PendBlindly(k) ==
  /\ pending' = pending \cup {k}
  /\ socks' = Announce(socks, k)
  /\ conn' = [conn EXCEPT ![k].at = "attached", ![k].toPeer = <<"id">>,
                          ![k].late = (term.stage # "none")]
  /\ UNCHANGED cmds
ConnectSide(k, b) ==
  /\ socks' = Announce(socks, b)
  /\ conn' = [conn EXCEPT ![k].at = "identify", ![k].peer = b, ![k].toPeer = Ident(WantsIdentity(b)),
                          ![k].byConnector = TRUE]
  /\ cmds' = Post(cmds, b, k)
  /\ UNCHANGED pending
PendOrConnect(k) ==
  IF endpoints[conn[k].addr] = "none" THEN PendBlindly(k)
  ELSE ConnectSide(k, endpoints[conn[k].addr])
PendConnection(k) ==
  /\ conn[k].at = "found" /\ conn[k].peer = "none"
  /\ PendOrConnect(k)
  /\ UNCHANGED <<endpoints, binding, term>>
SendIdentity(k) ==
  /\ conn[k].at = "identify"
  /\ conn' = [conn EXCEPT ![k].at = "attached", ![k].toSelf = @ \o Ident(WantsIdentity(k))]
  /\ UNCHANGED <<endpoints, pending, socks, cmds, binding, term>>

(* term_endpoint() of the connector: its end of the pipe is terminated,    *)
(* but the connection waits on.                                            *)
Disconnect(k) ==
  /\ Usable(k) /\ conn[k].at = "attached" /\ ~conn[k].cut
  /\ conn' = [conn EXCEPT ![k].cut = TRUE]
  /\ UNCHANGED <<endpoints, pending, socks, cmds, binding, term>>

-----------------------------------------------------------------------------
(* bind(): the address is registered, then what waits for it is connected. *)
(* The other order would leave a connection waiting that comes between.    *)
Registers(b, a) ==
  /\ endpoints[a] = "none"
  /\ endpoints' = [endpoints EXCEPT ![a] = b]
  /\ binding' = [binding EXCEPT ![b] = a]
RegisterEndpoint(b, a) ==
  /\ Usable(b) /\ binding[b] = "none"
  /\ Registers(b, a)
  /\ UNCHANGED <<pending, conn, socks, cmds, term>>

(* connect_inproc_sockets(), on the side of the binder.  The identity is   *)
(* written to a socket that is still open; a pipe that was cut takes no    *)
(* more and an assertion fails.                                            *)
Waiting(a) == {k \in pending : conn[k].addr = a}
Served(k, b) ==
  LET c == conn[k]
      open == socks[k].life = "open"
      id == WantsIdentity(k) /\ open
  IN [c EXCEPT !.peer = b,
               !.at = IF id /\ c.cut THEN "assert" ELSE @,
               !.toPeer = IF WantsIdentity(b) THEN @ ELSE Tail(@),
               !.toSelf = @ \o Ident(id)]
ServePending(b, a) ==
  /\ conn' = [k \in Connectors |-> IF k \in Waiting(a) THEN Served(k, b) ELSE conn[k]]
  /\ cmds' = [s \in All |-> IF s \in Waiting(a) THEN Append(cmds[s], "inproc_connected") ELSE cmds[s]]
  /\ pending' = pending \ Waiting(a)
ConnectPending(b) ==
  /\ binding[b] # "none"
  /\ ServePending(b, binding[b])
  /\ binding' = [binding EXCEPT ![b] = "none"]
  /\ UNCHANGED <<endpoints, socks, term>>

Unbind(b, a) ==
  /\ Usable(b) /\ binding[b] = "none" /\ endpoints[a] = b
  /\ endpoints' = [endpoints EXCEPT ![a] = "none"]
  /\ UNCHANGED <<pending, conn, socks, cmds, binding, term>>

(* A socket that has its end of a pipe sends on it.                        *)
BinderSends(b, k) ==
  /\ Usable(b) /\ k \in socks[b].has /\ "msg" \notin SeqSet(conn[k].toSelf)
  /\ conn' = Put(k, "toSelf", "msg")
  /\ UNCHANGED <<endpoints, pending, socks, cmds, binding, term>>
ConnectorSends(k) ==
  /\ Usable(k) /\ conn[k].at = "attached" /\ ~conn[k].cut /\ "msg" \notin SeqSet(conn[k].toPeer)
  /\ conn' = Put(k, "toPeer", "msg")
  /\ UNCHANGED <<endpoints, pending, socks, cmds, binding, term>>

-----------------------------------------------------------------------------
(* Commands: "stop", the end of a pipe (a connector's name), and word that *)
(* a connection no longer waits.                                           *)
ProcessCommand(s) ==
  /\ cmds[s] # <<>> /\ binding[s] = "none"
  /\ LET cmd == Head(cmds[s])
     IN socks' = CASE cmd = "stop" -> [socks EXCEPT ![s].stopped = TRUE]
                   [] cmd = "inproc_connected" -> [socks EXCEPT ![s].processed = @ + 1]
                   [] OTHER -> [socks EXCEPT ![s].processed = @ + 1, ![s].has = @ \cup {cmd}]
  /\ cmds' = [cmds EXCEPT ![s] = Tail(@)]
  /\ UNCHANGED <<endpoints, pending, conn, binding, term>>

(* close() and, in the reaper, process_term(); check_term_acks() frees the *)
(* socket when all commands announced have been processed.                 *)
InCall(s) == binding[s] # "none" \/ (s \in Connectors /\ conn[s].at \in {"found", "identify"})
Close(s) ==
  /\ socks[s].life = "open" /\ ~InCall(s)
  /\ socks' = [socks EXCEPT ![s].life = "closed"]
  /\ UNCHANGED <<endpoints, pending, conn, cmds, binding, term>>
Unregistered(s) == [a \in Addrs |-> IF endpoints[a] = s THEN "none" ELSE endpoints[a]]
ProcessTerm(s) ==
  /\ socks[s].life = "closed"
  /\ socks' = [socks EXCEPT ![s].life = "terminating"]
  /\ endpoints' = Unregistered(s)
  /\ UNCHANGED <<pending, conn, cmds, binding, term>>
AllProcessed(s) == socks[s].announced = socks[s].processed
CheckTermAcks(s) ==
  /\ socks[s].life = "terminating" /\ AllProcessed(s)
  /\ socks' = [socks EXCEPT ![s].life = "freed"]
  /\ UNCHANGED <<endpoints, pending, conn, cmds, binding, term>>

-----------------------------------------------------------------------------
(* ctx_t::terminate(): a socket is made, bound and closed for each address *)
(* that is waited for; then all sockets are told to stop.                  *)
Living == {s \in All : socks[s].life \notin {"none", "freed"}}
TermBegins ==
  /\ term.stage = "none"
  /\ term' = [stage |-> "connect", todo |-> {conn[k].addr : k \in pending}]
  /\ UNCHANGED <<endpoints, pending, conn, socks, cmds, binding>>
TermConnects(s, a) ==
  /\ term.stage = "connect" /\ a \in term.todo /\ socks[s].life = "none"
  /\ IF endpoints[a] = "none"
       THEN ServePending(s, a) /\ endpoints' = [endpoints EXCEPT ![a] = s]
       ELSE UNCHANGED <<conn, cmds, pending, endpoints>>
  /\ socks' = [socks EXCEPT ![s].life = "closed"]
  /\ term' = [term EXCEPT !.todo = @ \ {a}]
  /\ UNCHANGED binding
TermStops ==
  /\ term.stage = "connect" /\ term.todo = {}
  /\ term' = [term EXCEPT !.stage = "wait"]
  /\ cmds' = [s \in All |-> IF s \in Living THEN Append(cmds[s], "stop") ELSE cmds[s]]
  /\ UNCHANGED <<endpoints, pending, conn, socks, binding>>

InprocInit ==
  /\ endpoints = [a \in Addrs |-> "none"]
  /\ pending = {}
  /\ conn = [k \in Connectors |-> NoConn]
  /\ \E ids \in [Binders \cup Connectors -> BOOLEAN] :
       socks = [s \in All |->
         [life |-> IF s \in Pairs THEN "none" ELSE "open", stopped |-> FALSE, announced |-> 0,
          processed |-> 0, has |-> {}, recvIdentity |-> IF s \in Pairs THEN FALSE ELSE ids[s]]]
  /\ cmds = [s \in All |-> <<>>]
  /\ binding = [s \in All |-> "none"]
  /\ term = [stage |-> "none", todo |-> {}]
InprocNext ==
  \/ \E k \in Connectors :
       \/ \E a \in Addrs : FindEndpoint(k, a)
       \/ ConnectDirectly(k) \/ PendConnection(k) \/ SendIdentity(k) \/ Disconnect(k)
       \/ ConnectorSends(k)
  \/ \E b \in Binders :
       \/ \E a \in Addrs : RegisterEndpoint(b, a) \/ Unbind(b, a)
       \/ ConnectPending(b)
       \/ \E k \in Connectors : BinderSends(b, k)
  \/ \E s \in All : ProcessCommand(s) \/ Close(s) \/ ProcessTerm(s) \/ CheckTermAcks(s)
  \/ TermBegins \/ TermStops
  \/ \E s \in Pairs, a \in Addrs : TermConnects(s, a)
InprocSpec == InprocInit /\ [][InprocNext]_inprocvars

-----------------------------------------------------------------------------
(* Properties.                                                             *)

(* No connection waits for an address that is bound, but for the moment    *)
(* between the two steps of bind(), however bind(), unbind and connect()   *)
(* of several threads meet (pend_connection, connect_pending).             *)
BeingServed(k) == \E b \in Binders : binding[b] = conn[k].addr
NoneWaitsInVain ==
  \A k \in pending : endpoints[conn[k].addr] # "none" => BeingServed(k)

(* A socket gets the other's identity before anything else, and only if it *)
(* wants it; but a connector that finds the address bound when it is about *)
(* to wait may have a message before it (connect_inproc_sockets).          *)
IdsIn(q) == {i \in DOMAIN q : q[i] = "id"}
Fits(q, wanted) == IdsIn(q) = IF wanted THEN {1} ELSE {}
IdentityFirst ==
  \A k \in Connectors :
    conn[k].at = "attached" /\ k \notin pending /\ conn[k].peer # "none" =>
      /\ Fits(conn[k].toPeer, WantsIdentity(conn[k].peer))
      /\ ~conn[k].byConnector /\ conn[k].toSelf # <<>> => Fits(conn[k].toSelf, WantsIdentity(k))
      /\ Cardinality(IdsIn(conn[k].toSelf)) <= IF WantsIdentity(k) THEN 1 ELSE 0

(* No command finds its socket freed: whoever is about to send one has     *)
(* announced it (find_endpoint, connect_inproc_sockets).                   *)
Owed(s) ==
  Cardinality({i \in DOMAIN cmds[s] : cmds[s][i] # "stop"})
    + Cardinality({k \in Connectors : conn[k].at = "found" /\ conn[k].peer = s})
    + Cardinality({k \in pending : k = s})
NoneIsFreedEarly ==
  \A s \in All : /\ socks[s].announced = socks[s].processed + Owed(s)
                 /\ socks[s].life = "freed" => Owed(s) = 0

(* The end of the context waits for no connection that still waits, unless *)
(* that began to wait after the context had looked for them; and an        *)
(* assertion fails only for a connection that was cut while it waited      *)
(* (ctx_t::terminate).                                                     *)
TermServesAll ==
  /\ term.stage = "wait" => \A k \in pending : conn[k].late \/ BeingServed(k)
  /\ \A k \in Connectors : conn[k].at = "assert" => conn[k].cut /\ WantsIdentity(k)
=============================================================================
