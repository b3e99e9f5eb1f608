------------------------------ MODULE Listener ------------------------------
(***************************************************************************)
(* Listeners: a bound address of a socket on tcp, ipc, tipc and vmci, from *)
(* zmq.bind() in the application's thread (set_address) over the accepted  *)
(* connections in an I/O thread (in_event, accept) to the end              *)
(* (process_term, close) (tcp_listener.cpp, ipc_listener.cpp,              *)
(* tipc_listener.cpp, vmci_listener.cpp). ipc keeps a file, and a          *)
(* directory for an address "*". The kernel is modelled by the files, by   *)
(* who listens at an address and by the connections that wait to be        *)
(* accepted.                                                               *)
(***************************************************************************)
EXTENDS Integers, Sequences, FiniteSets

CONSTANTS
  Listeners,    \* in the order they are made
  Names,        \* addresses, one of which may be "*"
  Peers,        \* clients, each of which connects once
  Welcome       \* clients that the accept filters let in

VARIABLES
  state,    \* listener: its transport, name, place in its life and whether the
            \* user made its descriptor
  files,    \* who made the file of each path, "nobody" if there is none
  dirs,     \* directories made for "*", by their listener
  backlog,  \* connections that wait
  peer      \* what became of each client's connection: the transport of its
            \* session, if it got one
listenervars == <<state, files, dirs, backlog, peer>>

Transports == {"tcp", "ipc", "tipc", "vmci"}
Unmade == [transport |-> "tcp", name |-> "none", path |-> "none", at |-> "unmade", useFd |-> FALSE,
           hasFile |-> FALSE]
(* Paths are the names and those of the files in directories made for "*". *)
Paths == (Names \ {"*"}) \cup Listeners \cup {"none"}
PathOf(l, name) == IF name = "*" THEN l ELSE name
Open(l) == state[l].at \in {"binding", "bound", "listening", "aborted"}
At(l) == state[l].at
Running == \A l \in Listeners : At(l) # "aborted"

-----------------------------------------------------------------------------
(* set_address(), as far as the descriptor: the file that is there is      *)
(* removed, whoever made it.                                               *)
Created(l, transport, name, useFd) ==
  [Unmade EXCEPT !.transport = transport, !.name = name, !.path = PathOf(l, name),
                 !.at = "binding", !.useFd = useFd]
Unlinked(path) == [files EXCEPT ![path] = "nobody"]
CreateWildcard(l, name) == IF name = "*" THEN dirs \cup {l} ELSE dirs

(* Without a descriptor, or an address that can be resolved, the directory *)
(* is removed again.                                                       *)
OpenFails(l, transport, name) ==
  /\ state' = [state EXCEPT ![l] = [Created(l, transport, name, FALSE) EXCEPT !.at = "failed"]]
  /\ files' = IF transport = "ipc" THEN Unlinked(PathOf(l, name)) ELSE files
  /\ UNCHANGED dirs
OpenSocket(l, transport, name) ==
  /\ state' = [state EXCEPT ![l] = Created(l, transport, name, FALSE)]
  /\ files' = IF transport = "ipc" THEN Unlinked(PathOf(l, name)) ELSE files
  /\ dirs' = IF transport = "ipc" THEN CreateWildcard(l, name) ELSE dirs
(* A descriptor that the user has made (ZMQ_USE_FD).                       *)
UseFd(l, transport, name) ==
  /\ transport \in {"tcp", "ipc"} /\ name # "*"
  /\ transport = "ipc" => files[name] = "nobody"
  /\ state' = [state EXCEPT ![l] = [Created(l, transport, name, TRUE) EXCEPT
                                     !.at = "bound", !.hasFile = (transport = "ipc")]]
  /\ files' = IF transport = "ipc" THEN [files EXCEPT ![name] = l] ELSE files
  /\ UNCHANGED dirs
SetAddress(l, transport, name) ==
  /\ At(l) = "unmade" /\ (transport # "ipc" => name # "*")
  /\ \/ OpenFails(l, transport, name) \/ OpenSocket(l, transport, name)
     \/ UseFd(l, transport, name)
  /\ UNCHANGED <<backlog, peer>>

-----------------------------------------------------------------------------
(* close(): with a file of its own it is removed, and if there was one the *)
(* directory too.                                                          *)
Close(l, at) ==
  LET mine == state[l].hasFile /\ ~state[l].useFd
      there == files[state[l].path] # "nobody"
  IN /\ state' = [state EXCEPT ![l].at = at]
     /\ files' = IF mine THEN Unlinked(state[l].path) ELSE files
     /\ dirs' = IF mine /\ there THEN dirs \ {l} ELSE dirs
Reset(l) ==
  /\ backlog' = [backlog EXCEPT ![l] = {}]
  /\ peer' = [p \in Peers |-> IF p \in backlog[l] THEN "reset" ELSE peer[p]]

(* bind() and listen().  An address must be free, on ipc a path, which it  *)
(* is unless another listener has just made it.                            *)
Taken(l) ==
  IF state[l].transport = "ipc" THEN files[state[l].path] # "nobody"
  ELSE \E k \in Listeners \ {l} :
         At(k) \in {"bound", "listening"} /\ state[k].transport = state[l].transport
         /\ state[k].name = state[l].name
BindSucceeds(l) ==
  files' = IF state[l].transport = "ipc" THEN [files EXCEPT ![state[l].path] = l] ELSE files
BindListen(l) ==
  /\ At(l) = "binding"
  /\ \/ /\ ~Taken(l) /\ BindSucceeds(l)
        /\ state' = [state EXCEPT ![l].at = "bound", ![l].hasFile = (state[l].transport = "ipc")]
        /\ UNCHANGED dirs
     \/ Close(l, "failed")
  /\ UNCHANGED <<backlog, peer>>
(* listen() fails after the file was made.                                 *)
ListenFails(l) ==
  /\ At(l) = "binding" /\ ~Taken(l) /\ BindSucceeds(l)
  /\ state' = [state EXCEPT ![l].at = "failed"]
  /\ UNCHANGED <<dirs, backlog, peer>>

-----------------------------------------------------------------------------
(* The I/O thread: the descriptor is polled, and connections are accepted  *)
(* one at a time.                                                          *)
ProcessPlug(l) ==
  /\ At(l) = "bound"
  /\ state' = [state EXCEPT ![l].at = "listening"]
  /\ UNCHANGED <<files, dirs, backlog, peer>>

Reached(l, transport, path) ==
  /\ At(l) \in {"bound", "listening"} /\ state[l].transport = transport /\ state[l].path = path
  /\ transport = "ipc" => files[path] = l
PeerConnects(p, transport, path) ==
  /\ peer[p] = "none"
  /\ IF \E l \in Listeners : Reached(l, transport, path)
       THEN LET l == CHOOSE x \in Listeners : Reached(x, transport, path)
            IN peer' = [peer EXCEPT ![p] = "waits"] /\ backlog' = [backlog EXCEPT ![l] = @ \cup {p}]
       ELSE peer' = [peer EXCEPT ![p] = "refused"] /\ UNCHANGED backlog
  /\ UNCHANGED <<state, files, dirs>>

(* accept(): what an error may be without ending the program.  ipc counts  *)
(* neither EMFILE nor ENOBUFS and ENOMEM among them.                       *)
TcpTolerates == {"EAGAIN", "EINTR", "ECONNABORTED", "EPROTO", "ENOBUFS", "ENOMEM", "EMFILE", "ENFILE"}
IpcTolerates == {"EAGAIN", "EINTR", "ECONNABORTED", "EPROTO", "ENFILE"}
TipcTolerates == {"EAGAIN", "EINTR", "ECONNABORTED", "EPROTO", "ENOBUFS", "EMFILE", "ENFILE"}
VmciTolerates == {"EAGAIN", "EINTR", "ECONNABORTED", "EPROTO", "ENOBUFS", "ENOMEM", "EMFILE", "ENFILE"}
Tolerates(transport) ==
  CASE transport = "tcp" -> TcpTolerates [] transport = "ipc" -> IpcTolerates
    [] transport = "tipc" -> TipcTolerates [] transport = "vmci" -> VmciTolerates

(* Accept filters are of addresses for tcp, and of users, groups and       *)
(* processes for ipc; tipc and vmci have none.                             *)
TcpFilter(p) == p \in Welcome
IpcFilter(p) == p \in Welcome
LetsIn(transport, p) ==
  CASE transport = "tcp" -> TcpFilter(p) [] transport = "ipc" -> IpcFilter(p) [] OTHER -> TRUE

TakesFrom(l, p) == backlog' = [backlog EXCEPT ![l] = @ \ {p}]
AcceptFails(l) ==
  \/ \E p \in backlog[l] : TakesFrom(l, p) /\ peer' = [peer EXCEPT ![p] = "reset"] /\ UNCHANGED state
  \/ \E e \in {"EMFILE", "ENFILE"} :
       /\ state' = IF e \in Tolerates(state[l].transport) THEN state
                   ELSE [state EXCEPT ![l].at = "aborted"]
       /\ UNCHANGED <<backlog, peer>>
(* An accepted connection gets an engine and a session; one that is        *)
(* filtered out, or cannot be set up, is closed.                           *)
Accepts(l, p) ==
  /\ TakesFrom(l, p)
  /\ \/ peer' = [peer EXCEPT ![p] = IF LetsIn(state[l].transport, p) THEN state[l].transport ELSE "reset"]
     \/ peer' = [peer EXCEPT ![p] = "reset"]
  /\ UNCHANGED state
InEvent(l) ==
  /\ At(l) = "listening" /\ backlog[l] # {}
  /\ AcceptFails(l) \/ \E p \in backlog[l] : Accepts(l, p)
  /\ UNCHANGED <<files, dirs>>

ProcessTerm(l) ==
  /\ At(l) = "listening"
  /\ Close(l, "closed") /\ Reset(l)

ListenerInit ==
  /\ state = [l \in Listeners |-> Unmade]
  /\ files = [path \in Paths |-> "nobody"]
  /\ dirs = {}
  /\ backlog = [l \in Listeners |-> {}]
  /\ peer = [p \in Peers |-> "none"]
ListenerNext ==
  /\ Running
  /\ \/ \E l \in Listeners, t \in Transports, n \in Names : SetAddress(l, t, n)
     \/ \E l \in Listeners :
          BindListen(l) \/ ListenFails(l) \/ ProcessPlug(l) \/ InEvent(l) \/ ProcessTerm(l)
     \/ \E p \in Peers, t \in Transports, path \in Paths : PeerConnects(p, t, path)
ListenerSpec == ListenerInit /\ [][ListenerNext]_listenervars

-----------------------------------------------------------------------------
(* Properties.                                                             *)

(* A bound listener is reached at its address.  On ipc that is so only if  *)
(* no other listener is ever given the path: it takes the path over        *)
(* without an error, even if its own bind() fails then, and the first one, *)
(* when it ends, removes the other's file (ipc_listener_t::set_address).   *)
Bound(l) == At(l) \in {"bound", "listening"}
PathShared(l) == \E k \in Listeners \ {l} : state[k].transport = "ipc" /\ state[k].path = state[l].path
ReachedWhileBound ==
  \A l \in Listeners :
    Bound(l) /\ ~(state[l].transport = "ipc" /\ PathShared(l))
      => Reached(l, state[l].transport, state[l].path)

(* An address of tcp, tipc or vmci has one listener.                       *)
OneListener ==
  \A l, k \in Listeners :
    Bound(l) /\ Bound(k) /\ l # k /\ state[l].transport # "ipc"
      => <<state[l].transport, state[l].name>> # <<state[k].transport, state[k].name>>
         \/ state[l].useFd \/ state[k].useFd

(* What a listener has made on the file system goes with it: a file or a   *)
(* directory that is left is of a listener that is there, of one whose     *)
(* bind() or listen() failed, or made by the user (has_file,               *)
(* ipc_listener_t::close).                                                 *)
NothingLeft ==
  /\ \A path \in Paths : files[path] # "nobody" =>
       Open(files[path]) \/ At(files[path]) = "failed" \/ state[files[path]].useFd
  /\ \A l \in dirs : Open(l) \/ At(l) = "failed"

(* Nobody whom the filters do not let in gets a session on tcp or ipc, no  *)
(* connection waits at a listener that has ended, and a lack of            *)
(* descriptors ends the program only if the listener is one of ipc         *)
(* (tcp_listener_t::accept, ipc_listener_t::accept).                       *)
FiltersHold ==
  /\ \A p \in Peers \ Welcome : peer[p] \notin {"tcp", "ipc"}
  /\ \A l \in Listeners : backlog[l] # {} => Bound(l) \/ At(l) = "aborted"
  /\ \A l \in Listeners : At(l) = "aborted" => state[l].transport = "ipc"
=============================================================================
