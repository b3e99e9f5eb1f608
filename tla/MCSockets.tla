----------------------------- MODULE MCSockets ------------------------------
(***************************************************************************)
(* The sockets of the runs: Setup(type, options, high-water mark, pipes,   *)
(* parts sent, parts got, topics, subscriptions to each).                  *)
(***************************************************************************)
EXTENDS Sockets

Setup(type, opts, hwm, pipes, sends, gets, topics, subs) ==
  [type |-> type, opts |-> opts, hwm |-> hwm, pipes |-> pipes, sends |-> sends,
   gets |-> gets, topics |-> topics, subs |-> subs]

Two == {"p", "q"}

Plain(type, opts, sends, gets) == Setup(type, opts, 1, Two, sends, gets, {<<1>>}, 1)

MCRouting == {
  Plain("PUSH", {}, {2}, {}), Setup("PUSH", {}, 2, Two, {1, 2}, {}, {<<1>>}, 1),
  Plain("PULL", {}, {}, {2}), Plain("PAIR", {}, {2}, {2}),
  Plain("DEALER", {}, {2}, {2}),
  Plain("SCATTER", {}, {1}, {}), Plain("GATHER", {}, {}, {1, 2}),
  Plain("CLIENT", {}, {1}, {1}), Plain("SERVER", {}, {1}, {1, 2}),
  Plain("STREAM", {}, {1}, {}), Setup("STREAM", {}, 1, {"p"}, {1}, {1}, {<<1>>}, 1),
  Plain("REP", {}, {1}, {1}),
  Plain("REQ", {}, {1, 2}, {}), Plain("REQ", {"correlate", "relaxed"}, {1}, {}),
  Plain("ROUTER", {"handover"}, {1}, {}), Plain("ROUTER", {"handover"}, {}, {2}),
  Plain("ROUTER", {"mandatory"}, {1}, {}), Plain("ROUTER", {}, {2}, {})}

(* Tables of the tries that have to be widened, and become sparse.         *)
Topics == {<<1>>, <<3, 2>>}

MCPublishing == {
  Plain("PUB", {}, {2}, {}),
  Setup("PUB", {}, 1, {"p"}, {1}, {1}, {<<1>>, <<3>>, <<3, 2>>}, 1),
  Plain("XPUB", {"invert"}, {1}, {}),
  Setup("XPUB", {"nodrop"}, 1, {"p"}, {1}, {1}, {<<1>>, <<2>>}, 1),
  Setup("XPUB", {"verbose"}, 1, {"p"}, {1}, {1}, Topics, 1),
  Setup("XPUB", {"verboser"}, 1, {"p"}, {1}, {1}, Topics, 1),
  Plain("RADIO", {}, {1}, {}),
  Setup("SUB", {}, 1, {"p"}, {1}, {2}, Topics, 2),
  Setup("SUB", {"invert"}, 1, {"p"}, {1}, {1}, Topics, 1),
  Setup("XSUB", {}, 1, {"p"}, {1}, {2}, Topics, 2),
  Setup("DISH", {}, 1, {"p"}, {1}, {1}, Topics, 1)}

MCAll == MCRouting \cup MCPublishing

(* Three peers, of whom one leaves while a message of another is read.     *)
MCThree == {Setup("ROUTER", {"handover"}, 1, {"p", "q", "r"}, {}, {2}, {<<1>>}, 1)}
=============================================================================
