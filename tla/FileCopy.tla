------------------------------ MODULE FileCopy ------------------------------
(***************************************************************************)
(* What a series of zmq.sendfile()/zmq.recvfile() calls promises the       *)
(* receiving user, with sockets, messages and acknowledgements left out.   *)
(* The k-th receiving call writes file k in order, from its first byte;    *)
(* it reports success only when the copy is complete; it may instead end   *)
(* in an R error at any point, and no call is made after an error.         *)
(***************************************************************************)
EXTENDS Naturals, Sequences

CONSTANTS NCalls,    \* number of calls made
          FileLen    \* length in bytes of each file

VARIABLES out,       \* out[k]: bytes that call k has written so far
          rret       \* rret[k]: how call k ended, or "none"

vars == <<out, rret>>

Calls == 1 .. NCalls

(* Byte i of file k is the pair <<k, i>>: all bytes are told apart.        *)
FileBytes(k, n) == [i \in 1 .. n |-> <<k, i>>]

Init == /\ out = [k \in Calls |-> <<>>]
        /\ rret = [k \in Calls |-> "none"]

(* Call k may still act: it has not ended and every earlier one succeeded. *)
Active(k) == /\ rret[k] = "none"
             /\ \A j \in 1 .. k - 1 : rret[j] = "ok"

(* Extend the copy to its first n bytes and possibly end the call.         *)
Write(k, n, r) == /\ Active(k)
                  /\ Len(out[k]) <= n
                  /\ r = "ok" => n = FileLen[k]
                  /\ out' = [out EXCEPT ![k] = FileBytes(k, n)]
                  /\ rret' = [rret EXCEPT ![k] = r]

Next == \E k \in Calls : \E n \in 0 .. FileLen[k] :
            \E r \in {"none", "ok", "error"} : Write(k, n, r)

Spec == Init /\ [][Next]_vars
=============================================================================
