----------------------------- MODULE MCSession -----------------------------
(* A small instance of Session: a session, two connecters one after the    *)
(* other, and two I/O threads; the socket connects, or it listens.         *)
EXTENDS Session

MCThreads == {"app", "io1", "io2"}
MCThread == [o \in Objects |-> IF o = "socket" THEN "app"
                              ELSE IF o \in {"listener", "s1", "c2"} THEN "io1"
                              ELSE "io2"]
MCOption(a, l, i, r) == [active |-> a, linger |-> l, immediate |-> i,
                         reconnect |-> r]
MCOptions == {MCOption(TRUE, "for a time", TRUE, TRUE),
              MCOption(TRUE, "for ever", FALSE, TRUE),
              MCOption(FALSE, "not at all", FALSE, FALSE)}
=============================================================================
