------------------------------ MODULE MCEngine ------------------------------
(* Small instances of Engine: one or two messages each way over a network  *)
(* that holds one or two tokens, and the set-ups worth telling apart.      *)
EXTENDS Engine

MCPlain == [mech |-> [e \in Ends |-> "NULL"],
            as_server |-> [e \in Ends |-> e = "server"],
            zap |-> "off", allow |-> TRUE, old |-> "no", recv_identity |-> FALSE,
            hwm |-> 1, left |-> 0, heartbeat |-> FALSE, maxmsgsize |-> 9,
            types_match |-> TRUE]
MCMsgs == [e \in Ends |-> IF e = "client" THEN 2 ELSE 1]
MCWith(m) == [MCPlain EXCEPT !.mech = [e \in Ends |-> m]]
MCConfigs ==
  { MCPlain,                                                  \* as is
    [MCPlain EXCEPT !.heartbeat = TRUE],
    [MCPlain EXCEPT !.zap = "slow", !.recv_identity = TRUE],
    [MCPlain EXCEPT !.zap = "slow", !.allow = FALSE],
    [MCPlain EXCEPT !.old = "ZMTP 1 or 2"],
    [MCPlain EXCEPT !.old = "unversioned"],
    [MCPlain EXCEPT !.types_match = FALSE],
    [MCPlain EXCEPT !.mech["client"] = "PLAIN"],              \* not alike
    [MCWith("PLAIN") EXCEPT !.zap = "slow"],
    [MCWith("PLAIN") EXCEPT !.zap = "fast", !.allow = FALSE],
    [MCWith("PLAIN") EXCEPT !.old = "unversioned"],           \* refused
    [MCWith("CURVE") EXCEPT !.zap = "slow", !.left = 1],
    [MCWith("CURVE") EXCEPT !.zap = "slow", !.allow = FALSE],
    [MCWith("CURVE") EXCEPT !.maxmsgsize = 0],
    [MCWith("GSSAPI") EXCEPT !.zap = "slow"],
    [MCWith("GSSAPI") EXCEPT !.zap = "fast", !.allow = FALSE] }
MCBeating == { [MCPlain EXCEPT !.heartbeat = TRUE] }
=============================================================================
