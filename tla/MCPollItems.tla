---------------------------- MODULE MCPollItems -----------------------------
(***************************************************************************)
(* PollItems with two sockets: a poll like that of demo/mspoller.r, which  *)
(* reads from both, and one that asks a socket, given twice, whether it    *)
(* can be read from and written to.                                        *)
(***************************************************************************)
EXTENDS PollItems

CONSTANTS pa, pb

Ask(s, e) == [sock |-> s, events |-> e]

PollerPolls == {<<Ask(pa, {"in"}), Ask(pb, {"in"})>>,
                <<Ask(pb, {"in"}), Ask(pb, {"out"})>>}

==============================================================================
