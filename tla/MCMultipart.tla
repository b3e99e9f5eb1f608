---------------------------- MODULE MCMultipart -----------------------------
(***************************************************************************)
(* Lists for Multipart.  zmq.send.multipart() is meant for lists of two or *)
(* more parts; the other lists are what its callers may also pass.         *)
(***************************************************************************)
EXTENDS Multipart

LongLists == <<<<"value", "value">>, <<"value", "NULL", "value">>,
               <<"value", "value", "value">>>>

(* A list of one part and an empty one among longer ones.                  *)
ShortLists == <<<<"value", "value">>, <<"value">>, <<>>,
                <<"value", "value">>>>

AllWorkloads   == {LongLists, ShortLists}
ShortWorkloads == {ShortLists}
==============================================================================
