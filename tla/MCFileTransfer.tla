--------------------------- MODULE MCFileTransfer ---------------------------
(* Instances of FileTransfer: four calls on one pair of sockets; the       *)
(* files cover a length that is no multiple of the chunk, one that is (its *)
(* last chunk is empty), and the empty file.                               *)
EXTENDS FileTransfer

MCFileLen == [k \in 1 .. NCalls |-> <<4, 3, 0, 6>>[k]]
=============================================================================
