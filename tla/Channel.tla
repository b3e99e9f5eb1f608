------------------------------ MODULE Channel -------------------------------
(***************************************************************************)
(* What a pipe promises in one direction, without threads, commands or     *)
(* memory: frames arrive in order, once, and only as parts of whole        *)
(* messages; whatever was sent before the writer closed is there to be     *)
(* taken until the reader itself asks to leave.  A reader may cut the      *)
(* channel to be sent everything anew; what is sent until the writer has   *)
(* noticed is lost.  A writer that notices in the middle of a message has  *)
(* lost its beginning, and what it goes on to send is the rest of it: the  *)
(* only message that is not whole.                                         *)
(***************************************************************************)
EXTENDS Naturals, Sequences

CONSTANT Messages(_)   \* the frame sequences message n may consist of

VARIABLES
  sent,     \* number of messages sent
  queue,    \* frames to be taken
  got,      \* frames taken
  writer,   \* "open" or "closed"
  reader,   \* "reading", "drained" or "left"
  asked,    \* whether the reader has asked to leave: "yes" or "no"
  link,     \* "up", or "cut" until the writer notices
  torn      \* whether the beginning of the message under way is lost

vars == <<sent, queue, got, writer, reader, asked, link, torn>>

Init == /\ sent = 0 /\ queue = <<>> /\ got = <<>>
        /\ writer = "open" /\ reader = "reading" /\ asked \in {"no", "yes"}
        /\ link = "up" /\ torn = "no"

(* What is left of a message when its first frames are lost.               *)
Rests(m) == {SubSeq(m, k, Len(m)) : k \in 2 .. Len(m)}

Send == /\ writer = "open"
        /\ sent' = sent + 1
        /\ IF reader = "reading" /\ link = "up"
             THEN \E m \in Messages(sent') :
                    IF torn = "no" THEN queue' = queue \o m
                    ELSE \E rest \in Rests(m) : queue' = queue \o rest
             ELSE UNCHANGED queue
        /\ torn' = "no"
        /\ UNCHANGED <<got, writer, reader, asked, link>>

(* The writer gives a message up.                                          *)
Abandon == /\ torn' = "no"
           /\ UNCHANGED <<sent, queue, got, writer, reader, asked, link>>

Take == /\ reader = "reading" /\ queue # <<>>
        /\ got' = Append(got, Head(queue)) /\ queue' = Tail(queue)
        /\ UNCHANGED <<sent, writer, reader, asked, link, torn>>

Close == /\ writer' = "closed" /\ torn' = "no"
         /\ UNCHANGED <<sent, queue, got, reader, asked, link>>

(* The reader has seen everything.                                         *)
Drain == /\ reader = "reading" /\ writer = "closed" /\ queue = <<>>
         /\ reader' = "drained" /\ writer' = writer
         /\ UNCHANGED <<sent, queue, got, asked, link, torn>>

Ask == /\ asked' = "yes"
       /\ UNCHANGED <<sent, queue, got, writer, reader, link, torn>>

(* The reader leaves; as a writer it closes the other direction too.       *)
Leave == /\ reader = "reading" /\ asked' = "yes"
         /\ reader' = "left" /\ queue' = <<>> /\ link' = "up"
         /\ UNCHANGED <<sent, got, writer, torn>>

Cut == /\ reader = "reading"
       /\ link' = "cut" /\ queue' = <<>>
       /\ UNCHANGED <<sent, got, writer, reader, asked, torn>>

(* The writer notices a cut, perhaps in the middle of a message, and       *)
(* perhaps not yet the last one.                                           *)
Resume == /\ reader = "reading" => link = "cut"
          /\ link' \in {link, "up"}
          /\ torn' = torn \/ (writer = "open" /\ torn' = "yes")
          /\ UNCHANGED <<sent, queue, got, writer, reader, asked>>

Next == \/ Send \/ Abandon \/ Take \/ Close \/ Drain \/ Ask \/ Leave
        \/ Cut \/ Resume

Spec == Init /\ [][Next]_vars
=============================================================================
