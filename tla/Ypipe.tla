------------------------------- MODULE Ypipe -------------------------------
(***************************************************************************)
(* The lock-free queue between two threads under every pipe and every      *)
(* mailbox: yqueue_t, a list of chunks of N elements whose ends belong to  *)
(* the reader and to the writer, and ypipe_t on top of it, with its one    *)
(* shared pointer c (yqueue.hpp, ypipe.hpp, atomic_ptr.hpp); and the two   *)
(* buffers that take their place if the socket conflates (dbuffer.hpp,     *)
(* ypipe_conflate.hpp).  A step goes as far as the next access to what     *)
(* both threads share.  Memory that is freed is handed out again.          *)
(***************************************************************************)
EXTENDS Integers, Sequences, FiniteSets

LOCAL INSTANCE SequencesExt

CONSTANTS
  N,           \* elements of a chunk
  Addresses,   \* of chunks
  MaxWritten   \* values written: 1, 2, ...

VARIABLES
  conflate,    \* whether it is a ypipe_conflate_t
  chunks,      \* memory: from addresses to chunks
  begin, back, end, spare,   \* yqueue_t
  w, r, f, c,  \* ypipe_t
  writer, reader,            \* what the threads are about to do
  written, complete, got,    \* values, and those of them that may be read
  buffer, lock               \* dbuffer_t
ypipevars == <<conflate, chunks, begin, back, end, spare, w, r, f, c, writer, reader, written,
               complete, got, buffer, lock>>
queuevars == <<chunks, begin, back, end, spare, w, r, f, c>>

Null == <<"null", 0>>
At(chunk, pos) == <<chunk, pos>>
NewChunk == [live |-> TRUE, values |-> [i \in 0..N - 1 |-> 0], prev |-> "null", next |-> "null"]
Freed == [NewChunk EXCEPT !.live = FALSE]
Live(a) == chunks[a].live
FreeOnes == {a \in Addresses : ~Live(a)}
Value(p) == chunks[p[1]].values[p[2]]

-----------------------------------------------------------------------------
(* The writer: the value goes to the place of the terminator, and a new    *)
(* terminator is pushed.                                                   *)
WriteStarts(incomplete) ==
  /\ ~conflate /\ writer.pc = "idle" /\ Len(written) < MaxWritten
  /\ chunks' = [chunks EXCEPT ![back[1]].values[back[2]] = Len(written) + 1]
  /\ back' = end
  /\ written' = Append(written, Len(written) + 1)
  /\ writer' = [pc |-> IF end[2] + 1 = N THEN "chunk" ELSE "complete", incomplete |-> incomplete]
  /\ end' = IF end[2] + 1 = N THEN end ELSE At(end[1], end[2] + 1)
  /\ UNCHANGED <<conflate, begin, spare, w, r, f, c, reader, complete, got, buffer, lock>>

(* push() takes the spare chunk, in one atomic exchange, or a new one.     *)
Linked(a, m) == [m EXCEPT ![end[1]].next = a, ![a].prev = end[1]]
PushChunk ==
  /\ writer.pc = "chunk"
  /\ \/ /\ spare # "null"
        /\ chunks' = Linked(spare, chunks) /\ end' = At(spare, 0)
     \/ /\ spare = "null"
        /\ \E a \in FreeOnes :
             chunks' = Linked(a, [chunks EXCEPT ![a] = NewChunk]) /\ end' = At(a, 0)
  /\ spare' = "null"
  /\ writer' = [writer EXCEPT !.pc = "complete"]
  /\ UNCHANGED <<conflate, begin, back, w, r, f, c, reader, written, complete, got, buffer, lock>>

WriteEnds ==
  /\ writer.pc = "complete"
  /\ IF writer.incomplete THEN UNCHANGED <<f, complete>>
     ELSE f' = back /\ complete' = written
  /\ writer' = [writer EXCEPT !.pc = "idle"]
  /\ UNCHANGED <<conflate, chunks, begin, back, end, spare, w, r, c, reader, written, got, buffer,
                 lock>>

(* unwrite(): the last value comes back if it is not complete.             *)
Before(p) == IF p[2] > 0 THEN At(p[1], p[2] - 1) ELSE At(chunks[p[1]].prev, N - 1)
Unpush ==
  /\ back' = Before(back) /\ end' = Before(end)
  /\ chunks' = IF end[2] > 0 THEN chunks
               ELSE [chunks EXCEPT ![chunks[end[1]].prev].next = "null", ![end[1]] = Freed]
Unwrite ==
  /\ ~conflate /\ writer.pc = "idle" /\ f # back
  /\ Unpush
  /\ written' = SubSeq(written, 1, Len(written) - 1)
  /\ UNCHANGED <<conflate, begin, spare, w, r, f, c, writer, reader, complete, got, buffer, lock>>

(* flush(): if the reader has set c to NULL it sleeps, and the caller      *)
(* wakes it.                                                               *)
FlushUnseen ==
  c' = f /\ w' = f /\ UNCHANGED writer
FlushCas ==
  IF c = w THEN c' = f /\ w' = f /\ UNCHANGED writer
  ELSE writer' = [writer EXCEPT !.pc = "set"] /\ UNCHANGED <<c, w>>
Flush ==
  /\ ~conflate /\ writer.pc = "idle" /\ w # f
  /\ FlushCas
  /\ UNCHANGED <<conflate, chunks, begin, back, end, spare, r, f, reader, written, complete, got,
                 buffer, lock>>
FlushSets ==
  /\ writer.pc = "set"
  /\ c' = f /\ w' = f
  /\ writer' = [writer EXCEPT !.pc = "wake"]
  /\ UNCHANGED <<conflate, chunks, begin, back, end, spare, r, f, reader, written, complete, got,
                 buffer, lock>>
Wake ==
  /\ writer.pc = "wake" /\ reader.pc = "asleep"
  /\ writer' = [writer EXCEPT !.pc = "idle"]
  /\ reader' = [reader EXCEPT !.pc = "idle"]
  /\ UNCHANGED <<conflate, queuevars, written, complete, got, buffer, lock>>

-----------------------------------------------------------------------------
(* The reader: check_read() asks c only if nothing is prefetched.          *)
Prefetched == begin # r /\ r # Null
CheckRead ==
  /\ ~conflate /\ reader.pc = "idle"
  /\ IF Prefetched
       THEN reader' = [reader EXCEPT !.pc = "take"] /\ UNCHANGED <<r, c>>
       ELSE /\ r' = c
            /\ c' = IF c = begin THEN Null ELSE c
            /\ reader' = [reader EXCEPT !.pc = IF r' = begin \/ r' = Null THEN "asleep" ELSE "take"]
  /\ UNCHANGED <<conflate, chunks, begin, back, end, spare, w, f, writer, written, complete, got,
                 buffer, lock>>

(* read() and pop(): a chunk that is read becomes the spare one, and the   *)
(* one that was spare is freed.                                            *)
Take ==
  /\ ~conflate /\ reader.pc = "take"
  /\ got' = Append(got, Value(begin))
  /\ IF begin[2] + 1 < N
       THEN /\ begin' = At(begin[1], begin[2] + 1)
            /\ reader' = [reader EXCEPT !.pc = "idle"] /\ UNCHANGED chunks
       ELSE /\ begin' = At(chunks[begin[1]].next, 0)
            /\ chunks' = [chunks EXCEPT ![chunks[begin[1]].next].prev = "null"]
            /\ reader' = [reader EXCEPT !.pc = "spare", !.chunk = begin[1]]
  /\ UNCHANGED <<conflate, back, end, spare, w, r, f, c, writer, written, complete, buffer, lock>>
SparesChunk ==
  /\ reader.pc = "spare"
  /\ spare' = reader.chunk
  /\ reader' = [pc |-> "free", chunk |-> spare]
  /\ UNCHANGED <<conflate, chunks, begin, back, end, w, r, f, c, writer, written, complete, got,
                 buffer, lock>>
FreesChunk ==
  /\ reader.pc = "free"
  /\ chunks' = [a \in Addresses |-> IF a = reader.chunk THEN Freed ELSE chunks[a]]
  /\ reader' = [pc |-> "idle", chunk |-> "null"]
  /\ UNCHANGED <<conflate, begin, back, end, spare, w, r, f, c, writer, written, complete, got,
                 buffer, lock>>

-----------------------------------------------------------------------------
(* dbuffer_t.  The writer that does not get the lock leaves its value in   *)
(* the back buffer, where the next one replaces it.  flush() says that the *)
(* reader sleeps, whether it does or not: reader_awake is never set.       *)
Conflating == conflate /\ UNCHANGED <<conflate, queuevars>>
BackWrite ==
  /\ Conflating /\ writer.pc = "idle" /\ Len(written) < MaxWritten
  /\ written' = Append(written, Len(written) + 1)
  /\ buffer' = [buffer EXCEPT !.back = Len(written) + 1]
  /\ writer' = [writer EXCEPT !.pc = "try_lock"]
  /\ UNCHANGED <<reader, complete, got, lock>>
Swap == buffer' = [back |-> buffer.front, front |-> buffer.back, hasMsg |-> TRUE]
TryLock ==
  /\ Conflating /\ writer.pc = "try_lock"
  /\ IF lock THEN UNCHANGED <<buffer, complete>>
     ELSE Swap /\ complete' = Append(complete, buffer.back)
  /\ writer' = [writer EXCEPT !.pc = "wake"]
  /\ UNCHANGED <<reader, written, got, lock>>
ConflateWake ==
  /\ Conflating /\ writer.pc = "wake"
  /\ writer' = [writer EXCEPT !.pc = "idle"]
  /\ reader' = [reader EXCEPT !.pc = IF @ = "asleep" THEN "idle" ELSE @]
  /\ UNCHANGED <<written, complete, got, buffer, lock>>

ConflateLock ==
  /\ Conflating /\ reader.pc \in {"idle", "take"} /\ ~lock
  /\ lock' = TRUE
  /\ reader' = [reader EXCEPT !.pc = IF @ = "idle" THEN "checks" ELSE "takes"]
  /\ UNCHANGED <<writer, written, complete, got, buffer>>
ConflateCheck ==
  /\ Conflating /\ reader.pc = "checks"
  /\ lock' = FALSE
  /\ reader' = [reader EXCEPT !.pc = IF buffer.hasMsg THEN "take" ELSE "asleep"]
  /\ UNCHANGED <<writer, written, complete, got, buffer>>
ConflateTake ==
  /\ Conflating /\ reader.pc = "takes"
  /\ lock' = FALSE
  /\ got' = Append(got, buffer.front)
  /\ buffer' = [buffer EXCEPT !.front = 0, !.hasMsg = FALSE]
  /\ reader' = [reader EXCEPT !.pc = "idle"]
  /\ UNCHANGED <<writer, written, complete>>

YInit ==
  /\ conflate \in BOOLEAN
  /\ \E a \in Addresses :
       /\ chunks = [x \in Addresses |-> IF x = a THEN NewChunk ELSE Freed]
       /\ begin = At(a, 0) /\ back = At(a, 0)
       /\ end = At(a, 1)
       /\ w = At(a, 0) /\ r = At(a, 0) /\ f = At(a, 0) /\ c = At(a, 0)
  /\ spare = "null"
  /\ writer = [pc |-> "idle", incomplete |-> FALSE] /\ reader = [pc |-> "idle", chunk |-> "null"]
  /\ written = <<>> /\ complete = <<>> /\ got = <<>>
  /\ buffer = [back |-> 0, front |-> 0, hasMsg |-> FALSE] /\ lock = FALSE
YNext ==
  \/ \E incomplete \in BOOLEAN : WriteStarts(incomplete)
  \/ PushChunk \/ WriteEnds \/ Unwrite \/ Flush \/ FlushSets \/ Wake
  \/ CheckRead \/ Take \/ SparesChunk \/ FreesChunk
  \/ BackWrite \/ TryLock \/ ConflateWake \/ ConflateLock \/ ConflateCheck \/ ConflateTake
YSpec == YInit /\ [][YNext]_ypipevars

-----------------------------------------------------------------------------
(* Properties.                                                             *)

(* Values come out once each, in order, and none before it is complete; if *)
(* it conflates some are left out, and only those that another replaced    *)
(* (ypipe_t::read, dbuffer_t::write).                                      *)
ReadInOrder ==
  IF conflate THEN \A i, j \in DOMAIN got : i < j => got[i] < got[j]
  ELSE IsPrefix(got, complete)

(* No pointer of either thread leads to memory that was freed, although    *)
(* each frees chunks and hands out again what the other has freed, and the *)
(* spare chunk is on no list (yqueue_t::push, unpush, pop).                *)
RECURSIVE Chain(_)
Chain(a) == IF a = end[1] THEN {a} ELSE {a} \cup Chain(chunks[a].next)
MemoryInUse ==
  ~conflate =>
    /\ \A p \in {begin, back, end, w, f} \cup ({r, c} \ {Null}) : Live(p[1])
    /\ spare # "null" => Live(spare) /\ spare \notin Chain(begin[1])
    /\ reader.pc = "free" /\ reader.chunk # "null" => reader.chunk \notin Chain(begin[1]) \cup {spare}

(* A reader that sleeps has read all that was flushed, or is about to be   *)
(* woken.  If it conflates, what it misses is a value whose writer did not *)
(* get the lock: nothing wakes it for that until the next is written.      *)
AsleepMeansEmpty ==
  reader.pc = "asleep" =>
    IF conflate THEN buffer.hasMsg => writer.pc = "wake"
    ELSE w = begin \/ writer.pc = "wake"
=============================================================================
