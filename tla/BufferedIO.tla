----------------------------- MODULE BufferedIO -----------------------------
(***************************************************************************)
(* BufferedReader, BufferedWriter and BufferedRandom: one buffer for       *)
(* reading and writing between the caller and a raw stream that may give   *)
(* or take less than it is asked, would block, or fail.                    *)
(*                                                                         *)
(* A step goes from one call of the raw stream to the next.  Between two   *)
(* of them a thread keeps the GIL; while it waits for the raw stream or    *)
(* for the object's lock another thread may run the parts of the methods   *)
(* that take no lock.                                                      *)
(***************************************************************************)
EXTENDS Integers, SequencesExt

CONSTANTS
  Callers,     \* the threads
  Uses,        \* the kinds of objects and who calls what
  Bytes,       \* the values a byte can have
  BufferSize,  \* buffer_size
  MaxSize,     \* bound on the length of the file
  Requests,    \* the numbers of bytes that are asked for
  Payloads,    \* the sequences of bytes that are written
  None

ASSUME BufferAssumption ==
  /\ BufferSize \in Nat \ {0} /\ MaxSize \in Nat /\ None \notin Callers
  /\ Requests \subseteq Nat \ {0} /\ Payloads \subseteq Seq(Bytes)
  /\ \A u \in Uses :
       /\ {u.readable, u.writable, u.seekable, u.nonblocking, u.faulty} \subseteq BOOLEAN
       /\ u.methods \subseteq {"read", "readall", "readinto", "read1", "peek", "write",
                               "flush", "seek", "tell", "truncate"}
       /\ u.threads \subseteq Callers

VARIABLES
  use,     \* readable, writable, seekable, nonblocking, faulty (raw writes may
           \* fail), methods, threads
  file,    \* what the raw stream holds; from a pipe, also what is still to come
  at,      \* the position of the raw stream
  mem,     \* the buffer
  b,       \* abs_pos, pos, raw_pos, read_end, write_pos, write_end
  owner,   \* the thread that holds the object's lock, or None
  calls,   \* where each thread is in its call
  answer,  \* the result of the last call that returned
  before   \* what the stream looked like to its users when the call that holds
           \* the lock began (read by the refinement only)

bufferVars == <<use, file, at, mem, b, owner, calls, answer, before>>

Slice(s, p, n) == SubSeq(s, p + 1, p + n)
Overlay(s, p, d) == SubSeq(s, 1, p) \o d \o SubSeq(s, p + Len(d) + 1, Len(s))
AtMost(m, n) == IF m < n THEN m ELSE n

Idle == [pc |-> "idle", op |-> "none", n |-> 0, asked |-> 0, got |-> <<>>, data |-> <<>>,
         target |-> 0, whence |-> 0]

NoAnswer == [op |-> "none", n |-> 0, value |-> <<>>]

BufferInit ==
  /\ use \in Uses
  /\ file \in BoundedSeq(Bytes, MaxSize)
  /\ ~use.readable /\ ~use.seekable => file = <<>>
  /\ at = 0
  /\ mem \in [1..BufferSize -> Bytes]
  /\ b = [abs_pos |-> IF use.seekable THEN 0 ELSE -1, pos |-> 0, raw_pos |-> 0,
          read_end |-> -1, write_pos |-> 0, write_end |-> -1]
  /\ owner = None
  /\ calls = [t \in Callers |-> Idle]
  /\ answer = NoAnswer
  /\ before = None

-----------------------------------------------------------------------------
(* The macros of the code.                                                 *)

VALID_READ_BUFFER == use.readable /\ b.read_end # -1
VALID_WRITE_BUFFER == use.writable /\ b.write_end # -1

READAHEAD == IF VALID_READ_BUFFER THEN b.read_end - b.pos ELSE 0

\* How far the raw position is ahead of the caller's.
RAW_OFFSET ==
  IF (VALID_READ_BUFFER \/ VALID_WRITE_BUFFER) /\ b.raw_pos >= 0
  THEN b.raw_pos - b.pos ELSE 0

\* ADJUST_POSITION on buffer state c.
Adjusted(c, pos) ==
  [c EXCEPT !.pos = pos,
            !.read_end = IF use.readable /\ c.read_end # -1 /\ c.read_end < pos THEN pos ELSE @]

MINUS_LAST_BLOCK(n) == BufferSize * (n \div BufferSize)

\* What is waiting to be written.
Pending == VALID_WRITE_BUFFER /\ b.write_pos # b.write_end
PendingBytes == Slice(mem, b.write_pos, b.write_end - b.write_pos)

\* What the users of the stream have written and where they are.
Logical ==
  [content |-> IF Pending
               THEN Overlay(file, at - b.raw_pos + b.write_pos, PendingBytes)
               ELSE file,
   position |-> at - RAW_OFFSET]

-----------------------------------------------------------------------------
(* Calls: what a method does before it takes the lock.                     *)

MayCall(t, method) == calls[t] = Idle /\ t \in use.threads /\ method \in use.methods

Begin(t, request) ==
  /\ calls' = [calls EXCEPT ![t] = [request EXCEPT !.pc = "lock"]]
  /\ answer' = NoAnswer
  /\ UNCHANGED owner

Request(op, n) == [Idle EXCEPT !.op = op, !.n = n, !.asked = n]

Returns(t, op, n, value) ==
  /\ answer' = [op |-> op, n |-> n, value |-> value]
  /\ calls' = [calls EXCEPT ![t] = Idle]
  /\ owner' = IF owner = t THEN None ELSE owner
  /\ before' = IF owner \in {t, None} THEN None ELSE before

Raise(t) == Returns(t, "error", 0, <<>>)

\* _bufferedreader_read_fast(): enough is in the buffer.
ReadFast(t, op, n, k) ==
  /\ Returns(t, op, n, Slice(mem, b.pos, k))
  /\ b' = [b EXCEPT !.pos = @ + k]

Read(t, n) ==
  /\ MayCall(t, "read")
  /\ IF n <= READAHEAD THEN ReadFast(t, "read", n, n)
     ELSE Begin(t, Request("read", n)) /\ UNCHANGED <<b, before>>
  /\ UNCHANGED <<use, file, at, mem>>

Read1(t, n) ==
  /\ MayCall(t, "read1")
  /\ ~Pending  \* bound: read1() does not flush and would read what is overwritten
  /\ IF READAHEAD > 0 THEN ReadFast(t, "read1", n, AtMost(READAHEAD, n))
     ELSE Begin(t, Request("read1", n)) /\ UNCHANGED <<b, before>>
  /\ UNCHANGED <<use, file, at, mem>>

\* readinto() copies what is in the buffer without the lock.
ReadInto(t, n) ==
  /\ MayCall(t, "readinto")
  /\ IF READAHEAD >= n THEN ReadFast(t, "readinto", n, n)
     ELSE /\ Begin(t, [Request("readinto", n) EXCEPT
                         !.n = n - READAHEAD, !.got = Slice(mem, b.pos, READAHEAD)])
          /\ b' = [b EXCEPT !.pos = @ + READAHEAD]
          /\ before' = Logical
  /\ UNCHANGED <<use, file, at, mem>>

\* read() to the end, peek(), flush(), truncate(): all under the lock.
Plain(t, method) ==
  /\ method \in {"readall", "peek", "flush", "truncate"}
  /\ MayCall(t, method)
  /\ Begin(t, Request(method, 0))
  /\ UNCHANGED <<use, file, at, mem, b, before>>

Write(t, data) ==
  /\ MayCall(t, "write")
  /\ Logical.position + Len(data) <= MaxSize
  /\ Begin(t, [Idle EXCEPT !.op = "write", !.data = data])
  /\ UNCHANGED <<use, file, at, mem, b, before>>

\* tell(): a raw tell(), and no lock.
Tell(t) ==
  /\ MayCall(t, "tell")
  /\ b' = [b EXCEPT !.abs_pos = at]
  /\ Returns(t, "tell", at - RAW_OFFSET, <<>>)
  /\ UNCHANGED <<use, file, at, mem>>

\* seek(): inside the buffer it only moves pos, without the lock.
Seek(t, target, whence) ==
  LET current == IF b.abs_pos # -1 THEN b.abs_pos ELSE at
      offset == IF whence = 0 THEN target - (current - RAW_OFFSET) ELSE target
      wanted == CASE whence = 0 -> target
                  [] whence = 1 -> Logical.position + target
                  [] whence = 2 -> Len(Logical.content) + target
  IN /\ MayCall(t, "seek")
     /\ wanted <= Len(Logical.content)  \* bound: not behind the end of the file
     /\ wanted >= 0 \/ ~Pending         \* bound: it fails with a read buffer that misleads
     /\ IF use.readable /\ whence \in {0, 1} /\ READAHEAD > 0 /\ offset \in -b.pos..READAHEAD
        THEN /\ b' = [b EXCEPT !.pos = @ + offset, !.abs_pos = current]
             /\ Returns(t, "seek", current - READAHEAD + offset, <<>>)
        ELSE /\ Begin(t, [Idle EXCEPT !.op = "seek", !.target = target, !.whence = whence])
             /\ UNCHANGED <<b, before>>
     /\ UNCHANGED <<use, file, at, mem>>

\* ENTER_BUFFERED, and the first thing each method does under the lock.
Enter(t) ==
  /\ calls[t].pc = "lock"
  /\ owner = None
  /\ owner' = t
  /\ before' = IF before = None THEN Logical ELSE before
  /\ LET op == calls[t].op IN
     calls' = [calls EXCEPT ![t].pc =
       CASE op \in {"read", "readall"} -> "generic"
         [] op = "write" -> "write"
         [] op = "read1" -> "reset"
         [] op = "seek" -> IF use.writable THEN "flush" ELSE "rawseek"
         [] OTHER -> IF use.writable THEN "flush" ELSE "reset"]
  /\ UNCHANGED <<use, file, at, mem, b, answer>>

\* Goes on at pc, in the same call.
Go(t, pc) ==
  /\ calls' = [calls EXCEPT ![t].pc = pc]
  /\ UNCHANGED <<use, owner, answer, before>>

-----------------------------------------------------------------------------
(* _bufferedwriter_flush_unlocked() and the rewind behind it.              *)

\* raw.seek() to an absolute position.
RawSeek(target) == use.seekable /\ target >= 0 /\ at' = target

\* First, rewind: the raw stream goes where write_pos belongs.
FlushSeek(t) ==
  LET rewind == RAW_OFFSET + b.pos - b.write_pos IN
  /\ calls[t].pc = "flush"
  /\ Pending
  /\ IF rewind = 0 THEN UNCHANGED <<at, b>>
     ELSE /\ RawSeek(at - rewind)
          /\ b' = [b EXCEPT !.abs_pos = at', !.raw_pos = @ - rewind]
  /\ Go(t, "flushwrite")
  /\ UNCHANGED <<file, mem>>

\* raw.write() takes k bytes of data.
RawWrite(data, k) ==
  /\ file' = Overlay(file, at, SubSeq(data, 1, k))
  /\ at' = at + k

\* MUTANT: the cached position is forgotten.
TrackedNot(k) == b

\* The cached position follows the raw stream.
Tracked(k) == IF b.abs_pos # -1 THEN [b EXCEPT !.abs_pos = @ + k] ELSE b

\* _bufferedwriter_reset_buf()
WriteReset(c) == [c EXCEPT !.write_pos = 0, !.write_end = -1]

\* Where the method goes on when nothing is left to write: write() and seek()
\* move the raw stream themselves, the others through flush_and_rewind.
AfterFlush(t) ==
  CASE calls[t].op = "write" -> "direct"
    [] calls[t].op = "seek" -> "rawseek"
    [] OTHER -> IF use.readable THEN "rewind" ELSE "reset"

FlushWrite(t) ==
  /\ calls[t].pc = "flushwrite"
  /\ \E k \in 1..Len(PendingBytes) :
       LET c == [Tracked(k) EXCEPT !.write_pos = @ + k, !.raw_pos = b.write_pos + k]
           last == k = Len(PendingBytes)
       IN /\ RawWrite(PendingBytes, k)
          /\ b' = IF last THEN WriteReset(c) ELSE c
          /\ Go(t, IF last THEN AfterFlush(t) ELSE "flushwrite")
  /\ UNCHANGED mem

NothingToFlush(t) ==
  /\ calls[t].pc = "flush"
  /\ ~Pending
  /\ b' = IF calls[t].op = "seek" THEN WriteReset(b) ELSE b
  /\ Go(t, AfterFlush(t))
  /\ UNCHANGED <<file, at, mem>>

\* raw.write() fails or would block in the middle of it: what is not written
\* stays in the buffer.
FlushFails(t) ==
  /\ calls[t].pc = "flushwrite"
  /\ \/ use.faulty /\ Raise(t)
     \/ use.nonblocking /\ calls[t].op # "write" /\ Returns(t, "blocked", 0, <<>>)
  /\ UNCHANGED <<use, file, at, mem, b>>

\* The raw stream goes where the caller believes it is.
Rewind(t) ==
  /\ calls[t].pc = "rewind"
  /\ RawSeek(at - RAW_OFFSET)
  /\ b' = [b EXCEPT !.abs_pos = at', !.read_end = -1]
  /\ Go(t, "reset")
  /\ UNCHANGED <<file, mem>>

-----------------------------------------------------------------------------
(* Reading.                                                                *)

\* raw.readinto() with room for n bytes: k of them, 0 at the end of the file;
\* -1 is an error and -2 means that it would block.
RawReads(n) ==
  (IF at < Len(file) THEN 1..AtMost(n, Len(file) - at) ELSE {0})
  \cup {-1} \cup (IF use.nonblocking THEN {-2} ELSE {})

\* A method has to go to the raw stream: it takes what is in the buffer first.
ReadGeneric(t) ==
  /\ calls[t].pc = "generic"
  /\ IF calls[t].op = "read" /\ calls[t].n <= READAHEAD
     THEN ReadFast(t, "read", calls[t].asked, calls[t].n) /\ UNCHANGED use
     ELSE /\ calls' = [calls EXCEPT ![t].pc = IF use.writable THEN "flush" ELSE "reset",
                                  ![t].got = Slice(mem, b.pos, READAHEAD),
                                  ![t].n = @ - READAHEAD]
          /\ b' = [b EXCEPT !.pos = @ + READAHEAD]
          /\ UNCHANGED <<use, owner, answer, before>>
  /\ UNCHANGED <<file, at, mem>>

\* _bufferedreader_reset_buf(), and on to the raw stream.
Reset(t) ==
  LET op == calls[t].op
      blocks == MINUS_LAST_BLOCK(calls[t].n)
  IN
  /\ calls[t].pc = "reset"
  /\ \/ /\ op = "peek" /\ READAHEAD > 0
        /\ Returns(t, "peek", 0, Slice(mem, b.pos, READAHEAD))
        /\ UNCHANGED <<use, b>>
     \/ /\ op = "peek" /\ READAHEAD = 0
        /\ b' = [b EXCEPT !.read_end = -1]
        /\ Go(t, "fill")
     \/ /\ op \in {"read1", "readall"}
        /\ b' = [b EXCEPT !.read_end = -1]
        /\ Go(t, op)
     \/ /\ op = "readinto"
        /\ b' = [b EXCEPT !.read_end = -1, !.pos = 0]
        /\ Go(t, IF calls[t].n > BufferSize THEN "directread" ELSE "fill")
     \/ /\ op = "read" /\ blocks > 0
        /\ b' = [b EXCEPT !.read_end = -1]
        /\ Go(t, "directread")
     \/ /\ op = "read" /\ blocks = 0
        /\ b' = [b EXCEPT !.read_end = 0, !.pos = 0, !.raw_pos = 0]
        /\ Go(t, "fill")
     \/ op = "flush" /\ Returns(t, "flush", 0, <<>>) /\ UNCHANGED <<use, b>>
     \/ op = "truncate" /\ Go(t, "truncate") /\ UNCHANGED b
  /\ UNCHANGED <<file, at, mem>>

\* k bytes could not be had: the read ends with what it has got.
Stop(t, k) ==
  \/ k = -1 /\ Raise(t)
  \/ /\ k = 0 \/ (k = -2 /\ calls[t].got # <<>>)
     /\ Returns(t, calls[t].op, calls[t].asked, calls[t].got)
  \/ k = -2 /\ calls[t].got = <<>> /\ Returns(t, "None", 0, <<>>)

\* The read goes on with n bytes still to be got, or is satisfied.
GoOn(t, got, n) ==
  IF n = 0 THEN Returns(t, calls[t].op, calls[t].asked, got)
  ELSE /\ calls' = [calls EXCEPT ![t].got = got, ![t].n = n, ![t].pc =
             IF calls[t].op = "readinto" /\ n <= BufferSize THEN "fill"
             ELSE IF calls[t].op = "read" /\ calls[t].pc = "directread" /\ n < BufferSize
             THEN "reset" ELSE @]
       /\ UNCHANGED <<owner, answer, before>>

\* Whole blocks go to the caller and not through the buffer.
DirectRead(t) ==
  LET n == calls[t].n
      room == IF calls[t].op = "read" THEN MINUS_LAST_BLOCK(n) ELSE n
  IN /\ calls[t].pc = "directread"
     /\ \E k \in RawReads(room) :
          IF k <= 0 THEN Stop(t, k) /\ UNCHANGED <<at, b>>
          ELSE /\ at' = at + k
               /\ b' = Tracked(k)
               /\ GoOn(t, calls[t].got \o Slice(file, at, k), n - k)
     /\ UNCHANGED <<use, file, mem>>

\* _bufferedreader_fill_buffer(), behind what is in the buffer.
Fill(t) ==
  LET start == IF VALID_READ_BUFFER THEN b.read_end ELSE 0 IN
  /\ calls[t].pc = "fill"
  /\ \E k \in RawReads(BufferSize - start) :
       IF k <= 0
       THEN /\ IF calls[t].op = "peek"
               THEN \/ k = -1 /\ Raise(t) /\ UNCHANGED b
                    \/ k # -1 /\ Returns(t, "peek", 0, <<>>) /\ b' = [b EXCEPT !.pos = 0]
               ELSE Stop(t, k) /\ UNCHANGED b
            /\ UNCHANGED <<at, mem>>
       ELSE LET bytes == Slice(file, at, k)
                m == AtMost(k, calls[t].n)
                filled == [Tracked(k) EXCEPT !.read_end = start + k, !.raw_pos = start + k]
            IN /\ at' = at + k
               /\ mem' = Overlay(mem, start, bytes)
               /\ IF calls[t].op = "peek"
                  THEN Returns(t, "peek", 0, bytes) /\ b' = [filled EXCEPT !.pos = 0]
                  ELSE /\ GoOn(t, calls[t].got \o Slice(mem', b.pos, m), calls[t].n - m)
                       /\ b' = [filled EXCEPT !.pos = @ + m]
  /\ UNCHANGED <<use, file>>

\* raw.readall(): all there is, and abs_pos is not told.  (If it fails, it does
\* so at once: after a part of it abs_pos would be wrong for ever.)
RawReadAll(t) ==
  LET left == Len(file) - at IN
  /\ calls[t].pc = "readall"
  /\ \E k \in RawReads(left) :
       IF k <= 0 THEN Stop(t, k) /\ UNCHANGED at
       ELSE /\ k < left => use.nonblocking
            /\ at' = at + k
            /\ Returns(t, "readall", 0, calls[t].got \o Slice(file, at, k))
  /\ UNCHANGED <<use, file, mem, b>>

\* read1(): one raw read, past the buffer; one that would block gives nothing.
RawRead1(t) ==
  /\ calls[t].pc = "read1"
  /\ \E k \in RawReads(calls[t].n) :
       IF k <= 0
       THEN /\ IF k = -1 THEN Raise(t) ELSE Returns(t, "read1", calls[t].asked, <<>>)
            /\ UNCHANGED <<at, b>>
       ELSE /\ at' = at + k
            /\ b' = Tracked(k)
            /\ Returns(t, "read1", calls[t].asked, Slice(file, at, k))
  /\ UNCHANGED <<use, file, mem>>

-----------------------------------------------------------------------------
(* Writing, seeking and truncating.                                        *)

\* write() into the buffer, if all of it fits behind pos.
WriteBuffered(t) ==
  LET data == calls[t].data
      c == IF VALID_READ_BUFFER \/ VALID_WRITE_BUFFER THEN b
           ELSE [b EXCEPT !.pos = 0, !.raw_pos = 0]
      end == c.pos + Len(data)
  IN /\ calls[t].pc = "write"
     /\ IF end <= BufferSize
        THEN /\ mem' = Overlay(mem, c.pos, data)
             /\ b' = [Adjusted(c, end) EXCEPT
                  !.write_pos = IF ~VALID_WRITE_BUFFER \/ @ > c.pos THEN c.pos ELSE @,
                  !.write_end = IF end > @ THEN end ELSE @]
             /\ Returns(t, "write", Len(data), <<>>)
             /\ UNCHANGED use
        ELSE b' = c /\ Go(t, "flush") /\ UNCHANGED mem
     /\ UNCHANGED <<file, at>>

\* The flush inside write() would block: what is left moves to the front of the
\* buffer, and as much of the data as there is room for behind it.
WriteBlocks(t) ==
  LET data == calls[t].data
      k == AtMost(BufferSize - Len(PendingBytes), Len(data))
  IN /\ calls[t].pc = "flushwrite" /\ calls[t].op = "write" /\ use.nonblocking
     /\ mem' = Overlay(mem, 0, PendingBytes \o SubSeq(data, 1, k))
     /\ b' = [b EXCEPT !.read_end = -1, !.raw_pos = @ - b.write_pos,
                       !.pos = @ - b.write_pos + k,
                       !.write_pos = 0, !.write_end = @ - b.write_pos + k]
     /\ Returns(t, IF k = Len(data) THEN "write" ELSE "blocked", k, <<>>)
     /\ UNCHANGED <<use, file, at>>

\* The read buffer was ahead of the caller (issue #6629).
DirectSeek(t) ==
  /\ calls[t].pc = "direct"
  /\ IF RAW_OFFSET = 0 THEN UNCHANGED <<at, b>>
     ELSE /\ RawSeek(at - RAW_OFFSET)
          /\ b' = [b EXCEPT !.abs_pos = at', !.raw_pos = @ - RAW_OFFSET]
  /\ Go(t, "directwrite")
  /\ UNCHANGED <<file, mem>>

\* Data that is larger than the buffer goes past it.
DirectWrite(t) ==
  LET data == calls[t].data IN
  /\ calls[t].pc = "directwrite"
  /\ Len(data) > BufferSize
  /\ \E k \in 1..Len(data) :
       /\ RawWrite(data, k)
       /\ b' = Tracked(k)
       /\ calls' = [calls EXCEPT ![t].data = SubSeq(data, k + 1, Len(data)), ![t].n = @ + k]
  /\ UNCHANGED <<use, mem, owner, answer, before>>

\* MUTANT: the bytes that are kept in the buffer are not counted.
DirectFailsUncounted(t) ==
  LET data == calls[t].data IN
  /\ calls[t].pc = "directwrite"
  /\ Len(data) > BufferSize
  /\ \/ use.faulty /\ Raise(t) /\ UNCHANGED <<mem, b>>
     \/ /\ use.nonblocking
        /\ mem' = SubSeq(data, 1, BufferSize)
        /\ b' = [Adjusted([b EXCEPT !.raw_pos = 0], BufferSize) EXCEPT !.write_end = BufferSize]
        /\ Returns(t, "blocked", calls[t].n, <<>>)
  /\ UNCHANGED <<use, file, at>>

\* The raw stream fails, or would block: then the buffer is filled.
DirectFails(t) ==
  LET data == calls[t].data IN
  /\ calls[t].pc = "directwrite"
  /\ Len(data) > BufferSize
  /\ \/ use.faulty /\ Raise(t) /\ UNCHANGED <<mem, b>>
     \/ /\ use.nonblocking
        /\ mem' = SubSeq(data, 1, BufferSize)
        /\ b' = [Adjusted([b EXCEPT !.raw_pos = 0], BufferSize) EXCEPT !.write_end = BufferSize]
        /\ Returns(t, "blocked", calls[t].n + BufferSize, <<>>)
  /\ UNCHANGED <<use, file, at>>

\* The rest of the data fits into the buffer, which is empty now.
WriteRest(t) ==
  LET data == calls[t].data IN
  /\ calls[t].pc = "directwrite"
  /\ Len(data) <= BufferSize
  /\ mem' = Overlay(mem, 0, data)
  /\ b' = [b EXCEPT !.pos = Len(data), !.raw_pos = 0, !.read_end = -1,
                    !.write_pos = 0, !.write_end = Len(data)]
  /\ Returns(t, "write", calls[t].n + Len(data), <<>>)
  /\ UNCHANGED <<use, file, at>>

\* seek() past the buffer.
SeekRaw(t) ==
  LET target == CASE calls[t].whence = 0 -> calls[t].target
                  [] calls[t].whence = 1 -> at - RAW_OFFSET + calls[t].target
                  [] calls[t].whence = 2 -> Len(file) + calls[t].target
  IN /\ calls[t].pc = "rawseek"
     /\ \/ /\ RawSeek(target)
           /\ b' = [b EXCEPT !.abs_pos = at', !.raw_pos = -1, !.read_end = -1]
           /\ Returns(t, "seek", target, <<>>)
        \/ target < 0 /\ Raise(t) /\ UNCHANGED <<at, b>>
     /\ UNCHANGED <<use, file, mem>>

Truncate(t) ==
  /\ calls[t].pc = "truncate"
  /\ file' = SubSeq(file, 1, at)
  /\ b' = [b EXCEPT !.abs_pos = at]
  /\ Returns(t, "truncate", at, <<>>)
  /\ UNCHANGED <<use, at, mem>>

-----------------------------------------------------------------------------
\* Between two raw calls a thread keeps the GIL.
HoldsGIL(t) == calls[t].pc \in {"generic", "reset", "write"}

CallStep(t) ==
  \/ \E n \in Requests : Read(t, n) \/ ReadInto(t, n) \/ Read1(t, n)
  \/ \E method \in {"readall", "peek", "flush", "truncate"} : Plain(t, method)
  \/ \E data \in Payloads : Write(t, data)
  \/ \E target \in -1..MaxSize, whence \in 0..2 : Seek(t, target, whence)
  \/ Tell(t) \/ Enter(t)
  \/ FlushSeek(t) \/ FlushWrite(t) \/ NothingToFlush(t) \/ FlushFails(t) \/ Rewind(t)
  \/ ReadGeneric(t) \/ Reset(t) \/ DirectRead(t) \/ Fill(t) \/ RawReadAll(t) \/ RawRead1(t)
  \/ WriteBuffered(t) \/ WriteBlocks(t) \/ DirectSeek(t) \/ DirectWrite(t) \/ DirectFails(t)
  \/ WriteRest(t) \/ SeekRaw(t) \/ Truncate(t)

BufferNext == \E t \in Callers : (\A u \in Callers \ {t} : ~HoldsGIL(u)) /\ CallStep(t)

BufferSpec == BufferInit /\ [][BufferNext]_bufferVars

-----------------------------------------------------------------------------
(* Properties.                                                             *)

\* The buffer is sound whenever no call is under way: its marks are in order,
\* and where bytes may be read from it the cached position of the raw stream,
\* which seek() trusts, is right (several methods move the raw stream without
\* telling it).
BufferSound ==
  /\ mem \in [1..BufferSize -> Bytes]
  /\ file \in Seq(Bytes)
  /\ owner = None =>
       /\ b.pos \in 0..BufferSize
       /\ VALID_READ_BUFFER => b.pos <= b.read_end
       /\ READAHEAD > 0 => b.abs_pos \in {-1, at}
       /\ VALID_WRITE_BUFFER => b.write_pos <= b.write_end /\ b.write_end <= BufferSize

\* Whatever is read, written, sought and flushed, in whatever order, and however
\* little the raw stream gives or takes at a time: the user sees one file with
\* one position.  Until a call returns he sees what was there when it began.
Seen == IF before = None THEN Logical ELSE before

File == INSTANCE AbstractFile WITH
  content <- Seen.content, position <- Seen.position, disk <- file,
  nonblocking <- use.nonblocking

ImplementsFile == File!Spec

\* truncate(): "The current stream position isn't changed."  (Not so after a
\* write larger than the buffer and a read, for files larger than MaxSize =
\* BufferSize + 1: such a write leaves write_end = 0, and flushing leaves
\* raw_pos as it is, so that RAW_OFFSET counts the read that was undone.)
TruncateKeepsPosition ==
  [][\A t \in Callers : Truncate(t) => Logical'.position = Seen.position]_bufferVars
=============================================================================
