---------------------------- MODULE AbstractFile ----------------------------
(***************************************************************************)
(* What a binary stream promises its users, whatever it buffers: a         *)
(* sequence of bytes and one position that reads and writes share.  Each   *)
(* call takes effect in one step, which answer shows.  disk is what the    *)
(* raw stream holds; it may lag behind until flush() has returned.         *)
(***************************************************************************)
EXTENDS Integers, SequencesExt

CONSTANTS
  Requests,     \* the numbers of bytes that are asked for
  Payloads      \* the sequences of bytes that are written

VARIABLES
  nonblocking,  \* may a call give up because the raw stream would block?
  content, position, disk, answer

fileVars == <<nonblocking, content, position, disk, answer>>

\* The n bytes of s behind position p (positions count from 0).
Slice(s, p, n) == SubSeq(s, p + 1, p + n)

\* s with d written over it at position p <= Len(s).
Overlay(s, p, d) == SubSeq(s, 1, p) \o d \o SubSeq(s, p + Len(d) + 1, Len(s))

AtMost(m, n) == IF m < n THEN m ELSE n

Left == Len(content) - position

Answer(op, n, value) == [op |-> op, n |-> n, value |-> value]

\* read(n) and readinto(): the next n bytes, cut short only by the end of the
\* stream, or by one that would block; read1(n) needs to give no more than one.
Read(op, n) == \E k \in 0..AtMost(n, Left) :
  /\ \/ k = AtMost(n, Left)
     \/ k > 0 /\ (op = "read1" \/ nonblocking)
     \/ op = "read1" /\ nonblocking
  /\ answer' = Answer(op, n, Slice(content, position, k))
  /\ position' = position + k
  /\ UNCHANGED content

\* read(): all the rest.
ReadAll == \E k \in 0..Left :
  /\ k < Left => k > 0 /\ nonblocking
  /\ answer' = Answer("readall", 0, Slice(content, position, k))
  /\ position' = position + k
  /\ UNCHANGED content

\* peek(): some of the next bytes; they stay to be read.
Peek == \E k \in 0..Left :
  /\ k = 0 => Left = 0 \/ nonblocking
  /\ answer' = Answer("peek", 0, Slice(content, position, k))
  /\ UNCHANGED <<content, position>>

\* write(): the bytes replace what is behind the position, in their order.
\* If it fails or would block, some first ones of them may do so.
Write(data) == \E k \in 0..Len(data) :
  /\ content' = Overlay(content, position, SubSeq(data, 1, k))
  /\ position' = position + k
  /\ \/ k = Len(data) /\ answer' = Answer("write", k, <<>>)
     \/ nonblocking /\ answer' = Answer("blocked", k, <<>>)
     \/ answer' = Answer("error", 0, <<>>)

\* seek() and tell() give the position as the user sees it.
Seek ==
  /\ position' \in 0..Len(content)
  /\ answer' = Answer("seek", position', <<>>)
  /\ UNCHANGED content

Tell ==
  /\ answer' = Answer("tell", position, <<>>)
  /\ UNCHANGED <<content, position>>

\* flush(): everything written is on disk.
Flush ==
  /\ answer' = Answer("flush", 0, <<>>)
  /\ disk' = content
  /\ UNCHANGED <<content, position>>

\* truncate(): the stream ends at the position.
Truncate ==
  /\ answer' = Answer("truncate", position, <<>>)
  /\ content' = SubSeq(content, 1, position)
  /\ UNCHANGED position

\* A call fails: nothing is written, but a read may lose what it had got.
Fail ==
  /\ answer' = Answer("error", 0, <<>>)
  /\ position' \in position..Len(content)
  /\ UNCHANGED content

\* A call has done nothing because the raw stream would block.
WouldBlock ==
  /\ nonblocking
  /\ answer' \in {Answer("None", 0, <<>>), Answer("blocked", 0, <<>>)}
  /\ UNCHANGED <<content, position>>

\* A call begins.
Begin == answer' = Answer("none", 0, <<>>) /\ UNCHANGED <<content, position>>

\* Bytes reach the disk before a call returns.
WriteOut == UNCHANGED <<content, position, answer>>

Init == nonblocking \in BOOLEAN /\ content = disk /\ position \in 0..Len(content)

Call ==
  \/ \E op \in {"read", "readinto", "read1"}, n \in Requests : Read(op, n)
  \/ \E data \in Payloads : Write(data)
  \/ ReadAll \/ Peek \/ Seek \/ Tell \/ Flush \/ Truncate \/ Fail \/ WouldBlock
  \/ Begin \/ WriteOut

Next == Call /\ UNCHANGED nonblocking

Spec == Init /\ [][Next]_fileVars
=============================================================================
