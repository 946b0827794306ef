------------------------------- MODULE Buffer -------------------------------
(***************************************************************************)
(* A struct buffer of lib/buffer.c: its block of memory, its two indices   *)
(* and its size.  A buffer belongs to one connection, or to one reply      *)
(* being built, and only the thread of that connection's loop uses it:     *)
(* every operation is one step.  Memory outside the block is not modelled: *)
(* an operation that writes there ends the model.                          *)
(***************************************************************************)
EXTENDS Naturals, Sequences

CONSTANTS
  Byte,             \* the bytes users put in
  Junk,             \* what malloc and realloc leave uninitialized
  INIT_BUFFER_SIZE,
  MaxChunk,         \* the most bytes of one append, of one read and of one readv
  IntMax,           \* no total_size above it: the model stops short of overflow
  AllocMayFail      \* whether realloc may return NULL

ASSUME BufferAssumption ==
  /\ INIT_BUFFER_SIZE \in Nat \ {0}
  /\ MaxChunk \in Nat \ {0}
  /\ IntMax \in Nat
  /\ AllocMayFail \in BOOLEAN

VARIABLES
  buf,     \* the struct buffer; buf.data[i] is the byte at offset i
  given,   \* the bytes the last operation had from the user, unless it overran
  taken,   \* the bytes the last operation gave to the user
  peak,    \* history: the most bytes the buffer ever held
  memory   \* "intact", or "overrun" once a write left the block

vars == <<buf, given, taken, peak, memory>>

\* struct buffer, with a block of n bytes.
Buf(n) == [data: [0 .. n - 1 -> Byte \cup {Junk}],
           read_index: Nat, write_index: Nat, total_size: {n}]

Block(d, r, w, n) ==
  [data |-> d, read_index |-> r, write_index |-> w, total_size |-> n]

buffer_new ==
  Block([i \in 0 .. INIT_BUFFER_SIZE - 1 |-> Junk], 0, 0, INIT_BUFFER_SIZE)

Init ==
  /\ buf = buffer_new
  /\ given = <<>>
  /\ taken = <<>>
  /\ peak = 0
  /\ memory = "intact"

buffer_writeable_size(b) == b.total_size - b.write_index
buffer_readable_size(b) == b.write_index - b.read_index
buffer_front_spare_size(b) == b.read_index

-----------------------------------------------------------------------------
\* Slips, one per property, are defined before the definition they are a slip
\* in and used nowhere: with the slip in its place, the property fails.
\* Slip: the indices move to the front, the bytes do not.
Compacted_IndicesOnly(b) ==
  Block(b.data, 0, buffer_readable_size(b), b.total_size)

\* Slip: the read index stays where it was.
Compacted_ReadIndexKept(b) ==
  Block([i \in 0 .. b.total_size - 1 |->
           IF i < buffer_readable_size(b) THEN b.data[b.read_index + i]
                                          ELSE b.data[i]],
        b.read_index, buffer_readable_size(b), b.total_size)

\* The loop copies byte by byte, upwards: that source and target overlap does
\* no harm.
Compacted(b) ==
  Block([i \in 0 .. b.total_size - 1 |->
           IF i < buffer_readable_size(b) THEN b.data[b.read_index + i]
                                          ELSE b.data[i]],
        0, buffer_readable_size(b), b.total_size)

\* realloc leaves the bytes where they are in the block.
Grown(b, size) ==
  Block([i \in 0 .. b.total_size + size - 1 |->
           IF i < b.total_size THEN b.data[i] ELSE Junk],
        b.read_index, b.write_index, b.total_size + size)

\* Slip: the free bytes may be one too few.
make_room_OneShort(b, size) ==
  IF buffer_writeable_size(b) >= size THEN {b}
  ELSE IF buffer_front_spare_size(b) + buffer_writeable_size(b) + 1 >= size
       THEN {Compacted(b)}
       ELSE {Grown(b, size)}

\* Slip: the spare bytes at the front are forgotten.
make_room_GrowOnly(b, size) ==
  IF buffer_writeable_size(b) >= size THEN {b} ELSE {Grown(b, size)}

\* What b may be afterwards; that realloc failed goes unreported.
make_room(b, size) ==
  IF buffer_writeable_size(b) >= size THEN {b}
  ELSE IF buffer_front_spare_size(b) + buffer_writeable_size(b) >= size
       THEN {Compacted(b)}
       ELSE {Grown(b, size)} \cup {x \in {b} : AllocMayFail}

\* b with s copied to its write index.
Written(b, s) ==
  Block([i \in 0 .. b.total_size - 1 |->
           IF b.write_index <= i /\ i < b.write_index + Len(s)
           THEN s[i - b.write_index + 1]
           ELSE b.data[i]],
        b.read_index, b.write_index + Len(s), b.total_size)

\* buf becomes b with s, the end of what the user gives, appended: make_room,
\* then the copy, which trusts that there is room.
AppendTo(b, s, gives) ==
  /\ taken' = <<>>
  /\ LET held == buffer_readable_size(b) + Len(s)
     IN peak' = IF held > peak THEN held ELSE peak
  /\ \E r \in make_room(b, Len(s)) :
       /\ r.total_size <= IntMax
       /\ IF buffer_writeable_size(r) >= Len(s)
          THEN buf' = Written(r, s) /\ given' = gives /\ UNCHANGED memory
          ELSE memory' = "overrun" /\ given' = <<>> /\ UNCHANGED buf

\* buffer_append, and buffer_append_string, which measures the string first.
buffer_append(s) == Len(s) > 0 /\ AppendTo(buf, s, s)

buffer_append_char(c) == AppendTo(buf, <<c>>, <<c>>)

\* readv fills the room behind the write index first, then a second buffer on
\* the stack, of INIT_BUFFER_SIZE bytes, which is appended.  (A readv that
\* fails, or finds that the peer has closed, changes nothing.)
buffer_socket_read(s) ==
  LET max_writable == buffer_writeable_size(buf)
  IN /\ Len(s) <= max_writable + INIT_BUFFER_SIZE
     /\ IF Len(s) <= max_writable
        THEN AppendTo(buf, s, s)
        ELSE AppendTo(Written(buf, SubSeq(s, 1, max_writable)),
                     SubSeq(s, max_writable + 1, Len(s)), s)

\* Slip: the copy starts one byte late.
Give_OneLate(n) ==
  /\ taken' = [i \in 1 .. n |-> buf.data[buf.read_index + i]]
  /\ given' = <<>>
  /\ buf' = [buf EXCEPT !.read_index = @ + n]
  /\ UNCHANGED <<peak, memory>>

\* The user gets the first n readable bytes.
Give(n) ==
  /\ taken' = [i \in 1 .. n |-> buf.data[buf.read_index + i - 1]]
  /\ given' = <<>>
  /\ buf' = [buf EXCEPT !.read_index = @ + n]
  /\ UNCHANGED <<peak, memory>>

\* size >= 1.  Also what the owner of a buffer does by hand when a write to the
\* socket took some of its bytes.
buffer_read(size) ==
  LET readable == buffer_readable_size(buf)
  IN /\ readable > 0
     /\ Give(IF size < readable THEN size ELSE readable)

buffer_read_char ==
  /\ buffer_readable_size(buf) > 0
  /\ Give(1)

-----------------------------------------------------------------------------
Chunk == UNION {[1 .. n -> Byte] : n \in 0 .. MaxChunk}

Next ==
  /\ memory = "intact"
  /\ \/ \E s \in Chunk : buffer_append(s)
     \/ \E c \in Byte : buffer_append_char(c)
     \/ \E s \in Chunk : buffer_socket_read(s)
     \/ \E size \in 1 .. MaxChunk : buffer_read(size)
     \/ buffer_read_char

Spec == Init /\ [][Next]_vars
-----------------------------------------------------------------------------
(* Properties                                                              *)

TypeOK ==
  /\ buf.total_size \in Nat
  /\ buf \in Buf(buf.total_size)
  /\ given \in Seq(Byte)
  /\ taken \in Seq(Byte)
  /\ peak \in Nat
  /\ memory \in {"intact", "overrun"}

\* The indices stay in order and inside the block, and what lies between them
\* was put there by a user.
InBlock(b) ==
  /\ b.read_index <= b.write_index
  /\ b.write_index <= b.total_size
  /\ \A i \in b.read_index .. b.write_index - 1 : b.data[i] \in Byte

IndicesInBlock == InBlock(buf)

\* As long as realloc succeeds make_room always makes room: no append writes
\* outside the block.
NeverOverrun == AllocMayFail \/ memory = "intact"

\* A buffer never takes more than twice the memory its contents ever needed,
\* for it grows only when moving its contents to the front does not help.
GrowthIsBounded ==
  buf.total_size <= INIT_BUFFER_SIZE \/ buf.total_size < 2 * peak

Contents(b) ==
  [i \in 1 .. buffer_readable_size(b) |-> b.data[b.read_index + i - 1]]

Q == INSTANCE ByteQueue WITH bytes <- Contents(buf)

\* No byte is lost, repeated or reordered, by compaction, by growth or by the
\* split of a readv over two buffers.
ImplementsByteQueue == Q!ByteQueueSpec
=============================================================================
