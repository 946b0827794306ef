---------------------------- MODULE Buffer_proof ----------------------------
(***************************************************************************)
(* Proofs about Buffer, for every size of the block and every data: the    *)
(* indices stay in the block, the block grows only as it must, the buffer  *)
(* is a queue of bytes, and memmemx finds what stands in it.               *)
(***************************************************************************)
EXTENDS Search, Induction, SequenceTheorems, FiniteSetTheorems, TLAPS

WellFormed(b) ==
  /\ b.total_size \in Nat
  /\ b \in Buf(b.total_size)
  /\ InBlock(b)

Inv ==
  /\ WellFormed(buf)
  /\ given \in Seq(Byte)
  /\ taken \in Seq(Byte)
  /\ peak \in Nat
  /\ memory \in {"intact", "overrun"}
  /\ NeverOverrun
  /\ GrowthIsBounded

-----------------------------------------------------------------------------
(* Lemmas about the operators.                                             *)

\* The sizes of a well-formed buffer add up to its block.
LEMMA Sizes ==
  ASSUME NEW b, WellFormed(b)
  PROVE  /\ b.read_index \in Nat /\ b.write_index \in Nat
         /\ buffer_writeable_size(b) \in Nat
         /\ buffer_readable_size(b) \in Nat
         /\ b.write_index + buffer_writeable_size(b) = b.total_size
         /\ b.read_index + buffer_readable_size(b) = b.write_index
         /\ b.data \in [0 .. b.total_size - 1 -> Byte \cup {Junk}]
BY DEF WellFormed, InBlock, Buf, buffer_writeable_size, buffer_readable_size

\* The contents are a sequence of bytes, one for each readable byte.
LEMMA ContentsType ==
  ASSUME NEW b, WellFormed(b)
  PROVE  /\ Contents(b) \in Seq(Byte)
         /\ Len(Contents(b)) = buffer_readable_size(b)
         /\ \A i \in 1 .. buffer_readable_size(b) :
              Contents(b)[i] = b.data[b.read_index + i - 1]
<1>1. /\ b.read_index \in Nat /\ b.write_index \in Nat
      /\ buffer_readable_size(b) \in Nat
      /\ b.read_index + buffer_readable_size(b) = b.write_index
      /\ \A i \in b.read_index .. b.write_index - 1 : b.data[i] \in Byte
  BY Sizes DEF WellFormed, InBlock
<1>2. \A i \in 1 .. buffer_readable_size(b) : b.data[b.read_index + i - 1] \in Byte
  BY <1>1
<1> QED
  BY <1>1, <1>2 DEF Contents

\* Moving the contents to the front keeps them.
LEMMA CompactedKeeps ==
  ASSUME NEW b, WellFormed(b)
  PROVE  /\ WellFormed(Compacted(b))
         /\ Contents(Compacted(b)) = Contents(b)
         /\ Compacted(b).total_size = b.total_size
         /\ buffer_writeable_size(Compacted(b)) =
              b.read_index + buffer_writeable_size(b)
<1> DEFINE n == buffer_readable_size(b)
           c == Compacted(b)
<1>1. /\ b.read_index \in Nat /\ b.write_index \in Nat /\ b.total_size \in Nat
      /\ n \in Nat /\ n = b.write_index - b.read_index
      /\ b.write_index <= b.total_size
      /\ b.data \in [0 .. b.total_size - 1 -> Byte \cup {Junk}]
      /\ \A i \in b.read_index .. b.write_index - 1 : b.data[i] \in Byte
  BY Sizes DEF WellFormed, InBlock, buffer_readable_size
<1>2. /\ c.read_index = 0
      /\ c.write_index = n
      /\ c.total_size = b.total_size
      /\ c.data = [i \in 0 .. b.total_size - 1 |->
                     IF i < n THEN b.data[b.read_index + i] ELSE b.data[i]]
  BY DEF Compacted, Block, n, c
<1> HIDE DEF n, c
<1>3. c.data \in [0 .. b.total_size - 1 -> Byte \cup {Junk}]
  <2>1. \A i \in 0 .. b.total_size - 1 : i < n => b.read_index + i \in 0 .. b.total_size - 1
    BY <1>1
  <2>2. \A i \in 0 .. b.total_size - 1 :
          (IF i < n THEN b.data[b.read_index + i] ELSE b.data[i]) \in Byte \cup {Junk}
    BY <1>1, <2>1
  <2> QED
    BY <1>2, <2>2
<1>4. c \in Buf(b.total_size)
  BY <1>1, <1>2, <1>3 DEF Buf, Compacted, Block, c, n
<1>5. \A i \in 0 .. n - 1 : c.data[i] = b.data[b.read_index + i]
  BY <1>1, <1>2
<1>6. WellFormed(c)
  <2>1. \A i \in 0 .. n - 1 : b.read_index + i \in b.read_index .. b.write_index - 1
    BY <1>1
  <2>2. \A i \in 0 .. n - 1 : c.data[i] \in Byte
    BY <1>1, <1>5, <2>1
  <2>3. n <= b.total_size
    BY <1>1
  <2>4. /\ c.read_index <= c.write_index
        /\ c.write_index <= c.total_size
    BY <1>1, <1>2, <2>3
  <2>5. \A i \in c.read_index .. c.write_index - 1 : c.data[i] \in Byte
    BY <1>2, <2>2
  <2>6. InBlock(c)
    BY <2>4, <2>5 DEF InBlock
  <2> QED
    BY <1>1, <1>2, <1>4, <2>6 DEF WellFormed
<1>7. buffer_readable_size(c) = n
  BY <1>1, <1>2 DEF buffer_readable_size
<1>8. Contents(c) = Contents(b)
  BY <1>1, <1>2, <1>5, <1>7 DEF Contents, n
<1>9. buffer_writeable_size(c) = b.read_index + buffer_writeable_size(b)
  BY <1>1, <1>2 DEF buffer_writeable_size
<1> QED
  BY <1>2, <1>6, <1>8, <1>9 DEF c

\* Growing keeps the contents.
LEMMA GrownKeeps ==
  ASSUME NEW b, WellFormed(b), NEW size \in Nat
  PROVE  /\ WellFormed(Grown(b, size))
         /\ Contents(Grown(b, size)) = Contents(b)
         /\ Grown(b, size).total_size = b.total_size + size
         /\ buffer_writeable_size(Grown(b, size)) = buffer_writeable_size(b) + size
<1> DEFINE g == Grown(b, size)
<1>1. /\ b.read_index \in Nat /\ b.write_index \in Nat /\ b.total_size \in Nat
      /\ b.read_index <= b.write_index
      /\ b.write_index <= b.total_size
      /\ b.data \in [0 .. b.total_size - 1 -> Byte \cup {Junk}]
      /\ \A i \in b.read_index .. b.write_index - 1 : b.data[i] \in Byte
      /\ b \in Buf(b.total_size)
  BY Sizes DEF WellFormed, InBlock
<1>2. /\ g.read_index = b.read_index
      /\ g.write_index = b.write_index
      /\ g.total_size = b.total_size + size
      /\ g.data = [i \in 0 .. b.total_size + size - 1 |->
                     IF i < b.total_size THEN b.data[i] ELSE Junk]
  BY DEF Grown, Block
<1> HIDE DEF g
<1>3. g.data \in [0 .. b.total_size + size - 1 -> Byte \cup {Junk}]
  BY <1>1, <1>2
<1>4. g \in Buf(b.total_size + size)
  BY <1>1, <1>2, <1>3 DEF Buf, Grown, Block, g
<1>5. \A i \in b.read_index .. b.write_index - 1 : g.data[i] = b.data[i]
  BY <1>1, <1>2
<1>6. WellFormed(g)
  BY SMTT(30), <1>1, <1>2, <1>4, <1>5 DEF WellFormed, InBlock
<1>7. buffer_readable_size(g) = buffer_readable_size(b)
  BY <1>2 DEF buffer_readable_size
<1>8. Contents(g) = Contents(b)
  <2>1. \A i \in 1 .. buffer_readable_size(b) :
          g.data[b.read_index + i - 1] = b.data[b.read_index + i - 1]
    BY SMTT(30), <1>1, <1>5 DEF buffer_readable_size
  <2> QED
    BY <1>2, <1>7, <2>1 DEF Contents
<1>9. buffer_writeable_size(g) = buffer_writeable_size(b) + size
  BY <1>1, <1>2 DEF buffer_writeable_size
<1> QED
  BY <1>2, <1>6, <1>8, <1>9 DEF g

\* make_room keeps the contents, makes room unless realloc fails, and grows
\* the block only when its free bytes together are too few.
LEMMA MakeRoom ==
  ASSUME NEW b, WellFormed(b), NEW size \in Nat, NEW r \in make_room(b, size)
  PROVE  /\ WellFormed(r)
         /\ Contents(r) = Contents(b)
         /\ AllocMayFail \/ buffer_writeable_size(r) >= size
         /\ \/ r.total_size = b.total_size
            \/ /\ r.total_size = b.total_size + size
               /\ b.total_size < buffer_readable_size(b) + size
<1>1. /\ b.read_index \in Nat /\ b.write_index \in Nat /\ b.total_size \in Nat
      /\ buffer_writeable_size(b) = b.total_size - b.write_index
      /\ buffer_readable_size(b) = b.write_index - b.read_index
      /\ buffer_writeable_size(b) \in Nat
  BY Sizes DEF buffer_writeable_size, buffer_readable_size, WellFormed
<1>2. CASE buffer_writeable_size(b) >= size
  BY <1>2 DEF make_room
<1>3. CASE /\ ~(buffer_writeable_size(b) >= size)
           /\ b.read_index + buffer_writeable_size(b) >= size
  BY <1>1, <1>3, CompactedKeeps DEF make_room, buffer_front_spare_size
<1>4. CASE /\ ~(buffer_writeable_size(b) >= size)
           /\ ~(b.read_index + buffer_writeable_size(b) >= size)
  <2>1. \/ r = Grown(b, size)
        \/ r = b /\ AllocMayFail
    BY <1>4 DEF make_room, buffer_front_spare_size
  <2>2. CASE r = Grown(b, size)
    <3>1. b.total_size < buffer_readable_size(b) + size
      BY <1>1, <1>4
    <3>2. buffer_writeable_size(b) + size >= size
      BY <1>1
    <3> QED
      BY <2>2, <3>1, <3>2, GrownKeeps
  <2> QED
    BY <2>1, <2>2
<1> QED
  BY <1>2, <1>3, <1>4

\* Copying s into the room behind the contents appends it to them.
LEMMA WrittenAppends ==
  ASSUME NEW b, WellFormed(b), NEW s \in Seq(Byte),
         buffer_writeable_size(b) >= Len(s)
  PROVE  /\ WellFormed(Written(b, s))
         /\ Contents(Written(b, s)) = Contents(b) \o s
         /\ Written(b, s).total_size = b.total_size
         /\ buffer_readable_size(Written(b, s)) = buffer_readable_size(b) + Len(s)
<1> DEFINE w == Written(b, s)
<1>1. /\ b.read_index \in Nat /\ b.write_index \in Nat /\ b.total_size \in Nat
      /\ b.read_index <= b.write_index
      /\ b.write_index + Len(s) <= b.total_size
      /\ b.data \in [0 .. b.total_size - 1 -> Byte \cup {Junk}]
      /\ \A i \in b.read_index .. b.write_index - 1 : b.data[i] \in Byte
      /\ b \in Buf(b.total_size)
      /\ Len(s) \in Nat
      /\ \A i \in 1 .. Len(s) : s[i] \in Byte
  <2>1. Len(s) \in Nat /\ \A i \in 1 .. Len(s) : s[i] \in Byte
    BY LenProperties, ElementOfSeq
  <2>2. /\ b.read_index \in Nat /\ b.write_index \in Nat /\ b.total_size \in Nat
        /\ b.data \in [0 .. b.total_size - 1 -> Byte \cup {Junk}]
        /\ b \in Buf(b.total_size)
        /\ InBlock(b)
    BY Sizes DEF WellFormed
  <2>3. b.write_index + Len(s) <= b.total_size
    BY <2>1, <2>2 DEF buffer_writeable_size
  <2> QED
    BY <2>1, <2>2, <2>3 DEF InBlock
<1>2. /\ w.read_index = b.read_index
      /\ w.write_index = b.write_index + Len(s)
      /\ w.total_size = b.total_size
      /\ w.data = [i \in 0 .. b.total_size - 1 |->
                     IF b.write_index <= i /\ i < b.write_index + Len(s)
                     THEN s[i - b.write_index + 1]
                     ELSE b.data[i]]
  BY DEF Written, Block
<1> HIDE DEF w
<1>3. w.data \in [0 .. b.total_size - 1 -> Byte \cup {Junk}]
  BY <1>1, <1>2
<1>4. w \in Buf(b.total_size)
  BY <1>1, <1>2, <1>3 DEF Buf, Written, Block, w
<1>5. /\ \A i \in b.read_index .. b.write_index - 1 : w.data[i] = b.data[i]
      /\ \A i \in b.write_index .. b.write_index + Len(s) - 1 :
           w.data[i] = s[i - b.write_index + 1]
  <2>1. ASSUME NEW i \in b.read_index .. b.write_index - 1
        PROVE  w.data[i] = b.data[i]
    <3>1. i \in 0 .. b.total_size - 1 /\ ~(b.write_index <= i)
      BY <1>1
    <3> QED
      BY <1>2, <3>1
  <2>2. ASSUME NEW i \in b.write_index .. b.write_index + Len(s) - 1
        PROVE  w.data[i] = s[i - b.write_index + 1]
    <3>1. /\ i \in 0 .. b.total_size - 1
          /\ b.write_index <= i /\ i < b.write_index + Len(s)
      BY <1>1
    <3> QED
      BY <1>2, <3>1
  <2> QED
    BY <2>1, <2>2
<1>6. WellFormed(w)
  BY SMTT(30), <1>1, <1>2, <1>4, <1>5 DEF WellFormed, InBlock
<1>7. buffer_readable_size(w) = buffer_readable_size(b) + Len(s)
  BY <1>1, <1>2 DEF buffer_readable_size
<1>8. Contents(w) = Contents(b) \o s
  <2>1. /\ Contents(w) \in Seq(Byte)
        /\ Len(Contents(w)) = buffer_readable_size(w)
        /\ \A i \in 1 .. buffer_readable_size(w) :
             Contents(w)[i] = w.data[w.read_index + i - 1]
    BY <1>6, ContentsType
  <2>2. /\ Contents(b) \in Seq(Byte)
        /\ Len(Contents(b)) = buffer_readable_size(b)
        /\ \A i \in 1 .. buffer_readable_size(b) :
             Contents(b)[i] = b.data[b.read_index + i - 1]
    BY ContentsType
  <2>3. /\ Contents(b) \o s \in Seq(Byte)
        /\ Len(Contents(b) \o s) = Len(Contents(b)) + Len(s)
        /\ \A i \in 1 .. Len(Contents(b)) + Len(s) :
             (Contents(b) \o s)[i] = IF i <= Len(Contents(b)) THEN Contents(b)[i]
                                     ELSE s[i - Len(Contents(b))]
    BY <2>2, ConcatProperties
  <2>4. \A i \in 1 .. buffer_readable_size(w) :
          Contents(w)[i] = (Contents(b) \o s)[i]
    <3> SUFFICES ASSUME NEW i \in 1 .. buffer_readable_size(w)
                 PROVE  Contents(w)[i] = (Contents(b) \o s)[i]
      OBVIOUS
    <3> DEFINE n == buffer_readable_size(b)
    <3>1. n \in Nat /\ n = b.write_index - b.read_index /\ i \in 1 .. n + Len(s)
      BY <1>7, Sizes DEF buffer_readable_size
    <3> HIDE DEF n
    <3>2. Contents(w)[i] = w.data[b.read_index + i - 1]
      BY <1>2, <2>1
    <3>3. CASE i <= n
      <4>1. b.read_index + i - 1 \in b.read_index .. b.write_index - 1 /\ i \in 1 .. n
        BY SMTT(30), <1>1, <3>1, <3>3
      <4>2. Contents(w)[i] = b.data[b.read_index + i - 1]
        BY <1>5, <3>2, <4>1
      <4> QED
        BY <2>2, <2>3, <3>1, <3>3, <4>1, <4>2 DEF n
    <3>4. CASE ~(i <= n)
      <4> DEFINE j == b.read_index + i - 1
      <4>1. /\ j \in b.write_index .. b.write_index + Len(s) - 1
            /\ j - b.write_index + 1 = i - n
        <5>1. /\ b.read_index \in Nat /\ b.write_index \in Nat /\ Len(s) \in Nat
              /\ n \in Nat /\ n = b.write_index - b.read_index
              /\ i \in Nat /\ 1 <= i /\ i <= n + Len(s) /\ n < i
          BY <1>1, <3>1, <3>4
        <5> QED
          BY SMTT(30), <5>1
      <4> HIDE DEF j
      <4>2. w.data[j] = s[i - n]
        BY <1>5, <4>1
      <4>3. Contents(w)[i] = s[i - n]
        BY <3>2, <4>2 DEF j
      <4> QED
        BY <2>2, <2>3, <3>1, <3>4, <4>3 DEF n
    <3> QED
      BY <3>3, <3>4
  <2> QED
    BY <1>7, <2>1, <2>2, <2>3, <2>4, SeqEqual
<1> QED
  BY <1>2, <1>6, <1>7, <1>8 DEF w

-----------------------------------------------------------------------------
(* The steps.                                                              *)

\* What appending s to a well-formed block comes to.
LEMMA AppendStep ==
  ASSUME NEW b, WellFormed(b), NEW s \in Seq(Byte), NEW gives \in Seq(Byte),
         AppendTo(b, s, gives), Inv,
         memory = "intact",
         b.total_size = buf.total_size
  PROVE  /\ Inv'
         /\ taken' = <<>>
         /\ \/ Contents(buf)' = Contents(b) \o s /\ given' = gives
            \/ UNCHANGED buf /\ given' = <<>>
<1> DEFINE held == buffer_readable_size(b) + Len(s)
<1>1. Len(s) \in Nat /\ buffer_readable_size(b) \in Nat /\ b.total_size \in Nat
  BY Sizes, LenProperties DEF WellFormed
<1>2. peak \in Nat /\ peak' \in Nat /\ peak' >= peak /\ peak' >= held
  BY <1>1 DEF AppendTo, Inv
<1>3. taken' = <<>> /\ taken' \in Seq(Byte)
  BY DEF AppendTo
<1>4. PICK r \in make_room(b, Len(s)) :
        IF buffer_writeable_size(r) >= Len(s)
        THEN buf' = Written(r, s) /\ given' = gives /\ UNCHANGED memory
        ELSE memory' = "overrun" /\ given' = <<>> /\ UNCHANGED buf
  BY DEF AppendTo
<1>5. /\ WellFormed(r)
      /\ Contents(r) = Contents(b)
      /\ AllocMayFail \/ buffer_writeable_size(r) >= Len(s)
      /\ \/ r.total_size = b.total_size
         \/ /\ r.total_size = b.total_size + Len(s)
            /\ b.total_size < buffer_readable_size(b) + Len(s)
  BY <1>1, <1>4, MakeRoom
<1>6. CASE buffer_writeable_size(r) >= Len(s)
  <2>1. /\ WellFormed(buf')
        /\ Contents(buf') = Contents(b) \o s
        /\ buf'.total_size = r.total_size
    BY <1>4, <1>5, <1>6, WrittenAppends
  <2>2. memory' = memory /\ given' = gives
    BY <1>4, <1>6
  <2>3. GrowthIsBounded'
    BY SMTT(30), <1>1, <1>2, <1>5, <2>1, BufferAssumption DEF Inv, GrowthIsBounded
  <2> QED
    BY <1>2, <1>3, <2>1, <2>2, <2>3 DEF Inv, NeverOverrun
<1>7. CASE ~(buffer_writeable_size(r) >= Len(s))
  <2>1. memory' = "overrun" /\ given' = <<>> /\ UNCHANGED buf /\ AllocMayFail
    BY <1>4, <1>5, <1>7
  <2>2. GrowthIsBounded'
    BY <1>1, <1>2, <2>1, BufferAssumption DEF Inv, GrowthIsBounded
  <2> QED
    BY <1>2, <1>3, <2>1, <2>2 DEF Inv, NeverOverrun
<1> QED
  BY <1>6, <1>7

\* A chunk is a sequence of bytes.
LEMMA ChunkIsSeq == \A s \in Chunk : s \in Seq(Byte)
BY BufferAssumption DEF Chunk

\* What a readv comes to: the two parts of s are appended one after the other.
LEMMA SocketReadStep ==
  ASSUME Inv, memory = "intact", NEW s \in Seq(Byte), buffer_socket_read(s)
  PROVE  /\ Inv'
         /\ taken' = <<>>
         /\ \/ Contents(buf)' = Contents(buf) \o s /\ given' = s
            \/ UNCHANGED buf /\ given' = <<>>
<1> DEFINE n == buffer_writeable_size(buf)
           s1 == SubSeq(s, 1, n)
           s2 == SubSeq(s, n + 1, Len(s))
<1>1. WellFormed(buf) /\ n \in Nat /\ Len(s) \in Nat
  BY Sizes, LenProperties DEF Inv
<1>2. CASE Len(s) <= n
  BY <1>1, <1>2, AppendStep DEF buffer_socket_read
<1>3. CASE ~(Len(s) <= n)
  <2>1. s1 \in Seq(Byte) /\ s2 \in Seq(Byte) /\ Len(s1) = n /\ s = s1 \o s2
    <3>1. \A i \in 1 .. Len(s) : s[i] \in Byte
      BY ElementOfSeq
    <3>2. s1 \in Seq(Byte) /\ Len(s1) = n
      BY <1>1, <1>3, <3>1, SubSeqProperties
    <3>3. s2 \in Seq(Byte)
      BY <1>1, <1>3, <3>1, SubSeqProperties
    <3>4. s1 \o s2 = SubSeq(s, 1, Len(s))
      BY <1>1, <1>3, ConcatAdjacentSubSeq
    <3> QED
      BY <3>2, <3>3, <3>4, SubSeqFull
  <2>2. /\ WellFormed(Written(buf, s1))
        /\ Contents(Written(buf, s1)) = Contents(buf) \o s1
        /\ Written(buf, s1).total_size = buf.total_size
    <3>1. n >= Len(s1)
      BY <1>1, <2>1
    <3> QED
      BY <1>1, <2>1, <3>1, WrittenAppends
  <2>3. AppendTo(Written(buf, s1), s2, s)
    BY <1>3 DEF buffer_socket_read
  <2>4. /\ Inv'
        /\ taken' = <<>>
        /\ \/ Contents(buf)' = (Contents(buf) \o s1) \o s2 /\ given' = s
           \/ UNCHANGED buf /\ given' = <<>>
    BY <2>1, <2>2, <2>3, AppendStep
  <2>5. (Contents(buf) \o s1) \o s2 = Contents(buf) \o (s1 \o s2)
    <3>1. Contents(buf) \in Seq(Byte)
      BY <1>1, ContentsType
    <3> HIDE DEF s1, s2
    <3> QED
      BY <2>1, <3>1, ConcatAssociative
  <2> QED
    BY <2>1, <2>4, <2>5
<1> QED
  BY <1>2, <1>3

\* What giving the user n bytes comes to.
LEMMA GiveStep ==
  ASSUME Inv, NEW n \in Nat, n <= buffer_readable_size(buf), Give(n)
  PROVE  /\ Inv'
         /\ given' = <<>>
         /\ taken' = SubSeq(Contents(buf), 1, n)
         /\ Contents(buf)' = SubSeq(Contents(buf), n + 1, Len(Contents(buf)))
<1> DEFINE m == buffer_readable_size(buf)
           c == Contents(buf)
<1>1. /\ WellFormed(buf)
      /\ buf.read_index \in Nat /\ buf.write_index \in Nat /\ m \in Nat
      /\ buf.read_index + m = buf.write_index
      /\ n <= m
      /\ c \in Seq(Byte) /\ Len(c) = m
      /\ \A i \in 1 .. m : c[i] = buf.data[buf.read_index + i - 1] /\ c[i] \in Byte
  BY Sizes, ContentsType, ElementOfSeq DEF Inv
<1>2. /\ buf'.data = buf.data
      /\ buf'.read_index = buf.read_index + n
      /\ buf'.write_index = buf.write_index
      /\ buf'.total_size = buf.total_size
      /\ buf' \in Buf(buf.total_size)
  <2>1. buf \in Buf(buf.total_size)
    BY <1>1 DEF WellFormed
  <2>2. buf' = [buf EXCEPT !.read_index = buf.read_index + n]
    BY DEF Give
  <2> QED
    BY <1>1, <2>1, <2>2 DEF Buf
<1> HIDE DEF m, c
<1>3. WellFormed(buf')
  BY <1>1, <1>2 DEF WellFormed, InBlock
<1>4. /\ taken' = [i \in 1 .. n |-> c[i]]
      /\ taken' \in Seq(Byte)
  <2>1. taken' = [i \in 1 .. n |-> buf.data[buf.read_index + i - 1]]
    BY DEF Give
  <2>2. \A i \in 1 .. n : buf.data[buf.read_index + i - 1] = c[i] /\ c[i] \in Byte
    BY <1>1
  <2>3. taken' = [i \in 1 .. n |-> c[i]]
    BY <2>1, <2>2
  <2>4. \A i \in 1 .. n : c[i] \in Byte
    BY <2>2
  <2>5. [i \in 1 .. n |-> c[i]] \in Seq(Byte)
    BY <2>4
  <2> QED
    BY <2>3, <2>5
<1>5. taken' = SubSeq(c, 1, n)
  BY <1>1, <1>4, SubSeqProperties, SeqEqual
<1>6. Contents(buf') = SubSeq(c, n + 1, Len(c))
  <2>1. buffer_readable_size(buf') = m - n
    BY <1>1, <1>2 DEF buffer_readable_size
  <2>2. /\ Contents(buf') \in Seq(Byte)
        /\ Len(Contents(buf')) = m - n
        /\ \A i \in 1 .. m - n :
             Contents(buf')[i] = buf.data[buf.read_index + n + i - 1]
    BY <1>2, <1>3, <2>1, ContentsType
  <2>3. /\ SubSeq(c, n + 1, m) \in Seq(Byte)
        /\ Len(SubSeq(c, n + 1, m)) = m - n
        /\ \A i \in 1 .. m - n : SubSeq(c, n + 1, m)[i] = c[n + i]
    <3>1. /\ SubSeq(c, n + 1, m) \in Seq(Byte)
          /\ Len(SubSeq(c, n + 1, m)) = IF n + 1 <= m THEN m - (n + 1) + 1 ELSE 0
          /\ \A i \in 1 .. m - (n + 1) + 1 : SubSeq(c, n + 1, m)[i] = c[n + 1 + i - 1]
      BY <1>1, SubSeqProperties
    <3>2. m - (n + 1) + 1 = m - n /\ \A i \in 1 .. m - n : n + 1 + i - 1 = n + i
      BY <1>1
    <3> QED
      BY <1>1, <3>1, <3>2
  <2>4. \A i \in 1 .. m - n : c[n + i] = buf.data[buf.read_index + n + i - 1]
    <3>1. \A i \in 1 .. m - n : /\ n + i \in 1 .. m
                                /\ buf.read_index + (n + i) - 1 = buf.read_index + n + i - 1
      BY <1>1
    <3> QED
      BY <1>1, <3>1
  <2>5. \A i \in 1 .. m - n : Contents(buf')[i] = SubSeq(c, n + 1, m)[i]
    BY <2>2, <2>3, <2>4
  <2>6. Contents(buf') = SubSeq(c, n + 1, m)
    BY <2>2, <2>3, <2>5, SeqEqual
  <2> QED
    BY <1>1, <2>6
<1>7. Inv' /\ given' = <<>>
  BY <1>2, <1>3, <1>4 DEF Inv, Give, NeverOverrun, GrowthIsBounded
<1> QED
  BY <1>5, <1>6, <1>7 DEF c

-----------------------------------------------------------------------------
(* The theorems.                                                           *)

\* A new buffer is well formed: no index has moved and nothing is readable.
THEOREM InitInv == Init => Inv
<1> SUFFICES ASSUME Init PROVE Inv
  OBVIOUS
<1>1. /\ buf.data = [i \in 0 .. INIT_BUFFER_SIZE - 1 |-> Junk]
      /\ buf.read_index = 0
      /\ buf.write_index = 0
      /\ buf.total_size = INIT_BUFFER_SIZE
  BY DEF Init, buffer_new, Block
<1>2. buf \in Buf(INIT_BUFFER_SIZE)
  BY BufferAssumption DEF Init, buffer_new, Block, Buf
<1>3. WellFormed(buf)
  BY <1>1, <1>2, BufferAssumption DEF WellFormed, InBlock
<1>4. GrowthIsBounded
  BY <1>1, BufferAssumption DEF GrowthIsBounded
<1> QED
  BY <1>3, <1>4 DEF Init, Inv, NeverOverrun

\* What a step comes to, whichever operation it is: the invariant is kept and
\* either bytes were put at the end or the first ones were taken.
LEMMA Step ==
  ASSUME Inv, Next
  PROVE  /\ Inv'
         /\ \/ /\ taken' = <<>>
               /\ \/ Contents(buf)' = Contents(buf) \o given' /\ given' \in Seq(Byte)
                  \/ UNCHANGED buf /\ given' = <<>>
            \/ \E n \in 0 .. buffer_readable_size(buf) :
                 /\ given' = <<>>
                 /\ taken' = SubSeq(Contents(buf), 1, n)
                 /\ Contents(buf)' = SubSeq(Contents(buf), n + 1, Len(Contents(buf)))
<1>1. memory = "intact" /\ WellFormed(buf) /\ buffer_readable_size(buf) \in Nat
  BY Sizes DEF Next, Inv
<1>2. CASE \E s \in Chunk : buffer_append(s)
  <2>1. PICK s \in Chunk : buffer_append(s)
    BY <1>2
  <2> QED
    BY <1>1, <2>1, ChunkIsSeq, AppendStep DEF buffer_append
<1>3. CASE \E c \in Byte : buffer_append_char(c)
  <2>1. PICK c \in Byte : buffer_append_char(c)
    BY <1>3
  <2>2. <<c>> \in Seq(Byte)
    OBVIOUS
  <2> QED
    BY <1>1, <2>1, <2>2, AppendStep DEF buffer_append_char
<1>4. CASE \E s \in Chunk : buffer_socket_read(s)
  <2>1. PICK s \in Chunk : buffer_socket_read(s)
    BY <1>4
  <2> QED
    BY <1>1, <2>1, ChunkIsSeq, SocketReadStep
<1>5. CASE \E size \in 1 .. MaxChunk : buffer_read(size)
  <2>1. PICK size \in 1 .. MaxChunk : buffer_read(size)
    BY <1>5
  <2> DEFINE readable == buffer_readable_size(buf)
             n == IF size < readable THEN size ELSE readable
  <2>2. Give(n)
    BY <2>1 DEF buffer_read
  <2>3. n \in Nat /\ n <= readable
    BY <1>1, BufferAssumption
  <2> HIDE DEF n
  <2>4. n \in 0 .. buffer_readable_size(buf)
    BY <1>1, <2>3
  <2> QED
    BY <2>2, <2>3, <2>4, GiveStep
<1>6. CASE buffer_read_char
  <2>1. Give(1) /\ 1 <= buffer_readable_size(buf)
    BY <1>1, <1>6 DEF buffer_read_char
  <2>2. 1 \in 0 .. buffer_readable_size(buf)
    BY <1>1, <2>1
  <2> QED
    BY <2>1, <2>2, GiveStep
<1> QED
  BY <1>2, <1>3, <1>4, <1>5, <1>6 DEF Next

\* Every operation on the buffer keeps the invariant.
THEOREM NextInv == Inv /\ [Next]_vars => Inv'
<1> SUFFICES ASSUME Inv, [Next]_vars PROVE Inv'
  OBVIOUS
<1>1. CASE Next
  BY <1>1, Step
<1>2. CASE UNCHANGED vars
  BY <1>2 DEF vars, Inv, WellFormed, Buf, InBlock, NeverOverrun, GrowthIsBounded
<1> QED
  BY <1>1, <1>2

\* Every state of every run of a buffer satisfies the invariant.
THEOREM Invariance == Spec => []Inv
BY InitInv, NextInv, PTL DEF Spec

\* The block always has total_size bytes and the indices are naturals.
THEOREM TypeCorrect == Spec => []TypeOK
<1>1. Inv => TypeOK
  BY DEF Inv, WellFormed, TypeOK
<1> QED
  BY <1>1, Invariance, PTL

\* The indices never leave the block or cross each other, and no byte between
\* them is uninitialized memory.
THEOREM InBounds == Spec => []IndicesInBlock
<1>1. Inv => IndicesInBlock
  BY DEF Inv, WellFormed, IndicesInBlock
<1> QED
  BY <1>1, Invariance, PTL

\* make_room makes the room the copy after it needs, as long as realloc does
\* not fail.
THEOREM NoOverrun == Spec => []NeverOverrun
<1>1. Inv => NeverOverrun
  BY DEF Inv
<1> QED
  BY <1>1, Invariance, PTL

\* The block is at most twice what the contents ever needed, whatever the
\* sequence of appends and reads.
THEOREM BoundedGrowth == Spec => []GrowthIsBounded
<1>1. Inv => GrowthIsBounded
  BY DEF Inv
<1> QED
  BY <1>1, Invariance, PTL

\* Init and each step map to the queue of bytes.
LEMMA InitSimulation == Init => Q!ByteQueueInit
<1> SUFFICES ASSUME Init PROVE Q!ByteQueueInit
  OBVIOUS
<1>1. WellFormed(buf) /\ buffer_readable_size(buf) = 0
      /\ given = <<>> /\ taken = <<>>
  BY InitInv DEF Inv, Init, buffer_new, Block, buffer_readable_size
<1>2. Contents(buf) \in Seq(Byte) /\ Len(Contents(buf)) = 0
  BY <1>1, ContentsType
<1> QED
  BY <1>1, <1>2, EmptySeq DEF Q!ByteQueueInit

\* A step puts bytes at the end or takes the first ones.
LEMMA StepSimulation == Inv /\ [Next]_vars => [Q!Put \/ Q!Take]_Q!bvars
<1> SUFFICES ASSUME Inv, [Next]_vars PROVE [Q!Put \/ Q!Take]_Q!bvars
  OBVIOUS
<1> DEFINE c == Contents(buf)
<1>1. c \in Seq(Byte) /\ Len(c) = buffer_readable_size(buf) /\ Len(c) \in Nat
  BY ContentsType, LenProperties DEF Inv
<1>2. CASE UNCHANGED vars
  BY <1>2 DEF vars, Q!bvars, Contents, buffer_readable_size
<1>3. CASE Next
  <2>1. CASE taken' = <<>> /\ c' = c \o given' /\ given' \in Seq(Byte)
    BY <2>1 DEF Q!Put
  <2>2. CASE taken' = <<>> /\ UNCHANGED buf /\ given' = <<>>
    <3>1. c' = c
      BY <2>2 DEF Contents, buffer_readable_size
    <3>2. c \o <<>> = c
      BY <1>1, ConcatEmptySeq
    <3> HIDE DEF c
    <3> QED
      BY <2>2, <3>1, <3>2, EmptySeq DEF Q!Put, c
  <2>3. CASE \E n \in 0 .. buffer_readable_size(buf) :
               /\ given' = <<>>
               /\ taken' = SubSeq(c, 1, n) /\ c' = SubSeq(c, n + 1, Len(c))
    BY <1>1, <2>3 DEF Q!Take
  <2> QED
    BY <1>3, <2>1, <2>2, <2>3, Step
<1> QED
  BY <1>2, <1>3

\* A buffer is a queue of bytes: whatever the compactions, growths and split
\* reads, what comes out is what went in, in order.
THEOREM Refinement == Spec => ImplementsByteQueue
<1>1. Spec => Q!ByteQueueInit /\ [][Q!Put \/ Q!Take]_Q!bvars
  BY InitSimulation, StepSimulation, Invariance, PTL DEF Spec
<1> QED
  BY <1>1 DEF ImplementsByteQueue, Q!ByteQueueSpec

-----------------------------------------------------------------------------
(* Searching.  The rounds of memmemx are a function that is defined by     *)
(* itself; that there is one follows from each round's looking only at     *)
(* what lies further on in the block.                                      *)

\* What a round of memmemx returns that leaves the others to g; and all rounds.
OneRound(data, haystack, needle, g, from, len) ==
  LET starts == Starts(data, from, len, needle)
      result == Min(starts)
      next == result + 1
  IN IF starts = {} THEN (IF len < 0 THEN Beyond ELSE Nothing)
     ELSE IF StandsAt(needle, result, data) THEN result
     ELSE g[next][len - (next - haystack)]

AllRounds(data, haystack, needle, g) ==
  [from \in Nat |-> [len \in Int |-> OneRound(data, haystack, needle, g, from, len)]]

LEMMA RoundAt ==
  ASSUME NEW data, NEW haystack, NEW needle, NEW g, NEW from \in Nat, NEW len \in Int
  PROVE  AllRounds(data, haystack, needle, g)[from][len] =
           OneRound(data, haystack, needle, g, from, len)
BY DEF AllRounds

\* Where memchr stops.
Stops(data, needle, from, len, r) ==
  Starts(data, from, len, needle) # {} /\ r = Min(Starts(data, from, len, needle))

LEMMA RoundStops ==
  ASSUME NEW data, NEW haystack \in Nat, NEW needle, NEW g, NEW from \in Nat,
         NEW len \in Int, NEW r \in Nat, Stops(data, needle, from, len, r)
  PROVE  /\ StandsAt(needle, r, data) => OneRound(data, haystack, needle, g, from, len) = r
         /\ ~StandsAt(needle, r, data) =>
              OneRound(data, haystack, needle, g, from, len) = g[r + 1][len - (r + 1 - haystack)]
BY DEF OneRound, Stops

Found == Nat \cup {Nothing, Beyond}
Searches == [Nat -> [Int -> Found]]

\* Where a round stops is in the block, not before from, and not behind any other
\* place it could have stopped at.
LEMMA StartsMin ==
  ASSUME NEW n \in Nat, NEW data, DOMAIN data = 0 .. n - 1, NEW needle,
         NEW from \in Nat, NEW len \in Int, Starts(data, from, len, needle) # {}
  PROVE  /\ Min(Starts(data, from, len, needle)) \in Starts(data, from, len, needle)
         /\ Min(Starts(data, from, len, needle)) \in Nat
         /\ from <= Min(Starts(data, from, len, needle))
         /\ Min(Starts(data, from, len, needle)) < n
         /\ \A i \in Starts(data, from, len, needle) :
              Min(Starts(data, from, len, needle)) <= i
<1> DEFINE T == Starts(data, from, len, needle)
<1>1. T # {} /\ T \subseteq Nat /\ \A i \in T : from <= i /\ i < n
  BY DEF Starts
<1>2. PICK m \in T : \A i \in T : m <= i
  <2> HIDE DEF T
  <2> QED
    BY <1>1, LeastElement
<1> HIDE DEF T
<1>3. Min(T) \in T /\ \A i \in T : Min(T) <= i
  BY <1>2 DEF Min
<1>4. Min(T) \in Nat /\ from <= Min(T) /\ Min(T) < n
  BY <1>1, <1>3
<1> QED
  BY <1>3, <1>4 DEF T

\* Behind the block there is nowhere to stop.
LEMMA StartsEnd ==
  ASSUME NEW n \in Nat, NEW data, DOMAIN data = 0 .. n - 1, NEW needle,
         NEW from \in Nat, n <= from, NEW len \in Int
  PROVE  Starts(data, from, len, needle) = {}
BY DEF Starts

LEMMA RoundType ==
  ASSUME NEW n \in Nat, NEW data, DOMAIN data = 0 .. n - 1, NEW needle,
         NEW haystack \in Nat, NEW g \in Searches
  PROVE  AllRounds(data, haystack, needle, g) \in Searches
<1> SUFFICES ASSUME NEW from \in Nat, NEW len \in Int
             PROVE  AllRounds(data, haystack, needle, g)[from][len] \in Found
  BY DEF AllRounds, Searches
<1> DEFINE T == Starts(data, from, len, needle)
<1>1. CASE T = {}
  BY <1>1, RoundAt DEF OneRound, Found
<1>2. CASE T # {}
  <2>1. PICK r \in Nat : r = Min(T)
    BY <1>2, StartsMin
  <2>2. r + 1 \in Nat /\ len - (r + 1 - haystack) \in Int
    OBVIOUS
  <2>3. g[r + 1][len - (r + 1 - haystack)] \in Found /\ r \in Found
    BY <2>2 DEF Searches, Found
  <2> HIDE DEF T
  <2>4. AllRounds(data, haystack, needle, g)[from][len] =
          IF StandsAt(needle, r, data) THEN r ELSE g[r + 1][len - (r + 1 - haystack)]
    BY <1>2, <2>1, RoundAt DEF OneRound, T
  <2> QED
    BY <2>3, <2>4
<1> QED
  BY <1>1, <1>2

\* A round depends only on the rounds that begin behind it.
LEMMA RoundLooksAhead ==
  ASSUME NEW n \in Nat, NEW data, DOMAIN data = 0 .. n - 1, NEW needle,
         NEW haystack \in Nat, NEW g \in Searches, NEW h \in Searches, NEW from \in Nat,
         \A next \in Nat : from < next => g[next] = h[next]
  PROVE  AllRounds(data, haystack, needle, g)[from] = AllRounds(data, haystack, needle, h)[from]
<1> SUFFICES ASSUME NEW len \in Int
             PROVE  AllRounds(data, haystack, needle, g)[from][len] =
                    AllRounds(data, haystack, needle, h)[from][len]
  BY DEF AllRounds
<1> DEFINE T == Starts(data, from, len, needle)
<1>1. CASE T = {}
  BY <1>1, RoundAt DEF OneRound
<1>2. CASE T # {}
  <2>1. PICK r \in Nat : r = Min(T) /\ from <= r
    BY <1>2, StartsMin
  <2>2. g[r + 1] = h[r + 1]
    BY <2>1
  <2> HIDE DEF T
  <2>3. /\ AllRounds(data, haystack, needle, g)[from][len] =
             IF StandsAt(needle, r, data) THEN r ELSE g[r + 1][len - (r + 1 - haystack)]
        /\ AllRounds(data, haystack, needle, h)[from][len] =
             IF StandsAt(needle, r, data) THEN r ELSE h[r + 1][len - (r + 1 - haystack)]
    BY <1>2, <2>1, RoundAt DEF OneRound, T
  <2> QED
    BY <2>2, <2>3
<1> QED
  BY <1>1, <1>2

\* The loop of memmemx as a function: each round as the definition has it.
LEMMA RoundsExist ==
  ASSUME NEW n \in Nat, NEW data, DOMAIN data = 0 .. n - 1, NEW needle,
         NEW haystack \in Nat
  PROVE  \E f \in Searches : f = AllRounds(data, haystack, needle, f)
<1> DEFINE first == [from \in Nat |-> [len \in Int |-> IF len < 0 THEN Beyond ELSE Nothing]]
           step == [k \in 1 .. n |-> [g \in Searches |-> AllRounds(data, haystack, needle, g)]]
<1>1. first \in Searches
  BY DEF Searches, Found
<1>2. step \in [1 .. n -> [Searches -> Searches]]
  BY RoundType
<1>3. PICK F \in [0 .. n -> Searches] : Follows(F, n, first, step)
  <2> HIDE DEF first, step
  <2> QED
    BY <1>1, <1>2, Recursion
<1>4. F[0] = first /\ \A k \in 1 .. n : F[k] = AllRounds(data, haystack, needle, F[k - 1])
  <2>1. F[0] = first /\ \A k \in 1 .. n : F[k] = step[k][F[k - 1]]
    BY <1>3 DEF Follows
  <2>2. ASSUME NEW k \in 1 .. n PROVE F[k - 1] \in Searches
    BY <1>3
  <2> HIDE DEF first
  <2> QED
    BY <2>1, <2>2
<1> DEFINE Settled(k) == \A from \in Nat :
             n - k <= from => F[k][from] = AllRounds(data, haystack, needle, F[k])[from]
           T == {k \in 0 .. n : Settled(k)}
<1>5. 0 \in T
  <2> SUFFICES ASSUME NEW from \in Nat, n <= from, NEW len \in Int
               PROVE  first[from][len] = AllRounds(data, haystack, needle, F[0])[from][len]
    <3>1. 0 \in 0 .. n /\ n - 0 = n
      OBVIOUS
    <3>2. \A from \in Nat : first[from] \in [Int -> Found]
      BY <1>1 DEF Searches
    <3>3. \A from \in Nat : first[from] = [len \in Int |-> first[from][len]]
      OBVIOUS
    <3>4. \A from \in Nat : AllRounds(data, haystack, needle, F[0])[from] =
                            [len \in Int |-> AllRounds(data, haystack, needle, F[0])[from][len]]
      BY DEF AllRounds
    <3>5. F[0] = first
      BY <1>4
    <3> HIDE DEF first
    <3>6. \A from \in Nat : n <= from =>
            first[from] = AllRounds(data, haystack, needle, F[0])[from]
      BY <3>3, <3>4
    <3> QED
      BY <3>1, <3>5, <3>6
  <2>1. Starts(data, from, len, needle) = {}
    BY StartsEnd
  <2> QED
    BY <2>1, RoundAt DEF OneRound
<1>6. ASSUME NEW k \in 0 .. n - 1, k \in T PROVE k + 1 \in T
  <2> SUFFICES ASSUME NEW from \in Nat, n - (k + 1) <= from
               PROVE  F[k + 1][from] = AllRounds(data, haystack, needle, F[k + 1])[from]
    OBVIOUS
  <2>1. k + 1 \in 1 .. n /\ (k + 1) - 1 = k
    OBVIOUS
  <2>2. F[k + 1] = AllRounds(data, haystack, needle, F[k])
    BY ONLY <1>4, <2>1
  <2>3. F[k] \in Searches /\ F[k + 1] \in Searches
    BY <1>3, <2>1
  <2>4. ASSUME NEW next \in Nat, from < next PROVE F[k][next] = F[k + 1][next]
    <3>1. n - k <= next
      BY <2>4
    <3>2. F[k][next] = AllRounds(data, haystack, needle, F[k])[next]
      BY <1>6, <3>1
    <3> QED
      BY <2>2, <3>2
  <2>5. PICK g \in Searches : g = F[k]
    BY <2>3
  <2>6. PICK h \in Searches : h = F[k + 1]
    BY <2>3
  <2>7. \A next \in Nat : from < next => g[next] = h[next]
    BY <2>4, <2>5, <2>6
  <2>8. AllRounds(data, haystack, needle, g)[from] = AllRounds(data, haystack, needle, h)[from]
    BY ONLY <2>7, RoundLooksAhead, n \in Nat, DOMAIN data = 0 .. n - 1, haystack \in Nat,
       from \in Nat
  <2> QED
    BY ONLY <2>2, <2>5, <2>6, <2>8
<1>7. Settled(n)
  <2>1. \A k \in 0 .. n - 1 : k \in T => k + 1 \in T
    BY <1>6
  <2>2. n \in T
    <3> HIDE DEF T
    <3>1. \A k \in 0 .. n : k \in T
      BY <1>5, <2>1, SetInduction
    <3> QED
      BY <3>1
  <2> QED
    BY <2>2
<1>8. F[n] = AllRounds(data, haystack, needle, F[n])
  <2>1. \A from \in Nat : F[n][from] = AllRounds(data, haystack, needle, F[n])[from]
    BY <1>7
  <2>2. F[n] \in Searches
    BY <1>3
  <2>3. PICK g \in Searches : g = F[n]
    BY <2>2
  <2>4. g \in Searches /\ AllRounds(data, haystack, needle, g) \in Searches
    BY RoundType
  <2>5. \A from \in Nat : g[from] = AllRounds(data, haystack, needle, g)[from]
    BY <2>1, <2>3
  <2>6. g = AllRounds(data, haystack, needle, g)
    BY ONLY <2>4, <2>5 DEF Searches
  <2> QED
    BY <2>3, <2>6
<1> QED
  BY <1>3, <1>8

\* What memmemx returns is what its first round does.
LEMMA Rounds ==
  ASSUME NEW n \in Nat, NEW data, DOMAIN data = 0 .. n - 1, NEW needle,
         NEW haystack \in Nat, NEW len \in Int
  PROVE  \E f : /\ f = AllRounds(data, haystack, needle, f)
                /\ memmemx(data, haystack, len, needle) =
                     IF len < Len(needle) THEN Nothing ELSE f[haystack][len]
<1> DEFINE f == CHOOSE f : f = AllRounds(data, haystack, needle, f)
<1>1. f = AllRounds(data, haystack, needle, f)
  BY RoundsExist
<1>2. memmemx(data, haystack, len, needle) =
        IF len < Len(needle) THEN Nothing ELSE f[haystack][len]
  BY DEF memmemx, AllRounds, OneRound
<1> QED
  BY <1>1, <1>2

\* A set of natural numbers with two of them has not one.
LEMMA TwoElements ==
  ASSUME NEW s \in Nat, NEW e \in Nat, NEW T, T \subseteq s .. e,
         NEW a \in T, NEW b \in T, a # b
  PROVE  ~(Cardinality(T) <= 1)
<1>1. IsFiniteSet(s .. e)
  BY FS_Interval
<1>2. IsFiniteSet(T)
  BY <1>1, FS_Subset
<1>3. IsFiniteSet({}) /\ Cardinality({}) = 0
  BY FS_EmptySet
<1>4. IsFiniteSet({a}) /\ Cardinality({a}) = 1
  <2>1. {} \cup {a} = {a} /\ a \notin {}
    OBVIOUS
  <2> QED
    BY <1>3, <2>1, FS_AddElement
<1>5. IsFiniteSet({a, b}) /\ Cardinality({a, b}) = 2
  <2>1. {a} \cup {b} = {a, b} /\ b \notin {a}
    OBVIOUS
  <2> QED
    BY <1>4, <2>1, FS_AddElement
<1>6. Cardinality({a, b}) <= Cardinality(T)
  <2>1. {a, b} \subseteq T
    OBVIOUS
  <2> QED
    BY <1>2, <2>1, FS_Subset
<1>7. Cardinality(T) \in Nat
  BY <1>2, FS_CardinalityType
<1> QED
  BY <1>5, <1>6, <1>7

\* The needle's first place in data[s .. e - 1] is no later than any other, and
\* there is none only if there is no place.
LEMMA FirstPlace ==
  ASSUME NEW s \in Nat, NEW e \in Nat, NEW data, NEW needle, Len(needle) \in {1, 2}
  PROVE  /\ First(data, s, e, needle) = Nothing =>
              \A i \in s .. e - Len(needle) : ~StandsAt(needle, i, data)
         /\ First(data, s, e, needle) # Nothing =>
              /\ First(data, s, e, needle) \in s .. e - Len(needle)
              /\ StandsAt(needle, First(data, s, e, needle), data)
         /\ \A r \in s .. e - Len(needle) :
              /\ StandsAt(needle, r, data)
              /\ \A i \in s .. e - Len(needle) : StandsAt(needle, i, data) => r <= i
              => First(data, s, e, needle) = r
         /\ (\A i \in s .. e - Len(needle) : ~StandsAt(needle, i, data)) =>
              First(data, s, e, needle) = Nothing
<1> DEFINE places == {i \in s .. e - Len(needle) : StandsAt(needle, i, data)}
<1>1. First(data, s, e, needle) = IF places = {} THEN Nothing ELSE Min(places)
  BY DEF First
<1>2. PICK last \in Int : last = e - Len(needle)
  OBVIOUS
<1>3. places \subseteq s .. last /\ places \subseteq Nat
  BY <1>2
<1>4. places # {} => \E m \in places : \A i \in places : m <= i
  <2> HIDE DEF places
  <2> QED
    BY <1>3, LeastElement
<1>5. places # {} => Min(places) \in places /\ \A i \in places : Min(places) <= i
  <2> HIDE DEF places
  <2> QED
    BY <1>4 DEF Min
<1>6. Nothing \notin Nat
  BY SearchAssumption
<1>7. ASSUME NEW r \in s .. e - Len(needle), StandsAt(needle, r, data),
             \A i \in s .. e - Len(needle) : StandsAt(needle, i, data) => r <= i
      PROVE  First(data, s, e, needle) = r
  <2>1. r \in places /\ \A i \in places : r <= i
    BY <1>7
  <2> HIDE DEF places
  <2>2. PICK m : m = Min(places)
    OBVIOUS
  <2>3. m \in places /\ m <= r /\ r <= m /\ m \in Nat /\ r \in Nat
    BY <1>3, <1>5, <2>1, <2>2
  <2>4. m = r /\ places # {}
    BY <2>1, <2>3
  <2> QED
    BY <1>1, <2>2, <2>4
<1>8. First(data, s, e, needle) = Nothing => places = {}
  <2> HIDE DEF places
  <2> QED
    BY <1>1, <1>3, <1>5, <1>6
<1>9. First(data, s, e, needle) # Nothing => First(data, s, e, needle) \in places
  <2> HIDE DEF places
  <2> QED
    BY <1>1, <1>5
<1> QED
  BY <1>1, <1>7, <1>8, <1>9

\* What SearchFindsFirst asks of a part of the block.
Searchable(data, n, s, e, needle) ==
  LET first == First(data, s, e, needle)
      end == IF first = Nothing THEN e ELSE first
  IN /\ DOMAIN data = 0 .. n - 1
     /\ s <= e /\ e < n
     /\ Len(needle) \in {1, 2}
     /\ \A k \in 2 .. Len(needle) : data[e] # needle[k]
     /\ Cardinality(FalseStarts(data, s, end, needle)) <= 1

\* There memmemx finds the first place.
LEMMA FindsFirst ==
  ASSUME NEW n \in Nat, NEW data, NEW s \in Nat, NEW e \in Nat, NEW needle,
         Searchable(data, n, s, e, needle)
  PROVE  memmemx(data, s, e - s, needle) = First(data, s, e, needle)
<1> SUFFICES ASSUME DOMAIN data = 0 .. n - 1, s <= e, e < n, Len(needle) \in {1, 2},
                    \A k \in 2 .. Len(needle) : data[e] # needle[k],
                    NEW first, first = First(data, s, e, needle),
                    NEW end, end = IF first = Nothing THEN e ELSE first,
                    Cardinality(FalseStarts(data, s, end, needle)) <= 1
             PROVE  memmemx(data, s, e - s, needle) = first
  BY DEF Searchable
<1> DEFINE Stands(i) == StandsAt(needle, i, data)
           Char(i) == data[i] = needle[1]
<1>1. PICK f : /\ f = AllRounds(data, s, needle, f)
               /\ memmemx(data, s, e - s, needle) =
                    IF e - s < Len(needle) THEN Nothing ELSE f[s][e - s]
  BY Rounds
<1>2. PICK last \in Int : last = e - Len(needle) /\ last < e
  <2>1. e - Len(needle) \in Int /\ e - Len(needle) < e
    OBVIOUS
  <2> QED
    BY <2>1
\* The needle, where it stands, begins with its first character and does not
\* cross the end of the line.
<1>3. \A i \in s .. e - 1 : Stands(i) => Char(i) /\ i <= last
  <2> SUFFICES ASSUME NEW i \in s .. e - 1, Stands(i) PROVE Char(i) /\ i <= last
    OBVIOUS
  <2>1. \A k \in 1 .. Len(needle) : data[i + k - 1] = needle[k]
    BY DEF StandsAt
  <2>2. i + 1 - 1 = i /\ i + 2 - 1 = i + 1 /\ 1 \in 1 .. Len(needle)
    OBVIOUS
  <2>3. Char(i)
    BY <2>1, <2>2
  <2>4. CASE Len(needle) = 1
    BY <1>2, <2>3, <2>4
  <2>5. CASE Len(needle) = 2
    <3>1. data[i + 1] = needle[2] /\ data[e] # needle[2]
      BY <2>1, <2>2, <2>5
    <3>2. i + 1 # e
      BY <3>1
    <3> QED
      BY <1>2, <2>3, <2>5, <3>2
  <2> QED
    BY <2>4, <2>5
<1>4. /\ first = Nothing => \A i \in s .. last : ~Stands(i)
      /\ first # Nothing => first \in s .. last /\ Stands(first)
      /\ \A r \in s .. last : Stands(r) /\ (\A i \in s .. last : Stands(i) => r <= i)
                              => first = r
      /\ (\A i \in s .. last : ~Stands(i)) => first = Nothing
  BY <1>2, FirstPlace
<1>5. ASSUME e - s < Len(needle) PROVE memmemx(data, s, e - s, needle) = first
  <2>1. s .. last = {}
    BY <1>2, <1>5
  <2> QED
    BY <1>1, <1>4, <1>5, <2>1
\* What a round does that searches up to the end of the line, if none before has
\* missed a place.
<1>6. ASSUME NEW from \in Nat, s <= from, from <= e,
             \A i \in s .. e - 1 : i < from => ~Stands(i)
      PROVE  \/ f[from][e - from] = first
             \/ \E r \in s .. e - 1 :
                  /\ from <= r /\ Char(r) /\ ~Stands(r)
                  /\ \A i \in s .. e - 1 : i < r + 1 => ~Stands(i)
                  /\ f[from][e - from] = f[r + 1][(e - from) - (r + 1 - s)]
  <2>1. PICK len \in Int : len = e - from /\ ~(len < 0) /\ from + len = e
    <3>1. e - from \in Int /\ ~(e - from < 0) /\ from + (e - from) = e
      BY <1>6
    <3> QED
      BY ONLY <3>1
  <2> DEFINE T == Starts(data, from, len, needle)
  <2>2. T = {i \in s .. e - 1 : from <= i /\ Char(i)}
    <3>1. T = {i \in 0 .. n - 1 : from <= i /\ (len < 0 \/ i < from + len) /\ Char(i)}
      BY DEF Starts
    <3>2. T = {i \in 0 .. n - 1 : from <= i /\ i < e /\ Char(i)}
      BY ONLY <2>1, <3>1
    <3>3. \A i : i \in 0 .. n - 1 /\ from <= i /\ i < e <=> i \in s .. e - 1 /\ from <= i
      BY <1>6
    <3> HIDE DEF T, Char
    <3> QED
      BY <3>2, <3>3
  <2>3. f[from][len] = OneRound(data, s, needle, f, from, len)
    <3>1. f[from][len] = AllRounds(data, s, needle, f)[from][len]
      BY <1>1
    <3>2. AllRounds(data, s, needle, f)[from][len] = OneRound(data, s, needle, f, from, len)
      BY RoundAt
    <3> QED
      BY ONLY <3>1, <3>2
  <2>4. CASE T = {}
    <3>1. \A i \in s .. last : ~Stands(i)
      BY SMTT(30), <1>2, <1>3, <1>6, <2>2, <2>4
    <3>2. f[from][len] = Nothing
      BY <2>1, <2>3, <2>4 DEF OneRound
    <3> QED
      BY <1>4, <2>1, <3>1, <3>2
  <2>5. CASE T # {}
    <3>1. PICK r \in Nat : r = Min(T) /\ r \in T /\ \A i \in T : r <= i
      <4>1. Min(T) \in T /\ Min(T) \in Nat /\ \A i \in T : Min(T) <= i
        BY <2>5, StartsMin
      <4> HIDE DEF T
      <4> QED
        BY <4>1
    <3>2. r \in s .. e - 1 /\ from <= r /\ Char(r)
      BY <2>2, <3>1
    <3>3. \A i \in s .. e - 1 : i < r => ~Stands(i)
      BY <1>3, <1>6, <2>2, <3>1
    <3>4. /\ Stands(r) => f[from][len] = r
          /\ ~Stands(r) => f[from][len] = f[r + 1][len - (r + 1 - s)]
      <4>1. Stops(data, needle, from, len, r)
        BY ONLY <2>5, <3>1 DEF Stops
      <4>2. /\ Stands(r) => OneRound(data, s, needle, f, from, len) = r
            /\ ~Stands(r) => OneRound(data, s, needle, f, from, len) = f[r + 1][len - (r + 1 - s)]
        BY ONLY <4>1, RoundStops, s \in Nat, from \in Nat, len \in Int, r \in Nat
      <4> QED
        BY ONLY <2>3, <4>2
    <3>5. CASE Stands(r)
      <4>1. r \in s .. last
        BY <1>2, <1>3, <3>2, <3>5
      <4>2. \A i \in s .. last : Stands(i) => r <= i
        BY <1>2, <3>3, <4>1
      <4>3. first = r
        BY <1>4, <3>5, <4>1, <4>2
      <4> QED
        BY <2>1, <3>4, <3>5, <4>3
    <3>6. CASE ~Stands(r)
      <4>1. \A i \in s .. e - 1 : i < r + 1 => ~Stands(i)
        BY <3>2, <3>3, <3>6
      <4>2. f[from][e - from] = f[r + 1][(e - from) - (r + 1 - s)]
        BY <2>1, <3>4, <3>6
      <4> QED
        BY <3>2, <3>6, <4>1, <4>2
    <3> QED
      BY <3>5, <3>6
  <2> QED
    BY <2>4, <2>5
<1>7. ASSUME ~(e - s < Len(needle)), f[s][e - s] # first PROVE FALSE
  <2>1. PICK a \in s .. e - 1 :
          /\ s <= a /\ Char(a) /\ ~Stands(a)
          /\ \A i \in s .. e - 1 : i < a + 1 => ~Stands(i)
          /\ f[s][e - s] = f[a + 1][(e - s) - (a + 1 - s)]
    <3>1. s <= s /\ s <= e /\ \A i \in s .. e - 1 : i < s => ~Stands(i)
      OBVIOUS
    <3> QED
      BY ONLY <1>6, <1>7, <3>1, s \in Nat
  <2>2. /\ a + 1 \in Nat /\ s <= a + 1 /\ a + 1 <= e
        /\ (e - s) - (a + 1 - s) = e - (a + 1)
    OBVIOUS
  <2>3. f[a + 1][e - (a + 1)] # first
    BY <1>7, <2>1, <2>2
  <2>4. PICK b \in s .. e - 1 :
          /\ a + 1 <= b /\ Char(b) /\ ~Stands(b)
          /\ \A i \in s .. e - 1 : i < b + 1 => ~Stands(i)
    BY <1>6, <2>1, <2>2, <2>3
  <2>5. end \in s .. e /\ b < end
    <3>1. CASE first = Nothing
      BY <3>1
    <3>2. CASE first # Nothing
      <4>1. first \in s .. e - 1 /\ Stands(first)
        BY <1>2, <1>4, <3>2
      <4> QED
        BY <2>4, <3>2, <4>1
    <3> QED
      BY <3>1, <3>2
  <2>6. /\ FalseStarts(data, s, end, needle) \subseteq s .. e
        /\ a \in FalseStarts(data, s, end, needle)
        /\ b \in FalseStarts(data, s, end, needle)
    BY <2>1, <2>4, <2>5 DEF FalseStarts
  <2>7. a # b
    BY <2>4
  <2> QED
    BY <2>6, <2>7, TwoElements
<1> QED
  BY <1>1, <1>5, <1>7

\* Whatever has been put in a buffer, taken and moved, and whatever lies behind
\* its contents: in each part of them that the needle does not go on across the
\* end of, memmemx finds the first place of a needle of one or two bytes, or that
\* there is none, with at most one false start.
THEOREM LinesAreSearched == Spec => []SearchFindsFirst
<1>1. ASSUME Inv PROVE SearchFindsFirst
  <2>1. ASSUME NEW s \in buf.read_index .. buf.write_index,
               NEW e \in buf.read_index .. buf.write_index,
               NEW needle \in {<<b>> : b \in Byte} \cup {<<a, b>> : a, b \in Byte},
               NEW unset \in Byte,
               NEW data, data = Memory(unset),
               s <= e,
               \A k \in 2 .. Len(needle) : data[e] # needle[k],
               NEW end,
               end = IF First(data, s, e, needle) = Nothing THEN e
                     ELSE First(data, s, e, needle),
               Cardinality(FalseStarts(data, s, end, needle)) <= 1
        PROVE  memmemx(data, s, e - s, needle) = First(data, s, e, needle)
    <3>1. PICK size \in Nat : size = buf.total_size
      BY <1>1 DEF Inv, WellFormed
    <3>2. PICK n \in Nat : n = size + 1
      OBVIOUS
    <3>3. DOMAIN data = 0 .. n - 1
      BY <2>1, <3>1, <3>2 DEF Memory
    <3>4. s \in Nat /\ e \in Nat /\ e < n
      BY <1>1, <3>1, <3>2 DEF Inv, WellFormed, Buf, InBlock
    <3>5. Len(needle) \in {1, 2}
      OBVIOUS
    <3>6. Searchable(data, n, s, e, needle)
      BY <2>1, <3>3, <3>4, <3>5 DEF Searchable
    <3> QED
      BY ONLY <3>2, <3>4, <3>6, FindsFirst
  <2> QED
    BY <2>1 DEF SearchFindsFirst
<1> QED
  BY <1>1, Invariance, PTL
=============================================================================
