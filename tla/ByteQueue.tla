------------------------------ MODULE ByteQueue ------------------------------
(***************************************************************************)
(* What a struct buffer promises to its users, with no indices and no      *)
(* memory in sight: the bytes put in come out once each, in the order they *)
(* were put in.  Buffer implements this specification.                     *)
(***************************************************************************)
EXTENDS Naturals, Sequences

CONSTANT Byte

VARIABLES
  bytes,  \* the bytes put in and not yet taken out, oldest first
  given,  \* the bytes the last operation put in
  taken   \* the bytes the last operation took out

bvars == <<bytes, given, taken>>

ByteQueueInit == bytes = <<>> /\ given = <<>> /\ taken = <<>>

Put ==
  /\ given' \in Seq(Byte)
  /\ bytes' = bytes \o given'
  /\ taken' = <<>>

Take ==
  \E n \in 0 .. Len(bytes) :
    /\ taken' = SubSeq(bytes, 1, n)
    /\ bytes' = SubSeq(bytes, n + 1, Len(bytes))
    /\ given' = <<>>

ByteQueueSpec == ByteQueueInit /\ [][Put \/ Take]_bvars
=============================================================================
