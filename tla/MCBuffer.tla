------------------------------ MODULE MCBuffer ------------------------------
(* Buffer on a small instance: a block that starts with room for a few     *)
(* bytes and may double, appends and readvs that fit, that need the bytes  *)
(* moved to the front and that need the block to grow; and memmemx on      *)
(* every part of what is in it.                                            *)
EXTENDS Search

CONSTANTS b1, b2
MCByte == {b1, b2}
=============================================================================
