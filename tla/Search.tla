------------------------------- MODULE Search -------------------------------
(***************************************************************************)
(* memmemx of lib/utils.c, in the memory it is used on: the block of a     *)
(* Buffer, of which the caller searches a part, such as a line, and one    *)
(* byte behind the block.  (The needles have two bytes at most: strncmp    *)
(* looks no further.)                                                      *)
(***************************************************************************)
EXTENDS Buffer, Integers, FiniteSetsExt

CONSTANTS Nothing, Beyond  \* what is found: NULL, or something not in the block

ASSUME SearchAssumption == {Nothing, Beyond} \cap Nat = {}

\* strncmp(data + at, needle, needle_len) = 0.  It looks at what lies in data,
\* inside the haystack or behind it.
StandsAt(needle, at, data) ==
  \A k \in 1 .. Len(needle) :
    at + k - 1 \in DOMAIN data /\ data[at + k - 1] = needle[k]

\* Where memchr may stop: from is where it starts, len the length it is given.
\* Below 0 a size_t has no end.
Starts(data, from, len, needle) ==
  {i \in DOMAIN data : from <= i /\ (len < 0 \/ i < from + len) /\ data[i] = needle[1]}

\* Slip: after a false start the search goes on behind it.
memmemx_SkipsOver(data, haystack, haystack_len, needle) ==
  LET f[from \in Nat] == [len \in Int |->
        LET starts == Starts(data, from, len, needle)
            result == Min(starts)
            next == result + Len(needle)
        IN IF starts = {} THEN (IF len < 0 THEN Beyond ELSE Nothing)
           ELSE IF StandsAt(needle, result, data) THEN result
           ELSE f[next][len - (next - haystack)]]
  IN IF haystack_len < Len(needle) THEN Nothing ELSE f[haystack][haystack_len]

\* The haystack is data[haystack] and what follows; the needle is not empty.
\* Each round takes the whole distance from the haystack's beginning off what
\* the round before has left.
memmemx(data, haystack, haystack_len, needle) ==
  LET f[from \in Nat] == [len \in Int |->
        LET starts == Starts(data, from, len, needle)
            result == Min(starts)
            next == result + 1
        IN IF starts = {} THEN (IF len < 0 THEN Beyond ELSE Nothing)
           ELSE IF StandsAt(needle, result, data) THEN result
           ELSE f[next][len - (next - haystack)]]
  IN IF haystack_len < Len(needle) THEN Nothing ELSE f[haystack][haystack_len]
-----------------------------------------------------------------------------
(* Properties                                                              *)

\* The first place in data[s .. e - 1] at which all of the needle stands.
First(data, s, e, needle) ==
  LET places == {i \in s .. e - Len(needle) : StandsAt(needle, i, data)}
  IN IF places = {} THEN Nothing ELSE Min(places)

\* Where the needle's first character stands and the needle does not.
FalseStarts(data, s, e, needle) ==
  {i \in s .. e - 1 : data[i] = needle[1] /\ ~StandsAt(needle, i, data)}

\* The block and the byte behind it.  That byte, and those nothing was written
\* to, may be any.
Memory(unset) ==
  [i \in 0 .. buf.total_size |->
     IF i < buf.total_size /\ buf.data[i] # Junk THEN buf.data[i] ELSE unset]

\* In a line, or in all that is left to read, memmemx finds the needle where it
\* first stands, or nothing if it stands nowhere, whatever lies behind, in the
\* block or out of it; provided that the needle does not go on across the end
\* (as a line's end does of which only the first half has come) and that no
\* more than one false start comes before.  (A needle of one character has none;
\* for ": " a second colon without a blank can make the search miss the place or
\* leave the line.)
SearchFindsFirst ==
  \A s, e \in buf.read_index .. buf.write_index :
    \A needle \in {<<b>> : b \in Byte} \cup {<<a, b>> : a, b \in Byte} :
      \A unset \in Byte :
        LET data == Memory(unset)
            first == First(data, s, e, needle)
            end == IF first = Nothing THEN e ELSE first
        IN /\ s <= e
           /\ \A k \in 2 .. Len(needle) : data[e] # needle[k]
           /\ Cardinality(FalseStarts(data, s, end, needle)) <= 1
           => memmemx(data, s, e - s, needle) = first
=============================================================================
