--------------------------- MODULE MCConfigLoader ---------------------------
(* ConfigLoader with the files and environments below, loaded in any order. *)
EXTENDS ConfigLoader

V(raw, text, number) == [raw |-> raw, text |-> text, number |-> number]
Line(key, value) == [key |-> key, value |-> value, rest |-> FALSE]

Quoted == V("'1.2.3.4'", "1.2.3.4", 1)
Empty == V("''", "", 0)
Big == V("8080", "8080", 8080)
Small == V("80", "80", 80)
QuotedBig == V("'8080'", "8080", 8080)
Word == V("many", "many", 0)

MCText == {"", "0.0.0.0", "x-net.log", "1.2.3.4", "'1.2.3.4'", "''", "8080",
           "'8080'", "80", "many"}

\* A setting given twice, with comments between and a key nobody knows; values
\* that are no good; and a comment that goes on behind the buffer's end.
Repeats ==
  <<Line("other", Empty), Line("port", Small), Line("host", Quoted), Line("other", Small),
    Line("log_file", Word), Line("port", QuotedBig), Line("host", Word),
    Line("keep_alive_timeout", Small), Line("max_request_size", Big)>>
Wrong ==
  <<Line("buffer_size", Word), Line("timeout", Word), Line("host", Empty)>>
LongComment ==
  <<Line("other", Empty), [key |-> "port", value |-> Small, rest |-> TRUE]>>

MCFile == {Repeats, Wrong, LongComment}

MCEnvironment ==
  {[s \in {"port", "host", "max_connections"} |->
      IF s = "host" THEN Quoted ELSE Big],
   [s \in {"port", "log_file", "log_level"} |-> QuotedBig]}
=============================================================================
