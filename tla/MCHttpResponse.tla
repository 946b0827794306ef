--------------------------- MODULE MCHttpResponse ---------------------------
(* HttpResponse with room for three headers and up to three calls.         *)
EXTENDS HttpResponse

MCContent == {<<>>, <<"x">>, <<"x", "zero", "x">>}

To(slash, names, closes) ==
  [slash |-> slash, dots |-> FALSE, names |-> names, closes |-> closes]

\* A request line begins its path with "/"; some clients leave that out.
MCRequest ==
  {To(FALSE, names, FALSE) : names \in {"file", "directory", "closed", "nothing"}}
  \cup {To(TRUE, "file", FALSE), To(FALSE, "file", TRUE)}
MCRooted == {To(TRUE, "file", FALSE)}
=============================================================================
