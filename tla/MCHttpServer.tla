---------------------------- MODULE MCHttpServer ----------------------------
(* HttpServer with arrays of one or two entries, and the requests below.   *)
EXTENDS HttpServer

P(name, equals) == [name |-> name, equals |-> equals]
H(key, value, pairs) ==
  [type |-> "header", key |-> key, value |-> value, pairs |-> pairs]
R(method, version, query, headers, body) ==
  [method |-> method, version |-> version, query |-> query, blanks |-> 2,
   headers |-> headers, body |-> body]

\* As many parameters and cookies as there is room for and one more, and some
\* without "=".
Full == R("GET", "HTTP/1.1", <<P("a", FALSE), P("b", TRUE), P("c", TRUE)>>,
          <<H("Cookie", "other", <<P("u", TRUE), P("v", FALSE), P("w", TRUE)>>)>>,
          <<>>)
Closing == R("GET", "HTTP/1.1", <<P("d", TRUE)>>,
             <<H("Connection", "close", <<>>)>>, <<>>)
\* The header that matters comes too late.
LateClose == R("GET", "HTTP/1.1", <<>>,
               <<H("other", "other", <<>>), H("Connection", "close", <<>>)>>, <<>>)
\* A body of one word, and a connection to keep.
Post == R("POST", "HTTP/1.1", <<>>, <<H("Connection", "keep-alive", <<>>)>>,
          <<Words(0)>>)
Old == R("GET", "HTTP/1.0", <<>>, <<H("Connection", "Keep-Alive", <<>>)>>, <<>>)
\* Only the first of the two is looked at.
OldOther == R("GET", "HTTP/1.0", <<>>,
              <<H("Connection", "keep-alive", <<>>), H("Connection", "close", <<>>)>>,
              <<>>)
OldElse == R("GET", "HTTP/1.0", <<>>, <<H("Connection", "other", <<>>)>>, <<>>)
OldPlain == R("GET", "HTTP/1.0", <<>>, <<>>, <<>>)
\* A header line without ": ", and a request line without a second blank.
NoColon == R("GET", "HTTP/1.1", <<>>, <<Words(1)>>, <<>>)
NoVersion == [R("GET", "HTTP/1.1", <<>>, <<>>, <<>>) EXCEPT !.blanks = 1]
\* A body of several lines, in which the parser finds another request.
Lines == R("POST", "HTTP/1.1", <<>>, <<>>,
           <<Words(2), CRLF, H("Connection", "close", <<>>), CRLF, CRLF, Words(0)>>)

MCRequest == {Full, Closing, LateClose, Post, OldOther, OldPlain, NoColon, NoVersion,
              Lines}
MCPlain == {Full}
MCOld == {Old, OldElse, OldPlain}
=============================================================================
