----------------------------- MODULE HttpServer -----------------------------
(***************************************************************************)
(* http-server/http_server.c and http_request.c on one connection: a       *)
(* client sends requests and may close, the loop's thread reads what has   *)
(* arrived, parses it, has the user's callback answer, and sends the       *)
(* answer.  A connection belongs to one thread, so only the client acts    *)
(* between two steps.                                                      *)
(* Text is a sequence of tokens: the text of a line or a line's end.  That *)
(* a read ends within a line is that it ends between the two; what comes   *)
(* of a line before its end makes no difference to the parser.  A read may *)
(* also end within a line's end: cut says so.                              *)
(***************************************************************************)
EXTENDS Integers, Sequences

CONSTANTS
  Request,      \* the requests a client may send
  MaxRequests,  \* bound: how many it sends
  INIT_REQUEST_HEADER_SIZE,
  MAX_QUERY_PARAMS,
  MAX_COOKIES

\* A query and the value of a Cookie header are pairs "name=value", of which
\* some may lack the "=".
Pair == [name: STRING, equals: BOOLEAN]

\* A header line.  key is the key asked for that the line's key begins with,
\* value where it stands in the two comparisons of
\* http_request_close_connection: "keep-alive" is any value greater than
\* "Keep-Alive".
Header ==
  [type: {"header"}, key: {"Connection", "Cookie", "other"},
   value: {"close", "Keep-Alive", "keep-alive", "other"}, pairs: Seq(Pair)]

Method == {"GET", "POST", "PUT", "DELETE", "HEAD", "OPTIONS", "PATCH", "UNKNOWN"}
Version == {"HTTP/1.0", "HTTP/1.1"}
StatusLine == [type: {"request"}, method: Method, query: Seq(Pair), version: Version]

\* Text of two or more characters that is no header and no request line: it has
\* no ": ", does not begin with a method and does not end with a version, and
\* has n blanks, where 2 stands for any more.
Words(n) == [type |-> "words", blanks |-> n]
AnyWords == {Words(n) : n \in 0 .. 2}

CRLF == [type |-> "CRLF"]

\* A body may be anything, also what looks like a header or a request line, but
\* for one that goes on in the text behind the body.
IsBody(body) ==
  /\ body \in Seq(StatusLine \cup Header \cup AnyWords \cup {CRLF})
  /\ \A n \in 2 .. Len(body) : CRLF \in {body[n - 1], body[n]}
  /\ Len(body) > 0 => body[Len(body)].type # "request"

ASSUME HttpAssumption ==
  /\ \A r \in Request :
       /\ DOMAIN r = {"method", "query", "version", "blanks", "headers", "body"}
       /\ r.method \in Method /\ r.query \in Seq(Pair) /\ r.version \in Version
       /\ r.blanks \in 0 .. 2  \* in the request line, where there should be 2
       /\ r.headers \in Seq(Header \cup AnyWords)
       /\ IsBody(r.body)
  /\ MaxRequests \in Nat
  /\ INIT_REQUEST_HEADER_SIZE \in Nat
  /\ MAX_QUERY_PARAMS \in Nat
  /\ MAX_COOKIES \in Nat

RequestLine(r) ==
  IF r.blanks = 2
  THEN [type |-> "request", method |-> r.method, query |-> r.query,
        version |-> r.version]
  ELSE Words(r.blanks)

\* The text of a request.
Text(r) ==
  LET last == 2 * Len(r.headers) + 3
  IN [i \in 1 .. last |-> IF i = last \/ i % 2 = 0 THEN CRLF
                          ELSE IF i = 1 THEN RequestLine(r)
                          ELSE r.headers[(i - 1) \div 2]]
     \o r.body

VARIABLES
  wire,      \* the text the client has sent and the server has not read
  input,     \* what is readable in tcp_conn->input_buffer
  cut,       \* whether of the last line's end read only the first character was:
             \* "no", "fresh", or "stale" when an old one like the second lies
             \* behind it in the buffer
  peer,      \* "open", or "gone" once the client has closed
  http_req,  \* tcp_conn->request
  pc,        \* "poll", "parse" within http_on_message, or "closed"
  output,    \* whether tcp_conn->output_buffer holds anything
  shut_wr,   \* whether the server has shut its side of the connection down
  process,   \* "running", or what became of it
  asked,     \* history: the requests the client has sent
  handled    \* history: the requests the callback was given

vars == <<wire, input, cut, peer, http_req, pc, output, shut_wr, process, asked,
          handled>>

HttpRequest ==
  [current_state: {"REQUEST_STATUS", "REQUEST_HEADERS", "REQUEST_DONE"},
   method: Method, version: Version \cup {"other", "NULL"},
   query_params: Seq(Pair), request_headers: Seq(Header), cookies: Seq(Pair)]

http_request_new ==
  [current_state |-> "REQUEST_STATUS", method |-> "UNKNOWN", version |-> "NULL",
   query_params |-> <<>>, request_headers |-> <<>>, cookies |-> <<>>]

\* http_on_connection_completed has given the connection its request.
Init ==
  /\ wire = <<>>
  /\ input = <<>>
  /\ cut = "no"
  /\ peer = "open"
  /\ http_req = http_request_new
  /\ pc = "poll"
  /\ output = FALSE
  /\ shut_wr = FALSE
  /\ process = "running"
  /\ asked = <<>>
  /\ handled = <<>>
-----------------------------------------------------------------------------
(* http_request.c                                                          *)

\* The loops over the pairs of a query and of a Cookie header: those with an "="
\* are added to what is there while there is room.
AddPairs(room, found, pairs) ==
  LET added[n \in 0 .. Len(pairs)] ==
        IF n = 0 THEN found
        ELSE IF pairs[n].equals /\ Len(added[n - 1]) < room
             THEN Append(added[n - 1], pairs[n]) ELSE added[n - 1]
  IN added[Len(pairs)]

http_request_parse_query_string(q, query) ==
  AddPairs(MAX_QUERY_PARAMS, q.query_params, query)

\* Slip: the comparison lets one header too many in.
http_request_add_header_OneMore(q, h) ==
  IF Len(q.request_headers) > INIT_REQUEST_HEADER_SIZE
  THEN q
  ELSE [q EXCEPT !.request_headers = Append(@, h)]

\* When the array is full the header is dropped.
http_request_add_header(q, h) ==
  IF Len(q.request_headers) >= INIT_REQUEST_HEADER_SIZE
  THEN q
  ELSE [q EXCEPT !.request_headers = Append(@, h)]

\* The first header with this key, if there is one.
http_request_get_header(q, key) ==
  {q.request_headers[i] : i \in
     {n \in 1 .. Len(q.request_headers) :
        /\ q.request_headers[n].key = key
        /\ \A m \in 1 .. n - 1 : q.request_headers[m].key # key}}

http_request_parse_cookies(q) ==
  LET header == http_request_get_header(q, "Cookie")
  IN IF header = {} THEN q.cookies
     ELSE AddPairs(MAX_COOKIES, q.cookies, (CHOOSE h \in header : TRUE).pairs)

\* Without a Connection header strncmp is given NULL.
ComparesNull(q) ==
  /\ q.version = "HTTP/1.0"
  /\ http_request_get_header(q, "Connection") = {}

\* Slip: the version is not looked at.
http_request_close_connection_AnyVersion(q) ==
  {\E h \in http_request_get_header(q, "Connection") :
     h.value \in {"close", "keep-alive"}}

\* What it may return.  A value greater than "Keep-Alive" has strncmp return
\* some positive number, which may be the 1 it is compared with.
http_request_close_connection(q) ==
  LET connection == http_request_get_header(q, "Connection")
  IN IF \E h \in connection : h.value = "close" THEN {TRUE}
     ELSE IF /\ q.version = "HTTP/1.0"
             /\ \E h \in connection : h.value = "keep-alive"
          THEN {TRUE, FALSE}
          ELSE {FALSE}

\* Slip: the cookies are kept.
http_request_reset_CookiesKept(q) ==
  [http_request_new EXCEPT !.cookies = q.cookies]

http_request_reset(q) == http_request_new
-----------------------------------------------------------------------------
(* The client, and the socket as the server reads it.                      *)

Send(r) ==
  /\ peer = "open"
  /\ Len(asked) < MaxRequests
  /\ asked' = Append(asked, r)
  /\ wire' = wire \o Text(r)
  /\ UNCHANGED <<input, cut, peer, http_req, pc, output, shut_wr, process, handled>>

\* The client closes; what it has sent may still arrive.
Close ==
  /\ peer = "open"
  /\ peer' = "gone"
  /\ UNCHANGED <<wire, input, cut, http_req, pc, output, shut_wr, process, asked,
                 handled>>

\* Some of what was sent has arrived, at least the second character of a line's
\* end that was cut; the message callback is called.  (At the end of the client's
\* side a read returns 0 and nothing is done.)
handle_read ==
  /\ pc = "poll"
  /\ \E n \in (IF cut = "no" THEN 1 ELSE 0) .. Len(wire) :
       /\ input' = input \o SubSeq(wire, 1, n)
       /\ wire' = SubSeq(wire, n + 1, Len(wire))
       /\ cut' \in IF n > 0 /\ wire[n] = CRLF THEN {"no", "fresh", "stale"} ELSE {"no"}
  /\ pc' = "parse"
  /\ UNCHANGED <<peer, http_req, output, shut_wr, process, asked, handled>>

\* epoll reports that the client is gone: the descriptor is closed.
HangUp ==
  /\ pc = "poll"
  /\ peer = "gone"
  /\ pc' = "closed"
  /\ UNCHANGED <<wire, input, cut, peer, http_req, output, shut_wr, process, asked,
                 handled>>
-----------------------------------------------------------------------------
(* http_on_message: the parser's loop.  While the end of a line has not    *)
(* arrived the loop goes round and changes nothing.                        *)

\* The ends of lines that are found: also of one whose second character is old.
LineEnds == {n \in 1 .. Len(input) : /\ input[n] = CRLF
                                     /\ n = Len(input) => cut # "fresh"}

buffer_find_CRLF == {n \in LineEnds : \A m \in 1 .. n - 1 : input[m] # CRLF}

Parsing(state) ==
  /\ pc = "parse"
  /\ http_req.current_state = state

\* One that may follow a body of one word, which was never read.
IsRequestLine(line) ==
  /\ Len(line) > 0
  /\ line[Len(line)].type = "request"
  /\ \A m \in 1 .. Len(line) - 1 : line[m] = Words(0)

\* The body becomes the beginning of the method, which then is none of those known.
http_request_get_method(line) ==
  IF Len(line) = 1 THEN line[1].method ELSE "UNKNOWN"

\* A header has a blank, and may have more.
HasBlank(text) == text.type = "words" => text.blanks > 0
MayHaveTwo(text) == text.type = "words" => text.blanks = 2
HasTwo(text) == text.type # "header" /\ MayHaveTwo(text)

\* Whether line has two blanks: that it may, and that it may not.
MayBeStatusLine(line) ==
  \E m, n \in 1 .. Len(line) :
    MayHaveTwo(line[m]) \/ (m # n /\ HasBlank(line[m]) /\ HasBlank(line[n]))

MayLackBlanks(line) ==
  \A m, n \in 1 .. Len(line) :
    ~HasTwo(line[m]) /\ (HasBlank(line[m]) /\ HasBlank(line[n]) => m = n)

RequestLineTaken(line) ==
  LET text == line[Len(line)]
  IN /\ IsRequestLine(line)
     /\ http_req' =
          [http_req EXCEPT
             !.method = http_request_get_method(line),
             !.version = text.version,
             !.query_params = http_request_parse_query_string(http_req, text.query),
             !.current_state = "REQUEST_HEADERS"]

OtherLineTaken(line) ==
  /\ ~IsRequestLine(line)
  /\ MayBeStatusLine(line)
  /\ http_req' = [http_req EXCEPT !.version = "other",
                                  !.current_state = "REQUEST_HEADERS"]

\* A line with two blanks is taken for a request line; in one without an
\* assertion fails.
process_status_line ==
  /\ Parsing("REQUEST_STATUS")
  /\ \E crlf \in buffer_find_CRLF :
       LET line == SubSeq(input, 1, crlf - 1)
       IN \/ /\ RequestLineTaken(line) \/ OtherLineTaken(line)
             /\ input' = SubSeq(input, crlf + 1, Len(input))
             /\ UNCHANGED process
          \/ /\ MayLackBlanks(line)
             /\ process' = "aborted"
             /\ UNCHANGED <<http_req, input>>
  /\ UNCHANGED <<wire, cut, peer, pc, output, shut_wr, asked, handled>>


ParseHeader ==
  /\ Parsing("REQUEST_HEADERS")
  /\ \E crlf \in buffer_find_CRLF :
       /\ crlf > 1
       /\ input[1].type = "header"
       /\ http_req' = http_request_add_header(http_req, input[1])
       /\ input' = SubSeq(input, crlf + 1, Len(input))
  /\ UNCHANGED <<wire, cut, peer, pc, output, shut_wr, process, asked, handled>>

\* Slip: the empty line stays in the buffer.
ParseHeadersEnd_LineKept ==
  /\ Parsing("REQUEST_HEADERS")
  /\ \E crlf \in buffer_find_CRLF : crlf = 1 \/ input[1].type # "header"
  /\ http_req' = [http_req EXCEPT !.cookies = http_request_parse_cookies(http_req),
                                  !.current_state = "REQUEST_DONE"]
  /\ UNCHANGED <<input, wire, cut, peer, pc, output, shut_wr, process, asked,
                 handled>>

\* Any line without ": " ends the headers, and two characters are skipped: the
\* whole of an empty line, or all or the beginning of what is no header.
ParseHeadersEnd ==
  /\ Parsing("REQUEST_HEADERS")
  /\ \E crlf \in buffer_find_CRLF :
       \/ crlf = 1 /\ input' = Tail(input)
       \/ crlf > 1 /\ input[1].type # "header"
          /\ \/ input' = Tail(input)
             \/ \E n \in 0 .. 2 :
                  /\ input[1].type = "words" => n <= input[1].blanks
                  /\ input' = <<Words(n)>> \o Tail(input)
  /\ http_req' = [http_req EXCEPT !.cookies = http_request_parse_cookies(http_req),
                                  !.current_state = "REQUEST_DONE"]
  /\ UNCHANGED <<wire, cut, peer, pc, output, shut_wr, process, asked, handled>>
-----------------------------------------------------------------------------
(* http_on_message: the answer, when the parser is done.  The callback may *)
(* answer as it likes; what it answers makes no difference here.           *)

Handle ==
  /\ Parsing("REQUEST_DONE")
  /\ handled' = Append(handled, http_req)
  /\ UNCHANGED <<wire, input, cut, peer, asked>>

\* write takes the whole answer.
Answer ==
  /\ Handle
  /\ ~shut_wr
  /\ \/ /\ ComparesNull(http_req)
        /\ process' = "faulted"
        /\ UNCHANGED <<http_req, pc, shut_wr>>
     \/ /\ ~ComparesNull(http_req)
        /\ \E close \in http_request_close_connection(http_req) : shut_wr' = close
        /\ http_req' = http_request_reset(http_req)
        /\ pc' = "poll"
        /\ UNCHANGED process
  /\ UNCHANGED output

\* It takes less, or fails: what is left (after a failure one byte more, for
\* -1 is taken from the size) goes to the output buffer, and the channel's
\* write event is asked for, of the connection where an event loop is
\* expected: its mutex, garbage, may look locked, and if not the assertion on
\* is_handle_pending, where output_buffer is, fails.
AnswerInPart ==
  /\ Handle
  /\ ~shut_wr
  /\ output' = TRUE
  /\ process' \in {"hung", "aborted"}
  /\ UNCHANGED <<http_req, pc, shut_wr>>

\* Nobody handles the signal (SIGPIPE) that a write raises after the server's
\* own shutdown, and may raise once the client is gone.
AnswerRaises ==
  /\ Handle
  /\ shut_wr \/ peer = "gone"
  /\ process' = "killed"
  /\ UNCHANGED <<http_req, pc, shut_wr, output>>
-----------------------------------------------------------------------------
http_on_message ==
  \/ process_status_line \/ ParseHeader \/ ParseHeadersEnd
  \/ Answer \/ AnswerInPart \/ AnswerRaises

Next ==
  /\ process = "running"
  /\ \/ \E r \in Request : Send(r)
     \/ Close
     \/ handle_read
     \/ HangUp
     \/ http_on_message

Spec == Init /\ [][Next]_vars

\* The thread goes on while it can, and polls a readable socket.
FairSpec ==
  Spec /\ WF_vars(process = "running" /\ (handle_read \/ http_on_message))
-----------------------------------------------------------------------------
(* Properties                                                              *)

\* Every variable holds a value of its type, and the arrays of a request hold
\* no more than there is room for.
TypeOK ==
  /\ {wire, input} \subseteq
       Seq(StatusLine \cup Header \cup AnyWords \cup {CRLF})
  /\ cut \in {"no", "fresh", "stale"}
  /\ peer \in {"open", "gone"}
  /\ http_req \in HttpRequest
  /\ Len(http_req.query_params) <= MAX_QUERY_PARAMS
  /\ Len(http_req.request_headers) <= INIT_REQUEST_HEADER_SIZE
  /\ Len(http_req.cookies) <= MAX_COOKIES
  /\ pc \in {"poll", "parse", "closed"}
  /\ {output, shut_wr} \subseteq BOOLEAN
  /\ process \in {"running", "aborted", "hung", "faulted", "killed"}
  /\ asked \in Seq(Request)
  /\ handled \in Seq(HttpRequest)

\* As many of s as there is room for.
FirstOf(n, s) == SubSeq(s, 1, IF Len(s) < n THEN Len(s) ELSE n)

\* r has a header line without ": ".
HasBare(r) == \E n \in 1 .. Len(r.headers) : r.headers[n].type # "header"

\* What follows r in the stream is not where the parser looks for it: it stops
\* at the header line, or takes lines of the body for a request.
Spoils(r) == HasBare(r) \/ r.body \notin {<<>>, <<Words(0)>>}

\* No request before the k-th spoils the stream.
Clear(k) == \A n \in 1 .. Len(asked) : n < k => ~Spoils(asked[n])

\* The request a callback should see when a client sends r.
Seen(r) ==
  LET q == [http_request_new EXCEPT
              !.request_headers = FirstOf(INIT_REQUEST_HEADER_SIZE, r.headers)]
  IN [q EXCEPT !.current_state = "REQUEST_DONE",
               !.method = r.method,
               !.version = r.version,
               !.query_params = http_request_parse_query_string(q, r.query),
               !.cookies = http_request_parse_cookies(q)]

\* However its text is cut into reads, within a line's end or not, the k-th
\* request is the k-th the callback gets, complete and with nothing of an
\* earlier one in it; as long as no earlier one has a header line without ": "
\* or a body of more than one word.  A body of one word spoils the method of
\* the request after it.
RequestsAreSeenWhole ==
  \A k \in 1 .. Len(handled) :
    Clear(k) =>
      /\ k <= Len(asked)
      /\ ~HasBare(asked[k]) =>
           LET seen == Seen(asked[k])
           IN handled[k] = IF k > 1 /\ asked[k - 1].body # <<>>
                           THEN [seen EXCEPT !.method = "UNKNOWN"] ELSE seen

IsConnection(h) == h.type = "header" /\ h.key = "Connection"

\* The header of r that says what is to become of the connection, if there is
\* one: of several the first, for no more is looked at.
ConnectionHeader(r) ==
  {r.headers[n] : n \in
     {m \in 1 .. Len(r.headers) :
        /\ IsConnection(r.headers[m])
        /\ \A l \in 1 .. m - 1 : ~IsConnection(r.headers[l])}}

MayClose(r) ==
  \E h \in ConnectionHeader(r) :
    \/ h.value = "close"
    \/ r.version = "HTTP/1.0" /\ h.value = "keep-alive"

\* While no request spoils the stream, a connection is shut down only after the
\* answer to a request whose Connection header says "close", or to one of
\* HTTP/1.0 in which it says something greater than "Keep-Alive"; and after one
\* that says "close" it always is, if the request's headers all fit its array.
\* (After the others it need not be: that the comparison gives a positive
\* number does not make it the 1 it is compared with.)
ClosesAsAsked ==
  /\ shut_wr => \E k \in 1 .. Len(handled) : Clear(k) => MayClose(asked[k])
  /\ process = "running" /\ ~shut_wr =>
       \A k \in 1 .. Len(handled) :
         /\ Clear(k)
         /\ Len(asked[k].headers) <= INIT_REQUEST_HEADER_SIZE
         /\ ~HasBare(asked[k])
         => \A h \in ConnectionHeader(asked[k]) : h.value # "close"


\* What ends the process on the way from a request to its answer, however
\* requests are cut, joined and kept alive, while none has spoilt the stream:
\* an assertion of process_status_line fails only for a request line that lacks
\* a blank, so the parser always stands at one; the other assertion and the
\* mutex that hangs follow an answer the socket took in part; NULL is compared
\* only for a request of HTTP/1.0 without a Connection header, or whose header
\* was dropped; and the signal comes only when the client is gone or goes on
\* asking after a request to close.  (After a spoilt stream the assertions may
\* fail, NULL be compared and the connection be shut down for other causes.)
EndsOnlyForCause ==
  /\ process = "aborted" =>
       \/ output
       \/ ~Clear(Len(handled) + 1)
       \/ Len(handled) < Len(asked) /\ asked[Len(handled) + 1].blanks < 2
  /\ process = "hung" => output
  /\ process = "faulted" /\ Clear(Len(handled)) =>
       LET r == asked[Len(handled)]
       IN /\ r.version = "HTTP/1.0"
          /\ \/ HasBare(r)
             \/ Len(r.headers) > INIT_REQUEST_HEADER_SIZE
             \/ ConnectionHeader(r) = {}
  /\ process = "killed" =>
       \/ peer = "gone"
       \/ \E k \in 1 .. Len(handled) - 1 : Clear(k) => MayClose(asked[k])

\* Whether what has been read goes on to the end of the request's headers.
HeadersRead ==
  \E n \in LineEnds :
    \/ n > 1 /\ input[n - 1] = CRLF
    \/ n = 1 /\ http_req.current_state = "REQUEST_HEADERS"


\* Every request of a client that stays reaches the callback.
RequestsAreHandled ==
  \A k \in 1 .. MaxRequests :
    Len(asked) >= k ~> Len(handled) >= k \/ peer = "gone" \/ process # "running"
=============================================================================
