--------------------------- MODULE HttpServer_proof ---------------------------
(***************************************************************************)
(* Proofs about HttpServer, for any requests, arrays of any sizes and any  *)
(* cut of the stream into reads.                                           *)
(***************************************************************************)
EXTENDS HttpServer, Induction, SequenceTheorems

-----------------------------------------------------------------------------
(* The inductive invariant behind RequestsAreSeenWhole, ClosesAsAsked and  *)
(* EndsOnlyForCause: where the parser stands in what the client has sent,  *)
(* as long as no request that spoils the stream was handled.               *)

\* What has been sent and not been parsed.
Stream == input \o wire

\* The requests of the client are where start has them: request k begins after
\* place start[k] of the stream, which lies before its beginning for what the
\* parser has passed, and the last one ends where the stream ends.
Laid(start) ==
  /\ start \in [1 .. Len(asked) + 1 -> Int]
  /\ start[Len(asked) + 1] = Len(Stream)
  /\ \A k \in 1 .. Len(asked) :
       /\ start[k + 1] = start[k] + Len(Text(asked[k]))
       /\ start[k + 1] <= Len(Stream)
       /\ \A n \in 1 .. Len(Text(asked[k])) :
            start[k] + n > 0 => Stream[start[k] + n] = Text(asked[k])[n]

Current == Len(handled) + 1

AfterBody == Current > 1 /\ asked[Current - 1].body # <<>>

\* What of the first n headers of r is in the request's array.
Kept(r, n) == SubSeq(r.headers, 1, IF n < INIT_REQUEST_HEADER_SIZE
                                   THEN n ELSE INIT_REQUEST_HEADER_SIZE)

\* The request parsed so far has the request line and the first n headers of r.
Parsed(r, n) ==
  /\ http_req.method = IF AfterBody THEN "UNKNOWN" ELSE r.method
  /\ http_req.version = r.version
  /\ http_req.query_params = AddPairs(MAX_QUERY_PARAMS, <<>>, r.query)
  /\ http_req.request_headers = Kept(r, n)

\* The parser is at a request line, after the body, if any, of the one before.
AtRequestLine(start) ==
  /\ http_req = http_request_new
  /\ Current <= Len(asked) + 1
  /\ Laid(start)
  /\ start[Current] = IF AfterBody THEN 1 ELSE 0

\* It is after the n-th header of the current request.
AtHeaders(start) ==
  /\ http_req.current_state = "REQUEST_HEADERS"
  /\ http_req.cookies = <<>>
  /\ Current <= Len(asked)
  /\ Laid(start)
  /\ \E n \in 0 .. Len(asked[Current].headers) :
       /\ start[Current] = -(2 * n + 2)
       /\ Parsed(asked[Current], n)
       /\ \A m \in 1 .. n : asked[Current].headers[m].type = "header"

\* It is after the empty line of the current request.
AtDone(start) ==
  /\ http_req.current_state = "REQUEST_DONE"
  /\ Current <= Len(asked)
  /\ Laid(start)
  /\ start[Current] = -(2 * Len(asked[Current].headers) + 3)
  /\ ~HasBare(asked[Current])
  /\ Parsed(asked[Current], Len(asked[Current].headers))
  /\ http_req.cookies =
       http_request_parse_cookies([http_req EXCEPT !.cookies = <<>>])

\* It has stopped at a header without ": " in the current request.
AtBare ==
  /\ http_req.current_state = "REQUEST_DONE"
  /\ Current <= Len(asked)
  /\ HasBare(asked[Current])
  /\ \E n \in 0 .. Len(asked[Current].headers) : Parsed(asked[Current], n)

Parser(start) == AtRequestLine(start) \/ AtHeaders(start) \/ AtDone(start) \/ AtBare

HistoryInv == RequestsAreSeenWhole /\ ClosesAsAsked /\ EndsOnlyForCause
-----------------------------------------------------------------------------
(* What the operators of HttpServer give.                                  *)

\* Pairs are added while there is room, and no more.
LEMMA AddPairsType ==
  ASSUME NEW room \in Nat, NEW found \in Seq(Pair), NEW pairs \in Seq(Pair),
         Len(found) <= room
  PROVE  /\ AddPairs(room, found, pairs) \in Seq(Pair)
         /\ Len(AddPairs(room, found, pairs)) <= room
<1> DEFINE S == {s \in Seq(Pair) : Len(s) <= room}
           len == Len(pairs)
           Body1(f) == [n \in 0 .. len |->
                        IF n = 0 THEN found
                        ELSE IF pairs[n].equals /\ Len(f[n - 1]) < room
                             THEN Append(f[n - 1], pairs[n]) ELSE f[n - 1]]
           added == CHOOSE f : f = Body1(f)
           step == [n \in 1 .. len |-> [s \in S |->
                      IF pairs[n].equals /\ Len(s) < room
                      THEN Append(s, pairs[n]) ELSE s]]
<1>1. AddPairs(room, found, pairs) = added[len]
  BY DEF AddPairs
<1>2. len \in Nat /\ \A n \in 1 .. len : pairs[n] \in Pair
  BY LenProperties
<1>3. step \in [1 .. len -> [S -> S]]
  <2> SUFFICES ASSUME NEW n \in 1 .. len, NEW s \in S,
                      pairs[n].equals, Len(s) < room
               PROVE  Append(s, pairs[n]) \in S
    OBVIOUS
  <2>1. /\ s \in Seq(Pair) /\ Len(s) \in Nat
        /\ Append(s, pairs[n]) \in Seq(Pair)
        /\ Len(Append(s, pairs[n])) = Len(s) + 1
    BY <1>2, AppendProperties, LenProperties
  <2> QED
    BY <2>1
<1>4. PICK f \in [0 .. len -> S] : Follows(f, len, found, step)
  <2>1. found \in S
    OBVIOUS
  <2> HIDE DEF S, step, len
  <2> QED
    BY <1>2, <1>3, <2>1, Recursion
<1>5. \A n \in 1 .. len : /\ n # 0 /\ n - 1 \in 0 .. len
                          /\ f[n - 1] \in S
                          /\ f[n] = IF pairs[n].equals /\ Len(f[n - 1]) < room
                                    THEN Append(f[n - 1], pairs[n]) ELSE f[n - 1]
  <2> SUFFICES ASSUME NEW n \in 1 .. len
               PROVE  /\ n # 0 /\ n - 1 \in 0 .. len
                      /\ f[n - 1] \in S
                      /\ f[n] = IF pairs[n].equals /\ Len(f[n - 1]) < room
                                THEN Append(f[n - 1], pairs[n]) ELSE f[n - 1]
    OBVIOUS
  <2>1. n # 0 /\ n - 1 \in 0 .. len
    BY <1>2
  <2> HIDE DEF len
  <2>2. f[n - 1] \in S /\ f[n] = step[n][f[n - 1]]
    BY <1>4, <2>1 DEF Follows
  <2> HIDE DEF S
  <2> QED
    BY <2>1, <2>2
<1>6. f = Body1(f)
  <2> SUFFICES ASSUME NEW n \in 0 .. len PROVE f[n] = Body1(f)[n]
    BY <1>4
  <2>1. CASE n = 0
    BY <1>4, <2>1 DEF Follows
  <2>2. CASE n # 0
    <3>1. n \in 1 .. len
      BY <1>2, <2>2
    <3> QED
      BY <1>5, <3>1
  <2> QED
    BY <2>1, <2>2
<1>7. added = Body1(added)
  <2> HIDE DEF Body1
  <2> QED
    BY <1>6
<1>8. /\ added[0] = found
      /\ \A n \in 1 .. len :
           added[n] = IF pairs[n].equals /\ Len(added[n - 1]) < room
                      THEN Append(added[n - 1], pairs[n]) ELSE added[n - 1]
  <2> HIDE DEF added
  <2>1. \A n \in 0 .. len : added[n] = Body1(added)[n]
    BY <1>7
  <2> HIDE DEF len
  <2>2. 0 \in 0 .. len /\ \A n \in 1 .. len : n \in 0 .. len /\ n # 0
    BY <1>2
  <2> QED
    BY <2>1, <2>2
<1>9. added[len] \in S
  <2> DEFINE T == {n \in 0 .. len : added[n] \in S}
  <2> HIDE DEF added
  <2>1. 0 \in T
    BY <1>2, <1>8
  <2>2. ASSUME NEW n \in 0 .. len - 1, n \in T PROVE n + 1 \in T
    <3>1. /\ n + 1 \in 1 .. len /\ n + 1 \in 0 .. len /\ (n + 1) - 1 = n
          /\ added[n] \in S
      BY <1>2, <2>2
    <3>2. added[n + 1] = IF pairs[n + 1].equals /\ Len(added[n]) < room
                         THEN Append(added[n], pairs[n + 1]) ELSE added[n]
      BY <1>8, <3>1
    <3>3. step[n + 1][added[n]] \in S
      BY <1>3, <3>1
    <3>4. step[n + 1][added[n]] = added[n + 1]
      BY <3>1, <3>2
    <3> QED
      BY <3>1, <3>3, <3>4
  <2>3. \A n \in 0 .. len - 1 : n \in T => n + 1 \in T
    BY <2>2
  <2> HIDE DEF T
  <2>4. \A n \in 0 .. len : n \in T
    BY <1>2, <2>1, <2>3, SetInduction
  <2> QED
    BY <1>2, <2>4 DEF T
<1> QED
  BY <1>1, <1>9

-----------------------------------------------------------------------------
(* Types.                                                                  *)

Token == StatusLine \cup Header \cup AnyWords \cup {CRLF}

\* The kinds of tokens differ in their types.
LEMMA TokenKinds ==
  /\ CRLF \in Token /\ StatusLine \subseteq Token
  /\ Header \subseteq Token /\ AnyWords \subseteq Token
  /\ \A t \in Token : t.type = "header" => t \in Header
  /\ \A t \in Token : t.type = "request" => t \in StatusLine
  /\ \A t \in Header : t.type = "header"
  /\ \A t \in StatusLine : t.type = "request"
  /\ \A t \in AnyWords : t.type = "words"
  /\ \A n \in 0 .. 2 : Words(n) \in AnyWords
  /\ \A n : Words(n).type = "words" /\ Words(n).blanks = n
  /\ CRLF.type = "CRLF"
<1>1. /\ \A t \in Header : t.type = "header"
      /\ \A t \in StatusLine : t.type = "request"
      /\ \A t \in AnyWords : t.type = "words"
      /\ \A n : Words(n).type = "words" /\ Words(n).blanks = n
      /\ CRLF.type = "CRLF"
  BY DEF Header, CRLF, StatusLine, AnyWords, Words
<1>2. \A n \in 0 .. 2 : Words(n) \in AnyWords
  BY DEF AnyWords
<1> QED
  BY <1>1, <1>2 DEF Token

\* What a request is made of.
LEMMA RequestParts ==
  ASSUME NEW r \in Request
  PROVE  /\ r.method \in Method /\ r.version \in Version /\ r.blanks \in 0 .. 2
         /\ r.query \in Seq(Pair) /\ r.headers \in Seq(Header \cup AnyWords)
         /\ Len(r.headers) \in Nat
         /\ r.body \in Seq(Token) /\ Len(r.body) \in Nat
<1>1. /\ r.method \in Method /\ r.version \in Version /\ r.blanks \in 0 .. 2
      /\ r.query \in Seq(Pair) /\ r.headers \in Seq(Header \cup AnyWords)
      /\ IsBody(r.body)
  BY HttpAssumption
<1>2. r.body \in Seq(Token)
  BY <1>1 DEF IsBody, Token
<1> QED
  BY <1>1, <1>2, LenProperties

\* A request line is one, or words that lack a blank.
LEMMA RequestLines ==
  ASSUME NEW r \in Request
  PROVE  /\ RequestLine(r) \in Token /\ RequestLine(r).type # "CRLF"
         /\ r.blanks = 2 => /\ RequestLine(r).type = "request"
                            /\ RequestLine(r).method = r.method
                            /\ RequestLine(r).version = r.version
                            /\ RequestLine(r).query = r.query
         /\ r.blanks # 2 => /\ RequestLine(r).type = "words"
                            /\ RequestLine(r).blanks \in {0, 1}
<1>1. /\ r.method \in Method /\ r.version \in Version /\ r.blanks \in 0 .. 2
      /\ r.query \in Seq(Pair)
  BY RequestParts
<1>2. CASE r.blanks = 2
  <2>1. RequestLine(r) \in StatusLine
    BY <1>1, <1>2 DEF RequestLine, StatusLine
  <2> QED
    BY <1>2, <2>1, TokenKinds DEF RequestLine
<1>3. CASE r.blanks # 2
  <2>1. RequestLine(r) = Words(r.blanks) /\ r.blanks \in {0, 1}
    BY <1>1, <1>3 DEF RequestLine
  <2>2. /\ Words(r.blanks) \in AnyWords /\ Words(r.blanks).type = "words"
        /\ Words(r.blanks).blanks = r.blanks
    BY <1>1, TokenKinds
  <2> QED
    BY <1>3, <2>1, <2>2, TokenKinds
<1> QED
  BY <1>2, <1>3

\* A body of one word.
LEMMA OneWord ==
  /\ Len(<<>>) = 0 /\ <<Words(0)>> # <<>>
  /\ Len(<<Words(0)>>) = 1 /\ <<Words(0)>>[1] = Words(0)
<1>1. PICK word : word = Words(0)
  OBVIOUS
<1>2. Len(<<word>>) = 1 /\ <<word>>[1] = word /\ <<word>> # <<>> /\ Len(<<>>) = 0
  OBVIOUS
<1> QED
  BY <1>1, <1>2

\* The text of a request, place by place.
LEMMA TextPlaces ==
  ASSUME NEW r \in Request
  PROVE  /\ Text(r) \in Seq(Token)
         /\ Len(Text(r)) = 2 * Len(r.headers) + 3 + Len(r.body)
         /\ Text(r)[1] = RequestLine(r)
         /\ \A n \in 1 .. Len(r.headers) : Text(r)[2 * n + 1] = r.headers[n]
         /\ \A n \in 1 .. Len(r.headers) + 1 : Text(r)[2 * n] = CRLF
         /\ Text(r)[2 * Len(r.headers) + 3] = CRLF
         /\ r.body = <<Words(0)>> => Text(r)[2 * Len(r.headers) + 4] = Words(0)
<1> DEFINE len == Len(r.headers)
           last == 2 * len + 3
           front == [i \in 1 .. last |-> IF i = last \/ i % 2 = 0 THEN CRLF
                                         ELSE IF i = 1 THEN RequestLine(r)
                                         ELSE r.headers[(i - 1) \div 2]]
           back == r.body
<1>1. Text(r) = front \o back
  BY DEF Text
<1>2. /\ len \in Nat /\ last \in Nat
      /\ \A n \in 1 .. len : r.headers[n] \in Header \cup AnyWords
  BY RequestParts, ElementOfSeq
<1>3. \A i \in 1 .. last : ~(i = last \/ i % 2 = 0) /\ i # 1
        => (i - 1) \div 2 \in 1 .. len
  <2> SUFFICES ASSUME NEW i \in 1 .. last, i # last, i % 2 # 0, i # 1
               PROVE  (i - 1) \div 2 \in 1 .. len
    OBVIOUS
  <2> HIDE DEF len
  <2>1. i \in Int /\ i % 2 = 1
    BY <1>2
  <2>2. PICK n \in Int : i = 2 * n + 1
    <3>1. i = 2 * (i \div 2) + 1 /\ i \div 2 \in Int
      BY <2>1
    <3> QED
      BY <3>1
  <2>3. n \in 1 .. len /\ (i - 1) \div 2 = n
    BY <1>2, <2>2
  <2> QED
    BY <2>3
<1>4. front \in [1 .. last -> Token]
  <2> HIDE DEF len, last
  <2> QED
    BY <1>2, <1>3, TokenKinds, RequestLines
<1>5. front \in Seq(Token) /\ Len(front) = last
  <2> HIDE DEF front, last
  <2>1. front \in Seq(Token)
    BY <1>2, <1>4, SeqDef
  <2>2. DOMAIN front = 1 .. last /\ DOMAIN front = 1 .. Len(front) /\ Len(front) \in Nat
    BY <1>4, <2>1, LenProperties
  <2> QED
    BY <1>2, <2>1, <2>2
<1>6. /\ back \in Seq(Token) /\ Len(back) = Len(r.body) /\ Len(back) \in Nat
      /\ r.body = <<Words(0)>> => Len(back) = 1 /\ back[1] = Words(0)
  BY RequestParts, OneWord
<1>7. /\ front[1] = RequestLine(r)
      /\ \A n \in 1 .. len : front[2 * n + 1] = r.headers[n]
      /\ \A n \in 1 .. len + 1 : front[2 * n] = CRLF
      /\ front[last] = CRLF
  <2>1. /\ 1 \in 1 .. last /\ 1 # last /\ 1 % 2 # 0
        /\ last \in 1 .. last
        /\ \A n \in 1 .. len + 1 : 2 * n \in 1 .. last /\ (2 * n) % 2 = 0
        /\ \A n \in 1 .. len : /\ 2 * n + 1 \in 1 .. last /\ (2 * n + 1) % 2 # 0
                               /\ 2 * n + 1 # last /\ 2 * n + 1 # 1
                               /\ ((2 * n + 1) - 1) \div 2 = n
    BY <1>2
  <2> HIDE DEF len, last
  <2> QED
    BY <2>1
<1>8. /\ Text(r) \in Seq(Token)
      /\ Len(Text(r)) = last + Len(back)
      /\ \A i \in 1 .. last + Len(back) :
           Text(r)[i] = IF i <= last THEN front[i] ELSE back[i - last]
  <2>1. PICK f, g, l : f = front /\ g = back /\ l = last
    OBVIOUS
  <2>2. /\ f \in Seq(Token) /\ g \in Seq(Token) /\ Len(f) = l /\ Len(g) \in Nat
        /\ Text(r) = f \o g
    BY <1>1, <1>5, <1>6, <2>1
  <2>3. /\ f \o g \in Seq(Token) /\ Len(f \o g) = l + Len(g)
        /\ \A i \in 1 .. l + Len(g) : (f \o g)[i] = IF i <= l THEN f[i] ELSE g[i - l]
    BY ONLY <2>2, ConcatProperties
  <2> HIDE DEF front, back, last
  <2> QED
    BY <2>1, <2>2, <2>3
<1>9. ASSUME NEW i \in 1 .. last PROVE Text(r)[i] = front[i]
  <2>1. i \in 1 .. last + Len(back) /\ i <= last
    <3>1. Len(back) \in Nat
      BY <1>6
    <3> HIDE DEF back, last
    <3> QED
      BY <1>2, <3>1
  <2> HIDE DEF front, back, last
  <2> QED
    BY <1>8, <2>1
<1>10. r.body = <<Words(0)>> => Text(r)[last + 1] = Words(0)
  <2> SUFFICES ASSUME r.body = <<Words(0)>> PROVE Text(r)[last + 1] = Words(0)
    OBVIOUS
  <2>1. Len(back) = 1 /\ back[1] = Words(0)
    BY <1>6
  <2>2. last + 1 \in 1 .. last + 1 /\ ~(last + 1 <= last) /\ (last + 1) - last = 1
    BY <1>2
  <2> HIDE DEF front, back, last
  <2> QED
    BY <1>8, <2>1, <2>2
<1> HIDE DEF front, back
<1>11. /\ 1 \in 1 .. last /\ last \in 1 .. last
       /\ \A n \in 1 .. len + 1 : 2 * n \in 1 .. last
       /\ \A n \in 1 .. len : 2 * n + 1 \in 1 .. last
  BY <1>2
<1>12. /\ Len(Text(r)) = 2 * len + 3 + Len(r.body)
       /\ r.body = <<Words(0)>> => Text(r)[2 * len + 4] = Words(0)
  <2>1. (2 * len + 3) + 1 = 2 * len + 4
    BY <1>2
  <2> QED
    BY <1>6, <1>8, <1>10, <2>1
<1>13. /\ Text(r)[1] = RequestLine(r)
       /\ \A n \in 1 .. len : Text(r)[2 * n + 1] = r.headers[n]
       /\ \A n \in 1 .. len + 1 : Text(r)[2 * n] = CRLF
       /\ Text(r)[last] = CRLF
  <2> HIDE DEF len, last
  <2> QED
    BY <1>7, <1>9, <1>11
<1> QED
  BY <1>8, <1>12, <1>13

\* A header of the array, if any.
LEMMA GetHeaderType ==
  ASSUME NEW q \in HttpRequest, NEW key
  PROVE  http_request_get_header(q, key) \subseteq Header
<1>1. q.request_headers \in Seq(Header)
  BY DEF HttpRequest
<1>2. \A n \in 1 .. Len(q.request_headers) : q.request_headers[n] \in Header
  BY <1>1, ElementOfSeq
<1> QED
  BY <1>2 DEF http_request_get_header

\* The arrays of a request hold no more than there is room for.
InBounds(q) ==
  /\ Len(q.query_params) <= MAX_QUERY_PARAMS
  /\ Len(q.request_headers) <= INIT_REQUEST_HEADER_SIZE
  /\ Len(q.cookies) <= MAX_COOKIES

\* The cookies found are pairs, and no more than there is room for.
LEMMA CookiesType ==
  ASSUME NEW q \in HttpRequest, InBounds(q)
  PROVE  /\ http_request_parse_cookies(q) \in Seq(Pair)
         /\ Len(http_request_parse_cookies(q)) <= MAX_COOKIES
<1> DEFINE header == http_request_get_header(q, "Cookie")
<1>1. q.cookies \in Seq(Pair) /\ Len(q.cookies) <= MAX_COOKIES
  BY DEF HttpRequest, InBounds
<1>2. CASE header = {}
  BY <1>1, <1>2 DEF http_request_parse_cookies
<1>3. CASE header # {}
  <2>1. PICK h : h = CHOOSE g \in header : TRUE
    OBVIOUS
  <2>2. h \in Header
    BY <1>3, <2>1, GetHeaderType
  <2>3. h.pairs \in Seq(Pair)
    BY <2>2 DEF Header
  <2>4. http_request_parse_cookies(q) = AddPairs(MAX_COOKIES, q.cookies, h.pairs)
    BY <1>3, <2>1 DEF http_request_parse_cookies
  <2> QED
    BY <1>1, <2>3, <2>4, AddPairsType, HttpAssumption
<1> QED
  BY <1>2, <1>3

\* A header is added or dropped.
LEMMA AddHeaderType ==
  ASSUME NEW q \in HttpRequest, InBounds(q), NEW h \in Header
  PROVE  /\ http_request_add_header(q, h) \in HttpRequest
         /\ InBounds(http_request_add_header(q, h))
<1>1. q.request_headers \in Seq(Header) /\ Len(q.request_headers) \in Nat
  BY LenProperties DEF HttpRequest
<1>2. CASE Len(q.request_headers) >= INIT_REQUEST_HEADER_SIZE
  BY <1>2 DEF http_request_add_header
<1>3. CASE ~(Len(q.request_headers) >= INIT_REQUEST_HEADER_SIZE)
  <2>1. PICK hs : hs = Append(q.request_headers, h)
    OBVIOUS
  <2>2. hs \in Seq(Header) /\ Len(hs) = Len(q.request_headers) + 1
    BY <1>1, <2>1, AppendProperties
  <2>3. Len(hs) <= INIT_REQUEST_HEADER_SIZE
    BY <1>1, <1>3, <2>2, HttpAssumption
  <2>4. http_request_add_header(q, h) = [q EXCEPT !.request_headers = hs]
    BY <1>3, <2>1 DEF http_request_add_header
  <2> HIDE <1>3
  <2> QED
    BY <2>2, <2>3, <2>4 DEF HttpRequest, InBounds
<1> QED
  BY <1>2, <1>3

\* A new request is of the type, and empty.
LEMMA NewRequestType == http_request_new \in HttpRequest /\ InBounds(http_request_new)
<1>1. <<>> \in Seq(Pair) /\ <<>> \in Seq(Header) /\ Len(<<>>) = 0
  BY EmptySeq
<1> QED
  BY <1>1, HttpAssumption DEF http_request_new, HttpRequest, InBounds, Method

\* What the types say of the stream.
LEMMA StreamType ==
  ASSUME TypeOK
  PROVE  /\ input \in Seq(Token) /\ wire \in Seq(Token) /\ Stream \in Seq(Token)
         /\ Len(input) \in Nat /\ Len(wire) \in Nat /\ Len(Stream) \in Nat
         /\ Len(Stream) = Len(input) + Len(wire)
         /\ \A n \in 1 .. Len(input) : input[n] \in Token /\ Stream[n] = input[n]
<1>1. input \in Seq(Token) /\ wire \in Seq(Token)
  BY DEF TypeOK, Token
<1>2. Len(input) \in Nat /\ Len(wire) \in Nat
  BY <1>1, LenProperties
<1>3. /\ Stream \in Seq(Token) /\ Len(Stream) = Len(input) + Len(wire)
      /\ \A i \in 1 .. Len(input) + Len(wire) :
           Stream[i] = IF i <= Len(input) THEN input[i] ELSE wire[i - Len(input)]
  BY <1>1, ConcatProperties DEF Stream
<1>4. \A n \in 1 .. Len(input) : n \in 1 .. Len(input) + Len(wire) /\ n <= Len(input)
  BY <1>2
<1> QED
  BY <1>1, <1>2, <1>3, <1>4, ElementOfSeq

\* The parts of the types that the parser can change, and the others.
ParserType == input \in Seq(Token) /\ http_req \in HttpRequest /\ InBounds(http_req)

LEMMA TypeParts ==
  TypeOK <=> /\ ParserType
             /\ wire \in Seq(Token)
             /\ cut \in {"no", "fresh", "stale"} /\ peer \in {"open", "gone"}
             /\ pc \in {"poll", "parse", "closed"}
             /\ output \in BOOLEAN /\ shut_wr \in BOOLEAN
             /\ process \in {"running", "aborted", "hung", "faulted", "killed"}
             /\ asked \in Seq(Request)
             /\ handled \in Seq(HttpRequest)
BY DEF TypeOK, ParserType, Token, InBounds

\* The same of the next state.
LEMMA TypePartsNext ==
  ASSUME /\ input' \in Seq(Token) /\ http_req' \in HttpRequest
         /\ InBounds(http_req')
         /\ wire' \in Seq(Token)
         /\ cut' \in {"no", "fresh", "stale"} /\ peer' \in {"open", "gone"}
         /\ pc' \in {"poll", "parse", "closed"}
         /\ output' \in BOOLEAN /\ shut_wr' \in BOOLEAN
         /\ process' \in {"running", "aborted", "hung", "faulted", "killed"}
         /\ asked' \in Seq(Request)
         /\ handled' \in Seq(HttpRequest)
  PROVE  TypeOK'
BY DEF TypeOK, Token, InBounds

\* The rest of a sequence of tokens is one.
LEMMA RestType ==
  ASSUME NEW s \in Seq(Token), NEW n \in 1 .. Len(s) + 1
  PROVE  SubSeq(s, n, Len(s)) \in Seq(Token)
<1>1. Len(s) \in Nat
  BY LenProperties
<1>2. \A i \in n .. Len(s) : s[i] \in Token
  BY <1>1, ElementOfSeq
<1> QED
  BY <1>1, <1>2, SubSeqProperties

\* Initially every variable has its type.
LEMMA InitType == Init => TypeOK
<1> SUFFICES ASSUME Init PROVE TypeOK
  OBVIOUS
<1>1. <<>> \in Seq(Token) /\ <<>> \in Seq(Request) /\ <<>> \in Seq(HttpRequest)
  BY EmptySeq
<1> QED
  BY <1>1, NewRequestType, TypeParts DEF Init, ParserType

\* A read moves some of what was sent, or nothing.
LEMMA ReadSome ==
  ASSUME TypeOK, handle_read
  PROVE  \E n \in 0 .. Len(wire) :
           /\ input' = input \o SubSeq(wire, 1, n)
           /\ wire' = SubSeq(wire, n + 1, Len(wire))
           /\ cut' \in {"no", "fresh", "stale"}
<1>1. PICK least : least = IF cut = "no" THEN 1 ELSE 0
  OBVIOUS
<1>2. PICK n \in least .. Len(wire) :
        /\ input' = input \o SubSeq(wire, 1, n)
        /\ wire' = SubSeq(wire, n + 1, Len(wire))
        /\ cut' \in IF n > 0 /\ wire[n] = CRLF THEN {"no", "fresh", "stale"} ELSE {"no"}
  BY <1>1 DEF handle_read
<1>3. cut' \in {"no", "fresh", "stale"}
  BY <1>2
<1>4. least \in {0, 1} /\ Len(wire) \in Nat
  BY <1>1, StreamType
<1>5. n \in 0 .. Len(wire)
  BY <1>4
<1> QED
  BY <1>2, <1>3, <1>5

\* Each line the parser takes keeps the types.
LEMMA ParserStepType ==
  ASSUME TypeOK, process_status_line \/ ParseHeader \/ ParseHeadersEnd
  PROVE  ParserType'
<1>1. /\ http_req \in HttpRequest /\ InBounds(http_req)
      /\ input \in Seq(Token) /\ Len(input) \in Nat
      /\ \A n \in 1 .. Len(input) : input[n] \in Token
  BY StreamType, TypeParts DEF ParserType
<1>2. CASE process_status_line
  <2>1. PICK crlf, line :
          /\ crlf \in buffer_find_CRLF
          /\ line = SubSeq(input, 1, crlf - 1)
          /\ \/ /\ RequestLineTaken(line) \/ OtherLineTaken(line)
                /\ input' = SubSeq(input, crlf + 1, Len(input))
             \/ UNCHANGED <<http_req, input>>
    BY <1>2 DEF process_status_line
  <2>2. crlf \in 1 .. Len(input)
    BY <2>1 DEF buffer_find_CRLF, LineEnds
  <2>3. input' \in Seq(Token)
    <3>1. crlf + 1 \in 1 .. Len(input) + 1
      BY <1>1, <2>2
    <3>2. SubSeq(input, crlf + 1, Len(input)) \in Seq(Token)
      BY <1>1, <3>1, RestType
    <3> QED
      BY <1>1, <2>1, <3>2
  <2>4. CASE RequestLineTaken(line)
    <3>1. line \in Seq(Token) /\ Len(line) \in Nat
      <4>1. \A i \in 1 .. crlf - 1 : input[i] \in Token
        BY <1>1, <2>2
      <4>2. line \in Seq(Token)
        BY <1>1, <2>1, <2>2, <4>1, SubSeqProperties
      <4> QED
        BY <4>2, LenProperties
    <3>2. PICK text : text = line[Len(line)]
      OBVIOUS
    <3>3. IsRequestLine(line)
      BY <2>4 DEF RequestLineTaken
    <3>4. text \in StatusLine
      <4>1. text \in Token
        BY <3>1, <3>2, <3>3, ElementOfSeq DEF IsRequestLine
      <4> QED
        BY <3>2, <3>3, <4>1, TokenKinds DEF IsRequestLine
    <3>5. text.method \in Method /\ text.version \in Version /\ text.query \in Seq(Pair)
      BY <3>4 DEF StatusLine
    <3>6. PICK method : method = http_request_get_method(line)
      OBVIOUS
    <3>7. method \in Method
      BY <3>2, <3>5, <3>6 DEF http_request_get_method, Method
    <3>8. PICK params : params = http_request_parse_query_string(http_req, text.query)
      OBVIOUS
    <3>9. params \in Seq(Pair) /\ Len(params) <= MAX_QUERY_PARAMS
      BY <1>1, <3>5, <3>8, AddPairsType, HttpAssumption
      DEF http_request_parse_query_string, InBounds, HttpRequest
    <3>10. http_req' = [http_req EXCEPT !.method = method, !.version = text.version,
                           !.query_params = params,
                           !.current_state = "REQUEST_HEADERS"]
      BY <2>4, <3>2, <3>6, <3>8 DEF RequestLineTaken
    <3>11. http_req' \in HttpRequest /\ InBounds(http_req')
      BY <1>1, <3>5, <3>7, <3>9, <3>10 DEF HttpRequest, InBounds
    <3> QED
      BY <2>3, <3>11 DEF ParserType, InBounds
  <2>5. CASE OtherLineTaken(line)
    <3>1. http_req' = [http_req EXCEPT !.version = "other",
                                       !.current_state = "REQUEST_HEADERS"]
      BY <2>5 DEF OtherLineTaken
    <3>2. http_req' \in HttpRequest /\ InBounds(http_req')
      BY <1>1, <3>1 DEF HttpRequest, InBounds
    <3> QED
      BY <2>3, <3>2 DEF ParserType, InBounds
  <2>6. CASE UNCHANGED <<http_req, input>>
    BY <1>1, <2>6 DEF ParserType, InBounds
  <2> QED
    BY <2>1, <2>4, <2>5, <2>6
<1>3. CASE ParseHeader
  <2>1. PICK crlf \in buffer_find_CRLF :
          /\ crlf > 1
          /\ input[1].type = "header"
          /\ http_req' = http_request_add_header(http_req, input[1])
          /\ input' = SubSeq(input, crlf + 1, Len(input))
    BY <1>3 DEF ParseHeader
  <2>2. crlf \in 1 .. Len(input)
    BY DEF buffer_find_CRLF, LineEnds
  <2>3. input[1] \in Header
    BY <1>1, <2>1, <2>2, TokenKinds
  <2>4. http_req' \in HttpRequest /\ InBounds(http_req')
    BY <1>1, <2>1, <2>3, AddHeaderType
  <2>5. input' \in Seq(Token)
    BY <1>1, <2>1, <2>2, RestType
  <2> QED
    BY <2>4, <2>5 DEF ParserType, InBounds
<1>4. CASE ParseHeadersEnd
  <2>1. PICK crlf \in buffer_find_CRLF :
          \/ input' = Tail(input)
          \/ \E n \in 0 .. 2 : input' = <<Words(n)>> \o Tail(input)
    BY <1>4 DEF ParseHeadersEnd
  <2>2. PICK cookies : cookies = http_request_parse_cookies(http_req)
    OBVIOUS
  <2>3. cookies \in Seq(Pair) /\ Len(cookies) <= MAX_COOKIES
    BY <1>1, <2>2, CookiesType
  <2>4. http_req' \in HttpRequest /\ InBounds(http_req')
    <3>1. http_req' = [http_req EXCEPT !.cookies = cookies,
                                       !.current_state = "REQUEST_DONE"]
      BY <1>4, <2>2 DEF ParseHeadersEnd
    <3> QED
      BY <1>1, <2>3, <3>1 DEF HttpRequest, InBounds
  <2>5. Tail(input) \in Seq(Token)
    <3>1. input # <<>>
      BY <1>1, EmptySeq DEF buffer_find_CRLF, LineEnds
    <3> QED
      BY <1>1, <3>1, HeadTailProperties
  <2>6. \A n \in 0 .. 2 : <<Words(n)>> \in Seq(Token)
    BY TokenKinds
  <2>7. input' \in Seq(Token)
    BY <2>1, <2>5, <2>6, ConcatProperties
  <2> QED
    BY <2>4, <2>7 DEF ParserType, InBounds
<1> QED
  BY <1>2, <1>3, <1>4

\* Every step keeps the types.
LEMMA NextType == ASSUME TypeOK, [Next]_vars PROVE TypeOK'
<1>1. /\ ParserType /\ http_req \in HttpRequest /\ InBounds(http_req)
      /\ input \in Seq(Token) /\ wire \in Seq(Token)
      /\ cut \in {"no", "fresh", "stale"} /\ peer \in {"open", "gone"}
      /\ pc \in {"poll", "parse", "closed"}
      /\ output \in BOOLEAN /\ shut_wr \in BOOLEAN
      /\ process \in {"running", "aborted", "hung", "faulted", "killed"}
      /\ asked \in Seq(Request)
      /\ handled \in Seq(HttpRequest)
  BY TypeParts DEF ParserType
<1>2. ASSUME NEW r \in Request, Send(r) PROVE TypeOK'
  <2>1. asked' \in Seq(Request)
    BY <1>1, <1>2, AppendProperties DEF Send
  <2>2. wire' \in Seq(Token)
    BY <1>1, <1>2, TextPlaces, ConcatProperties DEF Send
  <2> QED
    BY <1>1, <1>2, <2>1, <2>2, TypePartsNext DEF Send
<1>3. CASE handle_read
  <2>1. PICK n \in 0 .. Len(wire) :
          /\ input' = input \o SubSeq(wire, 1, n)
          /\ wire' = SubSeq(wire, n + 1, Len(wire))
          /\ cut' \in {"no", "fresh", "stale"}
    BY <1>3, ReadSome
  <2>2. /\ Len(wire) \in Nat /\ \A i \in 1 .. Len(wire) : wire[i] \in Token
        /\ n + 1 \in 1 .. Len(wire) + 1
    BY <1>1, LenProperties, ElementOfSeq
  <2>3. SubSeq(wire, 1, n) \in Seq(Token)
    <3>1. \A i \in 1 .. n : wire[i] \in Token
      BY <2>2
    <3> QED
      BY <2>2, <3>1, SubSeqProperties
  <2>4. input' \in Seq(Token) /\ wire' \in Seq(Token)
    BY <1>1, <2>1, <2>2, <2>3, RestType, ConcatProperties
  <2> QED
    BY <1>1, <1>3, <2>1, <2>4, TypePartsNext DEF handle_read
<1>4. CASE process_status_line \/ ParseHeader \/ ParseHeadersEnd
  <2>1. input' \in Seq(Token) /\ http_req' \in HttpRequest /\ InBounds(http_req')
    BY <1>4, ParserStepType DEF ParserType, InBounds
  <2>2. /\ UNCHANGED <<wire, cut, peer, pc, output, shut_wr, asked, handled>>
        /\ process' = process \/ process' = "aborted"
    BY <1>4 DEF process_status_line, ParseHeader, ParseHeadersEnd
  <2> QED
    BY <1>1, <2>1, <2>2, TypePartsNext
<1>5. CASE Answer \/ AnswerInPart \/ AnswerRaises
  <2>1. /\ handled' \in Seq(HttpRequest)
        /\ UNCHANGED <<wire, input, cut, peer, asked>>
    <3>1. Handle
      BY <1>5 DEF Answer, AnswerInPart, AnswerRaises
    <3> QED
      BY <1>1, <3>1, AppendProperties DEF Handle
  <2>2. http_req' \in HttpRequest /\ InBounds(http_req')
    BY <1>1, <1>5, NewRequestType
    DEF Answer, AnswerInPart, AnswerRaises, http_request_reset
  <2>3. /\ pc' \in {"poll", "parse", "closed"}
        /\ output' \in BOOLEAN
        /\ process' \in {"running", "aborted", "hung", "faulted", "killed"}
    BY <1>1, <1>5 DEF Answer, AnswerInPart, AnswerRaises
  <2>4. shut_wr' \in BOOLEAN
    BY <1>1, <1>5
    DEF Answer, AnswerInPart, AnswerRaises, http_request_close_connection
  <2> QED
    BY <1>1, <2>1, <2>2, <2>3, <2>4, TypePartsNext
<1>6. CASE UNCHANGED vars
  BY <1>1, <1>6, TypePartsNext DEF vars
<1>7. CASE Close \/ HangUp
  BY <1>1, <1>7, TypePartsNext DEF Close, HangUp
<1> QED
  BY <1>2, <1>3, <1>4, <1>5, <1>6, <1>7 DEF Next, http_on_message

\* Every variable always has a value of its type: whatever is sent, no array of
\* a request is written behind its end.
THEOREM TypeCorrect == Spec => []TypeOK
BY InitType, NextType, PTL DEF Spec

-----------------------------------------------------------------------------
(* The stream.                                                             *)

\* What the parser takes from the front of the stream is passed by all starts.
LEMMA StreamTaken ==
  ASSUME TypeOK, NEW start, Laid(start), NEW d \in 1 .. Len(input),
         input' = SubSeq(input, d + 1, Len(input)), UNCHANGED <<wire, asked>>,
         NEW begin, begin = [k \in 1 .. Len(asked) + 1 |-> start[k] - d]
  PROVE  Laid(begin)'
<1>1. /\ Len(input) \in Nat /\ Len(wire) \in Nat /\ Len(Stream) \in Nat
      /\ Len(Stream) = Len(input) + Len(wire)
      /\ input \in Seq(Token) /\ wire \in Seq(Token)
  BY StreamType
<1>2. /\ input' \in Seq(Token) /\ Len(input') = Len(input) - d
      /\ \A n \in 1 .. Len(input) - d : input'[n] = input[n + d]
  <2>1. \A n \in d + 1 .. Len(input) : input[n] \in Token
    BY <1>1, ElementOfSeq
  <2>2. /\ input' \in Seq(Token)
        /\ Len(input') = IF d + 1 <= Len(input) THEN Len(input) - (d + 1) + 1 ELSE 0
        /\ \A n \in 1 .. Len(input) - (d + 1) + 1 : input'[n] = input[(d + 1) + n - 1]
    BY <1>1, <2>1, SubSeqProperties
  <2>3. Len(input') = Len(input) - d
    BY <1>1, <2>2
  <2>4. ASSUME NEW n \in 1 .. Len(input) - d PROVE input'[n] = input[n + d]
    <3>1. (d + 1) + n - 1 = n + d /\ n \in 1 .. Len(input) - (d + 1) + 1
      BY <1>1
    <3> QED
      BY <2>2, <3>1
  <2> QED
    BY <2>2, <2>3, <2>4
<1>3. /\ Stream' = input' \o wire
      /\ Len(Stream') = Len(Stream) - d
      /\ \A n \in 1 .. Len(Stream) - d : Stream'[n] = Stream[n + d]
  <2>1. Stream' = input' \o wire
    BY DEF Stream
  <2>2. Stream = input \o wire
    BY DEF Stream
  <2>3. Len(Stream') = Len(Stream) - d
    <3>1. Len(Stream') = Len(input') + Len(wire)
      BY <1>1, <1>2, <2>1, ConcatProperties
    <3> QED
      BY <1>1, <1>2, <3>1
  <2>4. ASSUME NEW n \in 1 .. Len(Stream) - d PROVE Stream'[n] = Stream[n + d]
    <3>1. /\ n \in 1 .. Len(input') + Len(wire)
          /\ n + d \in 1 .. Len(input) + Len(wire)
          /\ n <= Len(input') <=> n + d <= Len(input)
          /\ n <= Len(input') => n \in 1 .. Len(input) - d
          /\ n - Len(input') = (n + d) - Len(input)
      <4>1. PICK li, lw, lj, ls : /\ li = Len(input) /\ lw = Len(wire)
                                  /\ lj = Len(input') /\ ls = Len(Stream)
        OBVIOUS
      <4>2. /\ li \in Nat /\ lw \in Nat /\ ls = li + lw /\ lj = li - d
            /\ d \in 1 .. li /\ n \in 1 .. ls - d
        BY <1>1, <1>2, <4>1
      <4> QED
        BY ONLY <4>1, <4>2
    <3>2. Stream'[n] = IF n <= Len(input') THEN input'[n] ELSE wire[n - Len(input')]
      BY <1>1, <1>2, <2>1, <3>1, ConcatProperties
    <3>3. Stream[n + d] = IF n + d <= Len(input) THEN input[n + d]
                          ELSE wire[(n + d) - Len(input)]
      BY <1>1, <2>2, <3>1, ConcatProperties
    <3> QED
      BY <1>2, <3>1, <3>2, <3>3
  <2> QED
    BY <2>1, <2>3, <2>4
<1>4. PICK last, ls : last = Len(asked) /\ ls = Len(Stream)
  OBVIOUS
<1>5. last \in Nat /\ d \in Nat /\ ls \in Nat /\ Len(Stream') = ls - d
  BY <1>1, <1>3, <1>4, LenProperties DEF TypeOK
<1>6. /\ start \in [1 .. last + 1 -> Int]
      /\ start[last + 1] = ls
      /\ \A k \in 1 .. last :
           /\ start[k + 1] = start[k] + Len(Text(asked[k]))
           /\ start[k + 1] <= ls
           /\ \A n \in 1 .. Len(Text(asked[k])) :
                start[k] + n > 0 => Stream[start[k] + n] = Text(asked[k])[n]
  BY <1>4 DEF Laid
<1>7. /\ begin \in [1 .. last + 1 -> Int]
      /\ \A k \in 1 .. last + 1 : begin[k] = start[k] - d
  BY <1>4, <1>5, <1>6
<1>8. begin[last + 1] = ls - d
  BY <1>5, <1>6, <1>7
<1>9. ASSUME NEW k \in 1 .. last
      PROVE  /\ begin[k + 1] = begin[k] + Len(Text(asked[k]))
             /\ begin[k + 1] <= ls - d
             /\ \A n \in 1 .. Len(Text(asked[k])) :
                  begin[k] + n > 0 => Stream'[begin[k] + n] = Text(asked[k])[n]
  <2>1. PICK len : len = Len(Text(asked[k]))
    OBVIOUS
  <2>2. len \in Nat
    <3>1. asked[k] \in Request
      BY <1>4, ElementOfSeq DEF TypeOK
    <3> QED
      BY <2>1, <3>1, TextPlaces, LenProperties
  <2>3. k \in 1 .. last + 1 /\ k + 1 \in 1 .. last + 1
    BY <1>5
  <2>4. /\ start[k] \in Int /\ start[k + 1] \in Int
        /\ begin[k] = start[k] - d /\ begin[k + 1] = start[k + 1] - d
        /\ start[k + 1] = start[k] + len /\ start[k + 1] <= ls
    BY <1>6, <1>7, <2>1, <2>3
  <2>5. begin[k + 1] = begin[k] + len /\ begin[k + 1] <= ls - d
    BY SMTT(30), <1>5, <2>2, <2>4
  <2>6. ASSUME NEW n \in 1 .. len, begin[k] + n > 0
        PROVE  Stream'[begin[k] + n] = Text(asked[k])[n]
    <3>1. /\ begin[k] + n \in 1 .. ls - d
          /\ (begin[k] + n) + d = start[k] + n
          /\ start[k] + n > 0
      <4>1. PICK sk, bk : sk = start[k] /\ bk = begin[k]
        OBVIOUS
      <4>2. /\ sk \in Int /\ bk = sk - d /\ sk + len <= ls /\ bk + n > 0
            /\ n \in 1 .. len /\ len \in Nat /\ d \in Nat /\ ls \in Nat
        BY <1>5, <2>2, <2>4, <2>6, <4>1
      <4>3. bk + n \in 1 .. ls - d /\ (bk + n) + d = sk + n /\ sk + n > 0
        BY ONLY <4>2
      <4> QED
        BY ONLY <4>1, <4>3
    <3>2. Stream'[begin[k] + n] = Stream[(begin[k] + n) + d]
      BY <1>3, <1>4, <3>1
    <3> QED
      BY <1>6, <2>1, <3>1, <3>2
  <2> QED
    BY <2>1, <2>5, <2>6
<1>10. /\ asked' = asked /\ Len(asked') = last /\ Len(Stream') = ls - d
       /\ begin[last + 1] = ls - d
       /\ begin \in [1 .. last + 1 -> Int]
  BY <1>4, <1>5, <1>7, <1>8
<1>11. \A k \in 1 .. last :
         /\ begin[k + 1] = begin[k] + Len(Text(asked[k]))
         /\ begin[k + 1] <= ls - d
         /\ \A n \in 1 .. Len(Text(asked[k])) :
              begin[k] + n > 0 => Stream'[begin[k] + n] = Text(asked[k])[n]
  BY <1>9
<1> QED
  BY ONLY <1>10, <1>11 DEF Laid

\* Three sequences are joined in either order.
LEMMA ThreeParts ==
  ASSUME NEW S, NEW s \in Seq(S), NEW t \in Seq(S), NEW u \in Seq(S)
  PROVE  (s \o t) \o u = s \o (t \o u)
BY ConcatAssociative

\* Reading moves what has been sent, and changes nothing of it.
LEMMA StreamRead ==
  ASSUME TypeOK, handle_read
  PROVE  Stream' = Stream
<1>1. /\ Len(input) \in Nat /\ Len(wire) \in Nat
      /\ input \in Seq(Token) /\ wire \in Seq(Token)
  BY StreamType
<1>2. PICK n \in 0 .. Len(wire) :
        /\ input' = input \o SubSeq(wire, 1, n)
        /\ wire' = SubSeq(wire, n + 1, Len(wire))
  BY ReadSome
<1>3. PICK front : front = SubSeq(wire, 1, n)
  OBVIOUS
<1>4. front \in Seq(Token)
  <2>1. \A i \in 1 .. n : wire[i] \in Token
    BY <1>1, ElementOfSeq
  <2> QED
    BY <1>1, <1>3, <2>1, SubSeqProperties
<1>5. wire' \in Seq(Token)
  BY <1>1, <1>2, RestType
<1>6. front \o wire' = wire
  <2>1. PICK sent, m : sent = wire /\ m = Len(wire)
    OBVIOUS
  <2>2. sent \in Seq(Token) /\ m = Len(sent) /\ m \in Nat /\ n \in 0 .. m
    BY <1>1, <2>1
  <2>3. 1 \in 1 .. m + 1 /\ n \in 1 - 1 .. m /\ m \in n .. Len(sent)
    BY ONLY <2>2
  <2>4. SubSeq(sent, 1, n) \o SubSeq(sent, n + 1, m) = SubSeq(sent, 1, m)
    BY ONLY <2>2, <2>3, ConcatAdjacentSubSeq
  <2>5. SubSeq(sent, 1, m) = sent
    BY ONLY <2>2, SubSeqFull
  <2> QED
    BY <1>2, <1>3, <2>1, <2>4, <2>5
<1>7. Stream' = Stream
  <2>1. PICK rest : rest = wire'
    OBVIOUS
  <2>2. rest \in Seq(Token)
    BY <1>5, <2>1
  <2>3. (input \o front) \o rest = input \o (front \o rest)
    <3>1. \A s, t, u \in Seq(Token) : (s \o t) \o u = s \o (t \o u)
      BY SMTT(30), ThreeParts
    <3> QED
      BY SMTT(30), <1>1, <1>4, <2>2, <3>1
  <2> QED
    BY <1>2, <1>3, <1>6, <2>1, <2>3 DEF Stream
<1> QED
  BY <1>7

\* Where the text of a request is.
LEMMA LaidPlaces ==
  ASSUME TypeOK, NEW start, Laid(start), NEW k \in 1 .. Len(asked)
  PROVE  /\ asked[k] \in Request
         /\ start[k] \in Int /\ start[k + 1] \in Int
         /\ start[k + 1] = start[k] + Len(Text(asked[k]))
         /\ \A n \in 1 .. Len(Text(asked[k])) :
              start[k] + n > 0 => Stream[start[k] + n] = Text(asked[k])[n]
<1>1. Len(asked) \in Nat /\ asked[k] \in Request
  BY LenProperties, ElementOfSeq DEF TypeOK
<1>2. k \in 1 .. Len(asked) + 1 /\ k + 1 \in 1 .. Len(asked) + 1
  BY <1>1
<1> QED
  BY <1>1, <1>2 DEF Laid

\* The first end of a line stands where the first end in the stream does.
LEMMA FirstEnd ==
  ASSUME TypeOK, NEW crlf \in buffer_find_CRLF
  PROVE  /\ crlf \in Nat /\ crlf > 0 /\ crlf <= Len(input) /\ crlf <= Len(Stream)
         /\ input[crlf] = CRLF /\ Stream[crlf] = CRLF
         /\ \A m \in 1 .. crlf - 1 : input[m] = Stream[m] /\ Stream[m] # CRLF
<1>1. /\ crlf \in 1 .. Len(input) /\ input[crlf] = CRLF
      /\ \A m \in 1 .. crlf - 1 : input[m] # CRLF
  BY DEF buffer_find_CRLF, LineEnds
<1>2. /\ Len(input) \in Nat /\ Len(wire) \in Nat
      /\ Len(Stream) = Len(input) + Len(wire)
      /\ \A n \in 1 .. Len(input) : Stream[n] = input[n]
  BY StreamType
<1>3. crlf \in Nat /\ crlf > 0 /\ crlf <= Len(input) /\ crlf <= Len(Stream)
  BY <1>1, <1>2
<1>4. \A m \in 1 .. crlf - 1 : m \in 1 .. Len(input)
  BY <1>2, <1>3
<1> QED
  BY <1>1, <1>2, <1>3, <1>4

\* At a request line, the first end of a line is that line's, and nothing but a
\* body stands before it.
LEMMA BeforeLine ==
  ASSUME TypeOK, NEW start, AtRequestLine(start), Clear(Current),
         NEW crlf \in buffer_find_CRLF
  PROVE  /\ Current \in 1 .. Len(asked)
         /\ crlf = IF AfterBody THEN 3 ELSE 2
         /\ input[crlf - 1] = RequestLine(asked[Current])
         /\ AfterBody => input[1] = Words(0)
<1>1. /\ Laid(start) /\ Current <= Len(asked) + 1
      /\ start[Current] = IF AfterBody THEN 1 ELSE 0
      /\ Len(asked) \in Nat /\ Current \in Nat /\ Current > 0
  BY LenProperties DEF AtRequestLine, TypeOK, Current
<1>2. /\ crlf \in Nat /\ crlf > 0 /\ crlf <= Len(Stream)
      /\ Stream[crlf] = CRLF
      /\ \A m \in 1 .. crlf - 1 : input[m] = Stream[m] /\ Stream[m] # CRLF
  BY FirstEnd
<1>3. AfterBody => Stream[1] = Words(0)
  <2> SUFFICES ASSUME AfterBody PROVE Stream[1] = Words(0)
    OBVIOUS
  <2>1. PICK k, len : k = Current - 1 /\ len = Len(asked[k].headers)
    OBVIOUS
  <2>2. k \in 1 .. Len(asked) /\ asked[k].body = <<Words(0)>> /\ k + 1 = Current
    <3>1. k \in 1 .. Len(asked) /\ k < Current /\ k + 1 = Current
      BY <1>1, <2>1 DEF AfterBody
    <3>2. ~Spoils(asked[k]) /\ asked[k].body # <<>>
      BY <2>1, <3>1 DEF AfterBody, Clear
    <3> QED
      BY <3>1, <3>2 DEF Spoils
  <2>3. /\ asked[k] \in Request /\ start[k] \in Int
        /\ start[k + 1] = start[k] + Len(Text(asked[k]))
        /\ \A n \in 1 .. Len(Text(asked[k])) :
             start[k] + n > 0 => Stream[start[k] + n] = Text(asked[k])[n]
    BY <1>1, <2>2, LaidPlaces
  <2>4. /\ len \in Nat /\ Len(Text(asked[k])) = 2 * len + 4
        /\ Text(asked[k])[2 * len + 4] = Words(0)
    <3>1. /\ len \in Nat /\ Len(Text(asked[k])) = 2 * len + 3 + Len(asked[k].body)
          /\ Text(asked[k])[2 * len + 4] = Words(0)
      BY <2>1, <2>2, <2>3, TextPlaces, RequestParts
    <3>2. Len(asked[k].body) = 1
      BY <2>2, OneWord
    <3> QED
      BY <3>1, <3>2
  <2>5. start[k] + (2 * len + 4) = 1 /\ 2 * len + 4 \in 1 .. 2 * len + 4
    BY <1>1, <2>2, <2>3, <2>4
  <2>6. start[k] + (2 * len + 4) > 0
    BY <2>5
  <2> QED
    BY <2>3, <2>4, <2>5, <2>6
<1>4. Words(0) # CRLF /\ \A r \in Request : RequestLine(r) # CRLF
  BY TokenKinds, RequestLines
<1>5. Current # Len(asked) + 1
  <2> SUFFICES ASSUME Current = Len(asked) + 1 PROVE FALSE
    OBVIOUS
  <2>1. Len(Stream) = IF AfterBody THEN 1 ELSE 0
    BY <1>1 DEF Laid
  <2>2. crlf = 1 /\ AfterBody
    BY <1>2, <2>1
  <2> QED
    BY <1>2, <1>3, <1>4, <2>2
<1>6. PICK cur, b : cur = Current /\ b = IF AfterBody THEN 1 ELSE 0
  OBVIOUS
<1>7. cur \in 1 .. Len(asked)
  BY <1>1, <1>5, <1>6
<1>8. /\ Stream[b + 1] = RequestLine(asked[cur]) /\ Stream[b + 2] = CRLF
      /\ asked[cur] \in Request
  <2>1. PICK len : len = Len(asked[cur].headers)
    OBVIOUS
  <2>2. /\ asked[cur] \in Request /\ start[cur] = b
        /\ \A n \in 1 .. Len(Text(asked[cur])) :
             start[cur] + n > 0 => Stream[start[cur] + n] = Text(asked[cur])[n]
    BY <1>1, <1>6, <1>7, LaidPlaces
  <2>3. /\ len \in Nat
        /\ Len(Text(asked[cur])) = 2 * len + 3 + Len(asked[cur].body)
        /\ Text(asked[cur])[1] = RequestLine(asked[cur])
        /\ \A n \in 1 .. len + 1 : Text(asked[cur])[2 * n] = CRLF
        /\ Len(asked[cur].body) \in Nat
    BY <2>1, <2>2, TextPlaces, RequestParts
  <2>4. Text(asked[cur])[2] = CRLF
    <3>1. 1 \in 1 .. len + 1 /\ 2 * 1 = 2
      BY <2>3
    <3> QED
      BY <2>3, <3>1
  <2>5. 1 \in 1 .. Len(Text(asked[cur])) /\ 2 \in 1 .. Len(Text(asked[cur]))
    <3>1. PICK size, rest : size = Len(Text(asked[cur])) /\ rest = Len(asked[cur].body)
      OBVIOUS
    <3>2. size = 2 * len + 3 + rest /\ len \in Nat /\ rest \in Nat
      BY <2>3, <3>1
    <3>3. 1 \in 1 .. size /\ 2 \in 1 .. size
      BY ONLY <3>2
    <3> QED
      BY <3>1, <3>3
  <2>6. b + 1 > 0 /\ b + 2 > 0
    BY <1>6
  <2> QED
    BY <2>2, <2>3, <2>4, <2>5, <2>6
<1>9. crlf = b + 2
  <2>1. crlf # b + 1
    BY <1>2, <1>4, <1>8
  <2>2. b = 1 => crlf # 1
    BY <1>2, <1>3, <1>4, <1>6
  <2>3. ~(crlf > b + 2)
    <3> SUFFICES ASSUME crlf > b + 2 PROVE FALSE
      OBVIOUS
    <3>1. b + 2 \in 1 .. crlf - 1
      BY <1>2, <1>6
    <3> QED
      BY <1>2, <1>8, <3>1
  <2>4. b \in {0, 1}
    BY <1>6
  <2> QED
    BY <1>2, <2>1, <2>2, <2>3, <2>4
<1>10. input[b + 1] = Stream[b + 1] /\ (b = 1 => input[1] = Stream[1])
  <2>1. b + 1 \in 1 .. crlf - 1 /\ 1 \in 1 .. crlf - 1
    BY <1>6, <1>9
  <2> QED
    BY <1>2, <2>1
<1>11. crlf - 1 = b + 1 /\ crlf = IF AfterBody THEN 3 ELSE 2
  BY <1>6, <1>9
<1> QED
  BY <1>3, <1>6, <1>7, <1>8, <1>10, <1>11

\* After n headers, the first end of a line is that of the next header, or the
\* empty line after the last.
LEMMA HeaderPlaces ==
  ASSUME TypeOK, NEW start, Laid(start), NEW k \in 1 .. Len(asked),
         NEW n \in 0 .. Len(asked[k].headers), start[k] = -(2 * n + 2),
         NEW crlf \in buffer_find_CRLF
  PROVE  /\ n < Len(asked[k].headers) =>
              crlf = 2 /\ input[1] = asked[k].headers[n + 1]
         /\ n = Len(asked[k].headers) => crlf = 1
<1>1. /\ crlf \in Nat /\ crlf > 0
      /\ Stream[crlf] = CRLF
      /\ \A m \in 1 .. crlf - 1 : input[m] = Stream[m] /\ Stream[m] # CRLF
  BY FirstEnd
<1>2. PICK len : len = Len(asked[k].headers)
  OBVIOUS
<1>3. /\ asked[k] \in Request
      /\ \A i \in 1 .. Len(Text(asked[k])) :
           start[k] + i > 0 => Stream[start[k] + i] = Text(asked[k])[i]
  BY LaidPlaces
<1>4. /\ len \in Nat /\ n \in 0 .. len
      /\ asked[k].headers \in Seq(Header \cup AnyWords)
      /\ Len(Text(asked[k])) = 2 * len + 3 + Len(asked[k].body)
      /\ Len(asked[k].body) \in Nat
      /\ \A i \in 1 .. len : Text(asked[k])[2 * i + 1] = asked[k].headers[i]
      /\ \A i \in 1 .. len + 1 : Text(asked[k])[2 * i] = CRLF
      /\ Text(asked[k])[2 * len + 3] = CRLF
  BY <1>2, <1>3, TextPlaces, RequestParts
<1>a. PICK size, rest, from : /\ size = Len(Text(asked[k])) /\ rest = Len(asked[k].body)
                              /\ from = start[k]
  OBVIOUS
<1>b. /\ size = 2 * len + 3 + rest /\ len \in Nat /\ rest \in Nat /\ n \in 0 .. len
      /\ from = -(2 * n + 2)
  BY <1>4, <1>a
<1>c. /\ 2 * n + 3 \in 1 .. size
      /\ from + (2 * n + 3) = 1 /\ from + (2 * n + 3) > 0
      /\ n < len => /\ 2 * n + 4 \in 1 .. size
                    /\ from + (2 * n + 4) = 2 /\ from + (2 * n + 4) > 0
                    /\ n + 1 \in 1 .. len /\ 2 * (n + 1) + 1 = 2 * n + 3
                    /\ n + 2 \in 1 .. len + 1 /\ 2 * (n + 2) = 2 * n + 4
  BY ONLY <1>b
<1>5. Stream[1] = Text(asked[k])[2 * n + 3]
  <2>1. /\ 2 * n + 3 \in 1 .. Len(Text(asked[k]))
        /\ start[k] + (2 * n + 3) = 1 /\ start[k] + (2 * n + 3) > 0
    BY <1>a, <1>c
  <2> QED
    BY <1>3, <2>1
<1>6. CASE n < len
  <2>1. Stream[2] = Text(asked[k])[2 * n + 4]
    <3>1. /\ 2 * n + 4 \in 1 .. Len(Text(asked[k]))
          /\ start[k] + (2 * n + 4) = 2 /\ start[k] + (2 * n + 4) > 0
      BY <1>6, <1>a, <1>c
    <3> QED
      BY <1>3, <3>1
  <2>2. Stream[1] = asked[k].headers[n + 1] /\ Stream[2] = CRLF
    <3>1. /\ n + 1 \in 1 .. len /\ 2 * (n + 1) + 1 = 2 * n + 3
          /\ n + 2 \in 1 .. len + 1 /\ 2 * (n + 2) = 2 * n + 4
      BY <1>6, <1>c
    <3> QED
      BY <1>4, <1>5, <2>1, <3>1
  <2>3. Stream[1] # CRLF
    <3>1. n + 1 \in 1 .. len
      <4>1. len \in Nat /\ n \in 0 .. len /\ n < len
        BY <1>4, <1>6
      <4> QED
        BY ONLY <4>1
    <3>2. asked[k].headers[n + 1] \in Header \cup AnyWords
      BY <1>2, <1>4, <3>1, ElementOfSeq
    <3> QED
      BY <2>2, <3>2, TokenKinds
  <2>4. crlf # 1
    BY <1>1, <2>3
  <2>5. ~(crlf > 2)
    <3> SUFFICES ASSUME crlf > 2 PROVE FALSE
      OBVIOUS
    <3>1. 2 \in 1 .. crlf - 1
      BY <1>1
    <3> QED
      BY <1>1, <2>2, <3>1
  <2>6. crlf = 2
    BY <1>1, <2>4, <2>5
  <2>7. input[1] = Stream[1]
    <3>1. 1 \in 1 .. crlf - 1
      BY <2>6
    <3> QED
      BY <1>1, <3>1
  <2> QED
    BY <1>2, <1>4, <1>6, <2>2, <2>6, <2>7
<1>7. CASE n = len
  <2>1. Stream[1] = CRLF
    BY <1>4, <1>5, <1>7
  <2>2. ~(crlf > 1)
    <3> SUFFICES ASSUME crlf > 1 PROVE FALSE
      OBVIOUS
    <3>1. 1 \in 1 .. crlf - 1
      BY <1>1
    <3> QED
      BY <1>1, <2>1, <3>1
  <2> QED
    BY <1>1, <1>2, <1>4, <1>7, <2>2
<1> QED
  BY <1>4, <1>6, <1>7

\* The same, with the parser after n of len headers of r.
AfterHeader(start, r, len, n) ==
  /\ r = asked[Current] /\ len = Len(r.headers) /\ n \in 0 .. len
  /\ start[Current] = -(2 * n + 2)

NextLine(r, len, n, crlf) ==
  /\ n < len => crlf = 2 /\ input[1] = r.headers[n + 1]
  /\ n = len => crlf = 1

LEMMA NextLines ==
  ASSUME TypeOK, NEW start, Laid(start), Current \in 1 .. Len(asked),
         NEW r, NEW len, NEW n, AfterHeader(start, r, len, n),
         NEW crlf \in buffer_find_CRLF
  PROVE  NextLine(r, len, n, crlf)
<1>1. PICK k \in 1 .. Len(asked) : k = Current
  OBVIOUS
<1>2. /\ n \in 0 .. Len(asked[k].headers) /\ start[k] = -(2 * n + 2)
      /\ r = asked[k] /\ len = Len(asked[k].headers)
  BY <1>1 DEF AfterHeader
<1>3. /\ n < Len(asked[k].headers) => crlf = 2 /\ input[1] = asked[k].headers[n + 1]
      /\ n = Len(asked[k].headers) => crlf = 1
  BY <1>2, HeaderPlaces
<1> QED
  BY ONLY <1>2, <1>3 DEF NextLine

-----------------------------------------------------------------------------
(* The request parsed so far.                                              *)

\* The headers kept of a request: those of one more header are those of the ones
\* before it, and it, if there is room.
LEMMA KeptNext ==
  ASSUME NEW r \in Request, NEW n \in 0 .. Len(r.headers) - 1
  PROVE  /\ Kept(r, n) \in Seq(Header \cup AnyWords)
         /\ Kept(r, n + 1) = IF Len(Kept(r, n)) >= INIT_REQUEST_HEADER_SIZE
                             THEN Kept(r, n) ELSE Append(Kept(r, n), r.headers[n + 1])
<1> DEFINE T == Header \cup AnyWords
<1>1. /\ r.headers \in Seq(T) /\ Len(r.headers) \in Nat
      /\ \A i \in 1 .. Len(r.headers) : r.headers[i] \in T
  BY RequestParts, ElementOfSeq
<1> HIDE DEF T
<1>2. PICK hs, len, room : /\ hs = r.headers /\ len = Len(hs)
                           /\ room = INIT_REQUEST_HEADER_SIZE
  OBVIOUS
<1>3. /\ hs \in Seq(T) /\ len \in Nat /\ room \in Nat /\ n \in 0 .. len - 1
      /\ \A i \in 1 .. len : hs[i] \in T
  BY <1>1, <1>2, HttpAssumption
<1>4. \A m \in 0 .. len : /\ SubSeq(hs, 1, m) \in Seq(T) /\ Len(SubSeq(hs, 1, m)) = m
                          /\ \A i \in 1 .. m : SubSeq(hs, 1, m)[i] = hs[i]
  <2> SUFFICES ASSUME NEW m \in 0 .. len
               PROVE  /\ SubSeq(hs, 1, m) \in Seq(T) /\ Len(SubSeq(hs, 1, m)) = m
                      /\ \A i \in 1 .. m : SubSeq(hs, 1, m)[i] = hs[i]
    OBVIOUS
  <2>1. \A i \in 1 .. m : hs[i] \in T
    BY <1>3
  <2>2. /\ SubSeq(hs, 1, m) \in Seq(T)
        /\ Len(SubSeq(hs, 1, m)) = IF 1 <= m THEN m - 1 + 1 ELSE 0
        /\ \A i \in 1 .. m - 1 + 1 : SubSeq(hs, 1, m)[i] = hs[1 + i - 1]
    BY <1>3, <2>1, SubSeqProperties
  <2>3. m - 1 + 1 = m /\ (~(1 <= m) => m = 0) /\ \A i \in 1 .. m : 1 + i - 1 = i
    BY <1>3
  <2> QED
    BY <2>2, <2>3
<1>5. CASE n < room
  <2>1. Kept(r, n) = SubSeq(hs, 1, n) /\ Len(Kept(r, n)) = n /\ Kept(r, n) \in Seq(T)
    <3>1. n \in 0 .. len
      BY <1>3
    <3> QED
      BY <1>2, <1>4, <1>5, <3>1 DEF Kept
  <2>2. Kept(r, n + 1) = SubSeq(hs, 1, n + 1)
    <3>1. n + 1 < room \/ n + 1 = room
      BY <1>3, <1>5
    <3> QED
      BY <1>2, <3>1 DEF Kept
  <2>3. SubSeq(hs, 1, n + 1) = Append(SubSeq(hs, 1, n), hs[n + 1])
    <3>1. PICK a, b : a = SubSeq(hs, 1, n + 1) /\ b = Append(SubSeq(hs, 1, n), hs[n + 1])
      OBVIOUS
    <3>2. n \in 0 .. len /\ n + 1 \in 0 .. len /\ n + 1 \in 1 .. len
      BY <1>3
    <3>3. a \in Seq(T) /\ Len(a) = n + 1 /\ \A i \in 1 .. n + 1 : a[i] = hs[i]
      BY <1>4, <3>1, <3>2
    <3>4. /\ b \in Seq(T) /\ Len(b) = n + 1
          /\ \A i \in 1 .. n : b[i] = hs[i]
          /\ b[n + 1] = hs[n + 1]
      BY <1>3, <1>4, <3>1, <3>2, AppendProperties
    <3>5. \A i \in 1 .. Len(a) : a[i] = b[i]
      <4> SUFFICES ASSUME NEW i \in 1 .. n + 1 PROVE a[i] = b[i]
        BY <3>3
      <4>1. i \in 1 .. n \/ i = n + 1
        BY <1>3
      <4> QED
        BY <3>3, <3>4, <4>1
    <3> QED
      BY <3>1, <3>3, <3>4, <3>5, SeqEqual
  <2>4. ~(Len(Kept(r, n)) >= INIT_REQUEST_HEADER_SIZE)
    <3>1. ~(n >= room)
      BY <1>3, <1>5
    <3> QED
      BY <1>2, <2>1, <3>1
  <2>5. Kept(r, n + 1) = Append(Kept(r, n), r.headers[n + 1])
    BY <1>2, <2>1, <2>2, <2>3
  <2> QED
    BY <2>1, <2>4, <2>5 DEF T
<1>6. CASE ~(n < room)
  <2>1. /\ Kept(r, n) = SubSeq(hs, 1, room)
        /\ Kept(r, n + 1) = SubSeq(hs, 1, room)
    <3>1. ~(n + 1 < room)
      BY <1>3, <1>6
    <3> QED
      BY <1>2, <1>6, <3>1 DEF Kept
  <2>2. Len(Kept(r, n)) = room /\ Kept(r, n) \in Seq(T)
    <3>1. room \in 0 .. len
      BY <1>3, <1>6
    <3> QED
      BY <1>4, <2>1, <3>1
  <2>3. Len(Kept(r, n)) >= INIT_REQUEST_HEADER_SIZE
    <3>1. room >= room
      BY <1>3
    <3> QED
      BY <1>2, <2>2, <3>1
  <2> QED
    BY <2>1, <2>2, <2>3 DEF T
<1> QED
  BY <1>5, <1>6

\* Every header of a request is kept when there is room for all.
LEMMA KeptAll ==
  ASSUME NEW r \in Request, NEW n \in 0 .. Len(r.headers)
  PROVE  /\ Len(Kept(r, n)) \in Nat /\ Len(Kept(r, n)) <= Len(r.headers)
         /\ \A i \in 1 .. Len(Kept(r, n)) : Kept(r, n)[i] = r.headers[i]
         /\ n = Len(r.headers) => Kept(r, n) = FirstOf(INIT_REQUEST_HEADER_SIZE, r.headers)
         /\ n = Len(r.headers) /\ n <= INIT_REQUEST_HEADER_SIZE => Kept(r, n) = r.headers
<1> DEFINE T == Header \cup AnyWords
<1>1. /\ r.headers \in Seq(T) /\ Len(r.headers) \in Nat
      /\ \A i \in 1 .. Len(r.headers) : r.headers[i] \in T
  BY RequestParts, ElementOfSeq
<1> HIDE DEF T
<1>2. PICK hs, len, room, m :
        /\ hs = r.headers /\ len = Len(hs) /\ room = INIT_REQUEST_HEADER_SIZE
        /\ m = IF n < room THEN n ELSE room
  OBVIOUS
<1>3. /\ hs \in Seq(T) /\ len \in Nat /\ room \in Nat /\ n \in 0 .. len
      /\ m \in 0 .. len
      /\ \A i \in 1 .. len : hs[i] \in T
  BY <1>1, <1>2, HttpAssumption
<1>4. Kept(r, n) = SubSeq(hs, 1, m)
  BY <1>2 DEF Kept
<1>5. /\ Len(Kept(r, n)) = m
      /\ \A i \in 1 .. m : Kept(r, n)[i] = hs[i]
  <2>1. \A i \in 1 .. m : hs[i] \in T
    BY <1>3
  <2>2. /\ Len(SubSeq(hs, 1, m)) = IF 1 <= m THEN m - 1 + 1 ELSE 0
        /\ \A i \in 1 .. m - 1 + 1 : SubSeq(hs, 1, m)[i] = hs[1 + i - 1]
    BY <1>3, <2>1, SubSeqProperties
  <2>3. m - 1 + 1 = m /\ (~(1 <= m) => m = 0) /\ \A i \in 1 .. m : 1 + i - 1 = i
    BY <1>3
  <2> QED
    BY <1>4, <2>2, <2>3
<1>6. n = len => Kept(r, n) = FirstOf(room, hs)
  BY <1>2, <1>4 DEF FirstOf
<1>7. n = len /\ n <= room => Kept(r, n) = hs
  <2> SUFFICES ASSUME n = len, n <= room PROVE Kept(r, n) = hs
    OBVIOUS
  <2>1. m = Len(hs)
    BY <1>2, <1>3
  <2> QED
    BY <1>3, <1>4, <2>1, SubSeqFull
<1> QED
  BY <1>2, <1>3, <1>5, <1>6, <1>7

\* The cookies depend on the headers kept and on those there were.
LEMMA CookiesFrom ==
  ASSUME NEW q, NEW p, q.request_headers = p.request_headers, q.cookies = p.cookies
  PROVE  http_request_parse_cookies(q) = http_request_parse_cookies(p)
BY DEF http_request_parse_cookies, http_request_get_header

\* At the end of a request its callback gets it as the client has sent it.
LEMMA DoneIsSeen ==
  ASSUME TypeOK, NEW start, AtDone(start)
  PROVE  LET r == asked[Current]
         IN http_req = IF AfterBody THEN [Seen(r) EXCEPT !.method = "UNKNOWN"] ELSE Seen(r)
<1>1. PICK r : r = asked[Current]
  OBVIOUS
<1>2. r \in Request
  <2>1. Current \in 1 .. Len(asked)
    BY LenProperties DEF AtDone, Current, TypeOK
  <2> QED
    BY <1>1, <2>1, ElementOfSeq DEF TypeOK
<1>3. http_req \in HttpRequest
  BY DEF TypeOK
<1>4. /\ http_req.current_state = "REQUEST_DONE"
      /\ http_req.method = IF AfterBody THEN "UNKNOWN" ELSE r.method
      /\ http_req.version = r.version
      /\ http_req.query_params = AddPairs(MAX_QUERY_PARAMS, <<>>, r.query)
      /\ http_req.request_headers = Kept(r, Len(r.headers))
      /\ http_req.cookies =
           http_request_parse_cookies([http_req EXCEPT !.cookies = <<>>])
  BY <1>1 DEF AtDone, Parsed
<1>5. http_req.request_headers = FirstOf(INIT_REQUEST_HEADER_SIZE, r.headers)
  <2>1. Len(r.headers) \in 0 .. Len(r.headers)
    BY <1>2, RequestParts
  <2> QED
    BY <1>2, <1>4, <2>1, KeptAll
<1>6. PICK kept : kept = FirstOf(INIT_REQUEST_HEADER_SIZE, r.headers)
  OBVIOUS
<1>7. PICK q : q = [http_request_new EXCEPT !.request_headers = kept]
  OBVIOUS
<1>8. q.request_headers = kept /\ q.cookies = <<>> /\ q.query_params = <<>>
  BY <1>7 DEF http_request_new
<1>9. PICK params, cookies : /\ params = http_request_parse_query_string(q, r.query)
                             /\ cookies = http_request_parse_cookies(q)
  OBVIOUS
<1>10. http_req.query_params = params
  BY <1>4, <1>8, <1>9 DEF http_request_parse_query_string
<1>11. http_req.cookies = cookies
  <2>1. PICK p : p = [http_req EXCEPT !.cookies = <<>>]
    OBVIOUS
  <2>2. p.request_headers = kept /\ p.cookies = <<>>
    BY <1>3, <1>5, <1>6, <2>1 DEF HttpRequest
  <2>3. http_request_parse_cookies(p) = cookies
    BY <1>8, <1>9, <2>2, CookiesFrom
  <2> QED
    BY <1>4, <2>1, <2>3
<1>12. Seen(r) = [q EXCEPT !.current_state = "REQUEST_DONE",
                           !.method = r.method,
                           !.version = r.version,
                           !.query_params = params,
                           !.cookies = cookies]
  BY <1>6, <1>7, <1>9 DEF Seen
<1>13. Seen(r) = [current_state |-> "REQUEST_DONE", method |-> r.method,
                  version |-> r.version, query_params |-> params,
                  request_headers |-> kept, cookies |-> cookies]
  BY <1>7, <1>12 DEF http_request_new
<1>14. http_req = [current_state |-> "REQUEST_DONE",
                   method |-> IF AfterBody THEN "UNKNOWN" ELSE r.method,
                   version |-> r.version, query_params |-> params,
                   request_headers |-> kept, cookies |-> cookies]
  BY <1>3, <1>4, <1>5, <1>6, <1>10, <1>11 DEF HttpRequest
<1> QED
  BY <1>1, <1>13, <1>14

\* What the answer looks at is the request's own Connection header, when that
\* is among those kept.
LEMMA ConnectionKept ==
  ASSUME NEW r \in Request, NEW n \in 0 .. Len(r.headers), NEW q \in HttpRequest,
         q.request_headers = Kept(r, n)
  PROVE  /\ http_request_get_header(q, "Connection") \subseteq ConnectionHeader(r)
         /\ Kept(r, n) = r.headers =>
              http_request_get_header(q, "Connection") = ConnectionHeader(r)
<1>1. PICK kept, hs : kept = Kept(r, n) /\ hs = r.headers
  OBVIOUS
<1>2. /\ Len(kept) \in Nat /\ Len(hs) \in Nat /\ Len(kept) <= Len(hs)
      /\ \A i \in 1 .. Len(kept) : kept[i] = hs[i]
  BY <1>1, KeptAll, RequestParts
<1>3. \A i \in 1 .. Len(kept) : kept[i] \in Header
  <2>1. kept \in Seq(Header)
    BY <1>1 DEF HttpRequest
  <2> QED
    BY <2>1, ElementOfSeq
<1>4. \A h \in Header : IsConnection(h) <=> h.key = "Connection"
  BY DEF IsConnection, Header
<1>5. /\ \A i \in 1 .. Len(kept) : i \in 1 .. Len(hs)
      /\ \A i \in 1 .. Len(kept) : \A j \in 1 .. i - 1 : j \in 1 .. Len(kept)
  BY <1>2
<1>6. http_request_get_header(q, "Connection") =
        {kept[i] : i \in {m \in 1 .. Len(kept) :
                            /\ kept[m].key = "Connection"
                            /\ \A l \in 1 .. m - 1 : kept[l].key # "Connection"}}
  BY <1>1 DEF http_request_get_header
<1>7. ConnectionHeader(r) =
        {hs[i] : i \in {m \in 1 .. Len(hs) :
                          /\ IsConnection(hs[m])
                          /\ \A l \in 1 .. m - 1 : ~IsConnection(hs[l])}}
  BY <1>1 DEF ConnectionHeader
<1>8. ASSUME NEW m \in 1 .. Len(kept)
      PROVE  /\ kept[m].key = "Connection" <=> IsConnection(hs[m])
             /\ (\A l \in 1 .. m - 1 : kept[l].key # "Connection")
                  <=> (\A l \in 1 .. m - 1 : ~IsConnection(hs[l]))
  <2>1. \A l \in 1 .. Len(kept) : kept[l].key = "Connection" <=> IsConnection(hs[l])
    BY <1>2, <1>3, <1>4
  <2> QED
    BY <1>5, <2>1
<1>9. http_request_get_header(q, "Connection") \subseteq ConnectionHeader(r)
  <2> SUFFICES ASSUME NEW m \in 1 .. Len(kept), kept[m].key = "Connection",
                      \A l \in 1 .. m - 1 : kept[l].key # "Connection"
               PROVE  kept[m] \in ConnectionHeader(r)
    BY <1>6
  <2>1. m \in 1 .. Len(hs) /\ kept[m] = hs[m]
    BY <1>2, <1>5
  <2>2. IsConnection(hs[m]) /\ \A l \in 1 .. m - 1 : ~IsConnection(hs[l])
    BY <1>8
  <2> QED
    BY <1>7, <2>1, <2>2
<1>10. ASSUME kept = hs
       PROVE  ConnectionHeader(r) \subseteq http_request_get_header(q, "Connection")
  <2> SUFFICES ASSUME NEW m \in 1 .. Len(hs), IsConnection(hs[m]),
                      \A l \in 1 .. m - 1 : ~IsConnection(hs[l])
               PROVE  hs[m] \in http_request_get_header(q, "Connection")
    BY <1>7
  <2>1. m \in 1 .. Len(kept) /\ hs[m] = kept[m]
    BY <1>10
  <2>2. kept[m].key = "Connection" /\ \A l \in 1 .. m - 1 : kept[l].key # "Connection"
    BY <1>8, <2>1
  <2> QED
    BY <1>6, <2>1, <2>2
<1> QED
  BY <1>1, <1>9, <1>10

-----------------------------------------------------------------------------
(* Every step takes the parser from one of its places to another.          *)

\* A request is laid behind the ones before it.
LEMMA LaidSend ==
  ASSUME TypeOK, NEW start, Laid(start), NEW r \in Request, Send(r)
  PROVE  \E begin : /\ Laid(begin)'
                    /\ \A k \in 1 .. Len(asked) + 1 : begin[k] = start[k]
<1>1. PICK last, ls, len : last = Len(asked) /\ ls = Len(Stream) /\ len = Len(Text(r))
  OBVIOUS
<1>2. /\ last \in Nat /\ ls \in Nat /\ len \in Nat
      /\ Text(r) \in Seq(Token) /\ Stream \in Seq(Token)
      /\ input \in Seq(Token) /\ wire \in Seq(Token) /\ asked \in Seq(Request)
  BY <1>1, StreamType, TextPlaces, LenProperties DEF TypeOK
<1>3. /\ Len(asked') = last + 1
      /\ \A k \in 1 .. last : asked'[k] = asked[k]
      /\ asked'[last + 1] = r
  BY <1>1, <1>2, AppendProperties DEF Send
<1>4. Stream' = Stream \o Text(r)
  <2>1. \A s, t, u \in Seq(Token) : (s \o t) \o u = s \o (t \o u)
    BY ThreeParts
  <2>2. PICK text : text = Text(r)
    OBVIOUS
  <2>3. (input \o wire) \o text = input \o (wire \o text)
    BY <1>2, <2>1, <2>2
  <2> QED
    BY <2>2, <2>3 DEF Stream, Send
<1>5. /\ Len(Stream') = ls + len
      /\ \A i \in 1 .. ls : Stream'[i] = Stream[i]
      /\ \A i \in 1 .. len : Stream'[ls + i] = Text(r)[i]
  <2>1. /\ Len(Stream') = ls + len
        /\ \A i \in 1 .. ls + len :
             Stream'[i] = IF i <= ls THEN Stream[i] ELSE Text(r)[i - ls]
    BY <1>1, <1>2, <1>4, ConcatProperties
  <2>2. /\ \A i \in 1 .. ls : i \in 1 .. ls + len /\ i <= ls
        /\ \A i \in 1 .. len : /\ ls + i \in 1 .. ls + len /\ ~(ls + i <= ls)
                               /\ (ls + i) - ls = i
    BY <1>2
  <2> QED
    BY <2>1, <2>2
<1>6. /\ start \in [1 .. last + 1 -> Int]
      /\ start[last + 1] = ls
      /\ \A k \in 1 .. last :
           /\ start[k + 1] = start[k] + Len(Text(asked[k]))
           /\ start[k + 1] <= ls
           /\ \A n \in 1 .. Len(Text(asked[k])) :
                start[k] + n > 0 => Stream[start[k] + n] = Text(asked[k])[n]
  BY <1>1 DEF Laid
<1>7. PICK begin : begin = [k \in 1 .. last + 2 |-> IF k <= last + 1 THEN start[k] ELSE ls + len]
  OBVIOUS
<1>8. /\ begin \in [1 .. last + 2 -> Int]
      /\ \A k \in 1 .. last + 1 : begin[k] = start[k]
      /\ begin[last + 2] = ls + len
  <2>1. /\ \A k \in 1 .. last + 1 : k \in 1 .. last + 2 /\ k <= last + 1
        /\ last + 2 \in 1 .. last + 2 /\ ~(last + 2 <= last + 1)
        /\ ls + len \in Int
        /\ \A k \in 1 .. last + 2 : k <= last + 1 => k \in 1 .. last + 1
    BY <1>2
  <2> QED
    BY <1>6, <1>7, <2>1
<1>9. ASSUME NEW k \in 1 .. last
      PROVE  /\ begin[k + 1] = begin[k] + Len(Text(asked'[k]))
             /\ begin[k + 1] <= ls + len
             /\ \A n \in 1 .. Len(Text(asked'[k])) :
                  begin[k] + n > 0 => Stream'[begin[k] + n] = Text(asked'[k])[n]
  <2>1. PICK size, sk, sn : /\ size = Len(Text(asked[k]))
                            /\ sk = start[k] /\ sn = start[k + 1]
    OBVIOUS
  <2>2. size \in Nat
    <3>1. asked[k] \in Request
      BY <1>1, <1>2, ElementOfSeq
    <3> QED
      BY <2>1, <3>1, TextPlaces, LenProperties
  <2>3. k \in 1 .. last + 1 /\ k + 1 \in 1 .. last + 1
    BY <1>2
  <2>4. /\ sk \in Int /\ sn \in Int /\ sn = sk + size /\ sn <= ls
        /\ begin[k] = sk /\ begin[k + 1] = sn /\ asked'[k] = asked[k]
    BY <1>3, <1>6, <1>8, <2>1, <2>3
  <2>5. sn <= ls + len
    BY <1>2, <2>4
  <2>6. ASSUME NEW n \in 1 .. size, sk + n > 0
        PROVE  Stream'[sk + n] = Text(asked[k])[n]
    <3>1. sk + n \in 1 .. ls
      BY <1>2, <2>2, <2>4, <2>6
    <3> QED
      BY <1>5, <1>6, <2>1, <2>6, <3>1
  <2> QED
    BY <2>1, <2>4, <2>5, <2>6
<1>10. /\ begin[(last + 1) + 1] = begin[last + 1] + len
       /\ begin[(last + 1) + 1] <= ls + len
       /\ \A n \in 1 .. len :
            begin[last + 1] + n > 0 => Stream'[begin[last + 1] + n] = Text(r)[n]
  <2>1. (last + 1) + 1 = last + 2 /\ last + 1 \in 1 .. last + 1 /\ ls + len <= ls + len
    BY <1>2
  <2> QED
    BY <1>5, <1>6, <1>8, <2>1
<1>11. \A k \in 1 .. last + 1 :
         /\ begin[k + 1] = begin[k] + Len(Text(asked'[k]))
         /\ begin[k + 1] <= ls + len
         /\ \A n \in 1 .. Len(Text(asked'[k])) :
              begin[k] + n > 0 => Stream'[begin[k] + n] = Text(asked'[k])[n]
  <2> SUFFICES ASSUME NEW k \in 1 .. last + 1
               PROVE  /\ begin[k + 1] = begin[k] + Len(Text(asked'[k]))
                      /\ begin[k + 1] <= ls + len
                      /\ \A n \in 1 .. Len(Text(asked'[k])) :
                           begin[k] + n > 0 => Stream'[begin[k] + n] = Text(asked'[k])[n]
    OBVIOUS
  <2>1. k \in 1 .. last \/ k = last + 1
    BY <1>2
  <2>2. CASE k = last + 1
    BY <1>1, <1>3, <1>10, <2>2
  <2> QED
    BY <1>9, <2>1, <2>2
<1>12. Laid(begin)'
  <2>1. Len(asked') + 1 = last + 2
    BY <1>2, <1>3
  <2>2. begin \in [1 .. Len(asked') + 1 -> Int] /\ begin[Len(asked') + 1] = Len(Stream')
    BY <1>5, <1>8, <2>1
  <2> QED
    BY ONLY <1>3, <1>5, <1>11, <2>2 DEF Laid
<1> QED
  BY <1>1, <1>8, <1>12

\* What is asked for leaves what was asked for before, and the parser, alone.
LEMMA ParserSend ==
  ASSUME TypeOK, NEW start, Parser(start), NEW r \in Request, Send(r)
  PROVE  \E begin : Parser(begin)'
<1>1. /\ Len(asked) \in Nat /\ Len(asked') = Len(asked) + 1
      /\ \A k \in 1 .. Len(asked) : asked'[k] = asked[k]
      /\ Len(handled) \in Nat /\ Current \in Nat /\ Current > 0
      /\ UNCHANGED <<input, http_req, handled>>
  BY AppendProperties, LenProperties DEF Send, TypeOK, Current
<1>2. /\ Current' = Current
      /\ Current <= Len(asked) + 1 => AfterBody' = AfterBody
  <2>1. Current <= Len(asked) + 1 /\ Current > 1 => Current - 1 \in 1 .. Len(asked)
    BY <1>1
  <2> QED
    BY <1>1, <2>1 DEF Current, AfterBody
<1>3. Current <= Len(asked) => Current \in 1 .. Len(asked) /\ Current <= Len(asked) + 1
  BY <1>1
<1>4. Current <= Len(asked) =>
        /\ asked'[Current'] = asked[Current]
        /\ \A n : Parsed(asked[Current], n) => Parsed(asked[Current], n)'
  BY <1>1, <1>2, <1>3 DEF Parsed
<1>5. CASE AtBare
  <2>1. Current' <= Len(asked')
    BY <1>1, <1>2, <1>5 DEF AtBare
  <2>2. AtBare'
    BY <1>1, <1>4, <1>5, <2>1 DEF AtBare
  <2> QED
    BY <2>2 DEF Parser
<1>6. CASE Laid(start) /\ ~AtBare
  <2>1. PICK begin : /\ Laid(begin)'
                     /\ \A k \in 1 .. Len(asked) + 1 : begin[k] = start[k]
    BY <1>6, LaidSend
  <2>2. Current <= Len(asked) + 1 => begin[Current'] = start[Current]
    <3>1. Current <= Len(asked) + 1 => Current \in 1 .. Len(asked) + 1
      BY <1>1
    <3> QED
      BY <1>2, <2>1, <3>1
  <2>3. CASE AtRequestLine(start)
    <3>1. Current' <= Len(asked') + 1
      BY <1>1, <1>2, <2>3 DEF AtRequestLine
    <3>2. AtRequestLine(begin)'
      BY <1>1, <1>2, <2>1, <2>2, <2>3, <3>1 DEF AtRequestLine
    <3> QED
      BY <3>2 DEF Parser
  <2>4. CASE AtHeaders(start)
    <3>1. Current <= Len(asked) /\ Current <= Len(asked) + 1 /\ Current' <= Len(asked')
      BY <1>1, <1>2, <1>3, <2>4 DEF AtHeaders
    <3>2. AtHeaders(begin)'
      BY <1>1, <1>4, <2>1, <2>2, <2>4, <3>1 DEF AtHeaders
    <3> QED
      BY <3>2 DEF Parser
  <2>5. CASE AtDone(start)
    <3>1. Current <= Len(asked) /\ Current <= Len(asked) + 1 /\ Current' <= Len(asked')
      BY <1>1, <1>2, <1>3, <2>5 DEF AtDone
    <3>2. AtDone(begin)'
      BY <1>1, <1>4, <2>1, <2>2, <2>5, <3>1 DEF AtDone
    <3> QED
      BY <3>2 DEF Parser
  <2> QED
    BY <1>6, <2>3, <2>4, <2>5 DEF Parser
<1> QED
  BY <1>5, <1>6 DEF Parser, AtRequestLine, AtHeaders, AtDone

\* Neither does what is read.
LEMMA ParserRead ==
  ASSUME TypeOK, NEW start, Parser(start), handle_read
  PROVE  Parser(start)'
<1>1. Stream' = Stream
  BY StreamRead
<1>2. UNCHANGED <<http_req, asked, handled>>
  BY DEF handle_read
<1>3. Current' = Current /\ AfterBody' = AfterBody
  BY <1>2 DEF Current, AfterBody
<1>4. \A r, n : Parsed(r, n) => Parsed(r, n)'
  BY <1>2, <1>3 DEF Parsed
<1>5. Laid(start) => Laid(start)'
  BY <1>1, <1>2 DEF Laid
<1>6. AtRequestLine(start) => AtRequestLine(start)'
  BY <1>2, <1>3, <1>5 DEF AtRequestLine
<1>7. AtHeaders(start) => AtHeaders(start)'
  BY <1>2, <1>3, <1>4, <1>5 DEF AtHeaders
<1>8. AtDone(start) => AtDone(start)'
  BY <1>2, <1>3, <1>4, <1>5 DEF AtDone
<1>9. AtBare => AtBare'
  BY <1>2, <1>3, <1>4 DEF AtBare
<1> QED
  BY <1>6, <1>7, <1>8, <1>9 DEF Parser

\* The parser's own steps leave what was asked for and what was handled alone.
LEMMA ParserFrame ==
  ASSUME process_status_line \/ ParseHeader \/ ParseHeadersEnd
  PROVE  /\ UNCHANGED <<wire, asked, handled>>
         /\ Current' = Current /\ AfterBody' = AfterBody
<1>1. UNCHANGED <<wire, asked, handled>>
  BY DEF process_status_line, ParseHeader, ParseHeadersEnd
<1> QED
  BY <1>1 DEF Current, AfterBody

\* A line taken whole: every request begins that much earlier in what is left.
LEMMA LineTaken ==
  ASSUME TypeOK, NEW start, Laid(start), NEW crlf \in buffer_find_CRLF,
         input' = SubSeq(input, crlf + 1, Len(input)), UNCHANGED <<wire, asked>>,
         Current \in 1 .. Len(asked), Current' = Current
  PROVE  \E begin : Laid(begin)' /\ begin[Current'] = start[Current] - crlf
<1>1. crlf \in 1 .. Len(input)
  BY DEF buffer_find_CRLF, LineEnds
<1>2. PICK begin : begin = [k \in 1 .. Len(asked) + 1 |-> start[k] - crlf]
  OBVIOUS
<1>3. Laid(begin)'
  BY <1>1, <1>2, StreamTaken
<1>4. Len(asked) \in Nat
  BY LenProperties DEF TypeOK
<1>5. Current \in 1 .. Len(asked) + 1
  BY <1>4
<1>6. begin[Current'] = start[Current] - crlf
  BY <1>2, <1>5
<1> QED
  BY <1>3, <1>6

\* At a request line the parser finds one, and goes on to the headers; one that
\* lacks a blank ends the process.
LEMMA LineStep ==
  ASSUME TypeOK, NEW start, AtRequestLine(start), Clear(Current), process_status_line
  PROVE  /\ Current \in 1 .. Len(asked)
         /\ \/ asked[Current].blanks < 2 /\ process' = "aborted"
            \/ process' = process /\ \E begin : AtHeaders(begin)'
<1>1. PICK crlf, line :
        /\ crlf \in buffer_find_CRLF
        /\ line = SubSeq(input, 1, crlf - 1)
        /\ \/ /\ RequestLineTaken(line) \/ OtherLineTaken(line)
              /\ input' = SubSeq(input, crlf + 1, Len(input))
              /\ UNCHANGED process
           \/ /\ MayLackBlanks(line)
              /\ process' = "aborted"
  BY DEF process_status_line
<1>2. PICK r, b, text : /\ r = asked[Current] /\ b = IF AfterBody THEN 1 ELSE 0
                        /\ text = RequestLine(r)
  OBVIOUS
<1>3. /\ Current \in 1 .. Len(asked)
      /\ crlf = b + 2
      /\ input[b + 1] = text
      /\ b = 1 => input[1] = Words(0)
  <2>1. /\ Current \in 1 .. Len(asked)
        /\ crlf = IF AfterBody THEN 3 ELSE 2
        /\ input[crlf - 1] = text
        /\ AfterBody => input[1] = Words(0)
    BY <1>1, <1>2, BeforeLine
  <2> QED
    BY <1>2, <2>1
<1>4. /\ input \in Seq(Token) /\ Len(input) \in Nat
      /\ \A i \in 1 .. Len(input) : input[i] \in Token
      /\ crlf \in Nat /\ crlf <= Len(input)
  BY <1>1, StreamType, FirstEnd
<1>5. r \in Request
  BY <1>2, <1>3, ElementOfSeq DEF TypeOK
<1>6. b \in {0, 1} /\ b + 1 \in 1 .. b + 1 /\ 1 \in 1 .. b + 1
  BY <1>2
<1>7. /\ line \in Seq(Token) /\ Len(line) = b + 1
      /\ \A i \in 1 .. b + 1 : line[i] = input[i]
  <2>1. crlf - 1 = b + 1
    BY <1>3, <1>6
  <2>2. \A i \in 1 .. b + 1 : input[i] \in Token
    BY <1>3, <1>4, <1>6
  <2>3. /\ line \in Seq(Token)
        /\ Len(line) = IF 1 <= b + 1 THEN (b + 1) - 1 + 1 ELSE 0
        /\ \A i \in 1 .. (b + 1) - 1 + 1 : line[i] = input[1 + i - 1]
    BY <1>1, <1>4, <2>1, <2>2, SubSeqProperties
  <2>4. (b + 1) - 1 + 1 = b + 1 /\ 1 <= b + 1 /\ \A i \in 1 .. b + 1 : 1 + i - 1 = i
    BY <1>6
  <2> QED
    BY <2>3, <2>4
<1>8. line[b + 1] = text /\ (b = 1 => line[1] = Words(0)) /\ line[Len(line)] = text
  BY <1>3, <1>6, <1>7
<1>a. CASE r.blanks # 2
  <2>1. text.type = "words" /\ text.blanks \in {0, 1} /\ r.blanks < 2
    BY <1>2, <1>5, <1>a, RequestLines, RequestParts
  <2>2. ~IsRequestLine(line)
    BY <1>8, <2>1 DEF IsRequestLine
  <2>3. \A m \in 1 .. Len(line) :
          /\ line[m].type = "words" /\ line[m].blanks \in {0, 1}
          /\ m # b + 1 => line[m].blanks = 0
    <3> SUFFICES ASSUME NEW m \in 1 .. b + 1
                 PROVE  /\ line[m].type = "words" /\ line[m].blanks \in {0, 1}
                        /\ m # b + 1 => line[m].blanks = 0
      BY <1>7
    <3>1. m = b + 1 \/ (m = 1 /\ b = 1)
      BY <1>6
    <3> QED
      BY <1>8, <2>1, <3>1, TokenKinds
  <2>4. ~MayBeStatusLine(line)
    <3> SUFFICES ASSUME NEW m \in 1 .. Len(line), NEW n \in 1 .. Len(line),
                        \/ MayHaveTwo(line[m])
                        \/ m # n /\ HasBlank(line[m]) /\ HasBlank(line[n])
                 PROVE  FALSE
      BY DEF MayBeStatusLine
    <3>1. ~MayHaveTwo(line[m])
      BY <2>3 DEF MayHaveTwo
    <3>2. HasBlank(line[m]) => m = b + 1
      BY <2>3 DEF HasBlank
    <3>3. HasBlank(line[n]) => n = b + 1
      BY <2>3 DEF HasBlank
    <3> QED
      BY <3>1, <3>2, <3>3
  <2>5. process' = "aborted"
    BY <1>1, <2>2, <2>4 DEF RequestLineTaken, OtherLineTaken
  <2> QED
    BY <1>2, <1>3, <2>1, <2>5
<1>b. CASE r.blanks = 2
  <2>a. /\ text.type = "request" /\ text.method = r.method
        /\ text.version = r.version /\ text.query = r.query
    BY <1>2, <1>5, <1>b, RequestLines
  <2>b. IsRequestLine(line)
    <3>1. \A m \in 1 .. (b + 1) - 1 : m = 1 /\ b = 1
      BY <1>6
    <3>2. b + 1 > 0
      BY <1>6
    <3> QED
      BY <1>7, <1>8, <2>a, <3>1, <3>2 DEF IsRequestLine
  <2>c. ~MayLackBlanks(line)
    <3>1. HasTwo(line[Len(line)])
      BY <1>8, <2>a DEF HasTwo, MayHaveTwo
    <3>2. Len(line) \in 1 .. Len(line)
      BY <1>6, <1>7
    <3> QED
      BY <3>1, <3>2 DEF MayLackBlanks
  <2>9. http_request_get_method(line) = IF AfterBody THEN "UNKNOWN" ELSE r.method
    <3>1. CASE AfterBody
      <4>1. Len(line) # 1
        BY <1>2, <1>7, <3>1
      <4> QED
        BY <3>1, <4>1 DEF http_request_get_method
    <3>2. CASE ~AfterBody
      <4>1. Len(line) = 1 /\ line[1] = RequestLine(r)
        BY <1>2, <1>7, <1>8, <3>2
      <4> QED
        BY <1>2, <2>a, <3>2, <4>1 DEF http_request_get_method
    <3> QED
      BY <3>1, <3>2
  <2>10. text.version = r.version /\ text.query = r.query
    BY <2>a
  <2>11. /\ http_req = http_request_new /\ Laid(start)
         /\ start[Current] = b
    BY <1>2 DEF AtRequestLine
  <2>12. /\ http_req' = [http_req EXCEPT
                        !.method = http_request_get_method(line),
                        !.version = text.version,
                        !.query_params =
                           http_request_parse_query_string(http_req, text.query),
                        !.current_state = "REQUEST_HEADERS"]
         /\ input' = SubSeq(input, crlf + 1, Len(input))
         /\ UNCHANGED process
    BY <1>1, <1>8, <2>b, <2>c DEF RequestLineTaken, OtherLineTaken
  <2>13. PICK method, params :
           /\ method = IF AfterBody THEN "UNKNOWN" ELSE r.method
           /\ params = AddPairs(MAX_QUERY_PARAMS, <<>>, r.query)
    OBVIOUS
  <2>14. params = http_request_parse_query_string(http_req, text.query)
    BY <2>10, <2>11, <2>13 DEF http_request_parse_query_string, http_request_new
  <2>15. http_req' = [current_state |-> "REQUEST_HEADERS", method |-> method,
                      version |-> r.version, query_params |-> params,
                      request_headers |-> <<>>, cookies |-> <<>>]
    <3>1. http_req' = [http_request_new EXCEPT
                        !.method = method, !.version = r.version,
                        !.query_params = params,
                        !.current_state = "REQUEST_HEADERS"]
      BY <2>9, <2>10, <2>11, <2>12, <2>13, <2>14
    <3> QED
      BY <3>1 DEF http_request_new
  <2>16. Kept(r, 0) = <<>>
    <3>1. (IF 0 < INIT_REQUEST_HEADER_SIZE THEN 0 ELSE INIT_REQUEST_HEADER_SIZE) = 0
      BY HttpAssumption
    <3>2. Kept(r, 0) = SubSeq(r.headers, 1, 0)
      BY <3>1 DEF Kept
    <3> QED
      BY <1>5, <3>2, RequestParts, SubSeqEmpty
  <2>17. UNCHANGED <<wire, asked, handled>> /\ Current' = Current /\ AfterBody' = AfterBody
    BY ParserFrame
  <2>18. PICK begin : Laid(begin)' /\ begin[Current'] = start[Current] - crlf
    <3>1. crlf \in buffer_find_CRLF /\ input' = SubSeq(input, crlf + 1, Len(input))
      BY <1>1, <2>12
    <3> QED
      BY <1>3, <2>11, <2>17, <3>1, LineTaken
  <2>19. begin[Current'] = -(2 * 0 + 2)
    BY <1>3, <1>6, <2>11, <2>18
  <2>20. Parsed(r, 0)'
    BY <2>13, <2>15, <2>16, <2>17 DEF Parsed
  <2>21. 0 \in 0 .. Len(r.headers) /\ Current' <= Len(asked') /\ asked'[Current'] = r
    BY <1>2, <1>3, <1>5, <2>17, RequestParts
  <2>22. \A m \in 1 .. 0 : r.headers[m].type = "header"
    OBVIOUS
  <2>23. http_req'.current_state = "REQUEST_HEADERS" /\ http_req'.cookies = <<>>
    BY <2>15
  <2>24. AtHeaders(begin)'
    BY <2>18, <2>19, <2>20, <2>21, <2>22, <2>23 DEF AtHeaders
  <2> QED
    BY <1>3, <2>12, <2>24
<1> QED
  BY <1>a, <1>b

\* A header is added, or dropped when there is no room for it.
LEMMA HeaderStep ==
  ASSUME TypeOK, NEW start, AtHeaders(start), ParseHeader
  PROVE  \E begin : AtHeaders(begin)'
<1>1. PICK crlf \in buffer_find_CRLF :
        /\ crlf > 1
        /\ input[1].type = "header"
        /\ http_req' = http_request_add_header(http_req, input[1])
        /\ input' = SubSeq(input, crlf + 1, Len(input))
  BY DEF ParseHeader
<1>2. PICK r, len : r = asked[Current] /\ len = Len(r.headers)
  OBVIOUS
<1>3. PICK n \in 0 .. len : /\ start[Current] = -(2 * n + 2)
                            /\ Parsed(r, n)
                            /\ \A m \in 1 .. n : r.headers[m].type = "header"
  BY <1>2 DEF AtHeaders
<1>4. /\ Laid(start) /\ Current \in 1 .. Len(asked) /\ Len(asked) \in Nat
      /\ http_req.current_state = "REQUEST_HEADERS" /\ http_req.cookies = <<>>
  BY LenProperties DEF AtHeaders, Current, TypeOK
<1>5. r \in Request /\ len \in Nat
  BY <1>2, <1>4, ElementOfSeq, RequestParts DEF TypeOK
<1>6. /\ n < len => crlf = 2 /\ input[1] = r.headers[n + 1]
      /\ n = len => crlf = 1
  <2>1. AfterHeader(start, r, len, n)
    BY <1>2, <1>3 DEF AfterHeader
  <2>2. NextLine(r, len, n, crlf)
    BY <1>4, <2>1, NextLines
  <2> QED
    BY ONLY <2>2 DEF NextLine
<1>7. n < len
  BY <1>1, <1>3, <1>5, <1>6
<1>8. /\ n + 1 \in 0 .. len /\ n \in 0 .. len - 1
      /\ -(2 * n + 2) - 2 = -(2 * (n + 1) + 2)
      /\ \A m \in 1 .. n + 1 : m \in 1 .. n \/ m = n + 1
  BY <1>3, <1>5, <1>7
<1>9. crlf = 2 /\ input[1] = r.headers[n + 1] /\ r.headers[n + 1].type = "header"
  BY <1>1, <1>6, <1>7
<1>10. UNCHANGED <<wire, asked, handled>> /\ Current' = Current /\ AfterBody' = AfterBody
  BY ParserFrame
<1>11. PICK begin : Laid(begin)' /\ begin[Current'] = start[Current] - crlf
  BY <1>1, <1>4, <1>10, LineTaken
<1>12. begin[Current'] = -(2 * (n + 1) + 2)
  BY <1>3, <1>8, <1>9, <1>11
<1>13. Parsed(r, n + 1)' /\ http_req'.current_state = "REQUEST_HEADERS" /\ http_req'.cookies = <<>>
  <2>1. Kept(r, n + 1) = IF Len(Kept(r, n)) >= INIT_REQUEST_HEADER_SIZE
                         THEN Kept(r, n) ELSE Append(Kept(r, n), r.headers[n + 1])
    BY <1>2, <1>5, <1>8, KeptNext
  <2>2. http_req.request_headers = Kept(r, n)
    BY <1>3 DEF Parsed
  <2>3. http_req' = [http_req EXCEPT !.request_headers = Kept(r, n + 1)]
    <3>1. CASE Len(Kept(r, n)) >= INIT_REQUEST_HEADER_SIZE
      <4>1. http_req' = http_req
        BY <1>1, <2>2, <3>1 DEF http_request_add_header
      <4> QED
        BY <2>1, <2>2, <3>1, <4>1 DEF TypeOK, HttpRequest
    <3>2. CASE ~(Len(Kept(r, n)) >= INIT_REQUEST_HEADER_SIZE)
      BY <1>1, <1>9, <2>1, <2>2, <3>2 DEF http_request_add_header
    <3> QED
      BY <3>1, <3>2
  <2>4. PICK kept : kept = Kept(r, n + 1)
    OBVIOUS
  <2>5. http_req \in HttpRequest /\ http_req' = [http_req EXCEPT !.request_headers = kept]
    BY <2>3, <2>4 DEF TypeOK
  <2>6. /\ http_req'.request_headers = kept
        /\ http_req'.method = http_req.method /\ http_req'.version = http_req.version
        /\ http_req'.query_params = http_req.query_params
        /\ http_req'.current_state = http_req.current_state
        /\ http_req'.cookies = http_req.cookies
    BY <2>5 DEF HttpRequest
  <2> QED
    BY <1>3, <1>4, <1>10, <2>4, <2>6 DEF Parsed
<1>14. Current' <= Len(asked') /\ asked'[Current'] = r
  BY <1>2, <1>4, <1>10
<1>15. \A m \in 1 .. n + 1 : r.headers[m].type = "header"
  BY <1>3, <1>8, <1>9
<1>16. AtHeaders(begin)'
  BY <1>2, <1>8, <1>11, <1>12, <1>13, <1>14, <1>15 DEF AtHeaders
<1> QED
  BY <1>16

\* The headers end at the empty line, or at a bare one.
LEMMA HeadersEndStep ==
  ASSUME TypeOK, NEW start, AtHeaders(start), ParseHeadersEnd
  PROVE  \E begin : AtDone(begin)' \/ AtBare'
<1>1. PICK crlf \in buffer_find_CRLF :
        \/ crlf = 1 /\ input' = Tail(input)
        \/ crlf > 1 /\ input[1].type # "header"
  BY DEF ParseHeadersEnd
<1>2. PICK r, len : r = asked[Current] /\ len = Len(r.headers)
  OBVIOUS
<1>3. PICK n \in 0 .. len : /\ start[Current] = -(2 * n + 2)
                            /\ Parsed(r, n)
                            /\ \A m \in 1 .. n : r.headers[m].type = "header"
  BY <1>2 DEF AtHeaders
<1>4. /\ Laid(start) /\ Current \in 1 .. Len(asked) /\ Len(asked) \in Nat
      /\ http_req.current_state = "REQUEST_HEADERS" /\ http_req.cookies = <<>>
  BY LenProperties DEF AtHeaders, Current, TypeOK
<1>5. r \in Request /\ len \in Nat /\ http_req \in HttpRequest
  BY <1>2, <1>4, ElementOfSeq, RequestParts DEF TypeOK
<1>6. /\ n < len => crlf = 2 /\ input[1] = r.headers[n + 1]
      /\ n = len => crlf = 1
  <2>1. AfterHeader(start, r, len, n)
    BY <1>2, <1>3 DEF AfterHeader
  <2>2. NextLine(r, len, n, crlf)
    BY <1>4, <2>1, NextLines
  <2> QED
    BY ONLY <2>2 DEF NextLine
<1>7. UNCHANGED <<wire, asked, handled>> /\ Current' = Current /\ AfterBody' = AfterBody
  BY ParserFrame
<1>8. PICK cookies : cookies = http_request_parse_cookies(http_req)
  OBVIOUS
<1>9. http_req' = [http_req EXCEPT !.cookies = cookies, !.current_state = "REQUEST_DONE"]
  BY <1>8 DEF ParseHeadersEnd
<1>10. /\ http_req'.current_state = "REQUEST_DONE" /\ http_req'.cookies = cookies
       /\ http_req'.request_headers = http_req.request_headers
       /\ http_req'.method = http_req.method /\ http_req'.version = http_req.version
       /\ http_req'.query_params = http_req.query_params
  BY <1>5, <1>9 DEF HttpRequest
<1>11. Parsed(r, n)' /\ Current' <= Len(asked') /\ asked'[Current'] = r
  BY <1>2, <1>3, <1>4, <1>7, <1>10 DEF Parsed
<1>12. /\ input \in Seq(Token) /\ Len(input) \in Nat
       /\ \A i \in 1 .. Len(input) : input[i] \in Token
       /\ crlf \in Nat /\ crlf > 0 /\ crlf <= Len(input)
  BY StreamType, FirstEnd
<1>13. input # <<>>
  BY <1>12, EmptySeq
<1>14. CASE n = len
  <2>1. crlf = 1
    BY <1>6, <1>14
  <2>2. input' = SubSeq(input, crlf + 1, Len(input))
    <3>1. input' = Tail(input) /\ crlf + 1 = 2
      BY <1>1, <2>1
    <3> QED
      BY <1>12, <1>13, <3>1, TailIsSubSeq
  <2>3. PICK begin : Laid(begin)' /\ begin[Current'] = start[Current] - crlf
    BY <1>4, <1>7, <2>2, LineTaken
  <2>4. begin[Current'] = -(2 * len + 3)
    BY <1>3, <1>5, <1>14, <2>1, <2>3
  <2>5. ~HasBare(r)
    BY <1>2, <1>3, <1>14 DEF HasBare
  <2>6. http_req'.cookies =
          http_request_parse_cookies([http_req' EXCEPT !.cookies = <<>>])
    <3>1. PICK p, q : q = http_req' /\ p = [q EXCEPT !.cookies = <<>>]
      OBVIOUS
    <3>2. p.request_headers = q.request_headers /\ p.cookies = <<>>
      <4>1. q = [http_req EXCEPT !.cookies = cookies, !.current_state = "REQUEST_DONE"]
        BY <1>9, <3>1
      <4> QED
        BY <1>5, <3>1, <4>1 DEF HttpRequest
    <3>3. http_request_parse_cookies(p) = cookies
      <4>1. p.request_headers = http_req.request_headers /\ p.cookies = http_req.cookies
        BY <1>4, <1>10, <3>1, <3>2
      <4> QED
        BY <1>8, <4>1, CookiesFrom
    <3> QED
      BY <1>10, <3>1, <3>3
  <2>7. AtDone(begin)'
    BY <1>2, <1>10, <1>11, <1>14, <2>3, <2>4, <2>5, <2>6 DEF AtDone
  <2> QED
    BY <2>7
<1>15. CASE n # len
  <2>1. n < len
    BY <1>3, <1>5, <1>15
  <2>2. crlf = 2 /\ input[1] = r.headers[n + 1] /\ n + 1 \in 1 .. len
    BY <1>3, <1>5, <1>6, <2>1
  <2>3. HasBare(r)
    <3>1. input[1].type # "header"
      BY <1>1, <2>2
    <3> QED
      BY <1>2, <2>2, <3>1 DEF HasBare
  <2>4. AtBare'
    BY <1>2, <1>10, <1>11, <2>3 DEF AtBare
  <2> QED
    BY <2>4
<1> QED
  BY <1>14, <1>15

-----------------------------------------------------------------------------
(* The callback's turn.                                                    *)

\* What is known of the request when its callback is called.
LEMMA HandleFacts ==
  ASSUME TypeOK, NEW start, Parser(start), Handle
  PROVE  /\ Len(handled) \in Nat /\ Len(asked) \in Nat
         /\ Current = Len(handled) + 1 /\ Current \in 1 .. Len(asked)
         /\ asked[Current] \in Request
         /\ http_req \in HttpRequest
         /\ handled' = Append(handled, http_req) /\ Len(handled') = Current
         /\ \A k \in 1 .. Len(handled) : handled'[k] = handled[k]
         /\ handled'[Current] = http_req
         /\ UNCHANGED <<wire, input, asked>>
         /\ http_req.version = asked[Current].version
         /\ \E n \in 0 .. Len(asked[Current].headers) :
              http_req.request_headers = Kept(asked[Current], n)
         /\ ~HasBare(asked[Current]) => AtDone(start)
         /\ HasBare(asked[Current]) => AtBare
<1>1. http_req.current_state = "REQUEST_DONE"
  BY DEF Handle, Parsing
<1>2. AtDone(start) \/ AtBare
  BY <1>1 DEF Parser, AtRequestLine, AtHeaders, http_request_new
<1>3. /\ Len(handled) \in Nat /\ Len(asked) \in Nat /\ Current = Len(handled) + 1
      /\ handled \in Seq(HttpRequest) /\ http_req \in HttpRequest
  BY LenProperties DEF TypeOK, Current
<1>4. Current <= Len(asked) /\ (~HasBare(asked[Current]) => AtDone(start))
      /\ (HasBare(asked[Current]) => AtBare)
  BY <1>1, <1>2 DEF AtDone, AtBare
<1>5. Current \in 1 .. Len(asked)
  BY <1>3, <1>4
<1>6. asked[Current] \in Request
  BY <1>5, ElementOfSeq DEF TypeOK
<1>7. PICK n \in 0 .. Len(asked[Current].headers) : Parsed(asked[Current], n)
  <2>1. Len(asked[Current].headers) \in 0 .. Len(asked[Current].headers)
    BY <1>6, RequestParts
  <2> QED
    BY <1>1, <1>2, <2>1 DEF AtDone, AtBare
<1>8. /\ handled' = Append(handled, http_req) /\ Len(handled') = Current
      /\ \A k \in 1 .. Len(handled) : handled'[k] = handled[k]
      /\ handled'[Current] = http_req
      /\ UNCHANGED <<wire, input, asked>>
  BY <1>3, AppendProperties DEF Handle
<1> QED
  BY <1>3, <1>4, <1>5, <1>6, <1>7, <1>8 DEF Parsed

\* When a request that leaves the stream clear is answered in whole the parser is
\* at the next request line.
LEMMA ParserAnswer ==
  ASSUME TypeOK, NEW start, Parser(start), Answer, process' = "running",
         Clear(Current)'
  PROVE  Parser(start)'
<1>1. Handle /\ http_req' = http_request_new
  BY DEF Answer, http_request_reset
<1>2. /\ Len(handled) \in Nat /\ Len(asked) \in Nat
      /\ Current = Len(handled) + 1 /\ Current \in 1 .. Len(asked)
      /\ asked[Current] \in Request
      /\ Len(handled') = Current
      /\ UNCHANGED <<wire, input, asked>>
      /\ ~HasBare(asked[Current]) => AtDone(start)
  BY <1>1, HandleFacts
<1>3. PICK cur, r, len : cur = Current /\ r = asked[cur] /\ len = Len(r.headers)
  OBVIOUS
<1>4. cur \in Nat /\ cur \in 1 .. Len(asked) /\ r \in Request /\ len \in Nat
  BY <1>2, <1>3, RequestParts
<1>5. /\ Current' = cur + 1 /\ 1 < cur + 1 /\ cur + 1 <= Len(asked) + 1
      /\ (cur + 1) - 1 = cur /\ cur < cur + 1
  BY <1>2, <1>3, <1>4 DEF Current
<1>6. AfterBody' <=> r.body # <<>>
  BY <1>2, <1>3, <1>5 DEF AfterBody
<1>7. ~HasBare(r) /\ r.body \in {<<>>, <<Words(0)>>}
  <2>1. ~Spoils(r)
    BY <1>2, <1>3, <1>4, <1>5 DEF Clear
  <2> QED
    BY <2>1 DEF Spoils
<1>8. AtDone(start)
  BY <1>2, <1>3, <1>7
<1>9. Laid(start) /\ start[cur] = -(2 * len + 3)
  BY <1>3, <1>8 DEF AtDone
<1>10. start[cur + 1] = start[cur] + Len(Text(r))
  BY <1>3, <1>4, <1>9, LaidPlaces
<1>11. Len(Text(r)) = 2 * len + 3 + IF r.body # <<>> THEN 1 ELSE 0
  <2>1. Len(Text(r)) = 2 * len + 3 + Len(r.body)
    BY <1>3, <1>4, TextPlaces
  <2>2. Len(r.body) = IF r.body # <<>> THEN 1 ELSE 0
    BY <1>7, OneWord
  <2> QED
    BY <2>1, <2>2
<1>12. start[cur + 1] = IF r.body # <<>> THEN 1 ELSE 0
  <2>1. PICK c : c = IF r.body # <<>> THEN 1 ELSE 0
    OBVIOUS
  <2>2. c \in Nat /\ start[cur + 1] = -(2 * len + 3) + (2 * len + 3 + c)
    BY <1>9, <1>10, <1>11, <2>1
  <2> QED
    BY <1>4, <2>1, <2>2
<1>13. Laid(start)'
  BY <1>2, <1>9 DEF Laid, Stream
<1>14. AtRequestLine(start)'
  BY <1>1, <1>2, <1>5, <1>6, <1>12, <1>13 DEF AtRequestLine
<1> QED
  BY <1>14 DEF Parser

\* The callback gets the request that was sent, if the stream is clear.
LEMMA SeenHandle ==
  ASSUME TypeOK, RequestsAreSeenWhole, Handle,
         NEW start, Clear(Current) => Parser(start)
  PROVE  RequestsAreSeenWhole'
<1> DEFINE Whole(k, q, r) ==
             ~HasBare(r) =>
               q = IF k > 1 /\ asked[k - 1].body # <<>>
                   THEN [Seen(r) EXCEPT !.method = "UNKNOWN"] ELSE Seen(r)
<1>1. /\ Len(handled) \in Nat
      /\ Len(handled') = Len(handled) + 1 /\ Current = Len(handled) + 1
      /\ \A k \in 1 .. Len(handled) : handled'[k] = handled[k]
      /\ handled'[Current] = http_req
      /\ asked' = asked
  BY LenProperties, AppendProperties DEF Handle, Current, TypeOK
<1>2. ASSUME NEW k \in 1 .. Len(handled'), Clear(k)
      PROVE  k <= Len(asked) /\ Whole(k, handled'[k], asked[k])
  <2>1. CASE k = Current
    <3>1. Parser(start)
      BY <1>2, <2>1
    <3>2. Current \in 1 .. Len(asked) /\ (~HasBare(asked[Current]) => AtDone(start))
      BY <3>1, HandleFacts
    <3>3. Len(asked) \in Nat
      BY LenProperties DEF TypeOK
    <3>4. AfterBody <=> k > 1 /\ asked[k - 1].body # <<>>
      BY <2>1 DEF AfterBody
    <3>5. ASSUME ~HasBare(asked[k])
          PROVE  handled'[k] = IF AfterBody THEN [Seen(asked[k]) EXCEPT !.method = "UNKNOWN"]
                               ELSE Seen(asked[k])
      BY <1>1, <2>1, <3>2, <3>5, DoneIsSeen
    <3>6. Whole(k, handled'[k], asked[k])
      BY <3>4, <3>5
    <3>7. k <= Len(asked)
      BY <2>1, <3>2, <3>3
    <3> QED
      BY <3>6, <3>7
  <2>2. CASE k # Current
    <3>1. k \in 1 .. Len(handled)
      BY <1>1, <2>2
    <3> QED
      BY <1>1, <1>2, <3>1 DEF RequestsAreSeenWhole
  <2> QED
    BY <2>1, <2>2
<1>3. \A k : Clear(k)' <=> Clear(k)
  BY <1>1 DEF Clear
<1> QED
  BY <1>1, <1>2, <1>3 DEF RequestsAreSeenWhole

\* A connection that may be shut down now was asked to be.
LEMMA CloseIsAsked ==
  ASSUME TypeOK, NEW start, Parser(start), Handle,
         TRUE \in http_request_close_connection(http_req)
  PROVE  MayClose(asked[Current])
<1>1. PICK r : r = asked[Current]
  OBVIOUS
<1>2. r \in Request /\ http_req \in HttpRequest /\ http_req.version = r.version
  BY <1>1, HandleFacts
<1>3. PICK n \in 0 .. Len(r.headers) : http_req.request_headers = Kept(r, n)
  BY <1>1, HandleFacts
<1>4. http_request_get_header(http_req, "Connection") \subseteq ConnectionHeader(r)
  BY <1>2, <1>3, ConnectionKept
<1>5. PICK h \in http_request_get_header(http_req, "Connection") :
        h.value = "close" \/ (http_req.version = "HTTP/1.0" /\ h.value = "keep-alive")
  BY DEF http_request_close_connection
<1> QED
  BY <1>1, <1>2, <1>4, <1>5 DEF MayClose

\* With the Connection header among those kept, it is what the answer looks at.
LEMMA HeaderIsSeen ==
  ASSUME TypeOK, NEW start, Parser(start), Handle, ~HasBare(asked[Current]),
         Len(asked[Current].headers) <= INIT_REQUEST_HEADER_SIZE
  PROVE  http_request_get_header(http_req, "Connection") =
           ConnectionHeader(asked[Current])
<1>1. PICK r, len : r = asked[Current] /\ len = Len(r.headers)
  OBVIOUS
<1>2. r \in Request /\ http_req \in HttpRequest /\ AtDone(start)
  BY <1>1, HandleFacts
<1>3. http_req.request_headers = Kept(r, len)
  BY <1>1, <1>2 DEF AtDone, Parsed
<1>4. len \in 0 .. Len(r.headers)
  BY <1>1, <1>2, RequestParts
<1>5. Kept(r, len) = r.headers
  BY <1>1, <1>2, <1>4, KeptAll
<1> QED
  BY <1>1, <1>2, <1>3, <1>4, <1>5, ConnectionKept

\* Of the requests handled, one is what the connection was shut down for.
LEMMA ClosesHandle ==
  ASSUME TypeOK, NEW start, Clear(Current) => Parser(start), ClosesAsAsked,
         process = "running", Answer \/ AnswerInPart \/ AnswerRaises
  PROVE  ClosesAsAsked'
<1>1. Handle
  BY DEF Answer, AnswerInPart, AnswerRaises
<1>2. /\ Len(handled) \in Nat
      /\ Current = Len(handled) + 1 /\ Len(handled') = Current
      /\ asked' = asked
  BY <1>1, LenProperties, AppendProperties DEF Handle, Current, TypeOK
<1>3. \A k : Clear(k)' <=> Clear(k)
  BY <1>2 DEF Clear
<1>4. \A k \in 1 .. Len(handled) : k \in 1 .. Len(handled')
  BY <1>2
<1>5. Current \in 1 .. Len(handled')
  BY <1>2
<1>6. shut_wr' => \E k \in 1 .. Len(handled') : Clear(k) => MayClose(asked[k])
  <2>1. CASE shut_wr
    BY <1>4, <2>1 DEF ClosesAsAsked
  <2>2. CASE shut_wr' /\ ~shut_wr
    <3>1. TRUE \in http_request_close_connection(http_req)
      <4>1. PICK close \in http_request_close_connection(http_req) : shut_wr' = close
        BY <2>2 DEF Answer, AnswerInPart, AnswerRaises
      <4>2. close \in BOOLEAN
        BY DEF http_request_close_connection
      <4> QED
        BY <2>2, <4>1, <4>2
    <3>2. Clear(Current) => MayClose(asked[Current])
      BY <1>1, <3>1, CloseIsAsked
    <3> QED
      BY <1>5, <3>2
  <2> QED
    BY <2>1, <2>2
<1>7. ASSUME process' = "running", ~shut_wr', NEW k \in 1 .. Len(handled'), Clear(k),
             Len(asked[k].headers) <= INIT_REQUEST_HEADER_SIZE, ~HasBare(asked[k]),
             NEW h \in ConnectionHeader(asked[k])
      PROVE  h.value # "close"
  <2>1. ~shut_wr /\ \E close \in http_request_close_connection(http_req) : shut_wr' = close
    BY <1>7 DEF Answer, AnswerInPart, AnswerRaises
  <2>2. CASE k = Current
    <3>1. Parser(start)
      BY <1>7, <2>2
    <3>2. h \in http_request_get_header(http_req, "Connection")
      BY <1>1, <1>7, <2>2, <3>1, HeaderIsSeen
    <3>3. h.value = "close" => http_request_close_connection(http_req) = {TRUE}
      BY <3>2 DEF http_request_close_connection
    <3>4. h.value = "close" => shut_wr' = TRUE
      BY <2>1, <3>3
    <3> QED
      BY <1>7, <3>4
  <2>3. CASE k # Current
    <3>1. k \in 1 .. Len(handled)
      BY <1>2, <2>3
    <3> QED
      BY <1>7, <2>1, <3>1 DEF ClosesAsAsked
  <2> QED
    BY <2>2, <2>3
<1> QED
  BY <1>2, <1>3, <1>6, <1>7 DEF ClosesAsAsked

\* What the answer ends has its cause.
LEMMA EndsHandle ==
  ASSUME TypeOK, NEW start, Clear(Current) => Parser(start), ClosesAsAsked,
         process = "running", Answer \/ AnswerInPart \/ AnswerRaises
  PROVE  EndsOnlyForCause'
<1>1. Handle
  BY DEF Answer, AnswerInPart, AnswerRaises
<1>2. /\ Len(handled) \in Nat
      /\ Current = Len(handled) + 1 /\ Len(handled') = Current
      /\ asked' = asked /\ peer' = peer
  BY <1>1, LenProperties, AppendProperties DEF Handle, Current, TypeOK
<1>3. \A k : Clear(k)' <=> Clear(k)
  BY <1>2 DEF Clear
<1>4. process' \in {"aborted", "hung"} => output'
  BY DEF Answer, AnswerInPart, AnswerRaises
<1>5. process' = "faulted" => ComparesNull(http_req)
  BY DEF Answer, AnswerInPart, AnswerRaises
<1>6. ASSUME ComparesNull(http_req), Clear(Current)
      PROVE  LET r == asked[Current]
             IN /\ r.version = "HTTP/1.0"
                /\ \/ HasBare(r)
                   \/ Len(r.headers) > INIT_REQUEST_HEADER_SIZE
                   \/ ConnectionHeader(r) = {}
  <2>1. Parser(start)
    BY <1>6
  <2>2. asked[Current] \in Request /\ http_req.version = asked[Current].version
    BY <1>1, <2>1, HandleFacts
  <2>3. /\ asked[Current].version = "HTTP/1.0"
        /\ http_request_get_header(http_req, "Connection") = {}
    BY <1>6, <2>2 DEF ComparesNull
  <2>4. CASE Len(asked[Current].headers) <= INIT_REQUEST_HEADER_SIZE
    BY <1>1, <2>1, <2>3, <2>4, HeaderIsSeen
  <2>5. CASE ~(Len(asked[Current].headers) <= INIT_REQUEST_HEADER_SIZE)
    <3>1. Len(asked[Current].headers) > INIT_REQUEST_HEADER_SIZE
      BY <2>2, <2>5, RequestParts, HttpAssumption
    <3> QED
      BY <2>3, <3>1
  <2> QED
    BY <2>4, <2>5
<1>7. process' = "killed" =>
        \/ peer = "gone"
        \/ \E k \in 1 .. Len(handled') - 1 : Clear(k) => MayClose(asked[k])
  <2> SUFFICES ASSUME process' = "killed", peer # "gone"
               PROVE  \E k \in 1 .. Len(handled') - 1 : Clear(k) => MayClose(asked[k])
    OBVIOUS
  <2>1. shut_wr
    BY DEF Answer, AnswerInPart, AnswerRaises
  <2>2. Len(handled') - 1 = Len(handled)
    BY <1>2
  <2> QED
    BY <2>1, <2>2 DEF ClosesAsAsked
<1> QED
  BY <1>2, <1>3, <1>4, <1>5, <1>6, <1>7 DEF EndsOnlyForCause
-----------------------------------------------------------------------------
(* The invariant.                                                          *)

\* The parser has its place as long as the process runs and the stream is clear.
Placed == process = "running" /\ Clear(Current) => \E start : Parser(start)

IInv == TypeOK /\ HistoryInv /\ Placed

LEMMA InitIInv == Init => IInv
<1> SUFFICES ASSUME Init PROVE IInv
  OBVIOUS
<1>1. TypeOK
  BY InitType
<1>2. Len(asked) = 0 /\ Len(handled) = 0 /\ Len(input) = 0 /\ Len(wire) = 0
  BY EmptySeq DEF Init
<1>3. HistoryInv
  BY <1>2 DEF Init, HistoryInv, RequestsAreSeenWhole, ClosesAsAsked, EndsOnlyForCause
<1>4. PICK start : start = [k \in 1 .. 1 |-> 0]
  OBVIOUS
<1>5. Len(Stream) = 0
  BY <1>1, <1>2, StreamType
<1>6. Laid(start)
  <2>1. Len(asked) + 1 = 1 /\ 1 .. Len(asked) = {} /\ 1 \in 1 .. 1
    BY <1>2
  <2>2. start \in [1 .. 1 -> Int] /\ start[1] = 0
    BY <1>4
  <2> QED
    BY <1>5, <2>1, <2>2 DEF Laid
<1>7. Current = 1 /\ ~AfterBody
  BY <1>2 DEF Current, AfterBody
<1>8. AtRequestLine(start)
  <2>1. start[1] = 0 /\ 1 <= Len(asked) + 1
    BY <1>2, <1>4
  <2> QED
    BY <1>6, <1>7, <2>1 DEF AtRequestLine, Init
<1> QED
  BY <1>1, <1>3, <1>8 DEF IInv, Placed, Parser

\* A request more leaves what was said of those before it.
LEMMA HistorySend ==
  ASSUME TypeOK, HistoryInv, process = "running", NEW r \in Request, Send(r)
  PROVE  HistoryInv' /\ \A k : Clear(k)' => Clear(k)
<1>1. /\ Len(asked) \in Nat /\ Len(handled) \in Nat
      /\ Len(asked') = Len(asked) + 1
      /\ \A k \in 1 .. Len(asked) : asked'[k] = asked[k] /\ k \in 1 .. Len(asked')
  BY AppendProperties, LenProperties DEF TypeOK, Send
<1>2. UNCHANGED <<handled, shut_wr, output, process, peer>>
  BY DEF Send
<1>3. \A k : Clear(k)' => Clear(k)
  BY <1>1 DEF Clear
<1>4. ASSUME NEW k \in 1 .. Len(handled), Clear(k)
      PROVE  /\ k \in 1 .. Len(asked) /\ k <= Len(asked') /\ asked'[k] = asked[k]
             /\ k > 1 => asked'[k - 1] = asked[k - 1]
  <2>1. k <= Len(asked)
    BY <1>4 DEF HistoryInv, RequestsAreSeenWhole
  <2>2. k \in 1 .. Len(asked) /\ (k > 1 => k - 1 \in 1 .. Len(asked))
    BY <1>1, <2>1
  <2> QED
    BY <1>1, <2>2
<1>5. RequestsAreSeenWhole'
  <2> SUFFICES ASSUME NEW k \in 1 .. Len(handled), Clear(k)'
               PROVE  /\ k <= Len(asked')
                      /\ ~HasBare(asked'[k]) =>
                           handled[k] = IF k > 1 /\ asked'[k - 1].body # <<>>
                                        THEN [Seen(asked'[k]) EXCEPT !.method = "UNKNOWN"]
                                        ELSE Seen(asked'[k])
    BY <1>2 DEF RequestsAreSeenWhole
  <2>1. /\ Clear(k) /\ k <= Len(asked') /\ asked'[k] = asked[k]
        /\ k > 1 => asked'[k - 1] = asked[k - 1]
    BY <1>3, <1>4
  <2>2. ~HasBare(asked[k]) =>
           handled[k] = IF k > 1 /\ asked[k - 1].body # <<>>
                        THEN [Seen(asked[k]) EXCEPT !.method = "UNKNOWN"]
                        ELSE Seen(asked[k])
    BY <2>1 DEF HistoryInv, RequestsAreSeenWhole
  <2> QED
    BY <2>1, <2>2
<1>6. ClosesAsAsked'
  <2>1. shut_wr => \E k \in 1 .. Len(handled) : Clear(k)' => MayClose(asked'[k])
    <3> SUFFICES ASSUME shut_wr
                 PROVE  \E k \in 1 .. Len(handled) : Clear(k)' => MayClose(asked'[k])
      OBVIOUS
    <3>1. PICK k \in 1 .. Len(handled) : Clear(k) => MayClose(asked[k])
      BY DEF HistoryInv, ClosesAsAsked
    <3> QED
      BY <1>3, <1>4, <3>1
  <2>2. ASSUME ~shut_wr, NEW k \in 1 .. Len(handled), Clear(k)',
               Len(asked'[k].headers) <= INIT_REQUEST_HEADER_SIZE, ~HasBare(asked'[k]),
               NEW h \in ConnectionHeader(asked'[k])
        PROVE  h.value # "close"
    <3>1. Clear(k) /\ asked'[k] = asked[k]
      BY <1>3, <1>4, <2>2
    <3> QED
      BY <2>2, <3>1 DEF HistoryInv, ClosesAsAsked
  <2> QED
    BY <1>2, <2>1, <2>2 DEF ClosesAsAsked
<1>7. EndsOnlyForCause'
  BY <1>2 DEF EndsOnlyForCause
<1> QED
  BY <1>3, <1>5, <1>6, <1>7 DEF HistoryInv

\* What leaves the requests asked for and handled, and the process, alone leaves
\* what is said of them, but for a client that goes.
LEMMA HistoryKept ==
  ASSUME HistoryInv, UNCHANGED <<asked, handled, shut_wr, output, process>>,
         peer' = peer \/ peer' = "gone"
  PROVE  HistoryInv'
<1>1. \A k : Clear(k)' <=> Clear(k)
  BY DEF Clear
<1>2. RequestsAreSeenWhole'
  BY <1>1 DEF HistoryInv, RequestsAreSeenWhole
<1>3. ClosesAsAsked'
  BY <1>1 DEF HistoryInv, ClosesAsAsked
<1>4. EndsOnlyForCause'
  BY <1>1 DEF HistoryInv, EndsOnlyForCause
<1> QED
  BY <1>2, <1>3, <1>4 DEF HistoryInv

\* The place of the parser is one in the stream.
LEMMA ParserKept ==
  ASSUME NEW start, Parser(start), UNCHANGED <<wire, input, http_req, asked, handled>>
  PROVE  Parser(start)'
BY DEF Parser, AtRequestLine, AtHeaders, AtDone, AtBare, Laid, Parsed, Stream,
       Current, AfterBody

LEMMA NextIInv == ASSUME IInv, [Next]_vars PROVE IInv'
<1>1. TypeOK /\ TypeOK' /\ HistoryInv /\ Placed
  BY NextType DEF IInv
<1>2. CASE UNCHANGED vars \/ Close \/ HangUp
  <2>1. /\ UNCHANGED <<asked, handled, shut_wr, output, process, wire, input, http_req>>
        /\ peer' = peer \/ peer' = "gone"
    BY <1>2 DEF vars, Close, HangUp
  <2>2. HistoryInv'
    BY <1>1, <2>1, HistoryKept
  <2>3. Placed'
    <3> SUFFICES ASSUME process' = "running", Clear(Current)'
                 PROVE  \E start : Parser(start)'
      BY DEF Placed
    <3>1. PICK start : Parser(start)
      BY <1>1, <2>1 DEF Placed, Clear, Current
    <3> QED
      BY <2>1, <3>1, ParserKept
  <2> QED
    BY <1>1, <2>2, <2>3 DEF IInv
<1>3. CASE Next /\ ~(Close \/ HangUp)
  <2>1. process = "running"
    BY <1>3 DEF Next
  <2>2. PICK start : Clear(Current) => Parser(start)
    BY <1>1, <2>1 DEF Placed
  <2>3. ASSUME NEW r \in Request, Send(r) PROVE IInv'
    <3>1. HistoryInv' /\ \A k : Clear(k)' => Clear(k)
      BY <1>1, <2>1, <2>3, HistorySend
    <3>2. Placed'
      <4> SUFFICES ASSUME Clear(Current)' PROVE \E begin : Parser(begin)'
        BY DEF Placed
      <4>1. Current' = Current
        BY <2>3 DEF Send, Current
      <4>2. Clear(Current)
        BY <3>1, <4>1 DEF Clear
      <4> QED
        BY <1>1, <2>2, <2>3, <4>2, ParserSend
    <3> QED
      BY <1>1, <3>1, <3>2 DEF IInv
  <2>4. CASE handle_read
    <3>1. UNCHANGED <<asked, handled, shut_wr, output, process, peer>>
      BY <2>4 DEF handle_read
    <3>2. HistoryInv'
      BY <1>1, <3>1, HistoryKept
    <3>3. Clear(Current)' => Parser(start)'
      <4>1. Clear(Current)' => Clear(Current)
        BY <3>1 DEF Clear, Current
      <4> QED
        BY <1>1, <2>2, <2>4, <4>1, ParserRead
    <3> QED
      BY <1>1, <3>2, <3>3 DEF IInv, Placed
  <2>5. CASE process_status_line \/ ParseHeader \/ ParseHeadersEnd
    <3>1. /\ UNCHANGED <<asked, handled, shut_wr, output, peer>>
          /\ process' # process => process_status_line /\ process' = "aborted"
      BY <2>5 DEF process_status_line, ParseHeader, ParseHeadersEnd
    <3>2. \/ process_status_line /\ http_req.current_state = "REQUEST_STATUS"
          \/ /\ ParseHeader \/ ParseHeadersEnd
             /\ http_req.current_state = "REQUEST_HEADERS"
      BY <2>5 DEF process_status_line, ParseHeader, ParseHeadersEnd, Parsing
    <3>3. /\ Clear(Current)' <=> Clear(Current)
          /\ \A k : Clear(k)' <=> Clear(k)
      BY <3>1 DEF Clear, Current
    <3>4. ASSUME process' = process, Clear(Current) => \E begin : Parser(begin)'
          PROVE  IInv'
      <4>1. HistoryInv'
        BY <1>1, <3>1, <3>4, HistoryKept
      <4> QED
        BY <1>1, <3>3, <3>4, <4>1 DEF IInv, Placed
    <3>5. ASSUME process' = "aborted",
                 \/ ~Clear(Current)
                 \/ Current \in 1 .. Len(asked) /\ asked[Current].blanks < 2
          PROVE  IInv'
      <4>1. RequestsAreSeenWhole' /\ ClosesAsAsked'
        BY <1>1, <2>1, <3>1, <3>3, <3>5
        DEF HistoryInv, RequestsAreSeenWhole, ClosesAsAsked
      <4>2. EndsOnlyForCause'
        <5>1. Len(handled) \in Nat /\ Len(asked) \in Nat
          BY <1>1, LenProperties DEF TypeOK
        <5>2. \/ ~Clear(Len(handled) + 1)
              \/ Len(handled) < Len(asked) /\ asked[Len(handled) + 1].blanks < 2
          BY <3>5, <5>1 DEF Current
        <5> QED
          BY <3>1, <3>3, <3>5, <5>2 DEF EndsOnlyForCause
      <4> QED
        BY <1>1, <3>5, <4>1, <4>2 DEF IInv, HistoryInv, Placed
    <3>6. CASE ~Clear(Current)
      BY <3>1, <3>4, <3>5, <3>6
    <3>7. CASE Clear(Current)
      <4>1. Parser(start)
        BY <2>2, <3>7
      <4>2. CASE AtRequestLine(start)
        <5>1. process_status_line
          BY <3>2, <4>2 DEF AtRequestLine, http_request_new
        <5>2. /\ Current \in 1 .. Len(asked)
              /\ \/ asked[Current].blanks < 2 /\ process' = "aborted"
                 \/ process' = process /\ \E begin : AtHeaders(begin)'
          BY <1>1, <3>7, <4>2, <5>1, LineStep
        <5> QED
          BY <3>4, <3>5, <5>2 DEF Parser
      <4>3. CASE AtHeaders(start)
        <5>1. ~process_status_line /\ (ParseHeader \/ ParseHeadersEnd)
          BY <3>2, <4>3 DEF AtHeaders, process_status_line, Parsing
        <5>2. CASE ParseHeader
          <6>1. \E begin : AtHeaders(begin)'
            BY <1>1, <4>3, <5>2, HeaderStep
          <6> QED
            BY <3>1, <3>4, <5>1, <6>1 DEF Parser
        <5>3. CASE ParseHeadersEnd
          <6>1. \E begin : AtDone(begin)' \/ AtBare'
            BY <1>1, <4>3, <5>3, HeadersEndStep
          <6> QED
            BY <3>1, <3>4, <5>1, <6>1 DEF Parser
        <5> QED
          BY <5>1, <5>2, <5>3
      <4>4. ~AtDone(start) /\ ~AtBare
        BY <3>2 DEF AtDone, AtBare
      <4> QED
        BY <4>1, <4>2, <4>3, <4>4 DEF Parser
    <3> QED
      BY <3>6, <3>7
  <2>6. CASE Answer \/ AnswerInPart \/ AnswerRaises
    <3>1. Handle
      BY <2>6 DEF Answer, AnswerInPart, AnswerRaises
    <3>2. RequestsAreSeenWhole'
      BY <1>1, <2>2, <3>1, SeenHandle DEF HistoryInv
    <3>3. ClosesAsAsked' /\ EndsOnlyForCause'
      BY <1>1, <2>1, <2>2, <2>6, ClosesHandle, EndsHandle DEF HistoryInv
    <3>4. Placed'
      <4> SUFFICES ASSUME process' = "running", Clear(Current)'
                   PROVE  \E begin : Parser(begin)'
        BY DEF Placed
      <4>1. Answer
        BY <2>6 DEF AnswerInPart, AnswerRaises
      <4>2. Clear(Current)
        <5>1. Len(handled) \in Nat /\ Len(handled') = Len(handled) + 1 /\ asked' = asked
          BY <1>1, <3>1, LenProperties, AppendProperties DEF TypeOK, Handle
        <5>2. /\ Current' = Current + 1 /\ Current \in Nat
          BY <5>1 DEF Current
        <5>3. \A n \in 1 .. Len(asked) : n < Current => n < Current'
          BY <5>2
        <5> QED
          BY <5>1, <5>3 DEF Clear
      <4> QED
        BY <1>1, <2>2, <4>1, <4>2, ParserAnswer
    <3> QED
      BY <1>1, <3>2, <3>3, <3>4 DEF IInv, HistoryInv
  <2> QED
    BY <1>3, <2>3, <2>4, <2>5, <2>6 DEF Next, http_on_message
<1> QED
  BY <1>2, <1>3

LEMMA Invariance == Spec => []IInv
BY InitIInv, NextIInv, PTL DEF Spec

\* However the text of requests is cut into reads, within a line's end or not,
\* and while no request before it has a header line without ": " or a body of
\* more than one word, the k-th request is the k-th its callback gets: complete
\* if it has no such header line, and with nothing of another, but that a body
\* before it spoils its method.
THEOREM SeenWhole == Spec => []RequestsAreSeenWhole
<1>1. IInv => RequestsAreSeenWhole
  BY DEF IInv, HistoryInv
<1> QED
  BY <1>1, Invariance, PTL

\* While no request spoils the stream, a connection is shut down only for a
\* request whose Connection header says "close", or in HTTP/1.0 something greater
\* than "Keep-Alive", and always for one that says "close" and whose headers fit.
THEOREM ClosedAsAsked == Spec => []ClosesAsAsked
<1>1. IInv => ClosesAsAsked
  BY DEF IInv, HistoryInv
<1> QED
  BY <1>1, Invariance, PTL

\* While no request spoils the stream, what ends the process is a request line
\* that lacks a blank, an answer taken in part, a comparison with NULL, or a
\* client that has gone or goes on after it asked to close.
THEOREM EndsForCause == Spec => []EndsOnlyForCause
<1>1. IInv => EndsOnlyForCause
  BY DEF IInv, HistoryInv
<1> QED
  BY <1>1, Invariance, PTL
=============================================================================
