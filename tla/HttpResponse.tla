---------------------------- MODULE HttpResponse ----------------------------
(***************************************************************************)
(* http-server/http_response.c and static_file.c: a struct http_response   *)
(* that http_on_message makes, the user's callback fills by calls of its   *)
(* choice, or by hand as http-server/main.c does, and that is encoded and  *)
(* sent.  The server never frees it; a user may, as the tests do.  One     *)
(* thread uses a response, so each call is a step; what reading a file     *)
(* gives depends on others, who may change it between fstat and read.      *)
(* Allocations succeed.                                                    *)
(***************************************************************************)
EXTENDS Integers, SequencesExt

CONSTANTS
  Content,    \* what a body or a file may hold: sequences of bytes
  Zero,       \* the byte that ends a string
  Request,    \* what the requests are like
  INIT_RESPONSE_HEADER_SIZE,
  MaxCalls    \* bound: how many calls a callback makes

\* What the path of a request looks like; what root_dir followed by it, decoded,
\* names: a file, a directory with an index.html in it that may be read or one
\* that is closed to reading, or nothing; and whether the server, which looks only
\* at the request, closes the connection after its reply.
RequestKind ==
  [slash: BOOLEAN, dots: BOOLEAN,
   names: {"file", "directory", "closed", "nothing"}, closes: BOOLEAN]

ASSUME ResponseAssumption ==
  /\ \A content \in Content : content \in Seq(STRING) /\ Zero \in STRING
  /\ Request \subseteq RequestKind
  /\ INIT_RESPONSE_HEADER_SIZE \in Nat
  /\ MaxCalls \in Nat

VARIABLES
  resp,     \* the struct; its pointers are below
  body,     \* the bytes resp.body points to
  heap,     \* the blocks allocated for it, and not freed
  used,     \* how many were allocated so far
  req,      \* the request
  on_disk,  \* what the file of the path holds
  st_size,  \* how much fstat saw of it, when it was last served
  pc,       \* "callback", "sent", then "freed" if a user frees the response
  sent,     \* what was sent of it
  process,  \* "running", or what the pointer was to whose free ended it
  calls     \* history: the calls the callback has made

vars == <<resp, body, heap, used, req, on_disk, st_size, pc, sent, process, calls>>

\* A pointer to the n-th block, to a literal, or that malloc left as it was.
Heap(n) == [to |-> "heap", block |-> n]
Literal == [to |-> "literal", block |-> 0]
Garbage == [to |-> "garbage", block |-> 0]
NULL == [to |-> "NULL", block |-> 0]

http_response_new ==
  [status_code |-> 0, status_message |-> NULL, content_type |-> Garbage,
   body |-> NULL, headers |-> <<>>, keep_connected |-> 0]

\* The struct and the array of its headers are allocated and freed with it and
\* are not among the blocks.
Init ==
  /\ resp = http_response_new
  /\ body = <<>>
  /\ heap = {}
  /\ used = 0
  /\ req \in Request
  /\ on_disk \in Content
  /\ st_size = 0
  /\ pc = "callback"
  /\ sent = [code |-> 0]
  /\ process = "running"
  /\ calls = <<>>
-----------------------------------------------------------------------------
(* What a call does to a response and the heap, as a record of both.       *)

Here == [resp |-> resp, body |-> body, heap |-> heap, used |-> used,
         process |-> process]

Becomes(r) ==
  /\ resp' = r.resp
  /\ body' = r.body
  /\ heap' = r.heap
  /\ used' = r.used
  /\ process' = r.process

\* r with n more blocks: the last is Heap(used), the one before Heap(used - 1).
Allocated(r, n) ==
  [r EXCEPT !.heap = @ \cup (r.used + 1 .. r.used + n), !.used = @ + n]

\* if (p) free(p), which ends the process unless p is to an allocated block.
Freed(r, p) ==
  IF p = NULL \/ r.process # "running" THEN r
  ELSE IF p.block \in r.heap THEN [r EXCEPT !.heap = @ \ {p.block}]
  ELSE [r EXCEPT !.process = p.to]

\* Slip: the test of the limit is forgotten.
http_response_add_header_NoLimit(r) ==
  LET a == Allocated(r, 2)
      header == [key |-> Heap(a.used - 1), value |-> Heap(a.used)]
  IN [a EXCEPT !.resp.headers = Append(@, header)]

\* With a key and a value allocated for it.  When the array is full nobody
\* keeps them.
http_response_add_header(r) ==
  LET a == Allocated(r, 2)
      header == [key |-> Heap(a.used - 1), value |-> Heap(a.used)]
  IN IF Len(r.resp.headers) >= INIT_RESPONSE_HEADER_SIZE THEN a
     ELSE [a EXCEPT !.resp.headers = Append(@, header)]

\* Slip: the new message is stored before the old one is freed.
http_response_set_status_FreesNew(r, code, message) ==
  LET a == Allocated(r, 1)
      b == [a EXCEPT !.resp.status_code = code,
                     !.resp.status_message = Heap(a.used)]
  IN IF message /\ r.resp.status_message # NULL
     THEN Freed(b, b.resp.status_message) ELSE b

\* Slip: the usual message is stored without a copy.
http_response_set_status_NoCopy(r, code, message) ==
  LET a == Allocated(IF message THEN Freed(r, r.resp.status_message) ELSE r, 1)
  IN IF message
     THEN [a EXCEPT !.resp.status_code = code,
                    !.resp.status_message = Heap(a.used)]
     ELSE [r EXCEPT !.resp.status_code = code,
                    !.resp.status_message = Literal]

\* Without a message it takes the usual one, and forgets the old one.
http_response_set_status(r, code, message) ==
  LET a == Allocated(IF message THEN Freed(r, r.resp.status_message) ELSE r, 1)
  IN [a EXCEPT !.resp.status_code = code,
               !.resp.status_message = Heap(a.used)]

\* Slip: a body set before is not freed.
http_response_set_body_Leaks(r, content) ==
  LET a == Allocated(r, 1)
  IN [a EXCEPT !.resp.body = Heap(a.used), !.body = content]

\* With a body allocated for it.
http_response_set_body(r, content) ==
  LET a == Freed(Allocated(r, 1), r.resp.body)
  IN [a EXCEPT !.resp.body = Heap(a.used), !.body = content]

\* http_response_json and http_response_html.
http_response_json(r, content) ==
  http_response_add_header(
    http_response_set_body(http_response_set_status(r, 200, FALSE), content))

http_response_file(r, content) ==
  http_response_add_header(http_response_json(r, content))

\* By hand: whatever was there is forgotten.
ByHand(r, code, content) ==
  [r EXCEPT !.resp.status_code = code, !.resp.status_message = Literal,
            !.resp.body = content]
-----------------------------------------------------------------------------
(* http_serve_static_file                                                  *)

is_safe_path(p) == ~p.dots /\ ~p.slash

\* An answer with the code and a text made up for it.
Fails(r, code) ==
  LET a == Allocated(ByHand(r, code, NULL), 1)
  IN [a EXCEPT !.resp.body = Heap(a.used), !.body = <<"x">>]

\* Slip: what was read is served, however much it is.
Read_Partial(r, before, now) ==
  LET a == Allocated(ByHand(r, 200, NULL), 1)
      read == IF Len(now) < Len(before) THEN now ELSE SubSeq(now, 1, Len(before))
  IN http_response_add_header(
       [a EXCEPT !.resp.body = Heap(a.used), !.body = read])

\* fstat saw before, read finds now.
Read(r, before, now) ==
  LET a == Allocated(ByHand(r, 200, NULL), 1)
  IN IF Len(now) < Len(before) THEN Fails(r, 404)
     ELSE http_response_add_header(
            [a EXCEPT !.resp.body = Heap(a.used),
                      !.body = SubSeq(now, 1, Len(before))])

\* A directory is opened like a file, and cannot be read: index.html is only
\* looked for in one that cannot be opened.
http_serve_static_file ==
  /\ \/ /\ ~is_safe_path(req)
        /\ Becomes(Fails(Here, 400))
        /\ UNCHANGED <<on_disk, st_size>>
     \/ /\ is_safe_path(req)
        /\ req.names \in {"directory", "nothing"}
        /\ Becomes(Fails(Here, 404))
        /\ UNCHANGED <<on_disk, st_size>>
     \/ /\ is_safe_path(req)
        /\ req.names \in {"file", "closed"}
        /\ on_disk' \in Content
        /\ st_size' = Len(on_disk)
        /\ Becomes(Read(Here, on_disk, on_disk'))
-----------------------------------------------------------------------------
(* The callback                                                            *)

Call(name) ==
  /\ pc = "callback"
  /\ Len(calls) < MaxCalls
  /\ calls' = Append(calls, name)
  /\ UNCHANGED <<req, pc, sent>>

SetStatus ==
  /\ \/ /\ Call("set_status_message")
        /\ Becomes(http_response_set_status(Here, 201, TRUE))
     \/ /\ Call("set_status")
        /\ Becomes(http_response_set_status(Here, 201, FALSE))
  /\ UNCHANGED <<on_disk, st_size>>

SetBody ==
  /\ Call("set_body")
  /\ \E content \in Content : Becomes(http_response_set_body(Here, content))
  /\ UNCHANGED <<on_disk, st_size>>

\* http_response_add_header, or http_response_set_cookie, which ends in it.
AddHeader ==
  /\ Call("add_header")
  /\ Becomes(http_response_add_header(Here))
  /\ UNCHANGED <<on_disk, st_size>>

SendText ==
  /\ \E content \in Content :
       \/ Call("json") /\ Becomes(http_response_json(Here, content))
       \/ Call("file") /\ Becomes(http_response_file(Here, content))
  /\ UNCHANGED <<on_disk, st_size>>

ServeFile == Call("static") /\ http_serve_static_file

\* The example's callback; which path it takes for which is not settled, for
\* it compares a string that strncpy has not ended.  Nobody frees that string,
\* a block of its own.
on_request ==
  /\ Call("on_request")
  /\ LET r == Allocated(Here, 1)
     IN \/ Becomes([ByHand(r, 200, Literal) EXCEPT !.body = <<"x">>,
                                                   !.resp.content_type = Literal])
        \/ Becomes([ByHand(r, 404, resp.body) EXCEPT !.resp.keep_connected = 1])
  /\ UNCHANGED <<on_disk, st_size>>
-----------------------------------------------------------------------------
(* Sending and freeing it                                                  *)

\* strlen
CString(content) ==
  SubSeq(content, 1, SelectInSeq(Append(content, Zero), LAMBDA b : b = Zero) - 1)

\* Slip: the length of the file is announced, not that of the string.
http_response_encode_buffer_FileSize ==
  [code |-> resp.status_code,
   close |-> resp.keep_connected # 0,
   has_length |-> resp.keep_connected = 0 /\ resp.body # NULL,
   length |-> Len(body),
   headers |-> Len(resp.headers),
   body |-> IF resp.body = NULL THEN <<>> ELSE CString(body)]

\* keep_connected means the opposite of its name.
http_response_encode_buffer ==
  [code |-> resp.status_code,
   close |-> resp.keep_connected # 0,
   has_length |-> resp.keep_connected = 0 /\ resp.body # NULL,
   length |-> Len(CString(body)),
   headers |-> Len(resp.headers),
   body |-> IF resp.body = NULL THEN <<>> ELSE CString(body)]

Send ==
  /\ pc = "callback"
  /\ sent' = http_response_encode_buffer
  /\ pc' = "sent"
  /\ UNCHANGED <<resp, body, heap, used, req, on_disk, st_size, process, calls>>

\* The pointers of a response that are freed with it, in the order they are.
PointersOf(s) ==
  [i \in 1 .. 2 * Len(s.headers) + 2 |->
     IF i = 1 THEN s.status_message
     ELSE IF i = 2 THEN s.body
     ELSE LET header == s.headers[(i - 1) \div 2]
          IN IF i % 2 = 1 THEN header.key ELSE header.value]

Pointers == PointersOf(resp)

\* r after each of the pointers is freed in turn.
AllFreed(r, pointers) ==
  LET freed[n \in 0 .. Len(pointers)] ==
        IF n = 0 THEN r ELSE Freed(freed[n - 1], pointers[n])
  IN freed[Len(pointers)]

\* What content_type happens to hold may be 0, for which free is not called.
http_response_free ==
  /\ pc = "sent"
  /\ LET r == AllFreed(Here, Pointers)
     IN \/ Becomes(Freed(r, resp.content_type))
        \/ resp.content_type = Garbage /\ Becomes(r)
  /\ pc' = "freed"
  /\ UNCHANGED <<req, on_disk, st_size, sent, calls>>

Next ==
  /\ process = "running"
  /\ \/ SetStatus \/ SetBody \/ AddHeader \/ SendText \/ ServeFile \/ on_request
     \/ Send
     \/ http_response_free

Spec == Init /\ [][Next]_vars
-----------------------------------------------------------------------------
(* Properties                                                              *)

Pointer == {Literal, Garbage, NULL} \cup {Heap(n) : n \in 1 .. used}

\* Every variable holds a value of its type, and the array of headers no more
\* than there is room for.
TypeOK ==
  /\ {resp.status_message, resp.content_type, resp.body} \subseteq Pointer
  /\ resp.headers \in Seq([key: Pointer, value: Pointer])
  /\ Len(resp.headers) <= INIT_RESPONSE_HEADER_SIZE
  /\ heap \subseteq 1 .. used
  /\ req \in Request /\ on_disk \in Content /\ st_size \in Nat
  /\ pc \in {"callback", "sent", "freed"}
  /\ process \in {"running", "heap", "literal", "garbage"}
  /\ Len(calls) <= MaxCalls

HeapPointers == {i \in 1 .. Len(Pointers) : Pointers[i].to = "heap"}

\* Whatever is called in whatever order, each pointer of a response that is not
\* a literal points to memory of its own that has not been freed: encoding
\* reads nothing stale, and freeing frees nothing twice.
PointsToItsOwn ==
  process = "running" /\ pc # "freed" =>
    /\ \A i \in HeapPointers : Pointers[i].block \in heap
    /\ \A i, j \in HeapPointers : Pointers[i] = Pointers[j] => i = j

\* No block is freed twice, and a literal is freed only if the callback has stored
\* one by hand or served a file, which does.  What else ends the process is that
\* http_response_free frees what malloc left in content_type, and nothing else
\* that was never set.
FreesItsOwn ==
  \/ process = "running"
  \/ process = "literal" /\ \E n \in 1 .. Len(calls) : calls[n] \in {"static", "on_request"}
  \/ process = "garbage" /\ pc = "freed" /\ resp.content_type = Garbage

\* How many headers the callback's calls have given.
HeadersGiven ==
  Cardinality({n \in 1 .. Len(calls) : calls[n] \in {"add_header", "json", "file", "static"}})
  + Cardinality({n \in 1 .. Len(calls) : calls[n] = "file"})

\* Nothing else is lost than the status message or body that a call replaces
\* without freeing it, headers beyond the limit, and the path that on_request
\* cuts from its URL: a response that is given its status and body once leaves no
\* memory behind when it is freed.
LeaksAreKnown ==
  LET kept == IF pc = "freed" THEN {} ELSE {Pointers[i].block : i \in HeapPointers}
      status == {"set_status", "set_status_message", "json", "file", "static"}
      bodies == {"set_body", "json", "file", "static"}
  IN process = "running" /\ heap # kept =>
       \/ HeadersGiven > INIT_RESPONSE_HEADER_SIZE
       \/ \E n \in 1 .. Len(calls) : calls[n] = "on_request"
       \/ \E m, n \in 1 .. Len(calls) :
            /\ m < n
            /\ \/ /\ calls[m] \in status
                  /\ calls[n] \in {"set_status", "json", "file", "static"}
               \/ calls[m] \in bodies /\ calls[n] = "static"

\* When the server keeps the connection, which it decides by the request alone,
\* the client finds the end of a reply by its length, and that is the length of
\* what follows, whatever bytes the body has.  There is none only if the callback
\* gave no body at all, or was on_request, whose 404 says that the connection
\* is closed.
KeptReplyHasItsLength ==
  pc # "callback" /\ ~req.closes =>
    \/ sent.has_length /\ sent.length = Len(sent.body)
    \/ /\ ~sent.has_length /\ sent.body = <<>>
       /\ \A n \in 1 .. Len(calls) :
            calls[n] \in {"set_status", "set_status_message", "add_header"}
    \/ \E n \in 1 .. Len(calls) : calls[n] = "on_request"

\* A file that is answered with 200 was read to the end that fstat saw, even if
\* others change it meanwhile; one that has become shorter is an error.  What is
\* sent of it ends before its first zero byte.
ServedWhole ==
  pc # "callback" /\ calls = <<"static">> /\ sent.code = 200 =>
    /\ Len(on_disk) >= st_size
    /\ body = SubSeq(on_disk, 1, st_size)
    /\ sent.body = CString(body)

\* A request for a file below root_dir, or for a directory with an index.html, is
\* answered with 200 and the bytes of the file that fstat saw, if it has not
\* become shorter.
FilesAreServed ==
  /\ pc # "callback" /\ calls = <<"static">>
  /\ ~req.dots /\ req.names # "nothing" /\ Len(on_disk) >= st_size
  => sent.code = 200 /\ sent.body = SubSeq(on_disk, 1, st_size)
=============================================================================
