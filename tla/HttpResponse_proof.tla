-------------------------- MODULE HttpResponse_proof --------------------------
(***************************************************************************)
(* Proofs about HttpResponse, for any contents, any limit of headers and   *)
(* any sequence of calls.                                                  *)
(***************************************************************************)
EXTENDS HttpResponse, Induction, SequenceTheorems, FiniteSetTheorems

-----------------------------------------------------------------------------
(* The inductive invariant.                                                *)

PointerUpTo(n) == {Literal, Garbage, NULL} \cup {Heap(k) : k \in 1 .. n}

HeaderUpTo(n) == [key: {Heap(k) : k \in 1 .. n}, value: {Heap(k) : k \in 1 .. n}]

Response(n) ==
  [status_code: Nat, status_message: PointerUpTo(n), content_type: PointerUpTo(n),
   body: PointerUpTo(n), headers: Seq(HeaderUpTo(n)), keep_connected: Nat]

\* (The provers do not know of a string that it is in STRING.)
Byte == STRING \cup {"x"}

ProcessKind == {"running", "heap", "literal", "garbage"}

\* r records a response that has had n blocks.
Typed(r, n) ==
  /\ r \in [resp: Response(n), body: Seq(Byte), heap: SUBSET (1 .. n),
            used: {n}, process: ProcessKind]
  /\ Len(r.resp.headers) <= INIT_RESPONSE_HEADER_SIZE

Places(s) == 1 .. 2 * Len(s.headers) + 2

\* Each pointer to the heap has a block of its own that is allocated.
Owned(r) ==
  /\ \A i \in Places(r.resp) :
       PointersOf(r.resp)[i].to = "heap" => PointersOf(r.resp)[i].block \in r.heap
  /\ \A i, j \in Places(r.resp) :
       PointersOf(r.resp)[i].to = "heap" /\ PointersOf(r.resp)[i] = PointersOf(r.resp)[j]
       => i = j

\* Each allocated block has a pointer to it.
Kept(r) == \A b \in r.heap : \E i \in Places(r.resp) : PointersOf(r.resp)[i] = Heap(b)

Safe(p) == p = NULL \/ p.to = "heap"

\* Nothing has been stored by hand.
Plain(r) ==
  /\ r.process = "running"
  /\ Safe(r.resp.status_message) /\ Safe(r.resp.body)
  /\ r.resp.content_type = Garbage

\* Nothing but a literal has ended the process, or would if it were freed.
Fair(r) ==
  /\ r.process \in {"running", "literal"}
  /\ r.resp.status_message # Garbage /\ r.resp.body # Garbage

CallName == {"set_status", "set_status_message", "set_body", "add_header", "json", "file",
             "static", "on_request"}
HandCalls == {"static", "on_request"}
StatusCalls == {"set_status", "set_status_message", "json", "file", "static"}
BodyCalls == {"set_body", "json", "file", "static"}
ForgetsStatus == {"set_status", "json", "file", "static"}
BareCalls == {"set_status", "set_status_message", "add_header"}

Called(names) == \E n \in 1 .. Len(calls) : calls[n] \in names

\* The calls after which LeaksAreKnown allows for lost blocks.
MayLeak ==
  \/ HeadersGiven > INIT_RESPONSE_HEADER_SIZE
  \/ Called({"on_request"})
  \/ \E m, n \in 1 .. Len(calls) :
       /\ m < n
       /\ \/ calls[m] \in StatusCalls /\ calls[n] \in ForgetsStatus
          \/ calls[m] \in BodyCalls /\ calls[n] = "static"

\* What the calls so far tell of the response.
CallsInv ==
  /\ calls \in Seq(CallName)
  /\ Len(resp.headers) <= HeadersGiven
  /\ resp.status_message.to = "heap" => Called(StatusCalls)
  /\ resp.body.to = "heap" => Called(BodyCalls)
  /\ \/ resp.content_type = Garbage
     \/ resp.content_type = Literal /\ Called({"on_request"})
  /\ resp.keep_connected = 0 \/ Called({"on_request"})
  /\ resp.keep_connected = 0 /\ resp.body = NULL =>
       \A n \in 1 .. Len(calls) : calls[n] \in BareCalls
  /\ calls = <<"static">> /\ resp.status_code = 200 =>
       /\ resp.body # NULL
       /\ Len(on_disk) >= st_size
       /\ body = SubSeq(on_disk, 1, st_size)

\* Until the response is freed its blocks are its own, all of them unless some
\* call may leak, and after that there are none.
BlocksInv ==
  /\ pc # "freed" => Owned(Here) /\ Fair(Here)
  /\ pc # "freed" /\ ~Called(HandCalls) => Plain(Here)
  /\ process = "running" /\ ~MayLeak =>
       IF pc = "freed" THEN heap = {} ELSE Kept(Here)

IInv ==
  /\ TypeOK
  /\ Typed(Here, used)
  /\ used \in Nat
  /\ CallsInv
  /\ BlocksInv
  /\ FreesItsOwn
  /\ pc # "callback" => sent = http_response_encode_buffer

-----------------------------------------------------------------------------
(* Pointers and their places.                                              *)

LEMMA Grows ==
  ASSUME NEW n \in Nat, NEW m \in Nat, n <= m
  PROVE  /\ PointerUpTo(n) \subseteq PointerUpTo(m)
         /\ HeaderUpTo(n) \subseteq HeaderUpTo(m)
         /\ Seq(HeaderUpTo(n)) \subseteq Seq(HeaderUpTo(m))
         /\ \A k \in 1 .. m : Heap(k) \in PointerUpTo(m)
         /\ Literal \in PointerUpTo(m) /\ Garbage \in PointerUpTo(m)
         /\ NULL \in PointerUpTo(m)
<1>1. 1 .. n \subseteq 1 .. m
  OBVIOUS
<1>2. {Heap(k) : k \in 1 .. n} \subseteq {Heap(k) : k \in 1 .. m}
  BY <1>1
<1>3. HeaderUpTo(n) \subseteq HeaderUpTo(m)
  BY <1>2 DEF HeaderUpTo
<1>4. Seq(HeaderUpTo(n)) \subseteq Seq(HeaderUpTo(m))
  BY <1>3
<1> QED
  BY <1>1, <1>2, <1>3, <1>4 DEF PointerUpTo

LEMMA PointerForms ==
  ASSUME NEW n \in Nat, NEW p \in PointerUpTo(n)
  PROVE  /\ p.to = "heap" => p = Heap(p.block) /\ p.block \in 1 .. n
         /\ p.to # "heap" => p.block = 0
         /\ \A k : p = Heap(k) => p.to = "heap" /\ p.block = k
         /\ Safe(p) /\ p # NULL => p.to = "heap"
BY DEF PointerUpTo, Heap, Literal, Garbage, NULL, Safe

LEMMA PointerPlaces ==
  ASSUME NEW n \in Nat, NEW s \in Response(n)
  PROVE  /\ Len(s.headers) \in Nat
         /\ PointersOf(s)[1] = s.status_message
         /\ PointersOf(s)[2] = s.body
         /\ \A i \in 1 .. Len(s.headers) :
              /\ PointersOf(s)[2 * i + 1] = s.headers[i].key
              /\ PointersOf(s)[2 * i + 2] = s.headers[i].value
         /\ \A i \in Places(s) : PointersOf(s)[i] \in PointerUpTo(n)
<1> DEFINE h == s.headers
<1>1. h \in Seq(HeaderUpTo(n))
  BY DEF Response
<1>2. PICK len \in Nat : Len(h) = len
  BY <1>1, LenProperties
<1>3. \A i \in 1 .. len : h[i].key \in PointerUpTo(n) /\ h[i].value \in PointerUpTo(n)
  <2> SUFFICES ASSUME NEW i \in 1 .. len
               PROVE  h[i].key \in PointerUpTo(n) /\ h[i].value \in PointerUpTo(n)
    OBVIOUS
  <2>1. h[i] \in HeaderUpTo(n)
    BY <1>1, <1>2
  <2> HIDE DEF h
  <2> QED
    BY <2>1 DEF HeaderUpTo, PointerUpTo
<1> HIDE DEF h
<1>4. PointersOf(s) = [i \in 1 .. 2 * len + 2 |->
                         IF i = 1 THEN s.status_message
                         ELSE IF i = 2 THEN s.body
                         ELSE IF i % 2 = 1 THEN h[(i - 1) \div 2].key
                         ELSE h[(i - 1) \div 2].value]
  BY <1>2 DEF PointersOf, h
<1>5. ASSUME NEW i \in 1 .. len
      PROVE  PointersOf(s)[2 * i + 1] = h[i].key /\ PointersOf(s)[2 * i + 2] = h[i].value
  <2>1. /\ 2 * i + 1 \in 1 .. 2 * len + 2 /\ 2 * i + 2 \in 1 .. 2 * len + 2
        /\ 2 * i + 1 # 1 /\ 2 * i + 1 # 2 /\ 2 * i + 2 # 1 /\ 2 * i + 2 # 2
        /\ (2 * i + 1) % 2 = 1 /\ (2 * i + 2) % 2 # 1
        /\ (2 * i + 1 - 1) \div 2 = i /\ (2 * i + 2 - 1) \div 2 = i
    BY <1>2
  <2>2. \A j \in 1 .. 2 * len + 2 : \A k :
          j # 1 /\ j # 2 /\ (j - 1) \div 2 = k =>
            PointersOf(s)[j] = IF j % 2 = 1 THEN h[k].key ELSE h[k].value
    BY <1>4
  <2>3. PICK odd \in 1 .. 2 * len + 2 : odd = 2 * i + 1
    BY <2>1
  <2>4. PICK even \in 1 .. 2 * len + 2 : even = 2 * i + 2
    BY <2>1
  <2>5. /\ odd # 1 /\ odd # 2 /\ (odd - 1) \div 2 = i /\ odd % 2 = 1
        /\ even # 1 /\ even # 2 /\ (even - 1) \div 2 = i /\ even % 2 # 1
    BY <2>1, <2>3, <2>4
  <2>6. PointersOf(s)[odd] = h[i].key /\ PointersOf(s)[even] = h[i].value
    BY ONLY <2>2, <2>5
  <2> QED
    BY <2>3, <2>4, <2>6
<1>6. ASSUME NEW i \in 1 .. 2 * len + 2 PROVE PointersOf(s)[i] \in PointerUpTo(n)
  <2>1. CASE i = 1 \/ i = 2
    BY <1>4, <2>1 DEF Response
  <2>2. CASE i > 2
    <3>1. (i - 1) \div 2 \in 1 .. len
      BY <2>2
    <3> QED
      BY <1>3, <1>4, <2>2, <3>1
  <2> QED
    BY <2>1, <2>2
<1>7. PointersOf(s)[1] = s.status_message /\ PointersOf(s)[2] = s.body
  <2>1. 1 \in 1 .. 2 * len + 2 /\ 2 \in 1 .. 2 * len + 2
    BY <1>2
  <2> QED
    BY ONLY <1>4, <2>1
<1>8. Len(s.headers) = len /\ Places(s) = 1 .. 2 * len + 2
  BY <1>2 DEF Places, h
<1>9. \A i \in 1 .. len : /\ PointersOf(s)[2 * i + 1] = s.headers[i].key
                          /\ PointersOf(s)[2 * i + 2] = s.headers[i].value
  BY <1>5 DEF h
<1> QED
  BY ONLY <1>6, <1>7, <1>8, <1>9, len \in Nat

\* The places of headers are the same in a response with the same headers, or
\* one more.
LEMMA SamePlaces ==
  ASSUME NEW n \in Nat, NEW s \in Response(n), NEW t, NEW header,
         t.headers = s.headers \/ t.headers = Append(s.headers, header)
  PROVE  /\ Places(s) \subseteq Places(t)
         /\ \A i \in 3 .. 2 * Len(s.headers) + 2 : PointersOf(t)[i] = PointersOf(s)[i]
<1>1. s.headers \in Seq(HeaderUpTo(n))
  BY DEF Response
<1>2. PICK len \in Nat : Len(s.headers) = len
  BY <1>1, LenProperties
<1>3. PICK more \in {len, len + 1} : Len(t.headers) = more
  BY <1>1, <1>2
<1>4. \A k \in 1 .. len : t.headers[k] = s.headers[k]
  BY <1>1, <1>2
<1>5. Places(s) = 1 .. 2 * len + 2 /\ Places(t) = 1 .. 2 * more + 2
  BY <1>2, <1>3 DEF Places
<1>6. ASSUME NEW i \in 3 .. 2 * len + 2 PROVE PointersOf(t)[i] = PointersOf(s)[i]
  <2>1. i \in 1 .. 2 * len + 2 /\ i \in 1 .. 2 * more + 2 /\ i # 1 /\ i # 2
    BY <1>3
  <2>2. (i - 1) \div 2 \in 1 .. len
    OBVIOUS
  <2>3. t.headers[(i - 1) \div 2] = s.headers[(i - 1) \div 2]
    BY <1>4, <2>2
  <2> QED
    BY <1>2, <1>3, <2>1, <2>3 DEF PointersOf
<1> QED
  BY <1>2, <1>3, <1>5, <1>6

-----------------------------------------------------------------------------
(* What each operation leaves of a response.                               *)

Good(r) == r.used \in Nat /\ Typed(r, r.used) /\ Owned(r)

\* Each place of b has the pointer of a, not to the heap or to a block of b, or
\* the only pointer to a block of b.
LEMMA OwnedFrom ==
  ASSUME NEW a, NEW b, Owned(a),
         \A i \in Places(b.resp) :
           \/ /\ i \in Places(a.resp)
              /\ PointersOf(b.resp)[i] = PointersOf(a.resp)[i]
              /\ PointersOf(b.resp)[i].to = "heap" => PointersOf(b.resp)[i].block \in b.heap
           \/ PointersOf(b.resp)[i].to # "heap"
           \/ /\ PointersOf(b.resp)[i].block \in b.heap
              /\ \A j \in Places(b.resp) :
                   PointersOf(b.resp)[j] = PointersOf(b.resp)[i] => j = i
  PROVE  Owned(b)
<1> DEFINE P == PointersOf(a.resp)
           Q == PointersOf(b.resp)
<1>1. \A i, j \in Places(a.resp) : P[i].to = "heap" /\ P[i] = P[j] => i = j
  BY DEF Owned
<1> HIDE DEF P, Q
<1>2. \A i \in Places(b.resp) :
        \/ i \in Places(a.resp) /\ Q[i] = P[i] /\ (Q[i].to = "heap" => Q[i].block \in b.heap)
        \/ Q[i].to # "heap"
        \/ Q[i].block \in b.heap /\ \A j \in Places(b.resp) : Q[j] = Q[i] => j = i
  BY DEF P, Q
<1>3. \A i, j \in Places(b.resp) : Q[i].to = "heap" /\ Q[i] = Q[j] => i = j
  BY <1>1, <1>2
<1> QED
  BY <1>2, <1>3 DEF Owned, Q

LEMMA HeaderAdded ==
  ASSUME NEW r, Good(r), NEW a, a = http_response_add_header(r)
  PROVE  /\ Good(a)
         /\ a.process = r.process /\ a.body = r.body
         /\ a.resp.status_code = r.resp.status_code
         /\ a.resp.status_message = r.resp.status_message
         /\ a.resp.content_type = r.resp.content_type
         /\ a.resp.body = r.resp.body
         /\ a.resp.keep_connected = r.resp.keep_connected
         /\ Len(a.resp.headers) <= Len(r.resp.headers) + 1
         /\ Kept(r) /\ Len(r.resp.headers) < INIT_RESPONSE_HEADER_SIZE => Kept(a)
<1>1. PICK n \in Nat : r.used = n
  BY DEF Good
<1>2. /\ r \in [resp: Response(n), body: Seq(Byte), heap: SUBSET (1 .. n),
                 used: {n}, process: ProcessKind]
      /\ Len(r.resp.headers) <= INIT_RESPONSE_HEADER_SIZE
      /\ Owned(r)
  BY <1>1 DEF Good, Typed
<1>3. r.resp \in Response(n) /\ r.heap \subseteq 1 .. n
  BY <1>2
<1>4. PICK len \in Nat : Len(r.resp.headers) = len
  BY <1>3, PointerPlaces
<1> DEFINE header == [key |-> Heap(n + 1), value |-> Heap(n + 2)]
<1>5. (n + 2) - 1 = n + 1 /\ n + 1 .. n + 2 = {n + 1, n + 2} /\ n <= n + 2
      /\ n + 1 \in 1 .. n + 2 /\ n + 2 \in 1 .. n + 2 /\ n + 2 \in Nat
  BY <1>1
<1>6. r.resp \in Response(n + 2)
  BY <1>3, <1>5, Grows DEF Response
<1>7. r.heap \cup {n + 1, n + 2} \in SUBSET (1 .. n + 2)
  BY <1>3
<1>8. header \in HeaderUpTo(n + 2)
  BY <1>5 DEF HeaderUpTo
<1> DEFINE full == Len(r.resp.headers) >= INIT_RESPONSE_HEADER_SIZE
           x == Allocated(r, 2)
<1>9. /\ x = [r EXCEPT !.heap = r.heap \cup {n + 1, n + 2}, !.used = n + 2]
      /\ x.used = n + 2 /\ x.resp = r.resp
      /\ x \in [resp: Response(n + 2), body: Seq(Byte), heap: SUBSET (1 .. n + 2),
                used: {n + 2}, process: ProcessKind]
  <2>1. x = [r EXCEPT !.heap = r.heap \cup {n + 1, n + 2}, !.used = n + 2]
    BY <1>1, <1>2, <1>5 DEF Allocated
  <2> HIDE DEF x
  <2> QED
    BY <2>1, <1>2, <1>6, <1>7
<1>10. a = IF full THEN x ELSE [x EXCEPT !.resp.headers = Append(r.resp.headers, header)]
  BY <1>5, <1>9 DEF http_response_add_header
<1> HIDE DEF x, header
<1>11. /\ a.heap = r.heap \cup {n + 1, n + 2} /\ a.used = n + 2
       /\ a.body = r.body /\ a.process = r.process
       /\ a.resp = IF full THEN r.resp
                   ELSE [r.resp EXCEPT !.headers = Append(r.resp.headers, header)]
  <2>1. CASE full
    BY <1>2, <1>9, <1>10, <2>1
  <2>2. CASE ~full
    BY <1>2, <1>9, <1>10, <2>2
  <2> QED
    BY <2>1, <2>2
<1>12. /\ a.resp \in Response(n + 2)
       /\ Len(a.resp.headers) <= INIT_RESPONSE_HEADER_SIZE
       /\ Len(a.resp.headers) <= len + 1
       /\ a.resp.status_code = r.resp.status_code
       /\ a.resp.status_message = r.resp.status_message
       /\ a.resp.content_type = r.resp.content_type
       /\ a.resp.body = r.resp.body
       /\ a.resp.keep_connected = r.resp.keep_connected
  <2>1. CASE full
    BY <1>2, <1>4, <1>6, <1>11, <2>1
  <2>2. CASE ~full
    <3>1. r.resp.headers \in Seq(HeaderUpTo(n + 2))
      BY <1>6 DEF Response
    <3>2. /\ Append(r.resp.headers, header) \in Seq(HeaderUpTo(n + 2))
          /\ Len(Append(r.resp.headers, header)) = len + 1
      BY <1>4, <1>8, <3>1, AppendProperties
    <3>3. len + 1 <= INIT_RESPONSE_HEADER_SIZE
      BY <1>4, <2>2, ResponseAssumption
    <3>4. a.resp = [r.resp EXCEPT !.headers = Append(r.resp.headers, header)]
      BY <1>11, <2>2
    <3>5. PICK more : more = Append(r.resp.headers, header)
      OBVIOUS
    <3>6. more \in Seq(HeaderUpTo(n + 2)) /\ Len(more) = len + 1
      BY <3>2, <3>5
    <3>7. a.resp = [r.resp EXCEPT !.headers = more]
      BY <3>4, <3>5
    <3>8. /\ a.resp \in Response(n + 2) /\ a.resp.headers = more
          /\ a.resp.status_code = r.resp.status_code
          /\ a.resp.status_message = r.resp.status_message
          /\ a.resp.content_type = r.resp.content_type
          /\ a.resp.body = r.resp.body
          /\ a.resp.keep_connected = r.resp.keep_connected
      BY ONLY <1>6, <3>6, <3>7 DEF Response
    <3> QED
      BY <3>3, <3>6, <3>8
  <2> QED
    BY <2>1, <2>2
<1> DEFINE P == PointersOf(r.resp)
           Q == PointersOf(a.resp)
<1>13. /\ \A i \in Places(r.resp) : i \in Places(a.resp) /\ Q[i] = P[i] /\ P[i] \in PointerUpTo(n)
       /\ full => Places(a.resp) = Places(r.resp)
       /\ ~full => /\ Places(a.resp) = Places(r.resp) \cup {2 * len + 3, 2 * len + 4}
                   /\ Q[2 * len + 3] = Heap(n + 1) /\ Q[2 * len + 4] = Heap(n + 2)
  <2>1. a.resp.headers = IF full THEN r.resp.headers ELSE Append(r.resp.headers, header)
    BY <1>3, <1>11 DEF Response
  <2>2. /\ Places(r.resp) \subseteq Places(a.resp)
        /\ \A i \in 3 .. 2 * len + 2 : Q[i] = P[i]
    <3>1. \/ a.resp.headers = r.resp.headers
          \/ a.resp.headers = Append(r.resp.headers, header)
      BY <2>1
    <3>2. n \in Nat /\ r.resp \in Response(n)
      BY <1>3
    <3> HIDE DEF header
    <3>3. /\ Places(r.resp) \subseteq Places(a.resp)
          /\ \A i \in 3 .. 2 * Len(r.resp.headers) + 2 : Q[i] = P[i]
      BY ONLY ZenonT(30), <3>1, <3>2, SamePlaces
    <3> QED
      BY <1>4, <3>3
  <2>3. Q[1] = P[1] /\ Q[2] = P[2] /\ \A i \in Places(r.resp) : P[i] \in PointerUpTo(n)
    BY <1>3, <1>5, <1>12, PointerPlaces
  <2>4. Places(r.resp) = 1 .. 2 * len + 2
    BY <1>4 DEF Places
  <2> HIDE DEF P, Q
  <2>5. \A i \in Places(r.resp) : i \in Places(a.resp) /\ Q[i] = P[i] /\ P[i] \in PointerUpTo(n)
    <3> SUFFICES ASSUME NEW i \in Places(r.resp) PROVE Q[i] = P[i]
      BY <2>2, <2>3
    <3>1. i = 1 \/ i = 2 \/ i \in 3 .. 2 * len + 2
      BY <2>4
    <3> QED
      BY <2>2, <2>3, <3>1
  <2>6. CASE full
    <3>1. Places(a.resp) = Places(r.resp)
      BY <2>1, <2>6 DEF Places
    <3> QED
      BY <2>5, <2>6, <3>1
  <2>7. CASE ~full
    <3>1. r.resp.headers \in Seq(HeaderUpTo(n))
      BY <1>3 DEF Response
    <3>2. Len(a.resp.headers) = len + 1 /\ a.resp.headers[len + 1] = header
      BY <1>4, <2>1, <2>7, <3>1, AppendProperties
    <3>3. Places(a.resp) = 1 .. 2 * len + 4
      BY <3>2 DEF Places
    <3>4. /\ Q[2 * (len + 1) + 1] = a.resp.headers[len + 1].key
          /\ Q[2 * (len + 1) + 2] = a.resp.headers[len + 1].value
      <4>1. n + 2 \in Nat /\ a.resp \in Response(n + 2)
        BY <1>5, <1>12
      <4>2. len + 1 \in 1 .. Len(a.resp.headers)
        BY <3>2
      <4> QED
        BY ONLY <4>1, <4>2, PointerPlaces DEF Q
    <3>5. 2 * (len + 1) + 1 = 2 * len + 3 /\ 2 * (len + 1) + 2 = 2 * len + 4
      OBVIOUS
    <3>6. Q[2 * len + 3] = Heap(n + 1) /\ Q[2 * len + 4] = Heap(n + 2)
      BY <3>2, <3>4, <3>5 DEF header
    <3>7. 1 .. 2 * len + 4 = (1 .. 2 * len + 2) \cup {2 * len + 3, 2 * len + 4}
      OBVIOUS
    <3> QED
      BY <2>4, <2>5, <2>7, <3>3, <3>6, <3>7
  <2> QED
    BY <2>5, <2>6, <2>7
<1>14. \A i \in Places(r.resp) :
         /\ Q[i].to = "heap" => Q[i].block \in a.heap /\ Q[i].block <= n
         /\ \A k : k > n => Q[i] # Heap(k)
  <2> HIDE DEF P, Q
  <2> SUFFICES ASSUME NEW i \in Places(r.resp)
               PROVE  /\ P[i].to = "heap" => P[i].block \in r.heap /\ P[i].block <= n
                      /\ \A k : k > n => P[i] # Heap(k)
    BY <1>11, <1>13
  <2>1. P[i] \in PointerUpTo(n)
    BY <1>13
  <2>2. P[i].to = "heap" => P[i].block \in r.heap
    BY <1>2 DEF Owned, P
  <2>3. P[i].to = "heap" => P[i].block \in 1 .. n
    BY <2>1, PointerForms
  <2>4. \A k : P[i] = Heap(k) => k \in 1 .. n
    BY <2>1, PointerForms
  <2> QED
    BY <2>2, <2>3, <2>4
<1>15. Heap(n + 1).block = n + 1 /\ Heap(n + 2).block = n + 2 /\ Heap(n + 1) # Heap(n + 2)
  BY DEF Heap
<1>16. Owned(a)
  <2> HIDE DEF P, Q
  <2> SUFFICES ASSUME NEW i \in Places(a.resp)
               PROVE  \/ /\ i \in Places(r.resp) /\ Q[i] = P[i]
                         /\ Q[i].to = "heap" => Q[i].block \in a.heap
                      \/ Q[i].to # "heap"
                      \/ /\ Q[i].block \in a.heap
                         /\ \A j \in Places(a.resp) : Q[j] = Q[i] => j = i
    BY <1>2, OwnedFrom DEF P, Q
  <2>1. CASE i \in Places(r.resp)
    BY <1>13, <1>14, <2>1
  <2>2. CASE i \notin Places(r.resp)
    <3>1. ~full /\ i \in {2 * len + 3, 2 * len + 4}
      BY <1>13, <2>2
    <3>2. n + 1 \in a.heap /\ n + 2 \in a.heap
      BY <1>11
    <3>3. \A j \in Places(a.resp) : j \in Places(r.resp) \/ j = 2 * len + 3 \/ j = 2 * len + 4
      BY <1>13, <3>1
    <3>4. n + 1 > n /\ n + 2 > n
      OBVIOUS
    <3> QED
      BY <1>13, <1>14, <1>15, <3>1, <3>2, <3>3, <3>4
  <2> QED
    BY <2>1, <2>2
<1>17. ASSUME Kept(r), ~full PROVE Kept(a)
  <2> HIDE DEF P, Q
  <2> SUFFICES ASSUME NEW b \in a.heap PROVE \E i \in Places(a.resp) : Q[i] = Heap(b)
    BY DEF Kept, Q
  <2>1. CASE b \in r.heap
    <3>1. PICK i \in Places(r.resp) : P[i] = Heap(b)
      BY <1>17, <2>1 DEF Kept, P
    <3> QED
      BY <1>13, <3>1
  <2>2. CASE b = n + 1
    BY <1>13, <1>17, <2>2
  <2>3. CASE b = n + 2
    BY <1>13, <1>17, <2>3
  <2> QED
    BY <1>11, <2>1, <2>2, <2>3
<1>18. Good(a)
  <2>1. a \in [resp: Response(n + 2), body: Seq(Byte), heap: SUBSET (1 .. n + 2),
               used: {n + 2}, process: ProcessKind]
    <3>1. CASE full
      BY <1>9, <1>10, <3>1
    <3>2. CASE ~full
      <4>1. a = [x EXCEPT !.resp = a.resp]
        BY <1>9, <1>10, <1>11, <3>2
      <4> QED
        BY <1>9, <1>12, <4>1
    <3> QED
      BY <3>1, <3>2
  <2> QED
    BY <1>11, <1>12, <1>16, <2>1 DEF Good, Typed
<1>19. Len(r.resp.headers) < INIT_RESPONSE_HEADER_SIZE => ~full
  BY <1>4, ResponseAssumption
<1> QED
  BY <1>4, <1>11, <1>12, <1>17, <1>18, <1>19

\* One block is added, for the status message or the body, whose old block may
\* go; the other pointer stays, or is replaced by one that is not to the heap.
LEMMA OneBlock ==
  ASSUME NEW r, Good(r), NEW n \in Nat, r.used = n, NEW lost,
         NEW b \in [resp: Response(n + 1), body: Seq(Byte), heap: SUBSET Nat,
                    used: {n + 1}, process: ProcessKind],
         b.resp.headers = r.resp.headers,
         b.heap = (r.heap \ lost) \cup {n + 1},
         NEW which \in {1, 2}, NEW other \in {1, 2}, which # other,
         \A x \in lost : PointersOf(r.resp)[which] = Heap(x),
         PointersOf(b.resp)[which] = Heap(n + 1),
         \/ PointersOf(b.resp)[other] = PointersOf(r.resp)[other]
         \/ PointersOf(b.resp)[other].to # "heap"
  PROVE  /\ Good(b)
         /\ /\ Kept(r)
            /\ PointersOf(r.resp)[which].to = "heap" =>
                 PointersOf(r.resp)[which].block \in lost
            /\ \/ PointersOf(b.resp)[other] = PointersOf(r.resp)[other]
               \/ PointersOf(r.resp)[other].to # "heap"
            => Kept(b)
<1> DEFINE P == PointersOf(r.resp)
           Q == PointersOf(b.resp)
<1>1. /\ r.resp \in Response(n) /\ r.heap \subseteq 1 .. n
      /\ Len(r.resp.headers) <= INIT_RESPONSE_HEADER_SIZE
      /\ Owned(r)
  BY DEF Good, Typed
<1>2. b.resp \in Response(n + 1) /\ n + 1 \in Nat
  OBVIOUS
<1>3. PICK len \in Nat : Len(r.resp.headers) = len
  BY <1>1, PointerPlaces
<1>4. Places(b.resp) = Places(r.resp) /\ Places(r.resp) = 1 .. 2 * len + 2
  BY <1>3 DEF Places
<1>5. \A i \in Places(r.resp) : i = which \/ i = other \/ Q[i] = P[i]
  <2>1. \A i \in 3 .. 2 * Len(r.resp.headers) + 2 : Q[i] = P[i]
    BY ONLY SMTT(30), n \in Nat, <1>1, b.resp.headers = r.resp.headers, SamePlaces
  <2> HIDE DEF P, Q
  <2> SUFFICES ASSUME NEW i \in 1 .. 2 * len + 2, i # 1, i # 2 PROVE Q[i] = P[i]
    BY <1>4
  <2>2. i \in 3 .. 2 * len + 2
    OBVIOUS
  <2> QED
    BY <1>3, <2>1, <2>2
<1>6. which \in Places(r.resp) /\ other \in Places(r.resp) /\ which # other
  BY <1>4
<1>7. \A i \in Places(r.resp) :
        /\ P[i].to = "heap" => P[i].block \in r.heap
        /\ \A k : P[i] = Heap(k) => k \in 1 .. n
        /\ P[i].to = "heap" => P[i] = Heap(P[i].block)
        /\ \A j \in Places(r.resp) : P[i].to = "heap" /\ P[i] = P[j] => i = j
  <2>1. \A i \in Places(r.resp) : P[i] \in PointerUpTo(n)
    BY <1>1, PointerPlaces
  <2>2. \A i \in Places(r.resp) : P[i].to = "heap" => P[i].block \in r.heap
    BY <1>1 DEF Owned
  <2>3. \A i, j \in Places(r.resp) : P[i].to = "heap" /\ P[i] = P[j] => i = j
    BY <1>1 DEF Owned
  <2> HIDE DEF P, Q
  <2> SUFFICES ASSUME NEW i \in Places(r.resp)
               PROVE  /\ \A k : P[i] = Heap(k) => k \in 1 .. n
                      /\ P[i].to = "heap" => P[i] = Heap(P[i].block)
    BY <2>2, <2>3
  <2> QED
    BY ONLY <2>1, n \in Nat, i \in Places(r.resp), PointerForms
<1>8. \A k : Heap(k).to = "heap" /\ Heap(k).block = k
  BY DEF Heap
<1>9. /\ \A x \in lost : P[which] = Heap(x)
      /\ Q[which] = Heap(n + 1)
      /\ Q[other] = P[other] \/ Q[other].to # "heap"
      /\ n + 1 \notin 1 .. n
  OBVIOUS
<1> HIDE DEF P, Q
<1>10. \A i \in Places(r.resp) : i # which /\ P[i].to = "heap" => P[i].block \in b.heap
  <2> SUFFICES ASSUME NEW i \in Places(r.resp), i # which, P[i].to = "heap"
               PROVE  P[i].block \notin lost
    BY <1>7
  <2>1. P[i] = Heap(P[i].block)
    BY <1>7
  <2>2. P[i].block \in lost => P[which] = P[i]
    BY <1>9, <2>1
  <2>3. P[i] = P[which] => i = which
    BY <1>6, <1>7
  <2> QED
    BY <2>2, <2>3
<1>11. Owned(b)
  <2> SUFFICES ASSUME NEW i \in Places(b.resp)
               PROVE  \/ /\ i \in Places(r.resp) /\ Q[i] = P[i]
                         /\ Q[i].to = "heap" => Q[i].block \in b.heap
                      \/ Q[i].to # "heap"
                      \/ /\ Q[i].block \in b.heap
                         /\ \A j \in Places(b.resp) : Q[j] = Q[i] => j = i
    BY <1>1, OwnedFrom DEF P, Q
  <2>1. CASE i # which
    BY <1>4, <1>5, <1>9, <1>10, <2>1
  <2>2. CASE i = which
    <3>1. Q[i].block \in b.heap
      BY <1>8, <1>9, <2>2
    <3>2. ASSUME NEW j \in Places(b.resp), Q[j] = Heap(n + 1) PROVE j = which
      <4>1. CASE Q[j] = P[j]
        BY <1>4, <1>7, <1>9, <3>2, <4>1
      <4>2. CASE Q[j] # P[j]
        BY <1>4, <1>5, <1>8, <1>9, <3>2, <4>2
      <4> QED
        BY <4>1, <4>2
    <3> QED
      BY <1>9, <2>2, <3>1, <3>2
  <2> QED
    BY <2>1, <2>2
<1>12. Good(b)
  <2>1. b.heap \subseteq 1 .. n + 1
    BY <1>1
  <2> QED
    BY <1>1, <1>11, <2>1 DEF Good, Typed
<1>13. ASSUME Kept(r), P[which].to = "heap" => P[which].block \in lost,
              Q[other] = P[other] \/ P[other].to # "heap"
       PROVE  Kept(b)
  <2> SUFFICES ASSUME NEW x \in b.heap PROVE \E i \in Places(b.resp) : Q[i] = Heap(x)
    BY DEF Kept, Q
  <2>1. CASE x = n + 1
    BY <1>4, <1>6, <1>9, <2>1
  <2>2. CASE x # n + 1
    <3>1. x \in r.heap /\ x \notin lost
      BY <2>2
    <3>2. PICK i \in Places(r.resp) : P[i] = Heap(x)
      BY <1>13, <3>1 DEF Kept, P
    <3>3. i # which
      BY <1>8, <1>13, <3>1, <3>2
    <3>4. Q[i] = P[i]
      BY <1>5, <1>8, <1>13, <3>2, <3>3
    <3> QED
      BY <1>4, <3>2, <3>4
  <2> QED
    BY <2>1, <2>2
<1> QED
  BY <1>12, <1>13 DEF P, Q

\* f has the blocks of r but for some that p may be the pointer to.
Lost(r, f, p, lost) ==
  /\ f.heap = r.heap \ lost
  /\ \A x \in lost : p = Heap(x)
  /\ f.process = "running" /\ p.to = "heap" => p.block \in lost

\* r records a response whose pointers are up to k and whose blocks up to n.
Recorded(r, k, n) ==
  r \in [resp: Response(k), body: Seq(Byte), heap: SUBSET (1 .. n),
         used: Nat, process: ProcessKind]

LEMMA FreedParts ==
  ASSUME NEW n \in Nat, NEW p \in PointerUpTo(n), NEW f, NEW r, NEW k,
         Recorded(r, k, n), f = Freed(r, p)
  PROVE  /\ Recorded(f, k, n)
         /\ f.resp = r.resp /\ f.body = r.body /\ f.used = r.used
         /\ f.process = "running" => r.process = "running"
         /\ \E lost : Lost(r, f, p, lost)
         /\ /\ r.process = "running"
            /\ p = NULL \/ (p.to = "heap" /\ p.block \in r.heap)
            => f.process = "running"
         /\ f.process \in {r.process, p.to}
         /\ /\ r.process \in {"running", "literal"} /\ p # Garbage
            /\ p.to = "heap" => p.block \in r.heap
            => f.process \in {"running", "literal"}
<1>1. /\ p.to = "heap" => p = Heap(p.block) /\ p.block \in 1 .. n
      /\ p.to # "heap" => p.block \notin 1 .. n
  BY PointerForms
<1>a. /\ p = NULL \/ p.to \in ProcessKind
      /\ p \in {Garbage, NULL} \/ p.to \in {"heap", "literal"}
  BY DEF PointerUpTo, Heap, Literal, Garbage, NULL, ProcessKind
<1>2. NULL.to # "heap"
  BY DEF NULL
<1> USE DEF Recorded
<1>3. CASE p = NULL \/ r.process # "running"
  <2>1. f = r
    BY <1>3 DEF Freed
  <2>2. Lost(r, f, p, {})
    BY <1>2, <1>3, <2>1 DEF Lost
  <2>3. r.process = "running" => p = NULL
    BY <1>3
  <2> QED
    BY <1>2, <2>1, <2>2, <2>3
<1>4. CASE p # NULL /\ r.process = "running" /\ p.block \in r.heap
  <2>1. f = [r EXCEPT !.heap = r.heap \ {p.block}]
    BY <1>4 DEF Freed
  <2>2. f.heap = r.heap \ {p.block} /\ f.process = r.process /\ p.to = "heap"
    BY <1>1, <1>4, <2>1
  <2>3. Lost(r, f, p, {p.block})
    BY <1>1, <2>2 DEF Lost
  <2> QED
    BY <1>4, <2>1, <2>2, <2>3
<1>5. CASE p # NULL /\ r.process = "running" /\ p.block \notin r.heap
  <2>1. f = [r EXCEPT !.process = p.to]
    BY <1>5 DEF Freed
  <2>2. Lost(r, f, p, {})
    BY <2>1 DEF Lost
  <2>3. f.process = p.to /\ p.to # "running"
    BY <1>1, <1>5, <1>a, <2>1 DEF PointerUpTo, Heap, Literal, Garbage
  <2>4. Recorded(f, k, n)
    BY <1>5, <1>a, <2>1
  <2>5. /\ p # Garbage
        /\ p.to = "heap" => p.block \in r.heap
        => p.to = "literal"
    BY <1>5, <1>a
  <2> QED
    BY <1>5, <2>1, <2>2, <2>3, <2>4, <2>5
<1> QED
  BY <1>3, <1>4, <1>5

\* The parts of a good response.
LEMMA GoodParts ==
  ASSUME NEW r, Good(r)
  PROVE  \E n \in Nat :
           /\ r.used = n
           /\ r \in [resp: Response(n), body: Seq(Byte), heap: SUBSET (1 .. n),
                     used: Nat, process: ProcessKind]
           /\ r.resp \in Response(n + 1)
           /\ r.resp.status_message \in PointerUpTo(n)
           /\ r.resp.body \in PointerUpTo(n)
           /\ {Literal, NULL, Heap(n + 1)} \subseteq PointerUpTo(n + 1)
           /\ r.resp.status_message.to = "heap" => r.resp.status_message.block \in r.heap
           /\ r.resp.body.to = "heap" => r.resp.body.block \in r.heap
<1>1. PICK n \in Nat : r.used = n
  BY DEF Good
<1>2. r \in [resp: Response(n), body: Seq(Byte), heap: SUBSET (1 .. n),
              used: Nat, process: ProcessKind]
  BY <1>1 DEF Good, Typed
<1>3. n + 1 \in Nat /\ n <= n + 1 /\ n + 1 \in 1 .. n + 1
  BY <1>1
<1>4. r.resp \in Response(n)
  BY <1>2
<1>5. r.resp \in Response(n + 1)
  BY <1>1, <1>3, <1>4, Grows DEF Response
<1>6. {Literal, NULL, Heap(n + 1)} \subseteq PointerUpTo(n + 1)
  BY <1>1, <1>3, Grows
<1>7. /\ PointersOf(r.resp)[1] = r.resp.status_message
      /\ PointersOf(r.resp)[2] = r.resp.body
      /\ 1 \in Places(r.resp) /\ 2 \in Places(r.resp)
  BY <1>1, <1>4, PointerPlaces DEF Places
<1>8. \A i \in Places(r.resp) :
        PointersOf(r.resp)[i].to = "heap" => PointersOf(r.resp)[i].block \in r.heap
  BY DEF Good, Owned
<1> QED
  BY <1>1, <1>2, <1>4, <1>5, <1>6, <1>7, <1>8 DEF Response

\* a is x with a code and a message allocated for it.
Stored(x, a, code) ==
  a = [Allocated(x, 1) EXCEPT !.resp.status_code = code,
                              !.resp.status_message = Heap(Allocated(x, 1).used)]

\* q is the old message if it is freed, NULL if it is forgotten.
LEMMA StatusSet ==
  ASSUME NEW r, Good(r), NEW code \in Nat, NEW q \in {NULL, r.resp.status_message},
         NEW x, x = Freed(r, q), NEW a, Stored(x, a, code)
  PROVE  /\ Good(a)
         /\ a.process = "running" => r.process = "running"
         /\ a.body = r.body
         /\ a.resp.status_code = code
         /\ a.resp.status_message.to = "heap"
         /\ a.resp.content_type = r.resp.content_type
         /\ a.resp.body = r.resp.body
         /\ a.resp.headers = r.resp.headers
         /\ a.resp.keep_connected = r.resp.keep_connected
         /\ r.process = "running" /\ Safe(r.resp.status_message) => a.process = "running"
         /\ Fair(r) => Fair(a)
         /\ /\ Kept(r) /\ a.process = "running"
            /\ q = r.resp.status_message \/ r.resp.status_message.to # "heap"
            => Kept(a)
<1>1. PICK n \in Nat :
        /\ r.used = n
        /\ r \in [resp: Response(n), body: Seq(Byte), heap: SUBSET (1 .. n),
                  used: Nat, process: ProcessKind]
        /\ r.resp \in Response(n + 1)
        /\ r.resp.status_message \in PointerUpTo(n)
        /\ r.resp.body \in PointerUpTo(n)
        /\ {Literal, NULL, Heap(n + 1)} \subseteq PointerUpTo(n + 1)
        /\ r.resp.status_message.to = "heap" => r.resp.status_message.block \in r.heap
        /\ r.resp.body.to = "heap" => r.resp.body.block \in r.heap
  BY GoodParts
<1>2. /\ Recorded(x, n, n)
      /\ x.resp = r.resp /\ x.body = r.body /\ x.used = r.used
      /\ x.process = "running" => r.process = "running"
      /\ \E lost : Lost(r, x, q, lost)
      /\ /\ r.process = "running"
         /\ q = NULL \/ (q.to = "heap" /\ q.block \in r.heap)
         => x.process = "running"
      /\ /\ r.process \in {"running", "literal"} /\ q # Garbage
         /\ q.to = "heap" => q.block \in r.heap
         => x.process \in {"running", "literal"}
  <2>1. q \in PointerUpTo(n) /\ Recorded(r, n, n)
    BY <1>1 DEF Recorded, PointerUpTo
  <2> QED
    BY ONLY n \in Nat, x = Freed(r, q), <2>1, FreedParts
<1>3. x \in [resp: Response(n), body: Seq(Byte), heap: SUBSET (1 .. n),
             used: Nat, process: ProcessKind]
  BY <1>2 DEF Recorded
<1>4. PICK lost :
        /\ x.heap = r.heap \ lost
        /\ \A b \in lost : r.resp.status_message = Heap(b)
        /\ x.process = "running" /\ q.to = "heap" => q.block \in lost
  <2>1. PICK lost : Lost(r, x, q, lost)
    BY <1>2
  <2>2. \A b \in lost : NULL # Heap(b)
    BY DEF NULL, Heap
  <2> QED
    BY <2>1, <2>2 DEF Lost
<1> DEFINE p == r.resp.status_message
<1>5. n + 1 .. n + 1 = {n + 1} /\ n + 1 \in Nat
  BY <1>1
<1>6. /\ Allocated(x, 1) = [x EXCEPT !.heap = x.heap \cup {n + 1}, !.used = n + 1]
      /\ Allocated(x, 1).used = n + 1
  BY <1>1, <1>2, <1>3, <1>5 DEF Allocated
<1>7. a = [x EXCEPT !.heap = x.heap \cup {n + 1}, !.used = n + 1,
                    !.resp.status_code = code, !.resp.status_message = Heap(n + 1)]
  BY <1>1, <1>3, <1>6 DEF Stored
<1>8. /\ a.heap = (r.heap \ lost) \cup {n + 1} /\ a.used = n + 1
      /\ a.body = r.body /\ a.process = x.process
      /\ a.resp = [r.resp EXCEPT !.status_code = code, !.status_message = Heap(n + 1)]
  BY ONLY <1>2, <1>3, <1>4, <1>7
<1>9. /\ a.resp \in Response(n + 1)
      /\ a.resp.status_code = code
      /\ a.resp.status_message = Heap(n + 1)
      /\ a.resp.content_type = r.resp.content_type
      /\ a.resp.body = r.resp.body
      /\ a.resp.headers = r.resp.headers
      /\ a.resp.keep_connected = r.resp.keep_connected
  BY ONLY <1>1, <1>8, code \in Nat DEF Response
<1>10. a \in [resp: Response(n + 1), body: Seq(Byte), heap: SUBSET Nat,
              used: {n + 1}, process: ProcessKind]
  <2>1. a.heap \in SUBSET Nat
    BY <1>1, <1>5, <1>8
  <2>2. a = [x EXCEPT !.heap = a.heap, !.used = n + 1, !.resp = a.resp]
    BY <1>3, <1>7
  <2> QED
    BY <1>3, <1>9, <2>1, <2>2
<1>11. /\ PointersOf(r.resp)[1] = p /\ PointersOf(r.resp)[2] = r.resp.body
       /\ PointersOf(a.resp)[1] = Heap(n + 1) /\ PointersOf(a.resp)[2] = r.resp.body
  <2>1. r.resp \in Response(n)
    BY <1>1
  <2> QED
    BY <1>1, <1>5, <1>9, <2>1, PointerPlaces
<1>12. /\ Good(a)
       /\ /\ Kept(r)
          /\ PointersOf(r.resp)[1].to = "heap" => PointersOf(r.resp)[1].block \in lost
          /\ \/ PointersOf(a.resp)[2] = PointersOf(r.resp)[2]
             \/ PointersOf(r.resp)[2].to # "heap"
          => Kept(a)
  <2>1. 1 \in {1, 2} /\ 2 \in {1, 2} /\ 1 # 2
    OBVIOUS
  <2>2. \A b \in lost : PointersOf(r.resp)[1] = Heap(b)
    BY <1>4, <1>11
  <2>3. /\ PointersOf(a.resp)[1] = Heap(n + 1)
        /\ PointersOf(a.resp)[2] = PointersOf(r.resp)[2]
    BY <1>11
  <2>4. a.resp.headers = r.resp.headers /\ a.heap = (r.heap \ lost) \cup {n + 1}
    BY <1>8, <1>9
  <2>5. n \in Nat /\ r.used = n /\ Good(r)
    BY <1>1
  <2> QED
    BY ONLY <1>10, <2>1, <2>2, <2>3, <2>4, <2>5, OneBlock
<1>13. Heap(n + 1).to = "heap"
  BY DEF Heap
<1>14. r.process = "running" /\ Safe(p) => x.process = "running"
  BY <1>1, <1>2 DEF Safe
<1>15. Fair(r) => Fair(a)
  <2>1. NULL # Garbage /\ NULL.to # "heap" /\ Heap(n + 1) # Garbage
    BY DEF NULL, Garbage, Heap
  <2>2. /\ q # Garbage \/ r.resp.status_message = Garbage
        /\ q.to = "heap" => q.block \in r.heap
    BY <1>1, <2>1
  <2> QED
    BY <1>2, <1>8, <1>9, <2>1, <2>2 DEF Fair
<1> QED
  BY <1>2, <1>4, <1>8, <1>9, <1>11, <1>12, <1>13, <1>14, <1>15

LEMMA StatusForms ==
  ASSUME NEW r, NEW code
  PROVE  /\ Stored(Freed(r, r.resp.status_message),
                   http_response_set_status(r, code, TRUE), code)
         /\ Stored(Freed(r, NULL), http_response_set_status(r, code, FALSE), code)
<1>1. Freed(r, NULL) = r
  BY DEF Freed
<1> QED
  BY <1>1 DEF http_response_set_status, Stored

LEMMA BodySet ==
  ASSUME NEW r, Good(r), NEW content \in Seq(Byte), NEW a,
         a = http_response_set_body(r, content)
  PROVE  /\ Good(a)
         /\ a.process = "running" => r.process = "running"
         /\ a.resp.status_code = r.resp.status_code
         /\ a.resp.status_message = r.resp.status_message
         /\ a.resp.content_type = r.resp.content_type
         /\ a.resp.body.to = "heap"
         /\ a.resp.headers = r.resp.headers
         /\ a.resp.keep_connected = r.resp.keep_connected
         /\ r.process = "running" /\ Safe(r.resp.body) => a.process = "running"
         /\ Fair(r) => Fair(a)
         /\ Kept(r) /\ a.process = "running" => Kept(a)
<1>1. PICK n \in Nat :
        /\ r.used = n
        /\ r \in [resp: Response(n), body: Seq(Byte), heap: SUBSET (1 .. n),
                  used: Nat, process: ProcessKind]
        /\ r.resp \in Response(n + 1)
        /\ r.resp.status_message \in PointerUpTo(n)
        /\ r.resp.body \in PointerUpTo(n)
        /\ {Literal, NULL, Heap(n + 1)} \subseteq PointerUpTo(n + 1)
        /\ r.resp.status_message.to = "heap" => r.resp.status_message.block \in r.heap
        /\ r.resp.body.to = "heap" => r.resp.body.block \in r.heap
  BY GoodParts
<1>a. PICK p : p = r.resp.body
  OBVIOUS
<1>b. PICK x : x = Allocated(r, 1)
  OBVIOUS
<1>c. PICK f : f = Freed(x, p)
  OBVIOUS
<1>2. n + 1 .. n + 1 = {n + 1} /\ n + 1 \in Nat /\ n + 1 \notin 1 .. n
  BY <1>1
<1>3. x = [r EXCEPT !.heap = r.heap \cup {n + 1}, !.used = n + 1]
  BY <1>1, <1>2, <1>b DEF Allocated
<1>4. /\ x \in [resp: Response(n + 1), body: Seq(Byte), heap: SUBSET (1 .. n + 1),
                used: Nat, process: ProcessKind]
      /\ x.resp = r.resp /\ x.body = r.body /\ x.used = n + 1
      /\ x.process = r.process /\ x.heap = r.heap \cup {n + 1}
  <2>1. r.heap \cup {n + 1} \in SUBSET (1 .. n + 1)
    BY <1>1
  <2> QED
    BY <1>1, <1>2, <1>3, <2>1
<1>5. /\ f \in [resp: Response(n + 1), body: Seq(Byte), heap: SUBSET (1 .. n + 1),
                used: Nat, process: ProcessKind]
      /\ f.resp = x.resp /\ f.body = x.body /\ f.used = x.used
      /\ f.process = "running" => x.process = "running"
      /\ \E lost : Lost(x, f, p, lost)
      /\ /\ x.process = "running"
         /\ p = NULL \/ (p.to = "heap" /\ p.block \in x.heap)
         => f.process = "running"
      /\ /\ x.process \in {"running", "literal"} /\ p # Garbage
         /\ p.to = "heap" => p.block \in x.heap
         => f.process \in {"running", "literal"}
  <2>1. f = Freed(x, p) /\ p \in PointerUpTo(n + 1)
    BY <1>1, <1>2, <1>a, <1>c, Grows
  <2>2. PICK m \in Nat : m = n + 1
    BY <1>2
  <2>3. Recorded(x, m, m)
    BY <1>4, <2>2 DEF Recorded
  <2>4. p \in PointerUpTo(m)
    BY <2>1, <2>2
  <2>5. /\ Recorded(f, m, m)
        /\ f.resp = x.resp /\ f.body = x.body /\ f.used = x.used
        /\ f.process = "running" => x.process = "running"
        /\ \E lost : Lost(x, f, p, lost)
        /\ /\ x.process = "running"
           /\ p = NULL \/ (p.to = "heap" /\ p.block \in x.heap)
           => f.process = "running"
        /\ /\ x.process \in {"running", "literal"} /\ p # Garbage
           /\ p.to = "heap" => p.block \in x.heap
           => f.process \in {"running", "literal"}
    <3>1. f = Freed(x, p)
      BY <2>1
    <3> QED
      BY ONLY m \in Nat, <2>3, <2>4, <3>1, FreedParts
  <2> QED
    BY <2>2, <2>5 DEF Recorded
<1>6. a = [f EXCEPT !.resp.body = Heap(f.used), !.body = content]
  BY <1>a, <1>b, <1>c DEF http_response_set_body
<1>7. \A k : p = Heap(k) => k \in 1 .. n
  BY <1>1, <1>a, PointerForms
<1>8. PICK lost : Lost(x, f, p, lost)
  BY <1>5
<1>9. /\ f.heap = (r.heap \ lost) \cup {n + 1}
      /\ \A b \in lost : p = Heap(b)
      /\ f.process = "running" /\ p.to = "heap" => p.block \in lost
  <2>1. \A b \in lost : p = Heap(b) /\ b # n + 1
    BY <1>2, <1>7, <1>8 DEF Lost
  <2> QED
    BY <1>4, <1>8, <2>1 DEF Lost
<1>10. /\ a.heap = (r.heap \ lost) \cup {n + 1} /\ a.used = n + 1
       /\ a.body = content /\ a.process = f.process
       /\ a.resp = [r.resp EXCEPT !.body = Heap(n + 1)]
  BY <1>4, <1>5, <1>6, <1>9
<1>11. /\ a.resp \in Response(n + 1)
       /\ a.resp.status_code = r.resp.status_code
       /\ a.resp.status_message = r.resp.status_message
       /\ a.resp.content_type = r.resp.content_type
       /\ a.resp.body = Heap(n + 1)
       /\ a.resp.headers = r.resp.headers
       /\ a.resp.keep_connected = r.resp.keep_connected
  BY <1>1, <1>10 DEF Response
<1>12. a \in [resp: Response(n + 1), body: Seq(Byte), heap: SUBSET Nat,
              used: {n + 1}, process: ProcessKind]
  <2>1. a.heap \in SUBSET Nat
    BY <1>1, <1>2, <1>10
  <2>2. a = [f EXCEPT !.body = content, !.resp = a.resp]
    BY <1>5, <1>6
  <2>3. f.heap = a.heap /\ f.used = n + 1
    BY <1>4, <1>5, <1>9, <1>10
  <2> QED
    BY <1>5, <1>11, <2>1, <2>2, <2>3
<1>13. /\ PointersOf(r.resp)[1] = r.resp.status_message /\ PointersOf(r.resp)[2] = p
       /\ PointersOf(a.resp)[1] = r.resp.status_message
       /\ PointersOf(a.resp)[2] = Heap(n + 1)
  <2>1. r.resp \in Response(n)
    BY <1>1
  <2> QED
    BY <1>1, <1>2, <1>11, <1>a, <2>1, PointerPlaces
<1>14. /\ Good(a)
       /\ /\ Kept(r)
          /\ PointersOf(r.resp)[2].to = "heap" => PointersOf(r.resp)[2].block \in lost
          /\ \/ PointersOf(a.resp)[1] = PointersOf(r.resp)[1]
             \/ PointersOf(r.resp)[1].to # "heap"
          => Kept(a)
  <2>1. 1 \in {1, 2} /\ 2 \in {1, 2} /\ 2 # 1
    OBVIOUS
  <2>2. \A b \in lost : PointersOf(r.resp)[2] = Heap(b)
    BY <1>9, <1>13
  <2>3. /\ PointersOf(a.resp)[2] = Heap(n + 1)
        /\ PointersOf(a.resp)[1] = PointersOf(r.resp)[1]
    BY <1>13
  <2>4. a.resp.headers = r.resp.headers /\ a.heap = (r.heap \ lost) \cup {n + 1}
    BY <1>10, <1>11
  <2>5. n \in Nat /\ r.used = n /\ Good(r)
    BY <1>1
  <2> QED
    BY ONLY <1>12, <2>1, <2>2, <2>3, <2>4, <2>5, OneBlock
<1>15. Heap(n + 1).to = "heap"
  BY DEF Heap
<1>16. r.process = "running" /\ Safe(p) => f.process = "running"
  BY <1>1, <1>4, <1>5, <1>a DEF Safe
<1>17. Fair(r) => Fair(a)
  <2>1. Heap(n + 1) # Garbage
    BY DEF Garbage, Heap
  <2>2. p.to = "heap" => p.block \in x.heap
    BY <1>1, <1>4, <1>a
  <2> QED
    BY <1>4, <1>5, <1>10, <1>11, <1>a, <2>1, <2>2 DEF Fair
<1> QED
  BY <1>17, <1>a, <1>4, <1>5, <1>9, <1>10, <1>11, <1>13, <1>14, <1>15, <1>16

\* x is r with a code and a message set by hand, no body, and one more block.
Begun(r, x, code) == x = Allocated(ByHand(r, code, NULL), 1)

\* a is x with its newest block for a body.
Made(x, a, content) == a = [x EXCEPT !.resp.body = Heap(x.used), !.body = content]

\* A code, a literal for a message and a body made for it, as Fails and Read set
\* them.
LEMMA BodyMade ==
  ASSUME NEW r, Good(r), NEW code \in Nat, NEW content \in Seq(Byte), NEW x, NEW a,
         Begun(r, x, code), Made(x, a, content)
  PROVE  /\ Good(a)
         /\ a.process = r.process
         /\ a.body = content
         /\ a.resp.status_code = code
         /\ a.resp.status_message = Literal
         /\ a.resp.content_type = r.resp.content_type
         /\ a.resp.body.to = "heap"
         /\ a.resp.headers = r.resp.headers
         /\ a.resp.keep_connected = r.resp.keep_connected
         /\ Fair(r) => Fair(a)
         /\ /\ Kept(r)
            /\ r.resp.status_message.to # "heap" /\ r.resp.body.to # "heap"
            => Kept(a)
<1>1. PICK n \in Nat :
        /\ r.used = n
        /\ r \in [resp: Response(n), body: Seq(Byte), heap: SUBSET (1 .. n),
                  used: Nat, process: ProcessKind]
        /\ r.resp \in Response(n + 1)
        /\ r.resp.status_message \in PointerUpTo(n)
        /\ r.resp.body \in PointerUpTo(n)
        /\ {Literal, NULL, Heap(n + 1)} \subseteq PointerUpTo(n + 1)
        /\ r.resp.status_message.to = "heap" => r.resp.status_message.block \in r.heap
        /\ r.resp.body.to = "heap" => r.resp.body.block \in r.heap
  BY GoodParts
<1>2. n + 1 .. n + 1 = {n + 1} /\ n + 1 \in Nat
  BY <1>1
<1> DEFINE y == ByHand(r, code, NULL)
<1>a. /\ y.heap = r.heap /\ y.used = n /\ y.body = r.body /\ y.process = r.process
      /\ y.resp = [r.resp EXCEPT !.status_code = code, !.status_message = Literal,
                                 !.body = NULL]
      /\ y \in [resp: Response(n + 1), body: Seq(Byte), heap: SUBSET (1 .. n),
                used: Nat, process: ProcessKind]
  <2>1. y = [r EXCEPT !.resp = [r.resp EXCEPT !.status_code = code,
                                              !.status_message = Literal, !.body = NULL]]
    BY <1>1 DEF ByHand
  <2>2. [r.resp EXCEPT !.status_code = code, !.status_message = Literal, !.body = NULL]
        \in Response(n + 1)
    BY <1>1 DEF Response
  <2> HIDE DEF y
  <2> QED
    BY <1>1, <2>1, <2>2
<1> HIDE DEF y
<1>3. /\ x = [y EXCEPT !.heap = r.heap \cup {n + 1}, !.used = n + 1]
      /\ x.resp = y.resp /\ x.used = n + 1
      /\ x \in [resp: Response(n + 1), body: Seq(Byte), heap: SUBSET Nat,
                used: Nat, process: ProcessKind]
  <2>1. x = [y EXCEPT !.heap = r.heap \cup {n + 1}, !.used = n + 1]
    BY <1>2, <1>a DEF Allocated, Begun, y
  <2>2. r.heap \cup {n + 1} \in SUBSET Nat
    BY <1>1, <1>2
  <2> QED
    BY ONLY <1>2, <1>a, <2>1, <2>2
<1>4. a = [x EXCEPT !.resp = [y.resp EXCEPT !.body = Heap(n + 1)], !.body = content]
  BY ONLY <1>3, Made(x, a, content) DEF Made
<1>5. /\ a.heap = r.heap \cup {n + 1} /\ a.used = n + 1
      /\ a.body = content /\ a.process = r.process
      /\ a.resp = [y.resp EXCEPT !.body = Heap(n + 1)]
  BY ONLY <1>a, <1>3, <1>4
<1>b. /\ y.resp \in Response(n + 1)
      /\ y.resp.status_code = code /\ y.resp.status_message = Literal
      /\ y.resp.content_type = r.resp.content_type
      /\ y.resp.headers = r.resp.headers
      /\ y.resp.keep_connected = r.resp.keep_connected
  BY <1>1, <1>a DEF Response
<1>6. /\ a.resp \in Response(n + 1)
      /\ a.resp.status_code = code
      /\ a.resp.status_message = Literal
      /\ a.resp.content_type = r.resp.content_type
      /\ a.resp.body = Heap(n + 1)
      /\ a.resp.headers = r.resp.headers
      /\ a.resp.keep_connected = r.resp.keep_connected
  BY <1>1, <1>b, <1>5 DEF Response
<1>7. a \in [resp: Response(n + 1), body: Seq(Byte), heap: SUBSET Nat,
             used: {n + 1}, process: ProcessKind]
  <2>1. a.heap \in SUBSET Nat
    BY <1>1, <1>2, <1>5
  <2>2. a = [x EXCEPT !.body = content, !.resp = a.resp]
    BY <1>3, <1>4, <1>5
  <2>3. x.heap = a.heap
    BY <1>a, <1>3, <1>5
  <2> QED
    BY <1>3, <1>6, <2>1, <2>2, <2>3
<1>8. /\ PointersOf(r.resp)[1] = r.resp.status_message
      /\ PointersOf(r.resp)[2] = r.resp.body
      /\ PointersOf(a.resp)[1] = Literal
      /\ PointersOf(a.resp)[2] = Heap(n + 1)
  <2>1. r.resp \in Response(n)
    BY <1>1
  <2> QED
    BY <1>1, <1>2, <1>6, <2>1, PointerPlaces
<1>9. Heap(n + 1).to = "heap" /\ Literal.to # "heap"
  BY DEF Heap, Literal
<1>10. /\ Good(a)
       /\ /\ Kept(r)
          /\ PointersOf(r.resp)[2].to # "heap" /\ PointersOf(r.resp)[1].to # "heap"
          => Kept(a)
  <2>1. 1 \in {1, 2} /\ 2 \in {1, 2} /\ 2 # 1
    OBVIOUS
  <2>2. PICK lost : lost = {}
    OBVIOUS
  <2>3. /\ PointersOf(a.resp)[2] = Heap(n + 1)
        /\ PointersOf(a.resp)[1].to # "heap"
    BY <1>8, <1>9
  <2>4. a.resp.headers = r.resp.headers /\ a.heap = (r.heap \ lost) \cup {n + 1}
    BY <1>5, <1>6, <2>2
  <2>5. n \in Nat /\ r.used = n /\ Good(r)
    BY <1>1
  <2>6. \A b \in lost : PointersOf(r.resp)[2] = Heap(b)
    BY <2>2
  <2>7. /\ Good(a)
        /\ /\ Kept(r)
           /\ PointersOf(r.resp)[2].to = "heap" => PointersOf(r.resp)[2].block \in lost
           /\ \/ PointersOf(a.resp)[1] = PointersOf(r.resp)[1]
              \/ PointersOf(r.resp)[1].to # "heap"
           => Kept(a)
    BY ONLY <1>7, <2>1, <2>3, <2>4, <2>5, <2>6, OneBlock
  <2> QED
    BY <2>7
<1>11. Fair(r) => Fair(a)
  <2>1. Heap(n + 1) # Garbage /\ Literal # Garbage
    BY DEF Garbage, Heap, Literal
  <2> QED
    BY <1>5, <1>6, <2>1 DEF Fair
<1> QED
  BY <1>5, <1>6, <1>8, <1>9, <1>10, <1>11

\* A block is added that no pointer is to: each pointer stays or is replaced by one
\* that is not to the heap.
LEMMA OneLost ==
  ASSUME NEW r, Good(r), NEW n \in Nat, r.used = n,
         NEW b \in [resp: Response(n + 1), body: Seq(Byte), heap: SUBSET Nat,
                    used: {n + 1}, process: ProcessKind],
         b.resp.headers = r.resp.headers, b.heap = r.heap \cup {n + 1},
         \A i \in {1, 2} : \/ PointersOf(b.resp)[i] = PointersOf(r.resp)[i]
                          \/ PointersOf(b.resp)[i].to # "heap"
  PROVE  Good(b)
<1> DEFINE P == PointersOf(r.resp)
           Q == PointersOf(b.resp)
<1>1. /\ r.resp \in Response(n) /\ r.heap \subseteq 1 .. n
      /\ Len(r.resp.headers) <= INIT_RESPONSE_HEADER_SIZE
      /\ Owned(r)
  BY DEF Good, Typed
<1>2. PICK len \in Nat : Len(r.resp.headers) = len
  BY <1>1, PointerPlaces
<1>3. Places(b.resp) = Places(r.resp) /\ Places(r.resp) = 1 .. 2 * len + 2
  BY <1>2 DEF Places
<1>4. \A i \in Places(r.resp) : i \in {1, 2} \/ Q[i] = P[i]
  <2>1. \A i \in 3 .. 2 * Len(r.resp.headers) + 2 : Q[i] = P[i]
    BY ONLY n \in Nat, <1>1, b.resp.headers = r.resp.headers, SamePlaces
  <2> HIDE DEF P, Q
  <2> SUFFICES ASSUME NEW i \in 1 .. 2 * len + 2, i # 1, i # 2 PROVE Q[i] = P[i]
    BY <1>3
  <2>2. i \in 3 .. 2 * len + 2
    OBVIOUS
  <2> QED
    BY <1>2, <2>1, <2>2
<1>5. \A i \in Places(r.resp) : P[i].to = "heap" => P[i].block \in r.heap
  BY <1>1 DEF Owned
<1>6. \A i \in {1, 2} : Q[i] = P[i] \/ Q[i].to # "heap"
  OBVIOUS
<1> HIDE DEF P, Q
<1>7. Owned(b)
  <2> SUFFICES ASSUME NEW i \in Places(b.resp)
               PROVE  \/ /\ i \in Places(r.resp) /\ Q[i] = P[i]
                         /\ Q[i].to = "heap" => Q[i].block \in b.heap
                      \/ Q[i].to # "heap"
    BY <1>1, OwnedFrom DEF P, Q
  <2> QED
    BY <1>3, <1>4, <1>5, <1>6
<1>8. b.heap \subseteq 1 .. n + 1
  BY <1>1
<1> QED
  BY <1>1, <1>7, <1>8 DEF Good, Typed

-----------------------------------------------------------------------------
(* What each call does.                                                    *)

Gives(name) ==
  IF name = "file" THEN 2 ELSE IF name \in {"add_header", "json", "static"} THEN 1 ELSE 0

Effect(r, a, name) ==
  /\ Good(a)
  /\ name \notin HandCalls /\ Plain(r) => Plain(a)
  /\ Fair(r) => Fair(a)
  /\ a.resp.keep_connected = r.resp.keep_connected \/ name = "on_request"
  /\ \/ a.resp.content_type = r.resp.content_type
     \/ a.resp.content_type = Literal /\ name = "on_request"
  /\ a.resp.status_message.to = "heap" =>
       r.resp.status_message.to = "heap" \/ name \in StatusCalls
  /\ a.resp.body.to = "heap" => r.resp.body.to = "heap" \/ name \in BodyCalls
  /\ Len(a.resp.headers) <= Len(r.resp.headers) + Gives(name)
  /\ a.resp.keep_connected = 0 /\ a.resp.body = NULL =>
       r.resp.keep_connected = 0 /\ r.resp.body = NULL /\ name \in BareCalls
  /\ /\ Kept(r) /\ a.process = "running"
     /\ Len(r.resp.headers) + Gives(name) <= INIT_RESPONSE_HEADER_SIZE
     /\ r.resp.status_message.to = "heap" => name \notin ForgetsStatus
     /\ r.resp.body.to = "heap" => name # "static"
     /\ name # "on_request"
     => Kept(a)

LEMMA HeadersCount ==
  ASSUME NEW r, Good(r)
  PROVE  Len(r.resp.headers) \in Nat
<1>1. PICK n \in Nat : r.used = n
  BY DEF Good
<1>2. r.resp \in Response(n)
  BY <1>1 DEF Good, Typed
<1> QED
  BY <1>1, <1>2, PointerPlaces

LEMMA StatusCall ==
  ASSUME NEW r, Good(r)
  PROVE  /\ Effect(r, http_response_set_status(r, 201, TRUE), "set_status_message")
         /\ Effect(r, http_response_set_status(r, 201, FALSE), "set_status")
<1>1. ASSUME NEW name \in {"set_status_message", "set_status"}, NEW a,
             NEW q \in {NULL, r.resp.status_message},
             name = "set_status_message" => q = r.resp.status_message,
             NEW x, x = Freed(r, q), Stored(x, a, 201)
      PROVE  Effect(r, a, name)
  <2>1. 201 \in Nat
    OBVIOUS
  <2>2. /\ Good(a)
        /\ a.process = "running" => r.process = "running"
        /\ a.body = r.body
        /\ a.resp.status_code = 201
        /\ a.resp.status_message.to = "heap"
        /\ a.resp.content_type = r.resp.content_type
        /\ a.resp.body = r.resp.body
        /\ a.resp.headers = r.resp.headers
        /\ a.resp.keep_connected = r.resp.keep_connected
        /\ r.process = "running" /\ Safe(r.resp.status_message) => a.process = "running"
        /\ Fair(r) => Fair(a)
        /\ /\ Kept(r) /\ a.process = "running"
           /\ q = r.resp.status_message \/ r.resp.status_message.to # "heap"
           => Kept(a)
    BY ONLY Good(r), <1>1, <2>1, StatusSet
  <2>3. Gives(name) = 0 /\ Len(r.resp.headers) \in Nat
    BY HeadersCount DEF Gives
  <2>4. Plain(r) => Plain(a)
    BY <2>2 DEF Plain, Safe
  <2>5. name \in StatusCalls /\ name \in BareCalls
    BY DEF StatusCalls, BareCalls
  <2>6. name = "set_status_message" \/ name \in ForgetsStatus
    BY DEF ForgetsStatus
  <2> QED
    BY <1>1, <2>2, <2>3, <2>4, <2>5, <2>6 DEF Effect
<1>2. Effect(r, http_response_set_status(r, 201, TRUE), "set_status_message")
  BY <1>1, StatusForms
<1>3. Effect(r, http_response_set_status(r, 201, FALSE), "set_status")
  BY ZenonT(30), <1>1, StatusForms
<1> QED
  BY <1>2, <1>3

LEMMA BodyCall ==
  ASSUME NEW r, Good(r), NEW content \in Seq(Byte)
  PROVE  Effect(r, http_response_set_body(r, content), "set_body")
<1>1. PICK a : a = http_response_set_body(r, content)
  OBVIOUS
<1>2. /\ Good(a)
      /\ a.resp.status_message = r.resp.status_message
      /\ a.resp.content_type = r.resp.content_type
      /\ a.resp.body.to = "heap"
      /\ a.resp.headers = r.resp.headers
      /\ a.resp.keep_connected = r.resp.keep_connected
      /\ r.process = "running" /\ Safe(r.resp.body) => a.process = "running"
      /\ Fair(r) => Fair(a)
      /\ Kept(r) /\ a.process = "running" => Kept(a)
  BY <1>1, BodySet
<1>3. Gives("set_body") = 0 /\ Len(r.resp.headers) \in Nat
  BY HeadersCount DEF Gives
<1>4. Plain(r) => Plain(a)
  BY <1>2 DEF Plain, Safe
<1>5. "set_body" \in BodyCalls /\ a.resp.body # NULL
  BY <1>2 DEF BodyCalls, NULL
<1> QED
  BY <1>1, <1>2, <1>3, <1>4, <1>5 DEF Effect

LEMMA HeaderCall ==
  ASSUME NEW r, Good(r)
  PROVE  Effect(r, http_response_add_header(r), "add_header")
<1>1. PICK a : a = http_response_add_header(r)
  OBVIOUS
<1>2. /\ Good(a)
      /\ a.process = r.process
      /\ a.resp.status_message = r.resp.status_message
      /\ a.resp.content_type = r.resp.content_type
      /\ a.resp.body = r.resp.body
      /\ a.resp.keep_connected = r.resp.keep_connected
      /\ Len(a.resp.headers) <= Len(r.resp.headers) + 1
      /\ Kept(r) /\ Len(r.resp.headers) < INIT_RESPONSE_HEADER_SIZE => Kept(a)
  BY <1>1, HeaderAdded
<1>3. Gives("add_header") = 1 /\ Len(r.resp.headers) \in Nat
  BY HeadersCount DEF Gives
<1>4. (Plain(r) => Plain(a)) /\ (Fair(r) => Fair(a))
  BY <1>2 DEF Plain, Fair
<1>5. "add_header" \in BareCalls
  BY DEF BareCalls
<1>6. Len(r.resp.headers) + 1 <= INIT_RESPONSE_HEADER_SIZE =>
        Len(r.resp.headers) < INIT_RESPONSE_HEADER_SIZE
  BY <1>3, ResponseAssumption
<1> QED
  BY <1>1, <1>2, <1>3, <1>4, <1>5, <1>6 DEF Effect

LEMMA TextCall ==
  ASSUME NEW r, Good(r), NEW content \in Seq(Byte)
  PROVE  Effect(r, http_response_json(r, content), "json")
<1>1. PICK x : x = http_response_set_status(r, 200, FALSE)
  OBVIOUS
<1>2. PICK y : y = http_response_set_body(x, content)
  OBVIOUS
<1>3. PICK a : a = http_response_add_header(y)
  OBVIOUS
<1>4. a = http_response_json(r, content)
  BY <1>1, <1>2, <1>3 DEF http_response_json
<1>5. /\ Good(x)
      /\ x.process = "running" => r.process = "running"
      /\ x.resp.status_message.to = "heap"
      /\ x.resp.content_type = r.resp.content_type
      /\ x.resp.body = r.resp.body
      /\ x.resp.headers = r.resp.headers
      /\ x.resp.keep_connected = r.resp.keep_connected
      /\ r.process = "running" /\ Safe(r.resp.status_message) => x.process = "running"
      /\ Fair(r) => Fair(x)
      /\ Kept(r) /\ x.process = "running" /\ r.resp.status_message.to # "heap" => Kept(x)
  <2>1. 200 \in Nat /\ NULL \in {NULL, r.resp.status_message}
    OBVIOUS
  <2>2. PICK z : z = Freed(r, NULL)
    OBVIOUS
  <2>3. Stored(z, x, 200)
    BY <1>1, <2>2, StatusForms
  <2> QED
    BY ONLY Good(r), <2>1, <2>2, <2>3, StatusSet
<1>6. /\ Good(y)
      /\ y.process = "running" => x.process = "running"
      /\ y.resp.status_message = x.resp.status_message
      /\ y.resp.content_type = x.resp.content_type
      /\ y.resp.body.to = "heap"
      /\ y.resp.headers = x.resp.headers
      /\ y.resp.keep_connected = x.resp.keep_connected
      /\ x.process = "running" /\ Safe(x.resp.body) => y.process = "running"
      /\ Fair(x) => Fair(y)
      /\ Kept(x) /\ y.process = "running" => Kept(y)
  BY <1>2, <1>5, BodySet
<1>7. /\ Good(a)
      /\ a.process = y.process
      /\ a.resp.status_message = y.resp.status_message
      /\ a.resp.content_type = y.resp.content_type
      /\ a.resp.body = y.resp.body
      /\ a.resp.keep_connected = y.resp.keep_connected
      /\ Len(a.resp.headers) <= Len(y.resp.headers) + 1
      /\ Kept(y) /\ Len(y.resp.headers) < INIT_RESPONSE_HEADER_SIZE => Kept(a)
  BY <1>3, <1>6, HeaderAdded
<1>8. Gives("json") = 1 /\ Len(r.resp.headers) \in Nat
  BY HeadersCount DEF Gives
<1>9. (Plain(r) => Plain(a)) /\ (Fair(r) => Fair(a))
  BY <1>5, <1>6, <1>7 DEF Plain, Safe, Fair
<1>10. "json" \in StatusCalls /\ "json" \in BodyCalls /\ "json" \in ForgetsStatus
  BY DEF StatusCalls, BodyCalls, ForgetsStatus
<1>11. a.resp.body # NULL
  BY <1>6, <1>7 DEF NULL
<1>12. Len(r.resp.headers) + 1 <= INIT_RESPONSE_HEADER_SIZE =>
         Len(y.resp.headers) < INIT_RESPONSE_HEADER_SIZE
  BY <1>5, <1>6, <1>8, ResponseAssumption
<1> QED
  BY <1>4, <1>5, <1>6, <1>7, <1>8, <1>9, <1>10, <1>11, <1>12 DEF Effect

LEMMA FileCall ==
  ASSUME NEW r, Good(r), NEW content \in Seq(Byte)
  PROVE  Effect(r, http_response_file(r, content), "file")
<1>1. PICK x : x = http_response_json(r, content)
  OBVIOUS
<1>2. PICK a : a = http_response_add_header(x)
  OBVIOUS
<1>3. a = http_response_file(r, content)
  BY <1>1, <1>2 DEF http_response_file
<1>4. Effect(r, x, "json")
  BY <1>1, TextCall
<1>5. Good(x)
  BY <1>4 DEF Effect
<1>6. Effect(x, a, "add_header")
  BY <1>2, <1>5, HeaderCall
<1>7. /\ Gives("json") = 1 /\ Gives("add_header") = 1 /\ Gives("file") = 2
      /\ Len(r.resp.headers) \in Nat /\ Len(x.resp.headers) \in Nat
      /\ Len(a.resp.headers) \in Nat
  BY <1>5, <1>6, HeadersCount DEF Gives, Effect
<1>8. /\ "json" \notin HandCalls /\ "add_header" \notin HandCalls /\ "file" \notin HandCalls
      /\ "file" \in StatusCalls /\ "file" \in BodyCalls /\ "file" \in ForgetsStatus
      /\ "add_header" \notin ForgetsStatus /\ "json" \notin BareCalls
  BY DEF HandCalls, StatusCalls, BodyCalls, ForgetsStatus, BareCalls
<1>9. a.process = x.process
  BY <1>2, <1>5, HeaderAdded
<1>10. Len(a.resp.headers) <= Len(r.resp.headers) + 2
  <2>1. /\ Len(x.resp.headers) <= Len(r.resp.headers) + 1
        /\ Len(a.resp.headers) <= Len(x.resp.headers) + 1
    BY <1>4, <1>6, <1>7 DEF Effect
  <2>2. PICK l \in Nat : l = Len(r.resp.headers)
    BY <1>7
  <2>3. PICK m \in Nat : m = Len(x.resp.headers)
    BY <1>7
  <2>4. PICK k \in Nat : k = Len(a.resp.headers)
    BY <1>7
  <2>5. m <= l + 1 /\ k <= m + 1
    BY <2>1, <2>2, <2>3, <2>4
  <2>6. k <= l + 2
    BY ONLY <2>5, l \in Nat, m \in Nat, k \in Nat
  <2> QED
    BY <2>2, <2>4, <2>6
<1>11. Len(r.resp.headers) + 2 <= INIT_RESPONSE_HEADER_SIZE =>
         /\ Len(r.resp.headers) + 1 <= INIT_RESPONSE_HEADER_SIZE
         /\ Len(x.resp.headers) + 1 <= INIT_RESPONSE_HEADER_SIZE
  BY SMTT(30), <1>4, <1>7, ResponseAssumption DEF Effect
<1>12. "json" # "on_request" /\ "add_header" # "on_request"
  OBVIOUS
<1> QED
  BY <1>3, <1>4, <1>6, <1>7, <1>8, <1>9, <1>10, <1>11, <1>12 DEF Effect

LEMMA OneByte == <<"x">> \in Seq(Byte)
<1>1. "x" \in Byte
  BY DEF Byte
<1> QED
  BY <1>1

LEMMA HandParts ==
  ASSUME NEW n \in Nat, NEW r, Recorded(r, n, n), NEW code \in Nat,
         NEW p \in PointerUpTo(n), NEW y, y = ByHand(r, code, p)
  PROVE  /\ Recorded(y, n, n)
         /\ y.resp \in Response(n)
         /\ y.heap = r.heap /\ y.used = r.used /\ y.body = r.body
         /\ y.process = r.process
         /\ y.resp.status_code = code /\ y.resp.status_message = Literal
         /\ y.resp.body = p
         /\ y.resp.content_type = r.resp.content_type
         /\ y.resp.headers = r.resp.headers
         /\ y.resp.keep_connected = r.resp.keep_connected
<1>1. r \in [resp: Response(n), body: Seq(Byte), heap: SUBSET (1 .. n),
             used: Nat, process: ProcessKind]
  BY DEF Recorded
<1>2. PICK s \in Response(n) : s = r.resp
  BY <1>1
<1>3. Literal \in PointerUpTo(n)
  BY DEF PointerUpTo
<1>4. PICK t : t = [s EXCEPT !.status_code = code, !.status_message = Literal, !.body = p]
  OBVIOUS
<1>5. t \in Response(n)
  BY ONLY s \in Response(n), code \in Nat, p \in PointerUpTo(n), <1>3, <1>4 DEF Response
<1>6. /\ t.status_code = code /\ t.status_message = Literal /\ t.body = p
      /\ t.content_type = s.content_type /\ t.headers = s.headers
      /\ t.keep_connected = s.keep_connected
  BY ONLY s \in Response(n), <1>4 DEF Response
<1>7. y = [r EXCEPT !.resp = t]
  BY ONLY y = ByHand(r, code, p), <1>1, <1>2, <1>4 DEF ByHand
<1> QED
  BY ONLY <1>1, <1>2, <1>5, <1>6, <1>7 DEF Recorded

LEMMA FailsCall ==
  ASSUME NEW r, Good(r), NEW code \in Nat
  PROVE  /\ Effect(r, Fails(r, code), "static")
         /\ Fails(r, code).resp.status_code = code
<1>1. PICK x : x = Allocated(ByHand(r, code, NULL), 1)
  OBVIOUS
<1>2. PICK a : a = Fails(r, code)
  OBVIOUS
<1>3. PICK content \in Seq(Byte) : content = <<"x">>
  BY ONLY OneByte
<1>a. Made(x, a, content) /\ Begun(r, x, code)
  BY <1>1, <1>2, <1>3 DEF Fails, Made, Begun
<1>4. /\ Good(a)
      /\ a.resp.status_code = code
      /\ a.resp.status_message = Literal
      /\ a.resp.content_type = r.resp.content_type
      /\ a.resp.body.to = "heap"
      /\ a.resp.headers = r.resp.headers
      /\ a.resp.keep_connected = r.resp.keep_connected
      /\ Fair(r) => Fair(a)
      /\ /\ Kept(r)
         /\ r.resp.status_message.to # "heap" /\ r.resp.body.to # "heap"
         => Kept(a)
  BY ONLY Good(r), code \in Nat, content \in Seq(Byte), <1>a, BodyMade
<1>5. Gives("static") = 1 /\ Len(r.resp.headers) \in Nat
  BY HeadersCount DEF Gives
<1>6. "static" \in HandCalls /\ "static" \in BodyCalls /\ "static" \in ForgetsStatus
  BY DEF HandCalls, BodyCalls, ForgetsStatus
<1>7. a.resp.body # NULL /\ a.resp.status_message.to # "heap"
  BY <1>4 DEF NULL, Literal
<1> QED
  BY <1>2, <1>4, <1>5, <1>6, <1>7 DEF Effect

LEMMA ReadCall ==
  ASSUME NEW r, Good(r), NEW before \in Seq(Byte), NEW now \in Seq(Byte), NEW a,
         a = Read(r, before, now)
  PROVE  /\ Effect(r, a, "static")
         /\ a.resp.status_code = 200 =>
              /\ a.resp.body # NULL
              /\ Len(now) >= Len(before)
              /\ a.body = SubSeq(now, 1, Len(before))
<1>1. PICK x : x = Allocated(ByHand(r, 200, NULL), 1)
  OBVIOUS
<1>2. Len(before) \in Nat /\ Len(now) \in Nat
  BY LenProperties
<1>3. CASE Len(now) < Len(before)
  <2>1. a = Fails(r, 404)
    BY <1>3 DEF Read
  <2>2. Effect(r, a, "static") /\ a.resp.status_code = 404
    BY <2>1, FailsCall
  <2> QED
    BY <2>2
<1>4. CASE ~(Len(now) < Len(before))
  <2>1. PICK y : y = [x EXCEPT !.resp.body = Heap(x.used),
                              !.body = SubSeq(now, 1, Len(before))]
    OBVIOUS
  <2>2. a = http_response_add_header(y)
    BY <1>1, <1>4, <2>1 DEF Read
  <2>3. PICK content \in Seq(Byte) : content = SubSeq(now, 1, Len(before))
    <3>1. SubSeq(now, 1, Len(before)) \in Seq(Byte)
      BY ONLY now \in Seq(Byte), <1>2, <1>4, SubSeqProperties
    <3> QED
      BY ONLY <3>1
  <2>4. Made(x, y, content) /\ Begun(r, x, 200) /\ 200 \in Nat
    BY <1>1, <2>1, <2>3 DEF Made, Begun
  <2>5. /\ Good(y)
        /\ y.body = content
        /\ y.resp.status_message = Literal
        /\ y.resp.content_type = r.resp.content_type
        /\ y.resp.body.to = "heap"
        /\ y.resp.headers = r.resp.headers
        /\ y.resp.keep_connected = r.resp.keep_connected
        /\ Fair(r) => Fair(y)
        /\ /\ Kept(r)
           /\ r.resp.status_message.to # "heap" /\ r.resp.body.to # "heap"
           => Kept(y)
    BY ONLY Good(r), content \in Seq(Byte), <2>4, BodyMade
  <2>6. /\ Good(a)
        /\ a.process = y.process /\ a.body = y.body
        /\ a.resp.status_message = y.resp.status_message
        /\ a.resp.content_type = y.resp.content_type
        /\ a.resp.body = y.resp.body
        /\ a.resp.keep_connected = y.resp.keep_connected
        /\ Len(a.resp.headers) <= Len(y.resp.headers) + 1
        /\ Kept(y) /\ Len(y.resp.headers) < INIT_RESPONSE_HEADER_SIZE => Kept(a)
    BY ONLY <2>2, <2>5, HeaderAdded
  <2>7. Gives("static") = 1 /\ Len(r.resp.headers) \in Nat
    BY HeadersCount DEF Gives
  <2>8. "static" \in HandCalls /\ "static" \in BodyCalls /\ "static" \in ForgetsStatus
    BY DEF HandCalls, BodyCalls, ForgetsStatus
  <2>9. a.resp.body # NULL /\ a.resp.status_message.to # "heap"
    BY <2>5, <2>6 DEF NULL, Literal
  <2>10. Len(r.resp.headers) + 1 <= INIT_RESPONSE_HEADER_SIZE =>
           Len(y.resp.headers) < INIT_RESPONSE_HEADER_SIZE
    BY <2>5, <2>7, ResponseAssumption
  <2>a. Fair(r) => Fair(a)
    BY <2>5, <2>6 DEF Fair
  <2>11. Effect(r, a, "static")
    BY ONLY <2>5, <2>6, <2>7, <2>8, <2>9, <2>10, <2>a DEF Effect
  <2> QED
    BY <1>2, <1>4, <2>3, <2>5, <2>6, <2>9, <2>11
<1> QED
  BY <1>3, <1>4

\* a is x as on_request fills it, with the body of r or another.
Answered(r, x, a) ==
  /\ x = Allocated(r, 1)
  /\ \/ a = [ByHand(x, 200, Literal) EXCEPT !.body = <<"x">>,
                                            !.resp.content_type = Literal]
     \/ a = [ByHand(x, 404, r.resp.body) EXCEPT !.resp.keep_connected = 1]

LEMMA HandCall ==
  ASSUME NEW r, Good(r), NEW x, NEW a, Answered(r, x, a)
  PROVE  Effect(r, a, "on_request")
<1>0. /\ x = Allocated(r, 1)
      /\ \/ a = [ByHand(x, 200, Literal) EXCEPT !.body = <<"x">>,
                                                !.resp.content_type = Literal]
         \/ a = [ByHand(x, 404, r.resp.body) EXCEPT !.resp.keep_connected = 1]
  BY DEF Answered
<1>1. PICK n \in Nat :
        /\ r.used = n
        /\ r \in [resp: Response(n), body: Seq(Byte), heap: SUBSET (1 .. n),
                  used: Nat, process: ProcessKind]
        /\ r.resp \in Response(n + 1)
  BY GoodParts
<1>a. PICK m \in Nat : m = n + 1
  BY <1>1
<1>b. /\ x.resp = r.resp /\ x.heap = r.heap \cup {m} /\ x.used = m
      /\ x.process = r.process
      /\ x \in [resp: Response(m), body: Seq(Byte), heap: SUBSET (1 .. m),
                used: Nat, process: ProcessKind]
  <2>1. n + 1 .. n + 1 = {m}
    BY <1>a
  <2>2. x = [r EXCEPT !.heap = r.heap \cup {m}, !.used = m]
    BY <1>0, <1>1, <1>a, <2>1 DEF Allocated
  <2>3. r.heap \cup {m} \in SUBSET (1 .. m) /\ r.resp \in Response(m)
    BY <1>1, <1>a
  <2> QED
    BY ONLY <1>1, <2>2, <2>3, m \in Nat
<1>2. x.resp \in Response(m) /\ {Literal, NULL} \subseteq PointerUpTo(m)
  BY <1>b, Grows
<1>3. /\ a.resp \in Response(m)
      /\ a.resp.status_message = Literal
      /\ a.resp.headers = x.resp.headers
      /\ a.heap = x.heap /\ a.used = m /\ a.process = x.process
      /\ a \in [resp: Response(m), body: Seq(Byte), heap: SUBSET Nat,
                used: {m}, process: ProcessKind]
      /\ \/ a.resp.content_type = Literal /\ a.resp.body = Literal
         \/ /\ a.resp.content_type = x.resp.content_type /\ a.resp.body = x.resp.body
            /\ a.resp.keep_connected = 1
  <2>1. x.heap \in SUBSET Nat
    BY <1>b
  <2>2. CASE a = [ByHand(x, 200, Literal) EXCEPT !.body = <<"x">>,
                                                 !.resp.content_type = Literal]
    <3>1. PICK y : y = ByHand(x, 200, Literal)
      OBVIOUS
    <3>2. PICK t : t = y.resp
      OBVIOUS
    <3>3. /\ y \in [resp: Response(m), body: Seq(Byte), heap: SUBSET (1 .. m),
                    used: Nat, process: ProcessKind]
          /\ y.resp = t /\ y.heap = x.heap /\ y.process = x.process /\ y.used = m
          /\ t \in Response(m) /\ t.status_message = Literal /\ t.headers = x.resp.headers
          /\ t.body = Literal
      <4>1. Recorded(x, m, m) /\ 200 \in Nat /\ Literal \in PointerUpTo(m)
        BY <1>b, <1>2 DEF Recorded
      <4>2. /\ Recorded(y, m, m) /\ y.resp \in Response(m)
            /\ y.heap = x.heap /\ y.process = x.process /\ y.used = x.used
            /\ y.resp.status_message = Literal /\ y.resp.headers = x.resp.headers
            /\ y.resp.body = Literal
        BY ONLY m \in Nat, <3>1, <4>1, HandParts
      <4> QED
        BY <1>b, <3>2, <4>2 DEF Recorded
    <3>4. PICK s : s = [t EXCEPT !.content_type = Literal]
      OBVIOUS
    <3>5. /\ s \in Response(m) /\ s.status_message = Literal /\ s.headers = x.resp.headers
          /\ s.content_type = Literal /\ s.body = Literal
      BY ONLY <1>2, <3>3, <3>4 DEF Response
    <3>6. PICK content \in Seq(Byte) : content = <<"x">>
      BY ONLY OneByte
    <3>7. a = [y EXCEPT !.body = content, !.resp.content_type = Literal]
      BY ONLY <2>2, <3>1, <3>6
    <3>8. a = [y EXCEPT !.resp = s, !.body = content]
      BY ONLY <3>3, <3>4, <3>7
    <3> QED
      BY ONLY <2>1, <3>3, <3>5, <3>8, content \in Seq(Byte)
  <2>3. CASE a = [ByHand(x, 404, x.resp.body) EXCEPT !.resp.keep_connected = 1]
    <3>1. PICK y : y = ByHand(x, 404, x.resp.body)
      OBVIOUS
    <3>2. PICK t : t = y.resp
      OBVIOUS
    <3>3. /\ y \in [resp: Response(m), body: Seq(Byte), heap: SUBSET (1 .. m),
                    used: Nat, process: ProcessKind]
          /\ y.resp = t /\ y.heap = x.heap /\ y.process = x.process /\ y.used = m
          /\ t \in Response(m) /\ t.status_message = Literal /\ t.headers = x.resp.headers
          /\ t.body = x.resp.body /\ t.content_type = x.resp.content_type
      <4>1. Recorded(x, m, m) /\ 404 \in Nat /\ x.resp.body \in PointerUpTo(m)
        BY <1>b, <1>2 DEF Recorded, Response
      <4>2. /\ Recorded(y, m, m) /\ y.resp \in Response(m)
            /\ y.heap = x.heap /\ y.process = x.process /\ y.used = x.used
            /\ y.resp.status_message = Literal /\ y.resp.headers = x.resp.headers
            /\ y.resp.body = x.resp.body /\ y.resp.content_type = x.resp.content_type
        BY ONLY m \in Nat, <3>1, <4>1, HandParts
      <4> QED
        BY <1>b, <3>2, <4>2 DEF Recorded
    <3>4. PICK s : s = [t EXCEPT !.keep_connected = 1]
      OBVIOUS
    <3>5. /\ s \in Response(m) /\ s.status_message = Literal /\ s.headers = x.resp.headers
          /\ s.content_type = x.resp.content_type /\ s.body = x.resp.body
          /\ s.keep_connected = 1
      BY ONLY <1>2, <3>3, <3>4 DEF Response
    <3>6. a = [y EXCEPT !.resp = s]
      BY ONLY <2>3, <3>1, <3>3, <3>4
    <3> QED
      BY ONLY <2>1, <3>3, <3>5, <3>6
  <2> QED
    BY <1>0, <1>b, <2>2, <2>3
<1>4. /\ PointersOf(r.resp)[1] = r.resp.status_message
      /\ PointersOf(r.resp)[2] = r.resp.body
      /\ PointersOf(a.resp)[1] = Literal
      /\ PointersOf(a.resp)[2] = a.resp.body
  BY ONLY m \in Nat, <1>2, <1>3, <1>b, PointerPlaces
<1>5. Literal.to # "heap" /\ Literal # NULL /\ Literal # Garbage
  BY DEF Literal, NULL, Garbage
<1>6. Good(a)
  <2>1. \A i \in {1, 2} : \/ PointersOf(a.resp)[i] = PointersOf(r.resp)[i]
                         \/ PointersOf(a.resp)[i].to # "heap"
    BY <1>3, <1>4, <1>5, <1>b
  <2>2. n \in Nat /\ r.used = n
    BY <1>1
  <2>3. a.resp.headers = r.resp.headers /\ a.heap = r.heap \cup {n + 1}
    BY <1>3, <1>a, <1>b
  <2>4. a \in [resp: Response(n + 1), body: Seq(Byte), heap: SUBSET Nat,
               used: {n + 1}, process: ProcessKind]
    BY <1>3, <1>a
  <2> QED
    BY ONLY Good(r), <2>1, <2>2, <2>3, <2>4, OneLost
<1>7. Fair(r) => Fair(a)
  BY <1>3, <1>5, <1>b DEF Fair
<1>8. Gives("on_request") = 0 /\ Len(r.resp.headers) \in Nat
  BY HeadersCount DEF Gives
<1>9. "on_request" \in HandCalls
  BY DEF HandCalls
<1>10. a.resp.keep_connected = 0 /\ a.resp.body = NULL => FALSE
  BY <1>3, <1>5
<1>11. a.resp.body.to = "heap" => r.resp.body.to = "heap"
  BY <1>3, <1>5, <1>b
<1> QED
  BY ONLY <1>3, <1>5, <1>6, <1>7, <1>8, <1>9, <1>10, <1>11, <1>b DEF Effect

-----------------------------------------------------------------------------
(* What the calls so far tell.                                             *)

CountOf(s, names) == Cardinality({n \in 1 .. Len(s) : s[n] \in names})

LEMMA CountNext ==
  ASSUME NEW s \in Seq(CallName), NEW name \in CallName, NEW names
  PROVE  /\ CountOf(s, names) \in Nat
         /\ name \in names => CountOf(Append(s, name), names) = CountOf(s, names) + 1
         /\ name \notin names => CountOf(Append(s, name), names) = CountOf(s, names)
<1> DEFINE t == Append(s, name)
<1>1. PICK len \in Nat : Len(s) = len
  BY LenProperties
<1>2. Len(t) = len + 1 /\ t[len + 1] = name /\ \A n \in 1 .. len : t[n] = s[n]
  BY <1>1, AppendProperties
<1> DEFINE A == {n \in 1 .. len : s[n] \in names}
           B == {n \in 1 .. len + 1 : t[n] \in names}
<1>3. B = IF name \in names THEN A \cup {len + 1} ELSE A
  <2>1. 1 .. len + 1 = (1 .. len) \cup {len + 1}
    OBVIOUS
  <2> QED
    BY <1>2, <2>1
<1>4. IsFiniteSet(A) /\ Cardinality(A) \in Nat
  <2>1. IsFiniteSet(1 .. len)
    BY FS_Interval
  <2>2. A \in SUBSET (1 .. len)
    OBVIOUS
  <2>3. IsFiniteSet(A)
    BY <2>1, <2>2, FS_Subset
  <2> QED
    BY <2>3, FS_CardinalityType
<1>5. len + 1 \notin A
  OBVIOUS
<1> HIDE DEF A, B, t
<1>6. Cardinality(A \cup {len + 1}) = Cardinality(A) + 1
  BY <1>4, <1>5, FS_AddElement
<1>7. /\ name \in names => Cardinality(B) = Cardinality(A) + 1
      /\ name \notin names => Cardinality(B) = Cardinality(A)
  BY <1>3, <1>4, <1>6
<1> QED
  BY <1>1, <1>2, <1>4, <1>7 DEF A, B, t, CountOf

LEMMA GivenNext ==
  ASSUME calls \in Seq(CallName), NEW name \in CallName, calls' = Append(calls, name)
  PROVE  HeadersGiven \in Nat /\ HeadersGiven' = HeadersGiven + Gives(name)
<1> DEFINE Some(s) == CountOf(s, {"add_header", "json", "file", "static"})
           Files(s) == CountOf(s, {"file"})
<1>a. \A names : /\ CountOf(calls, names) \in Nat
                 /\ name \in names => CountOf(calls', names) = CountOf(calls, names) + 1
                 /\ name \notin names => CountOf(calls', names) = CountOf(calls, names)
  BY CountNext
<1>1. /\ Some(calls) \in Nat
      /\ Some(calls') = Some(calls)
                         + IF name \in {"add_header", "json", "file", "static"} THEN 1 ELSE 0
  BY <1>a
<1>2. /\ Files(calls) \in Nat
      /\ Files(calls') = Files(calls) + IF name \in {"file"} THEN 1 ELSE 0
  BY <1>a
<1>3. \A s : Files(s) = Cardinality({n \in 1 .. Len(s) : s[n] = "file"})
  <2> TAKE s
  <2>1. {n \in 1 .. Len(s) : s[n] \in {"file"}} = {n \in 1 .. Len(s) : s[n] = "file"}
    OBVIOUS
  <2> QED
    BY <2>1 DEF CountOf
<1>4. HeadersGiven = Some(calls) + Files(calls) /\ HeadersGiven' = Some(calls') + Files(calls')
  BY <1>3 DEF HeadersGiven, CountOf
<1> HIDE DEF Some, Files
<1> QED
  BY <1>1, <1>2, <1>4 DEF Gives

LEMMA CalledNext ==
  ASSUME calls \in Seq(CallName), NEW name \in CallName, calls' = Append(calls, name), NEW names
  PROVE  Called(names)' <=> Called(names) \/ name \in names
<1>1. PICK len \in Nat : Len(calls) = len
  BY LenProperties
<1>2. Len(calls') = len + 1 /\ calls'[len + 1] = name /\ \A n \in 1 .. len : calls'[n] = calls[n]
  BY <1>1, AppendProperties
<1>3. 1 .. len + 1 = (1 .. len) \cup {len + 1}
  OBVIOUS
<1> QED
  BY <1>1, <1>2, <1>3 DEF Called

LEMMA LeakNext ==
  ASSUME calls \in Seq(CallName), NEW name \in CallName, calls' = Append(calls, name), ~MayLeak'
  PROVE  /\ ~MayLeak
         /\ HeadersGiven + Gives(name) <= INIT_RESPONSE_HEADER_SIZE
         /\ Called(StatusCalls) => name \notin ForgetsStatus
         /\ Called(BodyCalls) => name # "static"
         /\ name # "on_request"
<1>1. PICK len \in Nat : Len(calls) = len
  BY LenProperties
<1>2. Len(calls') = len + 1 /\ calls'[len + 1] = name /\ \A n \in 1 .. len : calls'[n] = calls[n]
  BY <1>1, AppendProperties
<1>3. HeadersGiven \in Nat /\ HeadersGiven' = HeadersGiven + Gives(name) /\ Gives(name) \in Nat
  BY GivenNext DEF Gives
<1>4. HeadersGiven + Gives(name) <= INIT_RESPONSE_HEADER_SIZE
  BY <1>3, ResponseAssumption DEF MayLeak
<1>5. \A m, n \in 1 .. len + 1 :
        m < n => /\ ~(calls'[m] \in StatusCalls /\ calls'[n] \in ForgetsStatus)
                 /\ ~(calls'[m] \in BodyCalls /\ calls'[n] = "static")
  BY <1>2 DEF MayLeak
<1>6. \A m, n \in 1 .. len :
        m < n => /\ ~(calls[m] \in StatusCalls /\ calls[n] \in ForgetsStatus)
                 /\ ~(calls[m] \in BodyCalls /\ calls[n] = "static")
  BY <1>2, <1>5
<1>a. ~Called({"on_request"}) /\ name # "on_request"
  <2>1. ~Called({"on_request"})'
    BY DEF MayLeak
  <2>2. Called({"on_request"})' <=> Called({"on_request"}) \/ name \in {"on_request"}
    BY CalledNext
  <2> QED
    BY <2>1, <2>2
<1>7. ~MayLeak
  BY <1>1, <1>3, <1>4, <1>6, <1>a, ResponseAssumption DEF MayLeak
<1>8. \A m \in 1 .. len : /\ m \in 1 .. len + 1 /\ len + 1 \in 1 .. len + 1 /\ m < len + 1
                         /\ calls'[m] = calls[m]
  BY <1>2
<1>9. /\ Called(StatusCalls) => name \notin ForgetsStatus
      /\ Called(BodyCalls) => name # "static"
  BY <1>1, <1>2, <1>5, <1>8 DEF Called
<1> QED
  BY <1>4, <1>7, <1>9, <1>a

-----------------------------------------------------------------------------
(* Freeing.                                                                *)

\* Each value of f is the one before with one more of the pointers freed.
FreesInTurn(f, r, ps, n) ==
  /\ f[0] = r
  /\ \A k \in 1 .. Len(ps) : Recorded(f[k - 1], n, n) /\ f[k] = Freed(f[k - 1], ps[k])
  /\ f[Len(ps)] = AllFreed(r, ps)

LEMMA AllFreedSteps ==
  ASSUME NEW n \in Nat, NEW r, Recorded(r, n, n), NEW ps \in Seq(PointerUpTo(n))
  PROVE  \E f : FreesInTurn(f, r, ps, n)
<1> DEFINE S == [resp: Response(n), body: Seq(Byte), heap: SUBSET (1 .. n),
                 used: Nat, process: ProcessKind]
           len == Len(ps)
           Body1(f) == [k \in 0 .. len |-> IF k = 0 THEN r ELSE Freed(f[k - 1], ps[k])]
           freed == CHOOSE f : f = Body1(f)
           step == [k \in 1 .. len |-> [x \in S |-> Freed(x, ps[k])]]
<1>1. AllFreed(r, ps) = freed[len]
  BY DEF AllFreed
<1>2. len \in Nat /\ \A k \in 1 .. len : ps[k] \in PointerUpTo(n)
  BY LenProperties
<1>3. step \in [1 .. len -> [S -> S]]
  <2> SUFFICES ASSUME NEW k \in 1 .. len, NEW x \in S PROVE Freed(x, ps[k]) \in S
    OBVIOUS
  <2>1. ps[k] \in PointerUpTo(n)
    BY <1>2
  <2>2. Recorded(x, n, n)
    BY DEF Recorded
  <2>3. Recorded(Freed(x, ps[k]), n, n)
    BY ONLY n \in Nat, <2>1, <2>2, FreedParts
  <2> QED
    BY <2>3 DEF Recorded
<1>4. PICK f \in [0 .. len -> S] : Follows(f, len, r, step)
  <2>1. r \in S
    BY DEF Recorded
  <2> HIDE DEF S, step, len
  <2> QED
    BY <1>2, <1>3, <2>1, Recursion
<1>5. \A k \in 1 .. len : k # 0 /\ f[k - 1] \in S /\ f[k] = Freed(f[k - 1], ps[k])
  <2> SUFFICES ASSUME NEW k \in 1 .. len
               PROVE  k # 0 /\ f[k - 1] \in S /\ f[k] = Freed(f[k - 1], ps[k])
    OBVIOUS
  <2>1. k # 0 /\ k - 1 \in 0 .. len
    BY <1>2
  <2> HIDE DEF len
  <2>2. f[k - 1] \in S /\ f[k] = step[k][f[k - 1]]
    BY <1>4, <2>1 DEF Follows
  <2> HIDE DEF S
  <2> QED
    BY <2>1, <2>2
<1>6. f = Body1(f)
  <2> SUFFICES ASSUME NEW k \in 0 .. len PROVE f[k] = Body1(f)[k]
    BY <1>4
  <2>1. CASE k = 0
    BY <1>4, <2>1 DEF Follows
  <2>2. CASE k # 0
    <3>1. k \in 1 .. len
      BY <1>2, <2>2
    <3> QED
      BY <1>5, <3>1
  <2> QED
    BY <2>1, <2>2
<1>7. freed = Body1(freed)
  <2> HIDE DEF Body1
  <2> QED
    BY <1>6
<1>8. freed[0] = r /\ \A k \in 1 .. len : freed[k] = Freed(freed[k - 1], ps[k])
  <2> HIDE DEF freed
  <2>1. \A k \in 0 .. len : freed[k] = Body1(freed)[k]
    BY <1>7
  <2> HIDE DEF len
  <2>2. 0 \in 0 .. len /\ \A k \in 1 .. len : k \in 0 .. len /\ k # 0
    BY <1>2
  <2> QED
    BY <2>1, <2>2
<1>9. \A k \in 0 .. len : freed[k] = f[k]
  <2> DEFINE T == {k \in 0 .. len : freed[k] = f[k]}
  <2> HIDE DEF freed
  <2>1. 0 \in T
    BY <1>2, <1>4, <1>8 DEF Follows
  <2>2. \A k \in 0 .. len - 1 : k \in T => k + 1 \in T
    <3> SUFFICES ASSUME NEW k \in 0 .. len - 1, k \in T PROVE freed[k + 1] = f[k + 1]
      BY <1>2
    <3>1. PICK m \in 1 .. len : m = k + 1
      BY <1>2
    <3>2. m - 1 = k /\ freed[k] = f[k]
      BY <3>1
    <3> QED
      BY <1>5, <1>8, <3>1, <3>2
  <2> HIDE DEF T
  <2>3. \A k \in 0 .. len : k \in T
    BY <1>2, <2>1, <2>2, SetInduction
  <2> QED
    BY <2>3 DEF T
<1>10. f[len] = AllFreed(r, ps)
  BY <1>1, <1>2, <1>9
<1>11. \A k \in 1 .. len : Recorded(f[k - 1], n, n)
  BY <1>5 DEF Recorded
<1>12. f[0] = r
  BY <1>4 DEF Follows
<1> HIDE DEF freed, step, S, Body1
<1>13. FreesInTurn(f, r, ps, n)
  BY <1>5, <1>10, <1>11, <1>12 DEF FreesInTurn
<1> QED
  BY ONLY <1>13

\* The pointers are to blocks that are allocated, each of its own, to literals
\* or NULL.
OwnedPointers(r, ps) ==
  /\ r.process \in {"running", "literal"}
  /\ \A i \in 1 .. Len(ps) :
       /\ ps[i] # Garbage
       /\ ps[i].to = "heap" => ps[i].block \in r.heap
  /\ \A i, j \in 1 .. Len(ps) : ps[i].to = "heap" /\ ps[i] = ps[j] => i = j

LEMMA FreedAll ==
  ASSUME NEW n \in Nat, NEW r, Recorded(r, n, n), NEW ps \in Seq(PointerUpTo(n))
  PROVE  LET a == AllFreed(r, ps)
         IN /\ Recorded(a, n, n)
            /\ a.resp = r.resp /\ a.body = r.body /\ a.used = r.used
            /\ a.heap \subseteq r.heap
            /\ a.process = "running" =>
                 \A i \in 1 .. Len(ps) : ps[i].to = "heap" => ps[i].block \notin a.heap
            /\ OwnedPointers(r, ps) => a.process \in {"running", "literal"}
            /\ r.process = "running" /\ OwnedPointers(r, ps) /\ a.process = "literal" =>
                 \E i \in 1 .. Len(ps) : ps[i].to = "literal"
<1>0. PICK f : FreesInTurn(f, r, ps, n)
  BY AllFreedSteps
<1>1. /\ f[0] = r
      /\ \A k \in 1 .. Len(ps) : Recorded(f[k - 1], n, n) /\ f[k] = Freed(f[k - 1], ps[k])
      /\ f[Len(ps)] = AllFreed(r, ps)
  BY <1>0 DEF FreesInTurn
<1>2. PICK len \in Nat : len = Len(ps)
  BY LenProperties
<1>3. \A k \in 1 .. len : ps[k] \in PointerUpTo(n)
  BY <1>2
<1> DEFINE Fine(k) == /\ Recorded(f[k], n, n)
                      /\ f[k].resp = r.resp /\ f[k].body = r.body /\ f[k].used = r.used
                      /\ f[k].heap \subseteq r.heap
                      /\ f[k].process = "running" =>
                           \A i \in 1 .. k : ps[i].to = "heap" => ps[i].block \notin f[k].heap
                      /\ OwnedPointers(r, ps) =>
                           /\ f[k].process \in {"running", "literal"}
                           /\ r.process = "running" /\ f[k].process = "literal" =>
                                \E i \in 1 .. len : ps[i].to = "literal"
                           /\ \A i \in k + 1 .. len :
                                ps[i].to = "heap" => ps[i].block \in f[k].heap
           T == {k \in 0 .. len : Fine(k)}
<1>4. 0 \in T
  <2>1. Recorded(f[0], n, n) /\ f[0] = r /\ 0 \in 0 .. len
    BY <1>1, <1>2
  <2>2. OwnedPointers(r, ps) =>
          /\ r.process \in {"running", "literal"}
          /\ \A i \in 0 + 1 .. len : ps[i].to = "heap" => ps[i].block \in r.heap
    BY <1>2 DEF OwnedPointers
  <2> QED
    BY <2>1, <2>2
<1>5. ASSUME NEW k \in 0 .. len - 1, k \in T PROVE k + 1 \in T
  <2>1. PICK m \in 1 .. len : m = k + 1
    BY <1>2
  <2>2. m - 1 = k /\ m \in 0 .. len /\ 1 .. m = (1 .. k) \cup {m}
    BY <2>1
  <2>3. Fine(k)
    BY <1>5
  <2>4. PICK x : x = f[k]
    OBVIOUS
  <2>5. PICK y : y = f[m]
    OBVIOUS
  <2>6. y = Freed(x, ps[m])
    BY <1>1, <1>2, <2>2, <2>4, <2>5
  <2>7. Recorded(x, n, n) /\ ps[m] \in PointerUpTo(n)
    BY <1>3, <2>3, <2>4
  <2>8. /\ Recorded(y, n, n)
        /\ y.resp = x.resp /\ y.body = x.body /\ y.used = x.used
        /\ y.process = "running" => x.process = "running"
        /\ \E lost : Lost(x, y, ps[m], lost)
    BY ONLY SMTT(30), n \in Nat, <2>6, <2>7, FreedParts
  <2>b. /\ x.process \in {"running", "literal"} /\ ps[m] # Garbage
        /\ ps[m].to = "heap" => ps[m].block \in x.heap
        => y.process \in {"running", "literal"}
    BY ONLY SMTT(30), n \in Nat, <2>6, <2>7, FreedParts
  <2>9. /\ y.heap \subseteq x.heap
        /\ y.process = "running" /\ ps[m].to = "heap" => ps[m].block \notin y.heap
    BY <2>8 DEF Lost
  <2>10. /\ x.resp = r.resp /\ x.body = r.body /\ x.used = r.used
         /\ x.heap \subseteq r.heap
         /\ x.process = "running" =>
              \A i \in 1 .. k : ps[i].to = "heap" => ps[i].block \notin x.heap
    BY <2>3, <2>4
  <2>11. /\ y.resp = r.resp /\ y.body = r.body /\ y.used = r.used
         /\ y.heap \subseteq r.heap
         /\ y.process = "running" =>
              \A i \in 1 .. m : ps[i].to = "heap" => ps[i].block \notin y.heap
    BY ONLY <2>2, <2>8, <2>9, <2>10
  <2>a. ASSUME OwnedPointers(r, ps)
        PROVE  /\ y.process \in {"running", "literal"}
               /\ r.process = "running" /\ y.process = "literal" =>
                    \E i \in 1 .. len : ps[i].to = "literal"
               /\ \A i \in m + 1 .. len : ps[i].to = "heap" => ps[i].block \in y.heap
    <3>1. /\ x.process \in {"running", "literal"}
          /\ r.process = "running" /\ x.process = "literal" =>
               \E i \in 1 .. len : ps[i].to = "literal"
          /\ \A i \in k + 1 .. len : ps[i].to = "heap" => ps[i].block \in x.heap
      BY <2>3, <2>4, <2>a
    <3>2. /\ m \in k + 1 .. len
          /\ \A i \in m + 1 .. len : i \in k + 1 .. len /\ i \in 1 .. len /\ i # m
      BY <2>1
    <3>3. /\ ps[m] # Garbage
          /\ \A i \in 1 .. len : ps[m].to = "heap" /\ ps[m] = ps[i] => m = i
      BY <1>2, <2>a DEF OwnedPointers
    <3>4. y.process \in {"running", "literal"}
      BY <2>b, <3>1, <3>2, <3>3
    <3>5. PICK lost : Lost(x, y, ps[m], lost)
      BY <2>8
    <3>6. ASSUME NEW i \in m + 1 .. len, ps[i].to = "heap" PROVE ps[i].block \in y.heap
      <4>1. ps[i].block \in x.heap /\ ps[i] # ps[m]
        BY <3>1, <3>2, <3>3, <3>6
      <4>2. ps[i] = Heap(ps[i].block)
        BY <1>3, <3>2, <3>6, PointerForms
      <4>3. ps[i].block \notin lost
        BY <3>5, <4>1, <4>2 DEF Lost
      <4> QED
        BY <3>5, <4>1, <4>3 DEF Lost
    <3>7. r.process = "running" /\ y.process = "literal" =>
            \E i \in 1 .. len : ps[i].to = "literal"
      <4>1. y.process \in {x.process, ps[m].to}
        BY ONLY n \in Nat, <2>6, <2>7, FreedParts
      <4> QED
        BY <3>1, <4>1
    <3> QED
      BY <3>4, <3>6, <3>7
  <2>12. Fine(m)
    BY <2>5, <2>8, <2>11, <2>a
  <2> HIDE DEF Fine
  <2> QED
    BY <2>1, <2>2, <2>12
<1>6. Fine(len)
  <2> HIDE DEF Fine
  <2>1. \A k \in 0 .. len - 1 : k \in T => k + 1 \in T
    BY <1>5
  <2> HIDE DEF T
  <2>2. \A k \in 0 .. len : k \in T
    BY ONLY len \in Nat, <1>4, <2>1, SetInduction
  <2>3. len \in 0 .. len
    OBVIOUS
  <2> QED
    BY <2>2, <2>3 DEF T
<1> QED
  BY <1>1, <1>2, <1>6

-----------------------------------------------------------------------------
(* The invariant.                                                          *)

LEMMA HereParts ==
  /\ Here.resp = resp /\ Here.body = body /\ Here.heap = heap
  /\ Here.used = used /\ Here.process = process
BY DEF Here

LEMMA TypedParts ==
  ASSUME NEW n \in Nat, NEW r, Typed(r, n)
  PROVE  /\ {r.resp.status_message, r.resp.content_type, r.resp.body} \subseteq PointerUpTo(n)
         /\ r.resp.headers \in Seq([key: PointerUpTo(n), value: PointerUpTo(n)])
         /\ Len(r.resp.headers) <= INIT_RESPONSE_HEADER_SIZE
         /\ r.heap \subseteq 1 .. n
         /\ r.process \in ProcessKind
         /\ r = [resp |-> r.resp, body |-> r.body, heap |-> r.heap, used |-> n,
                 process |-> r.process]
         /\ r.used = n
<1>1. /\ r \in [resp: Response(n), body: Seq(Byte), heap: SUBSET (1 .. n),
                used: {n}, process: ProcessKind]
      /\ Len(r.resp.headers) <= INIT_RESPONSE_HEADER_SIZE
  BY DEF Typed
<1>2. r.resp \in Response(n)
  BY <1>1
<1>3. HeaderUpTo(n) \subseteq [key: PointerUpTo(n), value: PointerUpTo(n)]
  BY DEF HeaderUpTo, PointerUpTo
<1>4. r.resp.headers \in Seq([key: PointerUpTo(n), value: PointerUpTo(n)])
  <2>1. r.resp.headers \in Seq(HeaderUpTo(n))
    BY <1>2 DEF Response
  <2>2. PICK A : A = [key: PointerUpTo(n), value: PointerUpTo(n)]
    OBVIOUS
  <2>3. PICK B : B = HeaderUpTo(n)
    OBVIOUS
  <2>4. B \subseteq A /\ r.resp.headers \in Seq(B)
    BY ONLY <1>3, <2>1, <2>2, <2>3
  <2>5. r.resp.headers \in Seq(A)
    BY ONLY <2>4
  <2> QED
    BY <2>2, <2>5
<1> QED
  BY <1>1, <1>2, <1>4 DEF Response

LEMMA InitIInv == Init => IInv
<1> SUFFICES ASSUME Init PROVE IInv
  OBVIOUS
<1>1. /\ resp = http_response_new /\ body = <<>> /\ heap = {} /\ used = 0
      /\ req \in Request /\ on_disk \in Content /\ st_size = 0 /\ pc = "callback"
      /\ process = "running" /\ calls = <<>>
  BY DEF Init
<1>2. resp \in Response(0)
  BY <1>1 DEF http_response_new, Response, PointerUpTo, HeaderUpTo
<1>3. Len(resp.headers) = 0 /\ INIT_RESPONSE_HEADER_SIZE \in Nat /\ MaxCalls \in Nat
  BY <1>1, ResponseAssumption DEF http_response_new
<1>4. Typed(Here, used)
  BY <1>1, <1>2, <1>3 DEF Typed, Here, ProcessKind
<1>5. 0 \in Nat /\ used \in Nat
  BY <1>1
<1>6. TypeOK
  <2>1. /\ {Here.resp.status_message, Here.resp.content_type, Here.resp.body}
             \subseteq PointerUpTo(used)
        /\ Here.resp.headers \in Seq([key: PointerUpTo(used), value: PointerUpTo(used)])
        /\ Len(Here.resp.headers) <= INIT_RESPONSE_HEADER_SIZE
        /\ Here.heap \subseteq 1 .. used
        /\ Here.process \in ProcessKind
    BY ONLY <1>4, <1>5, TypedParts
  <2>2. Pointer = PointerUpTo(used)
    BY DEF Pointer, PointerUpTo
  <2>3. Len(calls) <= MaxCalls /\ st_size \in Nat
    BY <1>1, <1>3
  <2> QED
    BY <1>1, <2>1, <2>2, <2>3, HereParts DEF TypeOK
<1>7. \A names : ~Called(names)
  BY <1>1 DEF Called
<1>8. CallsInv
  <2>1. calls \in Seq(CallName)
    BY <1>1
  <2>2. HeadersGiven \in Nat
    <3>1. /\ {n \in 1 .. Len(calls) :
                 calls[n] \in {"add_header", "json", "file", "static"}} = {}
          /\ {n \in 1 .. Len(calls) : calls[n] = "file"} = {}
      BY <1>1
    <3>2. Cardinality({}) = 0
      BY FS_EmptySet
    <3>3. HeadersGiven = 0 + 0
      BY <3>1, <3>2, Zenon DEF HeadersGiven
    <3> QED
      BY <3>3
  <2>3. /\ resp.status_message.to # "heap" /\ resp.body.to # "heap"
        /\ resp.content_type = Garbage
    BY <1>1 DEF http_response_new, NULL
  <2>4. calls # <<"static">> /\ 1 .. Len(calls) = {}
    BY <1>1
  <2> QED
    BY <1>1, <1>3, <2>1, <2>2, <2>3, <2>4 DEF CallsInv, http_response_new
<1>9. BlocksInv
  <2>1. \A i \in Places(resp) : PointersOf(resp)[i] = NULL
    <3>1. Places(resp) = {1, 2} /\ resp \in Response(0) /\ 0 \in Nat
      BY <1>2, <1>3 DEF Places
    <3>2. PointersOf(resp)[1] = NULL /\ PointersOf(resp)[2] = NULL
      BY <1>1, <3>1, PointerPlaces DEF http_response_new
    <3> QED
      BY <3>1, <3>2
  <2>2. NULL.to # "heap"
    BY DEF NULL
  <2>3. Owned(Here) /\ Kept(Here)
    BY <1>1, <2>1, <2>2, HereParts DEF Owned, Kept
  <2>4. Plain(Here) /\ Fair(Here)
    BY <1>1, HereParts DEF Plain, Safe, Fair, http_response_new, NULL, Garbage
  <2> QED
    BY <1>1, <2>3, <2>4 DEF BlocksInv
<1> QED
  BY <1>1, <1>4, <1>5, <1>6, <1>8, <1>9 DEF IInv, FreesItsOwn

LEMMA GoodHere == ASSUME IInv, pc = "callback" PROVE Good(Here)
BY HereParts DEF IInv, BlocksInv, Good

\* A call that has its effect keeps the invariant.
LEMMA CallStep ==
  ASSUME IInv, process = "running", NEW name \in CallName, Call(name),
         NEW a, Becomes(a), Effect(Here, a, name),
         on_disk' \in Content, st_size' \in Nat,
         name = "static" /\ a.resp.status_code = 200 =>
           /\ a.resp.body # NULL
           /\ Len(on_disk') >= st_size'
           /\ a.body = SubSeq(on_disk', 1, st_size')
  PROVE  IInv'
<1>1. /\ pc = "callback" /\ pc' = "callback" /\ req' = req /\ sent' = sent
      /\ Len(calls) < MaxCalls /\ calls' = Append(calls, name)
  BY DEF Call
<1>2. /\ resp' = a.resp /\ body' = a.body /\ heap' = a.heap /\ used' = a.used
      /\ process' = a.process
  BY DEF Becomes
<1>3. /\ TypeOK /\ CallsInv /\ BlocksInv /\ calls \in Seq(CallName)
      /\ Len(resp.headers) <= HeadersGiven
  BY DEF IInv, CallsInv
<1>4. Good(a) /\ a.used \in Nat /\ Typed(a, a.used) /\ Owned(a)
  BY DEF Effect, Good
<1>5. PICK n \in Nat : n = a.used
  BY <1>4
<1>6. /\ {a.resp.status_message, a.resp.content_type, a.resp.body} \subseteq PointerUpTo(n)
      /\ a.resp.headers \in Seq([key: PointerUpTo(n), value: PointerUpTo(n)])
      /\ Len(a.resp.headers) <= INIT_RESPONSE_HEADER_SIZE
      /\ a.heap \subseteq 1 .. n
      /\ a.process \in ProcessKind
      /\ a = [resp |-> a.resp, body |-> a.body, heap |-> a.heap, used |-> n,
              process |-> a.process]
  <2>1. Typed(a, n)
    BY <1>4, <1>5
  <2> QED
    BY ONLY n \in Nat, <2>1, TypedParts
<1>7. Here' = a /\ used' = n
  BY <1>2, <1>5, <1>6 DEF Here
<1>8. PICK len \in Nat : Len(calls) = len
  BY <1>3, LenProperties
<1>9. Len(calls') = len + 1 /\ calls' \in Seq(CallName)
  BY <1>1, <1>3, <1>8, AppendProperties
<1>10. TypeOK'
  <2>1. Pointer' = PointerUpTo(n)
    BY <1>7 DEF Pointer, PointerUpTo
  <2>2. Len(calls') <= MaxCalls
    BY <1>1, <1>8, <1>9, ResponseAssumption
  <2> QED
    BY <1>1, <1>2, <1>3, <1>6, <1>7, <2>1, <2>2 DEF TypeOK, ProcessKind
<1>11. (Typed(Here, used) /\ used \in Nat)'
  BY <1>4, <1>5, <1>7 DEF Typed
<1>12. \A names : Called(names)' <=> Called(names) \/ name \in names
  BY ONLY <1>1, <1>3, name \in CallName, CalledNext
<1>13. CallsInv'
  <2>1. (Len(resp.headers) <= HeadersGiven)'
    <3>1. HeadersGiven \in Nat /\ HeadersGiven' = HeadersGiven + Gives(name)
      BY ONLY <1>1, <1>3, name \in CallName, GivenNext
    <3>2. Len(resp.headers) \in Nat /\ Len(resp'.headers) \in Nat
      BY <1>1, <1>2, <1>4, HeadersCount, GoodHere, HereParts
    <3>3. Len(resp'.headers) <= Len(resp.headers) + Gives(name)
      BY <1>2, HereParts DEF Effect
    <3>4. Gives(name) \in Nat
      BY DEF Gives
    <3> QED
      BY <1>3, <3>1, <3>2, <3>3, <3>4
  <2>2. (resp.status_message.to = "heap" => Called(StatusCalls))'
    BY <1>2, <1>3, <1>12, HereParts DEF Effect, CallsInv
  <2>3. (resp.body.to = "heap" => Called(BodyCalls))'
    BY <1>2, <1>3, <1>12, HereParts DEF Effect, CallsInv
  <2>4. (\/ resp.content_type = Garbage
         \/ resp.content_type = Literal /\ Called({"on_request"}))'
    BY <1>2, <1>3, <1>12, HereParts DEF Effect, CallsInv
  <2>a. (resp.keep_connected = 0 \/ Called({"on_request"}))'
    BY <1>2, <1>3, <1>12, HereParts DEF Effect, CallsInv
  <2>5. (resp.keep_connected = 0 /\ resp.body = NULL =>
           \A k \in 1 .. Len(calls) : calls[k] \in BareCalls)'
    <3> SUFFICES ASSUME resp'.keep_connected = 0, resp'.body = NULL,
                        NEW k \in 1 .. len + 1
                 PROVE  calls'[k] \in BareCalls
      BY <1>9
    <3>1. resp.keep_connected = 0 /\ resp.body = NULL /\ name \in BareCalls
      BY <1>2, HereParts DEF Effect
    <3>2. \A m \in 1 .. len : calls[m] \in BareCalls
      BY <1>3, <1>8, <3>1 DEF CallsInv
    <3>3. calls'[len + 1] = name /\ \A m \in 1 .. len : calls'[m] = calls[m]
      BY <1>1, <1>3, <1>8, AppendProperties
    <3> QED
      BY <3>1, <3>2, <3>3
  <2>6. (calls = <<"static">> /\ resp.status_code = 200 =>
           /\ resp.body # NULL
           /\ Len(on_disk) >= st_size
           /\ body = SubSeq(on_disk, 1, st_size))'
    <3>1. calls' = <<"static">> => name = "static"
      <4>1. calls'[len + 1] = name
        BY <1>1, <1>3, <1>8, AppendProperties
      <4>2. calls' = <<"static">> => len + 1 = 1 /\ calls'[1] = "static"
        BY <1>9
      <4> QED
        BY <4>1, <4>2
    <3> QED
      BY <1>2, <3>1
  <2> QED
    BY <1>9, <2>1, <2>2, <2>3, <2>4, <2>5, <2>6, <2>a DEF CallsInv
<1>14. BlocksInv'
  <2>1. (pc # "freed" => Owned(Here) /\ Fair(Here))'
    <3>1. Fair(a)
      BY <1>1, <1>3 DEF BlocksInv, Effect
    <3> QED
      BY <1>4, <1>7, <3>1 DEF Owned, Fair
  <2>2. (pc # "freed" /\ ~Called(HandCalls) => Plain(Here))'
    <3>1. ASSUME ~Called(HandCalls)' PROVE Plain(a)
      BY <1>1, <1>3, <1>12, <3>1 DEF BlocksInv, Effect
    <3> QED
      BY <1>7, <3>1 DEF Plain, Safe
  <2>3. ASSUME process' = "running", ~MayLeak' PROVE Kept(a)
    <3>1. /\ ~MayLeak
          /\ HeadersGiven + Gives(name) <= INIT_RESPONSE_HEADER_SIZE
          /\ Called(StatusCalls) => name \notin ForgetsStatus
          /\ Called(BodyCalls) => name # "static"
          /\ name # "on_request"
      BY ONLY <1>1, <1>3, name \in CallName, <2>3, LeakNext
    <3>2. Kept(Here)
      BY <1>1, <1>3, <3>1 DEF BlocksInv
    <3>3. Len(Here.resp.headers) + Gives(name) <= INIT_RESPONSE_HEADER_SIZE
      <4>1. HeadersGiven \in Nat
        BY ONLY <1>1, <1>3, name \in CallName, GivenNext
      <4>2. Len(resp.headers) \in Nat
        BY <1>1, HeadersCount, GoodHere, HereParts
      <4>3. Gives(name) \in Nat
        BY DEF Gives
      <4> QED
        BY <1>3, <3>1, <4>1, <4>2, <4>3, HereParts, ResponseAssumption
    <3>4. /\ Here.resp.status_message.to = "heap" => name \notin ForgetsStatus
          /\ Here.resp.body.to = "heap" => name # "static"
          /\ name # "on_request"
      BY <1>3, <3>1, HereParts DEF CallsInv
    <3>5. a.process = "running"
      BY <1>2, <2>3
    <3> QED
      BY <3>2, <3>3, <3>4, <3>5 DEF Effect
  <2>4. (process = "running" /\ ~MayLeak =>
           IF pc = "freed" THEN heap = {} ELSE Kept(Here))'
    BY <1>1, <1>7, <2>3 DEF Kept
  <2> QED
    BY <2>1, <2>2, <2>4 DEF BlocksInv
<1>15. FreesItsOwn'
  <2>1. (Fair(Here) /\ (~Called(HandCalls) => Plain(Here)))'
    BY <1>1, <1>14 DEF BlocksInv
  <2>2. Here'.process = process'
    BY <1>2, <1>7
  <2>3. process' \in {"running", "literal"}
    BY <2>1, <2>2 DEF Fair
  <2>4. Called(HandCalls)' \/ process' = "running"
    BY <2>1, <2>2 DEF Plain
  <2> QED
    BY <2>3, <2>4 DEF FreesItsOwn, Called, HandCalls
<1> QED
  BY <1>1, <1>10, <1>11, <1>13, <1>14, <1>15 DEF IInv

LEMMA Contents == \A content \in Content : content \in Seq(Byte) /\ Len(content) \in Nat
<1> SUFFICES ASSUME NEW content \in Content PROVE content \in Seq(Byte) /\ Len(content) \in Nat
  OBVIOUS
<1>1. content \in Seq(STRING)
  BY ResponseAssumption
<1>2. PICK A : A = STRING
  OBVIOUS
<1>3. PICK B : B = Byte
  OBVIOUS
<1>4. A \subseteq B
  BY <1>2, <1>3 DEF Byte
<1>5. content \in Seq(A)
  BY <1>1, <1>2
<1>6. content \in Seq(B)
  BY ONLY <1>4, <1>5
<1> QED
  BY <1>3, <1>6, LenProperties

\* A call that touches no file.
LEMMA PlainCallStep ==
  ASSUME IInv, process = "running", NEW name \in CallName, name # "static", Call(name),
         NEW a, Becomes(a), Good(Here) => Effect(Here, a, name),
         UNCHANGED <<on_disk, st_size>>
  PROVE  IInv'
<1>1. pc = "callback"
  BY DEF Call
<1>2. Effect(Here, a, name)
  BY <1>1, GoodHere
<1>3. on_disk' \in Content /\ st_size' \in Nat
  BY DEF IInv, TypeOK
<1> QED
  BY <1>2, <1>3, CallStep

LEMMA SetStatusStep == ASSUME IInv, process = "running", SetStatus PROVE IInv'
<1>1. /\ "set_status_message" \in CallName /\ "set_status" \in CallName
      /\ UNCHANGED <<on_disk, st_size>>
  BY DEF CallName, SetStatus
<1>2. CASE Call("set_status_message") /\ Becomes(http_response_set_status(Here, 201, TRUE))
  <2>1. PICK a : a = http_response_set_status(Here, 201, TRUE)
    OBVIOUS
  <2>2. Good(Here) => Effect(Here, a, "set_status_message")
    BY <2>1, StatusCall
  <2> QED
    BY <1>1, <1>2, <2>1, <2>2, PlainCallStep
<1>3. CASE Call("set_status") /\ Becomes(http_response_set_status(Here, 201, FALSE))
  <2>1. PICK a : a = http_response_set_status(Here, 201, FALSE)
    OBVIOUS
  <2>2. Good(Here) => Effect(Here, a, "set_status")
    BY <2>1, StatusCall
  <2> QED
    BY <1>1, <1>3, <2>1, <2>2, PlainCallStep
<1> QED
  BY <1>2, <1>3 DEF SetStatus

LEMMA SetBodyStep == ASSUME IInv, process = "running", SetBody PROVE IInv'
<1>1. PICK content \in Content : Becomes(http_response_set_body(Here, content))
  BY DEF SetBody
<1>2. PICK a : a = http_response_set_body(Here, content)
  OBVIOUS
<1>3. Good(Here) => Effect(Here, a, "set_body")
  BY <1>2, BodyCall, Contents
<1>4. "set_body" \in CallName /\ Call("set_body") /\ UNCHANGED <<on_disk, st_size>>
  BY DEF CallName, SetBody
<1> QED
  BY <1>1, <1>2, <1>3, <1>4, PlainCallStep

LEMMA AddHeaderStep == ASSUME IInv, process = "running", AddHeader PROVE IInv'
<1>1. PICK a : a = http_response_add_header(Here)
  OBVIOUS
<1>2. Good(Here) => Effect(Here, a, "add_header")
  BY <1>1, HeaderCall
<1>3. /\ "add_header" \in CallName /\ Call("add_header") /\ UNCHANGED <<on_disk, st_size>>
      /\ Becomes(a)
  BY <1>1 DEF CallName, AddHeader
<1> QED
  BY <1>2, <1>3, PlainCallStep

LEMMA SendTextStep == ASSUME IInv, process = "running", SendText PROVE IInv'
<1>1. PICK content \in Content :
        \/ Call("json") /\ Becomes(http_response_json(Here, content))
        \/ Call("file") /\ Becomes(http_response_file(Here, content))
  BY DEF SendText
<1>2. "json" \in CallName /\ "file" \in CallName /\ UNCHANGED <<on_disk, st_size>>
  BY DEF CallName, SendText
<1>3. CASE Call("json") /\ Becomes(http_response_json(Here, content))
  <2>1. PICK a : a = http_response_json(Here, content)
    OBVIOUS
  <2>2. Good(Here) => Effect(Here, a, "json")
    BY <2>1, TextCall, Contents
  <2> QED
    BY <1>2, <1>3, <2>1, <2>2, PlainCallStep
<1>4. CASE Call("file") /\ Becomes(http_response_file(Here, content))
  <2>1. PICK a : a = http_response_file(Here, content)
    OBVIOUS
  <2>2. Good(Here) => Effect(Here, a, "file")
    BY <2>1, FileCall, Contents
  <2> QED
    BY <1>2, <1>4, <2>1, <2>2, PlainCallStep
<1> QED
  BY <1>1, <1>3, <1>4

LEMMA ServeFileStep == ASSUME IInv, process = "running", ServeFile PROVE IInv'
<1>1. /\ Call("static") /\ http_serve_static_file /\ "static" \in CallName
      /\ Good(Here) /\ on_disk \in Content /\ st_size \in Nat
  BY GoodHere DEF ServeFile, CallName, Call, IInv, TypeOK
<1>2. ASSUME NEW code \in {400, 404}, Becomes(Fails(Here, code)),
             UNCHANGED <<on_disk, st_size>>
      PROVE  IInv'
  <2>1. PICK a : a = Fails(Here, code)
    OBVIOUS
  <2>2. Effect(Here, a, "static") /\ a.resp.status_code # 200
    <3>1. code \in Nat /\ code # 200
      BY <1>2
    <3> QED
      BY <1>1, <2>1, <3>1, FailsCall
  <2> QED
    BY <1>1, <1>2, <2>1, <2>2, CallStep
<1>3. ASSUME on_disk' \in Content, st_size' = Len(on_disk),
             Becomes(Read(Here, on_disk, on_disk'))
      PROVE  IInv'
  <2>1. PICK before : before = on_disk
    OBVIOUS
  <2>2. PICK now : now = on_disk'
    OBVIOUS
  <2>3. before \in Seq(Byte) /\ now \in Seq(Byte) /\ Len(before) \in Nat
    BY <1>1, <1>3, <2>1, <2>2, Contents
  <2>4. PICK a : a = Read(Here, before, now)
    OBVIOUS
  <2>5. /\ Effect(Here, a, "static")
        /\ a.resp.status_code = 200 =>
             /\ a.resp.body # NULL
             /\ Len(now) >= Len(before)
             /\ a.body = SubSeq(now, 1, Len(before))
    BY ONLY <1>1, <2>3, <2>4, ReadCall
  <2>6. Becomes(a) /\ st_size' = Len(before)
    BY <1>3, <2>1, <2>2, <2>4
  <2> QED
    BY <1>1, <1>3, <2>2, <2>3, <2>5, <2>6, CallStep
<1> QED
  BY <1>1, <1>2, <1>3 DEF http_serve_static_file

LEMMA OnRequestStep == ASSUME IInv, process = "running", on_request PROVE IInv'
<1>1. PICK x : x = Allocated(Here, 1)
  OBVIOUS
<1>2. PICK a :
        /\ Becomes(a)
        /\ \/ a = [ByHand(x, 200, Literal) EXCEPT !.body = <<"x">>,
                                                  !.resp.content_type = Literal]
           \/ a = [ByHand(x, 404, resp.body) EXCEPT !.resp.keep_connected = 1]
  BY <1>1 DEF on_request
<1>3. Good(Here) => Effect(Here, a, "on_request")
  <2>1. PICK r : r = Here
    OBVIOUS
  <2>2. Answered(r, x, a)
    BY ONLY <1>1, <1>2, <2>1, HereParts DEF Answered
  <2>3. Good(r) => Effect(r, a, "on_request")
    BY ONLY <2>2, HandCall
  <2> QED
    BY ONLY <2>1, <2>3
<1>4. "on_request" \in CallName /\ Call("on_request") /\ UNCHANGED <<on_disk, st_size>>
  BY DEF CallName, on_request
<1> QED
  BY <1>2, <1>3, <1>4, PlainCallStep

LEMMA SameEncoding ==
  ASSUME UNCHANGED <<resp, body>>
  PROVE  http_response_encode_buffer' = http_response_encode_buffer
<1>1. CString(body)' = CString(body)
  OBVIOUS
<1> QED
  BY <1>1 DEF http_response_encode_buffer

LEMMA SameCalls ==
  ASSUME CallsInv, UNCHANGED <<resp, body, on_disk, st_size, calls>>
  PROVE  CallsInv' /\ (MayLeak' <=> MayLeak)
BY DEF CallsInv, MayLeak, HeadersGiven, Called

LEMMA SendStep == ASSUME IInv, Send PROVE IInv'
<1>1. /\ UNCHANGED <<resp, body, heap, used, req, on_disk, st_size, process, calls>>
      /\ pc = "callback" /\ pc' = "sent" /\ sent' = http_response_encode_buffer
  BY DEF Send
<1>2. TypeOK' /\ (Typed(Here, used) /\ used \in Nat)'
  BY <1>1 DEF IInv, TypeOK, Pointer, Typed, Here
<1>3. CallsInv' /\ (MayLeak' <=> MayLeak)
  BY <1>1, SameCalls DEF IInv
<1>4. BlocksInv'
  <2>1. Here' = Here
    BY <1>1 DEF Here
  <2>2. /\ Owned(Here)' <=> Owned(Here)
        /\ Plain(Here)' <=> Plain(Here)
        /\ Fair(Here)' <=> Fair(Here)
        /\ Kept(Here)' <=> Kept(Here)
        /\ Called(HandCalls)' <=> Called(HandCalls)
    BY <1>1, <2>1 DEF Owned, Plain, Fair, Kept, Called, Safe
  <2> QED
    BY <1>1, <1>3, <2>2 DEF IInv, BlocksInv
<1>5. sent' = http_response_encode_buffer'
  BY <1>1, SameEncoding
<1>6. FreesItsOwn'
  BY <1>1 DEF IInv, FreesItsOwn
<1> QED
  BY <1>2, <1>3, <1>4, <1>5, <1>6 DEF IInv

LEMMA PointersInPlaces ==
  ASSUME NEW n \in Nat, NEW s \in Response(n)
  PROVE  /\ PointersOf(s) \in Seq(PointerUpTo(n))
         /\ 1 .. Len(PointersOf(s)) = Places(s)
<1>1. Len(s.headers) \in Nat /\ \A i \in Places(s) : PointersOf(s)[i] \in PointerUpTo(n)
  BY PointerPlaces
<1>2. PICK len \in Nat : len = 2 * Len(s.headers) + 2
  BY <1>1
<1>3. Places(s) = 1 .. len
  BY <1>2 DEF Places
<1>4. PICK p : p = PointersOf(s)
  OBVIOUS
<1>5. p = [i \in 1 .. len |-> p[i]]
  BY <1>2, <1>4 DEF PointersOf
<1>6. \A i \in 1 .. len : p[i] \in PointerUpTo(n)
  BY <1>1, <1>3, <1>4
<1>7. p \in Seq(PointerUpTo(n)) /\ Len(p) = len
  BY ONLY <1>5, <1>6, len \in Nat
<1> QED
  BY <1>3, <1>4, <1>7

LEMMA HeaderPlaces ==
  ASSUME NEW n \in Nat, NEW s \in Response(n), NEW i \in Places(s)
  PROVE  \/ PointersOf(s)[i] \in {s.status_message, s.body}
         \/ PointersOf(s)[i].to = "heap"
<1>1. PICK len \in Nat : len = Len(s.headers)
  BY PointerPlaces
<1>2. i \in 1 .. 2 * len + 2
  BY <1>1 DEF Places
<1>3. CASE i \in {1, 2}
  BY <1>3, PointerPlaces
<1>4. CASE i \notin {1, 2}
  <2>1. PICK k \in 1 .. len : i = 2 * k + 1 \/ i = 2 * k + 2
    <3>1. (i - 1) \div 2 \in 1 .. len
      BY <1>2, <1>4
    <3>2. i = 2 * ((i - 1) \div 2) + 1 \/ i = 2 * ((i - 1) \div 2) + 2
      BY <1>2, <1>4
    <3> QED
      BY <3>1, <3>2
  <2>2. PointersOf(s)[i] = s.headers[k].key \/ PointersOf(s)[i] = s.headers[k].value
    BY <1>1, <2>1, PointerPlaces
  <2>3. s.headers[k] \in HeaderUpTo(n)
    <3>1. s.headers \in Seq(HeaderUpTo(n))
      BY DEF Response
    <3> QED
      BY <1>1, <3>1, ElementOfSeq
  <2>4. s.headers[k].key.to = "heap" /\ s.headers[k].value.to = "heap"
    <3>1. PICK h \in HeaderUpTo(n) : h = s.headers[k]
      BY <2>3
    <3> QED
      BY <3>1 DEF HeaderUpTo, Heap
  <2> QED
    BY <2>2, <2>4
<1> QED
  BY <1>3, <1>4

LEMMA FreeStep == ASSUME IInv, process = "running", http_response_free PROVE IInv'
<1>1. PICK n \in Nat : n = used
  BY DEF IInv
<1>2. /\ Here \in [resp: Response(n), body: Seq(Byte), heap: SUBSET (1 .. n),
                   used: {n}, process: ProcessKind]
      /\ Len(resp.headers) <= INIT_RESPONSE_HEADER_SIZE
  BY <1>1, HereParts DEF IInv, Typed
<1>3. Recorded(Here, n, n) /\ resp \in Response(n) /\ resp.content_type \in PointerUpTo(n)
  BY <1>2, HereParts DEF Recorded, Response
<1>4. PICK r : r = AllFreed(Here, Pointers)
  OBVIOUS
<1>5. /\ Recorded(r, n, n)
      /\ r.resp = resp /\ r.body = body /\ r.used = used
      /\ r.heap \subseteq heap
      /\ r.process = "running" =>
           \A i \in Places(resp) : Pointers[i].to = "heap" => Pointers[i].block \notin r.heap
      /\ r.process \in {"running", "literal"}
      /\ r.process = "literal" => \E i \in Places(resp) : Pointers[i].to = "literal"
  <2>1. Pointers \in Seq(PointerUpTo(n)) /\ 1 .. Len(Pointers) = Places(resp)
    BY <1>3, PointersInPlaces DEF Pointers
  <2>2. /\ Recorded(r, n, n)
        /\ r.resp = Here.resp /\ r.body = Here.body /\ r.used = Here.used
        /\ r.heap \subseteq Here.heap
        /\ r.process = "running" =>
             \A i \in 1 .. Len(Pointers) :
               Pointers[i].to = "heap" => Pointers[i].block \notin r.heap
        /\ OwnedPointers(Here, Pointers) => r.process \in {"running", "literal"}
        /\ Here.process = "running" /\ OwnedPointers(Here, Pointers)
             /\ r.process = "literal" =>
             \E i \in 1 .. Len(Pointers) : Pointers[i].to = "literal"
    BY ONLY n \in Nat, <1>3, <1>4, <2>1, FreedAll
  <2>3. OwnedPointers(Here, Pointers)
    <3>1. Owned(Here) /\ Fair(Here)
      BY DEF IInv, BlocksInv, http_response_free
    <3>2. \A i \in Places(resp) : Pointers[i] # Garbage
      BY <1>3, <3>1, HereParts, HeaderPlaces DEF Pointers, Fair, Garbage
    <3>3. /\ \A i \in Places(resp) : Pointers[i].to = "heap" => Pointers[i].block \in Here.heap
          /\ \A i, j \in Places(resp) :
               Pointers[i].to = "heap" /\ Pointers[i] = Pointers[j] => i = j
      BY <3>1, HereParts DEF Owned, Pointers
    <3>4. Here.process \in {"running", "literal"}
      BY <3>1 DEF Fair
    <3> HIDE DEF Pointers
    <3> QED
      BY <2>1, <3>2, <3>3, <3>4 DEF OwnedPointers
  <2> QED
    BY <2>1, <2>2, <2>3, HereParts
<1>6. PICK f :
        /\ Becomes(f)
        /\ f = Freed(r, resp.content_type) \/ f = r
  BY <1>4 DEF http_response_free
<1>7. /\ Recorded(f, n, n)
      /\ f.resp = resp /\ f.body = body /\ f.used = n
      /\ f.heap \subseteq r.heap
      /\ f.process = "running" => r.process = "running"
  <2>1. CASE f = r
    BY <1>1, <1>5, <2>1
  <2>2. CASE f = Freed(r, resp.content_type)
    <3>1. /\ Recorded(f, n, n)
          /\ f.resp = r.resp /\ f.body = r.body /\ f.used = r.used
          /\ f.process = "running" => r.process = "running"
          /\ \E lost : Lost(r, f, resp.content_type, lost)
      BY ONLY n \in Nat, <1>3, <1>5, <2>2, FreedParts
    <3>2. f.heap \subseteq r.heap
      BY <3>1 DEF Lost
    <3> QED
      BY <1>1, <1>5, <3>1, <3>2
  <2> QED
    BY <1>6, <2>1, <2>2
<1>8. /\ UNCHANGED <<resp, body, used, req, on_disk, st_size, sent, calls>>
      /\ heap' = f.heap /\ process' = f.process
      /\ pc = "sent" /\ pc' = "freed"
  BY <1>1, <1>6, <1>7 DEF Becomes, http_response_free
<1>9. f \in [resp: Response(n), body: Seq(Byte), heap: SUBSET (1 .. n),
             used: {n}, process: ProcessKind]
  BY <1>7 DEF Recorded
<1>10. Here' = f
  <2>1. f = [resp |-> f.resp, body |-> f.body, heap |-> f.heap, used |-> f.used,
             process |-> f.process]
    BY <1>9
  <2> QED
    BY <1>6, <2>1 DEF Here, Becomes
<1>11. (Typed(Here, used) /\ used \in Nat)'
  BY <1>1, <1>2, <1>7, <1>8, <1>9, <1>10 DEF Typed
<1>12. TypeOK'
  BY <1>1, <1>8, <1>9 DEF IInv, TypeOK, Pointer, ProcessKind
<1>13. CallsInv' /\ (MayLeak' <=> MayLeak)
  BY <1>8, SameCalls DEF IInv
<1>14. BlocksInv'
  <2>1. ASSUME process' = "running", ~MayLeak PROVE heap' = {}
    <3> SUFFICES ASSUME NEW b \in heap' PROVE FALSE
      OBVIOUS
    <3>1. b \in r.heap /\ r.process = "running" /\ b \in heap
      BY <1>5, <1>7, <1>8, <2>1
    <3>2. Kept(Here)
      BY <1>8, <2>1 DEF IInv, BlocksInv
    <3>3. PICK i \in Places(resp) : Pointers[i] = Heap(b)
      BY <3>1, <3>2, HereParts DEF Kept, Pointers
    <3>4. Pointers[i].to = "heap" /\ Pointers[i].block = b
      BY <3>3 DEF Heap
    <3> QED
      BY <1>5, <3>1, <3>4
  <2> QED
    BY <1>8, <1>13, <2>1 DEF BlocksInv
<1>16. FreesItsOwn'
  <2>1. /\ f.process \in {"running", "literal"} \/ f.process = resp.content_type.to
        /\ f.process = "literal" => r.process = "literal" \/ resp.content_type # Garbage
    <3>1. CASE f = r
      BY <1>5, <3>1
    <3>2. CASE f = Freed(r, resp.content_type)
      <4>1. f.process \in {r.process, resp.content_type.to}
        BY ONLY n \in Nat, <1>3, <1>5, <3>2, FreedParts
      <4> QED
        BY <1>5, <4>1 DEF Garbage
    <3> QED
      BY <1>6, <3>1, <3>2
  <2>2. r.process = "literal" => Called(HandCalls)
    <3> SUFFICES ASSUME ~Called(HandCalls), r.process = "literal" PROVE FALSE
      OBVIOUS
    <3>1. Plain(Here)
      BY <1>8 DEF IInv, BlocksInv
    <3>2. resp.status_message.to # "literal" /\ resp.body.to # "literal"
      BY <3>1, HereParts DEF Plain, Safe, NULL
    <3>3. \A i \in Places(resp) : Pointers[i].to # "literal"
      BY <1>3, <3>2, HeaderPlaces DEF Pointers
    <3> QED
      BY <1>5, <3>3
  <2>3. \/ resp.content_type = Garbage
        \/ resp.content_type = Literal /\ Called({"on_request"})
    BY DEF IInv, CallsInv
  <2>4. Called({"on_request"}) => Called(HandCalls)
    BY DEF Called, HandCalls
  <2>5. Garbage.to = "garbage" /\ Literal.to = "literal"
    BY DEF Garbage, Literal
  <2> QED
    BY <1>8, <2>1, <2>2, <2>3, <2>4, <2>5 DEF FreesItsOwn, Called, HandCalls
<1>15. pc' # "callback" => sent' = http_response_encode_buffer'
  <2>1. sent = http_response_encode_buffer
    BY <1>8 DEF IInv
  <2> QED
    BY <1>8, <2>1, SameEncoding
<1> QED
  BY <1>11, <1>12, <1>13, <1>14, <1>15, <1>16 DEF IInv

LEMMA StutterStep == ASSUME IInv, UNCHANGED vars PROVE IInv'
<1>1. UNCHANGED <<resp, body, heap, used, req, on_disk, st_size, pc, sent, process, calls>>
  BY DEF vars
<1>2. TypeOK' /\ (Typed(Here, used) /\ used \in Nat)'
  BY <1>1 DEF IInv, TypeOK, Pointer, Typed, Here
<1>3. CallsInv' /\ (MayLeak' <=> MayLeak)
  BY <1>1, SameCalls DEF IInv
<1>4. BlocksInv'
  <2>1. Here' = Here
    BY <1>1 DEF Here
  <2>2. /\ Owned(Here)' <=> Owned(Here)
        /\ Plain(Here)' <=> Plain(Here)
        /\ Fair(Here)' <=> Fair(Here)
        /\ Kept(Here)' <=> Kept(Here)
        /\ Called(HandCalls)' <=> Called(HandCalls)
    BY <1>1, <2>1 DEF Owned, Plain, Fair, Kept, Called, Safe
  <2> QED
    BY <1>1, <1>3, <2>2 DEF IInv, BlocksInv
<1>5. http_response_encode_buffer' = http_response_encode_buffer
  BY <1>1, SameEncoding
<1>6. FreesItsOwn'
  BY <1>1 DEF IInv, FreesItsOwn
<1> QED
  BY <1>1, <1>2, <1>3, <1>4, <1>5, <1>6 DEF IInv

LEMMA NextIInv == IInv /\ [Next]_vars => IInv'
<1> SUFFICES ASSUME IInv, [Next]_vars PROVE IInv'
  OBVIOUS
<1>1. CASE SetStatus /\ process = "running"
  BY <1>1, SetStatusStep
<1>2. CASE SetBody /\ process = "running"
  BY <1>2, SetBodyStep
<1>3. CASE AddHeader /\ process = "running"
  BY <1>3, AddHeaderStep
<1>4. CASE SendText /\ process = "running"
  BY <1>4, SendTextStep
<1>5. CASE ServeFile /\ process = "running"
  BY <1>5, ServeFileStep
<1>6. CASE on_request /\ process = "running"
  BY <1>6, OnRequestStep
<1>7. CASE Send
  BY <1>7, SendStep
<1>8. CASE http_response_free /\ process = "running"
  BY <1>8, FreeStep
<1>9. CASE UNCHANGED vars
  BY <1>9, StutterStep
<1> QED
  BY <1>1, <1>2, <1>3, <1>4, <1>5, <1>6, <1>7, <1>8, <1>9 DEF Next

LEMMA Invariance == Spec => []IInv
BY InitIInv, NextIInv, PTL DEF Spec

-----------------------------------------------------------------------------
(* The theorems.                                                           *)

\* Every variable of a response keeps its type, and the array of headers holds
\* no more than there is room for.
THEOREM TypeCorrect == Spec => []TypeOK
<1>1. IInv => TypeOK
  BY DEF IInv
<1> QED
  BY <1>1, Invariance, PTL

LEMMA HerePlaces ==
  ASSUME IInv
  PROVE  /\ resp \in Response(used) /\ used \in Nat
         /\ 1 .. Len(Pointers) = Places(resp)
         /\ \A i \in Places(resp) : Pointers[i] \in PointerUpTo(used)
<1>1. used \in Nat /\ resp \in Response(used)
  BY HereParts DEF IInv, Typed
<1> QED
  BY <1>1, PointersInPlaces, PointerPlaces DEF Pointers

\* Whatever a callback calls, in whatever order and with whatever contents, each
\* pointer of its response that is not to a literal points to memory of its own
\* that has not been freed: what is sent is never read from freed memory, and
\* http_response_free frees nothing twice.
THEOREM OwnMemory == Spec => []PointsToItsOwn
<1>1. ASSUME IInv PROVE PointsToItsOwn
  <2> SUFFICES ASSUME pc # "freed"
               PROVE  /\ \A i \in HeapPointers : Pointers[i].block \in heap
                      /\ \A i, j \in HeapPointers : Pointers[i] = Pointers[j] => i = j
    BY DEF PointsToItsOwn
  <2>1. Owned(Here)
    BY <1>1 DEF IInv, BlocksInv
  <2>2. HeapPointers = {i \in Places(resp) : Pointers[i].to = "heap"}
    BY <1>1, HerePlaces DEF HeapPointers
  <2> QED
    BY <2>1, <2>2, HereParts DEF Owned, Pointers
<1> QED
  BY <1>1, Invariance, PTL

\* Whatever a callback calls, no block is freed twice, and a literal only after it
\* has served a file or filled the response by hand.  Otherwise a free ends the
\* process only in http_response_free, and only for the content_type that
\* http_response_new leaves as malloc had it.
THEOREM AbortsForCause == Spec => []FreesItsOwn
<1>1. IInv => FreesItsOwn
  BY DEF IInv
<1> QED
  BY <1>1, Invariance, PTL

\* A response whose status and body are each given once, and that is given no
\* more headers than there is room for, leaves no memory behind: what is lost is
\* only what a call replaces without freeing it, headers beyond the limit, and the
\* path that on_request cuts out.
THEOREM OnlyKnownLeaks == Spec => []LeaksAreKnown
<1>1. ASSUME IInv PROVE LeaksAreKnown
  <2> DEFINE kept == IF pc = "freed" THEN {} ELSE {Pointers[i].block : i \in HeapPointers}
  <2>1. ASSUME process = "running", ~MayLeak PROVE heap = kept
    <3>1. CASE pc = "freed"
      BY <1>1, <2>1, <3>1 DEF IInv, BlocksInv
    <3>2. CASE pc # "freed"
      <4>1. Kept(Here) /\ Owned(Here)
        BY <1>1, <2>1, <3>2 DEF IInv, BlocksInv
      <4>2. HeapPointers = {i \in Places(resp) : Pointers[i].to = "heap"}
        BY <1>1, HerePlaces DEF HeapPointers
      <4>3. ASSUME NEW i \in HeapPointers PROVE Pointers[i].block \in heap
        BY <4>1, <4>2, HereParts DEF Owned, Pointers
      <4>4. ASSUME NEW b \in heap PROVE \E i \in HeapPointers : Pointers[i].block = b
        <5>1. PICK i \in Places(resp) : Pointers[i] = Heap(b)
          BY <4>1, HereParts DEF Kept, Pointers
        <5> QED
          BY <4>2, <5>1 DEF Heap
      <4> QED
        BY <3>2, <4>3, <4>4
    <3> QED
      BY <3>1, <3>2
  <2> HIDE DEF kept
  <2>2. ASSUME process = "running", heap # kept
        PROVE  \/ HeadersGiven > INIT_RESPONSE_HEADER_SIZE
               \/ \E n \in 1 .. Len(calls) : calls[n] = "on_request"
               \/ \E m, n \in 1 .. Len(calls) :
                    /\ m < n
                    /\ \/ /\ calls[m] \in {"set_status", "set_status_message", "json",
                                           "file", "static"}
                          /\ calls[n] \in {"set_status", "json", "file", "static"}
                       \/ /\ calls[m] \in {"set_body", "json", "file", "static"}
                          /\ calls[n] = "static"
    <3>1. MayLeak
      BY <2>1, <2>2
    <3> QED
      BY <3>1 DEF MayLeak, Called, StatusCalls, ForgetsStatus, BodyCalls
  <2> QED
    BY <2>2 DEF LeaksAreKnown, kept
<1> QED
  BY <1>1, Invariance, PTL

\* A reply on a connection that the server keeps announces the length of the body
\* that follows, whatever bytes the body has, unless its callback gave it no body
\* at all or was on_request.
THEOREM LengthIsSent == Spec => []KeptReplyHasItsLength
<1>1. ASSUME IInv PROVE KeptReplyHasItsLength
  <2> SUFFICES ASSUME pc # "callback", ~Called({"on_request"})
               PROVE  \/ sent.has_length /\ sent.length = Len(sent.body)
                      \/ /\ ~sent.has_length /\ sent.body = <<>>
                         /\ \A n \in 1 .. Len(calls) : calls[n] \in BareCalls
    BY DEF KeptReplyHasItsLength, Called, BareCalls
  <2>1. sent = http_response_encode_buffer
    BY <1>1 DEF IInv
  <2>2. /\ sent.has_length <=> resp.keep_connected = 0 /\ resp.body # NULL
        /\ sent.length = Len(CString(body))
        /\ sent.body = IF resp.body = NULL THEN <<>> ELSE CString(body)
    BY <2>1 DEF http_response_encode_buffer
  <2>3. resp.keep_connected = 0
    BY <1>1 DEF IInv, CallsInv
  <2>4. resp.body = NULL => \A n \in 1 .. Len(calls) : calls[n] \in BareCalls
    BY <1>1, <2>3 DEF IInv, CallsInv
  <2> QED
    BY <2>2, <2>3, <2>4
<1> QED
  BY <1>1, Invariance, PTL

\* A file that is answered with 200 was read to the end that fstat saw, whatever
\* others do to it meanwhile, and what is sent of it is what comes before its
\* first zero byte.
THEOREM ReadWhole == Spec => []ServedWhole
<1>1. ASSUME IInv PROVE ServedWhole
  <2> SUFFICES ASSUME pc # "callback", calls = <<"static">>, sent.code = 200
               PROVE  /\ Len(on_disk) >= st_size
                      /\ body = SubSeq(on_disk, 1, st_size)
                      /\ sent.body = CString(body)
    BY DEF ServedWhole
  <2>1. sent = http_response_encode_buffer
    BY <1>1 DEF IInv
  <2>2. sent.code = resp.status_code
    BY <2>1 DEF http_response_encode_buffer
  <2>3. /\ resp.body # NULL
        /\ Len(on_disk) >= st_size
        /\ body = SubSeq(on_disk, 1, st_size)
    BY <1>1, <2>2 DEF IInv, CallsInv
  <2>4. resp.body # NULL => sent.body = CString(body)
    BY <2>1 DEF http_response_encode_buffer
  <2> QED
    BY <2>3, <2>4
<1> QED
  BY <1>1, Invariance, PTL
=============================================================================
