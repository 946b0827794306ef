--------------------------- MODULE TcpServer_proof ---------------------------
(***************************************************************************)
(* Proofs about TcpServer, for any number of threads, connections and      *)
(* descriptors, with allocations that fail or not: the pool is ready       *)
(* before a connection is accepted, and every event reaches the connection *)
(* it is for, in the thread of that connection's loop.                     *)
(***************************************************************************)
EXTENDS TcpServer, SequenceTheorems, TLAPS

\* The part of the invariant about starting the threads, and the part about
\* the way of a connection from accept to its loop.
PoolInv == StartInv /\ LoopsAreReady

RouteInv ==
  /\ EstablishInv /\ QueuedInv /\ HolderInv /\ OwnerInv /\ OwnersFd
  /\ EventsReachTheirConnection

routeVars == <<accepted, holder, loop_of, queue, owner, watched>>

Adds == [type: {"ADD"}, chan: Channel]

\* Every index the pool uses is that of a thread.
LEMMA Indices ==
  ASSUME TypeOK
  PROVE  /\ thread_number \in Int /\ thread_number <= MaxThreads
         /\ thread_number > 0 => position \in Worker /\ i \in Worker
         /\ MaxThreads \in Nat
<1>1. /\ thread_number \in Int /\ thread_number <= MaxThreads
      /\ MaxThreads \in Nat
  BY ServerAssumption DEF TypeOK
<1>2. /\ position \in Nat /\ (thread_number > 0 => position < thread_number)
      /\ i \in Nat /\ (thread_number > 0 => i < thread_number)
  BY DEF TypeOK
<1> QED
  BY <1>1, <1>2 DEF Worker

\* Queueing a request keeps the type of the queues.
LEMMA QueueType ==
  ASSUME TypeOK, NEW l \in Loop, NEW c \in Channel
  PROVE  [queue EXCEPT ![l] = Append(@, Add(c))] \in [Loop -> Seq(Adds)]
<1>1. queue \in [Loop -> Seq(Adds)] /\ queue[l] \in Seq(Adds)
  BY DEF TypeOK, Adds
<1>2. Add(c) \in Adds
  BY DEF Add, Adds
<1>3. Append(queue[l], Add(c)) \in Seq(Adds)
  BY <1>1, <1>2, AppendProperties
<1> QED
  BY <1>1, <1>3

-----------------------------------------------------------------------------
(* Types.                                                                  *)

\* The types hold initially.
LEMMA InitType == Init => TypeOK
<1> SUFFICES ASSUME Init PROVE TypeOK
  OBVIOUS
<1>1. thread_number \in ThreadNumbers /\ thread_number \in Int
  BY ServerAssumption DEF Init
<1>2. /\ position \in Nat /\ (thread_number > 0 => position < thread_number)
      /\ i \in Nat /\ (thread_number > 0 => i < thread_number)
  BY <1>1 DEF Init
<1>3. queue \in [Loop -> Seq([type: {"ADD"}, chan: Channel])]
  BY EmptySeq DEF Init
<1>4. owner \in [Loop -> [Fd -> Channel \cup {Wakeup, NULL}]]
  BY DEF Init
<1>5. watched \in [Loop -> SUBSET Fd]
  BY ServerAssumption DEF Init
<1>6. /\ wpc \in [Worker -> {"none", "lock", "init", "signal", "unlock",
                             "event_loop_run", "loop"}]
      /\ mutex \in [Worker -> Loop \cup {NULL}]
      /\ ev_loop \in [Worker -> Worker \cup {NULL}]
      /\ holder \in [Fd -> Conn \cup {NULL}]
      /\ loop_of \in [Conn -> Loop \cup {NULL}]
      /\ data \in [Conn -> {"uninitialized", "set"}]
      /\ seen \in [Conn -> {"nothing", "uninitialized", "set"}]
      /\ assigned \in [Loop -> Nat]
  BY DEF Init
<1> QED
  BY <1>1, <1>2, <1>3, <1>4, <1>5, <1>6 DEF Init, TypeOK

\* Starting the threads and the main loop keeps the types.
LEMMA StarterType == ASSUME TypeOK, Starter PROVE TypeOK'
<1> USE DEF poolVars, threadVars, connVars, loopVars
<1>1. CASE thread_pool_start
  BY <1>1 DEF thread_pool_start, TypeOK
<1>2. CASE CreateThread
  BY <1>2 DEF CreateThread, TypeOK
<1>3. CASE StarterLock
  BY <1>3 DEF StarterLock, TypeOK, Loop
<1>4. CASE StarterTest
  <2>1. /\ mutex' \in [Worker -> Loop \cup {NULL}]
        /\ signalled' \in BOOLEAN
        /\ pc' \in {"wait", "unlock"}
    BY <1>4 DEF StarterTest, TypeOK
  <2> QED
    BY <1>4, <2>1 DEF StarterTest, TypeOK
<1>5. CASE StarterWakes
  BY <1>5 DEF StarterWakes, TypeOK, Loop
<1>6. CASE StarterUnlock
  <2>1. /\ mutex' \in [Worker -> Loop \cup {NULL}]
        /\ pc' \in {"create", "listen"}
    BY <1>6 DEF StarterUnlock, TypeOK
  <2>2. i' \in Nat /\ (thread_number > 0 => i' < thread_number)
    BY <1>6, Indices DEF StarterUnlock, TypeOK
  <2> QED
    BY <1>6, <2>1, <2>2 DEF StarterUnlock, TypeOK
<1>7. CASE Listen
  <2>1. Main \in Loop /\ Listener \in Channel
    BY DEF Loop, Channel
  <2>2. queue' \in [Loop -> Seq([type: {"ADD"}, chan: Channel])]
    <3>1. CASE queue' = queue
      BY <3>1 DEF TypeOK
    <3>2. CASE queue' = [queue EXCEPT ![Main] = Append(@, Add(Listener))]
      BY <2>1, <3>2, QueueType DEF Adds
    <3> QED
      BY <1>7, <3>1, <3>2 DEF Listen
  <2>3. pc' \in {"listen", "handle"} /\ process' \in {"running", "aborted", "faulted"}
    BY <1>7 DEF Listen, TypeOK
  <2> QED
    BY <1>7, <2>2, <2>3 DEF Listen, TypeOK
<1> QED
  BY <1>1, <1>2, <1>3, <1>4, <1>5, <1>6, <1>7 DEF Starter

\* Accepting a connection and handing it over keeps the types.
LEMMA EstablishType ==
  ASSUME TypeOK, EstablishInv, Establish \/ \E c \in Conn : Accept(c)
  PROVE  TypeOK'
<1> USE DEF poolVars, threadVars, connVars, loopVars
<1>1. CASE thread_pool_get_loop
  <2>1. /\ position' \in Nat
        /\ thread_number > 0 => position' < thread_number
    <3>1. \/ position' = position
          \/ thread_number > 0 /\ position' = 0
          \/ ~(position + 1 >= thread_number) /\ position' = position + 1
      BY <1>1 DEF thread_pool_get_loop
    <3>2. /\ position \in Nat /\ thread_number \in Int
          /\ thread_number > 0 => position < thread_number
      BY Indices DEF TypeOK
    <3> QED
      BY <3>1, <3>2
  <2>2. selected' \in Loop \cup {NULL}
    BY <1>1, Indices DEF thread_pool_get_loop, TypeOK, Loop
  <2>3. assigned' \in [Loop -> Nat]
    BY <1>1 DEF thread_pool_get_loop, TypeOK
  <2>4. pc' \in {"get_loop", "new"} /\ process' \in {"running", "aborted", "faulted"}
    BY <1>1 DEF thread_pool_get_loop, TypeOK
  <2> QED
    BY <1>1, <2>1, <2>2, <2>3, <2>4 DEF thread_pool_get_loop, TypeOK
<1>2. CASE Refuse
  BY <1>2 DEF Refuse, TypeOK
<1>3. CASE tcp_connection_new
  <2>1. selected \in Loop /\ conn \in Channel
    BY <1>3 DEF tcp_connection_new, TypeOK, EstablishInv, Channel
  <2>2. queue' \in [Loop -> Seq([type: {"ADD"}, chan: Channel])]
    <3>1. CASE queue' = queue
      BY <3>1 DEF TypeOK
    <3>2. CASE queue' = [queue EXCEPT ![selected] = Append(@, Add(conn))]
      BY <2>1, <3>2, QueueType DEF Adds
    <3> QED
      BY <1>3, <3>1, <3>2 DEF tcp_connection_new
  <2>3. loop_of' \in [Conn -> Loop \cup {NULL}]
    BY <1>3, <2>1 DEF tcp_connection_new, TypeOK
  <2>4. pc' \in {"new", "handle", "set_data"} /\ process' \in {"running", "aborted", "faulted"}
    BY <1>3 DEF tcp_connection_new, TypeOK
  <2> QED
    BY <1>3, <2>2, <2>3, <2>4 DEF tcp_connection_new, TypeOK
<1>4. CASE HandleEnd
  <2>1. pc' \in {"loop", "set_data"}
    BY <1>4 DEF HandleEnd
  <2> QED
    BY <1>4, <2>1 DEF HandleEnd, TypeOK
<1>5. CASE SetData
  BY <1>5 DEF SetData, TypeOK
<1>6. CASE \E c \in Conn : Accept(c)
  <2>1. PICK c \in Conn : Accept(c)
    BY <1>6
  <2>2. /\ holder' \in [Fd -> Conn \cup {NULL}]
        /\ accepted' \subseteq Conn
    BY <2>1 DEF Accept, TypeOK
  <2> QED
    BY <2>1, <2>2 DEF Accept, TypeOK
<1> QED
  BY <1>1, <1>2, <1>3, <1>4, <1>5, <1>6 DEF Establish

\* The threads of the pool and the loops keep the types.
LEMMA LoopType ==
  ASSUME TypeOK,
         \/ \E w \in Worker : event_loop_thread_run(w)
         \/ \E l \in Loop : Apply(l)
         \/ \E l \in Loop, fd \in Fd : Message(l, fd) \/ HangUp(l, fd)
  PROVE  TypeOK'
<1> USE DEF poolVars, threadVars, connVars, loopVars
<1>1. ASSUME NEW w \in Worker, event_loop_thread_run(w) PROVE TypeOK'
  <2> DEFINE Labels == {"none", "lock", "init", "signal", "unlock",
                        "event_loop_run", "loop"}
  <2>1. wpc' \in [Worker -> Labels]
    BY <1>1 DEF event_loop_thread_run, RunLock, RunInit, RunSignal, RunUnlock,
       RunLoop, TypeOK
  <2>2. mutex' \in [Worker -> Loop \cup {NULL}]
    BY <1>1 DEF event_loop_thread_run, RunLock, RunInit, RunSignal, RunUnlock,
       RunLoop, TypeOK, Loop
  <2>3. ev_loop' \in [Worker -> Worker \cup {NULL}]
    BY <1>1 DEF event_loop_thread_run, RunLock, RunInit, RunSignal, RunUnlock,
       RunLoop, TypeOK
  <2>4. signalled' \in BOOLEAN /\ process' \in {"running", "aborted", "faulted"}
    BY <1>1 DEF event_loop_thread_run, RunLock, RunInit, RunSignal, RunUnlock,
       RunLoop, TypeOK
  <2>5. UNCHANGED <<poolVars, pc, connVars, loopVars>>
    BY <1>1 DEF event_loop_thread_run, RunLock, RunInit, RunSignal, RunUnlock,
       RunLoop
  <2> QED
    BY <2>1, <2>2, <2>3, <2>4, <2>5 DEF TypeOK
<1>2. ASSUME NEW l \in Loop, Apply(l) PROVE TypeOK'
  <2>1. /\ queue \in [Loop -> Seq(Adds)] /\ queue[l] \in Seq(Adds)
        /\ queue[l] # <<>>
    BY <1>2 DEF Apply, TypeOK, Adds
  <2>2. Tail(queue[l]) \in Seq(Adds) /\ Head(queue[l]) \in Adds
    BY <2>1, HeadTailProperties
  <2>3. queue' \in [Loop -> Seq([type: {"ADD"}, chan: Channel])]
    BY <1>2, <2>1, <2>2 DEF Apply, Adds
  <2>4. Head(queue[l]).chan \in Channel /\ FdOf[Head(queue[l]).chan] \in Fd
    BY <2>2, ServerAssumption DEF Adds
  <2>5. /\ owner' \in [Loop -> [Fd -> Channel \cup {Wakeup, NULL}]]
        /\ watched' \in [Loop -> SUBSET Fd]
    <3> DEFINE c == Head(queue[l]).chan
    <3>1. \/ UNCHANGED <<owner, watched>>
          \/ /\ owner' = [owner EXCEPT ![l][FdOf[c]] = c]
             /\ watched' = [watched EXCEPT ![l] = @ \cup {FdOf[c]}]
      BY <1>2 DEF Apply
    <3> HIDE DEF c
    <3>2. c \in Channel /\ FdOf[c] \in Fd
      BY <2>4 DEF c
    <3>3. [owner EXCEPT ![l][FdOf[c]] = c]
            \in [Loop -> [Fd -> Channel \cup {Wakeup, NULL}]]
      <4>1. /\ owner \in [Loop -> [Fd -> Channel \cup {Wakeup, NULL}]]
            /\ [owner[l] EXCEPT ![FdOf[c]] = c]
                 \in [Fd -> Channel \cup {Wakeup, NULL}]
        BY <3>2 DEF TypeOK
      <4> QED
        BY <4>1
    <3>4. [watched EXCEPT ![l] = @ \cup {FdOf[c]}] \in [Loop -> SUBSET Fd]
      BY <3>2 DEF TypeOK
    <3> QED
      BY <3>1, <3>3, <3>4 DEF TypeOK
  <2> QED
    <3>1. UNCHANGED <<poolVars, pc, threadVars, connVars, process>>
      BY <1>2 DEF Apply
    <3> HIDE <1>2
    <3> QED
      BY ZenonT(60), <2>3, <2>5, <3>1 DEF TypeOK
<1>3. ASSUME NEW l \in Loop, NEW fd \in Fd, Message(l, fd) PROVE TypeOK'
  <2>1. data[owner[l][fd]] \in {"nothing", "uninitialized", "set"}
    BY <1>3 DEF Message, Dispatches, TypeOK
  <2>2. seen' \in [Conn -> {"nothing", "uninitialized", "set"}]
    BY <1>3, <2>1 DEF Message, TypeOK
  <2> QED
    <3>1. UNCHANGED <<poolVars, pc, threadVars, conn, selected, accepted, holder,
                      loop_of, data, assigned, loopVars, process>>
      BY <1>3 DEF Message
    <3> HIDE <1>3
    <3> QED
      BY ZenonT(60), <2>2, <3>1 DEF TypeOK
<1>4. ASSUME NEW l \in Loop, NEW fd \in Fd, HangUp(l, fd) PROVE TypeOK'
  <2>1. /\ holder' \in [Fd -> Conn \cup {NULL}]
        /\ watched' \in [Loop -> SUBSET Fd]
    BY <1>4 DEF HangUp, TypeOK
  <2>2. UNCHANGED <<poolVars, pc, threadVars, conn, selected, accepted,
                    loop_of, data, seen, assigned, queue, owner, process>>
    BY <1>4 DEF HangUp
  <2> HIDE <1>4
  <2> QED
    BY ZenonT(60), <2>1, <2>2 DEF TypeOK
<1> QED
  BY <1>1, <1>2, <1>3, <1>4

-----------------------------------------------------------------------------
(* Starting the pool.                                                      *)

\* What neither adds a loop to nor takes one from a thread, and stays on the
\* same side of the start, keeps the invariant of the pool.
LEMMA PoolFrame ==
  ASSUME PoolInv, UNCHANGED <<thread_number, ev_loop_threads, i, ev_loop>>,
         Starting' => Starting /\ pc' # "unlock",
         Serving' => Serving,
         pc' # "thread_pool_start"
  PROVE  PoolInv'
BY DEF PoolInv, StartInv, LoopsAreReady, Starting, Serving

\* While the pool is being started i is a thread.
LEMMA StartIndex ==
  ASSUME TypeOK, PoolInv, Starting
  PROVE  /\ i \in Worker /\ i \in Nat /\ thread_number \in Int
         /\ i < thread_number
         /\ ev_loop[i] \in {i, NULL}
<1>1. i \in Nat /\ i < thread_number /\ thread_number \in Int
  BY Indices DEF TypeOK, PoolInv, StartInv
<1>2. i \in Worker
  BY <1>1, Indices
<1> QED
  BY <1>1, <1>2 DEF PoolInv, StartInv

\* Each step keeps the invariant of the pool.
LEMMA PoolStep ==
  ASSUME TypeOK, PoolInv, Next
  PROVE  PoolInv'
<1> USE DEF poolVars, threadVars
<1> DEFINE Frame == UNCHANGED <<thread_number, ev_loop_threads, i, ev_loop>>
<1>1. CASE thread_pool_start
  <2>1. /\ i = 0 /\ ev_loop_threads = "NULL" /\ thread_number \in Int
        /\ \A w \in Worker : ev_loop[w] \in {w, NULL}
    BY <1>1, Indices DEF thread_pool_start, PoolInv, StartInv
  <2>2. \A w \in Worker : ~(w < 0)
    BY DEF Worker
  <2>3. UNCHANGED <<thread_number, i, ev_loop>>
    BY <1>1 DEF thread_pool_start
  <2>4. CASE pc' = "create" /\ ev_loop_threads' = "allocated" /\ thread_number > 0
    BY <2>1, <2>2, <2>3, <2>4 DEF PoolInv, StartInv, LoopsAreReady, Starting, Serving
  <2>5. CASE pc' = "listen" /\ ev_loop_threads' = ev_loop_threads
    BY <2>1, <2>3, <2>5 DEF PoolInv, StartInv, LoopsAreReady, Starting, Serving
  <2> QED
    BY <1>1, <2>4, <2>5 DEF thread_pool_start
<1>2. CASE CreateThread
  BY <1>2, PoolFrame DEF CreateThread, Starting, Serving
<1>3. CASE StarterLock
  BY <1>3, PoolFrame DEF StarterLock, Starting, Serving
<1>4. CASE StarterTest
  <2>1. Starting /\ i \in Worker /\ ev_loop[i] \in {i, NULL}
    BY <1>4, StartIndex DEF StarterTest, Starting
  <2>2. CASE ev_loop[i] = NULL
    BY <1>4, <2>1, <2>2, PoolFrame DEF StarterTest, Starting, Serving
  <2>3. CASE ev_loop[i] # NULL
    <3>1. pc' = "unlock" /\ Frame /\ ev_loop[i] = i
      BY <1>4, <2>1, <2>3 DEF StarterTest
    <3> QED
      BY <2>1, <3>1 DEF PoolInv, StartInv, LoopsAreReady, Starting, Serving
  <2> QED
    BY <2>2, <2>3
<1>5. CASE StarterWakes
  BY <1>5, PoolFrame DEF StarterWakes, Starting, Serving
<1>6. CASE StarterUnlock
  <2>1. /\ Starting
        /\ ev_loop_threads = "allocated" /\ 0 <= i /\ i < thread_number
        /\ \A w \in Worker : w < i => ev_loop[w] = w
        /\ ev_loop[i] = i
        /\ i \in Nat /\ thread_number \in Int
    BY <1>6, Indices DEF StarterUnlock, Starting, PoolInv, StartInv, TypeOK
  <2>2. UNCHANGED <<thread_number, ev_loop_threads, ev_loop>>
    BY <1>6 DEF StarterUnlock
  <2>3. \A w \in Worker : w < i + 1 => ev_loop[w] = w
    <3>1. \A w \in Worker : w < i + 1 => w < i \/ w = i
      BY <2>1 DEF Worker
    <3> QED
      BY <2>1, <3>1
  <2>4. CASE i + 1 < thread_number
    <3>1. i' = i + 1 /\ pc' = "create"
      BY <1>6, <2>4 DEF StarterUnlock
    <3> QED
      BY <2>1, <2>2, <2>3, <2>4, <3>1
      DEF PoolInv, StartInv, LoopsAreReady, Starting, Serving
  <2>5. CASE ~(i + 1 < thread_number)
    <3>1. i' = i /\ pc' = "listen"
      BY <1>6, <2>5 DEF StarterUnlock
    <3>2. \A w \in Worker : w < thread_number => ev_loop[w] = w
      <4>1. \A w \in Worker : w < thread_number => w < i + 1
        BY <2>1, <2>5 DEF Worker
      <4> QED
        BY <2>3, <4>1
    <3> QED
      BY <2>2, <3>1, <3>2
      DEF PoolInv, StartInv, LoopsAreReady, Starting, Serving
  <2> QED
    BY <2>4, <2>5
<1>7. CASE Listen
  BY <1>7, PoolFrame DEF Listen, Starting, Serving
<1>8. CASE Establish \/ \E c \in Conn : Accept(c)
  <2>1. /\ Frame
        /\ Serving
        /\ pc' \in {"handle", "loop", "get_loop", "new", "set_data"}
    BY <1>8 DEF Establish, Accept, thread_pool_get_loop, Refuse,
       tcp_connection_new, HandleEnd, SetData, Serving
  <2> QED
    BY <2>1, PoolFrame DEF Starting, Serving
<1>9. ASSUME NEW w \in Worker, event_loop_thread_run(w) PROVE PoolInv'
  <2>1. /\ UNCHANGED <<thread_number, ev_loop_threads, i, pc>>
        /\ ev_loop' = ev_loop \/ ev_loop' = [ev_loop EXCEPT ![w] = w]
    BY <1>9 DEF event_loop_thread_run, RunLock, RunInit, RunSignal, RunUnlock,
       RunLoop
  <2>2. /\ \A v \in Worker : ev_loop[v] = v => ev_loop'[v] = v
        /\ \A v \in Worker : ev_loop'[v] \in {v, NULL}
    <3>1. /\ \A v \in Worker : ev_loop[v] \in {v, NULL}
          /\ ev_loop \in [Worker -> Worker \cup {NULL}]
      BY DEF TypeOK, PoolInv, StartInv
    <3> QED
      BY <1>9, <2>1, <3>1
  <2>3. pc = "unlock" => i \in Worker
    BY StartIndex DEF Starting
  <2> HIDE <1>9
  <2> QED
    BY <2>1, <2>2, <2>3 DEF PoolInv, StartInv, LoopsAreReady, Starting, Serving
<1>10. CASE \/ \E l \in Loop : Apply(l)
            \/ \E l \in Loop, fd \in Fd : Message(l, fd) \/ HangUp(l, fd)
  <2>1. Frame /\ pc' = pc
    BY <1>10 DEF Apply, Message, HangUp
  <2> QED
    BY <2>1 DEF PoolInv, StartInv, LoopsAreReady, Starting, Serving
<1> QED
  BY <1>1, <1>2, <1>3, <1>4, <1>5, <1>6, <1>7, <1>8, <1>9, <1>10
  DEF Next, Starter

-----------------------------------------------------------------------------
(* From accept to the loop.                                                *)

\* A step that leaves connections, queues, maps and epoll sets alone keeps the
\* invariant of the route.
LEMMA RouteFrame ==
  ASSUME RouteInv, UNCHANGED routeVars,
         pc' \in {"get_loop", "new"} => pc \in {"get_loop", "new"} /\ conn' = conn
  PROVE  RouteInv'
BY DEF RouteInv, routeVars, EstablishInv, QueuedInv, HolderInv, OwnerInv,
   OwnersFd, EventsReachTheirConnection, Queued, Unwatched

\* Queueing a request about d adds d, and nothing else, to what is queued.
LEMMA QueuedAfterAppend ==
  ASSUME TypeOK, NEW l \in Loop, NEW d \in Channel,
         queue' = [queue EXCEPT ![l] = Append(@, Add(d))]
  PROVE  /\ Len(queue[l]) \in Nat /\ Len(queue'[l]) = Len(queue[l]) + 1
         /\ \A n \in 1 .. Len(queue[l]) : queue'[l][n] = queue[l][n]
         /\ queue'[l][Len(queue[l]) + 1].chan = d
         /\ \A k \in Loop : k # l => queue'[k] = queue[k]
<1>1. queue \in [Loop -> Seq(Adds)] /\ queue[l] \in Seq(Adds)
  BY DEF TypeOK, Adds
<1>2. Add(d) \in Adds /\ Add(d).chan = d
  BY DEF Add, Adds
<1>3. queue'[l] = Append(queue[l], Add(d))
  BY <1>1
<1> QED
  BY <1>1, <1>2, <1>3, AppendProperties, LenProperties

\* At most one of the requests in q is about c.
Once(q, c) == \A m, n \in 1 .. Len(q) : q[m].chan = c /\ q[n].chan = c => m = n

\* Queueing a request about d keeps what is queued of others.
LEMMA QueuedAfterOther ==
  ASSUME TypeOK, NEW l \in Loop, NEW d \in Channel, NEW c \in Conn, d # c,
         queue' = [queue EXCEPT ![l] = Append(@, Add(d))],
         NEW k \in Loop
  PROVE  /\ Queued(k, c)' = Queued(k, c)
         /\ Once(queue[k], c) => Once(queue'[k], c)
<1>1. CASE k # l
  BY <1>1, QueuedAfterAppend DEF Queued
<1>2. CASE k = l
  <2> DEFINE len == Len(queue[l])
  <2>1. /\ len \in Nat /\ Len(queue'[l]) = len + 1
        /\ \A n \in 1 .. len : queue'[l][n] = queue[l][n]
        /\ queue'[l][len + 1].chan = d
    BY QueuedAfterAppend
  <2>2. \A n \in 1 .. len + 1 : n \in 1 .. len \/ n = len + 1
    BY <2>1
  <2>3. \A n \in 1 .. len : n \in 1 .. len + 1
    BY <2>1
  <2> HIDE DEF len
  <2>4. \A n \in 1 .. len + 1 : queue'[l][n].chan = c =>
          n \in 1 .. len /\ queue[l][n].chan = c
    BY <2>1, <2>2
  <2>5. Queued(l, c)' = Queued(l, c)
    <3>1. ASSUME Queued(l, c) PROVE Queued(l, c)'
      BY <2>1, <2>3, <3>1 DEF Queued, len
    <3>2. ASSUME Queued(l, c)' PROVE Queued(l, c)
      BY <2>1, <2>4, <3>2 DEF Queued, len
    <3>3. Queued(l, c) \in BOOLEAN /\ Queued(l, c)' \in BOOLEAN
      BY DEF Queued
    <3> QED
      BY <3>1, <3>2, <3>3
  <2>6. Once(queue[l], c) => Once(queue'[l], c)
    BY <2>1, <2>4 DEF Once, len
  <2> QED
    BY <1>2, <2>5, <2>6
<1> QED
  BY <1>1, <1>2

\* An open descriptor is held by a connection, and a descriptor of a connection
\* that nobody holds is not watched.
LEMMA FreeIsUnwatched ==
  ASSUME RouteInv, NEW c \in Conn, holder[FdOf[c]] = NULL
  PROVE  Unwatched(FdOf[c])
<1> SUFFICES ASSUME NEW l \in Loop, FdOf[c] \in watched[l] PROVE FALSE
  BY DEF Unwatched
<1>1. owner[l][FdOf[c]] \in Conn
  BY DEF RouteInv, OwnerInv
<1>2. holder[FdOf[c]] \in Conn
  BY <1>1 DEF RouteInv, EventsReachTheirConnection
<1> QED
  BY <1>2, ServerAssumption DEF Channel

\* What QueuedInv says of connection c in the queue of loop l.
QueuedRight(l, c) ==
  /\ holder[FdOf[c]] = c
  /\ loop_of[c] = l
  /\ Unwatched(FdOf[c])
  /\ Once(queue[l], c)

\* QueuedInv in terms of QueuedRight.
LEMMA QueuedParts ==
  QueuedInv <=> \A l \in Loop, c \in Conn : Queued(l, c) => QueuedRight(l, c)
BY DEF QueuedInv, QueuedRight, Once

\* The same in the next state.
LEMMA QueuedPartsNext ==
  QueuedInv' <=> \A l \in Loop, c \in Conn : Queued(l, c)' => QueuedRight(l, c)'
BY DEF QueuedInv, QueuedRight, Once

\* Queueing a request about d leaves what QueuedInv says of others.
LEMMA QueuedKept ==
  ASSUME TypeOK, QueuedInv, NEW l \in Loop, NEW d \in Channel,
         queue' = [queue EXCEPT ![l] = Append(@, Add(d))],
         UNCHANGED <<holder, watched>>,
         NEW k \in Loop, NEW c \in Conn, c # d, loop_of'[c] = loop_of[c],
         Queued(k, c)'
  PROVE  QueuedRight(k, c)'
<1>1. Queued(k, c) /\ (Once(queue[k], c) => Once(queue'[k], c))
  BY QueuedAfterOther
<1>2. QueuedRight(k, c)
  BY <1>1, QueuedParts
<1> QED
  BY <1>1, <1>2 DEF QueuedRight, Unwatched

\* The listening socket goes to the main loop.
LEMMA ListenRoute == ASSUME TypeOK, RouteInv, Listen PROVE RouteInv'
<1>1. UNCHANGED <<conn, accepted, holder, loop_of, owner, watched>>
  BY DEF Listen, connVars
<1>2. pc' \notin {"get_loop", "new"}
  BY DEF Listen
<1>3. CASE queue' = queue
  BY <1>1, <1>2, <1>3, RouteFrame DEF routeVars
<1>4. CASE queue' = [queue EXCEPT ![Main] = Append(@, Add(Listener))]
  <2>1. Main \in Loop /\ Listener \in Channel /\ \A c \in Conn : c # Listener
    BY ServerAssumption DEF Loop, Channel
  <2>2. ASSUME NEW l \in Loop, NEW c \in Conn, Queued(l, c)'
        PROVE  QueuedRight(l, c)'
    BY <1>1, <1>4, <2>1, <2>2, QueuedKept DEF RouteInv
  <2>3. QueuedInv'
    BY <2>2, QueuedPartsNext
  <2> QED
    BY <1>1, <1>2, <2>3 DEF RouteInv, EstablishInv, HolderInv, OwnerInv, OwnersFd,
       EventsReachTheirConnection
<1> QED
  BY <1>3, <1>4 DEF Listen

\* A connection is accepted on a free descriptor.
LEMMA AcceptRoute ==
  ASSUME TypeOK, RouteInv, NEW c \in Conn, Accept(c) PROVE RouteInv'
<1>1. /\ holder[FdOf[c]] = NULL /\ c \notin accepted /\ loop_of[c] = NULL
      /\ FdOf[c] \in Fd /\ c # NULL /\ Unwatched(FdOf[c])
  <2>1. holder[FdOf[c]] = NULL /\ c \notin accepted
    BY DEF Accept
  <2> QED
    BY <2>1, FreeIsUnwatched, ServerAssumption DEF RouteInv, HolderInv, Channel
<1>2. /\ UNCHANGED <<loop_of, queue, owner, watched>>
      /\ conn' = c /\ accepted' = accepted \cup {c}
      /\ holder' = [holder EXCEPT ![FdOf[c]] = c]
  BY DEF Accept, loopVars
<1>3. /\ holder'[FdOf[c]] = c
      /\ \A fd \in Fd : fd # FdOf[c] => holder'[fd] = holder[fd]
  BY <1>1, <1>2 DEF TypeOK
<1>4. EstablishInv'
  BY <1>1, <1>2, <1>3 DEF EstablishInv, Unwatched
<1>5. QueuedInv'
  <2> SUFFICES ASSUME NEW l \in Loop, NEW d \in Conn, Queued(l, d)
               PROVE  holder'[FdOf[d]] = d
    BY <1>2 DEF RouteInv, QueuedInv, Queued, Unwatched
  <2>1. holder[FdOf[d]] = d /\ d # NULL /\ FdOf[d] \in Fd
    BY ServerAssumption DEF RouteInv, QueuedInv, Channel
  <2> QED
    BY <1>1, <1>3, <2>1
<1>6. HolderInv'
  BY <1>1, <1>2, <1>3 DEF RouteInv, HolderInv
<1>7. EventsReachTheirConnection'
  <2> SUFFICES ASSUME NEW l \in Loop, NEW fd \in watched[l], owner[l][fd] \in Conn
               PROVE  holder'[fd] = owner[l][fd] /\ loop_of[holder'[fd]] = l
    BY <1>2 DEF EventsReachTheirConnection
  <2>1. fd # FdOf[c] /\ fd \in Fd
    BY <1>1 DEF Unwatched, TypeOK
  <2> QED
    BY <1>3, <2>1 DEF RouteInv, EventsReachTheirConnection
<1>8. OwnerInv' /\ OwnersFd'
  BY <1>2 DEF RouteInv, OwnerInv, OwnersFd
<1> QED
  BY <1>4, <1>5, <1>6, <1>7, <1>8 DEF RouteInv

\* A refused connection's descriptor is closed; nobody knew of it.
LEMMA RefuseRoute == ASSUME TypeOK, RouteInv, Refuse PROVE RouteInv'
<1>1. /\ conn \in Conn /\ holder[FdOf[conn]] = conn /\ loop_of[conn] = NULL
      /\ Unwatched(FdOf[conn]) /\ FdOf[conn] \in Fd
  BY ServerAssumption DEF Refuse, RouteInv, EstablishInv, Channel
<1>2. /\ UNCHANGED <<accepted, loop_of, queue, owner, watched>>
      /\ pc' \notin {"get_loop", "new"}
      /\ holder' = [holder EXCEPT ![FdOf[conn]] = NULL]
  BY DEF Refuse, loopVars
<1>3. /\ holder'[FdOf[conn]] = NULL
      /\ \A fd \in Fd : fd # FdOf[conn] => holder'[fd] = holder[fd]
  BY <1>1, <1>2 DEF TypeOK
<1>4. QueuedInv'
  <2> SUFFICES ASSUME NEW l \in Loop, NEW d \in Conn, Queued(l, d)
               PROVE  holder'[FdOf[d]] = d
    BY <1>2 DEF RouteInv, QueuedInv, Queued, Unwatched
  <2>1. holder[FdOf[d]] = d /\ loop_of[d] = l /\ FdOf[d] \in Fd /\ l # NULL
    BY ServerAssumption DEF RouteInv, QueuedInv, Channel
  <2> QED
    BY <1>1, <1>3, <2>1
<1>5. HolderInv'
  BY <1>2, <1>3 DEF RouteInv, HolderInv
<1>6. EventsReachTheirConnection'
  <2> SUFFICES ASSUME NEW l \in Loop, NEW fd \in watched[l], owner[l][fd] \in Conn
               PROVE  holder'[fd] = owner[l][fd] /\ loop_of[holder'[fd]] = l
    BY <1>2 DEF EventsReachTheirConnection
  <2>1. fd # FdOf[conn] /\ fd \in Fd
    BY <1>1 DEF Unwatched, TypeOK
  <2> QED
    BY <1>3, <2>1 DEF RouteInv, EventsReachTheirConnection
<1> QED
  BY <1>2, <1>4, <1>5, <1>6 DEF RouteInv, EstablishInv, OwnerInv, OwnersFd

\* A new connection is queued in the loop it was given.
LEMMA HandedOverRoute ==
  ASSUME TypeOK, RouteInv, tcp_connection_new, UNCHANGED <<conn, accepted, holder, owner, watched>>,
         loop_of' = [loop_of EXCEPT ![conn] = selected],
         queue' = [queue EXCEPT ![selected] = Append(@, Add(conn))],
         pc' \notin {"get_loop", "new"}
  PROVE  RouteInv'
<1>1. /\ conn \in Conn /\ conn \in Channel /\ selected \in Loop
      /\ holder[FdOf[conn]] = conn /\ loop_of[conn] = NULL
      /\ Unwatched(FdOf[conn]) /\ conn \in accepted
  <2>1. /\ conn \in Conn /\ holder[FdOf[conn]] = conn /\ loop_of[conn] = NULL
        /\ Unwatched(FdOf[conn]) /\ selected \in Loop
    BY DEF tcp_connection_new, RouteInv, EstablishInv, TypeOK
  <2>2. FdOf[conn] \in Fd /\ conn # NULL /\ conn \in Channel
    BY <2>1, ServerAssumption DEF Channel
  <2> QED
    BY <2>1, <2>2 DEF RouteInv, HolderInv
<1>2. /\ UNCHANGED <<conn, accepted, holder, owner, watched>>
      /\ loop_of' = [loop_of EXCEPT ![conn] = selected]
      /\ queue' = [queue EXCEPT ![selected] = Append(@, Add(conn))]
      /\ pc' \notin {"get_loop", "new"}
  OBVIOUS
<1>3. /\ loop_of'[conn] = selected
      /\ \A c \in Conn : c # conn => loop_of'[c] = loop_of[c]
  BY <1>1, <1>2 DEF TypeOK
<1>4. \A l \in Loop : ~Queued(l, conn)
  BY <1>1, QueuedParts, ServerAssumption DEF RouteInv, QueuedRight
<1>5. ASSUME NEW l \in Loop, NEW c \in Conn, Queued(l, c)' PROVE QueuedRight(l, c)'
  <2>1. CASE c # conn
    BY <1>1, <1>2, <1>3, <1>5, <2>1, QueuedKept DEF RouteInv
  <2>2. CASE c = conn
    <3> DEFINE len == Len(queue[selected])
    <3>1. /\ len \in Nat /\ Len(queue'[selected]) = len + 1
          /\ \A n \in 1 .. len : queue'[selected][n] = queue[selected][n]
          /\ \A k \in Loop : k # selected => queue'[k] = queue[k]
      BY <1>1, <1>2, QueuedAfterAppend
    <3>2. l = selected
      BY <1>4, <1>5, <2>2, <3>1 DEF Queued
    <3>3. \A n \in 1 .. len : queue'[selected][n].chan # conn
      BY <1>1, <1>4, <3>1 DEF Queued
    <3>4. \A n \in 1 .. len + 1 : n \in 1 .. len \/ n = len + 1
      BY <3>1
    <3> HIDE DEF len
    <3>5. Once(queue'[selected], conn)
      BY <3>1, <3>3, <3>4 DEF Once
    <3> QED
      BY <1>1, <1>2, <1>3, <2>2, <3>2, <3>5 DEF QueuedRight, Unwatched
  <2> QED
    BY <2>1, <2>2
<1>6. QueuedInv'
  BY <1>5, QueuedPartsNext
<1>7. HolderInv'
  BY <1>1, <1>2, <1>3 DEF RouteInv, HolderInv
<1>8. EventsReachTheirConnection'
  <2> SUFFICES ASSUME NEW l \in Loop, NEW fd \in watched[l], owner[l][fd] \in Conn
               PROVE  holder[fd] = owner[l][fd] /\ loop_of'[holder[fd]] = l
    BY <1>2 DEF EventsReachTheirConnection
  <2>1. holder[fd] = owner[l][fd] /\ loop_of[holder[fd]] = l
    BY DEF RouteInv, EventsReachTheirConnection
  <2>2. holder[fd] # conn
    BY <1>1, <2>1, ServerAssumption
  <2> QED
    BY <1>3, <2>1, <2>2
<1>9. EstablishInv' /\ OwnerInv' /\ OwnersFd'
  BY <1>2 DEF RouteInv, EstablishInv, OwnerInv, OwnersFd
<1> QED
  BY <1>6, <1>7, <1>8, <1>9 DEF RouteInv

\* Nothing changes hands when the process ends instead.
LEMMA NewRoute == ASSUME TypeOK, RouteInv, tcp_connection_new PROVE RouteInv'
<1>1. UNCHANGED <<conn, accepted, holder, owner, watched>>
  BY DEF tcp_connection_new
<1>2. CASE UNCHANGED <<loop_of, queue, pc>>
  BY <1>1, <1>2, RouteFrame DEF routeVars
<1>3. CASE ~(UNCHANGED <<loop_of, queue, pc>>)
  BY <1>1, <1>3, HandedOverRoute DEF tcp_connection_new
<1> QED
  BY <1>2, <1>3

\* A descriptor that hangs up is closed by the one loop that watches it.
LEMMA HangUpRoute ==
  ASSUME TypeOK, RouteInv, NEW l \in Loop, NEW fd \in Fd, HangUp(l, fd)
  PROVE  RouteInv'
<1> DEFINE d == owner[l][fd]
<1>1. /\ d \in Conn /\ FdOf[d] = fd /\ fd \in watched[l]
      /\ holder[fd] = d /\ loop_of[d] = l
  BY DEF HangUp, Dispatches, RouteInv, OwnersFd, EventsReachTheirConnection
<1> HIDE DEF d
<1>2. /\ UNCHANGED <<conn, accepted, loop_of, queue, owner, pc>>
      /\ holder' = [holder EXCEPT ![fd] = NULL]
      /\ watched' = [watched EXCEPT ![l] = @ \ {fd}]
  BY DEF HangUp
<1>3. /\ holder'[fd] = NULL
      /\ \A e \in Fd : e # fd => holder'[e] = holder[e]
      /\ \A k \in Loop : watched'[k] \subseteq watched[k]
      /\ fd \notin watched'[l]
  BY <1>2 DEF TypeOK
<1>4. \A e : Unwatched(e) => e # fd /\ Unwatched(e)'
  BY <1>1, <1>3 DEF Unwatched
<1>5. EstablishInv'
  BY <1>2, <1>3, <1>4, ServerAssumption DEF RouteInv, EstablishInv, Channel
<1>6. QueuedInv'
  <2> SUFFICES ASSUME NEW k \in Loop, NEW c \in Conn, Queued(k, c)
               PROVE  QueuedRight(k, c)'
    BY <1>2, QueuedPartsNext DEF Queued
  <2>1. QueuedRight(k, c) /\ FdOf[c] \in Fd
    BY QueuedParts, ServerAssumption DEF RouteInv, Channel
  <2> QED
    BY <1>2, <1>3, <1>4, <2>1 DEF QueuedRight
<1>7. HolderInv'
  BY <1>2, <1>3 DEF RouteInv, HolderInv
<1>8. OwnerInv' /\ OwnersFd'
  BY <1>2, <1>3 DEF RouteInv, OwnerInv, OwnersFd
<1>9. EventsReachTheirConnection'
  <2> SUFFICES ASSUME NEW k \in Loop, NEW e \in watched'[k], owner[k][e] \in Conn
               PROVE  holder'[e] = owner[k][e] /\ loop_of[holder'[e]] = k
    BY <1>2 DEF EventsReachTheirConnection
  <2>1. e \in watched[k] /\ e \in Fd
    BY <1>3 DEF TypeOK
  <2>2. holder[e] = owner[k][e] /\ loop_of[holder[e]] = k
    BY <2>1 DEF RouteInv, EventsReachTheirConnection
  <2>3. e # fd
    BY <1>1, <1>3, <2>2
  <2> QED
    BY <1>3, <2>1, <2>2, <2>3
<1> QED
  BY <1>5, <1>6, <1>7, <1>8, <1>9 DEF RouteInv

\* Taking the oldest request leaves the others.
LEMMA QueuedAfterTail ==
  ASSUME TypeOK, NEW l \in Loop, queue[l] # <<>>,
         queue' = [queue EXCEPT ![l] = Tail(@)]
  PROVE  /\ Head(queue[l]) = queue[l][1] /\ 1 \in 1 .. Len(queue[l])
         /\ Head(queue[l]).chan \in Channel
         /\ \A k \in Loop, c \in Conn :
              /\ Queued(k, c)' => Queued(k, c)
              /\ Once(queue[k], c) => Once(queue'[k], c)
         /\ \A c \in Conn : Head(queue[l]).chan = c /\ Once(queue[l], c)
                              => ~Queued(l, c)'
<1>1. /\ queue \in [Loop -> Seq(Adds)] /\ queue[l] \in Seq(Adds)
      /\ queue'[l] = Tail(queue[l])
      /\ \A k \in Loop : k # l => queue'[k] = queue[k]
  BY DEF TypeOK, Adds
<1> DEFINE len == Len(queue[l])
<1>2. /\ len \in Nat /\ len > 0
      /\ Head(queue[l]) = queue[l][1] /\ Head(queue[l]) \in Adds
      /\ Len(queue'[l]) = len - 1
      /\ \A n \in 1 .. len - 1 : queue'[l][n] = queue[l][n + 1]
  BY <1>1, HeadTailProperties, LenProperties
<1>3. \A n \in 1 .. len - 1 : n \in Nat /\ n + 1 \in 1 .. len /\ n + 1 # 1
  BY <1>2
<1>4. 1 \in 1 .. len /\ Head(queue[l]).chan \in Channel
  BY <1>2 DEF Adds
<1> HIDE DEF len
<1>5. ASSUME NEW c \in Conn
      PROVE  /\ Queued(l, c)' => Queued(l, c)
             /\ Once(queue[l], c) => Once(queue'[l], c)
             /\ Head(queue[l]).chan = c /\ Once(queue[l], c) => ~Queued(l, c)'
  <2>1. Queued(l, c)' => Queued(l, c)
    BY <1>2, <1>3 DEF Queued, len
  <2>2. Once(queue[l], c) => Once(queue'[l], c)
    <3> SUFFICES ASSUME Once(queue[l], c), NEW m \in 1 .. len - 1,
                        NEW n \in 1 .. len - 1,
                        queue'[l][m].chan = c, queue'[l][n].chan = c
                 PROVE  m = n
      BY <1>2 DEF Once
    <3>1. m + 1 = n + 1
      BY <1>2, <1>3 DEF Once, len
    <3> QED
      BY <1>3, <3>1
  <2>3. ASSUME Head(queue[l]).chan = c, Once(queue[l], c), Queued(l, c)'
        PROVE  FALSE
    <3>1. PICK n \in 1 .. len - 1 : queue'[l][n].chan = c
      BY <1>2, <2>3 DEF Queued
    <3>2. queue[l][n + 1].chan = c /\ queue[l][1].chan = c
      BY <1>2, <2>3, <3>1
    <3> QED
      BY <1>3, <1>4, <2>3, <3>1, <3>2 DEF Once, len
  <2> QED
    BY <2>1, <2>2, <2>3
<1>6. ASSUME NEW k \in Loop, NEW c \in Conn
      PROVE  /\ Queued(k, c)' => Queued(k, c)
             /\ Once(queue[k], c) => Once(queue'[k], c)
  BY <1>1, <1>5 DEF Queued
<1> QED
  BY <1>2, <1>4, <1>5, <1>6 DEF len

\* A loop applies a request to watch a connection's descriptor, and from then
\* on is the only one to watch it.
LEMMA ApplyRoute ==
  ASSUME TypeOK, RouteInv, NEW l \in Loop, Apply(l)
  PROVE  RouteInv'
<1>0. PICK c : c = Head(queue[l]).chan
  OBVIOUS
<1>1. /\ queue[l] # <<>> /\ queue' = [queue EXCEPT ![l] = Tail(@)]
      /\ UNCHANGED <<pc, conn, accepted, holder, loop_of>>
      /\ \/ /\ owner' = [owner EXCEPT ![l][FdOf[c]] = c]
            /\ watched' = [watched EXCEPT ![l] = @ \cup {FdOf[c]}]
         \/ UNCHANGED <<owner, watched>>
  BY <1>0 DEF Apply, connVars
<1>2. /\ c \in Channel
      /\ c \in Conn => Queued(l, c)
      /\ \A k \in Loop, d \in Conn : Queued(k, d)' => Queued(k, d) /\ QueuedRight(k, d)
      /\ \A k \in Loop, d \in Conn : Queued(k, d)' => Once(queue'[k], d)
      /\ c \in Conn => QueuedRight(l, c) /\ ~Queued(l, c)'
  <2>1. /\ c = queue[l][1].chan /\ 1 \in 1 .. Len(queue[l]) /\ c \in Channel
        /\ \A k \in Loop, d \in Conn :
              /\ Queued(k, d)' => Queued(k, d)
              /\ Once(queue[k], d) => Once(queue'[k], d)
        /\ \A d \in Conn : c = d /\ Once(queue[l], d) => ~Queued(l, d)'
    BY <1>0, <1>1, QueuedAfterTail
  <2>2. Queued(l, c)
    BY <2>1 DEF Queued
  <2> QED
    BY <2>1, <2>2, QueuedParts DEF RouteInv, QueuedRight
<1>3. HolderInv'
  BY <1>1 DEF RouteInv, HolderInv
<1>4. CASE UNCHANGED <<owner, watched>>
  <2>1. QueuedInv'
    BY <1>1, <1>2, <1>4, QueuedPartsNext DEF QueuedRight, Unwatched
  <2> QED
    BY <1>1, <1>3, <1>4, <2>1 DEF RouteInv, EstablishInv, Unwatched, OwnerInv,
       OwnersFd, EventsReachTheirConnection
<1>5. CASE /\ owner' = [owner EXCEPT ![l][FdOf[c]] = c]
           /\ watched' = [watched EXCEPT ![l] = @ \cup {FdOf[c]}]
  <2> DEFINE e == FdOf[c]
  <2>1. e \in Fd
    BY <1>2, ServerAssumption
  <2>2. /\ owner'[l][e] = c /\ e \in watched'[l]
        /\ \A k \in Loop, fd \in Fd : ~(k = l /\ fd = e) =>
             /\ owner'[k][fd] = owner[k][fd]
             /\ fd \in watched'[k] <=> fd \in watched[k]
        /\ \A k \in Loop : watched'[k] \subseteq Fd
    BY <1>5, <2>1 DEF TypeOK
  <2>3. \A fd \in Fd : Unwatched(fd) /\ fd # e => Unwatched(fd)'
    BY <2>2 DEF Unwatched
  <2>4. c \in Conn => holder[e] = c /\ loop_of[c] = l
    BY <1>2 DEF QueuedRight
  <2>5. \A d \in Conn : FdOf[d] \in Fd
    BY ServerAssumption DEF Channel
  <2>6. c \in Conn \/ \A d \in Conn : FdOf[d] # e
    BY <1>2, ServerAssumption DEF Channel
  <2> HIDE DEF e
  <2>7. EstablishInv'
    <3> SUFFICES ASSUME pc \in {"get_loop", "new"}
                 PROVE  /\ conn \in Conn /\ holder[FdOf[conn]] = conn
                        /\ loop_of[conn] = NULL /\ Unwatched(FdOf[conn])'
      BY <1>1 DEF EstablishInv
    <3>1. /\ conn \in Conn /\ holder[FdOf[conn]] = conn
          /\ loop_of[conn] = NULL /\ Unwatched(FdOf[conn])
      BY DEF RouteInv, EstablishInv
    <3>2. FdOf[conn] # e
      BY <2>4, <2>6, <3>1, ServerAssumption
    <3> QED
      BY <1>1, <2>3, <2>5, <3>1, <3>2 DEF Unwatched
  <2>8. QueuedInv'
    <3> SUFFICES ASSUME NEW k \in Loop, NEW d \in Conn, Queued(k, d)'
                 PROVE  QueuedRight(k, d)'
      BY QueuedPartsNext
    <3>1. QueuedRight(k, d) /\ Once(queue'[k], d)
      BY <1>2
    <3>2. FdOf[d] # e
      BY <1>2, <2>4, <2>6, <3>1 DEF QueuedRight
    <3> QED
      BY <1>1, <2>3, <2>5, <3>1, <3>2 DEF QueuedRight
  <2>9. OwnerInv'
    <3> SUFFICES ASSUME NEW k \in Loop, NEW d \in Conn
                 PROVE  /\ owner'[k][FdOf[d]] \in Conn \cup {NULL}
                        /\ FdOf[d] \in watched'[k] => owner'[k][FdOf[d]] \in Conn
      BY DEF OwnerInv
    <3>1. CASE k = l /\ FdOf[d] = e
      BY <2>2, <2>6, <3>1
    <3>2. CASE ~(k = l /\ FdOf[d] = e)
      BY <2>2, <2>5, <3>2 DEF RouteInv, OwnerInv
    <3> QED
      BY <3>1, <3>2
  <2>10. OwnersFd'
    <3> SUFFICES ASSUME NEW k \in Loop, NEW fd \in Fd, owner'[k][fd] \in Conn
                 PROVE  FdOf[owner'[k][fd]] = fd
      BY DEF OwnersFd
    <3>1. CASE k = l /\ fd = e
      BY <2>2, <3>1 DEF e
    <3>2. CASE ~(k = l /\ fd = e)
      BY <2>2, <3>2 DEF RouteInv, OwnersFd
    <3> QED
      BY <3>1, <3>2
  <2>11. EventsReachTheirConnection'
    <3> SUFFICES ASSUME NEW k \in Loop, NEW fd \in watched'[k],
                        owner'[k][fd] \in Conn
                 PROVE  holder[fd] = owner'[k][fd] /\ loop_of[holder[fd]] = k
      BY <1>1 DEF EventsReachTheirConnection
    <3>1. CASE k = l /\ fd = e
      BY <2>2, <2>4, <3>1
    <3>2. CASE ~(k = l /\ fd = e)
      <4>1. fd \in Fd /\ fd \in watched[k] /\ owner'[k][fd] = owner[k][fd]
        BY <2>2, <3>2
      <4> QED
        BY <4>1 DEF RouteInv, EventsReachTheirConnection
    <3> QED
      BY <3>1, <3>2
  <2> QED
    BY <1>3, <2>7, <2>8, <2>9, <2>10, <2>11 DEF RouteInv
<1> QED
  BY <1>1, <1>4, <1>5

\* Each step keeps the invariant of the route.
LEMMA RouteStep == ASSUME TypeOK, RouteInv, Next PROVE RouteInv'
<1> USE DEF poolVars, threadVars, connVars, loopVars, routeVars
<1>1. CASE \/ thread_pool_start \/ CreateThread \/ StarterLock \/ StarterTest
           \/ StarterWakes \/ StarterUnlock
  <2>1. UNCHANGED routeVars /\ pc' \notin {"get_loop", "new"}
    BY <1>1 DEF thread_pool_start, CreateThread, StarterLock, StarterTest,
       StarterWakes, StarterUnlock
  <2> QED
    BY <2>1, RouteFrame
<1>2. CASE thread_pool_get_loop
  <2>1. UNCHANGED routeVars /\ pc = "get_loop" /\ conn' = conn
    BY <1>2 DEF thread_pool_get_loop
  <2> QED
    BY <2>1, RouteFrame
<1>3. CASE HandleEnd \/ SetData
  <2>1. UNCHANGED routeVars /\ pc' \notin {"get_loop", "new"}
    BY <1>3 DEF HandleEnd, SetData
  <2> QED
    BY <2>1, RouteFrame
<1>4. ASSUME NEW w \in Worker, event_loop_thread_run(w) PROVE RouteInv'
  <2>1. UNCHANGED routeVars /\ pc' = pc /\ conn' = conn
    BY <1>4 DEF event_loop_thread_run, RunLock, RunInit, RunSignal, RunUnlock,
       RunLoop
  <2> QED
    BY <2>1, RouteFrame
<1>5. ASSUME NEW l \in Loop, NEW fd \in Fd, Message(l, fd) PROVE RouteInv'
  <2>1. UNCHANGED routeVars /\ pc' = pc /\ conn' = conn
    BY <1>5 DEF Message
  <2> QED
    BY <2>1, RouteFrame
<1> QED
  BY <1>1, <1>2, <1>3, <1>4, <1>5, ListenRoute, AcceptRoute, RefuseRoute, NewRoute,
     HangUpRoute, ApplyRoute
  DEF Next, Starter, Establish

\* The invariant of the route holds before anything was accepted.
LEMMA InitRoute == Init => RouteInv
<1> SUFFICES ASSUME Init PROVE RouteInv
  OBVIOUS
<1>1. /\ \A l \in Loop : queue[l] = <<>>
      /\ \A l \in Loop : watched[l] = {WakeFd[l]}
      /\ \A l \in Loop, fd \in Fd :
           owner[l][fd] = IF fd = WakeFd[l] THEN Wakeup ELSE NULL
      /\ pc = "thread_pool_start"
      /\ \A c \in Conn : loop_of[c] = NULL
      /\ \A fd \in Fd : holder[fd] = NULL
  BY DEF Init
<1>2. /\ \A c \in Conn : FdOf[c] \in Fd /\ c # NULL /\ c # Wakeup
      /\ \A l \in Loop : WakeFd[l] \in Fd
      /\ \A l \in Loop, c \in Conn : WakeFd[l] # FdOf[c]
  BY ServerAssumption DEF Channel
<1>3. EstablishInv /\ HolderInv
  BY <1>1 DEF EstablishInv, HolderInv
<1>4. QueuedInv
  <2>1. \A l \in Loop : Len(queue[l]) = 0
    BY <1>1
  <2> QED
    BY <2>1 DEF QueuedInv, Queued
<1>5. \A l \in Loop, fd \in Fd : owner[l][fd] \notin Conn
  BY <1>1, ServerAssumption DEF Channel
<1>6. OwnerInv /\ OwnersFd
  BY <1>1, <1>2, <1>5 DEF OwnerInv, OwnersFd
<1>7. EventsReachTheirConnection
  BY <1>1, <1>2, <1>5 DEF EventsReachTheirConnection
<1> QED
  BY <1>3, <1>4, <1>6, <1>7 DEF RouteInv

\* The invariant, by its parts.
LEMMA InvParts == Inv <=> TypeOK /\ PoolInv /\ RouteInv
BY DEF Inv, PoolInv, RouteInv

\* The invariant holds initially.
LEMMA InitInv == Init => Inv
<1>1. Init => PoolInv
  BY DEF Init, PoolInv, StartInv, LoopsAreReady, Starting, Serving
<1> QED
  BY <1>1, InitType, InitRoute, InvParts

\* Every step keeps the invariant.
LEMMA NextInv == ASSUME Inv, [Next]_vars PROVE Inv'
<1>1. CASE Next
  <2>1. TypeOK /\ PoolInv /\ RouteInv
    BY InvParts
  <2>2. TypeOK'
    BY <1>1, <2>1, StarterType, EstablishType, LoopType DEF Next, RouteInv
  <2>3. PoolInv' /\ RouteInv'
    BY <1>1, <2>1, PoolStep, RouteStep
  <2> QED
    BY <2>2, <2>3 DEF Inv, PoolInv, RouteInv
<1>2. CASE UNCHANGED vars
  <2>1. TypeOK /\ PoolInv /\ RouteInv
    BY InvParts
  <2> USE DEF poolVars, threadVars, connVars, loopVars
  <2>2. TypeOK'
    <3>1. UNCHANGED <<poolVars, pc, threadVars, connVars, loopVars, process>>
      BY <1>2 DEF vars
    <3> HIDE <1>2
    <3> QED
      BY ZenonT(60), <2>1, <3>1 DEF TypeOK
  <2>3. PoolInv'
    BY <1>2, <2>1 DEF vars, PoolInv, StartInv, LoopsAreReady, Starting, Serving
  <2>4. RouteInv'
    BY <1>2, <2>1, RouteFrame DEF vars, routeVars
  <2> QED
    BY <2>2, <2>3, <2>4 DEF Inv, PoolInv, RouteInv
<1> QED
  BY <1>1, <1>2

\* The invariant holds in every state the server reaches.
THEOREM Invariance == Spec => []Inv
BY InitInv, NextInv, PTL DEF Spec

\* Every variable of the server always holds a value of its type.
THEOREM TypeCorrect == Spec => []TypeOK
<1>1. Inv => TypeOK
  BY DEF Inv
<1> QED
  BY <1>1, Invariance, PTL

\* When the server accepts connections, every thread of the pool has its loop:
\* the wait of event_loop_thread_start cannot end too early, in whatever order
\* threads run, whatever spurious wakeups come, and even if pthread_create or
\* an allocation of a thread fails.
THEOREM Ready == Spec => []LoopsAreReady
<1>1. Inv => LoopsAreReady
  BY DEF Inv
<1> QED
  BY <1>1, Invariance, PTL

\* The events of a connection's descriptor reach the connection that has it, in
\* the loop it was given, and no other, however descriptors are used again.
THEOREM Routing == Spec => []EventsReachTheirConnection
<1>1. Inv => EventsReachTheirConnection
  BY DEF Inv
<1> QED
  BY <1>1, Invariance, PTL

-----------------------------------------------------------------------------
(* The shares of the threads.                                              *)

\* What hands no connection over leaves the shares as they are.
LEMMA SharesFrame ==
  ASSUME SharesInv, UNCHANGED <<thread_number, position, assigned>>
  PROVE  SharesInv'
BY DEF SharesInv

\* The thread whose turn it is has had one connection less than those before.
LEMMA SharesTurn ==
  ASSUME Inv, SharesInv, thread_pool_get_loop
  PROVE  SharesInv'
<1>1. /\ TypeOK /\ LoopsAreReady
      /\ thread_number' = thread_number
      /\ Main \notin Worker /\ NULL \notin Worker
  BY ServerAssumption DEF Inv, thread_pool_get_loop, Loop
<1>2. CASE UNCHANGED <<position, assigned>>
  BY <1>1, <1>2, SharesFrame
<1>3. CASE ~(thread_number > 0)
  <2>1. \A w \in Worker : ~(w < thread_number)
    BY <1>1, <1>3, Indices DEF Worker
  <2> QED
    BY <1>1, <2>1 DEF SharesInv
<1>4. CASE thread_number > 0 /\ ~UNCHANGED <<position, assigned>>
  <2>1. /\ ev_loop_threads = "allocated" /\ pc = "get_loop"
        /\ selected' = ev_loop[position]
        /\ position' = IF position + 1 >= thread_number THEN 0 ELSE position + 1
        /\ assigned' = IF selected' = NULL THEN assigned
                       ELSE [assigned EXCEPT ![selected'] = @ + 1]
    BY <1>4 DEF thread_pool_get_loop
  <2>2. /\ position \in Worker /\ position < thread_number /\ position \in Nat
        /\ thread_number \in Int /\ thread_number - 1 \in Worker
    <3>1. /\ position \in Worker /\ thread_number \in Int
          /\ thread_number <= MaxThreads /\ MaxThreads \in Nat
      BY <1>1, <1>4, Indices
    <3>2. position \in Nat /\ position < thread_number
      BY <1>1, <1>4 DEF TypeOK
    <3>3. thread_number - 1 \in Worker
      BY <1>4, <3>1 DEF Worker
    <3> QED
      BY <3>1, <3>2, <3>3
  <2>3. selected' = position
    BY <1>1, <2>1, <2>2 DEF LoopsAreReady, Serving
  <2>4. assigned' = [assigned EXCEPT ![position] = @ + 1]
    BY <1>1, <2>1, <2>2, <2>3
  <2>5. /\ assigned \in [Loop -> Nat] /\ \A w \in Worker : w \in Loop
    BY <1>1 DEF TypeOK, Loop
  <2>6. /\ \A w \in Worker : assigned[w] \in Nat
        /\ \A w \in Worker :
             assigned'[w] = IF w = position THEN assigned[w] + 1 ELSE assigned[w]
    BY <2>2, <2>4, <2>5
  <2>7. \A w \in Worker : w \in Int
    BY <1>1, Indices DEF Worker
  <2> SUFFICES ASSUME NEW w \in Worker, w < thread_number
               PROVE  assigned'[w] = assigned'[thread_number - 1]
                                       + IF w < position' THEN 1 ELSE 0
    BY <1>1 DEF SharesInv
  <2>8. /\ assigned[w] = assigned[thread_number - 1]
                           + IF w < position THEN 1 ELSE 0
        /\ assigned[position] = assigned[thread_number - 1]
    <3>1. assigned[position] = assigned[thread_number - 1]
                                 + IF position < position THEN 1 ELSE 0
      BY <2>2 DEF SharesInv
    <3> QED
      BY <2>2, <2>6, <3>1 DEF SharesInv
  <2>9. CASE position = thread_number - 1
    <3>1. position' = 0
      BY <2>1, <2>2, <2>9
    <3>2. ~(w < 0) /\ (w < position \/ w = position)
      BY <1>1, <2>2, <2>9, Indices DEF Worker
    <3> QED
      BY <2>2, <2>6, <2>7, <2>8, <2>9, <3>1, <3>2
  <2>10. CASE position # thread_number - 1
    <3>1. position' = position + 1
      BY <2>1, <2>2, <2>10
    <3> QED
      BY <2>2, <2>6, <2>7, <2>8, <2>10, <3>1
  <2> QED
    BY <2>9, <2>10
<1> QED
  BY <1>2, <1>3, <1>4 DEF thread_pool_get_loop

\* Each step keeps what is known of the shares.
LEMMA SharesNext ==
  ASSUME Inv, SharesInv, [Next]_vars
  PROVE  SharesInv'
<1> USE DEF poolVars, threadVars, connVars, loopVars
<1>1. CASE Starter
  <2>1. UNCHANGED <<thread_number, position, assigned>>
    BY <1>1 DEF Starter, thread_pool_start, CreateThread, StarterLock,
       StarterTest, StarterWakes, StarterUnlock, Listen
  <2> QED
    BY <2>1, SharesFrame
<1>2. CASE Refuse \/ tcp_connection_new \/ HandleEnd \/ SetData
  <2>1. UNCHANGED <<thread_number, position, assigned>>
    BY <1>2 DEF Refuse, tcp_connection_new, HandleEnd, SetData
  <2> QED
    BY <2>1, SharesFrame
<1>3. CASE \/ \E c \in Conn : Accept(c)
           \/ \E l \in Loop : Apply(l)
           \/ \E l \in Loop, fd \in Fd : Message(l, fd) \/ HangUp(l, fd)
  <2>1. UNCHANGED <<thread_number, position, assigned>>
    BY <1>3 DEF Accept, Apply, Message, HangUp
  <2> QED
    BY <2>1, SharesFrame
<1>4. ASSUME NEW w \in Worker, event_loop_thread_run(w) PROVE SharesInv'
  <2>1. UNCHANGED <<thread_number, position, assigned>>
    BY <1>4 DEF event_loop_thread_run, RunLock, RunInit, RunSignal, RunUnlock,
       RunLoop
  <2> QED
    BY <2>1, SharesFrame
<1>5. CASE UNCHANGED vars
  BY <1>5, SharesFrame DEF vars
<1> QED
  BY <1>1, <1>2, <1>3, <1>4, <1>5, SharesTurn DEF Next, Establish

\* The threads share the connections evenly, however many threads and
\* connections there are: thread_pool_get_loop never skips a thread and never
\* gives one two in a row.
THEOREM EvenShares == Spec => []Balanced
<1>1. Init => SharesInv
  <2> SUFFICES ASSUME Init PROVE SharesInv
    OBVIOUS
  <2>1. TypeOK
    BY InitType
  <2>2. /\ \A w \in Worker : assigned[w] = 0 /\ w \in Int /\ ~(w < 0)
        /\ thread_number > 0 => thread_number - 1 \in Worker
        /\ position = 0
    BY <2>1, Indices DEF Init, Loop, Worker
  <2>3. ASSUME NEW w \in Worker, w < thread_number
        PROVE  thread_number - 1 \in Worker
    BY <2>1, <2>2, <2>3, Indices
  <2> QED
    BY <2>2, <2>3 DEF SharesInv
<1>2. Inv /\ SharesInv => Balanced
  <2> SUFFICES ASSUME Inv, SharesInv, NEW v \in Worker, NEW w \in Worker,
                      v < thread_number, w < thread_number
               PROVE  assigned[v] <= assigned[w] + 1
    BY DEF Balanced
  <2>1. TypeOK
    BY DEF Inv
  <2>2. thread_number - 1 \in Worker
    BY <2>1, Indices DEF Worker
  <2>3. assigned[thread_number - 1] \in Nat
    BY <2>1, <2>2 DEF TypeOK, Loop
  <2> QED
    BY <2>3 DEF SharesInv
<1> QED
  BY <1>1, <1>2, Invariance, SharesNext, PTL DEF Spec

-----------------------------------------------------------------------------
(* Each loop is used as a ChannelQueue.                                    *)

\* A request that is queued is posted.
LEMMA QueuedIsPosted ==
  ASSUME TypeOK, NEW l \in Loop, NEW c \in Channel,
         queue' = [queue EXCEPT ![l] = Append(@, Add(c))],
         UNCHANGED <<owner, watched>>, NEW k \in Loop
  PROVE  [Q(k)!QueueNext]_(Q(k)!qvars)
<1>1. CASE k = l
  <2>1. queue'[k] = Append(queue[k], Add(c))
    BY <1>1 DEF TypeOK
  <2>2. Add(c) \in Q(k)!Request
    BY DEF Add, Q!Request, Q!RequestType
  <2>3. Q(k)!Post
    BY <2>1, <2>2 DEF Q!Post
  <2> QED
    BY <2>3 DEF Q!QueueNext
<1>2. CASE k # l
  <2>1. queue'[k] = queue[k]
    BY <1>2 DEF TypeOK
  <2> QED
    BY <2>1 DEF Q!qvars
<1> QED
  BY <1>1, <1>2

\* A request that is applied is the oldest of its queue.
LEMMA AppliedInOrder ==
  ASSUME TypeOK, NEW l \in Loop, Apply(l), NEW k \in Loop
  PROVE  [Q(k)!QueueNext]_(Q(k)!qvars)
<1>1. CASE k = l
  <2>1. PICK c : c = Head(queue[l]).chan
    OBVIOUS
  <2>2. /\ queue[l] # <<>>
        /\ queue' = [queue EXCEPT ![l] = Tail(@)]
        /\ \/ /\ owner[l][FdOf[c]] = NULL
              /\ owner' = [owner EXCEPT ![l][FdOf[c]] = c]
              /\ watched' = [watched EXCEPT ![l] = @ \cup {FdOf[c]}]
           \/ /\ owner[l][FdOf[c]] # NULL \/ AllocMayFail
              /\ UNCHANGED <<owner, watched>>
    BY <2>1 DEF Apply
  <2>3. Head(queue[l]).type = "ADD" /\ c \in Channel
    <3>1. queue[l] \in Seq(Adds)
      BY DEF TypeOK, Adds
    <3>2. Head(queue[l]) \in Adds
      BY <2>2, <3>1, HeadTailProperties
    <3> QED
      BY <2>1, <3>2 DEF Adds
  <2>4. /\ queue'[l] = Tail(queue[l])
        /\ \/ /\ owner[l][FdOf[c]] = NULL
              /\ owner'[l] = [owner[l] EXCEPT ![FdOf[c]] = c]
              /\ watched'[l] = watched[l] \cup {FdOf[c]}
           \/ /\ owner[l][FdOf[c]] # NULL \/ AllocMayFail
              /\ owner'[l] = owner[l] /\ watched'[l] = watched[l]
    BY <2>2 DEF TypeOK
  <2>5. Q(k)!ApplyAdd
    BY <1>1, <2>1, <2>2, <2>3, <2>4 DEF Q!ApplyAdd
  <2> QED
    BY <2>5 DEF Q!QueueNext
<1>2. CASE k # l
  <2>1. queue'[k] = queue[k] /\ owner'[k] = owner[k] /\ watched'[k] = watched[k]
    BY <1>2 DEF Apply, TypeOK
  <2> QED
    BY <2>1 DEF Q!qvars
<1> QED
  BY <1>1, <1>2

\* A descriptor that hangs up is never that of the loop's wakeups.
LEMMA HangUpIsAClients ==
  ASSUME TypeOK, RouteInv, NEW l \in Loop, NEW fd \in Fd, HangUp(l, fd),
         NEW k \in Loop
  PROVE  [Q(k)!QueueNext]_(Q(k)!qvars)
<1>1. CASE k = l
  <2>1. /\ fd \in watched[l] /\ owner[l][fd] \in Conn
        /\ watched'[l] = watched[l] \ {fd}
        /\ UNCHANGED <<queue, owner>>
    BY DEF HangUp, Dispatches, TypeOK
  <2>2. fd # WakeFd[l]
    BY <2>1, ServerAssumption DEF RouteInv, OwnersFd, Channel
  <2>3. Q(k)!HangUp
    BY <1>1, <2>1, <2>2 DEF Q!HangUp
  <2> QED
    BY <2>3 DEF Q!QueueNext
<1>2. CASE k # l
  <2>1. queue'[k] = queue[k] /\ owner'[k] = owner[k] /\ watched'[k] = watched[k]
    BY <1>2 DEF HangUp, TypeOK
  <2> QED
    BY <2>1 DEF Q!qvars
<1> QED
  BY <1>1, <1>2

\* Each step of the server is, for each loop, a step of its queue or none.
LEMMA QueueStep ==
  ASSUME Inv, [Next]_vars, NEW k \in Loop
  PROVE  [Q(k)!QueueNext]_(Q(k)!qvars)
<1> USE DEF poolVars, threadVars, connVars, loopVars
<1>1. TypeOK /\ RouteInv
  BY InvParts
<1>2. ASSUME UNCHANGED loopVars PROVE [Q(k)!QueueNext]_(Q(k)!qvars)
  BY <1>2 DEF Q!qvars
<1>3. CASE \/ thread_pool_start \/ CreateThread \/ StarterLock \/ StarterTest
           \/ StarterWakes \/ StarterUnlock
  BY <1>2, <1>3 DEF thread_pool_start, CreateThread, StarterLock, StarterTest,
     StarterWakes, StarterUnlock
<1>4. CASE Listen
  <2>1. Main \in Loop /\ Listener \in Channel
    BY DEF Loop, Channel
  <2> QED
    BY <1>1, <1>2, <1>4, <2>1, QueuedIsPosted DEF Listen
<1>5. CASE thread_pool_get_loop \/ Refuse \/ HandleEnd \/ SetData
  BY <1>2, <1>5 DEF thread_pool_get_loop, Refuse, HandleEnd, SetData
<1>6. CASE tcp_connection_new
  <2>1. /\ selected \in Loop /\ conn \in Channel
        /\ UNCHANGED <<owner, watched>>
    BY <1>1, <1>6 DEF tcp_connection_new, TypeOK, RouteInv, EstablishInv, Channel
  <2>2. CASE queue' = queue
    BY <1>2, <2>1, <2>2
  <2>3. CASE queue' = [queue EXCEPT ![selected] = Append(@, Add(conn))]
    BY <1>1, <2>1, <2>3, QueuedIsPosted
  <2> QED
    BY <1>6, <2>2, <2>3 DEF tcp_connection_new
<1>7. ASSUME NEW c \in Conn, Accept(c) PROVE [Q(k)!QueueNext]_(Q(k)!qvars)
  BY <1>2, <1>7 DEF Accept
<1>8. ASSUME NEW w \in Worker, event_loop_thread_run(w)
      PROVE  [Q(k)!QueueNext]_(Q(k)!qvars)
  BY <1>2, <1>8 DEF event_loop_thread_run, RunLock, RunInit, RunSignal,
     RunUnlock, RunLoop
<1>9. ASSUME NEW l \in Loop, NEW fd \in Fd, Message(l, fd)
      PROVE  [Q(k)!QueueNext]_(Q(k)!qvars)
  BY <1>2, <1>9 DEF Message
<1>10. CASE UNCHANGED vars
  BY <1>2, <1>10 DEF vars
<1> QED
  BY <1>1, <1>3, <1>4, <1>5, <1>6, <1>7, <1>8, <1>9, <1>10, AppliedInOrder,
     HangUpIsAClients
  DEF Next, Starter, Establish

\* The server uses each of its loops as the ChannelQueue that EventLoop
\* implements: whatever happens to a loop is a request queued, the oldest one
\* applied, or a client's descriptor hanging up.
THEOREM QueueUse == Spec => UsesChannelQueues
<1>1. Init => \A l \in Loop : Q(l)!QueueInit
  BY DEF Init, Q!QueueInit
<1>2. ASSUME Inv, [Next]_vars
      PROVE  [\A l \in Loop : [Q(l)!QueueNext]_(Q(l)!qvars)]_loopVars
  BY <1>2, QueueStep
<1> QED
  BY <1>1, <1>2, Invariance, PTL DEF Spec, UsesChannelQueues
=============================================================================
