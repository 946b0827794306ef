------------------------------ MODULE TcpServer ------------------------------
(***************************************************************************)
(* lib/tcp_server.c with its pool of loop threads: tcp_server_start starts *)
(* the threads one by one (thread_pool_start, event_loop_thread_start) and *)
(* has the main loop watch the listening socket; from then on the main     *)
(* thread accepts connections and hands each to a loop, whose thread runs  *)
(* its callbacks.  The loops are those of EventLoop, seen through what     *)
(* they promise, ChannelQueue: a request is queued in one step and applied *)
(* in another.  tcp_server->data is set, as http_server_new does.          *)
(***************************************************************************)
EXTENDS Integers, Sequences

CONSTANTS
  Main,          \* the main thread, and its loop
  MaxThreads,    \* no thread_number above it
  ThreadNumbers, \* the values thread_number may have
  Conn,          \* connections clients make
  Listener,      \* the channel of listen_fd
  Wakeup,        \* the wakeup channels of the loops, which are alike
  Fd,            \* file descriptors
  FdOf,          \* chan->fd of the connections and of the listener
  WakeFd,        \* WakeFd[l]: socket_pair[1] of loop l
  NULL,
  AllocMayFail   \* whether malloc, realloc and pthread_create may fail

Worker == 0 .. MaxThreads - 1
Loop == Worker \cup {Main}
Channel == Conn \cup {Listener}

ASSUME ServerAssumption ==
  /\ MaxThreads \in Nat
  /\ ThreadNumbers \subseteq {n \in Int : n <= MaxThreads}
  /\ Main \notin Worker
  /\ Listener \notin Conn
  /\ NULL \notin Loop \cup Channel \cup {Wakeup}
  /\ Wakeup \notin Channel
  /\ FdOf \in [Channel -> Fd]
  /\ \A c \in Conn : FdOf[c] # FdOf[Listener]
  /\ WakeFd \in [Loop -> Fd]
  /\ \A l \in Loop, c \in Channel : WakeFd[l] # FdOf[c]
  /\ AllocMayFail \in BOOLEAN

VARIABLES
  thread_number,
  ev_loop_threads, \* "NULL" or "allocated"
  position,        \* whose turn it is to be handed a connection
  pc,              \* where the main thread is
  i,               \* the thread that thread_pool_start is starting
  wpc,             \* wpc[w]: where thread w is
  mutex,           \* mutex[w]: the holder of ev_loop_threads[w].mutex
  ev_loop,         \* ev_loop[w]: ev_loop_threads[w].ev_loop
  signalled,       \* the condition the main thread waits for was signalled
  conn,            \* the connection handle_connection_established is at
  selected,        \* the loop thread_pool_get_loop returned for it
  accepted,        \* history: the connections accepted so far
  holder,          \* holder[fd]: the connection whose descriptor fd is, if open
  loop_of,         \* loop_of[c]: tcp_conn->ev_loop
  data,            \* data[c]: tcp_conn->data
  seen,            \* seen[c]: tcp_conn->data as the message callback found it
  assigned,        \* history: how many connections each loop was handed
  queue,           \* queue[l]: the requests loop l has not applied
  owner,           \* owner[l]: its channel map
  watched,         \* watched[l]: its epoll set
  process          \* "running", "aborted" (assert) or "faulted" (SIGSEGV)

poolVars == <<thread_number, ev_loop_threads, position, i>>
threadVars == <<wpc, mutex, ev_loop, signalled>>
connVars == <<conn, selected, accepted, holder, loop_of, data, seen, assigned>>
loopVars == <<queue, owner, watched>>
vars == <<poolVars, pc, threadVars, connVars, loopVars, process>>

Q(l) == INSTANCE ChannelQueue
          WITH queue <- queue[l], owner <- owner[l], watched <- watched[l],
               WakeFd <- WakeFd[l], WakeChan <- Wakeup,
               Failing <- IF AllocMayFail THEN Channel ELSE {}

Add(c) == [type |-> "ADD", chan |-> c]

Init ==
  /\ thread_number \in ThreadNumbers
  /\ ev_loop_threads = "NULL"
  /\ position = 0
  /\ pc = "thread_pool_start"
  /\ i = 0
  /\ wpc = [w \in Worker |-> "none"]
  /\ mutex = [w \in Worker |-> NULL]
  /\ ev_loop = [w \in Worker |-> NULL]
  /\ signalled = FALSE
  /\ conn = NULL
  /\ selected = NULL
  /\ accepted = {}
  /\ holder = [fd \in Fd |-> NULL]
  /\ loop_of = [c \in Conn |-> NULL]
  /\ data = [c \in Conn |-> "uninitialized"]
  /\ seen = [c \in Conn |-> "nothing"]
  /\ assigned = [l \in Loop |-> 0]
  /\ queue = [l \in Loop |-> <<>>]
  /\ owner = [l \in Loop |->
                [fd \in Fd |-> IF fd = WakeFd[l] THEN Wakeup ELSE NULL]]
  /\ watched = [l \in Loop |-> {WakeFd[l]}]
  /\ process = "running"
-----------------------------------------------------------------------------
(* The main thread starts the others: thread_pool_start,                   *)
(* event_loop_thread_init and event_loop_thread_start.                     *)

thread_pool_start ==
  /\ pc = "thread_pool_start"
  /\ \/ /\ thread_number <= 0
        /\ pc' = "listen"
        /\ UNCHANGED ev_loop_threads
     \/ /\ thread_number > 0
        /\ AllocMayFail
        /\ pc' = "listen"
        /\ UNCHANGED ev_loop_threads
     \/ /\ thread_number > 0
        /\ ev_loop_threads' = "allocated"
        /\ pc' = "create"
  /\ UNCHANGED <<thread_number, position, i, threadVars, connVars, loopVars,
                 process>>

\* The result of pthread_create is not looked at.
CreateThread ==
  /\ pc = "create"
  /\ \/ wpc' = [wpc EXCEPT ![i] = "lock"]
     \/ AllocMayFail /\ UNCHANGED wpc
  /\ pc' = "lock"
  /\ UNCHANGED <<poolVars, mutex, ev_loop, signalled, connVars, loopVars,
                 process>>

StarterLock ==
  /\ pc = "lock"
  /\ mutex[i] = NULL
  /\ mutex' = [mutex EXCEPT ![i] = Main]
  /\ pc' = "test"
  /\ UNCHANGED <<poolVars, wpc, ev_loop, signalled, connVars, loopVars, process>>

\* Slips, one per property, are defined before the definition they are a slip
\* in and used nowhere: with the slip in its place, the property fails.
\* Slip: the main thread waits for the signal, not for the condition.
StarterTest_Signal ==
  /\ pc = "test"
  /\ IF signalled
     THEN pc' = "unlock" /\ UNCHANGED mutex
     ELSE pc' = "wait" /\ mutex' = [mutex EXCEPT ![i] = NULL]
  /\ signalled' = FALSE
  /\ UNCHANGED <<poolVars, wpc, ev_loop, connVars, loopVars, process>>

\* pthread_cond_wait releases the mutex and waits in one step.
StarterTest ==
  /\ pc = "test"
  /\ \/ /\ ev_loop[i] = NULL
        /\ pc' = "wait"
        /\ mutex' = [mutex EXCEPT ![i] = NULL]
        /\ signalled' = FALSE
     \/ /\ ev_loop[i] # NULL
        /\ pc' = "unlock"
        /\ UNCHANGED <<mutex, signalled>>
  /\ UNCHANGED <<poolVars, wpc, ev_loop, connVars, loopVars, process>>

\* Slip: the condition is not tested again (if in place of while).
StarterWakes_NoTest ==
  /\ pc = "wait"
  /\ mutex[i] = NULL
  /\ mutex' = [mutex EXCEPT ![i] = Main]
  /\ pc' = "unlock"
  /\ UNCHANGED <<poolVars, wpc, ev_loop, signalled, connVars, loopVars, process>>

\* It returns when signalled, or spuriously, and takes the mutex again.
StarterWakes ==
  /\ pc = "wait"
  /\ mutex[i] = NULL
  /\ mutex' = [mutex EXCEPT ![i] = Main]
  /\ pc' = "test"
  /\ UNCHANGED <<poolVars, wpc, ev_loop, signalled, connVars, loopVars, process>>

StarterUnlock ==
  /\ pc = "unlock"
  /\ mutex' = [mutex EXCEPT ![i] = NULL]
  /\ IF i + 1 < thread_number
     THEN i' = i + 1 /\ pc' = "create"
     ELSE UNCHANGED i /\ pc' = "listen"
  /\ UNCHANGED <<thread_number, ev_loop_threads, position, wpc, ev_loop,
                 signalled, connVars, loopVars, process>>

-----------------------------------------------------------------------------
(* event_loop_thread_run, in thread w.                                     *)

RunLock(w) ==
  /\ wpc[w] = "lock"
  /\ mutex[w] = NULL
  /\ mutex' = [mutex EXCEPT ![w] = w]
  /\ wpc' = [wpc EXCEPT ![w] = "init"]
  /\ UNCHANGED <<poolVars, pc, ev_loop, signalled, connVars, loopVars, process>>

\* event_loop_init_with_name, which returns NULL when an allocation fails.
RunInit(w) ==
  /\ wpc[w] = "init"
  /\ \/ ev_loop' = [ev_loop EXCEPT ![w] = w]
     \/ AllocMayFail /\ UNCHANGED ev_loop
  /\ wpc' = [wpc EXCEPT ![w] = "signal"]
  /\ UNCHANGED <<poolVars, pc, mutex, signalled, connVars, loopVars, process>>

RunSignal(w) ==
  /\ wpc[w] = "signal"
  /\ signalled' = (signalled \/ (pc = "wait" /\ i = w))
  /\ wpc' = [wpc EXCEPT ![w] = "unlock"]
  /\ UNCHANGED <<poolVars, pc, mutex, ev_loop, connVars, loopVars, process>>

RunUnlock(w) ==
  /\ wpc[w] = "unlock"
  /\ mutex' = [mutex EXCEPT ![w] = NULL]
  /\ wpc' = [wpc EXCEPT ![w] = "event_loop_run"]
  /\ UNCHANGED <<poolVars, pc, ev_loop, signalled, connVars, loopVars, process>>

\* event_loop_run asserts that it was given a loop.
RunLoop(w) ==
  /\ wpc[w] = "event_loop_run"
  /\ \/ /\ ev_loop[w] # NULL
        /\ wpc' = [wpc EXCEPT ![w] = "loop"]
        /\ UNCHANGED process
     \/ /\ ev_loop[w] = NULL
        /\ process' = "aborted"
        /\ UNCHANGED wpc
  /\ UNCHANGED <<poolVars, pc, mutex, ev_loop, signalled, connVars, loopVars>>

-----------------------------------------------------------------------------
(* The main thread accepts connections: handle_connection_established.     *)

\* The rest of tcp_server_start.  channel_new may return NULL, and is not
\* tested.  The caller owns the main loop: it goes on to apply the request.
Listen ==
  /\ pc = "listen"
  /\ \/ /\ queue' = [queue EXCEPT ![Main] = Append(@, Add(Listener))]
        /\ pc' = "handle"
        /\ UNCHANGED process
     \/ /\ AllocMayFail
        /\ process' = "faulted"
        /\ UNCHANGED <<queue, pc>>
  /\ UNCHANGED <<poolVars, threadVars, connVars, owner, watched>>

\* The kernel gives the connection a descriptor that is free.  (An accept that
\* fails changes nothing.)
Accept(c) ==
  /\ pc = "loop"
  /\ FdOf[Listener] \in watched[Main]
  /\ c \notin accepted
  /\ holder[FdOf[c]] = NULL
  /\ accepted' = accepted \cup {c}
  /\ holder' = [holder EXCEPT ![FdOf[c]] = c]
  /\ conn' = c
  /\ pc' = "get_loop"
  /\ UNCHANGED <<poolVars, threadVars, selected, loop_of, data, seen, assigned,
                 loopVars, process>>

\* Slip: the position is not advanced.
thread_pool_get_loop_SameThread ==
  /\ pc = "get_loop"
  /\ selected' = IF thread_number > 0 THEN ev_loop[position] ELSE Main
  /\ assigned' = [assigned EXCEPT ![selected'] = @ + 1]
  /\ pc' = "new"
  /\ UNCHANGED <<poolVars, threadVars, conn, accepted, holder, loop_of, data,
                 seen, loopVars, process>>

\* Slip: the position goes back one connection late.
thread_pool_get_loop_LateWrap ==
  /\ pc = "get_loop"
  /\ IF thread_number > 0
     THEN /\ selected' = ev_loop[position]
          /\ position' = IF position + 1 > thread_number THEN 0 ELSE position + 1
     ELSE selected' = Main /\ UNCHANGED position
  /\ assigned' = [assigned EXCEPT ![selected'] = @ + 1]
  /\ pc' = "new"
  /\ UNCHANGED <<thread_number, ev_loop_threads, i, threadVars, conn, accepted,
                 holder, loop_of, data, seen, loopVars, process>>

\* ev_loop_threads is read through, NULL or not.
thread_pool_get_loop ==
  /\ pc = "get_loop"
  /\ \/ /\ thread_number > 0
        /\ ev_loop_threads = "NULL"
        /\ process' = "faulted"
        /\ UNCHANGED <<position, pc, selected, assigned>>
     \/ /\ thread_number > 0 => ev_loop_threads = "allocated"
        /\ IF thread_number > 0
           THEN /\ selected' = ev_loop[position]
                /\ position' = IF position + 1 >= thread_number THEN 0
                                                               ELSE position + 1
           ELSE selected' = Main /\ UNCHANGED position
        /\ assigned' = IF selected' = NULL THEN assigned
                       ELSE [assigned EXCEPT ![selected'] = @ + 1]
        /\ pc' = "new"
        /\ UNCHANGED process
  /\ UNCHANGED <<thread_number, ev_loop_threads, i, threadVars, conn, accepted,
                 holder, loop_of, data, seen, loopVars>>

\* Without a loop, or when an allocation of tcp_connection_new fails.
Refuse ==
  /\ pc = "new"
  /\ selected = NULL \/ AllocMayFail
  /\ holder' = [holder EXCEPT ![FdOf[conn]] = NULL]
  /\ conn' = NULL
  /\ pc' = "loop"
  /\ UNCHANGED <<poolVars, threadVars, selected, accepted, loop_of, data, seen,
                 assigned, loopVars, process>>

\* Slip: the channel is added to the loop that accepted the connection.
tcp_connection_new_OnMain ==
  /\ pc = "new"
  /\ selected # NULL
  /\ loop_of' = [loop_of EXCEPT ![conn] = selected]
  /\ queue' = [queue EXCEPT ![Main] = Append(@, Add(conn))]
  /\ pc' = "handle"
  /\ UNCHANGED <<poolVars, threadVars, conn, selected, accepted, holder, data,
                 seen, assigned, owner, watched, process>>

\* Builds the connection and ends by adding its channel to its loop: from here
\* on the thread of that loop may run the callbacks.  The element of the loop's
\* list is allocated without a test.
tcp_connection_new ==
  /\ pc = "new"
  /\ selected # NULL
  /\ \/ /\ AllocMayFail
        /\ process' = "faulted"
        /\ UNCHANGED <<loop_of, queue, pc>>
     \/ /\ loop_of' = [loop_of EXCEPT ![conn] = selected]
        /\ queue' = [queue EXCEPT ![selected] = Append(@, Add(conn))]
        /\ pc' = IF selected = Main THEN "handle" ELSE "set_data"
        /\ UNCHANGED process
  /\ UNCHANGED <<poolVars, threadVars, conn, selected, accepted, holder, data,
                 seen, assigned, owner, watched>>

\* event_loop_handle_pending_channel has emptied the main thread's own queue.
HandleEnd ==
  /\ pc = "handle"
  /\ queue[Main] = <<>>
  /\ pc' = IF conn = NULL THEN "loop" ELSE "set_data"
  /\ UNCHANGED <<poolVars, threadVars, connVars, loopVars, process>>

SetData ==
  /\ pc = "set_data"
  /\ data' = [data EXCEPT ![conn] = "set"]
  /\ conn' = NULL
  /\ pc' = "loop"
  /\ UNCHANGED <<poolVars, threadVars, selected, accepted, holder, loop_of, seen,
                 assigned, loopVars, process>>

-----------------------------------------------------------------------------
(* The loops.                                                              *)

\* Slip: the descriptor is watched even if it already has a channel.
Apply_Always(l) ==
  /\ IF l = Main THEN pc \in {"handle", "loop"} ELSE wpc[l] = "loop"
  /\ queue[l] # <<>>
  /\ queue' = [queue EXCEPT ![l] = Tail(@)]
  /\ LET c == Head(queue[l]).chan
     IN /\ owner' = IF owner[l][FdOf[c]] = NULL
                    THEN [owner EXCEPT ![l][FdOf[c]] = c] ELSE owner
        /\ watched' = [watched EXCEPT ![l] = @ \cup {FdOf[c]}]
  /\ UNCHANGED <<poolVars, pc, threadVars, connVars, process>>

\* Slip: the newest request is applied first.
Apply_Newest(l) ==
  /\ IF l = Main THEN pc \in {"handle", "loop"} ELSE wpc[l] = "loop"
  /\ queue[l] # <<>>
  /\ queue' = [queue EXCEPT ![l] = SubSeq(@, 1, Len(@) - 1)]
  /\ LET c == queue[l][Len(queue[l])].chan
     IN IF owner[l][FdOf[c]] = NULL
        THEN /\ owner' = [owner EXCEPT ![l][FdOf[c]] = c]
             /\ watched' = [watched EXCEPT ![l] = @ \cup {FdOf[c]}]
        ELSE UNCHANGED <<owner, watched>>
  /\ UNCHANGED <<poolVars, pc, threadVars, connVars, process>>

\* ChannelQueue's ApplyAdd, by the thread of loop l.
Apply(l) ==
  /\ IF l = Main THEN pc \in {"handle", "loop"} ELSE wpc[l] = "loop"
  /\ queue[l] # <<>>
  /\ queue' = [queue EXCEPT ![l] = Tail(@)]
  /\ LET c == Head(queue[l]).chan
     IN \/ /\ owner[l][FdOf[c]] = NULL
           /\ owner' = [owner EXCEPT ![l][FdOf[c]] = c]
           /\ watched' = [watched EXCEPT ![l] = @ \cup {FdOf[c]}]
        \/ /\ owner[l][FdOf[c]] # NULL \/ AllocMayFail
           /\ UNCHANGED <<owner, watched>>
  /\ UNCHANGED <<poolVars, pc, threadVars, connVars, process>>

Dispatches(l, fd) ==
  /\ IF l = Main THEN pc = "loop" ELSE wpc[l] = "loop"
  /\ fd \in watched[l]
  /\ owner[l][fd] \in Conn

\* handle_read: bytes have come, and the message callback looks at data.
Message(l, fd) ==
  /\ Dispatches(l, fd)
  /\ seen' = [seen EXCEPT ![owner[l][fd]] = data[owner[l][fd]]]
  /\ UNCHANGED <<poolVars, pc, threadVars, conn, selected, accepted, holder,
                 loop_of, data, assigned, loopVars, process>>

\* ChannelQueue's HangUp: the descriptor is closed and free again.
HangUp(l, fd) ==
  /\ Dispatches(l, fd)
  /\ watched' = [watched EXCEPT ![l] = @ \ {fd}]
  /\ holder' = [holder EXCEPT ![fd] = NULL]
  /\ UNCHANGED <<poolVars, pc, threadVars, conn, selected, accepted, loop_of,
                 data, seen, assigned, queue, owner, process>>

-----------------------------------------------------------------------------
Starter ==
  \/ thread_pool_start \/ CreateThread \/ StarterLock \/ StarterTest
  \/ StarterWakes \/ StarterUnlock \/ Listen

Establish ==
  \/ thread_pool_get_loop \/ Refuse \/ tcp_connection_new \/ HandleEnd
  \/ SetData

event_loop_thread_run(w) ==
  RunLock(w) \/ RunInit(w) \/ RunSignal(w) \/ RunUnlock(w) \/ RunLoop(w)

Next ==
  /\ process = "running"
  /\ \/ Starter
     \/ \E c \in Conn : Accept(c)
     \/ Establish
     \/ \E w \in Worker : event_loop_thread_run(w)
     \/ \E l \in Loop : Apply(l)
     \/ \E l \in Loop, fd \in Fd : Message(l, fd) \/ HangUp(l, fd)

Spec == Init /\ [][Next]_vars

(* Fairness: a thread that can run runs, a mutex is not withheld for ever, *)
(* a thread waiting for a condition wakes up once it was signalled, and a  *)
(* loop handles its queue (RequestsAreHandled of EventLoop).  Clients need *)
(* not connect, write or hang up.                                          *)
Fairness ==
  /\ WF_vars(process = "running"
             /\ (thread_pool_start \/ CreateThread \/ StarterTest
                 \/ StarterUnlock \/ Listen \/ Establish))
  /\ SF_vars(process = "running" /\ StarterLock)
  /\ SF_vars(process = "running" /\ signalled /\ StarterWakes)
  /\ \A w \in Worker :
       /\ WF_vars(process = "running"
                  /\ (RunInit(w) \/ RunSignal(w) \/ RunUnlock(w) \/ RunLoop(w)))
       /\ SF_vars(process = "running" /\ RunLock(w))
  /\ \A l \in Loop : WF_vars(process = "running" /\ Apply(l))

FairSpec == Spec /\ Fairness
-----------------------------------------------------------------------------
(* Properties                                                              *)

\* Every variable holds a value of its type.
TypeOK ==
  /\ thread_number \in ThreadNumbers
  /\ ev_loop_threads \in {"NULL", "allocated"}
  /\ position \in Nat /\ (thread_number > 0 => position < thread_number)
  /\ pc \in {"thread_pool_start", "create", "lock", "test", "wait", "unlock",
             "listen", "handle", "loop", "get_loop", "new", "set_data"}
  /\ i \in Nat /\ (thread_number > 0 => i < thread_number)
  /\ wpc \in [Worker -> {"none", "lock", "init", "signal", "unlock",
                         "event_loop_run", "loop"}]
  /\ mutex \in [Worker -> Loop \cup {NULL}]
  /\ ev_loop \in [Worker -> Worker \cup {NULL}]
  /\ signalled \in BOOLEAN
  /\ conn \in Conn \cup {NULL}
  /\ selected \in Loop \cup {NULL}
  /\ accepted \subseteq Conn
  /\ holder \in [Fd -> Conn \cup {NULL}]
  /\ loop_of \in [Conn -> Loop \cup {NULL}]
  /\ data \in [Conn -> {"uninitialized", "set"}]
  /\ seen \in [Conn -> {"nothing", "uninitialized", "set"}]
  /\ assigned \in [Loop -> Nat]
  /\ queue \in [Loop -> Seq([type: {"ADD"}, chan: Channel])]
  /\ owner \in [Loop -> [Fd -> Channel \cup {Wakeup, NULL}]]
  /\ watched \in [Loop -> SUBSET Fd]
  /\ process \in {"running", "aborted", "faulted"}

Serving == pc \in {"listen", "handle", "loop", "get_loop", "new", "set_data"}

\* Once the pool is started each of its threads has a loop of its own, so no
\* connection is ever refused, or handed to nobody, for want of one.
LoopsAreReady ==
  Serving /\ ev_loop_threads = "allocated" =>
    \A w \in Worker : w < thread_number => ev_loop[w] = w

\* The descriptor of a connection is watched by one loop only, the one the
\* connection was given, and the channel found there for it is the channel of
\* the connection whose descriptor it now is, not of an earlier one.
EventsReachTheirConnection ==
  \A l \in Loop : \A fd \in watched[l] :
    owner[l][fd] \in Conn =>
      /\ holder[fd] = owner[l][fd]
      /\ loop_of[holder[fd]] = l

\* The threads share the connections evenly.
Balanced ==
  \A v, w \in Worker :
    v < thread_number /\ w < thread_number => assigned[v] <= assigned[w] + 1

\* The message callback of a connection finds the data of its server in it.
DataBeforeMessages == \A c \in Conn : seen[c] # "uninitialized"

\* The server uses each loop as a ChannelQueue.
UsesChannelQueues ==
  /\ \A l \in Loop : Q(l)!QueueInit
  /\ [][\A l \in Loop : [Q(l)!QueueNext]_(Q(l)!qvars)]_loopVars

Queued(l, c) == \E n \in 1 .. Len(queue[l]) : queue[l][n].chan = c

\* The server gets to accept connections, whatever the order in which its
\* threads start and whatever spurious wakeups come: the main thread waits for
\* ever only for a thread that could not be created, and nothing but a failed
\* allocation ends the process before.
Starts ==
  <>(\/ pc = "loop"
     \/ process # "running" /\ AllocMayFail
     \/ pc \in {"lock", "test", "wait"} /\ wpc[i] = "none")

\* The request of c has been handled without its descriptor being watched by
\* any loop: the map could not grow, or has the entry of an earlier connection.
Dropped(c) ==
  /\ loop_of[c] # NULL
  /\ ~Queued(loop_of[c], c)
  /\ owner[loop_of[c]][FdOf[c]] # c
  /\ owner[loop_of[c]][FdOf[c]] = NULL => AllocMayFail
  /\ \A l \in Loop : FdOf[c] \notin watched[l]

\* Every connection accepted comes to be watched by the loop it was given,
\* unless it is refused or closed before, or dropped.
AcceptedIsServed ==
  \A c \in Conn :
    holder[FdOf[c]] = c ~>
      \/ holder[FdOf[c]] # c
      \/ loop_of[c] # NULL /\ FdOf[c] \in watched[loop_of[c]]
      \/ Dropped(c)
      \/ process # "running"
-----------------------------------------------------------------------------
(* The inductive invariant behind LoopsAreReady and                        *)
(* EventsReachTheirConnection.                                             *)

Starting == pc \in {"create", "lock", "test", "wait", "unlock"}

\* The threads before the one being started have their loops.
StartInv ==
  /\ \A w \in Worker : ev_loop[w] \in {w, NULL}
  /\ Starting => /\ ev_loop_threads = "allocated"
                 /\ 0 <= i /\ i < thread_number
                 /\ \A w \in Worker : w < i => ev_loop[w] = w
  /\ pc = "unlock" => ev_loop[i] = i
  /\ pc = "thread_pool_start" => ev_loop_threads = "NULL" /\ i = 0

Unwatched(fd) == \A l \in Loop : fd \notin watched[l]

\* A connection between accept and event_loop_add_channel_event has an open
\* descriptor and no loop, and nobody watches the descriptor.
EstablishInv ==
  pc \in {"get_loop", "new"} =>
    /\ conn \in Conn
    /\ holder[FdOf[conn]] = conn
    /\ loop_of[conn] = NULL
    /\ Unwatched(FdOf[conn])

\* A connection waiting in a queue waits in that of its loop, once, and has an
\* open descriptor, which nobody watches.
QueuedInv ==
  \A l \in Loop, c \in Conn : Queued(l, c) =>
    /\ holder[FdOf[c]] = c
    /\ loop_of[c] = l
    /\ Unwatched(FdOf[c])
    /\ \A m, n \in 1 .. Len(queue[l]) :
         queue[l][m].chan = c /\ queue[l][n].chan = c => m = n

\* A descriptor is only held by its own connections, and a connection that was
\* not accepted has neither a loop nor a descriptor.
HolderInv ==
  /\ \A fd \in Fd : holder[fd] # NULL =>
       FdOf[holder[fd]] = fd /\ holder[fd] \in accepted
  /\ \A c \in Conn : loop_of[c] # NULL => c \in accepted

\* In the map of a loop the entry of a connection's descriptor is a connection
\* with that descriptor or NULL, and not NULL while it is watched.
OwnerInv ==
  \A l \in Loop, c \in Conn :
    /\ owner[l][FdOf[c]] \in Conn \cup {NULL}
    /\ FdOf[c] \in watched[l] => owner[l][FdOf[c]] \in Conn

OwnersFd ==
  \A l \in Loop, fd \in Fd : owner[l][fd] \in Conn => FdOf[owner[l][fd]] = fd

Inv ==
  /\ TypeOK
  /\ StartInv
  /\ EstablishInv
  /\ QueuedInv
  /\ HolderInv
  /\ OwnerInv
  /\ OwnersFd
  /\ LoopsAreReady
  /\ EventsReachTheirConnection

\* Behind Balanced: the threads before the one whose turn it is have been
\* handed one connection more than the last one, the others as many.
SharesInv ==
  \A w \in Worker : w < thread_number =>
    assigned[w] = assigned[thread_number - 1] + IF w < position THEN 1 ELSE 0
=============================================================================
