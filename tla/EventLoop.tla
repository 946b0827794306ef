------------------------------ MODULE EventLoop ------------------------------
(***************************************************************************)
(* One event loop of lib/event_loop.c over lib/epoll_dispatcher.c: the     *)
(* thread that owns it runs event_loop_run, and any thread may call        *)
(* event_loop_{add,remove,update}_channel_event on it.  Every              *)
(* pthread_mutex call, every element of the pending list, every epoll      *)
(* event and every read or write of the wakeup socket is a step of its     *)
(* own.  The model starts when event_loop_init_with_name has returned.     *)
(***************************************************************************)
EXTENDS Naturals, Sequences

CONSTANTS
  Owner,          \* the thread with owner_thread_id
  Poster,         \* the other threads that call the loop's functions
  Channel,        \* the channels given to the loop
  Fd,             \* file descriptors
  FdOf,           \* chan->fd
  WakeFd,         \* socket_pair[1]
  WakeChan,       \* its channel
  NULL,           \* no thread, no channel
  Removable,      \* the channels some caller may remove
  Updated,        \* the channels some caller may update
  Sending,        \* the channels whose connection sends more than fits
  MapSizes,       \* the values map->nentries can take: 32, 64, 128, ...
  MaxEvents,      \* MAXEVENTS
  SocketPairRoom, \* how many wakeup bytes the socket pair holds
  Failing         \* the channels for which malloc and realloc may return NULL

Thread == Poster \cup {Owner}
Event == {"EVENT_READ", "EVENT_WRITE"}
EpollEvent == {"EPOLLIN", "EPOLLOUT"}

ASSUME ConstantsAssumption ==
  /\ Owner \notin Poster
  /\ NULL \notin Thread \cup Channel \cup {WakeChan}
  /\ WakeChan \notin Channel
  /\ Fd \subseteq Nat
  /\ WakeFd \in Fd
  /\ FdOf \in [Channel -> Fd \ {WakeFd}]
  /\ Removable \subseteq Channel
  /\ Updated \subseteq Channel
  /\ Sending \subseteq Channel
  /\ MaxEvents \in Nat \ {0}
  /\ SocketPairRoom \in Nat \ {0}
  /\ Failing \subseteq Channel

\* map_make_space doubles nentries until it exceeds the slot: the result is
\* the least size of the doubling sequence above the slot, and there is one.
ASSUME MapSizesAssumption ==
  /\ MapSizes \subseteq Nat \ {0}
  /\ \A fd \in Fd : \E s \in MapSizes :
       s > fd /\ \A t \in MapSizes : t > fd => s <= t

VARIABLES
  pc,                \* pc[t]: where thread t is
  caller,            \* who called event_loop_handle_pending_channel
  request,           \* request[t]: the arguments of t's current call
  mutex,             \* the holder of ev_loop->mutex
  is_handle_pending,
  pending,           \* the list from pending_head to pending_tail
  chan_elem,         \* position of the walk over that list, 0 outside it
  socket_pair,       \* wakeup bytes written and not yet read
  entries,           \* map->entries
  nentries,          \* map->nentries
  events,            \* events[c]: chan->events
  interest,          \* the kernel's epoll set: interest[fd] = {} if not in it
  batch,             \* events epoll_wait returned and not yet dispatched
  holder,            \* holder[fd]: the channel whose descriptor fd is, if open
  stage,             \* stage[c]: what its callers have done with c so far
  process            \* "running", "aborted" (assert) or "faulted" (SIGSEGV)

vars == <<pc, caller, request, mutex, is_handle_pending, pending, chan_elem,
          socket_pair, entries, nentries, events, interest, batch, holder,
          stage, process>>

\* What the requests amount to for a caller: those the walk has not reached,
\* and the descriptors in the kernel's set.
queue == IF is_handle_pending = 1 THEN SubSeq(pending, chan_elem, Len(pending))
                                  ELSE pending
watched == {fd \in Fd : interest[fd] # {}}

Q == INSTANCE ChannelQueue WITH owner <- entries

Request == Q!Request

\* Slips, one per property, are defined before the definition they are a slip
\* in and used nowhere: with the slip in its place, the property fails.
\* Slip: the EVENT_ bits are handed to epoll_ctl untranslated.
epoll_events_Raw(evs) == evs

\* The event bits epoll_add, epoll_del and epoll_update hand to epoll_ctl.
epoll_events(evs) ==
  {IF e = "EVENT_READ" THEN "EPOLLIN" ELSE "EPOLLOUT" : e \in evs}

\* Slip: growing stops at the slot, not above it.
map_make_space_Short(slot) ==
  CHOOSE s \in MapSizes : s >= slot /\ \A t \in MapSizes : t >= slot => s <= t

map_make_space(slot) ==
  CHOOSE s \in MapSizes : s > slot /\ \A t \in MapSizes : t > slot => s <= t

Init ==
  /\ pc = [t \in Thread |-> IF t = Owner THEN "epoll_wait" ELSE "idle"]
  /\ caller = "event_loop_run"
  /\ request = [t \in Thread |-> NULL]
  /\ mutex = NULL
  /\ is_handle_pending = 0
  /\ pending = <<>>
  /\ chan_elem = 0
  /\ socket_pair = 0
  /\ entries = [fd \in Fd |-> IF fd = WakeFd THEN WakeChan ELSE NULL]
  /\ nentries = map_make_space(WakeFd)
  /\ events = [c \in Channel |-> {"EVENT_READ"}]
  /\ interest = [fd \in Fd |-> IF fd = WakeFd THEN {"EPOLLIN"} ELSE {}]
  /\ batch = <<>>
  /\ holder = [fd \in Fd |-> IF fd = WakeFd THEN WakeChan ELSE NULL]
  /\ stage = [c \in Channel |-> "new"]
  /\ process = "running"

Goto(t, l) == pc' = [pc EXCEPT ![t] = l]

loopVars == <<caller, mutex, is_handle_pending, pending, chan_elem>>
mapVars == <<entries, nentries, interest>>
clientVars == <<request, events, holder, stage>>
-----------------------------------------------------------------------------
(* The calls: event_loop_{add,remove,update}_channel_event.                *)

Calls(t, type, c) ==
  /\ request' = [request EXCEPT ![t] = [type |-> type, chan |-> c]]
  /\ Goto(t, "lock")

\* The channel of a descriptor that was just opened (accept, socket) is added.
AddCall(t, c) ==
  /\ stage[c] \in {"new", "open"}
  /\ stage[c] = "new" => holder[FdOf[c]] = NULL
  /\ holder' = [holder EXCEPT ![FdOf[c]] = c]
  /\ stage' = [stage EXCEPT ![c] = "adding"]
  /\ Calls(t, "ADD", c)
  /\ UNCHANGED events

\* A channel is removed once, after it was added.
RemoveCall(t, c) ==
  /\ c \in Removable
  /\ stage[c] = "added"
  /\ stage' = [stage EXCEPT ![c] = "removed"]
  /\ Calls(t, "REMOVE", c)
  /\ UNCHANGED <<holder, events>>

\* What is done with a channel is done once its descriptor is open.
Opened(c) ==
  \/ /\ stage[c] = "new"
     /\ holder[FdOf[c]] = NULL
     /\ holder' = [holder EXCEPT ![FdOf[c]] = c]
     /\ stage' = [stage EXCEPT ![c] = "open"]
  \/ stage[c] # "new" /\ UNCHANGED <<holder, stage>>

\* A caller that knows the loop of a channel changes the events the channel
\* asks for and says so to the loop, at any time.
UpdateCall(t, c) ==
  /\ c \in Updated
  /\ Opened(c)
  /\ \E evs \in {{"EVENT_READ"}, Event} : events' = [events EXCEPT ![c] = evs]
  /\ Calls(t, "UPDATE", c)

\* channel.c calls event_loop_update_channel_event on chan->data as on a loop,
\* but chan->data is the connection: thread t locks a mutex that is none, and
\* waits for ever, or fails the assertion that follows on what is no flag.  No
\* loop hears of the request.
CallsOnData(t, c) ==
  /\ request' = [request EXCEPT ![t] = [type |-> "UPDATE", chan |-> c]]
  /\ Goto(t, "astray")
  /\ process' \in {"running", "aborted"}

\* Called by a connection with data left to send.
channel_write_event_enable(t, c) ==
  /\ c \in Sending
  /\ "EVENT_WRITE" \notin events[c]
  /\ Opened(c)
  /\ events' = [events EXCEPT ![c] = @ \cup {"EVENT_WRITE"}]
  /\ CallsOnData(t, c)

\* Called by a connection that has sent all.
channel_write_event_disable(t, c) ==
  /\ c \in Sending
  /\ Opened(c)
  /\ events' = [events EXCEPT ![c] = @ \ {"EVENT_WRITE"}]
  /\ CallsOnData(t, c)

\* The thread that accepts completes a connection, and may send on it, before
\* it adds its channel.
PosterCall(t) ==
  /\ pc[t] = "idle"
  /\ \E c \in Channel :
       \/ /\ AddCall(t, c) \/ RemoveCall(t, c) \/ UpdateCall(t, c)
          /\ UNCHANGED process
       \/ stage[c] \in {"new", "open"} /\ channel_write_event_enable(t, c)
  /\ UNCHANGED <<loopVars, mapVars, socket_pair, batch>>

-----------------------------------------------------------------------------
(* event_loop_do_channel_event                                             *)

\* Slip: the mutex is not waited for.
Lock_NoWait(t) ==
  /\ pc[t] = "lock"
  /\ mutex' = t
  /\ Goto(t, "buffer")
  /\ UNCHANGED <<caller, is_handle_pending, pending, chan_elem, mapVars,
                 clientVars, socket_pair, batch, process>>

Lock(t) ==
  /\ pc[t] = "lock"
  /\ mutex = NULL
  /\ mutex' = t
  /\ Goto(t, "buffer")
  /\ UNCHANGED <<caller, is_handle_pending, pending, chan_elem, mapVars,
                 clientVars, socket_pair, batch, process>>

\* assert(is_handle_pending == 0), then event_loop_channel_buffer_nolock,
\* which writes through the result of malloc without testing it.
Buffer(t) ==
  /\ pc[t] = "buffer"
  /\ \/ /\ is_handle_pending # 0
        /\ process' = "aborted"
        /\ UNCHANGED <<pc, pending, stage>>
     \/ /\ is_handle_pending = 0
        /\ request[t].chan \in Failing
        /\ process' = "faulted"
        /\ UNCHANGED <<pc, pending, stage>>
     \/ /\ is_handle_pending = 0
        /\ pending' = Append(pending, request[t])
        /\ stage' = IF request[t].type = "ADD"
                    THEN [stage EXCEPT ![request[t].chan] = "added"]
                    ELSE stage
        /\ Goto(t, "unlock")
        /\ UNCHANGED process
  /\ UNCHANGED <<caller, mutex, is_handle_pending, chan_elem, mapVars,
                 request, events, holder, socket_pair, batch>>

\* Slip: another thread leaves without waking the owner.
Unlock_NoWakeup(t) ==
  /\ pc[t] = "unlock"
  /\ mutex' = NULL
  /\ Goto(t, IF t = Owner THEN "hp_lock" ELSE "idle")
  /\ caller' = IF t = Owner THEN "event_loop_do_channel_event" ELSE caller
  /\ UNCHANGED <<is_handle_pending, pending, chan_elem, mapVars, clientVars,
                 socket_pair, batch, process>>

\* The owner goes on to handle the list itself, another thread to wake it.
Unlock(t) ==
  /\ pc[t] = "unlock"
  /\ mutex' = NULL
  /\ IF t = Owner
     THEN Goto(t, "hp_lock") /\ caller' = "event_loop_do_channel_event"
     ELSE Goto(t, "wakeup") /\ UNCHANGED caller
  /\ UNCHANGED <<is_handle_pending, pending, chan_elem, mapVars, clientVars,
                 socket_pair, batch, process>>

\* The socket is blocking: the write waits for room.
event_loop_wakeup(t) ==
  /\ pc[t] = "wakeup"
  /\ socket_pair < SocketPairRoom
  /\ socket_pair' = socket_pair + 1
  /\ Goto(t, "idle")
  /\ UNCHANGED <<loopVars, mapVars, clientVars, batch, process>>

-----------------------------------------------------------------------------
(* event_loop_handle_pending_channel                                       *)

HandlePendingLock ==
  /\ pc[Owner] = "hp_lock"
  /\ mutex = NULL
  /\ mutex' = Owner
  /\ Goto(Owner, "hp_begin")
  /\ UNCHANGED <<caller, is_handle_pending, pending, chan_elem, mapVars,
                 clientVars, socket_pair, batch, process>>

HandlePendingBegin ==
  /\ pc[Owner] = "hp_begin"
  /\ is_handle_pending' = 1
  /\ chan_elem' = 1
  /\ Goto(Owner, "hp_walk")
  /\ UNCHANGED <<caller, mutex, pending, mapVars, clientVars, socket_pair,
                 batch, process>>

\* Slip: a map that has just grown is not given the channel.
event_loop_handle_pending_add_GrowOnly(c) ==
  LET fd == FdOf[c]
  IN /\ UNCHANGED process
     /\ nentries' = IF fd >= nentries THEN map_make_space(fd) ELSE nentries
     /\ IF fd < nentries /\ entries[fd] = NULL
        THEN /\ entries' = [entries EXCEPT ![fd] = c]
             /\ interest' = [interest EXCEPT ![fd] = epoll_events(events[c])]
        ELSE UNCHANGED <<entries, interest>>

\* Slip: a channel already in the map is replaced.
event_loop_handle_pending_add_Replace(c) ==
  LET fd == FdOf[c]
  IN /\ UNCHANGED process
     /\ nentries' = IF fd >= nentries THEN map_make_space(fd) ELSE nentries
     /\ entries' = [entries EXCEPT ![fd] = c]
     /\ interest' = [interest EXCEPT ![fd] = epoll_events(events[c])]

event_loop_handle_pending_add(c) ==
  LET fd == FdOf[c]
  IN /\ UNCHANGED process
     /\ \/ /\ fd >= nentries
           /\ c \in Failing
           /\ UNCHANGED mapVars
        \/ /\ nentries' = IF fd >= nentries THEN map_make_space(fd)
                                            ELSE nentries
           /\ \/ /\ entries[fd] = NULL
                 /\ entries' = [entries EXCEPT ![fd] = c]
                 \* EPOLL_CTL_ADD refuses a descriptor it already has.
                 /\ interest' = IF interest[fd] = {}
                                THEN [interest EXCEPT
                                        ![fd] = epoll_events(events[c])]
                                ELSE interest
              \/ /\ entries[fd] # NULL
                 /\ UNCHANGED <<entries, interest>>

\* Slip: the descriptor stays in the epoll set.
event_loop_handle_pending_remove_MapOnly(c) ==
  /\ FdOf[c] < nentries
  /\ entries' = [entries EXCEPT ![FdOf[c]] = NULL]
  /\ UNCHANGED <<nentries, interest, process>>

\* epoll_del reads the fd of the channel found in the map, which may be NULL.
event_loop_handle_pending_remove(c) ==
  LET fd == FdOf[c]
  IN \/ /\ fd >= nentries
        /\ UNCHANGED <<mapVars, process>>
     \/ /\ fd < nentries
        /\ entries[fd] = NULL
        /\ process' = "faulted"
        /\ UNCHANGED mapVars
     \/ /\ fd < nentries
        /\ entries[fd] # NULL
        /\ entries' = [entries EXCEPT ![fd] = NULL]
        /\ interest' = [interest EXCEPT ![fd] = {}]
        /\ UNCHANGED <<nentries, process>>

\* There is no test of fd against nentries: beyond the map the read is out of
\* bounds, and faults or finds anything.  EPOLL_CTL_MOD refuses a descriptor
\* that is not in the set, as none beyond the map is.
event_loop_handle_pending_update(c) ==
  LET fd == FdOf[c]
  IN \/ /\ fd >= nentries
        /\ process' \in {"running", "faulted"}
        /\ UNCHANGED mapVars
     \/ /\ fd < nentries
        /\ interest' = IF entries[fd] # NULL /\ interest[fd] # {}
                       THEN [interest EXCEPT ![fd] = epoll_events(events[c])]
                       ELSE interest
        /\ UNCHANGED <<entries, nentries, process>>

HandlePendingElement ==
  /\ pc[Owner] = "hp_walk"
  /\ chan_elem <= Len(pending)
  /\ LET r == pending[chan_elem]
     IN \/ r.type = "ADD" /\ event_loop_handle_pending_add(r.chan)
        \/ r.type = "REMOVE" /\ event_loop_handle_pending_remove(r.chan)
        \/ r.type = "UPDATE" /\ event_loop_handle_pending_update(r.chan)
  /\ chan_elem' = IF process' = "running" THEN chan_elem + 1 ELSE chan_elem
  /\ UNCHANGED <<pc, caller, mutex, is_handle_pending, pending, clientVars,
                 socket_pair, batch>>

\* Slip: the walk stops at the last element instead of after it.
HandlePendingEnd_Early ==
  /\ pc[Owner] = "hp_walk"
  /\ chan_elem >= Len(pending)
  /\ pending' = <<>>
  /\ is_handle_pending' = 0
  /\ Goto(Owner, "hp_unlock")
  /\ chan_elem' = 0
  /\ UNCHANGED <<caller, mutex, mapVars, clientVars, socket_pair, batch,
                 process>>

HandlePendingEnd ==
  /\ pc[Owner] = "hp_walk"
  /\ chan_elem > Len(pending)
  /\ pending' = <<>>
  /\ is_handle_pending' = 0
  /\ Goto(Owner, "hp_unlock")
  /\ chan_elem' = 0
  /\ UNCHANGED <<caller, mutex, mapVars, clientVars, socket_pair, batch,
                 process>>

\* Slip: the mutex is not released.
HandlePendingUnlock_Kept ==
  /\ pc[Owner] = "hp_unlock"
  /\ Goto(Owner, IF caller = "event_loop_run" THEN "epoll_wait"
                                              ELSE "dispatch")
  /\ UNCHANGED <<caller, mutex, is_handle_pending, pending, chan_elem, mapVars,
                 clientVars, socket_pair, batch, process>>

HandlePendingUnlock ==
  /\ pc[Owner] = "hp_unlock"
  /\ mutex' = NULL
  /\ Goto(Owner, IF caller = "event_loop_run" THEN "epoll_wait"
                                              ELSE "dispatch")
  /\ UNCHANGED <<caller, is_handle_pending, pending, chan_elem, mapVars,
                 clientVars, socket_pair, batch, process>>
-----------------------------------------------------------------------------
(* event_loop_run: epoll_dispatch, then event_loop_handle_pending_channel. *)

\* What epoll_wait may report of a registered fd: the wakeup socket is readable
\* exactly when it holds a byte; of another descriptor the peer decides.
\* EPOLLERR and EPOLLHUP are handled alike, whatever comes with them.
Reports(fd) ==
  IF fd = WakeFd
  THEN IF socket_pair > 0 THEN {{"EPOLLIN"}} ELSE {}
  ELSE (SUBSET interest[fd] \ {{}}) \cup {{"EPOLLHUP"}}

\* Up to MaxEvents of the descriptors with something to report, in any order;
\* the wakeup socket, when readable, is left out only for want of room.
EpollWait ==
  /\ pc[Owner] = "epoll_wait"
  /\ \E n \in 1 .. MaxEvents :
     \E order \in [1 .. n -> watched] :
       /\ \A i, j \in 1 .. n : order[i] = order[j] => i = j
       /\ \/ n = MaxEvents
          \/ socket_pair = 0
          \/ \E i \in 1 .. n : order[i] = WakeFd
       /\ \E report \in [1 .. n -> SUBSET (EpollEvent \cup {"EPOLLHUP"})] :
            /\ \A i \in 1 .. n : report[i] \in Reports(order[i])
            /\ batch' = [i \in 1 .. n |->
                           [fd |-> order[i], events |-> report[i]]]
  /\ Goto(Owner, "dispatch")
  /\ UNCHANGED <<loopVars, mapVars, clientVars, socket_pair, process>>

\* A hung-up descriptor is closed, which takes it out of the epoll set; its
\* map entry stays.
DispatchHangUp ==
  /\ pc[Owner] = "dispatch"
  /\ batch # <<>>
  /\ "EPOLLHUP" \in Head(batch).events
  /\ interest' = [interest EXCEPT ![Head(batch).fd] = {}]
  /\ holder' = [holder EXCEPT ![Head(batch).fd] = NULL]
  /\ batch' = Tail(batch)
  /\ UNCHANGED <<pc, loopVars, entries, nentries, request, events, stage,
                 socket_pair, process>>

handle_wakeup ==
  /\ socket_pair > 0
  /\ socket_pair' = socket_pair - 1
  /\ UNCHANGED <<pc, clientVars, process>>

\* A callback makes at most one call on the loop it runs in: it adds a channel
\* (the acceptor of a server without threads), removes or updates one; or it
\* asks for write events, or, when it was called to write, gives them up.
Callback(c, bit) ==
  /\ \/ UNCHANGED <<pc, clientVars, process>>
     \/ /\ \E d \in Channel : \/ AddCall(Owner, d)
                             \/ RemoveCall(Owner, d)
                             \/ UpdateCall(Owner, d)
        /\ UNCHANGED process
     \/ channel_write_event_enable(Owner, c)
     \/ bit = "EPOLLOUT" /\ channel_write_event_disable(Owner, c)
  /\ UNCHANGED socket_pair

channel_event_activate(fd, bit) ==
  \/ /\ fd >= nentries
     /\ UNCHANGED <<pc, clientVars, socket_pair, process>>
  \/ /\ fd < nentries
     /\ entries[fd] = NULL
     /\ process' = "faulted"
     /\ UNCHANGED <<pc, clientVars, socket_pair>>
  \/ /\ fd < nentries
     /\ entries[fd] = WakeChan
     /\ handle_wakeup
  \/ /\ fd < nentries
     /\ entries[fd] \in Channel
     /\ Callback(entries[fd], bit)

\* EPOLLIN first, then EPOLLOUT of the same event.
DispatchEvent ==
  /\ pc[Owner] = "dispatch"
  /\ batch # <<>>
  /\ "EPOLLHUP" \notin Head(batch).events
  /\ LET e == Head(batch)
         bit == IF "EPOLLIN" \in e.events THEN "EPOLLIN" ELSE "EPOLLOUT"
     IN /\ channel_event_activate(e.fd, bit)
        /\ batch' = IF process' # "running" THEN batch
                    ELSE IF e.events = {bit} THEN Tail(batch)
                    ELSE <<[e EXCEPT !.events = @ \ {bit}]>> \o Tail(batch)
  /\ UNCHANGED <<loopVars, mapVars>>

DispatchEnd ==
  /\ pc[Owner] = "dispatch"
  /\ batch = <<>>
  /\ caller' = "event_loop_run"
  /\ Goto(Owner, "hp_lock")
  /\ UNCHANGED <<mutex, is_handle_pending, pending, chan_elem, mapVars,
                 clientVars, socket_pair, batch, process>>

-----------------------------------------------------------------------------
ThreadStep(t) == Lock(t) \/ Buffer(t) \/ Unlock(t) \/ event_loop_wakeup(t)

HandlePending ==
  \/ HandlePendingLock \/ HandlePendingBegin \/ HandlePendingElement
  \/ HandlePendingEnd \/ HandlePendingUnlock

Dispatch == EpollWait \/ DispatchHangUp \/ DispatchEvent \/ DispatchEnd

Next ==
  /\ process = "running"
  /\ \/ \E t \in Poster : PosterCall(t)
     \/ \E t \in Thread : ThreadStep(t)
     \/ HandlePending
     \/ Dispatch

Spec == Init /\ [][Next]_vars

(* Fairness: a thread that can run runs; the mutex is not withheld for     *)
(* ever from a thread that waits for it while others take and release it;  *)
(* epoll_wait returns when the wakeup socket is readable, and, as the      *)
(* kernel takes the descriptors that are ready in turn, does not leave it  *)
(* out of full batches for ever.  Nothing is assumed of the peers (what    *)
(* else epoll_wait reports) nor of the callers.                            *)
EpollWaitWakeup ==
  /\ socket_pair > 0
  /\ EpollWait
  /\ \E n \in 1 .. Len(batch') : batch'[n].fd = WakeFd

Fairness ==
  /\ \A t \in Thread :
       /\ WF_vars(process = "running"
                  /\ (Buffer(t) \/ Unlock(t) \/ event_loop_wakeup(t)))
       /\ SF_vars(process = "running" /\ Lock(t))
  /\ SF_vars(process = "running" /\ HandlePendingLock)
  /\ WF_vars(process = "running"
             /\ (HandlePendingBegin \/ HandlePendingElement
                 \/ HandlePendingEnd \/ HandlePendingUnlock))
  /\ SF_vars(process = "running" /\ EpollWaitWakeup)
  /\ WF_vars(process = "running"
             /\ (DispatchHangUp \/ DispatchEvent \/ DispatchEnd))

FairSpec == Spec /\ Fairness
-----------------------------------------------------------------------------
(* Properties                                                              *)

\* Every variable holds a value of its type.
TypeOK ==
  /\ pc \in [Thread -> {"idle", "lock", "buffer", "unlock", "wakeup",
                        "epoll_wait", "dispatch", "hp_lock", "hp_begin",
                        "hp_walk", "hp_unlock", "astray"}]
  /\ caller \in {"event_loop_run", "event_loop_do_channel_event"}
  /\ request \in [Thread -> Request \cup {NULL}]
  /\ mutex \in Thread \cup {NULL}
  /\ is_handle_pending \in {0, 1}
  /\ pending \in Seq(Request)
  /\ chan_elem \in Nat
  /\ socket_pair \in Nat
  /\ entries \in [Fd -> Channel \cup {WakeChan, NULL}]
  /\ nentries \in MapSizes
  /\ events \in [Channel -> SUBSET Event]
  /\ interest \in [Fd -> SUBSET EpollEvent]
  /\ batch \in Seq([fd: Fd, events: SUBSET (EpollEvent \cup {"EPOLLHUP"})])
  /\ holder \in [Fd -> Channel \cup {WakeChan, NULL}]
  /\ stage \in [Channel -> {"new", "open", "adding", "added", "removed"}]
  /\ process \in {"running", "aborted", "faulted"}

InCriticalSection(t) ==
  pc[t] \in {"buffer", "unlock", "hp_begin", "hp_walk", "hp_unlock"}

\* The pending list and its flag are only touched by the thread that holds the
\* mutex, and the assertion of event_loop_do_channel_event (a thread that
\* queues a request never finds a walk over the list going on) cannot fail.
ListIsProtected ==
  /\ \A t \in Thread : InCriticalSection(t) => mutex = t
  /\ \A t \in Thread : pc[t] = "buffer" => is_handle_pending = 0

\* While the owner is blocked in epoll_wait with requests pending, a wakeup
\* byte is in the socket or the thread that will write it is on its way.
NoLostWakeup ==
  pc[Owner] = "epoll_wait" /\ pending # <<>> =>
    socket_pair > 0 \/ \E t \in Poster : pc[t] \in {"unlock", "wakeup"}

\* A descriptor epoll can report an event for is inside the map and has a
\* channel there, the channel of that descriptor: channel_event_activate finds
\* a channel and its assertion holds when the event was just reported.
WatchedHasChannel ==
  \A fd \in Fd : interest[fd] # {} =>
    /\ fd < nentries
    /\ entries[fd] # NULL
    /\ entries[fd] \in Channel => FdOf[entries[fd]] = fd

Queued(c) ==
  \E i \in 1 .. Len(pending) : pending[i].type = "ADD" /\ pending[i].chan = c

\* A channel whose request to be added has been handled, and whose descriptor
\* is still open, is in the map and in the epoll set.
AddedIsWatched ==
  \A c \in Channel :
    stage[c] = "added" /\ holder[FdOf[c]] = c /\ ~Queued(c) =>
      entries[FdOf[c]] = c /\ interest[FdOf[c]] # {}

\* The same, but for a channel whose descriptor another channel had before and
\* still has in the map: the stale entry is the only reason for which a channel
\* that was added goes unwatched.
AddedIsWatchedOrHidden ==
  \A c \in Channel :
    stage[c] = "added" /\ holder[FdOf[c]] = c /\ ~Queued(c) =>
      \/ entries[FdOf[c]] = c /\ interest[FdOf[c]] # {}
      \/ \E d \in Channel \ {c} :
           /\ entries[FdOf[c]] = d /\ FdOf[d] = FdOf[c]
           /\ stage[d] = "added"

\* Requests are applied one at a time, in the order they were queued, none
\* lost and none twice, and the map and the epoll set change in no other way
\* than by them and by hang-ups.
ImplementsChannelQueue == Q!QueueSpec

\* A request about c that thread t is about to queue, that is element i of the
\* list, and one or the other as long as the walk has not reached it.
InHand(t, type, c) ==
  pc[t] \in {"lock", "buffer"} /\ request[t].type = type /\ request[t].chan = c
InList(i, type, c) == pending[i].type = type /\ pending[i].chan = c
ToApply == (IF pc[Owner] = "hp_walk" THEN chan_elem ELSE 1) .. Len(pending)
OnItsWay(type, c) ==
  \/ \E t \in Thread : InHand(t, type, c)
  \/ \E i \in ToApply : InList(i, type, c)

\* A request about c that has been made, and applied.
Applied(type, c) ==
  /\ stage[c] \in (IF type = "ADD" THEN {"added", "removed"} ELSE {"removed"})
  /\ ~OnItsWay(type, c)

\* What the walk can stumble over: the removal of a channel whose entry the
\* removal of another channel of that descriptor has emptied, the update of a
\* channel that the loop does not have yet, or either for a channel whose
\* addition may have been dropped because the map could not grow for it.
StumblesOver(r) ==
  \/ /\ r.type = "REMOVE"
     /\ \/ r.chan \in Failing
        \/ \E d \in Channel \ {r.chan} :
             FdOf[d] = FdOf[r.chan] /\ Applied("REMOVE", d)
  \/ /\ r.type = "UPDATE"
     /\ r.chan \in Failing \/ ~Applied("ADD", r.chan)

\* What ends a loop, complete.  A thread goes astray, or the program aborts,
\* only in a request for write events through chan->data: the assertion of
\* event_loop_do_channel_event holds for all others.  It faults only where a
\* request is queued with a malloc that fails, in the walk over one of the
\* requests above, or in the dispatch of an event that was reported before its
\* channel was removed.
FailsOnlyForCause ==
  /\ \A t \in Thread : pc[t] = "astray" =>
       request[t].type = "UPDATE" /\ request[t].chan \in Sending
  /\ process = "aborted" => \E t \in Thread : pc[t] = "astray"
  /\ process = "faulted" =>
       \/ \E t \in Thread : pc[t] = "buffer" /\ request[t].chan \in Failing
       \/ pc[Owner] = "hp_walk" /\ StumblesOver(pending[chan_elem])
       \/ /\ pc[Owner] = "dispatch"
          /\ \E d \in Channel :
               FdOf[d] = Head(batch).fd /\ Applied("REMOVE", d)

\* Every call of another thread on a loop returns (one through chan->data may
\* not), and every queued request is eventually handled.
CallsReturn == \A t \in Poster : pc[t] # "idle" ~> pc[t] = "idle"
RequestsAreHandled == pending # <<>> ~> pending = <<>>
-----------------------------------------------------------------------------
(* The inductive invariant behind the safety properties above.             *)

\* Which steps are whose: only the owner walks the list and dispatches, only
\* the other threads write to the wakeup socket.
StepsOfThreads ==
  /\ pc[Owner] \notin {"idle", "wakeup"}
  /\ \A t \in Poster :
       pc[t] \in {"idle", "lock", "buffer", "unlock", "wakeup", "astray"}
  /\ \A t \in Thread :
       pc[t] \in {"lock", "buffer", "astray"} => request[t] \in Request

\* The flag is up exactly during the walk, which stays inside the list, and
\* the list is empty from the end of the walk until the mutex is released.
WalkInv ==
  /\ is_handle_pending = 1 <=> pc[Owner] = "hp_walk"
  /\ pc[Owner] = "hp_walk" => chan_elem \in 1 .. Len(pending) + 1
  /\ pc[Owner] = "hp_unlock" => pending = <<>>

\* A map entry is NULL or the channel of its descriptor, nothing beyond the
\* size of the map is used, and the wakeup channel never leaves its own entry.
MapInv ==
  /\ \A fd \in Fd : entries[fd] # NULL => fd < nentries
  /\ \A fd \in Fd : entries[fd] \in Channel => FdOf[entries[fd]] = fd
  /\ \A fd \in Fd : entries[fd] = WakeChan <=> fd = WakeFd

\* Every channel asks for some event, and the wakeup socket never hangs up.
EventsInv ==
  /\ \A c \in Channel : "EVENT_READ" \in events[c]
  /\ \A i \in 1 .. Len(batch) :
       batch[i].fd = WakeFd => "EPOLLHUP" \notin batch[i].events

Inv ==
  /\ TypeOK
  /\ StepsOfThreads
  /\ ListIsProtected
  /\ WalkInv
  /\ MapInv
  /\ WatchedHasChannel
  /\ EventsInv
  /\ NoLostWakeup

\* No channel is added twice: there is one request to add it at most, held by a
\* thread first and in the list later, and then perhaps an entry of the map.
AddedOnce ==
  /\ \A fd \in Fd : entries[fd] \in Channel => stage[entries[fd]] \in {"added", "removed"}
  /\ \A c \in Channel :
       /\ \A t \in Thread : InHand(t, "ADD", c) =>
            /\ stage[c] = "adding"
            /\ \A u \in Thread : InHand(u, "ADD", c) => u = t
       /\ \A i \in 1 .. Len(pending) : InList(i, "ADD", c) =>
            /\ stage[c] \in {"added", "removed"}
            /\ \A j \in 1 .. Len(pending) : InList(j, "ADD", c) => j = i

\* A channel is removed once, and after it was added.
RemovedOnce ==
  \A c \in Channel :
    /\ \A t \in Thread : InHand(t, "REMOVE", c) =>
         /\ stage[c] = "removed"
         /\ \A u \in Thread : InHand(u, "REMOVE", c) => u = t
         /\ \A i \in 1 .. Len(pending) : ~InList(i, "REMOVE", c)
    /\ \A i \in 1 .. Len(pending) : InList(i, "REMOVE", c) =>
         /\ stage[c] = "removed"
         /\ \A j \in 1 .. Len(pending) : InList(j, "REMOVE", c) => j = i
         /\ \A j \in 1 .. Len(pending) : InList(j, "ADD", c) => j < i

\* A channel whose descriptor is open, and that is not in the loop yet, holds
\* its descriptor, and nothing is left in the loop of the channels that held it
\* before, but for an entry of the map.
AddsAreFresh ==
  \A c \in Channel : stage[c] = "open" \/ OnItsWay("ADD", c) =>
    /\ holder[FdOf[c]] = c
    /\ interest[FdOf[c]] = {}
    /\ entries[FdOf[c]] # c
    /\ \A i \in 1 .. Len(batch) : batch[i].fd # FdOf[c]

\* A descriptor that is watched, or was reported and is yet to be dispatched, is
\* that of the channel in the map, unless a removal has emptied the entry.
WatchedIsHeld ==
  /\ \A fd \in Fd : interest[fd] # {} => holder[fd] = entries[fd]
  /\ \A i \in 1 .. Len(batch) :
       /\ holder[batch[i].fd] # NULL
       /\ entries[batch[i].fd] \in {NULL, holder[batch[i].fd]}
       /\ \A j \in 1 .. Len(batch) : batch[j].fd = batch[i].fd => j = i

RequestInv ==
  /\ AddedOnce
  /\ RemovedOnce
  /\ AddsAreFresh
  /\ WatchedIsHeld

FullInv == Inv /\ RequestInv

\* A channel that was added, with allocations that succeed, is inside the map, and
\* only a removal can have emptied its entry; only one can have emptied the entry
\* of a descriptor yet to be dispatched.
EmptiedByRemoval ==
  /\ \A c \in Channel \ Failing : Applied("ADD", c) =>
       /\ FdOf[c] < nentries
       /\ \/ entries[FdOf[c]] # NULL
          \/ \E d \in Channel : FdOf[d] = FdOf[c] /\ Applied("REMOVE", d)
  /\ \A i \in 1 .. Len(batch) :
       \/ entries[batch[i].fd] # NULL
       \/ \E d \in Channel : FdOf[d] = batch[i].fd /\ Applied("REMOVE", d)

CauseInv == FailsOnlyForCause /\ EmptiedByRemoval

\* What else holds as long as no channel is removed and no allocation fails.
NeverRemoved == Removable = {} /\ Failing = {}

\* Every channel whose request has been applied is in the map and watched,
\* unless its entry was, and is, another's.
AddedInv ==
  /\ \A c \in Channel : stage[c] # "removed"
  /\ \A c \in Channel :
       stage[c] = "added" /\ holder[FdOf[c]] = c /\ ~OnItsWay("ADD", c) =>
         /\ entries[FdOf[c]] # NULL
         /\ entries[FdOf[c]] = c => interest[FdOf[c]] # {}
=============================================================================
