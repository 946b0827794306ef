--------------------------- MODULE EventLoop_proof ---------------------------
(***************************************************************************)
(* Proofs about EventLoop: its inductive invariant Inv, the safety         *)
(* properties that follow from it, and the refinement of ChannelQueue.     *)
(***************************************************************************)
EXTENDS EventLoop, SequenceTheorems, TLAPS

\* Pc values, stages and a report of epoll_wait, as TypeOK has them.
Label == {"idle", "lock", "buffer", "unlock", "wakeup", "epoll_wait",
          "dispatch", "hp_lock", "hp_begin", "hp_walk", "hp_unlock", "astray"}
Stage == {"new", "open", "adding", "added", "removed"}
Report == [fd: Fd, events: SUBSET (EpollEvent \cup {"EPOLLHUP"})]

-----------------------------------------------------------------------------
(* Lemmas about the operators.                                             *)

\* What a request is made of.
LEMMA RequestFields ==
  /\ \A r \in Request : r.type \in {"ADD", "REMOVE", "UPDATE"} /\ r.chan \in Channel
  /\ \A c \in Channel : /\ [type |-> "ADD", chan |-> c] \in Request
                        /\ [type |-> "REMOVE", chan |-> c] \in Request
                        /\ [type |-> "UPDATE", chan |-> c] \in Request
BY DEF Request, Q!Request, Q!RequestType

\* map_make_space returns a size of the doubling sequence above the slot.
LEMMA MakeSpace ==
  ASSUME NEW fd \in Fd
  PROVE  map_make_space(fd) \in MapSizes /\ map_make_space(fd) > fd
BY MapSizesAssumption, ConstantsAssumption DEF map_make_space

\* epoll_events never loses a bit.
LEMMA EpollEvents ==
  ASSUME NEW evs \in SUBSET Event
  PROVE  /\ epoll_events(evs) \in SUBSET EpollEvent
         /\ "EVENT_READ" \in evs => epoll_events(evs) # {}
BY DEF epoll_events, Event, EpollEvent

-----------------------------------------------------------------------------
\* Inv holds when the loop has just been created.
THEOREM InitInv == Init => Inv
<1> SUFFICES ASSUME Init PROVE Inv
  OBVIOUS
<1> USE ConstantsAssumption
<1>1. nentries \in MapSizes /\ nentries > WakeFd
  BY MakeSpace DEF Init
<1>2. TypeOK
  BY <1>1, EmptySeq DEF Init, TypeOK, Thread, Event, EpollEvent
<1>3. StepsOfThreads /\ ListIsProtected
  BY DEF Init, StepsOfThreads, ListIsProtected, InCriticalSection, Thread
<1>4. WalkInv /\ NoLostWakeup
  BY DEF Init, WalkInv, NoLostWakeup, Thread
<1>5. EventsInv
  BY DEF Init, EventsInv
<1>6. MapInv /\ WatchedHasChannel
  BY <1>1 DEF Init, MapInv, WatchedHasChannel
<1> QED
  BY <1>2, <1>3, <1>4, <1>5, <1>6 DEF Inv

-----------------------------------------------------------------------------
(* Each action preserves Inv.                                              *)

\* A call about a channel, whoever makes it.
CallAbout(t, c) ==
  \/ AddCall(t, c) \/ RemoveCall(t, c) \/ UpdateCall(t, c)
  \/ channel_write_event_enable(t, c) \/ channel_write_event_disable(t, c)

\* What every call does: it leaves the caller about to lock, or astray, with a
\* request in hand, and every channel still asks for read events.
LEMMA CallEffect ==
  ASSUME Inv, NEW t \in Thread, NEW c \in Channel, CallAbout(t, c)
  PROVE  /\ \E l \in {"lock", "astray"} : pc' = [pc EXCEPT ![t] = l]
         /\ request' \in [Thread -> Request \cup {NULL}]
         /\ request'[t] \in Request
         /\ \A u \in Thread \ {t} : request'[u] = request[u]
         /\ events' \in [Channel -> SUBSET Event]
         /\ \A d \in Channel : "EVENT_READ" \in events'[d]
         /\ holder' \in [Fd -> Channel \cup {WakeChan, NULL}]
         /\ stage' \in [Channel -> Stage]
<1> USE ConstantsAssumption DEF Calls, CallsOnData, Goto, Stage
<1>1. FdOf[c] \in Fd
  OBVIOUS
<1>a. /\ request \in [Thread -> Request \cup {NULL}]
      /\ events \in [Channel -> SUBSET Event]
      /\ \A d \in Channel : "EVENT_READ" \in events[d]
      /\ holder \in [Fd -> Channel \cup {WakeChan, NULL}]
      /\ stage \in [Channel -> Stage]
  BY DEF Inv, TypeOK, EventsInv, Stage
<1>b. ASSUME NEW type \in {"ADD", "REMOVE", "UPDATE"},
             request' = [request EXCEPT ![t] = [type |-> type, chan |-> c]]
      PROVE  /\ request' \in [Thread -> Request \cup {NULL}]
             /\ request'[t] \in Request
             /\ \A u \in Thread \ {t} : request'[u] = request[u]
  BY <1>a, <1>b, RequestFields
<1>c. ASSUME NEW evs \in SUBSET Event, "EVENT_READ" \in evs,
             events' = [events EXCEPT ![c] = evs]
      PROVE  /\ events' \in [Channel -> SUBSET Event]
             /\ \A d \in Channel : "EVENT_READ" \in events'[d]
  BY <1>a, <1>c
<1>d. ASSUME Opened(c)
      PROVE  /\ holder' \in [Fd -> Channel \cup {WakeChan, NULL}]
             /\ stage' \in [Channel -> Stage]
  BY <1>1, <1>a, <1>d DEF Opened
<1>2. CASE AddCall(t, c)
  BY <1>1, <1>2, <1>a, <1>b DEF AddCall
<1>3. CASE RemoveCall(t, c)
  BY <1>3, <1>a, <1>b DEF RemoveCall
<1>4. CASE UpdateCall(t, c)
  <2>1. PICK evs \in {{"EVENT_READ"}, Event} : events' = [events EXCEPT ![c] = evs]
    BY <1>4 DEF UpdateCall
  <2>2. evs \in SUBSET Event /\ "EVENT_READ" \in evs
    BY <2>1 DEF Event
  <2> QED
    BY <1>4, <1>b, <1>c, <1>d, <2>1, <2>2 DEF UpdateCall
<1>5. CASE channel_write_event_enable(t, c)
  <2>1. events[c] \cup {"EVENT_WRITE"} \in SUBSET Event
        /\ "EVENT_READ" \in events[c] \cup {"EVENT_WRITE"}
    BY <1>a DEF Event
  <2> QED
    BY <1>5, <1>b, <1>c, <1>d, <2>1 DEF channel_write_event_enable
<1>6. CASE channel_write_event_disable(t, c)
  <2>1. events[c] \ {"EVENT_WRITE"} \in SUBSET Event
        /\ "EVENT_READ" \in events[c] \ {"EVENT_WRITE"}
    BY <1>a
  <2> QED
    BY <1>6, <1>b, <1>c, <1>d, <2>1 DEF channel_write_event_disable
<1> QED
  BY <1>2, <1>3, <1>4, <1>5, <1>6 DEF CallAbout

\* A call by another thread keeps Inv.
LEMMA PosterCallInv ==
  ASSUME Inv, NEW t \in Poster, PosterCall(t)
  PROVE  Inv'
<1> USE ConstantsAssumption
<1>1. PICK c \in Channel : CallAbout(t, c)
  BY DEF PosterCall, CallAbout
<1>2. t \in Thread /\ Owner \in Thread /\ t # Owner /\ Poster \subseteq Thread
  BY DEF Thread
<1>3. /\ \E l \in {"lock", "astray"} : pc' = [pc EXCEPT ![t] = l]
      /\ request' \in [Thread -> Request \cup {NULL}]
      /\ request'[t] \in Request
      /\ \A u \in Thread \ {t} : request'[u] = request[u]
      /\ events' \in [Channel -> SUBSET Event]
      /\ \A d \in Channel : "EVENT_READ" \in events'[d]
      /\ holder' \in [Fd -> Channel \cup {WakeChan, NULL}]
      /\ stage' \in [Channel -> Stage]
  BY <1>1, <1>2, CallEffect
<1>a. process' \in {"running", "aborted", "faulted"}
  BY DEF PosterCall, channel_write_event_enable, CallsOnData, Inv, TypeOK
<1>4. TypeOK'
  <2>1. pc' \in [Thread -> Label]
    BY <1>2, <1>3 DEF Inv, TypeOK, Label
  <2>2. request' \in [Thread -> Request \cup {NULL}] /\ stage' \in [Channel -> Stage]
    BY <1>3
  <2> QED
    BY <1>3, <1>a, <2>1, <2>2 DEF Inv, TypeOK, PosterCall, loopVars, mapVars, Label, Stage
<1>5. StepsOfThreads'
  BY <1>2, <1>3 DEF Inv, TypeOK, StepsOfThreads
<1>6. ListIsProtected' /\ WalkInv' /\ NoLostWakeup'
  BY <1>2, <1>3 DEF Inv, TypeOK, PosterCall, loopVars, ListIsProtected,
     InCriticalSection, WalkInv, NoLostWakeup
<1>7. MapInv' /\ WatchedHasChannel' /\ EventsInv'
  BY <1>3 DEF Inv, PosterCall, mapVars, MapInv, WatchedHasChannel, EventsInv
<1> QED
  BY <1>4, <1>5, <1>6, <1>7 DEF Inv

\* Taking the mutex keeps Inv.
LEMMA LockInv ==
  ASSUME Inv, NEW t \in Thread, Lock(t)
  PROVE  Inv'
<1> USE ConstantsAssumption
<1>1. Owner \in Thread /\ Poster \subseteq Thread
  BY DEF Thread
<1>2. TypeOK'
  BY DEF Inv, TypeOK, Lock, Goto, mapVars, clientVars
<1>3. StepsOfThreads' /\ ListIsProtected' /\ WalkInv' /\ NoLostWakeup'
  BY <1>1 DEF Inv, TypeOK, Lock, Goto, clientVars, StepsOfThreads,
     ListIsProtected, InCriticalSection, WalkInv, NoLostWakeup
<1>4. MapInv' /\ WatchedHasChannel' /\ EventsInv'
  BY DEF Inv, Lock, mapVars, clientVars, MapInv, WatchedHasChannel, EventsInv
<1> QED
  BY <1>2, <1>3, <1>4 DEF Inv

\* Queueing a request keeps Inv.
LEMMA BufferInv ==
  ASSUME Inv, NEW t \in Thread, Buffer(t)
  PROVE  Inv'
<1> USE ConstantsAssumption
<1>1. Owner \in Thread /\ Poster \subseteq Thread
  BY DEF Thread
<1>2. request[t] \in Request
  BY DEF Inv, TypeOK, StepsOfThreads, Buffer
<1>3. Append(pending, request[t]) \in Seq(Request)
  BY <1>2, AppendProperties DEF Inv, TypeOK
<1>4. TypeOK'
  BY <1>2, <1>3, RequestFields DEF Inv, TypeOK, Buffer, Goto, mapVars
<1>5. StepsOfThreads' /\ ListIsProtected'
  BY SMTT(20), ZenonT(30), <1>1 DEF Inv, TypeOK, Buffer, Goto, StepsOfThreads, ListIsProtected,
     InCriticalSection
<1>6. WalkInv'
  \* The owner walks only while it holds the mutex, and then no one appends.
  BY <1>1 DEF Inv, TypeOK, Buffer, Goto, ListIsProtected, InCriticalSection,
     WalkInv
<1>7. NoLostWakeup'
  BY <1>1 DEF Inv, TypeOK, Buffer, Goto, NoLostWakeup, Thread
<1>8. MapInv' /\ WatchedHasChannel' /\ EventsInv'
  BY DEF Inv, Buffer, mapVars, MapInv, WatchedHasChannel, EventsInv
<1> QED
  BY <1>4, <1>5, <1>6, <1>7, <1>8 DEF Inv

\* Releasing the mutex after queueing keeps Inv: who may have to wake the owner
\* is about to.
LEMMA UnlockInv ==
  ASSUME Inv, NEW t \in Thread, Unlock(t)
  PROVE  Inv'
<1> USE ConstantsAssumption
<1>1. Owner \in Thread /\ Poster \subseteq Thread /\ (t = Owner \/ t \in Poster)
  BY DEF Thread
<1>2. TypeOK'
  BY DEF Inv, TypeOK, Unlock, Goto, mapVars, clientVars
<1>3. pc' = [pc EXCEPT ![t] = IF t = Owner THEN "hp_lock" ELSE "wakeup"]
  BY DEF Unlock, Goto
<1>4. StepsOfThreads' /\ WalkInv'
  BY <1>1, <1>3 DEF Inv, TypeOK, Unlock, clientVars, StepsOfThreads, WalkInv
<1>5. ListIsProtected'
  BY <1>1, <1>3 DEF Inv, TypeOK, Unlock, ListIsProtected, InCriticalSection
<1>6. NoLostWakeup'
  BY <1>1, <1>3 DEF Inv, TypeOK, Unlock, NoLostWakeup
<1>7. MapInv' /\ WatchedHasChannel' /\ EventsInv'
  BY DEF Inv, Unlock, mapVars, clientVars, MapInv, WatchedHasChannel, EventsInv
<1> QED
  BY <1>2, <1>4, <1>5, <1>6, <1>7 DEF Inv

\* Writing the wakeup byte keeps Inv.
LEMMA WakeupInv ==
  ASSUME Inv, NEW t \in Thread, event_loop_wakeup(t)
  PROVE  Inv'
<1> USE ConstantsAssumption
<1>1. Owner \in Thread /\ Poster \subseteq Thread /\ t \in Poster
  BY DEF Inv, StepsOfThreads, event_loop_wakeup, Thread
<1>2. TypeOK'
  BY DEF Inv, TypeOK, event_loop_wakeup, Goto, loopVars, mapVars, clientVars
<1>3. StepsOfThreads' /\ ListIsProtected' /\ WalkInv' /\ NoLostWakeup'
  BY <1>1 DEF Inv, TypeOK, event_loop_wakeup, Goto, loopVars, clientVars,
     StepsOfThreads, ListIsProtected, InCriticalSection, WalkInv, NoLostWakeup
<1>4. MapInv' /\ WatchedHasChannel' /\ EventsInv'
  BY DEF Inv, event_loop_wakeup, mapVars, clientVars, MapInv,
     WatchedHasChannel, EventsInv
<1> QED
  BY <1>2, <1>3, <1>4 DEF Inv

\* The owner taking the mutex to walk the list keeps Inv.
LEMMA HandlePendingLockInv ==
  ASSUME Inv, HandlePendingLock
  PROVE  Inv'
<1> USE ConstantsAssumption
<1>1. Owner \in Thread /\ Poster \subseteq Thread
  BY DEF Thread
<1>2. TypeOK'
  BY <1>1 DEF Inv, TypeOK, HandlePendingLock, Goto, mapVars, clientVars
<1>3. StepsOfThreads' /\ ListIsProtected' /\ WalkInv' /\ NoLostWakeup'
  BY <1>1 DEF Inv, TypeOK, HandlePendingLock, Goto, clientVars, StepsOfThreads,
     ListIsProtected, InCriticalSection, WalkInv, NoLostWakeup
<1>4. MapInv' /\ WatchedHasChannel' /\ EventsInv'
  BY DEF Inv, HandlePendingLock, mapVars, clientVars, MapInv,
     WatchedHasChannel, EventsInv
<1> QED
  BY <1>2, <1>3, <1>4 DEF Inv

\* Beginning the walk keeps Inv.
LEMMA HandlePendingBeginInv ==
  ASSUME Inv, HandlePendingBegin
  PROVE  Inv'
<1> USE ConstantsAssumption
<1>1. Owner \in Thread /\ Poster \subseteq Thread /\ Len(pending) \in Nat
  BY LenProperties DEF Inv, TypeOK, Thread
<1>2. TypeOK'
  BY <1>1 DEF Inv, TypeOK, HandlePendingBegin, Goto, mapVars, clientVars
<1>3. StepsOfThreads' /\ ListIsProtected' /\ NoLostWakeup'
  BY <1>1 DEF Inv, TypeOK, HandlePendingBegin, Goto, clientVars,
     StepsOfThreads, ListIsProtected, InCriticalSection, NoLostWakeup
<1>4. WalkInv'
  BY <1>1 DEF Inv, TypeOK, HandlePendingBegin, Goto, WalkInv
<1>5. MapInv' /\ WatchedHasChannel' /\ EventsInv'
  BY DEF Inv, HandlePendingBegin, mapVars, clientVars, MapInv,
     WatchedHasChannel, EventsInv
<1> QED
  BY <1>2, <1>3, <1>4, <1>5 DEF Inv

\* Emptying the list after the walk keeps Inv.
LEMMA HandlePendingEndInv ==
  ASSUME Inv, HandlePendingEnd
  PROVE  Inv'
<1> USE ConstantsAssumption
<1>1. Owner \in Thread /\ Poster \subseteq Thread
  BY DEF Thread
<1>2. TypeOK'
  BY <1>1, EmptySeq DEF Inv, TypeOK, HandlePendingEnd, Goto, mapVars, clientVars
<1>3. StepsOfThreads' /\ ListIsProtected' /\ WalkInv' /\ NoLostWakeup'
  BY <1>1 DEF Inv, TypeOK, HandlePendingEnd, Goto, clientVars, StepsOfThreads,
     ListIsProtected, InCriticalSection, WalkInv, NoLostWakeup
<1>4. MapInv' /\ WatchedHasChannel' /\ EventsInv'
  BY DEF Inv, HandlePendingEnd, mapVars, clientVars, MapInv,
     WatchedHasChannel, EventsInv
<1> QED
  BY <1>2, <1>3, <1>4 DEF Inv

\* The owner releasing the mutex after the walk keeps Inv.
LEMMA HandlePendingUnlockInv ==
  ASSUME Inv, HandlePendingUnlock
  PROVE  Inv'
<1> USE ConstantsAssumption
<1>1. Owner \in Thread /\ Poster \subseteq Thread
  BY DEF Thread
<1>2. TypeOK'
  BY <1>1 DEF Inv, TypeOK, HandlePendingUnlock, Goto, mapVars, clientVars
<1>3. StepsOfThreads' /\ ListIsProtected' /\ WalkInv' /\ NoLostWakeup'
  BY <1>1 DEF Inv, TypeOK, HandlePendingUnlock, Goto, clientVars,
     StepsOfThreads, ListIsProtected, InCriticalSection, WalkInv, NoLostWakeup
<1>4. MapInv' /\ WatchedHasChannel' /\ EventsInv'
  BY DEF Inv, HandlePendingUnlock, mapVars, clientVars, MapInv,
     WatchedHasChannel, EventsInv
<1> QED
  BY <1>2, <1>3, <1>4 DEF Inv
\* The element the walk is at is a request, about a channel of some descriptor.
LEMMA WalkedRequest ==
  ASSUME Inv, HandlePendingElement
  PROVE  /\ Len(pending) \in Nat
         /\ chan_elem \in 1 .. Len(pending)
         /\ pending[chan_elem] \in Request
         /\ pending[chan_elem].chan \in Channel
         /\ FdOf[pending[chan_elem].chan] \in Fd \ {WakeFd}
<1>1. Len(pending) \in Nat /\ chan_elem \in 1 .. Len(pending)
  BY LenProperties DEF Inv, TypeOK, WalkInv, HandlePendingElement
<1>2. pending[chan_elem] \in Request
  BY <1>1, ElementOfSeq DEF Inv, TypeOK
<1> QED
  BY <1>1, <1>2, RequestFields, ConstantsAssumption

\* What one element of the list may do to the map and the epoll set.
LEMMA ElementEffect ==
  ASSUME Inv, HandlePendingElement
  PROVE  /\ entries' \in [Fd -> Channel \cup {WakeChan, NULL}]
         /\ nentries' \in MapSizes
         /\ interest' \in [Fd -> SUBSET EpollEvent]
         /\ process' \in {"running", "aborted", "faulted"}
         /\ MapInv'
         /\ WatchedHasChannel'
<1> DEFINE c == pending[chan_elem].chan
           fd == FdOf[c]
<1>1. c \in Channel /\ fd \in Fd /\ fd # WakeFd /\ c # WakeChan /\ c # NULL
  BY WalkedRequest, ConstantsAssumption
<1>2. epoll_events(events[c]) \in SUBSET EpollEvent
  BY <1>1, EpollEvents DEF Inv, TypeOK
<1>3. /\ nentries \in MapSizes /\ nentries \in Nat /\ Fd \subseteq Nat /\ fd \in Nat
      /\ entries \in [Fd -> Channel \cup {WakeChan, NULL}]
      /\ interest \in [Fd -> SUBSET EpollEvent]
      /\ process \in {"running", "aborted", "faulted"}
      /\ MapInv
      /\ WatchedHasChannel
  BY <1>1, ConstantsAssumption, MapSizesAssumption DEF Inv, TypeOK
<1>4. NULL # WakeChan /\ NULL \notin Channel /\ WakeChan \notin Channel
  BY ConstantsAssumption
<1> HIDE DEF c
<1>5. CASE event_loop_handle_pending_add(c)
  <2> USE <1>5 DEF event_loop_handle_pending_add
  <2>1. process' = process
    OBVIOUS
  <2>2. /\ nentries' \in MapSizes /\ nentries' \in Nat /\ nentries' >= nentries
        /\ entries' # entries => nentries' > fd
    <3>1. /\ map_make_space(fd) \in MapSizes /\ map_make_space(fd) \in Nat
          /\ map_make_space(fd) > fd
      BY <1>1, MakeSpace, MapSizesAssumption
    <3>2. \/ nentries' = nentries /\ entries' = entries
          \/ nentries' = IF fd >= nentries THEN map_make_space(fd) ELSE nentries
      BY DEF mapVars
    <3> QED
      BY <1>3, <3>1, <3>2
  <2>3. CASE UNCHANGED <<entries, interest>>
    BY <1>3, <2>1, <2>2, <2>3 DEF MapInv, WatchedHasChannel
  <2>4. CASE /\ entries' = [entries EXCEPT ![fd] = c]
             /\ entries' # entries
             /\ \/ interest' = [interest EXCEPT ![fd] = epoll_events(events[c])]
                \/ interest' = interest
    <3>1. /\ entries' \in [Fd -> Channel \cup {WakeChan, NULL}]
          /\ interest' \in [Fd -> SUBSET EpollEvent]
      BY <1>1, <1>2, <1>3, <2>4
    <3>2. MapInv'
      BY <1>1, <1>3, <2>2, <2>4 DEF MapInv
    <3>3. WatchedHasChannel'
      BY <1>1, <1>3, <1>4, <2>2, <2>4 DEF WatchedHasChannel
    <3> QED
      BY <1>3, <2>1, <2>2, <3>1, <3>2, <3>3
  <2>5. \/ UNCHANGED <<entries, interest>>
        \/ /\ entries' = [entries EXCEPT ![fd] = c]
           /\ entries' # entries
           /\ \/ interest' = [interest EXCEPT ![fd] = epoll_events(events[c])]
              \/ interest' = interest
    BY <1>1, <1>3 DEF mapVars
  <2> QED
    BY <2>3, <2>4, <2>5
<1>6. CASE event_loop_handle_pending_remove(c)
  <2>1. /\ nentries' = nentries
        /\ process' \in {"running", "aborted", "faulted"}
        /\ \/ UNCHANGED <<entries, interest>>
           \/ /\ entries' = [entries EXCEPT ![fd] = NULL]
              /\ interest' = [interest EXCEPT ![fd] = {}]
    BY <1>3, <1>6 DEF event_loop_handle_pending_remove, mapVars
  <2> QED
    BY SMTT(20), ZenonT(30), <1>1, <1>3, <1>4, <2>1 DEF MapInv, WatchedHasChannel
<1>7. CASE event_loop_handle_pending_update(c)
  <2>1. /\ nentries' = nentries
        /\ entries' = entries
        /\ process' \in {"running", "aborted", "faulted"}
        /\ \/ interest' = interest
           \/ /\ interest' = [interest EXCEPT ![fd] = epoll_events(events[c])]
              /\ interest[fd] # {}
    BY <1>3, <1>7 DEF event_loop_handle_pending_update, mapVars
  <2> QED
    BY <1>1, <1>2, <1>3, <2>1 DEF MapInv, WatchedHasChannel
<1> QED
  BY <1>5, <1>6, <1>7 DEF HandlePendingElement, c

\* Applying one request of the list keeps Inv.
LEMMA HandlePendingElementInv ==
  ASSUME Inv, HandlePendingElement
  PROVE  Inv'
<1> USE ConstantsAssumption
<1>1. /\ Len(pending) \in Nat
      /\ chan_elem \in 1 .. Len(pending)
      /\ chan_elem' \in {chan_elem, chan_elem + 1}
  BY WalkedRequest DEF HandlePendingElement
<1>2. TypeOK'
  BY <1>1, ElementEffect DEF Inv, TypeOK, HandlePendingElement, clientVars
<1>3. StepsOfThreads' /\ ListIsProtected' /\ NoLostWakeup'
  BY DEF Inv, HandlePendingElement, clientVars, StepsOfThreads,
     ListIsProtected, InCriticalSection, NoLostWakeup
<1>4. WalkInv'
  BY <1>1 DEF Inv, HandlePendingElement, WalkInv
<1>5. MapInv' /\ WatchedHasChannel'
  BY ElementEffect
<1>6. EventsInv'
  BY DEF Inv, HandlePendingElement, clientVars, EventsInv
<1> QED
  BY <1>2, <1>3, <1>4, <1>5, <1>6 DEF Inv

\* What epoll_wait returns: reports of watched descriptors.
LEMMA EpollWaitBatch ==
  ASSUME Inv, EpollWait
  PROVE  /\ batch' \in Seq(Report)
         /\ \A i \in 1 .. Len(batch') :
              /\ batch'[i].fd \in watched
              /\ batch'[i].events \in Reports(batch'[i].fd)
              /\ \A j \in 1 .. Len(batch') : batch'[j].fd = batch'[i].fd => j = i
<1> USE ConstantsAssumption
<1> DEFINE Watched == {fd \in Fd : interest[fd] # {}}
           Distinct(n, order) == \A i, j \in 1 .. n : order[i] = order[j] => i = j
           Reported(n, order, report) ==
             /\ \A i \in 1 .. n : report[i] \in Reports(order[i])
             /\ batch' = [i \in 1 .. n |->
                            [fd |-> order[i], events |-> report[i]]]
           Reports1(n) == [1 .. n -> SUBSET (EpollEvent \cup {"EPOLLHUP"})]
<1>0. PICK n \in 1 .. MaxEvents :
        \E order \in [1 .. n -> Watched] :
          Distinct(n, order) /\ \E report \in Reports1(n) : Reported(n, order, report)
  BY DEF EpollWait, watched
<1>a. PICK order \in [1 .. n -> Watched] :
        Distinct(n, order) /\ \E report \in Reports1(n) : Reported(n, order, report)
  BY <1>0
<1>1. PICK report \in Reports1(n) : Reported(n, order, report)
  BY <1>a
<1>2. n \in Nat
  OBVIOUS
<1>3. \A i \in 1 .. n : [fd |-> order[i], events |-> report[i]] \in Report
  BY DEF Report
<1>4. batch' \in Seq(Report) /\ Len(batch') = n
  BY <1>1, <1>2, <1>3, IsASeq, Z3
<1> QED
  BY <1>a, <1>1, <1>4 DEF watched

\* Receiving a batch of events keeps Inv.
LEMMA EpollWaitInv ==
  ASSUME Inv, EpollWait
  PROVE  Inv'
<1> USE ConstantsAssumption
<1>1. /\ batch' \in Seq(Report)
      /\ \A i \in 1 .. Len(batch') : batch'[i].events \in Reports(batch'[i].fd)
  BY EpollWaitBatch
<1>2. Owner \in Thread /\ Poster \subseteq Thread
  BY DEF Thread
<1>3. TypeOK'
  BY <1>1, <1>2 DEF Inv, TypeOK, EpollWait, Goto, loopVars, mapVars,
     clientVars, Report
<1>4. StepsOfThreads' /\ ListIsProtected' /\ WalkInv' /\ NoLostWakeup'
  BY <1>2 DEF Inv, TypeOK, EpollWait, Goto, loopVars, clientVars,
     StepsOfThreads, ListIsProtected, InCriticalSection, WalkInv, NoLostWakeup
<1>5. MapInv' /\ WatchedHasChannel'
  BY DEF Inv, EpollWait, mapVars, MapInv, WatchedHasChannel
<1>6. EventsInv'
  BY <1>1 DEF Inv, EpollWait, clientVars, EventsInv, Reports
<1> QED
  BY <1>3, <1>4, <1>5, <1>6 DEF Inv

\* The batch without its first report, or with bits of it cleared.
LEMMA BatchShrinks ==
  ASSUME Inv, batch # <<>>, NEW bits \in SUBSET EpollEvent
  PROVE  /\ Head(batch) \in Report
         /\ Tail(batch) \in Seq(Report)
         /\ \A i \in 1 .. Len(Tail(batch)) :
              /\ \E j \in 1 .. Len(batch) : Tail(batch)[i].fd = batch[j].fd
              /\ Tail(batch)[i].fd = WakeFd => "EPOLLHUP" \notin Tail(batch)[i].events
         /\ LET b == <<[Head(batch) EXCEPT !.events = @ \ bits]>> \o Tail(batch)
            IN /\ b \in Seq(Report)
               /\ \A i \in 1 .. Len(b) :
                    /\ \E j \in 1 .. Len(batch) : b[i].fd = batch[j].fd
                    /\ b[i].fd = WakeFd => "EPOLLHUP" \notin b[i].events
<1>1. batch \in Seq(Report)
  BY DEF Inv, TypeOK, Report
<1>2. /\ Head(batch) \in Report
      /\ Tail(batch) \in Seq(Report)
      /\ Len(batch) \in Nat \ {0}
      /\ Len(Tail(batch)) = Len(batch) - 1
      /\ \A i \in 1 .. Len(Tail(batch)) : Tail(batch)[i] = batch[i + 1]
  BY <1>1, HeadTailProperties, EmptySeq, LenProperties
<1>3. Head(batch) = batch[1]
  BY <1>1
<1>4. \A i \in 1 .. Len(batch) :
        batch[i].fd = WakeFd => "EPOLLHUP" \notin batch[i].events
  BY DEF Inv, EventsInv
<1>5. \A i \in 1 .. Len(Tail(batch)) :
        /\ \E j \in 1 .. Len(batch) : Tail(batch)[i].fd = batch[j].fd
        /\ Tail(batch)[i].fd = WakeFd => "EPOLLHUP" \notin Tail(batch)[i].events
  BY <1>2, <1>4
<1> DEFINE e == [Head(batch) EXCEPT !.events = @ \ bits]
           b == <<e>> \o Tail(batch)
<1>6. /\ e \in Report
      /\ e.fd = batch[1].fd
      /\ e.fd = WakeFd => "EPOLLHUP" \notin e.events
  BY <1>2, <1>3, <1>4 DEF Report
<1> HIDE DEF e
<1>7. <<e>> \in Seq(Report) /\ Len(<<e>>) = 1 /\ <<e>>[1] = e
  BY <1>6
<1>8. /\ b \in Seq(Report)
      /\ Len(b) = 1 + Len(Tail(batch))
      /\ \A i \in 1 .. 1 + Len(Tail(batch)) :
           b[i] = IF i <= 1 THEN e ELSE Tail(batch)[i - 1]
  BY <1>2, <1>7, ConcatProperties
<1> HIDE DEF b
<1>9. \A i \in 1 .. Len(b) :
        /\ \E j \in 1 .. Len(batch) : b[i].fd = batch[j].fd
        /\ b[i].fd = WakeFd => "EPOLLHUP" \notin b[i].events
  <2> SUFFICES ASSUME NEW i \in 1 .. Len(b)
               PROVE  /\ \E j \in 1 .. Len(batch) : b[i].fd = batch[j].fd
                      /\ b[i].fd = WakeFd => "EPOLLHUP" \notin b[i].events
    OBVIOUS
  <2>1. i \in 1 .. 1 + Len(Tail(batch)) /\ 1 \in 1 .. Len(batch)
    BY <1>2, <1>8
  <2>2. CASE i = 1
    <3>1. b[i] = e
      BY <1>8, <2>1, <2>2
    <3> QED
      BY <1>6, <2>1, <3>1
  <2>3. CASE i # 1
    <3>1. i - 1 \in 1 .. Len(Tail(batch)) /\ ~(i <= 1)
      BY <1>2, <2>1, <2>3
    <3>2. b[i] = Tail(batch)[i - 1]
      BY <1>8, <2>1, <3>1
    <3> QED
      BY <1>5, <3>1, <3>2
  <2> QED
    BY <2>2, <2>3
<1> QED
  BY <1>2, <1>5, <1>8, <1>9 DEF b, e

\* Closing a descriptor that hung up keeps Inv.
LEMMA DispatchHangUpInv ==
  ASSUME Inv, DispatchHangUp
  PROVE  Inv'
<1>1. /\ Head(batch) \in Report
      /\ Tail(batch) \in Seq(Report)
      /\ \A i \in 1 .. Len(Tail(batch)) :
           Tail(batch)[i].fd = WakeFd => "EPOLLHUP" \notin Tail(batch)[i].events
  BY BatchShrinks DEF DispatchHangUp
<1>2. Head(batch).fd \in Fd
  BY <1>1 DEF Report
<1>3. TypeOK'
  BY <1>1, <1>2 DEF Inv, TypeOK, DispatchHangUp, loopVars, Report
<1>4. StepsOfThreads' /\ ListIsProtected' /\ WalkInv' /\ NoLostWakeup'
  BY DEF Inv, DispatchHangUp, loopVars, StepsOfThreads, ListIsProtected,
     InCriticalSection, WalkInv, NoLostWakeup
<1>5. MapInv' /\ WatchedHasChannel'
  BY <1>2 DEF Inv, TypeOK, DispatchHangUp, MapInv, WatchedHasChannel
<1>6. EventsInv'
  BY <1>1 DEF Inv, DispatchHangUp, EventsInv
<1> QED
  BY <1>3, <1>4, <1>5, <1>6 DEF Inv

\* What a callback may do: read the wakeup socket, follow a NULL channel, or
\* make one call.
LEMMA ActivateEffect ==
  ASSUME Inv, pc[Owner] = "dispatch", NEW fd \in Fd, NEW bit,
         channel_event_activate(fd, bit)
  PROVE  /\ \/ UNCHANGED <<pc, request>>
            \/ /\ \E l \in {"lock", "astray"} : pc' = [pc EXCEPT ![Owner] = l]
               /\ request' \in [Thread -> Request \cup {NULL}]
               /\ request'[Owner] \in Request
               /\ \A u \in Thread \ {Owner} : request'[u] = request[u]
         /\ events' \in [Channel -> SUBSET Event]
         /\ \A c \in Channel : "EVENT_READ" \in events'[c]
         /\ holder' \in [Fd -> Channel \cup {WakeChan, NULL}]
         /\ stage' \in [Channel -> Stage]
         /\ socket_pair' \in Nat
         /\ process' \in {"running", "aborted", "faulted"}
<1> USE DEF clientVars
<1>1. /\ request \in [Thread -> Request \cup {NULL}]
      /\ events \in [Channel -> SUBSET Event]
      /\ \A c \in Channel : "EVENT_READ" \in events[c]
      /\ holder \in [Fd -> Channel \cup {WakeChan, NULL}]
      /\ stage \in [Channel -> Stage]
      /\ socket_pair \in Nat
      /\ process \in {"running", "aborted", "faulted"}
  BY DEF Inv, TypeOK, EventsInv, Stage
<1>2. CASE UNCHANGED <<pc, clientVars>> /\ socket_pair' \in Nat
           /\ process' \in {"running", "aborted", "faulted"}
  BY <1>1, <1>2
<1>3. CASE fd < nentries /\ entries[fd] = WakeChan /\ handle_wakeup
  BY <1>1, <1>3 DEF handle_wakeup
<1>4. CASE entries[fd] \in Channel /\ Callback(entries[fd], bit)
  <2>1. socket_pair' \in Nat /\ process' \in {"running", "aborted", "faulted"}
    BY <1>1, <1>4 DEF Callback, channel_write_event_enable,
       channel_write_event_disable, CallsOnData
  <2>2. CASE UNCHANGED <<pc, clientVars>>
    BY <1>1, <2>1, <2>2
  <2>3. CASE \E d \in Channel : CallAbout(Owner, d)
    BY <1>1, <2>1, <2>3, CallEffect DEF Thread
  <2> QED
    BY <1>4, <2>2, <2>3 DEF Callback, CallAbout
<1> QED
  BY <1>1, <1>2, <1>3, <1>4 DEF channel_event_activate

\* Running the callback of an event keeps Inv.
LEMMA DispatchEventInv ==
  ASSUME Inv, DispatchEvent
  PROVE  Inv'
<1> USE ConstantsAssumption
<1> DEFINE e == Head(batch)
           bit == IF "EPOLLIN" \in e.events THEN "EPOLLIN" ELSE "EPOLLOUT"
<1>1. e \in Report /\ {bit} \in SUBSET EpollEvent
  BY BatchShrinks DEF DispatchEvent, EpollEvent
<1>2. e.fd \in Fd /\ channel_event_activate(e.fd, bit) /\ pc[Owner] = "dispatch"
  BY <1>1 DEF DispatchEvent, Report
<1>3. /\ batch' \in Seq(Report)
      /\ \A i \in 1 .. Len(batch') :
           batch'[i].fd = WakeFd => "EPOLLHUP" \notin batch'[i].events
  <2>1. \/ batch' = batch \/ batch' = Tail(batch)
        \/ batch' = <<[e EXCEPT !.events = @ \ {bit}]>> \o Tail(batch)
    BY DEF DispatchEvent
  <2> QED
    BY <1>1, <2>1, BatchShrinks DEF DispatchEvent, Inv, TypeOK, EventsInv, Report
<1>4. /\ \/ UNCHANGED <<pc, request>>
         \/ /\ \E l \in {"lock", "astray"} : pc' = [pc EXCEPT ![Owner] = l]
            /\ request' \in [Thread -> Request \cup {NULL}]
            /\ request'[Owner] \in Request
            /\ \A u \in Thread \ {Owner} : request'[u] = request[u]
      /\ events' \in [Channel -> SUBSET Event]
      /\ \A c \in Channel : "EVENT_READ" \in events'[c]
      /\ holder' \in [Fd -> Channel \cup {WakeChan, NULL}]
      /\ stage' \in [Channel -> Stage]
      /\ socket_pair' \in Nat
      /\ process' \in {"running", "aborted", "faulted"}
  BY <1>2, ActivateEffect
<1>5. Owner \in Thread /\ Poster \subseteq Thread
  BY DEF Thread
<1>6. TypeOK'
  <2>1. pc' \in [Thread -> Label]
    BY <1>4, <1>5 DEF Inv, TypeOK, Label
  <2>2. request' \in [Thread -> Request \cup {NULL}]
    BY <1>4 DEF Inv, TypeOK
  <2> QED
    BY <1>3, <1>4, <2>1, <2>2
    DEF Inv, TypeOK, DispatchEvent, loopVars, mapVars, Report, Label, Stage
<1>7. StepsOfThreads' /\ NoLostWakeup'
  BY SMTT(20), ZenonT(30), <1>2, <1>4, <1>5 DEF Inv, TypeOK, StepsOfThreads, NoLostWakeup
<1>8. ListIsProtected' /\ WalkInv'
  BY <1>2, <1>4, <1>5 DEF Inv, TypeOK, DispatchEvent, loopVars,
     ListIsProtected, InCriticalSection, WalkInv
<1>9. MapInv' /\ WatchedHasChannel' /\ EventsInv'
  BY <1>3, <1>4 DEF Inv, DispatchEvent, mapVars, MapInv, WatchedHasChannel,
     EventsInv
<1> QED
  BY <1>6, <1>7, <1>8, <1>9 DEF Inv

\* Ending a batch keeps Inv.
LEMMA DispatchEndInv ==
  ASSUME Inv, DispatchEnd
  PROVE  Inv'
<1> USE ConstantsAssumption
<1>1. Owner \in Thread /\ Poster \subseteq Thread
  BY DEF Thread
<1>2. TypeOK'
  BY <1>1 DEF Inv, TypeOK, DispatchEnd, Goto, mapVars, clientVars
<1>3. StepsOfThreads' /\ ListIsProtected' /\ WalkInv' /\ NoLostWakeup'
  BY <1>1 DEF Inv, TypeOK, DispatchEnd, Goto, clientVars, StepsOfThreads,
     ListIsProtected, InCriticalSection, WalkInv, NoLostWakeup
<1>4. MapInv' /\ WatchedHasChannel' /\ EventsInv'
  BY DEF Inv, DispatchEnd, mapVars, clientVars, MapInv, WatchedHasChannel,
     EventsInv
<1> QED
  BY <1>2, <1>3, <1>4 DEF Inv

-----------------------------------------------------------------------------
(* The safety properties.                                                  *)

\* Every step keeps Inv.
THEOREM NextInv == Inv /\ [Next]_vars => Inv'
<1> SUFFICES ASSUME Inv, [Next]_vars PROVE Inv'
  OBVIOUS
<1>1. CASE UNCHANGED vars
  BY <1>1 DEF vars, Inv, TypeOK, StepsOfThreads, ListIsProtected,
     InCriticalSection, WalkInv, MapInv, WatchedHasChannel, EventsInv,
     NoLostWakeup
<1>2. CASE Next
  <2>1. CASE \E t \in Poster : PosterCall(t)
    BY <2>1, PosterCallInv
  <2>2. CASE \E t \in Thread : ThreadStep(t)
    BY <2>2, LockInv, BufferInv, UnlockInv, WakeupInv DEF ThreadStep
  <2>3. CASE HandlePending
    BY <2>3, HandlePendingLockInv, HandlePendingBeginInv,
       HandlePendingElementInv, HandlePendingEndInv, HandlePendingUnlockInv
    DEF HandlePending
  <2>4. CASE Dispatch
    BY <2>4, EpollWaitInv, DispatchHangUpInv, DispatchEventInv, DispatchEndInv
    DEF Dispatch
  <2> QED
    BY <1>2, <2>1, <2>2, <2>3, <2>4 DEF Next
<1> QED
  BY <1>1, <1>2

\* Inv is an invariant of the event loop.
THEOREM Invariance == Spec => []Inv
BY InitInv, NextInv, PTL DEF Spec

\* Every variable of the event loop keeps its type.
THEOREM TypeCorrect == Spec => []TypeOK
<1>1. Inv => TypeOK
  BY DEF Inv
<1> QED
  BY <1>1, Invariance, PTL

\* The mutex protects the pending list, and the assertion of
\* event_loop_do_channel_event never fails, however many threads call it.
THEOREM Protection == Spec => []ListIsProtected
<1>1. Inv => ListIsProtected
  BY DEF Inv
<1> QED
  BY <1>1, Invariance, PTL

\* A loop blocked in epoll_wait with requests pending will be woken.
THEOREM Wakeups == Spec => []NoLostWakeup
<1>1. Inv => NoLostWakeup
  BY DEF Inv
<1> QED
  BY <1>1, Invariance, PTL

\* What epoll reports can be dispatched.
THEOREM Dispatchable == Spec => []WatchedHasChannel
<1>1. Inv => WatchedHasChannel
  BY DEF Inv
<1> QED
  BY <1>1, Invariance, PTL

-----------------------------------------------------------------------------
(* EventLoop implements ChannelQueue.                                      *)

\* A step that leaves the list, the walk, the map and the epoll set alone is
\* none of the queue's business.
LEMMA Stutter ==
  ASSUME UNCHANGED <<is_handle_pending, pending, chan_elem, entries, interest>>
  PROVE  UNCHANGED Q!qvars
BY DEF Q!qvars, queue, watched

\* Queueing a request is Post.
LEMMA BufferIsPost ==
  ASSUME Inv, NEW t \in Thread, Buffer(t)
  PROVE  Q!Post \/ UNCHANGED Q!qvars
<1>1. CASE pending' = Append(pending, request[t])
  <2>1. request[t] \in Q!Request /\ is_handle_pending = 0 /\ is_handle_pending' = 0
    BY <1>1, ConstantsAssumption
    DEF Inv, TypeOK, StepsOfThreads, ListIsProtected, Buffer, Request
  <2>2. queue' = Append(queue, request[t]) /\ UNCHANGED <<entries, watched>>
    BY <1>1, <2>1 DEF queue, watched, Buffer, mapVars
  <2> QED
    BY <2>1, <2>2 DEF Q!Post
<1>2. CASE UNCHANGED pending
  BY <1>2, Stutter DEF Buffer, mapVars
<1> QED
  BY <1>1, <1>2 DEF Buffer

\* Starting the walk and ending it change nothing that is left to apply.
LEMMA WalkEnds ==
  ASSUME Inv, HandlePendingBegin \/ HandlePendingEnd
  PROVE  UNCHANGED Q!qvars
<1>1. pending \in Seq(Request) /\ Len(pending) \in Nat /\ chan_elem \in Nat
  BY LenProperties DEF Inv, TypeOK
<1>2. UNCHANGED <<entries, watched>>
  BY DEF HandlePendingBegin, HandlePendingEnd, mapVars, watched
<1>3. CASE HandlePendingBegin
  <2>1. queue = pending
    BY <1>3, ConstantsAssumption DEF Inv, WalkInv, TypeOK, HandlePendingBegin, queue
  <2>2. queue' = SubSeq(pending, 1, Len(pending))
    BY <1>3 DEF HandlePendingBegin, queue
  <2> QED
    BY <1>1, <1>2, <2>1, <2>2, SubSeqFull DEF Q!qvars
<1>4. CASE HandlePendingEnd
  <2>1. queue = SubSeq(pending, chan_elem, Len(pending))
    BY <1>4 DEF Inv, WalkInv, HandlePendingEnd, queue
  <2>2. queue = <<>>
    BY <1>1, <1>4, <2>1, SubSeqEmpty DEF HandlePendingEnd
  <2>3. queue' = <<>>
    BY <1>4 DEF HandlePendingEnd, queue
  <2> QED
    BY <1>2, <2>2, <2>3 DEF Q!qvars
<1> QED
  BY <1>3, <1>4

\* Applying a request is the Apply step of its type.
LEMMA ElementIsApply ==
  ASSUME Inv, process = "running", HandlePendingElement
  PROVE  Q!ApplyAdd \/ Q!ApplyRemove \/ Q!ApplyUpdate \/ UNCHANGED Q!qvars
<1> DEFINE r == pending[chan_elem]
           c == r.chan
           fd == FdOf[c]
<1>1. /\ Len(pending) \in Nat
      /\ chan_elem \in 1 .. Len(pending)
      /\ pending \in Seq(Request)
      /\ c \in Channel /\ fd \in Fd /\ fd # WakeFd /\ c # NULL
  BY WalkedRequest, ConstantsAssumption DEF Inv, TypeOK
<1>2. is_handle_pending = 1 /\ is_handle_pending' = 1 /\ pending' = pending
  BY DEF Inv, WalkInv, HandlePendingElement
<1>3. queue = SubSeq(pending, chan_elem, Len(pending))
  BY <1>2 DEF queue
<1>4. /\ queue # <<>>
      /\ Head(queue) = r
      /\ Tail(queue) = SubSeq(pending, chan_elem + 1, Len(pending))
  <2>1. Head(queue) = r /\ Tail(queue) = SubSeq(pending, chan_elem + 1, Len(pending))
    BY <1>1, <1>3, HeadTailOfSubSeq
  <2>2. \A i \in chan_elem .. Len(pending) : pending[i] \in Request
    BY <1>1, ElementOfSeq
  <2>3. Len(queue) = Len(pending) - chan_elem + 1
    BY <1>1, <1>3, <2>2, SubSeqProperties
  <2> QED
    BY <1>1, <2>1, <2>3
<1>5. /\ interest \in [Fd -> SUBSET EpollEvent]
      /\ entries \in [Fd -> Channel \cup {WakeChan, NULL}]
      /\ interest[fd] # {} => entries[fd] # NULL
      /\ entries[fd] # NULL => fd < nentries
      /\ Fd \subseteq Nat /\ nentries \in Nat
  BY <1>1, ConstantsAssumption, MapSizesAssumption
  DEF Inv, TypeOK, WatchedHasChannel, MapInv
<1>6. epoll_events(events[c]) # {}
  BY <1>1, EpollEvents DEF Inv, TypeOK, EventsInv
<1>7. CASE process' # "running"
  <2>1. UNCHANGED <<chan_elem, entries, interest>>
    BY <1>7 DEF HandlePendingElement, event_loop_handle_pending_add,
       event_loop_handle_pending_remove, event_loop_handle_pending_update,
       mapVars
  <2> QED
    BY <1>2, <2>1, Stutter DEF HandlePendingElement
<1>8. CASE process' = "running"
  <2>1. queue' = Tail(queue)
    BY <1>2, <1>4, <1>8 DEF HandlePendingElement, queue
  <2> HIDE DEF c
  <2>2. CASE r.type = "ADD" /\ event_loop_handle_pending_add(c)
    <3>1. CASE /\ entries[fd] = NULL
               /\ entries' = [entries EXCEPT ![fd] = c]
               /\ interest' = IF interest[fd] = {}
                              THEN [interest EXCEPT ![fd] = epoll_events(events[c])]
                              ELSE interest
      <4>1. watched' = watched \cup {fd}
        BY <1>1, <1>5, <1>6, <3>1 DEF watched
      <4> QED
        BY <1>4, <2>1, <2>2, <3>1, <4>1 DEF Q!ApplyAdd, c
    <3>2. CASE /\ entries[fd] # NULL \/ c \in Failing
               /\ UNCHANGED <<entries, interest>>
      BY <1>4, <2>1, <2>2, <3>2 DEF Q!ApplyAdd, watched, c
    <3> QED
      BY <2>2, <3>1, <3>2 DEF event_loop_handle_pending_add, mapVars
  <2>3. CASE r.type = "REMOVE" /\ event_loop_handle_pending_remove(c)
    <3>1. /\ entries' = [entries EXCEPT ![fd] = NULL]
          /\ interest' = [interest EXCEPT ![fd] = {}]
      <4>1. CASE fd >= nentries /\ UNCHANGED mapVars
        BY <1>1, <1>5, <4>1 DEF mapVars
      <4> QED
        BY <1>8, <2>3, <4>1 DEF event_loop_handle_pending_remove
    <3>2. watched' = watched \ {fd}
      BY <1>1, <1>5, <3>1 DEF watched
    <3> QED
      BY <1>4, <2>1, <2>3, <3>1, <3>2 DEF Q!ApplyRemove, c
  <2>4. CASE r.type = "UPDATE" /\ event_loop_handle_pending_update(c)
    <3>1. /\ entries' = entries
          /\ \/ interest' = interest
             \/ /\ interest[fd] # {}
                /\ interest' = [interest EXCEPT ![fd] = epoll_events(events[c])]
      BY <1>8, <2>4 DEF event_loop_handle_pending_update, mapVars
    <3>2. watched' = watched
      BY <1>1, <1>5, <1>6, <3>1 DEF watched
    <3> QED
      BY <1>4, <2>1, <2>4, <3>1, <3>2 DEF Q!ApplyUpdate
  <2> QED
    BY <2>2, <2>3, <2>4 DEF HandlePendingElement, c
<1> QED
  BY <1>7, <1>8

\* Only a descriptor of a client hangs up.
LEMMA DispatchHangUpIsHangUp ==
  ASSUME Inv, DispatchHangUp
  PROVE  Q!HangUp \/ UNCHANGED Q!qvars
<1> DEFINE fd == Head(batch).fd
<1>1. Head(batch) \in Report
  BY BatchShrinks DEF DispatchHangUp
<1>2. fd \in Fd /\ batch \in Seq(Report) /\ Len(batch) \in Nat \ {0} /\ Head(batch) = batch[1]
  BY <1>1, EmptySeq DEF Report, DispatchHangUp, Inv, TypeOK
<1>3. fd # WakeFd
  BY <1>2 DEF DispatchHangUp, Inv, EventsInv
<1>4. /\ interest' = [interest EXCEPT ![fd] = {}]
      /\ UNCHANGED <<is_handle_pending, pending, chan_elem, entries>>
  BY DEF DispatchHangUp, loopVars
<1>5. watched' = watched \ {fd}
  BY <1>2, <1>4 DEF watched, Inv, TypeOK
<1>6. UNCHANGED <<queue, entries>>
  BY <1>4 DEF queue
<1>7. CASE fd \in watched
  BY <1>3, <1>5, <1>6, <1>7 DEF Q!HangUp
<1>8. CASE fd \notin watched
  BY <1>5, <1>6, <1>8 DEF Q!qvars
<1> QED
  BY <1>7, <1>8

\* Every step of the loop is a step or a stutter of ChannelQueue.
LEMMA StepSimulation ==
  ASSUME Inv, [Next]_vars
  PROVE  [Q!QueueNext]_(Q!qvars)
<1> USE DEF loopVars, mapVars
<1>1. CASE UNCHANGED vars
  BY <1>1, Stutter DEF vars
<1>2. ASSUME NEW t \in Poster, PosterCall(t) PROVE UNCHANGED Q!qvars
  BY <1>2, Stutter DEF PosterCall
<1>3. ASSUME NEW t \in Thread, ThreadStep(t)
      PROVE  Q!Post \/ UNCHANGED Q!qvars
  BY <1>3, BufferIsPost, Stutter DEF ThreadStep, Lock, Unlock, event_loop_wakeup
<1>4. ASSUME HandlePending, process = "running"
      PROVE  Q!ApplyAdd \/ Q!ApplyRemove \/ Q!ApplyUpdate \/ UNCHANGED Q!qvars
  BY <1>4, WalkEnds, ElementIsApply, Stutter
  DEF HandlePending, HandlePendingLock, HandlePendingUnlock
<1>5. ASSUME Dispatch PROVE Q!HangUp \/ UNCHANGED Q!qvars
  BY <1>5, DispatchHangUpIsHangUp, Stutter
  DEF Dispatch, EpollWait, DispatchEvent, DispatchEnd
<1> QED
  BY <1>1, <1>2, <1>3, <1>4, <1>5 DEF Next, Q!QueueNext

\* The event loop applies every request exactly once and in order, and touches
\* the map in no other way.
THEOREM Refinement == Spec => ImplementsChannelQueue
<1>1. Init => Q!QueueInit
  <2> SUFFICES ASSUME Init PROVE Q!QueueInit
    OBVIOUS
  <2>1. queue = <<>>
    BY DEF Init, queue
  <2>2. watched = {WakeFd}
    BY ConstantsAssumption DEF Init, watched
  <2> QED
    BY <2>1, <2>2 DEF Init, Q!QueueInit
<1>2. Inv /\ [Next]_vars => [Q!QueueNext]_(Q!qvars)
  BY StepSimulation
<1> QED
  BY <1>1, <1>2, Invariance, PTL DEF Spec, Q!QueueSpec, ImplementsChannelQueue
=============================================================================
