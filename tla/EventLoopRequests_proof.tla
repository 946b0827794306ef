----------------------- MODULE EventLoopRequests_proof -----------------------
(***************************************************************************)
(* Proofs about the requests on their way through an EventLoop: what is    *)
(* known of a channel while a request about it is on its way, and the two  *)
(* properties that follow, the complete list of what makes a loop fail,    *)
(* and that a channel that was added goes unwatched only behind the stale  *)
(* entry of another.                                                       *)
(***************************************************************************)
EXTENDS EventLoop_proof

\* What Inv says of the types, in the form the lemmas below use.
LEMMA Types ==
  ASSUME Inv
  PROVE  /\ pc \in [Thread -> Label]
         /\ request \in [Thread -> Request \cup {NULL}]
         /\ pending \in Seq(Request)
         /\ Len(pending) \in Nat
         /\ entries \in [Fd -> Channel \cup {WakeChan, NULL}]
         /\ events \in [Channel -> SUBSET Event]
         /\ interest \in [Fd -> SUBSET EpollEvent]
         /\ batch \in Seq(Report)
         /\ Len(batch) \in Nat
         /\ \A i \in 1 .. Len(batch) : batch[i].fd \in Fd
         /\ holder \in [Fd -> Channel \cup {WakeChan, NULL}]
         /\ stage \in [Channel -> Stage]
         /\ Owner \in Thread /\ Poster \subseteq Thread
         /\ \A c \in Channel : FdOf[c] \in Fd \ {WakeFd}
         /\ \A c \in Channel : c # NULL /\ c # WakeChan
<1>1. batch \in Seq(Report) /\ pending \in Seq(Request)
  BY DEF Inv, TypeOK, Report
<1>2. Len(batch) \in Nat /\ Len(pending) \in Nat
  BY <1>1, LenProperties
<1>3. \A i \in 1 .. Len(batch) : batch[i] \in Report
  BY <1>1, ElementOfSeq
<1>4. \A i \in 1 .. Len(batch) : batch[i].fd \in Fd
  BY <1>3 DEF Report
<1> QED
  BY <1>1, <1>2, <1>4, ConstantsAssumption DEF Inv, TypeOK, Label, Stage, Thread

\* What dispatching does to the batch: nothing new comes in.
BatchIsPart ==
  /\ \A i \in 1 .. Len(batch') : \E j \in 1 .. Len(batch) : batch'[i].fd = batch[j].fd
  /\ \A i, j \in 1 .. Len(batch') : batch'[i].fd = batch'[j].fd => i = j

\* Nothing is known less of a batch that loses reports.
LEMMA BatchPart ==
  ASSUME RequestInv, BatchIsPart
  PROVE  \A i \in 1 .. Len(batch') :
           /\ \E j \in 1 .. Len(batch) : batch'[i].fd = batch[j].fd
           /\ holder[batch'[i].fd] # NULL
           /\ entries[batch'[i].fd] \in {NULL, holder[batch'[i].fd]}
           /\ \A j \in 1 .. Len(batch') : batch'[j].fd = batch'[i].fd => j = i
<1> SUFFICES ASSUME NEW i \in 1 .. Len(batch')
             PROVE  /\ \E j \in 1 .. Len(batch) : batch'[i].fd = batch[j].fd
                    /\ holder[batch'[i].fd] # NULL
                    /\ entries[batch'[i].fd] \in {NULL, holder[batch'[i].fd]}
                    /\ \A j \in 1 .. Len(batch') : batch'[j].fd = batch'[i].fd => j = i
  OBVIOUS
<1>1. PICK j \in 1 .. Len(batch) : batch'[i].fd = batch[j].fd
  BY DEF BatchIsPart
<1> QED
  BY <1>1 DEF RequestInv, WatchedIsHeld, BatchIsPart

-----------------------------------------------------------------------------
(* Steps that are none of the requests' business.                          *)

\* A step that moves no request, or only drops a list that was all applied,
\* leaves the same requests on their way.
LEMMA SameOnItsWay ==
  ASSUME \A t \in Thread : pc[t] \in {"lock", "buffer"} => request'[t] = request[t],
         \A t \in Thread : pc'[t] \in {"lock", "buffer"} <=> pc[t] \in {"lock", "buffer"},
         \/ pending' = pending /\ ToApply' = ToApply
         \/ ToApply' = {} /\ ToApply = {},
         NEW type, NEW c
  PROVE  /\ OnItsWay(type, c)' <=> OnItsWay(type, c)
         /\ \A t \in Thread : InHand(t, type, c)' <=> InHand(t, type, c)
<1>1. \A t \in Thread : InHand(t, type, c)' <=> InHand(t, type, c)
  BY DEF InHand
<1>2. (\E i \in ToApply' : InList(i, type, c)') <=> \E i \in ToApply : InList(i, type, c)
  BY DEF InList
<1> QED
  BY <1>1, <1>2 DEF OnItsWay

\* The same requests to add and to remove are in hand.
SameInHand ==
  \A t \in Thread : \A c :
    /\ InHand(t, "ADD", c)' <=> InHand(t, "ADD", c)
    /\ InHand(t, "REMOVE", c)' <=> InHand(t, "REMOVE", c)

\* The once-only requests are still so when none is made, whatever is dropped.
LEMMA OnceKept ==
  ASSUME RequestInv, SameInHand, pending' = pending \/ pending' = <<>>,
         \A c \in Channel : \/ stage'[c] = stage[c]
                            \/ stage[c] = "new" /\ stage'[c] = "open",
         \A fd \in Fd : entries'[fd] \in Channel =>
           stage'[entries'[fd]] \in {"added", "removed"}
  PROVE  AddedOnce' /\ RemovedOnce'
<1>1. \A i \in 1 .. Len(pending') : i \in 1 .. Len(pending) /\ pending'[i] = pending[i]
  OBVIOUS
<1>2. \A i \in 1 .. Len(pending') : \A type, c : InList(i, type, c)' <=> InList(i, type, c)
  BY <1>1 DEF InList
<1>3. AddedOnce /\ RemovedOnce
  BY DEF RequestInv
<1>4. AddedOnce'
  BY <1>1, <1>2, <1>3 DEF AddedOnce, SameInHand
<1>5. RemovedOnce'
  BY <1>1, <1>2, <1>3 DEF RemovedOnce, SameInHand
<1> QED
  BY <1>4, <1>5

\* Such a step keeps RequestInv.
LEMMA QuietStep ==
  ASSUME RequestInv,
         UNCHANGED <<entries, interest, holder, stage>>,
         \A t \in Thread : pc[t] \in {"lock", "buffer"} => request'[t] = request[t],
         batch' = batch \/ BatchIsPart,
         \A t \in Thread : pc'[t] \in {"lock", "buffer"} <=> pc[t] \in {"lock", "buffer"},
         \/ pending' = pending /\ ToApply' = ToApply
         \/ pending' = <<>> /\ ToApply' = {} /\ ToApply = {}
  PROVE  RequestInv'
<1>1. \A type, c : /\ OnItsWay(type, c)' <=> OnItsWay(type, c)
                   /\ \A t \in Thread : InHand(t, type, c)' <=> InHand(t, type, c)
  BY SameOnItsWay
<1>2. AddedOnce' /\ RemovedOnce'
  <2>1. SameInHand
    BY <1>1 DEF SameInHand
  <2> QED
    BY <2>1, OnceKept DEF RequestInv, AddedOnce
<1>3. BatchIsPart
  BY DEF RequestInv, WatchedIsHeld, BatchIsPart
<1>4. AddsAreFresh'
  <2>1. \A c : OnItsWay("ADD", c)' <=> OnItsWay("ADD", c)
    BY <1>1
  <2> QED
    BY <1>3, <2>1 DEF RequestInv, AddsAreFresh, BatchIsPart
<1>5. WatchedIsHeld'
  BY <1>3, BatchPart DEF RequestInv, WatchedIsHeld
<1> QED
  BY <1>2, <1>4, <1>5 DEF RequestInv

-----------------------------------------------------------------------------
(* Calls.                                                                  *)

\* A call adds its own request to those on their way.
LEMMA CallOnItsWay ==
  ASSUME Inv, NEW t \in Thread, NEW type0, NEW c0, Calls(t, type0, c0),
         pc[t] \notin {"lock", "buffer", "hp_walk"},
         UNCHANGED <<pending, chan_elem>>,
         NEW type, NEW c
  PROVE  /\ OnItsWay(type, c)' <=> OnItsWay(type, c) \/ (type = type0 /\ c = c0)
         /\ \A u \in Thread :
              InHand(u, type, c)' <=> \/ u # t /\ InHand(u, type, c)
                                      \/ u = t /\ type = type0 /\ c = c0
         /\ ~InHand(t, type, c)
<1>1. /\ pc \in [Thread -> Label]
      /\ request \in [Thread -> Request \cup {NULL}]
      /\ pc' = [pc EXCEPT ![t] = "lock"]
      /\ request' = [request EXCEPT ![t] = [type |-> type0, chan |-> c0]]
  BY Types DEF Calls, Goto
<1>2. \A u \in Thread :
        InHand(u, type, c)' <=> \/ u # t /\ InHand(u, type, c)
                                \/ u = t /\ type = type0 /\ c = c0
  <2> TAKE u \in Thread
  <2>1. CASE u = t
    <3>1. /\ pc'[u] = "lock" /\ request'[u] = [type |-> type0, chan |-> c0]
      BY <1>1, <2>1
    <3>2. request'[u].type = type0 /\ request'[u].chan = c0
      BY <3>1
    <3> QED
      BY <2>1, <3>1, <3>2 DEF InHand
  <2>2. CASE u # t
    BY <1>1, <2>2 DEF InHand
  <2> QED
    BY <2>1, <2>2
<1>3. ~InHand(t, type, c)
  BY DEF InHand
<1>4. ToApply' = ToApply
  BY <1>1 DEF ToApply
<1>5. (\E i \in ToApply' : InList(i, type, c)') <=> \E i \in ToApply : InList(i, type, c)
  BY <1>4 DEF InList
<1>6. (\E u \in Thread : InHand(u, type, c)')
      <=> (\E u \in Thread : InHand(u, type, c)) \/ (type = type0 /\ c = c0)
  BY <1>2, <1>3
<1> QED
  BY <1>2, <1>3, <1>5, <1>6 DEF OnItsWay

\* A call leaves the requests of another kind as they were.
LEMMA CallOfAnotherKind ==
  ASSUME Inv, NEW t \in Thread, NEW type0, NEW c0, Calls(t, type0, c0),
         pc[t] \notin {"lock", "buffer", "hp_walk"},
         UNCHANGED <<pending, chan_elem>>,
         NEW type, type # type0, NEW c
  PROVE  /\ OnItsWay(type, c)' <=> OnItsWay(type, c)
         /\ \A u \in Thread : InHand(u, type, c)' <=> InHand(u, type, c)
<1>1. /\ OnItsWay(type, c)' <=> OnItsWay(type, c) \/ (type = type0 /\ c = c0)
      /\ \A u \in Thread :
           InHand(u, type, c)' <=> \/ u # t /\ InHand(u, type, c)
                                   \/ u = t /\ type = type0 /\ c = c0
      /\ ~InHand(t, type, c)
  BY CallOnItsWay
<1> QED
  BY <1>1

\* And those of its own kind but for one.
LEMMA CallOfItsKind ==
  ASSUME Inv, NEW t \in Thread, NEW type0, NEW c0, Calls(t, type0, c0),
         pc[t] \notin {"lock", "buffer", "hp_walk"},
         UNCHANGED <<pending, chan_elem>>, NEW c
  PROVE  /\ OnItsWay(type0, c)' <=> OnItsWay(type0, c) \/ c = c0
         /\ \A u \in Thread :
              InHand(u, type0, c)' <=> InHand(u, type0, c) \/ (u = t /\ c = c0)
<1>1. /\ OnItsWay(type0, c)' <=> OnItsWay(type0, c) \/ (type0 = type0 /\ c = c0)
      /\ \A u \in Thread :
           InHand(u, type0, c)' <=> \/ u # t /\ InHand(u, type0, c)
                                    \/ u = t /\ type0 = type0 /\ c = c0
      /\ ~InHand(t, type0, c)
  BY CallOnItsWay
<1> QED
  BY <1>1

\* A descriptor that is to be taken is watched by no one, and no event of it is
\* left to dispatch.
LEMMA FreeDescriptor ==
  ASSUME Inv, RequestInv, NEW c \in Channel, holder[FdOf[c]] = NULL
  PROVE  /\ interest[FdOf[c]] = {}
         /\ \A i \in 1 .. Len(batch) : batch[i].fd # FdOf[c]
<1>1. FdOf[c] \in Fd
  BY Types
<1>2. \A i \in 1 .. Len(batch) : batch[i].fd # FdOf[c]
  BY DEF RequestInv, WatchedIsHeld
<1>3. interest[FdOf[c]] = {}
  BY <1>1 DEF RequestInv, WatchedIsHeld, Inv, WatchedHasChannel
<1> QED
  BY <1>2, <1>3

\* AddsAreFresh and WatchedIsHeld, when a channel takes a free descriptor, or
\* goes on with its own before it is added.
LEMMA TakingADescriptor ==
  ASSUME Inv, RequestInv, NEW c \in Channel, BatchIsPart,
         UNCHANGED <<entries, interest>>,
         stage[c] \in {"new", "open"}, stage[c] = "new" => holder[FdOf[c]] = NULL,
         holder' = [holder EXCEPT ![FdOf[c]] = c],
         \A d \in Channel : d # c => stage'[d] = stage[d],
         \A d \in Channel : d # c /\ OnItsWay("ADD", d)' => OnItsWay("ADD", d)
  PROVE  AddsAreFresh' /\ WatchedIsHeld'
<1> DEFINE fd == FdOf[c]
<1>1. /\ fd \in Fd
      /\ holder \in [Fd -> Channel \cup {WakeChan, NULL}]
      /\ \A d \in Channel : d # NULL /\ FdOf[d] \in Fd
      /\ \A i \in 1 .. Len(batch) : batch[i].fd \in Fd
  BY Types
<1>2. /\ holder[fd] \in {NULL, c}
      /\ interest[fd] = {}
      /\ \A i \in 1 .. Len(batch) : batch[i].fd # fd
  BY FreeDescriptor DEF RequestInv, AddsAreFresh
<1>3. AddsAreFresh'
  <2> SUFFICES ASSUME NEW d \in Channel, stage'[d] = "open" \/ OnItsWay("ADD", d)'
               PROVE  /\ holder'[FdOf[d]] = d
                      /\ interest[FdOf[d]] = {}
                      /\ entries[FdOf[d]] # d
                      /\ \A i \in 1 .. Len(batch') : batch'[i].fd # FdOf[d]
    BY DEF AddsAreFresh
  <2>1. CASE d = c
    <3>1. entries[fd] # c
      BY <1>1 DEF RequestInv, AddedOnce
    <3> QED
      BY <1>1, <1>2, <2>1, <3>1 DEF BatchIsPart
  <2>2. CASE d # c
    <3>1. /\ holder[FdOf[d]] = d /\ interest[FdOf[d]] = {} /\ entries[FdOf[d]] # d
          /\ \A i \in 1 .. Len(batch) : batch[i].fd # FdOf[d]
      BY <2>2 DEF RequestInv, AddsAreFresh
    <3>2. FdOf[d] # fd
      BY <1>1, <1>2, <2>2, <3>1
    <3> QED
      BY <1>1, <3>1, <3>2 DEF BatchIsPart
  <2> QED
    BY <2>1, <2>2
<1>4. WatchedIsHeld'
  <2>1. \A i \in 1 .. Len(batch') : batch'[i].fd \in Fd /\ batch'[i].fd # fd
    BY <1>1, <1>2 DEF BatchIsPart
  <2>2. \A d \in Fd \ {fd} : holder'[d] = holder[d]
    BY <1>1
  <2>3. \A i \in 1 .. Len(batch') : holder'[batch'[i].fd] = holder[batch'[i].fd]
    BY <2>1, <2>2
  <2>4. \A d \in Fd : interest[d] # {} => holder'[d] = entries[d]
    BY <1>2, <2>2 DEF RequestInv, WatchedIsHeld
  <2> QED
    BY <2>3, <2>4, BatchPart DEF WatchedIsHeld
<1> QED
  BY <1>3, <1>4

\* A call to add a channel keeps RequestInv.
LEMMA AddCallRequest ==
  ASSUME Inv, RequestInv, NEW t \in Thread, NEW c \in Channel, AddCall(t, c),
         pc[t] \notin {"lock", "buffer", "hp_walk"}, BatchIsPart,
         UNCHANGED <<pending, chan_elem, entries, interest>>
  PROVE  RequestInv'
<1>1. /\ Calls(t, "ADD", c)
      /\ stage[c] \in {"new", "open"} /\ stage' = [stage EXCEPT ![c] = "adding"]
  BY DEF AddCall
<1>2. \A type, d :
        /\ OnItsWay(type, d)' <=> OnItsWay(type, d) \/ (type = "ADD" /\ d = c)
        /\ \A u \in Thread :
             InHand(u, type, d)' <=> \/ u # t /\ InHand(u, type, d)
                                     \/ u = t /\ type = "ADD" /\ d = c
  BY <1>1, CallOnItsWay
<1>3. stage \in [Channel -> Stage]
  BY Types
<1>4. \A i \in 1 .. Len(pending) : \A type, d : InList(i, type, d)' <=> InList(i, type, d)
  BY DEF InList
<1>5. AddedOnce'
  <2>1. \A u \in Thread : \A d : InHand(u, "ADD", d)' <=> \/ u # t /\ InHand(u, "ADD", d)
                                                          \/ u = t /\ d = c
    BY <1>2
  <2>2. AddedOnce
    BY DEF RequestInv
  <2> QED
    BY <1>1, <1>3, <1>4, <2>1, <2>2 DEF AddedOnce
<1>6. RemovedOnce'
  <2>1. \A u \in Thread : \A d : InHand(u, "REMOVE", d)' <=> InHand(u, "REMOVE", d)
    BY <1>1, CallOfAnotherKind
  <2>2. RemovedOnce
    BY DEF RequestInv
  <2>3. \A d \in Channel : stage[d] = "removed" => stage'[d] = "removed"
    BY <1>1, <1>3
  <2> QED
    BY <1>4, <2>1, <2>2, <2>3 DEF RemovedOnce
<1>7. AddsAreFresh' /\ WatchedIsHeld'
  <2>1. \A d \in Channel : d # c => stage'[d] = stage[d]
    BY <1>1, <1>3
  <2>2. \A d \in Channel : d # c /\ OnItsWay("ADD", d)' => OnItsWay("ADD", d)
    BY <1>2
  <2> QED
    BY <2>1, <2>2, TakingADescriptor DEF AddCall
<1> QED
  BY <1>5, <1>6, <1>7 DEF RequestInv

\* A call to remove a channel keeps RequestInv.
LEMMA RemoveCallRequest ==
  ASSUME Inv, RequestInv, NEW t \in Thread, NEW c \in Channel, RemoveCall(t, c),
         pc[t] \notin {"lock", "buffer", "hp_walk"}, BatchIsPart,
         UNCHANGED <<pending, chan_elem, entries, interest>>
  PROVE  RequestInv'
<1>1. /\ Calls(t, "REMOVE", c)
      /\ stage[c] = "added" /\ stage' = [stage EXCEPT ![c] = "removed"]
      /\ holder' = holder
  BY DEF RemoveCall
<1>2. \A type, d :
        /\ OnItsWay(type, d)' <=> OnItsWay(type, d) \/ (type = "REMOVE" /\ d = c)
        /\ \A u \in Thread :
             InHand(u, type, d)' <=> \/ u # t /\ InHand(u, type, d)
                                     \/ u = t /\ type = "REMOVE" /\ d = c
  BY <1>1, CallOnItsWay
<1>3. \A d \in Channel : \/ stage'[d] = stage[d]
                         \/ d = c /\ stage[d] = "added" /\ stage'[d] = "removed"
  BY <1>1, Types
<1>4. \A i \in 1 .. Len(pending) : \A type, d : InList(i, type, d)' <=> InList(i, type, d)
  BY DEF InList
<1>a. stage'[c] = "removed"
  BY <1>1, Types
<1>5. AddedOnce'
  <2>1. \A u \in Thread : \A d : InHand(u, "ADD", d)' <=> InHand(u, "ADD", d)
    BY <1>1, CallOfAnotherKind
  <2>2. AddedOnce
    BY DEF RequestInv
  <2> QED
    BY <1>3, <1>4, <2>1, <2>2 DEF AddedOnce
<1>6. RemovedOnce'
  <2>1. \A u \in Thread : \A d :
          InHand(u, "REMOVE", d)' <=> InHand(u, "REMOVE", d) \/ (u = t /\ d = c)
    BY <1>1, CallOfItsKind
  <2>2. RemovedOnce
    BY DEF RequestInv
  <2>3. /\ \A u \in Thread : ~InHand(u, "REMOVE", c)
        /\ \A i \in 1 .. Len(pending) : ~InList(i, "REMOVE", c)
    BY <1>1, <2>2 DEF RemovedOnce
  <2> QED
    BY <1>3, <1>4, <1>a, <2>1, <2>2, <2>3 DEF RemovedOnce
<1>7. AddsAreFresh'
  BY <1>1, <1>2, <1>3 DEF RequestInv, AddsAreFresh, BatchIsPart
<1>8. WatchedIsHeld'
  BY <1>1, BatchPart DEF RequestInv, WatchedIsHeld
<1> QED
  BY <1>5, <1>6, <1>7, <1>8 DEF RequestInv

\* A step about a channel whose descriptor is open, or is taken, that makes no
\* request to add or remove, keeps RequestInv.
LEMMA OpenedRequest ==
  ASSUME Inv, RequestInv, NEW c \in Channel, Opened(c), BatchIsPart, SameInHand,
         \A d : OnItsWay("ADD", d)' <=> OnItsWay("ADD", d),
         UNCHANGED <<pending, entries, interest>>
  PROVE  RequestInv'
<1>1. \A d \in Channel : \/ stage'[d] = stage[d]
                         \/ stage[d] = "new" /\ stage'[d] = "open"
  BY Types DEF Opened
<1>2. AddedOnce' /\ RemovedOnce'
  BY <1>1, OnceKept DEF RequestInv, AddedOnce
<1>3. AddsAreFresh' /\ WatchedIsHeld'
  <2>1. CASE UNCHANGED <<holder, stage>>
    <3>1. AddsAreFresh'
      BY <2>1 DEF RequestInv, AddsAreFresh, BatchIsPart
    <3>2. WatchedIsHeld'
      BY <2>1, BatchPart DEF RequestInv, WatchedIsHeld
    <3> QED
      BY <3>1, <3>2
  <2>2. CASE stage[c] = "new" /\ stage' = [stage EXCEPT ![c] = "open"]
             /\ holder[FdOf[c]] = NULL /\ holder' = [holder EXCEPT ![FdOf[c]] = c]
    <3>1. \A d \in Channel : d # c => stage'[d] = stage[d]
      BY <2>2, Types
    <3> QED
      BY <2>2, <3>1, TakingADescriptor
  <2> QED
    BY <2>1, <2>2 DEF Opened
<1> QED
  BY <1>2, <1>3 DEF RequestInv

\* A call to update a channel keeps RequestInv.
LEMMA UpdateCallRequest ==
  ASSUME Inv, RequestInv, NEW t \in Thread, NEW c \in Channel, UpdateCall(t, c),
         pc[t] \notin {"lock", "buffer", "hp_walk"}, BatchIsPart,
         UNCHANGED <<pending, chan_elem, entries, interest>>
  PROVE  RequestInv'
<1>1. Calls(t, "UPDATE", c) /\ Opened(c)
  BY DEF UpdateCall
<1>3. /\ \A u \in Thread : \A d : InHand(u, "ADD", d)' <=> InHand(u, "ADD", d)
      /\ \A u \in Thread : \A d : InHand(u, "REMOVE", d)' <=> InHand(u, "REMOVE", d)
      /\ \A d : OnItsWay("ADD", d)' <=> OnItsWay("ADD", d)
  BY <1>1, CallOfAnotherKind
<1>4. SameInHand
  BY <1>3 DEF SameInHand
<1> QED
  BY <1>1, <1>3, <1>4, OpenedRequest

\* A call on chan->data leaves the requests on their way as they were.
LEMMA AstrayOnItsWay ==
  ASSUME Inv, NEW t \in Thread, NEW c0, CallsOnData(t, c0),
         pc[t] \notin {"lock", "buffer", "hp_walk"},
         UNCHANGED <<pending, chan_elem>>,
         NEW type, NEW c
  PROVE  /\ OnItsWay(type, c)' <=> OnItsWay(type, c)
         /\ \A u \in Thread : InHand(u, type, c)' <=> InHand(u, type, c)
<1>1. /\ pc' = [pc EXCEPT ![t] = "astray"]
      /\ request' = [request EXCEPT ![t] = [type |-> "UPDATE", chan |-> c0]]
  BY DEF CallsOnData, Goto
<1>2. \A u \in Thread : pc'[u] \in {"lock", "buffer"} <=> pc[u] \in {"lock", "buffer"}
  BY <1>1, Types
<1>3. \A u \in Thread : pc[u] \in {"lock", "buffer"} => request'[u] = request[u]
  BY <1>1, Types
<1>4. ToApply' = ToApply
  BY <1>1, Types DEF ToApply
<1> QED
  BY <1>2, <1>3, <1>4, SameOnItsWay

\* A request for write events keeps RequestInv: it never gets to a loop.
LEMMA WriteEventRequest ==
  ASSUME Inv, RequestInv, NEW t \in Thread, NEW c \in Channel,
         \/ channel_write_event_enable(t, c)
         \/ channel_write_event_disable(t, c),
         pc[t] \notin {"lock", "buffer", "hp_walk"}, BatchIsPart,
         UNCHANGED <<pending, chan_elem, entries, interest>>
  PROVE  RequestInv'
<1>1. CallsOnData(t, c) /\ Opened(c)
  BY DEF channel_write_event_enable, channel_write_event_disable
<1>2. \A type, d : /\ OnItsWay(type, d)' <=> OnItsWay(type, d)
                   /\ \A u \in Thread : InHand(u, type, d)' <=> InHand(u, type, d)
  BY <1>1, AstrayOnItsWay
<1>3. SameInHand /\ \A d : OnItsWay("ADD", d)' <=> OnItsWay("ADD", d)
  BY <1>2 DEF SameInHand
<1> QED
  BY <1>1, <1>3, OpenedRequest

\* So every call keeps RequestInv.
LEMMA CallRequest ==
  ASSUME Inv, RequestInv, NEW t \in Thread, NEW c \in Channel, CallAbout(t, c),
         pc[t] \notin {"lock", "buffer", "hp_walk"}, BatchIsPart,
         UNCHANGED <<pending, chan_elem, entries, interest>>
  PROVE  RequestInv'
BY AddCallRequest, RemoveCallRequest, UpdateCallRequest, WriteEventRequest DEF CallAbout

-----------------------------------------------------------------------------
(* Queueing a request and applying it.                                     *)

\* Queueing a request leaves it on its way.
LEMMA BufferOnItsWay ==
  ASSUME Inv, NEW t \in Thread, Buffer(t), pending' # pending, NEW type, NEW c
  PROVE  OnItsWay(type, c)' <=> OnItsWay(type, c)
<1> DEFINE r == request[t]
<1>0. PICK n \in Nat : n = Len(pending) + 1
  BY Types
<1>1. /\ pc[t] = "buffer"
      /\ pending' = Append(pending, r)
      /\ pc' = [pc EXCEPT ![t] = "unlock"]
      /\ UNCHANGED <<request, chan_elem>>
  BY DEF Buffer, Goto, mapVars
<1>2. /\ r \in Request /\ r.type \in {"ADD", "REMOVE", "UPDATE"} /\ r.chan \in Channel
  BY <1>1, RequestFields DEF Inv, StepsOfThreads
<1>3. /\ Len(pending') = n /\ pending'[n] = r /\ n \in Nat
      /\ \A i \in 1 .. Len(pending) : pending'[i] = pending[i]
  BY <1>0, <1>1, <1>2, Types, AppendProperties
<1>4. pc[Owner] # "hp_walk" /\ pc'[Owner] # "hp_walk"
  BY <1>1, Types DEF Inv, ListIsProtected, InCriticalSection
<1>5. ToApply = 1 .. Len(pending) /\ ToApply' = 1 .. n
  BY <1>3, <1>4 DEF ToApply
<1>6. \A u \in Thread : InHand(u, type, c)' <=> u # t /\ InHand(u, type, c)
  BY <1>1, Types DEF InHand
<1>7. InHand(t, type, c) <=> r.type = type /\ r.chan = c
  BY <1>1 DEF InHand
<1>8. \A i \in 1 .. Len(pending) : InList(i, type, c)' <=> InList(i, type, c)
  BY <1>3 DEF InList
<1>9. InList(n, type, c)' <=> r.type = type /\ r.chan = c
  BY <1>3 DEF InList
<1>10. 1 .. n = (1 .. Len(pending)) \cup {n} /\ n \notin 1 .. Len(pending)
  BY <1>0, Types
<1>11. (\E i \in ToApply' : InList(i, type, c)')
          <=> (\E i \in ToApply : InList(i, type, c)) \/ (r.type = type /\ r.chan = c)
  BY <1>5, <1>8, <1>9, <1>10
<1>12. (\E u \in Thread : InHand(u, type, c))
          <=> (\E u \in Thread : InHand(u, type, c)') \/ (r.type = type /\ r.chan = c)
  BY <1>6, <1>7
<1> QED
  BY <1>11, <1>12 DEF OnItsWay

\* Queueing a request keeps RequestInv.
LEMMA BufferRequest ==
  ASSUME Inv, RequestInv, NEW t \in Thread, Buffer(t), pending' # pending
  PROVE  RequestInv'
<1> DEFINE r == request[t]
<1>0. PICK n \in Nat : n = Len(pending) + 1
  BY Types
<1>1. /\ pc[t] = "buffer"
      /\ pending' = Append(pending, r)
      /\ pc' = [pc EXCEPT ![t] = "unlock"]
      /\ stage' = IF r.type = "ADD" THEN [stage EXCEPT ![r.chan] = "added"] ELSE stage
      /\ UNCHANGED <<request, entries, interest, events, holder, batch, chan_elem>>
  BY DEF Buffer, Goto, mapVars
<1>2. /\ r \in Request /\ r.type \in {"ADD", "REMOVE", "UPDATE"} /\ r.chan \in Channel
  BY <1>1, RequestFields DEF Inv, StepsOfThreads
<1>3. /\ Len(pending') = n /\ pending'[n] = r /\ n \in Nat
      /\ \A i \in 1 .. Len(pending) : pending'[i] = pending[i]
  BY <1>0, <1>1, <1>2, Types, AppendProperties
<1>6. \A u \in Thread : \A type, c : InHand(u, type, c)' <=> u # t /\ InHand(u, type, c)
  BY <1>1, Types DEF InHand
<1>7. \A type, c : InHand(t, type, c) <=> r.type = type /\ r.chan = c
  BY <1>1 DEF InHand
<1>8. \A i \in 1 .. Len(pending) : \A type, c : InList(i, type, c)' <=> InList(i, type, c)
  BY <1>3 DEF InList
<1>9. \A type, c : InList(n, type, c)' <=> r.type = type /\ r.chan = c
  BY <1>3 DEF InList
<1>10. 1 .. n = (1 .. Len(pending)) \cup {n} /\ n \notin 1 .. Len(pending)
  BY <1>0, Types
<1>11. \A type, c : OnItsWay(type, c)' <=> OnItsWay(type, c)
  BY BufferOnItsWay
<1>12. AddedOnce'
  <2>1. AddedOnce
    BY DEF RequestInv
  <2>2. CASE r.type # "ADD"
    <3>1. \A u \in Thread : \A c : InHand(u, "ADD", c)' <=> InHand(u, "ADD", c)
      BY <1>6, <1>7, <2>2
    <3>2. \A i \in 1 .. n : \A c :
            InList(i, "ADD", c)' => i \in 1 .. Len(pending) /\ InList(i, "ADD", c)
      BY <1>8, <1>9, <1>10, <2>2
    <3>3. UNCHANGED <<stage, entries>>
      BY <1>1, <2>2
    <3> QED
      BY <1>3, <2>1, <3>1, <3>2, <3>3 DEF AddedOnce
  <2>3. CASE r.type = "ADD"
    <3> DEFINE c0 == r.chan
    <3>1. InHand(t, "ADD", c0)
      BY <1>7, <2>3
    <3>2. stage[c0] = "adding" /\ \A u \in Thread : InHand(u, "ADD", c0) => u = t
      BY <1>2, <2>1, <3>1 DEF AddedOnce
    <3>3. \A i \in 1 .. Len(pending) : ~InList(i, "ADD", c0)
      BY <1>2, <2>1, <3>2 DEF AddedOnce
    <3>4. stage'[c0] = "added" /\ \A c \in Channel \ {c0} : stage'[c] = stage[c]
      BY <1>1, <1>2, <2>3, Types
    <3>5. \A u \in Thread : \A c : InHand(u, "ADD", c)' => c # c0 /\ InHand(u, "ADD", c)
      BY <1>6, <3>2
    <3>6. \A i \in 1 .. n : \A c : InList(i, "ADD", c)' =>
            \/ c = c0 /\ i = n
            \/ c # c0 /\ i \in 1 .. Len(pending) /\ InList(i, "ADD", c)
      BY <1>8, <1>9, <1>10, <2>3, <3>3
    <3>7. \A fd \in Fd : entries[fd] \in Channel => stage'[entries[fd]] \in {"added", "removed"}
      BY <2>1, <3>4 DEF AddedOnce
    <3> HIDE DEF c0
    <3>8. ASSUME NEW c \in Channel
          PROVE  \A u \in Thread : InHand(u, "ADD", c)' =>
                   /\ stage'[c] = "adding"
                   /\ \A v \in Thread : InHand(v, "ADD", c)' => v = u
      BY <2>1, <3>4, <3>5 DEF AddedOnce
    <3>9. ASSUME NEW c \in Channel
          PROVE  \A i \in 1 .. n : InList(i, "ADD", c)' =>
                   /\ stage'[c] \in {"added", "removed"}
                   /\ \A j \in 1 .. n : InList(j, "ADD", c)' => j = i
      BY <2>1, <3>4, <3>6 DEF AddedOnce
    <3> QED
      BY <1>1, <1>3, <3>7, <3>8, <3>9 DEF AddedOnce
  <2> QED
    BY <2>2, <2>3
<1>13. RemovedOnce'
  <2>1. AddedOnce /\ RemovedOnce
    BY DEF RequestInv
  <2>2. \A c \in Channel : stage[c] = "removed" => stage'[c] = "removed"
    <3>1. CASE r.type = "ADD"
      <4>1. InHand(t, "ADD", r.chan)
        BY <1>7, <3>1
      <4>2. stage[r.chan] = "adding"
        BY <1>2, <2>1, <4>1 DEF AddedOnce
      <4> QED
        BY <1>1, <4>2, Types
    <3> QED
      BY <1>1, <3>1
  <2>3. ASSUME NEW c \in Channel
        PROVE  \A u \in Thread : InHand(u, "REMOVE", c)' =>
                 /\ stage'[c] = "removed"
                 /\ \A v \in Thread : InHand(v, "REMOVE", c)' => v = u
                 /\ \A i \in 1 .. n : ~(InList(i, "REMOVE", c)')
    <3> SUFFICES ASSUME NEW u \in Thread, InHand(u, "REMOVE", c)'
                 PROVE  /\ stage'[c] = "removed"
                        /\ \A v \in Thread : InHand(v, "REMOVE", c)' => v = u
                        /\ \A i \in 1 .. n : ~(InList(i, "REMOVE", c)')
      OBVIOUS
    <3>1. InHand(u, "REMOVE", c) /\ u # t
      BY <1>6
    <3>2. /\ stage[c] = "removed"
          /\ \A v \in Thread : InHand(v, "REMOVE", c) => v = u
          /\ \A i \in 1 .. Len(pending) : ~InList(i, "REMOVE", c)
      BY <2>1, <3>1 DEF RemovedOnce
    <3>3. ~(r.type = "REMOVE" /\ r.chan = c)
      BY <1>7, <3>1, <3>2
    <3> QED
      BY <1>6, <1>8, <1>9, <1>10, <2>2, <3>2, <3>3
  <2>4. ASSUME NEW c \in Channel
        PROVE  \A i \in 1 .. n : InList(i, "REMOVE", c)' =>
                 /\ stage'[c] = "removed"
                 /\ \A j \in 1 .. n : InList(j, "REMOVE", c)' => j = i
                 /\ \A j \in 1 .. n : InList(j, "ADD", c)' => j < i
    <3> SUFFICES ASSUME NEW i \in 1 .. n, InList(i, "REMOVE", c)'
                 PROVE  /\ stage'[c] = "removed"
                        /\ \A j \in 1 .. n : InList(j, "REMOVE", c)' => j = i
                        /\ \A j \in 1 .. n : InList(j, "ADD", c)' => j < i
      OBVIOUS
    <3>1. CASE i = n
      <4>1. r.type = "REMOVE" /\ r.chan = c
        BY <1>9, <3>1
      <4>2. InHand(t, "REMOVE", c)
        BY <1>7, <4>1
      <4>3. /\ stage[c] = "removed"
            /\ \A j \in 1 .. Len(pending) : ~InList(j, "REMOVE", c)
        BY <2>1, <4>2 DEF RemovedOnce
      <4>4. ~(InList(n, "ADD", c)')
        BY <1>9, <4>1
      <4>5. \A j \in 1 .. Len(pending) : j < n
        BY <1>0, Types
      <4> QED
        BY <1>8, <1>10, <2>2, <3>1, <4>3, <4>4, <4>5
    <3>2. CASE i # n
      <4>1. i \in 1 .. Len(pending) /\ InList(i, "REMOVE", c)
        BY <1>8, <1>10, <3>2
      <4>2. /\ stage[c] = "removed"
            /\ \A j \in 1 .. Len(pending) : InList(j, "REMOVE", c) => j = i
            /\ \A j \in 1 .. Len(pending) : InList(j, "ADD", c) => j < i
        BY <2>1, <4>1 DEF RemovedOnce
      <4>3. ~(r.type = "REMOVE" /\ r.chan = c)
        <5>1. InHand(t, "REMOVE", c) => \A j \in 1 .. Len(pending) : ~InList(j, "REMOVE", c)
          BY <2>1 DEF RemovedOnce
        <5> QED
          BY <1>7, <4>1, <5>1
      <4>4. ~(r.type = "ADD" /\ r.chan = c)
        <5>1. InHand(t, "ADD", c) => stage[c] = "adding"
          BY <2>1 DEF AddedOnce
        <5> QED
          BY <1>7, <4>2, <5>1
      <4> QED
        BY <1>8, <1>9, <1>10, <2>2, <4>2, <4>3, <4>4
    <3> QED
      BY <3>1, <3>2
  <2> QED
    BY <1>3, <2>3, <2>4 DEF RemovedOnce
<1>14. AddsAreFresh'
  <2>1. \A c \in Channel : stage'[c] = "open" => stage[c] = "open"
    BY <1>1, Types
  <2> QED
    BY <1>1, <1>11, <2>1 DEF RequestInv, AddsAreFresh
<1>15. WatchedIsHeld'
  BY <1>1 DEF RequestInv, WatchedIsHeld
<1> QED
  BY <1>12, <1>13, <1>14, <1>15 DEF RequestInv

\* Applying a request keeps RequestInv: a fresh channel is watched where nothing
\* is left of another.
LEMMA ElementRequest ==
  ASSUME Inv, RequestInv, process = "running", HandlePendingElement
  PROVE  RequestInv'
<1> DEFINE r == pending[chan_elem]
<1>1. PICK c \in Channel : c = r.chan
  BY WalkedRequest
<1> DEFINE fd == FdOf[c]
<1>2. /\ chan_elem \in 1 .. Len(pending) /\ Len(pending) \in Nat
      /\ r \in Request /\ r.type \in {"ADD", "REMOVE", "UPDATE"}
      /\ fd \in Fd /\ c # NULL
  BY <1>1, WalkedRequest, RequestFields, Types
<1>3. /\ UNCHANGED <<pc, request, pending, holder, stage, batch>>
      /\ pc[Owner] = "hp_walk"
  BY DEF HandlePendingElement, clientVars
<1>4. ToApply = chan_elem .. Len(pending) /\ ToApply' = chan_elem' .. Len(pending)
  BY <1>3 DEF ToApply
<1>5. CASE process' # "running"
  <2>1. UNCHANGED <<chan_elem, entries, interest>>
    BY <1>5 DEF HandlePendingElement, event_loop_handle_pending_add,
       event_loop_handle_pending_remove, event_loop_handle_pending_update, mapVars
  <2>2. ToApply' = ToApply
    BY <1>4, <2>1
  <2> QED
    BY <1>3, <2>1, <2>2, QuietStep
<1>6. CASE process' = "running"
  <2>1. chan_elem' = chan_elem + 1 /\ chan_elem \in Nat
    BY <1>2, <1>6 DEF HandlePendingElement
  <2>2. /\ chan_elem \in ToApply /\ ToApply' = ToApply \ {chan_elem}
        /\ ToApply \subseteq 1 .. Len(pending)
    BY <1>2, <1>4, <2>1
  <2>3. \A u \in Thread : \A type, d : InHand(u, type, d)' <=> InHand(u, type, d)
    BY <1>3 DEF InHand
  <2>4. \A i, type, d : InList(i, type, d)' <=> InList(i, type, d)
    BY <1>3 DEF InList
  <2>5. \A type, d : InList(chan_elem, type, d) <=> r.type = type /\ c = d
    BY <1>1 DEF InList
  <2>6. \A type, d : OnItsWay(type, d)' => OnItsWay(type, d)
    BY <2>2, <2>3, <2>4 DEF OnItsWay
  <2>7. \A type, d : OnItsWay(type, d) => OnItsWay(type, d)' \/ (r.type = type /\ c = d)
    BY <2>2, <2>3, <2>4, <2>5 DEF OnItsWay
  <2>8. OnItsWay(r.type, c)
    BY <2>2, <2>5 DEF OnItsWay
  <2>9. ASSUME \A f \in Fd : entries'[f] \in Channel =>
                 stage[entries'[f]] \in {"added", "removed"}
        PROVE  AddedOnce' /\ RemovedOnce'
    <3>1. SameInHand
      BY <2>3 DEF SameInHand
    <3> QED
      BY <1>3, <2>9, <3>1, OnceKept
  <2>11. /\ entries \in [Fd -> Channel \cup {WakeChan, NULL}]
         /\ interest \in [Fd -> SUBSET EpollEvent]
         /\ \A d \in Channel : FdOf[d] \in Fd
    BY Types
  <2>12. CASE UNCHANGED <<entries, interest>>
    <3>1. AddedOnce' /\ RemovedOnce'
      BY <2>9, <2>12 DEF RequestInv, AddedOnce
    <3>2. AddsAreFresh' /\ WatchedIsHeld'
      BY <1>3, <2>6, <2>12 DEF RequestInv, AddsAreFresh, WatchedIsHeld
    <3> QED
      BY <3>1, <3>2 DEF RequestInv
  <2>13. CASE /\ r.type = "ADD"
              /\ entries[fd] = NULL
              /\ entries' = [entries EXCEPT ![fd] = c]
              /\ interest' = IF interest[fd] = {}
                             THEN [interest EXCEPT ![fd] = epoll_events(events[c])]
                             ELSE interest
    <3>1. /\ holder[fd] = c /\ interest[fd] = {}
          /\ \A i \in 1 .. Len(batch) : batch[i].fd # fd
      BY <2>8, <2>13 DEF RequestInv, AddsAreFresh
    <3>2. \A d \in Channel : OnItsWay("ADD", d)' => d # c
      <4>1. InList(chan_elem, "ADD", c)
        BY <2>5, <2>13
      <4>2. stage[c] # "adding" /\ \A i \in ToApply \ {chan_elem} : ~InList(i, "ADD", c)
        BY <1>2, <2>2, <4>1 DEF RequestInv, AddedOnce
      <4>3. \A u \in Thread : ~InHand(u, "ADD", c)
        BY <4>2 DEF RequestInv, AddedOnce
      <4>4. ~OnItsWay("ADD", c)'
        BY <2>2, <2>3, <2>4, <4>2, <4>3 DEF OnItsWay
      <4> QED
        BY <4>4
    <3>3. \A f \in Fd \ {fd} : entries'[f] = entries[f] /\ interest'[f] = interest[f]
      BY <2>11, <2>13
    <3>4. entries'[fd] = c /\ interest'[fd] = epoll_events(events[c])
      BY <1>2, <2>11, <2>13, <3>1
    <3>5. AddedOnce' /\ RemovedOnce'
      <4>1. stage[c] \in {"added", "removed"}
        BY <1>2, <2>5, <2>13 DEF RequestInv, AddedOnce
      <4> QED
        BY <2>9, <3>3, <3>4, <4>1 DEF RequestInv, AddedOnce
    <3>6. AddsAreFresh'
      <4> SUFFICES ASSUME NEW d \in Channel, stage[d] = "open" \/ OnItsWay("ADD", d)'
                   PROVE  /\ holder[FdOf[d]] = d
                          /\ interest'[FdOf[d]] = {}
                          /\ entries'[FdOf[d]] # d
                          /\ \A i \in 1 .. Len(batch) : batch[i].fd # FdOf[d]
        BY <1>3 DEF AddsAreFresh
      <4>1. /\ holder[FdOf[d]] = d /\ interest[FdOf[d]] = {} /\ entries[FdOf[d]] # d
            /\ \A i \in 1 .. Len(batch) : batch[i].fd # FdOf[d]
        BY <2>6 DEF RequestInv, AddsAreFresh
      <4>2. d # c
        <5>1. stage[c] \in {"added", "removed"}
          BY <1>2, <2>5, <2>13 DEF RequestInv, AddedOnce
        <5> QED
          BY <3>2, <5>1
      <4>3. FdOf[d] # fd
        BY <3>1, <4>1, <4>2
      <4> QED
        BY <2>11, <3>3, <4>1, <4>3
    <3>7. WatchedIsHeld'
      BY <1>3, <3>1, <3>3, <3>4, Types DEF RequestInv, WatchedIsHeld
    <3> QED
      BY <3>5, <3>6, <3>7 DEF RequestInv
  <2>14. CASE /\ r.type = "REMOVE"
              /\ entries' = [entries EXCEPT ![fd] = NULL]
              /\ interest' = [interest EXCEPT ![fd] = {}]
    <3>1. \A f \in Fd : \/ entries'[f] = entries[f] /\ interest'[f] = interest[f]
                        \/ entries'[f] = NULL /\ interest'[f] = {}
      BY <2>11, <2>14
    <3>2. AddedOnce' /\ RemovedOnce'
      BY <2>9, <3>1, Types DEF RequestInv, AddedOnce
    <3>3. AddsAreFresh'
      BY <1>3, <2>6, <2>11, <3>1, Types DEF RequestInv, AddsAreFresh
    <3>4. WatchedIsHeld'
      BY <1>3, <3>1, Types DEF RequestInv, WatchedIsHeld
    <3> QED
      BY <3>2, <3>3, <3>4 DEF RequestInv
  <2>15. CASE /\ r.type = "UPDATE"
              /\ entries' = entries
              /\ interest' = IF entries[fd] # NULL /\ interest[fd] # {}
                             THEN [interest EXCEPT ![fd] = epoll_events(events[c])]
                             ELSE interest
    <3>1. \A f \in Fd : interest[f] = {} <=> interest'[f] = {}
      <4>1. epoll_events(events[c]) # {}
        BY EpollEvents, Types DEF Inv, EventsInv
      <4> QED
        BY <2>11, <2>15, <4>1
    <3>2. AddedOnce' /\ RemovedOnce'
      BY <2>9, <2>15 DEF RequestInv, AddedOnce
    <3>3. AddsAreFresh'
      BY <1>3, <2>6, <2>11, <2>15, <3>1 DEF RequestInv, AddsAreFresh
    <3>4. WatchedIsHeld'
      BY <1>3, <2>15, <3>1 DEF RequestInv, WatchedIsHeld
    <3> QED
      BY <3>2, <3>3, <3>4 DEF RequestInv
  <2>16. CASE r.type = "ADD" /\ event_loop_handle_pending_add(c)
    BY <2>12, <2>13, <2>16 DEF event_loop_handle_pending_add, mapVars
  <2>17. CASE r.type = "REMOVE" /\ event_loop_handle_pending_remove(c)
    BY <1>6, <2>12, <2>14, <2>17 DEF event_loop_handle_pending_remove, mapVars
  <2>18. CASE r.type = "UPDATE" /\ event_loop_handle_pending_update(c)
    BY <1>6, <2>12, <2>15, <2>18 DEF event_loop_handle_pending_update, mapVars
  <2> QED
    BY <1>1, <2>16, <2>17, <2>18 DEF HandlePendingElement
<1> QED
  BY <1>5, <1>6

-----------------------------------------------------------------------------
(* Waiting for events and dispatching them.                                *)

\* A batch is of watched descriptors, each once.
LEMMA EpollWaitRequest ==
  ASSUME Inv, RequestInv, EpollWait
  PROVE  RequestInv'
<1>1. /\ UNCHANGED <<request, pending, chan_elem, entries, interest, events, holder, stage>>
      /\ pc' = [pc EXCEPT ![Owner] = "dispatch"] /\ pc[Owner] = "epoll_wait"
  BY DEF EpollWait, Goto, loopVars, mapVars, clientVars
<1>2. \A t \in Thread : pc'[t] \in {"lock", "buffer"} <=> pc[t] \in {"lock", "buffer"}
  BY <1>1, Types
<1>3. ToApply' = ToApply
  BY <1>1, Types DEF ToApply
<1>4. \A type, c : /\ OnItsWay(type, c)' <=> OnItsWay(type, c)
                   /\ \A t \in Thread : InHand(t, type, c)' <=> InHand(t, type, c)
  BY <1>1, <1>2, <1>3, SameOnItsWay
<1>5. \A i \in 1 .. Len(batch') :
        /\ batch'[i].fd \in Fd /\ interest[batch'[i].fd] # {}
        /\ \A j \in 1 .. Len(batch') : batch'[j].fd = batch'[i].fd => j = i
  BY EpollWaitBatch DEF watched
<1>6. AddedOnce' /\ RemovedOnce'
  <2>1. SameInHand
    BY <1>4 DEF SameInHand
  <2> QED
    BY <1>1, <2>1, OnceKept DEF RequestInv, AddedOnce
<1>7. AddsAreFresh'
  <2>1. \A c : OnItsWay("ADD", c)' => OnItsWay("ADD", c)
    BY <1>4
  <2> QED
    BY ZenonT(30), <1>1, <1>5, <2>1 DEF RequestInv, AddsAreFresh
<1>8. WatchedIsHeld'
  BY <1>1, <1>5 DEF RequestInv, WatchedIsHeld, Inv, WatchedHasChannel
<1> QED
  BY <1>6, <1>7, <1>8 DEF RequestInv

\* Dispatching an event takes it out of the batch, or clears a bit of it.
LEMMA DispatchedBatch ==
  ASSUME Inv, RequestInv, batch # <<>>, NEW bits \in SUBSET EpollEvent,
         \/ batch' = Tail(batch)
         \/ batch' = <<[Head(batch) EXCEPT !.events = @ \ bits]>> \o Tail(batch)
  PROVE  /\ BatchIsPart
         /\ 1 \in 1 .. Len(batch) /\ Head(batch) = batch[1]
         /\ batch' = Tail(batch) =>
              \A i \in 1 .. Len(batch') : batch'[i].fd # Head(batch).fd
<1>1. batch \in Seq(Report) /\ \A i, j \in 1 .. Len(batch) :
                                batch[i].fd = batch[j].fd => i = j
  BY DEF Inv, TypeOK, Report, RequestInv, WatchedIsHeld
<1>2. /\ Head(batch) \in Report
      /\ Tail(batch) \in Seq(Report)
      /\ Len(batch) \in Nat \ {0}
      /\ Len(Tail(batch)) = Len(batch) - 1
      /\ \A i \in 1 .. Len(Tail(batch)) : Tail(batch)[i] = batch[i + 1]
      /\ Head(batch) = batch[1]
  BY <1>1, HeadTailProperties, EmptySeq, LenProperties
<1>3. 1 \in 1 .. Len(batch)
  BY <1>2
<1>4. CASE batch' = Tail(batch)
  <2>1. \A i \in 1 .. Len(batch') : i + 1 \in 1 .. Len(batch) /\ i + 1 # 1
                                   /\ batch'[i].fd = batch[i + 1].fd
    BY <1>2, <1>4
  <2>2. \A i, j \in 1 .. Len(batch') : batch'[i].fd = batch'[j].fd => i = j
    BY <1>1, <1>2, <1>4, <2>1
  <2> QED
    BY <1>1, <1>2, <1>3, <2>1, <2>2 DEF BatchIsPart
<1>5. CASE batch' = <<[Head(batch) EXCEPT !.events = @ \ bits]>> \o Tail(batch)
  <2> DEFINE e == [Head(batch) EXCEPT !.events = @ \ bits]
  <2>1. e \in Report /\ e.fd = batch[1].fd
    BY <1>2 DEF Report
  <2>2. PICK T \in Seq(Report) : T = Tail(batch)
    BY <1>2
  <2>3. batch' = <<e>> \o T
    BY <1>5, <2>2
  <2>4. /\ Len(T) = Len(batch) - 1
        /\ \A i \in 1 .. Len(T) : T[i] = batch[i + 1]
    BY <1>2, <2>2
  <2> HIDE DEF e
  <2>5. <<e>> \in Seq(Report) /\ Len(<<e>>) = 1 /\ <<e>>[1] = e
    BY <2>1
  <2>6. /\ Len(<<e>> \o T) = 1 + Len(T)
        /\ \A i \in 1 .. 1 + Len(T) :
             (<<e>> \o T)[i] = IF i <= 1 THEN e ELSE T[i - 1]
    BY <2>5, ConcatProperties
  <2>a. /\ Len(batch') = 1 + Len(T)
        /\ \A i \in 1 .. 1 + Len(T) : batch'[i] = IF i <= 1 THEN e ELSE T[i - 1]
    BY <2>3, <2>6, Zenon
  <2>7. Len(batch') = Len(batch)
    BY <1>2, <2>4, <2>a
  <2>8. \A i \in 1 .. Len(batch) : batch'[i].fd = batch[i].fd
    <3> TAKE i \in 1 .. Len(batch)
    <3>1. batch'[i] = IF i <= 1 THEN e ELSE T[i - 1]
      BY <1>2, <2>4, <2>a
    <3>2. CASE i = 1
      BY <2>1, <3>1, <3>2
    <3>3. CASE i # 1
      <4>1. i - 1 \in 1 .. Len(T) /\ ~(i <= 1) /\ (i - 1) + 1 = i
        BY <1>2, <2>4, <3>3
      <4> QED
        BY <2>4, <3>1, <4>1
    <3> QED
      BY <3>2, <3>3
  <2>9. batch' # Tail(batch)
    BY <1>2, <2>7
  <2> QED
    BY <1>1, <1>2, <1>3, <2>7, <2>8, <2>9 DEF BatchIsPart
<1> QED
  BY <1>4, <1>5

\* A descriptor that hangs up is not that of a channel about to be added.
LEMMA HangUpRequest ==
  ASSUME Inv, RequestInv, DispatchHangUp
  PROVE  RequestInv'
<1> DEFINE f0 == Head(batch).fd
<1>1. PICK f \in Fd : f = f0
  BY BatchShrinks DEF DispatchHangUp, Report
<1>2. /\ UNCHANGED <<pc, request, pending, chan_elem, entries, events, stage>>
      /\ pc[Owner] = "dispatch" /\ batch # <<>> /\ batch' = Tail(batch)
      /\ interest' = [interest EXCEPT ![f] = {}]
      /\ holder' = [holder EXCEPT ![f] = NULL]
  BY <1>1 DEF DispatchHangUp, loopVars
<1>3. /\ BatchIsPart
      /\ 1 \in 1 .. Len(batch) /\ batch[1].fd = f
      /\ \A i \in 1 .. Len(batch') : batch'[i].fd # f
  BY <1>1, <1>2, DispatchedBatch
<1>4. /\ interest'[f] = {}
      /\ \A g \in Fd \ {f} : interest'[g] = interest[g] /\ holder'[g] = holder[g]
      /\ \A c \in Channel : FdOf[c] \in Fd
  BY <1>2, Types
<1>5. ToApply' = ToApply
  BY <1>2 DEF ToApply
<1>6. \A type, c : /\ OnItsWay(type, c)' <=> OnItsWay(type, c)
                   /\ \A t \in Thread : InHand(t, type, c)' <=> InHand(t, type, c)
  BY <1>2, <1>5, SameOnItsWay
<1>7. AddedOnce' /\ RemovedOnce'
  <2>1. SameInHand
    BY <1>6 DEF SameInHand
  <2> QED
    BY <1>2, <2>1, OnceKept DEF RequestInv, AddedOnce
<1>8. AddsAreFresh'
  <2> SUFFICES ASSUME NEW c \in Channel, stage[c] = "open" \/ OnItsWay("ADD", c)'
               PROVE  /\ holder'[FdOf[c]] = c
                      /\ interest'[FdOf[c]] = {}
                      /\ entries'[FdOf[c]] # c
                      /\ \A i \in 1 .. Len(batch') : batch'[i].fd # FdOf[c]
    BY <1>2 DEF AddsAreFresh
  <2>1. /\ holder[FdOf[c]] = c /\ interest[FdOf[c]] = {} /\ entries[FdOf[c]] # c
        /\ \A i \in 1 .. Len(batch) : batch[i].fd # FdOf[c]
    BY <1>6 DEF RequestInv, AddsAreFresh
  <2>2. FdOf[c] # f
    BY <1>3, <2>1
  <2> QED
    BY <1>2, <1>3, <1>4, <2>1, <2>2 DEF BatchIsPart
<1>9. WatchedIsHeld'
  <2>1. \A g \in Fd : interest'[g] # {} => holder'[g] = entries'[g]
    BY <1>2, <1>4 DEF RequestInv, WatchedIsHeld
  <2>2. \A i \in 1 .. Len(batch') : batch'[i].fd \in Fd \ {f}
    BY <1>3, Types DEF BatchIsPart
  <2>3. \A i \in 1 .. Len(batch') : holder'[batch'[i].fd] = holder[batch'[i].fd]
    BY <1>4, <2>2
  <2> QED
    BY <1>2, <1>3, <2>1, <2>3, BatchPart DEF WatchedIsHeld
<1> QED
  BY <1>7, <1>8, <1>9 DEF RequestInv

\* A callback keeps RequestInv.
LEMMA DispatchEventRequest ==
  ASSUME Inv, RequestInv, DispatchEvent
  PROVE  RequestInv'
<1> DEFINE e == Head(batch)
           bit == IF "EPOLLIN" \in e.events THEN "EPOLLIN" ELSE "EPOLLOUT"
<1>1. e \in Report /\ {bit} \in SUBSET EpollEvent
  BY BatchShrinks DEF DispatchEvent, EpollEvent
<1>2. /\ e.fd \in Fd /\ channel_event_activate(e.fd, bit)
      /\ pc[Owner] = "dispatch" /\ batch # <<>>
      /\ UNCHANGED <<pending, chan_elem, entries, interest>>
      /\ \/ batch' = batch
         \/ batch' = Tail(batch)
         \/ batch' = <<[e EXCEPT !.events = @ \ {bit}]>> \o Tail(batch)
  BY <1>1 DEF DispatchEvent, Report, loopVars, mapVars
<1> HIDE DEF bit
<1>3. BatchIsPart
  <2>1. CASE batch' = batch
    BY <2>1 DEF RequestInv, WatchedIsHeld, BatchIsPart
  <2> QED
    BY <1>1, <1>2, <2>1, DispatchedBatch
<1>4. CASE UNCHANGED <<pc, clientVars>>
  <2>1. UNCHANGED <<pc, request, holder, stage>>
    BY <1>4 DEF clientVars
  <2>2. ToApply' = ToApply
    BY <1>2, <2>1 DEF ToApply
  <2> QED
    BY <1>2, <1>3, <2>1, <2>2, QuietStep
<1>5. CASE entries[e.fd] \in Channel /\ Callback(entries[e.fd], bit)
  <2>1. Owner \in Thread
    BY Types
  <2>2. ASSUME NEW d \in Channel, CallAbout(Owner, d) PROVE RequestInv'
    BY <1>2, <1>3, <2>1, <2>2, CallRequest
  <2> QED
    BY <1>4, <1>5, <2>2 DEF Callback, CallAbout
<1> QED
  BY <1>2, <1>4, <1>5 DEF channel_event_activate, handle_wakeup

-----------------------------------------------------------------------------
(* The invariant and what follows from it.                                 *)

\* Every step keeps RequestInv.
LEMMA RequestNext ==
  ASSUME Inv, RequestInv, [Next]_vars
  PROVE  RequestInv'
<1> USE DEF loopVars, mapVars, clientVars
<1>1. CASE UNCHANGED vars
  <2>1. UNCHANGED <<pc, request, entries, interest, holder, stage, batch, pending, chan_elem>>
    BY <1>1 DEF vars
  <2>2. ToApply' = ToApply
    BY <2>1 DEF ToApply
  <2> QED
    BY <2>1, <2>2, QuietStep
<1>2. ASSUME NEW t \in Poster, PosterCall(t) PROVE RequestInv'
  <2>1. PICK c \in Channel : CallAbout(t, c)
    BY <1>2 DEF PosterCall, CallAbout
  <2>2. BatchIsPart
    BY <1>2 DEF PosterCall, RequestInv, WatchedIsHeld, BatchIsPart
  <2> QED
    BY <1>2, <2>1, <2>2, CallRequest DEF PosterCall, Thread
<1>3. ASSUME NEW t \in Thread, Lock(t) \/ Unlock(t) \/ event_loop_wakeup(t)
      PROVE  RequestInv'
  <2>1. /\ UNCHANGED <<request, entries, interest, holder, stage, batch, pending, chan_elem>>
        /\ \/ pc[t] = "lock" /\ pc' = [pc EXCEPT ![t] = "buffer"]
           \/ pc[t] = "unlock" /\ t = Owner /\ pc' = [pc EXCEPT ![t] = "hp_lock"]
           \/ pc[t] \in {"unlock", "wakeup"} /\ t # Owner /\ pc'[t] \in {"wakeup", "idle"}
              /\ pc' = [pc EXCEPT ![t] = pc'[t]]
    BY <1>3, Types DEF Lock, Unlock, event_loop_wakeup, Goto, Inv, StepsOfThreads
  <2>2. \A u \in Thread : pc'[u] \in {"lock", "buffer"} <=> pc[u] \in {"lock", "buffer"}
    BY <2>1, Types
  <2>3. pc'[Owner] = "hp_walk" <=> pc[Owner] = "hp_walk"
    BY <2>1, Types
  <2>4. ToApply' = ToApply
    BY <2>1, <2>3 DEF ToApply
  <2> QED
    BY <2>1, <2>2, <2>4, QuietStep
<1>4. ASSUME NEW t \in Thread, Buffer(t) PROVE RequestInv'
  <2>1. CASE UNCHANGED <<pc, pending, stage>>
    <3>1. UNCHANGED <<pc, request, entries, interest, holder, stage, batch, pending, chan_elem>>
      BY <1>4, <2>1 DEF Buffer
    <3>2. ToApply' = ToApply
      BY <3>1 DEF ToApply
    <3> QED
      BY <3>1, <3>2, QuietStep
  <2>2. CASE pending' = Append(pending, request[t])
    <3>1. request[t] \in Request
      BY <1>4 DEF Buffer, Inv, StepsOfThreads
    <3>2. pending' # pending
      BY <2>2, <3>1, Types, AppendProperties
    <3> QED
      BY <1>4, <3>2, BufferRequest
  <2> QED
    BY <1>4, <2>1, <2>2 DEF Buffer
<1>5. CASE HandlePendingLock \/ HandlePendingBegin \/ HandlePendingUnlock
           \/ HandlePendingEnd \/ DispatchEnd
  <2>1. /\ UNCHANGED <<request, entries, interest, holder, stage, batch>>
        /\ pc' = [pc EXCEPT ![Owner] = pc'[Owner]]
        /\ \/ pc[Owner] = "hp_lock" /\ pc'[Owner] = "hp_begin"
              /\ UNCHANGED <<pending, chan_elem>>
           \/ pc[Owner] = "hp_begin" /\ pc'[Owner] = "hp_walk" /\ chan_elem' = 1
              /\ UNCHANGED pending
           \/ pc[Owner] = "hp_walk" /\ pc'[Owner] = "hp_unlock" /\ pending' = <<>>
              /\ chan_elem > Len(pending)
           \/ pc[Owner] \in {"hp_unlock", "dispatch"}
              /\ pc'[Owner] \in {"epoll_wait", "dispatch", "hp_lock"}
              /\ UNCHANGED <<pending, chan_elem>>
    BY <1>5, Types DEF HandlePendingLock, HandlePendingBegin, HandlePendingUnlock,
       HandlePendingEnd, DispatchEnd, Goto
  <2>2. \A u \in Thread : pc'[u] \in {"lock", "buffer"} <=> pc[u] \in {"lock", "buffer"}
    BY <2>1, Types
  <2>3. \/ pending' = pending /\ ToApply' = ToApply
        \/ pending' = <<>> /\ ToApply' = {} /\ ToApply = {}
    <3>1. CASE pc[Owner] = "hp_walk"
      <4>1. ToApply = {} /\ ToApply' = 1 .. 0 /\ pending' = <<>>
        BY <2>1, <3>1, Types DEF ToApply, Inv, TypeOK
      <4> QED
        BY <4>1
    <3>2. CASE pc[Owner] # "hp_walk"
      BY <2>1, <3>2 DEF ToApply
    <3> QED
      BY <3>1, <3>2
  <2> QED
    BY <2>1, <2>2, <2>3, QuietStep
<1> QED
  BY <1>1, <1>2, <1>3, <1>4, <1>5, ElementRequest, EpollWaitRequest, HangUpRequest,
     DispatchEventRequest
  DEF Next, ThreadStep, HandlePending, Dispatch

\* RequestInv holds when the loop has just been created.
LEMMA RequestInit == Init => RequestInv
<1> SUFFICES ASSUME Init PROVE RequestInv
  OBVIOUS
<1>1. /\ pending = <<>> /\ batch = <<>>
      /\ \A t \in Thread : pc[t] \notin {"lock", "buffer", "hp_walk"}
      /\ \A fd \in Fd : entries[fd] = IF fd = WakeFd THEN WakeChan ELSE NULL
      /\ \A fd \in Fd : holder[fd] = IF fd = WakeFd THEN WakeChan ELSE NULL
      /\ \A fd \in Fd : interest[fd] = IF fd = WakeFd THEN {"EPOLLIN"} ELSE {}
  BY DEF Init
<1>2. ToApply = {}
  BY <1>1 DEF ToApply, Thread
<1>3. \A type, c : ~OnItsWay(type, c) /\ \A t \in Thread : ~InHand(t, type, c)
  BY <1>1, <1>2 DEF OnItsWay, InHand
<1>4. \A fd \in Fd : entries[fd] \notin Channel
  BY <1>1, ConstantsAssumption
<1>5. Len(pending) = 0 /\ Len(batch) = 0
  BY <1>1
<1>6. AddedOnce /\ RemovedOnce
  <2>1. \A t \in Thread : \A c : ~InHand(t, "ADD", c) /\ ~InHand(t, "REMOVE", c)
    BY <1>3
  <2>2. 1 .. Len(pending) = {}
    BY <1>5
  <2> QED
    BY <1>4, <2>1, <2>2 DEF AddedOnce, RemovedOnce
<1>7. AddsAreFresh
  <2>1. \A c \in Channel : stage[c] # "open"
    BY DEF Init
  <2> QED
    BY <1>3, <2>1 DEF AddsAreFresh
<1>8. WatchedIsHeld
  BY <1>1, <1>5 DEF WatchedIsHeld
<1> QED
  BY <1>6, <1>7, <1>8 DEF RequestInv

\* What is known of the requests on their way is an invariant, together with Inv.
THEOREM RequestInvariance == Spec => []FullInv
<1>1. Init => FullInv
  BY InitInv, RequestInit DEF FullInv
<1>2. FullInv /\ [Next]_vars => FullInv'
  BY NextInv, RequestNext DEF FullInv
<1> QED
  BY <1>1, <1>2, PTL DEF Spec

-----------------------------------------------------------------------------
(* Channels that were added are watched, or hidden by another.             *)

\* What a channel that was added is like, as AddedInv has it.
InPlace(c) ==
  stage[c] = "added" /\ holder[FdOf[c]] = c /\ ~OnItsWay("ADD", c) =>
    /\ entries[FdOf[c]] # NULL
    /\ entries[FdOf[c]] = c => interest[FdOf[c]] # {}

\* Applying a request puts the channel in the map, or finds another there.
LEMMA ElementAdded ==
  ASSUME NeverRemoved, FullInv, AddedInv, process = "running", HandlePendingElement
  PROVE  AddedInv'
<1> DEFINE r == pending[chan_elem]
<1>1. PICK c \in Channel : c = r.chan
  BY WalkedRequest DEF FullInv
<1> DEFINE fd == FdOf[c]
<1>2. /\ chan_elem \in 1 .. Len(pending) /\ Len(pending) \in Nat
      /\ r.type # "REMOVE" /\ fd \in Fd /\ c # NULL
      /\ entries \in [Fd -> Channel \cup {WakeChan, NULL}]
      /\ interest \in [Fd -> SUBSET EpollEvent]
      /\ \A d \in Channel : FdOf[d] \in Fd
  <2>1. r.type # "REMOVE"
    <3>1. InList(chan_elem, "REMOVE", c) => stage[c] = "removed"
      BY <1>1, WalkedRequest DEF FullInv, RequestInv, RemovedOnce
    <3> QED
      BY <1>1, <3>1 DEF InList, AddedInv
  <2> QED
    BY <1>1, <2>1, WalkedRequest, Types DEF FullInv
<1>3. /\ UNCHANGED <<pc, request, pending, holder, stage>>
      /\ pc[Owner] = "hp_walk"
  BY DEF HandlePendingElement, clientVars
<1>4. epoll_events(events[c]) # {}
  BY EpollEvents, Types DEF FullInv, Inv, EventsInv
<1>5. \A d \in Channel : InPlace(d)
  BY DEF AddedInv, InPlace
<1>6. \A d \in Channel : OnItsWay("ADD", d) =>
        OnItsWay("ADD", d)' \/ (process' = "running" /\ r.type = "ADD" /\ d = c)
  <2>1. /\ ToApply = chan_elem .. Len(pending) /\ ToApply' = chan_elem' .. Len(pending)
        /\ chan_elem' = IF process' = "running" THEN chan_elem + 1 ELSE chan_elem
    BY <1>3 DEF ToApply, HandlePendingElement
  <2>2. \A i \in ToApply : i \in ToApply' \/ (process' = "running" /\ i = chan_elem)
    BY <1>2, <2>1
  <2> QED
    BY <1>1, <1>3, <2>2 DEF OnItsWay, InHand, InList
<1>7. CASE UNCHANGED <<entries, interest>> /\ ~(process' = "running" /\ r.type = "ADD")
  BY <1>3, <1>5, <1>6, <1>7 DEF AddedInv, InPlace
<1>8. CASE process' = "running" /\ r.type = "UPDATE" /\ event_loop_handle_pending_update(c)
  <2>1. /\ entries' = entries
        /\ \A f \in Fd : interest[f] # {} => interest'[f] # {}
    BY <1>2, <1>4, <1>8 DEF event_loop_handle_pending_update, mapVars
  <2> QED
    BY <1>2, <1>3, <1>5, <1>6, <1>8, <2>1 DEF AddedInv, InPlace
<1>9. CASE process' = "running" /\ r.type = "ADD" /\ event_loop_handle_pending_add(c)
  <2>1. OnItsWay("ADD", c)
    <3>1. chan_elem \in ToApply
      BY <1>2, <1>3 DEF ToApply
    <3> QED
      BY <1>1, <1>9, <3>1 DEF OnItsWay, InList
  <2>2. holder[fd] = c /\ interest[fd] = {} /\ entries[fd] # c
    BY <2>1 DEF FullInv, RequestInv, AddsAreFresh
  <2>3. /\ entries'[fd] # NULL
        /\ entries'[fd] = c => interest'[fd] # {}
        /\ \A f \in Fd \ {fd} : entries'[f] = entries[f] /\ interest'[f] = interest[f]
    BY <1>2, <1>4, <1>9, <2>2 DEF event_loop_handle_pending_add, NeverRemoved
  <2>4. ASSUME NEW d \in Channel, holder[FdOf[d]] = d, ~(OnItsWay("ADD", d)'),
               stage[d] = "added"
        PROVE  /\ entries'[FdOf[d]] # NULL
               /\ entries'[FdOf[d]] = d => interest'[FdOf[d]] # {}
    <3>1. CASE d = c
      BY <2>3, <3>1
    <3>2. CASE d # c
      <4>1. FdOf[d] # fd /\ ~OnItsWay("ADD", d)
        BY <1>6, <2>2, <2>4, <3>2
      <4> QED
        BY <1>2, <1>5, <2>3, <2>4, <4>1 DEF InPlace
    <3> QED
      BY <3>1, <3>2
  <2> QED
    BY <1>3, <2>4 DEF AddedInv
<1>10. process' # "running" => UNCHANGED <<entries, interest>>
  BY DEF HandlePendingElement, event_loop_handle_pending_add,
     event_loop_handle_pending_remove, event_loop_handle_pending_update, mapVars
<1> QED
  BY <1>1, <1>2, <1>7, <1>8, <1>9, <1>10 DEF HandlePendingElement

\* Every step keeps AddedInv when no channel is removed and no allocation fails.
LEMMA AddedNext ==
  ASSUME NeverRemoved, FullInv, AddedInv, [Next]_vars
  PROVE  AddedInv'
<1> USE DEF loopVars, mapVars, clientVars
<1>1. \A d \in Channel : InPlace(d) /\ stage[d] # "removed"
  BY DEF AddedInv, InPlace
<1>2. Inv /\ RequestInv
  BY DEF FullInv
<1>3. CASE /\ UNCHANGED <<entries, interest>>
           /\ \A d \in Channel : /\ stage'[d] # "removed"
                                 /\ stage'[d] = "added" =>
                                      stage[d] = "added" \/ OnItsWay("ADD", d)'
                                 /\ holder'[FdOf[d]] = d => \/ holder[FdOf[d]] = d
                                                           \/ stage'[d] # "added"
                                 /\ OnItsWay("ADD", d) => OnItsWay("ADD", d)'
  BY <1>1, <1>3 DEF AddedInv, InPlace
<1>4. ASSUME UNCHANGED <<entries, interest, holder, stage>>,
             \A t \in Thread : pc[t] \in {"lock", "buffer"} => request'[t] = request[t],
             \A t \in Thread : pc'[t] \in {"lock", "buffer"} <=> pc[t] \in {"lock", "buffer"},
             \/ pending' = pending /\ ToApply' = ToApply
             \/ ToApply' = {} /\ ToApply = {}
      PROVE  AddedInv'
  <2>1. \A d : OnItsWay("ADD", d)' <=> OnItsWay("ADD", d)
    BY <1>4, SameOnItsWay
  <2> QED
    BY <1>1, <1>3, <1>4, <2>1
<1>5. ASSUME NEW t \in Thread, NEW c \in Channel, CallAbout(t, c),
             pc[t] \notin {"lock", "buffer", "hp_walk"},
             UNCHANGED <<pending, chan_elem, entries, interest>>
      PROVE  AddedInv'
  <2>1. \A d : OnItsWay("ADD", d) => OnItsWay("ADD", d)'
    <3>1. CASE \E type : Calls(t, type, c)
      BY <1>2, <1>5, <3>1, CallOnItsWay
    <3>2. CASE CallsOnData(t, c)
      BY <1>2, <1>5, <3>2, AstrayOnItsWay
    <3> QED
      BY <1>5, <3>1, <3>2 DEF CallAbout, AddCall, RemoveCall, UpdateCall,
         channel_write_event_enable, channel_write_event_disable
  <2>2. \/ stage' = stage /\ holder' = holder
        \/ /\ stage' = [stage EXCEPT ![c] = "adding"]
           /\ holder' = [holder EXCEPT ![FdOf[c]] = c]
        \/ /\ stage' = [stage EXCEPT ![c] = "open"]
           /\ holder' = [holder EXCEPT ![FdOf[c]] = c]
    BY <1>5 DEF CallAbout, AddCall, RemoveCall, UpdateCall, Opened,
       channel_write_event_enable, channel_write_event_disable, NeverRemoved
  <2> QED
    BY <1>1, <1>2, <1>3, <1>5, <2>1, <2>2, Types
<1>6. CASE UNCHANGED vars
  <2>1. UNCHANGED <<pc, pending, chan_elem, entries, interest, holder, stage, request>>
    BY <1>6 DEF vars
  <2>2. ToApply' = ToApply
    BY <2>1 DEF ToApply
  <2> QED
    BY <1>4, <2>1, <2>2
<1>7. ASSUME NEW t \in Poster, PosterCall(t) PROVE AddedInv'
  <2>1. PICK c \in Channel : CallAbout(t, c)
    BY <1>7 DEF PosterCall, CallAbout
  <2> QED
    BY <1>5, <1>7, <2>1 DEF PosterCall, Thread
<1>8. ASSUME NEW t \in Thread, Lock(t) \/ Unlock(t) \/ event_loop_wakeup(t)
      PROVE  AddedInv'
  <2>1. /\ UNCHANGED <<entries, interest, holder, stage, request, pending, chan_elem>>
        /\ pc' = [pc EXCEPT ![t] = pc'[t]]
        /\ \/ pc[t] = "lock" /\ pc'[t] = "buffer"
           \/ /\ pc[t] \in {"unlock", "wakeup"}
              /\ pc'[t] \in {"hp_lock", "wakeup", "idle"}
    BY <1>2, <1>8, Types DEF Lock, Unlock, event_loop_wakeup, Goto
  <2>2. \A u \in Thread : pc'[u] \in {"lock", "buffer"} <=> pc[u] \in {"lock", "buffer"}
    BY <1>2, <2>1, Types
  <2>3. ToApply' = ToApply
    BY <1>2, <2>1, Types DEF ToApply
  <2> QED
    BY <1>4, <2>1, <2>2, <2>3
<1>9. ASSUME NEW t \in Thread, Buffer(t) PROVE AddedInv'
  <2>1. /\ request[t] \in Request /\ request[t].chan \in Channel
        /\ pending' = Append(pending, request[t])
        /\ stage' = IF request[t].type = "ADD"
                    THEN [stage EXCEPT ![request[t].chan] = "added"] ELSE stage
        /\ UNCHANGED <<entries, interest, holder>>
    BY <1>2, <1>9, RequestFields
    DEF Buffer, Inv, StepsOfThreads, ListIsProtected, NeverRemoved
  <2>2. pending' # pending
    BY <1>2, <2>1, Types, AppendProperties
  <2>3. \A d : OnItsWay("ADD", d)' <=> OnItsWay("ADD", d)
    BY <1>2, <1>9, <2>2, BufferOnItsWay
  <2>4. request[t].type = "ADD" => OnItsWay("ADD", request[t].chan)
    BY <1>9 DEF Buffer, OnItsWay, InHand
  <2>5. ASSUME NEW d \in Channel
        PROVE  /\ stage'[d] # "removed"
               /\ stage'[d] = "added" => stage[d] = "added" \/ OnItsWay("ADD", d)
    BY <1>1, <1>2, <2>1, <2>4, Types
  <2> QED
    BY <1>3, <2>1, <2>3, <2>5
<1>10. CASE HandlePendingLock \/ HandlePendingBegin \/ HandlePendingUnlock
            \/ HandlePendingEnd \/ DispatchEnd \/ EpollWait
  <2>1. /\ UNCHANGED <<entries, interest, holder, stage, request>>
        /\ pc' = [pc EXCEPT ![Owner] = pc'[Owner]]
        /\ \/ pc[Owner] = "hp_begin" /\ pc'[Owner] = "hp_walk" /\ chan_elem' = 1
              /\ UNCHANGED pending
           \/ pc[Owner] = "hp_walk" /\ pc'[Owner] = "hp_unlock" /\ pending' = <<>>
              /\ chan_elem > Len(pending)
           \/ /\ pc[Owner] \in {"hp_lock", "hp_unlock", "dispatch", "epoll_wait"}
              /\ pc'[Owner] \in {"hp_begin", "epoll_wait", "dispatch", "hp_lock"}
              /\ UNCHANGED <<pending, chan_elem>>
    BY <1>2, <1>10, Types DEF HandlePendingLock, HandlePendingBegin, HandlePendingUnlock,
       HandlePendingEnd, DispatchEnd, EpollWait, Goto
  <2>2. \A u \in Thread : pc'[u] \in {"lock", "buffer"} <=> pc[u] \in {"lock", "buffer"}
    BY <1>2, <2>1, Types
  <2>3. \/ pending' = pending /\ ToApply' = ToApply
        \/ ToApply' = {} /\ ToApply = {}
    <3>1. CASE pc[Owner] = "hp_walk"
      <4>1. ToApply = {} /\ ToApply' = 1 .. 0
        BY <1>2, <2>1, <3>1, Types DEF ToApply, Inv, TypeOK
      <4> QED
        BY <4>1
    <3>2. CASE pc[Owner] # "hp_walk"
      BY <2>1, <3>2 DEF ToApply
    <3> QED
      BY <3>1, <3>2
  <2> QED
    BY <1>4, <2>1, <2>2, <2>3
<1>11. CASE DispatchHangUp
  <2>1. /\ UNCHANGED <<pc, pending, chan_elem, entries, stage, request>>
        /\ interest' = [interest EXCEPT ![Head(batch).fd] = {}]
        /\ holder' = [holder EXCEPT ![Head(batch).fd] = NULL]
    BY <1>11 DEF DispatchHangUp
  <2>2. ToApply' = ToApply
    BY <2>1 DEF ToApply
  <2>3. \A d : OnItsWay("ADD", d)' <=> OnItsWay("ADD", d)
    BY <2>1, <2>2, SameOnItsWay
  <2>4. \A d \in Channel : holder'[FdOf[d]] = d =>
          holder[FdOf[d]] = d /\ interest'[FdOf[d]] = interest[FdOf[d]]
    BY <1>2, <2>1, Types
  <2> QED
    BY <1>1, <2>1, <2>3, <2>4 DEF AddedInv, InPlace
<1>12. CASE DispatchEvent
  <2> DEFINE e == Head(batch)
  <2>1. /\ \E bit \in EpollEvent : channel_event_activate(e.fd, bit)
        /\ pc[Owner] = "dispatch"
        /\ UNCHANGED <<pending, chan_elem, entries, interest>>
    BY <1>12 DEF DispatchEvent, EpollEvent
  <2>2. CASE UNCHANGED <<pc, clientVars>>
    <3>1. ToApply' = ToApply
      BY <2>1, <2>2 DEF ToApply
    <3> QED
      BY <1>4, <2>1, <2>2, <3>1
  <2>3. CASE \E c \in Channel : CallAbout(Owner, c)
    BY <1>2, <1>5, <2>1, <2>3, Types
  <2> QED
    BY <2>1, <2>2, <2>3 DEF channel_event_activate, handle_wakeup, Callback, CallAbout
<1> QED
  BY <1>6, <1>7, <1>8, <1>9, <1>10, <1>11, <1>12, ElementAdded
  DEF Next, ThreadStep, HandlePending, Dispatch

\* A channel that was added, whose request has been applied and whose descriptor
\* is open, is watched, unless the entry of a channel that had the descriptor
\* before is still there: nothing else loses a channel in a loop whose channels
\* are never removed, as in this library, and whose allocations succeed.
THEOREM OnlyStaleEntriesHide ==
  ASSUME NeverRemoved
  PROVE  Spec => []AddedIsWatchedOrHidden
<1>1. Init => AddedInv
  BY DEF Init, AddedInv
<1>2. FullInv /\ AddedInv /\ [Next]_vars => AddedInv'
  BY AddedNext
<1>3. FullInv /\ AddedInv => AddedIsWatchedOrHidden
  <2> SUFFICES ASSUME FullInv, AddedInv, NEW c \in Channel,
                      stage[c] = "added", holder[FdOf[c]] = c, ~Queued(c)
               PROVE  \/ entries[FdOf[c]] = c /\ interest[FdOf[c]] # {}
                      \/ \E d \in Channel \ {c} :
                           /\ entries[FdOf[c]] = d /\ FdOf[d] = FdOf[c]
                           /\ stage[d] = "added"
    BY DEF AddedIsWatchedOrHidden
  <2>1. ~OnItsWay("ADD", c)
    <3>1. \A t \in Thread : ~InHand(t, "ADD", c)
      BY DEF FullInv, RequestInv, AddedOnce
    <3>2. ToApply \subseteq 1 .. Len(pending)
      BY Types DEF FullInv, Inv, WalkInv, ToApply
    <3> QED
      BY <3>1, <3>2 DEF OnItsWay, InList, Queued
  <2>2. entries[FdOf[c]] # NULL /\ (entries[FdOf[c]] = c => interest[FdOf[c]] # {})
    BY <2>1 DEF AddedInv
  <2>3. entries[FdOf[c]] \in Channel /\ FdOf[c] \in Fd
    BY <2>2, Types DEF FullInv, Inv, MapInv
  <2>4. FdOf[entries[FdOf[c]]] = FdOf[c] /\ stage[entries[FdOf[c]]] = "added"
    BY <2>3 DEF FullInv, Inv, MapInv, RequestInv, AddedOnce, AddedInv
  <2> QED
    BY <2>2, <2>3, <2>4
<1> QED
  BY <1>1, <1>2, <1>3, RequestInvariance, PTL DEF Spec

-----------------------------------------------------------------------------
(* What ends a loop.                                                       *)

\* A removal that was applied stays so, and a step that is not the application
\* of an addition applies none.
Settled ==
  /\ \A d \in Channel : Applied("REMOVE", d) => Applied("REMOVE", d)'
  /\ \A c \in Channel : Applied("ADD", c)' => Applied("ADD", c)

\* A step that moves no request settles nothing.
LEMMA QuietSettled ==
  ASSUME UNCHANGED stage,
         \A t \in Thread : pc[t] \in {"lock", "buffer"} => request'[t] = request[t],
         \A t \in Thread : pc'[t] \in {"lock", "buffer"} <=> pc[t] \in {"lock", "buffer"},
         \/ pending' = pending /\ ToApply' = ToApply
         \/ ToApply' = {} /\ ToApply = {}
  PROVE  Settled
<1>1. \A type, c : OnItsWay(type, c)' <=> OnItsWay(type, c)
  BY SameOnItsWay
<1> QED
  BY <1>1 DEF Settled, Applied

\* Nor does a call: what it is about was not removed, and what it adds is not
\* added yet.
LEMMA CallSettled ==
  ASSUME FullInv, NEW t \in Thread, NEW c \in Channel, CallAbout(t, c),
         pc[t] \notin {"lock", "buffer", "hp_walk"},
         UNCHANGED <<pending, chan_elem>>
  PROVE  Settled
<1>1. stage \in [Channel -> Stage] /\ Inv
  BY Types DEF FullInv
<1>2. CASE AddCall(t, c)
  <2>1. Calls(t, "ADD", c) /\ stage' = [stage EXCEPT ![c] = "adding"] /\ stage[c] # "removed"
    BY <1>2 DEF AddCall
  <2>2. \A d : OnItsWay("REMOVE", d)' <=> OnItsWay("REMOVE", d)
    BY <1>1, <2>1, CallOfAnotherKind
  <2>3. \A d : OnItsWay("ADD", d)' <=> OnItsWay("ADD", d) \/ d = c
    BY <1>1, <2>1, CallOfItsKind
  <2> QED
    BY <1>1, <2>1, <2>2, <2>3 DEF Settled, Applied
<1>3. CASE RemoveCall(t, c)
  <2>1. Calls(t, "REMOVE", c) /\ stage' = [stage EXCEPT ![c] = "removed"] /\ stage[c] = "added"
    BY <1>3 DEF RemoveCall
  <2>2. \A d : OnItsWay("ADD", d)' <=> OnItsWay("ADD", d)
    BY <1>1, <2>1, CallOfAnotherKind
  <2>3. \A d : OnItsWay("REMOVE", d)' <=> OnItsWay("REMOVE", d) \/ d = c
    BY <1>1, <2>1, CallOfItsKind
  <2> QED
    BY <1>1, <2>1, <2>2, <2>3 DEF Settled, Applied
<1>4. CASE /\ Opened(c)
           /\ \A d : /\ OnItsWay("ADD", d)' <=> OnItsWay("ADD", d)
                     /\ OnItsWay("REMOVE", d)' <=> OnItsWay("REMOVE", d)
  <2>1. \A d \in Channel : \/ stage'[d] = stage[d]
                           \/ stage[d] = "new" /\ stage'[d] = "open"
    BY <1>1, <1>4 DEF Opened
  <2>2. ASSUME NEW d \in Channel, Applied("REMOVE", d) PROVE Applied("REMOVE", d)'
    BY ONLY <1>4, <2>1, <2>2 DEF Applied
  <2>3. ASSUME NEW d \in Channel, Applied("ADD", d)' PROVE Applied("ADD", d)
    BY ONLY <1>4, <2>1, <2>3 DEF Applied
  <2> QED
    BY <2>2, <2>3 DEF Settled
<1>5. CASE UpdateCall(t, c)
  <2>1. Calls(t, "UPDATE", c) /\ Opened(c)
    BY <1>5 DEF UpdateCall
  <2>2. \A d : OnItsWay("REMOVE", d)' <=> OnItsWay("REMOVE", d)
    BY <1>1, <2>1, CallOfAnotherKind
  <2>3. \A d : OnItsWay("ADD", d)' <=> OnItsWay("ADD", d)
    BY <1>1, <2>1, CallOfAnotherKind
  <2> QED
    BY <1>4, <2>1, <2>2, <2>3
<1>6. CASE channel_write_event_enable(t, c) \/ channel_write_event_disable(t, c)
  <2>1. CallsOnData(t, c) /\ Opened(c)
    BY <1>6 DEF channel_write_event_enable, channel_write_event_disable
  <2>2. \A d : OnItsWay("REMOVE", d)' <=> OnItsWay("REMOVE", d)
    BY <1>1, <2>1, AstrayOnItsWay
  <2>3. \A d : OnItsWay("ADD", d)' <=> OnItsWay("ADD", d)
    BY <1>1, <2>1, AstrayOnItsWay
  <2> QED
    BY <1>4, <2>1, <2>2, <2>3
<1> QED
  BY <1>2, <1>3, <1>5, <1>6 DEF CallAbout

\* A settled step that leaves the map alone keeps EmptiedByRemoval.
LEMMA EmptiedKept ==
  ASSUME EmptiedByRemoval, Settled, UNCHANGED <<entries, nentries>>,
         \A i \in 1 .. Len(batch') :
           \/ entries[batch'[i].fd] # NULL
           \/ \E j \in 1 .. Len(batch) : batch'[i].fd = batch[j].fd
  PROVE  EmptiedByRemoval'
<1>1. ASSUME NEW c \in Channel \ Failing, Applied("ADD", c)'
      PROVE  /\ FdOf[c] < nentries'
             /\ \/ entries'[FdOf[c]] # NULL
                \/ \E d \in Channel : FdOf[d] = FdOf[c] /\ Applied("REMOVE", d)'
  BY <1>1 DEF EmptiedByRemoval, Settled
<1>2. ASSUME NEW i \in 1 .. Len(batch')
      PROVE  \/ entries'[batch'[i].fd] # NULL
             \/ \E d \in Channel : FdOf[d] = batch'[i].fd /\ Applied("REMOVE", d)'
  BY DEF EmptiedByRemoval, Settled
<1> QED
  BY <1>1, <1>2 DEF EmptiedByRemoval

\* The walk applies a request and keeps EmptiedByRemoval, and when it stumbles,
\* it is over one of the requests that StumblesOver names.
LEMMA ElementEmptied ==
  ASSUME FullInv, EmptiedByRemoval, process = "running", HandlePendingElement
  PROVE  /\ EmptiedByRemoval'
         /\ process' # "running" =>
              pc'[Owner] = "hp_walk" /\ StumblesOver(pending[chan_elem])'
<1> DEFINE r == pending[chan_elem]
<1>0. Inv /\ AddedOnce /\ RemovedOnce
  BY DEF FullInv, RequestInv
<1>1. PICK c \in Channel : c = r.chan
  BY <1>0, WalkedRequest
<1> DEFINE fd == FdOf[c]
<1>2. /\ chan_elem \in 1 .. Len(pending) /\ Len(pending) \in Nat
      /\ r.type \in {"ADD", "REMOVE", "UPDATE"}
      /\ fd \in Fd /\ c # NULL /\ nentries \in Nat
      /\ entries \in [Fd -> Channel \cup {WakeChan, NULL}]
      /\ \A d \in Channel : FdOf[d] \in Fd
      /\ Fd \subseteq Nat
  BY <1>0, <1>1, WalkedRequest, RequestFields, Types, ConstantsAssumption,
     MapSizesAssumption DEF Inv, TypeOK
<1>3. /\ UNCHANGED <<pc, request, pending, holder, stage, batch>>
      /\ pc[Owner] = "hp_walk"
  BY DEF HandlePendingElement, clientVars
<1>4. /\ ToApply = chan_elem .. Len(pending) /\ ToApply' = chan_elem' .. Len(pending)
      /\ chan_elem' = IF process' = "running" THEN chan_elem + 1 ELSE chan_elem
  BY <1>3 DEF ToApply, HandlePendingElement
<1>5. /\ chan_elem \in ToApply /\ ToApply \subseteq 1 .. Len(pending)
      /\ ToApply' = IF process' = "running" THEN ToApply \ {chan_elem} ELSE ToApply
      /\ \A i \in ToApply : i >= chan_elem
  <2>1. CASE process' = "running"
    BY <1>2, <1>4, <2>1
  <2>2. CASE process' # "running"
    BY <1>2, <1>4, <2>2
  <2> QED
    BY <2>1, <2>2
<1>6. /\ \A u \in Thread : \A type, d : InHand(u, type, d)' <=> InHand(u, type, d)
      /\ \A i, type, d : InList(i, type, d)' <=> InList(i, type, d)
      /\ \A type, d : InList(chan_elem, type, d) <=> r.type = type /\ c = d
  BY <1>1, <1>3 DEF InHand, InList
<1>7. \A d \in Channel : Applied("REMOVE", d) => Applied("REMOVE", d)'
  BY <1>3, <1>5, <1>6 DEF Applied, OnItsWay
<1>8. \A d \in Channel : Applied("ADD", d)' =>
        Applied("ADD", d) \/ (process' = "running" /\ r.type = "ADD" /\ d = c)
  BY <1>3, <1>5, <1>6 DEF Applied, OnItsWay
<1>9. ASSUME UNCHANGED <<entries, nentries>>, ~(process' = "running" /\ r.type = "ADD")
      PROVE  EmptiedByRemoval'
  <2>1. Settled
    BY <1>7, <1>8, <1>9 DEF Settled
  <2> QED
    BY <1>3, <1>9, <2>1, EmptiedKept
<1>10. CASE /\ r.type = "ADD" /\ event_loop_handle_pending_add(c)
            /\ ~(c \in Failing /\ UNCHANGED mapVars)
  <2>1. PICK n \in Nat : n = map_make_space(fd)
    BY <1>2, MakeSpace, MapSizesAssumption
  <2>2. n > fd
    BY <1>2, <2>1, MakeSpace
  <2>3. /\ process' = "running"
        /\ nentries' = IF fd >= nentries THEN n ELSE nentries
        /\ entries'[fd] # NULL
        /\ \A f \in Fd \ {fd} : entries'[f] = entries[f]
    BY <1>2, <1>10, <2>1 DEF event_loop_handle_pending_add
  <2>4. fd < nentries' /\ \A f \in Fd : f < nentries => f < nentries'
    <3>1. PICK m \in Nat : m = nentries
      BY <1>2
    <3>2. ASSUME NEW f \in Nat, f < m \/ f = fd PROVE f < nentries'
      <4>1. nentries' = IF fd >= m THEN n ELSE m
        BY <2>3, <3>1
      <4>2. fd \in Nat /\ n > fd
        BY <1>2, <2>2
      <4> HIDE DEF fd
      <4> QED
        BY ONLY <2>1, <3>1, <3>2, <4>1, <4>2, n \in Nat, m \in Nat
    <3> QED
      BY <1>2, <3>1, <3>2
  <2>5. ASSUME NEW d \in Channel \ Failing, Applied("ADD", d)'
        PROVE  /\ FdOf[d] < nentries'
               /\ \/ entries'[FdOf[d]] # NULL
                  \/ \E b \in Channel : FdOf[b] = FdOf[d] /\ Applied("REMOVE", b)'
    <3>1. CASE FdOf[d] = fd
      BY <2>3, <2>4, <3>1
    <3>2. CASE FdOf[d] # fd
      <4>1. Applied("ADD", d)
        BY <1>8, <2>5, <3>2
      <4> QED
        BY <1>2, <1>7, <2>3, <2>4, <3>2, <4>1 DEF EmptiedByRemoval
    <3> QED
      BY <3>1, <3>2
  <2>6. ASSUME NEW i \in 1 .. Len(batch')
        PROVE  \/ entries'[batch'[i].fd] # NULL
               \/ \E b \in Channel : FdOf[b] = batch'[i].fd /\ Applied("REMOVE", b)'
    BY <1>0, <1>3, <1>7, <2>3, Types DEF EmptiedByRemoval
  <2> QED
    BY <2>3, <2>5, <2>6 DEF EmptiedByRemoval
<1>11. CASE /\ r.type = "ADD" /\ event_loop_handle_pending_add(c)
            /\ c \in Failing /\ UNCHANGED mapVars
  <2>1. UNCHANGED <<entries, nentries>> /\ process' = "running"
    BY <1>11 DEF event_loop_handle_pending_add, mapVars
  <2>2. ASSUME NEW d \in Channel \ Failing, Applied("ADD", d)'
        PROVE  Applied("ADD", d)
    BY <1>8, <1>11, <2>2
  <2>3. ASSUME NEW d \in Channel \ Failing, Applied("ADD", d)'
        PROVE  /\ FdOf[d] < nentries'
               /\ \/ entries'[FdOf[d]] # NULL
                  \/ \E b \in Channel : FdOf[b] = FdOf[d] /\ Applied("REMOVE", b)'
    BY <1>7, <2>1, <2>2, <2>3 DEF EmptiedByRemoval
  <2>4. ASSUME NEW i \in 1 .. Len(batch')
        PROVE  \/ entries'[batch'[i].fd] # NULL
               \/ \E b \in Channel : FdOf[b] = batch'[i].fd /\ Applied("REMOVE", b)'
    BY <1>3, <1>7, <2>1 DEF EmptiedByRemoval
  <2> QED
    BY <2>1, <2>3, <2>4 DEF EmptiedByRemoval
<1>12. CASE r.type = "REMOVE" /\ event_loop_handle_pending_remove(c)
  <2>1. InList(chan_elem, "REMOVE", c) /\ stage[c] = "removed"
    BY <1>0, <1>2, <1>6, <1>12 DEF RemovedOnce
  <2>2. CASE process' # "running"
    <3>1. fd < nentries /\ entries[fd] = NULL
      BY <1>12, <2>2 DEF event_loop_handle_pending_remove
    <3>2. Applied("ADD", c)
      <4>1. \A u \in Thread : ~InHand(u, "ADD", c)
        BY <1>0, <2>1 DEF AddedOnce
      <4>2. \A i \in 1 .. Len(pending) : InList(i, "ADD", c) => i < chan_elem
        BY <1>0, <1>2, <2>1 DEF RemovedOnce
      <4>3. \A i \in ToApply : ~InList(i, "ADD", c)
        BY <1>2, <1>5, <4>2
      <4> QED
        BY <2>1, <4>1, <4>3 DEF Applied, OnItsWay
    <3>3. pending'[chan_elem'] = r
      BY <1>3, <1>4, <2>2
    <3>4. ASSUME c \in Failing PROVE StumblesOver(pending[chan_elem])'
      BY <1>1, <1>12, <3>3, <3>4 DEF StumblesOver
    <3>5. ASSUME c \notin Failing PROVE StumblesOver(pending[chan_elem])'
      <4>1. PICK d \in Channel : FdOf[d] = fd /\ Applied("REMOVE", d)
        BY <3>1, <3>2, <3>5 DEF EmptiedByRemoval
      <4>2. d # c
        BY <1>5, <2>1, <4>1 DEF Applied, OnItsWay
      <4>3. Applied("REMOVE", d)'
        BY <1>7, <4>1
      <4> QED
        BY <1>1, <1>12, <3>3, <4>1, <4>2, <4>3 DEF StumblesOver
    <3>6. StumblesOver(pending[chan_elem])'
      BY <3>4, <3>5
    <3>7. UNCHANGED <<entries, nentries>>
      BY <1>12, <2>2 DEF event_loop_handle_pending_remove, mapVars
    <3> QED
      BY <1>3, <1>9, <2>2, <3>6, <3>7
  <2>3. CASE process' = "running" /\ UNCHANGED <<entries, nentries>>
    BY <1>9, <1>12, <2>3
  <2>4. CASE process' = "running" /\ nentries' = nentries
             /\ entries' = [entries EXCEPT ![fd] = NULL]
    <3>1. Applied("REMOVE", c)'
      <4>1. /\ \A u \in Thread : ~InHand(u, "REMOVE", c)
            /\ \A i \in 1 .. Len(pending) : InList(i, "REMOVE", c) => i = chan_elem
        BY <1>0, <1>2, <2>1 DEF RemovedOnce
      <4> QED
        BY <1>3, <1>5, <1>6, <2>1, <2>4, <4>1 DEF Applied, OnItsWay
    <3>2. \A f \in Fd : \/ entries'[f] = entries[f]
                       \/ \E b \in Channel : FdOf[b] = f /\ Applied("REMOVE", b)'
      BY <1>2, <2>4, <3>1
    <3>3. ASSUME NEW d \in Channel \ Failing, Applied("ADD", d)'
          PROVE  /\ FdOf[d] < nentries'
                 /\ \/ entries'[FdOf[d]] # NULL
                    \/ \E b \in Channel : FdOf[b] = FdOf[d] /\ Applied("REMOVE", b)'
      <4>1. Applied("ADD", d)
        BY <1>8, <1>12, <3>3
      <4> QED
        BY <1>2, <1>7, <2>4, <3>2, <4>1 DEF EmptiedByRemoval
    <3>4. ASSUME NEW i \in 1 .. Len(batch')
          PROVE  \/ entries'[batch'[i].fd] # NULL
                 \/ \E b \in Channel : FdOf[b] = batch'[i].fd /\ Applied("REMOVE", b)'
      BY <1>0, <1>3, <1>7, <3>2, Types DEF EmptiedByRemoval
    <3> QED
      BY <2>4, <3>3, <3>4 DEF EmptiedByRemoval
  <2> QED
    BY <1>12, <2>2, <2>3, <2>4 DEF event_loop_handle_pending_remove, mapVars
<1>13. CASE r.type = "UPDATE" /\ event_loop_handle_pending_update(c)
  <2>1. UNCHANGED <<entries, nentries>> /\ (process' # "running" => ~(fd < nentries))
    BY <1>2, <1>13 DEF event_loop_handle_pending_update, mapVars
  <2>2. process' # "running" => StumblesOver(pending[chan_elem])'
    <3> SUFFICES ASSUME process' # "running" PROVE StumblesOver(pending[chan_elem])'
      OBVIOUS
    <3>1. c \in Failing \/ ~Applied("ADD", c)
      BY <2>1 DEF EmptiedByRemoval
    <3>2. c \in Failing \/ ~(Applied("ADD", c)')
      BY <1>8, <1>13, <3>1
    <3>3. pending'[chan_elem'] = r
      BY <1>3, <1>4
    <3> QED
      BY <1>1, <1>13, <3>2, <3>3 DEF StumblesOver
  <2> QED
    BY <1>3, <1>9, <1>13, <2>1, <2>2
<1> QED
  BY <1>1, <1>10, <1>11, <1>12, <1>13 DEF HandlePendingElement

\* The parts of FailsOnlyForCause: who goes astray and aborts, and what faults.
StraysOnData ==
  /\ \A t \in Thread : pc[t] = "astray" =>
       request[t].type = "UPDATE" /\ request[t].chan \in Sending
  /\ process = "aborted" => \E t \in Thread : pc[t] = "astray"
FaultsForCause ==
  process = "faulted" =>
    \/ \E t \in Thread : pc[t] = "buffer" /\ request[t].chan \in Failing
    \/ pc[Owner] = "hp_walk" /\ StumblesOver(pending[chan_elem])
    \/ /\ pc[Owner] = "dispatch"
       /\ \E d \in Channel :
            FdOf[d] = Head(batch).fd /\ Applied("REMOVE", d)

\* A call that goes astray is one for write events.
LEMMA CallStrays ==
  ASSUME FullInv, StraysOnData, process = "running", NEW t \in Thread, NEW c \in Channel,
         \/ (AddCall(t, c) \/ RemoveCall(t, c) \/ UpdateCall(t, c)) /\ process' = process
         \/ channel_write_event_enable(t, c) \/ channel_write_event_disable(t, c)
  PROVE  StraysOnData'
<1>1. /\ pc \in [Thread -> Label]
      /\ request \in [Thread -> Request \cup {NULL}]
  BY Types DEF FullInv
<1>2. CASE CallsOnData(t, c) /\ c \in Sending
  <2>1. /\ pc'[t] = "astray" /\ request'[t] = [type |-> "UPDATE", chan |-> c]
        /\ \A u \in Thread \ {t} : pc'[u] = pc[u] /\ request'[u] = request[u]
    BY <1>1, <1>2 DEF CallsOnData, Goto
  <2> QED
    BY <1>2, <2>1 DEF StraysOnData
<1>3. CASE (\E type : Calls(t, type, c)) /\ process' = process
  <2>1. /\ pc'[t] = "lock"
        /\ \A u \in Thread \ {t} : pc'[u] = pc[u] /\ request'[u] = request[u]
    BY <1>1, <1>3 DEF Calls, Goto
  <2> QED
    BY <1>3, <2>1 DEF StraysOnData
<1> QED
  BY <1>2, <1>3 DEF AddCall, RemoveCall, UpdateCall, channel_write_event_enable,
     channel_write_event_disable

\* Every step keeps StraysOnData.
LEMMA StraysNext ==
  ASSUME FullInv, StraysOnData, [Next]_vars
  PROVE  StraysOnData'
<1> USE DEF loopVars, mapVars, clientVars
<1>1. Inv /\ Owner \in Thread /\ Poster \subseteq Thread /\ pc \in [Thread -> Label]
  BY Types DEF FullInv
<1>2. CASE UNCHANGED vars
  <2>1. UNCHANGED <<pc, request, process>>
    BY <1>2 DEF vars
  <2> QED
    BY <2>1 DEF StraysOnData
<1>3. ASSUME request' = request, process = "running", process' # "aborted",
             \A t \in Thread : pc'[t] = "astray" => pc[t] = "astray"
      PROVE  StraysOnData'
  BY <1>3 DEF StraysOnData
<1>4. ASSUME process = "running", NEW t \in Poster, PosterCall(t) PROVE StraysOnData'
  BY <1>1, <1>4, CallStrays DEF PosterCall
<1>5. ASSUME process = "running", NEW t \in Thread, ThreadStep(t) PROVE StraysOnData'
  BY <1>1, <1>3, <1>5
  DEF ThreadStep, Lock, Buffer, Unlock, event_loop_wakeup, Goto, Inv, ListIsProtected
<1>6. CASE process = "running" /\ HandlePending
  <2>1. CASE HandlePendingElement
    <3>1. pc' = pc /\ request' = request /\ process' # "aborted"
      BY <1>6, <2>1 DEF HandlePendingElement, event_loop_handle_pending_add,
         event_loop_handle_pending_remove, event_loop_handle_pending_update
    <3> QED
      BY <1>3, <1>6, <3>1
  <2> QED
    BY <1>1, <1>3, <1>6, <2>1 DEF HandlePending, HandlePendingLock, HandlePendingBegin,
       HandlePendingEnd, HandlePendingUnlock, Goto
<1>7. CASE process = "running" /\ DispatchEvent
  <2> DEFINE e == Head(batch)
  <2>1. PICK bit \in EpollEvent : channel_event_activate(e.fd, bit)
    BY <1>7 DEF DispatchEvent, EpollEvent
  <2>2. CASE UNCHANGED <<pc, request>> /\ process' # "aborted"
    BY <1>3, <1>7, <2>2
  <2>3. ASSUME NEW c \in Channel,
               \/ (AddCall(Owner, c) \/ RemoveCall(Owner, c) \/ UpdateCall(Owner, c))
                  /\ process' = process
               \/ channel_write_event_enable(Owner, c) \/ channel_write_event_disable(Owner, c)
        PROVE  StraysOnData'
    BY <1>1, <1>7, <2>3, CallStrays
  <2> QED
    BY <1>7, <2>1, <2>2, <2>3 DEF channel_event_activate, handle_wakeup, Callback
<1>8. CASE process = "running" /\ (EpollWait \/ DispatchHangUp \/ DispatchEnd)
  BY <1>1, <1>3, <1>8 DEF EpollWait, DispatchHangUp, DispatchEnd, Goto
<1> QED
  BY <1>2, <1>4, <1>5, <1>6, <1>7, <1>8 DEF Next, Dispatch

\* The loop can fault only in the places that FaultsForCause names.
LEMMA FaultsNext ==
  ASSUME FullInv, EmptiedByRemoval, FaultsForCause, [Next]_vars
  PROVE  EmptiedByRemoval' /\ FaultsForCause'
<1> USE DEF loopVars, mapVars, clientVars
<1>1. /\ Inv /\ Owner \in Thread /\ Poster \subseteq Thread /\ pc \in [Thread -> Label]
      /\ \A i \in 1 .. Len(batch) : batch[i].fd \in Fd
  BY Types DEF FullInv
<1>2. CASE UNCHANGED vars
  BY <1>2 DEF vars, EmptiedByRemoval, FaultsForCause, StumblesOver, Applied, OnItsWay,
     InHand, InList, ToApply
<1>3. ASSUME process' # "faulted" PROVE FaultsForCause'
  BY <1>3 DEF FaultsForCause
<1>4. ASSUME Settled, UNCHANGED <<entries, nentries, batch>> PROVE EmptiedByRemoval'
  BY <1>4, EmptiedKept
<1>5. ASSUME process = "running", NEW t \in Poster, PosterCall(t)
      PROVE  EmptiedByRemoval' /\ process' # "faulted"
  <2>1. PICK c \in Channel : CallAbout(t, c)
    BY <1>5 DEF PosterCall, CallAbout
  <2>2. process' # "faulted" /\ pc[t] = "idle"
    BY <1>5 DEF PosterCall, channel_write_event_enable, CallsOnData
  <2> QED
    BY <1>1, <1>4, <1>5, <2>1, <2>2, CallSettled DEF PosterCall
<1>6. ASSUME process = "running", NEW t \in Thread, ThreadStep(t)
      PROVE  EmptiedByRemoval' /\ FaultsForCause'
  <2>1. CASE Buffer(t) /\ process' = "faulted"
    <3>1. /\ UNCHANGED <<pc, request, stage, pending, chan_elem, entries, nentries, batch>>
          /\ pc[t] = "buffer" /\ request[t].chan \in Failing
      BY <1>6, <2>1 DEF Buffer
    <3>2. ToApply' = ToApply
      BY <3>1 DEF ToApply
    <3>3. Settled
      BY <3>1, <3>2, QuietSettled
    <3> QED
      BY <1>4, <3>1, <3>3 DEF FaultsForCause
  <2>2. CASE Buffer(t) /\ process' # "faulted"
    <3>1. /\ request[t] \in Request /\ request[t].chan \in Channel
          /\ pending' = Append(pending, request[t])
          /\ stage' = IF request[t].type = "ADD"
                      THEN [stage EXCEPT ![request[t].chan] = "added"] ELSE stage
          /\ UNCHANGED <<entries, nentries, batch>> /\ process' = "running"
      BY <1>1, <1>6, <2>2, RequestFields DEF Buffer, Inv, StepsOfThreads, ListIsProtected
    <3>2. pending' # pending
      BY <1>1, <3>1, Types, AppendProperties
    <3>3. \A d : OnItsWay("ADD", d)' <=> OnItsWay("ADD", d)
      BY <1>1, <2>2, <3>2, BufferOnItsWay
    <3>4. \A d : OnItsWay("REMOVE", d)' <=> OnItsWay("REMOVE", d)
      BY <1>1, <2>2, <3>2, BufferOnItsWay
    <3>5. request[t].type = "ADD" => /\ OnItsWay("ADD", request[t].chan)
                                    /\ stage[request[t].chan] = "adding"
      <4>1. request[t].type = "ADD" => InHand(t, "ADD", request[t].chan)
        BY <2>2 DEF Buffer, InHand
      <4> QED
        BY <3>1, <4>1 DEF FullInv, RequestInv, AddedOnce, OnItsWay
    <3>6. Settled
      BY <1>1, <3>1, <3>3, <3>4, <3>5, Types DEF Settled, Applied
    <3> QED
      BY <1>3, <1>4, <2>2, <3>1, <3>6
  <2>3. CASE Lock(t) \/ Unlock(t) \/ event_loop_wakeup(t)
    <3>1. /\ UNCHANGED <<entries, nentries, batch, stage, request, pending, chan_elem, process>>
          /\ pc' = [pc EXCEPT ![t] = pc'[t]]
          /\ \/ pc[t] = "lock" /\ pc'[t] = "buffer"
             \/ /\ pc[t] \in {"unlock", "wakeup"}
                /\ pc'[t] \in {"hp_lock", "wakeup", "idle"}
      BY <1>1, <2>3 DEF Lock, Unlock, event_loop_wakeup, Goto
    <3>2. \A u \in Thread : pc'[u] \in {"lock", "buffer"} <=> pc[u] \in {"lock", "buffer"}
      BY <1>1, <3>1
    <3>3. ToApply' = ToApply
      BY <1>1, <3>1 DEF ToApply
    <3>4. process' # "faulted"
      BY <1>6, <3>1
    <3> QED
      BY <1>3, <1>4, <3>1, <3>2, <3>3, <3>4, QuietSettled
  <2> QED
    BY <1>6, <2>1, <2>2, <2>3 DEF ThreadStep
<1>7. ASSUME process = "running",
             \/ HandlePendingLock \/ HandlePendingBegin \/ HandlePendingUnlock
             \/ HandlePendingEnd \/ DispatchEnd \/ EpollWait
      PROVE  EmptiedByRemoval' /\ process' # "faulted"
  <2>1. /\ UNCHANGED <<entries, nentries, interest, stage, request, process>>
        /\ pc' = [pc EXCEPT ![Owner] = pc'[Owner]]
        /\ \/ pc[Owner] = "hp_begin" /\ pc'[Owner] = "hp_walk" /\ chan_elem' = 1
              /\ UNCHANGED pending
           \/ pc[Owner] = "hp_walk" /\ pc'[Owner] = "hp_unlock" /\ pending' = <<>>
              /\ chan_elem > Len(pending)
           \/ /\ pc[Owner] \in {"hp_lock", "hp_unlock", "dispatch", "epoll_wait"}
              /\ pc'[Owner] \in {"hp_begin", "epoll_wait", "dispatch", "hp_lock"}
              /\ UNCHANGED <<pending, chan_elem>>
    BY <1>1, <1>7 DEF HandlePendingLock, HandlePendingBegin, HandlePendingUnlock,
       HandlePendingEnd, DispatchEnd, EpollWait, Goto
  <2>2. \A u \in Thread : pc'[u] \in {"lock", "buffer"} <=> pc[u] \in {"lock", "buffer"}
    BY <1>1, <2>1
  <2>3. \/ pending' = pending /\ ToApply' = ToApply
        \/ ToApply' = {} /\ ToApply = {}
    <3>1. CASE pc[Owner] = "hp_walk"
      <4>1. ToApply = {} /\ ToApply' = 1 .. 0
        BY <1>1, <2>1, <3>1, Types DEF ToApply, Inv, TypeOK
      <4> QED
        BY <4>1
    <3>2. CASE pc[Owner] # "hp_walk"
      BY <2>1, <3>2 DEF ToApply
    <3> QED
      BY <3>1, <3>2
  <2>4. Settled
    BY <2>1, <2>2, <2>3, QuietSettled
  <2>5. \A i \in 1 .. Len(batch') :
          \/ entries[batch'[i].fd] # NULL
          \/ \E j \in 1 .. Len(batch) : batch'[i].fd = batch[j].fd
    <3>1. CASE EpollWait
      BY <1>1, <3>1, EpollWaitBatch DEF watched, Inv, WatchedHasChannel
    <3>2. CASE batch' = batch
      BY <3>2
    <3> QED
      BY <1>7, <3>1, <3>2 DEF HandlePendingLock, HandlePendingBegin, HandlePendingUnlock,
         HandlePendingEnd, DispatchEnd
  <2> QED
    BY <1>7, <2>1, <2>4, <2>5, EmptiedKept
<1>8. ASSUME process = "running", DispatchHangUp
      PROVE  EmptiedByRemoval' /\ process' # "faulted"
  <2>1. /\ UNCHANGED <<pc, request, stage, pending, chan_elem, entries, nentries, process>>
        /\ batch # <<>> /\ batch' = Tail(batch)
    BY <1>8 DEF DispatchHangUp
  <2>2. ToApply' = ToApply
    BY <2>1 DEF ToApply
  <2>3. Settled
    BY <2>1, <2>2, QuietSettled
  <2>4. BatchIsPart
    <3>1. {} \in SUBSET EpollEvent
      OBVIOUS
    <3> QED
      BY <1>1, <2>1, <3>1, DispatchedBatch DEF FullInv
  <2> QED
    BY <1>8, <2>1, <2>3, <2>4, EmptiedKept DEF BatchIsPart
<1>9. ASSUME process = "running", DispatchEvent
      PROVE  EmptiedByRemoval' /\ FaultsForCause'
  <2> DEFINE e == Head(batch)
             bit == IF "EPOLLIN" \in e.events THEN "EPOLLIN" ELSE "EPOLLOUT"
  <2>1. e \in Report /\ {bit} \in SUBSET EpollEvent
    BY <1>1, <1>9, BatchShrinks DEF DispatchEvent, EpollEvent
  <2>2. /\ e.fd \in Fd /\ channel_event_activate(e.fd, bit)
        /\ pc[Owner] = "dispatch" /\ batch # <<>>
        /\ UNCHANGED <<pending, chan_elem, entries, nentries>>
        /\ \/ batch' = batch
           \/ batch' = Tail(batch)
           \/ batch' = <<[e EXCEPT !.events = @ \ {bit}]>> \o Tail(batch)
        /\ process' # "running" => batch' = batch
    BY <1>9, <2>1 DEF DispatchEvent, Report
  <2> HIDE DEF bit
  <2>3. BatchIsPart /\ 1 \in 1 .. Len(batch) /\ e = batch[1]
    <3>1. {bit} \in SUBSET EpollEvent /\ RequestInv
      BY <2>1 DEF FullInv
    <3>2. 1 \in 1 .. Len(batch) /\ e = batch[1]
      BY <1>1, <2>2, HeadTailProperties, EmptySeq, LenProperties DEF Inv, TypeOK
    <3>3. CASE batch' = batch
      BY <3>1, <3>2, <3>3 DEF RequestInv, WatchedIsHeld, BatchIsPart
    <3> QED
      BY <1>1, <2>2, <3>1, <3>2, <3>3, DispatchedBatch
  <2>4. CASE Settled /\ process' # "faulted"
    BY <1>3, <2>2, <2>3, <2>4, EmptiedKept DEF BatchIsPart
  <2>5. CASE UNCHANGED <<pc, request, stage>>
    <3>1. ToApply' = ToApply
      BY <2>2, <2>5 DEF ToApply
    <3>2. Settled
      BY <2>2, <2>5, <3>1, QuietSettled
    <3>3. CASE process' = "faulted"
      <4>1. entries[e.fd] = NULL
        BY <1>9, <2>2, <3>3
        DEF channel_event_activate, handle_wakeup, Callback, channel_write_event_enable,
            channel_write_event_disable, CallsOnData
      <4>2. PICK d \in Channel : FdOf[d] = e.fd /\ Applied("REMOVE", d)
        BY <2>3, <4>1 DEF EmptiedByRemoval
      <4>3. Applied("REMOVE", d)' /\ pc'[Owner] = "dispatch" /\ Head(batch') = e
        BY <2>2, <2>5, <3>2, <3>3, <4>2 DEF Settled
      <4>4. FaultsForCause'
        BY <4>2, <4>3 DEF FaultsForCause
      <4> QED
        BY <2>2, <2>3, <3>2, <4>4, EmptiedKept DEF BatchIsPart
    <3> QED
      BY <2>4, <3>2, <3>3
  <2>6. CASE \E c \in Channel : CallAbout(Owner, c) /\ process' # "faulted"
    BY <1>1, <2>2, <2>4, <2>6, CallSettled
  <2> QED
    BY <1>9, <2>2, <2>5, <2>6 DEF channel_event_activate, handle_wakeup, Callback, CallAbout,
       channel_write_event_enable, channel_write_event_disable, CallsOnData
<1>10. ASSUME process = "running", HandlePendingElement
       PROVE  EmptiedByRemoval' /\ FaultsForCause'
  BY <1>3, <1>10, ElementEmptied DEF FaultsForCause
<1> QED
  BY <1>2, <1>3, <1>5, <1>6, <1>7, <1>8, <1>9, <1>10 DEF Next, HandlePending, Dispatch

\* What holds when the loop has just been created.
LEMMA CauseInit == Init => CauseInv
<1> SUFFICES ASSUME Init PROVE CauseInv
  OBVIOUS
<1>1. /\ process = "running" /\ Len(batch) = 0
      /\ \A t \in Thread : pc[t] # "astray"
      /\ \A c \in Channel : stage[c] = "new"
  BY DEF Init
<1>2. FailsOnlyForCause
  BY <1>1 DEF FailsOnlyForCause
<1>3. EmptiedByRemoval
  <2>1. \A c \in Channel : ~Applied("ADD", c)
    BY <1>1 DEF Applied
  <2>2. 1 .. Len(batch) = {}
    BY <1>1
  <2> QED
    BY <2>1, <2>2 DEF EmptiedByRemoval
<1> QED
  BY <1>2, <1>3 DEF CauseInv

\* The list of what ends a loop is complete: a thread goes astray, and the
\* program aborts, only in a request for write events through chan->data; the
\* loop faults only where a request is queued with a malloc that fails, in the walk
\* over the removal of a channel whose entry another removal has emptied, over the
\* update of a channel that was not added yet, or over either for a channel whose
\* addition the map could not grow for, and in the dispatch of an event that was
\* reported before its channel was removed.
THEOREM FailsForCause == Spec => []FailsOnlyForCause
<1>1. FailsOnlyForCause <=> StraysOnData /\ FaultsForCause
  BY DEF FailsOnlyForCause, StraysOnData, FaultsForCause
<1>2. (FailsOnlyForCause <=> StraysOnData /\ FaultsForCause)'
  BY DEF FailsOnlyForCause, StraysOnData, FaultsForCause
<1>3. FullInv /\ CauseInv /\ [Next]_vars => CauseInv'
  <2> SUFFICES ASSUME FullInv, CauseInv, [Next]_vars PROVE CauseInv'
    OBVIOUS
  <2>1. StraysOnData'
    BY <1>1, StraysNext DEF CauseInv
  <2> QED
    BY <1>1, <1>2, <2>1, FaultsNext DEF CauseInv
<1>4. CauseInv => FailsOnlyForCause
  BY DEF CauseInv
<1> QED
  BY <1>3, <1>4, CauseInit, RequestInvariance, PTL DEF Spec

=============================================================================
