---------------------------- MODULE ChannelQueue ----------------------------
(***************************************************************************)
(* What an event loop promises to the threads that call                    *)
(* event_loop_{add,remove,update}_channel_event, with no mutex, no flag,   *)
(* no wakeup socket and no thread in sight: requests are queued, and are   *)
(* applied to the channel map one at a time, each exactly once, in the     *)
(* order they were queued.  EventLoop implements this specification.       *)
(***************************************************************************)
EXTENDS Sequences

CONSTANTS
  Channel,      \* the channels the callers ask the loop to run
  Fd,           \* file descriptors
  FdOf,         \* chan->fd, a function from Channel to Fd
  WakeFd,       \* socket_pair[1] of the loop
  WakeChan,     \* its channel, registered when the loop is created
  NULL,         \* an empty map entry
  Failing       \* the channels for which the map may fail to grow

VARIABLES
  queue,        \* requests not yet applied, oldest first
  owner,        \* owner[fd]: the channel the loop runs for events on fd
  watched       \* the descriptors whose events the loop receives

qvars == <<queue, owner, watched>>

RequestType == {"ADD", "REMOVE", "UPDATE"}
Request == [type: RequestType, chan: Channel]

QueueInit ==
  /\ queue = <<>>
  /\ owner = [fd \in Fd |-> IF fd = WakeFd THEN WakeChan ELSE NULL]
  /\ watched = {WakeFd}

Post ==
  /\ \E r \in Request : queue' = Append(queue, r)
  /\ UNCHANGED <<owner, watched>>

\* A request to add a channel takes effect when its descriptor has no owner
\* (and the map can grow); otherwise it is dropped.
ApplyAdd ==
  /\ queue # <<>>
  /\ Head(queue).type = "ADD"
  /\ queue' = Tail(queue)
  /\ LET c == Head(queue).chan
     IN \/ /\ owner[FdOf[c]] = NULL
           /\ owner' = [owner EXCEPT ![FdOf[c]] = c]
           /\ watched' = watched \cup {FdOf[c]}
        \/ /\ owner[FdOf[c]] # NULL \/ c \in Failing
           /\ UNCHANGED <<owner, watched>>

ApplyRemove ==
  /\ queue # <<>>
  /\ Head(queue).type = "REMOVE"
  /\ queue' = Tail(queue)
  /\ owner' = [owner EXCEPT ![FdOf[Head(queue).chan]] = NULL]
  /\ watched' = watched \ {FdOf[Head(queue).chan]}

\* An update changes which events of a watched descriptor are received, never
\* whether it is watched.
ApplyUpdate ==
  /\ queue # <<>>
  /\ Head(queue).type = "UPDATE"
  /\ queue' = Tail(queue)
  /\ UNCHANGED <<owner, watched>>

\* A descriptor that hangs up is closed, and is no longer watched.
HangUp ==
  /\ \E fd \in watched \ {WakeFd} : watched' = watched \ {fd}
  /\ UNCHANGED <<queue, owner>>

QueueNext == Post \/ ApplyAdd \/ ApplyRemove \/ ApplyUpdate \/ HangUp

QueueSpec == QueueInit /\ [][QueueNext]_qvars
=============================================================================
