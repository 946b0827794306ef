---------------------------- MODULE MCEventLoop ----------------------------
(* EventLoop on small instances.                                           *)
EXTENDS EventLoop, TLC

CONSTANTS main, other, worker, c1, c2, c3

MCPoster1 == {main}
MCPoster2 == {main, other}
MCChannel2 == {c1, c2}
MCChannel3 == {c1, c2, c3}
MCFd2 == 0 .. 1
MCFd3 == 0 .. 2

\* c1 and c2 have the same descriptor, one after the other.
MCReusedFd2 == c1 :> 1 @@ c2 :> 1
MCReusedFd3 == c1 :> 1 @@ c2 :> 1 @@ c3 :> 2

MCMapSizes == {1, 2, 4, 8}
MCNone == {}
MCFirst == {c1}
MCLast == {c3}
MCReused == {c1, c2}
=============================================================================
