---------------------------- MODULE MCTcpServer ----------------------------
(* TcpServer with up to two threads, and three connections of which two    *)
(* have the same descriptor one after the other, or all have their own.    *)
EXTENDS TcpServer

CONSTANTS c1, c2, c3, f1, f2, f3, listen_fd, w0, w1, wm

MCConn == {c1, c2, c3}
MCFd == {f1, f2, f3, listen_fd, w0, w1, wm}
MCWakeFd == [l \in Loop |-> IF l = Main THEN wm ELSE IF l = 0 THEN w0 ELSE w1]
MCFdOfReused == [c \in Channel |-> IF c = c1 \/ c = c2 THEN f1
                                   ELSE IF c = c3 THEN f3 ELSE listen_fd]
MCFdOfDistinct == [c \in Channel |-> IF c = c1 THEN f1 ELSE IF c = c2 THEN f2
                                     ELSE IF c = c3 THEN f3 ELSE listen_fd]
MCThreadNumbers == {-1, 0, 1, 2}
MCTwoThreads == {2}
=============================================================================
