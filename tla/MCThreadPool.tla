---------------------------- MODULE MCThreadPool ----------------------------
(* Instance of ThreadPool for TLC: two workers and two connections, as the *)
(* code has eight of each, and enough handlers for append() to reject one  *)
(* while the list has MaxRequests + 1.                                     *)
EXTENDS ThreadPool

(* What get_connection() says of itself: whoever asks for a connection     *)
(* gets a usable one (sql_connection_pool.cpp:72).                         *)
EveryWorkerGetsConnection ==
    \A w \in Workers : pc[w] = "process" => mysql[request[w]] # NULL
=============================================================================
