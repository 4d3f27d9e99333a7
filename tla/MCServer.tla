------------------------------- MODULE MCServer -------------------------------
(* Instance of Server for TLC.                                             *)
EXTENDS Server

AllPorts == Listeners
HttpOnly == {ListenFd}
DataOnly == {"data"}
AllInput == {"data", "end"}
AllSignals == {"SIGALRM", "SIGTERM"}

(* A connection is closed and the process goes on (http_conn.cpp:61,       *)
(* lst_timer.cpp:18): it stops when SIGTERM has ended the loop.            *)
OnlyStopsWhenTold == [][alive' = FALSE => server_state = "STOPPED"]_vars

(* The connection is kept alive (http_conn.cpp:868): each request on it is *)
(* read in the end.                                                        *)
EveryRequestIsRead ==
    \A f \in ConnFds : "data" \in input[f] ~> ("data" \notin input[f])

(* An expired timer is called back and deleted (lst_timer.cpp:95), unless  *)
(* the connection is used again.                                           *)
ExpiredTimersAreDeleted ==
    \A f \in ConnFds :
        Entry(f, 0) \in ToSet(timer_lst) ~> Entry(f, 0) \notin ToSet(timer_lst)
===============================================================================
