------------------------------ MODULE WorkQueue ------------------------------
(***************************************************************************)
(* What ProcessThreadPool promises the thread that appends to it, whatever *)
(* semaphores and locks are behind it: requests start in the order in      *)
(* which they were accepted, each of them once, at most one at a time on   *)
(* each server, and a request at the head of the queue is not left there   *)
(* while a server stays free.                                              *)
(***************************************************************************)
EXTENDS Naturals, Sequences

CONSTANTS Requests,     \* what is queued
          Servers,      \* what runs requests, one at a time each
          None          \* a server without a request; no member of Requests

VARIABLES waiting,      \* accepted requests that no server has taken, oldest first
          running       \* the request each server has taken and not finished

vars == <<waiting, running>>

Init == /\ waiting = << >>
        /\ running = [s \in Servers |-> None]

(* A request is accepted only when it is neither waiting nor running.      *)
Submit(r) == /\ \A s \in Servers : running[s] # r
             /\ \A i \in 1..Len(waiting) : waiting[i] # r
             /\ waiting' = Append(waiting, r)
             /\ UNCHANGED running

Start(s) == /\ waiting # << >>
            /\ running[s] = None
            /\ running' = [running EXCEPT ![s] = Head(waiting)]
            /\ waiting' = Tail(waiting)

Finish(s) == /\ running[s] # None
             /\ running' = [running EXCEPT ![s] = None]
             /\ UNCHANGED waiting

SomeStart == \E s \in Servers : Start(s)

Next == \/ \E r \in Requests : Submit(r)
        \/ SomeStart
        \/ \E s \in Servers : Finish(s)

(* Only starting is owed: how long a request runs is up to the request.    *)
Spec == Init /\ [][Next]_vars /\ WF_vars(SomeStart)
==============================================================================
