----------------------------- MODULE SortedTimers -----------------------------
(***************************************************************************)
(* What SortedTimerList promises its caller: the timers in the order of    *)
(* their expiry, an adjusted timer moved to its new place, and a timeout   *)
(* that calls back exactly the timers that have expired, earliest first.   *)
(***************************************************************************)
EXTENDS TimerOrder

CONSTANTS Timers,     \* what can be in the list
          Lifetime    \* how far ahead a timer is set: 3*TIMESLOT

VARIABLES timers,     \* the list, head first
          now,        \* time(NULL)
          fired       \* the timers the last timeout() called back, in order

vars == <<timers, now, fired>>

Init == /\ timers = << >>
        /\ now = 0
        /\ fired = << >>

Add(t) == /\ t \notin TimersOf(timers)
          /\ timers' = Insert(timers, Entry(t, now + Lifetime))
          /\ UNCHANGED <<now, fired>>

Adjust(t) == /\ t \in TimersOf(timers)
             /\ timers' = Insert(Without(timers, t), Entry(t, now + Lifetime))
             /\ UNCHANGED <<now, fired>>

Delete(t) == /\ t \in TimersOf(timers)
             /\ timers' = Without(timers, t)
             /\ UNCHANGED <<now, fired>>

Timeout == \E n \in 0..Len(timers) :
               /\ Expired(timers, now) = 1..n
               /\ timers' = SubSeq(timers, n + 1, Len(timers))
               /\ fired' = [i \in 1..n |-> timers[i].timer]
               /\ UNCHANGED now

Advance == /\ now' = now + 1
           /\ UNCHANGED <<timers, fired>>

Next == \/ \E t \in Timers : Add(t) \/ Adjust(t) \/ Delete(t)
        \/ Timeout
        \/ Advance

Spec == Init /\ [][Next]_vars
===============================================================================
