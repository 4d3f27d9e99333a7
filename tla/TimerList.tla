------------------------------- MODULE TimerList -------------------------------
(***************************************************************************)
(* SortedTimerList (timer/lst_timer.cpp) as it is built: Timer objects     *)
(* linked by next and prev, with head and tail.  Only the thread of the    *)
(* event loop uses it, one call at a time, so each method is one step; the *)
(* loops that walk the list are "the first node on the path such that".    *)
(* The links of a deleted Timer read as Freed and its expire as 0.         *)
(*                                                                         *)
(* cb_func() is the environment's: all it does to the list is nothing.     *)
(***************************************************************************)
EXTENDS Integers, Sequences, FiniteSets, FiniteSetsExt, TimerOrder

CONSTANTS Timers,     \* addresses of Timer objects
          Lifetime,   \* 3*TIMESLOT, what init and adjust_timer set expire to
          MaxTime,    \* bound: the clock stops here
          NULL, Freed

ASSUME TimerListAssumption == /\ IsFiniteSet(Timers)
                              /\ {NULL, Freed} \cap Timers = {}
                              /\ NULL # Freed
                              /\ Lifetime \in Nat \ {0}
                              /\ MaxTime \in Nat

VARIABLES head, tail,   \* the ends of the list
          next, prev,   \* the links of each Timer
          expire,       \* Timer::expire
          live,         \* the Timer objects that exist
          now,          \* time(NULL)
          fired         \* the timers called back by the last timeout(), in order

vars == <<head, tail, next, prev, expire, live, now, fired>>

Init == /\ head = NULL /\ tail = NULL
        /\ next = [t \in Timers |-> Freed]
        /\ prev = [t \in Timers |-> Freed]
        /\ expire = [t \in Timers |-> 0]
        /\ live = {}
        /\ now = 0
        /\ fired = << >>

-------------------------------------------------------------------------------
(* The nodes on the way from start along the links nx, in order: Path is   *)
(* what each step leads to, Chain ends it where there is no node.          *)
Path(nx, start) ==
    LET Step == [x \in Timers \cup {NULL, Freed} |-> IF x \in Timers THEN nx[x] ELSE x]
        node[k \in Nat] == IF k = 0 THEN start ELSE Step[node[k - 1]]
    IN node

Chain(nx, start) ==
    LET N == Cardinality(Timers)
        n == Min({k \in 0..N : Path(nx, start)[k] \notin Timers} \cup {N})
    IN [k \in 1..n |-> Path(nx, start)[k - 1]]

(* Mutant: stop before a node that expires at the same time.               *)
LastBefore_Equal(nx, start, e) ==
    LET c == Chain(nx, start)
    IN c[Min({k \in DOMAIN c : nx[c[k]] \in Timers => e <= expire[nx[c[k]]]})]

(* Where _add_timer stops: the first node from start on whose successor    *)
(* expires after e, or that has none.                                      *)
LastBefore(nx, start, e) ==
    LET c == Chain(nx, start)
    IN c[Min({k \in DOMAIN c : nx[c[k]] \in Timers => e < expire[nx[c[k]]]})]

(* _add_timer(t, start) on the links nx and pv: t between the node found   *)
(* and its successor, or at the tail.                                      *)
LinkAfter(t, e, start, nx, pv) ==
    LET p == LastBefore(nx, start, e)
        q == nx[p]
    IN /\ next' = [nx EXCEPT ![p] = t, ![t] = q]
       /\ prev' = [x \in Timers |-> CASE x = t -> p
                                      [] x = q -> t
                                      [] OTHER -> pv[x]]
       /\ tail' = IF q = NULL THEN t ELSE tail

(* delete: the object is gone and its fields with it.                      *)
Free(links, gone) == [t \in Timers |-> IF t \in gone THEN Freed ELSE links[t]]

-------------------------------------------------------------------------------
(* new Timer(.., now + Lifetime), then add_timer.                          *)
Add(t) ==
    LET e  == now + Lifetime
        nx == [next EXCEPT ![t] = NULL]
        pv == [prev EXCEPT ![t] = NULL]
    IN /\ t \notin live
       /\ live' = live \cup {t}
       /\ expire' = [expire EXCEPT ![t] = e]
       /\ \/ /\ head = NULL
             /\ head' = t /\ tail' = t
             /\ next' = nx /\ prev' = pv
          \/ /\ head # NULL /\ e < expire[head]
             /\ next' = [nx EXCEPT ![t] = head]
             /\ prev' = [pv EXCEPT ![head] = t]
             /\ head' = t
             /\ UNCHANGED tail
          \/ /\ head # NULL /\ e >= expire[head]
             /\ LinkAfter(t, e, head, nx, pv)
             /\ UNCHANGED head
       /\ UNCHANGED <<now, fired>>

(* expire is set to now + Lifetime, then adjust_timer.                     *)
Adjust(t) ==
    LET e == now + Lifetime
        s == next[t]
    IN /\ t \in live
       /\ expire' = [expire EXCEPT ![t] = e]
       /\ \/ /\ s # NULL => e < expire[s]
             /\ UNCHANGED <<head, tail, next, prev>>
          \/ /\ s # NULL /\ e >= expire[s] /\ t = head
             /\ head' = s
             /\ LinkAfter(t, e, s, [next EXCEPT ![t] = NULL],
                                   [prev EXCEPT ![s] = NULL])
          \/ /\ s # NULL /\ e >= expire[s] /\ t # head
             /\ LinkAfter(t, e, s, [next EXCEPT ![prev[t]] = s],
                                   [prev EXCEPT ![s] = prev[t]])
             /\ UNCHANGED head
       /\ UNCHANGED <<live, now, fired>>

Delete(t) ==
    /\ t \in live
    /\ live' = live \ {t}
    /\ \/ /\ t = head /\ t = tail
          /\ head' = NULL /\ tail' = NULL
          /\ next' = Free(next, {t}) /\ prev' = Free(prev, {t})
       \/ /\ t = head /\ t # tail
          /\ head' = next[t]
          /\ next' = Free(next, {t})
          /\ prev' = Free([prev EXCEPT ![next[t]] = NULL], {t})
          /\ UNCHANGED tail
       \/ /\ t # head /\ t = tail
          /\ tail' = prev[t]
          /\ next' = Free([next EXCEPT ![prev[t]] = NULL], {t})
          /\ prev' = Free(prev, {t})
          /\ UNCHANGED head
       \/ /\ t # head /\ t # tail
          /\ next' = Free([next EXCEPT ![prev[t]] = next[t]], {t})
          /\ prev' = Free([prev EXCEPT ![next[t]] = prev[t]], {t})
          /\ UNCHANGED <<head, tail>>
    /\ expire' = [expire EXCEPT ![t] = 0]
    /\ UNCHANGED <<now, fired>>

(* Mutants: the successor is read after delete; the new head keeps its     *)
(* link back.                                                              *)
Timeout_ReadAfterDelete ==
    LET c == Chain(next, head)
        n == Min({k \in 0..Len(c) : k < Len(c) => now < expire[c[k + 1]]})
        gone == {c[k] : k \in 1..n}
    IN /\ fired' = SubSeq(c, 1, n)
       /\ head' = IF n = 0 THEN head ELSE Freed
       /\ next' = Free(next, gone) /\ prev' = Free(prev, gone)
       /\ expire' = [t \in Timers |-> IF t \in gone THEN 0 ELSE expire[t]]
       /\ live' = live \ gone
       /\ UNCHANGED <<tail, now>>

Timeout_KeepLinkBack ==
    LET c == Chain(next, head)
        n == Min({k \in 0..Len(c) : k < Len(c) => now < expire[c[k + 1]]})
        gone == {c[k] : k \in 1..n}
    IN /\ fired' = SubSeq(c, 1, n)
       /\ head' = IF n = 0 THEN head ELSE next[c[n]]
       /\ next' = Free(next, gone) /\ prev' = Free(prev, gone)
       /\ expire' = [t \in Timers |-> IF t \in gone THEN 0 ELSE expire[t]]
       /\ live' = live \ gone
       /\ UNCHANGED <<tail, now>>

(* Call back and delete from the head on until a timer is not due; tail is *)
(* left alone even when nothing is left.                                   *)
Timeout ==
    LET c == Chain(next, head)
        n == Min({k \in 0..Len(c) : k < Len(c) => now < expire[c[k + 1]]})
        gone == {c[k] : k \in 1..n}
        rest == IF n = 0 THEN head ELSE next[c[n]]
    IN /\ fired' = SubSeq(c, 1, n)
       /\ head' = rest
       /\ next' = Free(next, gone)
       /\ prev' = Free([t \in Timers |-> IF t = rest THEN NULL ELSE prev[t]], gone)
       /\ expire' = [t \in Timers |-> IF t \in gone THEN 0 ELSE expire[t]]
       /\ live' = live \ gone
       /\ UNCHANGED <<tail, now>>

Advance == /\ now < MaxTime
           /\ now' = now + 1
           /\ UNCHANGED <<head, tail, next, prev, expire, live, fired>>

Next == \/ \E t \in Timers : Add(t) \/ Adjust(t) \/ Delete(t)
        \/ Timeout
        \/ Advance

Spec == Init /\ [][Next]_vars

-------------------------------------------------------------------------------
(* Every variable has its type.                                            *)
TypeOK == /\ {head, tail} \subseteq Timers \cup {NULL}
          /\ next \in [Timers -> Timers \cup {NULL, Freed}]
          /\ prev \in [Timers -> Timers \cup {NULL, Freed}]
          /\ expire \in [Timers -> Nat]
          /\ live \subseteq Timers
          /\ now \in 0..MaxTime
          /\ fired \in Seq(Timers)

(* Two ways through one list: following next from the head visits every    *)
(* existing timer once and ends at tail, prev leads the way back, and no   *)
(* link on the way leads to a deleted timer.  Of an empty list only head   *)
(* can be trusted: timeout() leaves tail at a deleted timer.               *)
WellLinked ==
    LET c == Chain(next, head)
        n == Len(c)
    IN /\ ToSet(c) = live /\ n = Cardinality(live)
       /\ live = {} => head = NULL
       /\ live # {} => /\ next[c[n]] = NULL /\ tail = c[n]
                       /\ prev[head] = NULL
       /\ \A k \in 2..n : prev[c[k]] = c[k - 1]

(* The linked list is the sorted list it stands for: nothing is lost when  *)
(* a timer moves, early returns of adjust_timer leave the order right, and *)
(* timeout() can stop at the first timer that is not due.                  *)
Contents == [k \in DOMAIN Chain(next, head) |->
                LET t == Path(next, head)[k - 1] IN Entry(t, expire[t])]
Abstract == INSTANCE SortedTimers WITH timers <- Contents
ImplementsSortedTimers == Abstract!Spec
===============================================================================
