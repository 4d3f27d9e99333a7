------------------------------ MODULE TimerOrder ------------------------------
(***************************************************************************)
(* The order SortedTimerList (timer/lst_timer.cpp) keeps its timers in, as *)
(* operators on sequences of entries [timer, expire], head first.          *)
(***************************************************************************)
EXTENDS Integers, Sequences, SequencesExt

Entry(t, e) == [timer |-> t, expire |-> e]

(* Entry x goes in front of the first entry that expires later, hence      *)
(* behind those that expire at the same time.                              *)
Place(q, x) ==
    CHOOSE k \in 1..(Len(q) + 1) :
        /\ k = Len(q) + 1 \/ x.expire < q[k].expire
        /\ \A i \in 1..(k - 1) : q[i].expire <= x.expire

Insert(q, x) == InsertAt(q, Place(q, x), x)

(* The places of the entries that have expired.                            *)
Expired(q, now) == {i \in 1..Len(q) : q[i].expire <= now}

(* The entry of timer t is taken out.                                      *)
PlaceOf(q, t) == CHOOSE i \in 1..Len(q) : q[i].timer = t

Without(q, t) == IF \E i \in 1..Len(q) : q[i].timer = t
                 THEN RemoveAt(q, PlaceOf(q, t)) ELSE q

TimersOf(q) == {q[i].timer : i \in 1..Len(q)}

InExpiryOrder(q) == \A i, j \in 1..Len(q) : i < j => q[i].expire <= q[j].expire
===============================================================================
