------------------------------ MODULE BoundedFifo ------------------------------
(***************************************************************************)
(* What BlockQueue promises the threads around it: what was put first is   *)
(* got first, by one consumer, and there are never more than Capacity      *)
(* items.                                                                  *)
(***************************************************************************)
EXTENDS Naturals, Sequences

CONSTANTS Items, Consumers, Capacity, None

VARIABLES items,    \* what is in the queue, oldest first
          got       \* what each consumer got last

vars == <<items, got>>

Init == /\ items = << >>
        /\ got = [c \in Consumers |-> None]

Put(x) == /\ Len(items) < Capacity
          /\ items' = Append(items, x)
          /\ UNCHANGED got

Get(c) == /\ items # << >>
          /\ got' = [got EXCEPT ![c] = Head(items)]
          /\ items' = Tail(items)

SomeGet == \E c \in Consumers : Get(c)

Next == \/ \E x \in Items : Put(x)
        \/ SomeGet

Spec == Init /\ [][Next]_vars
===============================================================================
