------------------------------ MODULE BlockQueue ------------------------------
(***************************************************************************)
(* BlockQueue<T> (include/block_queue.h): a circular array with a mutex    *)
(* and a condition variable.  Each method is a critical section and one    *)
(* step; pop() is one more step for each time it waits.  clear() and the   *)
(* pop() with a timeout are used nowhere in the program.                   *)
(*                                                                         *)
(* The definitions have names of their own so that a module that uses a    *)
(* queue can extend this one.                                              *)
(***************************************************************************)
EXTENDS Integers, Sequences

CONSTANTS Items,        \* T
          Consumers,    \* the threads that call pop()
          max_size,     \* m_max_size
          NULL          \* no item

ASSUME QueueAssumption == /\ max_size \in Nat \ {0}
                          /\ NULL \notin Items

VARIABLES m_array, m_size, m_front, m_back,
          sleeping,     \* the consumers in pthread_cond_wait
          item          \* what pop() has returned to each consumer

bqVars == <<m_array, m_size, m_front, m_back, sleeping, item>>

Index == 0..(max_size - 1)

BQInit == /\ m_array = [i \in Index |-> NULL]
          /\ m_size = 0
          /\ m_front = -1 /\ m_back = -1
          /\ sleeping = {}
          /\ item = [c \in Consumers |-> NULL]

-------------------------------------------------------------------------------
(* Mutant: the check lets one more in.                                     *)
Full_OffByOne == m_size > max_size
Full == m_size >= max_size

Following(i) == (i + 1) % max_size

(* Mutant: nobody is woken.                                                *)
Push_NoBroadcast(x) == /\ ~Full
                       /\ m_back' = Following(m_back)
                       /\ m_array' = [m_array EXCEPT ![m_back'] = x]
                       /\ m_size' = m_size + 1
                       /\ UNCHANGED <<m_front, item, sleeping>>

(* push() that returns true; it wakes all who wait.                        *)
Push(x) == /\ ~Full
           /\ m_back' = Following(m_back)
           /\ m_array' = [m_array EXCEPT ![m_back'] = x]
           /\ m_size' = m_size + 1
           /\ sleeping' = {}
           /\ UNCHANGED <<m_front, item>>

(* push() that returns false.                                              *)
PushFails == /\ Full
             /\ sleeping' = {}
             /\ UNCHANGED <<m_array, m_size, m_front, m_back, item>>

(* Mutants: the newest is taken; m_front is advanced after it is used, as  *)
(* front() reads it.                                                       *)
Pop_Newest(c) == /\ c \notin sleeping
                 /\ m_size > 0
                 /\ m_back' = (m_back + max_size - 1) % max_size
                 /\ item' = [item EXCEPT ![c] = m_array[m_back]]
                 /\ m_size' = m_size - 1
                 /\ UNCHANGED <<m_array, m_front, sleeping>>

Pop_FrontFirst(c) == /\ c \notin sleeping
                     /\ m_size > 0
                     /\ m_front' = Following(m_front)
                     /\ item' = [item EXCEPT ![c] = IF m_front < 0 THEN NULL
                                                    ELSE m_array[m_front]]
                     /\ m_size' = m_size - 1
                     /\ UNCHANGED <<m_array, m_back, sleeping>>

(* pop(): take, or wait as long as there is nothing.                       *)
Pop(c) == /\ c \notin sleeping
          /\ m_size > 0
          /\ m_front' = Following(m_front)
          /\ item' = [item EXCEPT ![c] = m_array[m_front']]
          /\ m_size' = m_size - 1
          /\ UNCHANGED <<m_array, m_back, sleeping>>

PopWaits(c) == /\ c \notin sleeping
               /\ m_size <= 0
               /\ sleeping' = sleeping \cup {c}
               /\ UNCHANGED <<m_array, m_size, m_front, m_back, item>>

(* pthread_cond_wait may return without a broadcast.                       *)
SpuriousWakeup(c) == /\ c \in sleeping
                     /\ sleeping' = sleeping \ {c}
                     /\ UNCHANGED <<m_array, m_size, m_front, m_back, item>>

BQNext == \/ \E x \in Items : Push(x)
          \/ PushFails
          \/ \E c \in Consumers : Pop(c) \/ PopWaits(c) \/ SpuriousWakeup(c)

BQSpec == BQInit /\ [][BQNext]_bqVars

-------------------------------------------------------------------------------
(* Every variable has its type; the three indices agree.                   *)
BQTypeOK == /\ m_array \in [Index -> Items \cup {NULL}]
            /\ m_size \in 0..max_size
            /\ m_front \in -1..(max_size - 1) /\ m_back \in -1..(max_size - 1)
            /\ sleeping \subseteq Consumers
            /\ item \in [Consumers -> Items \cup {NULL}]

(* Nobody waits for an item while there is one: a broadcast that comes     *)
(* before the wait is not missed, the count being read under the lock.     *)
NoLostWakeup == m_size > 0 => sleeping = {}

(* The m_size cells behind m_front are the items, oldest first.            *)
Contents == [k \in 1..m_size |-> m_array[(m_front + k) % max_size]]

(* The circular array is a bounded queue: nothing is overwritten before it *)
(* is taken, skipped or taken twice, wherever the indices wrap around.     *)
Fifo == INSTANCE BoundedFifo WITH items <- Contents, got <- item,
                                  Capacity <- max_size, None <- NULL
ImplementsFifo == Fifo!Spec
===============================================================================
