--------------------------- MODULE ThreadPool_proofs ---------------------------
(***************************************************************************)
(* Proofs about ThreadPool, for any number of workers, handlers and        *)
(* connections.  The safety invariants are proved in the order in which    *)
(* they need each other: the types, then that no handler is worked on      *)
(* twice, then the queue with its semaphore and the connections.           *)
(***************************************************************************)
EXTENDS ThreadPool, FiniteSetTheorems, SequenceTheorems, TLAPS

-------------------------------------------------------------------------------
(* Sequences without repetitions.                                          *)

(* Appending adds one element to the range.                                *)
LEMMA RangeAppend ==
    ASSUME NEW S, NEW s \in Seq(S), NEW e \in S
    PROVE  Range(Append(s, e)) = Range(s) \cup {e}
<1>1. /\ DOMAIN s = 1..Len(s)
      /\ DOMAIN Append(s, e) = 1..(Len(s) + 1)
      /\ Len(s) \in Nat
    BY AppendProperties, LenProperties
<1>2. \A i \in 1..Len(s) : Append(s, e)[i] = s[i]
    BY AppendProperties
<1>3. Append(s, e)[Len(s) + 1] = e
    BY AppendProperties
<1>4. Range(Append(s, e)) \subseteq Range(s) \cup {e}
  <2>1. SUFFICES ASSUME NEW i \in 1..(Len(s) + 1)
                 PROVE  Append(s, e)[i] \in Range(s) \cup {e}
      BY <1>1 DEF Range
  <2>2. CASE i = Len(s) + 1
      BY <2>2, <1>3
  <2>3. CASE i \in 1..Len(s)
      BY <2>3, <1>1, <1>2 DEF Range
  <2> QED BY <2>1, <2>2, <2>3, <1>1
<1>5. Range(s) \subseteq Range(Append(s, e))
  <2>1. SUFFICES ASSUME NEW i \in 1..Len(s)
                 PROVE  s[i] \in Range(Append(s, e))
      BY <1>1 DEF Range
  <2>2. i \in 1..(Len(s) + 1) /\ Append(s, e)[i] = s[i]
      BY <1>1, <1>2
  <2> QED BY <2>2, <1>1 DEF Range
<1>6. e \in Range(Append(s, e))
    BY <1>1, <1>3, Len(s) + 1 \in 1..(Len(s) + 1) DEF Range
<1> QED BY <1>4, <1>5, <1>6

(* Appending a new element keeps a sequence free of repetitions.           *)
LEMMA InjectiveAppend ==
    ASSUME NEW S, NEW s \in Seq(S), NEW e \in S,
           IsInjective(s), e \notin Range(s)
    PROVE  IsInjective(Append(s, e))
<1>1. /\ DOMAIN s = 1..Len(s)
      /\ DOMAIN Append(s, e) = 1..(Len(s) + 1)
      /\ Len(s) \in Nat
    BY AppendProperties, LenProperties
<1>2. /\ \A i \in 1..Len(s) : Append(s, e)[i] = s[i]
      /\ Append(s, e)[Len(s) + 1] = e
    BY AppendProperties
<1>3. \A i \in 1..Len(s) : s[i] # e
    BY <1>1 DEF Range
<1>4. \A i, j \in 1..Len(s) : s[i] = s[j] => i = j
    BY <1>1 DEF IsInjective
<1>5. \A i \in 1..(Len(s) + 1) : i \in 1..Len(s) \/ i = Len(s) + 1
    BY <1>1
<1>6. SUFFICES ASSUME NEW i \in 1..(Len(s) + 1), NEW j \in 1..(Len(s) + 1),
                      Append(s, e)[i] = Append(s, e)[j]
               PROVE  i = j
    BY <1>1 DEF IsInjective
<1> QED BY <1>2, <1>3, <1>4, <1>5, <1>6

(* Taking the head off leaves the others, without repetitions.             *)
LEMMA InjectiveTail ==
    ASSUME NEW S, NEW s \in Seq(S), s # << >>, IsInjective(s)
    PROVE  /\ IsInjective(Tail(s))
           /\ Head(s) \in Range(s)
           /\ Head(s) \notin Range(Tail(s))
           /\ Range(s) = {Head(s)} \cup Range(Tail(s))
<1>1. /\ DOMAIN s = 1..Len(s)
      /\ Len(s) \in Nat \ {0}
      /\ Tail(s) \in Seq(S)
      /\ Len(Tail(s)) = Len(s) - 1
      /\ DOMAIN Tail(s) = 1..(Len(s) - 1)
    BY HeadTailProperties, LenProperties, EmptySeq
<1>2. \A i \in 1..(Len(s) - 1) : Tail(s)[i] = s[i + 1] /\ i + 1 \in 1..Len(s)
    BY <1>1, HeadTailProperties
<1>3. Head(s) = s[1] /\ 1 \in 1..Len(s)
    BY <1>1
<1>4. \A i, j \in 1..Len(s) : s[i] = s[j] => i = j
    BY <1>1 DEF IsInjective
<1>5. IsInjective(Tail(s))
  <2>1. SUFFICES ASSUME NEW i \in 1..(Len(s) - 1), NEW j \in 1..(Len(s) - 1),
                        Tail(s)[i] = Tail(s)[j]
                 PROVE  i = j
      BY <1>1 DEF IsInjective
  <2>2. i + 1 = j + 1
      BY <2>1, <1>2, <1>4
  <2> QED BY <2>2, <1>1
<1>6. Head(s) \in Range(s)
    BY <1>1, <1>3 DEF Range
<1>7. Head(s) \notin Range(Tail(s))
  <2>1. SUFFICES ASSUME NEW i \in 1..(Len(s) - 1), Tail(s)[i] = s[1]
                 PROVE  FALSE
      BY <1>1, <1>3 DEF Range
  <2>2. i + 1 = 1
      BY <2>1, <1>2, <1>3, <1>4
  <2> QED BY <2>2, <1>1
<1>8. Range(Tail(s)) \subseteq Range(s)
    BY <1>1, <1>2 DEF Range
<1>9. Range(s) \subseteq {Head(s)} \cup Range(Tail(s))
  <2>1. SUFFICES ASSUME NEW i \in 1..Len(s)
                 PROVE  s[i] \in {s[1]} \cup Range(Tail(s))
      BY <1>1, <1>3 DEF Range
  <2>2. CASE i = 1
      BY <2>2
  <2>3. CASE i # 1
    <3>1. i - 1 \in 1..(Len(s) - 1) /\ (i - 1) + 1 = i
        BY <2>3, <1>1
    <3>2. Tail(s)[i - 1] = s[i]
        BY <3>1, <1>2
    <3> QED BY <3>1, <3>2, <1>1 DEF Range
  <2> QED BY <2>2, <2>3
<1> QED BY <1>5, <1>6, <1>7, <1>8, <1>9

-------------------------------------------------------------------------------
(* Types.                                                                  *)

(* There are finitely many connections.                                    *)
LEMMA ConnectionsCounted == Cardinality(Connections) \in Nat
BY PoolAssumption, FS_CardinalityType

(* The constructor leaves every variable with its type.                    *)
LEMMA TypeInit == Init => TypeOK
<1> SUFFICES ASSUME Init PROVE TypeOK
    OBVIOUS
<1>1. conn_list \in Seq(Connections)
    BY ConnectionsCounted DEF Init
<1> QED BY <1>1 DEF Init, TypeOK, Steps, Working

(* Every step, of append() and of run(), keeps the types.                  *)
LEMMA TypeStep == TypeOK /\ [Next]_vars => TypeOK'
<1> SUFFICES ASSUME TypeOK, [Next]_vars PROVE TypeOK'
    OBVIOUS
<1>1. ASSUME NEW h \in Handlers, AppendPush(h)
      PROVE  TypeOK'
  <2>1. workqueue' \in Seq(Handlers)
      BY <1>1, AppendProperties DEF TypeOK, AppendPush
  <2> QED BY <1>1, <2>1 DEF TypeOK, AppendPush, connVars, Working
<1>2. ASSUME NEW h \in Handlers, AppendRejected(h)
      PROVE  TypeOK'
    BY <1>2 DEF TypeOK, AppendRejected, vars, Working
<1>3. CASE AppendPost
    BY <1>3 DEF TypeOK, AppendPost, connVars, Working
<1>4. ASSUME NEW w \in Workers, WaitForWork(w)
      PROVE  TypeOK'
  <2>1. queuestat' \in Nat
      BY <1>4 DEF TypeOK, WaitForWork
  <2> QED BY <1>4, <2>1 DEF TypeOK, WaitForWork, Waiting, connVars, Steps, Working
<1>5. ASSUME NEW w \in Workers, FindEmpty(w)
      PROVE  TypeOK'
    BY <1>5 DEF TypeOK, FindEmpty, queueVars, connVars, Steps, Working
<1>6. ASSUME NEW w \in Workers, TakeRequest(w)
      PROVE  TypeOK'
  <2>1. workqueue' \in Seq(Handlers) /\ Head(workqueue) \in Handlers
      BY <1>6, HeadTailProperties DEF TypeOK, TakeRequest
  <2>2. Head(workqueue) # NULL
      BY <2>1, PoolAssumption
  <2> QED BY <1>6, <2>1, <2>2 DEF TypeOK, TakeRequest, connVars, Steps, Working
<1>7. ASSUME NEW w \in Workers, GetConnection(w)
      PROVE  TypeOK'
  <2>1. /\ conn_list' \in Seq(Connections)
        /\ mysql' \in [Handlers -> Connections \cup {NULL}]
        /\ CurConn' \in Int
    <3>1. CASE conn_list # << >>
      <4>1. Tail(conn_list) \in Seq(Connections) /\ Head(conn_list) \in Connections
          BY <3>1, HeadTailProperties DEF TypeOK
      <4>2. /\ mysql' = [mysql EXCEPT ![request[w]] = Head(conn_list)]
            /\ conn_list' = Tail(conn_list)
            /\ CurConn' = CurConn + 1
          BY <1>7, <3>1 DEF GetConnection
      <4>3. mysql' \in [Handlers -> Connections \cup {NULL}]
          BY <4>1, <4>2 DEF TypeOK
      <4>4. CurConn' \in Int
          BY <4>2 DEF TypeOK
      <4> QED BY <4>1, <4>2, <4>3, <4>4
    <3>2. CASE conn_list = << >>
        BY <1>7, <3>2 DEF TypeOK, GetConnection
    <3> QED BY <3>1, <3>2
  <2> QED BY <1>7, <2>1 DEF TypeOK, GetConnection, queueVars, Steps, Working
<1>8. ASSUME NEW w \in Workers, NEW cleared \in BOOLEAN, ProcessReturns(w, cleared)
      PROVE  TypeOK'
  <2>1. mysql' \in [Handlers -> Connections \cup {NULL}]
      BY <1>8 DEF TypeOK, ProcessReturns
  <2> QED BY <1>8, <2>1 DEF TypeOK, ProcessReturns, queueVars, Steps, Working
<1>9. ASSUME NEW w \in Workers, ReleaseConnection(w)
      PROVE  TypeOK'
  <2>1. conn_list' \in Seq(Connections) /\ CurConn' \in Int
    <3>1. CASE mysql[request[w]] # NULL
      <4>1. mysql[request[w]] \in Connections
          BY <1>9, <3>1 DEF TypeOK, ReleaseConnection, Working
      <4>2. Append(conn_list, mysql[request[w]]) \in Seq(Connections)
          BY <4>1, AppendProperties DEF TypeOK
      <4>3. /\ conn_list' = Append(conn_list, mysql[request[w]])
            /\ CurConn' = CurConn - 1
          BY <1>9, <3>1 DEF ReleaseConnection
      <4> QED BY <4>2, <4>3 DEF TypeOK
    <3>2. CASE mysql[request[w]] = NULL
        BY <1>9, <3>2 DEF TypeOK, ReleaseConnection
    <3> QED BY <3>1, <3>2
  <2> QED BY <1>9, <2>1 DEF TypeOK, ReleaseConnection, queueVars, Steps, Working
<1>10. ASSUME NEW w \in Workers, WaitInterrupted(w)
       PROVE  TypeOK'
    BY <1>10 DEF TypeOK, WaitInterrupted, queueVars, connVars, Steps, Working
<1>11. ASSUME NEW w \in Workers, Block(w)
       PROVE  TypeOK'
    BY <1>11 DEF TypeOK, Block, queueVars, connVars, Steps, Working
<1>12. CASE UNCHANGED vars
    BY <1>12 DEF TypeOK, vars, Working
<1> QED BY <1>1, <1>2, <1>3, <1>4, <1>5, <1>6, <1>7, <1>8, <1>9, <1>10, <1>11, <1>12
        DEF Next, Work

(* Every variable keeps its type, whatever the sizes of the pool.          *)
THEOREM TypeCorrect == Spec => []TypeOK
BY TypeInit, TypeStep, PTL DEF Spec

-------------------------------------------------------------------------------
(* One worker per handler.                                                 *)

(* A step that leaves the list alone and gives no worker a request keeps   *)
(* the invariant.                                                          *)
LEMMA OneWorkerFrame ==
    ASSUME OneWorkerPerHandler, UNCHANGED workqueue,
           \A v \in Workers : Working(v)' => Working(v) /\ request'[v] = request[v]
    PROVE  OneWorkerPerHandler'
<1>1. Running' \subseteq Running
    BY DEF Running
<1>2. Range(workqueue)' = Range(workqueue) /\ IsInjective(workqueue)'
    BY DEF OneWorkerPerHandler
<1>3. (Range(workqueue) \cap Running = {})'
    BY <1>1, <1>2 DEF OneWorkerPerHandler
<1>4. (\A v, w \in Workers :
           Working(v) /\ Working(w) /\ request[v] = request[w] => v = w)'
    BY DEF OneWorkerPerHandler
<1> QED BY <1>2, <1>3, <1>4 DEF OneWorkerPerHandler

(* No handler is queued or running at first.                               *)
LEMMA OneWorkerInit == Init => OneWorkerPerHandler
BY DEF Init, OneWorkerPerHandler, IsInjective, Range, Running, Working

(* append() takes idle handlers only, and a worker that pops one is the    *)
(* only one to have it.                                                    *)
LEMMA OneWorkerStep ==
    TypeOK /\ OneWorkerPerHandler /\ [Next]_vars => OneWorkerPerHandler'
<1> SUFFICES ASSUME TypeOK, OneWorkerPerHandler, [Next]_vars
             PROVE  OneWorkerPerHandler'
    OBVIOUS
<1>1. ASSUME NEW h \in Handlers, Idle(h), AppendPush(h)
      PROVE  OneWorkerPerHandler'
  <2>1. /\ workqueue \in Seq(Handlers)
        /\ workqueue' = Append(workqueue, h)
        /\ UNCHANGED <<pc, request>>
      BY <1>1 DEF AppendPush, TypeOK
  <2>2. Running' = Running
      BY <2>1 DEF Running, Working
  <2>3. Range(workqueue)' = Range(workqueue) \cup {h}
      BY <2>1, RangeAppend
  <2>4. IsInjective(workqueue)'
      BY <1>1, <2>1, InjectiveAppend DEF Idle, OneWorkerPerHandler
  <2>5. (Range(workqueue) \cap Running = {})'
      BY <1>1, <2>2, <2>3 DEF Idle, OneWorkerPerHandler
  <2>6. (\A v, w \in Workers :
             Working(v) /\ Working(w) /\ request[v] = request[w] => v = w)'
      BY <2>1 DEF OneWorkerPerHandler, Working
  <2> QED BY <2>4, <2>5, <2>6 DEF OneWorkerPerHandler
<1>2. ASSUME NEW w \in Workers, TakeRequest(w)
      PROVE  OneWorkerPerHandler'
  <2> DEFINE first == Head(workqueue)
  <2>1. /\ workqueue \in Seq(Handlers) /\ workqueue # << >>
        /\ workqueue' = Tail(workqueue)
        /\ request' = [request EXCEPT ![w] = first]
      BY <1>2 DEF TakeRequest, TypeOK
  <2>2. /\ request'[w] = first
        /\ \A v \in Workers \ {w} : /\ Working(v)' => Working(v)
                                    /\ request'[v] = request[v]
      BY <1>2 DEF TakeRequest, TypeOK, Working
  <2>3. /\ IsInjective(workqueue)'
        /\ first \in Range(workqueue)
        /\ first \notin Range(workqueue)'
        /\ Range(workqueue)' \subseteq Range(workqueue)
      BY <2>1, InjectiveTail DEF OneWorkerPerHandler
  <2>4. Running' \subseteq Running \cup {first}
      BY <2>2 DEF Running
  <2>5. first \notin Running
      BY <2>3 DEF OneWorkerPerHandler
  <2>6. (Range(workqueue) \cap Running = {})'
      BY <2>3, <2>4 DEF OneWorkerPerHandler
  <2>7. \A v \in Workers \ {w} : Working(v)' => request'[v] # first
      BY <2>2, <2>5 DEF Running
  <2>8. (\A u, v \in Workers :
             Working(u) /\ Working(v) /\ request[u] = request[v] => u = v)'
      BY <2>2, <2>7 DEF OneWorkerPerHandler
  <2> QED BY <2>3, <2>6, <2>8 DEF OneWorkerPerHandler
<1>3. ASSUME \/ \E h \in Handlers : AppendRejected(h)
             \/ AppendPost
             \/ UNCHANGED vars
      PROVE  OneWorkerPerHandler'
  <2>1. UNCHANGED <<workqueue, pc, request>>
      BY <1>3 DEF AppendRejected, AppendPost, vars
  <2> QED BY <2>1, OneWorkerFrame DEF Working
<1>4. ASSUME NEW w \in Workers,
             \/ Block(w) \/ WaitForWork(w) \/ WaitInterrupted(w) \/ FindEmpty(w)
             \/ GetConnection(w)
             \/ \E cleared \in BOOLEAN : ProcessReturns(w, cleared)
      PROVE  OneWorkerPerHandler'
  <2>1. /\ UNCHANGED <<workqueue, request>>
        /\ \A v \in Workers : Working(v)' => Working(v)
      BY <1>4 DEF Block, WaitForWork, Waiting, WaitInterrupted, FindEmpty, GetConnection,
                  ProcessReturns, queueVars, TypeOK, Working
  <2> QED BY <2>1, OneWorkerFrame
<1>5. ASSUME NEW w \in Workers, ReleaseConnection(w)
      PROVE  OneWorkerPerHandler'
  <2>1. /\ UNCHANGED workqueue
        /\ \A v \in Workers : Working(v)' => Working(v) /\ request'[v] = request[v]
      BY <1>5 DEF ReleaseConnection, queueVars, TypeOK, Working
  <2> QED BY <2>1, OneWorkerFrame
<1> QED BY <1>1, <1>2, <1>3, <1>4, <1>5 DEF Next, Work

(* No handler is queued twice, or handed to a second worker, or queued     *)
(* while a worker has it.                                                  *)
THEOREM OneWorkerPerHandlerHolds == Spec => []OneWorkerPerHandler
BY OneWorkerInit, OneWorkerStep, TypeInit, TypeStep, PTL DEF Spec

-------------------------------------------------------------------------------
(* The list and the semaphore.                                             *)

Blocked == {w \in Workers : pc[w] = "blocked"}

(* The units there are and those that woken and sleeping workers may take  *)
(* or leave behind.                                                        *)
UnitsLeft ==
    queuestat + posting + Cardinality(Woken) + Cardinality(Blocked)
        <= Len(workqueue) + Cardinality(Workers) + 1

(* There are finitely many woken workers, and finitely many asleep.        *)
LEMMA WokenCounted ==
    /\ IsFiniteSet(Woken) /\ Cardinality(Woken) \in Nat
    /\ IsFiniteSet(Blocked) /\ Cardinality(Blocked) \in Nat
    /\ Cardinality(Workers) \in Nat
<1>1. Woken \in SUBSET Workers /\ Blocked \in SUBSET Workers
    BY DEF Woken, Blocked
<1> QED BY <1>1, PoolAssumption, FS_Subset, FS_CardinalityType

LEMMA WokenCountedNext ==
    /\ IsFiniteSet(Woken') /\ Cardinality(Woken') \in Nat
    /\ IsFiniteSet(Blocked') /\ Cardinality(Blocked') \in Nat
    /\ Cardinality(Woken') + Cardinality(Blocked') <= Cardinality(Workers)
<1>1. /\ Woken' \in SUBSET Workers /\ Blocked' \in SUBSET Workers
      /\ Woken' \cap Blocked' = {}
    BY DEF Woken, Blocked
<1>2. /\ IsFiniteSet(Woken') /\ Cardinality(Woken') \in Nat
      /\ IsFiniteSet(Blocked') /\ Cardinality(Blocked') \in Nat
    BY <1>1, PoolAssumption, FS_Subset, FS_CardinalityType
<1>3. Woken' \cup Blocked' \in SUBSET Workers
    BY <1>1
<1>4. Cardinality(Woken' \cup Blocked') = Cardinality(Woken') + Cardinality(Blocked')
  <2>1. Cardinality(Woken' \cup Blocked')
            = Cardinality(Woken') + Cardinality(Blocked') - Cardinality(Woken' \cap Blocked')
      BY <1>2, FS_Union
  <2>2. Cardinality(Woken' \cap Blocked') = 0
      BY <1>1, FS_EmptySet
  <2> QED BY <1>2, <2>1, <2>2
<1>5. Cardinality(Woken' \cup Blocked') <= Cardinality(Workers)
    BY <1>3, PoolAssumption, FS_Subset
<1> QED BY <1>2, <1>4, <1>5

(* The empty list strands nothing, and there are no units.                 *)
LEMMA QueueInit == Init => NoStrandedRequest /\ UnitsLeft
<1> SUFFICES ASSUME Init PROVE NoStrandedRequest /\ UnitsLeft
    OBVIOUS
<1>1. Len(workqueue) = 0 /\ queuestat = 0 /\ posting = 0
    BY DEF Init
<1>2. Woken = {} /\ Blocked = {}
    BY DEF Init, Woken, Blocked
<1>3. Cardinality(Woken) = 0 /\ Cardinality(Blocked) = 0
    BY <1>2, FS_EmptySet
<1> QED BY <1>1, <1>3, WokenCounted DEF NoStrandedRequest, UnitsLeft

(* A step that moves neither the list, the semaphore nor a worker that is  *)
(* woken or asleep.                                                        *)
LEMMA QueueFrame ==
    ASSUME NoStrandedRequest, UnitsLeft, UNCHANGED queueVars,
           Woken' = Woken, Blocked' = Blocked
    PROVE  NoStrandedRequest' /\ UnitsLeft'
BY DEF NoStrandedRequest, UnitsLeft, queueVars

(* What a step adds to the list it also owes to the semaphore, and a unit  *)
(* taken off the semaphore is a worker woken.  A worker falls asleep only  *)
(* when there are no units, so that those left behind by interrupted waits *)
(* are never more than the workers.                                        *)
LEMMA QueueStep ==
    TypeOK /\ NoStrandedRequest /\ UnitsLeft /\ [Next]_vars
        => NoStrandedRequest' /\ UnitsLeft'
<1> SUFFICES ASSUME TypeOK, NoStrandedRequest, UnitsLeft, [Next]_vars
             PROVE  NoStrandedRequest' /\ UnitsLeft'
    OBVIOUS
<1>a. /\ workqueue \in Seq(Handlers) /\ Len(workqueue) \in Nat
      /\ queuestat \in Nat /\ posting \in {0, 1}
      /\ Len(workqueue) <= queuestat + posting + Cardinality(Woken)
      /\ queuestat + posting + Cardinality(Woken) + Cardinality(Blocked)
             <= Len(workqueue) + Cardinality(Workers) + 1
    BY LenProperties DEF TypeOK, NoStrandedRequest, UnitsLeft
<1>b. /\ IsFiniteSet(Woken) /\ Cardinality(Woken) \in Nat
      /\ IsFiniteSet(Blocked) /\ Cardinality(Blocked) \in Nat
      /\ Cardinality(Workers) \in Nat
    BY WokenCounted
<1>c. pc \in [Workers -> Steps]
    BY DEF TypeOK
<1>1. ASSUME NEW h \in Handlers, AppendPush(h)
      PROVE  NoStrandedRequest' /\ UnitsLeft'
  <2>1. /\ Len(workqueue') = Len(workqueue) + 1
        /\ posting = 0 /\ posting' = 1 /\ queuestat' = queuestat
      BY <1>1, <1>a, AppendProperties DEF AppendPush
  <2>2. Woken' = Woken /\ Blocked' = Blocked
      BY <1>1 DEF AppendPush, Woken, Blocked
  <2> QED BY <1>a, <1>b, <2>1, <2>2 DEF NoStrandedRequest, UnitsLeft
<1>2. CASE AppendPost
  <2>1. UNCHANGED workqueue /\ posting = 1 /\ posting' = 0 /\ queuestat' = queuestat + 1
      BY <1>2 DEF AppendPost
  <2>2. Woken' = Woken /\ Blocked' = Blocked
      BY <1>2 DEF AppendPost, Woken, Blocked
  <2> QED BY <1>a, <1>b, <2>1, <2>2 DEF NoStrandedRequest, UnitsLeft
<1>3. ASSUME NEW w \in Workers, Block(w)
      PROVE  NoStrandedRequest' /\ UnitsLeft'
  <2>1. UNCHANGED <<workqueue, posting, queuestat>> /\ queuestat = 0
      BY <1>3 DEF Block, queueVars
  <2>2. Woken' = Woken
      BY <1>3, <1>c DEF Block, Woken
  <2> QED BY <1>a, <1>b, <2>1, <2>2, WokenCountedNext DEF NoStrandedRequest, UnitsLeft
<1>4. ASSUME NEW w \in Workers, WaitForWork(w) \/ WaitInterrupted(w)
      PROVE  NoStrandedRequest' /\ UnitsLeft'
  <2>1. UNCHANGED <<workqueue, posting>>
      BY <1>4 DEF WaitForWork, WaitInterrupted, queueVars
  <2>2. Cardinality(Woken') = Cardinality(Woken) + 1
    <3>1. Woken' = Woken \cup {w} /\ w \notin Woken
        BY <1>4, <1>c DEF WaitForWork, WaitInterrupted, Waiting, Woken
    <3> QED BY <3>1, <1>b, FS_AddElement
  <2>3. CASE pc[w] = "blocked"
    <3>1. Blocked' = Blocked \ {w} /\ w \in Blocked
        BY <1>4, <1>c, <2>3 DEF WaitForWork, WaitInterrupted, Blocked
    <3>2. Cardinality(Blocked') = Cardinality(Blocked) - 1
        BY <1>b, <3>1, FS_RemoveElement
    <3>3. queuestat' = queuestat \/ queuestat' = queuestat - 1
        BY <1>4 DEF WaitForWork, WaitInterrupted, queueVars
    <3>4. CASE queuestat' = queuestat
        BY <1>a, <1>b, <2>1, <2>2, <3>2, <3>4 DEF NoStrandedRequest, UnitsLeft
    <3>5. CASE queuestat' = queuestat - 1
        BY <1>a, <1>b, <2>1, <2>2, <3>2, <3>5 DEF NoStrandedRequest, UnitsLeft
    <3> QED BY <3>3, <3>4, <3>5
  <2>4. CASE pc[w] = "wait"
    <3>1. Blocked' = Blocked /\ queuestat' = queuestat - 1
        BY <1>4, <1>c, <2>4 DEF WaitForWork, WaitInterrupted, Blocked
    <3> QED BY <1>a, <1>b, <2>1, <2>2, <3>1 DEF NoStrandedRequest, UnitsLeft
  <2> QED BY <1>4, <2>3, <2>4 DEF WaitForWork, WaitInterrupted, Waiting
<1>5. ASSUME NEW w \in Workers, FindEmpty(w)
      PROVE  NoStrandedRequest' /\ UnitsLeft'
  <2>1. Len(workqueue') = 0 /\ UNCHANGED <<workqueue, posting, queuestat>>
      BY <1>5 DEF FindEmpty, queueVars
  <2>2. Cardinality(Woken') = Cardinality(Woken) - 1
    <3>1. Woken' = Woken \ {w} /\ w \in Woken
        BY <1>5, <1>c DEF FindEmpty, Woken
    <3> QED BY <3>1, <1>b, FS_RemoveElement
  <2>3. Blocked' = Blocked
      BY <1>5, <1>c DEF FindEmpty, Blocked
  <2>4. NoStrandedRequest'
      BY <1>a, <2>1, WokenCountedNext DEF NoStrandedRequest
  <2>5. UnitsLeft'
      BY <1>a, <1>b, <2>1, <2>2, <2>3 DEF UnitsLeft
  <2> QED BY <2>4, <2>5
<1>6. ASSUME NEW w \in Workers, TakeRequest(w)
      PROVE  NoStrandedRequest' /\ UnitsLeft'
  <2>1. Len(workqueue') = Len(workqueue) - 1 /\ UNCHANGED <<posting, queuestat>>
      BY <1>6, <1>a, HeadTailProperties DEF TakeRequest
  <2>2. Cardinality(Woken') = Cardinality(Woken) - 1
    <3>1. Woken' = Woken \ {w} /\ w \in Woken
        BY <1>6, <1>c DEF TakeRequest, Woken
    <3> QED BY <3>1, <1>b, FS_RemoveElement
  <2>3. Blocked' = Blocked
      BY <1>6, <1>c DEF TakeRequest, Blocked
  <2> QED BY <1>a, <1>b, <2>1, <2>2, <2>3 DEF NoStrandedRequest, UnitsLeft
<1>7. ASSUME NEW w \in Workers,
             \/ GetConnection(w)
             \/ \E cleared \in BOOLEAN : ProcessReturns(w, cleared)
             \/ ReleaseConnection(w)
      PROVE  NoStrandedRequest' /\ UnitsLeft'
  <2>1. UNCHANGED queueVars /\ Woken' = Woken /\ Blocked' = Blocked
      BY <1>7, <1>c DEF GetConnection, ProcessReturns, ReleaseConnection, Woken, Blocked
  <2> QED BY <2>1, QueueFrame
<1>8. CASE UNCHANGED vars \/ \E h \in Handlers : AppendRejected(h)
  <2>1. UNCHANGED <<queueVars, pc>>
      BY <1>8 DEF vars, queueVars, AppendRejected
  <2> QED BY <2>1, QueueFrame DEF Woken, Blocked
<1> QED BY <1>1, <1>2, <1>3, <1>4, <1>5, <1>6, <1>7, <1>8 DEF Next, Work

(* No wake-up is lost, with any number of workers and of signals: a        *)
(* request in the list always has a unit on the semaphore, a post on its   *)
(* way or a woken worker to take it.                                       *)
THEOREM NoStrandedRequestHolds == Spec => []NoStrandedRequest
BY QueueInit, QueueStep, TypeInit, TypeStep, PTL DEF Spec

LEMMA UnitsLeftBounds == TypeOK /\ UnitsLeft => UnitsBounded
BY WokenCounted, LenProperties DEF TypeOK, UnitsLeft, UnitsBounded

(* However many signals interrupt the workers' waits, the units that they  *)
(* leave on the semaphore are never more than the workers, and the one     *)
(* about to be posted.                                                     *)
THEOREM UnitsBoundedHolds == Spec => []UnitsBounded
BY UnitsLeftBounds, QueueInit, QueueStep, TypeInit, TypeStep, PTL DEF Spec

-------------------------------------------------------------------------------
(* The database connections.                                               *)

(* A step that leaves the free connections alone and lets workers lose     *)
(* their connection at most.                                               *)
LEMMA ConnectionsFrame ==
    ASSUME UNCHANGED <<conn_list, CurConn>>,
           \A v \in Workers :
               Holder(v)' => Holder(v) /\ mysql'[request'[v]] = mysql[request[v]]
    PROVE  /\ ConnectionsAccounted => ConnectionsAccounted'
           /\ (Range(conn_list) \cup Held)' \subseteq Range(conn_list) \cup Held
<1>1. Held' \subseteq Held
    BY DEF Held
<1>2. /\ IsInjective(conn_list)' <=> IsInjective(conn_list)
      /\ Range(conn_list)' = Range(conn_list)
    OBVIOUS
<1>3. ASSUME ConnectionsAccounted PROVE ConnectionsAccounted'
  <2>1. (Range(conn_list) \cap Held = {})'
      BY <1>1, <1>2, <1>3 DEF ConnectionsAccounted
  <2>2. (\A v, w \in Workers :
             Holder(v) /\ Holder(w) /\ mysql[request[v]] = mysql[request[w]]
                 => v = w)'
      BY <1>3 DEF ConnectionsAccounted
  <2>3. (CurConn = Cardinality(Connections) - Len(conn_list))'
      BY <1>3 DEF ConnectionsAccounted
  <2> QED BY <1>2, <1>3, <2>1, <2>2, <2>3 DEF ConnectionsAccounted
<1> QED BY <1>1, <1>2, <1>3

(* At first every connection is free.                                      *)
LEMMA ConnectionsInit == Init => ConnectionsAccounted /\ NullOnlyAfterLoss
<1> SUFFICES ASSUME Init PROVE ConnectionsAccounted /\ NullOnlyAfterLoss
    OBVIOUS
<1>1. \A w \in Workers : pc[w] = "wait"
    BY DEF Init
<1>2. Held = {} /\ \A w \in Workers : ~Holder(w)
    BY <1>1 DEF Held, Holder
<1>3. Len(conn_list) = Cardinality(Connections)
    BY ConnectionsCounted DEF Init
<1>4. ConnectionsAccounted
    BY <1>2, <1>3, ConnectionsCounted DEF Init, ConnectionsAccounted
<1>5. NullOnlyAfterLoss
    BY <1>1 DEF NullOnlyAfterLoss
<1> QED BY <1>4, <1>5

(* While no connection is lost, one is free for a worker that holds none.  *)
LEMMA ConnectionsSuffice ==
    ASSUME TypeOK, Lost = {}, NEW w \in Workers, ~Holder(w)
    PROVE  conn_list # << >>
<1> SUFFICES ASSUME conn_list = << >> PROVE FALSE
    OBVIOUS
<1> DEFINE others == {v \in Workers : Holder(v)}
           held == [v \in others |-> mysql[request[v]]]
<1>1. Range(conn_list) = {}
    BY DEF Range
<1>2. Held = Connections
  <2>1. \A v \in Workers : Holder(v) => mysql[request[v]] \in Connections
      BY DEF TypeOK, Holder, Working
  <2>2. Held \subseteq Connections
      BY <2>1 DEF Held
  <2> QED BY <1>1, <2>2 DEF Lost
<1>3. held \in Surjection(others, Connections)
    BY <1>2 DEF Held, Surjection
<1>4. others \in SUBSET (Workers \ {w})
    OBVIOUS
<1>5. /\ IsFiniteSet(Workers \ {w})
      /\ Cardinality(Workers \ {w}) = Cardinality(Workers) - 1
    BY PoolAssumption, FS_RemoveElement
<1>6. IsFiniteSet(others) /\ Cardinality(others) <= Cardinality(Workers) - 1
    BY <1>4, <1>5, FS_Subset
<1>7. Cardinality(Connections) <= Cardinality(others)
    BY <1>3, <1>6, FS_Surjection
<1>8. /\ Cardinality(others) \in Nat /\ Cardinality(Workers) \in Nat
      /\ Cardinality(Workers) <= Cardinality(Connections)
    BY <1>6, PoolAssumption, FS_CardinalityType
<1> QED BY <1>6, <1>7, <1>8, ConnectionsCounted

(* Two workers with a handler each write to different mysql fields.        *)
LEMMA OthersKeepMysql ==
    ASSUME TypeOK, OneWorkerPerHandler, NEW w \in Workers, Working(w), NEW e,
           mysql' = [mysql EXCEPT ![request[w]] = e], UNCHANGED request,
           NEW v \in Workers, v # w, Working(v)
    PROVE  mysql'[request'[v]] = mysql[request[v]]
<1>1. request[v] # request[w] /\ request[v] \in Handlers
    BY DEF OneWorkerPerHandler, TypeOK
<1> QED BY <1>1 DEF TypeOK

(* A connection moves between the free list and one worker, or is lost.    *)
LEMMA ConnectionsStep ==
    TypeOK /\ OneWorkerPerHandler /\ ConnectionsAccounted /\ [Next]_vars
        => /\ ConnectionsAccounted'
           /\ (Range(conn_list) \cup Held)' \subseteq Range(conn_list) \cup Held
<1> DEFINE Goal == /\ ConnectionsAccounted'
                   /\ (Range(conn_list) \cup Held)'
                          \subseteq Range(conn_list) \cup Held
<1> SUFFICES ASSUME TypeOK, OneWorkerPerHandler, ConnectionsAccounted, [Next]_vars
             PROVE  Goal
    OBVIOUS
<1>a. conn_list \in Seq(Connections) /\ Len(conn_list) \in Nat
    BY LenProperties DEF TypeOK
<1>1. ASSUME NEW w \in Workers, GetConnection(w), conn_list # << >>
      PROVE  Goal
  <2> DEFINE con == Head(conn_list)
  <2>1. /\ Working(w) /\ ~Holder(w) /\ request[w] \in Handlers
        /\ mysql' = [mysql EXCEPT ![request[w]] = con]
        /\ conn_list' = Tail(conn_list)
        /\ CurConn' = CurConn + 1
        /\ UNCHANGED request
      BY <1>1 DEF GetConnection, TypeOK, Working, Holder
  <2>2. /\ IsInjective(conn_list')
        /\ con \in Range(conn_list)
        /\ con \notin Range(conn_list')
        /\ Range(conn_list) = {con} \cup Range(conn_list')
      BY <1>1, <1>a, <2>1, InjectiveTail DEF ConnectionsAccounted
  <2>3. /\ mysql'[request'[w]] = con
        /\ \A v \in Workers \ {w} :
               Holder(v)' => Holder(v) /\ mysql'[request'[v]] = mysql[request[v]]
    <3>1. \A v \in Workers \ {w} : pc'[v] = pc[v]
        BY <1>1 DEF GetConnection, TypeOK
    <3>2. \A v \in Workers \ {w} :
              Working(v) => mysql'[request'[v]] = mysql[request[v]]
        BY <2>1, OthersKeepMysql
    <3> QED BY <2>1, <3>1, <3>2 DEF Holder, Working, TypeOK
  <2>4. Held' \subseteq Held \cup {con}
      BY <2>3 DEF Held
  <2>5. con \notin Held
      BY <2>2 DEF ConnectionsAccounted
  <2>6. (Range(conn_list) \cap Held = {})'
      BY <2>2, <2>4 DEF ConnectionsAccounted
  <2>7. \A v \in Workers \ {w} : Holder(v)' => mysql'[request'[v]] # con
      BY <2>3, <2>5 DEF Held
  <2>8. (\A u, v \in Workers :
             Holder(u) /\ Holder(v) /\ mysql[request[u]] = mysql[request[v]]
                 => u = v)'
      BY <2>3, <2>7 DEF ConnectionsAccounted
  <2>9. (CurConn = Cardinality(Connections) - Len(conn_list))'
    <3>1. Len(conn_list') = Len(conn_list) - 1
        BY <1>1, <1>a, <2>1, HeadTailProperties
    <3>2. CurConn = Cardinality(Connections) - Len(conn_list)
        BY DEF ConnectionsAccounted
    <3>3. CurConn' = CurConn + 1
        BY <2>1
    <3> QED BY <1>a, <3>1, <3>2, <3>3, ConnectionsCounted
  <2>10. ConnectionsAccounted'
      BY <2>2, <2>6, <2>8, <2>9 DEF ConnectionsAccounted
  <2> QED BY <2>2, <2>4, <2>10
<1>2. ASSUME NEW w \in Workers, GetConnection(w), conn_list = << >>
      PROVE  Goal
  <2>1. /\ Working(w) /\ request[w] \in Handlers
        /\ mysql' = [mysql EXCEPT ![request[w]] = NULL]
        /\ UNCHANGED <<conn_list, CurConn, request>>
        /\ \A v \in Workers \ {w} : pc'[v] = pc[v]
      BY <1>2 DEF GetConnection, TypeOK, Working
  <2>2. ~Holder(w)'
      BY <2>1 DEF Holder, TypeOK
  <2>3. \A v \in Workers \ {w} :
            Working(v) => mysql'[request'[v]] = mysql[request[v]]
      BY <2>1, OthersKeepMysql
  <2>4. \A v \in Workers :
            Holder(v)' => Holder(v) /\ mysql'[request'[v]] = mysql[request[v]]
      BY <2>1, <2>2, <2>3 DEF Holder, Working
  <2> QED BY <2>1, <2>4, ConnectionsFrame
<1>3. ASSUME NEW w \in Workers, NEW cleared \in BOOLEAN, ProcessReturns(w, cleared)
      PROVE  Goal
  <2> DEFINE e == IF cleared THEN NULL ELSE mysql[request[w]]
  <2>1. /\ Working(w) /\ request[w] \in Handlers /\ pc[w] = "process"
        /\ mysql' = [mysql EXCEPT ![request[w]] = e]
        /\ UNCHANGED <<conn_list, CurConn, request>>
        /\ \A v \in Workers \ {w} : pc'[v] = pc[v]
      BY <1>3 DEF ProcessReturns, TypeOK, Working
  <2>2. mysql'[request'[w]] = e
      BY <2>1 DEF TypeOK
  <2>3. \A v \in Workers \ {w} :
            Working(v) => mysql'[request'[v]] = mysql[request[v]]
    <3> HIDE DEF e
    <3> QED BY <2>1, OthersKeepMysql
  <2>4. Holder(w)' => Holder(w) /\ mysql'[request'[w]] = mysql[request[w]]
      BY <2>1, <2>2 DEF Holder
  <2>5. \A v \in Workers :
            Holder(v)' => Holder(v) /\ mysql'[request'[v]] = mysql[request[v]]
      BY <2>1, <2>3, <2>4 DEF Holder, Working
  <2> QED BY <2>1, <2>5, ConnectionsFrame
<1>4. ASSUME NEW w \in Workers, ReleaseConnection(w), Holder(w)
      PROVE  Goal
  <2> DEFINE con == mysql[request[w]]
  <2>1. /\ conn_list' = Append(conn_list, con)
        /\ CurConn' = CurConn - 1
        /\ UNCHANGED mysql
        /\ \A v \in Workers \ {w} : pc'[v] = pc[v] /\ request'[v] = request[v]
        /\ con \in Connections
        /\ ~Holder(w)'
      BY <1>4 DEF ReleaseConnection, TypeOK, Working, Holder
  <2>2. con \in Held
      BY <1>4 DEF Held
  <2>3. Range(conn_list') = Range(conn_list) \cup {con} /\ IsInjective(conn_list')
      BY <1>a, <2>1, <2>2, RangeAppend, InjectiveAppend DEF ConnectionsAccounted
  <2>4. \A v \in Workers :
            Holder(v)' => /\ v # w /\ Holder(v)
                          /\ mysql'[request'[v]] = mysql[request[v]]
      BY <2>1 DEF Holder
  <2>5. \A v \in Workers : Holder(v)' => mysql'[request'[v]] \in Held \ {con}
      BY <1>4, <2>4 DEF Held, ConnectionsAccounted
  <2>6. Held' \subseteq Held \ {con}
      BY <2>5 DEF Held
  <2>7. (Range(conn_list) \cap Held = {})'
      BY <2>3, <2>6 DEF ConnectionsAccounted
  <2>8. (\A u, v \in Workers :
             Holder(u) /\ Holder(v) /\ mysql[request[u]] = mysql[request[v]]
                 => u = v)'
      BY <2>4 DEF ConnectionsAccounted
  <2>9. (CurConn = Cardinality(Connections) - Len(conn_list))'
    <3>1. Len(conn_list') = Len(conn_list) + 1
        BY <1>a, <2>1, AppendProperties
    <3> QED BY <1>a, <2>1, <3>1, ConnectionsCounted DEF ConnectionsAccounted
  <2>10. ConnectionsAccounted'
      BY <2>3, <2>7, <2>8, <2>9 DEF ConnectionsAccounted
  <2> QED BY <2>2, <2>3, <2>6, <2>10
<1>5. ASSUME NEW w \in Workers, ReleaseConnection(w), ~Holder(w)
      PROVE  Goal
  <2>1. /\ UNCHANGED <<conn_list, CurConn, mysql>>
        /\ ~Holder(w)'
        /\ \A v \in Workers \ {w} : pc'[v] = pc[v] /\ request'[v] = request[v]
      BY <1>5 DEF ReleaseConnection, TypeOK, Holder
  <2>2. \A v \in Workers :
            Holder(v)' => Holder(v) /\ mysql'[request'[v]] = mysql[request[v]]
      BY <2>1 DEF Holder
  <2> QED BY <2>1, <2>2, ConnectionsFrame
<1>6. ASSUME NEW w \in Workers, TakeRequest(w)
      PROVE  Goal
  <2>1. /\ UNCHANGED connVars
        /\ ~Holder(w)'
        /\ \A v \in Workers \ {w} : pc'[v] = pc[v] /\ request'[v] = request[v]
      BY <1>6 DEF TakeRequest, TypeOK, Holder
  <2>2. \A v \in Workers :
            Holder(v)' => Holder(v) /\ mysql'[request'[v]] = mysql[request[v]]
      BY <2>1 DEF Holder, connVars
  <2> QED BY <2>1, <2>2, ConnectionsFrame DEF connVars
<1>7. ASSUME \/ \E h \in Handlers : AppendPush(h) \/ AppendRejected(h)
             \/ AppendPost
             \/ \E w \in Workers : Block(w) \/ WaitForWork(w) \/ WaitInterrupted(w) \/ FindEmpty(w)
             \/ UNCHANGED vars
      PROVE  Goal
  <2>1. UNCHANGED <<connVars, request>>
      BY <1>7 DEF AppendPush, AppendRejected, AppendPost, Block, WaitForWork, Waiting,
                  WaitInterrupted, FindEmpty, vars, connVars
  <2>2. \A v \in Workers : pc'[v] \in {"process", "release"} => pc'[v] = pc[v]
      BY <1>7 DEF AppendPush, AppendRejected, AppendPost, Block, WaitForWork, Waiting,
                  WaitInterrupted, FindEmpty, vars, TypeOK
  <2>3. \A v \in Workers :
            Holder(v)' => Holder(v) /\ mysql'[request'[v]] = mysql[request[v]]
      BY <2>1, <2>2 DEF Holder, connVars
  <2> QED BY <2>1, <2>3, ConnectionsFrame DEF connVars
<1> QED BY <1>1, <1>2, <1>3, <1>4, <1>5, <1>6, <1>7 DEF Next, Work

(* A worker that gets NULL has found the list of free connections empty,   *)
(* and with as many connections as workers one of them is then lost.       *)
LEMMA NullOnlyAfterLossStep ==
    TypeOK /\ OneWorkerPerHandler /\ ConnectionsAccounted /\ NullOnlyAfterLoss
        /\ [Next]_vars => NullOnlyAfterLoss'
<1> SUFFICES ASSUME TypeOK, OneWorkerPerHandler, ConnectionsAccounted,
                    NullOnlyAfterLoss, [Next]_vars, Lost' = {},
                    NEW v \in Workers, pc'[v] = "process"
             PROVE  mysql'[request'[v]] # NULL
    BY DEF NullOnlyAfterLoss
<1>1. Lost = {}
    BY ConnectionsStep DEF Lost
<1>2. ASSUME NEW w \in Workers, GetConnection(w), v = w
      PROVE  mysql'[request'[v]] # NULL
  <2>1. conn_list # << >>
      BY <1>1, <1>2, ConnectionsSuffice DEF GetConnection, Holder
  <2>2. Head(conn_list) \in Connections
      BY <2>1, HeadTailProperties DEF TypeOK
  <2>3. /\ mysql' = [mysql EXCEPT ![request[w]] = Head(conn_list)]
        /\ UNCHANGED request
        /\ request[w] \in Handlers
      BY <1>2, <2>1 DEF GetConnection, TypeOK, Working
  <2>4. mysql'[request'[w]] = Head(conn_list)
      BY <2>3 DEF TypeOK
  <2> QED BY <1>2, <2>2, <2>4, PoolAssumption
<1>3. ASSUME NEW w \in Workers, GetConnection(w), v # w
      PROVE  mysql'[request'[v]] # NULL
  <2>1. Working(w) /\ pc[v] = "process" /\ UNCHANGED request
      BY <1>3 DEF GetConnection, TypeOK, Working
  <2>2. mysql[request[v]] # NULL
      BY <1>1, <2>1 DEF NullOnlyAfterLoss
  <2>3. PICK e : mysql' = [mysql EXCEPT ![request[w]] = e]
      BY <1>3 DEF GetConnection
  <2>4. mysql'[request'[v]] = mysql[request[v]]
      BY <1>3, <2>1, <2>3, OthersKeepMysql DEF Working
  <2> QED BY <2>2, <2>4
<1>4. ASSUME NEW w \in Workers, NEW cleared \in BOOLEAN, ProcessReturns(w, cleared)
      PROVE  mysql'[request'[v]] # NULL
  <2>1. Working(w) /\ v # w /\ pc[v] = "process" /\ UNCHANGED request
      BY <1>4 DEF ProcessReturns, TypeOK, Working
  <2>2. mysql[request[v]] # NULL
      BY <1>1, <2>1 DEF NullOnlyAfterLoss
  <2>3. PICK e : mysql' = [mysql EXCEPT ![request[w]] = e]
      BY <1>4 DEF ProcessReturns
  <2>4. mysql'[request'[v]] = mysql[request[v]]
      BY <2>1, <2>3, OthersKeepMysql DEF Working
  <2> QED BY <2>2, <2>4
<1>5. ASSUME \/ \E h \in Handlers : AppendPush(h) \/ AppendRejected(h)
             \/ AppendPost
             \/ \E w \in Workers : \/ Block(w) \/ WaitForWork(w) \/ WaitInterrupted(w)
                                   \/ FindEmpty(w) \/ TakeRequest(w)
                                   \/ ReleaseConnection(w)
             \/ UNCHANGED vars
      PROVE  mysql'[request'[v]] # NULL
  <2>1. UNCHANGED mysql /\ pc[v] = "process" /\ request'[v] = request[v]
      BY <1>5 DEF AppendPush, AppendRejected, AppendPost, Block, WaitForWork, Waiting,
                  WaitInterrupted, FindEmpty, TakeRequest, ReleaseConnection,
                  vars, connVars, TypeOK
  <2> QED BY <1>1, <2>1 DEF NullOnlyAfterLoss
<1> QED BY <1>2, <1>3, <1>4, <1>5 DEF Next, Work

(* A connection is free, with exactly one worker, or lost, and CurConn     *)
(* counts those that are not free.                                         *)
THEOREM ConnectionsAccountedHolds == Spec => []ConnectionsAccounted
<1>1. TypeOK /\ OneWorkerPerHandler /\ ConnectionsAccounted /\ [Next]_vars
          => ConnectionsAccounted'
    BY ConnectionsStep
<1> QED BY <1>1, ConnectionsInit, OneWorkerInit, OneWorkerStep, TypeInit, TypeStep,
           PTL DEF Spec

(* With a connection for each worker, process() starts without one only    *)
(* after an earlier process() lost one.                                    *)
THEOREM NullOnlyAfterLossHolds == Spec => []NullOnlyAfterLoss
BY NullOnlyAfterLossStep, ConnectionsAccountedHolds, ConnectionsInit,
   OneWorkerPerHandlerHolds, TypeCorrect, PTL DEF Spec

-------------------------------------------------------------------------------
(* The pool implements the work queue.                                     *)

(* The empty pool is the empty work queue.                                 *)
LEMMA RefinementInit == Init => Abstract!Init
BY DEF Init, Abstract!Init

(* Each step of the pool is a step of the work queue or leaves it alone.   *)
LEMMA RefinementStep ==
    TypeOK /\ [Next]_vars => [Abstract!Next]_(Abstract!vars)
<1> SUFFICES ASSUME TypeOK, [Next]_vars
             PROVE  Abstract!Next \/ UNCHANGED Abstract!vars
    OBVIOUS
<1>1. ASSUME NEW h \in Handlers, Idle(h), AppendPush(h)
      PROVE  Abstract!Submit(h)
  <2>1. workqueue' = Append(workqueue, h) /\ UNCHANGED request
      BY <1>1 DEF AppendPush
  <2>2. \A i \in 1..Len(workqueue) : workqueue[i] # h
      BY <1>1, LenProperties DEF Idle, Range, TypeOK
  <2>3. \A w \in Workers : request[w] # h
      BY <1>1, PoolAssumption DEF Idle, Running, TypeOK
  <2> QED BY <2>1, <2>2, <2>3 DEF Abstract!Submit
<1>2. ASSUME NEW w \in Workers, TakeRequest(w)
      PROVE  Abstract!Start(w)
  <2>1. request[w] = NULL
      BY <1>2 DEF TakeRequest, TypeOK, Working
  <2> QED BY <1>2, <2>1 DEF TakeRequest, Abstract!Start
<1>3. ASSUME NEW w \in Workers, ReleaseConnection(w)
      PROVE  Abstract!Finish(w)
  <2>1. request[w] # NULL
      BY <1>3 DEF ReleaseConnection, TypeOK, Working
  <2> QED BY <1>3, <2>1 DEF ReleaseConnection, Abstract!Finish, queueVars
<1>4. ASSUME \/ \E w \in Workers : \/ Block(w) \/ WaitForWork(w) \/ WaitInterrupted(w)
                                   \/ FindEmpty(w) \/ GetConnection(w)
                                   \/ \E cleared \in BOOLEAN : ProcessReturns(w, cleared)
             \/ \E h \in Handlers : AppendRejected(h)
             \/ AppendPost
             \/ UNCHANGED vars
      PROVE  UNCHANGED Abstract!vars
    BY <1>4 DEF Block, WaitForWork, Waiting, WaitInterrupted, FindEmpty, GetConnection,
                ProcessReturns, AppendRejected, AppendPost, vars, queueVars,
                Abstract!vars
<1> QED BY <1>1, <1>2, <1>3, <1>4 DEF Next, Work, Abstract!Next, Abstract!SomeStart

(* Every step of the pool is a step of the work queue or leaves it alone:  *)
(* requests start in the order of append(), each once, one per worker.     *)
THEOREM PoolRefinesWorkQueue ==
    Spec => Abstract!Init /\ [][Abstract!Next]_(Abstract!vars)
BY RefinementInit, RefinementStep, TypeCorrect, PTL DEF Spec
================================================================================
