------------------------------ MODULE ThreadPool ------------------------------
(***************************************************************************)
(* ProcessThreadPool<T> (include/threadpool.h) with the objects it is made *)
(* of: the request list and its lock, the counting semaphore that wakes    *)
(* the workers (lock/locker.cpp) and the pool of database connections each *)
(* request runs with (CGImysql/sql_connection_pool.cpp).                   *)
(*                                                                         *)
(* One thread appends, the workers take.  A critical section under         *)
(* m_queuelocker or under connectionPool::lock is one step; everything     *)
(* between two of them is a step of its own, in the order of the code.     *)
(* T::process() is the environment's: all the pool sees of it is when it   *)
(* returns and whether it overwrote the handler's mysql pointer meanwhile. *)
(***************************************************************************)
EXTENDS Integers, Sequences, FiniteSets, Functions

CONSTANTS Workers,      \* the threads of the pool
          Handlers,     \* the requests, pointers to T
          Connections,  \* the database connections opened by the constructor
          MaxRequests,  \* m_max_requests
          NULL          \* the null pointer

ASSUME PoolAssumption ==
    /\ IsFiniteSet(Workers) /\ Workers # {}
    /\ IsFiniteSet(Connections) /\ NULL \notin Connections
    /\ Cardinality(Workers) <= Cardinality(Connections)
    /\ NULL \notin Handlers
    /\ MaxRequests \in Nat \ {0}

VARIABLES
    workqueue,  \* m_workqueue: accepted requests, oldest first
    queuestat,  \* the value of the semaphore m_queuestat
    posting,    \* 1 while append() has pushed and not posted yet, else 0
    pc,         \* where each worker is in run()
    request,    \* the local variable of run() in each worker
    conn_list,  \* _conn_list: the connections nobody uses
    CurConn,    \* CurConn: how many connections are in use
    mysql       \* the field T::mysql of each request

queueVars == <<workqueue, queuestat, posting>>
connVars  == <<conn_list, CurConn, mysql>>
vars      == <<workqueue, queuestat, posting, pc, request,
               conn_list, CurConn, mysql>>

(* The steps of run(): "wait" with m_queuestat.wait() ahead, "blocked" in  *)
(* it with a value of 0 seen, "woken" behind it, "checkout" with a request *)
(* popped and get_connection() ahead, "process" inside request->process(), *)
(* "release" with release_connection() ahead.                              *)
Steps == {"wait", "blocked", "woken", "checkout", "process", "release"}

Working(w) == pc[w] \in {"checkout", "process", "release"}
Waiting(w) == pc[w] \in {"wait", "blocked"}
Woken      == {w \in Workers : pc[w] = "woken"}
Running    == {request[w] : w \in {v \in Workers : Working(v)}}

-------------------------------------------------------------------------------
(* The pool with every worker before its first wait and every connection free. *)
Init == /\ workqueue = << >>
        /\ queuestat = 0
        /\ posting = 0
        /\ pc = [w \in Workers |-> "wait"]
        /\ request = [w \in Workers |-> NULL]
        /\ conn_list \in [1..Cardinality(Connections) -> Connections]
        /\ IsInjective(conn_list)
        /\ CurConn = 0
        /\ mysql = [h \in Handlers |-> NULL]

-------------------------------------------------------------------------------
(* append().  The appending thread runs one append at a time.              *)

(* Mutant: a request that is not accepted is posted all the same.          *)
AppendRejected_Posts(h) == /\ posting = 0
                           /\ Len(workqueue) > MaxRequests
                           /\ posting' = 1
                           /\ UNCHANGED <<workqueue, queuestat, pc, request, connVars>>

(* The list is too long: unlock and return false.                          *)
AppendRejected(h) == /\ posting = 0
                     /\ Len(workqueue) > MaxRequests
                     /\ UNCHANGED vars

(* Push under the lock; the semaphore is posted after the unlock.          *)
AppendPush(h) == /\ posting = 0
                 /\ Len(workqueue) <= MaxRequests
                 /\ workqueue' = Append(workqueue, h)
                 /\ posting' = 1
                 /\ UNCHANGED <<queuestat, pc, request, connVars>>

(* Mutant: post only when the list was empty.                              *)
AppendPost_FirstOnly == /\ posting = 1
                        /\ posting' = 0
                        /\ queuestat' = IF Len(workqueue) = 1 THEN queuestat + 1
                                                              ELSE queuestat
                        /\ UNCHANGED <<workqueue, pc, request, connVars>>

AppendPost == /\ posting = 1
              /\ posting' = 0
              /\ queuestat' = queuestat + 1
              /\ UNCHANGED <<workqueue, pc, request, connVars>>

-------------------------------------------------------------------------------
(* run().                                                                  *)

(* sem_wait finds a value of 0 and sleeps in the kernel.                   *)
Block(w) == /\ pc[w] = "wait"
            /\ queuestat = 0
            /\ pc' = [pc EXCEPT ![w] = "blocked"]
            /\ UNCHANGED <<queueVars, request, connVars>>

(* Mutant: a wait that does not wait.                                      *)
WaitForWork_NoWait(w) == /\ Waiting(w)
                         /\ queuestat' = queuestat - 1
                         /\ pc' = [pc EXCEPT ![w] = "woken"]
                         /\ UNCHANGED <<workqueue, posting, request, connVars>>

(* sem_wait takes a unit, at once or when it is woken.                     *)
WaitForWork(w) == /\ Waiting(w)
                  /\ queuestat > 0
                  /\ queuestat' = queuestat - 1
                  /\ pc' = [pc EXCEPT ![w] = "woken"]
                  /\ UNCHANGED <<workqueue, posting, request, connVars>>

(* A signal handler ran on this thread while it slept: sem_wait fails with *)
(* EINTR, whether or not a unit has been posted meanwhile, and run() goes  *)
(* on as if it had taken one.                                              *)
WaitInterrupted(w) == /\ pc[w] = "blocked"
                      /\ pc' = [pc EXCEPT ![w] = "woken"]
                      /\ UNCHANGED <<queueVars, request, connVars>>

(* Mutant: run() returns where it should wait again.                       *)
FindEmpty_Returns(w) == /\ pc[w] = "woken"
                        /\ workqueue = << >>
                        /\ pc' = [pc EXCEPT ![w] = "ended"]
                        /\ UNCHANGED <<queueVars, request, connVars>>

FindEmpty(w) == /\ pc[w] = "woken"
                /\ workqueue = << >>
                /\ pc' = [pc EXCEPT ![w] = "wait"]
                /\ UNCHANGED <<queueVars, request, connVars>>

(* Mutants: the request stays in the list; the newest is taken first.      *)
TakeRequest_NoPop(w) == /\ pc[w] = "woken"
                        /\ workqueue # << >>
                        /\ request' = [request EXCEPT ![w] = Head(workqueue)]
                        /\ pc' = [pc EXCEPT ![w] = "checkout"]
                        /\ UNCHANGED <<queueVars, connVars>>

TakeRequest_Newest(w) ==
    LET n == Len(workqueue)
    IN /\ pc[w] = "woken"
       /\ workqueue # << >>
       /\ request' = [request EXCEPT ![w] = workqueue[n]]
       /\ workqueue' = SubSeq(workqueue, 1, n - 1)
       /\ pc' = [pc EXCEPT ![w] = "checkout"]
       /\ UNCHANGED <<queuestat, posting, connVars>>

TakeRequest(w) == /\ pc[w] = "woken"
                  /\ workqueue # << >>
                  /\ request' = [request EXCEPT ![w] = Head(workqueue)]
                  /\ workqueue' = Tail(workqueue)
                  /\ pc' = [pc EXCEPT ![w] = "checkout"]
                  /\ UNCHANGED <<queuestat, posting, connVars>>

(* Mutants: the connection stays in the free list; the last one is kept    *)
(* back.                                                                   *)
GetConnection_NoPop(w) ==
    /\ pc[w] = "checkout"
    /\ conn_list # << >>
    /\ mysql' = [mysql EXCEPT ![request[w]] = Head(conn_list)]
    /\ CurConn' = CurConn + 1
    /\ pc' = [pc EXCEPT ![w] = "process"]
    /\ UNCHANGED <<queueVars, request, conn_list>>

GetConnection_KeepLast(w) ==
    /\ pc[w] = "checkout"
    /\ IF Len(conn_list) > 1
       THEN /\ mysql' = [mysql EXCEPT ![request[w]] = Head(conn_list)]
            /\ conn_list' = Tail(conn_list)
            /\ CurConn' = CurConn + 1
       ELSE /\ mysql' = [mysql EXCEPT ![request[w]] = NULL]
            /\ UNCHANGED <<conn_list, CurConn>>
    /\ pc' = [pc EXCEPT ![w] = "process"]
    /\ UNCHANGED <<queueVars, request>>

(* request->mysql = get_connection(), which hands out NULL when no         *)
(* connection is free.                                                     *)
GetConnection(w) ==
    /\ pc[w] = "checkout"
    /\ IF conn_list # << >>
       THEN /\ mysql' = [mysql EXCEPT ![request[w]] = Head(conn_list)]
            /\ conn_list' = Tail(conn_list)
            /\ CurConn' = CurConn + 1
       ELSE /\ mysql' = [mysql EXCEPT ![request[w]] = NULL]
            /\ UNCHANGED <<conn_list, CurConn>>
    /\ pc' = [pc EXCEPT ![w] = "process"]
    /\ UNCHANGED <<queueVars, request>>

(* process() returns; cleared: it has set its mysql field to NULL.         *)
ProcessReturns(w, cleared) ==
    /\ pc[w] = "process"
    /\ mysql' = [mysql EXCEPT ![request[w]] = IF cleared THEN NULL ELSE @]
    /\ pc' = [pc EXCEPT ![w] = "release"]
    /\ UNCHANGED <<queueVars, request, conn_list, CurConn>>

(* release_connection(request->mysql): the pointer is read again here, and *)
(* stays in the handler afterwards.  The local variable request goes out   *)
(* of scope.                                                               *)
ReleaseConnection(w) ==
    /\ pc[w] = "release"
    /\ IF mysql[request[w]] # NULL
       THEN /\ conn_list' = Append(conn_list, mysql[request[w]])
            /\ CurConn' = CurConn - 1
       ELSE UNCHANGED <<conn_list, CurConn>>
    /\ request' = [request EXCEPT ![w] = NULL]
    /\ pc' = [pc EXCEPT ![w] = "wait"]
    /\ UNCHANGED <<queueVars, mysql>>

-------------------------------------------------------------------------------
(* The caller appends a handler only while the pool is not busy with it:   *)
(* connections are registered EPOLLONESHOT.  Module ServerPool composes    *)
(* the pool with the event loop, and that this is so is checked and proved *)
(* there.                                                                  *)
Idle(h) == h \notin Range(workqueue) /\ h \notin Running

Work(w) == \/ Block(w) \/ WaitForWork(w) \/ FindEmpty(w) \/ TakeRequest(w)
           \/ GetConnection(w) \/ ReleaseConnection(w)

Next == \/ \E h \in Handlers : Idle(h) /\ (AppendPush(h) \/ AppendRejected(h))
        \/ AppendPost
        \/ \E w \in Workers : \/ Work(w)
                              \/ WaitInterrupted(w)
                              \/ \E cleared \in BOOLEAN : ProcessReturns(w, cleared)

(* The threads run: append() posts and no worker stops between two waits.  *)
(* Nothing is assumed of process() or of signals.                          *)
Fairness == /\ WF_vars(AppendPost)
            /\ \A w \in Workers : WF_vars(Work(w))

Spec == Init /\ [][Next]_vars /\ Fairness

-------------------------------------------------------------------------------
(* Every variable has its type, and exactly a worker at work has a request.*)
TypeOK == /\ workqueue \in Seq(Handlers)
          /\ queuestat \in Nat
          /\ posting \in {0, 1}
          /\ pc \in [Workers -> Steps]
          /\ request \in [Workers -> Handlers \cup {NULL}]
          /\ \A w \in Workers : Working(w) <=> request[w] # NULL
          /\ conn_list \in Seq(Connections)
          /\ CurConn \in Int
          /\ mysql \in [Handlers -> Connections \cup {NULL}]

(* No lost wake-up: for each request in the list there is a unit on the    *)
(* semaphore, a post about to happen, or a worker that is past its wait    *)
(* and has not looked at the list yet.  Interrupted waits, which take a    *)
(* request without taking a unit, keep it true.                            *)
NoStrandedRequest ==
    Len(workqueue) <= queuestat + posting + Cardinality(Woken)

(* A handler is in the list once or with one worker, never both: process() *)
(* never runs twice at a time on one connection.                           *)
OneWorkerPerHandler ==
    /\ IsInjective(workqueue)
    /\ Range(workqueue) \cap Running = {}
    /\ \A v, w \in Workers :
           Working(v) /\ Working(w) /\ request[v] = request[w] => v = w

(* An interrupted wait takes a request and leaves its unit behind, and     *)
(* such units do not pile up: a worker can only be interrupted asleep, and *)
(* falls asleep only when there are none.  Besides those of the requests   *)
(* in the list there is at most one for each worker and the one about to   *)
(* be posted (each sends an idle worker round run()'s loop for nothing),   *)
(* so that the value stays far from the one at which sem_post would fail,  *)
(* which append() would not notice.                                        *)
UnitsBounded ==
    queuestat + posting <= Len(workqueue) + Cardinality(Workers) + 1

(* The workers that may hold a connection, and the connections held.       *)
Holder(w) == pc[w] \in {"process", "release"} /\ mysql[request[w]] # NULL
Held      == {mysql[request[w]] : w \in {v \in Workers : Holder(v)}}

(* A connection is free, with one worker, or lost; never two of these and  *)
(* never with two workers, although handlers keep the pointer of a         *)
(* connection they have given back.  CurConn counts those not free.        *)
ConnectionsAccounted ==
    /\ IsInjective(conn_list)
    /\ Range(conn_list) \cap Held = {}
    /\ \A v, w \in Workers :
           Holder(v) /\ Holder(w) /\ mysql[request[v]] = mysql[request[w]]
               => v = w
    /\ CurConn = Cardinality(Connections) - Len(conn_list)

(* Connections neither free nor with a worker: their pointer is gone.      *)
Lost == Connections \ (Range(conn_list) \cup Held)

(* There are as many connections as workers, so process() starts without   *)
(* one only after an earlier process() overwrote its pointer.              *)
NullOnlyAfterLoss ==
    Lost = {} => \A w \in Workers : pc[w] = "process" => mysql[request[w]] # NULL

(* The pool is a work queue: FIFO, every accepted request started once,    *)
(* and none left waiting while a worker stays free.                        *)
Abstract == INSTANCE WorkQueue WITH Requests <- Handlers,
                                    Servers <- Workers,
                                    None <- NULL,
                                    waiting <- workqueue,
                                    running <- request
ImplementsWorkQueue == Abstract!Spec
===============================================================================
