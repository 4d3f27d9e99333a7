------------------------------ MODULE ServerPool ------------------------------
(***************************************************************************)
(* The server with its thread pool.  Server takes the pool for a work      *)
(* queue, and ThreadPool takes it on trust that append() is only called    *)
(* for a handler the pool does not have.  Here the loop of Server appends  *)
(* to the list, semaphore and workers of ThreadPool, its signals interrupt *)
(* the workers' waits, and process(), which ThreadPool leaves open, is     *)
(* that of Server.                                                         *)
(*                                                                         *)
(* A step of the composition is one of either module or one of both.       *)
(***************************************************************************)
EXTENDS Server

CONSTANT Connections    \* the database connections opened by the constructor

ASSUME SystemAssumption ==
    /\ IsFiniteSet(Workers) /\ Workers # {}
    /\ IsFiniteSet(Connections) /\ NULL \notin Connections
    /\ Cardinality(Workers) <= Cardinality(Connections)

(* What ThreadPool keeps besides the list, as there.  request is the local *)
(* variable of run(), which a worker still has when process() has          *)
(* returned and `running` is NULL again.                                   *)
VARIABLES queuestat, posting, pc, request, conn_list, CurConn, mysql

poolVars   == <<queuestat, posting, pc, request, conn_list, CurConn, mysql>>
systemVars == <<vars, poolVars>>

Threads == INSTANCE ThreadPool WITH Handlers <- Slots, workqueue <- waiting

SystemInit == Init /\ Threads!Init

-------------------------------------------------------------------------------
(* Clients, and time.                                                      *)
Outside == /\ \/ \E l \in Listeners : Connect(l)
              \/ \E f \in Slots, what \in Sends : Arrive(f, what)
              \/ TimePasses
           /\ UNCHANGED poolVars

(* A signal is handled by a thread of the kernel's choice: the loop, or a  *)
(* worker, whose sem_wait it interrupts (sigaction without SA_RESTART).    *)
Signal == /\ Sigalrm \/ Sigterm
          /\ UNCHANGED poolVars \/ \E w \in Workers : Threads!WaitInterrupted(w)

(* The steps of the loop's thread that leave the pool alone; a step is     *)
(* taken when the last append() has returned.                              *)
LoopStep == /\ posting = 0
            /\ \/ EpollWait \/ AcceptHttps \/ HandshakeFails \/ SigalrmOnHandshake
               \/ HandleAlarm \/ TimerExpires \/ HandleInt
               \/ \E f \in ConnFds : HandleHangup(f)
               \/ LoopEnds
            /\ UNCHANGED poolVars

(* HttpHandler::init calls init_(), which clears mysql.                    *)
Accept == /\ posting = 0
          /\ AddClient \/ HandshakeDone
          /\ mysql' = [f \in Slots |-> IF f \in Registered' \ Registered THEN NULL
                                                                         ELSE mysql[f]]
          /\ UNCHANGED <<queuestat, posting, pc, request, conn_list, CurConn>>

(* append(): the push under the lock, then the post.                       *)
Input(f) == /\ posting = 0
            /\ HandleInput(f)
            /\ Threads!AppendPush(f) \/ Threads!AppendRejected(f)

Post == /\ alive
        /\ Threads!AppendPost
        /\ UNCHANGED vars

-------------------------------------------------------------------------------
(* run(): the wait and what goes on with database connections is the       *)
(* pool's alone, process() the server's.                                   *)
Wait(w) == /\ alive
           /\ Threads!Block(w) \/ Threads!WaitForWork(w) \/ Threads!FindEmpty(w)
           /\ UNCHANGED vars

Take(w) == TakeRequest(w) /\ Threads!TakeRequest(w)

Connection(w) == /\ alive
                 /\ Threads!GetConnection(w) \/ Threads!ReleaseConnection(w)
                 /\ UNCHANGED vars

ReadOrClose(w) == /\ pc[w] = "process"
                  /\ ReadRequest(w) \/ ReadFails(w) \/ AnswerAndClose(w)
                  /\ UNCHANGED poolVars

(* The answer is sent: init_() has cleared mysql when process() returns.   *)
Answer(w) == AnswerAndLinger(w) /\ Threads!ProcessReturns(w, TRUE)

Run(w) == Wait(w) \/ Take(w) \/ Connection(w) \/ ReadOrClose(w) \/ Answer(w)

SystemNext == \/ Outside \/ Signal
              \/ LoopStep \/ Accept \/ Post
              \/ \E f \in ConnFds : Input(f)
              \/ \E w \in Workers : Run(w)

SystemSpec == SystemInit /\ [][SystemNext]_systemVars

(* append() returns and the workers run; a client takes the answer to the  *)
(* request it has sent.  Of the loop nothing is assumed.                   *)
ThreadsRun == /\ WF_systemVars(Post)
              /\ \A w \in Workers : WF_systemVars(Run(w))

LiveSystem == SystemSpec /\ ThreadsRun

-------------------------------------------------------------------------------
(* The server uses the pool as ThreadPool says it is used: append() is     *)
(* called for no handler that is in the list or with a worker, even one    *)
(* that has returned from process() and not given the connection back, and *)
(* nothing but the pool's own steps and process() changes a mysql field.   *)
ImplementsPool == Threads!Init /\ [][Threads!Next]_(Threads!vars)

Processing == {w \in Workers : pc[w] = "process"}
Spent      == Cardinality(served) + Cardinality(Processing)

(* Every answer costs a database connection: init_() has overwritten the   *)
(* pointer when release_connection() reads it again (threadpool.h:106).    *)
(* The free list only shrinks, by one for each answer given or under way,  *)
(* and the workers run process() on NULL when it has come to its end.      *)
AnswersUseUpConnections ==
    alive =>
        /\ Len(conn_list) = IF Spent < Cardinality(Connections)
                            THEN Cardinality(Connections) - Spent ELSE 0
        /\ conn_list # << >> => \A w \in Processing : mysql[request[w]] # NULL
===============================================================================
