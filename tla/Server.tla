-------------------------------- MODULE Server --------------------------------
(***************************************************************************)
(* The server process: the event loop of ClientPool (client_pool/          *)
(* client_pool.cpp), the HttpHandler of each connection as far as it deals *)
(* with its socket, its timer and its response (http/http_conn.cpp), and   *)
(* the signal pipes.  The thread pool is the work queue that module        *)
(* ThreadPool is shown to implement, with the bound of append(); its       *)
(* requests are the slots of users_[], one for each descriptor.  Module    *)
(* ServerPool puts the thread pool itself in its place.                    *)
(*                                                                         *)
(* The kernel is the environment's: sockets, epoll, alarm() and signals    *)
(* are modelled from how the code uses them.  Clients connect, send        *)
(* requests and close their end whenever they like.                        *)
(***************************************************************************)
EXTENDS Integers, Sequences, FiniteSets, FiniteSetsExt, TimerOrder

CONSTANTS Workers,      \* the threads of the pool
          MaxRequests,  \* m_max_requests
          NULL,         \* no descriptor
          LastFd,       \* the largest descriptor the process may open
          MaxUsers,     \* MAX_FD_
          Lifetime,     \* 3*TIMESLOT in units of TIMESLOT
          PipeCap,      \* bytes the alarm pipe takes before send() fails
          Ports,        \* the listening sockets clients connect to
          Sends,        \* what clients do: send "data", "end" the stream
          Signals,      \* the signals that come; without SIGALRM no slot of
                        \* time is over yet
          Backlog       \* connections waiting for accept on each of them

(* The descriptors the constructor opens, in its order; connections get    *)
(* the numbers behind them.                                                *)
SslFd    == 1
ListenFd == 2
AlarmFd  == 3
IntFd    == 4
FirstFd  == 5

ConnFds   == FirstFd..LastFd
(* Connections can also get the number of the HTTPS socket once that is    *)
(* closed.                                                                 *)
Slots     == {SslFd} \cup ConnFds
Listeners == {SslFd, ListenFd}

ASSUME ServerAssumption ==
    /\ LastFd \in Nat /\ LastFd >= FirstFd /\ NULL \notin Slots
    /\ {MaxRequests, MaxUsers, Lifetime, PipeCap, Backlog} \subseteq Nat \ {0}
    /\ Ports \subseteq Listeners /\ Sends \subseteq {"data", "end"}
    /\ Signals \subseteq {"SIGALRM", "SIGTERM"}

VARIABLES
    (* WorkQueue *)
    waiting,        \* the request list of the pool
    running,        \* the request each worker has
    stage,          \* inside process(): "read" until read_() is done, then "write"
    (* ClientPool and HttpHandler *)
    alive,          \* the process has not exited
    server_state,   \* "RUNNING" or "STOPPED"
    events,         \* events_[i..number]: reported and not handled yet
    handshaking,    \* the descriptor SSL_accept is blocked on, NULL if none
    timer_lst,      \* timer_lst_: timer |-> its descriptor, expire |-> slots left
    m_user_count,   \* HttpHandler::m_user_count
    (* the kernel's *)
    open,           \* open descriptors among Slots
    interest,       \* epoll: "none", "armed", or "spent" once a ONESHOT event came
    backlog,        \* connections waiting on each listening socket
    input,          \* unread on each connection: "data", and "end" if it is over
    alarm_set,      \* an alarm() is pending
    alarm_bytes,    \* bytes in the alarm pipe
    edges,          \* pipe ends with an edge epoll has not reported yet
    (* history *)
    served,         \* connections with a request answered
    refused         \* connections whose request append() rejected

queueVars == <<waiting, running, stage>>
loopVars  == <<server_state, events, handshaking>>
userVars  == <<timer_lst, m_user_count>>
sockVars  == <<open, interest, backlog, input>>
sigVars   == <<alarm_set, alarm_bytes, edges>>
histVars  == <<served, refused>>
vars == <<queueVars, alive, loopVars, userVars, sockVars, sigVars, histVars>>

Queue == INSTANCE WorkQueue WITH Requests <- Slots, Servers <- Workers, None <- NULL

-------------------------------------------------------------------------------
(* The constructor: listening sockets and pipes registered, alarm set.     *)
Init == /\ Queue!Init
        /\ alive = TRUE
        /\ server_state = "RUNNING"
        /\ events = {}
        /\ handshaking = NULL
        /\ timer_lst = << >>
        /\ m_user_count = 0
        /\ stage = [w \in Workers |-> "read"]
        /\ open = {SslFd}
        /\ interest = [f \in Slots |-> "none"]
        /\ backlog = [l \in Listeners |-> 0]
        /\ input = [f \in Slots |-> {}]
        /\ alarm_set = TRUE
        /\ alarm_bytes = 0
        /\ edges = {}
        /\ served = {}
        /\ refused = {}

Registered == {f \in Slots : interest[f] # "none"}
(* The HTTPS socket is open under its own number.                          *)
HttpsUp == SslFd \in open \ Registered

(* HttpHandler::close() ends in exit(0): remove_fd takes the result 0 of a *)
(* close() that succeeded for an error.  Everything the process had goes   *)
(* with it; the requests nobody will run now are kept for the refinement.  *)
Exit == /\ alive' = FALSE
        /\ UNCHANGED <<queueVars, server_state>>
        /\ events' = {} /\ handshaking' = NULL
        /\ timer_lst' = << >> /\ m_user_count' = 0
        /\ open' = {}
        /\ interest' = [f \in Slots |-> "none"]
        /\ backlog' = [l \in Listeners |-> 0]
        /\ input' = [f \in Slots |-> {}]
        /\ alarm_set' = FALSE /\ alarm_bytes' = 0 /\ edges' = {}
        /\ served' = {} /\ refused' = {}

-------------------------------------------------------------------------------
(* Clients and the kernel.                                                 *)

Connect(l) == /\ alive /\ l \in Ports
              /\ l = SslFd => HttpsUp
              /\ backlog[l] < Backlog
              /\ backlog' = [backlog EXCEPT ![l] = @ + 1]
              /\ UNCHANGED <<queueVars, alive, loopVars, userVars, open,
                             interest, input, sigVars, histVars>>

(* A request arrives; the client closes its end or the connection breaks.  *)
Arrive(f, what) == /\ alive /\ f \in Registered
                   /\ "end" \notin input[f]
                   /\ what \notin input[f]
                   /\ input' = [input EXCEPT ![f] = @ \cup {what}]
                   /\ UNCHANGED <<queueVars, alive, loopVars, userVars, open,
                                  interest, backlog, sigVars, histVars>>

(* A slot of time goes by; a timer with no slot left has expired.          *)
TimePasses == /\ "SIGALRM" \in Signals
              /\ alive
              /\ timer_lst' = [i \in DOMAIN timer_lst |->
                                   [timer_lst[i] EXCEPT !.expire = Max({0, @ - 1})]]
              /\ UNCHANGED <<queueVars, alive, loopVars, m_user_count, stage,
                             sockVars, sigVars, histVars>>

(* sig_handler for SIGALRM: one byte into the pipe unless it is full.      *)
AlarmHandler == /\ alarm_set' = FALSE
                /\ IF alarm_bytes < PipeCap
                   THEN /\ alarm_bytes' = alarm_bytes + 1
                        /\ edges' = edges \cup {AlarmFd}
                   ELSE UNCHANGED <<alarm_bytes, edges>>

(* SIGALRM where it interrupts nothing that matters: the loop starts       *)
(* epoll_wait again, a worker its sem_wait.                                *)
Sigalrm == /\ "SIGALRM" \in Signals
           /\ alive /\ alarm_set
           /\ AlarmHandler
           /\ UNCHANGED <<queueVars, alive, loopVars, userVars, sockVars, histVars>>

Sigterm == /\ "SIGTERM" \in Signals
           /\ alive /\ server_state = "RUNNING"
           /\ edges' = edges \cup {IntFd}
           /\ UNCHANGED <<queueVars, alive, loopVars, userVars, sockVars,
                          alarm_set, alarm_bytes, histVars>>

-------------------------------------------------------------------------------
(* testing_(): wait for events, handle them one by one.                    *)
AtLoop == alive /\ handshaking = NULL

(* What epoll may report of a connection: one that is broken, perhaps      *)
(* without EPOLLIN.                                                        *)
EventsOf(f) ==
    CASE interest[f] = "armed" /\ "data" \in input[f] -> {<<f, "in">>}
      [] interest[f] = "armed" /\ input[f] = {"end"}  -> {<<f, "in">>, <<f, "hup">>}
      [] OTHER -> {}

(* Listening sockets are level-triggered; the pipes edge-triggered;        *)
(* connections edge-triggered and ONESHOT, reported once and then spent.   *)
EpollWait ==
    LET listening == {<<l, "in">> : l \in {k \in Listeners : backlog[k] > 0}}
        pipes == {<<p, "in">> : p \in edges}
        ready == {f \in Slots : EventsOf(f) # {}}
    IN /\ AtLoop /\ events = {} /\ server_state = "RUNNING"
       /\ listening \cup pipes # {} \/ ready # {}
       /\ \E ev \in [ready -> Slots \X {"in", "hup"}] :
              /\ \A f \in ready : ev[f] \in EventsOf(f)
              /\ events' = listening \cup pipes \cup {ev[f] : f \in ready}
       /\ interest' = [f \in Slots |-> IF f \in ready THEN "spent" ELSE interest[f]]
       /\ edges' = {}
       /\ UNCHANGED <<queueVars, alive, server_state, handshaking, userVars,
                      open, backlog, input, alarm_set, alarm_bytes, histVars>>

(* The number the next descriptor gets.                                    *)
FreeFds == Slots \ open
NextFd  == Min(FreeFds)

(* new Timer, add_timer, HttpHandler::init: the slot joins epoll.          *)
InitUser(fd) ==
    /\ timer_lst' = Insert(timer_lst, Entry(fd, Lifetime))
    /\ m_user_count' = m_user_count + 1
    /\ interest' = [interest EXCEPT ![fd] = "armed"]
    /\ input' = [input EXCEPT ![fd] = {}]

(* Mutant of the check for too many users.                                 *)
Busy_OneMore == m_user_count = MaxUsers + 1
Busy == m_user_count = MaxUsers

(* The event ev is being handled; the others stay for later.               *)
Reached(ev) == AtLoop /\ ev \in events
Handle(ev)  == Reached(ev) /\ events' = events \ {ev}

(* add_client_(): accept fails when no descriptor is left.                 *)
AddClient ==
    /\ Handle(<<ListenFd, "in">>)
    /\ \/ /\ FreeFds = {}
          /\ UNCHANGED <<backlog, open, userVars, interest, input>>
       \/ /\ FreeFds # {} /\ Busy
          /\ backlog' = [backlog EXCEPT ![ListenFd] = @ - 1]
          /\ UNCHANGED <<open, userVars, interest, input>>
       \/ /\ FreeFds # {} /\ ~Busy
          /\ backlog' = [backlog EXCEPT ![ListenFd] = @ - 1]
          /\ open' = open \cup {NextFd}
          /\ InitUser(NextFd)
    /\ UNCHANGED <<queueVars, alive, server_state, handshaking, sigVars, histVars>>

(* add_ssl_client_() up to SSL_accept, which blocks the loop.  accept      *)
(* fails without a descriptor, and on a connection that has the number of  *)
(* the closed HTTPS socket.                                                *)
AcceptHttps ==
    /\ \E ev \in {<<SslFd, "in">>, <<SslFd, "hup">>} : Handle(ev)
    /\ IF HttpsUp /\ FreeFds # {}
       THEN /\ backlog' = [backlog EXCEPT ![SslFd] = @ - 1]
            /\ open' = open \cup {NextFd}
            /\ handshaking' = NextFd
       ELSE UNCHANGED <<backlog, open, handshaking>>
    /\ UNCHANGED <<queueVars, alive, server_state, userVars, interest, input,
                   sigVars, histVars>>

(* SSL_accept succeeds: the rest of add_ssl_client_().                     *)
HandshakeDone ==
    /\ alive /\ handshaking # NULL
    /\ handshaking' = NULL
    /\ IF Busy
       THEN /\ open' = open \ {handshaking}
            /\ UNCHANGED <<userVars, interest, input>>
       ELSE /\ InitUser(handshaking)
            /\ UNCHANGED open
    /\ UNCHANGED <<queueVars, alive, server_state, events, backlog, sigVars, histVars>>

(* SSL_accept fails: the HTTPS socket is closed, not the connection.       *)
CloseHttps == /\ handshaking' = NULL
              /\ open' = open \ {SslFd}
              /\ backlog' = [backlog EXCEPT ![SslFd] = 0]
              /\ UNCHANGED <<queueVars, alive, server_state, events, userVars,
                             interest, input, histVars>>

HandshakeFails == /\ alive /\ handshaking # NULL
                  /\ CloseHttps
                  /\ UNCHANGED sigVars

(* SIGALRM during SSL_accept: the read fails with EINTR and so does        *)
(* SSL_accept.                                                             *)
SigalrmOnHandshake == /\ "SIGALRM" \in Signals
                      /\ alive /\ alarm_set /\ handshaking # NULL
                      /\ AlarmHandler
                      /\ CloseHttps

(* Mutant: the loop waits again without looking at the other events.       *)
HandleAlarm_Break ==
    /\ AtLoop /\ <<AlarmFd, "in">> \in events
    /\ events' = {}
    /\ Expired(timer_lst, 0) = {}
    /\ alarm_set' = TRUE
    /\ UNCHANGED <<queueVars, alive, server_state, handshaking, userVars, sockVars,
                   alarm_bytes, edges, histVars>>

(* timeout() finds no timer due, then alarm(TIMESLOT).  The bytes stay in  *)
(* the pipe.                                                               *)
HandleAlarm ==
    /\ Handle(<<AlarmFd, "in">>)
    /\ Expired(timer_lst, 0) = {}
    /\ alarm_set' = TRUE
    /\ UNCHANGED <<queueVars, alive, server_state, handshaking, userVars, sockVars,
                   alarm_bytes, edges, histVars>>

(* timeout() calls back the first timer that has expired: close().         *)
TimerExpires == /\ Reached(<<AlarmFd, "in">>)
                /\ Expired(timer_lst, 0) # {}
                /\ Exit

(* Mutant: the other events are left when the loop is told to stop.        *)
HandleInt_Break == /\ Reached(<<IntFd, "in">>)
                   /\ events' = {}
                   /\ server_state' = "STOPPED"
                   /\ UNCHANGED <<queueVars, alive, handshaking, userVars, sockVars,
                                  sigVars, histVars>>

HandleInt == /\ Handle(<<IntFd, "in">>)
             /\ server_state' = "STOPPED"
             /\ UNCHANGED <<queueVars, alive, handshaking, userVars, sockVars,
                            sigVars, histVars>>

(* Mutant: the timer is set without being moved.                           *)
HandleInput_NoMove(f) ==
    /\ Handle(<<f, "in">>)
    /\ timer_lst' = [i \in DOMAIN timer_lst |->
                         IF timer_lst[i].timer = f THEN Entry(f, Lifetime)
                                                   ELSE timer_lst[i]]
    /\ Len(waiting) <= MaxRequests
    /\ waiting' = Append(waiting, f)
    /\ UNCHANGED <<running, stage, alive, server_state, handshaking, m_user_count,
                   sockVars, sigVars, histVars>>

(* A connection has input: adjust its timer, append it; nobody looks at    *)
(* what append() returns.                                                  *)
HandleInput(f) ==
    /\ Handle(<<f, "in">>)
    /\ timer_lst' = Insert(Without(timer_lst, f), Entry(f, Lifetime))
    /\ \/ /\ Len(waiting) <= MaxRequests
          /\ waiting' = Append(waiting, f)
          /\ UNCHANGED refused
       \/ /\ Len(waiting) > MaxRequests
          /\ refused' = refused \cup {f}
          /\ UNCHANGED waiting
    /\ UNCHANGED <<running, stage, alive, server_state, handshaking, m_user_count,
                   sockVars, sigVars, served>>

(* A broken connection: close().                                           *)
HandleHangup(f) == /\ Reached(<<f, "hup">>)
                   /\ Exit

(* The loop ends and main returns, whatever the workers are doing.         *)
LoopEnds == /\ AtLoop /\ events = {} /\ server_state = "STOPPED"
            /\ Exit

-------------------------------------------------------------------------------
(* The workers.  A worker with a request is in process(): read_(), then    *)
(* the answer.                                                             *)

TakeRequest(w) ==
    /\ alive
    /\ Queue!Start(w)
    /\ UNCHANGED <<stage, alive, loopVars, userVars, sockVars, sigVars, histVars>>

InProcess(w, s) == alive /\ running[w] # NULL /\ stage[w] = s

(* Mutant: the connection is armed again as soon as it has been read.      *)
ReadRequest_Rearm(w) ==
    LET f == running[w]
    IN /\ InProcess(w, "read")
       /\ input[f] = {"data"}
       /\ input' = [input EXCEPT ![f] = {}]
       /\ interest' = [interest EXCEPT ![f] = "armed"]
       /\ stage' = [stage EXCEPT ![w] = "write"]
       /\ UNCHANGED <<waiting, running, alive, loopVars, userVars, open,
                      backlog, sigVars, histVars>>

(* read_() takes everything there is; parse_ and do_request_ leave the     *)
(* socket alone.                                                           *)
ReadRequest(w) ==
    LET f == running[w]
    IN /\ InProcess(w, "read")
       /\ input[f] = {"data"}
       /\ input' = [input EXCEPT ![f] = {}]
       /\ stage' = [stage EXCEPT ![w] = "write"]
       /\ UNCHANGED <<waiting, running, alive, loopVars, userVars, open, interest,
                      backlog, sigVars, histVars>>

(* Mutant: read_() does not return on the end of the stream behind a       *)
(* request.                                                                *)
ReadFails_NoRequest(w) == /\ InProcess(w, "read")
                          /\ input[running[w]] = {"end"}
                          /\ Exit

(* read_() finds the end of the stream, even behind a request, or recv     *)
(* fails, or the request fills the buffer, which recv with no room left    *)
(* reports like the end: close().                                          *)
ReadFails(w) == InProcess(w, "read") /\ Exit

(* Mutant: the connection is armed again when the answer is sent.          *)
AnswerAndLinger_Rearm(w) ==
    /\ InProcess(w, "write")
    /\ Queue!Finish(w)
    /\ stage' = [stage EXCEPT ![w] = "read"]
    /\ served' = served \cup {running[w]}
    /\ interest' = [interest EXCEPT ![running[w]] = "armed"]
    /\ UNCHANGED <<alive, loopVars, userVars, open, backlog, input, sigVars, refused>>

(* write_(): everything is sent and the connection lingers.  init_()       *)
(* clears the handler and process() returns.                               *)
AnswerAndLinger(w) == /\ InProcess(w, "write")
                      /\ Queue!Finish(w)
                      /\ stage' = [stage EXCEPT ![w] = "read"]
                      /\ served' = served \cup {running[w]}
                      /\ UNCHANGED <<alive, loopVars, userVars, sockVars, sigVars, refused>>

(* write_(): sent with "Connection:close", or writev fails: close().       *)
AnswerAndClose(w) == /\ InProcess(w, "write")
                     /\ Exit

-------------------------------------------------------------------------------
Environment == \/ \E l \in Listeners : Connect(l)
               \/ \E f \in Slots, what \in Sends : Arrive(f, what)
               \/ TimePasses
               \/ Sigterm
               \/ HandshakeDone \/ HandshakeFails

Alarm == Sigalrm \/ SigalrmOnHandshake

Loop == \/ EpollWait \/ AddClient \/ AcceptHttps
        \/ HandleAlarm \/ TimerExpires \/ HandleInt
        \/ \E f \in ConnFds : HandleInput(f) \/ HandleHangup(f)
        \/ LoopEnds

Process(w) == ReadRequest(w) \/ ReadFails(w) \/ AnswerAndLinger(w) \/ AnswerAndClose(w)

Next == \/ Environment \/ Alarm \/ Loop
        \/ \E w \in Workers : TakeRequest(w) \/ Process(w)

Spec == Init /\ [][Next]_vars

(* The workers run; a client takes the answer to the request it has sent,  *)
(* and else does what it likes.  The loop may be stuck in SSL_accept.      *)
WorkersRun == /\ WF_vars(\E w \in Workers : TakeRequest(w))
              /\ \A w \in Workers : WF_vars(Process(w))

LiveSpec == Spec /\ WorkersRun

(* The loop runs too, the alarm comes and time goes by.                    *)
FairSpec == /\ LiveSpec
            /\ WF_vars(Loop)
            /\ WF_vars(Alarm)
            /\ WF_vars(TimePasses)

-------------------------------------------------------------------------------
(* Every variable has its type.                                            *)
TypeOK == /\ waiting \in Seq(Slots)
          /\ running \in [Workers -> Slots \cup {NULL}]
          /\ alive \in BOOLEAN
          /\ server_state \in {"RUNNING", "STOPPED"}
          /\ events \subseteq (Slots \cup {ListenFd, AlarmFd, IntFd}) \X {"in", "hup"}
          /\ handshaking \in ConnFds \cup {NULL}
          /\ timer_lst \in Seq([timer : Slots, expire : 0..Lifetime])
          /\ m_user_count \in 0..MaxUsers
          /\ stage \in [Workers -> {"read", "write"}]
          /\ open \subseteq Slots
          /\ interest \in [Slots -> {"none", "armed", "spent"}]
          /\ backlog \in [Listeners -> 0..Backlog]
          /\ input \in [Slots -> SUBSET {"data", "end"}]
          /\ alarm_set \in BOOLEAN
          /\ alarm_bytes \in 0..PipeCap
          /\ edges \subseteq {AlarmFd, IntFd}
          /\ served \subseteq Slots /\ refused \subseteq Slots

(* The loop keeps its side of the work queue: nothing is appended while    *)
(* the pool is busy with it, so process() never runs twice at a time on a  *)
(* connection.  append() does not look; EPOLLONESHOT sees to it.           *)
ImplementsQueue == Queue!Init /\ [][Queue!Next]_(Queue!vars)

(* Each connection of the server has one timer, m_user_count counts them,  *)
(* and the timers are in order of expiry, so that timeout() misses none.   *)
TimersMatchUsers ==
    /\ TimersOf(timer_lst) = Registered
    /\ Len(timer_lst) = Cardinality(Registered)
    /\ m_user_count = Cardinality(Registered)
    /\ InExpiryOrder(timer_lst)

(* A first request is somewhere until it is answered: still armed, among   *)
(* the events being handled, in the list, or with a worker.  Excepted are  *)
(* the connections append() rejected and the one with the number of the    *)
(* HTTPS socket.                                                           *)
NoRequestLost ==
    alive => \A f \in ConnFds :
        interest[f] = "spent" =>
            \/ f \in served \cup refused
            \/ <<f, "in">> \in events \/ <<f, "hup">> \in events
            \/ \E i \in DOMAIN waiting : waiting[i] = f
            \/ \E w \in Workers : running[w] = f

(* A request in the list is answered, or the server is gone: whatever      *)
(* signals interrupt, whichever connections come meanwhile, and even when  *)
(* the loop takes no step any more, as while a silent TLS client keeps it  *)
(* in SSL_accept.                                                          *)
QueuedIsAnswered ==
    \A f \in ConnFds : (\E i \in DOMAIN waiting : waiting[i] = f)
                           ~> (f \in served \/ ~alive)
===============================================================================
