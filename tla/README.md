# TLA+ models of LinuxImageServer

TLA+ specifications of the web server in `src/` (C++: `src/src/`), checked with
TLC, and proofs about them checked with TLAPS. The modules are written from the
code; each definition that stands for code is tied to its lines in
`PROJECT.json` ("map"). Paths below are relative to `src/src/` unless they say
otherwise.

The build that is modelled is the one that runs the server: `test/` with
`-DDEBUG` and `SYNSQL`, started by `test/test_server/test_server.cpp`, which
creates a `ClientPool` and calls `testing_()`. `main2.cpp` only initialises the
log and the table of users: its `ClientPool` is commented out.

## The system

| component | code | state | operations |
|---|---|---|---|
| Event loop | `client_pool/client_pool.cpp`, `include/client_pool.h` | listening sockets, epoll set, signal pipes, `users_[]`, `server_state_` | `testing_()`, `add_client_`, `add_ssl_client_`, `sig_handler` |
| Thread pool | `include/threadpool.h`, `lock/locker.cpp` | `m_workqueue`, `m_queuestat`, eight threads | `append`, `run` |
| Database connections | `CGImysql/sql_connection_pool.cpp` | `_conn_list`, `CurConn` | `get_connection`, `release_connection` |
| Timers | `timer/lst_timer.cpp`, `include/lst_timer.h` | a doubly linked list | `add_timer`, `adjust_timer`, `del_timer`, `timeout` |
| Connection handler | `http/http_conn.cpp`, `common/common.cpp` | socket, buffers, parser state, answer | `init`, `close`, `process`: `read_`, `parse_`, `do_request_`, `write_` |
| User registry | `do_request_` (`SYNSQL`), `initmysql_result` | the map `users`, the table `user` in MySQL | loading, registration, login |
| Log | `log/log.cpp`, `include/log.h` | file, line count, date, queue and writer thread | `init`, `write_log`, `async_write_log` |
| Blocking queue | `include/block_queue.h` | circular array, mutex, condition variable | `push`, `pop`, `full` |
| TLS wrapper | `ssl/ssl.cpp` | none of its own | `ssl_init`, `SSL_writev` |
| Helpers | `io/`, `signal/`, `include/logger.h` | none of the server's | socket set-up, printing |

How they interact. One thread runs the event loop. It accepts connections,
gives each a slot of `users_[]` and a timer, and registers it with epoll as
`EPOLLONESHOT`. When a connection has input the loop moves its timer and
appends the slot to the thread pool. A worker takes it, borrows a database
connection, and runs `process()`: read, parse, look up, answer. SIGALRM and
SIGTERM come in through pipes that the loop watches; an alarm makes it call
`timeout()`, which calls `close()` of the connections that were idle. All
threads write the log.

What is hard here:

- **Concurrency**: `append` posts outside the lock; `sem_wait` is interrupted;
  a handler must not reach two workers, and only ONESHOT keeps it from that;
  full/push of the log queue and count/write of a line are separate critical
  sections; the log writer and rotation use different mutexes; registrations
  share a map and a table under a mutex that is local to each call.
- **Failure**: results that nobody looks at (`append`, `sem_wait`, `push`,
  the `send` in the signal handler), handshakes that fail or are interrupted,
  `close()` whose success is taken for an error, an INSERT that fails, perhaps
  after it was executed, and a process that ends between the table and the map.
- **Ordering**: a batch of epoll events handled one by one while signals and
  workers go on; requests and answers that move in pieces; a TLS write that is
  repeated while OpenSSL keeps what it has encrypted; timers that share an expiry.
- **Limits**: the request list, `MAX_FD_`, descriptor numbers that are used
  again, the capacity of the alarm pipe, the read buffer.
- **Progress**: a worker or the loop that waits for ever.

`PROJECT.json` lists these as hazards, each with its line and the properties
that would catch it going wrong.

## What should hold, by component

- *Thread pool*: no request stays in the list with every worker asleep; each
  accepted request runs once, in order, and on one worker; units of the
  semaphore do not pile up;
  a database connection is never with two workers.
- *Timers*: the links are those of one list, in the order of expiry; `timeout`
  calls back those that have expired and no others.
- *Event loop*: each connection has one timer and is counted; nothing is
  appended that the pool still has; a connection with a request is never
  forgotten except where `append` rejected it.
- *Connection handler*: no partial request is answered as a whole one; the
  answer arrives whole; a request does not hold its worker for ever.
- *Log*: each line is written once; a file gets a bounded number of lines; the queue is FIFO, and
  what is queued is written.
- *User registry*: the map and the table agree; who is told that a registration
  succeeded can log in, also after a restart if the program loads the table; nobody is welcome with a password
  that nobody registered.

## Modules

Abstract specifications, each with the module that is shown to implement it:

| abstract | promises | implemented by | checked as |
|---|---|---|---|
| `WorkQueue` | FIFO, at most one server per request, a free server takes the next request | `ThreadPool`; used in `Server` in its place | `ImplementsWorkQueue`, `ImplementsQueue`, and `ImplementsPool` for the two together |
| `SortedTimers` | a sequence sorted by expiry | `TimerList` | `ImplementsSortedTimers` |
| `BoundedFifo` | a bounded queue with consumers | `BlockQueue` | `ImplementsFifo` |
| `Accounts` | what the pages tell users is so: a registered name is theirs, a refused one is taken, the password was right or wrong | `UserRegistry` | `ImplementsAccounts` |

**`ThreadPool`.** One step per critical section of `append` (`AppendPush`,
`AppendPost`, `AppendRejected`) and per stage of `run`: `Block` (`sem_wait`
finds no unit), `WaitForWork`, `WaitInterrupted` (EINTR, which only a worker
that blocks can get: `run` ignores the result), `FindEmpty`,
`TakeRequest`, `GetConnection`, `ProcessReturns`, `ReleaseConnection`. The
state is the list, the semaphore, each worker's position and `request`, the
free connections, `CurConn` and each handler's `mysql` pointer.
`process()` is open: it returns, and may have set `mysql` to NULL (`init_`).
It assumes `Idle(h)`: the caller does not append a handler the pool has
(`ServerPool` shows that the event loop does not).

**`TimerOrder`, `SortedTimers`, `TimerList`.** `TimerOrder` is the order as
operators on sequences, shared by the abstract list and by `Server`.
`TimerList` is the linked list, with `head`, `tail`, `next`, `prev`, and
`Freed` for what a deleted object's fields hold. A method is one step, since
only the loop's thread uses the list. The refinement maps the links to the
sequence that they form; `SortedTimers.Timeout` takes off the first `n` timers,
which must be those that have expired, so a list out of order has no step.

**`Server`.** The process: the event loop composed with the work queue, the
timers and the sockets. Its variables are in four groups: the pool's
(`waiting`, `running`, `stage`), the loop's (`events` still to be handled,
`handshaking` for a blocking `SSL_accept`, `timer_lst`, `m_user_count`), the
kernel's (`open`, `interest`, `backlog`, `input`, the alarm and the pipes) and
the history (`served`, `refused`). `EpollWait` picks up a batch, the handlers
(`AddClient`, `AcceptHttps`, `HandleAlarm`, `TimerExpires`, `HandleInt`,
`HandleInput`, `HandleHangup`) take one event each in any order, and between
any two of them clients, signals, time and workers step. Descriptors get the
lowest free number, as `accept` gives them. `Exit` is what closing a connection
does: `remove_fd` (`common/common.cpp:88`) takes the 0 of a successful `close`
for an error, and `CONSOLE_LOG_ERROR` exits.

**`ServerPool`.** The server with its thread pool: `Server` and an instance of
`ThreadPool` on one request list (`Handlers <- Slots`, `workqueue <- waiting`).
A step is one of either module or one of both: `Input` is `HandleInput` and
`AppendPush` or `AppendRejected`; the loop's next step waits for the post; a
signal may interrupt a worker's `sem_wait`; `Take` is the pop and the start of
the request; `Accept` clears `mysql` as `init_` does; `ReadOrClose` and `Answer`
are the `process()` that `ThreadPool` leaves open. `request` of the pool is
`run`'s local variable, which a worker still has when `process()` has returned
and `Server`'s `running` is NULL again; that gap, in which `run` reads
`request->mysql`, is what `ImplementsPool` sees and `ImplementsQueue` does not.
`AnswersUseUpConnections` says what becomes of the database connections in the
whole: the free list only shrinks, by one for each answer.

**`HttpExchange`.** `process()` on one request. The client delivers bytes and
may close or reset at any point; `read_` is a step per `recv`; `Parse` is
`parse_`, `do_request_` and `write_to_buffer_` (which touch nothing shared);
then a step per `writev`. A request is, for each of its lines, where it ends and
what it is, and an answer a sequence of named bytes, so that where each byte of
`m_read_buf` and of the answer comes from is known without spelling out text.
`filled` is how much of the request is in the buffer in its place. A piece that
comes after a failed attempt is put over earlier bytes (`PutAt`); as long as
these are content, `Parse` still knows what the head says. When they are bytes
of the head it follows the code up to a line that is in place and not accepted,
and otherwise leaves the result open (`Followed`). `m_iv_count`,
which no code initialises, is 0, as the object lies in fresh memory.
With an HTTPS client (`m_type`) a step is a `SSL_writev` instead: `TlsWrite` when
it returns, `TlsWriteFails(n)` when it returns EAGAIN with `n` bytes sent.
OpenSSL is modelled as far as that goes: it encrypts a record at a time
(`RecordBytes`), keeps the one the kernel has not taken, and when the call is
repeated sends that record as it is and reads only the rest from the buffer.
`m_write_buf + bytes_to_send` may lie behind the buffer; what is there is named
by its place, like everything else.

**`Accounts`, `UserRegistry`.** The accounts: the map `users`, the table it is
loaded from (`loads`: `main2.cpp` calls `initmysql_result`, `test_server` does
not), and the stages of `do_request_` in each worker. The mutex is created in
the call, so it is no part of the model. Two accesses to the map of which one is
an insertion are a data race; its outcomes here are a look that says the wrong
thing and entries that are lost. (That `operator[]` of a login, beside an
insertion, may insert an empty entry is left out.) An INSERT may fail before or
after the server has executed it, and the process may end and start again at
any point. `spoiled` (`void` in `Accounts`) are the names for which two workers
raced or an INSERT failed: of these only little is promised. Two workers may
both get the login page for one name though one password is kept, and a user
told `registerError` may log in until the restart. For these names too nobody is
welcome with a password nobody asked for, and what was registered with success
is stored.

A restart does different things to the two programs. One that loads has the
table's rows in its map again, and what is promised goes on. `test_server`, the
only program that serves, starts with an empty map: `unread` are the rows that
such a process does not know, `Forget` of `Accounts` is what its users see, and
no name is spoiled then. `MapMatchesTable` and `ImplementsAccounts` hold in each
of its processes for all names from the start on; that the names of the last
process can be registered again, with another password and another row, is what
the code does and no property denies. (`main2.cpp`, which loads, serves nobody:
what is said of `loads = TRUE` is what `initmysql_result` is there for.)

**`BoundedFifo`, `BlockQueue`, `AsyncLog`.** `BlockQueue` is the circular array
with its condition variable (`sleeping`, spurious wake-ups included);
`AsyncLog` extends it with `write_log` as its critical sections and the writer
thread. `m_is_async` is either: the build logs synchronously (`define.h`), and
`main2.cpp`, `test_server` and `test_log` have the asynchronous mode too.
`fputs` on a `FILE` that rotation has closed is undefined; the model
lets the line be lost or go to the file opened since.

`MC*` modules give the constants their values. Definitions marked *Mutant* are
faulty variants of the definition that follows them; they are used in no
specification, and for each property a mutant is recorded in `PROJECT.json`
under which the property fails.

## Runs

All bounds are constants of the `.cfg` files. States are distinct states.

| run | configuration | what it shows |
|---|---|---|
| `thread_pool` | 2 workers, 3 handlers, 2 connections, list of 1 (+1); 240k states | `NoStrandedRequest` (no lost wake-up, with interrupted waits), `UnitsBounded` (what interrupted waits leave in the semaphore does not pile up), `OneWorkerPerHandler`, `ConnectionsAccounted`, `NullOnlyAfterLoss`, and `ImplementsWorkQueue` with its fairness |
| `timer_list` | 4 timers, lifetime 2, clock to 5; 8k states | `WellLinked`, `ImplementsSortedTimers` |
| `server_https` | 1 worker, 3 descriptors for connections, 2 users, both ports, clients that also close, alarm and SIGTERM; 1.1M states | `TimersMatchUsers`, `NoRequestLost`, `ImplementsQueue`: handshakes that fail, block the loop or are interrupted by the alarm, numbers used again, the HTTPS socket's number given to a client, a loop that is told to stop |
| `server_pool` | `LiveSystem`, 1 worker, 2 database connections, 3 descriptors for connections, list of 1 (+1), SIGTERM; 266k states | `NoRequestLost`, `AnswersUseUpConnections`, `ImplementsPool`, `QueuedIsAnswered` when list, descriptors and database connections run out and when signals interrupt the worker's wait |
| `async_log` | 2 loggers of 2 lines, queue of 2, file of 2 lines, one midnight; 57k states | `LineWrittenOnce`, `FilesBounded`, `LinesInOrder`, `NoLostWakeup`, `ImplementsFifo`, `QueuedIsWritten` |
| `http_exchange` | 8 requests, 6 targets, HTTP and HTTPS clients, buffer of 16, 4 attempts, head of 2 bytes, file of 3, records of 2; 1.3M states | `PageNeedsWholeRequest`, `RefusedForItsTail`, `AnswerIsWhole`, `NeverSpins`, `ExchangeEnds` |
| `user_registry` | 2 workers, 2 names, 2 passwords, with and without a load, any number of restarts; 1.4M states | `MapMatchesTable`, `ToldIsStored`, `ImplementsAccounts` |

`TypeOK` of each module is checked in one of its runs.

Why the bounds are enough. *Thread pool*: a list of two and three handlers let
`append` be rejected with both workers busy, and the semaphore reaches the value
that `UnitsBounded` allows. *Timers*: with four nodes one can leave the middle and be linked again
before or behind two others; lifetime 2 lets expiries differ and coincide.
*Server*: the interactions are between at most two connections and a third that
finds no room; the alarm pipe fills after one byte instead of 278, and
everything after that is the same for any capacity. Time is a countdown in each
timer, so it has no bound. *Server with its pool*: `server_pool` lets no alarm
come, so it is what happens in the first slot of time; SIGTERM interrupts the
waits. Alarms and timeouts beside a pool are in `server_https`, several workers
beside each other in `thread_pool`, and the proofs about `ServerPool` have them
all. The list rejects the third request while the worker is slow; two answers
use up the connections, and the third request runs without one. *Log*: four lines go round an array of two twice,
and both threads can find one free cell; without the writer a file gets as many
lines as `FilesBounded` allows. (With it the allowance is more than four lines
can fill in this instance; with three lines to a thread TLC reaches it.) *Exchange*: four attempts to read
instead of ten and a buffer of sixteen bytes instead of 2048; the requests are
chosen to be, against those, what real ones are against the real numbers: with
and without content and with bytes behind it, too short, longer than the
buffer, with a faulty line, with `Connection: close`. A file of three bytes can
be cut twice, and with the head it makes three records. *Registry*: two workers
are enough for every race on a name and on the map, and a second name is what
such a race may take with it.

Symmetry is used in `timer_list` (timers) and `user_registry` (workers, names,
passwords), where the permuted values are compared only for equality and no
liveness is checked. `CHECK_DEADLOCK FALSE` is
set where the system may stop: after the process has exited, after one exchange,
when all lines are logged.

### Fairness

- `ThreadPool`: the appending thread posts and each worker's own steps go on
  (`WF`), as the operating system schedules threads. Nothing is assumed of
  `process()`.
- `ServerPool`: `LiveSystem` is fair to `append`'s post and to the workers only.
  `WF` on `Run(w)` also says that clients take the answer to a request: the code
  spins on EAGAIN in `write_to_fd_`, and a client that never reads holds the
  worker. Of the loop nothing is assumed, so `QueuedIsAnswered` holds even while a
  silent TLS client keeps it in `SSL_accept`.
- `Server`: `FairSpec`, for the runs `server_keep_alive` and `server_expiry`, is
  fair to the workers, the loop, the alarm and time, so that what they miss is not
  missed for want of a step.
- `HttpExchange`: the worker runs; `SF` on a `writev` or `SSL_write` that takes
  what there is: the client goes on reading. Nothing is assumed of what the
  client sends.
- `UserRegistry`: no liveness; a form is a handful of steps.
- `AsyncLog`: the writer thread runs. No fairness for the loggers.

### Disagreements

Five runs show where the code does something else than its comments or
documents say; each has a finding in `PROJECT.json`.

| run | property | |
|---|---|---|
| `server_stops` | `OnlyStopsWhenTold` | closing any connection ends the process |
| `server_keep_alive` | `EveryRequestIsRead` | no descriptor is armed again after its ONESHOT event, so the second request on a kept connection is never read |
| `server_expiry` | `ExpiredTimersAreDeleted` | the alarm pipe is never drained; once it is full there are no alarms and no timeouts |
| `pool_loss` | `EveryWorkerGetsConnection` | `init_` clears `mysql` before `run` gives the connection back; after eight such requests `process()` runs on NULL |
| `http_form` | `FormIsChecked` | `read_` adds the -1 of each EAGAIN to `m_read_idx`; a form that has arrived whole is refused |

In the counterexample of `server_keep_alive` the alarm pipe is full already;
otherwise the timeout of the connection would end the process first.

Some properties have exceptions, which are the code's: `NoRequestLost` leaves
out what `append` rejected (its result is ignored) and the connection that gets
the HTTPS socket's number; `AnswerIsWhole` leaves out an answer to an HTTP client
whose head was cut or where `writev` took a part twice in a row (`m_iv` moves on
only at EAGAIN, so the second call repeats the first); `NeverSpins` and
`ExchangeEnds` leave out an answer whose head was cut (`MaySpin`);
`PageNeedsWholeRequest` and `RefusedForItsTail` leave out pieces of the head that
were put over earlier bytes of it, as a line of `Content-length` can lose digits
that way and the code then answers before all the content has come; `LinesInOrder`
speaks of the files only without the writer thread, since a line that finds the
queue full goes to the file past those that wait; the registry's properties leave
out `spoiled` names, as said above. An HTTPS client always gets the whole answer:
where `m_iv` is pointed at the wrong place, those bytes are in a record already.

Two more comments say something else than the code. No run is spent on them;
the models follow the code:

- `include/threadpool.h:15` and `:27` call `m_max_requests` the most requests
  that the list may hold. `append` (line 70) refuses only when there are more
  than that, so the list holds one more.
- `include/log.h:74` and `log/log.cpp:94`, `:100` call `m_split_lines` the maximum
  of a file's lines. Lines are counted and written in two critical sections, so a
  file also gets lines that were counted for the one before: with two threads, on
  one day and without the queue, one can get a line too many. One that a late line
  of the day before opens again gets a second share. `FilesBounded` is the bound
  that the code keeps: `Late` lines more between an `fopen` and the next `fclose`.

## Proofs

Every safety invariant of the passing runs is proved for all values of the
constants, and so is every refinement (of `ImplementsWorkQueue` the safety
part). Each component has its proofs in a module of its own, which extends the
component's; the server with its pool shares one with the server.

### Thread pool

`ThreadPool_proofs` proves, for every number of workers, handlers and
connections and every bound, under `PoolAssumption` (finitely many workers and
no fewer connections than workers, as the code opens eight of each; NULL is
neither a handler nor a connection):

| theorem | statement |
|---|---|
| `TypeCorrect` | `Spec => []TypeOK` |
| `OneWorkerPerHandlerHolds` | `Spec => []OneWorkerPerHandler` |
| `UnitsBoundedHolds` | `Spec => []UnitsBounded` |
| `NoStrandedRequestHolds` | `Spec => []NoStrandedRequest` |
| `ConnectionsAccountedHolds` | `Spec => []ConnectionsAccounted` |
| `NullOnlyAfterLossHolds` | `Spec => []NullOnlyAfterLoss` |
| `PoolRefinesWorkQueue` | the safety part of `ImplementsWorkQueue` |

The argument, in the order of the module. *Types*: `TypeOK` is inductive. Its
clause "a worker has a request exactly while it works" is what later steps
rest on. *One worker*: relative to `TypeOK`, `OneWorkerPerHandler` is inductive,
since `append` is only called for idle handlers. *Queue*: `NoStrandedRequest`
counts units, workers on their way to the list (`Woken`) and the post under way
against the requests in the list. An interrupted worker joins `Woken` without
taking a unit; one that finds the list empty leaves `Woken` when there is nothing
to strand. *Units*: for `UnitsBounded` the workers behind their wait and those
that block (`Blocked`) are counted on the side of the units (`UnitsLeft`): a
worker blocks only when there is no unit, so an interruption, which leaves a unit
behind, is paid for by the worker that was counted as blocked. *Connections*:
`ConnectionsAccounted` needs `OneWorkerPerHandler`, for a handler with two
workers would make one pointer two holders. `NullOnlyAfterLoss` counts: with
nothing lost, an empty free list means that the holders map one to one onto
all connections, more than there are workers besides the one that asks
(`ConnectionsSuffice`). *Refinement*: each step of the pool is `Submit`,
`Start` or `Finish` of `WorkQueue`, or changes neither the list nor `request`;
`Submit`'s guard is `Idle`.

That the event loop appends only idle handlers, which these proofs assume of
`append`'s caller, is `SystemImplementsPool` below.

### Blocking queue

`BlockQueue_proofs` proves about `BQSpec`, the queue with any consumers that pop
and anybody who pushes, under `QueueAssumption` (`max_size` is at least 1, NULL
is no item), for every size:

| theorem | statement |
|---|---|
| `QueueTypes` | `BQSpec => []BQTypeOK` |
| `QueueImplementsFifo` | `BQSpec => ImplementsFifo` |
| `QueueLosesNoWakeup` | `BQSpec => []NoLostWakeup` |

The argument. *Types*: `BQTypeOK` is inductive. *Indices*: so is `IndicesAgree`,
that `m_back` is `m_size` cells behind `m_front`, up to the -1 both start with.
*Arithmetic*: a quotient and a remainder are unique, so two numbers less than
`max_size` apart have different remainders, and a remainder can be taken before
or after a sum. Hence the cell that `push` writes is none of the `m_size` cells
in use (`PushAppends`), and the cells behind the advanced `m_front` are the tail
of those before (`PopTakesHead`). *Refinement*: `push` that returns true is `Put`,
`pop` that returns is `Get`, and all other steps leave the contents alone.
*Wake-ups*: nobody sleeps while there is an item, because `push` wakes all and
`pop` tests and sleeps under one lock.

### Timers

`TimerOrder_proofs`: `Insert` and `Without` keep a list in the order of expiry,
without doubles, and change its timers by the one (`InsertOrder`,
`InsertTimers`, `WithoutTimer`). The place to insert at is found as a least
number, without induction over the list.

`TimerList_proofs`, for any set of timers, under `TimerListAssumption`
(finitely many timers; NULL and the contents of a deleted one are no timers;
`Lifetime` and the clock's bound are numbers):

| theorem | statement |
|---|---|
| `TypeCorrect` | `Spec => []TypeOK` |
| `WellLinkedHolds` | `Spec => []WellLinked` |
| `ListImplementsSortedTimers` | `Spec => ImplementsSortedTimers` |

The inductive invariant is that there is a sequence `q` whose nodes are the
list: linked by `next` from `head`, by `prev` back, the last one at `tail`, just
the live timers, in the order of expiry, and none later than a timer set now
(`IsList`). `WellLinked` follows links from `head` and could not be inductive,
since it says nothing of what the links of a sequence become when one node
leaves the middle. The last conjunct of `IsList` sends every insertion to the
end, so each method has a closed form (`Added`, `Cut`, `Moved`, `Dropped`) and a
lemma that says what it does to the links. The refinement maps the state to
`Listing(q, expire)`, and each method to the action of `SortedTimers`.

### Server

`Server_proofs`, for any number of workers, descriptors, users and any length
of the list and capacity of the pipe, under `ServerAssumption` (the limits are
positive numbers; the descriptors reach beyond those the server opens itself):

| theorem | statement |
|---|---|
| `TypeCorrect` | `Spec => []TypeOK` |
| `TimersMatchUsersHolds` | `Spec => []TimersMatchUsers` |
| `NoRequestLostHolds` | `Spec => []NoRequestLost` |
| `ServerImplementsQueue` | `Spec => ImplementsQueue` |

`TimersMatchUsers` is inductive only together with what keeps a descriptor from
getting a second timer: registered descriptors are open, a handshake holds one
that is not registered (`Descriptors`), an event waiting in `events` has spent
its registration, a listener's has a connection behind it (`Reports`), and no
timer is in the list twice. With that, `PoolInv` is inductive: the pool is busy
with a connection only after its one event has been handled (`Busyness`), and a
spent connection is somewhere (`Accounted`). `Busyness` is what EPOLLONESHOT
gives; from it, what `HandleInput` appends is not with the pool, which is the
guard of `Submit`.

### Server and thread pool

The second part of `Server_proofs` is about `SystemSpec` of `ServerPool`, under
`SystemAssumption` (`PoolAssumption` for the slots) besides `ServerAssumption`:

| theorem | statement |
|---|---|
| `SystemImplementsServer` | `SystemSpec => Spec` |
| `SystemImplementsPool` | `SystemSpec => ImplementsPool` |
| `PoolIsSafe` | `SystemSpec => []` of the five safety invariants of `ThreadPool` |
| `AnswersUseUpConnectionsHolds` | `SystemSpec => []AnswersUseUpConnections` |

The first makes every theorem about `Server` one about the server with its real
pool. The second discharges what `ThreadPool` assumes of its caller, so that its
theorems hold here: `Proven` instantiates `ThreadPool_proofs`, and its step
lemmas are cited, not proved again. The two arguments need each other, for
`Busyness` speaks of `running`, and the guard `Idle` of `request`. `SystemInv`
joins them: a worker's `running` is its `request` from the pop until `process()`
returns (`Agreement`); between that and the release the request has its answer,
and no connection any more (`Cleared`); a slot with its answer is spent for
good, so it never comes to the pool again while `run` still has it (`Settled`);
the HTTPS socket's number is never appended (`OnlyConnections`); and a slot
without a connection has no `mysql` (`Fresh`), which is what lets `init` clear
it without the pool losing anything.

`AnswersUseUpConnections` is proved by counting: a worker that enters
`process()` takes one off the free list, if there is one, and `Spent` goes up
by one; an answer moves a worker from `Processing` to `served`, which keeps the
sum, since a slot is answered once; and `release_connection` gets NULL.

### Exchange

`HttpExchange_proofs`, for any requests and targets, buffer, number of attempts,
lengths of head, file and records, under `ExchangeAssumption` (lines in order
with a blank one last; the sizes are positive; a record holds the head:
16384 against 1024 bytes):

| theorem | statement |
|---|---|
| `TypeCorrect` | `Spec => []TypeOK` |
| `PageNeedsWholeRequestHolds` | `Spec => []PageNeedsWholeRequest` |
| `RefusedForItsTailHolds` | `Spec => []RefusedForItsTail` |
| `AnswerIsWholeHolds` | `Spec => []AnswerIsWhole` |
| `NeverSpinsHolds` | `Spec => []NeverSpins` |

The invariant has a part for each stage. `Reading`: `m_read_idx` runs behind the
bytes received by one for each EAGAIN but the last, wherever they were put, and
those in place are no more than those received, and all of them before a piece
was put over another. `Judged`: where the head can be followed the result is the
one of the buffer as it still is; when the head is in place that needs no more
than the index. `Sending`: what was sent is the beginning of
the response and, unless the last `writev` took a part, what `m_iv` gathers is
the rest. `Encrypting`: to an HTTPS client, what SSL has encrypted is the
beginning of the response, and `m_iv` points elsewhere only for a head that is
in a record already, which is why a record must hold the head. `Supplied`, for
`NeverSpins`: while a worker goes on writing a piece of `m_iv` has a byte in it,
and to an HTTP client what was sent and `bytes_to_send` make up the whole; a count that stayed above zero
with nothing left in `m_iv` would make `write_to_fd_` loop on a `writev` of
nothing, which is neither success nor an error.

### Log

`AsyncLog_proofs`, for any number of loggers, lines and midnights and any sizes,
under `LogAssumption` and `QueueAssumption`:

| theorem | statement |
|---|---|
| `TypeCorrect` | `Spec => []TypeOK` |
| `LogImplementsFifo` | `Spec => ImplementsFifo` |
| `FilesBoundedHolds` | `Spec => []FilesBounded` |
| `LineWrittenOnceHolds` | `Spec => []LineWrittenOnce` |
| `NoLostWakeupHolds` | `Spec => []NoLostWakeup` |
| `LinesInOrderHolds` | `Spec => []LinesInOrder` |

Every step of the log is one of `BQSpec` or leaves the queue alone, so the
queue's theorems hold here. `Holding` adds that the queue and the writer hold
lines and that no line is counted twice. `FilesBounded` needs `Filling`: what the
file in use has got since it was opened, the lines that loggers have counted and
not written, the queue and the writer's line stay together within what has been
counted for this file and `Late` and the counting logger's own line. `before`, the
lines the file had when it was opened, makes that a bound for a file that is
opened again too. `FlightBounded` bounds the lines on their way when a rotation
leaves them to the next file. For `LineWrittenOnce`, `Places(x)` is the set of all places where line
`x` is; each action that moves a line empties one place and fills another.
`LinesInOrder` is inductive relative to it: the line that a logger is about to
queue or write is in no place yet, and those of its own that are come before it
(`BegunBefore`).

### User registry

`UserRegistry_proofs`, for any number of workers, names and passwords, under
`RegistryAssumption` (`None` is no password):

| theorem | statement |
|---|---|
| `TypeCorrect` | `Spec => []TypeOK` |
| `MapMatchesTableHolds` | `Spec => []MapMatchesTable` |
| `ToldIsStoredHolds` | `Spec => []ToldIsStored` |
| `RegistryImplementsAccounts` | `Spec => ImplementsAccounts` |

`Fits(n)`, for the names that are not spoiled, says more than `MapMatchesTable`:
at most one worker is registering `n`, and until it has inserted the name the map
has none, and the rows that the process knows (`Known`) none before the INSERT
and its row after. A restart that loads keeps it because all rows are known then
(`AllKnown`); one that does not has nothing to match. `Asked` says that whatever
map, table and workers hold somebody asked for, and `Stored` that an INSERT which
succeeded is in the table. In the refinement a restart without a load is
`Forget`, every other step `Ask`, `Change` or `Tell`.

### Only model-checked

Liveness: `QueuedIsAnswered`, `QueuedIsWritten`, `ExchangeEnds` and the fairness
of `ImplementsWorkQueue`. Liveness under fairness is outside what the prover does
here.

## Not modelled

- Branches that the build does not compile (`CGISQLPOOL`, `CGISQL`), what is
  commented out (`handle_events`, `client_pool.cpp:147`), methods nothing calls (`BlockQueue::clear`, `front`, `back`,
  the `pop` with a timeout; the destructors of pools and lists), the socket
  helpers of `io/` (set-up and printing), `signal/connector.cpp`, and
  `sign.cpp`, a program for a branch that is not compiled.
- `main2.cpp` beyond that it loads the users, and the tests' programs beyond
  that one of them starts the server.
- MySQL, OpenSSL, epoll, sockets and signals themselves: they are actions of
  the environment, taken from how the code uses them.
- The text of the INSERT: a row is the name and the password of the form, while
  the code puts both into the statement as they came (`http_conn.cpp:506-514`), so
  that one with a quote makes another statement.
- Texts: header values other than the length and the connection, formatting of
  answers and of log lines. Lengths that are negative or do not fit an `int`.
- A wall clock that is set back: it would put a moved timer before its
  predecessors. The models' time does not go back.
- TLS beyond records and their repetition: a peer that renegotiates or sends
  malformed records, and a file too large for the stack that `SSL_writev` copies
  it to (`alloca`). `SSL_read` is taken to do what `recv` does.
- The process ending while the log's queue has lines, and a process that
  crashes in undefined behaviour: both end the behaviour.

## What is left

What the models leave out above is out of TLC's and the prover's reach or calls
for data the properties do not tell apart. Two things a change of the code would
ask for first: a `mod_fd` that arms connections again (then
`HandleInput` is no longer the only appender of a handler, and
`Busyness` must be argued anew; the mutant `AnswerAndLinger_Rearm` shows that to
arm at the end of `process()` is too early, as `run` then still reads the
handler's `mysql`), and an alarm pipe that is drained.
