----------------------------- MODULE Server_proofs -----------------------------
(***************************************************************************)
(* Proofs about Server, for any number of workers, descriptors and users,  *)
(* any bound of the request list and any lifetime of a timer; and, in the  *)
(* second part, about ServerPool, for any number of database connections   *)
(* that suffices for the workers.  What is said of Spec rests on           *)
(* ServerAssumption alone.                                                 *)
(***************************************************************************)
EXTENDS ServerPool, TimerOrder_proofs, FiniteSetTheorems

(* What is registered is open, and a handshake holds a descriptor of its   *)
(* own while the HTTPS socket is up.                                       *)
Descriptors ==
    /\ Registered \subseteq open
    /\ handshaking # NULL => /\ handshaking \in (open \cap ConnFds) \ Registered
                             /\ HttpsUp

(* What waits to be handled: a connection's event has spent its            *)
(* registration, and a listening socket's has a connection behind it.      *)
Reports ==
    /\ \A f \in ConnFds, what \in {"in", "hup"} :
           <<f, what>> \in events => interest[f] = "spent"
    /\ <<ListenFd, "in">> \in events => backlog[ListenFd] > 0
    /\ HttpsUp => /\ <<SslFd, "in">> \in events => backlog[SslFd] > 0
                  /\ <<SslFd, "hup">> \notin events

Queued(f) == \E i \in 1..Len(waiting) : waiting[i] = f
Taken(f)  == \E w \in Workers : running[w] = f

(* The pool is busy with a connection only after its event was handled.    *)
Busyness ==
    alive => \A f \in ConnFds :
        interest[f] # "spent" \/ <<f, "in">> \in events => ~Queued(f) /\ ~Taken(f)

(* NoRequestLost, with the length of the list for its domain.              *)
Accounted ==
    alive => \A f \in ConnFds :
        interest[f] = "spent" =>
            \/ f \in served \cup refused
            \/ <<f, "in">> \in events \/ <<f, "hup">> \in events
            \/ Queued(f) \/ Taken(f)

IInv == TypeOK /\ Descriptors /\ Reports /\ NoTwins(timer_lst) /\ TimersMatchUsers

-------------------------------------------------------------------------------
(* Numbers and the timer list.                                             *)

(* The descriptors are numbers, each for one purpose.                      *)
LEMMA Numbers == /\ ConnFds \subseteq Slots /\ Slots \subseteq Nat
                 /\ SslFd \in Slots
                 /\ {SslFd, ListenFd, AlarmFd, IntFd} \cap ConnFds = {}
                 /\ SslFd # ListenFd /\ SslFd # AlarmFd /\ SslFd # IntFd
                 /\ IsFiniteSet(Slots)
<1>1. FirstFd \in Int /\ LastFd \in Int
    BY ServerAssumption DEF FirstFd
<1>2. IsFiniteSet(ConnFds) /\ IsFiniteSet({SslFd})
    BY <1>1, FS_Interval, FS_Singleton DEF ConnFds
<1>3. IsFiniteSet(Slots)
    BY <1>2, FS_Union DEF Slots
<1> QED BY <1>3, ServerAssumption
        DEF ConnFds, Slots, SslFd, ListenFd, AlarmFd, IntFd, FirstFd

(* A new descriptor is free, and no number of a listening socket.          *)
LEMMA NextIsFree == FreeFds # {} => NextFd \in Slots \ open
<1> SUFFICES ASSUME FreeFds # {} PROVE NextFd \in FreeFds
    BY DEF FreeFds
<1>1. FreeFds \in SUBSET Nat
    BY Numbers DEF FreeFds
<1>2. \E m \in FreeFds : \A k \in FreeFds : m <= k
    BY <1>1, LeastExists
<1> QED BY <1>2, Zenon DEF NextFd, Min

(* One slot of time less, but none less than none.                         *)
LEMMA OneLess ==
    ASSUME NEW n \in 0..Lifetime
    PROVE  Max({0, n - 1}) = IF n = 0 THEN 0 ELSE n - 1
<1> DEFINE m == IF n = 0 THEN 0 ELSE n - 1
<1>1. n \in Int
    BY ServerAssumption
<1>2. m \in {0, n - 1} /\ \A y \in {0, n - 1} : m >= y
    BY <1>1
<1>3. \A x \in {0, n - 1} : (\A y \in {0, n - 1} : x >= y) => x = m
    BY <1>1
<1> HIDE DEF m
<1>4. Max({0, n - 1}) = m
    BY <1>2, <1>3 DEF Max
<1> QED BY <1>4 DEF m

Lifetimes == 0..Lifetime

(* TypeOK says that the list is one of entries.                            *)
LEMMA ListType == TypeOK => timer_lst \in Seq(Entries(Slots, Lifetimes))
BY DEF TypeOK, Entries, Lifetimes

(* An entry set to the full lifetime.                                      *)
LEMMA FullEntry ==
    /\ Lifetimes \in SUBSET Nat
    /\ \A f \in Slots : /\ Entry(f, Lifetime) \in Entries(Slots, Lifetimes)
                        /\ Entry(f, Lifetime).timer = f
BY ServerAssumption DEF Entry, Entries, Lifetimes

(* A new user has one timer, in its place.                                 *)
LEMMA InitUserTimers ==
    ASSUME TypeOK, NoTwins(timer_lst), TimersMatchUsers,
           NEW fd \in Slots \ Registered, InitUser(fd), ~Busy
    PROVE  /\ timer_lst' \in Seq([timer : Slots, expire : 0..Lifetime])
           /\ m_user_count' \in 0..MaxUsers
           /\ interest' \in [Slots -> {"none", "armed", "spent"}]
           /\ input' \in [Slots -> SUBSET {"data", "end"}]
           /\ Registered' = Registered \cup {fd}
           /\ NoTwins(timer_lst')
           /\ TimersMatchUsers'
<1> DEFINE q == timer_lst
           x == Entry(fd, Lifetime)
<1>1. q \in Seq(Entries(Slots, Lifetimes)) /\ x \in Entries(Slots, Lifetimes)
      /\ x.timer = fd /\ Lifetimes \in SUBSET Nat
    BY ListType, FullEntry
<1>2. timer_lst' = Insert(q, x) /\ x.timer \notin TimersOf(q)
    BY <1>1 DEF InitUser, TimersMatchUsers
<1>3. /\ Insert(q, x) \in Seq(Entries(Slots, Lifetimes))
      /\ Len(Insert(q, x)) = Len(q) + 1
    BY <1>1, InsertElements
<1>4. InExpiryOrder(Insert(q, x))
    BY <1>1, InsertOrder DEF TimersMatchUsers
<1>5. /\ TimersOf(Insert(q, x)) = TimersOf(q) \cup {fd}
      /\ NoTwins(Insert(q, x))
    BY <1>1, <1>2, InsertTimers
<1>6. Registered' = Registered \cup {fd}
    BY DEF InitUser, Registered, TypeOK
<1>7. IsFiniteSet(Registered)
    BY Numbers, FS_Subset DEF Registered
<1>8. Cardinality(Registered') = Cardinality(Registered) + 1
    BY <1>6, <1>7, FS_AddElement
<1>9. m_user_count' \in 0..MaxUsers
    BY ServerAssumption DEF InitUser, Busy, TypeOK
<1>10. timer_lst' \in Seq([timer : Slots, expire : 0..Lifetime])
    BY <1>2, <1>3 DEF Entries, Lifetimes
<1>11. TimersMatchUsers'
    BY <1>2, <1>3, <1>4, <1>5, <1>6, <1>8 DEF TimersMatchUsers, InitUser
<1> QED BY <1>2, <1>5, <1>6, <1>9, <1>10, <1>11 DEF InitUser, TypeOK

(* A timer that is moved is the same among the same, at the end of time.   *)
LEMMA MovedTimers ==
    ASSUME TypeOK, NoTwins(timer_lst), TimersMatchUsers, NEW f \in Registered,
           timer_lst' = Insert(Without(timer_lst, f), Entry(f, Lifetime)),
           UNCHANGED <<m_user_count, interest>>
    PROVE  /\ timer_lst' \in Seq([timer : Slots, expire : 0..Lifetime])
           /\ NoTwins(timer_lst')
           /\ TimersMatchUsers'
<1> DEFINE q == timer_lst
           r == Without(timer_lst, f)
           x == Entry(f, Lifetime)
<1>1. q \in Seq(Entries(Slots, Lifetimes)) /\ x \in Entries(Slots, Lifetimes)
      /\ x.timer = f /\ Lifetimes \in SUBSET Nat /\ f \in TimersOf(q)
    BY ListType, FullEntry DEF Registered, TimersMatchUsers
<1>2. r \in Seq(Entries(Slots, Lifetimes)) /\ Len(r) = Len(q) - 1
    BY <1>1, WithoutElements
<1>3. InExpiryOrder(r) /\ NoTwins(r) /\ TimersOf(r) = TimersOf(q) \ {f}
    BY <1>1, WithoutTimer DEF TimersMatchUsers
<1> HIDE DEF r
<1>4. /\ Insert(r, x) \in Seq(Entries(Slots, Lifetimes))
      /\ Len(Insert(r, x)) = Len(r) + 1
    BY <1>1, <1>2, InsertElements
<1>5. InExpiryOrder(Insert(r, x))
    BY <1>1, <1>2, <1>3, InsertOrder
<1>6. TimersOf(Insert(r, x)) = TimersOf(r) \cup {f} /\ NoTwins(Insert(r, x))
    BY <1>1, <1>2, <1>3, InsertTimers
<1>7. timer_lst' = Insert(r, x)
    BY DEF r
<1>8. timer_lst' \in Seq([timer : Slots, expire : 0..Lifetime])
    BY <1>4, <1>7 DEF Entries, Lifetimes
<1>9. Registered' = Registered
    BY DEF Registered
<1>10. Len(timer_lst') = Len(timer_lst)
    BY <1>1, <1>2, <1>4, <1>7, LenProperties
<1>11. TimersMatchUsers'
    BY <1>1, <1>3, <1>5, <1>6, <1>7, <1>9, <1>10 DEF TimersMatchUsers
<1> QED BY <1>6, <1>7, <1>8, <1>11

(* Time that goes by does not change the order.                            *)
LEMMA AgedTimers ==
    ASSUME TypeOK, NoTwins(timer_lst), TimersMatchUsers, TimePasses
    PROVE  /\ timer_lst' \in Seq([timer : Slots, expire : 0..Lifetime])
           /\ NoTwins(timer_lst')
           /\ TimersMatchUsers'
<1> DEFINE q == timer_lst
<1>1. /\ q \in Seq([timer : Slots, expire : 0..Lifetime])
      /\ DOMAIN q = 1..Len(q) /\ Len(q) \in Nat
    BY LenProperties DEF TypeOK
<1>2. \A i \in 1..Len(q) : /\ q[i].timer \in Slots /\ q[i].expire \in 0..Lifetime
                           /\ q[i] = [timer |-> q[i].timer, expire |-> q[i].expire]
  <2> TAKE i \in 1..Len(q)
  <2>1. q[i] \in [timer : Slots, expire : 0..Lifetime]
      BY <1>1, ElementOfSeq
  <2> QED BY <2>1
<1> DEFINE less == [n \in Nat |-> IF n = 0 THEN 0 ELSE n - 1]
<1>3. /\ \A n \in 0..Lifetime : n \in Nat /\ less[n] \in 0..Lifetime
      /\ \A m, n \in Nat : m <= n => less[m] <= less[n]
      /\ \A n \in 0..Lifetime : Max({0, n - 1}) = less[n]
    BY OneLess, ServerAssumption
<1> HIDE DEF less
<1>4. \A i \in 1..Len(q) :
          timer_lst'[i] = [timer |-> q[i].timer, expire |-> less[q[i].expire]]
  <2> TAKE i \in 1..Len(q)
  <2>1. timer_lst'[i] = [q[i] EXCEPT !.expire = Max({0, q[i].expire - 1})]
      BY <1>1 DEF TimePasses
  <2>2. Max({0, q[i].expire - 1}) = less[q[i].expire]
      BY <1>2, <1>3
  <2> QED BY <1>2, <2>1, <2>2
<1>5. \A i \in 1..Len(q) : /\ timer_lst'[i].timer = q[i].timer
                           /\ timer_lst'[i].expire = less[q[i].expire]
                           /\ timer_lst'[i] \in [timer : Slots, expire : 0..Lifetime]
  <2> TAKE i \in 1..Len(q)
  <2>1. less[q[i].expire] \in 0..Lifetime
      BY <1>2, <1>3
  <2>2. q[i].timer \in Slots
      BY <1>2
  <2>3. timer_lst'[i] = [timer |-> q[i].timer, expire |-> less[q[i].expire]]
      BY <1>4
  <2> QED BY <2>1, <2>2, <2>3
<1>6. timer_lst' \in Seq([timer : Slots, expire : 0..Lifetime]) /\ Len(timer_lst') = Len(q)
  <2> DEFINE Aged(i) == timer_lst'[i]
  <2>1. timer_lst' = [i \in 1..Len(q) |-> Aged(i)]
      BY <1>1 DEF TimePasses
  <2>2. \A i \in 1..Len(q) : Aged(i) \in [timer : Slots, expire : 0..Lifetime]
      BY <1>5
  <2> HIDE DEF Aged
  <2>3. [i \in 1..Len(q) |-> Aged(i)] \in Seq([timer : Slots, expire : 0..Lifetime])
      BY <1>1, <2>2, IsASeq
  <2>4. Len(timer_lst') = Len(q)
      BY <1>1, <2>1, <2>3, LenProperties
  <2> QED BY <2>1, <2>3, <2>4
<1>7. InExpiryOrder(timer_lst')
  <2> SUFFICES ASSUME NEW i \in 1..Len(q), NEW j \in 1..Len(q), i < j
               PROVE  timer_lst'[i].expire <= timer_lst'[j].expire
      BY <1>6 DEF InExpiryOrder
  <2>1. q[i].expire <= q[j].expire
      BY DEF TimersMatchUsers, InExpiryOrder
  <2>2. /\ q[i].expire \in Nat /\ q[j].expire \in Nat
        /\ timer_lst'[i].expire = less[q[i].expire]
        /\ timer_lst'[j].expire = less[q[j].expire]
      BY <1>2, <1>3, <1>5
  <2> QED BY <1>3, <2>1, <2>2
<1>8. NoTwins(timer_lst')
    BY <1>5, <1>6 DEF NoTwins
<1>9. TimersOf(timer_lst') = TimersOf(q)
    BY <1>5, <1>6 DEF TimersOf
<1>10. Registered' = Registered /\ m_user_count' = m_user_count
    BY DEF TimePasses, sockVars, Registered
<1> QED BY <1>6, <1>7, <1>8, <1>9, <1>10 DEF TimersMatchUsers

-------------------------------------------------------------------------------
(* Types, descriptors, events and timers.                                  *)

(* They are as they were when nobody touches them.                         *)
LEMMA SameTimers ==
    ASSUME NoTwins(timer_lst), TimersMatchUsers,
           UNCHANGED <<timer_lst, m_user_count, interest>>
    PROVE  NoTwins(timer_lst') /\ TimersMatchUsers' /\ Registered' = Registered
BY DEF TimersMatchUsers, Registered

(* The constructor.                                                        *)
LEMMA SafeInit == Init => IInv
<1> SUFFICES ASSUME Init PROVE IInv
    OBVIOUS
<1>1. Registered = {}
    BY DEF Init, Registered
<1>2. TypeOK
    BY Numbers, ServerAssumption DEF Init, TypeOK, Queue!Init
<1>3. Descriptors /\ Reports
    BY <1>1, ServerAssumption DEF Init, Descriptors, Reports
<1>4. NoTwins(timer_lst) /\ TimersMatchUsers
    BY <1>1, FS_EmptySet DEF Init, NoTwins, TimersMatchUsers, TimersOf, InExpiryOrder
<1> QED BY <1>2, <1>3, <1>4 DEF IInv

(* The end of the process leaves nothing.                                  *)
LEMMA SafeExit == TypeOK /\ Exit => IInv'
<1> SUFFICES ASSUME TypeOK, Exit PROVE IInv'
    OBVIOUS
<1>1. Registered' = {}
    BY DEF Exit, Registered
<1>2. TypeOK'
  <2>1. /\ m_user_count' \in 0..MaxUsers /\ alarm_bytes' \in 0..PipeCap
        /\ backlog' \in [Listeners -> 0..Backlog]
      BY ServerAssumption DEF Exit
  <2>2. /\ timer_lst' \in Seq([timer : Slots, expire : 0..Lifetime])
        /\ interest' \in [Slots -> {"none", "armed", "spent"}]
        /\ input' \in [Slots -> SUBSET {"data", "end"}]
      BY DEF Exit
  <2> QED BY <2>1, <2>2 DEF Exit, TypeOK, queueVars
<1>3. Descriptors' /\ Reports'
    BY <1>1 DEF Exit, Descriptors, Reports, HttpsUp
<1>4. NoTwins(timer_lst') /\ TimersMatchUsers'
    BY <1>1, FS_EmptySet DEF Exit, NoTwins, TimersMatchUsers, TimersOf, InExpiryOrder
<1> QED BY <1>2, <1>3, <1>4 DEF IInv

(* Clients, time and signals.                                              *)
LEMMA SafeEnvironment ==
    ASSUME IInv,
           \/ \E l \in Listeners : Connect(l)
           \/ \E f \in Slots, what \in Sends : Arrive(f, what)
           \/ TimePasses \/ Sigterm \/ Sigalrm
    PROVE  IInv'
<1> USE DEF queueVars, loopVars, userVars, sockVars, sigVars, histVars
<1>1. ASSUME NEW l \in Listeners, Connect(l)
      PROVE  IInv'
  <2>1. TypeOK'
      BY <1>1, ServerAssumption DEF Connect, IInv, TypeOK
  <2>2. NoTwins(timer_lst') /\ TimersMatchUsers' /\ Registered' = Registered
      BY <1>1, SameTimers DEF Connect, IInv
  <2>3. Descriptors' /\ Reports'
    <3>1. HttpsUp' = HttpsUp
        BY <1>1, <2>2 DEF Connect, HttpsUp
    <3>2. \A k \in Listeners : backlog[k] > 0 => backlog'[k] > 0
        BY <1>1 DEF Connect, IInv, TypeOK
    <3> QED BY <1>1, <2>2, <3>1, <3>2
            DEF Connect, IInv, Descriptors, Reports, Listeners
  <2> QED BY <2>1, <2>2, <2>3 DEF IInv
<1>2. ASSUME NEW f \in Slots, NEW what \in Sends, Arrive(f, what)
      PROVE  IInv'
  <2>1. TypeOK'
      BY <1>2, ServerAssumption DEF Arrive, IInv, TypeOK
  <2>2. NoTwins(timer_lst') /\ TimersMatchUsers' /\ Registered' = Registered
      BY <1>2, SameTimers DEF Arrive, IInv
  <2>3. Descriptors' /\ Reports'
      BY <1>2, <2>2 DEF Arrive, IInv, Descriptors, Reports, HttpsUp
  <2> QED BY <2>1, <2>2, <2>3 DEF IInv
<1>3. ASSUME TimePasses
      PROVE  IInv'
  <2>1. /\ timer_lst' \in Seq([timer : Slots, expire : 0..Lifetime])
        /\ NoTwins(timer_lst') /\ TimersMatchUsers'
      BY <1>3, AgedTimers DEF IInv
  <2>2. TypeOK'
      BY <1>3, <2>1 DEF TimePasses, IInv, TypeOK
  <2>3. Descriptors' /\ Reports'
      BY <1>3 DEF TimePasses, IInv, Descriptors, Reports, HttpsUp, Registered
  <2> QED BY <2>1, <2>2, <2>3 DEF IInv
<1>4. ASSUME Sigterm \/ Sigalrm
      PROVE  IInv'
  <2>1. TypeOK'
    <3>1. alarm_bytes' \in 0..PipeCap
        BY <1>4, ServerAssumption DEF Sigterm, Sigalrm, AlarmHandler, IInv, TypeOK
    <3>2. edges' \subseteq {AlarmFd, IntFd} /\ alarm_set' \in BOOLEAN
        BY <1>4 DEF Sigterm, Sigalrm, AlarmHandler, IInv, TypeOK
    <3> QED BY <1>4, <3>1, <3>2 DEF Sigterm, Sigalrm, IInv, TypeOK
  <2>2. NoTwins(timer_lst') /\ TimersMatchUsers' /\ Registered' = Registered
      BY <1>4, SameTimers DEF Sigterm, Sigalrm, IInv
  <2>3. Descriptors' /\ Reports'
      BY <1>4, <2>2 DEF Sigterm, Sigalrm, IInv, Descriptors, Reports, HttpsUp
  <2> QED BY <2>1, <2>2, <2>3 DEF IInv
<1> QED BY <1>1, <1>2, <1>3, <1>4

(* Waiting for events.                                                     *)
LEMMA SafeEpollWait == IInv /\ EpollWait => IInv'
<1> SUFFICES ASSUME IInv, EpollWait PROVE IInv'
    OBVIOUS
<1> USE DEF queueVars, loopVars, userVars, sockVars, sigVars, histVars
<1> DEFINE listening == {<<l, "in">> : l \in {k \in Listeners : backlog[k] > 0}}
           pipes == {<<p, "in">> : p \in edges}
           ready == {f \in Slots : EventsOf(f) # {}}
<1>1. PICK ev \in [ready -> Slots \X {"in", "hup"}] :
          /\ \A f \in ready : ev[f] \in EventsOf(f)
          /\ events' = listening \cup pipes \cup {ev[f] : f \in ready}
    BY DEF EpollWait
<1>2. \A f \in ready : /\ interest[f] = "armed"
                       /\ ev[f] \in {<<f, "in">>, <<f, "hup">>}
  <2> TAKE f \in ready
  <2>1. ev[f] \in EventsOf(f)
      BY <1>1
  <2> QED BY <2>1 DEF EventsOf
<1>3. interest' = [f \in Slots |-> IF f \in ready THEN "spent" ELSE interest[f]]
    BY DEF EpollWait
<1> HIDE DEF ready
<1>4. Registered' = Registered
    BY <1>2, <1>3 DEF Registered, ready
<1>5. TypeOK'
  <2>1. events' \subseteq (Slots \cup {ListenFd, AlarmFd, IntFd}) \X {"in", "hup"}
      BY <1>1, Numbers DEF IInv, TypeOK, Listeners
  <2>2. interest' \in [Slots -> {"none", "armed", "spent"}]
      BY <1>3 DEF IInv, TypeOK
  <2> QED BY <2>1, <2>2 DEF EpollWait, IInv, TypeOK
<1>6. NoTwins(timer_lst') /\ TimersMatchUsers'
    BY <1>4 DEF EpollWait, IInv, TimersMatchUsers
<1>7. Descriptors'
    BY <1>4 DEF EpollWait, IInv, Descriptors, HttpsUp
<1>8. Reports'
  <2>1. \A f, what : <<f, what>> \in events' =>
            \/ f \in Listeners /\ what = "in" /\ backlog[f] > 0
            \/ f \in {AlarmFd, IntFd}
            \/ f \in ready
    <3> SUFFICES ASSUME NEW f, NEW what, <<f, what>> \in events'
                 PROVE  \/ f \in Listeners /\ what = "in" /\ backlog[f] > 0
                        \/ f \in {AlarmFd, IntFd}
                        \/ f \in ready
        OBVIOUS
    <3>1. CASE <<f, what>> \in listening
        BY <3>1
    <3>2. CASE <<f, what>> \in pipes
        BY <3>2 DEF IInv, TypeOK
    <3>3. CASE <<f, what>> \in {ev[g] : g \in ready}
      <4>1. PICK g \in ready : <<f, what>> = ev[g]
          BY <3>3
      <4> QED BY <4>1, <1>2
    <3> QED BY <1>1, <3>1, <3>2, <3>3
  <2>2. \A f \in ready : f \in Slots /\ f \in Registered
      BY <1>2 DEF Registered, ready
  <2>3. \A f \in ConnFds, what \in {"in", "hup"} :
            <<f, what>> \in events' => interest'[f] = "spent"
      BY <1>3, <2>1, Numbers DEF Listeners
  <2>4. <<ListenFd, "in">> \in events' => backlog[ListenFd] > 0
    <3>1. ListenFd \notin ready
        BY Numbers DEF ready, Slots, SslFd, ListenFd, ConnFds
    <3> QED BY <2>1, <3>1 DEF ListenFd, AlarmFd, IntFd
  <2>5. HttpsUp => /\ <<SslFd, "in">> \in events' => backlog[SslFd] > 0
                   /\ <<SslFd, "hup">> \notin events'
    <3>1. HttpsUp => SslFd \notin ready
        BY <2>2 DEF HttpsUp
    <3> QED BY <2>1, <3>1 DEF SslFd, AlarmFd, IntFd
  <2>6. HttpsUp' = HttpsUp /\ backlog' = backlog
      BY <1>4 DEF EpollWait, HttpsUp
  <2> QED BY <2>3, <2>4, <2>5, <2>6 DEF Reports
<1> QED BY <1>5, <1>6, <1>7, <1>8 DEF IInv

(* A client is accepted, refused, or finds no descriptor.                  *)
LEMMA SafeAddClient == IInv /\ AddClient => IInv'
<1> SUFFICES ASSUME IInv, AddClient PROVE IInv'
    OBVIOUS
<1> USE DEF queueVars, loopVars, userVars, sockVars, sigVars, histVars
<1>1. /\ handshaking = NULL /\ handshaking' = NULL
      /\ <<ListenFd, "in">> \in events /\ events' = events \ {<<ListenFd, "in">>}
    BY DEF AddClient, Handle, Reached, AtLoop
<1>2. /\ backlog' \in [Listeners -> 0..Backlog]
      /\ backlog'[SslFd] = backlog[SslFd]
  <2>1. backlog[ListenFd] > 0 /\ backlog \in [Listeners -> 0..Backlog]
      BY <1>1 DEF IInv, TypeOK, Reports
  <2>2. backlog' \in {backlog, [backlog EXCEPT ![ListenFd] = @ - 1]}
      BY DEF AddClient
  <2> QED BY <2>1, <2>2, Numbers, ServerAssumption DEF Listeners
<1>3. events' \subseteq (Slots \cup {ListenFd, AlarmFd, IntFd}) \X {"in", "hup"}
    BY <1>1 DEF IInv, TypeOK
<1>4. CASE UNCHANGED <<open, userVars, interest, input>>
  <2>1. TypeOK'
      BY <1>1, <1>2, <1>3, <1>4 DEF AddClient, IInv, TypeOK
  <2>2. NoTwins(timer_lst') /\ TimersMatchUsers' /\ Registered' = Registered
      BY <1>4, SameTimers DEF IInv
  <2>3. Descriptors' /\ Reports'
      BY <1>1, <1>2, <1>4, <2>2 DEF IInv, Descriptors, Reports, HttpsUp
  <2> QED BY <2>1, <2>2, <2>3 DEF IInv
<1>5. CASE FreeFds # {} /\ ~Busy /\ open' = open \cup {NextFd} /\ InitUser(NextFd)
  <2>1. NextFd \in Slots \ open /\ NextFd \in Slots \ Registered
      BY <1>5, NextIsFree DEF IInv, Descriptors
  <2>2. /\ timer_lst' \in Seq([timer : Slots, expire : 0..Lifetime])
        /\ m_user_count' \in 0..MaxUsers
        /\ interest' \in [Slots -> {"none", "armed", "spent"}]
        /\ input' \in [Slots -> SUBSET {"data", "end"}]
        /\ Registered' = Registered \cup {NextFd}
        /\ NoTwins(timer_lst')
        /\ TimersMatchUsers'
      BY <1>5, <2>1, InitUserTimers DEF IInv
  <2>3. TypeOK'
      BY <1>1, <1>2, <1>3, <1>5, <2>1, <2>2 DEF AddClient, IInv, TypeOK
  <2>4. Descriptors'
      BY <1>1, <1>5, <2>1, <2>2 DEF IInv, Descriptors
  <2>5. \A f \in Slots : interest[f] = "spent" => interest'[f] = "spent"
      BY <1>5, <2>1 DEF InitUser, Registered, IInv, TypeOK
  <2>6. HttpsUp' => HttpsUp
      BY <1>5, <2>1, <2>2 DEF HttpsUp
  <2>7. Reports'
      BY <1>1, <1>2, <2>5, <2>6, Numbers DEF IInv, Reports
  <2> QED BY <2>2, <2>3, <2>4, <2>7 DEF IInv
<1> QED BY <1>4, <1>5 DEF AddClient

(* A handshake begins, or accept fails.                                    *)
LEMMA SafeAcceptHttps == IInv /\ AcceptHttps => IInv'
<1> SUFFICES ASSUME IInv, AcceptHttps PROVE IInv'
    OBVIOUS
<1> USE DEF queueVars, loopVars, userVars, sockVars, sigVars, histVars
<1>1. PICK ev \in {<<SslFd, "in">>, <<SslFd, "hup">>} : Handle(ev)
    BY DEF AcceptHttps
<1>2. handshaking = NULL /\ ev \in events /\ events' = events \ {ev}
    BY <1>1 DEF Handle, Reached, AtLoop
<1>3. NoTwins(timer_lst') /\ TimersMatchUsers' /\ Registered' = Registered
    BY SameTimers DEF IInv, AcceptHttps
<1>4. events' \subseteq (Slots \cup {ListenFd, AlarmFd, IntFd}) \X {"in", "hup"}
    BY <1>2 DEF IInv, TypeOK
<1>5. CASE HttpsUp /\ FreeFds # {}
  <2>1. NextFd \in Slots \ open /\ NextFd \in ConnFds
      BY <1>5, NextIsFree DEF HttpsUp, Slots
  <2>2. ev = <<SslFd, "in">> /\ backlog[SslFd] > 0
      BY <1>2, <1>5 DEF IInv, Reports
  <2>3. /\ backlog' = [backlog EXCEPT ![SslFd] = @ - 1]
        /\ open' = open \cup {NextFd} /\ handshaking' = NextFd
        /\ UNCHANGED interest
      BY <1>5 DEF AcceptHttps
  <2>4. /\ backlog' \in [Listeners -> 0..Backlog]
        /\ backlog'[ListenFd] = backlog[ListenFd]
      BY SMTT(30), <2>2, <2>3, Numbers, ServerAssumption DEF IInv, TypeOK, Listeners
  <2>5. TypeOK'
      BY <1>4, <2>1, <2>3, <2>4 DEF AcceptHttps, IInv, TypeOK
  <2>6. NextFd \notin Registered
      BY <2>1 DEF IInv, Descriptors
  <2>7. HttpsUp'
      BY <1>3, <1>5, <2>3 DEF HttpsUp
  <2>8. Descriptors'
      BY <1>3, <2>1, <2>3, <2>6, <2>7 DEF IInv, Descriptors
  <2>9. Reports'
      BY <1>2, <1>5, <2>2, <2>3, <2>4 DEF IInv, Reports
  <2> QED BY <1>3, <2>5, <2>8, <2>9 DEF IInv
<1>6. CASE ~(HttpsUp /\ FreeFds # {})
  <2>1. UNCHANGED <<backlog, open, handshaking, interest>>
      BY <1>6 DEF AcceptHttps
  <2>2. TypeOK'
      BY <1>4, <2>1 DEF AcceptHttps, IInv, TypeOK
  <2>3. Descriptors' /\ Reports'
      BY <1>2, <1>3, <2>1 DEF IInv, Descriptors, Reports, HttpsUp
  <2> QED BY <1>3, <2>2, <2>3 DEF IInv
<1> QED BY <1>5, <1>6

(* It succeeds, or fails and takes the HTTPS socket with it.               *)
LEMMA SafeHandshake ==
    ASSUME IInv, HandshakeDone \/ HandshakeFails \/ SigalrmOnHandshake
    PROVE  IInv'
<1> USE DEF queueVars, loopVars, userVars, sockVars, sigVars, histVars
<1>1. ASSUME HandshakeDone
      PROVE  IInv'
  <2>1. /\ handshaking \in (open \cap ConnFds) \ Registered /\ handshaking \in Slots
        /\ handshaking' = NULL /\ HttpsUp /\ handshaking # SslFd
        /\ UNCHANGED <<events, backlog>>
      BY <1>1, Numbers DEF HandshakeDone, IInv, Descriptors
  <2>2. CASE open' = open \ {handshaking} /\ UNCHANGED <<userVars, interest, input>>
    <3>1. NoTwins(timer_lst') /\ TimersMatchUsers' /\ Registered' = Registered
        BY <2>2, SameTimers DEF IInv
    <3>2. TypeOK'
        BY <1>1, <2>1, <2>2 DEF HandshakeDone, IInv, TypeOK
    <3>3. Descriptors' /\ Reports'
        BY <2>1, <2>2, <3>1 DEF IInv, Descriptors, Reports, HttpsUp
    <3> QED BY <3>1, <3>2, <3>3 DEF IInv
  <2>3. CASE ~Busy /\ InitUser(handshaking) /\ UNCHANGED open
    <3>1. /\ timer_lst' \in Seq([timer : Slots, expire : 0..Lifetime])
          /\ m_user_count' \in 0..MaxUsers
          /\ interest' \in [Slots -> {"none", "armed", "spent"}]
          /\ input' \in [Slots -> SUBSET {"data", "end"}]
          /\ Registered' = Registered \cup {handshaking}
          /\ NoTwins(timer_lst')
          /\ TimersMatchUsers'
        BY <2>1, <2>3, InitUserTimers DEF IInv
    <3>2. TypeOK'
        BY <1>1, <2>1, <2>3, <3>1 DEF HandshakeDone, IInv, TypeOK
    <3>3. \A f \in Slots : interest[f] = "spent" => interest'[f] = "spent"
        BY <2>1, <2>3 DEF InitUser, Registered, IInv, TypeOK
    <3>4. Descriptors'
        BY <2>1, <2>3, <3>1 DEF IInv, Descriptors
    <3>5. Reports'
        BY <2>1, <2>3, <3>3, Numbers DEF IInv, Reports
    <3> QED BY <3>1, <3>2, <3>4, <3>5 DEF IInv
  <2> QED BY <1>1, <2>2, <2>3 DEF HandshakeDone
<1>2. ASSUME HandshakeFails \/ SigalrmOnHandshake
      PROVE  IInv'
  <2>1. handshaking # NULL /\ CloseHttps
      BY <1>2 DEF HandshakeFails, SigalrmOnHandshake
  <2>2. NoTwins(timer_lst') /\ TimersMatchUsers' /\ Registered' = Registered
      BY <2>1, SameTimers DEF CloseHttps, IInv
  <2>3. alarm_set' \in BOOLEAN /\ edges' \subseteq {AlarmFd, IntFd}
      BY <1>2 DEF HandshakeFails, SigalrmOnHandshake, AlarmHandler, IInv, TypeOK
  <2>4. alarm_bytes' \in 0..PipeCap
      BY <1>2, ServerAssumption
         DEF HandshakeFails, SigalrmOnHandshake, AlarmHandler, IInv, TypeOK
  <2>5. /\ backlog' \in [Listeners -> 0..Backlog]
        /\ backlog'[ListenFd] = backlog[ListenFd]
      BY <2>1, Numbers, ServerAssumption DEF CloseHttps, IInv, TypeOK, Listeners
  <2>6. TypeOK'
      BY <2>1, <2>3, <2>4, <2>5 DEF CloseHttps, IInv, TypeOK
  <2>7. SslFd \notin Registered /\ ~HttpsUp'
      BY <2>1, <2>2 DEF CloseHttps, HttpsUp, IInv, Descriptors
  <2>8. Descriptors' /\ Reports'
      BY <2>1, <2>2, <2>5, <2>7 DEF CloseHttps, IInv, Descriptors, Reports
  <2> QED BY <2>2, <2>6, <2>8 DEF IInv
<1> QED BY <1>1, <1>2

(* The other events.                                                       *)
LEMMA SafeHandle ==
    ASSUME IInv, HandleAlarm \/ HandleInt \/ \E f \in ConnFds : HandleInput(f)
    PROVE  IInv'
<1> USE DEF queueVars, loopVars, userVars, sockVars, sigVars, histVars
<1>1. ASSUME HandleAlarm \/ HandleInt
      PROVE  IInv'
  <2>1. events' \subseteq events
      BY <1>1 DEF HandleAlarm, HandleInt, Handle
  <2>2. NoTwins(timer_lst') /\ TimersMatchUsers' /\ Registered' = Registered
      BY <1>1, SameTimers DEF HandleAlarm, HandleInt, IInv
  <2>3. TypeOK'
      BY <1>1, <2>1 DEF HandleAlarm, HandleInt, IInv, TypeOK
  <2>4. Descriptors' /\ Reports'
      BY <1>1, <2>1, <2>2 DEF HandleAlarm, HandleInt, IInv, Descriptors, Reports, HttpsUp
  <2> QED BY <2>2, <2>3, <2>4 DEF IInv
<1>2. ASSUME NEW f \in ConnFds, HandleInput(f)
      PROVE  IInv'
  <2>1. <<f, "in">> \in events /\ events' \subseteq events /\ f \in Slots
      BY <1>2, Numbers DEF HandleInput, Handle, Reached
  <2>2. f \in Registered
      BY <2>1 DEF IInv, Reports, Registered
  <2>3. /\ timer_lst' \in Seq([timer : Slots, expire : 0..Lifetime])
        /\ NoTwins(timer_lst')
        /\ TimersMatchUsers'
      BY <1>2, <2>2, MovedTimers DEF HandleInput, IInv
  <2>4. waiting' \in Seq(Slots) /\ refused' \subseteq Slots
    <3>1. Append(waiting, f) \in Seq(Slots)
        BY <2>1, AppendProperties DEF IInv, TypeOK
    <3>2. waiting' \in {waiting, Append(waiting, f)} /\ refused' \in {refused, refused \cup {f}}
        BY <1>2 DEF HandleInput
    <3> QED BY <2>1, <3>1, <3>2 DEF IInv, TypeOK
  <2>5. TypeOK'
      BY <1>2, <2>1, <2>3, <2>4 DEF HandleInput, IInv, TypeOK
  <2>6. Descriptors' /\ Reports'
      BY <1>2, <2>1 DEF HandleInput, IInv, Descriptors, Reports, HttpsUp, Registered
  <2> QED BY <2>3, <2>5, <2>6 DEF IInv
<1> QED BY <1>1, <1>2

(* The workers.                                                            *)
LEMMA SafeWorkers ==
    ASSUME IInv,
           \E w \in Workers : TakeRequest(w) \/ ReadRequest(w) \/ AnswerAndLinger(w)
    PROVE  IInv'
<1> USE DEF queueVars, loopVars, userVars, sockVars, sigVars, histVars
<1>1. /\ NoTwins(timer_lst') /\ TimersMatchUsers' /\ Registered' = Registered
      /\ UNCHANGED <<alive, loopVars, userVars, open, interest, backlog, sigVars>>
  <2>1. UNCHANGED <<alive, loopVars, userVars, open, interest, backlog, sigVars>>
      BY DEF TakeRequest, ReadRequest, AnswerAndLinger
  <2> QED BY <2>1, SameTimers DEF IInv
<1>2. Descriptors' /\ Reports'
    BY <1>1 DEF IInv, Descriptors, Reports, HttpsUp
<1>3. ASSUME NEW w \in Workers, TakeRequest(w)
      PROVE  TypeOK'
  <2>1. Head(waiting) \in Slots /\ Tail(waiting) \in Seq(Slots)
      BY <1>3, HeadTailProperties DEF TakeRequest, Queue!Start, IInv, TypeOK
  <2> QED BY <1>1, <1>3, <2>1 DEF TakeRequest, Queue!Start, IInv, TypeOK
<1>4. ASSUME NEW w \in Workers, ReadRequest(w)
      PROVE  TypeOK'
    BY <1>1, <1>4 DEF ReadRequest, IInv, TypeOK
<1>5. ASSUME NEW w \in Workers, AnswerAndLinger(w)
      PROVE  TypeOK'
  <2>1. served' \subseteq Slots
      BY <1>5 DEF AnswerAndLinger, InProcess, IInv, TypeOK
  <2> QED BY <1>1, <1>5, <2>1 DEF AnswerAndLinger, Queue!Finish, IInv, TypeOK
<1> QED BY <1>1, <1>2, <1>3, <1>4, <1>5 DEF IInv

(* Every step keeps the descriptors, the events and the timers in order.   *)
LEMMA SafeStep == IInv /\ [Next]_vars => IInv'
<1> SUFFICES ASSUME IInv, [Next]_vars PROVE IInv'
    OBVIOUS
<1>1. ASSUME Exit PROVE IInv'
    BY <1>1, SafeExit DEF IInv
<1>2. ASSUME Environment \/ Alarm PROVE IInv'
    BY <1>2, SafeEnvironment, SafeHandshake DEF Environment, Alarm
<1>3. ASSUME Loop PROVE IInv'
    BY <1>1, <1>3, SafeEpollWait, SafeAddClient, SafeAcceptHttps, SafeHandle
       DEF Loop, TimerExpires, HandleHangup, LoopEnds
<1>4. ASSUME \E w \in Workers : TakeRequest(w) \/ Process(w) PROVE IInv'
    BY <1>1, <1>4, SafeWorkers DEF Process, ReadFails, AnswerAndClose
<1>5. ASSUME UNCHANGED vars PROVE IInv'
    BY <1>5 DEF vars, queueVars, loopVars, userVars, sockVars, sigVars, histVars, IInv,
                TypeOK, Descriptors, Reports, HttpsUp, TimersMatchUsers, Registered
<1> QED BY <1>2, <1>3, <1>4, <1>5 DEF Next

(* All of it is so in every state the server reaches.                      *)
LEMMA Safe == Spec => []IInv
BY SafeInit, SafeStep, PTL DEF Spec

(* Every variable keeps its type: no counter goes below zero, no event is  *)
(* of a descriptor that does not exist.                                    *)
THEOREM TypeCorrect == Spec => []TypeOK
BY Safe, PTL DEF IInv

(* Each user has one timer, m_user_count counts them, and the timers are   *)
(* in the order of their expiry, whatever descriptors are used again.      *)
THEOREM TimersMatchUsersHolds == Spec => []TimersMatchUsers
BY Safe, PTL DEF IInv

-------------------------------------------------------------------------------
(* The connections and the pool.                                           *)

(* append() adds f to the connections that are queued.                     *)
LEMMA Appended ==
    ASSUME waiting \in Seq(Slots), NEW f \in Slots, waiting' = Append(waiting, f)
    PROVE  \A g \in Slots : Queued(g)' <=> Queued(g) \/ g = f
<1>1. /\ Len(waiting') = Len(waiting) + 1 /\ Len(waiting) \in Nat
      /\ \A i \in 1..Len(waiting) : waiting'[i] = waiting[i]
      /\ waiting'[Len(waiting) + 1] = f
    BY AppendProperties, LenProperties
<1>2. 1..Len(waiting') = (1..Len(waiting)) \cup {Len(waiting) + 1}
    BY <1>1
<1> QED BY <1>1, <1>2 DEF Queued

(* A worker that takes a request leaves the others as they are.            *)
LEMMA Started ==
    ASSUME TypeOK, NEW w \in Workers, Queue!Start(w)
    PROVE  \A g \in Slots : Queued(g)' \/ Taken(g)' <=> Queued(g) \/ Taken(g)
<1>1. /\ waiting \in Seq(Slots) /\ waiting # << >>
      /\ running \in [Workers -> Slots \cup {NULL}] /\ running[w] = NULL
      /\ running' = [running EXCEPT ![w] = waiting[1]]
      /\ waiting' = Tail(waiting)
    BY DEF Queue!Start, TypeOK
<1>2. /\ Len(waiting) \in Nat \ {0} /\ Len(waiting') = Len(waiting) - 1
      /\ \A i \in 1..Len(waiting') : waiting'[i] = waiting[i + 1]
    BY <1>1, HeadTailProperties, LenProperties, EmptySeq
<1>3. ASSUME NEW g \in Slots, Queued(g)' \/ Taken(g)'
      PROVE  Queued(g) \/ Taken(g)
  <2>1. CASE Queued(g)'
    <3>1. PICK i \in 1..Len(waiting') : waiting'[i] = g
        BY <2>1 DEF Queued
    <3> QED BY <1>2, <3>1 DEF Queued
  <2>2. CASE Taken(g)'
    <3>1. PICK v \in Workers : running'[v] = g
        BY <2>2 DEF Taken
    <3> QED BY <1>1, <1>2, <3>1 DEF Queued, Taken
  <2> QED BY <1>3, <2>1, <2>2
<1>4. ASSUME NEW g \in Slots, Queued(g) \/ Taken(g)
      PROVE  Queued(g)' \/ Taken(g)'
  <2>1. CASE Queued(g)
    <3>1. PICK i \in 1..Len(waiting) : waiting[i] = g
        BY <2>1 DEF Queued
    <3>2. CASE i = 1
        BY <1>1, <3>1, <3>2 DEF Taken
    <3>3. CASE i # 1
      <4>1. i - 1 \in 1..Len(waiting') /\ waiting'[i - 1] = g
          BY <1>2, <3>1, <3>3
      <4> QED BY <4>1 DEF Queued
    <3> QED BY <3>2, <3>3
  <2>2. CASE Taken(g)
    <3>1. PICK v \in Workers : running[v] = g
        BY <2>2 DEF Taken
    <3>2. v # w
        BY <1>1, <3>1, ServerAssumption
    <3> QED BY <1>1, <3>1, <3>2 DEF Taken
  <2> QED BY <1>4, <2>1, <2>2
<1> QED BY <1>3, <1>4

PoolInv == Busyness /\ Accounted

(* A step that leaves the pool alone, and that makes no new event of a     *)
(* connection.                                                             *)
LEMMA QuietStep ==
    ASSUME PoolInv, UNCHANGED <<waiting, running, served, refused>>,
           alive' => alive,
           \A f \in ConnFds :
               \/ interest[f] # "spent" /\ interest'[f] # "spent"
               \/ /\ interest'[f] = interest[f]
                  /\ <<f, "in">> \in events' <=> <<f, "in">> \in events
                  /\ <<f, "hup">> \in events' <=> <<f, "hup">> \in events
    PROVE  PoolInv'
<1>1. \A f \in ConnFds : (Queued(f)' <=> Queued(f)) /\ (Taken(f)' <=> Taken(f))
    BY DEF Queued, Taken
<1>2. Busyness'
    BY <1>1 DEF PoolInv, Busyness
<1>3. Accounted'
    BY <1>1 DEF PoolInv, Accounted
<1> QED BY <1>2, <1>3 DEF PoolInv

LEMMA PoolInit == Init => PoolInv
<1> SUFFICES ASSUME Init PROVE PoolInv
    OBVIOUS
<1>1. waiting = << >> /\ running = [w \in Workers |-> NULL]
    BY DEF Init, Queue!Init
<1>2. 1..Len(waiting) = {}
    BY <1>1, EmptySeq
<1>3. \A f \in ConnFds : f \in Slots /\ interest[f] = "none" /\ ~Queued(f) /\ ~Taken(f)
    BY <1>1, <1>2, Numbers, ServerAssumption DEF Init, Queued, Taken
<1> QED BY <1>3 DEF PoolInv, Busyness, Accounted

(* Nothing is promised of a server that is gone.                           *)
LEMMA PoolExit == Exit => PoolInv'
BY DEF Exit, PoolInv, Busyness, Accounted

(* A slot that joins epoll was none of its connections.                    *)
LEMMA PoolInitUser ==
    ASSUME IInv, PoolInv, NEW fd \in Slots \ Registered, InitUser(fd),
           UNCHANGED <<waiting, running, served, refused, alive>>,
           \A f \in ConnFds, what \in {"in", "hup"} :
               <<f, what>> \in events' <=> <<f, what>> \in events
    PROVE  PoolInv'
<1>1. \A f \in ConnFds :
          \/ interest[f] # "spent" /\ interest'[f] # "spent"
          \/ interest'[f] = interest[f]
    BY Numbers DEF InitUser, Registered, IInv, TypeOK
<1> QED BY <1>1, QuietStep

LEMMA PoolEnvironment ==
    ASSUME IInv, PoolInv, Environment \/ Alarm
    PROVE  PoolInv'
<1> USE DEF queueVars, loopVars, userVars, sockVars, sigVars, histVars
<1>1. CASE \/ \E l \in Listeners : Connect(l)
           \/ \E f \in Slots, what \in Sends : Arrive(f, what)
           \/ TimePasses \/ Sigterm \/ Sigalrm
  <2>1. UNCHANGED <<waiting, running, served, refused, alive, events, interest>>
      BY <1>1 DEF Connect, Arrive, TimePasses, Sigterm, Sigalrm
  <2> QED BY <2>1, QuietStep
<1>2. CASE HandshakeFails \/ SigalrmOnHandshake
  <2>1. UNCHANGED <<waiting, running, served, refused, alive, events, interest>>
      BY <1>2 DEF HandshakeFails, SigalrmOnHandshake, CloseHttps
  <2> QED BY <2>1, QuietStep
<1>3. CASE HandshakeDone
  <2>1. UNCHANGED <<waiting, running, served, refused, alive, events>>
      BY <1>3 DEF HandshakeDone
  <2>2. CASE Busy
      BY <1>3, <2>1, <2>2, QuietStep DEF HandshakeDone
  <2>3. CASE ~Busy
    <3>1. handshaking \in Slots \ Registered /\ InitUser(handshaking)
        BY <1>3, <2>3, Numbers DEF HandshakeDone, IInv, Descriptors
    <3> QED BY <2>1, <3>1, PoolInitUser
  <2> QED BY <2>2, <2>3
<1> QED BY <1>1, <1>2, <1>3 DEF Environment, Alarm

(* Each registration that epoll_wait spends is among the events.           *)
LEMMA PoolEpollWait ==
    ASSUME IInv, PoolInv, EpollWait
    PROVE  PoolInv'
<1> USE DEF queueVars, loopVars, userVars, sockVars, sigVars, histVars
<1> DEFINE ready == {f \in Slots : EventsOf(f) # {}}
<1>1. /\ UNCHANGED <<waiting, running, served, refused, alive>>
      /\ alive /\ events = {}
      /\ interest' = [f \in Slots |-> IF f \in ready THEN "spent" ELSE interest[f]]
    BY DEF EpollWait, AtLoop
<1> DEFINE others == {<<l, "in">> : l \in {k \in Listeners : backlog[k] > 0}}
                         \cup {<<p, "in">> : p \in edges}
<1>2. PICK ev \in [ready -> Slots \X {"in", "hup"}] :
          /\ \A f \in ready : ev[f] \in EventsOf(f)
          /\ events' = others \cup {ev[f] : f \in ready}
    BY Zenon DEF EpollWait
<1>3. \A f \in Slots : EventsOf(f) \subseteq {<<f, "in">>, <<f, "hup">>}
                        /\ (f \in ready => interest[f] = "armed")
    BY DEF EventsOf
<1>4. \A f \in ConnFds : <<f, "in">> \notin others
    BY Numbers DEF Listeners, IInv, TypeOK
<1>5. \A f \in ConnFds : (Queued(f)' <=> Queued(f)) /\ (Taken(f)' <=> Taken(f))
    BY <1>1 DEF Queued, Taken
<1>6. \A f \in ConnFds : f \in Slots
    BY Numbers
<1> HIDE DEF ready, others
<1>7. ASSUME NEW f \in ConnFds, f \in ready
      PROVE  <<f, "in">> \in events' \/ <<f, "hup">> \in events'
  <2>1. ev[f] \in EventsOf(f) /\ ev[f] \in events'
      BY <1>2, <1>7
  <2>2. EventsOf(f) \subseteq {<<f, "in">>, <<f, "hup">>}
      BY <1>3, <1>6
  <2> QED BY <2>1, <2>2
<1>8. ASSUME NEW f \in ConnFds, <<f, "in">> \in events'
      PROVE  f \in ready
  <2>1. PICK g \in ready : ev[g] = <<f, "in">>
      BY <1>2, <1>4, <1>8
  <2>2. ready \subseteq Slots
      BY DEF ready
  <2>3. ev[g] = <<g, "in">> \/ ev[g] = <<g, "hup">>
      BY <1>2, <1>3, <2>1, <2>2
  <2> QED BY <2>1, <2>3
<1>9. Busyness'
    BY <1>1, <1>3, <1>5, <1>6, <1>8 DEF PoolInv, Busyness
<1>10. Accounted'
    BY <1>1, <1>5, <1>6, <1>7 DEF PoolInv, Accounted
<1> QED BY <1>9, <1>10 DEF PoolInv

(* The listening sockets and the signals.                                  *)
LEMMA PoolAccept ==
    ASSUME IInv, PoolInv, AddClient \/ AcceptHttps \/ HandleAlarm \/ HandleInt
    PROVE  PoolInv'
<1> USE DEF queueVars, loopVars, userVars, sockVars, sigVars, histVars
<1>1. UNCHANGED <<waiting, running, served, refused, alive>>
    BY DEF AddClient, AcceptHttps, HandleAlarm, HandleInt
<1>2. \A f \in ConnFds, what \in {"in", "hup"} :
          <<f, what>> \in events' <=> <<f, what>> \in events
    BY Numbers DEF AddClient, AcceptHttps, HandleAlarm, HandleInt, Handle
<1>3. CASE UNCHANGED interest
    BY <1>1, <1>2, <1>3, QuietStep
<1>4. CASE interest' # interest
  <2>1. FreeFds # {} /\ InitUser(NextFd)
      BY <1>4 DEF AddClient, AcceptHttps, HandleAlarm, HandleInt
  <2>2. NextFd \in Slots \ Registered
      BY <2>1, NextIsFree DEF IInv, Descriptors
  <2> QED BY <1>1, <1>2, <2>1, <2>2, PoolInitUser
<1> QED BY <1>3, <1>4

(* A connection whose event is handled is queued, or refused.              *)
LEMMA PoolInput ==
    ASSUME IInv, PoolInv, NEW f \in ConnFds, HandleInput(f)
    PROVE  /\ PoolInv'
           /\ Queue!Submit(f) \/ UNCHANGED Queue!vars
<1> USE DEF queueVars, loopVars, userVars, sockVars, sigVars, histVars
<1>1. /\ alive /\ f \in Slots /\ <<f, "in">> \in events
      /\ ~Queued(f) /\ ~Taken(f)
      /\ interest[f] = "spent"
      /\ waiting \in Seq(Slots)
    BY Numbers DEF HandleInput, Handle, Reached, AtLoop, PoolInv, Busyness, IInv, Reports, TypeOK
<1>2. /\ UNCHANGED <<running, alive, interest, served>>
      /\ events' = events \ {<<f, "in">>}
      /\ refused \subseteq refused'
    BY DEF HandleInput, Handle
<1>3. \A g \in ConnFds : Taken(g)' <=> Taken(g)
    BY <1>2 DEF Taken
<1>4. CASE waiting' = Append(waiting, f)
  <2>1. \A g \in ConnFds : Queued(g)' <=> Queued(g) \/ g = f
      BY <1>1, <1>4, Appended, Numbers
  <2>2. Busyness'
      BY <1>1, <1>2, <1>3, <2>1 DEF PoolInv, Busyness
  <2>3. Accounted'
      BY <1>1, <1>2, <1>3, <2>1 DEF PoolInv, Accounted
  <2>4. Queue!Submit(f)
      BY <1>1, <1>2, <1>4 DEF Queue!Submit, Queued, Taken
  <2> QED BY <2>2, <2>3, <2>4 DEF PoolInv
<1>5. CASE waiting' = waiting /\ f \in refused'
  <2>1. \A g \in ConnFds : Queued(g)' <=> Queued(g)
      BY <1>5 DEF Queued
  <2>2. Busyness'
      BY <1>1, <1>2, <1>3, <2>1 DEF PoolInv, Busyness
  <2>3. Accounted'
      BY <1>1, <1>2, <1>3, <1>5, <2>1 DEF PoolInv, Accounted
  <2> QED BY <1>2, <1>5, <2>2, <2>3 DEF PoolInv, Queue!vars
<1> QED BY <1>4, <1>5 DEF HandleInput

(* Requests that are taken and answered.                                   *)
LEMMA PoolWorkers ==
    ASSUME IInv, PoolInv,
           \E w \in Workers : TakeRequest(w) \/ ReadRequest(w) \/ AnswerAndLinger(w)
    PROVE  PoolInv'
<1> USE DEF queueVars, loopVars, userVars, sockVars, sigVars, histVars
<1>1. UNCHANGED <<alive, events, interest, refused>> /\ served \subseteq served'
    BY DEF TakeRequest, ReadRequest, AnswerAndLinger
<1>2. ASSUME NEW w \in Workers, TakeRequest(w)
      PROVE  PoolInv'
  <2>1. \A g \in ConnFds : Queued(g)' \/ Taken(g)' <=> Queued(g) \/ Taken(g)
      BY <1>2, Started, Numbers DEF TakeRequest, IInv
  <2>2. Busyness'
      BY <1>1, <2>1 DEF PoolInv, Busyness
  <2>3. Accounted'
      BY <1>1, <2>1 DEF PoolInv, Accounted
  <2> QED BY <2>2, <2>3 DEF PoolInv
<1>3. ASSUME NEW w \in Workers, ReadRequest(w)
      PROVE  PoolInv'
  <2>1. UNCHANGED <<waiting, running, served>>
      BY <1>3 DEF ReadRequest
  <2> QED BY <1>1, <2>1, QuietStep
<1>4. ASSUME NEW w \in Workers, AnswerAndLinger(w)
      PROVE  PoolInv'
  <2>1. /\ waiting' = waiting /\ running' = [running EXCEPT ![w] = NULL]
        /\ running \in [Workers -> Slots \cup {NULL}]
        /\ served' = served \cup {running[w]}
      BY <1>4 DEF AnswerAndLinger, Queue!Finish, IInv, TypeOK
  <2>2. \A g \in ConnFds : Queued(g)' <=> Queued(g)
      BY <2>1 DEF Queued
  <2>3. \A g \in ConnFds : Taken(g)' => Taken(g)
      BY <2>1, Numbers, ServerAssumption DEF Taken
  <2>4. \A g \in ConnFds : Taken(g) => Taken(g)' \/ g \in served'
      BY <2>1 DEF Taken
  <2>5. Busyness'
      BY <1>1, <2>2, <2>3 DEF PoolInv, Busyness
  <2>6. Accounted'
      BY <1>1, <2>2, <2>4 DEF PoolInv, Accounted
  <2> QED BY <2>5, <2>6 DEF PoolInv
<1> QED BY <1>2, <1>3, <1>4

(* Every step keeps track of the requests.                                 *)
LEMMA PoolStep == IInv /\ PoolInv /\ [Next]_vars => PoolInv'
<1> SUFFICES ASSUME IInv, PoolInv, [Next]_vars PROVE PoolInv'
    OBVIOUS
<1>1. ASSUME Environment \/ Alarm PROVE PoolInv'
    BY <1>1, PoolEnvironment
<1>2. ASSUME Loop PROVE PoolInv'
    BY <1>2, PoolExit, PoolEpollWait, PoolAccept, PoolInput
       DEF Loop, TimerExpires, HandleHangup, LoopEnds
<1>3. ASSUME \E w \in Workers : TakeRequest(w) \/ Process(w) PROVE PoolInv'
    BY <1>3, PoolExit, PoolWorkers DEF Process, ReadFails, AnswerAndClose
<1>4. ASSUME UNCHANGED vars PROVE PoolInv'
    BY <1>4, QuietStep DEF vars, queueVars, loopVars, sockVars, histVars
<1> QED BY <1>1, <1>2, <1>3, <1>4 DEF Next

LEMMA Pool == Spec => [](IInv /\ PoolInv)
BY SafeInit, SafeStep, PoolInit, PoolStep, PTL DEF Spec

LEMMA AccountedFor == IInv /\ PoolInv => NoRequestLost
<1> SUFFICES ASSUME IInv, PoolInv PROVE NoRequestLost
    OBVIOUS
<1>1. DOMAIN waiting = 1..Len(waiting)
    BY LenProperties DEF IInv, TypeOK
<1> QED BY <1>1 DEF PoolInv, Accounted, NoRequestLost, Queued, Taken

(* A first request is somewhere until it is answered, whatever order       *)
(* events, workers and signals come in.                                    *)
THEOREM NoRequestLostHolds == Spec => []NoRequestLost
BY Pool, AccountedFor, PTL

(* A step of the server is one of the work queue, or none of its business. *)
LEMMA QueueStep == IInv /\ PoolInv /\ [Next]_vars => [Queue!Next]_(Queue!vars)
<1> SUFFICES ASSUME IInv, PoolInv, [Next]_vars PROVE [Queue!Next]_(Queue!vars)
    OBVIOUS
<1> USE DEF queueVars
<1>1. ASSUME Exit PROVE UNCHANGED Queue!vars
    BY <1>1 DEF Exit, Queue!vars
<1>2. ASSUME Environment \/ Alarm PROVE UNCHANGED Queue!vars
    BY <1>2 DEF Environment, Alarm, Connect, Arrive, TimePasses, Sigterm, HandshakeDone,
                HandshakeFails, Sigalrm, SigalrmOnHandshake, CloseHttps, Queue!vars
<1>3. ASSUME EpollWait \/ AddClient \/ AcceptHttps \/ HandleAlarm \/ HandleInt
      PROVE  UNCHANGED Queue!vars
    BY <1>3 DEF EpollWait, AddClient, AcceptHttps, HandleAlarm, HandleInt, Queue!vars
<1>4. ASSUME NEW f \in ConnFds, HandleInput(f) PROVE [Queue!Next]_(Queue!vars)
    BY <1>4, PoolInput, Numbers DEF Queue!Next
<1>5. ASSUME Loop PROVE [Queue!Next]_(Queue!vars)
    BY <1>1, <1>3, <1>4, <1>5 DEF Loop, TimerExpires, HandleHangup, LoopEnds
<1>6. ASSUME NEW w \in Workers, TakeRequest(w) PROVE Queue!Next
    BY <1>6 DEF TakeRequest, Queue!Next, Queue!SomeStart
<1>7. ASSUME NEW w \in Workers, Process(w) PROVE [Queue!Next]_(Queue!vars)
    BY <1>1, <1>7 DEF Process, ReadRequest, ReadFails, AnswerAndLinger, AnswerAndClose,
                      Queue!Next, Queue!vars
<1>8. ASSUME UNCHANGED vars PROVE UNCHANGED Queue!vars
    BY <1>8 DEF vars, Queue!vars
<1> QED BY <1>2, <1>5, <1>6, <1>7, <1>8 DEF Next

(* The loop and the workers keep to the work queue: no connection is       *)
(* appended while the pool has it, so no two workers run process() on it.  *)
THEOREM ServerImplementsQueue == Spec => ImplementsQueue
<1>1. Init => Queue!Init
    BY DEF Init
<1> QED BY <1>1, Pool, QueueStep, PTL DEF Spec, ImplementsQueue

-------------------------------------------------------------------------------
(* The server with its pool.                                               *)

(* What ThreadPool_proofs proves, about the pool of ServerPool.  It has    *)
(* the pool's definitions in an instance of its own, so what is taken from *)
(* it has to be carried over.                                              *)
Proven == INSTANCE ThreadPool_proofs WITH Handlers <- Slots, workqueue <- waiting

LEMMA PoolParameters ==
    /\ Proven!IsFiniteSet(Workers) /\ Workers # {}
    /\ Proven!IsFiniteSet(Connections) /\ NULL \notin Connections
    /\ Proven!Cardinality(Workers) <= Proven!Cardinality(Connections)
    /\ NULL \notin Slots
    /\ MaxRequests \in Nat \ {0}
BY ServerAssumption, SystemAssumption
   DEF Proven!IsFiniteSet, IsFiniteSet, Proven!Cardinality, Cardinality

LEMMA SameInit == Threads!Init <=> Proven!Init
BY Zenon
   DEF Threads!Init, Proven!Init, Threads!IsInjective, Proven!IsInjective,
       Threads!Cardinality, Proven!Cardinality

LEMMA SameNext == [Threads!Next]_(Threads!vars) <=> [Proven!Next]_(Proven!vars)
BY Zenon
   DEF Threads!Next, Proven!Next, Threads!vars, Proven!vars,
       Threads!queueVars, Proven!queueVars, Threads!connVars, Proven!connVars,
       Threads!Idle, Proven!Idle, Threads!Running, Proven!Running,
       Threads!Working, Proven!Working, Threads!AppendPush, Proven!AppendPush,
       Threads!AppendRejected, Proven!AppendRejected, Threads!AppendPost,
       Proven!AppendPost, Threads!Work, Proven!Work, Threads!Block, Proven!Block,
       Threads!Waiting, Proven!Waiting, Threads!WaitForWork,
       Proven!WaitForWork, Threads!WaitInterrupted, Proven!WaitInterrupted,
       Threads!FindEmpty, Proven!FindEmpty, Threads!TakeRequest,
       Proven!TakeRequest, Threads!GetConnection, Proven!GetConnection,
       Threads!ReleaseConnection, Proven!ReleaseConnection,
       Threads!ProcessReturns, Proven!ProcessReturns, Threads!Range,
       Proven!Range

(* The pool is as ThreadPool promises.                                     *)
PoolSafe ==
    /\ Threads!TypeOK
    /\ Threads!OneWorkerPerHandler
    /\ Threads!NoStrandedRequest /\ Proven!UnitsLeft
    /\ Threads!ConnectionsAccounted /\ Threads!NullOnlyAfterLoss

ProvenSafe ==
    /\ Proven!TypeOK
    /\ Proven!OneWorkerPerHandler
    /\ Proven!NoStrandedRequest /\ Proven!UnitsLeft
    /\ Proven!ConnectionsAccounted /\ Proven!NullOnlyAfterLoss

LEMMA SameSafe == PoolSafe <=> ProvenSafe
BY Zenon
   DEF PoolSafe, ProvenSafe, Threads!TypeOK, Proven!TypeOK, Threads!Steps,
                            Proven!Steps, Threads!Working, Proven!Working,
                            Threads!Woken, Proven!Woken, Threads!Running,
                            Proven!Running, Threads!OneWorkerPerHandler,
                            Proven!OneWorkerPerHandler,
                            Threads!NoStrandedRequest,
                            Proven!NoStrandedRequest, Threads!Holder,
                            Proven!Holder, Threads!Held, Proven!Held,
                            Threads!ConnectionsAccounted,
                            Proven!ConnectionsAccounted, Threads!Lost,
                            Proven!Lost, Threads!NullOnlyAfterLoss,
                            Proven!NullOnlyAfterLoss, Threads!Range,
                            Proven!Range, Threads!IsInjective,
                            Proven!IsInjective, Threads!Cardinality,
                            Proven!Cardinality

LEMMA SameSafeNext == PoolSafe' <=> ProvenSafe'
BY Zenon
   DEF PoolSafe, ProvenSafe, Threads!TypeOK, Proven!TypeOK, Threads!Steps,
                            Proven!Steps, Threads!Working, Proven!Working,
                            Threads!Woken, Proven!Woken, Threads!Running,
                            Proven!Running, Threads!OneWorkerPerHandler,
                            Proven!OneWorkerPerHandler,
                            Threads!NoStrandedRequest,
                            Proven!NoStrandedRequest, Threads!Holder,
                            Proven!Holder, Threads!Held, Proven!Held,
                            Threads!ConnectionsAccounted,
                            Proven!ConnectionsAccounted, Threads!Lost,
                            Proven!Lost, Threads!NullOnlyAfterLoss,
                            Proven!NullOnlyAfterLoss, Threads!Range,
                            Proven!Range, Threads!IsInjective,
                            Proven!IsInjective, Threads!Cardinality,
                            Proven!Cardinality

LEMMA PoolSafeInit == Threads!Init => PoolSafe
<1>1. Proven!Init => ProvenSafe
    BY PoolParameters, Proven!TypeInit, Proven!OneWorkerInit, Proven!QueueInit,
       Proven!ConnectionsInit
       DEF ProvenSafe, Proven!TypeInit, Proven!OneWorkerInit, Proven!QueueInit,
           Proven!ConnectionsInit
<1> QED BY <1>1, SameInit, SameSafe

LEMMA PoolSafeStep == PoolSafe /\ [Threads!Next]_(Threads!vars) => PoolSafe'
<1> SUFFICES ASSUME ProvenSafe, [Proven!Next]_(Proven!vars) PROVE ProvenSafe'
    BY SameSafe, SameSafeNext, SameNext
<1> USE DEF ProvenSafe
<1>1. Proven!TypeOK' /\ Proven!OneWorkerPerHandler'
    BY PoolParameters, Proven!TypeStep, Proven!OneWorkerStep
       DEF Proven!TypeStep, Proven!OneWorkerStep
<1>2. Proven!NoStrandedRequest' /\ Proven!UnitsLeft'
    BY PoolParameters, Proven!QueueStep DEF Proven!QueueStep
<1>3. Proven!ConnectionsAccounted'
    BY PoolParameters, Proven!ConnectionsStep DEF Proven!ConnectionsStep
<1>4. Proven!NullOnlyAfterLoss'
    BY PoolParameters, Proven!NullOnlyAfterLossStep DEF Proven!NullOnlyAfterLossStep
<1> QED BY <1>1, <1>2, <1>3, <1>4

(* Each step is one of the server or leaves it alone.                      *)
LEMMA ServerStep == [SystemNext]_systemVars => [Next]_vars
<1> SUFFICES ASSUME [SystemNext]_systemVars PROVE [Next]_vars
    OBVIOUS
<1>1. ASSUME Outside \/ Signal \/ Accept \/ \E f \in ConnFds : Input(f)
      PROVE  Next
    BY <1>1 DEF Outside, Signal, Accept, Input, Next, Environment, Alarm, Loop
<1>2. ASSUME LoopStep PROVE Next
    BY <1>2 DEF LoopStep, Next, Environment, Alarm, Loop
<1>3. ASSUME NEW w \in Workers, Run(w) PROVE [Next]_vars
    BY <1>3 DEF Run, Wait, Take, Connection, ReadOrClose, Answer, Next, Process
<1>4. ASSUME Post PROVE UNCHANGED vars
    BY <1>4 DEF Post
<1> QED BY <1>1, <1>2, <1>3, <1>4 DEF SystemNext, systemVars

(* What the server promises, it promises with its pool.                    *)
THEOREM SystemImplementsServer == SystemSpec => Spec
BY ServerStep, PTL DEF SystemSpec, SystemInit, Spec

(* running is what request is while the server has to do with the request. *)
Agreement ==
    \A w \in Workers :
        running[w] = IF pc[w] \in {"checkout", "process"} THEN request[w] ELSE NULL

(* The number of the HTTPS socket never gets into the list.                *)
OnlyConnections == \A f \in Slots : Queued(f) \/ Taken(f) => f \in ConnFds

(* A connection that has its answer is done with: nothing is reported of   *)
(* it again, so it does not come to the pool again.                        *)
Settled ==
    alive => \A f \in served :
        /\ f \in ConnFds /\ interest[f] = "spent" /\ <<f, "in">> \notin events
        /\ ~Queued(f) /\ ~Taken(f)

(* Between process() and release_connection() a worker's request has been  *)
(* answered and has no connection.                                         *)
Cleared ==
    alive => \A w \in Workers :
        pc[w] = "release" => request[w] \in served /\ mysql[request[w]] = NULL

(* A slot that is not registered has never had a connection.               *)
Fresh == alive => \A f \in Slots : interest[f] = "none" => mysql[f] = NULL

SystemInv == /\ IInv /\ PoolInv /\ PoolSafe
             /\ Agreement /\ OnlyConnections /\ Settled /\ Cleared /\ Fresh

LEMMA SystemInvInit == SystemInit => SystemInv
<1> SUFFICES ASSUME SystemInit PROVE SystemInv
    OBVIOUS
<1>1. IInv /\ PoolInv /\ PoolSafe
    BY SafeInit, PoolInit, PoolSafeInit DEF SystemInit
<1>2. /\ waiting = << >> /\ running = [w \in Workers |-> NULL] /\ served = {}
      /\ pc = [w \in Workers |-> "wait"] /\ mysql = [f \in Slots |-> NULL]
    BY DEF SystemInit, Init, Queue!Init, Threads!Init
<1>3. \A f \in Slots : ~Queued(f) /\ ~Taken(f)
  <2>1. Len(waiting) = 0
      BY <1>2
  <2> QED BY <1>2, <2>1, ServerAssumption DEF Queued, Taken
<1> QED BY <1>1, <1>2, <1>3 DEF SystemInv, Agreement, OnlyConnections, Settled, Cleared, Fresh

(* A connection stays spent, is reported only while armed, and is armed    *)
(* only once.                                                              *)
LEMMA Registrations ==
    ASSUME IInv, [Next]_vars, alive', NEW f \in Slots
    PROVE  /\ alive
           /\ interest[f] = "spent" => interest'[f] = "spent"
           /\ interest'[f] = "none" => interest[f] = "none"
           /\ <<f, "in">> \in events' /\ f \in ConnFds
                  => <<f, "in">> \in events \/ interest[f] = "armed"
<1> USE DEF queueVars, loopVars, userVars, sockVars, sigVars, histVars
<1> DEFINE Goal == /\ alive
                   /\ interest[f] = "spent" => interest'[f] = "spent"
                   /\ interest'[f] = "none" => interest[f] = "none"
                   /\ <<f, "in">> \in events' /\ f \in ConnFds
                          => <<f, "in">> \in events \/ interest[f] = "armed"
<1>1. ~Exit
    BY DEF Exit
<1>2. ASSUME alive' = alive, interest' = interest, events' \subseteq events PROVE Goal
    BY <1>2
<1>3. ASSUME NEW fd \in Slots \ Registered, alive, InitUser(fd), events' \subseteq events
      PROVE  Goal
    BY <1>3 DEF InitUser, Registered, IInv, TypeOK
<1>4. ASSUME EpollWait PROVE Goal
  <2>1. PICK ev : /\ \A g \in {h \in Slots : EventsOf(h) # {}} : ev[g] \in EventsOf(g)
                  /\ events' = {<<l, "in">> : l \in {k \in Listeners : backlog[k] > 0}}
                                \cup {<<p, "in">> : p \in edges}
                                \cup {ev[g] : g \in {h \in Slots : EventsOf(h) # {}}}
      BY <1>4 DEF EpollWait
  <2>2. ASSUME <<f, "in">> \in events', f \in ConnFds PROVE interest[f] = "armed"
    <3>1. f \notin Listeners /\ f \notin edges
        BY <2>2, Numbers DEF Listeners, IInv, TypeOK
    <3>2. PICK g \in Slots : EventsOf(g) # {} /\ <<f, "in">> = ev[g]
        BY <2>1, <2>2, <3>1
    <3>3. <<f, "in">> \in EventsOf(g)
        BY <2>1, <3>2
    <3> QED BY <3>3 DEF EventsOf
  <2>3. \A g \in Slots : interest[g] = "none" => EventsOf(g) = {}
      BY DEF EventsOf
  <2>4. \A g \in Slots : interest'[g] \in {"spent", interest[g]}
      BY <1>4 DEF EpollWait
  <2> QED BY <1>4, <2>2, <2>4 DEF EpollWait, AtLoop, IInv, TypeOK
<1>5. ASSUME AddClient PROVE Goal
  <2>1. FreeFds # {} => NextFd \in Slots \ Registered
      BY NextIsFree DEF IInv, Descriptors
  <2>2. alive /\ alive' = alive /\ events' \subseteq events
      BY <1>5 DEF AddClient, Handle, Reached, AtLoop
  <2>3. interest' = interest \/ (FreeFds # {} /\ InitUser(NextFd))
      BY <1>5 DEF AddClient
  <2> QED BY <1>2, <1>3, <2>1, <2>2, <2>3
<1>6. ASSUME HandshakeDone PROVE Goal
  <2>1. handshaking \in Slots \ Registered
      BY <1>6, Numbers DEF HandshakeDone, IInv, Descriptors
  <2> QED BY <1>2, <1>3, <1>6, <2>1 DEF HandshakeDone
<1>7. ASSUME \/ \E l \in Listeners : Connect(l)
             \/ \E g \in Slots, what \in Sends : Arrive(g, what)
             \/ TimePasses \/ Sigterm \/ HandshakeFails \/ Alarm
      PROVE  Goal
    BY <1>2, <1>7 DEF Connect, Arrive, TimePasses, Sigterm, HandshakeFails, CloseHttps,
                      Alarm, Sigalrm, SigalrmOnHandshake
<1>8. ASSUME \/ AcceptHttps \/ HandleAlarm \/ HandleInt
             \/ \E g \in ConnFds : HandleInput(g)
      PROVE  Goal
    BY <1>2, <1>8 DEF AcceptHttps, HandleAlarm, HandleInt, HandleInput, Handle
<1>9. ASSUME \E w \in Workers : TakeRequest(w) \/ ReadRequest(w) \/ AnswerAndLinger(w)
      PROVE  Goal
    BY <1>2, <1>9 DEF TakeRequest, ReadRequest, AnswerAndLinger
<1>10. ASSUME UNCHANGED vars PROVE Goal
    BY <1>2, <1>10 DEF vars
<1> QED BY <1>1, <1>4, <1>5, <1>6, <1>7, <1>8, <1>9, <1>10
        DEF Next, Environment, Loop, Process, TimerExpires, HandleHangup, LoopEnds,
            ReadFails, AnswerAndClose

(* The request a worker has is spent and no event of it is waiting.        *)
LEMMA InHand ==
    ASSUME SystemInv, alive, NEW w \in Workers, Threads!Working(w)
    PROVE  /\ request[w] \in ConnFds /\ interest[request[w]] = "spent"
           /\ <<request[w], "in">> \notin events
<1>1. request[w] \in Slots
    BY DEF SystemInv, PoolSafe, Threads!TypeOK
<1>2. CASE pc[w] \in {"checkout", "process"}
  <2>1. Taken(request[w])
      BY <1>2 DEF SystemInv, Agreement, Taken
  <2> QED BY <1>1, <2>1 DEF SystemInv, OnlyConnections, PoolInv, Busyness
<1>3. CASE pc[w] = "release"
    BY <1>3 DEF SystemInv, Cleared, Settled
<1> QED BY <1>2, <1>3 DEF Threads!Working

LEMMA InList ==
    ASSUME waiting \in Seq(Slots), NEW f
    PROVE  Queued(f) <=> f \in Threads!Range(waiting)
BY LenProperties DEF Queued, Threads!Range

(* What the loop appends is idle, as append() assumes.                     *)
LEMMA AppendsIdle ==
    ASSUME SystemInv, alive, NEW f \in ConnFds, <<f, "in">> \in events
    PROVE  Threads!Idle(f)
<1>1. f \notin Threads!Range(waiting)
    BY InList DEF SystemInv, PoolInv, Busyness, IInv, TypeOK
<1>2. f \notin Threads!Running
    BY InHand DEF Threads!Running
<1> QED BY <1>1, <1>2 DEF Threads!Idle

(* init() of a slot that is registered changes nothing in its mysql.       *)
LEMMA AcceptKeepsMysql ==
    ASSUME SystemInv, Accept
    PROVE  UNCHANGED poolVars
<1>1. alive
    BY DEF Accept, AddClient, HandshakeDone, Handle, Reached, AtLoop
<1>2. \A f \in Registered' \ Registered : mysql[f] = NULL
    BY <1>1 DEF SystemInv, Fresh, Registered
<1>3. mysql \in [Slots -> Connections \cup {NULL}]
    BY DEF SystemInv, PoolSafe, Threads!TypeOK
<1>4. mysql' = mysql
    BY <1>2, <1>3 DEF Accept
<1> QED BY <1>4 DEF Accept, poolVars

(* Every step is one of the pool or leaves it alone.                       *)
LEMMA ThreadsStep ==
    SystemInv /\ [SystemNext]_systemVars => [Threads!Next]_(Threads!vars)
<1> SUFFICES ASSUME SystemInv, [SystemNext]_systemVars
             PROVE  [Threads!Next]_(Threads!vars)
    OBVIOUS
<1> USE DEF queueVars, poolVars
<1>1. ASSUME UNCHANGED <<waiting, poolVars>> PROVE UNCHANGED Threads!vars
    BY <1>1 DEF Threads!vars
<1>2. ASSUME Outside \/ LoopStep \/ Accept PROVE UNCHANGED waiting
    BY <1>2 DEF Outside, LoopStep, Accept, Connect, Arrive, TimePasses, EpollWait,
                AcceptHttps, HandshakeFails, SigalrmOnHandshake, CloseHttps, HandleAlarm,
                TimerExpires, HandleInt, HandleHangup, LoopEnds, Exit, AddClient,
                HandshakeDone
<1>3. ASSUME Outside \/ LoopStep \/ Accept PROVE UNCHANGED Threads!vars
    BY <1>1, <1>2, <1>3, AcceptKeepsMysql DEF Outside, LoopStep
<1>4. ASSUME Signal PROVE [Threads!Next]_(Threads!vars)
  <2>1. UNCHANGED waiting
      BY <1>4 DEF Signal, Sigalrm, Sigterm
  <2> QED BY <1>1, <1>4, <2>1 DEF Signal, Threads!Next
<1>5. ASSUME NEW f \in ConnFds, Input(f) PROVE Threads!Next
  <2>1. Threads!Idle(f)
      BY <1>5, AppendsIdle DEF Input, HandleInput, Handle, Reached, AtLoop
  <2> QED BY <1>5, <2>1, Numbers DEF Input, Threads!Next
<1>6. ASSUME Post PROVE Threads!Next
    BY <1>6 DEF Post, Threads!Next
<1>7. ASSUME NEW w \in Workers, Run(w) PROVE [Threads!Next]_(Threads!vars)
  <2>1. ASSUME ReadOrClose(w) PROVE UNCHANGED Threads!vars
      BY <1>1, <2>1 DEF ReadOrClose, ReadRequest, ReadFails, AnswerAndClose, Exit
  <2>2. ASSUME Wait(w) \/ Take(w) \/ Connection(w) PROVE Threads!Next
      BY <2>2 DEF Wait, Take, Connection, Threads!Next, Threads!Work
  <2>3. ASSUME Answer(w) PROVE Threads!Next
      BY <2>3 DEF Answer, Threads!Next
  <2> QED BY <1>7, <2>1, <2>2, <2>3 DEF Run
<1>8. ASSUME UNCHANGED systemVars PROVE UNCHANGED Threads!vars
    BY <1>1, <1>8 DEF systemVars, vars
<1> QED BY <1>3, <1>4, <1>5, <1>6, <1>7, <1>8 DEF SystemNext

-------------------------------------------------------------------------------
(* A step at most lets workers begin or end a wait, or it is one of five.  *)
Idling ==
    /\ UNCHANGED <<waiting, running, request, conn_list, mysql>>
    /\ alive' => served' = served
    /\ \A w \in Workers : \/ pc'[w] = pc[w]
                           \/ {pc[w], pc'[w]} \subseteq {"wait", "blocked", "woken"}

Gets(w)     == alive /\ Threads!GetConnection(w) /\ UNCHANGED vars
Releases(w) == alive /\ Threads!ReleaseConnection(w) /\ UNCHANGED vars

LEMMA StepCases ==
    ASSUME SystemInv, [SystemNext]_systemVars
    PROVE  \/ Idling
           \/ \E f \in ConnFds : Input(f)
           \/ \E w \in Workers : Take(w) \/ Gets(w) \/ Releases(w) \/ Answer(w)
<1> USE DEF queueVars, histVars, poolVars
<1>1. ASSUME UNCHANGED <<waiting, running, poolVars>>, alive' => served' = served
      PROVE  Idling
    BY <1>1 DEF Idling
<1>2. ASSUME Outside \/ LoopStep PROVE Idling
    BY <1>1, <1>2 DEF Outside, LoopStep, Connect, Arrive, TimePasses, EpollWait,
                AcceptHttps, HandshakeFails, SigalrmOnHandshake, CloseHttps, HandleAlarm,
                TimerExpires, HandleInt, HandleHangup, LoopEnds, Exit
<1>3. ASSUME Accept PROVE Idling
    BY <1>1, <1>3, AcceptKeepsMysql DEF Accept, AddClient, HandshakeDone
<1>4. ASSUME NEW w \in Workers,
             \/ Threads!Block(w) \/ Threads!WaitForWork(w)
             \/ Threads!FindEmpty(w) \/ Threads!WaitInterrupted(w),
             UNCHANGED <<waiting, running>>, alive' => served' = served
      PROVE  Idling
    BY <1>4 DEF Threads!Block, Threads!WaitForWork, Threads!Waiting,
                Threads!FindEmpty, Threads!WaitInterrupted,
                Threads!queueVars, Threads!connVars, Idling,
                SystemInv, PoolSafe, Threads!TypeOK
<1>5. ASSUME Signal PROVE Idling
  <2>1. UNCHANGED <<waiting, running, served>>
      BY <1>5 DEF Signal, Sigalrm, Sigterm
  <2> QED BY <1>1, <1>4, <1>5, <2>1 DEF Signal
<1>6. ASSUME NEW w \in Workers, Wait(w) \/ ReadOrClose(w) PROVE Idling
    BY <1>1, <1>4, <1>6 DEF Wait, ReadOrClose, vars, ReadRequest, ReadFails, AnswerAndClose,
                            Exit
<1>7. ASSUME Post PROVE Idling
    BY <1>7 DEF Post, vars, Threads!AppendPost, Threads!connVars, Idling
<1>8. ASSUME UNCHANGED systemVars PROVE Idling
    BY <1>1, <1>8 DEF systemVars, vars
<1>9. ASSUME NEW w \in Workers, Connection(w) PROVE Gets(w) \/ Releases(w)
    BY <1>9 DEF Connection, Gets, Releases
<1> QED BY <1>2, <1>3, <1>5, <1>6, <1>7, <1>8, <1>9 DEF SystemNext, Run

(* The changes of each of the five to what the invariants speak of.        *)
LEMMA WorkerSteps ==
    ASSUME SystemInv, NEW w \in Workers
    PROVE  /\ Take(w) =>
                 /\ pc[w] = "woken" /\ waiting # << >>
                 /\ pc' = [pc EXCEPT ![w] = "checkout"]
                 /\ request' = [request EXCEPT ![w] = Head(waiting)]
                 /\ running' = [running EXCEPT ![w] = Head(waiting)]
                 /\ UNCHANGED <<alive, interest, events, served, conn_list, mysql>>
           /\ Gets(w) =>
                 /\ pc[w] = "checkout" /\ pc' = [pc EXCEPT ![w] = "process"]
                 /\ mysql' = [mysql EXCEPT ![request[w]] = IF conn_list = << >> THEN NULL
                                                          ELSE Head(conn_list)]
                 /\ conn_list' = IF conn_list = << >> THEN << >> ELSE Tail(conn_list)
                 /\ UNCHANGED <<alive, interest, events, served, waiting, running, request>>
           /\ Releases(w) =>
                 /\ pc[w] = "release" /\ pc' = [pc EXCEPT ![w] = "wait"]
                 /\ request' = [request EXCEPT ![w] = NULL]
                 /\ conn_list' = IF mysql[request[w]] = NULL THEN conn_list
                                 ELSE Append(conn_list, mysql[request[w]])
                 /\ UNCHANGED <<alive, interest, events, served, waiting, running, mysql>>
           /\ Answer(w) =>
                 /\ pc[w] = "process" /\ running[w] = request[w]
                 /\ pc' = [pc EXCEPT ![w] = "release"]
                 /\ running' = [running EXCEPT ![w] = NULL]
                 /\ served' = served \cup {request[w]}
                 /\ mysql' = [mysql EXCEPT ![request[w]] = NULL]
                 /\ UNCHANGED <<alive, interest, events, waiting, request, conn_list>>
<1> USE DEF queueVars, loopVars, userVars, sockVars, histVars,
            Threads!queueVars, Threads!connVars
<1>1. Take(w) => /\ pc[w] = "woken" /\ waiting # << >>
                 /\ pc' = [pc EXCEPT ![w] = "checkout"]
                 /\ request' = [request EXCEPT ![w] = Head(waiting)]
                 /\ running' = [running EXCEPT ![w] = Head(waiting)]
                 /\ UNCHANGED <<alive, interest, events, served, conn_list, mysql>>
    BY DEF Take, TakeRequest, Queue!Start, Threads!TakeRequest
<1>2. Gets(w) => /\ pc[w] = "checkout" /\ pc' = [pc EXCEPT ![w] = "process"]
                 /\ mysql' = [mysql EXCEPT ![request[w]] = IF conn_list = << >> THEN NULL
                                                          ELSE Head(conn_list)]
                 /\ conn_list' = IF conn_list = << >> THEN << >> ELSE Tail(conn_list)
                 /\ UNCHANGED <<alive, interest, events, served, waiting, running, request>>
    BY DEF Gets, Threads!GetConnection, vars
<1>3. Releases(w) => /\ pc[w] = "release" /\ pc' = [pc EXCEPT ![w] = "wait"]
                     /\ request' = [request EXCEPT ![w] = NULL]
                     /\ conn_list' = IF mysql[request[w]] = NULL THEN conn_list
                                     ELSE Append(conn_list, mysql[request[w]])
                     /\ UNCHANGED <<alive, interest, events, served, waiting, running,
                                    mysql>>
    BY DEF Releases, Threads!ReleaseConnection, vars
<1>4. Answer(w) => /\ pc[w] = "process" /\ running[w] = request[w]
                   /\ pc' = [pc EXCEPT ![w] = "release"]
                   /\ running' = [running EXCEPT ![w] = NULL]
                   /\ served' = served \cup {request[w]}
                   /\ mysql' = [mysql EXCEPT ![request[w]] = NULL]
                   /\ UNCHANGED <<alive, interest, events, waiting, request, conn_list>>
  <2>1. Answer(w) => pc[w] = "process" /\ running[w] = request[w]
      BY DEF Answer, Threads!ProcessReturns, SystemInv, Agreement
  <2> QED BY <2>1 DEF Answer, AnswerAndLinger, Queue!Finish, Threads!ProcessReturns
<1> QED BY <1>1, <1>2, <1>3, <1>4

LEMMA AgreementStep == SystemInv /\ [SystemNext]_systemVars => Agreement'
<1> SUFFICES ASSUME SystemInv, [SystemNext]_systemVars PROVE Agreement'
    OBVIOUS
<1> USE DEF Agreement
<1>1. /\ Agreement /\ pc \in [Workers -> Threads!Steps]
      /\ request \in [Workers -> Slots \cup {NULL}]
      /\ running \in [Workers -> Slots \cup {NULL}]
    BY DEF SystemInv, PoolSafe, Threads!TypeOK, IInv, TypeOK
<1>2. CASE Idling
    BY <1>1, <1>2 DEF Idling
<1>3. ASSUME NEW f \in ConnFds, Input(f) PROVE Agreement'
    BY <1>1, <1>3 DEF Input, HandleInput, Threads!AppendPush, Threads!AppendRejected,
                      Threads!vars
<1>4. ASSUME NEW w \in Workers, Take(w) \/ Gets(w) \/ Releases(w) \/ Answer(w)
      PROVE  Agreement'
    BY <1>1, <1>4, WorkerSteps
<1> QED BY <1>2, <1>3, <1>4, StepCases

(* Whom the pool is busy with it was busy with, or an event of his was     *)
(* waiting.                                                                *)
LEMMA NewlyBusy ==
    ASSUME SystemInv, [SystemNext]_systemVars, NEW g \in Slots, Queued(g)' \/ Taken(g)'
    PROVE  Queued(g) \/ Taken(g) \/ (alive /\ g \in ConnFds /\ <<g, "in">> \in events)
<1> DEFINE Goal == Queued(g) \/ Taken(g) \/ (alive /\ g \in ConnFds /\ <<g, "in">> \in events)
<1>1. ASSUME UNCHANGED <<waiting, running>> PROVE Goal
    BY <1>1 DEF Queued, Taken
<1>2. ASSUME NEW f \in ConnFds, Input(f) PROVE Goal
  <2>1. alive /\ <<f, "in">> \in events /\ UNCHANGED running
      BY <1>2 DEF Input, HandleInput, Handle, Reached, AtLoop
  <2>2. Taken(g)' => Taken(g)
      BY <2>1 DEF Taken
  <2>3. CASE waiting' = waiting
      BY <1>1, <2>1, <2>3
  <2>4. CASE waiting' = Append(waiting, f)
      BY <2>1, <2>2, <2>4, Appended, Numbers DEF SystemInv, IInv, TypeOK
  <2> QED BY <1>2, <2>3, <2>4 DEF Input, HandleInput
<1>3. ASSUME NEW w \in Workers, Take(w) PROVE Goal
    BY <1>3, Started DEF Take, TakeRequest, SystemInv, IInv
<1>4. ASSUME NEW w \in Workers, Answer(w) PROVE Goal
  <2>1. UNCHANGED waiting /\ running' = [running EXCEPT ![w] = NULL]
      BY <1>4, WorkerSteps
  <2>2. running \in [Workers -> Slots \cup {NULL}] /\ g # NULL
      BY ServerAssumption DEF SystemInv, IInv, TypeOK
  <2> QED BY <2>1, <2>2 DEF Queued, Taken
<1>5. ASSUME NEW w \in Workers, Gets(w) \/ Releases(w) PROVE Goal
    BY <1>1, <1>5, WorkerSteps
<1> QED BY <1>1, <1>2, <1>3, <1>4, <1>5, StepCases DEF Idling

LEMMA OnlyConnectionsStep == SystemInv /\ [SystemNext]_systemVars => OnlyConnections'
BY NewlyBusy DEF SystemInv, OnlyConnections

(* The one worker that had the request gives it up.                        *)
LEMMA AnswerSettles ==
    ASSUME SystemInv, NEW w \in Workers, alive, Answer(w)
    PROVE  /\ request[w] \in ConnFds /\ interest[request[w]] = "spent"
           /\ <<request[w], "in">> \notin events
           /\ ~Queued(request[w])' /\ ~Taken(request[w])'
           /\ request[w] \notin served
<1> DEFINE f == request[w]
<1>1. Threads!Working(w) /\ Taken(f)
    BY WorkerSteps DEF Threads!Working, Taken
<1>2. f \in ConnFds /\ interest[f] = "spent" /\ <<f, "in">> \notin events
    BY <1>1, InHand
<1>3. f \notin served
    BY <1>1 DEF SystemInv, Settled
<1>4. ~Queued(f)
  <2>1. f \in Threads!Running
      BY <1>1 DEF Threads!Running
  <2> QED BY <2>1, InList
          DEF SystemInv, PoolSafe, Threads!OneWorkerPerHandler, IInv, TypeOK
<1>5. ~Queued(f)'
    BY <1>4, WorkerSteps DEF Queued
<1>6. ASSUME NEW v \in Workers, running'[v] = f PROVE FALSE
  <2>1. /\ running' = [running EXCEPT ![w] = NULL] /\ f # NULL
        /\ running \in [Workers -> Slots \cup {NULL}]
    <3>1. running' = [running EXCEPT ![w] = NULL]
        BY WorkerSteps
    <3> QED BY <1>2, <3>1, Numbers, ServerAssumption DEF SystemInv, IInv, TypeOK
  <2>2. v # w /\ running[v] = f
      BY <1>6, <2>1
  <2>3. Threads!Working(v) /\ request[v] = request[w]
      BY <2>1, <2>2 DEF SystemInv, Agreement, Threads!Working
  <2> QED BY <1>1, <2>2, <2>3 DEF SystemInv, PoolSafe, Threads!OneWorkerPerHandler
<1>7. ~Taken(f)'
    BY <1>6, WorkerSteps DEF Taken
<1> QED BY <1>2, <1>3, <1>5, <1>7

LEMMA SettledStep == SystemInv /\ [SystemNext]_systemVars => Settled'
<1> SUFFICES ASSUME SystemInv, [SystemNext]_systemVars, alive', NEW f \in served'
             PROVE  /\ f \in ConnFds /\ interest'[f] = "spent" /\ <<f, "in">> \notin events'
                    /\ ~Queued(f)' /\ ~Taken(f)'
    BY DEF Settled
<1>1. IInv /\ [Next]_vars /\ served \subseteq Slots
    BY ServerStep DEF SystemInv, IInv, TypeOK
<1>2. CASE f \in served
  <2>1. f \in Slots /\ alive
      BY <1>1, <1>2, Registrations
  <2>2. /\ f \in ConnFds /\ interest[f] = "spent" /\ <<f, "in">> \notin events
        /\ ~Queued(f) /\ ~Taken(f)
      BY <1>2, <2>1 DEF SystemInv, Settled
  <2>3. interest'[f] = "spent" /\ <<f, "in">> \notin events'
      BY <1>1, <2>1, <2>2, Registrations
  <2> QED BY <2>1, <2>2, <2>3, NewlyBusy
<1>3. ASSUME NEW w \in Workers, Answer(w), f \notin served
      PROVE  /\ f \in ConnFds /\ interest'[f] = "spent" /\ <<f, "in">> \notin events'
             /\ ~Queued(f)' /\ ~Taken(f)'
  <2>1. f = request[w] /\ alive /\ UNCHANGED <<interest, events, request>>
      BY <1>3, WorkerSteps
  <2>2. ~Queued(request[w])' /\ ~Taken(request[w])'
      BY <1>3, <2>1, AnswerSettles
  <2>3. ~Queued(f)' /\ ~Taken(f)'
      BY <2>1, <2>2 DEF Queued, Taken
  <2> QED BY <1>3, <2>1, <2>3, AnswerSettles
<1>4. f \in served \/ \E w \in Workers : Answer(w)
  <2>1. ASSUME NEW g \in ConnFds, Input(g) PROVE served' = served
      BY <2>1 DEF Input, HandleInput
  <2>2. ASSUME NEW w \in Workers, Take(w) \/ Gets(w) \/ Releases(w) PROVE served' = served
      BY <2>2, WorkerSteps
  <2> QED BY <2>1, <2>2, StepCases DEF Idling
<1> QED BY <1>2, <1>3, <1>4

(* No other worker's request is changed by what one does with its own.     *)
LEMMA OtherRequests ==
    ASSUME SystemInv, NEW v \in Workers, NEW w \in Workers, v # w,
           Threads!Working(v), Threads!Working(w)
    PROVE  request[v] # request[w]
BY DEF SystemInv, PoolSafe, Threads!OneWorkerPerHandler

LEMMA ClearedStep == SystemInv /\ [SystemNext]_systemVars => Cleared'
<1> SUFFICES ASSUME SystemInv, [SystemNext]_systemVars, alive',
                    NEW v \in Workers, pc'[v] = "release"
             PROVE  request'[v] \in served' /\ mysql'[request'[v]] = NULL
    BY DEF Cleared
<1> DEFINE Goal == request'[v] \in served' /\ mysql'[request'[v]] = NULL
<1>1. /\ pc \in [Workers -> Threads!Steps]
      /\ request \in [Workers -> Slots \cup {NULL}]
      /\ mysql \in [Slots -> Connections \cup {NULL}]
      /\ \A w \in Workers : Threads!Working(w) => request[w] \in Slots
    BY DEF SystemInv, PoolSafe, Threads!TypeOK
<1>2. alive
    BY ServerStep, Registrations, Numbers DEF SystemInv
<1>3. pc[v] = "release" => request[v] \in served /\ mysql[request[v]] = NULL
    BY <1>2 DEF SystemInv, Cleared
<1>4. CASE Idling
    BY <1>1, <1>3, <1>4 DEF Idling
<1>5. ASSUME NEW f \in ConnFds, Input(f) PROVE Goal
    BY <1>3, <1>5 DEF Input, HandleInput, Threads!AppendPush, Threads!AppendRejected,
                      Threads!vars, Threads!connVars
<1>6. ASSUME NEW w \in Workers, Take(w) \/ Releases(w) PROVE Goal
  <2>1. /\ UNCHANGED <<served, mysql>>
        /\ \E step \in {"checkout", "wait"} : pc' = [pc EXCEPT ![w] = step]
        /\ \E r : request' = [request EXCEPT ![w] = r]
      BY <1>6, WorkerSteps
  <2> QED BY <1>1, <1>3, <2>1
<1>7. ASSUME NEW w \in Workers, Gets(w) PROVE Goal
  <2>1. /\ pc[w] = "checkout" /\ pc' = [pc EXCEPT ![w] = "process"]
        /\ \E c : mysql' = [mysql EXCEPT ![request[w]] = c]
        /\ UNCHANGED <<served, request>>
      BY <1>7, WorkerSteps
  <2>2. v # w /\ pc[v] = "release"
      BY <1>1, <2>1
  <2>3. request[v] # request[w]
      BY <2>1, <2>2, OtherRequests DEF Threads!Working
  <2> QED BY <1>1, <1>3, <2>1, <2>2, <2>3
<1>8. ASSUME NEW w \in Workers, Answer(w) PROVE Goal
  <2>1. /\ pc[w] = "process" /\ pc' = [pc EXCEPT ![w] = "release"]
        /\ mysql' = [mysql EXCEPT ![request[w]] = NULL]
        /\ served' = served \cup {request[w]} /\ UNCHANGED request
      BY <1>8, WorkerSteps
  <2>2. CASE v = w
    <3>1. request[w] \in Slots
        BY <1>1, <2>1 DEF Threads!Working
    <3> QED BY <1>1, <2>1, <2>2, <3>1
  <2>3. CASE v # w
    <3>1. pc[v] = "release"
        BY <1>1, <2>1, <2>3
    <3>2. mysql'[request[v]] \in {NULL, mysql[request[v]]}
        BY <1>1, <2>1, <3>1 DEF Threads!Working
    <3> QED BY <1>3, <2>1, <3>1, <3>2
  <2> QED BY <2>2, <2>3
<1> QED BY <1>4, <1>5, <1>6, <1>7, <1>8, StepCases

LEMMA FreshStep == SystemInv /\ [SystemNext]_systemVars => Fresh'
<1> SUFFICES ASSUME SystemInv, [SystemNext]_systemVars, alive',
                    NEW f \in Slots, interest'[f] = "none"
             PROVE  mysql'[f] = NULL
    BY DEF Fresh
<1>1. alive /\ interest[f] = "none"
    BY ServerStep, Registrations DEF SystemInv
<1>2. mysql[f] = NULL /\ mysql \in [Slots -> Connections \cup {NULL}]
    BY <1>1 DEF SystemInv, Fresh, PoolSafe, Threads!TypeOK
<1>3. ASSUME UNCHANGED mysql PROVE mysql'[f] = NULL
    BY <1>2, <1>3
<1>4. ASSUME NEW g \in ConnFds, Input(g) PROVE UNCHANGED mysql
    BY <1>4 DEF Input, Threads!AppendPush, Threads!AppendRejected, Threads!vars,
                Threads!connVars
<1>5. ASSUME NEW w \in Workers, Take(w) \/ Releases(w) PROVE UNCHANGED mysql
    BY <1>5, WorkerSteps
<1>6. ASSUME NEW w \in Workers, Gets(w) PROVE mysql'[f] = NULL
  <2>1. pc[w] = "checkout" /\ \E c : mysql' = [mysql EXCEPT ![request[w]] = c]
      BY <1>6, WorkerSteps
  <2>2. interest[request[w]] = "spent"
      BY <1>1, <2>1, InHand DEF Threads!Working
  <2> QED BY <1>1, <1>2, <2>1, <2>2
<1>7. ASSUME NEW w \in Workers, Answer(w) PROVE mysql'[f] = NULL
  <2>1. mysql' = [mysql EXCEPT ![request[w]] = NULL]
      BY <1>7, WorkerSteps
  <2> QED BY <1>2, <2>1
<1> QED BY <1>3, <1>4, <1>5, <1>6, <1>7, StepCases DEF Idling

(* Every step keeps the server, its pool and their agreement.              *)
LEMMA SystemInvStep == SystemInv /\ [SystemNext]_systemVars => SystemInv'
<1> SUFFICES ASSUME SystemInv, [SystemNext]_systemVars PROVE SystemInv'
    OBVIOUS
<1>1. IInv' /\ PoolInv'
    BY ServerStep, SafeStep, PoolStep DEF SystemInv
<1>2. PoolSafe'
    BY ThreadsStep, PoolSafeStep DEF SystemInv
<1> QED BY <1>1, <1>2, AgreementStep, OnlyConnectionsStep, SettledStep, ClearedStep,
           FreshStep DEF SystemInv

LEMMA SystemSafe == SystemSpec => []SystemInv
BY SystemInvInit, SystemInvStep, PTL DEF SystemSpec

(* The loop, with workers that interrupted waits and process() leave       *)
(* wherever they may, calls append() only for what the     *)
(* pool does not have, and the pool is used as ThreadPool says it is.      *)
THEOREM SystemImplementsPool == SystemSpec => ImplementsPool
BY SystemSafe, ThreadsStep, PTL DEF SystemSpec, SystemInit, ImplementsPool

(* So all that is proved of ThreadPool for any caller that keeps its side  *)
(* is so in the server: one worker on a handler, no lost wake-up, every    *)
(* connection free, held or lost.                                          *)
THEOREM PoolIsSafe ==
    SystemSpec => [](/\ Threads!OneWorkerPerHandler
                     /\ Threads!NoStrandedRequest /\ Threads!UnitsBounded
                     /\ Threads!ConnectionsAccounted /\ Threads!NullOnlyAfterLoss)
<1>1. PoolSafe => Threads!UnitsBounded
  <2>1. ProvenSafe => Proven!UnitsBounded
      BY PoolParameters, Proven!UnitsLeftBounds DEF ProvenSafe, Proven!UnitsLeftBounds
  <2>2. Threads!UnitsBounded <=> Proven!UnitsBounded
      BY Zenon DEF Threads!UnitsBounded, Proven!UnitsBounded,
                   Threads!Cardinality, Proven!Cardinality
  <2> QED BY <2>1, <2>2, SameSafe
<1> QED BY <1>1, SystemSafe, PTL DEF SystemInv, PoolSafe

-------------------------------------------------------------------------------
(* The database connections.                                               *)

LEMMA SpentCounted ==
    ASSUME SystemInv
    PROVE  /\ IsFiniteSet(served) /\ Cardinality(served) \in Nat
           /\ IsFiniteSet(Processing) /\ Cardinality(Processing) \in Nat
           /\ Cardinality(Connections) \in Nat
<1>1. IsFiniteSet(served)
  <2>1. served \subseteq Slots
      BY DEF SystemInv, IInv, TypeOK
  <2> QED BY <2>1, Numbers, FS_Subset
<1>2. IsFiniteSet(Processing)
  <2>1. Processing \subseteq Workers
      BY DEF Processing
  <2> QED BY <2>1, SystemAssumption, FS_Subset
<1> QED BY <1>1, <1>2, SystemAssumption, FS_CardinalityType

(* Steps that leave the free list, the answers and process() alone.        *)
LEMMA UseUpStays ==
    ASSUME AnswersUseUpConnections, alive' => alive /\ served' = served,
           Processing' = Processing, UNCHANGED <<conn_list, mysql>>,
           \A w \in Processing : request'[w] = request[w]
    PROVE  AnswersUseUpConnections'
BY DEF AnswersUseUpConnections, Spent

LEMMA UseUpGets ==
    ASSUME SystemInv, AnswersUseUpConnections, NEW w \in Workers, Gets(w)
    PROVE  AnswersUseUpConnections'
<1>1. /\ alive /\ conn_list \in Seq(Connections)
      /\ pc \in [Workers -> Threads!Steps] /\ mysql \in [Slots -> Connections \cup {NULL}]
      /\ \A v \in Workers : Threads!Working(v) => request[v] \in Slots
    BY DEF Gets, SystemInv, PoolSafe, Threads!TypeOK
<1>2. /\ pc[w] = "checkout" /\ pc' = [pc EXCEPT ![w] = "process"]
      /\ mysql' = [mysql EXCEPT ![request[w]] = IF conn_list = << >> THEN NULL
                                               ELSE Head(conn_list)]
      /\ conn_list' = IF conn_list = << >> THEN << >> ELSE Tail(conn_list)
      /\ UNCHANGED <<served, request>>
    BY WorkerSteps
<1>3. Spent' = Spent + 1 /\ Spent \in Nat
  <2>1. Processing' = Processing \cup {w} /\ w \notin Processing
      BY <1>1, <1>2 DEF Processing
  <2>2. Cardinality(Processing') = Cardinality(Processing) + 1
      BY <2>1, SpentCounted, FS_AddElement
  <2> QED BY <1>2, <2>2, SpentCounted DEF Spent
<1>4. CASE conn_list = << >>
  <2>1. conn_list' = << >> /\ Len(conn_list) = 0 /\ Len(conn_list') = 0
      BY <1>2, <1>4
  <2> QED BY <1>1, <1>3, <2>1, SpentCounted DEF AnswersUseUpConnections
<1>5. CASE conn_list # << >>
  <2>1. /\ conn_list' = Tail(conn_list) /\ Head(conn_list) \in Connections
        /\ Len(conn_list) \in Nat /\ Len(conn_list') = Len(conn_list) - 1
      BY <1>1, <1>2, <1>5, HeadTailProperties
  <2>2. Len(conn_list') = IF Spent' < Cardinality(Connections)
                          THEN Cardinality(Connections) - Spent' ELSE 0
    <3>1. Len(conn_list) # 0
        BY <1>1, <1>5, EmptySeq
    <3> QED BY <1>1, <1>3, <2>1, <3>1, SpentCounted DEF AnswersUseUpConnections
  <2>3. ASSUME NEW v \in Processing' PROVE mysql'[request'[v]] # NULL
    <3>1. mysql' = [mysql EXCEPT ![request[w]] = Head(conn_list)] /\ request[w] \in Slots
        BY <1>1, <1>2, <1>5 DEF Threads!Working
    <3>2. CASE v = w
        BY <1>1, <1>2, <2>1, <3>1, <3>2, SystemAssumption
    <3>3. CASE v # w
      <4>1. v \in Processing
          BY <1>1, <1>2, <2>3, <3>3 DEF Processing
      <4>2. Threads!Working(v) /\ Threads!Working(w) /\ v \in Workers
          BY <1>2, <4>1 DEF Processing, Threads!Working
      <4>3. request[v] # request[w] /\ request[v] \in Slots
          BY <1>1, <3>3, <4>2, OtherRequests
      <4>4. mysql[request[v]] # NULL
          BY <1>1, <1>5, <4>1 DEF AnswersUseUpConnections
      <4> QED BY <1>1, <1>2, <3>1, <4>3, <4>4
    <3> QED BY <3>2, <3>3
  <2> QED BY <1>1, <2>2, <2>3 DEF AnswersUseUpConnections
<1> QED BY <1>4, <1>5

LEMMA UseUpAnswer ==
    ASSUME SystemInv, AnswersUseUpConnections, NEW w \in Workers, Answer(w)
    PROVE  AnswersUseUpConnections'
<1>1. /\ alive
      /\ pc \in [Workers -> Threads!Steps] /\ mysql \in [Slots -> Connections \cup {NULL}]
      /\ \A v \in Workers : Threads!Working(v) => request[v] \in Slots
    BY DEF Answer, AnswerAndLinger, InProcess, SystemInv, PoolSafe, Threads!TypeOK
<1>2. /\ pc[w] = "process" /\ pc' = [pc EXCEPT ![w] = "release"]
      /\ mysql' = [mysql EXCEPT ![request[w]] = NULL]
      /\ served' = served \cup {request[w]}
      /\ UNCHANGED <<request, conn_list>>
    BY WorkerSteps
<1>3. Spent' = Spent
  <2>1. Processing' = Processing \ {w} /\ w \in Processing
      BY <1>1, <1>2 DEF Processing
  <2>2. Cardinality(Processing') = Cardinality(Processing) - 1
      BY <2>1, SpentCounted, FS_RemoveElement
  <2>3. Cardinality(served') = Cardinality(served) + 1
      BY <1>1, <1>2, AnswerSettles, SpentCounted, FS_AddElement
  <2> QED BY <2>2, <2>3, SpentCounted DEF Spent
<1>4. ASSUME conn_list # << >>, NEW v \in Processing' PROVE mysql'[request'[v]] # NULL
  <2>1. v \in Processing /\ v # w /\ v \in Workers
      BY <1>1, <1>2, <1>4 DEF Processing
  <2>2. Threads!Working(v) /\ Threads!Working(w)
      BY <1>2, <2>1 DEF Processing, Threads!Working
  <2>3. request[v] # request[w] /\ request[v] \in Slots
      BY <1>1, <2>1, <2>2, OtherRequests
  <2>4. mysql[request[v]] # NULL
      BY <1>1, <1>4, <2>1 DEF AnswersUseUpConnections
  <2> QED BY <1>1, <1>2, <2>3, <2>4
<1> QED BY <1>1, <1>2, <1>3, <1>4 DEF AnswersUseUpConnections

LEMMA UseUpStep ==
    SystemInv /\ AnswersUseUpConnections /\ [SystemNext]_systemVars
        => AnswersUseUpConnections'
<1> SUFFICES ASSUME SystemInv, AnswersUseUpConnections, [SystemNext]_systemVars
             PROVE  AnswersUseUpConnections'
    OBVIOUS
<1>1. alive' => alive
    BY ServerStep, Registrations, Numbers DEF SystemInv
<1>2. pc \in [Workers -> Threads!Steps] /\ request \in [Workers -> Slots \cup {NULL}]
    BY DEF SystemInv, PoolSafe, Threads!TypeOK
<1>3. CASE Idling
  <2>1. Processing' = Processing
      BY <1>3 DEF Idling, Processing
  <2> QED BY <1>1, <1>3, <2>1, UseUpStays DEF Idling
<1>4. ASSUME NEW f \in ConnFds, Input(f) PROVE AnswersUseUpConnections'
  <2>1. UNCHANGED <<served, pc, request, conn_list, mysql>>
      BY <1>4 DEF Input, HandleInput, Threads!AppendPush, Threads!AppendRejected,
                  Threads!vars, Threads!connVars
  <2> QED BY <1>1, <2>1, UseUpStays DEF Processing
<1>5. ASSUME NEW w \in Workers, Take(w) PROVE AnswersUseUpConnections'
  <2>1. /\ pc[w] = "woken" /\ pc' = [pc EXCEPT ![w] = "checkout"]
        /\ request' = [request EXCEPT ![w] = Head(waiting)]
        /\ UNCHANGED <<served, conn_list, mysql>>
      BY <1>5, WorkerSteps
  <2>2. Processing' = Processing /\ \A v \in Processing : request'[v] = request[v]
      BY <1>2, <2>1 DEF Processing
  <2> QED BY <1>1, <2>1, <2>2, UseUpStays
<1>6. ASSUME NEW w \in Workers, Releases(w) PROVE AnswersUseUpConnections'
  <2>1. /\ pc[w] = "release" /\ pc' = [pc EXCEPT ![w] = "wait"]
        /\ request' = [request EXCEPT ![w] = NULL]
        /\ conn_list' = IF mysql[request[w]] = NULL THEN conn_list
                        ELSE Append(conn_list, mysql[request[w]])
        /\ UNCHANGED <<served, mysql>>
      BY <1>6, WorkerSteps
  <2>2. mysql[request[w]] = NULL
      BY <1>6, <2>1 DEF Releases, SystemInv, Cleared
  <2>3. Processing' = Processing /\ \A v \in Processing : request'[v] = request[v]
      BY <1>2, <2>1 DEF Processing
  <2> QED BY <1>1, <2>1, <2>2, <2>3, UseUpStays
<1> QED BY <1>3, <1>4, <1>5, <1>6, UseUpGets, UseUpAnswer, StepCases

LEMMA UseUpInit == SystemInit => AnswersUseUpConnections
<1> SUFFICES ASSUME SystemInit PROVE AnswersUseUpConnections
    OBVIOUS
<1>1. /\ served = {} /\ pc = [w \in Workers |-> "wait"]
      /\ conn_list \in [1..Cardinality(Connections) -> Connections]
    BY DEF SystemInit, Init, Threads!Init, Threads!Cardinality, Cardinality
<1>2. Processing = {}
    BY <1>1 DEF Processing
<1>3. Spent = 0
    BY <1>1, <1>2, FS_EmptySet DEF Spent
<1>4. Cardinality(Connections) \in Nat
    BY SystemAssumption, FS_CardinalityType
<1>5. conn_list \in Seq(Connections) /\ Len(conn_list) = Cardinality(Connections)
    BY <1>1, <1>4
<1> QED BY <1>2, <1>3, <1>4, <1>5 DEF AnswersUseUpConnections

(* For any number of workers and connections: each answer, given or under  *)
(* way, has taken a connection out of the free list for good.              *)
THEOREM AnswersUseUpConnectionsHolds == SystemSpec => []AnswersUseUpConnections
BY SystemSafe, UseUpInit, UseUpStep, PTL DEF SystemSpec
===============================================================================
