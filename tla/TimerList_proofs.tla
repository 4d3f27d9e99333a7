--------------------------- MODULE TimerList_proofs ---------------------------
(***************************************************************************)
(* The linked list of TimerList is one list in the order of expiry, and    *)
(* implements SortedTimers, for any number of timers and any clock.        *)
(***************************************************************************)
EXTENDS TimerList, TimerOrder_proofs, FiniteSetTheorems

(* The links nx lead from start through the nodes of q and end there.      *)
Linked(q, nx, start) ==
    /\ start = IF Len(q) = 0 THEN NULL ELSE q[1]
    /\ \A i \in 1..Len(q) : nx[q[i]] = IF i = Len(q) THEN NULL ELSE q[i + 1]

Distinct(q) == \A i, j \in 1..Len(q) : q[i] = q[j] => i = j

-------------------------------------------------------------------------------
(* Path visits the nodes of q, and stays at NULL.                          *)
LEMMA PathIs ==
    ASSUME NEW nx, NEW start, NEW q \in Seq(Timers), Linked(q, nx, start)
    PROVE  \A k \in Nat :
               Path(nx, start)[k] = IF k < Len(q) THEN q[k + 1] ELSE NULL
<1> DEFINE Step == [x \in Timers \cup {NULL, Freed} |-> IF x \in Timers THEN nx[x] ELSE x]
           F(f) == [k \in Nat |-> IF k = 0 THEN start ELSE Step[f[k - 1]]]
           g == [k \in Nat |-> IF k < Len(q) THEN q[k + 1] ELSE NULL]
           node == Path(nx, start)
<1>1. /\ Len(q) \in Nat
      /\ \A i \in 1..Len(q) : q[i] \in Timers
      /\ NULL \notin Timers
    BY LenProperties, ElementOfSeq, TimerListAssumption
<1>2. g[0] = start
    BY <1>1 DEF Linked
<1>3. \A k \in Nat \ {0} : g[k] = Step[g[k - 1]]
  <2> TAKE k \in Nat \ {0}
  <2>1. k - 1 \in Nat
      OBVIOUS
  <2>2. CASE k - 1 < Len(q)
    <3>1. k \in 1..Len(q) /\ g[k - 1] = q[k]
        BY <1>1, <2>1, <2>2
    <3>2. Step[g[k - 1]] = nx[q[k]]
        BY <1>1, <3>1
    <3>3. nx[q[k]] = IF k = Len(q) THEN NULL ELSE q[k + 1]
        BY <3>1 DEF Linked
    <3>4. g[k] = IF k = Len(q) THEN NULL ELSE q[k + 1]
        BY <1>1, <2>2, <3>1
    <3> QED BY <3>2, <3>3, <3>4
  <2>3. CASE ~(k - 1 < Len(q))
    <3>1. g[k] = NULL /\ g[k - 1] = NULL
        BY <1>1, <2>1, <2>3
    <3>2. Step[NULL] = NULL
        BY <1>1
    <3> QED BY <3>1, <3>2
  <2> QED BY <2>2, <2>3
<1> HIDE DEF Step
<1>4. g = F(g)
    BY <1>2, <1>3
<1>5. node = CHOOSE f : f = F(f)
    BY Zenon DEF Path, Step
<1> HIDE DEF F, g, node
<1>6. node = F(node)
    BY <1>4, <1>5, Zenon
<1>7. node[0] = start /\ \A k \in Nat \ {0} : node[k] = Step[node[k - 1]]
    BY <1>6 DEF F
<1> DEFINE Differ == {k \in Nat : node[k] # g[k]}
<1>8. Differ = {}
  <2> SUFFICES ASSUME Differ # {}
               PROVE  FALSE
      OBVIOUS
  <2>1. PICK m \in Differ : \A k \in Differ : m <= k
      BY LeastExists
  <2>2. m \in Nat \ {0} /\ m - 1 \in Nat /\ m - 1 \notin Differ
      BY <1>2, <1>7, <2>1
  <2>3. node[m - 1] = g[m - 1]
      BY <2>2
  <2>4. node[m] = g[m]
      BY <1>3, <1>7, <2>2, <2>3
  <2> QED BY <2>1, <2>4
<1>9. \A k \in Nat : node[k] = g[k]
    BY <1>8
<1> QED BY <1>9 DEF node, g

(* There are no more places than timers.                                   *)
LEMMA FitsTimers ==
    ASSUME NEW q \in Seq(Timers), Distinct(q)
    PROVE  /\ Len(q) \in Nat /\ Cardinality(Timers) \in Nat
           /\ Len(q) <= Cardinality(Timers)
           /\ IsFiniteSet({q[i] : i \in 1..Len(q)})
           /\ Cardinality({q[i] : i \in 1..Len(q)}) = Len(q)
<1> DEFINE S == {q[i] : i \in 1..Len(q)}
<1>1. /\ Len(q) \in Nat /\ q \in [1..Len(q) -> Timers] /\ IsFiniteSet(Timers)
    BY LenProperties, TimerListAssumption
<1>2. IsFiniteSet(1..Len(q)) /\ Cardinality(1..Len(q)) = Len(q)
    BY <1>1, FS_Interval
<1>3. q \in [1..Len(q) -> S] /\ S \subseteq Timers
    BY <1>1
<1>4. q \in Bijection(1..Len(q), S)
    BY <1>3 DEF Distinct, Bijection, Injection, IsInjective, Surjection
<1>5. ExistsBijection(1..Len(q), S)
    BY <1>4 DEF ExistsBijection
<1>6. IsFiniteSet(S) /\ Cardinality(S) = Len(q)
    BY <1>2, <1>5, FS_Bijection
<1>7. Cardinality(S) <= Cardinality(Timers)
    BY <1>1, <1>3, FS_Subset
<1> QED BY <1>1, <1>6, <1>7, FS_CardinalityType

(* Chain collects exactly the nodes of q.                                  *)
LEMMA ChainIs ==
    ASSUME NEW nx, NEW start, NEW q \in Seq(Timers), Linked(q, nx, start),
           Distinct(q)
    PROVE  Chain(nx, start) = q
<1> DEFINE N == Cardinality(Timers)
           P == Path(nx, start)
           ends == {k \in 0..N : P[k] \notin Timers} \cup {N}
           n == Min(ends)
<1>1. /\ Len(q) \in Nat /\ N \in Nat /\ Len(q) <= N
      /\ \A i \in 1..Len(q) : q[i] \in Timers
      /\ NULL \notin Timers
      /\ q = [i \in 1..Len(q) |-> q[i]]
    BY FitsTimers, LenProperties, ElementOfSeq, TimerListAssumption
<1>2. \A k \in Nat : P[k] = IF k < Len(q) THEN q[k + 1] ELSE NULL
    BY PathIs
<1>3. Chain(nx, start) = [k \in 1..n |-> P[k - 1]]
    BY DEF Chain
<1> HIDE DEF P, N
<1>4. Len(q) \in ends
    BY <1>1, <1>2
<1>5. \A k \in ends : Len(q) <= k
    BY <1>1, <1>2
<1>6. n = Len(q)
  <2>1. \E m \in ends : \A k \in ends : m <= k
      BY <1>4, <1>5
  <2>2. n \in ends /\ \A k \in ends : n <= k
      BY <2>1, Zenon DEF Min
  <2>3. n \in Nat
      BY <1>1, <2>2
  <2>4. n <= Len(q) /\ Len(q) <= n
      BY <1>4, <1>5, <2>2, Zenon
  <2> HIDE DEF n
  <2> QED BY <1>1, <2>3, <2>4
<1>7. \A k \in 1..Len(q) : P[k - 1] = q[k]
    BY <1>1, <1>2
<1> QED BY <1>1, <1>3, <1>6, <1>7

-------------------------------------------------------------------------------
(* q is the list: its nodes are linked both ways from head to tail, are    *)
(* the timers that exist, and expire in this order, none later than a      *)
(* timer that is set now.                                                  *)
IsList(q) ==
    /\ Linked(q, next, head)
    /\ Distinct(q)
    /\ live = {q[i] : i \in 1..Len(q)}
    /\ Len(q) > 0 => tail = q[Len(q)]
    /\ \A i \in 1..Len(q) : prev[q[i]] = IF i = 1 THEN NULL ELSE q[i - 1]
    /\ \A i, j \in 1..Len(q) : i <= j => expire[q[i]] <= expire[q[j]]
    /\ \A i \in 1..Len(q) : expire[q[i]] <= now + Lifetime

IInv == TypeOK /\ \E q \in Seq(Timers) : IsList(q)

(* What becomes of the list.                                               *)
Added(q, t)   == [k \in 1..(Len(q) + 1) |-> IF k <= Len(q) THEN q[k] ELSE t]
Cut(q, i)     == [k \in 1..(Len(q) - 1) |-> IF k < i THEN q[k] ELSE q[k + 1]]
Moved(q, i)   == [k \in 1..Len(q) |-> IF k < i THEN q[k]
                                      ELSE IF k < Len(q) THEN q[k + 1] ELSE q[i]]
Dropped(q, n) == [k \in 1..(Len(q) - n) |-> q[k + n]]

LEMMA ListFacts ==
    ASSUME NEW q \in Seq(Timers)
    PROVE  /\ Len(q) \in Nat
           /\ \A i \in 1..Len(q) : q[i] \in Timers
           /\ \A i : q[i] = NULL => i \notin 1..Len(q)
           /\ NULL \notin Timers /\ Freed \notin Timers /\ NULL # Freed
           /\ Lifetime \in Nat \ {0} /\ MaxTime \in Nat
BY LenProperties, ElementOfSeq, TimerListAssumption

LEMMA AddedFacts ==
    ASSUME NEW q \in Seq(Timers), NEW t \in Timers
    PROVE  /\ Added(q, t) \in Seq(Timers)
           /\ Len(Added(q, t)) = Len(q) + 1
           /\ \A i \in 1..Len(q) : Added(q, t)[i] = q[i]
           /\ Added(q, t)[Len(q) + 1] = t
<1>1. Len(q) \in Nat /\ \A i \in 1..Len(q) : q[i] \in Timers
    BY ListFacts
<1>2. Added(q, t) \in [1..(Len(q) + 1) -> Timers]
    BY <1>1 DEF Added
<1>3. Added(q, t) \in Seq(Timers) /\ Len(Added(q, t)) = Len(q) + 1
    BY <1>1, <1>2, SeqDef
<1> QED BY <1>1, <1>3 DEF Added

LEMMA CutFacts ==
    ASSUME NEW q \in Seq(Timers), NEW i \in 1..Len(q)
    PROVE  /\ Cut(q, i) \in Seq(Timers)
           /\ Len(Cut(q, i)) = Len(q) - 1
           /\ \A k \in 1..(i - 1) : Cut(q, i)[k] = q[k]
           /\ \A k \in i..(Len(q) - 1) : Cut(q, i)[k] = q[k + 1]
<1>1. Len(q) \in Nat /\ \A k \in 1..Len(q) : q[k] \in Timers
    BY ListFacts
<1>2. Cut(q, i) \in [1..(Len(q) - 1) -> Timers]
    BY <1>1 DEF Cut
<1>3. Cut(q, i) \in Seq(Timers) /\ Len(Cut(q, i)) = Len(q) - 1
    BY <1>1, <1>2, SeqDef
<1> QED BY <1>1, <1>3 DEF Cut

LEMMA MovedFacts ==
    ASSUME NEW q \in Seq(Timers), NEW i \in 1..Len(q)
    PROVE  /\ Moved(q, i) \in Seq(Timers)
           /\ Len(Moved(q, i)) = Len(q)
           /\ \A k \in 1..(i - 1) : Moved(q, i)[k] = q[k]
           /\ \A k \in i..(Len(q) - 1) : Moved(q, i)[k] = q[k + 1]
           /\ Moved(q, i)[Len(q)] = q[i]
<1>1. Len(q) \in Nat /\ \A k \in 1..Len(q) : q[k] \in Timers
    BY ListFacts
<1>2. Moved(q, i) \in [1..Len(q) -> Timers]
    BY <1>1 DEF Moved
<1>3. Moved(q, i) \in Seq(Timers) /\ Len(Moved(q, i)) = Len(q)
    BY <1>1, <1>2, SeqDef
<1> QED BY <1>1, <1>3 DEF Moved

LEMMA DroppedFacts ==
    ASSUME NEW q \in Seq(Timers), NEW n \in 0..Len(q)
    PROVE  /\ Dropped(q, n) \in Seq(Timers)
           /\ Len(Dropped(q, n)) = Len(q) - n
           /\ \A k \in 1..(Len(q) - n) : Dropped(q, n)[k] = q[k + n]
<1>1. Len(q) \in Nat /\ \A k \in 1..Len(q) : q[k] \in Timers
    BY ListFacts
<1>2. Dropped(q, n) \in [1..(Len(q) - n) -> Timers]
    BY <1>1 DEF Dropped
<1>3. Dropped(q, n) \in Seq(Timers) /\ Len(Dropped(q, n)) = Len(q) - n
    BY <1>1, <1>2, SeqDef
<1> QED BY <1>1, <1>3 DEF Dropped

(* _add_timer with an expiry that no node exceeds goes to the last one.    *)
LEMMA LastBeforeIs ==
    ASSUME NEW nx, NEW start, NEW q \in Seq(Timers), Linked(q, nx, start),
           Distinct(q), Len(q) > 0, NEW e \in Nat, TypeOK,
           \A i \in 1..Len(q) : expire[q[i]] <= e
    PROVE  LastBefore(nx, start, e) = q[Len(q)] /\ nx[q[Len(q)]] = NULL
<1> DEFINE S == {k \in DOMAIN q : nx[q[k]] \in Timers => e < expire[nx[q[k]]]}
<1>0. Len(q) \in Nat \ {0}
    BY ListFacts
<1>1. /\ DOMAIN q = 1..Len(q)
      /\ \A i \in 1..Len(q) : q[i] \in Timers
      /\ NULL \notin Timers
      /\ \A i \in 1..Len(q) : expire[q[i]] \in Nat
    BY ListFacts, LenProperties DEF TypeOK
<1>2. LastBefore(nx, start, e) = q[Min(S)]
    BY ChainIs, Zenon DEF LastBefore
<1>3. nx[q[Len(q)]] = NULL
    BY <1>0 DEF Linked
<1>4. Len(q) \in S
    BY <1>0, <1>1, <1>3
<1>5. \A k \in S : k = Len(q)
  <2> SUFFICES ASSUME NEW k \in 1..Len(q), k # Len(q),
                      nx[q[k]] \in Timers => e < expire[nx[q[k]]]
               PROVE  FALSE
      BY <1>1
  <2>1. k + 1 \in 1..Len(q)
      BY <1>0
  <2>2. nx[q[k]] = q[k + 1]
      BY DEF Linked
  <2>3. expire[q[k + 1]] <= e /\ expire[q[k + 1]] \in Nat /\ q[k + 1] \in Timers
      BY <1>1, <2>1
  <2> QED BY <2>2, <2>3
<1>6. S = {Len(q)}
    BY <1>4, <1>5
<1> HIDE DEF S
<1>7. Min(S) = Len(q)
  <2>1. \E m \in S : \A k \in S : m <= k
      BY <1>0, <1>6
  <2>2. Min(S) \in S
      BY <2>1, Zenon DEF Min
  <2> QED BY <1>6, <2>2
<1> QED BY <1>2, <1>3, <1>7

(* _add_timer with such an expiry links t behind the last node.            *)
LEMMA LinkAfterIs ==
    ASSUME NEW nx, NEW pv, NEW start, NEW q \in Seq(Timers), Linked(q, nx, start),
           Distinct(q), Len(q) > 0, NEW e \in Nat, TypeOK,
           \A i \in 1..Len(q) : expire[q[i]] <= e,
           NEW t \in Timers, LinkAfter(t, e, start, nx, pv)
    PROVE  /\ next' = [nx EXCEPT ![q[Len(q)]] = t, ![t] = NULL]
           /\ prev' = [x \in Timers |-> IF x = t THEN q[Len(q)] ELSE pv[x]]
           /\ tail' = t
<1> DEFINE p == LastBefore(nx, start, e)
<1>1. /\ next' = [nx EXCEPT ![p] = t, ![t] = nx[p]]
      /\ prev' = [x \in Timers |-> CASE x = t -> p
                                     [] x = nx[p] -> t
                                     [] OTHER -> pv[x]]
      /\ tail' = IF nx[p] = NULL THEN t ELSE tail
    BY DEF LinkAfter
<1>2. p = q[Len(q)] /\ nx[p] = NULL
    BY LastBeforeIs
<1> HIDE DEF p
<1>3. NULL \notin Timers
    BY TimerListAssumption
<1> QED BY <1>1, <1>2, <1>3

-------------------------------------------------------------------------------
(* What IsList says, ready for use.                                        *)
LEMMA ListIs ==
    ASSUME TypeOK, NEW q \in Seq(Timers), IsList(q)
    PROVE  /\ Len(q) \in Nat
           /\ \A i \in 1..Len(q) : /\ q[i] \in Timers
                                   /\ next[q[i]] = IF i = Len(q) THEN NULL ELSE q[i + 1]
                                   /\ prev[q[i]] = IF i = 1 THEN NULL ELSE q[i - 1]
                                   /\ expire[q[i]] \in Nat
                                   /\ expire[q[i]] <= now + Lifetime
           /\ now + Lifetime \in Nat
           /\ head = IF Len(q) = 0 THEN NULL ELSE q[1]
           /\ Len(q) > 0 => tail = q[Len(q)]
           /\ \A t \in Timers : t \in live <=> \E i \in 1..Len(q) : q[i] = t
BY ListFacts DEF TypeOK, IsList, Linked

LEMMA AddStep ==
    ASSUME TypeOK, NEW q \in Seq(Timers), IsList(q), NEW t \in Timers, Add(t)
    PROVE  TypeOK' /\ IsList(Added(q, t))'
<1> DEFINE n == Len(q)
           r == Added(q, t)
           nx == [next EXCEPT ![t] = NULL]
           pv == [prev EXCEPT ![t] = NULL]
<1>1. n \in Nat /\ n + 1 \in Nat /\ Len(r) = n + 1 /\ now + Lifetime \in Nat
    BY ListIs, AddedFacts
<1>2. \A i \in 1..n : q[i] \in Timers /\ q[i] # t /\ r[i] = q[i]
  <2>1. t \notin {q[i] : i \in 1..n}
      BY DEF Add, IsList
  <2>2. \A i \in 1..n : q[i] \in Timers
      BY ListIs
  <2>3. \A i \in 1..n : r[i] = q[i]
      BY AddedFacts
  <2> QED BY <2>1, <2>2, <2>3
<1>3. r[n + 1] = t /\ NULL \notin Timers /\ NULL # Freed
    BY AddedFacts, ListFacts
<1>4. /\ next \in [Timers -> Timers \cup {NULL, Freed}]
      /\ prev \in [Timers -> Timers \cup {NULL, Freed}]
      /\ expire \in [Timers -> Nat]
      /\ live' = live \cup {t}
      /\ expire' = [expire EXCEPT ![t] = now + Lifetime]
      /\ now' = now /\ fired' = fired
    BY DEF Add, TypeOK
<1>5. /\ head' = IF n = 0 THEN t ELSE head
      /\ tail' = t
      /\ next' = IF n = 0 THEN nx ELSE [nx EXCEPT ![q[n]] = t]
      /\ \A x \in Timers : prev'[x] = IF x # t THEN prev[x] ELSE IF n = 0 THEN NULL ELSE q[n]
      /\ prev' \in [Timers -> Timers \cup {NULL, Freed}]
  <2>1. CASE n = 0
    <3>1. head = NULL
        BY <2>1, ListIs
    <3> QED BY <2>1, <3>1, <1>4 DEF Add
  <2>2. CASE n # 0
    <3>1. head = q[1] /\ q[1] \in Timers /\ expire[q[1]] \in Nat
          /\ expire[q[1]] <= now + Lifetime /\ n \in 1..n
        BY <1>1, <2>2, ListIs
    <3>2. head # NULL /\ ~(now + Lifetime < expire[head])
        BY <1>1, <1>3, <3>1
    <3>3. LinkAfter(t, now + Lifetime, head, nx, pv) /\ head' = head
        BY <3>2, Zenon DEF Add
    <3>4. Linked(q, nx, head)
        BY <1>2, <1>4, ListIs DEF Linked
    <3>5. Distinct(q) /\ n > 0 /\ \A i \in 1..n : expire[q[i]] <= now + Lifetime
        BY <1>1, <2>2 DEF IsList
    <3>6. /\ next' = [nx EXCEPT ![q[n]] = t, ![t] = NULL]
          /\ prev' = [x \in Timers |-> IF x = t THEN q[n] ELSE pv[x]]
          /\ tail' = t
      <4> HIDE DEF nx, pv
      <4> QED BY <1>1, <3>3, <3>4, <3>5, LinkAfterIs, Zenon
    <3>7. [nx EXCEPT ![q[n]] = t, ![t] = NULL] = [nx EXCEPT ![q[n]] = t]
        BY <1>2, <1>4, <3>1
    <3> QED BY <1>2, <1>3, <1>4, <2>2, <3>1, <3>3, <3>6, <3>7
  <2> QED BY <2>1, <2>2
<1>6. \A i \in 1..(n + 1) : i = n + 1 \/ i \in 1..n
    BY <1>1
<1>7. TypeOK'
  <2>1. {head', tail'} \subseteq Timers \cup {NULL}
      BY <1>5 DEF TypeOK
  <2>2. next' \in [Timers -> Timers \cup {NULL, Freed}]
      BY <1>4, <1>5
  <2>3. expire' \in [Timers -> Nat] /\ live' \subseteq Timers
      BY <1>1, <1>4 DEF TypeOK
  <2> QED BY <1>4, <1>5, <2>1, <2>2, <2>3 DEF TypeOK
<1> HIDE DEF n, r
<1>8. Linked(r, next', head')
  <2>1. head' = r[1]
    <3>1. CASE n = 0
        BY <1>3, <1>5, <3>1
    <3>2. CASE n # 0
        BY <1>1, <1>2, <1>5, <3>2, ListIs DEF n
    <3> QED BY <3>1, <3>2
  <2>2. ASSUME NEW i \in 1..(n + 1)
        PROVE  next'[r[i]] = IF i = n + 1 THEN NULL ELSE r[i + 1]
    <3>1. CASE i = n + 1
        BY <1>1, <1>2, <1>3, <1>4, <1>5, <3>1
    <3>2. CASE i \in 1..n /\ i # n
      <4>1. next[q[i]] = q[i + 1] /\ i + 1 \in 1..n /\ n \in 1..n
          BY <1>1, <3>2, ListIs DEF n
      <4>2. q[i] # q[n]
          BY <1>1, <3>2, <4>1 DEF IsList, Distinct, n
      <4>3. next'[q[i]] = next[q[i]]
          BY <1>2, <1>4, <1>5, <3>2, <4>2
      <4> QED BY <1>1, <1>2, <3>2, <4>1, <4>3
    <3>3. CASE i \in 1..n /\ i = n
        BY <1>1, <1>2, <1>3, <1>4, <1>5, <3>3
    <3> QED BY <1>6, <3>1, <3>2, <3>3
  <2> QED BY <1>1, <2>1, <2>2 DEF Linked
<1>9. Distinct(r)
  <2>1. \A i, j \in 1..n : q[i] = q[j] => i = j
      BY DEF IsList, Distinct, n
  <2> QED BY <1>1, <1>2, <1>3, <1>6, <2>1 DEF Distinct
<1>10. live' = {r[i] : i \in 1..Len(r)}
  <2>1. live = {q[i] : i \in 1..n}
      BY DEF IsList, n
  <2>2. n + 1 \in 1..(n + 1) /\ \A i \in 1..n : i \in 1..(n + 1)
      BY <1>1
  <2> QED BY <1>1, <1>2, <1>3, <1>4, <1>6, <2>1, <2>2
<1>11. \A i \in 1..Len(r) : prev'[r[i]] = IF i = 1 THEN NULL ELSE r[i - 1]
  <2> SUFFICES ASSUME NEW i \in 1..(n + 1)
               PROVE  prev'[r[i]] = IF i = 1 THEN NULL ELSE r[i - 1]
      BY <1>1
  <2>1. CASE i = n + 1
    <3>1. CASE n = 0
        BY <1>3, <1>5, <2>1, <3>1
    <3>2. CASE n # 0
      <4>1. n \in 1..n /\ i # 1 /\ i - 1 = n
          BY <1>1, <2>1, <3>2
      <4> QED BY <1>2, <1>3, <1>5, <2>1, <3>2, <4>1
    <3> QED BY <3>1, <3>2
  <2>2. CASE i \in 1..n
    <3>1. prev[q[i]] = IF i = 1 THEN NULL ELSE q[i - 1]
        BY <2>2, ListIs DEF n
    <3>2. i = 1 \/ i - 1 \in 1..n
        BY <1>1, <2>2
    <3> QED BY <1>2, <1>5, <2>2, <3>1, <3>2
  <2> QED BY <1>6, <2>1, <2>2
<1>12. \A i \in 1..n : /\ expire'[r[i]] = expire[q[i]]
                       /\ expire[q[i]] <= now + Lifetime
    BY <1>2, <1>4, ListIs DEF n
<1>13. expire'[r[n + 1]] = now + Lifetime
    BY <1>3, <1>4
<1>14. \A i, j \in 1..Len(r) : i <= j => expire'[r[i]] <= expire'[r[j]]
  <2> SUFFICES ASSUME NEW i \in 1..(n + 1), NEW j \in 1..(n + 1), i <= j
               PROVE  expire'[r[i]] <= expire'[r[j]]
      BY <1>1
  <2>1. CASE j = n + 1
      BY <1>1, <1>6, <1>12, <1>13, <2>1
  <2>2. CASE j \in 1..n
    <3>1. i \in 1..n
        BY <1>1, <2>2
    <3>2. expire[q[i]] <= expire[q[j]]
        BY <2>2, <3>1 DEF IsList, n
    <3> QED BY <1>12, <2>2, <3>1, <3>2
  <2> QED BY <1>6, <2>1, <2>2
<1>15. \A i \in 1..Len(r) : expire'[r[i]] <= now' + Lifetime
    BY <1>1, <1>4, <1>6, <1>12, <1>13
<1>16. Len(r) > 0 => tail' = r[Len(r)]
    BY <1>1, <1>3, <1>5
<1> QED BY <1>7, <1>8, <1>9, <1>10, <1>11, <1>14, <1>15, <1>16 DEF IsList, r

LEMMA AdjustLast ==
    ASSUME TypeOK, NEW q \in Seq(Timers), IsList(q), Len(q) > 0,
           UNCHANGED <<head, tail, next, prev, live, now>>,
           expire' = [expire EXCEPT ![q[Len(q)]] = now + Lifetime]
    PROVE  IsList(Moved(q, Len(q)))'
<1> DEFINE n == Len(q)
<1>1. n \in Nat \ {0} /\ n \in 1..n /\ now + Lifetime \in Nat /\ expire \in [Timers -> Nat]
    BY ListIs DEF TypeOK
<1>2. Moved(q, n) = q
  <2>1. q = [k \in 1..n |-> q[k]]
      BY LenProperties
  <2>2. \A k \in 1..n : q[k] = IF k < n THEN q[k] ELSE IF k < n THEN q[k + 1] ELSE q[n]
      BY <1>1
  <2> QED BY <2>1, <2>2 DEF Moved
<1>3. \A i \in 1..n : /\ q[i] \in Timers
                      /\ expire[q[i]] \in Nat /\ expire[q[i]] <= now + Lifetime
    BY ListIs
<1>4. \A i, j \in 1..n : q[i] = q[j] => i = j
    BY DEF IsList, Distinct
<1>5. \A i \in 1..n : /\ expire'[q[i]] = IF i = n THEN now + Lifetime ELSE expire[q[i]]
                      /\ expire'[q[i]] <= now + Lifetime
    BY <1>1, <1>3, <1>4
<1>6. \A i, j \in 1..n : i <= j => expire'[q[i]] <= expire'[q[j]]
  <2> TAKE i, j \in 1..n
  <2> HAVE i <= j
  <2>1. CASE j = n
      BY <1>5, <2>1
  <2>2. CASE j # n
    <3>1. i # n
        BY <1>1, <2>2
    <3>2. expire[q[i]] <= expire[q[j]]
        BY DEF IsList
    <3> QED BY <1>5, <2>2, <3>1, <3>2
  <2> QED BY <2>1, <2>2
<1>7. IsList(q)'
    BY <1>5, <1>6 DEF IsList
<1> QED BY <1>2, <1>7

(* A timer that is not the last one goes to the end.                       *)
LEMMA AdjustLinks ==
    ASSUME TypeOK, NEW q \in Seq(Timers), IsList(q), NEW i \in 1..Len(q),
           Adjust(q[i]), i # Len(q)
    PROVE  /\ head' = IF i = 1 THEN q[2] ELSE head
           /\ tail' = q[i]
           /\ next' \in [Timers -> Timers \cup {NULL, Freed}]
           /\ prev' \in [Timers -> Timers \cup {NULL, Freed}]
           /\ \A x \in Timers :
                  next'[x] = IF x = q[i] THEN NULL
                             ELSE IF x = q[Len(q)] THEN q[i]
                             ELSE IF i > 1 /\ x = q[i - 1] THEN q[i + 1] ELSE next[x]
           /\ \A x \in Timers :
                  prev'[x] = IF x = q[i] THEN q[Len(q)]
                             ELSE IF x = q[i + 1] THEN (IF i = 1 THEN NULL ELSE q[i - 1])
                             ELSE prev[x]
<1> DEFINE n == Len(q)
           t == q[i]
           s == q[i + 1]
           e == now + Lifetime
           c == Dropped(q, i)
<1>1. n \in Nat /\ i \in Nat /\ i + 1 \in 1..n /\ n \in 1..n /\ i >= 1 /\ i < n /\ e \in Nat
    BY ListIs
<1>2. \A k \in 1..n : /\ q[k] \in Timers
                      /\ next[q[k]] = IF k = n THEN NULL ELSE q[k + 1]
                      /\ prev[q[k]] = IF k = 1 THEN NULL ELSE q[k - 1]
                      /\ expire[q[k]] \in Nat /\ expire[q[k]] <= e
    BY ListIs
<1>3. \A j, k \in 1..n : q[j] = q[k] => j = k
    BY DEF IsList, Distinct
<1>4. next[t] = s /\ t \in Timers /\ s \in Timers /\ s # t /\ q[n] # t /\ q[n] \in Timers
    BY <1>1, <1>2, <1>3
<1>5. head = q[1] /\ (t = head <=> i = 1) /\ NULL \notin Timers
  <2>1. head = q[1] /\ 1 \in 1..n
      BY <1>1, ListIs
  <2> QED BY <1>3, <2>1, ListFacts
<1>6. s # NULL /\ ~(e < expire[s])
    BY <1>1, <1>2, <1>4, <1>5
<1>7. /\ c \in Seq(Timers) /\ Len(c) = n - i
      /\ \A k \in 1..(n - i) : c[k] = q[k + i]
  <2>1. i \in 0..n
      BY <1>1
  <2> QED BY <2>1, DroppedFacts
<1> HIDE DEF c
<1>8. Distinct(c) /\ Len(c) > 0 /\ \A k \in 1..Len(c) : expire[c[k]] <= e
  <2>1. \A k \in 1..(n - i) : k + i \in 1..n
      BY <1>1
  <2>2. \A j, k \in 1..(n - i) : c[j] = c[k] => j = k
    <3> TAKE j, k \in 1..(n - i)
    <3> HAVE c[j] = c[k]
    <3>1. q[j + i] = q[k + i]
        BY <1>7
    <3>2. j + i = k + i
        BY <1>3, <2>1, <3>1
    <3> QED BY <1>1, <3>2
  <2>3. \A k \in 1..(n - i) : expire[c[k]] <= e
      BY <1>2, <1>7, <2>1
  <2> QED BY <1>1, <1>7, <2>2, <2>3 DEF Distinct
<1>9. c[Len(c)] = q[n]
  <2>1. n - i \in 1..(n - i) /\ (n - i) + i = n
      BY <1>1
  <2> QED BY <1>7, <2>1
<1>10. ASSUME NEW nx, \A k \in 1..n : k > i => nx[q[k]] = next[q[k]]
       PROVE  Linked(c, nx, s)
  <2>1. 1 \in 1..(n - i) /\ 1 + i = i + 1 /\ Len(c) # 0
      BY <1>1, <1>7
  <2>2. s = c[1]
      BY <1>7, <2>1
  <2>3. ASSUME NEW k \in 1..(n - i)
        PROVE  nx[c[k]] = IF k = n - i THEN NULL ELSE c[k + 1]
    <3>1. k + i \in 1..n /\ k + i > i /\ (k + i = n <=> k = n - i)
        BY <1>1
    <3>2. nx[c[k]] = IF k = n - i THEN NULL ELSE q[(k + i) + 1]
        BY <1>2, <1>7, <1>10, <3>1
    <3>3. CASE k = n - i
        BY <3>2, <3>3
    <3>4. CASE k # n - i
      <4>1. k + 1 \in 1..(n - i) /\ (k + 1) + i = (k + i) + 1
          BY <1>1, <3>4
      <4> QED BY <1>7, <3>2, <3>4, <4>1
    <3> QED BY <3>3, <3>4
  <2> QED BY <1>7, <2>1, <2>2, <2>3 DEF Linked
<1>11. ASSUME NEW nx, NEW pv, LinkAfter(t, e, s, nx, pv),
              \A k \in 1..n : k > i => nx[q[k]] = next[q[k]]
       PROVE  /\ next' = [nx EXCEPT ![q[n]] = t, ![t] = NULL]
              /\ prev' = [x \in Timers |-> IF x = t THEN q[n] ELSE pv[x]]
              /\ tail' = t
  <2>1. Linked(c, nx, s)
      BY <1>10, <1>11
  <2>2. /\ next' = [nx EXCEPT ![c[Len(c)]] = t, ![t] = NULL]
        /\ prev' = [x \in Timers |-> IF x = t THEN c[Len(c)] ELSE pv[x]]
        /\ tail' = t
    <3> HIDE DEF e, s, t
    <3>1. e \in Nat /\ t \in Timers /\ c \in Seq(Timers)
        BY <1>1, <1>4, <1>7, Zenon
    <3>2. Distinct(c) /\ Len(c) > 0 /\ \A k \in 1..Len(c) : expire[c[k]] <= e
        BY <1>8, Zenon
    <3>3. LinkAfter(t, e, s, nx, pv)
        BY <1>11, Zenon
    <3> QED BY <2>1, <3>1, <3>2, <3>3, LinkAfterIs, Zenon
  <2> QED BY <1>9, <2>2
<1>12. /\ next \in [Timers -> Timers \cup {NULL, Freed}]
       /\ prev \in [Timers -> Timers \cup {NULL, Freed}]
    BY DEF TypeOK
<1>13. CASE i = 1
  <2> DEFINE nx == [next EXCEPT ![t] = NULL]
             pv == [prev EXCEPT ![s] = NULL]
  <2>1. head' = s /\ LinkAfter(t, e, s, nx, pv)
      BY <1>4, <1>5, <1>6, <1>13, Zenon DEF Adjust
  <2>2. \A k \in 1..n : k > i => nx[q[k]] = next[q[k]]
      BY <1>1, <1>2, <1>3, <1>4, <1>12
  <2>3. /\ next' = [nx EXCEPT ![q[n]] = t, ![t] = NULL]
        /\ prev' = [x \in Timers |-> IF x = t THEN q[n] ELSE pv[x]]
        /\ tail' = t
    <3> HIDE DEF nx, pv, e, s, t
    <3> QED BY <1>11, <2>1, <2>2
  <2>4. i + 1 = 2
      BY <1>13
  <2> QED BY <1>4, <1>12, <1>13, <2>1, <2>3, <2>4
<1>14. CASE i # 1
  <2> DEFINE o == q[i - 1]
             nx == [next EXCEPT ![o] = s]
             pv == [prev EXCEPT ![s] = o]
  <2>1. i - 1 \in 1..n /\ i > 1 /\ prev[t] = o
      BY <1>1, <1>2, <1>14
  <2>2. o \in Timers /\ o # t /\ o # s /\ o # q[n]
      BY <1>1, <1>2, <1>3, <2>1
  <2>3. head' = head /\ LinkAfter(t, e, s, nx, pv)
    <3>1. prev[t] = o
        BY <2>1
    <3> QED BY <1>4, <1>5, <1>6, <1>14, <3>1, Zenon DEF Adjust
  <2>4. \A k \in 1..n : k > i => nx[q[k]] = next[q[k]]
      BY <1>1, <1>2, <1>3, <1>12, <2>1
  <2>5. /\ next' = [nx EXCEPT ![q[n]] = t, ![t] = NULL]
        /\ prev' = [x \in Timers |-> IF x = t THEN q[n] ELSE pv[x]]
        /\ tail' = t
    <3> HIDE DEF nx, pv, e, s, t, o
    <3> QED BY <1>11, <2>3, <2>4
  <2> QED BY <1>4, <1>12, <1>14, <2>1, <2>2, <2>3, <2>5
<1> QED BY <1>13, <1>14

LEMMA AdjustStep ==
    ASSUME TypeOK, NEW q \in Seq(Timers), IsList(q), NEW i \in 1..Len(q),
           Adjust(q[i])
    PROVE  TypeOK' /\ IsList(Moved(q, i))'
<1> DEFINE n == Len(q)
           r == Moved(q, i)
           e == now + Lifetime
<1>1. n \in Nat \ {0} /\ i \in Nat /\ i >= 1 /\ i <= n /\ n \in 1..n /\ e \in Nat
    BY ListIs
<1>2. /\ q[i] \in Timers
      /\ expire \in [Timers -> Nat]
      /\ live' = live /\ now' = now /\ fired' = fired
      /\ expire' = [expire EXCEPT ![q[i]] = e]
    BY ListFacts DEF Adjust, TypeOK
<1>3. CASE i = n
  <2>1. next[q[i]] = NULL
      BY <1>3, ListIs
  <2>2. UNCHANGED <<head, tail, next, prev>>
      BY <2>1, Zenon DEF Adjust
  <2>3. TypeOK'
      BY <1>1, <1>2, <2>2 DEF TypeOK
  <2>4. IsList(Moved(q, n))'
    <3>1. UNCHANGED <<head, tail, next, prev, live, now>> /\ Len(q) > 0
        BY <1>1, <1>2, <2>2
    <3>2. expire' = [expire EXCEPT ![q[Len(q)]] = now + Lifetime]
        BY <1>2, <1>3
    <3> QED BY <3>1, <3>2, AdjustLast
  <2> QED BY <1>3, <2>3, <2>4
<1>4. CASE i # n
  <2>1. /\ head' = IF i = 1 THEN q[2] ELSE head
        /\ tail' = q[i]
        /\ next' \in [Timers -> Timers \cup {NULL, Freed}]
        /\ prev' \in [Timers -> Timers \cup {NULL, Freed}]
      BY <1>4, AdjustLinks
  <2>2. \A x \in Timers :
            next'[x] = IF x = q[i] THEN NULL
                       ELSE IF x = q[n] THEN q[i]
                       ELSE IF i > 1 /\ x = q[i - 1] THEN q[i + 1] ELSE next[x]
      BY <1>4, AdjustLinks
  <2>3. \A x \in Timers :
            prev'[x] = IF x = q[i] THEN q[n]
                       ELSE IF x = q[i + 1] THEN (IF i = 1 THEN NULL ELSE q[i - 1])
                       ELSE prev[x]
      BY <1>4, AdjustLinks
  <2>4. \A k \in 1..n : /\ q[k] \in Timers
                        /\ next[q[k]] = IF k = n THEN NULL ELSE q[k + 1]
                        /\ prev[q[k]] = IF k = 1 THEN NULL ELSE q[k - 1]
                        /\ expire[q[k]] \in Nat /\ expire[q[k]] <= e
      BY ListIs
  <2>5. \A j, k \in 1..n : q[j] = q[k] => j = k
      BY DEF IsList, Distinct
  <2>6. /\ Len(r) = n
        /\ \A k \in 1..(i - 1) : r[k] = q[k]
        /\ \A k \in i..(n - 1) : r[k] = q[k + 1]
        /\ r[n] = q[i]
      BY MovedFacts
  <2>7. i < n /\ i \in 1..n /\ i + 1 \in 1..n /\ 2 \in 1..n
      BY <1>1, <1>4
  <2>8. \A k \in 1..n : k \in 1..(i - 1) \/ k \in i..(n - 1) \/ k = n
      BY <1>1
  <2>9. TypeOK'
    <3>1. {head', tail'} \subseteq Timers \cup {NULL}
        BY <2>1, <2>4, <2>7 DEF TypeOK
    <3>2. expire' \in [Timers -> Nat]
        BY <1>1, <1>2
    <3> QED BY <1>2, <2>1, <3>1, <3>2 DEF TypeOK
  <2> HIDE DEF r, n
  <2>10. Linked(r, next', head')
    <3>1. head' = r[1]
      <4>1. CASE i = 1
        <5>1. 1 \in i..(n - 1) /\ 1 + 1 = 2
            BY <2>7, <4>1, <1>1
        <5> QED BY <2>1, <2>6, <4>1, <5>1
      <4>2. CASE i # 1
        <5>1. head = q[1] /\ 1 \in 1..(i - 1)
            BY <1>1, <4>2, ListIs DEF n
        <5> QED BY <2>1, <2>6, <4>2, <5>1
      <4> QED BY <4>1, <4>2
    <3>2. ASSUME NEW k \in 1..n
          PROVE  next'[r[k]] = IF k = n THEN NULL ELSE r[k + 1]
      <4>1. CASE k = n
          BY <1>2, <2>2, <2>6, <4>1
      <4>2. CASE k \in i..(n - 1)
        <5>1. /\ r[k] = q[k + 1] /\ k + 1 \in 1..n /\ k # n /\ k \in Nat
              /\ k + 1 # i /\ k + 1 # i - 1
            BY <1>1, <2>6, <4>2
        <5>2. q[k + 1] # q[i] /\ (i > 1 => q[k + 1] # q[i - 1])
            BY <1>1, <2>5, <5>1
        <5>3. CASE k + 1 = n
            BY <2>2, <2>4, <2>6, <5>1, <5>2, <5>3
        <5>4. CASE k + 1 # n
          <6>1. k + 1 \in i..(n - 1)
              BY <1>1, <4>2, <5>4
          <6>2. r[k + 1] = q[(k + 1) + 1]
              BY <2>6, <6>1
          <6>3. q[k + 1] # q[n] /\ next[q[k + 1]] = q[(k + 1) + 1]
              BY <1>1, <2>4, <2>5, <5>1, <5>4
          <6> QED BY <2>2, <2>4, <5>1, <5>2, <6>2, <6>3
        <5> QED BY <5>3, <5>4
      <4>3. CASE k \in 1..(i - 1)
        <5>1. /\ r[k] = q[k] /\ k \in Nat /\ k # n /\ k # i /\ k < i
              /\ i \in i..(n - 1) /\ i > 1
            BY <1>1, <2>6, <2>7, <4>3
        <5>2. q[k] # q[i] /\ q[k] # q[n] /\ q[k] \in Timers
            BY <1>1, <2>4, <2>5, <5>1
        <5>3. CASE k = i - 1
          <6>1. r[k + 1] = q[i + 1]
              BY <1>1, <2>6, <5>1, <5>3
          <6> QED BY <2>2, <5>1, <5>2, <5>3, <6>1
        <5>4. CASE k # i - 1
          <6>1. k + 1 \in 1..(i - 1) /\ i - 1 \in 1..n
              BY <1>1, <5>1, <5>4
          <6>2. q[k] # q[i - 1]
              BY <2>5, <5>4, <6>1
          <6>3. next[q[k]] = q[k + 1] /\ r[k + 1] = q[k + 1]
              BY <2>4, <2>6, <5>1, <6>1
          <6> QED BY <2>2, <5>1, <5>2, <6>2, <6>3
        <5> QED BY <5>3, <5>4
      <4> QED BY <2>8, <4>1, <4>2, <4>3
    <3> QED BY <1>1, <2>6, <3>1, <3>2 DEF Linked
  <2>11. Distinct(r)
    <3>1. ASSUME NEW j \in 1..n, NEW k \in 1..n, r[j] = r[k], j < k
          PROVE  FALSE
      <4>1. PICK a \in 1..n : r[j] = q[a] /\ a = IF j < i THEN j ELSE IF j < n THEN j + 1 ELSE i
          BY <1>1, <2>6, <2>8
      <4>2. PICK b \in 1..n : r[k] = q[b] /\ b = IF k < i THEN k ELSE IF k < n THEN k + 1 ELSE i
          BY <1>1, <2>6, <2>8
      <4>3. a = b
          BY <2>5, <3>1, <4>1, <4>2
      <4> QED BY <1>1, <3>1, <4>1, <4>2, <4>3
    <3>2. \A j, k \in 1..n : j < k \/ j = k \/ k < j
        BY <1>1
    <3> QED BY <2>6, <3>1, <3>2 DEF Distinct
  <2>12. live' = {r[k] : k \in 1..Len(r)}
    <3>1. live = {q[k] : k \in 1..n}
        BY DEF IsList, n
    <3>2. ASSUME NEW k \in 1..n PROVE \E j \in 1..n : r[j] = q[k]
      <4>1. CASE k < i
          BY <1>1, <2>6, <4>1
      <4>2. CASE k = i
          BY <1>1, <2>6, <4>2
      <4>3. CASE k > i
        <5>1. k - 1 \in i..(n - 1) /\ (k - 1) + 1 = k /\ k - 1 \in 1..n
            BY <1>1, <4>3
        <5> QED BY <2>6, <5>1
      <4> QED BY <1>1, <4>1, <4>2, <4>3
    <3>3. ASSUME NEW k \in 1..n PROVE \E j \in 1..n : r[k] = q[j]
        BY <1>1, <2>6, <2>8
    <3>4. {q[k] : k \in 1..n} = {r[k] : k \in 1..n}
      <4>1. {q[k] : k \in 1..n} \subseteq {r[k] : k \in 1..n}
          BY <3>2, Zenon
      <4>2. {r[k] : k \in 1..n} \subseteq {q[k] : k \in 1..n}
          BY <3>3, Zenon
      <4> QED BY <4>1, <4>2
    <3> QED BY <1>2, <2>6, <3>1, <3>4
  <2>13. \A k \in 1..Len(r) : prev'[r[k]] = IF k = 1 THEN NULL ELSE r[k - 1]
    <3> SUFFICES ASSUME NEW k \in 1..n
                 PROVE  prev'[r[k]] = IF k = 1 THEN NULL ELSE r[k - 1]
        BY <2>6
    <3>1. CASE k = n
      <4>1. k # 1 /\ k - 1 \in i..(n - 1) /\ (k - 1) + 1 = n
          BY <1>1, <2>7, <3>1
      <4> QED BY <1>2, <2>3, <2>6, <3>1, <4>1
    <3>2. CASE k \in i..(n - 1)
      <4>1. /\ r[k] = q[k + 1] /\ k + 1 \in 1..n /\ k + 1 # i /\ k + 1 # 1
            /\ (k + 1) - 1 = k /\ k \in 1..n /\ k \in Nat
          BY <1>1, <2>6, <3>2
      <4>2. q[k + 1] # q[i] /\ q[k + 1] \in Timers
          BY <1>1, <2>4, <2>5, <4>1
      <4>3. CASE k = i
        <5>1. k = 1 \/ r[k - 1] = q[i - 1]
            BY <1>1, <2>6, <4>3
        <5> QED BY <1>1, <2>3, <4>1, <4>2, <4>3, <5>1
      <4>4. CASE k # i
        <5>1. q[k + 1] # q[i + 1]
            BY <2>5, <2>7, <4>1, <4>4, <1>1
        <5>2. k - 1 \in i..(n - 1) /\ (k - 1) + 1 = k /\ k # 1
            BY <1>1, <3>2, <4>4
        <5>3. r[k - 1] = q[k] /\ prev[q[k + 1]] = q[k]
            BY <2>4, <2>6, <4>1, <5>2
        <5> QED BY <2>3, <4>1, <4>2, <5>1, <5>2, <5>3
      <4> QED BY <4>3, <4>4
    <3>3. CASE k \in 1..(i - 1)
      <4>1. r[k] = q[k] /\ k # i /\ k # i + 1 /\ k \in Nat
          BY <1>1, <2>6, <3>3
      <4>2. q[k] # q[i] /\ q[k] # q[i + 1] /\ q[k] \in Timers
        <5>1. k \in 1..n
            BY <1>1, <3>3
        <5> QED BY <2>4, <2>5, <2>7, <4>1, <5>1
      <4>3. k = 1 \/ r[k - 1] = q[k - 1]
          BY <1>1, <2>6, <3>3
      <4> QED BY <2>3, <2>4, <4>1, <4>2, <4>3
    <3> QED BY <2>8, <3>1, <3>2, <3>3
  <2>14. \A k \in 1..n : k # i => expire'[q[k]] = expire[q[k]]
    <3> TAKE k \in 1..n
    <3> HAVE k # i
    <3>1. q[k] # q[i] /\ q[k] \in Timers
        BY <2>4, <2>5, <2>7
    <3> QED BY <1>2, <3>1
  <2>15. expire'[r[n]] = e
      BY <1>2, <2>6
  <2>16. ASSUME NEW k \in 1..n, k # n
         PROVE  \E a \in 1..n : /\ r[k] = q[a] /\ a # i
                                /\ a = IF k < i THEN k ELSE k + 1
                                /\ expire'[r[k]] = expire[q[a]]
      BY <1>1, <2>6, <2>8, <2>14, <2>16
  <2>17. \A k \in 1..n : expire'[r[k]] <= e
    <3> TAKE k \in 1..n
    <3>1. CASE k = n
        BY <1>1, <2>15, <3>1
    <3>2. CASE k # n
      <4>1. PICK a \in 1..n : expire'[r[k]] = expire[q[a]]
          BY <2>16, <3>2
      <4> QED BY <2>4, <4>1
    <3> QED BY <3>1, <3>2
  <2>18. ASSUME NEW j \in 1..n, NEW k \in 1..n, j <= k
         PROVE  expire'[r[j]] <= expire'[r[k]]
    <3>1. CASE k = n
        BY <2>15, <2>17, <3>1
    <3>2. CASE k # n
      <4>1. j # n
          BY <1>1, <2>18, <3>2
      <4>2. PICK a \in 1..n : /\ a = IF j < i THEN j ELSE j + 1
                              /\ expire'[r[j]] = expire[q[a]]
          BY <2>16, <4>1
      <4>3. PICK b \in 1..n : /\ b = IF k < i THEN k ELSE k + 1
                              /\ expire'[r[k]] = expire[q[b]]
          BY <2>16, <3>2
      <4>4. a <= b
          BY <1>1, <2>18, <4>2, <4>3
      <4>5. expire[q[a]] <= expire[q[b]]
          BY <4>4 DEF IsList, n
      <4> QED BY <4>2, <4>3, <4>5
    <3> QED BY <3>1, <3>2
  <2>19. Len(r) > 0 => tail' = r[Len(r)]
      BY <2>1, <2>6
  <2> QED BY <1>2, <2>6, <2>9, <2>10, <2>11, <2>12, <2>13, <2>17, <2>18, <2>19 DEF IsList, r
<1> QED BY <1>3, <1>4

-------------------------------------------------------------------------------
LEMMA DeleteLinks ==
    ASSUME TypeOK, NEW q \in Seq(Timers), IsList(q), NEW i \in 1..Len(q),
           Delete(q[i])
    PROVE  /\ head' = IF i # 1 THEN head ELSE IF Len(q) = 1 THEN NULL ELSE q[2]
           /\ Len(q) > 1 => tail' = IF i = Len(q) THEN q[Len(q) - 1] ELSE tail
           /\ tail' \in Timers \cup {NULL}
           /\ next' \in [Timers -> Timers \cup {NULL, Freed}]
           /\ prev' \in [Timers -> Timers \cup {NULL, Freed}]
           /\ \A x \in Timers :
                  next'[x] = IF x = q[i] THEN Freed
                             ELSE IF i > 1 /\ x = q[i - 1]
                                  THEN (IF i = Len(q) THEN NULL ELSE q[i + 1])
                                  ELSE next[x]
           /\ \A x \in Timers :
                  prev'[x] = IF x = q[i] THEN Freed
                             ELSE IF i < Len(q) /\ x = q[i + 1]
                                  THEN (IF i = 1 THEN NULL ELSE q[i - 1])
                                  ELSE prev[x]
<1> DEFINE n == Len(q)
           t == q[i]
<1>1. n \in Nat /\ i \in Nat /\ i \in 1..n /\ 1 \in 1..n /\ n \in 1..n /\ i >= 1 /\ i <= n
    BY ListIs
<1>2. \A k \in 1..n : /\ q[k] \in Timers
                      /\ next[q[k]] = IF k = n THEN NULL ELSE q[k + 1]
                      /\ prev[q[k]] = IF k = 1 THEN NULL ELSE q[k - 1]
    BY ListIs
<1>3. \A j, k \in 1..n : q[j] = q[k] => j = k
    BY DEF IsList, Distinct
<1>4. head = q[1] /\ tail = q[n] /\ (t = head <=> i = 1) /\ (t = tail <=> i = n)
  <2>1. head = q[1] /\ tail = q[n]
      BY <1>1, ListIs
  <2> QED BY <1>1, <1>3, <2>1
<1>5. /\ next \in [Timers -> Timers \cup {NULL, Freed}]
      /\ prev \in [Timers -> Timers \cup {NULL, Freed}]
      /\ tail \in Timers \cup {NULL}
    BY DEF TypeOK
<1>6. ASSUME i # 1 PROVE i - 1 \in 1..n /\ i > 1 /\ prev[t] = q[i - 1] /\ q[i - 1] \in Timers
    BY <1>1, <1>2, <1>6
<1>7. ASSUME i # n PROVE i + 1 \in 1..n /\ i < n /\ next[t] = q[i + 1] /\ q[i + 1] \in Timers
    BY <1>1, <1>2, <1>7
<1>8. next[t] = IF i = n THEN NULL ELSE q[i + 1]
    BY <1>1, <1>2
<1>9. prev[t] = IF i = 1 THEN NULL ELSE q[i - 1]
    BY <1>1, <1>2
<1>10. CASE i = 1 /\ i = n
  <2>1. /\ head' = NULL /\ tail' = NULL
        /\ next' = Free(next, {t}) /\ prev' = Free(prev, {t})
      BY <1>4, <1>10 DEF Delete
  <2>2. n = 1 /\ i = 1
      BY <1>10
  <2>3. \A x \in Timers : /\ next'[x] = IF x = t THEN Freed ELSE next[x]
                          /\ prev'[x] = IF x = t THEN Freed ELSE prev[x]
      BY <2>1 DEF Free
  <2>4. /\ next' \in [Timers -> Timers \cup {NULL, Freed}]
        /\ prev' \in [Timers -> Timers \cup {NULL, Freed}]
      BY <1>5, <2>1 DEF Free
  <2> HIDE DEF n, t
  <2>5. head' = NULL /\ tail' = NULL
      BY <2>1
  <2> QED BY <2>2, <2>3, <2>4, <2>5 DEF n, t
<1>11. CASE i = 1 /\ i # n
  <2>1. /\ head' = q[i + 1] /\ tail' = tail
        /\ next' = Free(next, {t})
        /\ prev' = Free([prev EXCEPT ![q[i + 1]] = NULL], {t})
      BY <1>4, <1>7, <1>11 DEF Delete
  <2>2. i + 1 = 2
      BY <1>11
  <2> QED BY <1>1, <1>5, <1>7, <1>11, <2>1, <2>2 DEF Free
<1>12. CASE i # 1 /\ i = n
  <2>1. /\ head' = head /\ tail' = q[i - 1]
        /\ next' = Free([next EXCEPT ![q[i - 1]] = NULL], {t})
        /\ prev' = Free(prev, {t})
      BY <1>4, <1>6, <1>12 DEF Delete
  <2> QED BY <1>1, <1>5, <1>6, <1>12, <2>1 DEF Free
<1>13. CASE i # 1 /\ i # n
  <2>1. /\ head' = head /\ tail' = tail
        /\ next' = Free([next EXCEPT ![q[i - 1]] = q[i + 1]], {t})
        /\ prev' = Free([prev EXCEPT ![q[i + 1]] = q[i - 1]], {t})
      BY <1>4, <1>6, <1>7, <1>13 DEF Delete
  <2> QED BY <1>1, <1>5, <1>6, <1>7, <1>13, <2>1 DEF Free
<1> QED BY <1>10, <1>11, <1>12, <1>13

LEMMA DeleteStep ==
    ASSUME TypeOK, NEW q \in Seq(Timers), IsList(q), NEW i \in 1..Len(q),
           Delete(q[i])
    PROVE  TypeOK' /\ IsList(Cut(q, i))'
<1> DEFINE n == Len(q)
           r == Cut(q, i)
<1>1. n \in Nat \ {0} /\ i \in Nat /\ i >= 1 /\ i <= n /\ i \in 1..n /\ n - 1 \in Nat
    BY ListIs
<1>2. /\ live' = live \ {q[i]} /\ now' = now /\ fired' = fired
      /\ expire' = [expire EXCEPT ![q[i]] = 0]
      /\ expire \in [Timers -> Nat]
    BY DEF Delete, TypeOK
<1>3. /\ head' = IF i # 1 THEN head ELSE IF n = 1 THEN NULL ELSE q[2]
      /\ n > 1 => tail' = IF i = n THEN q[n - 1] ELSE tail
      /\ tail' \in Timers \cup {NULL}
      /\ next' \in [Timers -> Timers \cup {NULL, Freed}]
      /\ prev' \in [Timers -> Timers \cup {NULL, Freed}]
    BY DeleteLinks
<1>4. \A x \in Timers :
          next'[x] = IF x = q[i] THEN Freed
                     ELSE IF i > 1 /\ x = q[i - 1]
                          THEN (IF i = n THEN NULL ELSE q[i + 1])
                          ELSE next[x]
    BY DeleteLinks
<1>5. \A x \in Timers :
          prev'[x] = IF x = q[i] THEN Freed
                     ELSE IF i < n /\ x = q[i + 1]
                          THEN (IF i = 1 THEN NULL ELSE q[i - 1])
                          ELSE prev[x]
    BY DeleteLinks
<1>6. \A k \in 1..n : /\ q[k] \in Timers
                      /\ next[q[k]] = IF k = n THEN NULL ELSE q[k + 1]
                      /\ prev[q[k]] = IF k = 1 THEN NULL ELSE q[k - 1]
                      /\ expire[q[k]] <= now + Lifetime
    BY ListIs
<1>7. \A j, k \in 1..n : q[j] = q[k] => j = k
    BY DEF IsList, Distinct
<1>8. /\ Len(r) = n - 1
      /\ \A k \in 1..(i - 1) : r[k] = q[k]
      /\ \A k \in i..(n - 1) : r[k] = q[k + 1]
    BY CutFacts
<1>9. \A k \in 1..(n - 1) : k \in 1..(i - 1) \/ k \in i..(n - 1)
    BY <1>1
<1>10. TypeOK'
  <2>1. head \in Timers \cup {NULL}
      BY DEF TypeOK
  <2>2. head' \in Timers \cup {NULL}
    <3> HIDE DEF n
    <3>1. n # 1 => 2 \in 1..n
        BY <1>1
    <3>2. n # 1 => q[2] \in Timers
        BY <1>6, <3>1
    <3> QED BY <1>3, <2>1, <3>2
  <2>3. expire' \in [Timers -> Nat] /\ live' \subseteq Timers
      BY <1>2 DEF TypeOK
  <2> QED BY <1>2, <1>3, <2>2, <2>3 DEF TypeOK
<1> HIDE DEF n, r
(* What r takes from q: the place it comes from.                           *)
<1> DEFINE from(k) == IF k < i THEN k ELSE k + 1
<1>11. \A k \in 1..(n - 1) : from(k) \in 1..n /\ from(k) # i /\ r[k] = q[from(k)]
    BY <1>1, <1>8, <1>9
<1>12. Linked(r, next', head')
  <2>1. head' = IF n - 1 = 0 THEN NULL ELSE r[1]
    <3>1. CASE n = 1
      <4>1. i = 1
          BY <1>1, <3>1
      <4> QED BY <1>1, <1>3, <3>1, <4>1
    <3>2. CASE n # 1 /\ i = 1
      <4>1. 1 \in i..(n - 1) /\ 1 + 1 = 2
          BY <1>1, <3>2
      <4> QED BY <1>1, <1>3, <1>8, <3>2, <4>1
    <3>3. CASE n # 1 /\ i # 1
      <4>1. 1 \in 1..(i - 1) /\ head = q[1]
          BY <1>1, <3>3, ListIs DEF n
      <4> QED BY <1>1, <1>3, <1>8, <3>3, <4>1
    <3> QED BY <3>1, <3>2, <3>3
  <2>2. ASSUME NEW k \in 1..(n - 1)
        PROVE  next'[r[k]] = IF k = n - 1 THEN NULL ELSE r[k + 1]
    <3>1. CASE k \in i..(n - 1)
      <4>1. /\ r[k] = q[k + 1] /\ k + 1 \in 1..n /\ k + 1 # i /\ k + 1 # i - 1
            /\ (k + 1 = n <=> k = n - 1)
          BY <1>1, <1>8, <3>1
      <4>2. q[k + 1] # q[i] /\ (i > 1 => q[k + 1] # q[i - 1]) /\ q[k + 1] \in Timers
          BY <1>1, <1>6, <1>7, <4>1
      <4>3. next'[r[k]] = IF k = n - 1 THEN NULL ELSE q[(k + 1) + 1]
          BY <1>4, <1>6, <4>1, <4>2
      <4>4. k = n - 1 \/ r[k + 1] = q[(k + 1) + 1]
          BY <1>1, <1>8, <3>1
      <4> QED BY <4>3, <4>4
    <3>2. CASE k \in 1..(i - 1)
      <4>1. /\ r[k] = q[k] /\ k \in 1..n /\ k # i /\ i > 1 /\ k # n
            /\ i - 1 \in 1..n
          BY <1>1, <1>8, <3>2
      <4>2. q[k] # q[i] /\ q[k] \in Timers /\ (q[k] = q[i - 1] <=> k = i - 1)
          BY <1>1, <1>6, <1>7, <4>1
      <4>3. next[q[k]] = q[k + 1]
          BY <1>6, <4>1
      <4>4. CASE k = i - 1
        <5>1. next'[r[k]] = IF i = n THEN NULL ELSE q[i + 1]
            BY <1>4, <4>1, <4>2, <4>4
        <5>2. k + 1 = i /\ (k = n - 1 <=> i = n)
            BY <1>1, <4>4
        <5>3. i # n => r[i] = q[i + 1]
            BY <1>1, <1>8
        <5> QED BY <5>1, <5>2, <5>3
      <4>5. CASE k # i - 1
        <5>1. k + 1 \in 1..(i - 1) /\ k # n - 1
            BY <1>1, <3>2, <4>5
        <5> QED BY <1>4, <1>8, <4>1, <4>2, <4>3, <4>5, <5>1
      <4> QED BY <4>4, <4>5
    <3> QED BY <1>9, <3>1, <3>2
  <2> QED BY <1>8, <2>1, <2>2 DEF Linked
<1>13. Distinct(r)
  <2>1. ASSUME NEW j \in 1..(n - 1), NEW k \in 1..(n - 1), r[j] = r[k]
        PROVE  j = k
    <3>1. from(j) = from(k)
        BY <1>7, <1>11, <2>1
    <3> QED BY <1>1, <3>1
  <2> QED BY <1>8, <2>1 DEF Distinct
<1>14. live' = {r[k] : k \in 1..Len(r)}
  <2>1. live' = {q[k] : k \in 1..n} \ {q[i]}
      BY <1>2 DEF IsList, n
  <2>2. ASSUME NEW k \in 1..n, k # i PROVE \E j \in 1..(n - 1) : r[j] = q[k]
    <3>1. CASE k < i
        BY <1>1, <1>8, <3>1
    <3>2. CASE k > i
      <4>1. k - 1 \in i..(n - 1) /\ (k - 1) + 1 = k /\ k - 1 \in 1..(n - 1)
          BY <1>1, <3>2
      <4> QED BY <1>8, <4>1
    <3> QED BY <1>1, <2>2, <3>1, <3>2
  <2>3. ASSUME NEW k \in 1..(n - 1) PROVE r[k] # q[i] /\ \E j \in 1..n : r[k] = q[j]
      BY <1>1, <1>7, <1>11
  <2>4. {q[k] : k \in 1..n} \ {q[i]} = {r[k] : k \in 1..(n - 1)}
    <3>1. {q[k] : k \in 1..n} \ {q[i]} \subseteq {r[k] : k \in 1..(n - 1)}
        BY <2>2, Zenon
    <3>2. {r[k] : k \in 1..(n - 1)} \subseteq {q[k] : k \in 1..n} \ {q[i]}
        BY <2>3, Zenon
    <3> QED BY <3>1, <3>2
  <2> QED BY <1>8, <2>1, <2>4
<1>15. \A k \in 1..Len(r) : prev'[r[k]] = IF k = 1 THEN NULL ELSE r[k - 1]
  <2> SUFFICES ASSUME NEW k \in 1..(n - 1)
               PROVE  prev'[r[k]] = IF k = 1 THEN NULL ELSE r[k - 1]
      BY <1>8
  <2>1. CASE k \in i..(n - 1)
    <3>1. /\ r[k] = q[k + 1] /\ k + 1 \in 1..n /\ k + 1 # i /\ k + 1 # 1 /\ k \in 1..n
          /\ i < n /\ i + 1 \in 1..n /\ (k + 1) - 1 = k
        BY <1>1, <1>8, <2>1
    <3>2. q[k + 1] # q[i] /\ q[k + 1] \in Timers /\ (q[k + 1] = q[i + 1] <=> k = i)
        BY <1>1, <1>6, <1>7, <3>1
    <3>3. prev[q[k + 1]] = q[k]
        BY <1>6, <3>1
    <3>4. CASE k = i
      <4>1. k = 1 \/ r[k - 1] = q[i - 1]
          BY <1>1, <1>8, <3>4
      <4> QED BY <1>5, <3>1, <3>2, <3>4, <4>1
    <3>5. CASE k # i
      <4>1. k - 1 \in i..(n - 1) /\ (k - 1) + 1 = k /\ k # 1
          BY <1>1, <2>1, <3>5
      <4>2. r[k - 1] = q[k]
          BY <1>8, <4>1
      <4> QED BY <1>5, <3>1, <3>2, <3>3, <3>5, <4>1, <4>2
    <3> QED BY <3>4, <3>5
  <2>2. CASE k \in 1..(i - 1)
    <3>1. r[k] = q[k] /\ k \in 1..n /\ k # i /\ k # i + 1
        BY <1>1, <1>8, <2>2
    <3>2. q[k] # q[i] /\ (i < n => q[k] # q[i + 1]) /\ q[k] \in Timers
      <4>1. i < n => i + 1 \in 1..n
          BY <1>1
      <4> QED BY <1>1, <1>6, <1>7, <3>1, <4>1
    <3>3. k = 1 \/ r[k - 1] = q[k - 1]
        BY <1>1, <1>8, <2>2
    <3> QED BY <1>5, <1>6, <3>1, <3>2, <3>3
  <2> QED BY <1>9, <2>1, <2>2
<1>16. \A k \in 1..(n - 1) : expire'[r[k]] = expire[q[from(k)]]
  <2> TAKE k \in 1..(n - 1)
  <2>1. q[from(k)] # q[i] /\ q[from(k)] \in Timers
      BY <1>1, <1>6, <1>7, <1>11
  <2>2. r[k] = q[from(k)]
      BY <1>11
  <2> QED BY <1>2, <2>1, <2>2
<1>17. \A k \in 1..Len(r) : expire'[r[k]] <= now' + Lifetime
  <2>1. \A k \in 1..(n - 1) : expire[q[from(k)]] <= now + Lifetime
      BY <1>6, <1>11
  <2> QED BY <1>2, <1>8, <1>16, <2>1
<1>18. \A j, k \in 1..Len(r) : j <= k => expire'[r[j]] <= expire'[r[k]]
  <2> SUFFICES ASSUME NEW j \in 1..(n - 1), NEW k \in 1..(n - 1), j <= k
               PROVE  expire'[r[j]] <= expire'[r[k]]
      BY <1>8
  <2>1. from(j) <= from(k) /\ from(j) \in 1..n /\ from(k) \in 1..n
      BY <1>1, <1>11
  <2>2. expire[q[from(j)]] <= expire[q[from(k)]]
      BY <2>1 DEF IsList, n
  <2> QED BY <1>16, <2>2
<1>19. Len(r) > 0 => tail' = r[Len(r)]
  <2> SUFFICES ASSUME n > 1 PROVE tail' = r[n - 1]
      BY <1>1, <1>8
  <2>1. CASE i = n
      BY <1>1, <1>3, <1>8, <2>1
  <2>2. CASE i # n
    <3>1. n - 1 \in i..(n - 1) /\ (n - 1) + 1 = n /\ tail = q[n]
        BY <1>1, <2>2, ListIs DEF n
    <3> QED BY <1>3, <1>8, <2>2, <3>1
  <2> QED BY <2>1, <2>2
<1> QED BY <1>10, <1>12, <1>13, <1>14, <1>15, <1>17, <1>18, <1>19 DEF IsList, r

-------------------------------------------------------------------------------
(* timeout() calls back the first n timers: those that have expired.       *)
LEMMA TimeoutLinks ==
    ASSUME TypeOK, NEW q \in Seq(Timers), IsList(q), Timeout
    PROVE  \E n \in 0..Len(q) :
             /\ \A k \in 1..n : expire[q[k]] <= now
             /\ \A k \in 1..Len(q) : k > n => now < expire[q[k]]
             /\ fired' = SubSeq(q, 1, n)
             /\ head' = IF n = Len(q) THEN NULL ELSE q[n + 1]
             /\ live' = live \ {q[k] : k \in 1..n}
             /\ next' = Free(next, {q[k] : k \in 1..n})
             /\ prev' = Free([t \in Timers |-> IF n < Len(q) /\ t = q[n + 1] THEN NULL
                                               ELSE prev[t]], {q[k] : k \in 1..n})
             /\ expire' = [t \in Timers |-> IF t \in {q[k] : k \in 1..n} THEN 0
                                            ELSE expire[t]]
             /\ tail' = tail /\ now' = now
<1> DEFINE S == {k \in 0..Len(q) : k < Len(q) => now < expire[q[k + 1]]}
           n == Min(S)
           rest == IF n = 0 THEN head ELSE next[q[n]]
<1>0. Len(q) \in Nat /\ now \in Nat
    BY ListFacts DEF TypeOK
<1>1. \A k \in 1..Len(q) : /\ q[k] \in Timers /\ expire[q[k]] \in Nat
                           /\ next[q[k]] = IF k = Len(q) THEN NULL ELSE q[k + 1]
    BY ListIs
<1>2. Chain(next, head) = q
    BY ChainIs DEF IsList
<1>3. /\ fired' = SubSeq(q, 1, n)
      /\ head' = rest
      /\ live' = live \ {q[k] : k \in 1..n}
      /\ next' = Free(next, {q[k] : k \in 1..n})
      /\ prev' = Free([t \in Timers |-> IF t = rest THEN NULL ELSE prev[t]],
                      {q[k] : k \in 1..n})
      /\ expire' = [t \in Timers |-> IF t \in {q[k] : k \in 1..n} THEN 0 ELSE expire[t]]
      /\ tail' = tail /\ now' = now
    BY <1>2, Zenon DEF Timeout
<1> HIDE DEF S
<1>4. n \in S /\ \A k \in S : n <= k
  <2>1. S \subseteq Nat /\ Len(q) \in S
      BY <1>0 DEF S
  <2>2. \E m \in S : \A k \in S : m <= k
      BY <2>1, LeastExists
  <2> QED BY <2>2, Zenon DEF Min
<1> HIDE DEF n
<1>5. n \in 0..Len(q) /\ n \in Nat /\ (n < Len(q) => now < expire[q[n + 1]])
    BY <1>0, <1>4 DEF S
<1>6. ASSUME NEW k \in 1..n PROVE expire[q[k]] <= now
  <2>1. k - 1 \notin S /\ k - 1 \in 0..Len(q) /\ k \in 1..Len(q) /\ (k - 1) + 1 = k
      BY <1>0, <1>4, <1>5
  <2>2. ~(now < expire[q[k]])
      BY <2>1 DEF S
  <2> QED BY <1>0, <1>1, <2>1, <2>2
<1>7. ASSUME NEW k \in 1..Len(q), k > n PROVE now < expire[q[k]]
  <2>1. n + 1 \in 1..Len(q) /\ n + 1 <= k /\ n < Len(q)
      BY <1>0, <1>5, <1>7
  <2>2. expire[q[n + 1]] <= expire[q[k]]
      BY <2>1 DEF IsList
  <2> QED BY <1>0, <1>1, <1>5, <2>1, <2>2
<1>8. rest = IF n = Len(q) THEN NULL ELSE q[n + 1]
  <2>1. CASE n = 0
    <3>1. head = IF Len(q) = 0 THEN NULL ELSE q[1]
        BY ListIs
    <3> QED BY <2>1, <3>1
  <2>2. CASE n # 0
    <3>1. n \in 1..Len(q)
        BY <1>0, <1>5, <2>2
    <3> QED BY <1>1, <2>2, <3>1
  <2> QED BY <2>1, <2>2
<1>9. \A t \in Timers : t = rest <=> (n < Len(q) /\ t = q[n + 1])
    BY <1>0, <1>5, <1>8, ListFacts
<1>10. [t \in Timers |-> IF t = rest THEN NULL ELSE prev[t]]
           = [t \in Timers |-> IF n < Len(q) /\ t = q[n + 1] THEN NULL ELSE prev[t]]
    BY <1>9
<1> HIDE DEF rest
<1> QED BY <1>3, <1>5, <1>6, <1>7, <1>8, <1>10

LEMMA TimeoutStep ==
    ASSUME TypeOK, NEW q \in Seq(Timers), IsList(q), Timeout
    PROVE  \E n \in 0..Len(q) :
             /\ \A k \in 1..n : expire[q[k]] <= now
             /\ \A k \in 1..Len(q) : k > n => now < expire[q[k]]
             /\ fired' = SubSeq(q, 1, n)
             /\ TypeOK' /\ now' = now
             /\ \A k \in 1..Len(q) : k > n => expire'[q[k]] = expire[q[k]]
             /\ IsList(Dropped(q, n))'
<1>1. PICK n \in 0..Len(q) :
             /\ \A k \in 1..n : expire[q[k]] <= now
             /\ \A k \in 1..Len(q) : k > n => now < expire[q[k]]
             /\ fired' = SubSeq(q, 1, n)
             /\ head' = IF n = Len(q) THEN NULL ELSE q[n + 1]
             /\ live' = live \ {q[k] : k \in 1..n}
             /\ next' = Free(next, {q[k] : k \in 1..n})
             /\ prev' = Free([t \in Timers |-> IF n < Len(q) /\ t = q[n + 1] THEN NULL
                                               ELSE prev[t]], {q[k] : k \in 1..n})
             /\ expire' = [t \in Timers |-> IF t \in {q[k] : k \in 1..n} THEN 0
                                            ELSE expire[t]]
             /\ tail' = tail /\ now' = now
    BY TimeoutLinks
<1> DEFINE N == Len(q)
           r == Dropped(q, n)
           gone == {q[k] : k \in 1..n}
<1>2. N \in Nat /\ n \in Nat /\ n <= N /\ N - n \in Nat
    BY ListIs
<1>3. \A k \in 1..N : /\ q[k] \in Timers
                      /\ next[q[k]] = IF k = N THEN NULL ELSE q[k + 1]
                      /\ prev[q[k]] = IF k = 1 THEN NULL ELSE q[k - 1]
                      /\ expire[q[k]] <= now + Lifetime
    BY ListIs
<1>4. \A j, k \in 1..N : q[j] = q[k] => j = k
    BY DEF IsList, Distinct
<1>5. Len(r) = N - n /\ \A k \in 1..(N - n) : r[k] = q[k + n]
    BY DroppedFacts
<1>6. \A k \in 1..(N - n) : k + n \in 1..N /\ k + n > n
    BY <1>2
<1>7. \A k \in 1..N : k > n => q[k] \notin gone
    BY <1>2, <1>4
<1>8. /\ next \in [Timers -> Timers \cup {NULL, Freed}]
      /\ prev \in [Timers -> Timers \cup {NULL, Freed}]
      /\ expire \in [Timers -> Nat]
      /\ head \in Timers \cup {NULL}
    BY DEF TypeOK
<1> HIDE DEF N, r, gone
<1>9. \A x \in Timers : /\ x \notin gone => next'[x] = next[x]
                        /\ x \notin gone => expire'[x] = expire[x]
                        /\ x \notin gone => prev'[x] = IF n < N /\ x = q[n + 1] THEN NULL
                                                       ELSE prev[x]
    BY <1>1 DEF Free, N, gone
<1>10. TypeOK'
  <2>1. head' \in Timers \cup {NULL}
    <3>1. n # N => n + 1 \in 1..N
        BY <1>2
    <3> QED BY <1>1, <1>3, <3>1 DEF N
  <2>2. /\ next' \in [Timers -> Timers \cup {NULL, Freed}]
        /\ prev' \in [Timers -> Timers \cup {NULL, Freed}]
      BY <1>1, <1>8 DEF Free
  <2>3. expire' \in [Timers -> Nat]
      BY <1>1, <1>8
  <2>4. fired' \in Seq(Timers)
    <3>1. \A k \in 1..n : q[k] \in Timers
        BY <1>2, <1>3
    <3>2. 1 \in Nat /\ (1 <= n => 1 \in 1..Len(q) /\ n \in 1..Len(q))
        BY <1>2 DEF N
    <3>3. SubSeq(q, 1, n) \in Seq(Timers)
        BY <1>2, <3>2, SubSeqProperties
    <3> QED BY <1>1, <3>3
  <2>5. tail' \in Timers \cup {NULL} /\ now' \in 0..MaxTime /\ live' \subseteq Timers
      BY <1>1 DEF TypeOK
  <2> QED BY <2>1, <2>2, <2>3, <2>4, <2>5 DEF TypeOK
<1>11. \A k \in 1..N : k > n => expire'[q[k]] = expire[q[k]]
    BY <1>3, <1>7, <1>9
<1>12. Linked(r, next', head')
  <2>1. head' = IF N - n = 0 THEN NULL ELSE r[1]
    <3>1. CASE n = N
        BY <1>1, <1>2, <3>1 DEF N
    <3>2. CASE n # N
      <4>1. 1 \in 1..(N - n) /\ 1 + n = n + 1
          BY <1>2, <3>2
      <4> QED BY <1>1, <1>2, <1>5, <3>2, <4>1 DEF N
    <3> QED BY <3>1, <3>2
  <2>2. ASSUME NEW k \in 1..(N - n)
        PROVE  next'[r[k]] = IF k = N - n THEN NULL ELSE r[k + 1]
    <3>1. next'[r[k]] = IF k + n = N THEN NULL ELSE q[(k + n) + 1]
      <4>1. r[k] = q[k + n] /\ q[k + n] \in Timers /\ q[k + n] \notin gone
          BY <1>3, <1>5, <1>6, <1>7
      <4>2. next[q[k + n]] = IF k + n = N THEN NULL ELSE q[(k + n) + 1]
          BY <1>3, <1>6
      <4> QED BY <1>9, <4>1, <4>2
    <3>2. CASE k = N - n
        BY <1>2, <3>1, <3>2
    <3>3. CASE k # N - n
      <4>1. k + 1 \in 1..(N - n) /\ (k + 1) + n = (k + n) + 1 /\ k + n # N
          BY <1>2, <3>3
      <4> QED BY <1>5, <3>1, <3>3, <4>1
    <3> QED BY <3>2, <3>3
  <2> QED BY <1>5, <2>1, <2>2 DEF Linked
<1>13. Distinct(r)
  <2>1. ASSUME NEW j \in 1..(N - n), NEW k \in 1..(N - n), r[j] = r[k]
        PROVE  j = k
    <3>1. j + n = k + n
        BY <1>4, <1>5, <1>6, <2>1
    <3> QED BY <1>2, <3>1
  <2> QED BY <1>5, <2>1 DEF Distinct
<1>14. live' = {r[k] : k \in 1..Len(r)}
  <2>1. live' = {q[k] : k \in 1..N} \ gone
      BY <1>1 DEF IsList, N, gone
  <2>2. ASSUME NEW k \in 1..N, q[k] \notin gone PROVE \E j \in 1..(N - n) : r[j] = q[k]
    <3>1. k \notin 1..n
        BY <2>2 DEF gone
    <3>2. k - n \in 1..(N - n) /\ (k - n) + n = k
        BY <1>2, <3>1
    <3> QED BY <1>5, <3>2
  <2>3. ASSUME NEW k \in 1..(N - n) PROVE r[k] \notin gone /\ \E j \in 1..N : r[k] = q[j]
      BY <1>5, <1>6, <1>7
  <2>4. {q[k] : k \in 1..N} \ gone = {r[k] : k \in 1..(N - n)}
    <3>1. {q[k] : k \in 1..N} \ gone \subseteq {r[k] : k \in 1..(N - n)}
        BY <2>2, Zenon
    <3>2. {r[k] : k \in 1..(N - n)} \subseteq {q[k] : k \in 1..N} \ gone
        BY <2>3, Zenon
    <3> QED BY <3>1, <3>2
  <2> QED BY <1>5, <2>1, <2>4
<1>15. \A k \in 1..Len(r) : prev'[r[k]] = IF k = 1 THEN NULL ELSE r[k - 1]
  <2> SUFFICES ASSUME NEW k \in 1..(N - n)
               PROVE  prev'[r[k]] = IF k = 1 THEN NULL ELSE r[k - 1]
      BY <1>5
  <2>1. r[k] = q[k + n] /\ q[k + n] \in Timers /\ q[k + n] \notin gone
      BY <1>3, <1>5, <1>6, <1>7
  <2>2. n + 1 \in 1..N /\ n < N /\ (k = 1 <=> k + n = n + 1)
      BY <1>2
  <2>3. q[k + n] = q[n + 1] <=> k = 1
      BY <1>4, <1>6, <2>2
  <2>4. CASE k = 1
      BY <1>9, <2>1, <2>2, <2>3, <2>4
  <2>5. CASE k # 1
    <3>1. k - 1 \in 1..(N - n) /\ (k - 1) + n = (k + n) - 1 /\ k + n # 1
        BY <1>2, <2>5
    <3>2. r[k - 1] = q[(k + n) - 1]
        BY <1>5, <3>1
    <3>3. prev[q[k + n]] = q[(k + n) - 1]
        BY <1>3, <1>6, <3>1
    <3> QED BY <1>9, <2>1, <2>3, <2>5, <3>2, <3>3
  <2> QED BY <2>4, <2>5
<1>16. \A k \in 1..(N - n) : expire'[r[k]] = expire[q[k + n]]
    BY <1>5, <1>6, <1>11
<1>17. \A k \in 1..Len(r) : expire'[r[k]] <= now' + Lifetime
  <2>1. \A k \in 1..(N - n) : expire[q[k + n]] <= now + Lifetime
      BY <1>3, <1>6
  <2>2. now' = now
      BY <1>1
  <2> QED BY <1>5, <1>16, <2>1, <2>2
<1>18. \A j, k \in 1..Len(r) : j <= k => expire'[r[j]] <= expire'[r[k]]
  <2> SUFFICES ASSUME NEW j \in 1..(N - n), NEW k \in 1..(N - n), j <= k
               PROVE  expire'[r[j]] <= expire'[r[k]]
      BY <1>5
  <2>1. j + n <= k + n /\ j + n \in 1..N /\ k + n \in 1..N
      BY <1>2, <1>6
  <2>2. expire[q[j + n]] <= expire[q[k + n]]
      BY <2>1 DEF IsList, N
  <2> QED BY <1>16, <2>2
<1>19. Len(r) > 0 => tail' = r[Len(r)]
  <2> SUFFICES ASSUME N - n > 0 PROVE tail' = r[N - n]
      BY <1>5
  <2>1. N - n \in 1..(N - n) /\ (N - n) + n = N /\ N > 0
      BY <1>2
  <2>2. tail = q[N]
      BY <2>1, ListIs DEF N
  <2> QED BY <1>1, <1>5, <2>1, <2>2
<1>20. IsList(r)'
    BY <1>12, <1>13, <1>14, <1>15, <1>17, <1>18, <1>19 DEF IsList, r
<1> QED BY <1>1, <1>10, <1>11, <1>20 DEF N, r

-------------------------------------------------------------------------------
LEMMA InitList == Init => IInv
<1> SUFFICES ASSUME Init PROVE IInv
    OBVIOUS
<1>1. TypeOK
    BY TimerListAssumption, EmptySeq DEF Init, TypeOK
<1>2. << >> \in Seq(Timers) /\ Len(<< >>) = 0
    BY EmptySeq
<1>3. IsList(<< >>)
    BY <1>2 DEF Init, IsList, Linked, Distinct
<1> QED BY <1>1, <1>2, <1>3 DEF IInv

LEMMA AdvanceStep ==
    ASSUME TypeOK, NEW q \in Seq(Timers), IsList(q), Advance
    PROVE  TypeOK' /\ IsList(q)'
<1>1. now' \in 0..MaxTime /\ now' = now + 1 /\ now \in Nat
    BY TimerListAssumption DEF Advance, TypeOK
<1>2. TypeOK'
    BY <1>1 DEF Advance, TypeOK
<1>3. \A i \in 1..Len(q) : expire[q[i]] <= now' + Lifetime
  <2>1. \A i \in 1..Len(q) : expire[q[i]] <= now + Lifetime /\ expire[q[i]] \in Nat
      BY ListIs
  <2> QED BY <1>1, <2>1, ListFacts
<1> QED BY <1>2, <1>3 DEF Advance, IsList

(* A timer of the list has its place.                                      *)
LEMMA PlaceOfLive ==
    ASSUME NEW q \in Seq(Timers), IsList(q), NEW t \in live
    PROVE  \E i \in 1..Len(q) : q[i] = t
BY DEF IsList

LEMMA NextList == IInv /\ [Next]_vars => IInv'
<1> SUFFICES ASSUME IInv, [Next]_vars PROVE IInv'
    OBVIOUS
<1>1. TypeOK
    BY DEF IInv
<1>2. PICK q \in Seq(Timers) : IsList(q)
    BY DEF IInv
<1>3. ASSUME NEW t \in Timers, Add(t) PROVE IInv'
    BY <1>1, <1>2, <1>3, AddStep, AddedFacts DEF IInv
<1>4. ASSUME NEW t \in Timers, Adjust(t) PROVE IInv'
  <2>1. PICK i \in 1..Len(q) : q[i] = t
      BY <1>2, <1>4, PlaceOfLive DEF Adjust
  <2> QED BY <1>1, <1>2, <1>4, <2>1, AdjustStep, MovedFacts DEF IInv
<1>5. ASSUME NEW t \in Timers, Delete(t) PROVE IInv'
  <2>1. PICK i \in 1..Len(q) : q[i] = t
      BY <1>2, <1>5, PlaceOfLive DEF Delete
  <2> QED BY <1>1, <1>2, <1>5, <2>1, DeleteStep, CutFacts DEF IInv
<1>6. CASE Timeout
  <2>1. PICK n \in 0..Len(q) : TypeOK' /\ IsList(Dropped(q, n))'
      BY <1>1, <1>2, <1>6, TimeoutStep
  <2> QED BY <2>1, DroppedFacts DEF IInv
<1>7. CASE Advance
    BY <1>1, <1>2, <1>7, AdvanceStep DEF IInv
<1>8. CASE UNCHANGED vars
  <2>1. TypeOK'
      BY <1>1, <1>8 DEF vars, TypeOK
  <2>2. IsList(q)'
      BY <1>2, <1>8 DEF vars, IsList
  <2> QED BY <2>1, <2>2 DEF IInv
<1> QED BY <1>3, <1>4, <1>5, <1>6, <1>7, <1>8 DEF Next

LEMMA Inductive == Spec => []IInv
BY InitList, NextList, PTL DEF Spec

(* Every variable keeps its type, for any number of timers.                *)
THEOREM TypeCorrect == Spec => []TypeOK
<1>1. IInv => TypeOK
    BY DEF IInv
<1> QED BY <1>1, Inductive, PTL

(* The links are those of one list, whatever is added, moved, deleted and  *)
(* called back (lst_timer.cpp).                                            *)
THEOREM WellLinkedHolds == Spec => []WellLinked
<1>1. ASSUME IInv PROVE WellLinked
  <2>1. PICK q \in Seq(Timers) : IsList(q)
      BY <1>1 DEF IInv
  <2>2. Chain(next, head) = q
      BY <2>1, ChainIs DEF IsList
  <2>3. DOMAIN q = 1..Len(q) /\ Len(q) \in Nat
      BY LenProperties
  <2>4. ToSet(q) = live /\ Cardinality(live) = Len(q)
      BY <2>1, <2>3, FitsTimers DEF IsList, ToSet
  <2>5. live = {} => head = NULL
    <3>1. live = {} => Len(q) = 0
        BY <2>3, <2>4, FS_EmptySet
    <3> QED BY <2>1, <3>1 DEF IsList, Linked
  <2>6. ASSUME live # {}
        PROVE  next[q[Len(q)]] = NULL /\ tail = q[Len(q)] /\ prev[head] = NULL
    <3>1. Len(q) # 0 /\ 1 \in 1..Len(q) /\ Len(q) \in 1..Len(q)
        BY <2>1, <2>3, <2>6 DEF IsList
    <3>2. next[q[Len(q)]] = NULL
        BY <2>1, <3>1 DEF IsList, Linked
    <3>3. tail = q[Len(q)]
        BY <2>1, <2>3, <3>1 DEF IsList
    <3>4. prev[q[1]] = NULL /\ head = q[1]
        BY <2>1, <3>1 DEF IsList, Linked
    <3> QED BY <3>2, <3>3, <3>4
  <2>7. \A k \in 2..Len(q) : prev[q[k]] = q[k - 1]
      BY <2>1, <2>3 DEF IsList
  <2> QED BY <2>2, <2>4, <2>5, <2>6, <2>7 DEF WellLinked
<1> QED BY <1>1, Inductive, PTL

-------------------------------------------------------------------------------
(* What expire can be, under a name of its own.                            *)
Times == Nat

(* The sequence of SortedTimers that the nodes of q stand for.             *)
Listing(q, ex) == [k \in 1..Len(q) |-> Entry(q[k], ex[q[k]])]

LEMMA ListingIs ==
    ASSUME NEW nx, NEW start, NEW ex, NEW q \in Seq(Timers),
           Linked(q, nx, start), Distinct(q)
    PROVE  [k \in DOMAIN Chain(nx, start) |->
                LET t == Path(nx, start)[k - 1] IN Entry(t, ex[t])] = Listing(q, ex)
<1>1. Chain(nx, start) = q /\ DOMAIN q = 1..Len(q) /\ Len(q) \in Nat
    BY ChainIs, LenProperties
<1>2. \A k \in 1..Len(q) : Path(nx, start)[k - 1] = q[k]
  <2> TAKE k \in 1..Len(q)
  <2>1. k - 1 \in Nat /\ k - 1 < Len(q) /\ (k - 1) + 1 = k
      BY <1>1
  <2> QED BY <2>1, PathIs
<1> QED BY <1>1, <1>2 DEF Listing

LEMMA ListingType ==
    ASSUME NEW q \in Seq(Timers), NEW ex \in [Timers -> Nat]
    PROVE  /\ Listing(q, ex) \in Seq(Entries(Timers, Times))
           /\ Len(Listing(q, ex)) = Len(q)
           /\ \A k \in 1..Len(q) : /\ Listing(q, ex)[k] = Entry(q[k], ex[q[k]])
                                   /\ Listing(q, ex)[k].timer = q[k]
                                   /\ Listing(q, ex)[k].expire = ex[q[k]]
<1>1. Len(q) \in Nat /\ \A k \in 1..Len(q) : q[k] \in Timers
    BY ListFacts
<1>2. Listing(q, ex) \in [1..Len(q) -> Entries(Timers, Times)]
    BY <1>1 DEF Listing, Entry, Entries, Times
<1> QED BY <1>1, <1>2, SeqDef DEF Listing, Entry

(* Two sequences of entries are equal when their entries are.              *)
LEMMA SameSequence ==
    ASSUME NEW T, NEW a \in Seq(T), NEW b \in Seq(T), Len(a) = Len(b),
           \A k \in 1..Len(a) : a[k] = b[k]
    PROVE  a = b
BY SeqEqual

(* An entry that expires no earlier than the others goes to the end.       *)
LEMMA InsertLast ==
    ASSUME NEW q \in Seq(Entries(Timers, Times)), NEW x \in Entries(Timers, Times),
           \A i \in 1..Len(q) : q[i].expire <= x.expire
    PROVE  /\ Insert(q, x) \in Seq(Entries(Timers, Times))
           /\ Len(Insert(q, x)) = Len(q) + 1
           /\ Insert(q, x)[Len(q) + 1] = x
           /\ \A i \in 1..Len(q) : Insert(q, x)[i] = q[i]
<1>1. Len(q) \in Nat /\ x.expire \in Nat
    BY LenProperties DEF Entries, Times
<1>2. \A i \in 1..Len(q) : q[i].expire \in Nat
  <2> TAKE i \in 1..Len(q)
  <2>1. q[i] \in Entries(Timers, Times)
      BY ElementOfSeq
  <2> QED BY <2>1 DEF Entries, Times
<1>3. Times \in SUBSET Nat
    BY DEF Times
<1>4. /\ Place(q, x) \in 1..(Len(q) + 1)
      /\ Place(q, x) = Len(q) + 1 \/ x.expire < q[Place(q, x)].expire
    BY <1>3, PlaceExists
<1>5. Place(q, x) = Len(q) + 1
  <2> SUFFICES ASSUME Place(q, x) # Len(q) + 1 PROVE FALSE
      OBVIOUS
  <2>1. Place(q, x) \in 1..Len(q)
      BY <1>1, <1>4
  <2> QED BY <1>1, <1>2, <1>4, <2>1
<1>6. /\ Insert(q, x) \in Seq(Entries(Timers, Times))
      /\ Len(Insert(q, x)) = Len(q) + 1
      /\ Insert(q, x)[Place(q, x)] = x
      /\ \A i \in 1..(Place(q, x) - 1) : Insert(q, x)[i] = q[i]
  <2>1. Insert(q, x) \in Seq(Entries(Timers, Times)) /\ Len(Insert(q, x)) = Len(q) + 1
      BY <1>3, InsertElements
  <2>2. Insert(q, x)[Place(q, x)] = x
      BY <1>3, InsertElements
  <2>3. \A i \in 1..(Place(q, x) - 1) : Insert(q, x)[i] = q[i]
      BY <1>3, InsertElements
  <2> QED BY <2>1, <2>2, <2>3
<1>7. (Len(q) + 1) - 1 = Len(q)
    BY <1>1
<1> QED BY <1>5, <1>6, <1>7

(* What is left of the list when a timer is taken out.                     *)
LEMMA WithoutIs ==
    ASSUME NEW q \in Seq(Entries(Timers, Times)), NEW t \in TimersOf(q)
    PROVE  /\ Without(q, t) \in Seq(Entries(Timers, Times))
           /\ Len(Without(q, t)) = Len(q) - 1
           /\ \A i \in 1..(PlaceOf(q, t) - 1) : Without(q, t)[i] = q[i]
           /\ \A i \in PlaceOf(q, t)..(Len(q) - 1) : Without(q, t)[i] = q[i + 1]
<1>1. Times \in SUBSET Nat
    BY DEF Times
<1>2. Without(q, t) \in Seq(Entries(Timers, Times)) /\ Len(Without(q, t)) = Len(q) - 1
    BY <1>1, WithoutElements
<1>3. \A i \in 1..(PlaceOf(q, t) - 1) : Without(q, t)[i] = q[i]
    BY <1>1, WithoutElements
<1>4. \A i \in PlaceOf(q, t)..(Len(q) - 1) : Without(q, t)[i] = q[i + 1]
    BY <1>1, WithoutElements
<1> QED BY <1>2, <1>3, <1>4

LEMMA AddListing ==
    ASSUME NEW q \in Seq(Timers), NEW t \in Timers,
           NEW ex \in [Timers -> Nat], NEW ey \in [Timers -> Nat],
           \A x \in Timers : x # t => ey[x] = ex[x],
           \A i \in 1..Len(q) : q[i] # t /\ ex[q[i]] <= ey[t]
    PROVE  Listing(Added(q, t), ey) = Insert(Listing(q, ex), Entry(t, ey[t]))
<1> DEFINE a == Listing(Added(q, t), ey)
           b == Insert(Listing(q, ex), Entry(t, ey[t]))
           n == Len(q)
<1>1. /\ n \in Nat
      /\ Added(q, t) \in Seq(Timers) /\ Len(Added(q, t)) = n + 1
      /\ \A i \in 1..n : q[i] \in Timers /\ Added(q, t)[i] = q[i]
      /\ Added(q, t)[n + 1] = t
    BY ListFacts, AddedFacts
<1>3. /\ a \in Seq(Entries(Timers, Times)) /\ Len(a) = n + 1
      /\ \A k \in 1..(n + 1) : a[k] = Entry(Added(q, t)[k], ey[Added(q, t)[k]])
  <2>1. /\ a \in Seq(Entries(Timers, Times)) /\ Len(a) = Len(Added(q, t))
        /\ \A k \in 1..Len(Added(q, t)) :
               a[k] = Entry(Added(q, t)[k], ey[Added(q, t)[k]])
      BY <1>1, ListingType, Zenon
  <2> QED BY <1>1, <2>1
<1>4. Entry(t, ey[t]) \in Entries(Timers, Times) /\ Entry(t, ey[t]).expire = ey[t]
    BY DEF Entry, Entries, Times
<1>5. /\ Listing(q, ex) \in Seq(Entries(Timers, Times)) /\ Len(Listing(q, ex)) = n
      /\ \A k \in 1..n : Listing(q, ex)[k] = Entry(q[k], ex[q[k]])
      /\ \A k \in 1..n : Listing(q, ex)[k].expire <= Entry(t, ey[t]).expire
    BY <1>4, ListingType
<1>6. /\ b \in Seq(Entries(Timers, Times)) /\ Len(b) = n + 1
      /\ b[n + 1] = Entry(t, ey[t])
      /\ \A k \in 1..n : b[k] = Entry(q[k], ex[q[k]])
  <2> DEFINE L == Listing(q, ex)
             x == Entry(t, ey[t])
  <2>2. /\ L \in Seq(Entries(Timers, Times)) /\ x \in Entries(Timers, Times)
        /\ \A k \in 1..Len(L) : L[k].expire <= x.expire
      BY <1>4, <1>5
  <2>3. Len(L) = n /\ \A k \in 1..n : L[k] = Entry(q[k], ex[q[k]])
      BY <1>5
  <2> HIDE DEF L, x
  <2>4. /\ Insert(L, x) \in Seq(Entries(Timers, Times))
        /\ Len(Insert(L, x)) = Len(L) + 1
        /\ Insert(L, x)[Len(L) + 1] = x
        /\ \A k \in 1..Len(L) : Insert(L, x)[k] = L[k]
      BY <2>2, InsertLast, Zenon
  <2> QED BY <2>3, <2>4 DEF L, x
<1> HIDE DEF a, b, n
<1>7. \A k \in 1..(n + 1) : a[k] = b[k]
  <2> TAKE k \in 1..(n + 1)
  <2>1. CASE k = n + 1
    <3>2. a[n + 1] = Entry(t, ey[t])
        BY <1>1, <1>3, <2>1
    <3> QED BY <1>6, <2>1, <3>2
  <2>2. CASE k \in 1..n
    <3>1. q[k] \in Timers /\ q[k] # t
        BY <1>1, <2>2 DEF n
    <3>2. ey[q[k]] = ex[q[k]]
        BY <3>1
    <3>3. a[k] = Entry(q[k], ey[q[k]])
        BY <1>1, <1>3, <2>2
    <3> QED BY <1>6, <2>2, <3>2, <3>3
  <2> QED BY <1>1, <2>1, <2>2
<1>8. Len(a) = Len(b) /\ \A k \in 1..Len(a) : a[k] = b[k]
    BY <1>3, <1>6, <1>7
<1>9. a = b
    BY <1>3, <1>6, <1>8, SameSequence
<1> QED BY <1>9 DEF a, b

LEMMA CutListing ==
    ASSUME NEW q \in Seq(Timers), NEW i \in 1..Len(q), Distinct(q),
           NEW ex \in [Timers -> Nat], NEW ey \in [Timers -> Nat],
           \A k \in 1..Len(q) : k # i => ey[q[k]] = ex[q[k]]
    PROVE  /\ q[i] \in TimersOf(Listing(q, ex))
           /\ Listing(Cut(q, i), ey) = Without(Listing(q, ex), q[i])
<1> DEFINE l == Listing(q, ex)
           a == Listing(Cut(q, i), ey)
           b == Without(l, q[i])
           n == Len(q)
<1>1. /\ n \in Nat /\ i \in Nat /\ i >= 1 /\ i <= n /\ n - 1 \in Nat
    BY ListFacts
<1>2. /\ Cut(q, i) \in Seq(Timers) /\ Len(Cut(q, i)) = n - 1
      /\ \A k \in 1..(i - 1) : Cut(q, i)[k] = q[k]
      /\ \A k \in i..(n - 1) : Cut(q, i)[k] = q[k + 1]
    BY CutFacts
<1>3. /\ l \in Seq(Entries(Timers, Times)) /\ Len(l) = n
      /\ \A k \in 1..n : l[k] = Entry(q[k], ex[q[k]]) /\ l[k].timer = q[k]
    BY ListingType
<1>4. /\ a \in Seq(Entries(Timers, Times)) /\ Len(a) = n - 1
      /\ \A k \in 1..(n - 1) : a[k] = Entry(Cut(q, i)[k], ey[Cut(q, i)[k]])
  <2>1. /\ a \in Seq(Entries(Timers, Times)) /\ Len(a) = Len(Cut(q, i))
        /\ \A k \in 1..Len(Cut(q, i)) : a[k] = Entry(Cut(q, i)[k], ey[Cut(q, i)[k]])
      BY <1>2, ListingType, Zenon
  <2> QED BY <1>2, <2>1
<1> HIDE DEF l, a, n
<1>5. q[i] \in TimersOf(l)
    BY <1>3 DEF TimersOf, n
<1>6. PlaceOf(l, q[i]) = i
  <2>1. PlaceOf(l, q[i]) \in 1..n /\ l[PlaceOf(l, q[i])].timer = q[i]
      BY <1>3, <1>5, PlaceOfTimer
  <2> QED BY <1>3, <2>1 DEF Distinct, n
<1>7. /\ b \in Seq(Entries(Timers, Times)) /\ Len(b) = n - 1
      /\ \A k \in 1..(i - 1) : b[k] = l[k]
      /\ \A k \in i..(n - 1) : b[k] = l[k + 1]
  <2>1. /\ b \in Seq(Entries(Timers, Times)) /\ Len(b) = Len(l) - 1
        /\ \A k \in 1..(PlaceOf(l, q[i]) - 1) : b[k] = l[k]
        /\ \A k \in PlaceOf(l, q[i])..(Len(l) - 1) : b[k] = l[k + 1]
      BY <1>3, <1>5, WithoutIs, Zenon
  <2> QED BY <1>3, <1>6, <2>1
<1> HIDE DEF b
<1>8. \A k \in 1..(n - 1) : a[k] = b[k]
  <2> TAKE k \in 1..(n - 1)
  <2>1. CASE k \in 1..(i - 1)
    <3>1. k \in 1..n /\ k # i
        BY <1>1, <2>1
    <3>2. a[k] = Entry(q[k], ex[q[k]])
        BY <1>2, <1>4, <2>1, <3>1 DEF n
    <3> QED BY <1>3, <1>7, <2>1, <3>1, <3>2
  <2>2. CASE k \in i..(n - 1)
    <3>1. k + 1 \in 1..n /\ k + 1 # i
        BY <1>1, <2>2
    <3>2. a[k] = Entry(q[k + 1], ex[q[k + 1]])
      <4>1. a[k] = Entry(q[k + 1], ey[q[k + 1]])
          BY <1>2, <1>4, <2>2
      <4>2. ey[q[k + 1]] = ex[q[k + 1]]
          BY <3>1 DEF n
      <4> QED BY <4>1, <4>2
    <3> QED BY <1>3, <1>7, <2>2, <3>1, <3>2
  <2> QED BY <1>1, <2>1, <2>2
<1>9. a = b
    BY <1>4, <1>7, <1>8, SameSequence
<1> QED BY <1>5, <1>9 DEF a, b, l

LEMMA MoveListing ==
    ASSUME NEW q \in Seq(Timers), NEW i \in 1..Len(q), Distinct(q),
           NEW ex \in [Timers -> Nat], NEW ey \in [Timers -> Nat],
           \A x \in Timers : x # q[i] => ey[x] = ex[x],
           \A k \in 1..Len(q) : ex[q[k]] <= ey[q[i]]
    PROVE  /\ q[i] \in TimersOf(Listing(q, ex))
           /\ Listing(Moved(q, i), ey)
                  = Insert(Without(Listing(q, ex), q[i]), Entry(q[i], ey[q[i]]))
<1> DEFINE c == Cut(q, i)
           n == Len(q)
<1>1. n \in Nat /\ i \in Nat /\ i \in 1..n /\ i >= 1 /\ i <= n /\ (n - 1) + 1 = n /\ n - 1 \in Nat
    BY ListFacts
<1>2. \A k \in 1..n : q[k] \in Timers /\ (k # i => q[k] # q[i]) /\ ex[q[k]] <= ey[q[i]]
    BY ListFacts DEF Distinct
<1>3. /\ c \in Seq(Timers) /\ Len(c) = n - 1
      /\ \A k \in 1..(i - 1) : c[k] = q[k]
      /\ \A k \in i..(n - 1) : c[k] = q[k + 1]
    BY CutFacts
<1>4. /\ q[i] \in TimersOf(Listing(q, ex))
      /\ Listing(c, ex) = Without(Listing(q, ex), q[i])
    BY CutListing
<1> HIDE DEF c, n
<1>5. \A k \in 1..Len(c) : c[k] # q[i] /\ ex[c[k]] <= ey[q[i]]
  <2> SUFFICES ASSUME NEW k \in 1..(n - 1) PROVE c[k] # q[i] /\ ex[c[k]] <= ey[q[i]]
      BY <1>3
  <2>1. CASE k < i
    <3>1. k \in 1..(i - 1) /\ k \in 1..n /\ k # i
        BY <1>1, <2>1
    <3> QED BY <1>2, <1>3, <3>1
  <2>2. CASE k >= i
    <3>1. k + 1 \in 1..n /\ k + 1 # i /\ k \in i..(n - 1)
        BY <1>1, <2>2
    <3> QED BY <1>2, <1>3, <3>1
  <2> QED BY <1>1, <2>1, <2>2
<1>6. Listing(Added(c, q[i]), ey) = Insert(Listing(c, ex), Entry(q[i], ey[q[i]]))
  <2>1. q[i] \in Timers
      BY <1>1, <1>2
  <2> QED BY <1>3, <1>5, <2>1, AddListing, Zenon
<1>7. Added(c, q[i]) = Moved(q, i)
  <2>1. /\ Added(c, q[i]) \in Seq(Timers) /\ Len(Added(c, q[i])) = n
        /\ \A k \in 1..(n - 1) : Added(c, q[i])[k] = c[k]
        /\ Added(c, q[i])[n] = q[i]
    <3>1. q[i] \in Timers
        BY <1>1, <1>2
    <3>2. /\ Added(c, q[i]) \in Seq(Timers) /\ Len(Added(c, q[i])) = Len(c) + 1
          /\ \A k \in 1..Len(c) : Added(c, q[i])[k] = c[k]
          /\ Added(c, q[i])[Len(c) + 1] = q[i]
        BY <1>3, <3>1, AddedFacts, Zenon
    <3> QED BY <1>1, <1>3, <3>2
  <2>2. /\ Moved(q, i) \in Seq(Timers) /\ Len(Moved(q, i)) = n
        /\ \A k \in 1..(i - 1) : Moved(q, i)[k] = q[k]
        /\ \A k \in i..(n - 1) : Moved(q, i)[k] = q[k + 1]
        /\ Moved(q, i)[n] = q[i]
      BY MovedFacts DEF n
  <2>3. \A k \in 1..n : Added(c, q[i])[k] = Moved(q, i)[k]
    <3> TAKE k \in 1..n
    <3>1. CASE k = n
        BY <2>1, <2>2, <3>1
    <3>2. CASE k < i /\ k # n
      <4>1. k \in 1..(i - 1) /\ k \in 1..(n - 1)
          BY <1>1, <3>2
      <4> QED BY <1>3, <2>1, <2>2, <4>1
    <3>3. CASE k >= i /\ k # n
      <4>1. k \in i..(n - 1) /\ k \in 1..(n - 1)
          BY <1>1, <3>3
      <4> QED BY <1>3, <2>1, <2>2, <4>1
    <3> QED BY <1>1, <3>1, <3>2, <3>3
  <2> QED BY <2>1, <2>2, <2>3, SameSequence
<1> QED BY <1>4, <1>6, <1>7

LEMMA DropListing ==
    ASSUME NEW q \in Seq(Timers), NEW n \in 0..Len(q),
           NEW ex \in [Timers -> Nat], NEW ey \in [Timers -> Nat],
           \A k \in 1..Len(q) : k > n => ey[q[k]] = ex[q[k]]
    PROVE  Listing(Dropped(q, n), ey)
               = SubSeq(Listing(q, ex), n + 1, Len(Listing(q, ex)))
<1> DEFINE l == Listing(q, ex)
           a == Listing(Dropped(q, n), ey)
           b == SubSeq(l, n + 1, Len(l))
           N == Len(q)
<1>1. N \in Nat /\ n \in Nat /\ n <= N /\ N - n \in Nat
    BY ListFacts
<1>2. /\ Dropped(q, n) \in Seq(Timers) /\ Len(Dropped(q, n)) = N - n
      /\ \A k \in 1..(N - n) : Dropped(q, n)[k] = q[k + n]
    BY DroppedFacts
<1>3. /\ l \in Seq(Entries(Timers, Times)) /\ Len(l) = N
      /\ \A k \in 1..N : l[k] = Entry(q[k], ex[q[k]])
    BY ListingType
<1>4. /\ a \in Seq(Entries(Timers, Times)) /\ Len(a) = N - n
      /\ \A k \in 1..(N - n) : a[k] = Entry(Dropped(q, n)[k], ey[Dropped(q, n)[k]])
  <2>1. /\ a \in Seq(Entries(Timers, Times)) /\ Len(a) = Len(Dropped(q, n))
        /\ \A k \in 1..Len(Dropped(q, n)) :
               a[k] = Entry(Dropped(q, n)[k], ey[Dropped(q, n)[k]])
      BY <1>2, ListingType, Zenon
  <2> QED BY <1>2, <2>1
<1> HIDE DEF l, a, N
<1>5. /\ b \in Seq(Entries(Timers, Times)) /\ Len(b) = N - n
      /\ \A k \in 1..(N - n) : b[k] = l[k + n]
  <2>1. n + 1 \in 1..(Len(l) + 1) /\ Len(l) \in (n + 1 - 1)..Len(l)
      BY <1>1, <1>3
  <2>2. /\ SubSeq(l, n + 1, N) \in Seq(Entries(Timers, Times))
        /\ Len(SubSeq(l, n + 1, N)) = N - (n + 1) + 1
        /\ \A k \in 1..(N - (n + 1) + 1) : SubSeq(l, n + 1, N)[k] = l[n + 1 + k - 1]
      BY <1>1, <1>3, <2>1, SubSeqProperties
  <2>3. N - (n + 1) + 1 = N - n
      BY <1>1
  <2>4. \A k \in 1..(N - n) : n + 1 + k - 1 = k + n
      BY <1>1
  <2> QED BY <1>3, <2>2, <2>3, <2>4
<1> HIDE DEF b
<1>6. \A k \in 1..(N - n) : a[k] = b[k]
  <2> TAKE k \in 1..(N - n)
  <2>1. k + n \in 1..N /\ k + n > n
      BY <1>1
  <2>2. ey[q[k + n]] = ex[q[k + n]]
      BY <2>1 DEF N
  <2>3. a[k] = Entry(q[k + n], ey[q[k + n]])
      BY <1>2, <1>4
  <2> QED BY <1>3, <1>5, <2>1, <2>2, <2>3
<1>7. a = b
    BY <1>4, <1>5, <1>6, SameSequence
<1> QED BY <1>7 DEF a, b, l

-------------------------------------------------------------------------------
(* The instance's operators are those of TimerOrder.                       *)
LEMMA SameOperators ==
    /\ \A q : Abstract!TimersOf(q) = TimersOf(q)
    /\ \A q, t : Abstract!Without(q, t) = Without(q, t)
    /\ \A q, x : Abstract!Insert(q, x) = Insert(q, x)
    /\ \A q, t : Abstract!Expired(q, t) = Expired(q, t)
    /\ \A t, e : Abstract!Entry(t, e) = Entry(t, e)
<1>1. \A q : Abstract!TimersOf(q) = TimersOf(q)
    BY Zenon DEF Abstract!TimersOf, TimersOf
<1>2. \A q, t : Abstract!PlaceOf(q, t) = PlaceOf(q, t)
    BY Zenon DEF Abstract!PlaceOf, PlaceOf
<1>3. \A q, i : Abstract!RemoveAt(q, i) = RemoveAt(q, i)
    BY Zenon DEF Abstract!RemoveAt, RemoveAt
<1>4. \A q, t : Abstract!Without(q, t) = Without(q, t)
    BY <1>2, <1>3, Zenon DEF Abstract!Without, Without
<1>5. \A q, x : Abstract!Place(q, x) = Place(q, x)
    BY Zenon DEF Abstract!Place, Place
<1>6. \A q, i, x : Abstract!InsertAt(q, i, x) = InsertAt(q, i, x)
    BY Zenon DEF Abstract!InsertAt, InsertAt
<1>7. \A q, x : Abstract!Insert(q, x) = Insert(q, x)
    BY <1>5, <1>6, Zenon DEF Abstract!Insert, Insert
<1>8. \A q, t : Abstract!Expired(q, t) = Expired(q, t)
    BY Zenon DEF Abstract!Expired, Expired
<1>9. \A t, e : Abstract!Entry(t, e) = Entry(t, e)
    BY Zenon DEF Abstract!Entry, Entry
<1> QED BY <1>1, <1>4, <1>7, <1>8, <1>9, Zenon

(* What the list stands for, now and after a step.                         *)
LEMMA ContentsIs ==
    ASSUME NEW q \in Seq(Timers), IsList(q)
    PROVE  Contents = Listing(q, expire)
<1>1. Linked(q, next, head) /\ Distinct(q)
    BY DEF IsList
<1>2. [k \in DOMAIN Chain(next, head) |->
          LET t == Path(next, head)[k - 1] IN Entry(t, expire[t])] = Listing(q, expire)
    BY <1>1, ListingIs
<1> QED BY <1>2 DEF Contents

LEMMA ContentsNext ==
    ASSUME NEW q \in Seq(Timers), IsList(q)'
    PROVE  Contents' = Listing(q, expire')
<1>1. Linked(q, next', head') /\ Distinct(q)
    BY DEF IsList, Linked, Distinct
<1>2. [k \in DOMAIN Chain(next', head') |->
          LET t == Path(next', head')[k - 1] IN Entry(t, expire'[t])] = Listing(q, expire')
    BY <1>1, ListingIs
<1> QED BY <1>2 DEF Contents, Chain, Path

LEMMA AddMaps ==
    ASSUME TypeOK, NEW q \in Seq(Timers), IsList(q), NEW t \in Timers, Add(t)
    PROVE  Abstract!Add(t)
<1>1. TypeOK' /\ IsList(Added(q, t))' /\ Added(q, t) \in Seq(Timers)
    BY AddStep, AddedFacts
<1>2. Contents = Listing(q, expire) /\ Contents' = Listing(Added(q, t), expire')
    BY <1>1, ContentsIs, ContentsNext
<1>3. /\ expire \in [Timers -> Nat] /\ expire' \in [Timers -> Nat]
      /\ expire' = [expire EXCEPT ![t] = now + Lifetime]
      /\ t \notin live /\ now' = now /\ fired' = fired
    BY <1>1 DEF TypeOK, Add
<1>4. expire'[t] = now + Lifetime /\ \A x \in Timers : x # t => expire'[x] = expire[x]
    BY <1>3
<1>5. \A i \in 1..Len(q) : q[i] # t /\ expire[q[i]] <= expire'[t]
    BY <1>3, <1>4, ListIs DEF IsList
<1>6. Contents' = Insert(Contents, Entry(t, now + Lifetime))
  <2>1. PICK ex \in [Timers -> Nat], ey \in [Timers -> Nat] : ex = expire /\ ey = expire'
      BY <1>3
  <2>2. /\ \A x \in Timers : x # t => ey[x] = ex[x]
        /\ \A i \in 1..Len(q) : q[i] # t /\ ex[q[i]] <= ey[t]
      BY <1>4, <1>5, <2>1
  <2>3. Listing(Added(q, t), ey) = Insert(Listing(q, ex), Entry(t, ey[t]))
      BY <2>2, AddListing
  <2> QED BY <1>2, <1>4, <2>1, <2>3
<1>7. t \notin TimersOf(Contents)
  <2>1. Len(Contents) = Len(q) /\ \A k \in 1..Len(q) : Contents[k].timer = q[k]
      BY <1>2, <1>3, ListingType
  <2> QED BY <1>5, <2>1 DEF TimersOf
<1> QED BY <1>3, <1>6, <1>7, SameOperators, Zenon DEF Abstract!Add

LEMMA AdjustMaps ==
    ASSUME TypeOK, NEW q \in Seq(Timers), IsList(q), NEW t \in Timers, Adjust(t)
    PROVE  Abstract!Adjust(t)
<1>1. PICK i \in 1..Len(q) : q[i] = t
    BY PlaceOfLive DEF Adjust
<1>2. TypeOK' /\ IsList(Moved(q, i))' /\ Moved(q, i) \in Seq(Timers)
    BY <1>1, AdjustStep, MovedFacts
<1>3. Contents = Listing(q, expire) /\ Contents' = Listing(Moved(q, i), expire')
    BY <1>2, ContentsIs, ContentsNext
<1>4. /\ expire \in [Timers -> Nat] /\ expire' \in [Timers -> Nat]
      /\ expire' = [expire EXCEPT ![t] = now + Lifetime]
      /\ now' = now /\ fired' = fired
    BY <1>2 DEF TypeOK, Adjust
<1>5. expire'[t] = now + Lifetime /\ \A x \in Timers : x # t => expire'[x] = expire[x]
    BY <1>4
<1>6. /\ now + Lifetime \in Nat /\ Distinct(q)
      /\ \A k \in 1..Len(q) : expire[q[k]] <= now + Lifetime
    BY ListIs DEF IsList
<1>7. /\ t \in TimersOf(Contents)
      /\ Contents' = Insert(Without(Contents, t), Entry(t, now + Lifetime))
  <2>1. PICK ex \in [Timers -> Nat], ey \in [Timers -> Nat] : ex = expire /\ ey = expire'
      BY <1>4
  <2>2. /\ Distinct(q)
        /\ \A x \in Timers : x # q[i] => ey[x] = ex[x]
        /\ \A k \in 1..Len(q) : ex[q[k]] <= ey[q[i]]
      BY <1>1, <1>5, <1>6, <2>1
  <2>3. /\ q[i] \in TimersOf(Listing(q, ex))
        /\ Listing(Moved(q, i), ey) = Insert(Without(Listing(q, ex), q[i]), Entry(q[i], ey[q[i]]))
      BY <2>2, MoveListing
  <2> QED BY <1>1, <1>3, <1>5, <2>1, <2>3
<1> QED BY <1>4, <1>7, SameOperators, Zenon DEF Abstract!Adjust

LEMMA DeleteMaps ==
    ASSUME TypeOK, NEW q \in Seq(Timers), IsList(q), NEW t \in Timers, Delete(t)
    PROVE  Abstract!Delete(t)
<1>1. PICK i \in 1..Len(q) : q[i] = t
    BY PlaceOfLive DEF Delete
<1>2. TypeOK' /\ IsList(Cut(q, i))' /\ Cut(q, i) \in Seq(Timers)
    BY <1>1, DeleteStep, CutFacts
<1>3. Contents = Listing(q, expire) /\ Contents' = Listing(Cut(q, i), expire')
    BY <1>2, ContentsIs, ContentsNext
<1>4. /\ expire \in [Timers -> Nat] /\ expire' \in [Timers -> Nat]
      /\ expire' = [expire EXCEPT ![t] = 0]
      /\ now' = now /\ fired' = fired /\ Distinct(q)
    BY <1>2 DEF TypeOK, Delete, IsList
<1>5. \A k \in 1..Len(q) : k # i => expire'[q[k]] = expire[q[k]]
  <2> TAKE k \in 1..Len(q)
  <2> HAVE k # i
  <2>1. q[k] \in Timers /\ q[k] # t
      BY <1>1, <1>4, ListFacts DEF Distinct
  <2> QED BY <1>4, <2>1
<1>6. t \in TimersOf(Contents) /\ Contents' = Without(Contents, t)
  <2>1. PICK ex \in [Timers -> Nat], ey \in [Timers -> Nat] : ex = expire /\ ey = expire'
      BY <1>4
  <2>2. \A k \in 1..Len(q) : k # i => ey[q[k]] = ex[q[k]]
      BY <1>5, <2>1
  <2>3. /\ q[i] \in TimersOf(Listing(q, ex))
        /\ Listing(Cut(q, i), ey) = Without(Listing(q, ex), q[i])
      BY <1>4, <2>2, CutListing
  <2> QED BY <1>1, <1>3, <2>1, <2>3
<1> QED BY <1>4, <1>6, SameOperators, Zenon DEF Abstract!Delete

LEMMA TimeoutMaps ==
    ASSUME TypeOK, NEW q \in Seq(Timers), IsList(q), Timeout
    PROVE  Abstract!Timeout
<1>1. PICK n \in 0..Len(q) :
          /\ \A k \in 1..n : expire[q[k]] <= now
          /\ \A k \in 1..Len(q) : k > n => now < expire[q[k]]
          /\ fired' = SubSeq(q, 1, n)
          /\ TypeOK' /\ now' = now
          /\ \A k \in 1..Len(q) : k > n => expire'[q[k]] = expire[q[k]]
          /\ IsList(Dropped(q, n))'
    BY TimeoutStep
<1>2. Dropped(q, n) \in Seq(Timers)
    BY DroppedFacts
<1>3. Contents = Listing(q, expire) /\ Contents' = Listing(Dropped(q, n), expire')
    BY <1>1, <1>2, ContentsIs, ContentsNext
<1>4. expire \in [Timers -> Nat] /\ expire' \in [Timers -> Nat]
    BY <1>1 DEF TypeOK
<1>5. Contents' = SubSeq(Contents, n + 1, Len(Contents))
    BY <1>1, <1>3, <1>4, DropListing
<1>6. /\ Len(Contents) = Len(q)
      /\ \A k \in 1..Len(q) : Contents[k].timer = q[k] /\ Contents[k].expire = expire[q[k]]
    BY <1>3, <1>4, ListingType
<1>7. /\ Len(q) \in Nat /\ n \in Nat /\ n <= Len(q) /\ now \in Nat
      /\ \A k \in 1..Len(q) : q[k] \in Timers /\ expire[q[k]] \in Nat
  <2>1. Len(q) \in Nat /\ \A k \in 1..Len(q) : q[k] \in Timers
      BY ListFacts
  <2>2. now \in Nat
      BY TimerListAssumption DEF TypeOK
  <2> QED BY <1>4, <2>1, <2>2
<1>8. Expired(Contents, now) = 1..n
  <2>1. \A k \in 1..Len(q) : expire[q[k]] <= now <=> k <= n
    <3> TAKE k \in 1..Len(q)
    <3>1. CASE k <= n
        BY <1>1, <1>7, <3>1
    <3>2. CASE k > n
      <4>1. now < expire[q[k]] /\ expire[q[k]] \in Nat
          BY <1>1, <1>7, <3>2
      <4> QED BY <1>7, <3>2, <4>1
    <3> QED BY <1>7, <3>1, <3>2
  <2>2. Expired(Contents, now) = {k \in 1..Len(q) : k <= n}
      BY <1>6, <2>1 DEF Expired
  <2> QED BY <1>7, <2>2
<1>9. fired' = [k \in 1..n |-> Contents[k].timer]
  <2>1. fired' = [k \in 1..n |-> q[k]]
      BY <1>1, <1>7
  <2> QED BY <1>6, <1>7, <2>1
<1>10. n \in 0..Len(Contents)
    BY <1>6
<1> QED BY <1>1, <1>5, <1>8, <1>9, <1>10, SameOperators, Zenon DEF Abstract!Timeout

(* Every step of the list is a step of what it stands for, or none.        *)
LEMMA StepMaps == IInv /\ IInv' /\ [Next]_vars => [Abstract!Next]_(Abstract!vars)
<1> SUFFICES ASSUME IInv, IInv', [Next]_vars PROVE [Abstract!Next]_(Abstract!vars)
    OBVIOUS
<1>1. TypeOK
    BY DEF IInv
<1>2. PICK q \in Seq(Timers) : IsList(q)
    BY DEF IInv
<1>3. ASSUME NEW t \in Timers, Add(t) PROVE Abstract!Next
    BY <1>1, <1>2, <1>3, AddMaps, Zenon DEF Abstract!Next
<1>4. ASSUME NEW t \in Timers, Adjust(t) PROVE Abstract!Next
    BY <1>1, <1>2, <1>4, AdjustMaps, Zenon DEF Abstract!Next
<1>5. ASSUME NEW t \in Timers, Delete(t) PROVE Abstract!Next
    BY <1>1, <1>2, <1>5, DeleteMaps, Zenon DEF Abstract!Next
<1>6. CASE Timeout
    BY <1>1, <1>2, <1>6, TimeoutMaps, Zenon DEF Abstract!Next
<1>7. CASE Advance
  <2>1. IsList(q)'
      BY <1>1, <1>2, <1>7, AdvanceStep
  <2>2. Contents = Listing(q, expire) /\ Contents' = Listing(q, expire') /\ expire' = expire
      BY <1>2, <1>7, <2>1, ContentsIs, ContentsNext DEF Advance
  <2>3. now' = now + 1 /\ UNCHANGED <<Contents, fired>>
      BY <1>7, <2>2 DEF Advance
  <2> QED BY <2>3, Zenon DEF Abstract!Next, Abstract!Advance
<1>8. CASE UNCHANGED vars
  <2>1. IsList(q)'
      BY <1>2, <1>8 DEF vars, IsList
  <2>2. Contents = Listing(q, expire) /\ Contents' = Listing(q, expire') /\ expire' = expire
      BY <1>2, <1>8, <2>1, ContentsIs, ContentsNext DEF vars
  <2> QED BY <1>8, <2>2 DEF vars, Abstract!vars
<1> QED BY <1>3, <1>4, <1>5, <1>6, <1>7, <1>8, Zenon DEF Next

(* The linked list does what a sorted list of timers would: adjust_timer   *)
(* moves a timer to its place, timeout() calls back exactly what is due.   *)
THEOREM ListImplementsSortedTimers == Spec => ImplementsSortedTimers
<1>1. Init => Abstract!Init
  <2> SUFFICES ASSUME Init PROVE Abstract!Init
      OBVIOUS
  <2>1. << >> \in Seq(Timers) /\ Len(<< >>) = 0
      BY EmptySeq
  <2>2. IsList(<< >>)
      BY <2>1 DEF Init, IsList, Linked, Distinct
  <2>3. Contents = [k \in 1..0 |-> Entry(<< >>[k], expire[<< >>[k]])]
    <3>1. Contents = Listing(<< >>, expire)
        BY <2>1, <2>2, ContentsIs, Zenon
    <3> QED BY <2>1, <3>1 DEF Listing
  <2>4. Contents = << >>
      BY <2>3
  <2> QED BY <2>4 DEF Init, Abstract!Init
<1> QED BY <1>1, Inductive, StepMaps, PTL DEF Spec, ImplementsSortedTimers, Abstract!Spec
===============================================================================
