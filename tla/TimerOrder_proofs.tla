--------------------------- MODULE TimerOrder_proofs ---------------------------
(***************************************************************************)
(* Facts about the operators of TimerOrder, for lists of any length.       *)
(***************************************************************************)
EXTENDS TimerOrder, SequenceTheorems, WellFoundedInduction, TLAPS

Entries(T, N) == [timer : T, expire : N]

(* No timer is in the list twice.                                          *)
NoTwins(q) == \A i, j \in 1..Len(q) : q[i].timer = q[j].timer => i = j

-------------------------------------------------------------------------------
(* A set of numbers has a least one.                                       *)
LEMMA LeastExists ==
    ASSUME NEW S \in SUBSET Nat, S # {}
    PROVE  \E m \in S : \A k \in S : m <= k
<1> DEFINE R == {p \in Nat \X Nat : p[1] < p[2]}
<1>1. \A x, y \in Nat : x < y => <<x, y>> \in R
    OBVIOUS
<1>2. IsWellFoundedOn(R, Nat)
    BY NatLessThanWellFounded, Zenon DEF OpToRel
<1> HIDE DEF R
<1>3. PICK m \in S : \A k \in S : <<k, m>> \notin R
    BY <1>2, WFMin
<1>4. ASSUME NEW k \in S
      PROVE  m <= k
  <2>1. m \in Nat /\ k \in Nat
      OBVIOUS
  <2>2. ~(k < m)
      BY <1>1, <1>3, <2>1, Zenon
  <2> QED BY <2>1, <2>2
<1> QED BY <1>4

(* There is a place for every entry in every list.                         *)
LEMMA PlaceExists ==
    ASSUME NEW T, NEW N \in SUBSET Nat, NEW q \in Seq(Entries(T, N)),
           NEW x \in Entries(T, N)
    PROVE  /\ Place(q, x) \in 1..(Len(q) + 1)
           /\ Place(q, x) = Len(q) + 1 \/ x.expire < q[Place(q, x)].expire
           /\ \A i \in 1..(Place(q, x) - 1) : q[i].expire <= x.expire
<1>1. Len(q) \in Nat /\ x.expire \in Nat
    BY LenProperties DEF Entries
<1>2. \A i \in 1..Len(q) : q[i].expire \in Nat
  <2> TAKE i \in 1..Len(q)
  <2>1. q[i] \in Entries(T, N)
      BY ElementOfSeq
  <2> QED BY <2>1 DEF Entries
<1> DEFINE S == {k \in 1..(Len(q) + 1) : k = Len(q) + 1 \/ x.expire < q[k].expire}
<1>3. S \in SUBSET Nat /\ Len(q) + 1 \in S
    BY <1>1
<1>4. PICK m \in S : \A k \in S : m <= k
    BY <1>3, LeastExists
<1>5. ASSUME NEW i \in 1..(m - 1)
      PROVE  q[i].expire <= x.expire
  <2>1. i \in 1..Len(q) /\ i < m
      BY <1>1, <1>4
  <2>2. i \notin S
      BY <1>4, <2>1, <1>1
  <2>3. ~(x.expire < q[i].expire)
      BY <1>1, <2>1, <2>2
  <2> QED BY <1>1, <1>2, <2>1, <2>3
<1>6. \E k \in 1..(Len(q) + 1) :
          /\ k = Len(q) + 1 \/ x.expire < q[k].expire
          /\ \A i \in 1..(k - 1) : q[i].expire <= x.expire
    BY <1>4, <1>5
<1> QED BY <1>6, Zenon DEF Place

(* What an insertion makes of the list.                                    *)
LEMMA InsertElements ==
    ASSUME NEW T, NEW N \in SUBSET Nat, NEW q \in Seq(Entries(T, N)),
           NEW x \in Entries(T, N)
    PROVE  /\ Insert(q, x) \in Seq(Entries(T, N))
           /\ Len(Insert(q, x)) = Len(q) + 1
           /\ Insert(q, x)[Place(q, x)] = x
           /\ \A i \in 1..(Place(q, x) - 1) : Insert(q, x)[i] = q[i]
           /\ \A i \in (Place(q, x) + 1)..(Len(q) + 1) : Insert(q, x)[i] = q[i - 1]
<1> DEFINE k == Place(q, x)
           a == SubSeq(q, 1, k - 1)
           b == SubSeq(q, k, Len(q))
<1>1. Len(q) \in Nat /\ k \in 1..(Len(q) + 1)
    BY LenProperties, PlaceExists
<1> HIDE DEF k
<1>2. /\ a \in Seq(Entries(T, N)) /\ Len(a) = k - 1
      /\ \A i \in 1..(k - 1) : a[i] = q[i]
    BY <1>1, SubSeqProperties
<1>3. /\ b \in Seq(Entries(T, N)) /\ Len(b) = Len(q) - k + 1
      /\ \A i \in 1..(Len(q) - k + 1) : b[i] = q[i + k - 1]
    BY <1>1, SubSeqProperties
<1> HIDE DEF a, b
<1> DEFINE c == a \o <<x>>
<1>4. /\ c \in Seq(Entries(T, N)) /\ Len(c) = k
      /\ c[k] = x
      /\ \A i \in 1..(k - 1) : c[i] = q[i]
  <2>1. c = Append(a, x)
      BY <1>2
  <2> QED BY <1>1, <1>2, <2>1, AppendProperties
<1>5. Insert(q, x) = c \o b
    BY DEF Insert, InsertAt, k, a, b
<1> HIDE DEF c
<1>6. /\ Insert(q, x) \in Seq(Entries(T, N)) /\ Len(Insert(q, x)) = Len(q) + 1
      /\ \A i \in 1..k : Insert(q, x)[i] = c[i]
      /\ \A i \in (k + 1)..(Len(q) + 1) : Insert(q, x)[i] = b[i - k]
  <2>1. /\ c \o b \in Seq(Entries(T, N))
        /\ Len(c \o b) = Len(c) + Len(b)
        /\ \A i \in 1..(Len(c) + Len(b)) :
               (c \o b)[i] = IF i <= Len(c) THEN c[i] ELSE b[i - Len(c)]
      BY <1>3, <1>4, ConcatProperties
  <2>2. Len(c) + Len(b) = Len(q) + 1
      BY <1>1, <1>3, <1>4
  <2>3. \A i \in 1..k : i \in 1..(Len(q) + 1) /\ i <= k
      BY <1>1
  <2>4. \A i \in (k + 1)..(Len(q) + 1) : i \in 1..(Len(q) + 1) /\ ~(i <= k)
      BY <1>1
  <2>5. \A i \in 1..(Len(q) + 1) :
            Insert(q, x)[i] = IF i <= k THEN c[i] ELSE b[i - k]
      BY <1>4, <1>5, <2>1, <2>2
  <2> QED BY <1>5, <2>1, <2>2, <2>3, <2>4, <2>5
<1>7. \A i \in (k + 1)..(Len(q) + 1) : b[i - k] = q[i - 1]
  <2> TAKE i \in (k + 1)..(Len(q) + 1)
  <2>1. i - k \in 1..(Len(q) - k + 1) /\ (i - k) + k - 1 = i - 1
      BY <1>1
  <2> QED BY <1>3, <2>1
<1>8. k \in 1..k /\ \A i \in 1..(k - 1) : i \in 1..k
    BY <1>1
<1>9. /\ Insert(q, x)[k] = x
      /\ \A i \in 1..(k - 1) : Insert(q, x)[i] = q[i]
      /\ \A i \in (k + 1)..(Len(q) + 1) : Insert(q, x)[i] = q[i - 1]
    BY <1>4, <1>6, <1>7, <1>8
<1> QED BY <1>6, <1>9 DEF k

(* A timer that is in the list has one place in it.                        *)
LEMMA PlaceOfTimer ==
    ASSUME NEW q, NEW t \in TimersOf(q)
    PROVE  PlaceOf(q, t) \in 1..Len(q) /\ q[PlaceOf(q, t)].timer = t
<1>1. \E i \in 1..Len(q) : q[i].timer = t
    BY DEF TimersOf
<1> QED BY <1>1, Zenon DEF PlaceOf

(* What is left of the list when a timer is taken out.                     *)
LEMMA WithoutElements ==
    ASSUME NEW T, NEW N \in SUBSET Nat, NEW q \in Seq(Entries(T, N)),
           NEW t \in TimersOf(q)
    PROVE  /\ Without(q, t) \in Seq(Entries(T, N))
           /\ Len(Without(q, t)) = Len(q) - 1
           /\ \A i \in 1..(PlaceOf(q, t) - 1) : Without(q, t)[i] = q[i]
           /\ \A i \in PlaceOf(q, t)..(Len(q) - 1) : Without(q, t)[i] = q[i + 1]
<1> DEFINE k == PlaceOf(q, t)
           a == SubSeq(q, 1, k - 1)
           b == SubSeq(q, k + 1, Len(q))
<1>1. Len(q) \in Nat /\ k \in 1..Len(q)
    BY LenProperties, PlaceOfTimer
<1>2. Without(q, t) = a \o b
    BY DEF Without, RemoveAt, TimersOf
<1> HIDE DEF k
<1>3. /\ a \in Seq(Entries(T, N)) /\ Len(a) = k - 1
      /\ \A i \in 1..(k - 1) : a[i] = q[i]
    BY <1>1, SubSeqProperties
<1>4. /\ b \in Seq(Entries(T, N)) /\ Len(b) = Len(q) - k
      /\ \A i \in 1..(Len(q) - k) : b[i] = q[i + k]
  <2>1. /\ b \in Seq(Entries(T, N))
        /\ Len(b) = IF k + 1 <= Len(q) THEN Len(q) - (k + 1) + 1 ELSE 0
        /\ \A i \in 1..(Len(q) - (k + 1) + 1) : b[i] = q[(k + 1) + i - 1]
      BY <1>1, SubSeqProperties
  <2>2. /\ Len(q) - (k + 1) + 1 = Len(q) - k
        /\ \A i \in 1..(Len(q) - k) : (k + 1) + i - 1 = i + k
      BY <1>1
  <2>3. k + 1 <= Len(q) \/ Len(q) - k = 0
      BY <1>1
  <2> QED BY <2>1, <2>2, <2>3
<1> HIDE DEF a, b
<1>5. /\ a \o b \in Seq(Entries(T, N))
      /\ Len(a \o b) = Len(a) + Len(b)
      /\ \A i \in 1..(Len(a) + Len(b)) :
             (a \o b)[i] = IF i <= Len(a) THEN a[i] ELSE b[i - Len(a)]
    BY <1>3, <1>4, ConcatProperties
<1>6. Len(a) + Len(b) = Len(q) - 1
    BY <1>1, <1>3, <1>4
<1>7. \A i \in 1..(Len(q) - 1) :
          Without(q, t)[i] = IF i <= k - 1 THEN a[i] ELSE b[i - (k - 1)]
    BY <1>2, <1>3, <1>5, <1>6
<1>8. ASSUME NEW i \in 1..(k - 1)
      PROVE  Without(q, t)[i] = q[i]
  <2>1. i \in 1..(Len(q) - 1) /\ i <= k - 1
      BY <1>1
  <2> QED BY <1>3, <1>7, <2>1
<1>9. ASSUME NEW i \in k..(Len(q) - 1)
      PROVE  Without(q, t)[i] = q[i + 1]
  <2>1. i \in 1..(Len(q) - 1) /\ ~(i <= k - 1)
      BY <1>1
  <2>2. i - (k - 1) \in 1..(Len(q) - k) /\ (i - (k - 1)) + k = i + 1
      BY <1>1
  <2> QED BY <1>4, <1>7, <2>1, <2>2
<1> QED BY <1>2, <1>5, <1>6, <1>8, <1>9 DEF k

-------------------------------------------------------------------------------
(* Order, timers and repetitions of a list an entry is put into.           *)

(* Each entry of the longer list is the new one or was there, and those    *)
(* that were there are in the order they were in.                          *)
LEMMA InsertOrder ==
    ASSUME NEW T, NEW N \in SUBSET Nat, NEW q \in Seq(Entries(T, N)),
           NEW x \in Entries(T, N), InExpiryOrder(q)
    PROVE  InExpiryOrder(Insert(q, x))
<1> DEFINE k == Place(q, x)
           r == Insert(q, x)
<1>1. /\ Len(q) \in Nat /\ k \in 1..(Len(q) + 1) /\ Len(r) = Len(q) + 1
      /\ k = Len(q) + 1 \/ x.expire < q[k].expire
      /\ \A i \in 1..(k - 1) : q[i].expire <= x.expire
    BY LenProperties, PlaceExists, InsertElements
<1>2. /\ r[k] = x
      /\ \A i \in 1..(k - 1) : r[i] = q[i]
      /\ \A i \in (k + 1)..(Len(q) + 1) : r[i] = q[i - 1]
  <2>1. r[k] = x
      BY InsertElements
  <2>2. \A i \in 1..(k - 1) : r[i] = q[i]
      BY InsertElements
  <2>3. \A i \in (k + 1)..(Len(q) + 1) : r[i] = q[i - 1]
      BY InsertElements
  <2> QED BY <2>1, <2>2, <2>3
<1>3. x.expire \in Nat /\ \A i \in 1..Len(q) : q[i].expire \in Nat
  <2>1. \A i \in 1..Len(q) : q[i] \in Entries(T, N)
      BY ElementOfSeq
  <2> QED BY <2>1 DEF Entries
<1> HIDE DEF k, r
<1>4. SUFFICES ASSUME NEW i \in 1..(Len(q) + 1), NEW j \in 1..(Len(q) + 1), i < j
               PROVE  r[i].expire <= r[j].expire
    BY <1>1 DEF InExpiryOrder, r
<1>5. \A m, n \in 1..Len(q) : m <= n => q[m].expire <= q[n].expire
  <2> TAKE m, n \in 1..Len(q)
  <2>1. m < n => q[m].expire <= q[n].expire
      BY DEF InExpiryOrder
  <2> QED BY <1>1, <1>3, <2>1
<1>6. CASE j < k
  <2>1. r[i] = q[i] /\ r[j] = q[j] /\ i \in 1..Len(q) /\ j \in 1..Len(q)
      BY <1>1, <1>2, <1>4, <1>6
  <2> QED BY <1>4, <1>5, <2>1
<1>7. CASE j = k
  <2>1. r[i] = q[i] /\ r[j] = x /\ i \in 1..(k - 1)
      BY <1>1, <1>2, <1>4, <1>7
  <2> QED BY <1>1, <2>1
<1>8. CASE k < j
  <2>1. r[j] = q[j - 1] /\ j - 1 \in 1..Len(q) /\ k \in 1..Len(q) /\ k <= j - 1
      BY <1>1, <1>2, <1>4, <1>8
  <2>2. CASE i < k
    <3>1. i \in 1..(k - 1) /\ i \in 1..Len(q) /\ i <= j - 1
        BY <1>1, <1>4, <2>2, <1>8
    <3>2. r[i] = q[i]
        BY <1>2, <3>1
    <3> QED BY <1>5, <2>1, <3>1, <3>2
  <2>3. CASE i = k
    <3>1. x.expire < q[k].expire
        BY <1>1, <2>1
    <3>2. q[k].expire <= q[j - 1].expire
        BY <1>5, <2>1
    <3>3. x.expire <= q[j - 1].expire
        BY <1>3, <2>1, <3>1, <3>2
    <3> QED BY <1>2, <2>1, <2>3, <3>3
  <2>4. CASE k < i
    <3>1. i \in (k + 1)..(Len(q) + 1) /\ i - 1 \in 1..Len(q) /\ i - 1 <= j - 1
        BY <1>1, <1>4, <2>4
    <3>2. r[i] = q[i - 1]
        BY <1>2, <3>1
    <3> QED BY <1>5, <2>1, <3>1, <3>2
  <2> QED BY <1>1, <2>2, <2>3, <2>4
<1> QED BY <1>1, <1>6, <1>7, <1>8

(* The timer of the new entry joins the others, once if it was not there.  *)
LEMMA InsertTimers ==
    ASSUME NEW T, NEW N \in SUBSET Nat, NEW q \in Seq(Entries(T, N)),
           NEW x \in Entries(T, N)
    PROVE  /\ TimersOf(Insert(q, x)) = TimersOf(q) \cup {x.timer}
           /\ NoTwins(q) /\ x.timer \notin TimersOf(q) => NoTwins(Insert(q, x))
<1> DEFINE k == Place(q, x)
           r == Insert(q, x)
<1>1. Len(q) \in Nat /\ k \in 1..(Len(q) + 1) /\ Len(r) = Len(q) + 1
    BY LenProperties, PlaceExists, InsertElements
<1>2. r[k] = x
    BY InsertElements
<1>3. \A i \in 1..(k - 1) : r[i] = q[i]
    BY InsertElements
<1>4. \A i \in (k + 1)..(Len(q) + 1) : r[i] = q[i - 1]
    BY InsertElements
<1> HIDE DEF k, r
<1> DEFINE Old(i) == IF i < k THEN i ELSE i - 1
           New(i) == IF i < k THEN i ELSE i + 1
<1>5. \A i \in 1..(Len(q) + 1) : i # k => Old(i) \in 1..Len(q) /\ r[i] = q[Old(i)]
  <2> SUFFICES ASSUME NEW i \in 1..(Len(q) + 1), i # k
               PROVE  Old(i) \in 1..Len(q) /\ r[i] = q[Old(i)]
      OBVIOUS
  <2>1. CASE i < k
      BY <1>1, <1>3, <2>1
  <2>2. CASE k < i
      BY <1>1, <1>4, <2>2
  <2> QED BY <1>1, <2>1, <2>2
<1>6. \A i \in 1..Len(q) : New(i) \in 1..(Len(q) + 1) /\ New(i) # k /\ Old(New(i)) = i
    BY <1>1
<1>7. \A i, j \in 1..(Len(q) + 1) : i # k /\ j # k /\ Old(i) = Old(j) => i = j
    BY <1>1
<1> HIDE DEF Old, New
<1>8. TimersOf(r) \subseteq TimersOf(q) \cup {x.timer}
    BY <1>1, <1>2, <1>5 DEF TimersOf
<1>9. TimersOf(q) \subseteq TimersOf(r)
  <2> SUFFICES ASSUME NEW i \in 1..Len(q)
               PROVE  q[i].timer \in TimersOf(r)
      BY DEF TimersOf
  <2>1. New(i) \in 1..Len(r) /\ r[New(i)] = q[i]
      BY <1>1, <1>5, <1>6
  <2> QED BY <2>1 DEF TimersOf
<1>10. x.timer \in TimersOf(r)
    BY <1>1, <1>2 DEF TimersOf
<1>11. ASSUME NoTwins(q), x.timer \notin TimersOf(q)
       PROVE  NoTwins(r)
  <2> SUFFICES ASSUME NEW i \in 1..(Len(q) + 1), NEW j \in 1..(Len(q) + 1),
                      r[i].timer = r[j].timer
               PROVE  i = j
      BY <1>1 DEF NoTwins
  <2>1. \A m \in 1..(Len(q) + 1) : m # k => r[m].timer # x.timer
      BY <1>5, <1>11 DEF TimersOf
  <2>2. CASE i # k /\ j # k
      BY <1>5, <1>7, <1>11, <2>2 DEF NoTwins
  <2> QED BY <1>2, <2>1, <2>2
<1> QED BY <1>8, <1>9, <1>10, <1>11 DEF r

(* A list an entry is taken out of keeps its order, and the other timers.  *)
LEMMA WithoutTimer ==
    ASSUME NEW T, NEW N \in SUBSET Nat, NEW q \in Seq(Entries(T, N)),
           NEW t \in TimersOf(q)
    PROVE  /\ InExpiryOrder(q) => InExpiryOrder(Without(q, t))
           /\ NoTwins(q) => /\ NoTwins(Without(q, t))
                            /\ TimersOf(Without(q, t)) = TimersOf(q) \ {t}
<1> DEFINE k == PlaceOf(q, t)
           r == Without(q, t)
<1>1. Len(q) \in Nat /\ k \in 1..Len(q) /\ Len(r) = Len(q) - 1 /\ q[k].timer = t
    BY LenProperties, PlaceOfTimer, WithoutElements
<1>2. \A i \in 1..(k - 1) : r[i] = q[i]
    BY WithoutElements
<1>3. \A i \in k..(Len(q) - 1) : r[i] = q[i + 1]
    BY WithoutElements
<1> HIDE DEF k, r
<1> DEFINE Old(i) == IF i < k THEN i ELSE i + 1
           New(i) == IF i < k THEN i ELSE i - 1
<1>4. \A i \in 1..(Len(q) - 1) : /\ Old(i) \in 1..Len(q) /\ Old(i) # k
                                 /\ r[i] = q[Old(i)]
  <2> TAKE i \in 1..(Len(q) - 1)
  <2>1. CASE i < k
      BY <1>1, <1>2, <2>1
  <2>2. CASE k <= i
      BY <1>1, <1>3, <2>2
  <2> QED BY <1>1, <2>1, <2>2
<1>5. \A i, j \in 1..(Len(q) - 1) : i < j => Old(i) < Old(j)
    BY <1>1
<1>6. \A i \in 1..Len(q) : i # k => New(i) \in 1..(Len(q) - 1) /\ Old(New(i)) = i
    BY <1>1
<1>7. \A i, j \in 1..(Len(q) - 1) : Old(i) = Old(j) => i = j
    BY <1>1
<1> HIDE DEF Old, New
<1>8. InExpiryOrder(q) => InExpiryOrder(r)
    BY <1>1, <1>4, <1>5 DEF InExpiryOrder
<1>9. ASSUME NoTwins(q)
      PROVE  NoTwins(r) /\ TimersOf(r) = TimersOf(q) \ {t}
  <2>1. NoTwins(r)
      BY <1>1, <1>4, <1>7, <1>9 DEF NoTwins
  <2>2. TimersOf(r) \subseteq TimersOf(q) \ {t}
    <3> SUFFICES ASSUME NEW i \in 1..(Len(q) - 1)
                 PROVE  r[i].timer \in TimersOf(q) \ {t}
        BY <1>1 DEF TimersOf
    <3>1. q[Old(i)].timer # t
        BY <1>1, <1>4, <1>9 DEF NoTwins
    <3> QED BY <1>4, <3>1 DEF TimersOf
  <2>3. TimersOf(q) \ {t} \subseteq TimersOf(r)
    <3> SUFFICES ASSUME NEW i \in 1..Len(q), q[i].timer # t
                 PROVE  q[i].timer \in TimersOf(r)
        BY DEF TimersOf
    <3>1. i # k
        BY <1>1
    <3>2. New(i) \in 1..Len(r) /\ r[New(i)] = q[i]
        BY <1>1, <1>4, <1>6, <3>1
    <3> QED BY <3>2 DEF TimersOf
  <2> QED BY <2>1, <2>2, <2>3
<1> QED BY <1>8, <1>9 DEF r
================================================================================
