--------------------------- MODULE BlockQueue_proofs ---------------------------
(***************************************************************************)
(* Proofs about BlockQueue: for any number of cells, items and consumers   *)
(* the circular array is a bounded queue.  The heart of it is arithmetic   *)
(* modulo max_size: the cells in use are different cells, wherever the     *)
(* indices have wrapped around.                                            *)
(***************************************************************************)
EXTENDS BlockQueue, SequenceTheorems, TLAPS

-------------------------------------------------------------------------------
(* Arithmetic modulo n.                                                    *)

(* A number is its quotient times n and its remainder.                     *)
LEMMA Division ==
    ASSUME NEW a \in Int, NEW n \in Nat \ {0}
    PROVE  /\ (a % n) \in 0..(n - 1)
           /\ (a \div n) \in Int
           /\ a = n * (a \div n) + (a % n)
OBVIOUS

(* In no other way.                                                        *)
LEMMA DivisionUnique ==
    ASSUME NEW n \in Nat \ {0},
           NEW q \in Int, NEW r \in 0..(n - 1),
           NEW p \in Int, NEW s \in 0..(n - 1),
           n * q + r = n * p + s
    PROVE  r = s
<1>1. n * (q - p) = s - r
    BY SMT
<1>2. q - p < 1
  <2>1. SUFFICES ASSUME q - p >= 1 PROVE FALSE
      BY SMT
  <2>2. n * (q - p) >= n
      BY <2>1, SMT
  <2> QED BY <2>2, <1>1, SMT
<1>3. p - q < 1
  <2>1. SUFFICES ASSUME p - q >= 1 PROVE FALSE
      BY SMT
  <2>2. n * (p - q) >= n
      BY <2>1, SMT
  <2>3. n * (p - q) = r - s
      BY <1>1, SMT
  <2> QED BY <2>2, <2>3, SMT
<1>4. q = p
    BY <1>2, <1>3
<1> QED BY <1>4, SMT

(* A step from a remainder is a step from the number.                      *)
LEMMA ModuloSum ==
    ASSUME NEW a \in Int, NEW b \in Int, NEW n \in Nat \ {0}
    PROVE  ((a % n) + b) % n = (a + b) % n
<1> DEFINE r == a % n
           q == a \div n
           c == r + b
           d == a + b
<1>1. /\ r \in 0..(n - 1) /\ q \in Int
      /\ a = n * q + r
    BY Division
<1>2. c \in Int /\ d \in Int
    BY <1>1
<1> HIDE DEF r, q
<1>3. /\ (c % n) \in 0..(n - 1) /\ (c \div n) \in Int
      /\ c = n * (c \div n) + (c % n)
    BY <1>2, Division
<1>4. /\ (d % n) \in 0..(n - 1) /\ (d \div n) \in Int
      /\ d = n * (d \div n) + (d % n)
    BY <1>2, Division
<1>5. d = n * q + c
    BY <1>1, <1>2
<1> HIDE DEF c, d
<1>6. ASSUME NEW x \in Int, NEW y \in Int
      PROVE  n * x + n * y = n * (x + y)
    BY SMT
<1>7. n * (q + (c \div n)) + (c % n) = n * (d \div n) + (d % n)
    BY <1>1, <1>3, <1>4, <1>5, <1>6
<1>8. q + (c \div n) \in Int
    BY <1>1, <1>3
<1>9. c % n = d % n
    BY <1>3, <1>4, <1>7, <1>8, DivisionUnique
<1> QED BY <1>9 DEF c, d, r

(* Numbers less than n apart have different remainders.                    *)
LEMMA ModuloDiffers ==
    ASSUME NEW a \in Int, NEW b \in Int, NEW n \in Nat \ {0}, a < b, b - a < n
    PROVE  a % n # b % n
<1> SUFFICES ASSUME a % n = b % n PROVE FALSE
    OBVIOUS
<1> DEFINE p == a \div n
           q == b \div n
<1>1. /\ (a % n) \in 0..(n - 1) /\ p \in Int
      /\ a = n * p + (a % n)
    BY Division
<1>2. /\ q \in Int
      /\ b = n * q + (a % n)
    BY Division
<1> HIDE DEF p, q
<1>3. b - a = n * (q - p)
  <2>1. ASSUME NEW x \in Int, NEW y \in Int
        PROVE  n * x - n * y = n * (x - y)
      BY SMT
  <2> QED BY <1>1, <1>2, <2>1
<1>4. q - p < 1
  <2>1. SUFFICES ASSUME q - p >= 1 PROVE FALSE
      BY <1>1, <1>2
  <2>2. n * (q - p) >= n
      BY <1>1, <1>2, <2>1, SMT
  <2> QED BY <2>2, <1>3, SMT
<1>5. q - p > 0
  <2>1. SUFFICES ASSUME q - p <= 0 PROVE FALSE
      BY <1>1, <1>2
  <2>2. n * (q - p) <= 0
      BY <1>1, <1>2, <2>1, SMT
  <2> QED BY <2>2, <1>3, SMT
<1> QED BY <1>1, <1>2, <1>4, <1>5

(* The index behind any index is an index.                                 *)
LEMMA IndexFollows ==
    ASSUME NEW i \in Int
    PROVE  Following(i) \in Index
BY QueueAssumption, i + 1 \in Int, Division DEF Following, Index

-------------------------------------------------------------------------------
(* Types.                                                                  *)

(* The constructor, push() and pop(), waiting or not, keep the array, the  *)
(* count and the indices within their bounds.                              *)
THEOREM QueueTypes == BQSpec => []BQTypeOK
<1>1. BQInit => BQTypeOK
    BY QueueAssumption DEF BQInit, BQTypeOK, Index
<1>2. BQTypeOK /\ [BQNext]_bqVars => BQTypeOK'
  <2> SUFFICES ASSUME BQTypeOK, [BQNext]_bqVars PROVE BQTypeOK'
      OBVIOUS
  <2>0. max_size \in Nat \ {0}
      BY QueueAssumption
  <2>1. ASSUME NEW x \in Items, Push(x) PROVE BQTypeOK'
    <3>1. m_back' \in Index
        BY <2>1, IndexFollows DEF Push, BQTypeOK
    <3>2. m_size' \in 0..max_size
        BY <2>0, <2>1 DEF Push, Full, BQTypeOK
    <3>3. m_array' \in [Index -> Items \cup {NULL}]
        BY <2>1, <3>1 DEF Push, BQTypeOK
    <3>4. m_back' \in -1..(max_size - 1)
        BY <2>0, <3>1 DEF Index
    <3> QED BY <2>1, <3>2, <3>3, <3>4 DEF Push, BQTypeOK
  <2>2. CASE PushFails
      BY <2>2 DEF PushFails, BQTypeOK
  <2>3. ASSUME NEW c \in Consumers, Pop(c) PROVE BQTypeOK'
    <3>1. m_front' \in Index
        BY <2>3, IndexFollows DEF Pop, BQTypeOK
    <3>2. m_size' \in 0..max_size
        BY <2>0, <2>3 DEF Pop, BQTypeOK
    <3>3. item' \in [Consumers -> Items \cup {NULL}]
        BY <2>3, <3>1 DEF Pop, BQTypeOK
    <3>4. m_front' \in -1..(max_size - 1)
        BY <2>0, <3>1 DEF Index
    <3> QED BY <2>3, <3>2, <3>3, <3>4 DEF Pop, BQTypeOK
  <2>4. ASSUME NEW c \in Consumers, PopWaits(c) PROVE BQTypeOK'
      BY <2>4 DEF PopWaits, BQTypeOK
  <2>5. ASSUME NEW c \in Consumers, SpuriousWakeup(c) PROVE BQTypeOK'
      BY <2>5 DEF SpuriousWakeup, BQTypeOK
  <2>6. CASE UNCHANGED bqVars
      BY <2>6 DEF bqVars, BQTypeOK
  <2> QED BY <2>1, <2>2, <2>3, <2>4, <2>5, <2>6 DEF BQNext
<1> QED BY <1>1, <1>2, PTL DEF BQSpec

(* A consumer that waits is woken by the push that ends its reason to: the *)
(* count is read and the wait begun under one lock.                        *)
THEOREM QueueLosesNoWakeup == BQSpec => []NoLostWakeup
<1>1. BQInit => NoLostWakeup
    BY DEF BQInit, NoLostWakeup
<1>2. BQTypeOK /\ NoLostWakeup /\ [BQNext]_bqVars => NoLostWakeup'
  <2> SUFFICES ASSUME BQTypeOK, NoLostWakeup, [BQNext]_bqVars PROVE NoLostWakeup'
      OBVIOUS
  <2>1. CASE (\E x \in Items : Push(x)) \/ PushFails
      BY <2>1 DEF Push, PushFails, NoLostWakeup
  <2>2. ASSUME NEW c \in Consumers, Pop(c) PROVE NoLostWakeup'
      BY <2>2 DEF Pop, NoLostWakeup, BQTypeOK
  <2>3. ASSUME NEW c \in Consumers, PopWaits(c) PROVE NoLostWakeup'
    <3>1. ~(m_size' > 0)
        BY <2>3 DEF PopWaits, BQTypeOK
    <3> QED BY <3>1 DEF NoLostWakeup
  <2>4. ASSUME NEW c \in Consumers, SpuriousWakeup(c) PROVE NoLostWakeup'
      BY <2>4 DEF SpuriousWakeup, NoLostWakeup
  <2>5. CASE UNCHANGED bqVars
      BY <2>5 DEF bqVars, NoLostWakeup
  <2> QED BY <2>1, <2>2, <2>3, <2>4, <2>5 DEF BQNext
<1> QED BY <1>1, <1>2, QueueTypes, PTL DEF BQSpec

-------------------------------------------------------------------------------
(* The indices.                                                            *)

(* m_back is as far behind m_front as there are items.  The indices start  *)
(* at -1, hence the comparison of the cells behind them.                   *)
IndicesAgree == Following(m_back) = Following(m_front + m_size)

(* A push moves m_back, a pop m_front, and m_size goes along.              *)
LEMMA IndicesStep ==
    BQTypeOK /\ IndicesAgree /\ [BQNext]_bqVars => IndicesAgree'
<1> SUFFICES ASSUME BQTypeOK, IndicesAgree, [BQNext]_bqVars PROVE IndicesAgree'
    OBVIOUS
<1>0. /\ max_size \in Nat \ {0}
      /\ m_front \in Int /\ m_back \in Int /\ m_size \in Int
    BY QueueAssumption DEF BQTypeOK
<1>1. ASSUME NEW x \in Items, Push(x) PROVE IndicesAgree'
  <2> DEFINE j == m_front + m_size + 1
  <2>1. Following(m_back') = ((j % max_size) + 1) % max_size
      BY <1>1 DEF Push, IndicesAgree, Following
  <2>2. j \in Int /\ m_front' + m_size' + 1 = j + 1
      BY <1>0, <1>1 DEF Push
  <2> HIDE DEF j
  <2>3. ((j % max_size) + 1) % max_size = (j + 1) % max_size
      BY <1>0, <2>2, 1 \in Int, ModuloSum, Zenon
  <2> QED BY <2>1, <2>2, <2>3 DEF IndicesAgree, Following
<1>2. ASSUME NEW c \in Consumers, Pop(c) PROVE IndicesAgree'
  <2>1. m_front' + m_size' + 1 = ((m_front + 1) % max_size) + m_size
    <3>1. ((m_front + 1) % max_size) \in Int
        BY <1>0, Division, m_front + 1 \in Int
    <3> QED BY <1>0, <1>2, <3>1 DEF Pop, Following
  <2>2. (((m_front + 1) % max_size) + m_size) % max_size
            = ((m_front + 1) + m_size) % max_size
      BY <1>0, ModuloSum, m_front + 1 \in Int
  <2>3. (m_front + 1) + m_size = m_front + m_size + 1
      BY <1>0
  <2> QED BY <1>2, <2>1, <2>2, <2>3 DEF Pop, IndicesAgree, Following
<1>3. CASE UNCHANGED <<m_front, m_back, m_size>>
    BY <1>3 DEF IndicesAgree
<1> QED BY <1>1, <1>2, <1>3
        DEF BQNext, PushFails, PopWaits, SpuriousWakeup, bqVars

-------------------------------------------------------------------------------
(* The contents.                                                           *)

Cell(k) == (m_front + k) % max_size

(* The contents are a sequence of m_size items (or of what the types let   *)
(* cells hold).                                                            *)
LEMMA ContentsType ==
    ASSUME BQTypeOK
    PROVE  /\ Contents \in Seq(Items \cup {NULL})
           /\ Len(Contents) = m_size
           /\ \A k \in 1..m_size : Contents[k] = m_array[Cell(k)]
<1>1. m_size \in Nat /\ m_front \in Int /\ max_size \in Nat \ {0}
    BY QueueAssumption DEF BQTypeOK
<1>2. ASSUME NEW k \in 1..m_size
      PROVE  m_array[(m_front + k) % max_size] \in Items \cup {NULL}
  <2>1. (m_front + k) % max_size \in Index
      BY <1>1, Division, m_front + k \in Int DEF Index
  <2> QED BY <2>1 DEF BQTypeOK
<1>3. Contents \in [1..m_size -> Items \cup {NULL}]
    BY <1>2 DEF Contents
<1>4. Contents \in Seq(Items \cup {NULL})
    BY <1>1, <1>3, SeqDef
<1>5. Len(Contents) = m_size
    BY <1>1, <1>3
<1> QED BY <1>4, <1>5 DEF Contents, Cell

(* The same of the contents after a step.                                  *)
LEMMA ContentsTypeNext ==
    ASSUME BQTypeOK'
    PROVE  /\ Contents' \in Seq(Items \cup {NULL})
           /\ Len(Contents') = m_size'
           /\ \A k \in 1..m_size' : Contents'[k] = m_array'[(m_front' + k) % max_size]
<1>1. m_size' \in Nat /\ m_front' \in Int /\ max_size \in Nat \ {0}
    BY QueueAssumption DEF BQTypeOK
<1>2. ASSUME NEW k \in 1..m_size'
      PROVE  m_array'[(m_front' + k) % max_size] \in Items \cup {NULL}
  <2>1. (m_front' + k) % max_size \in Index
      BY <1>1, Division, m_front' + k \in Int DEF Index
  <2> QED BY <2>1 DEF BQTypeOK
<1>3. Contents' \in [1..m_size' -> Items \cup {NULL}]
    BY <1>2 DEF Contents
<1>4. Contents' \in Seq(Items \cup {NULL})
    BY <1>1, <1>3, SeqDef
<1>5. Len(Contents') = m_size'
    BY <1>1, <1>3
<1> QED BY <1>4, <1>5 DEF Contents

(* A push appends to the contents: it writes a cell that is not in use.    *)
LEMMA PushAppends ==
    ASSUME BQTypeOK, BQTypeOK', IndicesAgree, NEW x \in Items, Push(x)
    PROVE  Contents' = Append(Contents, x)
<1> DEFINE T == Items \cup {NULL}
<1>0. /\ max_size \in Nat \ {0}
      /\ m_front \in Int /\ m_size \in Nat /\ m_size < max_size
      /\ m_size' = m_size + 1 /\ m_front' = m_front
    BY QueueAssumption DEF BQTypeOK, Push, Full
<1>1. /\ Contents \in Seq(T) /\ Len(Contents) = m_size
      /\ \A k \in 1..m_size : Contents[k] = m_array[Cell(k)]
    BY ContentsType
<1>2. /\ Contents' \in Seq(T) /\ Len(Contents') = m_size + 1
      /\ \A k \in 1..(m_size + 1) : Contents'[k] = m_array'[Cell(k)]
    BY <1>0, ContentsTypeNext DEF Cell
<1>3. /\ Append(Contents, x) \in Seq(T)
      /\ Len(Append(Contents, x)) = m_size + 1
      /\ \A k \in 1..m_size : Append(Contents, x)[k] = Contents[k]
      /\ Append(Contents, x)[m_size + 1] = x
    BY <1>1, AppendProperties
<1>4. m_back' = Cell(m_size + 1) /\ m_back' \in Index
  <2>1. m_back' = Following(m_front + m_size)
      BY DEF Push, IndicesAgree
  <2>2. m_front + m_size \in Int /\ m_front + m_size + 1 = m_front + (m_size + 1)
      BY <1>0
  <2>3. m_back' \in Index
      BY <2>1, <2>2, IndexFollows
  <2> QED BY <2>1, <2>2, <2>3 DEF Following, Cell
<1>5. m_array' = [m_array EXCEPT ![m_back'] = x] /\ m_array \in [Index -> T]
    BY DEF Push, BQTypeOK
<1>6. m_array'[Cell(m_size + 1)] = x
    BY <1>4, <1>5
<1>7. ASSUME NEW k \in 1..m_size
      PROVE  m_array'[Cell(k)] = m_array[Cell(k)]
  <2>1. Cell(k) # Cell(m_size + 1)
      BY <1>0, ModuloDiffers, m_front + k \in Int, m_front + (m_size + 1) \in Int,
         m_front + k < m_front + (m_size + 1),
         (m_front + (m_size + 1)) - (m_front + k) < max_size
         DEF Cell
  <2>2. Cell(k) \in Index
      BY <1>0, Division, m_front + k \in Int DEF Cell, Index
  <2> QED BY <2>1, <2>2, <1>4, <1>5
<1>8. \A k \in 1..(m_size + 1) : Contents'[k] = Append(Contents, x)[k]
  <2>1. SUFFICES ASSUME NEW k \in 1..(m_size + 1)
                 PROVE  Contents'[k] = Append(Contents, x)[k]
      OBVIOUS
  <2>2. CASE k = m_size + 1
      BY <2>2, <1>0, <1>2, <1>3, <1>6
  <2>3. CASE k \in 1..m_size
      BY <2>3, <1>0, <1>1, <1>2, <1>3, <1>7
  <2>4. k = m_size + 1 \/ k \in 1..m_size
      BY <1>0
  <2> QED BY <2>2, <2>3, <2>4, Zenon
<1> QED BY <1>2, <1>3, <1>8, SeqEqual

(* A pop takes the head: the cell behind m_front.                          *)
LEMMA PopTakesHead ==
    ASSUME BQTypeOK, BQTypeOK', NEW c \in Consumers, Pop(c)
    PROVE  /\ Contents # << >>
           /\ item' = [item EXCEPT ![c] = Head(Contents)]
           /\ Contents' = Tail(Contents)
<1> DEFINE T == Items \cup {NULL}
<1>0. /\ max_size \in Nat \ {0}
      /\ m_front \in Int /\ m_size \in Nat \ {0}
      /\ m_size' = m_size - 1 /\ m_front' = (m_front + 1) % max_size
      /\ m_array' = m_array
    BY QueueAssumption DEF BQTypeOK, Pop, Following
<1>1. /\ Contents \in Seq(T) /\ Len(Contents) = m_size
      /\ \A k \in 1..m_size : Contents[k] = m_array[Cell(k)]
    BY ContentsType
<1>2. Contents # << >>
    BY <1>0, <1>1, EmptySeq
<1>3. item' = [item EXCEPT ![c] = Head(Contents)]
  <2>1. Head(Contents) = m_array[(m_front + 1) % max_size]
      BY <1>0, <1>1, 1 \in 1..m_size DEF Cell
  <2> QED BY <2>1, <1>0 DEF Pop
<1>4. /\ Contents' \in Seq(T) /\ Len(Contents') = m_size - 1
      /\ \A k \in 1..(m_size - 1) :
             Contents'[k] = m_array[(((m_front + 1) % max_size) + k) % max_size]
    BY <1>0, ContentsTypeNext
<1>5. /\ Tail(Contents) \in Seq(T)
      /\ Len(Tail(Contents)) = m_size - 1
      /\ \A k \in 1..(m_size - 1) : Tail(Contents)[k] = Contents[k + 1]
    BY <1>1, <1>2, HeadTailProperties
<1>6. ASSUME NEW k \in 1..(m_size - 1)
      PROVE  Contents'[k] = Tail(Contents)[k]
  <2>1. (((m_front + 1) % max_size) + k) % max_size = ((m_front + 1) + k) % max_size
      BY <1>0, ModuloSum, m_front + 1 \in Int, k \in Int
  <2>2. (m_front + 1) + k = m_front + (k + 1) /\ k + 1 \in 1..m_size
      BY <1>0
  <2>3. (((m_front + 1) % max_size) + k) % max_size = Cell(k + 1)
      BY <2>1, <2>2 DEF Cell
  <2> QED BY <2>2, <2>3, <1>1, <1>4, <1>5
<1>7. Contents' = Tail(Contents)
    BY <1>4, <1>5, <1>6, SeqEqual
<1> QED BY <1>2, <1>3, <1>7

-------------------------------------------------------------------------------
(* The circular array is a bounded queue: ImplementsFifo for every size.   *)
(* A push that returns true is a Put, a pop that does not wait a Get, and  *)
(* everything else leaves the queue as it is.                              *)
THEOREM QueueImplementsFifo == BQSpec => ImplementsFifo
<1>1. BQInit => IndicesAgree /\ Fifo!Init
  <2> SUFFICES ASSUME BQInit PROVE IndicesAgree /\ Fifo!Init
      OBVIOUS
  <2>1. IndicesAgree
      BY DEF BQInit, IndicesAgree, Following
  <2>2. Contents = << >>
      BY DEF BQInit, Contents
  <2> QED BY <2>1, <2>2 DEF BQInit, Fifo!Init
<1>2. ASSUME BQTypeOK, BQTypeOK', IndicesAgree, [BQNext]_bqVars
      PROVE  [Fifo!Next]_(Fifo!vars)
  <2>1. ASSUME NEW x \in Items, Push(x) PROVE Fifo!Next
    <3>1. Contents' = Append(Contents, x)
        BY <1>2, <2>1, PushAppends
    <3>2. Len(Contents) < max_size
        BY <1>2, <2>1, ContentsType, QueueAssumption DEF Push, Full, BQTypeOK
    <3>3. item' = item
        BY <2>1 DEF Push
    <3>4. Fifo!Put(x)
        BY <3>1, <3>2, <3>3 DEF Fifo!Put
    <3> QED BY <3>4 DEF Fifo!Next
  <2>2. ASSUME NEW c \in Consumers, Pop(c) PROVE Fifo!Next
    <3>1. Fifo!Get(c)
        BY <1>2, <2>2, PopTakesHead DEF Fifo!Get
    <3> QED BY <3>1 DEF Fifo!Next, Fifo!SomeGet
  <2>3. CASE UNCHANGED <<m_array, m_size, m_front, item>>
      BY <2>3 DEF Fifo!vars, Contents
  <2> QED BY <1>2, <2>1, <2>2, <2>3
          DEF BQNext, PushFails, PopWaits, SpuriousWakeup, bqVars
<1> QED BY <1>1, <1>2, IndicesStep, QueueTypes, PTL DEF BQSpec, ImplementsFifo, Fifo!Spec
===============================================================================
