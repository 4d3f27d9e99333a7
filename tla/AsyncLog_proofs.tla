---------------------------- MODULE AsyncLog_proofs ----------------------------
(***************************************************************************)
(* Proofs about AsyncLog, for any number of loggers, lines, midnights,     *)
(* cells of the queue and lines of a file.                                 *)
(***************************************************************************)
EXTENDS AsyncLog, BlockQueue_proofs, FiniteSetTheorems

LineCount == Cardinality(Items)

(* The lines that have been counted.                                       *)
Counted == {x \in Items : \/ x[2] < line[x[1]]
                          \/ x[2] = line[x[1]] /\ pc[x[1]] # "count"}

(* The queue holds lines; the writer has one when it is about to write;    *)
(* a logger that is in write_log() has begun a line; every line is counted *)
(* once at the most.                                                       *)
Holding == /\ IndicesAgree
           /\ Contents \in Seq(Items)
           /\ fp # 0 => item[Writer] \in Items
           /\ \A l \in Loggers : pc[l] # "idle" => line[l] > 0
           /\ m_count <= Cardinality(Counted)

(* Only the asynchronous mode uses the queue and the writer.               *)
Modes == /\ \A l \in Loggers : pc[l] = "push" => m_is_async
         /\ fp # 0 \/ m_size > 0 \/ lost # {} => m_is_async

(* No date is ahead of the clock's.                                        *)
Dates == m_today <= today /\ \A l \in Loggers : date[l] <= today

IInv == TypeOK /\ Holding

-------------------------------------------------------------------------------
(* Facts about the constants.                                              *)

LEMMA Constants ==
    /\ IsFiniteSet(Items) /\ LineCount \in Nat
    /\ IsFiniteSet(Loggers) /\ Cardinality(Loggers) \in Nat
    /\ split_lines \in Nat \ {0} /\ MaxDay \in Nat /\ MaxLines \in Nat
    /\ max_size \in Nat \ {0} /\ NULL \notin Items
    /\ Consumers = {Writer} /\ Items = Loggers \X (1..MaxLines)
<1>1. IsFiniteSet(1..MaxLines)
    BY LogAssumption, FS_Interval
<1>2. IsFiniteSet(Items)
    BY <1>1, LogAssumption, FS_Product
<1> QED BY <1>2, LogAssumption, QueueAssumption, FS_CardinalityType DEF LineCount

(* One more, counted in files of n lines.                                  *)
LEMMA NextQuotient ==
    ASSUME NEW a \in Nat, NEW n \in Nat \ {0}
    PROVE  /\ a \div n \in Nat /\ a \div n <= a
           /\ a % n \in 0..(n - 1)
           /\ (a + 1) % n = 0 => /\ a % n = n - 1
                                 /\ (a + 1) \div n = (a \div n) + 1
           /\ (a + 1) % n # 0 => /\ (a + 1) % n = (a % n) + 1
                                 /\ (a + 1) \div n = a \div n
<1> DEFINE q == a \div n
           r == a % n
           p == (a + 1) \div n
           s == (a + 1) % n
<1>1. r \in 0..(n - 1) /\ q \in Int /\ a = n * q + r
    BY Division, a \in Int
<1>2. s \in 0..(n - 1) /\ p \in Int /\ a + 1 = n * p + s
    BY Division, a + 1 \in Int
<1> HIDE DEF q, r, p, s
<1>3. q >= 0
  <2>1. SUFFICES ASSUME q <= -1 PROVE FALSE
      BY <1>1
  <2>2. n * q <= -n
      BY <1>1, <2>1, SMT
  <2> QED BY <1>1, <2>2
<1>4. q <= a
  <2>1. n * q >= q
      BY <1>1, <1>3, SMT
  <2> QED BY <1>1, <2>1
<1>5. CASE r = n - 1
  <2>1. n * (q + 1) + 0 = n * p + s
      BY <1>1, <1>2, <1>5, SMT
  <2>2. s = 0
      BY <2>1, <1>1, <1>2, q + 1 \in Int, 0 \in 0..(n - 1), DivisionUnique
  <2>3. p = q + 1
    <3>1. n * (q + 1) = n * p
        BY <2>1, <2>2, <1>1, <1>2
    <3> QED BY <3>1, <1>1, <1>2, SMT
  <2> QED BY <1>1, <1>3, <1>4, <1>5, <2>2, <2>3 DEF q, r, p, s
<1>6. CASE r # n - 1
  <2>1. n * q + (r + 1) = n * p + s /\ r + 1 \in 0..(n - 1)
      BY <1>1, <1>2, <1>6
  <2>2. s = r + 1
      BY <2>1, <1>1, <1>2, DivisionUnique
  <2>3. p = q
    <3>1. n * q = n * p
      <4> DEFINE u == n * q
                 v == n * p
      <4>1. u \in Int /\ v \in Int /\ u + (r + 1) = v + s
          BY <2>1, <1>1, <1>2
      <4> HIDE DEF u, v
      <4>2. u = v
          BY <4>1, <2>2, <1>1
      <4> QED BY <4>2 DEF u, v
    <3> QED BY <3>1, <1>1, <1>2, SMT
  <2> QED BY <1>1, <1>3, <1>4, <1>6, <2>2, <2>3 DEF q, r, p, s
<1> QED BY <1>5, <1>6

(* The line that a logger is writing.                                      *)
LEMMA CurrentIsLine ==
    ASSUME TypeOK, Holding, NEW l \in Loggers, pc[l] # "idle"
    PROVE  Current(l) \in Items
BY Constants DEF TypeOK, Holding, Current

-------------------------------------------------------------------------------
(* The queue.                                                              *)

(* All that the log does to the queue is push, pop and wait.               *)
LEMMA QueueSteps ==
    TypeOK /\ Holding /\ [Next]_vars => [BQNext]_bqVars
<1> SUFFICES ASSUME TypeOK, Holding, [Next]_vars PROVE [BQNext]_bqVars
    OBVIOUS
<1>1. Writer \in Consumers
    BY Constants
<1>2. ASSUME NEW l \in Loggers, WriteLog(l) PROVE [BQNext]_bqVars
  <2>1. CASE PushLine(l)
    <3>1. Current(l) \in Items
        BY <2>1, CurrentIsLine DEF PushLine, At
    <3> QED BY <2>1, <3>1 DEF PushLine, BQNext
  <2>2. CASE DropLine(l)
      BY <2>2 DEF DropLine, BQNext
  <2>3. CASE Begin(l) \/ Count(l) \/ Check(l) \/ PutLine(l)
      BY <2>3 DEF Begin, Count, Check, PutLine
  <2> QED BY <1>2, <2>1, <2>2, <2>3 DEF WriteLog
<1>3. CASE Write
    BY <1>1, <1>3 DEF Write, PopLine, WaitForLine, WriteLine, BQNext
<1>4. CASE WakeUp
    BY <1>1, <1>4 DEF WakeUp, BQNext
<1>5. CASE Midnight \/ UNCHANGED vars
    BY <1>5 DEF Midnight, vars
<1> QED BY <1>2, <1>3, <1>4, <1>5 DEF Next

-------------------------------------------------------------------------------
(* Types, and how many lines have been counted.                            *)

LEMMA QueueTypesStep == BQTypeOK /\ [BQNext]_bqVars => BQTypeOK'
<1> SUFFICES ASSUME BQTypeOK, [BQNext]_bqVars PROVE BQTypeOK'
    OBVIOUS
<1>0. max_size \in Nat \ {0} /\ \A i \in Int : Following(i) \in Index
    BY QueueAssumption, IndexFollows
<1>1. ASSUME NEW x \in Items, Push(x) PROVE BQTypeOK'
    BY <1>0, <1>1 DEF Push, Full, BQTypeOK, Index
<1>2. ASSUME NEW c \in Consumers, Pop(c) PROVE BQTypeOK'
    BY SMTT(30), <1>0, <1>2 DEF Pop, BQTypeOK, Index
<1> QED BY <1>1, <1>2 DEF BQNext, PushFails, PopWaits, SpuriousWakeup, bqVars, BQTypeOK

(* Whatever is put into a file is a line.                                  *)
LEMMA FilesType ==
    ASSUME files \in [FileNames -> Seq(Items)], NEW f \in FileNames, NEW x \in Items
    PROVE  [files EXCEPT ![f] = Append(@, x)] \in [FileNames -> Seq(Items)]
BY AppendProperties

(* A line that is counted for the first time is a new one.                 *)
LEMMA CountedGrows ==
    ASSUME TypeOK, Holding, NEW l \in Loggers, Count(l)
    PROVE  /\ Cardinality(Counted') = Cardinality(Counted) + 1
           /\ Cardinality(Counted') <= LineCount
           /\ Cardinality(Counted) \in Nat
<1>1. Current(l) \in Items \ Counted
  <2>1. Current(l) \in Items /\ pc[l] = "count"
      BY CurrentIsLine DEF Count, At
  <2>2. Current(l)[1] = l /\ Current(l)[2] = line[l] /\ line[l] \in Nat
      BY DEF Current, TypeOK
  <2> QED BY <2>1, <2>2 DEF Counted
<1>2. Counted' = Counted \cup {Current(l)}
  <2>1. /\ line' = line /\ pc' = [pc EXCEPT ![l] = "check"] /\ pc[l] = "count"
      BY DEF Count, At, Goto
  <2>2. pc \in [Loggers -> {"idle", "count", "check", "push", "put"}]
        /\ line \in [Loggers -> 0..MaxLines]
      BY DEF TypeOK
  <2>3. ASSUME NEW x \in Items
        PROVE  x \in Counted' <=> x \in Counted \/ x = Current(l)
    <3>1. x[1] \in Loggers /\ x[2] \in 1..MaxLines /\ x = <<x[1], x[2]>>
        BY Constants
    <3>2. CASE x[1] = l
        BY <2>1, <2>2, <3>1, <3>2 DEF Counted, Current
    <3>3. CASE x[1] # l
        BY <2>1, <2>2, <3>1, <3>3 DEF Counted, Current
    <3> QED BY <3>2, <3>3
  <2> QED BY <1>1, <2>3 DEF Counted
<1>3. IsFiniteSet(Counted) /\ Counted' \subseteq Items
    BY Constants, FS_Subset DEF Counted
<1> QED BY <1>1, <1>2, <1>3, Constants, FS_AddElement, FS_Subset, FS_CardinalityType
        DEF LineCount

(* Where nobody counts, those counted stay counted.                        *)
LEMMA CountedStays ==
    ASSUME TypeOK, NEW l \in Loggers, WriteLog(l), ~Count(l)
    PROVE  Counted' = Counted
<1>1. /\ pc \in [Loggers -> {"idle", "count", "check", "push", "put"}]
      /\ line \in [Loggers -> 0..MaxLines]
    BY DEF TypeOK
<1>2. CASE Begin(l)
  <2>1. ASSUME NEW x \in Items
        PROVE  x \in Counted' <=> x \in Counted
      BY <1>1, <1>2, Constants DEF Begin, At, Goto, Counted
  <2> QED BY <2>1 DEF Counted
<1>3. CASE ~Begin(l)
  <2>1. /\ line' = line /\ pc[l] # "count"
        /\ \E s \in {"push", "put", "idle"} : pc' = [pc EXCEPT ![l] = s]
      BY <1>3 DEF WriteLog, Check, PushLine, DropLine, PutLine, At, Goto
  <2>2. ASSUME NEW x \in Items
        PROVE  x \in Counted' <=> x \in Counted
      BY <1>1, <2>1, Constants DEF Counted
  <2> QED BY <2>2 DEF Counted
<1> QED BY <1>2, <1>3

LEMMA TypeInvariant == Spec => []IInv
<1>1. Init => IInv
  <2> SUFFICES ASSUME Init PROVE IInv
      OBVIOUS
  <2>1. BQTypeOK /\ IndicesAgree /\ Contents = << >>
      BY QueueAssumption DEF Init, BQInit, BQTypeOK, Index, IndicesAgree, Following, Contents
  <2>2. Counted \subseteq Items /\ Cardinality(Counted) \in Nat
      BY Constants, FS_Subset, FS_CardinalityType DEF Counted
  <2> QED BY <2>1, <2>2, Constants DEF Init, IInv, TypeOK, Holding, FileNames, LineCount
<1>2. IInv /\ [Next]_vars => IInv'
  <2> SUFFICES ASSUME IInv, [Next]_vars PROVE IInv'
      OBVIOUS
  <2> USE DEF IInv
  <2>0. [BQNext]_bqVars /\ BQTypeOK /\ BQTypeOK' /\ IndicesAgree'
      BY QueueSteps, QueueTypesStep, IndicesStep DEF TypeOK, Holding
  <2>1. Contents' \in Seq(Items)
    <3>1. ASSUME NEW x \in Items, Push(x) PROVE Contents' \in Seq(Items)
        BY <2>0, <3>1, PushAppends, AppendProperties DEF Holding
    <3>2. ASSUME NEW c \in Consumers, Pop(c) PROVE Contents' \in Seq(Items)
      <4>1. Contents # << >> /\ Contents' = Tail(Contents)
          BY <2>0, <3>2, PopTakesHead
      <4>2. Tail(Contents) \in Seq(Items)
          BY <4>1, HeadTailProperties DEF Holding
      <4> QED BY <4>1, <4>2, Zenon
    <3>3. CASE UNCHANGED <<m_array, m_size, m_front>>
        BY <3>3 DEF Contents, Holding
    <3> QED BY <2>0, <3>1, <3>2, <3>3
            DEF BQNext, PushFails, PopWaits, SpuriousWakeup, bqVars
  <2>2. ASSUME NEW l \in Loggers, WriteLog(l) PROVE IInv'
    <3>1. /\ pc' \in [Loggers -> {"idle", "count", "check", "push", "put"}]
          /\ line' \in [Loggers -> 0..MaxLines]
          /\ date' \in [Loggers -> 0..MaxDay]
          /\ \A k \in Loggers : pc'[k] # "idle" => line'[k] > 0
      <4>1. CASE Begin(l)
        <5>1. /\ line' = [line EXCEPT ![l] = line[l] + 1]
              /\ date' = [date EXCEPT ![l] = today]
              /\ pc' = [pc EXCEPT ![l] = "count"]
              /\ line[l] \in 0..MaxLines /\ line[l] < MaxLines
              /\ \A k \in Loggers : line[k] \in Nat /\ today \in 0..MaxDay
            BY <4>1 DEF Begin, Goto, TypeOK
        <5>2. line[l] + 1 \in 0..MaxLines /\ line[l] + 1 > 0
            BY <5>1, Constants
        <5> QED BY <5>1, <5>2 DEF TypeOK, Holding
      <4>2. CASE Count(l) \/ Check(l) \/ PushLine(l) \/ DropLine(l) \/ PutLine(l)
          BY <4>2 DEF Count, Check, PushLine, DropLine, PutLine, Goto, At, TypeOK, Holding
      <4> QED BY <2>2, <4>1, <4>2 DEF WriteLog
    <3>2. /\ m_count' \in 0..LineCount /\ m_count' <= Cardinality(Counted')
          /\ m_today' \in 0..MaxDay /\ m_fp' \in Nat \ {0} /\ fp' \in 0..m_fp'
          /\ log_name' \in FileNames /\ before' \in Nat
      <4>1. CASE Count(l)
        <5>1. /\ m_count \in Nat /\ m_count <= Cardinality(Counted)
              /\ date[l] \in 0..MaxDay /\ m_fp \in Nat \ {0} /\ fp \in 0..m_fp
              /\ m_today \in 0..MaxDay /\ log_name \in FileNames
            BY Constants DEF TypeOK, Holding, LineCount
        <5>2. /\ Cardinality(Counted') = Cardinality(Counted) + 1
              /\ Cardinality(Counted') <= LineCount
              /\ Cardinality(Counted) \in Nat
            BY <4>1, CountedGrows
        <5>4. m_count + 1 <= LineCount /\ m_count + 1 <= Cardinality(Counted')
            BY <5>1, <5>2, Constants
        <5>3. (m_count + 1) \div split_lines \in 0..LineCount
          <6>1. /\ (m_count + 1) \div split_lines \in Nat
                /\ (m_count + 1) \div split_lines <= m_count + 1
              BY <5>1, Constants, NextQuotient, m_count + 1 \in Nat
          <6> QED BY <6>1, <5>1, <5>4, Constants
        <5>5. /\ m_count' \in 0..LineCount /\ m_count' <= Cardinality(Counted')
              /\ m_today' \in 0..MaxDay /\ m_fp' \in Nat \ {0} /\ fp' \in 0..m_fp'
              /\ log_name' \in FileNames
          <6>1. m_count' \in 0..LineCount /\ m_count' <= Cardinality(Counted')
              BY <4>1, <5>1, <5>2, <5>4, Constants DEF Count
          <6>2. m_today' \in 0..MaxDay /\ m_fp' \in Nat \ {0} /\ fp' \in 0..m_fp'
              BY <4>1, <5>1 DEF Count, Rotate
          <6>3. log_name' \in FileNames
            <7>1. log_name' \in {log_name, <<date[l], 0>>,
                                 <<date[l], (m_count + 1) \div split_lines>>}
                BY <4>1 DEF Count, Rotate
            <7>2. 0 \in 0..LineCount
                BY Constants
            <7> QED BY <5>1, <5>3, <7>1, <7>2 DEF FileNames, LineCount
          <6> QED BY <6>1, <6>2, <6>3
        <5>6. before' \in Nat
          <6>1. files[log_name'] \in Seq(Items) /\ before \in Nat
              BY <5>5 DEF TypeOK
          <6>2. Len(files[log_name']) \in Nat
              BY <6>1, LenProperties
          <6> QED BY <4>1, <6>1, <6>2 DEF Count, Rotate
        <5> QED BY <5>5, <5>6
      <4>2. CASE ~Count(l)
        <5>1. UNCHANGED <<m_count, m_today, m_fp, log_name, before, fp>> /\ Counted' = Counted
            BY <2>2, <4>2, CountedStays
               DEF WriteLog, Begin, Check, PushLine, DropLine, PutLine, logVars
        <5> QED BY <5>1 DEF TypeOK, Holding, LineCount
      <4> QED BY <4>1, <4>2
    <3>3. files' \in [FileNames -> Seq(Items)] /\ lost' \subseteq Items
      <4>1. CASE PutLine(l)
        <5>1. Current(l) \in Items
            BY <4>1, CurrentIsLine DEF PutLine, At
        <5> QED BY <4>1, <5>1, FilesType DEF PutLine, TypeOK
      <4>2. CASE DropLine(l)
        <5>1. Current(l) \in Items
            BY <4>2, CurrentIsLine DEF DropLine, At
        <5> QED BY <4>2, <5>1 DEF DropLine, TypeOK
      <4>3. CASE Begin(l) \/ Count(l) \/ Check(l) \/ PushLine(l)
          BY <4>3 DEF Begin, Count, Check, PushLine, TypeOK
      <4> QED BY <2>2, <4>1, <4>2, <4>3 DEF WriteLog
    <3>4. UNCHANGED <<m_is_async, today, item, fp>>
        BY <2>2 DEF WriteLog, Begin, Count, Check, PushLine, DropLine, PutLine,
                    bqVars, Push, PushFails
    <3> QED BY <2>0, <2>1, <3>1, <3>2, <3>3, <3>4 DEF TypeOK, Holding, LineCount
  <2>3. CASE Write \/ WakeUp
    <3>1. UNCHANGED <<m_is_async, logVars, today, lineVars>>
        BY <2>3 DEF Write, PopLine, WaitForLine, WriteLine, WakeUp
    <3>2. /\ files' \in [FileNames -> Seq(Items)] /\ lost' \subseteq Items
          /\ fp' \in 0..m_fp /\ (fp' # 0 => item'[Writer] \in Items)
      <4>1. CASE PopLine
        <5>0. Contents # << >> /\ item' = [item EXCEPT ![Writer] = Head(Contents)]
            BY <2>0, <4>1, Constants, PopTakesHead DEF PopLine
        <5>1. Head(Contents) \in Items
            BY <5>0, HeadTailProperties DEF Holding
        <5>2. item'[Writer] = Head(Contents)
            BY <5>0, Constants DEF TypeOK, BQTypeOK
        <5> QED BY <4>1, <5>1, <5>2 DEF PopLine, TypeOK
      <4>2. CASE WriteLine
        <5>1. item[Writer] \in Items /\ log_name \in FileNames
            BY <4>2 DEF WriteLine, TypeOK, Holding
        <5>2. [files EXCEPT ![log_name] = Append(@, item[Writer])]
                  \in [FileNames -> Seq(Items)]
            BY <5>1, FilesType DEF TypeOK
        <5>3. files' \in [FileNames -> Seq(Items)]
          <6>1. CASE files' = files
              BY <6>1 DEF TypeOK
          <6>2. CASE files' # files
              BY <4>2, <5>2, <6>2 DEF WriteLine
          <6> QED BY <6>1, <6>2
        <5>4. fp' = 0 /\ lost' \subseteq Items
            BY <4>2, <5>1 DEF WriteLine, TypeOK
        <5> QED BY <5>3, <5>4 DEF TypeOK
      <4>3. CASE WaitForLine \/ WakeUp
          BY <4>3 DEF WaitForLine, WakeUp, PopWaits, SpuriousWakeup, TypeOK, Holding
      <4> QED BY <2>3, <4>1, <4>2, <4>3 DEF Write
    <3>3. Counted' = Counted
        BY <3>1 DEF Counted, lineVars
    <3> QED BY <2>0, <2>1, <3>1, <3>2, <3>3 DEF TypeOK, Holding, logVars, lineVars
  <2>4. CASE Midnight
    <3>1. Counted' = Counted
        BY <2>4 DEF Midnight, Counted, lineVars
    <3> QED BY SMTT(30), <2>0, <2>1, <2>4, <3>1, Constants
            DEF Midnight, TypeOK, Holding, bqVars, logVars, lineVars
  <2>5. CASE UNCHANGED vars
    <3>1. Counted' = Counted
        BY <2>5 DEF vars, Counted, lineVars
    <3> QED BY <2>0, <2>1, <2>5, <3>1
            DEF vars, TypeOK, Holding, bqVars, logVars, lineVars
  <2> QED BY <2>2, <2>3, <2>4, <2>5 DEF Next
<1> QED BY <1>1, <1>2, PTL DEF Spec

(* Every variable keeps its type: the count and the number of a file stay  *)
(* within the lines there are, the FILE in use is one that was opened, and *)
(* only lines are put into files.                                          *)
THEOREM TypeCorrect == Spec => []TypeOK
<1>1. IInv => TypeOK
    BY DEF IInv
<1> QED BY <1>1, TypeInvariant, PTL

-------------------------------------------------------------------------------
(* All that loggers and writer do to the queue are the steps that          *)
(* BlockQueue_proofs is about.                                             *)
LEMMA LogUsesQueue == Spec => BQSpec
<1>1. Init => BQInit
    BY DEF Init
<1>2. IInv /\ [Next]_vars => [BQNext]_bqVars
    BY QueueSteps DEF IInv
<1> QED BY <1>1, <1>2, TypeInvariant, PTL DEF Spec, BQSpec

(* The queue of the log is used as a bounded queue.                        *)
THEOREM LogImplementsFifo == Spec => ImplementsFifo
BY LogUsesQueue, QueueImplementsFifo

(* The writer does not sleep while there are lines to be written.          *)
THEOREM NoLostWakeupHolds == Spec => []NoLostWakeup
BY LogUsesQueue, QueueLosesNoWakeup

-------------------------------------------------------------------------------
(* Modes and dates.                                                        *)

(* What the synchronous mode never does, and a date never is.              *)
LEMMA ModesAndDates == Spec => [](Modes /\ Dates)
<1>1. Init => Modes /\ Dates
    BY DEF Init, BQInit, Modes, Dates
<1>2. IInv /\ Modes /\ Dates /\ [Next]_vars => (Modes /\ Dates)'
  <2> SUFFICES ASSUME IInv, Modes, Dates, [Next]_vars PROVE Modes' /\ Dates'
      OBVIOUS
  <2>0. /\ pc \in [Loggers -> {"idle", "count", "check", "push", "put"}]
        /\ date \in [Loggers -> 0..MaxDay] /\ today \in 0..MaxDay /\ MaxDay \in Nat
        /\ m_size \in Nat
      BY Constants DEF IInv, TypeOK, BQTypeOK
  <2>1. ASSUME NEW l \in Loggers, WriteLog(l) PROVE Modes' /\ Dates'
    <3>1. CASE Begin(l)
        BY <2>0, <3>1 DEF Begin, Goto, Modes, Dates, bqVars, logVars
    <3>2. CASE Count(l)
        BY <2>0, <3>2 DEF Count, Goto, Modes, Dates, bqVars
    <3>3. CASE Check(l)
        BY <2>0, <3>3 DEF Check, Goto, Modes, Dates, bqVars, logVars
    <3>4. CASE PushLine(l) \/ DropLine(l)
      <4>1. m_is_async /\ UNCHANGED <<m_is_async, m_today, today, date>>
            /\ pc' = [pc EXCEPT ![l] = "idle"]
          BY <3>4 DEF PushLine, DropLine, At, Goto, Modes, logVars
      <4> QED BY <2>0, <4>1 DEF Modes, Dates
    <3>5. CASE PutLine(l)
        BY <2>0, <3>5 DEF PutLine, Goto, Modes, Dates, bqVars, logVars
    <3> QED BY <2>1, <3>1, <3>2, <3>3, <3>4, <3>5 DEF WriteLog
  <2>2. CASE Write \/ WakeUp
    <3>1. /\ UNCHANGED <<m_is_async, m_today, today, date, pc>>
          /\ m_is_async \/ UNCHANGED <<m_size, fp, lost>>
        BY <2>2 DEF Write, WakeUp, PopLine, WaitForLine, WriteLine, SpuriousWakeup,
                    Modes, logVars, lineVars
    <3> QED BY <3>1 DEF Modes, Dates
  <2>3. CASE Midnight
      BY <2>0, <2>3 DEF Midnight, Modes, Dates, bqVars, logVars, lineVars, IInv, TypeOK
  <2>4. CASE UNCHANGED vars
      BY <2>4 DEF vars, Modes, Dates, bqVars, logVars, lineVars
  <2> QED BY <2>1, <2>2, <2>3, <2>4 DEF Next
<1> QED BY <1>1, <1>2, TypeInvariant, PTL DEF Spec

-------------------------------------------------------------------------------
(* How long files get.                                                     *)

(* The loggers that have counted a line and not put it anywhere, and all   *)
(* lines that have been counted and may still come into the file in use.   *)
Counting == {l \in Loggers : pc[l] \in {"check", "push", "put"}}
InFlight == Cardinality(Counting) + m_size + (IF fp # 0 THEN 1 ELSE 0)

(* What the file in use has got and may still get is no more than has been *)
(* counted for it and, from before the rotation, one line of each logger,  *)
(* those of the queue and that of the writer.                              *)
Got == Len(files[log_name]) - before
Filling == Got + InFlight <= (m_count % split_lines) + Late + 1

LEMMA CountingType ==
    /\ IsFiniteSet(Counting) /\ Cardinality(Counting) \in Nat
    /\ Cardinality(Counting) <= Cardinality(Loggers)
BY Constants, FS_Subset, FS_CardinalityType DEF Counting

LEMMA CountingStep ==
    ASSUME TypeOK, NEW l \in Loggers, NEW s \in {"count", "check", "push", "put", "idle"},
           pc' = [pc EXCEPT ![l] = s]
    PROVE  /\ Cardinality(Counting') \in Nat
           /\ Cardinality(Counting') <= Cardinality(Loggers)
           /\ pc[l] \notin {"check", "push", "put"} /\ s \in {"check", "push", "put"} =>
                  Cardinality(Counting') = Cardinality(Counting) + 1
           /\ pc[l] \in {"check", "push", "put"} /\ s \notin {"check", "push", "put"} =>
                  Cardinality(Counting') = Cardinality(Counting) - 1
           /\ (pc[l] \in {"check", "push", "put"} <=> s \in {"check", "push", "put"}) =>
                  Counting' = Counting
<1> DEFINE Ahead == {"check", "push", "put"}
<1>1. /\ pc \in [Loggers -> {"idle", "count", "check", "push", "put"}]
      /\ IsFiniteSet(Counting) /\ Cardinality(Counting) \in Nat
    BY CountingType DEF TypeOK
<1>2. Counting' \subseteq Loggers
    BY DEF Counting
<1>3. ASSUME pc[l] \notin Ahead, s \in Ahead
      PROVE  Cardinality(Counting') = Cardinality(Counting) + 1
  <2>1. Counting' = Counting \cup {l} /\ l \notin Counting
      BY <1>1, <1>3 DEF Counting
  <2> QED BY <1>1, <2>1, FS_AddElement
<1>4. ASSUME pc[l] \in Ahead, s \notin Ahead
      PROVE  Cardinality(Counting') = Cardinality(Counting) - 1
  <2>1. Counting' = Counting \ {l} /\ l \in Counting
      BY <1>1, <1>4 DEF Counting
  <2> QED BY <1>1, <2>1, FS_RemoveElement
<1>5. ASSUME pc[l] \in Ahead <=> s \in Ahead
      PROVE  Counting' = Counting
    BY <1>1, <1>5 DEF Counting
<1> QED BY <1>2, <1>3, <1>4, <1>5, Constants, FS_Subset, FS_CardinalityType

LEMMA FileFacts ==
    ASSUME TypeOK
    PROVE  /\ m_count \in Nat /\ split_lines \in Nat \ {0} /\ Cardinality(Loggers) \in Nat
           /\ files \in [FileNames -> Seq(Items)] /\ log_name \in FileNames
           /\ Len(files[log_name]) \in Nat /\ before \in Nat
           /\ Cardinality(Counting) \in Nat
           /\ Cardinality(Counting) <= Cardinality(Loggers)
           /\ m_size \in 0..max_size /\ max_size \in Nat /\ fp \in Nat
           /\ m_count % split_lines \in 0..(split_lines - 1)
<1>1. m_count \in 0..LineCount /\ LineCount \in Nat
    BY Constants DEF TypeOK, LineCount
<1>2. files \in [FileNames -> Seq(Items)] /\ log_name \in FileNames
    BY DEF TypeOK
<1>3. Len(files[log_name]) \in Nat
    BY <1>2, LenProperties
<1>4. before \in Nat /\ m_size \in 0..max_size /\ fp \in Nat
    BY DEF TypeOK, BQTypeOK
<1>5. m_count % split_lines \in 0..(split_lines - 1)
    BY <1>1, Constants, NextQuotient
<1> QED BY <1>1, <1>2, <1>3, <1>4, <1>5, Constants, CountingType

(* There are never more lines in flight than one of each logger, a queue   *)
(* that is full and the writer's.                                          *)
FlightBounded == InFlight \in Nat /\ Late \in Int /\ InFlight <= Late + 1

LEMMA InFlightBounded == TypeOK /\ Modes => FlightBounded
<1> SUFFICES ASSUME TypeOK, Modes PROVE FlightBounded
    OBVIOUS
<1>1. /\ Cardinality(Counting) \in Nat /\ Cardinality(Loggers) \in Nat
      /\ Cardinality(Counting) <= Cardinality(Loggers)
      /\ m_size \in 0..max_size /\ max_size \in Nat
    BY FileFacts
<1>2. CASE m_is_async
    BY <1>1, <1>2 DEF FlightBounded, InFlight, Late
<1>3. CASE ~m_is_async
  <2>1. m_size = 0 /\ fp = 0
      BY <1>1, <1>3 DEF Modes
  <2> QED BY <1>1, <1>3, <2>1 DEF FlightBounded, InFlight, Late
<1> QED BY <1>2, <1>3

LEMMA InFlightBoundedNext == TypeOK' /\ Modes' => FlightBounded'
BY InFlightBounded, PTL

LEMMA FillingBounds ==
    ASSUME TypeOK, Modes, Filling
    PROVE  FilesBounded
<1>1. /\ InFlight \in Nat /\ Late \in Int /\ split_lines \in Nat
      /\ Len(files[log_name]) \in Nat /\ before \in Nat
      /\ m_count % split_lines \in 0..(split_lines - 1)
    BY FileFacts, InFlightBounded DEF FlightBounded
<1> QED BY <1>1 DEF Filling, Got, FilesBounded

(* A line is counted.                                                      *)
LEMMA CountFills ==
    ASSUME IInv, Modes, Filling, NEW l \in Loggers, Count(l), IInv', Modes'
    PROVE  Filling'
<1>0. /\ m_count \in Nat /\ split_lines \in Nat \ {0}
      /\ files \in [FileNames -> Seq(Items)] /\ log_name' \in FileNames
      /\ Len(files[log_name]) \in Nat /\ before \in Nat
      /\ m_size \in Nat /\ Cardinality(Counting) \in Nat
      /\ InFlight \in Nat /\ Late \in Int
  <2>1. log_name' \in FileNames
      BY DEF IInv, TypeOK
  <2> QED BY <2>1, FileFacts, InFlightBounded DEF FlightBounded, IInv
<1>1. InFlight' \in Nat /\ InFlight' <= Late' + 1 /\ Late' = Late
  <2>1. InFlight' \in Nat /\ InFlight' <= Late' + 1
    <3>1. TypeOK' /\ Modes'
        BY DEF IInv
    <3> QED BY <3>1, InFlightBoundedNext DEF FlightBounded
  <2>2. Late' = Late
      BY DEF Count, Late
  <2> QED BY <2>1, <2>2
<1>2. CASE UNCHANGED <<log_name, before>> /\ m_count' = m_count + 1
           /\ (m_count + 1) % split_lines # 0
  <2>1. m_count' % split_lines = (m_count % split_lines) + 1
        /\ m_count % split_lines \in Nat
      BY <1>0, <1>2, NextQuotient, m_count % split_lines \in Nat
  <2>2. Cardinality(Counting') = Cardinality(Counting) + 1
      BY CountingStep DEF Count, At, Goto, IInv
  <2>3. InFlight' = InFlight + 1 /\ Got' = Got
      BY <1>0, <1>2, <2>2 DEF InFlight, Got, Count, bqVars
  <2> QED BY <1>0, <1>1, <2>1, <2>3 DEF Filling, Got
<1>3. CASE Rotate(log_name') /\ (m_count' = 0 \/ m_count' % split_lines = 0)
  <2>1. Got' = 0
    <3>1. Len(files[log_name']) \in Nat
        BY <1>0, LenProperties
    <3> QED BY <1>3, <3>1 DEF Got, Rotate, Count
  <2>2. m_count' % split_lines = 0
    <3>1. 0 % split_lines = 0
        BY <1>0
    <3> QED BY <1>3, <3>1
  <2> QED BY <1>0, <1>1, <2>1, <2>2 DEF Filling
<1> QED BY <1>2, <1>3 DEF Count, Rotate

(* A line is put into the file in use.                                     *)
LEMMA FileGrows ==
    ASSUME TypeOK, NEW x \in Items, UNCHANGED <<log_name, before>>,
           files' = [files EXCEPT ![log_name] = Append(@, x)]
    PROVE  Got' = Got + 1
<1>1. /\ files[log_name] \in Seq(Items) /\ log_name \in FileNames
      /\ files \in [FileNames -> Seq(Items)] /\ before \in Nat
    BY DEF TypeOK
<1>2. Len(Append(files[log_name], x)) = Len(files[log_name]) + 1
    BY <1>1, AppendProperties
<1>3. Len(files[log_name]) \in Nat
    BY <1>1, LenProperties
<1> QED BY <1>1, <1>2, <1>3 DEF Got

(* The other steps of a logger.                                            *)
LEMMA LoggerFills ==
    ASSUME IInv, Modes, Filling, NEW l \in Loggers,
           Begin(l) \/ Check(l) \/ PushLine(l) \/ DropLine(l) \/ PutLine(l)
    PROVE  Filling'
<1>0. /\ m_size \in Nat /\ Cardinality(Counting) \in Nat
      /\ Cardinality(Counting') \in Nat
      /\ Len(files[log_name]) \in Nat /\ before \in Nat
      /\ InFlight \in Nat /\ Late \in Int /\ Late' = Late
      /\ m_count' % split_lines = m_count % split_lines
      /\ m_count % split_lines \in Nat
      /\ UNCHANGED <<log_name, before, fp>>
  <2>1. UNCHANGED <<m_is_async, m_count, log_name, before, fp>>
      BY DEF Begin, Check, PushLine, DropLine, PutLine, logVars
  <2>2. PICK s \in {"count", "check", "push", "put", "idle"} : pc' = [pc EXCEPT ![l] = s]
      BY DEF Begin, Check, PushLine, DropLine, PutLine, Goto
  <2>3. Cardinality(Counting') \in Nat
      BY <2>2, CountingStep DEF IInv
  <2> QED BY <2>1, <2>3, FileFacts, InFlightBounded DEF FlightBounded, IInv, Late
<1>1. CASE Begin(l) \/ Check(l)
  <2>1. Counting' = Counting
      BY <1>1, CountingStep DEF Begin, Check, At, Goto, IInv
  <2>2. UNCHANGED <<m_size, files>>
      BY <1>1 DEF Begin, Check, bqVars
  <2> QED BY <1>0, <2>1, <2>2 DEF Filling, InFlight, Got
<1>2. CASE PushLine(l)
  <2>1. Cardinality(Counting') = Cardinality(Counting) - 1
      BY <1>2, CountingStep DEF PushLine, At, Goto, IInv
  <2>2. m_size' = m_size + 1 /\ files' = files
      BY <1>2 DEF PushLine, Push
  <2> QED BY <1>0, <2>1, <2>2 DEF Filling, InFlight, Got
<1>3. CASE DropLine(l)
  <2>1. Cardinality(Counting') = Cardinality(Counting) - 1
      BY <1>3, CountingStep DEF DropLine, At, Goto, IInv
  <2>2. m_size' = m_size /\ Got' = Got /\ Got \in Int
      BY <1>0, <1>3 DEF DropLine, PushFails, Got
  <2>3. InFlight' = InFlight - 1
      BY <1>0, <2>1, <2>2 DEF InFlight
  <2> QED BY <1>0, <2>2, <2>3 DEF Filling
<1>4. CASE PutLine(l)
  <2>1. Cardinality(Counting') = Cardinality(Counting) - 1
      BY <1>4, CountingStep DEF PutLine, At, Goto, IInv
  <2>2. Current(l) \in Items
      BY <1>4, CurrentIsLine DEF PutLine, At, IInv
  <2>3. m_size' = m_size /\ Got' = Got + 1
      BY <1>0, <1>4, <2>2, FileGrows DEF PutLine, bqVars, IInv
  <2>4. Got \in Int
      BY <1>0 DEF Got
  <2>5. InFlight' = InFlight - 1
      BY <1>0, <2>1, <2>3 DEF InFlight
  <2> QED BY <1>0, <2>3, <2>4, <2>5 DEF Filling
<1> QED BY <1>1, <1>2, <1>3, <1>4

(* The writer's steps.                                                     *)
LEMMA WriterFills ==
    ASSUME IInv, Modes, Filling, Write \/ WakeUp
    PROVE  Filling'
<1>0. /\ m_size \in Nat /\ Cardinality(Counting) \in Nat /\ Counting' = Counting
      /\ Got \in Int /\ InFlight \in Nat /\ Late \in Int /\ Late' = Late
      /\ m_count' % split_lines = m_count % split_lines
      /\ m_count % split_lines \in Nat
      /\ UNCHANGED <<log_name, before>>
  <2>1. UNCHANGED <<m_is_async, m_count, log_name, before, pc>>
      BY DEF Write, PopLine, WaitForLine, WriteLine, WakeUp, logVars, lineVars
  <2> QED BY <2>1, FileFacts, InFlightBounded DEF FlightBounded, IInv, Late, Counting, Got
<1>1. CASE PopLine
  <2>1. m_size' = m_size - 1 /\ fp = 0 /\ Got' = Got
      BY <1>0, <1>1 DEF PopLine, Pop, Got
  <2> QED BY <1>0, <2>1 DEF Filling, InFlight
<1>2. CASE WaitForLine \/ WakeUp
  <2>1. UNCHANGED <<m_size, fp>> /\ Got' = Got
      BY <1>0, <1>2 DEF WaitForLine, WakeUp, PopWaits, SpuriousWakeup, Got
  <2> QED BY <1>0, <2>1 DEF Filling, InFlight
<1>3. CASE WriteLine
  <2>1. m_size' = m_size /\ fp # 0 /\ fp' = 0
      BY <1>3 DEF WriteLine, bqVars
  <2>2. Got' = Got \/ Got' = Got + 1
    <3>1. CASE files' = files
        BY <1>0, <3>1 DEF Got
    <3>2. CASE files' = [files EXCEPT ![log_name] = Append(@, item[Writer])]
      <4>1. item[Writer] \in Items
          BY <2>1 DEF IInv, Holding
      <4> QED BY <1>0, <3>2, <4>1, FileGrows DEF IInv
    <3> QED BY <1>3, <3>1, <3>2 DEF WriteLine
  <2> QED BY <1>0, <2>1, <2>2 DEF Filling, InFlight
<1> QED BY <1>1, <1>2, <1>3 DEF Write

(* From its opening to its closing a file gets no more than m_split_lines, *)
(* one line of each logger but one and, in asynchronous mode, a full queue *)
(* and the writer's line, whatever the dates.                              *)
THEOREM FilesBoundedHolds == Spec => []FilesBounded
<1>1. Init => Filling
  <2> SUFFICES ASSUME Init PROVE Filling
      OBVIOUS
  <2>1. log_name \in FileNames /\ Len(files[log_name]) = 0
    <3>1. <<0, 0>> \in FileNames
        BY Constants DEF FileNames, LineCount
    <3> QED BY <3>1 DEF Init
  <2>2. m_count % split_lines = 0
      BY Constants DEF Init
  <2>3. Counting = {} /\ Cardinality(Counting) = 0
      BY FS_EmptySet DEF Init, Counting
  <2> QED BY <2>1, <2>2, <2>3, Constants
          DEF Init, BQInit, Filling, Got, InFlight, Late
<1>2. IInv /\ IInv' /\ Modes /\ Modes' /\ Filling /\ [Next]_vars => Filling'
  <2> SUFFICES ASSUME IInv, IInv', Modes, Modes', Filling, [Next]_vars PROVE Filling'
      OBVIOUS
  <2>1. ASSUME NEW l \in Loggers, WriteLog(l) PROVE Filling'
      BY <2>1, CountFills, LoggerFills DEF WriteLog
  <2>2. CASE Write \/ WakeUp
      BY <2>2, WriterFills
  <2>3. CASE Midnight \/ UNCHANGED vars
    <3>1. UNCHANGED <<m_is_async, m_count, log_name, before, files, pc, m_size, fp>>
        BY <2>3 DEF Midnight, vars, bqVars, logVars, lineVars
    <3> QED BY <3>1 DEF Filling, Got, InFlight, Late, Counting
  <2> QED BY <2>1, <2>2, <2>3 DEF Next
<1>3. IInv /\ Modes /\ Filling => FilesBounded
    BY FillingBounds DEF IInv
<1> QED BY <1>1, <1>2, <1>3, TypeInvariant, ModesAndDates, PTL DEF Spec

-------------------------------------------------------------------------------
(* Where lines are.                                                        *)

One(S) == \E p \in S : S = {p}

(* What LineWrittenOnce says of line x.                                    *)
Kept(x) == IF Written(x[1], x[2]) THEN One(Places(x)) ELSE Places(x) = {}

InQueue(x, p)  == \E i \in 1..m_size : Contents[i] = x /\ p = <<"queue", i>>
InFiles(x, p)  == \E f \in FileNames : \E i \in DOMAIN files[f] :
                      files[f][i] = x /\ p = <<"file", f, i>>
Elsewhere(x, p) == \/ fp # 0 /\ item[Writer] = x /\ p = <<"writer", 1>>
                   \/ x \in lost /\ p = <<"lost", 1>>

LEMMA PlacesAre ==
    \A x, p : p \in Places(x) <=> InQueue(x, p) \/ InFiles(x, p) \/ Elsewhere(x, p)
BY DEF Places, InQueue, InFiles, Elsewhere

LEMMA PlacesAreNext ==
    \A x, p : p \in Places(x)' <=> InQueue(x, p)' \/ InFiles(x, p)' \/ Elsewhere(x, p)'
BY DEF Places, InQueue, InFiles, Elsewhere

(* The sets of places are equal when they have the same elements.          *)
LEMMA SamePlaces ==
    ASSUME NEW x, \A p : p \in Places(x)' <=> p \in Places(x)
    PROVE  Places(x)' = Places(x)
<1>1. \A p : p \in Places(x)' <=> p \in Places(x)
    OBVIOUS
<1> QED BY <1>1, Zenon

(* A push puts line x behind the others.                                   *)
LEMMA PushPlaces ==
    ASSUME IInv, IInv', NEW c \in Items, Push(c), UNCHANGED <<files, fp, lost>>,
           NEW x, NEW p
    PROVE  p \in Places(x)' <=> p \in Places(x) \/ (x = c /\ p = <<"queue", m_size + 1>>)
<1>1. /\ Contents' = Append(Contents, c) /\ Contents \in Seq(Items \cup {NULL})
      /\ Len(Contents) = m_size /\ m_size' = m_size + 1 /\ m_size \in Nat
      /\ item' = item
  <2>1. Contents' = Append(Contents, c)
      BY PushAppends DEF IInv, TypeOK, Holding
  <2>2. Contents \in Seq(Items \cup {NULL}) /\ Len(Contents) = m_size
      BY ContentsType DEF IInv, TypeOK
  <2>3. m_size \in 0..max_size /\ max_size \in Nat
      BY Constants DEF IInv, TypeOK, BQTypeOK
  <2> QED BY <2>1, <2>2, <2>3 DEF Push
<1>2. /\ \A i \in 1..m_size : Contents'[i] = Contents[i]
      /\ Contents'[m_size + 1] = c
    BY <1>1, AppendProperties
<1>3. InQueue(x, p)' <=> InQueue(x, p) \/ (x = c /\ p = <<"queue", m_size + 1>>)
  <2>1. 1..m_size' = (1..m_size) \cup {m_size + 1}
      BY <1>1
  <2> HIDE DEF Contents
  <2>2. InQueue(x, p)' <=> \E i \in (1..m_size) \cup {m_size + 1} :
                               Contents'[i] = x /\ p = <<"queue", i>>
      BY <2>1 DEF InQueue
  <2> QED BY <1>2, <2>2 DEF InQueue
<1>4. (InFiles(x, p)' <=> InFiles(x, p)) /\ (Elsewhere(x, p)' <=> Elsewhere(x, p))
    BY <1>1 DEF InFiles, Elsewhere
<1> QED BY <1>3, <1>4, PlacesAre, PlacesAreNext

(* A line is put behind a file.                                            *)
LEMMA FilePlaces ==
    ASSUME IInv, NEW c \in Items, files' = [files EXCEPT ![log_name] = Append(@, c)],
           NEW x, NEW p
    PROVE  InFiles(x, p)' <=>
               \/ InFiles(x, p)
               \/ x = c /\ p = <<"file", log_name, Len(files[log_name]) + 1>>
<1> DEFINE g == log_name
           n == Len(files[g])
<1>1. /\ files \in [FileNames -> Seq(Items)] /\ g \in FileNames
      /\ files[g] \in Seq(Items) /\ n \in Nat
    BY FileFacts DEF IInv
<1>2. /\ \A f \in FileNames \ {g} : files'[f] = files[f]
      /\ files'[g] = Append(files[g], c)
    BY <1>1
<1>3. /\ DOMAIN files[g] = 1..n /\ DOMAIN files'[g] = (1..n) \cup {n + 1}
      /\ \A i \in 1..n : files'[g][i] = files[g][i]
      /\ files'[g][n + 1] = c
    BY <1>1, <1>2, AppendProperties, LenProperties
<1> HIDE DEF g, n
<1>4. ASSUME InFiles(x, p)'
      PROVE  InFiles(x, p) \/ (x = c /\ p = <<"file", g, n + 1>>)
  <2>1. PICK f \in FileNames : \E i \in DOMAIN files'[f] :
                files'[f][i] = x /\ p = <<"file", f, i>>
      BY <1>4 DEF InFiles
  <2>2. CASE f = g
      BY <1>1, <1>3, <2>1, <2>2 DEF InFiles
  <2>3. CASE f # g
      BY <1>2, <2>1, <2>3 DEF InFiles
  <2> QED BY <2>2, <2>3
<1>5. ASSUME x = c, p = <<"file", g, n + 1>>
      PROVE  InFiles(x, p)'
    BY <1>1, <1>3, <1>5 DEF InFiles
<1>6. ASSUME InFiles(x, p) PROVE InFiles(x, p)'
  <2>1. PICK f \in FileNames : \E i \in DOMAIN files[f] :
                files[f][i] = x /\ p = <<"file", f, i>>
      BY <1>6 DEF InFiles
  <2>2. CASE f = g
      BY <1>1, <1>3, <2>1, <2>2 DEF InFiles
  <2>3. CASE f # g
      BY <1>2, <2>1, <2>3 DEF InFiles
  <2> QED BY <2>2, <2>3
<1> QED BY <1>4, <1>5, <1>6 DEF g, n

(* A logger's line gets its one place.                                     *)
LEMMA LinePlaced ==
    ASSUME IInv, \A x \in Items : Kept(x), NEW l \in Loggers,
           pc[l] # "idle", pc' = [pc EXCEPT ![l] = "idle"], line' = line,
           NEW x \in Items, NEW T, T = Places(x)', NEW q,
           T = IF x = Current(l) THEN Places(x) \cup {q} ELSE Places(x)
    PROVE  Kept(x)'
<1>0. /\ pc \in [Loggers -> {"idle", "count", "check", "push", "put"}]
      /\ line \in [Loggers -> 0..MaxLines]
      /\ x[1] \in Loggers /\ x[2] \in 1..MaxLines /\ x = <<x[1], x[2]>>
    BY SMTT(30), Constants DEF IInv, TypeOK
<1>1. CASE x = Current(l)
  <2>1. ~Written(x[1], x[2]) /\ Written(x[1], x[2])'
      BY <1>0, <1>1 DEF Written, At, Current
  <2>2. Places(x) = {}
      BY <2>1 DEF Kept
  <2>4. Places(x)' = {q}
      BY <1>1, <2>2
  <2>5. One(Places(x)')
      BY <2>4 DEF One
  <2> QED BY <2>1, <2>5 DEF Kept, One
<1>2. CASE x # Current(l)
  <2>1. Written(x[1], x[2])' <=> Written(x[1], x[2])
      BY <1>0, <1>2 DEF Written, At, Current
  <2>2. Places(x)' = Places(x)
      BY <1>2
  <2> QED BY <2>1, <2>2 DEF Kept, One
<1> QED BY <1>1, <1>2

(* Nothing is written and no line is done.                                 *)
LEMMA LinesStay ==
    ASSUME IInv, \A x \in Items : Kept(x),
           UNCHANGED <<m_array, m_size, m_front, item, fp, lost, files>>,
           \A l \in Loggers, k \in 1..MaxLines : Written(l, k)' <=> Written(l, k),
           NEW x \in Items
    PROVE  Kept(x)'
<1>1. Places(x)' = Places(x)
    BY DEF Places, Contents
<1>2. Written(x[1], x[2])' <=> Written(x[1], x[2])
    BY Constants
<1> QED BY <1>1, <1>2 DEF Kept, One

(* The writer takes the first line of the queue; the others move up.       *)
LEMMA PopKeeps ==
    ASSUME IInv, IInv', \A x \in Items : Kept(x), PopLine, NEW x \in Items
    PROVE  Kept(x)'
<1> DEFINE h == Contents[1]
<1>1. /\ m_size \in Nat \ {0} /\ m_size' = m_size - 1
      /\ \A i \in 1..(m_size - 1) : Contents'[i] = Contents[i + 1]
      /\ item'[Writer] = h
      /\ fp = 0 /\ fp' # 0
      /\ UNCHANGED <<files, lost, pc, line>>
  <2>1. Pop(Writer) /\ Writer \in Consumers
      BY Constants DEF PopLine
  <2>2. /\ Contents # << >> /\ item' = [item EXCEPT ![Writer] = Head(Contents)]
        /\ Contents' = Tail(Contents)
      BY <2>1, PopTakesHead DEF IInv, TypeOK
  <2>3. Contents \in Seq(Items) /\ Len(Contents) = m_size
      BY ContentsType DEF IInv, TypeOK, Holding
  <2>4. /\ Head(Contents) = h
        /\ \A i \in 1..(m_size - 1) : Tail(Contents)[i] = Contents[i + 1]
      BY <2>2, <2>3, HeadTailProperties
  <2>5. m_size \in Nat \ {0} /\ m_size' = m_size - 1
      BY <2>1, Constants DEF Pop, IInv, TypeOK, BQTypeOK
  <2>6. item'[Writer] = h
      BY <2>1, <2>2, <2>4 DEF IInv, TypeOK, BQTypeOK
  <2>7. fp = 0 /\ fp' # 0 /\ UNCHANGED <<files, lost, pc, line>>
      BY DEF PopLine, IInv, TypeOK, lineVars
  <2> QED BY <2>2, <2>4, <2>5, <2>6, <2>7
<1> HIDE DEF h
<1>10. h = Contents[1]
    BY DEF h
<1>2. /\ Written(x[1], x[2])' <=> Written(x[1], x[2])
      /\ Kept(x)
    BY <1>1 DEF Written, At
<1>3. \A i \in 1..m_size : Contents[i] = x => <<"queue", i>> \in Places(x)
    BY PlacesAre DEF InQueue
<1>4. ASSUME NEW p
      PROVE  p \in Places(x)' <=>
                 \/ \E i \in 1..(m_size - 1) : Contents[i + 1] = x /\ p = <<"queue", i>>
                 \/ InFiles(x, p)
                 \/ x \in lost /\ p = <<"lost", 1>>
                 \/ x = h /\ p = <<"writer", 1>>
  <2>1. InFiles(x, p)' <=> InFiles(x, p)
      BY <1>1 DEF InFiles
  <2>2. InQueue(x, p)' <=> \E i \in 1..(m_size - 1) : Contents[i + 1] = x /\ p = <<"queue", i>>
      BY <1>1 DEF InQueue
  <2>3. Elsewhere(x, p)' <=> (x \in lost /\ p = <<"lost", 1>>) \/ (x = h /\ p = <<"writer", 1>>)
      BY <1>1 DEF Elsewhere
  <2> QED BY <2>1, <2>2, <2>3, PlacesAreNext
<1>5. ASSUME NEW p, InFiles(x, p) \/ (x \in lost /\ p = <<"lost", 1>>)
      PROVE  p \in Places(x) /\ p[1] # "queue"
    BY <1>5, PlacesAre DEF InFiles, Elsewhere
<1>6. ASSUME NEW i \in 1..(m_size - 1), Contents[i + 1] = x
      PROVE  <<"queue", i + 1>> \in Places(x)
    BY <1>1, <1>3, <1>6, i + 1 \in 1..m_size
<1>7. CASE Places(x) = {}
  <2>1. x # h
      BY <1>1, <1>3, <1>7, <1>10, 1 \in 1..m_size
  <2>2. \A p : p \notin Places(x)'
      BY <1>4, <1>5, <1>6, <1>7, <2>1
  <2>3. Places(x)' = {}
      BY <2>2, Zenon
  <2> QED BY <1>2, <1>7, <2>3 DEF Kept, One
<1>8. CASE One(Places(x)) /\ x = h
  <2>1. Places(x) = {<<"queue", 1>>}
      BY <1>1, <1>3, <1>8, <1>10, 1 \in 1..m_size DEF One
  <2>2. ASSUME NEW i \in 1..(m_size - 1), Contents[i + 1] = x PROVE FALSE
      BY <1>1, <1>6, <2>1, <2>2
  <2>3. \A p : p \in Places(x)' <=> p = <<"writer", 1>>
      BY <1>4, <1>5, <1>8, <2>1, <2>2
  <2>4. Places(x)' = {<<"writer", 1>>}
      BY <2>3, Zenon
  <2> QED BY <1>2, <1>8, <2>4 DEF Kept, One
<1>9. CASE One(Places(x)) /\ x # h
  <2>1. PICK r : Places(x) = {r}
      BY <1>9 DEF One
  <2>2. CASE \E i \in 1..(m_size - 1) : Contents[i + 1] = x
    <3>1. PICK i \in 1..(m_size - 1) : Contents[i + 1] = x
        BY <2>2
    <3>2. r = <<"queue", i + 1>>
        BY <1>6, <2>1, <3>1
    <3>3. ASSUME NEW j \in 1..(m_size - 1), Contents[j + 1] = x PROVE j = i
        BY <1>1, <1>6, <2>1, <3>2, <3>3
    <3>4. \A p : p \in Places(x)' <=> p = <<"queue", i>>
        BY <1>4, <1>5, <1>9, <2>1, <3>1, <3>2, <3>3
    <3>5. Places(x)' = {<<"queue", i>>}
        BY <3>4, Zenon
    <3> QED BY <1>2, <1>9, <3>5 DEF Kept, One
  <2>3. CASE ~ \E i \in 1..(m_size - 1) : Contents[i + 1] = x
    <3>1. \A p : p \in Places(x)' <=> InFiles(x, p) \/ (x \in lost /\ p = <<"lost", 1>>)
        BY <1>4, <1>9, <2>3
    <3>2. ASSUME NEW i \in 1..m_size PROVE Contents[i] # x
      <4>1. CASE i = 1
          BY <4>1, <1>9, <1>10
      <4>2. CASE i # 1
          BY <1>1, <2>3, <4>2, i - 1 \in 1..(m_size - 1), (i - 1) + 1 = i
      <4> QED BY <4>1, <4>2
    <3>3. \A p : p \in Places(x) <=> InFiles(x, p) \/ (x \in lost /\ p = <<"lost", 1>>)
        BY <1>1, <3>2, PlacesAre DEF InQueue, Elsewhere
    <3>4. Places(x)' = Places(x)
        BY <3>1, <3>3, SamePlaces
    <3> QED BY <1>2, <3>4 DEF Kept, One
  <2> QED BY <2>2, <2>3
<1> QED BY <1>2, <1>7, <1>8, <1>9 DEF Kept

(* The writer's line goes to a file or is lost.                            *)
LEMMA WriteKeeps ==
    ASSUME IInv, \A x \in Items : Kept(x), WriteLine, NEW x \in Items
    PROVE  Kept(x)'
<1> DEFINE h == item[Writer]
<1>1. /\ h \in Items /\ fp # 0 /\ fp' = 0
      /\ UNCHANGED <<m_array, m_size, m_front, item, pc, line>>
    BY DEF WriteLine, IInv, Holding, bqVars, lineVars
<1>2. /\ Written(x[1], x[2])' <=> Written(x[1], x[2])
      /\ Kept(x)
    BY <1>1 DEF Written, At
<1>3. \A p : InQueue(x, p)' <=> InQueue(x, p)
    BY <1>1 DEF InQueue, Contents
<1>4. PICK T : T = Places(x)'
    OBVIOUS
<1>5. ASSUME NEW q, \A p : Elsewhere(x, p)' \/ InFiles(x, p)' <=>
                               \/ InFiles(x, p) \/ (x \in lost /\ p = <<"lost", 1>>)
                               \/ x = h /\ p = q
      PROVE  Kept(x)'
  <2> HIDE DEF h
  <2>1. ASSUME NEW p
        PROVE  p \in T <=> \/ InQueue(x, p) \/ InFiles(x, p)
                           \/ x \in lost /\ p = <<"lost", 1>>
                           \/ x = h /\ p = q
      BY <1>3, <1>4, <1>5, PlacesAreNext
  <2>2. ASSUME NEW p
        PROVE  p \in Places(x) <=> \/ InQueue(x, p) \/ InFiles(x, p)
                                   \/ x \in lost /\ p = <<"lost", 1>>
                                   \/ x = h /\ p = <<"writer", 1>>
      BY <1>1, PlacesAre DEF Elsewhere, h
  <2>3. CASE x = h
    <3>1. Written(x[1], x[2]) /\ Places(x) = {<<"writer", 1>>}
        BY <1>2, <2>2, <2>3 DEF Kept, One
    <3>2. ASSUME NEW p
          PROVE  ~InQueue(x, p) /\ ~InFiles(x, p) /\ ~(x \in lost /\ p = <<"lost", 1>>)
      <4>1. InQueue(x, p) \/ InFiles(x, p) \/ (x \in lost /\ p = <<"lost", 1>>)
                => p = <<"writer", 1>>
          BY <2>2, <3>1
      <4>2. InQueue(x, p) \/ InFiles(x, p) \/ (x \in lost /\ p = <<"lost", 1>>)
                => p[1] # "writer"
          BY DEF InQueue, InFiles
      <4> QED BY <4>1, <4>2
    <3>3. \A p : p \in T <=> p = q
        BY <2>1, <2>3, <3>2
    <3>4. T = {q}
        BY <3>3, Zenon
    <3> QED BY <1>2, <1>4, <3>1, <3>4 DEF Kept, One
  <2>4. CASE x # h
    <3>1. \A p : p \in T <=> p \in Places(x)
        BY <2>1, <2>2, <2>4
    <3>2. T = Places(x)
        BY <3>1, Zenon
    <3> QED BY <1>2, <1>4, <3>2 DEF Kept, One
  <2> QED BY <2>3, <2>4
<1>6. CASE files' = [files EXCEPT ![log_name] = Append(@, h)] /\ UNCHANGED lost
  <2> DEFINE q == <<"file", log_name, Len(files[log_name]) + 1>>
  <2>1. \A p : Elsewhere(x, p)' <=> (x \in lost /\ p = <<"lost", 1>>)
      BY <1>1, <1>6 DEF Elsewhere
  <2>2. \A p : InFiles(x, p)' <=> InFiles(x, p) \/ (x = h /\ p = q)
      BY <1>1, <1>6, FilePlaces
  <2> HIDE DEF q
  <2>3. \A p : Elsewhere(x, p)' \/ InFiles(x, p)' <=>
                   \/ InFiles(x, p) \/ (x \in lost /\ p = <<"lost", 1>>)
                   \/ x = h /\ p = q
      BY <2>1, <2>2
  <2> QED BY <1>5, <2>3
<1>7. CASE lost' = lost \cup {h} /\ UNCHANGED files
  <2> DEFINE q == <<"lost", 1>>
  <2>1. \A p : Elsewhere(x, p)' <=> (x \in lost \/ x = h) /\ p = q
      BY <1>1, <1>7 DEF Elsewhere
  <2>2. \A p : InFiles(x, p)' <=> InFiles(x, p)
      BY <1>7 DEF InFiles
  <2>3. \A p : Elsewhere(x, p)' \/ InFiles(x, p)' <=>
                   \/ InFiles(x, p) \/ (x \in lost /\ p = <<"lost", 1>>)
                   \/ x = h /\ p = q
      BY <2>1, <2>2
  <2> HIDE DEF q
  <2> QED BY <1>5, <2>3
<1> QED BY <1>6, <1>7 DEF WriteLine

(* A line is written once, or is known to be lost once, and never both.    *)
THEOREM LineWrittenOnceHolds == Spec => []LineWrittenOnce
<1> DEFINE AllKept == \A x \in Items : Kept(x)
<1>1. Init => AllKept
  <2> SUFFICES ASSUME Init, NEW x \in Items PROVE Kept(x)
      OBVIOUS
  <2>1. ~Written(x[1], x[2])
      BY Constants DEF Init, Written
  <2>2. \A p : p \notin Places(x)
      BY PlacesAre DEF Init, BQInit, InQueue, InFiles, Elsewhere
  <2>3. Places(x) = {}
      BY <2>2, Zenon
  <2> QED BY <2>1, <2>3 DEF Kept
<1>2. IInv /\ IInv' /\ AllKept /\ [Next]_vars => AllKept'
  <2> SUFFICES ASSUME IInv, IInv', AllKept, [Next]_vars, NEW x \in Items PROVE Kept(x)'
      OBVIOUS
  <2>1. ASSUME NEW l \in Loggers, WriteLog(l) PROVE Kept(x)'
    <3>0. /\ pc \in [Loggers -> {"idle", "count", "check", "push", "put"}]
          /\ line \in [Loggers -> 0..MaxLines] /\ MaxLines \in Nat
        BY Constants DEF IInv, TypeOK
    <3>1. CASE Begin(l) \/ Count(l) \/ Check(l)
      <4>1. \A m \in Loggers, k \in 1..MaxLines : Written(m, k)' <=> Written(m, k)
        <5>1. CASE Begin(l)
            BY <3>0, <5>1 DEF Begin, At, Goto, Written
        <5>2. CASE Count(l) \/ Check(l)
            BY <3>0, <5>2 DEF Count, Check, At, Goto, Written
        <5> QED BY <3>1, <5>1, <5>2
      <4>2. UNCHANGED <<m_array, m_size, m_front, item, fp, lost, files>>
          BY <3>1 DEF Begin, Count, Check, bqVars
      <4> QED BY <4>1, <4>2, LinesStay
    <3>5. PICK T : T = Places(x)'
        OBVIOUS
    <3>2. CASE PushLine(l)
      <4> DEFINE q == <<"queue", m_size + 1>>
      <4>1. /\ Current(l) \in Items /\ Push(Current(l))
            /\ UNCHANGED <<files, fp, lost, line>>
            /\ pc[l] # "idle" /\ pc' = [pc EXCEPT ![l] = "idle"]
          BY <3>2, CurrentIsLine DEF PushLine, At, Goto, IInv
      <4>2. ASSUME NEW p
            PROVE  p \in T <=>
                          p \in Places(x) \/ (x = Current(l) /\ p = q)
          BY <3>5, <4>1, PushPlaces
      <4> HIDE DEF q
      <4>3. T = IF x = Current(l) THEN Places(x) \cup {q} ELSE Places(x)
          BY <4>2
      <4> QED BY <3>5, <4>1, <4>3, LinePlaced
    <3>3. CASE DropLine(l)
      <4> DEFINE q == <<"lost", 1>>
      <4>1. /\ lost' = lost \cup {Current(l)}
            /\ UNCHANGED <<m_array, m_size, m_front, item, files, fp, line>>
            /\ pc[l] # "idle" /\ pc' = [pc EXCEPT ![l] = "idle"]
          BY <3>3 DEF DropLine, PushFails, At, Goto
      <4>2. ASSUME NEW p
            PROVE  p \in T <=>
                          p \in Places(x) \/ (x = Current(l) /\ p = q)
        <5>1. /\ InQueue(x, p)' <=> InQueue(x, p)
              /\ InFiles(x, p)' <=> InFiles(x, p)
              /\ Elsewhere(x, p)' <=>
                               Elsewhere(x, p) \/ (x = Current(l) /\ p = <<"lost", 1>>)
            BY <4>1 DEF InQueue, Contents, InFiles, Elsewhere
        <5> QED BY <3>5, <5>1, PlacesAre, PlacesAreNext
      <4> HIDE DEF q
      <4>3. T = IF x = Current(l) THEN Places(x) \cup {q} ELSE Places(x)
          BY <4>2
      <4> QED BY <3>5, <4>1, <4>3, LinePlaced
    <3>4. CASE PutLine(l)
      <4> DEFINE q == <<"file", log_name, Len(files[log_name]) + 1>>
      <4>1. /\ files' = [files EXCEPT ![log_name] = Append(@, Current(l))]
            /\ UNCHANGED <<m_array, m_size, m_front, item, fp, lost, line>>
            /\ pc[l] # "idle" /\ pc' = [pc EXCEPT ![l] = "idle"]
            /\ Current(l) \in Items
          BY <3>4, CurrentIsLine DEF PutLine, At, Goto, bqVars, IInv
      <4>2. ASSUME NEW p
            PROVE  p \in T <=>
                          \/ p \in Places(x)
                          \/ x = Current(l)
                             /\ p = q
        <5>1. /\ InQueue(x, p)' <=> InQueue(x, p)
              /\ Elsewhere(x, p)' <=> Elsewhere(x, p)
            BY <4>1 DEF InQueue, Contents, Elsewhere
        <5>2. InFiles(x, p)' <=>
                          \/ InFiles(x, p)
                          \/ x = Current(l)
                             /\ p = <<"file", log_name, Len(files[log_name]) + 1>>
            BY <4>1, FilePlaces
        <5> QED BY <3>5, <5>1, <5>2, PlacesAre, PlacesAreNext
      <4> HIDE DEF q
      <4>3. T = IF x = Current(l) THEN Places(x) \cup {q} ELSE Places(x)
          BY <4>2
      <4> QED BY <3>5, <4>1, <4>3, LinePlaced
    <3> QED BY <2>1, <3>1, <3>2, <3>3, <3>4 DEF WriteLog
  <2>2. CASE PopLine
      BY <2>2, PopKeeps
  <2>3. CASE WriteLine
      BY <2>3, WriteKeeps
  <2>4. CASE WaitForLine \/ WakeUp \/ Midnight \/ UNCHANGED vars
    <3>1. UNCHANGED <<m_array, m_size, m_front, item, fp, lost, files, pc, line>>
        BY <2>4 DEF WaitForLine, WakeUp, Midnight, vars, PopWaits, SpuriousWakeup,
                    bqVars, lineVars
    <3>2. \A m \in Loggers, k \in 1..MaxLines : Written(m, k)' <=> Written(m, k)
        BY <3>1 DEF Written, At
    <3> QED BY <3>1, <3>2, LinesStay
  <2> QED BY <2>1, <2>2, <2>3, <2>4 DEF Next, Write
<1>3. IInv /\ Modes /\ AllKept => LineWrittenOnce
  <2> SUFFICES ASSUME IInv, Modes, AllKept PROVE LineWrittenOnce
      OBVIOUS
  <2>1. lost # {} \/ m_size > 0 => m_is_async
      BY DEF Modes
  <2>2. ASSUME NEW l \in Loggers, NEW k \in 1..MaxLines
        PROVE  IF Written(l, k) THEN \E p \in Places(<<l, k>>) : Places(<<l, k>>) = {p}
               ELSE Places(<<l, k>>) = {}
    <3>1. <<l, k>> \in Items /\ <<l, k>>[1] = l /\ <<l, k>>[2] = k
        BY Constants
    <3>2. Kept(<<l, k>>)
        BY <3>1
    <3> QED BY <3>1, <3>2 DEF Kept, One
  <2> QED BY <2>1, <2>2 DEF LineWrittenOnce
<1> QED BY <1>1, <1>2, <1>3, TypeInvariant, ModesAndDates, PTL DEF Spec

-------------------------------------------------------------------------------
(* The order of lines.                                                     *)

(* Every line of a logger that is anywhere was begun before the one that   *)
(* the logger is writing.                                                  *)
LEMMA BegunBefore ==
    ASSUME IInv, LineWrittenOnce, NEW l \in Loggers, pc[l] # "idle",
           NEW x \in Items, x[1] = l, NEW p \in Places(x)
    PROVE  x[2] < line[l]
<1>1. x = <<l, x[2]>> /\ x[2] \in 1..MaxLines
    BY Constants
<1>2. Written(l, x[2])
  <2>1. Places(<<l, x[2]>>) # {}
      BY <1>1
  <2> QED BY <1>1, <2>1 DEF LineWrittenOnce
<1> QED BY <1>2 DEF Written, At

(* So it may follow them.                                                  *)
LEMMA AscendingAppend ==
    ASSUME NEW s \in Seq(Items), Ascending(s), NEW x \in Items,
           \A i \in 1..Len(s) : s[i][1] = x[1] => s[i][2] < x[2]
    PROVE  Ascending(Append(s, x))
<1> DEFINE n == Len(s)
           t == Append(s, x)
<1>1. /\ n \in Nat /\ DOMAIN s = 1..n /\ DOMAIN t = 1..(n + 1)
      /\ \A i \in 1..n : t[i] = s[i]
      /\ t[n + 1] = x
    BY AppendProperties, LenProperties
<1> HIDE DEF n, t
<1> SUFFICES ASSUME NEW i \in 1..(n + 1), NEW j \in 1..(n + 1), i < j, t[i][1] = t[j][1]
             PROVE  t[i][2] < t[j][2]
    BY <1>1 DEF Ascending, t
<1>2. i \in 1..n
    BY <1>1
<1>3. CASE j = n + 1
    BY <1>1, <1>2, <1>3 DEF n
<1>4. CASE j # n + 1
  <2>1. j \in 1..n
      BY <1>1, <1>4
  <2> QED BY <1>1, <1>2, <2>1 DEF Ascending
<1> QED BY <1>3, <1>4

(* The first one taken away.                                               *)
LEMMA AscendingTail ==
    ASSUME NEW s \in Seq(Items), Ascending(s), s # << >>
    PROVE  /\ Ascending(Tail(s))
           /\ \A i \in 1..Len(Tail(s)) : Ascending(<<Head(s), Tail(s)[i]>>)
<1> DEFINE n == Len(s)
           t == Tail(s)
<1>1. /\ n \in Nat \ {0} /\ DOMAIN s = 1..n /\ Len(t) = n - 1 /\ DOMAIN t = 1..(n - 1)
      /\ Head(s) = s[1]
      /\ \A i \in 1..(n - 1) : t[i] = s[i + 1]
    BY HeadTailProperties, LenProperties, EmptySeq
<1>2. \A i \in 1..(n - 1) : i + 1 \in 1..n /\ 1 < i + 1
    BY <1>1
<1> HIDE DEF n, t
<1>3. Ascending(t)
  <2> SUFFICES ASSUME NEW i \in 1..(n - 1), NEW j \in 1..(n - 1), i < j, t[i][1] = t[j][1]
               PROVE  t[i][2] < t[j][2]
      BY <1>1 DEF Ascending
  <2>1. /\ i + 1 \in DOMAIN s /\ j + 1 \in DOMAIN s /\ i + 1 < j + 1
        /\ t[i] = s[i + 1] /\ t[j] = s[j + 1]
      BY <1>1, <1>2
  <2>2. s[i + 1][1] = s[j + 1][1] => s[i + 1][2] < s[j + 1][2]
      BY <2>1 DEF Ascending
  <2> QED BY <2>1, <2>2
<1>4. ASSUME NEW i \in 1..(n - 1) PROVE Ascending(<<s[1], t[i]>>)
  <2> DEFINE u == <<s[1], t[i]>>
  <2>1. DOMAIN u = {1, 2} /\ u[1] = s[1] /\ u[2] = s[i + 1]
      BY <1>1, <1>4
  <2>2. s[1][1] = s[i + 1][1] => s[1][2] < s[i + 1][2]
      BY <1>1, <1>2 DEF Ascending
  <2> HIDE DEF u
  <2>3. Ascending(u)
      BY <2>1, <2>2 DEF Ascending
  <2> QED BY <2>3 DEF u
<1> QED BY <1>1, <1>3, <1>4 DEF t

(* Two lines in a row.                                                     *)
LEMMA AscendingPair ==
    ASSUME NEW x, NEW y
    PROVE  Ascending(<<x, y>>) <=> (x[1] = y[1] => x[2] < y[2])
<1> DEFINE u == <<x, y>>
<1>1. DOMAIN u = {1, 2} /\ u[1] = x /\ u[2] = y
    OBVIOUS
<1> HIDE DEF u
<1>2. Ascending(u) <=> (u[1][1] = u[2][1] => u[1][2] < u[2][2])
    BY <1>1 DEF Ascending
<1> QED BY <1>1, <1>2 DEF u

(* A line that is queued is behind the logger's others.                    *)
LEMMA OrderPush ==
    ASSUME IInv, IInv', LineWrittenOnce, LinesInOrder, NEW l \in Loggers, PushLine(l)
    PROVE  LinesInOrder'
<1>1. /\ pc[l] # "idle" /\ Current(l) \in Items /\ Push(Current(l))
      /\ UNCHANGED <<m_is_async, files, fp, item>>
    BY CurrentIsLine DEF PushLine, At, IInv, Push
<1>2. Contents' = Append(Contents, Current(l))
    BY <1>1, PushAppends DEF IInv, TypeOK, Holding
<1>3. Contents \in Seq(Items) /\ Len(Contents) = m_size /\ m_size \in Nat
  <2>1. m_size \in Nat
      BY Constants DEF IInv, TypeOK, BQTypeOK
  <2> QED BY <2>1, ContentsType DEF IInv, TypeOK, Holding
<1>4. DOMAIN Contents = 1..m_size /\ \A i \in 1..m_size : Contents[i] \in Items
    BY <1>3, LenProperties, ElementOfSeq
<1>5. \A i \in 1..m_size : Contents[i][1] = l => Contents[i][2] < line[l]
  <2> SUFFICES ASSUME NEW i \in 1..m_size, Contents[i][1] = l
               PROVE  Contents[i][2] < line[l]
      OBVIOUS
  <2>1. <<"queue", i>> \in Places(Contents[i])
      BY PlacesAre DEF InQueue
  <2> QED BY <1>1, <1>4, <2>1, BegunBefore
<1>6. Current(l)[1] = l /\ Current(l)[2] = line[l]
    BY DEF Current
<1>7. Ascending(Contents')
    BY <1>1, <1>2, <1>3, <1>5, <1>6, AscendingAppend DEF LinesInOrder
<1>8. ASSUME fp # 0, NEW i \in 1..(m_size + 1)
      PROVE  Ascending(<<item[Writer], Contents'[i]>>)
  <2>1. item[Writer] \in Items
      BY <1>8 DEF IInv, Holding
  <2>2. /\ \A j \in 1..m_size : Contents'[j] = Contents[j]
        /\ Contents'[m_size + 1] = Current(l)
      BY <1>1, <1>2, <1>3, AppendProperties
  <2>3. CASE i = m_size + 1
    <3>1. item[Writer][1] = l => item[Writer][2] < line[l]
      <4> SUFFICES ASSUME item[Writer][1] = l PROVE item[Writer][2] < line[l]
          OBVIOUS
      <4>1. <<"writer", 1>> \in Places(item[Writer])
          BY <1>8, PlacesAre DEF Elsewhere
      <4> QED BY <1>1, <2>1, <4>1, BegunBefore
    <3> QED BY <1>6, <2>2, <2>3, <3>1, AscendingPair
  <2>4. CASE i # m_size + 1
    <3>1. i \in 1..m_size
        BY <1>3, <2>4
    <3>2. Ascending(<<item[Writer], Contents[i]>>)
        BY <1>4, <1>8, <3>1 DEF LinesInOrder
    <3> QED BY <2>2, <3>1, <3>2
  <2> QED BY <2>3, <2>4
<1>9. DOMAIN Contents' = 1..(m_size + 1)
    BY <1>1, <1>2, <1>3, AppendProperties, LenProperties
<1>10. ~m_is_async => \A f \in FileNames : Ascending(files[f])
    BY DEF LinesInOrder
<1> QED BY <1>1, <1>7, <1>8, <1>9, <1>10 DEF LinesInOrder

(* A line that is put into a file is behind the logger's others.           *)
LEMMA OrderPut ==
    ASSUME IInv, LineWrittenOnce, LinesInOrder, NEW l \in Loggers, PutLine(l)
    PROVE  LinesInOrder'
<1> DEFINE g == log_name
<1>1. /\ pc[l] # "idle" /\ Current(l) \in Items
      /\ files' = [files EXCEPT ![g] = Append(@, Current(l))]
      /\ UNCHANGED <<m_is_async, fp, item, m_array, m_size, m_front>>
    BY CurrentIsLine DEF PutLine, At, IInv, bqVars
<1>2. /\ files \in [FileNames -> Seq(Items)] /\ g \in FileNames
      /\ files[g] \in Seq(Items)
    BY FileFacts DEF IInv
<1>3. /\ files'[g] = Append(files[g], Current(l))
      /\ \A f \in FileNames \ {g} : files'[f] = files[f]
    BY <1>1, <1>2
<1>4. ASSUME ~m_is_async, NEW f \in FileNames PROVE Ascending(files'[f])
  <2>1. Ascending(files[f])
      BY <1>4 DEF LinesInOrder
  <2>2. CASE f # g
      BY <1>3, <2>1, <2>2
  <2>3. CASE f = g
    <3>1. ASSUME NEW i \in 1..Len(files[g]), files[g][i][1] = l
          PROVE  files[g][i][2] < line[l]
      <4>1. files[g][i] \in Items /\ i \in DOMAIN files[g]
          BY <1>2, <3>1, ElementOfSeq, LenProperties
      <4>2. <<"file", g, i>> \in Places(files[g][i])
          BY <1>2, <4>1, PlacesAre DEF InFiles
      <4> QED BY <1>1, <3>1, <4>1, <4>2, BegunBefore
    <3>2. Current(l)[1] = l /\ Current(l)[2] = line[l]
        BY DEF Current
    <3> QED BY <1>1, <1>2, <1>3, <2>1, <2>3, <3>1, <3>2, AscendingAppend
  <2> QED BY <2>2, <2>3
<1>5. Contents' = Contents
    BY <1>1 DEF Contents
<1> QED BY <1>1, <1>4, <1>5 DEF LinesInOrder

(* The writer takes the first.                                             *)
LEMMA OrderPop ==
    ASSUME IInv, IInv', LinesInOrder, PopLine
    PROVE  LinesInOrder'
<1>1. /\ Contents # << >> /\ item'[Writer] = Head(Contents) /\ Contents' = Tail(Contents)
      /\ UNCHANGED <<m_is_async, files>>
  <2>1. Pop(Writer) /\ Writer \in Consumers
      BY Constants DEF PopLine
  <2>2. /\ Contents # << >> /\ item' = [item EXCEPT ![Writer] = Head(Contents)]
        /\ Contents' = Tail(Contents)
      BY <2>1, PopTakesHead DEF IInv, TypeOK
  <2> QED BY <2>1, <2>2 DEF IInv, TypeOK, BQTypeOK, PopLine
<1>2. Contents \in Seq(Items) /\ Ascending(Contents)
    BY DEF IInv, Holding, LinesInOrder
<1>3. DOMAIN Contents' = 1..Len(Tail(Contents))
    BY <1>1, <1>2, HeadTailProperties, LenProperties
<1>4. /\ Ascending(Contents')
      /\ \A i \in DOMAIN Contents' : Ascending(<<item'[Writer], Contents'[i]>>)
    BY <1>1, <1>2, <1>3, AscendingTail
<1> QED BY <1>1, <1>4 DEF LinesInOrder

(* Lines wait in the order in which their logger wrote them, and without   *)
(* the writer a file has them in that order.                               *)
THEOREM LinesInOrderHolds == Spec => []LinesInOrder
<1>1. Init => LinesInOrder
  <2> SUFFICES ASSUME Init PROVE LinesInOrder
      OBVIOUS
  <2>1. Contents = << >> /\ fp = 0 /\ \A f \in FileNames : files[f] = << >>
      BY DEF Init, BQInit, Contents
  <2>2. Ascending(<< >>)
      BY DEF Ascending
  <2> QED BY <2>1, <2>2 DEF LinesInOrder
<1>2. IInv /\ IInv' /\ Modes /\ LineWrittenOnce /\ LinesInOrder /\ [Next]_vars => LinesInOrder'
  <2> SUFFICES ASSUME IInv, IInv', Modes, LineWrittenOnce, LinesInOrder, [Next]_vars
               PROVE  LinesInOrder'
      OBVIOUS
  <2>1. ASSUME UNCHANGED <<m_array, m_size, m_front, item, fp, files, m_is_async>>
        PROVE  LinesInOrder'
      BY <2>1 DEF LinesInOrder, Contents
  <2>2. ASSUME NEW l \in Loggers, WriteLog(l) PROVE LinesInOrder'
    <3>1. CASE Begin(l) \/ Count(l) \/ Check(l) \/ DropLine(l)
        BY <2>1, <3>1 DEF Begin, Count, Check, DropLine, PushFails, bqVars
    <3> QED BY <2>2, <3>1, OrderPush, OrderPut DEF WriteLog
  <2>3. ASSUME WriteLine PROVE LinesInOrder'
    <3>1. m_is_async /\ m_is_async' = m_is_async /\ fp' = 0
        BY <2>3 DEF WriteLine, Modes
    <3>2. Contents' = Contents
        BY <2>3 DEF WriteLine, bqVars, Contents
    <3> QED BY <3>1, <3>2 DEF LinesInOrder
  <2>4. CASE Midnight \/ WaitForLine \/ WakeUp \/ UNCHANGED vars
      BY <2>1, <2>4 DEF Midnight, WaitForLine, WakeUp, PopWaits, SpuriousWakeup, vars, bqVars
  <2> QED BY <2>2, <2>3, <2>4, OrderPop DEF Next, Write
<1> QED BY <1>1, <1>2, TypeInvariant, ModesAndDates, LineWrittenOnceHolds, PTL DEF Spec
===============================================================================
