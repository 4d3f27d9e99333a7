------------------------------- MODULE AsyncLog -------------------------------
(***************************************************************************)
(* Log (log/log.cpp, include/log.h): threads that write lines, files that  *)
(* are rotated, and in asynchronous mode the queue and the thread that     *)
(* writes what it holds.                                                   *)
(*                                                                         *)
(* write_log() is four critical sections: counting and rotating, putting   *)
(* the text together (no effect that outlives it: left out), asking        *)
(* whether the queue is full, and queueing or writing the line.  The       *)
(* writer uses a mutex of its own, so that nothing excludes it from        *)
(* rotation: it reads m_fp in one step and writes in another.              *)
(***************************************************************************)
EXTENDS BlockQueue, FiniteSets, Functions

CONSTANTS Loggers,      \* the threads that write lines
          MaxLines,     \* bound: lines of each of them
          MaxDay,       \* bound: midnights
          split_lines   \* m_split_lines

Writer == "writer"

(* Line k of logger l; its text does not matter.                           *)
ASSUME LogAssumption == /\ IsFiniteSet(Loggers)
                        /\ Items = Loggers \X (1..MaxLines)
                        /\ Consumers = {Writer}
                        /\ MaxLines \in Nat /\ MaxDay \in Nat
                        /\ split_lines \in Nat \ {0}

VARIABLES
    m_is_async, m_count, m_today,
    today,      \* the date
    m_fp,       \* the FILE in use, by the number of fopen calls so far
    log_name,   \* its name: <<date, number>>, number 0 for the first of a date
    files,      \* the lines of each file
    before,     \* history: how many the one in use had when it was opened
    pc,         \* where each logger is in write_log()
    line,       \* how many lines each logger has begun
    date,       \* the date each logger has read for its line
    fp,         \* the FILE the writer is about to write to, 0 if none
    lost        \* lines that push() did not take, or written to a closed FILE

logVars == <<m_count, m_today, m_fp, log_name, before>>
lineVars == <<pc, line, date>>
vars == <<bqVars, m_is_async, logVars, today, files, lineVars, fp, lost>>

FileNames == (0..MaxDay) \X (0..Cardinality(Items))

Init == /\ BQInit
        /\ m_is_async \in BOOLEAN
        /\ m_count = 0 /\ m_today = 0 /\ today = 0
        /\ m_fp = 1 /\ log_name = <<0, 0>>
        /\ files = [f \in FileNames |-> << >>] /\ before = 0
        /\ pc = [l \in Loggers |-> "idle"]
        /\ line = [l \in Loggers |-> 0]
        /\ date = [l \in Loggers |-> 0]
        /\ fp = 0
        /\ lost = {}

Midnight == /\ today < MaxDay
            /\ today' = today + 1
            /\ UNCHANGED <<bqVars, m_is_async, logVars, files, lineVars, fp, lost>>

-------------------------------------------------------------------------------
(* write_log().                                                            *)
Current(l) == <<l, line[l]>>
At(l, step) == pc[l] = step
Goto(l, step) == pc' = [pc EXCEPT ![l] = step]

Begin(l) == /\ At(l, "idle") /\ line[l] < MaxLines
            /\ line' = [line EXCEPT ![l] = @ + 1]
            /\ date' = [date EXCEPT ![l] = today]
            /\ Goto(l, "count")
            /\ UNCHANGED <<bqVars, m_is_async, logVars, today, files, fp, lost>>

Rotate(name) == /\ m_fp' = m_fp + 1
                /\ log_name' = name /\ before' = Len(files[name])

(* Mutant: the file is changed once, when the count reaches the maximum.   *)
Count_Once(l) ==
    LET n == m_count + 1
    IN /\ At(l, "count")
       /\ Goto(l, "check")
       /\ \/ /\ m_today = date[l] /\ n = split_lines
             /\ Rotate(<<date[l], 1>>)
             /\ m_count' = n /\ UNCHANGED m_today
          \/ /\ m_today = date[l] /\ n # split_lines
             /\ m_count' = n
             /\ UNCHANGED <<m_today, m_fp, log_name, before>>
       /\ UNCHANGED <<bqVars, m_is_async, today, files, line, date, fp, lost>>

(* Count the line and rotate: to the file of the line's date if that is    *)
(* not m_today, before or after it, else to the next file of the date.     *)
Count(l) ==
    LET n == m_count + 1
    IN /\ At(l, "count")
       /\ Goto(l, "check")
       /\ \/ /\ m_today # date[l]
             /\ Rotate(<<date[l], 0>>)
             /\ m_today' = date[l] /\ m_count' = 0
          \/ /\ m_today = date[l] /\ n % split_lines = 0
             /\ Rotate(<<date[l], n \div split_lines>>)
             /\ m_count' = n /\ UNCHANGED m_today
          \/ /\ m_today = date[l] /\ n % split_lines # 0
             /\ m_count' = n
             /\ UNCHANGED <<m_today, m_fp, log_name, before>>
       /\ UNCHANGED <<bqVars, m_is_async, today, files, line, date, fp, lost>>

Check(l) == /\ At(l, "check")
            /\ Goto(l, IF m_is_async /\ ~Full THEN "push" ELSE "put")
            /\ UNCHANGED <<bqVars, m_is_async, logVars, today, files, line, date, fp, lost>>

(* Mutant: the line is written to the file as well.                        *)
PushLine_AndPut(l) == /\ At(l, "push")
                      /\ Push(Current(l))
                      /\ Goto(l, "put")
                      /\ UNCHANGED <<m_is_async, logVars, today, files, line, date, fp, lost>>

PushLine(l) == /\ At(l, "push")
               /\ Push(Current(l))
               /\ Goto(l, "idle")
               /\ UNCHANGED <<m_is_async, logVars, today, files, line, date, fp, lost>>

(* The queue has filled up since: push() returns false, nobody looks.      *)
DropLine(l) == /\ At(l, "push")
               /\ PushFails
               /\ lost' = lost \cup {Current(l)}
               /\ Goto(l, "idle")
               /\ UNCHANGED <<m_is_async, logVars, today, files, line, date, fp>>

PutLine(l) == /\ At(l, "put")
              /\ files' = [files EXCEPT ![log_name] = Append(@, Current(l))]
              /\ Goto(l, "idle")
              /\ UNCHANGED <<bqVars, m_is_async, logVars, today, line, date, fp, lost>>

-------------------------------------------------------------------------------
(* async_write_log() in the writer thread.                                 *)
PopLine == /\ m_is_async /\ fp = 0
           /\ Pop(Writer)
           /\ fp' = m_fp
           /\ UNCHANGED <<m_is_async, logVars, today, files, lineVars, lost>>

WaitForLine == /\ m_is_async /\ fp = 0
               /\ PopWaits(Writer)
               /\ UNCHANGED <<m_is_async, logVars, today, files, lineVars, fp, lost>>

WakeUp == /\ SpuriousWakeup(Writer)
          /\ UNCHANGED <<m_is_async, logVars, today, files, lineVars, fp, lost>>

(* fputs on the FILE read before.  If it has been closed since, that is    *)
(* undefined: the line is lost, or goes to the file opened in its place    *)
(* (or the process crashes, which is the end of the behaviour).            *)
WriteLine == /\ fp # 0
             /\ fp' = 0
             /\ \/ /\ files' = [files EXCEPT ![log_name] = Append(@, item[Writer])]
                   /\ UNCHANGED lost
                \/ /\ fp # m_fp
                   /\ lost' = lost \cup {item[Writer]}
                   /\ UNCHANGED files
             /\ UNCHANGED <<bqVars, m_is_async, logVars, today, lineVars>>

-------------------------------------------------------------------------------
WriteLog(l) == Begin(l) \/ Count(l) \/ Check(l) \/ PushLine(l) \/ DropLine(l) \/ PutLine(l)
Write == PopLine \/ WaitForLine \/ WriteLine

Next == \/ Midnight
        \/ \E l \in Loggers : WriteLog(l)
        \/ Write
        \/ WakeUp

Spec == Init /\ [][Next]_vars

(* The writer thread runs.  Nothing is asked of the loggers.               *)
FairSpec == Spec /\ WF_vars(Write)

-------------------------------------------------------------------------------
(* Every variable has its type.                                            *)
TypeOK == /\ BQTypeOK
          /\ m_is_async \in BOOLEAN
          /\ m_count \in 0..Cardinality(Items)
          /\ {m_today, today} \subseteq 0..MaxDay
          /\ m_fp \in Nat \ {0} /\ fp \in 0..m_fp
          /\ log_name \in FileNames
          /\ files \in [FileNames -> Seq(Items)] /\ before \in Nat
          /\ pc \in [Loggers -> {"idle", "count", "check", "push", "put"}]
          /\ line \in [Loggers -> 0..MaxLines]
          /\ date \in [Loggers -> 0..MaxDay]
          /\ lost \subseteq Items

(* Where line x is: in the queue, with the writer, known to be lost, or in *)
(* a file, once for each time.                                             *)
Places(x) ==
    {<<"queue", i>> : i \in {j \in 1..m_size : Contents[j] = x}}
    \cup (IF fp # 0 /\ item[Writer] = x THEN {<<"writer", 1>>} ELSE {})
    \cup (IF x \in lost THEN {<<"lost", 1>>} ELSE {})
    \cup UNION {{<<"file", f, i>> : i \in {j \in DOMAIN files[f] : files[f][j] = x}} :
                   f \in FileNames}

Written(l, k) == k < line[l] \/ (k = line[l] /\ At(l, "idle"))

(* When write_log() has returned, the line is in exactly one place, and    *)
(* without the asynchronous writer that place is a file.  While it runs,   *)
(* the line is nowhere yet.                                                *)
LineWrittenOnce ==
    /\ lost # {} \/ m_size > 0 => m_is_async
    /\ \A l \in Loggers, k \in 1..MaxLines :
           LET places == Places(<<l, k>>)
           IN IF Written(l, k) THEN \E p \in places : places = {p} ELSE places = {}

Ascending(s) == \A i, j \in DOMAIN s : i < j /\ s[i][1] = s[j][1] => s[i][2] < s[j][2]

(* The lines of a logger wait in the order in which it wrote them, behind  *)
(* the one that the writer has, and without the writer they are in each    *)
(* file in that order.  (With it they need not be: a line that finds the   *)
(* queue full is put into the file ahead of those in the queue.)           *)
LinesInOrder ==
    /\ Ascending(Contents)
    /\ fp # 0 => \A i \in DOMAIN Contents : Ascending(<<item[Writer], Contents[i]>>)
    /\ ~m_is_async => \A f \in FileNames : Ascending(files[f])

(* log.h:74 and log.cpp:94 call m_split_lines the maximum of a file's      *)
(* lines.  It is not: counting and writing a line are two critical         *)
(* sections, so a file also gets lines counted before the rotation and     *)
(* written behind it, at most one of each logger but one and, in           *)
(* asynchronous mode, those in the queue and the one that the writer has.  *)
(* This bounds what a file gets from one fopen to the next fclose, on any  *)
(* date.  A file that a late line of the day before opens again (append    *)
(* mode, the count starting from zero) gets as many once more.             *)
Late == Cardinality(Loggers) - 1 + (IF m_is_async THEN max_size + 1 ELSE 0)

FilesBounded == Len(files[log_name]) <= before + split_lines + Late

(* What the queue has taken is written or lost to a rotation, even when    *)
(* nothing else is ever logged.                                            *)
QueuedIsWritten ==
    \A x \in Items : x \in Range(Contents)
        ~> (x \in lost \/ \E f \in FileNames : x \in Range(files[f]))
===============================================================================
