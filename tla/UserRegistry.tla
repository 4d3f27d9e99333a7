----------------------------- MODULE UserRegistry -----------------------------
(***************************************************************************)
(* The user accounts of HttpHandler (http/http_conn.cpp, SYNSQL): the map  *)
(* users, shared by all workers, the table user of the database it is      *)
(* loaded from, and the forms that do_request_ checks against them.        *)
(*                                                                         *)
(* The mutex of do_request_ is a local variable: each call locks its own,  *)
(* so that it excludes nobody, and between the look into the map, the      *)
(* INSERT and the insertion other workers do as they like.  Two accesses   *)
(* to the map one of which is an insertion are a data race.  What comes of *)
(* it here: a look finds the name or does not, and of insertions at the    *)
(* same time any entry can be lost.  (A crash is a Restart.)               *)
(***************************************************************************)
EXTENDS Naturals, FiniteSets

CONSTANTS Workers, Names, Passwords,
          None      \* no password, no answer

ASSUME RegistryAssumption == None \notin Passwords

VARIABLES
    table,      \* the rows of the table: <<username, passwd>>
    users,      \* the password the map has for each name, None if no entry
    loads,      \* the program calls initmysql_result() when it starts
    pc,         \* where each worker is in do_request_()
    form,       \* what each worker has read from m_content
    res,        \* the INSERT of each worker has succeeded
    torn,       \* workers whose insertion another one overlaps
    (* history *)
    asked,      \* the accounts asked for, and those there were
    unread,     \* rows that the process has not loaded nor tried to insert
    spoiled,    \* names that a race or a failed INSERT has got into
    answer      \* the page that m_url was last set to, for whom

workerVars == <<pc, form, res>>
vars == <<table, users, loads, unread, workerVars, torn, asked, spoiled, answer>>

Forms == [kind : {"register", "login"}, name : Names, password : Passwords]
NoForm == [kind |-> "none"]

HasRow(n) == \E p \in Passwords : <<n, p>> \in table

(* initmysql_result(): users[name] = passwd for each row, in any order.    *)
IsLoaded(u) ==
    \A n \in Names : IF HasRow(n) THEN <<n, u[n]>> \in table ELSE u[n] = None

(* The process starts.  Without a load the map is empty, whatever the      *)
(* table has.                                                              *)
Start(u, r) == IF loads THEN IsLoaded(u) /\ r = {}
               ELSE u = [n \in Names |-> None] /\ r = table

(* The table has no name twice to begin with.                              *)
Init == /\ \E t \in [Names -> Passwords \cup {None}] :
               table = {<<n, t[n]>> : n \in {m \in Names : t[m] # None}}
        /\ loads \in BOOLEAN
        /\ users \in [Names -> Passwords \cup {None}]
        /\ unread \in {{}, table}
        /\ Start(users, unread)
        /\ spoiled = {}
        /\ pc = [w \in Workers |-> "idle"]
        /\ form = [w \in Workers |-> NoForm]
        /\ res = [w \in Workers |-> FALSE]
        /\ torn = {}
        /\ asked = table
        /\ answer = None

-------------------------------------------------------------------------------
At(w, step) == pc[w] = step
Goto(w, step) == pc' = [pc EXCEPT ![w] = step]

(* Mutant: the worker keeps the form.                                      *)
Answer_KeepForm(w, page) ==
    /\ Goto(w, "idle")
    /\ res' = [res EXCEPT ![w] = FALSE]
    /\ answer' = [page |-> page, name |-> form[w].name, password |-> form[w].password]
    /\ UNCHANGED form

(* The form is done: the page it leads to is known.                        *)
Answer(w, page) == /\ Goto(w, "idle")
                   /\ form' = [form EXCEPT ![w] = NoForm]
                   /\ res' = [res EXCEPT ![w] = FALSE]
                   /\ answer' = [page |-> page, name |-> form[w].name,
                                 password |-> form[w].password]

(* A form has arrived; its name and password are copied.                   *)
ReadForm(w, f) ==
    /\ At(w, "idle")
    /\ form' = [form EXCEPT ![w] = f]
    /\ Goto(w, "look")
    /\ asked' = IF f.kind = "register" THEN asked \cup {<<f.name, f.password>>}
                                       ELSE asked
    /\ UNCHANGED <<table, users, loads, unread, res, torn, spoiled, answer>>

Inserting == {w \in Workers : At(w, "inserting")}

(* What users.find(n) may say: during an insertion, anything.              *)
Found(n) == IF Inserting = {} THEN {users[n] # None} ELSE BOOLEAN

(* Somebody else has found that the name is free.                          *)
Registering(n) == {w \in Workers : /\ pc[w] \in {"query", "insert", "inserting"}
                                   /\ form[w].name = n}

(* Mutant: the map is asked for the password as well.                      *)
LookUp_Both(w) ==
    LET n == form[w].name
    IN /\ At(w, "look") /\ form[w].kind = "register"
       /\ \E found \in Found(n) :
             /\ IF found /\ users[n] = form[w].password THEN Answer(w, "registerError")
                ELSE Goto(w, "query") /\ UNCHANGED <<form, res, answer>>
             /\ spoiled' = IF found # (users[n] # None) \/ Registering(n) # {}
                           THEN spoiled \cup {n} ELSE spoiled
       /\ UNCHANGED <<table, users, loads, unread, torn, asked>>

(* Registration: refused if the map has the name.                          *)
LookUp(w) ==
    LET n == form[w].name
    IN /\ At(w, "look") /\ form[w].kind = "register"
       /\ \E found \in Found(n) :
             /\ IF found THEN Answer(w, "registerError")
                ELSE Goto(w, "query") /\ UNCHANGED <<form, res, answer>>
             /\ spoiled' = IF found # (users[n] # None) \/ Registering(n) # {}
                           THEN spoiled \cup {n} ELSE spoiled
       /\ UNCHANGED <<table, users, loads, unread, torn, asked>>

Row(w) == <<form[w].name, form[w].password>>

(* mysql_query() of the INSERT.                                            *)
Query(w) == /\ At(w, "query")
            /\ table' = table \cup {Row(w)}
            /\ unread' = unread \ {Row(w)}
            /\ res' = [res EXCEPT ![w] = TRUE]
            /\ Goto(w, "insert")
            /\ UNCHANGED <<users, loads, form, torn, asked, spoiled, answer>>

(* It fails, perhaps after the server has executed it.                     *)
QueryFails(w) == /\ At(w, "query")
                 /\ table' \in {table, table \cup {Row(w)}}
                 /\ unread' = unread \ {Row(w)}
                 /\ res' = [res EXCEPT ![w] = FALSE]
                 /\ spoiled' = spoiled \cup {form[w].name}
                 /\ Goto(w, "insert")
                 /\ UNCHANGED <<users, loads, form, torn, asked, answer>>

(* users.insert(), whether or not the INSERT has failed.                   *)
InsertBegins(w) ==
    /\ At(w, "insert")
    /\ Goto(w, "inserting")
    /\ torn' = IF Inserting = {} THEN torn ELSE torn \cup Inserting \cup {w}
    /\ UNCHANGED <<table, users, loads, unread, form, res, asked, spoiled, answer>>

(* Mutant: the result of the INSERT is not looked at.                      *)
Page_Always(w) == "log"
Page(w) == IF res[w] THEN "log" ELSE "registerError"

(* An entry that is there already stays as it is.                          *)
InsertEnds(w) ==
    LET n == form[w].name
    IN /\ At(w, "inserting") /\ w \notin torn
       /\ users' = [users EXCEPT ![n] = IF @ = None THEN form[w].password ELSE @]
       /\ Answer(w, Page(w))
       /\ UNCHANGED <<table, loads, unread, torn, asked, spoiled>>

(* Two insertions at the same time: entries may be lost, and of two for    *)
(* the name either may be the one that is found.                           *)
InsertTears(w) ==
    LET n == form[w].name
    IN /\ At(w, "inserting") /\ w \in torn
       /\ \E gone \in SUBSET Names, p \in {users[n], form[w].password} :
             /\ users' = [m \in Names |-> IF m \in gone THEN None
                                          ELSE IF m = n THEN p ELSE users[m]]
             /\ spoiled' = spoiled \cup {n} \cup {m \in gone : users[m] # None}
       /\ torn' = torn \ {w}
       /\ Answer(w, Page(w))
       /\ UNCHANGED <<table, loads, unread, asked>>

(* Mutant: it is enough that the name is known.                            *)
LogIn_AnyPassword(w) ==
    LET n == form[w].name
    IN /\ At(w, "look") /\ form[w].kind = "login"
       /\ \E found \in Found(n) :
             /\ Answer(w, IF found THEN "welcome" ELSE "logError")
             /\ spoiled' = IF found # (users[n] # None) THEN spoiled \cup {n} ELSE spoiled
       /\ UNCHANGED <<table, users, loads, unread, torn, asked>>

(* Login: find and compare.                                                *)
LogIn(w) ==
    LET n == form[w].name
    IN /\ At(w, "look") /\ form[w].kind = "login"
       /\ \E found \in Found(n) :
             /\ Answer(w, IF found /\ users[n] = form[w].password
                          THEN "welcome" ELSE "logError")
             /\ spoiled' = IF found # (users[n] # None) THEN spoiled \cup {n} ELSE spoiled
       /\ UNCHANGED <<table, users, loads, unread, torn, asked>>

(* The process ends, in the middle of anything, and is started again.  It  *)
(* loads what a race or a failed INSERT has left in the table, or nothing. *)
Restart == /\ users' \in [Names -> Passwords \cup {None}]
           /\ unread' \in {{}, table}
           /\ Start(users', unread')
           /\ spoiled' = IF loads THEN spoiled ELSE {}
           /\ pc' = [w \in Workers |-> "idle"]
           /\ form' = [w \in Workers |-> NoForm]
           /\ res' = [w \in Workers |-> FALSE]
           /\ torn' = {}
           /\ UNCHANGED <<table, loads, asked, answer>>

-------------------------------------------------------------------------------
Step(w) == \/ \E f \in Forms : ReadForm(w, f)
           \/ LookUp(w) \/ Query(w) \/ QueryFails(w)
           \/ InsertBegins(w) \/ InsertEnds(w) \/ InsertTears(w)
           \/ LogIn(w)

Next == Restart \/ \E w \in Workers : Step(w)

Spec == Init /\ [][Next]_vars

-------------------------------------------------------------------------------
(* Every variable has its type, and a worker has a form exactly while it   *)
(* works on one.                                                           *)
TypeOK == /\ table \subseteq Names \X Passwords
          /\ users \in [Names -> Passwords \cup {None}]
          /\ loads \in BOOLEAN
          /\ pc \in [Workers -> {"idle", "look", "query", "insert", "inserting"}]
          /\ form \in [Workers -> Forms \cup {NoForm}]
          /\ \A w \in Workers : At(w, "idle") <=> form[w] = NoForm
          /\ res \in [Workers -> BOOLEAN]
          /\ torn \subseteq Inserting
          /\ asked \subseteq Names \X Passwords
          /\ unread \subseteq table
          /\ spoiled \subseteq Names

Known == table \ unread

(* Of a name that no race and no failed INSERT has got into, the map and   *)
(* the rows that the process has loaded or inserted say the same: it is    *)
(* registered with one password in both, except while its one registration *)
(* is between the INSERT and the insertion.  So it is in every process: in *)
(* one that does not load (test_server) for all names from the start, its  *)
(* predecessors' rows left aside; in one that loads (main2.cpp) for those  *)
(* that nothing has got into in its predecessors either.                   *)
MapMatchesTable ==
    \A n \in Names \ spoiled :
        /\ \A p, q \in Passwords : {<<n, p>>, <<n, q>>} \subseteq Known => p = q
        /\ users[n] # None => <<n, users[n]>> \in Known
        /\ \A p \in Passwords : <<n, p>> \in Known /\ users[n] # p =>
               \E w \in Workers : pc[w] \in {"insert", "inserting"} /\ Row(w) = <<n, p>>

(* A registration that was answered with the login page is in the table,   *)
(* whatever it raced with: it survives a crash.                            *)
ToldIsStored ==
    answer # None /\ answer.page = "log" => <<answer.name, answer.password>> \in table

(* The pages tell the truth about the names that nothing has got into,     *)
(* whatever happens to others: across restarts in a program that loads,    *)
(* and in one that does not within each process, which starts with no name *)
(* registered.  With whatever name, nobody is welcome with a password that *)
(* nobody asked for.                                                       *)
Promise == INSTANCE Accounts WITH passwd <- users, void <- spoiled, lasting <- loads
ImplementsAccounts == Promise!Spec
===============================================================================
