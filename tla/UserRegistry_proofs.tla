-------------------------- MODULE UserRegistry_proofs --------------------------
(***************************************************************************)
(* Proofs about UserRegistry, for any number of workers, names and         *)
(* passwords.                                                              *)
(***************************************************************************)
EXTENDS UserRegistry, TLAPS

(* Whoever is behind the look into the map is registering an account that  *)
(* somebody has asked for, and so is whatever the table and the map hold.  *)
Asked == /\ \A w \in Workers :
                /\ pc[w] \in {"query", "insert", "inserting"} => form[w].kind = "register"
                /\ form[w].kind = "register" => Row(w) \in asked
         /\ table \subseteq asked
         /\ \A n \in Names : users[n] # None => <<n, users[n]>> \in asked

(* What an INSERT has put into the table stays there.                      *)
Stored == \A w \in Workers :
              res[w] => pc[w] \in {"insert", "inserting"} /\ Row(w) \in table

(* Worker w has found that n is free, and has not inserted it yet.         *)
Registers(w, n) == pc[w] \in {"query", "insert", "inserting"} /\ form[w].name = n

(* A program that loads knows every row.                                   *)
AllKnown == loads => unread = {}

(* A name that nothing has got into is being registered by one worker at   *)
(* the most; the map does not have it yet, and the rows that the process   *)
(* knows do when the INSERT is done.  Whatever both have, they have with   *)
(* one password.                                                           *)
Fits(n) ==
    /\ \A v, w \in Workers : Registers(v, n) /\ Registers(w, n) => v = w
    /\ \A w \in Workers :
           Registers(w, n) =>
               /\ users[n] = None
               /\ pc[w] = "query" => \A p \in Passwords : <<n, p>> \notin Known
               /\ pc[w] # "query" => <<n, form[w].password>> \in Known
    /\ \A p, q \in Passwords : <<n, p>> \in Known /\ <<n, q>> \in Known => p = q
    /\ users[n] # None => <<n, users[n]>> \in Known
    /\ \A p \in Passwords : <<n, p>> \in Known /\ users[n] # p =>
           \E w \in Workers : /\ pc[w] \in {"insert", "inserting"}
                               /\ form[w].name = n /\ form[w].password = p

Matching == \A n \in Names \ spoiled : Fits(n)

-------------------------------------------------------------------------------
(* Types.                                                                  *)

(* A form is not the empty one.                                            *)
LEMMA FormsDiffer == \A f \in Forms : f # NoForm
BY DEF Forms, NoForm

(* The first process starts with every variable of its type.               *)
LEMMA TypeInit == Init => TypeOK
<1> SUFFICES ASSUME Init PROVE TypeOK
    OBVIOUS
<1>1. table \subseteq Names \X Passwords
  <2>1. PICK t \in [Names -> Passwords \cup {None}] :
             table = {<<n, t[n]>> : n \in {m \in Names : t[m] # None}}
      BY DEF Init
  <2> QED BY <2>1
<1> QED BY <1>1 DEF Init, TypeOK, Inserting, At

(* Every step of a worker and every restart keeps the types.               *)
LEMMA TypeStep == TypeOK /\ [Next]_vars => TypeOK'
<1> SUFFICES ASSUME TypeOK, [Next]_vars PROVE TypeOK'
    OBVIOUS
<1>1. ASSUME NEW w \in Workers, NEW f \in Forms, ReadForm(w, f)
      PROVE  TypeOK'
  <2>1. f.name \in Names /\ f.password \in Passwords
      BY DEF Forms
  <2> QED BY <1>1, <2>1, FormsDiffer DEF TypeOK, ReadForm, At, Goto, Inserting
<1>2. ASSUME NEW w \in Workers, At(w, "look") \/ At(w, "query") \/ At(w, "insert")
                                             \/ At(w, "inserting")
      PROVE  /\ form[w] \in Forms
             /\ form[w].name \in Names
             /\ form[w].password \in Passwords
             /\ Row(w) \in Names \X Passwords
    BY <1>2 DEF TypeOK, At, Forms, Row
<1>3. ASSUME NEW w \in Workers, LookUp(w)
      PROVE  TypeOK'
  <2>1. /\ \/ Answer(w, "registerError")
           \/ Goto(w, "query") /\ UNCHANGED <<form, res, answer>>
        /\ spoiled' \subseteq Names
        /\ UNCHANGED <<table, users, loads, unread, torn, asked>>
        /\ At(w, "look")
    <3>1. At(w, "look") /\ form[w].name \in Names
        BY <1>2, <1>3 DEF LookUp
    <3>2. PICK found \in Found(form[w].name) :
              /\ IF found THEN Answer(w, "registerError")
                 ELSE Goto(w, "query") /\ UNCHANGED <<form, res, answer>>
              /\ spoiled' = spoiled \/ spoiled' = spoiled \cup {form[w].name}
        BY <1>3 DEF LookUp
    <3>3. spoiled' \subseteq Names
        BY <3>1, <3>2 DEF TypeOK
    <3>4. UNCHANGED <<table, users, loads, unread, torn, asked>>
        BY <1>3 DEF LookUp
    <3>5. \/ Answer(w, "registerError")
          \/ Goto(w, "query") /\ UNCHANGED <<form, res, answer>>
        BY <3>2, Zenon
    <3> QED BY <3>1, <3>3, <3>4, <3>5, Zenon
  <2>2. CASE Answer(w, "registerError")
      BY <1>2, <2>1, <2>2 DEF TypeOK, At, Goto, Inserting, Answer
  <2>3. CASE Goto(w, "query") /\ UNCHANGED <<form, res, answer>>
      BY <1>2, <2>1, <2>3 DEF TypeOK, At, Goto, Inserting
  <2> QED BY <2>1, <2>2, <2>3
<1>4. ASSUME NEW w \in Workers, Query(w)
      PROVE  TypeOK'
    BY <1>2, <1>4 DEF TypeOK, Query, At, Goto, Inserting
<1>5. ASSUME NEW w \in Workers, QueryFails(w)
      PROVE  TypeOK'
    BY <1>2, <1>5 DEF TypeOK, QueryFails, At, Goto, Inserting
<1>6. ASSUME NEW w \in Workers, InsertBegins(w)
      PROVE  TypeOK'
    BY <1>2, <1>6 DEF TypeOK, InsertBegins, At, Goto, Inserting
<1>7. ASSUME NEW w \in Workers, InsertEnds(w)
      PROVE  TypeOK'
    BY <1>2, <1>7 DEF TypeOK, InsertEnds, At, Goto, Inserting, Answer
<1>8. ASSUME NEW w \in Workers, InsertTears(w)
      PROVE  TypeOK'
    BY <1>2, <1>8 DEF TypeOK, InsertTears, At, Goto, Inserting, Answer
<1>9. ASSUME NEW w \in Workers, LogIn(w)
      PROVE  TypeOK'
    BY <1>2, <1>9 DEF TypeOK, LogIn, At, Goto, Inserting, Answer
<1>10. ASSUME Restart
       PROVE  TypeOK'
    BY <1>10 DEF TypeOK, Restart, At, Inserting, Start
<1>11. ASSUME UNCHANGED vars
       PROVE  TypeOK'
    BY <1>11 DEF TypeOK, vars, workerVars, At, Inserting
<1> QED BY <1>1, <1>3, <1>4, <1>5, <1>6, <1>7, <1>8, <1>9, <1>10, <1>11
        DEF Next, Step

(* Every variable keeps its type, and a worker has a form exactly while it *)
(* works on one.                                                           *)
THEOREM TypeCorrect == Spec => []TypeOK
BY TypeInit, TypeStep, PTL DEF Spec

-------------------------------------------------------------------------------
(* What was asked for, and what was stored.                                *)

(* So it is when the first process starts.                                 *)
LEMMA AskedInit == Init => Asked /\ Stored /\ ToldIsStored
<1> SUFFICES ASSUME Init PROVE Asked /\ Stored /\ ToldIsStored
    OBVIOUS
<1>1. ASSUME NEW n \in Names, users[n] # None
      PROVE  <<n, users[n]>> \in asked
    BY <1>1 DEF Init, Start, IsLoaded
<1> QED BY <1>1 DEF Init, Asked, Stored, ToldIsStored, NoForm

(* No step forgets what was asked for, nor a row of the table.             *)
LEMMA AskedStep ==
    TypeOK /\ Asked /\ Stored /\ ToldIsStored /\ [Next]_vars
        => Asked' /\ Stored' /\ ToldIsStored'
<1> SUFFICES ASSUME TypeOK, Asked, Stored, ToldIsStored, [Next]_vars
             PROVE  Asked' /\ Stored' /\ ToldIsStored'
    OBVIOUS
<1> USE DEF Asked, Stored, ToldIsStored, Row
<1>1. ASSUME NEW w \in Workers, NEW f \in Forms, ReadForm(w, f)
      PROVE  Asked' /\ Stored' /\ ToldIsStored'
    BY <1>1 DEF TypeOK, ReadForm, At, Goto, Forms
<1>3. ASSUME NEW w \in Workers, LookUp(w)
      PROVE  Asked' /\ Stored' /\ ToldIsStored'
    BY <1>3 DEF TypeOK, LookUp, At, Goto, Answer, NoForm
<1>4. ASSUME NEW w \in Workers, Query(w)
      PROVE  Asked' /\ Stored' /\ ToldIsStored'
    BY <1>4 DEF TypeOK, Query, At, Goto
<1>5. ASSUME NEW w \in Workers, QueryFails(w)
      PROVE  Asked' /\ Stored' /\ ToldIsStored'
    BY <1>5 DEF TypeOK, QueryFails, At, Goto
<1>6. ASSUME NEW w \in Workers, InsertBegins(w)
      PROVE  Asked' /\ Stored' /\ ToldIsStored'
    BY <1>6 DEF TypeOK, InsertBegins, At, Goto
<1>7. ASSUME NEW w \in Workers, InsertEnds(w)
      PROVE  Asked' /\ Stored' /\ ToldIsStored'
    BY <1>7 DEF TypeOK, InsertEnds, At, Goto, Answer, NoForm, Page
<1>8. ASSUME NEW w \in Workers, InsertTears(w)
      PROVE  Asked' /\ Stored' /\ ToldIsStored'
    BY <1>8 DEF TypeOK, InsertTears, At, Goto, Answer, NoForm, Page
<1>9. ASSUME NEW w \in Workers, LogIn(w)
      PROVE  Asked' /\ Stored' /\ ToldIsStored'
    BY <1>9 DEF TypeOK, LogIn, At, Goto, Answer, NoForm
<1>10. ASSUME Restart
       PROVE  Asked' /\ Stored' /\ ToldIsStored'
    BY <1>10 DEF Restart, Start, IsLoaded, NoForm
<1>11. ASSUME UNCHANGED vars
       PROVE  Asked' /\ Stored' /\ ToldIsStored'
    BY <1>11 DEF vars, workerVars
<1> QED BY <1>1, <1>3, <1>4, <1>5, <1>6, <1>7, <1>8, <1>9, <1>10, <1>11
        DEF Next, Step

-------------------------------------------------------------------------------
(* The map and the table.                                                  *)

(* The program that loads does it each time it starts.                     *)
LEMMA AllKnownInit == Init => AllKnown
BY DEF Init, Start, AllKnown

LEMMA AllKnownStep == AllKnown /\ [Next]_vars => AllKnown'
BY DEF AllKnown, Next, Step, ReadForm, LookUp, Query, QueryFails, InsertBegins,
       InsertEnds, InsertTears, LogIn, Restart, Start, vars

(* This is what MapMatchesTable says, and more.                            *)
LEMMA MatchingImplies == Matching => MapMatchesTable
BY DEF Matching, Fits, MapMatchesTable, Row

(* A table with no name twice is loaded, or nothing is known of it.        *)
LEMMA MatchingInit == Init => Matching
<1> SUFFICES ASSUME Init PROVE Matching
    OBVIOUS
<1>1. PICK t \in [Names -> Passwords \cup {None}] :
           table = {<<n, t[n]>> : n \in {m \in Names : t[m] # None}}
    BY DEF Init
<1>2. \A n \in Names, p \in Passwords : <<n, p>> \in table <=> p = t[n]
    BY <1>1, RegistryAssumption
<1>3. \A n \in Names, w \in Workers : ~Registers(w, n)
    BY DEF Init, Registers
<1>4. ASSUME NEW n \in Names
      PROVE  /\ users[n] # None => <<n, users[n]>> \in Known
             /\ \A p \in Passwords : <<n, p>> \in Known => users[n] = p
             /\ \A p, q \in Passwords : <<n, p>> \in Known /\ <<n, q>> \in Known => p = q
  <2>1. CASE loads
    <3>1. Known = table
        BY <2>1 DEF Init, Start, Known
    <3> QED BY <2>1, <3>1, <1>2 DEF Init, Start, IsLoaded, HasRow
  <2>2. CASE ~loads
    <3>1. Known = {} /\ users[n] = None
        BY <2>2 DEF Init, Start, Known
    <3> QED BY <3>1
  <2> QED BY <2>1, <2>2
<1> QED BY <1>3, <1>4 DEF Matching, Fits

(* A step that leaves the entry and the rows of a name alone, and the      *)
(* worker that registers it, if any, where it is.                          *)
LEMMA FitsFrame ==
    ASSUME TypeOK, NEW n \in Names, Fits(n),
           users'[n] = users[n],
           \A p \in Passwords : <<n, p>> \in Known' <=> <<n, p>> \in Known,
           \A w \in Workers : Registers(w, n)' <=> Registers(w, n),
           \A w \in Workers : Registers(w, n) =>
                                   /\ form'[w] = form[w]
                                   /\ pc'[w] = "query" <=> pc[w] = "query"
    PROVE  Fits(n)'
<1>1. \A v, w \in Workers : Registers(v, n)' /\ Registers(w, n)' => v = w
    BY DEF Fits
<1>2. ASSUME NEW w \in Workers, Registers(w, n)'
      PROVE  /\ users'[n] = None
             /\ pc'[w] = "query" => \A p \in Passwords : <<n, p>> \notin Known'
             /\ pc'[w] # "query" => <<n, form'[w].password>> \in Known'
  <2>1. Registers(w, n)
      BY <1>2
  <2>2. form'[w] = form[w] /\ (pc'[w] = "query" <=> pc[w] = "query")
      BY <2>1
  <2>3. form[w].password \in Passwords
      BY <2>1 DEF TypeOK, At, Registers, Forms, NoForm
  <2>4. pc[w] # "query" => <<n, form[w].password>> \in Known'
      BY <2>1, <2>3 DEF Fits
  <2>5. pc[w] = "query" => \A p \in Passwords : <<n, p>> \notin Known'
      BY <2>1 DEF Fits
  <2>6. users[n] = None
      BY <2>1 DEF Fits
  <2> QED BY <2>2, <2>4, <2>5, <2>6
<1>3. /\ \A p, q \in Passwords : <<n, p>> \in Known' /\ <<n, q>> \in Known' => p = q
      /\ users'[n] # None => <<n, users'[n]>> \in Known'
    BY DEF Fits, TypeOK
<1>4. ASSUME NEW p \in Passwords, <<n, p>> \in Known', users'[n] # p
      PROVE  \E w \in Workers : /\ pc'[w] \in {"insert", "inserting"}
                                /\ form'[w].name = n /\ form'[w].password = p
  <2>1. PICK w \in Workers : /\ pc[w] \in {"insert", "inserting"}
                             /\ form[w].name = n /\ form[w].password = p
      BY <1>4 DEF Fits
  <2>2. Registers(w, n)
      BY <2>1 DEF Registers
  <2>3. Registers(w, n)' /\ form'[w] = form[w] /\ pc'[w] # "query"
      BY <2>1, <2>2
  <2>4. pc'[w] \in {"insert", "inserting"}
      BY <2>3 DEF Registers
  <2> QED BY <2>1, <2>3, <2>4
<1> QED BY <1>1, <1>2, <1>3, <1>4 DEF Fits

(* No step of a worker makes the two differ in a name, unless a race or a  *)
(* failure gets into that name, and none does to another.                  *)
LEMMA MatchingStep ==
    TypeOK /\ Asked /\ AllKnown /\ Matching /\ [Next]_vars => Matching'
<1> SUFFICES ASSUME TypeOK, Asked, AllKnown, Matching, [Next]_vars,
                    NEW n \in Names \ spoiled'
             PROVE  Fits(n)'
    BY DEF Matching
<1>1. ASSUME UNCHANGED <<table, unread>>
      PROVE  \A p \in Passwords : <<n, p>> \in Known' <=> <<n, p>> \in Known
    BY <1>1 DEF Known
<1>2. ASSUME NEW w \in Workers, NEW f \in Forms, ReadForm(w, f)
      PROVE  Fits(n)'
  <2>1. Fits(n) /\ UNCHANGED <<table, unread>>
      BY <1>2 DEF ReadForm, Matching
  <2> QED BY <1>1, <1>2, <2>1, FitsFrame DEF TypeOK, ReadForm, At, Goto, Registers
<1>3. ASSUME NEW w \in Workers, LookUp(w)
      PROVE  Fits(n)'
  <2>1. n \notin spoiled /\ Fits(n) /\ UNCHANGED <<table, unread>>
      BY <1>3 DEF LookUp, Matching
  <2>2. CASE form[w].name # n \/ pc'[w] = "idle"
      BY <1>1, <1>3, <2>1, <2>2, FitsFrame DEF TypeOK, LookUp, Answer, At, Goto, Registers
  <2>3. CASE form[w].name = n /\ pc'[w] # "idle"
    <3>1. /\ users[n] = None
          /\ \A v \in Workers : ~Registers(v, n)
          /\ pc' = [pc EXCEPT ![w] = "query"]
          /\ UNCHANGED <<form, users>>
        BY <1>3, <2>1, <2>3 DEF TypeOK, LookUp, Answer, At, Goto, Registers, Registering
    <3>2. \A v \in Workers : Registers(v, n)' => v = w
        BY <3>1 DEF TypeOK, Registers
    <3>3. \A p \in Passwords : <<n, p>> \notin Known /\ <<n, p>> \notin Known'
        BY <1>1, <2>1, <3>1, RegistryAssumption DEF Fits, Registers
    <3> QED BY <2>1, <3>1, <3>2, <3>3, RegistryAssumption DEF TypeOK, Fits
  <2> QED BY <2>2, <2>3
<1>4. ASSUME NEW w \in Workers, Query(w)
      PROVE  Fits(n)'
  <2>1. Fits(n)
      BY <1>4 DEF Query, Matching
  <2>2. \A p \in Passwords : <<n, p>> \in Known' <=> <<n, p>> \in Known \/ Row(w) = <<n, p>>
      BY <1>4 DEF Query, Known
  <2>3. CASE form[w].name # n
      BY <1>4, <2>1, <2>2, <2>3, FitsFrame DEF TypeOK, Query, At, Goto, Registers, Row
  <2>4. CASE form[w].name = n
    <3> DEFINE pw == form[w].password
    <3>1. /\ users[n] = None /\ UNCHANGED <<form, users>>
          /\ pc' = [pc EXCEPT ![w] = "insert"]
          /\ \A v \in Workers : Registers(v, n) <=> v = w
          /\ \A p \in Passwords : <<n, p>> \in Known' <=> p = pw
        BY <1>4, <2>1, <2>2, <2>4 DEF TypeOK, Query, At, Goto, Registers, Row, Fits
    <3>2. \A v \in Workers : Registers(v, n)' <=> v = w
        BY <3>1 DEF TypeOK, Registers
    <3>3. pc'[w] = "insert" /\ <<n, pw>> \in Known' /\ pw \in Passwords
      <4>1. pw \in Passwords
          BY <1>4 DEF TypeOK, Query, At, Forms
      <4> QED BY <3>1, <4>1 DEF TypeOK
    <3> QED BY <2>4, <3>1, <3>2, <3>3 DEF Fits
  <2> QED BY <2>3, <2>4
<1>5. ASSUME NEW w \in Workers, QueryFails(w)
      PROVE  Fits(n)'
  <2>1. Fits(n) /\ form[w].name # n
      BY <1>5 DEF QueryFails, Matching
  <2>2. \A p \in Passwords : <<n, p>> \in Known' <=> <<n, p>> \in Known
      BY <1>5, <2>1 DEF QueryFails, Known, Row
  <2> QED BY <1>5, <2>1, <2>2, FitsFrame DEF TypeOK, QueryFails, At, Goto, Registers
<1>6. ASSUME NEW w \in Workers, InsertBegins(w)
      PROVE  Fits(n)'
  <2>1. Fits(n) /\ UNCHANGED <<table, unread>>
      BY <1>6 DEF InsertBegins, Matching
  <2> QED BY <1>1, <1>6, <2>1, FitsFrame DEF TypeOK, InsertBegins, At, Goto, Registers
<1>7. ASSUME NEW w \in Workers, InsertEnds(w)
      PROVE  Fits(n)'
  <2>1. Fits(n) /\ UNCHANGED <<table, unread>>
      BY <1>7 DEF InsertEnds, Matching
  <2>2. CASE form[w].name # n
      BY <1>1, <1>7, <2>1, <2>2, FitsFrame
         DEF TypeOK, InsertEnds, Answer, At, Goto, Registers
  <2>3. CASE form[w].name = n
    <3> DEFINE pw == form[w].password
    <3>1. /\ users[n] = None /\ <<n, pw>> \in Known /\ pw \in Passwords
          /\ \A v \in Workers : Registers(v, n) => v = w
      <4>1. pw \in Passwords
          BY <1>7 DEF TypeOK, InsertEnds, At, Forms
      <4> QED BY <1>7, <2>1, <2>3, <4>1 DEF InsertEnds, At, Registers, Fits
    <3>2. /\ users'[n] = pw
          /\ pc' = [pc EXCEPT ![w] = "idle"]
          /\ \A v \in Workers : v # w => form'[v] = form[v]
        BY <1>7, <2>3, <3>1 DEF TypeOK, InsertEnds, Answer, Goto
    <3>3. \A v \in Workers : ~Registers(v, n)'
        BY <3>1, <3>2 DEF TypeOK, Registers
    <3>4. /\ \A p \in Passwords : <<n, p>> \in Known' <=> <<n, p>> \in Known
          /\ \A p, q \in Passwords : <<n, p>> \in Known /\ <<n, q>> \in Known => p = q
        BY <1>1, <2>1 DEF Fits
    <3> QED BY <3>1, <3>2, <3>3, <3>4 DEF Fits
  <2> QED BY <2>2, <2>3
<1>8. ASSUME NEW w \in Workers, InsertTears(w)
      PROVE  Fits(n)'
  <2>1. /\ Fits(n) /\ form[w].name # n /\ users'[n] = users[n]
        /\ UNCHANGED <<table, unread>>
      BY <1>8 DEF TypeOK, InsertTears, Matching
  <2> QED BY <1>1, <1>8, <2>1, FitsFrame DEF TypeOK, InsertTears, Answer, At, Goto, Registers
<1>9. ASSUME NEW w \in Workers, LogIn(w)
      PROVE  Fits(n)'
  <2>1. Fits(n) /\ UNCHANGED <<table, unread>>
      BY <1>9 DEF LogIn, Matching
  <2> QED BY <1>1, <1>9, <2>1, FitsFrame DEF TypeOK, LogIn, Answer, At, Goto, Registers
<1>10. ASSUME Restart
       PROVE  Fits(n)'
  <2>1. \A w \in Workers : ~Registers(w, n)'
      BY <1>10 DEF Restart, Registers
  <2>2. CASE loads
    <3>1. Known = table /\ Known' = table /\ IsLoaded(users')
        BY <1>10, <2>2 DEF Restart, Start, AllKnown, Known
    <3>2. Fits(n)
        BY <1>10, <2>2 DEF Restart, Matching
    <3>3. \A p, q \in Passwords : <<n, p>> \in table /\ <<n, q>> \in table => p = q
        BY <3>1, <3>2 DEF Fits
    <3>4. users'[n] \in Passwords \cup {None}
        BY <1>10 DEF Restart
    <3>5. HasRow(n) => <<n, users'[n]>> \in table /\ users'[n] \in Passwords
        BY <3>1 DEF IsLoaded, TypeOK
    <3>6. ~HasRow(n) => users'[n] = None
        BY <3>1 DEF IsLoaded
    <3>7. /\ users'[n] # None => <<n, users'[n]>> \in table
          /\ \A p \in Passwords : <<n, p>> \in table => users'[n] = p
        BY <3>3, <3>5, <3>6 DEF HasRow
    <3> QED BY <2>1, <3>1, <3>3, <3>7 DEF Fits
  <2>3. CASE ~loads
    <3>1. users'[n] = None /\ Known' = {}
        BY <1>10, <2>3 DEF Restart, Start, Known
    <3> QED BY <2>1, <3>1 DEF Fits
  <2> QED BY <2>2, <2>3
<1>11. ASSUME UNCHANGED vars
       PROVE  Fits(n)'
  <2>1. Fits(n) /\ UNCHANGED <<table, unread>>
      BY <1>11 DEF vars, Matching
  <2> QED BY <1>1, <1>11, <2>1, FitsFrame DEF vars, workerVars, Registers
<1> QED BY <1>2, <1>3, <1>4, <1>5, <1>6, <1>7, <1>8, <1>9, <1>10, <1>11
        DEF Next, Step

-------------------------------------------------------------------------------
(* Of a name that no race and no failed INSERT has got into, the map and   *)
(* the rows that the process has loaded or inserted say the same, for any  *)
(* number of workers registering and logging in, in every process however  *)
(* often the program is restarted.                                         *)
THEOREM MapMatchesTableHolds == Spec => []MapMatchesTable
BY TypeCorrect, AskedInit, AskedStep, AllKnownInit, AllKnownStep,
   MatchingInit, MatchingStep, MatchingImplies, PTL DEF Spec

(* Whoever was sent to the login page has a row in the table.              *)
THEOREM ToldIsStoredHolds == Spec => []ToldIsStored
BY TypeCorrect, AskedInit, AskedStep, PTL DEF Spec

-------------------------------------------------------------------------------
(* The registry implements the accounts.                                   *)

(* The registry starts as the accounts do.                                 *)
LEMMA PromiseInit == Init => Promise!Init
<1> SUFFICES ASSUME Init PROVE Promise!Init
    OBVIOUS
<1>1. asked \subseteq Names \X Passwords
    BY TypeInit DEF TypeOK
<1>2. \A n \in Names : users[n] # None => <<n, users[n]>> \in asked
    BY AskedInit DEF Asked
<1> QED BY <1>1, <1>2 DEF Init, Promise!Init

(* Each step of the registry is one of the accounts or leaves them alone.  *)
LEMMA PromiseStep ==
    TypeOK /\ Asked /\ AllKnown /\ Matching /\ Asked' /\ [Next]_vars
        => [Promise!Next]_(Promise!vars)
<1> SUFFICES ASSUME TypeOK, Asked, AllKnown, Matching, Asked', [Next]_vars
             PROVE  Promise!Next \/ UNCHANGED Promise!vars
    OBVIOUS
<1> USE DEF Promise!Next, Promise!vars
<1> loads' = loads
    BY DEF Next, Step, ReadForm, LookUp, Query, QueryFails, InsertBegins, InsertEnds,
           InsertTears, LogIn, Restart, vars
<1>1. ASSUME NEW w \in Workers, NEW f \in Forms, ReadForm(w, f)
      PROVE  Promise!Ask
    BY <1>1 DEF ReadForm, Promise!Ask
<1>2. \A n \in Names : users'[n] # None => <<n, users'[n]>> \in asked'
    BY DEF Asked
<1>3. ASSUME UNCHANGED users, UNCHANGED asked, spoiled \subseteq spoiled'
      PROVE  Promise!Change
    BY <1>2, <1>3 DEF TypeOK, Promise!Change
<1>4. ASSUME NEW w \in Workers, pc[w] # "idle", NEW a \in Promise!Pages, Answer(w, a),
             form[w].name \notin spoiled' => Promise!True(a, form[w].name, form[w].password),
             a = "welcome" => <<form[w].name, form[w].password>> \in asked
      PROVE  Promise!Tell
  <2>1. form[w].name \in Names /\ form[w].password \in Passwords
      BY <1>4 DEF TypeOK, At, Forms
  <2> QED BY <1>4, <2>1 DEF Answer, Promise!Tell
<1>5. ASSUME NEW w \in Workers, LookUp(w)
      PROVE  Promise!Next \/ UNCHANGED Promise!vars
  <2>1. Promise!Change /\ UNCHANGED asked
      BY <1>3, <1>5 DEF LookUp
  <2>2. CASE UNCHANGED answer
      BY <2>1, <2>2
  <2>3. CASE ~UNCHANGED answer
    <3> DEFINE n == form[w].name
    <3>1. Answer(w, "registerError") /\ (n \notin spoiled' => users'[n] # None)
        BY <1>5, <2>3 DEF LookUp
    <3>2. Promise!Tell
        BY <1>4, <1>5, <3>1 DEF LookUp, At, Promise!Pages, Promise!True
    <3> QED BY <2>1, <3>2
  <2> QED BY <2>2, <2>3
<1>6. ASSUME NEW w \in Workers, Query(w) \/ InsertBegins(w)
      PROVE  UNCHANGED Promise!vars
    BY <1>6 DEF Query, InsertBegins
<1>7. ASSUME NEW w \in Workers, QueryFails(w)
      PROVE  Promise!Next
    BY <1>3, <1>7 DEF QueryFails
<1>8. ASSUME NEW w \in Workers, InsertEnds(w)
      PROVE  Promise!Next
  <2> DEFINE n == form[w].name
             p == form[w].password
  <2>1. n \in Names /\ p \in Passwords
      BY <1>8 DEF TypeOK, InsertEnds, At, Forms
  <2>2. Promise!Change /\ UNCHANGED asked
      BY <1>2, <1>8 DEF TypeOK, InsertEnds, Promise!Change
  <2>3. users'[n] # None
      BY <1>8, <2>1, RegistryAssumption DEF TypeOK, InsertEnds
  <2>4. n \notin spoiled' => users'[n] = p
    <3>1. ASSUME n \notin spoiled'
          PROVE  users[n] = None
      <4>1. Fits(n)
          BY <1>8, <2>1, <3>1 DEF InsertEnds, Matching
      <4>2. Registers(w, n)
          BY <1>8 DEF InsertEnds, Registers, At
      <4> QED BY <4>1, <4>2 DEF Fits
    <3> QED BY <1>8, <2>1, <3>1 DEF TypeOK, InsertEnds
  <2>5. Promise!Tell
      BY <1>4, <1>8, <2>3, <2>4 DEF InsertEnds, At, Page, Promise!Pages, Promise!True
  <2> QED BY <2>2, <2>5
<1>9. ASSUME NEW w \in Workers, InsertTears(w)
      PROVE  Promise!Next
  <2>1. form[w].name \in spoiled' /\ UNCHANGED asked
      BY <1>9 DEF InsertTears
  <2>2. Promise!Change
      BY <1>2, <1>9 DEF TypeOK, InsertTears, Promise!Change
  <2>3. Promise!Tell
      BY <1>4, <1>9, <2>1 DEF InsertTears, At, Page, Promise!Pages
  <2> QED BY <2>1, <2>2, <2>3
<1>10. ASSUME NEW w \in Workers, LogIn(w)
       PROVE  Promise!Next
  <2> DEFINE n == form[w].name
             p == form[w].password
  <2>1. n \in Names /\ p \in Passwords
      BY <1>10 DEF TypeOK, LogIn, At, Forms
  <2>2. Promise!Change /\ UNCHANGED <<asked, users>>
      BY <1>3, <1>10 DEF LogIn
  <2>3. PICK found \in BOOLEAN :
            /\ Answer(w, IF found /\ users[n] = p THEN "welcome" ELSE "logError")
            /\ n \notin spoiled' => found = (users[n] # None)
    <3>1. Found(n) \subseteq BOOLEAN
        BY DEF Found
    <3> QED BY <1>10, <3>1 DEF LogIn
  <2>4. CASE found /\ users[n] = p
    <3>1. <<n, p>> \in asked
        BY <2>1, <2>4, RegistryAssumption DEF Asked
    <3> QED BY <1>4, <1>10, <2>2, <2>3, <2>4, <3>1
            DEF LogIn, At, Promise!Pages, Promise!True
  <2>5. CASE ~(found /\ users[n] = p)
    <3>1. n \notin spoiled' => users[n] # p
        BY <2>1, <2>3, <2>5, RegistryAssumption
    <3> QED BY <1>4, <1>10, <2>2, <2>3, <2>5, <3>1
            DEF LogIn, At, Promise!Pages, Promise!True
  <2> QED BY <2>4, <2>5
<1>11. ASSUME Restart
       PROVE  Promise!Next
  <2>1. UNCHANGED <<asked, answer, loads>>
      BY <1>11 DEF Restart
  <2>2. CASE loads
    <3>1. Known = table /\ IsLoaded(users') /\ spoiled' = spoiled
        BY <1>11, <2>2 DEF Restart, Start, AllKnown, Known
    <3>2. ASSUME NEW n \in Names \ spoiled', users[n] # None
          PROVE  users'[n] = users[n]
      <4>1. Fits(n) /\ <<n, users[n]>> \in table /\ users[n] \in Passwords
          BY <3>1, <3>2 DEF TypeOK, Matching, Fits
      <4>2. <<n, users'[n]>> \in table
          BY <3>1, <4>1 DEF IsLoaded, HasRow
      <4> QED BY <3>1, <4>1, <4>2 DEF TypeOK, Fits
    <3>3. Promise!Change
        BY <1>2, <3>1, <3>2, <2>1 DEF Promise!Change
    <3> QED BY <2>1, <3>3
  <2>3. CASE ~loads
    <3>1. Promise!Forget
        BY <1>11, <2>1, <2>3 DEF Restart, Start, Promise!Forget
    <3> QED BY <2>1, <3>1
  <2> QED BY <2>2, <2>3
<1>12. ASSUME UNCHANGED vars
       PROVE  UNCHANGED Promise!vars
    BY <1>12 DEF vars
<1> QED BY <1>1, <1>5, <1>6, <1>7, <1>8, <1>9, <1>10, <1>11, <1>12 DEF Next, Step

(* The pages tell the truth about every name that nothing has got into,    *)
(* and nobody is welcome with a password that nobody has asked for.        *)
THEOREM RegistryImplementsAccounts == Spec => ImplementsAccounts
<1>1. Spec => [](TypeOK /\ Asked /\ AllKnown /\ Matching)
    BY TypeCorrect, AskedInit, AskedStep, AllKnownInit, AllKnownStep,
       MatchingInit, MatchingStep, PTL DEF Spec
<1>2. Spec => Promise!Init /\ [][Promise!Next]_(Promise!vars)
    BY <1>1, PromiseInit, PromiseStep, PTL DEF Spec
<1> QED BY <1>2 DEF ImplementsAccounts, Promise!Spec
================================================================================
