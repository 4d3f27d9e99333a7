------------------------------- MODULE Accounts -------------------------------
(***************************************************************************)
(* What the pages of the server tell its users about their accounts: a     *)
(* name that has a password keeps it, a user who is told that the          *)
(* registration succeeded can log in with it, and nobody logs in with a    *)
(* password that nobody has registered.  The names in void are those of    *)
(* which only the last is promised.  If accounts are not lasting all names *)
(* may be free again, at any time, and what is promised begins anew.       *)
(***************************************************************************)
CONSTANTS Names, Passwords, None

VARIABLES passwd,   \* the password that each name has, None if it is free
          asked,    \* the accounts anybody has asked for
          void,     \* the names that something went wrong with
          lasting,  \* a restart keeps the accounts
          answer    \* the last page: [page, name, password]

vars == <<passwd, asked, void, lasting, answer>>

Pages == {"log", "registerError", "welcome", "logError"}

Init == /\ passwd \in [Names -> Passwords \cup {None}]
        /\ asked \subseteq Names \X Passwords
        /\ \A n \in Names : passwd[n] # None => <<n, passwd[n]>> \in asked
        /\ void \subseteq Names
        /\ lasting \in BOOLEAN
        /\ answer = None

Ask == /\ asked \subseteq asked'
       /\ UNCHANGED <<passwd, void, answer>>

Forget == /\ ~lasting
          /\ passwd' = [n \in Names |-> None]
          /\ void' = {}
          /\ UNCHANGED <<asked, answer>>

(* Names are registered, of those that are free, and more become void.     *)
Change == /\ void \subseteq void'
          /\ \A n \in Names \ void' : passwd[n] \in {passwd'[n], None}
          /\ \A n \in Names : passwd'[n] # None => <<n, passwd'[n]>> \in asked

(* What the page says is so: the name is the user's now; it is another's;  *)
(* the password is right; it is wrong.                                     *)
True(a, n, p) ==
    CASE a = "log"           -> passwd'[n] = p
      [] a = "registerError" -> passwd'[n] # None
      [] a = "welcome"       -> passwd'[n] = p
      [] a = "logError"      -> passwd'[n] # p

Tell == \E a \in Pages, n \in Names, p \in Passwords :
            /\ answer' = [page |-> a, name |-> n, password |-> p]
            /\ n \notin void' => True(a, n, p)
            /\ a = "welcome" => <<n, p>> \in asked

Next == /\ \/ Ask
           \/ Forget
           \/ Change /\ UNCHANGED asked /\ (Tell \/ UNCHANGED answer)
        /\ UNCHANGED lasting

Spec == Init /\ [][Next]_vars
===============================================================================
