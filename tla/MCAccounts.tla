----------------------------- MODULE MCAccounts -----------------------------
(***************************************************************************)
(* Instances of Accounts for TLC.                                          *)
(***************************************************************************)
EXTENDS Accounts, TLC, FiniteSets

CONSTANTS u1, u2, e1, e2, e3, s1, r1, r2

TwoUsers == {u1, u2}
TwoEmails == {e1, e2}
ThreeEmails == {e1, e2, e3}
OneSubject == {s1}
NoSubjects == {}
OneRequest == {r1}
TwoRequests == {r1, r2}

Symmetry ==
    Permutations({u1, u2}) \cup Permutations({e1, e2, e3}) \cup Permutations({r1, r2})

(***************************************************************************)
(* Two small worlds in one instance: one account whose address two         *)
(* requests change among three, and two accounts, two addresses and a      *)
(* provider with one request at a time.                                    *)
(***************************************************************************)
OneAccount ==
    /\ Cardinality(Accounts) <= 1
    /\ \A s \in Subjects : identity[s] = NoUser
    /\ \A r \in Requests : arg[r].subject = NoUser

Mentioned ==
    {email[u] : u \in Users} \cup {pending[u] : u \in Users}
    \cup {t.inbox : t \in tickets} \cup {t.asked : t \in tickets}
    \cup {arg[r].from : r \in Requests} \cup {arg[r].to : r \in Requests}
    \cup {p[2] : p \in proven}

OneAtATime ==
    /\ Cardinality({r \in Requests : pc[r] # "idle"}) <= 1
    /\ Cardinality(Mentioned \ {NoEmail}) <= 2

Scope == OneAccount \/ OneAtATime
=============================================================================
