--------------------------- MODULE MCAuthSessions ---------------------------
(***************************************************************************)
(* Instances of AuthSessions for TLC.                                      *)
(***************************************************************************)
EXTENDS AuthSessions, TLC, FiniteSets

CONSTANTS r1, r2, p1, p2, l1, l2

TwoRequests == {r1, r2}
TwoPasswords == {p1, p2}
NoLinks == {}
TwoLinks == {l1, l2}
NoReasons == {}
AllReasons == {"inactive", "unconfirmed"}

Symmetry ==
    Permutations({r1, r2}) \cup Permutations({l1, l2}) \cup Permutations({p1, p2})

(***************************************************************************)
(* Two small worlds in one instance: two requests for an account that      *)
(* nobody blocks, with one mail, and one request for any account, with     *)
(* two mails.                                                              *)
(***************************************************************************)
Unblocked ==
    /\ blocked = {} /\ bans = 0
    /\ Cardinality({l \in Links : link[l] # "unsent"}) <= 1

OneAtATime ==
    /\ issued < MaxTokens
    /\ Cardinality({r \in Requests : pc[r] # "idle"}) <= 1
    /\ Cardinality(({proof[t] : t \in Tokens} \cup {password}) \ {NoPassword}) <= 1

Scope == Unblocked \/ OneAtATime
=============================================================================
