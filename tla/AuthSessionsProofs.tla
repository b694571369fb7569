------------------------- MODULE AuthSessionsProofs -------------------------
(***************************************************************************)
(* Proofs about AuthSessions, for any number of tokens, concurrent         *)
(* requests, passwords and links.                                          *)
(***************************************************************************)
EXTENDS AuthSessions, TLAPS

-----------------------------------------------------------------------------
(* Types.                                                                  *)

\* Nothing is issued yet, so every column is in its type.
LEMMA TypeInit == Init => TypeOK
  BY SessionAssumption DEF Init, TypeOK, Tokens, Ids, Labels

\* A family is a set of issued tokens.
LEMMA FamilyIssued == \A T : Family(T) \subseteq Tokens
  BY DEF Family

\* The value that fits a label.
Fits(label, a) ==
    /\ label \in {"gate", "rotate", "reuse"} => a \in Tokens
    /\ label \in {"activate", "grantGate", "grant", "change"} => a \in Passwords \cup {NoPassword}

\* What TypeOK says of the requests.
RequestTypes ==
    /\ pc \in [Requests -> Labels]
    /\ arg \in [Requests -> (0 .. MaxTokens) \cup Passwords \cup {NoPassword}]
    /\ \A r \in Requests : Fits(pc[r], arg[r])

LEMMA TypeGoto ==
  ASSUME RequestTypes, NEW r \in Requests, NEW label \in Labels,
         NEW a \in (0 .. MaxTokens) \cup Passwords \cup {NoPassword},
         Goto(r, label, a), Fits(label, a), Tokens \subseteq Tokens'
  PROVE  RequestTypes'
BY DEF RequestTypes, Fits, Goto

\* Passing or failing the gate keeps the types.
LEMMA TypeGate ==
  ASSUME TypeOK, NEW r \in Requests, NEW from \in Labels, NEW to \in Labels, Gate(r, from, to),
         to \in {"gate", "rotate", "reuse"} => from \in {"gate", "rotate", "reuse"},
         to \in {"activate", "grantGate", "grant", "change"} =>
             from \in {"activate", "grantGate", "grant", "change"}
  PROVE  TypeOK'
<1>1. RequestTypes /\ Fits(to, arg[r]) /\ Fits("idle", 0)
  BY DEF TypeOK, RequestTypes, Fits, Gate
<1>2. UNCHANGED <<rowVars, boundVars, killed, late, proof, gone>> /\ Tokens' = Tokens
  BY DEF Gate, rowVars, Tokens
<1>3. /\ Goto(r, to, arg[r]) \/ Goto(r, "idle", 0)
      /\ stale' \subseteq stale /\ graced' \subseteq graced
  BY DEF Gate, Done
<1>4. arg[r] \in (0 .. MaxTokens) \cup Passwords \cup {NoPassword} /\ 0 \in 0 .. MaxTokens
  BY SessionAssumption DEF TypeOK
<1>5. RequestTypes'
  BY <1>1, <1>2, <1>3, <1>4, TypeGoto DEF Labels
<1> QED
  BY <1>2, <1>3, <1>5 DEF TypeOK, RequestTypes, Fits, rowVars, boundVars, Tokens

\* A new row keeps the types of the columns, and of what history says of rows.
LEMMA TypeInsert ==
  ASSUME TypeOK, NEW p \in {0} \cup Tokens, NEW pw \in Passwords \cup {NoPassword},
         NEW isLate \in BOOLEAN, Insert(p, pw, isLate)
  PROVE  /\ issued' = issued + 1 /\ issued' \in 0 .. MaxTokens
         /\ issued' \in Nat /\ Tokens \subseteq Tokens'
         /\ parent' \in [Ids -> 0 .. MaxTokens]
         /\ proof' \in [Ids -> Passwords \cup {NoPassword}]
         /\ late' \subseteq Tokens'
BY SessionAssumption DEF TypeOK, Tokens, Ids, Insert

\* Requests and rows keep their types when a request moves on.
LEMMA TypeRequest ==
  ASSUME TypeOK, NEW r \in Requests, RequestStep(r)
  PROVE  TypeOK'
<1> USE SessionAssumption DEF TypeOK, Tokens, Ids, Labels, Goto, Done, rowVars, requestVars,
                              boundVars, historyVars
<1>1. CASE PasswordRead(r)
  BY <1>1 DEF PasswordRead
<1>2. CASE ProviderProof(r)
  BY <1>2 DEF ProviderProof
<1>3. CASE ProviderActivate(r)
  BY <1>3 DEF ProviderActivate
<1>4. CASE GrantGate(r)
  BY <1>4, TypeGate DEF GrantGate
<1>5. CASE Grant(r)
  BY <1>5 DEF Grant, Insert
<1>6. ASSUME NEW t \in Tokens, RefreshRead(r, t) PROVE TypeOK'
  BY <1>6 DEF RefreshRead
<1>7. CASE ReuseRevoke(r)
  <2> DEFINE D == Family(Children(arg[r]))
  <2>1. D \subseteq Tokens
    BY FamilyIssued
  <2>2. RevokeReused(r, D)
    BY <1>7 DEF ReuseRevoke
  <2>3. Readers(D) \subseteq Requests
    BY DEF Readers
  <2>4. arg[r] \in Tokens
    BY <1>7 DEF ReuseRevoke, RevokeReused
  <2>5. RequestTypes'
    <3>1. RequestTypes /\ Fits("idle", 0) /\ 0 \in 0 .. MaxTokens
      BY DEF RequestTypes, Fits
    <3>2. Goto(r, "idle", 0) /\ Tokens \subseteq Tokens'
      BY <2>2 DEF RevokeReused, Done
    <3> QED
      BY <3>1, <3>2, TypeGoto
  <2> HIDE DEF D, Goto, Done
  <2> QED
    BY <2>1, <2>2, <2>3, <2>4, <2>5 DEF RevokeReused, SignOut, RequestTypes, Fits
<1>8. CASE RefreshGate(r)
  BY <1>8, TypeGate DEF RefreshGate
<1>9. CASE Rotate(r)
  <2>1. RotateInto(r, {arg[r]}) /\ arg[r] \in Tokens
    BY <1>9 DEF Rotate, RotateInto
  <2>2. Insert(arg[r], proof[arg[r]], r \in stale \/ arg[r] \in late)
    BY <2>1 DEF RotateInto
  <2>3. proof[arg[r]] \in Passwords \cup {NoPassword}
    BY <2>1
  <2> HIDE DEF Tokens
  <2>4. /\ issued' \in 0 .. MaxTokens /\ Tokens \subseteq Tokens'
        /\ parent' \in [Ids -> 0 .. MaxTokens]
        /\ proof' \in [Ids -> Passwords \cup {NoPassword}]
        /\ late' \subseteq Tokens'
    BY <2>1, <2>2, <2>3, TypeInsert
  <2>5. RequestTypes'
    <3>1. RequestTypes /\ Fits("idle", 0) /\ 0 \in 0 .. MaxTokens
      BY DEF RequestTypes, Fits
    <3>2. Goto(r, "idle", 0)
      BY <2>1 DEF RotateInto, Done
    <3> QED
      BY <2>4, <3>1, <3>2, TypeGoto
  <2> HIDE DEF Goto, Done
  <2>6. Readers({arg[r]}) \subseteq Requests
    BY DEF Readers
  <2> QED
    BY <2>1, <2>4, <2>5, <2>6 DEF RotateInto, RequestTypes, Fits
<1>10. ASSUME NEW new \in Passwords, ChangeRead(r, new) PROVE TypeOK'
  BY <1>10 DEF ChangeRead
<1>11. CASE ChangeCommit(r)
  <2>1. /\ Insert(0, arg[r], FALSE) /\ arg[r] \in Passwords \cup {NoPassword}
        /\ password' = arg[r] /\ resets' = resets + 1
        /\ revoked' = revoked \cup Live /\ killed' = killed \cup Live /\ Done(r)
        /\ stale' = (stale \cup Verified \cup Readers(Live)) \ {r}
        /\ UNCHANGED <<blocked, link, bans, graced, gone>>
    BY <1>11 DEF ChangeCommit, Reset, SignOut
  <2> HIDE DEF Tokens
  <2>2. /\ issued' \in 0 .. MaxTokens /\ Tokens \subseteq Tokens'
        /\ parent' \in [Ids -> 0 .. MaxTokens]
        /\ proof' \in [Ids -> Passwords \cup {NoPassword}]
        /\ late' \subseteq Tokens'
    BY <2>1, TypeInsert
  <2>3. Live \subseteq Tokens /\ Verified \subseteq Requests /\ Readers(Live) \subseteq Requests
    BY DEF Live, Verified, Readers
  <2> HIDE DEF Goto, Done
  <2>4. RequestTypes'
    <3>1. RequestTypes /\ Fits("idle", 0) /\ 0 \in 0 .. MaxTokens
      BY DEF RequestTypes, Fits
    <3>2. Goto(r, "idle", 0)
      BY <2>1 DEF Done
    <3> QED
      BY <2>2, <3>1, <3>2, TypeGoto
  <2> QED
    BY <2>1, <2>2, <2>3, <2>4 DEF RequestTypes, Fits
<1>12. CASE ChangeRefused(r)
  BY <1>12 DEF ChangeRefused
<1> QED
  BY <1>1, <1>2, <1>3, <1>4, <1>5, <1>6, <1>7, <1>8, <1>9, <1>10, <1>11, <1>12 DEF RequestStep

\* The statements of no request of several statements keep the types too.
LEMMA TypeOthers ==
  ASSUME TypeOK, Next, ~ \E r \in Requests : RequestStep(r)
  PROVE  TypeOK'
<1> USE SessionAssumption DEF TypeOK, Tokens, Ids, Labels, rowVars, requestVars,
                              boundVars, historyVars
<1>1. ASSUME NEW T, T \subseteq Tokens, SignOutSet(T) PROVE TypeOK'
  <2>1. Readers(T) \subseteq Requests
    BY DEF Readers
  <2> QED
    BY <1>1, <2>1 DEF SignOutSet, SignOut
<1>2. ASSUME NEW t \in Tokens, LogoutLocal(t) PROVE TypeOK'
  BY <1>1, <1>2, FamilyIssued DEF LogoutLocal
<1>3. ASSUME NEW t \in Tokens, LogoutOthers(t) PROVE TypeOK'
  BY <1>1, <1>3 DEF LogoutOthers, Live
<1>4. ASSUME NEW t \in Tokens, RevokeRow(t) PROVE TypeOK'
  <2>1. Readers({t}) \subseteq Requests
    BY DEF Readers
  <2> QED
    BY <1>4, <2>1 DEF RevokeRow, Live
<1>6. CASE LogoutGlobal
  BY <1>1, <1>6 DEF LogoutGlobal, Live
<1>7. ASSUME NEW l \in Links,
             Mail(l, "recover") \/ Mail(l, "signin") \/ Expire(l)
      PROVE  TypeOK'
  BY <1>7 DEF Mail, Expire
<1>8. ASSUME NEW l \in Links, VerifySignin(l) PROVE TypeOK'
  <2> HIDE DEF Tokens
  <2>1. /\ issued' \in 0 .. MaxTokens /\ Tokens \subseteq Tokens'
        /\ parent' \in [Ids -> 0 .. MaxTokens]
        /\ proof' \in [Ids -> Passwords \cup {NoPassword}]
        /\ late' \subseteq Tokens'
    BY <1>8, TypeInsert DEF VerifySignin
  <2> QED
    BY <1>8, <2>1 DEF VerifySignin
<1>9. ASSUME NEW l \in Links, NEW new \in Passwords, VerifyRecover(l, new) PROVE TypeOK'
  <2> HIDE DEF Tokens
  <2>1. /\ Insert(0, new, FALSE) /\ password' = new /\ resets' = resets + 1
        /\ revoked' = revoked \cup Live /\ killed' = killed \cup Live
        /\ stale' = stale \cup Verified \cup Readers(Live) /\ blocked' = {}
        /\ UNCHANGED <<requestVars, bans, graced, gone>>
        /\ link' \in [Links -> {"unsent", "recover", "signin", "dead"}]
    BY <1>9 DEF VerifyRecover, RecoverWith, Reset, SignOut
  <2>2. /\ issued' \in 0 .. MaxTokens /\ Tokens \subseteq Tokens'
        /\ parent' \in [Ids -> 0 .. MaxTokens]
        /\ proof' \in [Ids -> Passwords \cup {NoPassword}]
        /\ late' \subseteq Tokens'
    BY <2>1, TypeInsert
  <2>3. Live \subseteq Tokens /\ Verified \subseteq Requests /\ Readers(Live) \subseteq Requests
    BY DEF Live, Verified, Readers
  <2> QED
    BY <2>1, <2>2, <2>3
<1>10. CASE Ban
  BY <1>10 DEF Ban
<1>11. CASE Unban
  BY <1>11 DEF Unban
<1>12. CASE ActivateUser
  BY <1>12 DEF ActivateUser
<1> QED
  BY <1>2, <1>3, <1>4, <1>6, <1>7, <1>8, <1>9, <1>10, <1>11, <1>12 DEF Next

LEMMA TypeNext == TypeOK /\ [Next]_vars => TypeOK'
<1> SUFFICES ASSUME TypeOK, [Next]_vars PROVE TypeOK'
  OBVIOUS
<1>1. CASE UNCHANGED vars
  BY <1>1 DEF vars, rowVars, requestVars, boundVars, historyVars, TypeOK, Tokens
<1>2. CASE Next /\ ~ \E r \in Requests : RequestStep(r)
  BY <1>2, TypeOthers
<1>3. ASSUME NEW r \in Requests, RequestStep(r) PROVE TypeOK'
  BY <1>3, TypeRequest
<1> QED
  BY <1>1, <1>2, <1>3

-----------------------------------------------------------------------------
(* Families.                                                               *)

\* A family holds what it starts from.
LEMMA FamilyStarts == \A T \in SUBSET Tokens : T \subseteq Family(T)
  BY DEF Family

\* A family is closed under rotation.
LEMMA FamilyClosed ==
  ASSUME NEW T, NEW c \in Tokens, parent[c] \in Family(T)
  PROVE  c \in Family(T)
  BY DEF Family

\* Whatever holds the start and is closed under rotation holds the family.
LEMMA FamilyLeast ==
  ASSUME NEW T, NEW S \in SUBSET Tokens, T \subseteq S,
         \A c \in Tokens : parent[c] \in S => c \in S
  PROVE  Family(T) \subseteq S
  BY DEF Family

-----------------------------------------------------------------------------
(* Rows.  A step leaves the rows alone, or revokes some, or adds one.      *)

\* What the inductive invariant says of rows.
RowInv == ParentsFirst /\ HeirsOut /\ RedeemedOnce /\ SurvivorsAreCurrent

LEMMA RowQuiet ==
  ASSUME RowInv, UNCHANGED <<issued, revoked, parent, password, killed, late, proof, gone>>
  PROVE  RowInv'
  BY DEF RowInv, ParentsFirst, HeirsOut, RedeemedOnce, SurvivorsAreCurrent, Tokens, Live

(***************************************************************************)
(* T is revoked, K of it counts as signed out, G as reused.  It is enough  *)
(* that the children of K and G are signed out too, or late.               *)
(***************************************************************************)
LEMMA RowSignOut ==
  ASSUME RowInv, NEW T, NEW K, NEW G,
         UNCHANGED <<issued, parent, password, late, proof>>,
         revoked' = revoked \cup T, killed' = killed \cup K, gone' = gone \cup G,
         \A c \in Tokens : parent[c] \in K \cup G => c \in killed \cup K \cup late
  PROVE  RowInv'
<1>1. Tokens' = Tokens /\ Live' \subseteq Live
  BY DEF Tokens, Live
<1>2. ParentsFirst' /\ SurvivorsAreCurrent'
  BY <1>1 DEF RowInv, ParentsFirst, SurvivorsAreCurrent
<1>3. HeirsOut'
  BY <1>1 DEF RowInv, HeirsOut
<1>4. RedeemedOnce'
  BY <1>1 DEF RowInv, RedeemedOnce
<1> QED
  BY <1>2, <1>3, <1>4 DEF RowInv

(***************************************************************************)
(* A row is added, and live rows T are revoked; K of T counts as signed    *)
(* out.  A new token has no child, and a live one has none either.         *)
(***************************************************************************)
LEMMA RowInsert ==
  ASSUME TypeOK, RowInv, ReuseReads,
         NEW p \in {0} \cup Tokens, NEW pw \in Passwords \cup {NoPassword},
         NEW isLate \in BOOLEAN, NEW T \in SUBSET Live, NEW K \in SUBSET T,
         Insert(p, pw, isLate), gone' = gone,
         revoked' = revoked \cup T, killed' = killed \cup K,
         p \notin K, p # 0 => p \in revoked' /\ (~isLate => p \in Live) /\ (p \in late => isLate),
         ~isLate => pw = password',
         password' = password \/ T = Live
  PROVE  RowInv'
<1> DEFINE n == issued + 1
<1>1. /\ issued \in Nat /\ n \in Nat /\ 0 < n /\ Tokens' = Tokens \cup {n} /\ n \notin Tokens /\ 0 \notin Tokens
      /\ parent'[n] = p /\ proof'[n] = pw /\ n \in Tokens'
      /\ \A t \in Tokens : parent'[t] = parent[t] /\ proof'[t] = proof[t]
      /\ \A t \in Tokens : t \in Nat /\ t < n
  BY SessionAssumption DEF TypeOK, Insert, Tokens, Ids
<1>2. late' = IF isLate THEN late \cup {n} ELSE late
  BY DEF Insert
<1>3. revoked \subseteq Tokens /\ killed \subseteq revoked /\ late \subseteq Tokens
      /\ gone \subseteq revoked /\ T \subseteq Tokens
  BY DEF TypeOK, Live, ReuseReads
<1>4. ASSUME NEW c \in Tokens, parent[c] # 0 PROVE parent[c] \notin Live /\ parent[c] # n
  <2>1. parent[c] \in revoked
    BY <1>4 DEF RowInv, RedeemedOnce
  <2> QED
    BY <2>1, <1>1, <1>3 DEF Live
<1> HIDE DEF n
<1>5. ParentsFirst'
  <2>1. p < n
    BY <1>1
  <2>2. ASSUME NEW t \in Tokens PROVE parent'[t] < t
    <3>1. parent[t] < t
      BY DEF RowInv, ParentsFirst
    <3>2. parent'[t] = parent[t]
      BY <1>1
    <3> QED
      BY <3>1, <3>2
  <2>3. parent'[n] < n
    BY <1>1, <2>1
  <2> HIDE DEF Tokens
  <2>4. \A t \in Tokens' : t \in Tokens \/ t = n
    BY <1>1
  <2> QED
    BY <2>2, <2>3, <2>4 DEF ParentsFirst
<1>6. HeirsOut'
  <2>1. ASSUME NEW c \in Tokens
        PROVE  /\ parent[c] \in killed' \cup gone' => c \in killed' \cup late'
               /\ parent[c] \in late' => c \in late'
    <3>1. parent[c] \in killed \cup gone => c \in killed \cup late
      BY DEF RowInv, HeirsOut
    <3>2. parent[c] \in late => c \in late
      BY DEF RowInv, HeirsOut
    <3>3. CASE parent[c] = 0
      BY <3>1, <3>3, <1>1, <1>2, <1>3
    <3>4. CASE parent[c] # 0
      BY <3>1, <3>2, <3>4, <1>1, <1>2, <1>3, <1>4
    <3> QED
      BY <3>3, <3>4
  <2>2. p \in killed' \cup gone' => n \in late'
    <3>1. CASE p = 0
      BY <3>1, <1>1, <1>3
    <3>2. CASE p # 0 /\ isLate
      BY <3>2, <1>2
    <3>3. CASE p # 0 /\ ~isLate
      <4>1. p \in Live /\ p \notin killed \cup gone
        BY <3>3, <1>3 DEF Live
      <4> QED
        BY <4>1
    <3> QED
      BY <3>1, <3>2, <3>3
  <2>3. p \in late' => n \in late'
    BY <1>1, <1>2, <1>3
  <2> QED
    BY <1>1, <2>1, <2>2, <2>3 DEF HeirsOut
<1>7. RedeemedOnce'
  <2> SUFFICES ASSUME NEW s \in Tokens', parent'[s] # 0
               PROVE  /\ parent'[s] \in revoked'
                      /\ \A t \in Tokens' \ {s} :
                            parent'[t] = parent'[s] => {s, t} \cap late' # {}
    BY DEF RedeemedOnce
  <2>1. ASSUME NEW c \in Tokens, parent[c] # 0, parent[c] = p PROVE n \in late'
    <3>1. p \notin Live /\ p # 0
      BY <2>1, <1>4
    <3>2. isLate
      BY <3>1
    <3> QED
      BY <3>2, <1>2
  <2>2. CASE s \in Tokens
    <3>1. parent[s] \in revoked /\ parent[s] # 0
      BY <2>2, <1>1 DEF RowInv, RedeemedOnce
    <3>2. ASSUME NEW t \in Tokens \ {s}, parent[t] = parent[s] PROVE {s, t} \cap late # {}
      BY <2>2, <3>1, <3>2 DEF RowInv, RedeemedOnce
    <3>3. parent[s] = p => n \in late'
      BY <2>1, <2>2, <3>1
    <3>4. late \subseteq late'
      BY <1>2
    <3> QED
      BY <1>1, <2>2, <3>1, <3>2, <3>3, <3>4
  <2>3. CASE s = n
    <3>1. p # 0 /\ p \in revoked'
      BY <1>1, <2>3
    <3>2. \A t \in Tokens : parent[t] = p => n \in late'
      BY <2>1, <3>1
    <3> QED
      BY <1>1, <2>3, <3>1, <3>2
  <2> QED
    BY <1>1, <2>2, <2>3
<1>8. SurvivorsAreCurrent'
  <2>1. ASSUME NEW t \in Live' \ late', t \in Tokens PROVE proof'[t] = password'
    <3>1. t \in Live \ late /\ t \notin T
      BY <2>1, <1>2 DEF Live
    <3>2. proof[t] = password
      BY <3>1 DEF RowInv, SurvivorsAreCurrent
    <3>3. password' = password
      BY <3>1
    <3> QED
      BY <2>1, <3>2, <3>3, <1>1
  <2>2. n \notin late' => proof'[n] = password'
    BY <1>1, <1>2
  <2>3. Live' \subseteq Tokens \cup {n}
    BY <1>1 DEF Live
  <2> QED
    BY <2>1, <2>2, <2>3 DEF SurvivorsAreCurrent
<1> QED
  BY <1>5, <1>6, <1>7, <1>8 DEF RowInv

\* A reset signs out every live row, and adds one of the new password.
LEMMA RowReset ==
  ASSUME TypeOK, RowInv, ReuseReads, NEW pw \in Passwords \cup {NoPassword},
         Reset(pw, Live), gone' = gone
  PROVE  RowInv'
<1> DEFINE T == Live
           isLate == FALSE
           p == 0
<1>1. /\ T \in SUBSET Live /\ T \in SUBSET T /\ T = Live /\ p \in {0} \cup Tokens /\ p = 0
      /\ isLate \in BOOLEAN /\ p \notin T
  BY DEF Live, Tokens
<1>2. /\ Insert(p, pw, isLate) /\ revoked' = revoked \cup T /\ killed' = killed \cup T
      /\ pw = password'
  BY DEF Reset, SignOut
<1> HIDE DEF T, isLate, p
<1> QED
  BY <1>1, <1>2, RowInsert

-----------------------------------------------------------------------------
(* Requests.  What a request holds stays true of the rows, or it is marked *)
(* as overtaken.                                                           *)

\* What the inductive invariant says of requests.
RequestInv == FreshReads /\ ReuseReads /\ FreshProofs /\ PastTheGate

(***************************************************************************)
(* Rows change under requests that do not move: those that had read one of *)
(* the rows T, and when the password changes those that had checked it,    *)
(* are marked.                                                             *)
(***************************************************************************)
LEMMA RequestsOvertaken ==
  ASSUME TypeOK, RequestInv, NEW Moved \in SUBSET Requests, NEW T \in SUBSET Tokens,
         Tokens \subseteq Tokens', revoked' = revoked \cup T, gone' \subseteq revoked',
         \A q \in Requests \ Moved : pc'[q] = pc[q] /\ arg'[q] = arg[q],
         \A q \in Moved : pc'[q] = "idle",
         (stale \cup Readers(T)) \ Moved \subseteq stale',
         password' = password \/ Verified \ Moved \subseteq stale',
         blocked' # {} => blocked # {} /\ graced \ Moved \subseteq graced'
  PROVE  RequestInv'
<1>1. FreshReads'
  <2>1. ASSUME NEW q \in Requests \ stale', pc'[q] \in {"gate", "rotate"} PROVE arg'[q] \in Live'
    <3>1. q \notin Moved /\ q \notin stale /\ q \notin Readers(T)
          /\ pc[q] \in {"gate", "rotate"} /\ arg'[q] = arg[q]
      BY <2>1
    <3>2. arg[q] \in Live /\ arg[q] \notin T
      BY <3>1 DEF RequestInv, FreshReads, Readers
    <3> QED
      BY <3>1, <3>2 DEF Live
  <2> QED
    BY <2>1 DEF FreshReads
<1>2. ReuseReads'
  BY DEF RequestInv, ReuseReads
<1>3. FreshProofs'
  BY DEF RequestInv, FreshProofs, Verified
<1>4. PastTheGate'
  BY DEF RequestInv, PastTheGate
<1> QED
  BY <1>1, <1>2, <1>3, <1>4 DEF RequestInv

\* Request r passes, or fails, the gate between two of its labels.
LEMMA RequestGate ==
  ASSUME TypeOK, RequestInv, NEW r \in Requests, NEW from, NEW to, Gate(r, from, to),
         <<from, to>> \in {<<"grantGate", "grant">>, <<"gate", "rotate">>}
  PROVE  RequestInv'
<1>1. UNCHANGED <<revoked, gone, password, blocked>> /\ Tokens' = Tokens /\ Live' = Live
  BY DEF Gate, rowVars, Tokens, Live
<1>2. CASE Eligible
  <2>1. /\ pc' = [pc EXCEPT ![r] = to] /\ arg' = [arg EXCEPT ![r] = arg[r]]
        /\ stale' = stale /\ pc[r] = from /\ blocked' = {}
    BY <1>1, <1>2 DEF Gate, Goto, Eligible
  <2> QED
    BY <1>1, <2>1 DEF TypeOK, RequestInv, FreshReads, ReuseReads, FreshProofs, PastTheGate
<1>3. CASE ~Eligible
  <2>1. /\ pc' = [pc EXCEPT ![r] = "idle"] /\ arg' = [arg EXCEPT ![r] = 0]
        /\ stale' = stale \ {r} /\ graced' = graced \ {r}
    BY <1>3 DEF Gate, Goto, Done
  <2> QED
    BY <1>1, <2>1 DEF TypeOK, RequestInv, FreshReads, ReuseReads, FreshProofs, PastTheGate
<1> QED
  BY <1>2, <1>3

\* Request r takes a first or a second step that reads: rows stay as they are.
LEMMA RequestReads ==
  ASSUME TypeOK, RequestInv, NEW r \in Requests, NEW label, NEW a, Goto(r, label, a),
         UNCHANGED <<issued, revoked, password, gone, stale, graced>>,
         blocked' \subseteq blocked,
         label \in {"activate", "grantGate", "gate", "reuse", "change"},
         label = "gate" => a \in Live,
         label = "reuse" => a \in revoked,
         label \in {"activate", "grantGate"} => a = password \/ r \in stale
  PROVE  RequestInv'
<1>1. /\ pc' = [pc EXCEPT ![r] = label] /\ arg' = [arg EXCEPT ![r] = a]
      /\ Live' = Live
  BY DEF Goto, Live, Tokens
<1>2. FreshReads' /\ ReuseReads'
  BY <1>1 DEF TypeOK, RequestInv, FreshReads, ReuseReads
<1>3. FreshProofs'
  BY <1>1 DEF TypeOK, RequestInv, FreshProofs
<1>4. PastTheGate'
  BY <1>1 DEF TypeOK, RequestInv, PastTheGate
<1> QED
  BY <1>2, <1>3, <1>4 DEF RequestInv

-----------------------------------------------------------------------------
(* The inductive invariant.                                                *)

LEMMA Parts == IInv <=> TypeOK /\ RowInv /\ RequestInv
  BY DEF IInv, RowInv, RequestInv

LEMMA InvInit == Init => IInv
<1> SUFFICES ASSUME Init PROVE IInv
  OBVIOUS
<1>1. TypeOK
  BY TypeInit
<1>2. issued = 0 /\ Tokens = {} /\ pc = [r \in Requests |-> "idle"] /\ gone = {}
  BY DEF Init, Tokens
<1> QED
  BY <1>1, <1>2 DEF IInv, ParentsFirst, FreshReads, ReuseReads, FreshProofs, HeirsOut, PastTheGate,
                    RedeemedOnce, SurvivorsAreCurrent, Live

\* The steps of a request of several statements.
LEMMA InvRequest ==
  ASSUME TypeOK, RowInv, RequestInv, NEW r \in Requests, RequestStep(r)
  PROVE  RowInv' /\ RequestInv'
<1>1. CASE PasswordRead(r)
  <2>1. Goto(r, "grantGate", password) /\ UNCHANGED <<rowVars, boundVars, historyVars>>
    BY <1>1 DEF PasswordRead
  <2> QED
    BY <2>1, RowQuiet, RequestReads DEF rowVars, historyVars
<1>2. CASE ProviderProof(r)
  <2>1. /\ Goto(r, "activate", password) /\ blocked' \subseteq blocked
        /\ UNCHANGED <<issued, revoked, parent, password, link, boundVars, historyVars>>
    BY <1>2 DEF ProviderProof
  <2> QED
    BY <2>1, RowQuiet, RequestReads DEF historyVars
<1>3. CASE ProviderActivate(r)
  <2>1. /\ Goto(r, "grantGate", arg[r]) /\ blocked' \subseteq blocked /\ pc[r] = "activate"
        /\ UNCHANGED <<issued, revoked, parent, password, link, boundVars, historyVars>>
    BY <1>3 DEF ProviderActivate
  <2>2. arg[r] = password \/ r \in stale
    BY <2>1 DEF RequestInv, FreshProofs
  <2> QED
    BY <2>1, <2>2, RowQuiet, RequestReads DEF historyVars
<1>4. CASE GrantGate(r)
  <2>1. Gate(r, "grantGate", "grant")
    BY <1>4 DEF GrantGate
  <2>2. UNCHANGED <<issued, revoked, parent, password, killed, late, proof, gone>>
    BY <2>1 DEF Gate, rowVars
  <2> QED
    BY <2>1, <2>2, RowQuiet, RequestGate
<1>5. CASE Grant(r)
  <2>1. /\ pc[r] = "grant" /\ Insert(0, arg[r], r \in stale) /\ Goto(r, "idle", 0)
        /\ stale' = stale \ {r} /\ graced' = graced \ {r}
        /\ UNCHANGED <<revoked, password, blocked, link, boundVars, killed, gone>>
    BY <1>5 DEF Grant, Done
  <2>2. arg[r] \in Passwords \cup {NoPassword} /\ (r \notin stale => arg[r] = password)
    BY <2>1 DEF TypeOK, RequestInv, FreshProofs
  <2>3. RowInv'
    <3> DEFINE T == {}
               isLate == r \in stale
               p == 0
    <3>1. /\ revoked' = revoked \cup T /\ killed' = killed \cup T /\ T \in SUBSET Live
          /\ T \in SUBSET T /\ p \notin T /\ p \in {0} \cup Tokens /\ p = 0
          /\ isLate \in BOOLEAN /\ Insert(p, arg[r], isLate) /\ ReuseReads
          /\ (~isLate => arg[r] = password') /\ password' = password /\ gone' = gone
      BY <2>1, <2>2 DEF RequestInv
    <3> HIDE DEF T, isLate, p
    <3> QED
      BY <2>2, <3>1, RowInsert
  <2>4. RequestInv'
    <3> DEFINE Moved == {r}
               T == {}
    <3>1. /\ Tokens \subseteq Tokens' /\ revoked' = revoked \cup T /\ gone' \subseteq revoked'
          /\ Moved \in SUBSET Requests /\ T \in SUBSET Tokens /\ Readers(T) = {}
      BY <2>1 DEF TypeOK, Insert, Tokens, RequestInv, ReuseReads, Readers
    <3>2. /\ \A q \in Requests \ Moved : pc'[q] = pc[q] /\ arg'[q] = arg[q]
          /\ \A q \in Moved : pc'[q] = "idle"
      BY <2>1 DEF TypeOK, Goto
    <3>3. /\ (stale \cup Readers(T)) \ Moved \subseteq stale' /\ password' = password
          /\ blocked' # {} => blocked # {} /\ graced \ Moved \subseteq graced'
      BY <2>1, <3>1
    <3> HIDE DEF Moved, T
    <3> QED
      BY <3>1, <3>2, <3>3, RequestsOvertaken
  <2> QED
    BY <2>3, <2>4
<1>6. ASSUME NEW t \in Tokens, RefreshRead(r, t) PROVE RowInv' /\ RequestInv'
  <2>1. /\ Goto(r, IF t \in revoked THEN "reuse" ELSE "gate", t)
        /\ UNCHANGED <<rowVars, boundVars, historyVars>>
    BY <1>6 DEF RefreshRead
  <2>2. RowInv'
    BY <2>1, RowQuiet DEF rowVars, historyVars
  <2>3. CASE t \in revoked
    BY <2>1, <2>2, <2>3, RequestReads DEF rowVars, historyVars
  <2>4. CASE t \notin revoked
    <3>1. t \in Live
      BY <2>4 DEF Live
    <3> QED
      BY <2>1, <2>2, <2>4, <3>1, RequestReads DEF rowVars, historyVars
  <2> QED
    BY <2>3, <2>4
<1>7. CASE ReuseRevoke(r)
  <2> DEFINE D == Family(Children(arg[r]))
  <2>1. D \in SUBSET Tokens /\ \A c \in Tokens : parent[c] = arg[r] \/ parent[c] \in D => c \in D
    <3>1. Children(arg[r]) \in SUBSET Tokens
      BY DEF Children
    <3> QED
      BY <3>1, FamilyIssued, FamilyStarts, FamilyClosed DEF Children
  <2>2. RevokeReused(r, D)
    BY <1>7 DEF ReuseRevoke
  <2> HIDE DEF D
  <2>3. /\ pc[r] = "reuse" /\ revoked' = revoked \cup D /\ killed' = killed \cup D
        /\ stale' = stale \cup Readers(D) /\ gone' = gone \cup {arg[r]} /\ Goto(r, "idle", 0)
        /\ UNCHANGED <<issued, parent, password, blocked, link, boundVars, late, graced, proof>>
    BY <2>2 DEF RevokeReused, SignOut, Done
  <2>4. RowInv'
    <3> DEFINE G == {arg[r]}
    <3>1. \A c \in Tokens : parent[c] \in D \cup G => c \in killed \cup D \cup late
      BY <2>1
    <3>2. gone' = gone \cup G
      BY <2>3
    <3> HIDE DEF G
    <3> QED
      BY <2>3, <3>1, <3>2, RowSignOut
  <2>5. RequestInv'
    <3> DEFINE Moved == {r}
    <3>1. /\ Tokens \subseteq Tokens' /\ gone' \subseteq revoked' /\ Moved \in SUBSET Requests
      BY <2>3 DEF Tokens, RequestInv, ReuseReads
    <3>2. /\ \A q \in Requests \ Moved : pc'[q] = pc[q] /\ arg'[q] = arg[q]
          /\ \A q \in Moved : pc'[q] = "idle"
      BY <2>3 DEF TypeOK, Goto
    <3> HIDE DEF Moved
    <3> QED
      BY <2>1, <2>3, <3>1, <3>2, RequestsOvertaken
  <2> QED
    BY <2>4, <2>5
<1>8. CASE RefreshGate(r)
  <2>1. Gate(r, "gate", "rotate")
    BY <1>8 DEF RefreshGate
  <2>2. UNCHANGED <<issued, revoked, parent, password, killed, late, proof, gone>>
    BY <2>1 DEF Gate, rowVars
  <2> QED
    BY <2>1, <2>2, RowQuiet, RequestGate
<1>9. CASE Rotate(r)
  <2> DEFINE t == arg[r]
             isLate == r \in stale \/ t \in late
             T == {t}
  <2>1. /\ pc[r] = "rotate" /\ Insert(t, proof[t], isLate) /\ revoked' = revoked \cup T
        /\ stale' = (stale \cup Readers(T)) \ {r} /\ graced' = graced \ {r} /\ Goto(r, "idle", 0)
        /\ UNCHANGED <<password, blocked, link, boundVars, killed, gone>>
    BY <1>9 DEF Rotate, RotateInto, Done
  <2>2. /\ t \in Tokens /\ (r \notin stale => t \in Live) /\ proof[t] \in Passwords \cup {NoPassword}
        /\ ~isLate => proof[t] = password
    <3>1. t \in Tokens
      BY <2>1 DEF TypeOK
    <3>2. r \notin stale => t \in Live
      BY <2>1 DEF RequestInv, FreshReads
    <3>3. proof[t] \in Passwords \cup {NoPassword}
      BY <3>1, SessionAssumption DEF TypeOK, Tokens, Ids
    <3>4. ~isLate => proof[t] = password
      BY <3>2 DEF RowInv, SurvivorsAreCurrent
    <3> QED
      BY <3>1, <3>2, <3>3, <3>4
  <2>3. RowInv'
    <3> DEFINE L == T \cap Live
               K == {}
    <3>1. revoked' = revoked \cup L
      BY <2>1, <2>2 DEF Live
    <3>2. /\ L \in SUBSET Live /\ K \in SUBSET L /\ t \notin K /\ killed' = killed \cup K
          /\ isLate \in BOOLEAN /\ t \in revoked' /\ t \in {0} \cup Tokens
          /\ ReuseReads /\ (t \in late => isLate) /\ (~isLate => t \in Live)
      BY <2>1, <2>2 DEF RequestInv
    <3> HIDE DEF L, K, T, isLate, t
    <3> QED
      BY <2>1, <2>2, <3>1, <3>2, RowInsert
  <2>4. RequestInv'
    <3> DEFINE Moved == {r}
    <3>1. /\ Tokens \subseteq Tokens' /\ gone' \subseteq revoked' /\ Moved \in SUBSET Requests
          /\ T \in SUBSET Tokens
      BY <2>1, <2>2 DEF TypeOK, Insert, Tokens, RequestInv, ReuseReads
    <3>2. /\ \A q \in Requests \ Moved : pc'[q] = pc[q] /\ arg'[q] = arg[q]
          /\ \A q \in Moved : pc'[q] = "idle"
      BY <2>1 DEF TypeOK, Goto
    <3>3. /\ (stale \cup Readers(T)) \ Moved \subseteq stale' /\ password' = password
          /\ blocked' # {} => blocked # {} /\ graced \ Moved \subseteq graced'
      BY <2>1
    <3> HIDE DEF Moved, T
    <3> QED
      BY <2>1, <3>1, <3>2, <3>3, RequestsOvertaken
  <2> QED
    BY <2>3, <2>4
<1>10. ASSUME NEW new \in Passwords, ChangeRead(r, new) PROVE RowInv' /\ RequestInv'
  <2>1. Goto(r, "change", new) /\ UNCHANGED <<rowVars, boundVars, historyVars>>
    BY <1>10 DEF ChangeRead
  <2> QED
    BY <2>1, RowQuiet, RequestReads DEF rowVars, historyVars
<1>11. CASE ChangeCommit(r)
  <2>1. /\ Eligible /\ Reset(arg[r], Live) /\ arg[r] \in Passwords \cup {NoPassword}
        /\ stale' = (stale \cup Verified \cup Readers(Live)) \ {r} /\ Goto(r, "idle", 0)
        /\ UNCHANGED <<blocked, gone>>
    BY <1>11 DEF ChangeCommit, Done, TypeOK
  <2>2. RowInv'
    BY <2>1, RowReset DEF RequestInv
  <2>3. RequestInv'
    <3> DEFINE Moved == {r}
               T == Live
    <3>1. /\ Tokens \subseteq Tokens' /\ gone' \subseteq revoked' /\ Moved \in SUBSET Requests
          /\ T \in SUBSET Tokens /\ revoked' = revoked \cup T
      BY <2>1 DEF TypeOK, Reset, SignOut, Insert, Tokens, RequestInv, ReuseReads, Live
    <3>2. /\ \A q \in Requests \ Moved : pc'[q] = pc[q] /\ arg'[q] = arg[q]
          /\ \A q \in Moved : pc'[q] = "idle"
      BY <2>1 DEF TypeOK, Goto
    <3>3. /\ (stale \cup Readers(T)) \ Moved \subseteq stale' /\ Verified \ Moved \subseteq stale'
          /\ blocked' = {}
      BY <2>1 DEF Eligible
    <3> HIDE DEF Moved, T
    <3> QED
      BY <3>1, <3>2, <3>3, RequestsOvertaken
  <2> QED
    BY <2>2, <2>3
<1>12. CASE ChangeRefused(r)
  <2>1. /\ Goto(r, "idle", 0) /\ stale' = stale \ {r}
        /\ UNCHANGED <<rowVars, boundVars, killed, late, graced, proof, gone>>
    BY <1>12 DEF ChangeRefused, Done
  <2>2. RowInv'
    BY <2>1, RowQuiet DEF rowVars
  <2>3. RequestInv'
    BY <2>1 DEF TypeOK, RequestInv, FreshReads, ReuseReads, FreshProofs, PastTheGate, Goto,
                rowVars, Live, Tokens
  <2> QED
    BY <2>2, <2>3
<1> QED
  BY <1>1, <1>2, <1>3, <1>4, <1>5, <1>6, <1>7, <1>8, <1>9, <1>10, <1>11, <1>12 DEF RequestStep

\* The steps of one statement, or of one transaction.
LEMMA InvOthers ==
  ASSUME TypeOK, RowInv, RequestInv, Next, ~ \E r \in Requests : RequestStep(r)
  PROVE  RowInv' /\ RequestInv'
<1> DEFINE NoOne == {}
<1>1. NoOne \in SUBSET Requests /\ \A q \in NoOne : pc'[q] = "idle"
  OBVIOUS
\* Rows are revoked and no request moves.
<1>2. ASSUME NEW T \in SUBSET Tokens, NEW K \in SUBSET T,
             revoked' = revoked \cup T, killed' = killed \cup K, stale' = stale \cup Readers(T),
             UNCHANGED <<issued, parent, password, blocked, link, requestVars, late, graced, proof, gone>>,
             \A c \in Tokens : parent[c] \in K => c \in killed \cup K \cup late
      PROVE  RowInv' /\ RequestInv'
  <2>1. RowInv'
    <3> DEFINE G == {}
    <3>1. gone' = gone \cup G /\ \A c \in Tokens : parent[c] \in K \cup G => c \in killed \cup K \cup late
      BY <1>2
    <3>2. UNCHANGED <<issued, parent, password, late, proof>>
      BY <1>2
    <3>3. revoked' = revoked \cup T /\ killed' = killed \cup K
      BY <1>2
    <3> HIDE DEF G, NoOne
    <3> QED
      BY <3>1, <3>2, <3>3, RowSignOut
  <2>2. Tokens \subseteq Tokens' /\ gone' \subseteq revoked'
    BY <1>2 DEF Tokens, RequestInv, ReuseReads
  <2>3. /\ \A q \in Requests \ NoOne : pc'[q] = pc[q] /\ arg'[q] = arg[q]
        /\ (stale \cup Readers(T)) \ NoOne \subseteq stale' /\ password' = password
        /\ blocked' # {} => blocked # {} /\ graced \ NoOne \subseteq graced'
    BY <1>2 DEF requestVars
  <2> HIDE DEF NoOne
  <2> QED
    BY <1>1, <1>2, <2>1, <2>2, <2>3, RequestsOvertaken
<1>3. \A c \in Tokens : parent[c] \notin Live
  BY DEF RowInv, RedeemedOnce, Live, Tokens
<1>4. ASSUME NEW t \in Tokens, LogoutLocal(t) PROVE RowInv' /\ RequestInv'
  <2> DEFINE T == Family({t})
  <2>1. T \in SUBSET Tokens /\ T \in SUBSET T /\ \A c \in Tokens : parent[c] \in T => c \in T
    BY FamilyIssued, FamilyClosed
  <2>2. SignOutSet(T)
    BY <1>4 DEF LogoutLocal
  <2> HIDE DEF T, NoOne
  <2> QED
    BY <1>2, <2>1, <2>2 DEF SignOutSet, SignOut
<1>5. ASSUME NEW T \in SUBSET Live, SignOutSet(T) PROVE RowInv' /\ RequestInv'
  <2>1. T \in SUBSET Tokens /\ T \in SUBSET T /\ \A c \in Tokens : parent[c] \notin T
    BY <1>3 DEF Live
  <2> HIDE DEF NoOne
  <2> QED
    BY <1>2, <1>5, <2>1 DEF SignOutSet, SignOut
<1>6. ASSUME NEW t \in Tokens, LogoutOthers(t) PROVE RowInv' /\ RequestInv'
  BY <1>5, <1>6 DEF LogoutOthers
<1>7. CASE LogoutGlobal
  BY <1>5, <1>7 DEF LogoutGlobal
<1>8. ASSUME NEW t \in Tokens, RevokeRow(t) PROVE RowInv' /\ RequestInv'
  <2> DEFINE T == {t}
             K == {t} \cap Live
  <2>1. T \in SUBSET Tokens /\ K \in SUBSET T /\ \A c \in Tokens : parent[c] \notin K
    BY <1>3
  <2>2. /\ revoked' = revoked \cup T /\ killed' = killed \cup K /\ stale' = stale \cup Readers(T)
        /\ UNCHANGED <<issued, parent, password, blocked, link, requestVars, late, graced, proof, gone>>
    BY <1>8 DEF RevokeRow
  <2> HIDE DEF T, K, NoOne
  <2> QED
    BY <1>2, <2>1, <2>2
\* Neither rows nor requests change.
<1>9. ASSUME UNCHANGED <<issued, revoked, parent, password, requestVars, killed, late, stale, proof, gone>>,
             blocked' \subseteq blocked, graced' = graced
      PROVE  RowInv' /\ RequestInv'
  <2>1. RowInv'
    BY <1>9, RowQuiet
  <2>2. Live' = Live
    BY <1>9 DEF Live, Tokens
  <2> QED
    BY <1>9, <2>1, <2>2 DEF RequestInv, FreshReads, ReuseReads, FreshProofs, PastTheGate, requestVars
<1>11. ASSUME NEW l \in Links,
              Mail(l, "recover") \/ Mail(l, "signin") \/ Expire(l)
       PROVE  RowInv' /\ RequestInv'
  BY <1>9, <1>11 DEF Mail, Expire, historyVars
<1>12. ASSUME NEW l \in Links, VerifySignin(l) PROVE RowInv' /\ RequestInv'
  <2> DEFINE T == {}
             isLate == FALSE
             p == 0
  <2>1. /\ Insert(p, password, isLate) /\ blocked' = {} /\ isLate \in BOOLEAN /\ ~isLate /\ p = 0
        /\ UNCHANGED <<revoked, password, requestVars, killed, stale, graced, gone>>
        /\ p \in {0} \cup Tokens /\ p \notin T /\ T \in SUBSET T /\ T \in SUBSET Live
        /\ revoked' = revoked \cup T /\ killed' = killed \cup T /\ ReuseReads
        /\ password \in Passwords \cup {NoPassword}
    BY <1>12 DEF VerifySignin, RequestInv, TypeOK
  <2>2. /\ Tokens \subseteq Tokens' /\ gone' \subseteq revoked' /\ T \in SUBSET Tokens
        /\ (stale \cup Readers(T)) \ NoOne \subseteq stale'
        /\ \A q \in Requests \ NoOne : pc'[q] = pc[q] /\ arg'[q] = arg[q]
    BY <2>1 DEF Insert, Tokens, TypeOK, RequestInv, ReuseReads, Readers, requestVars
  <2> HIDE DEF T, isLate, p, NoOne
  <2>3. RowInv'
    BY <2>1, RowInsert
  <2>4. RequestInv'
    BY <1>1, <2>1, <2>2, RequestsOvertaken
  <2> QED
    BY <2>3, <2>4
<1>13. ASSUME NEW l \in Links, NEW new \in Passwords, VerifyRecover(l, new)
       PROVE  RowInv' /\ RequestInv'
  <2>1. /\ Reset(new, Live) /\ stale' = stale \cup Verified \cup Readers(Live) /\ blocked' = {}
        /\ UNCHANGED <<requestVars, graced, gone>> /\ new \in Passwords \cup {NoPassword}
    BY <1>13 DEF VerifyRecover, RecoverWith
  <2>2. RowInv'
    BY <2>1, RowReset DEF RequestInv
  <2> DEFINE T == Live
  <2>3. /\ Tokens \subseteq Tokens' /\ gone' \subseteq revoked' /\ T \in SUBSET Tokens
        /\ revoked' = revoked \cup T /\ Verified \ NoOne \subseteq stale'
        /\ (stale \cup Readers(T)) \ NoOne \subseteq stale'
        /\ \A q \in Requests \ NoOne : pc'[q] = pc[q] /\ arg'[q] = arg[q]
    BY <2>1 DEF Reset, SignOut, Insert, Tokens, Live, TypeOK, RequestInv, ReuseReads, requestVars
  <2> HIDE DEF T, NoOne
  <2>4. RequestInv'
    BY <1>1, <2>1, <2>3, RequestsOvertaken
  <2> QED
    BY <2>2, <2>4
<1>14. CASE Ban
  <2>1. UNCHANGED <<issued, revoked, parent, password, requestVars, killed, late, stale, proof, gone>>
        /\ graced' = graced \cup {r \in Requests : pc[r] \in {"grant", "rotate"}}
    BY <1>14 DEF Ban
  <2>2. RowInv'
    BY <2>1, RowQuiet
  <2>3. Live' = Live
    BY <2>1 DEF Live, Tokens
  <2>4. RequestInv'
    BY <2>1, <2>3 DEF RequestInv, FreshReads, ReuseReads, FreshProofs, PastTheGate, requestVars
  <2> QED
    BY <2>2, <2>4
<1>15. CASE Unban \/ ActivateUser
  BY <1>9, <1>15 DEF Unban, ActivateUser, historyVars
<1> QED
  BY <1>4, <1>6, <1>7, <1>8, <1>11, <1>12, <1>13, <1>14, <1>15 DEF Next

LEMMA InvNext == IInv /\ [Next]_vars => IInv'
<1> SUFFICES ASSUME TypeOK, RowInv, RequestInv, [Next]_vars
             PROVE  TypeOK' /\ RowInv' /\ RequestInv'
  BY Parts DEF IInv, RowInv, RequestInv
<1>1. TypeOK'
  BY TypeNext
<1>2. CASE UNCHANGED vars
  <2>1. RowInv'
    BY <1>2, RowQuiet DEF vars, rowVars, historyVars
  <2>2. RequestInv'
    BY <1>2 DEF RequestInv, FreshReads, ReuseReads, FreshProofs, PastTheGate, Live, Tokens,
                vars, rowVars, requestVars, historyVars
  <2> QED
    BY <1>1, <2>1, <2>2
<1>3. CASE Next /\ ~ \E r \in Requests : RequestStep(r)
  BY <1>1, <1>3, InvOthers
<1>4. ASSUME NEW r \in Requests, RequestStep(r) PROVE RowInv' /\ RequestInv'
  BY <1>4, InvRequest
<1> QED
  BY <1>1, <1>2, <1>3, <1>4

(***************************************************************************)
(* The types, the meaning of what requests have read, and the order of     *)
(* generations hold in every reachable state.                              *)
(***************************************************************************)
THEOREM Invariance == Spec => []IInv
  BY InvInit, InvNext, PTL DEF Spec

-----------------------------------------------------------------------------
(* What follows.                                                           *)

(***************************************************************************)
(* Rotation: one successor, and a revoked parent, but for readers that     *)
(* were overtaken.                                                         *)
(***************************************************************************)
THEOREM RedeemedOnceCorrect == Spec => []RedeemedOnce
<1>1. IInv => RedeemedOnce
  BY DEF IInv
<1> QED
  BY <1>1, Invariance, PTL

(***************************************************************************)
(* A password change, or a recovery, leaves no session of an earlier       *)
(* password, but for requests that had already checked it.                 *)
(***************************************************************************)
THEOREM SurvivorsAreCurrentCorrect == Spec => []SurvivorsAreCurrent
<1>1. IInv => SurvivorsAreCurrent
  BY DEF IInv
<1> QED
  BY <1>1, Invariance, PTL

(***************************************************************************)
(* A sign-out ends the whole family of what it signs out, at any distance. *)
(***************************************************************************)
THEOREM SignedOutStaysOutCorrect == Spec => []SignedOutStaysOut
<1>1. ASSUME IInv PROVE SignedOutStaysOut
  <2> DEFINE S == killed \cup late
  <2>1. killed \subseteq revoked /\ revoked \subseteq Tokens /\ late \subseteq Tokens
    BY <1>1 DEF IInv, TypeOK
  <2>2. S \in SUBSET Tokens /\ killed \subseteq S /\ \A c \in Tokens : parent[c] \in S => c \in S
    BY <1>1, <2>1 DEF IInv, HeirsOut
  <2>3. Family(killed) \subseteq S
    <3> HIDE DEF S
    <3> QED
      BY <2>2, FamilyLeast
  <2> QED
    BY <2>1, <2>3 DEF SignedOutStaysOut, Live
<1> QED
  BY <1>1, Invariance, PTL

(***************************************************************************)
(* The detection of a reuse ends every heir of the token that was reused.  *)
(***************************************************************************)
THEOREM ReuseIsContainedCorrect == Spec => []ReuseIsContained
<1>1. ASSUME IInv PROVE ReuseIsContained
  <2> DEFINE S == gone \cup killed \cup late
  <2>1. /\ killed \subseteq revoked /\ gone \subseteq revoked /\ revoked \subseteq Tokens
        /\ late \subseteq Tokens
    BY <1>1 DEF IInv, TypeOK, ReuseReads
  <2>2. S \in SUBSET Tokens /\ gone \subseteq S /\ \A c \in Tokens : parent[c] \in S => c \in S
    BY <1>1, <2>1 DEF IInv, HeirsOut
  <2>3. Family(gone) \subseteq S
    <3> HIDE DEF S
    <3> QED
      BY <2>2, FamilyLeast
  <2> QED
    BY <2>1, <2>3 DEF ReuseIsContained, Live
<1> QED
  BY <1>1, Invariance, PTL

\* Only these statements insert a row.
LEMMA WhoInserts ==
  ASSUME Next, issued' # issued
  PROVE  \/ \E r \in Requests : Grant(r) \/ Rotate(r) \/ ChangeCommit(r)
         \/ \E l \in Links : VerifySignin(l) \/ \E new \in Passwords : VerifyRecover(l, new)
<1>1. ASSUME NEW r \in Requests, RequestStep(r) PROVE Grant(r) \/ Rotate(r) \/ ChangeCommit(r)
  BY <1>1 DEF RequestStep, PasswordRead, ProviderProof, ProviderActivate, GrantGate, RefreshRead,
              ReuseRevoke, RevokeReused, RefreshGate, Gate, ChangeRead, ChangeRefused, rowVars
<1> QED
  BY <1>1 DEF Next, LogoutLocal, LogoutOthers, LogoutGlobal, SignOutSet, RevokeRow,
              Mail, Expire, Ban, Unban, ActivateUser, rowVars

(***************************************************************************)
(* The gate: no session is issued to a refused account, except by the      *)
(* requests that were past the gate when a ban fell.                       *)
(***************************************************************************)
THEOREM NoSessionWhileBlockedCorrect == Spec => NoSessionWhileBlocked
<1>1. ASSUME IInv, Next, issued' # issued, blocked' # {}
      PROVE  \E r \in graced : pc[r] \in {"grant", "rotate"} /\ pc'[r] = "idle"
  <2>1. PICK r \in Requests : Grant(r) \/ Rotate(r)
    BY <1>1, WhoInserts DEF ChangeCommit, Eligible, VerifySignin, VerifyRecover, RecoverWith
  <2>2. pc[r] \in {"grant", "rotate"} /\ pc' = [pc EXCEPT ![r] = "idle"] /\ blocked' = blocked
    BY <2>1 DEF Grant, Rotate, RotateInto, Done, Goto
  <2>3. r \in graced
    BY <1>1, <2>2 DEF IInv, PastTheGate
  <2>4. pc'[r] = "idle"
    BY <1>1, <2>2 DEF IInv, TypeOK
  <2> QED
    BY <2>2, <2>3, <2>4
<1>2. IInv /\ [Next]_vars =>
        [issued' # issued /\ blocked' # {}
           => \E r \in graced : pc[r] \in {"grant", "rotate"} /\ pc'[r] = "idle"]_vars
  BY <1>1
<1> QED
  BY <1>2, Invariance, PTL DEF Spec, NoSessionWhileBlocked

\* Only a recovery sets the password and takes a mail along.
LEMMA WhoResets ==
  ASSUME Next, resets' # resets, link' # link
  PROVE  \E l \in Links, new \in Passwords : VerifyRecover(l, new)
<1>1. ASSUME NEW r \in Requests, RequestStep(r) PROVE FALSE
  BY <1>1 DEF RequestStep, PasswordRead, ProviderProof, ProviderActivate, GrantGate, Grant,
              RefreshRead, ReuseRevoke, RevokeReused, RefreshGate, Gate, Rotate, RotateInto,
              ChangeRead, ChangeCommit, ChangeRefused, rowVars, boundVars
<1> QED
  BY <1>1 DEF Next, LogoutLocal, LogoutOthers, LogoutGlobal, SignOutSet, RevokeRow,
              Mail, Expire, VerifySignin, Ban, Unban, ActivateUser, rowVars, boundVars

(***************************************************************************)
(* verify_recover: whoever completes a recovery kills every other recovery *)
(* that was pending, for any number of mails.                              *)
(***************************************************************************)
THEOREM OneRecoveryEachCorrect == Spec => OneRecoveryEach
<1>1. ASSUME Next, resets' # resets, link' # link, NEW l \in Links, link[l] = "recover"
      PROVE  link'[l] = "dead"
  BY <1>1, WhoResets DEF VerifyRecover, RecoverWith
<1>2. [Next]_vars =>
        [\A l \in Links : link[l] = "recover" /\ resets' # resets /\ link' # link
                              => link'[l] = "dead"]_vars
  BY <1>1
<1> QED
  BY <1>2, PTL DEF Spec, OneRecoveryEach

=============================================================================
