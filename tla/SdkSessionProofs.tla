-------------------------- MODULE SdkSessionProofs --------------------------
(***************************************************************************)
(* Proofs about SdkSession, for any users, any calls and any number of     *)
(* pairs of tokens and of mishaps.  The type of the variables comes first  *)
(* (TypeInv, where an answer under way says what it must hold for its      *)
(* place) and then, each on top of it, that the stored copy and what was   *)
(* read of it are pairs (StoreInv), what the listeners are still to hear   *)
(* (QueueInv), what signOut left behind (OutInv), and who waits for whom   *)
(* (WaitersAreServed).                                                     *)
(*                                                                         *)
(* The action properties need more about the tokens under way (StepsInv):  *)
(* a pair in an unread answer is nowhere else (FreshInv), what the client  *)
(* holds or presents is live unless excused (RotationInv), one 401 at a    *)
(* time refreshes (StarterInv), who waits for the listeners has something  *)
(* to be announced (EmitInv), and what a repeated request carried first is *)
(* neither in the session nor in what may come back to it (RetryInv).      *)
(***************************************************************************)
EXTENDS SdkSession, SequenceTheorems, TLAPS

-----------------------------------------------------------------------------
(* What each part of the state is made of.                                 *)

\* Announcements of sessions among the first n.
Changes(n) == Seq([call : Calls, session : 0 .. n])

\* The server's rows: whatever it knows of a pair, it issued the pair.
ServerOK ==
    /\ issued \in 0 .. MaxPairs
    /\ parent \in [Pairs -> 0 .. MaxPairs]
    /\ owner \in [Pairs -> Users \cup {NoUser}]
    /\ \A n \in Issued : owner[n] \in Users
    /\ revoked \subseteq Issued /\ excused \subseteq Issued
    /\ horizon \in 0 .. issued
    /\ renamed \subseteq Users
    /\ mishaps \in 0 .. MaxMishaps

\* The client holds nothing that the server has not issued.
ClientOK ==
    /\ access \in 0 .. issued /\ refresh \in 0 .. issued
    /\ cached \in {NoUser} \cup Users \X BOOLEAN
    /\ stored \in (0 .. issued) \X (0 .. issued)
    /\ socket \in 0 .. issued
    /\ starter \in Calls \cup {NoCall}
    /\ announce \in Changes(issued)
    /\ reading \in (0 .. issued) \X (0 .. issued)
    /\ out \in {"no", "asked", "overtaken"}
    /\ carried \subseteq Calls
    /\ recalled \in BOOLEAN /\ crossed \in BOOLEAN

\* What a call has in hand, by the place it is at and the answer it waits for.
CallOK(c) ==
    /\ arg[c] \in 0 .. issued \/ (at[c] = "token" /\ arg[c] \in Users)
    /\ tried[c] \in 0 .. issued
    /\ at[c] = "token" /\ ans[c] \in {"none", "refused", "pending"} => arg[c] \in Users
    /\ at[c] = "token" /\ ans[c] \in Good => arg[c] \in Issued
    /\ at[c] = "refresh" /\ ans[c] # "network" => arg[c] \in Issued
    /\ at[c] = "refresh" /\ ans[c] \in Good => parent[arg[c]] \in Issued
    /\ at[c] = "refresh" => op[c] \in {"refresh", "rest"}
    /\ at[c] \in {"user", "logout"} /\ ans[c] # "network" => arg[c] \in Issued
    /\ at[c] = "emit" /\ op[c] = "signOut" => arg[c] \in Issued
    /\ at[c] \in {"rest", "join"} => op[c] = "rest"
    /\ at[c] = "token" => op[c] = "signIn"
    /\ at[c] = "user" => op[c] = "getUser"

\* The functions themselves, without what their values have to do with each other.
Shape ==
    /\ op \in [Calls -> Ops] /\ at \in [Calls -> Places] /\ ans \in [Calls -> Answers]
    /\ arg \in [Calls -> Nat \cup Users] /\ tried \in [Calls -> Nat]

CallsOK == Shape /\ \A c \in Calls : CallOK(c)

TypeInv == ServerOK /\ ClientOK /\ CallsOK

LEMMA TypeParts == TypeInv => TypeOK
BY SdkAssumption DEF TypeInv, ServerOK, ClientOK, CallsOK, Shape, CallOK, TypeOK, Changes

(***************************************************************************)
(* The server only adds to what a call knows of it.                        *)
(***************************************************************************)
Grows ==
    /\ issued \in Nat /\ issued' \in Nat /\ issued <= issued'
    /\ \A n \in Issued : parent'[n] = parent[n]

LEMMA CallKept ==
    ASSUME Grows, NEW c \in Calls, CallOK(c),
           op'[c] = op[c], at'[c] = at[c], arg'[c] = arg[c], ans'[c] = ans[c],
           tried'[c] = tried[c]
    PROVE  CallOK(c)'
<1>1. /\ \A n \in Issued : n \in Issued'
      /\ \A n \in 0 .. issued : n \in 0 .. issued'
  BY DEF Grows, Issued
<1>2. arg[c] \in Issued => parent'[arg[c]] = parent[arg[c]]
  BY DEF Grows
<1>3. at[c] = "refresh" /\ ans[c] \in Good => arg[c] \in Issued
  BY DEF CallOK, Good
<1>. QED
  BY <1>1, <1>2, <1>3 DEF CallOK

LEMMA OneCall ==
    ASSUME CallsOK, Grows, NEW c \in Calls, Shape', CallOK(c)',
           \A d \in Calls \ {c} : /\ op'[d] = op[d] /\ at'[d] = at[d] /\ arg'[d] = arg[d]
                                  /\ ans'[d] = ans[d] /\ tried'[d] = tried[d]
    PROVE  CallsOK'
BY CallKept DEF CallsOK

LEMMA AnswerShape ==
    ASSUME Shape, NEW c \in Calls, NEW kind \in Answers, NEW a \in Nat \cup Users,
           Answer(c, kind, a)
    PROVE  Shape'
BY DEF Shape, Answer

LEMMA GotoShape ==
    ASSUME Shape, NEW c \in Calls, NEW place \in Places, NEW a \in Nat \cup Users,
           Goto(c, place, a), op' \in [Calls -> Ops], tried' \in [Calls -> Nat]
    PROVE  Shape'
BY DEF Shape, Goto, Answers

LEMMA DoneShape ==
    ASSUME Shape, NEW c \in Calls, Done(c)
    PROVE  Shape'
BY DEF Shape, Done, Goto, Answers, Ops, Places

LEMMA ChangesGrow ==
    ASSUME NEW m \in Nat, NEW n \in Nat, m <= n
    PROVE  Changes(m) \subseteq Changes(n)
<1>1. [call : Calls, session : 0 .. m] \subseteq [call : Calls, session : 0 .. n]
  OBVIOUS
<1>. QED
  BY <1>1, SeqMonotonic DEF Changes

LEMMA ClientGrows ==
    ASSUME ClientOK, Grows, UNCHANGED <<clientVars, outVars, crossed>>
    PROVE  ClientOK'
<1>2. announce \in Changes(issued')
  BY ChangesGrow DEF Grows, ClientOK
<1>3. 0 .. issued \subseteq 0 .. issued'
  BY DEF Grows
<1>. QED
  BY <1>2, <1>3 DEF ClientOK, clientVars, tokenVars, outVars

LEMMA GrantServer ==
    ASSUME ServerOK, NEW c, NEW u \in Users, NEW p \in 0 .. issued, Grant(c, u, p),
           revoked' \subseteq Issued, UNCHANGED <<horizon, renamed, mishaps, excused>>
    PROVE  ServerOK' /\ Grows
<1>. USE SdkAssumption DEF ServerOK, Grant
<1>1. issued' \in 0 .. MaxPairs /\ issued' = issued + 1
  OBVIOUS
<1>2. parent' \in [Pairs -> 0 .. MaxPairs] /\ owner' \in [Pairs -> Users \cup {NoUser}]
  BY DEF Pairs
<1>3. \A n \in Issued' : owner'[n] \in Users
  BY DEF Issued, Pairs
<1>4. revoked' \subseteq Issued' /\ excused' \subseteq Issued'
  BY DEF Issued
<1>5. Grows
  BY DEF Grows, Issued, Pairs
<1>. QED
  BY <1>1, <1>2, <1>3, <1>4, <1>5

LEMMA TellType ==
    ASSUME ServerOK, ClientOK, NEW c \in Calls, NEW a \in 0 .. issued, Tell(c, a)
    PROVE  announce' \in Changes(issued) /\ crossed' \in BOOLEAN
<1>1. crossed' = FALSE /\ announce' = Append(announce, [call |-> c, session |-> a])
  BY DEF Tell
<1>2. announce' \in Changes(issued)
  BY <1>1 DEF ClientOK, Changes
<1>. QED
  BY <1>1, <1>2

LEMMA SessionType ==
    ASSUME ServerOK, ClientOK, issued' = issued,
           NEW a \in 0 .. issued, NEW r \in 0 .. issued,
           NEW u \in {NoUser} \cup Users \X BOOLEAN,
           SetSession(a, r, u), announce' \in Changes(issued),
           socket' \in 0 .. issued, starter' \in Calls \cup {NoCall},
           reading' \in (0 .. issued) \X (0 .. issued),
           out' \in {"no", "asked", "overtaken"}, carried' \subseteq Calls,
           recalled' \in BOOLEAN, crossed' \in BOOLEAN
    PROVE  ClientOK'
<1>1. stored' \in (0 .. issued) \X (0 .. issued)
  BY DEF SetSession, Persisted, NoPair, ServerOK
<1>. QED
  BY <1>1 DEF SetSession, ClientOK

LEMMA ServerKept ==
    ASSUME ServerOK, UNCHANGED serverVars, excused' \subseteq Issued,
           mishaps' \in 0 .. MaxMishaps
    PROVE  ServerOK' /\ Grows
BY SdkAssumption DEF ServerOK, Grows, serverVars, Issued

LEMMA AdoptType ==
    ASSUME TypeInv, NEW c \in Calls, at[c] \in {"token", "refresh"},
           NEW a \in 0 .. issued, NEW u \in Users \X BOOLEAN, Adopt(c, a, u),
           UNCHANGED <<serverVars, socket, starter, reading, mishaps, excused, carried,
                       recalled>>
    PROVE  TypeInv'
<1>. USE DEF TypeInv
<1>1. a \in Nat /\ CallOK(c)
  BY SdkAssumption DEF CallsOK, ServerOK
<1>3. announce' \in Changes(issued) /\ crossed' \in BOOLEAN
  BY <1>1, TellType DEF Adopt
<1>4. issued' = issued /\ out' \in {"no", "asked", "overtaken"}
  BY DEF Adopt, ClientOK, serverVars
<1>5. ClientOK'
  BY <1>3, <1>4, SessionType DEF Adopt, ClientOK
<1>6. ServerOK' /\ Grows
  BY ServerKept DEF ServerOK
<1>7. Shape'
  BY <1>1, GotoShape DEF Adopt, KeepCall, CallsOK, Shape, Places
<1>8. CallOK(c)'
  BY <1>1, <1>4 DEF Adopt, Goto, KeepCall, CallsOK, CallOK, Shape, Issued, serverVars
<1>9. CallsOK'
  BY <1>6, <1>7, <1>8, OneCall DEF Adopt, Goto, KeepCall, CallsOK, Shape
<1>. QED
  BY <1>5, <1>6, <1>9

LEMMA EndRefreshType ==
    ASSUME TypeInv, NEW c \in Calls, NEW won, EndRefresh(c, won), UNCHANGED serverVars
    PROVE  CallsOK' /\ starter' \in Calls \cup {NoCall}
<1>. USE DEF TypeInv
<1>1. /\ starter' \in Calls \cup {NoCall}
      /\ access \in 0 .. issued /\ issued \in Nat /\ 0 .. issued \subseteq Nat
      /\ issued' = issued /\ parent' = parent
  BY SdkAssumption DEF EndRefresh, Landed, ClientOK, ServerOK, serverVars
<1>2. PICK again \in SUBSET Calls, ended \in SUBSET Calls :
         /\ at' = [d \in Calls |-> IF d \in again THEN "retry"
                                   ELSE IF d \in ended THEN "idle" ELSE at[d]]
         /\ arg' = [d \in Calls |-> IF d \in again THEN access
                                    ELSE IF d \in ended THEN 0 ELSE arg[d]]
         /\ ans' = [d \in Calls |-> IF d \in again \cup ended THEN "none" ELSE ans[d]]
         /\ op' = [d \in Calls |-> IF d \in ended THEN "none" ELSE op[d]]
         /\ tried' = [d \in Calls |-> IF d \in ended THEN 0 ELSE tried[d]]
         /\ again \cap ended = {}
  <2>. DEFINE W == {d \in Calls : d = c \/ (op[c] = "rest" /\ at[d] = "join")}
              A == IF won /\ op[c] = "rest" THEN W ELSE {}
  <2>1. /\ at' = [d \in Calls |-> IF d \in A THEN "retry"
                                  ELSE IF d \in W \ A THEN "idle" ELSE at[d]]
        /\ arg' = [d \in Calls |-> IF d \in A THEN access
                                   ELSE IF d \in W \ A THEN 0 ELSE arg[d]]
        /\ ans' = [d \in Calls |-> IF d \in W THEN "none" ELSE ans[d]]
        /\ op' = [d \in Calls |-> IF d \in W \ A THEN "none" ELSE op[d]]
        /\ tried' = [d \in Calls |-> IF d \in W \ A THEN 0 ELSE tried[d]]
    BY DEF EndRefresh, RetryToken
  <2>2. A \in SUBSET Calls /\ W \ A \in SUBSET Calls /\ A \cup (W \ A) = W
        /\ A \cap (W \ A) = {}
    OBVIOUS
  <2>. HIDE DEF A, W
  <2>. QED
    BY <2>1, <2>2
<1>3. Shape'
  <2>1. op' \in [Calls -> Ops] /\ ans' \in [Calls -> Answers] /\ tried' \in [Calls -> Nat]
    BY <1>2 DEF CallsOK, Shape, Ops, Answers
  <2>2. at' \in [Calls -> Places]
    BY <1>2 DEF CallsOK, Shape, Places, Endpoints
  <2>3. arg' \in [Calls -> Nat \cup Users]
    BY <1>1, <1>2 DEF CallsOK, Shape
  <2>. QED
    BY <2>1, <2>2, <2>3 DEF Shape
<1>4. ASSUME NEW d \in Calls
      PROVE  CallOK(d)'
  <2>1. Grows
    BY <1>1 DEF Grows
  <2>2. CASE d \notin again \cup ended
    BY <1>2, <2>1, <2>2, CallKept DEF CallsOK
  <2>3. CASE d \in again
    BY <1>1, <1>2, <2>3 DEF CallsOK, CallOK
  <2>4. CASE d \in ended
    BY <1>1, <1>2, <2>4 DEF CallsOK, CallOK
  <2>. QED
    BY <2>2, <2>3, <2>4
<1>. QED
  BY <1>1, <1>3, <1>4 DEF CallsOK

LEMMA RefreshSessionType ==
    ASSUME TypeInv, NEW c \in Calls, NEW name \in {"refresh", "rest"},
           RefreshSession(c, name), op' \in [Calls -> Ops], op'[c] = name,
           \A d \in Calls \ {c} : op'[d] = op[d],
           starter' \in Calls \cup {NoCall},
           UNCHANGED <<serverVars, socket, reading, tried, mishaps, outVars>>
    PROVE  TypeInv'
<1>. USE DEF TypeInv
<1>1. refresh \in 0 .. issued /\ issued' = issued /\ issued \in Nat /\ 0 \in 0 .. issued
  BY SdkAssumption DEF ClientOK, ServerOK, serverVars
<1>2. excused' \subseteq Issued
  <2>1. \A t \in {refresh} \ {0} : t \in Issued
    BY <1>1 DEF Issued
  <2>2. excused' \subseteq excused \cup ({refresh} \ {0})
    BY DEF RefreshSession
  <2>. QED
    BY <2>1, <2>2 DEF ServerOK
<1>3. ServerOK' /\ Grows
  BY <1>2, ServerKept DEF ServerOK
<1>4. CASE refresh = 0
  <2>1. SetSession(0, 0, NoUser) /\ Tell(c, 0) /\ Goto(c, "emit", 0)
    BY <1>4 DEF RefreshSession, ClearSession
  <2>2. ClientOK'
    BY <1>1, <2>1, TellType, SessionType DEF ClientOK, outVars
  <2>3. Shape'
    BY <2>1, GotoShape DEF CallsOK, Shape, Places
  <2>4. CallOK(c)'
    BY <1>1, <2>1 DEF Goto, CallsOK, CallOK, Shape
  <2>5. CallsOK'
    BY <1>3, <2>1, <2>3, <2>4, OneCall DEF Goto, CallsOK, Shape
  <2>. QED
    BY <1>3, <2>2, <2>5
<1>5. CASE refresh # 0
  <2>1. Goto(c, "refresh", refresh) /\ UNCHANGED <<tokenVars, announce, crossed>>
    BY <1>5 DEF RefreshSession
  <2>2. ClientOK'
    BY <1>1, <2>1 DEF ClientOK, tokenVars, outVars
  <2>3. Shape'
    <3>1. "refresh" \in Places /\ refresh \in Nat \cup Users
      BY <1>1 DEF Places, Endpoints
    <3>. QED
      BY <2>1, <3>1, GotoShape DEF CallsOK, Shape
  <2>4. CallOK(c)'
    BY <1>1, <1>5, <2>1 DEF Goto, CallsOK, CallOK, Shape, Issued, Good
  <2>5. CallsOK'
    BY <1>3, <2>1, <2>3, <2>4, OneCall DEF Goto, CallsOK, Shape
  <2>. QED
    BY <1>3, <2>2, <2>5
<1>. QED
  BY <1>4, <1>5

-----------------------------------------------------------------------------
(* Types: the server's steps.                                              *)

LEMMA AnswerType ==
    ASSUME TypeInv, NEW c \in Calls, NEW kind \in Answers, NEW a \in Nat \cup Users,
           Answer(c, kind, a), ServerOK', Grows, CallOK(c)',
           UNCHANGED <<clientVars, outVars, crossed>>
    PROVE  TypeInv'
<1>. USE DEF TypeInv
<1>1. ClientOK'
  BY ClientGrows
<1>2. Shape'
  BY AnswerShape DEF CallsOK
<1>3. CallsOK'
  BY <1>2, OneCall DEF Answer, CallsOK, Shape
<1>. QED
  BY <1>1, <1>3

LEMMA TypeServe ==
    ASSUME TypeInv, NEW c \in Calls, Serve(c)
    PROVE  TypeInv'
<1>. USE DEF TypeInv
<1>1. CallOK(c) /\ issued \in Nat /\ at[c] \in Places
  BY SdkAssumption DEF CallsOK, ServerOK, Shape
<1>2. \A n \in Issued : n \in Nat /\ n \in 0 .. issued
  BY <1>1 DEF Issued
<1>3. {"refused", "ok", "renamed", "pending", "barred"} \subseteq Answers
  BY DEF Answers
<1>4. ASSUME NEW u \in Users, NEW p \in 0 .. issued, Grant(c, u, p),
             revoked' \subseteq Issued, at[c] = "refresh" => p \in Issued,
             at[c] \in {"token", "refresh"},
             UNCHANGED <<horizon, renamed, mishaps, excused, clientVars, outVars, crossed>>
      PROVE  TypeInv'
  <2>1. ServerOK' /\ Grows
    BY <1>4, GrantServer
  <2>2. PICK kind \in {"ok", "renamed"} : Answer(c, kind, issued + 1)
    BY <1>4 DEF Grant
  <2>3. CallOK(c)'
    <3>1. /\ at'[c] = at[c] /\ op'[c] = op[c] /\ tried'[c] = tried[c]
          /\ ans'[c] = kind /\ arg'[c] = issued + 1 /\ issued' = issued + 1
      BY <1>4, <2>2 DEF Grant, Answer, CallsOK, Shape
    <3>2. at[c] = "refresh" => parent'[issued + 1] = p /\ p \in Issued'
      BY <1>1, <1>4, <3>1, SdkAssumption DEF Grant, ServerOK, Pairs, Issued
    <3>. QED
      BY <1>1, <1>4, <3>1, <3>2 DEF CallOK, Issued
  <2>. QED
    <3>1. issued + 1 \in Nat \cup Users /\ kind \in Answers
      BY <1>1, <1>3
    <3>. QED
      BY <1>4, <2>1, <2>2, <2>3, <3>1, AnswerType
<1>5. ASSUME NEW kind \in {"refused", "ok", "renamed", "pending", "barred"},
             Answer(c, kind, arg[c]),
             ServerOK', Grows, UNCHANGED <<clientVars, outVars, crossed>>, ans[c] = "none",
             at[c] = "token" => kind \in {"refused", "pending"},
             at[c] = "refresh" => kind \in {"refused", "barred"}
      PROVE  TypeInv'
  <2>1. /\ at'[c] = at[c] /\ op'[c] = op[c] /\ tried'[c] = tried[c]
        /\ ans'[c] = kind /\ arg'[c] = arg[c]
    BY <1>5 DEF Answer, CallsOK, Shape
  <2>2. (\A n \in Issued : n \in Issued') /\ 0 .. issued \subseteq 0 .. issued'
    BY <1>5 DEF Grows, Issued
  <2>3. CallOK(c)'
    BY <1>1, <1>5, <2>1, <2>2 DEF CallOK, Good
  <2>. QED
    BY <1>3, <1>5, <2>3, AnswerType DEF CallsOK, Shape
<1>6. CASE ServeToken(c)
  <2>1. at[c] = "token" /\ ans[c] = "none" /\ arg[c] \in Users
    BY <1>1, <1>6 DEF ServeToken, Waiting, CallOK
  <2>2. CASE Grant(c, arg[c], 0)
    BY <1>1, <1>4, <1>6, <2>1, <2>2 DEF ServeToken, ServerOK, historyVars
  <2>3. CASE /\ Answer(c, "refused", arg[c]) \/ Answer(c, "pending", arg[c])
             /\ UNCHANGED <<issued, parent, owner>>
    <3>1. ServerOK' /\ Grows
      BY <1>6, <2>3, ServerKept DEF ServeToken, ServerOK, serverVars, historyVars
    <3>. QED
      BY <1>5, <1>6, <2>1, <2>3, <3>1 DEF ServeToken, historyVars
  <2>. QED
    BY <1>6, <2>2, <2>3 DEF ServeToken
<1>7. CASE ServeRotation(c)
  <2>1. at[c] = "refresh" /\ ans[c] = "none" /\ arg[c] \in Issued
    BY <1>1, <1>7 DEF ServeRotation, Waiting, CallOK
  <2>2. owner[arg[c]] \in Users
    BY <2>1 DEF ServerOK
  <2>. QED
    BY <1>2, <1>4, <1>7, <2>1, <2>2 DEF ServeRotation, ServerOK, historyVars
<1>11. CASE ServeBarred(c)
  <2>1. at[c] = "refresh" /\ ans[c] = "none"
    BY <1>11 DEF ServeBarred, Waiting
  <2>2. ServerOK' /\ Grows
    BY <1>11, ServerKept DEF ServeBarred, ServerOK, historyVars
  <2>. QED
    BY <1>5, <1>11, <2>1, <2>2 DEF ServeBarred, historyVars
<1>8. \A T \in SUBSET Issued : Chain(T) \subseteq Issued
  BY DEF Chain
<1>9. CASE ServeReuse(c) \/ ServeLogout(c)
  <2>1. at[c] \in {"refresh", "logout"} /\ ans[c] = "none" /\ arg[c] \in Issued
    BY <1>1, <1>9 DEF ServeReuse, ServeLogout, Waiting, CallOK
  <2>2. revoked' \subseteq Issued /\ excused' \subseteq Issued
    BY <1>8, <1>9, <2>1 DEF ServeReuse, ServeLogout, ServerOK
  <2>3. ServerOK' /\ Grows
    BY <1>1, <1>9, <2>2 DEF ServeReuse, ServeLogout, ServerOK, Grows, Issued
  <2>. QED
    BY <1>5, <1>9, <2>1, <2>3 DEF ServeReuse, ServeLogout, Waiting
<1>10. CASE ServeBearer(c)
  <2>1. at[c] \in {"user", "rest", "retry"} /\ ans[c] = "none"
    BY <1>10 DEF ServeBearer, Waiting
  <2>2. PICK kind \in {"refused", "ok", "renamed"} : Answer(c, kind, arg[c])
    BY <1>10 DEF ServeBearer
  <2>3. ServerOK' /\ Grows
    BY <1>10, ServerKept DEF ServeBearer, ServerOK, historyVars
  <2>. QED
    BY <1>5, <1>10, <2>1, <2>2, <2>3 DEF ServeBearer, historyVars
<1>. QED
  BY <1>6, <1>7, <1>9, <1>10, <1>11 DEF Serve

(***************************************************************************)
(* The parent of the pair whose answer is still unread.                    *)
(***************************************************************************)
LEMMA UnreadType ==
    ASSUME TypeInv, NEW c \in Calls
    PROVE  Unread(c) \subseteq Issued
BY DEF TypeInv, CallsOK, CallOK, Unread

LEMMA TypeWorld ==
    ASSUME TypeInv,
           \/ \E c \in Calls : Fail(c)
           \/ Expire \/ (\E u \in Users : Rename(u)) \/ Reload
           \/ RestoreSession \/ AdoptStored
    PROVE  TypeInv'
<1>. USE DEF TypeInv
<1>1. ASSUME NEW c \in Calls, Fail(c)
      PROVE  TypeInv'
  <2>1. mishaps' \in 0 .. MaxMishaps
    BY <1>1, SdkAssumption DEF Fail, ServerOK
  <2>2. ServerOK' /\ Grows
    BY <1>1, <2>1, UnreadType, ServerKept DEF Fail, ServerOK
  <2>3. Answer(c, "network", 0) /\ UNCHANGED <<clientVars, outVars, crossed>>
    BY <1>1 DEF Fail
  <2>4. CallOK(c)'
    <3>1. /\ at'[c] = at[c] /\ op'[c] = op[c] /\ tried'[c] = tried[c]
          /\ ans'[c] = "network" /\ arg'[c] = 0 /\ at[c] # "emit"
      BY <1>1, <2>3 DEF Answer, Fail, Endpoints, CallsOK, Shape
    <3>2. 0 .. issued \subseteq 0 .. issued' /\ 0 \in 0 .. issued'
      BY <2>2 DEF Grows
    <3>. QED
      BY <3>1, <3>2 DEF CallsOK, CallOK, Good
  <2>. QED
    BY <2>2, <2>3, <2>4, AnswerType DEF Answers
<1>2. ASSUME ServerOK', Grows, UNCHANGED callVars
      PROVE  CallsOK'
  BY <1>2, CallKept DEF CallsOK, Shape, callVars
<1>3. CASE Expire
  <2>1. ServerOK' /\ Grows
    BY <1>3, SdkAssumption DEF Expire, ServerOK, Grows, Issued, historyVars
  <2>. QED
    BY <1>2, <1>3, <2>1, ClientGrows DEF Expire, historyVars
<1>4. CASE \E u \in Users : Rename(u)
  <2>1. ServerOK' /\ Grows
    BY <1>4, SdkAssumption DEF Rename, ServerOK, Grows, Issued, historyVars
  <2>. QED
    BY <1>2, <1>4, <2>1, ClientGrows DEF Rename, historyVars
<1>5. CASE RestoreSession \/ AdoptStored
  <2>1. ServerOK' /\ Grows
    BY <1>5, ServerKept DEF RestoreSession, AdoptStored, ServerOK, historyVars
  <2>2. CASE RestoreSession
    BY <2>2, <1>2, <2>1
    DEF RestoreSession, ClientOK, serverVars, tokenVars, historyVars, outVars
  <2>3. CASE AdoptStored
    <3>1. /\ issued' = issued /\ 0 \in 0 .. issued
          /\ reading[1] \in 0 .. issued /\ reading[2] \in 0 .. issued
      BY <2>3, SdkAssumption DEF AdoptStored, ClientOK, ServerOK, serverVars
    <3>2. ClientOK'
      BY <2>3, <3>1 DEF AdoptStored, ClientOK, NoPair
    <3>. QED
      BY <1>2, <2>1, <2>3, <3>2 DEF AdoptStored
  <2>. QED
    BY <1>5, <2>2, <2>3
<1>6. CASE Reload
  <2>1. mishaps' \in 0 .. MaxMishaps /\ UNCHANGED serverVars
    BY <1>6, SdkAssumption DEF Reload, ServerOK
  <2>2. excused' \subseteq Issued
    BY <1>6, UnreadType DEF Reload, ServerOK
  <2>3. ServerOK' /\ Grows
    BY <2>1, <2>2, ServerKept
  <2>4. 0 \in 0 .. issued /\ issued' = issued /\ <<>> \in Changes(issued)
    <3>1. <<>> \in Changes(issued)
      BY EmptySeq DEF Changes
    <3>2. issued' = issued
      BY <2>1 DEF serverVars
    <3>. QED
      BY <2>3, <3>1, <3>2 DEF Grows
  <2>5. ClientOK'
    BY <1>6, <2>4 DEF Reload, ClientOK, NoPair
  <2>6. CallsOK'
    BY <1>6, <2>4 DEF Reload, CallsOK, Shape, CallOK, Ops, Places, Answers
  <2>. QED
    BY <2>3, <2>5, <2>6
<1>. QED
  BY <1>1, <1>3, <1>4, <1>5, <1>6

-----------------------------------------------------------------------------
(* Types: the client's steps.                                              *)

LEMMA TypeAsk ==
    ASSUME TypeInv, NEW c \in Calls, Ask(c)
    PROVE  TypeInv'
<1>. USE DEF TypeInv
<1>1. /\ access \in 0 .. issued /\ refresh \in 0 .. issued /\ 0 \in 0 .. issued
      /\ \A n \in 0 .. issued : n \in Nat /\ (n # 0 => n \in Issued)
  BY SdkAssumption DEF ClientOK, ServerOK, Issued
<1>2. ASSUME NEW name \in Ops, NEW place \in Places, NEW a \in Nat \cup Users,
             NEW t \in 0 .. issued,
             Begin(c, name), Goto(c, place, a), tried' = [tried EXCEPT ![c] = t],
             UNCHANGED <<serverVars, mishaps, excused>>, ClientOK',
             a \in 0 .. issued \/ (place = "token" /\ a \in Users),
             place = "token" => a \in Users,
             place = "refresh" => a \in Issued /\ name \in {"refresh", "rest"},
             place \in {"user", "logout"} => a \in Issued,
             place = "emit" /\ name = "signOut" => a \in Issued,
             place \in {"rest", "join"} => name = "rest",
             place = "token" => name = "signIn", place = "user" => name = "getUser"
      PROVE  TypeInv'
  <2>1. ServerOK' /\ Grows /\ issued' = issued
    BY <1>2, ServerKept DEF ServerOK, serverVars
  <2>2. op' \in [Calls -> Ops] /\ tried' \in [Calls -> Nat]
    BY <1>1, <1>2 DEF Begin, CallsOK, Shape
  <2>3. Shape'
    BY <1>2, <2>2, GotoShape DEF CallsOK
  <2>4. /\ op'[c] = name /\ at'[c] = place /\ arg'[c] = a /\ ans'[c] = "none"
        /\ tried'[c] = t
        /\ \A d \in Calls \ {c} : /\ op'[d] = op[d] /\ at'[d] = at[d] /\ arg'[d] = arg[d]
                                  /\ ans'[d] = ans[d] /\ tried'[d] = tried[d]
    BY <1>2 DEF Begin, Goto, CallsOK, Shape
  <2>5. CallOK(c)'
    BY <1>2, <2>1, <2>4 DEF CallOK, Good, Issued
  <2>6. CallsOK'
    BY <2>1, <2>3, <2>4, <2>5, OneCall
  <2>. QED
    BY <2>1, <2>6, <1>2
<1>3. tried \in [Calls -> Nat] /\ tried[c] \in 0 .. issued
      /\ tried = [tried EXCEPT ![c] = tried[c]]
  BY DEF CallsOK, Shape, CallOK
<1>4. CASE \E u \in Users : SignIn(c, u)
  <2>1. PICK u \in Users : SignIn(c, u)
    BY <1>4
  <2>2. ClientOK'
    BY <2>1 DEF SignIn, ClientOK, serverVars, clientVars, tokenVars
  <2>3. "signIn" \in Ops /\ "token" \in Places
    BY DEF Ops, Places, Endpoints
  <2>4. /\ Begin(c, "signIn") /\ Goto(c, "token", u) /\ tried' = tried
        /\ UNCHANGED <<serverVars, mishaps, excused>>
    BY <2>1 DEF SignIn
  <2>. QED
    BY <1>2, <1>3, <2>2, <2>3, <2>4
<1>5. CASE SignOut(c)
  <2>1. ClientOK'
    <3>1. /\ SetSession(0, 0, NoUser)
          /\ announce' \in Changes(issued) /\ crossed' \in BOOLEAN
      BY <1>1, <1>5, TellType DEF SignOut, ClearSession
    <3>. QED
      BY <1>1, <1>5, <3>1, SessionType DEF SignOut, ClientOK, serverVars
  <2>2. "signOut" \in Ops /\ "emit" \in Places
    BY DEF Ops, Places
  <2>3. /\ Begin(c, "signOut") /\ Goto(c, "emit", refresh) /\ tried' = tried
        /\ UNCHANGED <<serverVars, mishaps, excused>> /\ refresh # 0
    BY <1>5 DEF SignOut
  <2>. QED
    BY <1>1, <1>2, <1>3, <2>1, <2>2, <2>3
<1>6. CASE Refresh(c)
  <2>1. /\ op' \in [Calls -> Ops] /\ op'[c] = "refresh"
        /\ \A d \in Calls \ {c} : op'[d] = op[d]
    BY <1>6 DEF Refresh, Begin, CallsOK, Shape, Ops
  <2>2. starter' \in Calls \cup {NoCall}
    BY <1>6 DEF Refresh, ClientOK
  <2>. QED
    BY <1>6, <2>1, <2>2, RefreshSessionType DEF Refresh
<1>7. CASE GetUser(c)
  <2>1. ClientOK'
    BY <1>7 DEF GetUser, ClientOK, serverVars, clientVars, tokenVars, historyVars, outVars
  <2>2. "getUser" \in Ops /\ "user" \in Places
    BY DEF Ops, Places, Endpoints
  <2>3. /\ Begin(c, "getUser") /\ Goto(c, "user", access) /\ tried' = tried
        /\ UNCHANGED <<serverVars, mishaps, excused>> /\ access # 0
    BY <1>7 DEF GetUser, historyVars
  <2>. QED
    BY <1>1, <1>2, <1>3, <2>1, <2>2, <2>3
<1>8. CASE Rest(c)
  <2>1. ClientOK'
    BY <1>8 DEF Rest, ClientOK, serverVars, clientVars, tokenVars, historyVars, outVars
  <2>2. "rest" \in Ops /\ "rest" \in Places
    BY DEF Ops, Places, Endpoints
  <2>3. /\ Begin(c, "rest") /\ Goto(c, "rest", access)
        /\ tried' = [tried EXCEPT ![c] = access]
        /\ UNCHANGED <<serverVars, mishaps, excused>>
    BY <1>8 DEF Rest, historyVars
  <2>. QED
    BY <1>1, <1>2, <2>1, <2>2, <2>3
<1>. QED
  BY <1>4, <1>5, <1>6, <1>7, <1>8 DEF Ask

LEMMA DoneType ==
    ASSUME TypeInv, NEW c \in Calls, Done(c),
           UNCHANGED <<serverVars, mishaps, excused>>, ClientOK'
    PROVE  TypeInv'
<1>. USE DEF TypeInv
<1>1. ServerOK' /\ Grows /\ issued' = issued
  BY ServerKept DEF ServerOK, serverVars
<1>2. Shape'
  BY DoneShape DEF CallsOK
<1>3. CallOK(c)'
  BY <1>1 DEF Done, Goto, CallsOK, Shape, CallOK, Grows
<1>4. CallsOK'
  BY <1>1, <1>2, <1>3, OneCall DEF Done, Goto, CallsOK, Shape
<1>. QED
  BY <1>1, <1>4

LEMMA TypeGoOn ==
    ASSUME TypeInv, NEW c \in Calls, GoOn(c)
    PROVE  TypeInv'
<1>. USE DEF TypeInv
<1>1. /\ CallOK(c) /\ 0 \in 0 .. issued /\ refresh \in 0 .. issued
      /\ \A n \in Issued : n \in 0 .. issued /\ n \in Nat
  BY SdkAssumption DEF CallsOK, ServerOK, ClientOK, Issued
<1>2. ASSUME UNCHANGED <<issued, tokenVars, announce, socket, reading, outVars, crossed>>,
             starter' \in Calls \cup {NoCall}
      PROVE  ClientOK'
  BY <1>2 DEF ClientOK, tokenVars, outVars
<1>10. at[c] \in {"token", "refresh"} /\ ans[c] \in Good =>
          arg[c] \in 0 .. issued /\ UserOf(c) \in Users \X BOOLEAN
  <2>1. at[c] \in {"token", "refresh"} /\ ans[c] \in Good => arg[c] \in Issued
    BY <1>1 DEF CallOK, Good
  <2>. QED
    BY <1>1, <2>1 DEF UserOf, ServerOK
<1>3. CASE SignInAnswered(c)
  <2>1. CASE ans[c] \in Good /\ Adopt(c, arg[c], UserOf(c))
    BY <1>3, <1>10, <2>1, AdoptType DEF SignInAnswered
  <2>2. CASE Done(c) /\ UNCHANGED <<tokenVars, announce, out, crossed>>
    BY <1>2, <1>3, <2>2, DoneType DEF SignInAnswered, ClientOK, serverVars, outVars
  <2>3. CASE ans[c] = "pending" /\ Adopt(c, 0, <<arg[c], FALSE>>)
    <3>1. <<arg[c], FALSE>> \in Users \X BOOLEAN
      BY <1>1, <1>3, <2>3 DEF SignInAnswered, CallOK
    <3>. QED
      BY <1>1, <1>3, <2>3, <3>1, AdoptType DEF SignInAnswered
  <2>. QED
    BY <1>3, <2>1, <2>2, <2>3 DEF SignInAnswered
<1>4. CASE SignOutAnswered(c) \/ RetryAnswered(c)
  BY <1>2, <1>4, DoneType DEF SignOutAnswered, RetryAnswered, ClientOK, serverVars,
                             clientVars, historyVars, outVars
<1>5. CASE RefreshAnswered(c)
  <2>1. CASE ans[c] \in Good /\ Adopt(c, arg[c], UserOf(c)) /\ UNCHANGED starter
    BY <1>5, <1>10, <2>1, AdoptType DEF RefreshAnswered
  <2>2. CASE EndRefresh(c, FALSE) /\ UNCHANGED <<tokenVars, announce, out, crossed>>
    <3>1. CallsOK' /\ starter' \in Calls \cup {NoCall}
      BY <1>5, <2>2, EndRefreshType DEF RefreshAnswered
    <3>2. ServerOK'
      BY <1>5, ServerKept DEF RefreshAnswered, ServerOK
    <3>. QED
      BY <1>2, <1>5, <2>2, <3>1, <3>2 DEF RefreshAnswered, serverVars, outVars
  <2>3. CASE /\ ClearSession /\ Tell(c, 0) /\ Goto(c, "emit", 0)
             /\ KeepCall /\ UNCHANGED <<starter, out>>
    <3>1. ServerOK' /\ Grows /\ issued' = issued
      BY <1>5, ServerKept DEF RefreshAnswered, ServerOK, serverVars
    <3>2. announce' \in Changes(issued) /\ crossed' \in BOOLEAN
      BY <1>1, <2>3, TellType
    <3>3. ClientOK'
      BY <1>1, <1>5, <2>3, <3>1, <3>2, SessionType
      DEF RefreshAnswered, ClearSession, ClientOK
    <3>4. Shape'
      BY <2>3, GotoShape DEF KeepCall, CallsOK, Shape, Places
    <3>5. CallOK(c)'
      BY <1>1, <1>5, <2>3, <3>1 DEF RefreshAnswered, Goto, KeepCall, CallsOK, Shape, CallOK,
                                    Grows
    <3>6. CallsOK'
      BY <2>3, <3>1, <3>4, <3>5, OneCall DEF Goto, KeepCall, CallsOK, Shape
    <3>. QED
      BY <3>1, <3>3, <3>6
  <2>. QED
    BY <1>5, <2>1, <2>2, <2>3 DEF RefreshAnswered, RefreshFailed
<1>6. CASE GetUserAnswered(c)
  <2>1. CASE Done(c) /\ UNCHANGED <<tokenVars, announce, crossed>>
    BY <1>2, <1>6, <2>1, DoneType DEF GetUserAnswered, ClientOK, serverVars, outVars
  <2>2. CASE /\ ans[c] \in Good /\ SetSession(arg[c], refresh, UserOf(c))
             /\ Tell(c, arg[c]) /\ Goto(c, "emit", arg[c]) /\ KeepCall
    <3>1. arg[c] \in Issued
      BY <1>1, <1>6, <2>2 DEF GetUserAnswered, CallOK, Good
    <3>2. UserOf(c) \in Users \X BOOLEAN
      BY <3>1 DEF UserOf, ServerOK
    <3>3. ServerOK' /\ Grows /\ issued' = issued
      BY <1>6, ServerKept DEF GetUserAnswered, ServerOK, serverVars
    <3>4. announce' \in Changes(issued) /\ crossed' \in BOOLEAN
      BY <1>1, <2>2, <3>1, TellType
    <3>5. ClientOK'
      BY <1>1, <1>6, <2>2, <3>1, <3>2, <3>3, <3>4, SessionType
      DEF GetUserAnswered, ClientOK, outVars
    <3>6. Shape'
      BY <1>1, <2>2, <3>1, GotoShape DEF KeepCall, CallsOK, Shape, Places
    <3>7. CallOK(c)'
      BY <1>1, <2>2, <3>1, <3>3
      DEF Goto, KeepCall, CallsOK, Shape, CallOK, Issued
    <3>8. CallsOK'
      BY <2>2, <3>3, <3>6, <3>7, OneCall DEF Goto, KeepCall, CallsOK, Shape
    <3>. QED
      BY <3>3, <3>5, <3>8
  <2>. QED
    BY <1>6, <2>1, <2>2 DEF GetUserAnswered
<1>7. CASE RestAnswered(c)
  <2>1. CASE Done(c) /\ UNCHANGED <<tokenVars, announce, crossed, starter, excused>>
    BY <1>2, <1>7, <2>1, DoneType DEF RestAnswered, ClientOK, serverVars, outVars
  <2>2. CASE /\ Goto(c, "join", 0) /\ KeepCall
             /\ UNCHANGED <<tokenVars, announce, crossed, starter, excused>>
    <3>1. ServerOK' /\ Grows /\ issued' = issued
      BY <1>7, <2>2, ServerKept DEF RestAnswered, ServerOK, serverVars
    <3>2. ClientOK'
      BY <1>2, <1>7, <2>2, <3>1 DEF RestAnswered, ClientOK, outVars
    <3>3. Shape'
      BY <2>2, GotoShape DEF KeepCall, CallsOK, Shape, Places
    <3>4. CallOK(c)'
      BY <1>1, <1>7, <2>2, <3>1 DEF RestAnswered, Goto, KeepCall, CallsOK, Shape, CallOK
    <3>5. CallsOK'
      BY <2>2, <3>1, <3>3, <3>4, OneCall DEF Goto, KeepCall, CallsOK, Shape
    <3>. QED
      BY <3>1, <3>2, <3>5
  <2>3. CASE RefreshSession(c, "rest") /\ starter' = c /\ KeepCall
    <3>1. op[c] = "rest"
      BY <1>1, <1>7 DEF RestAnswered, CallOK
    <3>. QED
      BY <1>7, <2>3, <3>1, RefreshSessionType DEF RestAnswered, KeepCall, CallsOK, Shape
  <2>. QED
    BY <1>7, <2>1, <2>2, <2>3 DEF RestAnswered, Handle401
<1>. QED
  BY <1>3, <1>4, <1>5, <1>6, <1>7 DEF GoOn

LEMMA HeadAndTail ==
    ASSUME NEW S, NEW s \in Seq(S), s # <<>>
    PROVE  /\ Len(s) \in Nat \ {0}
           /\ Head(s) \in S /\ Head(s) = s[1]
           /\ Tail(s) \in Seq(S) /\ Len(Tail(s)) = Len(s) - 1
           /\ \A i \in 1 .. Len(s) - 1 : Tail(s)[i] = s[i + 1]
OBVIOUS

(***************************************************************************)
(* The call whose change is announced has been waiting for that.           *)
(***************************************************************************)
LEMMA TypeEmit ==
    ASSUME TypeInv, Emit, at[Head(announce).call] = "emit"
    PROVE  TypeInv'
<1>. USE DEF TypeInv
<1>1. PICK c \in Calls, a \in 0 .. issued : Head(announce) = [call |-> c, session |-> a]
  <2>1. Head(announce) \in [call : Calls, session : 0 .. issued]
    BY HeadAndTail DEF Emit, ClientOK, Changes
  <2>. QED
    BY <2>1
<1>2. Tail(announce) \in Changes(issued)
  BY DEF Emit, ClientOK, Changes
<1>3. ServerOK' /\ Grows /\ issued' = issued
  BY ServerKept DEF Emit, ServerOK, serverVars, historyVars
<1>4. socket' \in 0 .. issued
  BY <1>1 DEF Emit, Announced, ClientOK
<1>5. CallsOK' /\ starter' \in Calls \cup {NoCall}
  <2>1. CASE op[c] = "signOut"
    <3>1. Goto(c, "logout", arg[c]) /\ KeepCall /\ UNCHANGED starter
      BY <1>1, <2>1 DEF Emit
    <3>2. arg[c] \in Issued /\ arg[c] \in Nat
      BY <1>1, <2>1 DEF CallsOK, CallOK, Issued
    <3>3. Shape'
      BY <3>1, <3>2, GotoShape DEF KeepCall, CallsOK, Shape, Places, Endpoints
    <3>4. CallOK(c)'
      BY <1>3, <3>1, <3>2 DEF Goto, KeepCall, CallsOK, Shape, CallOK, Issued
    <3>. QED
      BY <1>3, <3>1, <3>3, <3>4, OneCall DEF Goto, KeepCall, CallsOK, Shape, ClientOK
  <2>2. CASE op[c] # "signOut"
    <3>1. EndRefresh(c, arg[c] # 0) /\ UNCHANGED serverVars
      BY <1>1, <2>2 DEF Emit
    <3>. QED
      BY <3>1, EndRefreshType
  <2>. QED
    BY <2>1, <2>2
<1>6. ClientOK'
  BY <1>2, <1>3, <1>4, <1>5 DEF Emit, ClientOK, historyVars, outVars, tokenVars
<1>. QED
  BY <1>3, <1>5, <1>6

-----------------------------------------------------------------------------
(* What storage, the listeners and the calls know of the session.          *)

(***************************************************************************)
(* The storage has both tokens of a pair or none, and so has what          *)
(* restoreSession read of it.                                              *)
(***************************************************************************)
Whole(pair) == pair = NoPair \/ (pair[1] # 0 /\ pair[2] # 0)
StoreInv == Whole(stored) /\ Whole(reading)

(***************************************************************************)
(* Each change that is still to be announced belongs to a call of its own  *)
(* that waits for it, and the last one brings what the client has now, if  *)
(* nothing was restored since.                                             *)
(***************************************************************************)
QueueInv ==
    /\ \A i \in 1 .. Len(announce) : at[announce[i].call] = "emit"
    /\ \A i, k \in 1 .. Len(announce) : i # k => announce[i].call # announce[k].call
    /\ announce = <<>> => socket = access \/ crossed
    /\ announce # <<>> => Announced(announce[Len(announce)]) = access \/ crossed

(***************************************************************************)
(* After a sign-out only what was under way can still bring a session.     *)
(***************************************************************************)
OutInv ==
    out = "asked" =>
        /\ access = 0 /\ refresh = 0 /\ cached = NoUser /\ stored = NoPair
        /\ reading # NoPair => recalled
        /\ \A c \in Calls : at[c] \in {"token", "refresh"} => c \in carried

IInv == TypeInv /\ StoreInv /\ QueueInv /\ OutInv /\ WaitersAreServed

LEMMA StoreNext == StoreInv /\ [Next]_vars => StoreInv'
<1>. SUFFICES ASSUME StoreInv, [Next]_vars
              PROVE  StoreInv'
  OBVIOUS
<1>1. ASSUME NEW a, NEW r, NEW u, SetSession(a, r, u)
      PROVE  Whole(stored)'
  BY <1>1 DEF SetSession, Persisted, Whole
<1>2. ASSUME stored' = stored \/ Whole(stored)', reading' \in {reading, stored, NoPair}
      PROVE  StoreInv'
  BY <1>2 DEF StoreInv, Whole
<1>3. ASSUME NEW c \in Calls, Ask(c)
      PROVE  StoreInv'
  BY <1>1, <1>2, <1>3
  DEF Ask, SignIn, SignOut, Refresh, RefreshSession, ClearSession, GetUser, Rest,
      clientVars, tokenVars
<1>4. ASSUME NEW c \in Calls, Serve(c) \/ Fail(c)
      PROVE  StoreInv'
  BY <1>2, <1>4
  DEF Serve, ServeToken, ServeRotation, ServeBarred, ServeReuse, ServeLogout, ServeBearer,
      Fail, clientVars, tokenVars
<1>5. ASSUME NEW c \in Calls, GoOn(c)
      PROVE  StoreInv'
  <2>1. CASE SignInAnswered(c) \/ RefreshAnswered(c)
    BY <1>1, <1>2, <2>1
    DEF SignInAnswered, RefreshAnswered, RefreshFailed, Adopt, ClearSession, tokenVars
  <2>2. CASE GetUserAnswered(c)
    BY <1>1, <1>2, <2>2 DEF GetUserAnswered, tokenVars
  <2>3. CASE SignOutAnswered(c) \/ RetryAnswered(c)
    BY <1>2, <2>3 DEF SignOutAnswered, RetryAnswered, clientVars, tokenVars
  <2>4. CASE RestAnswered(c)
    BY <1>1, <1>2, <2>4 DEF RestAnswered, Handle401, RefreshSession, ClearSession, tokenVars
  <2>. QED
    BY <1>5, <2>1, <2>2, <2>3, <2>4 DEF GoOn
<1>6. CASE RestoreSession \/ AdoptStored \/ Emit \/ Reload
  BY <1>2, <1>6 DEF RestoreSession, AdoptStored, Emit, Reload, tokenVars
<1>7. CASE Expire \/ (\E u \in Users : Rename(u)) \/ UNCHANGED vars
  BY <1>2, <1>7 DEF Expire, Rename, vars, clientVars, tokenVars
<1>. QED
  BY <1>3, <1>4, <1>5, <1>6, <1>7 DEF Next

LEMMA OutNext == TypeInv /\ OutInv /\ [Next]_vars => OutInv'
<1>. SUFFICES ASSUME TypeInv, OutInv, [Next]_vars, out' = "asked"
              PROVE  OutInv'
  BY DEF OutInv
<1>. USE DEF TypeInv, CallsOK, Shape
\* no call comes to wait for a token
<1>. DEFINE Few == \A d \in Calls : at'[d] \in {"token", "refresh"}
                                      => at[d] \in {"token", "refresh"}
<1>1. out = "asked" =>
          /\ access = 0 /\ refresh = 0 /\ cached = NoUser /\ stored = NoPair
          /\ reading # NoPair => recalled
          /\ \A d \in Calls : at[d] \in {"token", "refresh"} => d \in carried
  BY DEF OutInv
<1>2. ASSUME out = "asked", UNCHANGED <<carried, recalled, reading, tokenVars>>, Few
      PROVE  OutInv'
  BY <1>1, <1>2 DEF OutInv, tokenVars
<1>3. ASSUME out = "asked", UNCHANGED <<carried, recalled, reading>>, ClearSession, Few
      PROVE  OutInv'
  BY <1>1, <1>3 DEF OutInv, ClearSession, SetSession, Persisted
<1>4. ASSUME NEW c \in Calls, Ask(c)
      PROVE  OutInv'
  <2>1. CASE \E u \in Users : SignIn(c, u)
    BY <2>1 DEF SignIn
  <2>2. CASE SignOut(c)
    BY <2>2 DEF SignOut, ClearSession, SetSession, Persisted, Goto, OutInv
  <2>3. CASE Refresh(c)
    <3>1. ClearSession /\ Few
      BY <1>1, <2>3 DEF Refresh, RefreshSession, Goto, outVars
    <3>. QED
      BY <1>3, <2>3, <3>1 DEF Refresh, outVars
  <2>4. CASE GetUser(c) \/ Rest(c)
    <3>1. Few
      BY <2>4 DEF GetUser, Rest, Goto
    <3>. QED
      BY <1>2, <2>4, <3>1 DEF GetUser, Rest, clientVars, historyVars, outVars
  <2>. QED
    BY <1>4, <2>1, <2>2, <2>3, <2>4 DEF Ask
<1>5. ASSUME NEW c \in Calls, Serve(c) \/ Fail(c)
      PROVE  OutInv'
  <2>1. UNCHANGED <<tokenVars, at, out, carried, recalled, reading>>
    BY <1>5 DEF Serve, ServeToken, ServeRotation, ServeBarred, ServeReuse, ServeLogout,
                ServeBearer, Fail, Grant, Answer, clientVars, historyVars, outVars
  <2>. QED
    BY <1>2, <2>1
<1>6. ASSUME NEW c, NEW won, EndRefresh(c, won)
      PROVE  Few
  BY <1>6 DEF EndRefresh
<1>7. ASSUME NEW c \in Calls, GoOn(c)
      PROVE  OutInv'
  <2>1. ASSUME Done(c) \/ Goto(c, "emit", 0) \/ Goto(c, "join", 0)
        PROVE  Few
    BY <2>1 DEF Done, Goto
  <2>2. CASE SignInAnswered(c)
    <3>1. CASE Adopt(c, arg[c], UserOf(c)) \/ Adopt(c, 0, <<arg[c], FALSE>>)
      BY <1>1, <2>2, <3>1 DEF SignInAnswered, Adopt
    <3>. QED
      BY <1>2, <2>1, <2>2, <3>1 DEF SignInAnswered
  <2>3. CASE RefreshAnswered(c)
    <3>1. CASE Adopt(c, arg[c], UserOf(c))
      BY <1>1, <2>3, <3>1 DEF RefreshAnswered, Adopt
    <3>. QED
      BY <1>2, <1>3, <1>6, <2>1, <2>3, <3>1 DEF RefreshAnswered, RefreshFailed
  <2>4. CASE GetUserAnswered(c)
    BY <1>1, <1>2, <2>1, <2>4 DEF GetUserAnswered, outVars
  <2>5. CASE SignOutAnswered(c) \/ RetryAnswered(c)
    BY <1>2, <2>1, <2>5 DEF SignOutAnswered, RetryAnswered, clientVars, historyVars, outVars
  <2>6. CASE RestAnswered(c)
    BY <1>1, <1>2, <1>3, <2>1, <2>6 DEF RestAnswered, Handle401, RefreshSession, outVars
  <2>. QED
    BY <1>7, <2>2, <2>3, <2>4, <2>5, <2>6 DEF GoOn
<1>8. CASE RestoreSession \/ AdoptStored
  BY <1>1, <1>8 DEF RestoreSession, AdoptStored, historyVars, outVars
<1>9. CASE Emit
  <2>1. Few
    BY <1>6, <1>9 DEF Emit, Goto
  <2>. QED
    BY <1>2, <1>9, <2>1 DEF Emit, historyVars, outVars
<1>10. CASE Reload
  BY <1>1, <1>10 DEF Reload, OutInv
<1>11. CASE Expire \/ (\E u \in Users : Rename(u)) \/ UNCHANGED vars
  <2>1. UNCHANGED <<tokenVars, at, out, carried, recalled, reading>>
    BY <1>11 DEF Expire, Rename, vars, clientVars, callVars, historyVars, outVars
  <2>. QED
    BY <1>2, <2>1
<1>. QED
  BY <1>4, <1>5, <1>7, <1>8, <1>9, <1>10, <1>11 DEF Next

(***************************************************************************)
(* A call may leave a place that is not the starter's, and the starter     *)
(* goes on only to where its refresh is still to be announced.             *)
(***************************************************************************)
LEMMA WaitersNext == TypeInv /\ WaitersAreServed /\ [Next]_vars => WaitersAreServed'
<1>. SUFFICES ASSUME TypeInv, WaitersAreServed, [Next]_vars
              PROVE  WaitersAreServed'
  OBVIOUS
<1>. USE DEF TypeInv, CallsOK, Shape
<1>0. starter \in Calls \cup {NoCall}
  BY DEF ClientOK
<1>1. ASSUME NEW c \in Calls, at[c] \notin {"refresh", "emit"}, at'[c] # "join",
             UNCHANGED starter,
             \A d \in Calls \ {c} : at'[d] = at[d] /\ op'[d] = op[d]
      PROVE  WaitersAreServed'
  BY <1>0, <1>1 DEF WaitersAreServed
<1>2. ASSUME UNCHANGED <<starter, at, op>>
      PROVE  WaitersAreServed'
  BY <1>2 DEF WaitersAreServed
<1>3. ASSUME NEW c \in Calls, at[c] \in {"refresh", "token"}, at'[c] = "emit",
             UNCHANGED <<starter, op>>, \A d \in Calls \ {c} : at'[d] = at[d]
      PROVE  WaitersAreServed'
  BY <1>0, <1>3 DEF WaitersAreServed
<1>4. ASSUME NEW c \in Calls, NEW won, EndRefresh(c, won)
      PROVE  WaitersAreServed'
  <2>1. CASE op[c] = "rest"
    <3>1. /\ \A d \in Calls : at'[d] # "join"
          /\ \A d \in Calls : d # c /\ at[d] # "join" => at'[d] = at[d] /\ op'[d] = op[d]
          /\ starter' = IF starter = c THEN NoCall ELSE starter
      BY <1>4, <2>1 DEF EndRefresh, Landed
    <3>. QED
      BY <1>0, <3>1 DEF WaitersAreServed
  <2>2. CASE op[c] # "rest"
    <3>1. /\ starter # c /\ starter' = starter
          /\ at'[c] # "join"
          /\ \A d \in Calls : d # c => at'[d] = at[d] /\ op'[d] = op[d]
      BY <1>0, <1>4, <2>2, SdkAssumption DEF EndRefresh, Landed, WaitersAreServed
    <3>. QED
      BY <1>0, <3>1 DEF WaitersAreServed
  <2>. QED
    BY <2>1, <2>2
<1>5. ASSUME NEW c \in Calls, Ask(c)
      PROVE  WaitersAreServed'
  <2>1. /\ at[c] = "idle" /\ at'[c] # "join" /\ UNCHANGED starter
        /\ \A d \in Calls \ {c} : at'[d] = at[d] /\ op'[d] = op[d]
    BY <1>5 DEF Ask, SignIn, SignOut, Refresh, RefreshSession, GetUser, Rest, Begin, Goto,
                clientVars
  <2>. QED
    BY <1>1, <2>1
<1>6. ASSUME NEW c \in Calls, Serve(c) \/ Fail(c)
      PROVE  WaitersAreServed'
  <2>1. UNCHANGED <<starter, at, op>>
    BY <1>6 DEF Serve, ServeToken, ServeRotation, ServeBarred, ServeReuse, ServeLogout,
                ServeBearer, Fail, Grant, Answer, clientVars
  <2>. QED
    BY <1>2, <2>1
<1>7. ASSUME NEW c \in Calls, GoOn(c)
      PROVE  WaitersAreServed'
  <2>1. ASSUME Done(c)
        PROVE  /\ at'[c] = "idle"
               /\ \A d \in Calls \ {c} : at'[d] = at[d] /\ op'[d] = op[d]
    BY <2>1 DEF Done, Goto
  <2>2. ASSUME NEW p, NEW a, Goto(c, p, a), KeepCall
        PROVE  /\ at'[c] = p /\ op' = op
               /\ \A d \in Calls \ {c} : at'[d] = at[d]
    BY <2>2 DEF Goto, KeepCall
  <2>3. CASE SignInAnswered(c)
    BY <1>1, <1>3, <2>1, <2>2, <2>3 DEF SignInAnswered, Adopt
  <2>4. CASE SignOutAnswered(c) \/ RetryAnswered(c)
    BY <1>1, <2>1, <2>4 DEF SignOutAnswered, RetryAnswered, clientVars
  <2>5. CASE RefreshAnswered(c)
    BY <1>3, <1>4, <2>2, <2>5 DEF RefreshAnswered, RefreshFailed, Adopt
  <2>6. CASE GetUserAnswered(c)
    BY <1>1, <2>1, <2>2, <2>6 DEF GetUserAnswered
  <2>7. CASE RestAnswered(c)
    <3>1. CASE Done(c) /\ UNCHANGED starter
      BY <1>1, <2>1, <2>7, <3>1 DEF RestAnswered
    <3>2. CASE Handle401(c) /\ KeepCall
      <4>1. Handle401(c) /\ KeepCall /\ op[c] = "rest"
        BY <2>7, <3>2 DEF RestAnswered, CallOK
      <4>2. CASE starter # NoCall
        <5>1. Goto(c, "join", 0) /\ UNCHANGED starter /\ at[c] = "rest"
          BY <2>7, <4>1, <4>2 DEF Handle401, RestAnswered
        <5>. QED
          BY <1>0, <2>2, <4>1, <4>2, <5>1 DEF WaitersAreServed
      <4>3. CASE starter = NoCall
        <5>1. /\ starter' = c
              /\ Goto(c, "emit", 0) \/ Goto(c, "refresh", refresh)
          BY <4>1, <4>3 DEF Handle401, RefreshSession
        <5>. QED
          BY <2>2, <4>1, <5>1, SdkAssumption DEF WaitersAreServed
      <4>. QED
        BY <4>2, <4>3
    <3>. QED
      BY <2>7, <3>1, <3>2 DEF RestAnswered
  <2>. QED
    BY <1>7, <2>3, <2>4, <2>5, <2>6, <2>7 DEF GoOn
<1>8. CASE Emit
  <2>1. Head(announce).call \in Calls
    <3>1. Head(announce) \in [call : Calls, session : 0 .. issued]
      BY <1>8, HeadAndTail DEF Emit, ClientOK, Changes
    <3>. QED
      BY <3>1
  <2>2. PICK c \in Calls : c = Head(announce).call
    BY <2>1
  <2>3. CASE op[c] = "signOut"
    <3>1. /\ UNCHANGED <<starter, op>> /\ at'[c] = "logout"
          /\ \A d \in Calls \ {c} : at'[d] = at[d]
      BY <1>8, <2>2, <2>3 DEF Emit, Goto, KeepCall
    <3>2. starter # c
      BY <1>0, <2>3, SdkAssumption DEF WaitersAreServed
    <3>. QED
      BY <1>0, <3>1, <3>2 DEF WaitersAreServed
  <2>4. CASE op[c] # "signOut"
    BY <1>4, <1>8, <2>2, <2>4 DEF Emit
  <2>. QED
    BY <2>3, <2>4
<1>9. CASE Reload
  BY <1>9 DEF Reload, WaitersAreServed
<1>10. CASE \/ RestoreSession \/ AdoptStored \/ Expire
            \/ \E u \in Users : Rename(u)
            \/ UNCHANGED vars
  BY <1>2, <1>10 DEF RestoreSession, AdoptStored, Expire, Rename, vars, clientVars, callVars
<1>. QED
  BY <1>5, <1>6, <1>7, <1>8, <1>9, <1>10 DEF Next

LEMMA EntryType ==
    ASSUME TypeInv, NEW i \in 1 .. Len(announce)
    PROVE  announce[i].call \in Calls
<1>1. announce[i] \in [call : Calls, session : 0 .. issued]
  BY ElementOfSeq DEF TypeInv, ClientOK, Changes
<1>. QED
  BY <1>1

(***************************************************************************)
(* A step that announces nothing and moves no call that waits for an       *)
(* announcement.                                                           *)
(***************************************************************************)
LEMMA QueueKept ==
    ASSUME TypeInv, QueueInv, UNCHANGED <<announce, socket, access, crossed>>,
           \A d \in Calls : at[d] = "emit" => at'[d] = "emit" /\ op'[d] = op[d]
    PROVE  QueueInv'
<1>1. announce \in Seq([call : Calls, session : 0 .. issued]) /\ Len(announce) \in Nat
  BY DEF TypeInv, ClientOK, Changes
<1>2. \A i \in 1 .. Len(announce) : announce[i].call \in Calls
  BY EntryType
<1>3. announce # <<>> => Len(announce) \in 1 .. Len(announce)
  BY <1>1
<1>. QED
  BY <1>2, <1>3 DEF QueueInv, Announced

(***************************************************************************)
(* A call that waits for nothing yet gets a session and tells.             *)
(***************************************************************************)
LEMMA QueueTold ==
    ASSUME TypeInv, QueueInv, NEW c \in Calls, NEW a, at[c] # "emit",
           Tell(c, a), access' = a, at'[c] = "emit",
           \A d \in Calls \ {c} : at'[d] = at[d]
    PROVE  QueueInv'
<1>. DEFINE n == Len(announce)
            e == [call |-> c, session |-> a]
<1>1. announce \in Seq([call : Calls, session : 0 .. issued]) /\ n \in Nat
  BY DEF TypeInv, ClientOK, Changes
<1>2. \A i \in 1 .. n : announce[i].call \in Calls \ {c}
  BY EntryType DEF QueueInv
<1>3. /\ Len(announce') = n + 1 /\ announce'[n + 1] = e /\ announce' # <<>>
      /\ \A i \in 1 .. n : announce'[i] = announce[i]
  BY <1>1 DEF Tell
<1>4. \A i \in 1 .. n + 1 : i \in 1 .. n \/ i = n + 1
  BY <1>1
<1>5. Announced(e)' = access'
  BY DEF Announced
<1>6. \A i \in 1 .. n + 1 : at'[announce'[i].call] = "emit"
  BY <1>2, <1>3, <1>4 DEF QueueInv
<1>7. \A i, k \in 1 .. n + 1 : i # k => announce'[i].call # announce'[k].call
  BY <1>2, <1>3, <1>4 DEF QueueInv
<1>8. Announced(announce[Len(announce)])' = access'
  BY <1>3 DEF Announced
<1>. QED
  BY <1>3, <1>6, <1>7, <1>8 DEF QueueInv

LEMMA QueueNext == TypeInv /\ QueueInv /\ [Next]_vars => QueueInv'
<1>. SUFFICES ASSUME TypeInv, QueueInv, [Next]_vars
              PROVE  QueueInv'
  OBVIOUS
<1>. USE DEF TypeInv, CallsOK, Shape
<1>1. ASSUME announce = <<>>, announce' = <<>>, UNCHANGED <<access, socket, crossed>>
      PROVE  QueueInv'
  <2>1. Len(announce') = 0
    BY <1>1
  <2>. QED
    BY <1>1, <2>1 DEF QueueInv
<1>2. ASSUME NEW c \in Calls, at[c] # "emit", UNCHANGED <<announce, socket, access, crossed>>,
             \A d \in Calls \ {c} : at'[d] = at[d] /\ op'[d] = op[d]
      PROVE  QueueInv'
  BY <1>2, QueueKept
<1>3. ASSUME NEW c \in Calls, at[c] # "emit", NEW a, NEW r, NEW u, NEW b,
             SetSession(a, r, u), Tell(c, a), Goto(c, "emit", b)
      PROVE  QueueInv'
  BY <1>3, QueueTold DEF SetSession, Goto
<1>4. ASSUME NEW c \in Calls, Ask(c)
      PROVE  QueueInv'
  <2>1. /\ at[c] = "idle"
        /\ \A d \in Calls \ {c} : at'[d] = at[d] /\ op'[d] = op[d]
    BY <1>4 DEF Ask, SignIn, SignOut, Refresh, RefreshSession, GetUser, Rest, Begin, Goto
  <2>2. CASE UNCHANGED <<announce, socket, access, crossed>>
    BY <1>2, <2>1, <2>2
  <2>3. CASE ClearSession /\ Tell(c, 0) /\ \E b : Goto(c, "emit", b)
    BY <1>3, <2>1, <2>3 DEF ClearSession
  <2>. QED
    BY <1>4, <2>2, <2>3
    DEF Ask, SignIn, SignOut, Refresh, RefreshSession, GetUser, Rest, clientVars, tokenVars,
        historyVars
<1>5. ASSUME NEW c \in Calls, Serve(c) \/ Fail(c)
      PROVE  QueueInv'
  <2>1. UNCHANGED <<at, op, announce, socket, access, crossed>>
    BY <1>5 DEF Serve, ServeToken, ServeRotation, ServeBarred, ServeReuse, ServeLogout,
                ServeBearer, Fail, Grant, Answer, clientVars, tokenVars, historyVars
  <2>. QED
    BY <2>1, QueueKept
<1>6. ASSUME NEW c \in Calls, GoOn(c)
      PROVE  QueueInv'
  <2>1. CASE announce' = announce /\ UNCHANGED <<access, socket, crossed>>
    BY <1>1, <1>6, <2>1 DEF GoOn
  <2>2. CASE ~(announce' = announce /\ UNCHANGED <<access, socket, crossed>>)
    <3>1. at[c] # "emit"
      BY <1>6 DEF GoOn, SignInAnswered, SignOutAnswered, RefreshAnswered, GetUserAnswered,
                  RestAnswered, RetryAnswered
    <3>2. \E a, r, u, b : SetSession(a, r, u) /\ Tell(c, a) /\ Goto(c, "emit", b)
      <4>1. CASE SignInAnswered(c) \/ RefreshAnswered(c)
        BY <2>2, <4>1 DEF SignInAnswered, RefreshAnswered, RefreshFailed, Adopt,
                          ClearSession, tokenVars
      <4>2. CASE GetUserAnswered(c)
        BY <2>2, <4>2 DEF GetUserAnswered, tokenVars
      <4>3. CASE RestAnswered(c)
        BY <2>2, <4>3 DEF RestAnswered, Handle401, RefreshSession, ClearSession, tokenVars
      <4>4. CASE SignOutAnswered(c) \/ RetryAnswered(c)
        BY <2>2, <4>4 DEF SignOutAnswered, RetryAnswered, clientVars, tokenVars, historyVars
      <4>. QED
        BY <1>6, <4>1, <4>2, <4>3, <4>4 DEF GoOn
    <3>. QED
      BY <1>3, <3>1, <3>2
  <2>. QED
    BY <2>1, <2>2
<1>7. CASE AdoptStored
  <2>1. UNCHANGED <<announce, op, at>>
    BY <1>7 DEF AdoptStored, callVars
  <2>2. CASE announce = <<>>
    BY <1>7, <2>1, <2>2 DEF AdoptStored, QueueInv
  <2>3. CASE announce # <<>> /\ crossed'
    BY <2>1, <2>3 DEF QueueInv
  <2>4. CASE announce # <<>> /\ ~crossed'
    <3>1. access' = access /\ ~crossed
      BY <1>7, <2>4 DEF AdoptStored
    <3>. QED
      BY <2>1, <2>4, <3>1 DEF QueueInv, Announced
  <2>. QED
    BY <2>2, <2>3, <2>4
<1>8. CASE Emit
  <2>. DEFINE n == Len(announce)
  <2>1. announce # <<>> /\ announce \in Seq([call : Calls, session : 0 .. issued])
    BY <1>8 DEF Emit, ClientOK, Changes
  <2>2. /\ n \in Nat \ {0} /\ Head(announce) = announce[1]
        /\ announce' = Tail(announce) /\ Len(announce') = n - 1
        /\ \A i \in 1 .. n - 1 : announce'[i] = announce[i + 1]
    BY <1>8, <2>1, HeadAndTail DEF Emit
  <2>3. PICK c \in Calls : c = announce[1].call
    <3>1. 1 \in 1 .. n
      BY <2>2
    <3>2. announce[1].call \in Calls
      BY <3>1, EntryType
    <3>. QED
      BY <3>2
  <2>4. \A d \in Calls : d # c /\ at[d] = "emit" => at'[d] = "emit" /\ op'[d] = op[d]
    <3>1. CASE op[c] = "signOut"
      BY <1>8, <2>2, <2>3, <3>1 DEF Emit, Goto, KeepCall
    <3>2. CASE op[c] # "signOut"
      BY <1>8, <2>2, <2>3, <3>2 DEF Emit, EndRefresh
    <3>. QED
      BY <3>1, <3>2
  <2>5. \A i \in 1 .. n - 1 :
            /\ i + 1 \in 1 .. n /\ i + 1 # 1
            /\ announce[i + 1].call \in Calls /\ announce[i + 1].call # c
            /\ at[announce[i + 1].call] = "emit"
    <3>1. \A i \in 1 .. n - 1 : i + 1 \in 1 .. n /\ i + 1 # 1 /\ 1 \in 1 .. n
      BY <2>2
    <3>2. \A i \in 1 .. n - 1 : announce[i + 1].call \in Calls
      BY <3>1, EntryType
    <3>. QED
      BY <2>3, <3>1, <3>2 DEF QueueInv
  <2>6. \A i \in 1 .. n - 1 : at'[announce'[i].call] = "emit"
    BY <2>2, <2>4, <2>5
  <2>7. \A i, k \in 1 .. n - 1 : i # k => announce'[i].call # announce'[k].call
    <3>1. \A i, k \in 1 .. n - 1 : i # k => i + 1 # k + 1
      OBVIOUS
    <3>. QED
      BY <2>2, <2>5, <3>1 DEF QueueInv
  <2>8. access' = access /\ crossed' = crossed /\ socket' = Announced(announce[1])
    BY <1>8, <2>2 DEF Emit, tokenVars, historyVars
  <2>9. announce' = <<>> => socket' = access' \/ crossed'
    <3>1. announce' = <<>> => n = 1
      <4>1. announce' = <<>> => Len(announce') = 0
        OBVIOUS
      <4>2. n \in Nat /\ Len(announce') = n - 1
        BY <2>2
      <4>. HIDE DEF n
      <4>. QED
        BY <4>1, <4>2
    <3>. QED
      BY <2>1, <2>8, <3>1 DEF QueueInv
  <2>10. announce' # <<>> => Announced(announce[Len(announce)])' = access' \/ crossed'
    <3>1. announce' # <<>> => n - 1 \in 1 .. n - 1 /\ (n - 1) + 1 = n
      <4>1. announce' \in Seq([call : Calls, session : 0 .. issued])
        BY <2>1, <2>2, HeadAndTail
      <4>2. announce' # <<>> => Len(announce') # 0
        BY <4>1, EmptySeq
      <4>. QED
        BY <2>2, <4>2
    <3>2. announce' # <<>> => /\ announce'[n - 1] = announce[n]
                              /\ op'[announce[n].call] = op[announce[n].call]
      BY <2>2, <2>4, <2>5, <3>1
    <3>. QED
      BY <2>1, <2>2, <2>8, <3>2 DEF QueueInv, Announced
  <2>. QED
    BY <2>2, <2>6, <2>7, <2>9, <2>10 DEF QueueInv
<1>9. CASE Reload
  <2>1. Len(<<>>) = 0
    OBVIOUS
  <2>. QED
    BY <1>9, <2>1 DEF Reload, QueueInv
<1>10. CASE RestoreSession \/ Expire \/ (\E u \in Users : Rename(u)) \/ UNCHANGED vars
  <2>1. UNCHANGED <<at, op, announce, socket, access, crossed>>
    BY <1>10 DEF RestoreSession, Expire, Rename, vars, clientVars, tokenVars, callVars,
                 historyVars
  <2>. QED
    BY <2>1, QueueKept
<1>. QED
  BY <1>4, <1>5, <1>6, <1>7, <1>8, <1>9, <1>10 DEF Next

-----------------------------------------------------------------------------
(* Steps: what they leave alone.                                           *)

\* Call d is as it was.
Still(d) ==
    /\ op'[d] = op[d] /\ at'[d] = at[d] /\ arg'[d] = arg[d] /\ ans'[d] = ans[d]
    /\ tried'[d] = tried[d]

LEMMA AskMoves ==
    ASSUME TypeInv, NEW c \in Calls, Ask(c)
    PROVE  /\ \A d \in Calls \ {c} : Still(d)
           /\ at[c] = "idle" /\ ans'[c] = "none" /\ revoked' = revoked
<1>. USE DEF TypeInv, CallsOK, Shape
<1>. QED
  BY DEF Ask, SignIn, SignOut, Refresh, RefreshSession, GetUser, Rest, Begin, Goto, Still,
         serverVars

LEMMA AnswerMoves ==
    ASSUME TypeInv, NEW c \in Calls, NEW kind, NEW a, Answer(c, kind, a)
    PROVE  /\ \A d \in Calls \ {c} : Still(d)
           /\ op'[c] = op[c] /\ at'[c] = at[c] /\ tried'[c] = tried[c]
           /\ ans'[c] = kind /\ arg'[c] = a
BY DEF Answer, Still, TypeInv, CallsOK, Shape

LEMMA GotoMoves ==
    ASSUME TypeInv, NEW c \in Calls, NEW p, NEW a, Goto(c, p, a)
    PROVE  /\ at'[c] = p /\ arg'[c] = a /\ ans'[c] = "none"
           /\ KeepCall => op'[c] = op[c] /\ tried'[c] = tried[c]
                          /\ \A d \in Calls \ {c} : Still(d)
BY DEF Goto, KeepCall, Still, TypeInv, CallsOK, Shape

LEMMA DoneMoves ==
    ASSUME TypeInv, NEW c \in Calls, Done(c)
    PROVE  /\ at'[c] = "idle" /\ arg'[c] = 0 /\ ans'[c] = "none" /\ op'[c] = "none"
           /\ tried'[c] = 0
           /\ \A d \in Calls \ {c} : Still(d)
BY DEF Done, Goto, Still, TypeInv, CallsOK, Shape

\* the calls that the end of a refresh moves
LEMMA EndMoves ==
    ASSUME TypeInv, NEW c \in Calls, NEW won, EndRefresh(c, won)
    PROVE  /\ \A d \in Calls : d # c /\ ~(op[c] = "rest" /\ at[d] = "join") => Still(d)
           /\ \A d \in Calls : d = c \/ (op[c] = "rest" /\ at[d] = "join") =>
                /\ ans'[d] = "none"
                /\ \/ at'[d] = "retry" /\ arg'[d] = access /\ tried'[d] = tried[d]
                      /\ op'[d] = op[d] /\ won /\ op[c] = "rest"
                   \/ at'[d] = "idle" /\ arg'[d] = 0 /\ tried'[d] = 0 /\ op'[d] = "none"
           /\ starter' = IF starter = c THEN NoCall ELSE starter
<1>. DEFINE waiting == {d \in Calls : d = c \/ (op[c] = "rest" /\ at[d] = "join")}
            again == IF won /\ op[c] = "rest" THEN waiting ELSE {}
            ended == waiting \ again
<1>1. /\ at' = [d \in Calls |-> IF d \in again THEN "retry"
                                ELSE IF d \in ended THEN "idle" ELSE at[d]]
      /\ arg' = [d \in Calls |-> IF d \in again THEN RetryToken(d)
                                 ELSE IF d \in ended THEN 0 ELSE arg[d]]
      /\ ans' = [d \in Calls |-> IF d \in waiting THEN "none" ELSE ans[d]]
      /\ op' = [d \in Calls |-> IF d \in ended THEN "none" ELSE op[d]]
      /\ tried' = [d \in Calls |-> IF d \in ended THEN 0 ELSE tried[d]]
      /\ starter' = Landed(c)
  BY DEF EndRefresh
<1>2. /\ again \subseteq waiting /\ ended = waiting \ again
      /\ again # {} => won /\ op[c] = "rest"
      /\ \A d \in Calls : d \in waiting <=> d = c \/ (op[c] = "rest" /\ at[d] = "join")
  OBVIOUS
<1>. HIDE DEF again, ended, waiting
<1>. QED
  BY <1>1, <1>2 DEF Still, RetryToken, Landed

\* the call whose change the listeners hear of next
LEMMA EmitsOne ==
    ASSUME TypeInv, Emit
    PROVE  /\ Head(announce) = announce[1] /\ 1 \in 1 .. Len(announce)
           /\ Head(announce).call \in Calls
<1>1. announce # <<>> /\ announce \in Seq([call : Calls, session : 0 .. issued])
  BY DEF Emit, TypeInv, ClientOK, Changes
<1>2. Head(announce) = announce[1] /\ 1 \in 1 .. Len(announce)
  BY <1>1, HeadAndTail
<1>. QED
  BY <1>2, EntryType


-----------------------------------------------------------------------------
(* Steps: sessions that are dropped, and who refreshes.                    *)

\* What the server refused, it had revoked.
RefusedInv == \A c \in Calls : at[c] = "refresh" /\ ans[c] = "refused" => arg[c] \in revoked

LEMMA RefusedNext == TypeInv /\ QueueInv /\ RefusedInv /\ [Next]_vars => RefusedInv'
<1>. SUFFICES ASSUME TypeInv, QueueInv, RefusedInv, [Next]_vars,
                     NEW d \in Calls, at'[d] = "refresh", ans'[d] = "refused"
              PROVE  arg'[d] \in revoked'
  BY DEF RefusedInv
<1>1. ASSUME Still(d), revoked \subseteq revoked'
      PROVE  arg'[d] \in revoked'
  BY <1>1 DEF Still, RefusedInv
<1>2. ASSUME NEW c \in Calls, Ask(c)
      PROVE  arg'[d] \in revoked'
  BY <1>1, <1>2, AskMoves
<1>3. ASSUME NEW c \in Calls, Serve(c) \/ Fail(c)
      PROVE  arg'[d] \in revoked'
  <2>1. revoked \subseteq revoked'
    BY <1>3 DEF Serve, ServeToken, ServeRotation, ServeBarred, ServeReuse, ServeLogout,
                ServeBearer, Fail, serverVars
  <2>2. ASSUME NEW kind, NEW a, Answer(c, kind, a), at[c] # "refresh" \/ kind # "refused"
        PROVE  arg'[d] \in revoked'
    BY <1>1, <2>1, <2>2, AnswerMoves
  <2>3. CASE ServeReuse(c)
    <3>1. Answer(c, "refused", arg[c]) /\ arg[c] \in revoked'
      BY <2>3 DEF ServeReuse
    <3>. QED
      BY <1>1, <2>1, <3>1, AnswerMoves
  <2>. QED
    BY <1>3, <2>2, <2>3
    DEF Serve, ServeToken, ServeRotation, ServeBarred, ServeLogout, ServeBearer, Fail,
        Grant, Waiting
<1>4. ASSUME NEW c \in Calls, GoOn(c)
      PROVE  arg'[d] \in revoked'
  <2>1. revoked' = revoked
    BY <1>4 DEF GoOn, SignInAnswered, SignOutAnswered, RefreshAnswered, GetUserAnswered,
                RestAnswered, RetryAnswered, serverVars
  <2>2. Still(d) \/ ans'[d] = "none"
    BY <1>4, GotoMoves, DoneMoves, EndMoves
    DEF GoOn, SignInAnswered, SignOutAnswered, RefreshAnswered, GetUserAnswered,
        RestAnswered, RetryAnswered, Adopt, RefreshFailed, Handle401, RefreshSession
  <2>. QED
    BY <1>1, <2>1, <2>2
<1>5. CASE Emit
  <2>1. Head(announce).call \in Calls
    BY <1>5, EmitsOne
  <2>2. revoked' = revoked /\ (Still(d) \/ ans'[d] = "none")
    BY <1>5, <2>1, GotoMoves, EndMoves DEF Emit, serverVars
  <2>. QED
    BY <1>1, <2>2
<1>6. CASE Reload
  BY <1>6 DEF Reload
<1>7. CASE \/ RestoreSession \/ AdoptStored \/ Expire
           \/ \E u \in Users : Rename(u)
           \/ UNCHANGED vars
  BY <1>1, <1>7 DEF RestoreSession, AdoptStored, Expire, Rename, vars, callVars, serverVars,
                    Still
<1>. QED
  BY <1>2, <1>3, <1>4, <1>5, <1>6, <1>7 DEF Next

\* an answer to call c ends the session, whose token is not revoked
Answered(c) ==
    /\ at'[c] # at[c]
    /\ \/ at[c] = "refresh" /\ ans[c] = "refused" /\ arg[c] # refresh
       \/ at[c] = "refresh" /\ ans[c] = "barred"
       \/ at[c] = "token" /\ ans[c] = "pending"

\* a sign-out, a page load or such an answer
Dropped == \/ out' = "asked" \/ mishaps' > mishaps \/ \E c \in Calls : Answered(c)

(***************************************************************************)
(* A session is dropped where the code drops it.                           *)
(***************************************************************************)
LEMMA LiveNext ==
    ASSUME TypeInv, StoreInv, RefusedInv, Next,
           access # 0, refresh # 0, refresh \notin revoked, access' = 0
    PROVE  Dropped
<1>. USE DEF Dropped, Answered
<1>1. refresh # 0 /\ mishaps \in Nat /\ issued \in Nat
  BY SdkAssumption DEF TypeInv, ServerOK
<1>2. ASSUME NEW c \in Calls, Ask(c)
      PROVE  Dropped
  BY <1>1, <1>2 DEF Ask, SignIn, SignOut, Refresh, RefreshSession, GetUser, Rest, clientVars,
                    tokenVars
<1>3. ASSUME NEW c \in Calls, Serve(c) \/ Fail(c)
      PROVE  Dropped
  BY <1>3 DEF Serve, ServeToken, ServeRotation, ServeBarred, ServeReuse, ServeLogout,
              ServeBearer, Fail, clientVars, tokenVars
<1>4. ASSUME NEW c \in Calls, GoOn(c)
      PROVE  Dropped
  <2>1. at[c] \in {"token", "refresh", "user"} /\ ans[c] \in Good => arg[c] # 0
    BY <1>1 DEF TypeInv, CallsOK, CallOK, Issued, Good
  <2>2. CASE SignInAnswered(c)
    <3>1. CASE ans[c] = "pending"
      <4>1. at'[c] = "emit"
        BY <2>2, <3>1, GotoMoves DEF SignInAnswered, Adopt, Good
      <4>. QED
        BY <2>2, <3>1, <4>1 DEF SignInAnswered
    <3>2. CASE ans[c] # "pending"
      BY <2>1, <2>2, <3>2 DEF SignInAnswered, Adopt, SetSession, tokenVars
    <3>. QED
      BY <3>1, <3>2
  <2>3. CASE RefreshAnswered(c)
    <3>1. CASE ans[c] \in Good
      BY <2>1, <2>3, <3>1 DEF RefreshAnswered, Adopt, SetSession, Good
    <3>2. CASE ans[c] \in {"refused", "barred"}
      <4>1. at'[c] = "emit"
        BY <2>3, <3>2, GotoMoves DEF RefreshAnswered, RefreshFailed, Good
      <4>. QED
        BY <2>3, <3>2, <4>1 DEF RefreshAnswered, RefusedInv
    <3>3. CASE ans[c] = "network"
      BY <2>3, <3>3 DEF RefreshAnswered, RefreshFailed, tokenVars, Good
    <3>. QED
      BY <2>3, <3>1, <3>2, <3>3 DEF RefreshAnswered
  <2>4. CASE GetUserAnswered(c)
    BY <2>1, <2>4 DEF GetUserAnswered, SetSession, tokenVars
  <2>5. CASE RestAnswered(c)
    BY <1>1, <2>5 DEF RestAnswered, Handle401, RefreshSession, tokenVars
  <2>. QED
    BY <1>4, <2>2, <2>3, <2>4, <2>5
    DEF GoOn, SignOutAnswered, RetryAnswered, clientVars, tokenVars
<1>5. CASE RestoreSession \/ AdoptStored
  BY <1>5 DEF RestoreSession, AdoptStored, StoreInv, Whole, tokenVars
<1>6. CASE Reload
  BY <1>1, <1>6 DEF Reload
<1>. QED
  BY <1>2, <1>3, <1>4, <1>5, <1>6 DEF Next, Emit, Expire, Rename, clientVars, tokenVars

(***************************************************************************)
(* The first of several 401s is the only one that refreshes.               *)
(***************************************************************************)
StarterInv ==
    \A d \in Calls : op[d] = "rest" /\ at[d] \in {"refresh", "emit"} => starter = d

LEMMA StarterNext == TypeInv /\ StarterInv /\ [Next]_vars => StarterInv'
<1>. SUFFICES ASSUME TypeInv, StarterInv, [Next]_vars,
                     NEW d \in Calls, op'[d] = "rest", at'[d] \in {"refresh", "emit"}
              PROVE  starter' = d
  BY DEF StarterInv
<1>1. ASSUME Still(d), starter' = starter
      PROVE  starter' = d
  BY <1>1 DEF Still, StarterInv
<1>2. ASSUME NEW c \in Calls, Ask(c)
      PROVE  starter' = d
  <2>1. starter' = starter /\ (d # c => Still(d))
    BY <1>2, AskMoves DEF Ask, SignIn, SignOut, Refresh, GetUser, Rest, clientVars
  <2>2. d # c
    BY <1>2, GotoMoves
    DEF Ask, SignIn, SignOut, Refresh, GetUser, Rest, Begin, TypeInv, CallsOK, Shape
  <2>. QED
    BY <1>1, <2>1, <2>2
<1>3. ASSUME NEW c \in Calls, Serve(c) \/ Fail(c)
      PROVE  starter' = d
  <2>1. starter' = starter /\ at' = at /\ op' = op
    BY <1>3 DEF Serve, ServeToken, ServeRotation, ServeBarred, ServeReuse, ServeLogout,
                ServeBearer, Fail, Grant, Answer, clientVars
  <2>. QED
    BY <2>1 DEF StarterInv
<1>4. ASSUME NEW c \in Calls, GoOn(c)
      PROVE  starter' = d
  <2>1. CASE SignInAnswered(c)
    BY <1>1, <2>1, GotoMoves, DoneMoves
    DEF SignInAnswered, Adopt, StarterInv, TypeInv, CallsOK, CallOK
  <2>2. CASE RefreshAnswered(c)
    <3>1. CASE starter' = starter /\ KeepCall /\ \E p, a : Goto(c, p, a)
      <4>1. (d # c => Still(d)) /\ op'[c] = op[c]
        BY <3>1, GotoMoves
      <4>. QED
        BY <1>1, <2>2, <3>1, <4>1 DEF RefreshAnswered, StarterInv
    <3>2. CASE EndRefresh(c, FALSE)
      <4>1. /\ at'[c] \in {"retry", "idle"}
            /\ Still(d) \/ at'[d] \in {"retry", "idle"}
            /\ starter' = IF starter = c THEN NoCall ELSE starter
        BY <3>2, EndMoves
      <4>2. d # c /\ Still(d)
        BY <4>1
      <4>. QED
        BY <1>1, <4>1, <4>2 DEF StarterInv, Still
    <3>. QED
      BY <2>2, <3>1, <3>2 DEF RefreshAnswered, RefreshFailed, Adopt
  <2>3. CASE RestAnswered(c)
    <3>1. CASE Done(c) /\ starter' = starter
      BY <1>1, <3>1, DoneMoves
    <3>2. CASE KeepCall /\ Goto(c, "join", 0) /\ starter' = starter
      <4>1. (d # c => Still(d)) /\ at'[c] = "join"
        BY <3>2, GotoMoves
      <4>. QED
        BY <1>1, <3>2, <4>1
    <3>3. CASE starter = NoCall /\ starter' = c /\ KeepCall /\ \E p, a : Goto(c, p, a)
      <4>1. d # c => Still(d)
        BY <3>3, GotoMoves
      <4>. QED
        BY <3>3, <4>1, SdkAssumption DEF Still, StarterInv
    <3>. QED
      BY <2>3, <3>1, <3>2, <3>3 DEF RestAnswered, Handle401, RefreshSession
  <2>4. CASE GetUserAnswered(c)
    <3>1. starter' = starter /\ op[c] = "getUser"
      BY <2>4 DEF GetUserAnswered, TypeInv, CallsOK, CallOK
    <3>2. CASE Done(c)
      BY <1>1, <3>1, <3>2, DoneMoves
    <3>3. CASE KeepCall /\ \E p, a : Goto(c, p, a)
      <4>1. (d # c => Still(d)) /\ op'[c] = op[c]
        BY <3>3, GotoMoves
      <4>. QED
        BY <1>1, <3>1, <4>1
    <3>. QED
      BY <2>4, <3>2, <3>3 DEF GetUserAnswered
  <2>5. CASE SignOutAnswered(c) \/ RetryAnswered(c)
    BY <1>1, <2>5, DoneMoves DEF SignOutAnswered, RetryAnswered, clientVars
  <2>. QED
    BY <1>4, <2>1, <2>2, <2>3, <2>4, <2>5 DEF GoOn
<1>5. CASE Emit
  <2>1. PICK c \in Calls : c = Head(announce).call
    BY <1>5, EmitsOne
  <2>2. CASE op[c] = "signOut"
    BY <1>1, <1>5, <2>1, <2>2, GotoMoves DEF Emit
  <2>3. CASE op[c] # "signOut"
    BY <1>1, <1>5, <2>1, <2>3, EndMoves DEF Emit, StarterInv, Still
  <2>. QED
    BY <2>2, <2>3
<1>6. CASE Reload
  BY <1>6 DEF Reload
<1>7. CASE \/ RestoreSession \/ AdoptStored \/ Expire
           \/ \E u \in Users : Rename(u)
           \/ UNCHANGED vars
  BY <1>1, <1>7 DEF RestoreSession, AdoptStored, Expire, Rename, vars, callVars, clientVars,
                    Still
<1>. QED
  BY <1>2, <1>3, <1>4, <1>5, <1>6, <1>7 DEF Next

-----------------------------------------------------------------------------
(* Steps: a pair in an answer is nowhere else.                             *)

\* Call c has an answer with a pair to take over.
Adopting(c) == at[c] \in {"token", "refresh"} /\ ans[c] \in Good

\* memory, the storage or a restoreSession under way has token t
Memory(t) == t \in {access, refresh, stored[1], stored[2], reading[1], reading[2]}

\* call d presented t, carries it or was answered it
Knows(d, t) ==
    \/ t = tried[d]
    \/ t = arg[d] /\ (at[d] # "token" \/ ans[d] \in Good)
    \/ t = Presented(d) /\ at[d] = "refresh"

\* so does the client or a call other than e
Elsewhere(e, t) == Memory(t) \/ t = tried[e] \/ \E d \in Calls \ {e} : Knows(d, t)

(***************************************************************************)
(* The pair in an answer that is still to be read is nowhere else.         *)
(***************************************************************************)
FreshInv == \A e \in Calls : Adopting(e) => ~Elsewhere(e, arg[e])

LEMMA StillKnows ==
    ASSUME TypeInv, Grows, NEW d \in Calls, Still(d), NEW t, Knows(d, t)'
    PROVE  Knows(d, t)
BY DEF Still, Knows, Presented, Grows, TypeInv, CallsOK, CallOK, Good

\* the pair itself is one that the server has issued
LEMMA AdoptedPair ==
    ASSUME TypeInv, NEW e \in Calls, Adopting(e)
    PROVE  arg[e] \in Issued /\ arg[e] \in Nat /\ arg[e] # 0
<1>1. arg[e] \in Issued
  BY DEF TypeInv, CallsOK, CallOK, Adopting, Good
<1>. QED
  BY <1>1, SdkAssumption DEF Issued, TypeInv, ServerOK

(***************************************************************************)
(* No step but the server's grant makes an answer to adopt.                *)
(***************************************************************************)
LEMMA FreshKept ==
    ASSUME TypeInv, FreshInv, Grows, NEW c \in Calls,
           \A d \in Calls \ {c} : Still(d), ~Adopting(c)',
           \A t : Memory(t)' => t = 0 \/ Memory(t) \/ Knows(c, t),
           \A t : Knows(c, t)' => t = 0 \/ Memory(t) \/ Knows(c, t)
    PROVE  FreshInv'
<1>. SUFFICES ASSUME NEW e \in Calls, Adopting(e)', Elsewhere(e, arg[e])'
              PROVE  FALSE
  BY DEF FreshInv
<1>1. e # c /\ Still(e)
  OBVIOUS
<1>2. Adopting(e) /\ arg'[e] = arg[e] /\ tried'[e] = tried[e]
  BY <1>1 DEF Adopting, Still
<1>3. arg[e] # 0
  BY <1>2, AdoptedPair
<1>4. ~Memory(arg[e]) /\ ~Knows(c, arg[e]) /\ arg[e] # tried[e]
      /\ \A d \in Calls \ {e} : ~Knows(d, arg[e])
  BY <1>1, <1>2 DEF FreshInv, Elsewhere
<1>5. ~Memory(arg[e])' /\ ~Knows(c, arg[e])'
  BY <1>2, <1>3, <1>4
<1>6. \A d \in Calls \ {e} : ~Knows(d, arg[e])'
  BY <1>2, <1>4, <1>5, StillKnows
<1>. QED
  BY <1>2, <1>4, <1>5, <1>6 DEF Elsewhere

LEMMA FreshGranted ==
    ASSUME TypeInv, TypeInv', FreshInv, Grows, NEW c \in Calls, NEW u, NEW p, Grant(c, u, p),
           at[c] = "token" \/ (at[c] = "refresh" /\ p = arg[c]), ans[c] = "none",
           UNCHANGED <<tokenVars, reading>>
    PROVE  FreshInv'
<1>1. PICK kind \in {"ok", "renamed"} : Answer(c, kind, issued + 1)
  BY DEF Grant
<1>2. /\ \A d \in Calls \ {c} : Still(d)
      /\ op'[c] = op[c] /\ at'[c] = at[c] /\ tried'[c] = tried[c]
      /\ ans'[c] = kind /\ arg'[c] = issued + 1
  BY <1>1, AnswerMoves
<1>3. issued \in Nat /\ issued' = issued + 1 /\ parent'[issued + 1] = p
  BY SdkAssumption DEF Grant, TypeInv, ServerOK, Pairs
<1>4. \A t : Memory(t)' => Memory(t)
  BY DEF Memory, tokenVars
<1>5. \A t : Knows(c, t)' => t = issued + 1 \/ Knows(c, t)
  <2>1. at[c] = "refresh" => arg[c] = Presented(c) /\ p = Presented(c)'
    BY <1>2, <1>3 DEF Presented, Good
  <2>. QED
    BY <1>2, <2>1 DEF Knows, Presented, Good
<1>6. \A t : Memory(t) => t \in 0 .. issued
  BY DEF Memory, TypeInv, ClientOK
<1>7. ASSUME NEW d \in Calls, d # c, NEW t, Knows(d, t)
      PROVE  t # issued + 1
  <2>1. CASE t = tried[d]
    BY <1>3, <2>1 DEF TypeInv, CallsOK, CallOK
  <2>2. CASE t = arg[d] /\ (at[d] # "token" \/ ans[d] \in Good)
    <3>1. arg[d] \in 0 .. issued
      BY <2>2, <1>3 DEF TypeInv, CallsOK, CallOK, Issued
    <3>. QED
      BY <1>3, <2>2, <3>1
  <2>3. CASE t = Presented(d) /\ at[d] = "refresh"
    <3>1. Presented(d) \in 0 .. issued
      BY <2>3, <1>3 DEF Presented, TypeInv, CallsOK, CallOK, Issued, Good
    <3>. QED
      BY <1>3, <2>3, <3>1
  <2>. QED
    BY <1>7, <2>1, <2>2, <2>3 DEF Knows
<1>. SUFFICES ASSUME NEW e \in Calls, Adopting(e)', Elsewhere(e, arg[e])'
              PROVE  FALSE
  BY DEF FreshInv
<1>8. CASE e = c
  <2>1. arg'[e] = issued + 1 /\ tried'[c] = tried[c] /\ tried[c] \in 0 .. issued
    BY <1>2, <1>8 DEF TypeInv, CallsOK, CallOK
  <2>2. ~Memory(arg[c])' /\ tried'[c] # arg'[c]
    BY <1>3, <1>4, <1>6, <1>8, <2>1
  <2>3. \A d \in Calls \ {c} : ~Knows(d, arg[c])'
    BY <1>2, <1>7, StillKnows
  <2>. QED
    BY <1>8, <2>1, <2>2, <2>3 DEF Elsewhere
<1>9. CASE e # c
  <2>1. Adopting(e) /\ Still(e)
    BY <1>2, <1>9 DEF Adopting, Still
  <2>2. arg'[e] = arg[e] /\ tried'[e] = tried[e] /\ arg[e] # issued + 1
    BY <1>3, <2>1, AdoptedPair DEF Still, Issued
  <2>3. ~Memory(arg[e]) /\ arg[e] # tried[e] /\ \A d \in Calls \ {e} : ~Knows(d, arg[e])
    BY <2>1 DEF FreshInv, Elsewhere
  <2>4. \A d \in Calls \ {e} : ~Knows(d, arg[e])'
    BY <1>2, <1>5, <2>2, <2>3, StillKnows
  <2>. QED
    BY <1>4, <2>2, <2>3, <2>4 DEF Elsewhere
<1>. QED
  BY <1>8, <1>9

LEMMA FreshNext ==
    TypeInv /\ TypeInv' /\ QueueInv /\ FreshInv /\ [Next]_vars => FreshInv'
<1>. SUFFICES ASSUME TypeInv, TypeInv', QueueInv, FreshInv, [Next]_vars
              PROVE  FreshInv'
  OBVIOUS
<1>1. ASSUME UNCHANGED serverVars
      PROVE  Grows
  BY <1>1, SdkAssumption DEF Grows, serverVars, TypeInv, ServerOK
<1>2. ASSUME UNCHANGED serverVars, \A e \in Calls : Adopting(e)' => Adopting(e) /\ Still(e),
             \A t : Memory(t)' => t = 0 \/ Memory(t),
             \A d \in Calls : \A t : Knows(d, t)' => t = 0 \/ Memory(t) \/ Knows(d, t)
      PROVE  FreshInv'
  <2>. SUFFICES ASSUME NEW e \in Calls, Adopting(e)', Elsewhere(e, arg[e])'
                PROVE  FALSE
    BY DEF FreshInv
  <2>1. Adopting(e) /\ arg'[e] = arg[e] /\ tried'[e] = tried[e] /\ arg[e] # 0
    BY <1>2, AdoptedPair DEF Still
  <2>2. ~Memory(arg[e]) /\ arg[e] # tried[e] /\ \A d \in Calls \ {e} : ~Knows(d, arg[e])
    BY <2>1 DEF FreshInv, Elsewhere
  <2>3. ~Memory(arg[e])' /\ \A d \in Calls \ {e} : ~Knows(d, arg[e])'
    BY <1>2, <2>1, <2>2
  <2>. QED
    BY <2>1, <2>2, <2>3 DEF Elsewhere
<1>3. ASSUME UNCHANGED <<serverVars, tokenVars, reading>>, NEW c \in Calls,
             \A d \in Calls \ {c} : Still(d), ans'[c] = "none",
             \/ at'[c] = "token"
             \/ arg'[c] \in {0, access, refresh} \/ (arg'[c] = arg[c] /\ at[c] # "token"),
             tried'[c] \in {0, access, tried[c]}
      PROVE  FreshInv'
  <2>1. \A x : Knows(c, x)' => x = 0 \/ Memory(x) \/ Knows(c, x)
    BY <1>3 DEF Knows, Presented, Memory, Good
  <2>2. \A x : Memory(x)' => Memory(x)
    BY <1>3 DEF Memory, tokenVars
  <2>3. ~Adopting(c)' /\ Grows
    BY <1>1, <1>3 DEF Adopting, Good
  <2>. QED
    BY <1>3, <2>1, <2>2, <2>3, FreshKept
<1>4. ASSUME NEW c \in Calls, UNCHANGED serverVars,
             \A d \in Calls \ {c} : Still(d), ans'[c] = "none",
             at[c] # "token" \/ ans[c] \in Good,
             arg'[c] \in {0, refresh, arg[c]}, tried'[c] = tried[c],
             \A x : Memory(x)' => x = 0 \/ x = arg[c] \/ Memory(x)
      PROVE  FreshInv'
  <2>1. \A x : Knows(c, x)' => x = 0 \/ Memory(x) \/ Knows(c, x)
    BY <1>4 DEF Knows, Presented, Memory, Good
  <2>2. \A x : Memory(x)' => x = 0 \/ Memory(x) \/ Knows(c, x)
    BY <1>4 DEF Knows
  <2>3. ~Adopting(c)' /\ Grows
    BY <1>1, <1>4 DEF Adopting, Good
  <2>. QED
    BY <1>4, <2>1, <2>2, <2>3, FreshKept
<1>5. Memory(access) /\ Memory(refresh)
  BY DEF Memory
<1>6. ASSUME NEW a, NEW r, NEW u, SetSession(a, r, u), reading' = reading
      PROVE  \A x : Memory(x)' => x = 0 \/ x = a \/ x = r \/ Memory(x)
  BY <1>6 DEF SetSession, Persisted, NoPair, Memory
<1>7. ASSUME NEW c \in Calls, Ask(c)
      PROVE  FreshInv'
  <2>1. (\A d \in Calls \ {c} : Still(d)) /\ at[c] = "idle" /\ ans'[c] = "none"
    BY <1>7, AskMoves
  <2>2. tried' = tried => tried'[c] = tried[c]
    OBVIOUS
  <2>3. CASE \E u \in Users : SignIn(c, u)
    BY <1>3, <2>1, <2>2, <2>3, GotoMoves DEF SignIn, clientVars
  <2>4. CASE SignOut(c)
    <3>1. Goto(c, "emit", refresh) /\ ClearSession /\ UNCHANGED <<serverVars, reading, tried>>
      BY <2>4 DEF SignOut
    <3>2. at'[c] = "emit" /\ arg'[c] = refresh
      BY <3>1, GotoMoves
    <3>3. \A x : Memory(x)' => x = 0 \/ Memory(x)
      BY <1>6, <3>1 DEF ClearSession
    <3>. QED
      BY <1>4, <1>5, <2>1, <2>2, <3>1, <3>2, <3>3
  <2>5. CASE Refresh(c)
    <3>1. UNCHANGED <<serverVars, reading, tried>>
          /\ \/ Goto(c, "emit", 0) /\ ClearSession
             \/ Goto(c, "refresh", refresh) /\ UNCHANGED tokenVars
      BY <2>5 DEF Refresh, RefreshSession
    <3>2. CASE Goto(c, "emit", 0) /\ ClearSession
      BY <1>4, <1>6, <2>1, <2>2, <3>1, <3>2, GotoMoves DEF ClearSession
    <3>3. CASE Goto(c, "refresh", refresh) /\ UNCHANGED tokenVars
      BY <1>3, <1>5, <2>1, <2>2, <3>1, <3>3, GotoMoves
    <3>. QED
      BY <3>1, <3>2, <3>3
  <2>6. CASE GetUser(c)
    BY <1>3, <1>5, <2>1, <2>2, <2>6, GotoMoves DEF GetUser, clientVars
  <2>7. CASE Rest(c)
    <3>1. tried'[c] = access
      BY <2>7 DEF Rest, TypeInv, CallsOK, Shape
    <3>. QED
      BY <1>3, <1>5, <2>1, <2>7, <3>1, GotoMoves DEF Rest, clientVars
  <2>. QED
    BY <1>7, <2>3, <2>4, <2>5, <2>6, <2>7 DEF Ask
<1>8. ASSUME NEW c \in Calls, Serve(c) \/ Fail(c)
      PROVE  FreshInv'
  <2>1. ASSUME NEW kind, NEW a, Answer(c, kind, a), Grows, UNCHANGED <<tokenVars, reading>>,
               at[c] \in {"token", "refresh"} => kind \notin Good,
               a = 0 \/ (a = arg[c] /\ ans[c] = "none")
        PROVE  FreshInv'
    <3>1. /\ \A d \in Calls \ {c} : Still(d)
          /\ op'[c] = op[c] /\ at'[c] = at[c] /\ tried'[c] = tried[c]
          /\ ans'[c] = kind /\ arg'[c] = a
      BY <2>1, AnswerMoves
    <3>2. \A x : Knows(c, x)' => x = 0 \/ Knows(c, x)
      BY <2>1, <3>1 DEF Knows, Presented, Good
    <3>3. \A x : Memory(x)' => Memory(x)
      BY <2>1 DEF Memory, tokenVars
    <3>4. ~Adopting(c)'
      BY <2>1, <3>1 DEF Adopting
    <3>. QED
      BY <2>1, <3>1, <3>2, <3>3, <3>4, FreshKept
  <2>2. Grows
    BY <1>8, SdkAssumption
    DEF Serve, ServeToken, ServeRotation, ServeBarred, ServeReuse, ServeLogout, ServeBearer,
        Fail, Grant, Grows, TypeInv, ServerOK, Issued, Pairs, serverVars
  <2>3. UNCHANGED <<tokenVars, reading>>
    BY <1>8 DEF Serve, ServeToken, ServeRotation, ServeBarred, ServeReuse, ServeLogout,
                ServeBearer, Fail, clientVars
  <2>4. CASE ServeToken(c)
    BY <2>1, <2>2, <2>3, <2>4, FreshGranted DEF ServeToken, Waiting, Good
  <2>5. CASE ServeRotation(c)
    BY <2>2, <2>3, <2>5, FreshGranted DEF ServeRotation, Waiting
  <2>6. CASE ServeReuse(c)
    BY <2>1, <2>2, <2>3, <2>6 DEF ServeReuse, Waiting, Good
  <2>7. CASE ServeLogout(c)
    BY <2>1, <2>2, <2>3, <2>7 DEF ServeLogout, Waiting
  <2>8. CASE ServeBearer(c)
    BY <2>1, <2>2, <2>3, <2>8 DEF ServeBearer, Waiting
  <2>9. CASE ServeBarred(c)
    BY <2>1, <2>2, <2>3, <2>9 DEF ServeBarred, Waiting, Good
  <2>10. CASE Fail(c)
    BY <2>1, <2>2, <2>3, <2>10 DEF Fail, Good
  <2>. QED
    BY <1>8, <2>4, <2>5, <2>6, <2>7, <2>8, <2>9, <2>10 DEF Serve
<1>9. ASSUME NEW c \in Calls, GoOn(c)
      PROVE  FreshInv'
  <2>1. UNCHANGED <<serverVars, reading>>
    BY <1>9 DEF GoOn, SignInAnswered, SignOutAnswered, RefreshAnswered, GetUserAnswered,
                RestAnswered, RetryAnswered, clientVars
  <2>2. ASSUME Done(c), UNCHANGED tokenVars
        PROVE  FreshInv'
    <3>1. /\ at'[c] = "idle" /\ arg'[c] = 0 /\ ans'[c] = "none" /\ tried'[c] = 0
          /\ \A d \in Calls \ {c} : Still(d)
      BY <2>2, DoneMoves
    <3>. QED
      BY <1>3, <2>1, <2>2, <3>1
  <2>3. ASSUME NEW a \in {0, arg[c]}, NEW u, Adopt(c, a, u),
               at[c] # "token" \/ ans[c] \in Good
        PROVE  FreshInv'
    BY <1>4, <1>6, <2>1, <2>3, GotoMoves DEF Adopt
  <2>4. ASSUME EndRefresh(c, FALSE), UNCHANGED tokenVars
        PROVE  FreshInv'
    <3>1. \A d \in Calls : Still(d) \/ (at'[d] = "idle" /\ arg'[d] = 0 /\ tried'[d] = 0
                                        /\ ans'[d] = "none")
      BY <2>4, EndMoves
    <3>2. \A d \in Calls : \A t : Knows(d, t)' => t = 0 \/ Memory(t) \/ Knows(d, t)
      BY <1>1, <2>1, <3>1, StillKnows DEF Knows
    <3>3. \A e \in Calls : Adopting(e)' => Adopting(e) /\ Still(e)
      BY <3>1 DEF Adopting, Still
    <3>. QED
      BY <1>2, <2>1, <2>4, <3>2, <3>3 DEF Memory, tokenVars
  <2>5. CASE SignInAnswered(c)
    <3>1. ASSUME Adopt(c, 0, <<arg[c], FALSE>>)
          PROVE  FreshInv'
      <4>1. /\ at'[c] = "emit" /\ arg'[c] = 0 /\ ans'[c] = "none" /\ tried'[c] = tried[c]
            /\ \A d \in Calls \ {c} : Still(d)
        BY <3>1, GotoMoves DEF Adopt
      <4>2. \A x : Memory(x)' => x = 0 \/ Memory(x)
        BY <1>6, <2>1, <3>1 DEF Adopt
      <4>3. \A x : Knows(c, x)' => x = 0 \/ Knows(c, x)
        BY <4>1 DEF Knows
      <4>4. ~Adopting(c)' /\ Grows
        BY <1>1, <2>1, <4>1 DEF Adopting, Good
      <4>. QED
        BY <4>1, <4>2, <4>3, <4>4, FreshKept
    <3>. QED
      BY <2>2, <2>3, <2>5, <3>1 DEF SignInAnswered
  <2>6. CASE RefreshAnswered(c)
    <3>1. CASE ans[c] \in {"refused", "barred"}
      <4>1. ClearSession /\ Goto(c, "emit", 0) /\ KeepCall /\ at[c] = "refresh"
        BY <2>6, <3>1 DEF RefreshAnswered, RefreshFailed, Good
      <4>. QED
        BY <1>4, <1>6, <2>1, <4>1, GotoMoves DEF ClearSession
    <3>. QED
      BY <2>3, <2>4, <2>6, <3>1 DEF RefreshAnswered, RefreshFailed
  <2>7. CASE GetUserAnswered(c)
    <3>1. CASE SetSession(arg[c], refresh, UserOf(c)) /\ Goto(c, "emit", arg[c]) /\ KeepCall
      BY <1>4, <1>5, <1>6, <2>1, <2>7, <3>1, GotoMoves DEF GetUserAnswered
    <3>. QED
      BY <2>2, <2>7, <3>1 DEF GetUserAnswered
  <2>8. CASE RestAnswered(c)
    <3>1. CASE Goto(c, "join", 0) /\ UNCHANGED tokenVars /\ KeepCall
      BY <1>3, <2>1, <3>1, GotoMoves
    <3>2. CASE Goto(c, "emit", 0) /\ ClearSession /\ KeepCall
      <4>1. /\ at'[c] = "emit" /\ arg'[c] = 0 /\ ans'[c] = "none" /\ tried'[c] = tried[c]
            /\ \A d \in Calls \ {c} : Still(d)
        BY <3>2, GotoMoves
      <4>2. at[c] # "token" /\ \A x : Memory(x)' => x = 0 \/ Memory(x)
        BY <1>6, <2>1, <2>8, <3>2 DEF ClearSession, RestAnswered
      <4>. QED
        BY <1>4, <2>1, <4>1, <4>2
    <3>3. CASE Goto(c, "refresh", refresh) /\ UNCHANGED tokenVars /\ KeepCall
      BY <1>3, <1>5, <2>1, <3>3, GotoMoves
    <3>. QED
      BY <2>2, <2>8, <3>1, <3>2, <3>3 DEF RestAnswered, Handle401, RefreshSession
  <2>9. CASE SignOutAnswered(c) \/ RetryAnswered(c)
    BY <2>2, <2>9 DEF SignOutAnswered, RetryAnswered, clientVars
  <2>. QED
    BY <1>9, <2>5, <2>6, <2>7, <2>8, <2>9 DEF GoOn
<1>10. CASE Emit
  <2>1. PICK c \in Calls : c = Head(announce).call /\ at[c] = "emit"
    BY <1>10, EmitsOne DEF QueueInv
  <2>2. UNCHANGED <<serverVars, tokenVars, reading>>
    BY <1>10 DEF Emit
  <2>3. CASE op[c] = "signOut"
    BY <1>3, <1>10, <2>1, <2>2, <2>3, GotoMoves DEF Emit
  <2>4. CASE op[c] # "signOut"
    <3>1. \A d \in Calls :
             \/ Still(d)
             \/ /\ at'[d] \in {"idle", "retry"} /\ arg'[d] \in {0, access}
                /\ tried'[d] \in {0, tried[d]} /\ ans'[d] = "none"
      BY <1>10, <2>1, <2>4, EndMoves DEF Emit
    <3>2. \A d \in Calls : \A t : Knows(d, t)' => t = 0 \/ Memory(t) \/ Knows(d, t)
      BY <1>1, <1>5, <2>2, <3>1, StillKnows DEF Knows
    <3>3. \A e \in Calls : Adopting(e)' => Adopting(e) /\ Still(e)
      BY <3>1 DEF Adopting, Still
    <3>. QED
      BY <1>2, <2>2, <3>2, <3>3 DEF Memory, tokenVars
  <2>. QED
    BY <2>3, <2>4
<1>11. CASE Reload
  BY <1>11 DEF Reload, FreshInv, Adopting
<1>12. CASE \/ RestoreSession \/ AdoptStored \/ Expire
            \/ \E u \in Users : Rename(u)
            \/ UNCHANGED vars
  <2>1. (\A d \in Calls : Still(d)) /\ issued' = issued /\ parent' = parent
    BY <1>12 DEF RestoreSession, AdoptStored, Expire, Rename, vars, callVars, serverVars,
                 Still
  <2>2. \A x : Memory(x)' => x = 0 \/ Memory(x)
    <3>1. CASE RestoreSession
      BY <3>1 DEF RestoreSession, tokenVars, Memory
    <3>2. CASE AdoptStored
      BY <3>2 DEF AdoptStored, NoPair, Memory
    <3>3. CASE Expire \/ (\E u \in Users : Rename(u)) \/ UNCHANGED vars
      BY <3>3 DEF Expire, Rename, vars, clientVars, tokenVars, Memory
    <3>. QED
      BY <1>12, <3>1, <3>2, <3>3
  <2>3. \A d \in Calls : \A t : Knows(d, t)' => Knows(d, t)
    BY <2>1, StillKnows, SdkAssumption DEF Grows, TypeInv, ServerOK
  <2>4. \A e \in Calls : Adopting(e)' <=> Adopting(e)
    BY <2>1 DEF Adopting, Still
  <2>. QED
    BY <2>1, <2>2, <2>3, <2>4, AdoptedPair DEF FreshInv, Elsewhere, Still
<1>. QED
  BY <1>7, <1>8, <1>9, <1>10, <1>11, <1>12 DEF Next

-----------------------------------------------------------------------------
(* Steps: a token is presented once.                                       *)

\* the tokens that memory or the storage may still present
Held == {refresh, stored[2], reading[2]} \ {0}

\* Call c has the answer of a rotation to read.
Rotated(c) == at[c] = "refresh" /\ ans[c] \in Good

\* the request or the answer of the refresh of call c is under way
Refreshing(c) == at[c] = "refresh" /\ ans[c] # "network"

RotationInv ==
    \* what the client holds is live, or the answer with its successor is there
    /\ \A t \in Held : t \in revoked =>
          t \in excused \/ \E c \in Calls : Rotated(c) /\ Presented(c) = t
    \* two refreshes with one token are excused
    /\ \A c, d \in Calls : c # d /\ Refreshing(c) /\ Refreshing(d) /\ Presented(c) = Presented(d)
          => Presented(c) \in excused
    \* a token that is under way is live
    /\ \A c \in Calls : at[c] = "refresh" /\ ans[c] = "none" /\ arg[c] \in revoked
          => arg[c] \in excused
    \* and so is the pair in an answer
    /\ \A c \in Calls : Adopting(c) /\ arg[c] \in revoked => arg[c] \in excused

LEMMA StillPresents ==
    ASSUME TypeInv, Grows, NEW d \in Calls, Still(d)
    PROVE  /\ Rotated(d)' <=> Rotated(d)
           /\ Refreshing(d)' <=> Refreshing(d)
           /\ Adopting(d)' <=> Adopting(d)
           /\ Refreshing(d) => Presented(d)' = Presented(d)
<1>1. Rotated(d) => arg[d] \in Issued
  BY DEF TypeInv, CallsOK, CallOK, Rotated, Good
<1>2. Rotated(d) => parent'[arg[d]] = parent[arg[d]]
  BY <1>1 DEF Grows
<1>3. ans[d] \in Good => ans[d] # "network"
  BY DEF Good
<1>. QED
  BY <1>2, <1>3 DEF Still, Rotated, Refreshing, Adopting, Presented

(***************************************************************************)
(* A step in which no call begins to refresh and no answer is granted: the *)
(* calls go on with what they presented or stop, and a token that loses    *)
(* the answer with its successor is let go, too, or excused.               *)
(***************************************************************************)
Quiet(d) ==
    \/ Still(d)
    \/ at'[d] # "refresh" /\ ~Adopting(d)'
    \/ at'[d] = "refresh" /\ ans'[d] = "network"
    \/ /\ at[d] = "refresh" /\ ans[d] = "none" /\ arg'[d] = arg[d]
       /\ at'[d] = "refresh" /\ ans'[d] \in {"refused", "barred"}

LEMMA RotationKept ==
    ASSUME TypeInv, RotationInv, Grows, \A d \in Calls : Quiet(d),
           excused \subseteq excused', revoked' \subseteq revoked \cup excused',
           \A t \in Held' : \/ t \in revoked => t \in excused'
                            \/ /\ t \in Held
                               /\ \A d \in Calls : Rotated(d) /\ Presented(d) = t =>
                                     Still(d) \/ t \in excused'
    PROVE  RotationInv'
<1>1. ASSUME NEW t \in Held', t \in revoked', t \notin excused'
      PROVE  \E c \in Calls : Rotated(c)' /\ Presented(c)' = t
  <2>1. t \in revoked /\ t \notin excused
    BY <1>1
  <2>2. PICK c \in Calls : Rotated(c) /\ Presented(c) = t
    BY <1>1, <2>1 DEF RotationInv
  <2>3. Still(c)
    BY <1>1, <2>1, <2>2
  <2>. QED
    BY <2>2, <2>3, StillPresents DEF Rotated, Refreshing, Good
<1>2. ASSUME NEW c \in Calls, Refreshing(c)'
      PROVE  Refreshing(c) /\ Presented(c)' = Presented(c)
  <2>1. CASE Still(c)
    BY <1>2, <2>1, StillPresents
  <2>2. CASE ~Still(c)
    BY <1>2, <2>2 DEF Quiet, Refreshing, Presented, Good
  <2>. QED
    BY <2>1, <2>2
<1>3. ASSUME NEW c \in Calls, at'[c] = "refresh", ans'[c] = "none", arg'[c] \in revoked'
      PROVE  arg'[c] \in excused'
  <2>1. Still(c)
    BY <1>3 DEF Quiet
  <2>. QED
    BY <1>3, <2>1 DEF Still, RotationInv
<1>4. ASSUME NEW c \in Calls, Adopting(c)', arg'[c] \in revoked'
      PROVE  arg'[c] \in excused'
  <2>1. Still(c)
    BY <1>4 DEF Quiet, Adopting, Good
  <2>. QED
    BY <1>4, <2>1 DEF Still, RotationInv, Adopting
<1>5. ASSUME NEW c \in Calls, NEW d \in Calls, c # d, Refreshing(c)', Refreshing(d)',
             Presented(c)' = Presented(d)'
      PROVE  Presented(c)' \in excused'
  BY <1>2, <1>5 DEF RotationInv
<1>. QED
  BY <1>1, <1>3, <1>4, <1>5 DEF RotationInv

(***************************************************************************)
(* A refresh begins with the token of the session: when an other one has   *)
(* presented that token, the application is behind one of the two.         *)
(***************************************************************************)
LEMMA RotationBegun ==
    ASSUME TypeInv, StarterInv, RotationInv, NEW c \in Calls, NEW name \in {"refresh", "rest"},
           at[c] # "refresh", ~Adopting(c), refresh # 0,
           name = "rest" => starter = NoCall,
           RefreshSession(c, name), UNCHANGED <<serverVars, reading>>,
           \A d \in Calls \ {c} : Still(d)
    PROVE  RotationInv'
<1>1. Grows
  BY SdkAssumption DEF Grows, serverVars, TypeInv, ServerOK
<1>2. /\ at'[c] = "refresh" /\ arg'[c] = refresh /\ ans'[c] = "none"
      /\ UNCHANGED tokenVars /\ revoked' = revoked /\ excused \subseteq excused'
  BY GotoMoves DEF RefreshSession, serverVars
<1>3. Presented(c)' = refresh /\ ~Adopting(c)' /\ Refreshing(c)' /\ ~Rotated(c)
  BY <1>2 DEF Presented, Adopting, Refreshing, Rotated, Good
<1>4. ASSUME NEW d \in Calls, d # c, at[d] = "refresh", Presented(d) = refresh
      PROVE  refresh \in excused'
  <2>1. op[d] \in {"refresh", "rest"}
    BY <1>4 DEF TypeInv, CallsOK, CallOK
  <2>2. op[d] = "rest" => name = "refresh"
    BY <1>4, SdkAssumption DEF StarterInv
  <2>. QED
    BY <1>4, <2>1, <2>2 DEF RefreshSession
<1>5. refresh \in revoked => refresh \in excused'
  <2>1. refresh \in Held
    BY DEF Held
  <2>2. ASSUME refresh \in revoked, refresh \notin excused
        PROVE  refresh \in excused'
    <3>1. PICK d \in Calls : Rotated(d) /\ Presented(d) = refresh
      BY <2>1, <2>2 DEF RotationInv
    <3>. QED
      BY <1>3, <1>4, <3>1 DEF Rotated
  <2>. QED
    BY <1>2, <2>2
<1>6. ASSUME NEW t \in Held', t \in revoked', t \notin excused'
      PROVE  \E d \in Calls : Rotated(d)' /\ Presented(d)' = t
  <2>1. t \in Held /\ t \in revoked /\ t \notin excused
    BY <1>2, <1>6 DEF Held, tokenVars
  <2>2. PICK d \in Calls : Rotated(d) /\ Presented(d) = t
    BY <2>1 DEF RotationInv
  <2>. QED
    BY <1>1, <1>3, <2>2, StillPresents DEF Rotated, Refreshing, Good
<1>7. ASSUME NEW d \in Calls, d # c, Refreshing(d)', Presented(d)' = refresh
      PROVE  refresh \in excused'
    BY <1>1, <1>4, <1>7, StillPresents DEF Refreshing
<1>8. ASSUME NEW d \in Calls, NEW e \in Calls, d # e, Refreshing(d)', Refreshing(e)',
             Presented(d)' = Presented(e)'
      PROVE  Presented(d)' \in excused'
  <2>1. CASE d = c \/ e = c
    BY <1>3, <1>7, <1>8, <2>1
  <2>2. CASE d # c /\ e # c
    BY <1>1, <1>2, <1>8, <2>2, StillPresents DEF RotationInv
  <2>. QED
    BY <2>1, <2>2
<1>9. \A d \in Calls \ {c} : at'[d] = at[d] /\ ans'[d] = ans[d] /\ arg'[d] = arg[d]
  BY DEF Still
<1>10. ASSUME NEW d \in Calls, at'[d] = "refresh", ans'[d] = "none", arg'[d] \in revoked'
      PROVE  arg'[d] \in excused'
  BY <1>2, <1>5, <1>9, <1>10 DEF RotationInv
<1>11. ASSUME NEW d \in Calls, Adopting(d)', arg'[d] \in revoked'
      PROVE  arg'[d] \in excused'
  BY <1>2, <1>3, <1>9, <1>11 DEF RotationInv, Adopting
<1>. QED
  BY <1>6, <1>8, <1>10, <1>11 DEF RotationInv

(***************************************************************************)
(* The server rotates a live token, or grants a first pair.                *)
(***************************************************************************)
LEMMA RotationGranted ==
    ASSUME TypeInv, FreshInv, RotationInv, NEW c \in Calls, NEW u, NEW p, Grant(c, u, p),
           Grows, ans[c] = "none", UNCHANGED <<tokenVars, reading, excused>>,
           \/ at[c] = "token" /\ revoked' = revoked
           \/ at[c] = "refresh" /\ p = arg[c] /\ revoked' = revoked \cup {arg[c]}
    PROVE  RotationInv'
<1>1. PICK kind \in {"ok", "renamed"} : Answer(c, kind, issued + 1)
  BY DEF Grant
<1>2. /\ \A d \in Calls \ {c} : Still(d)
      /\ at'[c] = at[c] /\ ans'[c] = kind /\ arg'[c] = issued + 1
  BY <1>1, AnswerMoves
<1>3. issued \in Nat /\ parent'[issued + 1] = p /\ revoked \subseteq Issued
  BY SdkAssumption DEF Grant, TypeInv, ServerOK, Pairs
<1>4. at[c] = "refresh" => /\ Presented(c)' = arg[c] /\ Presented(c) = arg[c]
                           /\ arg[c] \in Issued /\ Rotated(c)' /\ Refreshing(c)
  BY <1>2, <1>3 DEF Presented, Rotated, Refreshing, TypeInv, CallsOK, CallOK, Good
<1>5. arg'[c] \notin revoked'
  BY <1>2, <1>3, <1>4 DEF Issued
<1>6. ASSUME NEW t \in Held', t \in revoked', t \notin excused'
      PROVE  \E d \in Calls : Rotated(d)' /\ Presented(d)' = t
  <2>1. t \in Held /\ t \notin excused
    BY <1>6 DEF Held, tokenVars
  <2>2. CASE t \in revoked
    <3>1. PICK d \in Calls : Rotated(d) /\ Presented(d) = t
      BY <2>1, <2>2 DEF RotationInv
    <3>2. d # c
      BY <3>1 DEF Rotated, Good
    <3>. QED
      BY <1>2, <3>1, <3>2, StillPresents DEF Rotated, Refreshing, Good
  <2>3. CASE t \notin revoked
    BY <1>4, <1>6, <2>3
  <2>. QED
    BY <2>2, <2>3
<1>7. ASSUME NEW d \in Calls, Refreshing(d)'
      PROVE  Refreshing(d) /\ Presented(d)' = Presented(d)
  <2>1. CASE d = c
    BY <1>2, <1>4, <1>7, <2>1 DEF Refreshing
  <2>2. CASE d # c
    BY <1>2, <1>7, <2>2, StillPresents
  <2>. QED
    BY <2>1, <2>2
<1>8. ASSUME NEW d \in Calls, NEW e \in Calls, d # e, Refreshing(d)', Refreshing(e)',
             Presented(d)' = Presented(e)'
      PROVE  Presented(d)' \in excused'
  BY <1>7, <1>8 DEF RotationInv
<1>9. \A d \in Calls \ {c} : at'[d] = at[d] /\ ans'[d] = ans[d] /\ arg'[d] = arg[d]
  BY <1>2 DEF Still
<1>10. ASSUME NEW d \in Calls, at'[d] = "refresh", ans'[d] = "none", arg'[d] \in revoked'
       PROVE  arg'[d] \in excused'
  <2>1. d # c
    BY <1>2, <1>10
  <2>2. at[d] = "refresh" /\ ans[d] = "none" /\ arg'[d] = arg[d]
    BY <1>9, <1>10, <2>1
  <2>3. CASE arg[d] \in revoked
    BY <2>2, <2>3 DEF RotationInv
  <2>4. CASE arg[d] \notin revoked
    <3>1. at[c] = "refresh" /\ arg[d] = arg[c]
      BY <1>10, <2>2, <2>4
    <3>2. Refreshing(d) /\ Presented(d) = arg[d]
      BY <2>2 DEF Refreshing, Presented, Good
    <3>. QED
      BY <1>4, <2>1, <2>2, <3>1, <3>2 DEF RotationInv
  <2>. QED
    BY <2>3, <2>4
<1>11. ASSUME NEW d \in Calls, Adopting(d)', arg'[d] \in revoked'
       PROVE  arg'[d] \in excused'
  <2>1. d # c
    BY <1>5, <1>11
  <2>2. Adopting(d) /\ arg'[d] = arg[d]
    BY <1>9, <1>11, <2>1 DEF Adopting
  <2>3. at[c] = "refresh" => arg[d] # arg[c]
    BY <2>1, <2>2 DEF FreshInv, Elsewhere, Knows
  <2>. QED
    BY <1>11, <2>2, <2>3 DEF RotationInv
<1>. QED
  BY <1>6, <1>8, <1>10, <1>11 DEF RotationInv

LEMMA RotationNext ==
    TypeInv /\ QueueInv /\ StarterInv /\ FreshInv /\ RotationInv /\ [Next]_vars => RotationInv'
<1>. SUFFICES ASSUME TypeInv, QueueInv, StarterInv, FreshInv, RotationInv, [Next]_vars
              PROVE  RotationInv'
  OBVIOUS
<1>1. ASSUME UNCHANGED serverVars
      PROVE  Grows /\ revoked' = revoked
  BY <1>1, SdkAssumption DEF Grows, serverVars, TypeInv, ServerOK
\* what is held is let go, excused or held by a call that is as it was
<1>2. ASSUME NEW c \in Calls, \A d \in Calls \ {c} : Still(d), Quiet(c), ~Rotated(c),
             Held' \subseteq Held, UNCHANGED serverVars, excused' = excused
      PROVE  RotationInv'
  <2>1. \A d \in Calls : Quiet(d) /\ (Rotated(d) => Still(d))
    BY <1>2 DEF Quiet
  <2>. QED
    BY <1>1, <1>2, <2>1, RotationKept
<1>3. UNCHANGED <<tokenVars, reading>> => Held' = Held
  BY DEF Held, tokenVars
<1>4. ClearSession /\ reading' = reading => Held' \subseteq Held
  BY DEF Held, ClearSession, SetSession, Persisted, NoPair
<1>5. ASSUME NEW c \in Calls, Ask(c)
      PROVE  RotationInv'
  <2>1. (\A d \in Calls \ {c} : Still(d)) /\ at[c] = "idle" /\ ans'[c] = "none"
    BY <1>5, AskMoves
  <2>2. ~Rotated(c) /\ ~Adopting(c) /\ (at'[c] # "refresh" => Quiet(c))
    BY <2>1 DEF Rotated, Adopting, Quiet, Good
  <2>3. CASE \E u \in Users : SignIn(c, u)
    BY <1>2, <1>3, <2>1, <2>2, <2>3, GotoMoves DEF SignIn, clientVars
  <2>4. CASE SignOut(c)
    BY <1>2, <1>4, <2>1, <2>2, <2>4, GotoMoves DEF SignOut
  <2>5. CASE Refresh(c)
    <3>1. RefreshSession(c, "refresh") /\ UNCHANGED <<serverVars, reading>>
      BY <2>5 DEF Refresh
    <3>2. CASE refresh = 0
      <4>1. ClearSession /\ Goto(c, "emit", 0) /\ ~Rotated(c)
        BY <2>2, <3>1, <3>2 DEF RefreshSession
      <4>2. excused \subseteq excused' /\ \A d \in Calls : Quiet(d)
        BY <2>1, <2>2, <3>1, <4>1, GotoMoves DEF RefreshSession, Quiet
      <4>. QED
        BY <1>1, <1>4, <2>1, <3>1, <4>1, <4>2, RotationKept
    <3>. QED
      BY <2>1, <2>2, <3>1, <3>2, RotationBegun
  <2>6. CASE GetUser(c)
    BY <1>2, <1>3, <2>1, <2>2, <2>6, GotoMoves DEF GetUser, clientVars, historyVars
  <2>7. CASE Rest(c)
    BY <1>2, <1>3, <2>1, <2>2, <2>7, GotoMoves DEF Rest, clientVars, historyVars
  <2>. QED
    BY <1>5, <2>3, <2>4, <2>5, <2>6, <2>7 DEF Ask
<1>6. ASSUME NEW c \in Calls, Serve(c) \/ Fail(c)
      PROVE  RotationInv'
  <2>1. Grows
    BY <1>6, SdkAssumption
    DEF Serve, ServeToken, ServeRotation, ServeBarred, ServeReuse, ServeLogout, ServeBearer,
        Fail, Grant, Grows, TypeInv, ServerOK, Issued, Pairs, serverVars
  <2>2. UNCHANGED <<tokenVars, reading>> /\ Held' = Held
    BY <1>3, <1>6 DEF Serve, ServeToken, ServeRotation, ServeBarred, ServeReuse,
                      ServeLogout, ServeBearer, Fail, clientVars
  <2>3. ASSUME NEW kind, NEW a, Answer(c, kind, a),
               \/ at[c] # "refresh" /\ (at[c] = "token" => kind \notin Good)
               \/ at[c] = "refresh" /\ kind = "network"
               \/ /\ at[c] = "refresh" /\ kind \in {"refused", "barred"}
                  /\ ans[c] = "none" /\ a = arg[c],
               Rotated(c) => Presented(c) \in excused',
               excused \subseteq excused', revoked' \subseteq revoked \cup excused'
        PROVE  RotationInv'
    <3>1. /\ \A d \in Calls \ {c} : Still(d)
          /\ at'[c] = at[c] /\ ans'[c] = kind /\ arg'[c] = a
      BY <2>3, AnswerMoves
    <3>2. \A d \in Calls : Quiet(d)
      BY <2>3, <3>1 DEF Quiet, Adopting
    <3>. QED
      BY <2>1, <2>2, <2>3, <3>1, <3>2, RotationKept
  <2>4. ans[c] = "none" => ~Rotated(c)
    BY DEF Rotated, Good
  <2>5. CASE ServeToken(c)
    <3>1. CASE Grant(c, arg[c], 0)
      BY <2>1, <2>2, <2>5, <3>1, RotationGranted DEF ServeToken, Waiting, historyVars
    <3>2. CASE \E kind \in {"refused", "pending"} : Answer(c, kind, arg[c])
      BY <2>3, <2>4, <2>5, <3>2 DEF ServeToken, Waiting, Good, historyVars
    <3>. QED
      BY <2>5, <3>1, <3>2 DEF ServeToken
  <2>6. CASE ServeRotation(c)
    BY <2>1, <2>2, <2>6, RotationGranted DEF ServeRotation, Waiting, historyVars
  <2>7. CASE ServeReuse(c)
    BY <2>3, <2>4, <2>7 DEF ServeReuse, Waiting
  <2>8. CASE ServeLogout(c)
    BY <2>3, <2>4, <2>8 DEF ServeLogout, Waiting
  <2>9. CASE ServeBearer(c)
    <3>1. at[c] \notin {"refresh", "token"} /\ ans[c] = "none"
      BY <2>9 DEF ServeBearer, Waiting
    <3>2. \E kind : Answer(c, kind, arg[c])
      BY <2>9 DEF ServeBearer
    <3>. QED
      BY <2>3, <2>4, <2>9, <3>1, <3>2 DEF ServeBearer, historyVars, serverVars
  <2>10. CASE Fail(c)
    <3>1. Rotated(c) => Presented(c) \in excused'
      BY <2>10 DEF Rotated, Presented, Fail, Unread
    <3>2. Answer(c, "network", 0) /\ excused \subseteq excused' /\ revoked' = revoked
      BY <2>10 DEF Fail, serverVars
    <3>. QED
      BY <2>3, <3>1, <3>2 DEF Good
  <2>11. CASE ServeBarred(c)
    BY <2>3, <2>4, <2>11 DEF ServeBarred, Waiting, serverVars, historyVars
  <2>. QED
    BY <1>6, <2>5, <2>6, <2>7, <2>8, <2>9, <2>10, <2>11 DEF Serve
<1>7. ASSUME NEW c \in Calls, GoOn(c)
      PROVE  RotationInv'
  <2>1. UNCHANGED <<serverVars, reading>> /\ reading = NoPair
    BY <1>7 DEF GoOn, SignInAnswered, SignOutAnswered, RefreshAnswered, GetUserAnswered,
                RestAnswered, RetryAnswered, clientVars
  <2>2. ASSUME Done(c), UNCHANGED tokenVars, excused' = excused, ~Rotated(c)
        PROVE  RotationInv'
    <3>1. Quiet(c) /\ \A d \in Calls \ {c} : Still(d)
      BY <2>2, DoneMoves DEF Quiet, Adopting
    <3>. QED
      BY <1>2, <1>3, <2>1, <2>2, <3>1
  <2>3. ASSUME NEW p, NEW a, Goto(c, p, a), p # "refresh", KeepCall, ~Rotated(c),
               Held' \subseteq Held, excused' = excused
        PROVE  RotationInv'
    <3>1. Quiet(c) /\ \A d \in Calls \ {c} : Still(d)
      BY <2>3, GotoMoves DEF Quiet, Adopting, Good
    <3>. QED
      BY <1>2, <2>1, <2>3, <3>1
  <2>4. ASSUME NEW u, Adopt(c, arg[c], u), Adopting(c), excused' = excused
        PROVE  RotationInv'
    <3>1. Goto(c, "emit", arg[c]) /\ KeepCall
      BY <2>4 DEF Adopt
    <3>2. \A d \in Calls : Quiet(d)
      BY <3>1, GotoMoves DEF Quiet, Adopting
    <3>3. Held' \subseteq {arg[c]}
      BY <2>1, <2>4 DEF Adopt, SetSession, Persisted, NoPair, Held
    <3>4. arg[c] \in revoked => arg[c] \in excused
      BY <2>4 DEF RotationInv
    <3>. QED
      BY <1>1, <2>1, <2>4, <3>2, <3>3, <3>4, RotationKept
  <2>5. CASE SignInAnswered(c)
    <3>1. ASSUME Adopt(c, 0, <<arg[c], FALSE>>)
          PROVE  RotationInv'
      <4>1. Held' \subseteq Held
        BY <2>1, <3>1 DEF Adopt, SetSession, Persisted, NoPair, Held
      <4>. QED
        BY <2>3, <2>5, <3>1, <4>1 DEF Adopt, SignInAnswered, Rotated
    <3>. QED
      BY <2>2, <2>4, <2>5, <3>1 DEF SignInAnswered, Rotated, Adopting
  <2>6. CASE RefreshAnswered(c)
    <3>1. CASE ans[c] \in Good
      BY <2>4, <2>6, <3>1 DEF RefreshAnswered, Adopting, Good
    <3>2. CASE ans[c] \in {"refused", "barred"}
      <4>1. ClearSession /\ Goto(c, "emit", 0) /\ KeepCall /\ ~Rotated(c) /\ excused' = excused
        BY <2>6, <3>2 DEF RefreshAnswered, RefreshFailed, Rotated, Good
      <4>. QED
        BY <1>4, <2>1, <2>3, <4>1
    <3>3. CASE ans[c] = "network"
      <4>1. EndRefresh(c, FALSE) /\ UNCHANGED tokenVars /\ ~Rotated(c) /\ excused' = excused
        BY <2>6, <3>3 DEF RefreshAnswered, RefreshFailed, Rotated, Good
      <4>2. \A d \in Calls : Quiet(d) /\ (Rotated(d) => Still(d))
        BY <4>1, EndMoves DEF Quiet, Adopting, Rotated
      <4>. QED
        BY <1>1, <1>3, <2>1, <4>1, <4>2, RotationKept
    <3>. QED
      BY <2>6, <3>1, <3>2, <3>3 DEF RefreshAnswered
  <2>7. CASE GetUserAnswered(c)
    <3>1. ~Rotated(c) /\ excused' = excused
      BY <2>7 DEF GetUserAnswered, Rotated, historyVars
    <3>2. CASE SetSession(arg[c], refresh, UserOf(c)) /\ Goto(c, "emit", arg[c]) /\ KeepCall
      <4>1. Held' \subseteq Held
        BY <2>1, <3>2 DEF Held, SetSession, Persisted, NoPair
      <4>. QED
        BY <2>3, <3>1, <3>2, <4>1
    <3>. QED
      BY <2>2, <2>7, <3>1, <3>2 DEF GetUserAnswered
  <2>8. CASE RestAnswered(c)
    <3>1. ~Rotated(c) /\ ~Adopting(c) /\ at[c] # "refresh"
      BY <2>8 DEF RestAnswered, Rotated, Adopting
    <3>2. CASE Done(c) /\ UNCHANGED <<tokenVars, excused>>
      BY <2>2, <3>1, <3>2
    <3>3. CASE Goto(c, "join", 0) /\ KeepCall /\ UNCHANGED <<tokenVars, excused>>
      BY <1>3, <2>1, <2>3, <3>1, <3>3
    <3>4. CASE RefreshSession(c, "rest") /\ KeepCall /\ starter = NoCall
      <4>1. excused \subseteq excused' /\ \E p, a : Goto(c, p, a)
        BY <3>4 DEF RefreshSession
      <4>2. \A d \in Calls \ {c} : Still(d)
        BY <3>4, <4>1, GotoMoves
      <4>3. CASE refresh = 0
        <5>1. ClearSession /\ Goto(c, "emit", 0)
          BY <3>4, <4>3 DEF RefreshSession
        <5>2. \A d \in Calls : Quiet(d)
          BY <4>2, <5>1, GotoMoves DEF Quiet, Adopting
        <5>. QED
          BY <1>1, <1>4, <2>1, <3>1, <4>1, <4>2, <5>1, <5>2, RotationKept
      <4>. QED
        BY <2>1, <3>1, <3>4, <4>2, <4>3, RotationBegun
    <3>. QED
      BY <2>8, <3>2, <3>3, <3>4 DEF RestAnswered, Handle401
  <2>9. CASE SignOutAnswered(c) \/ RetryAnswered(c)
    BY <2>2, <2>9 DEF SignOutAnswered, RetryAnswered, clientVars, historyVars, Rotated
  <2>. QED
    BY <1>7, <2>5, <2>6, <2>7, <2>8, <2>9 DEF GoOn
<1>8. CASE Emit
  <2>1. PICK c \in Calls : c = Head(announce).call /\ at[c] = "emit"
    BY <1>8, EmitsOne DEF QueueInv
  <2>2. UNCHANGED <<serverVars, tokenVars, reading>> /\ excused' = excused
    BY <1>8 DEF Emit, historyVars
  <2>3. CASE op[c] = "signOut"
    <3>1. Goto(c, "logout", arg[c]) /\ KeepCall
      BY <1>8, <2>1, <2>3 DEF Emit
    <3>2. Quiet(c) /\ ~Rotated(c) /\ \A d \in Calls \ {c} : Still(d)
      BY <2>1, <3>1, GotoMoves DEF Quiet, Adopting, Rotated
    <3>. QED
      BY <1>2, <1>3, <2>2, <3>2
  <2>4. CASE op[c] # "signOut"
    <3>1. EndRefresh(c, arg[c] # 0)
      BY <1>8, <2>1, <2>4 DEF Emit
    <3>2. \A d \in Calls : Quiet(d) /\ (Rotated(d) => Still(d))
      BY <2>1, <3>1, EndMoves DEF Quiet, Adopting, Rotated
    <3>. QED
      BY <1>1, <1>3, <2>2, <3>2, RotationKept
  <2>. QED
    BY <2>3, <2>4
<1>9. CASE Reload
  <2>1. \A d \in Calls : Quiet(d)
    BY <1>9 DEF Reload, Quiet, Adopting
  <2>2. Held' \subseteq Held /\ UNCHANGED serverVars /\ excused \subseteq excused'
    BY <1>9 DEF Reload, Held, NoPair
  <2>3. \A d \in Calls : Rotated(d) => Presented(d) \in excused'
    BY <1>9 DEF Reload, Rotated, Presented, Unread
  <2>. QED
    BY <1>1, <2>1, <2>2, <2>3, RotationKept
<1>10. CASE \/ RestoreSession \/ AdoptStored \/ Expire
            \/ \E u \in Users : Rename(u)
            \/ UNCHANGED vars
  <2>1. (\A d \in Calls : Still(d)) /\ issued' = issued /\ parent' = parent
        /\ revoked' = revoked /\ excused' = excused
    BY <1>10 DEF RestoreSession, AdoptStored, Expire, Rename, vars, callVars, serverVars,
                 historyVars, Still
  <2>2. Held' \subseteq Held
    BY <1>10 DEF RestoreSession, AdoptStored, Expire, Rename, vars, clientVars, tokenVars,
                 Held, NoPair
  <2>3. Grows
    BY <2>1, SdkAssumption DEF Grows, TypeInv, ServerOK
  <2>. QED
    BY <2>1, <2>2, <2>3, RotationKept DEF Quiet
<1>. QED
  BY <1>5, <1>6, <1>7, <1>8, <1>9, <1>10 DEF Next

-----------------------------------------------------------------------------
(* Steps: the listeners, and the requests that are repeated.               *)

(***************************************************************************)
(* Whoever waits for the listeners has a change that they are to hear of.  *)
(***************************************************************************)
EmitInv == \A c \in Calls : at[c] = "emit" => \E i \in 1 .. Len(announce) : announce[i].call = c

LEMMA EmitNext == TypeInv /\ QueueInv /\ EmitInv /\ [Next]_vars => EmitInv'
<1>. SUFFICES ASSUME TypeInv, QueueInv, EmitInv, [Next]_vars
              PROVE  EmitInv'
  OBVIOUS
<1>1. announce \in Seq([call : Calls, session : 0 .. issued]) /\ Len(announce) \in Nat
  BY DEF TypeInv, ClientOK, Changes
<1>2. ASSUME announce' = announce, \A d \in Calls : at'[d] = "emit" => at[d] = "emit"
      PROVE  EmitInv'
  BY <1>2 DEF EmitInv
<1>3. ASSUME NEW c \in Calls, NEW a, Tell(c, a), \A d \in Calls \ {c} : at'[d] = at[d]
      PROVE  EmitInv'
  <2>1. /\ Len(announce') = Len(announce) + 1
        /\ announce'[Len(announce) + 1].call = c
        /\ \A i \in 1 .. Len(announce) : announce'[i] = announce[i]
    BY <1>1, <1>3 DEF Tell
  <2>. SUFFICES ASSUME NEW d \in Calls, at'[d] = "emit"
                PROVE  \E i \in 1 .. Len(announce') : announce'[i].call = d
    BY DEF EmitInv
  <2>2. CASE d = c
    BY <1>1, <2>1, <2>2
  <2>3. CASE d # c
    <3>1. PICK i \in 1 .. Len(announce) : announce[i].call = d
      BY <1>3, <2>3 DEF EmitInv
    <3>. QED
      BY <1>1, <2>1, <3>1
  <2>. QED
    BY <2>2, <2>3
<1>4. ASSUME NEW c \in Calls, Ask(c)
      PROVE  EmitInv'
  <2>1. \A d \in Calls \ {c} : at'[d] = at[d]
    BY <1>4, AskMoves DEF Still
  <2>2. CASE \E a : Tell(c, a)
    BY <1>3, <2>1, <2>2
  <2>3. CASE announce' = announce /\ at'[c] # "emit"
    BY <1>2, <2>1, <2>3
  <2>. QED
    BY <1>4, <2>2, <2>3, GotoMoves
    DEF Ask, SignIn, SignOut, Refresh, RefreshSession, GetUser, Rest, clientVars
<1>5. ASSUME NEW c \in Calls, Serve(c) \/ Fail(c)
      PROVE  EmitInv'
  <2>1. at' = at /\ announce' = announce
    BY <1>5 DEF Serve, ServeToken, ServeRotation, ServeBarred, ServeReuse, ServeLogout,
                ServeBearer, Fail, Grant, Answer, clientVars
  <2>. QED
    BY <2>1 DEF EmitInv
<1>6. ASSUME NEW c \in Calls, GoOn(c)
      PROVE  EmitInv'
  <2>1. ASSUME Done(c), announce' = announce
        PROVE  EmitInv'
    BY <1>2, <2>1, DoneMoves DEF Still
  <2>2. ASSUME NEW p, NEW a, NEW s, Goto(c, p, a), KeepCall, Tell(c, s)
        PROVE  EmitInv'
    <3>1. \A d \in Calls \ {c} : at'[d] = at[d]
      BY <2>2, GotoMoves DEF Still
    <3>. QED
      BY <1>3, <2>2, <3>1
  <2>3. ASSUME NEW p, NEW a, Goto(c, p, a), KeepCall, p # "emit", announce' = announce
        PROVE  EmitInv'
    BY <1>2, <2>3, GotoMoves DEF Still
  <2>4. ASSUME EndRefresh(c, FALSE), announce' = announce
        PROVE  EmitInv'
    BY <1>2, <2>4, EndMoves DEF Still
  <2>5. CASE SignInAnswered(c) \/ RefreshAnswered(c)
    BY <2>1, <2>2, <2>4, <2>5 DEF SignInAnswered, RefreshAnswered, RefreshFailed, Adopt
  <2>6. CASE GetUserAnswered(c)
    BY <2>1, <2>2, <2>6 DEF GetUserAnswered
  <2>7. CASE RestAnswered(c)
    BY <2>1, <2>2, <2>3, <2>7 DEF RestAnswered, Handle401, RefreshSession
  <2>8. CASE SignOutAnswered(c) \/ RetryAnswered(c)
    BY <2>1, <2>8 DEF SignOutAnswered, RetryAnswered, clientVars
  <2>. QED
    BY <1>6, <2>5, <2>6, <2>7, <2>8 DEF GoOn
<1>7. CASE Emit
  <2>1. PICK c \in Calls : c = Head(announce).call /\ c = announce[1].call /\ at[c] = "emit"
    BY <1>7, EmitsOne DEF QueueInv
  <2>2. /\ announce # <<>> /\ Len(announce') = Len(announce) - 1
        /\ \A i \in 1 .. Len(announce) - 1 : announce'[i] = announce[i + 1]
    BY <1>1, <1>7, HeadAndTail DEF Emit
  <2>3. \A d \in Calls : at'[d] = "emit" => d # c /\ at[d] = "emit"
    <3>1. CASE op[c] = "signOut"
      BY <1>7, <2>1, <3>1, GotoMoves DEF Emit, Still
    <3>2. CASE op[c] # "signOut"
      BY <1>7, <2>1, <3>2, EndMoves DEF Emit, Still
    <3>. QED
      BY <3>1, <3>2
  <2>. SUFFICES ASSUME NEW d \in Calls, at'[d] = "emit"
                PROVE  \E i \in 1 .. Len(announce') : announce'[i].call = d
    BY DEF EmitInv
  <2>4. PICK i \in 1 .. Len(announce) : announce[i].call = d
    BY <2>3 DEF EmitInv
  <2>5. i # 1
    BY <2>1, <2>3, <2>4
  <2>6. i - 1 \in 1 .. Len(announce) - 1 /\ (i - 1) + 1 = i
    BY <1>1, <2>5
  <2>. QED
    BY <2>2, <2>4, <2>6
<1>8. CASE Reload
  BY <1>8 DEF Reload, EmitInv
<1>9. CASE \/ RestoreSession \/ AdoptStored \/ Expire
           \/ \E u \in Users : Rename(u)
           \/ UNCHANGED vars
  <2>1. announce' = announce /\ at' = at
    BY <1>9 DEF RestoreSession, AdoptStored, Expire, Rename, vars, callVars, clientVars
  <2>. QED
    BY <2>1 DEF EmitInv
<1>. QED
  BY <1>4, <1>5, <1>6, <1>7, <1>8, <1>9 DEF Next

(***************************************************************************)
(* A request of which the first attempt was refused carried a token, and   *)
(* once the refresh is over the session, the stored copy and what          *)
(* restoreSession read of it have an other one, but for the one that a     *)
(* late answer of getUser put back.                                        *)
(***************************************************************************)
Newer(pair, t) == pair[1] # pair[2] \/ pair[1] # t

RetryInv ==
    /\ \A c \in Calls : at[c] = "rest" /\ ans[c] # "network" =>
          arg[c] = tried[c] /\ (ans[c] = "refused" => tried[c] # 0)
    /\ \A c \in Calls : op[c] = "rest" /\ at[c] \in {"join", "emit", "refresh"} => tried[c] # 0
    /\ starter # NoCall /\ at[starter] = "emit" /\ arg[starter] # 0 =>
          \A c \in Calls : op[c] = "rest" /\ at[c] \in {"join", "emit"} =>
              /\ Newer(<<access, refresh>>, tried[c])
              /\ Newer(stored, tried[c]) /\ Newer(reading, tried[c])

\* a pair of the session, or none
LEMMA NewerNone == ASSUME NEW t, t # 0 PROVE Newer(NoPair, t) /\ Newer(<<0, 0>>, t)
BY DEF Newer, NoPair

\* no call that waits for the listeners has anything else happen before
LEMMA ListenersFirst == ASSUME EmitInv, announce = <<>> PROVE \A c \in Calls : at[c] # "emit"
<1>1. Len(announce) = 0
  OBVIOUS
<1>. QED
  BY <1>1 DEF EmitInv

LEMMA RetryKept ==
    ASSUME TypeInv, RetryInv, NEW c \in Calls, \A d \in Calls \ {c} : Still(d),
           at'[c] \notin {"rest", "join", "emit", "refresh"} \/ op'[c] # "rest",
           starter' = starter, reading' = reading,
           UNCHANGED tokenVars \/ ClearSession,
           at[c] # "emit" \/ op[c] # "rest", at'[c] # "rest", starter # c
    PROVE  RetryInv'
<1>2. ASSUME NEW t, t # 0, Newer(<<access, refresh>>, t), Newer(stored, t)
      PROVE  Newer(<<access', refresh'>>, t) /\ Newer(stored', t)
  BY <1>2, NewerNone DEF ClearSession, SetSession, Persisted, tokenVars
<1>1. \A d \in Calls \ {c} : op'[d] = op[d] /\ at'[d] = at[d] /\ arg'[d] = arg[d]
                             /\ ans'[d] = ans[d] /\ tried'[d] = tried[d]
  BY DEF Still
<1>3. /\ \A d \in Calls : at'[d] = "rest" /\ ans'[d] # "network" =>
             arg'[d] = tried'[d] /\ (ans'[d] = "refused" => tried'[d] # 0)
      /\ \A d \in Calls : op'[d] = "rest" /\ at'[d] \in {"join", "emit", "refresh"} =>
             tried'[d] # 0 /\ d # c
  BY <1>1 DEF RetryInv
<1>4. ASSUME starter' # NoCall, at'[starter'] = "emit", arg'[starter'] # 0,
             NEW d \in Calls, op'[d] = "rest", at'[d] \in {"join", "emit"}
      PROVE  Newer(<<access', refresh'>>, tried'[d]) /\ Newer(stored', tried'[d])
             /\ Newer(reading', tried'[d])
  <2>1. d # c /\ tried'[d] = tried[d] /\ tried[d] # 0 /\ op[d] = "rest"
        /\ at[d] \in {"join", "emit"}
    BY <1>1, <1>3, <1>4
  <2>2. starter # NoCall /\ at[starter] = "emit" /\ arg[starter] # 0
    BY <1>1, <1>4 DEF TypeInv, ClientOK
  <2>. QED
    BY <1>2, <2>1, <2>2 DEF RetryInv
<1>. QED
  BY <1>3, <1>4 DEF RetryInv

LEMMA RetryNext ==
    TypeInv /\ QueueInv /\ WaitersAreServed /\ StarterInv /\ FreshInv /\ EmitInv
        /\ RetryInv /\ [Next]_vars => RetryInv'
<1>. SUFFICES ASSUME TypeInv, QueueInv, WaitersAreServed, StarterInv, FreshInv, EmitInv,
                     RetryInv, [Next]_vars
              PROVE  RetryInv'
  OBVIOUS
<1>. USE SdkAssumption
<1>1. ASSUME NEW c \in Calls, Ask(c)
      PROVE  RetryInv'
  <2>1. (\A d \in Calls \ {c} : Still(d)) /\ at[c] = "idle" /\ ans'[c] = "none" /\ starter # c
    BY <1>1, AskMoves DEF WaitersAreServed
  <2>2. starter' = starter
    BY <1>1 DEF Ask, SignIn, SignOut, Refresh, GetUser, Rest, clientVars
  <2>3. CASE Rest(c)
    <3>1. at'[c] = "rest" /\ op'[c] = "rest" /\ arg'[c] = access /\ tried'[c] = access
      BY <2>3, GotoMoves DEF Rest, Begin, TypeInv, CallsOK, Shape
    <3>2. UNCHANGED <<access, refresh, stored, reading>>
      BY <2>3 DEF Rest, clientVars, tokenVars
    <3>3. \A d \in Calls \ {c} : op'[d] = op[d] /\ at'[d] = at[d] /\ arg'[d] = arg[d]
                                 /\ ans'[d] = ans[d] /\ tried'[d] = tried[d]
      BY <2>1 DEF Still
    <3>. QED
      BY <2>1, <2>2, <3>1, <3>2, <3>3 DEF RetryInv, TypeInv, ClientOK
  <2>4. CASE ~Rest(c)
    <3>1. op'[c] # "rest" /\ at'[c] # "rest"
      BY <1>1, <2>4, GotoMoves DEF Ask, SignIn, SignOut, Refresh, RefreshSession, GetUser,
                                   Begin, TypeInv, CallsOK, Shape
    <3>2. reading' = reading /\ (UNCHANGED tokenVars \/ ClearSession)
      BY <1>1, <2>4 DEF Ask, SignIn, SignOut, Refresh, RefreshSession, GetUser, clientVars
    <3>. QED
      BY <2>1, <2>2, <3>1, <3>2, RetryKept
  <2>. QED
    BY <2>3, <2>4
<1>2. ASSUME NEW c \in Calls, Serve(c) \/ Fail(c)
      PROVE  RetryInv'
  <2>1. PICK kind, a : Answer(c, kind, a)
    BY <1>2 DEF Serve, ServeToken, ServeRotation, ServeBarred, ServeReuse, ServeLogout,
                ServeBearer, Fail, Grant
  <2>2. (\A d \in Calls \ {c} : Still(d)) /\ op'[c] = op[c] /\ at'[c] = at[c]
        /\ tried'[c] = tried[c] /\ ans'[c] = kind /\ arg'[c] = a
    BY <2>1, AnswerMoves
  <2>3. UNCHANGED <<access, refresh, stored, reading, starter>>
    BY <1>2 DEF Serve, ServeToken, ServeRotation, ServeBarred, ServeReuse, ServeLogout,
                ServeBearer, Fail, clientVars, tokenVars
  <2>4. at[c] = "rest" /\ ans'[c] # "network" =>
            /\ ans[c] = "none" /\ arg'[c] = arg[c]
            /\ ans'[c] = "refused" => arg[c] \in 1 .. horizon
    <3>1. at[c] = "rest" /\ ans'[c] # "network" => ServeBearer(c)
      BY <1>2, <2>2, AnswerMoves
      DEF Serve, ServeToken, ServeRotation, ServeBarred, ServeReuse, ServeLogout, Fail,
          Waiting
    <3>2. ServeBearer(c) /\ at[c] = "rest" => ans[c] = "none"
          /\ Answer(c, IF arg[c] \in 1 .. horizon THEN "refused" ELSE "ok", arg[c])
      BY DEF ServeBearer, Waiting
    <3>. QED
      BY <3>1, <3>2, AnswerMoves
  <2>5. at[c] # "emit"
    BY <1>2 DEF Serve, ServeToken, ServeRotation, ServeBarred, ServeReuse, ServeLogout,
                ServeBearer, Fail, Waiting, Endpoints
  <2>6. \A d \in Calls \ {c} : op'[d] = op[d] /\ at'[d] = at[d] /\ arg'[d] = arg[d]
                               /\ ans'[d] = ans[d] /\ tried'[d] = tried[d]
    BY <2>2 DEF Still
  <2>7. arg[c] \in 1 .. horizon => arg[c] # 0
    BY DEF TypeInv, ServerOK
  <2>. QED
    BY <2>2, <2>3, <2>4, <2>5, <2>6, <2>7 DEF RetryInv, TypeInv, ClientOK
<1>3. ASSUME NEW c \in Calls, GoOn(c)
      PROVE  RetryInv'
  <2>1. \A d \in Calls : at[d] # "emit"
    BY <1>3, ListenersFirst DEF GoOn
  \* whoever stays where it was keeps what it had
  <2>2. ASSUME \A d \in Calls \ {c} : Still(d), ans'[c] = "none",
               at'[c] # "rest",
               op'[c] = "rest" /\ at'[c] \in {"join", "emit", "refresh"} => tried'[c] # 0,
               starter' # NoCall /\ at'[starter'] = "emit" /\ arg'[starter'] # 0 =>
                   \A d \in Calls : tried'[d] # 0 =>
                       /\ Newer(<<access', refresh'>>, tried'[d])
                       /\ Newer(stored', tried'[d]) /\ Newer(reading', tried'[d])
        PROVE  RetryInv'
    <3>1. \A d \in Calls \ {c} : op'[d] = op[d] /\ at'[d] = at[d] /\ arg'[d] = arg[d]
                                 /\ ans'[d] = ans[d] /\ tried'[d] = tried[d]
      BY <2>2 DEF Still
    <3>2. \A d \in Calls : at'[d] = "rest" /\ ans'[d] # "network" =>
             arg'[d] = tried'[d] /\ (ans'[d] = "refused" => tried'[d] # 0)
      BY <2>2, <3>1 DEF RetryInv
    <3>3. \A d \in Calls : op'[d] = "rest" /\ at'[d] \in {"join", "emit", "refresh"} =>
             tried'[d] # 0
      BY <2>2, <3>1 DEF RetryInv
    <3>. QED
      BY <2>2, <3>2, <3>3 DEF RetryInv
  \* a starter that does not come to wait for the listeners now waits for none
  <2>3. ASSUME \A d \in Calls \ {c} : Still(d), ans'[c] = "none", at'[c] # "rest",
               op'[c] = "rest" /\ at'[c] \in {"join", "emit", "refresh"} => tried'[c] # 0,
               starter' = starter,
               starter = c => at'[c] # "emit" \/ arg'[c] = 0
        PROVE  RetryInv'
    <3>1. starter' # NoCall /\ starter' # c => at'[starter'] # "emit"
      BY <2>1, <2>3 DEF Still, TypeInv, ClientOK
    <3>. QED
      BY <2>2, <2>3, <3>1
  <2>4. ASSUME Done(c), starter' = starter
        PROVE  RetryInv'
    BY <2>3, <2>4, DoneMoves
  <2>5. ASSUME NEW p, NEW a, Goto(c, p, a), KeepCall, starter' = starter,
               op[c] # "rest", p # "rest"
        PROVE  RetryInv'
    <3>1. starter # c
      BY <2>5 DEF WaitersAreServed
    <3>. QED
      BY <2>3, <2>5, <3>1, GotoMoves
  <2>6. CASE SignInAnswered(c)
    <3>1. op[c] # "rest"
      BY <2>6 DEF SignInAnswered, TypeInv, CallsOK, CallOK
    <3>. QED
      BY <2>4, <2>5, <2>6, <3>1 DEF SignInAnswered, Adopt
  <2>7. CASE GetUserAnswered(c)
    <3>1. op[c] # "rest"
      BY <2>7 DEF GetUserAnswered, TypeInv, CallsOK, CallOK
    <3>. QED
      BY <2>4, <2>5, <2>7, <3>1 DEF GetUserAnswered
  <2>8. CASE RefreshAnswered(c)
    <3>1. at[c] = "refresh" /\ (op[c] = "rest" => tried[c] # 0)
      BY <2>8 DEF RefreshAnswered, RetryInv
    <3>2. CASE ans[c] \in Good
      <4>1. /\ Goto(c, "emit", arg[c]) /\ KeepCall /\ starter' = starter
            /\ access' = arg[c] /\ Adopting(c)
            /\ stored' \in {<<arg[c], arg[c]>>, NoPair} /\ reading' = NoPair
        BY <1>3, <2>8, <3>2
        DEF GoOn, RefreshAnswered, Adopt, SetSession, Persisted, Adopting, Good
      <4>2. (\A d \in Calls \ {c} : Still(d)) /\ at'[c] = "emit" /\ ans'[c] = "none"
            /\ op'[c] = op[c] /\ tried'[c] = tried[c]
        BY <4>1, GotoMoves
      <4>3. \A d \in Calls : arg[c] # tried[d]
        BY <4>1 DEF FreshInv, Elsewhere, Knows
      <4>4. \A d \in Calls : tried'[d] = tried[d]
        BY <4>2 DEF Still
      <4>5. \A d \in Calls : tried'[d] # 0 =>
               /\ Newer(<<access', refresh'>>, tried'[d])
               /\ Newer(stored', tried'[d]) /\ Newer(reading', tried'[d])
        BY <4>1, <4>3, <4>4, NewerNone DEF Newer
      <4>. QED
        BY <2>2, <3>1, <4>1, <4>2, <4>5
    <3>3. CASE ans[c] \in {"refused", "barred"}
      <4>1. Goto(c, "emit", 0) /\ KeepCall /\ starter' = starter
        BY <2>8, <3>3 DEF RefreshAnswered, RefreshFailed, Good
      <4>. QED
        BY <2>3, <3>1, <4>1, GotoMoves
    <3>4. CASE ans[c] = "network"
      <4>1. EndRefresh(c, FALSE)
        BY <2>8, <3>4 DEF RefreshAnswered, RefreshFailed, Good
      <4>2. \A d \in Calls : Still(d) \/ at'[d] = "idle"
        BY <4>1, EndMoves
      <4>3. starter' = NoCall \/ starter' = starter
        BY <4>1, EndMoves
      <4>4. starter' # NoCall => at'[starter'] # "emit"
        BY <2>1, <4>2, <4>3 DEF Still, TypeInv, ClientOK
      <4>5. \A d \in Calls : at'[d] # "idle" =>
               /\ op'[d] = op[d] /\ at'[d] = at[d] /\ arg'[d] = arg[d]
               /\ ans'[d] = ans[d] /\ tried'[d] = tried[d]
        BY <4>2 DEF Still
      <4>. QED
        BY <4>4, <4>5 DEF RetryInv
    <3>. QED
      BY <2>8, <3>2, <3>3, <3>4 DEF RefreshAnswered
  <2>9. CASE RestAnswered(c)
    <3>1. CASE Done(c) /\ starter' = starter
      BY <2>4, <3>1
    <3>2. CASE ans[c] = "refused" /\ Handle401(c) /\ KeepCall
      <4>1. tried[c] # 0
        BY <2>9, <3>2 DEF RestAnswered, RetryInv
      <4>2. starter # c
        BY <2>9 DEF RestAnswered, WaitersAreServed
      <4>3. CASE Goto(c, "join", 0) /\ starter' = starter
        BY <2>3, <3>2, <4>1, <4>2, <4>3, GotoMoves
      <4>4. CASE starter' = c /\ Goto(c, "emit", 0)
        BY <2>2, <3>2, <4>1, <4>4, GotoMoves
      <4>5. CASE starter' = c /\ Goto(c, "refresh", refresh)
        BY <2>2, <3>2, <4>1, <4>5, GotoMoves
      <4>. QED
        BY <3>2, <4>3, <4>4, <4>5 DEF Handle401, RefreshSession
    <3>. QED
      BY <2>9, <3>1, <3>2 DEF RestAnswered
  <2>10. CASE SignOutAnswered(c) \/ RetryAnswered(c)
    BY <2>4, <2>10 DEF SignOutAnswered, RetryAnswered, clientVars
  <2>. QED
    BY <1>3, <2>6, <2>7, <2>8, <2>9, <2>10 DEF GoOn
<1>4. CASE Emit
  <2>1. PICK c \in Calls : c = Head(announce).call /\ at[c] = "emit"
    BY <1>4, EmitsOne DEF QueueInv
  <2>2. UNCHANGED <<access, refresh, stored, reading>> /\ UNCHANGED tokenVars
    BY <1>4 DEF Emit, tokenVars
  <2>3. CASE op[c] = "signOut"
    <3>1. Goto(c, "logout", arg[c]) /\ KeepCall /\ starter' = starter
      BY <1>4, <2>1, <2>3 DEF Emit
    <3>2. starter # c
      BY <2>3 DEF WaitersAreServed
    <3>3. (\A d \in Calls \ {c} : Still(d)) /\ at'[c] = "logout" /\ op'[c] = op[c]
      BY <3>1, GotoMoves
    <3>. QED
      BY <2>2, <2>3, <3>1, <3>2, <3>3, RetryKept
  <2>4. CASE op[c] # "signOut"
    <3>1. EndRefresh(c, arg[c] # 0)
      BY <1>4, <2>1, <2>4 DEF Emit
    <3>2. \A d \in Calls : Still(d) \/ at'[d] \in {"idle", "retry"}
      BY <3>1, EndMoves
    <3>3. /\ at'[c] \in {"idle", "retry"}
          /\ (starter' = starter /\ starter # c) \/ starter' = NoCall
      BY <3>1, EndMoves
    <3>4. \A d \in Calls : at'[d] \notin {"idle", "retry"} =>
             /\ op'[d] = op[d] /\ at'[d] = at[d] /\ arg'[d] = arg[d]
             /\ ans'[d] = ans[d] /\ tried'[d] = tried[d]
      BY <3>2 DEF Still
    <3>. QED
      BY <2>2, <3>3, <3>4 DEF RetryInv, TypeInv, ClientOK
  <2>. QED
    BY <2>3, <2>4
<1>5. CASE Reload
  BY <1>5 DEF Reload, RetryInv
<1>6. CASE RestoreSession \/ AdoptStored
  <2>1. UNCHANGED <<callVars, starter, stored>>
    BY <1>6 DEF RestoreSession, AdoptStored, tokenVars
  <2>2. \/ UNCHANGED <<access, refresh>> /\ reading' = stored
        \/ access' = reading[1] /\ refresh' = reading[2] /\ reading' = NoPair
    BY <1>6 DEF RestoreSession, AdoptStored, tokenVars
  <2>3. ASSUME NEW t, t # 0, Newer(<<access, refresh>>, t), Newer(stored, t),
               Newer(reading, t)
        PROVE  Newer(<<access', refresh'>>, t) /\ Newer(reading', t)
    BY <2>2, <2>3, NewerNone DEF Newer
  <2>. QED
    BY <2>1, <2>3 DEF RetryInv, callVars
<1>7. CASE Expire \/ (\E u \in Users : Rename(u)) \/ UNCHANGED vars
  <2>1. UNCHANGED <<callVars, access, refresh, stored, reading, starter>>
    BY <1>7 DEF Expire, Rename, vars, clientVars, tokenVars
  <2>. QED
    BY <2>1 DEF RetryInv, callVars
<1>. QED
  BY <1>1, <1>2, <1>3, <1>4, <1>5, <1>6, <1>7 DEF Next

-----------------------------------------------------------------------------
(* The theorems.                                                           *)

LEMMA TypeNext == TypeInv /\ QueueInv /\ [Next]_vars => TypeInv'
<1>. SUFFICES ASSUME TypeInv, QueueInv, [Next]_vars
              PROVE  TypeInv'
  OBVIOUS
<1>1. CASE Emit
  <2>1. announce # <<>> /\ announce \in Seq([call : Calls, session : 0 .. issued])
    BY <1>1 DEF Emit, TypeInv, ClientOK, Changes
  <2>2. Head(announce) = announce[1] /\ 1 \in 1 .. Len(announce)
    BY <2>1, HeadAndTail
  <2>. QED
    BY <1>1, <2>2, TypeEmit DEF QueueInv
<1>2. CASE UNCHANGED vars
  <2>1. ServerOK' /\ ClientOK'
    BY <1>2 DEF TypeInv, ServerOK, ClientOK, Issued, vars, serverVars, clientVars, tokenVars,
                historyVars, outVars
  <2>2. CallsOK'
    BY <1>2 DEF TypeInv, CallsOK, Shape, CallOK, Issued, vars, serverVars, callVars
  <2>. QED
    BY <2>1, <2>2 DEF TypeInv
<1>. QED
  BY <1>1, <1>2, TypeAsk, TypeServe, TypeGoOn, TypeWorld DEF Next

LEMMA IInvInit == Init => IInv
<1>. SUFFICES ASSUME Init
              PROVE  IInv
  OBVIOUS
<1>1. ServerOK
  BY SdkAssumption DEF Init, ServerOK, Issued, Pairs
<1>2. ClientOK
  <2>1. announce \in Changes(issued)
    BY EmptySeq DEF Init, Changes
  <2>2. 0 \in 0 .. issued
    BY DEF Init
  <2>3. stored \in (0 .. issued) \X (0 .. issued) /\ reading \in (0 .. issued) \X (0 .. issued)
    BY <2>2 DEF Init, NoPair
  <2>4. recalled \in BOOLEAN /\ crossed \in BOOLEAN
    BY DEF Init
  <2>5. cached \in {NoUser} \cup Users \X BOOLEAN
    BY DEF Init
  <2>6. /\ access \in 0 .. issued /\ refresh \in 0 .. issued /\ socket \in 0 .. issued
        /\ starter \in Calls \cup {NoCall}
        /\ out \in {"no", "asked", "overtaken"} /\ carried \subseteq Calls
    BY <2>2 DEF Init
  <2>. QED
    BY <2>1, <2>3, <2>4, <2>5, <2>6 DEF ClientOK
<1>3. CallsOK
  BY DEF Init, CallsOK, Shape, CallOK, Ops, Places, Answers
<1>4. StoreInv /\ OutInv /\ WaitersAreServed
  BY DEF Init, StoreInv, Whole, OutInv, WaitersAreServed, NoPair
<1>5. QueueInv
  <2>1. Len(<<>>) = 0
    OBVIOUS
  <2>. QED
    BY <2>1 DEF Init, QueueInv
<1>. QED
  BY <1>1, <1>2, <1>3, <1>4, <1>5 DEF IInv, TypeInv

LEMMA IInvAlways == Spec => []IInv
<1>1. IInv /\ [Next]_vars => IInv'
  BY TypeNext, StoreNext, QueueNext, OutNext, WaitersNext DEF IInv
<1>. QED
  BY IInvInit, <1>1, PTL DEF Spec

\* what the theorems about steps rest on
StepsInv ==
    /\ IInv /\ RefusedInv /\ StarterInv /\ FreshInv /\ RotationInv /\ EmitInv /\ RetryInv

LEMMA StepsInit == Init => StepsInv
<1>1. Init => IInv
  BY IInvInit
<1>2. Init => RefusedInv /\ StarterInv /\ EmitInv
  BY DEF Init, RefusedInv, StarterInv, EmitInv
<1>3. Init => FreshInv /\ RotationInv
  BY DEF Init, FreshInv, RotationInv, Adopting, Refreshing, Held, NoPair
<1>4. Init => RetryInv
  BY DEF Init, RetryInv
<1>. QED
  BY <1>1, <1>2, <1>3, <1>4 DEF StepsInv

LEMMA StepsAlways == Spec => []StepsInv
<1>1. StepsInv /\ [Next]_vars => StepsInv'
  <2>1. IInv /\ [Next]_vars => IInv'
    BY TypeNext, StoreNext, QueueNext, OutNext, WaitersNext DEF IInv
  <2>. QED
    BY <2>1, RefusedNext, StarterNext, FreshNext, RotationNext, EmitNext, RetryNext
    DEF StepsInv, IInv
<1>. QED
  BY StepsInit, <1>1, PTL DEF Spec

(***************************************************************************)
(* Every variable of the client, of its calls and of the server keeps its  *)
(* type, for any number of users, calls, tokens and mishaps.               *)
(***************************************************************************)
THEOREM TypeCorrect == Spec => []TypeOK
<1>1. IInv => TypeOK
  BY TypeParts DEF IInv
<1>. QED
  BY IInvAlways, <1>1, PTL

(***************************************************************************)
(* The constructor's listener and _emit: once the listeners have heard of  *)
(* every change, the realtime socket has the token of the session, unless  *)
(* a restoreSession was announced before a change that is older than it.   *)
(***************************************************************************)
THEOREM SocketCorrect == Spec => []SocketFollows
<1>1. IInv => SocketFollows
  BY DEF IInv, QueueInv, SocketFollows
<1>. QED
  BY IInvAlways, <1>1, PTL

(***************************************************************************)
(* signOut: no page load, refresh or late answer of getUser brings a       *)
(* session back; only a sign-in, a refresh or a restoreSession that was    *)
(* under way may.                                                          *)
(***************************************************************************)
THEOREM SignedOutCorrect == Spec => []OutUnlessOvertaken
<1>1. IInv => OutUnlessOvertaken
  BY DEF IInv, OutInv, OutUnlessOvertaken
<1>. QED
  BY IInvAlways, <1>1, PTL

(***************************************************************************)
(* _handle401 and the parsers of the responses: nobody waits for a refresh *)
(* that is over, and no success is read as a failed connection.            *)
(***************************************************************************)
THEOREM CallersCorrect == Spec => []CallersAreServed
<1>1. SuccessIsTold
  <2>1. ASSUME NEW o \in DOMAIN Success, NEW r \in Success[o]
        PROVE  Told(o, r) \in {"data", "null"}
    BY DEF Success, Told, BucketRequest, Upload, Download, Remove, CreateSignedUrl, Invoke,
           Logout, ParseSupython, ParseFunctions, ParseBlob
  <2>. QED
    BY <2>1 DEF SuccessIsTold
<1>2. IInv => CallersAreServed
  BY <1>1 DEF IInv, CallersAreServed
<1>. QED
  BY IInvAlways, <1>2, PTL

(***************************************************************************)
(* refreshSession, signUp and their callers: a session whose refresh token *)
(* the server has not revoked is dropped only by a sign-out, a page load,  *)
(* the refusal of an other token or of the account (403), or a sign-up     *)
(* that is answered without a session (202).                               *)
(***************************************************************************)
THEOREM LiveSessionsCorrect == Spec => LiveSessionsAreKept
<1>1. StepsInv /\ [Next]_vars =>
          [access # 0 /\ refresh # 0 /\ refresh \notin revoked /\ access' = 0 =>
              \/ out' = "asked" \/ mishaps' > mishaps
              \/ \E c \in Calls : at'[c] # at[c] /\
                    \/ at[c] = "refresh" /\ ans[c] = "refused" /\ arg[c] # refresh
                    \/ at[c] = "refresh" /\ ans[c] = "barred"
                    \/ at[c] = "token" /\ ans[c] = "pending"]_vars
  <2>. SUFFICES ASSUME StepsInv, Next, access # 0, refresh # 0, refresh \notin revoked,
                       access' = 0
                PROVE  Dropped
    BY DEF Dropped, Answered
  <2>. QED
    BY LiveNext DEF StepsInv, IInv
<1>. QED
  BY StepsAlways, <1>1, PTL DEF Spec, LiveSessionsAreKept

(***************************************************************************)
(* _handle401 and the rotation of the server: a token that the server      *)
(* finds used was presented again only because an answer was lost, because *)
(* the application refreshed next to the client, or after a sign-out.      *)
(***************************************************************************)
THEOREM ReuseCorrect == Spec => ReuseHasACause
<1>1. StepsInv /\ [Next]_vars => [\A c \in Calls : ServeReuse(c) => arg[c] \in excused]_vars
  BY DEF StepsInv, RotationInv, ServeReuse, Waiting
<1>. QED
  BY StepsAlways, <1>1, PTL DEF Spec, ReuseHasACause

(***************************************************************************)
(* _handle401 and the request that it repeats: the second attempt carries  *)
(* an other token than the one that was refused.                           *)
(***************************************************************************)
THEOREM RetryCorrect == Spec => RetryIsFresh
<1>1. ASSUME StepsInv, Next, NEW c \in Calls, at[c] \in {"join", "emit"}, at'[c] = "retry"
      PROVE  arg'[c] # tried[c] \/ access # refresh
  <2>. USE <1>1 DEF StepsInv, IInv
  <2>1. ~Still(c)
    BY <1>1 DEF Still
  <2>2. Emit
    <3>1. ASSUME NEW d \in Calls, Ask(d)
          PROVE  FALSE
      BY <1>1, <2>1, <3>1, AskMoves, GotoMoves
      DEF Ask, SignIn, SignOut, Refresh, RefreshSession, GetUser, Rest
    <3>2. ASSUME NEW d \in Calls, Serve(d) \/ Fail(d)
          PROVE  FALSE
      <4>1. at' = at
        BY <3>2 DEF Serve, ServeToken, ServeRotation, ServeBarred, ServeReuse, ServeLogout,
                    ServeBearer, Fail, Grant, Answer
      <4>. QED
        BY <1>1, <4>1
    <3>3. ASSUME NEW d \in Calls, GoOn(d)
          PROVE  FALSE
      BY <1>1, <2>1, <3>3, GotoMoves, DoneMoves, EndMoves
      DEF GoOn, SignInAnswered, SignOutAnswered, RefreshAnswered, GetUserAnswered,
          RestAnswered, RetryAnswered, Adopt, RefreshFailed, Handle401, RefreshSession
    <3>. QED
      BY <1>1, <3>1, <3>2, <3>3 DEF Next, RestoreSession, AdoptStored, Reload, Expire,
                                    Rename, callVars
  <2>3. PICK h \in Calls : h = Head(announce).call /\ at[h] = "emit"
    BY <2>2, EmitsOne DEF QueueInv
  <2>4. op[h] # "signOut"
    BY <1>1, <2>1, <2>2, <2>3, GotoMoves DEF Emit
  <2>5. EndRefresh(h, arg[h] # 0)
    BY <2>2, <2>3, <2>4 DEF Emit
  <2>6. /\ c = h \/ at[c] = "join"
        /\ arg'[c] = access /\ arg[h] # 0 /\ op[h] = "rest"
    BY <1>1, <2>1, <2>5, EndMoves
  <2>7. starter = h /\ op[c] = "rest"
    BY <2>3, <2>6 DEF StarterInv, TypeInv, CallsOK, CallOK
  <2>. QED
    BY <1>1, <2>3, <2>6, <2>7, SdkAssumption DEF RetryInv, Newer
<1>2. StepsInv /\ [Next]_vars =>
          [\A c \in Calls : at[c] \in {"join", "emit"} /\ at'[c] = "retry" =>
              arg'[c] # tried[c] \/ access # refresh]_vars
  BY <1>1
<1>. QED
  BY StepsAlways, <1>2, PTL DEF Spec, RetryIsFresh

=============================================================================
