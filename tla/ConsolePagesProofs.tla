------------------------- MODULE ConsolePagesProofs -------------------------
(***************************************************************************)
(* Proofs about the pages of the console, for any slots, logins, accounts, *)
(* statements, schemas, jobs, files, templates, functions and tables, and  *)
(* any number of requests: first the session and the pages that run        *)
(* something, which are statements, dry runs, backups and the actions on   *)
(* jobs; then what is shown of a query or under a name.                    *)
(***************************************************************************)
EXTENDS Console, TLAPS

-----------------------------------------------------------------------------
(* The session.  Here v1 issued; v2 valid; v3 jar; v4 session; v5          *)
(* hydrating; v6 route; v7 next; v8 pending; v9 submitting; v10 call; v11  *)
(* mine; v12 mishaps; v13 out; v14 carried.                                *)

\* the login page is no page of the console, nor is having none
LEMMA SessionPaths ==
  /\ <<>> \in Visited
  /\ Session!Login \notin Visited /\ Session!NoPath \notin Visited
<1>1. \A p \in Session!Routes : Len(p) = 1 => p[1] \notin {"login", "none"}
  BY DEF Session!Routes
<1>2. /\ Len(Session!Login) = 1 /\ Session!Login[1] = "login"
      /\ Len(Session!NoPath) = 1 /\ Session!NoPath[1] = "none"
  BY DEF Session!Login, Session!NoPath
<1>. QED
  BY <1>1, <1>2, ConsoleAssumption DEF Session!SessionAssumption

\* the menu marks one entry: none is a prefix of an other
LEMMA SessionMenu == Session!MenuFollows
<1>1. \A k \in Session!Keys :
         \/ Session!navItems[k] \in {<<>>, <<"storage">>, <<"functions">>, <<"realtime">>}
         \/ Session!navItems[k] \in
               {<<"db", "schema">>, <<"auth", "users">>, <<"auth", "tokens">>,
                <<"auth", "audit">>, <<"auth", "templates">>, <<"jobs", "queue">>,
                <<"jobs", "crons">>, <<"ops", "backups">>, <<"ops", "logs">>}
  <2>1. Session!Keys =
           {"dashboard", "database", "users", "tokens", "audit", "templates", "storage",
            "functions", "realtime", "queue", "crons", "backups", "logs"}
    BY Zenon DEF Session!Keys, Session!navItems
  <2>2. /\ Session!navItems["dashboard"] = <<>>
        /\ Session!navItems["database"] = <<"db", "schema">>
        /\ Session!navItems["users"] = <<"auth", "users">>
        /\ Session!navItems["tokens"] = <<"auth", "tokens">>
        /\ Session!navItems["audit"] = <<"auth", "audit">>
        /\ Session!navItems["templates"] = <<"auth", "templates">>
        /\ Session!navItems["storage"] = <<"storage">>
        /\ Session!navItems["functions"] = <<"functions">>
        /\ Session!navItems["realtime"] = <<"realtime">>
        /\ Session!navItems["queue"] = <<"jobs", "queue">>
        /\ Session!navItems["crons"] = <<"jobs", "crons">>
        /\ Session!navItems["backups"] = <<"ops", "backups">>
        /\ Session!navItems["logs"] = <<"ops", "logs">>
    BY DEF Session!navItems
  <2>. QED
    BY <2>1, <2>2
<1>2. \A k, l \in Session!Keys : Session!navItems[k] = Session!navItems[l] => k = l
  BY DEF Session!Keys, Session!navItems
<1>3. \A k, l \in Session!Keys : ~Session!Under(Session!navItems[k], Session!navItems[l])
  <2> SUFFICES ASSUME NEW k \in Session!Keys, NEW l \in Session!Keys,
                      Session!Under(Session!navItems[k], Session!navItems[l])
               PROVE  FALSE
    OBVIOUS
  <2> DEFINE p == Session!navItems[k]
             i == Session!navItems[l]
  <2>1. i # <<>> /\ Len(p) > Len(i) /\ SubSeq(p, 1, Len(i)) = i
    BY DEF Session!Under
  <2> HIDE DEF p, i
  <2>2. Len(p) <= 2 /\ (Len(i) < 2 => Len(i) = 1 /\ i[1] \in {"storage", "functions", "realtime"})
    BY <1>1, <2>1 DEF p, i
  <2>3. Len(p) = 2 => p[1] \in {"db", "auth", "jobs", "ops"} /\ p = <<p[1], p[2]>>
    BY <1>1 DEF p
  <2>4. Len(p) = 2 /\ Len(i) = 1
    BY <2>1, <2>2, <1>1 DEF p, i
  <2>5. SubSeq(p, 1, 1)[1] = p[1]
    <3>1. \A a, b : <<a, b>> \in Seq({a, b})
      OBVIOUS
    <3>2. p \in Seq({p[1], p[2]})
      BY <2>3, <2>4, <3>1, Zenon
    <3>. QED
      BY <2>4, <3>2
  <2>. QED
    BY <2>1, <2>2, <2>3, <2>4, <2>5
<1>. QED
  BY <1>2, <1>3 DEF Session!MenuFollows, Session!activeKeys

LEMMA SessionInit == Session!Init => Session!SessionInv
<1> SUFFICES ASSUME Session!Init
             PROVE  Session!SessionInv
  OBVIOUS
<1> USE DEF Session!Init
<1>1. Session!SessionShape
  BY DEF Session!SessionShape
<1>2. Session!CallShape /\ \A c \in Calls : v10[c].kind = "none"
  BY DEF Session!CallShape, Session!Idle
<1>3. Session!FlagsFollow /\ Session!SignedOutIsOut
  BY <1>2 DEF Session!FlagsFollow, Session!FormIsReleased, Session!SignedOutIsOut,
         Session!SessionRequests
<1>. QED
  BY <1>1, <1>2, <1>3 DEF Session!SessionInv

\* one request changes, the others stay
LEMMA SessionCalls ==
  ASSUME Session!SessionInv, NEW c \in Calls, NEW x, v10' = [v10 EXCEPT ![c] = x],
         v1' \in Nat, v1 <= v1',
         x \in [kind : {"none", "guard", "page", "login", "logout", "api"},
                cookie : 0 .. v1', ans : {"none", "ok", "refused", "failed"}, who : 0 .. v1'],
         x.ans = "ok" /\ x.kind # "logout" => x.who # 0
  PROVE  Session!CallShape' /\ v10'[c] = x /\ \A d \in Calls : d # c => v10'[d] = v10[d]
<1>1. \A d \in Calls : v10'[d] = IF d = c THEN x ELSE v10[d]
  BY DEF Session!SessionInv, Session!CallShape
<1>2. v1 \in Nat /\ 0 .. v1 \subseteq 0 .. v1'
  BY DEF Session!SessionInv, Session!SessionShape
<1>3. \A d \in Calls :
         v10[d] \in [kind : {"none", "guard", "page", "login", "logout", "api"},
                     cookie : 0 .. v1', ans : {"none", "ok", "refused", "failed"},
                     who : 0 .. v1']
  BY <1>2 DEF Session!SessionInv, Session!CallShape
<1>. QED
  BY <1>1, <1>3 DEF Session!SessionInv, Session!CallShape

LEMMA SessionCallEnds ==
  ASSUME Session!SessionInv, NEW c \in Calls, v10' = [v10 EXCEPT ![c] = Session!Idle],
         v1' \in Nat, v1 <= v1'
  PROVE  Session!CallShape' /\ v10'[c] = Session!Idle /\ \A d \in Calls : d # c => v10'[d] = v10[d]
<1>1. Session!Idle \in [kind : {"none", "guard", "page", "login", "logout", "api"},
                       cookie : 0 .. v1', ans : {"none", "ok", "refused", "failed"}, who : 0 .. v1']
  BY DEF Session!Idle
<1>2. Session!Idle.ans = "none"
  BY DEF Session!Idle
<1>. QED
  BY <1>1, <1>2, SessionCalls

\* what the browser shows, and what it waits for
ScreenInv ==
    /\ Session!CallShape /\ Session!FlagsFollow
    /\ v6 \in Visited \cup {Session!Login, Session!NoPath, <<"blank">>}
    /\ v8 \in Visited \cup {Session!NoPath}
    /\ v7 \in Visited \cup {Session!NoPath, Session!Foreign}
    /\ v7 # Session!NoPath => v6 = Session!Login

\* h says whether a request of the store is left when c is done
Rest(c, h) == h = (Session!SessionRequests \ {c} # {})

LEMMA SessionShown ==
  ASSUME Session!SessionInv, NEW c \in Calls, NEW to \in Visited, NEW h, Rest(c, h),
         v1' \in Nat, v1 <= v1', Session!Show(to, c, h)
  PROVE  ScreenInv' /\ v7' = Session!NoPath
<1>1. /\ v10' = [v10 EXCEPT ![c] = Session!Idle]
      /\ v6' = to /\ v7' = Session!NoPath /\ v8' = Session!NoPath
      /\ v9' = FALSE /\ v11' = {} /\ v5' = h
  BY DEF Session!Show
<1>2. Session!CallShape' /\ v10'[c] = Session!Idle /\ \A d \in Calls : d # c => v10'[d] = v10[d]
  BY <1>1, SessionCallEnds
<1>3. Session!SessionRequests' = Session!SessionRequests \ {c}
  BY <1>2 DEF Session!SessionRequests, Session!Idle
<1>4. Session!FlagsFollow'
  BY <1>1, <1>3 DEF Session!FlagsFollow, Session!FormIsReleased, Rest, Session!SessionInv
<1>. QED
  BY <1>1, <1>2, <1>4 DEF ScreenInv

LEMMA SessionAsks ==
  ASSUME Session!SessionInv, NEW c \in Calls, NEW k \in {"guard", "page"}, Rest(c, FALSE),
         v1' \in Nat, v1 <= v1', v3' \in 0 .. v1', Session!Hydrate(c, k)
  PROVE  /\ Session!CallShape' /\ v5' = TRUE /\ v10'[c].kind = k
         /\ Session!SessionRequests' = {c}
         /\ \A d \in Calls : d # c => v10'[d] = v10[d]
<1>1. v5' = TRUE /\ v10' = [v10 EXCEPT ![c] = Session!Send(k, v3')]
  BY DEF Session!Hydrate
<1>2. /\ Session!CallShape' /\ v10'[c] = Session!Send(k, v3')
      /\ \A d \in Calls : d # c => v10'[d] = v10[d]
  <2>1. /\ Session!Send(k, v3') \in
              [kind : {"none", "guard", "page", "login", "logout", "api"}, cookie : 0 .. v1',
               ans : {"none", "ok", "refused", "failed"}, who : 0 .. v1']
        /\ Session!Send(k, v3').ans = "none"
    BY DEF Session!Send
  <2>. QED
    BY <1>1, <2>1, SessionCalls
<1>3. Session!SessionRequests' = {c}
  BY <1>2 DEF Session!SessionRequests, Session!Send, Rest
<1>. QED
  BY <1>1, <1>2, <1>3 DEF Session!Send

\* a step that leaves the login page's requests as they are, but for c
LEMMA SessionForm ==
  ASSUME Session!SessionInv, NEW c \in Calls,
         c \in v11 => v10[c].kind # "login",
         \A d \in Calls : d # c => v10'[d] = v10[d],
         v11' = v11 \ {c}, v9' = v9
  PROVE  /\ \A d \in v11' : d \in Calls /\ v10'[d].kind \in {"page", "login"}
         /\ \A d, e \in v11' : v10'[d].kind = "login" /\ v10'[e].kind = "login" => d = e
         /\ Session!FormIsReleased'
BY DEF Session!SessionInv, Session!FlagsFollow, Session!FormIsReleased

LEMMA SessionLoginShown ==
  ASSUME Session!SessionInv, NEW c \in Calls, NEW h, Rest(c, h),
         NEW nx \in Visited \cup {Session!NoPath, Session!Foreign}, NEW s,
         c \in v11 => v10[c].kind # "login",
         v1' \in Nat, v1 <= v1', v3' \in 0 .. v1', Session!ShowLogin(nx, c, s, h)
  PROVE  /\ ScreenInv' /\ v7' \in {nx, Session!NoPath}
         /\ s # 0 /\ v6 # Session!Login => v7' = Session!NoPath
         /\ h /\ s = 0 => v10' = [v10 EXCEPT ![c] = Session!Idle]
<1>1. CASE v6 = Session!Login
  <2>1. /\ v6' = Session!Login /\ v7' = nx /\ v8' = Session!NoPath /\ v5' = h
        /\ v10' = [v10 EXCEPT ![c] = Session!Idle] /\ v11' = v11 \ {c} /\ v9' = v9
    BY <1>1 DEF Session!ShowLogin
  <2>2. /\ Session!CallShape' /\ v10'[c] = Session!Idle
        /\ \A d \in Calls : d # c => v10'[d] = v10[d]
    BY <2>1, SessionCallEnds
  <2>3. Session!SessionRequests' = Session!SessionRequests \ {c}
    BY <2>2 DEF Session!SessionRequests, Session!Idle
  <2>4. Session!FlagsFollow'
    BY <2>1, <2>2, <2>3, SessionForm DEF Session!FlagsFollow, Rest, Session!SessionInv
  <2>. QED
    BY <1>1, <2>1, <2>2, <2>4 DEF ScreenInv
<1>2. CASE v6 # Session!Login /\ s # 0
  <2>1. Session!Show(Session!nextPath(nx), c, h)
    BY <1>2 DEF Session!ShowLogin
  <2>2. Session!nextPath(nx) \in Visited
    BY SessionPaths DEF Session!nextPath
  <2>. QED
    BY <1>2, <2>1, <2>2, SessionShown
<1>3. CASE v6 # Session!Login /\ s = 0 /\ h
  <2>1. /\ v6' = Session!Login /\ v7' = nx /\ v8' = Session!NoPath /\ v9' = FALSE
        /\ v5' = h /\ v10' = [v10 EXCEPT ![c] = Session!Idle] /\ v11' = {}
    BY <1>3 DEF Session!ShowLogin
  <2>2. /\ Session!CallShape' /\ v10'[c] = Session!Idle
        /\ \A d \in Calls : d # c => v10'[d] = v10[d]
    BY <2>1, SessionCallEnds
  <2>3. Session!SessionRequests' = Session!SessionRequests \ {c}
    BY <2>2 DEF Session!SessionRequests, Session!Idle
  <2>4. Session!FlagsFollow'
    BY <2>1, <2>3 DEF Session!FlagsFollow, Session!FormIsReleased, Rest, Session!SessionInv
  <2>. QED
    BY <1>3, <2>1, <2>2, <2>4 DEF ScreenInv
<1>4. CASE v6 # Session!Login /\ s = 0 /\ ~h
  <2>1. /\ v6' = Session!Login /\ v7' = nx /\ v8' = Session!NoPath /\ v9' = FALSE
        /\ Session!Hydrate(c, "page") /\ v11' = {c}
    BY <1>4 DEF Session!ShowLogin
  <2>2. Rest(c, FALSE)
    BY <1>4 DEF Rest
  <2>3. /\ Session!CallShape' /\ v5' = TRUE /\ v10'[c].kind = "page"
        /\ Session!SessionRequests' = {c}
    BY <2>1, <2>2, SessionAsks
  <2>4. Session!FlagsFollow'
    BY <2>1, <2>3 DEF Session!FlagsFollow, Session!FormIsReleased
  <2>. QED
    BY <1>4, <2>1, <2>3, <2>4 DEF ScreenInv
<1>. QED
  BY <1>1, <1>2, <1>3, <1>4

LEMMA SessionGuarded ==
  ASSUME Session!SessionInv, NEW c \in Calls, NEW h, Rest(c, h),
         NEW to \in Visited \cup {Session!Login}, NEW s,
         to = Session!Login \/ s = 0 => (c \in v11 => v10[c].kind # "login"),
         v1' \in Nat, v1 <= v1', v3' \in 0 .. v1', Session!Guard(to, c, s, h)
  PROVE  /\ ScreenInv'
         /\ v6' = Session!Login /\ v6 # Session!Login /\ v7' # Session!NoPath =>
               h /\ s = 0 /\ v10' = [v10 EXCEPT ![c] = Session!Idle]
<1>1. CASE to = Session!Login
  <2>1. Session!ShowLogin(Session!NoPath, c, s, h)
    BY <1>1 DEF Session!Guard
  <2>. QED
    BY <1>1, <2>1, SessionLoginShown
<1>2. CASE to # Session!Login /\ s # 0
  <2>1. Session!Show(to, c, h)
    BY <1>2 DEF Session!Guard
  <2>. QED
    BY <1>2, <2>1, SessionShown
<1>3. CASE to # Session!Login /\ s = 0 /\ h
  <2>1. Session!ShowLogin(to, c, s, h)
    BY <1>3 DEF Session!Guard
  <2>. QED
    BY <1>3, <2>1, SessionLoginShown
<1>4. CASE to # Session!Login /\ s = 0 /\ ~h
  <2>1. /\ Session!Hydrate(c, "guard") /\ v8' = to /\ v11' = v11 \ {c}
        /\ v6' = v6 /\ v7' = v7 /\ v9' = v9
    BY <1>4 DEF Session!Guard
  <2>2. Rest(c, FALSE)
    BY <1>4 DEF Rest
  <2>3. /\ Session!CallShape' /\ v5' = TRUE /\ Session!SessionRequests' = {c}
        /\ \A d \in Calls : d # c => v10'[d] = v10[d]
    BY <2>1, <2>2, SessionAsks
  <2>4. Session!FlagsFollow'
    BY <1>4, <2>1, <2>3, SessionForm DEF Session!FlagsFollow
  <2>. QED
    BY <1>4, <2>1, <2>3, <2>4 DEF ScreenInv, Session!SessionInv, Session!SessionShape
<1>. QED
  BY <1>1, <1>2, <1>3, <1>4

\* the two halves of the invariant
LEMMA SessionWhole ==
  ASSUME ScreenInv', v1' \in Nat, v12' \in Nat, v3' \in 0 .. v1', v4' \in 0 .. v1',
         v2' \subseteq 1 .. v1', v13' = "asked" => v4' = 0
  PROVE  Session!SessionInv'
BY DEF ScreenInv, Session!SessionInv, Session!SessionShape, Session!SignedOutIsOut

\* a free slot asks for nothing
LEMMA SessionFree ==
  ASSUME Session!SessionInv, NEW c \in Session!Free
  PROVE  /\ c \in Calls /\ c \notin Session!SessionRequests /\ c \notin v11
         /\ Rest(c, v5)
<1>1. c \in Calls /\ v10[c].kind = "none"
  BY DEF Session!Free, Session!Idle
<1>2. c \notin Session!SessionRequests /\ c \notin v11
  BY <1>1 DEF Session!SessionInv, Session!FlagsFollow, Session!SessionRequests
<1>. QED
  BY <1>1, <1>2 DEF Rest, Session!SessionInv, Session!FlagsFollow

LEMMA SessionNavigated ==
  ASSUME Session!SessionInv, NEW c \in Session!Free, NEW to \in Visited \cup {Session!Login},
         Session!Navigate(to, c)
  PROVE  Session!SessionInv' /\ (Session!TurnedAway => Session!HasCause)
<1>1. c \in Calls /\ c \notin Session!SessionRequests /\ c \notin v11 /\ Rest(c, v5)
  BY SessionFree
<1>2. /\ v1' = v1 /\ v2' = v2 /\ v3' = v3 /\ v4' = v4 /\ v12' = v12 /\ v13' = v13
      /\ Session!Guard(to, c, v4, v5)
  BY DEF Session!Navigate, Session!serverState, Session!history
<1>3. /\ v1 \in Nat /\ v12 \in Nat /\ v3 \in 0 .. v1 /\ v4 \in 0 .. v1 /\ v2 \subseteq 1 .. v1
      /\ v13 = "asked" => v4 = 0
  BY DEF Session!SessionInv, Session!SessionShape, Session!SignedOutIsOut
<1>4. /\ ScreenInv'
      /\ v6' = Session!Login /\ v6 # Session!Login /\ v7' # Session!NoPath =>
            v5 /\ v4 = 0 /\ v10' = [v10 EXCEPT ![c] = Session!Idle]
  BY <1>1, <1>2, <1>3, SessionGuarded
<1>5. Session!SessionInv'
  BY <1>2, <1>3, <1>4, SessionWhole
<1>6. ASSUME Session!TurnedAway
      PROVE  Session!HasCause
  <2>1. v5 /\ v10' = [v10 EXCEPT ![c] = Session!Idle]
    BY <1>4, <1>6 DEF Session!TurnedAway
  <2>2. PICK d \in Session!SessionRequests : TRUE
    BY <2>1 DEF Session!SessionInv, Session!FlagsFollow
  <2>3. v10'[d] = v10[d]
    BY <1>1, <2>1, <2>2 DEF Session!SessionInv, Session!CallShape, Session!SessionRequests
  <2>. QED
    BY <2>3 DEF Session!HasCause
<1>. QED
  BY <1>5, <1>6

LEMMA SessionLoaded ==
  ASSUME Session!SessionInv, NEW c \in Session!Free, NEW to \in Visited \cup {Session!Login},
         NEW nx \in Visited \cup {Session!NoPath, Session!Foreign},
         Session!Load(to, nx, c)
  PROVE  Session!SessionInv' /\ (Session!TurnedAway => Session!HasCause)
<1>1. /\ v1' = v1 /\ v2' = v2 /\ v3' = v3 /\ v4' = 0 /\ v13' = "no" /\ v9' = FALSE /\ v5' = TRUE
      /\ v12' = IF v6 = Session!NoPath THEN v12 ELSE v12 + 1
      /\ v10' = [d \in Calls |->
                   IF d = c THEN Session!Send(IF to = Session!Login THEN "page" ELSE "guard", v3)
                   ELSE Session!Idle]
  BY DEF Session!Load, Session!serverState
<1>2. /\ v1 \in Nat /\ v12 \in Nat /\ v3 \in 0 .. v1 /\ v2 \subseteq 1 .. v1
  BY DEF Session!SessionInv, Session!SessionShape
<1>3. c \in Calls
  BY DEF Session!Free
<1>4. /\ Session!CallShape'
      /\ v10'[c].kind = IF to = Session!Login THEN "page" ELSE "guard"
      /\ Session!SessionRequests' = {c}
  <2>1. v10'[c] = Session!Send(IF to = Session!Login THEN "page" ELSE "guard", v3)
    BY <1>1, <1>3
  <2>2. \A d \in Calls : d # c => v10'[d] = Session!Idle
    BY <1>1
  <2>3. Session!CallShape'
    BY <1>1, <1>2, <1>3 DEF Session!CallShape, Session!Send, Session!Idle
  <2>. QED
    BY <1>3, <2>1, <2>2, <2>3 DEF Session!SessionRequests, Session!Send, Session!Idle
<1>5. \/ /\ to = Session!Login /\ v6' = Session!Login /\ v7' = nx /\ v8' = Session!NoPath
         /\ v11' = {c}
      \/ /\ to # Session!Login /\ v6' = <<"blank">> /\ v7' = Session!NoPath /\ v8' = to
         /\ v11' = {}
  BY DEF Session!Load
<1>6. Session!FlagsFollow'
  BY <1>1, <1>3, <1>4, <1>5 DEF Session!FlagsFollow, Session!FormIsReleased
<1>7. ScreenInv'
  BY <1>4, <1>5, <1>6 DEF ScreenInv
<1>8. Session!SessionInv'
  BY <1>1, <1>2, <1>7, SessionWhole
<1>9. v12' # v12 \/ v6 = Session!NoPath
  BY <1>1, <1>2
<1>. QED
  BY <1>8, <1>9 DEF Session!HasCause

\* a request of the page goes out, which the store does not wait for
LEMMA SessionSent ==
  ASSUME Session!SessionInv, NEW c \in Session!Free, NEW k \in {"login", "logout", "api"},
         v10' = [v10 EXCEPT ![c] = Session!Send(k, v3)],
         UNCHANGED <<v1, v2, v3, v4, v5, v6, v7, v8, v12, v13, v14>>,
         \/ k = "login" /\ ~v9 /\ v9' = TRUE /\ v11' = v11 \cup {c}
         \/ k # "login" /\ v9' = v9 /\ v11' = v11
  PROVE  Session!SessionInv'
<1>1. c \in Calls /\ c \notin Session!SessionRequests /\ c \notin v11
  BY SessionFree
<1>2. /\ v1 \in Nat /\ v12 \in Nat /\ v3 \in 0 .. v1 /\ v4 \in 0 .. v1 /\ v2 \subseteq 1 .. v1
      /\ v13 = "asked" => v4 = 0
      /\ v1' \in Nat /\ v1 <= v1'
  BY DEF Session!SessionInv, Session!SessionShape, Session!SignedOutIsOut
<1>3. /\ Session!CallShape' /\ v10'[c] = Session!Send(k, v3)
      /\ \A d \in Calls : d # c => v10'[d] = v10[d]
  <2>1. /\ Session!Send(k, v3) \in
              [kind : {"none", "guard", "page", "login", "logout", "api"}, cookie : 0 .. v1',
               ans : {"none", "ok", "refused", "failed"}, who : 0 .. v1']
        /\ Session!Send(k, v3).ans = "none"
    BY <1>2 DEF Session!Send
  <2>. QED
    BY <1>1, <1>2, <2>1, SessionCalls
<1>4. v10'[c].kind = k
  BY <1>3 DEF Session!Send
<1>5. Session!SessionRequests' = Session!SessionRequests
  BY <1>1, <1>3, <1>4 DEF Session!SessionRequests
<1>6. Session!FlagsFollow'
  BY <1>1, <1>3, <1>4, <1>5 DEF Session!SessionInv, Session!FlagsFollow, Session!FormIsReleased
<1>7. ScreenInv'
  BY <1>3, <1>6 DEF ScreenInv, Session!SessionInv, Session!SessionShape
<1>. QED
  BY <1>2, <1>7, SessionWhole

\* the page sees nothing of the step
Unseen == UNCHANGED <<v3, v4, v5, v6, v7, v8, v9, v11, v13, v14>>

\* a request is answered, and the page has not seen it yet
LEMMA SessionServed ==
  ASSUME Session!SessionInv, NEW c \in Calls, v10[c].kind # "none",
         NEW a \in {"ok", "refused", "failed"}, NEW n \in 0 .. v1', Session!Answered(c, a, n),
         a = "ok" /\ v10[c].kind # "logout" => n # 0,
         v1' \in Nat, v1 <= v1', v2' \subseteq 1 .. v1', v12' \in Nat,
         Unseen
  PROVE  Session!SessionInv'
<1> DEFINE x == [v10[c] EXCEPT !.ans = a, !.who = n]
<1>1. v10' = [v10 EXCEPT ![c] = x]
  BY DEF Session!Answered
<1>2. /\ v1 \in Nat /\ v3 \in 0 .. v1 /\ v4 \in 0 .. v1
      /\ v13 = "asked" => v4 = 0
      /\ UNCHANGED <<v3, v4, v5, v6, v7, v8, v9, v11, v13>>
  BY DEF Session!SessionInv, Session!SessionShape, Session!SignedOutIsOut, Unseen
<1>3. /\ x \in [kind : {"none", "guard", "page", "login", "logout", "api"}, cookie : 0 .. v1',
                ans : {"none", "ok", "refused", "failed"}, who : 0 .. v1']
      /\ x.ans = a /\ x.who = n /\ x.kind = v10[c].kind
  <2>1. v10[c] \in [kind : {"none", "guard", "page", "login", "logout", "api"},
                   cookie : 0 .. v1, ans : {"none", "ok", "refused", "failed"}, who : 0 .. v1]
    BY DEF Session!SessionInv, Session!CallShape
  <2>2. v10[c].cookie \in 0 .. v1'
    BY <1>2, <2>1
  <2>. QED
    BY <2>1, <2>2
<1> HIDE DEF x
<1>4. /\ Session!CallShape' /\ v10'[c] = x
      /\ \A d \in Calls : d # c => v10'[d] = v10[d]
  BY <1>1, <1>3, SessionCalls
<1>5. \A d \in Calls : v10'[d].kind = v10[d].kind
  BY <1>3, <1>4
<1>6. Session!SessionRequests' = Session!SessionRequests
  BY <1>5 DEF Session!SessionRequests
<1>7. Session!FlagsFollow'
  BY <1>2, <1>5, <1>6 DEF Session!SessionInv, Session!FlagsFollow, Session!FormIsReleased
<1>8. ScreenInv'
  BY <1>2, <1>4, <1>7 DEF ScreenInv, Session!SessionInv, Session!SessionShape
<1>. QED
  BY <1>2, <1>8, SessionWhole

LEMMA SessionServes ==
  ASSUME Session!SessionInv, NEW c \in Calls, Session!Serve(c)
  PROVE  Session!SessionInv'
<1>1. Unseen /\ v12' = v12
  BY DEF Session!Serve, Session!clientState, Session!history, Unseen
<1>2. v1 \in Nat /\ v12 \in Nat /\ v2 \subseteq 1 .. v1
  BY DEF Session!SessionInv, Session!SessionShape
<1> DEFINE Quiet == v1' \in Nat /\ v1 <= v1' /\ v2' \subseteq 1 .. v1' /\ v12' \in Nat
<1>3. v1' = v1 /\ v2' \subseteq v2 => Quiet /\ 0 \in 0 .. v1'
  BY <1>1, <1>2
<1>4. CASE Session!ServeLogin(c)
  <2>1. CASE v1' = v1 + 1 /\ v2' = v2 \cup {v1 + 1} /\ Session!Answered(c, "ok", v1 + 1)
    <3>1. v1' \in Nat /\ v1 <= v1' /\ v2' \subseteq 1 .. v1' /\ v12' \in Nat
      BY <1>1, <1>2, <2>1
    <3>2. v1 + 1 \in 0 .. v1' /\ v1 + 1 # 0 /\ v10[c].kind # "none"
      BY <1>2, <1>4, <2>1 DEF Session!ServeLogin
    <3>. QED
      BY <1>1, <2>1, <3>1, <3>2, SessionServed
  <2>2. CASE Session!Answered(c, "refused", 0) /\ v1' = v1 /\ v2' = v2
    <3>1. v10[c].kind # "none"
      BY <1>4 DEF Session!ServeLogin
    <3>. QED
      BY <1>1, <1>3, <2>2, <3>1, SessionServed
  <2>. QED
    BY <1>4, <2>1, <2>2 DEF Session!ServeLogin
<1>5. CASE Session!ServeLogout(c)
  <2>1. /\ v10[c].kind = "logout" /\ v1' = v1 /\ v2' \subseteq v2
        /\ Session!Answered(c, "ok", 0)
    BY <1>5 DEF Session!ServeLogout
  <2>. QED
    BY <1>1, <1>3, <2>1, SessionServed
<1>6. CASE Session!ServeSession(c)
  <2>1. v10[c].kind \in {"guard", "page", "api"} /\ v1' = v1 /\ v2' = v2
    BY <1>6 DEF Session!ServeSession
  <2>2. CASE v10[c].cookie \in v2 /\ Session!Answered(c, "ok", v10[c].cookie)
    <3>1. v10[c].cookie \in 1 .. v1
      BY <1>2, <2>2
    <3>2. v10[c].cookie \in 0 .. v1' /\ v10[c].cookie # 0
      BY <1>2, <2>1, <3>1
    <3>. QED
      BY <1>1, <1>3, <2>1, <2>2, <3>2, SessionServed
  <2>3. CASE Session!Answered(c, "refused", 0)
    BY <1>1, <1>3, <2>1, <2>3, SessionServed
  <2>. QED
    BY <1>6, <2>2, <2>3 DEF Session!ServeSession
<1>. QED
  BY <1>4, <1>5, <1>6 DEF Session!Serve

LEMMA SessionFails ==
  ASSUME Session!SessionInv, NEW c \in Calls, Session!Fail(c)
  PROVE  Session!SessionInv'
<1>1. /\ Unseen /\ v1' = v1 /\ v2' = v2 /\ v12' = v12 + 1
      /\ v10[c].kind # "none" /\ Session!Answered(c, "failed", 0)
  BY DEF Session!Fail, Session!serverState, Session!clientState, Session!history, Unseen
<1>2. v1 \in Nat /\ v12 \in Nat /\ v2 \subseteq 1 .. v1
  BY DEF Session!SessionInv, Session!SessionShape
<1>3. v1' \in Nat /\ v1 <= v1' /\ v2' \subseteq 1 .. v1' /\ v12' \in Nat /\ 0 \in 0 .. v1'
  BY <1>1, <1>2
<1>. QED
  BY <1>1, <1>3, SessionServed

LEMMA SessionExpires ==
  ASSUME Session!SessionInv, Session!Expire
  PROVE  Session!SessionInv'
<1>1. /\ UNCHANGED <<v1, v3, v4, v5, v6, v7, v8, v9, v10, v11, v13, v14>> /\ v12' = v12 + 1
      /\ v2' \subseteq v2
  BY DEF Session!Expire, Session!clientState, Session!history
<1>2. /\ v1 \in Nat /\ v12 \in Nat /\ v3 \in 0 .. v1 /\ v4 \in 0 .. v1 /\ v2 \subseteq 1 .. v1
      /\ v13 = "asked" => v4 = 0
  BY DEF Session!SessionInv, Session!SessionShape, Session!SignedOutIsOut
<1>3. Session!FlagsFollow'
  BY <1>1 DEF Session!SessionInv, Session!FlagsFollow, Session!FormIsReleased,
         Session!SessionRequests
<1>4. ScreenInv'
  BY <1>1, <1>3 DEF ScreenInv, Session!SessionInv, Session!SessionShape, Session!CallShape
<1>. QED
  BY <1>1, <1>2, <1>4, SessionWhole

\* an answer that changes nothing on the page but who is waited for
LEMMA SessionCallDone ==
  ASSUME Session!SessionInv, NEW c \in Calls, v10' = [v10 EXCEPT ![c] = Session!Idle],
         v1' = v1, v6' = v6, v7' = v7, v8' = v8, v11' = v11 \ {c},
         v5' = IF c \in Session!SessionRequests THEN FALSE ELSE v5,
         v9' = IF c \in v11 /\ v10[c].kind = "login" THEN FALSE ELSE v9
  PROVE  ScreenInv'
<1>1. v1' \in Nat /\ v1 <= v1'
  BY DEF Session!SessionInv, Session!SessionShape
<1>2. /\ Session!CallShape' /\ v10'[c] = Session!Idle
      /\ \A d \in Calls : d # c => v10'[d] = v10[d]
  BY <1>1, SessionCallEnds
<1>3. Session!SessionRequests' = Session!SessionRequests \ {c}
  BY <1>2 DEF Session!SessionRequests, Session!Idle
<1>4. v5' = (Session!SessionRequests' # {})
  BY <1>3 DEF Session!SessionInv, Session!FlagsFollow
<1>5. Session!FlagsFollow'
  BY <1>2, <1>3, <1>4 DEF Session!SessionInv, Session!FlagsFollow, Session!FormIsReleased
<1>. QED
  BY <1>2, <1>5 DEF ScreenInv, Session!SessionInv, Session!SessionShape

LEMMA SessionHydrated ==
  ASSUME Session!SessionInv, NEW c \in Calls, Session!HydrateAnswered(c)
  PROVE  Session!SessionInv' /\ (Session!TurnedAway => Session!HasCause)
<1> DEFINE s == IF v10[c].ans = "ok" THEN v10[c].who ELSE 0
<1>1. /\ v1' = v1 /\ v2' = v2 /\ v3' = v3 /\ v12' = v12 /\ v4' = s
      /\ v10[c].kind \in {"guard", "page"} /\ v10[c].ans # "none"
      /\ v13' = IF v13 = "no" \/ s = 0 THEN v13 ELSE IF c \in v14 THEN "overtaken" ELSE "no"
  BY DEF Session!HydrateAnswered, Session!Filled, Session!serverState
<1>2. IF v10[c].kind = "guard" /\ v8 # Session!NoPath
      THEN IF s # 0 THEN Session!Show(v8, c, FALSE) ELSE Session!ShowLogin(v8, c, s, FALSE)
      ELSE IF v10[c].kind = "page" /\ s # 0
      THEN Session!Show(Session!nextPath(v7), c, FALSE)
      ELSE /\ v5' = FALSE
           /\ v10' = [v10 EXCEPT ![c] = Session!Idle]
           /\ v11' = v11 \ {c}
           /\ UNCHANGED <<v6, v7, v8, v9>>
  BY DEF Session!HydrateAnswered, Session!hydrated
<1>3. /\ v1 \in Nat /\ v12 \in Nat /\ v3 \in 0 .. v1 /\ v4 \in 0 .. v1 /\ v2 \subseteq 1 .. v1
      /\ v13 = "asked" => v4 = 0
      /\ v8 \in Visited \cup {Session!NoPath}
  BY DEF Session!SessionInv, Session!SessionShape, Session!SignedOutIsOut
<1>4. s \in 0 .. v1 /\ (v10[c].ans = "ok" => s # 0)
  BY <1>1, <1>3 DEF Session!SessionInv, Session!CallShape
<1>5. c \in Session!SessionRequests /\ v10[c].kind # "login" /\ Rest(c, FALSE)
  BY <1>1 DEF Session!SessionRequests, Session!SessionInv, Session!FlagsFollow, Rest
<1>6. v1' \in Nat /\ v1 <= v1' /\ v3' \in 0 .. v1'
  BY <1>1, <1>3
<1>7. ScreenInv' /\ (Session!TurnedAway => Session!HasCause)
  <2>1. CASE v10[c].kind = "guard" /\ v8 # Session!NoPath /\ s # 0
    <3>1. v8 \in Visited /\ Session!Show(v8, c, FALSE)
      BY <1>2, <1>3, <2>1
    <3>2. ScreenInv' /\ v7' = Session!NoPath
      BY <1>5, <1>6, <3>1, SessionShown
    <3>. QED
      BY <3>2 DEF Session!TurnedAway
  <2>2. CASE v10[c].kind = "guard" /\ v8 # Session!NoPath /\ s = 0
    <3>1. v8 \in Visited /\ Session!ShowLogin(v8, c, s, FALSE)
      BY <1>2, <1>3, <2>2
    <3> HIDE DEF s
    <3>2. ScreenInv'
      BY <1>5, <1>6, <3>1, SessionLoginShown
    <3>3. Session!HasCause
      BY <1>4, <1>5, <2>2 DEF Session!HasCause
    <3>. QED
      BY <3>2, <3>3
  <2>3. CASE v10[c].kind = "page" /\ s # 0
    <3>1. Session!Show(Session!nextPath(v7), c, FALSE)
      BY <1>2, <2>3
    <3>2. Session!nextPath(v7) \in Visited
      BY SessionPaths DEF Session!nextPath
    <3>3. ScreenInv' /\ v7' = Session!NoPath
      BY <1>5, <1>6, <3>1, <3>2, SessionShown
    <3>. QED
      BY <3>3 DEF Session!TurnedAway
  <2>4. CASE /\ ~(v10[c].kind = "guard" /\ v8 # Session!NoPath)
             /\ ~(v10[c].kind = "page" /\ s # 0)
    <3>1. /\ v5' = FALSE /\ v10' = [v10 EXCEPT ![c] = Session!Idle] /\ v11' = v11 \ {c}
          /\ v6' = v6 /\ v7' = v7 /\ v8' = v8 /\ v9' = v9
      BY <1>2, <2>4
    <3>2. ScreenInv'
      BY <1>1, <1>5, <3>1, SessionCallDone
    <3>. QED
      BY <3>1, <3>2 DEF Session!TurnedAway
  <2>. QED
    BY <1>1, <2>1, <2>2, <2>3, <2>4
<1> HIDE DEF s
<1>8. v4' \in 0 .. v1' /\ v2' \subseteq 1 .. v1' /\ v12' \in Nat /\ (v13' = "asked" => v4' = 0)
  BY <1>1, <1>3, <1>4
<1>. QED
  BY <1>6, <1>7, <1>8, SessionWhole

LEMMA SessionLoggedIn ==
  ASSUME Session!SessionInv, NEW c \in Calls, Session!LoginAnswered(c)
  PROVE  Session!SessionInv' /\ ~Session!TurnedAway
<1>1. /\ v1' = v1 /\ v2' = v2 /\ v12' = v12
      /\ v10[c].kind = "login" /\ v10[c].ans # "none"
  BY DEF Session!LoginAnswered
<1>2. /\ v1 \in Nat /\ v12 \in Nat /\ v3 \in 0 .. v1 /\ v4 \in 0 .. v1 /\ v2 \subseteq 1 .. v1
      /\ v13 = "asked" => v4 = 0
  BY DEF Session!SessionInv, Session!SessionShape, Session!SignedOutIsOut
<1>3. c \notin Session!SessionRequests /\ Rest(c, v5)
  BY <1>1 DEF Session!SessionRequests, Session!SessionInv, Session!FlagsFollow, Rest
<1>4. v1' \in Nat /\ v1 <= v1' /\ v2' \subseteq 1 .. v1' /\ v12' \in Nat
  BY <1>1, <1>2
<1>5. CASE v10[c].ans = "ok"
  <2>1. /\ v3' = v10[c].who /\ v4' = v10[c].who
        /\ v13' = IF v13 = "no" \/ v4' = 0 THEN v13 ELSE IF c \in v14 THEN "overtaken" ELSE "no"
        /\ Session!Guard(Session!nextPath(v7), c, v4', v5)
    BY <1>5 DEF Session!LoginAnswered, Session!Filled
  <2>2. v4' \in 0 .. v1' /\ v3' \in 0 .. v1' /\ v4' # 0
    BY <1>1, <1>5, <2>1 DEF Session!SessionInv, Session!CallShape
  <2>3. Session!nextPath(v7) \in Visited /\ Session!nextPath(v7) # Session!Login
    BY SessionPaths DEF Session!nextPath
  <2>4. Session!Show(Session!nextPath(v7), c, v5)
    BY <2>1, <2>2, <2>3 DEF Session!Guard
  <2>5. ScreenInv' /\ v7' = Session!NoPath
    BY <1>3, <1>4, <2>3, <2>4, SessionShown
  <2>6. v13' = "asked" => v4' = 0
    BY <2>1, <2>2
  <2>. QED
    BY <1>4, <2>2, <2>5, <2>6, SessionWhole DEF Session!TurnedAway
<1>6. CASE v10[c].ans # "ok"
  <2>1. /\ v4' \in {0, v4} /\ v3' = v3 /\ v13' = v13 /\ v5' = v5 /\ v6' = v6 /\ v7' = v7
        /\ v8' = v8 /\ v9' = (IF c \in v11 THEN FALSE ELSE v9) /\ v11' = v11 \ {c}
        /\ v10' = [v10 EXCEPT ![c] = Session!Idle]
    BY <1>6 DEF Session!LoginAnswered, Session!released
  <2>2. ScreenInv'
    BY <1>1, <1>3, <2>1, SessionCallDone
  <2>3. v4' \in 0 .. v1' /\ v3' \in 0 .. v1' /\ (v13' = "asked" => v4' = 0)
    BY <1>1, <1>2, <2>1
  <2>. QED
    BY <1>4, <2>1, <2>2, <2>3, SessionWhole DEF Session!TurnedAway
<1>. QED
  BY <1>5, <1>6

LEMMA SessionLoggedOut ==
  ASSUME Session!SessionInv, NEW c \in Calls, Session!LogoutAnswered(c)
  PROVE  Session!SessionInv' /\ ~Session!TurnedAway
<1>1. /\ v1' = v1 /\ v2' = v2 /\ v12' = v12 /\ v4' = 0
      /\ v10[c].kind = "logout" /\ v10[c].ans # "none"
  BY DEF Session!LogoutAnswered, Session!signedOut
<1>2. /\ v1 \in Nat /\ v12 \in Nat /\ v3 \in 0 .. v1 /\ v2 \subseteq 1 .. v1
  BY DEF Session!SessionInv, Session!SessionShape
<1>3. c \notin Session!SessionRequests /\ Rest(c, v5) /\ c \notin v11
  BY <1>1 DEF Session!SessionRequests, Session!SessionInv, Session!FlagsFollow, Rest
<1>4. v1' \in Nat /\ v1 <= v1' /\ v2' \subseteq 1 .. v1' /\ v12' \in Nat /\ v4' \in 0 .. v1'
  BY <1>1, <1>2
<1>5. CASE v10[c].ans = "ok"
  <2>1. v3' = 0 /\ Session!ShowLogin(Session!NoPath, c, 0, v5)
    BY <1>5 DEF Session!LogoutAnswered, Session!Guard
  <2>2. v3' \in 0 .. v1'
    BY <1>1, <1>2, <2>1
  <2>3. ScreenInv' /\ v7' = Session!NoPath
    BY <1>3, <1>4, <2>1, <2>2, SessionLoginShown
  <2>. QED
    BY <1>1, <1>4, <2>2, <2>3, SessionWhole DEF Session!TurnedAway
<1>6. CASE v10[c].ans # "ok"
  <2>1. /\ v3' = v3 /\ v5' = v5 /\ v6' = v6 /\ v7' = v7 /\ v8' = v8 /\ v9' = v9 /\ v11' = v11
        /\ v10' = [v10 EXCEPT ![c] = Session!Idle]
    BY <1>6 DEF Session!LogoutAnswered
  <2>2. v11' = v11 \ {c}
    BY <1>3, <2>1
  <2>3. ScreenInv'
    BY <1>1, <1>3, <2>1, <2>2, SessionCallDone
  <2>. QED
    BY <1>1, <1>2, <1>4, <2>1, <2>3, SessionWhole DEF Session!TurnedAway
<1>. QED
  BY <1>5, <1>6

LEMMA SessionRequested ==
  ASSUME Session!SessionInv, NEW c \in Calls, Session!RequestAnswered(c)
  PROVE  Session!SessionInv' /\ ~Session!TurnedAway
<1>1. /\ v1' = v1 /\ v2' = v2 /\ v3' = v3 /\ v12' = v12 /\ v4' \in {0, v4} /\ v13' = v13
      /\ v10[c].kind = "api" /\ v5' = v5 /\ v6' = v6 /\ v7' = v7 /\ v8' = v8 /\ v9' = v9
      /\ v11' = v11 /\ v10' = [v10 EXCEPT ![c] = Session!Idle]
  BY DEF Session!RequestAnswered, Session!serverState, Session!history
<1>2. /\ v1 \in Nat /\ v12 \in Nat /\ v3 \in 0 .. v1 /\ v4 \in 0 .. v1 /\ v2 \subseteq 1 .. v1
      /\ v13 = "asked" => v4 = 0
  BY DEF Session!SessionInv, Session!SessionShape, Session!SignedOutIsOut
<1>3. c \notin Session!SessionRequests /\ c \notin v11
  BY <1>1 DEF Session!SessionRequests, Session!SessionInv, Session!FlagsFollow
<1>4. v11' = v11 \ {c}
  BY <1>1, <1>3
<1>5. ScreenInv'
  BY <1>1, <1>3, <1>4, SessionCallDone
<1>. QED
  BY <1>1, <1>2, <1>5, SessionWhole DEF Session!TurnedAway

LEMMA SessionNext ==
  ASSUME Session!SessionInv, [Session!Next]_(Session!sessionVars)
  PROVE  Session!SessionInv' /\ (Session!TurnedAway => Session!HasCause)
<1>1. ASSUME NEW c \in Session!Free, NEW to \in Visited \cup {Session!Login},
             Session!Navigate(to, c)
      PROVE  Session!SessionInv' /\ (Session!TurnedAway => Session!HasCause)
  BY <1>1, SessionNavigated
<1>2. ASSUME NEW c \in Session!Free, NEW to \in Visited, Session!Load(to, Session!NoPath, c)
      PROVE  Session!SessionInv' /\ (Session!TurnedAway => Session!HasCause)
  BY <1>2, SessionLoaded
<1>3. ASSUME NEW c \in Session!Free,
             NEW nx \in Visited \cup {Session!NoPath, Session!Foreign},
             Session!Load(Session!Login, nx, c)
      PROVE  Session!SessionInv' /\ (Session!TurnedAway => Session!HasCause)
  BY <1>3, SessionLoaded
<1>4. ASSUME NEW c \in Session!Free, NEW k \in Session!Keys, Session!handleSelect(k, c)
      PROVE  Session!SessionInv' /\ (Session!TurnedAway => Session!HasCause)
  BY <1>4, SessionNavigated DEF Session!handleSelect
<1>5. ASSUME NEW c \in Session!Free,
             Session!submit(c) \/ Session!handleLogout(c) \/ Session!request(c)
      PROVE  Session!SessionInv' /\ ~Session!TurnedAway
  <2>1. /\ UNCHANGED <<v1, v2, v3, v4, v5, v6, v7, v8, v12, v13, v14>>
        /\ \/ /\ v10' = [v10 EXCEPT ![c] = Session!Send("login", v3)]
              /\ ~v9 /\ v9' = TRUE /\ v11' = v11 \cup {c}
           \/ /\ \/ v10' = [v10 EXCEPT ![c] = Session!Send("logout", v3)]
                 \/ v10' = [v10 EXCEPT ![c] = Session!Send("api", v3)]
              /\ v9' = v9 /\ v11' = v11
    BY <1>5 DEF Session!submit, Session!handleLogout, Session!request, Session!serverState,
           Session!history
  <2>2. Session!SessionInv'
    BY <2>1, SessionSent
  <2>. QED
    BY <2>1, <2>2 DEF Session!TurnedAway
<1>6. ASSUME NEW c \in Calls, Session!Serve(c) \/ Session!Fail(c)
      PROVE  Session!SessionInv' /\ ~Session!TurnedAway
  <2>1. v6' = v6
    BY <1>6 DEF Session!Serve, Session!Fail, Session!clientState
  <2>. QED
    BY <1>6, <2>1, SessionServes, SessionFails DEF Session!TurnedAway
<1>7. ASSUME NEW c \in Calls,
             \/ Session!HydrateAnswered(c) \/ Session!LoginAnswered(c)
             \/ Session!LogoutAnswered(c) \/ Session!RequestAnswered(c)
      PROVE  Session!SessionInv' /\ (Session!TurnedAway => Session!HasCause)
  BY <1>7, SessionHydrated, SessionLoggedIn, SessionLoggedOut, SessionRequested
<1>8. CASE Session!Expire
  <2>1. v6' = v6
    BY <1>8 DEF Session!Expire, Session!clientState
  <2>. QED
    BY <1>8, <2>1, SessionExpires DEF Session!TurnedAway
<1>9. CASE UNCHANGED Session!sessionVars
  <2>1. UNCHANGED <<v1, v2, v3, v4, v5, v6, v7, v8, v9, v10, v11, v12, v13, v14>>
    BY <1>9 DEF Session!sessionVars
  <2>2. Session!SessionRequests' = Session!SessionRequests
    BY <2>1 DEF Session!SessionRequests
  <2>3. Session!SessionShape' /\ Session!CallShape' /\ Session!SignedOutIsOut'
    BY <2>1 DEF Session!SessionInv, Session!SessionShape, Session!CallShape,
           Session!SignedOutIsOut
  <2>4. Session!FlagsFollow'
    BY <2>1, <2>2 DEF Session!SessionInv, Session!FlagsFollow, Session!FormIsReleased
  <2>. QED
    BY <2>1, <2>3, <2>4 DEF Session!SessionInv, Session!TurnedAway
<1>. QED
  BY <1>1, <1>2, <1>3, <1>4, <1>5, <1>6, <1>7, <1>8, <1>9 DEF Session!Next

LEMMA SessionHolds ==
  ASSUME Session!SessionInv
  PROVE  Session!TypeOK /\ Session!FormIsReleased /\ Session!SignedOutIsOut
<1>1. /\ \A c, d \in Session!SessionRequests : c = d
      /\ v5 = (Session!SessionRequests # {})
  BY DEF Session!SessionInv, Session!FlagsFollow
<1>2. v11 \subseteq {c \in Calls : v10[c].kind \in {"page", "login"}}
  BY DEF Session!SessionInv, Session!FlagsFollow
<1>3. /\ v3 \in 0 .. v1 /\ v4 \in 0 .. v1 /\ v2 \subseteq 1 .. v1
      /\ v6 \in Visited \cup {Session!Login, Session!NoPath, <<"blank">>}
      /\ v8 \in Visited \cup {Session!NoPath}
      /\ v7 \in Visited \cup {Session!NoPath, Session!Foreign}
      /\ v7 # Session!NoPath => v6 = Session!Login
  BY DEF Session!SessionInv, Session!SessionShape
<1>4. Session!FormIsReleased /\ Session!SignedOutIsOut
  BY DEF Session!SessionInv, Session!FlagsFollow
<1>5. Session!TypeOK
  BY <1>1, <1>2, <1>3 DEF Session!TypeOK
<1>. QED
  BY <1>4, <1>5

-----------------------------------------------------------------------------
(* The SQL page.  Here v1 statement; v2 readOnly; v3 dialog; v4 running;   *)
(* v5 result; v6 execError; v7 runs; v8 items; v9 ran; v10 allowed; v11    *)
(* overlapped.                                                             *)

LEMMA SqlInit == Sql!Init => Sql!SqlInv
<1> SUFFICES ASSUME Sql!Init
             PROVE  Sql!SqlInv
  OBVIOUS
<1>1. v8 \in Seq(Sql!Typed) /\ v1 \in Sql!Typed
  BY DEF Sql!Init, Sql!Typed
<1>2. Sql!ResultHeadsHistory
  BY DEF Sql!Init, Sql!ResultHeadsHistory
<1> QED
  BY <1>1, <1>2 DEF Sql!Init, Sql!SqlInv

\* what was run last heads the history
LEMMA SqlHeads ==
  ASSUME v8 \in Seq(Sql!Typed), NEW s \in Sql!Typed
  PROVE  /\ Sql!addToHistory(s) \in Seq(Sql!Typed)
         /\ Sql!addToHistory(s) # <<>> /\ Sql!addToHistory(s)[1] = s
<1>1. CASE v8 # <<>> /\ v8[1] = s
  BY <1>1 DEF Sql!addToHistory
<1>2. CASE Len(v8) < MaxHistory /\ ~(v8 # <<>> /\ v8[1] = s)
  <2>1. Sql!addToHistory(s) = <<s>> \o v8
    BY <1>2 DEF Sql!addToHistory
  <2> QED
    BY <2>1
<1>3. CASE Len(v8) >= MaxHistory /\ ~(v8 # <<>> /\ v8[1] = s)
  <2> DEFINE older == SubSeq(v8, 1, MaxHistory - 1)
  <2>1. MaxHistory \in Nat /\ MaxHistory >= 1
    BY ConsoleAssumption DEF Sql!StatementsAssumption
  <2>2. Sql!addToHistory(s) = <<s>> \o older
    BY <1>3, <2>1 DEF Sql!addToHistory
  <2>3. older \in Seq(Sql!Typed)
    BY <1>3, <2>1
  <2> HIDE DEF older
  <2> QED
    BY <2>2, <2>3
<1> QED
  BY <1>1, <1>2, <1>3, ConsoleAssumption DEF Sql!StatementsAssumption

LEMMA SqlTyped ==
  ASSUME Sql!SqlInv,
         \/ \E s \in Statements : Sql!Edit(s)
         \/ \E i \in 1 .. MaxHistory : Sql!onSelectHistory(i)
         \/ Sql!Dismiss
  PROVE  Sql!SqlInv'
<1>1. UNCHANGED <<v2, v4, v5, v6, v7, v8, v9, v10, v11>>
  BY DEF Sql!Edit, Sql!onSelectHistory, Sql!Dismiss, Sql!screen
<1>2. v1' \in Sql!Typed
  BY DEF Sql!Edit, Sql!onSelectHistory, Sql!Dismiss, Sql!SqlInv, Sql!Typed
<1> QED
  BY <1>1, <1>2 DEF Sql!SqlInv, Sql!ResultHeadsHistory, Sql!NoResult

LEMMA SqlSwitched ==
  ASSUME Sql!SqlInv, Sql!Toggle \/ Sql!Confirm
  PROVE  Sql!SqlInv'
<1>1. UNCHANGED <<v1, v4, v5, v6, v7, v8, v9, v11>>
  BY DEF Sql!Toggle, Sql!Confirm, Sql!screen
<1>2. v2' \/ v10'
  BY DEF Sql!Toggle, Sql!toggleReadOnly, Sql!Confirm
<1> QED
  BY <1>1, <1>2 DEF Sql!SqlInv, Sql!ResultHeadsHistory, Sql!NoResult

LEMMA SqlRan ==
  ASSUME Sql!SqlInv, Sql!run
  PROVE  Sql!SqlInv'
<1> DEFINE r == [n |-> v9 + 1, sql |-> v1, readOnly |-> v2]
<1>1. /\ v9' = v9 + 1 /\ v5' = Sql!NoResult /\ v7' = v7 \cup {r}
      /\ UNCHANGED <<v1, v2, v8, v10>>
  BY DEF Sql!run, Sql!Cleared
<1>2. r.n = v9' /\ r.sql \in Sql!Typed
  BY <1>1 DEF Sql!SqlInv
<1> HIDE DEF r
<1>3. ~v11' => v7 = {}
  <2>1. v11' = (v7 # {})
    BY DEF Sql!run
  <2> QED
    BY <2>1, Zenon
<1>4. Sql!ResultHeadsHistory'
  BY <1>1 DEF Sql!ResultHeadsHistory, Sql!NoResult
<1> QED
  BY <1>1, <1>2, <1>3, <1>4 DEF Sql!SqlInv, Sql!NoResult

LEMMA SqlAnswered ==
  ASSUME Sql!SqlInv, NEW r \in v7, Sql!Answered(r)
  PROVE  Sql!SqlInv'
<1>1. /\ v5' = [n |-> r.n, sql |-> r.sql] /\ v8' = Sql!addToHistory(r.sql)
      /\ v7' = v7 \ {r}
      /\ UNCHANGED <<v1, v2, v9, v10, v11>>
  BY DEF Sql!Answered
<1>2. r.sql \in Sql!Typed /\ v8 \in Seq(Sql!Typed)
  BY DEF Sql!SqlInv
<1>3. v8' \in Seq(Sql!Typed) /\ v8' # <<>> /\ v8'[1] = r.sql
  BY <1>1, <1>2, SqlHeads
<1>4. v5'.n = r.n /\ v5'.sql = r.sql
  BY <1>1
<1>5. Sql!ResultHeadsHistory'
  BY <1>3, <1>4 DEF Sql!ResultHeadsHistory
<1> QED
  BY <1>1, <1>3, <1>4, <1>5 DEF Sql!SqlInv

LEMMA SqlFailed ==
  ASSUME Sql!SqlInv, NEW r \in v7, Sql!Failed(r)
  PROVE  Sql!SqlInv'
<1>1. /\ v7' = v7 \ {r}
      /\ UNCHANGED <<v1, v2, v5, v8, v9, v10, v11>>
  BY DEF Sql!Failed
<1> QED
  BY <1>1 DEF Sql!SqlInv, Sql!ResultHeadsHistory, Sql!NoResult

LEMMA SqlNext ==
  ASSUME Sql!SqlInv, [Sql!Next]_(Sql!sqlVars)
  PROVE  Sql!SqlInv'
<1>1. CASE \/ \E s \in Statements : Sql!Edit(s)
           \/ \E i \in 1 .. MaxHistory : Sql!onSelectHistory(i)
           \/ Sql!Dismiss
  BY <1>1, SqlTyped
<1>2. CASE Sql!Toggle \/ Sql!Confirm
  BY <1>2, SqlSwitched
<1>3. CASE Sql!run
  BY <1>3, SqlRan
<1>4. ASSUME NEW r \in v7, Sql!Answered(r) \/ Sql!Failed(r)
      PROVE  Sql!SqlInv'
  BY <1>4, SqlAnswered, SqlFailed
<1>5. CASE UNCHANGED Sql!sqlVars
  BY <1>5 DEF Sql!sqlVars, Sql!SqlInv, Sql!ResultHeadsHistory, Sql!NoResult
<1> QED
  BY <1>1, <1>2, <1>3, <1>4, <1>5 DEF Sql!Next

LEMMA SqlHolds == Sql!SqlInv => Sql!ResultIsOfLastRun /\ Sql!ResultHeadsHistory
BY DEF Sql!SqlInv, Sql!ResultIsOfLastRun, Sql!ShowsResult

\* only run sends, and what it sends carries the switch
LEMMA SqlWrites ==
  ASSUME Sql!SqlInv, [Sql!Next]_(Sql!sqlVars)
  PROVE  ~Sql!WriteWithoutConsent
<1>1. CASE Sql!run
  <2>1. \A r \in v7' \ v7 : r = [n |-> v9 + 1, sql |-> v1, readOnly |-> v2]
    BY <1>1 DEF Sql!run
  <2> QED
    BY <2>1 DEF Sql!WriteWithoutConsent, Sql!SqlInv
<1>2. CASE ~Sql!run
  <2>1. v7' \subseteq v7
    BY <1>2 DEF Sql!Next, Sql!Edit, Sql!onSelectHistory, Sql!Toggle, Sql!Confirm,
           Sql!Dismiss, Sql!Answered, Sql!Failed, Sql!sqlVars
  <2> QED
    BY <2>1 DEF Sql!WriteWithoutConsent
<1> QED
  BY <1>1, <1>2

-----------------------------------------------------------------------------
(* The policies.  Here v1 schema; v2 table; v3 options; v4 policies; v5    *)
(* policiesLoading; v6 policiesError; v7 lists; v8 loads; v9 running; v10  *)
(* before; v11 after; v12 dryRunError; v13 dry; v14 asked; v15 ran; v16    *)
(* wanted; v17 lateTables; v18 latePolicies; v19 disturbed.                *)

LEMMA RlsInit == Rls!Init => Rls!RlsInv
<1> SUFFICES ASSUME Rls!Init
             PROVE  Rls!RlsInv
  OBVIOUS
<1> USE DEF Rls!Init, Rls!NoTable, Rls!None
<1>1. Rls!DryRunInv
  BY DEF Rls!DryRunInv
<1>2. Rls!PoliciesInv
  BY DEF Rls!PoliciesInv
<1>3. Rls!TablesAreOfSchema
  BY DEF Rls!TablesAreOfSchema
<1> QED
  BY <1>1, <1>2, <1>3 DEF Rls!RlsInv

\* the results go, or stay, with the choice of a table
LEMMA RlsResultsGo ==
  ASSUME Rls!DryRunInv, UNCHANGED <<v13, v15>>,
         \/ UNCHANGED Rls!results /\ (~v19' => ~v19)
         \/ Rls!NoResults /\ (~v19' => v13 = {})
  PROVE  Rls!DryRunInv'
<1>1. CASE UNCHANGED Rls!results /\ (~v19' => ~v19)
  BY <1>1 DEF Rls!DryRunInv, Rls!results
<1>2. CASE Rls!NoResults /\ (~v19' => v13 = {})
  BY <1>2 DEF Rls!DryRunInv, Rls!NoResults
<1> QED
  BY <1>1, <1>2

\* the policies are asked for anew
LEMMA RlsAsked ==
  ASSUME Rls!PoliciesInv, NEW t, Rls!loadPolicies(t),
         v2' # Rls!NoTable => t = [of |-> v1', name |-> v2'.name]
  PROVE  Rls!PoliciesInv'
<1> USE DEF Rls!NoTable, Rls!None
<1> DEFINE l == [n |-> v14 + 1, of |-> t]
<1>1. /\ v14' = v14 + 1 /\ v16' = v14 + 1
      /\ v4' = Rls!NoTable /\ v8' = v8 \cup {l}
  BY DEF Rls!loadPolicies
<1>2. l.n = v14' /\ l.of = t
  BY <1>1
<1> HIDE DEF l
<1>3. \A k \in v8 : k.n \in Nat /\ k.n < v16'
  BY <1>1 DEF Rls!PoliciesInv
<1>4. v14' \in Nat /\ v16' = v14'
  BY <1>1 DEF Rls!PoliciesInv
<1>5. \A k \in v8' : k.n \in Nat /\ k.n <= v16' /\ (k.n = v16' => k.of = t)
  BY <1>1, <1>2, <1>3, <1>4
<1> QED
  BY <1>1, <1>4, <1>5 DEF Rls!PoliciesInv

LEMMA RlsSchemaSelected ==
  ASSUME Rls!RlsInv, NEW s \in RlsSchemas, Rls!selectSchema(s)
  PROVE  Rls!RlsInv'
<1>1. /\ v1' = s /\ v2' = Rls!NoTable /\ v4' = Rls!NoTable /\ v3' = Rls!None
      /\ v14' = v14 + 1
      /\ UNCHANGED <<v5, v6, v8, v9, v13, v15, v16,
                     v18>>
  BY DEF Rls!selectSchema, Rls!Emptied
<1>2. IF v2 = Rls!NoTable THEN UNCHANGED Rls!results ELSE Rls!NoResults
  BY DEF Rls!selectSchema
<1>3. v19' = (v19 \/ (v2 # Rls!NoTable /\ v13 # {}))
  BY DEF Rls!selectSchema
<1>4. ~v19' => ~v19 /\ (v2 = Rls!NoTable \/ v13 = {})
  BY <1>3, Zenon
<1>5. Rls!DryRunInv'
  BY <1>1, <1>2, <1>4, RlsResultsGo DEF Rls!RlsInv
<1>6. Rls!PoliciesInv'
  BY <1>1 DEF Rls!RlsInv, Rls!PoliciesInv, Rls!NoTable, Rls!None
<1>7. Rls!TablesAreOfSchema'
  BY <1>1 DEF Rls!TablesAreOfSchema, Rls!None
<1> QED
  BY <1>5, <1>6, <1>7 DEF Rls!RlsInv

LEMMA RlsTableSelected ==
  ASSUME Rls!RlsInv, NEW name \in Names, Rls!selectTable(name)
  PROVE  Rls!RlsInv'
<1>1. /\ v2' = [of |-> v3, name |-> name] /\ Rls!NoResults
      /\ Rls!loadPolicies([of |-> v1, name |-> name])
      /\ UNCHANGED <<v1, v3, v13, v15, v17>>
  BY DEF Rls!selectTable
<1>2. v19' = (v19 \/ v13 # {})
  BY DEF Rls!selectTable
<1>3. ~v19' => v13 = {}
  BY <1>2, Zenon
<1>4. Rls!DryRunInv'
  BY <1>1, <1>3, RlsResultsGo DEF Rls!RlsInv
<1>5. v2'.name = name /\ v1' = v1
  BY <1>1
<1>6. Rls!PoliciesInv'
  BY <1>1, <1>5, RlsAsked DEF Rls!RlsInv
<1>7. Rls!TablesAreOfSchema'
  BY <1>1 DEF Rls!RlsInv, Rls!TablesAreOfSchema, Rls!None
<1> QED
  BY <1>4, <1>6, <1>7 DEF Rls!RlsInv

LEMMA RlsRetried ==
  ASSUME Rls!RlsInv, Rls!Retry
  PROVE  Rls!RlsInv'
<1>1. /\ Rls!loadPolicies([of |-> v1, name |-> v2.name])
      /\ UNCHANGED <<v1, v2, v3, v10, v11, v12, v13, v15, v17,
                     v19>>
  BY DEF Rls!Retry, Rls!dryState
<1>2. Rls!DryRunInv'
  BY <1>1, RlsResultsGo DEF Rls!RlsInv, Rls!results
<1>3. Rls!PoliciesInv'
  BY <1>1, RlsAsked DEF Rls!RlsInv
<1>4. Rls!TablesAreOfSchema'
  BY <1>1 DEF Rls!RlsInv, Rls!TablesAreOfSchema, Rls!None
<1> QED
  BY <1>2, <1>3, <1>4 DEF Rls!RlsInv

LEMMA RlsTablesCame ==
  ASSUME Rls!RlsInv, NEW l \in v7, Rls!TablesAnswered(l) \/ Rls!TablesFailed(l)
  PROVE  Rls!RlsInv'
<1>1. UNCHANGED <<v1, v2, v4, v5, v6, v8, v10, v11,
                  v12, v13, v15, v14, v16, v18, v19>>
  BY DEF Rls!TablesAnswered, Rls!TablesFailed, Rls!dryState
<1>2. Rls!DryRunInv'
  BY <1>1, RlsResultsGo DEF Rls!RlsInv, Rls!results
<1>3. Rls!PoliciesInv'
  BY <1>1 DEF Rls!RlsInv, Rls!PoliciesInv, Rls!NoTable, Rls!None
<1>4. Rls!TablesAreOfSchema'
  <2>1. CASE Rls!TablesAnswered(l)
    <3>1. v3' = l.of /\ v17' = (l.of # v1) /\ v1' = v1
      BY <2>1 DEF Rls!TablesAnswered
    <3> QED
      BY <3>1, Zenon DEF Rls!TablesAreOfSchema
  <2>2. CASE Rls!TablesFailed(l)
    BY <2>2 DEF Rls!TablesFailed, Rls!RlsInv, Rls!TablesAreOfSchema, Rls!None
  <2> QED
    BY <2>1, <2>2
<1> QED
  BY <1>2, <1>3, <1>4 DEF Rls!RlsInv

LEMMA RlsPoliciesCame ==
  ASSUME Rls!RlsInv, NEW l \in v8, Rls!PoliciesAnswered(l) \/ Rls!PoliciesFailed(l)
  PROVE  Rls!RlsInv'
<1>1. /\ v8' = v8 \ {l}
      /\ UNCHANGED <<v1, v2, v3, v10, v11, v12, v13, v15, v14,
                     v16, v17, v19>>
  BY DEF Rls!PoliciesAnswered, Rls!PoliciesFailed, Rls!dryState
<1>2. Rls!DryRunInv'
  BY <1>1, RlsResultsGo DEF Rls!RlsInv, Rls!results
<1>3. Rls!TablesAreOfSchema'
  BY <1>1 DEF Rls!RlsInv, Rls!TablesAreOfSchema, Rls!None
<1>4. Rls!PoliciesInv'
  <2>1. CASE Rls!PoliciesFailed(l)
    <3>1. v4' = v4 /\ v18' = v18
      BY <2>1 DEF Rls!PoliciesFailed
    <3> QED
      BY <1>1, <3>1 DEF Rls!RlsInv, Rls!PoliciesInv, Rls!NoTable, Rls!None
  <2>2. CASE Rls!PoliciesAnswered(l)
    <3>1. v4' = l.of /\ v18' = (l.n < v16)
      BY <2>2 DEF Rls!PoliciesAnswered
    <3>2. l.n < v16 \/ l.n = v16
      BY DEF Rls!RlsInv, Rls!PoliciesInv
    <3>3. v18' \/ l.n = v16
      BY <3>1, <3>2, Zenon
    <3>4. v2 # Rls!NoTable => v4' = [of |-> v1, name |-> v2.name] \/ v18'
      BY <3>1, <3>3 DEF Rls!RlsInv, Rls!PoliciesInv
    <3> QED
      BY <1>1, <3>4 DEF Rls!RlsInv, Rls!PoliciesInv, Rls!NoTable, Rls!None
  <2> QED
    BY <2>1, <2>2
<1> QED
  BY <1>2, <1>3, <1>4 DEF Rls!RlsInv

\* the dry run leaves the choice alone
LEMMA RlsChoiceKept ==
  ASSUME Rls!RlsInv, UNCHANGED Rls!choice
  PROVE  Rls!PoliciesInv' /\ Rls!TablesAreOfSchema'
BY DEF Rls!RlsInv, Rls!PoliciesInv, Rls!TablesAreOfSchema, Rls!choice, Rls!NoTable, Rls!None

LEMMA RlsRan ==
  ASSUME Rls!RlsInv, Rls!runDryRun
  PROVE  Rls!RlsInv'
<1> DEFINE d == [n |-> v15 + 1, stage |-> "baseline"]
<1>1. /\ v15' = v15 + 1 /\ v10' = 0 /\ v11' = 0 /\ v13' = v13 \cup {d}
      /\ UNCHANGED Rls!choice
  BY DEF Rls!runDryRun, Rls!Cleared, Rls!NoResults
<1>2. v19' = (v13 # {})
  BY DEF Rls!runDryRun
<1>3. ~v19' => v13 = {}
  BY <1>2, Zenon
<1>4. d = [n |-> d.n, stage |-> d.stage] /\ d.n = v15 + 1 /\ d.stage = "baseline"
  OBVIOUS
<1> HIDE DEF d
<1>5. Rls!DryRunInv'
  BY <1>1, <1>3, <1>4 DEF Rls!RlsInv, Rls!DryRunInv
<1> QED
  BY <1>1, <1>5, RlsChoiceKept DEF Rls!RlsInv

LEMMA RlsBaseline ==
  ASSUME Rls!RlsInv, NEW d \in v13, Rls!BaselineAnswered(d)
  PROVE  Rls!RlsInv'
<1> DEFINE e == [d EXCEPT !.stage = "policy"]
<1>1. /\ v10' = d.n /\ v13' = (v13 \ {d}) \cup {e}
      /\ UNCHANGED <<v11, v15, v19>> /\ UNCHANGED Rls!choice
  BY DEF Rls!BaselineAnswered
<1>2. d = [n |-> d.n, stage |-> d.stage] /\ d.n \in Nat /\ v15 \in Nat
  BY DEF Rls!RlsInv, Rls!DryRunInv
<1>3. e = [n |-> d.n, stage |-> "policy"]
  BY <1>2
<1>4. e = [n |-> e.n, stage |-> e.stage] /\ e.n = d.n /\ e.stage = "policy"
  BY <1>3
<1> HIDE DEF e
<1>5. \A c \in v13' : c \in v13 \/ c = e
  BY <1>1
<1>6. ~v19' => /\ \A c \in v13' : c = e
                     /\ v11 = 0
  BY <1>1 DEF Rls!RlsInv, Rls!DryRunInv
<1>7. Rls!DryRunInv'
  BY <1>1, <1>2, <1>4, <1>5, <1>6 DEF Rls!RlsInv, Rls!DryRunInv
<1> QED
  BY <1>1, <1>7, RlsChoiceKept DEF Rls!RlsInv

LEMMA RlsPolicy ==
  ASSUME Rls!RlsInv, NEW d \in v13, Rls!PolicyAnswered(d)
  PROVE  Rls!RlsInv'
<1>1. /\ d.stage = "policy" /\ v11' = d.n /\ v13' = v13 \ {d}
      /\ UNCHANGED <<v10, v15, v19>> /\ UNCHANGED Rls!choice
  BY DEF Rls!PolicyAnswered
<1>2. ~v19' => v13' = {} /\ v10 = d.n
  BY <1>1 DEF Rls!RlsInv, Rls!DryRunInv
<1>3. Rls!DryRunInv'
  BY <1>1, <1>2 DEF Rls!RlsInv, Rls!DryRunInv
<1> QED
  BY <1>1, <1>3, RlsChoiceKept DEF Rls!RlsInv

LEMMA RlsDryRunFailed ==
  ASSUME Rls!RlsInv, NEW d \in v13, Rls!DryRunFailed(d)
  PROVE  Rls!RlsInv'
<1>1. /\ v13' = v13 \ {d}
      /\ UNCHANGED <<v10, v11, v15, v19>> /\ UNCHANGED Rls!choice
  BY DEF Rls!DryRunFailed
<1>2. Rls!DryRunInv'
  BY <1>1 DEF Rls!RlsInv, Rls!DryRunInv
<1> QED
  BY <1>1, <1>2, RlsChoiceKept DEF Rls!RlsInv

LEMMA RlsNext ==
  ASSUME Rls!RlsInv, [Rls!Next]_(Rls!rlsVars)
  PROVE  Rls!RlsInv'
<1>1. ASSUME NEW s \in RlsSchemas, Rls!selectSchema(s)
      PROVE  Rls!RlsInv'
  BY <1>1, RlsSchemaSelected
<1>2. ASSUME NEW t \in Names, Rls!selectTable(t)
      PROVE  Rls!RlsInv'
  BY <1>2, RlsTableSelected
<1>3. CASE Rls!Retry \/ Rls!runDryRun
  BY <1>3, RlsRetried, RlsRan
<1>4. ASSUME NEW l \in v7, Rls!TablesAnswered(l) \/ Rls!TablesFailed(l)
      PROVE  Rls!RlsInv'
  BY <1>4, RlsTablesCame
<1>5. ASSUME NEW l \in v8, Rls!PoliciesAnswered(l) \/ Rls!PoliciesFailed(l)
      PROVE  Rls!RlsInv'
  BY <1>5, RlsPoliciesCame
<1>6. ASSUME NEW d \in v13,
             Rls!BaselineAnswered(d) \/ Rls!PolicyAnswered(d) \/ Rls!DryRunFailed(d)
      PROVE  Rls!RlsInv'
  BY <1>6, RlsBaseline, RlsPolicy, RlsDryRunFailed
<1>7. CASE UNCHANGED Rls!rlsVars
  <2>1. UNCHANGED Rls!choice /\ UNCHANGED <<v10, v11, v12, v13, v15, v19>>
    BY <1>7 DEF Rls!rlsVars, Rls!choice
  <2>2. Rls!DryRunInv'
    BY <2>1 DEF Rls!RlsInv, Rls!DryRunInv
  <2> QED
    BY <2>1, <2>2, RlsChoiceKept DEF Rls!RlsInv
<1> QED
  BY <1>1, <1>2, <1>3, <1>4, <1>5, <1>6, <1>7 DEF Rls!Next

LEMMA RlsHolds ==
  ASSUME Rls!RlsInv
  PROVE  Rls!VerdictComparesOneRun /\ Rls!TablesAreOfSchema /\ Rls!PoliciesAreOfTable
BY DEF Rls!RlsInv, Rls!DryRunInv, Rls!PoliciesInv, Rls!VerdictComparesOneRun,
       Rls!ShowsVerdict, Rls!PoliciesAreOfTable, Rls!ShowsPolicies

-----------------------------------------------------------------------------
(* The backups.  Here v1 started; v2 status; v3 attempts; v4 list; v5      *)
(* requests; v6 asked; v7 loading; v8 error; v9 timer; v10 drawer; v11     *)
(* starting; v12 mounted.                                                  *)

LEMMA BackupInit == Backup!Init => Backup!BackupInv
<1> SUFFICES ASSUME Backup!Init
             PROVE  Backup!BackupInv
  OBVIOUS
<1>1. Backup!RunningIsWatched
  <2>1. ~Backup!hasRunning(v4)
    <3>1. v4.rows = <<>> /\ DOMAIN <<>> = {}
      BY DEF Backup!Init, Backup!None
    <3> QED
      BY <3>1 DEF Backup!hasRunning
  <2>2. v9 = FALSE
    BY DEF Backup!Init
  <2> QED
    BY <2>1, <2>2, Zenon DEF Backup!RunningIsWatched
<1>2. Backup!DrawerFollowsList /\ v10 = [id |-> v10.id, st |-> v10.st]
  BY DEF Backup!Init, Backup!DrawerFollowsList, Backup!ShowsBackup, Backup!Closed
<1> QED
  BY <1>1, <1>2 DEF Backup!BackupInv

\* the server's steps, and the requests the page sends
LEMMA BackupAside ==
  ASSUME Backup!BackupInv, UNCHANGED <<v4, v9, v10, v12>>
  PROVE  Backup!BackupInv'
<1>1. Backup!RunningIsWatched'
  BY Zenon DEF Backup!BackupInv, Backup!RunningIsWatched, Backup!hasRunning
<1>2. Backup!DrawerFollowsList' /\ (v10 = [id |-> v10.id, st |-> v10.st])'
  BY DEF Backup!BackupInv, Backup!DrawerFollowsList, Backup!ShowsBackup, Backup!Closed
<1> QED
  BY <1>1, <1>2 DEF Backup!BackupInv

LEMMA BackupAnswered ==
  ASSUME Backup!BackupInv, NEW r \in v5, Backup!Answer(r)
  PROVE  Backup!BackupInv'
<1>1. /\ v4' = r.got /\ v9' = Backup!Polling(r.got) /\ v10' = Backup!Synced(r.got)
      /\ v12' = v12
  BY DEF Backup!Answer
<1>2. Backup!RunningIsWatched'
  BY <1>1, Zenon DEF Backup!RunningIsWatched, Backup!Polling, Backup!hasRunning
<1>3. v10 = [id |-> v10.id, st |-> v10.st]
  BY DEF Backup!BackupInv
<1>4. /\ v10' = [id |-> v10'.id, st |-> v10'.st]
      /\ Backup!DrawerFollowsList'
  <2>1. CASE v12 /\ v10.id \in DOMAIN r.got.rows
    <3>1. v10' = [v10 EXCEPT !.st = r.got.rows[v10.id]]
      BY <1>1, <2>1 DEF Backup!Synced
    <3>2. /\ v10' = [id |-> v10.id, st |-> r.got.rows[v10.id]]
      BY <1>3, <3>1
    <3> QED
      BY <1>1, <3>2 DEF Backup!DrawerFollowsList
  <2>2. CASE ~(v12 /\ v10.id \in DOMAIN r.got.rows)
    <3>1. v10' = v10
      BY <1>1, <2>2 DEF Backup!Synced
    <3> QED
      BY <1>1, <1>3, <2>2, <3>1 DEF Backup!DrawerFollowsList, Backup!ShowsBackup
  <2> QED
    BY <2>1, <2>2
<1> QED
  BY <1>2, <1>4 DEF Backup!BackupInv

LEMMA BackupOpened ==
  ASSUME Backup!BackupInv,
         (\E b \in Backup!Backups : Backup!openDrawer(b)) \/ Backup!closeDrawer
  PROVE  Backup!BackupInv'
<1>1. UNCHANGED <<v4, v9, v12>>
  BY DEF Backup!openDrawer, Backup!closeDrawer
<1>2. Backup!RunningIsWatched'
  BY <1>1, Zenon DEF Backup!BackupInv, Backup!RunningIsWatched, Backup!hasRunning
<1>3. \/ \E b : v10' = [id |-> b, st |-> v4.rows[b]]
      \/ v10' = [id |-> 0, st |-> "none"] /\ ~Backup!ShowsBackup'
  BY DEF Backup!openDrawer, Backup!closeDrawer, Backup!Closed, Backup!ShowsBackup
<1>4. Backup!DrawerFollowsList' /\ (v10 = [id |-> v10.id, st |-> v10.st])'
  BY <1>1, <1>3 DEF Backup!DrawerFollowsList
<1> QED
  BY <1>2, <1>4 DEF Backup!BackupInv

LEMMA BackupLeft ==
  ASSUME Backup!BackupInv, Backup!Leave
  PROVE  Backup!BackupInv'
<1>1. v12' = FALSE /\ v9' = FALSE /\ UNCHANGED <<v4, v10>>
  BY DEF Backup!Leave, Backup!Unmounted
<1>2. Backup!RunningIsWatched'
  BY <1>1, Zenon DEF Backup!RunningIsWatched
<1>3. Backup!DrawerFollowsList' /\ (v10 = [id |-> v10.id, st |-> v10.st])'
  BY <1>1 DEF Backup!BackupInv, Backup!DrawerFollowsList, Backup!ShowsBackup
<1> QED
  BY <1>2, <1>3 DEF Backup!BackupInv

LEMMA BackupNext ==
  ASSUME Backup!BackupInv, [Backup!Next]_(Backup!backupVars)
  PROVE  Backup!BackupInv'
<1>1. CASE \/ Backup!ServeStart
           \/ \E b \in Backup!Backups : Backup!JobSucceeds(b) \/ Backup!JobFails(b)
  BY <1>1, BackupAside DEF Backup!ServeStart, Backup!JobSucceeds, Backup!JobFails,
         Backup!clientState
<1>2. ASSUME NEW r \in v5, Backup!Serve(r) \/ Backup!Answer(r) \/ Backup!Fail(r)
      PROVE  Backup!BackupInv'
  <2>1. CASE Backup!Answer(r)
    BY <2>1, BackupAnswered
  <2>2. CASE Backup!Serve(r) \/ Backup!Fail(r)
    BY <2>2, BackupAside DEF Backup!Serve, Backup!Fail
  <2> QED
    BY <1>2, <2>1, <2>2
<1>3. CASE Backup!pollOnce \/ Backup!Reload \/ Backup!handleStart \/ Backup!StartAnswered
  BY <1>3, BackupAside DEF Backup!pollOnce, Backup!Reload, Backup!handleStart,
         Backup!StartAnswered, Backup!Refresh
<1>4. CASE (\E b \in Backup!Backups : Backup!openDrawer(b)) \/ Backup!closeDrawer
  BY <1>4, BackupOpened
<1>5. CASE Backup!Leave
  BY <1>5, BackupLeft
<1>6. CASE UNCHANGED Backup!backupVars
  BY <1>6, BackupAside DEF Backup!backupVars
<1> QED
  BY <1>1, <1>2, <1>3, <1>4, <1>5, <1>6 DEF Backup!Next

LEMMA BackupHolds == Backup!BackupInv => Backup!RunningIsWatched /\ Backup!DrawerFollowsList
BY DEF Backup!BackupInv

-----------------------------------------------------------------------------
(* The queue of jobs.  Here v1 status; v2 handled; v3 list; v4 requests;   *)
(* v5 error; v6 selected; v7 acts; v8 asked; v9 begun; v10 moves; v11      *)
(* acted; v12 ended; v13 requeued; v14 seen; v15 newest; v16 late.         *)

LEMMA JobsInit == Queue!Init => Queue!JobsInv
<1> SUFFICES ASSUME Queue!Init
             PROVE  Queue!JobsInv
  OBVIOUS
<1>1. Queue!JobsShape
  <2>1. /\ v1 \in [PageJobs -> Queue!Statuses] /\ Queue!Zero \in [PageJobs -> Nat]
        /\ v11 = Queue!Zero /\ v12 = Queue!Zero /\ v13 = Queue!Zero /\ v14 = Queue!Zero
        /\ v8 = 1 /\ v15 = 0 /\ v3.acted = Queue!Zero
    BY DEF Queue!Init, Queue!Zero, Queue!Statuses
  <2>2. \A r \in v4 : r = [n |-> 1, st |-> Queue!Unserved, acted |-> Queue!Zero]
    BY DEF Queue!Init, Queue!Request
  <2> QED
    BY <2>1, <2>2 DEF Queue!JobsShape
<1>2. ASSUME NEW j \in PageJobs
      PROVE  /\ v13[j] = 0 /\ v12[j] = 0 /\ v1[j] = "queued"
             /\ v14[j] = 0 /\ v11[j] = 0 /\ v3.acted[j] = 0
  BY DEF Queue!Init, Queue!Zero
<1>3. Queue!EndsAreAhead
  <2> SUFFICES ASSUME NEW j \in PageJobs
               PROVE  v13[j] <= v12[j]
                      /\ (v1[j] \in Queue!Retryable => v13[j] < v12[j])
    BY DEF Queue!EndsAreAhead
  <2> QED
    BY <1>2 DEF Queue!Retryable
<1>4. Queue!SeenIsDone
  <2> SUFFICES ASSUME NEW j \in PageJobs
               PROVE  v14[j] <= v11[j]
    BY DEF Queue!SeenIsDone
  <2> QED
    BY <1>2
<1>5. Queue!OldIsFollowed
  <2>1. Queue!IsCurrent(v3.acted)
    <3> SUFFICES ASSUME NEW j \in PageJobs
                 PROVE  v3.acted[j] >= v14[j]
      BY DEF Queue!IsCurrent
    <3> QED
      BY <1>2
  <2>2. \A r \in v4 : r.st = Queue!Unserved
    BY DEF Queue!Init, Queue!Request
  <2> QED
    BY <2>1, <2>2 DEF Queue!OldIsFollowed
<1>6. Queue!ActsShape
  BY DEF Queue!Init, Queue!ActsShape
<1> QED
  BY <1>1, <1>3, <1>4, <1>5, <1>6 DEF Queue!JobsInv

\* a job becomes what it may be retried from by an end
LEMMA JobsBecome ==
  ASSUME Queue!JobsShape, Queue!EndsAreAhead,
         NEW j \in PageJobs, NEW st \in Queue!Statuses, Queue!Becomes(j, st)
  PROVE  /\ v1' \in [PageJobs -> Queue!Statuses] /\ v12' \in [PageJobs -> Nat]
         /\ \A k \in PageJobs : v12[k] <= v12'[k]
         /\ \A k \in PageJobs : k # j => v1'[k] = v1[k]
         /\ v1'[j] = st
         /\ st \in Queue!Retryable => v13[j] < v12'[j]
<1> USE DEF Queue!JobsShape
<1>1. v1' = [v1 EXCEPT ![j] = st]
  BY DEF Queue!Becomes
<1>2. CASE st \in Queue!Retryable /\ v1[j] \notin Queue!Retryable
  <2>1. v12' = [v12 EXCEPT ![j] = v12[j] + 1]
    BY <1>2 DEF Queue!Becomes
  <2>2. v13[j] \in Nat /\ v12[j] \in Nat /\ v13[j] <= v12[j]
    BY DEF Queue!EndsAreAhead
  <2> QED
    BY <1>1, <2>1, <2>2
<1>3. CASE ~(st \in Queue!Retryable /\ v1[j] \notin Queue!Retryable)
  <2>1. v12' = v12
    BY <1>3 DEF Queue!Becomes
  <2>2. st \in Queue!Retryable => v13[j] < v12[j]
    BY <1>3 DEF Queue!EndsAreAhead
  <2> QED
    BY <1>1, <2>1, <2>2
<1> QED
  BY <1>2, <1>3

\* actions end, and the drawer may close
LEMMA JobsActsEnd ==
  ASSUME Queue!ActsShape, v9' = v9, v7' \subseteq v7, v6' \in {v6, Queue!Closed}
  PROVE  Queue!ActsShape'
BY DEF Queue!ActsShape, Queue!Closed, Queue!NoJob

\* what the page has is left alone
LEMMA JobsPageKept ==
  ASSUME Queue!OldIsFollowed, UNCHANGED <<v3, v4, v5, v14, v15, v16>>
  PROVE  Queue!OldIsFollowed'
BY DEF Queue!OldIsFollowed, Queue!NewsAfter, Queue!IsCurrent, Queue!Unserved

\* and so is what the server has
LEMMA JobsServerKept ==
  ASSUME Queue!EndsAreAhead, UNCHANGED <<v1, v12, v13>>
  PROVE  Queue!EndsAreAhead'
BY DEF Queue!EndsAreAhead, Queue!Retryable

LEMMA JobsWorked ==
  ASSUME Queue!JobsInv, NEW j \in PageJobs,
         \/ Queue!Claim(j)
         \/ \E st \in {"succeeded", "failed", "queued"} : Queue!HandlerEnds(j, st)
  PROVE  Queue!JobsInv'
<1>1. PICK st \in Queue!Statuses : Queue!Becomes(j, st)
  BY DEF Queue!Claim, Queue!HandlerEnds, Queue!Statuses
<1>2. UNCHANGED <<v3, v4, v5, v6, v7, v8, v9, v14, v15, v16, v11,
                  v13>>
  BY DEF Queue!Claim, Queue!HandlerEnds, Queue!pageVars
<1>3. /\ v1' \in [PageJobs -> Queue!Statuses] /\ v12' \in [PageJobs -> Nat]
      /\ \A k \in PageJobs : v12[k] <= v12'[k]
      /\ \A k \in PageJobs : k # j => v1'[k] = v1[k]
      /\ v1'[j] = st
      /\ st \in Queue!Retryable => v13[j] < v12'[j]
  BY <1>1, JobsBecome DEF Queue!JobsInv
<1>4. Queue!JobsShape'
  BY <1>2, <1>3 DEF Queue!JobsInv, Queue!JobsShape
<1>5. Queue!EndsAreAhead'
  BY <1>2, <1>3 DEF Queue!JobsInv, Queue!JobsShape, Queue!EndsAreAhead
<1>6. Queue!SeenIsDone' /\ Queue!OldIsFollowed' /\ Queue!ActsShape'
  BY <1>2, JobsPageKept, JobsActsEnd DEF Queue!JobsInv, Queue!SeenIsDone
<1> QED
  BY <1>4, <1>5, <1>6 DEF Queue!JobsInv

\* a request for the list goes out: its rows will be current
LEMMA JobsFresh ==
  ASSUME Queue!JobsShape, Queue!Refresh, UNCHANGED <<v15>>
  PROVE  /\ v8' \in Nat /\ v8' > v8 /\ v5' = FALSE
         /\ \E g \in v4' : g.n = v8' /\ g.st = Queue!Unserved
         /\ \A r \in v4' : r \in v4
                                 \/ r = [n |-> v8', st |-> Queue!Unserved, acted |-> Queue!Zero]
         /\ \A n \in Nat : n <= v8 => \E g \in v4' : g.n > n /\ g.st = Queue!Unserved
<1> DEFINE g == [n |-> v8 + 1, st |-> Queue!Unserved, acted |-> Queue!Zero]
<1>1. v8' = v8 + 1 /\ v4' = v4 \cup {g} /\ v5' = FALSE
  BY DEF Queue!Refresh, Queue!Request
<1>2. /\ g.n = v8' /\ g.st = Queue!Unserved
      /\ g = [n |-> v8', st |-> Queue!Unserved, acted |-> Queue!Zero]
  BY <1>1
<1> HIDE DEF g
<1>3. v8 \in Nat
  BY DEF Queue!JobsShape
<1> QED
  BY <1>1, <1>2, <1>3

\* whatever was confirmed, a request sent now will answer with it
LEMMA JobsListed ==
  ASSUME Queue!JobsInv, Queue!Refresh, UNCHANGED <<v1, v12, v13, v11, v3, v15, v16>>,
         v9' = v9, v7' \subseteq v7, v6' \in {v6, Queue!Closed},
         v14' \in [PageJobs -> Nat], \A j \in PageJobs : v14'[j] <= v11[j]
  PROVE  Queue!JobsInv'
<1> USE DEF Queue!Unserved
<1>1. /\ v8' \in Nat /\ v8' > v8 /\ v5' = FALSE
      /\ \A r \in v4' : r \in v4
                              \/ r = [n |-> v8', st |-> Queue!Unserved, acted |-> Queue!Zero]
      /\ \A n \in Nat : n <= v8 => \E g \in v4' : g.n > n /\ g.st = Queue!Unserved
  BY JobsFresh DEF Queue!JobsInv
<1>2. Queue!Zero \in [PageJobs -> Nat]
  BY DEF Queue!Zero
<1>3. Queue!JobsShape'
  <2>1. \A r \in v4 : r.n <= v8'
    BY <1>1 DEF Queue!JobsInv, Queue!JobsShape
  <2>2. v15' <= v8'
    BY <1>1 DEF Queue!JobsInv, Queue!JobsShape
  <2> QED
    BY <1>1, <1>2, <2>1, <2>2 DEF Queue!JobsInv, Queue!JobsShape
<1>4. Queue!EndsAreAhead' /\ Queue!SeenIsDone' /\ Queue!ActsShape'
  BY JobsServerKept, JobsActsEnd DEF Queue!JobsInv, Queue!SeenIsDone
<1>5. \A n \in Nat : n <= v8 => Queue!NewsAfter(n)'
  BY <1>1 DEF Queue!NewsAfter
<1>6. Queue!OldIsFollowed'
  <2>1. Queue!NewsAfter(v15)'
    BY <1>5 DEF Queue!JobsInv, Queue!JobsShape
  <2>2. \A r \in v4' : r.st # Queue!Unserved => r.n \in Nat /\ r.n <= v8
    BY <1>1 DEF Queue!JobsInv, Queue!JobsShape
  <2> QED
    BY <1>5, <2>1, <2>2 DEF Queue!OldIsFollowed, Queue!NewsAfter
<1> QED
  BY <1>3, <1>4, <1>6 DEF Queue!JobsInv

LEMMA JobsServed ==
  ASSUME Queue!JobsInv, NEW r \in v4, Queue!Serve(r)
  PROVE  Queue!JobsInv'
<1> USE DEF Queue!Unserved
<1> DEFINE s == [r EXCEPT !.st = v1, !.acted = v11]
<1>1. /\ r.st = Queue!Unserved /\ v4' = (v4 \ {r}) \cup {s}
      /\ UNCHANGED <<v1, v12, v13, v11, v3, v5, v8, v14, v15, v16,
                     v6, v7, v9>>
  BY DEF Queue!Serve, Queue!rowVars
<1>2. r = [n |-> r.n, st |-> r.st, acted |-> r.acted] /\ r.n \in Nat /\ r.n <= v8
  BY DEF Queue!JobsInv, Queue!JobsShape
<1>3. s \in [n : {r.n}, st : {v1}, acted : {v11}]
  <2>1. r \in [n : {r.n}, st : {r.st}, acted : {r.acted}]
    BY <1>2
  <2> QED
    BY <2>1
<1> HIDE DEF s
<1>4. s = [n |-> s.n, st |-> s.st, acted |-> s.acted] /\ s.n = r.n /\ s.acted = v11
  BY <1>3
<1>5. Queue!JobsShape'
  BY <1>1, <1>2, <1>4 DEF Queue!JobsInv, Queue!JobsShape
<1>6. \A j \in PageJobs : v11[j] >= v14'[j]
  BY <1>1 DEF Queue!JobsInv, Queue!JobsShape, Queue!SeenIsDone
<1>7. \A j \in PageJobs : s.acted[j] >= v14'[j]
  BY <1>4, <1>6
<1>8. \A n : Queue!NewsAfter(n) => Queue!NewsAfter(n)'
  <2> TAKE n
  <2> SUFFICES ASSUME NEW g \in v4, g.n > n, g.st = Queue!Unserved \/ Queue!IsCurrent(g.acted)
               PROVE  Queue!NewsAfter(n)'
    BY DEF Queue!NewsAfter
  <2>1. CASE g = r
    BY <1>1, <1>4, <1>7, <2>1 DEF Queue!NewsAfter, Queue!IsCurrent
  <2>2. CASE g # r
    BY <1>1, <2>2 DEF Queue!NewsAfter, Queue!IsCurrent
  <2> QED
    BY <2>1, <2>2
<1>9. Queue!OldIsFollowed'
  <2>1. \A q \in v4' : q = s \/ q \in v4
    BY <1>1
  <2>2. ASSUME ~v5', NEW q \in v4', q.st # Queue!Unserved', q.n >= v15',
               ~Queue!IsCurrent(q.acted)'
        PROVE  Queue!NewsAfter(q.n)'
    <3>1. q # s
      BY <1>7, <2>2 DEF Queue!IsCurrent
    <3>2. q \in v4 /\ ~Queue!IsCurrent(q.acted)
      BY <1>1, <2>1, <2>2, <3>1 DEF Queue!IsCurrent
    <3> QED
      BY <1>1, <1>8, <2>2, <3>2 DEF Queue!JobsInv, Queue!OldIsFollowed
  <2>3. ASSUME ~v5', ~v16', ~Queue!IsCurrent(v3.acted)'
        PROVE  Queue!NewsAfter(v15)'
    <3>1. Queue!NewsAfter(v15)
      BY <1>1, <2>3 DEF Queue!JobsInv, Queue!OldIsFollowed, Queue!IsCurrent
    <3> QED
      BY <1>1, <1>8, <3>1 DEF Queue!NewsAfter
  <2> QED
    BY <2>2, <2>3 DEF Queue!OldIsFollowed
<1> QED
  BY <1>1, <1>5, <1>9, JobsServerKept, JobsActsEnd DEF Queue!JobsInv, Queue!SeenIsDone

LEMMA JobsAnswered ==
  ASSUME Queue!JobsInv, NEW r \in v4, Queue!Answer(r)
  PROVE  Queue!JobsInv'
<1> USE DEF Queue!Unserved
<1>1. /\ r.st # Queue!Unserved /\ v3' = r /\ v4' = v4 \ {r}
      /\ v15' = IF r.n > v15 THEN r.n ELSE v15
      /\ UNCHANGED <<v1, v12, v13, v11, v5, v8, v14, v6, v7,
                     v9>>
  BY DEF Queue!Answer, Queue!rowVars
<1>2. /\ v8 \in Nat /\ v15 \in Nat /\ v15 <= v8
      /\ r.n \in Nat /\ r.n <= v8 /\ r.acted \in [PageJobs -> Nat]
      /\ \A g \in v4 : g.n \in Nat
  BY DEF Queue!JobsInv, Queue!JobsShape
<1>3. ~v16' => r.n >= v15
  <2>1. v16' = (r.n < v15)
    BY DEF Queue!Answer
  <2>2. r.n < v15 \/ r.n >= v15
    BY <1>2
  <2> QED
    BY <2>1, <2>2, Zenon
<1>4. Queue!JobsShape'
  BY <1>1, <1>2 DEF Queue!JobsInv, Queue!JobsShape
<1>5. \A n \in Nat : n >= r.n /\ Queue!NewsAfter(n) => Queue!NewsAfter(n)'
  BY <1>1, <1>2 DEF Queue!NewsAfter, Queue!IsCurrent
<1>6. v15' >= r.n /\ v15' >= v15 /\ v15' \in Nat
  BY <1>1, <1>2
<1>7. Queue!OldIsFollowed'
  <2>1. ASSUME ~v5', ~v16', ~Queue!IsCurrent(v3.acted)'
        PROVE  Queue!NewsAfter(v15)'
    <3>1. r.n >= v15 /\ ~Queue!IsCurrent(r.acted) /\ v15' = r.n
      BY <1>1, <1>2, <1>3, <2>1 DEF Queue!IsCurrent
    <3>2. Queue!NewsAfter(r.n)
      BY <1>1, <2>1, <3>1 DEF Queue!JobsInv, Queue!OldIsFollowed
    <3>3. \E g \in v4' : g.n > r.n /\ (g.st = Queue!Unserved \/ Queue!IsCurrent(g.acted)')
      BY <1>1, <1>2, <3>2 DEF Queue!NewsAfter, Queue!IsCurrent
    <3> QED
      BY <3>1, <3>3 DEF Queue!NewsAfter
  <2>2. ASSUME ~v5', NEW q \in v4', q.st # Queue!Unserved', q.n >= v15',
               ~Queue!IsCurrent(q.acted)'
        PROVE  Queue!NewsAfter(q.n)'
    <3>1. q \in v4 /\ q.n \in Nat /\ q.n >= v15 /\ q.n >= r.n /\ ~Queue!IsCurrent(q.acted)
      BY <1>1, <1>2, <1>6, <2>2 DEF Queue!IsCurrent
    <3>2. Queue!NewsAfter(q.n)
      BY <1>1, <2>2, <3>1 DEF Queue!JobsInv, Queue!OldIsFollowed
    <3>3. \E g \in v4' : g.n > q.n /\ (g.st = Queue!Unserved \/ Queue!IsCurrent(g.acted)')
      BY <1>1, <1>2, <3>1, <3>2 DEF Queue!NewsAfter, Queue!IsCurrent
    <3> QED
      BY <3>3 DEF Queue!NewsAfter
  <2> QED
    BY <2>1, <2>2 DEF Queue!OldIsFollowed
<1> QED
  BY <1>1, <1>4, <1>7, JobsServerKept, JobsActsEnd DEF Queue!JobsInv, Queue!SeenIsDone

LEMMA JobsFailed ==
  ASSUME Queue!JobsInv, NEW r \in v4, Queue!Fail(r)
  PROVE  Queue!JobsInv'
<1>1. /\ v5' = TRUE /\ v4' = v4 \ {r}
      /\ UNCHANGED <<v1, v12, v13, v11, v3, v8, v14, v15, v16,
                     v6, v7, v9>>
  BY DEF Queue!Fail, Queue!rowVars
<1>2. Queue!JobsShape' /\ Queue!OldIsFollowed' /\ Queue!SeenIsDone'
  BY <1>1 DEF Queue!JobsInv, Queue!JobsShape, Queue!OldIsFollowed, Queue!SeenIsDone
<1> QED
  BY <1>1, <1>2, JobsServerKept, JobsActsEnd DEF Queue!JobsInv

\* the drawer and its dialogs
LEMMA JobsAside ==
  ASSUME Queue!JobsInv, UNCHANGED <<Queue!rowVars, v3, v4, v5, v8, v14, v15, v16>>,
         Queue!ActsShape'
  PROVE  Queue!JobsInv'
<1>1. Queue!JobsShape' /\ Queue!SeenIsDone' /\ Queue!EndsAreAhead'
  BY JobsServerKept DEF Queue!JobsInv, Queue!JobsShape, Queue!SeenIsDone, Queue!rowVars
<1> QED
  BY <1>1, JobsPageKept DEF Queue!JobsInv

LEMMA JobsOpened ==
  ASSUME Queue!JobsInv, NEW j \in PageJobs, Queue!openDrawer(j)
  PROVE  Queue!JobsInv'
<1>1. UNCHANGED <<Queue!rowVars, v3, v4, v5, v7, v8, v9, v14, v15, v16>>
  BY DEF Queue!openDrawer
<1>2. v6'.job = j
  BY DEF Queue!openDrawer
<1>3. Queue!ActsShape'
  BY <1>1, <1>2 DEF Queue!JobsInv, Queue!ActsShape, Queue!Closed, Queue!NoJob
<1> QED
  BY <1>1, <1>3, JobsAside

LEMMA JobsAsked ==
  ASSUME Queue!JobsInv, NEW k \in {"retry", "cancel"}, Queue!Ask(k)
  PROVE  Queue!JobsInv'
<1> DEFINE a == [act |-> v9 + 1, kind |-> k, on |-> Queue!NoJob, stage |-> "dialog"]
<1>1. /\ v9' = v9 + 1 /\ v7' = v7 \cup {a}
      /\ UNCHANGED <<Queue!rowVars, v3, v4, v5, v6, v8, v14, v15, v16>>
  BY DEF Queue!Ask
<1>2. v9' \in Nat /\ a.stage = "dialog"
      /\ a \in [act : Nat, kind : {"retry", "cancel"}, on : PageJobs \cup {Queue!NoJob},
                stage : {"dialog", "post", "done", "failed"}]
  BY <1>1 DEF Queue!JobsInv, Queue!ActsShape
<1> HIDE DEF a
<1>3. Queue!ActsShape'
  BY <1>1, <1>2 DEF Queue!JobsInv, Queue!ActsShape, Queue!Closed, Queue!NoJob
<1> QED
  BY <1>1, <1>3, JobsAside

\* an action goes on to its next stage
LEMMA JobsActMoves ==
  ASSUME Queue!JobsInv, NEW a \in v7, NEW st \in {"post", "done", "failed"},
         NEW j \in PageJobs, v9' = v9, v6' = v6,
         v7' = (v7 \ {a}) \cup {[a EXCEPT !.on = j, !.stage = st]}
  PROVE  Queue!ActsShape'
<1> DEFINE b == [a EXCEPT !.on = j, !.stage = st]
<1>1. b.stage = st /\ b.on = j
      /\ b \in [act : Nat, kind : {"retry", "cancel"}, on : PageJobs \cup {Queue!NoJob},
                stage : {"dialog", "post", "done", "failed"}]
  BY DEF Queue!JobsInv, Queue!ActsShape
<1>2. v7' = (v7 \ {a}) \cup {b}
  OBVIOUS
<1> HIDE DEF b
<1> QED
  BY <1>1, <1>2 DEF Queue!JobsInv, Queue!ActsShape, Queue!Closed, Queue!NoJob

LEMMA JobsConfirmed ==
  ASSUME Queue!JobsInv, NEW a \in v7, Queue!Confirm(a)
  PROVE  Queue!JobsInv'
<1>1. UNCHANGED <<Queue!rowVars, v3, v4, v5, v6, v8, v9, v14, v15, v16>>
  BY DEF Queue!Confirm
<1>2. CASE v6 = Queue!Closed
  <2>1. v7' \subseteq v7
    BY <1>2 DEF Queue!Confirm
  <2> QED
    BY <1>1, <2>1, JobsActsEnd, JobsAside DEF Queue!JobsInv
<1>3. CASE v6 # Queue!Closed
  <2>1. v6.job \in PageJobs
    BY <1>3 DEF Queue!JobsInv, Queue!ActsShape
  <2>2. v7' = (v7 \ {a}) \cup {[a EXCEPT !.on = v6.job, !.stage = "post"]}
    BY <1>3 DEF Queue!Confirm
  <2> QED
    BY <1>1, <2>1, <2>2, JobsActMoves, JobsAside
<1> QED
  BY <1>2, <1>3

LEMMA JobsActEnds ==
  ASSUME Queue!JobsInv, NEW a \in v7, Queue!Dismiss(a) \/ Queue!ActFailed(a)
  PROVE  Queue!JobsInv'
<1>1. /\ v7' = v7 \ {a}
      /\ UNCHANGED <<Queue!rowVars, v3, v4, v5, v6, v8, v9, v14, v15, v16>>
  BY DEF Queue!Dismiss, Queue!ActFailed
<1> QED
  BY <1>1, JobsActsEnd, JobsAside DEF Queue!JobsInv

LEMMA JobsActServed ==
  ASSUME Queue!JobsInv, NEW a \in v7, Queue!ServeAct(a)
  PROVE  Queue!JobsInv'
<1>1. a.on \in PageJobs /\ a.kind \in {"retry", "cancel"}
  BY DEF Queue!JobsInv, Queue!ActsShape, Queue!ServeAct
<1>2. UNCHANGED <<v3, v4, v5, v8, v14, v15, v16>>
  BY DEF Queue!ServeAct
<1>3. Queue!OldIsFollowed' /\ Queue!ActsShape'
  <2>1. /\ v9' = v9 /\ v6' = v6
        /\ \E st \in {"done", "failed"} : v7' = (v7 \ {a}) \cup {[a EXCEPT !.stage = st]}
    BY DEF Queue!ServeAct
  <2>2. PICK st \in {"done", "failed"} : v7' = (v7 \ {a}) \cup {[a EXCEPT !.stage = st]}
    BY <2>1
  <2>3. [a EXCEPT !.stage = st] = [a EXCEPT !.on = a.on, !.stage = st]
    BY DEF Queue!JobsInv, Queue!ActsShape
  <2>4. Queue!ActsShape'
    BY <1>1, <2>1, <2>2, <2>3, JobsActMoves
  <2> QED
    BY <1>2, <2>4, JobsPageKept DEF Queue!JobsInv
<1>4. CASE ~Queue!Takes(a.kind, a.on)
  <2>1. UNCHANGED <<v1, v11, v12, v13>>
    BY <1>4 DEF Queue!ServeAct
  <2> QED
    BY <1>2, <1>3, <2>1, JobsServerKept DEF Queue!JobsInv, Queue!JobsShape, Queue!SeenIsDone
<1>5. CASE Queue!Takes(a.kind, a.on) /\ a.kind = "retry"
  <2>1. /\ Queue!Becomes(a.on, "queued") /\ v1[a.on] \in Queue!Retryable
        /\ v11' = [v11 EXCEPT ![a.on] = v11[a.on] + 1]
        /\ v13' = [v13 EXCEPT ![a.on] = v13[a.on] + 1]
    BY <1>5 DEF Queue!ServeAct, Queue!Takes
  <2>2. v12' = v12 /\ v1' = [v1 EXCEPT ![a.on] = "queued"]
    BY <2>1 DEF Queue!Becomes, Queue!Retryable
  <2>3. v13[a.on] < v12[a.on]
    BY <1>1, <2>1 DEF Queue!JobsInv, Queue!EndsAreAhead
  <2>4. Queue!JobsShape'
    BY <1>1, <1>2, <2>1, <2>2 DEF Queue!JobsInv, Queue!JobsShape, Queue!Statuses
  <2>5. Queue!EndsAreAhead'
    <3> SUFFICES ASSUME NEW j \in PageJobs
                 PROVE  v13'[j] <= v12'[j]
                        /\ (v1'[j] \in Queue!Retryable => v13'[j] < v12'[j])
      BY DEF Queue!EndsAreAhead, Queue!Retryable
    <3>1. v13[j] \in Nat /\ v12[j] \in Nat
      BY DEF Queue!JobsInv, Queue!JobsShape
    <3>2. CASE j = a.on
      <4>1. v13'[j] = v13[j] + 1 /\ v1'[j] = "queued"
        BY <1>1, <2>1, <2>2, <3>2 DEF Queue!JobsInv, Queue!JobsShape
      <4> QED
        BY <2>2, <2>3, <3>1, <3>2, <4>1 DEF Queue!Retryable
    <3>3. CASE j # a.on
      <4>1. v13'[j] = v13[j] /\ v1'[j] = v1[j]
        BY <1>1, <2>1, <2>2, <3>3 DEF Queue!JobsInv, Queue!JobsShape
      <4> QED
        BY <2>2, <4>1 DEF Queue!JobsInv, Queue!EndsAreAhead
    <3> QED
      BY <3>2, <3>3
  <2>6. Queue!SeenIsDone'
    BY <1>1, <1>2, <2>1 DEF Queue!JobsInv, Queue!JobsShape, Queue!SeenIsDone
  <2> QED
    BY <1>3, <2>4, <2>5, <2>6 DEF Queue!JobsInv
<1>6. CASE Queue!Takes(a.kind, a.on) /\ a.kind = "cancel"
  <2>1. /\ Queue!Becomes(a.on, "cancelled") /\ v13' = v13
        /\ v11' = [v11 EXCEPT ![a.on] = v11[a.on] + 1]
    BY <1>6 DEF Queue!ServeAct
  <2>2. /\ v1' \in [PageJobs -> Queue!Statuses] /\ v12' \in [PageJobs -> Nat]
        /\ \A k \in PageJobs : v12[k] <= v12'[k]
        /\ \A k \in PageJobs : k # a.on => v1'[k] = v1[k]
        /\ v13[a.on] < v12'[a.on]
    BY <1>1, <2>1, JobsBecome DEF Queue!JobsInv, Queue!Statuses, Queue!Retryable
  <2>3. Queue!JobsShape'
    <3>1. v11' \in [PageJobs -> Nat]
      BY <1>1, <2>1 DEF Queue!JobsInv, Queue!JobsShape
    <3> QED
      BY <1>2, <2>1, <2>2, <3>1 DEF Queue!JobsInv, Queue!JobsShape
  <2>4. Queue!EndsAreAhead'
    <3>1. \A j \in PageJobs : v13[j] \in Nat /\ v12[j] \in Nat /\ v12'[j] \in Nat
      BY <2>2 DEF Queue!JobsInv, Queue!JobsShape
    <3>2. \A j \in PageJobs : v13[j] <= v12[j]
                         /\ (v1[j] \in Queue!Retryable => v13[j] < v12[j])
      BY DEF Queue!JobsInv, Queue!EndsAreAhead
    <3> QED
      BY <2>1, <2>2, <3>1, <3>2 DEF Queue!EndsAreAhead, Queue!Retryable
  <2>5. Queue!SeenIsDone'
    BY <1>1, <1>2, <2>1 DEF Queue!JobsInv, Queue!JobsShape, Queue!SeenIsDone
  <2> QED
    BY <1>3, <2>3, <2>4, <2>5 DEF Queue!JobsInv
<1> QED
  BY <1>1, <1>4, <1>5, <1>6

LEMMA JobsActAnswered ==
  ASSUME Queue!JobsInv, NEW a \in v7, Queue!ActAnswered(a)
  PROVE  Queue!JobsInv'
<1>1. a.on \in PageJobs
  BY DEF Queue!JobsInv, Queue!ActsShape, Queue!ActAnswered
<1>2. /\ Queue!Refresh /\ v14' = [v14 EXCEPT ![a.on] = v11[a.on]]
      /\ v9' = v9 /\ v7' \subseteq v7 /\ v6' = Queue!Closed
      /\ UNCHANGED <<v1, v12, v13, v11, v3, v15, v16>>
  BY DEF Queue!ActAnswered, Queue!Acted, Queue!rowVars
<1>3. v14' \in [PageJobs -> Nat] /\ \A j \in PageJobs : v14'[j] <= v11[j]
  BY <1>1, <1>2 DEF Queue!JobsInv, Queue!JobsShape, Queue!SeenIsDone
<1> QED
  BY <1>2, <1>3, JobsListed
LEMMA JobsRefreshed ==
  ASSUME Queue!JobsInv, Queue!RefreshAgain
  PROVE  Queue!JobsInv'
<1>1. /\ Queue!Refresh /\ v14' = v14
      /\ UNCHANGED <<v1, v12, v13, v11, v3, v15, v16, v6, v7, v9>>
  BY DEF Queue!RefreshAgain, Queue!rowVars
<1> QED
  BY <1>1, JobsListed DEF Queue!JobsInv, Queue!JobsShape, Queue!SeenIsDone

LEMMA JobsNext ==
  ASSUME Queue!JobsInv, [Queue!Next]_(Queue!jobsVars)
  PROVE  Queue!JobsInv'
<1>1. ASSUME NEW j \in PageJobs,
             \/ Queue!Claim(j) \/ Queue!openDrawer(j)
             \/ \E st \in {"succeeded", "failed", "queued"} : Queue!HandlerEnds(j, st)
      PROVE  Queue!JobsInv'
  BY <1>1, JobsWorked, JobsOpened
<1>2. CASE Queue!RefreshAgain
  BY <1>2, JobsRefreshed
<1>3. CASE Queue!closeDrawer
  <2>1. UNCHANGED <<Queue!rowVars, v3, v4, v5, v7, v8, v9, v14, v15, v16>>
        /\ v6' = Queue!Closed
    BY <1>3 DEF Queue!closeDrawer
  <2> QED
    BY <2>1, JobsActsEnd, JobsAside DEF Queue!JobsInv
<1>4. ASSUME NEW r \in v4, Queue!Serve(r) \/ Queue!Answer(r) \/ Queue!Fail(r)
      PROVE  Queue!JobsInv'
  BY <1>4, JobsServed, JobsAnswered, JobsFailed
<1>5. ASSUME NEW k \in {"retry", "cancel"}, Queue!Ask(k)
      PROVE  Queue!JobsInv'
  BY <1>5, JobsAsked
<1>6. ASSUME NEW a \in v7,
             \/ Queue!Confirm(a) \/ Queue!Dismiss(a) \/ Queue!ServeAct(a)
             \/ Queue!ActAnswered(a) \/ Queue!ActFailed(a)
      PROVE  Queue!JobsInv'
  BY <1>6, JobsConfirmed, JobsActEnds, JobsActServed, JobsActAnswered
<1>7. CASE UNCHANGED Queue!jobsVars
  BY <1>7, JobsActsEnd, JobsAside DEF Queue!jobsVars, Queue!rowVars, Queue!JobsInv
<1> QED
  BY <1>1, <1>2, <1>3, <1>4, <1>5, <1>6, <1>7 DEF Queue!Next

LEMMA JobsHold == Queue!JobsInv => Queue!OneRetryPerEnd /\ Queue!ActionsAreListed
<1>1. v4 = {} => \A n : ~Queue!NewsAfter(n)
  BY DEF Queue!NewsAfter
<1>2. Queue!JobsInv => Queue!ActionsAreListed
  BY <1>1 DEF Queue!JobsInv, Queue!OldIsFollowed, Queue!IsCurrent, Queue!ActionsAreListed
<1> QED
  BY <1>2 DEF Queue!JobsInv, Queue!EndsAreAhead, Queue!OneRetryPerEnd

-----------------------------------------------------------------------------
(* The session and the pages that run something, together.                 *)

RunsInv ==
    /\ part = "session" => Session!SessionInv
    /\ part = "sql" => Sql!SqlInv
    /\ part = "rls" => Rls!RlsInv
    /\ part = "backups" => Backup!BackupInv
    /\ part = "jobs" => Queue!JobsInv

LEMMA RunsInvInit == ConsoleInit => RunsInv
<1> SUFFICES ASSUME ConsoleInit
             PROVE  RunsInv
  OBVIOUS
<1>1. part = "sql" => Sql!SqlInv
  <2>1. part = "sql" => Sql!Init
    BY DEF ConsoleInit
  <2> QED
    BY <2>1, SqlInit
<1>2. part = "rls" => Rls!RlsInv
  <2>1. part = "rls" => Rls!Init
    BY DEF ConsoleInit
  <2> QED
    BY <2>1, RlsInit
<1>3. part = "backups" => Backup!BackupInv
  <2>1. part = "backups" => Backup!Init
    BY DEF ConsoleInit
  <2> QED
    BY <2>1, BackupInit
<1>4. part = "jobs" => Queue!JobsInv
  <2>1. part = "jobs" => Queue!Init
    BY DEF ConsoleInit
  <2> QED
    BY <2>1, JobsInit
<1>5. part = "session" => Session!SessionInv
  <2>1. part = "session" => Session!Init
    BY DEF ConsoleInit
  <2> QED
    BY <2>1, SessionInit
<1> QED
  BY <1>1, <1>2, <1>3, <1>4, <1>5 DEF RunsInv

LEMMA RunsInvNext ==
  ASSUME RunsInv, [ConsoleNext]_consoleVars
  PROVE  RunsInv'
<1>1. part' = part
  BY DEF ConsoleNext, consoleVars
<1>2. part' = "sql" => Sql!SqlInv'
  <2> SUFFICES ASSUME part = "sql"
               PROVE  Sql!SqlInv'
    BY <1>1
  <2>1. [Sql!Next]_(Sql!sqlVars)
    BY DEF ConsoleNext, consoleVars, Sql!sqlVars
  <2> QED
    BY <2>1, SqlNext DEF RunsInv
<1>3. part' = "rls" => Rls!RlsInv'
  <2> SUFFICES ASSUME part = "rls"
               PROVE  Rls!RlsInv'
    BY <1>1
  <2>1. [Rls!Next]_(Rls!rlsVars)
    BY DEF ConsoleNext, consoleVars, Rls!rlsVars
  <2> QED
    BY <2>1, RlsNext DEF RunsInv
<1>4. part' = "backups" => Backup!BackupInv'
  <2> SUFFICES ASSUME part = "backups"
               PROVE  Backup!BackupInv'
    BY <1>1
  <2>1. [Backup!Next]_(Backup!backupVars)
    BY DEF ConsoleNext, consoleVars, Backup!backupVars
  <2> QED
    BY <2>1, BackupNext DEF RunsInv
<1>5. part' = "jobs" => Queue!JobsInv'
  <2> SUFFICES ASSUME part = "jobs"
               PROVE  Queue!JobsInv'
    BY <1>1
  <2>1. [Queue!Next]_(Queue!jobsVars)
    BY DEF ConsoleNext, consoleVars, Queue!jobsVars
  <2> QED
    BY <2>1, JobsNext DEF RunsInv
<1>6. part' = "session" => Session!SessionInv'
  <2> SUFFICES ASSUME part = "session"
               PROVE  Session!SessionInv'
    BY <1>1
  <2>1. [Session!Next]_(Session!sessionVars)
    BY DEF ConsoleNext, consoleVars, Session!sessionVars
  <2> QED
    BY <2>1, SessionNext DEF RunsInv
<1> QED
  BY <1>2, <1>3, <1>4, <1>5, <1>6 DEF RunsInv

(* The session is told as it is: the login page's form is released, who    *)
(* signed out is out until someone asks again, the menu follows the page.  *)
THEOREM SessionCorrect == ConsoleSpec => []SessionIsTold
<1>1. ConsoleInit => RunsInv
  BY RunsInvInit
<1>2. RunsInv /\ [ConsoleNext]_consoleVars => RunsInv'
  BY RunsInvNext
<1>3. RunsInv => SessionIsTold
  BY SessionHolds, SessionMenu DEF RunsInv, SessionIsTold
<1> QED
  BY <1>1, <1>2, <1>3, PTL DEF ConsoleSpec

(* A result is that of the last run, which heads the history; a verdict    *)
(* compares two results of one run; the tables are the schema's and the    *)
(* policies the table's, unless requests overlapped or came in another     *)
(* order.                                                                  *)
THEOREM ResultsCorrect == ConsoleSpec => []ResultsAreOfTheirRun
<1>1. ConsoleInit => RunsInv
  BY RunsInvInit
<1>2. RunsInv /\ [ConsoleNext]_consoleVars => RunsInv'
  BY RunsInvNext
<1>3. RunsInv => ResultsAreOfTheirRun
  BY SqlHolds, RlsHolds DEF RunsInv, ResultsAreOfTheirRun
<1> QED
  BY <1>1, <1>2, <1>3, PTL DEF ConsoleSpec

(* A backup shown running is polled for and the drawer says what the list  *)
(* says; one end of a job is answered by one retry, and the list comes to  *)
(* show what was done.                                                     *)
THEOREM OperationsCorrect == ConsoleSpec => []OperationsAreFollowed
<1>1. ConsoleInit => RunsInv
  BY RunsInvInit
<1>2. RunsInv /\ [ConsoleNext]_consoleVars => RunsInv'
  BY RunsInvNext
<1>3. RunsInv => OperationsAreFollowed
  BY BackupHolds, JobsHold DEF RunsInv, OperationsAreFollowed
<1> QED
  BY <1>1, <1>2, <1>3, PTL DEF ConsoleSpec

-----------------------------------------------------------------------------
(* The drawer of the users page.  Here v1 account; v2 selected; v3 detail; *)
(* v4 loading; v5 error; v6 fetches; v7 acts; v8 asked; v9 begun; v10      *)
(* since; v11 newest; v12 late; v13 seen.                                  *)

LEMMA DrawerInit == Drawer!Init => Drawer!DrawerInv
<1> SUFFICES ASSUME Drawer!Init
             PROVE  Drawer!DrawerInv
  OBVIOUS
<1> USE DEF Drawer!Init, Drawer!NoUser, Drawer!Nothing
<1>1. Drawer!DrawerShape
  <2>1. /\ DOMAIN v1 = Accounts /\ v13 \in [Accounts -> Nat]
        /\ \A u \in Accounts : v1[u] = [banned |-> FALSE, ver |-> 0] /\ v13[u] = 0
    OBVIOUS
  <2>2. /\ v2 = "none" /\ v7 = {} /\ v12 \in BOOLEAN
        /\ v8 = 0 /\ v9 = 0 /\ v10 = 0 /\ v11 = 0
    OBVIOUS
  <2> HIDE DEF Drawer!Init
  <2> QED
    BY <2>1, <2>2 DEF Drawer!DrawerShape
<1>2. Drawer!FetchShape /\ Drawer!DetailShape /\ Drawer!FetchIsOfSelected
  BY DEF Drawer!FetchShape, Drawer!DetailShape, Drawer!FetchIsOfSelected
<1>3. Drawer!DialogIsOfSelected /\ Drawer!ActsOnWhomItNamed
  BY DEF Drawer!DialogIsOfSelected, Drawer!ActsOnWhomItNamed, Drawer!Dialog
<1>4. Drawer!OldIsFollowed /\ Drawer!DetailIsSelected
  BY DEF Drawer!OldIsFollowed, Drawer!DetailIsSelected
<1> QED
  BY <1>1, <1>2, <1>3, <1>4 DEF Drawer!DrawerInv

LEMMA DrawerConstants == "none" \notin Accounts
BY ConsoleAssumption DEF Drawer!UsersAssumption, Drawer!NoUser

\* a request goes out with the next number
LEMMA DrawerFetch ==
  ASSUME Drawer!DrawerInv, NEW u \in Accounts \cup {Drawer!NoUser}, Drawer!Fetch(u)
  PROVE  /\ v8' = v8 + 1 /\ v5' = FALSE
         /\ Drawer!FetchShape'
         /\ \E g \in v6' : g.n = v8 + 1 /\ g.got = Drawer!Nothing
         /\ \A f \in v6' : f \in v6 \/ (f.n = v8 + 1 /\ f.of = u /\ f.got = Drawer!Nothing)
<1> USE DEF Drawer!NoUser, Drawer!Nothing
<1> DEFINE g == [n |-> v8 + 1, of |-> u, got |-> Drawer!Nothing]
<1>1. v8' = v8 + 1 /\ v5' = FALSE /\ v6' = v6 \cup {g}
  BY DEF Drawer!Fetch
<1>2. \A f \in v6 : v8 \in Nat /\ f.n \in Nat /\ f.n <= v8
  BY DEF Drawer!DrawerInv, Drawer!DrawerShape, Drawer!FetchShape
<1>3. g = [n |-> g.n, of |-> g.of, got |-> g.got] /\ g.n = v8 + 1 /\ g.of = u /\ g.got = Drawer!Nothing
  OBVIOUS
<1> HIDE DEF g
<1>4. v8 \in Nat
  BY DEF Drawer!DrawerInv, Drawer!DrawerShape
<1>5. Drawer!FetchShape'
  <2>1. \A f \in v6' : f \in v6 \/ f = g
    BY <1>1
  <2>2. \A f \in v6 : f.n <= v8'
    BY <1>1, <1>2
  <2>3. \A f \in v6 :
           /\ f = [n |-> f.n, of |-> f.of, got |-> f.got]
           /\ f.n \in Nat /\ f.of \in Accounts \cup {Drawer!NoUser}
           /\ f.got # Drawer!Nothing =>
                 /\ f.of \in Accounts /\ f.got.of = f.of /\ f.got.ver \in Nat
    BY Zenon DEF Drawer!DrawerInv, Drawer!FetchShape
  <2>4. v8 + 1 \in Nat /\ v8 + 1 <= v8'
    BY <1>1, <1>4
  <2> QED
    BY <2>1, <2>2, <2>3, <2>4, <1>3 DEF Drawer!FetchShape
<1>6. g \in v6' /\ \A f \in v6' : f \in v6 \/ f = g
  BY <1>1
<1> QED
  BY <1>1, <1>3, <1>5, <1>6, Zenon

\* and what it will answer is news of everything confirmed until now
LEMMA DrawerFollowed ==
  ASSUME Drawer!DrawerInv, NEW u \in Accounts \cup {Drawer!NoUser}, Drawer!Fetch(u),
         v10' \in Nat, v11' \in Nat, v11' <= v8
  PROVE  Drawer!OldIsFollowed'
<1> USE DEF Drawer!NoUser, Drawer!Nothing
<1>1. PICK g \in v6' : g.n = v8 + 1 /\ g.got = Drawer!Nothing
  BY DrawerFetch
<1>2. \A f \in v6' : f.got # Drawer!Nothing => f.n \in Nat /\ f.n <= v8
  BY DrawerFetch DEF Drawer!DrawerInv, Drawer!DrawerShape, Drawer!FetchShape
<1>3. v8 \in Nat
  BY DEF Drawer!DrawerInv, Drawer!DrawerShape
<1>4. \A n \in Nat : n <= v8 => Drawer!NewsAfter(n)'
  BY <1>1, <1>3 DEF Drawer!NewsAfter
<1> QED
  BY <1>2, <1>4 DEF Drawer!OldIsFollowed

LEMMA DrawerOpened ==
  ASSUME Drawer!DrawerInv, NEW u \in Accounts, Drawer!openDrawer(u)
  PROVE  Drawer!DrawerInv'
<1> USE DEF Drawer!NoUser, Drawer!Nothing
<1>1. /\ Drawer!Fetch(u) /\ v2 = "none" /\ v2' = u /\ v3' = Drawer!Nothing
      /\ v10' = v8 /\ v11' = v8 /\ v12' = FALSE
      /\ UNCHANGED <<v1, v7, v9, v13>>
  BY DEF Drawer!openDrawer
<1>2. v8 \in Nat /\ v8 <= v8
  BY DEF Drawer!DrawerInv, Drawer!DrawerShape
<1>3. /\ v8' = v8 + 1 /\ Drawer!FetchShape'
      /\ \A f \in v6' : f \in v6 \/ (f.n = v8 + 1 /\ f.of = u)
  BY <1>1, DrawerFetch
<1>4. Drawer!OldIsFollowed'
  BY <1>1, <1>2, DrawerFollowed
<1>5. Drawer!DrawerShape'
  <2>1. v8' \in Nat /\ v10' \in Nat /\ v11' \in Nat /\ v11' <= v8'
    BY <1>1, <1>2, <1>3
  <2>3. v2' \in Accounts \cup {"none"} /\ v12' \in BOOLEAN
    BY <1>1
  <2>2. Drawer!DrawerShape
    BY DEF Drawer!DrawerInv
  <2> QED
    BY <1>1, <2>1, <2>2, <2>3 DEF Drawer!DrawerShape, Drawer!Actions, Drawer!Stages
<1>6. Drawer!FetchIsOfSelected'
  BY <1>1, <1>2, <1>3 DEF Drawer!DrawerInv, Drawer!FetchShape, Drawer!FetchIsOfSelected
<1>7. Drawer!DialogIsOfSelected'
  BY <1>1 DEF Drawer!DrawerInv, Drawer!DialogIsOfSelected, Drawer!Dialog
<1>8. (Drawer!DetailShape /\ Drawer!DetailIsSelected /\ Drawer!ActsOnWhomItNamed)'
  BY <1>1 DEF Drawer!DrawerInv, Drawer!DetailShape, Drawer!DetailIsSelected,
         Drawer!ActsOnWhomItNamed
<1> QED
  BY <1>3, <1>4, <1>5, <1>6, <1>7, <1>8 DEF Drawer!DrawerInv

LEMMA DrawerClosed ==
  ASSUME Drawer!DrawerInv, Drawer!closeDrawer
  PROVE  Drawer!DrawerInv'
<1> USE DEF Drawer!NoUser, Drawer!Nothing
<1>1. /\ v2' = "none" /\ v3' = Drawer!Nothing /\ Drawer!Dialog = {}
      /\ UNCHANGED <<v1, v4, v6, v7, v8, v9, v10, v11, v12, v13>>
  BY DEF Drawer!closeDrawer
<1>2. (Drawer!DrawerShape /\ Drawer!FetchShape /\ Drawer!DetailShape)'
  BY <1>1 DEF Drawer!DrawerInv, Drawer!DrawerShape, Drawer!FetchShape, Drawer!DetailShape,
         Drawer!Actions, Drawer!Stages
<1>3. (Drawer!FetchIsOfSelected /\ Drawer!OldIsFollowed /\ Drawer!DetailIsSelected)'
  BY <1>1 DEF Drawer!FetchIsOfSelected, Drawer!OldIsFollowed, Drawer!DetailIsSelected
<1>4. (Drawer!DialogIsOfSelected /\ Drawer!ActsOnWhomItNamed)'
  BY <1>1 DEF Drawer!DrawerInv, Drawer!DialogIsOfSelected, Drawer!Dialog,
         Drawer!ActsOnWhomItNamed
<1> QED
  BY <1>2, <1>3, <1>4 DEF Drawer!DrawerInv

LEMMA DrawerRetried ==
  ASSUME Drawer!DrawerInv, Drawer!Retry
  PROVE  Drawer!DrawerInv'
<1> USE DEF Drawer!NoUser, Drawer!Nothing
<1>1. Drawer!Fetch(v2) /\ UNCHANGED <<v1, v2, v3, v7, v9, v10, v11, v12, v13>>
  BY DEF Drawer!Retry
<1>2. v2 \in Accounts \cup {"none"} /\ v8 \in Nat /\ v10 \in Nat /\ v11 \in Nat /\ v11 <= v8
  BY DEF Drawer!DrawerInv, Drawer!DrawerShape
<1>3. /\ v8' = v8 + 1 /\ Drawer!FetchShape'
      /\ \A f \in v6' : f \in v6 \/ (f.n = v8 + 1 /\ f.of = v2)
  BY <1>1, <1>2, DrawerFetch
<1>4. Drawer!OldIsFollowed'
  BY <1>1, <1>2, DrawerFollowed
<1>5. Drawer!DrawerShape'
  BY <1>1, <1>2, <1>3 DEF Drawer!DrawerInv, Drawer!DrawerShape, Drawer!Actions,
         Drawer!Stages
<1>6. Drawer!FetchIsOfSelected'
  BY <1>1, <1>3 DEF Drawer!DrawerInv, Drawer!FetchIsOfSelected
<1>7. Drawer!DialogIsOfSelected'
  BY <1>1 DEF Drawer!DrawerInv, Drawer!DialogIsOfSelected, Drawer!Dialog
<1>8. (Drawer!DetailShape /\ Drawer!DetailIsSelected /\ Drawer!ActsOnWhomItNamed)'
  BY <1>1 DEF Drawer!DrawerInv, Drawer!DetailShape, Drawer!DetailIsSelected,
         Drawer!ActsOnWhomItNamed
<1> QED
  BY <1>3, <1>4, <1>5, <1>6, <1>7, <1>8 DEF Drawer!DrawerInv

LEMMA DrawerServed ==
  ASSUME Drawer!DrawerInv, NEW f \in v6, Drawer!Serve(f)
  PROVE  Drawer!DrawerInv'
<1> USE DEF Drawer!NoUser, Drawer!Nothing
<1> USE DEF Drawer!DrawerInv, Drawer!NoUser, Drawer!Serve
<1> DEFINE h == [f EXCEPT !.got = Drawer!Detail(f.of)]
<1>2. h = [n |-> f.n, of |-> f.of, got |-> Drawer!Detail(f.of)]
  BY DEF Drawer!FetchShape
<1>3. f.of \in Accounts /\ h.got # Drawer!Nothing /\ h.got.of = f.of /\ h.got.ver = v1[f.of].ver
  <2>1. f.of \in Accounts
    BY DEF Drawer!FetchShape
  <2>2. Drawer!Detail(f.of).of # "none"
    BY <2>1, DrawerConstants DEF Drawer!Detail
  <2>. QED
    BY <1>2, <2>1, <2>2 DEF Drawer!Detail
<1>4. Drawer!FetchShape'
  BY <1>2, <1>3 DEF Drawer!FetchShape, Drawer!DrawerShape
<1>5. /\ v6' = (v6 \ {f}) \cup {h} /\ f.got = Drawer!Nothing
      /\ UNCHANGED <<v1, v2, v3, v5, v10, v11, v12, v13>>
  BY Zenon DEF Drawer!Serve
<1>6. h.got.ver >= v13[h.of] /\ h.n = f.n
  BY <1>2, <1>3 DEF Drawer!DrawerShape
<1> HIDE DEF h
<1>7. \A n : Drawer!NewsAfter(n) => Drawer!NewsAfter(n)'
  BY <1>5, <1>6 DEF Drawer!NewsAfter
<1>8. Drawer!OldIsFollowed'
  <2> SUFFICES ASSUME v2' # "none", ~v5'
               PROVE  /\ v3' # Drawer!Nothing /\ ~v12' /\ v3'.ver < v13'[v3'.of]
                           => Drawer!NewsAfter(v11)'
                      /\ \A e \in v6' :
                           e.got # Drawer!Nothing /\ e.n > v10 /\ e.n >= v11
                           /\ e.got.ver < v13[e.of] => Drawer!NewsAfter(e.n)'
    BY <1>5, Zenon DEF Drawer!OldIsFollowed
  <2>1. v2 # "none" /\ ~v5
    BY <1>5
  <2>2. \A e \in v6 :
              e.got # Drawer!Nothing /\ e.n > v10 /\ e.n >= v11
              /\ e.got.ver < v13[e.of] => Drawer!NewsAfter(e.n)'
    BY <2>1, <1>7, Zenon DEF Drawer!OldIsFollowed
  <2>3. ~(h.got.ver < v13[h.of])
    BY <1>3, <1>2, <1>6 DEF Drawer!DrawerShape
  <2> QED
    BY <1>5, <1>6, <1>7, <2>1, <2>2, <2>3 DEF Drawer!OldIsFollowed
<1>9. (Drawer!DrawerShape /\ Drawer!DetailShape /\ Drawer!DetailIsSelected)'
  BY DEF Drawer!Serve, Drawer!DrawerInv, Drawer!DrawerShape, Drawer!DetailShape,
         Drawer!DetailIsSelected, Drawer!Actions, Drawer!Stages
<1>10. (Drawer!FetchIsOfSelected /\ Drawer!DialogIsOfSelected /\ Drawer!ActsOnWhomItNamed)'
  BY <1>2, <1>5, <1>6 DEF Drawer!Serve, Drawer!DrawerInv, Drawer!FetchIsOfSelected,
         Drawer!DialogIsOfSelected, Drawer!Dialog, Drawer!ActsOnWhomItNamed
<1> QED
  BY <1>4, <1>8, <1>9, <1>10 DEF Drawer!DrawerInv

LEMMA DrawerFetchAnswered ==
  ASSUME Drawer!DrawerInv, NEW f \in v6, Drawer!FetchAnswered(f)
  PROVE  Drawer!DrawerInv'
<1> USE DEF Drawer!NoUser, Drawer!Nothing
<1>1. /\ v3' = f.got /\ f.got # Drawer!Nothing /\ v6' = v6 \ {f}
      /\ v11' = IF f.n > v11 THEN f.n ELSE v11
      /\ UNCHANGED <<v1, v2, v5, v8, v9, v10, v13>>
  BY Zenon DEF Drawer!FetchAnswered
<1>2. /\ f.n \in Nat /\ v10 \in Nat /\ v11 \in Nat /\ f.n <= v8
      /\ f.of \in Accounts /\ f.got.of = f.of /\ f.got.ver \in Nat
  BY <1>1 DEF Drawer!DrawerInv, Drawer!DrawerShape, Drawer!FetchShape
<1>3. ~v12' => f.n >= v11 /\ f.n > v10
  <2>1. v12' = (f.n < v11 \/ f.n <= v10)
    BY DEF Drawer!FetchAnswered
  <2>2. (f.n < v11 \/ f.n <= v10) \/ (f.n >= v11 /\ f.n > v10)
    BY <1>2
  <2> QED
    BY <2>1, <2>2, Zenon
<1>4. Drawer!DrawerShape'
  BY <1>1, <1>2 DEF Drawer!FetchAnswered, Drawer!DrawerInv, Drawer!DrawerShape
<1>5. Drawer!OldIsFollowed'
  <2>1. \A n \in Nat : n >= f.n /\ Drawer!NewsAfter(n) => Drawer!NewsAfter(n)'
    BY <1>1, <1>2 DEF Drawer!NewsAfter
  <2>2. \A e \in v6 : e.n \in Nat
    BY DEF Drawer!DrawerInv, Drawer!FetchShape
  <2> SUFFICES ASSUME v2 # "none", ~v5
               PROVE  /\ ~v12' /\ f.got.ver < v13[f.got.of] => Drawer!NewsAfter(v11)'
                      /\ \A e \in v6' :
                           e.got # Drawer!Nothing /\ e.n > v10 /\ e.n >= v11'
                           /\ e.got.ver < v13[e.of] => Drawer!NewsAfter(e.n)'
    BY <1>1 DEF Drawer!OldIsFollowed
  <2>3. \A e \in v6 :
              e.got # Drawer!Nothing /\ e.n > v10 /\ e.n >= v11
              /\ e.got.ver < v13[e.of] => Drawer!NewsAfter(e.n)
    BY DEF Drawer!DrawerInv, Drawer!OldIsFollowed
  <2>4. ~v12' /\ f.got.ver < v13[f.got.of] => Drawer!NewsAfter(v11)'
    BY <1>1, <1>2, <1>3, <2>1, <2>3
  <2>5. v11' \in Nat /\ v11' >= f.n /\ v11' >= v11
    BY <1>1, <1>2
  <2>6. ASSUME NEW e \in v6', e.got # Drawer!Nothing, e.n > v10, e.n >= v11',
               e.got.ver < v13[e.of]
        PROVE  Drawer!NewsAfter(e.n)'
    BY <1>1, <1>2, <2>1, <2>2, <2>3, <2>5, <2>6
  <2> QED
    BY <2>4, <2>6
<1>6. Drawer!DetailIsSelected'
  BY <1>1, <1>2, <1>3 DEF Drawer!DetailIsSelected, Drawer!DrawerInv,
         Drawer!FetchIsOfSelected
<1>7. (Drawer!FetchShape /\ Drawer!DetailShape)'
  BY <1>1, <1>2 DEF Drawer!DrawerInv, Drawer!FetchShape, Drawer!DetailShape
<1>8. (Drawer!FetchIsOfSelected /\ Drawer!DialogIsOfSelected /\ Drawer!ActsOnWhomItNamed)'
  BY DEF Drawer!FetchAnswered, Drawer!DrawerInv, Drawer!FetchIsOfSelected,
         Drawer!DialogIsOfSelected, Drawer!Dialog, Drawer!ActsOnWhomItNamed
<1> QED
  BY <1>4, <1>5, <1>6, <1>7, <1>8 DEF Drawer!DrawerInv

LEMMA DrawerFetchFailed ==
  ASSUME Drawer!DrawerInv, NEW f \in v6, Drawer!FetchFailed(f)
  PROVE  Drawer!DrawerInv'
<1> USE DEF Drawer!NoUser, Drawer!Nothing
<1>1. /\ v5' = TRUE /\ v6' = v6 \ {f} /\ v7' \subseteq v7
      /\ UNCHANGED <<v1, v2, v3, v8, v9, v10, v11, v12, v13>>
  BY DEF Drawer!FetchFailed
<1>2. (Drawer!DrawerShape /\ Drawer!FetchShape /\ Drawer!DetailShape)'
  BY <1>1 DEF Drawer!DrawerInv, Drawer!DrawerShape, Drawer!FetchShape, Drawer!DetailShape,
         Drawer!Actions, Drawer!Stages
<1>3. (Drawer!FetchIsOfSelected /\ Drawer!OldIsFollowed /\ Drawer!DetailIsSelected)'
  BY <1>1 DEF Drawer!DrawerInv, Drawer!FetchIsOfSelected, Drawer!OldIsFollowed,
         Drawer!DetailIsSelected
<1>4. (Drawer!DialogIsOfSelected /\ Drawer!ActsOnWhomItNamed)'
  BY <1>1 DEF Drawer!DrawerInv, Drawer!DialogIsOfSelected, Drawer!Dialog,
         Drawer!ActsOnWhomItNamed
<1> QED
  BY <1>2, <1>3, <1>4 DEF Drawer!DrawerInv

LEMMA DrawerAsked ==
  ASSUME Drawer!DrawerInv, NEW k \in Drawer!Actions, Drawer!Ask(k)
  PROVE  Drawer!DrawerInv'
<1> USE DEF Drawer!NoUser, Drawer!Nothing
<1> DEFINE h == [act |-> k, named |-> v3.of, on |-> "none", late |-> v12, stage |-> "dialog",
                 n |-> v9 + 1]
<1>1. /\ v7' = v7 \cup {h} /\ v9' = v9 + 1
      /\ v2 # "none" /\ v3 # Drawer!Nothing
      /\ UNCHANGED <<v1, v2, v3, v4, v5, v6, v8, v10, v11, v12, v13>>
  BY DEF Drawer!Ask, Drawer!ShowsDetail
<1>2. v3.of = v2 \/ v12
  BY <1>1 DEF Drawer!DrawerInv, Drawer!DetailIsSelected
<1>3. h \in [act : Drawer!Actions, named : Accounts \cup {"none"}, on : Accounts \cup {"none"},
             late : BOOLEAN, stage : Drawer!Stages, n : Nat]
  BY <1>1 DEF Drawer!DrawerInv, Drawer!DrawerShape, Drawer!DetailShape, Drawer!Stages
<1>4. Drawer!DrawerShape'
  BY <1>1, <1>3 DEF Drawer!DrawerInv, Drawer!DrawerShape, Drawer!Actions, Drawer!Stages
<1>5. Drawer!DialogIsOfSelected' /\ Drawer!ActsOnWhomItNamed'
  BY <1>1, <1>2 DEF Drawer!DrawerInv, Drawer!ActsOnWhomItNamed, Drawer!DialogIsOfSelected,
         Drawer!Dialog
<1>6. (Drawer!FetchShape /\ Drawer!DetailShape /\ Drawer!FetchIsOfSelected
       /\ Drawer!OldIsFollowed /\ Drawer!DetailIsSelected)'
  BY <1>1 DEF Drawer!DrawerInv, Drawer!FetchShape, Drawer!DetailShape,
         Drawer!FetchIsOfSelected, Drawer!OldIsFollowed, Drawer!NewsAfter,
         Drawer!DetailIsSelected
<1> QED
  BY <1>4, <1>5, <1>6 DEF Drawer!DrawerInv

LEMMA DrawerConfirmed ==
  ASSUME Drawer!DrawerInv, NEW a \in v7, Drawer!Confirm(a)
  PROVE  Drawer!DrawerInv'
<1> USE DEF Drawer!NoUser, Drawer!Nothing
<1> DEFINE h == [a EXCEPT !.on = v2, !.stage = "post"]
<1>1. /\ a.stage = "dialog" /\ v7' = (v7 \ {a}) \cup {h}
      /\ UNCHANGED <<v1, v2, v3, v4, v5, v6, v8, v9, v10, v11, v12, v13>>
  BY DEF Drawer!Confirm, Drawer!Target
<1>2. a.named = v2 \/ a.late
  BY <1>1 DEF Drawer!DrawerInv, Drawer!DialogIsOfSelected, Drawer!Dialog
<1>3. /\ h \in [act : Drawer!Actions, named : Accounts \cup {"none"}, on : Accounts \cup {"none"},
                late : BOOLEAN, stage : Drawer!Stages, n : Nat]
      /\ h.on = v2 /\ h.named = a.named /\ h.late = a.late /\ h.stage = "post"
  BY DEF Drawer!DrawerInv, Drawer!DrawerShape, Drawer!Stages
<1> HIDE DEF h
<1>6. Drawer!DrawerShape'
  BY <1>1, <1>3 DEF Drawer!DrawerInv, Drawer!DrawerShape, Drawer!Actions, Drawer!Stages
<1>7. Drawer!ActsOnWhomItNamed' /\ Drawer!DialogIsOfSelected'
  BY <1>1, <1>2, <1>3 DEF Drawer!DrawerInv, Drawer!ActsOnWhomItNamed,
         Drawer!DialogIsOfSelected, Drawer!Dialog
<1>8. (Drawer!FetchShape /\ Drawer!DetailShape /\ Drawer!FetchIsOfSelected
       /\ Drawer!OldIsFollowed /\ Drawer!DetailIsSelected)'
  BY <1>1 DEF Drawer!DrawerInv, Drawer!FetchShape, Drawer!DetailShape,
         Drawer!FetchIsOfSelected, Drawer!OldIsFollowed, Drawer!NewsAfter,
         Drawer!DetailIsSelected
<1> QED
  BY <1>6, <1>7, <1>8 DEF Drawer!DrawerInv

LEMMA DrawerActServed ==
  ASSUME Drawer!DrawerInv, NEW a \in v7, Drawer!ServeAct(a)
  PROVE  Drawer!DrawerInv'
<1> USE DEF Drawer!NoUser, Drawer!Nothing
<1> DEFINE h == [a EXCEPT !.stage = "done"]
           b == IF a.act = "logout" THEN v1[a.on].banned ELSE (a.act = "ban")
<1>1. /\ v1' = [v1 EXCEPT ![a.on].banned = b, ![a.on].ver = @ + 1]
      /\ a.stage = "post" /\ v7' = (v7 \ {a}) \cup {h}
      /\ UNCHANGED <<v2, v3, v4, v5, v6, v8, v9, v10, v11, v12, v13>>
  BY DEF Drawer!ServeAct
<1>2. /\ h \in [act : Drawer!Actions, named : Accounts \cup {"none"}, on : Accounts \cup {"none"},
                late : BOOLEAN, stage : Drawer!Stages, n : Nat]
      /\ h.on = a.on /\ h.named = a.named /\ h.late = a.late /\ h.stage = "done"
  BY DEF Drawer!DrawerInv, Drawer!DrawerShape, Drawer!Stages
<1> HIDE DEF h, b
<1>3. /\ DOMAIN v1' = Accounts
      /\ \A u \in Accounts : /\ DOMAIN v1'[u] = {"banned", "ver"} /\ v1'[u].ver \in Nat
                             /\ v1'[u].ver >= v1[u].ver
  <2>1. /\ DOMAIN v1 = Accounts
        /\ \A u \in Accounts : DOMAIN v1[u] = {"banned", "ver"} /\ v1[u].ver \in Nat
    BY DEF Drawer!DrawerInv, Drawer!DrawerShape
  <2> QED
    BY <1>1, <2>1
<1>4. Drawer!DrawerShape'
  BY <1>1, <1>2, <1>3 DEF Drawer!DrawerInv, Drawer!DrawerShape, Drawer!Actions,
         Drawer!Stages
<1>5. Drawer!DialogIsOfSelected' /\ Drawer!ActsOnWhomItNamed'
  BY <1>1, <1>2 DEF Drawer!DrawerInv, Drawer!ActsOnWhomItNamed, Drawer!DialogIsOfSelected,
         Drawer!Dialog
<1>6. (Drawer!FetchShape /\ Drawer!DetailShape /\ Drawer!FetchIsOfSelected
       /\ Drawer!OldIsFollowed /\ Drawer!DetailIsSelected)'
  BY <1>1 DEF Drawer!DrawerInv, Drawer!FetchShape, Drawer!DetailShape,
         Drawer!FetchIsOfSelected, Drawer!OldIsFollowed, Drawer!NewsAfter,
         Drawer!DetailIsSelected
<1> QED
  BY <1>4, <1>5, <1>6 DEF Drawer!DrawerInv

LEMMA DrawerActAnswered ==
  ASSUME Drawer!DrawerInv, NEW a \in v7, Drawer!ActAnswered(a)
  PROVE  Drawer!DrawerInv'
<1> USE DEF Drawer!NoUser, Drawer!Nothing
<1> DEFINE h == [a EXCEPT !.stage = "fetch", !.n = v8 + 1]
<1>1. /\ Drawer!Fetch(v2) /\ a.stage = "done" /\ v7' = (v7 \ {a}) \cup {h}
      /\ v13' = [v13 EXCEPT ![a.on] = v1[a.on].ver]
      /\ UNCHANGED <<v1, v2, v3, v9, v10, v11, v12>>
  BY DEF Drawer!ActAnswered, Drawer!Acted
<1>2. v2 \in Accounts \cup {"none"} /\ v10 \in Nat /\ v11 \in Nat /\ v11 <= v8 /\ v8 \in Nat
  BY DEF Drawer!DrawerInv, Drawer!DrawerShape
<1>3. /\ h \in [act : Drawer!Actions, named : Accounts \cup {"none"}, on : Accounts \cup {"none"},
                late : BOOLEAN, stage : Drawer!Stages, n : Nat]
      /\ h.on = a.on /\ h.named = a.named /\ h.late = a.late /\ h.stage = "fetch"
  <2>1. a \in [act : Drawer!Actions, named : Accounts \cup {"none"}, on : Accounts \cup {"none"},
               late : BOOLEAN, stage : Drawer!Stages, n : Nat]
    BY DEF Drawer!DrawerInv, Drawer!DrawerShape
  <2>2. v8 + 1 \in Nat /\ "fetch" \in Drawer!Stages
    BY <1>2 DEF Drawer!Stages
  <2> QED
    BY <2>1, <2>2
<1> HIDE DEF h
<1>4. /\ v8' = v8 + 1 /\ Drawer!FetchShape'
      /\ \A f \in v6' : f \in v6 \/ (f.n = v8 + 1 /\ f.of = v2)
  BY <1>1, <1>2, DrawerFetch
<1>5. Drawer!DrawerShape'
  <2>1. v13' \in [Accounts -> Nat] /\ \A u \in Accounts : v13'[u] <= v1[u].ver
    <3>1. /\ v13 \in [Accounts -> Nat]
          /\ \A u \in Accounts : v1[u].ver \in Nat /\ v13[u] <= v1[u].ver
      BY DEF Drawer!DrawerInv, Drawer!DrawerShape
    <3>2. \A u \in Accounts : v13'[u] = IF u = a.on THEN v1[u].ver ELSE v13[u]
      BY <1>1, <3>1
    <3>3. \A u \in Accounts : v13'[u] \in Nat /\ v13'[u] <= v1[u].ver
      BY <3>1, <3>2
    <3>4. v13' \in [Accounts -> Nat]
      BY <1>1, <3>1, <3>3
    <3> QED
      BY <3>3, <3>4
  <2>2. v8' \in Nat /\ v11 <= v8'
    BY <1>2, <1>4
  <2>3. Drawer!DrawerShape
    BY DEF Drawer!DrawerInv
  <2>4. v7' \subseteq [act : Drawer!Actions, named : Accounts \cup {"none"},
                      on : Accounts \cup {"none"}, late : BOOLEAN, stage : Drawer!Stages,
                      n : Nat]
    BY <1>1, <1>3, <2>3 DEF Drawer!DrawerShape
  <2> QED
    BY <1>1, <2>1, <2>2, <2>3, <2>4 DEF Drawer!DrawerShape, Drawer!Actions, Drawer!Stages
<1>6. Drawer!DialogIsOfSelected' /\ Drawer!ActsOnWhomItNamed'
  BY <1>1, <1>3 DEF Drawer!DrawerInv, Drawer!ActsOnWhomItNamed, Drawer!DialogIsOfSelected,
         Drawer!Dialog
<1>7. Drawer!OldIsFollowed'
  BY <1>1, <1>2, DrawerFollowed
<1>8. Drawer!FetchIsOfSelected'
  BY <1>1, <1>4 DEF Drawer!DrawerInv, Drawer!FetchIsOfSelected
<1>9. (Drawer!DetailShape /\ Drawer!DetailIsSelected)'
  BY <1>1 DEF Drawer!DrawerInv, Drawer!DetailShape, Drawer!DetailIsSelected
<1> QED
  BY <1>4, <1>5, <1>6, <1>7, <1>8, <1>9 DEF Drawer!DrawerInv

\* a dialog dismissed, or an action that failed
LEMMA DrawerActEnds ==
  ASSUME Drawer!DrawerInv, NEW a \in v7, Drawer!Dismiss(a) \/ Drawer!ActFailed(a)
  PROVE  Drawer!DrawerInv'
<1> USE DEF Drawer!NoUser, Drawer!Nothing
<1>1. v7' = v7 \ {a} /\ UNCHANGED <<v1, v2, v3, v4, v5, v6, v8, v9, v10, v11, v12, v13>>
  BY DEF Drawer!Dismiss, Drawer!ActFailed
<1>2. (Drawer!DrawerShape /\ Drawer!FetchShape /\ Drawer!DetailShape)'
  BY <1>1 DEF Drawer!DrawerInv, Drawer!DrawerShape, Drawer!FetchShape, Drawer!DetailShape,
         Drawer!Actions, Drawer!Stages
<1>3. (Drawer!FetchIsOfSelected /\ Drawer!OldIsFollowed /\ Drawer!DetailIsSelected)'
  BY <1>1 DEF Drawer!DrawerInv, Drawer!FetchIsOfSelected, Drawer!OldIsFollowed,
         Drawer!NewsAfter, Drawer!DetailIsSelected
<1>4. (Drawer!DialogIsOfSelected /\ Drawer!ActsOnWhomItNamed)'
  BY <1>1 DEF Drawer!DrawerInv, Drawer!DialogIsOfSelected, Drawer!Dialog,
         Drawer!ActsOnWhomItNamed
<1> QED
  BY <1>2, <1>3, <1>4 DEF Drawer!DrawerInv

LEMMA DrawerNext ==
  ASSUME Drawer!DrawerInv, [Drawer!Next]_(Drawer!drawerVars)
  PROVE  Drawer!DrawerInv'
<1>1. ASSUME NEW u \in Accounts, Drawer!openDrawer(u)
      PROVE  Drawer!DrawerInv'
  BY <1>1, DrawerOpened
<1>2. CASE Drawer!closeDrawer
  BY <1>2, DrawerClosed
<1>3. CASE Drawer!Retry
  BY <1>3, DrawerRetried
<1>4. ASSUME NEW k \in Drawer!Actions, Drawer!Ask(k)
      PROVE  Drawer!DrawerInv'
  BY <1>4, DrawerAsked
<1>5. ASSUME NEW f \in v6, Drawer!Serve(f) \/ Drawer!FetchAnswered(f) \/ Drawer!FetchFailed(f)
      PROVE  Drawer!DrawerInv'
  BY <1>5, DrawerServed, DrawerFetchAnswered, DrawerFetchFailed
<1>6. ASSUME NEW a \in v7,
             \/ Drawer!Dismiss(a) \/ Drawer!Confirm(a) \/ Drawer!ServeAct(a)
             \/ Drawer!ActAnswered(a) \/ Drawer!ActFailed(a)
      PROVE  Drawer!DrawerInv'
  BY <1>6, DrawerConfirmed, DrawerActServed, DrawerActAnswered, DrawerActEnds
<1>7. CASE UNCHANGED Drawer!drawerVars
  BY <1>7 DEF Drawer!drawerVars, Drawer!DrawerInv, Drawer!DrawerShape, Drawer!FetchShape,
         Drawer!DetailShape, Drawer!FetchIsOfSelected, Drawer!DialogIsOfSelected,
         Drawer!Dialog, Drawer!OldIsFollowed, Drawer!NewsAfter, Drawer!DetailIsSelected,
         Drawer!ActsOnWhomItNamed, Drawer!Actions, Drawer!Stages, Drawer!NoUser,
         Drawer!Nothing
<1> QED
  BY <1>1, <1>2, <1>3, <1>4, <1>5, <1>6, <1>7 DEF Drawer!Next

LEMMA DrawerHolds ==
  ASSUME Drawer!DrawerInv
  PROVE  Drawer!DetailIsSelected /\ Drawer!ActionsAreShown /\ Drawer!ActsOnWhomItNamed
<1>1. v6 = {} => ~Drawer!NewsAfter(v11)
  BY DEF Drawer!NewsAfter
<1>2. v3 # Drawer!Nothing => v3.ver \in Nat /\ v13[v3.of] \in Nat
  BY DEF Drawer!DrawerInv, Drawer!DrawerShape, Drawer!DetailShape
<1>3. Drawer!ActionsAreShown
  BY <1>1, <1>2 DEF Drawer!DrawerInv, Drawer!OldIsFollowed, Drawer!ActionsAreShown,
         Drawer!ShowsDetail
<1> QED
  BY <1>3 DEF Drawer!DrawerInv

-----------------------------------------------------------------------------
(* The object browser.  Here v1 signTarget; v2 signModalLoading; v3        *)
(* signResult; v4 signings; v5 asked; v6 since; v7 late.                   *)

LEMMA ObjectsInit == Objects!Init => Objects!BrowserInv
<1>1. Objects!Init => Objects!OneSigning /\ Objects!SigningIsOfTarget /\ Objects!ResultIsLast
  BY DEF Objects!Init, Objects!OneSigning, Objects!SigningIsOfTarget, Objects!ResultIsLast
<1>2. Objects!Init => Objects!Spins
  BY Zenon DEF Objects!Init, Objects!Spins
<1> QED
  BY <1>1, <1>2 DEF Objects!BrowserInv

LEMMA ObjectsOpen ==
  ASSUME Objects!BrowserInv, NEW o \in Files, Objects!Open(o)
  PROVE  Objects!BrowserInv'
<1>1. Objects!Spins'
  BY Zenon DEF Objects!BrowserInv, Objects!Spins, Objects!Open, Objects!openSignModal
<1>2. (Objects!OneSigning /\ Objects!SigningIsOfTarget /\ Objects!ResultIsLast)'
  BY DEF Objects!BrowserInv, Objects!OneSigning, Objects!SigningIsOfTarget,
         Objects!ResultIsLast, Objects!Open, Objects!openSignModal
<1> QED
  BY <1>1, <1>2 DEF Objects!BrowserInv

LEMMA ObjectsClose ==
  ASSUME Objects!BrowserInv, Objects!closeSignModal
  PROVE  Objects!BrowserInv'
<1>1. Objects!Spins'
  BY Zenon DEF Objects!BrowserInv, Objects!Spins, Objects!closeSignModal
<1>2. (Objects!OneSigning /\ Objects!SigningIsOfTarget /\ Objects!ResultIsLast)'
  BY DEF Objects!BrowserInv, Objects!OneSigning, Objects!SigningIsOfTarget,
         Objects!ResultIsLast, Objects!closeSignModal
<1> QED
  BY <1>1, <1>2 DEF Objects!BrowserInv

LEMMA ObjectsSign ==
  ASSUME Objects!BrowserInv, Objects!handleSign
  PROVE  Objects!BrowserInv'
<1>1. v4 = {} /\ v1 # Objects!NoObject
  BY Zenon DEF Objects!handleSign, Objects!CanSign, Objects!BrowserInv, Objects!Spins
<1>2. v4' = {[n |-> v5 + 1, of |-> v1]}
  BY <1>1 DEF Objects!handleSign
<1>3. /\ v5' = v5 + 1 /\ v3' = Objects!NoResult /\ v2' = TRUE
      /\ UNCHANGED <<v1, v6, v7>>
  BY Zenon DEF Objects!handleSign
<1>4. v5 \in Nat /\ v6 \in Nat
  BY DEF Objects!BrowserInv, Objects!OneSigning
<1>5. (Objects!OneSigning /\ Objects!SigningIsOfTarget /\ Objects!ResultIsLast)'
  BY <1>2, <1>3, <1>4 DEF Objects!OneSigning, Objects!SigningIsOfTarget,
         Objects!ResultIsLast
<1>6. v4' # {}
  BY <1>2
<1>7. Objects!Spins'
  BY <1>3, <1>6, Zenon DEF Objects!Spins
<1> QED
  BY <1>5, <1>7 DEF Objects!BrowserInv

\* The answer that was awaited was the only one.
LEMMA ObjectsAnswered ==
  ASSUME Objects!BrowserInv, NEW r \in v4, v4' = v4 \ {r}, v2' = FALSE
  PROVE  v4' = {} /\ v3 = Objects!NoResult /\ Objects!Spins'
<1>1. v4' = {} /\ v3 = Objects!NoResult
  BY DEF Objects!BrowserInv, Objects!OneSigning, Objects!ResultIsLast
<1> QED
  BY <1>1, Zenon DEF Objects!Spins

LEMMA ObjectsSigned ==
  ASSUME Objects!BrowserInv, NEW r \in v4, Objects!Signed(r)
  PROVE  Objects!BrowserInv'
<1>1. v4' = {} /\ Objects!Spins'
  BY ObjectsAnswered DEF Objects!Signed
<1>2. r.n = v5
  BY DEF Objects!BrowserInv, Objects!OneSigning
<1>3. v7' = (r.n <= v6)
  BY DEF Objects!Signed
<1>4. Objects!ResultIsLast'
  <2>1. v1' # Objects!NoObject => r.of = v1' \/ r.n <= v6
    BY DEF Objects!Signed, Objects!BrowserInv, Objects!SigningIsOfTarget
  <2>2. v1' # Objects!NoObject => r.of = v1' \/ v7'
    BY <2>1, <1>3, Zenon
  <2>3. v3' = r /\ v5' = v5
    BY DEF Objects!Signed
  <2> QED
    BY <1>1, <1>2, <2>2, <2>3, Zenon DEF Objects!ResultIsLast
<1>5. (Objects!OneSigning /\ Objects!SigningIsOfTarget)'
  BY <1>1 DEF Objects!Signed, Objects!BrowserInv, Objects!OneSigning,
         Objects!SigningIsOfTarget
<1> QED
  BY <1>1, <1>4, <1>5 DEF Objects!BrowserInv

LEMMA ObjectsFailed ==
  ASSUME Objects!BrowserInv, NEW r \in v4, Objects!SignFailed(r)
  PROVE  Objects!BrowserInv'
<1>1. v4' = {} /\ v3 = Objects!NoResult /\ Objects!Spins'
  BY ObjectsAnswered DEF Objects!SignFailed
<1>2. (Objects!OneSigning /\ Objects!SigningIsOfTarget /\ Objects!ResultIsLast)'
  BY <1>1 DEF Objects!SignFailed, Objects!BrowserInv, Objects!OneSigning,
         Objects!SigningIsOfTarget, Objects!ResultIsLast
<1> QED
  BY <1>1, <1>2 DEF Objects!BrowserInv

LEMMA ObjectsNext ==
  ASSUME Objects!BrowserInv, [Objects!Next]_(Objects!browserVars)
  PROVE  Objects!BrowserInv'
<1>1. CASE \E o \in Files : Objects!Open(o)
  BY <1>1, ObjectsOpen
<1>2. CASE Objects!closeSignModal
  BY <1>2, ObjectsClose
<1>3. CASE Objects!handleSign
  BY <1>3, ObjectsSign
<1>4. CASE \E r \in v4 : Objects!Signed(r) \/ Objects!SignFailed(r)
  BY <1>4, ObjectsSigned, ObjectsFailed
<1>5. CASE UNCHANGED Objects!browserVars
  BY <1>5, Zenon DEF Objects!BrowserInv, Objects!OneSigning, Objects!Spins,
         Objects!SigningIsOfTarget, Objects!ResultIsLast, Objects!browserVars
<1> QED
  BY <1>1, <1>2, <1>3, <1>4, <1>5 DEF Objects!Next

LEMMA ObjectsHold == Objects!BrowserInv => Objects!UrlIsTheLastAsked
BY Zenon DEF Objects!BrowserInv, Objects!Spins, Objects!ResultIsLast,
       Objects!UrlIsTheLastAsked, Objects!ShowsResult

-----------------------------------------------------------------------------
(* The email templates.  Here v1 stored; v2 templates; v3 requests; v4     *)
(* asked; v5 loading; v6 error; v7 selected; v8 editing; v9 save; v10      *)
(* edits; v11 crossed; v12 unsure.                                         *)

LEMMA EditorInit == Editor!Init => Editor!EditorInv
<1> SUFFICES ASSUME Editor!Init
             PROVE  Editor!EditorInv
  OBVIOUS
<1> USE DEF Editor!Own, Editor!NoList, Editor!NoText, Editor!NoName, Editor!Nobody, Editor!NotSaving
<1>1. Editor!EditorShape
  <2>1. v1 = Editor!Own /\ v2 = Editor!NoList /\ v3 = {[n |-> 1, got |-> Editor!NoList]}
    BY DEF Editor!Init
  <2>2. v8 = Editor!NoText /\ v10 = 0 /\ v7 = Editor!Nobody /\ v9 = Editor!NotSaving
    BY DEF Editor!Init
  <2> QED
    BY <2>1, <2>2 DEF Editor!EditorShape, Editor!Texts
<1>2. Editor!OneRequest /\ Editor!SavesAlone
  BY DEF Editor!Init, Editor!OneRequest, Editor!SavesAlone
<1>3. Editor!SelectedIsStored /\ Editor!DraftIsOfTemplate
  BY DEF Editor!Init, Editor!SelectedIsStored, Editor!DraftIsOfTemplate
<1> HIDE DEF Editor!Own, Editor!NoList
<1>4. Editor!ListIsStored
  <2>1. v3 = {[n |-> 1, got |-> Editor!NoList]}
    BY DEF Editor!Init
  <2>2. v3 # {} /\ \A r \in v3 : r.got = Editor!NoList
    BY <2>1
  <2> QED
    BY <2>2 DEF Editor!ListIsStored
<1> QED
  BY <1>1, <1>2, <1>3, <1>4 DEF Editor!EditorInv

\* a request for the list, when there is none
LEMMA EditorRefreshed ==
  ASSUME Editor!EditorInv, Editor!Refresh, v3 = {}
  PROVE  /\ \E r : v3' = {r} /\ r = [n |-> r.n, got |-> Editor!NoList]
         /\ \A r, s \in v3' : r = s
         /\ v3' # {} /\ v5' = TRUE /\ v6' = FALSE
<1> DEFINE r == [n |-> v4 + 1, got |-> Editor!NoList]
<1>1. v3' = {r} /\ v5' = TRUE /\ v6' = FALSE
  BY DEF Editor!Refresh
<1>2. r = [n |-> r.n, got |-> Editor!NoList]
  OBVIOUS
<1> HIDE DEF r
<1>3. v3' # {} /\ \A x, y \in v3' : x = y
  BY <1>1
<1> QED
  BY <1>1, <1>2, <1>3, Zenon

LEMMA EditorRetried ==
  ASSUME Editor!EditorInv, Editor!Retry
  PROVE  Editor!EditorInv'
<1> USE DEF Editor!NoText, Editor!NoList, Editor!NoName, Editor!Nobody
<1>1. v3 = {} /\ Editor!Refresh /\ UNCHANGED <<v1, v2, Editor!editor, v9, v12>> /\ v6
  BY DEF Editor!Retry, Editor!EditorInv, Editor!OneRequest
<1>2. PICK r : v3' = {r} /\ r = [n |-> r.n, got |-> Editor!NoList]
  BY <1>1, EditorRefreshed
<1>3. v3' # {} /\ v5' = TRUE /\ v6' = FALSE /\ \A x, y \in v3' : x = y
  BY <1>1, EditorRefreshed
<1>4. Editor!NoList \in [Templates -> Editor!Texts]
  BY DEF Editor!Texts
<1>5. Editor!EditorShape'
  BY <1>1, <1>2, <1>4 DEF Editor!EditorInv, Editor!EditorShape, Editor!editor, Editor!Texts
<1>6. Editor!OneRequest' /\ Editor!SavesAlone'
  BY <1>1, <1>3 DEF Editor!EditorInv, Editor!OneRequest, Editor!SavesAlone
<1>7. Editor!ListIsStored' /\ Editor!SelectedIsStored' /\ Editor!DraftIsOfTemplate'
  BY <1>1, <1>2, <1>3 DEF Editor!EditorInv, Editor!ListIsStored, Editor!SelectedIsStored,
         Editor!DraftIsOfTemplate, Editor!editor
<1> QED
  BY <1>5, <1>6, <1>7 DEF Editor!EditorInv

LEMMA EditorServed ==
  ASSUME Editor!EditorInv, NEW r \in v3, Editor!Serve(r)
  PROVE  Editor!EditorInv'
<1> USE DEF Editor!NoText, Editor!NoList, Editor!NoName, Editor!Nobody
<1> DEFINE s == [r EXCEPT !.got = v1]
<1>1. /\ v3' = (v3 \ {r}) \cup {s}
      /\ UNCHANGED <<v1, v2, v4, v5, v6, Editor!editor, v9, v12>>
  BY DEF Editor!Serve
<1>2. s = [n |-> r.n, got |-> v1] /\ v1 \in [Templates -> Editor!Texts]
  BY DEF Editor!EditorInv, Editor!EditorShape
<1>3. v3' = {s}
  BY <1>1 DEF Editor!EditorInv, Editor!OneRequest
<1> HIDE DEF s
<1>4. Editor!EditorShape'
  BY <1>1, <1>2, <1>3 DEF Editor!EditorInv, Editor!EditorShape, Editor!editor, Editor!Texts
<1>5. Editor!OneRequest' /\ Editor!SavesAlone'
  BY <1>1, <1>3 DEF Editor!EditorInv, Editor!OneRequest, Editor!SavesAlone
<1>6. Editor!ListIsStored' /\ Editor!SelectedIsStored' /\ Editor!DraftIsOfTemplate'
  BY <1>1, <1>2, <1>3 DEF Editor!EditorInv, Editor!ListIsStored, Editor!SelectedIsStored,
         Editor!DraftIsOfTemplate, Editor!editor
<1> QED
  BY <1>4, <1>5, <1>6 DEF Editor!EditorInv

LEMMA EditorAnswered ==
  ASSUME Editor!EditorInv, NEW r \in v3, Editor!Answer(r) \/ Editor!Fail(r)
  PROVE  Editor!EditorInv'
<1> USE DEF Editor!NoText, Editor!NoList, Editor!NoName, Editor!Nobody, Editor!NotSaving
<1>1. /\ v3' = {} /\ v5' = FALSE /\ r.got \in [Templates -> Editor!Texts]
      /\ UNCHANGED <<v1, Editor!editor, v12>>
      /\ \/ v2' = r.got /\ r.got = v1 /\ v6' = v6
         \/ v2' = v2 /\ v6' = TRUE
  BY DEF Editor!Answer, Editor!Fail, Editor!EditorInv, Editor!EditorShape,
         Editor!OneRequest, Editor!ListIsStored
<1>2. /\ v9' = IF v9.stage = "refresh" THEN Editor!NotSaving ELSE v9
      /\ v9.stage \in {"no", "refresh"}
  BY DEF Editor!Answer, Editor!Fail, Editor!SaveEnds, Editor!EditorInv, Editor!EditorShape,
         Editor!SavesAlone
<1>3. v9'.stage = "no"
  BY <1>2
<1>4. Editor!EditorShape'
  BY <1>1, <1>3 DEF Editor!EditorInv, Editor!EditorShape, Editor!editor, Editor!Texts
<1>5. Editor!OneRequest' /\ Editor!SavesAlone'
  BY <1>1, <1>3 DEF Editor!OneRequest, Editor!SavesAlone
<1>6. Editor!ListIsStored' /\ Editor!SelectedIsStored' /\ Editor!DraftIsOfTemplate'
  BY <1>1, <1>2, <1>3 DEF Editor!EditorInv, Editor!ListIsStored, Editor!SelectedIsStored,
         Editor!DraftIsOfTemplate, Editor!editor
<1> QED
  BY <1>4, <1>5, <1>6 DEF Editor!EditorInv

LEMMA EditorSelected ==
  ASSUME Editor!EditorInv, NEW t \in Templates, Editor!Select(t)
  PROVE  Editor!EditorInv'
<1> USE DEF Editor!NoText, Editor!NoList, Editor!NoName, Editor!Nobody
<1>1. /\ v7' = [name |-> t, text |-> v2[t]] /\ v8' = v2[t]
      /\ UNCHANGED <<v1, Editor!listState, v9, v10, v12>>
      /\ v3 = {} /\ ~v6
  BY DEF Editor!Select, Editor!selectTemplate, Editor!Usable, Editor!Shown,
         Editor!EditorInv, Editor!OneRequest
<1>2. v2[t] \in Editor!Texts
  BY DEF Editor!EditorInv, Editor!EditorShape
<1>3. Editor!EditorShape'
  BY <1>1, <1>2 DEF Editor!EditorInv, Editor!EditorShape, Editor!listState, Editor!Texts
<1>4. Editor!OneRequest' /\ Editor!SavesAlone' /\ Editor!ListIsStored'
  BY <1>1 DEF Editor!EditorInv, Editor!OneRequest, Editor!SavesAlone, Editor!ListIsStored,
         Editor!listState
<1>5. Editor!SelectedIsStored' /\ Editor!DraftIsOfTemplate'
  BY <1>1 DEF Editor!EditorInv, Editor!SelectedIsStored, Editor!DraftIsOfTemplate,
         Editor!ListIsStored
<1> QED
  BY <1>3, <1>4, <1>5 DEF Editor!EditorInv

LEMMA EditorDeselected ==
  ASSUME Editor!EditorInv, Editor!deselect
  PROVE  Editor!EditorInv'
<1> USE DEF Editor!NoText, Editor!NoList, Editor!NoName, Editor!Nobody
<1>1. /\ v7' = Editor!Nobody
      /\ UNCHANGED <<v1, Editor!listState, v8, v9, v10, v11, v12>>
  BY DEF Editor!deselect
<1>2. Editor!EditorShape'
  BY <1>1 DEF Editor!EditorInv, Editor!EditorShape, Editor!listState, Editor!Texts
<1>3. Editor!OneRequest' /\ Editor!SavesAlone' /\ Editor!ListIsStored'
  BY <1>1 DEF Editor!EditorInv, Editor!OneRequest, Editor!SavesAlone, Editor!ListIsStored,
         Editor!listState
<1>4. Editor!SelectedIsStored' /\ Editor!DraftIsOfTemplate'
  BY <1>1 DEF Editor!EditorInv, Editor!SelectedIsStored, Editor!DraftIsOfTemplate
<1> QED
  BY <1>2, <1>3, <1>4 DEF Editor!EditorInv

LEMMA EditorEdited ==
  ASSUME Editor!EditorInv, Editor!Edit
  PROVE  Editor!EditorInv'
<1> USE DEF Editor!NoText, Editor!NoList, Editor!NoName, Editor!Nobody
<1>1. /\ v10' = v10 + 1 /\ v8' = [v8 EXCEPT !.v = v10 + 1]
      /\ UNCHANGED <<v1, Editor!listState, v7, v9, v11, v12>>
  BY DEF Editor!Edit
<1>2. v8' \in Editor!Texts /\ v10' \in Nat /\ v8'.of = v8.of
  BY <1>1 DEF Editor!EditorInv, Editor!EditorShape, Editor!Texts
<1>3. Editor!EditorShape'
  BY <1>1, <1>2 DEF Editor!EditorInv, Editor!EditorShape, Editor!listState, Editor!Texts
<1>4. Editor!OneRequest' /\ Editor!SavesAlone' /\ Editor!ListIsStored'
  BY <1>1 DEF Editor!EditorInv, Editor!OneRequest, Editor!SavesAlone, Editor!ListIsStored,
         Editor!listState
<1>5. Editor!SelectedIsStored' /\ Editor!DraftIsOfTemplate'
  BY <1>1, <1>2 DEF Editor!EditorInv, Editor!SelectedIsStored, Editor!DraftIsOfTemplate
<1> QED
  BY <1>3, <1>4, <1>5 DEF Editor!EditorInv

LEMMA EditorSaves ==
  ASSUME Editor!EditorInv, Editor!Save
  PROVE  Editor!EditorInv'
<1> USE DEF Editor!NoText, Editor!NoList, Editor!NoName, Editor!Nobody
<1>1. /\ v9' = [stage |-> "put", name |-> v7.name, text |-> v8]
      /\ UNCHANGED <<v1, Editor!listState, Editor!editor, v12>>
      /\ v7 # Editor!Nobody /\ v3 = {} /\ ~v6 /\ v9.stage = "no"
  BY DEF Editor!Save, Editor!hasChanges, Editor!saving, Editor!Usable, Editor!Shown,
         Editor!EditorInv, Editor!OneRequest
<1>2. v7.name \in Templates /\ v8 \in Editor!Texts
  BY <1>1 DEF Editor!EditorInv, Editor!EditorShape
<1>3. Editor!EditorShape'
  BY <1>1, <1>2 DEF Editor!EditorInv, Editor!EditorShape, Editor!listState, Editor!editor,
         Editor!Texts
<1>4. Editor!OneRequest' /\ Editor!SavesAlone' /\ Editor!ListIsStored'
  BY <1>1 DEF Editor!EditorInv, Editor!OneRequest, Editor!SavesAlone, Editor!ListIsStored,
         Editor!listState
<1>5. Editor!SelectedIsStored' /\ Editor!DraftIsOfTemplate'
  BY <1>1 DEF Editor!EditorInv, Editor!SelectedIsStored, Editor!DraftIsOfTemplate,
         Editor!editor
<1> QED
  BY <1>3, <1>4, <1>5 DEF Editor!EditorInv

LEMMA EditorSaveServed ==
  ASSUME Editor!EditorInv, Editor!ServeSave
  PROVE  Editor!EditorInv'
<1> USE DEF Editor!NoText, Editor!NoList, Editor!NoName, Editor!Nobody
<1>1. /\ v1' = [v1 EXCEPT ![v9.name] = v9.text]
      /\ v9.stage = "put" /\ v9' = [v9 EXCEPT !.stage = "done"]
      /\ UNCHANGED <<Editor!listState, Editor!editor, v12>>
      /\ v3 = {} /\ ~v6
  BY DEF Editor!ServeSave, Editor!EditorInv, Editor!SavesAlone
<1>2. /\ v9.name \in Templates /\ v9.text \in Editor!Texts
      /\ v9'.stage = "done" /\ v9'.name = v9.name /\ v9'.text = v9.text
  BY <1>1 DEF Editor!EditorInv, Editor!EditorShape
<1>3. v1' \in [Templates -> Editor!Texts] /\ v1'[v9.name] = v9.text
  BY <1>1, <1>2 DEF Editor!EditorInv, Editor!EditorShape
<1>4. Editor!EditorShape'
  BY <1>1, <1>2, <1>3 DEF Editor!EditorInv, Editor!EditorShape, Editor!listState,
         Editor!editor, Editor!Texts
<1>5. Editor!OneRequest' /\ Editor!SavesAlone' /\ Editor!ListIsStored'
  BY <1>1, <1>2 DEF Editor!EditorInv, Editor!OneRequest, Editor!SavesAlone,
         Editor!ListIsStored, Editor!listState
<1>6. Editor!SelectedIsStored' /\ Editor!DraftIsOfTemplate'
  BY <1>1, <1>2, <1>3 DEF Editor!EditorInv, Editor!SelectedIsStored,
         Editor!DraftIsOfTemplate, Editor!editor
<1> QED
  BY <1>4, <1>5, <1>6 DEF Editor!EditorInv

LEMMA EditorSaved ==
  ASSUME Editor!EditorInv, Editor!Saved
  PROVE  Editor!EditorInv'
<1> USE DEF Editor!NoText, Editor!NoList, Editor!NoName, Editor!Nobody
<1>1. /\ v9.stage = "done" /\ v9' = [v9 EXCEPT !.stage = "refresh"]
      /\ Editor!Refresh /\ v3 = {}
      /\ v7' = [name |-> v9.name, text |-> v9.text]
      /\ UNCHANGED <<v1, v2, v8, v10, v12>>
  BY DEF Editor!Saved, Editor!Listed, Editor!EditorInv, Editor!SavesAlone
<1>2. v11' = (v11 \/ (v8.of # v9.text.of))
  BY DEF Editor!Saved
<1>3. PICK r : v3' = {r} /\ r = [n |-> r.n, got |-> Editor!NoList]
  BY <1>1, EditorRefreshed
<1>4. v3' # {} /\ v5' = TRUE /\ v6' = FALSE /\ \A x, y \in v3' : x = y
  BY <1>1, EditorRefreshed
<1>5. /\ v9.name \in Templates /\ v9.text \in Editor!Texts /\ v1[v9.name] = v9.text
      /\ v9'.stage = "refresh" /\ v9'.name = v9.name /\ v9'.text = v9.text
  BY <1>1 DEF Editor!EditorInv, Editor!EditorShape, Editor!SelectedIsStored
<1>6. Editor!NoList \in [Templates -> Editor!Texts]
  BY DEF Editor!Texts
<1>7. Editor!EditorShape'
  BY <1>1, <1>3, <1>5, <1>6 DEF Editor!EditorInv, Editor!EditorShape, Editor!Texts
<1>8. Editor!OneRequest' /\ Editor!SavesAlone' /\ Editor!ListIsStored' /\ Editor!SelectedIsStored'
  BY <1>1, <1>3, <1>4, <1>5 DEF Editor!OneRequest, Editor!SavesAlone, Editor!ListIsStored,
         Editor!SelectedIsStored
<1>9. Editor!DraftIsOfTemplate'
  BY <1>1, <1>2 DEF Editor!DraftIsOfTemplate
<1> QED
  BY <1>7, <1>8, <1>9 DEF Editor!EditorInv

LEMMA EditorSaveFailed ==
  ASSUME Editor!EditorInv, Editor!SaveFailed
  PROVE  Editor!EditorInv'
<1> USE DEF Editor!NoText, Editor!NoList, Editor!NoName, Editor!Nobody, Editor!NotSaving
<1>1. /\ v9'.stage = "no" /\ v9.stage \in {"put", "done"}
      /\ UNCHANGED <<v1, Editor!listState, Editor!editor>>
  BY DEF Editor!SaveFailed
<1>2. ~v12' => ~v12 /\ v9.stage = "put"
  BY DEF Editor!SaveFailed
<1>3. Editor!EditorShape'
  BY <1>1 DEF Editor!EditorInv, Editor!EditorShape, Editor!listState, Editor!editor,
         Editor!Texts
<1>4. Editor!OneRequest' /\ Editor!SavesAlone' /\ Editor!ListIsStored'
  BY <1>1, <1>2 DEF Editor!EditorInv, Editor!OneRequest, Editor!SavesAlone,
         Editor!ListIsStored, Editor!listState
<1>5. Editor!SelectedIsStored' /\ Editor!DraftIsOfTemplate'
  BY <1>1, <1>2 DEF Editor!EditorInv, Editor!SelectedIsStored, Editor!DraftIsOfTemplate,
         Editor!editor
<1> QED
  BY <1>3, <1>4, <1>5 DEF Editor!EditorInv

LEMMA EditorNext ==
  ASSUME Editor!EditorInv, [Editor!Next]_(Editor!editorVars)
  PROVE  Editor!EditorInv'
<1>1. CASE Editor!Retry
  BY <1>1, EditorRetried
<1>2. ASSUME NEW r \in v3, Editor!Serve(r) \/ Editor!Answer(r) \/ Editor!Fail(r)
      PROVE  Editor!EditorInv'
  BY <1>2, EditorServed, EditorAnswered
<1>3. ASSUME NEW t \in Templates, Editor!Select(t)
      PROVE  Editor!EditorInv'
  BY <1>3, EditorSelected
<1>4. CASE Editor!deselect \/ Editor!Edit
  BY <1>4, EditorDeselected, EditorEdited
<1>5. CASE Editor!Save \/ Editor!ServeSave \/ Editor!Saved \/ Editor!SaveFailed
  BY <1>5, EditorSaves, EditorSaveServed, EditorSaved, EditorSaveFailed
<1>6. CASE UNCHANGED Editor!editorVars
  BY <1>6 DEF Editor!editorVars, Editor!EditorInv, Editor!EditorShape, Editor!OneRequest,
         Editor!SavesAlone, Editor!ListIsStored, Editor!SelectedIsStored,
         Editor!DraftIsOfTemplate, Editor!Texts, Editor!NoText, Editor!NoList,
         Editor!NoName, Editor!Nobody
<1> QED
  BY <1>1, <1>2, <1>3, <1>4, <1>5, <1>6 DEF Editor!Next

LEMMA EditorHolds == Editor!EditorInv => Editor!DraftIsOfTemplate /\ Editor!NothingToSave
<1>1. Editor!EditorInv => Editor!NothingToSave
  BY DEF Editor!EditorInv, Editor!SelectedIsStored, Editor!NothingToSave, Editor!saving,
         Editor!hasChanges
<1> QED
  BY <1>1 DEF Editor!EditorInv

-----------------------------------------------------------------------------
(* The edge functions.  Here v1 routeName; v2 routes; v3 method; v4        *)
(* running; v5 response; v6 runError; v7 calls; v8 ran; v9 jumps; v10      *)
(* turned.                                                                 *)

LEMMA InvokeInit == Invoke!Init => Invoke!InvokeInv
<1> SUFFICES ASSUME Invoke!Init
             PROVE  Invoke!InvokeInv
  OBVIOUS
<1>1. Invoke!ResponseIsOfTheRun /\ Invoke!MethodIsAllowed
  BY DEF Invoke!Init, Invoke!ResponseIsOfTheRun, Invoke!MethodIsAllowed,
         Invoke!selectedRoute, Invoke!NoResponse
<1> QED
  BY <1>1 DEF Invoke!Init, Invoke!InvokeInv

\* the watcher leaves a method that the function takes
LEMMA InvokeAllowed ==
  ASSUME NEW name, NEW list, Invoke!selectedRoute(name, list), MethodsOf[name] # <<>>
  PROVE  \E i \in DOMAIN MethodsOf[name] : MethodsOf[name][i] = Invoke!Allowed(name, list)
<1>1. CASE \A i \in DOMAIN MethodsOf[name] : MethodsOf[name][i] # v3
  <2>1. MethodsOf[name] \in Seq(STRING)
    BY ConsoleAssumption DEF Invoke!InvokeAssumption, Invoke!selectedRoute
  <2>2. 1 \in DOMAIN MethodsOf[name]
    BY <2>1
  <2> QED
    BY <1>1, <2>2 DEF Invoke!Allowed
<1>2. CASE \E i \in DOMAIN MethodsOf[name] : MethodsOf[name][i] = v3
  BY <1>2 DEF Invoke!Allowed
<1> QED
  BY <1>1, <1>2

LEMMA InvokeListed ==
  ASSUME Invoke!InvokeInv, Invoke!RoutesAnswered
  PROVE  Invoke!InvokeInv'
<1>1. PICK list : v2' = list /\ v3' = Invoke!Allowed(v1, list)
  BY DEF Invoke!RoutesAnswered
<1>2. UNCHANGED <<v1, v4, v5, v6, v7, v8, v9, v10>>
  BY DEF Invoke!RoutesAnswered
<1>3. Invoke!MethodIsAllowed'
  BY <1>1, <1>2, InvokeAllowed DEF Invoke!MethodIsAllowed, Invoke!selectedRoute
<1> QED
  BY <1>2, <1>3 DEF Invoke!InvokeInv, Invoke!ResponseIsOfTheRun, Invoke!NoResponse

LEMMA InvokeJumped ==
  ASSUME Invoke!InvokeInv, NEW name \in EdgeFunctions, Invoke!Jump(name)
  PROVE  Invoke!InvokeInv'
<1>1. /\ v1' = name /\ v3' = Invoke!Allowed(name, v2) /\ v10' = TRUE
      /\ UNCHANGED <<v2, v4, v5, v6, v7, v8>>
  BY DEF Invoke!Jump
<1>2. Invoke!MethodIsAllowed'
  BY <1>1, InvokeAllowed DEF Invoke!MethodIsAllowed, Invoke!selectedRoute
<1> QED
  BY <1>1, <1>2 DEF Invoke!InvokeInv, Invoke!ResponseIsOfTheRun, Invoke!NoResponse

LEMMA InvokeChosen ==
  ASSUME Invoke!InvokeInv, NEW m, Invoke!ChooseMethod(m)
  PROVE  Invoke!InvokeInv'
<1>1. /\ \E i \in DOMAIN MethodsOf[v1] : MethodsOf[v1][i] = v3'
      /\ UNCHANGED <<v1, v2, v4, v5, v6, v7, v8, v9, v10>>
  BY DEF Invoke!ChooseMethod
<1> QED
  BY <1>1 DEF Invoke!InvokeInv, Invoke!ResponseIsOfTheRun, Invoke!MethodIsAllowed,
         Invoke!selectedRoute, Invoke!NoResponse

LEMMA InvokeRan ==
  ASSUME Invoke!InvokeInv, NEW valid \in BOOLEAN, Invoke!run(valid)
  PROVE  Invoke!InvokeInv'
<1>1. /\ v8' = v8 + 1 /\ v10' = FALSE /\ v7 = {} /\ v5' = Invoke!NoResponse
      /\ UNCHANGED <<v1, v2, v3, v9>>
      /\ \/ /\ v4' = TRUE /\ v6' = FALSE
            /\ v7' = {[n |-> v8 + 1, of |-> v1]}
         \/ UNCHANGED <<v4, v7>>
  BY DEF Invoke!run, Invoke!Cleared, Invoke!InvokeInv
<1>2. v8 \in Nat
  BY DEF Invoke!InvokeInv
<1>3. Invoke!MethodIsAllowed' /\ Invoke!ResponseIsOfTheRun'
  BY <1>1 DEF Invoke!InvokeInv, Invoke!MethodIsAllowed, Invoke!selectedRoute,
         Invoke!ResponseIsOfTheRun, Invoke!NoResponse
<1> QED
  BY <1>1, <1>2, <1>3 DEF Invoke!InvokeInv, Invoke!NoResponse

LEMMA InvokeAnswered ==
  ASSUME Invoke!InvokeInv, NEW c \in v7, Invoke!Answered(c) \/ Invoke!Failed(c)
  PROVE  Invoke!InvokeInv'
<1>1. /\ v4' = FALSE /\ v7' = {} /\ v5 = Invoke!NoResponse
      /\ UNCHANGED <<v1, v2, v3, v8, v9, v10>>
      /\ \/ v5' = c /\ ~v6'
         \/ v5' = Invoke!NoResponse
  BY DEF Invoke!Answered, Invoke!Failed, Invoke!InvokeInv
<1>2. v8 \in Nat /\ c.n = v8 /\ (c.of = v1 \/ v10)
  BY DEF Invoke!InvokeInv
<1>3. Invoke!MethodIsAllowed' /\ Invoke!ResponseIsOfTheRun'
  BY <1>1, <1>2 DEF Invoke!InvokeInv, Invoke!MethodIsAllowed, Invoke!selectedRoute,
         Invoke!ResponseIsOfTheRun, Invoke!NoResponse
<1> QED
  BY <1>1, <1>2, <1>3 DEF Invoke!InvokeInv, Invoke!NoResponse

LEMMA InvokeNext ==
  ASSUME Invoke!InvokeInv, [Invoke!Next]_(Invoke!invokeVars)
  PROVE  Invoke!InvokeInv'
<1>1. CASE Invoke!RoutesAnswered
  BY <1>1, InvokeListed
<1>2. ASSUME NEW name \in EdgeFunctions, Invoke!Jump(name)
      PROVE  Invoke!InvokeInv'
  BY <1>2, InvokeJumped
<1>3. ASSUME NEW m \in {"GET", "POST", "PUT"}, Invoke!ChooseMethod(m)
      PROVE  Invoke!InvokeInv'
  BY <1>3, InvokeChosen
<1>4. ASSUME NEW valid \in BOOLEAN, Invoke!run(valid)
      PROVE  Invoke!InvokeInv'
  BY <1>4, InvokeRan
<1>5. ASSUME NEW c \in v7, Invoke!Answered(c) \/ Invoke!Failed(c)
      PROVE  Invoke!InvokeInv'
  BY <1>5, InvokeAnswered
<1>6. CASE UNCHANGED Invoke!invokeVars
  BY <1>6 DEF Invoke!invokeVars, Invoke!InvokeInv, Invoke!ResponseIsOfTheRun,
         Invoke!MethodIsAllowed, Invoke!selectedRoute, Invoke!NoResponse
<1> QED
  BY <1>1, <1>2, <1>3, <1>4, <1>5, <1>6 DEF Invoke!Next

LEMMA InvokeHolds == Invoke!InvokeInv => Invoke!ResponseIsOfTheRun /\ Invoke!MethodIsAllowed
BY DEF Invoke!InvokeInv

-----------------------------------------------------------------------------
(* The rows of a table.  Here v1 preview; v2 table; v3 opened; v4          *)
(* requests; v5 shown; v6 error; v7 asked; v8 newest; v9 late.             *)

LEMMA PreviewInit == Preview!Init => Preview!PreviewInv
BY DEF Preview!Init, Preview!PreviewInv, Preview!PreviewShape, Preview!LastIsCurrent,
       Preview!LastIsFollowed, Preview!NothingIsAsked, Preview!NoRows, Preview!Nowhere,
       Preview!ServiceRole

\* the page on a table, with a role in the switcher, and what it was opened
\* on: it asks for that, or for nothing
LEMMA PreviewLoaded ==
  ASSUME Preview!PreviewInv, NEW t, NEW held, NEW before \in {{}, v4},
         Preview!Load(t, v1', held, before), v2' = t, v3' = held,
         \/ UNCHANGED <<v5, v8, v9>> /\ held = v3 /\ v2 # Preview!Nowhere
         \/ v5' = Preview!NoRows /\ v8' = v7 /\ before = {}
  PROVE  Preview!PreviewInv'
<1> USE DEF Preview!NoRows, Preview!Nowhere, Preview!ServiceRole
<1>1. Preview!PreviewShape
  BY DEF Preview!PreviewInv
<1>2. CASE Preview!needsSub(held)
  <2>1. v4' = before /\ v7' = v7
    BY <1>2 DEF Preview!Load
  <2>2. Preview!PreviewShape'
    BY <1>1, <2>1 DEF Preview!PreviewShape
  <2>3. v4' = {} /\ v5' = Preview!NoRows
    BY <1>2, <2>1 DEF Preview!PreviewInv, Preview!NothingIsAsked, Preview!needsSub
  <2>4. Preview!needsSub(v3)'
    BY <1>2 DEF Preview!needsSub
  <2> QED
    BY <2>2, <2>3, <2>4 DEF Preview!PreviewInv, Preview!LastIsCurrent,
           Preview!LastIsFollowed, Preview!NothingIsAsked
<1>3. CASE ~Preview!needsSub(held)
  <2> DEFINE q == [n |-> v7 + 1, as |-> v1', of |-> t]
  <2>1. v4' = before \cup {q} /\ v7' = v7 + 1
    BY <1>3 DEF Preview!Load, Preview!Sent
  <2>2. v7 \in Nat /\ v7' \in Nat /\ v7 < v7' /\ 0 < v7'
    BY <1>1, <2>1 DEF Preview!PreviewShape
  <2>3. q.n = v7' /\ q.as = v1' /\ q.of = v2'
    BY <2>1
  <2> HIDE DEF q
  <2>4. \A r \in before : r.n \in Nat /\ r.n < v7'
    BY <1>1, <2>1 DEF Preview!PreviewShape
  <2>5. /\ v8' \in Nat /\ v8' < v7'
        /\ v5'.n \in Nat /\ v5'.n < v7'
    BY <1>1, <2>1, <2>2 DEF Preview!PreviewShape
  <2>6. Preview!PreviewShape'
    BY <2>1, <2>2, <2>3, <2>4, <2>5 DEF Preview!PreviewShape
  <2>7. Preview!LastIsCurrent'
    BY <2>1, <2>2, <2>3, <2>4, <2>5 DEF Preview!LastIsCurrent
  <2>8. Preview!LastIsFollowed'
    BY <2>1, <2>2, <2>3, <2>5 DEF Preview!LastIsFollowed
  <2>9. ~Preview!needsSub(v3)'
    BY <1>3 DEF Preview!needsSub
  <2> QED
    BY <2>6, <2>7, <2>8, <2>9 DEF Preview!PreviewInv, Preview!NothingIsAsked
<1> QED
  BY <1>2, <1>3

LEMMA PreviewOpened ==
  ASSUME Preview!PreviewInv, NEW t \in Tables, Preview!Open(t)
  PROVE  Preview!PreviewInv'
<1>1. /\ v2' = t /\ v3' = v1 /\ v1' = v1
      /\ Preview!Load(t, v1, v1, {}) /\ v5' = Preview!NoRows /\ v8' = v7
  BY DEF Preview!Open
<1> QED
  BY <1>1, PreviewLoaded

LEMMA PreviewLeft ==
  ASSUME Preview!PreviewInv, Preview!Leave
  PROVE  Preview!PreviewInv'
BY DEF Preview!Leave, Preview!PreviewInv, Preview!PreviewShape, Preview!LastIsCurrent,
       Preview!LastIsFollowed, Preview!NothingIsAsked, Preview!NoRows, Preview!Nowhere,
       Preview!ServiceRole

LEMMA PreviewJumped ==
  ASSUME Preview!PreviewInv, NEW t \in Tables, Preview!Jump(t)
  PROVE  Preview!PreviewInv'
<1>1. /\ v2' = t /\ Preview!Load(t, v1', v3, v4) /\ v2 # Preview!Nowhere
      /\ UNCHANGED <<v1, v3, v5, v8, v9>>
  BY DEF Preview!Jump
<1> QED
  BY <1>1, PreviewLoaded

LEMMA PreviewRefreshed ==
  ASSUME Preview!PreviewInv, Preview!RefreshAgain
  PROVE  Preview!PreviewInv'
<1>1. /\ v2 # Preview!Nowhere /\ Preview!Load(v2, v1', v3, v4)
      /\ UNCHANGED <<v1, v2, v3, v5, v8, v9>>
  BY DEF Preview!RefreshAgain
<1> QED
  BY <1>1, PreviewLoaded

LEMMA PreviewSwitched ==
  ASSUME Preview!PreviewInv, NEW p, Preview!setRolePreview(p)
  PROVE  Preview!PreviewInv'
<1>1. v1' = p /\ UNCHANGED <<v2, v3, v5, v8, v9>>
  BY DEF Preview!setRolePreview
<1>2. CASE v2 = Preview!Nowhere \/ Preview!needsSub(v3)
  <2>1. UNCHANGED <<v4, v6, v7>>
    BY <1>2 DEF Preview!setRolePreview
  <2> QED
    BY <1>1, <1>2, <2>1 DEF Preview!PreviewInv, Preview!PreviewShape, Preview!LastIsCurrent,
           Preview!LastIsFollowed, Preview!NothingIsAsked, Preview!needsSub, Preview!NoRows,
           Preview!Nowhere, Preview!ServiceRole, Preview!NoSub
<1>3. CASE ~(v2 = Preview!Nowhere \/ Preview!needsSub(v3))
  <2>1. Preview!Load(v2, v1', v3, v4) /\ v2 # Preview!Nowhere
    BY <1>1, <1>3 DEF Preview!setRolePreview
  <2> QED
    BY <1>1, <2>1, PreviewLoaded
<1> QED
  BY <1>2, <1>3

LEMMA PreviewAnswered ==
  ASSUME Preview!PreviewInv, NEW r \in v4, Preview!Answered(r)
  PROVE  Preview!PreviewInv'
<1> USE DEF Preview!NoRows, Preview!Nowhere, Preview!ServiceRole
<1>1. /\ v5' = r /\ v4' = v4 \ {r}
      /\ v8' = IF r.n > v8 THEN r.n ELSE v8
      /\ UNCHANGED <<v1, v2, v3, v6, v7>>
  BY DEF Preview!Answered
<1>2. /\ v7 \in Nat /\ v8 \in Nat /\ v8 <= v7
      /\ r.n \in Nat /\ r.n <= v7
  BY DEF Preview!PreviewInv, Preview!PreviewShape
<1>3. ~v9' => r.n >= v8
  <2>1. v9' = (r.n < v8)
    BY DEF Preview!Answered
  <2>2. r.n < v8 \/ r.n >= v8
    BY <1>2
  <2> QED
    BY <2>1, <2>2, Zenon
<1>4. Preview!PreviewShape'
  BY <1>1, <1>2 DEF Preview!PreviewInv, Preview!PreviewShape
<1>5. Preview!LastIsCurrent'
  BY <1>1 DEF Preview!PreviewInv, Preview!LastIsCurrent, Preview!needsSub, Preview!NoSub
<1>6. Preview!LastIsFollowed'
  BY <1>1, <1>2, <1>3 DEF Preview!PreviewInv, Preview!LastIsFollowed, Preview!needsSub,
         Preview!NoSub
<1>7. Preview!NothingIsAsked'
  BY <1>1 DEF Preview!PreviewInv, Preview!NothingIsAsked, Preview!needsSub, Preview!NoSub
<1> QED
  BY <1>4, <1>5, <1>6, <1>7 DEF Preview!PreviewInv

LEMMA PreviewRefused ==
  ASSUME Preview!PreviewInv, NEW r \in v4, Preview!Refused(r)
  PROVE  Preview!PreviewInv'
<1>1. /\ v6' = TRUE /\ v4' = v4 \ {r}
      /\ UNCHANGED <<v1, v2, v3, v5, v7, v8, v9>>
  BY DEF Preview!Refused
<1> QED
  BY <1>1 DEF Preview!PreviewInv, Preview!PreviewShape, Preview!LastIsCurrent,
         Preview!LastIsFollowed, Preview!NothingIsAsked, Preview!needsSub, Preview!NoSub,
         Preview!NoRows, Preview!Nowhere, Preview!ServiceRole

LEMMA PreviewNext ==
  ASSUME Preview!PreviewInv, [Preview!Next]_(Preview!previewVars)
  PROVE  Preview!PreviewInv'
<1>1. ASSUME NEW t \in Tables, Preview!Open(t) \/ Preview!Jump(t)
      PROVE  Preview!PreviewInv'
  BY <1>1, PreviewOpened, PreviewJumped
<1>2. ASSUME NEW p, Preview!setRolePreview(p)
      PROVE  Preview!PreviewInv'
  BY <1>2, PreviewSwitched
<1>3. CASE Preview!Leave \/ Preview!RefreshAgain
  BY <1>3, PreviewLeft, PreviewRefreshed
<1>4. ASSUME NEW r \in v4, Preview!Answered(r) \/ Preview!Refused(r)
      PROVE  Preview!PreviewInv'
  BY <1>4, PreviewAnswered, PreviewRefused
<1>5. CASE UNCHANGED Preview!previewVars
  BY <1>5 DEF Preview!previewVars, Preview!PreviewInv, Preview!PreviewShape,
         Preview!LastIsCurrent, Preview!LastIsFollowed, Preview!NothingIsAsked,
         Preview!needsSub, Preview!NoSub, Preview!NoRows, Preview!Nowhere,
         Preview!ServiceRole
<1> QED
  BY <1>1, <1>2, <1>3, <1>4, <1>5 DEF Preview!Next

LEMMA PreviewHolds == Preview!PreviewInv => Preview!RowsAreUnderRole
BY DEF Preview!PreviewInv, Preview!LastIsCurrent, Preview!LastIsFollowed,
       Preview!NothingIsAsked, Preview!RowsAreUnderRole

-----------------------------------------------------------------------------
(* The lists.  Here v1 page; v2 search; v3 filter; v4 extra; v5 offset;    *)
(* v6 typed; v7 armed; v8 row; v9 requests; v10 list; v11 loading; v12     *)
(* error; v13 act; v14 version; v15 asked; v16 acted; v17 newest; v18      *)
(* late; v19 turnedFor; v20 seen.                                          *)

LEMMA ListsInit == Lists!Init => Lists!ListInv
<1> SUFFICES ASSUME Lists!Init
             PROVE  Lists!ListInv
  OBVIOUS
<1> DEFINE q == Lists!Query(0, 0, 0, 0)
<1>1. /\ v2 = 0 /\ v3 = 0 /\ v4 = 0 /\ v5 = 0 /\ v6 = 0 /\ v7 = Lists!None
      /\ v9 = {[n |-> 1, q |-> q, got |-> Lists!Unserved]}
      /\ v10 = [n |-> 0, q |-> q, ver |-> 0]
      /\ v12 = FALSE /\ v14 = 0 /\ v15 = 1 /\ v17 = 0 /\ v18 = FALSE /\ v20 = 0
  BY DEF Lists!Init, Lists!Request
<1>2. Lists!Query(v2, v3, v4, v5) = q
  BY <1>1
<1> HIDE DEF q
<1>3. Lists!Numbers
  BY <1>1 DEF Lists!Numbers, Lists!Unserved
<1>4. Lists!LastIsCurrent
  BY <1>1, <1>2 DEF Lists!LastIsCurrent
<1>5. Lists!OffsetBelongsToQuery /\ Lists!TimerHasText
  BY <1>1 DEF Lists!OffsetBelongsToQuery, Lists!TimerHasText
<1>. QED
  BY <1>3, <1>4, <1>5 DEF Lists!ListInv

\* after a request, or two, the last is for the query on the screen
LEMMA ListsRefreshed ==
  ASSUME Lists!Numbers, NEW qs, NEW l \in {1, 2}, Len(qs) = l, DOMAIN qs = 1 .. l,
         Lists!Refresh(qs), qs[l] = Lists!Query(v2, v3, v4, v5)',
         v10' = v10, v14' = v14, v17' = v17, v18' = v18, v20' \in 0 .. v14
  PROVE  Lists!Numbers' /\ Lists!LastIsCurrent'
<1> DEFINE R(i) == Lists!Request(v15 + i, qs[i])
<1>1. /\ v15' = v15 + l /\ v9' = v9 \cup {R(i) : i \in 1 .. l}
  BY DEF Lists!Refresh
<1>2. \A i \in 1 .. l :
         /\ DOMAIN R(i) = {"n", "q", "got"} /\ R(i).n = v15 + i /\ R(i).q = qs[i]
         /\ R(i).got = Lists!Unserved
  BY DEF Lists!Request
<1> HIDE DEF R
<1>3. v15 \in Nat /\ v17 \in 0 .. v15 /\ v14 \in Nat /\ v10.n \in 0 .. v15 /\ v10.ver \in Nat
  BY DEF Lists!Numbers
<1>4. \A r \in v9 : DOMAIN r = {"n", "q", "got"} /\ r.n \in 1 .. v15 /\ r.got \in Nat
  BY DEF Lists!Numbers
<1>5. Lists!Numbers'
  <2>1. \A r \in v9' : DOMAIN r = {"n", "q", "got"} /\ r.n \in 1 .. v15' /\ r.got \in Nat
    BY <1>1, <1>2, <1>3, <1>4 DEF Lists!Unserved
  <2>2. v15' \in Nat /\ v17' \in 0 .. v15' /\ v10'.n \in 0 .. v15'
    BY <1>1, <1>3
  <2>3. ~v18' => v10'.n = v17'
    BY DEF Lists!Numbers
  <2>. QED
    BY <1>3, <2>1, <2>2, <2>3 DEF Lists!Numbers
<1>6. \A r \in v9' : r.n = v15' => r.q = qs[l] /\ r.got = Lists!Unserved
  BY <1>1, <1>2, <1>3, <1>4
<1>7. R(l) \in v9' /\ R(l).n = v15' /\ v10'.n # v15'
  BY <1>1, <1>2, <1>3
<1>. QED
  BY <1>5, <1>6, <1>7 DEF Lists!LastIsCurrent

\* one request, for the query on the screen
LEMMA ListsAsked ==
  ASSUME Lists!ListInv, NEW q, Lists!Refresh(<<q>>), q = Lists!Query(v2, v3, v4, v5)',
         v10' = v10, v14' = v14, v17' = v17, v18' = v18, v20' \in {v14, v20}
  PROVE  Lists!Numbers' /\ Lists!LastIsCurrent'
<1> DEFINE qs == <<q>>
<1>1. Len(qs) = 1 /\ DOMAIN qs = 1 .. 1 /\ qs[1] = q
  OBVIOUS
<1>2. Lists!Refresh(qs)
  OBVIOUS
<1>3. v20' \in 0 .. v14 /\ Lists!Numbers
  BY DEF Lists!ListInv, Lists!Numbers
<1> HIDE DEF qs
<1>. QED
  BY <1>1, <1>2, <1>3, 1 \in {1, 2}, ListsRefreshed

\* the timer asks, and so do the search and the filters
LEMMA ListsChanged ==
  ASSUME Lists!ListInv, NEW s, NEW f, s # v2 \/ f # v3, Lists!Change(s, f),
         v1' = v1, v4' = v4, v10' = v10, v14' = v14, v17' = v17, v18' = v18, v19' = v19,
         v20' = v20
  PROVE  Lists!Numbers' /\ Lists!LastIsCurrent' /\ Lists!OffsetBelongsToQuery'
<1>1. v2' = s /\ v3' = f /\ v5' = 0 /\ Lists!Refresh(Lists!Reload(s, f))
  BY DEF Lists!Change, Lists!Rewound
<1> DEFINE q == Lists!Query(s, f, v4, 0)
           p == Lists!Query(s, f, v4, v5)
<1>2. q = Lists!Query(v2, v3, v4, v5)'
  BY <1>1 DEF Lists!Query, Lists!P
<1>3. CASE v5 = 0
  <2>1. Lists!Refresh(<<q>>)
    BY <1>1, <1>3 DEF Lists!Reload
  <2> HIDE DEF q
  <2>2. Lists!Numbers' /\ Lists!LastIsCurrent'
    BY <1>2, <2>1, ListsAsked
  <2>. QED
    BY <1>1, <2>2 DEF Lists!OffsetBelongsToQuery
<1>4. CASE v5 # 0
  <2> DEFINE qs == <<p, q>>
  <2>1. Lists!Refresh(qs)
    BY <1>1, <1>4 DEF Lists!Reload
  <2> HIDE DEF p, q
  <2>2. Len(qs) = 2 /\ DOMAIN qs = 1 .. 2 /\ qs[2] = q
    OBVIOUS
  <2>3. v20' \in 0 .. v14 /\ Lists!Numbers
    BY DEF Lists!ListInv, Lists!Numbers
  <2> HIDE DEF qs
  <2>4. Lists!Numbers' /\ Lists!LastIsCurrent'
    BY <1>2, <2>1, <2>2, <2>3, 2 \in {1, 2}, ListsRefreshed
  <2>. QED
    BY <1>1, <2>4 DEF Lists!OffsetBelongsToQuery
<1>. QED
  BY <1>3, <1>4

\* what is typed or searched for, filtered, turned to
LEMMA ListsQueried ==
  ASSUME Lists!ListInv, NEW v \in {0, 1},
         \/ Lists!Search(v) \/ Lists!SetFilter(v) \/ Lists!SetExtra(v) \/ Lists!TurnPage(v)
         \/ Lists!Commit
  PROVE  Lists!ListInv'
<1>1. CASE Lists!Search(v)
  <2>1. /\ Lists!Change(v, v3) /\ v # v2
        /\ v1' = v1 /\ v4' = v4 /\ v6' = v6 /\ v7' = v7 /\ v10' = v10 /\ v14' = v14
        /\ v17' = v17 /\ v18' = v18 /\ v19' = v19 /\ v20' = v20
    BY <1>1 DEF Lists!Search, Lists!history
  <2>2. Lists!TimerHasText'
    BY <2>1 DEF Lists!ListInv, Lists!TimerHasText, Lists!Change, Lists!P
  <2>. QED
    BY <2>1, <2>2, ListsChanged DEF Lists!ListInv
<1>2. CASE Lists!SetFilter(v)
  <2>1. /\ Lists!Change(v2, v) /\ v # v3 /\ Lists!P.filter = "now"
        /\ v1' = v1 /\ v4' = v4 /\ v10' = v10 /\ v14' = v14
        /\ v17' = v17 /\ v18' = v18 /\ v19' = v19 /\ v20' = v20
    BY <1>2 DEF Lists!SetFilter, Lists!history
  <2>2. Lists!TimerHasText'
    BY <2>1 DEF Lists!TimerHasText, Lists!P
  <2>. QED
    BY <2>1, <2>2, ListsChanged DEF Lists!ListInv
<1>3. CASE Lists!Commit
  <2>1. /\ v7 # Lists!None /\ v7' = Lists!None
        /\ \/ v7 # v3 /\ Lists!Change(v2, v7)
           \/ /\ v7 = v3
              /\ v2' = v2 /\ v3' = v3 /\ v5' = v5 /\ v9' = v9 /\ v12' = v12 /\ v15' = v15
        /\ v1' = v1 /\ v4' = v4 /\ v6' = v6 /\ v10' = v10 /\ v14' = v14
        /\ v17' = v17 /\ v18' = v18 /\ v19' = v19 /\ v20' = v20
    BY <1>3 DEF Lists!Commit, Lists!history
  <2>2. v3' = v7
    BY <2>1 DEF Lists!Change
  <2>3. Lists!TimerHasText'
    BY <2>1, <2>2 DEF Lists!ListInv, Lists!TimerHasText, Lists!P
  <2>4. CASE v7 # v3
    BY <2>1, <2>3, <2>4, ListsChanged DEF Lists!ListInv
  <2>5. CASE v7 = v3
    <3>1. Lists!Numbers'
      BY <2>1, <2>5 DEF Lists!ListInv, Lists!Numbers, Lists!Change
    <3>2. Lists!LastIsCurrent'
      BY <2>1, <2>5 DEF Lists!ListInv, Lists!LastIsCurrent, Lists!Query, Lists!P
    <3>3. Lists!OffsetBelongsToQuery'
      BY <2>1, <2>5 DEF Lists!ListInv, Lists!OffsetBelongsToQuery
    <3>. QED
      BY <2>3, <3>1, <3>2, <3>3 DEF Lists!ListInv
  <2>. QED
    BY <2>4, <2>5
<1>4. CASE Lists!SetExtra(v)
  <2>1. /\ Lists!Refresh(<<Lists!Query(v2, v3, v, v5)>>) /\ v4' = v
        /\ v1' = v1 /\ v2' = v2 /\ v3' = v3 /\ v5' = v5 /\ v6' = v6 /\ v7' = v7
        /\ v10' = v10 /\ v14' = v14 /\ v17' = v17 /\ v18' = v18 /\ v19' = v19 /\ v20' = v20
    BY <1>4 DEF Lists!SetExtra, Lists!history
  <2>2. Lists!Query(v2, v3, v, v5) = Lists!Query(v2, v3, v4, v5)'
    BY <2>1 DEF Lists!Query, Lists!P
  <2>3. Lists!Numbers' /\ Lists!LastIsCurrent'
    BY <2>1, <2>2, ListsAsked
  <2>4. Lists!OffsetBelongsToQuery' /\ Lists!TimerHasText'
    BY <2>1 DEF Lists!ListInv, Lists!OffsetBelongsToQuery, Lists!TimerHasText, Lists!P
  <2>. QED
    BY <2>3, <2>4 DEF Lists!ListInv
<1>5. CASE Lists!TurnPage(v)
  <2>1. /\ Lists!Refresh(<<Lists!Query(v2, v3, v4, v)>>) /\ v5' = v /\ v19' = <<v2, v3>>
        /\ v1' = v1 /\ v2' = v2 /\ v3' = v3 /\ v4' = v4 /\ v6' = v6 /\ v7' = v7
        /\ v10' = v10 /\ v14' = v14 /\ v17' = v17 /\ v18' = v18 /\ v20' = v20
    BY <1>5 DEF Lists!TurnPage
  <2>2. Lists!Query(v2, v3, v4, v) = Lists!Query(v2, v3, v4, v5)'
    BY <2>1 DEF Lists!Query, Lists!P
  <2>3. Lists!Numbers' /\ Lists!LastIsCurrent'
    BY <2>1, <2>2, ListsAsked
  <2>4. Lists!OffsetBelongsToQuery' /\ Lists!TimerHasText'
    BY <2>1 DEF Lists!ListInv, Lists!OffsetBelongsToQuery, Lists!TimerHasText, Lists!P
  <2>. QED
    BY <2>3, <2>4 DEF Lists!ListInv
<1>. QED
  BY <1>1, <1>2, <1>3, <1>4, <1>5

LEMMA ListsRetried ==
  ASSUME Lists!ListInv, Lists!Retry \/ Lists!ActAnswered
  PROVE  Lists!ListInv'
<1>1. /\ Lists!Refresh(<<Lists!Query(v2, v3, v4, v5)>>)
      /\ v1' = v1 /\ v2' = v2 /\ v3' = v3 /\ v4' = v4 /\ v5' = v5 /\ v6' = v6 /\ v7' = v7
      /\ v10' = v10 /\ v14' = v14 /\ v17' = v17 /\ v18' = v18 /\ v19' = v19
      /\ v20' \in {v14, v20}
  BY DEF Lists!Retry, Lists!ActAnswered, Lists!Acted, Lists!actOnly, Lists!inputs,
         Lists!history
<1>2. Lists!Query(v2, v3, v4, v5) = Lists!Query(v2, v3, v4, v5)'
  BY <1>1 DEF Lists!Query, Lists!P
<1>3. Lists!Numbers' /\ Lists!LastIsCurrent'
  BY <1>1, <1>2, ListsAsked
<1>4. Lists!OffsetBelongsToQuery' /\ Lists!TimerHasText'
  BY <1>1 DEF Lists!ListInv, Lists!OffsetBelongsToQuery, Lists!TimerHasText, Lists!P
<1>. QED
  BY <1>3, <1>4 DEF Lists!ListInv

LEMMA ListsTyped ==
  ASSUME Lists!ListInv, NEW t \in {0, 1}, Lists!Type(t)
  PROVE  Lists!ListInv'
<1>1. /\ v6' = t /\ v7' = t
      /\ v1' = v1 /\ v2' = v2 /\ v3' = v3 /\ v4' = v4 /\ v5' = v5 /\ v9' = v9 /\ v10' = v10
      /\ v12' = v12 /\ v14' = v14 /\ v15' = v15 /\ v17' = v17 /\ v18' = v18 /\ v19' = v19
      /\ v20' = v20
  BY DEF Lists!Type, Lists!Armed, Lists!history
<1>2. Lists!Numbers'
  BY <1>1 DEF Lists!ListInv, Lists!Numbers
<1>3. Lists!LastIsCurrent'
  BY <1>1 DEF Lists!ListInv, Lists!LastIsCurrent, Lists!Query, Lists!P
<1>4. Lists!OffsetBelongsToQuery' /\ Lists!TimerHasText'
  BY <1>1 DEF Lists!ListInv, Lists!OffsetBelongsToQuery, Lists!TimerHasText, Lists!None
<1>. QED
  BY <1>2, <1>3, <1>4 DEF Lists!ListInv

\* requests are served and answered in any order
LEMMA ListsServed ==
  ASSUME Lists!ListInv, NEW r \in v9, Lists!Serve(r) \/ Lists!Answer(r) \/ Lists!Fail(r)
  PROVE  Lists!ListInv'
<1>1. /\ v1' = v1 /\ v2' = v2 /\ v3' = v3 /\ v4' = v4 /\ v5' = v5 /\ v6' = v6 /\ v7' = v7
      /\ v14' = v14 /\ v15' = v15 /\ v19' = v19 /\ v20' = v20
  BY DEF Lists!Serve, Lists!Answer, Lists!Fail, Lists!inputs, Lists!history
<1>2. Lists!OffsetBelongsToQuery' /\ Lists!TimerHasText'
  BY <1>1 DEF Lists!ListInv, Lists!OffsetBelongsToQuery, Lists!TimerHasText, Lists!P
<1>3. /\ v15 \in Nat /\ v17 \in 0 .. v15 /\ v14 \in Nat /\ v20 \in 0 .. v14
      /\ v10.n \in 0 .. v15 /\ v10.ver \in Nat /\ (~v18 => v10.n = v17)
      /\ \A x \in v9 : DOMAIN x = {"n", "q", "got"} /\ x.n \in 1 .. v15 /\ x.got \in Nat
  BY DEF Lists!ListInv, Lists!Numbers
<1> DEFINE q == Lists!Query(v2, v3, v4, v5)
<1>4. q' = q
  BY <1>1 DEF Lists!Query, Lists!P
<1>5. /\ \A x \in v9 : x.n = v15 => x.q = q /\ (x.got # Lists!Unserved => x.got >= v20)
      /\ v10.n = v15 => v10.q = q /\ v10.ver >= v20
      /\ v12 \/ v17 = v15 \/ \E x \in v9 : x.n = v15
  BY DEF Lists!ListInv, Lists!LastIsCurrent
<1> HIDE DEF q
<1>6. CASE Lists!Serve(r)
  <2> DEFINE s == [r EXCEPT !.got = v14]
  <2>1. /\ v9' = (v9 \ {r}) \cup {s}
        /\ v10' = v10 /\ v12' = v12 /\ v17' = v17 /\ v18' = v18
    BY <1>6 DEF Lists!Serve, Lists!history
  <2>2. DOMAIN s = {"n", "q", "got"} /\ s.n = r.n /\ s.q = r.q /\ s.got = v14
    BY <1>3
  <2> HIDE DEF s
  <2>3. Lists!Numbers'
    BY <1>1, <1>3, <2>1, <2>2 DEF Lists!Numbers
  <2>4. Lists!LastIsCurrent'
    BY <1>1, <1>3, <1>4, <1>5, <2>1, <2>2 DEF Lists!LastIsCurrent, q
  <2>. QED
    BY <1>2, <2>3, <2>4 DEF Lists!ListInv
<1>7. CASE Lists!Answer(r)
  <2>1. /\ v9' = v9 \ {r} /\ v10' = [n |-> r.n, q |-> r.q, ver |-> r.got]
        /\ r.got # Lists!Unserved /\ v12' = v12
        /\ v17' = IF r.n > v17 THEN r.n ELSE v17
        /\ ~v18' => ~(r.n < v17)
    BY <1>7 DEF Lists!Answer, Lists!Answered
  <2>2. v10'.n = r.n /\ v10'.q = r.q /\ v10'.ver = r.got
    BY <2>1
  <2>3. Lists!Numbers'
    <3>1. r.n \in 1 .. v15 /\ r.got \in Nat
      BY <1>3
    <3>2. v17' \in 0 .. v15 /\ (~v18' => r.n = v17')
      BY <1>3, <2>1, <3>1
    <3>3. \A x \in v9' : DOMAIN x = {"n", "q", "got"} /\ x.n \in 1 .. v15 /\ x.got \in Nat
      BY <1>3, <2>1
    <3>. QED
      BY <1>1, <1>3, <2>2, <3>1, <3>2, <3>3 DEF Lists!Numbers
  <2>4. \A x \in v9' : x.n = v15 => x.q = q /\ (x.got # Lists!Unserved => x.got >= v20)
    BY <1>5, <2>1
  <2>5. v10'.n = v15 => v10'.q = q /\ v10'.ver >= v20
    BY <1>5, <2>1, <2>2
  <2>6. v12 \/ v17' = v15 \/ \E x \in v9' : x.n = v15
    BY <1>3, <1>5, <2>1
  <2>7. Lists!LastIsCurrent'
    BY <1>1, <1>4, <2>1, <2>4, <2>5, <2>6 DEF Lists!LastIsCurrent, q
  <2>. QED
    BY <1>2, <2>3, <2>7 DEF Lists!ListInv
<1>8. CASE Lists!Fail(r)
  <2>1. /\ v9' = v9 \ {r} /\ v12' = TRUE /\ v10' = v10 /\ v17' = v17 /\ v18' = v18
    BY <1>8 DEF Lists!Fail, Lists!history
  <2>2. Lists!Numbers'
    BY <1>1, <1>3, <2>1 DEF Lists!Numbers
  <2>3. Lists!LastIsCurrent'
    BY <1>1, <1>3, <1>4, <1>5, <2>1 DEF Lists!LastIsCurrent, q
  <2>. QED
    BY <1>2, <2>2, <2>3 DEF Lists!ListInv
<1>. QED
  BY <1>6, <1>7, <1>8

\* the drawer, the dialog and the action itself leave the query alone
LEMMA ListsAside ==
  ASSUME Lists!ListInv,
         \/ Lists!openDrawer \/ Lists!closeDrawer \/ Lists!Begin \/ Lists!Dismiss
         \/ Lists!Confirm \/ Lists!ServeAct \/ Lists!ActFailed \/ UNCHANGED Lists!listVars
  PROVE  Lists!ListInv'
<1>1. /\ v1' = v1 /\ v2' = v2 /\ v3' = v3 /\ v4' = v4 /\ v5' = v5 /\ v6' = v6 /\ v7' = v7
      /\ v9' = v9 /\ v10' = v10 /\ v12' = v12 /\ v15' = v15 /\ v17' = v17 /\ v18' = v18
      /\ v19' = v19 /\ v20' = v20 /\ v14' \in {v14, v14 + 1}
  BY DEF Lists!openDrawer, Lists!closeDrawer, Lists!Begin, Lists!Dismiss, Lists!Confirm,
         Lists!ServeAct, Lists!ActFailed, Lists!listVars, Lists!actOnly, Lists!inputs,
         Lists!history
<1>2. Lists!Numbers'
  BY <1>1 DEF Lists!ListInv, Lists!Numbers
<1>3. Lists!LastIsCurrent'
  BY <1>1 DEF Lists!ListInv, Lists!LastIsCurrent, Lists!Query, Lists!P
<1>4. Lists!OffsetBelongsToQuery' /\ Lists!TimerHasText'
  BY <1>1 DEF Lists!ListInv, Lists!OffsetBelongsToQuery, Lists!TimerHasText, Lists!P
<1>. QED
  BY <1>2, <1>3, <1>4 DEF Lists!ListInv

LEMMA ListsNext ==
  ASSUME Lists!ListInv, [Lists!Next]_(Lists!listVars)
  PROVE  Lists!ListInv'
<1>1. CASE \E v \in {0, 1} : \/ Lists!Search(v) \/ Lists!SetFilter(v) \/ Lists!SetExtra(v)
                             \/ Lists!TurnPage(v)
  BY <1>1, ListsQueried
<1>2. CASE Lists!Commit
  BY <1>2, 0 \in {0, 1}, ListsQueried
<1>3. CASE Lists!Retry \/ Lists!ActAnswered
  BY <1>3, ListsRetried
<1>4. CASE \E v \in {0, 1} : Lists!Type(v)
  BY <1>4, ListsTyped
<1>5. CASE \E r \in v9 : Lists!Serve(r) \/ Lists!Answer(r) \/ Lists!Fail(r)
  BY <1>5, ListsServed
<1>6. CASE \/ Lists!openDrawer \/ Lists!closeDrawer \/ Lists!Begin \/ Lists!Dismiss
           \/ Lists!Confirm \/ Lists!ServeAct \/ Lists!ActFailed
           \/ UNCHANGED Lists!listVars
  BY <1>6, ListsAside
<1>. QED
  BY <1>1, <1>2, <1>3, <1>4, <1>5, <1>6 DEF Lists!Next

LEMMA ListsHold ==
  ASSUME Lists!ListInv
  PROVE  /\ Lists!SettledShowsCurrent /\ Lists!OffsetBelongsToQuery
         /\ Lists!ReadsOwnWrites /\ Lists!TextReachesQuery
<1>1. ASSUME Lists!Settled, ~v18
      PROVE  v10.n = v15
  BY <1>1 DEF Lists!Settled, Lists!ListInv, Lists!Numbers, Lists!LastIsCurrent
<1>2. Lists!SettledShowsCurrent /\ Lists!ReadsOwnWrites
  BY <1>1 DEF Lists!SettledShowsCurrent, Lists!ReadsOwnWrites, Lists!ListInv,
              Lists!LastIsCurrent
<1>3. Lists!OffsetBelongsToQuery /\ Lists!TextReachesQuery
  BY DEF Lists!ListInv, Lists!TimerHasText, Lists!TextReachesQuery
<1>. QED
  BY <1>2, <1>3

-----------------------------------------------------------------------------
(* The pages that show something of a subject, together.                   *)

PanelsInv ==
    /\ part = "lists" => Lists!ListInv
    /\ part = "users" => Drawer!DrawerInv
    /\ part = "objects" => Objects!BrowserInv
    /\ part = "templates" => Editor!EditorInv
    /\ part = "invoke" => Invoke!InvokeInv
    /\ part = "rows" => Preview!PreviewInv

LEMMA PanelsInvInit == ConsoleInit => PanelsInv
<1> SUFFICES ASSUME ConsoleInit
             PROVE  PanelsInv
  OBVIOUS
<1>1. part = "users" => Drawer!DrawerInv
  <2>1. part = "users" => Drawer!Init
    BY DEF ConsoleInit
  <2> QED
    BY <2>1, DrawerInit
<1>2. part = "objects" => Objects!BrowserInv
  <2>1. part = "objects" => Objects!Init
    BY DEF ConsoleInit
  <2> QED
    BY <2>1, ObjectsInit
<1>3. part = "templates" => Editor!EditorInv
  <2>1. part = "templates" => Editor!Init
    BY DEF ConsoleInit
  <2> QED
    BY <2>1, EditorInit
<1>4. part = "invoke" => Invoke!InvokeInv
  <2>1. part = "invoke" => Invoke!Init
    BY DEF ConsoleInit
  <2> QED
    BY <2>1, InvokeInit
<1>5. part = "rows" => Preview!PreviewInv
  <2>1. part = "rows" => Preview!Init
    BY DEF ConsoleInit
  <2> QED
    BY <2>1, PreviewInit
<1>6. part = "lists" => Lists!ListInv
  <2>1. part = "lists" => Lists!Init
    BY DEF ConsoleInit
  <2> QED
    BY <2>1, ListsInit
<1> QED
  BY <1>1, <1>2, <1>3, <1>4, <1>5, <1>6 DEF PanelsInv

LEMMA PanelsInvNext ==
  ASSUME PanelsInv, [ConsoleNext]_consoleVars
  PROVE  PanelsInv'
<1>1. part' = part
  BY DEF ConsoleNext, consoleVars
<1>2. part' = "users" => Drawer!DrawerInv'
  <2> SUFFICES ASSUME part = "users"
               PROVE  Drawer!DrawerInv'
    BY <1>1
  <2>1. [Drawer!Next]_(Drawer!drawerVars)
    BY DEF ConsoleNext, consoleVars, Drawer!drawerVars
  <2> QED
    BY <2>1, DrawerNext DEF PanelsInv
<1>3. part' = "objects" => Objects!BrowserInv'
  <2> SUFFICES ASSUME part = "objects"
               PROVE  Objects!BrowserInv'
    BY <1>1
  <2>1. [Objects!Next]_(Objects!browserVars)
    BY DEF ConsoleNext, consoleVars, Objects!browserVars
  <2> QED
    BY <2>1, ObjectsNext DEF PanelsInv
<1>4. part' = "templates" => Editor!EditorInv'
  <2> SUFFICES ASSUME part = "templates"
               PROVE  Editor!EditorInv'
    BY <1>1
  <2>1. [Editor!Next]_(Editor!editorVars)
    BY DEF ConsoleNext, consoleVars, Editor!editorVars
  <2> QED
    BY <2>1, EditorNext DEF PanelsInv
<1>5. part' = "invoke" => Invoke!InvokeInv'
  <2> SUFFICES ASSUME part = "invoke"
               PROVE  Invoke!InvokeInv'
    BY <1>1
  <2>1. [Invoke!Next]_(Invoke!invokeVars)
    BY DEF ConsoleNext, consoleVars, Invoke!invokeVars
  <2> QED
    BY <2>1, InvokeNext DEF PanelsInv
<1>6. part' = "rows" => Preview!PreviewInv'
  <2> SUFFICES ASSUME part = "rows"
               PROVE  Preview!PreviewInv'
    BY <1>1
  <2>1. [Preview!Next]_(Preview!previewVars)
    BY DEF ConsoleNext, consoleVars, Preview!previewVars
  <2> QED
    BY <2>1, PreviewNext DEF PanelsInv
<1>7. part' = "lists" => Lists!ListInv'
  <2> SUFFICES ASSUME part = "lists"
               PROVE  Lists!ListInv'
    BY <1>1
  <2>1. [Lists!Next]_(Lists!listVars)
    BY DEF ConsoleNext, consoleVars, Lists!listVars
  <2> QED
    BY <2>1, ListsNext DEF PanelsInv
<1> QED
  BY <1>2, <1>3, <1>4, <1>5, <1>6, <1>7 DEF PanelsInv

(* What a page shows under a name is of that name, in the drawer of a      *)
(* user, the URLs of the object browser, the editor of the templates, the  *)
(* page of the functions and the rows of a table.                          *)
THEOREM PanelsCorrect == ConsoleSpec => []PanelIsOfItsSubject
<1>1. ConsoleInit => PanelsInv
  BY PanelsInvInit
<1>2. PanelsInv /\ [ConsoleNext]_consoleVars => PanelsInv'
  BY PanelsInvNext
<1>3. PanelsInv => PanelIsOfItsSubject
  BY DrawerHolds, ObjectsHold, EditorHolds, InvokeHolds, PreviewHolds DEF PanelsInv,
         PanelIsOfItsSubject
<1> QED
  BY <1>1, <1>2, <1>3, PTL DEF ConsoleSpec

(* The rows of a list at rest are those of the query on the screen, a      *)
(* later page is one turned to, a confirmed action shows once the list     *)
(* came back, and what is typed is asked for.                              *)
THEOREM ListsCorrect == ConsoleSpec => []ListIsOfQuery
<1>1. ConsoleInit => PanelsInv
  BY PanelsInvInit
<1>2. PanelsInv /\ [ConsoleNext]_consoleVars => PanelsInv'
  BY PanelsInvNext
<1>3. PanelsInv => ListIsOfQuery
  BY ListsHold DEF PanelsInv, ListIsOfQuery
<1> QED
  BY <1>1, <1>2, <1>3, PTL DEF ConsoleSpec

=============================================================================
