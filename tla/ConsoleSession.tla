--------------------------- MODULE ConsoleSession ---------------------------
(***************************************************************************)
(* The session of the operator console: the store that remembers who is    *)
(* signed in, the guard of the router, the login page, the logout button   *)
(* and the menu, against the session endpoints of the admin API.           *)
(*                                                                         *)
(* The browser holds the session cookie, the store a copy of what the      *)
(* cookie stands for.  An action is the code between two awaits; a request *)
(* is sent with the cookie of that moment, served, and answered.  Loading  *)
(* a page's component and validating the form take no other event in.      *)
(***************************************************************************)
EXTENDS Naturals, Sequences

CONSTANTS
    Calls,       \* slots for requests in flight
    Visited,     \* bound: the paths the operator goes to
    MaxLogins,   \* bound: admin sessions ever issued
    MaxMishaps   \* bound: requests lost, expiries, page loads

VARIABLES
    issued, valid,   \* the server: sessions 1 .. issued, those it accepts
    jar,             \* the session of the browser's cookie, 0 when it has none
    session,         \* the store
    hydrating,
    route, next,     \* the page shown and its ?next=
    pending,         \* the page a guard is deciding about
    submitting,      \* of the login page that is mounted
    call,            \* the requests
    mine,            \* those the mounted login page is waiting for
    mishaps,
    out, carried     \* history: "asked" after a logout, "overtaken" when a
                     \* request sent before it signed the store in again

sessionVars == <<issued, valid, jar, session, hydrating, route, next, pending,
                 submitting, call, mine, mishaps, out, carried>>

-----------------------------------------------------------------------------
(* Paths are sequences of segments.                                        *)

Login == <<"login">>
NoPath == <<"none">>
Foreign == <<"", "elsewhere">>      \* starts with two slashes

Routes ==
    {<<>>, <<"db", "schema">>, <<"db", "sql">>, <<"db", "tables", "s", "t">>,
     <<"db", "rls">>, <<"db", "migrations">>,
     <<"auth", "users">>, <<"auth", "tokens">>, <<"auth", "audit">>,
     <<"auth", "templates">>, <<"storage">>, <<"storage", "b">>,
     <<"functions">>, <<"functions", "invoke", "f">>, <<"realtime">>,
     <<"jobs", "queue">>, <<"jobs", "crons">>, <<"ops", "backups">>, <<"ops", "logs">>}

\* the entries of the menu that lead somewhere
navItems ==
    [dashboard |-> <<>>, database |-> <<"db", "schema">>,
     users |-> <<"auth", "users">>, tokens |-> <<"auth", "tokens">>,
     audit |-> <<"auth", "audit">>, templates |-> <<"auth", "templates">>,
     storage |-> <<"storage">>, functions |-> <<"functions">>,
     realtime |-> <<"realtime">>, queue |-> <<"jobs", "queue">>,
     crons |-> <<"jobs", "crons">>, backups |-> <<"ops", "backups">>,
     logs |-> <<"ops", "logs">>]
Keys == DOMAIN navItems

\* path.startsWith(item + "/"), where "/" is the path without a segment:
\* nothing starts with "//"
Under(path, item) ==
    /\ item # <<>>
    /\ Len(path) > Len(item)
    /\ SubSeq(path, 1, Len(item)) = item

\* mutant of activeKeys: the item and what starts with it
activeKeys_Prefix(path) ==
    {k \in Keys : Len(path) >= Len(navItems[k])
                  /\ SubSeq(path, 1, Len(navItems[k])) = navItems[k]}

\* at most one entry matches, so the order of the menu does not matter
activeKeys(path) == {k \in Keys : path = navItems[k] \/ Under(path, navItems[k])}

\* the operator goes to pages of the console, the dashboard among them
SessionAssumption == <<>> \in Visited /\ Visited \subseteq Routes

-----------------------------------------------------------------------------
Idle == [kind |-> "none", cookie |-> 0, ans |-> "none", who |-> 0]
Send(k, j) == [kind |-> k, cookie |-> j, ans |-> "none", who |-> 0]
Free == {c \in Calls : call[c] = Idle}
SessionRequests == {c \in Calls : call[c].kind \in {"guard", "page"}}

Init ==
    /\ issued = 0 /\ valid = {} /\ jar = 0
    /\ session = 0 /\ hydrating = FALSE
    /\ route = NoPath /\ next = NoPath /\ pending = NoPath
    /\ submitting = FALSE
    /\ call = [c \in Calls |-> Idle] /\ mine = {}
    /\ mishaps = 0
    /\ out = "no" /\ carried = {}

nextPath(nx) == IF nx \in Visited THEN nx ELSE <<>>

(***************************************************************************)
(* hydrate: who asks when the store is empty, unless a request is already  *)
(* under way; then it returns at once and the store is still empty.        *)
(***************************************************************************)
Hydrate(c, k) ==
    /\ hydrating' = TRUE
    /\ call' = [call EXCEPT ![c] = Send(k, jar')]

\* s and h are the store as the step leaves it, c a slot it may use
Show(to, c, h) ==
    /\ route' = to /\ next' = NoPath /\ pending' = NoPath
    /\ submitting' = FALSE /\ mine' = {}
    /\ hydrating' = h
    /\ call' = [call EXCEPT ![c] = Idle]

ShowLogin(nx, c, s, h) ==
    IF route = Login
    THEN \* the page is kept, only its query changes
         /\ route' = Login /\ next' = nx /\ pending' = NoPath
         /\ hydrating' = h
         /\ call' = [call EXCEPT ![c] = Idle]
         /\ mine' = mine \ {c}
         /\ UNCHANGED submitting
    ELSE IF s # 0 THEN Show(nextPath(nx), c, h)
    ELSE /\ route' = Login /\ next' = nx /\ pending' = NoPath
         /\ submitting' = FALSE
         /\ IF h THEN /\ hydrating' = h
                      /\ call' = [call EXCEPT ![c] = Idle]
                      /\ mine' = {}
            ELSE Hydrate(c, "page") /\ mine' = {c}

\* mutant of Guard: the store is hydrated elsewhere
Guard_StoreOnly(to, c, s, h) ==
    IF to = Login THEN ShowLogin(NoPath, c, s, h)
    ELSE IF s # 0 THEN Show(to, c, h)
    ELSE ShowLogin(to, c, s, h)

Guard(to, c, s, h) ==
    IF to = Login THEN ShowLogin(NoPath, c, s, h)
    ELSE IF s # 0 THEN Show(to, c, h)
    ELSE IF h THEN ShowLogin(to, c, s, h)
    ELSE /\ Hydrate(c, "guard")
         /\ pending' = to
         /\ mine' = mine \ {c}
         /\ UNCHANGED <<route, next, submitting>>

-----------------------------------------------------------------------------
(* The operator.                                                           *)

serverState == <<issued, valid, jar>>
history == <<out, carried>>

\* the address bar: everything in memory is gone
Load(to, nx, c) ==
    /\ route = NoPath \/ mishaps < MaxMishaps
    /\ mishaps' = IF route = NoPath THEN mishaps ELSE mishaps + 1
    /\ session' = 0 /\ submitting' = FALSE
    /\ hydrating' = TRUE
    /\ call' = [d \in Calls |-> IF d = c THEN Send(IF to = Login THEN "page" ELSE "guard", jar)
                                ELSE Idle]
    /\ IF to = Login
       THEN route' = Login /\ next' = nx /\ pending' = NoPath /\ mine' = {c}
       ELSE route' = <<"blank">> /\ next' = NoPath /\ pending' = to /\ mine' = {}
    /\ out' = "no" /\ carried' = {}
    /\ UNCHANGED serverState

\* a link, the back button
Navigate(to, c) ==
    /\ route \in Visited \cup {Login}
    /\ to # route
    /\ UNCHANGED <<serverState, session, mishaps, history>>
    /\ Guard(to, c, session, hydrating)

handleSelect(k, c) ==
    /\ route \in Visited
    /\ navItems[k] \in Visited
    /\ Navigate(navItems[k], c)

submit(c) ==
    /\ route = Login /\ ~submitting
    /\ submitting' = TRUE
    /\ call' = [call EXCEPT ![c] = Send("login", jar)]
    /\ mine' = mine \cup {c}
    /\ UNCHANGED <<serverState, session, hydrating, route, next, pending, mishaps, history>>

\* the button is in the header of every page but the login page
handleLogout(c) ==
    /\ route \in Visited
    /\ call' = [call EXCEPT ![c] = Send("logout", jar)]
    /\ UNCHANGED <<serverState, session, hydrating, route, next, pending, submitting, mine,
                   mishaps, history>>

\* a page asks the API something
request(c) ==
    /\ route \in Visited
    /\ \A d \in Calls : call[d].kind # "api"
    /\ call' = [call EXCEPT ![c] = Send("api", jar)]
    /\ UNCHANGED <<serverState, session, hydrating, route, next, pending, submitting, mine,
                   mishaps, history>>

-----------------------------------------------------------------------------
(* The server, and the browser's cookie.                                   *)

clientState == <<session, hydrating, route, next, pending, submitting, mine>>

Answered(c, a, n) == call' = [call EXCEPT ![c].ans = a, ![c].who = n]

ServeLogin(c) ==
    /\ call[c].kind = "login"
    /\ \/ /\ issued < MaxLogins
          /\ issued' = issued + 1
          /\ valid' = valid \cup {issued + 1}
          /\ Answered(c, "ok", issued + 1)
       \/ Answered(c, "refused", 0) /\ UNCHANGED <<issued, valid>>

ServeLogout(c) ==
    /\ call[c].kind = "logout"
    /\ valid' = valid \ {call[c].cookie}
    /\ Answered(c, "ok", 0)
    /\ UNCHANGED issued

\* /auth/session, and any other endpoint
ServeSession(c) ==
    /\ call[c].kind \in {"guard", "page", "api"}
    /\ IF call[c].cookie \in valid THEN Answered(c, "ok", call[c].cookie)
       ELSE Answered(c, "refused", 0)
    /\ UNCHANGED <<issued, valid>>

Serve(c) ==
    /\ call[c].ans = "none"
    /\ ServeLogin(c) \/ ServeLogout(c) \/ ServeSession(c)
    /\ UNCHANGED <<jar, clientState, mishaps, history>>

\* the request or its answer is lost, or the answer is a 5xx
Fail(c) ==
    /\ call[c].kind # "none" /\ call[c].ans # "failed"
    /\ mishaps < MaxMishaps
    /\ mishaps' = mishaps + 1
    /\ Answered(c, "failed", 0)
    /\ UNCHANGED <<serverState, clientState, history>>

Expire ==
    /\ mishaps < MaxMishaps
    /\ mishaps' = mishaps + 1
    /\ \E n \in valid : valid' = valid \ {n}
    /\ UNCHANGED <<issued, jar, clientState, call, history>>

-----------------------------------------------------------------------------
(* The answers.                                                            *)

\* the store is filled by a request sent before the last logout
Filled(c, s) ==
    out' = IF out = "no" \/ s = 0 THEN out
           ELSE IF c \in carried THEN "overtaken" ELSE "no"

\* mutant of hydrated: the flag is cleared when the request succeeds
hydrated_NoFinally(c) == IF call[c].ans = "ok" THEN FALSE ELSE hydrating

hydrated(c) == FALSE

\* 401 resets the store, and the catch of hydrate does as well
HydrateAnswered(c) ==
    LET s == IF call[c].ans = "ok" THEN call[c].who ELSE 0
        h == hydrated(c)
    IN  /\ call[c].kind \in {"guard", "page"} /\ call[c].ans # "none"
        /\ UNCHANGED <<serverState, mishaps>>
        /\ session' = s
        /\ Filled(c, s)
        /\ carried' = carried \ {c}
        /\ IF call[c].kind = "guard" /\ pending # NoPath
           THEN IF s # 0 THEN Show(pending, c, h) ELSE ShowLogin(pending, c, s, h)
           ELSE IF call[c].kind = "page" /\ s # 0
           THEN Show(nextPath(next), c, h)
           ELSE /\ hydrating' = h
                /\ call' = [call EXCEPT ![c] = Idle]
                /\ mine' = mine \ {c}
                /\ UNCHANGED <<route, next, pending, submitting>>

\* mutant of released: an early return before the flag is cleared
released_OnSuccess(c) == IF c \in mine /\ call[c].ans = "ok" THEN FALSE ELSE submitting

released(c) == IF c \in mine THEN FALSE ELSE submitting

LoginAnswered(c) ==
    /\ call[c].kind = "login" /\ call[c].ans # "none"
    /\ carried' = carried \ {c}
    /\ IF call[c].ans = "ok"
       THEN /\ jar' = call[c].who
            /\ session' = call[c].who
            /\ Filled(c, session')
            /\ Guard(nextPath(next), c, session', hydrating)
       ELSE /\ session' = IF call[c].ans = "refused" THEN 0 ELSE session
            /\ submitting' = released(c)
            /\ mine' = mine \ {c}
            /\ call' = [call EXCEPT ![c] = Idle]
            /\ UNCHANGED <<jar, out, hydrating, route, next, pending>>
    /\ UNCHANGED <<issued, valid, mishaps>>

\* mutant of signedOut: the store is emptied once the server agreed
signedOut_OnSuccess(a) == IF a = "ok" THEN 0 ELSE session

signedOut(a) == 0

\* a logout that fails empties the store as well, and stays on the page
LogoutAnswered(c) ==
    /\ call[c].kind = "logout" /\ call[c].ans # "none"
    /\ session' = signedOut(call[c].ans)
    /\ out' = "asked"
    /\ carried' = {d \in Calls \ {c} : call[d].kind \in {"guard", "page", "login"}}
    /\ IF call[c].ans = "ok"
       THEN jar' = 0 /\ Guard(Login, c, 0, hydrating)
       ELSE /\ call' = [call EXCEPT ![c] = Idle]
            /\ UNCHANGED <<jar, hydrating, route, next, pending, submitting, mine>>
    /\ UNCHANGED <<issued, valid, mishaps>>

\* onSessionExpired: the store is emptied, whoever sent the request
RequestAnswered(c) ==
    /\ call[c].kind = "api" /\ call[c].ans # "none"
    /\ session' = IF call[c].ans = "refused" THEN 0 ELSE session
    /\ call' = [call EXCEPT ![c] = Idle]
    /\ UNCHANGED <<serverState, hydrating, route, next, pending, submitting, mine, mishaps,
                   history>>

Next ==
    \/ \E c \in Free :
        \/ \E to \in Visited \cup {Login} : Navigate(to, c)
        \/ \E to \in Visited : Load(to, NoPath, c)
        \/ \E nx \in Visited \cup {NoPath, Foreign} : Load(Login, nx, c)
        \/ \E k \in Keys : handleSelect(k, c)
        \/ submit(c) \/ handleLogout(c) \/ request(c)
    \/ \E c \in Calls :
        \/ Serve(c) \/ Fail(c)
        \/ HydrateAnswered(c) \/ LoginAnswered(c)
        \/ LogoutAnswered(c) \/ RequestAnswered(c)
    \/ Expire

Spec == Init /\ [][Next]_sessionVars

-----------------------------------------------------------------------------
(* Types: the requests of the login page are in flight, and the store      *)
(* knows whether it is asking.                                             *)
TypeOK ==
    /\ jar \in 0 .. issued /\ session \in 0 .. issued /\ valid \subseteq 1 .. issued
    /\ route \in Visited \cup {Login, NoPath, <<"blank">>}
    /\ pending \in Visited \cup {NoPath}
    /\ next \in Visited \cup {NoPath, Foreign} /\ (next # NoPath => route = Login)
    /\ mine \subseteq {c \in Calls : call[c].kind \in {"page", "login"}}
    /\ hydrating = (SessionRequests # {})
    /\ \A c, d \in SessionRequests : c = d

(* The form of the login page cannot stay disabled: it is for as long as a *)
(* login it sent is in flight.                                             *)
FormIsReleased == submitting = (\E c \in mine : call[c].kind = "login")

(* The guard turns an operator away only after the server, or a failure,   *)
(* said so, or when it runs next to a request of another.                  *)
TurnedAway == route' = Login /\ route # Login /\ next' # NoPath
HasCause ==
    \/ \E c \in SessionRequests : call[c].ans # "ok"
    \/ \E c \in SessionRequests : call'[c] = call[c]
    \/ mishaps' # mishaps \/ route = NoPath
RedirectHasCause == [][TurnedAway => HasCause]_sessionVars

(* After a logout, whatever came of it, the store is empty until someone   *)
(* asks again; only a request that was in flight fills it.                 *)
SignedOutIsOut == out = "asked" => session = 0

(* The menu marks the entry that was chosen, and no other.                 *)
MenuFollows == \A k \in Keys : route = navItems[k] => activeKeys(route) = {k}

-----------------------------------------------------------------------------
(* What is inductive.                                                      *)

SessionShape ==
    /\ issued \in Nat /\ mishaps \in Nat
    /\ jar \in 0 .. issued /\ session \in 0 .. issued /\ valid \subseteq 1 .. issued
    /\ route \in Visited \cup {Login, NoPath, <<"blank">>}
    /\ pending \in Visited \cup {NoPath}
    /\ next \in Visited \cup {NoPath, Foreign}
    /\ next # NoPath => route = Login

\* a good answer names a session
CallShape ==
    /\ call \in [Calls -> [kind : {"none", "guard", "page", "login", "logout", "api"},
                           cookie : 0 .. issued, ans : {"none", "ok", "refused", "failed"},
                           who : 0 .. issued]]
    /\ \A c \in Calls : call[c].ans = "ok" /\ call[c].kind # "logout" => call[c].who # 0

\* the store asks once at a time, and knows; the form is sent once
FlagsFollow ==
    /\ \A c, d \in SessionRequests : c = d
    /\ hydrating = (SessionRequests # {})
    /\ \A c \in mine : c \in Calls /\ call[c].kind \in {"page", "login"}
    /\ \A c, d \in mine : call[c].kind = "login" /\ call[d].kind = "login" => c = d
    /\ FormIsReleased

SessionInv == SessionShape /\ CallShape /\ FlagsFollow /\ SignedOutIsOut
=============================================================================
