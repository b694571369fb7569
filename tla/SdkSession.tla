----------------------------- MODULE SdkSession -----------------------------
(***************************************************************************)
(* The TypeScript client: the session in its memory, the copy in its auth  *)
(* storage, the token of its realtime socket, and the calls an application *)
(* makes on it, against the token endpoints of the server.                 *)
(*                                                                         *)
(* JavaScript runs to the next await without interruption, so an action is *)
(* the code between two awaits.  A request is three: it is sent, the       *)
(* server acts on it, and the client goes on with the answer; any number   *)
(* of calls are between two of them at once.  The storage backends that    *)
(* come with the client write at once, so a persist is a part of its step, *)
(* and the listeners hear of the change one turn later, in order.  They    *)
(* answer at once too, and restoreSession goes on one turn later, before   *)
(* any answer of the server is read; what the application asks in the turn *)
(* of its call comes in between.                                           *)
(*                                                                         *)
(* The options are the defaults: sessions are persisted, a 401 refreshes.  *)
(***************************************************************************)
EXTENDS Naturals, Sequences, FiniteSets

CONSTANTS
    Users,
    Calls,       \* slots for concurrent calls of the application
    MaxPairs,    \* bound: token pairs ever issued
    MaxMishaps,  \* bound: requests or answers lost, 5xx answers, page loads,
                 \* email changes
    NoCall, NoUser

ASSUME SdkAssumption ==
    /\ MaxPairs \in Nat /\ MaxMishaps \in Nat
    /\ NoCall \notin Calls
    /\ NoUser \notin Users
    /\ IsFiniteSet(Calls)

VARIABLES
    \* the server: the pairs 1 .. issued, an access and a refresh token each
    issued, parent, owner, revoked,
    horizon,   \* access tokens live equally long: 1 .. horizon have expired
    renamed,   \* users whose row has changed since they signed up
    \* the client
    access, refresh, cached,   \* _accessToken, _refreshToken, _user
    stored,    \* the pair under supython-session, <<0, 0>> when there is none
    socket,    \* the token the realtime client was last given
    starter,   \* the call whose refresh is _refreshInFlight
    announce,  \* the changes the listeners have not heard of yet
    reading,   \* what a restoreSession that is under way has read, <<0, 0>>
               \* when there is none; bound: one at a time
    \* the calls
    op, at, arg, ans,
    mishaps,   \* counter of the bound
    \* history
    tried,     \* the access token of a call's first attempt
    excused,   \* tokens that the client may present although revoked: the
               \* answer to their rotation was lost, the application
               \* refreshed next to a refresh, or a logout revoked them
    out,       \* "asked" once the last thing asked is to sign out,
               \* "overtaken" when a call of before brought a session back
    carried,   \* the calls that could, when it was asked
    recalled,  \* so could a restoreSession that had read the storage
    crossed    \* the last change was a restoreSession, announced before an
               \* older change

serverVars == <<issued, parent, owner, revoked, horizon, renamed>>
tokenVars == <<access, refresh, cached, stored>>
clientVars == <<tokenVars, socket, starter, announce, reading>>
callVars == <<op, at, arg, ans, tried>>
outVars == <<out, carried, recalled>>
historyVars == <<excused, outVars, crossed>>
vars == <<serverVars, clientVars, callVars, mishaps, historyVars>>

Pairs == 1 .. MaxPairs
Issued == 1 .. issued
NoPair == <<0, 0>>

Ops == {"none", "signIn", "signOut", "refresh", "getUser", "rest"}
\* where a call is: at an endpoint, or between two of them
Endpoints == {"token", "refresh", "logout", "user", "rest", "retry"}
Places == Endpoints \cup {"idle", "join", "emit"}
\* "renamed" is a success that carries the changed row of the user, "pending"
\* a success without a session, "barred" a refusal that burns no token
Answers == {"none", "ok", "renamed", "pending", "refused", "barred", "network"}
Good == {"ok", "renamed"}

(***************************************************************************)
(* The tokens rotated from those of T, however far, and T itself: the      *)
(* least set that holds T and is closed under rotation.                    *)
(***************************************************************************)
Chain(T) ==
    {t \in Issued : \A S \in SUBSET Issued :
        T \subseteq S /\ (\A c \in Issued : parent[c] \in S => c \in S) => t \in S}

Init ==
    /\ issued = 0 /\ revoked = {} /\ horizon = 0 /\ renamed = {}
    /\ parent = [n \in Pairs |-> 0]
    /\ owner = [n \in Pairs |-> NoUser]
    /\ access = 0 /\ refresh = 0 /\ cached = NoUser
    /\ stored = NoPair
    /\ socket = 0
    /\ starter = NoCall
    /\ announce = <<>>
    /\ reading = NoPair
    /\ op = [c \in Calls |-> "none"]
    /\ at = [c \in Calls |-> "idle"]
    /\ arg = [c \in Calls |-> 0]
    /\ ans = [c \in Calls |-> "none"]
    /\ tried = [c \in Calls |-> 0]
    /\ mishaps = 0
    /\ excused = {} /\ carried = {}
    /\ out = "no"
    /\ recalled = FALSE /\ crossed = FALSE

-----------------------------------------------------------------------------
(* What the client's steps are made of.                                    *)

Goto(c, place, a) ==
    /\ at' = [at EXCEPT ![c] = place]
    /\ arg' = [arg EXCEPT ![c] = a]
    /\ ans' = [ans EXCEPT ![c] = "none"]

Done(c) ==
    /\ Goto(c, "idle", 0)
    /\ op' = [op EXCEPT ![c] = "none"]
    /\ tried' = [tried EXCEPT ![c] = 0]

Begin(c, name) == at[c] = "idle" /\ op' = [op EXCEPT ![c] = name]
KeepCall == UNCHANGED <<op, tried>>

(***************************************************************************)
(* How the client reads a response: "json", "bytes", "empty" (204) or      *)
(* "refused".  Reading a body that is not JSON throws, and wrapNetworkError *)
(* makes that a failed connection.                                         *)
(***************************************************************************)
ParseSupython(r) ==
    CASE r = "refused" -> "error" [] r = "json" -> "data" [] OTHER -> "network"
ParseFunctions(r) ==
    CASE r = "refused" -> "error" [] r = "empty" -> "null" [] OTHER -> "data"
ParseBlob(r) == IF r = "refused" THEN "error" ELSE "data"

BucketRequest(r, expect204) ==
    IF expect204 /\ r = "empty" THEN "null" ELSE ParseSupython(r)
Upload(r) == ParseSupython(r)
Download(r) == ParseBlob(r)

\* mutant of Remove: the response is parsed whatever its status
Remove_Parsed(r) == ParseSupython(r)

Remove(r) == IF r = "empty" THEN "null" ELSE ParseSupython(r)

CreateSignedUrl(r) == ParseSupython(r)
Invoke(r) == ParseFunctions(r)
Logout(r) == IF r # "refused" THEN "null" ELSE ParseSupython(r)

Told(o, r) ==
    CASE o \in {"createBucket", "listBuckets", "getBucket"} -> BucketRequest(r, FALSE)
      [] o = "deleteBucket" -> BucketRequest(r, TRUE)
      [] o = "upload" -> Upload(r) [] o = "download" -> Download(r)
      [] o = "remove" -> Remove(r) [] o = "createSignedUrl" -> CreateSignedUrl(r)
      [] o = "invoke" -> Invoke(r) [] o = "logout" -> Logout(r)

\* what the server answers when it has done what it was asked
Success ==
    [createBucket |-> {"json"}, listBuckets |-> {"json"}, getBucket |-> {"json"},
     deleteBucket |-> {"empty"}, upload |-> {"json"}, download |-> {"bytes"},
     remove |-> {"empty"}, createSignedUrl |-> {"json"},
     invoke |-> {"json", "bytes", "empty"}, logout |-> {"empty"}]

\* mutant of Persisted: nothing is ever removed from the storage
Persisted_Kept(a, r) == IF a # 0 /\ r # 0 THEN <<a, r>> ELSE stored

(***************************************************************************)
(* What is stored after a persist of the tokens a and r.                   *)
(***************************************************************************)
Persisted(a, r) == IF a # 0 /\ r # 0 THEN <<a, r>> ELSE NoPair

SetSession(a, r, u) ==
    /\ access' = a /\ refresh' = r /\ cached' = u
    /\ stored' = Persisted(a, r)

ClearSession == SetSession(0, 0, NoUser)

\* mutant of Tell: a listener is told only of sessions
Tell_SessionsOnly(c, a) ==
    /\ announce' = IF a = 0 THEN announce ELSE Append(announce, [call |-> c, session |-> a])
    /\ crossed' = FALSE

(***************************************************************************)
(* The change of call c will be announced with the session of token a.     *)
(***************************************************************************)
Tell(c, a) ==
    /\ announce' = Append(announce, [call |-> c, session |-> a])
    /\ crossed' = FALSE

-----------------------------------------------------------------------------
(* The server answers.                                                     *)

Waiting(c, place) == at[c] = place /\ ans[c] = "none"

Answer(c, kind, a) ==
    /\ ans' = [ans EXCEPT ![c] = kind]
    /\ arg' = [arg EXCEPT ![c] = a]
    /\ UNCHANGED <<op, at, tried>>

Grant(c, u, p) ==
    /\ issued < MaxPairs
    /\ issued' = issued + 1
    /\ parent' = [parent EXCEPT ![issued + 1] = p]
    /\ owner' = [owner EXCEPT ![issued + 1] = u]
    /\ Answer(c, IF u \in renamed THEN "renamed" ELSE "ok", issued + 1)

\* Whether the user may be signing up: nothing was issued to it yet.
IsNew(u) == u \notin renamed /\ \A n \in Issued : owner[n] # u

\* POST /signup, POST /token.  A sign-up whose address is still to be
\* confirmed is answered 202, without tokens.
ServeToken(c) ==
    /\ Waiting(c, "token")
    /\ \/ Grant(c, arg[c], 0)
       \/ /\ \/ Answer(c, "refused", arg[c])
             \/ IsNew(arg[c]) /\ Answer(c, "pending", arg[c])
          /\ UNCHANGED <<issued, parent, owner>>
    /\ UNCHANGED <<revoked, horizon, renamed, clientVars, mishaps, historyVars>>

\* POST /refresh: a live token is rotated,
ServeRotation(c) ==
    /\ Waiting(c, "refresh")
    /\ arg[c] \notin revoked
    /\ Grant(c, owner[arg[c]], arg[c])
    /\ revoked' = revoked \cup {arg[c]}
    /\ UNCHANGED <<horizon, renamed, clientVars, mishaps, historyVars>>

\* or refused without being burnt: the account is banned, inactive or not
\* confirmed,
ServeBarred(c) ==
    /\ Waiting(c, "refresh")
    /\ arg[c] \notin revoked
    /\ Answer(c, "barred", arg[c])
    /\ UNCHANGED <<serverVars, clientVars, mishaps, historyVars>>

\* and a revoked one takes what was rotated from it along
ServeReuse(c) ==
    /\ Waiting(c, "refresh")
    /\ arg[c] \in revoked
    /\ LET heirs == Chain({arg[c]}) \ {arg[c]} IN
       /\ revoked' = revoked \cup heirs
       /\ excused' = excused \cup heirs
    /\ Answer(c, "refused", arg[c])
    /\ UNCHANGED <<issued, parent, owner, horizon, renamed, clientVars, mishaps,
                   outVars, crossed>>

\* POST /logout, scope local
ServeLogout(c) ==
    /\ Waiting(c, "logout")
    /\ revoked' = revoked \cup Chain({arg[c]})
    /\ excused' = excused \cup Chain({arg[c]})
    /\ Answer(c, "ok", arg[c])
    /\ UNCHANGED <<issued, parent, owner, horizon, renamed, clientVars, mishaps,
                   outVars, crossed>>

\* a request with a bearer token, or without one; an expired one is a 401
ServeBearer(c) ==
    /\ \E place \in {"user", "rest", "retry"} : Waiting(c, place)
    /\ Answer(c, CASE arg[c] \in 1 .. horizon -> "refused"
                   [] arg[c] # 0 /\ at[c] = "user" /\ owner[arg[c]] \in renamed -> "renamed"
                   [] OTHER -> "ok", arg[c])
    /\ UNCHANGED <<serverVars, clientVars, mishaps, historyVars>>

Expire ==
    /\ horizon < issued
    /\ horizon' = horizon + 1
    /\ UNCHANGED <<issued, parent, owner, revoked, renamed, clientVars, callVars,
                   mishaps, historyVars>>

\* an email change of the user is confirmed
Rename(u) ==
    /\ u \notin renamed
    /\ renamed' = renamed \cup {u}
    /\ mishaps < MaxMishaps /\ mishaps' = mishaps + 1
    /\ UNCHANGED <<issued, parent, owner, revoked, horizon, clientVars, callVars,
                   historyVars>>

\* The rotation whose answer call c is still to read, if there is one.
Unread(c) ==
    IF at[c] = "refresh" /\ ans[c] \in Good THEN {parent[arg[c]]} ELSE {}

(***************************************************************************)
(* The request or its answer is lost, the answer is a 5xx, or its body     *)
(* cannot be read: all of them end a session call alike.  A server that    *)
(* has issued MaxPairs pairs answers so too.                               *)
(***************************************************************************)
Fail(c) ==
    /\ at[c] \in Endpoints
    /\ ans[c] # "network"
    /\ \/ mishaps < MaxMishaps /\ mishaps' = mishaps + 1
       \/ /\ issued = MaxPairs /\ ans[c] = "none"
          /\ at[c] = "token" \/ (at[c] = "refresh" /\ arg[c] \notin revoked)
          /\ UNCHANGED mishaps
    /\ excused' = excused \cup Unread(c)
    /\ Answer(c, "network", 0)
    /\ UNCHANGED <<serverVars, clientVars, outVars, crossed>>

-----------------------------------------------------------------------------
(* The client: sessions.                                                   *)

\* signUp, signInWithPassword
SignIn(c, u) ==
    /\ Begin(c, "signIn")
    /\ Goto(c, "token", u)
    /\ out' = "no" /\ carried' = {} /\ recalled' = FALSE
    /\ UNCHANGED <<serverVars, clientVars, tried, mishaps, excused, crossed>>

\* The user in the answer that call c has.
UserOf(c) == <<owner[arg[c]], ans[c] = "renamed">>

\* Call c takes over the pair a and the user u of an answer.
Adopt(c, a, u) ==
    /\ SetSession(a, a, u)
    /\ Tell(c, a)
    /\ Goto(c, "emit", a)
    /\ out' = IF out = "asked" /\ c \in carried THEN "overtaken" ELSE out
    /\ KeepCall

\* A 202 has a user and no tokens, and is taken over like a session.
SignInAnswered(c) ==
    /\ at[c] = "token"
    /\ \/ /\ ans[c] \in Good
          /\ Adopt(c, arg[c], UserOf(c))
       \/ /\ ans[c] = "pending"
          /\ Adopt(c, 0, <<arg[c], FALSE>>)
       \/ /\ ans[c] \in {"refused", "network"}
          /\ Done(c)
          /\ UNCHANGED <<tokenVars, announce, out, crossed>>
    /\ UNCHANGED <<serverVars, socket, starter, reading, mishaps, excused,
                   carried, recalled>>

\* The session is gone before the server is asked to revoke it.
SignOut(c) ==
    /\ refresh # 0
    /\ Begin(c, "signOut")
    /\ ClearSession
    /\ Tell(c, 0)
    /\ Goto(c, "emit", refresh)
    /\ out' = "asked"
    /\ carried' = {d \in Calls : at[d] \in {"token", "refresh"}}
    /\ recalled' = (reading # NoPair)
    /\ UNCHANGED <<serverVars, socket, starter, reading, tried, mishaps, excused>>

SignOutAnswered(c) ==
    /\ at[c] = "logout" /\ ans[c] # "none"
    /\ Done(c)
    /\ UNCHANGED <<serverVars, clientVars, mishaps, historyVars>>

(***************************************************************************)
(* The token that call c presented to /refresh.                            *)
(***************************************************************************)
Presented(c) == IF ans[c] \in Good THEN parent[arg[c]] ELSE arg[c]

(***************************************************************************)
(* Call c, a refresh of the application or the first to be answered 401,   *)
(* begins to refresh.                                                      *)
(***************************************************************************)
RefreshSession(c, name) ==
    /\ IF refresh = 0
       THEN ClearSession /\ Tell(c, 0) /\ Goto(c, "emit", 0)
       ELSE Goto(c, "refresh", refresh) /\ UNCHANGED <<tokenVars, announce, crossed>>
    /\ excused' = excused \cup {t \in {refresh} \ {0} : \E d \in Calls \ {c} :
          /\ at[d] = "refresh" /\ Presented(d) = t
          /\ "refresh" \in {name, op[d]}}

Refresh(c) ==
    /\ Begin(c, "refresh")
    /\ RefreshSession(c, "refresh")
    /\ UNCHANGED <<serverVars, socket, starter, reading, tried, mishaps, outVars>>

\* mutant of Landed: the promise of the refresh is never taken away
Landed_Kept(c) == starter

\* _refreshInFlight when the refresh of call c is over
Landed(c) == IF starter = c THEN NoCall ELSE starter

\* mutant of RetryToken: the headers are read before the refresh
RetryToken_First(d) == tried[d]

\* The token that a repeated request carries: the one of now.
RetryToken(d) == access

(***************************************************************************)
(* The refresh of call c is over.  If it served requests that were         *)
(* answered 401, each of them goes out once more, or its caller gets the   *)
(* 401.                                                                    *)
(***************************************************************************)
EndRefresh(c, won) ==
    LET waiting == {d \in Calls : d = c \/ (op[c] = "rest" /\ at[d] = "join")}
        again == IF won /\ op[c] = "rest" THEN waiting ELSE {}
        ended == waiting \ again IN
    /\ at' = [d \in Calls |-> IF d \in again THEN "retry"
                              ELSE IF d \in ended THEN "idle" ELSE at[d]]
    /\ arg' = [d \in Calls |-> IF d \in again THEN RetryToken(d)
                               ELSE IF d \in ended THEN 0 ELSE arg[d]]
    /\ ans' = [d \in Calls |-> IF d \in waiting THEN "none" ELSE ans[d]]
    /\ op' = [d \in Calls |-> IF d \in ended THEN "none" ELSE op[d]]
    /\ tried' = [d \in Calls |-> IF d \in ended THEN 0 ELSE tried[d]]
    /\ starter' = Landed(c)

\* mutant of RefreshFailed: whatever the error, the session is dropped
RefreshFailed_Any(c) ==
    /\ ClearSession
    /\ Tell(c, 0)
    /\ Goto(c, "emit", 0)
    /\ KeepCall /\ UNCHANGED starter

(***************************************************************************)
(* A 4xx drops the session that is there, a failure keeps it.              *)
(***************************************************************************)
RefreshFailed(c) ==
    IF ans[c] \in {"refused", "barred"}
    THEN /\ ClearSession
         /\ Tell(c, 0)
         /\ Goto(c, "emit", 0)
         /\ KeepCall /\ UNCHANGED starter
    ELSE EndRefresh(c, FALSE) /\ UNCHANGED <<tokenVars, announce, crossed>>

RefreshAnswered(c) ==
    /\ at[c] = "refresh"
    /\ \/ /\ ans[c] \in Good
          /\ Adopt(c, arg[c], UserOf(c)) /\ UNCHANGED starter
       \/ /\ ans[c] \in {"refused", "barred", "network"}
          /\ RefreshFailed(c) /\ UNCHANGED out
    /\ UNCHANGED <<serverVars, socket, reading, mishaps, excused, carried, recalled>>

GetUser(c) ==
    /\ access # 0
    /\ Begin(c, "getUser")
    /\ Goto(c, "user", access)
    /\ UNCHANGED <<serverVars, clientVars, tried, mishaps, historyVars>>

\* The row is compared with the user of now, and kept with the token of then.
GetUserAnswered(c) ==
    /\ at[c] = "user" /\ ans[c] # "none"
    /\ IF ans[c] \in Good /\ cached # NoUser /\ cached # UserOf(c)
       THEN /\ SetSession(arg[c], refresh, UserOf(c))
            /\ Tell(c, arg[c])
            /\ Goto(c, "emit", arg[c])
            /\ KeepCall
       ELSE Done(c) /\ UNCHANGED <<tokenVars, announce, crossed>>
    /\ UNCHANGED <<serverVars, socket, starter, reading, mishaps, excused, outVars>>

\* restoreSession reads the storage,
RestoreSession ==
    /\ stored # NoPair /\ reading = NoPair
    /\ reading' = stored
    /\ UNCHANGED <<serverVars, tokenVars, socket, starter, announce, callVars,
                   mishaps, historyVars>>

\* and takes over what it has read, whatever became of the session since.
\* The listener hears of it in the same turn.
AdoptStored ==
    /\ reading # NoPair
    /\ access' = reading[1] /\ refresh' = reading[2]
    /\ socket' = reading[1]
    /\ reading' = NoPair
    /\ out' = IF out = "asked" /\ recalled THEN "overtaken" ELSE out
    /\ recalled' = FALSE
    /\ crossed' = (announce # <<>> /\ (crossed \/ reading[1] # access))
    /\ UNCHANGED <<serverVars, cached, stored, starter, announce, callVars,
                   mishaps, excused, carried>>

-----------------------------------------------------------------------------
(* The client: requests.                                                   *)

\* A request with the headers of now: from and rpc have the auto-refresh
\* interceptor, storage and functions have not.
Rest(c) ==
    /\ Begin(c, "rest")
    /\ Goto(c, "rest", access)
    /\ tried' = [tried EXCEPT ![c] = access]
    /\ UNCHANGED <<serverVars, clientVars, mishaps, historyVars>>

\* mutant of Handle401: every 401 starts a refresh
Handle401_Each(c) ==
    /\ RefreshSession(c, "rest")
    /\ starter' = c

(***************************************************************************)
(* The first of several 401s refreshes, the others wait for its end.       *)
(***************************************************************************)
Handle401(c) ==
    IF starter # NoCall
    THEN /\ Goto(c, "join", 0)
         /\ UNCHANGED <<tokenVars, announce, crossed, starter, excused>>
    ELSE RefreshSession(c, "rest") /\ starter' = c

RestAnswered(c) ==
    /\ at[c] = "rest"
    /\ ans[c] # "none"
    /\ \/ Done(c) /\ UNCHANGED <<tokenVars, announce, crossed, starter, excused>>
       \/ ans[c] = "refused" /\ Handle401(c) /\ KeepCall
    /\ UNCHANGED <<serverVars, socket, reading, mishaps, outVars>>

\* The second answer is the caller's, whatever it is.
RetryAnswered(c) ==
    /\ at[c] = "retry" /\ ans[c] # "none"
    /\ Done(c)
    /\ UNCHANGED <<serverVars, clientVars, mishaps, historyVars>>

-----------------------------------------------------------------------------
(* The client: listeners, and the page.                                    *)

(***************************************************************************)
(* The session that an announcement carries; USER_UPDATED takes a fresh    *)
(* snapshot.                                                               *)
(***************************************************************************)
Announced(e) == IF op[e.call] = "getUser" THEN access ELSE e.session

(***************************************************************************)
(* _emit: the constructor's listener gives the realtime client the token,  *)
(* and the call goes on.                                                   *)
(***************************************************************************)
Emit ==
    /\ announce # <<>>
    /\ LET c == Head(announce).call IN
       /\ socket' = Announced(Head(announce))
       /\ announce' = Tail(announce)
       /\ IF op[c] = "signOut"
          THEN Goto(c, "logout", arg[c]) /\ KeepCall /\ UNCHANGED starter
          ELSE EndRefresh(c, arg[c] # 0)
    /\ UNCHANGED <<serverVars, tokenVars, reading, mishaps, historyVars>>

\* The page is loaded again: memory and what was under way are gone.
Reload ==
    /\ mishaps < MaxMishaps
    /\ mishaps' = mishaps + 1
    /\ excused' = excused \cup UNION {Unread(c) : c \in Calls}
    /\ access' = 0 /\ refresh' = 0 /\ cached' = NoUser
    /\ socket' = 0 /\ starter' = NoCall /\ announce' = <<>> /\ reading' = NoPair
    /\ op' = [c \in Calls |-> "none"]
    /\ at' = [c \in Calls |-> "idle"]
    /\ arg' = [c \in Calls |-> 0]
    /\ ans' = [c \in Calls |-> "none"]
    /\ tried' = [c \in Calls |-> 0]
    /\ carried' = {} /\ recalled' = FALSE /\ crossed' = FALSE
    /\ UNCHANGED <<serverVars, stored, out>>

Serve(c) ==
    \/ ServeToken(c) \/ ServeRotation(c) \/ ServeBarred(c) \/ ServeReuse(c)
    \/ ServeLogout(c) \/ ServeBearer(c)

Ask(c) ==
    \/ \E u \in Users : SignIn(c, u)
    \/ SignOut(c) \/ Refresh(c) \/ GetUser(c) \/ Rest(c)

(***************************************************************************)
(* An answer is a task of its own: the turns that are due run before it.   *)
(***************************************************************************)
GoOn(c) ==
    /\ announce = <<>> /\ reading = NoPair
    /\ \/ SignInAnswered(c) \/ SignOutAnswered(c) \/ RefreshAnswered(c)
       \/ GetUserAnswered(c) \/ RestAnswered(c) \/ RetryAnswered(c)

Next ==
    \/ \E c \in Calls : Ask(c) \/ Serve(c) \/ Fail(c) \/ GoOn(c)
    \/ RestoreSession \/ AdoptStored \/ Emit \/ Reload
    \/ Expire
    \/ \E u \in Users : Rename(u)

Spec == Init /\ [][Next]_vars

-----------------------------------------------------------------------------
(* The variables have their types.                                         *)
TypeOK ==
    /\ issued \in 0 .. MaxPairs
    /\ parent \in [Pairs -> 0 .. MaxPairs]
    /\ owner \in [Pairs -> Users \cup {NoUser}]
    /\ revoked \subseteq Issued /\ excused \subseteq Issued
    /\ horizon \in 0 .. issued
    /\ renamed \subseteq Users
    /\ access \in 0 .. issued /\ refresh \in 0 .. issued
    /\ cached \in {NoUser} \cup Users \X BOOLEAN
    /\ stored \in (0 .. issued) \X (0 .. issued)
    /\ socket \in 0 .. issued
    /\ starter \in Calls \cup {NoCall}
    /\ announce \in Seq([call : Calls, session : 0 .. issued])
    /\ reading \in (0 .. issued) \X (0 .. issued)
    /\ op \in [Calls -> Ops] /\ at \in [Calls -> Places] /\ ans \in [Calls -> Answers]
    /\ \A c \in Calls : arg[c] \in 0 .. issued \/ (at[c] = "token" /\ arg[c] \in Users)
    /\ tried \in [Calls -> 0 .. issued]
    /\ mishaps \in 0 .. MaxMishaps
    /\ out \in {"no", "asked", "overtaken"}
    /\ carried \subseteq Calls
    /\ recalled \in BOOLEAN /\ crossed \in BOOLEAN

(***************************************************************************)
(* However many requests are answered 401 and whenever, the client on its  *)
(* own never presents a token twice: the server sees a revoked token only  *)
(* after an answer was lost, after the application refreshed next to the   *)
(* client, or after a sign-out (_handle401, client.ts).                    *)
(***************************************************************************)
ReuseHasACause ==
    [][\A c \in Calls : ServeReuse(c) => arg[c] \in excused]_vars

(***************************************************************************)
(* Once the listeners have heard of every change, the realtime socket has  *)
(* the token of the session, through any interleaving of sign-ins,         *)
(* refreshes, sign-outs and restores (constructor and _emit).  One order   *)
(* parts them, and until the next change only: a restoreSession adopts its *)
(* pair and is announced at once while a change of before it is still to   *)
(* be announced, and that one has the last word.                           *)
(***************************************************************************)
SocketFollows == announce = <<>> => socket = access \/ crossed

(***************************************************************************)
(* After a sign-out there is no session, and none comes back with a page   *)
(* load, a restoreSession or a refresh: only a sign-in, a refresh or a     *)
(* restoreSession that was under way when it was asked may bring one       *)
(* (signOut, restoreSession, refreshSession).                              *)
(***************************************************************************)
OutUnlessOvertaken == out = "asked" => access = 0

(***************************************************************************)
(* A session whose refresh token is not revoked is dropped only by a       *)
(* sign-out, by a page load, by the refusal of an other token or of the    *)
(* account, or by a sign-up that is answered without a session: a failing  *)
(* server or network costs nobody a session.                               *)
(***************************************************************************)
LiveSessionsAreKept ==
    [][access # 0 /\ refresh # 0 /\ refresh \notin revoked /\ access' = 0 =>
        \/ out' = "asked" \/ mishaps' > mishaps
        \/ \E c \in Calls : at'[c] # at[c] /\
              \/ at[c] = "refresh" /\ ans[c] = "refused" /\ arg[c] # refresh
              \/ at[c] = "refresh" /\ ans[c] = "barred"
              \/ at[c] = "token" /\ ans[c] = "pending"]_vars

(***************************************************************************)
(* "A token rotation after a refresh is visible on the very next request"  *)
(* (client.ts): a request is repeated with an other token than the one     *)
(* that was refused, unless a late answer of getUser put that one back.    *)
(***************************************************************************)
RetryIsFresh ==
    [][\A c \in Calls : at[c] \in {"join", "emit"} /\ at'[c] = "retry" =>
        arg'[c] # tried[c] \/ access # refresh]_vars

(***************************************************************************)
(* Nobody waits for a refresh that is over: while requests wait, the one   *)
(* that was answered 401 first is refreshing (_handle401, client.ts).      *)
(***************************************************************************)
WaitersAreServed ==
    /\ starter # NoCall => op[starter] = "rest" /\ at[starter] \in {"refresh", "emit"}
    /\ \A c \in Calls : at[c] = "join" => starter # NoCall

(***************************************************************************)
(* What storage, functions and the sign-out do on the server they report   *)
(* as done: no success is read as a failed connection (errors.ts).         *)
(***************************************************************************)
SuccessIsTold ==
    \A c \in Calls : ans[c] \in Good /\ at[c] \in {"rest", "logout"} =>
        \A o \in DOMAIN Success : \A r \in Success[o] : Told(o, r) \in {"data", "null"}

(***************************************************************************)
(* Whoever calls gets an answer, and a success is answered as one.         *)
(***************************************************************************)
CallersAreServed == WaitersAreServed /\ SuccessIsTold
=============================================================================
