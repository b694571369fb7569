------------------------------ MODULE UserDrawer ------------------------------
(***************************************************************************)
(* The drawer of the users page: one user's detail, loaded when a row is   *)
(* clicked, and the three actions on that user, each behind a dialog that  *)
(* names them.                                                             *)
(*                                                                         *)
(* A request is sent for the user that is selected then, and its answer is *)
(* shown whoever is selected when it comes.  The drawer covers the table   *)
(* and a dialog covers the drawer; answers land all the same.              *)
(***************************************************************************)
EXTENDS Naturals

CONSTANTS
    Users,
    MaxAsked,    \* bound: requests for a detail
    MaxActs      \* bound: actions begun

NoUser == "none"
UsersAssumption == NoUser \notin Users

VARIABLES
    account,     \* the server: each user's ban, and how often it was acted on
    selected,    \* the drawer is open when it is a user
    detail, loading, error,
    fetches,     \* requests for a detail, [n, of, got]
    acts,        \* actions under way, [act, named, on, late, stage, n]
    asked, begun,
    since,       \* history: the requests of this opening have larger numbers
    newest, late,\* history: the last answer shown came after a newer one, or
                 \* was asked for before this opening
    seen         \* history: the last of our actions the server confirmed

drawerVars == <<account, selected, detail, loading, error, fetches, acts, asked, begun,
                since, newest, late, seen>>

Actions == {"ban", "unban", "logout"}
Stages == {"dialog", "post", "done", "fetch"}
Nothing == [of |-> NoUser, banned |-> FALSE, ver |-> 0]
Detail(u) == [of |-> u, banned |-> account[u].banned, ver |-> account[u].ver]

Init ==
    /\ account = [u \in Users |-> [banned |-> FALSE, ver |-> 0]]
    /\ selected = NoUser /\ detail = Nothing
    /\ loading = FALSE /\ error = FALSE
    /\ fetches = {} /\ acts = {}
    /\ asked = 0 /\ begun = 0 /\ since = 0 /\ newest = 0 /\ late = FALSE
    /\ seen = [u \in Users |-> 0]

Dialog == {a \in acts : a.stage = "dialog"}

-----------------------------------------------------------------------------
(* What the drawer shows: a spinner, else an error with Retry, else the    *)
(* detail with its buttons.                                                *)
ShowsRetry == selected # NoUser /\ ~loading /\ error
ShowsDetail == selected # NoUser /\ ~loading /\ ~error /\ detail # Nothing

isBanned == detail.banned

Offered == {"logout"} \cup (IF isBanned THEN {"unban"} ELSE {"ban"})

\* fetchDrawerDetail, up to its await
Fetch(u) ==
    /\ asked < MaxAsked
    /\ asked' = asked + 1
    /\ loading' = TRUE /\ error' = FALSE
    /\ fetches' = fetches \cup {[n |-> asked + 1, of |-> u, got |-> Nothing]}

openDrawer(u) ==
    /\ selected = NoUser
    /\ selected' = u
    /\ detail' = Nothing
    /\ Fetch(u)
    /\ since' = asked /\ newest' = asked /\ late' = FALSE
    /\ UNCHANGED <<account, acts, begun, seen>>

closeDrawer ==
    /\ selected # NoUser /\ Dialog = {}
    /\ selected' = NoUser
    /\ detail' = Nothing /\ error' = FALSE
    /\ UNCHANGED <<account, loading, fetches, acts, asked, begun, since, newest, late, seen>>

Retry ==
    /\ ShowsRetry /\ Dialog = {}
    /\ Fetch(selected)
    /\ UNCHANGED <<account, selected, detail, acts, begun, since, newest, late, seen>>

\* the answer is what the server held when it served the request
Serve(f) ==
    /\ f.of # NoUser /\ f.got = Nothing
    /\ fetches' = (fetches \ {f}) \cup {[f EXCEPT !.got = Detail(f.of)]}
    /\ UNCHANGED <<account, selected, detail, loading, error, acts, asked, begun, since,
                   newest, late, seen>>

\* a handler that waits for its own fetch ends with it: the list is next
FetchAnswered(f) ==
    /\ f.got # Nothing
    /\ detail' = f.got
    /\ loading' = FALSE
    /\ fetches' = fetches \ {f}
    /\ acts' = {a \in acts : ~(a.stage = "fetch" /\ a.n = f.n)}
    /\ late' = (f.n < newest \/ f.n <= since)
    /\ newest' = IF f.n > newest THEN f.n ELSE newest
    /\ UNCHANGED <<account, selected, error, asked, begun, since, seen>>

FetchFailed(f) ==
    /\ error' = TRUE /\ loading' = FALSE
    /\ fetches' = fetches \ {f}
    /\ acts' = {a \in acts : ~(a.stage = "fetch" /\ a.n = f.n)}
    /\ UNCHANGED <<account, selected, detail, asked, begun, since, newest, late, seen>>

-----------------------------------------------------------------------------
(* handleBan, handleUnban, handleForceLogout.                              *)

\* begins: the dialog names the user whose detail is shown
Ask(k) ==
    /\ ShowsDetail /\ Dialog = {} /\ begun < MaxActs
    /\ k \in Offered
    /\ begun' = begun + 1
    /\ acts' = acts \cup {[act |-> k, named |-> detail.of, on |-> NoUser, late |-> late,
                           stage |-> "dialog", n |-> begun + 1]}
    /\ UNCHANGED <<account, selected, detail, loading, error, fetches, asked, since, newest,
                   late, seen>>

Dismiss(a) ==
    /\ a.stage = "dialog"
    /\ acts' = acts \ {a}
    /\ UNCHANGED <<account, selected, detail, loading, error, fetches, asked, begun, since,
                   newest, late, seen>>

\* mutant of Target: the user whose detail is shown by now
Target_Shown == detail.of

\* the request is for the user that is selected
Target == selected

Confirm(a) ==
    /\ a.stage = "dialog"
    /\ acts' = (acts \ {a}) \cup {[a EXCEPT !.on = Target, !.stage = "post"]}
    /\ UNCHANGED <<account, selected, detail, loading, error, fetches, asked, begun, since,
                   newest, late, seen>>

ServeAct(a) ==
    /\ a.stage = "post"
    /\ account' = [account EXCEPT
                    ![a.on].banned = IF a.act = "logout" THEN @ ELSE (a.act = "ban"),
                    ![a.on].ver = @ + 1]
    /\ acts' = (acts \ {a}) \cup {[a EXCEPT !.stage = "done"]}
    /\ UNCHANGED <<selected, detail, loading, error, fetches, asked, begun, since, newest,
                   late, seen>>

\* mutant of Acted: the detail is loaded again for the user acted on
Acted_Captured(a) ==
    /\ Fetch(a.on)
    /\ acts' = (acts \ {a}) \cup {[a EXCEPT !.stage = "fetch", !.n = asked + 1]}

\* mutant of Acted: the toast is all that follows
Acted_NotShown(a) ==
    /\ acts' = acts \ {a}
    /\ UNCHANGED <<loading, error, fetches, asked>>

\* then the detail is loaded again for the user selected by now, if any:
\* without one the request can only fail
Acted(a) ==
    /\ Fetch(selected)
    /\ acts' = (acts \ {a}) \cup {[a EXCEPT !.stage = "fetch", !.n = asked + 1]}

ActAnswered(a) ==
    /\ a.stage = "done"
    /\ Acted(a)
    /\ seen' = [seen EXCEPT ![a.on] = account[a.on].ver]
    /\ UNCHANGED <<account, selected, detail, begun, since, newest, late>>

\* before or after the server acted
ActFailed(a) ==
    /\ a.stage \in {"post", "done"}
    /\ acts' = acts \ {a}
    /\ UNCHANGED <<account, selected, detail, loading, error, fetches, asked, begun, since,
                   newest, late, seen>>

Next ==
    \/ \E u \in Users : openDrawer(u)
    \/ closeDrawer \/ Retry
    \/ \E k \in Actions : Ask(k)
    \/ \E f \in fetches : Serve(f) \/ FetchAnswered(f) \/ FetchFailed(f)
    \/ \E a \in acts : \/ Dismiss(a) \/ Confirm(a) \/ ServeAct(a)
                       \/ ActAnswered(a) \/ ActFailed(a)

Spec == Init /\ [][Next]_drawerVars

-----------------------------------------------------------------------------
(* The detail in an open drawer is the selected user's unless an answer    *)
(* asked for before the drawer was opened came since.                      *)
DetailIsSelected ==
    selected # NoUser /\ detail # Nothing /\ detail.of # selected => late

(* When nothing is under way, the drawer shows what our confirmed actions  *)
(* on that user did, unless the answers came in another order.             *)
ActionsAreShown ==
    fetches = {} /\ acts = {} /\ ShowsDetail /\ ~late => detail.ver >= seen[detail.of]

(* An action is on the user that its dialog named, whatever is answered    *)
(* while the dialog is open, unless the detail it was begun from had come  *)
(* late and was another user's.                                            *)
ActsOnWhomItNamed == \A a \in acts : a.stage # "dialog" => a.on = a.named \/ a.late

-----------------------------------------------------------------------------
(* What is inductive.                                                      *)

DrawerShape ==
    /\ DOMAIN account = Users /\ seen \in [Users -> Nat]
    /\ \A u \in Users : /\ DOMAIN account[u] = {"banned", "ver"} /\ account[u].ver \in Nat
                        /\ seen[u] <= account[u].ver
    /\ selected \in Users \cup {NoUser}
    /\ asked \in Nat /\ since \in Nat /\ newest \in Nat /\ newest <= asked
    /\ late \in BOOLEAN
    /\ begun \in Nat
    /\ acts \subseteq [act : Actions, named : Users \cup {NoUser}, on : Users \cup {NoUser},
                       late : BOOLEAN, stage : Stages, n : Nat]

\* an answer is of the user that was asked for
FetchShape ==
    \A f \in fetches :
        /\ f = [n |-> f.n, of |-> f.of, got |-> f.got]
        /\ f.n \in Nat /\ f.n <= asked /\ f.of \in Users \cup {NoUser}
        /\ f.got # Nothing =>
              /\ f.of \in Users /\ f.got.of = f.of /\ f.got.ver \in Nat

DetailShape == detail # Nothing => detail.of \in Users /\ detail.ver \in Nat

\* the requests of this opening are for the user it was opened on
FetchIsOfSelected ==
    \A f \in fetches : selected # NoUser /\ f.n > since => f.of = selected

\* a dialog holds the drawer open, on the user that it names
DialogIsOfSelected ==
    \A a \in Dialog : selected # NoUser /\ (a.named = selected \/ a.late)

\* a request whose answer will show all that was confirmed, sent after n
NewsAfter(n) ==
    \E g \in fetches : g.n > n /\ (g.got # Nothing => g.got.ver >= seen[g.of])

\* of what was read before an action was confirmed, nothing stays shown:
\* a later answer is on its way, or the error with its Retry is there
OldIsFollowed ==
    selected # NoUser /\ ~error =>
        /\ detail # Nothing /\ ~late /\ detail.ver < seen[detail.of] => NewsAfter(newest)
        /\ \A f \in fetches :
              f.got # Nothing /\ f.n > since /\ f.n >= newest /\ f.got.ver < seen[f.of]
                  => NewsAfter(f.n)

DrawerInv ==
    /\ DrawerShape /\ FetchShape /\ DetailShape
    /\ FetchIsOfSelected /\ DialogIsOfSelected /\ OldIsFollowed
    /\ DetailIsSelected /\ ActsOnWhomItNamed
=============================================================================
