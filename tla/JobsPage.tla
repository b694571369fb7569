------------------------------ MODULE JobsPage ------------------------------
(***************************************************************************)
(* The job queue's page in the operator console: a drawer on a copy of a   *)
(* row, with a retry and a cancel that its copy of the status offers,      *)
(* against jobs that workers go on with meanwhile.  Filters and pages of   *)
(* its list are in ConsoleLists.                                           *)
(***************************************************************************)
EXTENDS Naturals

CONSTANTS
    Jobs,
    MaxMoves,    \* bound: steps of the workers
    MaxActs,     \* bound: actions begun
    MaxAsked     \* bound: requests for the list

NoJob == "none"
JobsAssumption == NoJob \notin Jobs

VARIABLES
    status, handled,    \* the rows, and the jobs a handler is working on
    list,               \* the rows shown, [n, st, acted], n = 0 before any
    requests,           \* for the list, in flight, [n, st, acted]
    error,
    selected,           \* the row in the drawer, [job, st]
    acts,               \* actions under way, [act, kind, on, stage]
    asked, begun, moves,
    acted,              \* operators' actions that each row has taken
    ended, requeued,    \* history: ends as failed or cancelled; retries taken
    seen,               \* history: the last of our actions the server confirmed
    newest, late        \* history: the last answer shown came after a newer one

jobsVars == <<status, handled, list, requests, error, selected, acts, asked, begun, moves,
              acted, ended, requeued, seen, newest, late>>

Statuses == {"queued", "running", "succeeded", "failed", "cancelled"}
Retryable == {"failed", "cancelled"}
Closed == [job |-> NoJob, st |-> "none"]
Unserved == [j \in Jobs |-> "none"]
Zero == [j \in Jobs |-> 0]
Request(n) == [n |-> n, st |-> Unserved, acted |-> Zero]

Init ==
    /\ status = [j \in Jobs |-> "queued"] /\ handled = {}
    /\ list = [n |-> 0, st |-> Unserved, acted |-> Zero]
    /\ requests = {Request(1)} /\ asked = 1
    /\ error = FALSE
    /\ selected = Closed /\ acts = {}
    /\ begun = 0 /\ moves = 0
    /\ acted = Zero /\ ended = Zero /\ requeued = Zero /\ seen = Zero
    /\ newest = 0 /\ late = FALSE

rowVars == <<status, handled, acted, ended, requeued>>
pageVars == <<list, requests, error, selected, acts, asked, begun, seen, newest, late>>

Becomes(j, st) ==
    /\ status' = [status EXCEPT ![j] = st]
    /\ ended' = IF st \in Retryable /\ status[j] \notin Retryable
                THEN [ended EXCEPT ![j] = @ + 1] ELSE ended

-----------------------------------------------------------------------------
(* The workers.  The outcome of a handler is recorded by id alone.         *)

Claim(j) ==
    /\ status[j] = "queued" /\ j \notin handled /\ moves < MaxMoves
    /\ Becomes(j, "running")
    /\ handled' = handled \cup {j} /\ moves' = moves + 1
    /\ UNCHANGED <<pageVars, acted, requeued>>

HandlerEnds(j, st) ==
    /\ j \in handled /\ moves < MaxMoves
    /\ Becomes(j, st)
    /\ handled' = handled \ {j} /\ moves' = moves + 1
    /\ UNCHANGED <<pageVars, acted, requeued>>

-----------------------------------------------------------------------------
(* The list.                                                               *)

Refresh ==
    /\ asked < MaxAsked
    /\ asked' = asked + 1
    /\ requests' = requests \cup {Request(asked + 1)}
    /\ error' = FALSE

\* another search, filter or page, or the button of the error
RefreshAgain ==
    /\ selected = Closed
    /\ Refresh
    /\ UNCHANGED <<rowVars, moves, list, selected, acts, begun, seen, newest, late>>

Serve(r) ==
    /\ r.st = Unserved
    /\ requests' = (requests \ {r}) \cup {[r EXCEPT !.st = status, !.acted = acted]}
    /\ UNCHANGED <<rowVars, moves, list, error, selected, acts, asked, begun, seen, newest, late>>

Answer(r) ==
    /\ r.st # Unserved
    /\ list' = r
    /\ requests' = requests \ {r}
    /\ late' = (r.n < newest)
    /\ newest' = IF r.n > newest THEN r.n ELSE newest
    /\ UNCHANGED <<rowVars, moves, error, selected, acts, asked, begun, seen>>

Fail(r) ==
    /\ error' = TRUE
    /\ requests' = requests \ {r}
    /\ UNCHANGED <<rowVars, moves, list, selected, acts, asked, begun, seen, newest, late>>

-----------------------------------------------------------------------------
(* The drawer.                                                             *)

\* the spinner takes clicks while a request is under way; its flag is
\* cleared by whichever answer comes first
openDrawer(j) ==
    /\ selected = Closed /\ list.n # 0
    /\ selected' = [job |-> j, st |-> list.st[j]]
    /\ UNCHANGED <<rowVars, moves, list, requests, error, acts, asked, begun, seen, newest, late>>

Dialog == {a \in acts : a.stage = "dialog"}

\* the drawer shows its copy of the row
ShowsJob == selected # Closed

closeDrawer ==
    /\ ShowsJob /\ Dialog = {}
    /\ selected' = Closed
    /\ UNCHANGED <<rowVars, moves, list, requests, error, acts, asked, begun, seen, newest, late>>

\* the buttons, by the status the row had in the list
Offered ==
    {k \in {"retry", "cancel"} :
        selected.st \in (IF k = "retry" THEN Retryable ELSE {"queued"})}

\* handleRetry, handleCancel: the dialog ...
Ask(k) ==
    /\ ShowsJob /\ Dialog = {} /\ begun < MaxActs
    /\ k \in Offered
    /\ begun' = begun + 1
    /\ acts' = acts \cup {[act |-> begun + 1, kind |-> k, on |-> NoJob, stage |-> "dialog"]}
    /\ UNCHANGED <<rowVars, moves, list, requests, error, selected, asked, seen, newest, late>>

\* ... the request for the row that is selected by then, or, without one,
\* an error that is shown as if the server had refused ...
Confirm(a) ==
    /\ a.stage = "dialog"
    /\ acts' = (acts \ {a}) \cup
               (IF selected = Closed THEN {}
                ELSE {[a EXCEPT !.on = selected.job, !.stage = "post"]})
    /\ UNCHANGED <<rowVars, moves, list, requests, error, selected, asked, begun, seen,
                   newest, late>>

Dismiss(a) ==
    /\ a.stage = "dialog"
    /\ acts' = acts \ {a}
    /\ UNCHANGED <<rowVars, moves, list, requests, error, selected, asked, begun, seen,
                   newest, late>>

\* mutant of Takes: the update goes by id
Takes_Always(k, j) == TRUE

\* ... what the row must be for the server to do it ...
Takes(k, j) ==
    status[j] \in (IF k = "retry" THEN Retryable ELSE {"queued", "running"})

ServeAct(a) ==
    /\ a.stage = "post"
    /\ IF Takes(a.kind, a.on)
       THEN /\ Becomes(a.on, IF a.kind = "retry" THEN "queued" ELSE "cancelled")
            /\ acted' = [acted EXCEPT ![a.on] = @ + 1]
            /\ requeued' = IF a.kind = "retry" THEN [requeued EXCEPT ![a.on] = @ + 1]
                           ELSE requeued
            /\ acts' = (acts \ {a}) \cup {[a EXCEPT !.stage = "done"]}
       ELSE /\ acts' = (acts \ {a}) \cup {[a EXCEPT !.stage = "failed"]}
            /\ UNCHANGED <<status, acted, ended, requeued>>
    /\ UNCHANGED <<handled, moves, list, requests, error, selected, asked, begun, seen,
                   newest, late>>

\* mutant of Acted: the drawer closes, the list stays as it was
Acted_NotShown == selected' = Closed /\ UNCHANGED <<requests, asked, error>>

\* ... and then the drawer, whichever row it shows, closes, and the list is
\* loaded again.
Acted == selected' = Closed /\ Refresh

ActAnswered(a) ==
    /\ a.stage = "done"
    /\ Acted
    /\ acts' = acts \ {a}
    /\ seen' = [seen EXCEPT ![a.on] = acted[a.on]]
    /\ UNCHANGED <<rowVars, moves, list, begun, newest, late>>

\* refused, or lost before or after it was served: a toast
ActFailed(a) ==
    /\ a.stage \in {"post", "failed", "done"}
    /\ acts' = acts \ {a}
    /\ UNCHANGED <<rowVars, moves, list, requests, error, selected, asked, begun, seen,
                   newest, late>>

Next ==
    \/ \E j \in Jobs : \/ Claim(j) \/ openDrawer(j)
                       \/ \E st \in {"succeeded", "failed", "queued"} : HandlerEnds(j, st)
    \/ RefreshAgain \/ closeDrawer
    \/ \E r \in requests : Serve(r) \/ Answer(r) \/ Fail(r)
    \/ \E k \in {"retry", "cancel"} : Ask(k)
    \/ \E a \in acts : Confirm(a) \/ Dismiss(a) \/ ServeAct(a) \/ ActAnswered(a) \/ ActFailed(a)

Spec == Init /\ [][Next]_jobsVars

-----------------------------------------------------------------------------
(* However old the copies are that operators act on, one end of a job is   *)
(* answered by one retry: a job that runs, waits or succeeded is not put   *)
(* back.                                                                   *)
OneRetryPerEnd == \A j \in Jobs : requeued[j] <= ended[j]

(* When nothing is awaited, the list shows what our actions did, unless    *)
(* its answers came in another order.                                      *)
ActionsAreListed ==
    requests = {} /\ acts = {} /\ ~error /\ ~late => \A j \in Jobs : list.acted[j] >= seen[j]

-----------------------------------------------------------------------------
(* What is inductive.                                                      *)

JobsShape ==
    /\ status \in [Jobs -> Statuses]
    /\ ended \in [Jobs -> Nat] /\ requeued \in [Jobs -> Nat]
    /\ acted \in [Jobs -> Nat] /\ seen \in [Jobs -> Nat]
    /\ asked \in Nat /\ newest \in Nat /\ newest <= asked
    /\ \A r \in requests :
          /\ r = [n |-> r.n, st |-> r.st, acted |-> r.acted]
          /\ r.n \in Nat /\ r.n <= asked
          /\ r.acted \in [Jobs -> Nat]
    /\ list.acted \in [Jobs -> Nat]

\* an action that was confirmed is on a job
ActsShape ==
    /\ begun \in Nat
    /\ selected # Closed => selected.job \in Jobs
    /\ acts \subseteq [act : Nat, kind : {"retry", "cancel"}, on : Jobs \cup {NoJob},
                       stage : {"dialog", "post", "done", "failed"}]
    /\ \A a \in acts : a.stage # "dialog" => a.on \in Jobs

\* a job that may be retried has ended once more than it was put back
EndsAreAhead ==
    \A j \in Jobs : requeued[j] <= ended[j] /\ (status[j] \in Retryable => requeued[j] < ended[j])

SeenIsDone == \A j \in Jobs : seen[j] <= acted[j]

\* rows in which all that was confirmed shows
IsCurrent(rows) == \A j \in Jobs : rows[j] >= seen[j]

\* a request that will answer with such rows, sent after n
NewsAfter(n) == \E r \in requests : r.n > n /\ (r.st = Unserved \/ IsCurrent(r.acted))

\* rows that are older do not stay: later ones are on their way, or the
\* error with its button is there
OldIsFollowed ==
    ~error =>
        /\ ~late /\ ~IsCurrent(list.acted) => NewsAfter(newest)
        /\ \A r \in requests :
              r.st # Unserved /\ r.n >= newest /\ ~IsCurrent(r.acted) => NewsAfter(r.n)

JobsInv == JobsShape /\ ActsShape /\ EndsAreAhead /\ SeenIsDone /\ OldIsFollowed
=============================================================================
