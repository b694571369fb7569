------------------------------ MODULE BackupPage ------------------------------
(***************************************************************************)
(* Backups: the row and the job the admin API creates together, the job's  *)
(* attempts, and the page that lists the rows, polls while one is running  *)
(* and keeps its drawer in step with the list.                             *)
(*                                                                         *)
(* The handler of the job runs in one transaction, so what it writes is    *)
(* seen when it returns, and nothing of it when it raises.                 *)
(***************************************************************************)
EXTENDS Naturals, FiniteSets

CONSTANTS
    MaxBackups,    \* bound: backups started
    MaxAttempts,   \* of the job
    MaxAsked       \* bound: requests for the list

VARIABLES
    started,       \* backups 1 .. started exist
    status,        \* of each row
    attempts,      \* failed attempts of each job
    list,          \* the rows shown, none before the first answer
    requests,      \* [n, poll, got], got None until served
    asked,
    loading, error,
    timer,         \* the interval that polls is set
    drawer,        \* the row it was opened on, [id, st]
    starting,      \* handleStart
    mounted

backupVars == <<started, status, attempts, list, requests, asked, loading, error, timer,
                drawer, starting, mounted>>

Backups == 1 .. MaxBackups
None == [rows |-> <<>>, of |-> "nothing"]
Closed == [id |-> 0, st |-> "none"]
JobEnded(b) == status[b] = "completed" \/ attempts[b] = MaxAttempts

\* what the server answers: its rows
Rows == [rows |-> [b \in 1 .. started |-> status[b]], of |-> "rows"]

Init ==
    /\ started = 0
    /\ status = [b \in Backups |-> "none"] /\ attempts = [b \in Backups |-> 0]
    /\ list = None
    /\ requests = {[n |-> 1, poll |-> FALSE, got |-> None]} /\ asked = 1
    /\ loading = TRUE /\ error = FALSE
    /\ timer = FALSE /\ drawer = Closed /\ starting = "no" /\ mounted = TRUE

serverState == <<started, status, attempts>>
clientState == <<list, requests, asked, loading, error, timer, drawer, starting, mounted>>

-----------------------------------------------------------------------------
(* The server.                                                             *)

\* start_backup: the row is running from its insert
ServeStart ==
    /\ starting = "post" /\ started < MaxBackups
    /\ started' = started + 1
    /\ status' = [status EXCEPT ![started + 1] = "running"]
    /\ starting' = "done"
    /\ UNCHANGED <<attempts, list, requests, asked, loading, error, timer, drawer, mounted>>

JobSucceeds(b) ==
    /\ b <= started /\ ~JobEnded(b)
    /\ status' = [status EXCEPT ![b] = "completed"]
    /\ UNCHANGED <<started, attempts, clientState>>

\* the file is gone and the row marked failed; raising undoes the mark
JobFails(b) ==
    /\ b <= started /\ ~JobEnded(b)
    /\ attempts' = [attempts EXCEPT ![b] = @ + 1]
    /\ UNCHANGED <<started, status, clientState>>

Serve(r) ==
    /\ r.got = None
    /\ requests' = (requests \ {r}) \cup {[r EXCEPT !.got = Rows]}
    /\ UNCHANGED <<serverState, list, asked, loading, error, timer, drawer, starting, mounted>>

-----------------------------------------------------------------------------
(* The page.                                                               *)

Refresh ==
    /\ asked < MaxAsked
    /\ asked' = asked + 1
    /\ requests' = requests \cup {[n |-> asked + 1, poll |-> FALSE, got |-> None]}
    /\ loading' = TRUE /\ error' = FALSE

hasRunning(l) == \E b \in DOMAIN l.rows : l.rows[b] = "running"

\* mutant of Polling: the interval is set by the first running row
Polling_OnceSet(l) == timer \/ (mounted /\ hasRunning(l))

\* the watcher of hasRunning; watchers end with the page
Polling(l) == mounted /\ hasRunning(l)

\* mutant of Synced: the drawer keeps the row it was opened on
Synced_Never(l) == drawer

\* the watcher of rows
Synced(l) ==
    IF mounted /\ drawer.id \in DOMAIN l.rows THEN [drawer EXCEPT !.st = l.rows[drawer.id]]
    ELSE drawer

\* the answer of a poll is taken as any other; only a refresh has a spinner
Answer(r) ==
    /\ r.got # None
    /\ list' = r.got
    /\ timer' = Polling(r.got)
    /\ drawer' = Synced(r.got)
    /\ requests' = requests \ {r}
    /\ IF r.poll THEN UNCHANGED <<loading, starting>>
       ELSE /\ loading' = FALSE
            /\ starting' = IF starting = "refresh" THEN "no" ELSE starting
    /\ UNCHANGED <<serverState, asked, error, mounted>>

\* the error of a poll is swallowed
Fail(r) ==
    /\ requests' = requests \ {r}
    /\ IF r.poll THEN UNCHANGED <<loading, error, starting>>
       ELSE /\ loading' = FALSE /\ error' = TRUE
            /\ starting' = IF starting = "refresh" THEN "no" ELSE starting
    /\ UNCHANGED <<serverState, list, asked, timer, drawer, mounted>>

\* the interval does not wait for the poll before
pollOnce ==
    /\ timer /\ asked < MaxAsked
    /\ asked' = asked + 1
    /\ requests' = requests \cup {[n |-> asked + 1, poll |-> TRUE, got |-> None]}
    /\ UNCHANGED <<serverState, list, loading, error, timer, drawer, starting, mounted>>

Uncovered == mounted /\ starting # "dialog" /\ drawer = Closed

\* the search box, the pages, the button of an error
Reload ==
    /\ Uncovered
    /\ Refresh
    /\ UNCHANGED <<serverState, list, timer, drawer, starting, mounted>>

openDrawer(b) ==
    /\ Uncovered /\ ~loading /\ b \in DOMAIN list.rows
    /\ drawer' = [id |-> b, st |-> list.rows[b]]
    /\ UNCHANGED <<serverState, list, requests, asked, loading, error, timer, starting, mounted>>

\* the drawer shows its copy of the row
ShowsBackup == mounted /\ drawer # Closed

closeDrawer ==
    /\ ShowsBackup
    /\ drawer' = Closed
    /\ UNCHANGED <<serverState, list, requests, asked, loading, error, timer, starting, mounted>>

\* a second start while one is under way is left out
handleStart ==
    /\ \/ Uncovered /\ starting = "no" /\ starting' = "dialog"
       \/ starting = "dialog" /\ starting' \in {"no", "post"}
       \/ starting \in {"post", "done"} /\ starting' = "no"      \* the request fails
    /\ UNCHANGED <<serverState, list, requests, asked, loading, error, timer, drawer, mounted>>

StartAnswered ==
    /\ starting = "done" /\ starting' = "refresh"
    /\ Refresh
    /\ UNCHANGED <<serverState, list, timer, drawer, mounted>>

\* mutant of Unmounted: the interval outlives the page
Unmounted_KeepsTimer == timer' = timer

Unmounted == timer' = FALSE

Leave ==
    /\ Uncovered
    /\ mounted' = FALSE
    /\ Unmounted
    /\ UNCHANGED <<serverState, list, requests, asked, loading, error, drawer, starting>>

Next ==
    \/ ServeStart \/ (\E b \in Backups : JobSucceeds(b) \/ JobFails(b))
    \/ \E r \in requests : Serve(r) \/ Answer(r) \/ Fail(r)
    \/ pollOnce \/ Reload \/ closeDrawer \/ (\E b \in Backups : openDrawer(b))
    \/ handleStart \/ StartAnswered \/ Leave

Spec == Init /\ [][Next]_backupVars

-----------------------------------------------------------------------------
(* A row the page shows running is polled for, whichever answer showed it, *)
(* and nothing is polled for once no row is or the page is left.           *)
RunningIsWatched == timer = (mounted /\ hasRunning(list))

(* An open drawer says what the list behind it says.                       *)
DrawerFollowsList ==
    ShowsBackup /\ drawer.id \in DOMAIN list.rows
        => drawer.st = list.rows[drawer.id]

(* What start_backup says of its row: the job updates the status when      *)
(* done.  A job that failed for good leaves it running.                    *)
EndedJobsSaySo == \A b \in 1 .. started : JobEnded(b) => status[b] # "running"

-----------------------------------------------------------------------------
(* What is inductive.                                                      *)

BackupInv ==
    /\ drawer = [id |-> drawer.id, st |-> drawer.st]
    /\ RunningIsWatched /\ DrawerFollowsList
=============================================================================
