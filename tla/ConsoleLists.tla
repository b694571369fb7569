----------------------------- MODULE ConsoleLists -----------------------------
(***************************************************************************)
(* The lists of the console.  Every page that shows a list loads it with   *)
(* useResource, most through useTable: the query is what the operator      *)
(* typed, chose and turned to, a change of it sends a request, and each    *)
(* answer replaces the rows whenever it comes.                             *)
(*                                                                         *)
(* One page is visited.  A search, a filter, another input of the loader   *)
(* and an offset are 0 (nothing, the first page) or 1.                     *)
(***************************************************************************)
EXTENDS Naturals, Sequences

CONSTANTS
    Visits,      \* the pages a behaviour may be about
    MaxAsked,    \* bound: requests for the list
    MaxActs      \* bound: actions on a row

VARIABLES
    page,
    search, filter, extra, offset,
    typed, armed,      \* a text filter, and what its timer will commit
    row,               \* the drawer on a row is open
    requests,          \* in flight, [n, q, got], got the version or Unserved
    list,              \* what is shown, [n, q, ver], n = 0 before the first
    loading, error,
    acts,              \* how many actions are at each stage, and the refreshes they await
    version,           \* the server: actions done
    asked, acted,
    newest, late,      \* history: the last answer shown came after a newer one
    turnedFor,         \* history: the query the page was turned for
    seen               \* history: the version when our last action was confirmed

listVars == <<page, search, filter, extra, offset, typed, armed, row, requests, list,
              loading, error, acts, version, asked, acted, newest, late, turnedFor, seen>>

-----------------------------------------------------------------------------
(* The pages: what a change of them asks for.                              *)

\* table: useTable, with its search box and offset; sends: the loader passes
\* the search on; filter: at once, typed or none; extra: another input the
\* loader reads; acts: rows with an action; drawer: a row opens
Users     == [table |-> TRUE,  sends |-> TRUE,  filter |-> "now",   extra |-> FALSE, acts |-> FALSE, drawer |-> FALSE]
Audit     == [table |-> TRUE,  sends |-> FALSE, filter |-> "typed", extra |-> FALSE, acts |-> FALSE, drawer |-> TRUE]
Tokens    == [table |-> TRUE,  sends |-> FALSE, filter |-> "none",  extra |-> TRUE,  acts |-> TRUE,  drawer |-> FALSE]
Objects   == [table |-> TRUE,  sends |-> FALSE, filter |-> "none",  extra |-> TRUE,  acts |-> TRUE,  drawer |-> FALSE]
Crons     == [table |-> FALSE, sends |-> FALSE, filter |-> "none",  extra |-> FALSE, acts |-> TRUE,  drawer |-> FALSE]
Buckets   == [table |-> FALSE, sends |-> FALSE, filter |-> "none",  extra |-> FALSE, acts |-> FALSE, drawer |-> FALSE]
Migrations == Buckets
Enabled   == Buckets
Dashboard == Buckets
\* the queue of the jobs, whose actions are those of JobsPage
Jobs      == [Audit EXCEPT !.filter = "now"]
\* the tables of a schema, the source of a function: the input is the choice
Schemas   == [Buckets EXCEPT !.extra = TRUE]
Functions == [Buckets EXCEPT !.extra = TRUE]

Pages == [users |-> Users, audit |-> Audit, tokens |-> Tokens, objects |-> Objects,
          crons |-> Crons, buckets |-> Buckets, migrations |-> Migrations,
          enabled |-> Enabled, dashboard |-> Dashboard, jobs |-> Jobs,
          schemas |-> Schemas, functions |-> Functions]
P == Pages[page]

VisitsAssumption == Visits \subseteq DOMAIN Pages

Unserved == 99
None == 9

\* what the loader passes on
Query(s, f, x, o) ==
    [search |-> IF P.sends THEN s ELSE 0, filter |-> f, extra |-> x, offset |-> o]
Idle == [dialog |-> 0, posted |-> 0, done |-> 0, awaits |-> {}]
Request(n, q) == [n |-> n, q |-> q, got |-> Unserved]

Init ==
    /\ page \in Visits
    /\ search = 0 /\ filter = 0 /\ extra = 0 /\ offset = 0
    /\ typed = 0 /\ armed = None /\ row = FALSE
    /\ requests = {Request(1, Query(0, 0, 0, 0))}
    /\ list = [n |-> 0, q |-> Query(0, 0, 0, 0), ver |-> 0]
    /\ loading = TRUE /\ error = FALSE
    /\ acts = Idle /\ version = 0
    /\ asked = 1 /\ acted = 0
    /\ newest = 0 /\ late = FALSE /\ turnedFor = <<0, 0>> /\ seen = 0

-----------------------------------------------------------------------------
\* refresh, up to its await, for one query or for two in turn
Refresh(qs) ==
    /\ asked + Len(qs) <= MaxAsked
    /\ asked' = asked + Len(qs)
    /\ requests' = requests \cup {Request(asked + i, qs[i]) : i \in DOMAIN qs}
    /\ loading' = TRUE /\ error' = FALSE

\* mutant of Reload: the reset of the offset is not one of the dependencies
Reload_Once(s, f) ==
    IF offset = 0 THEN <<Query(s, f, extra, 0)>>
    ELSE <<Query(s, f, extra, offset)>>

\* the effect that loads runs before the watcher that resets the offset, so
\* a change made on a later page sends two requests
Reload(s, f) ==
    IF offset = 0 THEN <<Query(s, f, extra, 0)>>
    ELSE <<Query(s, f, extra, offset), Query(s, f, extra, 0)>>

\* mutant of Rewound: the filters are watched by reference
Rewound_SearchOnly(s, f) == IF s # search THEN 0 ELSE offset

Rewound(s, f) == IF s # search \/ f # filter THEN 0 ELSE offset

Change(s, f) ==
    /\ search' = s /\ filter' = f
    /\ offset' = Rewound(s, f)
    /\ Refresh(Reload(s, f))

Uncovered == acts.dialog = 0 /\ ~row
AtTable == Uncovered /\ ~loading /\ list.n # 0     \* the spinner takes clicks

inputs == <<search, filter, extra, offset, typed, armed>>
history == <<newest, late, turnedFor, seen>>

Search(s) ==
    /\ P.table /\ Uncovered /\ s # search
    /\ Change(s, filter)
    /\ UNCHANGED <<page, extra, typed, armed, row, list, acts, version, acted, history>>

\* a select, a switch or a date
SetFilter(f) ==
    /\ P.filter = "now" /\ Uncovered /\ f # filter
    /\ Change(search, f)
    /\ UNCHANGED <<page, extra, typed, armed, row, list, acts, version, acted, history>>

\* mutant of Armed: the timer that runs is left alone
Armed_First(t) == IF armed = None THEN t ELSE armed

\* each keystroke clears the timer and starts another
Armed(t) == t

Type(t) ==
    /\ P.filter = "typed" /\ Uncovered /\ t # typed
    /\ typed' = t /\ armed' = Armed(t)
    /\ UNCHANGED <<page, search, filter, extra, offset, row, requests, list, loading, error,
                   acts, version, asked, acted, history>>

\* a commit of the value there is changes nothing
Commit ==
    /\ armed # None
    /\ armed' = None
    /\ IF armed # filter THEN Change(search, armed)
       ELSE UNCHANGED <<search, filter, offset, requests, loading, error, asked>>
    /\ UNCHANGED <<page, extra, typed, row, list, acts, version, acted, history>>

\* the loader reads it, nothing rewinds
SetExtra(x) ==
    /\ P.extra /\ Uncovered /\ x # extra
    /\ extra' = x
    /\ Refresh(<<Query(search, filter, x, offset)>>)
    /\ UNCHANGED <<page, search, filter, offset, typed, armed, row, list, acts, version, acted,
                   history>>

TurnPage(o) ==
    /\ P.table /\ AtTable /\ o # offset
    /\ offset' = o
    /\ turnedFor' = <<search, filter>>
    /\ Refresh(<<Query(search, filter, extra, o)>>)
    /\ UNCHANGED <<page, search, filter, extra, typed, armed, row, list, acts, version, acted,
                   newest, late, seen>>

\* the button of the error, or the one next to another input of a table
HasRetry == error \/ (P.table /\ P.extra)

Retry ==
    /\ HasRetry /\ Uncovered
    /\ Refresh(<<Query(search, filter, extra, offset)>>)
    /\ UNCHANGED <<page, inputs, row, list, acts, version, acted, history>>

openDrawer ==
    /\ P.drawer /\ AtTable
    /\ row' = TRUE
    /\ UNCHANGED <<page, inputs, requests, list, loading, error, acts, version, asked, acted,
                   history>>

closeDrawer ==
    /\ row
    /\ row' = FALSE
    /\ UNCHANGED <<page, inputs, requests, list, loading, error, acts, version, asked, acted,
                   history>>

-----------------------------------------------------------------------------
Serve(r) ==
    /\ r.got = Unserved
    /\ requests' = (requests \ {r}) \cup {[r EXCEPT !.got = version]}
    /\ UNCHANGED <<page, inputs, row, list, loading, error, acts, version, asked, acted,
                   history>>

\* a handler that awaits its own refresh ends with it
Ended(r) == [acts EXCEPT !.awaits = @ \ {r.n}]

Answered(r) == list' = [n |-> r.n, q |-> r.q, ver |-> r.got]

\* the spinner stops whatever else is awaited
Answer(r) ==
    /\ r.got # Unserved
    /\ Answered(r)
    /\ loading' = FALSE
    /\ requests' = requests \ {r}
    /\ acts' = Ended(r)
    /\ late' = (r.n < newest)
    /\ newest' = IF r.n > newest THEN r.n ELSE newest
    /\ UNCHANGED <<page, inputs, row, error, version, asked, acted, turnedFor, seen>>

Fail(r) ==
    /\ error' = TRUE /\ loading' = FALSE
    /\ requests' = requests \ {r}
    /\ acts' = Ended(r)
    /\ UNCHANGED <<page, inputs, row, list, version, asked, acted, history>>

-----------------------------------------------------------------------------
(* Actions on rows: revoke, run now, delete.  The dialog covers the list,  *)
(* and what was confirmed does not: another may start beside it.           *)

actOnly == <<page, inputs, row, list>>

Begin ==
    /\ P.acts /\ AtTable /\ acted < MaxActs
    /\ acted' = acted + 1
    /\ acts' = [acts EXCEPT !.dialog = 1]
    /\ UNCHANGED <<actOnly, requests, loading, error, version, asked, history>>

Dismiss ==
    /\ acts.dialog = 1
    /\ acts' = [acts EXCEPT !.dialog = 0]
    /\ UNCHANGED <<actOnly, requests, loading, error, version, asked, acted, history>>

Confirm ==
    /\ acts.dialog = 1
    /\ acts' = [acts EXCEPT !.dialog = 0, !.posted = @ + 1]
    /\ UNCHANGED <<actOnly, requests, loading, error, version, asked, acted, history>>

ServeAct ==
    /\ acts.posted > 0
    /\ acts' = [acts EXCEPT !.posted = @ - 1, !.done = @ + 1]
    /\ version' = version + 1
    /\ UNCHANGED <<actOnly, requests, loading, error, asked, acted, history>>

\* mutant of Acted: no refresh follows
Acted_NotShown ==
    acts' = [acts EXCEPT !.done = @ - 1] /\ UNCHANGED <<requests, loading, error, asked>>

Acted ==
    /\ Refresh(<<Query(search, filter, extra, offset)>>)
    /\ acts' = [acts EXCEPT !.done = @ - 1, !.awaits = @ \cup {asked'}]

ActAnswered ==
    /\ acts.done > 0
    /\ Acted
    /\ seen' = version
    /\ UNCHANGED <<actOnly, version, acted, newest, late, turnedFor>>

\* refused or lost, or done and its answer lost
ActFailed ==
    /\ \/ acts.posted > 0 /\ acts' = [acts EXCEPT !.posted = @ - 1]
       \/ acts.done > 0 /\ acts' = [acts EXCEPT !.done = @ - 1]
    /\ UNCHANGED <<actOnly, requests, loading, error, version, asked, acted, history>>

Next ==
    \/ \E v \in {0, 1} : \/ Search(v) \/ SetFilter(v) \/ Type(v) \/ SetExtra(v)
                         \/ TurnPage(v)
    \/ Commit \/ Retry \/ openDrawer \/ closeDrawer
    \/ \E r \in requests : Serve(r) \/ Answer(r) \/ Fail(r)
    \/ Begin \/ Dismiss \/ Confirm \/ ServeAct \/ ActAnswered \/ ActFailed

Spec == Init /\ [][Next]_listVars

-----------------------------------------------------------------------------
Settled == requests = {} /\ acts = Idle /\ ~error

(* When nothing is awaited and no error is shown, the rows are those of    *)
(* the query on the screen, unless the answers came in another order.      *)
SettledShowsCurrent == Settled /\ ~late => list.q = Query(search, filter, extra, offset)

(* A later page is one the operator turned to under this search and these  *)
(* filters; another input of the loader keeps the page.                    *)
OffsetBelongsToQuery == offset # 0 => turnedFor = <<search, filter>>

(* Once an action was confirmed and the list came back, it shows it.       *)
ReadsOwnWrites == Settled /\ ~late => list.ver >= seen

(* What is typed is what is asked for once the timer has run.              *)
TextReachesQuery == P.filter = "typed" /\ armed = None => filter = typed

-----------------------------------------------------------------------------
(* What is inductive.                                                      *)

Numbers ==
    /\ asked \in Nat /\ newest \in 0 .. asked /\ version \in Nat /\ seen \in 0 .. version
    /\ \A r \in requests :
          DOMAIN r = {"n", "q", "got"} /\ r.n \in 1 .. asked /\ r.got \in Nat
    /\ list.n \in 0 .. asked /\ list.ver \in Nat
    /\ ~late => list.n = newest

\* the last request is for the query on the screen and was sent after our
\* last action; it was answered, or failed, or is under way
LastIsCurrent ==
    /\ \A r \in requests : r.n = asked =>
          /\ r.q = Query(search, filter, extra, offset)
          /\ r.got # Unserved => r.got >= seen
    /\ list.n = asked =>
          list.q = Query(search, filter, extra, offset) /\ list.ver >= seen
    /\ error \/ newest = asked \/ \E r \in requests : r.n = asked

\* the timer commits what is in the field
TimerHasText == P.filter = "typed" => typed = IF armed = None THEN filter ELSE armed

ListInv == Numbers /\ LastIsCurrent /\ OffsetBelongsToQuery /\ TimerHasText
=============================================================================
