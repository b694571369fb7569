----------------------------- MODULE SqlWorkspace -----------------------------
(***************************************************************************)
(* The SQL page: a statement, a switch for write mode behind a dialog, the *)
(* runs and the history of what was run.                                   *)
(*                                                                         *)
(* The Run button takes no click while a run is awaited; the key of the    *)
(* editor runs all the same, so runs may overlap.                          *)
(***************************************************************************)
EXTENDS Naturals, Sequences

CONSTANTS
    Statements,     \* what the operator types
    MaxHistory,     \* statements kept
    MaxRuns         \* bound

Blank == "blank"
StatementsAssumption == Blank \notin Statements /\ MaxHistory \in Nat \ {0}

VARIABLES
    statement, readOnly, dialog,
    running, result, execError,    \* of the screen; a result is [n, sql]
    runs,                          \* in flight, [n, sql, readOnly]
    items,                         \* the history, latest first
    ran,
    allowed,                       \* history: a dialog allowed the writes
    overlapped                     \* history: a run began beside another

sqlVars == <<statement, readOnly, dialog, running, result, execError, runs, items, ran,
             allowed, overlapped>>

NoResult == [n |-> 0, sql |-> Blank]

Init ==
    /\ statement = Blank /\ readOnly = TRUE /\ dialog = FALSE
    /\ running = FALSE /\ result = NoResult /\ execError = FALSE
    /\ runs = {} /\ items = <<>> /\ ran = 0
    /\ allowed = FALSE /\ overlapped = FALSE

screen == <<running, result, execError>>

Edit(s) ==
    /\ ~dialog /\ s # statement
    /\ statement' = s
    /\ UNCHANGED <<readOnly, dialog, screen, runs, items, ran, allowed, overlapped>>

onSelectHistory(i) ==
    /\ ~dialog /\ i \in DOMAIN items
    /\ statement' = items[i]
    /\ UNCHANGED <<readOnly, dialog, screen, runs, items, ran, allowed, overlapped>>

\* mutant of toggleReadOnly: the switch turns and the dialog may turn it back
toggleReadOnly_First(next) ==
    /\ dialog' = (readOnly /\ ~next)
    /\ readOnly' = next
    /\ allowed' = FALSE

\* the switch turns on at once, and off when the dialog is confirmed
toggleReadOnly(next) ==
    /\ dialog' = (readOnly /\ ~next)
    /\ readOnly' = TRUE
    /\ allowed' = FALSE

Toggle ==
    /\ ~dialog
    /\ toggleReadOnly(~readOnly)
    /\ UNCHANGED <<statement, screen, runs, items, ran, overlapped>>

Confirm ==
    /\ dialog
    /\ dialog' = FALSE /\ readOnly' = FALSE /\ allowed' = TRUE
    /\ UNCHANGED <<statement, screen, runs, items, ran, overlapped>>

\* Cancel sets it again; a dialog closed in another way never answers
Dismiss ==
    /\ dialog
    /\ dialog' = FALSE
    /\ UNCHANGED <<statement, readOnly, screen, runs, items, ran, allowed, overlapped>>

\* mutant of Cleared: the last result stays until the next comes
Cleared_Kept == result' = result /\ execError' = FALSE

Cleared == result' = NoResult /\ execError' = FALSE

\* by the button, by Retry of the error, or by the key
run ==
    /\ ~dialog /\ ran < MaxRuns
    /\ statement # Blank
    /\ ran' = ran + 1
    /\ running' = TRUE
    /\ Cleared
    /\ runs' = runs \cup {[n |-> ran + 1, sql |-> statement, readOnly |-> readOnly]}
    /\ overlapped' = (runs # {})
    /\ UNCHANGED <<statement, readOnly, dialog, items, allowed>>

\* mutant of addToHistory: a statement run before is not added again
addToHistory_Unique(s) ==
    IF \E i \in DOMAIN items : items[i] = s THEN items
    ELSE IF Len(items) < MaxHistory THEN <<s>> \o items
    ELSE <<s>> \o SubSeq(items, 1, MaxHistory - 1)

\* not when it is the latest; the oldest goes when there are too many
addToHistory(s) ==
    IF items # <<>> /\ items[1] = s THEN items
    ELSE IF Len(items) < MaxHistory THEN <<s>> \o items
    ELSE <<s>> \o SubSeq(items, 1, MaxHistory - 1)

Answered(r) ==
    /\ result' = [n |-> r.n, sql |-> r.sql]
    /\ items' = addToHistory(r.sql)
    /\ running' = FALSE
    /\ runs' = runs \ {r}
    /\ UNCHANGED <<statement, readOnly, dialog, execError, ran, allowed, overlapped>>

Failed(r) ==
    /\ execError' = TRUE
    /\ running' = FALSE
    /\ runs' = runs \ {r}
    /\ UNCHANGED <<statement, readOnly, dialog, result, items, ran, allowed, overlapped>>

\* below the editor: an error, else the rows
ShowsResult == ~execError /\ result # NoResult

Next ==
    \/ \E s \in Statements : Edit(s)
    \/ \E i \in 1 .. MaxHistory : onSelectHistory(i)
    \/ Toggle \/ Confirm \/ Dismiss \/ run
    \/ \E r \in runs : Answered(r) \/ Failed(r)

Spec == Init /\ [][Next]_sqlVars

-----------------------------------------------------------------------------
(* A run that may write was begun after a dialog allowed it, and the       *)
(* switch has not been turned back before.                                 *)
WriteWithoutConsent == \E r \in runs' \ runs : ~r.readOnly /\ ~allowed
WritesAreConfirmed == [][~WriteWithoutConsent]_sqlVars

(* A result on the screen is that of the last run, unless it overlapped    *)
(* another.                                                                *)
ResultIsOfLastRun == ShowsResult => result.n = ran \/ overlapped

(* The statement whose result came last heads the history.                 *)
ResultHeadsHistory == result # NoResult => items # <<>> /\ items[1] = result.sql

-----------------------------------------------------------------------------
(* What is inductive.                                                      *)

Typed == Statements \cup {Blank}

SqlInv ==
    /\ statement \in Typed /\ items \in Seq(Typed) /\ ran \in Nat
    /\ \A r \in runs : r.sql \in Typed
    /\ ~readOnly => allowed
    /\ ~overlapped =>
          /\ \A r \in runs : r.n = ran
          /\ result # NoResult => result.n = ran
    /\ ResultHeadsHistory
=============================================================================
