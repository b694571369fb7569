----------------------------- MODULE RowPreview -----------------------------
(***************************************************************************)
(* The rows of a table, read under a role that the operator previews.  The *)
(* role is in a store and outlives the page; the page holds on to the      *)
(* object it was when the page was opened, beside a computed value that    *)
(* follows the store.                                                      *)
(***************************************************************************)
EXTENDS Naturals

CONSTANTS
    Tables,
    Subs,         \* identifiers of users that may be typed
    MaxAsked      \* bound: requests sent

NoSub == "empty"
Nowhere == "none"
PreviewAssumption == NoSub \notin Subs /\ Nowhere \notin Tables

VARIABLES
    preview,      \* the store: [role, sub]
    table,        \* the page's route, or Nowhere when it is not open
    opened,       \* the preview object that the page holds
    requests,     \* of this page, in flight, [n, as, of]
    shown,        \* the rows, by their request; n = 0 for none
    error,
    asked,
    newest, late  \* history: the last answer shown came after a newer one

previewVars == <<preview, table, opened, requests, shown, error, asked, newest, late>>

Roles == {"service_role", "authenticated", "anon"}
ServiceRole == [role |-> "service_role", sub |-> NoSub]
NoRows == [n |-> 0, as |-> ServiceRole, of |-> Nowhere]

Init ==
    /\ preview = ServiceRole /\ opened = ServiceRole
    /\ table = Nowhere
    /\ requests = {} /\ shown = NoRows /\ error = FALSE
    /\ asked = 0 /\ newest = 0 /\ late = FALSE

needsSub(p) == p.role = "authenticated" /\ p.sub = NoSub

\* mutant of Sent: the request takes the object that the page holds
Sent_AsOpened(p, held) == held

\* the parameters follow the store
Sent(p, held) == p

\* the loader, which sends nothing when the page was opened on a preview
\* without its user, and then no longer depends on the store or the route
Load(t, p, held, before) ==
    IF needsSub(held)
    THEN requests' = before /\ UNCHANGED asked
    ELSE /\ asked < MaxAsked
         /\ asked' = asked + 1
         /\ requests' = before \cup {[n |-> asked + 1, as |-> Sent(p, held), of |-> t]}

Open(t) ==
    /\ table = Nowhere
    /\ table' = t /\ opened' = preview
    /\ Load(t, preview, preview, {})
    /\ shown' = NoRows /\ error' = FALSE
    /\ newest' = asked /\ late' = FALSE
    /\ UNCHANGED preview

Leave ==
    /\ table # Nowhere
    /\ table' = Nowhere /\ requests' = {} /\ shown' = NoRows /\ error' = FALSE
    /\ UNCHANGED <<preview, opened, asked, newest, late>>

\* a jump in the history from one table to another keeps the page
Jump(t) ==
    /\ table # Nowhere /\ t # table
    /\ table' = t
    /\ Load(t, preview, opened, requests)
    /\ error' = FALSE
    /\ UNCHANGED <<preview, opened, shown, newest, late>>

\* the switcher, on the page and in the top bar of every other: another
\* role forgets the user
setRolePreview(p) ==
    /\ p # preview
    /\ \/ p.sub = NoSub /\ p.role # preview.role
       \/ p.role = "authenticated" /\ preview.role = "authenticated"
    /\ preview' = p
    /\ IF table = Nowhere \/ needsSub(opened)
       THEN UNCHANGED <<requests, error, asked>>
       ELSE Load(table, p, opened, requests) /\ error' = FALSE
    /\ UNCHANGED <<table, opened, shown, newest, late>>

RefreshAgain ==
    /\ table # Nowhere
    /\ Load(table, preview, opened, requests)
    /\ error' = FALSE
    /\ UNCHANGED <<preview, table, opened, shown, newest, late>>

Answered(r) ==
    /\ ~needsSub(r.as)
    /\ shown' = r
    /\ requests' = requests \ {r}
    /\ late' = (r.n < newest)
    /\ newest' = IF r.n > newest THEN r.n ELSE newest
    /\ UNCHANGED <<preview, table, opened, error, asked>>

\* refused with 422, or failed: the rows of before stay under the message
Refused(r) ==
    /\ error' = TRUE
    /\ requests' = requests \ {r}
    /\ UNCHANGED <<preview, table, opened, shown, asked, newest, late>>

Next ==
    \/ \E t \in Tables : Open(t) \/ Jump(t)
    \/ \E role \in Roles, sub \in Subs \cup {NoSub} : setRolePreview([role |-> role, sub |-> sub])
    \/ Leave \/ RefreshAgain
    \/ \E r \in requests : Answered(r) \/ Refused(r)

Spec == Init /\ [][Next]_previewVars

-----------------------------------------------------------------------------
(* At rest and without an error the rows are those of the table and of the *)
(* role that the switcher shows, whatever the page holds on to, unless the *)
(* answers came in another order; a page opened on a preview without its   *)
(* user shows none.                                                        *)
RowsAreUnderRole ==
    table # Nowhere /\ requests = {} /\ ~error /\ ~late =>
        IF needsSub(opened) THEN shown = NoRows
        ELSE shown.as = preview /\ shown.of = table

-----------------------------------------------------------------------------
(* What is inductive.                                                      *)

PreviewShape ==
    /\ asked \in Nat /\ newest \in Nat /\ newest <= asked
    /\ \A r \in requests : r.n \in Nat /\ r.n <= asked
    /\ shown.n \in Nat /\ shown.n <= asked

\* what was asked for last is what the switcher and the route say
LastIsCurrent ==
    table # Nowhere /\ ~needsSub(opened) =>
        \A r \in requests \cup {shown} : r.n = asked => r.as = preview /\ r.of = table

\* it is on its way, was refused, or was answered; and what is shown was
\* asked for last when it was answered in its turn
LastIsFollowed ==
    table # Nowhere /\ ~needsSub(opened) =>
        /\ (\E r \in requests : r.n = asked) \/ error \/ newest = asked
        /\ ~late /\ newest = asked => shown.n = asked

\* a page opened on a preview without its user asks for nothing
NothingIsAsked ==
    table # Nowhere /\ needsSub(opened) => requests = {} /\ shown = NoRows

PreviewInv == PreviewShape /\ LastIsCurrent /\ LastIsFollowed /\ NothingIsAsked
=============================================================================
