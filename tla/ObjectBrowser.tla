--------------------------- MODULE ObjectBrowser ---------------------------
(***************************************************************************)
(* The modal of the object browser that generates a signed URL for one     *)
(* object.  Its list, the prefix filter and the deletion of an object are  *)
(* in ConsoleLists.                                                        *)
(***************************************************************************)
EXTENDS Naturals

CONSTANTS
    Objects,
    MaxAsked     \* bound: URLs asked for

NoObject == "none"
ObjectsAssumption == NoObject \notin Objects

VARIABLES
    signTarget,         \* the modal is open when it is an object
    signModalLoading,
    signResult,         \* [n, of], n = 0 without one
    signings,           \* requests in flight, [n, of]
    asked,
    since, late         \* history: requests of this opening have larger
                        \* numbers; the last answer was to an older one

browserVars == <<signTarget, signModalLoading, signResult, signings, asked, since, late>>

NoResult == [n |-> 0, of |-> NoObject]

Init ==
    /\ signTarget = NoObject /\ signModalLoading = FALSE /\ signResult = NoResult
    /\ signings = {} /\ asked = 0 /\ since = 0 /\ late = FALSE

\* mutant of openSignModal: the modal starts afresh, its spinner too
openSignModal_Afresh(o) ==
    /\ signTarget' = o /\ signResult' = NoResult /\ signModalLoading' = FALSE

\* a request of the last opening keeps the button spinning
openSignModal(o) ==
    /\ signTarget' = o /\ signResult' = NoResult
    /\ UNCHANGED signModalLoading

Open(o) ==
    /\ signTarget = NoObject
    /\ openSignModal(o)
    /\ since' = asked /\ late' = FALSE
    /\ UNCHANGED <<signings, asked>>

closeSignModal ==
    /\ signTarget # NoObject
    /\ signTarget' = NoObject /\ signResult' = NoResult
    /\ UNCHANGED <<signModalLoading, signings, asked, since, late>>

\* the form is there while the modal is, its button takes no click while it
\* spins
CanSign == signTarget # NoObject /\ ~signModalLoading

handleSign ==
    /\ CanSign
    /\ asked < MaxAsked
    /\ asked' = asked + 1
    /\ signModalLoading' = TRUE /\ signResult' = NoResult
    /\ signings' = signings \cup {[n |-> asked + 1, of |-> signTarget]}
    /\ UNCHANGED <<signTarget, since, late>>

\* the modal that is open by now shows it, for whichever object it is
Signed(r) ==
    /\ signResult' = r
    /\ signModalLoading' = FALSE
    /\ signings' = signings \ {r}
    /\ late' = (r.n <= since)
    /\ UNCHANGED <<signTarget, asked, since>>

SignFailed(r) ==
    /\ signModalLoading' = FALSE
    /\ signings' = signings \ {r}
    /\ UNCHANGED <<signTarget, signResult, asked, since, late>>

\* the part of the modal with the URL
ShowsResult == signTarget # NoObject /\ signResult # NoResult

Next ==
    \/ \E o \in Objects : Open(o)
    \/ closeSignModal \/ handleSign
    \/ \E r \in signings : Signed(r) \/ SignFailed(r)

Spec == Init /\ [][Next]_browserVars

-----------------------------------------------------------------------------
(* A URL on the screen is the one asked for last, whichever modals were    *)
(* closed and opened meanwhile, and it is shown under another object's     *)
(* name only if it was asked for before this modal was opened.             *)
UrlIsTheLastAsked ==
    ShowsResult =>
        /\ signResult.n = asked /\ ~signModalLoading
        /\ signResult.of = signTarget \/ late

-----------------------------------------------------------------------------
(* What is inductive.  UrlIsTheLastAsked says nothing of what is in        *)
(* flight, and a request in flight is what the next answer shows.          *)

\* There is one request in flight at most, and it is the last one sent.
OneSigning ==
    /\ asked \in Nat /\ since \in Nat
    /\ \A r \in signings : r.n = asked
    /\ \A r, s \in signings : r = s

\* The button spins exactly while there is one.
Spins == signModalLoading = (signings # {})

\* A request of this opening is for the object of this opening.
SigningIsOfTarget ==
    \A r \in signings : signTarget # NoObject => r.of = signTarget \/ r.n <= since

\* A result is the last request's, and nothing has been sent after it.
ResultIsLast ==
    signResult # NoResult =>
        /\ signResult.n = asked /\ signings = {}
        /\ signTarget # NoObject => signResult.of = signTarget \/ late

BrowserInv == OneSigning /\ Spins /\ SigningIsOfTarget /\ ResultIsLast
=============================================================================
