----------------------------- MODULE InvokePage -----------------------------
(***************************************************************************)
(* The page that calls one edge function: its route parameter names the    *)
(* function, the list of routes says which methods it takes.  A jump in    *)
(* the browser's history from one function to another keeps the page.      *)
(***************************************************************************)
EXTENDS Naturals, Sequences

CONSTANTS
    Names,       \* functions that a path may name
    MethodsOf,   \* the deployed ones: their methods, in order
    MaxRuns,     \* bound: calls begun
    MaxJumps     \* bound: changes of the path

NoResponse == [n |-> 0, of |-> "none"]
InvokeAssumption ==
    /\ DOMAIN MethodsOf \subseteq Names
    /\ \A name \in DOMAIN MethodsOf : MethodsOf[name] \in Seq(STRING)
    /\ "none" \notin Names

VARIABLES
    routeName,
    routes,          \* "loading", "loaded" or "failed"
    method,
    running, response, runError,
    calls,           \* in flight, [n, of]
    ran, jumps,
    turned           \* history: the path has changed since the last run

invokeVars == <<routeName, routes, method, running, response, runError, calls, ran, jumps, turned>>

Init ==
    /\ routeName \in Names
    /\ routes = "loading"
    /\ method = "POST"
    /\ running = FALSE /\ response = NoResponse /\ runError = FALSE
    /\ calls = {} /\ ran = 0 /\ jumps = 0 /\ turned = FALSE

selectedRoute(name, list) == list = "loaded" /\ name \in DOMAIN MethodsOf

\* mutant of Allowed: only the arrival of the list is watched
Allowed_OnArrival(name, list) ==
    IF selectedRoute(name, list) /\ list # routes /\ MethodsOf[name] # <<>>
       /\ \A i \in DOMAIN MethodsOf[name] : MethodsOf[name][i] # method
    THEN MethodsOf[name][1] ELSE method

\* the watcher of the selected route puts its first method in place of one
\* that it does not take
Allowed(name, list) ==
    IF selectedRoute(name, list) /\ MethodsOf[name] # <<>>
       /\ \A i \in DOMAIN MethodsOf[name] : MethodsOf[name][i] # method
    THEN MethodsOf[name][1] ELSE method

RoutesAnswered ==
    /\ routes = "loading"
    /\ \E list \in {"loaded", "failed"} :
          routes' = list /\ method' = Allowed(routeName, list)
    /\ UNCHANGED <<routeName, running, response, runError, calls, ran, jumps, turned>>

Jump(name) ==
    /\ name # routeName /\ jumps < MaxJumps
    /\ routeName' = name /\ method' = Allowed(name, routes)
    /\ jumps' = jumps + 1 /\ turned' = TRUE
    /\ UNCHANGED <<routes, running, response, runError, calls, ran>>

\* the form is there when the function was found
ChooseMethod(m) ==
    /\ selectedRoute(routeName, routes) /\ m # method
    /\ \E i \in DOMAIN MethodsOf[routeName] : MethodsOf[routeName][i] = m
    /\ method' = m
    /\ UNCHANGED <<routeName, routes, running, response, runError, calls, ran, jumps, turned>>

\* mutant of Cleared: the last answer stays until the next one
Cleared_Kept == response' = response /\ runError' = FALSE

Cleared == response' = NoResponse /\ runError' = FALSE

\* the button, or the retry of the error; headers which are not JSON end it
run(valid) ==
    /\ selectedRoute(routeName, routes) /\ ~running
    /\ ran < MaxRuns
    /\ ran' = ran + 1 /\ turned' = FALSE
    /\ IF valid
       THEN /\ running' = TRUE /\ Cleared
            /\ calls' = calls \cup {[n |-> ran + 1, of |-> routeName]}
       ELSE /\ runError' = TRUE /\ response' = NoResponse
            /\ UNCHANGED <<running, calls>>
    /\ UNCHANGED <<routeName, routes, method, jumps>>

\* shown under whichever function is named by now
Answered(c) ==
    /\ response' = c
    /\ running' = FALSE
    /\ calls' = calls \ {c}
    /\ UNCHANGED <<routeName, routes, method, runError, ran, jumps, turned>>

Failed(c) ==
    /\ runError' = TRUE
    /\ running' = FALSE
    /\ calls' = calls \ {c}
    /\ UNCHANGED <<routeName, routes, method, response, ran, jumps, turned>>

Next ==
    \/ RoutesAnswered
    \/ \E name \in Names : Jump(name)
    \/ \E m \in {"GET", "POST", "PUT"} : ChooseMethod(m)
    \/ \E valid \in BOOLEAN : run(valid)
    \/ \E c \in calls : Answered(c) \/ Failed(c)

Spec == Init /\ [][Next]_invokeVars

-----------------------------------------------------------------------------
(* A response on the page is that of the last run, which has ended and did *)
(* not fail; it is another function's only if the path changed since.      *)
ResponseIsOfTheRun ==
    response # NoResponse =>
        /\ response.n = ran /\ calls = {} /\ ~running /\ ~runError
        /\ response.of = routeName \/ turned

(* What Run would send is a method that the function takes, whichever      *)
(* function the page showed before.                                        *)
MethodIsAllowed ==
    selectedRoute(routeName, routes) /\ MethodsOf[routeName] # <<>> =>
        \E i \in DOMAIN MethodsOf[routeName] : MethodsOf[routeName][i] = method

-----------------------------------------------------------------------------
(* What is inductive.                                                      *)

\* one call at a time; while it is in flight the page shows neither a
\* response nor an error
InvokeInv ==
    /\ ran \in Nat
    /\ \A c \in calls : c.n = ran /\ (c.of = routeName \/ turned)
    /\ \A c, d \in calls : c = d
    /\ ~running => calls = {}
    /\ calls # {} => response = NoResponse /\ ~runError
    /\ ResponseIsOfTheRun /\ MethodIsAllowed
=============================================================================
