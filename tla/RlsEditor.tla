------------------------------ MODULE RlsEditor ------------------------------
(***************************************************************************)
(* The page of the row level security policies: the policies of a chosen   *)
(* table, and a dry run that compares a query before and after a policy.   *)
(*                                                                         *)
(* A table is a pair of its schema and its name.  The options of the table *)
(* select, the policies and the two results each come with an answer of    *)
(* their own; the key of the query editor starts a dry run whether one is  *)
(* under way or not.                                                       *)
(***************************************************************************)
EXTENDS Naturals, FiniteSets

CONSTANTS
    Schemas, Names,
    MaxAsked,      \* bound: requests for tables and policies
    MaxRuns        \* bound: dry runs

None == "none"
SchemasAssumption == None \notin Schemas

VARIABLES
    schema, table,             \* chosen; a table is [of, name]
    options,                   \* the schema whose tables may be chosen
    policies,                  \* the table whose policies are shown
    policiesLoading, policiesError,
    lists, loads,              \* requests for tables and for policies, [n, of]
    running, before, after,    \* the run each result is of, 0 without one
    dryRunError,
    dry,                       \* dry runs in flight, [n, stage]
    asked, ran, wanted,        \* wanted: the last request for policies
    lateTables, latePolicies,  \* history: an answer came after a newer choice
    disturbed                  \* history: during the dry run another began, or
                               \* another table was chosen

rlsVars == <<schema, table, options, policies, policiesLoading, policiesError, lists, loads,
             running, before, after, dryRunError, dry, asked, ran, wanted, lateTables,
             latePolicies, disturbed>>

NoTable == [of |-> None, name |-> None]

Init ==
    /\ schema = None /\ table = NoTable /\ options = None
    /\ policies = NoTable /\ policiesLoading = FALSE /\ policiesError = FALSE
    /\ lists = {} /\ loads = {}
    /\ running = FALSE /\ before = 0 /\ after = 0 /\ dryRunError = FALSE /\ dry = {}
    /\ asked = 0 /\ ran = 0 /\ wanted = 0
    /\ lateTables = FALSE /\ latePolicies = FALSE /\ disturbed = FALSE

dryState == <<running, before, after, dryRunError, dry, ran>>
results == <<before, after, dryRunError>>
NoResults == before' = 0 /\ after' = 0 /\ dryRunError' = FALSE

-----------------------------------------------------------------------------
(* The choices.                                                            *)

\* mutant of Emptied: the tables are replaced when the new ones come
Emptied_Kept == options' = options

Emptied == options' = None

\* both watchers run: the table and its results go with the schema
selectSchema(s) ==
    /\ s # schema /\ asked < MaxAsked
    /\ schema' = s
    /\ table' = NoTable /\ policies' = NoTable
    /\ Emptied
    /\ asked' = asked + 1
    /\ lists' = lists \cup {[n |-> asked + 1, of |-> s]}
    /\ IF table = NoTable THEN UNCHANGED results ELSE NoResults
    /\ lateTables' = FALSE
    /\ disturbed' = (disturbed \/ (table # NoTable /\ dry # {}))
    /\ UNCHANGED <<policiesLoading, policiesError, loads, running, dry, ran, wanted,
                   latePolicies>>

\* mutant of loadPolicies: in the background, without the spinner
loadPolicies_Quiet(t) ==
    /\ asked < MaxAsked
    /\ asked' = asked + 1
    /\ UNCHANGED <<policiesLoading, policies>> /\ policiesError' = FALSE
    /\ loads' = loads \cup {[n |-> asked + 1, of |-> t]}
    /\ latePolicies' = FALSE /\ wanted' = asked + 1

loadPolicies(t) ==
    /\ asked < MaxAsked
    /\ asked' = asked + 1
    /\ policiesLoading' = TRUE /\ policiesError' = FALSE /\ policies' = NoTable
    /\ loads' = loads \cup {[n |-> asked + 1, of |-> t]}
    /\ latePolicies' = FALSE /\ wanted' = asked + 1

selectTable(name) ==
    /\ options # None
    /\ table' = [of |-> options, name |-> name] /\ table' # table
    /\ NoResults
    /\ loadPolicies([of |-> schema, name |-> name])
    /\ disturbed' = (disturbed \/ dry # {})
    /\ UNCHANGED <<schema, options, lists, running, dry, ran, lateTables>>

\* the list below the two selects
ShowsPolicies ==
    policies # NoTable /\ table # NoTable /\ ~policiesLoading /\ ~policiesError

Retry ==
    /\ policiesError /\ ~policiesLoading /\ table # NoTable
    /\ loadPolicies([of |-> schema, name |-> table.name])
    /\ UNCHANGED <<schema, table, options, lists, dryState, lateTables, disturbed>>

TablesAnswered(l) ==
    /\ options' = l.of
    /\ lists' = lists \ {l}
    /\ lateTables' = (l.of # schema)
    /\ UNCHANGED <<schema, table, policies, policiesLoading, policiesError, loads, dryState,
                   asked, wanted, latePolicies, disturbed>>

TablesFailed(l) ==
    /\ lists' = lists \ {l}
    /\ UNCHANGED <<schema, table, options, policies, policiesLoading, policiesError, loads,
                   dryState, asked, wanted, lateTables, latePolicies, disturbed>>

PoliciesAnswered(l) ==
    /\ policies' = l.of
    /\ policiesLoading' = FALSE
    /\ loads' = loads \ {l}
    /\ latePolicies' = (l.n < wanted)
    /\ UNCHANGED <<schema, table, options, policiesError, lists, dryState, asked, wanted, lateTables,
                   disturbed>>

PoliciesFailed(l) ==
    /\ policiesError' = TRUE /\ policiesLoading' = FALSE
    /\ loads' = loads \ {l}
    /\ UNCHANGED <<schema, table, options, policies, lists, dryState, asked, wanted, lateTables,
                   latePolicies, disturbed>>

-----------------------------------------------------------------------------
(* The dry run: the query, then the query under the policy.                *)

choice == <<schema, table, options, policies, policiesLoading, policiesError, lists, loads,
            asked, wanted, lateTables, latePolicies>>

\* mutant of Cleared: the results are replaced one by one
Cleared_Kept == UNCHANGED <<before, after>> /\ dryRunError' = FALSE

Cleared == NoResults

\* by the button when nothing runs, by the key at any time
runDryRun ==
    /\ table # NoTable /\ ran < MaxRuns
    /\ ran' = ran + 1
    /\ running' = TRUE
    /\ Cleared
    /\ dry' = dry \cup {[n |-> ran + 1, stage |-> "baseline"]}
    /\ disturbed' = (dry # {})
    /\ UNCHANGED choice

BaselineAnswered(d) ==
    /\ d.stage = "baseline"
    /\ before' = d.n
    /\ dry' = (dry \ {d}) \cup {[d EXCEPT !.stage = "policy"]}
    /\ UNCHANGED <<choice, running, after, dryRunError, ran, disturbed>>

PolicyAnswered(d) ==
    /\ d.stage = "policy"
    /\ after' = d.n
    /\ running' = FALSE
    /\ dry' = dry \ {d}
    /\ UNCHANGED <<choice, before, dryRunError, ran, disturbed>>

\* either query fails; the second is not sent after the first
DryRunFailed(d) ==
    /\ dryRunError' = TRUE /\ running' = FALSE
    /\ dry' = dry \ {d}
    /\ UNCHANGED <<choice, before, after, ran, disturbed>>

\* the verdict below the two editors
ShowsVerdict == after # 0 /\ ~dryRunError

Next ==
    \/ \E s \in Schemas : selectSchema(s)
    \/ \E t \in Names : selectTable(t)
    \/ Retry \/ runDryRun
    \/ \E l \in lists : TablesAnswered(l) \/ TablesFailed(l)
    \/ \E l \in loads : PoliciesAnswered(l) \/ PoliciesFailed(l)
    \/ \E d \in dry : BaselineAnswered(d) \/ PolicyAnswered(d) \/ DryRunFailed(d)

Spec == Init /\ [][Next]_rlsVars

-----------------------------------------------------------------------------
(* The verdict compares the two results: they are of one run, unless       *)
(* another began or another table was chosen while it was under way.       *)
VerdictComparesOneRun == ShowsVerdict => before = after \/ disturbed

(* A table that can be chosen is one of the chosen schema, unless the      *)
(* tables of another came late.                                            *)
TablesAreOfSchema == options # None => options = schema \/ lateTables

(* The policies under the name of a table are that table's, unless its     *)
(* schema or an older request came in between.                             *)
PoliciesAreOfTable ==
    ShowsPolicies => policies = [of |-> schema, name |-> table.name] \/ latePolicies

-----------------------------------------------------------------------------
(* What is inductive.                                                      *)

\* a dry run that nothing disturbed is the only one, and its first result
\* is there before the second query goes out
DryRunInv ==
    /\ ran \in Nat
    /\ \A d \in dry : d = [n |-> d.n, stage |-> d.stage] /\ d.n \in Nat
    /\ ~disturbed =>
          /\ \A c, d \in dry : c = d
          /\ \A d \in dry : after = 0 /\ (d.stage = "policy" => before = d.n)
          /\ after # 0 => before = after

\* the last request for policies is for the table that is chosen
PoliciesInv ==
    /\ asked \in Nat /\ wanted \in Nat /\ wanted <= asked
    /\ \A l \in loads : l.n \in Nat /\ l.n <= wanted
    /\ table # NoTable =>
          /\ \A l \in loads : l.n = wanted => l.of = [of |-> schema, name |-> table.name]
          /\ policies # NoTable =>
                policies = [of |-> schema, name |-> table.name] \/ latePolicies

RlsInv == DryRunInv /\ PoliciesInv /\ TablesAreOfSchema
=============================================================================
