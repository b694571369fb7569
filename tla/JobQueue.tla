------------------------------ MODULE JobQueue ------------------------------
(***************************************************************************)
(* The Postgres job queue: the table jobs.jobs, the SQL function           *)
(* jobs.claim_next that hands rows to workers, the operator's cancel and   *)
(* retry, and any number of worker processes, each with its poll loop, its *)
(* semaphore of Concurrency slots and its dispatch tasks.                  *)
(*                                                                         *)
(* One action is one database transaction or one step of a worker between  *)
(* two awaits.  A claim of a job is identified by the pair (job, attempt): *)
(* claim_next increments `attempts' and nothing ever resets it.            *)
(*                                                                         *)
(* Time is abstracted to what the SQL compares: due[j] says that run_at    *)
(* has passed, expired[j] that locked_at is older than the visibility      *)
(* timeout.  Which due row is first in `order by run_at, id' and which     *)
(* zombies are oldest is left open, so every order of expiry is covered.   *)
(***************************************************************************)
EXTENDS Integers, FiniteSets

CONSTANTS
    Jobs,         \* row ids of jobs.jobs
    Workers,      \* worker processes polling the queue
    Keys,         \* idempotency keys
    NoKey,        \* a row with idempotency_key null
    KeyOf,        \* the key each row is inserted with
    Unseen,       \* rows that the role of their handler may not update (RLS)
    Unknown,      \* rows whose name is in no worker's registry
    NoClaim,      \* a worker that holds no claimed record
    MaxAttempts,  \* max_attempts of a row
    Concurrency,  \* jobs_concurrency
    ZombieBatch,  \* jobs_visibility_reclaim_batch
    MaxClaims,    \* bound: claims of one row
    MaxExtra,     \* bound: preemptions and operator retries of one row
    MaxFaults     \* bound: crashes, shutdowns and broken connections

ASSUME KeyAssumption == KeyOf \in [Jobs -> Keys \cup {NoKey}]

ASSUME RowAssumption == Unseen \subseteq Jobs /\ Unknown \subseteq Jobs

ASSUME NoClaimAssumption == NoClaim \notin Jobs \X (1 .. MaxClaims)

ASSUME BoundAssumption ==
    /\ MaxAttempts \in Nat \ {0}
    /\ Concurrency \in Nat \ {0}
    /\ ZombieBatch \in Nat \ {0}
    /\ MaxClaims \in Nat
    /\ MaxExtra \in Nat
    /\ MaxFaults \in Nat

VARIABLES
    status,     \* status column; "absent" before the row is inserted
    attempts,   \* attempts column
    due,        \* run_at <= now()
    expired,    \* locked_at < now() - visibility timeout
    phase,      \* phase[j][a]: what became of the a-th claim of row j
    pc,         \* where the coroutine Worker.start is
    held,       \* the record start() holds while it waits for the semaphore
    inflight,   \* Worker._inflight: the claims that have a dispatch task
    snap,       \* the tasks Worker.stop() waits for
    mode,       \* "up", "stopping" (stop() has been called) or "down"
    faults,     \* crashes, shutdowns and broken connections so far
    effects,    \* history: attempts whose handler transaction committed
    extra,      \* history: reclaims and operator retries of the row
    preempted,  \* history: requeued while an earlier claim was still live
    ackLost     \* history: a commit of the row whose reply was lost

rowVars == <<status, attempts, due, expired>>
workerVars == <<pc, held, inflight, snap, mode>>
historyVars == <<effects, extra, preempted, ackLost>>
vars == <<rowVars, phase, workerVars, faults, historyVars>>

Attempts == 1 .. MaxClaims
Claims == Jobs \X Attempts

Statuses ==
    {"absent", "queued", "running", "succeeded", "failed", "cancelled"}

LiveStatuses == {"queued", "running"}
Terminal == {"succeeded", "failed", "cancelled"}

(***************************************************************************)
(* "held": claimed, no dispatch task yet.  "task": the handler runs in its *)
(* transaction.  "raised": it raised, and was rolled back (or its commit   *)
(* was not acknowledged); the outcome is still to be recorded.  The other  *)
(* phases are final: the outcome was recorded, or nobody will record it.   *)
(***************************************************************************)
Phases ==
    {"none", "held", "task", "raised", "committed", "requeued", "failed", "lost"}

LivePhases == {"held", "task", "raised"}

(***************************************************************************)
(* The attempts of j that some worker still works on.                      *)
(***************************************************************************)
LiveAttempts(j) == {a \in Attempts : phase[j][a] \in LivePhases}

\* mutant of KeyFree: an index over the queued rows only
KeyFree_QueuedOnly(j) ==
    KeyOf[j] = NoKey \/ \A k \in Jobs \ {j} : KeyOf[k] = KeyOf[j] => status[k] # "queued"

(***************************************************************************)
(* The partial unique index on idempotency_key: row j may be queued or     *)
(* running only when no other queued or running row has its key.           *)
(***************************************************************************)
KeyFree(j) ==
    KeyOf[j] = NoKey \/ \A k \in Jobs \ {j} :
        KeyOf[k] = KeyOf[j] => status[k] \notin LiveStatuses

Fault == faults < MaxFaults /\ faults' = faults + 1

Init ==
    /\ status = [j \in Jobs |-> "absent"]
    /\ attempts = [j \in Jobs |-> 0]
    /\ due = [j \in Jobs |-> FALSE]
    /\ expired = [j \in Jobs |-> FALSE]
    /\ phase = [j \in Jobs |-> [a \in Attempts |-> "none"]]
    /\ pc = [w \in Workers |-> "check"]
    /\ held = [w \in Workers |-> NoClaim]
    /\ inflight = [w \in Workers |-> {}]
    /\ snap = [w \in Workers |-> {}]
    /\ mode = [w \in Workers |-> "up"]
    /\ faults = 0
    /\ effects = [j \in Jobs |-> {}]
    /\ extra = [j \in Jobs |-> 0]
    /\ preempted = [j \in Jobs |-> FALSE]
    /\ ackLost = [j \in Jobs |-> FALSE]

-----------------------------------------------------------------------------
(* Clients, operators and the passage of time.                             *)

(***************************************************************************)
(* jobs.enqueue inserts a row unless a live row has the key; otherwise no  *)
(* row changes, whether the call finds the live row or the index refuses.  *)
(***************************************************************************)
Enqueue(j) ==
    /\ status[j] = "absent"
    /\ KeyFree(j)
    /\ status' = [status EXCEPT ![j] = "queued"]
    /\ \E now \in BOOLEAN : due' = [due EXCEPT ![j] = now]
    /\ UNCHANGED <<attempts, expired, phase, workerVars, faults, historyVars>>

Cancel(j) ==
    /\ status[j] \in LiveStatuses
    /\ status' = [status EXCEPT ![j] = "cancelled"]
    /\ UNCHANGED <<attempts, due, expired, phase, workerVars, faults, historyVars>>

RetryFrom(S, j) ==
    /\ status[j] \in S
    /\ KeyFree(j)
    /\ extra[j] < MaxExtra
    /\ status' = [status EXCEPT ![j] = "queued"]
    /\ due' = [due EXCEPT ![j] = TRUE]
    /\ expired' = [expired EXCEPT ![j] = FALSE]
    /\ extra' = [extra EXCEPT ![j] = @ + 1]
    /\ preempted' = [preempted EXCEPT ![j] = @ \/ LiveAttempts(j) # {}]
    /\ UNCHANGED <<attempts, phase, workerVars, faults, effects, ackLost>>

\* mutant of Retry: offered for every terminal status
Retry_AnyTerminal(j) == RetryFrom(Terminal, j)

(***************************************************************************)
(* service.retry: refused unless the row is failed or cancelled; a unique  *)
(* violation leaves the row as it is.  attempts is not reset.              *)
(***************************************************************************)
Retry(j) == RetryFrom({"failed", "cancelled"}, j)

BackoffElapses(j) ==
    /\ status[j] = "queued"
    /\ ~due[j]
    /\ due' = [due EXCEPT ![j] = TRUE]
    /\ UNCHANGED <<status, attempts, expired, phase, workerVars, faults, historyVars>>

(***************************************************************************)
(* The bound MaxExtra never keeps a claim that nobody works on from        *)
(* expiring.                                                               *)
(***************************************************************************)
VisibilityElapses(j) ==
    /\ status[j] = "running"
    /\ ~expired[j]
    /\ LiveAttempts(j) # {} => extra[j] < MaxExtra
    /\ expired' = [expired EXCEPT ![j] = TRUE]
    /\ UNCHANGED <<status, attempts, due, phase, workerVars, faults, historyVars>>

-----------------------------------------------------------------------------
(* The SQL function jobs.claim_next.                                       *)

\* mutant of Zombies: a row on its last attempt is not reclaimed
Zombies_BelowMax ==
    {j \in Jobs : status[j] = "running" /\ expired[j] /\ attempts[j] < MaxAttempts}

Zombies == {j \in Jobs : status[j] = "running" /\ expired[j]}

(***************************************************************************)
(* The rows one call reclaims: up to ZombieBatch of the zombies.           *)
(***************************************************************************)
ZombieBatches ==
    {Z \in SUBSET Zombies :
        \/ Z = Zombies /\ Cardinality(Z) <= ZombieBatch
        \/ Z # Zombies /\ Cardinality(Z) = ZombieBatch}

(***************************************************************************)
(* The rows the second statement of the call may claim: it sees the rows   *)
(* that the first has just put back.                                       *)
(***************************************************************************)
Claimable(Z) ==
    {j \in Jobs : /\ status[j] = "queued" \/ j \in Z
                  /\ due[j]
                  /\ attempts[j] < MaxClaims}

ClaimColumns(Z, C, ph) ==
    /\ attempts' = [j \in Jobs |-> IF j \in C THEN attempts[j] + 1 ELSE attempts[j]]
    /\ expired' = [j \in Jobs |-> expired[j] /\ j \notin Z \cup C]
    /\ extra' = [j \in Jobs |-> IF j \in Z THEN extra[j] + 1 ELSE extra[j]]
    /\ preempted' = [j \in Jobs |-> preempted[j] \/ (j \in Z /\ LiveAttempts(j) # {})]
    /\ phase' = [j \in Jobs |-> [a \in Attempts |->
                    IF j \in C /\ a = attempts[j] + 1 THEN ph ELSE phase[j][a]]]
    /\ UNCHANGED <<due, effects, ackLost>>

\* mutant of ClaimNext: the claimed row is not marked running
ClaimNext_StaysQueued(Z, C, ph) ==
    /\ status' = [j \in Jobs |-> IF j \in Z THEN "queued" ELSE status[j]]
    /\ ClaimColumns(Z, C, ph)

(***************************************************************************)
(* The effect of one committed call: Z goes back to queued, and C, which   *)
(* is empty or one claimable row, is claimed into phase ph.                *)
(***************************************************************************)
ClaimNext(Z, C, ph) ==
    /\ status' = [j \in Jobs |-> IF j \in C THEN "running"
                                 ELSE IF j \in Z THEN "queued" ELSE status[j]]
    /\ ClaimColumns(Z, C, ph)

-----------------------------------------------------------------------------
(* Worker.start: the poll loop.                                            *)

LoopCheck(w) ==
    /\ pc[w] = "check"
    /\ pc' = [pc EXCEPT ![w] = IF mode[w] = "up" THEN "polling" ELSE "exited"]
    /\ UNCHANGED <<rowVars, phase, held, inflight, snap, mode, faults, historyVars>>

PollNone(w) ==
    /\ pc[w] = "polling"
    /\ \E Z \in ZombieBatches : Claimable(Z) = {} /\ ClaimNext(Z, {}, "none")
    /\ pc' = [pc EXCEPT ![w] = "check"]
    /\ UNCHANGED <<held, inflight, snap, mode, faults>>

\* mutant of Poll: the record is the row as it was before the claim
Poll_StaleRecord(w) ==
    /\ pc[w] = "polling"
    /\ \E Z \in ZombieBatches : \E j \in Claimable(Z) :
        /\ ClaimNext(Z, {j}, "held")
        /\ held' = [held EXCEPT ![w] = <<j, attempts[j]>>]
    /\ pc' = [pc EXCEPT ![w] = "acquire"]
    /\ UNCHANGED <<inflight, snap, mode, faults>>

Poll(w) ==
    /\ pc[w] = "polling"
    /\ \E Z \in ZombieBatches : \E j \in Claimable(Z) :
        /\ ClaimNext(Z, {j}, "held")
        /\ held' = [held EXCEPT ![w] = <<j, attempts[j] + 1>>]
    /\ pc' = [pc EXCEPT ![w] = "acquire"]
    /\ UNCHANGED <<inflight, snap, mode, faults>>

(***************************************************************************)
(* The poll raises: its transaction rolled back, or committed without the  *)
(* worker learning which row it was given.                                 *)
(***************************************************************************)
PollRaises(w) ==
    /\ pc[w] = "polling"
    /\ Fault
    /\ \/ UNCHANGED <<rowVars, phase, historyVars>>
       \/ \E Z \in ZombieBatches : \E j \in Claimable(Z) : ClaimNext(Z, {j}, "lost")
    /\ pc' = [pc EXCEPT ![w] = "check"]
    /\ UNCHANGED <<held, inflight, snap, mode>>

SetPhase(c, ph) == phase' = [phase EXCEPT ![c[1]][c[2]] = ph]

Spawn(w) ==
    /\ pc[w] = "acquire"
    /\ inflight' = [inflight EXCEPT ![w] = @ \cup {held[w]}]
    /\ held' = [held EXCEPT ![w] = NoClaim]
    /\ SetPhase(held[w], "task")
    /\ pc' = [pc EXCEPT ![w] = "check"]
    /\ UNCHANGED <<rowVars, snap, mode, faults, historyVars>>

\* mutant of Acquire: no semaphore
Acquire_NoSemaphore(w) == Spawn(w)

(***************************************************************************)
(* A slot of the semaphore is free: create_task and go round the loop.     *)
(* Nothing here looks at _stopping.                                        *)
(***************************************************************************)
Acquire(w) == Cardinality(inflight[w]) < Concurrency /\ Spawn(w)

-----------------------------------------------------------------------------
(* Worker._dispatch: one task per claim.                                   *)

\* mutant of Finish: the task is not discarded from _inflight
Finish_KeepsSlot(w, c, ph) ==
    SetPhase(c, ph) /\ UNCHANGED workerVars

(***************************************************************************)
(* The task of claim c ends with ph; its slot of the semaphore is free.    *)
(***************************************************************************)
Finish(w, c, ph) ==
    /\ SetPhase(c, ph)
    /\ inflight' = [inflight EXCEPT ![w] = @ \ {c}]
    /\ snap' = [snap EXCEPT ![w] = @ \ {c}]
    /\ UNCHANGED <<pc, held, mode>>

Running(w, c) ==
    c \in inflight[w] /\ phase[c[1]][c[2]] = "task" /\ c[1] \notin Unknown

(***************************************************************************)
(* The handler returned: its writes and mark_succeeded commit together.    *)
(* mark_succeeded has no guard but the id, and runs with the handler's     *)
(* role: of a row this role does not see it updates nothing.               *)
(***************************************************************************)
CommitEffects(j, a) ==
    /\ effects' = [effects EXCEPT ![j] = @ \cup {a}]
    /\ status' = [status EXCEPT ![j] = IF j \in Unseen THEN @ ELSE "succeeded"]
    /\ UNCHANGED <<attempts, due, expired, extra, preempted>>

Commit(w, c) ==
    /\ Running(w, c)
    /\ CommitEffects(c[1], c[2])
    /\ Finish(w, c, "committed")
    /\ UNCHANGED <<faults, ackLost>>

(***************************************************************************)
(* The commit took place, but the connection broke before its reply: the   *)
(* task takes it for a failure of the handler.                             *)
(***************************************************************************)
CommitAckLost(w, c) ==
    /\ Running(w, c)
    /\ Fault
    /\ CommitEffects(c[1], c[2])
    /\ ackLost' = [ackLost EXCEPT ![c[1]] = TRUE]
    /\ SetPhase(c, "raised")
    /\ UNCHANGED workerVars

\* mutant of HandlerRaises: mark_succeeded survives the rollback
HandlerRaises_MarkSurvives(w, c) ==
    /\ Running(w, c)
    /\ SetPhase(c, "raised")
    /\ status' = [status EXCEPT ![c[1]] = "succeeded"]
    /\ UNCHANGED <<attempts, due, expired, workerVars, faults, historyVars>>

HandlerRaises(w, c) ==
    /\ Running(w, c)
    /\ SetPhase(c, "raised")
    /\ UNCHANGED <<rowVars, workerVars, faults, historyVars>>

(***************************************************************************)
(* mark_failed_final: for a failed last attempt, and for a job that the    *)
(* registry does not know.                                                 *)
(***************************************************************************)
MarkFailedFinal(w, c) ==
    /\ c \in inflight[w]
    /\ \/ phase[c[1]][c[2]] = "raised" /\ c[2] >= MaxAttempts
       \/ phase[c[1]][c[2]] = "task" /\ c[1] \in Unknown
    /\ status' = [status EXCEPT ![c[1]] = "failed"]
    /\ Finish(w, c, "failed")
    /\ UNCHANGED <<attempts, due, expired, faults, historyVars>>

\* mutant of Retryable: one retry too many
Retryable_OffByOne(w, c) ==
    c \in inflight[w] /\ phase[c[1]][c[2]] = "raised" /\ c[2] <= MaxAttempts

Retryable(w, c) ==
    c \in inflight[w] /\ phase[c[1]][c[2]] = "raised" /\ c[2] < MaxAttempts

(***************************************************************************)
(* mark_failed_retry: back to queued after a delay, whatever the row has   *)
(* become meanwhile, as long as the index allows it.                       *)
(***************************************************************************)
MarkFailedRetry(w, c) ==
    /\ Retryable(w, c)
    /\ KeyFree(c[1])
    /\ status' = [status EXCEPT ![c[1]] = "queued"]
    /\ due' = [due EXCEPT ![c[1]] = FALSE]
    /\ expired' = [expired EXCEPT ![c[1]] = FALSE]
    /\ preempted' = [preempted EXCEPT ![c[1]] = @ \/ LiveAttempts(c[1]) # {c[2]}]
    /\ Finish(w, c, "requeued")
    /\ UNCHANGED <<attempts, faults, effects, extra, ackLost>>

(***************************************************************************)
(* The transaction that should record the outcome fails: the index refuses *)
(* the row, or the connection breaks.  The exception ends the task.        *)
(***************************************************************************)
RecordingFails(w, c) ==
    /\ c \in inflight[w]
    /\ \/ Retryable(w, c) /\ ~KeyFree(c[1]) /\ UNCHANGED faults
       \/ /\ phase[c[1]][c[2]] = "raised" \/ c[1] \in Unknown
          /\ Fault
    /\ Finish(w, c, "lost")
    /\ UNCHANGED <<rowVars, historyVars>>

-----------------------------------------------------------------------------
(* Worker.stop, and the death of the process.                              *)

Stop(w) ==
    /\ mode[w] = "up"
    /\ Fault
    /\ mode' = [mode EXCEPT ![w] = "stopping"]
    /\ snap' = [snap EXCEPT ![w] = inflight[w]]
    /\ UNCHANGED <<rowVars, phase, pc, held, inflight, historyVars>>

(***************************************************************************)
(* The drain timeout: every task of the snapshot still pending is          *)
(* cancelled.  CancelledError is no Exception: nothing is recorded.        *)
(***************************************************************************)
DrainTimeout(w) ==
    /\ mode[w] = "stopping"
    /\ snap[w] # {}
    /\ phase' = [j \in Jobs |-> [a \in Attempts |->
                    IF <<j, a>> \in snap[w] THEN "lost" ELSE phase[j][a]]]
    /\ inflight' = [inflight EXCEPT ![w] = @ \ snap[w]]
    /\ snap' = [snap EXCEPT ![w] = {}]
    /\ UNCHANGED <<rowVars, pc, held, mode, faults, historyVars>>

(***************************************************************************)
(* The process is gone, with the claims in its memory.                     *)
(***************************************************************************)
Down(w) ==
    /\ mode' = [mode EXCEPT ![w] = "down"]
    /\ pc' = [pc EXCEPT ![w] = "exited"]
    /\ phase' = [j \in Jobs |-> [a \in Attempts |->
                    IF <<j, a>> \in inflight[w] \cup {held[w]} THEN "lost"
                    ELSE phase[j][a]]]
    /\ held' = [held EXCEPT ![w] = NoClaim]
    /\ inflight' = [inflight EXCEPT ![w] = {}]
    /\ snap' = [snap EXCEPT ![w] = {}]
    /\ UNCHANGED <<rowVars, historyVars>>

(***************************************************************************)
(* stop() has returned: the host cancels start() and ends.                 *)
(***************************************************************************)
Exit(w) == mode[w] = "stopping" /\ snap[w] = {} /\ Down(w) /\ UNCHANGED faults

Crash(w) == mode[w] # "down" /\ Fault /\ Down(w)

(***************************************************************************)
(* A new process takes the place of w.                                     *)
(***************************************************************************)
Boot(w) ==
    /\ mode[w] = "down"
    /\ mode' = [mode EXCEPT ![w] = "up"]
    /\ pc' = [pc EXCEPT ![w] = "check"]
    /\ UNCHANGED <<rowVars, phase, held, inflight, snap, faults, historyVars>>

-----------------------------------------------------------------------------

Dispatch(w, c) ==
    \/ Commit(w, c) \/ CommitAckLost(w, c) \/ HandlerRaises(w, c)
    \/ MarkFailedFinal(w, c) \/ MarkFailedRetry(w, c) \/ RecordingFails(w, c)

WorkerStep(w) ==
    \/ LoopCheck(w) \/ PollNone(w) \/ Poll(w) \/ PollRaises(w) \/ Acquire(w)
    \/ \E c \in inflight[w] : Dispatch(w, c)
    \/ Stop(w) \/ DrainTimeout(w) \/ Exit(w) \/ Crash(w) \/ Boot(w)

Next ==
    \/ \E j \in Jobs : \/ Enqueue(j) \/ Cancel(j) \/ Retry(j)
                       \/ BackoffElapses(j) \/ VisibilityElapses(j)
    \/ \E w \in Workers : WorkerStep(w)

Spec == Init /\ [][Next]_vars

-----------------------------------------------------------------------------
(* Properties.                                                             *)

TypeOK ==
    /\ status \in [Jobs -> Statuses]
    /\ attempts \in [Jobs -> 0 .. MaxClaims]
    /\ due \in [Jobs -> BOOLEAN]
    /\ expired \in [Jobs -> BOOLEAN]
    /\ phase \in [Jobs -> [Attempts -> Phases]]
    /\ pc \in [Workers -> {"check", "polling", "acquire", "exited"}]
    /\ held \in [Workers -> Claims \cup {NoClaim}]
    /\ inflight \in [Workers -> SUBSET Claims]
    /\ snap \in [Workers -> SUBSET Claims]
    /\ mode \in [Workers -> {"up", "stopping", "down"}]
    /\ faults \in Nat
    /\ effects \in [Jobs -> SUBSET Attempts]
    /\ extra \in [Jobs -> Nat]
    /\ preempted \in [Jobs -> BOOLEAN]
    /\ ackLost \in [Jobs -> BOOLEAN]

(***************************************************************************)
(* The comment on the partial index: at most one queued or running row per *)
(* idempotency key, although a row also becomes queued again by a retry,   *)
(* by a reclaim and by the late failure of a claim.                        *)
(***************************************************************************)
OneLivePerKey ==
    \A j, k \in Jobs :
        /\ j # k
        /\ KeyOf[j] = KeyOf[k]
        /\ KeyOf[j] # NoKey
        => status[j] \notin LiveStatuses \/ status[k] \notin LiveStatuses

(***************************************************************************)
(* SKIP LOCKED and the visibility timeout: a row is worked on by one       *)
(* claim at a time, and that claim is the row's latest, unless the row was *)
(* put back in the queue under a claim that was still live.                *)
(***************************************************************************)
Exclusive ==
    \A j \in Jobs : ~preempted[j] =>
        \A a \in LiveAttempts(j) : a = attempts[j] /\ status[j] # "queued"

(***************************************************************************)
(* The handler and mark_succeeded share a transaction: a row that reads    *)
(* succeeded has had the effects of its handler.                           *)
(***************************************************************************)
SuccessHasEffects ==
    \A j \in Jobs : status[j] = "succeeded" => effects[j] # {}

(***************************************************************************)
(* Effectively once: unless the row was requeued under a live claim, the   *)
(* reply to a commit was lost, or the handler's role cannot see the row,   *)
(* the effects are there exactly when the row says succeeded, once.        *)
(***************************************************************************)
EffectivelyOnce ==
    \A j \in Jobs \ Unseen :
        ~preempted[j] /\ ~ackLost[j] =>
            /\ effects[j] # {} <=> status[j] = "succeeded"
            /\ \A a, b \in effects[j] : a = b

(***************************************************************************)
(* max_attempts: the claims of a row beyond max_attempts are those that a  *)
(* reclaim or an operator's retry asked for, however late, and in whatever *)
(* order, the failures of its earlier claims are recorded.                 *)
(***************************************************************************)
AttemptsPaidFor == \A j \in Jobs : attempts[j] <= MaxAttempts + extra[j]

(***************************************************************************)
(* A worker has at most one claim more in hand than jobs_concurrency (the  *)
(* one that waits for the semaphore), no two workers hold the same claim,  *)
(* and every claim whose outcome is still open is in some worker's hands.  *)
(***************************************************************************)
Hands(w) == inflight[w] \cup ({held[w]} \ {NoClaim})

ClaimsInHand ==
    /\ \A w \in Workers : Cardinality(Hands(w)) <= Concurrency + 1
    /\ \A v, w \in Workers : v # w => Hands(v) \cap Hands(w) = {}
    /\ \A c \in Claims :
        phase[c[1]][c[2]] \in LivePhases <=> \E w \in Workers : c \in Hands(w)

(***************************************************************************)
(* A succeeded, failed or cancelled row stays so, until an operator        *)
(* retries it.  "job not found or already terminal" (service.cancel).      *)
(***************************************************************************)
TerminalIsFinal ==
    [][\A j \in Jobs :
        status[j] \in Terminal /\ status'[j] # status[j] => Retry(j)]_vars

(***************************************************************************)
(* Liveness.  Every step of a live process happens sooner or later, and so *)
(* do the end of a backoff and of a visibility timeout.  Nothing forces a  *)
(* fault, an operator, or the outcome of a handler.                        *)
(***************************************************************************)
Fairness ==
    /\ \A w \in Workers :
        /\ WF_vars(LoopCheck(w)) /\ WF_vars(PollNone(w)) /\ WF_vars(Poll(w))
        /\ WF_vars(Acquire(w)) /\ WF_vars(DrainTimeout(w)) /\ WF_vars(Exit(w))
        /\ WF_vars(Boot(w))
        /\ \A c \in Claims : WF_vars(Dispatch(w, c))
    /\ \A j \in Jobs : WF_vars(BackoffElapses(j)) /\ WF_vars(VisibilityElapses(j))

LiveSpec == Spec /\ Fairness

(***************************************************************************)
(* No enqueued job is forgotten: it ends succeeded, failed or cancelled,   *)
(* whatever crashed on the way.  (Not so for a row its handler's role      *)
(* cannot see: see Forever in the README.)                                 *)
(***************************************************************************)
EveryJobSettles ==
    \A j \in Jobs \ Unseen : status[j] = "queued" ~> status[j] \in Terminal

-----------------------------------------------------------------------------
(* The inductive invariant behind Exclusive and EffectivelyOnce.           *)

(***************************************************************************)
(* What the workers hold in memory agrees with the phases of the claims:   *)
(* this is what makes a claim the business of one task of one worker.      *)
(***************************************************************************)
HandsInv ==
    /\ \A w \in Workers : pc[w] = "acquire" <=> held[w] # NoClaim
    /\ \A w \in Workers : mode[w] = "down" => pc[w] = "exited"
    /\ \A w \in Workers : snap[w] \subseteq inflight[w]
    /\ \A w \in Workers, j \in Jobs, a \in Attempts :
        /\ held[w] = <<j, a>> => phase[j][a] = "held"
        /\ <<j, a>> \in inflight[w] => phase[j][a] \in {"task", "raised"}
    /\ \A v, w \in Workers : v # w =>
        /\ held[v] = held[w] => held[v] = NoClaim
        /\ inflight[v] \cap inflight[w] = {}

(***************************************************************************)
(* The claims made so far of a row are 1 .. attempts.                      *)
(***************************************************************************)
FreshInv ==
    \A j \in Jobs :
        /\ \A a \in Attempts : phase[j][a] # "none" => a <= attempts[j]
        /\ status[j] = "absent" => attempts[j] = 0

(***************************************************************************)
(* While nothing disturbed the row, its success is the end of its claims.  *)
(***************************************************************************)
SettledInv ==
    \A j \in Jobs :
        ~preempted[j] /\ ~ackLost[j] /\ status[j] = "succeeded" => LiveAttempts(j) = {}

IInv == TypeOK /\ HandsInv /\ FreshInv /\ Exclusive /\ SettledInv /\ EffectivelyOnce

=============================================================================
