--------------------------- MODULE JobQueueProofs ---------------------------
(***************************************************************************)
(* Machine-checked proofs about JobQueue, for every value of its           *)
(* constants.  The invariant IInv of JobQueue is shown inductive in three  *)
(* layers: types, what the workers hold in memory, and the row itself.     *)
(***************************************************************************)
EXTENDS JobQueue, FiniteSetTheorems, TLAPS

-----------------------------------------------------------------------------
(* Types.                                                                  *)

(***************************************************************************)
(* One committed call of jobs.claim_next keeps every column in its type.   *)
(***************************************************************************)
LEMMA ClaimNextType ==
    ASSUME TypeOK, NEW Z \in SUBSET Jobs, NEW C \in SUBSET Jobs, NEW ph \in Phases,
           \A j \in C : attempts[j] < MaxClaims,
           ClaimNext(Z, C, ph)
    PROVE  /\ status' \in [Jobs -> Statuses]
           /\ attempts' \in [Jobs -> 0 .. MaxClaims]
           /\ due' \in [Jobs -> BOOLEAN]
           /\ expired' \in [Jobs -> BOOLEAN]
           /\ phase' \in [Jobs -> [Attempts -> Phases]]
           /\ effects' \in [Jobs -> SUBSET Attempts]
           /\ extra' \in [Jobs -> Nat]
           /\ preempted' \in [Jobs -> BOOLEAN]
           /\ ackLost' \in [Jobs -> BOOLEAN]
<1>1. status' \in [Jobs -> Statuses] /\ extra' \in [Jobs -> Nat]
  BY DEF ClaimNext, ClaimColumns, TypeOK, Statuses
<1>2. attempts' \in [Jobs -> 0 .. MaxClaims]
  BY BoundAssumption DEF ClaimNext, ClaimColumns, TypeOK
<1>3. expired' \in [Jobs -> BOOLEAN] /\ preempted' \in [Jobs -> BOOLEAN]
  BY Zenon DEF ClaimNext, ClaimColumns, TypeOK
<1>4. phase' \in [Jobs -> [Attempts -> Phases]]
  BY DEF ClaimNext, ClaimColumns, TypeOK
<1>. QED
  BY <1>1, <1>2, <1>3, <1>4 DEF ClaimNext, ClaimColumns, TypeOK

(***************************************************************************)
(* The type invariant, with what the poll loop needs to be typed: a worker *)
(* that waits for the semaphore holds a claim.                             *)
(***************************************************************************)
TypeInv ==
    /\ TypeOK
    /\ \A w \in Workers : pc[w] = "acquire" <=> held[w] # NoClaim
    /\ \A w \in Workers : mode[w] = "down" => pc[w] = "exited"

LEMMA TypeInit == Init => TypeInv
BY BoundAssumption DEF Init, TypeInv, TypeOK, Statuses, Phases

LEMMA TypeRowStep ==
    ASSUME TypeInv, NEW j \in Jobs,
           Enqueue(j) \/ Cancel(j) \/ Retry(j) \/ BackoffElapses(j) \/ VisibilityElapses(j)
    PROVE  TypeInv'
<1>1. CASE Enqueue(j)
  BY <1>1 DEF Enqueue, TypeInv, TypeOK, Statuses, workerVars, historyVars
<1>2. CASE Cancel(j)
  BY <1>2 DEF Cancel, TypeInv, TypeOK, Statuses, workerVars, historyVars
<1>3. CASE Retry(j)
  <2>1. preempted' \in [Jobs -> BOOLEAN]
    BY <1>3, Zenon DEF Retry, RetryFrom, TypeInv, TypeOK
  <2>. QED
    BY <1>3, <2>1 DEF Retry, RetryFrom, TypeInv, TypeOK, Statuses, workerVars
<1>4. CASE BackoffElapses(j)
  BY <1>4 DEF BackoffElapses, TypeInv, TypeOK, workerVars, historyVars
<1>5. CASE VisibilityElapses(j)
  BY <1>5 DEF VisibilityElapses, TypeInv, TypeOK, workerVars, historyVars
<1>. QED
  BY <1>1, <1>2, <1>3, <1>4, <1>5

LEMMA TypePollStep ==
    ASSUME TypeInv, NEW w \in Workers,
           LoopCheck(w) \/ PollNone(w) \/ Poll(w) \/ PollRaises(w) \/ Acquire(w)
    PROVE  TypeInv'
<1>1. CASE LoopCheck(w)
  BY <1>1 DEF LoopCheck, TypeInv, TypeOK, rowVars, historyVars
<1>2. CASE PollNone(w)
  <2>1. PICK Z \in ZombieBatches : ClaimNext(Z, {}, "none")
    BY <1>2 DEF PollNone
  <2>2. Z \in SUBSET Jobs /\ "none" \in Phases
    BY DEF ZombieBatches, Zombies, Phases
  <2>. QED
    BY <1>2, <2>1, <2>2, ClaimNextType DEF PollNone, TypeInv, TypeOK
<1>3. CASE Poll(w)
  <2>. PICK Z \in ZombieBatches : \E j \in Claimable(Z) :
            /\ ClaimNext(Z, {j}, "held")
            /\ held' = [held EXCEPT ![w] = <<j, attempts[j] + 1>>]
    BY <1>3 DEF Poll
  <2>1. PICK j \in Claimable(Z) :
            /\ ClaimNext(Z, {j}, "held")
            /\ held' = [held EXCEPT ![w] = <<j, attempts[j] + 1>>]
    OBVIOUS
  <2>2. Z \in SUBSET Jobs /\ "held" \in Phases /\ j \in Jobs /\ attempts[j] < MaxClaims
        /\ {j} \in SUBSET Jobs
    BY DEF ZombieBatches, Zombies, Phases, Claimable
  <2>3. <<j, attempts[j] + 1>> \in Claims
    BY <2>2, BoundAssumption DEF Claims, Attempts, TypeInv, TypeOK
  <2>4. <<j, attempts[j] + 1>> # NoClaim
    BY <2>3, NoClaimAssumption DEF Claims, Attempts
  <2>5. \A i \in {j} : attempts[i] < MaxClaims
    BY <2>2
  <2>6. /\ status' \in [Jobs -> Statuses]
        /\ attempts' \in [Jobs -> 0 .. MaxClaims]
        /\ due' \in [Jobs -> BOOLEAN]
        /\ expired' \in [Jobs -> BOOLEAN]
        /\ phase' \in [Jobs -> [Attempts -> Phases]]
        /\ effects' \in [Jobs -> SUBSET Attempts]
        /\ extra' \in [Jobs -> Nat]
        /\ preempted' \in [Jobs -> BOOLEAN]
        /\ ackLost' \in [Jobs -> BOOLEAN]
    BY <2>1, <2>2, <2>5, ClaimNextType DEF TypeInv
  <2>7. held' \in [Workers -> Claims \cup {NoClaim}]
    BY <2>1, <2>3 DEF TypeInv, TypeOK
  <2>8. \A v \in Workers : /\ pc'[v] = "acquire" <=> held'[v] # NoClaim
                           /\ mode'[v] = "down" => pc'[v] = "exited"
    BY <1>3, <2>1, <2>4 DEF Poll, TypeInv, TypeOK
  <2>. QED
    BY <1>3, <2>6, <2>7, <2>8 DEF Poll, TypeInv, TypeOK
<1>4. CASE PollRaises(w)
  <2>1. CASE UNCHANGED <<rowVars, phase, historyVars>>
    BY <1>4, <2>1 DEF PollRaises, TypeInv, TypeOK, Fault, rowVars, historyVars
  <2>2. CASE \E Z \in ZombieBatches : \E j \in Claimable(Z) : ClaimNext(Z, {j}, "lost")
    <3>. PICK Z \in ZombieBatches : \E j \in Claimable(Z) : ClaimNext(Z, {j}, "lost")
      BY <2>2
    <3>1. PICK j \in Claimable(Z) : ClaimNext(Z, {j}, "lost")
      OBVIOUS
    <3>2. Z \in SUBSET Jobs /\ "lost" \in Phases /\ {j} \in SUBSET Jobs
          /\ \A i \in {j} : attempts[i] < MaxClaims
      BY DEF ZombieBatches, Zombies, Phases, Claimable
    <3>3. /\ status' \in [Jobs -> Statuses]
          /\ attempts' \in [Jobs -> 0 .. MaxClaims]
          /\ due' \in [Jobs -> BOOLEAN]
          /\ expired' \in [Jobs -> BOOLEAN]
          /\ phase' \in [Jobs -> [Attempts -> Phases]]
          /\ effects' \in [Jobs -> SUBSET Attempts]
          /\ extra' \in [Jobs -> Nat]
          /\ preempted' \in [Jobs -> BOOLEAN]
          /\ ackLost' \in [Jobs -> BOOLEAN]
      BY <3>1, <3>2, ClaimNextType DEF TypeInv
    <3>. QED
      BY <1>4, <3>3 DEF PollRaises, TypeInv, TypeOK, Fault
  <2>. QED
    BY <1>4, <2>1, <2>2 DEF PollRaises
<1>5. CASE Acquire(w)
  <2>1. held[w] \in Claims
    BY <1>5 DEF Acquire, Spawn, TypeInv, TypeOK
  <2>2. phase' \in [Jobs -> [Attempts -> Phases]]
    BY <1>5, <2>1 DEF Acquire, Spawn, SetPhase, TypeInv, TypeOK, Phases, Claims
  <2>. QED
    BY <1>5, <2>1, <2>2 DEF Acquire, Spawn, TypeInv, TypeOK, rowVars, historyVars
<1>. QED
  BY <1>1, <1>2, <1>3, <1>4, <1>5

LEMMA TypeDispatchStep ==
    ASSUME TypeInv, NEW w \in Workers, NEW c \in inflight[w], Dispatch(w, c)
    PROVE  TypeInv'
<1>1. PICK j \in Jobs, a \in Attempts : c = <<j, a>>
  BY DEF TypeInv, TypeOK, Claims
<1>2. ASSUME NEW ph \in Phases, SetPhase(c, ph)
      PROVE  phase' \in [Jobs -> [Attempts -> Phases]]
  BY <1>1, <1>2 DEF SetPhase, TypeInv, TypeOK
<1>3. CASE Commit(w, c)
  BY <1>1, <1>2, <1>3 DEF Commit, CommitEffects, Finish, TypeInv, TypeOK, Phases, Statuses
<1>4. CASE CommitAckLost(w, c)
  BY <1>1, <1>2, <1>4
  DEF CommitAckLost, CommitEffects, Fault, TypeInv, TypeOK, Phases, Statuses, workerVars
<1>5. CASE HandlerRaises(w, c)
  BY <1>1, <1>2, <1>5
  DEF HandlerRaises, TypeInv, TypeOK, Phases, workerVars, rowVars, historyVars
<1>6. CASE MarkFailedFinal(w, c)
  BY <1>1, <1>2, <1>6 DEF MarkFailedFinal, Finish, TypeInv, TypeOK, Phases, Statuses, historyVars
<1>7. CASE MarkFailedRetry(w, c)
  <2>1. preempted' \in [Jobs -> BOOLEAN]
    BY <1>1, <1>7, Zenon DEF MarkFailedRetry, TypeInv, TypeOK
  <2>. QED
    BY <1>1, <1>2, <1>7, <2>1 DEF MarkFailedRetry, Finish, TypeInv, TypeOK, Phases, Statuses
<1>8. CASE RecordingFails(w, c)
  BY <1>1, <1>2, <1>8
  DEF RecordingFails, Fault, Finish, TypeInv, TypeOK, Phases, rowVars, historyVars
<1>. QED
  BY <1>3, <1>4, <1>5, <1>6, <1>7, <1>8 DEF Dispatch

LEMMA TypeProcessStep ==
    ASSUME TypeInv, NEW w \in Workers,
           Stop(w) \/ DrainTimeout(w) \/ Exit(w) \/ Crash(w) \/ Boot(w)
    PROVE  TypeInv'
<1>1. CASE Stop(w)
  BY <1>1 DEF Stop, Fault, TypeInv, TypeOK, rowVars, historyVars
<1>2. CASE DrainTimeout(w)
  BY <1>2 DEF DrainTimeout, TypeInv, TypeOK, Phases, rowVars, historyVars
<1>3. ASSUME Down(w), faults' \in Nat
      PROVE  TypeInv'
  BY <1>3 DEF Down, TypeInv, TypeOK, Phases, rowVars, historyVars
<1>4. CASE Exit(w)
  BY <1>3, <1>4 DEF Exit, TypeInv, TypeOK
<1>5. CASE Crash(w)
  BY <1>3, <1>5 DEF Crash, Fault, TypeInv, TypeOK
<1>6. CASE Boot(w)
  BY <1>6 DEF Boot, TypeInv, TypeOK, rowVars, historyVars
<1>. QED
  BY <1>1, <1>2, <1>4, <1>5, <1>6

LEMMA TypeNext == TypeInv /\ [Next]_vars => TypeInv'
<1>1. ASSUME TypeInv, NEW w \in Workers, WorkerStep(w)
      PROVE  TypeInv'
  BY <1>1, TypePollStep, TypeDispatchStep, TypeProcessStep DEF WorkerStep
<1>2. CASE UNCHANGED vars
  BY <1>2 DEF vars, rowVars, workerVars, historyVars, TypeInv, TypeOK
<1>. QED
  BY <1>1, <1>2, TypeRowStep DEF Next

(***************************************************************************)
(* Every column, coroutine and task stays in its type.                     *)
(***************************************************************************)
THEOREM TypeCorrect == Spec => []TypeOK
<1>1. TypeInv => TypeOK
  BY DEF TypeInv
<1>. QED
  BY TypeInit, TypeNext, <1>1, PTL DEF Spec

-----------------------------------------------------------------------------
(* What the workers hold.                                                  *)

MemInv == TypeInv /\ HandsInv /\ FreshInv

(***************************************************************************)
(* A step that touches neither the workers' memory nor the phases.         *)
(***************************************************************************)
LEMMA HandsUnchanged ==
    ASSUME HandsInv, UNCHANGED <<phase, workerVars>>
    PROVE  HandsInv'
BY DEF HandsInv, workerVars

LEMMA HandsRowStep ==
    ASSUME HandsInv, NEW j \in Jobs,
           Enqueue(j) \/ Cancel(j) \/ Retry(j) \/ BackoffElapses(j) \/ VisibilityElapses(j)
    PROVE  HandsInv'
BY HandsUnchanged
DEF Enqueue, Cancel, Retry, RetryFrom, BackoffElapses, VisibilityElapses

(***************************************************************************)
(* A claim that claim_next hands out was in nobody's hands: its attempt    *)
(* number is fresh.                                                        *)
(***************************************************************************)
LEMMA HandsClaim ==
    ASSUME MemInv, NEW Z \in SUBSET Jobs, NEW C \in SUBSET Jobs, NEW ph,
           ClaimNext(Z, C, ph)
    PROVE  /\ \A j \in Jobs, a \in Attempts :
                phase[j][a] # "none" => phase'[j][a] = phase[j][a]
           /\ \A j \in C : \A a \in Attempts :
                a = attempts[j] + 1 => phase[j][a] = "none" /\ phase'[j][a] = ph
BY DEF ClaimNext, ClaimColumns, MemInv, FreshInv, TypeInv, TypeOK, Attempts

LEMMA HandsPollStep ==
    ASSUME MemInv, NEW w \in Workers,
           LoopCheck(w) \/ PollNone(w) \/ Poll(w) \/ PollRaises(w) \/ Acquire(w)
    PROVE  HandsInv'
<1>. USE DEF MemInv
<1>1. ASSUME NEW Z \in ZombieBatches, NEW C \in SUBSET Jobs, NEW ph,
             ClaimNext(Z, C, ph), UNCHANGED <<held, inflight, snap, mode>>,
             pc[w] = "polling", pc' = [pc EXCEPT ![w] = "check"]
      PROVE  HandsInv'
  <2>1. Z \in SUBSET Jobs
    BY DEF ZombieBatches, Zombies
  <2>2. \A j \in Jobs, a \in Attempts : phase[j][a] # "none" => phase'[j][a] = phase[j][a]
    BY <1>1, <2>1, HandsClaim
  <2>3. ASSUME NEW v \in Workers, NEW j \in Jobs, NEW a \in Attempts
        PROVE  /\ held'[v] = <<j, a>> => phase'[j][a] = "held"
               /\ <<j, a>> \in inflight'[v] => phase'[j][a] \in {"task", "raised"}
    <3>1. held[v] = <<j, a>> => phase[j][a] = "held"
      BY DEF HandsInv
    <3>2. <<j, a>> \in inflight[v] => phase[j][a] \in {"task", "raised"}
      BY DEF HandsInv
    <3>. QED
      BY <1>1, <2>2, <3>1, <3>2
  <2>4. \A v \in Workers : /\ pc'[v] = "acquire" <=> held'[v] # NoClaim
                           /\ mode'[v] = "down" => pc'[v] = "exited"
                           /\ snap'[v] \subseteq inflight'[v]
    BY <1>1 DEF HandsInv, TypeInv, TypeOK
  <2>5. \A u, v \in Workers : u # v =>
            /\ held'[u] = held'[v] => held'[u] = NoClaim
            /\ inflight'[u] \cap inflight'[v] = {}
    BY <1>1 DEF HandsInv
  <2>. QED
    BY <2>3, <2>4, <2>5 DEF HandsInv
<1>2. CASE LoopCheck(w)
  BY <1>2 DEF LoopCheck, HandsInv, TypeInv, TypeOK
<1>3. CASE PollNone(w)
  BY <1>1, <1>3 DEF PollNone
<1>4. CASE Poll(w)
  <2>. PICK Z \in ZombieBatches : \E j \in Claimable(Z) :
            /\ ClaimNext(Z, {j}, "held")
            /\ held' = [held EXCEPT ![w] = <<j, attempts[j] + 1>>]
    BY <1>4 DEF Poll
  <2>1. PICK k \in Claimable(Z) :
            /\ ClaimNext(Z, {k}, "held")
            /\ held' = [held EXCEPT ![w] = <<k, attempts[k] + 1>>]
    OBVIOUS
  <2>2. Z \in SUBSET Jobs /\ k \in Jobs /\ {k} \in SUBSET Jobs /\ attempts[k] < MaxClaims
    BY DEF ZombieBatches, Zombies, Claimable
  <2>3. attempts[k] + 1 \in Attempts
    BY <2>2, BoundAssumption DEF Attempts, TypeInv, TypeOK
  <2>4. \A j \in Jobs, a \in Attempts : phase[j][a] # "none" => phase'[j][a] = phase[j][a]
    BY <2>1, <2>2, HandsClaim
  <2>5. phase[k][attempts[k] + 1] = "none" /\ phase'[k][attempts[k] + 1] = "held"
    BY <2>1, <2>2, <2>3, HandsClaim
  <2>6. <<k, attempts[k] + 1>> # NoClaim
    BY <2>2, <2>3, NoClaimAssumption DEF Attempts
  <2>7. \A v \in Workers : held[v] # <<k, attempts[k] + 1>>
    <3>1. ASSUME NEW v \in Workers, held[v] = <<k, attempts[k] + 1>>
          PROVE  FALSE
      <4>1. \A b \in Attempts : held[v] = <<k, b>> => phase[k][b] = "held"
        BY <2>2 DEF HandsInv
      <4>2. phase[k][attempts[k] + 1] = "held"
        BY <2>3, <3>1, <4>1
      <4>. QED
        BY <2>5, <4>2
    <3>. QED
      BY <3>1
  <2>8. pc[w] = "polling" /\ pc' = [pc EXCEPT ![w] = "acquire"]
        /\ UNCHANGED <<inflight, snap, mode>>
    BY <1>4 DEF Poll
  <2>9. \A v \in Workers, j \in Jobs, a \in Attempts :
            held'[v] = <<j, a>> => phase'[j][a] = "held"
    <3>. SUFFICES ASSUME NEW v \in Workers, NEW j \in Jobs, NEW a \in Attempts,
                         held'[v] = <<j, a>>
                  PROVE  phase'[j][a] = "held"
      OBVIOUS
    <3>1. CASE v = w
      <4>1. held'[w] = <<k, attempts[k] + 1>>
        BY <2>1 DEF TypeInv, TypeOK
      <4>2. j = k /\ a = attempts[k] + 1
        BY <3>1, <4>1
      <4>. QED
        BY <2>5, <4>2
    <3>2. CASE v # w
      <4>1. held[v] = <<j, a>>
        BY <2>1, <3>2 DEF TypeInv, TypeOK
      <4>2. phase[j][a] = "held"
        BY <4>1 DEF HandsInv
      <4>. QED
        BY <2>4, <4>2
    <3>. QED
      BY <3>1, <3>2
  <2>10. \A v \in Workers, j \in Jobs, a \in Attempts :
            <<j, a>> \in inflight'[v] => phase'[j][a] \in {"task", "raised"}
    <3>. SUFFICES ASSUME NEW v \in Workers, NEW j \in Jobs, NEW a \in Attempts,
                         <<j, a>> \in inflight[v]
                  PROVE  phase'[j][a] \in {"task", "raised"}
      BY <2>8
    <3>1. phase[j][a] \in {"task", "raised"}
      BY DEF HandsInv
    <3>. QED
      BY <2>4, <3>1
  <2>11. \A u, v \in Workers : u # v => (held'[u] = held'[v] => held'[u] = NoClaim)
    <3>. SUFFICES ASSUME NEW u \in Workers, NEW v \in Workers, u # v, held'[u] = held'[v]
                  PROVE  held'[u] = NoClaim
      OBVIOUS
    <3>1. /\ held'[w] = <<k, attempts[k] + 1>>
          /\ \A x \in Workers : x # w => held'[x] = held[x]
      BY <2>1 DEF TypeInv, TypeOK
    <3>2. u # w /\ v # w
      BY <2>7, <3>1
    <3>. QED
      BY <3>1, <3>2 DEF HandsInv
  <2>12. \A v \in Workers : /\ pc'[v] = "acquire" <=> held'[v] # NoClaim
                            /\ mode'[v] = "down" => pc'[v] = "exited"
    BY <2>1, <2>6, <2>8 DEF HandsInv, TypeInv, TypeOK
  <2>. QED
    BY <2>8, <2>9, <2>10, <2>11, <2>12 DEF HandsInv
<1>5. CASE PollRaises(w)
  <2>1. CASE UNCHANGED <<rowVars, phase, historyVars>>
    BY <1>5, <2>1 DEF PollRaises, HandsInv, TypeInv, TypeOK
  <2>2. ASSUME NEW Z \in ZombieBatches, NEW j \in Claimable(Z), ClaimNext(Z, {j}, "lost")
        PROVE  HandsInv'
    <3>1. {j} \in SUBSET Jobs
      BY DEF Claimable
    <3>. QED
      BY <1>1, <1>5, <2>2, <3>1 DEF PollRaises
  <2>. QED
    BY <1>5, <2>1, <2>2 DEF PollRaises
<1>6. CASE Acquire(w)
  <2>1. PICK k \in Jobs, b \in Attempts : held[w] = <<k, b>>
    BY <1>6 DEF Acquire, Spawn, TypeInv, TypeOK, Claims
  <2>2. phase' = [phase EXCEPT ![k][b] = "task"]
    BY <1>6, <2>1 DEF Acquire, Spawn, SetPhase
  <2>3. /\ phase'[k][b] = "task"
        /\ \A j \in Jobs, a \in Attempts : <<j, a>> # <<k, b>> => phase'[j][a] = phase[j][a]
    BY <2>2 DEF TypeInv, TypeOK
  <2>4. phase[k][b] = "held" /\ \A v \in Workers : <<k, b>> \notin inflight[v]
    <3>1. phase[k][b] = "held"
      BY <2>1 DEF HandsInv
    <3>2. ASSUME NEW v \in Workers, <<k, b>> \in inflight[v]
          PROVE  FALSE
      BY <3>1, <3>2 DEF HandsInv
    <3>. QED
      BY <3>1, <3>2
  <2>5. /\ inflight' = [inflight EXCEPT ![w] = @ \cup {<<k, b>>}]
        /\ held' = [held EXCEPT ![w] = NoClaim]
        /\ pc' = [pc EXCEPT ![w] = "check"]
        /\ pc[w] = "acquire"
        /\ UNCHANGED <<snap, mode>>
    BY <1>6, <2>1 DEF Acquire, Spawn
  <2>6. \A v \in Workers, j \in Jobs, a \in Attempts :
            /\ held'[v] = <<j, a>> => phase'[j][a] = "held"
            /\ <<j, a>> \in inflight'[v] => phase'[j][a] \in {"task", "raised"}
    <3>. SUFFICES ASSUME NEW v \in Workers, NEW j \in Jobs, NEW a \in Attempts
                  PROVE  /\ held'[v] = <<j, a>> => phase'[j][a] = "held"
                         /\ <<j, a>> \in inflight'[v] => phase'[j][a] \in {"task", "raised"}
      OBVIOUS
    <3>1. <<j, a>> # NoClaim
      BY NoClaimAssumption DEF Attempts
    <3>2. /\ held[v] = <<j, a>> => phase[j][a] = "held"
          /\ <<j, a>> \in inflight[v] => phase[j][a] \in {"task", "raised"}
      BY DEF HandsInv
    <3>3. ASSUME held'[v] = <<j, a>>
          PROVE  held[v] = <<j, a>> /\ <<j, a>> # <<k, b>>
      <4>1. held'[w] = NoClaim
        BY <2>5 DEF TypeInv, TypeOK
      <4>2. v # w
        BY <3>1, <3>3, <4>1
      <4>3. held[v] = <<j, a>>
        BY <2>5, <3>3, <4>2 DEF TypeInv, TypeOK
      <4>4. held[v] # held[w]
        BY <3>1, <4>2, <4>3 DEF HandsInv
      <4>. QED
        BY <2>1, <4>3, <4>4
    <3>4. <<j, a>> \in inflight'[v] => <<j, a>> \in inflight[v] \/ <<j, a>> = <<k, b>>
      BY <2>5 DEF TypeInv, TypeOK
    <3>5. <<j, a>> = <<k, b>> => phase'[j][a] = "task"
      BY <2>3
    <3>. QED
      BY <2>3, <3>2, <3>3, <3>4, <3>5
  <2>7. \A u, v \in Workers : u # v =>
            /\ held'[u] = held'[v] => held'[u] = NoClaim
            /\ inflight'[u] \cap inflight'[v] = {}
    <3>. SUFFICES ASSUME NEW u \in Workers, NEW v \in Workers, u # v
                  PROVE  /\ held'[u] = held'[v] => held'[u] = NoClaim
                         /\ inflight'[u] \cap inflight'[v] = {}
      OBVIOUS
    <3>1. held'[w] = NoClaim /\ \A x \in Workers : x # w => held'[x] = held[x]
      BY <2>5 DEF TypeInv, TypeOK
    <3>2. held'[u] = held'[v] => held'[u] = NoClaim
      BY <3>1 DEF HandsInv
    <3>3. /\ inflight'[w] = inflight[w] \cup {<<k, b>>}
          /\ \A x \in Workers : x # w => inflight'[x] = inflight[x]
      BY <2>5 DEF TypeInv, TypeOK
    <3>4. inflight[u] \cap inflight[v] = {}
      BY DEF HandsInv
    <3>5. inflight'[u] \cap inflight'[v] = {}
      BY <2>4, <3>3, <3>4
    <3>. QED
      BY <3>2, <3>5
  <2>8. \A v \in Workers : /\ pc'[v] = "acquire" <=> held'[v] # NoClaim
                           /\ mode'[v] = "down" => pc'[v] = "exited"
                           /\ snap'[v] \subseteq inflight'[v]
    BY <2>5 DEF HandsInv, TypeInv, TypeOK
  <2>. QED
    BY <2>6, <2>7, <2>8 DEF HandsInv
<1>. QED
  BY <1>2, <1>3, <1>4, <1>5, <1>6

(***************************************************************************)
(* The phase of a task's own claim changes, and the task may end: the      *)
(* claim is in no other hands, so nobody else's memory is contradicted.    *)
(***************************************************************************)
LEMMA HandsTask ==
    ASSUME MemInv, NEW w \in Workers, NEW k \in Jobs, NEW b \in Attempts,
           <<k, b>> \in inflight[w], NEW ph \in Phases,
           phase' = [phase EXCEPT ![k][b] = ph],
           UNCHANGED <<pc, held, mode>>,
           \/ ph = "raised" /\ UNCHANGED <<inflight, snap>>
           \/ /\ inflight' = [inflight EXCEPT ![w] = @ \ {<<k, b>>}]
              /\ snap' = [snap EXCEPT ![w] = @ \ {<<k, b>>}]
    PROVE  HandsInv'
<1>. USE DEF MemInv
<1>1. \A j \in Jobs, a \in Attempts : <<j, a>> # <<k, b>> => phase'[j][a] = phase[j][a]
  BY DEF TypeInv, TypeOK
<1>2. phase'[k][b] = ph
  BY DEF TypeInv, TypeOK
<1>3. \A v \in Workers : inflight'[v] \subseteq inflight[v]
  <2>1. CASE UNCHANGED <<inflight, snap>>
    BY <2>1
  <2>2. CASE inflight' = [inflight EXCEPT ![w] = @ \ {<<k, b>>}]
    <3>1. \A v \in Workers : v # w => inflight'[v] = inflight[v]
      BY <2>2 DEF TypeInv, TypeOK
    <3>2. inflight'[w] = inflight[w] \ {<<k, b>>}
      BY <2>2 DEF TypeInv, TypeOK
    <3>. QED
      BY <3>1, <3>2
  <2>. QED
    BY <2>1, <2>2
<1>4. \A v \in Workers : snap'[v] \subseteq inflight'[v]
  BY DEF HandsInv, TypeInv, TypeOK
<1>5. phase[k][b] # "held"
  BY DEF HandsInv
<1>6. \A v \in Workers : v # w => <<k, b>> \notin inflight[v]
  BY DEF HandsInv
<1>7. <<k, b>> \in inflight'[w] => ph = "raised"
  BY DEF TypeInv, TypeOK
<1>8. ASSUME NEW v \in Workers, NEW j \in Jobs, NEW a \in Attempts
      PROVE  /\ held'[v] = <<j, a>> => phase'[j][a] = "held"
             /\ <<j, a>> \in inflight'[v] => phase'[j][a] \in {"task", "raised"}
  <2>1. /\ held[v] = <<j, a>> => phase[j][a] = "held"
        /\ <<j, a>> \in inflight[v] => phase[j][a] \in {"task", "raised"}
    BY DEF HandsInv
  <2>2. CASE <<j, a>> # <<k, b>>
    BY <1>1, <1>3, <2>1, <2>2
  <2>3. CASE <<j, a>> = <<k, b>>
    <3>1. j = k /\ a = b
      BY <2>3
    <3>2. held'[v] # <<j, a>>
      BY <1>5, <2>1, <3>1
    <3>3. <<j, a>> \in inflight'[v] => v = w
      BY <1>3, <1>6, <3>1
    <3>. QED
      BY <1>2, <1>7, <3>1, <3>2, <3>3
  <2>. QED
    BY <2>2, <2>3
<1>9. \A u, v \in Workers : u # v =>
          /\ held'[u] = held'[v] => held'[u] = NoClaim
          /\ inflight'[u] \cap inflight'[v] = {}
  BY <1>3 DEF HandsInv
<1>10. \A v \in Workers : /\ pc'[v] = "acquire" <=> held'[v] # NoClaim
                          /\ mode'[v] = "down" => pc'[v] = "exited"
  BY DEF HandsInv
<1>. QED
  BY <1>4, <1>8, <1>9, <1>10 DEF HandsInv

LEMMA HandsDispatchStep ==
    ASSUME MemInv, NEW w \in Workers, NEW c \in inflight[w], Dispatch(w, c)
    PROVE  HandsInv'
<1>1. PICK k \in Jobs, b \in Attempts : c = <<k, b>>
  BY DEF MemInv, TypeInv, TypeOK, Claims
<1>2. ASSUME NEW ph \in Phases, Finish(w, c, ph)
      PROVE  HandsInv'
  BY <1>1, <1>2, HandsTask DEF Finish, SetPhase
<1>3. ASSUME SetPhase(c, "raised"), UNCHANGED workerVars
      PROVE  HandsInv'
  <2>1. "raised" \in Phases
    BY DEF Phases
  <2>. QED
    BY <1>1, <1>3, <2>1, HandsTask DEF SetPhase, workerVars
<1>4. CASE CommitAckLost(w, c) \/ HandlerRaises(w, c)
  BY <1>3, <1>4 DEF CommitAckLost, HandlerRaises
<1>5. CASE Commit(w, c)
  BY <1>2, <1>5 DEF Commit, Phases
<1>6. CASE MarkFailedFinal(w, c)
  BY <1>2, <1>6 DEF MarkFailedFinal, Phases
<1>7. CASE MarkFailedRetry(w, c)
  BY <1>2, <1>7 DEF MarkFailedRetry, Phases
<1>8. CASE RecordingFails(w, c)
  BY <1>2, <1>8 DEF RecordingFails, Phases
<1>. QED
  BY <1>4, <1>5, <1>6, <1>7, <1>8 DEF Dispatch

(***************************************************************************)
(* A worker drops a set of claims of its own: a drain timeout or the end   *)
(* of its process.                                                         *)
(***************************************************************************)
LEMMA HandsDrop ==
    ASSUME MemInv, NEW w \in Workers, NEW D \in SUBSET (inflight[w] \cup {held[w]}),
           phase' = [j \in Jobs |-> [a \in Attempts |->
                        IF <<j, a>> \in D THEN "lost" ELSE phase[j][a]]],
           \A v \in Workers : v # w => /\ held'[v] = held[v]
                                      /\ inflight'[v] = inflight[v]
                                      /\ snap'[v] = snap[v]
                                      /\ pc'[v] = pc[v]
                                      /\ mode'[v] = mode[v],
           inflight'[w] = inflight[w] \ D,
           snap'[w] = {},
           \/ held'[w] = held[w] /\ held[w] \notin D /\ pc'[w] = pc[w] /\ mode'[w] = mode[w]
           \/ held'[w] = NoClaim /\ pc'[w] = "exited"
    PROVE  HandsInv'
<1>. USE DEF MemInv
<1>1. ASSUME NEW v \in Workers, NEW j \in Jobs, NEW a \in Attempts, v # w,
             held[v] = <<j, a>> \/ <<j, a>> \in inflight[v]
      PROVE  <<j, a>> \notin D
  <2>1. <<j, a>> # NoClaim
    BY NoClaimAssumption DEF Attempts
  <2>2. /\ held[v] = <<j, a>> => held[w] # <<j, a>>
        /\ <<j, a>> \in inflight[v] => <<j, a>> \notin inflight[w]
    BY <1>1, <2>1 DEF HandsInv
  <2>3. /\ held[v] = <<j, a>> => <<j, a>> \notin inflight[w]
        /\ <<j, a>> \in inflight[v] => held[w] # <<j, a>>
    BY DEF HandsInv
  <2>. QED
    BY <1>1, <2>2, <2>3
<1>2. ASSUME NEW v \in Workers, NEW j \in Jobs, NEW a \in Attempts
      PROVE  /\ held'[v] = <<j, a>> => phase'[j][a] = "held"
             /\ <<j, a>> \in inflight'[v] => phase'[j][a] \in {"task", "raised"}
  <2>1. /\ held[v] = <<j, a>> => phase[j][a] = "held"
        /\ <<j, a>> \in inflight[v] => phase[j][a] \in {"task", "raised"}
    BY DEF HandsInv
  <2>2. <<j, a>> # NoClaim
    BY NoClaimAssumption DEF Attempts
  <2>3. held'[v] = <<j, a>> => held[v] = <<j, a>> /\ <<j, a>> \notin D
    BY <1>1, <2>2
  <2>4. <<j, a>> \in inflight'[v] => <<j, a>> \in inflight[v] /\ <<j, a>> \notin D
    BY <1>1
  <2>. QED
    BY <2>1, <2>3, <2>4
<1>3. \A u, v \in Workers : u # v =>
          /\ held'[u] = held'[v] => held'[u] = NoClaim
          /\ inflight'[u] \cap inflight'[v] = {}
  BY DEF HandsInv
<1>4. \A v \in Workers : snap'[v] \subseteq inflight'[v]
  BY DEF HandsInv
<1>5. \A v \in Workers : /\ pc'[v] = "acquire" <=> held'[v] # NoClaim
                         /\ mode'[v] = "down" => pc'[v] = "exited"
  BY DEF HandsInv
<1>. QED
  BY <1>2, <1>3, <1>4, <1>5 DEF HandsInv

LEMMA HandsProcessStep ==
    ASSUME MemInv, NEW w \in Workers,
           Stop(w) \/ DrainTimeout(w) \/ Exit(w) \/ Crash(w) \/ Boot(w)
    PROVE  HandsInv'
<1>. USE DEF MemInv
<1>1. CASE Stop(w)
  BY <1>1 DEF Stop, HandsInv, TypeInv, TypeOK
<1>2. CASE DrainTimeout(w)
  <2>1. snap[w] \in SUBSET (inflight[w] \cup {held[w]})
    BY DEF HandsInv
  <2>2. held[w] \notin snap[w]
    <3>. SUFFICES ASSUME held[w] \in snap[w] PROVE FALSE
      OBVIOUS
    <3>1. PICK j \in Jobs, a \in Attempts : held[w] = <<j, a>>
      BY DEF TypeInv, TypeOK, Claims
    <3>2. phase[j][a] = "held" /\ <<j, a>> \in inflight[w]
      BY <3>1 DEF HandsInv
    <3>. QED
      BY <3>2 DEF HandsInv
  <2>3. /\ \A v \in Workers : v # w => /\ held'[v] = held[v]
                                       /\ inflight'[v] = inflight[v]
                                       /\ snap'[v] = snap[v]
                                       /\ pc'[v] = pc[v]
                                       /\ mode'[v] = mode[v]
        /\ inflight'[w] = inflight[w] \ snap[w]
        /\ snap'[w] = {}
        /\ held'[w] = held[w] /\ pc'[w] = pc[w] /\ mode'[w] = mode[w]
    BY <1>2 DEF DrainTimeout, TypeInv, TypeOK
  <2>. QED
    BY <1>2, <2>1, <2>2, <2>3, HandsDrop DEF DrainTimeout
<1>3. ASSUME Down(w)
      PROVE  HandsInv'
  <2>1. /\ \A v \in Workers : v # w => /\ held'[v] = held[v]
                                       /\ inflight'[v] = inflight[v]
                                       /\ snap'[v] = snap[v]
                                       /\ pc'[v] = pc[v]
                                       /\ mode'[v] = mode[v]
        /\ inflight'[w] = {}
        /\ snap'[w] = {}
        /\ held'[w] = NoClaim /\ pc'[w] = "exited"
    BY <1>3 DEF Down, TypeInv, TypeOK
  <2>. DEFINE D == inflight[w] \cup {held[w]}
  <2>2. /\ D \in SUBSET (inflight[w] \cup {held[w]})
        /\ phase' = [j \in Jobs |-> [a \in Attempts |->
                        IF <<j, a>> \in D THEN "lost" ELSE phase[j][a]]]
    BY <1>3 DEF Down
  <2>3. inflight'[w] = inflight[w] \ D
    BY <2>1
  <2>. HIDE DEF D
  <2>. QED
    BY <2>1, <2>2, <2>3, HandsDrop
<1>4. CASE Exit(w) \/ Crash(w)
  BY <1>3, <1>4 DEF Exit, Crash
<1>5. CASE Boot(w)
  BY <1>5 DEF Boot, HandsInv, TypeInv, TypeOK
<1>. QED
  BY <1>1, <1>2, <1>4, <1>5

-----------------------------------------------------------------------------
(* The row layer, on top of the types and of the workers' memory, and the  *)
(* theorems about rows it leads to: who works on a row, and how often its  *)
(* handler's effects are committed.                                        *)

(***************************************************************************)
(* FreshInv, Exclusive, SettledInv and EffectivelyOnce, of one row.        *)
(***************************************************************************)
RowInv(j) ==
    /\ \A a \in Attempts : phase[j][a] # "none" => a <= attempts[j]
    /\ status[j] = "absent" => attempts[j] = 0
    /\ ~preempted[j] =>
          \A a \in Attempts : phase[j][a] \in LivePhases =>
              a = attempts[j] /\ status[j] # "queued"
    /\ ~preempted[j] /\ ~ackLost[j] /\ status[j] = "succeeded" =>
          \A a \in Attempts : phase[j][a] \notin LivePhases
    /\ j \notin Unseen /\ ~preempted[j] /\ ~ackLost[j] =>
          /\ effects[j] # {} <=> status[j] = "succeeded"
          /\ \A a, b \in effects[j] : a = b

Rows == \A j \in Jobs : RowInv(j)

LEMMA RowsParts == Rows <=> FreshInv /\ Exclusive /\ SettledInv /\ EffectivelyOnce
<1>1. Rows => FreshInv /\ Exclusive /\ SettledInv
  BY DEF Rows, RowInv, FreshInv, Exclusive, SettledInv, LiveAttempts
<1>2. Rows => EffectivelyOnce
  BY DEF Rows, RowInv, EffectivelyOnce
<1>3. FreshInv /\ Exclusive /\ SettledInv /\ EffectivelyOnce => Rows
  BY DEF Rows, RowInv, FreshInv, Exclusive, SettledInv, EffectivelyOnce, LiveAttempts
<1>. QED
  BY <1>1, <1>2, <1>3

-----------------------------------------------------------------------------
(* One row, one step.                                                      *)

(***************************************************************************)
(* Every step but a claim and a commit: claims of the row may end but none *)
(* begins, no effect is committed, and the status stays or leaves a row    *)
(* that has not succeeded.  A row put back in the queue with a live claim  *)
(* is marked as preempted.                                                 *)
(***************************************************************************)
RowQuiet(j) ==
    /\ attempts'[j] = attempts[j]
    /\ effects'[j] = effects[j]
    /\ ackLost'[j] = ackLost[j]
    /\ ~preempted'[j] => ~preempted[j]
    /\ \A a \in Attempts :
          /\ phase'[j][a] # "none" => phase[j][a] # "none"
          /\ phase'[j][a] \in LivePhases => phase[j][a] \in LivePhases
    /\ \/ status'[j] = status[j]
       \/ /\ status'[j] \in {"queued", "cancelled", "failed"}
          /\ \/ status[j] # "succeeded"
             \/ \E a \in Attempts : phase[j][a] \in LivePhases
          /\ status'[j] = "queued" /\ ~preempted'[j] =>
                \A a \in Attempts : phase'[j][a] \notin LivePhases

LEMMA QuietRow ==
    ASSUME NEW j \in Jobs, RowInv(j), RowQuiet(j)
    PROVE  RowInv(j)'
<1>1. /\ \A a \in Attempts : phase'[j][a] # "none" => a <= attempts'[j]
      /\ status'[j] = "absent" => attempts'[j] = 0
  BY DEF RowInv, RowQuiet
<1>2. ~preempted'[j] =>
        \A a \in Attempts : phase'[j][a] \in LivePhases =>
            a = attempts'[j] /\ status'[j] # "queued"
  BY DEF RowInv, RowQuiet
<1>3. ~preempted'[j] /\ ~ackLost'[j] /\ status'[j] = "succeeded" =>
        \A a \in Attempts : phase'[j][a] \notin LivePhases
  BY DEF RowInv, RowQuiet
<1>4. j \notin Unseen /\ ~preempted'[j] /\ ~ackLost'[j] =>
        /\ effects'[j] # {} <=> status'[j] = "succeeded"
        /\ \A a, b \in effects'[j] : a = b
  BY DEF RowInv, RowQuiet
<1>. QED
  BY <1>1, <1>2, <1>3, <1>4 DEF RowInv

(***************************************************************************)
(* Clients, operators and time: quiet steps of every row.                  *)
(***************************************************************************)
LEMMA QuietRowStep ==
    ASSUME TypeOK, Rows, NEW k \in Jobs,
           Enqueue(k) \/ Cancel(k) \/ Retry(k) \/ BackoffElapses(k) \/ VisibilityElapses(k),
           NEW j \in Jobs
    PROVE  RowQuiet(j)
<1>1. CASE Enqueue(k)
  <2>1. status[k] = "absent" => \A a \in Attempts : phase[k][a] \notin LivePhases
    BY BoundAssumption DEF Rows, RowInv, LivePhases, Attempts
  <2>. QED
    BY <1>1, <2>1 DEF Enqueue, RowQuiet, TypeOK, historyVars
<1>2. CASE Cancel(k)
  BY <1>2 DEF Cancel, RowQuiet, TypeOK, historyVars, LiveStatuses
<1>3. CASE Retry(k)
  <2>1. ~preempted'[j] => ~preempted[j] /\ (j = k => LiveAttempts(k) = {})
    BY <1>3, Zenon DEF Retry, RetryFrom, TypeOK
  <2>. QED
    BY <1>3, <2>1 DEF Retry, RetryFrom, RowQuiet, TypeOK, LiveAttempts
<1>4. CASE BackoffElapses(k) \/ VisibilityElapses(k)
  BY <1>4 DEF BackoffElapses, VisibilityElapses, RowQuiet, historyVars
<1>. QED
  BY <1>1, <1>2, <1>3, <1>4

(***************************************************************************)
(* A live claim c = <<k, b>> ends as ph, or changes from live to live.     *)
(***************************************************************************)
LEMMA PhaseOfClaim ==
    ASSUME MemInv, NEW w \in Workers, NEW c \in inflight[w], NEW ph, SetPhase(c, ph)
    PROVE  \E k \in Jobs, b \in Attempts :
              /\ c = <<k, b>>
              /\ phase[k][b] \in {"task", "raised"}
              /\ \A j \in Jobs, a \in Attempts :
                    phase'[j][a] = IF j = k /\ a = b THEN ph ELSE phase[j][a]
<1>1. PICK k \in Jobs, b \in Attempts : c = <<k, b>>
  BY DEF MemInv, TypeInv, TypeOK, Claims
<1>2. phase[k][b] \in {"task", "raised"}
  BY <1>1 DEF MemInv, HandsInv
<1>3. phase' = [phase EXCEPT ![k][b] = ph]
  BY <1>1 DEF SetPhase
<1>4. \A j \in Jobs, a \in Attempts :
         phase'[j][a] = IF j = k /\ a = b THEN ph ELSE phase[j][a]
  BY <1>3 DEF MemInv, TypeInv, TypeOK
<1>. QED
  BY <1>1, <1>2, <1>4

(***************************************************************************)
(* The outcomes a dispatch task records without an effect.                 *)
(***************************************************************************)
LEMMA QuietDispatchStep ==
    ASSUME MemInv, NEW w \in Workers, NEW c \in inflight[w],
           \/ HandlerRaises(w, c) \/ MarkFailedFinal(w, c)
           \/ MarkFailedRetry(w, c) \/ RecordingFails(w, c),
           NEW j \in Jobs
    PROVE  RowQuiet(j)
<1>1. PICK ph \in {"raised", "failed", "requeued", "lost"} : SetPhase(c, ph)
  BY DEF HandlerRaises, MarkFailedFinal, MarkFailedRetry, RecordingFails, Finish
<1>2. PICK k \in Jobs, b \in Attempts :
              /\ c = <<k, b>>
              /\ phase[k][b] \in {"task", "raised"}
              /\ \A i \in Jobs, a \in Attempts :
                    phase'[i][a] = IF i = k /\ a = b THEN ph ELSE phase[i][a]
  BY <1>1, PhaseOfClaim
<1>3. /\ phase[k][b] \in LivePhases
      /\ \A a \in Attempts :
            /\ phase'[j][a] # "none" => phase[j][a] # "none"
            /\ phase'[j][a] \in LivePhases => phase[j][a] \in LivePhases
  BY <1>1, <1>2 DEF LivePhases
<1>. USE DEF MemInv, TypeInv, TypeOK
<1>4. CASE HandlerRaises(w, c) \/ RecordingFails(w, c)
  BY <1>3, <1>4 DEF HandlerRaises, RecordingFails, RowQuiet, rowVars, historyVars
<1>5. CASE MarkFailedFinal(w, c)
  <2>1. status' = [status EXCEPT ![k] = "failed"]
    BY <1>2, <1>5 DEF MarkFailedFinal
  <2>2. status'[j] = IF j = k THEN "failed" ELSE status[j]
    BY <2>1
  <2>. QED
    BY <1>2, <1>3, <1>5, <2>2 DEF MarkFailedFinal, RowQuiet, historyVars
<1>6. CASE MarkFailedRetry(w, c)
  <2>1. /\ status' = [status EXCEPT ![k] = "queued"]
        /\ preempted' = [preempted EXCEPT ![k] = @ \/ LiveAttempts(k) # {b}]
    BY <1>2, <1>6 DEF MarkFailedRetry
  <2>2. status'[j] = IF j = k THEN "queued" ELSE status[j]
    BY <2>1
  <2>3. ~preempted'[j] => ~preempted[j] /\ (j = k => LiveAttempts(k) = {b})
    BY <2>1, Zenon
  <2>4. ~preempted'[k] /\ j = k => \A a \in Attempts : phase'[k][a] \notin LivePhases
    <3>1. SetPhase(c, "requeued")
      BY <1>6 DEF MarkFailedRetry, Finish
    <3>2. phase'[k][b] = "requeued"
      BY <1>2, <3>1 DEF SetPhase
    <3>. QED
      BY <1>2, <2>3, <3>2 DEF LiveAttempts, LivePhases
  <2>. QED
    BY <1>2, <1>3, <1>6, <2>2, <2>3, <2>4 DEF MarkFailedRetry, RowQuiet
<1>. QED
  BY <1>4, <1>5, <1>6

(***************************************************************************)
(* The poll loop outside of claim_next, and the life of the process.       *)
(***************************************************************************)
LEMMA QuietProcessStep ==
    ASSUME MemInv, NEW w \in Workers,
           \/ LoopCheck(w) \/ Acquire(w) \/ Stop(w) \/ DrainTimeout(w)
           \/ Exit(w) \/ Crash(w) \/ Boot(w),
           NEW j \in Jobs
    PROVE  RowQuiet(j)
<1>1. CASE LoopCheck(w) \/ Stop(w) \/ Boot(w)
  BY <1>1 DEF LoopCheck, Stop, Boot, RowQuiet, rowVars, historyVars
<1>2. CASE Acquire(w)
  <2>1. PICK k \in Jobs, b \in Attempts : held[w] = <<k, b>>
    BY <1>2 DEF Acquire, Spawn, MemInv, TypeInv, TypeOK, Claims
  <2>2. phase[k][b] = "held"
    BY <2>1 DEF MemInv, HandsInv
  <2>3. phase' = [phase EXCEPT ![k][b] = "task"]
    BY <1>2, <2>1 DEF Acquire, Spawn, SetPhase
  <2>4. \A a \in Attempts :
            /\ phase'[j][a] # "none" => phase[j][a] # "none"
            /\ phase'[j][a] \in LivePhases => phase[j][a] \in LivePhases
    BY <2>2, <2>3 DEF LivePhases, MemInv, TypeInv, TypeOK
  <2>. QED
    BY <1>2, <2>4 DEF Acquire, Spawn, RowQuiet, rowVars, historyVars
<1>3. ASSUME NEW D, UNCHANGED <<rowVars, historyVars>>,
             phase' = [i \in Jobs |-> [a \in Attempts |->
                          IF <<i, a>> \in D THEN "lost" ELSE phase[i][a]]],
             \A i \in Jobs, a \in Attempts : <<i, a>> \in D => phase[i][a] # "none"
      PROVE  RowQuiet(j)
  BY <1>3 DEF RowQuiet, rowVars, historyVars, LivePhases
<1>4. \A i \in Jobs, a \in Attempts :
          <<i, a>> \in inflight[w] \cup snap[w] \cup {held[w]} => phase[i][a] # "none"
  BY DEF MemInv, HandsInv
<1>5. CASE DrainTimeout(w)
  BY <1>3, <1>4, <1>5 DEF DrainTimeout
<1>6. CASE Exit(w) \/ Crash(w)
  <2>. DEFINE D == inflight[w] \cup {held[w]}
  <2>1. /\ UNCHANGED <<rowVars, historyVars>>
        /\ phase' = [i \in Jobs |-> [a \in Attempts |->
                        IF <<i, a>> \in D THEN "lost" ELSE phase[i][a]]]
    BY <1>6 DEF Exit, Crash, Down
  <2>2. \A i \in Jobs, a \in Attempts : <<i, a>> \in D => phase[i][a] # "none"
    BY <1>4
  <2>. HIDE DEF D
  <2>. QED
    BY <1>3, <2>1, <2>2
<1>. QED
  BY <1>1, <1>2, <1>5, <1>6

(***************************************************************************)
(* claim_next: a row of C was queued, or was put back by this very call,   *)
(* so that no claim of it is live unless it is marked as preempted.        *)
(***************************************************************************)
LEMMA ClaimRow ==
    ASSUME MemInv, NEW Z \in ZombieBatches, NEW C \in SUBSET Claimable(Z),
           NEW ph \in {"none", "held", "lost"}, ClaimNext(Z, C, ph),
           NEW j \in Jobs, RowInv(j)
    PROVE  RowInv(j)'
<1>. USE DEF MemInv, TypeInv, TypeOK
<1>1. /\ j \in Z => status[j] = "running"
      /\ j \in C => status[j] = "queued" \/ j \in Z
      /\ j \in C => attempts[j] < MaxClaims
  BY DEF ZombieBatches, Zombies, Claimable
<1>2. /\ status'[j] = IF j \in C THEN "running" ELSE IF j \in Z THEN "queued" ELSE status[j]
      /\ attempts'[j] = IF j \in C THEN attempts[j] + 1 ELSE attempts[j]
      /\ effects'[j] = effects[j]
      /\ ackLost'[j] = ackLost[j]
      /\ \A a \in Attempts : phase'[j][a] =
            IF j \in C /\ a = attempts[j] + 1 THEN ph ELSE phase[j][a]
  BY DEF ClaimNext, ClaimColumns
<1>3. ~preempted'[j] => ~preempted[j] /\ (j \in Z => LiveAttempts(j) = {})
  BY Zenon DEF ClaimNext, ClaimColumns
<1>4. CASE j \notin C
  <2>1. RowQuiet(j)
    BY <1>1, <1>2, <1>3, <1>4 DEF RowQuiet, LiveAttempts
  <2>. QED
    BY <2>1, QuietRow
<1>5. CASE j \in C
  <2>1. ~preempted[j] /\ status[j] = "queued" =>
            \A a \in Attempts : phase[j][a] \notin LivePhases
    BY DEF RowInv
  <2>2. ~preempted'[j] => ~preempted[j] /\ \A a \in Attempts : phase[j][a] \notin LivePhases
    BY <1>1, <1>3, <1>5, <2>1 DEF LiveAttempts
  <2>3. /\ \A a \in Attempts : phase'[j][a] # "none" => a <= attempts'[j]
        /\ status'[j] = "running"
    <3>1. attempts[j] \in Int /\ \A a \in Attempts : a \in Int
      BY DEF Attempts
    <3>2. \A a \in Attempts : phase[j][a] # "none" => a <= attempts[j]
      BY DEF RowInv
    <3>3. ASSUME NEW a \in Attempts, phase'[j][a] # "none"
          PROVE  a = attempts[j] + 1 \/ phase[j][a] # "none"
      BY <1>2, <1>5, <3>3
    <3>4. ASSUME NEW a \in Attempts, a = attempts[j] + 1 \/ a <= attempts[j]
          PROVE  a <= attempts'[j]
      BY <1>2, <1>5, <3>1, <3>4
    <3>5. status'[j] = "running"
      BY <1>2, <1>5
    <3>. QED
      BY <3>2, <3>3, <3>4, <3>5
  <2>4. ~preempted'[j] => \A a \in Attempts :
            phase'[j][a] \in LivePhases => a = attempts'[j]
    BY <1>2, <1>5, <2>2 DEF LivePhases
  <2>5. j \notin Unseen /\ ~preempted'[j] /\ ~ackLost'[j] => effects'[j] = {}
    BY <1>1, <1>2, <1>3, <1>5 DEF RowInv
  <2>. QED
    BY <2>3, <2>4, <2>5 DEF RowInv
<1>. QED
  BY <1>4, <1>5

(***************************************************************************)
(* The commit of claim <<k, b>>: on an undisturbed row b was the only live *)
(* claim and the row had no effect yet.                                    *)
(***************************************************************************)
LEMMA CommitRow ==
    ASSUME MemInv, Rows, NEW w \in Workers, NEW c \in inflight[w],
           Commit(w, c) \/ CommitAckLost(w, c), NEW j \in Jobs
    PROVE  RowInv(j)'
<1>. USE DEF MemInv, TypeInv, TypeOK
<1>1. PICK ph \in {"committed", "raised"} :
          /\ SetPhase(c, ph)
          /\ ph = "committed" <=> Commit(w, c)
          /\ ph = "raised" => CommitAckLost(w, c)
  <2>1. CASE Commit(w, c)
    BY <2>1 DEF Commit, Finish
  <2>2. CASE CommitAckLost(w, c) /\ ~Commit(w, c)
    BY <2>2 DEF CommitAckLost
  <2>. QED
    BY <2>1, <2>2
<1>2. PICK k \in Jobs, b \in Attempts :
              /\ c = <<k, b>>
              /\ phase[k][b] \in {"task", "raised"}
              /\ \A i \in Jobs, a \in Attempts :
                    phase'[i][a] = IF i = k /\ a = b THEN ph ELSE phase[i][a]
  BY <1>1, PhaseOfClaim
<1>3. CommitEffects(k, b)
  BY <1>2 DEF Commit, CommitAckLost
<1>4. /\ effects'[j] = IF j = k THEN effects[j] \cup {b} ELSE effects[j]
      /\ status'[j] = IF j = k /\ k \notin Unseen THEN "succeeded" ELSE status[j]
      /\ attempts'[j] = attempts[j]
      /\ preempted'[j] = preempted[j]
  BY <1>3 DEF CommitEffects
<1>5. /\ j # k => ackLost'[j] = ackLost[j]
      /\ ph = "committed" => ackLost'[j] = ackLost[j]
      /\ ph = "raised" /\ j = k => ackLost'[j] = TRUE
  BY <1>1, <1>2 DEF Commit, CommitAckLost
<1>6. phase[k][b] \in LivePhases /\ phase[k][b] # "none" /\ RowInv(j)
  BY <1>2 DEF LivePhases, Rows
<1>7. CASE j # k
  <2>1. RowQuiet(j)
    BY <1>2, <1>4, <1>5, <1>7 DEF RowQuiet
  <2>. QED
    BY <1>6, <2>1, QuietRow
<1>8. CASE j = k
  <2>1. \A a \in Attempts :
            /\ phase'[j][a] # "none" => a <= attempts'[j]
            /\ phase'[j][a] \in LivePhases => phase[j][a] \in LivePhases
    BY <1>2, <1>4, <1>6, <1>8 DEF RowInv
  <2>2. /\ status'[j] = "absent" => attempts'[j] = 0
        /\ ~preempted'[j] => \A a \in Attempts :
              phase'[j][a] \in LivePhases => a = attempts'[j] /\ status'[j] # "queued"
    BY <1>4, <1>6, <1>8, <2>1 DEF RowInv
  <2>3. ~preempted'[j] /\ ~ackLost'[j] =>
            /\ ph = "committed" /\ ~ackLost[j]
            /\ \A a \in Attempts : phase[j][a] \in LivePhases => a = b
            /\ status[j] # "succeeded"
    BY <1>1, <1>4, <1>5, <1>6, <1>8 DEF RowInv
  <2>4. ~preempted'[j] /\ ~ackLost'[j] =>
            \A a \in Attempts : phase'[j][a] \notin LivePhases
    BY <1>2, <1>8, <2>1, <2>3 DEF LivePhases
  <2>5. j \notin Unseen /\ ~preempted'[j] /\ ~ackLost'[j] =>
            effects'[j] = {b} /\ status'[j] = "succeeded"
    BY <1>4, <1>6, <1>8, <2>3 DEF RowInv
  <2>. QED
    BY <2>1, <2>2, <2>4, <2>5 DEF RowInv
<1>. QED
  BY <1>7, <1>8

-----------------------------------------------------------------------------
(* The invariant is inductive.                                             *)

Inv == MemInv /\ Rows

LEMMA RowsNext == Inv /\ [Next]_vars => Rows'
<1>. SUFFICES ASSUME Inv, [Next]_vars, NEW j \in Jobs
              PROVE  RowInv(j)'
  BY DEF Rows
<1>. USE DEF Inv
<1>1. RowInv(j) /\ TypeOK
  BY DEF Rows, MemInv, TypeInv
<1>2. ASSUME NEW k \in Jobs,
             \/ Enqueue(k) \/ Cancel(k) \/ Retry(k)
             \/ BackoffElapses(k) \/ VisibilityElapses(k)
      PROVE  RowInv(j)'
  BY <1>1, <1>2, QuietRowStep, QuietRow
<1>3. ASSUME NEW w \in Workers, WorkerStep(w)
      PROVE  RowInv(j)'
  <2>1. ASSUME NEW c \in inflight[w], Dispatch(w, c)
        PROVE  RowInv(j)'
    <3>1. CASE Commit(w, c) \/ CommitAckLost(w, c)
      BY <3>1, CommitRow
    <3>2. CASE \/ HandlerRaises(w, c) \/ MarkFailedFinal(w, c)
               \/ MarkFailedRetry(w, c) \/ RecordingFails(w, c)
      BY <1>1, <3>2, QuietDispatchStep, QuietRow
    <3>. QED
      BY <2>1, <3>1, <3>2 DEF Dispatch
  <2>2. CASE PollNone(w)
    <3>1. PICK Z \in ZombieBatches : ClaimNext(Z, {}, "none")
      BY <2>2 DEF PollNone
    <3>2. {} \in SUBSET Claimable(Z)
      OBVIOUS
    <3>. QED
      BY <1>1, <3>1, <3>2, ClaimRow
  <2>3. ASSUME NEW Z \in ZombieBatches, NEW k \in Claimable(Z), NEW ph \in {"held", "lost"},
               ClaimNext(Z, {k}, ph)
        PROVE  RowInv(j)'
    <3>1. {k} \in SUBSET Claimable(Z)
      OBVIOUS
    <3>. QED
      BY <1>1, <2>3, <3>1, ClaimRow
  <2>4. CASE Poll(w)
    BY <2>3, <2>4 DEF Poll
  <2>5. CASE PollRaises(w)
    <3>1. CASE UNCHANGED <<rowVars, phase, historyVars>>
      <4>1. RowQuiet(j)
        BY <3>1 DEF RowQuiet, rowVars, historyVars
      <4>. QED
        BY <1>1, <4>1, QuietRow
    <3>. QED
      BY <2>3, <2>5, <3>1 DEF PollRaises
  <2>6. CASE \/ LoopCheck(w) \/ Acquire(w) \/ Stop(w) \/ DrainTimeout(w)
             \/ Exit(w) \/ Crash(w) \/ Boot(w)
    BY <1>1, <2>6, QuietProcessStep, QuietRow
  <2>. QED
    BY <1>3, <2>1, <2>2, <2>4, <2>5, <2>6 DEF WorkerStep
<1>4. CASE UNCHANGED vars
  <2>1. RowQuiet(j)
    BY <1>4 DEF RowQuiet, vars, rowVars, historyVars
  <2>. QED
    BY <1>1, <2>1, QuietRow
<1>. QED
  BY <1>2, <1>3, <1>4 DEF Next

LEMMA MemNext == Inv /\ [Next]_vars => MemInv'
<1>. SUFFICES ASSUME Inv, [Next]_vars
              PROVE  MemInv'
  OBVIOUS
<1>1. TypeInv' /\ FreshInv'
  BY TypeNext, RowsNext, RowsParts DEF Inv, MemInv, Rows, RowInv, FreshInv
<1>2. ASSUME NEW w \in Workers, WorkerStep(w)
      PROVE  HandsInv'
  BY <1>2, HandsPollStep, HandsDispatchStep, HandsProcessStep DEF WorkerStep, Inv
<1>3. ASSUME UNCHANGED vars
      PROVE  HandsInv'
  <2>1. HandsInv /\ UNCHANGED <<phase, pc, held, inflight, snap, mode>>
    BY <1>3 DEF vars, Inv, MemInv, workerVars
  <2>. QED
    BY <2>1 DEF HandsInv
<1>4. HandsInv'
  BY <1>2, <1>3, HandsRowStep DEF Next, Inv, MemInv
<1>. QED
  BY <1>1, <1>4 DEF MemInv

LEMMA InvInit == Init => Inv
<1>. SUFFICES ASSUME Init
              PROVE  Inv
  OBVIOUS
<1>1. HandsInv
  BY NoClaimAssumption DEF Init, HandsInv, Attempts
<1>2. Rows
  BY DEF Init, Rows, RowInv, LivePhases
<1>3. FreshInv
  BY <1>2, RowsParts
<1>. QED
  BY <1>1, <1>2, <1>3, TypeInit DEF Inv, MemInv

(***************************************************************************)
(* The whole inductive invariant: the workers' memory, the attempt numbers *)
(* and the rows agree in every state of every execution.                   *)
(***************************************************************************)
THEOREM Invariance == Spec => []IInv
<1>1. Inv /\ [Next]_vars => Inv'
  BY RowsNext, MemNext DEF Inv
<1>2. Inv => IInv
  BY RowsParts DEF Inv, MemInv, TypeInv, IInv
<1>. QED
  BY InvInit, <1>1, <1>2, PTL DEF Spec

(***************************************************************************)
(* claim_next with SKIP LOCKED and the visibility timeout: a row that was  *)
(* not requeued under a live claim is worked on by its latest claim only,  *)
(* and never while it is queued.                                           *)
(***************************************************************************)
THEOREM ExclusiveCorrect == Spec => []Exclusive
<1>1. IInv => Exclusive
  BY DEF IInv
<1>. QED
  BY Invariance, <1>1, PTL

(***************************************************************************)
(* The handler's transaction holds mark_succeeded: outside the three named *)
(* exceptions the effects of a job are committed once, and exactly when    *)
(* its row says succeeded.                                                 *)
(***************************************************************************)
THEOREM EffectivelyOnceCorrect == Spec => []EffectivelyOnce
<1>1. IInv => EffectivelyOnce
  BY DEF IInv
<1>. QED
  BY Invariance, <1>1, PTL

-----------------------------------------------------------------------------
(* Keys.                                                                   *)

(***************************************************************************)
(* A step that makes no row live but those whose key is free.              *)
(***************************************************************************)
LEMMA KeyStep ==
    ASSUME OneLivePerKey, NEW k \in Jobs,
           status'[k] \in LiveStatuses => status[k] \in LiveStatuses \/ KeyFree(k),
           \A j \in Jobs \ {k} : status'[j] \in LiveStatuses => status[j] \in LiveStatuses
    PROVE  OneLivePerKey'
BY DEF OneLivePerKey, KeyFree

LEMMA KeyNext == TypeOK /\ OneLivePerKey /\ [Next]_vars => OneLivePerKey'
<1>. SUFFICES ASSUME TypeOK, OneLivePerKey, [Next]_vars
              PROVE  OneLivePerKey'
  OBVIOUS
<1>. USE DEF TypeOK
<1>1. ASSUME NEW k \in Jobs,
             \/ Enqueue(k) \/ Cancel(k) \/ Retry(k)
             \/ BackoffElapses(k) \/ VisibilityElapses(k)
      PROVE  OneLivePerKey'
  <2>1. \A j \in Jobs \ {k} : status'[j] = status[j]
    BY <1>1 DEF Enqueue, Cancel, Retry, RetryFrom, BackoffElapses, VisibilityElapses
  <2>2. status'[k] \in LiveStatuses => status[k] \in LiveStatuses \/ KeyFree(k)
    BY <1>1 DEF Enqueue, Cancel, Retry, RetryFrom, BackoffElapses, VisibilityElapses,
                LiveStatuses
  <2>. QED
    BY <2>1, <2>2, KeyStep
<1>2. ASSUME \A j \in Jobs : status'[j] \in LiveStatuses => status[j] \in LiveStatuses
      PROVE  OneLivePerKey'
  BY <1>2 DEF OneLivePerKey
<1>3. ASSUME NEW Z \in ZombieBatches, NEW C \in SUBSET Claimable(Z), NEW ph, ClaimNext(Z, C, ph)
      PROVE  OneLivePerKey'
  <2>1. \A j \in Z \cup C : status[j] \in LiveStatuses
    BY DEF ZombieBatches, Zombies, Claimable, LiveStatuses
  <2>. QED
    BY <1>2, <1>3, <2>1 DEF ClaimNext
<1>4. ASSUME NEW w \in Workers, WorkerStep(w)
      PROVE  OneLivePerKey'
  <2>1. CASE PollNone(w)
    BY <1>3, <2>1 DEF PollNone
  <2>2. ASSUME NEW Z \in ZombieBatches, NEW k \in Claimable(Z), NEW ph, ClaimNext(Z, {k}, ph)
        PROVE  OneLivePerKey'
    <3>1. {k} \in SUBSET Claimable(Z)
      OBVIOUS
    <3>. QED
      BY <1>3, <2>2, <3>1
  <2>3. CASE Poll(w)
    BY <2>2, <2>3 DEF Poll
  <2>4. CASE PollRaises(w)
    <3>1. CASE UNCHANGED rowVars
      BY <1>2, <3>1 DEF rowVars
    <3>. QED
      BY <2>2, <2>4, <3>1 DEF PollRaises
  <2>5. ASSUME NEW c \in inflight[w], Dispatch(w, c)
        PROVE  OneLivePerKey'
    <3>1. c[1] \in Jobs
      BY DEF Claims
    <3>2. CASE MarkFailedRetry(w, c)
      BY <3>1, <3>2, KeyStep DEF MarkFailedRetry
    <3>3. CASE ~MarkFailedRetry(w, c)
      BY <1>2, <2>5, <3>3 DEF Dispatch, Commit, CommitAckLost, CommitEffects, HandlerRaises,
            MarkFailedFinal, RecordingFails, rowVars, LiveStatuses
    <3>. QED
      BY <3>2, <3>3
  <2>6. CASE \/ LoopCheck(w) \/ Acquire(w) \/ Stop(w) \/ DrainTimeout(w)
             \/ Exit(w) \/ Crash(w) \/ Boot(w)
    BY <1>2, <2>6 DEF LoopCheck, Acquire, Spawn, Stop, DrainTimeout, Exit, Crash, Down, Boot,
          rowVars
  <2>. QED
    BY <1>4, <2>1, <2>3, <2>4, <2>5, <2>6 DEF WorkerStep
<1>5. CASE UNCHANGED vars
  BY <1>2, <1>5 DEF vars, rowVars
<1>. QED
  BY <1>1, <1>4, <1>5 DEF Next

(***************************************************************************)
(* "At most one queued/running job per key": by enqueue, by a retry, by a  *)
(* reclaim and by the late failure of a claim alike.                       *)
(***************************************************************************)
THEOREM OneLivePerKeyCorrect == Spec => []OneLivePerKey
<1>1. Init => OneLivePerKey
  BY DEF Init, OneLivePerKey, LiveStatuses
<1>. QED
  BY TypeCorrect, KeyNext, <1>1, PTL DEF Spec

-----------------------------------------------------------------------------
(* What follows from the invariant with a little more: that a success has  *)
(* its effects, that a claim beyond max_attempts was asked for, and that   *)
(* every open claim is in one worker's hands, within the worker's slots.   *)

(* What one call of claim_next does to one row.                            *)

LEMMA ClaimOfRow ==
    ASSUME MemInv, NEW Z \in ZombieBatches, NEW C \in SUBSET Claimable(Z), NEW ph,
           ClaimNext(Z, C, ph), NEW j \in Jobs
    PROVE  /\ j \in Z => status[j] = "running"
           /\ j \in C => status[j] = "queued" \/ j \in Z
           /\ status'[j] = IF j \in C THEN "running" ELSE IF j \in Z THEN "queued" ELSE status[j]
           /\ attempts'[j] = IF j \in C THEN attempts[j] + 1 ELSE attempts[j]
           /\ extra'[j] = IF j \in Z THEN extra[j] + 1 ELSE extra[j]
           /\ effects'[j] = effects[j]
           /\ \A a \in Attempts : phase'[j][a] =
                 IF j \in C /\ a = attempts[j] + 1 THEN ph ELSE phase[j][a]
           /\ \A a \in Attempts : a = attempts[j] + 1 => phase[j][a] = "none"
<1>. USE DEF MemInv, TypeInv, TypeOK
<1>1. /\ j \in Z => status[j] = "running"
      /\ j \in C => status[j] = "queued" \/ j \in Z
  BY DEF ZombieBatches, Zombies, Claimable
<1>2. \A a \in Attempts : a = attempts[j] + 1 => phase[j][a] = "none"
  BY DEF FreshInv, Attempts
<1>. QED
  BY <1>1, <1>2 DEF ClaimNext, ClaimColumns

-----------------------------------------------------------------------------
(* Successes have their effects.                                           *)

LEMMA SuccessNext == Inv /\ SuccessHasEffects /\ [Next]_vars => SuccessHasEffects'
<1>. SUFFICES ASSUME Inv, SuccessHasEffects, [Next]_vars, NEW j \in Jobs
              PROVE  status'[j] = "succeeded" => effects'[j] # {}
  BY DEF SuccessHasEffects
<1>. USE DEF Inv, MemInv, TypeInv, TypeOK
<1>1. status[j] = "succeeded" => effects[j] # {}
  BY DEF SuccessHasEffects
<1>2. ASSUME NEW k \in Jobs,
             \/ Enqueue(k) \/ Cancel(k) \/ Retry(k)
             \/ BackoffElapses(k) \/ VisibilityElapses(k)
      PROVE  status'[j] = "succeeded" => effects'[j] # {}
  BY <1>1, <1>2 DEF Enqueue, Cancel, Retry, RetryFrom, BackoffElapses, VisibilityElapses,
                    historyVars
<1>3. ASSUME NEW Z \in ZombieBatches, NEW C \in SUBSET Claimable(Z), NEW ph,
             ClaimNext(Z, C, ph)
      PROVE  status'[j] = "succeeded" => effects'[j] # {}
  <2>1. effects'[j] = effects[j] /\ (status'[j] = "succeeded" => status[j] = "succeeded")
    BY <1>3, ClaimOfRow
  <2>. QED
    BY <1>1, <2>1
<1>4. ASSUME NEW w \in Workers, NEW c \in inflight[w], Dispatch(w, c)
      PROVE  status'[j] = "succeeded" => effects'[j] # {}
  <2>1. PICK k \in Jobs, b \in Attempts : c = <<k, b>>
    BY DEF Claims
  <2>2. CASE Commit(w, c) \/ CommitAckLost(w, c)
    <3>1. CommitEffects(k, b)
      BY <2>1, <2>2 DEF Commit, CommitAckLost
    <3>2. /\ effects'[j] = IF j = k THEN effects[j] \cup {b} ELSE effects[j]
          /\ j # k => status'[j] = status[j]
      BY <3>1 DEF CommitEffects
    <3>. QED
      BY <1>1, <3>2
  <2>3. CASE MarkFailedFinal(w, c) \/ MarkFailedRetry(w, c)
    BY <1>1, <2>1, <2>3 DEF MarkFailedFinal, MarkFailedRetry, historyVars
  <2>4. CASE HandlerRaises(w, c) \/ RecordingFails(w, c)
    BY <1>1, <2>4 DEF HandlerRaises, RecordingFails, rowVars, historyVars
  <2>. QED
    BY <1>4, <2>2, <2>3, <2>4 DEF Dispatch
<1>5. ASSUME UNCHANGED <<rowVars, historyVars>>
      PROVE  status'[j] = "succeeded" => effects'[j] # {}
  BY <1>1, <1>5 DEF rowVars, historyVars
<1>6. ASSUME NEW w \in Workers, WorkerStep(w)
      PROVE  status'[j] = "succeeded" => effects'[j] # {}
  <2>1. CASE PollNone(w)
    <3>1. \A Z \in ZombieBatches : {} \in SUBSET Claimable(Z)
      OBVIOUS
    <3>. QED
      BY <1>3, <2>1, <3>1 DEF PollNone
  <2>2. CASE Poll(w) \/ PollRaises(w)
    <3>1. \A Z \in ZombieBatches : \A k \in Claimable(Z) : {k} \in SUBSET Claimable(Z)
      OBVIOUS
    <3>. QED
      BY <1>3, <1>5, <2>2, <3>1 DEF Poll, PollRaises
  <2>3. CASE \/ LoopCheck(w) \/ Acquire(w) \/ Stop(w) \/ DrainTimeout(w)
             \/ Exit(w) \/ Crash(w) \/ Boot(w)
    BY <1>5, <2>3 DEF LoopCheck, Acquire, Spawn, Stop, DrainTimeout, Exit, Crash, Down, Boot
  <2>. QED
    BY <1>4, <1>6, <2>1, <2>2, <2>3 DEF WorkerStep
<1>. QED
  BY <1>2, <1>5, <1>6 DEF Next, vars

(***************************************************************************)
(* mark_succeeded is the last statement of the handler's own transaction:  *)
(* no row ever reads succeeded without the effects of one of its claims.   *)
(***************************************************************************)
THEOREM SuccessHasEffectsCorrect == Spec => []SuccessHasEffects
<1>1. Init => SuccessHasEffects
  BY DEF Init, SuccessHasEffects
<1>2. Inv /\ [Next]_vars => Inv'
  BY RowsNext, MemNext DEF Inv
<1>. QED
  BY <1>1, <1>2, InvInit, SuccessNext, PTL DEF Spec

-----------------------------------------------------------------------------
(* Claims beyond max_attempts.                                             *)

(***************************************************************************)
(* The claims of j whose failure put the row back in the queue.            *)
(***************************************************************************)
Requeued(j) == {a \in Attempts : phase[j][a] = "requeued"}

(***************************************************************************)
(* The account of a row.  A claim spends one of the row's tickets, and it  *)
(* has one while it is queued: it got the first when it was inserted, and  *)
(* one more by each reclaim, each retry and each claim that failed before  *)
(* its last attempt.                                                       *)
(***************************************************************************)
PaidInv(j) ==
    /\ \A a \in Attempts : phase[j][a] = "requeued" => a < MaxAttempts
    /\ attempts[j] + (IF status[j] = "queued" THEN 1 ELSE 0) <=
          (IF status[j] = "absent" THEN 0 ELSE 1) + extra[j] + Cardinality(Requeued(j))

LEMMA RequeuedFinite ==
    ASSUME NEW j \in Jobs
    PROVE  IsFiniteSet(Requeued(j)) /\ Cardinality(Requeued(j)) \in Nat
<1>1. IsFiniteSet(Attempts)
  BY BoundAssumption, FS_Interval DEF Attempts
<1>2. Requeued(j) \in SUBSET Attempts
  BY DEF Requeued
<1>3. IsFiniteSet(Requeued(j))
  BY <1>1, <1>2, FS_Subset
<1>. QED
  BY <1>3, FS_CardinalityType

(***************************************************************************)
(* A step that requeues no claim of the row and spends at most what it     *)
(* pays for.                                                               *)
(***************************************************************************)
LEMMA PaidKeeps ==
    ASSUME Inv, Inv', NEW j \in Jobs, PaidInv(j),
           \A a \in Attempts : phase'[j][a] = "requeued" <=> phase[j][a] = "requeued",
           \/ /\ attempts'[j] = attempts[j] /\ extra'[j] = extra[j]
              /\ status'[j] = "queued" => status[j] \in {"queued", "absent"}
              /\ status'[j] = "absent" => status[j] = "absent"
           \/ /\ attempts'[j] = attempts[j] /\ extra'[j] = extra[j] + 1
              /\ status'[j] # "absent"
           \/ /\ attempts'[j] = attempts[j] + 1 /\ extra'[j] = extra[j]
              /\ status[j] = "queued" /\ status'[j] = "running"
           \/ /\ attempts'[j] = attempts[j] + 1 /\ extra'[j] = extra[j] + 1
              /\ status[j] = "running" /\ status'[j] = "running"
    PROVE  PaidInv(j)'
<1>1. Requeued(j)' = Requeued(j)
  BY DEF Requeued
<1>2. /\ attempts[j] \in Nat /\ extra[j] \in Nat
      /\ attempts'[j] \in Nat /\ extra'[j] \in Nat
      /\ Cardinality(Requeued(j)) \in Nat
  BY RequeuedFinite DEF Inv, MemInv, TypeInv, TypeOK
<1>3. status[j] = "absent" => attempts[j] = 0
  BY DEF Inv, Rows, RowInv
<1>4. \A a \in Attempts : phase'[j][a] = "requeued" => a < MaxAttempts
  BY DEF PaidInv
<1>5. attempts'[j] + (IF status'[j] = "queued" THEN 1 ELSE 0) <=
          (IF status'[j] = "absent" THEN 0 ELSE 1) + extra'[j] + Cardinality(Requeued(j))
  BY <1>2, <1>3 DEF PaidInv
<1>. QED
  BY <1>1, <1>4, <1>5 DEF PaidInv

LEMMA PaidDispatch ==
    ASSUME Inv, Inv', NEW w \in Workers, NEW c \in inflight[w], Dispatch(w, c),
           NEW j \in Jobs, PaidInv(j)
    PROVE  PaidInv(j)'
<1>. USE DEF Inv, MemInv, TypeInv, TypeOK
<1>1. PICK ph \in {"committed", "raised", "failed", "requeued", "lost"} :
          SetPhase(c, ph) /\ (ph = "requeued" <=> MarkFailedRetry(w, c))
  <2>1. CASE MarkFailedRetry(w, c)
    BY <2>1 DEF MarkFailedRetry, Finish
  <2>2. CASE ~MarkFailedRetry(w, c)
    BY <2>2 DEF Dispatch, Commit, CommitAckLost, HandlerRaises, MarkFailedFinal,
                RecordingFails, Finish
  <2>. QED
    BY <2>1, <2>2
<1>2. PICK k \in Jobs, b \in Attempts :
              /\ c = <<k, b>>
              /\ phase[k][b] \in {"task", "raised"}
              /\ \A i \in Jobs, a \in Attempts :
                    phase'[i][a] = IF i = k /\ a = b THEN ph ELSE phase[i][a]
  BY <1>1, PhaseOfClaim
<1>3. CASE MarkFailedRetry(w, c) /\ j = k
  <2>1. Requeued(j)' = Requeued(j) \cup {b} /\ b \notin Requeued(j)
    BY <1>1, <1>2, <1>3 DEF Requeued
  <2>2. Cardinality(Requeued(j)') = Cardinality(Requeued(j)) + 1
    <3>1. Cardinality(Requeued(j) \cup {b}) = Cardinality(Requeued(j)) + 1
      BY <2>1, RequeuedFinite, FS_AddElement
    <3>. QED
      BY <2>1, <3>1
  <2>3. /\ status'[j] = "queued"
        /\ attempts'[j] = attempts[j] /\ extra'[j] = extra[j]
        /\ b < MaxAttempts
    BY <1>2, <1>3 DEF MarkFailedRetry, Retryable
  <2>4. \A a \in Attempts : phase'[j][a] = "requeued" => a < MaxAttempts
    <3>1. \A a \in Attempts : phase[j][a] = "requeued" => a < MaxAttempts
      BY DEF PaidInv
    <3>2. \A a \in Attempts : phase'[j][a] = "requeued" => a = b \/ phase[j][a] = "requeued"
      BY <1>2, <1>3
    <3>. QED
      BY <2>3, <3>1, <3>2
  <2>5. attempts'[j] + 1 <= 1 + extra'[j] + Cardinality(Requeued(j)')
    <3>1. attempts[j] \in Nat /\ extra[j] \in Nat /\ Cardinality(Requeued(j)) \in Nat
      BY RequeuedFinite
    <3>. QED
      BY <2>2, <2>3, <3>1 DEF PaidInv
  <2>. QED
    BY <2>3, <2>4, <2>5 DEF PaidInv
<1>4. CASE ~(MarkFailedRetry(w, c) /\ j = k)
  <2>1. \A a \in Attempts : phase'[j][a] = "requeued" <=> phase[j][a] = "requeued"
    BY <1>1, <1>2, <1>4
  <2>2. /\ attempts'[j] = attempts[j] /\ extra'[j] = extra[j]
        /\ status'[j] = status[j] \/ status'[j] \in {"succeeded", "failed"}
    <3>1. CASE Commit(w, c) \/ CommitAckLost(w, c)
      BY <1>2, <3>1 DEF Commit, CommitAckLost, CommitEffects
    <3>2. CASE MarkFailedFinal(w, c) \/ MarkFailedRetry(w, c)
      BY <1>2, <1>4, <3>2 DEF MarkFailedFinal, MarkFailedRetry, historyVars
    <3>3. CASE HandlerRaises(w, c) \/ RecordingFails(w, c)
      BY <3>3 DEF HandlerRaises, RecordingFails, rowVars, historyVars
    <3>. QED
      BY <3>1, <3>2, <3>3 DEF Dispatch
  <2>. QED
    BY <2>1, <2>2, PaidKeeps
<1>. QED
  BY <1>3, <1>4

LEMMA PaidClaim ==
    ASSUME Inv, Inv', NEW Z \in ZombieBatches, NEW C \in SUBSET Claimable(Z),
           NEW ph \in {"none", "held", "lost"}, ClaimNext(Z, C, ph),
           NEW j \in Jobs, PaidInv(j)
    PROVE  PaidInv(j)'
<1>1. MemInv
  BY DEF Inv
<1>2. /\ j \in Z => status[j] = "running"
      /\ j \in C => status[j] = "queued" \/ j \in Z
      /\ status'[j] = IF j \in C THEN "running" ELSE IF j \in Z THEN "queued" ELSE status[j]
      /\ attempts'[j] = IF j \in C THEN attempts[j] + 1 ELSE attempts[j]
      /\ extra'[j] = IF j \in Z THEN extra[j] + 1 ELSE extra[j]
  BY <1>1, ClaimOfRow
<1>3. \A a \in Attempts : phase'[j][a] = "requeued" <=> phase[j][a] = "requeued"
  BY <1>1, ClaimOfRow
<1>. QED
  BY <1>2, <1>3, PaidKeeps

LEMMA PaidProcess ==
    ASSUME Inv, Inv', NEW w \in Workers,
           \/ LoopCheck(w) \/ Acquire(w) \/ Stop(w) \/ DrainTimeout(w)
           \/ Exit(w) \/ Crash(w) \/ Boot(w),
           NEW j \in Jobs, PaidInv(j)
    PROVE  PaidInv(j)'
<1>. USE DEF Inv, MemInv, TypeInv, TypeOK
<1>1. UNCHANGED <<rowVars, historyVars>>
  BY DEF LoopCheck, Acquire, Spawn, Stop, DrainTimeout, Exit, Crash, Down, Boot
<1>2. \A a \in Attempts :
          <<j, a>> \in inflight[w] \cup snap[w] \cup {held[w]} => phase[j][a] \in LivePhases
  BY DEF HandsInv, LivePhases
<1>3. \A a \in Attempts : phase'[j][a] = "requeued" <=> phase[j][a] = "requeued"
  <2>1. CASE LoopCheck(w) \/ Stop(w) \/ Boot(w)
    BY <2>1 DEF LoopCheck, Stop, Boot
  <2>2. CASE Acquire(w)
    <3>1. PICK k \in Jobs, b \in Attempts : held[w] = <<k, b>>
      BY <2>2 DEF Acquire, Spawn, Claims, HandsInv
    <3>2. phase[k][b] = "held"
      BY <3>1 DEF HandsInv
    <3>3. phase' = [phase EXCEPT ![k][b] = "task"]
      BY <2>2, <3>1 DEF Acquire, Spawn, SetPhase
    <3>. QED
      BY <3>2, <3>3
  <2>3. CASE DrainTimeout(w)
    BY <1>2, <2>3 DEF DrainTimeout, LivePhases
  <2>4. CASE Exit(w) \/ Crash(w)
    <3>1. \A a \in Attempts : phase'[j][a] =
              IF <<j, a>> \in inflight[w] \cup {held[w]} THEN "lost" ELSE phase[j][a]
      BY <2>4 DEF Exit, Crash, Down
    <3>. QED
      BY <1>2, <3>1 DEF LivePhases
  <2>. QED
    BY <2>1, <2>2, <2>3, <2>4
<1>. QED
  BY <1>1, <1>3, PaidKeeps DEF rowVars, historyVars

LEMMA PaidNext ==
    Inv /\ Inv' /\ (\A j \in Jobs : PaidInv(j)) /\ [Next]_vars => (\A j \in Jobs : PaidInv(j))'
<1>. SUFFICES ASSUME Inv, Inv', \A i \in Jobs : PaidInv(i), [Next]_vars, NEW j \in Jobs
              PROVE  PaidInv(j)'
  OBVIOUS
<1>0. PaidInv(j)
  OBVIOUS
<1>1. ASSUME NEW k \in Jobs,
             \/ Enqueue(k) \/ Cancel(k) \/ Retry(k)
             \/ BackoffElapses(k) \/ VisibilityElapses(k)
      PROVE  PaidInv(j)'
  <2>. USE DEF Inv, MemInv, TypeInv, TypeOK
  <2>1. CASE Enqueue(k) \/ Cancel(k) \/ BackoffElapses(k) \/ VisibilityElapses(k)
    <3>1. /\ phase' = phase /\ attempts' = attempts /\ extra' = extra
          /\ status'[j] = "queued" => status[j] \in {"queued", "absent"}
          /\ status'[j] = "absent" => status[j] = "absent"
      BY <2>1 DEF Enqueue, Cancel, BackoffElapses, VisibilityElapses, historyVars
    <3>. QED
      BY <1>0, <3>1, PaidKeeps
  <2>2. CASE Retry(k)
    <3>1. /\ phase' = phase /\ attempts' = attempts
          /\ j # k => extra'[j] = extra[j] /\ status'[j] = status[j]
          /\ j = k => extra'[j] = extra[j] + 1 /\ status'[j] = "queued"
      BY <2>2 DEF Retry, RetryFrom
    <3>. QED
      BY <1>0, <3>1, PaidKeeps
  <2>. QED
    BY <1>1, <2>1, <2>2
<1>2. ASSUME UNCHANGED <<rowVars, phase, historyVars>>
      PROVE  PaidInv(j)'
  BY <1>0, <1>2, PaidKeeps DEF rowVars, historyVars
<1>3. ASSUME NEW w \in Workers, WorkerStep(w)
      PROVE  PaidInv(j)'
  <2>1. CASE PollNone(w)
    <3>1. \A Z \in ZombieBatches : {} \in SUBSET Claimable(Z)
      OBVIOUS
    <3>. QED
      BY <1>0, <2>1, <3>1, PaidClaim DEF PollNone
  <2>2. CASE Poll(w) \/ PollRaises(w)
    <3>1. \A Z \in ZombieBatches : \A k \in Claimable(Z) : {k} \in SUBSET Claimable(Z)
      OBVIOUS
    <3>. QED
      BY <1>0, <1>2, <2>2, <3>1, PaidClaim DEF Poll, PollRaises
  <2>3. CASE \/ LoopCheck(w) \/ Acquire(w) \/ Stop(w) \/ DrainTimeout(w)
             \/ Exit(w) \/ Crash(w) \/ Boot(w)
    BY <1>0, <2>3, PaidProcess
  <2>4. CASE \E c \in inflight[w] : Dispatch(w, c)
    BY <1>0, <2>4, PaidDispatch
  <2>. QED
    BY <1>3, <2>1, <2>2, <2>3, <2>4 DEF WorkerStep
<1>. QED
  BY <1>1, <1>2, <1>3 DEF Next, vars

LEMMA PaidBound ==
    ASSUME Inv, \A j \in Jobs : PaidInv(j)
    PROVE  AttemptsPaidFor
<1>. SUFFICES ASSUME NEW j \in Jobs
              PROVE  attempts[j] <= MaxAttempts + extra[j]
  BY DEF AttemptsPaidFor
<1>1. Requeued(j) \in SUBSET (1 .. MaxAttempts - 1)
  <2>1. \A a \in Attempts : phase[j][a] = "requeued" => a < MaxAttempts
    BY DEF PaidInv
  <2>2. \A a \in Requeued(j) : a \in 1 .. MaxClaims /\ a < MaxAttempts
    BY <2>1 DEF Requeued, Attempts
  <2>3. \A a \in Requeued(j) : a \in 1 .. MaxAttempts - 1
    BY <2>2, BoundAssumption
  <2>. QED
    BY <2>3
<1>2. /\ IsFiniteSet(1 .. MaxAttempts - 1)
      /\ Cardinality(1 .. MaxAttempts - 1) = MaxAttempts - 1
  <2>1. 1 \in Int /\ MaxAttempts - 1 \in Int /\ MaxAttempts - 1 >= 0
    BY BoundAssumption
  <2>. QED
    BY <2>1, FS_Interval
<1>3. Cardinality(Requeued(j)) <= MaxAttempts - 1
  BY <1>1, <1>2, FS_Subset
<1>4. attempts[j] \in Nat /\ extra[j] \in Nat /\ Cardinality(Requeued(j)) \in Nat
  BY RequeuedFinite DEF Inv, MemInv, TypeInv, TypeOK
<1>. QED
  BY <1>3, <1>4, BoundAssumption DEF PaidInv

(***************************************************************************)
(* max_attempts: however late, and in whatever order, the failures of a    *)
(* row's claims are recorded, a claim beyond max_attempts is one that a    *)
(* reclaim or an operator asked for.                                       *)
(***************************************************************************)
THEOREM AttemptsPaidForCorrect == Spec => []AttemptsPaidFor
<1>1. Init => \A j \in Jobs : PaidInv(j)
  <2>1. SUFFICES ASSUME Init, NEW j \in Jobs PROVE PaidInv(j)
    OBVIOUS
  <2>2. Requeued(j) = {}
    BY <2>1 DEF Init, Requeued
  <2>3. Cardinality(Requeued(j)) = 0
    BY <2>2, FS_EmptySet
  <2>. QED
    BY <2>1, <2>3 DEF Init, PaidInv
<1>2. Inv /\ [Next]_vars => Inv'
  BY RowsNext, MemNext DEF Inv
<1>3. Inv /\ (\A j \in Jobs : PaidInv(j)) => AttemptsPaidFor
  BY PaidBound
<1>. QED
  BY <1>1, <1>2, <1>3, InvInit, PaidNext, PTL DEF Spec

-----------------------------------------------------------------------------
(* Every open claim is in one worker's hands, within its slots.            *)

(***************************************************************************)
(* A worker has no more tasks than its semaphore has slots, and whoever    *)
(* looks for the owner of an open claim finds it.                          *)
(***************************************************************************)
Slots(w) == IsFiniteSet(inflight[w]) /\ Cardinality(inflight[w]) <= Concurrency

Owned(j, a) == \E w \in Workers : held[w] = <<j, a>> \/ <<j, a>> \in inflight[w]

OpenInv ==
    \A j \in Jobs, a \in Attempts : phase[j][a] \in LivePhases => Owned(j, a)

SlotsInv == \A w \in Workers : Slots(w)

(***************************************************************************)
(* Only the end of a wait for the semaphore adds a task, and it looks at   *)
(* their number first.                                                     *)
(***************************************************************************)
LEMMA SlotsNext == Inv /\ SlotsInv /\ [Next]_vars => SlotsInv'
<1>. SUFFICES ASSUME Inv, SlotsInv, [Next]_vars, NEW v \in Workers
              PROVE  Slots(v)'
  BY DEF SlotsInv
<1>. USE DEF Inv, MemInv, TypeInv, TypeOK
<1>1. IsFiniteSet(inflight[v]) /\ Cardinality(inflight[v]) <= Concurrency
  BY DEF SlotsInv, Slots
<1>2. ASSUME inflight'[v] \subseteq inflight[v]
      PROVE  Slots(v)'
  <2>1. /\ IsFiniteSet(inflight'[v])
        /\ Cardinality(inflight'[v]) <= Cardinality(inflight[v])
    BY <1>1, <1>2, FS_Subset
  <2>2. Cardinality(inflight[v]) \in Nat /\ Cardinality(inflight'[v]) \in Nat
    BY <1>1, <2>1, FS_CardinalityType
  <2>. QED
    BY <1>1, <2>1, <2>2, BoundAssumption DEF Slots
<1>3. ASSUME NEW w \in Workers, Acquire(w)
      PROVE  Slots(v)'
  <2>1. CASE v = w
    <3>1. inflight'[v] = inflight[v] \cup {held[w]} /\ Cardinality(inflight[v]) < Concurrency
      BY <1>3, <2>1 DEF Acquire, Spawn
    <3>2. /\ IsFiniteSet(inflight[v] \cup {held[w]})
          /\ \/ Cardinality(inflight[v] \cup {held[w]}) = Cardinality(inflight[v])
             \/ Cardinality(inflight[v] \cup {held[w]}) = Cardinality(inflight[v]) + 1
      BY <1>1, FS_AddElement
    <3>3. Cardinality(inflight[v]) \in Nat
      BY <1>1, FS_CardinalityType
    <3>4. Cardinality(inflight[v] \cup {held[w]}) <= Concurrency
      BY <3>1, <3>2, <3>3, BoundAssumption
    <3>. QED
      BY <3>1, <3>2, <3>4 DEF Slots
  <2>2. CASE v # w
    BY <1>2, <1>3, <2>2 DEF Acquire, Spawn
  <2>. QED
    BY <2>1, <2>2
<1>4. CASE inflight' = inflight
  BY <1>2, <1>4
<1>5. ASSUME NEW w \in Workers, WorkerStep(w), ~Acquire(w)
      PROVE  Slots(v)'
  <2>1. CASE LoopCheck(w) \/ PollNone(w) \/ Poll(w) \/ PollRaises(w) \/ Stop(w) \/ Boot(w)
    BY <1>4, <2>1 DEF LoopCheck, PollNone, Poll, PollRaises, Stop, Boot
  <2>2. CASE DrainTimeout(w) \/ Exit(w) \/ Crash(w)
    <3>1. \/ inflight' = [inflight EXCEPT ![w] = @ \ snap[w]]
          \/ inflight' = [inflight EXCEPT ![w] = {}]
      BY <2>2 DEF DrainTimeout, Exit, Crash, Down
    <3>2. inflight'[v] \subseteq inflight[v]
      BY <3>1
    <3>. QED
      BY <1>2, <3>2
  <2>3. ASSUME NEW c \in inflight[w], Dispatch(w, c)
        PROVE  Slots(v)'
    <3>1. CASE CommitAckLost(w, c) \/ HandlerRaises(w, c)
      BY <1>4, <3>1 DEF CommitAckLost, HandlerRaises, workerVars
    <3>2. ASSUME NEW ph, Finish(w, c, ph)
          PROVE  Slots(v)'
      BY <1>2, <3>2 DEF Finish
    <3>. QED
      BY <2>3, <3>1, <3>2 DEF Dispatch, Commit, MarkFailedFinal, MarkFailedRetry, RecordingFails
  <2>. QED
    BY <1>5, <2>1, <2>2, <2>3 DEF WorkerStep
<1>6. ASSUME NEW k \in Jobs,
             \/ Enqueue(k) \/ Cancel(k) \/ Retry(k)
             \/ BackoffElapses(k) \/ VisibilityElapses(k)
      PROVE  Slots(v)'
  BY <1>4, <1>6 DEF Enqueue, Cancel, Retry, RetryFrom, BackoffElapses, VisibilityElapses,
                    workerVars
<1>. QED
  BY <1>3, <1>4, <1>5, <1>6 DEF Next, vars, workerVars

(***************************************************************************)
(* A claim becomes open in the hands of the worker that polled, and only   *)
(* its end takes it from them.                                             *)
(***************************************************************************)
LEMMA OpenNext == Inv /\ OpenInv /\ [Next]_vars => OpenInv'
<1>. SUFFICES ASSUME Inv, OpenInv, [Next]_vars, NEW j \in Jobs, NEW a \in Attempts,
                     phase'[j][a] \in LivePhases
              PROVE  Owned(j, a)'
  BY DEF OpenInv
<1>0. ASSUME NEW Z \in ZombieBatches, NEW C \in SUBSET Claimable(Z), NEW ph,
             ClaimNext(Z, C, ph)
      PROVE  phase'[j][a] = IF j \in C /\ a = attempts[j] + 1 THEN ph ELSE phase[j][a]
  <2>1. MemInv
    BY DEF Inv
  <2>2. \A d \in Attempts : phase'[j][d] =
            IF j \in C /\ d = attempts[j] + 1 THEN ph ELSE phase[j][d]
    BY <1>0, <2>1, ClaimOfRow
  <2>. QED
    BY <2>2
<1>. USE DEF Inv, MemInv, TypeInv, TypeOK
<1>1. phase[j][a] \in LivePhases => Owned(j, a)
  BY DEF OpenInv
<1>2. ASSUME phase[j][a] \in LivePhases,
             \A v \in Workers :
                /\ held[v] = <<j, a>> => held'[v] = <<j, a>> \/ <<j, a>> \in inflight'[v]
                /\ <<j, a>> \in inflight[v] => <<j, a>> \in inflight'[v]
      PROVE  Owned(j, a)'
  BY <1>1, <1>2 DEF Owned
<1>3. ASSUME UNCHANGED <<phase, held, inflight>>
      PROVE  Owned(j, a)'
  BY <1>2, <1>3
<1>4. ASSUME NEW k \in Jobs,
             \/ Enqueue(k) \/ Cancel(k) \/ Retry(k)
             \/ BackoffElapses(k) \/ VisibilityElapses(k)
      PROVE  Owned(j, a)'
  BY <1>3, <1>4 DEF Enqueue, Cancel, Retry, RetryFrom, BackoffElapses, VisibilityElapses,
                    workerVars
<1>5. ASSUME NEW w \in Workers, NEW Z \in ZombieBatches, NEW C \in SUBSET Claimable(Z),
             NEW ph, ph \notin LivePhases, ClaimNext(Z, C, ph), UNCHANGED <<held, inflight>>
      PROVE  Owned(j, a)'
  <2>1. phase'[j][a] = IF j \in C /\ a = attempts[j] + 1 THEN ph ELSE phase[j][a]
    BY <1>0, <1>5
  <2>. QED
    BY <1>2, <1>5, <2>1
<1>6. ASSUME NEW w \in Workers, Poll(w)
      PROVE  Owned(j, a)'
  <2>1. PICK Z \in ZombieBatches : \E k \in Claimable(Z) :
            /\ ClaimNext(Z, {k}, "held")
            /\ held' = [held EXCEPT ![w] = <<k, attempts[k] + 1>>]
    BY <1>6 DEF Poll
  <2>2. PICK k \in Claimable(Z) :
            /\ ClaimNext(Z, {k}, "held")
            /\ held' = [held EXCEPT ![w] = <<k, attempts[k] + 1>>]
    BY <2>1
  <2>3. {k} \in SUBSET Claimable(Z)
    OBVIOUS
  <2>4. phase'[j][a] = IF j \in {k} /\ a = attempts[j] + 1 THEN "held" ELSE phase[j][a]
    BY <1>0, <2>2, <2>3
  <2>5. pc[w] = "polling" /\ inflight' = inflight
    BY <1>6 DEF Poll
  <2>6. CASE j = k /\ a = attempts[j] + 1
    BY <2>2, <2>6 DEF Owned
  <2>7. CASE ~(j = k /\ a = attempts[j] + 1)
    <3>1. held[w] # <<j, a>>
      <4>1. held[w] = NoClaim
        BY <2>5 DEF HandsInv
      <4>2. <<j, a>> \in Jobs \X (1 .. MaxClaims)
        BY DEF Attempts
      <4>. QED
        BY <4>1, <4>2, NoClaimAssumption
    <3>2. \A v \in Workers : v # w => held'[v] = held[v]
      BY <2>2
    <3>. QED
      BY <1>2, <2>4, <2>5, <2>7, <3>1, <3>2
  <2>. QED
    BY <2>6, <2>7
<1>7. ASSUME NEW w \in Workers, Acquire(w)
      PROVE  Owned(j, a)'
  <2>1. PICK k \in Jobs, b \in Attempts : held[w] = <<k, b>>
    BY <1>7 DEF Acquire, Spawn, Claims, HandsInv
  <2>2. phase[k][b] = "held"
    BY <2>1 DEF HandsInv
  <2>3. phase' = [phase EXCEPT ![k][b] = "task"]
    BY <1>7, <2>1 DEF Acquire, Spawn, SetPhase
  <2>4. phase[j][a] \in LivePhases
    BY <2>2, <2>3 DEF LivePhases
  <2>5. \A v \in Workers :
            /\ v # w => held'[v] = held[v] /\ inflight'[v] = inflight[v]
            /\ v = w => inflight'[v] = inflight[v] \cup {held[v]}
    BY <1>7 DEF Acquire, Spawn
  <2>. QED
    BY <1>2, <2>4, <2>5
<1>8. ASSUME NEW w \in Workers, NEW c \in inflight[w], Dispatch(w, c)
      PROVE  Owned(j, a)'
  <2>1. PICK ph \in {"committed", "raised", "failed", "requeued", "lost"} :
            /\ SetPhase(c, ph)
            /\ ph # "raised" => Finish(w, c, ph)
            /\ ph = "raised" => UNCHANGED workerVars
    <3>1. CASE CommitAckLost(w, c) \/ HandlerRaises(w, c)
      BY <3>1 DEF CommitAckLost, HandlerRaises
    <3>2. CASE Commit(w, c) \/ MarkFailedFinal(w, c) \/ MarkFailedRetry(w, c)
                 \/ RecordingFails(w, c)
      BY <3>2 DEF Commit, MarkFailedFinal, MarkFailedRetry, RecordingFails, Finish
    <3>. QED
      BY <1>8, <3>1, <3>2 DEF Dispatch
  <2>2. PICK k \in Jobs, b \in Attempts :
                /\ c = <<k, b>>
                /\ phase[k][b] \in {"task", "raised"}
                /\ \A i \in Jobs, d \in Attempts :
                      phase'[i][d] = IF i = k /\ d = b THEN ph ELSE phase[i][d]
    BY <2>1, PhaseOfClaim
  <2>3. phase[j][a] \in LivePhases
    BY <2>2 DEF LivePhases
  <2>4. held' = held
    BY <2>1 DEF Finish, workerVars
  <2>5. CASE ph = "raised"
    BY <1>2, <2>1, <2>3, <2>4, <2>5 DEF workerVars
  <2>6. CASE ph # "raised"
    <3>1. <<j, a>> # c
      BY <2>1, <2>2, <2>6 DEF LivePhases
    <3>2. inflight' = [inflight EXCEPT ![w] = @ \ {c}]
      BY <2>1, <2>6 DEF Finish
    <3>. QED
      BY <1>2, <2>3, <2>4, <3>1, <3>2
  <2>. QED
    BY <2>5, <2>6
<1>9. ASSUME NEW w \in Workers, DrainTimeout(w)
      PROVE  Owned(j, a)'
  <2>1. phase'[j][a] = IF <<j, a>> \in snap[w] THEN "lost" ELSE phase[j][a]
    BY <1>9 DEF DrainTimeout
  <2>2. <<j, a>> \notin snap[w] /\ phase[j][a] \in LivePhases
    BY <2>1 DEF LivePhases
  <2>3. held' = held /\ inflight' = [inflight EXCEPT ![w] = @ \ snap[w]]
    BY <1>9 DEF DrainTimeout
  <2>. QED
    BY <1>2, <2>2, <2>3
<1>10. ASSUME NEW w \in Workers, Down(w)
       PROVE  Owned(j, a)'
  <2>1. phase'[j][a] = IF <<j, a>> \in inflight[w] \cup {held[w]} THEN "lost" ELSE phase[j][a]
    BY <1>10 DEF Down
  <2>2. <<j, a>> \notin inflight[w] \cup {held[w]} /\ phase[j][a] \in LivePhases
    BY <2>1 DEF LivePhases
  <2>3. \A v \in Workers : v # w => held'[v] = held[v] /\ inflight'[v] = inflight[v]
    BY <1>10 DEF Down
  <2>. QED
    BY <1>2, <2>2, <2>3
<1>11. ASSUME NEW w \in Workers, WorkerStep(w)
       PROVE  Owned(j, a)'
  <2>1. CASE PollNone(w) \/ PollRaises(w)
    <3>1. \A Z \in ZombieBatches : {} \in SUBSET Claimable(Z)
      OBVIOUS
    <3>2. \A Z \in ZombieBatches : \A k \in Claimable(Z) : {k} \in SUBSET Claimable(Z)
      OBVIOUS
    <3>3. "none" \notin LivePhases /\ "lost" \notin LivePhases
      BY DEF LivePhases
    <3>. QED
      BY <1>3, <1>5, <2>1, <3>1, <3>2, <3>3 DEF PollNone, PollRaises
  <2>2. CASE LoopCheck(w) \/ Stop(w) \/ Boot(w)
    BY <1>3, <2>2 DEF LoopCheck, Stop, Boot
  <2>3. CASE Exit(w) \/ Crash(w)
    BY <1>10, <2>3 DEF Exit, Crash
  <2>. QED
    BY <1>6, <1>7, <1>8, <1>9, <1>11, <2>1, <2>2, <2>3 DEF WorkerStep
<1>. QED
  BY <1>3, <1>4, <1>11 DEF Next, vars, workerVars

LEMMA HandsFollow == Inv /\ SlotsInv /\ OpenInv => ClaimsInHand
<1>. SUFFICES ASSUME Inv, SlotsInv, OpenInv
              PROVE  ClaimsInHand
  OBVIOUS
<1>. USE DEF Inv, MemInv, TypeInv, TypeOK
<1>1. ASSUME NEW w \in Workers
      PROVE  Cardinality(Hands(w)) <= Concurrency + 1
  <2>1. IsFiniteSet(inflight[w]) /\ Cardinality(inflight[w]) <= Concurrency
    BY DEF SlotsInv, Slots
  <2>2. Cardinality(inflight[w]) \in Nat
    BY <2>1, FS_CardinalityType
  <2>3. CASE held[w] = NoClaim
    <3>1. Hands(w) = inflight[w]
      BY <2>3 DEF Hands
    <3>. QED
      BY <2>1, <2>2, <3>1, BoundAssumption
  <2>4. CASE held[w] # NoClaim
    <3>1. Hands(w) = inflight[w] \cup {held[w]}
      BY <2>4 DEF Hands
    <3>2. \/ Cardinality(inflight[w] \cup {held[w]}) = Cardinality(inflight[w])
          \/ Cardinality(inflight[w] \cup {held[w]}) = Cardinality(inflight[w]) + 1
      BY <2>1, FS_AddElement
    <3>3. Cardinality(inflight[w] \cup {held[w]}) <= Concurrency + 1
      BY <2>1, <2>2, <3>2, BoundAssumption
    <3>. QED
      BY <3>1, <3>3
  <2>. QED
    BY <2>3, <2>4
<1>2. ASSUME NEW c, NEW v \in Workers, c \in Hands(v)
      PROVE  \E j \in Jobs, a \in Attempts :
                /\ c = <<j, a>>
                /\ phase[j][a] \in LivePhases
                /\ held[v] = c => phase[j][a] = "held"
                /\ c \in inflight[v] => phase[j][a] # "held"
  <2>1. c \in Claims
    BY <1>2 DEF Hands
  <2>2. PICK j \in Jobs, a \in Attempts : c = <<j, a>>
    BY <2>1 DEF Claims
  <2>3. /\ held[v] = <<j, a>> => phase[j][a] = "held"
        /\ <<j, a>> \in inflight[v] => phase[j][a] \in {"task", "raised"}
    BY DEF HandsInv
  <2>. QED
    BY <1>2, <2>2, <2>3 DEF Hands, LivePhases
<1>3. ASSUME NEW v \in Workers, NEW w \in Workers, v # w, NEW c, c \in Hands(v), c \in Hands(w)
      PROVE  FALSE
  <2>1. held[v] = c => held[w] # c
    BY <1>3 DEF HandsInv, Hands
  <2>2. ~(c \in inflight[v] /\ c \in inflight[w])
    BY <1>3 DEF HandsInv
  <2>3. /\ held[v] = c => c \notin inflight[w]
        /\ held[w] = c => c \notin inflight[v]
    <3>1. PICK j \in Jobs, a \in Attempts : c = <<j, a>>
      BY <1>2, <1>3
    <3>. QED
      BY <3>1 DEF HandsInv
  <2>. QED
    BY <1>3, <2>1, <2>2, <2>3 DEF Hands
<1>4. ASSUME NEW c \in Claims
      PROVE  phase[c[1]][c[2]] \in LivePhases <=> \E w \in Workers : c \in Hands(w)
  <2>1. PICK j \in Jobs, a \in Attempts : c = <<j, a>>
    BY DEF Claims
  <2>2. c # NoClaim
    BY NoClaimAssumption DEF Claims, Attempts
  <2>3. phase[j][a] \in LivePhases => \E w \in Workers : c \in Hands(w)
    BY <2>1, <2>2 DEF OpenInv, Owned, Hands
  <2>4. (\E w \in Workers : c \in Hands(w)) => phase[j][a] \in LivePhases
    BY <1>2, <2>1
  <2>. QED
    BY <2>1, <2>3, <2>4
<1>. QED
  BY <1>1, <1>3, <1>4 DEF ClaimsInHand

(***************************************************************************)
(* The semaphore and Worker._inflight: a worker never has more than one    *)
(* claim beyond jobs_concurrency in hand, no claim is in two hands, and    *)
(* none whose outcome is open is forgotten, across crashes, shutdowns and  *)
(* drain timeouts.                                                         *)
(***************************************************************************)
THEOREM ClaimsInHandCorrect == Spec => []ClaimsInHand
<1>1. Init => SlotsInv
  BY FS_EmptySet, BoundAssumption DEF Init, SlotsInv, Slots
<1>2. Init => OpenInv
  BY DEF Init, OpenInv, LivePhases
<1>3. Inv /\ [Next]_vars => Inv'
  BY RowsNext, MemNext DEF Inv
<1>. QED
  BY <1>1, <1>2, <1>3, InvInit, SlotsNext, OpenNext, HandsFollow, PTL DEF Spec

=============================================================================
