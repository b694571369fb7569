# supython in TLA+

supython is a backend in Python over PostgreSQL: authentication, a job queue,
object storage, realtime changes, scheduled jobs, backups, edge functions and an
administrator's API, with an operator console in Vue and a client in TypeScript.
Its processes share nothing but the database (and, for objects and keys, a disk),
and its clients share a session with a server that answers late or not at all.
So what is hard about it is what several transactions, processes, requests and
answers do to the same state in an order nobody wrote down. That is what these
modules describe. Paths are relative to `src/supython/`; `ts-sdk/` and
`admin-ui/` are at the root of the repository.

To run it: `tlc -config MCJobQueue_pairs.cfg MCJobQueue` checks one instance,
`tlapm JobQueueProofs.tla` checks the proofs of one module. `PROJECT.json`
lists every run, the definition-to-source map, the deliberate bugs ("mutants")
that each checked property finds, the hazards, and the theorems.

## 1. The system

| Component | State | Operations | What makes it hard |
|---|---|---|---|
| Job queue, `jobs/worker.py`, `jobs/service.py`, migrations 0007, 0008 | table `jobs.jobs`; per worker a loop, a semaphore, a set of tasks | enqueue, `claim_next`, dispatch, `mark_succeeded`, `mark_failed_retry`, `mark_failed_final`, cancel, retry, stop | several workers; visibility timeout; crashes between claim and outcome; lost commit replies; late outcomes |
| Sessions, `auth/service.py`, `auth/router.py` | `auth.refresh_tokens`, password, ban, activation, one-time tokens | password grant, refresh, logout (three scopes), password change, recovery, mailed sign-in, administrator's revocation, ban | handlers run statements outside one transaction, so a read may be old when it is used |
| Accounts, `auth/service.py`, `auth/providers/` | `auth.users`, `auth.identities`, `auth.one_time_tokens` | signup, confirmation, OAuth callback, address change | two inboxes must agree; OAuth meets signup; requests supersede each other |
| Object storage, `storage/` | rows of buckets and objects; bytes on a disk | upload, two deletions, bucket creation and deletion | two stores without a common transaction |
| Realtime, `realtime/` | connections, channels, presence, outbound queues, registry cache, one LISTEN connection | join, leave, access_token, broadcast, track, a change, the inspector's stream | fan-out across awaits, tokens that change meanwhile, dropped frames, a join that awaits |
| TypeScript client, `ts-sdk/src/` | session in memory, its copy in an auth storage, the socket's token, one shared refresh | sign-in, sign-out, refresh, getUser, restoreSession, requests repeated after a 401 | several calls between their awaits, lost answers, page loads |
| Operator console, `admin-ui/src/` | a session store, and per page what was chosen, what is under way and what is shown | navigation, lists, drawers, dialogs, editors, polls, event streams | answers late, out of order or lost; a page left, or opened for another subject, before they come |
| Backups, `backups/`, `views/ops/Backups.vue` | `admin.backups`, a job each, the page's list, timer and drawer | start, attempts of the job, poll | a row under the queue's retries and rollbacks |
| Scheduled jobs, `jobs/cron*.py` | last tick per schedule; advisory lock | tick, enqueue | replicas that lag |
| Keys and secrets, `keyset.py`, `secretset.py`, `jwks.py`, `tokens.py` | manifest and key files, caches | rotate, activate, prune, sign, verify | several processes write one file |
| Migrations, `migrate.py` | table of applied files | run | two runners |
| Python client, mail, edge functions, rate limits, hooks, middleware, CLI, code generation | little or none shared | | see section 8 |

How they interact. Mail, backups and scheduled jobs are rows of the job queue,
inserted in the transaction of whoever asks; handlers get the transaction in
which their outcome is recorded. Every request opens a connection or a
transaction through `db.py` under a role, so row-level security can turn any
statement into one that sees nothing. Access tokens are signed with the key set
and looked up nowhere; refresh tokens are rows, which the clients rotate.
Realtime listens to triggers of the tables and asks the database, as each
subscriber, whether a row may be seen. The console calls the administrator's
API, which calls the same services and adds updates of its own; its inspector
is a connection of the broker.

What makes each modelled component correct:

* queue: a job enqueued is a job that ends, however workers die; effects are
  committed with the success they are reported by, and once; a key has one live
  row; nobody gets more attempts than were granted;
* sessions: a refresh token is good once; what is signed out stays out; after a
  password change nothing rests on the old password; a refused account gets no
  session;
* accounts: a confirmed address was proven; an address changes when the inbox it
  is in and the one it goes to agreed to this very request; an OAuth identity is
  never tied to an account somebody else may have prepared;
* storage: a row describes bytes that are there; bytes without a row come from
  crashes alone; a row has a bucket; every request ends;
* realtime: who listens knows who is present; a change goes once to whom it is
  owed and to nobody who may not read the row;
* client: the client on its own never presents a token twice; a failing network
  costs nobody a session; a sign-out is final; nobody waits for ever;
* console: what a page shows and acts on belongs to what was chosen there; what
  cannot be taken back has a cause; streams, timers and forms are given back.

The full list of components and of hazards, each at its line, is in
`PROJECT.json`.

## 2. Modules and the code they stand for

### JobQueue

One action is one transaction or one step of a worker between two awaits.

| Model | Code |
|---|---|
| `status`, `attempts` | the columns; `absent` before the insert |
| `due`, `expired` | `run_at <= now()` and `locked_at < now() - visibility timeout`, the two comparisons the SQL makes with time |
| `phase[j][a]` | what became of the a-th claim of row j: a claim is the pair (id, attempts) because `claim_next` counts `attempts` up and nothing resets it |
| `pc`, `held`, `inflight`, `snap`, `mode` | where `Worker.start` is; the record it holds at the semaphore; `_inflight`; what `stop` waits for; up, stopping, down |
| `Enqueue`, `Cancel`, `Retry`, `KeyFree` | `service.enqueue` / `jobs.enqueue`, `cancel`, `retry`, the partial unique index |
| `Zombies`, `ZombieBatches`, `Claimable`, `ClaimNext` | the two statements of `jobs.claim_next`: put back up to a batch of expired rows, claim one due row |
| `LoopCheck`, `Poll`, `PollNone`, `PollRaises`, `Acquire` | the loop; the poll may raise before or after its commit |
| `Commit`, `CommitAckLost`, `HandlerRaises`, `MarkFailed*`, `RecordingFails` | `_dispatch`, with the handler's transaction and the separate one that records a failure |
| `Stop`, `DrainTimeout`, `Exit`, `Crash`, `Boot` | shutdown and death of a process |

Time is nondeterministic: any running row may expire at any moment, any backoff
may end. The order of rows in `order by run_at, id` is left open, which allows
more behaviours than the code has.

`Unknown` rows have a name no worker has registered. `Unseen` rows are rows the
role of their handler may not update: see *Forever* below. History variables
(`effects`, `extra`, `preempted`, `ackLost`) are read by properties and, for
`extra`, by a bound; no guard of the code's depends on them.

### AuthSessions

The sessions of one user; rows of different users never meet. Handlers of
`auth/service.py` run on an autocommit connection, and open transactions for
parts of their work: what is one statement or one transaction is one action, and
a request remembers what it read (`arg`) between two of them. So
`password_grant` is `PasswordRead`, `GrantGate`, `Grant`; `refresh_grant` is
`RefreshRead`, then `ReuseRevoke` for a token that was revoked, or `RefreshGate`
and `Rotate`; `update_password` is `ChangeRead` and `ChangeCommit` or
`ChangeRefused`; `oauth_finish` is `ProviderProof`, `ProviderActivate`, `GrantGate`,
`Grant`. Logouts, the administrator's revocation and everything that burns a
one-time token are single transactions and single actions. `blocked` is the set
of reasons for which `_assert_can_authenticate` would refuse.

History: `killed` (signed out, not rotated), `gone` (presented after rotation),
`proof` (the password that was valid when the credential behind a session was
checked), `stale` (requests that a sign-out overtook between read and write),
`late` (the sessions such requests issue, with their heirs), `graced` (requests
past the gate when a ban fell). The exceptions in the properties are stated with
these, so that each exception is one race of the code and no more.

A transaction that revokes sessions runs at READ COMMITTED. It is one step here:
a rotation that commits under it leaves what it would leave just after it.

### Accounts

Whose address an account has. `Signup`, `Invite`, `MailLink`, `VerifyLink` (magic
link, confirmation, one-time code, recovery), `Expire`; `OAuthCheck` (before the
transaction), `OAuthRead`, `OAuthInsert` and `OAuthLink` (inside it: the row is
not locked between the select and the update); `AskRead` and `Ask` for
`request_email_change`; `VerifyOneSide`, `VerifyApplies`, `VerifyTaken` for
`verify_email_change`. `bits` is the column `email_change_confirm_status`,
`tickets` the unused tokens of both kinds. A refusal that rolls everything back
is no step.

A ticket has the inbox it was mailed to and, as history, the number of its request
among those of its account (`asks`): two requests for one address are two. `AskRead`
reads the address to which the "current" ticket will go, and `Ask` mails it, in a
transaction that does not look again. `late` marks a request, and its tickets, that
had read the address when a change of it was applied. `BothInboxesAgreed` asks for a
ticket of each side, of the last request, each redeemed in its own inbox, and excuses
the inbox of a late "current" ticket and nothing else. The exception is real: without
it TLC has a trace of ten states in which a request reads the address, an earlier
change is applied, and the later request is then confirmed by the former inbox.

### ObjectStorage

The objects of one bucket name whose paths compose one backend key, the file
`LocalBackend` keeps under it, and requests that are one transaction each and
touch the file while it is open. `inode`, `fd` and `mixed` say which file an
upload still writes to after another unlinked or truncated it; `writer` and
`dropper` are the rows held by open transactions, for which others wait.
`delete_object` removes bytes before its commit, the administrator's after it:
both are there, as is the cascade of `delete_bucket`. Row-level security decides about
the insert of an upload by its caller, before the unique index and the foreign key
make it wait: an upload is refused ("barred") or comes to wait for the locks
("insert"), and who waits has no way out but the lock. The history `careful` says
whether the requests so far took turns, uploaded only where nothing was, deleted
no bucket whose rows they could not see, and none died with the bytes gone and
the row still there.

### Realtime

One process. Between two awaits the code of `broker.py` and `websocket.py` runs
without interruption (the broker's lock is never held over an await), so that is
one action.

| Model | Code |
|---|---|
| `conn`, `ident`, `expired` | a `Connection` and whether it is registered; its role and claims as who it is; `is_token_expired` |
| `subs`, `presence`, `outbound` | `subscriptions` (`_topics` is its other index), `_presence`, the bounded queue. The order of the dict is that of the joins, which number the channels, so `subs` is a set |
| `busy` | a join between `subscribe` and `push_presence_state`; an inspector's stream between `register` and `subscribe` |
| `tasks` | one `_fanout_change` per notification: looking up the registry, going through `rest`, asking the database about `at` under the identity `as` |
| `Notify`, `Lookup`, `Authorize`, `Probed`, `Push` | the trigger's notification, `_lookup_registry` and the collection under the lock, `_authorize`, the answer of `rls_check`, the frame with the topic that `_topic_for` finds then |
| `Join`, `Reply`, `Leave`, `AccessToken`, `Track`, `Untrack`, `Broadcast` | the handlers of `websocket.py`, with the caps, the expiry and the replacement of a channel |
| `Register`, `Unregister`, `Drain`, `Expire` | both ends of a connection, the writer task, the clock; `Farewells` is what the others hear as `unregister` takes one topic after the other |
| `TapSubscribe`, `Cut` | `_inspect_events`; `Cut` is its cancellation while it reads the tables |

A row may be read by its owner (the policy that `owner_column` suggests); a `no` of
the probe may also be a timeout or an error. `view` is what a client makes of the
presence frames it has read, `lossy` where a full queue dropped one, `sent` the
frames of each change, `owed` to whom it is due: those with one channel for it
whose channels and token have stayed what they were since the collection.

### SdkSession

The TypeScript client against the server's rotation of refresh tokens. A call is
sent, served and answered in three actions; a loss of either message, a failing
server, a page load and the expiry of tokens may come between. `access`,
`refresh`, `stored` and `socket` are the four places that hold the session;
`starter` is `_refreshInFlight`, which the other 401s join; `announce` is the
microtask queue of `_emit`. `restoreSession` is two actions with an await between
them: `RestoreSession` reads the storage (`reading`) and `AdoptStored` takes that over
and gives it to the socket at once, whatever was asked in between. The server rotates
a live token (`ServeRotation`), or refuses it and leaves it live (`ServeBarred`, the 403
of an account that is banned, inactive or unconfirmed), or finds it revoked
(`ServeReuse`). A sign-up may be answered 202 (`"pending"`), which the client takes over
as a session without tokens.

The histories name what these orders excuse. `carried` and `recalled` are the calls and
the restore that were under way when a sign-out was asked, and `crossed` says that a
restored session was announced before an older change was; each is cleared by the next
sign-in, adoption or change. `excused` names the tokens that may be presented
twice: an answer was lost, the application refreshed next to the client, or a
logout revoked it.

### The console

One module for each page, or kind of page, that keeps something; their variables
are the page's refs and stores, their actions the handlers, watchers and the
continuations after an `await`. An answer is served at one moment and comes at
another, or fails.

| Module | Code |
|---|---|
| `ConsoleSession` | `stores/auth.ts`, `router/index.ts`, `LoginView.vue`, `TopBar.vue`, `SideNav.vue`, `api/client.ts` against `admin/api/auth.py` |
| `ConsoleLists` | `useResource.ts`, `useTable.ts`, the filter bar, and the list of each page that uses them |
| `UserDrawer` | the drawer, the dialogs and the three actions of `auth/Users.vue` |
| `JobsPage` | `jobs/Queue.vue` against rows that workers move on |
| `BackupPage` | `ops/Backups.vue` over `_backup_job.py` under its attempts |
| `SqlWorkspace`, `RlsEditor`, `RowPreview` | the pages of the database, with the role switcher |
| `ObjectBrowser` | the modal that signs URLs |
| `TemplateEditor`, `InvokePage` | mail templates; calling a function |
| `LogTail`, `TailView` | the ring of `logging_config.py`, the event stream of `admin/api/service_ops.py`, `ops/Logs.vue`; and what a tail promises |
| `ChannelTail` | `realtime/Channels.vue` over `useLiveTail.ts` |

`LogTail` implements `TailView` under the mapping at its end: the stream is the rows
and what is held back, cut to the newest. The histories called `late`, `newest`,
`crossed`, `overlapped` record that answers came in another order than the requests
were sent in: most pages show whatever answer comes last, and the properties say
that this is the only way to a wrong page. So they do not say that the hazard of that
order is met; `PROJECT.json` says with each hazard what is excused. In
`ConsoleLists` a second action on a row may start while the first is awaited, as in
`RefreshTokens.vue:86-99`, `Crons.vue:112` and `ObjectBrowser.vue:151`; its `acts`
counts the actions at each stage, and each reloads the list.

### MC modules

`MCJobQueue`, `MCAuthSessions`, `MCAccounts`, `MCObjectStorage`, `MCSdkSession` and
`MCBackupPage` declare model values and name the small sets the configurations
use, with the symmetry that is sound (never in a run with a liveness property).
`Console` holds one instance of each page and two of the broker. They share no
state, so a behaviour is one part's; `part` says which, the variables `v1` to `v20`
are that part's, and each of its properties names the part it speaks of. Its
constants are those of its pages, so the theorems about it hold for all their
values; `MCConsole` gives them small ones. It takes the broker by way of
`RealtimeProofs`, so that the proofs about the console can cite its theorems.

## 3. What the runs check

| Run | Instance | Distinct states | What it shows |
|---|---|---|---|
| `jobs_pairs` | 2 rows with one key, the second of an unknown name, 2 workers, 2 attempts, 3 claims, 1 extra requeue, 1 fault | 317 k | `OneLivePerKey`, `SuccessHasEffects`, `AttemptsPaidFor`, `ClaimsInHand`, and the proofs' invariant `IInv` |
| `jobs_live` | 1 row, 2 workers, 8 claims, 1 extra, 2 faults, fairness | 52 k | `EveryJobSettles`, `Exclusive`, `EffectivelyOnce` |
| `sessions_races` | 3 tokens, 2 requests, 2 passwords, 2 mails, both reasons to refuse, 1 reset, 1 ban, within `Scope` | 695 k | `RedeemedOnce`, `SignedOutStaysOut`, `ReuseIsContained`, `SurvivorsAreCurrent`, `OneRecoveryEach`, `NoSessionWhileBlocked`, and `IInv` |
| `accounts_races` | 2 accounts, 3 addresses, 1 identity, 2 requests at once and 3 in all, within `Scope` | 467 k | `TicketsAreCurrent`, `BothInboxesAgreed`, `ConfirmedMeansProven`, `NoUnprovenLink`, `TypeOK` |
| `storage_faults` | 3 requests of every kind, 2 paths with one key, 2 buckets, 2 faults, fairness | 274 k | `MetadataBacked`, `NoStrayBytes`, `NoRowWithoutBucket`, `EveryRequestEnds`, `TypeOK` |
| `sdk_calls` | 2 calls at once beside a restore, 2 users, 2 pairs of tokens, 1 mishap | 1.7 M | `ReuseHasACause`, `RetryIsFresh`, `CallersAreServed`, `SocketFollows`, `OutUnlessOvertaken`, `LiveSessionsAreKept` |
| `console` | 13 pages and 2 instances of the broker | 1.5 M | the composite properties below |
| `jobs_terminal`, `sessions_everyone`, `accounts_taken`, `storage_again`, `backups_failed` | small | | five statements of the repository that the code does not keep: section 6 |

The properties of `console`, and the properties of the modules they join:

| Property | Parts |
|---|---|
| `SessionIsTold` | session: `TypeOK`, `FormIsReleased`, `SignedOutIsOut`, `MenuFollows` |
| `ListIsOfQuery` | lists: `SettledShowsCurrent`, `OffsetBelongsToQuery`, `ReadsOwnWrites`, `TextReachesQuery` |
| `PanelIsOfItsSubject` | user drawer: `DetailIsSelected`, `ActionsAreShown`, `ActsOnWhomItNamed`; signed URLs: `UrlIsTheLastAsked`; templates: `DraftIsOfTemplate`, `NothingToSave`; functions: `ResponseIsOfTheRun`, `MethodIsAllowed`; rows: `RowsAreUnderRole` |
| `ResultsAreOfTheirRun` | SQL: `ResultIsOfLastRun`, `ResultHeadsHistory`; policies: `VerdictComparesOneRun`, `TablesAreOfSchema`, `PoliciesAreOfTable` |
| `OperationsAreFollowed` | backups: `RunningIsWatched`, `DrawerFollowsList`; jobs: `OneRetryPerEnd`, `ActionsAreListed` |
| `StreamsAreTails` | channels: `StreamsAreTheTail`, `EventsAreTheLatest`; logs: `TypeOK`, `RowsMatchFilter`, `CaughtUpIsComplete`, `NoStreamIsLeft` |
| `SubscribersAreTold` | broker: `PresenceIsTold`, `NobodyIsLeft`, `ChangesArrive` |
| `StepsHaveCause` (steps) | session: a redirect to the login page (`RedirectHasCause`); SQL: a run that may write (`WritesAreConfirmed`); broker: a push (`PushesAreAllowed`) |
| `TailImplemented` (refinement) | logs: every behaviour of `LogTail` is one of `TailView` |

Each joined property has a mutant of its own, so that none is carried by another.

Why these bounds are enough for the cases that matter:

* Queue. Two workers and two rows are what it takes for a claim to be lost to
  another worker, for one key to be wanted twice and for a late failure to meet
  a newer row. Three claims of one row are one more than `max_attempts`, so a
  reclaim after the last attempt happens. In the live run no row is claimed more
  than seven times, with a higher bound as well, so the bound of eight cuts off
  no behaviour that the property is about.
* Sessions. Three tokens are a session, its successor and a fork or a
  grandchild: enough for a walk over two generations, which a walk over one gets
  wrong (the mutant `ReuseRevoke_ChildrenOnly`). Two requests are enough for
  every pair of read and write to overlap. `Scope` keeps to two small worlds: two
  requests for an account nobody blocks, with one mail, or one request at a time
  for any account, with two mails. A ban needs only one request to overtake, and
  the proofs have no such limit.
* Accounts. Three addresses are the present one, the one asked for, and the one
  that supersedes it; two requests at once let one read before the other has stored
  its request, and with three in all an applied change is followed by a late one.
  `Scope`: one account and two requests, or two accounts, two addresses, a
  provider and one request at a time; signups and mails, which need no read,
  still come between its steps.
* Storage. Three requests let two uploads and a deletion, or an upload and two
  bucket operations, meet. Two faults are one that a rollback should mend and
  one that comes while it does.
* Client. Two calls are a refresher and one that joins it, or overtakes it; two
  pairs of tokens are a session and its successor, or a session of before and one of
  after; two users are one whose session is there and one who is still to sign up.
  With one user and three pairs (7.0 M states) the properties held as well, and the
  proofs bound neither users nor calls nor pairs.
* Console. Two subjects for what was chosen and what is chosen instead, three
  or four requests so that an old answer, a new one and one that fails meet;
  one or two actions. A page is a small program: the orders that go wrong are
  short, and each mutant is found. The session has two requests at once, three
  logins and two failures; with three requests, two logins and one failure nothing
  new was found, and the proofs do not bound them.
  The log's clock does not go back: its entries come in the order of
  `record.created`, as from one thread, though several may bear one timestamp.
* Broker. Presence with two sockets, a stream and queues of two, so that frames
  are dropped; changes with one socket, a stream, two channels and a queue of
  one. Two joins let a channel be replaced, or a second be first in the dict;
  one rotation of a token falls into any of the awaits of a change. With two
  changes, but no stream, the properties held as well (1.9 M states).

`MaxClaims`, `MaxExtra`, `MaxFaults`, `MaxTokens`, `MaxResets`, `MaxBans`,
`MaxBuckets`, `MaxPairs`, `MaxMishaps`, `MaxAsked`, `MaxActs` and their like are bounds
of the models and not of the code; each is named in its module as such.
`VisibilityElapses` is written so that `MaxExtra` never keeps a claim from expiring
that nobody works on. Deadlock is not checked: every system here may be quiet
(all jobs settled, all requests answered, the operator gone), and what must not
get stuck is stated as `EveryJobSettles`, `EveryRequestEnds` and `CallersAreServed`.

## 4. Fairness

`jobs_live` assumes that a step of a live process happens when it stays possible:
the loop goes round, polls, acquires a free slot, a task ends one way or
another, the drain timeout fires, a stopped process exits, a supervisor starts
another; and that backoffs and visibility timeouts elapse. All of it is weak
fairness, which is what asyncio's loop and a clock give. Nothing forces a fault,
an operator, or a handler to succeed. That a task ends at all is an assumption
about handlers; one that never returns holds its slot forever, in the code too.

`storage_faults` assumes weak fairness of every request that is under way: the
event loop serves it, and the database grants a lock that is free. A request that waits
for a lock has no step until the lock is free, so `EveryRequestEnds` is about the waits:
a transaction that dies and keeps its locks (the mutant `Crash_KeepsLocks`) leaves an
upload waiting for ever.

The other models have no fairness: their properties are about what must not
happen. Of the client, what would need it (a request that is answered) is the
network's to give; that no caller waits for a refresh nobody makes is an
invariant, `CallersAreServed`.

## 5. What is proved

The theorems hold for every value of the constants: any number of rows,
workers, slots, tokens, requests, passwords, mails, users, addresses, paths,
buckets, calls and faults. They rest on the named assumptions of the modules
alone (counters are naturals, the absent value is none of the values, `KeyOf` is a
function) and hold for the bounds as parameters. The `Scope` of a run is no part
of a specification: the theorems are about all of `Spec`.

| Theorem | Statement |
|---|---|
| `JobQueueProofs!TypeCorrect` | `Spec => []TypeOK` |
| `JobQueueProofs!Invariance` | `Spec => []IInv` |
| `JobQueueProofs!ExclusiveCorrect`, `EffectivelyOnceCorrect`, `OneLivePerKeyCorrect` | three safety properties of the queue |
| `JobQueueProofs!SuccessHasEffectsCorrect`, `AttemptsPaidForCorrect`, `ClaimsInHandCorrect` | the other three |
| `AuthSessionsProofs!Invariance` | `Spec => []IInv` |
| `AuthSessionsProofs!RedeemedOnceCorrect`, `SurvivorsAreCurrentCorrect`, `SignedOutStaysOutCorrect`, `ReuseIsContainedCorrect` | four safety properties of sessions |
| `AuthSessionsProofs!OneRecoveryEachCorrect` | a mail lets the password be set once |
| `AuthSessionsProofs!NoSessionWhileBlockedCorrect` | the action property of the gate |
| `AccountsProofs!TypeCorrect`, `TicketsBelong`, `ConfirmedIsProven` | the three invariants of accounts |
| `AccountsProofs!ChangesAreAgreed`, `LinksAreProven` | both action properties of accounts |
| `ObjectStorageProofs!TypeCorrect`, `RowsHaveABucket`, `RowsAreBacked`, `BytesHaveARow` | the four invariants of storage |
| `SdkSessionProofs!TypeCorrect`, `SocketCorrect`, `SignedOutCorrect`, `CallersCorrect` | the type invariant and the three safety invariants of the client |
| `SdkSessionProofs!LiveSessionsCorrect`, `ReuseCorrect`, `RetryCorrect` | its three action properties |
| `ConsolePagesProofs!PanelsCorrect` | `ConsoleSpec => []PanelIsOfItsSubject`: five pages |
| `ConsolePagesProofs!ListsCorrect` | `ConsoleSpec => []ListIsOfQuery`: the list of every page |
| `ConsolePagesProofs!ResultsCorrect`, `OperationsCorrect` | the same of `ResultsAreOfTheirRun` and `OperationsAreFollowed`: four pages |
| `ConsolePagesProofs!SessionCorrect` | `ConsoleSpec => []SessionIsTold` |
| `RealtimeProofs!BrokerCorrect` | `RealtimeAssumption => (Spec => [](PresenceIsTold /\ NobodyIsLeft /\ ChangesArrive))` |
| `RealtimeProofs!BrokerPushes` | `RealtimeAssumption => (Spec => PushesAreAllowed)` |
| `ConsoleStreamsProofs!SubscribersCorrect` | `ConsoleSpec => []SubscribersAreTold`: the same, of both brokers |
| `ConsoleStreamsProofs!StreamsCorrect` | `ConsoleSpec => []StreamsAreTails`: the log and the inspector of channels |
| `ConsoleStreamsProofs!TailCorrect` | `ConsoleSpec => TailImplemented`: the log page implements `TailView` |
| `ConsoleStreamsProofs!CausesCorrect` | `ConsoleSpec => StepsHaveCause`: the guard, a run that may write, a push of the broker |

**The queue.** `EffectivelyOnce` says when effects are there, which depends on who
may still commit. So its invariant says who holds what (`HandsInv`: a claim whose
outcome is open is in the hands of one worker, in memory as in `phase`), that
claims are numbered as they are made (`FreshInv`), that an undisturbed row has
one live claim, its latest (`Exclusive`), and that an undisturbed row that
succeeded has none left (`SettledInv`). `HandsInv` is needed because a step of one
worker changes `phase` of a claim, and only disjointness of hands tells that it
was not another's. Two facts then carry the induction: a step that touches no
row leaves every row's invariant (`QuietRow`), and a claim takes the number
after `attempts`, which is fresh. `OneLivePerKey` is inductive with `TypeOK` alone,
action by action through `KeyFree`: a reclaim turns running into queued, which
keeps the row among the live ones and so changes nothing the index sees.

The remaining three need a little more than that invariant. `ClaimsInHand` rests on
`OpenInv` (every open claim has an owner, at the semaphore or among the tasks; that
it has one only is `HandsInv`) and on `SlotsInv`, a cardinality that grows only where
the semaphore was looked at. `AttemptsPaidFor` rests on `PaidInv`, the account of a
row: a claim spends a ticket, and tickets come from the insert, the reclaims, the
retries and the claims that failed before their last attempt, which are numbered
below `max_attempts` and so are fewer.

**Sessions.** The properties speak of a family: all that was rotated from a
token. `Family` is defined as a least closed set and not by recursion, and three
lemmas are all that the proofs use of it: it contains its start, it is closed,
and it is inside every closed set. The invariant is stated one generation at a
time (`HeirsOut`: the child of a token signed out or reused is signed out or
late; the child of a late token is late); `SignedOutStaysOut` and
`ReuseIsContained` follow from it by `FamilyLeast`, without any induction over
generations. The rest of the invariant says what a request that nothing overtook
knows: the token it read is live (`FreshReads`), the password it checked is
today's (`FreshProofs`); who is past the gate of a refused account was there when
the ban fell (`PastTheGate`); parents are older than their children
(`ParentsFirst`), so that a new token is nobody's parent.

**Accounts.** What a ticket is good for is not enough to say what it proves: the
invariant adds that each side of a change has one ticket, that a bit set was set
by a ticket of the pending change (`BitsAreClicked`; `Ask` keeping the bits breaks
it), and that an address an account got after its first was proven (`Vouched`).
`AsksAreFresh` and `Placed` follow the address from the read to the ticket: a request has
read the address that is, and its "current" ticket is in that inbox, or both are late;
a step that changes the address makes late whoever had read it (`Overtaken`) and leaves
no ticket of the account behind.
`FoundIsLinkable` carries what the callback read inside its transaction up to its
update: a signup cannot touch a row that exists, so what was linkable stays so.

**Storage.** Rows and buckets stay together because of what open transactions
hold (`LockInv`): a writer's bucket cannot be deleted, and a dropper waits for the
writers. `MetadataBacked` and `NoStrayBytes` are not inductive, since they say nothing
of what one request has done so far. `CarefulInv` does: while requests are careful
one is under way at a time (`Alone`), what it found is still so (`InTurn`), bytes may
be gone before the commit that deletes their row alone (`Undecided`), and bytes
without a row have a request that will add it or remove them (`Accounted`).

**The client.** `TypeInv` says of a call what it holds at its place and before its
answer: without it nobody knows that the pair in an answer exists. On it rest, one
after the other, `StoreInv` (the auth storage, and what a restore read of it, is a whole
pair or nothing), `QueueInv` (the last announcement brings what memory has, unless a
restore crossed it, which is `SocketFollows` once the queue is empty), `OutInv` (after a
sign-out there is nothing in memory or storage, and only the calls and the restore of
before can bring a session) and `WaitersAreServed`. `LiveNext` goes through every step that
drops a session and finds its cause; that a refusal other than the 403 speaks of a
revoked token is `RefusedInv`.

The action properties need to know where a token can be. `FreshInv`: a pair in an
answer that nobody has read is nowhere else, in no other answer, in no store and in no
restore under way.
`RotationInv`: what the client holds or has presented is a token the server still
takes, unless it is excused or the answer with its successor is there; so a token
that is presented and found revoked is an excused one. `StarterInv`: while one 401 refreshes the
others wait, so that two refreshes of the client itself never overlap. `RetryIsFresh`
is about an order, and so is its invariant: a request runs after the announcements
that are queued before it (`EmitInv`), so between the adoption of a new pair and the
repeat of a request nothing moves the tokens back (`RetryInv`: neither the session nor
the storage nor a restore has the token that was refused), unless a late answer of
`getUser` puts an old one there.

**The pages of the console.** Each page has its own invariant (*What is inductive* at
the end of its module) and its own lemma that its steps keep it; a behaviour of
`Console` is one page's, so `PanelsInv` and `RunsInv` join them by `part`. They have
one shape. Requests are numbered; the number of the newest answer that was shown
bounds what is shown from below, and the histories of overlap (`late`, `crossed`,
`overlapped`) are false as long as no answer came behind a newer one. A page is then
of its subject because the request in flight with the highest number was sent for
the subject of now, and every other is older. What a list shows of an action
(`ActionsAreShown`, `ActionsAreListed`) needs in addition that an answer served after
the action contains it, and that whoever was asked before it is among those whose
answer makes the page `late`. Of a list (`ListInv`) the last request is for the query
that is on the screen, and was sent after the last action: it was answered, it failed,
or it is under way. That is more than the property says, which is about a list at
rest; it is what every input has to keep by sending a request of its own.

**The console's session.** `SessionInv` says that the store has one request under way
at a time and that `hydrating` is true just then, that the form has sent one login at
most, and that a good answer names a session. A redirect to the login page then has
its cause: the guard waited for an answer, and one that leaves the store empty was
refused, failed, or came next to another's.

**The broker.** `BrokerInv` (at the end of `Realtime`) has four parts.

* `SubsInv`: channels are numbered by their joins, each number once, and who has not
  come to `subscribe` has none. A join then replaces one channel and no other.
* `PresenceInv`: the two presence properties, with the types that make them
  inductive, and that a topic is `lossy` only while no `presence_state` of it is
  queued. `PresenceIsTold` is about a fold (`Told`) of the whole queue, so the proof
  lives from its laws: what is told by `a \o b` is told by `b` after `a` (`ToldConcat`);
  frames that are not of the topic tell nothing (`ToldQuiet`); a queue with a state in
  it tells the same whatever was known before (`ToldState`), which is why a frame that
  a full queue drops does no harm in front of one, and why a read frame moves from the
  queue to the view. `QueueBehind` puts them together for every sender.
  When a connection ends, its peers get one diff for each topic it leaves
  (`Farewells`, a recursive function over the joins). `FarewellsPart` says, by
  induction, that nobody hears anything else and that each peer of a topic hears its
  diff, so that it takes away just the entries that the broker takes away.
* `TasksInv`: the recipients of a task were registered when they were collected and
  are never new again, and while the database is asked about one, the token it is
  asked with is that recipient's and good, unless the history says that it was turned.
  So a yes of the policy is about who is there, which is `PushesAreAllowed`.
* `OwedTo`: whoever is owed a change is still entitled to it, with the one channel it
  had at the collection, and either is exactly once among those the task will come to,
  and nothing was sent to it, or is not among them and was sent the frame exactly once.
  The second half alone, which is `ChangesArrive`, says nothing of a task under way.
  A step of a connection takes it out of `owed` and touches nobody else (`OwedDisturbed`);
  a step of a task moves one recipient from the one side to the other.

`SubsInv` and `TasksInv` are inductive by themselves; `PresenceInv` stands on `SubsInv`, and
`OwedTo` on both. The broker is proved as a module of
its own, for any connections. Its two instances in the console meet the consent of a
run that may write, the log and the inspector in `StreamsInv`, by `part`.

**The streams.** `CaughtUpIsComplete` says nothing while the log is behind, held or
filtered anew, so `LogInv` says in addition what is true all along. The ring is
numbered without a gap and its timestamps do not go back (`RingInv`), which is why
reading it from its newest end up to the first timestamp that was seen finds all
that is new. What the page has, shown and held together, is in the ring's order
(`Ascending`); each entry of the ring is later than all of it, if the stream has not
sent it, or among it, unless it may be missing (`SeenInv`). A full buffer does not
break that: what `Newest` cuts off is older than what the ring still has, since the
page keeps as much as the ring does (`TrimmedTail`). `TailCorrect` maps each step of
the log to a step of `TailView` or to none. Its heart is that it makes no difference
where a full buffer is cut: `Newest(Newest(a) \o b) = Newest(a \o b)`, the same of the
second part, and the end of `Newest(a \o b)` is `b` if that fits (`NewestOfFirst`,
`NewestOfLast`, `NewestEnds`). Of the inspector, `TailInv` adds that no open stream is of
a visit to come.

What the server sends is selected from its ring by a recursive function (`Select`).
Its laws (`Selected`: it keeps the members, their order, and nothing else) are proved
by induction, from the principle that a set of naturals that is not empty has a least
member (`LeastOf`, out of `WellFoundedInduction`): stated of a set and not of a
predicate, it can be used here (`Induction`, `Recursion`, of `RealtimeProofs`). The
laws of `Told` and of `Farewells` are proved by the same principle.

## 6. Where the code and its own words disagree

* `jobs_terminal`. Cancelling says that a job is "already terminal" once it has
  ended, but the outcome of a handler is recorded by id alone (`jobs/service.py:149`):
  a row cancelled while it runs becomes succeeded, or queued again.
* `sessions_everyone`. `update_password`: "everyone else is signed out". A login that
  verified the old password, or a refresh that read its token, before the
  transaction, inserts a live session after it. `SurvivorsAreCurrent` is what
  does hold, and is proved.
* `accounts_taken`. `verify_email_change` means to clear a request whose address is
  taken; the update is rolled back by the exception that follows it.
* `storage_again`. "Orphaned bytes after a crash are acceptable; orphaned metadata
  is not." An upload to a path that exists truncates the file of the object that
  is there and then, refused by the unique index, unlinks it.
* `backups_failed`. `start_backup` says that the job updates the row when done. The
  handler marks a failed dump in its own transaction and raises, the worker
  rolls the mark back, and the row says running for ever; the page polls for it
  for as long.

**Forever.** The handler's transaction runs as the role of the job, and
`mark_succeeded` with it. When row-level security hides the row from that role,
the update matches nothing and says nothing: effects are committed, the row
stays running, expires, is reclaimed and runs again, without end, because only a
failure compares `attempts` with `max_attempts`. The model has these rows
(`Unseen`); `EffectivelyOnce` and `EveryJobSettles` exclude them by name. No run
gives `Unseen` a member yet.

Read and not checked:

* the inspector's comment asks that any failure between `register` and `subscribe`
  give the slot back (`admin/api/realtime.py:107`); a cancellation there does not,
  since `CancelledError` is no `Exception`. The model takes the step (`Cut`).
* `_topic_for` calls its last line unreachable (`realtime/broker.py:791`): it is
  reached when the channel was left while the database was asked, and the frame
  then goes out under another channel's topic. `ChangesArrive` speaks of who stayed.
* `request_email_change` reads the address before its transaction and mails the
  "current" ticket there (`auth/service.py:684`, `729`): an address can change without the
  inbox it is in, where the docstring says "Confirmation tokens go to *both* inboxes".
  `BothInboxesAgreed` names the order (section 2, Accounts).
* `signUp` takes a 202 without tokens over as a session (`ts-sdk/src/auth.ts:60`), also
  over one that is live; any 4xx of a refresh drops the session, also the 403 that "without
  burning their current refresh token" leaves it live (`auth/service.py:433`,
  `ts-sdk/src/auth.ts:117`). `LiveSessionsAreKept` names both.
* `restoreSession` adopts what it read before an await (`ts-sdk/src/client.ts:190`): a
  `signOut` in between is undone, or leaves the socket without the session's token.
  `OutUnlessOvertaken` and `SocketFollows` name it.
* no statement reads the configured lifetime of refresh tokens
  (`settings.py:80`); the message after a reuse says that all sessions were
  invalidated (`auth/service.py:426`) where the heirs of one token are.
* the dashboard's card of the queue pushes `/jobs` (`DashboardView.vue:141`), which
  is no route.

## 7. What is only model-checked

Liveness (`EveryJobSettles`, `EveryRequestEnds`), which is out of the prover's
reach. Every safety invariant and every action property of the passing runs is a
theorem, as is the refinement `TailImplemented`.

`MetadataBacked` and `NoStrayBytes`, checked and proved, hold while the history
`careful` is true. It is a condition on the requests and not a guarantee of the
code: without it, `storage_again` shows the least that goes wrong.

## 8. What is not modelled, and why

* Scheduled jobs, keys and secrets, migrations: planned, section 9. Their hazards
  are a tick repeated once its lock and key are free again (`jobs/cron_inproc.py:110`),
  two processes that write one manifest (`keyset.py:187`), and two runners that read
  the applied migrations once (`migrate.py:58`).
* Of the queue: what an idempotent enqueue answers to its caller when the row is
  of another's transaction (migration 0007, line 158); rows the handler's role may
  not update, which no run has a member of.
* Of realtime: what is notified while the listener reconnects or before it notices
  (`broker.py:686`), which nothing in the process can know; an entry of the registry
  cache that is older than an `enable` (`broker.py:586`), which the code documents;
  start and stop; the order of recipients and several filters of one channel;
  heartbeats, whose timeout is one more end of a connection.
* Of the client: options that are not the defaults, and what `postgrest-js` and
  `realtime-js` do themselves. The Python client has no shared refresh: two of its
  refreshes are the case that `ReuseHasACause` excuses.
* Of the console: the navigation from a row to another page, the quick download, the
  creation and edit of a bucket, and how dates are read (`DateFilter.vue` turns a day
  into UTC).
* Rate limits (`auth/ratelimit.py`): one atomic upsert.
* Mail: an enqueue in the caller's transaction, and a handler like any other.
* Edge functions, hooks, middleware, health, the heartbeat, audit, settings, CLI,
  scaffolding, code generation: no state that two actors share, or none that
  decides anything. The files under `admin/static` are the console's build.
* S3Backend: whole objects replace whole objects; the hazards of LocalBackend
  are the greater ones.
* Access tokens on the server: good until they expire, whatever happens to the
  session; the code keeps no record that could say otherwise.
* Row locks inside one transaction of `auth/service.py`: each such transaction is
  one step, so that two of them waiting for each other do not appear. Postgres
  ends such a wait by refusing one, which is no step here.

## 9. What could come next

1. The listener of the broker: notifications lost while it reconnects, with a
   specification of what a subscriber may miss.
2. `CronTicks` over the queue's index: each tick fires once, unless a replica lags;
   with it the answer of an idempotent enqueue to its caller.
3. `KeySet` and secrets: an active key is in the manifest and on disk; no process
   signs with a key that others have pruned.
4. Abstract specifications of the queue (each job effectively once) and of the
   client's session, implemented by their modules.
5. `Migrations`: two runners.
