------------------------------- MODULE Console -------------------------------
(***************************************************************************)
(* The pages of the operator console, and the broker that its channel page *)
(* listens to.  They share no state but the server's, so a behaviour is    *)
(* one part's: part says which, and the variables v1 .. v20 are that       *)
(* part's in its own order.  The log page has its variables under their    *)
(* own names.  The broker has two instances, one for presence and one for  *)
(* the changes of rows; they bring the broker's theorems, which the proofs *)
(* about the console cite.                                                 *)
(***************************************************************************)
EXTENDS LogTail

CONSTANTS
    Calls, Visited, MaxLogins, MaxMishaps,            \* the session
    Accounts, MaxDetails, MaxAccountActs,             \* the users
    Visits, MaxLists, MaxListActs,                    \* the lists
    MaxBackups, MaxAttempts, MaxBackupLists,          \* the backups
    Statements, MaxHistory, MaxRuns,                  \* the SQL page
    RlsSchemas, Names, MaxPolicyLists, MaxDryRuns,    \* the policies
    PageJobs, MaxMoves, MaxJobActs, MaxJobLists,      \* the queue of jobs
    Files, MaxSignings,                               \* the object browser
    Templates, MaxEdits, MaxTemplateLists,            \* the email templates
    EdgeFunctions, MethodsOf, MaxInvocations, MaxJumps,
    Tables, Subs, MaxRowLoads,                        \* the rows of a table
    TailTopics, MaxShown, MaxEvents, MaxStreams,      \* the channel page
    Taps, JwtUsers, MaxConnections, MaxJoins,         \* the broker: of both instances,
    PeerSockets, PeerTopics, PeerIdents, PeerFilters, \* of the one for presence,
    PeerSubs, PeerQueue, PeerTracks, PeerChanges, PeerTokens, PeerCasts,
    Readers, ReaderTopics, ReaderIdents, ReaderFilters,    \* and of the one for changes
    ReaderSubs, ReaderQueue, ReaderTracks, ReaderChanges, ReaderTokens, ReaderCasts

VARIABLES part, v1, v2, v3, v4, v5, v6, v7, v8, v9, v10, v11, v12, v13, v14, v15, v16,
          v17, v18, v19, v20

Session == INSTANCE ConsoleSession WITH
    Calls <- Calls, Visited <- Visited, MaxLogins <- MaxLogins, MaxMishaps <- MaxMishaps,
    issued <- v1, valid <- v2, jar <- v3, session <- v4, hydrating <- v5, route <- v6,
    next <- v7, pending <- v8, submitting <- v9, call <- v10, mine <- v11, mishaps <- v12,
    out <- v13, carried <- v14

Drawer == INSTANCE UserDrawer WITH
    Users <- Accounts, MaxAsked <- MaxDetails, MaxActs <- MaxAccountActs,
    account <- v1, selected <- v2, detail <- v3, loading <- v4, error <- v5, fetches <- v6,
    acts <- v7, asked <- v8, begun <- v9, since <- v10, newest <- v11, late <- v12,
    seen <- v13

Lists == INSTANCE ConsoleLists WITH
    Visits <- Visits, MaxAsked <- MaxLists, MaxActs <- MaxListActs,
    page <- v1, search <- v2, filter <- v3, extra <- v4, offset <- v5, typed <- v6,
    armed <- v7, row <- v8, requests <- v9, list <- v10, loading <- v11, error <- v12,
    acts <- v13, version <- v14, asked <- v15, acted <- v16, newest <- v17, late <- v18,
    turnedFor <- v19, seen <- v20

Backup == INSTANCE BackupPage WITH
    MaxBackups <- MaxBackups, MaxAttempts <- MaxAttempts, MaxAsked <- MaxBackupLists,
    started <- v1, status <- v2, attempts <- v3, list <- v4, requests <- v5, asked <- v6,
    loading <- v7, error <- v8, timer <- v9, drawer <- v10, starting <- v11, mounted <- v12

Sql == INSTANCE SqlWorkspace WITH
    Statements <- Statements, MaxHistory <- MaxHistory, MaxRuns <- MaxRuns,
    statement <- v1, readOnly <- v2, dialog <- v3, running <- v4, result <- v5,
    execError <- v6, runs <- v7, items <- v8, ran <- v9, allowed <- v10, overlapped <- v11

Rls == INSTANCE RlsEditor WITH
    Schemas <- RlsSchemas, Names <- Names, MaxAsked <- MaxPolicyLists, MaxRuns <- MaxDryRuns,
    schema <- v1, table <- v2, options <- v3, policies <- v4, policiesLoading <- v5,
    policiesError <- v6, lists <- v7, loads <- v8, running <- v9, before <- v10,
    after <- v11, dryRunError <- v12, dry <- v13, asked <- v14, ran <- v15, wanted <- v16,
    lateTables <- v17, latePolicies <- v18, disturbed <- v19

Queue == INSTANCE JobsPage WITH
    Jobs <- PageJobs, MaxMoves <- MaxMoves, MaxActs <- MaxJobActs, MaxAsked <- MaxJobLists,
    status <- v1, handled <- v2, list <- v3, requests <- v4, error <- v5, selected <- v6,
    acts <- v7, asked <- v8, begun <- v9, moves <- v10, acted <- v11, ended <- v12,
    requeued <- v13, seen <- v14, newest <- v15, late <- v16

Objects == INSTANCE ObjectBrowser WITH
    Objects <- Files, MaxAsked <- MaxSignings,
    signTarget <- v1, signModalLoading <- v2, signResult <- v3, signings <- v4, asked <- v5,
    since <- v6, late <- v7

Editor == INSTANCE TemplateEditor WITH
    Templates <- Templates, MaxEdits <- MaxEdits, MaxAsked <- MaxTemplateLists,
    stored <- v1, templates <- v2, requests <- v3, asked <- v4, loading <- v5, error <- v6,
    selected <- v7, editing <- v8, save <- v9, edits <- v10, crossed <- v11, unsure <- v12

Invoke == INSTANCE InvokePage WITH
    Names <- EdgeFunctions, MethodsOf <- MethodsOf, MaxRuns <- MaxInvocations,
    MaxJumps <- MaxJumps,
    routeName <- v1, routes <- v2, method <- v3, running <- v4, response <- v5,
    runError <- v6, calls <- v7, ran <- v8, jumps <- v9, turned <- v10

Preview == INSTANCE RowPreview WITH
    Tables <- Tables, Subs <- Subs, MaxAsked <- MaxRowLoads,
    preview <- v1, table <- v2, opened <- v3, requests <- v4, shown <- v5, error <- v6,
    asked <- v7, newest <- v8, late <- v9

Channel == INSTANCE ChannelTail WITH
    Topics <- TailTopics, MaxShown <- MaxShown, MaxEvents <- MaxEvents,
    MaxStreams <- MaxStreams,
    visit <- v1, streams <- v2, tail <- v3, connected <- v4, paused <- v5, events <- v6,
    opened <- v7, arrived <- v8, last <- v9

Presence == INSTANCE RealtimeProofs WITH
    Sockets <- PeerSockets, Taps <- Taps, Topics <- PeerTopics, Users <- JwtUsers,
    Idents <- PeerIdents, Filters <- PeerFilters, MaxConnections <- MaxConnections,
    MaxSubs <- PeerSubs, QueueSize <- PeerQueue, MaxJoins <- MaxJoins,
    MaxTracks <- PeerTracks, MaxChanges <- PeerChanges, MaxTokens <- PeerTokens,
    MaxCasts <- PeerCasts,
    conn <- v1, ident <- v2, expired <- v3, subs <- v4, busy <- v5, joins <- v6, tokens <- v7,
    presence <- v8, outbound <- v9, cached <- v10, tasks <- v11, tracks <- v12, casts <- v13,
    view <- v14, lossy <- v15, sent <- v16

Changes == INSTANCE RealtimeProofs WITH
    Sockets <- Readers, Taps <- Taps, Topics <- ReaderTopics, Users <- JwtUsers,
    Idents <- ReaderIdents, Filters <- ReaderFilters, MaxConnections <- MaxConnections,
    MaxSubs <- ReaderSubs, QueueSize <- ReaderQueue, MaxJoins <- MaxJoins,
    MaxTracks <- ReaderTracks, MaxChanges <- ReaderChanges, MaxTokens <- ReaderTokens,
    MaxCasts <- ReaderCasts,
    conn <- v1, ident <- v2, expired <- v3, subs <- v4, busy <- v5, joins <- v6, tokens <- v7,
    presence <- v8, outbound <- v9, cached <- v10, tasks <- v11, tracks <- v12, casts <- v13,
    view <- v14, lossy <- v15, sent <- v16

ASSUME ConsoleAssumption ==
    /\ Session!SessionAssumption
    /\ Drawer!UsersAssumption
    /\ Lists!VisitsAssumption
    /\ Sql!StatementsAssumption
    /\ Rls!SchemasAssumption
    /\ Queue!JobsAssumption
    /\ Objects!ObjectsAssumption
    /\ Editor!TemplatesAssumption
    /\ Invoke!InvokeAssumption
    /\ Preview!PreviewAssumption
    /\ Channel!TailAssumption
    /\ Presence!RealtimeAssumption
    /\ Changes!RealtimeAssumption

consoleVars ==
    <<part, v1, v2, v3, v4, v5, v6, v7, v8, v9, v10, v11, v12, v13, v14, v15, v16, v17,
      v18, v19, v20, logVars>>

ConsoleInit ==
    /\ Init
    /\ \/ /\ part = "logs"
          /\ v1 = 0 /\ v2 = 0 /\ v3 = 0 /\ v4 = 0 /\ v5 = 0 /\ v6 = 0 /\ v7 = 0 /\ v8 = 0
          /\ v9 = 0 /\ v10 = 0 /\ v11 = 0 /\ v12 = 0 /\ v13 = 0 /\ v14 = 0 /\ v15 = 0
          /\ v16 = 0 /\ v17 = 0 /\ v18 = 0 /\ v19 = 0 /\ v20 = 0
       \/ /\ part = "session" /\ Session!Init
          /\ v15 = 0 /\ v16 = 0 /\ v17 = 0 /\ v18 = 0 /\ v19 = 0 /\ v20 = 0
       \/ /\ part = "users" /\ Drawer!Init
          /\ v14 = 0 /\ v15 = 0 /\ v16 = 0 /\ v17 = 0 /\ v18 = 0 /\ v19 = 0 /\ v20 = 0
       \/ /\ part = "lists" /\ Lists!Init
       \/ /\ part = "backups" /\ Backup!Init
          /\ v13 = 0 /\ v14 = 0 /\ v15 = 0 /\ v16 = 0 /\ v17 = 0 /\ v18 = 0 /\ v19 = 0
          /\ v20 = 0
       \/ /\ part = "sql" /\ Sql!Init
          /\ v12 = 0 /\ v13 = 0 /\ v14 = 0 /\ v15 = 0 /\ v16 = 0 /\ v17 = 0 /\ v18 = 0
          /\ v19 = 0 /\ v20 = 0
       \/ /\ part = "rls" /\ Rls!Init
          /\ v20 = 0
       \/ /\ part = "jobs" /\ Queue!Init
          /\ v17 = 0 /\ v18 = 0 /\ v19 = 0 /\ v20 = 0
       \/ /\ part = "objects" /\ Objects!Init
          /\ v8 = 0 /\ v9 = 0 /\ v10 = 0 /\ v11 = 0 /\ v12 = 0 /\ v13 = 0 /\ v14 = 0
          /\ v15 = 0 /\ v16 = 0 /\ v17 = 0 /\ v18 = 0 /\ v19 = 0 /\ v20 = 0
       \/ /\ part = "templates" /\ Editor!Init
          /\ v13 = 0 /\ v14 = 0 /\ v15 = 0 /\ v16 = 0 /\ v17 = 0 /\ v18 = 0 /\ v19 = 0
          /\ v20 = 0
       \/ /\ part = "invoke" /\ Invoke!Init
          /\ v11 = 0 /\ v12 = 0 /\ v13 = 0 /\ v14 = 0 /\ v15 = 0 /\ v16 = 0 /\ v17 = 0
          /\ v18 = 0 /\ v19 = 0 /\ v20 = 0
       \/ /\ part = "rows" /\ Preview!Init
          /\ v10 = 0 /\ v11 = 0 /\ v12 = 0 /\ v13 = 0 /\ v14 = 0 /\ v15 = 0 /\ v16 = 0
          /\ v17 = 0 /\ v18 = 0 /\ v19 = 0 /\ v20 = 0
       \/ /\ part = "channels" /\ Channel!Init
          /\ v10 = 0 /\ v11 = 0 /\ v12 = 0 /\ v13 = 0 /\ v14 = 0 /\ v15 = 0 /\ v16 = 0
          /\ v17 = 0 /\ v18 = 0 /\ v19 = 0 /\ v20 = 0
       \/ /\ part = "presence" /\ Presence!Init
          /\ v17 = 0 /\ v18 = 0 /\ v19 = 0 /\ v20 = 0
       \/ /\ part = "changes" /\ Changes!Init
          /\ v17 = 0 /\ v18 = 0 /\ v19 = 0 /\ v20 = 0

ConsoleNext ==
    /\ UNCHANGED part
    /\ \/ /\ part = "logs" /\ Next
          /\ UNCHANGED <<v1, v2, v3, v4, v5, v6, v7, v8, v9, v10, v11, v12, v13, v14, v15, v16,
                         v17, v18, v19, v20>>
       \/ /\ part = "session" /\ Session!Next
          /\ UNCHANGED <<logVars, v15, v16, v17, v18, v19, v20>>
       \/ /\ part = "users" /\ Drawer!Next
          /\ UNCHANGED <<logVars, v14, v15, v16, v17, v18, v19, v20>>
       \/ /\ part = "lists" /\ Lists!Next
          /\ UNCHANGED <<logVars>>
       \/ /\ part = "backups" /\ Backup!Next
          /\ UNCHANGED <<logVars, v13, v14, v15, v16, v17, v18, v19, v20>>
       \/ /\ part = "sql" /\ Sql!Next
          /\ UNCHANGED <<logVars, v12, v13, v14, v15, v16, v17, v18, v19, v20>>
       \/ /\ part = "rls" /\ Rls!Next
          /\ UNCHANGED <<logVars, v20>>
       \/ /\ part = "jobs" /\ Queue!Next
          /\ UNCHANGED <<logVars, v17, v18, v19, v20>>
       \/ /\ part = "objects" /\ Objects!Next
          /\ UNCHANGED <<logVars, v8, v9, v10, v11, v12, v13, v14, v15, v16, v17, v18, v19,
                         v20>>
       \/ /\ part = "templates" /\ Editor!Next
          /\ UNCHANGED <<logVars, v13, v14, v15, v16, v17, v18, v19, v20>>
       \/ /\ part = "invoke" /\ Invoke!Next
          /\ UNCHANGED <<logVars, v11, v12, v13, v14, v15, v16, v17, v18, v19, v20>>
       \/ /\ part = "rows" /\ Preview!Next
          /\ UNCHANGED <<logVars, v10, v11, v12, v13, v14, v15, v16, v17, v18, v19, v20>>
       \/ /\ part = "channels" /\ Channel!Next
          /\ UNCHANGED <<logVars, v10, v11, v12, v13, v14, v15, v16, v17, v18, v19, v20>>
       \/ /\ part = "presence" /\ Presence!Next
          /\ UNCHANGED <<logVars, v17, v18, v19, v20>>
       \/ /\ part = "changes" /\ Changes!Next
          /\ UNCHANGED <<logVars, v17, v18, v19, v20>>

ConsoleSpec == ConsoleInit /\ [][ConsoleNext]_consoleVars

-----------------------------------------------------------------------------
(* The session: the form of the login page is disabled only while a login  *)
(* it sent is in flight; after a logout, whatever came of it, the store is *)
(* empty until someone asks again; the menu marks the entry chosen.        *)
SessionIsTold ==
    part = "session" =>
        /\ Session!TypeOK
        /\ Session!FormIsReleased
        /\ Session!SignedOutIsOut
        /\ Session!MenuFollows

(* What cannot be taken back has a cause: the guard turns an operator away *)
(* only after the server, or a failure, said so, or when it runs next to a *)
(* request of another; a run that may write was begun after a dialog       *)
(* allowed it, and the switch has not been turned back before; and whom    *)
(* the broker sends a change may read its row at that step, unless its     *)
(* token changed while the database was asked.                             *)
StepsHaveCause ==
    [][/\ part = "session" /\ Session!TurnedAway => Session!HasCause
       /\ part = "sql" => ~Sql!WriteWithoutConsent
       /\ part = "changes" => Changes!PushIsAllowed]_consoleVars

(* The lists: at rest and without an error the rows are those of the query *)
(* on the screen; a later page is one turned to under this search and      *)
(* these filters; a confirmed action shows once the list came back; what   *)
(* is typed is asked for once the timer has run.                           *)
ListIsOfQuery ==
    part = "lists" =>
        /\ Lists!SettledShowsCurrent
        /\ Lists!OffsetBelongsToQuery
        /\ Lists!ReadsOwnWrites
        /\ Lists!TextReachesQuery

(* What runs in the background is followed: a backup the page shows        *)
(* running is polled for, and nothing is once none is or the page is left; *)
(* an open drawer says what the list says; however old the copies are that *)
(* operators act on, one end of a job is answered by one retry; and the    *)
(* list comes to show what was done.                                       *)
OperationsAreFollowed ==
    /\ part = "backups" => Backup!RunningIsWatched /\ Backup!DrawerFollowsList
    /\ part = "jobs" => Queue!OneRetryPerEnd /\ Queue!ActionsAreListed

(* The pages of the database: a result is that of the last run, which      *)
(* heads the history; a dry run's verdict compares two results of one run; *)
(* the tables are the schema's and the policies the table's.  Each unless  *)
(* requests overlapped or came in another order.                           *)
ResultsAreOfTheirRun ==
    /\ part = "sql" => Sql!ResultIsOfLastRun /\ Sql!ResultHeadsHistory
    /\ part = "rls" =>
           /\ Rls!VerdictComparesOneRun
           /\ Rls!TablesAreOfSchema
           /\ Rls!PoliciesAreOfTable

(* What a page shows under a name is of that name: the detail in a user's  *)
(* drawer is the selected user's, shows at rest what our confirmed actions *)
(* did, and an action is on the user that its dialog named; a signed URL   *)
(* is the one asked for last; the draft of a template was begun from its   *)
(* text and is the server's when there is nothing to save; a response is   *)
(* the last run's and the method one the function takes; the rows of a     *)
(* table are those of the role in the switcher.  Each unless its answers   *)
(* came late or in another order.                                          *)
PanelIsOfItsSubject ==
    /\ part = "users" =>
           /\ Drawer!DetailIsSelected
           /\ Drawer!ActionsAreShown
           /\ Drawer!ActsOnWhomItNamed
    /\ part = "objects" => Objects!UrlIsTheLastAsked
    /\ part = "templates" => Editor!DraftIsOfTemplate /\ Editor!NothingToSave
    /\ part = "invoke" => Invoke!ResponseIsOfTheRun /\ Invoke!MethodIsAllowed
    /\ part = "rows" => Preview!RowsAreUnderRole

(* The live pages: of the streams opened on the channel page only the one  *)
(* shown is open, and its list ends with the event taken last; the log     *)
(* shows what matches its filter, all of it when it has caught up, and no  *)
(* stream outlives the page unless its timer ran as it was left.           *)
StreamsAreTails ==
    /\ part = "channels" => Channel!StreamsAreTheTail /\ Channel!EventsAreTheLatest
    /\ TypeOK /\ RowsMatchFilter /\ CaughtUpIsComplete /\ NoStreamIsLeft

(* The broker: who reads its queue to the end knows who is on the topic,   *)
(* unless a full queue dropped the news; nobody is there who is not joined *)
(* and connected; and a subscriber that stays entitled to a change gets it *)
(* once, under its one channel for it.                                     *)
SubscribersAreTold ==
    /\ part = "presence" => Presence!PresenceIsTold /\ Presence!NobodyIsLeft
    /\ part = "changes" => Changes!ChangesArrive

=============================================================================
