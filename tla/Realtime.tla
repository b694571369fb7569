------------------------------ MODULE Realtime ------------------------------
(***************************************************************************)
(* The broker of one process, the websockets that speak to it and the      *)
(* event streams of the operator's inspector, which are connections of it  *)
(* too.  What the code does between two awaits is one action: the broker's *)
(* lock is never held over an await.  A row's change is a task of its own, *)
(* which collects its recipients and then asks the database, one recipient *)
(* after the other, whether their role may read the row.                   *)
(***************************************************************************)
EXTENDS Naturals, FiniteSets, Sequences

CONSTANTS
    Sockets,         \* websocket connections, each opened once
    Taps,            \* streams of the inspector
    Topics,          \* realtime:<name>
    Users,           \* owners of rows
    Idents,          \* who a websocket may be: of Users, Anon and Service
    Filters,         \* sets of kinds of change that a join may ask for
    MaxConnections,  \* realtime_max_connections
    MaxSubs,         \* realtime_max_subs_per_conn
    QueueSize,       \* realtime_broker_queue_size
    MaxJoins, MaxTracks, MaxChanges, MaxTokens, MaxCasts   \* bounds

Conns == Sockets \cup Taps
Service == "service_role"
Anon == "anon"
NoTopic == "none"
AtTables == "tap"
NoToken == "absent"
Kinds == {"write", "delete"}
NoOne == [conn |-> NoTopic, id |-> 0]
NoView == {NoOne}    \* no presence_state read yet

RealtimeAssumption ==
    /\ Sockets \cap Taps = {} /\ {NoTopic, AtTables} \cap Topics = {}
    /\ {Anon, Service, NoToken} \cap Users = {} /\ Idents \subseteq Users \cup {Anon, Service}
    /\ Filters \subseteq SUBSET Kinds
    /\ QueueSize \in Nat \ {0}

VARIABLES
    conn,         \* "new", "open", "leaked" (registered, with nobody behind it), "gone"
    ident,        \* role and claims, as who they are
    expired,      \* is_token_expired
    subs,         \* Connection.subscriptions, as a set: the dict has the order of the joins,
                  \* which their ids number
    presence,     \* per topic, the entries [conn, n]
    outbound,     \* the bounded queue
    busy,         \* the topic whose join is between subscribe and presence_state,
                  \* or AtTables for a stream between register and subscribe
    cached,       \* the table's row is in _registry_cache
    tasks,        \* _fanout_change of the n-th change
    joins, tracks, tokens, casts,
    view,         \* history: presence, as the frames read so far tell it
    lossy,        \* history: topics whose presence frames were dropped and not made good
    sent          \* history: <<connection, topic, id>> of the frames of each change

\* who is connected, to what
sessionVars == <<conn, ident, expired, subs, busy, joins, tokens>>
dataVars == <<presence, outbound, cached, tasks, tracks, casts, view, lossy, sent>>
rtVars == <<sessionVars, dataVars>>

Init ==
    /\ conn = [c \in Conns |-> "new"]
    /\ ident = [c \in Conns |-> Service] /\ expired = [c \in Conns |-> FALSE]
    /\ subs = [c \in Conns |-> {}]
    /\ presence = [t \in Topics |-> {}]
    /\ outbound = [c \in Conns |-> <<>>]
    /\ busy = [c \in Conns |-> NoTopic]
    /\ cached = FALSE
    /\ tasks = <<>>
    /\ joins = 0 /\ tracks = 0 /\ tokens = 0 /\ casts = 0
    /\ view = [c \in Sockets |-> [t \in Topics |-> NoView]]
    /\ lossy = [c \in Conns |-> {}]
    /\ sent = <<>>

-----------------------------------------------------------------------------
(* Queues.                                                                 *)

\* _enqueue, one frame after the other: the oldest make room
Latest(q) == IF Len(q) <= QueueSize THEN q ELSE SubSeq(q, Len(q) - QueueSize + 1, Len(q))

Tells(f, kinds, t) == f.kind \in kinds /\ f.topic = t
Of(frames, kinds, t) == \E i \in DOMAIN frames : Tells(frames[i], kinds, t)

\* Puts news[c] behind what is queued for each c.  A presence frame lost is
\* made good by a presence_state that is behind it.
SendBehind(queued, news) ==
    LET all(c) == queued[c] \o news[c]
        lost(c) == SubSeq(all(c), 1, Len(all(c)) - QueueSize)
    IN  /\ outbound' = [c \in Conns |-> Latest(all(c))]
        /\ lossy' = [c \in Conns |->
              {t \in Topics :
                 /\ ~Of(outbound'[c], {"state"}, t)
                 /\ t \in lossy[c] \/ Of(lost(c), {"state", "diff"}, t)}]

Send(news) == SendBehind(outbound, news)

Nothing == [c \in Conns |-> <<>>]
Open == {c \in Conns : conn[c] = "open"}
Registered == {c \in Conns : conn[c] \in {"open", "leaked"}}

\* _topics and subscriptions are two indexes of the same
Joined(c, t) == \E s \in subs[c] : s.topic = t
Others(c, t) == {s \in subs[c] : s.topic # t}
First(channels) == CHOOSE s \in channels : \A r \in channels : s.id <= r.id
Peers(t) == {c \in Conns : Joined(c, t)}

State(t, entries) == [kind |-> "state", topic |-> t, joins |-> entries, leaves |-> {}]
Diff(t, new, old) == [kind |-> "diff", topic |-> t, joins |-> new, leaves |-> old]
Cast(t) == [kind |-> "broadcast", topic |-> t]
Change(n, t, id) == [kind |-> "change", topic |-> t, n |-> n, id |-> id]

Mine(c, t) == {e \in presence[t] : e.conn = c}

\* mutant of LeavesOf: who leaves says nothing
LeavesOf_Silent(c, t) == Nothing

\* _unsubscribe_locked: c no longer hears of its own entries
LeavesOf(c, t) ==
    [d \in Conns |->
        IF d \in Peers(t) \ {c} /\ Mine(c, t) # {} THEN <<Diff(t, {}, Mine(c, t))>> ELSE <<>>]

\* mutant of WithoutMine: the entries stay when their connection leaves
WithoutMine_Kept(c, T) == presence

WithoutMine(c, T) == [t \in Topics |-> IF t \in T THEN presence[t] \ Mine(c, t) ELSE presence[t]]

-----------------------------------------------------------------------------
(* Changes.                                                                *)

Wants(s, k) == k.kind \in s.wants
Matching(c, k) == {s \in subs[c] : Wants(s, k)}

\* _authorize, as far as it goes without asking the database
NeedsProbe(c, k) == ident[c] # Service /\ ~expired[c] /\ k.kind = "write"

\* mutant of Allowed: the expiry of the token is not looked at
Allowed_Expired(c, k) == ident[c] \in {Service, k.owner}

Allowed(c, k) == ident[c] = Service \/ (ident[c] = k.owner /\ ~expired[c])

\* who may read the row, and says so with a token that is good
Entitled(c, k) == \/ ident[c] = Service
                  \/ ident[c] = k.owner /\ ~expired[c]

\* The connections that must get a change, and as what: they have one channel
\* for it and may read the row, and nothing of that changed after the collection.
Owed(k) ==
    UNION {{<<c, s.topic, s.id>> : s \in {r \in subs[c] : Matching(c, k) = {r}}} :
           c \in {d \in Open : Entitled(d, k)}}

Without(owed, c) == {p \in owed : p[1] # c}

\* History: c, or its token, is another than it was, so that the tasks under
\* way owe it nothing; and a probe for it speaks of the token it had.
Disturb(c, token) ==
    tasks' = [n \in DOMAIN tasks |->
        [tasks[n] EXCEPT !.owed = IF tasks[n].pc = "done" THEN @ ELSE Without(@, c),
                         !.turned = @ \/ (token /\ tasks[n].at.conn = c)]]

\* mutant of TopicFor: the topic of the first channel, whatever it wants
TopicFor_First(c, k) == IF subs[c] = {} THEN NoTopic ELSE First(subs[c]).topic

\* _topic_for, asked again when the frame is made
TopicFor(c, k) ==
    IF Matching(c, k) # {} THEN First(Matching(c, k)).topic
    ELSE IF subs[c] # {} THEN First(subs[c]).topic
    ELSE NoTopic

\* the snapshot of recipients, in no order: the code takes them as they registered
Collected(k) ==
    LET all == UNION {{[conn |-> c, id |-> s.id] : s \in Matching(c, k)} : c \in Open}
    IN  [k EXCEPT !.pc = IF all = {} THEN "done" ELSE "next", !.rest = all, !.owed = Owed(k)]

\* The listener starts a task for the trigger's pg_notify, which goes on to
\* the collection unless it has to ask for the registry's row.
Notify(kind, owner) ==
    /\ Len(tasks) < MaxChanges
    /\ LET k == [pc |-> "lookup", kind |-> kind, owner |-> owner, rest |-> {}, at |-> NoOne,
                 as |-> Anon, turned |-> FALSE, owed |-> {}]
       IN  tasks' = Append(tasks, IF cached THEN Collected(k) ELSE k)
    /\ sent' = Append(sent, <<>>)
    /\ UNCHANGED <<sessionVars, cached, presence, outbound, lossy, tracks, casts, view>>

\* _lookup_registry answers
Lookup(n) ==
    /\ tasks[n].pc = "lookup"
    /\ cached' = TRUE
    /\ tasks' = [tasks EXCEPT ![n] = Collected(@)]
    /\ UNCHANGED <<sessionVars, presence, outbound, lossy, tracks, casts, view, sent>>

\* the loop goes on
Onward(k, e) ==
    [k EXCEPT !.rest = @ \ {e}, !.pc = IF k.rest = {e} THEN "done" ELSE "next",
              !.at = NoOne, !.as = Anon, !.turned = FALSE]

Push(n, e) ==
    LET topic == TopicFor(e.conn, tasks[n])
    IN  /\ tasks' = [tasks EXCEPT ![n] = Onward(@, e)]
        /\ IF conn[e.conn] = "open"
           THEN /\ Send([Nothing EXCEPT ![e.conn] = <<Change(n, topic, e.id)>>])
                /\ sent' = [sent EXCEPT ![n] = Append(@, <<e.conn, topic, e.id>>)]
           ELSE UNCHANGED <<outbound, lossy, sent>>

Skip(n, e) ==
    /\ tasks' = [tasks EXCEPT ![n] = Onward(@, e)]
    /\ UNCHANGED <<outbound, lossy, sent>>

Authorize(n, e) ==
    /\ tasks[n].pc = "next"
    /\ IF NeedsProbe(e.conn, tasks[n])
       THEN /\ tasks' = [tasks EXCEPT ![n].pc = "probe", ![n].at = e, ![n].as = ident[e.conn]]
            /\ UNCHANGED <<outbound, lossy, sent>>
       ELSE IF Allowed(e.conn, tasks[n]) THEN Push(n, e) ELSE Skip(n, e)
    /\ UNCHANGED <<sessionVars, cached, presence, tracks, casts, view>>

\* rls_check answers: the policy says yes to the owner, and no may also be a
\* timeout or an exception
Probed(n, yes) ==
    LET e == tasks[n].at
    IN  /\ tasks[n].pc = "probe"
        /\ yes => tasks[n].as = tasks[n].owner
        /\ IF yes
           THEN Push(n, e)
           ELSE /\ LET k == Onward(tasks[n], e)
                   IN  tasks' = [tasks EXCEPT
                                   ![n] = [k EXCEPT !.owed = Without(k.owed, e.conn)]]
                /\ UNCHANGED <<outbound, lossy, sent>>
        /\ UNCHANGED <<sessionVars, cached, presence, tracks, casts, view>>

-----------------------------------------------------------------------------
(* Connections and their messages.  A reader takes its next message when   *)
(* it is done with the last; of what it does with it only a join awaits.   *)

\* register, for a websocket or a stream of the inspector
Register(c, i) ==
    /\ conn[c] = "new" /\ Cardinality(Registered) < MaxConnections
    /\ busy' = [busy EXCEPT ![c] = IF c \in Taps THEN AtTables ELSE NoTopic]
    /\ conn' = [conn EXCEPT ![c] = "open"]
    /\ ident' = [ident EXCEPT ![c] = i]
    /\ UNCHANGED <<expired, subs, joins, tokens, dataVars>>

\* what d hears when c leaves its topics, in the order c joined them
Farewells(c, d) ==
    LET F[i \in 0 .. joins] ==
            IF i = 0 THEN <<>>
            ELSE IF \E s \in subs[c] : s.id = i
                 THEN F[i - 1] \o LeavesOf(c, (CHOOSE s \in subs[c] : s.id = i).topic)[d]
                 ELSE F[i - 1]
    IN  F[joins]

\* unregister, when the socket or the stream has ended, for whatever reason
Unregister(c) ==
    /\ conn[c] = "open"
    /\ conn' = [conn EXCEPT ![c] = "gone"]
    /\ subs' = [subs EXCEPT ![c] = {}] /\ busy' = [busy EXCEPT ![c] = NoTopic]
    /\ presence' = WithoutMine(c, Topics)
    /\ SendBehind([outbound EXCEPT ![c] = <<>>], [d \in Conns |-> Farewells(c, d)])
    /\ view' = [d \in Sockets |-> IF d = c THEN [t \in Topics |-> NoView] ELSE view[d]]
    /\ Disturb(c, FALSE)
    /\ UNCHANGED <<ident, expired, joins, tokens, cached, tracks, casts, sent>>

\* _inspect_events is cancelled while it reads the tables: the handler that
\* would unregister is for an Exception, which CancelledError is not
Cut(c) ==
    /\ busy[c] = AtTables
    /\ conn' = [conn EXCEPT ![c] = "leaked"] /\ busy' = [busy EXCEPT ![c] = NoTopic]
    /\ UNCHANGED <<ident, expired, subs, joins, tokens, dataVars>>

Free(c) == conn[c] = "open" /\ busy[c] = NoTopic

\* subscribe: what was there on the topic goes first
Subscribe(c, t, wants) ==
    /\ joins < MaxJoins /\ joins' = joins + 1
    /\ subs' = [subs EXCEPT ![c] =
          Others(c, t) \cup {[topic |-> t, id |-> joins + 1, wants |-> wants]}]
    /\ presence' = WithoutMine(c, {t})
    /\ Send(LeavesOf(c, t))

TapSubscribe(c, t) ==
    /\ busy[c] = AtTables
    /\ Subscribe(c, t, Kinds)
    /\ busy' = [busy EXCEPT ![c] = NoTopic]
    /\ Disturb(c, FALSE)
    /\ UNCHANGED <<conn, ident, expired, tokens, cached, tracks, casts, view, sent>>

\* update_claims; a token that is refused changes nothing
Rotate(c, i) ==
    /\ tokens < MaxTokens /\ tokens' = tokens + 1
    /\ ident' = [ident EXCEPT ![c] = i] /\ expired' = [expired EXCEPT ![c] = FALSE]

Total(c, wants) ==
    Cardinality({s \in subs[c] : s.wants # {}}) + IF wants = {} THEN 0 ELSE 1

\* _handle_join up to its reply.  The token, if there is one, is taken before
\* the cap is looked at, and the cap counts the channel that the join replaces.
Join(c, t, wants, token) ==
    /\ Free(c)
    /\ IF token = NoToken THEN UNCHANGED <<ident, expired, tokens>> ELSE Rotate(c, token)
    /\ \/ /\ Total(c, wants) <= MaxSubs
          /\ Subscribe(c, t, wants)
          /\ busy' = [busy EXCEPT ![c] = t]
       \/ /\ Total(c, wants) > MaxSubs /\ token # NoToken
          /\ UNCHANGED <<joins, subs, presence, outbound, lossy, busy>>
    /\ Disturb(c, token # NoToken)
    /\ UNCHANGED <<conn, cached, tracks, casts, view, sent>>

\* the reply is written; push_presence_state
Reply(c) ==
    /\ busy[c] \in Topics
    /\ Send([Nothing EXCEPT ![c] = <<State(busy[c], presence[busy[c]])>>])
    /\ busy' = [busy EXCEPT ![c] = NoTopic]
    /\ UNCHANGED <<conn, ident, expired, subs, joins, tokens, cached, presence, tasks, tracks,
                   casts, view, sent>>

\* the client drops what it knows of the channel at the phx_close
Leave(c, t) ==
    /\ Free(c) /\ Joined(c, t)
    /\ subs' = [subs EXCEPT ![c] = Others(c, t)]
    /\ presence' = WithoutMine(c, {t})
    /\ Send(LeavesOf(c, t))
    /\ view' = [view EXCEPT ![c][t] = NoView]
    /\ Disturb(c, FALSE)
    /\ UNCHANGED <<conn, ident, expired, busy, joins, tokens, cached, tracks, casts, sent>>

AccessToken(c, i) ==
    /\ Free(c) /\ c \in Sockets
    /\ Rotate(c, i) /\ Disturb(c, TRUE)
    /\ UNCHANGED <<conn, subs, busy, joins, cached, presence, outbound, lossy, tracks, casts,
                   view, sent>>

Expire(c) ==
    /\ conn[c] = "open" /\ c \in Sockets /\ ident[c] # Anon /\ ~expired[c]
    /\ expired' = [expired EXCEPT ![c] = TRUE]
    /\ Disturb(c, TRUE)
    /\ UNCHANGED <<conn, ident, subs, busy, joins, tokens, cached, presence, outbound, lossy,
                   tracks, casts, view, sent>>

MaySpeak(c, t) == Free(c) /\ c \in Sockets /\ Joined(c, t) /\ ~expired[c]

\* _handle_presence, track: everybody on the topic hears of it, c included
Track(c, t) ==
    /\ MaySpeak(c, t) /\ tracks < MaxTracks
    /\ tracks' = tracks + 1
    /\ LET e == [conn |-> c, n |-> tracks + 1]
       IN  /\ presence' = [presence EXCEPT ![t] = @ \cup {e}]
           /\ Send([d \in Conns |-> IF d \in Peers(t) THEN <<Diff(t, {e}, {})>> ELSE <<>>])
    /\ UNCHANGED <<sessionVars, cached, tasks, casts, view, sent>>

Untrack(c, t) ==
    /\ MaySpeak(c, t) /\ Mine(c, t) # {}
    /\ presence' = WithoutMine(c, {t})
    /\ Send([d \in Conns |-> IF d \in Peers(t) THEN <<Diff(t, {}, Mine(c, t))>> ELSE <<>>])
    /\ UNCHANGED <<sessionVars, cached, tasks, tracks, casts, view, sent>>

\* broadcast, by a peer that does not hear itself, by one that does, or by REST
Broadcast(t, others) ==
    /\ casts < MaxCasts /\ casts' = casts + 1
    /\ Send([d \in Conns |-> IF d \in others THEN <<Cast(t)>> ELSE <<>>])
    /\ UNCHANGED <<sessionVars, cached, presence, tasks, tracks, view, sent>>

\* What a client makes of a frame: of the presence on a topic a state replaces
\* what it has seen, and a diff changes it.
Heard(seen, f, t) ==
    IF Tells(f, {"state"}, t) THEN f.joins
    ELSE IF Tells(f, {"diff"}, t) /\ seen # NoView THEN (seen \ f.leaves) \cup f.joins
    ELSE seen

\* _drain, or the loop of the stream
Drain(c) ==
    /\ conn[c] = "open" /\ outbound[c] # <<>> /\ busy[c] # AtTables
    /\ outbound' = [outbound EXCEPT ![c] = Tail(@)]
    /\ view' = [d \in Sockets |-> [t \in Topics |->
                   IF d = c THEN Heard(view[d][t], Head(outbound[c]), t) ELSE view[d][t]]]
    /\ UNCHANGED <<sessionVars, cached, presence, tasks, lossy, tracks, casts, sent>>

Next ==
    \/ \E kind \in Kinds, u \in Users : Notify(kind, u)
    \/ \E n \in DOMAIN tasks :
          \/ Lookup(n)
          \/ \E e \in tasks[n].rest : Authorize(n, e)
          \/ \E yes \in BOOLEAN : Probed(n, yes)
    \/ \E c \in Conns :
          \/ \E i \in IF c \in Taps THEN {Service} ELSE Idents : Register(c, i)
          \/ Unregister(c) \/ Cut(c) \/ Reply(c) \/ Expire(c) \/ Drain(c)
          \/ \E i \in Idents : AccessToken(c, i)
    \/ \E c \in Taps, t \in Topics : TapSubscribe(c, t)
    \/ \E c \in Sockets, t \in Topics, wants \in Filters, i \in Idents \cup {NoToken} :
          Join(c, t, wants, i)
    \/ \E c \in Sockets, t \in Topics : Leave(c, t) \/ Track(c, t) \/ Untrack(c, t)
    \/ \E t \in Topics :
          \/ Broadcast(t, Peers(t))
          \/ \E c \in Sockets : MaySpeak(c, t) /\ Broadcast(t, Peers(t) \ {c})

Spec == Init /\ [][Next]_rtVars

-----------------------------------------------------------------------------
\* what a client that has seen so much makes of the frames, one after the other
Told(seen, frames, t) ==
    LET F[i \in 0 .. Len(frames)] == IF i = 0 THEN seen ELSE Heard(F[i - 1], frames[i], t)
    IN  F[Len(frames)]

(***************************************************************************)
(* presence_diff and presence_state: what a client that reads its queue to *)
(* the end makes of the presence on a topic it has joined is what the      *)
(* broker has, unless a full queue dropped a frame and no new state came.  *)
(***************************************************************************)
PresenceIsTold ==
    \A c \in Sockets, t \in Topics :
        conn[c] = "open" /\ Joined(c, t) /\ busy[c] # t /\ t \notin lossy[c] =>
            Told(view[c][t], outbound[c], t) = presence[t]

(***************************************************************************)
(* Nothing refers to a connection that ended, and only those that joined a *)
(* topic are present on it.                                                *)
(***************************************************************************)
NobodyIsLeft ==
    \A t \in Topics : \A e \in presence[t] : conn[e.conn] = "open" /\ Joined(e.conn, t)

SentTo(n, c) == {i \in DOMAIN sent[n] : sent[n][i][1] = c}

(***************************************************************************)
(* The change of a row is pushed to whoever stays entitled to it with one  *)
(* channel for it: once, under this channel and the id of its join, and    *)
(* it has been when the task is over.                                      *)
(***************************************************************************)
ChangesArrive ==
    \A n \in DOMAIN tasks : \A p \in tasks[n].owed :
        \/ SentTo(n, p[1]) = {} /\ tasks[n].pc # "done"
        \/ \E i \in SentTo(n, p[1]) : SentTo(n, p[1]) = {i} /\ sent[n][i] = p

(***************************************************************************)
(* Row-level security: who is pushed a change may read the row now, unless *)
(* its token was rotated, or expired, while the database was asked.        *)
(***************************************************************************)
PushIsAllowed ==
    \A n \in DOMAIN tasks :
        sent'[n] # sent[n] =>
            LET c == sent'[n][Len(sent'[n])][1]
            IN  Entitled(c, tasks[n]) \/ tasks[n].turned

PushesAreAllowed == [][PushIsAllowed]_rtVars

-----------------------------------------------------------------------------
(* What is inductive.                                                      *)

IsSeq(s) == s \in Seq({s[i] : i \in DOMAIN s})

\* A channel has the number of its join, and whoever has not come to subscribe
\* has none.
SubsInv ==
    /\ DOMAIN conn = Conns /\ DOMAIN subs = Conns /\ DOMAIN busy = Conns
    /\ joins \in Nat
    /\ \A c \in Conns :
          /\ conn[c] = "new" \/ busy[c] = AtTables => subs[c] = {}
          /\ busy[c] # NoTopic => conn[c] = "open"
          /\ \A s \in subs[c] : s.id \in 1 .. joins /\ s.topic \in Topics
          /\ \A r, s \in subs[c] : r.id = s.id => r = s

Entries == [conn : Conns, n : Nat]
Views == SUBSET (Entries \cup {NoOne})

Frames(q) ==
    /\ IsSeq(q)
    /\ \A i \in DOMAIN q : q[i].kind \in {"state", "diff"} => q[i].joins \in SUBSET Entries

\* Presence is of the joined, and what is queued tells of it, but for the
\* topics whose state is not in the queue that lost some of it.
PresenceInv ==
    /\ tracks \in Nat
    /\ presence \in [Topics -> SUBSET Entries] /\ view \in [Sockets -> [Topics -> Views]]
    /\ DOMAIN outbound = Conns /\ DOMAIN lossy = Conns
    /\ \A c \in Conns :
          /\ Frames(outbound[c])
          /\ \A t \in lossy[c] : ~Of(outbound[c], {"state"}, t)
    /\ NobodyIsLeft /\ PresenceIsTold

\* A task knows registered connections alone; and while the database is
\* asked about one, it has the good token it is asked with, or was turned.
TaskInv(k) ==
    /\ DOMAIN k = {"pc", "kind", "owner", "rest", "at", "as", "turned", "owed"}
    /\ \A e \in k.rest : e.conn \in Conns /\ conn[e.conn] # "new"
    /\ k.pc = "probe" =>
          /\ k.at.conn \in Conns /\ conn[k.at.conn] # "new"
          /\ k.turned \/ (ident[k.at.conn] = k.as /\ ~expired[k.at.conn])

TasksInv ==
    /\ DOMAIN conn = Conns /\ DOMAIN ident = Conns /\ DOMAIN expired = Conns
    /\ IsSeq(tasks) /\ IsSeq(sent) /\ Len(sent) = Len(tasks)
    /\ \A n \in DOMAIN sent : IsSeq(sent[n])
    /\ \A n \in DOMAIN tasks : TaskInv(tasks[n])

\* whom k owes the change as p may still read it and has the one channel for it
StillOwed(k, p) ==
    /\ conn[p[1]] = "open" /\ Entitled(p[1], k)
    /\ \E s \in subs[p[1]] : Matching(p[1], k) = {s} /\ p = <<p[1], s.topic, s.id>>

RestOf(k, c) == {e \in k.rest : e.conn = c}

\* either k will come to the recipient p, once, or it has sent it p, once
Delivered(n, p) ==
    \/ /\ RestOf(tasks[n], p[1]) = {[conn |-> p[1], id |-> p[3]]}
       /\ SentTo(n, p[1]) = {}
    \/ /\ RestOf(tasks[n], p[1]) = {}
       /\ \E i \in SentTo(n, p[1]) : SentTo(n, p[1]) = {i} /\ sent[n][i] = p

OwedTo(n) ==
    /\ tasks[n].pc = "lookup" => tasks[n].owed = {} /\ sent[n] = <<>>
    /\ tasks[n].pc = "done" => tasks[n].rest = {}
    /\ tasks[n].pc = "probe" => tasks[n].at \in tasks[n].rest
    /\ \A p \in tasks[n].owed :
          /\ p[1] \in Conns /\ Delivered(n, p)
          /\ tasks[n].pc # "done" => StillOwed(tasks[n], p)

BrokerInv ==
    /\ SubsInv /\ PresenceInv /\ TasksInv
    /\ \A n \in DOMAIN tasks : OwedTo(n)
=============================================================================
