------------------------------ MODULE LogTail -------------------------------
(***************************************************************************)
(* The live log of the console: the server's ring of log entries, the      *)
(* event stream that polls it, and the page with its filter, its pause and *)
(* its two buffers.                                                        *)
(***************************************************************************)
EXTENDS Naturals, Sequences

CONSTANTS
    MaxRows,      \* rows the page keeps, and entries the ring keeps
    MaxEntries,   \* bound: entries logged
    MaxSources    \* bound: event streams opened

ASSUME RowsAssumption == MaxRows \in Nat \ {0} /\ MaxEntries \in Nat

VARIABLES
    ring, logged,    \* the server's entries, oldest first, and how many ever
    level,           \* the filter on the page
    timer,           \* the debounce of a change of the filter is armed
    mounted, paused,
    source,          \* the EventSource: [f, st, from], st "none" without one
    opened,
    rows, pending,
    cleared,         \* history: the entries logged up to the last clear
    mixed,           \* history: the last snapshot came while entries were pending
    late             \* history: the page was left with the timer armed

logVars == <<ring, logged, level, timer, mounted, paused, source, opened, rows, pending,
             cleared, mixed, late>>

Levels == {"all", "error"}
Kinds == {"info", "error"}
\* ts is never 0, the empty timestamp; tie: an earlier one has it too
Entries == [id : 1 .. MaxEntries, kind : Kinds, ts : 1 .. MaxEntries, tie : BOOLEAN]
NoSource == [f |-> "all", st |-> "none", from |-> 0]

Matches(e, f) == f = "all" \/ e.kind = f
\* SelectSeq, as a recursive function that proofs can use: the members of T in s
Select(s, T) ==
    LET taken[i \in 0 .. Len(s)] ==
            IF i = 0 THEN <<>>
            ELSE IF s[i] \in T THEN Append(taken[i - 1], s[i]) ELSE taken[i - 1]
    IN  taken[Len(s)]

Matching(s, f) == Select(s, {e \in Entries : Matches(e, f)})
Suffix(s, n) == SubSeq(s, Len(s) - n + 1, Len(s))

\* mutant of Newest: a full buffer keeps what it has
Newest_First(s) == IF Len(s) > MaxRows THEN SubSeq(s, 1, MaxRows) ELSE s

Newest(s) == IF Len(s) > MaxRows THEN Suffix(s, MaxRows) ELSE s

Opening(f) == [f |-> f, st |-> "connecting", from |-> 0]

Init ==
    /\ ring = <<>> /\ logged = 0
    /\ level = "all" /\ timer = FALSE
    /\ mounted = TRUE /\ paused = FALSE
    /\ source = Opening("all") /\ opened = 1
    /\ rows = <<>> /\ pending = <<>>
    /\ cleared = 0 /\ mixed = FALSE /\ late = FALSE

serverVars == <<ring, logged>>
pageVars == <<level, timer, mounted, paused, opened, late>>

-----------------------------------------------------------------------------
(* The server.                                                             *)

NewestTime(s) == IF s = <<>> THEN 0 ELSE s[Len(s)].ts

\* the ring drops its oldest entry; two entries may bear one timestamp
Log(k, tie) ==
    /\ logged < MaxEntries
    /\ tie => ring # <<>>
    /\ logged' = logged + 1
    /\ ring' = Newest(Append(ring, [id |-> logged + 1, kind |-> k, tie |-> tie,
                                    ts |-> NewestTime(ring) + (IF tie THEN 0 ELSE 1)]))
    /\ UNCHANGED <<pageVars, source, rows, pending, cleared, mixed>>

\* a stream that begins, and one that began on an empty ring, sends all
Snapshot ==
    /\ source.st = "open" /\ source.from = 0
    /\ rows' = Matching(ring, source.f)
    /\ source' = [source EXCEPT !.from = NewestTime(ring)]
    /\ mixed' = (pending # <<>>)
    /\ UNCHANGED <<serverVars, pageVars, pending, cleared>>

\* mutant of Held: a paused page drops what comes
Held_Dropped(s) == pending

Held(s) == Newest(pending \o s)

\* the entries after the last timestamp that the stream has seen
Fresh == Select(ring, {e \in Entries : e.ts > source.from})

Poll ==
    /\ source.st = "open" /\ source.from # 0 /\ Fresh # <<>>
    /\ LET s == Matching(Fresh, source.f)
       IN  IF paused
           THEN pending' = Held(s) /\ rows' = rows
           ELSE rows' = Newest(rows \o s) /\ pending' = pending
    /\ source' = [source EXCEPT !.from = NewestTime(ring)]
    /\ UNCHANGED <<serverVars, pageVars, cleared, mixed>>

\* the browser opens a lost stream again, as a new one
Connected ==
    /\ source.st = "connecting"
    /\ source' = [source EXCEPT !.st = "open", !.from = 0]
    /\ UNCHANGED <<serverVars, pageVars, rows, pending, cleared, mixed>>

Lost ==
    /\ source.st = "open"
    /\ source' = [source EXCEPT !.st = "connecting"]
    /\ UNCHANGED <<serverVars, pageVars, rows, pending, cleared, mixed>>

\* refused: the browser gives up, and the page goes on waiting
Refused ==
    /\ source.st = "connecting"
    /\ source' = [source EXCEPT !.st = "closed"]
    /\ UNCHANGED <<serverVars, pageVars, rows, pending, cleared, mixed>>

-----------------------------------------------------------------------------
(* The page.                                                               *)

\* each change of an input starts the timer afresh
SetLevel(f) ==
    /\ mounted /\ f # level
    /\ level' = f /\ timer' = TRUE
    /\ UNCHANGED <<serverVars, mounted, paused, source, opened, rows, pending, cleared,
                   mixed, late>>

\* mutant of Emptied: what is pending is left for the next stream
Emptied_RowsOnly == rows' = <<>> /\ UNCHANGED pending

Emptied == rows' = <<>> /\ pending' = <<>>

\* on a page that was left as well
reconnect ==
    /\ timer /\ opened < MaxSources
    /\ timer' = FALSE
    /\ source' = Opening(level) /\ opened' = opened + 1
    /\ Emptied
    /\ cleared' = 0 /\ mixed' = FALSE
    /\ UNCHANGED <<serverVars, level, mounted, paused, late>>

\* mutant of Resumed: what was held is shown and kept
Resumed_Kept == rows' = Newest(rows \o pending) /\ UNCHANGED pending

Resumed == rows' = Newest(rows \o pending) /\ pending' = <<>>

togglePause ==
    /\ mounted
    /\ paused' = ~paused
    /\ IF paused THEN Resumed ELSE UNCHANGED <<rows, pending>>
    /\ UNCHANGED <<serverVars, level, timer, mounted, source, opened, cleared, mixed, late>>

handleClear ==
    /\ mounted
    /\ rows' = <<>> /\ pending' = <<>>
    /\ cleared' = logged /\ mixed' = FALSE
    /\ UNCHANGED <<serverVars, pageVars, source>>

\* mutant of Unmounted: the stream is not closed
Unmounted_Open == source

\* disconnect; the timer goes on
Unmounted == NoSource

Leave ==
    /\ mounted
    /\ mounted' = FALSE /\ late' = timer
    /\ source' = Unmounted
    /\ rows' = <<>> /\ pending' = <<>>
    /\ UNCHANGED <<serverVars, level, timer, paused, opened, cleared, mixed>>

Next ==
    \/ \E k \in Kinds, tie \in BOOLEAN : Log(k, tie)
    \/ Snapshot \/ Poll \/ Connected \/ Lost \/ Refused
    \/ \E f \in Levels : SetLevel(f)
    \/ reconnect \/ togglePause \/ handleClear \/ Leave

Spec == Init /\ [][Next]_logVars

-----------------------------------------------------------------------------
(* A type invariant: both buffers and the ring are bounded.                *)
TypeOK ==
    /\ ring \in Seq(Entries) /\ rows \in Seq(Entries) /\ pending \in Seq(Entries)
    /\ Len(ring) <= MaxRows /\ Len(rows) <= MaxRows /\ Len(pending) <= MaxRows
    /\ logged \in 0 .. MaxEntries
    /\ source \in [f : Levels, st : {"none", "connecting", "open", "closed"}, from : 0 .. MaxEntries]
    /\ level \in Levels /\ paused \in BOOLEAN /\ mounted \in BOOLEAN /\ timer \in BOOLEAN
    /\ NewestTime(ring) <= logged
    /\ ~paused => pending = <<>>

(* What is on the page, shown or held back, matches the filter its stream  *)
(* was opened with, and that is the filter on the page or the timer runs   *)
(* to replace it.                                                          *)
RowsMatchFilter ==
    mounted =>
        /\ \A i \in DOMAIN rows : Matches(rows[i], source.f)
        /\ \A i \in DOMAIN pending : Matches(pending[i], source.f)
        /\ source.f = level \/ timer

(* A page that is not held, on a stream that has seen the ring's last      *)
(* entry, shows every entry of the ring that matches and was not cleared;  *)
(* it may miss one that bears the timestamp of an earlier one, and has     *)
(* mixed its order if it was held while its stream began anew.             *)
CaughtUpIsComplete ==
    /\ mounted /\ ~paused /\ ~mixed
    /\ source.st = "open" /\ source.from # 0 /\ source.from = NewestTime(ring)
    => \A i \in DOMAIN ring :
          Matches(ring[i], source.f) /\ ring[i].id > cleared /\ ~ring[i].tie =>
              \E j \in DOMAIN rows : rows[j].id = ring[i].id

(* No stream outlives the page, unless the timer was armed as it was left. *)
NoStreamIsLeft == ~mounted /\ source.st # "none" => late

(* The page is a tail that can be held still.                              *)
View == INSTANCE TailView WITH
            stream <- Newest(rows \o pending), shown <- rows,
            behind <- Len(pending), holding <- paused

TailImplemented == View!Spec

-----------------------------------------------------------------------------
(* What is inductive.                                                      *)

\* the ring is numbered without a gap, its timestamps do not go back, and the
\* stream has seen none that is later
RingInv ==
    /\ Len(ring) <= logged /\ source.from <= NewestTime(ring)
    /\ \A i \in DOMAIN ring : ring[i].id = logged - Len(ring) + i
    /\ \A i, j \in DOMAIN ring : i <= j => ring[i].ts <= ring[j].ts

Ascending(s) == \A i, j \in DOMAIN s : i < j => s[i].id < s[j].id
Reached(s, n) == \A i \in DOMAIN s : s[i].id < n
Holds(s, e) == \E i \in DOMAIN s : s[i] = e

\* what the page has, shown and held, is in the order of the ring; of the ring
\* it lacks what the stream has not sent yet and what it need not have
SeenInv ==
    LET seen == rows \o pending
        sent == source.st = "open" /\ source.from # 0
    IN  ~mixed =>
            /\ Ascending(seen) /\ Reached(seen, logged + 1)
            /\ sent => \A i \in DOMAIN ring :
                  IF ring[i].ts > source.from THEN Reached(seen, ring[i].id)
                  ELSE Matches(ring[i], source.f) /\ ring[i].id > cleared /\ ~ring[i].tie =>
                          Holds(seen, ring[i])

LogInv ==
    /\ TypeOK /\ RowsMatchFilter /\ RingInv /\ SeenInv
    /\ ~mounted /\ (timer \/ source.st # "none") => late
=============================================================================
