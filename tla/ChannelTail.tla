---------------------------- MODULE ChannelTail -----------------------------
(***************************************************************************)
(* The inspector of realtime channels: one event stream for the topic the  *)
(* operator connected to, and the list of its latest events.  The stream   *)
(* is opened in a handler, where the hook that would close it when the     *)
(* page is left cannot be registered.                                      *)
(***************************************************************************)
EXTENDS Naturals, Sequences

CONSTANTS
    Topics,
    MaxShown,     \* the list's 1000
    MaxEvents,    \* bound: events that arrive
    MaxStreams    \* bound: streams opened

NoTopic == "none"
TailAssumption == NoTopic \notin Topics /\ MaxShown \in Nat \ {0}

VARIABLES
    visit,        \* visits of the page so far, and whether this one goes on
    streams,      \* open event streams, [id, topic, visit]
    tail,         \* the stream shown, id = 0 for none
    connected, paused,
    events,       \* of the tail, numbered as they arrive
    opened, arrived,
    last          \* history: the last event taken into the list, 0 after a clear

tailVars == <<visit, streams, tail, connected, paused, events, opened, arrived, last>>

NoTail == [id |-> 0, topic |-> NoTopic, visit |-> 0]

Init ==
    /\ visit = [n |-> 1, here |-> TRUE]
    /\ streams = {} /\ tail = NoTail
    /\ connected = FALSE /\ paused = FALSE
    /\ events = <<>> /\ opened = 0 /\ arrived = 0 /\ last = 0

\* useLiveTail, from the button that is there without a tail
connect(t) ==
    /\ visit.here /\ tail = NoTail /\ opened < MaxStreams
    /\ opened' = opened + 1
    /\ tail' = [id |-> opened + 1, topic |-> t, visit |-> visit.n]
    /\ streams' = streams \cup {tail'}
    /\ connected' = FALSE /\ paused' = FALSE /\ events' = <<>> /\ last' = 0
    /\ UNCHANGED <<visit, arrived>>

\* mutant of Closed: the reference is dropped and the stream left to itself
Closed_Forgotten == streams

Closed == streams \ {tail}

disconnect ==
    /\ visit.here /\ tail # NoTail
    /\ streams' = Closed /\ tail' = NoTail
    /\ connected' = FALSE /\ events' = <<>> /\ last' = 0
    /\ UNCHANGED <<visit, paused, opened, arrived>>

\* the stream stays open and nothing refers to it
LeavePage ==
    /\ visit.here
    /\ visit' = [visit EXCEPT !.here = FALSE]
    /\ tail' = NoTail /\ connected' = FALSE /\ events' = <<>> /\ last' = 0
    /\ UNCHANGED <<streams, paused, opened, arrived>>

ComeBack ==
    /\ ~visit.here /\ visit.n < MaxStreams
    /\ visit' = [n |-> visit.n + 1, here |-> TRUE]
    /\ UNCHANGED <<streams, tail, connected, paused, events, opened, arrived, last>>

\* opened, or lost: the browser opens it again
Connection(up) ==
    /\ tail # NoTail /\ connected # up
    /\ connected' = up
    /\ UNCHANGED <<visit, streams, tail, paused, events, opened, arrived, last>>

\* mutant of Kept: a full list takes no more
Kept_Oldest(list) == SubSeq(list, 1, MaxShown)

\* the newest 1000
Kept(list) == SubSeq(list, Len(list) - MaxShown + 1, Len(list))

\* an event of the tail; a paused list drops it
Event ==
    /\ tail # NoTail /\ connected /\ arrived < MaxEvents
    /\ arrived' = arrived + 1
    /\ IF paused
       THEN UNCHANGED <<events, last>>
       ELSE LET list == Append(events, arrived + 1)
            IN  /\ events' = IF Len(list) > MaxShown THEN Kept(list) ELSE list
                /\ last' = arrived + 1
    /\ UNCHANGED <<visit, streams, tail, connected, paused, opened>>

Pause(p) ==
    /\ tail # NoTail /\ paused # p
    /\ paused' = p
    /\ UNCHANGED <<visit, streams, tail, connected, events, opened, arrived, last>>

Clear ==
    /\ tail # NoTail
    /\ events' = <<>> /\ last' = 0
    /\ UNCHANGED <<visit, streams, tail, connected, paused, opened, arrived>>

Next ==
    \/ \E t \in Topics : connect(t)
    \/ disconnect \/ LeavePage \/ ComeBack \/ Event \/ Clear
    \/ \E b \in BOOLEAN : Connection(b) \/ Pause(b)

Spec == Init /\ [][Next]_tailVars

-----------------------------------------------------------------------------
(* Of the streams opened in this visit of the page only the one shown is   *)
(* still open: connecting and disconnecting leaves none behind.  (Leaving  *)
(* the page does.)                                                         *)
StreamsAreTheTail ==
    visit.here => {s \in streams : s.visit = visit.n} = {tail} \ {NoTail}

(* Also when the list is full, it ends with the event taken last, and is   *)
(* in the order of arrival.                                                *)
EventsAreTheLatest ==
    /\ events = <<>> <=> last = 0
    /\ events # <<>> => events[Len(events)] = last
    /\ \A i \in 1 .. Len(events) - 1 : events[i] < events[i + 1]

-----------------------------------------------------------------------------
(* What is inductive.                                                      *)

TailInv ==
    /\ visit \in [n : Nat, here : BOOLEAN] /\ arrived \in Nat
    /\ \A s \in streams : s.visit \in Nat /\ s.visit <= visit.n
    /\ tail # NoTail => visit.here
    /\ events \in Seq(1 .. arrived) /\ Len(events) <= MaxShown
    /\ StreamsAreTheTail /\ EventsAreTheLatest
=============================================================================
