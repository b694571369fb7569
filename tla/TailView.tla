------------------------------ MODULE TailView ------------------------------
(***************************************************************************)
(* What a tail of the log promises its reader: the newest MaxRows entries  *)
(* of the stream, which holding the view still neither loses nor reorders. *)
(* stream is what the reader sees when nothing is held back; the last      *)
(* behind entries that came are not shown yet.                             *)
(***************************************************************************)
EXTENDS Naturals, Sequences

CONSTANTS
    Entries,
    MaxRows

VARIABLES stream, shown, behind, holding

viewVars == <<stream, shown, behind, holding>>

\* the last n of a sequence
Suffix(s, n) == SubSeq(s, Len(s) - n + 1, Len(s))

Newest(s) == IF Len(s) > MaxRows THEN Suffix(s, MaxRows) ELSE s

Init ==
    /\ stream = <<>> /\ shown = <<>> /\ behind = 0
    /\ holding = FALSE

\* n entries arrive; a view that is held does not move
Receive(n) ==
    /\ stream' \in Seq(Entries) /\ n <= Len(stream')
    /\ stream' = Newest(stream \o Suffix(stream', n))
    /\ IF holding
       THEN /\ shown' = shown
            /\ behind' = IF behind + n > MaxRows THEN MaxRows ELSE behind + n
       ELSE shown' = stream' /\ behind' = 0
    /\ UNCHANGED holding

Hold ==
    /\ ~holding /\ holding' = TRUE
    /\ UNCHANGED <<stream, shown, behind>>

\* as if it had never been held
Resume ==
    /\ holding /\ holding' = FALSE
    /\ shown' = stream /\ behind' = 0
    /\ UNCHANGED stream

\* a new stream begins with its history; what was held stays behind it
Restart ==
    /\ shown' \in Seq(Entries) /\ Len(shown') <= MaxRows
    /\ stream' = Newest(shown' \o Suffix(stream, behind))
    /\ UNCHANGED <<behind, holding>>

\* nothing is left, held or shown
Empty ==
    /\ stream' = <<>> /\ shown' = <<>> /\ behind' = 0
    /\ UNCHANGED holding

Next ==
    \/ \E n \in 0 .. MaxRows : Receive(n)
    \/ Hold \/ Resume \/ Restart \/ Empty

Spec == Init /\ [][Next]_viewVars
=============================================================================
