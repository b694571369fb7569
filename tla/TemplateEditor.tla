--------------------------- MODULE TemplateEditor ---------------------------
(***************************************************************************)
(* The editor of the email templates in the operator console: a list, the  *)
(* row that was selected from it, a draft of its text, and a save that     *)
(* replaces the selected row by the server's and loads the list again.     *)
(***************************************************************************)
EXTENDS Naturals

CONSTANTS
    Templates,
    MaxEdits,    \* bound: drafts typed
    MaxAsked     \* bound: requests for the list

NoName == "none"
TemplatesAssumption == NoName \notin Templates

VARIABLES
    stored,      \* the server's texts, [of, v]: the template it was written
                 \* for, and the number of the draft
    templates,   \* the list, and whether there is one
    requests, asked, loading, error,
    selected,    \* [name, text]
    editing,     \* the draft
    save,        \* [stage, name, text]; saving = (stage # "no")
    edits,
    crossed,     \* history: a save was answered while another was selected
    unsure       \* history: the answer to a save that was done was lost

editorVars == <<stored, templates, requests, asked, loading, error, selected, editing, save,
                edits, crossed, unsure>>

Own == [t \in Templates |-> [of |-> t, v |-> 0]]
NoText == [of |-> NoName, v |-> 0]
NoList == [t \in Templates |-> NoText]
Nobody == [name |-> NoName, text |-> NoText]
NotSaving == [stage |-> "no", name |-> NoName, text |-> NoText]
saving == save.stage # "no"

Init ==
    /\ stored = Own
    /\ templates = NoList /\ requests = {[n |-> 1, got |-> NoList]} /\ asked = 1
    /\ loading = TRUE /\ error = FALSE
    /\ selected = Nobody /\ editing = NoText /\ save = NotSaving
    /\ edits = 0 /\ crossed = FALSE /\ unsure = FALSE

listState == <<templates, requests, asked, loading, error>>
editor == <<selected, editing, edits, crossed>>

hasChanges == selected # Nobody /\ editing # selected.text

\* the error takes the editor's place, and the spinner its clicks
Shown == ~error /\ templates # NoList
Usable == Shown /\ ~loading

Refresh ==
    /\ asked < MaxAsked
    /\ asked' = asked + 1
    /\ requests' = requests \cup {[n |-> asked + 1, got |-> NoList]}
    /\ loading' = TRUE /\ error' = FALSE

Retry ==
    /\ error /\ ~loading
    /\ Refresh
    /\ UNCHANGED <<stored, templates, editor, save, unsure>>

Serve(r) ==
    /\ r.got = NoList
    /\ requests' = (requests \ {r}) \cup {[r EXCEPT !.got = stored]}
    /\ UNCHANGED <<stored, templates, asked, loading, error, editor, save, unsure>>

\* save awaits the refresh it started
SaveEnds == save' = IF save.stage = "refresh" THEN NotSaving ELSE save

Answer(r) ==
    /\ r.got # NoList
    /\ templates' = r.got /\ loading' = FALSE
    /\ requests' = requests \ {r}
    /\ SaveEnds
    /\ UNCHANGED <<stored, asked, error, editor, unsure>>

Fail(r) ==
    /\ error' = TRUE /\ loading' = FALSE
    /\ requests' = requests \ {r}
    /\ SaveEnds
    /\ UNCHANGED <<stored, templates, asked, editor, unsure>>

-----------------------------------------------------------------------------
\* mutant of selectTemplate: a draft that was changed is not thrown away
selectTemplate_KeepsDraft(t) ==
    /\ selected' = [name |-> t, text |-> templates[t]]
    /\ editing' = IF hasChanges THEN editing ELSE templates[t]

selectTemplate(t) ==
    /\ selected' = [name |-> t, text |-> templates[t]]
    /\ editing' = templates[t]

Select(t) ==
    /\ Usable
    /\ selectTemplate(t)
    /\ crossed' = FALSE
    /\ UNCHANGED <<stored, listState, save, edits, unsure>>

deselect ==
    /\ Usable /\ selected # Nobody
    /\ selected' = Nobody
    /\ UNCHANGED <<stored, listState, editing, save, edits, crossed, unsure>>

\* the keyboard reaches the fields under the spinner
Edit ==
    /\ Shown /\ selected # Nobody /\ edits < MaxEdits
    /\ edits' = edits + 1
    /\ editing' = [editing EXCEPT !.v = edits + 1]
    /\ UNCHANGED <<stored, listState, selected, save, crossed, unsure>>

Save ==
    /\ Usable /\ hasChanges /\ ~saving
    /\ save' = [stage |-> "put", name |-> selected.name, text |-> editing]
    /\ UNCHANGED <<stored, listState, editor, unsure>>

ServeSave ==
    /\ save.stage = "put"
    /\ stored' = [stored EXCEPT ![save.name] = save.text]
    /\ save' = [save EXCEPT !.stage = "done"]
    /\ UNCHANGED <<listState, editor, unsure>>

\* mutant of Listed: the selected row is all that is refreshed
Listed_SelectedOnly == save' = NotSaving /\ UNCHANGED <<requests, asked, loading, error>>

Listed == Refresh /\ save' = [save EXCEPT !.stage = "refresh"]

\* whatever is selected by now is replaced; the draft stays
Saved ==
    /\ save.stage = "done"
    /\ Listed
    /\ selected' = [name |-> save.name, text |-> save.text]
    /\ crossed' = (crossed \/ (editing.of # save.text.of))
    /\ UNCHANGED <<stored, templates, editing, edits, unsure>>

SaveFailed ==
    /\ save.stage \in {"put", "done"}
    /\ save' = NotSaving
    /\ unsure' = (unsure \/ save.stage = "done")
    /\ UNCHANGED <<stored, listState, editor>>

Next ==
    \/ Retry \/ \E r \in requests : Serve(r) \/ Answer(r) \/ Fail(r)
    \/ \E t \in Templates : Select(t)
    \/ deselect \/ Edit \/ Save \/ ServeSave \/ Saved \/ SaveFailed

Spec == Init /\ [][Next]_editorVars

-----------------------------------------------------------------------------
(* The draft under a template's name was begun from that template's text,  *)
(* unless a save was answered while another template was selected: then    *)
(* the next save puts the text of one template into the other.             *)
DraftIsOfTemplate == selected # Nobody /\ editing.of # selected.text.of => crossed

(* When nothing is awaited and there is nothing to save, the draft is the  *)
(* server's text, unless the answer to a save was lost.                    *)
NothingToSave ==
    requests = {} /\ ~saving /\ Shown /\ selected # Nobody /\ ~hasChanges /\ ~unsure
        => editing = stored[selected.name]

-----------------------------------------------------------------------------
(* What is inductive.                                                      *)

Texts == [of : Templates \cup {NoName}, v : Nat]

EditorShape ==
    /\ stored \in [Templates -> Texts] /\ templates \in [Templates -> Texts]
    /\ editing \in Texts /\ edits \in Nat
    /\ selected = Nobody \/ selected \in [name : Templates, text : Texts]
    /\ save.stage \in {"no", "put", "done", "refresh"}
    /\ save.stage # "no" => save.name \in Templates /\ save.text \in Texts
    /\ \A r \in requests : r = [n |-> r.n, got |-> r.got] /\ r.got \in [Templates -> Texts]

\* there is one request for the list at most, and the spinner with it
OneRequest == (\A r, s \in requests : r = s) /\ (~loading => requests = {})

\* none goes out beside a save until its own, which it waits for
SavesAlone ==
    /\ save.stage \in {"put", "done"} => requests = {} /\ ~error
    /\ save.stage = "refresh" => requests # {}

ListIsStored ==
    /\ \A r \in requests : r.got # NoList => r.got = stored
    /\ requests = {} /\ ~error /\ ~unsure /\ save.stage # "done" => templates = stored

\* the row selected is the server's, but between a save and its answer
SelectedIsStored ==
    /\ save.stage = "done" => stored[save.name] = save.text
    /\ ~unsure /\ selected # Nobody /\ save.stage # "done" =>
          selected.text = stored[selected.name]

EditorInv ==
    /\ EditorShape /\ OneRequest /\ SavesAlone /\ ListIsStored /\ SelectedIsStored
    /\ DraftIsOfTemplate
=============================================================================
