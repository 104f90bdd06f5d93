------------------------------ MODULE Controls ------------------------------
(***************************************************************************)
(* The two acts that backends/playwright_backend.py confirms by reading the *)
(* page again: the choice of an option of a custom combobox                 *)
(* (_dispatch_combobox_selection) and the upload of files (UPLOAD_FILE in   *)
(* _dispatch_core).  Options are read and clicked by their place in a list  *)
(* the page may render anew at any time; a file input may be emptied and    *)
(* replaced by the page that took its files.                                *)
(***************************************************************************)
EXTENDS Integers, Sequences, FiniteSets

CONSTANTS
    None,
    Label,          \* what options say
    Asked,          \* the labels that match the option asked for, under the request's match
    Query,          \* what is typed into the field: a label, or None for a click on it
    Name,           \* names of files
    MaxRenders      \* bounds the renderings of the page

ControlsAssumption ==
    /\ Asked \subseteq Label /\ Query \in Label \cup {None}
    /\ None \notin Label \cup {"selected", "verified"}
    /\ MaxRenders \in Nat

VARIABLES
    field,      \* the combobox: its value, what was chosen in it, whether its list is open
    options,    \* the labels in its list, in order
    combo,      \* the selection: its step, the options it has read, the place it clicks, its result
    inputs,     \* the file inputs of the page: what the one aimed at and another one hold
    shown,      \* where the page shows the name of a file: not, in view, beyond what is read first
    upload,     \* the upload: its step, its files, what it saw before, its result
    renders,
    past        \* history: what was so before, and what happened under the hands of the acts

vars == <<field, options, combo, inputs, shown, upload, renders, past>>

Lists == UNION {[1..n -> Label] : n \in 0..2}
Shown == [Name -> {"no", "view", "beyond"}]

ControlsTypeOK ==
    /\ field.value \in Label \cup {None} /\ options \in Lists /\ shown \in Shown
    /\ \A i \in DOMAIN inputs : inputs[i] \subseteq Name
    /\ combo.result \in {None, "selected", "refused", "stale", "click_failed", "not_persisted"}
    /\ upload.result \in {None, "verified", "failed", "indeterminate", "not_sent"}

Idle == [at |-> "rest", count |-> 0, next |-> 1, read |-> {}, place |-> 0, result |-> None]

\* One of the two acts runs, on a field that may hold a value or a page that may already
\* list files.
Init ==
    /\ options = <<>> /\ renders = 0
    /\ \/ /\ \E v \in Label \cup {None} : field = [value |-> v, chosen |-> None, open |-> FALSE]
          /\ combo = [Idle EXCEPT !.at = "aim"]
          /\ inputs = <<>> /\ shown = [n \in Name |-> "no"]
          /\ upload = [at |-> "rest", files |-> {}, seen |-> {}, took |-> FALSE, error |-> FALSE, result |-> None]
       \/ /\ field = [value |-> None, chosen |-> None, open |-> FALSE] /\ combo = Idle
          /\ inputs \in [{"aimed", "other"} -> SUBSET Name] /\ shown \in Shown
          /\ \E f \in SUBSET Name \ {{}} :
                upload = [at |-> "look", files |-> f, seen |-> {}, took |-> FALSE, error |-> FALSE, result |-> None]
    /\ past = [value |-> field.value, moved |-> FALSE, inputs |-> inputs, shown |-> shown]

comboVars  == <<field, options, combo>>
uploadVars == <<inputs, shown, upload>>

Chooses(result) == combo' = [combo EXCEPT !.at = "over", !.result = result]
-----------------------------------------------------------------------------
(* Choosing an option. *)

\* The field is focused and typed into, or clicked; what stood in it may be cleared first,
\* and where the field is read-only or no text field it is not.
Aims ==
    /\ combo.at = "aim" /\ UNCHANGED <<options, uploadVars, renders, past>>
    /\ \/ Chooses("refused") /\ UNCHANGED field
       \/ /\ \E v \in {field.value, Query, None} :
                field' = [field EXCEPT !.value = v, !.open = TRUE]
          /\ combo' = [combo EXCEPT !.at = "list"]

\* How many options there are is asked first; each is then read at its place, and one that
\* is hidden, says nothing or has gone meanwhile is left out.
Counts ==
    /\ combo.at = "list"
    /\ combo' = [combo EXCEPT !.at = "read", !.count = Len(options), !.next = 1, !.read = {}]
    /\ UNCHANGED <<field, options, uploadVars, renders, past>>

Reads ==
    /\ combo.at = "read" /\ combo.next <= combo.count
    /\ \E seen \in SUBSET ({combo.next} \cap DOMAIN options) :
          combo' = [combo EXCEPT !.next = @ + 1, !.read = @ \cup {<<i, options[i]>> : i \in seen}]
    /\ UNCHANGED <<field, options, uploadVars, renders, past>>

\* With nothing read the list is polled again until the time is over.  Exactly one of the
\* options read must match.
Matches == {r \in combo.read : r[2] \in Asked}

Judges ==
    /\ combo.at = "read" /\ combo.next > combo.count
    /\ \/ combo.read = {} /\ combo' = [combo EXCEPT !.at = "list"]
       \/ Cardinality(Matches) # 1 /\ Chooses("refused")
       \/ /\ Cardinality(Matches) = 1
          /\ \E r \in Matches : combo' = [combo EXCEPT !.at = "check", !.place = r[1]]
    /\ UNCHANGED <<field, options, uploadVars, renders, past>>

\* Mutant: some option is still at the place.
PlaceRemains == combo.place \in DOMAIN options

\* The option at the place must still be in view and say what was read there.
Unchanged == combo.place \in DOMAIN options /\ <<combo.place, options[combo.place]>> \in combo.read

Checks ==
    /\ combo.at = "check"
    /\ \/ Unchanged /\ combo' = [combo EXCEPT !.at = "click"]
       \/ Chooses("stale")
    /\ past' = [past EXCEPT !.moved = FALSE]
    /\ UNCHANGED <<field, options, uploadVars, renders>>

\* The click takes whatever option is at the place; the page takes it or only closes the list.
Clicks ==
    /\ combo.at = "click" /\ UNCHANGED <<options, uploadVars, renders, past>>
    /\ \/ Chooses("click_failed") /\ UNCHANGED field
       \/ /\ combo.place \in DOMAIN options
          /\ combo' = [combo EXCEPT !.at = "confirm"]
          /\ LET label == options[combo.place] IN
             field' \in {[value |-> label, chosen |-> label, open |-> FALSE],
                         [field EXCEPT !.open = FALSE], field}

\* Confirmed is a field that is closed and holds a text that matches.
Confirms ==
    /\ combo.at = "confirm" /\ UNCHANGED <<field, options, uploadVars, renders, past>>
    /\ Chooses(IF ~field.open /\ field.value \in Asked THEN "selected" ELSE "not_persisted")

\* The page renders the list anew while it is open.
Renders ==
    /\ field.open /\ combo.result = None /\ renders < MaxRenders /\ renders' = renders + 1
    /\ options' \in Lists \ {options}
    /\ past' = [past EXCEPT !.moved = @ \/ combo.at = "click"]
    /\ UNCHANGED <<field, combo, uploadVars>>
-----------------------------------------------------------------------------
(* Uploading files. *)

Uploaded(result) == upload' = [upload EXCEPT !.at = "over", !.result = result]

\* The names in view are remembered, as far as the text is read.  A target that is no file
\* input, or that takes no such files, is refused.
Looks ==
    /\ upload.at = "look" /\ UNCHANGED <<inputs, shown, comboVars, renders, past>>
    /\ \/ Uploaded("not_sent")
       \/ upload' = [upload EXCEPT !.at = "set", !.seen = {n \in upload.files : shown[n] = "view"}]

\* The files are set, or the call fails before or after they were.
Sets ==
    /\ upload.at = "set" /\ UNCHANGED <<shown, comboVars, renders, past>>
    /\ \E took, error \in BOOLEAN :
          /\ took \/ error
          /\ upload' = [upload EXCEPT !.at = "confirm", !.took = took, !.error = error]
          /\ inputs' = IF took THEN [inputs EXCEPT !["aimed"] = upload.files] ELSE inputs

\* The page's answer: the files are listed by name, and the input is emptied or taken away.
Answers ==
    /\ upload.at = "confirm" /\ upload.took /\ renders < MaxRenders /\ renders' = renders + 1
    /\ shown' \in {shown, [n \in Name |-> IF n \in upload.files /\ shown[n] = "no" THEN "view" ELSE shown[n]]}
    /\ inputs' \in {[i \in DOMAIN inputs |-> IF i = "aimed" THEN {} ELSE inputs[i]],
                   [i \in DOMAIN inputs \ {"aimed"} |-> inputs[i]], inputs}
    /\ UNCHANGED <<upload, comboVars, past>>

\* An input of the page holds just the files, or every name is shown that was not before.
Held  == \E i \in DOMAIN inputs : inputs[i] = upload.files
Fresh == {n \in upload.files : shown[n] # "no"} \ upload.seen
Verified == Held \/ Fresh = upload.files

\* The second look may itself fail, and sees nothing then; and the part of the page the
\* first look marked may have been replaced.
Confirmed(sees, kept) ==
    IF sees /\ Verified THEN "verified"
    ELSE IF upload.error THEN "not_sent"
    ELSE IF sees /\ kept THEN "failed" ELSE "indeterminate"

LooksAgain ==
    /\ upload.at = "confirm" /\ UNCHANGED <<inputs, shown, comboVars, renders, past>>
    /\ \E sees, kept \in BOOLEAN : Uploaded(Confirmed(sees, kept))
-----------------------------------------------------------------------------
Selects == Aims \/ Counts \/ Reads \/ Judges \/ Checks \/ Clicks \/ Confirms \/ Renders
Uploads == Looks \/ Sets \/ Answers \/ LooksAgain
Next == Selects \/ Uploads

Spec == Init /\ [][Next]_vars
-----------------------------------------------------------------------------
\* What an option click took is an option asked for, however often the list was rendered
\* anew while it was read: only a rendering between the second reading and the click makes
\* it another (the stale_combobox_state check of _dispatch_combobox_selection).
ClickedAsAsked == field.chosen # None => field.chosen \in Asked \/ past.moved

\* A selection that is reported was made, also then: unless the text that matches was typed
\* or stood in the field before, an option asked for was taken.
SelectedIsChosen ==
    combo.result = "selected" => field.chosen \in Asked \/ Query \in Asked \/ past.value \in Asked

\* An upload that is verified took place, unless an input already held just those files or
\* the page already showed their names where the first look does not reach.
VerifiedIsAttached ==
    upload.result = "verified" =>
        \/ upload.took
        \/ \E i \in DOMAIN past.inputs : past.inputs[i] = upload.files
        \/ \A n \in upload.files : past.shown[n] = "beyond"

\* The three together.
ControlsTellTheTruth == ClickedAsAsked /\ SelectedIsChosen /\ VerifiedIsAttached
=============================================================================
