---------------------------- MODULE StorageField ----------------------------
(***************************************************************************)
(* The default storage location of the settings page: a Combobox (a text   *)
(* field with a list of suggestions under it) whose text is a draft over   *)
(* the server's value, saved on a pick, on Enter and on leaving the field, *)
(* with a trash icon beside every location of the user's own.              *)
(*                                                                         *)
(* The browser's part is modelled as it is: a press on anything that does  *)
(* not keep the keyboard in the field takes it away, so a press is a blur  *)
(* before it is a click.  Requests are applied by the server and answered  *)
(* in any order; every answered one makes the page ask again for the       *)
(* settings and for the list, and the answer of a question asked before    *)
(* is dropped.                                                             *)
(***************************************************************************)
EXTENDS Integers, Sequences, FiniteSets

CONSTANTS Names,        \* the locations a user may have
          Preset,       \* the one every user has, which nobody deletes
          Partials,     \* texts on the way to a name
          StartsWith(_, _),     \* StartsWith(name, text)
          MaxStorageAsks   \* how many requests the user makes

NoText == "blank"        \* an empty text, and a setting that is not set
NoDraft == "no draft"
NoLocation == "no name"

Locations == Names \cup Partials       \* a text saved becomes a location
FieldTexts == Locations \cup {NoText}

ASSUME StorageAssumption ==
    /\ Preset \in Names
    /\ Names \cap Partials = {}
    /\ {NoText, NoDraft, NoLocation} \cap (Names \cup Partials) = {}
    /\ MaxStorageAsks \in Nat

VARIABLES stored,       \* the server's default location
          places,       \* the locations the server has for the user
          knownDefault,        \* the default location as the page last read it
          options,      \* the locations as the page last read them
          storageDraft,        \* storageLocationDraft
          listOpen, highlight, openedWithValue, inField,
          toDelete,     \* locationToDelete: the dialog's question
          storageRequests,     \* the user's requests under way
          storageAsks,         \* how many were made
          askSettings,  \* the question for the settings: what it will answer
          askList,      \* the question for the list is open
          storageAmiss         \* what may be left wrong: "draft" by a request that failed
                        \* or was overtaken and by a deletion, "settings" by an
                        \* answer that did not come (not code)

fieldVars == <<storageDraft, listOpen, highlight, openedWithValue, inField>>
serverVars == <<stored, places>>
readVars == <<knownDefault, options, askSettings, askList>>
sentVars == <<storageRequests, storageAsks>>
storageVars == <<serverVars, readVars, fieldVars, toDelete, sentVars, storageAmiss>>

NotAsked == [stage |-> "idle"]
Asked == [stage |-> "asked"]

-----------------------------------------------------------------------------
(* The field and its list.                                                  *)

Value == IF storageDraft = NoDraft THEN knownDefault ELSE storageDraft

\* While the text is the one the list was opened with everything is listed;
\* then what begins with the text.
Browsing == Value = NoText \/ Value = openedWithValue
Listed == IF Browsing THEN options ELSE {n \in options : StartsWith(n, Value)}
IsNewValue == Value # NoText /\ Value \notin options

StorageInit ==
    /\ stored \in {NoText, Preset}
    /\ places \in {p \in SUBSET Names : Preset \in p}
    /\ knownDefault = stored
    /\ options = places
    /\ storageDraft = NoDraft
    /\ listOpen = FALSE
    /\ highlight = NoLocation
    /\ openedWithValue = stored
    /\ inField = FALSE
    /\ toDelete = NoLocation
    /\ storageRequests = {}
    /\ storageAsks = 0
    /\ askSettings = NotAsked
    /\ askList = FALSE
    /\ storageAmiss = {}

-----------------------------------------------------------------------------
(* Saving.                                                                  *)

AskStorage(op, name) ==
    /\ storageAsks < MaxStorageAsks
    /\ storageAsks' = storageAsks + 1
    /\ storageRequests' = storageRequests \cup {[id |-> storageAsks, op |-> op, name |-> name,
                                                stage |-> "sent"]}

\* saveDefaultStorageLocationValue: compared with what the page last read.
SaveValue(text) ==
    IF text = knownDefault THEN UNCHANGED sentVars
    ELSE AskStorage("default", text)

\* The blur of the field: saveDefaultStorageLocation.
BlurField ==
    /\ inField' = FALSE
    /\ IF inField /\ storageDraft # NoDraft THEN SaveValue(storageDraft)
       ELSE UNCHANGED sentVars

-----------------------------------------------------------------------------
(* The keyboard in the field.                                               *)

\* onFocus: the list opens on everything.
Focus ==
    /\ ~inField /\ toDelete = NoLocation
    /\ inField' = TRUE
    /\ openedWithValue' = Value
    /\ listOpen' = TRUE
    /\ highlight' = NoLocation
    /\ UNCHANGED <<serverVars, readVars, storageDraft, toDelete, sentVars, storageAmiss>>

\* The page renders anew for every change of its state and hands the field a
\* new list, at which the highlight is dropped.
Type(text) ==
    /\ inField
    /\ text # Value
    /\ storageDraft' = text
    /\ listOpen' = TRUE
    /\ highlight' = NoLocation
    /\ UNCHANGED <<serverVars, readVars, openedWithValue, inField, toDelete, sentVars,
                   storageAmiss>>

\* The arrows and the mouse put the highlight on a listed name; ArrowDown on
\* a closed list opens it on everything.
Highlight(name) ==
    /\ listOpen /\ toDelete = NoLocation
    /\ name \in Listed
    /\ highlight' = name
    /\ UNCHANGED <<serverVars, readVars, storageDraft, listOpen, openedWithValue, inField,
                   toDelete, sentVars, storageAmiss>>

ArrowDownOpens ==
    /\ inField /\ ~listOpen
    /\ listOpen' = TRUE
    /\ openedWithValue' = Value
    /\ highlight' = NoLocation
    /\ UNCHANGED <<serverVars, readVars, storageDraft, inField, toDelete, sentVars,
                   storageAmiss>>

\* commit(option) of the field.
CommitName(name) ==
    /\ storageDraft' = name
    /\ listOpen' = FALSE
    /\ highlight' = NoLocation

EnterPicks ==
    /\ inField /\ listOpen
    /\ highlight \in Listed
    /\ CommitName(highlight)
    /\ SaveValue(highlight)
    /\ UNCHANGED <<serverVars, readVars, openedWithValue, inField, toDelete, storageAmiss>>

EnterAdds ==
    /\ inField
    /\ ~(listOpen /\ highlight \in Listed)
    /\ IF IsNewValue THEN SaveValue(Value) ELSE UNCHANGED sentVars
    /\ listOpen' = FALSE
    /\ UNCHANGED <<serverVars, readVars, storageDraft, highlight, openedWithValue,
                   inField, toDelete, storageAmiss>>

StorageEscape ==
    /\ listOpen /\ toDelete = NoLocation
    /\ listOpen' = FALSE
    /\ highlight' = NoLocation
    /\ UNCHANGED <<serverVars, readVars, storageDraft, openedWithValue, inField, toDelete,
                   sentVars, storageAmiss>>

\* Tab, or a press elsewhere on the page.
LeaveField ==
    /\ inField /\ toDelete = NoLocation
    /\ BlurField
    /\ listOpen' = FALSE
    /\ UNCHANGED <<serverVars, readVars, storageDraft, highlight, openedWithValue,
                   toDelete, storageAmiss>>

-----------------------------------------------------------------------------
(* The mouse on the list.                                                   *)

\* A suggestion does not keep the keyboard in the field: the press leaves it,
\* which saves the text, and the click saves the suggestion.
ClickOption(name) ==
    /\ listOpen /\ toDelete = NoLocation
    /\ name \in Listed
    /\ inField' = FALSE
    /\ LET left == IF inField /\ storageDraft # NoDraft THEN {storageDraft} ELSE {}
           saved == left \ {knownDefault}
           chosen == {name} \ {knownDefault}
           after == storageAsks + Cardinality(saved)
           Sent(id, texts) ==
               {[id |-> id, op |-> "default", name |-> t, stage |-> "sent"] : t \in texts}
       IN /\ storageAsks' = after + Cardinality(chosen)
          /\ storageAsks' <= MaxStorageAsks
          /\ storageRequests' =
                storageRequests \cup Sent(storageAsks, saved) \cup Sent(after, chosen)
    /\ CommitName(name)
    /\ UNCHANGED <<serverVars, readVars, openedWithValue, toDelete, storageAmiss>>

\* "Add a location", listed while everything is: the field is emptied.
StartNewEntry ==
    /\ listOpen /\ Browsing /\ toDelete = NoLocation
    /\ storageDraft' = NoText
    /\ openedWithValue' = NoText
    /\ inField' = TRUE
    /\ highlight' = NoLocation
    /\ UNCHANGED <<serverVars, readVars, listOpen, toDelete, sentVars, storageAmiss>>

\* The chevron: its press leaves the field, its click closes the list or
\* opens it in the field again.
ClickChevron ==
    /\ toDelete = NoLocation
    /\ IF inField /\ storageDraft # NoDraft THEN SaveValue(storageDraft)
       ELSE UNCHANGED sentVars
    /\ listOpen' = ~listOpen
    /\ inField' = ~listOpen
    /\ openedWithValue' = IF listOpen THEN openedWithValue ELSE Value
    /\ highlight' = NoLocation
    /\ UNCHANGED <<serverVars, readVars, storageDraft, toDelete, storageAmiss>>

\* The trash icon of one's own location keeps the keyboard in the field, and
\* the dialog that opens takes it.
ClickTrash(name) ==
    /\ listOpen
    /\ name \in Listed \ {Preset}
    /\ toDelete = NoLocation
    /\ toDelete' = name
    /\ BlurField
    /\ UNCHANGED <<serverVars, readVars, storageDraft, listOpen, highlight,
                   openedWithValue, storageAmiss>>

-----------------------------------------------------------------------------
(* The dialog.                                                              *)

Deleting == \E r \in storageRequests : r.op = "delete"

\* Cancel, Escape, the cross or a press beside it: it closes, also while the
\* request is under way, and gives the keyboard back to the field.
CancelDelete ==
    /\ toDelete # NoLocation
    /\ toDelete' = NoLocation
    /\ inField' = TRUE
    /\ openedWithValue' = Value
    /\ listOpen' = TRUE
    /\ highlight' = NoLocation
    /\ UNCHANGED <<serverVars, readVars, storageDraft, sentVars, storageAmiss>>

\* A press inside the dialog is outside the list, which closes.
ConfirmDelete ==
    /\ toDelete # NoLocation /\ ~Deleting
    /\ AskStorage("delete", toDelete)
    /\ listOpen' = FALSE
    /\ UNCHANGED <<serverVars, readVars, storageDraft, highlight, openedWithValue,
                   inField, toDelete, storageAmiss>>

-----------------------------------------------------------------------------
(* The server and its answers.                                              *)

\* An earlier request is still on its way to the server.
Overtaken(r) == \E s \in storageRequests : s.stage = "sent" /\ s.id < r.id

\* Find-or-create by name; an empty name clears the setting.  A deleted
\* location is taken out of the setting with it.
Apply(r) ==
    /\ r \in storageRequests /\ r.stage = "sent"
    /\ storageRequests' = (storageRequests \ {r}) \cup {[r EXCEPT !.stage = "done"]}
    /\ IF r.op = "default"
       THEN /\ stored' = r.name
            /\ places' = places \cup ({r.name} \ {NoText})
       ELSE /\ stored' = IF stored = r.name THEN NoText ELSE stored
            /\ places' = places \ {r.name}
    /\ storageAmiss' = storageAmiss \cup {part \in {"draft"} : r.op = "delete" \/ Overtaken(r)}
    /\ UNCHANGED <<readVars, fieldVars, toDelete, storageAsks>>

\* The dialog goes with the answer, whatever it asks by now; closing, it
\* gives the keyboard back to the field.
CloseAnswered(r) ==
    IF r.op = "delete" /\ toDelete # NoLocation
    THEN /\ toDelete' = NoLocation
         /\ inField' = TRUE
         /\ openedWithValue' = Value
         /\ listOpen' = TRUE
    ELSE UNCHANGED <<toDelete, inField, openedWithValue, listOpen>>

\* onSuccess: both questions are asked anew.
Answered(r) ==
    /\ r \in storageRequests /\ r.stage = "done"
    /\ storageRequests' = storageRequests \ {r}
    /\ askSettings' = Asked
    /\ askList' = TRUE
    /\ storageAmiss' = storageAmiss \ {"settings"}
    /\ CloseAnswered(r)
    /\ highlight' = NoLocation
    /\ UNCHANGED <<serverVars, knownDefault, options, storageDraft, storageAsks>>

\* A refusal, a request that never arrived, or an answer that was lost.  Only
\* that of a deletion is told, and none asks anything anew.
StorageFailed(r) ==
    /\ r \in storageRequests
    /\ storageRequests' = storageRequests \ {r}
    /\ storageAmiss' = storageAmiss \cup {IF r.stage = "sent" THEN "draft" ELSE "settings"}
    /\ CloseAnswered(r)
    /\ highlight' = NoLocation
    /\ UNCHANGED <<serverVars, readVars, storageDraft, storageAsks>>

\* A question fails; the page keeps what it had.
SettingsUnanswered ==
    /\ askSettings # NotAsked
    /\ askSettings' = NotAsked
    /\ storageAmiss' = storageAmiss \cup {"settings"}
    /\ UNCHANGED <<serverVars, knownDefault, options, askList, fieldVars, toDelete, sentVars>>

ListUnanswered ==
    /\ askList
    /\ askList' = FALSE
    /\ UNCHANGED <<serverVars, knownDefault, options, askSettings, fieldVars, toDelete,
                   sentVars, storageAmiss>>

ReadSettings ==
    /\ askSettings = Asked
    /\ askSettings' = [stage |-> "read", name |-> stored]
    /\ UNCHANGED <<serverVars, knownDefault, options, askList, fieldVars, toDelete,
                   sentVars, storageAmiss>>

\* Mutant of SettingsAnswered: the draft is kept over the value that came.
SettingsAnsweredUnderDraft ==
    /\ askSettings.stage = "read"
    /\ knownDefault' = askSettings.name
    /\ storageDraft' = storageDraft
    /\ askSettings' = NotAsked
    /\ highlight' = NoLocation
    /\ UNCHANGED <<serverVars, options, askList, listOpen, openedWithValue, inField,
                   toDelete, sentVars, storageAmiss>>

\* The effect that lets the draft go once the server's value moved.
SettingsAnswered ==
    /\ askSettings.stage = "read"
    /\ knownDefault' = askSettings.name
    /\ storageDraft' = IF knownDefault' # knownDefault THEN NoDraft ELSE storageDraft
    /\ askSettings' = NotAsked
    /\ highlight' = NoLocation
    /\ UNCHANGED <<serverVars, options, askList, listOpen, openedWithValue, inField,
                   toDelete, sentVars, storageAmiss>>

\* The list is read as it is when its answer comes: nothing but the list
\* hangs on it.
ListAnswered ==
    /\ askList
    /\ options' = places
    /\ askList' = FALSE
    /\ highlight' = NoLocation
    /\ UNCHANGED <<serverVars, knownDefault, storageDraft, askSettings, listOpen,
                   openedWithValue, inField, toDelete, sentVars, storageAmiss>>

StorageNext ==
    \/ Focus \/ LeaveField \/ ArrowDownOpens \/ EnterPicks \/ EnterAdds \/ StorageEscape
    \/ \E t \in FieldTexts : Type(t)
    \/ \E n \in Locations : Highlight(n) \/ ClickOption(n) \/ ClickTrash(n)
    \/ StartNewEntry \/ ClickChevron \/ CancelDelete \/ ConfirmDelete
    \/ \E r \in storageRequests : Apply(r) \/ Answered(r) \/ StorageFailed(r)
    \/ ReadSettings \/ SettingsAnswered \/ ListAnswered
    \/ SettingsUnanswered \/ ListUnanswered

StorageSpec == StorageInit /\ [][StorageNext]_storageVars

-----------------------------------------------------------------------------
(* Properties.                                                              *)

\* The type of the field's state.
StorageTypeOK ==
    /\ stored \in FieldTexts /\ knownDefault \in FieldTexts
    /\ places \subseteq Locations /\ options \subseteq Locations
    /\ storageDraft \in FieldTexts \cup {NoDraft}
    /\ openedWithValue \in FieldTexts
    /\ {listOpen, inField, askList} \subseteq BOOLEAN
    /\ storageAmiss \subseteq {"draft", "settings"}
    /\ highlight \in FieldTexts \cup {NoLocation}
    /\ toDelete \in Locations \cup {NoLocation}
    /\ storageAsks \in 0..MaxStorageAsks
    /\ askSettings.stage \in {"idle", "asked", "read"}

Settled ==
    /\ storageRequests = {} /\ askSettings = NotAsked /\ ~askList
    /\ ~inField /\ toDelete = NoLocation

\* Once every request and question has come to an end and the field was left, the
\* page knows the default location the server keeps, whatever was saved, overtaken
\* or deleted, unless an answer failed to come and nothing was asked since; and the
\* field shows it, however the saves, their answers and the questions they cause
\* were interleaved.  What the code does not mend is excepted: after a request that
\* failed, a save that overtook an earlier one or a deletion, the field may go on
\* showing a text that was not kept.
FieldSettles ==
    Settled =>
        /\ "settings" \notin storageAmiss => knownDefault = stored
        /\ storageAmiss = {} => Value = stored

=============================================================================
