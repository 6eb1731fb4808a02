---------------------------- MODULE SettingsPage -----------------------------
(***************************************************************************)
(* The settings view of the page (ui/client/worktrees.js): rows that show  *)
(* what the server last told, a model list that is fetched from a provider *)
(* and used to set a model and its price one after the other, and an       *)
(* editor for everything else. Each change is a request, which the layers  *)
(* may refuse, and after it the page reads everything again.               *)
(***************************************************************************)
EXTENDS Naturals

CONSTANTS Models,    \* model ids
          Priced,    \* those with a known price
          MaxChanges, \* bound: changes to the files
          None

VARIABLES saved,     \* the effective value of "model", "prices" and "roles"
          held,      \* state.settings: the values as they were last told
          list,      \* the model list of the provider
          row,       \* the model row: what its drop-down shows, if it may be used, and the
                     \* model whose change is under way
          editor,    \* openSetting: a path, the value typed, and the value it was opened on
          saving,    \* the change that was sent from the editor
          reading,   \* answers to "read everything", on their way
          changes,
          told       \* history: the model the server last said it has saved for this page

vars == <<saved, held, list, row, editor, saving, reading, changes, told>>

Paths == {"model", "prices", "roles"}
Roles == {"a", "b"}
Domain(path) == IF path = "model" THEN Models ELSE IF path = "prices" THEN SUBSET Models
                ELSE SUBSET Roles
Values == [model : Models, prices : SUBSET Models, roles : SUBSET Roles]

Closed == [path |-> "none", value |-> {}, was |-> {}]
Drawn(values) == [shows |-> values.model, open |-> TRUE, sent |-> None, at |-> "idle"]

(* Writes are tried by the server against all layers, and may be refused.  *)
SetSetting(path, value) == saved' = [saved EXCEPT ![path] = value]

(* renderSettings: rows are drawn anew from what is held; a request that   *)
(* the old row sent goes on.                                               *)
RenderSettings(values) == row' = [Drawn(values) EXCEPT !.sent = row.sent, !.at = row.at]

-----------------------------------------------------------------------------
FetchProviderModels ==
  \/ /\ list \in {"none", "error"} /\ list' = "loading" /\ RenderSettings(held)
     /\ UNCHANGED <<saved, held, editor, saving, reading, changes, told>>
  \/ /\ list = "loading" /\ list' \in {"ready", "error"} /\ RenderSettings(held)
     /\ UNCHANGED <<saved, held, editor, saving, reading, changes, told>>

(* Somebody picks a model (one change of the row at a time).               *)
ModelValueControl(m) ==
  /\ list = "ready" /\ row.open /\ row.at = "idle" /\ row.shows # m
  /\ row' = [shows |-> m, open |-> FALSE, sent |-> m, at |-> "model"]
  /\ UNCHANGED <<saved, held, list, editor, saving, reading, changes, told>>

(* applySetting: the page reads everything again after each change; that   *)
(* answer may get lost.                                                    *)
ApplySetting(path, value) ==
  /\ changes < MaxChanges /\ changes' = changes + 1
  /\ SetSetting(path, value) /\ reading' = "asked"

(* The prices the page knows when it adds one: the entry of the model list *)
(* has taken the name of the page's state, so it knows none.               *)
Table == {}

ModelSaved ==
  /\ row.at = "model" /\ ApplySetting("model", row.sent) /\ told' = row.sent
  /\ row' = [row EXCEPT !.at = "reading"]
  /\ UNCHANGED <<held, list, editor, saving>>

PriceNext ==
  /\ row.at = "reading" /\ reading = "none"
  /\ row' = IF row.sent \in Priced THEN [row EXCEPT !.at = "price"]
            ELSE [row EXCEPT !.open = TRUE, !.at = "idle", !.sent = None]
  /\ UNCHANGED <<saved, held, list, editor, saving, reading, changes, told>>

PriceSaved ==
  /\ row.at = "price" /\ ApplySetting("prices", Table \cup {row.sent})
  /\ row' = [row EXCEPT !.at = "last"]
  /\ UNCHANGED <<held, list, editor, saving, told>>

Finished ==
  /\ row.at = "last" /\ reading = "none"
  /\ row' = [row EXCEPT !.open = TRUE, !.at = "idle", !.sent = None]
  /\ UNCHANGED <<saved, held, list, editor, saving, reading, changes, told>>

(* A plausible fault: a refusal leaves the row as it was chosen.           *)
SlipPutBack == row.shows

PutBack == held.model

(* The server refuses the model, or its price.                             *)
Refused ==
  /\ row.at \in {"model", "price"}
  /\ row' = [shows |-> PutBack, open |-> TRUE, sent |-> None, at |-> "idle"]
  /\ UNCHANGED <<saved, held, list, editor, saving, reading, changes, told>>

-----------------------------------------------------------------------------
OpenEditor(path) ==
  /\ path # "model"
  /\ editor' = [path |-> path, value |-> held[path], was |-> held[path]]
  /\ RenderSettings(held)
  /\ UNCHANGED <<saved, held, list, saving, reading, changes, told>>

(* A set is edited from the value the row had when the editor was opened.  *)
ChoiceControl ==
  /\ editor # Closed
  /\ \E v \in Domain(editor.path) : v # editor.value /\ editor' = [editor EXCEPT !.value = v]
  /\ UNCHANGED <<saved, held, list, row, saving, reading, changes, told>>

Save ==
  /\ editor # Closed /\ saving = Closed /\ saving' = editor
  /\ UNCHANGED <<saved, held, list, row, editor, reading, changes, told>>

(* Whatever editor is open when the change has been made is closed; after  *)
(* a refusal the one it came from stays.                                   *)
Saved ==
  /\ saving # Closed
  /\ \/ ApplySetting(saving.path, saving.value) /\ saving' = Closed /\ editor' = Closed
     \/ saving' = Closed /\ UNCHANGED <<saved, editor, reading, changes>>
  /\ UNCHANGED <<held, list, row, told>>

Cancel ==
  /\ editor # Closed /\ editor' = Closed /\ RenderSettings(held)
  /\ UNCHANGED <<saved, held, list, saving, reading, changes, told>>

(* The answer with all settings, as they are when the server reads them.   *)
Reads ==
  /\ reading = "asked"
  /\ \/ held' = saved /\ RenderSettings(saved)
     \/ UNCHANGED <<held, row>>                        \* it got lost
  /\ reading' = "none"
  /\ UNCHANGED <<saved, list, editor, saving, changes, told>>

(* From a terminal, or an editor.                                          *)
OtherSurface ==
  /\ changes < MaxChanges /\ changes' = changes + 1
  /\ \E path \in Paths : \E v \in Domain(path) : v # saved[path] /\ SetSetting(path, v)
  /\ UNCHANGED <<held, list, row, editor, saving, reading, told>>

Init == /\ saved \in {v \in Values : v.prices = {v.model} /\ v.roles = {}} /\ held = saved
        /\ list = "none" /\ row = Drawn(saved) /\ editor = Closed /\ saving = Closed
        /\ reading = "none" /\ changes = 0 /\ told = saved.model

Next == \/ FetchProviderModels \/ ModelSaved \/ PriceNext \/ PriceSaved \/ Finished \/ Refused
        \/ \E m \in Models : ModelValueControl(m)
        \/ \E path \in Paths : OpenEditor(path)
        \/ ChoiceControl \/ Save \/ Saved \/ Cancel \/ Reads \/ OtherSurface

Spec == Init /\ [][Next]_vars

-----------------------------------------------------------------------------
TypeOK == /\ saved \in Values /\ held \in Values /\ list \in {"none", "loading", "ready", "error"}
          /\ row.shows \in Models /\ row.open \in BOOLEAN /\ row.sent \in Models \cup {None}
          /\ editor.path \in Paths \cup {"none"} /\ reading \in {"none", "asked"}
          /\ changes \in 0..MaxChanges

(* "The row must not show a change that did not happen"                    *)
(* (worktrees.js 394-395): a row that waits for no answer shows what the   *)
(* server told last, or has said to have saved for this page - through     *)
(* refusals of the model or of its price, answers that got lost and views  *)
(* drawn anew in between.                                                  *)
RowsTellTheTruth ==
  row.at = "idle" => row.shows \in {held.model, told}

(* A price is added: "it is read back and rewritten whole".                *)
PricesKept ==
  [][PriceSaved => saved.prices \subseteq saved'.prices]_vars
=============================================================================
