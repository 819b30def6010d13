--------------------------- MODULE EnvironmentTab ---------------------------
(***************************************************************************)
(* The Environment tab (environment-tab.tsx): the variables of an app and  *)
(* of its team, the dialogs that add, edit and delete an app's variable,   *)
(* and the banner that offers to deploy after a change.  The add and the   *)
(* edit dialog share one form.  Leaving the tab unmounts it: its state is  *)
(* lost, the banner with it, and nobody hears what its requests bring.     *)
(***************************************************************************)
EXTENDS Pages

VARIABLES
  rows,                            \* the app's variables in the panel
  before,                          \* history: those when the visit began or, if that was
                                   \* later, when the app was last deployed
  tabShown,
  appVars, loading,                \* as listed
  showAddDialog, editingVar, deletingVar,
  formKey, formValue,
  formFor,                         \* history: the variable whose dialog the text was entered in
  saving, hasChanges, deploying,
  requests, asked,
  unseen                           \* history: see ChangesAreAnnounced

listed == <<appVars, loading>>
form == <<formKey, formValue, formFor>>
dialogs == <<showAddDialog, editingVar, deletingVar, saving>>
banner == <<hasChanges, deploying>>
panel == <<rows, before>>
vars == <<panel, tabShown, listed, dialogs, form, banner, requests, asked, unseen>>

Env == [Keys -> Values \cup {NoValue}]
Request == [kind : {"list", "add", "edit", "delete", "deploy"}, id : Nat,
            key : Keys \cup {NoKey}, value : Values \cup {NoValue}, own : BOOLEAN,
            heard : BOOLEAN,       \* is the tab that sent it still mounted?
            state : {"sent"} \cup Outcomes, data : Env]

TypeOK ==
  /\ rows \in Env /\ before \in Env /\ tabShown \in BOOLEAN
  /\ appVars \in Env /\ loading \in BOOLEAN
  /\ showAddDialog \in BOOLEAN
  /\ editingVar \in Keys \cup {NoKey} /\ deletingVar \in Keys \cup {NoKey}
  /\ formKey \in Keys \cup {NoKey} /\ formValue \in Values \cup {NoValue}
  /\ formFor \in Keys \cup {NoKey}
  /\ saving \in BOOLEAN /\ hasChanges \in BOOLEAN /\ deploying \in BOOLEAN
  /\ requests \subseteq Request /\ asked \in Nat
  /\ unseen \in BOOLEAN

NoVars == [k \in Keys |-> NoValue]

New(kind, key, value) ==
  [kind |-> kind, id |-> asked + 1, key |-> key, value |-> value, own |-> kind = "edit" => key = formFor,
   heard |-> TRUE, state |-> "sent", data |-> NoVars]

Changes == {"add", "edit", "delete"}

\* Bound: every change in flight still needs a listing.
Room(n) == asked + Cardinality({r \in requests : r.kind \in Changes /\ r.heard}) + n <= MaxRequests

FetchVars(rs) ==
  /\ asked' = asked + 1
  /\ requests' = rs \cup {New("list", NoKey, NoValue)}
  /\ loading' = TRUE

\* The effect lists the variables when the tab is mounted.
Init ==
  /\ rows \in {NoVars} \cup {[NoVars EXCEPT ![k] = CHOOSE v \in Values : TRUE] : k \in Keys}
  /\ before = rows /\ tabShown = TRUE
  /\ appVars = NoVars /\ loading = TRUE
  /\ showAddDialog = FALSE /\ editingVar = NoKey /\ deletingVar = NoKey
  /\ formKey = NoKey /\ formValue = NoValue /\ formFor = NoKey
  /\ saving = FALSE /\ hasChanges = FALSE /\ deploying = FALSE
  /\ asked = 1
  /\ requests = {[kind |-> "list", id |-> 1, key |-> NoKey, value |-> NoValue, own |-> TRUE,
                  heard |-> TRUE, state |-> "sent", data |-> NoVars]}
  /\ unseen = FALSE

\* A listing that nobody hears has no effect, and is dropped at once.
Leave ==
  /\ tabShown
  /\ tabShown' = FALSE
  /\ appVars' = NoVars /\ loading' = TRUE
  /\ showAddDialog' = FALSE /\ editingVar' = NoKey /\ deletingVar' = NoKey
  /\ formKey' = NoKey /\ formValue' = NoValue /\ formFor' = NoKey
  /\ saving' = FALSE /\ hasChanges' = FALSE /\ deploying' = FALSE
  /\ requests' = {[r EXCEPT !.heard = FALSE] : r \in {c \in requests : c.kind # "list"}}
  /\ UNCHANGED <<panel, asked, unseen>>

\* A new visit knows nothing of the changes of those before it.
Enter ==
  /\ ~ tabShown /\ Room(1)
  /\ tabShown' = TRUE
  /\ FetchVars(requests)
  /\ before' = rows /\ unseen' = \E r \in requests : r.kind \in Changes
  /\ UNCHANGED <<rows, appVars, dialogs, form, banner>>

\* The rows of the table: an app's variable hides the team's of that name, and
\* only the app's have buttons.
Merged == {k \in Keys : appVars[k] # NoValue} \cup TeamKeys
Own == {k \in Merged : appVars[k] # NoValue}
NoDialog == ~ showAddDialog /\ editingVar = NoKey /\ deletingVar = NoKey

(***************************************************************************)
(* The dialogs.                                                            *)
(***************************************************************************)
OpenAdd ==
  /\ ~ loading /\ NoDialog
  /\ showAddDialog' = TRUE
  /\ formKey' = NoKey /\ formValue' = NoValue /\ formFor' = NoKey
  /\ UNCHANGED <<panel, tabShown, listed, editingVar, deletingVar, saving, banner, requests, asked, unseen>>

\* Mutant: the text of the dialog opened before is kept.
OpenEditAsWas(k) ==
  /\ ~ loading /\ NoDialog
  /\ k \in Own
  /\ editingVar' = k
  /\ UNCHANGED <<panel, tabShown, listed, showAddDialog, deletingVar, saving, form, banner, requests, asked, unseen>>

\* The text starts as the value, or empty for a secret.
OpenEdit(k) ==
  /\ ~ loading /\ NoDialog
  /\ k \in Own
  /\ editingVar' = k
  /\ formValue' \in {appVars[k], NoValue} /\ formFor' = k
  /\ UNCHANGED <<panel, tabShown, listed, showAddDialog, deletingVar, saving, formKey, banner, requests, asked, unseen>>

OpenDelete(k) ==
  /\ ~ loading /\ NoDialog
  /\ k \in Own
  /\ deletingVar' = k
  /\ UNCHANGED <<panel, tabShown, listed, showAddDialog, editingVar, saving, form, banner, requests, asked, unseen>>

Cancel ==
  /\ ~ loading /\ ~ NoDialog
  /\ showAddDialog' = FALSE /\ editingVar' = NoKey /\ deletingVar' = NoKey
  /\ UNCHANGED <<panel, tabShown, listed, saving, form, banner, requests, asked, unseen>>

TypeKey(k) ==
  /\ ~ loading /\ showAddDialog
  /\ formKey' = k /\ formFor' = k
  /\ UNCHANGED <<panel, tabShown, listed, dialogs, formValue, banner, requests, asked, unseen>>

TypeValue(v) ==
  /\ ~ loading /\ (showAddDialog \/ editingVar # NoKey)
  /\ formValue' = v
  /\ formFor' = IF showAddDialog THEN formKey ELSE editingVar
  /\ UNCHANGED <<panel, tabShown, listed, dialogs, formKey, banner, requests, asked, unseen>>

Send(kind, key, value) ==
  /\ Room(IF kind = "deploy" THEN 1 ELSE 2)
  /\ asked' = asked + 1
  /\ requests' = requests \cup {New(kind, key, value)}

HandleAdd ==
  /\ ~ loading /\ showAddDialog /\ ~ saving
  /\ formKey # NoKey /\ formValue # NoValue
  /\ Send("add", formKey, formValue)
  /\ saving' = TRUE
  /\ UNCHANGED <<panel, tabShown, listed, showAddDialog, editingVar, deletingVar, form, banner, unseen>>

HandleEdit ==
  /\ ~ loading /\ editingVar # NoKey /\ ~ saving
  /\ formValue # NoValue
  /\ Send("edit", editingVar, formValue)
  /\ saving' = TRUE
  /\ UNCHANGED <<panel, tabShown, listed, showAddDialog, editingVar, deletingVar, form, banner, unseen>>

\* The button of the dialog also closes it.
HandleDelete ==
  /\ ~ loading /\ deletingVar # NoKey
  /\ Send("delete", deletingVar, NoValue)
  /\ deletingVar' = NoKey
  /\ UNCHANGED <<panel, tabShown, listed, showAddDialog, editingVar, saving, form, banner, unseen>>

DeployNow ==
  /\ ~ loading /\ NoDialog
  /\ hasChanges /\ ~ deploying
  /\ Send("deploy", NoKey, NoValue)
  /\ deploying' = TRUE
  /\ UNCHANGED <<panel, tabShown, listed, dialogs, form, hasChanges, unseen>>

(***************************************************************************)
(* The panel.                                                              *)
(***************************************************************************)
\* EnvironmentVariableController: a new key must not exist, an old one must.
Accepted(r) ==
  CASE r.kind = "add" -> rows[r.key] = NoValue
    [] r.kind \in {"edit", "delete"} -> rows[r.key] # NoValue
    [] OTHER -> TRUE

Write(r) ==
  /\ rows' = IF r.kind \in Changes THEN [rows EXCEPT ![r.key] = r.value] ELSE rows
  /\ before' = IF r.kind = "deploy" THEN rows ELSE before

Serve(r) ==
  /\ r \in requests /\ r.state = "sent"
  /\ \/ /\ Accepted(r) /\ Write(r)
        /\ \E state \in {"ok", "lost"} :
             requests' = Instead(requests, r, [r EXCEPT !.state = state,
                           !.data = IF r.kind = "list" /\ state = "ok" THEN rows ELSE NoVars])
     \/ /\ requests' = Instead(requests, r, [r EXCEPT !.state = "refused"])
        /\ UNCHANGED panel
  /\ UNCHANGED <<tabShown, listed, dialogs, form, banner, asked, unseen>>

(***************************************************************************)
(* Answers.                                                                *)
(***************************************************************************)
\* A refusal brings no variables.
VarsArrive(r) ==
  /\ r \in requests /\ r.heard /\ r.kind = "list" /\ r.state # "sent"
  /\ appVars' = IF r.state = "lost" THEN appVars ELSE r.data
  /\ loading' = FALSE
  /\ requests' = requests \ {r}
  /\ UNCHANGED <<panel, tabShown, dialogs, form, banner, asked, unseen>>

\* A change whose answer is lost is not announced, nor is one a deploy overtook.
Unseen(r) == unseen \/ r.state = "lost" \/ \E d \in requests : d.kind = "deploy" /\ d.heard

\* Mutant: a change that only edits a value is not announced.
EditedSilently(r) ==
  /\ r \in requests /\ r.heard /\ r.kind = "edit" /\ r.state \in {"ok", "refused", "lost"}
  /\ saving' = FALSE
  /\ IF r.state = "ok" THEN editingVar' = NoKey /\ FetchVars(requests \ {r})
     ELSE requests' = requests \ {r} /\ UNCHANGED <<editingVar, loading, asked>>
  /\ unseen' = Unseen(r)
  /\ UNCHANGED <<panel, tabShown, appVars, showAddDialog, deletingVar, form, banner>>

Edited(r) ==
  /\ r \in requests /\ r.heard /\ r.kind = "edit" /\ r.state \in {"ok", "refused", "lost"}
  /\ saving' = FALSE
  /\ IF r.state = "ok" THEN editingVar' = NoKey /\ hasChanges' = TRUE /\ FetchVars(requests \ {r})
     ELSE requests' = requests \ {r} /\ UNCHANGED <<editingVar, hasChanges, loading, asked>>
  /\ unseen' = Unseen(r)
  /\ UNCHANGED <<panel, tabShown, appVars, showAddDialog, deletingVar, form, deploying>>

Added(r) ==
  /\ r \in requests /\ r.heard /\ r.kind = "add" /\ r.state \in {"ok", "refused", "lost"}
  /\ saving' = FALSE
  /\ IF r.state = "ok" THEN showAddDialog' = FALSE /\ hasChanges' = TRUE /\ FetchVars(requests \ {r})
     ELSE requests' = requests \ {r} /\ UNCHANGED <<showAddDialog, hasChanges, loading, asked>>
  /\ unseen' = Unseen(r)
  /\ UNCHANGED <<panel, tabShown, appVars, editingVar, deletingVar, form, deploying>>

\* A refusal is taken for success; a lost answer ends the handler.
Deleted(r) ==
  /\ r \in requests /\ r.heard /\ r.kind = "delete" /\ r.state \in {"ok", "refused", "lost"}
  /\ IF r.state # "lost" THEN deletingVar' = NoKey /\ hasChanges' = TRUE /\ FetchVars(requests \ {r})
     ELSE requests' = requests \ {r} /\ UNCHANGED <<deletingVar, hasChanges, loading, asked>>
  /\ unseen' = Unseen(r)
  /\ UNCHANGED <<panel, tabShown, appVars, showAddDialog, editingVar, saving, form, deploying>>

\* The banner goes when a deploy succeeds, whatever was changed meanwhile.
Deployed(r) ==
  /\ r \in requests /\ r.heard /\ r.kind = "deploy" /\ r.state # "sent"
  /\ hasChanges' = (hasChanges /\ r.state # "ok")
  /\ deploying' = FALSE
  /\ requests' = requests \ {r}
  /\ unseen' = (unseen \/ \E c \in requests : c.kind \in Changes)
  /\ UNCHANGED <<panel, tabShown, listed, dialogs, form, asked>>

\* The tab that asked is gone.
Unheeded(r) ==
  /\ r \in requests /\ ~ r.heard /\ r.state # "sent"
  /\ requests' = requests \ {r}
  /\ UNCHANGED <<panel, tabShown, listed, dialogs, form, banner, asked, unseen>>

Answer(r) == VarsArrive(r) \/ Added(r) \/ Edited(r) \/ Deleted(r) \/ Deployed(r) \/ Unheeded(r)

Next ==
  \/ Leave \/ Enter
  \/ OpenAdd \/ Cancel \/ HandleAdd \/ HandleEdit \/ HandleDelete \/ DeployNow
  \/ \E k \in Keys : OpenEdit(k) \/ OpenDelete(k) \/ TypeKey(k)
  \/ \E v \in Values : TypeValue(v)
  \/ \E r \in requests : Serve(r) \/ Answer(r)

Spec == Init /\ [][Next]_vars

\* A request is served, or fails, and its answer is handled.
Served == \E r \in requests : Serve(r) \/ Answer(r)

-----------------------------------------------------------------------------
(***************************************************************************)
(* When nothing is in flight, variables that were changed in this visit    *)
(* after the last deploy are announced by the banner, unless (unseen) the  *)
(* answer to a change was lost, a change was saved while a deploy was      *)
(* under way, or one of an earlier visit was still on its way.             *)
(***************************************************************************)
ChangesAreAnnounced ==
  tabShown /\ requests = {} /\ ~ unseen /\ rows # before => hasChanges

(***************************************************************************)
(* The dialogs share one form: what they send for a variable was entered   *)
(* for that variable.                                                      *)
(***************************************************************************)
SendsItsOwnText == \A r \in requests : r.kind = "edit" => r.own
=============================================================================
