------------------------------ MODULE TeamEnv ------------------------------
(***************************************************************************)
(* The team's environment variables (pages/settings/team-env.tsx): a list, *)
(* which the page brings with it and which is fetched again after every    *)
(* change, and the dialogs that add, edit and delete a variable.  The add  *)
(* and the edit dialog share one form.  One visit of the page.             *)
(***************************************************************************)
EXTENDS Pages

VARIABLES
  rows,                            \* the team's variables in the panel
  teamVars,                        \* as listed (vars in the code)
  showAddDialog, editingVar, deletingVar, saving,
  formValue,                       \* the value in the form the dialogs share
  formFor,                         \* formKey of the add dialog; for the edit dialog a history
                                   \* variable: whose dialog the value was entered in
  requests, asked,
  doubtful                         \* history: see ListIsCurrent

dialogs == <<showAddDialog, editingVar, deletingVar, saving>>
form == <<formValue, formFor>>
vars == <<rows, teamVars, dialogs, form, requests, asked, doubtful>>

Env == [Keys -> Values \cup {NoValue}]
NoVars == [k \in Keys |-> NoValue]

Request == [kind : {"list", "add", "edit", "delete"}, id : Nat,
            key : Keys \cup {NoKey}, value : Values \cup {NoValue}, own : BOOLEAN,
            state : {"sent"} \cup Outcomes, data : Env]

TypeOK ==
  /\ rows \in Env /\ teamVars \in Env
  /\ showAddDialog \in BOOLEAN /\ saving \in BOOLEAN
  /\ editingVar \in Keys \cup {NoKey} /\ deletingVar \in Keys \cup {NoKey}
  /\ formValue \in Values \cup {NoValue} /\ formFor \in Keys \cup {NoKey}
  /\ requests \subseteq Request /\ asked \in Nat
  /\ doubtful \in BOOLEAN

\* The page comes with the list.
Init ==
  /\ rows = [k \in Keys |-> IF k \in TeamKeys THEN CHOOSE v \in Values : TRUE ELSE NoValue]
  /\ teamVars = rows
  /\ showAddDialog = FALSE /\ editingVar = NoKey /\ deletingVar = NoKey /\ saving = FALSE
  /\ formValue = NoValue /\ formFor = NoKey
  /\ requests = {} /\ asked = 0
  /\ doubtful = FALSE

NoDialog == ~ showAddDialog /\ editingVar = NoKey /\ deletingVar = NoKey

\* The rows of the table; a row has a button to edit and one to delete it.
Listed == {k \in Keys : teamVars[k] # NoValue}

New(kind, key, value) ==
  [kind |-> kind, id |-> asked + 1, key |-> key, value |-> value, own |-> kind = "edit" => key = formFor,
   state |-> "sent", data |-> NoVars]

\* fetchVars; rs are the other requests in flight.
FetchVars(rs) == asked' = asked + 1 /\ requests' = rs \cup {New("list", NoKey, NoValue)}

\* Bound: every change in flight still needs a listing.
Send(kind, key, value) ==
  /\ asked + Cardinality({r \in requests : r.kind # "list"}) + 2 <= MaxRequests
  /\ asked' = asked + 1
  /\ requests' = requests \cup {New(kind, key, value)}

(***************************************************************************)
(* The dialogs.                                                            *)
(***************************************************************************)
OpenAdd ==
  /\ NoDialog
  /\ showAddDialog' = TRUE
  /\ formValue' = NoValue /\ formFor' = NoKey
  /\ UNCHANGED <<rows, teamVars, editingVar, deletingVar, saving, requests, asked, doubtful>>

\* The text starts as the value, or empty for a secret.
OpenEdit(k) ==
  /\ NoDialog
  /\ k \in Listed
  /\ editingVar' = k
  /\ formValue' \in {teamVars[k], NoValue} /\ formFor' = k
  /\ UNCHANGED <<rows, teamVars, showAddDialog, deletingVar, saving, requests, asked, doubtful>>

OpenDelete(k) ==
  /\ NoDialog
  /\ k \in Listed
  /\ deletingVar' = k
  /\ UNCHANGED <<rows, teamVars, showAddDialog, editingVar, saving, form, requests, asked, doubtful>>

Cancel ==
  /\ ~ NoDialog
  /\ showAddDialog' = FALSE /\ editingVar' = NoKey /\ deletingVar' = NoKey
  /\ UNCHANGED <<rows, teamVars, saving, form, requests, asked, doubtful>>

\* Typing in the add dialog ...
TypeNew(k, v) ==
  /\ showAddDialog
  /\ formValue' = v /\ formFor' = k
  /\ UNCHANGED <<rows, teamVars, dialogs, requests, asked, doubtful>>

\* ... and in the edit dialog.
TypeValue(v) ==
  /\ editingVar # NoKey
  /\ formValue' = v /\ formFor' = editingVar
  /\ UNCHANGED <<rows, teamVars, dialogs, requests, asked, doubtful>>

HandleAdd ==
  /\ showAddDialog /\ ~ saving
  /\ formFor # NoKey /\ formValue # NoValue
  /\ Send("add", formFor, formValue)
  /\ saving' = TRUE
  /\ UNCHANGED <<rows, teamVars, showAddDialog, editingVar, deletingVar, form, doubtful>>

HandleEdit ==
  /\ editingVar # NoKey /\ ~ saving
  /\ formValue # NoValue
  /\ Send("edit", editingVar, formValue)
  /\ saving' = TRUE
  /\ UNCHANGED <<rows, teamVars, showAddDialog, editingVar, deletingVar, form, doubtful>>

\* The button of the dialog also closes it.
HandleDelete ==
  /\ deletingVar # NoKey
  /\ Send("delete", deletingVar, NoValue)
  /\ deletingVar' = NoKey
  /\ UNCHANGED <<rows, teamVars, showAddDialog, editingVar, saving, form, doubtful>>

(***************************************************************************)
(* The panel.                                                              *)
(***************************************************************************)
\* TeamEnvironmentVariableController: a new key must not exist, an old one must.
Accepted(r) ==
  CASE r.kind = "add" -> rows[r.key] = NoValue
    [] r.kind \in {"edit", "delete"} -> rows[r.key] # NoValue
    [] OTHER -> TRUE

Serve(r) ==
  /\ r \in requests /\ r.state = "sent"
  /\ \E state \in Outcomes :
       /\ state # "refused" => Accepted(r)
       /\ rows' = IF state # "refused" /\ r.kind # "list" THEN [rows EXCEPT ![r.key] = r.value] ELSE rows
       /\ requests' = Instead(requests, r, [r EXCEPT !.state = state,
                       !.data = IF r.kind = "list" /\ state = "ok" THEN rows ELSE NoVars])
  /\ UNCHANGED <<teamVars, dialogs, form, asked, doubtful>>

(***************************************************************************)
(* Answers.                                                                *)
(***************************************************************************)
\* There is no order among listings, and no second try.
Overtakes(r) == \E o \in requests : o.kind = "list" /\ o.id < r.id

\* A refusal brings no variables.
VarsArrive(r) ==
  /\ r \in requests /\ r.kind = "list" /\ r.state # "sent"
  /\ teamVars' = IF r.state = "lost" THEN teamVars ELSE r.data
  /\ doubtful' = (doubtful \/ r.state # "ok" \/ Overtakes(r))
  /\ requests' = requests \ {r}
  /\ UNCHANGED <<rows, dialogs, form, asked>>

Added(r) ==
  /\ r \in requests /\ r.kind = "add" /\ r.state # "sent"
  /\ saving' = FALSE
  /\ IF r.state = "ok" THEN showAddDialog' = FALSE /\ FetchVars(requests \ {r})
     ELSE requests' = requests \ {r} /\ UNCHANGED <<showAddDialog, asked>>
  /\ doubtful' = (doubtful \/ r.state = "lost")
  /\ UNCHANGED <<rows, teamVars, editingVar, deletingVar, form>>

\* Mutant: the dialog is closed, and nothing is listed again.
EditedOnly(r) ==
  /\ r \in requests /\ r.kind = "edit" /\ r.state # "sent"
  /\ saving' = FALSE
  /\ editingVar' = IF r.state = "ok" THEN NoKey ELSE editingVar
  /\ requests' = requests \ {r}
  /\ doubtful' = (doubtful \/ r.state = "lost")
  /\ UNCHANGED <<rows, teamVars, showAddDialog, deletingVar, form, asked>>

Edited(r) ==
  /\ r \in requests /\ r.kind = "edit" /\ r.state # "sent"
  /\ saving' = FALSE
  /\ IF r.state = "ok" THEN editingVar' = NoKey /\ FetchVars(requests \ {r})
     ELSE requests' = requests \ {r} /\ UNCHANGED <<editingVar, asked>>
  /\ doubtful' = (doubtful \/ r.state = "lost")
  /\ UNCHANGED <<rows, teamVars, showAddDialog, deletingVar, form>>

\* Whatever the answer says, it closes the delete dialog and lists again.
Deleted(r) ==
  /\ r \in requests /\ r.kind = "delete" /\ r.state # "sent"
  /\ IF r.state # "lost" THEN deletingVar' = NoKey /\ FetchVars(requests \ {r})
     ELSE requests' = requests \ {r} /\ UNCHANGED <<deletingVar, asked>>
  /\ doubtful' = (doubtful \/ r.state = "lost")
  /\ UNCHANGED <<rows, teamVars, showAddDialog, editingVar, saving, form>>

Answer(r) == VarsArrive(r) \/ Added(r) \/ Edited(r) \/ Deleted(r)

Next ==
  \/ OpenAdd \/ Cancel \/ HandleAdd \/ HandleEdit \/ HandleDelete
  \/ \E k \in Keys : OpenEdit(k) \/ OpenDelete(k)
  \/ \E k \in Keys, v \in Values : TypeNew(k, v)
  \/ \E v \in Values : TypeValue(v)
  \/ \E r \in requests : Serve(r) \/ Answer(r)

Spec == Init /\ [][Next]_vars

-----------------------------------------------------------------------------
(***************************************************************************)
(* When nothing is in flight the list is the panel's, unless the answer to *)
(* a change was lost, or a listing failed or was overtaken (doubtful).     *)
(***************************************************************************)
ListIsCurrent == requests = {} /\ ~ doubtful => teamVars = rows

(***************************************************************************)
(* The dialogs share one form: the value sent for a variable was entered   *)
(* for that variable.                                                      *)
(***************************************************************************)
SendsItsOwnText == \A r \in requests : r.kind = "edit" => r.own
=============================================================================
