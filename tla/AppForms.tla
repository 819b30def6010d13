------------------------------ MODULE AppForms ------------------------------
(***************************************************************************)
(* The forms of an app's page: the name and the slug in the header         *)
(* (show.tsx), the cards of the Settings tab (settings-tab.tsx) and the    *)
(* worker definitions (workers-tab.tsx).  All of them start from the page's *)
(* copy of the app, and they keep it up to date in different ways:         *)
(*   Fields    are opened, saved, and followed by a reload of the page;    *)
(*   Compared  have unsaved changes when they differ from the page's copy, *)
(*             and a save is followed by a reload;                         *)
(*   Flagged   have unsaved changes once they were edited until a save is  *)
(*             answered, and nothing is reloaded.                          *)
(***************************************************************************)
EXTENDS Pages

VARIABLES
  tab,                             \* the tab shown
  stored,                          \* the app's row in the panel
  app,                             \* the page's copy
  form,                            \* what the forms show
  open,                            \* forms on the page; the fields opened
  dirty, saving,                   \* the forms so marked
  saves, sent,                     \* requests in flight; their number
  doubtful                         \* history: see CleanMeansStored

vars == <<tab, stored, app, form, open, dirty, saving, saves, sent, doubtful>>

TabOf(f) == IF f = "workers" THEN "workers" ELSE "settings"
FormsOf(t) == {f \in Forms \ Fields : TabOf(f) = t}

\* Rows of a list may be blank: those just added, or not filled in.
Text == [value : Texts, blank : BOOLEAN]
Plain(v) == [value |-> v, blank |-> FALSE]
Data == [Forms -> Texts]

Save == [kind : {"save"}, id : Nat, form : Forms, text : Text, heard : BOOLEAN,
         state : {"sent", "ok", "refused", "lost"}]
Reload == [kind : {"reload"}, id : Nat, state : {"sent", "ok", "lost"}, data : Data]

TypeOK ==
  /\ tab \in {"overview", "settings", "workers"}
  /\ stored \in Data /\ app \in Data
  /\ form \in [Forms -> Text]
  /\ open \subseteq Forms /\ dirty \subseteq Forms /\ saving \subseteq Forms
  /\ saves \subseteq Save \cup Reload /\ sent \in Nat
  /\ doubtful \subseteq Forms

Init ==
  /\ tab = "overview"
  /\ stored = [f \in Forms |-> Initial] /\ app = stored
  /\ form = [f \in Forms |-> Plain(Initial)]
  /\ open = {} /\ dirty = {} /\ saving = {}
  /\ saves = {} /\ sent = 0
  /\ doubtful = {}

\* Has the form unsaved changes?
HasChanges(f) ==
  CASE f \in Fields -> f \in open
    [] f \in Compared -> form[f].value # app[f]
    [] f \in Flagged -> f \in dirty

(***************************************************************************)
(* Tabs.  The forms of a tab start from the page's copy each time it is    *)
(* shown.  For those that are flagged that copy is of the last reload,     *)
(* which their own saves do not ask for.                                   *)
(***************************************************************************)
ShowTab(t) ==
  /\ t # tab
  /\ tab' = t
  /\ form' = [f \in Forms |-> IF f \in Fields THEN form[f]
                              ELSE Plain(IF f \in FormsOf(t) THEN app[f] ELSE Initial)]
  /\ open' = (open \cap Fields) \cup FormsOf(t)
  /\ dirty' = {} /\ saving' = saving \cap Fields
  /\ saves' = {IF s.kind = "save" THEN [s EXCEPT !.heard = s.form \in Fields] ELSE s : s \in saves}
  /\ doubtful' = (doubtful \ (Flagged \cap FormsOf(t))) \cup {f \in Flagged \cap FormsOf(t) : app[f] # stored[f]}
  /\ UNCHANGED <<stored, app, sent>>

(***************************************************************************)
(* Editing.                                                                *)
(***************************************************************************)
\* The pencil beside the name or the URL.
OpenField(f) ==
  /\ f \in Forms \cap Fields /\ f \notin open
  /\ open' = open \cup {f}
  /\ UNCHANGED <<tab, stored, app, form, dirty, saving, saves, sent, doubtful>>

CancelField(f) ==
  /\ f \in open \cap Fields
  /\ open' = open \ {f}
  /\ form' = [form EXCEPT ![f] = Plain(app[f])]
  /\ UNCHANGED <<tab, stored, app, dirty, saving, saves, sent, doubtful>>

TypeField(f, v) ==
  /\ f \in open \cap Fields /\ f \notin saving
  /\ form' = [form EXCEPT ![f] = Plain(v)]
  /\ UNCHANGED <<tab, stored, app, open, dirty, saving, saves, sent, doubtful>>

\* Any input of the Settings form or the health check.
EditSettings(f, v) ==
  /\ f \in open \cap Compared
  /\ form' = [form EXCEPT ![f] = Plain(v)]
  /\ UNCHANGED <<tab, stored, app, open, dirty, saving, saves, sent, doubtful>>

\* A row of a list is added (blank), filled in or removed.
EditList(f, x) ==
  /\ f \in open \cap Flagged
  /\ form' = [form EXCEPT ![f] = x]
  /\ dirty' = dirty \cup {f}
  /\ UNCHANGED <<tab, stored, app, open, saving, saves, sent, doubtful>>

(***************************************************************************)
(* Saving.                                                                 *)
(***************************************************************************)
\* Bound: every save in flight still needs a reload.
Room(n) == sent + Cardinality({s \in saves : s.kind = "save"}) + n <= MaxSaves

\* Blank rows of the allowlist and the ports are left out.
Payload(f) == IF f = "workers" THEN form[f] ELSE Plain(form[f].value)

Send(f) ==
  /\ Room(2)
  /\ sent' = sent + 1
  /\ saves' = saves \cup {[kind |-> "save", id |-> sent + 1, form |-> f, text |-> Payload(f),
                           heard |-> TRUE, state |-> "sent"]}
  /\ saving' = saving \cup {f}

HandleSave(f) ==
  /\ f \in open \ Fields /\ f \notin saving
  /\ HasChanges(f)
  /\ Send(f)
  /\ UNCHANGED <<tab, stored, app, form, open, dirty, doubtful>>

\* A field that is unchanged is only closed.
HandleRename(f) ==
  /\ f \in open \cap Fields /\ f \notin saving
  /\ IF form[f].value = app[f]
     THEN open' = open \ {f} /\ UNCHANGED <<saves, sent, saving>>
     ELSE Send(f) /\ UNCHANGED open
  /\ UNCHANGED <<tab, stored, app, form, dirty, doubtful>>

(***************************************************************************)
(* The panel.                                                              *)
(***************************************************************************)
\* rename, updateSettings, updateIpAllowlist, ...  A worker without a command
\* is refused; anything else may be (validation, plan limits, a taken port).
ServeSave(s) ==
  /\ s \in saves /\ s.kind = "save" /\ s.state = "sent"
  /\ \/ /\ ~ s.text.blank
        /\ stored' = [stored EXCEPT ![s.form] = s.text.value]
        /\ \E state \in {"ok", "lost"} :
             /\ saves' = (saves \ {s}) \cup {[s EXCEPT !.state = state]}
             /\ doubtful' = IF state = "lost" \/ ~ s.heard THEN doubtful \cup {s.form} ELSE doubtful
     \/ /\ saves' = (saves \ {s}) \cup {[s EXCEPT !.state = "refused"]}
        /\ UNCHANGED <<stored, doubtful>>
  /\ UNCHANGED <<tab, app, form, open, dirty, saving, sent>>

\* A reload that is lost leaves the page's copy as it is.
ServeReload(s) ==
  /\ s \in saves /\ s.kind = "reload" /\ s.state = "sent"
  /\ \E state \in {"ok", "lost"} :
       /\ saves' = (saves \ {s}) \cup {[s EXCEPT !.state = state, !.data = stored]}
       /\ doubtful' = IF state = "lost" THEN doubtful \cup (Forms \ Flagged) ELSE doubtful
  /\ UNCHANGED <<tab, stored, app, form, open, dirty, saving, sent>>

(***************************************************************************)
(* Answers.                                                                *)
(***************************************************************************)
Asking(rs) ==
  /\ sent' = sent + 1
  /\ saves' = rs \cup {[kind |-> "reload", id |-> sent + 1, state |-> "sent", data |-> app]}

\* saveField and handleRenameName, handleRenameSlug; handleSave of the settings.
Saved(s) ==
  /\ s \in saves /\ s.kind = "save" /\ s.state # "sent"
  /\ s.form \in Fields \cup Compared
  /\ saving' = IF s.heard THEN saving \ {s.form} ELSE saving
  /\ IF s.state = "ok"
     THEN open' = open \ (Fields \cap {s.form}) /\ Asking(saves \ {s})
     ELSE saves' = saves \ {s} /\ UNCHANGED <<open, sent>>
  /\ UNCHANGED <<tab, stored, app, form, dirty, doubtful>>

\* Does the tab take the answer for success?  The worker definitions do not
\* look at its status.
Taken(s) == s.state = "ok" \/ (s.state = "refused" /\ s.form = "workers")

\* Mutant: the answer is taken for success whatever its status.
SavedListAnyway(s) ==
  /\ s \in saves /\ s.kind = "save" /\ s.state # "sent"
  /\ s.form \in Flagged
  /\ saves' = saves \ {s}
  /\ IF s.heard
     THEN /\ saving' = saving \ {s.form}
          /\ dirty' = IF s.state = "lost" THEN dirty ELSE dirty \ {s.form}
          /\ doubtful' = IF Taken(s) /\ (s.state = "refused" \/ form[s.form].value # s.text.value)
                         THEN doubtful \cup {s.form} ELSE doubtful
     ELSE UNCHANGED <<saving, dirty, doubtful>>
  /\ UNCHANGED <<tab, stored, app, form, open, sent>>

\* The mark goes, also for what was edited since.
SavedList(s) ==
  /\ s \in saves /\ s.kind = "save" /\ s.state # "sent"
  /\ s.form \in Flagged
  /\ saves' = saves \ {s}
  /\ IF s.heard
     THEN /\ saving' = saving \ {s.form}
          /\ dirty' = IF Taken(s) THEN dirty \ {s.form} ELSE dirty
          /\ doubtful' = IF Taken(s) /\ (s.state = "refused" \/ form[s.form].value # s.text.value)
                         THEN doubtful \cup {s.form} ELSE doubtful
     ELSE UNCHANGED <<saving, dirty, doubtful>>
  /\ UNCHANGED <<tab, stored, app, form, open, sent>>

\* The copy is replaced; the forms that are open keep what they show.
Reloaded(s) ==
  /\ s \in saves /\ s.kind = "reload" /\ s.state # "sent"
  /\ app' = IF s.state = "ok" THEN s.data ELSE app
  /\ saves' = saves \ {s}
  /\ doubtful' = IF \E o \in saves : o.kind = "reload" /\ o.id < s.id
                 THEN doubtful \cup (Forms \ Flagged) ELSE doubtful
  /\ UNCHANGED <<tab, stored, form, open, dirty, saving, sent>>

Next ==
  \/ \E t \in {"overview", "settings", "workers"} : ShowTab(t)
  \/ \E f \in Forms :
       \/ OpenField(f) \/ CancelField(f)
       \/ \E v \in Texts : TypeField(f, v) \/ EditSettings(f, v)
       \/ \E x \in Text : EditList(f, x)
       \/ HandleSave(f) \/ HandleRename(f)
  \/ \E s \in saves : ServeSave(s) \/ ServeReload(s) \/ Saved(s) \/ SavedList(s) \/ Reloaded(s)

Spec == Init /\ [][Next]_vars

-----------------------------------------------------------------------------
(***************************************************************************)
(* A form without unsaved changes shows what the panel stores, once all is *)
(* quiet.  It may not when (doubtful)                                      *)
(*   - the answer to a save or a reload was lost, or came out of order, or *)
(*     a save was carried out after its tab was left;                      *)
(*   - a flagged form was edited while it was being saved;                 *)
(*   - a flagged form starts from a copy older than its last save;         *)
(*   - worker definitions were refused.                                    *)
(***************************************************************************)
Seen(f) == IF f \in Fields THEN app[f] ELSE form[f].value

CleanMeansStored ==
  saves = {} => \A f \in (open \cup Fields) \cap Forms :
    ~ HasChanges(f) /\ f \notin doubtful => Seen(f) = stored[f]
=============================================================================
