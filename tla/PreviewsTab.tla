---------------------------- MODULE PreviewsTab ----------------------------
(***************************************************************************)
(* The Previews tab (previews-tab.tsx): a row per preview environment, each *)
(* with a dialog that destroys it and a mark of its own.  Pushes make       *)
(* previews and a job removes expired ones meanwhile; the page hears of     *)
(* that with its next copy of the app.                                      *)
(***************************************************************************)
EXTENDS Pages

VARIABLES
  rows,                            \* the previews in the panel
  previews,                        \* those of the page's copy of the app
  tabShown,
  dialog,                          \* the row whose dialog is open
  deleting,                        \* rows so marked
  requests, asked,
  confirmed,                       \* history: what a dialog was confirmed for
  elsewhere,                       \* history: previews made or removed by others
  doubtful                         \* history: see ListIsCurrent

vars == <<rows, previews, tabShown, dialog, deleting, requests, asked, confirmed, elsewhere, doubtful>>

\* A preview that was destroyed does not come back: a later one is another.
States == {"none", "live", "gone"}

Request == [kind : {"delete", "reload"}, id : Nat, preview : Names \cup {NoName},
            state : {"sent"} \cup Outcomes, data : SUBSET Names]

TypeOK ==
  /\ rows \in [Names -> States] /\ previews \subseteq Names
  /\ tabShown \in BOOLEAN
  /\ dialog \in Names \cup {NoName} /\ deleting \subseteq Names
  /\ requests \subseteq Request /\ asked \in Nat
  /\ confirmed \subseteq Names /\ elsewhere \subseteq Names /\ doubtful \in BOOLEAN

Live == {n \in Names : rows[n] = "live"}

Init ==
  /\ rows = [n \in Names |-> IF n = CHOOSE m \in Names : TRUE THEN "live" ELSE "none"]
  /\ previews = Live
  /\ tabShown = TRUE /\ dialog = NoName /\ deleting = {}
  /\ requests = {} /\ asked = 0
  /\ confirmed = {} /\ elsewhere = {} /\ doubtful = FALSE

Send(rs, kind, n) ==
  /\ asked' = asked + 1
  /\ requests' = rs \cup {[kind |-> kind, id |-> asked + 1, preview |-> n, state |-> "sent", data |-> {}]}

(***************************************************************************)
(* The tab.                                                                *)
(***************************************************************************)
Rows == IF tabShown THEN previews ELSE {}

OpenDialog(n) ==
  /\ n \in Rows \ deleting /\ dialog = NoName
  /\ dialog' = n
  /\ UNCHANGED <<rows, previews, tabShown, deleting, requests, asked, confirmed, elsewhere, doubtful>>

Cancel ==
  /\ dialog # NoName
  /\ dialog' = NoName
  /\ UNCHANGED <<rows, previews, tabShown, deleting, requests, asked, confirmed, elsewhere, doubtful>>

\* Bound: every deletion in flight still needs a reload.
HandleDelete ==
  /\ dialog # NoName
  /\ asked + Cardinality({r \in requests : r.kind = "delete"}) + 2 <= MaxRequests
  /\ Send(requests, "delete", dialog)
  /\ deleting' = deleting \cup {dialog} /\ confirmed' = confirmed \cup {dialog}
  /\ dialog' = NoName
  /\ UNCHANGED <<rows, previews, tabShown, elsewhere, doubtful>>

\* The rows lose their marks with the tab.
ShowTab ==
  /\ tabShown' = ~ tabShown
  /\ dialog' = NoName /\ deleting' = {}
  /\ UNCHANGED <<rows, previews, requests, asked, confirmed, elsewhere, doubtful>>

(***************************************************************************)
(* The panel.                                                              *)
(***************************************************************************)
\* destroyPreview finds the row, or answers 404.
Serve(r) ==
  /\ r \in requests /\ r.state = "sent"
  /\ \E state \in Outcomes :
       /\ state # "refused" /\ r.kind = "delete" => rows[r.preview] = "live"
       /\ rows' = IF state # "refused" /\ r.kind = "delete" THEN [rows EXCEPT ![r.preview] = "gone"] ELSE rows
       /\ requests' = Instead(requests, r, [r EXCEPT !.state = state,
                       !.data = IF r.kind = "reload" /\ state = "ok" THEN Live ELSE {}])
  /\ UNCHANGED <<previews, tabShown, dialog, deleting, asked, confirmed, elsewhere, doubtful>>

\* PreviewDeployJob and CleanupExpiredPreviewsJob.
Job(n) ==
  /\ rows[n] # "gone"
  /\ rows' = [rows EXCEPT ![n] = IF @ = "none" THEN "live" ELSE "gone"]
  /\ elsewhere' = elsewhere \cup {n} /\ doubtful' = TRUE
  /\ UNCHANGED <<previews, tabShown, dialog, deleting, requests, asked, confirmed>>

(***************************************************************************)
(* Answers.  They are heard whether or not the tab is still shown.         *)
(***************************************************************************)
Deleted(r) ==
  /\ r \in requests /\ r.kind = "delete" /\ r.state # "sent"
  /\ deleting' = deleting \ {r.preview}
  /\ IF r.state = "ok" THEN Send(requests \ {r}, "reload", NoName)
     ELSE requests' = requests \ {r} /\ UNCHANGED asked
  /\ doubtful' = (doubtful \/ r.state = "lost")
  /\ UNCHANGED <<rows, previews, tabShown, dialog, confirmed, elsewhere>>

\* A row that is no longer there takes its dialog and its mark with it.
Reloaded(r) ==
  /\ r \in requests /\ r.kind = "reload" /\ r.state # "sent"
  /\ previews' = IF r.state = "ok" THEN r.data ELSE previews
  /\ dialog' = IF dialog \in previews' THEN dialog ELSE NoName
  /\ deleting' = deleting \cap previews'
  /\ doubtful' = (doubtful \/ r.state # "ok" \/ \E o \in requests : o.kind = "reload" /\ o.id < r.id)
  /\ requests' = requests \ {r}
  /\ UNCHANGED <<rows, tabShown, asked, confirmed, elsewhere>>

Next ==
  \/ Cancel \/ HandleDelete \/ ShowTab
  \/ \E n \in Names : OpenDialog(n) \/ Job(n)
  \/ \E r \in requests : Serve(r) \/ Deleted(r) \/ Reloaded(r)

Spec == Init /\ [][Next]_vars

-----------------------------------------------------------------------------
(***************************************************************************)
(* When nothing is in flight the rows are the live previews, unless a job  *)
(* made or removed one, an answer was lost, or reloads overtook each other.*)
(***************************************************************************)
ListIsCurrent == requests = {} /\ ~ doubtful => previews = Live

(***************************************************************************)
(* Only what its dialog was confirmed for is destroyed, or what expired.   *)
(***************************************************************************)
DestroysWhatWasConfirmed == [][\A n \in Names : rows[n] = "live" /\ rows'[n] # "live" => n \in confirmed \cup elsewhere']_vars
=============================================================================
