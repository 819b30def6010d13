----------------------------- MODULE DomainsTab -----------------------------
(***************************************************************************)
(* One visit of the Domains tab (domains-tab.tsx): the custom domains of   *)
(* an app, the dialogs that add and remove one, and the check of its DNS   *)
(* records.  While the list is fetched a skeleton stands for all of it.    *)
(***************************************************************************)
EXTENDS Pages

VARIABLES
  rows,                            \* the app's domains in the panel
  domains, loading,                \* as listed
  showAddDialog, formDomain, saving,
  verifying,                       \* the row whose button says "Verifying..."
  deletingDomain,
  requests, asked,
  doubtful                         \* history: see ListIsCurrent

list == <<domains, loading>>
form == <<showAddDialog, formDomain, saving>>
vars == <<rows, list, form, verifying, deletingDomain, requests, asked, doubtful>>

\* Bound: a domain that was removed is not added again.
States == {"none", "pending", "verified", "gone"}
Listing == [Names -> States]
NoRows == [n \in Names |-> "none"]

Request == [kind : {"list", "add", "verify", "delete"}, id : Nat,
            domain : Names \cup {NoName}, state : {"sent"} \cup Outcomes, data : Listing]

TypeOK ==
  /\ rows \in Listing /\ domains \in Listing /\ loading \in BOOLEAN
  /\ showAddDialog \in BOOLEAN /\ formDomain \in Names \cup {NoName} /\ saving \in BOOLEAN
  /\ verifying \in Names \cup {NoName} /\ deletingDomain \in Names \cup {NoName}
  /\ requests \subseteq Request /\ asked \in Nat
  /\ doubtful \in BOOLEAN

New(kind, n) == [kind |-> kind, id |-> asked + 1, domain |-> n, state |-> "sent", data |-> NoRows]

\* Bound: every change in flight still needs a listing.
Send(kind, n) ==
  /\ asked + Cardinality({r \in requests : r.kind # "list"}) + 2 <= MaxRequests
  /\ asked' = asked + 1
  /\ requests' = requests \cup {New(kind, n)}

\* fetchDomains; rs are the other requests in flight.
FetchDomains(rs) ==
  /\ asked' = asked + 1
  /\ requests' = rs \cup {New("list", NoName)}
  /\ loading' = TRUE

\* The effect lists the domains when the tab is mounted.  The app has one.
Init ==
  /\ rows = [NoRows EXCEPT ![CHOOSE n \in Names : TRUE] = "pending"]
  /\ domains = NoRows /\ loading = TRUE
  /\ showAddDialog = FALSE /\ formDomain = NoName /\ saving = FALSE
  /\ verifying = NoName /\ deletingDomain = NoName
  /\ asked = 1
  /\ requests = {[kind |-> "list", id |-> 1, domain |-> NoName, state |-> "sent", data |-> NoRows]}
  /\ doubtful = FALSE

Idle == ~ loading /\ ~ showAddDialog /\ deletingDomain = NoName

\* The rows of the table.
Listed == {n \in Names : domains[n] \in {"pending", "verified"}}

(***************************************************************************)
(* The dialogs and buttons.                                                *)
(***************************************************************************)
AddDomain ==
  /\ Idle
  /\ showAddDialog' = TRUE /\ formDomain' = NoName
  /\ UNCHANGED <<rows, list, saving, verifying, deletingDomain, requests, asked, doubtful>>

TypeDomain(n) ==
  /\ ~ loading /\ showAddDialog
  /\ formDomain' = n
  /\ UNCHANGED <<rows, list, showAddDialog, saving, verifying, deletingDomain, requests, asked, doubtful>>

HandleAdd ==
  /\ ~ loading /\ showAddDialog
  /\ ~ saving /\ formDomain # NoName
  /\ Send("add", formDomain)
  /\ saving' = TRUE
  /\ UNCHANGED <<rows, list, showAddDialog, formDomain, verifying, deletingDomain, doubtful>>

HandleVerify(n) ==
  /\ Idle
  /\ n \in Listed /\ domains[n] = "pending" /\ verifying # n
  /\ Send("verify", n)
  /\ verifying' = n
  /\ UNCHANGED <<rows, list, form, deletingDomain, doubtful>>

AskToDelete(n) ==
  /\ Idle
  /\ n \in Listed
  /\ deletingDomain' = n
  /\ UNCHANGED <<rows, list, form, verifying, requests, asked, doubtful>>

Cancel ==
  /\ ~ loading /\ (showAddDialog \/ deletingDomain # NoName)
  /\ showAddDialog' = FALSE /\ deletingDomain' = NoName
  /\ UNCHANGED <<rows, list, formDomain, saving, verifying, requests, asked, doubtful>>

\* The button of the dialog also closes it.
HandleDelete ==
  /\ ~ loading /\ deletingDomain # NoName
  /\ Send("delete", deletingDomain)
  /\ deletingDomain' = NoName
  /\ UNCHANGED <<rows, list, form, verifying, doubtful>>

(***************************************************************************)
(* The panel.  A domain is unique; its records may not be there (yet).     *)
(***************************************************************************)
Accepted(r) ==
  CASE r.kind = "add" -> rows[r.domain] = "none"
    [] r.kind \in {"verify", "delete"} -> rows[r.domain] \in {"pending", "verified"}
    [] OTHER -> TRUE

Becomes(r) ==
  CASE r.kind = "add" -> "pending" [] r.kind = "verify" -> "verified" [] r.kind = "delete" -> "gone"

Serve(r) ==
  /\ r \in requests /\ r.state = "sent"
  /\ \E state \in Outcomes :
       /\ state # "refused" => Accepted(r)
       /\ rows' = IF state # "refused" /\ r.kind # "list" THEN [rows EXCEPT ![r.domain] = Becomes(r)] ELSE rows
       /\ requests' = Instead(requests, r, [r EXCEPT !.state = state,
                       !.data = IF r.kind = "list" /\ state = "ok" THEN rows ELSE NoRows])
  /\ UNCHANGED <<list, form, verifying, deletingDomain, asked, doubtful>>

(***************************************************************************)
(* Answers.                                                                *)
(***************************************************************************)
Overtakes(r) == \E o \in requests : o.kind = "list" /\ o.id < r.id

\* A refusal brings no domains.
DomainsArrive(r) ==
  /\ r \in requests /\ r.kind = "list" /\ r.state # "sent"
  /\ domains' = IF r.state = "lost" THEN domains ELSE r.data
  /\ loading' = FALSE
  /\ doubtful' = (doubtful \/ r.state # "ok" \/ Overtakes(r))
  /\ requests' = requests \ {r}
  /\ UNCHANGED <<rows, form, verifying, deletingDomain, asked>>

Added(r) ==
  /\ r \in requests /\ r.kind = "add" /\ r.state # "sent"
  /\ saving' = FALSE
  /\ IF r.state = "ok"
     THEN showAddDialog' = FALSE /\ formDomain' = NoName /\ FetchDomains(requests \ {r})
     ELSE requests' = requests \ {r} /\ UNCHANGED <<showAddDialog, formDomain, asked, loading>>
  /\ doubtful' = (doubtful \/ r.state = "lost")
  /\ UNCHANGED <<rows, domains, verifying, deletingDomain>>

\* The mark is taken off whatever row it is on.
Verified(r) ==
  /\ r \in requests /\ r.kind = "verify" /\ r.state # "sent"
  /\ verifying' = NoName
  /\ IF r.state = "ok" THEN FetchDomains(requests \ {r})
     ELSE requests' = requests \ {r} /\ UNCHANGED <<asked, loading>>
  /\ doubtful' = (doubtful \/ r.state = "lost")
  /\ UNCHANGED <<rows, domains, form, deletingDomain>>

\* Whatever the answer says, it closes the dialog and lists again.
Deleted(r) ==
  /\ r \in requests /\ r.kind = "delete" /\ r.state # "sent"
  /\ IF r.state # "lost" THEN deletingDomain' = NoName /\ FetchDomains(requests \ {r})
     ELSE requests' = requests \ {r} /\ UNCHANGED <<deletingDomain, asked, loading>>
  /\ doubtful' = (doubtful \/ r.state = "lost")
  /\ UNCHANGED <<rows, domains, form, verifying>>

Answer(r) == DomainsArrive(r) \/ Added(r) \/ Verified(r) \/ Deleted(r)

Next ==
  \/ AddDomain \/ HandleAdd \/ Cancel \/ HandleDelete
  \/ \E n \in Names : TypeDomain(n) \/ HandleVerify(n) \/ AskToDelete(n)
  \/ \E r \in requests : Serve(r) \/ Answer(r)

Spec == Init /\ [][Next]_vars

\* A request is served, or fails, and its answer is handled.
Served == \E r \in requests : Serve(r) \/ Answer(r)

-----------------------------------------------------------------------------
(***************************************************************************)
(* When nothing is in flight the rows shown are the panel's, states        *)
(* included, unless the answer to a change was lost, or a listing failed   *)
(* or was overtaken (doubtful).                                            *)
(***************************************************************************)
ListIsCurrent == requests = {} /\ ~ doubtful => \A n \in Names : domains[n] = rows[n]
=============================================================================
