---------------------------- MODULE TeamStorage ----------------------------
(***************************************************************************)
(* The team's storage endpoints (pages/settings/team-storage.tsx), one of  *)
(* which may be the default for the backups of its apps.  One dialog adds  *)
(* and edits; it also tests the connection of the endpoint it edits.       *)
(*                                                                         *)
(* The panel makes an endpoint the default in two statements: one writes   *)
(* it, one takes the mark off the others.                                  *)
(***************************************************************************)
EXTENDS Pages

VARIABLES
  rows, endpoints,                 \* in the panel; as listed
  dialogOpen, editingEndpoint,     \* NoName: the dialog adds one
  isDefault,                       \* the checkbox, the one field that is told apart
  saving, deletingEndpoint,
  testing, testResult,             \* the endpoint whose test is reported, or NoName
  requests, asked,
  doubtful, raced                  \* history: see ListIsCurrent, AtMostOneDefault

tests == <<testing, testResult>>
vars == <<rows, endpoints, dialogOpen, editingEndpoint, isDefault, saving, deletingEndpoint, tests,
          requests, asked, doubtful, raced>>

\* Bound: what was deleted is not added again.
Listing == [Names -> {"none", "plain", "default", "gone"}]
NoRows == [n \in Names |-> "none"]
There(t) == {n \in Names : t[n] \in {"plain", "default"}}
Defaults == {n \in Names : rows[n] = "default"}

Request == [kind : {"list", "create", "update", "delete", "default", "test"}, id : Nat,
            endpoint : Names \cup {NoName}, isDefault : BOOLEAN,
            state : {"sent", "half"} \cup Outcomes, data : Listing]

TypeOK ==
  /\ rows \in Listing /\ endpoints \in Listing
  /\ dialogOpen \in BOOLEAN /\ editingEndpoint \in Names \cup {NoName}
  /\ isDefault \in BOOLEAN /\ saving \in BOOLEAN /\ deletingEndpoint \in Names \cup {NoName}
  /\ testing \in BOOLEAN /\ testResult \in Names \cup {NoName}
  /\ requests \subseteq Request /\ asked \in Nat
  /\ doubtful \in BOOLEAN /\ raced \in BOOLEAN

\* The page comes with the list; there is one endpoint, the default.
Init ==
  /\ rows = [NoRows EXCEPT ![CHOOSE n \in Names : TRUE] = "default"] /\ endpoints = rows
  /\ dialogOpen = FALSE /\ editingEndpoint = NoName
  /\ isDefault = FALSE /\ saving = FALSE /\ deletingEndpoint = NoName
  /\ testing = FALSE /\ testResult = NoName
  /\ requests = {} /\ asked = 0
  /\ doubtful = FALSE /\ raced = FALSE

NoDialog == ~ dialogOpen /\ deletingEndpoint = NoName

New(kind, n) ==
  [kind |-> kind, id |-> asked + 1, endpoint |-> n, isDefault |-> kind \in {"create", "update"} /\ isDefault,
   state |-> "sent", data |-> NoRows]

\* Bound: every change in flight still needs a listing.
Send(kind, n) ==
  /\ asked + Cardinality({r \in requests : r.kind \notin {"list", "test"}})
           + (IF kind = "test" THEN 1 ELSE 2) <= MaxRequests
  /\ asked' = asked + 1
  /\ requests' = requests \cup {New(kind, n)}

\* fetchEndpoints; rs are the other requests in flight.
FetchEndpoints(rs) == asked' = asked + 1 /\ requests' = rs \cup {New("list", NoName)}

(***************************************************************************)
(* The dialogs and buttons.                                                *)
(***************************************************************************)
OpenCreate ==
  /\ NoDialog
  /\ dialogOpen' = TRUE /\ editingEndpoint' = NoName
  /\ isDefault' = FALSE /\ testResult' = NoName
  /\ UNCHANGED <<rows, endpoints, saving, deletingEndpoint, testing, requests, asked, doubtful, raced>>

OpenEdit(n) ==
  /\ NoDialog
  /\ n \in There(endpoints)
  /\ dialogOpen' = TRUE /\ editingEndpoint' = n
  /\ isDefault' = (endpoints[n] = "default") /\ testResult' = NoName
  /\ UNCHANGED <<rows, endpoints, saving, deletingEndpoint, testing, requests, asked, doubtful, raced>>

EditForm ==
  /\ dialogOpen
  /\ isDefault' = ~ isDefault
  /\ UNCHANGED <<rows, endpoints, dialogOpen, editingEndpoint, saving, deletingEndpoint, tests,
                 requests, asked, doubtful, raced>>

HandleSubmit ==
  /\ dialogOpen /\ ~ saving
  /\ Send(IF editingEndpoint = NoName THEN "create" ELSE "update", editingEndpoint)
  /\ saving' = TRUE
  /\ UNCHANGED <<rows, endpoints, dialogOpen, editingEndpoint, isDefault, deletingEndpoint, tests, doubtful, raced>>

HandleTest ==
  /\ dialogOpen /\ editingEndpoint # NoName /\ ~ testing
  /\ Send("test", editingEndpoint)
  /\ testing' = TRUE /\ testResult' = NoName
  /\ UNCHANGED <<rows, endpoints, dialogOpen, editingEndpoint, isDefault, saving, deletingEndpoint, doubtful, raced>>

AskToDelete(n) ==
  /\ NoDialog
  /\ n \in There(endpoints)
  /\ deletingEndpoint' = n
  /\ UNCHANGED <<rows, endpoints, dialogOpen, editingEndpoint, isDefault, saving, tests, requests, asked, doubtful, raced>>

Cancel ==
  /\ ~ NoDialog
  /\ dialogOpen' = FALSE /\ deletingEndpoint' = NoName
  /\ UNCHANGED <<rows, endpoints, editingEndpoint, isDefault, saving, tests, requests, asked, doubtful, raced>>

\* The button of the dialog also closes it.
HandleDelete ==
  /\ deletingEndpoint # NoName
  /\ Send("delete", deletingEndpoint)
  /\ deletingEndpoint' = NoName
  /\ UNCHANGED <<rows, endpoints, dialogOpen, editingEndpoint, isDefault, saving, tests, doubtful, raced>>

HandleSetDefault(n) ==
  /\ NoDialog
  /\ n \in There(endpoints) /\ endpoints[n] # "default"
  /\ Send("default", n)
  /\ UNCHANGED <<rows, endpoints, dialogOpen, editingEndpoint, isDefault, saving, deletingEndpoint, tests, doubtful, raced>>

(***************************************************************************)
(* The panel (StorageEndpointController).                                  *)
(***************************************************************************)
page == <<endpoints, dialogOpen, editingEndpoint, isDefault, saving, deletingEndpoint, tests, asked, doubtful>>

Marked(b) == IF b THEN "default" ELSE "plain"
Unmarked(t, except) == [m \in Names |-> IF t[m] = "default" /\ m # except THEN "plain" ELSE t[m]]
HalfDone == \E o \in requests : o.state = "half"

\* store and update write the endpoint ...
Write(r, n) ==
  /\ r \in requests /\ r.state = "sent"
  /\ \/ r.kind = "create" /\ rows[n] = "none"
     \/ r.kind = "update" /\ n = r.endpoint /\ n \in There(rows)
  /\ rows' = [rows EXCEPT ![n] = Marked(r.isDefault)]
  /\ \E state \in IF r.isDefault THEN {"half"} ELSE {"ok", "lost"} :
       requests' = Instead(requests, r, [r EXCEPT !.endpoint = n, !.state = state])
  /\ raced' = (raced \/ (r.isDefault /\ HalfDone))
  /\ UNCHANGED page

\* ... setDefault takes the mark off all of them, and remembers in isDefault
\* whether the endpoint it has loaded had it.
Unmark(r) ==
  /\ r \in requests /\ r.state = "sent" /\ r.kind = "default"
  /\ r.endpoint \in There(rows)
  /\ rows' = Unmarked(rows, NoName)
  /\ requests' = Instead(requests, r, [r EXCEPT !.state = "half", !.isDefault = rows[r.endpoint] = "default"])
  /\ raced' = (raced \/ HalfDone)
  /\ UNCHANGED page

\* Mutant: the mark is not taken off the others.
SecondWriteOnly(r) ==
  /\ r \in requests /\ r.state = "half"
  /\ rows' = IF r.kind = "default" /\ ~ r.isDefault /\ r.endpoint \in There(rows)
             THEN [rows EXCEPT ![r.endpoint] = "default"] ELSE rows
  /\ \E state \in {"ok", "lost"} : requests' = Instead(requests, r, [r EXCEPT !.state = state, !.isDefault = FALSE])
  /\ UNCHANGED <<page, raced>>

\* The second statement.  An endpoint loaded with the mark has not changed, so
\* that nothing is written for it: no default is left.
SecondWrite(r) ==
  /\ r \in requests /\ r.state = "half"
  /\ rows' = CASE r.kind # "default" -> Unmarked(rows, r.endpoint)
               [] r.kind = "default" /\ ~ r.isDefault /\ r.endpoint \in There(rows) ->
                    [rows EXCEPT ![r.endpoint] = "default"]
               [] OTHER -> rows
  /\ \E state \in {"ok", "lost"} : requests' = Instead(requests, r, [r EXCEPT !.state = state, !.isDefault = FALSE])
  /\ UNCHANGED <<page, raced>>

\* It fails, and the first one stands.
SecondFails(r) ==
  /\ r \in requests /\ r.state = "half"
  /\ requests' = Instead(requests, r, [r EXCEPT !.state = "refused", !.isDefault = FALSE])
  /\ raced' = (raced \/ r.kind # "default") /\ doubtful' = TRUE
  /\ UNCHANGED <<rows, endpoints, dialogOpen, editingEndpoint, isDefault, saving, deletingEndpoint, tests, asked>>

ServeOther(r) ==
  /\ r \in requests /\ r.state = "sent" /\ r.kind \in {"list", "delete", "test"}
  /\ r.kind = "delete" => r.endpoint \in There(rows)
  /\ rows' = IF r.kind = "delete" THEN [rows EXCEPT ![r.endpoint] = "gone"] ELSE rows
  /\ \E state \in {"ok", "lost"} :
       requests' = Instead(requests, r, [r EXCEPT !.state = state,
                     !.data = IF r.kind = "list" /\ state = "ok" THEN rows ELSE NoRows])
  /\ UNCHANGED <<page, raced>>

\* A listing that is refused breaks the page; that is left out.
Refuse(r) ==
  /\ r \in requests /\ r.state = "sent" /\ r.kind # "list"
  /\ requests' = Instead(requests, r, [r EXCEPT !.state = "refused"])
  /\ UNCHANGED <<rows, page, raced>>

(***************************************************************************)
(* Answers.                                                                *)
(***************************************************************************)
EndpointsArrive(r) ==
  /\ r \in requests /\ r.kind = "list" /\ r.state \in {"ok", "lost"}
  /\ endpoints' = IF r.state = "ok" THEN r.data ELSE endpoints
  /\ doubtful' = (doubtful \/ r.state # "ok" \/ \E o \in requests : o.kind = "list" /\ o.id < r.id)
  /\ requests' = requests \ {r}
  /\ UNCHANGED <<rows, dialogOpen, editingEndpoint, isDefault, saving, deletingEndpoint, tests, asked, raced>>

\* Nothing catches an answer that does not arrive: the button stays "Saving...".
Saved(r) ==
  /\ r \in requests /\ r.kind \in {"create", "update"} /\ r.state \in Outcomes
  /\ saving' = IF r.state = "lost" THEN saving ELSE FALSE
  /\ IF r.state = "ok" THEN dialogOpen' = FALSE /\ FetchEndpoints(requests \ {r})
     ELSE requests' = requests \ {r} /\ UNCHANGED <<dialogOpen, asked>>
  /\ doubtful' = (doubtful \/ r.state = "lost")
  /\ UNCHANGED <<rows, endpoints, editingEndpoint, isDefault, deletingEndpoint, tests, raced>>

\* handleDelete and handleSetDefault list again whatever the answer says.
Done(r) ==
  /\ r \in requests /\ r.kind \in {"delete", "default"} /\ r.state \in Outcomes
  /\ deletingEndpoint' = IF r.kind = "delete" /\ r.state # "lost" THEN NoName ELSE deletingEndpoint
  /\ IF r.state # "lost" THEN FetchEndpoints(requests \ {r}) ELSE requests' = requests \ {r} /\ UNCHANGED asked
  /\ doubtful' = (doubtful \/ r.state = "lost")
  /\ UNCHANGED <<rows, endpoints, dialogOpen, editingEndpoint, isDefault, saving, tests, raced>>

\* Shown in whatever dialog is open.
Tested(r) ==
  /\ r \in requests /\ r.kind = "test" /\ r.state \in Outcomes
  /\ testing' = FALSE /\ testResult' = r.endpoint
  /\ requests' = requests \ {r}
  /\ UNCHANGED <<rows, endpoints, dialogOpen, editingEndpoint, isDefault, saving, deletingEndpoint, asked, doubtful, raced>>

Serve(r) ==
  \/ \E n \in Names : Write(r, n)
  \/ Unmark(r) \/ SecondWrite(r) \/ SecondFails(r) \/ ServeOther(r) \/ Refuse(r)
Answer(r) == EndpointsArrive(r) \/ Saved(r) \/ Done(r) \/ Tested(r)

Next ==
  \/ OpenCreate \/ EditForm \/ HandleSubmit \/ HandleTest \/ Cancel \/ HandleDelete
  \/ \E n \in Names : OpenEdit(n) \/ AskToDelete(n) \/ HandleSetDefault(n)
  \/ \E r \in requests : Serve(r) \/ Answer(r)

Spec == Init /\ [][Next]_vars

-----------------------------------------------------------------------------
(***************************************************************************)
(* When nothing is in flight the endpoints and the mark shown are the      *)
(* panel's, unless (doubtful) an answer was lost, listings overtook each   *)
(* other, or a request failed between its two statements.                  *)
(***************************************************************************)
ListIsCurrent == requests = {} /\ ~ doubtful => endpoints = rows

(***************************************************************************)
(* Between requests the team has at most one default, unless (raced) two   *)
(* that set it ran at the same time, or one failed after it had written    *)
(* an endpoint with the mark.  It may have none: setDefault can fail in    *)
(* between, and leaves none when it is repeated.                           *)
(***************************************************************************)
AtMostOneDefault == ~ HalfDone /\ ~ raced => \A m, n \in Defaults : m = n
=============================================================================
