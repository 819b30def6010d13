----------------------------- MODULE ApiTokens -----------------------------
(***************************************************************************)
(* The API tokens of a user (pages/settings/api-tokens.tsx): the form that *)
(* creates one, the banner that shows it once, and the table that revokes  *)
(* them, without a dialog.  A token is named by the request that made it.  *)
(***************************************************************************)
EXTENDS Pages

Ids == Nat \ {0}

VARIABLES
  rows,                            \* the user's tokens in the panel
  tokens,                          \* as listed
  name,                            \* is there a text in the form?
  newToken,                        \* the token in the banner, or 0
  creating,
  deletingId,                      \* the row whose button says "Revoking...", or 0
  requests, asked,
  lost                             \* history: see ListIsCurrent

vars == <<rows, tokens, name, newToken, creating, deletingId, requests, asked, lost>>

Request == [kind : {"create", "delete", "reload"}, id : Ids, token : Ids \cup {0},
            state : {"sent"} \cup Outcomes, data : SUBSET Ids]

TypeOK ==
  /\ rows \subseteq Ids /\ tokens \subseteq Ids
  /\ name \in BOOLEAN /\ newToken \in Ids \cup {0}
  /\ creating \in BOOLEAN /\ deletingId \in Ids \cup {0}
  /\ requests \subseteq Request /\ asked \in Nat
  /\ lost \in BOOLEAN

Init ==
  /\ rows = {} /\ tokens = {}
  /\ name = FALSE /\ newToken = 0 /\ creating = FALSE /\ deletingId = 0
  /\ requests = {} /\ asked = 0
  /\ lost = FALSE

Send(rs, kind, token) ==
  /\ asked' = asked + 1
  /\ requests' = rs \cup {[kind |-> kind, id |-> asked + 1, token |-> token, state |-> "sent", data |-> {}]}

Reload(rs) == Send(rs, "reload", 0)

\* Bound: every change in flight still needs a reload.
Room == asked + Cardinality({r \in requests : r.kind # "reload"}) + 2 <= MaxRequests

TypeName ==
  /\ name' = ~ name
  /\ UNCHANGED <<rows, tokens, newToken, creating, deletingId, requests, asked, lost>>

CreateToken ==
  /\ ~ creating /\ name
  /\ Room /\ Send(requests, "create", 0)
  /\ creating' = TRUE
  /\ UNCHANGED <<rows, tokens, name, newToken, deletingId, lost>>

DeleteToken(t) ==
  /\ t \in tokens /\ deletingId # t
  /\ Room /\ Send(requests, "delete", t)
  /\ deletingId' = t
  /\ UNCHANGED <<rows, tokens, name, newToken, creating, lost>>

\* ApiTokenController.
Serve(r) ==
  /\ r \in requests /\ r.state = "sent"
  /\ \E state \in Outcomes :
       /\ state # "refused" /\ r.kind = "delete" => r.token \in rows
       /\ rows' = CASE state # "refused" /\ r.kind = "create" -> rows \cup {r.id}
                    [] state # "refused" /\ r.kind = "delete" -> rows \ {r.token}
                    [] OTHER -> rows
       /\ requests' = Instead(requests, r, [r EXCEPT !.state = state,
                       !.data = IF r.kind = "reload" /\ state = "ok" THEN rows ELSE {}])
  /\ UNCHANGED <<tokens, name, newToken, creating, deletingId, asked, lost>>

Created(r) ==
  /\ r \in requests /\ r.kind = "create" /\ r.state # "sent"
  /\ creating' = FALSE
  /\ IF r.state = "ok"
     THEN newToken' = r.id /\ name' = FALSE /\ Reload(requests \ {r})
     ELSE requests' = requests \ {r} /\ UNCHANGED <<newToken, name, asked>>
  /\ lost' = (lost \/ r.state = "lost")
  /\ UNCHANGED <<rows, tokens, deletingId>>

\* The mark is taken off whatever row it is on; a refusal counts as done.
Deleted(r) ==
  /\ r \in requests /\ r.kind = "delete" /\ r.state # "sent"
  /\ deletingId' = 0
  /\ IF r.state # "lost" THEN Reload(requests \ {r}) ELSE requests' = requests \ {r} /\ UNCHANGED asked
  /\ lost' = (lost \/ r.state = "lost")
  /\ UNCHANGED <<rows, tokens, name, newToken, creating>>

Reloaded(r) ==
  /\ r \in requests /\ r.kind = "reload" /\ r.state # "sent"
  /\ tokens' = IF r.state = "ok" THEN r.data ELSE tokens
  /\ lost' = (lost \/ r.state # "ok" \/ \E o \in requests : o.kind = "reload" /\ o.id < r.id)
  /\ requests' = requests \ {r}
  /\ UNCHANGED <<rows, name, newToken, creating, deletingId, asked>>

Next ==
  \/ TypeName \/ CreateToken
  \/ \E t \in tokens : DeleteToken(t)
  \/ \E r \in requests : Serve(r) \/ Created(r) \/ Deleted(r) \/ Reloaded(r)

Spec == Init /\ [][Next]_vars

-----------------------------------------------------------------------------
(***************************************************************************)
(* When nothing is in flight every token that works is listed, and can be  *)
(* revoked, unless an answer was lost or reloads overtook each other.      *)
(***************************************************************************)
ListIsCurrent == requests = {} /\ ~ lost => tokens = rows
=============================================================================
