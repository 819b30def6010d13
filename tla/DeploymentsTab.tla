--------------------------- MODULE DeploymentsTab ---------------------------
(***************************************************************************)
(* The Deployments tab (deployments-tab.tsx): the card that connects the   *)
(* app to a GitHub repository and then shows the secret of its webhook,    *)
(* and the table of deployments with its rollback buttons.  Leaving the    *)
(* tab unmounts both: they forget what they wait for, while the answers    *)
(* still make the page reload.                                             *)
(*                                                                         *)
(* Deployments are numbered; those modelled succeeded and have a build, so *)
(* that the newest is the active one and a rollback appends one more.      *)
(* Secrets are numbered as they are made.                                  *)
(***************************************************************************)
EXTENDS Pages

VARIABLES
  connected, secret,               \* the panel: github_repo and github_webhook_secret (0: none)
  made,                            \* number of secrets made
  deployments,                     \* the panel: number of deployments
  app,                             \* the page's copy: [connected, deployments]
  tabShown,
  repo,                            \* is there a repository in the form?
  webhookSecret,                   \* the secret shown (0: none)
  connecting, disconnecting, deploying,
  confirmId, rollingBack,          \* rows of the table, or 0
  requests, asked,
  doubtful                         \* history: see SecretIsCurrent

panel == <<connected, secret, made, deployments>>
card == <<repo, webhookSecret, connecting, disconnecting, deploying>>
table == <<confirmId, rollingBack>>
vars == <<panel, app, tabShown, card, table, requests, asked, doubtful>>

App == [connected : BOOLEAN, deployments : Nat]
Request == [kind : {"connect", "disconnect", "deploy", "rollback", "reload"},
            id : Nat, row : Nat,
            heard : BOOLEAN,       \* is the tab that sent it still mounted?
            state : {"sent"} \cup Outcomes,
            secret : Nat, app : App]

TypeOK ==
  /\ connected \in BOOLEAN /\ secret \in Nat /\ made \in Nat
  /\ deployments \in Nat /\ app \in App /\ tabShown \in BOOLEAN
  /\ repo \in BOOLEAN /\ webhookSecret \in Nat
  /\ connecting \in BOOLEAN /\ disconnecting \in BOOLEAN /\ deploying \in BOOLEAN
  /\ confirmId \in Nat /\ rollingBack \in Nat
  /\ requests \subseteq Request /\ asked \in Nat
  /\ doubtful \in BOOLEAN

\* An app with a few deployments that is not connected.
Init ==
  /\ connected = FALSE /\ secret = 0 /\ made = 0 /\ deployments = 3
  /\ app = [connected |-> FALSE, deployments |-> deployments] /\ tabShown = TRUE
  /\ repo = FALSE /\ webhookSecret = 0
  /\ connecting = FALSE /\ disconnecting = FALSE /\ deploying = FALSE
  /\ confirmId = 0 /\ rollingBack = 0
  /\ requests = {} /\ asked = 0
  /\ doubtful = FALSE

New(kind, row) ==
  [kind |-> kind, id |-> asked + 1, row |-> row, heard |-> TRUE, state |-> "sent", secret |-> 0, app |-> app]

\* Bound: every other request in flight still needs a reload.
Send(kind, row) ==
  /\ asked + Cardinality({r \in requests : r.kind # "reload"}) + 2 <= MaxRequests
  /\ asked' = asked + 1
  /\ requests' = requests \cup {New(kind, row)}

\* A secret that is on its way when the tab is left will not be shown.
Leave ==
  /\ tabShown
  /\ tabShown' = FALSE
  /\ repo' = FALSE /\ webhookSecret' = 0
  /\ connecting' = FALSE /\ disconnecting' = FALSE /\ deploying' = FALSE
  /\ confirmId' = 0 /\ rollingBack' = 0
  /\ requests' = {[r EXCEPT !.heard = FALSE] : r \in requests}
  /\ doubtful' = (doubtful \/ connecting)
  /\ UNCHANGED <<panel, app, asked>>

\* The form starts with the repository there is.
Enter ==
  /\ ~ tabShown
  /\ tabShown' = TRUE
  /\ repo' = app.connected
  /\ UNCHANGED <<panel, app, webhookSecret, connecting, disconnecting, deploying, table, requests, asked, doubtful>>

(***************************************************************************)
(* The GitHub card.  The form is there while the page's copy has no        *)
(* repository, the other two buttons once it has.                          *)
(***************************************************************************)
TypeRepo ==
  /\ tabShown /\ ~ app.connected
  /\ repo' = ~ repo
  /\ UNCHANGED <<panel, app, tabShown, webhookSecret, connecting, disconnecting, deploying, table, requests,
                 asked, doubtful>>

HandleConnect ==
  /\ tabShown /\ ~ app.connected /\ ~ connecting /\ repo
  /\ Send("connect", 0)
  /\ connecting' = TRUE
  /\ UNCHANGED <<panel, app, tabShown, repo, webhookSecret, disconnecting, deploying, table, doubtful>>

HandleDisconnect ==
  /\ tabShown /\ app.connected /\ ~ disconnecting
  /\ Send("disconnect", 0)
  /\ disconnecting' = TRUE
  /\ UNCHANGED <<panel, app, tabShown, repo, webhookSecret, connecting, deploying, table, doubtful>>

HandleDeployFromGit ==
  /\ tabShown /\ app.connected /\ ~ deploying
  /\ Send("deploy", 0)
  /\ deploying' = TRUE
  /\ UNCHANGED <<panel, app, tabShown, repo, webhookSecret, connecting, disconnecting, table, doubtful>>

(***************************************************************************)
(* The table.                                                              *)
(***************************************************************************)
ActiveDeployment == app.deployments
CanRollback == 1 .. ActiveDeployment - 1

\* "Rollback" in a row, and the cross beside "Confirm".
SetConfirmId(d) ==
  /\ tabShown
  /\ d \in CanRollback \cup {0} /\ d # confirmId
  /\ confirmId' = d
  /\ UNCHANGED <<panel, app, tabShown, card, rollingBack, requests, asked, doubtful>>

\* "Confirm".  The row that is marked is the one clicked last in this visit.
HandleRollback ==
  /\ confirmId \in CanRollback /\ rollingBack # confirmId
  /\ Send("rollback", confirmId)
  /\ rollingBack' = confirmId /\ confirmId' = 0
  /\ UNCHANGED <<panel, app, tabShown, card, doubtful>>

(***************************************************************************)
(* The panel.                                                              *)
(***************************************************************************)
\* A new secret with every connection.
GithubConnect(r) ==
  /\ r \in requests /\ r.kind = "connect" /\ r.state = "sent"
  /\ connected' = TRUE /\ made' = made + 1 /\ secret' = made'
  /\ \E state \in {"ok", "lost"} :
       requests' = Instead(requests, r, [r EXCEPT !.state = state, !.secret = secret'])
  /\ UNCHANGED <<deployments, app, tabShown, card, table, asked, doubtful>>

GithubDisconnect(r) ==
  /\ r \in requests /\ r.kind = "disconnect" /\ r.state = "sent"
  /\ connected' = FALSE /\ secret' = 0
  /\ \E state \in {"ok", "lost"} : requests' = Instead(requests, r, [r EXCEPT !.state = state])
  /\ UNCHANGED <<made, deployments, app, tabShown, card, table, asked, doubtful>>

\* githubDeploy only queues a job; rollback appends a deployment.
GithubDeployOrRollback(r) ==
  /\ r \in requests /\ r.state = "sent"
  /\ \/ r.kind = "deploy" /\ connected /\ UNCHANGED deployments
     \/ r.kind = "rollback" /\ deployments' = deployments + 1
  /\ \E state \in {"ok", "lost"} : requests' = Instead(requests, r, [r EXCEPT !.state = state])
  /\ UNCHANGED <<connected, secret, made, app, tabShown, card, table, asked, doubtful>>

\* The job of a deploy, which may have come from anywhere, is done.
DeployDone ==
  /\ deployments < MaxRequests
  /\ deployments' = deployments + 1
  /\ UNCHANGED <<connected, secret, made, app, tabShown, card, table, requests, asked, doubtful>>

Refused(r) ==
  /\ r \in requests /\ r.kind # "reload" /\ r.state = "sent"
  /\ requests' = Instead(requests, r, [r EXCEPT !.state = "refused"])
  /\ UNCHANGED <<panel, app, tabShown, card, table, asked, doubtful>>

Reload(r) ==
  /\ r \in requests /\ r.kind = "reload" /\ r.state = "sent"
  /\ \E state \in {"ok", "lost"} :
       requests' = Instead(requests, r,
                     [r EXCEPT !.state = state,
                               !.app = IF state = "ok" THEN [connected |-> connected, deployments |-> deployments]
                                       ELSE @])
  /\ UNCHANGED <<panel, app, tabShown, card, table, asked, doubtful>>

(***************************************************************************)
(* Answers.  A tab that was left does not hear them.                       *)
(***************************************************************************)
\* The handler goes on to a reload, or not.
Then(r, reload) ==
  IF reload THEN asked' = asked + 1 /\ requests' = (requests \ {r}) \cup {New("reload", 0)}
  ELSE requests' = requests \ {r} /\ UNCHANGED asked

\* The status is not looked at: a refusal is announced as a connection, and
\* leaves no secret.
Connected(r) ==
  /\ r \in requests /\ r.kind = "connect" /\ r.state # "sent"
  /\ webhookSecret' = IF r.heard /\ r.state # "lost" THEN r.secret ELSE webhookSecret
  /\ connecting' = (connecting /\ ~ r.heard)
  /\ Then(r, r.state # "lost")
  /\ doubtful' = (doubtful \/ r.state = "lost")
  /\ UNCHANGED <<panel, app, tabShown, repo, disconnecting, deploying, table>>

\* Nor is it here.
Disconnected(r) ==
  /\ r \in requests /\ r.kind = "disconnect" /\ r.state # "sent"
  /\ IF r.heard /\ r.state # "lost" THEN webhookSecret' = 0 /\ repo' = FALSE ELSE UNCHANGED <<webhookSecret, repo>>
  /\ disconnecting' = (disconnecting /\ ~ r.heard)
  /\ Then(r, r.state # "lost")
  /\ doubtful' = (doubtful \/ r.state = "lost")
  /\ UNCHANGED <<panel, app, tabShown, connecting, deploying, table>>

DeployQueued(r) ==
  /\ r \in requests /\ r.kind = "deploy" /\ r.state # "sent"
  /\ deploying' = (deploying /\ ~ r.heard)
  /\ Then(r, r.state # "lost")
  /\ UNCHANGED <<panel, app, tabShown, repo, webhookSecret, connecting, disconnecting, table, doubtful>>

RolledBack(r) ==
  /\ r \in requests /\ r.kind = "rollback" /\ r.state # "sent"
  /\ rollingBack' = IF r.heard THEN 0 ELSE rollingBack
  /\ Then(r, r.state = "ok")
  /\ UNCHANGED <<panel, app, tabShown, card, confirmId, doubtful>>

Reloaded(r) ==
  /\ r \in requests /\ r.kind = "reload" /\ r.state # "sent"
  /\ app' = IF r.state = "ok" THEN r.app ELSE app
  /\ requests' = requests \ {r}
  /\ doubtful' = (doubtful \/ r.state = "lost" \/ \E o \in requests : o.kind = "reload" /\ o.id < r.id)
  /\ UNCHANGED <<panel, tabShown, card, table, asked>>

Serve(r) == GithubConnect(r) \/ GithubDisconnect(r) \/ GithubDeployOrRollback(r) \/ Refused(r) \/ Reload(r)
Answer(r) == Connected(r) \/ Disconnected(r) \/ DeployQueued(r) \/ RolledBack(r) \/ Reloaded(r)

Next ==
  \/ Leave \/ Enter
  \/ TypeRepo \/ HandleConnect \/ HandleDisconnect \/ HandleDeployFromGit
  \/ \E d \in CanRollback \cup {0} : SetConfirmId(d)
  \/ HandleRollback \/ DeployDone
  \/ \E r \in requests : Serve(r) \/ Answer(r)

Spec == Init /\ [][Next]_vars

-----------------------------------------------------------------------------
(***************************************************************************)
(* The secret shown, to be copied into the repository's settings, is the   *)
(* one the panel checks the webhook with, once all is quiet, unless        *)
(* (doubtful) an answer was lost, reloads overtook each other, or the tab  *)
(* was left while a connection was being made.                             *)
(***************************************************************************)
SecretIsCurrent ==
  app.connected /\ webhookSecret # 0 /\ requests = {} /\ ~ doubtful => webhookSecret = secret
=============================================================================
