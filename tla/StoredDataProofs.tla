-------------------------- MODULE StoredDataProofs --------------------------
(***************************************************************************)
(* Proofs about the pages that edit data the panel keeps for long: the     *)
(* environment (EnvironmentTab), the databases (DatabaseTab), a team's     *)
(* storage endpoints (TeamStorage) and the forms of an app (AppForms).     *)
(* The page changes its copy, the panel the rows, in two steps with an     *)
(* answer between them that may be lost; each inductive invariant says,    *)
(* for every request in flight, how far the two copies may be apart.       *)
(***************************************************************************)
EXTENDS ListingProofs

-----------------------------------------------------------------------------
\* The Environment tab.
EnvironmentChanges == {"add", "edit", "delete"}
EnvironmentMade(r) == r.kind \in EnvironmentChanges /\ r.state \in {"ok", "lost"}

\* The form of the dialog that edits holds what was entered there.
FormIsOwn == envEditingVar # NoKey => ~ envShowAddDialog /\ envFormFor = envEditingVar

\* What was changed in this visit is announced, or the page has not been told yet.
ToldOrPending ==
  envTabShown /\ ~ unseen /\ envRows # before =>
    hasChanges \/ \E r \in envRequests : EnvironmentMade(r)

\* A deploy that is about to take the banner away has before everything, or a
\* change is in flight.
DeployedOrPending ==
  envTabShown /\ ~ unseen /\ envRows # before =>
    \A d \in envRequests : d.kind = "deploy" /\ d.heard /\ d.state = "ok"
      => \E c \in envRequests : c.kind \in EnvironmentChanges

\* The changes in flight are of this visit.
ChangesAreHeard ==
  envTabShown /\ ~ unseen => \A c \in envRequests : c.kind \in EnvironmentChanges => c.heard

EnvironmentIInv ==
  /\ Environment!TypeOK
  /\ Environment!SendsItsOwnText
  /\ FormIsOwn
  /\ ToldOrPending
  /\ DeployedOrPending
  /\ ChangesAreHeard

USE EnvironmentAssumption

LEMMA NoVarsInEnv == Environment!NoVars \in Environment!Env
BY DEF Environment!NoVars, Environment!Env

LEMMA EnvironmentInitIInv == Environment!Init => EnvironmentIInv
<1> SUFFICES ASSUME Environment!Init PROVE EnvironmentIInv
  OBVIOUS
<1>1. envRows \in Environment!Env
  BY NoVarsInEnv DEF Environment!Init, Environment!Env
<1>2. envRequests \subseteq Environment!Request
  BY NoVarsInEnv DEF Environment!Init, Environment!Request
<1>3. Environment!TypeOK
  BY <1>1, <1>2, NoVarsInEnv DEF Environment!Init, Environment!TypeOK
<1>4. ToldOrPending /\ DeployedOrPending /\ ChangesAreHeard
  BY DEF Environment!Init, ToldOrPending, DeployedOrPending, ChangesAreHeard
<1> QED
  BY <1>3, <1>4 DEF Environment!Init, EnvironmentIInv, Environment!SendsItsOwnText, FormIsOwn

(***************************************************************************)
(* The dialogs.                                                            *)
(***************************************************************************)
LEMMA EnvironmentDialogIInv ==
  ASSUME EnvironmentIInv,
         \/ Environment!OpenAdd \/ Environment!Cancel
         \/ \E k \in Keys : Environment!OpenEdit(k) \/ Environment!OpenDelete(k)
              \/ Environment!TypeKey(k)
         \/ \E v \in Values : Environment!TypeValue(v)
  PROVE  EnvironmentIInv'
<1> USE DEF EnvironmentIInv
<1>1. UNCHANGED <<Environment!panel, envTabShown, Environment!listed, Environment!banner, envRequests,
                  envAsked, unseen>>
  BY DEF Environment!OpenAdd, Environment!Cancel, Environment!OpenEdit, Environment!OpenDelete,
     Environment!TypeKey, Environment!TypeValue
<1>2. Environment!SendsItsOwnText' /\ ToldOrPending' /\ DeployedOrPending' /\ ChangesAreHeard'
  BY <1>1 DEF Environment!SendsItsOwnText, ToldOrPending, DeployedOrPending, ChangesAreHeard, Environment!panel,
     Environment!banner
<1>3. CASE Environment!OpenAdd \/ Environment!Cancel
  BY <1>1, <1>2, <1>3 DEF Environment!OpenAdd, Environment!Cancel, Environment!TypeOK, FormIsOwn,
     Environment!NoDialog, Environment!panel, Environment!listed, Environment!banner,
     Environment!form
<1>4. ASSUME NEW k \in Keys, Environment!OpenEdit(k) \/ Environment!OpenDelete(k)
               PROVE EnvironmentIInv'
  <2>1. appVars[k] \in Values \cup {NoValue}
    BY DEF Environment!TypeOK, Environment!Env
  <2> QED
    BY <1>1, <1>2, <1>4, <2>1 DEF Environment!OpenEdit, Environment!OpenDelete, Environment!TypeOK,
       FormIsOwn, Environment!NoDialog, Environment!panel, Environment!listed, Environment!banner,
       Environment!form
<1>5. ASSUME NEW k \in Keys, Environment!TypeKey(k) PROVE EnvironmentIInv'
  BY <1>1, <1>2, <1>5 DEF Environment!TypeKey, Environment!TypeOK, FormIsOwn, Environment!panel,
     Environment!listed, Environment!banner, Environment!dialogs
<1>6. ASSUME NEW v \in Values, Environment!TypeValue(v) PROVE EnvironmentIInv'
  BY <1>1, <1>2, <1>6 DEF Environment!TypeValue, Environment!TypeOK, FormIsOwn, Environment!panel,
     Environment!listed, Environment!banner, Environment!dialogs
<1> QED
  BY <1>3, <1>4, <1>5, <1>6

(***************************************************************************)
(* Requests.                                                               *)
(***************************************************************************)
LEMMA EnvironmentNewIsRequest ==
  ASSUME EnvironmentIInv, NEW kind \in {"list", "add", "edit", "delete", "deploy"},
         NEW key \in Keys \cup {NoKey}, NEW value \in Values \cup {NoValue}
  PROVE  LET new == Environment!New(kind, key, value) IN
         /\ new \in Environment!Request /\ new.kind = kind /\ new.state = "sent" /\ new.heard
         /\ new.own = (kind = "edit" => key = envFormFor)
BY NoVarsInEnv DEF EnvironmentIInv, Environment!TypeOK, Environment!New, Environment!Request

LEMMA EnvironmentSendIInv ==
  ASSUME EnvironmentIInv, Environment!HandleAdd \/ Environment!HandleEdit
           \/ Environment!HandleDelete \/ Environment!DeployNow
  PROVE  EnvironmentIInv'
<1> USE DEF EnvironmentIInv
<1>1. PICK kind \in {"add", "edit", "delete", "deploy"}, key \in Keys \cup {NoKey},
           value \in Values \cup {NoValue} :
        /\ Environment!Send(kind, key, value)
        /\ kind = "edit" => key = envFormFor
  <2>1. CASE Environment!HandleAdd
    BY <2>1 DEF Environment!HandleAdd, Environment!TypeOK
  <2>2. CASE Environment!HandleEdit
    BY <2>2 DEF Environment!HandleEdit, Environment!TypeOK, FormIsOwn
  <2>3. CASE Environment!HandleDelete
    BY <2>3 DEF Environment!HandleDelete, Environment!TypeOK
  <2>4. CASE Environment!DeployNow
    BY <2>4 DEF Environment!DeployNow
  <2> QED
    BY <2>1, <2>2, <2>3, <2>4
<1> DEFINE new == Environment!New(kind, key, value)
<1>2. /\ new \in Environment!Request /\ new.kind = kind /\ new.state = "sent" /\ new.heard
      /\ new.own = (kind = "edit" => key = envFormFor)
  BY EnvironmentNewIsRequest
<1>3. envAsked' = envAsked + 1 /\ envRequests' = envRequests \cup {new}
  BY <1>1 DEF Environment!Send
<1> HIDE DEF new
<1>4. UNCHANGED <<envRows, before, envTabShown, appVars, envLoading, Environment!form, envShowAddDialog,
                  envEditingVar, hasChanges, unseen>>
  BY DEF Environment!HandleAdd, Environment!HandleEdit, Environment!HandleDelete,
     Environment!DeployNow, Environment!panel, Environment!listed, Environment!banner,
     Environment!dialogs
<1>5. envSaving' \in BOOLEAN /\ envDeploying' \in BOOLEAN /\ envDeletingVar' \in Keys \cup {NoKey}
  BY DEF Environment!HandleAdd, Environment!HandleEdit, Environment!HandleDelete,
     Environment!DeployNow, Environment!banner, Environment!dialogs, Environment!TypeOK
<1>6. Environment!TypeOK'
  BY <1>2, <1>3, <1>4, <1>5 DEF Environment!TypeOK, Environment!form
<1>7. Environment!SendsItsOwnText' /\ FormIsOwn'
  BY <1>1, <1>2, <1>3, <1>4 DEF Environment!SendsItsOwnText, FormIsOwn, Environment!form
<1>8. ToldOrPending' /\ DeployedOrPending' /\ ChangesAreHeard'
  BY <1>2, <1>3, <1>4 DEF ToldOrPending, DeployedOrPending, ChangesAreHeard, EnvironmentMade
<1> QED
  BY <1>6, <1>7, <1>8

LEMMA EnvironmentServeIInv ==
  ASSUME EnvironmentIInv, NEW r \in envRequests, Environment!Serve(r)
  PROVE  EnvironmentIInv'
<1> USE DEF EnvironmentIInv
<1>1. r \in Environment!Request /\ r.key \in Keys \cup {NoKey} /\ r.value \in Values \cup {NoValue}
        /\ r.state = "sent"
  BY DEF Environment!TypeOK, Environment!Request, Environment!Serve
<1>2. UNCHANGED <<envTabShown, Environment!listed, Environment!dialogs, Environment!form, Environment!banner,
                  envAsked, unseen>>
  BY DEF Environment!Serve
<1>3. CASE envRequests' = Environment!Instead(envRequests, r, [r EXCEPT !.state = "refused"])
        /\ UNCHANGED Environment!panel
  <2> DEFINE s == [r EXCEPT !.state = "refused"]
  <2>1. s \in Environment!Request /\ s.kind = r.kind /\ s.own = r.own /\ s.heard = r.heard /\ s.state = "refused"
    BY <1>1 DEF Environment!Request, Environment!Outcomes
  <2>2. envRequests' = (envRequests \ {r}) \cup {s}
    BY <1>3 DEF Environment!Instead
  <2> HIDE DEF s
  <2>3. Environment!TypeOK'
    BY <1>2, <1>3, <2>1, <2>2 DEF Environment!TypeOK, Environment!panel, Environment!listed,
       Environment!dialogs, Environment!form, Environment!banner
  <2>4. Environment!SendsItsOwnText' /\ FormIsOwn'
    BY <1>2, <2>1, <2>2 DEF Environment!SendsItsOwnText, FormIsOwn, Environment!dialogs,
       Environment!form
  <2>5. ToldOrPending'
    BY <1>1, <1>2, <1>3, <2>1, <2>2 DEF ToldOrPending, EnvironmentMade, Environment!panel,
       Environment!banner
  <2>6. DeployedOrPending'
    BY <1>1, <1>2, <1>3, <2>1, <2>2 DEF DeployedOrPending, EnvironmentChanges, Environment!panel
  <2>7. ChangesAreHeard'
    BY <1>2, <2>1, <2>2 DEF ChangesAreHeard
  <2> QED
    BY <2>3, <2>4, <2>5, <2>6, <2>7
<1>4. ASSUME Environment!Write(r), NEW state \in {"ok", "lost"}, NEW data \in Environment!Env,
             envRequests' = Environment!Instead(envRequests, r, [r EXCEPT !.state = state, !.data = data])
      PROVE  EnvironmentIInv'
  <2> DEFINE s == [r EXCEPT !.state = state, !.data = data]
  <2>1. s \in Environment!Request /\ s.kind = r.kind /\ s.own = r.own /\ s.heard = r.heard /\ s.state = state
    BY <1>1 DEF Environment!Request, Environment!Outcomes
  <2>2. envRequests' = (envRequests \ {r}) \cup {s}
    BY <1>4 DEF Environment!Instead
  <2> HIDE DEF s
  <2>3. envRows' \in Environment!Env /\ before' \in Environment!Env
    BY <1>1, <1>4 DEF Environment!Write, Environment!TypeOK, Environment!Env
  <2>4. Environment!TypeOK'
    BY <1>2, <2>1, <2>2, <2>3 DEF Environment!TypeOK, Environment!listed, Environment!dialogs,
       Environment!form, Environment!banner
  <2>5. Environment!SendsItsOwnText' /\ FormIsOwn'
    BY <1>2, <2>1, <2>2 DEF Environment!SendsItsOwnText, FormIsOwn, Environment!dialogs,
       Environment!form
  <2>9. ChangesAreHeard'
    BY <1>2, <2>1, <2>2 DEF ChangesAreHeard
  <2>6. CASE r.kind \in EnvironmentChanges
    BY <2>1, <2>2, <2>4, <2>5, <2>6, <2>9 DEF ToldOrPending, DeployedOrPending, ChangesAreHeard, EnvironmentMade
  <2>7. CASE r.kind = "deploy"
    <3>1. envRows' = before'
      BY <1>4, <2>7 DEF Environment!Write, Environment!Changes
    <3> QED
      BY <2>4, <2>5, <2>9, <3>1 DEF ToldOrPending, DeployedOrPending, ChangesAreHeard
  <2>8. CASE r.kind = "list"
    <3>1. UNCHANGED <<envRows, before>>
      BY <1>4, <2>8 DEF Environment!Write, Environment!Changes
    <3>2. ToldOrPending'
      BY <1>1, <1>2, <2>2, <2>8, <3>1 DEF ToldOrPending, EnvironmentMade, EnvironmentChanges,
         Environment!banner
    <3>3. DeployedOrPending'
      BY <1>2, <2>1, <2>2, <2>8, <3>1 DEF DeployedOrPending, EnvironmentChanges
    <3> QED
      BY <2>4, <2>5, <2>9, <3>2, <3>3
  <2> QED
    BY <1>1, <2>6, <2>7, <2>8 DEF Environment!Request, EnvironmentChanges
<1> QED
  <2>1. envRows \in Environment!Env
    BY DEF Environment!TypeOK
  <2> QED
    BY <1>3, <1>4, <2>1, NoVarsInEnv DEF Environment!Serve

(***************************************************************************)
(* Answers.                                                                *)
(***************************************************************************)
LEMMA FetchProper ==
  ASSUME EnvironmentIInv, NEW rs, Environment!FetchVars(rs)
  PROVE  \E new \in Environment!Request :
           /\ new.kind = "list" /\ new.state = "sent"
           /\ envRequests' = rs \cup {new} /\ envAsked' = envAsked + 1 /\ envLoading' = TRUE
<1>1. Environment!New("list", NoKey, NoValue) \in Environment!Request
        /\ Environment!New("list", NoKey, NoValue).kind = "list"
      /\ Environment!New("list", NoKey, NoValue).state = "sent"
  BY EnvironmentNewIsRequest
<1> QED
  BY <1>1 DEF Environment!FetchVars

\* The answer to a change.
LEMMA EnvironmentChangedIInv ==
  ASSUME EnvironmentIInv, NEW r \in envRequests, Environment!Added(r) \/ Environment!Edited(r)
           \/ Environment!Deleted(r)
  PROVE  EnvironmentIInv'
<1> USE DEF EnvironmentIInv
<1>1. r.kind \in EnvironmentChanges /\ unseen' = Environment!Unseen(r) /\ r.heard
        /\ r.state \in {"ok", "refused", "lost"}
  BY DEF Environment!Added, Environment!Edited, Environment!Deleted, EnvironmentChanges
<1>2. \/ Environment!FetchVars(envRequests \ {r}) /\ hasChanges' = TRUE
      \/ /\ envRequests' = envRequests \ {r} /\ r.state # "ok"
         /\ UNCHANGED <<hasChanges, envLoading, envAsked>>
  BY <1>1 DEF Environment!Added, Environment!Edited, Environment!Deleted
<1>3. UNCHANGED <<Environment!panel, envTabShown, appVars, Environment!form, envDeploying>>
  BY DEF Environment!Added, Environment!Edited, Environment!Deleted
<1>4. /\ envSaving' \in BOOLEAN
      /\ envShowAddDialog' = FALSE \/ envShowAddDialog' = envShowAddDialog
      /\ envEditingVar' = NoKey \/ envEditingVar' = envEditingVar
      /\ envDeletingVar' = NoKey \/ envDeletingVar' = envDeletingVar
  BY DEF Environment!Added, Environment!Edited, Environment!Deleted, Environment!TypeOK
<1>5. CASE Environment!FetchVars(envRequests \ {r}) /\ hasChanges' = TRUE
  <2>1. PICK new \in Environment!Request : /\ new.kind = "list" /\ new.state = "sent"
                                           /\ envRequests' = (envRequests \ {r}) \cup {new}
                                           /\ envAsked' = envAsked + 1
                                           /\ envLoading' = TRUE
    BY <1>5, FetchProper
  <2>2. Environment!TypeOK'
    <3>1. unseen' \in BOOLEAN /\ envAsked' \in Nat /\ envRequests' \subseteq Environment!Request
      BY <1>1, <2>1 DEF Environment!TypeOK, Environment!Unseen
    <3> QED
      BY <1>3, <1>4, <1>5, <2>1, <3>1 DEF Environment!TypeOK, Environment!panel, Environment!form
  <2>3. Environment!SendsItsOwnText' /\ FormIsOwn'
    BY <1>3, <1>4, <2>1 DEF Environment!SendsItsOwnText, FormIsOwn, Environment!form
  <2>4. ToldOrPending' /\ DeployedOrPending' /\ ChangesAreHeard'
    BY <1>1, <1>3, <1>5, <2>1 DEF ToldOrPending, DeployedOrPending, ChangesAreHeard, Environment!Unseen,
       Environment!panel, EnvironmentChanges
  <2> QED
    BY <2>2, <2>3, <2>4
<1>6. CASE envRequests' = envRequests \ {r} /\ r.state # "ok" /\ UNCHANGED <<hasChanges, envLoading,
                                                                             envAsked>>
  <2>1. Environment!TypeOK'
    BY <1>1, <1>3, <1>4, <1>6 DEF Environment!TypeOK, Environment!Unseen, Environment!panel,
       Environment!form
  <2>2. Environment!SendsItsOwnText' /\ FormIsOwn'
    BY <1>3, <1>4, <1>6 DEF Environment!SendsItsOwnText, FormIsOwn, Environment!form
  <2>3. ToldOrPending' /\ DeployedOrPending' /\ ChangesAreHeard'
    BY <1>1, <1>3, <1>6 DEF ToldOrPending, DeployedOrPending, ChangesAreHeard, EnvironmentMade, Environment!Unseen,
       Environment!panel
  <2> QED
    BY <2>1, <2>2, <2>3
<1> QED
  BY <1>2, <1>5, <1>6

LEMMA EnvironmentOtherAnswerIInv ==
  ASSUME EnvironmentIInv, NEW r \in envRequests, Environment!VarsArrive(r) \/ Environment!Deployed(r)
           \/ Environment!Unheeded(r)
  PROVE  EnvironmentIInv'
<1> USE DEF EnvironmentIInv
<1>1. CASE Environment!VarsArrive(r)
  <2>1. r.data \in Environment!Env
    BY DEF Environment!TypeOK, Environment!Request
  <2>2. Environment!TypeOK'
    BY <1>1, <2>1 DEF Environment!VarsArrive, Environment!TypeOK, Environment!panel,
       Environment!dialogs, Environment!form, Environment!banner
  <2>3. Environment!SendsItsOwnText' /\ FormIsOwn'
    BY <1>1 DEF Environment!VarsArrive, Environment!SendsItsOwnText, FormIsOwn, Environment!dialogs,
       Environment!form
  <2>4. ToldOrPending' /\ DeployedOrPending' /\ ChangesAreHeard'
    BY <1>1 DEF Environment!VarsArrive, ToldOrPending, DeployedOrPending, ChangesAreHeard, EnvironmentMade,
       EnvironmentChanges, Environment!panel, Environment!banner
  <2> QED
    BY <2>2, <2>3, <2>4
<1>2. CASE Environment!Deployed(r)
  <2>1. Environment!TypeOK'
    BY <1>2 DEF Environment!Deployed, Environment!TypeOK, Environment!panel, Environment!listed,
       Environment!dialogs, Environment!form
  <2>2. Environment!SendsItsOwnText' /\ FormIsOwn'
    BY <1>2 DEF Environment!Deployed, Environment!SendsItsOwnText, FormIsOwn, Environment!dialogs,
       Environment!form
  <2>3. ~ unseen' => ~ unseen /\ \A c \in envRequests : c.kind \notin EnvironmentChanges
    BY <1>2 DEF Environment!Deployed, EnvironmentChanges, Environment!Changes, Environment!TypeOK
  <2>4. /\ UNCHANGED <<envRows, before, envTabShown>> /\ envRequests' = envRequests \ {r}
        /\ r.state # "ok" => hasChanges' = hasChanges
        /\ r.kind = "deploy" /\ r.heard
    BY <1>2 DEF Environment!Deployed, Environment!panel, Environment!TypeOK
  <2>5. ToldOrPending' /\ DeployedOrPending' /\ ChangesAreHeard'
    BY <2>3, <2>4 DEF ToldOrPending, DeployedOrPending, ChangesAreHeard, EnvironmentMade
  <2> QED
    BY <2>1, <2>2, <2>5
<1>3. CASE Environment!Unheeded(r)
  <2>1. /\ UNCHANGED <<envRows, before, envTabShown, hasChanges, unseen>> /\ envRequests' = envRequests \ {r}
        /\ ~ r.heard
    BY <1>3 DEF Environment!Unheeded, Environment!panel, Environment!banner
  <2>2. Environment!TypeOK'
    BY <1>3 DEF Environment!Unheeded, Environment!TypeOK, Environment!panel, Environment!listed,
       Environment!dialogs, Environment!form, Environment!banner
  <2>3. Environment!SendsItsOwnText' /\ FormIsOwn'
    BY <1>3 DEF Environment!Unheeded, Environment!SendsItsOwnText, FormIsOwn, Environment!dialogs,
       Environment!form
  <2>4. ToldOrPending' /\ DeployedOrPending' /\ ChangesAreHeard'
    BY <2>1 DEF ToldOrPending, DeployedOrPending, ChangesAreHeard, EnvironmentMade
  <2> QED
    BY <2>2, <2>3, <2>4
<1> QED
  BY <1>1, <1>2, <1>3

\* The tab is left, or a new visit begins.
LEMMA EnvironmentVisitIInv ==
  ASSUME EnvironmentIInv, Environment!Leave \/ Environment!Enter
  PROVE  EnvironmentIInv'
<1> USE DEF EnvironmentIInv
<1>1. CASE Environment!Leave
  <2> DEFINE hushed(r) == [r EXCEPT !.heard = FALSE]
  <2>1. envRequests' = {hushed(r) : r \in {c \in envRequests : c.kind # "list"}}
    BY <1>1 DEF Environment!Leave
  <2>2. \A r \in envRequests : /\ hushed(r) \in Environment!Request
                              /\ hushed(r).kind = r.kind /\ hushed(r).own = r.own
    BY DEF Environment!TypeOK, Environment!Request
  <2> HIDE DEF hushed
  <2>3. envRequests' \subseteq Environment!Request /\ \A r \in envRequests' : r.kind = "edit" => r.own
    BY <2>1, <2>2 DEF Environment!SendsItsOwnText
  <2>4. Environment!TypeOK'
    BY <1>1, <2>3, NoVarsInEnv DEF Environment!Leave, Environment!TypeOK, Environment!panel
  <2>5. Environment!SendsItsOwnText' /\ FormIsOwn'
    BY <1>1, <2>3 DEF Environment!Leave, Environment!SendsItsOwnText, FormIsOwn
  <2>6. ToldOrPending' /\ DeployedOrPending' /\ ChangesAreHeard'
    BY <1>1 DEF Environment!Leave, ToldOrPending, DeployedOrPending, ChangesAreHeard
  <2> QED
    BY <2>4, <2>5, <2>6
<1>2. CASE Environment!Enter
  <2>1. PICK new \in Environment!Request : /\ new.kind = "list"
                                           /\ envRequests' = envRequests \cup {new}
                                           /\ envAsked' = envAsked + 1 /\ envLoading' = TRUE
    BY <1>2, FetchProper DEF Environment!Enter
  <2>2. /\ envTabShown' = TRUE /\ before' = envRows /\ envRows' = envRows
        /\ unseen' = \E r \in envRequests : r.kind \in EnvironmentChanges
        /\ UNCHANGED <<appVars, Environment!dialogs, Environment!form, Environment!banner>>
    BY <1>2 DEF Environment!Enter, Environment!Changes, EnvironmentChanges
  <2>3. Environment!TypeOK'
    BY <2>1, <2>2 DEF Environment!TypeOK, Environment!dialogs, Environment!form, Environment!banner
  <2>4. Environment!SendsItsOwnText' /\ FormIsOwn'
    BY <2>1, <2>2 DEF Environment!SendsItsOwnText, FormIsOwn, Environment!dialogs, Environment!form
  <2>5. ToldOrPending' /\ DeployedOrPending' /\ ChangesAreHeard'
    BY <2>1, <2>2 DEF ToldOrPending, DeployedOrPending, ChangesAreHeard, EnvironmentChanges
  <2> QED
    BY <2>3, <2>4, <2>5
<1> QED
  BY <1>1, <1>2

LEMMA EnvironmentNextIInv == EnvironmentIInv /\ [Environment!Next]_(Environment!vars)
  => EnvironmentIInv'
<1> SUFFICES ASSUME EnvironmentIInv, [Environment!Next]_(Environment!vars) PROVE EnvironmentIInv'
  OBVIOUS
<1>1. CASE UNCHANGED Environment!vars
  BY <1>1 DEF Environment!vars, Environment!panel, Environment!listed, Environment!dialogs,
     Environment!form, Environment!banner, EnvironmentIInv, Environment!TypeOK,
     Environment!SendsItsOwnText, FormIsOwn, ToldOrPending, DeployedOrPending, ChangesAreHeard
<1> QED
  BY <1>1, EnvironmentDialogIInv, EnvironmentSendIInv, EnvironmentServeIInv, EnvironmentChangedIInv,
     EnvironmentOtherAnswerIInv, EnvironmentVisitIInv DEF Environment!Next, Environment!Answer

\* The inductive invariant holds in every reachable state.
THEOREM EnvironmentInvariance == Environment!Spec => []EnvironmentIInv
BY EnvironmentInitIInv, EnvironmentNextIInv, PTL DEF Environment!Spec

\* Every variable keeps its type.
THEOREM EnvironmentTypeCorrect == Environment!Spec => []Environment!TypeOK
<1>1. EnvironmentIInv => Environment!TypeOK
  BY DEF EnvironmentIInv
<1> QED
  BY <1>1, EnvironmentInvariance, PTL

\* What is sent for a variable was entered in the dialog of that variable, although
\* the dialogs share one form (environment-tab.tsx).
THEOREM SendsOwn == Environment!Spec => []Environment!SendsItsOwnText
<1>1. EnvironmentIInv => Environment!SendsItsOwnText
  BY DEF EnvironmentIInv
<1> QED
  BY <1>1, EnvironmentInvariance, PTL

\* Variables changed in this visit after the last deploy are announced once nothing
\* is in flight, unless an answer was lost, a change and a deploy were under way
\* together, or a change of an earlier visit was (environment-tab.tsx).
THEOREM Announced == Environment!Spec => []Environment!ChangesAreAnnounced
<1>1. EnvironmentIInv => Environment!ChangesAreAnnounced
  BY DEF EnvironmentIInv, ToldOrPending, Environment!ChangesAreAnnounced
<1> QED
  BY <1>1, EnvironmentInvariance, PTL

HIDE EnvironmentAssumption

-----------------------------------------------------------------------------
\* The Database tab.
\* A table in which what is backed up is persistent.
DatabasesSound(t) == \A p \in Paths : t[p].backup => t[p].persistent

\* Whatever table a request is going to write is sound; one between two statements
\* has two, and one of the Files tab names a file.
SoundRequest(r) ==
  /\ DatabasesSound(r.table)
  /\ r.state = "half" => r.kind \in Databases!Writers
  /\ r.kind = "pin" => r.path \in Paths

TablesSound == \A r \in databaseRequests : SoundRequest(r)

DatabasesIInv ==
  /\ Databases!TypeOK
  /\ Databases!BackupNeedsPersistent
  /\ TablesSound

USE PathsAssumption

LEMMA RowsOfTable ==
  /\ Databases!None \in Databases!Row /\ Databases!Detected \in Databases!Row
  /\ Databases!Detected.persistent /\ ~ Databases!Detected.backup /\ ~ Databases!None.backup
  /\ ~ Databases!None.persistent
  /\ Databases!Detected.tracked /\ ~ Databases!None.tracked
BY DEF Databases!None, Databases!Detected, Databases!Row

LEMMA SoundLists == DatabasesIInv => DatabasesSound(databases) /\ DatabasesSound(databaseRows)
BY DEF DatabasesIInv, Databases!BackupNeedsPersistent, DatabasesSound

\* What a deploy or a scan finds, and what a save forces, leaves a table sound.
LEMMA MergedIsSound ==
  ASSUME NEW t \in Databases!Table, DatabasesSound(t), NEW found
  PROVE  Databases!Merged(t, found) \in Databases!Table /\ DatabasesSound(Databases!Merged(t, found))
BY RowsOfTable DEF Databases!Merged, Databases!Table, DatabasesSound

LEMMA ForcedIsSound ==
  ASSUME NEW t \in Databases!Table
  PROVE  Databases!Forced(t) \in Databases!Table /\ DatabasesSound(Databases!Forced(t))
<1>1. \A p \in Paths : /\ Databases!Forced(t)[p] \in Databases!Row
                       /\ Databases!Forced(t)[p].backup => Databases!Forced(t)[p].persistent
  BY DEF Databases!Forced, Databases!Table, Databases!Row
<1>2. Databases!Forced(t) \in Databases!Table
  BY <1>1 DEF Databases!Forced, Databases!Table
<1> QED
  BY <1>1, <1>2 DEF DatabasesSound

LEMMA UntrackedIsSound == Databases!Untracked \in Databases!Table /\ DatabasesSound(Databases!Untracked)
BY RowsOfTable DEF Databases!Untracked, Databases!Table, DatabasesSound

LEMMA DatabasesInitIInv == Databases!Init => DatabasesIInv
<1> SUFFICES ASSUME Databases!Init PROVE DatabasesIInv
  OBVIOUS
<1> PICK found \in SUBSET Paths : databaseRows = [p \in Paths |-> IF p \in found THEN Databases!Detected ELSE Databases!None]
  BY DEF Databases!Init
<1>1. databaseRows \in Databases!Table /\ databases = databaseRows
        /\ persistentPaths = Databases!Tracked(databaseRows)
  BY RowsOfTable DEF Databases!Init, Databases!Table
<1>2. Databases!TypeOK
  BY <1>1 DEF Databases!Init, Databases!TypeOK, Databases!Tracked
<1>3. Databases!BackupNeedsPersistent
  BY <1>1, RowsOfTable DEF Databases!BackupNeedsPersistent, Databases!Tracked
<1>4. TablesSound
  BY DEF Databases!Init, TablesSound
<1> QED
  BY <1>2, <1>3, <1>4 DEF DatabasesIInv

\* The switches of the list.
LEMMA DatabasesListIInv ==
  ASSUME DatabasesIInv, NEW p \in Paths,
         \/ Databases!HandleManualAdd(p)
         \/ \E on \in BOOLEAN : Databases!SetBackup(p, on) \/ Databases!SetPersistent(p, on)
  PROVE  DatabasesIInv'
<1> USE DEF DatabasesIInv
<1>1. PICK row \in Databases!Row : /\ databases' = [databases EXCEPT ![p] = row]
                                   /\ row.backup => row.persistent
  <2>1. databases \in Databases!Table /\ databases[p] \in Databases!Row
    BY DEF Databases!TypeOK, Databases!Table
  <2>2. CASE Databases!HandleManualAdd(p)
    BY <2>2, RowsOfTable DEF Databases!HandleManualAdd
  <2>3. ASSUME NEW on \in BOOLEAN, Databases!SetBackup(p, on)
        PROVE  \E row \in Databases!Row : /\ databases' = [databases EXCEPT ![p] = row]
                                          /\ row.backup => row.persistent
    <3> DEFINE row == [databases[p] EXCEPT !.backup = on, !.persistent = @ \/ on]
    <3>1. databases' = [databases EXCEPT ![p] = row]
      BY <2>1, <2>3 DEF Databases!SetBackup, Databases!Table, Databases!Row
    <3>2. row \in Databases!Row /\ (row.backup => row.persistent)
      BY <2>1 DEF Databases!Row
    <3> QED
      BY <3>1, <3>2
  <2>4. ASSUME NEW on \in BOOLEAN, Databases!SetPersistent(p, on)
        PROVE  \E row \in Databases!Row : /\ databases' = [databases EXCEPT ![p] = row]
                                          /\ row.backup => row.persistent
    <3> DEFINE row == [databases[p] EXCEPT !.persistent = on, !.backup = @ /\ on]
    <3>1. databases' = [databases EXCEPT ![p] = row]
      BY <2>1, <2>4 DEF Databases!SetPersistent, Databases!Table, Databases!Row
    <3>2. row \in Databases!Row /\ (row.backup => row.persistent)
      BY <2>1 DEF Databases!Row
    <3> QED
      BY <3>1, <3>2
  <2> QED
    BY <2>2, <2>3, <2>4
<1>2. /\ databaseDirty' = TRUE
      /\ UNCHANGED <<Databases!panel, appEndpoint, Databases!busy, Databases!dialog,
                     databaseRequests, databaseAsked, adrift, databaseDoubtful>>
  BY DEF Databases!HandleManualAdd, Databases!SetBackup, Databases!SetPersistent
<1>3. Databases!TypeOK'
  BY <1>1, <1>2 DEF Databases!TypeOK, Databases!Table, Databases!panel, Databases!busy,
     Databases!dialog
<1>4. Databases!BackupNeedsPersistent'
  BY <1>1, <1>2 DEF Databases!TypeOK, Databases!Table, Databases!BackupNeedsPersistent,
     Databases!panel, Databases!Halfway
<1>5. TablesSound'
  BY <1>2 DEF TablesSound
<1> QED
  BY <1>3, <1>4, <1>5

\* Whatever has written the list and not the paths is still there.
StillHalfway == Databases!Halfway => Databases!Halfway'

\* One more request with a sound table.
LEMMA DatabasesOneMore ==
  ASSUME DatabasesIInv, NEW new \in Databases!Request, SoundRequest(new),
         NEW rs \in SUBSET databaseRequests, databaseRequests' = rs \cup {new},
         \A r \in databaseRequests \ rs : r.state # "half"
  PROVE  databaseRequests' \subseteq Databases!Request /\ TablesSound' /\ StillHalfway
<1>1. \A r \in databaseRequests' : SoundRequest(r)
  BY DEF DatabasesIInv, TablesSound
<1>2. TablesSound'
  BY <1>1 DEF TablesSound, SoundRequest, DatabasesSound
<1>3. StillHalfway
  BY DEF StillHalfway, Databases!Halfway
<1> QED
  BY <1>2, <1>3 DEF DatabasesIInv, Databases!TypeOK

\* A save carries the list shown, which is sound.
LEMMA DatabasesAsked ==
  ASSUME DatabasesIInv, NEW rs \in SUBSET databaseRequests,
         NEW kind \in {"scan", "save", "restore", "endpoint", "reload"},
         NEW path \in Paths \cup {NoPath}, NEW own \in BOOLEAN, Databases!Ask(rs, kind, path, own),
         \A r \in databaseRequests \ rs : r.state # "half"
  PROVE  /\ databaseRequests' \subseteq Databases!Request /\ databaseAsked' \in Nat
         /\ TablesSound' /\ StillHalfway
<1> DEFINE table == IF kind = "save" THEN databases ELSE Databases!Untracked
           new == [kind |-> kind, id |-> databaseAsked + 1, table |-> table,
                   loaded |-> Databases!Untracked, paths |-> {}, path |-> path,
                   own |-> own, state |-> "sent"]
<1>1. databaseAsked \in Nat /\ databases \in Databases!Table
  BY DEF DatabasesIInv, Databases!TypeOK
<1>2. table \in Databases!Table /\ DatabasesSound(table)
  BY <1>1, SoundLists, UntrackedIsSound
<1> HIDE DEF table
<1>3. new \in Databases!Request /\ SoundRequest(new)
  BY <1>1, <1>2, UntrackedIsSound DEF Databases!Request, SoundRequest
<1>4. databaseAsked' = databaseAsked + 1 /\ databaseRequests' = rs \cup {new}
  BY DEF Databases!Ask, table
<1> HIDE DEF new
<1> QED
  BY <1>1, <1>2, <1>3, <1>4, DatabasesOneMore

\* What keeps the tables and the requests as they should be keeps all.
LEMMA DatabasesOthers ==
  ASSUME DatabasesIInv, databaseRequests' \subseteq Databases!Request, databaseAsked' \in Nat,
         TablesSound',
         adrift' = Paths \/ (adrift' = adrift /\ StillHalfway),
         persistentPaths' = persistentPaths \/ (adrift' = Paths /\ persistentPaths' \subseteq Paths),
         UNCHANGED <<databaseRows, databases>>,
         endpoint' \in BOOLEAN, databaseDirty' \in BOOLEAN, appEndpoint' \in BOOLEAN,
           databaseDoubtful' \in BOOLEAN,
         databaseSaving' \in BOOLEAN, scanning' \in BOOLEAN, savingEndpoint' \in BOOLEAN,
         restoring' \in Paths \cup {NoPath}, confirmRestore' \in Paths \cup {NoPath}
  PROVE  DatabasesIInv'
<1>1. Databases!TypeOK'
  BY DEF DatabasesIInv, Databases!TypeOK
<1>2. Databases!BackupNeedsPersistent'
  <2>1. CASE adrift' = Paths
    BY <2>1 DEF DatabasesIInv, Databases!BackupNeedsPersistent
  <2>2. CASE adrift' = adrift /\ adrift' # Paths
    BY <2>2 DEF DatabasesIInv, Databases!BackupNeedsPersistent, StillHalfway
  <2> QED
    BY <2>1, <2>2
<1> QED
  BY <1>1, <1>2 DEF DatabasesIInv

LEMMA DatabasesForgotten ==
  ASSUME DatabasesIInv, NEW r, databaseRequests' = databaseRequests \ {r}, r.state # "half"
  PROVE  databaseRequests' \subseteq Databases!Request /\ TablesSound' /\ StillHalfway
BY DEF DatabasesIInv, Databases!TypeOK, TablesSound, SoundRequest, DatabasesSound, StillHalfway,
   Databases!Halfway

LEMMA DatabasesSendIInv ==
  ASSUME DatabasesIInv,
         \/ Databases!HandleSave \/ Databases!HandleScanVm \/ Databases!CancelRestore
              \/ Databases!HandleRestore
         \/ \E own \in BOOLEAN : Databases!HandleStorageEndpointChange(own)
         \/ \E p \in Paths : Databases!OpenRestore(p)
  PROVE  DatabasesIInv'
<1>1. CASE Databases!CancelRestore \/ \E p \in Paths : Databases!OpenRestore(p)
  BY <1>1 DEF Databases!CancelRestore, Databases!OpenRestore, Databases!panel, Databases!list,
     Databases!busy, DatabasesIInv, Databases!TypeOK, Databases!BackupNeedsPersistent, TablesSound,
     SoundRequest, DatabasesSound, Databases!Halfway
<1>2. CASE Databases!HandleSave \/ Databases!HandleScanVm \/ Databases!HandleRestore
        \/ \E own \in BOOLEAN : Databases!HandleStorageEndpointChange(own)
  <2>1. PICK kind \in {"scan", "save", "restore", "endpoint"}, path \in Paths \cup {NoPath},
             own \in BOOLEAN : Databases!Ask(databaseRequests, kind, path, own)
    <3>1. CASE Databases!HandleSave
      BY <3>1 DEF Databases!HandleSave
    <3>2. CASE Databases!HandleScanVm
      BY <3>2 DEF Databases!HandleScanVm
    <3>3. CASE Databases!HandleRestore
      BY <3>3 DEF Databases!HandleRestore, DatabasesIInv, Databases!TypeOK
    <3>4. CASE \E own \in BOOLEAN : Databases!HandleStorageEndpointChange(own)
      BY <3>4 DEF Databases!HandleStorageEndpointChange
    <3> QED
      BY <1>2, <3>1, <3>2, <3>3, <3>4
  <2>2. /\ databaseRequests' \subseteq Databases!Request /\ databaseAsked' \in Nat
        /\ TablesSound' /\ StillHalfway
    BY <2>1, DatabasesAsked
  <2> QED
    BY <1>2, <2>2, DatabasesOthers DEF Databases!HandleSave, Databases!HandleScanVm,
       Databases!HandleRestore, Databases!HandleStorageEndpointChange, Databases!panel,
       Databases!list, Databases!busy, Databases!dialog, DatabasesIInv, Databases!TypeOK
<1> QED
  BY <1>1, <1>2

(***************************************************************************)
(* Others: a deploy, the Files tab.                                        *)
(***************************************************************************)
LEMMA DatabasesBeginIInv ==
  ASSUME DatabasesIInv,
         \/ \E found \in SUBSET Paths : Databases!DeployBegins(found)
         \/ \E p \in Paths, on \in BOOLEAN : Databases!PinBegins(p, on)
  PROVE  DatabasesIInv'
<1>1. /\ databaseRows \in Databases!Table /\ DatabasesSound(databaseRows) /\ databaseAsked \in Nat
      /\ persistentPaths \in SUBSET Paths
  BY SoundLists DEF DatabasesIInv, Databases!TypeOK
<1>2. PICK new \in Databases!Request : /\ databaseRequests' = databaseRequests \cup {new}
                                       /\ SoundRequest(new)
  <2>1. ASSUME NEW found \in SUBSET Paths, Databases!DeployBegins(found)
        PROVE  \E new \in Databases!Request : /\ databaseRequests' = databaseRequests \cup {new}
                                              /\ SoundRequest(new)
    <3> DEFINE table == Databases!Merged(databaseRows, found)
               new == [kind |-> "deploy", id |-> databaseAsked + 1, table |-> table,
                       loaded |-> databaseRows, paths |-> persistentPaths, path |-> NoPath,
                       own |-> FALSE, state |-> "loaded"]
    <3>1. table \in Databases!Table /\ DatabasesSound(table)
      BY <1>1, MergedIsSound
    <3>2. databaseRequests' = databaseRequests \cup {new}
      BY <2>1 DEF Databases!DeployBegins
    <3> HIDE DEF table
    <3>3. new \in Databases!Request /\ SoundRequest(new)
      BY <1>1, <3>1 DEF Databases!Request, SoundRequest
    <3> QED
      BY <3>2, <3>3
  <2>2. ASSUME NEW p \in Paths, NEW on \in BOOLEAN, Databases!PinBegins(p, on)
        PROVE  \E new \in Databases!Request : /\ databaseRequests' = databaseRequests \cup {new}
                                              /\ SoundRequest(new)
    <3> DEFINE new == [kind |-> "pin", id |-> databaseAsked + 1, table |-> Databases!Untracked,
                       loaded |-> Databases!Untracked, paths |-> persistentPaths, path |-> p,
                       own |-> on, state |-> "loaded"]
    <3>1. databaseRequests' = databaseRequests \cup {new}
      BY <2>2 DEF Databases!PinBegins
    <3>2. new \in Databases!Request /\ SoundRequest(new)
      BY <1>1, UntrackedIsSound DEF Databases!Request, SoundRequest
    <3> QED
      BY <3>1, <3>2
  <2> QED
    BY <2>1, <2>2
<1>3. databaseRequests' \subseteq Databases!Request /\ TablesSound' /\ StillHalfway
  BY <1>2, DatabasesOneMore
<1>4. /\ databaseAsked' = databaseAsked + 1
      /\ UNCHANGED <<Databases!panel, Databases!list, appEndpoint, Databases!busy,
                     Databases!dialog, adrift, databaseDoubtful>>
  BY DEF Databases!DeployBegins, Databases!PinBegins
<1> QED
  BY <1>1, <1>3, <1>4, DatabasesOthers DEF Databases!panel, Databases!list, Databases!busy,
     Databases!dialog, DatabasesIInv, Databases!TypeOK

(***************************************************************************)
(* The panel.                                                              *)
(***************************************************************************)
LEMMA DatabasesBecoming ==
  ASSUME DatabasesIInv, NEW r \in databaseRequests, NEW s \in Databases!Request,
         SoundRequest(s), Databases!Becomes(r, s)
  PROVE  /\ databaseRequests' \subseteq Databases!Request /\ TablesSound'
         /\ r.state # "half" => StillHalfway
         /\ s.state = "half" /\ s.kind \in Databases!Writers => Databases!Halfway'
<1>1. \A q \in databaseRequests' : SoundRequest(q)
  BY DEF DatabasesIInv, TablesSound, Databases!Becomes
<1>2. TablesSound'
  BY <1>1 DEF TablesSound, SoundRequest, DatabasesSound
<1>3. r.state # "half" => StillHalfway
  BY DEF Databases!Becomes, StillHalfway, Databases!Halfway
<1>4. s.state = "half" /\ s.kind \in Databases!Writers => Databases!Halfway'
  BY DEF Databases!Becomes, Databases!Halfway
<1> QED
  BY <1>2, <1>3, <1>4 DEF DatabasesIInv, Databases!TypeOK, Databases!Becomes

\* What a request in flight looks like.
LEMMA DatabasesAsking ==
  ASSUME DatabasesIInv, NEW r \in databaseRequests
  PROVE  /\ r \in Databases!Request /\ SoundRequest(r) /\ r.table \in Databases!Table
         /\ DatabasesSound(r.table)
         /\ r.loaded \in Databases!Table /\ r.paths \in SUBSET Paths
         /\ r.path \in Paths \cup {NoPath} /\ r.own \in BOOLEAN
         /\ databaseRows \in Databases!Table /\ DatabasesSound(databaseRows) /\ databaseAsked \in Nat
         /\ persistentPaths \in SUBSET Paths
BY SoundLists DEF DatabasesIInv, Databases!TypeOK, TablesSound, SoundRequest, Databases!Request

\* Loading the row, and refusing.
LEMMA DatabasesLoadIInv ==
  ASSUME DatabasesIInv, NEW r \in databaseRequests, Databases!Load(r)
  PROVE  DatabasesIInv'
<1> DEFINE table == IF r.kind = "save" THEN Databases!Forced(r.table) ELSE Databases!Merged(databaseRows, InVm)
           s == [r EXCEPT !.state = "loaded", !.loaded = databaseRows, !.paths = persistentPaths,
                          !.table = table]
<1>1. table \in Databases!Table /\ DatabasesSound(table)
  BY DatabasesAsking, MergedIsSound, ForcedIsSound
<1>2. Databases!Becomes(r, s) /\ r.state = "sent"
  BY DatabasesAsking DEF Databases!Load, Databases!Request
<1> HIDE DEF table
<1>3. s \in Databases!Request /\ SoundRequest(s)
  BY <1>1, DatabasesAsking DEF Databases!Request, SoundRequest
<1> HIDE DEF s
<1>4. databaseRequests' \subseteq Databases!Request /\ TablesSound' /\ StillHalfway
  BY <1>1, <1>2, <1>3, DatabasesBecoming
<1> QED
  BY <1>4, DatabasesOthers DEF Databases!Load, Databases!panel, Databases!list,
     Databases!busy, Databases!dialog, DatabasesIInv, Databases!TypeOK

LEMMA DatabasesRefusedIInv ==
  ASSUME DatabasesIInv, NEW r \in databaseRequests, Databases!Refused(r)
  PROVE  DatabasesIInv'
<1>1. [r EXCEPT !.state = "refused"] \in Databases!Request
        /\ SoundRequest([r EXCEPT !.state = "refused"])
  BY DatabasesAsking DEF Databases!Request, SoundRequest
<1>2. /\ databaseRequests' \subseteq Databases!Request /\ TablesSound'
      /\ r.state # "half" => StillHalfway
  BY <1>1, DatabasesAsking, DatabasesBecoming DEF Databases!Refused
<1> QED
  BY <1>2, DatabasesOthers DEF Databases!Refused, Databases!panel, Databases!list,
     Databases!busy, Databases!dialog, DatabasesIInv, Databases!TypeOK

\* The two statements of a save, a scan or a deploy.
LEMMA DatabasesWriteRowsIInv ==
  ASSUME DatabasesIInv, NEW r \in databaseRequests, Databases!WriteRows(r)
  PROVE  DatabasesIInv'
<1> DEFINE s == [r EXCEPT !.state = "half"]
<1>1. Databases!Becomes(r, s) /\ r.kind \in Databases!Writers
  BY DEF Databases!WriteRows
<1>2. s \in Databases!Request /\ SoundRequest(s) /\ s.state = "half" /\ s.kind = r.kind
  BY <1>1, DatabasesAsking DEF Databases!Request, SoundRequest
<1> HIDE DEF s
<1>3. databaseRequests' \subseteq Databases!Request /\ TablesSound' /\ Databases!Halfway'
  BY <1>1, <1>2, DatabasesAsking, DatabasesBecoming
<1>4. databaseRows' \in Databases!Table /\ DatabasesSound(databaseRows')
        /\ databaseDoubtful' \in BOOLEAN
  BY DatabasesAsking DEF Databases!WriteRows, DatabasesIInv, Databases!TypeOK
<1>5. UNCHANGED <<persistentPaths, endpoint, Databases!list, appEndpoint, Databases!busy,
                  Databases!dialog, databaseAsked, adrift>>
  BY DEF Databases!WriteRows
<1>6. Databases!TypeOK'
  BY <1>3, <1>4, <1>5 DEF DatabasesIInv, Databases!TypeOK, Databases!list, Databases!busy,
     Databases!dialog
<1>7. Databases!BackupNeedsPersistent'
  BY <1>3, <1>4, <1>5 DEF DatabasesIInv, Databases!BackupNeedsPersistent, DatabasesSound,
     Databases!list
<1> QED
  BY <1>3, <1>6, <1>7 DEF DatabasesIInv

LEMMA DatabasesWritePathsIInv ==
  ASSUME DatabasesIInv, NEW r \in databaseRequests, Databases!WritePaths(r)
  PROVE  DatabasesIInv'
<1>1. PICK state \in {"ok", "lost"} : Databases!Becomes(r, [r EXCEPT !.state = state])
  BY DEF Databases!WritePaths
<1>2. [r EXCEPT !.state = state] \in Databases!Request /\ SoundRequest([r EXCEPT !.state = state])
  BY DatabasesAsking DEF Databases!Request, SoundRequest
<1>3. databaseRequests' \subseteq Databases!Request /\ TablesSound'
  BY <1>1, <1>2, DatabasesAsking, DatabasesBecoming
<1>4. UNCHANGED <<databaseRows, endpoint, Databases!list, appEndpoint, Databases!busy,
                  Databases!dialog, databaseAsked, databaseDoubtful>>
  BY DEF Databases!WritePaths
<1>5. persistentPaths' \subseteq Paths /\ adrift' \subseteq Paths
  BY DatabasesAsking DEF Databases!WritePaths, Databases!Pinned
<1>6. Databases!TypeOK'
  BY <1>3, <1>4, <1>5 DEF DatabasesIInv, Databases!TypeOK, Databases!list, Databases!busy,
     Databases!dialog
<1>7. \A p \in Paths : databaseRows[p].persistent => p \in persistentPaths' \cup adrift'
  <2>1. CASE Databases!Undisturbed(r)
    <3>1. databaseRows = r.table /\ persistentPaths = r.paths
      BY <2>1 DEF Databases!Undisturbed
    <3>2. persistentPaths' = Databases!Pinned(r)
      BY <3>1 DEF Databases!WritePaths
    <3> QED
      BY <3>1, <3>2 DEF Databases!Pinned
  <2>2. CASE ~ Databases!Undisturbed(r)
    BY <2>2 DEF Databases!WritePaths
  <2> QED
    BY <2>1, <2>2
<1>8. Databases!BackupNeedsPersistent'
  BY <1>4, <1>7 DEF DatabasesIInv, Databases!BackupNeedsPersistent, Databases!list
<1> QED
  BY <1>3, <1>6, <1>8 DEF DatabasesIInv

\* What else touches the paths: the directories of a deploy, the Files tab.
LEMMA DatabasesPinsIInv ==
  ASSUME DatabasesIInv, NEW r \in databaseRequests, Databases!PinsDirectories(r)
  PROVE  DatabasesIInv'
<1>1. databaseRequests' \subseteq Databases!Request /\ TablesSound' /\ StillHalfway
  BY DEF Databases!PinsDirectories, DatabasesIInv, Databases!TypeOK, TablesSound, SoundRequest, DatabasesSound,
     StillHalfway, Databases!Halfway
<1>2. /\ persistentPaths' = r.paths
      /\ adrift' = Paths \/ (adrift' = adrift /\ persistentPaths' = persistentPaths)
      /\ UNCHANGED <<databaseRows, endpoint, Databases!list, appEndpoint, Databases!busy,
                     Databases!dialog, databaseAsked, databaseDoubtful>>
  BY DEF Databases!PinsDirectories
<1> QED
  BY <1>1, <1>2, DatabasesAsking, DatabasesOthers DEF Databases!list, Databases!busy,
     Databases!dialog, DatabasesIInv, Databases!TypeOK

LEMMA DatabasesPinEndsIInv ==
  ASSUME DatabasesIInv, NEW r \in databaseRequests, Databases!PinEnds(r)
  PROVE  DatabasesIInv'
<1>1. [r EXCEPT !.state = "ok"] \in Databases!Request /\ SoundRequest([r EXCEPT !.state = "ok"])
  BY DatabasesAsking DEF Databases!Request, SoundRequest
<1>2. databaseRequests' \subseteq Databases!Request /\ TablesSound' /\ StillHalfway
  BY <1>1, DatabasesAsking, DatabasesBecoming DEF Databases!PinEnds
<1> DEFINE to == IF r.own THEN r.paths \cup {r.path} ELSE r.paths \ {r.path}
<1>3. /\ persistentPaths' = IF to = r.paths THEN persistentPaths ELSE to
      /\ adrift' = IF persistentPaths # r.paths THEN Paths
                   ELSE IF r.own THEN adrift \ {r.path} ELSE adrift \cup {r.path}
      /\ UNCHANGED <<databaseRows, endpoint, Databases!list, appEndpoint, Databases!busy,
                     Databases!dialog, databaseAsked, databaseDoubtful>>
  BY DEF Databases!PinEnds
<1>4. r.path \in Paths
  <2>1. r.kind = "pin"
    BY DEF Databases!PinEnds
  <2> QED
    BY <2>1, DatabasesAsking DEF SoundRequest
<1>5. persistentPaths' \subseteq Paths /\ adrift' \subseteq Paths
  BY <1>3, <1>4, DatabasesAsking DEF DatabasesIInv, Databases!TypeOK
<1>6. persistentPaths \cup adrift \subseteq persistentPaths' \cup adrift'
  BY <1>3, <1>5, DatabasesAsking DEF DatabasesIInv, Databases!TypeOK
<1>7. Databases!TypeOK'
  BY <1>2, <1>3, <1>5 DEF DatabasesIInv, Databases!TypeOK, Databases!list, Databases!busy,
     Databases!dialog
<1>8. Databases!BackupNeedsPersistent'
  BY <1>2, <1>3, <1>6 DEF DatabasesIInv, Databases!BackupNeedsPersistent, Databases!list,
     StillHalfway
<1> QED
  BY <1>2, <1>7, <1>8 DEF DatabasesIInv

LEMMA DatabasesServeOtherIInv ==
  ASSUME DatabasesIInv, NEW r \in databaseRequests, Databases!ServeOther(r)
  PROVE  DatabasesIInv'
<1>1. endpoint' \in BOOLEAN
  BY DatabasesAsking DEF Databases!ServeOther, DatabasesIInv, Databases!TypeOK
<1>2. PICK state \in {"ok", "lost"} : Databases!Becomes(r, [r EXCEPT !.state = state, !.own = endpoint'])
  BY DEF Databases!ServeOther
<1>3. /\ [r EXCEPT !.state = state, !.own = endpoint'] \in Databases!Request
      /\ SoundRequest([r EXCEPT !.state = state, !.own = endpoint'])
  BY <1>1, DatabasesAsking DEF Databases!Request, SoundRequest
<1>4. databaseRequests' \subseteq Databases!Request /\ TablesSound' /\ StillHalfway
  BY <1>2, <1>3, DatabasesAsking, DatabasesBecoming DEF Databases!ServeOther
<1> QED
  BY <1>1, <1>4, DatabasesOthers DEF Databases!ServeOther, Databases!list,
     Databases!busy, Databases!dialog, DatabasesIInv, Databases!TypeOK

LEMMA DatabasesAnswerIInv ==
  ASSUME DatabasesIInv, NEW r \in databaseRequests, Databases!Answer(r)
  PROVE  DatabasesIInv'
<1>1. Databases!Asking(r)
        \/ (databaseRequests' = databaseRequests \ {r} /\ databaseAsked' = databaseAsked)
  BY DEF Databases!Answer, Databases!Saved, Databases!Scanned, Databases!EndpointSaved,
     Databases!Restored, Databases!Reloaded
<1>2. r.state # "half"
  BY DatabasesAsking DEF Databases!Answer, Databases!Saved, Databases!Scanned,
     Databases!EndpointSaved, Databases!Restored, Databases!Reloaded, SoundRequest,
     Databases!Writers
<1>3. /\ databaseRequests' \subseteq Databases!Request /\ databaseAsked' \in Nat
      /\ TablesSound' /\ StillHalfway
  <2>1. CASE Databases!Asking(r)
    BY <1>2, <2>1, DatabasesAsked DEF Databases!Asking
  <2>2. CASE databaseRequests' = databaseRequests \ {r} /\ databaseAsked' = databaseAsked
    BY <1>2, <2>2, DatabasesForgotten, DatabasesAsking
  <2> QED
    BY <1>1, <2>1, <2>2
<1>4. CASE Databases!Scanned(r)
  <2>1. databases' \in Databases!Table /\ DatabasesSound(databases') /\ databaseDirty' \in BOOLEAN
    BY <1>4, DatabasesAsking, SoundLists DEF Databases!Scanned, Databases!list, DatabasesIInv,
       Databases!TypeOK
  <2>2. Databases!TypeOK'
    BY <1>3, <1>4, <2>1 DEF Databases!Scanned, Databases!panel, Databases!dialog, DatabasesIInv,
       Databases!TypeOK
  <2>3. Databases!BackupNeedsPersistent'
    BY <1>3, <1>4, <2>1 DEF Databases!Scanned, Databases!panel, DatabasesIInv,
       Databases!BackupNeedsPersistent, DatabasesSound, StillHalfway
  <2> QED
    BY <1>3, <2>2, <2>3 DEF DatabasesIInv
<1>5. CASE Databases!Saved(r) \/ Databases!EndpointSaved(r) \/ Databases!Restored(r)
        \/ Databases!Reloaded(r)
  <2>1. UNCHANGED <<databaseRows, persistentPaths, adrift, databases>>
    BY <1>5 DEF Databases!Saved, Databases!EndpointSaved, Databases!Restored, Databases!Reloaded,
       Databases!list, Databases!panel
  <2>2. Databases!TypeOK'
    <3> USE DEF DatabasesIInv, Databases!TypeOK, Databases!panel, Databases!list, Databases!busy,
            Databases!dialog
    <3>1. CASE Databases!Saved(r)
      BY <1>3, <3>1, DatabasesAsking DEF Databases!Saved
    <3>2. CASE Databases!EndpointSaved(r)
      BY <1>3, <3>2, DatabasesAsking DEF Databases!EndpointSaved
    <3>3. CASE Databases!Restored(r)
      BY <1>3, <3>3, DatabasesAsking DEF Databases!Restored
    <3>4. CASE Databases!Reloaded(r)
      BY <1>3, <3>4, DatabasesAsking DEF Databases!Reloaded
    <3> QED
      BY <1>5, <3>1, <3>2, <3>3, <3>4
  <2>3. Databases!BackupNeedsPersistent'
    BY <1>3, <2>1 DEF DatabasesIInv, Databases!BackupNeedsPersistent, StillHalfway
  <2> QED
    BY <1>3, <2>2, <2>3 DEF DatabasesIInv
<1> QED
  BY <1>4, <1>5 DEF Databases!Answer

LEMMA DatabasesNextIInv == DatabasesIInv /\ [Databases!Next]_(Databases!vars) => DatabasesIInv'
<1> SUFFICES ASSUME DatabasesIInv, [Databases!Next]_(Databases!vars) PROVE DatabasesIInv'
  OBVIOUS
<1>1. CASE UNCHANGED Databases!vars
  BY <1>1 DEF Databases!vars, Databases!panel, Databases!list, Databases!busy, Databases!dialog,
     DatabasesIInv, Databases!TypeOK, Databases!BackupNeedsPersistent, TablesSound, SoundRequest, DatabasesSound,
     Databases!Halfway
<1>2. ASSUME NEW r \in databaseRequests, Databases!Serve(r) PROVE DatabasesIInv'
  BY <1>2, DatabasesLoadIInv, DatabasesRefusedIInv, DatabasesWriteRowsIInv,
     DatabasesWritePathsIInv, DatabasesPinsIInv, DatabasesPinEndsIInv, DatabasesServeOtherIInv
     DEF Databases!Serve
<1> QED
  BY <1>1, <1>2, DatabasesListIInv, DatabasesSendIInv, DatabasesBeginIInv,
     DatabasesAnswerIInv DEF Databases!Next

\* The inductive invariant holds in every reachable state.
THEOREM DatabasesInvariance == Databases!Spec => []DatabasesIInv
BY DatabasesInitIInv, DatabasesNextIInv, PTL DEF Databases!Spec

\* Every variable keeps its type.
THEOREM DatabasesTypeCorrect == Databases!Spec => []Databases!TypeOK
<1>1. DatabasesIInv => Databases!TypeOK
  BY DEF DatabasesIInv
<1> QED
  BY <1>1, DatabasesInvariance, PTL

\* A database that is backed up is persistent, in the list and in the panel, and
\* what is persistent there is kept by a deploy, but for what was taken out or
\* written over (database-tab.tsx, AppController.php).
THEOREM BackupsPersist == Databases!Spec => []Databases!BackupNeedsPersistent
<1>1. DatabasesIInv => Databases!BackupNeedsPersistent
  BY DEF DatabasesIInv
<1> QED
  BY <1>1, DatabasesInvariance, PTL

HIDE PathsAssumption

-----------------------------------------------------------------------------
\* The storage endpoints of a team.
StorageHalf(r) == r.state = "half"

\* As long as two requests have not raced, one at most is between its two writes,
\* and one that has taken the mark off has taken it off all endpoints.
OneAtATime ==
  /\ \A r, o \in storageRequests : StorageHalf(r) /\ StorageHalf(o) => r = o
  /\ \A r \in storageRequests : StorageHalf(r) /\ r.kind = "default" => Storage!Defaults = {}

StorageIInv ==
  /\ Storage!TypeOK
  /\ ~ raced => OneAtATime
  /\ Storage!AtMostOneDefault

USE NamesAssumption

LEMMA StorageTypes ==
  /\ Storage!NoRows \in Storage!Listing
  /\ \A t \in Storage!Listing, n \in Names, m \in {"none", "plain", "default", "gone"} :
       [t EXCEPT ![n] = m] \in Storage!Listing
  /\ \A t \in Storage!Listing : \A n : Storage!Unmarked(t, n) \in Storage!Listing
BY DEF Storage!NoRows, Storage!Listing, Storage!Unmarked

LEMMA StorageInitIInv == Storage!Init => StorageIInv
<1> SUFFICES ASSUME Storage!Init PROVE StorageIInv
  OBVIOUS
<1> DEFINE first == CHOOSE n \in Names : TRUE
<1>1. storageRows \in Storage!Listing
  BY StorageTypes DEF Storage!Init, Storage!NoRows, Storage!Listing
<1>2. Storage!TypeOK
  BY <1>1 DEF Storage!Init, Storage!TypeOK
<1>3. storageRows = [Storage!NoRows EXCEPT ![first] = "default"]
  BY DEF Storage!Init
<1> HIDE DEF first
<1>4. \A n \in Storage!Defaults : n = first
  BY <1>3 DEF Storage!Defaults, Storage!NoRows
<1> QED
  BY <1>2, <1>4 DEF Storage!Init, StorageIInv, OneAtATime, Storage!AtMostOneDefault, StorageHalf

(***************************************************************************)
(* The page: it adds requests that are not begun and removes those that    *)
(* are answered, and the table of the panel stays as it is.                *)
(***************************************************************************)
LEMMA StoragePageIInv ==
  ASSUME StorageIInv, Storage!TypeOK', UNCHANGED <<storageRows, raced>>,
         \A r \in storageRequests' : r \in storageRequests \/ ~ StorageHalf(r),
         \A r \in storageRequests : StorageHalf(r) => r \in storageRequests'
  PROVE  StorageIInv'
<1>1. Storage!Defaults' = Storage!Defaults
  BY DEF Storage!Defaults
<1>2. Storage!HalfDone' = Storage!HalfDone
  BY DEF Storage!HalfDone, StorageHalf
<1>3. ~ raced' => OneAtATime'
  BY <1>1 DEF StorageIInv, OneAtATime, StorageHalf
<1>4. Storage!AtMostOneDefault'
  BY <1>1, <1>2 DEF StorageIInv, Storage!AtMostOneDefault
<1> QED
  BY <1>3, <1>4 DEF StorageIInv

LEMMA StorageNewIsRequest ==
  ASSUME StorageIInv, NEW kind \in {"list", "create", "update", "delete", "default", "test"},
         NEW n \in Names \cup {NoName}
  PROVE  Storage!New(kind, n) \in Storage!Request /\ ~ StorageHalf(Storage!New(kind, n))
BY StorageTypes DEF StorageIInv, Storage!TypeOK, Storage!New, Storage!Request, StorageHalf

LEMMA StorageDialogIInv ==
  ASSUME StorageIInv,
         \/ Storage!OpenCreate \/ Storage!EditForm \/ Storage!Cancel
         \/ \E n \in Names : Storage!OpenEdit(n) \/ Storage!AskToDelete(n)
  PROVE  StorageIInv'
<1>1. UNCHANGED <<storageRows, endpoints, storageRequests, storageAsked, storageDoubtful, raced>>
  BY DEF Storage!OpenCreate, Storage!EditForm, Storage!Cancel, Storage!OpenEdit, Storage!AskToDelete
<1>2. Storage!TypeOK'
  BY <1>1 DEF StorageIInv, Storage!TypeOK, Storage!OpenCreate, Storage!EditForm, Storage!Cancel,
     Storage!OpenEdit, Storage!AskToDelete, Storage!tests
<1> QED
  BY <1>1, <1>2, StoragePageIInv

LEMMA StorageSendIInv ==
  ASSUME StorageIInv,
         \/ Storage!HandleSubmit \/ Storage!HandleTest \/ Storage!HandleDelete
         \/ \E n \in Names : Storage!HandleSetDefault(n)
  PROVE  StorageIInv'
<1>1. PICK kind \in {"create", "update", "delete", "default", "test"}, n \in Names \cup {NoName} :
        Storage!Send(kind, n)
  <2>1. CASE Storage!HandleSubmit
    BY <2>1 DEF Storage!HandleSubmit, StorageIInv, Storage!TypeOK
  <2>2. CASE Storage!HandleTest
    BY <2>2 DEF Storage!HandleTest, StorageIInv, Storage!TypeOK
  <2>3. CASE Storage!HandleDelete
    BY <2>3 DEF Storage!HandleDelete, StorageIInv, Storage!TypeOK
  <2>4. ASSUME NEW n \in Names, Storage!HandleSetDefault(n)
        PROVE  \E kind \in {"create", "update", "delete", "default", "test"},
               m \in Names \cup {NoName} :
                         Storage!Send(kind, m)
    BY <2>4 DEF Storage!HandleSetDefault
  <2> QED
    BY <2>1, <2>2, <2>3, <2>4
<1> DEFINE new == Storage!New(kind, n)
<1>2. new \in Storage!Request /\ ~ StorageHalf(new)
  BY StorageNewIsRequest
<1>3. storageAsked' = storageAsked + 1 /\ storageRequests' = storageRequests \cup {new}
  BY <1>1 DEF Storage!Send
<1> HIDE DEF new
<1>4. Storage!TypeOK'
  <2>1. storageRequests' \subseteq Storage!Request /\ storageAsked' \in Nat
    BY <1>2, <1>3 DEF StorageIInv, Storage!TypeOK
  <2> QED
    BY <2>1 DEF StorageIInv, Storage!TypeOK, Storage!HandleSubmit, Storage!HandleTest,
       Storage!HandleDelete, Storage!HandleSetDefault, Storage!tests
<1>5. UNCHANGED <<storageRows, raced>>
  BY DEF Storage!HandleSubmit, Storage!HandleTest, Storage!HandleDelete, Storage!HandleSetDefault
<1> QED
  BY <1>2, <1>3, <1>4, <1>5, StoragePageIInv

LEMMA StorageAnswerIInv ==
  ASSUME StorageIInv, NEW r \in storageRequests, Storage!Answer(r)
  PROVE  StorageIInv'
<1>1. r \in Storage!Request /\ ~ StorageHalf(r) /\ storageAsked \in Nat
        /\ storageRequests \subseteq Storage!Request
  BY DEF StorageIInv, Storage!TypeOK, Storage!Answer, Storage!EndpointsArrive, Storage!Saved,
     Storage!Done, Storage!Tested, StorageHalf, Storage!Outcomes
<1>2. Storage!FetchEndpoints(storageRequests \ {r})
        \/ (storageRequests' = storageRequests \ {r} /\ storageAsked' = storageAsked)
  BY DEF Storage!Answer, Storage!EndpointsArrive, Storage!Saved, Storage!Done, Storage!Tested
<1>3. Storage!New("list", NoName) \in Storage!Request /\ ~ StorageHalf(Storage!New("list", NoName))
  BY StorageNewIsRequest
<1>4. /\ storageRequests' \subseteq Storage!Request /\ storageAsked' \in Nat
      /\ \A o \in storageRequests' : o \in storageRequests \/ ~ StorageHalf(o)
      /\ \A o \in storageRequests : StorageHalf(o) => o \in storageRequests'
  BY <1>1, <1>2, <1>3 DEF Storage!FetchEndpoints
<1>5. r.data \in Storage!Listing /\ r.endpoint \in Names \cup {NoName}
  BY <1>1 DEF Storage!Request
<1>6. Storage!TypeOK'
  BY <1>4, <1>5 DEF StorageIInv, Storage!TypeOK, Storage!Answer, Storage!EndpointsArrive,
     Storage!Saved, Storage!Done, Storage!Tested, Storage!tests
<1>7. UNCHANGED <<storageRows, raced>>
  BY DEF Storage!Answer, Storage!EndpointsArrive, Storage!Saved, Storage!Done, Storage!Tested
<1> QED
  BY <1>4, <1>6, <1>7, StoragePageIInv

(***************************************************************************)
(* The panel.                                                              *)
(***************************************************************************)
\* A request gives way to itself in another state.
LEMMA StorageBecomes ==
  ASSUME StorageIInv, NEW r \in storageRequests, NEW s \in Storage!Request,
         Storage!Instead(storageRequests, r, s) = storageRequests',
         storageRows' \in Storage!Listing, raced' \in BOOLEAN, UNCHANGED Storage!page
  PROVE  Storage!TypeOK' /\ \A o \in storageRequests' : o = s \/ (o \in storageRequests /\ o # r)
BY DEF StorageIInv, Storage!TypeOK, Storage!Instead, Storage!page, Storage!tests

LEMMA StorageWriteIInv ==
  ASSUME StorageIInv, NEW r \in storageRequests, NEW n \in Names, Storage!Write(r, n)
  PROVE  StorageIInv'
<1>1. PICK state \in {"half", "ok", "lost"} :
        /\ storageRequests' = Storage!Instead(storageRequests, r, [r EXCEPT !.endpoint = n, !.state = state])
        /\ state = "half" <=> r.isDefault
  BY DEF Storage!Write, StorageIInv, Storage!TypeOK, Storage!Request
<1> DEFINE s == [r EXCEPT !.endpoint = n, !.state = state]
<1>2. s \in Storage!Request /\ s.kind = r.kind /\ s.state = state /\ r.isDefault \in BOOLEAN
  BY DEF StorageIInv, Storage!TypeOK, Storage!Request, Storage!Outcomes
<1>3. storageRequests' = Storage!Instead(storageRequests, r, s)
  BY <1>1
<1> HIDE DEF s
<1>4. /\ storageRows' = [storageRows EXCEPT ![n] = Storage!Marked(r.isDefault)]
      /\ storageRows \in Storage!Listing
      /\ raced' = (raced \/ (r.isDefault /\ Storage!HalfDone)) /\ UNCHANGED Storage!page
      /\ r.kind # "default" /\ r.state = "sent"
  BY DEF Storage!Write, StorageIInv, Storage!TypeOK
<1>5. storageRows' \in Storage!Listing
  BY <1>2, <1>4, StorageTypes DEF Storage!Marked
<1>6. Storage!TypeOK' /\ \A o \in storageRequests' : o = s \/ (o \in storageRequests /\ o # r)
  BY <1>2, <1>3, <1>4, <1>5, StorageBecomes DEF StorageIInv, Storage!TypeOK
<1>7. CASE r.isDefault
  <2>1. ~ raced' => \A o \in storageRequests' : StorageHalf(o) => o = s
    BY <1>4, <1>6, <1>7 DEF Storage!HalfDone, StorageHalf
  <2>2. s \in storageRequests' /\ StorageHalf(s)
    BY <1>1, <1>2, <1>3, <1>7 DEF Storage!Instead, StorageHalf
  <2>3. ~ raced' => OneAtATime'
    BY <1>2, <1>4, <2>1 DEF OneAtATime
  <2>4. Storage!HalfDone'
    BY <2>2 DEF Storage!HalfDone, StorageHalf
  <2> QED
    BY <1>6, <2>3, <2>4 DEF StorageIInv, Storage!AtMostOneDefault
<1>8. CASE ~ r.isDefault
  <2>1. Storage!Defaults' \subseteq Storage!Defaults
    BY <1>4, <1>8 DEF Storage!Defaults, Storage!Marked, Storage!Listing
  <2>2. ~ StorageHalf(s) /\ ~ StorageHalf(r)
    BY <1>1, <1>2, <1>4, <1>8 DEF StorageHalf
  <2>3. ~ raced' => OneAtATime'
    BY <1>4, <1>6, <1>8, <2>1, <2>2 DEF StorageIInv, OneAtATime, StorageHalf
  <2>4. Storage!HalfDone => Storage!HalfDone'
    BY <1>3, <2>2 DEF Storage!HalfDone, StorageHalf, Storage!Instead
  <2>5. Storage!AtMostOneDefault'
    BY <1>4, <1>8, <2>1, <2>4 DEF StorageIInv, Storage!AtMostOneDefault
  <2> QED
    BY <1>6, <2>3, <2>5 DEF StorageIInv
<1> QED
  BY <1>2, <1>7, <1>8

LEMMA StorageUnmarkIInv ==
  ASSUME StorageIInv, NEW r \in storageRequests, Storage!Unmark(r)
  PROVE  StorageIInv'
<1> DEFINE s == [r EXCEPT !.state = "half", !.isDefault = storageRows[r.endpoint] = "default"]
<1>1. /\ storageRequests' = Storage!Instead(storageRequests, r, s)
      /\ storageRows' = Storage!Unmarked(storageRows, NoName)
      /\ raced' = (raced \/ Storage!HalfDone) /\ UNCHANGED Storage!page
           /\ storageRows \in Storage!Listing
  BY DEF Storage!Unmark, StorageIInv, Storage!TypeOK
<1>2. s \in Storage!Request /\ StorageHalf(s)
  BY DEF StorageIInv, Storage!TypeOK, Storage!Request, StorageHalf
<1> HIDE DEF s
<1>3. Storage!TypeOK' /\ \A o \in storageRequests' : o = s \/ (o \in storageRequests /\ o # r)
  <2>1. storageRows' \in Storage!Listing /\ raced' \in BOOLEAN
    BY <1>1, StorageTypes DEF StorageIInv, Storage!TypeOK
  <2> QED
    BY <1>1, <1>2, <2>1, StorageBecomes
<1>4. Storage!Defaults' = {}
  BY <1>1 DEF Storage!Defaults, Storage!Unmarked
<1>5. ~ raced' => OneAtATime'
  BY <1>1, <1>3, <1>4 DEF OneAtATime, Storage!HalfDone, StorageHalf
<1> QED
  BY <1>3, <1>4, <1>5 DEF StorageIInv, Storage!AtMostOneDefault

LEMMA StorageSecondWriteIInv ==
  ASSUME StorageIInv, NEW r \in storageRequests, Storage!SecondWrite(r)
  PROVE  StorageIInv'
<1>1. PICK state \in {"ok", "lost"} :
        storageRequests' = Storage!Instead(storageRequests, r, [r EXCEPT !.state = state, !.isDefault = FALSE])
  BY DEF Storage!SecondWrite
<1> DEFINE s == [r EXCEPT !.state = state, !.isDefault = FALSE]
<1>2. s \in Storage!Request /\ ~ StorageHalf(s)
  BY DEF StorageIInv, Storage!TypeOK, Storage!Request, StorageHalf, Storage!Outcomes
<1>3. storageRequests' = Storage!Instead(storageRequests, r, s) /\ UNCHANGED Storage!page
        /\ raced' = raced /\ StorageHalf(r) /\ storageRows \in Storage!Listing
  BY <1>1 DEF Storage!SecondWrite, StorageHalf, StorageIInv, Storage!TypeOK
<1> HIDE DEF s
<1>4. /\ r.kind # "default" => storageRows' = Storage!Unmarked(storageRows, r.endpoint)
      /\ r.kind = "default" => \/ storageRows' = storageRows
                               \/ r.endpoint \in Names
                                    /\ storageRows' = [storageRows EXCEPT ![r.endpoint] = "default"]
  BY DEF Storage!SecondWrite, Storage!There
<1>5. storageRows' \in Storage!Listing
  BY <1>3, <1>4, StorageTypes
<1>6. Storage!TypeOK' /\ \A o \in storageRequests' : o = s \/ (o \in storageRequests /\ o # r)
  BY <1>2, <1>3, <1>5, StorageBecomes DEF StorageIInv, Storage!TypeOK
<1>7. ~ raced => \A o \in storageRequests' : ~ StorageHalf(o)
  BY <1>2, <1>3, <1>6 DEF StorageIInv, OneAtATime
<1>8. ~ raced => \A m \in Storage!Defaults' : m = r.endpoint
  <2>1. CASE r.kind # "default"
    BY <1>4, <2>1 DEF Storage!Defaults, Storage!Unmarked
  <2>2. CASE r.kind = "default"
    <3>1. ~ raced => Storage!Defaults = {}
      BY <1>3, <2>2 DEF StorageIInv, OneAtATime
    <3> QED
      BY <1>3, <1>4, <2>2, <3>1 DEF Storage!Defaults, Storage!Listing
  <2> QED
    BY <2>1, <2>2
<1> QED
  BY <1>3, <1>6, <1>7, <1>8 DEF StorageIInv, OneAtATime, Storage!AtMostOneDefault

\* A second statement that fails leaves what the first has written.
LEMMA StorageSecondFailsIInv ==
  ASSUME StorageIInv, NEW r \in storageRequests, Storage!SecondFails(r)
  PROVE  StorageIInv'
<1> DEFINE s == [r EXCEPT !.state = "refused", !.isDefault = FALSE]
<1>1. s \in Storage!Request /\ ~ StorageHalf(s)
  BY DEF StorageIInv, Storage!TypeOK, Storage!Request, StorageHalf, Storage!Outcomes
<1>2. storageRequests' = Storage!Instead(storageRequests, r, s) /\ StorageHalf(r)
        /\ raced' = (raced \/ r.kind # "default") /\ UNCHANGED storageRows
  BY DEF Storage!SecondFails, StorageHalf
<1> HIDE DEF s
<1>3. \A o \in storageRequests' : o = s \/ (o \in storageRequests /\ o # r)
  BY <1>2 DEF Storage!Instead
<1>4. Storage!TypeOK'
  BY <1>1, <1>2, <1>3 DEF Storage!SecondFails, StorageIInv, Storage!TypeOK, Storage!tests
<1>5. ~ raced' => ~ raced /\ Storage!Defaults' = {}
  BY <1>2 DEF StorageIInv, Storage!TypeOK, OneAtATime, Storage!Defaults
<1>6. ~ raced' => \A o \in storageRequests' : ~ StorageHalf(o)
  BY <1>1, <1>2, <1>3, <1>5 DEF StorageIInv, OneAtATime
<1> QED
  BY <1>4, <1>5, <1>6 DEF StorageIInv, OneAtATime, Storage!AtMostOneDefault

LEMMA StorageServeOtherIInv ==
  ASSUME StorageIInv, NEW r \in storageRequests, Storage!ServeOther(r) \/ Storage!Refuse(r)
  PROVE  StorageIInv'
<1>1. /\ storageRows' = storageRows
           \/ (r.endpoint \in Names /\ storageRows' = [storageRows EXCEPT ![r.endpoint] = "gone"])
      /\ UNCHANGED <<Storage!page, raced>> /\ r.state = "sent" /\ storageRows \in Storage!Listing
  BY DEF Storage!ServeOther, Storage!Refuse, Storage!There, StorageIInv, Storage!TypeOK
<1>2. storageRows' \in Storage!Listing /\ Storage!Defaults' \subseteq Storage!Defaults
  BY <1>1, StorageTypes DEF Storage!Defaults, Storage!Listing
<1>3. PICK state \in {"ok", "lost", "refused"}, data \in Storage!Listing :
        storageRequests' = Storage!Instead(storageRequests, r, [r EXCEPT !.state = state, !.data = data])
  <2>1. CASE Storage!ServeOther(r)
    BY <1>1, <2>1, StorageTypes DEF Storage!ServeOther
  <2>2. CASE Storage!Refuse(r)
    <3>1. r.data \in Storage!Listing
            /\ [r EXCEPT !.state = "refused"] = [r EXCEPT !.state = "refused", !.data = r.data]
      BY DEF StorageIInv, Storage!TypeOK, Storage!Request
    <3> QED
      BY <2>2, <3>1 DEF Storage!Refuse
  <2> QED
    BY <2>1, <2>2
<1> DEFINE s == [r EXCEPT !.state = state, !.data = data]
<1>4. s \in Storage!Request /\ ~ StorageHalf(s)
  BY DEF StorageIInv, Storage!TypeOK, Storage!Request, StorageHalf, Storage!Outcomes
<1>5. storageRequests' = Storage!Instead(storageRequests, r, s)
  BY <1>3
<1> HIDE DEF s
<1>6. Storage!TypeOK' /\ \A o \in storageRequests' : o = s \/ (o \in storageRequests /\ o # r)
  BY <1>1, <1>2, <1>4, <1>5, StorageBecomes DEF StorageIInv, Storage!TypeOK
<1>7. ~ raced' => OneAtATime'
  BY <1>1, <1>2, <1>4, <1>6 DEF StorageIInv, OneAtATime
<1>8. Storage!HalfDone => Storage!HalfDone'
  BY <1>1, <1>5 DEF Storage!HalfDone, Storage!Instead
<1> QED
  BY <1>1, <1>2, <1>6, <1>7, <1>8 DEF StorageIInv, Storage!AtMostOneDefault

LEMMA StorageNextIInv == StorageIInv /\ [Storage!Next]_(Storage!vars) => StorageIInv'
<1> SUFFICES ASSUME StorageIInv, [Storage!Next]_(Storage!vars) PROVE StorageIInv'
  OBVIOUS
<1>1. CASE UNCHANGED Storage!vars
  <2>1. Storage!TypeOK'
    BY <1>1 DEF Storage!vars, Storage!tests, StorageIInv, Storage!TypeOK
  <2> QED
    BY <1>1, <2>1, StoragePageIInv DEF Storage!vars
<1> QED
  BY <1>1, StorageDialogIInv, StorageSendIInv, StorageAnswerIInv, StorageWriteIInv,
     StorageUnmarkIInv, StorageSecondWriteIInv, StorageSecondFailsIInv, StorageServeOtherIInv
     DEF Storage!Next, Storage!Serve

\* The inductive invariant holds in every reachable state.
THEOREM StorageInvariance == Storage!Spec => []StorageIInv
BY StorageInitIInv, StorageNextIInv, PTL DEF Storage!Spec

\* Every variable keeps its type.
THEOREM StorageTypeCorrect == Storage!Spec => []Storage!TypeOK
<1>1. StorageIInv => Storage!TypeOK
  BY DEF StorageIInv
<1> QED
  BY <1>1, StorageInvariance, PTL

\* The two writes of each request that sets the default leave at most one, unless
\* two such requests have raced or one failed in between (StorageEndpointController.php, StorageEndpoint.php).
THEOREM OneDefault == Storage!Spec => []Storage!AtMostOneDefault
<1>1. StorageIInv => Storage!AtMostOneDefault
  BY DEF StorageIInv
<1> QED
  BY <1>1, StorageInvariance, PTL

HIDE NamesAssumption

-----------------------------------------------------------------------------
(***************************************************************************)
(* The list of endpoints.                                                  *)
(***************************************************************************)
StorageChanges == {"create", "update", "delete", "default"}

\* Only a change has a second write.
StorageListIInv ==
  /\ \A r \in storageRequests : StorageHalf(r) => r.kind \in StorageChanges
  /\ Numbered(storageRequests, storageAsked)
  /\ ~ storageDoubtful => Fresh(storageRequests, StorageChanges, endpoints, storageRows)

LEMMA StorageInitListIInv == Storage!Init => StorageListIInv
BY DEF Storage!Init, StorageListIInv, Numbered, Fresh, Lists

LEMMA StorageSendListIInv ==
  ASSUME StorageIInv, StorageListIInv,
         \/ Storage!HandleSubmit \/ Storage!HandleTest \/ Storage!HandleDelete
         \/ \E n \in Names : Storage!HandleSetDefault(n)
  PROVE  StorageListIInv'
<1>1. PICK kind \in {"create", "update", "delete", "default", "test"}, n \in Names \cup {NoName} :
        /\ storageRequests' = storageRequests \cup {Storage!New(kind, n)}
        /\ storageAsked' = storageAsked + 1
  BY DEF StorageIInv, Storage!TypeOK, Storage!HandleSubmit, Storage!HandleTest, Storage!HandleDelete,
         Storage!HandleSetDefault, Storage!Send
<1>2. UNCHANGED <<storageRows, endpoints, storageDoubtful>>
  BY DEF Storage!HandleSubmit, Storage!HandleTest, Storage!HandleDelete, Storage!HandleSetDefault
<1> DEFINE s == Storage!New(kind, n)
<1>3. /\ s.id = storageAsked + 1 /\ s.kind \notin {"list", "reload"} /\ ~ StorageHalf(s)
      /\ storageAsked \in Nat
  BY DEF StorageIInv, Storage!TypeOK, Storage!New, StorageHalf
<1> HIDE DEF s
<1>4. Numbered(storageRequests, storageAsked)'
  BY <1>1, <1>3, NumberedSend DEF StorageListIInv, s
<1>5. (~ storageDoubtful => Fresh(storageRequests, StorageChanges, endpoints, storageRows))'
  BY <1>1, <1>2, <1>3, FreshSend DEF StorageListIInv, s
<1> QED
  BY <1>1, <1>3, <1>4, <1>5 DEF StorageListIInv, s

\* Whatever serves a request changes the endpoints only for a change that is
\* then carried out.
LEMMA StorageServeListIInv ==
  ASSUME StorageIInv, StorageListIInv, NEW r \in storageRequests, Storage!Serve(r)
  PROVE  StorageListIInv'
<1>1. UNCHANGED <<endpoints, storageAsked>> /\ (storageDoubtful => storageDoubtful')
  <2>1. CASE Storage!SecondFails(r)
    BY <2>1 DEF Storage!SecondFails
  <2>2. CASE ~ Storage!SecondFails(r)
    <3>1. UNCHANGED <<endpoints, storageAsked, storageDoubtful>>
      BY <2>2 DEF Storage!Serve, Storage!Write, Storage!Unmark, Storage!SecondWrite,
         Storage!ServeOther, Storage!Refuse, Storage!page
    <3> QED
      BY <3>1
  <2> QED
    BY <2>1, <2>2
<1>2. r \in Storage!Request /\ storageAsked \in Nat /\ storageRows \in Storage!Listing
  BY DEF StorageIInv, Storage!TypeOK
<1>3. PICK s : /\ storageRequests' = Instead(storageRequests, r, s)
               /\ s.id = r.id /\ s.kind = r.kind
               /\ StorageHalf(s) => r.kind \in StorageChanges
               /\ \/ r.kind \in StorageChanges /\ CarriedOut(s)
                  \/ r.kind \notin {"list", "reload"} /\ storageRows' = storageRows /\ ~ CarriedOut(r)
                  \/ /\ r.kind \in {"list", "reload"} /\ storageRows' = storageRows
                     /\ s.state = "ok" => s.data = storageRows
                  \/ storageDoubtful' /\ r.kind \in StorageChanges
  <2> USE DEF Instead, Storage!Instead, StorageHalf, StorageChanges, CarriedOut
  <2>1. CASE \E n \in Names : Storage!Write(r, n)
    <3>1. PICK n \in Names, state \in {"half", "ok", "lost"} :
            storageRequests' = Instead(storageRequests, r, [r EXCEPT !.endpoint = n, !.state = state])
      BY <2>1 DEF Storage!Write
    <3> DEFINE s == [r EXCEPT !.endpoint = n, !.state = state]
    <3>2. s.id = r.id /\ s.kind = r.kind /\ s.state = state
      BY <1>2 DEF Storage!Request
    <3>3. r.kind \in {"create", "update"}
      BY <2>1 DEF Storage!Write
    <3> QED
      BY <3>1, <3>2, <3>3
  <2>2. CASE Storage!Unmark(r)
    <3> DEFINE s == [r EXCEPT !.state = "half", !.isDefault = storageRows[r.endpoint] = "default"]
    <3>1. storageRequests' = Instead(storageRequests, r, s) /\ r.kind = "default"
      BY <2>2 DEF Storage!Unmark
    <3>2. s.id = r.id /\ s.kind = r.kind /\ s.state = "half"
      BY <1>2 DEF Storage!Request
    <3> QED
      BY <3>1, <3>2
  <2>3. CASE Storage!SecondWrite(r)
    <3>1. PICK state \in {"ok", "lost"} :
            storageRequests' = Instead(storageRequests, r, [r EXCEPT !.state = state, !.isDefault = FALSE])
      BY <2>3 DEF Storage!SecondWrite
    <3> DEFINE s == [r EXCEPT !.state = state, !.isDefault = FALSE]
    <3>2. s.id = r.id /\ s.kind = r.kind /\ s.state = state
      BY <1>2 DEF Storage!Request
    <3>3. r.kind \in StorageChanges
      BY <2>3 DEF Storage!SecondWrite, StorageListIInv
    <3> QED
      BY <3>1, <3>2, <3>3
  <2>4. CASE Storage!ServeOther(r)
    <3>1. PICK state \in {"ok", "lost"} :
            storageRequests' = Instead(storageRequests, r, [r EXCEPT !.state = state,
              !.data = IF r.kind = "list" /\ state = "ok" THEN storageRows ELSE Storage!NoRows])
      BY <2>4 DEF Storage!ServeOther
    <3> DEFINE s == [r EXCEPT !.state = state,
              !.data = IF r.kind = "list" /\ state = "ok" THEN storageRows ELSE Storage!NoRows]
    <3>2. /\ s.id = r.id /\ s.kind = r.kind /\ s.state = state
          /\ r.kind = "list" /\ state = "ok" => s.data = storageRows
      BY <1>2 DEF Storage!Request
    <3>3. /\ r.kind \in {"list", "delete", "test"} /\ r.state = "sent"
          /\ r.kind # "delete" => storageRows' = storageRows
      BY <2>4 DEF Storage!ServeOther
    <3> HIDE DEF s
    <3> QED
      BY <3>1, <3>2, <3>3 DEF s
  <2>5. CASE Storage!Refuse(r)
    <3> DEFINE s == [r EXCEPT !.state = "refused"]
    <3>1. /\ storageRequests' = Instead(storageRequests, r, s) /\ r.state = "sent"
          /\ storageRows' = storageRows /\ r.kind # "list"
      BY <2>5 DEF Storage!Refuse
    <3>2. s.id = r.id /\ s.kind = r.kind /\ s.state = "refused" /\ r.kind # "reload"
      BY <1>2, <3>1 DEF Storage!Request
    <3> QED
      BY <3>1, <3>2
  <2>6. CASE Storage!SecondFails(r)
    <3> DEFINE s == [r EXCEPT !.state = "refused", !.isDefault = FALSE]
    <3>1. storageRequests' = Instead(storageRequests, r, s) /\ storageDoubtful'
      BY <2>6 DEF Storage!SecondFails
    <3>2. s.id = r.id /\ s.kind = r.kind /\ s.state = "refused"
      BY <1>2 DEF Storage!Request
    <3>3. r.kind \in StorageChanges
      BY <2>6 DEF Storage!SecondFails, StorageListIInv
    <3> QED
      BY <3>1, <3>2, <3>3
  <2> QED
    BY <2>1, <2>2, <2>3, <2>4, <2>5, <2>6 DEF Storage!Serve
<1>4. Numbered(storageRequests, storageAsked)'
  BY <1>1, <1>2, <1>3, NumberedServe DEF StorageListIInv
<1>5. (~ storageDoubtful => Fresh(storageRequests, StorageChanges, endpoints, storageRows))'
  BY <1>1, <1>2, <1>3, FreshServed DEF StorageListIInv, StorageChanges
<1>6. (\A q \in storageRequests : StorageHalf(q) => q.kind \in StorageChanges)'
  BY <1>3 DEF StorageListIInv, Instead
<1> QED
  BY <1>4, <1>5, <1>6 DEF StorageListIInv

LEMMA StorageAnswerListIInv ==
  ASSUME StorageIInv, StorageListIInv, NEW r \in storageRequests, Storage!Answer(r)
  PROVE  StorageListIInv'
<1> DEFINE l == Storage!New("list", NoName)
<1>1. /\ r \in Storage!Request /\ storageAsked \in Nat /\ Numbered(storageRequests, storageAsked)
      /\ \A q \in storageRequests : q \in Storage!Request
  BY DEF StorageIInv, Storage!TypeOK, StorageListIInv
<1>2. l.id = storageAsked + 1 /\ l.kind = "list" /\ l.state = "sent"
  BY DEF Storage!New
<1> HIDE DEF l
<1>3. CASE Storage!EndpointsArrive(r)
  <2>1. Numbered(storageRequests, storageAsked)'
    BY <1>1, <1>3, NumberedDrop DEF Storage!EndpointsArrive
  <2>2. (~ storageDoubtful => Fresh(storageRequests, StorageChanges, endpoints, storageRows))'
    <3> SUFFICES ASSUME ~ storageDoubtful'
                 PROVE  Fresh(storageRequests \ {r}, StorageChanges, r.data, storageRows)
      BY <1>3 DEF Storage!EndpointsArrive
    <3>1. /\ r.kind = "list" /\ r.state = "ok" /\ ~ storageDoubtful
          /\ ~ \E o \in storageRequests : o.kind = r.kind /\ o.id < r.id
      BY <1>3 DEF Storage!EndpointsArrive
    <3>2. \A o \in Lists(storageRequests) : o.kind = r.kind
      BY <1>1, <3>1 DEF Lists, Storage!Request
    <3> QED
      BY <1>1, <3>1, <3>2, FreshArrived DEF StorageListIInv, StorageChanges
  <2> QED
    BY <1>3, <2>1, <2>2 DEF StorageListIInv, Storage!EndpointsArrive
<1>4. CASE Storage!Saved(r) \/ Storage!Done(r) \/ Storage!Tested(r)
  <2>1. /\ r.kind # "list" /\ r.state \in Storage!Outcomes /\ UNCHANGED <<endpoints, storageRows>>
        /\ r.kind # "test" => storageDoubtful' = (storageDoubtful \/ r.state = "lost")
        /\ r.kind = "test" => storageDoubtful' = storageDoubtful
    BY <1>4 DEF Storage!Saved, Storage!Done, Storage!Tested
  <2>2. \/ storageRequests' = (storageRequests \ {r}) \cup {l} /\ storageAsked' = storageAsked + 1
        \/ /\ storageRequests' = storageRequests \ {r} /\ storageAsked' = storageAsked
           /\ r.state # "ok" \/ r.kind = "test"
    BY <1>4 DEF Storage!Saved, Storage!Done, Storage!Tested, Storage!FetchEndpoints, l
  <2>3. Numbered(storageRequests, storageAsked)'
    BY <1>1, <1>2, <2>2, NumberedAnswered
  <2>4. (~ storageDoubtful => Fresh(storageRequests, StorageChanges, endpoints, storageRows))'
    <3>1. \/ storageRequests' = (storageRequests \ {r}) \cup {l}
          \/ /\ storageRequests' = storageRequests \ {r}
             /\ ~ CarriedOut(r) \/ r.kind \notin StorageChanges \/ storageDoubtful'
      BY <1>1, <2>1, <2>2 DEF CarriedOut, Storage!Outcomes, StorageChanges
    <3>2. r.kind \notin {"list", "reload"}
      BY <1>1, <2>1 DEF Storage!Request
    <3>3. storageDoubtful => storageDoubtful'
      BY <2>1
    <3> QED
      BY <1>1, <1>2, <2>1, <3>1, <3>2, <3>3, FreshAnswered DEF StorageListIInv
  <2>5. (\A q \in storageRequests : StorageHalf(q) => q.kind \in StorageChanges)'
    BY <1>2, <2>2 DEF StorageListIInv, StorageHalf
  <2> QED
    BY <2>3, <2>4, <2>5 DEF StorageListIInv
<1> QED
  BY <1>3, <1>4 DEF Storage!Answer

LEMMA StorageNextListIInv ==
  StorageIInv /\ StorageListIInv /\ [Storage!Next]_(Storage!vars) => StorageListIInv'
<1> SUFFICES ASSUME StorageIInv, StorageListIInv, [Storage!Next]_(Storage!vars) PROVE StorageListIInv'
  OBVIOUS
<1>1. CASE UNCHANGED Storage!vars
  BY <1>1 DEF StorageListIInv, Storage!vars
<1>2. CASE \/ Storage!OpenCreate \/ Storage!EditForm \/ Storage!Cancel
           \/ \E n \in Names : Storage!OpenEdit(n) \/ Storage!AskToDelete(n)
  BY <1>2 DEF StorageListIInv, Storage!OpenCreate, Storage!EditForm, Storage!Cancel, Storage!OpenEdit,
     Storage!AskToDelete
<1>3. CASE \/ Storage!HandleSubmit \/ Storage!HandleTest \/ Storage!HandleDelete
           \/ \E n \in Names : Storage!HandleSetDefault(n)
  BY <1>3, StorageSendListIInv
<1>4. CASE \E r \in storageRequests : Storage!Serve(r) \/ Storage!Answer(r)
  BY <1>4, StorageServeListIInv, StorageAnswerListIInv
<1> QED
  BY <1>1, <1>2, <1>3, <1>4 DEF Storage!Next

\* TeamStorage!ListIsCurrent: the endpoints and the mark shown are the panel's
\* once all is quiet.
THEOREM EndpointsAreCurrent == Storage!Spec => []Storage!ListIsCurrent
<1>1. StorageListIInv => Storage!ListIsCurrent
  BY FreshWhenQuiet DEF StorageListIInv, Storage!ListIsCurrent
<1> QED
  BY <1>1, StorageInitListIInv, StorageNextListIInv, StorageInvariance, PTL DEF Storage!Spec

-----------------------------------------------------------------------------
(***************************************************************************)
(* The list of databases and the panel's.  A list is only added to, but    *)
(* where the page itself changes it; so what a request has loaded, found   *)
(* or written is still there, and what a list without unsaved changes      *)
(* shows was loaded by any scan under way.                                 *)
(***************************************************************************)
\* What holds of request q when the page shows db, the panel has t, and there are
\* unsaved changes (d) or not.
Clear(q, db, t, d) ==
  /\ q.kind = "save" => d
  /\ q.kind \in {"save", "scan"} /\ q.state \in {"half", "ok"} => Databases!Within(q.table, t)
  /\ q.kind \in {"save", "scan"} /\ q.state = "loaded" => Databases!Within(q.loaded, t)
  /\ q.kind \in {"scan", "deploy"} /\ q.state = "loaded" => Databases!Within(q.loaded, q.table)
  /\ q.kind = "scan" /\ q.state = "loaded" /\ ~ d => Databases!Within(db, q.loaded)

\* One save and one scan at most are under way, and not both unless that is doubtful (x).
Clean(rs, db, t, d, sv, sc, x) ==
  /\ \A q \in rs : (q.kind = "save" => sv) /\ (q.kind = "scan" => sc)
  /\ \A q, o \in rs : q.kind = o.kind /\ q.kind \in {"save", "scan"} => q = o
  /\ ~ x => /\ \A q, o \in rs : ~ (q.kind = "save" /\ o.kind = "scan")
            /\ \A q \in rs : Clear(q, db, t, d)
            /\ ~ d => Databases!Within(db, t)

DatabasesCleanIInv ==
  Clean(databaseRequests, databases, databaseRows, databaseDirty, databaseSaving, scanning,
        databaseDoubtful)

LEMMA CleanNext ==
  Clean(databaseRequests', databases', databaseRows', databaseDirty', databaseSaving', scanning',
        databaseDoubtful') => DatabasesCleanIInv'
BY DEF DatabasesCleanIInv, Clean, Clear, Databases!Within, Databases!Tracked

LEMMA WithinItself == \A t : Databases!Within(t, t)
BY DEF Databases!Within

LEMMA WithinBoth ==
  ASSUME NEW t, NEW u, NEW v, Databases!Within(t, u), Databases!Within(u, v)
  PROVE  Databases!Within(t, v)
BY DEF Databases!Within, Databases!Tracked

LEMMA WithinMerged ==
  ASSUME NEW t \in Databases!Table, NEW found PROVE Databases!Within(t, Databases!Merged(t, found))
BY DEF Databases!Within, Databases!Merged, Databases!Tracked

\* The panel's list grows, and r becomes s.
LEMMA CleanServed ==
  ASSUME NEW rs, NEW db, NEW t, NEW d, NEW sv, NEW sc,
         NEW x, Clean(rs, db, t, d, sv, sc, x),
         NEW r \in rs, NEW s, s.kind = r.kind, NEW rs1, rs1 \subseteq (rs \ {r}) \cup {s},
         NEW t1, NEW x1, x => x1,
         ~ x1 => Databases!Within(t, t1) /\ Clear(s, db, t1, d)
  PROVE  Clean(rs1, db, t1, d, sv, sc, x1)
<1>1. ASSUME NEW q, ~ x1, Clear(q, db, t, d) PROVE Clear(q, db, t1, d)
  BY <1>1, WithinBoth DEF Clear
<1>2. ~ x1 => (~ d => Databases!Within(db, t1))
  BY WithinBoth DEF Clean
<1> QED
  BY <1>1, <1>2 DEF Clean

\* A save or a scan writes its list.
LEMMA CleanWritten ==
  ASSUME NEW rs, NEW db, NEW t, NEW d, NEW sv, NEW sc,
         NEW x, Clean(rs, db, t, d, sv, sc, x),
         NEW r \in rs, r.kind \in {"save", "scan"}, r.state = "loaded",
         NEW s, s.kind = r.kind, s.table = r.table, s.state = "half",
         NEW rs1, rs1 \subseteq (rs \ {r}) \cup {s}
  PROVE  Clean(rs1, db, r.table, d, sv, sc, x)
<1>1. ~ x => Clear(s, db, r.table, d)
  BY WithinItself DEF Clean, Clear
<1>2. ASSUME NEW q \in rs \ {r}, ~ x PROVE Clear(q, db, r.table, d)
  BY <1>2 DEF Clean, Clear
<1>3. ~ x => (~ d => Databases!Within(db, r.table))
  <2>1. CASE r.kind = "save"
    BY <2>1 DEF Clean, Clear
  <2>2. CASE r.kind = "scan"
    BY <2>2, WithinBoth DEF Clean, Clear
  <2> QED
    BY <2>1, <2>2
<1> QED
  BY <1>1, <1>2, <1>3 DEF Clean

\* The page changes its list.
LEMMA CleanTouched ==
  ASSUME NEW rs, NEW db, NEW t, NEW d, NEW sv, NEW sc,
         NEW x, Clean(rs, db, t, d, sv, sc, x), NEW db1, NEW d1, d1
  PROVE  Clean(rs, db1, t, d1, sv, sc, x)
BY DEF Clean, Clear

\* One more request.
LEMMA CleanAsked ==
  ASSUME NEW rs, NEW db, NEW t, NEW d, NEW sv, NEW sc,
         NEW x, Clean(rs, db, t, d, sv, sc, x),
         NEW s, NEW sv1, NEW sc1, NEW x1, x => x1,
         s.kind = "save" => ~ sv /\ sv1 /\ (x1 \/ ~ sc),
         s.kind = "scan" => ~ sc /\ sc1 /\ (x1 \/ ~ sv),
         s.kind # "save" => sv1 = sv, s.kind # "scan" => sc1 = sc,
         Clear(s, db, t, d)
  PROVE  Clean(rs \cup {s}, db, t, d, sv1, sc1, x1)
BY DEF Clean

\* An answer: the list shown is as it was, or what the panel has.
LEMMA CleanAnswered ==
  ASSUME NEW rs, NEW db, NEW t, NEW d, NEW sv, NEW sc,
         NEW x, Clean(rs, db, t, d, sv, sc, x),
         NEW r \in rs, NEW rs1, \A o \in rs1 : (o \in rs /\ o # r) \/ o.kind = "reload",
         NEW db1, NEW d1, NEW sv1, NEW sc1, NEW x1,
         x => x1, r.kind # "save" => sv1 = sv, r.kind # "scan" => sc1 = sc,
         \/ db1 = db /\ d1 = d
         \/ r.kind \in {"save", "scan"} /\ (x1 \/ Databases!Within(db1, t))
  PROVE  Clean(rs1, db1, t, d1, sv1, sc1, x1)
<1>1. \A o \in rs1 : (o.kind = "save" => sv1) /\ (o.kind = "scan" => sc1)
  BY DEF Clean
<1>2. \A q, o \in rs1 : q.kind = o.kind /\ q.kind \in {"save", "scan"} => q = o
  BY DEF Clean
<1>3. ASSUME ~ x1
      PROVE  /\ \A q, o \in rs1 : ~ (q.kind = "save" /\ o.kind = "scan")
             /\ \A q \in rs1 : Clear(q, db1, t, d1)
             /\ ~ d1 => Databases!Within(db1, t)
  <2>1. \A q, o \in rs1 : ~ (q.kind = "save" /\ o.kind = "scan")
    BY <1>3 DEF Clean
  <2>2. CASE db1 = db /\ d1 = d
    BY <1>3, <2>1, <2>2 DEF Clean, Clear
  <2>3. CASE r.kind \in {"save", "scan"} /\ Databases!Within(db1, t)
    <3>1. \A q \in rs1 : q.kind \notin {"save", "scan"}
      BY <1>3, <2>3 DEF Clean
    <3>2. \A q \in rs1 : Clear(q, db1, t, d1)
      BY <1>3, <3>1 DEF Clean, Clear
    <3> QED
      BY <2>1, <2>3, <3>2
  <2> QED
    BY <1>3, <2>2, <2>3
<1> QED
  BY <1>1, <1>2, <1>3 DEF Clean

\* The flags are Boolean, now and next.
LEMMA DatabasesFlags ==
  DatabasesIInv => /\ databaseDirty \in BOOLEAN /\ databaseSaving \in BOOLEAN
                   /\ scanning \in BOOLEAN /\ databaseDoubtful \in BOOLEAN
BY DEF DatabasesIInv, Databases!TypeOK

LEMMA DatabasesFlagsNext ==
  DatabasesIInv' => /\ databaseDirty' \in BOOLEAN /\ databaseSaving' \in BOOLEAN
                    /\ scanning' \in BOOLEAN /\ databaseDoubtful' \in BOOLEAN
BY DEF DatabasesIInv, Databases!TypeOK

LEMMA DatabasesInitClean == Databases!Init => DatabasesCleanIInv
BY WithinItself DEF Databases!Init, DatabasesCleanIInv, Clean

LEMMA DatabasesUserClean ==
  ASSUME DatabasesIInv, DatabasesIInv', DatabasesCleanIInv,
         \/ Databases!HandleSave \/ Databases!HandleScanVm \/ Databases!CancelRestore
              \/ Databases!HandleRestore
         \/ \E own \in BOOLEAN : Databases!HandleStorageEndpointChange(own)
         \/ \E found \in SUBSET Paths : Databases!DeployBegins(found)
         \/ \E p \in Paths : Databases!OpenRestore(p) \/ Databases!HandleManualAdd(p)
         \/ \E p \in Paths : \E on \in BOOLEAN :
              Databases!SetBackup(p, on) \/ Databases!SetPersistent(p, on) \/ Databases!PinBegins(p, on)
  PROVE  DatabasesCleanIInv'
<1> USE DEF Databases!panel, Databases!list, Databases!busy, Databases!dialog
<1>1. CASE Databases!CancelRestore \/ \E p \in Paths : Databases!OpenRestore(p)
  <2>1. UNCHANGED <<databaseRequests, databases, databaseRows, databaseDirty, databaseSaving,
                    scanning, databaseDoubtful>>
    BY <1>1 DEF Databases!CancelRestore, Databases!OpenRestore
  <2> QED
    BY <2>1, CleanNext DEF DatabasesCleanIInv
<1>2. CASE \/ \E p \in Paths : Databases!HandleManualAdd(p)
           \/ \E p \in Paths : \E on \in BOOLEAN : Databases!SetBackup(p, on) \/ Databases!SetPersistent(p, on)
  <2>1. /\ databaseDirty' = TRUE
        /\ UNCHANGED <<databaseRows, databaseRequests, databaseSaving, scanning, databaseDoubtful>>
    BY <1>2 DEF Databases!HandleManualAdd, Databases!SetBackup, Databases!SetPersistent
  <2>2. Clean(databaseRequests, databases', databaseRows, databaseDirty', databaseSaving, scanning,
              databaseDoubtful)
    BY <2>1, CleanTouched, DatabasesFlags, DatabasesFlagsNext DEF DatabasesCleanIInv
  <2> QED
    BY <2>1, <2>2, CleanNext
<1>3. CASE \/ Databases!HandleSave \/ Databases!HandleScanVm \/ Databases!HandleRestore
           \/ \E own \in BOOLEAN : Databases!HandleStorageEndpointChange(own)
           \/ \E found \in SUBSET Paths : Databases!DeployBegins(found)
           \/ \E p \in Paths : \E on \in BOOLEAN : Databases!PinBegins(p, on)
  <2>1. PICK s : /\ databaseRequests' = databaseRequests \cup {s}
                 /\ s.kind = "save" => /\ ~ databaseSaving /\ databaseSaving'
                                       /\ databaseDoubtful' \/ ~ scanning
                 /\ s.kind = "scan" => /\ ~ scanning /\ scanning'
                                       /\ databaseDoubtful' \/ ~ databaseSaving
                 /\ s.kind # "save" => databaseSaving' = databaseSaving
                 /\ s.kind # "scan" => scanning' = scanning
                 /\ databaseDoubtful => databaseDoubtful'
                 /\ Clear(s, databases, databaseRows, databaseDirty)
    <3> DEFINE new(kind, path, own) ==
                 [kind |-> kind, id |-> databaseAsked + 1,
                  table |-> IF kind = "save" THEN databases ELSE Databases!Untracked,
                  loaded |-> Databases!Untracked, paths |-> {}, path |-> path, own |-> own,
                  state |-> "sent"]
    <3>1. \A kind, path, own : new(kind, path, own).kind = kind /\ new(kind, path, own).state = "sent"
      OBVIOUS
    <3>2. \A rs, kind, path, own :
            Databases!Ask(rs, kind, path, own) => databaseRequests' = rs \cup {new(kind, path, own)}
      BY DEF Databases!Ask
    <3> HIDE DEF new
    <3>3. CASE Databases!HandleSave
      <4> DEFINE s == new("save", NoPath, FALSE)
      <4>1. databaseRequests' = databaseRequests \cup {s}
        BY <3>2, <3>3 DEF Databases!HandleSave
      <4>2. /\ ~ databaseSaving /\ databaseSaving' = TRUE /\ scanning' = scanning
            /\ databaseDoubtful' = (databaseDoubtful \/ scanning) /\ databaseDirty
        BY <3>3 DEF Databases!HandleSave
      <4>3. s.kind = "save" /\ s.state = "sent"
        BY <3>1
      <4> HIDE DEF s
      <4>4. Clear(s, databases, databaseRows, databaseDirty)
        BY <4>2, <4>3 DEF Clear
      <4> QED
        BY <4>1, <4>2, <4>3, <4>4, DatabasesFlags, DatabasesFlagsNext
    <3>4. CASE Databases!HandleScanVm
      <4> DEFINE s == new("scan", NoPath, FALSE)
      <4>1. databaseRequests' = databaseRequests \cup {s}
        BY <3>2, <3>4 DEF Databases!HandleScanVm
      <4>2. /\ ~ scanning /\ scanning' = TRUE /\ databaseSaving' = databaseSaving
            /\ databaseDoubtful' = (databaseDoubtful \/ databaseSaving)
        BY <3>4 DEF Databases!HandleScanVm
      <4>3. s.kind = "scan" /\ s.state = "sent"
        BY <3>1
      <4> HIDE DEF s
      <4>4. Clear(s, databases, databaseRows, databaseDirty)
        BY <4>3 DEF Clear
      <4> QED
        BY <4>1, <4>2, <4>3, <4>4, DatabasesFlags, DatabasesFlagsNext
    <3>5. ASSUME NEW s, databaseRequests' = databaseRequests \cup {s}, s.kind \notin {"save", "scan"},
                 s.kind = "deploy" => Databases!Within(s.loaded, s.table),
                 UNCHANGED <<databaseSaving, scanning, databaseDoubtful>>
          PROVE  /\ databaseRequests' = databaseRequests \cup {s}
                 /\ s.kind = "save" => /\ ~ databaseSaving /\ databaseSaving'
                                       /\ databaseDoubtful' \/ ~ scanning
                 /\ s.kind = "scan" => /\ ~ scanning /\ scanning'
                                       /\ databaseDoubtful' \/ ~ databaseSaving
                 /\ s.kind # "save" => databaseSaving' = databaseSaving
                 /\ s.kind # "scan" => scanning' = scanning
                 /\ databaseDoubtful => databaseDoubtful'
                 /\ Clear(s, databases, databaseRows, databaseDirty)
      BY <3>5, DatabasesFlags DEF Clear
    <3>6. CASE Databases!HandleRestore
      <4> DEFINE s == new("restore", confirmRestore, FALSE)
      <4>1. databaseRequests' = databaseRequests \cup {s}
              /\ UNCHANGED <<databaseSaving, scanning, databaseDoubtful>>
        BY <3>2, <3>6 DEF Databases!HandleRestore
      <4>2. s.kind = "restore"
        BY <3>1
      <4> QED
        BY <3>5, <4>1, <4>2
    <3>7. CASE \E own \in BOOLEAN : Databases!HandleStorageEndpointChange(own)
      <4>1. PICK own \in BOOLEAN : Databases!HandleStorageEndpointChange(own)
        BY <3>7
      <4> DEFINE s == new("endpoint", NoPath, own)
      <4>2. databaseRequests' = databaseRequests \cup {s}
              /\ UNCHANGED <<databaseSaving, scanning, databaseDoubtful>>
        BY <3>2, <4>1 DEF Databases!HandleStorageEndpointChange
      <4>3. s.kind = "endpoint"
        BY <3>1
      <4> QED
        BY <3>5, <4>2, <4>3
    <3>8. CASE \E found \in SUBSET Paths : Databases!DeployBegins(found)
      <4>1. PICK found \in SUBSET Paths : Databases!DeployBegins(found)
        BY <3>8
      <4> DEFINE s == [kind |-> "deploy", id |-> databaseAsked + 1,
                       table |-> Databases!Merged(databaseRows, found), loaded |-> databaseRows,
                       paths |-> persistentPaths, path |-> NoPath, own |-> FALSE, state |-> "loaded"]
      <4>2. databaseRequests' = databaseRequests \cup {s}
              /\ UNCHANGED <<databaseSaving, scanning, databaseDoubtful>>
        BY <4>1 DEF Databases!DeployBegins
      <4>3. s.kind = "deploy" /\ Databases!Within(s.loaded, s.table)
        BY WithinMerged DEF DatabasesIInv, Databases!TypeOK
      <4> HIDE DEF s
      <4> QED
        BY <3>5, <4>2, <4>3
    <3>9. CASE \E p \in Paths : \E on \in BOOLEAN : Databases!PinBegins(p, on)
      <4>1. PICK p \in Paths, on \in BOOLEAN : Databases!PinBegins(p, on)
        BY <3>9
      <4> DEFINE s == [kind |-> "pin", id |-> databaseAsked + 1, table |-> Databases!Untracked,
                       loaded |-> Databases!Untracked, paths |-> persistentPaths, path |-> p,
                       own |-> on, state |-> "loaded"]
      <4>2. databaseRequests' = databaseRequests \cup {s}
              /\ UNCHANGED <<databaseSaving, scanning, databaseDoubtful>>
        BY <4>1 DEF Databases!PinBegins
      <4>3. s.kind = "pin"
        OBVIOUS
      <4> HIDE DEF s
      <4> QED
        BY <3>5, <4>2, <4>3
    <3> QED
      BY <1>3, <3>3, <3>4, <3>6, <3>7, <3>8, <3>9
  <2>2. UNCHANGED <<databaseRows, databases, databaseDirty>>
    BY <1>3 DEF Databases!HandleSave, Databases!HandleScanVm, Databases!HandleRestore,
       Databases!HandleStorageEndpointChange, Databases!DeployBegins, Databases!PinBegins
  <2>3. Clean(databaseRequests \cup {s}, databases, databaseRows, databaseDirty, databaseSaving',
              scanning', databaseDoubtful')
    BY <2>1, CleanAsked, DatabasesFlags, DatabasesFlagsNext DEF DatabasesCleanIInv
  <2> QED
    BY <2>1, <2>2, <2>3, CleanNext
<1> QED
  BY <1>1, <1>2, <1>3

LEMMA DatabasesPanelClean ==
  ASSUME DatabasesIInv, DatabasesIInv', DatabasesCleanIInv, NEW r \in databaseRequests,
         Databases!Serve(r)
  PROVE  DatabasesCleanIInv'
<1> USE DEF Databases!panel, Databases!list, Databases!busy, Databases!dialog
<1>1. UNCHANGED <<databases, databaseDirty, databaseSaving, scanning>>
  BY DEF Databases!Serve, Databases!Refused, Databases!Load, Databases!WriteRows,
     Databases!WritePaths, Databases!ServeOther, Databases!PinsDirectories, Databases!PinEnds
<1>2. /\ r \in Databases!Request /\ databaseRows \in Databases!Table
      /\ \A q, s : Databases!Becomes(q, s) => databaseRequests' \subseteq (databaseRequests \ {q}) \cup {s}
  BY DatabasesAsking DEF Databases!Becomes
<1>3. ASSUME NEW s, s.kind = r.kind, databaseRequests' \subseteq (databaseRequests \ {r}) \cup {s},
             databaseDoubtful => databaseDoubtful',
             ~ databaseDoubtful' => /\ Databases!Within(databaseRows, databaseRows')
                                    /\ Clear(s, databases, databaseRows', databaseDirty)
      PROVE  DatabasesCleanIInv'
  <2>1. Clean(databaseRequests, databases, databaseRows, databaseDirty, databaseSaving, scanning,
              databaseDoubtful)
    BY DEF DatabasesCleanIInv
  <2>2. Clean(databaseRequests', databases, databaseRows', databaseDirty, databaseSaving, scanning,
              databaseDoubtful')
    BY <1>3, <2>1, CleanServed, DatabasesFlags, DatabasesFlagsNext
  <2> QED
    BY <1>1, <2>2, CleanNext
<1>4. ~ databaseDoubtful => Clear(r, databases, databaseRows, databaseDirty)
        /\ (~ databaseDirty => Databases!Within(databases, databaseRows))
  BY DEF DatabasesCleanIInv, Clean
<1>5. CASE Databases!Refused(r)
  <2> DEFINE s == [r EXCEPT !.state = "refused"]
  <2>1. s.kind = r.kind /\ s.state = "refused"
    BY <1>2 DEF Databases!Request
  <2>2. Databases!Becomes(r, s) /\ UNCHANGED <<databaseRows, databaseDoubtful>>
    BY <1>5 DEF Databases!Refused
  <2> HIDE DEF s
  <2>3. ~ databaseDoubtful => Clear(s, databases, databaseRows, databaseDirty)
    BY <1>4, <2>1 DEF Clear
  <2> QED
    BY <1>2, <1>3, <2>1, <2>2, <2>3, WithinItself
<1>6. CASE Databases!Load(r)
  <2> DEFINE table == IF r.kind = "save" THEN Databases!Forced(r.table) ELSE Databases!Merged(databaseRows, InVm)
             s == [r EXCEPT !.state = "loaded", !.loaded = databaseRows, !.paths = persistentPaths,
                            !.table = table]
  <2>1. /\ s.kind = r.kind /\ s.state = "loaded" /\ s.loaded = databaseRows /\ s.table = table
        /\ r.kind \in {"save", "scan"}
    BY <1>2, <1>6 DEF Databases!Request, Databases!Load
  <2>2. Databases!Becomes(r, s) /\ UNCHANGED <<databaseRows, databaseDoubtful>>
    BY <1>2, <1>6 DEF Databases!Load, Databases!Request
  <2>3. r.kind = "scan" => Databases!Within(databaseRows, table)
    BY <1>2, WithinMerged
  <2> HIDE DEF s, table
  <2>4. ~ databaseDoubtful => Clear(s, databases, databaseRows, databaseDirty)
    BY <1>4, <2>1, <2>3, WithinItself DEF Clear
  <2> QED
    BY <1>2, <1>3, <2>1, <2>2, <2>4, WithinItself
<1>7. CASE Databases!WriteRows(r)
  <2> DEFINE s == [r EXCEPT !.state = "half"]
  <2>1. /\ s.kind = r.kind /\ s.state = "half" /\ s.table = r.table /\ r.state = "loaded"
        /\ r.kind \in {"save", "scan", "deploy"}
    BY <1>2, <1>7 DEF Databases!Request, Databases!WriteRows, Databases!Writers
  <2>2. /\ Databases!Becomes(r, s)
        /\ databaseRows' = IF r.table = r.loaded THEN databaseRows ELSE r.table
        /\ databaseDoubtful' = (databaseDoubtful
             \/ (r.kind = "deploy" /\ r.table # r.loaded /\ databaseRows # r.loaded))
    BY <1>7 DEF Databases!WriteRows
  <2> HIDE DEF s
  <2>3. CASE r.table = r.loaded
    <3>1. UNCHANGED <<databaseRows, databaseDoubtful>>
      BY <2>2, <2>3, DatabasesFlags
    <3>2. ~ databaseDoubtful => Clear(s, databases, databaseRows, databaseDirty)
      BY <1>4, <2>1, <2>3 DEF Clear
    <3> QED
      BY <1>2, <1>3, <2>1, <2>2, <3>1, <3>2, WithinItself
  <2>4. CASE r.table # r.loaded /\ r.kind = "deploy"
    <3>1. databaseDoubtful => databaseDoubtful'
      BY <2>2, DatabasesFlags
    <3>2. ~ databaseDoubtful' => ~ databaseDoubtful /\ databaseRows = r.loaded /\ databaseRows' = r.table
      BY <2>2, <2>4, DatabasesFlags
    <3>3. ~ databaseDoubtful' => Databases!Within(databaseRows, databaseRows')
      BY <1>4, <2>1, <2>4, <3>2 DEF Clear
    <3>4. Clear(s, databases, databaseRows', databaseDirty)
      BY <2>1, <2>4 DEF Clear
    <3> QED
      BY <1>2, <1>3, <2>1, <2>2, <3>1, <3>3, <3>4
  <2>5. CASE r.table # r.loaded /\ r.kind # "deploy"
    <3>1. databaseRows' = r.table /\ UNCHANGED databaseDoubtful
      BY <2>2, <2>5, DatabasesFlags
    <3>2. databaseRequests' \subseteq (databaseRequests \ {r}) \cup {s}
      BY <1>2, <2>2
    <3>3. Clean(databaseRequests', databases, r.table, databaseDirty, databaseSaving, scanning,
                databaseDoubtful)
      BY <2>1, <2>5, <3>2, CleanWritten, DatabasesFlags DEF DatabasesCleanIInv
    <3> QED
      BY <1>1, <3>1, <3>3, CleanNext
  <2> QED
    BY <2>3, <2>4, <2>5
<1>8. CASE Databases!WritePaths(r)
  <2>1. PICK state \in {"ok", "lost"} : Databases!Becomes(r, [r EXCEPT !.state = state])
    BY <1>8 DEF Databases!WritePaths
  <2> DEFINE s == [r EXCEPT !.state = state]
  <2>2. s.kind = r.kind /\ s.state \in {"ok", "lost"} /\ s.table = r.table /\ r.state = "half"
    BY <1>2, <1>8 DEF Databases!Request, Databases!WritePaths
  <2>3. Databases!Becomes(r, s) /\ UNCHANGED <<databaseRows, databaseDoubtful>>
    BY <1>8, <2>1 DEF Databases!WritePaths
  <2> HIDE DEF s
  <2>4. ~ databaseDoubtful => Clear(s, databases, databaseRows, databaseDirty)
    BY <1>4, <2>2 DEF Clear
  <2> QED
    BY <1>2, <1>3, <2>2, <2>3, <2>4, WithinItself
<1>9. CASE Databases!PinsDirectories(r)
  <2>1. UNCHANGED <<databaseRequests, databaseRows, databaseDoubtful>>
    BY <1>9 DEF Databases!PinsDirectories
  <2> QED
    BY <1>1, <2>1, CleanNext DEF DatabasesCleanIInv
<1>10. CASE Databases!ServeOther(r) \/ Databases!PinEnds(r)
  <2>1. PICK s : Databases!Becomes(r, s) /\ s.kind = r.kind
    <3>1. CASE Databases!PinEnds(r)
      <4>1. [r EXCEPT !.state = "ok"].kind = r.kind
        BY <1>2 DEF Databases!Request
      <4> QED
        BY <3>1, <4>1 DEF Databases!PinEnds
    <3>2. CASE Databases!ServeOther(r)
      <4>1. PICK state \in {"ok", "lost"} :
              Databases!Becomes(r, [r EXCEPT !.state = state, !.own = endpoint'])
        BY <3>2 DEF Databases!ServeOther
      <4>2. [r EXCEPT !.state = state, !.own = endpoint'].kind = r.kind
        BY <1>2 DEF Databases!Request
      <4> QED
        BY <4>1, <4>2
    <3> QED
      BY <1>10, <3>1, <3>2
  <2>2. UNCHANGED <<databaseRows, databaseDoubtful>> /\ r.kind \notin {"save", "scan", "deploy"}
    BY <1>10 DEF Databases!ServeOther, Databases!PinEnds
  <2>3. Clear(s, databases, databaseRows, databaseDirty)
    BY <2>1, <2>2 DEF Clear
  <2> QED
    BY <1>2, <1>3, <2>1, <2>2, <2>3, WithinItself
<1> QED
  BY <1>5, <1>6, <1>7, <1>8, <1>9, <1>10 DEF Databases!Serve

LEMMA DatabasesAnswerClean ==
  ASSUME DatabasesIInv, DatabasesIInv', DatabasesCleanIInv, NEW r \in databaseRequests,
         Databases!Answer(r)
  PROVE  DatabasesCleanIInv'
<1> USE DEF Databases!panel, Databases!list, Databases!busy, Databases!dialog
<1>1. \A o \in databaseRequests' : (o \in databaseRequests /\ o # r) \/ o.kind = "reload"
  BY DEF Databases!Answer, Databases!Saved, Databases!Scanned, Databases!EndpointSaved,
     Databases!Restored, Databases!Reloaded, Databases!Asking, Databases!Ask
<1>2. /\ r.kind # "save" => databaseSaving' = databaseSaving
      /\ r.kind # "scan" => scanning' = scanning
      /\ databaseDoubtful => databaseDoubtful'
      /\ UNCHANGED databaseRows
  BY DatabasesFlags DEF Databases!Answer, Databases!Saved, Databases!Scanned,
     Databases!EndpointSaved, Databases!Restored, Databases!Reloaded
<1>3. \/ databases' = databases /\ databaseDirty' = databaseDirty
      \/ /\ r.kind \in {"save", "scan"} /\ r.state = "ok"
         /\ databaseDoubtful' \/ databases' = r.table
  BY DEF Databases!Answer, Databases!Saved, Databases!Scanned, Databases!EndpointSaved,
     Databases!Restored, Databases!Reloaded
<1>4. \/ databases' = databases /\ databaseDirty' = databaseDirty
      \/ r.kind \in {"save", "scan"} /\ (databaseDoubtful' \/ Databases!Within(databases', databaseRows))
  BY <1>2, <1>3, DatabasesFlags, DatabasesFlagsNext DEF DatabasesCleanIInv, Clean, Clear
<1>5. Clean(databaseRequests', databases', databaseRows, databaseDirty', databaseSaving', scanning',
            databaseDoubtful')
  BY <1>1, <1>2, <1>4, CleanAnswered, DatabasesFlags, DatabasesFlagsNext DEF DatabasesCleanIInv
<1> QED
  BY <1>2, <1>5, CleanNext

LEMMA DatabasesNextClean ==
  DatabasesIInv /\ DatabasesIInv' /\ DatabasesCleanIInv /\ [Databases!Next]_(Databases!vars)
    => DatabasesCleanIInv'
<1> SUFFICES ASSUME DatabasesIInv, DatabasesIInv', DatabasesCleanIInv,
                    [Databases!Next]_(Databases!vars)
             PROVE  DatabasesCleanIInv'
  OBVIOUS
<1>1. CASE UNCHANGED Databases!vars
  BY <1>1, CleanNext DEF Databases!vars, Databases!panel, Databases!list, Databases!busy,
     Databases!dialog, DatabasesCleanIInv
<1>2. CASE Databases!Next
  BY <1>2, DatabasesUserClean, DatabasesPanelClean, DatabasesAnswerClean DEF Databases!Next
<1> QED
  BY <1>1, <1>2

\* DatabaseTab!CleanMeansStored: what a list without unsaved changes shows is what
\* the panel has.
THEOREM DatabasesStored == Databases!Spec => []Databases!CleanMeansStored
<1>1. DatabasesCleanIInv => Databases!CleanMeansStored
  BY DEF DatabasesCleanIInv, Clean, Databases!CleanMeansStored
<1> QED
  BY <1>1, DatabasesInvariance, DatabasesInitClean, DatabasesNextClean, PTL DEF Databases!Spec

-----------------------------------------------------------------------------
(***************************************************************************)
(* The forms of an app.  What the page's copy of the app says of form f is *)
(* a list of its own, which the saves of f change and the reloads bring.   *)
(***************************************************************************)
SettingsRequest == Settings!Save \cup Settings!Reload
FormView(f) == [s \in SettingsRequest |->
  [id |-> s.id, kind |-> IF s.kind = "reload" THEN "reload" ELSE IF s.form = f THEN "save" ELSE "other",
   state |-> s.state, data |-> IF s.kind = "reload" THEN s.data[f] ELSE Initial]]

Renewed == Forms \ Flagged
CopyFollows(f) == Fresh(Image(FormView(f), saves), {"save"}, formsApp[f], stored[f])

\* What was lost is known to be.
LostAreDoubtful ==
  \A s \in saves : s.state = "lost" =>
    IF s.kind = "reload" THEN Renewed \subseteq formsDoubtful ELSE s.form \in Flagged \cup formsDoubtful

\* Saves of flagged forms whose answer takes the mark off.
Marking == {s \in saves : s.kind = "save" /\ s.heard /\ s.form \in Flagged}

OneMarking ==
  \A s \in Marking :
    /\ s.form \in formsDirty \cap formsSaving \cap open
    /\ \A o \in Marking : o.form = s.form => o = s
    /\ s.state = "ok" => s.text.value = stored[s.form] \/ s.form \in formsDoubtful
    /\ s.state = "lost" => s.form \in formsDoubtful

UnmarkedAreStored ==
  \A f \in open \cap Flagged : f \notin formsDirty \cup formsDoubtful => form[f].value = stored[f]

SettingsIInv ==
  /\ Settings!TypeOK
  /\ Numbered(saves, sent)
  /\ \A f \in Renewed : f \notin formsDoubtful => CopyFollows(f)
  /\ LostAreDoubtful
  /\ OneMarking
  /\ UnmarkedAreStored

LEMMA KindsOfForms == Fields \cap Flagged = {} /\ Compared \cap Flagged = {} /\ Fields \cap Compared = {}
BY DEF Fields, Compared, Flagged

LEMMA SettingsNames ==
  Settings!Fields = Fields /\ Settings!Compared = Compared /\ Settings!Flagged = Flagged
BY DEF Fields, Compared, Flagged, Settings!Fields, Settings!Compared, Settings!Flagged

LEMMA FormViewKeepsIds == ASSUME NEW f PROVE KeepsIds(FormView(f), SettingsRequest)
BY DEF KeepsIds, FormView

LEMMA SettingsFields ==
  ASSUME NEW s \in SettingsRequest
  PROVE  /\ s.kind \in {"save", "reload"} /\ s.id \in Nat
         /\ s.kind = "save" => s \in Settings!Save
         /\ s.kind = "reload" => s \in Settings!Reload
BY DEF SettingsRequest, Settings!Save, Settings!Reload

LEMMA FormViewFields ==
  ASSUME NEW f, NEW s \in SettingsRequest
  PROVE  /\ FormView(f)[s].id = s.id /\ FormView(f)[s].state = s.state
         /\ s.kind = "reload" => FormView(f)[s].kind = "reload" /\ FormView(f)[s].data = s.data[f]
         /\ s.kind = "save" => FormView(f)[s].kind = IF s.form = f THEN "save" ELSE "other"
         /\ CarriedOut(FormView(f)[s]) <=> CarriedOut(s)
BY DEF FormView, CarriedOut

\* The page's copy of the app follows the panel's, whatever is sent ...
LEMMA CopyFollowsSend ==
  ASSUME saves \subseteq SettingsRequest, NEW f, CopyFollows(f), NEW s \in SettingsRequest, s.kind = "save",
         saves' = saves \cup {s}, UNCHANGED <<formsApp, stored>>
  PROVE  CopyFollows(f)'
<1>1. Image(FormView(f), saves') = Image(FormView(f), saves) \cup {FormView(f)[s]}
  BY ImageOfNew
<1>2. FormView(f)[s].kind \notin {"list", "reload"}
  BY FormViewFields
<1>3. Fresh(Image(FormView(f), saves) \cup {FormView(f)[s]}, {"save"}, formsApp[f], stored[f])
  BY <1>2, FreshSend DEF CopyFollows
<1>4. FormView(f)' = FormView(f)
  BY DEF FormView, SettingsRequest, Settings!Save, Settings!Reload, Settings!Text, Settings!Data
<1>5. Image(FormView(f), saves)' = Image(FormView(f), saves')
  BY <1>4 DEF Image
<1>6. CopyFollows(f)' <=> Fresh(Image(FormView(f), saves)', {"save"}, formsApp'[f], stored'[f])
  BY DEF CopyFollows
<1> QED
  BY <1>1, <1>3, <1>5, <1>6

\* ... is carried out ...
LEMMA CopyFollowsServe ==
  ASSUME saves \subseteq SettingsRequest, sent \in Nat, Numbered(saves, sent), NEW f, CopyFollows(f),
         NEW s \in saves, NEW t \in SettingsRequest, t.id = s.id, t.kind = s.kind,
         t.kind = "save" => t.form = s.form, s.state = "sent",
         saves' = Instead(saves, s, t), UNCHANGED formsApp,
         \/ s.kind = "save" /\ s.form = f /\ CarriedOut(t)
         \/ s.kind = "save" /\ stored'[f] = stored[f]
         \/ s.kind = "reload" /\ UNCHANGED stored /\ (t.state = "ok" => t.data = stored)
  PROVE  CopyFollows(f)'
<1> DEFINE rs == Image(FormView(f), saves)
           p == FormView(f)[s]
           q == FormView(f)[t]
<1>1. Image(FormView(f), Instead(saves, s, t)) = Instead(rs, p, q)
  BY FormViewKeepsIds, ImageOfServed
<1>2. Numbered(rs, sent)
  BY FormViewKeepsIds, ImageNumbered
<1>3. p \in rs
  BY DEF Image
<1>4. /\ p.id = s.id /\ p.state = s.state /\ (CarriedOut(p) <=> CarriedOut(s))
      /\ q.id = t.id /\ q.state = t.state /\ (CarriedOut(q) <=> CarriedOut(t))
      /\ s.kind = "reload" => p.kind = "reload" /\ q.kind = "reload" /\ q.data = t.data[f]
      /\ s.kind = "save" => q.kind = p.kind /\ p.kind = IF s.form = f THEN "save" ELSE "other"
  BY FormViewFields
<1>5. Fresh(rs, {"save"}, formsApp[f], stored[f])
  BY DEF CopyFollows
<1>6. q.kind = p.kind /\ q.id = p.id
  BY <1>4, SettingsFields
<1> HIDE DEF rs, p, q
<1>7. \/ p.kind \in {"save"} /\ CarriedOut(q)
      \/ p.kind \notin {"list", "reload"} /\ stored'[f] = stored[f] /\ ~ CarriedOut(p)
      \/ p.kind \in {"list", "reload"} /\ stored'[f] = stored[f] /\ (q.state = "ok" => q.data = stored[f])
  BY <1>4 DEF CarriedOut
<1>8. Fresh(Instead(rs, p, q), {"save"}, formsApp[f], stored'[f])
  BY <1>2, <1>3, <1>5, <1>6, <1>7, FreshServed
<1>9. FormView(f)' = FormView(f)
  BY DEF FormView, SettingsRequest, Settings!Save, Settings!Reload, Settings!Text, Settings!Data
<1>10. Image(FormView(f), saves)' = Image(FormView(f), saves')
  BY <1>9 DEF Image
<1>11. CopyFollows(f)' <=> Fresh(Image(FormView(f), saves)', {"save"}, formsApp'[f], stored'[f])
  BY DEF CopyFollows
<1> QED
  BY <1>1, <1>8, <1>10, <1>11

\* ... and is answered, with another reload or not ...
LEMMA CopyFollowsAnswer ==
  ASSUME saves \subseteq SettingsRequest, sent \in Nat, Numbered(saves, sent), NEW f, CopyFollows(f),
         NEW s \in saves, s.kind = "save", UNCHANGED <<formsApp, stored>>,
         NEW l \in SettingsRequest, l.kind = "reload", l.id = sent + 1, l.state = "sent",
         \/ saves' = (saves \ {s}) \cup {l}
         \/ saves' = saves \ {s} /\ (s.form # f \/ ~ CarriedOut(s))
  PROVE  CopyFollows(f)'
<1> DEFINE rs == Image(FormView(f), saves)
           p == FormView(f)[s]
           q == FormView(f)[l]
<1>1. Image(FormView(f), saves \ {s}) = rs \ {p}
  BY FormViewKeepsIds, ImageOfRest
<1>2. Image(FormView(f), (saves \ {s}) \cup {l}) = Image(FormView(f), saves \ {s}) \cup {q}
  <2> DEFINE others == saves \ {s}
             view == FormView(f)
  <2> HIDE DEF others, view
  <2>1. Image(view, others \cup {l}) = Image(view, others) \cup {view[l]}
    BY ImageOfNew
  <2> QED
    BY <2>1 DEF others, view
<1>3. Numbered(rs, sent)
  BY FormViewKeepsIds, ImageNumbered
<1>4. p \in rs
  BY DEF Image
<1>5. /\ CarriedOut(p) <=> CarriedOut(s)
      /\ q.id = sent + 1 /\ q.state = "sent" /\ q.kind = "reload"
      /\ p.kind = IF s.form = f THEN "save" ELSE "other"
  BY FormViewFields
<1>6. Fresh(rs, {"save"}, formsApp[f], stored[f])
  BY DEF CopyFollows
<1> HIDE DEF rs, p, q
<1>7. Fresh(Image(FormView(f), saves'), {"save"}, formsApp[f], stored[f])
  <2>1. \/ Image(FormView(f), saves') = (rs \ {p}) \cup {q}
        \/ Image(FormView(f), saves') = rs \ {p} /\ (p.kind \notin {"save"} \/ ~ CarriedOut(p))
    BY <1>1, <1>2, <1>5
  <2>2. p.kind \notin {"list", "reload"}
    BY <1>5
  <2> QED
    BY <1>3, <1>4, <1>5, <1>6, <2>1, <2>2, FreshAnswered
<1>8. FormView(f)' = FormView(f)
  BY DEF FormView, SettingsRequest, Settings!Save, Settings!Reload, Settings!Text, Settings!Data
<1>9. Image(FormView(f), saves)' = Image(FormView(f), saves')
  BY <1>8 DEF Image
<1>10. CopyFollows(f)' <=> Fresh(Image(FormView(f), saves)', {"save"}, formsApp'[f], stored'[f])
  BY DEF CopyFollows
<1> QED
  BY <1>7, <1>9, <1>10

\* ... and whatever reload arrives that overtakes none.
LEMMA CopyFollowsReload ==
  ASSUME saves \subseteq SettingsRequest, sent \in Nat, Numbered(saves, sent), NEW f, CopyFollows(f),
         NEW s \in saves, s.kind = "reload", s.state = "ok",
         ~ \E o \in saves : o.kind = "reload" /\ o.id < s.id,
         saves' = saves \ {s}, formsApp' = s.data, UNCHANGED stored
  PROVE  CopyFollows(f)'
<1> DEFINE rs == Image(FormView(f), saves)
           p == FormView(f)[s]
<1>1. Image(FormView(f), saves \ {s}) = rs \ {p}
  BY FormViewKeepsIds, ImageOfRest
<1>2. Numbered(rs, sent)
  BY FormViewKeepsIds, ImageNumbered
<1>3. p \in rs
  BY DEF Image
<1>4. p.id = s.id /\ p.state = "ok" /\ p.kind = "reload" /\ p.data = s.data[f]
  BY FormViewFields
<1>5. Fresh(rs, {"save"}, formsApp[f], stored[f])
  BY DEF CopyFollows
<1>6. \A o \in Lists(rs) : o.kind = p.kind /\ ~ o.id < p.id
  <2> SUFFICES ASSUME NEW o \in saves, FormView(f)[o].kind \in {"list", "reload"}
               PROVE  FormView(f)[o].kind = p.kind /\ ~ FormView(f)[o].id < p.id
    BY DEF Lists, Image
  <2>1. o \in SettingsRequest /\ o.kind = "reload"
    BY SettingsFields, FormViewFields
  <2> QED
    BY <1>4, <2>1, FormViewFields
<1> HIDE DEF rs, p
<1>7. Fresh(rs \ {p}, {"save"}, p.data, stored[f])
  <2>1. ~ \E o \in rs : o.kind = p.kind /\ o.id < p.id
    BY <1>4, <1>6 DEF Lists
  <2>2. \A o \in Lists(rs) : o.kind = p.kind
    BY <1>6
  <2> QED
    BY <1>2, <1>3, <1>4, <1>5, <2>1, <2>2, FreshArrived
<1>8. FormView(f)' = FormView(f)
  BY DEF FormView, SettingsRequest, Settings!Save, Settings!Reload, Settings!Text, Settings!Data
<1>9. Image(FormView(f), saves)' = Image(FormView(f), saves')
  BY <1>8 DEF Image
<1>10. CopyFollows(f)' <=> Fresh(Image(FormView(f), saves)', {"save"}, formsApp'[f], stored'[f])
  BY DEF CopyFollows
<1> QED
  BY <1>1, <1>4, <1>7, <1>9, <1>10

LEMMA SettingsInitIInv == Settings!Init => SettingsIInv
<1> SUFFICES ASSUME Settings!Init PROVE SettingsIInv
  OBVIOUS
<1>1. Settings!TypeOK
  BY FormsAssumption DEF Settings!Init, Settings!TypeOK, Settings!Data, Settings!Text, Settings!Plain
<1>2. saves = {} /\ sent = 0 /\ formsApp = stored /\ open = {}
  BY DEF Settings!Init
<1>3. \A f : Image(FormView(f), saves) = {}
  BY <1>2 DEF Image
<1> QED
  BY <1>1, <1>2, <1>3 DEF SettingsIInv, Numbered, CopyFollows, Fresh, Lists, LostAreDoubtful, OneMarking,
     Marking, UnmarkedAreStored

LEMMA CopyFollowsStays ==
  ASSUME NEW f, CopyFollows(f), UNCHANGED <<saves, formsApp, stored>>
  PROVE  CopyFollows(f)'
<1>1. FormView(f)' = FormView(f)
  BY DEF FormView, SettingsRequest, Settings!Save, Settings!Reload, Settings!Text, Settings!Data
<1>2. Image(FormView(f), saves)' = Image(FormView(f), saves)
  BY <1>1 DEF Image
<1> QED
  BY <1>2 DEF CopyFollows

\* Opening, editing and closing.
LEMMA SettingsEditIInv ==
  ASSUME SettingsIInv, NEW f \in Forms,
         \/ Settings!OpenField(f) \/ Settings!CancelField(f)
         \/ \E v \in Texts : Settings!TypeField(f, v) \/ Settings!EditSettings(f, v)
         \/ \E x \in Settings!Text : Settings!EditList(f, x)
  PROVE  SettingsIInv'
<1>1. /\ UNCHANGED <<tab, stored, formsApp, formsSaving, saves, sent, formsDoubtful>>
      /\ form' = form \/ \E x \in Settings!Text : form' = [form EXCEPT ![f] = x]
      /\ formsDirty \subseteq formsDirty' /\ formsDirty' \subseteq formsDirty \cup {f}
      /\ open \cap Flagged = open' \cap Flagged /\ open' \subseteq Forms
      /\ f \in Flagged => f \in formsDirty'
  <2>1. formsApp \in Settings!Data /\ open \subseteq Forms
    BY DEF SettingsIInv, Settings!TypeOK
  <2>2. CASE Settings!OpenField(f)
    BY <2>1, <2>2, KindsOfForms, SettingsNames DEF Settings!OpenField
  <2>3. CASE Settings!CancelField(f)
    <3>1. Settings!Plain(formsApp[f]) \in Settings!Text
      BY <2>1 DEF Settings!Plain, Settings!Text, Settings!Data
    <3> QED
      BY <2>1, <2>3, <3>1, KindsOfForms, SettingsNames DEF Settings!CancelField
  <2>4. CASE \E v \in Texts : Settings!TypeField(f, v) \/ Settings!EditSettings(f, v)
    <3>1. \A v \in Texts : Settings!Plain(v) \in Settings!Text
      BY DEF Settings!Plain, Settings!Text
    <3> QED
      BY <2>1, <2>4, <3>1, KindsOfForms, SettingsNames DEF Settings!TypeField, Settings!EditSettings
  <2>5. CASE \E x \in Settings!Text : Settings!EditList(f, x)
    BY <2>1, <2>5 DEF Settings!EditList
  <2> QED
    BY <2>2, <2>3, <2>4, <2>5
<1>2. form \in [Forms -> Settings!Text] /\ formsDirty \subseteq Forms
  BY DEF SettingsIInv, Settings!TypeOK
<1>3. form' \in [Forms -> Settings!Text] /\ \A g \in Forms : g # f => form'[g] = form[g]
  BY <1>1, <1>2
<1>4. Settings!TypeOK'
  BY <1>1, <1>2, <1>3 DEF SettingsIInv, Settings!TypeOK
<1>5. \A g \in Renewed : g \notin formsDoubtful' => CopyFollows(g)'
  BY <1>1, CopyFollowsStays DEF SettingsIInv
<1>6. (OneMarking /\ LostAreDoubtful)'
  BY <1>1 DEF SettingsIInv, OneMarking, Marking, LostAreDoubtful
<1>7. UnmarkedAreStored'
  <2> SUFFICES ASSUME NEW g \in open' \cap Flagged, g \notin formsDirty' \cup formsDoubtful'
               PROVE  form'[g].value = stored'[g]
    BY DEF UnmarkedAreStored
  <2>1. g \in open \cap Flagged /\ g \notin formsDirty \cup formsDoubtful /\ g # f /\ g \in Forms
    BY <1>1
  <2> QED
    BY <1>1, <1>3, <2>1 DEF SettingsIInv, UnmarkedAreStored
<1> QED
  BY <1>1, <1>4, <1>5, <1>6, <1>7 DEF SettingsIInv, Renewed, Numbered

LEMMA SettingsSendIInv ==
  ASSUME SettingsIInv, NEW f \in Forms, Settings!HandleSave(f) \/ Settings!HandleRename(f)
  PROVE  SettingsIInv'
<1> DEFINE s == [kind |-> "save", id |-> sent + 1, form |-> f, text |-> Settings!Payload(f),
                 heard |-> TRUE, state |-> "sent"]
<1>1. /\ form \in [Forms -> Settings!Text] /\ sent \in Nat /\ saves \subseteq SettingsRequest
      /\ formsSaving \subseteq Forms /\ open \subseteq Forms
  BY DEF SettingsIInv, Settings!TypeOK, SettingsRequest
<1>2. /\ s \in Settings!Save /\ s.kind = "save" /\ s.id = sent + 1 /\ s.form = f /\ s.state = "sent"
  <2>1. Settings!Payload(f) \in Settings!Text
    BY <1>1 DEF Settings!Payload, Settings!Plain, Settings!Text
  <2> QED
    BY <1>1, <2>1 DEF Settings!Save
<1> HIDE DEF s
<1>3. UNCHANGED <<tab, stored, formsApp, form, formsDirty, formsDoubtful>>
  BY DEF Settings!HandleSave, Settings!HandleRename
<1>4. CASE UNCHANGED <<saves, sent, formsSaving>> /\ f \in Fields /\ open' = open \ {f}
  <2>1. Settings!TypeOK'
    BY <1>3, <1>4 DEF SettingsIInv, Settings!TypeOK
  <2>2. \A g \in Renewed : g \notin formsDoubtful' => CopyFollows(g)'
    BY <1>3, <1>4, CopyFollowsStays DEF SettingsIInv
  <2>3. (OneMarking /\ LostAreDoubtful /\ UnmarkedAreStored)'
    BY <1>3, <1>4, KindsOfForms, SettingsNames DEF SettingsIInv, OneMarking, Marking, LostAreDoubtful, UnmarkedAreStored
  <2> QED
    BY <1>3, <1>4, <2>1, <2>2, <2>3 DEF SettingsIInv, Renewed, Numbered
<1>5. CASE /\ saves' = saves \cup {s} /\ sent' = sent + 1 /\ formsSaving' = formsSaving \cup {f} /\ UNCHANGED open
           /\ f \notin formsSaving /\ f \in open /\ (f \in Flagged => f \in formsDirty)
  <2>1. Settings!TypeOK'
    BY <1>1, <1>2, <1>3, <1>5 DEF SettingsIInv, Settings!TypeOK
  <2>2. Numbered(saves, sent)'
    BY <1>1, <1>2, <1>5, NumberedSend DEF SettingsIInv
  <2>3. \A g \in Renewed : g \notin formsDoubtful' => CopyFollows(g)'
    BY <1>1, <1>2, <1>3, <1>5, CopyFollowsSend DEF SettingsIInv, SettingsRequest
  <2>4. LostAreDoubtful'
    BY <1>2, <1>3, <1>5 DEF SettingsIInv, LostAreDoubtful, Renewed
  <2>5. OneMarking'
    <3>1. \A o \in Marking' : o = s \/ (o \in Marking /\ o.form # f)
      BY <1>5 DEF Marking, SettingsIInv, OneMarking
    <3>2. s \in Marking' => f \in Flagged
      BY <1>2 DEF Marking
    <3> QED
      BY <1>2, <1>3, <1>5, <3>1, <3>2 DEF SettingsIInv, OneMarking
  <2>6. UnmarkedAreStored'
    BY <1>3, <1>5 DEF SettingsIInv, UnmarkedAreStored
  <2> QED
    BY <1>3, <2>1, <2>2, <2>3, <2>4, <2>5, <2>6 DEF SettingsIInv, Renewed
<1>6. CASE Settings!HandleSave(f)
  <2>1. f \in open \ Fields /\ f \notin formsSaving /\ (f \in Flagged => f \in formsDirty)
    BY <1>6, KindsOfForms, SettingsNames DEF Settings!HandleSave, Settings!HasChanges, Fields, Compared, Flagged
  <2> QED
    BY <1>5, <1>6, <2>1 DEF Settings!HandleSave, Settings!Send, s
<1>7. CASE Settings!HandleRename(f)
  BY <1>4, <1>5, <1>7, KindsOfForms, SettingsNames DEF Settings!HandleRename, Settings!Send, s
<1> QED
  BY <1>6, <1>7

\* The tab is shown anew: what was asked from it is no longer heard.
LEMMA SettingsShowIInv ==
  ASSUME SettingsIInv, NEW t \in {"overview", "settings", "workers"}, Settings!ShowTab(t)
  PROVE  SettingsIInv'
<1> DEFINE hush(s) == IF s.kind = "save" THEN [s EXCEPT !.heard = s.form \in Fields] ELSE s
<1>1. /\ tab' = t /\ UNCHANGED <<stored, formsApp, sent>> /\ formsDirty' = {}
      /\ open' = (open \cap Fields) \cup Settings!FormsOf(t)
      /\ formsSaving' = formsSaving \cap Fields
      /\ saves' = {hush(s) : s \in saves}
      /\ form' = [f \in Forms |-> IF f \in Fields THEN form[f]
                                  ELSE Settings!Plain(IF f \in Settings!FormsOf(t) THEN formsApp[f] ELSE Initial)]
      /\ formsDoubtful' = (formsDoubtful \ (Flagged \cap Settings!FormsOf(t)))
           \cup {f \in Flagged \cap Settings!FormsOf(t) : formsApp[f] # stored[f]}
  BY SettingsNames DEF Settings!ShowTab
<1>2. /\ form \in [Forms -> Settings!Text] /\ sent \in Nat /\ saves \subseteq SettingsRequest
      /\ formsSaving \subseteq Forms /\ open \subseteq Forms /\ formsApp \in Settings!Data /\ stored \in Settings!Data
      /\ formsDoubtful \subseteq Forms /\ Settings!FormsOf(t) \subseteq Forms
  BY DEF SettingsIInv, Settings!TypeOK, SettingsRequest, Settings!FormsOf
<1>3. \A s \in saves :
        /\ hush(s) \in SettingsRequest /\ hush(s).id = s.id /\ hush(s).kind = s.kind /\ hush(s).state = s.state
        /\ s.kind = "save" => hush(s).form = s.form /\ (hush(s).heard => s.form \in Fields)
        /\ s.kind = "reload" => hush(s) = s
  <2> TAKE s \in saves
  <2>1. CASE s.kind = "save"
    <3>1. s \in Settings!Save
      BY <1>2, <2>1, SettingsFields
    <3>2. hush(s) = [s EXCEPT !.heard = s.form \in Fields]
      BY <2>1
    <3> DEFINE h == s.form \in Fields
    <3>3. h \in BOOLEAN
      OBVIOUS
    <3> HIDE DEF h
    <3>4. /\ [s EXCEPT !.heard = h] \in Settings!Save
          /\ [s EXCEPT !.heard = h].id = s.id /\ [s EXCEPT !.heard = h].kind = s.kind
          /\ [s EXCEPT !.heard = h].state = s.state /\ [s EXCEPT !.heard = h].form = s.form
          /\ [s EXCEPT !.heard = h].heard = h
      BY <3>1, <3>3 DEF Settings!Save
    <3> QED
      BY <2>1, <3>2, <3>4 DEF h, SettingsRequest
  <2>2. CASE s.kind = "reload"
    BY <1>2, <2>2
  <2> QED
    BY <1>2, <2>1, <2>2, SettingsFields
<1> HIDE DEF hush
<1>4. saves' \subseteq SettingsRequest
  BY <1>1, <1>3
<1>5. Settings!TypeOK'
  <2>1. form' \in [Forms -> Settings!Text]
    BY <1>1, <1>2, FormsAssumption DEF Settings!Plain, Settings!Text, Settings!Data
  <2> QED
    BY <1>1, <1>2, <1>4, <2>1 DEF SettingsIInv, Settings!TypeOK, SettingsRequest
<1>6. Numbered(saves, sent)'
  BY <1>1, <1>3 DEF SettingsIInv, Numbered
<1>7. ASSUME NEW f \in Renewed, f \notin formsDoubtful' PROVE CopyFollows(f)'
  <2>1. f \notin formsDoubtful
    BY <1>1, <1>7 DEF Renewed
  <2>2. \A s \in saves : FormView(f)[hush(s)] = FormView(f)[s]
    BY <1>2, <1>3, SettingsFields DEF FormView
  <2>3. Image(FormView(f), saves') = Image(FormView(f), saves)
    BY <1>1, <2>2 DEF Image
  <2>4. FormView(f)' = FormView(f)
    BY DEF FormView, SettingsRequest, Settings!Save, Settings!Reload, Settings!Text, Settings!Data
  <2>5. Image(FormView(f), saves)' = Image(FormView(f), saves')
    BY <2>4 DEF Image
  <2> QED
    BY <1>1, <1>7, <2>1, <2>3, <2>5 DEF SettingsIInv, CopyFollows
<1>8. LostAreDoubtful'
  <2> SUFFICES ASSUME NEW s \in saves, hush(s).state = "lost"
               PROVE  IF hush(s).kind = "reload" THEN Renewed \subseteq formsDoubtful'
                      ELSE hush(s).form \in Flagged \cup formsDoubtful'
    BY <1>1 DEF LostAreDoubtful, Renewed
  <2>1. formsDoubtful \subseteq Flagged \cup formsDoubtful'
    BY <1>1
  <2> QED
    BY <1>2, <1>3, <2>1, SettingsFields DEF SettingsIInv, LostAreDoubtful, Renewed
<1>9. OneMarking'
  <2>1. Marking' = {}
    BY <1>1, <1>3, KindsOfForms, SettingsNames DEF Marking
  <2> QED
    BY <2>1 DEF OneMarking
<1>10. UnmarkedAreStored'
  <2> SUFFICES ASSUME NEW f \in open' \cap Flagged, f \notin formsDoubtful'
               PROVE  form'[f].value = stored'[f]
    BY DEF UnmarkedAreStored
  <2>1. f \in Settings!FormsOf(t) /\ f \in Forms /\ f \notin Fields
    BY <1>1, <1>2, KindsOfForms, SettingsNames
  <2>2. form'[f].value = formsApp[f]
    BY <1>1, <2>1 DEF Settings!Plain
  <2> QED
    BY <1>1, <2>1, <2>2
<1> QED
  BY <1>5, <1>6, <1>7, <1>8, <1>9, <1>10 DEF SettingsIInv, Renewed

\* The panel carries out a save, or not ...
LEMMA SettingsSaveServedIInv ==
  ASSUME SettingsIInv, NEW s \in saves, Settings!ServeSave(s)
  PROVE  SettingsIInv'
<1>1. /\ s \in Settings!Save /\ s \in SettingsRequest /\ s.kind = "save" /\ s.state = "sent"
      /\ s.form \in Forms /\ s.id \in Nat /\ s.text \in Settings!Text
      /\ saves \subseteq SettingsRequest /\ sent \in Nat /\ stored \in Settings!Data /\ formsDoubtful \subseteq Forms
      /\ Numbered(saves, sent)
  <2>1. saves \subseteq SettingsRequest /\ s.kind = "save" /\ s.state = "sent"
    BY DEF SettingsIInv, Settings!TypeOK, SettingsRequest, Settings!ServeSave
  <2>2. s \in Settings!Save
    BY <2>1, SettingsFields
  <2> QED
    BY <2>1, <2>2 DEF SettingsIInv, Settings!TypeOK, Settings!Save
<1>2. PICK t \in Settings!Save :
        /\ t.id = s.id /\ t.form = s.form /\ t.text = s.text /\ t.heard = s.heard
        /\ t.state \in {"ok", "lost", "refused"}
        /\ saves' = Instead(saves, s, t)
        /\ IF t.state = "refused" THEN UNCHANGED <<stored, formsDoubtful>>
           ELSE /\ stored' = [stored EXCEPT ![s.form] = s.text.value]
                /\ formsDoubtful' = IF t.state = "lost" \/ ~ s.heard THEN formsDoubtful \cup {s.form}
                                    ELSE formsDoubtful
  <2>1. \A x \in {"ok", "lost", "refused"} :
          /\ [s EXCEPT !.state = x] \in Settings!Save
          /\ [s EXCEPT !.state = x].id = s.id /\ [s EXCEPT !.state = x].form = s.form
          /\ [s EXCEPT !.state = x].text = s.text /\ [s EXCEPT !.state = x].heard = s.heard
          /\ [s EXCEPT !.state = x].state = x
    BY <1>1 DEF Settings!Save
  <2>2. \E x \in {"ok", "lost", "refused"} :
          /\ saves' = (saves \ {s}) \cup {[s EXCEPT !.state = x]}
          /\ IF x = "refused" THEN UNCHANGED <<stored, formsDoubtful>>
             ELSE /\ stored' = [stored EXCEPT ![s.form] = s.text.value]
                  /\ formsDoubtful' = IF x = "lost" \/ ~ s.heard THEN formsDoubtful \cup {s.form}
                                      ELSE formsDoubtful
    BY DEF Settings!ServeSave
  <2> QED
    BY <2>1, <2>2 DEF Instead
<1>3. UNCHANGED <<tab, formsApp, form, open, formsDirty, formsSaving, sent>>
  BY DEF Settings!ServeSave
<1>4. /\ formsDoubtful \subseteq formsDoubtful' /\ formsDoubtful' \subseteq Forms /\ stored' \in Settings!Data
      /\ \A f \in Forms : stored'[f] = stored[f] \/ (f = s.form /\ t.state # "refused")
      /\ t.state # "refused" => stored'[s.form] = s.text.value
      /\ t.state = "lost" => s.form \in formsDoubtful'
      /\ t.state # "refused" /\ ~ s.heard => s.form \in formsDoubtful'
      /\ t \in SettingsRequest /\ t.kind = "save"
  BY <1>1, <1>2 DEF Settings!Data, Settings!Text, Settings!Save, SettingsRequest
<1>5. saves' \subseteq SettingsRequest
  BY <1>1, <1>2, <1>4 DEF Instead
<1>6. Settings!TypeOK'
  BY <1>3, <1>4, <1>5 DEF SettingsIInv, Settings!TypeOK, SettingsRequest
<1>7. Numbered(saves, sent)'
  BY <1>1, <1>2, <1>3, NumberedServe
<1>8. ASSUME NEW g \in Renewed, g \notin formsDoubtful' PROVE CopyFollows(g)'
  <2>1. CopyFollows(g) /\ g \in Forms
    BY <1>4, <1>8 DEF SettingsIInv, Renewed
  <2>2. \/ s.form = g /\ CarriedOut(t)
        \/ stored'[g] = stored[g]
    BY <1>2, <1>4, <1>8, <2>1 DEF CarriedOut
  <2> QED
    BY <1>1, <1>2, <1>3, <1>4, <2>1, <2>2, CopyFollowsServe
<1>9. LostAreDoubtful'
  <2> SUFFICES ASSUME NEW o \in saves', o.state = "lost"
               PROVE  IF o.kind = "reload" THEN Renewed \subseteq formsDoubtful' ELSE o.form \in Flagged \cup formsDoubtful'
    BY DEF LostAreDoubtful, Renewed
  <2>1. CASE o = t
    BY <1>2, <1>4, <2>1
  <2>2. CASE o \in saves
    BY <1>4, <2>2 DEF SettingsIInv, LostAreDoubtful
  <2> QED
    BY <1>2, <2>1, <2>2 DEF Instead
<1>10. \A o \in Marking' : (o = t /\ s \in Marking) \/ (o \in Marking /\ o # s)
  BY <1>1, <1>2 DEF Marking, Instead
<1>11. OneMarking'
  <2>1. \A o \in Marking' : o.form \in formsDirty \cap formsSaving \cap open
    BY <1>2, <1>10 DEF SettingsIInv, OneMarking
  <2>2. \A o, q \in Marking' : o.form = q.form => o = q
    BY <1>2, <1>10 DEF SettingsIInv, OneMarking
  <2>3. ASSUME NEW o \in Marking', o.state \in {"ok", "lost"}
        PROVE  /\ o.state = "ok" => o.text.value = stored'[o.form] \/ o.form \in formsDoubtful'
               /\ o.state = "lost" => o.form \in formsDoubtful'
    <3>1. CASE o = t
      BY <1>2, <1>4, <2>3, <3>1
    <3>2. CASE o \in Marking /\ o # s
      <4>1. o.form \in Forms /\ o.form \in Flagged /\ o \in saves
        BY <3>2 DEF Marking, SettingsIInv, OneMarking, Settings!TypeOK
      <4>2. o.form # s.form \/ s \notin Marking
        BY <3>2 DEF SettingsIInv, OneMarking
      <4>3. stored'[o.form] = stored[o.form] \/ o.form \in formsDoubtful'
        BY <1>1, <1>4, <4>1, <4>2 DEF Marking
      <4> QED
        BY <1>4, <3>2, <4>3 DEF SettingsIInv, OneMarking
    <3> QED
      BY <1>10, <2>3, <3>1, <3>2
  <2> QED
    BY <1>3, <2>1, <2>2, <2>3 DEF OneMarking
<1>12. UnmarkedAreStored'
  <2> SUFFICES ASSUME NEW g \in open \cap Flagged, g \notin formsDirty \cup formsDoubtful'
               PROVE  form[g].value = stored'[g]
    BY <1>3 DEF UnmarkedAreStored
  <2>1. form[g].value = stored[g] /\ g \in Forms
    BY <1>4 DEF SettingsIInv, UnmarkedAreStored, Settings!TypeOK
  <2>2. s \notin Marking \/ s.form # g
    BY DEF SettingsIInv, OneMarking
  <2> QED
    BY <1>1, <1>4, <2>1, <2>2 DEF Marking
<1> QED
  BY <1>6, <1>7, <1>8, <1>9, <1>11, <1>12 DEF SettingsIInv, Renewed

\* ... answers a reload ...
LEMMA SettingsReloadServedIInv ==
  ASSUME SettingsIInv, NEW s \in saves, Settings!ServeReload(s)
  PROVE  SettingsIInv'
<1>1. /\ s \in Settings!Reload /\ s \in SettingsRequest /\ s.kind = "reload" /\ s.state = "sent" /\ s.id \in Nat
      /\ saves \subseteq SettingsRequest /\ sent \in Nat /\ stored \in Settings!Data /\ formsDoubtful \subseteq Forms
      /\ Numbered(saves, sent)
  <2>1. saves \subseteq SettingsRequest /\ s.kind = "reload" /\ s.state = "sent"
    BY DEF SettingsIInv, Settings!TypeOK, SettingsRequest, Settings!ServeReload
  <2>2. s \in Settings!Reload
    BY <2>1, SettingsFields
  <2> QED
    BY <2>1, <2>2 DEF SettingsIInv, Settings!TypeOK, Settings!Reload
<1>2. PICK t \in Settings!Reload :
        /\ t.id = s.id /\ t.kind = "reload" /\ t.data = stored
        /\ saves' = Instead(saves, s, t)
        /\ formsDoubtful' = IF t.state = "lost" THEN formsDoubtful \cup Renewed ELSE formsDoubtful
  <2>1. \A x \in {"ok", "lost"} :
          LET t == [s EXCEPT !.state = x, !.data = stored]
          IN  t \in Settings!Reload /\ t.id = s.id /\ t.kind = "reload" /\ t.state = x /\ t.data = stored
    BY <1>1 DEF Settings!Reload
  <2>2. \E x \in {"ok", "lost"} :
          /\ saves' = (saves \ {s}) \cup {[s EXCEPT !.state = x, !.data = stored]}
          /\ formsDoubtful' = IF x = "lost" THEN formsDoubtful \cup Renewed ELSE formsDoubtful
    BY SettingsNames DEF Settings!ServeReload, Renewed
  <2> QED
    BY <2>1, <2>2 DEF Instead
<1>3. UNCHANGED <<tab, stored, formsApp, form, open, formsDirty, formsSaving, sent>>
  BY DEF Settings!ServeReload
<1>4. /\ formsDoubtful \subseteq formsDoubtful' /\ formsDoubtful' \subseteq Forms /\ t \in SettingsRequest
  BY <1>1, <1>2 DEF SettingsRequest, Renewed
<1>5. saves' \subseteq SettingsRequest
  BY <1>1, <1>2, <1>4 DEF Instead
<1>6. Settings!TypeOK'
  BY <1>3, <1>4, <1>5 DEF SettingsIInv, Settings!TypeOK, SettingsRequest
<1>7. Numbered(saves, sent)'
  BY <1>1, <1>2, <1>3, NumberedServe
<1>8. ASSUME NEW g \in Renewed, g \notin formsDoubtful' PROVE CopyFollows(g)'
  <2>1. CopyFollows(g)
    BY <1>4, <1>8 DEF SettingsIInv
  <2> QED
    BY <1>1, <1>2, <1>3, <1>4, <2>1, CopyFollowsServe
<1>9. LostAreDoubtful'
  <2> SUFFICES ASSUME NEW o \in saves', o.state = "lost"
               PROVE  IF o.kind = "reload" THEN Renewed \subseteq formsDoubtful' ELSE o.form \in Flagged \cup formsDoubtful'
    BY DEF LostAreDoubtful, Renewed
  <2>1. CASE o = t
    BY <1>2, <2>1
  <2>2. CASE o \in saves
    BY <1>4, <2>2 DEF SettingsIInv, LostAreDoubtful
  <2> QED
    BY <1>2, <2>1, <2>2 DEF Instead
<1>10. Marking' = Marking
  BY <1>1, <1>2 DEF Marking, Instead
<1>11. OneMarking'
  BY <1>3, <1>4, <1>10 DEF SettingsIInv, OneMarking
<1>12. UnmarkedAreStored'
  BY <1>3, <1>4 DEF SettingsIInv, UnmarkedAreStored
<1> QED
  BY <1>6, <1>7, <1>8, <1>9, <1>11, <1>12 DEF SettingsIInv, Renewed

\* ... and its answers reach the page: to a save of a form that reloads ...
LEMMA SettingsSavedIInv ==
  ASSUME SettingsIInv, NEW s \in saves, Settings!Saved(s)
  PROVE  SettingsIInv'
<1> DEFINE l == [kind |-> "reload", id |-> sent + 1, state |-> "sent", data |-> formsApp]
<1>1. /\ s \in SettingsRequest /\ s.kind = "save" /\ s.form \in Renewed /\ s.form \notin Flagged
      /\ saves \subseteq SettingsRequest /\ sent \in Nat /\ formsApp \in Settings!Data
      /\ open \subseteq Forms /\ formsSaving \subseteq Forms
      /\ Numbered(saves, sent)
  <2>1. saves \subseteq SettingsRequest /\ s.kind = "save" /\ s.form \in Fields \cup Compared
    BY SettingsNames DEF SettingsIInv, Settings!TypeOK, SettingsRequest, Settings!Saved
  <2>2. s \in Settings!Save
    BY <2>1, SettingsFields
  <2> QED
    BY <2>1, <2>2, KindsOfForms DEF SettingsIInv, Settings!TypeOK, Settings!Save, Renewed
<1>2. l \in SettingsRequest /\ l.kind = "reload" /\ l.id = sent + 1 /\ l.state = "sent"
  BY <1>1 DEF Settings!Reload, SettingsRequest
<1>3. UNCHANGED <<tab, stored, formsApp, form, formsDirty, formsDoubtful>>
  BY DEF Settings!Saved
<1>4. /\ formsSaving' = formsSaving \/ formsSaving' = formsSaving \ {s.form}
      /\ open' = open \/ open' = open \ {s.form}
      /\ \/ saves' = (saves \ {s}) \cup {l} /\ sent' = sent + 1 /\ s.state = "ok"
         \/ saves' = saves \ {s} /\ sent' = sent /\ s.state # "ok"
  <2>1. formsSaving' = formsSaving \/ formsSaving' = formsSaving \ {s.form}
    BY DEF Settings!Saved
  <2>2. \/ open' = open \ (Fields \cap {s.form}) /\ saves' = (saves \ {s}) \cup {l} /\ sent' = sent + 1 /\ s.state = "ok"
        \/ open' = open /\ saves' = saves \ {s} /\ sent' = sent /\ s.state # "ok"
    BY SettingsNames DEF Settings!Saved, Settings!Asking
  <2>3. Fields \cap {s.form} = {} \/ Fields \cap {s.form} = {s.form}
    OBVIOUS
  <2> QED
    BY <2>1, <2>2, <2>3
<1>5. s.state \in {"sent", "ok", "refused", "lost"} /\ s.state # "sent"
  BY <1>1, SettingsFields DEF Settings!Saved, Settings!Save
<1> HIDE DEF l
<1>6. Settings!TypeOK'
  <2>1. saves' \subseteq SettingsRequest /\ sent' \in Nat
    BY <1>1, <1>2, <1>4
  <2> QED
    BY <1>1, <1>3, <1>4, <2>1 DEF SettingsIInv, Settings!TypeOK, SettingsRequest
<1>7. Numbered(saves, sent)'
  BY <1>1, <1>2, <1>4, NumberedAnswered
<1>8. ASSUME NEW g \in Renewed, g \notin formsDoubtful' PROVE CopyFollows(g)'
  <2>1. CopyFollows(g)
    BY <1>3, <1>8 DEF SettingsIInv
  <2>2. \/ saves' = (saves \ {s}) \cup {l}
        \/ saves' = saves \ {s} /\ (s.form # g \/ ~ CarriedOut(s))
    BY <1>1, <1>3, <1>4, <1>5, <1>8 DEF SettingsIInv, LostAreDoubtful, CarriedOut
  <2> QED
    BY <1>1, <1>2, <1>3, <2>1, <2>2, CopyFollowsAnswer
<1>9. LostAreDoubtful'
  BY <1>2, <1>3, <1>4 DEF SettingsIInv, LostAreDoubtful, Renewed
<1>10. Marking' = Marking
  BY <1>1, <1>2, <1>4 DEF Marking
<1>11. OneMarking'
  BY <1>1, <1>3, <1>4, <1>10 DEF SettingsIInv, OneMarking, Marking
<1>12. UnmarkedAreStored'
  BY <1>1, <1>3, <1>4 DEF SettingsIInv, UnmarkedAreStored
<1> QED
  BY <1>6, <1>7, <1>8, <1>9, <1>11, <1>12 DEF SettingsIInv, Renewed

\* ... to that of a list, which takes the mark off ...
LEMMA SettingsSavedListIInv ==
  ASSUME SettingsIInv, NEW s \in saves, Settings!SavedList(s)
  PROVE  SettingsIInv'
<1> DEFINE l == [kind |-> "reload", id |-> sent + 1, state |-> "sent", data |-> formsApp]
<1>1. /\ s \in SettingsRequest /\ s.kind = "save" /\ s.form \in Flagged
      /\ s.state \in {"ok", "refused", "lost"} /\ s.form \in Forms
      /\ saves \subseteq SettingsRequest /\ sent \in Nat /\ formsApp \in Settings!Data
      /\ Numbered(saves, sent)
  <2>1. saves \subseteq SettingsRequest /\ s.kind = "save" /\ s.form \in Flagged /\ s.state # "sent"
    BY SettingsNames DEF SettingsIInv, Settings!TypeOK, SettingsRequest, Settings!SavedList
  <2>2. s \in Settings!Save
    BY <2>1, SettingsFields
  <2> QED
    BY <2>1, <2>2 DEF SettingsIInv, Settings!TypeOK, Settings!Save
<1>2. l \in SettingsRequest /\ l.kind = "reload" /\ l.id = sent + 1 /\ l.state = "sent"
  BY <1>1 DEF Settings!Reload, SettingsRequest
<1> HIDE DEF l
<1>3. saves' = saves \ {s} /\ UNCHANGED <<tab, stored, formsApp, form, open, sent>>
  BY DEF Settings!SavedList
<1>4. /\ ~ s.heard => UNCHANGED <<formsSaving, formsDirty, formsDoubtful>>
      /\ s.heard => formsSaving' = formsSaving \ {s.form}
      /\ formsDirty' = formsDirty \/ (formsDirty' = formsDirty \ {s.form} /\ s.heard /\ s.state \in {"ok", "refused"})
      /\ formsDoubtful' = formsDoubtful \/ formsDoubtful' = formsDoubtful \cup {s.form}
  BY <1>1 DEF Settings!SavedList, Settings!Taken
<1>5. formsDirty' # formsDirty => s.form \in formsDoubtful' \/ (s.state = "ok" /\ form[s.form].value = s.text.value)
  BY <1>1, <1>4 DEF Settings!SavedList, Settings!Taken
<1>6. Settings!TypeOK'
  BY <1>1, <1>3, <1>4 DEF SettingsIInv, Settings!TypeOK, SettingsRequest
<1>7. Numbered(saves, sent)'
  BY <1>1, <1>3, NumberedDrop
<1>8. ASSUME NEW g \in Renewed, g \notin formsDoubtful' PROVE CopyFollows(g)'
  <2>1. CopyFollows(g) /\ s.form # g
    BY <1>1, <1>4, <1>8 DEF SettingsIInv, Renewed
  <2> QED
    BY <1>1, <1>2, <1>3, <2>1, CopyFollowsAnswer
<1>9. LostAreDoubtful'
  BY <1>3, <1>4 DEF SettingsIInv, LostAreDoubtful, Renewed
<1>10. \A o \in Marking' : o \in Marking /\ o # s
  BY <1>3 DEF Marking
<1>11. OneMarking'
  <2>1. \A o \in Marking' : s.heard => o.form # s.form
    BY <1>1, <1>10 DEF SettingsIInv, OneMarking, Marking
  <2> QED
    BY <1>3, <1>4, <1>10, <2>1 DEF SettingsIInv, OneMarking
<1>12. UnmarkedAreStored'
  <2> SUFFICES ASSUME NEW g \in open \cap Flagged, g \notin formsDirty' \cup formsDoubtful'
               PROVE  form[g].value = stored[g]
    BY <1>3 DEF UnmarkedAreStored
  <2>1. CASE g \notin formsDirty
    BY <1>4, <2>1 DEF SettingsIInv, UnmarkedAreStored
  <2>2. CASE g \in formsDirty
    <3>1. g = s.form /\ s \in Marking /\ s.state = "ok" /\ form[g].value = s.text.value
      BY <1>1, <1>4, <1>5, <2>2 DEF Marking
    <3> QED
      BY <1>4, <3>1 DEF SettingsIInv, OneMarking
  <2> QED
    BY <2>1, <2>2
<1> QED
  BY <1>6, <1>7, <1>8, <1>9, <1>11, <1>12 DEF SettingsIInv, Renewed

\* ... and to a reload.
LEMMA SettingsReloadedIInv ==
  ASSUME SettingsIInv, NEW s \in saves, Settings!Reloaded(s)
  PROVE  SettingsIInv'
<1>1. /\ s \in SettingsRequest /\ s.kind = "reload" /\ s.state \in {"ok", "lost"} /\ s.data \in Settings!Data
      /\ saves \subseteq SettingsRequest /\ sent \in Nat /\ formsApp \in Settings!Data
      /\ Numbered(saves, sent)
  <2>1. saves \subseteq SettingsRequest /\ s.kind = "reload" /\ s.state # "sent"
    BY DEF SettingsIInv, Settings!TypeOK, SettingsRequest, Settings!Reloaded
  <2>2. s \in Settings!Reload
    BY <2>1, SettingsFields
  <2> QED
    BY <2>1, <2>2 DEF SettingsIInv, Settings!TypeOK, Settings!Reload
<1>2. /\ saves' = saves \ {s} /\ UNCHANGED <<tab, stored, form, open, formsDirty, formsSaving, sent>>
      /\ formsApp' = IF s.state = "ok" THEN s.data ELSE formsApp
      /\ formsDoubtful' = IF \E o \in saves : o.kind = "reload" /\ o.id < s.id
                          THEN formsDoubtful \cup Renewed ELSE formsDoubtful
  BY SettingsNames DEF Settings!Reloaded, Renewed
<1>3. Settings!TypeOK'
  BY <1>1, <1>2 DEF SettingsIInv, Settings!TypeOK, SettingsRequest, Renewed
<1>4. Numbered(saves, sent)'
  BY <1>1, <1>2, NumberedDrop
<1>5. ASSUME NEW g \in Renewed, g \notin formsDoubtful' PROVE CopyFollows(g)'
  <2>1. /\ CopyFollows(g) /\ ~ \E o \in saves : o.kind = "reload" /\ o.id < s.id
        /\ s.state = "ok"
    BY <1>1, <1>2, <1>5 DEF SettingsIInv, LostAreDoubtful
  <2> QED
    BY <1>1, <1>2, <2>1, CopyFollowsReload
<1>6. LostAreDoubtful'
  BY <1>2 DEF SettingsIInv, LostAreDoubtful, Renewed
<1>7. Marking' = Marking
  BY <1>1, <1>2 DEF Marking
<1>8. OneMarking'
  BY <1>2, <1>7 DEF SettingsIInv, OneMarking
<1>9. UnmarkedAreStored'
  BY <1>2 DEF SettingsIInv, UnmarkedAreStored
<1> QED
  BY <1>3, <1>4, <1>5, <1>6, <1>8, <1>9 DEF SettingsIInv, Renewed

LEMMA SettingsNextIInv == SettingsIInv /\ [Settings!Next]_(Settings!vars) => SettingsIInv'
<1> SUFFICES ASSUME SettingsIInv, [Settings!Next]_(Settings!vars) PROVE SettingsIInv'
  OBVIOUS
<1>1. CASE UNCHANGED Settings!vars
  <2> USE <1>1 DEF Settings!vars
  <2>1. \A g : CopyFollows(g) => CopyFollows(g)'
    BY CopyFollowsStays
  <2> QED
    BY <2>1 DEF SettingsIInv, Settings!TypeOK, Numbered, LostAreDoubtful, OneMarking, Marking, UnmarkedAreStored, Renewed
<1>2. CASE \E t \in {"overview", "settings", "workers"} : Settings!ShowTab(t)
  BY <1>2, SettingsShowIInv
<1>3. ASSUME NEW f \in Forms,
             \/ Settings!OpenField(f) \/ Settings!CancelField(f)
             \/ \E v \in Texts : Settings!TypeField(f, v) \/ Settings!EditSettings(f, v)
             \/ \E x \in Settings!Text : Settings!EditList(f, x)
             \/ Settings!HandleSave(f) \/ Settings!HandleRename(f)
      PROVE  SettingsIInv'
  BY <1>3, SettingsEditIInv, SettingsSendIInv
<1>4. ASSUME NEW s \in saves,
             \/ Settings!ServeSave(s) \/ Settings!ServeReload(s)
             \/ Settings!Saved(s) \/ Settings!SavedList(s) \/ Settings!Reloaded(s)
      PROVE  SettingsIInv'
  BY <1>4, SettingsSaveServedIInv, SettingsReloadServedIInv, SettingsSavedIInv, SettingsSavedListIInv,
     SettingsReloadedIInv
<1> QED
  BY <1>1, <1>2, <1>3, <1>4 DEF Settings!Next

LEMMA SettingsInvariance == Settings!Spec => []SettingsIInv
BY SettingsInitIInv, SettingsNextIInv, PTL DEF Settings!Spec

\* AppForms!TypeOK, of the forms of an app.
THEOREM SettingsTypeCorrect == Settings!Spec => []Settings!TypeOK
<1>1. SettingsIInv => Settings!TypeOK
  BY DEF SettingsIInv
<1> QED
  BY <1>1, SettingsInvariance, PTL

\* AppForms!CleanMeansStored: a form without unsaved changes shows what the
\* panel stores, once all is quiet, or is doubtful.
THEOREM SettingsStored == Settings!Spec => []Settings!CleanMeansStored
<1>1. ASSUME SettingsIInv, saves = {}, NEW f \in (open \cup Fields) \cap Forms,
             ~ Settings!HasChanges(f), f \notin formsDoubtful
      PROVE  Settings!Seen(f) = stored[f]
  <2>1. f \in Fields \/ f \in Compared \/ f \in Flagged
    BY FormsAssumption
  <2>2. f \in Renewed => formsApp[f] = stored[f]
    <3>1. Image(FormView(f), saves) = {}
      BY <1>1 DEF Image
    <3> QED
      BY <1>1, <3>1, FreshWhenQuiet DEF SettingsIInv, CopyFollows
  <2>3. CASE f \in Fields
    BY <2>2, <2>3, KindsOfForms, SettingsNames DEF Settings!Seen, Renewed
  <2>4. CASE f \in Compared
    <3>1. form[f].value = formsApp[f]
      BY <1>1, <2>4, KindsOfForms, SettingsNames DEF Settings!HasChanges
    <3> QED
      BY <2>2, <2>4, <3>1, KindsOfForms, SettingsNames DEF Settings!Seen, Renewed
  <2>5. CASE f \in Flagged
    <3>1. f \notin formsDirty /\ f \in open
      BY <1>1, <2>5, KindsOfForms, SettingsNames DEF Settings!HasChanges
    <3> QED
      BY <1>1, <2>5, <3>1, KindsOfForms, SettingsNames DEF Settings!Seen, SettingsIInv, UnmarkedAreStored
  <2> QED
    BY <2>1, <2>3, <2>4, <2>5
<1>2. SettingsIInv => Settings!CleanMeansStored
  BY <1>1, SettingsNames DEF Settings!CleanMeansStored
<1> QED
  BY <1>2, SettingsInvariance, PTL
=============================================================================
