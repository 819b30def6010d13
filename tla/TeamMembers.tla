---------------------------- MODULE TeamMembers ----------------------------
(***************************************************************************)
(* The members of a team and the links that invite to it                   *)
(* (pages/settings/team-members.tsx), as its owner or a member sees them.  *)
(* Whatever is done here is an Inertia visit: the panel makes the change,  *)
(* redirects back, and answers with a new copy of the page.  A visit that  *)
(* starts interrupts the one before, whose answer is not heard any more.   *)
(***************************************************************************)
EXTENDS Pages

Ids == 1 .. MaxRequests            \* visits; an invitation is named by the visit that made it
Roles == {"admin", "member"}       \* "viewer" is chosen in the same way

VARIABLES
  roles, invitations,              \* the panel: roles of the other members; links pending
  members, pendingInvitations,     \* as listed
  isOwner, here,                   \* the user: owner of the team? on this page?
  processing,                      \* of inviteForm
  removingMember, revokingInvite, showLeaveDialog,
  visits, made,                    \* visits the panel is at; number of visits
  stale                            \* history: see MembersAreCurrent

panel == <<roles, invitations>>
lists == <<members, pendingInvitations>>
dialogs == <<removingMember, revokingInvite, showLeaveDialog>>
vars == <<panel, lists, isOwner, here, processing, dialogs, visits, made, stale>>

Team == [Names -> Roles \cup {"none"}]
Nobody == [n \in Names |-> "none"]

\* "done": the change was made, the redirect is followed; "json": an answer that
\* is no page.
Visit == [kind : {"invite", "remove", "revoke", "role", "leave"}, id : Ids,
          member : Names \cup {NoName}, role : Roles \cup {"none"}, link : Ids \cup {0}, heard : BOOLEAN,
          state : {"sent", "done", "ok", "json", "refused", "lost"}, team : Team, links : SUBSET Ids]

TypeOK ==
  /\ roles \in Team /\ members \in Team
  /\ invitations \subseteq Ids /\ pendingInvitations \subseteq Ids
  /\ isOwner \in BOOLEAN /\ here \in BOOLEAN /\ processing \in BOOLEAN
  /\ removingMember \in Names \cup {NoName} /\ revokingInvite \in Ids \cup {0}
  /\ showLeaveDialog \in BOOLEAN
  /\ visits \subseteq Visit /\ made \in 0 .. MaxRequests
  /\ stale \in BOOLEAN

Init ==
  /\ roles = [n \in Names |-> "member"] /\ invitations = {}
  /\ members = roles /\ pendingInvitations = {}
  /\ isOwner \in BOOLEAN /\ here = TRUE
  /\ processing = FALSE
  /\ removingMember = NoName /\ revokingInvite = 0 /\ showLeaveDialog = FALSE
  /\ visits = {} /\ made = 0
  /\ stale = FALSE

NoDialog == removingMember = NoName /\ revokingInvite = 0 /\ ~ showLeaveDialog
Listed == {n \in Names : members[n] # "none"}

\* onFinish of the visit that is interrupted is called: the form is ready again.
\* The button of a dialog also closes it, so that none is open.
Go(kind, n, role, link) ==
  /\ made < MaxRequests
  /\ made' = made + 1
  /\ visits' = {[v EXCEPT !.heard = FALSE] : v \in visits} \cup
       {[kind |-> kind, id |-> made + 1, member |-> n, role |-> role, link |-> link, heard |-> TRUE,
         state |-> "sent", team |-> Nobody, links |-> {}]}
  /\ processing' = (kind = "invite")
  /\ removingMember' = NoName /\ revokingInvite' = 0 /\ showLeaveDialog' = FALSE
  /\ stale' = (stale \/ visits # {})
  /\ UNCHANGED <<panel, lists, isOwner, here>>

SubmitInvite ==
  /\ here /\ isOwner /\ NoDialog /\ ~ processing
  /\ Go("invite", NoName, "none", 0)

ChangeRole(n, role) ==
  /\ here /\ isOwner /\ NoDialog
  /\ n \in Listed /\ members[n] # role
  /\ Go("role", n, role, 0)

RemoveMember ==
  /\ removingMember # NoName
  /\ Go("remove", removingMember, "none", 0)

RevokeInvitation ==
  /\ revokingInvite # 0
  /\ Go("revoke", NoName, "none", revokingInvite)

LeaveTeam ==
  /\ showLeaveDialog
  /\ Go("leave", NoName, "none", 0)

OpenDialog ==
  /\ here /\ NoDialog
  /\ \/ /\ isOwner
        /\ removingMember' \in Listed
        /\ UNCHANGED <<revokingInvite, showLeaveDialog>>
     \/ /\ isOwner
        /\ revokingInvite' \in pendingInvitations
        /\ UNCHANGED <<removingMember, showLeaveDialog>>
     \/ /\ ~ isOwner
        /\ showLeaveDialog' = TRUE
        /\ UNCHANGED <<removingMember, revokingInvite>>
  /\ UNCHANGED <<panel, lists, isOwner, here, processing, visits, made, stale>>

Cancel ==
  /\ here /\ ~ NoDialog
  /\ removingMember' = NoName /\ revokingInvite' = 0 /\ showLeaveDialog' = FALSE
  /\ UNCHANGED <<panel, lists, isOwner, here, processing, visits, made, stale>>

(***************************************************************************)
(* The panel.                                                              *)
(***************************************************************************)
\* TeamInvitationController finds the link; updateRole finds the member, and
\* answers in JSON; detaching one who is no member is no error.
Accepted(v) ==
  /\ v.kind = "revoke" => v.link \in invitations
  /\ v.kind = "role" => roles[v.member] # "none"

\* What is lost, or not heard, leaves the lists as they were.
Serve(v) ==
  /\ v \in visits /\ v.state = "sent" /\ Accepted(v)
  /\ roles' = CASE v.kind \in {"remove", "role"} -> [roles EXCEPT ![v.member] = v.role]
                [] OTHER -> roles
  /\ invitations' = CASE v.kind = "invite" -> invitations \cup {v.id}
                      [] v.kind = "revoke" -> invitations \ {v.link}
                      [] OTHER -> invitations
  /\ \E state \in {IF v.kind = "role" THEN "json" ELSE "done", "lost"} :
       /\ visits' = Instead(visits, v, [v EXCEPT !.state = state])
       /\ stale' = (stale \/ state # "done" \/ ~ v.heard)
  /\ UNCHANGED <<lists, isOwner, here, processing, dialogs, made>>

Refuse(v) ==
  /\ v \in visits /\ v.state = "sent"
  /\ visits' = Instead(visits, v, [v EXCEPT !.state = "refused"])
  /\ UNCHANGED <<panel, lists, isOwner, here, processing, dialogs, made, stale>>

\* The redirect back leads to the action members of TeamController.
LoadPage(v) ==
  /\ v \in visits /\ v.state = "done" /\ v.heard
  /\ visits' = Instead(visits, v, [v EXCEPT !.state = "ok", !.team = roles, !.links = invitations])
  /\ stale' = FALSE
  /\ UNCHANGED <<panel, lists, isOwner, here, processing, dialogs, made>>

\* Someone follows a link (TeamInvitationController.accept).
Accept(i, n) ==
  /\ i \in invitations /\ roles[n] = "none"
  /\ invitations' = invitations \ {i} /\ roles' = [roles EXCEPT ![n] = "member"]
  /\ stale' = TRUE
  /\ UNCHANGED <<lists, isOwner, here, processing, dialogs, visits, made>>

(***************************************************************************)
(* Answers.                                                                *)
(***************************************************************************)
\* onFinish.
Finish(v) ==
  /\ visits' = visits \ {v}
  /\ processing' = IF v.kind = "invite" THEN FALSE ELSE processing
  /\ removingMember' = IF v.kind = "remove" THEN NoName ELSE removingMember
  /\ revokingInvite' = IF v.kind = "revoke" THEN 0 ELSE revokingInvite

\* Who has left the team is led to the dashboard.
PageArrives(v) ==
  /\ v \in visits /\ v.heard /\ v.state = "ok"
  /\ Finish(v)
  /\ members' = v.team /\ pendingInvitations' = v.links
  /\ here' = (v.kind # "leave")
  /\ UNCHANGED <<panel, isOwner, showLeaveDialog, made, stale>>

\* Inertia shows an answer that is no page on top of the page as it is.
NoPageArrives(v) ==
  /\ v \in visits /\ v.heard /\ v.state \in {"json", "refused", "lost"}
  /\ Finish(v)
  /\ UNCHANGED <<panel, lists, isOwner, here, showLeaveDialog, made, stale>>

Unheard(v) ==
  /\ v \in visits /\ ~ v.heard /\ v.state # "sent"
  /\ visits' = visits \ {v}
  /\ UNCHANGED <<panel, lists, isOwner, here, processing, dialogs, made, stale>>

Next ==
  \/ SubmitInvite \/ RemoveMember \/ RevokeInvitation \/ LeaveTeam \/ OpenDialog \/ Cancel
  \/ \E n \in Names : (\E role \in Roles : ChangeRole(n, role)) \/ (\E i \in Ids : Accept(i, n))
  \/ \E v \in visits :
       Serve(v) \/ Refuse(v) \/ LoadPage(v) \/ PageArrives(v) \/ NoPageArrives(v) \/ Unheard(v)

Spec == Init /\ [][Next]_vars

-----------------------------------------------------------------------------
(***************************************************************************)
(* When nothing is under way the page shows the panel's members and links, *)
(* unless since the last copy of the page a role was changed (whose answer *)
(* is no page), a visit was interrupted or lost, or a link was followed    *)
(* (stale).                                                                *)
(***************************************************************************)
MembersAreCurrent == here /\ visits = {} /\ ~ stale => members = roles /\ pendingInvitations = invitations
=============================================================================
