---------------------------- MODULE ListingProofs ---------------------------
(***************************************************************************)
(* Proofs about the pages that show a list the panel keeps and fetch it    *)
(* again after every change: domains (DomainsTab), the team's variables    *)
(* (TeamEnv), API tokens (ApiTokens), previews (PreviewsTab), deployments  *)
(* (DeploymentsTab) and members (TeamMembers).  The argument is made once, *)
(* in Numbered and Fresh: the list on the screen may be old, but then a    *)
(* newer one has been asked for, or an answer that makes the page ask is   *)
(* still to come.  A page's inductive invariant is its type, Numbered and  *)
(* Fresh, as long as nothing happened that the page itself does not make   *)
(* good: the steps that raise its doubtful (lost) flag.  The members come  *)
(* with the one visit that is heard, and have an invariant of their own.   *)
(***************************************************************************)
EXTENDS FrontEnd, TLAPS

-----------------------------------------------------------------------------
(***************************************************************************)
(* Requests are numbered as they are sent.                                 *)
(***************************************************************************)
Numbered(rs, n) == \A r \in rs : r.id \in 1 .. n /\ \A o \in rs : o.id = r.id => o = r

LEMMA NumberedSend ==
  ASSUME NEW rs, NEW n \in Nat, NEW s, Numbered(rs, n), s.id = n + 1
  PROVE  Numbered(rs \cup {s}, n + 1)
BY DEF Numbered

LEMMA NumberedServe ==
  ASSUME NEW rs, NEW n \in Nat, NEW r \in rs, NEW s, Numbered(rs, n), s.id = r.id
  PROVE  Numbered(Instead(rs, r, s), n)
BY DEF Numbered, Instead

LEMMA NumberedDrop ==
  ASSUME NEW rs, NEW n \in Nat, NEW r, Numbered(rs, n)
  PROVE  Numbered(rs \ {r}, n)
BY DEF Numbered

LEMMA NumberedAnswer ==
  ASSUME NEW rs, NEW n \in Nat, NEW r, NEW s, Numbered(rs, n), s.id = n + 1
  PROVE  Numbered((rs \ {r}) \cup {s}, n + 1)
BY NumberedDrop, NumberedSend

(***************************************************************************)
(* A list that is fetched again after every change.  Of the requests rs in *)
(* flight some ask for a list, and some, of the kinds changes, may have    *)
(* changed what the panel has (now) in the meantime.  What is shown is     *)
(* current, or the list asked for last brings it, or is still to be made,  *)
(* or a change was carried out whose answer will ask for one.              *)
(***************************************************************************)
Lists(rs) == {r \in rs : r.kind \in {"list", "reload"}}
CarriedOut(r) == r.state \notin {"sent", "refused"}
Pending(rs, changes) == \E r \in rs : r.kind \in changes /\ CarriedOut(r)
Newest(rs, r) == r \in Lists(rs) /\ \A o \in Lists(rs) : o.id <= r.id

Fresh(rs, changes, shows, now) ==
  \/ Pending(rs, changes)
  \/ Lists(rs) = {} /\ shows = now
  \/ \E r \in rs : Newest(rs, r) /\ (r.state = "ok" => r.data = now)

LEMMA FreshWhenQuiet ==
  ASSUME NEW changes, NEW shows, NEW now, Fresh({}, changes, shows, now)
  PROVE  shows = now
BY DEF Fresh, Pending, Newest

\* A list that is asked for now will be the newest.
LEMMA FreshAsked ==
  ASSUME NEW rs, NEW n \in Nat, NEW s, Numbered(rs, n),
         s.id = n + 1, s.kind \in {"list", "reload"}, s.state = "sent",
         NEW changes, NEW shows, NEW now
  PROVE  Fresh(rs \cup {s}, changes, shows, now)
BY DEF Fresh, Newest, Lists, Numbered

\* Other requests do not matter until they are carried out.
LEMMA FreshSend ==
  ASSUME NEW rs, NEW s, s.kind \notin {"list", "reload"},
         NEW changes, NEW shows, NEW now, Fresh(rs, changes, shows, now)
  PROVE  Fresh(rs \cup {s}, changes, shows, now)
BY DEF Fresh, Pending, Newest, Lists

LEMMA FreshRefused ==
  ASSUME NEW rs, NEW r \in rs, NEW s, r.kind \notin {"list", "reload"}, s.kind = r.kind,
         ~ CarriedOut(r),
         NEW changes, NEW shows, NEW now, Fresh(rs, changes, shows, now)
  PROVE  Fresh(Instead(rs, r, s), changes, shows, now)
BY DEF Fresh, Pending, Newest, Lists, Instead

LEMMA FreshDropped ==
  ASSUME NEW rs, NEW r \in rs, r.kind \notin {"list", "reload"},
         NEW changes, NEW shows, NEW now, Fresh(rs, changes, shows, now),
         r.kind \notin changes \/ ~ CarriedOut(r)
  PROVE  Fresh(rs \ {r}, changes, shows, now)
BY DEF Fresh, Pending, Newest, Lists

\* A change that is carried out is answered later.
LEMMA FreshChanged ==
  ASSUME NEW rs, NEW r, NEW s, NEW changes, NEW shows, NEW now,
         s.kind \in changes, CarriedOut(s)
  PROVE  Fresh(Instead(rs, r, s), changes, shows, now)
BY DEF Fresh, Pending, Instead

\* A list is made from what the panel has.
LEMMA FreshListed ==
  ASSUME NEW rs, NEW n \in Nat, NEW r \in rs, NEW s, Numbered(rs, n),
         r.kind \in {"list", "reload"}, s.kind = r.kind, s.id = r.id,
         NEW changes, changes \cap {"list", "reload"} = {},
         NEW shows, NEW now, Fresh(rs, changes, shows, now),
         s.state = "ok" => s.data = now
  PROVE  Fresh(Instead(rs, r, s), changes, shows, now)
<1>1. CASE Pending(rs, changes)
  BY <1>1 DEF Pending, Instead, Fresh
<1>2. CASE \E l \in rs : Newest(rs, l) /\ (l.state = "ok" => l.data = now)
  <2> PICK l \in rs : Newest(rs, l) /\ (l.state = "ok" => l.data = now)
    BY <1>2
  <2>1. CASE l = r
    BY <2>1 DEF Newest, Lists, Instead, Fresh
  <2>2. CASE l # r
    BY <2>2 DEF Newest, Lists, Instead, Fresh
  <2> QED
    BY <2>1, <2>2
<1> QED
  BY <1>1, <1>2 DEF Fresh, Lists

\* A list arrives that overtakes none.
LEMMA FreshArrived ==
  ASSUME NEW rs, NEW n \in Nat, NEW r \in rs, Numbered(rs, n), r.kind \in {"list", "reload"},
         ~ \E o \in rs : o.kind = r.kind /\ o.id < r.id,
         \A o \in Lists(rs) : o.kind = r.kind,
         r.state = "ok",
         NEW changes, changes \cap {"list", "reload"} = {},
         NEW shows, NEW now, Fresh(rs, changes, shows, now)
  PROVE  Fresh(rs \ {r}, changes, r.data, now)
<1>1. CASE Pending(rs, changes)
  BY <1>1 DEF Pending, Fresh
<1>2. CASE \E l \in rs : Newest(rs, l) /\ (l.state = "ok" => l.data = now)
  <2> PICK l \in rs : Newest(rs, l) /\ (l.state = "ok" => l.data = now)
    BY <1>2
  <2>1. CASE l = r
    <3>1. Lists(rs) = {r}
      BY <2>1 DEF Newest, Lists, Numbered
    <3> QED
      BY <2>1, <3>1 DEF Newest, Lists, Fresh
  <2>2. CASE l # r
    BY <2>2 DEF Newest, Lists, Fresh
  <2> QED
    BY <2>1, <2>2
<1> QED
  BY <1>1, <1>2 DEF Fresh, Lists

\* The panel serves one of the requests ...
LEMMA FreshServed ==
  ASSUME NEW rs, NEW n \in Nat, NEW r \in rs, NEW s, Numbered(rs, n), s.kind = r.kind, s.id = r.id,
         NEW changes, changes \cap {"list", "reload"} = {},
         NEW shows, NEW now, NEW then, Fresh(rs, changes, shows, now),
         \/ r.kind \in changes /\ CarriedOut(s)
         \/ r.kind \notin {"list", "reload"} /\ then = now /\ ~ CarriedOut(r)
         \/ r.kind \in {"list", "reload"} /\ then = now /\ (s.state = "ok" => s.data = now)
  PROVE  Fresh(Instead(rs, r, s), changes, shows, then)
<1>1. CASE r.kind \in changes /\ CarriedOut(s)
  BY <1>1, FreshChanged
<1>2. CASE r.kind \notin {"list", "reload"} /\ then = now /\ ~ CarriedOut(r)
  BY <1>2, FreshRefused
<1>3. CASE r.kind \in {"list", "reload"} /\ then = now /\ (s.state = "ok" => s.data = now)
  BY <1>3, FreshListed
<1> QED
  BY <1>1, <1>2, <1>3

\* ... and the page, on the answer, asks for a list or not.
LEMMA FreshAnswered ==
  ASSUME NEW rs, NEW n \in Nat, NEW r \in rs, NEW s, Numbered(rs, n), r.kind \notin {"list", "reload"},
         s.id = n + 1, s.kind \in {"list", "reload"}, s.state = "sent",
         NEW changes, NEW shows, NEW now, Fresh(rs, changes, shows, now),
         NEW left,
         \/ left = (rs \ {r}) \cup {s}
         \/ left = rs \ {r} /\ (r.kind \notin changes \/ ~ CarriedOut(r))
  PROVE  Fresh(left, changes, shows, now)
<1>1. Numbered(rs \ {r}, n)
  BY NumberedDrop
<1>2. Fresh((rs \ {r}) \cup {s}, changes, shows, now)
  BY <1>1, FreshAsked
<1>3. r.kind \notin changes \/ ~ CarriedOut(r) => Fresh(rs \ {r}, changes, shows, now)
  BY FreshDropped
<1> QED
  BY <1>2, <1>3

LEMMA NumberedAnswered ==
  ASSUME NEW rs, NEW n \in Nat, NEW r, NEW s, Numbered(rs, n), s.id = n + 1, NEW left, NEW m,
         \/ left = (rs \ {r}) \cup {s} /\ m = n + 1
         \/ left = rs \ {r} /\ m = n
  PROVE  Numbered(left, m)
<1>1. Numbered(rs \ {r}, n)
  BY NumberedDrop
<1>2. Numbered((rs \ {r}) \cup {s}, n + 1)
  BY NumberedAnswer
<1> QED
  BY <1>1, <1>2

(***************************************************************************)
(* Some pages fetch more than one list at a time: what they need of each   *)
(* request r is view[r], a request for one of the lists, and keeps its     *)
(* number.                                                                 *)
(***************************************************************************)
Image(view, rs) == {view[r] : r \in rs}
KeepsIds(view, T) == \A r \in T : view[r].id = r.id

LEMMA ImageOfNew ==
  ASSUME NEW view, NEW rs, NEW s
  PROVE  Image(view, rs \cup {s}) = Image(view, rs) \cup {view[s]}
BY DEF Image

LEMMA ImageOfRest ==
  ASSUME NEW view, NEW T, KeepsIds(view, T), NEW rs \in SUBSET T, NEW n, Numbered(rs, n), NEW r \in rs
  PROVE  Image(view, rs \ {r}) = Image(view, rs) \ {view[r]}
<1>1. \A o \in rs : view[o] = view[r] => o = r
  BY DEF KeepsIds, Numbered
<1> QED
  BY <1>1 DEF Image

LEMMA ImageOfServed ==
  ASSUME NEW view, NEW T, KeepsIds(view, T), NEW rs \in SUBSET T, NEW n, Numbered(rs, n), NEW r \in rs, NEW s
  PROVE  Image(view, Instead(rs, r, s)) = Instead(Image(view, rs), view[r], view[s])
<1>1. Image(view, rs \ {r}) = Image(view, rs) \ {view[r]}
  BY ImageOfRest
<1>2. Image(view, (rs \ {r}) \cup {s}) = Image(view, rs \ {r}) \cup {view[s]}
  BY ImageOfNew
<1> QED
  BY <1>1, <1>2 DEF Instead

LEMMA ImageNumbered ==
  ASSUME NEW view, NEW T, KeepsIds(view, T), NEW rs \in SUBSET T, NEW n, Numbered(rs, n)
  PROVE  Numbered(Image(view, rs), n)
BY DEF Image, Numbered, KeepsIds

-----------------------------------------------------------------------------
(***************************************************************************)
(* The Domains tab.                                                        *)
(***************************************************************************)
DomainChanges == {"add", "verify", "delete"}

DomainsIInv ==
  /\ Domains!TypeOK
  /\ Numbered(domainRequests, domainAsked)
  /\ ~ domainDoubtful => Fresh(domainRequests, DomainChanges, domains, domainRows)

LEMMA DomainsInitIInv == Domains!Init => DomainsIInv
<1> SUFFICES ASSUME Domains!Init PROVE DomainsIInv
  OBVIOUS
<1>1. domainRows \in Domains!Listing
  <2>1. \A t \in Domains!Listing : \A n : [t EXCEPT ![n] = "pending"] \in Domains!Listing
    BY DEF Domains!Listing, Domains!States
  <2> QED
    BY <2>1 DEF Domains!Init, Domains!Listing, Domains!States, Domains!NoRows
<1>2. domains \in Domains!Listing /\ domainRequests \subseteq Domains!Request /\ domainAsked \in Nat
  BY DEF Domains!Init, Domains!Listing, Domains!States, Domains!NoRows, Domains!Request,
     Domains!Outcomes
<1>3. Domains!TypeOK
  BY <1>1, <1>2 DEF Domains!Init, Domains!TypeOK
<1>4. Numbered(domainRequests, domainAsked)
  BY DEF Domains!Init, Numbered
<1>5. Fresh(domainRequests, DomainChanges, domains, domainRows)
  BY DEF Domains!Init, Fresh, Newest, Lists
<1> QED
  BY <1>4, <1>5, <1>3 DEF Domains!Init, DomainsIInv

LEMMA DomainsDialogIInv ==
  ASSUME DomainsIInv,
         \/ Domains!AddDomain \/ Domains!Cancel
         \/ \E n \in Names : Domains!TypeDomain(n) \/ Domains!AskToDelete(n)
  PROVE  DomainsIInv'
<1> USE DEF Domains!list, Domains!form
<1>1. UNCHANGED <<domainRows, domains, domainRequests, domainAsked, domainDoubtful>>
  BY DEF Domains!AddDomain, Domains!Cancel, Domains!TypeDomain, Domains!AskToDelete
<1>2. Domains!TypeOK'
  BY DEF DomainsIInv, Domains!TypeOK, Domains!AddDomain, Domains!Cancel, Domains!TypeDomain,
         Domains!AskToDelete
<1> QED
  BY <1>1, <1>2 DEF DomainsIInv

LEMMA DomainsSendIInv ==
  ASSUME DomainsIInv,
         Domains!HandleAdd \/ Domains!HandleDelete \/ \E n \in Names : Domains!HandleVerify(n)
  PROVE  DomainsIInv'
<1> USE DEF Domains!list, Domains!form
<1>1. PICK kind \in DomainChanges, n \in Names :
        /\ domainRequests' = domainRequests \cup {Domains!New(kind, n)}
        /\ domainAsked' = domainAsked + 1
  BY DEF DomainsIInv, Domains!TypeOK, Domains!HandleAdd, Domains!HandleDelete, Domains!HandleVerify,
         Domains!Send, DomainChanges
<1>2. UNCHANGED <<domainRows, domains, domainDoubtful>>
  BY DEF Domains!HandleAdd, Domains!HandleDelete, Domains!HandleVerify
<1> DEFINE s == Domains!New(kind, n)
<1>3. /\ s \in Domains!Request /\ s.id = domainAsked + 1 /\ s.kind \notin {"list", "reload"}
  BY DEF DomainsIInv, Domains!TypeOK, Domains!New, Domains!Request, DomainChanges, Domains!Listing,
         Domains!NoRows, Domains!States
<1> HIDE DEF s
<1>4. (domainRequests \subseteq Domains!Request)'
  BY <1>1, <1>3 DEF DomainsIInv, Domains!TypeOK, s
<1>5. Domains!TypeOK'
  <2>1. domainAsked' \in Nat /\ UNCHANGED <<domainRows, domains, domainDoubtful>>
    BY <1>1, <1>2 DEF DomainsIInv, Domains!TypeOK
  <2> QED
    BY <2>1, <1>4 DEF DomainsIInv, Domains!TypeOK, Domains!HandleAdd, Domains!HandleDelete,
       Domains!HandleVerify
<1>6. domainAsked \in Nat
  BY DEF DomainsIInv, Domains!TypeOK
<1>7. Numbered(domainRequests, domainAsked)'
  BY <1>1, <1>3, <1>6, NumberedSend DEF DomainsIInv, s
<1>8. (~ domainDoubtful => Fresh(domainRequests, DomainChanges, domains, domainRows))'
  BY <1>1, <1>2, <1>3, FreshSend DEF DomainsIInv, s
<1> QED
  BY <1>1, <1>3, <1>5, <1>7, <1>8 DEF DomainsIInv, s

LEMMA DomainsServeIInv ==
  ASSUME DomainsIInv, NEW r \in domainRequests, Domains!Serve(r)
  PROVE  DomainsIInv'
<1>1. PICK state \in Outcomes :
        /\ state # "refused" => Domains!Accepted(r)
        /\ domainRows' = IF state # "refused" /\ r.kind # "list"
                         THEN [domainRows EXCEPT ![r.domain] = Domains!Becomes(r)] ELSE domainRows
        /\ domainRequests' = Instead(domainRequests, r, [r EXCEPT !.state = state,
                 !.data = IF r.kind = "list" /\ state = "ok" THEN domainRows ELSE Domains!NoRows])
  BY DEF Domains!Serve, Domains!Outcomes, Outcomes, Domains!Instead, Instead
<1> DEFINE s == [r EXCEPT !.state = state,
                 !.data = IF r.kind = "list" /\ state = "ok" THEN domainRows ELSE Domains!NoRows]
<1>2. UNCHANGED <<domains, domainLoading, domainShowAddDialog, formDomain, domainSaving, verifying,
                  deletingDomain, domainAsked, domainDoubtful>>
  BY DEF Domains!Serve, Domains!list, Domains!form
<1>3. r \in Domains!Request /\ domainRows \in Domains!Listing /\ domainAsked \in Nat
  BY DEF DomainsIInv, Domains!TypeOK
<1>4. /\ s \in Domains!Request /\ s.id = r.id /\ s.kind = r.kind
      /\ s.state = state
      /\ r.kind = "list" /\ state = "ok" => s.data = domainRows
  BY <1>3 DEF Domains!Request, Domains!Listing, Domains!NoRows, Domains!States, Outcomes,
     Domains!Outcomes
<1>5. domainRows' \in Domains!Listing
  <2>1. r.kind \in {"list", "add", "verify", "delete"}
    BY <1>3 DEF Domains!Request
  <2> QED
    BY <1>1, <1>3, <2>1 DEF Domains!Listing, Domains!Becomes, Domains!States
<1> HIDE DEF s
<1>6. Domains!TypeOK'
  BY <1>1, <1>2, <1>4, <1>5 DEF DomainsIInv, Domains!TypeOK, Instead, s
<1>7. Numbered(domainRequests, domainAsked)'
  BY <1>1, <1>2, <1>3, <1>4, NumberedServe DEF DomainsIInv, s
<1>8. (~ domainDoubtful => Fresh(domainRequests, DomainChanges, domains, domainRows))'
  <2>1. /\ ~ domainDoubtful => Fresh(domainRequests, DomainChanges, domains, domainRows)
        /\ Numbered(domainRequests, domainAsked)
    BY DEF DomainsIInv
  <2>2. \/ r.kind \in DomainChanges /\ CarriedOut(s)
        \/ r.kind \notin {"list", "reload"} /\ domainRows' = domainRows /\ ~ CarriedOut(r)
        \/ r.kind \in {"list", "reload"} /\ domainRows' = domainRows /\ (s.state = "ok" => s.data = domainRows)
    BY <1>1, <1>3, <1>4 DEF CarriedOut, Domains!Request, Domains!Serve, DomainChanges, Outcomes
  <2> QED
    BY <1>1, <1>2, <1>3, <1>4, <2>1, <2>2, FreshServed DEF DomainChanges, s
<1> QED
  BY <1>6, <1>7, <1>8 DEF DomainsIInv

LEMMA DomainsAnswerIInv ==
  ASSUME DomainsIInv, NEW r \in domainRequests, Domains!Answer(r)
  PROVE  DomainsIInv'
<1> USE DEF Domains!list, Domains!form
<1> DEFINE l == Domains!New("list", NoName)
<1>1. /\ r \in Domains!Request /\ domainAsked \in Nat /\ Numbered(domainRequests, domainAsked)
      /\ \A q \in domainRequests : q \in Domains!Request
  BY DEF DomainsIInv, Domains!TypeOK
<1>2. l \in Domains!Request /\ l.id = domainAsked + 1 /\ l.kind = "list" /\ l.state = "sent"
  BY <1>1 DEF Domains!New, Domains!Request, Domains!Listing, Domains!NoRows, Domains!States
<1> HIDE DEF l
<1>3. CASE Domains!DomainsArrive(r)
  <2>1. Domains!TypeOK'
    BY <1>1, <1>3 DEF DomainsIInv, Domains!TypeOK, Domains!DomainsArrive, Domains!Request
  <2>2. Numbered(domainRequests, domainAsked)'
    BY <1>1, <1>3, NumberedDrop DEF Domains!DomainsArrive
  <2>3. (~ domainDoubtful => Fresh(domainRequests, DomainChanges, domains, domainRows))'
    <3> SUFFICES ASSUME ~ domainDoubtful'
                 PROVE  Fresh(domainRequests \ {r}, DomainChanges, r.data, domainRows)
      BY <1>3 DEF Domains!DomainsArrive
    <3>1. r.kind = "list" /\ r.state = "ok" /\ ~ domainDoubtful
      BY <1>3 DEF Domains!DomainsArrive
    <3>2. ~ \E o \in domainRequests : o.kind = r.kind /\ o.id < r.id
      BY <1>3, <3>1 DEF Domains!DomainsArrive, Domains!Overtakes
    <3>3. \A o \in Lists(domainRequests) : o.kind = r.kind
      BY <1>1, <3>1 DEF Lists, Domains!Request
    <3>4. Fresh(domainRequests, DomainChanges, domains, domainRows)
      BY <3>1 DEF DomainsIInv
    <3> QED
      BY <1>1, <3>1, <3>2, <3>3, <3>4, FreshArrived DEF DomainChanges
  <2> QED
    BY <1>1, <1>3, <2>1, <2>2, <2>3 DEF DomainsIInv, Domains!DomainsArrive
<1>4. CASE Domains!Added(r) \/ Domains!Verified(r) \/ Domains!Deleted(r)
  <2>1. /\ r.kind # "list" /\ r.state # "sent" /\ UNCHANGED <<domains, domainRows>>
        /\ domainDoubtful' = (domainDoubtful \/ r.state = "lost")
    BY <1>4 DEF Domains!Added, Domains!Verified, Domains!Deleted
  <2>2. \/ domainRequests' = (domainRequests \ {r}) \cup {l} /\ domainAsked' = domainAsked + 1
        \/ domainRequests' = domainRequests \ {r} /\ domainAsked' = domainAsked /\ r.state # "ok"
    BY <1>4 DEF Domains!Added, Domains!Verified, Domains!Deleted, Domains!FetchDomains, l
  <2>3. (domainRequests \subseteq Domains!Request)' /\ domainAsked' \in Nat
    BY <1>1, <1>2, <2>2
  <2>4. Domains!TypeOK'
    BY <1>4, <2>1, <2>3 DEF DomainsIInv, Domains!TypeOK, Domains!Added,
       Domains!Verified, Domains!Deleted, Domains!FetchDomains
  <2>5. Numbered(domainRequests, domainAsked)'
    BY <1>1, <1>2, <2>2, NumberedAnswered
  <2>6. (~ domainDoubtful => Fresh(domainRequests, DomainChanges, domains, domainRows))'
    <3>1. \/ domainRequests' = (domainRequests \ {r}) \cup {l}
          \/ domainRequests' = domainRequests \ {r} /\ (~ CarriedOut(r) \/ domainDoubtful')
      BY <1>1, <2>1, <2>2 DEF CarriedOut, Domains!Request, Domains!Outcomes
    <3>2. r.kind \notin {"list", "reload"}
      BY <1>1, <2>1 DEF Domains!Request
    <3> QED
      BY <1>1, <1>2, <2>1, <3>1, <3>2, FreshAnswered DEF DomainsIInv
  <2> QED
    BY <1>1, <1>2, <2>2, <2>4, <2>5, <2>6 DEF DomainsIInv
<1> QED
  BY <1>3, <1>4 DEF Domains!Answer

LEMMA DomainsNextIInv == DomainsIInv /\ [Domains!Next]_(Domains!vars) => DomainsIInv'
<1> SUFFICES ASSUME DomainsIInv, [Domains!Next]_(Domains!vars) PROVE DomainsIInv'
  OBVIOUS
<1>1. CASE UNCHANGED Domains!vars
  BY <1>1 DEF DomainsIInv, Domains!TypeOK, Domains!vars, Domains!list, Domains!form
<1>2. CASE Domains!Next
  BY <1>2, DomainsDialogIInv, DomainsSendIInv, DomainsServeIInv, DomainsAnswerIInv DEF Domains!Next
<1> QED
  BY <1>1, <1>2

\* DomainsTab!TypeOK.
THEOREM DomainsTypeCorrect == Domains!Spec => []Domains!TypeOK
<1>1. DomainsIInv => Domains!TypeOK
  BY DEF DomainsIInv
<1> QED
  BY <1>1, DomainsInitIInv, DomainsNextIInv, PTL DEF Domains!Spec

\* DomainsTab!ListIsCurrent: the rows shown are the panel's once all is quiet.
THEOREM DomainsAreCurrent == Domains!Spec => []Domains!ListIsCurrent
<1>1. DomainsIInv => Domains!ListIsCurrent
  BY FreshWhenQuiet DEF DomainsIInv, Domains!ListIsCurrent
<1> QED
  BY <1>1, DomainsInitIInv, DomainsNextIInv, PTL DEF Domains!Spec

-----------------------------------------------------------------------------
(***************************************************************************)
(* The team's environment variables.                                       *)
(***************************************************************************)
TeamVarChanges == {"add", "edit", "delete"}

\* The form of the dialog that edits holds what was entered there.
TeamFormIsOwn == teamEnvEditingVar # NoKey => ~ teamEnvShowAddDialog /\ teamEnvFormFor = teamEnvEditingVar

TeamVarsIInv ==
  /\ TeamVars!TypeOK
  /\ TeamVars!SendsItsOwnText
  /\ TeamFormIsOwn
  /\ Numbered(teamEnvRequests, teamEnvAsked)
  /\ ~ teamEnvDoubtful => Fresh(teamEnvRequests, TeamVarChanges, teamVars, teamEnvRows)

LEMMA TeamVarsInitIInv == TeamVars!Init => TeamVarsIInv
<1> SUFFICES ASSUME TeamVars!Init PROVE TeamVarsIInv
  OBVIOUS
<1>1. teamEnvRows \in TeamVars!Env
  BY EnvironmentAssumption DEF TeamVars!Init, TeamVars!Env
<1>2. teamVars \in TeamVars!Env /\ teamEnvRequests \subseteq TeamVars!Request /\ teamEnvAsked \in Nat
  BY DEF TeamVars!Init, TeamVars!Env, TeamVars!NoVars, TeamVars!Request,
     TeamVars!Outcomes
<1>3. TeamVars!TypeOK
  BY <1>1, <1>2 DEF TeamVars!Init, TeamVars!TypeOK
<1>4. Numbered(teamEnvRequests, teamEnvAsked)
  BY DEF TeamVars!Init, Numbered
<1>5. Fresh(teamEnvRequests, TeamVarChanges, teamVars, teamEnvRows)
  BY DEF TeamVars!Init, Fresh, Newest, Lists
<1> QED
  BY <1>4, <1>5, <1>3 DEF TeamVars!Init, TeamVarsIInv, TeamVars!SendsItsOwnText, TeamFormIsOwn

LEMMA TeamVarsDialogIInv ==
  ASSUME TeamVarsIInv,
         \/ TeamVars!OpenAdd \/ TeamVars!Cancel
         \/ \E k \in Keys : TeamVars!OpenEdit(k) \/ TeamVars!OpenDelete(k)
         \/ \E k \in Keys, v \in Values : TeamVars!TypeNew(k, v)
         \/ \E v \in Values : TeamVars!TypeValue(v)
  PROVE  TeamVarsIInv'
<1> USE DEF TeamVars!dialogs, TeamVars!form
<1>1. UNCHANGED <<teamEnvRows, teamVars, teamEnvRequests, teamEnvAsked, teamEnvDoubtful>>
  BY DEF TeamVars!OpenAdd, TeamVars!Cancel, TeamVars!OpenEdit, TeamVars!OpenDelete,
         TeamVars!TypeNew, TeamVars!TypeValue
<1>2. TeamVars!TypeOK'
  <2>1. \A k \in Keys : teamVars[k] \in Values \cup {NoValue}
    BY DEF TeamVarsIInv, TeamVars!TypeOK, TeamVars!Env
  <2>2. CASE TeamVars!OpenAdd \/ TeamVars!Cancel \/ \E k \in Keys : TeamVars!OpenDelete(k)
    BY <2>2 DEF TeamVarsIInv, TeamVars!TypeOK, TeamVars!OpenAdd, TeamVars!Cancel, TeamVars!OpenDelete
  <2>3. CASE \E k \in Keys : TeamVars!OpenEdit(k)
    BY <2>1, <2>3 DEF TeamVarsIInv, TeamVars!TypeOK, TeamVars!OpenEdit
  <2>4. CASE \/ \E k \in Keys, v \in Values : TeamVars!TypeNew(k, v)
             \/ \E v \in Values : TeamVars!TypeValue(v)
    BY <2>4 DEF TeamVarsIInv, TeamVars!TypeOK, TeamVars!TypeNew, TeamVars!TypeValue
  <2> QED
    BY <2>2, <2>3, <2>4
<1>3. TeamFormIsOwn'
  BY EnvironmentAssumption DEF TeamVarsIInv, TeamFormIsOwn, TeamVars!OpenAdd, TeamVars!Cancel, TeamVars!OpenEdit,
         TeamVars!OpenDelete, TeamVars!TypeNew, TeamVars!TypeValue, TeamVars!NoDialog
<1> QED
  BY <1>1, <1>2, <1>3 DEF TeamVarsIInv, TeamVars!SendsItsOwnText

LEMMA TeamVarsSendIInv ==
  ASSUME TeamVarsIInv,
         TeamVars!HandleAdd \/ TeamVars!HandleEdit \/ TeamVars!HandleDelete
  PROVE  TeamVarsIInv'
<1> USE DEF TeamVars!dialogs, TeamVars!form
<1>1. PICK kind \in TeamVarChanges, k \in Keys, v \in Values \cup {NoValue} :
        /\ (kind = "edit" => k = teamEnvFormFor)
        /\ teamEnvRequests' = teamEnvRequests \cup {TeamVars!New(kind, k, v)}
        /\ teamEnvAsked' = teamEnvAsked + 1
  BY DEF TeamVarsIInv, TeamVars!TypeOK, TeamVars!HandleAdd, TeamVars!HandleDelete, TeamVars!HandleEdit,
         TeamVars!Send, TeamVarChanges, TeamFormIsOwn
<1>2. UNCHANGED <<teamEnvRows, teamVars, teamEnvDoubtful>>
  BY DEF TeamVars!HandleAdd, TeamVars!HandleDelete, TeamVars!HandleEdit
<1> DEFINE s == TeamVars!New(kind, k, v)
<1>3. /\ s \in TeamVars!Request /\ s.id = teamEnvAsked + 1 /\ s.kind \notin {"list", "reload"}
      /\ s.kind = "edit" => s.own
  <2>1. \A own \in BOOLEAN :
          [kind |-> kind, id |-> teamEnvAsked + 1, key |-> k, value |-> v, own |-> own, state |-> "sent",
           data |-> TeamVars!NoVars] \in TeamVars!Request
    BY DEF TeamVarsIInv, TeamVars!TypeOK, TeamVars!Request, TeamVarChanges, TeamVars!Env, TeamVars!NoVars
  <2>2. s \in TeamVars!Request
    BY <2>1 DEF TeamVars!New
  <2>3. s.own = (kind = "edit" => k = teamEnvFormFor) /\ s.kind = kind
    BY DEF TeamVars!New
  <2> QED
    BY <1>1, <2>2, <2>3 DEF TeamVars!New, TeamVarChanges
<1> HIDE DEF s
<1>4. (teamEnvRequests \subseteq TeamVars!Request)'
  BY <1>1, <1>3 DEF TeamVarsIInv, TeamVars!TypeOK, s
<1>5. TeamVars!TypeOK'
  <2>1. teamEnvAsked' \in Nat /\ UNCHANGED <<teamEnvRows, teamVars, teamEnvDoubtful>>
    BY <1>1, <1>2 DEF TeamVarsIInv, TeamVars!TypeOK
  <2> QED
    BY <2>1, <1>4 DEF TeamVarsIInv, TeamVars!TypeOK, TeamVars!HandleAdd, TeamVars!HandleDelete,
       TeamVars!HandleEdit
<1>6. teamEnvAsked \in Nat
  BY DEF TeamVarsIInv, TeamVars!TypeOK
<1>7. Numbered(teamEnvRequests, teamEnvAsked)'
  BY <1>1, <1>3, <1>6, NumberedSend DEF TeamVarsIInv, s
<1>8. (~ teamEnvDoubtful => Fresh(teamEnvRequests, TeamVarChanges, teamVars, teamEnvRows))'
  BY <1>1, <1>2, <1>3, FreshSend DEF TeamVarsIInv, s
<1>9. TeamVars!SendsItsOwnText'
  BY <1>1, <1>3 DEF TeamVarsIInv, TeamVars!SendsItsOwnText, s
<1>10. TeamFormIsOwn'
  BY DEF TeamVarsIInv, TeamFormIsOwn, TeamVars!HandleAdd, TeamVars!HandleEdit, TeamVars!HandleDelete
<1> QED
  BY <1>5, <1>7, <1>8, <1>9, <1>10 DEF TeamVarsIInv

LEMMA TeamVarsServeIInv ==
  ASSUME TeamVarsIInv, NEW r \in teamEnvRequests, TeamVars!Serve(r)
  PROVE  TeamVarsIInv'
<1>1. PICK state \in Outcomes :
        /\ state # "refused" => TeamVars!Accepted(r)
        /\ teamEnvRows' = IF state # "refused" /\ r.kind # "list"
                         THEN [teamEnvRows EXCEPT ![r.key] = r.value] ELSE teamEnvRows
        /\ teamEnvRequests' = Instead(teamEnvRequests, r, [r EXCEPT !.state = state,
                 !.data = IF r.kind = "list" /\ state = "ok" THEN teamEnvRows ELSE TeamVars!NoVars])
  BY DEF TeamVars!Serve, TeamVars!Outcomes, Outcomes, TeamVars!Instead, Instead
<1> DEFINE s == [r EXCEPT !.state = state,
                 !.data = IF r.kind = "list" /\ state = "ok" THEN teamEnvRows ELSE TeamVars!NoVars]
<1>2. UNCHANGED <<teamVars, teamEnvShowAddDialog, teamEnvEditingVar, teamEnvDeletingVar,
                  teamEnvSaving, teamEnvFormValue, teamEnvFormFor, teamEnvAsked, teamEnvDoubtful>>
  BY DEF TeamVars!Serve, TeamVars!dialogs, TeamVars!form
<1>3. r \in TeamVars!Request /\ teamEnvRows \in TeamVars!Env /\ teamEnvAsked \in Nat
  BY DEF TeamVarsIInv, TeamVars!TypeOK
<1>4. /\ s \in TeamVars!Request /\ s.id = r.id /\ s.kind = r.kind
      /\ s.state = state /\ s.own = r.own
      /\ r.kind = "list" /\ state = "ok" => s.data = teamEnvRows
  BY <1>3 DEF TeamVars!Request, TeamVars!Env, TeamVars!NoVars, Outcomes,
     TeamVars!Outcomes
<1>5. teamEnvRows' \in TeamVars!Env
  BY <1>1, <1>3 DEF TeamVars!Env, TeamVars!Request
<1> HIDE DEF s
<1>6. TeamVars!TypeOK'
  BY <1>1, <1>2, <1>4, <1>5 DEF TeamVarsIInv, TeamVars!TypeOK, Instead, s
<1>7. Numbered(teamEnvRequests, teamEnvAsked)'
  BY <1>1, <1>2, <1>3, <1>4, NumberedServe DEF TeamVarsIInv, s
<1>8. (~ teamEnvDoubtful => Fresh(teamEnvRequests, TeamVarChanges, teamVars, teamEnvRows))'
  <2>1. /\ ~ teamEnvDoubtful => Fresh(teamEnvRequests, TeamVarChanges, teamVars, teamEnvRows)
        /\ Numbered(teamEnvRequests, teamEnvAsked)
    BY DEF TeamVarsIInv
  <2>2. \/ r.kind \in TeamVarChanges /\ CarriedOut(s)
        \/ r.kind \notin {"list", "reload"} /\ teamEnvRows' = teamEnvRows /\ ~ CarriedOut(r)
        \/ r.kind \in {"list", "reload"} /\ teamEnvRows' = teamEnvRows /\ (s.state = "ok" => s.data = teamEnvRows)
    BY <1>1, <1>3, <1>4 DEF CarriedOut, TeamVars!Request, TeamVars!Serve, TeamVarChanges, Outcomes
  <2> QED
    BY <1>1, <1>2, <1>3, <1>4, <2>1, <2>2, FreshServed DEF TeamVarChanges, s
<1>9. TeamVars!SendsItsOwnText'
  BY <1>1, <1>4 DEF TeamVarsIInv, TeamVars!SendsItsOwnText, Instead, s
<1> QED
  BY <1>2, <1>6, <1>7, <1>8, <1>9 DEF TeamVarsIInv, TeamFormIsOwn

LEMMA TeamVarsAnswerIInv ==
  ASSUME TeamVarsIInv, NEW r \in teamEnvRequests, TeamVars!Answer(r)
  PROVE  TeamVarsIInv'
<1> USE DEF TeamVars!dialogs, TeamVars!form
<1> DEFINE l == TeamVars!New("list", NoKey, NoValue)
<1>1. /\ r \in TeamVars!Request /\ teamEnvAsked \in Nat /\ Numbered(teamEnvRequests, teamEnvAsked)
      /\ \A q \in teamEnvRequests : q \in TeamVars!Request
  BY DEF TeamVarsIInv, TeamVars!TypeOK
<1>2. l \in TeamVars!Request /\ l.id = teamEnvAsked + 1 /\ l.kind = "list" /\ l.state = "sent"
  BY <1>1 DEF TeamVars!New, TeamVars!Request, TeamVars!Env, TeamVars!NoVars
<1> HIDE DEF l
<1>3. CASE TeamVars!VarsArrive(r)
  <2>1. TeamVars!TypeOK'
    BY <1>1, <1>3 DEF TeamVarsIInv, TeamVars!TypeOK, TeamVars!VarsArrive, TeamVars!Request
  <2>2. Numbered(teamEnvRequests, teamEnvAsked)'
    BY <1>1, <1>3, NumberedDrop DEF TeamVars!VarsArrive
  <2>3. (~ teamEnvDoubtful => Fresh(teamEnvRequests, TeamVarChanges, teamVars, teamEnvRows))'
    <3> SUFFICES ASSUME ~ teamEnvDoubtful'
                 PROVE  Fresh(teamEnvRequests \ {r}, TeamVarChanges, r.data, teamEnvRows)
      BY <1>3 DEF TeamVars!VarsArrive
    <3>1. r.kind = "list" /\ r.state = "ok" /\ ~ teamEnvDoubtful
      BY <1>3 DEF TeamVars!VarsArrive
    <3>2. ~ \E o \in teamEnvRequests : o.kind = r.kind /\ o.id < r.id
      BY <1>3, <3>1 DEF TeamVars!VarsArrive, TeamVars!Overtakes
    <3>3. \A o \in Lists(teamEnvRequests) : o.kind = r.kind
      BY <1>1, <3>1 DEF Lists, TeamVars!Request
    <3>4. Fresh(teamEnvRequests, TeamVarChanges, teamVars, teamEnvRows)
      BY <3>1 DEF TeamVarsIInv
    <3> QED
      BY <1>1, <3>1, <3>2, <3>3, <3>4, FreshArrived DEF TeamVarChanges
  <2> QED
    BY <1>1, <1>3, <2>1, <2>2, <2>3 DEF TeamVarsIInv, TeamVars!VarsArrive, TeamVars!SendsItsOwnText,
       TeamFormIsOwn
<1>4. CASE TeamVars!Added(r) \/ TeamVars!Edited(r) \/ TeamVars!Deleted(r)
  <2>1. /\ r.kind # "list" /\ r.state # "sent" /\ UNCHANGED <<teamVars, teamEnvRows>>
        /\ teamEnvDoubtful' = (teamEnvDoubtful \/ r.state = "lost")
    BY <1>4 DEF TeamVars!Added, TeamVars!Edited, TeamVars!Deleted
  <2>2. \/ teamEnvRequests' = (teamEnvRequests \ {r}) \cup {l} /\ teamEnvAsked' = teamEnvAsked + 1
        \/ teamEnvRequests' = teamEnvRequests \ {r} /\ teamEnvAsked' = teamEnvAsked /\ r.state # "ok"
    BY <1>4 DEF TeamVars!Added, TeamVars!Edited, TeamVars!Deleted, TeamVars!FetchVars, l
  <2>3. (teamEnvRequests \subseteq TeamVars!Request)' /\ teamEnvAsked' \in Nat
    BY <1>1, <1>2, <2>2
  <2>4. TeamVars!TypeOK'
    BY <1>4, <2>1, <2>3 DEF TeamVarsIInv, TeamVars!TypeOK, TeamVars!Added,
       TeamVars!Edited, TeamVars!Deleted, TeamVars!FetchVars
  <2>5. Numbered(teamEnvRequests, teamEnvAsked)'
    BY <1>1, <1>2, <2>2, NumberedAnswered
  <2>6. (~ teamEnvDoubtful => Fresh(teamEnvRequests, TeamVarChanges, teamVars, teamEnvRows))'
    <3>1. \/ teamEnvRequests' = (teamEnvRequests \ {r}) \cup {l}
          \/ teamEnvRequests' = teamEnvRequests \ {r} /\ (~ CarriedOut(r) \/ teamEnvDoubtful')
      BY <1>1, <2>1, <2>2 DEF CarriedOut, TeamVars!Request, TeamVars!Outcomes
    <3>2. r.kind \notin {"list", "reload"}
      BY <1>1, <2>1 DEF TeamVars!Request
    <3> QED
      BY <1>1, <1>2, <2>1, <3>1, <3>2, FreshAnswered DEF TeamVarsIInv
  <2>7. TeamVars!SendsItsOwnText'
    BY <1>2, <2>2 DEF TeamVarsIInv, TeamVars!SendsItsOwnText
  <2>8. TeamFormIsOwn'
    BY <1>4 DEF TeamVarsIInv, TeamFormIsOwn, TeamVars!Added, TeamVars!Edited, TeamVars!Deleted
  <2> QED
    BY <2>4, <2>5, <2>6, <2>7, <2>8 DEF TeamVarsIInv
<1> QED
  BY <1>3, <1>4 DEF TeamVars!Answer

LEMMA TeamVarsNextIInv == TeamVarsIInv /\ [TeamVars!Next]_(TeamVars!vars) => TeamVarsIInv'
<1> SUFFICES ASSUME TeamVarsIInv, [TeamVars!Next]_(TeamVars!vars) PROVE TeamVarsIInv'
  OBVIOUS
<1>1. CASE UNCHANGED TeamVars!vars
  BY <1>1 DEF TeamVarsIInv, TeamVars!TypeOK, TeamVars!vars, TeamVars!dialogs, TeamVars!form,
     TeamVars!SendsItsOwnText, TeamFormIsOwn
<1>2. CASE TeamVars!Next
  BY <1>2, TeamVarsDialogIInv, TeamVarsSendIInv, TeamVarsServeIInv, TeamVarsAnswerIInv DEF TeamVars!Next
<1> QED
  BY <1>1, <1>2

\* TeamEnv!TypeOK.
THEOREM TeamVarsTypeCorrect == TeamVars!Spec => []TeamVars!TypeOK
<1>1. TeamVarsIInv => TeamVars!TypeOK
  BY DEF TeamVarsIInv
<1> QED
  BY <1>1, TeamVarsInitIInv, TeamVarsNextIInv, PTL DEF TeamVars!Spec

\* TeamEnv!ListIsCurrent: the rows shown are the panel's once all is quiet.
THEOREM TeamVarsAreCurrent == TeamVars!Spec => []TeamVars!ListIsCurrent
<1>1. TeamVarsIInv => TeamVars!ListIsCurrent
  BY FreshWhenQuiet DEF TeamVarsIInv, TeamVars!ListIsCurrent
<1> QED
  BY <1>1, TeamVarsInitIInv, TeamVarsNextIInv, PTL DEF TeamVars!Spec

\* TeamEnv!SendsItsOwnText: what is sent for a variable was entered for it.
THEOREM TeamSendsOwn == TeamVars!Spec => []TeamVars!SendsItsOwnText
<1>1. TeamVarsIInv => TeamVars!SendsItsOwnText
  BY DEF TeamVarsIInv
<1> QED
  BY <1>1, TeamVarsInitIInv, TeamVarsNextIInv, PTL DEF TeamVars!Spec

-----------------------------------------------------------------------------
(***************************************************************************)
(* The API tokens.                                                         *)
(***************************************************************************)
TokenChanges == {"create", "delete"}

TokensIInv ==
  /\ Tokens!TypeOK
  /\ Numbered(tokenRequests, tokenAsked)
  /\ ~ lost => Fresh(tokenRequests, TokenChanges, tokens, tokenRows)

LEMMA TokensInitIInv == Tokens!Init => TokensIInv
<1> SUFFICES ASSUME Tokens!Init PROVE TokensIInv
  OBVIOUS
<1>1. Tokens!TypeOK
  BY DEF Tokens!Init, Tokens!TypeOK
<1>2. tokenRequests = {} /\ tokenAsked = 0 /\ tokens = tokenRows
  BY DEF Tokens!Init
<1> QED
  BY <1>1, <1>2 DEF TokensIInv, Numbered, Fresh, Lists

LEMMA TokensSendIInv ==
  ASSUME TokensIInv,
         Tokens!CreateToken \/ \E t \in tokens : Tokens!DeleteToken(t)
  PROVE  TokensIInv'
<1>1. PICK kind \in TokenChanges, t \in Tokens!Ids \cup {0} : Tokens!Send(tokenRequests, kind, t)
  BY DEF TokensIInv, Tokens!TypeOK, Tokens!CreateToken, Tokens!DeleteToken, TokenChanges
<1>2. UNCHANGED <<tokenRows, tokens, lost>>
  BY DEF Tokens!CreateToken, Tokens!DeleteToken
<1> DEFINE s == [kind |-> kind, id |-> tokenAsked + 1, token |-> t, state |-> "sent", data |-> {}]
<1>3. /\ tokenRequests' = tokenRequests \cup {s} /\ tokenAsked' = tokenAsked + 1
      /\ s \in Tokens!Request /\ s.id = tokenAsked + 1 /\ s.kind \notin {"list", "reload"}
      /\ tokenAsked \in Nat
  BY <1>1 DEF TokensIInv, Tokens!TypeOK, Tokens!Send, Tokens!Request, Tokens!Ids, TokenChanges
<1> HIDE DEF s
<1>4. (tokenRequests \subseteq Tokens!Request)' /\ tokenAsked' \in Nat
  BY <1>3 DEF TokensIInv, Tokens!TypeOK
<1>5. Tokens!TypeOK'
  BY <1>2, <1>4 DEF TokensIInv, Tokens!TypeOK, Tokens!CreateToken, Tokens!DeleteToken
<1>6. Numbered(tokenRequests, tokenAsked)'
  BY <1>3, NumberedSend DEF TokensIInv
<1>7. (~ lost => Fresh(tokenRequests, TokenChanges, tokens, tokenRows))'
  BY <1>2, <1>3, FreshSend DEF TokensIInv
<1> QED
  BY <1>5, <1>6, <1>7 DEF TokensIInv

LEMMA TokensServeIInv ==
  ASSUME TokensIInv, NEW r \in tokenRequests, Tokens!Serve(r)
  PROVE  TokensIInv'
<1>1. PICK state \in Outcomes :
        /\ tokenRows' = CASE state # "refused" /\ r.kind = "create" -> tokenRows \cup {r.id}
                          [] state # "refused" /\ r.kind = "delete" -> tokenRows \ {r.token}
                          [] OTHER -> tokenRows
        /\ tokenRequests' = Instead(tokenRequests, r, [r EXCEPT !.state = state,
                 !.data = IF r.kind = "reload" /\ state = "ok" THEN tokenRows ELSE {}])
  BY DEF Tokens!Serve, Tokens!Outcomes, Outcomes, Tokens!Instead, Instead
<1> DEFINE s == [r EXCEPT !.state = state,
                 !.data = IF r.kind = "reload" /\ state = "ok" THEN tokenRows ELSE {}]
<1>2. UNCHANGED <<tokens, name, newToken, creating, deletingId, tokenAsked, lost>>
  BY DEF Tokens!Serve
<1>3. r \in Tokens!Request /\ tokenRows \subseteq Tokens!Ids /\ tokenAsked \in Nat
  BY DEF TokensIInv, Tokens!TypeOK
<1>4. /\ s \in Tokens!Request /\ s.id = r.id /\ s.kind = r.kind /\ s.state = state
      /\ r.kind = "reload" /\ state = "ok" => s.data = tokenRows
  BY <1>3 DEF Tokens!Request, Outcomes, Tokens!Outcomes
<1>5. tokenRows' \subseteq Tokens!Ids
  BY <1>1, <1>3 DEF Tokens!Request
<1> HIDE DEF s
<1>6. Tokens!TypeOK'
  BY <1>1, <1>2, <1>4, <1>5 DEF TokensIInv, Tokens!TypeOK, Instead, s
<1>7. Numbered(tokenRequests, tokenAsked)'
  BY <1>1, <1>2, <1>3, <1>4, NumberedServe DEF TokensIInv, s
<1>8. (~ lost => Fresh(tokenRequests, TokenChanges, tokens, tokenRows))'
  <2>1. \/ r.kind \in TokenChanges /\ CarriedOut(s)
        \/ r.kind \notin {"list", "reload"} /\ tokenRows' = tokenRows /\ ~ CarriedOut(r)
        \/ r.kind \in {"list", "reload"} /\ tokenRows' = tokenRows /\ (s.state = "ok" => s.data = tokenRows)
    BY <1>1, <1>3, <1>4 DEF CarriedOut, Tokens!Request, Tokens!Serve, TokenChanges, Outcomes
  <2> QED
    BY <1>1, <1>2, <1>3, <1>4, <2>1, FreshServed DEF TokensIInv, TokenChanges, s
<1> QED
  BY <1>6, <1>7, <1>8 DEF TokensIInv

LEMMA TokensAnswerIInv ==
  ASSUME TokensIInv, NEW r \in tokenRequests,
         Tokens!Created(r) \/ Tokens!Deleted(r) \/ Tokens!Reloaded(r)
  PROVE  TokensIInv'
<1> DEFINE l == [kind |-> "reload", id |-> tokenAsked + 1, token |-> 0, state |-> "sent", data |-> {}]
<1>1. /\ r \in Tokens!Request /\ tokenAsked \in Nat /\ Numbered(tokenRequests, tokenAsked)
      /\ \A q \in tokenRequests : q \in Tokens!Request
  BY DEF TokensIInv, Tokens!TypeOK
<1>2. l \in Tokens!Request /\ l.id = tokenAsked + 1 /\ l.kind = "reload" /\ l.state = "sent"
  BY <1>1 DEF Tokens!Request, Tokens!Ids
<1> HIDE DEF l
<1>3. CASE Tokens!Reloaded(r)
  <2>1. Tokens!TypeOK'
    BY <1>1, <1>3 DEF TokensIInv, Tokens!TypeOK, Tokens!Reloaded, Tokens!Request
  <2>2. Numbered(tokenRequests, tokenAsked)'
    BY <1>1, <1>3, NumberedDrop DEF Tokens!Reloaded
  <2>3. (~ lost => Fresh(tokenRequests, TokenChanges, tokens, tokenRows))'
    <3> SUFFICES ASSUME ~ lost'
                 PROVE  Fresh(tokenRequests \ {r}, TokenChanges, r.data, tokenRows)
      BY <1>3 DEF Tokens!Reloaded
    <3>1. /\ r.kind = "reload" /\ r.state = "ok" /\ ~ lost
          /\ ~ \E o \in tokenRequests : o.kind = r.kind /\ o.id < r.id
      BY <1>3 DEF Tokens!Reloaded
    <3>2. \A o \in Lists(tokenRequests) : o.kind = r.kind
      BY <1>1, <3>1 DEF Lists, Tokens!Request
    <3> QED
      BY <1>1, <3>1, <3>2, FreshArrived DEF TokensIInv, TokenChanges
  <2> QED
    BY <2>1, <2>2, <2>3 DEF TokensIInv
<1>4. CASE Tokens!Created(r) \/ Tokens!Deleted(r)
  <2>1. /\ r.kind # "reload" /\ r.state # "sent" /\ UNCHANGED <<tokens, tokenRows>>
        /\ lost' = (lost \/ r.state = "lost")
    BY <1>4 DEF Tokens!Created, Tokens!Deleted
  <2>2. \/ tokenRequests' = (tokenRequests \ {r}) \cup {l} /\ tokenAsked' = tokenAsked + 1
        \/ tokenRequests' = tokenRequests \ {r} /\ tokenAsked' = tokenAsked /\ r.state # "ok"
    BY <1>4 DEF Tokens!Created, Tokens!Deleted, Tokens!Reload, Tokens!Send, l
  <2>3. (tokenRequests \subseteq Tokens!Request)' /\ tokenAsked' \in Nat
    BY <1>1, <1>2, <2>2
  <2>4. Tokens!TypeOK'
    BY <1>1, <1>4, <2>1, <2>3 DEF TokensIInv, Tokens!TypeOK, Tokens!Created, Tokens!Deleted, Tokens!Request
  <2>5. Numbered(tokenRequests, tokenAsked)'
    BY <1>1, <1>2, <2>2, NumberedAnswered
  <2>6. (~ lost => Fresh(tokenRequests, TokenChanges, tokens, tokenRows))'
    <3>1. \/ tokenRequests' = (tokenRequests \ {r}) \cup {l}
          \/ tokenRequests' = tokenRequests \ {r} /\ (~ CarriedOut(r) \/ lost')
      BY <1>1, <2>1, <2>2 DEF CarriedOut, Tokens!Request, Tokens!Outcomes
    <3>2. r.kind \notin {"list", "reload"}
      BY <1>1, <2>1 DEF Tokens!Request
    <3> QED
      BY <1>1, <1>2, <2>1, <3>1, <3>2, FreshAnswered DEF TokensIInv
  <2> QED
    BY <2>4, <2>5, <2>6 DEF TokensIInv
<1> QED
  BY <1>3, <1>4

LEMMA TokensNextIInv == TokensIInv /\ [Tokens!Next]_(Tokens!vars) => TokensIInv'
<1> SUFFICES ASSUME TokensIInv, [Tokens!Next]_(Tokens!vars) PROVE TokensIInv'
  OBVIOUS
<1>1. CASE UNCHANGED Tokens!vars
  BY <1>1 DEF TokensIInv, Tokens!TypeOK, Tokens!vars
<1>2. CASE Tokens!TypeName
  BY <1>2 DEF TokensIInv, Tokens!TypeOK, Tokens!TypeName
<1>3. CASE Tokens!CreateToken \/ \E t \in tokens : Tokens!DeleteToken(t)
  BY <1>3, TokensSendIInv
<1>4. CASE \E r \in tokenRequests : Tokens!Serve(r)
  BY <1>4, TokensServeIInv
<1>5. CASE \E r \in tokenRequests : Tokens!Created(r) \/ Tokens!Deleted(r) \/ Tokens!Reloaded(r)
  BY <1>5, TokensAnswerIInv
<1> QED
  BY <1>1, <1>2, <1>3, <1>4, <1>5 DEF Tokens!Next

\* ApiTokens!TypeOK.
THEOREM TokensTypeCorrect == Tokens!Spec => []Tokens!TypeOK
<1>1. TokensIInv => Tokens!TypeOK
  BY DEF TokensIInv
<1> QED
  BY <1>1, TokensInitIInv, TokensNextIInv, PTL DEF Tokens!Spec

\* ApiTokens!ListIsCurrent: every token that works is listed once all is quiet.
THEOREM TokensAreCurrent == Tokens!Spec => []Tokens!ListIsCurrent
<1>1. TokensIInv => Tokens!ListIsCurrent
  BY FreshWhenQuiet DEF TokensIInv, Tokens!ListIsCurrent
<1> QED
  BY <1>1, TokensInitIInv, TokensNextIInv, PTL DEF Tokens!Spec

-----------------------------------------------------------------------------
(***************************************************************************)
(* The Previews tab.  Only what was confirmed is asked to be destroyed.    *)
(***************************************************************************)
PreviewsIInv ==
  /\ Previews!TypeOK
  /\ \A r \in previewRequests : r.kind = "delete" => r.preview \in previewConfirmed
  /\ Numbered(previewRequests, previewAsked)
  /\ ~ previewDoubtful => Fresh(previewRequests, {"delete"}, previews, Previews!Live)

LEMMA PreviewsInitIInv == Previews!Init => PreviewsIInv
<1> SUFFICES ASSUME Previews!Init PROVE PreviewsIInv
  OBVIOUS
<1>1. previewRows \in [Names -> Previews!States]
  BY DEF Previews!Init, Previews!States
<1>2. Previews!TypeOK
  BY <1>1 DEF Previews!Init, Previews!TypeOK, Previews!Live
<1>3. previewRequests = {} /\ previewAsked = 0 /\ previews = Previews!Live
  BY DEF Previews!Init
<1> QED
  BY <1>2, <1>3 DEF PreviewsIInv, Numbered, Fresh, Lists

LEMMA PreviewsDialogIInv ==
  ASSUME PreviewsIInv,
         Previews!Cancel \/ Previews!ShowTab \/ \E n \in Names : Previews!OpenDialog(n)
  PROVE  PreviewsIInv'
<1>1. UNCHANGED <<previewRows, previews, previewRequests, previewAsked, previewConfirmed, previewDoubtful>>
  BY DEF Previews!Cancel, Previews!ShowTab, Previews!OpenDialog
<1>2. Previews!TypeOK'
  BY DEF PreviewsIInv, Previews!TypeOK, Previews!Cancel, Previews!ShowTab, Previews!OpenDialog
<1> QED
  BY <1>1, <1>2 DEF PreviewsIInv, Previews!Live

LEMMA PreviewsSendIInv ==
  ASSUME PreviewsIInv, Previews!HandleDelete
  PROVE  PreviewsIInv'
<1> DEFINE s == [kind |-> "delete", id |-> previewAsked + 1, preview |-> dialog, state |-> "sent", data |-> {}]
<1>1. /\ previewRequests' = previewRequests \cup {s} /\ previewAsked' = previewAsked + 1
      /\ s \in Previews!Request /\ s.id = previewAsked + 1 /\ s.kind \notin {"list", "reload"}
      /\ s.preview = dialog /\ previewAsked \in Nat
  BY DEF PreviewsIInv, Previews!TypeOK, Previews!HandleDelete, Previews!Send, Previews!Request
<1> HIDE DEF s
<1>2. UNCHANGED <<previewRows, previews, previewDoubtful>> /\ previewConfirmed' = previewConfirmed \cup {dialog}
  BY DEF Previews!HandleDelete
<1>3. (previewRequests \subseteq Previews!Request)' /\ previewAsked' \in Nat
  BY <1>1 DEF PreviewsIInv, Previews!TypeOK
<1>4. Previews!TypeOK'
  BY <1>2, <1>3 DEF PreviewsIInv, Previews!TypeOK, Previews!HandleDelete
<1>5. (\A r \in previewRequests : r.kind = "delete" => r.preview \in previewConfirmed)'
  BY <1>1, <1>2 DEF PreviewsIInv
<1>6. Numbered(previewRequests, previewAsked)'
  BY <1>1, NumberedSend DEF PreviewsIInv
<1>7. (~ previewDoubtful => Fresh(previewRequests, {"delete"}, previews, Previews!Live))'
  BY <1>1, <1>2, FreshSend DEF PreviewsIInv, Previews!Live
<1> QED
  BY <1>4, <1>5, <1>6, <1>7 DEF PreviewsIInv

LEMMA PreviewsServeIInv ==
  ASSUME PreviewsIInv, NEW r \in previewRequests, Previews!Serve(r)
  PROVE  PreviewsIInv'
<1>1. PICK state \in Outcomes :
        /\ previewRows' = IF state # "refused" /\ r.kind = "delete"
                          THEN [previewRows EXCEPT ![r.preview] = "gone"] ELSE previewRows
        /\ previewRequests' = Instead(previewRequests, r, [r EXCEPT !.state = state,
                 !.data = IF r.kind = "reload" /\ state = "ok" THEN Previews!Live ELSE {}])
  BY DEF Previews!Serve, Previews!Outcomes, Outcomes, Previews!Instead, Instead
<1> DEFINE s == [r EXCEPT !.state = state,
                 !.data = IF r.kind = "reload" /\ state = "ok" THEN Previews!Live ELSE {}]
<1>2. UNCHANGED <<previews, previewTabShown, dialog, deleting, previewAsked, previewConfirmed, elsewhere,
                  previewDoubtful>>
  BY DEF Previews!Serve
<1>3. r \in Previews!Request /\ previewAsked \in Nat
  BY DEF PreviewsIInv, Previews!TypeOK
<1>4. /\ s \in Previews!Request /\ s.id = r.id /\ s.kind = r.kind /\ s.state = state
      /\ s.preview = r.preview
      /\ r.kind = "reload" /\ state = "ok" => s.data = Previews!Live
  <2>1. Previews!Live \in SUBSET Names
    BY DEF Previews!Live
  <2> QED
    BY <1>3, <2>1 DEF Previews!Request, Outcomes, Previews!Outcomes
<1>5. previewRows' \in [Names -> Previews!States]
  BY <1>1 DEF PreviewsIInv, Previews!TypeOK, Previews!States
<1> HIDE DEF s
<1>6. Previews!TypeOK'
  BY <1>1, <1>2, <1>4, <1>5 DEF PreviewsIInv, Previews!TypeOK, Instead, s
<1>7. (\A q \in previewRequests : q.kind = "delete" => q.preview \in previewConfirmed)'
  BY <1>1, <1>2, <1>4 DEF PreviewsIInv, Instead, s
<1>8. Numbered(previewRequests, previewAsked)'
  BY <1>1, <1>2, <1>3, <1>4, NumberedServe DEF PreviewsIInv, s
<1>9. (~ previewDoubtful => Fresh(previewRequests, {"delete"}, previews, Previews!Live))'
  <2>1. \/ r.kind \in {"delete"} /\ CarriedOut(s)
        \/ r.kind \notin {"list", "reload"} /\ Previews!Live' = Previews!Live /\ ~ CarriedOut(r)
        \/ /\ r.kind \in {"list", "reload"} /\ Previews!Live' = Previews!Live
           /\ s.state = "ok" => s.data = Previews!Live
    BY <1>1, <1>3, <1>4 DEF CarriedOut, Previews!Request, Previews!Serve, Outcomes, Previews!Live
  <2>2. ~ previewDoubtful => Fresh(Instead(previewRequests, r, s), {"delete"}, previews, Previews!Live')
    BY <1>3, <1>4, <2>1, FreshServed DEF PreviewsIInv
  <2> QED
    BY <1>1, <1>2, <2>2 DEF s
<1> QED
  BY <1>6, <1>7, <1>8, <1>9 DEF PreviewsIInv

LEMMA PreviewsAnswerIInv ==
  ASSUME PreviewsIInv, NEW r \in previewRequests, Previews!Deleted(r) \/ Previews!Reloaded(r)
  PROVE  PreviewsIInv'
<1> DEFINE l == [kind |-> "reload", id |-> previewAsked + 1, preview |-> NoName, state |-> "sent", data |-> {}]
<1>1. /\ r \in Previews!Request /\ previewAsked \in Nat /\ Numbered(previewRequests, previewAsked)
      /\ \A q \in previewRequests : q \in Previews!Request
  BY DEF PreviewsIInv, Previews!TypeOK
<1>2. l \in Previews!Request /\ l.id = previewAsked + 1 /\ l.kind = "reload" /\ l.state = "sent"
  BY <1>1 DEF Previews!Request
<1> HIDE DEF l
<1>3. CASE Previews!Reloaded(r)
  <2>1. Previews!TypeOK'
    BY <1>1, <1>3 DEF PreviewsIInv, Previews!TypeOK, Previews!Reloaded, Previews!Request
  <2>2. Numbered(previewRequests, previewAsked)'
    BY <1>1, <1>3, NumberedDrop DEF Previews!Reloaded
  <2>3. (~ previewDoubtful => Fresh(previewRequests, {"delete"}, previews, Previews!Live))'
    <3> SUFFICES ASSUME ~ previewDoubtful'
                 PROVE  Fresh(previewRequests \ {r}, {"delete"}, r.data, Previews!Live)
      BY <1>3 DEF Previews!Reloaded, Previews!Live
    <3>1. /\ r.kind = "reload" /\ r.state = "ok" /\ ~ previewDoubtful
          /\ ~ \E o \in previewRequests : o.kind = r.kind /\ o.id < r.id
      BY <1>3 DEF Previews!Reloaded
    <3>2. \A o \in Lists(previewRequests) : o.kind = r.kind
      BY <1>1, <3>1 DEF Lists, Previews!Request
    <3> QED
      BY <1>1, <3>1, <3>2, FreshArrived DEF PreviewsIInv
  <2> QED
    BY <1>3, <2>1, <2>2, <2>3 DEF PreviewsIInv, Previews!Reloaded
<1>4. CASE Previews!Deleted(r)
  <2>1. /\ r.kind = "delete" /\ r.state # "sent"
        /\ UNCHANGED <<previewRows, previews, previewConfirmed>>
        /\ previewDoubtful' = (previewDoubtful \/ r.state = "lost")
    BY <1>4 DEF Previews!Deleted
  <2>2. \/ previewRequests' = (previewRequests \ {r}) \cup {l} /\ previewAsked' = previewAsked + 1
        \/ previewRequests' = previewRequests \ {r} /\ previewAsked' = previewAsked /\ r.state # "ok"
    BY <1>4 DEF Previews!Deleted, Previews!Send, l
  <2>3. (previewRequests \subseteq Previews!Request)' /\ previewAsked' \in Nat
    BY <1>1, <1>2, <2>2
  <2>4. Previews!TypeOK'
    BY <1>4, <2>3 DEF PreviewsIInv, Previews!TypeOK, Previews!Deleted
  <2>5. (\A q \in previewRequests : q.kind = "delete" => q.preview \in previewConfirmed)'
    BY <1>2, <2>1, <2>2 DEF PreviewsIInv
  <2>6. Numbered(previewRequests, previewAsked)'
    BY <1>1, <1>2, <2>2, NumberedAnswered
  <2>7. (~ previewDoubtful => Fresh(previewRequests, {"delete"}, previews, Previews!Live))'
    <3>1. \/ previewRequests' = (previewRequests \ {r}) \cup {l}
          \/ previewRequests' = previewRequests \ {r} /\ (~ CarriedOut(r) \/ previewDoubtful')
      BY <1>1, <2>1, <2>2 DEF CarriedOut, Previews!Request, Previews!Outcomes
    <3>2. ~ previewDoubtful' => Fresh(previewRequests', {"delete"}, previews, Previews!Live)
      BY <1>1, <1>2, <2>1, <3>1, FreshAnswered DEF PreviewsIInv
    <3> QED
      BY <2>1, <3>2 DEF Previews!Live
  <2> QED
    BY <2>4, <2>5, <2>6, <2>7 DEF PreviewsIInv
<1> QED
  BY <1>3, <1>4

LEMMA PreviewsNextIInv == PreviewsIInv /\ [Previews!Next]_(Previews!vars) => PreviewsIInv'
<1> SUFFICES ASSUME PreviewsIInv, [Previews!Next]_(Previews!vars) PROVE PreviewsIInv'
  OBVIOUS
<1>1. CASE UNCHANGED Previews!vars
  BY <1>1 DEF PreviewsIInv, Previews!TypeOK, Previews!vars, Previews!Live
<1>2. CASE Previews!Cancel \/ Previews!ShowTab \/ \E n \in Names : Previews!OpenDialog(n)
  BY <1>2, PreviewsDialogIInv
<1>3. CASE Previews!HandleDelete
  BY <1>3, PreviewsSendIInv
<1>4. CASE \E n \in Names : Previews!Job(n)
  BY <1>4 DEF PreviewsIInv, Previews!TypeOK, Previews!Job, Previews!States
<1>5. CASE \E r \in previewRequests : Previews!Serve(r)
  BY <1>5, PreviewsServeIInv
<1>6. CASE \E r \in previewRequests : Previews!Deleted(r) \/ Previews!Reloaded(r)
  BY <1>6, PreviewsAnswerIInv
<1> QED
  BY <1>1, <1>2, <1>3, <1>4, <1>5, <1>6 DEF Previews!Next

\* PreviewsTab!TypeOK.
THEOREM PreviewsTypeCorrect == Previews!Spec => []Previews!TypeOK
<1>1. PreviewsIInv => Previews!TypeOK
  BY DEF PreviewsIInv
<1> QED
  BY <1>1, PreviewsInitIInv, PreviewsNextIInv, PTL DEF Previews!Spec

\* PreviewsTab!ListIsCurrent: the rows are the live previews once all is quiet.
THEOREM PreviewsAreCurrent == Previews!Spec => []Previews!ListIsCurrent
<1>1. PreviewsIInv => Previews!ListIsCurrent
  BY FreshWhenQuiet DEF PreviewsIInv, Previews!ListIsCurrent
<1> QED
  BY <1>1, PreviewsInitIInv, PreviewsNextIInv, PTL DEF Previews!Spec

\* PreviewsTab!DestroysWhatWasConfirmed: a live preview is destroyed only if its
\* dialog was confirmed, or by a job.
THEOREM DestructionsConfirmed == Previews!Spec => Previews!DestroysWhatWasConfirmed
<1>1. PreviewsIInv /\ [Previews!Next]_(Previews!vars)
      => [\A n \in Names : previewRows[n] = "live" /\ previewRows'[n] # "live"
            => n \in previewConfirmed \cup elsewhere']_(Previews!vars)
  <2> SUFFICES ASSUME PreviewsIInv, Previews!Next, NEW n \in Names,
                      previewRows[n] = "live", previewRows'[n] # "live"
               PROVE  n \in previewConfirmed \cup elsewhere'
    BY DEF Previews!vars
  <2>1. CASE previewRows' = previewRows
    BY <2>1
  <2>2. CASE \E m \in Names : Previews!Job(m)
    BY <2>2 DEF Previews!Job, PreviewsIInv, Previews!TypeOK
  <2>3. CASE \E r \in previewRequests : Previews!Serve(r)
    BY <2>3 DEF Previews!Serve, PreviewsIInv, Previews!TypeOK
  <2> QED
    BY <2>1, <2>2, <2>3 DEF Previews!Next, Previews!Cancel, Previews!HandleDelete, Previews!ShowTab,
       Previews!OpenDialog, Previews!Deleted, Previews!Reloaded
<1> QED
  BY <1>1, PreviewsInitIInv, PreviewsNextIInv, PTL DEF Previews!Spec, Previews!DestroysWhatWasConfirmed

-----------------------------------------------------------------------------
(***************************************************************************)
(* The Deployments tab.  Of a reload, the proof looks at what it says of   *)
(* the connection.                                                         *)
(***************************************************************************)
Connection == [r \in Deploys!Request |->
  [id |-> r.id, kind |-> r.kind, state |-> r.state, data |-> r.app.connected]]
ConnectionChanges == {"connect", "disconnect"}

\* As long as nothing went wrong: one connection is made at a time, by a tab that
\* still waits for it, and brings the secret it made; a secret that is shown and was
\* replaced is about to be shown no more.
OneConnection ==
  \A r \in deploysRequests : r.kind = "connect" =>
    /\ connecting /\ r.heard
    /\ \A o \in deploysRequests : o.kind = "connect" => o = r
    /\ IF r.state \in {"ok", "lost"} THEN r.secret = secret \/ secret = 0 ELSE r.secret = 0
ShownOrComing ==
  webhookSecret # 0 /\ secret # 0 =>
    webhookSecret = secret \/ \E r \in deploysRequests : r.kind = "connect" /\ CarriedOut(r)

SecretComes ==
  /\ connected <=> secret # 0
  /\ ~ deploysDoubtful => OneConnection /\ ShownOrComing

\* A reload is granted.
ReloadsGranted == \A r \in deploysRequests : r.kind = "reload" => r.state # "refused"

DeploysIInv ==
  /\ Deploys!TypeOK
  /\ ReloadsGranted
  /\ Numbered(deploysRequests, deploysAsked)
  /\ SecretComes
  /\ ~ deploysDoubtful =>
       Fresh(Image(Connection, deploysRequests), ConnectionChanges, deploysApp.connected, connected)

LEMMA ConnectionKeepsIds == KeepsIds(Connection, Deploys!Request)
BY DEF KeepsIds, Connection

LEMMA ConnectionFields ==
  ASSUME NEW r \in Deploys!Request
  PROVE  /\ Connection[r].id = r.id /\ Connection[r].kind = r.kind
         /\ Connection[r].state = r.state /\ Connection[r].data = r.app.connected
         /\ CarriedOut(Connection[r]) <=> CarriedOut(r)
BY DEF Connection, CarriedOut

LEMMA DeploysInitIInv == Deploys!Init => DeploysIInv
<1> SUFFICES ASSUME Deploys!Init PROVE DeploysIInv
  OBVIOUS
<1>1. Deploys!TypeOK
  BY DEF Deploys!Init, Deploys!TypeOK, Deploys!App
<1>2. deploysRequests = {} /\ deploysAsked = 0 /\ deploysApp.connected = connected
  BY DEF Deploys!Init
<1>3. SecretComes /\ ReloadsGranted
  BY DEF Deploys!Init, SecretComes, OneConnection, ShownOrComing, ReloadsGranted
<1>4. Image(Connection, deploysRequests) = {}
  BY <1>2 DEF Image
<1> QED
  BY <1>1, <1>2, <1>3, <1>4 DEF DeploysIInv, Numbered, Fresh, Lists

\* What a request that is sent leaves as it was.
LEMMA DeploysSent ==
  ASSUME DeploysIInv, NEW kind \in {"connect", "disconnect", "deploy", "rollback"}, NEW row \in Nat,
         Deploys!Send(kind, row), UNCHANGED <<connected, deploysApp, deploysDoubtful>>
  PROVE  /\ (deploysRequests \subseteq Deploys!Request)' /\ deploysAsked' \in Nat
         /\ Numbered(deploysRequests, deploysAsked)'
         /\ (~ deploysDoubtful => Fresh(Image(Connection, deploysRequests), ConnectionChanges,
                                        deploysApp.connected, connected))'
<1> DEFINE s == Deploys!New(kind, row)
<1>1. deploysAsked' = deploysAsked + 1 /\ deploysRequests' = deploysRequests \cup {s}
  BY DEF Deploys!Send
<1>2. deploysRequests \subseteq Deploys!Request /\ deploysAsked \in Nat /\ deploysApp \in Deploys!App
  BY DEF DeploysIInv, Deploys!TypeOK
<1>3. s \in Deploys!Request /\ s.id = deploysAsked + 1 /\ s.kind = kind /\ s.state = "sent"
  BY <1>2 DEF Deploys!New, Deploys!Request
<1> HIDE DEF s
<1>4. Numbered(deploysRequests, deploysAsked)'
  BY <1>1, <1>2, <1>3, NumberedSend DEF DeploysIInv
<1>5. Image(Connection, deploysRequests)' = Image(Connection, deploysRequests) \cup {Connection[s]}
  <2>1. Connection' = Connection
    BY DEF Connection
  <2> QED
    BY <1>1, <2>1, ImageOfNew DEF Image
<1>6. Connection[s].kind \notin {"list", "reload"}
  BY <1>3, ConnectionFields
<1>7. (~ deploysDoubtful => Fresh(Image(Connection, deploysRequests), ConnectionChanges,
                                  deploysApp.connected, connected))'
  <2>1. ~ deploysDoubtful => Fresh(Image(Connection, deploysRequests) \cup {Connection[s]}, ConnectionChanges,
                                   deploysApp.connected, connected)
    BY <1>6, FreshSend DEF DeploysIInv
  <2> QED
    BY <1>5, <2>1 DEF ConnectionChanges
<1> QED
  BY <1>1, <1>2, <1>3, <1>4, <1>7

LEMMA DeploysUserIInv ==
  ASSUME DeploysIInv,
         \/ Deploys!TypeRepo \/ Deploys!HandleConnect \/ Deploys!HandleDisconnect
         \/ Deploys!HandleDeployFromGit \/ Deploys!HandleRollback \/ Deploys!DeployDone
         \/ \E d \in Deploys!CanRollback \cup {0} : Deploys!SetConfirmId(d)
  PROVE  DeploysIInv'
<1> USE DEF Deploys!panel, Deploys!card, Deploys!table
<1>1. CASE \/ Deploys!TypeRepo \/ Deploys!DeployDone
           \/ \E d \in Deploys!CanRollback \cup {0} : Deploys!SetConfirmId(d)
  <2>1. UNCHANGED <<deploysRequests, deploysAsked, connected, secret, deploysMade, deploysApp, webhookSecret,
                    connecting, deploysTabShown, disconnecting, deploysDeploying, rollingBack, deploysDoubtful>>
    BY <1>1 DEF Deploys!TypeRepo, Deploys!DeployDone, Deploys!SetConfirmId
  <2>2. repo' \in BOOLEAN /\ confirmId' \in Nat /\ deployments' \in Nat
    <3>1. confirmId \in Nat /\ deployments \in Nat /\ repo \in BOOLEAN /\ deploysApp.deployments \in Nat
      BY DEF DeploysIInv, Deploys!TypeOK, Deploys!App
    <3>2. CASE Deploys!TypeRepo
      BY <3>1, <3>2 DEF Deploys!TypeRepo
    <3>3. CASE Deploys!DeployDone
      BY <3>1, <3>3 DEF Deploys!DeployDone
    <3>4. CASE \E d \in Deploys!CanRollback \cup {0} : Deploys!SetConfirmId(d)
      BY <3>1, <3>4 DEF Deploys!SetConfirmId, Deploys!CanRollback, Deploys!ActiveDeployment
    <3> QED
      BY <1>1, <3>2, <3>3, <3>4
  <2>3. Deploys!TypeOK'
    BY <1>1, <2>1, <2>2 DEF DeploysIInv, Deploys!TypeOK, Deploys!TypeRepo, Deploys!DeployDone,
       Deploys!SetConfirmId
  <2>4. (SecretComes /\ ReloadsGranted)'
    BY <2>1 DEF DeploysIInv, SecretComes, OneConnection, ShownOrComing, ReloadsGranted
  <2> QED
    BY <2>1, <2>4, <2>3 DEF DeploysIInv, Connection
<1>2. CASE Deploys!HandleConnect \/ Deploys!HandleDisconnect \/ Deploys!HandleDeployFromGit
           \/ Deploys!HandleRollback
  <2>1. PICK kind \in {"connect", "disconnect", "deploy", "rollback"}, row \in Nat :
          /\ Deploys!Send(kind, row)
          /\ kind = "connect" => ~ connecting /\ connecting'
          /\ kind # "connect" => UNCHANGED connecting
          /\ rollingBack' \in Nat
    BY <1>2 DEF DeploysIInv, Deploys!TypeOK, Deploys!HandleConnect, Deploys!HandleDisconnect,
       Deploys!HandleDeployFromGit, Deploys!HandleRollback, Deploys!CanRollback
  <2>2. UNCHANGED <<connected, secret, deploysMade, deployments, deploysApp, deploysTabShown, webhookSecret,
                    deploysDoubtful, repo>>
    BY <1>2 DEF Deploys!HandleConnect, Deploys!HandleDisconnect, Deploys!HandleDeployFromGit,
       Deploys!HandleRollback
  <2>3. /\ (deploysRequests \subseteq Deploys!Request)' /\ deploysAsked' \in Nat
        /\ Numbered(deploysRequests, deploysAsked)'
        /\ (~ deploysDoubtful => Fresh(Image(Connection, deploysRequests), ConnectionChanges,
                                       deploysApp.connected, connected))'
    BY <2>1, <2>2, DeploysSent
  <2> DEFINE s == Deploys!New(kind, row)
  <2>4. /\ deploysRequests' = deploysRequests \cup {s}
        /\ s.kind = kind /\ s.heard /\ s.state = "sent" /\ s.secret = 0
    BY <2>1 DEF Deploys!Send, Deploys!New
  <2> HIDE DEF s
  <2>5. rollingBack' \in Nat /\ connecting' \in BOOLEAN
    BY <2>1 DEF DeploysIInv, Deploys!TypeOK
  <2>6. disconnecting' \in BOOLEAN
    BY <1>2 DEF DeploysIInv, Deploys!TypeOK, Deploys!HandleConnect, Deploys!HandleDisconnect,
       Deploys!HandleDeployFromGit, Deploys!HandleRollback
  <2>7. deploysDeploying' \in BOOLEAN
    BY <1>2 DEF DeploysIInv, Deploys!TypeOK, Deploys!HandleConnect, Deploys!HandleDisconnect,
       Deploys!HandleDeployFromGit, Deploys!HandleRollback
  <2>8. confirmId' \in Nat
    BY <1>2 DEF DeploysIInv, Deploys!TypeOK, Deploys!HandleConnect, Deploys!HandleDisconnect,
       Deploys!HandleDeployFromGit, Deploys!HandleRollback
  <2>9. Deploys!TypeOK'
    BY <2>2, <2>3, <2>5, <2>6, <2>7, <2>8 DEF DeploysIInv, Deploys!TypeOK
  <2>10. ReloadsGranted'
    BY <2>1, <2>4 DEF DeploysIInv, ReloadsGranted
  <2>11. SecretComes'
    BY <2>1, <2>2, <2>4 DEF DeploysIInv, SecretComes, OneConnection, ShownOrComing, CarriedOut
  <2> QED
    BY <2>3, <2>9, <2>10, <2>11 DEF DeploysIInv
<1> QED
  BY <1>1, <1>2

\* Who still waits for an answer changes nothing of what the proof looks at.
Unheard(rs) == {[r EXCEPT !.heard = FALSE] : r \in rs}

LEMMA DeploysHushed ==
  ASSUME NEW rs \in SUBSET Deploys!Request, NEW n \in Nat, Numbered(rs, n)
  PROVE  /\ Unheard(rs) \subseteq Deploys!Request /\ Numbered(Unheard(rs), n)
         /\ Image(Connection, Unheard(rs)) = Image(Connection, rs)
         /\ \A h \in Unheard(rs) : \E r \in rs : h.kind = r.kind /\ h.state = r.state
<1> DEFINE H(r) == [r EXCEPT !.heard = FALSE]
<1>1. \A r \in rs : /\ H(r) \in Deploys!Request /\ H(r).id = r.id /\ H(r).kind = r.kind
                     /\ H(r).state = r.state /\ H(r).app = r.app
  BY DEF Deploys!Request
<1>2. \A r \in rs : Connection[H(r)] = Connection[r]
  BY <1>1 DEF Connection
<1> HIDE DEF H
<1>3. Unheard(rs) = {H(r) : r \in rs}
  BY DEF H, Unheard
<1>4. Numbered(Unheard(rs), n)
  BY <1>1, <1>3 DEF Numbered
<1>5. Image(Connection, Unheard(rs)) = Image(Connection, rs)
  BY <1>2, <1>3 DEF Image
<1> QED
  BY <1>1, <1>3, <1>4, <1>5

LEMMA DeploysLeaveIInv ==
  ASSUME DeploysIInv, Deploys!Leave \/ Deploys!Enter
  PROVE  DeploysIInv'
<1> USE DEF Deploys!panel, Deploys!card, Deploys!table
<1>1. Connection' = Connection /\ ConnectionChanges' = ConnectionChanges
  BY DEF Connection, ConnectionChanges
<1>2. CASE Deploys!Enter
  <2>1. Deploys!TypeOK'
    BY <1>2 DEF Deploys!Enter, DeploysIInv, Deploys!TypeOK, Deploys!App
  <2>2. UNCHANGED <<deploysRequests, deploysAsked, connected, secret, deploysApp, webhookSecret, connecting,
                    deploysDoubtful>>
    BY <1>2 DEF Deploys!Enter
  <2>3. (SecretComes /\ ReloadsGranted)'
    BY <2>2 DEF DeploysIInv, SecretComes, OneConnection, ShownOrComing, ReloadsGranted
  <2> QED
    BY <1>1, <2>1, <2>2, <2>3 DEF DeploysIInv, Image
<1>3. CASE Deploys!Leave
  <2>1. /\ deploysRequests' = Unheard(deploysRequests)
        /\ deploysDoubtful' = (deploysDoubtful \/ connecting) /\ webhookSecret' = 0
        /\ UNCHANGED <<deploysAsked, connected, secret, deploysMade, deployments, deploysApp>>
        /\ deploysTabShown' = FALSE /\ repo' = FALSE /\ confirmId' = 0 /\ rollingBack' = 0
        /\ connecting' = FALSE /\ disconnecting' = FALSE /\ deploysDeploying' = FALSE
    BY <1>3 DEF Deploys!Leave, Unheard
  <2>2. deploysRequests \subseteq Deploys!Request /\ deploysAsked \in Nat /\ Numbered(deploysRequests, deploysAsked)
    BY DEF DeploysIInv, Deploys!TypeOK
  <2>3. /\ deploysRequests' \subseteq Deploys!Request /\ Numbered(deploysRequests', deploysAsked)
        /\ Image(Connection, deploysRequests') = Image(Connection, deploysRequests)
        /\ \A h \in deploysRequests' : \E r \in deploysRequests : h.kind = r.kind /\ h.state = r.state
    BY <2>1, <2>2, DeploysHushed
  <2>4. Deploys!TypeOK'
    BY <2>1, <2>3 DEF DeploysIInv, Deploys!TypeOK
  <2>5. ReloadsGranted'
    BY <2>3 DEF DeploysIInv, ReloadsGranted
  <2>6. SecretComes'
    BY <2>1, <2>3 DEF DeploysIInv, SecretComes, OneConnection, ShownOrComing
  <2>7. (~ deploysDoubtful => Fresh(Image(Connection, deploysRequests), ConnectionChanges,
                                    deploysApp.connected, connected))'
    BY <1>1, <2>1, <2>3 DEF DeploysIInv, Image
  <2> QED
    BY <2>1, <2>3, <2>4, <2>5, <2>6, <2>7 DEF DeploysIInv, Numbered
<1> QED
  BY <1>2, <1>3

LEMMA DeploysServeIInv ==
  ASSUME DeploysIInv, NEW r \in deploysRequests, Deploys!Serve(r)
  PROVE  DeploysIInv'
<1> USE DEF Deploys!panel, Deploys!card, Deploys!table
<1>1. /\ r \in Deploys!Request /\ deploysRequests \subseteq Deploys!Request /\ deploysAsked \in Nat
      /\ deploysMade \in Nat /\ connected \in BOOLEAN /\ deployments \in Nat /\ secret \in Nat
  BY DEF DeploysIInv, Deploys!TypeOK
<1>2. UNCHANGED <<deploysAsked, deploysApp, deploysTabShown, repo, webhookSecret, connecting, disconnecting, deploysDeploying,
                  confirmId, rollingBack, deploysDoubtful>>
  BY DEF Deploys!Serve, Deploys!GithubConnect, Deploys!GithubDisconnect, Deploys!GithubDeployOrRollback,
     Deploys!Refused, Deploys!Reload
<1>3. PICK s \in Deploys!Request :
        /\ deploysRequests' = Instead(deploysRequests, r, s)
        /\ s.id = r.id /\ s.kind = r.kind /\ s.heard = r.heard /\ r.state = "sent" /\ s.state # "sent"
        /\ s.secret = IF r.kind = "connect" /\ s.state # "refused" THEN secret' ELSE r.secret
        /\ r.kind = "reload" => s.state # "refused" /\ (s.state = "ok" => s.app.connected = connected)
        /\ \/ r.kind = "connect" /\ s.state # "refused" /\ connected' = TRUE /\ secret' \in Nat \ {0}
           \/ r.kind = "disconnect" /\ s.state # "refused" /\ connected' = FALSE /\ secret' = 0
           \/ (r.kind \in ConnectionChanges => s.state = "refused") /\ UNCHANGED <<connected, secret>>
        /\ deploysMade' \in Nat /\ deployments' \in Nat
  <2> USE DEF Instead, Deploys!Instead, Outcomes, Deploys!Outcomes
  <2>1. CASE Deploys!GithubConnect(r)
    <3>1. PICK state \in {"ok", "lost"} :
            deploysRequests' = Deploys!Instead(deploysRequests, r, [r EXCEPT !.state = state, !.secret = secret'])
      BY <2>1 DEF Deploys!GithubConnect
    <3> DEFINE s == [r EXCEPT !.state = state, !.secret = secret']
    <3>2. secret' = deploysMade + 1 /\ deploysMade' = deploysMade + 1 /\ connected' /\ UNCHANGED deployments
      BY <2>1 DEF Deploys!GithubConnect
    <3>3. secret' \in Nat \ {0} /\ deploysMade' \in Nat
      BY <1>1, <3>2
    <3>4. s \in Deploys!Request /\ s.state = state /\ s.secret = secret' /\ s.id = r.id /\ s.kind = r.kind /\ s.heard = r.heard
      BY <1>1, <3>3 DEF Deploys!Request
    <3>5. r.kind = "connect" /\ r.state = "sent"
      BY <2>1 DEF Deploys!GithubConnect
    <3> HIDE DEF s
    <3>6. deploysRequests' = Instead(deploysRequests, r, s)
      BY <3>1 DEF s
    <3> QED
      BY <1>1, <3>2, <3>3, <3>4, <3>5, <3>6
  <2>2. CASE Deploys!Reload(r)
    <3>1. PICK state \in {"ok", "lost"} :
            deploysRequests' = Deploys!Instead(deploysRequests, r,
              [r EXCEPT !.state = state,
                        !.app = IF state = "ok" THEN [connected |-> connected, deployments |-> deployments] ELSE @])
      BY <2>2 DEF Deploys!Reload
    <3> DEFINE s == [r EXCEPT !.state = state,
                    !.app = IF state = "ok" THEN [connected |-> connected, deployments |-> deployments] ELSE @]
    <3>2. s \in Deploys!Request /\ s.state = state /\ (state = "ok" => s.app.connected = connected)
          /\ s.secret = r.secret /\ s.id = r.id /\ s.kind = r.kind /\ s.heard = r.heard
      BY <1>1 DEF Deploys!Request, Deploys!App
    <3>3. r.kind = "reload" /\ r.state = "sent" /\ UNCHANGED <<connected, secret, deploysMade, deployments>>
      BY <2>2 DEF Deploys!Reload
    <3> HIDE DEF s
    <3>4. deploysRequests' = Instead(deploysRequests, r, s)
      BY <3>1 DEF s
    <3> QED
      BY <1>1, <3>2, <3>3, <3>4 DEF ConnectionChanges
  <2>3. CASE Deploys!GithubDisconnect(r) \/ Deploys!GithubDeployOrRollback(r) \/ Deploys!Refused(r)
    <3>1. PICK state \in {"ok", "refused", "lost"} :
            /\ deploysRequests' = Deploys!Instead(deploysRequests, r, [r EXCEPT !.state = state])
            /\ r.kind # "reload" /\ (r.kind = "connect" => state = "refused") /\ r.state = "sent"
            /\ \/ r.kind = "disconnect" /\ state # "refused" /\ connected' = FALSE /\ secret' = 0
               \/ (r.kind \in ConnectionChanges => state = "refused") /\ UNCHANGED <<connected, secret>>
      <4>1. CASE Deploys!GithubDisconnect(r)
        BY <4>1 DEF Deploys!GithubDisconnect
      <4>2. CASE Deploys!GithubDeployOrRollback(r)
        BY <4>2 DEF Deploys!GithubDeployOrRollback, ConnectionChanges
      <4>3. CASE Deploys!Refused(r)
        BY <4>3 DEF Deploys!Refused
      <4> QED
        BY <2>3, <4>1, <4>2, <4>3
    <3> DEFINE s == [r EXCEPT !.state = state]
    <3>2. s \in Deploys!Request /\ s.state = state
          /\ s.secret = r.secret /\ s.id = r.id /\ s.kind = r.kind /\ s.heard = r.heard
      BY <1>1 DEF Deploys!Request
    <3>3. deploysMade' \in Nat /\ deployments' \in Nat
      BY <1>1, <2>3 DEF Deploys!GithubDisconnect, Deploys!GithubDeployOrRollback, Deploys!Refused
    <3> HIDE DEF s
    <3>4. deploysRequests' = Instead(deploysRequests, r, s)
      BY <3>1 DEF s
    <3> QED
      BY <1>1, <3>1, <3>2, <3>3, <3>4
  <2> QED
    BY <2>1, <2>2, <2>3 DEF Deploys!Serve
<1>4. Deploys!TypeOK'
  <2>1. (deploysRequests \subseteq Deploys!Request)'
    BY <1>1, <1>3 DEF Instead
  <2>2. connected' \in BOOLEAN
    BY <1>1, <1>3
  <2>3. secret' \in Nat
    BY <1>1, <1>3
  <2> QED
    BY <1>2, <1>3, <2>1, <2>2, <2>3 DEF DeploysIInv, Deploys!TypeOK
<1>5. Numbered(deploysRequests, deploysAsked)'
  BY <1>1, <1>2, <1>3, NumberedServe DEF DeploysIInv
<1>6. ReloadsGranted'
  BY <1>2, <1>3 DEF DeploysIInv, ReloadsGranted, Instead
<1>7. SecretComes'
  <2>1. (connected <=> secret # 0)'
    BY <1>3 DEF DeploysIInv, SecretComes
  <2> SUFFICES ASSUME ~ deploysDoubtful PROVE OneConnection' /\ ShownOrComing'
    BY <1>2, <2>1 DEF SecretComes
  <2>2. /\ r.kind = "connect" => connecting /\ r.heard /\ r.secret = 0
        /\ \A o \in deploysRequests : o.kind = "connect" /\ r.kind = "connect" => o = r
    BY <1>3 DEF DeploysIInv, SecretComes, OneConnection
  <2>3. OneConnection'
    BY <1>1, <1>2, <1>3, <2>2 DEF DeploysIInv, SecretComes, OneConnection, Instead, ConnectionChanges,
       Deploys!Request, Deploys!Outcomes
  <2>4. ShownOrComing'
    <3>1. CASE r.kind = "connect" /\ s.state # "refused"
      BY <1>3, <3>1 DEF ShownOrComing, CarriedOut, Instead
    <3>2. CASE secret' = 0
      BY <3>2 DEF ShownOrComing
    <3>3. CASE UNCHANGED secret
      BY <1>2, <1>3, <3>3 DEF DeploysIInv, SecretComes, ShownOrComing, CarriedOut, Instead
    <3> QED
      BY <1>3, <3>1, <3>2, <3>3
  <2> QED
    BY <2>3, <2>4
<1>8. (~ deploysDoubtful => Fresh(Image(Connection, deploysRequests), ConnectionChanges,
                                  deploysApp.connected, connected))'
  <2> SUFFICES ASSUME ~ deploysDoubtful
               PROVE  Fresh(Image(Connection, deploysRequests)', ConnectionChanges, deploysApp.connected, connected')
    BY <1>2 DEF ConnectionChanges
  <2> DEFINE rs == Image(Connection, deploysRequests)
             p == Connection[r]
             q == Connection[s]
  <2>1. Image(Connection, deploysRequests)' = Instead(rs, p, q)
    <3>1. Connection' = Connection
      BY DEF Connection
    <3>2. Image(Connection, deploysRequests)' = Image(Connection, deploysRequests')
      BY <3>1 DEF Image
    <3>3. Image(Connection, Instead(deploysRequests, r, s)) = Instead(rs, p, q)
      BY <1>1, ConnectionKeepsIds, ImageOfServed DEF DeploysIInv
    <3> QED
      BY <1>3, <3>2, <3>3
  <2>2. /\ p \in rs /\ q.kind = p.kind /\ q.id = p.id /\ p.kind = r.kind /\ q.state = s.state /\ p.state = r.state
        /\ q.data = s.app.connected /\ (CarriedOut(q) <=> CarriedOut(s))
    BY <1>1, <1>3, ConnectionFields DEF Image
  <2>3. Numbered(rs, deploysAsked)
    BY <1>1, ConnectionKeepsIds, ImageNumbered DEF DeploysIInv
  <2>4. Fresh(rs, ConnectionChanges, deploysApp.connected, connected)
    BY DEF DeploysIInv
  <2> HIDE DEF rs, p, q
  <2>5. \/ p.kind \in ConnectionChanges /\ CarriedOut(q)
        \/ p.kind \notin {"list", "reload"} /\ connected' = connected /\ ~ CarriedOut(p)
        \/ p.kind \in {"list", "reload"} /\ connected' = connected /\ (q.state = "ok" => q.data = connected)
    BY <1>1, <1>3, <2>2 DEF CarriedOut, Deploys!Request, ConnectionChanges
  <2> QED
    BY <1>1, <2>1, <2>2, <2>3, <2>4, <2>5, FreshServed DEF ConnectionChanges
<1> QED
  BY <1>4, <1>5, <1>6, <1>7, <1>8 DEF DeploysIInv

LEMMA DeploysAnswerIInv ==
  ASSUME DeploysIInv, NEW r \in deploysRequests, Deploys!Answer(r)
  PROVE  DeploysIInv'
<1> USE DEF Deploys!panel, Deploys!card, Deploys!table
<1> DEFINE l == Deploys!New("reload", 0)
<1>1. /\ r \in Deploys!Request /\ deploysRequests \subseteq Deploys!Request /\ deploysAsked \in Nat
      /\ Numbered(deploysRequests, deploysAsked) /\ deploysApp \in Deploys!App
  BY DEF DeploysIInv, Deploys!TypeOK
<1>2. /\ l \in Deploys!Request /\ l.id = deploysAsked + 1 /\ l.kind = "reload" /\ l.state = "sent"
  BY <1>1 DEF Deploys!New, Deploys!Request
<1> HIDE DEF l
<1>3. /\ r.state # "sent" /\ UNCHANGED <<connected, secret, deploysMade, deployments, deploysTabShown>>
      /\ \/ deploysRequests' = (deploysRequests \ {r}) \cup {l} /\ deploysAsked' = deploysAsked + 1
            /\ r.kind # "reload"
         \/ deploysRequests' = deploysRequests \ {r} /\ deploysAsked' = deploysAsked
            /\ (r.kind \in ConnectionChanges => r.state = "lost" /\ deploysDoubtful')
  BY DEF Deploys!Answer, Deploys!Connected, Deploys!Disconnected, Deploys!DeployQueued, Deploys!RolledBack,
     Deploys!Reloaded, Deploys!Then, ConnectionChanges, l
<1>4. /\ deploysDoubtful => deploysDoubtful'
      /\ r.kind # "reload" => UNCHANGED deploysApp
      /\ r.kind = "reload" => UNCHANGED <<webhookSecret, connecting>>
      /\ r.kind \notin {"connect", "disconnect"} => UNCHANGED webhookSecret
      /\ r.kind = "connect" => (~ deploysDoubtful' => webhookSecret' = IF r.heard THEN r.secret ELSE webhookSecret)
      /\ r.kind = "disconnect" => (~ deploysDoubtful' => webhookSecret' \in {0, webhookSecret})
      /\ r.kind # "connect" => UNCHANGED connecting
  BY <1>1 DEF Deploys!Answer, Deploys!Connected, Deploys!Disconnected, Deploys!DeployQueued, Deploys!RolledBack,
     Deploys!Reloaded, DeploysIInv, Deploys!TypeOK
<1>5. Numbered(deploysRequests, deploysAsked)'
  BY <1>1, <1>2, <1>3, NumberedAnswered
<1>6. Deploys!TypeOK'
  <2>1. (deploysRequests \subseteq Deploys!Request)' /\ deploysAsked' \in Nat
    BY <1>1, <1>2, <1>3
  <2>2. deploysApp' \in Deploys!App /\ webhookSecret' \in Nat
    BY <1>1 DEF Deploys!Answer, Deploys!Connected, Deploys!Disconnected, Deploys!DeployQueued,
       Deploys!RolledBack, Deploys!Reloaded, DeploysIInv, Deploys!TypeOK, Deploys!Request
  <2>3. rollingBack' \in Nat /\ confirmId' = confirmId
    BY DEF Deploys!Answer, Deploys!Connected, Deploys!Disconnected, Deploys!DeployQueued,
       Deploys!RolledBack, Deploys!Reloaded, DeploysIInv, Deploys!TypeOK
  <2>4. deploysDeploying' \in BOOLEAN /\ connecting' \in BOOLEAN
    BY DEF Deploys!Answer, Deploys!Connected, Deploys!Disconnected, Deploys!DeployQueued,
       Deploys!RolledBack, Deploys!Reloaded, DeploysIInv, Deploys!TypeOK
  <2>5. repo' \in BOOLEAN /\ disconnecting' \in BOOLEAN
    BY DEF Deploys!Answer, Deploys!Connected, Deploys!Disconnected, Deploys!DeployQueued,
       Deploys!RolledBack, Deploys!Reloaded, DeploysIInv, Deploys!TypeOK
  <2>6. deploysDoubtful' \in BOOLEAN
    BY DEF Deploys!Answer, Deploys!Connected, Deploys!Disconnected, Deploys!DeployQueued,
       Deploys!RolledBack, Deploys!Reloaded, DeploysIInv, Deploys!TypeOK
  <2> QED
    BY <1>3, <2>1, <2>2, <2>5, <2>6, <2>3, <2>4 DEF DeploysIInv, Deploys!TypeOK
<1>7. ReloadsGranted'
  BY <1>2, <1>3, <1>4 DEF DeploysIInv, ReloadsGranted
<1>8. SecretComes'
  <2>1. (connected <=> secret # 0)'
    BY <1>3 DEF DeploysIInv, SecretComes
  <2> SUFFICES ASSUME ~ deploysDoubtful' PROVE OneConnection' /\ ShownOrComing'
    BY <2>1 DEF SecretComes
  <2>2. OneConnection /\ ShownOrComing
    BY <1>4 DEF DeploysIInv, SecretComes
  <2>3. \A o \in deploysRequests' : o.kind = "connect" => o \in deploysRequests /\ o # r
    BY <1>2, <1>3
  <2>4. OneConnection'
    BY <1>3, <1>4, <2>2, <2>3 DEF OneConnection
  <2>5. ShownOrComing'
    <3>1. CASE r.kind = "connect"
      BY <1>1, <1>3, <1>4, <2>2, <3>1 DEF OneConnection, ShownOrComing, Deploys!Request, Deploys!Outcomes
    <3>2. CASE r.kind # "connect"
      BY <1>3, <1>4, <2>2, <3>2 DEF ShownOrComing
    <3> QED
      BY <3>1, <3>2
  <2> QED
    BY <2>4, <2>5
<1>9. (~ deploysDoubtful => Fresh(Image(Connection, deploysRequests), ConnectionChanges,
                                  deploysApp.connected, connected))'
  <2> SUFFICES ASSUME ~ deploysDoubtful'
               PROVE  Fresh(Image(Connection, deploysRequests)', ConnectionChanges, deploysApp.connected', connected)
    BY <1>3 DEF ConnectionChanges
  <2> DEFINE rs == Image(Connection, deploysRequests)
             p == Connection[r]
             q == Connection[l]
  <2>1. /\ p \in rs /\ p.kind = r.kind /\ p.id = r.id /\ p.state = r.state /\ p.data = r.app.connected
        /\ (CarriedOut(p) <=> CarriedOut(r))
        /\ q.kind = "reload" /\ q.id = deploysAsked + 1 /\ q.state = "sent"
    BY <1>1, <1>2, ConnectionFields DEF Image
  <2>2. Numbered(rs, deploysAsked)
    BY <1>1, ConnectionKeepsIds, ImageNumbered
  <2>3. Fresh(rs, ConnectionChanges, deploysApp.connected, connected)
    BY <1>4 DEF DeploysIInv
  <2>4. /\ deploysRequests' = (deploysRequests \ {r}) \cup {l} => Image(Connection, deploysRequests)' = (rs \ {p}) \cup {q}
        /\ deploysRequests' = deploysRequests \ {r} => Image(Connection, deploysRequests)' = rs \ {p}
    <3>1. Connection' = Connection
      BY DEF Connection
    <3>2. Image(Connection, deploysRequests)' = Image(Connection, deploysRequests')
      BY <3>1 DEF Image
    <3>3. Image(Connection, deploysRequests \ {r}) = rs \ {p}
      BY <1>1, ConnectionKeepsIds, ImageOfRest
    <3>4. Image(Connection, (deploysRequests \ {r}) \cup {l}) = Image(Connection, deploysRequests \ {r}) \cup {q}
      BY ImageOfNew
    <3> QED
      BY <3>2, <3>3, <3>4
  <2>5. CASE r.kind = "reload"
    <3>1. Deploys!Reloaded(r)
      BY <2>5 DEF Deploys!Answer, Deploys!Connected, Deploys!Disconnected, Deploys!DeployQueued,
         Deploys!RolledBack
    <3>2. r.state \in {"ok", "lost"}
      BY <1>1, <1>3, <2>5 DEF DeploysIInv, ReloadsGranted, Deploys!Request, Deploys!Outcomes
    <3>3. /\ r.state = "ok" /\ deploysApp' = r.app /\ deploysRequests' = deploysRequests \ {r}
          /\ ~ \E o \in deploysRequests : o.kind = "reload" /\ o.id < r.id
      BY <3>1, <3>2 DEF Deploys!Reloaded
    <3>4. ~ \E o \in rs : o.kind = p.kind /\ o.id < p.id
      BY <1>1, <2>1, <2>5, <3>3, ConnectionFields DEF Image
    <3>5. \A o \in Lists(rs) : o.kind = p.kind
      BY <1>1, <2>1, <2>5, ConnectionFields DEF Image, Lists, Deploys!Request
    <3>6. Image(Connection, deploysRequests)' = rs \ {p}
      BY <2>4, <3>3
    <3> HIDE DEF rs, p, q
    <3>7. Fresh(rs \ {p}, ConnectionChanges, p.data, connected)
      BY <1>1, <2>1, <2>2, <2>3, <2>5, <3>3, <3>4, <3>5, FreshArrived DEF ConnectionChanges
    <3> QED
      BY <2>1, <3>3, <3>6, <3>7
  <2>6. CASE r.kind # "reload"
    <3>1. \/ Image(Connection, deploysRequests)' = (rs \ {p}) \cup {q}
          \/ Image(Connection, deploysRequests)' = rs \ {p} /\ p.kind \notin ConnectionChanges
      BY <1>3, <2>1, <2>4
    <3>2. p.kind \notin {"list", "reload"} /\ UNCHANGED deploysApp
      BY <1>1, <1>4, <2>1, <2>6 DEF Deploys!Request
    <3> HIDE DEF rs, p, q
    <3> QED
      BY <1>1, <2>1, <2>2, <2>3, <3>1, <3>2, FreshAnswered
  <2> QED
    BY <2>5, <2>6
<1> QED
  BY <1>5, <1>6, <1>7, <1>8, <1>9 DEF DeploysIInv

LEMMA DeploysNextIInv == DeploysIInv /\ [Deploys!Next]_(Deploys!vars) => DeploysIInv'
<1> SUFFICES ASSUME DeploysIInv, [Deploys!Next]_(Deploys!vars) PROVE DeploysIInv'
  OBVIOUS
<1>1. CASE UNCHANGED Deploys!vars
  <2> USE DEF Deploys!vars, Deploys!panel, Deploys!card, Deploys!table
  <2>1. Deploys!TypeOK'
    BY <1>1 DEF DeploysIInv, Deploys!TypeOK
  <2>2. (SecretComes /\ ReloadsGranted)'
    BY <1>1 DEF DeploysIInv, SecretComes, OneConnection, ShownOrComing, ReloadsGranted
  <2> QED
    BY <1>1, <2>1, <2>2 DEF DeploysIInv, Connection
<1>2. CASE Deploys!Next
  BY <1>2, DeploysUserIInv, DeploysLeaveIInv, DeploysServeIInv, DeploysAnswerIInv DEF Deploys!Next
<1> QED
  BY <1>1, <1>2

THEOREM DeploysInvariance == Deploys!Spec => []DeploysIInv
BY DeploysInitIInv, DeploysNextIInv, PTL DEF Deploys!Spec

\* DeploymentsTab!TypeOK.
THEOREM DeploysTypeCorrect == Deploys!Spec => []Deploys!TypeOK
<1>1. DeploysIInv => Deploys!TypeOK
  BY DEF DeploysIInv
<1> QED
  BY <1>1, DeploysInvariance, PTL

\* DeploymentsTab!SecretIsCurrent: the secret shown is the one the webhook is
\* checked with, once all is quiet.
THEOREM SecretsAreCurrent == Deploys!Spec => []Deploys!SecretIsCurrent
<1>1. ASSUME DeploysIInv PROVE Deploys!SecretIsCurrent
  <2> SUFFICES ASSUME deploysApp.connected, webhookSecret # 0, deploysRequests = {}, ~ deploysDoubtful
               PROVE  webhookSecret = secret
    BY DEF Deploys!SecretIsCurrent
  <2>1. Fresh({}, ConnectionChanges, deploysApp.connected, connected)
    BY <1>1 DEF DeploysIInv, Image
  <2>2. connected
    BY <2>1, FreshWhenQuiet
  <2> QED
    BY <1>1, <2>2 DEF DeploysIInv, SecretComes, ShownOrComing
<1> QED
  BY <1>1, DeploysInvariance, PTL

-----------------------------------------------------------------------------
(***************************************************************************)
(* The team's members.  At most one visit is heard; once the panel has     *)
(* carried it out, and until its page is there, the lists may be old.      *)
(***************************************************************************)
OneHeard == \A v, o \in visits : v.heard /\ o.heard => v = o
Underway == \E v \in visits : v.heard /\ v.state \in {"done", "ok"}

MembersFollow ==
  /\ ~ Underway => members = roles /\ pendingInvitations = invitations
  /\ \A v \in visits : v.heard => /\ v.state \notin {"json", "lost"}
                                  /\ v.state = "ok" => v.team = roles /\ v.links = invitations

MembersIInv ==
  /\ Members!TypeOK
  /\ OneHeard
  /\ ~ stale => MembersFollow

LEMMA MembersConstants == MaxRequests - 1 \in Nat
BY BoundsAssumption

\* What a visit keeps when the panel has got on with it, or it is interrupted.
LEMMA VisitMoves ==
  ASSUME NEW v \in Members!Visit, NEW state \in {"sent", "done", "ok", "json", "refused", "lost"}
  PROVE  /\ [v EXCEPT !.state = state] \in Members!Visit
         /\ [v EXCEPT !.state = state].heard = v.heard /\ [v EXCEPT !.state = state].state = state
BY DEF Members!Visit

LEMMA VisitHushed ==
  ASSUME NEW v \in Members!Visit
  PROVE  [v EXCEPT !.heard = FALSE] \in Members!Visit /\ ~ [v EXCEPT !.heard = FALSE].heard
BY DEF Members!Visit

LEMMA OneHeardStays ==
  ASSUME OneHeard, NEW v \in visits, NEW t, t.heard = v.heard, visits' = Instead(visits, v, t)
  PROVE  OneHeard'
BY DEF OneHeard, Instead

LEMMA MembersInitIInv == Members!Init => MembersIInv
<1> SUFFICES ASSUME Members!Init PROVE MembersIInv
  OBVIOUS
<1>1. /\ roles \in Members!Team /\ members = roles /\ invitations = {} /\ pendingInvitations = {}
      /\ visits = {} /\ memberMade = 0 /\ stale = FALSE
  BY DEF Members!Init, Members!Team, Members!Roles
<1>2. Members!TypeOK
  <2>1. 0 \in 0 .. (MaxRequests - 1)
    BY MembersConstants
  <2>2. /\ isOwner \in BOOLEAN /\ here = TRUE /\ processing = FALSE
        /\ removingMember = NoName /\ revokingInvite = 0 /\ showLeaveDialog = FALSE
    BY DEF Members!Init
  <2> QED
    BY <1>1, <2>1, <2>2 DEF Members!TypeOK
<1>3. OneHeard /\ MembersFollow
  BY <1>1 DEF OneHeard, MembersFollow
<1> QED
  BY <1>2, <1>3 DEF MembersIInv

\* A visit is started, and interrupts the one before.
LEMMA MembersGoIInv ==
  ASSUME MembersIInv, NEW kind \in {"invite", "remove", "revoke", "role", "leave"},
         NEW n \in OneName \cup {NoName}, NEW role \in Members!Roles \cup {"none"}, NEW i \in Members!Ids \cup {0},
         Members!Go(kind, n, role, i)
  PROVE  MembersIInv'
<1> USE DEF Members!panel, Members!lists, Members!dialogs
<1> DEFINE new == [kind |-> kind, id |-> memberMade + 1, member |-> n, role |-> role, link |-> i, heard |-> TRUE,
                   state |-> "sent", team |-> Members!Nobody, links |-> {}]
           hushed == {[v EXCEPT !.heard = FALSE] : v \in visits}
<1>1. /\ visits' = hushed \cup {new} /\ memberMade' = memberMade + 1 /\ memberMade < MaxRequests - 1
      /\ stale' = (stale \/ visits # {})
      /\ processing' \in BOOLEAN /\ removingMember' = NoName /\ revokingInvite' = 0 /\ showLeaveDialog' = FALSE
      /\ UNCHANGED <<roles, invitations, members, pendingInvitations, isOwner, here>>
  BY DEF Members!Go
<1>2. memberMade \in 0 .. (MaxRequests - 1) /\ visits \subseteq Members!Visit
  BY DEF MembersIInv, Members!TypeOK
<1>3. new \in Members!Visit /\ new.heard /\ new.state = "sent"
  <2>1. memberMade + 1 \in Members!Ids
    BY <1>1, <1>2, MembersConstants DEF Members!Ids
  <2> QED
    BY <2>1 DEF Members!Visit, Members!Nobody, Members!Team
<1>4. \A h \in hushed : h \in Members!Visit /\ ~ h.heard
  BY <1>2, VisitHushed
<1> HIDE DEF new, hushed
<1>5. Members!TypeOK'
  <2>1. memberMade' \in 0 .. (MaxRequests - 1)
    BY <1>1, <1>2, MembersConstants
  <2>2. visits' \subseteq Members!Visit
    BY <1>1, <1>3, <1>4
  <2>3. stale' \in BOOLEAN
    BY <1>1
  <2> QED
    BY <1>1, <2>1, <2>2, <2>3 DEF MembersIInv, Members!TypeOK
<1>6. OneHeard'
  BY <1>1, <1>3, <1>4 DEF OneHeard
<1>7. ~ stale' => MembersFollow'
  <2> SUFFICES ASSUME ~ stale' PROVE MembersFollow'
    OBVIOUS
  <2>1. MembersFollow /\ visits = {}
    BY <1>1 DEF MembersIInv
  <2>2. members = roles /\ pendingInvitations = invitations
    BY <2>1 DEF MembersFollow, Underway
  <2> QED
    BY <1>1, <1>3, <1>4, <2>2 DEF MembersFollow
<1> QED
  BY <1>5, <1>6, <1>7 DEF MembersIInv

\* Dialogs.
LEMMA MembersDialogIInv ==
  ASSUME MembersIInv, Members!OpenDialog \/ Members!Cancel
  PROVE  MembersIInv'
<1> USE DEF Members!panel, Members!lists, Members!dialogs
<1>1. UNCHANGED <<roles, invitations, members, pendingInvitations, isOwner, here, processing, visits, memberMade, stale>>
  BY DEF Members!OpenDialog, Members!Cancel
<1>2. /\ removingMember' \in OneName \cup {NoName} /\ revokingInvite' \in Members!Ids \cup {0}
      /\ showLeaveDialog' \in BOOLEAN
  BY DEF MembersIInv, Members!TypeOK, Members!OpenDialog, Members!Cancel, Members!Listed
<1>3. Members!TypeOK'
  BY <1>1, <1>2 DEF MembersIInv, Members!TypeOK
<1>4. (OneHeard /\ MembersFollow)' <=> OneHeard /\ MembersFollow
  BY <1>1 DEF OneHeard, MembersFollow, Underway
<1> QED
  BY <1>1, <1>3, <1>4 DEF MembersIInv, OneHeard

\* The panel gets on with a visit ...
LEMMA MembersServeIInv ==
  ASSUME MembersIInv, NEW v \in visits, Members!Serve(v)
  PROVE  MembersIInv'
<1> USE DEF Members!panel, Members!lists, Members!dialogs
<1>1. /\ v.state = "sent"
      /\ UNCHANGED <<members, pendingInvitations, isOwner, here, processing, removingMember, revokingInvite,
                     showLeaveDialog, memberMade>>
  BY DEF Members!Serve
<1>2. visits \subseteq Members!Visit /\ v \in Members!Visit /\ roles \in Members!Team /\ invitations \subseteq Members!Ids
  BY DEF MembersIInv, Members!TypeOK
<1>3. PICK t \in Members!Visit : /\ visits' = Instead(visits, v, t) /\ t.heard = v.heard
                                 /\ stale' = (stale \/ t.state # "done" \/ ~ v.heard)
  <2>1. PICK state \in {"done", "json", "lost"} :
               /\ visits' = Instead(visits, v, [v EXCEPT !.state = state])
               /\ stale' = (stale \/ state # "done" \/ ~ v.heard)
    BY DEF Members!Serve, Instead, Members!Instead
  <2> DEFINE u == [v EXCEPT !.state = state]
  <2>2. u \in Members!Visit /\ u.heard = v.heard /\ u.state = state
    <3>1. v \in Members!Visit /\ state \in {"sent", "done", "ok", "json", "refused", "lost"}
      BY <1>2
    <3> QED
      BY <3>1, VisitMoves
  <2>3. visits' = Instead(visits, v, u) /\ stale' = (stale \/ u.state # "done" \/ ~ v.heard)
    BY <2>1, <2>2
  <2> HIDE DEF u
  <2> QED
    BY <2>2, <2>3
<1>4. roles' \in Members!Team
  <2>1. v.role \in Members!Roles \cup {"none"}
    BY <1>2 DEF Members!Visit
  <2>2. roles' = roles \/ roles' = [roles EXCEPT ![v.member] = v.role]
    BY DEF Members!Serve
  <2> QED
    BY <1>2, <2>1, <2>2 DEF Members!Team
<1>5. invitations' \subseteq Members!Ids
  <2>1. v.id \in Members!Ids
    BY <1>2 DEF Members!Visit
  <2>2. invitations' = invitations \/ invitations' = invitations \cup {v.id} \/ invitations' = invitations \ {v.link}
    BY DEF Members!Serve
  <2> QED
    BY <1>2, <2>1, <2>2
<1>6. Members!TypeOK'
  <2>1. visits' \subseteq Members!Visit
    BY <1>2, <1>3 DEF Instead
  <2>2. stale' \in BOOLEAN
    BY <1>3
  <2> QED
    BY <1>1, <1>4, <1>5, <2>1, <2>2 DEF MembersIInv, Members!TypeOK
<1>7. OneHeard'
  BY <1>3, OneHeardStays DEF MembersIInv
<1>8. ~ stale' => MembersFollow'
  <2> SUFFICES ASSUME ~ stale' PROVE MembersFollow'
    OBVIOUS
  <2>1. t.heard /\ t.state = "done" /\ t \in visits'
    BY <1>3 DEF Instead
  <2>2. \A o \in visits' : o.heard => o = t
    BY <1>7, <2>1 DEF OneHeard
  <2> QED
    BY <2>1, <2>2 DEF MembersFollow, Underway
<1> QED
  BY <1>6, <1>7, <1>8 DEF MembersIInv

LEMMA MembersRefuseIInv ==
  ASSUME MembersIInv, NEW v \in visits, Members!Refuse(v)
  PROVE  MembersIInv'
<1> USE DEF Members!panel, Members!lists, Members!dialogs
<1>1. /\ v.state = "sent"
      /\ UNCHANGED <<roles, invitations, members, pendingInvitations, isOwner, here, processing, removingMember,
                     revokingInvite, showLeaveDialog, memberMade, stale>>
  BY DEF Members!Refuse
<1>2. visits \subseteq Members!Visit /\ v \in Members!Visit
  BY DEF MembersIInv, Members!TypeOK
<1>3. PICK t \in Members!Visit : visits' = Instead(visits, v, t) /\ t.heard = v.heard /\ t.state = "refused"
  <2>1. visits' = Instead(visits, v, [v EXCEPT !.state = "refused"])
    BY DEF Members!Refuse, Instead, Members!Instead
  <2> QED
    BY <1>2, <2>1, VisitMoves
<1>4. Members!TypeOK'
  <2>1. visits' \subseteq Members!Visit
    BY <1>2, <1>3 DEF Instead
  <2> QED
    BY <1>1, <2>1 DEF MembersIInv, Members!TypeOK
<1>5. OneHeard'
  BY <1>3, OneHeardStays DEF MembersIInv
<1>6. Underway' <=> Underway
  BY <1>1, <1>3 DEF Underway, Instead
<1>7. MembersFollow => MembersFollow'
  BY <1>1, <1>3, <1>6 DEF MembersFollow, Instead
<1> QED
  BY <1>1, <1>4, <1>5, <1>7 DEF MembersIInv

LEMMA MembersLoadIInv ==
  ASSUME MembersIInv, NEW v \in visits, Members!LoadPage(v)
  PROVE  MembersIInv'
<1> USE DEF Members!panel, Members!lists, Members!dialogs
<1>1. /\ v.heard /\ stale' = FALSE
      /\ UNCHANGED <<roles, invitations, members, pendingInvitations, isOwner, here, processing, removingMember,
                     revokingInvite, showLeaveDialog, memberMade>>
  BY DEF Members!LoadPage
<1>2. visits \subseteq Members!Visit /\ v \in Members!Visit /\ roles \in Members!Team /\ invitations \subseteq Members!Ids
  BY DEF MembersIInv, Members!TypeOK
<1>3. PICK t \in Members!Visit : /\ visits' = Instead(visits, v, t) /\ t.heard = v.heard /\ t.state = "ok"
                                 /\ t.team = roles /\ t.links = invitations
  <2> DEFINE p == [v EXCEPT !.state = "ok", !.team = roles, !.links = invitations]
  <2>1. visits' = Instead(visits, v, p)
    BY DEF Members!LoadPage, Instead, Members!Instead
  <2>2. p \in Members!Visit /\ p.heard = v.heard /\ p.state = "ok" /\ p.team = roles /\ p.links = invitations
    BY <1>2 DEF Members!Visit
  <2> HIDE DEF p
  <2> QED
    BY <2>1, <2>2
<1>4. Members!TypeOK'
  <2>1. visits' \subseteq Members!Visit
    BY <1>2, <1>3 DEF Instead
  <2> QED
    BY <1>1, <2>1 DEF MembersIInv, Members!TypeOK
<1>5. OneHeard'
  BY <1>3, OneHeardStays DEF MembersIInv
<1>6. MembersFollow'
  <2>1. t \in visits' /\ \A o \in visits' : o.heard => o = t
    BY <1>1, <1>3, <1>5 DEF OneHeard, Instead
  <2> QED
    BY <1>1, <1>3, <2>1 DEF MembersFollow, Underway
<1> QED
  BY <1>4, <1>5, <1>6 DEF MembersIInv

LEMMA MembersAcceptIInv ==
  ASSUME MembersIInv, NEW n \in OneName, NEW i \in Members!Ids, Members!Accept(i, n)
  PROVE  MembersIInv'
<1> USE DEF Members!panel, Members!lists, Members!dialogs
<1>1. /\ roles' = [roles EXCEPT ![n] = "member"] /\ invitations' = invitations \ {i} /\ stale' = TRUE
      /\ UNCHANGED <<members, pendingInvitations, isOwner, here, processing, removingMember, revokingInvite,
                     showLeaveDialog, visits, memberMade>>
  BY DEF Members!Accept
<1>2. roles' \in Members!Team
  BY <1>1 DEF MembersIInv, Members!TypeOK, Members!Team, Members!Roles
<1>3. Members!TypeOK'
  BY <1>1, <1>2 DEF MembersIInv, Members!TypeOK
<1> QED
  BY <1>1, <1>3 DEF MembersIInv, OneHeard

\* ... and its answer arrives, or is not heard.
LEMMA MembersAnswerIInv ==
  ASSUME MembersIInv, NEW v \in visits, Members!PageArrives(v) \/ Members!NoPageArrives(v) \/ Members!Unheard(v)
  PROVE  MembersIInv'
<1> USE DEF Members!panel, Members!lists, Members!dialogs
<1>1. /\ visits' = visits \ {v} /\ UNCHANGED <<roles, invitations, isOwner, showLeaveDialog, memberMade, stale>>
      /\ processing' \in {FALSE, processing} /\ removingMember' \in {NoName, removingMember}
      /\ revokingInvite' \in {0, revokingInvite} /\ here' \in BOOLEAN
  BY DEF MembersIInv, Members!TypeOK, Members!PageArrives, Members!NoPageArrives, Members!Unheard, Members!Finish
<1>2. visits \subseteq Members!Visit /\ v \in Members!Visit
  BY DEF MembersIInv, Members!TypeOK
<1>3. members' \in Members!Team /\ pendingInvitations' \subseteq Members!Ids
  <2>1. v.team \in Members!Team /\ v.links \subseteq Members!Ids
    BY <1>2 DEF Members!Visit
  <2>2. \/ members' = members /\ pendingInvitations' = pendingInvitations
        \/ members' = v.team /\ pendingInvitations' = v.links
    BY DEF Members!PageArrives, Members!NoPageArrives, Members!Unheard
  <2> QED
    BY <2>1, <2>2 DEF MembersIInv, Members!TypeOK
<1>4. Members!TypeOK'
  BY <1>1, <1>3 DEF MembersIInv, Members!TypeOK
<1>5. OneHeard'
  BY <1>1 DEF MembersIInv, OneHeard
<1>6. ASSUME MembersFollow PROVE MembersFollow'
  <2>1. CASE Members!PageArrives(v)
    <3>1. members' = roles' /\ pendingInvitations' = invitations'
      BY <1>1, <1>6, <2>1 DEF Members!PageArrives, MembersFollow
    <3>2. \A o \in visits' : ~ o.heard
      BY <1>1, <2>1 DEF Members!PageArrives, MembersIInv, OneHeard
    <3> QED
      BY <3>1, <3>2 DEF MembersFollow
  <2>2. CASE Members!NoPageArrives(v)
    <3>1. v.heard /\ v.state \notin {"done", "ok"} /\ members' = members /\ pendingInvitations' = pendingInvitations
      BY <2>2 DEF Members!NoPageArrives
    <3>2. ~ Underway
      BY <3>1 DEF Underway, MembersIInv, OneHeard
    <3> QED
      BY <1>1, <1>6, <3>1, <3>2 DEF MembersFollow
  <2>3. CASE Members!Unheard(v)
    <3>1. ~ v.heard /\ members' = members /\ pendingInvitations' = pendingInvitations
      BY <2>3 DEF Members!Unheard
    <3>2. Underway' <=> Underway
      BY <1>1, <3>1 DEF Underway
    <3> QED
      BY <1>1, <1>6, <3>1, <3>2 DEF MembersFollow
  <2> QED
    BY <2>1, <2>2, <2>3
<1> QED
  BY <1>1, <1>4, <1>5, <1>6 DEF MembersIInv

LEMMA MembersNextIInv == MembersIInv /\ [Members!Next]_(Members!vars) => MembersIInv'
<1> SUFFICES ASSUME MembersIInv, [Members!Next]_(Members!vars) PROVE MembersIInv'
  OBVIOUS
<1>1. CASE UNCHANGED Members!vars
  BY <1>1 DEF MembersIInv, Members!vars, Members!panel, Members!lists, Members!dialogs, Members!TypeOK, OneHeard,
     MembersFollow, Underway
<1>2. removingMember \in OneName \cup {NoName} /\ revokingInvite \in Members!Ids \cup {0}
  BY DEF MembersIInv, Members!TypeOK
<1>3. CASE Members!SubmitInvite
  BY <1>3, MembersGoIInv DEF Members!SubmitInvite
<1>4. CASE Members!RemoveMember
  BY <1>2, <1>4, MembersGoIInv DEF Members!RemoveMember
<1>5. CASE Members!RevokeInvitation
  BY <1>2, <1>5, MembersGoIInv DEF Members!RevokeInvitation
<1>6. CASE Members!LeaveTeam
  BY <1>6, MembersGoIInv DEF Members!LeaveTeam
<1>7. ASSUME NEW n \in OneName, NEW role \in Members!Roles, Members!ChangeRole(n, role) PROVE MembersIInv'
  BY <1>7, MembersGoIInv DEF Members!ChangeRole
<1>8. CASE Members!OpenDialog \/ Members!Cancel
  BY <1>8, MembersDialogIInv
<1>9. CASE \E n \in OneName, i \in Members!Ids : Members!Accept(i, n)
  BY <1>9, MembersAcceptIInv
<1>10. ASSUME NEW v \in visits,
              \/ Members!Serve(v) \/ Members!Refuse(v) \/ Members!LoadPage(v)
              \/ Members!PageArrives(v) \/ Members!NoPageArrives(v) \/ Members!Unheard(v)
       PROVE  MembersIInv'
  BY <1>10, MembersServeIInv, MembersRefuseIInv, MembersLoadIInv, MembersAnswerIInv
<1> QED
  BY <1>1, <1>3, <1>4, <1>5, <1>6, <1>7, <1>8, <1>9, <1>10 DEF Members!Next

LEMMA MembersInvariance == Members!Spec => []MembersIInv
BY MembersInitIInv, MembersNextIInv, PTL DEF Members!Spec

\* TeamMembers!TypeOK.
THEOREM MembersTypeCorrect == Members!Spec => []Members!TypeOK
<1>1. MembersIInv => Members!TypeOK
  BY DEF MembersIInv
<1> QED
  BY <1>1, MembersInvariance, PTL

\* TeamMembers!MembersAreCurrent: when nothing is under way the page shows the
\* panel's members and links, or is stale.
THEOREM TheMembersAreCurrent == Members!Spec => []Members!MembersAreCurrent
<1>1. MembersIInv => Members!MembersAreCurrent
  BY DEF MembersIInv, MembersFollow, Underway, Members!MembersAreCurrent
<1> QED
  BY <1>1, MembersInvariance, PTL
=============================================================================
