--------------------------- MODULE FrontEndProofs ---------------------------
(***************************************************************************)
(* The theorems about the front end as a whole.  A behaviour of FrontEnd   *)
(* is, for each of its pages, a behaviour of that page (FilesPart to       *)
(* AnalyticsPart), so that what is proved of a page in FilesProofs,        *)
(* ConsoleProofs, StoredDataProofs and ListingProofs holds of it; and what *)
(* FrontEnd asks of several pages at once follows.                         *)
(***************************************************************************)
EXTENDS FilesProofs, ListingProofs, ConsoleProofs, StoredDataProofs

\* A step of the front end is one of the page looked at; the others rest.
LEMMA OnePageSteps ==
  ASSUME [Next]_vars
  PROVE  /\ Files!Next \/ UNCHANGED filesVars
         /\ Search!Next \/ UNCHANGED searchVars
         /\ Stream!Next \/ UNCHANGED streamVars
         /\ Terminal!Next \/ UNCHANGED terminalVars
         /\ Environment!Next \/ UNCHANGED envVars
         /\ Settings!Next \/ UNCHANGED formsVars
         /\ Databases!Next \/ UNCHANGED databaseVars
         /\ Workers!Next \/ UNCHANGED workersVars
         /\ Deploys!Next \/ UNCHANGED deploysVars
         /\ Overview!Next \/ UNCHANGED overviewVars
         /\ Domains!Next \/ UNCHANGED domainVars
         /\ Previews!Next \/ UNCHANGED previewVars
         /\ TeamVars!Next \/ UNCHANGED teamEnvVars
         /\ Storage!Next \/ UNCHANGED storageVars
         /\ Members!Next \/ UNCHANGED memberVars
         /\ Tokens!Next \/ UNCHANGED tokenVars
         /\ Analytics!Next \/ UNCHANGED analyticsVars
<1>1. CASE UNCHANGED vars
  BY <1>1 DEF vars
<1>2. CASE Next
  BY <1>2 DEF Next, Rest
<1> QED
  BY <1>1, <1>2

LEMMA FilesPart == Spec => Files!Spec
<1>1. Init => Files!Init
  BY DEF Init
<1>2. [Next]_vars => [Files!Next]_(Files!vars)
  BY OnePageSteps DEF filesVars, Files!vars, Files!view, Files!dialogs, Files!server
<1> QED
  BY <1>1, <1>2, PTL DEF Spec, Files!Spec

LEMMA SearchPart == Spec => Search!Spec
<1>1. Init => Search!Init
  BY DEF Init
<1>2. [Next]_vars => [Search!Next]_(Search!vars)
  BY OnePageSteps DEF searchVars, Search!vars
<1> QED
  BY <1>1, <1>2, PTL DEF Spec, Search!Spec

LEMMA StreamPart == Spec => Stream!Spec
<1>1. Init => Stream!Init
  BY DEF Init
<1>2. [Next]_vars => [Stream!Next]_(Stream!vars)
  BY OnePageSteps DEF streamVars, Stream!vars, Stream!tab, Stream!list
<1> QED
  BY <1>1, <1>2, PTL DEF Spec, Stream!Spec

LEMMA TerminalPart == Spec => Terminal!Spec
<1>1. Init => Terminal!Init
  BY DEF Init
<1>2. [Next]_vars => [Terminal!Next]_(Terminal!vars)
  BY OnePageSteps DEF terminalVars, Terminal!vars
<1> QED
  BY <1>1, <1>2, PTL DEF Spec, Terminal!Spec

LEMMA EnvironmentPart == Spec => Environment!Spec
<1>1. Init => Environment!Init
  BY DEF Init
<1>2. [Next]_vars => [Environment!Next]_(Environment!vars)
  BY OnePageSteps DEF envVars, Environment!vars, Environment!panel, Environment!listed,
     Environment!dialogs, Environment!form, Environment!banner
<1> QED
  BY <1>1, <1>2, PTL DEF Spec, Environment!Spec

LEMMA SettingsPart == Spec => Settings!Spec
<1>1. Init => Settings!Init
  BY DEF Init
<1>2. [Next]_vars => [Settings!Next]_(Settings!vars)
  BY OnePageSteps DEF formsVars, Settings!vars
<1> QED
  BY <1>1, <1>2, PTL DEF Spec, Settings!Spec

LEMMA DatabasesPart == Spec => Databases!Spec
<1>1. Init => Databases!Init
  BY DEF Init
<1>2. [Next]_vars => [Databases!Next]_(Databases!vars)
  BY OnePageSteps DEF databaseVars, Databases!vars, Databases!panel, Databases!list,
     Databases!busy, Databases!dialog
<1> QED
  BY <1>1, <1>2, PTL DEF Spec, Databases!Spec

LEMMA WorkersPart == Spec => Workers!Spec
<1>1. Init => Workers!Init
  BY DEF Init
<1>2. [Next]_vars => [Workers!Next]_(Workers!vars)
  BY OnePageSteps DEF workersVars, Workers!vars, Workers!status, Workers!log
<1> QED
  BY <1>1, <1>2, PTL DEF Spec, Workers!Spec

LEMMA DeploysPart == Spec => Deploys!Spec
<1>1. Init => Deploys!Init
  BY DEF Init
<1>2. [Next]_vars => [Deploys!Next]_(Deploys!vars)
  BY OnePageSteps DEF deploysVars, Deploys!vars, Deploys!panel, Deploys!card, Deploys!table
<1> QED
  BY <1>1, <1>2, PTL DEF Spec, Deploys!Spec

LEMMA OverviewPart == Spec => Overview!Spec
<1>1. Init => Overview!Init
  BY DEF Init
<1>2. [Next]_vars => [Overview!Next]_(Overview!vars)
  BY OnePageSteps DEF overviewVars, Overview!vars, Overview!cards, Overview!uptime
<1> QED
  BY <1>1, <1>2, PTL DEF Spec, Overview!Spec

LEMMA DomainsPart == Spec => Domains!Spec
<1>1. Init => Domains!Init
  BY DEF Init
<1>2. [Next]_vars => [Domains!Next]_(Domains!vars)
  BY OnePageSteps DEF domainVars, Domains!vars, Domains!list, Domains!form
<1> QED
  BY <1>1, <1>2, PTL DEF Spec, Domains!Spec

LEMMA PreviewsPart == Spec => Previews!Spec
<1>1. Init => Previews!Init
  BY DEF Init
<1>2. [Next]_vars => [Previews!Next]_(Previews!vars)
  BY OnePageSteps DEF previewVars, Previews!vars
<1> QED
  BY <1>1, <1>2, PTL DEF Spec, Previews!Spec

LEMMA TeamVarsPart == Spec => TeamVars!Spec
<1>1. Init => TeamVars!Init
  BY DEF Init
<1>2. [Next]_vars => [TeamVars!Next]_(TeamVars!vars)
  BY OnePageSteps DEF teamEnvVars, TeamVars!vars, TeamVars!dialogs, TeamVars!form
<1> QED
  BY <1>1, <1>2, PTL DEF Spec, TeamVars!Spec

LEMMA StoragePart == Spec => Storage!Spec
<1>1. Init => Storage!Init
  BY DEF Init
<1>2. [Next]_vars => [Storage!Next]_(Storage!vars)
  BY OnePageSteps DEF storageVars, Storage!vars, Storage!tests
<1> QED
  BY <1>1, <1>2, PTL DEF Spec, Storage!Spec

LEMMA MembersPart == Spec => Members!Spec
<1>1. Init => Members!Init
  BY DEF Init
<1>2. [Next]_vars => [Members!Next]_(Members!vars)
  BY OnePageSteps DEF memberVars, Members!vars, Members!panel, Members!lists, Members!dialogs
<1> QED
  BY <1>1, <1>2, PTL DEF Spec, Members!Spec

LEMMA TokensPart == Spec => Tokens!Spec
<1>1. Init => Tokens!Init
  BY DEF Init
<1>2. [Next]_vars => [Tokens!Next]_(Tokens!vars)
  BY OnePageSteps DEF tokenVars, Tokens!vars
<1> QED
  BY <1>1, <1>2, PTL DEF Spec, Tokens!Spec

LEMMA AnalyticsPart == Spec => Analytics!Spec
<1>1. Init => Analytics!Init
  BY DEF Init
<1>2. [Next]_vars => [Analytics!Next]_(Analytics!vars)
  BY OnePageSteps DEF analyticsVars, Analytics!vars
<1> QED
  BY <1>1, <1>2, PTL DEF Spec, Analytics!Spec

-----------------------------------------------------------------------------
\* FrontEnd!ViewIsTheEntry: back and forward lead to what was seen, but for the
\* entries Inertia has written without a tab.
THEOREM ViewIsAlwaysTheEntry == Spec => []ViewIsTheEntry
BY FilesPart, ViewFollowsHistory DEF ViewIsTheEntry

\* FrontEnd!NoStrayStream: no WebSocket of the log stream outlives its tab.
THEOREM StreamsEndWithTheirTab == Spec => []NoStrayStream
BY StreamPart, NoStray DEF NoStrayStream

\* FrontEnd!ConnectedMeansOpen: what the Logs and the Terminal tab say of their
\* WebSockets is so.
THEOREM SocketsAreAsShown == Spec => []ConnectedMeansOpen
BY StreamPart, TerminalPart, StreamsFromASocket, ConnectedIsOpen, PTL DEF ConnectedMeansOpen

\* FrontEnd!TypesIntoOneShell: a key reaches one shell.
THEOREM KeysReachOneShell == Spec => []TypesIntoOneShell
BY TerminalPart, OneShell DEF TypesIntoOneShell

\* FrontEnd!ChangesAreAnnounced: what was changed on this visit and not deployed
\* since is announced, but for the cases EnvironmentTab names.
THEOREM BannerAnnounces == Spec => []ChangesAreAnnounced
BY EnvironmentPart, Announced DEF ChangesAreAnnounced

\* FrontEnd!BackupNeedsPersistent: a database that is backed up is kept by a
\* deploy, but for what was taken out or written over.
THEOREM BackedUpSurvives == Spec => []BackupNeedsPersistent
BY DatabasesPart, BackupsPersist DEF BackupNeedsPersistent

\* FrontEnd!AtMostOneDefault: a team has at most one default endpoint, unless two
\* requests that set it overlapped or one failed in between.
THEOREM DefaultIsUnique == Spec => []AtMostOneDefault
BY StoragePart, OneDefault DEF AtMostOneDefault

\* FrontEnd!SendsItsOwnText: what is sent for a variable was entered for it.
THEOREM FormsSendTheirOwn == Spec => []SendsItsOwnText
BY EnvironmentPart, TeamVarsPart, SendsOwn, TeamSendsOwn, PTL DEF SendsItsOwnText

\* FrontEnd!DeletesWhatWasConfirmed: nothing is deleted or destroyed but what a
\* dialog named.
THEOREM OnlyConfirmedIsDeleted == Spec => DeletesWhatWasConfirmed
BY FilesPart, PreviewsPart, DeletionsConfirmed, DestructionsConfirmed DEF DeletesWhatWasConfirmed

\* FrontEnd!NoLateStatus: the status of workers does not change once the VM has
\* stopped.
THEOREM NoStatusAfterStop == Spec => NoLateStatus
BY WorkersPart, StatusIsNotLate DEF NoLateStatus

\* FrontEnd!DismissedStays: a card that was dismissed does not come back.
THEOREM CardsStayDismissed == Spec => []DismissedStays
BY OverviewPart, DismissalsStay DEF DismissedStays

\* FrontEnd!CleanMeansStored: a form that says it has no unsaved changes shows
\* what the panel has, except as AppForms and DatabaseTab say.
THEOREM CleanIsStored == Spec => []CleanMeansStored
BY SettingsPart, DatabasesPart, SettingsStored, DatabasesStored, PTL DEF CleanMeansStored

\* FrontEnd!NamedRightly: the files, the results, the log, the uptime and the bar
\* shown are those of the directory, the filters, the worker, the app named there.
THEOREM NamesAreRight == Spec => []NamedRightly
<1>1. Spec => /\ []Files!ListsWhereItIs /\ []Search!ResultIsForFilters /\ []Workers!LogIsOfWorker
              /\ []Overview!UptimeIsOfSlug /\ []Analytics!DescribesABar
  BY FilesPart, SearchPart, WorkersPart, OverviewPart, AnalyticsPart, ItListsWhereItIs,
     ResultsAreForFilters, LogsAreOfWorker, UptimesAreOfSlug, ABarIsDescribed
<1> QED
  BY <1>1, PTL DEF NamedRightly

\* FrontEnd!ListsAreCurrent: once nothing is in flight, a list that is fetched again
\* after a change is what the panel has.
THEOREM ListsFollowThePanel == Spec => []ListsAreCurrent
<1>1. Spec => /\ []Domains!ListIsCurrent /\ []Previews!ListIsCurrent /\ []TeamVars!ListIsCurrent
              /\ []Storage!ListIsCurrent /\ []Members!MembersAreCurrent /\ []Tokens!ListIsCurrent
              /\ []Deploys!SecretIsCurrent
  BY DomainsPart, PreviewsPart, TeamVarsPart, StoragePart, MembersPart, TokensPart, DeploysPart,
     DomainsAreCurrent, PreviewsAreCurrent, TeamVarsAreCurrent, EndpointsAreCurrent,
     TheMembersAreCurrent, TokensAreCurrent, SecretsAreCurrent
<1> QED
  BY <1>1, PTL DEF ListsAreCurrent

\* FrontEnd!TypeOK: the state of each page keeps its type, and the page looked at
\* is one of them.
THEOREM FrontEndTypeCorrect == Spec => []TypeOK
<1>1. Spec => [](focus \in Views)
  <2>1. Init => focus \in Views
    BY DEF Init
  <2>2. focus \in Views /\ [Next]_vars => (focus \in Views)'
    BY DEF Next, Rest, vars
  <2> QED
    BY <2>1, <2>2, PTL DEF Spec
<1>2. Spec => /\ []Files!TypeOK /\ []Search!TypeOK /\ []Stream!TypeOK /\ []Terminal!TypeOK
              /\ []Environment!TypeOK /\ []Settings!TypeOK /\ []Databases!TypeOK /\ []Workers!TypeOK
  BY FilesPart, SearchPart, StreamPart, TerminalPart, EnvironmentPart, SettingsPart, DatabasesPart, WorkersPart,
     FilesTypeCorrect, SearchTypeCorrect, StreamTypeCorrect, TerminalTypeCorrect, EnvironmentTypeCorrect,
     SettingsTypeCorrect, DatabasesTypeCorrect, WorkersTypeCorrect
<1>3. Spec => /\ []Deploys!TypeOK /\ []Overview!TypeOK /\ []Domains!TypeOK /\ []Previews!TypeOK
              /\ []TeamVars!TypeOK /\ []Storage!TypeOK /\ []Members!TypeOK /\ []Tokens!TypeOK
              /\ []Analytics!TypeOK
  BY DeploysPart, OverviewPart, DomainsPart, PreviewsPart, TeamVarsPart, StoragePart, MembersPart, TokensPart,
     AnalyticsPart, DeploysTypeCorrect, OverviewTypeCorrect, DomainsTypeCorrect, PreviewsTypeCorrect,
     TeamVarsTypeCorrect, StorageTypeCorrect, MembersTypeCorrect, TokensTypeCorrect, AnalyticsTypeCorrect
<1> QED
  BY <1>1, <1>2, <1>3, PTL DEF TypeOK
=============================================================================
