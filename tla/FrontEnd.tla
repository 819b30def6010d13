------------------------------ MODULE FrontEnd ------------------------------
(***************************************************************************)
(* The browser front end (panel/resources/js): the pages of an app and of  *)
(* a team, put together from the modules of its pages and tabs.            *)
(*                                                                         *)
(* The parts of a page keep their state to themselves, and what they share *)
(* is the panel, which any of them may change only through its answers:    *)
(* each part models what the others do to the panel, where it matters, as  *)
(* a step of its own.  One of them is looked at (focus) in a behaviour;    *)
(* the others rest.  The history of the browser, which leads from one tab  *)
(* to another, is FileBrowser's.                                           *)
(***************************************************************************)
EXTENDS Pages

VARIABLES
  focus,                           \* the page that is looked at
  \* FileBrowser: tab, directory and Files tab
  activeTab, fileBrowserPath, entries, filesEntry, filesItems, filesLoading, uploading, writing,
  showWriteDialog, deletingItem, disk, pins, filesRequests, filesAsked, filesConfirmed, astray,
  \* LogSearch: Logs tab: history
  mode, filter, searchQuery, searchResult, searchLoading, searches, sought, searchJumbled,
  \* LogStream: Logs tab: live
  shown, liveMode, streaming, autoRefresh, liveLoading, liveLogs, streamFetches, streamWsRef,
  stream, streamMine, overlapped,
  \* TerminalTab: Terminal tab
  termInstance, status, terminalWsRef, link, terminalMine, typed, confused,
  \* EnvironmentTab: Environment tab
  envRows, before, envTabShown, appVars, envLoading, envShowAddDialog, envEditingVar,
  envDeletingVar, formKey, envFormValue, envFormFor, envSaving, hasChanges, envDeploying, envRequests, envAsked,
  unseen,
  \* AppForms: header, Settings and Workers tab: forms
  tab, stored, formsApp, form, open, formsDirty, formsSaving, saves, sent, formsDoubtful,
  \* DatabaseTab: Database tab
  databaseRows, persistentPaths, endpoint, databases, databaseDirty, appEndpoint, databaseSaving,
  scanning, savingEndpoint, restoring, confirmRestore, databaseRequests, databaseAsked, adrift,
  databaseDoubtful,
  \* WorkersTab: Workers tab: status and logs
  workersTabShown, vmState, statuses, polls, logWorker, logLines, logRequests, viewed,
  workersJumbled,
  \* DeploymentsTab: Deployments tab
  connected, secret, deploysMade, deployments, deploysApp, deploysTabShown, repo, webhookSecret, connecting,
  disconnecting, deploysDeploying, confirmId, rollingBack, deploysRequests, deploysAsked,
  deploysDoubtful,
  \* OverviewTab: Overview tab
  storageWorks, kept, overviewTabShown, overviewApp, dismissed, everDismissed, stats,
  overviewLoading, overviewFetches, overviewJumbled,
  \* DomainsTab: Domains tab
  domainRows, domains, domainLoading, domainShowAddDialog, formDomain, domainSaving, verifying,
  deletingDomain, domainRequests, domainAsked, domainDoubtful,
  \* PreviewsTab: Previews tab
  previewRows, previews, previewTabShown, dialog, deleting, previewRequests, previewAsked,
  previewConfirmed, elsewhere, previewDoubtful,
  \* TeamEnv: team's variables
  teamEnvRows, teamVars, teamEnvShowAddDialog, teamEnvEditingVar, teamEnvDeletingVar,
  teamEnvSaving, teamEnvFormValue, teamEnvFormFor, teamEnvRequests, teamEnvAsked, teamEnvDoubtful,
  \* TeamStorage: team's storage endpoints
  storageRows, endpoints, dialogOpen, editingEndpoint, isDefault, storageSaving,
  deletingEndpoint, testing, testResult, storageRequests, storageAsked, storageDoubtful, raced,
  \* TeamMembers: team's members
  roles, invitations, members, pendingInvitations, isOwner, here, processing, removingMember,
  revokingInvite, showLeaveDialog, visits, memberMade, stale,
  \* ApiTokens: API tokens
  tokenRows, tokens, name, newToken, creating, deletingId, tokenRequests, tokenAsked, lost,
  \* AnalyticsTab: Analytics tab
  analyticsTabShown, analyticsLoading, metrics, hovered, fetch

filesVars == <<activeTab, fileBrowserPath, entries, filesEntry, filesItems, filesLoading, uploading,
               writing, showWriteDialog, deletingItem, disk, pins, filesRequests, filesAsked,
               filesConfirmed, astray>>
searchVars == <<mode, filter, searchQuery, searchResult, searchLoading, searches, sought,
                searchJumbled>>
streamVars == <<shown, liveMode, streaming, autoRefresh, liveLoading, liveLogs, streamFetches,
                streamWsRef, stream, streamMine, overlapped>>
terminalVars == <<termInstance, status, terminalWsRef, link, terminalMine, typed, confused>>
envVars == <<envRows, before, envTabShown, appVars, envLoading, envShowAddDialog, envEditingVar,
             envDeletingVar, formKey, envFormValue, envFormFor, envSaving, hasChanges, envDeploying,
             envRequests, envAsked, unseen>>
formsVars == <<tab, stored, formsApp, form, open, formsDirty, formsSaving, saves, sent,
               formsDoubtful>>
databaseVars == <<databaseRows, persistentPaths, endpoint, databases, databaseDirty, appEndpoint,
                  databaseSaving, scanning, savingEndpoint, restoring, confirmRestore,
                  databaseRequests, databaseAsked, adrift, databaseDoubtful>>
workersVars == <<workersTabShown, vmState, statuses, polls, logWorker, logLines, logRequests,
                 viewed, workersJumbled>>
deploysVars == <<connected, secret, deploysMade, deployments, deploysApp, deploysTabShown, repo,
                 webhookSecret, connecting, disconnecting, deploysDeploying, confirmId,
                 rollingBack, deploysRequests, deploysAsked, deploysDoubtful>>
overviewVars == <<storageWorks, kept, overviewTabShown, overviewApp, dismissed, everDismissed,
                  stats, overviewLoading, overviewFetches, overviewJumbled>>
domainVars == <<domainRows, domains, domainLoading, domainShowAddDialog, formDomain, domainSaving,
                verifying, deletingDomain, domainRequests, domainAsked, domainDoubtful>>
previewVars == <<previewRows, previews, previewTabShown, dialog, deleting, previewRequests,
                 previewAsked, previewConfirmed, elsewhere, previewDoubtful>>
teamEnvVars == <<teamEnvRows, teamVars, teamEnvShowAddDialog, teamEnvEditingVar, teamEnvDeletingVar,
                 teamEnvSaving, teamEnvFormValue, teamEnvFormFor, teamEnvRequests, teamEnvAsked,
                 teamEnvDoubtful>>
storageVars == <<storageRows, endpoints, dialogOpen, editingEndpoint, isDefault, storageSaving,
                 deletingEndpoint, testing, testResult, storageRequests, storageAsked,
                 storageDoubtful, raced>>
memberVars == <<roles, invitations, members, pendingInvitations, isOwner, here, processing,
                removingMember, revokingInvite, showLeaveDialog, visits, memberMade, stale>>
tokenVars == <<tokenRows, tokens, name, newToken, creating, deletingId, tokenRequests, tokenAsked,
               lost>>
analyticsVars == <<analyticsTabShown, analyticsLoading, metrics, hovered, fetch>>
vars == <<focus, filesVars, searchVars, streamVars, terminalVars, envVars, formsVars, databaseVars,
          workersVars, deploysVars, overviewVars, domainVars, previewVars, teamEnvVars, storageVars,
          memberVars, tokenVars, analyticsVars>>

Views == {"files", "search", "stream", "terminal", "env", "forms", "database", "workers", "deploys",
          "overview", "domain", "preview", "teamEnv", "storage", "member", "token",
          "analytics"}

\* Bounds: the smaller pages are given more requests, and the team one other
\* member.
OneName == {CHOOSE n \in Names : TRUE}

Files == INSTANCE FileBrowser WITH
  entry <- filesEntry, items <- filesItems, loading <- filesLoading, requests <- filesRequests,
  asked <- filesAsked, confirmed <- filesConfirmed
Search == INSTANCE LogSearch WITH
  jumbled <- searchJumbled
Stream == INSTANCE LogStream WITH
  fetches <- streamFetches, wsRef <- streamWsRef, mine <- streamMine
Terminal == INSTANCE TerminalTab WITH
  wsRef <- terminalWsRef, mine <- terminalMine
Environment == INSTANCE EnvironmentTab WITH
  rows <- envRows, tabShown <- envTabShown, loading <- envLoading, showAddDialog <- envShowAddDialog,
  editingVar <- envEditingVar, deletingVar <- envDeletingVar, formValue <- envFormValue,
  formFor <- envFormFor, saving <- envSaving, deploying <- envDeploying, requests <- envRequests,
  asked <- envAsked
Settings == INSTANCE AppForms WITH
  app <- formsApp, dirty <- formsDirty, saving <- formsSaving, doubtful <- formsDoubtful
Databases == INSTANCE DatabaseTab WITH
  rows <- databaseRows, dirty <- databaseDirty, saving <- databaseSaving,
  requests <- databaseRequests, asked <- databaseAsked, doubtful <- databaseDoubtful
Workers == INSTANCE WorkersTab WITH
  MaxRequests <- MaxRequests - 1, tabShown <- workersTabShown, jumbled <- workersJumbled
Deploys == INSTANCE DeploymentsTab WITH
  made <- deploysMade, app <- deploysApp, tabShown <- deploysTabShown, deploying <- deploysDeploying,
  requests <- deploysRequests, asked <- deploysAsked, doubtful <- deploysDoubtful
Overview == INSTANCE OverviewTab WITH
  tabShown <- overviewTabShown, app <- overviewApp, loading <- overviewLoading,
  fetches <- overviewFetches, jumbled <- overviewJumbled
Domains == INSTANCE DomainsTab WITH
  MaxRequests <- MaxRequests + 1, rows <- domainRows, loading <- domainLoading,
  showAddDialog <- domainShowAddDialog, saving <- domainSaving, requests <- domainRequests,
  asked <- domainAsked, doubtful <- domainDoubtful
Previews == INSTANCE PreviewsTab WITH
  MaxRequests <- MaxRequests + 1, rows <- previewRows, tabShown <- previewTabShown,
  requests <- previewRequests, asked <- previewAsked, confirmed <- previewConfirmed,
  doubtful <- previewDoubtful
TeamVars == INSTANCE TeamEnv WITH
  MaxRequests <- MaxRequests - 1, rows <- teamEnvRows, showAddDialog <- teamEnvShowAddDialog, editingVar <- teamEnvEditingVar,
  deletingVar <- teamEnvDeletingVar, saving <- teamEnvSaving, formValue <- teamEnvFormValue,
  formFor <- teamEnvFormFor, requests <- teamEnvRequests, asked <- teamEnvAsked,
  doubtful <- teamEnvDoubtful
Storage == INSTANCE TeamStorage WITH
  rows <- storageRows, saving <- storageSaving, requests <- storageRequests,
  asked <- storageAsked, doubtful <- storageDoubtful
Members == INSTANCE TeamMembers WITH
  Names <- OneName, MaxRequests <- MaxRequests - 1, made <- memberMade
Tokens == INSTANCE ApiTokens WITH
  MaxRequests <- MaxRequests + 2, rows <- tokenRows, requests <- tokenRequests,
  asked <- tokenAsked
Analytics == INSTANCE AnalyticsTab WITH
  tabShown <- analyticsTabShown, loading <- analyticsLoading

\* A page that rests starts in one of its initial states.
Init ==
  /\ focus \in Views
  /\ Files!Init /\ Search!Init /\ Stream!Init /\ Terminal!Init
  /\ Environment!Init /\ Settings!Init /\ Databases!Init /\ Workers!Init
  /\ Deploys!Init /\ Overview!Init /\ Domains!Init /\ Previews!Init
  /\ TeamVars!Init /\ Storage!Init /\ Members!Init /\ Tokens!Init
  /\ Analytics!Init
  /\ focus # "env" => envRows = Environment!NoVars
  /\ focus # "database" => Databases!Tracked(databaseRows) = {}
  /\ focus # "overview" => storageWorks
  /\ focus # "member" => isOwner

Rest ==
  /\ UNCHANGED focus
  /\ IF focus = "files" THEN TRUE ELSE UNCHANGED filesVars
  /\ IF focus = "search" THEN TRUE ELSE UNCHANGED searchVars
  /\ IF focus = "stream" THEN TRUE ELSE UNCHANGED streamVars
  /\ IF focus = "terminal" THEN TRUE ELSE UNCHANGED terminalVars
  /\ IF focus = "env" THEN TRUE ELSE UNCHANGED envVars
  /\ IF focus = "forms" THEN TRUE ELSE UNCHANGED formsVars
  /\ IF focus = "database" THEN TRUE ELSE UNCHANGED databaseVars
  /\ IF focus = "workers" THEN TRUE ELSE UNCHANGED workersVars
  /\ IF focus = "deploys" THEN TRUE ELSE UNCHANGED deploysVars
  /\ IF focus = "overview" THEN TRUE ELSE UNCHANGED overviewVars
  /\ IF focus = "domain" THEN TRUE ELSE UNCHANGED domainVars
  /\ IF focus = "preview" THEN TRUE ELSE UNCHANGED previewVars
  /\ IF focus = "teamEnv" THEN TRUE ELSE UNCHANGED teamEnvVars
  /\ IF focus = "storage" THEN TRUE ELSE UNCHANGED storageVars
  /\ IF focus = "member" THEN TRUE ELSE UNCHANGED memberVars
  /\ IF focus = "token" THEN TRUE ELSE UNCHANGED tokenVars
  /\ IF focus = "analytics" THEN TRUE ELSE UNCHANGED analyticsVars

Next ==
  \/ focus = "files" /\ Files!Next /\ Rest
  \/ focus = "search" /\ Search!Next /\ Rest
  \/ focus = "stream" /\ Stream!Next /\ Rest
  \/ focus = "terminal" /\ Terminal!Next /\ Rest
  \/ focus = "env" /\ Environment!Next /\ Rest
  \/ focus = "forms" /\ Settings!Next /\ Rest
  \/ focus = "database" /\ Databases!Next /\ Rest
  \/ focus = "workers" /\ Workers!Next /\ Rest
  \/ focus = "deploys" /\ Deploys!Next /\ Rest
  \/ focus = "overview" /\ Overview!Next /\ Rest
  \/ focus = "domain" /\ Domains!Next /\ Rest
  \/ focus = "preview" /\ Previews!Next /\ Rest
  \/ focus = "teamEnv" /\ TeamVars!Next /\ Rest
  \/ focus = "storage" /\ Storage!Next /\ Rest
  \/ focus = "member" /\ Members!Next /\ Rest
  \/ focus = "token" /\ Tokens!Next /\ Rest
  \/ focus = "analytics" /\ Analytics!Next /\ Rest

Spec == Init /\ [][Next]_vars

\* A request of the page looked at is served, or fails, and its answer is
\* handled; so is an event of a WebSocket.  They are few, so that it is enough
\* that some are for as long as there are any.
Served ==
  /\ \/ focus = "files" /\ Files!Served
     \/ focus = "search" /\ Search!Served
     \/ focus = "terminal" /\ Terminal!Served
     \/ focus = "env" /\ Environment!Served
     \/ focus = "overview" /\ Overview!Served
     \/ focus = "domain" /\ Domains!Served
     \/ focus = "analytics" /\ Analytics!Served
  /\ Rest

\* A page that shows a skeleton, "Searching...", "Connecting..." or "Loading...".
Waiting ==
  \/ focus = "files" /\ Files!Mounted /\ filesLoading
  \/ focus = "search" /\ Search!Searching
  \/ focus = "terminal" /\ status = "connecting"
  \/ focus = "env" /\ envTabShown /\ envLoading
  \/ focus = "overview" /\ overviewTabShown /\ overviewLoading
  \/ focus = "domain" /\ domainLoading
  \/ focus = "analytics" /\ analyticsTabShown /\ analyticsLoading

\* All that is asked of the panel and the network is that they go on while a
\* page waits; no step of a user, a timer or another window is owed.
FairSpec == Spec /\ WF_vars(Waiting /\ Served)

-----------------------------------------------------------------------------
TypeOK ==
  /\ focus \in Views
  /\ Files!TypeOK /\ Search!TypeOK /\ Stream!TypeOK /\ Terminal!TypeOK
  /\ Environment!TypeOK /\ Settings!TypeOK /\ Databases!TypeOK /\ Workers!TypeOK
  /\ Deploys!TypeOK /\ Overview!TypeOK /\ Domains!TypeOK /\ Previews!TypeOK
  /\ TeamVars!TypeOK /\ Storage!TypeOK /\ Members!TypeOK /\ Tokens!TypeOK
  /\ Analytics!TypeOK

(***************************************************************************)
(* Back and forward lead to what was seen: the page shows the tab and the  *)
(* directory of the current entry of the browser's history, but for the    *)
(* entries Inertia has written without a tab (show.tsx).                   *)
(***************************************************************************)
ViewIsTheEntry == Files!ViewIsTheEntry

(***************************************************************************)
(* What a page shows is what it says it shows: the directory named above   *)
(* the files, the filters above the results of a search, the worker above  *)
(* the log, the app whose uptime it is, the bar of the chart.  Each page   *)
(* makes its own exceptions, of an answer that was lost or overtaken.      *)
(***************************************************************************)
NamedRightly ==
  /\ Files!ListsWhereItIs
  /\ Search!ResultIsForFilters
  /\ Workers!LogIsOfWorker
  /\ Overview!UptimeIsOfSlug
  /\ Analytics!DescribesABar

(***************************************************************************)
(* Every list that is fetched again after a change, and the secret of the  *)
(* webhook, is what the panel has once nothing is in flight, unless an     *)
(* answer was lost or overtaken, or as the page says.                      *)
(***************************************************************************)
ListsAreCurrent ==
  /\ Domains!ListIsCurrent /\ Previews!ListIsCurrent
  /\ TeamVars!ListIsCurrent /\ Storage!ListIsCurrent
  /\ Members!MembersAreCurrent /\ Tokens!ListIsCurrent
  /\ Deploys!SecretIsCurrent

(***************************************************************************)
(* Whatever the listing shows by then, a file leaves the build directory,  *)
(* and a preview is destroyed, only after a dialog that named it was       *)
(* confirmed.                                                              *)
(***************************************************************************)
DeletesWhatWasConfirmed == Files!DeletesWhatWasConfirmed /\ Previews!DestroysWhatWasConfirmed

(***************************************************************************)
(* No WebSocket of the log stream outlives the tab that opened it, except  *)
(* as LogStream says (logs-tab.tsx).                                       *)
(***************************************************************************)
NoStrayStream == Stream!NoStrayStream

(***************************************************************************)
(* What a tab says of its WebSocket is so: one that streams logs has one,  *)
(* and a terminal that is connected has one that is open (logs-tab.tsx,    *)
(* terminal-tab.tsx).                                                      *)
(***************************************************************************)
ConnectedMeansOpen == Stream!StreamingHasSocket /\ Terminal!ConnectedMeansOpen

\* A key typed in the terminal reaches one shell, except as TerminalTab says.
TypesIntoOneShell == Terminal!TypesIntoOneShell

(***************************************************************************)
(* A variable that was changed in this visit of the tab and after the last *)
(* deploy is announced by the banner that offers to deploy, except as      *)
(* EnvironmentTab says (environment-tab.tsx).                              *)
(***************************************************************************)
ChangesAreAnnounced == Environment!ChangesAreAnnounced

(***************************************************************************)
(* The dialogs of a page share one form: what is sent for a variable was   *)
(* entered for it (environment-tab.tsx, team-env.tsx).                     *)
(***************************************************************************)
SendsItsOwnText == Environment!SendsItsOwnText /\ TeamVars!SendsItsOwnText

\* A database that is backed up is persistent, and a deploy keeps it, except as
\* DatabaseTab says (database-tab.tsx, AppController.php).
BackupNeedsPersistent == Databases!BackupNeedsPersistent

(***************************************************************************)
(* A form that says it has no unsaved changes shows what the panel has,    *)
(* except as AppForms and DatabaseTab say.                                 *)
(***************************************************************************)
CleanMeansStored == Settings!CleanMeansStored /\ Databases!CleanMeansStored

\* The status of workers does not change once the VM has stopped (workers-tab.tsx).
NoLateStatus == Workers!NoLateStatus

\* A card that was dismissed does not come back (overview-tab.tsx).
DismissedStays == Overview!DismissedStays

\* A team has at most one default endpoint, except as TeamStorage says.
AtMostOneDefault == Storage!AtMostOneDefault

(***************************************************************************)
(* No page waits for ever: a skeleton gives way to what was fetched, and   *)
(* "Connecting..." and "Loading..." end.  "Searching..." ends as well, but *)
(* for a first search that failed: nothing takes the word away, or starts  *)
(* another search (logs-tab.tsx).                                          *)
(***************************************************************************)
WaitingEnds == Waiting ~> (~ Waiting \/ (focus = "search" /\ Search!GivenUp))
=============================================================================
