----------------------------- MODULE FilesProofs ----------------------------
(***************************************************************************)
(* Proofs about the Files tab and the history of the browser (FileBrowser), *)
(* for any directories, length of the history and number of requests.      *)
(***************************************************************************)
EXTENDS ListingProofs, SequenceTheorems

\* The requests rs are as they should be when n were sent and the dialogs
\* confirmed have named c: a deletion is of something that was named.
FilesProper(rs, n, c) ==
  \A r \in rs : r \in Files!Request /\ r.id <= n /\ (r.kind = "delete" => r.file \in c)

\* What a page holds beside its history and its requests.
FilesPageOK ==
  /\ activeTab \in Files!Tabs /\ fileBrowserPath \in Files!Dirs
  /\ filesItems \in Files!Listing /\ filesLoading \in BOOLEAN
  /\ uploading \in BOOLEAN /\ writing \in BOOLEAN /\ showWriteDialog \in BOOLEAN
  /\ deletingItem \in Files!Dirs \cup {NoDir}
  /\ disk \subseteq Files!Dirs /\ pins \subseteq Files!Dirs
  /\ filesConfirmed \subseteq Files!Dirs /\ astray \in BOOLEAN

FilesHistoryOK ==
  /\ entries \in Seq(Files!Entry) /\ filesEntry \in 1 .. Len(entries) /\ Len(entries) <= MaxEntries
  /\ Files!ViewIsTheEntry

FilesRequestsOK == filesAsked \in Nat /\ FilesProper(filesRequests, filesAsked, filesConfirmed)

FilesIInv == FilesPageOK /\ FilesHistoryOK /\ FilesRequestsOK

LEMMA FilesTypes == FilesIInv => Files!TypeOK /\ Files!ViewIsTheEntry
BY DEF FilesIInv, FilesPageOK, FilesHistoryOK, FilesRequestsOK, FilesProper, Files!TypeOK

LEMMA RootIsDir == Root \in Files!Dirs /\ MaxEntries \in Nat \ {0}
BY BoundsAssumption DEF Files!Dirs

LEMMA FilesInitIInv == Files!Init => FilesIInv
<1> SUFFICES ASSUME Files!Init PROVE FilesIInv
  OBVIOUS
<1>1. FilesPageOK
  BY RootIsDir DEF Files!Init, FilesPageOK, Files!Tabs, Files!Listing, Files!NoItems
<1>2. FilesHistoryOK
  BY RootIsDir DEF Files!Init, FilesHistoryOK, Files!ViewIsTheEntry, Files!Mounted, Files!Entry,
     Files!Tabs
<1>3. FilesRequestsOK
  BY DEF Files!Init, FilesRequestsOK, FilesProper
<1> QED
  BY <1>1, <1>2, <1>3 DEF FilesIInv

(***************************************************************************)
(* Requests.                                                               *)
(***************************************************************************)
LEMMA NewIsProper ==
  ASSUME FilesIInv, NEW kind \in {"list", "upload", "write", "delete", "pin", "unpin"},
         NEW dir \in Files!Dirs, NEW file \in Files!Dirs
  PROVE  /\ Files!New(kind, dir, file) \in Files!Request
           /\ Files!New(kind, dir, file).id = filesAsked + 1
         /\ Files!New(kind, dir, file).kind = kind /\ Files!New(kind, dir, file).file = file
BY DEF FilesIInv, FilesRequestsOK, Files!New, Files!Request, Files!Listing, Files!NoItems

LEMMA FilesForgotten ==
  ASSUME FilesIInv, NEW r
  PROVE  FilesProper(filesRequests \ {r}, filesAsked, filesConfirmed)
BY DEF FilesIInv, FilesRequestsOK, FilesProper

LEMMA UnheardIsProper == FilesIInv => FilesProper(Files!Unheard, filesAsked, filesConfirmed)
BY DEF FilesIInv, FilesRequestsOK, FilesProper, Files!Unheard, Files!Request

LEMMA FilesFetching ==
  ASSUME FilesIInv, NEW d \in Files!Dirs, NEW rs, FilesProper(rs, filesAsked, filesConfirmed),
         Files!FetchItems(d, rs),
         filesConfirmed' = filesConfirmed
  PROVE  FilesRequestsOK' /\ filesLoading' = TRUE
<1> DEFINE new == Files!New("list", d, d)
<1>1. new \in Files!Request /\ new.id = filesAsked + 1 /\ new.kind = "list"
  BY NewIsProper
<1>2. filesAsked \in Nat /\ filesAsked' = filesAsked + 1 /\ filesRequests' = rs \cup {new}
        /\ filesLoading' = TRUE
  BY DEF FilesIInv, FilesRequestsOK, Files!FetchItems
<1> HIDE DEF new
<1>3. \A r \in rs : r \in Files!Request /\ r.id \in Nat /\ r.id <= filesAsked
  BY DEF FilesProper, Files!Request
<1>4. FilesProper(filesRequests', filesAsked', filesConfirmed')
  BY <1>1, <1>2, <1>3 DEF FilesProper
<1> QED
  BY <1>2, <1>4 DEF FilesRequestsOK

LEMMA FilesChanges ==
  ASSUME FilesIInv, NEW kind \in {"upload", "write", "delete", "pin", "unpin"},
         NEW file \in Files!Dirs,
         Files!Change(kind, file), filesConfirmed \subseteq filesConfirmed', kind = "delete"
           => file \in filesConfirmed'
  PROVE  FilesRequestsOK'
<1> DEFINE new == Files!New(kind, fileBrowserPath, file)
<1>1. new \in Files!Request /\ new.id = filesAsked + 1 /\ new.kind = kind /\ new.file = file
  BY NewIsProper DEF FilesIInv, FilesPageOK
<1>2. filesAsked \in Nat /\ filesAsked' = filesAsked + 1 /\ filesRequests' = filesRequests \cup {new}
  BY DEF FilesIInv, FilesRequestsOK, Files!Change
<1> HIDE DEF new
<1>3. \A r \in filesRequests : /\ r \in Files!Request /\ r.id \in Nat /\ r.id <= filesAsked
                               /\ r.kind = "delete" => r.file \in filesConfirmed
  BY DEF FilesIInv, FilesRequestsOK, FilesProper, Files!Request
<1>4. FilesProper(filesRequests', filesAsked', filesConfirmed')
  BY <1>1, <1>2, <1>3 DEF FilesProper
<1> QED
  BY <1>2, <1>4 DEF FilesRequestsOK

(***************************************************************************)
(* Moving to a tab and directory.                                          *)
(***************************************************************************)
LEMMA FilesShowIInv ==
  ASSUME FilesIInv, NEW t \in Files!Tabs, NEW p \in Files!Dirs, Files!Show(t, p)
  PROVE  FilesPageOK' /\ FilesRequestsOK' /\ activeTab' = t /\ fileBrowserPath' = p
<1>1. activeTab' = t /\ fileBrowserPath' = p /\ UNCHANGED <<disk, pins, filesConfirmed>>
  BY DEF Files!Show, Files!server
<1>2. Files!NoItems \in Files!Listing
  BY DEF Files!NoItems, Files!Listing
<1>3. CASE t # "files"
  <2>1. FilesRequestsOK'
    BY <1>1, <1>3, UnheardIsProper DEF Files!Show, FilesRequestsOK, FilesIInv
  <2>2. FilesPageOK'
    BY <1>1, <1>2, <1>3 DEF Files!Show, Files!Fresh, FilesPageOK, FilesIInv
  <2> QED
    BY <1>1, <2>1, <2>2
<1>4. CASE t = "files" /\ ~ Files!Mounted
  <2>1. Files!Fresh /\ Files!FetchItems(p, Files!Unheard) /\ astray' = FALSE
    BY <1>4 DEF Files!Show
  <2>2. FilesRequestsOK' /\ filesLoading' = TRUE
    BY <1>1, <2>1, UnheardIsProper, FilesFetching
  <2>3. FilesPageOK'
    BY <1>1, <1>2, <2>1, <2>2 DEF Files!Fresh, FilesPageOK, FilesIInv
  <2> QED
    BY <1>1, <2>2, <2>3
<1>5. CASE t = "files" /\ Files!Mounted /\ p # fileBrowserPath
  <2>1. Files!FetchItems(p, filesRequests) /\ astray' = (astray \/ Files!Changing)
          /\ UNCHANGED <<filesItems, Files!dialogs>>
    BY <1>5 DEF Files!Show
  <2>2. FilesRequestsOK' /\ filesLoading' = TRUE
    BY <1>1, <2>1, FilesFetching DEF FilesIInv, FilesRequestsOK
  <2>3. FilesPageOK'
    BY <1>1, <2>1, <2>2 DEF Files!dialogs, FilesPageOK, FilesIInv
  <2> QED
    BY <1>1, <2>2, <2>3
<1>6. CASE t = "files" /\ Files!Mounted /\ p = fileBrowserPath
  <2>1. UNCHANGED <<Files!view, Files!dialogs, filesRequests, filesAsked, astray>>
    BY <1>6 DEF Files!Show
  <2> QED
    BY <1>1, <2>1 DEF Files!view, Files!dialogs, FilesPageOK, FilesRequestsOK, FilesIInv
<1> QED
  BY <1>3, <1>4, <1>5, <1>6

LEMMA FilesPushed ==
  ASSUME FilesIInv, NEW t \in Files!Tabs, NEW p \in Files!Dirs, Files!PushState(t, p)
  PROVE  /\ entries' \in Seq(Files!Entry) /\ filesEntry' \in 1 .. Len(entries')
           /\ Len(entries') <= MaxEntries
         /\ entries'[filesEntry'] = [tab |-> t, path |-> p]
<1> DEFINE old == SubSeq(entries, 1, filesEntry)
           new == [tab |-> t, path |-> p]
<1>1. entries \in Seq(Files!Entry) /\ filesEntry \in 1 .. Len(entries) /\ filesEntry < MaxEntries
        /\ new \in Files!Entry
  BY DEF FilesIInv, FilesHistoryOK, Files!PushState, Files!Entry
<1>2. old \in Seq(Files!Entry) /\ Len(old) = filesEntry
  BY <1>1, SubSeqProperties, ElementOfSeq
<1>3. entries' = Append(old, new) /\ filesEntry' = filesEntry + 1
  BY DEF Files!PushState
<1> HIDE DEF old, new
<1>4. entries' \in Seq(Files!Entry) /\ Len(entries') = filesEntry + 1
        /\ entries'[filesEntry + 1] = new
  BY <1>1, <1>2, <1>3
<1> QED
  BY <1>1, <1>3, <1>4, RootIsDir DEF new

LEMMA FilesUnmoved ==
  ASSUME FilesIInv, Files!Unmoved
  PROVE  FilesPageOK' /\ FilesRequestsOK' /\ activeTab' = activeTab /\ fileBrowserPath' = fileBrowserPath
BY DEF Files!Unmoved, Files!view, Files!dialogs, Files!server, FilesPageOK, FilesRequestsOK, FilesIInv

\* The current entry is written anew.
LEMMA FilesWritten ==
  ASSUME FilesIInv, NEW e \in Files!Entry, entries' = [entries EXCEPT ![filesEntry] = e], UNCHANGED filesEntry
  PROVE  /\ entries' \in Seq(Files!Entry) /\ filesEntry' \in 1 .. Len(entries')
         /\ Len(entries') <= MaxEntries
         /\ entries'[filesEntry'] = e
<1>1. entries \in Seq(Files!Entry) /\ filesEntry \in 1 .. Len(entries) /\ Len(entries) <= MaxEntries
  BY DEF FilesIInv, FilesHistoryOK
<1>2. entries' \in Seq(Files!Entry) /\ Len(entries') = Len(entries)
  BY <1>1, ExceptSeq
<1> QED
  BY <1>1, <1>2

LEMMA FilesMoveIInv ==
  ASSUME FilesIInv,
         \/ \E t \in Files!Tabs : Files!HandleTabChange(t)
         \/ \E p \in Files!Dirs : Files!HandleFilesNavigate(p)
         \/ \E i \in {filesEntry - 1, filesEntry + 1} : Files!HandlePopState(i)
         \/ Files!InertiaWrites \/ Files!Mount
  PROVE  FilesIInv'
<1> USE RootIsDir
<1>0. fileBrowserPath \in Files!Dirs
  BY DEF FilesIInv, FilesPageOK
<1>1. CASE \E t \in Files!Tabs : Files!HandleTabChange(t)
  <2> PICK t \in Files!Tabs : Files!HandleTabChange(t)
    BY <1>1
  <2>1. Files!Show(t, fileBrowserPath)
          /\ Files!PushState(t, IF t = "files" THEN fileBrowserPath ELSE Root)
    BY DEF Files!HandleTabChange
  <2>2. FilesPageOK' /\ FilesRequestsOK' /\ activeTab' = t /\ fileBrowserPath' = fileBrowserPath
    BY <1>0, <2>1, FilesShowIInv
  <2>3. /\ entries' \in Seq(Files!Entry) /\ filesEntry' \in 1 .. Len(entries')
        /\ Len(entries') <= MaxEntries
        /\ entries'[filesEntry'] = [tab |-> t, path |-> IF t = "files" THEN fileBrowserPath ELSE Root]
    BY <1>0, <2>1, FilesPushed
  <2> QED
    BY <2>2, <2>3 DEF FilesIInv, FilesHistoryOK, Files!ViewIsTheEntry, Files!Mounted
<1>2. CASE \E p \in Files!Dirs : Files!HandleFilesNavigate(p)
  <2> PICK p \in Files!Dirs : Files!HandleFilesNavigate(p)
    BY <1>2
  <2>1. Files!Show("files", p) /\ Files!PushState("files", p)
    BY DEF Files!HandleFilesNavigate
  <2>2. FilesPageOK' /\ FilesRequestsOK' /\ activeTab' = "files" /\ fileBrowserPath' = p
    BY <2>1, FilesShowIInv DEF Files!Tabs
  <2>3. /\ entries' \in Seq(Files!Entry) /\ filesEntry' \in 1 .. Len(entries')
        /\ Len(entries') <= MaxEntries
        /\ entries'[filesEntry'] = [tab |-> "files", path |-> p]
    BY <2>1, FilesPushed DEF Files!Tabs
  <2> QED
    BY <2>2, <2>3 DEF FilesIInv, FilesHistoryOK, Files!ViewIsTheEntry, Files!Mounted
<1>3. CASE \E i \in {filesEntry - 1, filesEntry + 1} : Files!HandlePopState(i)
  <2> PICK i \in {filesEntry - 1, filesEntry + 1} : Files!HandlePopState(i)
    BY <1>3
  <2>1. i \in 1 .. Len(entries) /\ filesEntry' = i /\ UNCHANGED entries
    BY DEF Files!HandlePopState
  <2>2. entries[i] \in Files!Entry
    BY <2>1, ElementOfSeq DEF FilesIInv, FilesHistoryOK
  <2>3. entries[i].path \in Files!Dirs /\ (entries[i].tab # Files!NoTab => entries[i].tab \in Files!Tabs)
    BY <2>2 DEF Files!Entry
  <2>4. CASE entries[i].tab # Files!NoTab
    <3>1. Files!Show(entries[i].tab, entries[i].path)
      BY <2>4 DEF Files!HandlePopState
    <3>2. FilesPageOK' /\ FilesRequestsOK' /\ activeTab' = entries[i].tab
            /\ fileBrowserPath' = entries[i].path
      BY <2>3, <2>4, <3>1, FilesShowIInv
    <3> QED
      BY <2>1, <3>2 DEF FilesIInv, FilesHistoryOK, Files!ViewIsTheEntry, Files!Mounted
  <2>5. CASE entries[i].tab = Files!NoTab
    <3>1. Files!Unmoved
      BY <2>5 DEF Files!HandlePopState
    <3> QED
      BY <2>1, <2>5, <3>1, FilesUnmoved DEF FilesIInv, FilesHistoryOK, Files!ViewIsTheEntry
  <2> QED
    BY <2>4, <2>5
<1>4. CASE Files!InertiaWrites
  <2> DEFINE e == [tab |-> Files!NoTab, path |-> Root]
  <2>1. /\ entries' = [entries EXCEPT ![filesEntry] = e]
        /\ Files!Unmoved /\ UNCHANGED filesEntry
    BY <1>4 DEF Files!InertiaWrites
  <2>2. e \in Files!Entry /\ e.tab = Files!NoTab
    BY DEF Files!Entry
  <2> HIDE DEF e
  <2> QED
    BY <2>1, <2>2, FilesWritten, FilesUnmoved DEF FilesIInv, FilesHistoryOK, Files!ViewIsTheEntry
<1>5. CASE Files!Mount
  <2> DEFINE e == [tab |-> "overview", path |-> Root]
  <2>1. /\ entries' = [entries EXCEPT ![filesEntry] = e]
        /\ Files!Show("overview", Root) /\ UNCHANGED filesEntry
    BY <1>5 DEF Files!Mount
  <2>2. e \in Files!Entry /\ e.tab = "overview" /\ "overview" \in Files!Tabs
    BY DEF Files!Entry, Files!Tabs
  <2> HIDE DEF e
  <2>3. FilesPageOK' /\ FilesRequestsOK' /\ activeTab' = "overview"
    BY <2>1, <2>2, FilesShowIInv
  <2> QED
    BY <2>1, <2>2, <2>3, FilesWritten DEF FilesIInv, FilesHistoryOK, Files!ViewIsTheEntry, Files!Mounted
<1> QED
  BY <1>1, <1>2, <1>3, <1>4, <1>5

(***************************************************************************)
(* The Files tab.                                                          *)
(***************************************************************************)
\* Nothing but Show and PushState touches the history and the view.
LEMMA FilesStays ==
  ASSUME FilesIInv, UNCHANGED <<activeTab, fileBrowserPath, entries, filesEntry>>
  PROVE  FilesHistoryOK'
BY DEF FilesIInv, FilesHistoryOK, Files!ViewIsTheEntry, Files!Mounted

LEMMA FilesTabIInv ==
  ASSUME FilesIInv,
         \/ Files!Refresh \/ Files!HandleUpload \/ Files!WriteDialog \/ Files!HandleWrite
         \/ \E d \in Files!Dirs : Files!DeleteDialog(d)
         \/ Files!CancelDelete \/ Files!HandleDelete \/ Files!HandleTogglePersistent
  PROVE  FilesIInv'
<1>1. UNCHANGED <<activeTab, fileBrowserPath, entries, filesEntry, filesItems, disk, pins, astray>>
  BY DEF Files!Refresh, Files!HandleUpload, Files!WriteDialog, Files!HandleWrite,
     Files!DeleteDialog, Files!CancelDelete, Files!HandleDelete, Files!HandleTogglePersistent,
     Files!server, Files!view
<1>2. FilesHistoryOK' /\ fileBrowserPath \in Files!Dirs
  BY <1>1, FilesStays DEF FilesIInv, FilesPageOK
<1>3. CASE Files!Refresh
  <2>1. FilesRequestsOK' /\ filesLoading' = TRUE
    BY <1>2, <1>3, FilesFetching DEF Files!Refresh, FilesIInv, FilesRequestsOK
  <2> QED
    BY <1>1, <1>2, <1>3, <2>1 DEF Files!Refresh, Files!dialogs, FilesIInv, FilesPageOK
<1>4. CASE Files!HandleUpload
  <2>1. FilesRequestsOK'
    BY <1>2, <1>4, FilesChanges DEF Files!HandleUpload
  <2> QED
    BY <1>1, <1>2, <1>4, <2>1 DEF Files!HandleUpload, Files!view, FilesIInv, FilesPageOK
<1>5. CASE Files!HandleWrite
  <2>1. FilesRequestsOK'
    BY <1>2, <1>5, FilesChanges DEF Files!HandleWrite
  <2> QED
    BY <1>1, <1>2, <1>5, <2>1 DEF Files!HandleWrite, Files!view, FilesIInv, FilesPageOK
<1>6. CASE Files!HandleDelete
  <2>1. deletingItem \in Files!Dirs /\ Files!Change("delete", deletingItem)
          /\ filesConfirmed' = filesConfirmed \cup {deletingItem}
    BY <1>6 DEF Files!HandleDelete, FilesIInv, FilesPageOK
  <2>2. FilesRequestsOK'
    BY <2>1, FilesChanges
  <2> QED
    BY <1>1, <1>2, <1>6, <2>1, <2>2 DEF Files!HandleDelete, Files!view, FilesIInv, FilesPageOK
<1>7. CASE Files!HandleTogglePersistent
  <2>1. filesItems.dir \in Files!Dirs
    BY <1>7 DEF Files!HandleTogglePersistent, FilesIInv, FilesPageOK, Files!Listing, Files!NoItems
  <2>2. FilesRequestsOK'
    BY <1>7, <2>1, FilesChanges DEF Files!HandleTogglePersistent
  <2> QED
    BY <1>1, <1>2, <1>7, <2>2 DEF Files!HandleTogglePersistent, Files!view, Files!dialogs,
       FilesIInv, FilesPageOK
<1>8. CASE Files!WriteDialog \/ Files!CancelDelete \/ \E d \in Files!Dirs : Files!DeleteDialog(d)
  <2>1. UNCHANGED <<filesRequests, filesAsked, filesConfirmed>>
    BY <1>8 DEF Files!WriteDialog, Files!CancelDelete, Files!DeleteDialog
  <2>2. FilesPageOK'
    BY <1>1, <1>8 DEF Files!WriteDialog, Files!CancelDelete, Files!DeleteDialog, Files!view,
       FilesIInv, FilesPageOK
  <2> QED
    BY <1>2, <2>1, <2>2 DEF FilesIInv, FilesRequestsOK
<1> QED
  BY <1>3, <1>4, <1>5, <1>6, <1>7, <1>8

(***************************************************************************)
(* The panel serves a request, the answer reaches the page.                *)
(***************************************************************************)
LEMMA FilesAnswerIInv ==
  ASSUME FilesIInv, NEW r \in filesRequests, Files!Serve(r) \/ Files!Fails(r) \/ Files!Answer(r)
  PROVE  FilesIInv'
<1>1. UNCHANGED <<activeTab, fileBrowserPath, entries, filesEntry, filesConfirmed>>
  BY DEF Files!Serve, Files!Fails, Files!Answer, Files!Listed, Files!Changed, Files!NotChanged,
     Files!Unheeded
<1>2. FilesHistoryOK'
  BY <1>1, FilesStays
<1>3. r \in Files!Request /\ r.id <= filesAsked /\ (r.kind = "delete" => r.file \in filesConfirmed)
        /\ filesAsked \in Nat
  BY DEF FilesIInv, FilesRequestsOK, FilesProper
<1>4. r.file \in Files!Dirs /\ r.dir \in Files!Dirs /\ r.data \in Files!Listing
  BY <1>3 DEF Files!Request
<1>5. Files!NoItems \in Files!Listing
  BY DEF Files!NoItems, Files!Listing
<1>6. FilesProper(filesRequests \ {r}, filesAsked, filesConfirmed)
  BY FilesForgotten
<1>7. CASE Files!Serve(r)
  <2> DEFINE listed == [dir |-> r.file, file |-> r.file \in disk, pinned |-> r.file \in pins]
             data == IF r.kind = "list" THEN listed ELSE Files!NoItems
  <2>0. data \in Files!Listing
    BY <1>4, <1>5 DEF Files!Listing
  <2>1. filesRequests' = (filesRequests \ {r}) \cup {[r EXCEPT !.state = "ok", !.data = data]}
    BY <1>7 DEF Files!Serve
  <2> HIDE DEF data
  <2>2. FilesRequestsOK'
    BY <1>1, <1>3, <1>6, <1>7, <2>0, <2>1 DEF Files!Serve, FilesRequestsOK, FilesProper,
       Files!Request
  <2>3. disk' \subseteq Files!Dirs /\ pins' \subseteq Files!Dirs
    BY <1>4, <1>7 DEF Files!Serve, FilesIInv, FilesPageOK
  <2> QED
    BY <1>1, <1>2, <1>7, <2>2, <2>3 DEF Files!Serve, Files!view, Files!dialogs, FilesIInv,
       FilesPageOK
<1>8. CASE Files!Fails(r)
  <2>1. FilesRequestsOK'
    BY <1>1, <1>3, <1>6, <1>8 DEF Files!Fails, FilesRequestsOK, FilesProper, Files!Request
  <2> QED
    BY <1>1, <1>2, <1>8, <2>1 DEF Files!Fails, Files!view, Files!dialogs, Files!server, FilesIInv,
       FilesPageOK
<1>9. CASE Files!Listed(r)
  <2>1. FilesRequestsOK'
    BY <1>1, <1>3, <1>6, <1>9 DEF Files!Listed, FilesRequestsOK
  <2>2. filesItems' \in Files!Listing
    BY <1>4, <1>5, <1>9 DEF Files!Listed, FilesIInv, FilesPageOK
  <2> QED
    BY <1>1, <1>2, <1>9, <2>1, <2>2 DEF Files!Listed, Files!dialogs, Files!server, FilesIInv,
       FilesPageOK
<1>10. CASE Files!Changed(r)
  <2>1. FilesRequestsOK' /\ filesLoading' = TRUE
    BY <1>1, <1>4, <1>6, <1>10, FilesFetching DEF Files!Changed
  <2>2. FilesPageOK'
    BY <1>1, <1>10, <2>1 DEF Files!Changed, Files!server, FilesIInv, FilesPageOK
  <2> QED
    BY <1>2, <2>1, <2>2 DEF FilesIInv
<1>11. CASE Files!NotChanged(r) \/ Files!Unheeded(r)
  <2>1. FilesRequestsOK'
    BY <1>1, <1>3, <1>6, <1>11 DEF Files!NotChanged, Files!Unheeded, FilesRequestsOK
  <2>2. FilesPageOK'
    BY <1>1, <1>11 DEF Files!NotChanged, Files!Unheeded, Files!view, Files!dialogs, Files!server,
       FilesIInv, FilesPageOK
  <2> QED
    BY <1>2, <2>1, <2>2 DEF FilesIInv
<1> QED
  BY <1>7, <1>8, <1>9, <1>10, <1>11 DEF Files!Answer

LEMMA FilesNextIInv == FilesIInv /\ [Files!Next]_(Files!vars) => FilesIInv'
<1> SUFFICES ASSUME FilesIInv, [Files!Next]_(Files!vars) PROVE FilesIInv'
  OBVIOUS
<1>1. CASE UNCHANGED Files!vars
  BY <1>1 DEF Files!vars, Files!view, Files!dialogs, Files!server, FilesIInv, FilesPageOK,
     FilesHistoryOK, Files!ViewIsTheEntry, Files!Mounted, FilesRequestsOK
<1> QED
  BY <1>1, FilesMoveIInv, FilesTabIInv, FilesAnswerIInv DEF Files!Next

\* The inductive invariant holds in every reachable state.
THEOREM FilesInvariance == Files!Spec => []FilesIInv
BY FilesInitIInv, FilesNextIInv, PTL DEF Files!Spec

\* Every variable keeps its type.
THEOREM FilesTypeCorrect == Files!Spec => []Files!TypeOK
<1>1. FilesIInv => Files!TypeOK
  BY FilesTypes
<1> QED
  BY <1>1, FilesInvariance, PTL

\* The page shows the tab and the directory of the current entry of the browser's
\* history, however tabs, links, back and forward follow each other, wherever Inertia
\* has not written the entry anew (show.tsx).
THEOREM ViewFollowsHistory == Files!Spec => []Files!ViewIsTheEntry
<1>1. FilesIInv => Files!ViewIsTheEntry
  BY FilesTypes
<1> QED
  BY <1>1, FilesInvariance, PTL

\* A file leaves the build directory only after a dialog that named it was
\* confirmed, whatever the listing shows by then (files-tab.tsx).
THEOREM DeletionsConfirmed == Files!Spec => Files!DeletesWhatWasConfirmed
<1>1. FilesIInv /\ [Files!Next]_(Files!vars) => [disk \ disk' \subseteq filesConfirmed]_(Files!vars)
  <2> SUFFICES ASSUME FilesIInv, Files!Next PROVE disk \ disk' \subseteq filesConfirmed
    OBVIOUS
  <2>1. ASSUME NEW r \in filesRequests, Files!Serve(r) PROVE disk \ disk' \subseteq filesConfirmed
    <3>1. r.kind = "delete" => r.file \in filesConfirmed
      BY DEF FilesIInv, FilesRequestsOK, FilesProper
    <3> QED
      BY <2>1, <3>1 DEF Files!Serve
  <2>2. ASSUME ~ \E r \in filesRequests : Files!Serve(r) PROVE disk' = disk
    BY <2>2 DEF Files!Next, Files!HandleTabChange, Files!HandleFilesNavigate, Files!HandlePopState,
       Files!InertiaWrites, Files!Mount, Files!Unmoved, Files!Show, Files!Refresh, Files!HandleUpload, Files!WriteDialog, Files!HandleWrite,
       Files!DeleteDialog, Files!CancelDelete, Files!HandleDelete, Files!HandleTogglePersistent,
       Files!Fails, Files!Answer, Files!Listed, Files!Changed, Files!NotChanged, Files!Unheeded,
       Files!server
  <2> QED
    BY <2>1, <2>2
<1> QED
  BY <1>1, FilesInvariance, PTL DEF Files!Spec, Files!DeletesWhatWasConfirmed

-----------------------------------------------------------------------------
(***************************************************************************)
(* The listing of the Files tab.  Of the requests rs that are heard, those *)
(* for a change were made in the directory on the page, path, the listing  *)
(* asked for last is of that directory, and if there is none so is the one *)
(* shown, which is of dir.                                                 *)
(***************************************************************************)
HeardList(r) == r.heard /\ r.kind = "list"
HeardChange(r) == r.heard /\ r.kind # "list"
NewestList(rs, r) == r \in rs /\ HeardList(r) /\ \A o \in rs : HeardList(o) => o.id <= r.id

LeadsTo(rs, path, dir) ==
  /\ \A r \in rs : HeardChange(r) => r.dir = path
  /\ \A r \in rs : NewestList(rs, r) => r.file = path
  /\ (\A r \in rs : ~ HeardList(r)) => dir = path

WhereIInv ==
  /\ Numbered(filesRequests, filesAsked)
  /\ \A r \in filesRequests : r.kind = "list" /\ r.state = "ok" => r.data.dir = r.file
  /\ ~ Files!Mounted => \A r \in filesRequests : ~ r.heard
  /\ Files!Mounted /\ ~ astray => LeadsTo(filesRequests, fileBrowserPath, filesItems.dir)

\* A listing is asked for ...
LEMMA LeadsAsked ==
  ASSUME NEW rs, NEW n \in Nat, Numbered(rs, n), NEW path, NEW dir,
         \A r \in rs : HeardChange(r) => r.dir = path,
         NEW l, l.heard, l.kind = "list", l.id = n + 1, l.file = path
  PROVE  LeadsTo(rs \cup {l}, path, dir)
<1>1. \A r \in rs : r.id \in Nat /\ r.id < l.id
  BY DEF Numbered
<1>2. \A r \in rs \cup {l} : NewestList(rs \cup {l}, r) => r = l
  BY <1>1 DEF NewestList, HeardList
<1> QED
  BY <1>2 DEF LeadsTo, HeardList, HeardChange

\* ... a change is asked for ...
LEMMA LeadsChange ==
  ASSUME NEW rs, NEW path, NEW dir, LeadsTo(rs, path, dir), NEW l, l.kind # "list", l.dir = path
  PROVE  LeadsTo(rs \cup {l}, path, dir)
BY DEF LeadsTo, HeardList, HeardChange, NewestList

\* ... the panel serves either ...
LEMMA LeadsServed ==
  ASSUME NEW rs, NEW path, NEW dir, LeadsTo(rs, path, dir), NEW r \in rs, NEW t,
         t.id = r.id, t.heard = r.heard, t.kind = r.kind, t.dir = r.dir, t.file = r.file
  PROVE  LeadsTo((rs \ {r}) \cup {t}, path, dir)
<1> DEFINE ts == (rs \ {r}) \cup {t}
<1>1. \A o \in rs : \E x \in ts : x.id = o.id /\ x.heard = o.heard /\ x.kind = o.kind
  OBVIOUS
<1>2. \A x \in ts : \E o \in rs : /\ x.id = o.id /\ x.heard = o.heard /\ x.kind = o.kind
                                  /\ x.dir = o.dir /\ x.file = o.file
  OBVIOUS
<1> HIDE DEF ts
<1>3. ASSUME NEW x \in ts, HeardChange(x) PROVE x.dir = path
  BY <1>2, <1>3 DEF LeadsTo, HeardChange
<1>4. ASSUME NEW x \in ts, NewestList(ts, x) PROVE x.file = path
  <2>1. PICK o \in rs : x.id = o.id /\ x.heard = o.heard /\ x.kind = o.kind /\ x.file = o.file
    BY <1>2
  <2>2. NewestList(rs, o)
    BY <1>1, <1>4, <2>1 DEF NewestList, HeardList
  <2> QED
    BY <2>1, <2>2 DEF LeadsTo
<1>5. ASSUME \A x \in ts : ~ HeardList(x) PROVE dir = path
  BY <1>1, <1>5 DEF LeadsTo, HeardList
<1>6. LeadsTo(ts, path, dir)
  BY <1>3, <1>4, <1>5 DEF LeadsTo
<1> QED
  BY <1>6 DEF ts

\* ... the answer to a change arrives, or that to a tab that was left ...
LEMMA LeadsDropped ==
  ASSUME NEW rs, NEW path, NEW dir, LeadsTo(rs, path, dir), NEW r, ~ HeardList(r)
  PROVE  LeadsTo(rs \ {r}, path, dir)
BY DEF LeadsTo, NewestList

\* ... or a listing does, which overtakes none.
LEMMA LeadsListed ==
  ASSUME NEW rs, NEW n \in Nat, Numbered(rs, n), NEW path, NEW dir, LeadsTo(rs, path, dir),
         NEW r \in rs, HeardList(r), ~ \E o \in rs : o.kind = "list" /\ o.heard /\ o.id < r.id
  PROVE  LeadsTo(rs \ {r}, path, r.file)
<1>1. \A o \in rs : o.id \in Nat /\ (HeardList(o) => r.id <= o.id)
  BY DEF Numbered, HeardList
<1>2. ASSUME NEW x \in rs \ {r}, NewestList(rs \ {r}, x) PROVE x.file = path
  <2>1. NewestList(rs, x)
    BY <1>1, <1>2 DEF NewestList
  <2> QED
    BY <2>1 DEF LeadsTo
<1>3. ASSUME \A x \in rs \ {r} : ~ HeardList(x) PROVE r.file = path
  <2>1. NewestList(rs, r)
    BY <1>1, <1>3 DEF NewestList
  <2> QED
    BY <2>1 DEF LeadsTo
<1> QED
  BY <1>2, <1>3 DEF LeadsTo

LEMMA WhereInitIInv == Files!Init => WhereIInv
BY DEF Files!Init, WhereIInv, Numbered, Files!Mounted

LEMMA WhereTypes ==
  ASSUME FilesIInv
  PROVE  /\ filesAsked \in Nat /\ filesRequests \subseteq Files!Request
         /\ fileBrowserPath \in Files!Dirs /\ astray \in BOOLEAN
BY DEF FilesIInv, FilesPageOK, FilesRequestsOK, FilesProper

\* What is asked for is numbered and has no answer yet.
LEMMA WhereNew ==
  ASSUME filesAsked \in Nat, NEW kind, NEW dir, NEW file
  PROVE  LET l == Files!New(kind, dir, file)
         IN  /\ l.id = filesAsked + 1 /\ l.kind = kind /\ l.dir = dir /\ l.file = file /\ l.heard /\ l.state = "sent"
BY DEF Files!New

\* FetchItems, in the tab that is left or entered, or that goes on.
LEMMA WhereFetching ==
  ASSUME FilesIInv, WhereIInv, NEW d \in Files!Dirs, NEW rs,
         Numbered(rs, filesAsked), \A r \in rs : r.kind = "list" /\ r.state = "ok" => r.data.dir = r.file,
         Files!FetchItems(d, rs), fileBrowserPath' = fileBrowserPath \/ fileBrowserPath' = d,
         Files!Mounted',
         ~ astray' => d = fileBrowserPath' /\ \A r \in rs : HeardChange(r) => r.dir = d
  PROVE  WhereIInv'
<1> DEFINE l == Files!New("list", d, d)
<1>1. filesAsked \in Nat /\ filesAsked' = filesAsked + 1 /\ filesRequests' = rs \cup {l}
  BY WhereTypes DEF Files!FetchItems
<1>2. l.id = filesAsked + 1 /\ l.kind = "list" /\ l.file = d /\ l.heard /\ l.state = "sent"
  BY <1>1, WhereNew
<1> HIDE DEF l
<1>3. Numbered(filesRequests, filesAsked)'
  BY <1>1, <1>2, NumberedSend
<1>4. \A r \in filesRequests' : r.kind = "list" /\ r.state = "ok" => r.data.dir = r.file
  BY <1>1, <1>2
<1>5. ~ astray' => LeadsTo(rs \cup {l}, fileBrowserPath', filesItems'.dir)
  BY <1>1, <1>2, LeadsAsked
<1> QED
  BY <1>1, <1>3, <1>4, <1>5 DEF WhereIInv

\* Moving to a tab and directory.
LEMMA WhereShow ==
  ASSUME FilesIInv, WhereIInv, NEW t \in Files!Tabs, NEW p \in Files!Dirs, Files!Show(t, p)
  PROVE  WhereIInv'
<1>1. activeTab' = t /\ fileBrowserPath' = p
  BY DEF Files!Show
<1>2. /\ \A u \in Files!Unheard : ~ u.heard /\ (u.kind = "list" /\ u.state = "ok" => u.data.dir = u.file)
      /\ Numbered(Files!Unheard, filesAsked)
  <2> DEFINE hushed(r) == [r EXCEPT !.heard = FALSE]
  <2>1. \A r \in filesRequests : /\ ~ hushed(r).heard /\ hushed(r).id = r.id /\ hushed(r).kind = r.kind
                                 /\ hushed(r).state = r.state /\ hushed(r).data = r.data /\ hushed(r).file = r.file
    BY WhereTypes DEF Files!Request
  <2>2. Files!Unheard = {hushed(r) : r \in filesRequests}
    BY DEF Files!Unheard
  <2> HIDE DEF hushed
  <2>3. Numbered(Files!Unheard, filesAsked)
    BY <2>1, <2>2 DEF WhereIInv, Numbered
  <2> QED
    BY <2>1, <2>2, <2>3 DEF WhereIInv
<1>3. CASE t # "files"
  <2>1. filesRequests' = Files!Unheard /\ filesAsked' = filesAsked /\ ~ Files!Mounted'
    BY <1>1, <1>3 DEF Files!Show, Files!Mounted
  <2> QED
    BY <1>2, <2>1 DEF WhereIInv
<1>4. CASE t = "files" /\ ~ Files!Mounted
  <2>1. Files!FetchItems(p, Files!Unheard) /\ Files!Mounted'
    BY <1>1, <1>4 DEF Files!Show, Files!Mounted
  <2> QED
    BY <1>1, <1>2, <2>1, WhereFetching DEF HeardChange
<1>5. CASE t = "files" /\ Files!Mounted /\ p # fileBrowserPath
  <2>1. Files!FetchItems(p, filesRequests) /\ Files!Mounted' /\ astray' = (astray \/ Files!Changing)
    BY <1>1, <1>5 DEF Files!Show, Files!Mounted
  <2>2. ~ astray' => \A r \in filesRequests : ~ HeardChange(r)
    BY <2>1 DEF Files!Changing, HeardChange
  <2> QED
    BY <1>1, <2>1, <2>2, WhereFetching DEF WhereIInv
<1>6. CASE t = "files" /\ Files!Mounted /\ p = fileBrowserPath
  BY <1>1, <1>6 DEF Files!Show, Files!view, Files!Mounted, WhereIInv
<1> QED
  BY <1>3, <1>4, <1>5, <1>6

LEMMA WhereMoveIInv ==
  ASSUME FilesIInv, WhereIInv,
         \/ \E t \in Files!Tabs : Files!HandleTabChange(t)
         \/ \E p \in Files!Dirs : Files!HandleFilesNavigate(p)
         \/ \E i \in {filesEntry - 1, filesEntry + 1} : Files!HandlePopState(i)
         \/ Files!InertiaWrites \/ Files!Mount
  PROVE  WhereIInv'
<1>0. ASSUME Files!Unmoved PROVE WhereIInv'
  BY <1>0 DEF Files!Unmoved, Files!view, WhereIInv, Files!Mounted
<1>1. CASE \E t \in Files!Tabs : Files!HandleTabChange(t)
  BY <1>1, WhereShow, WhereTypes DEF Files!HandleTabChange
<1>2. CASE \E p \in Files!Dirs : Files!HandleFilesNavigate(p)
  BY <1>2, WhereShow DEF Files!HandleFilesNavigate, Files!Tabs
<1>3. CASE \E i \in {filesEntry - 1, filesEntry + 1} : Files!HandlePopState(i)
  <2>1. PICK i \in 1 .. Len(entries) : \/ entries[i].tab # Files!NoTab /\ Files!Show(entries[i].tab, entries[i].path)
                                       \/ Files!Unmoved
    BY <1>3 DEF Files!HandlePopState
  <2>2. entries[i] \in Files!Entry
    BY DEF FilesIInv, FilesHistoryOK
  <2>3. entries[i].path \in Files!Dirs /\ (entries[i].tab # Files!NoTab => entries[i].tab \in Files!Tabs)
    BY <2>2 DEF Files!Entry
  <2> QED
    BY <1>0, <2>1, <2>3, WhereShow
<1>4. CASE Files!InertiaWrites
  BY <1>0, <1>4 DEF Files!InertiaWrites
<1>5. CASE Files!Mount
  BY <1>5, WhereShow DEF Files!Mount, Files!Tabs, Files!Dirs
<1> QED
  BY <1>1, <1>2, <1>3, <1>4, <1>5

\* A change, in the directory on the page.
LEMMA WhereChanging ==
  ASSUME FilesIInv, WhereIInv, NEW kind, kind # "list", NEW file, Files!Change(kind, file), Files!Mounted,
         UNCHANGED <<activeTab, fileBrowserPath, filesItems, astray>>
  PROVE  WhereIInv'
<1> DEFINE l == Files!New(kind, fileBrowserPath, file)
<1>1. filesAsked \in Nat /\ filesAsked' = filesAsked + 1 /\ filesRequests' = filesRequests \cup {l}
  BY WhereTypes DEF Files!Change
<1>2. l.id = filesAsked + 1 /\ l.kind # "list" /\ l.dir = fileBrowserPath
  BY <1>1, WhereNew
<1> HIDE DEF l
<1>3. Numbered(filesRequests, filesAsked)'
  BY <1>1, <1>2, NumberedSend DEF WhereIInv
<1>4. ~ astray => LeadsTo(filesRequests \cup {l}, fileBrowserPath, filesItems.dir)
  BY <1>2, LeadsChange DEF WhereIInv
<1> QED
  BY <1>1, <1>2, <1>3, <1>4 DEF WhereIInv, Files!Mounted

LEMMA WhereTabIInv ==
  ASSUME FilesIInv, WhereIInv,
         \/ Files!Refresh \/ Files!HandleUpload \/ Files!WriteDialog \/ Files!HandleWrite
         \/ \E d \in Files!Dirs : Files!DeleteDialog(d)
         \/ Files!CancelDelete \/ Files!HandleDelete \/ Files!HandleTogglePersistent
  PROVE  WhereIInv'
<1> USE DEF Files!view, Files!dialogs, Files!Visible
<1>1. CASE Files!Refresh
  <2>1. /\ Files!FetchItems(fileBrowserPath, filesRequests) /\ Files!Mounted
        /\ UNCHANGED <<activeTab, fileBrowserPath, astray>>
    BY <1>1 DEF Files!Refresh
  <2>2. ~ astray => \A r \in filesRequests : HeardChange(r) => r.dir = fileBrowserPath
    BY <2>1 DEF WhereIInv, LeadsTo
  <2>3. Files!Mounted'
    BY <2>1 DEF Files!Mounted
  <2> QED
    BY <2>1, <2>2, <2>3, WhereFetching, WhereTypes DEF WhereIInv
<1>2. CASE Files!HandleUpload \/ Files!HandleWrite \/ Files!HandleDelete \/ Files!HandleTogglePersistent
  <2>1. /\ \E kind \in {"upload", "write", "delete", "pin", "unpin"} : \E file : Files!Change(kind, file)
        /\ Files!Mounted /\ UNCHANGED <<activeTab, fileBrowserPath, filesItems, astray>>
    BY <1>2 DEF Files!HandleUpload, Files!HandleWrite, Files!HandleDelete, Files!HandleTogglePersistent
  <2> QED
    BY <2>1, WhereChanging
<1>3. CASE Files!WriteDialog \/ Files!CancelDelete \/ \E d \in Files!Dirs : Files!DeleteDialog(d)
  <2>1. UNCHANGED <<activeTab, fileBrowserPath, filesItems, filesRequests, filesAsked, astray>>
    BY <1>3 DEF Files!WriteDialog, Files!CancelDelete, Files!DeleteDialog
  <2> QED
    BY <2>1 DEF WhereIInv, Files!Mounted
<1> QED
  BY <1>1, <1>2, <1>3

\* The panel serves a request, or it fails ...
LEMMA WhereServeIInv ==
  ASSUME FilesIInv, WhereIInv, NEW r \in filesRequests, Files!Serve(r) \/ Files!Fails(r)
  PROVE  WhereIInv'
<1> USE DEF Files!view, Files!dialogs
<1>1. r \in Files!Request /\ filesAsked \in Nat /\ r.state = "sent"
  BY WhereTypes DEF Files!Serve, Files!Fails
<1>2. UNCHANGED <<activeTab, fileBrowserPath, filesItems, filesAsked, astray>>
  BY DEF Files!Serve, Files!Fails
<1>3. PICK t : /\ filesRequests' = (filesRequests \ {r}) \cup {t}
               /\ t.id = r.id /\ t.heard = r.heard /\ t.kind = r.kind /\ t.dir = r.dir /\ t.file = r.file
               /\ t.kind = "list" /\ t.state = "ok" => t.data.dir = t.file
  <2>1. CASE Files!Serve(r)
    <3> DEFINE data == IF r.kind = "list"
                       THEN [dir |-> r.file, file |-> r.file \in disk, pinned |-> r.file \in pins]
                       ELSE Files!NoItems
               t == [r EXCEPT !.state = "ok", !.data = data]
    <3>1. filesRequests' = (filesRequests \ {r}) \cup {t}
      BY <2>1 DEF Files!Serve
    <3>2. r.kind = "list" => data.dir = r.file
      OBVIOUS
    <3> HIDE DEF data
    <3>3. /\ t.id = r.id /\ t.heard = r.heard /\ t.kind = r.kind /\ t.dir = r.dir /\ t.file = r.file
          /\ t.data = data
      BY <1>1 DEF Files!Request
    <3> HIDE DEF t
    <3> QED
      BY <3>1, <3>2, <3>3
  <2>2. CASE Files!Fails(r)
    <3> DEFINE t == [r EXCEPT !.state = "failed"]
    <3>1. filesRequests' = (filesRequests \ {r}) \cup {t}
      BY <2>2 DEF Files!Fails
    <3>2. t.id = r.id /\ t.heard = r.heard /\ t.kind = r.kind /\ t.dir = r.dir /\ t.file = r.file /\ t.state = "failed"
      BY <1>1 DEF Files!Request
    <3> HIDE DEF t
    <3> QED
      BY <3>1, <3>2
  <2> QED
    BY <2>1, <2>2
<1>4. Numbered(filesRequests, filesAsked)'
  BY <1>1, <1>2, <1>3, NumberedServe DEF WhereIInv, Instead
<1>5. Files!Mounted /\ ~ astray => LeadsTo(filesRequests', fileBrowserPath, filesItems.dir)
  BY <1>3, LeadsServed DEF WhereIInv
<1> QED
  BY <1>2, <1>3, <1>4, <1>5 DEF WhereIInv, Files!Mounted

\* ... and its answer arrives: a listing ...
LEMMA WhereListedIInv ==
  ASSUME FilesIInv, WhereIInv, NEW r \in filesRequests, Files!Listed(r)
  PROVE  WhereIInv'
<1>1. /\ r.kind = "list" /\ r.heard /\ HeardList(r) /\ filesAsked \in Nat
      /\ filesRequests' = filesRequests \ {r} /\ UNCHANGED <<activeTab, fileBrowserPath, filesAsked>>
      /\ astray' = (astray \/ r.state = "failed" \/ Files!Overtakes(r))
      /\ r.state = "ok" => filesItems' = r.data
      /\ r.state # "sent"
  BY WhereTypes DEF Files!Listed, HeardList
<1>2. r.state \in {"sent", "ok", "failed"}
  BY WhereTypes DEF Files!Request
<1>3. Numbered(filesRequests, filesAsked)'
  BY <1>1, NumberedDrop DEF WhereIInv
<1>4. ASSUME Files!Mounted, ~ astray'
      PROVE  LeadsTo(filesRequests \ {r}, fileBrowserPath, filesItems'.dir)
  <2>1. /\ r.state = "ok" /\ filesItems'.dir = r.file
        /\ ~ \E o \in filesRequests : o.kind = "list" /\ o.heard /\ o.id < r.id
    BY <1>1, <1>2, <1>4 DEF WhereIInv, Files!Overtakes
  <2>2. LeadsTo(filesRequests, fileBrowserPath, filesItems.dir)
    BY <1>1, <1>4 DEF WhereIInv
  <2> QED
    BY <1>1, <2>1, <2>2, LeadsListed DEF WhereIInv
<1> QED
  BY <1>1, <1>3, <1>4 DEF WhereIInv, Files!Mounted

\* ... that to a change, which makes the page list the directory again, or not.
LEMMA WhereAnswerIInv ==
  ASSUME FilesIInv, WhereIInv, NEW r \in filesRequests, Files!Answer(r)
  PROVE  WhereIInv'
<1> USE DEF Files!view, Files!dialogs
<1>1. CASE Files!Listed(r)
  BY <1>1, WhereListedIInv
<1>2. CASE Files!Changed(r)
  <2>1. /\ Files!FetchItems(r.dir, filesRequests \ {r}) /\ HeardChange(r)
        /\ UNCHANGED <<activeTab, fileBrowserPath, astray>>
    BY <1>2 DEF Files!Changed, HeardChange
  <2>2. Files!Mounted /\ Files!Mounted'
    BY <2>1 DEF WhereIInv, HeardChange, Files!Mounted
  <2>3. ~ astray' => r.dir = fileBrowserPath' /\ \A o \in filesRequests \ {r} : HeardChange(o) => o.dir = r.dir
    BY <2>1, <2>2 DEF WhereIInv, LeadsTo
  <2>4. r.dir \in Files!Dirs
    BY WhereTypes DEF Files!Request
  <2>5. Numbered(filesRequests \ {r}, filesAsked)
    BY WhereTypes, NumberedDrop DEF WhereIInv
  <2> QED
    BY <2>1, <2>2, <2>3, <2>4, <2>5, WhereFetching DEF WhereIInv
<1>3. CASE Files!NotChanged(r) \/ Files!Unheeded(r)
  <2>1. /\ filesRequests' = filesRequests \ {r} /\ ~ HeardList(r) /\ filesAsked \in Nat
        /\ UNCHANGED <<activeTab, fileBrowserPath, filesItems, filesAsked, astray>>
    BY <1>3, WhereTypes DEF Files!NotChanged, Files!Unheeded, HeardList
  <2>2. Numbered(filesRequests, filesAsked)'
    BY <2>1, NumberedDrop DEF WhereIInv
  <2>3. Files!Mounted /\ ~ astray => LeadsTo(filesRequests \ {r}, fileBrowserPath, filesItems.dir)
    BY <2>1, LeadsDropped DEF WhereIInv
  <2> QED
    BY <2>1, <2>2, <2>3 DEF WhereIInv, Files!Mounted
<1> QED
  BY <1>1, <1>2, <1>3 DEF Files!Answer

LEMMA WhereNextIInv == FilesIInv /\ WhereIInv /\ [Files!Next]_(Files!vars) => WhereIInv'
<1> SUFFICES ASSUME FilesIInv, WhereIInv, [Files!Next]_(Files!vars) PROVE WhereIInv'
  OBVIOUS
<1>1. CASE UNCHANGED Files!vars
  BY <1>1 DEF Files!vars, Files!view, WhereIInv, Files!Mounted
<1> QED
  BY <1>1, WhereMoveIInv, WhereTabIInv, WhereServeIInv, WhereAnswerIInv DEF Files!Next

\* FileBrowser!ListsWhereItIs: the listing is that of the directory named above
\* it, or the page is astray.
THEOREM ItListsWhereItIs == Files!Spec => []Files!ListsWhereItIs
<1>1. WhereIInv => Files!ListsWhereItIs
  BY DEF WhereIInv, LeadsTo, HeardList, Files!ListsWhereItIs, Files!Quiet
<1> QED
  BY <1>1, WhereInitIInv, WhereNextIInv, FilesInvariance, PTL DEF Files!Spec
=============================================================================
