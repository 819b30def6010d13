---------------------------- MODULE FileBrowser ----------------------------
(***************************************************************************)
(* The page of one app (pages/apps/show.tsx): the tab and directory it     *)
(* shows, the browser's history, and the Files tab (files-tab.tsx), which  *)
(* lists a directory and uploads, writes, deletes and pins files.          *)
(*                                                                         *)
(* The app has a root directory with sub-directories; each directory holds *)
(* at most one file, which is named by its directory.  A request is served *)
(* by the panel in one step and answered to the page in another, so that   *)
(* answers may overtake each other and the page may have moved on.         *)
(***************************************************************************)
EXTENDS Pages

Dirs == Subs \cup {Root}
Tabs == {"overview", "files"}      \* the others do not use the history differently
NoTab == "none"                    \* what an entry written by Inertia says of the tab

VARIABLES
  activeTab, fileBrowserPath,      \* React state of the page
  entries, entry,                  \* window.history and the current position in it
  items, loading,                  \* React state of the tab: listing shown, skeleton shown
  uploading, writing, showWriteDialog,
  deletingItem,                    \* what the delete dialog names, or NoDir
  disk, pins,                      \* the build directory; persistent_paths
  requests, asked,                 \* requests in flight; number of requests sent
  confirmed,                       \* history: what delete dialogs named when they were confirmed
  astray                           \* may the listing be of another directory?  (see below)

dialogs == <<uploading, writing, showWriteDialog, deletingItem>>
view == <<items, loading>>
server == <<disk, pins>>
vars == <<activeTab, fileBrowserPath, entries, entry, view, dialogs, server, requests, asked,
          confirmed, astray>>

NoItems == [dir |-> NoDir, file |-> FALSE, pinned |-> FALSE]
Listing == [dir : Dirs, file : BOOLEAN, pinned : BOOLEAN] \cup {NoItems}
Entry == [tab : Tabs \cup {NoTab}, path : Dirs]

Request == [kind : {"list", "upload", "write", "delete", "pin", "unpin"},
            id : Nat,
            dir : Dirs,            \* currentPath of the render that sent it
            file : Dirs,           \* whose file it changes, or the directory to list
            heard : BOOLEAN,       \* is the tab that sent it still mounted?
            state : {"sent", "ok", "failed"},
            data : Listing]

TypeOK ==
  /\ activeTab \in Tabs /\ fileBrowserPath \in Dirs
  /\ entries \in Seq(Entry) /\ entry \in 1 .. Len(entries) /\ Len(entries) <= MaxEntries
  /\ items \in Listing /\ loading \in BOOLEAN
  /\ uploading \in BOOLEAN /\ writing \in BOOLEAN /\ showWriteDialog \in BOOLEAN
  /\ deletingItem \in Dirs \cup {NoDir}
  /\ disk \subseteq Dirs /\ pins \subseteq Dirs
  /\ requests \subseteq Request /\ asked \in Nat
  /\ \A r \in requests : r.id <= asked
  /\ confirmed \subseteq Dirs /\ astray \in BOOLEAN

\* replaceState when the page is mounted.
Init ==
  /\ activeTab = "overview" /\ fileBrowserPath = Root
  /\ entries = << [tab |-> "overview", path |-> Root] >> /\ entry = 1
  /\ items = NoItems /\ loading = TRUE
  /\ uploading = FALSE /\ writing = FALSE /\ showWriteDialog = FALSE /\ deletingItem = NoDir
  /\ disk = Dirs /\ pins = {}
  /\ requests = {} /\ asked = 0
  /\ confirmed = {} /\ astray = FALSE

Mounted == activeTab = "files"
Visible == Mounted /\ ~ loading    \* the skeleton replaces everything, dialogs included
NoDialog == ~ showWriteDialog /\ deletingItem = NoDir

(***************************************************************************)
(* Requests.                                                               *)
(***************************************************************************)
New(kind, dir, file) ==
  [kind |-> kind, id |-> asked + 1, dir |-> dir, file |-> file,
   heard |-> TRUE, state |-> "sent", data |-> NoItems]

\* Bound: every change in flight still needs a listing.
Room(n) == asked + Cardinality({r \in requests : r.kind # "list"}) + n <= MaxRequests

\* Mutant: the directory is that of the last render, not the one moved to.
FetchItemsOfOld(d, rs) ==
  /\ asked' = asked + 1
  /\ requests' = rs \cup {New("list", fileBrowserPath, fileBrowserPath)}
  /\ loading' = TRUE

\* fetchItems for the directory d; rs are the other requests in flight.
FetchItems(d, rs) ==
  /\ asked' = asked + 1
  /\ requests' = rs \cup {New("list", d, d)}
  /\ loading' = TRUE

Change(kind, file) ==
  /\ Room(2)
  /\ asked' = asked + 1
  /\ requests' = requests \cup {New(kind, fileBrowserPath, file)}

Changing == \E r \in requests : r.kind # "list" /\ r.heard

Unheard == {[r EXCEPT !.heard = FALSE] : r \in requests}

(***************************************************************************)
(* Moving to a tab and directory.  React unmounts the tab that is left and *)
(* runs the effect on currentPath of the tab that is shown.                *)
(***************************************************************************)
Fresh == items' = NoItems /\ uploading' = FALSE /\ writing' = FALSE
         /\ showWriteDialog' = FALSE /\ deletingItem' = NoDir

Show(t, p) ==
  /\ activeTab' = t /\ fileBrowserPath' = p
  /\ \/ /\ t # "files"
        /\ Fresh /\ loading' = TRUE
        /\ requests' = Unheard /\ astray' = FALSE
        /\ UNCHANGED asked
     \/ /\ t = "files" /\ ~ Mounted
        /\ Room(1) /\ Fresh /\ FetchItems(p, Unheard) /\ astray' = FALSE
     \/ /\ t = "files" /\ Mounted /\ p # fileBrowserPath
        /\ Room(1) /\ FetchItems(p, requests) /\ astray' = (astray \/ Changing)
        /\ UNCHANGED <<items, dialogs>>
     \/ /\ t = "files" /\ Mounted /\ p = fileBrowserPath
        /\ UNCHANGED <<view, dialogs, requests, asked, confirmed, astray>>
  /\ UNCHANGED <<server, confirmed>>

Unmoved ==
  UNCHANGED <<activeTab, fileBrowserPath, view, dialogs, server, requests, asked, confirmed, astray>>

PushState(t, p) ==
  /\ entry < MaxEntries
  /\ entries' = Append(SubSeq(entries, 1, entry), [tab |-> t, path |-> p])
  /\ entry' = entry + 1

HandleTabChange(t) ==
  /\ t # activeTab
  /\ Show(t, fileBrowserPath)
  /\ PushState(t, IF t = "files" THEN fileBrowserPath ELSE Root)

\* The breadcrumbs lead to the current directory and those above it, the rows
\* to the sub-directories of the directory listed.
Links == {Root, fileBrowserPath} \cup (IF items.dir = Root THEN Subs ELSE {})

HandleFilesNavigate(p) ==
  /\ Visible /\ NoDialog
  /\ p \in Links
  /\ Show("files", p)
  /\ PushState("files", p)

\* Mutant: only the tab is taken from the entry.
HandlePopStateOfTab(i) ==
  /\ i \in 1 .. Len(entries) /\ i \in {entry - 1, entry + 1}
  /\ entry' = i
  /\ \/ entries[i].tab # NoTab /\ Show(entries[i].tab, fileBrowserPath)
     \/ entries[i].tab = NoTab /\ Unmoved
  /\ UNCHANGED entries

\* Back and forward.  An entry that says nothing of the tab changes nothing.
HandlePopState(i) ==
  /\ i \in 1 .. Len(entries) /\ i \in {entry - 1, entry + 1}
  /\ entry' = i
  /\ \/ entries[i].tab # NoTab /\ Show(entries[i].tab, entries[i].path)
     \/ entries[i].tab = NoTab /\ Unmoved
  /\ UNCHANGED entries

\* Inertia writes the current entry anew, without a tab, whenever the page
\* reloads or posts, and when an entry that it did not write is gone back to.
InertiaWrites ==
  /\ entries[entry].tab # NoTab
  /\ entries' = [entries EXCEPT ![entry] = [tab |-> NoTab, path |-> Root]]
  /\ Unmoved /\ UNCHANGED entry

\* Inertia mounts the page anew from an entry of its own, and the page's effect
\* writes the entry.
Mount ==
  /\ entries[entry].tab = NoTab
  /\ Show("overview", Root)
  /\ entries' = [entries EXCEPT ![entry] = [tab |-> "overview", path |-> Root]]
  /\ UNCHANGED entry

(***************************************************************************)
(* The Files tab.                                                          *)
(***************************************************************************)
Refresh ==
  /\ Visible /\ NoDialog /\ Room(1)
  /\ FetchItems(fileBrowserPath, requests)
  /\ UNCHANGED <<activeTab, fileBrowserPath, entries, entry, items, dialogs, server, confirmed, astray>>

HandleUpload ==
  /\ Visible /\ NoDialog /\ ~ uploading
  /\ Change("upload", fileBrowserPath)
  /\ uploading' = TRUE
  /\ UNCHANGED <<activeTab, fileBrowserPath, entries, entry, view, writing, showWriteDialog,
                 deletingItem, server, confirmed, astray>>

\* "New File", "Cancel".
WriteDialog ==
  /\ Visible /\ deletingItem = NoDir
  /\ showWriteDialog' = ~ showWriteDialog
  /\ UNCHANGED <<activeTab, fileBrowserPath, entries, entry, view, uploading, writing,
                 deletingItem, server, requests, asked, confirmed, astray>>

HandleWrite ==
  /\ Visible /\ showWriteDialog /\ ~ writing
  /\ Change("write", fileBrowserPath)
  /\ writing' = TRUE
  /\ UNCHANGED <<activeTab, fileBrowserPath, entries, entry, view, uploading, showWriteDialog,
                 deletingItem, server, confirmed, astray>>

\* The rows shown: what may be deleted or pinned.
Rows == (IF items.file THEN {items.dir} ELSE {}) \cup (IF items.dir = Root THEN Subs ELSE {})

DeleteDialog(d) ==
  /\ Visible /\ NoDialog
  /\ d \in Rows
  /\ deletingItem' = d
  /\ UNCHANGED <<activeTab, fileBrowserPath, entries, entry, view, uploading, writing,
                 showWriteDialog, server, requests, asked, confirmed, astray>>

CancelDelete ==
  /\ Visible /\ deletingItem # NoDir
  /\ deletingItem' = NoDir
  /\ UNCHANGED <<activeTab, fileBrowserPath, entries, entry, view, uploading, writing,
                 showWriteDialog, server, requests, asked, confirmed, astray>>

\* Mutant: the path is put together from the directory shown above the list.
HandleDeleteHere ==
  /\ Visible /\ deletingItem # NoDir
  /\ Change("delete", IF deletingItem = items.dir THEN fileBrowserPath ELSE deletingItem)
  /\ deletingItem' = NoDir /\ confirmed' = confirmed \cup {deletingItem}
  /\ UNCHANGED <<activeTab, fileBrowserPath, entries, entry, view, uploading, writing,
                 showWriteDialog, server, astray>>

\* The button of the dialog also closes it.
HandleDelete ==
  /\ Visible /\ deletingItem # NoDir
  /\ Change("delete", deletingItem)
  /\ deletingItem' = NoDir /\ confirmed' = confirmed \cup {deletingItem}
  /\ UNCHANGED <<activeTab, fileBrowserPath, entries, entry, view, uploading, writing,
                 showWriteDialog, server, astray>>

HandleTogglePersistent ==
  /\ Visible /\ NoDialog
  /\ items.file
  /\ Change(IF items.pinned THEN "unpin" ELSE "pin", items.dir)
  /\ UNCHANGED <<activeTab, fileBrowserPath, entries, entry, view, dialogs, server, confirmed, astray>>

(***************************************************************************)
(* The panel serves a request, the answer reaches the page.                *)
(***************************************************************************)
Serve(r) ==
  /\ r \in requests /\ r.state = "sent"
  /\ disk' = CASE r.kind \in {"upload", "write"} -> disk \cup {r.file}
               [] r.kind = "delete" -> disk \ {r.file}
               [] OTHER -> disk
  /\ pins' = CASE r.kind = "pin" -> pins \cup {r.file}
               [] r.kind = "unpin" -> pins \ {r.file}
               [] OTHER -> pins
  /\ requests' = (requests \ {r}) \cup
       {[r EXCEPT !.state = "ok",
                  !.data = IF r.kind = "list"
                           THEN [dir |-> r.file, file |-> r.file \in disk, pinned |-> r.file \in pins]
                           ELSE NoItems]}
  /\ UNCHANGED <<activeTab, fileBrowserPath, entries, entry, view, dialogs, asked, confirmed, astray>>

\* Refused, or lost on the way.
Fails(r) ==
  /\ r \in requests /\ r.state = "sent"
  /\ requests' = (requests \ {r}) \cup {[r EXCEPT !.state = "failed"]}
  /\ UNCHANGED <<activeTab, fileBrowserPath, entries, entry, view, dialogs, server, asked, confirmed, astray>>

\* Is an older listing still on its way?
Overtakes(r) == \E o \in requests : o.kind = "list" /\ o.heard /\ o.id < r.id

\* Mutant: loading is reset only when there is a listing.
ListedOnly(r) ==
  /\ r \in requests /\ r.kind = "list" /\ r.heard /\ r.state = "ok"
  /\ items' = r.data /\ loading' = FALSE
  /\ requests' = requests \ {r}
  /\ astray' = (astray \/ Overtakes(r))
  /\ UNCHANGED <<activeTab, fileBrowserPath, entries, entry, dialogs, server, asked, confirmed>>

Listed(r) ==
  /\ r \in requests /\ r.kind = "list" /\ r.heard /\ r.state # "sent"
  /\ items' \in IF r.state = "ok" THEN {r.data} ELSE {items, NoItems}
  /\ loading' = FALSE
  /\ requests' = requests \ {r}
  /\ astray' = (astray \/ r.state = "failed" \/ Overtakes(r))
  /\ UNCHANGED <<activeTab, fileBrowserPath, entries, entry, dialogs, server, asked, confirmed>>

\* A change was made: the directory it was sent from is listed again.
Changed(r) ==
  /\ r \in requests /\ r.kind # "list" /\ r.heard /\ r.state = "ok"
  /\ FetchItems(r.dir, requests \ {r})
  /\ uploading' = IF r.kind = "upload" THEN FALSE ELSE uploading
  /\ writing' = IF r.kind = "write" THEN FALSE ELSE writing
  /\ showWriteDialog' = IF r.kind = "write" THEN FALSE ELSE showWriteDialog
  /\ deletingItem' = IF r.kind = "delete" THEN NoDir ELSE deletingItem
  /\ UNCHANGED <<activeTab, fileBrowserPath, entries, entry, items, server, confirmed, astray>>

NotChanged(r) ==
  /\ r \in requests /\ r.kind # "list" /\ r.heard /\ r.state = "failed"
  /\ requests' = requests \ {r}
  /\ uploading' = IF r.kind = "upload" THEN FALSE ELSE uploading
  /\ writing' = IF r.kind = "write" THEN FALSE ELSE writing
  /\ deletingItem' = IF r.kind = "delete" THEN NoDir ELSE deletingItem
  /\ UNCHANGED <<activeTab, fileBrowserPath, entries, entry, view, showWriteDialog, server, asked, confirmed, astray>>

\* The tab that asked is gone.
Unheeded(r) ==
  /\ r \in requests /\ ~ r.heard /\ r.state # "sent"
  /\ requests' = requests \ {r}
  /\ UNCHANGED <<activeTab, fileBrowserPath, entries, entry, view, dialogs, server, asked, confirmed, astray>>

Answer(r) == Listed(r) \/ Changed(r) \/ NotChanged(r) \/ Unheeded(r)

Next ==
  \/ \E t \in Tabs : HandleTabChange(t)
  \/ \E p \in Dirs : HandleFilesNavigate(p)
  \/ \E i \in {entry - 1, entry + 1} : HandlePopState(i)
  \/ InertiaWrites \/ Mount
  \/ Refresh \/ HandleUpload
  \/ WriteDialog \/ HandleWrite
  \/ \E d \in Dirs : DeleteDialog(d)
  \/ CancelDelete \/ HandleDelete
  \/ HandleTogglePersistent
  \/ \E r \in requests : Serve(r) \/ Fails(r) \/ Answer(r)

Spec == Init /\ [][Next]_vars

\* A request is served or fails, and its answer is handled.
Served == \E r \in requests : Serve(r) \/ Fails(r) \/ Answer(r)

-----------------------------------------------------------------------------
(***************************************************************************)
(* Back and forward lead to what was seen: the page shows the tab of the   *)
(* current history entry and, in the Files tab, its directory, wherever    *)
(* Inertia has not written over the entry: then the tab is the one before. *)
(***************************************************************************)
ViewIsTheEntry ==
  entries[entry].tab # NoTab =>
    /\ activeTab = entries[entry].tab
    /\ Mounted => fileBrowserPath = entries[entry].path

(***************************************************************************)
(* When no request is in flight the listing is that of the directory named *)
(* above it, unless a listing failed, answers overtook each other or the   *)
(* user moved on while a change was being saved (astray).                  *)
(***************************************************************************)
Quiet == \A r \in requests : ~ r.heard

ListsWhereItIs == Mounted /\ Quiet /\ ~ astray => items.dir = fileBrowserPath

(***************************************************************************)
(* Whatever the listing shows, a file leaves the build directory only      *)
(* after a dialog that named it was confirmed.                             *)
(***************************************************************************)
DeletesWhatWasConfirmed == [][disk \ disk' \subseteq confirmed]_vars
=============================================================================
