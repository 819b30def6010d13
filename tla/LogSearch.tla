----------------------------- MODULE LogSearch -----------------------------
(***************************************************************************)
(* The history half of the Logs tab (logs-tab.tsx): filters, a text that   *)
(* counts when it is submitted, and pages of results.  Status, method and  *)
(* time range behave alike and are one filter.  One visit of the tab: what *)
(* arrives after it was left changes nothing.                              *)
(***************************************************************************)
EXTENDS Pages

VARIABLES
  mode, filter, searchQuery,       \* what the page shows above the results
  searchResult,                    \* the answer shown: what was searched for, and its page
  searchLoading,
  searches, sought,                \* searches in flight; number of searches
  jumbled                          \* history: a search failed or was overtaken

vars == <<mode, filter, searchQuery, searchResult, searchLoading, searches, sought, jumbled>>

Result == [what : Searched, page : Nat, last : 1 .. MaxPages]
Search == [id : 1 .. MaxSearches, what : Searched, page : Nat, state : {"sent", "ok", "failed"},
           last : 1 .. MaxPages]

TypeOK ==
  /\ mode \in {"history", "live"} /\ filter \in Filters /\ searchQuery \in Queries
  /\ searchResult \in Result \cup {NoResult}
  /\ searchLoading \in BOOLEAN
  /\ searches \subseteq Search /\ sought \in 0 .. MaxSearches
  /\ \A s \in searches : s.id <= sought
  /\ jumbled \in BOOLEAN

New(f, q, page) ==
  [id |-> sought + 1, what |-> <<f, q>>, page |-> page, state |-> "sent", last |-> 1]

\* fetchSearchLogs with the filter f.
FetchSearchLogs(f, page) ==
  /\ sought < MaxSearches
  /\ sought' = sought + 1
  /\ searches' = searches \cup {New(f, searchQuery, page)}
  /\ searchLoading' = TRUE

\* Mounted in history mode: the effect searches.
Init ==
  /\ mode = "history" /\ filter = AnyFilter /\ searchQuery = NoQuery
  /\ searchResult = NoResult
  /\ searchLoading = TRUE
  /\ searches = {[id |-> 1, what |-> <<AnyFilter, NoQuery>>, page |-> 1, state |-> "sent", last |-> 1]}
  /\ sought = 1
  /\ jumbled = FALSE

SetMode(m) ==
  /\ m # mode
  /\ mode' = m
  /\ IF m = "history" THEN FetchSearchLogs(filter, 1)
                      ELSE UNCHANGED <<searchLoading, searches, sought>>
  /\ UNCHANGED <<filter, searchQuery, searchResult, jumbled>>

\* One of the three selects; the effect searches with the text as it is.
SetFilter(f) ==
  /\ mode = "history" /\ f # filter
  /\ filter' = f
  /\ FetchSearchLogs(f, 1)
  /\ UNCHANGED <<mode, searchQuery, searchResult, jumbled>>

SetSearchQuery(q) ==
  /\ mode = "history" /\ q # searchQuery
  /\ searchQuery' = q
  /\ UNCHANGED <<mode, filter, searchResult, searchLoading, searches, sought, jumbled>>

HandleSearch ==
  /\ mode = "history" /\ ~ searchLoading
  /\ FetchSearchLogs(filter, 1)
  /\ UNCHANGED <<mode, filter, searchQuery, searchResult, jumbled>>

\* The buttons are there when the results have several pages, and the page shown
\* is one of them: a page beyond the last has no lines.
Paginated ==
  /\ mode = "history" /\ ~ searchLoading
  /\ searchResult # NoResult
  /\ searchResult.last > 1 /\ searchResult.page <= searchResult.last

Prev ==
  /\ Paginated
  /\ searchResult.page > 1
  /\ FetchSearchLogs(filter, searchResult.page - 1)
  /\ UNCHANGED <<mode, filter, searchQuery, searchResult, jumbled>>

NextPage ==
  /\ Paginated
  /\ searchResult.page < searchResult.last
  /\ FetchSearchLogs(filter, searchResult.page + 1)
  /\ UNCHANGED <<mode, filter, searchQuery, searchResult, jumbled>>

\* logSearch answers, or the request fails.  The number of pages is that of the
\* moment: lines are ingested, cleaned up, and leave the time range.  An error
\* the panel reports in JSON is shown as if it were results, which breaks the
\* page; that is left out.
Serve(s) ==
  /\ s \in searches /\ s.state = "sent"
  /\ \/ \E last \in 1 .. MaxPages :
          searches' = (searches \ {s}) \cup {[s EXCEPT !.state = "ok", !.last = last]}
     \/ searches' = (searches \ {s}) \cup {[s EXCEPT !.state = "failed"]}
  /\ UNCHANGED <<mode, filter, searchQuery, searchResult, searchLoading, sought, jumbled>>

Overtakes(s) == \E o \in searches : o.id < s.id

\* setSearchResult and setCurrentPage; any answer ends searchLoading.
Found(s) ==
  /\ s \in searches /\ s.state # "sent"
  /\ searchResult' = IF s.state = "ok" THEN [what |-> s.what, page |-> s.page, last |-> s.last]
                                    ELSE searchResult
  /\ searchLoading' = FALSE
  /\ searches' = searches \ {s}
  /\ jumbled' = (jumbled \/ s.state = "failed" \/ Overtakes(s))
  /\ UNCHANGED <<mode, filter, searchQuery, sought>>

Next ==
  \/ \E m \in {"history", "live"} : SetMode(m)
  \/ \E f \in Filters : SetFilter(f)
  \/ \E q \in Queries : SetSearchQuery(q)
  \/ HandleSearch \/ Prev \/ NextPage
  \/ \E s \in searches : Serve(s) \/ Found(s)

Spec == Init /\ [][Next]_vars

\* A request is served, or fails, and its answer is handled.
Served == \E s \in searches : Serve(s) \/ Found(s)

-----------------------------------------------------------------------------
(***************************************************************************)
(* When no search is in flight, the results are those of the filter shown  *)
(* above them, unless a search failed or an answer overtook an older one.  *)
(***************************************************************************)
ResultIsForFilters ==
  mode = "history" /\ searches = {} /\ ~ jumbled => searchResult.what[1] = filter

(***************************************************************************)
(* The title says "Searching..." while there are no results.  It goes on   *)
(* saying so when every search failed and none is in flight.               *)
(***************************************************************************)
Searching == mode = "history" /\ searchResult = NoResult
GivenUp == searches = {}
=============================================================================
