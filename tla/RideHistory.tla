----------------------------- MODULE RideHistory -----------------------------
(***************************************************************************)
(* The captain's ride history: a page and a filter, each change of which   *)
(* fetches the list again, and answers that set the page they were asked   *)
(* for. The filter's buttons work while a fetch is under way, the others   *)
(* do not; nothing cancels a fetch or tells an old answer from a new one.  *)
(***************************************************************************)
EXTENDS Naturals, FiniteSets

CONSTANTS
  Filters, All,
  PagesOf,        \* the pages the server has for each filter: none, if no rides
  FetchesFail     \* may a fetch fail?

ASSUME HistoryAssumption ==
  /\ All \in Filters
  /\ PagesOf \in [Filters -> Nat]
  /\ FetchesFail \in BOOLEAN

VARIABLES
  currentPage, statusFilter, totalPages, loading,
  list,        \* the page and filter of the rides on the screen
  fetches,     \* fetches under way
  disturbed    \* history: has a fetch failed, or overtaken another?

historyVars == <<currentPage, statusFilter, totalPages, loading, list, fetches, disturbed>>

LastPage ==
  CHOOSE n \in {1} \cup {PagesOf[f] : f \in Filters} :
    n >= 1 /\ \A f \in Filters : PagesOf[f] <= n
Fetch(page, filter) == [page |-> page, filter |-> filter]
Fetches == [page : 1 .. LastPage, filter : Filters]
FirstPage == Fetch(1, All)
Nothing   == Fetch(0, All)
Shown == Fetch(currentPage, statusFilter)

HistoryTypeOK ==
  /\ currentPage \in 1 .. LastPage /\ statusFilter \in Filters
  /\ totalPages \in 0 .. LastPage /\ loading \in BOOLEAN
  /\ list \in Fetches \cup {Nothing} /\ fetches \subseteq Fetches
  /\ disturbed \in BOOLEAN

Unmounted ==
  /\ currentPage = 1 /\ statusFilter = All /\ totalPages = 1
  /\ loading = TRUE /\ list = Nothing /\ fetches = {}
  /\ disturbed = FALSE

(* The effect fetches the first page; the list goes with its component,    *)
(* and so do the answers under way.                                        *)
Mount   == /\ fetches' = {FirstPage}
           /\ UNCHANGED <<currentPage, statusFilter, totalPages, loading, list, disturbed>>
Unmount ==
  /\ currentPage' = 1 /\ statusFilter' = All /\ totalPages' = 1
  /\ loading' = TRUE /\ list' = Nothing /\ fetches' = {}
  /\ disturbed' = FALSE

(* fetchHistory, for the page and the filter it is called with.            *)
FetchHistory(under) ==
  /\ loading' = TRUE
  /\ fetches' = under \cup {Fetch(currentPage', statusFilter')}
  /\ disturbed' = (disturbed \/ under # {})

(* The effect fetches when the page or the filter has changed.             *)
Effect(under, isLoading) ==
  IF Shown' # Shown THEN FetchHistory(under)
  ELSE loading' = isLoading /\ fetches' = under /\ UNCHANGED disturbed

HandleFilterChange_OtherEffect(f) ==
  /\ statusFilter' = f /\ currentPage' = 1
  /\ IF currentPage' # currentPage THEN FetchHistory(fetches)
     ELSE UNCHANGED <<loading, fetches, disturbed>>
  /\ UNCHANGED <<totalPages, list>>

HandleFilterChange(f) ==
  /\ statusFilter' = f /\ currentPage' = 1
  /\ Effect(fetches, loading)
  /\ UNCHANGED <<totalPages, list>>

(* The buttons are there when there is more than one page.                 *)
Turn ==
  /\ ~loading /\ totalPages > 1
  /\ \/ currentPage > 1 /\ currentPage' = currentPage - 1
     \/ currentPage < totalPages /\ currentPage' = currentPage + 1
  /\ UNCHANGED <<statusFilter, totalPages, list>>
  /\ Effect(fetches, loading)

Refresh ==
  /\ ~loading
  /\ UNCHANGED <<currentPage, statusFilter, totalPages, list>>
  /\ FetchHistory(fetches)

FetchAnswered_ListInEffect(q) ==
  /\ q \in fetches
  /\ list' = q /\ totalPages' = PagesOf[q.filter]
  /\ currentPage' = q.page /\ UNCHANGED statusFilter
  /\ FetchHistory(fetches \ {q})

(* Batched: the page of the answer, and then the effect's own fetch if the *)
(* page is another one.                                                    *)
FetchAnswered(q) ==
  /\ q \in fetches
  /\ list' = q /\ totalPages' = PagesOf[q.filter]
  /\ currentPage' = q.page /\ UNCHANGED statusFilter
  /\ Effect(fetches \ {q}, FALSE)

FetchFailed(q) ==
  /\ FetchesFail /\ q \in fetches
  /\ fetches' = fetches \ {q} /\ loading' = FALSE /\ disturbed' = TRUE
  /\ UNCHANGED <<currentPage, statusFilter, totalPages, list>>

Clicks == (\E f \in Filters : HandleFilterChange(f)) \/ Turn \/ Refresh

FetchEnds == \E q \in fetches : FetchAnswered(q) \/ FetchFailed(q)

HistoryNext == Clicks \/ FetchEnds

HistoryFairness == \A q \in Fetches : WF_historyVars(FetchAnswered(q) \/ FetchFailed(q))

-----------------------------------------------------------------------------
(* As long as no fetch was sent while another was under way, and none      *)
(* failed, a list that waits for nothing is that of the page and filter    *)
(* marked on the screen. (Two fetches that were under way together may end *)
(* with the rides of one filter under the other.)                          *)
HistoryInStep ==
  list # Nothing /\ fetches = {} /\ ~disturbed => list = Shown

(* Under the same condition an answer ends the loading: it fetches nothing *)
(* itself, though it sets the page that the effect watches. (Two answers   *)
(* for different pages set the page in turn, and each change of it fetches *)
(* the other page again, for ever.)                                        *)
HistorySettles == [][FetchEnds /\ ~disturbed' => fetches' = {}]_historyVars
=============================================================================
