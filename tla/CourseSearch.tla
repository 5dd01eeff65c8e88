---------------------------- MODULE CourseSearch ----------------------------
(***************************************************************************)
(* The course search of the schedule builder tab: typing is debounced, the *)
(* list of results is filled page by page, and only the newest mutate()    *)
(* call of the search mutation runs its callbacks.                         *)
(***************************************************************************)
EXTENDS Integers, Sequences

CONSTANTS
    Queries,     \* what the student may type
    Pages        \* [Queries -> Nat], pages the catalog has for a query

VARIABLES
    query,       \* courseForm.query, <<>> when empty
    searched,    \* lastSearchQueryRef
    timer,       \* the debounce timer runs
    pending,     \* the newest search on its way, or Idle
    answered,    \* has it been answered?
    results,     \* searchResults: the pages [query, page] shown
    cursor,      \* searchCursor, 0 for null
    lastSearch,
    isLoadingMore,
    searchOpen

searchVars == <<query, searched, timer, pending, answered, results, cursor, lastSearch,
                isLoadingMore, searchOpen>>

Empty == <<>>
Idle == [query |-> Empty, page |-> 0, append |-> FALSE]
Result(q, n) == [query |-> q, page |-> n]

SearchInit ==
    /\ query = Empty /\ searched = Empty /\ timer = FALSE /\ pending = Idle /\ answered = FALSE
    /\ results = <<>> /\ cursor = 0 /\ lastSearch = Empty /\ isLoadingMore = FALSE /\ searchOpen = FALSE

ClearResults == results' = <<>> /\ cursor' = 0 /\ lastSearch' = Empty

\* The effect on the query (and on the plan, see PlanRefetched).
Type ==
    /\ \E q \in (Queries \cup {Empty}) \ {query} :
         /\ query' = q /\ searched' = q
         /\ IF q = Empty
            THEN ClearResults /\ searchOpen' = FALSE /\ timer' = FALSE
            ELSE /\ searchOpen' = (q # searched \/ searchOpen) /\ timer' = TRUE
                 /\ UNCHANGED <<results, cursor, lastSearch>>
    /\ UNCHANGED <<pending, answered, isLoadingMore>>

\* New plan data start the timer again; the list is not reopened.
PlanRefetched ==
    /\ query # Empty /\ timer' = TRUE
    /\ UNCHANGED <<query, searched, pending, answered, results, cursor, lastSearch, isLoadingMore, searchOpen>>

\* Another plan: its effect starts the search over.
PlanChanged ==
    /\ query' = Empty /\ searched' = Empty /\ timer' = FALSE
    /\ ClearResults /\ isLoadingMore' = FALSE /\ searchOpen' = FALSE
    /\ UNCHANGED <<pending, answered>>

Focus ==
    /\ query # Empty /\ searchOpen' = TRUE
    /\ UNCHANGED <<query, searched, timer, pending, answered, results, cursor, lastSearch, isLoadingMore>>

\* Outside click, Escape, or a course added.
Close ==
    /\ searchOpen' = FALSE
    /\ UNCHANGED <<query, searched, timer, pending, answered, results, cursor, lastSearch, isLoadingMore>>

\* performSearch: a newer call replaces the observed one.
Search(q, n, append) == pending' = [query |-> q, page |-> n, append |-> append] /\ answered' = FALSE

TimerFires ==
    /\ timer /\ timer' = FALSE
    /\ Search(query, 1, FALSE)
    /\ UNCHANGED <<query, searched, results, cursor, lastSearch, isLoadingMore, searchOpen>>

LoadMore_TypedQuery ==
    /\ searchOpen /\ cursor # 0 /\ lastSearch # Empty /\ query # Empty
    /\ ~isLoadingMore /\ pending = Idle
    /\ isLoadingMore' = TRUE
    /\ Search(query, cursor, TRUE)
    /\ UNCHANGED <<query, searched, timer, results, cursor, lastSearch, searchOpen>>

\* The sentinel below the results comes into view.
LoadMore ==
    /\ searchOpen /\ cursor # 0 /\ lastSearch # Empty
    /\ ~isLoadingMore /\ pending = Idle
    /\ isLoadingMore' = TRUE
    /\ Search(lastSearch, cursor, TRUE)
    /\ UNCHANGED <<query, searched, timer, results, cursor, lastSearch, searchOpen>>

SearchServed ==
    /\ pending # Idle /\ ~answered /\ answered' = TRUE
    /\ UNCHANGED <<query, searched, timer, pending, results, cursor, lastSearch, isLoadingMore, searchOpen>>

Found ==
    /\ answered
    /\ LET new == Result(pending.query, pending.page)
       IN  results' = IF pending.append THEN Append(results, new) ELSE <<new>>
    /\ cursor' = IF pending.page < Pages[pending.query] THEN pending.page + 1 ELSE 0
    /\ lastSearch' = pending.query
    /\ isLoadingMore' = FALSE /\ pending' = Idle /\ answered' = FALSE
    /\ UNCHANGED <<query, searched, timer, searchOpen>>

NotFound ==
    /\ pending # Idle
    /\ isLoadingMore' = FALSE /\ pending' = Idle /\ answered' = FALSE
    /\ UNCHANGED <<query, searched, timer, results, cursor, lastSearch, searchOpen>>

SearchNext ==
    \/ Type \/ PlanRefetched \/ PlanChanged \/ Focus \/ Close
    \/ TimerFires \/ LoadMore \/ SearchServed \/ Found \/ NotFound

SearchSpec == SearchInit /\ [][SearchNext]_searchVars

-----------------------------------------------------------------------------
(***************************************************************************)
(* Properties.                                                             *)
(***************************************************************************)

\* The results shown are of one query and of consecutive pages, and "load more"
\* continues them: no answer is appended to the results of another query, though
\* the student may type, clear the box and change plans while answers are on
\* their way.
ResultsAreOneSearch ==
    /\ \A i \in DOMAIN results :
         results[i] = Result(lastSearch, results[1].page + i - 1)
    /\ results # <<>> => cursor \in {0, results[Len(results)].page + 1}

\* "Loading more" ends although the search it belongs to may be replaced and its
\* callbacks never run.
LoadMoreEnds == isLoadingMore ~> ~isLoadingMore
===============================================================================
