----------------------------- MODULE InfiniteList -----------------------------
(***************************************************************************)
(* A searched and paged list: the toolbar and the list of                  *)
(* searchable-infinite-list.tsx over use-infinite-scroll.ts, as the        *)
(* statistics tab uses them with its term filter.                          *)
(***************************************************************************)
EXTENDS Lists, Sequences, SequencesExt

CONSTANTS
    Typed,      \* what may be typed, NoText among it
    Terms,      \* terms of the filter, "all" among them
    Hints,      \* pre-search of a text -> what is suggested for it
    Size,       \* rows of a page
    InitRows,   \* reports: [id, words, term]; the highest id is listed first
    NewRows,    \* reports added while the list is open
    Changes     \* bound on submissions and on changes of the term

NoText == "-"   \* the empty text
Reports == InitRows \cup NewRows

ASSUME ListAssumption ==
    /\ IsFiniteSet(Reports) /\ InitRows \cap NewRows = {}
    /\ \A r \in Reports : r.id \in Nat /\ \A q \in Reports : r.id = q.id => r = q
    /\ Size \in Nat \ {0}

VARIABLES
    input, hinted, showSuggestions, selectedIndex,  \* SearchToolbar; hinted is debounced
    keyword,    \* submitted; the page's searchKeyword
    debounced,  \* the hook's debouncedKeyword
    term,       \* selectedTerm
    cache,      \* key -> [n, loaded, total, known, failed]: the cached queries
    fetching,   \* keys with a request under way
    reports,    \* of the service
    toAdd, changes

listVars == <<input, hinted, showSuggestions, selectedIndex, keyword, debounced, term, cache,
              fetching, reports, toAdd, changes>>
toolbar == <<input, hinted, showSuggestions, selectedIndex>>
service == <<reports, toAdd>>

-----------------------------------------------------------------------------
(* Queries and their pages. *)
Key == <<debounced, term>>

\* The service filters by term only what a keyword found. It lists the newest first, or
\* by rank, where a new report may come anywhere.
Match(text, t, r) == text = NoText \/ (text \in r.words /\ (t = "all" \/ t = r.term))
Matches(key) == {r \in reports : Match(key[1], key[2], r)}
Found(key) == NewestFirst(Matches(key))
Page(found, n) == SubSeq(found, (n - 1) * Size + 1,
                         IF n * Size < Len(found) THEN n * Size ELSE Len(found))
TotalPages(found) == (Len(found) + Size - 1) \div Size

\* n pages, their rows one after another, the last one's total_pages, what matched when
\* the first was read (history), and whether a page failed.
Nothing == [n |-> 0, loaded |-> <<>>, total |-> 0, known |-> {}, failed |-> FALSE]
Cached(key) == IF key \in DOMAIN cache THEN cache[key] ELSE Nothing
Query == Cached(Key)

HasNextPage_Early == Query.n # 0 /\ Query.n + 1 < Query.total
\* getNextPageParam: the last page was not the last of its total.
HasNextPage == Query.n # 0 /\ Query.n < Query.total

\* Rows that moved to the next page meanwhile come twice and are shown once.
Unique(list) == Entries(list, {i \in DOMAIN list : \A j \in 1..(i - 1) : list[j].id # list[i].id})
Results == Unique(Query.loaded)

isLoading == Query.n = 0 /\ ~Query.failed
\* What is shown; the marker of the end lies under the rows.
Screen == CASE isLoading -> "loading"
            [] Query.failed -> "error"
            [] ~isLoading /\ ~Query.failed /\ Results = <<>> -> "empty"
            [] OTHER -> "rows"
Suggestions == IF hinted = NoText THEN <<>> ELSE Hints[hinted]

ListInit ==
    /\ keyword \in Typed /\ input = keyword /\ hinted = keyword /\ debounced = keyword
    /\ showSuggestions = FALSE /\ selectedIndex = 0 /\ term = "all"
    /\ cache = <<>> /\ fetching = {} /\ reports = InitRows /\ toAdd = NewRows /\ changes = Changes

-----------------------------------------------------------------------------
(* The toolbar. *)
Type(text) ==
    /\ text # input /\ changes > 0 /\ input' = text
    /\ showSuggestions' = TRUE /\ selectedIndex' = 0
    /\ UNCHANGED <<hinted, keyword, debounced, term, cache, fetching, service, changes>>

\* 250 ms after the last key.
HintTimer ==
    /\ hinted # input /\ hinted' = input
    /\ UNCHANGED <<input, showSuggestions, selectedIndex, keyword, debounced, term, cache,
                   fetching, service, changes>>

Arrow(step) ==
    /\ Suggestions # <<>> /\ changes > 0
    /\ selectedIndex' = LET i == selectedIndex + step
                        IN  CASE i < 1 -> Len(Suggestions)
                              [] i > Len(Suggestions) -> 1
                              [] OTHER -> i
    /\ UNCHANGED <<input, hinted, showSuggestions, keyword, debounced, term, cache, fetching,
                   service, changes>>

\* The box is focused, or was left 200 ms ago; the pointer is over a suggestion.
Focus(shown) ==
    /\ shown # showSuggestions /\ showSuggestions' = shown
    /\ UNCHANGED <<input, hinted, selectedIndex, keyword, debounced, term, cache, fetching,
                   service, changes>>
Hover(i) ==
    /\ showSuggestions /\ input # NoText /\ selectedIndex' = i
    /\ UNCHANGED <<input, hinted, showSuggestions, keyword, debounced, term, cache, fetching,
                   service, changes>>

Search(text) ==
    /\ changes > 0 /\ changes' = changes - 1
    /\ input' = text /\ keyword' = text /\ showSuggestions' = FALSE
    /\ UNCHANGED <<hinted, debounced, term, cache, fetching, service>>

Enter ==
    IF selectedIndex \in DOMAIN Suggestions
    THEN Search(Suggestions[selectedIndex]) /\ selectedIndex' = 0
    ELSE Search(input) /\ UNCHANGED selectedIndex

\* A suggestion is clicked; it is offered while the list of them is shown.
PickSuggestion(i) ==
    /\ showSuggestions /\ input # NoText /\ Search(Suggestions[i]) /\ selectedIndex' = 0

\* Escape, or the X, which empties the box and searches nothing.
Hide(text) ==
    /\ text \in {input, NoText} /\ <<text, FALSE, 0>> # <<input, showSuggestions, selectedIndex>>
    /\ input' = text /\ showSuggestions' = FALSE /\ selectedIndex' = 0
    /\ UNCHANGED <<hinted, keyword, debounced, term, cache, fetching, service, changes>>

\* A query that failed without data is asked for again when its key is shown again.
Revisit(key) ==
    cache' = [k \in DOMAIN cache \ {j \in {key} : Cached(j).n = 0} |-> cache[k]]

PickTerm(t) ==
    /\ t # term /\ changes > 0 /\ term' = t /\ changes' = changes - 1
    /\ Revisit(<<debounced, t>>)
    /\ UNCHANGED <<toolbar, keyword, debounced, fetching, service>>

-----------------------------------------------------------------------------
(* The hook: the timer of useDebounce, and the query of the current key. *)
KeywordTimer ==
    /\ debounced # keyword /\ debounced' = keyword /\ Revisit(<<keyword, term>>)
    /\ UNCHANGED <<toolbar, keyword, term, fetching, service, changes>>

MustFetch == Key \notin fetching /\ Query.n = 0 /\ ~Query.failed
\* The marker under the list comes into view.
AtTheEnd == Screen = "rows" /\ HasNextPage /\ Key \notin fetching

Fetch ==
    /\ MustFetch \/ AtTheEnd
    /\ fetching' = fetching \cup {Key}
    /\ UNCHANGED <<toolbar, keyword, debounced, term, cache, service, changes>>

\* The page of the key asked for, whatever key is shown by now.
PageOf(found, old) ==
    [n |-> old.n + 1, loaded |-> old.loaded \o Page(found, old.n + 1),
     total |-> TotalPages(found), known |-> IF old.n = 0 THEN ToSet(found) ELSE old.known,
     failed |-> old.failed]
Keep(key, entry) == cache' = [k \in DOMAIN cache \cup {key} |-> IF k = key THEN entry ELSE cache[k]]

PageArrives(key) ==
    /\ key \in fetching /\ fetching' = fetching \ {key}
    /\ Keep(key, PageOf(Found(key), Cached(key)))
    /\ UNCHANGED <<toolbar, keyword, debounced, term, service, changes>>

\* One failed page, the first or a later one, hides the list; it is not asked for again.
PageFails(key) ==
    /\ key \in fetching /\ changes > 0 /\ fetching' = fetching \ {key}
    /\ Keep(key, [Cached(key) EXCEPT !.failed = TRUE])
    /\ changes' = changes - 1 /\ UNCHANGED <<toolbar, keyword, debounced, term, service>>

NewReport(r) ==
    /\ reports' = reports \cup {r} /\ toAdd' = toAdd \ {r}
    /\ UNCHANGED <<toolbar, keyword, debounced, term, cache, fetching, changes>>

ListNext ==
    \/ \E t \in Typed : Type(t)
    \/ HintTimer \/ Arrow(1) \/ Arrow(-1) \/ Enter
    \/ \E i \in DOMAIN Suggestions : PickSuggestion(i) \/ Hover(i)
    \/ \E shown \in BOOLEAN : Focus(shown)
    \/ Hide(input) \/ Hide(NoText) \/ \E t \in Terms : PickTerm(t)
    \/ KeywordTimer \/ Fetch
    \/ \E key \in fetching : PageArrives(key) \/ PageFails(key)
    \/ \E r \in toAdd : NewReport(r)

ListSpec == ListInit /\ [][ListNext]_listVars

-----------------------------------------------------------------------------
(* With a keyword, every row of the list has that word and is of the term it is shown
   for, whichever answers of older keywords and terms come late. *)
ListIsOneSearch ==
    debounced # NoText => \A r \in ToSet(Results) : debounced \in r.words /\ term \in {"all", r.term}

\* Scrolled to the end, the list has each match that was there when it was opened,
\* once, however many reports came in between.
EndShowsAll ==
    Screen \in {"rows", "empty"} /\ ~HasNextPage =>
        /\ Query.known \subseteq ToSet(Results)
        /\ Cardinality(ToSet(Results)) = Len(Results)

\* The list shows the matches of one search, and at its end all of them, once.
ListIsItsSearch == ListIsOneSearch /\ EndShowsAll

\* A search that does not fail is loaded to its end: nothing waits for ever.
ListEnds == <>[](Query.failed \/ (Query.n # 0 /\ ~HasNextPage /\ debounced = keyword))
==============================================================================
