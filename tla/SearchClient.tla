---------------------------- MODULE SearchClient ----------------------------
(***************************************************************************)
(* SearchNotifier on top of the catalog: debounced searches, a generation  *)
(* counter against late answers, and further pages on demand.  An action   *)
(* is the Dart code between two awaits, or the server's one query.         *)
(***************************************************************************)
EXTENDS Catalog

CONSTANTS
  None,      \* nothing: no value, no text
  Calls,     \* calls to the server in flight at once
  MaxTyped   \* bound: keystrokes

VARIABLES
  typed,     \* the last text given to onQueryChanged
  generation,
  timer,     \* the debounce timer is running
  shown,     \* the state the screen builds from; None when it is an error
  call,      \* the searches and further pages under way
  late       \* history: a page of another text than the last replaced the state

clientVars == <<typed, generation, timer, shown, call, late>>
vars == <<catalogVars, clientVars>>

\* SearchState; since is history: the matches there were when the first page
\* of these results was cut.
Results(q, items, cursor, more, loading, since) ==
  [query |-> q, items |-> items, cursor |-> cursor, more |-> more,
   loading |-> loading, since |-> since]
Empty(q) == Results(q, {}, {}, FALSE, FALSE, {})

\* gen is the generation of a search, 0 for a further page; base is the state
\* the call was made from; page what the server answers.
NoCall == [at |-> "free", query |-> None, gen |-> 0, base |-> None, page |-> None]

Init ==
  /\ CatalogInit
  /\ typed = None /\ generation = 0 /\ timer = FALSE
  /\ shown = Empty(None)
  /\ call = [c \in Calls |-> NoCall]
  /\ late = FALSE

\* A keystroke; a blank text is shown at once.
OnQueryChanged(q) ==
  /\ generation < MaxTyped
  /\ generation' = generation + 1 /\ typed' = q
  /\ timer' = (q # None)
  /\ shown' = IF q = None THEN Empty(None) ELSE shown
  /\ late' = (q # None /\ late)
  /\ UNCHANGED <<catalogVars, call>>

Send(c, q, gen, base) ==
  /\ call[c] = NoCall
  /\ call' = [call EXCEPT ![c] = [at |-> "sent", query |-> q, gen |-> gen,
                                  base |-> base, page |-> None]]

\* The timer fires: _runSearch up to its await. The state keeps its value.
RunSearch(c) ==
  /\ timer /\ timer' = FALSE
  /\ Send(c, typed, generation, None)
  /\ UNCHANGED <<catalogVars, typed, generation, shown, late>>

\* loadMore, whose button is there while results are shown, up to its await
LoadMore(c) ==
  /\ shown # None /\ shown.more /\ ~shown.loading
  /\ Send(c, shown.query, 0, shown)
  /\ shown' = [shown EXCEPT !.loading = TRUE]
  /\ UNCHANGED <<catalogVars, typed, generation, timer, late>>

\* The server's query: TrackRepo.Search
Serve(c) ==
  LET q == call[c].query
      base == IF call[c].base = None THEN Empty(q) ELSE call[c].base
      rest == Found(q, base.cursor)
      page == FirstRows(rest, ByTitle, Limit)
      more == rest # page
  IN /\ call[c].at = "sent"
     /\ call' = [call EXCEPT ![c].at = "answered", ![c].page =
          Results(q, base.items \cup page,
                  IF more THEN NextCursor(rest, ByTitle, Limit) ELSE {}, more, FALSE,
                  IF call[c].base = None THEN rest ELSE base.since)]
     /\ UNCHANGED <<catalogVars, typed, generation, timer, shown, late>>

\* A call fails at any time: the server, the network, a timeout.
Lose(c) ==
  /\ call[c].at = "sent"
  /\ call' = [call EXCEPT ![c].at = "failed"]
  /\ UNCHANGED <<catalogVars, typed, generation, timer, shown, late>>

Trusting(gen) == TRUE
IsCurrent(gen) == gen = generation

\* _runSearch after its await: a stale answer is dropped.
TakeSearch(c) ==
  /\ call[c].at \in {"answered", "failed"} /\ call[c].gen > 0
  /\ IF IsCurrent(call[c].gen)
       THEN shown' = call[c].page /\ late' = FALSE
       ELSE UNCHANGED <<shown, late>>
  /\ call' = [call EXCEPT ![c] = NoCall]
  /\ UNCHANGED <<catalogVars, typed, generation, timer>>

\* loadMore after its await: whatever is shown by now is replaced.
TakePage(c) ==
  /\ call[c].at \in {"answered", "failed"} /\ call[c].gen = 0
  /\ shown' = IF call[c].at = "answered" THEN call[c].page ELSE call[c].base
  /\ late' = (call[c].query # typed)
  /\ call' = [call EXCEPT ![c] = NoCall]
  /\ UNCHANGED <<catalogVars, typed, generation, timer>>

Client ==
  \/ \E q \in Queries \cup {None} : OnQueryChanged(q)
  \/ \E c \in Calls : RunSearch(c) \/ LoadMore(c) \/ Serve(c) \/ Lose(c)
                      \/ TakeSearch(c) \/ TakePage(c)

Next == (CatalogNext /\ UNCHANGED clientVars) \/ Client

Spec == Init /\ [][Next]_vars

-----------------------------------------------------------------------------

\* What further pages of some results would bring.
ToCome(s) == IF s.more THEN Found(s.query, s.cursor) ELSE {}

\* The pages of a search fit together: results and what is to come hold every
\* track that matched when the first page was cut, and no further page repeats
\* one shown, however many tracks are created between the pages and whatever
\* searches overlap (cursor of TrackRepo.Search, loadMore, which appends).
PagesFit ==
  shown # None => /\ shown.since \subseteq shown.items \cup ToCome(shown)
                  /\ shown.items \cap ToCome(shown) = {}

\* With nothing under way the results shown are those of the last text typed,
\* or its error, unless a late page of another text came in (loadMore, which
\* does not ask the generation counter).
SettledShowsLatest ==
  ~timer /\ (\A c \in Calls : call[c] = NoCall) /\ ~late
    => shown = None \/ shown.query = typed
=============================================================================
