-------------------------------- MODULE Feed --------------------------------
(***************************************************************************)
(* One browser tab's list of issues (resources/idtrack.js): pages loaded   *)
(* as the user scrolls, a poll for what others changed, and the two        *)
(* queries of the server they ask (server/issues.go, db/issues.go).        *)
(*                                                                         *)
(* JavaScript runs one callback at a time: what a function does up to an   *)
(* await is one step, what it does with the answer another.  In between    *)
(* lie the statements of the server's handler; answers overtake each other *)
(* and any request may fail.                                               *)
(*                                                                         *)
(* Stamps are updated_at, in whole seconds.  Server and browser have one   *)
(* clock.  Issues are sorted by id, newest first, and the only filter is   *)
(* that of the status.                                                     *)
(***************************************************************************)
EXTENDS Naturals, Sequences, SequencesExt, FiniteSets, Tables, Slices

CONSTANTS
  Fetches,    \* requests the tab may have under way at once
  Actions,    \* what happens in this instance besides loading and polling
  PageSize,   \* _pageSize
  MaxIssues, MaxWrites, MaxClock, MaxLoads
    \* bounds: issues filed, writes to their table, seconds, loads of the window

ASSUME FeedAssumption ==
  /\ Actions \subseteq {"page", "filter", "open", "save"}
  /\ PageSize \in Nat \ {0}
  /\ MaxIssues \in Nat /\ MaxWrites \in Nat /\ MaxClock \in Nat \ {0} /\ MaxLoads \in Nat

VARIABLES
  issues,   \* table issues: id -> status and updated_at
  writes,   \* to that table so far
  clock,    \* the second it is, from 1
  filter,   \* _statusFilter
  gen,      \* _fetchGen
  window,   \* _issueWindow
  total,    \* _totalIssues
  cursor,   \* _lastSeenAt: 0 is the empty string
  lock,     \* _fetchLock
  open,     \* _currentId: 0 when the detail panel is closed
  hint,     \* _refreshHintOn
  fetches   \* requests under way

vars == <<issues, writes, clock, filter, gen, window, total, cursor, lock, open, hint, fetches>>
page == <<filter, gen, window, total, cursor, lock, open, hint>>

Ids == 1..MaxIssues
Statuses == {"Open", "Resolved"}
Row == [id: Ids, status: Statuses, stamp: 1..MaxClock]

\* rows and count are the answer as far as the handler has got.
Fetch == [kind: {"load", "page", "poll", "save"}, step: {"sent", "counted", "answered"},
          gen: 0..MaxLoads, filter: {"all", "open"}, offset: Nat, since: 0..MaxClock,
          rows: Seq(Row), count: 0..MaxIssues]

Init ==
  /\ issues = NoRows /\ writes = 0 /\ clock = 1
  /\ filter = "all" /\ gen = 0
  /\ window = <<>> /\ total = 0 /\ cursor = 0 /\ lock = FALSE
  /\ open = 0 /\ hint = FALSE
  /\ fetches = NoRows

-----------------------------------------------------------------------------
(* The server.                                                             *)

Matches(row, f) == f = "open" => row.status = "Open"
RowOf(i) == [id |-> i, status |-> issues[i].status, stamp |-> issues[i].stamp]
Rows(ids) ==
  LET n == Cardinality(ids) IN [k \in 1..n |-> RowOf(Ascending(ids)[n + 1 - k])]

\* buildWhereClause, shared by CountIssues and ListIssues.
Listed(f) == {i \in DOMAIN issues : Matches(issues[i], f)}

\* ListChanges: not by any filter.  (It sorts them by stamp; each issue is there
\* once and the tab looks for the latest stamp, so that their order is left out.)
BugChanges(since, f) == {i \in Listed(f) : issues[i].stamp > since}
Changes(since, f) == {i \in DOMAIN issues : issues[i].stamp > since}

Tick ==
  /\ clock < MaxClock
  /\ clock' = clock + 1
  /\ UNCHANGED <<issues, writes, filter, gen, window, total, cursor, lock, open, hint, fetches>>

Write(i, status) ==
  /\ writes < MaxWrites /\ writes' = writes + 1
  /\ issues' = Put(issues, i, [status |-> status, stamp |-> clock])

\* Another user files an issue or changes one.
Change ==
  /\ \E i \in Ids, s \in Statuses :
       /\ i \in DOMAIN issues \/ (i = Cardinality(DOMAIN issues) + 1 /\ s = "Open")
       /\ Write(i, s)
  /\ UNCHANGED <<clock, fetches, page>>

FetchAt(k, kind, step) == k \in DOMAIN fetches /\ fetches[k].kind = kind /\ fetches[k].step = step
IsPage(k) == k \in DOMAIN fetches /\ fetches[k].kind \in {"load", "page"}

PageAt(rows, offset) == SubSeq(rows, offset + 1, Min({offset + PageSize, Len(rows)}))

\* handleListIssues: CountIssues, then ListIssues.
CountIssues(k) ==
  /\ IsPage(k) /\ fetches[k].step = "sent"
  /\ fetches' = [fetches EXCEPT ![k].step = "counted",
                                ![k].count = Cardinality(Listed(fetches[k].filter))]
  /\ UNCHANGED <<issues, writes, clock, page>>

ListIssues(k) ==
  /\ IsPage(k) /\ fetches[k].step = "counted"
  /\ fetches' = [fetches EXCEPT ![k].step = "answered",
       ![k].rows = PageAt(Rows(Listed(fetches[k].filter)), fetches[k].offset)]
  /\ UNCHANGED <<issues, writes, clock, page>>

\* handleListChanges: one query.
ListChanges(k) ==
  /\ FetchAt(k, "poll", "sent")
  /\ fetches' = [fetches EXCEPT ![k].step = "answered",
       ![k].rows = Rows(Changes(fetches[k].since, fetches[k].filter))]
  /\ UNCHANGED <<issues, writes, clock, page>>

\* PUT /api/issues/{id}, answered with the row.
UpdateIssue(k) ==
  /\ FetchAt(k, "save", "sent")
  /\ LET row == fetches[k].rows[1] IN
       /\ Write(row.id, row.status)
       /\ fetches' = [fetches EXCEPT ![k].step = "answered",
                                     ![k].rows = <<[row EXCEPT !.stamp = clock]>>]
  /\ UNCHANGED <<clock, page>>

-----------------------------------------------------------------------------
(* The tab asks.                                                           *)

Send(k, kind, g, f, offset, rows) ==
  /\ k \notin DOMAIN fetches
  /\ fetches' = Put(fetches, k, [kind |-> kind, step |-> "sent", gen |-> g, filter |-> f,
                      offset |-> offset, since |-> IF kind = "poll" THEN cursor ELSE 0,
                      rows |-> rows, count |-> 0])

\* loadIssueWindow, on signing in, on a change of filter and on "Refresh".
LoadIssueWindow(k) ==
  /\ gen < MaxLoads
  /\ filter' \in IF "filter" \in Actions THEN {"all", "open"} ELSE {filter}
  /\ gen' = gen + 1
  /\ window' = <<>> /\ total' = 0 /\ cursor' = 0 /\ lock' = FALSE
  /\ hint' \in {hint, FALSE}  \* "Refresh" takes the hint away
  /\ Send(k, "load", gen', filter', 0, <<>>)
  /\ UNCHANGED <<issues, writes, clock, open>>

\* loadNextPage, whenever the bottom of the list scrolls into view.
LoadNextPage(k) ==
  /\ "page" \in Actions
  /\ ~lock /\ Len(window) < total
  /\ lock' = TRUE
  /\ Send(k, "page", gen, filter, Len(window), <<>>)
  /\ UNCHANGED <<issues, writes, clock, filter, gen, window, total, cursor, open, hint>>

\* pollForChanges, every 30 seconds.
PollForChanges(k) ==
  /\ cursor # 0
  /\ Send(k, "poll", gen, filter, 0, <<>>)
  /\ UNCHANGED <<issues, writes, clock, page>>

\* Selecting a row opens its issue, whatever else is under way.
SelectIssue ==
  /\ "open" \in Actions
  /\ open' \in {window[n].id : n \in DOMAIN window} \cup {0}
  /\ UNCHANGED <<issues, writes, clock, filter, gen, window, total, cursor, lock, hint, fetches>>

DismissRefreshHint ==
  /\ hint /\ hint' = FALSE
  /\ UNCHANGED <<issues, writes, clock, filter, gen, window, total, cursor, lock, open, fetches>>

\* doSaveIssue of the open issue; the button is off until it is answered.
DoSaveIssue(k) ==
  /\ "save" \in Actions
  /\ open # 0 /\ \A j \in DOMAIN fetches : fetches[j].kind # "save"
  /\ \E s \in Statuses : Send(k, "save", gen, filter, 0, <<[RowOf(open) EXCEPT !.status = s]>>)
  /\ UNCHANGED <<issues, writes, clock, page>>

-----------------------------------------------------------------------------
(* The tab takes an answer.                                                *)

Answered(k, kind) == FetchAt(k, kind, "answered") /\ fetches' = Without(fetches, {k})

Stamps(rows) == {rows[n].stamp : n \in DOMAIN rows}
Latest(since, rows) == CHOOSE t \in {since} \cup Stamps(rows) :
                         \A u \in {since} \cup Stamps(rows) : u <= t

\* An answer to a load that a later one superseded is dropped.
BugOfThisLoad(k) == TRUE
OfThisLoad(k) == fetches[k].gen = gen

LoadAnswer(k) ==
  /\ Answered(k, "load")
  /\ IF OfThisLoad(k)
     THEN /\ window' = fetches[k].rows /\ total' = fetches[k].count
          /\ cursor' = Latest(clock, fetches[k].rows)
     ELSE UNCHANGED <<window, total, cursor>>
  /\ UNCHANGED <<issues, writes, clock, filter, gen, lock, open, hint>>

\* The lock is given back whatever generation the page was of.
PageAnswer(k) ==
  /\ Answered(k, "page")
  /\ lock' = FALSE
  /\ IF OfThisLoad(k)
     THEN /\ window' = window \o fetches[k].rows /\ total' = fetches[k].count
          /\ cursor' = Latest(cursor, fetches[k].rows)
     ELSE UNCHANGED <<window, total, cursor>>
  /\ UNCHANGED <<issues, writes, clock, filter, gen, open, hint>>

Position(id) == CHOOSE n \in DOMAIN window : window[n].id = id /\ \A m \in 1..(n - 1) : window[m].id # id
InWindow(id) == \E n \in DOMAIN window : window[n].id = id
RowFor(rows, id) == CHOOSE r \in ToSet(rows) : r.id = id
Changed(rows, id) == \E r \in ToSet(rows) : r.id = id

\* The window after the rows of a poll, none twice: the first row of an issue
\* that is not open is brought up to date, or leaves when it matches no more.
Touched(rows, n) ==
  /\ Changed(rows, window[n].id) /\ window[n].id # open /\ Position(window[n].id) = n
Refreshed(rows) ==
  LET kept == Filter([n \in DOMAIN window |-> n],
                {n \in DOMAIN window :
                   Touched(rows, n) => Matches(RowFor(rows, window[n].id), filter)})
  IN [m \in DOMAIN kept |-> IF Touched(rows, kept[m]) THEN RowFor(rows, window[kept[m]].id)
                            ELSE window[kept[m]]]

LessOrZero(n, m) == IF n > m THEN n - m ELSE 0  \* Math.max(0, n - m)

Forward(rows) == Latest(cursor, rows)

PollAnswer(k) ==
  /\ Answered(k, "poll")
  /\ LET rows == fetches[k].rows IN
       /\ window' = Refreshed(rows)
       /\ total' = LessOrZero(total, Len(window) - Len(window'))
       /\ cursor' = Forward(rows)
       /\ hint' = (hint \/ \E r \in ToSet(rows) : ~InWindow(r.id) /\ Matches(r, filter))
  /\ UNCHANGED <<issues, writes, clock, filter, gen, lock, open>>

\* doSaveIssue goes on: the cursor moves to the row's stamp.
SaveAnswer(k) ==
  /\ Answered(k, "save")
  /\ LET row == fetches[k].rows[1] IN
       /\ cursor' = Latest(cursor, <<row>>)
       /\ IF ~InWindow(row.id) THEN UNCHANGED <<window, total, open>>
          ELSE IF Matches(row, filter)
          THEN window' = [window EXCEPT ![Position(row.id)] = row] /\ UNCHANGED <<total, open>>
          ELSE /\ window' = RemoveAt(window, Position(row.id))
               /\ total' = LessOrZero(total, 1)
               /\ open' = 0
  /\ UNCHANGED <<issues, writes, clock, filter, gen, lock, hint>>

\* A request fails: each function swallows it; a page gives the lock back.
Fail(k) ==
  /\ k \in DOMAIN fetches
  /\ fetches' = Without(fetches, {k})
  /\ lock' = (lock /\ fetches[k].kind # "page")
  /\ UNCHANGED <<issues, writes, clock, filter, gen, window, total, cursor, open, hint>>

-----------------------------------------------------------------------------
Handle(k) == CountIssues(k) \/ ListIssues(k) \/ ListChanges(k) \/ UpdateIssue(k)
Take(k) == LoadAnswer(k) \/ PageAnswer(k) \/ PollAnswer(k) \/ SaveAnswer(k)

Next ==
  \/ Tick \/ Change \/ SelectIssue \/ DismissRefreshHint
  \/ \E k \in Fetches :
       \/ LoadIssueWindow(k) \/ LoadNextPage(k) \/ PollForChanges(k) \/ DoSaveIssue(k)
       \/ Handle(k) \/ Take(k) \/ Fail(k)

Spec == Init /\ [][Next]_vars

-----------------------------------------------------------------------------
(* Properties.                                                             *)

\* Every variable keeps its type; the database has no stamp of the future, and
\* neither has the cursor.
TypeOK ==
  /\ DOMAIN issues \subseteq Ids
  /\ \A i \in DOMAIN issues : issues[i] \in [status: Statuses, stamp: 1..clock]
  /\ clock \in 1..MaxClock /\ writes \in 0..MaxWrites /\ filter \in {"all", "open"} /\ gen \in 0..MaxLoads
  /\ window \in Seq(Row) /\ total \in 0..MaxIssues /\ cursor \in 0..clock
  /\ lock \in BOOLEAN /\ hint \in BOOLEAN /\ open \in Ids \cup {0}
  /\ DOMAIN fetches \subseteq Fetches
  /\ \A k \in DOMAIN fetches : fetches[k] \in Fetch

\* No row on the screen contradicts the filter above it: answers to a load, a
\* page or a poll asked for under another filter never put one there, and a row
\* that an edit takes out of the filter leaves.  (On top of the types.)
WindowMatchesFilter == TypeOK /\ \A n \in DOMAIN window : Matches(window[n], filter)

\* What the tab shows of issue i, after the step: up to date, or announced by
\* the hint, or gone from the window when it matches no more.  The open issue
\* is left alone.
Shows(i) ==
  \/ open = i
  \/ /\ Matches(issues[i], filter)
     /\ hint' \/ \E n \in DOMAIN window' : window'[n] = RowOf(i)
  \/ /\ ~Matches(issues[i], filter)
     /\ InWindow(i) => Len(window') < Len(window)

\* A poll that moves the cursor over a change has shown it (without a cursor the
\* window is being loaded).  Of the very second at which the cursor stops this
\* cannot be said: a change later in that second is in no answer to come.  Nor can
\* it of a poll that asked for what is newer than a later cursor: when the window
\* is loaded again and an own edit answered first, the cursor starts at that edit.
PollShows ==
  [][\A k \in Fetches : PollAnswer(k) =>
       \A i \in DOMAIN issues :
         /\ 0 < cursor /\ fetches[k].since <= cursor
         /\ cursor < issues[i].stamp /\ issues[i].stamp < cursor'
         => Shows(i)]_vars
=============================================================================
