------------------------------ MODULE UsageStore ------------------------------
(***************************************************************************)
(* UsageStore (local_codex/usage.py): one row for each request that was     *)
(* answered, a table of sessions with their titles, and the statistics the  *)
(* monitor asks for.  Each method holds the store's lock and commits once:  *)
(* one call is one step.                                                    *)
(***************************************************************************)
EXTENDS Integers, FiniteSets, SequencesExt, FiniteSetsExt

CONSTANTS
  Sid,       \* session ids
  Tid,       \* turn ids
  Model,
  Title,
  Untitled,  \* no title
  Span,      \* the seconds of a period; the other one is "all"
  PageSizes, \* page_size of those who ask for statistics
  MaxTokens, \* bounds the tokens of a request
  MaxClock   \* bounds time

ASSUME UsageAssumption ==
  /\ IsFiniteSet(Sid) /\ Untitled \notin Title
  /\ Span \in Nat /\ PageSizes \subseteq 1..200 /\ MaxTokens \in Nat \ {0} /\ MaxClock \in Nat \ {0}

VARIABLES
  events,   \* usage_events, in the order of id
  sessions, \* the table sessions: ids with their titles
  wall,     \* time.time(): it moves on between two events
  titled    \* history: the last title a session was given

usageVars == <<events, sessions, wall, titled>>

Event   == [at: 1..MaxClock, sid: Sid, tid: Tid, model: Model, tokens: 0..MaxTokens]
NoTable == [s \in {} |-> Untitled]

UsageTypeOK ==
  /\ events \in Seq(Event)
  /\ DOMAIN sessions \subseteq Sid /\ \A s \in DOMAIN sessions : sessions[s] \in Title \cup {Untitled}
  /\ wall \in 0..MaxClock
  /\ titled \in [Sid -> Title \cup {Untitled}]

\* An installation is new, or its rows are older than the table sessions.
UsageInit ==
  /\ events \in {<<>>} \cup {<<[at |-> 1, sid |-> s, tid |-> t, model |-> m, tokens |-> 1]>> :
                               s \in Sid, t \in Tid, m \in Model}
  /\ sessions = NoTable
  /\ wall = Len(events)
  /\ titled = [s \in Sid |-> Untitled]

-----------------------------------------------------------------------------
With(table, s, title) == [x \in DOMAIN table \cup {s} |-> IF x = s THEN title ELSE table[x]]
TitleOf(table, s)     == IF s \in DOMAIN table THEN table[s] ELSE Untitled

\* Mutant: the row of the session is replaced.
SeenAnew(table, s) == With(table, s, Untitled)
\* INSERT ... ON CONFLICT DO UPDATE, and INSERT OR IGNORE: a title stays.
Seen(table, s) == With(table, s, TitleOf(table, s))

\* __init__: the router starts, or a command that reads statistics.
OpenStore ==
  /\ sessions' = [s \in DOMAIN sessions \cup {events[i].sid : i \in DOMAIN events} |-> TitleOf(sessions, s)]
  /\ UNCHANGED <<events, wall, titled>>

Record(s, t, m, n) ==
  /\ wall < MaxClock
  /\ wall' = wall + 1
  /\ events' = Append(events, [at |-> wall', sid |-> s, tid |-> t, model |-> m, tokens |-> n])
  /\ sessions' = Seen(sessions, s)
  /\ UNCHANGED titled

\* A title without anything but blanks is not set.
SetSessionTitle(s, title) ==
  /\ sessions' = With(sessions, s, title)
  /\ titled' = [titled EXCEPT ![s] = title]
  /\ UNCHANGED <<events, wall>>

UsageNext ==
  \/ OpenStore
  \/ \E s \in Sid, t \in Tid, m \in Model, n \in 0..MaxTokens : Record(s, t, m, n)
  \/ \E s \in Sid, title \in Title : SetSessionTitle(s, title)

UsageSpec == UsageInit /\ [][UsageNext]_usageVars

-----------------------------------------------------------------------------
\* statistics.  _where:
Cutoff(period) == IF period = "all" THEN 0 ELSE wall - Span
Rows(period, sid) ==
  {i \in DOMAIN events : events[i].at >= Cutoff(period) /\ sid \in {Untitled, events[i].sid}}
\* The rows one may ask for.
Selections == {Rows(period, sid) : period \in {"all", "recent"}, sid \in Sid \cup {Untitled}}

Tokens           == [i \in DOMAIN events |-> events[i].tokens]
TokensOf(rows)   == MapThenSumSet(LAMBDA i : Tokens[i], rows)
TurnsOf(rows)    == Cardinality({events[i].tid : i \in rows})
LastOf(rows)     == Max({events[i].at : i \in rows})
RowsOf(rows, s)  == {i \in rows : events[i].sid = s}
SessionsOf(rows) == {events[i].sid : i \in rows}
ModelRows(rows)  ==
  {[model |-> m, rows |-> {i \in rows : events[i].model = m}] : m \in {events[i].model : i \in rows}}

\* ORDER BY MAX(created_at) DESC
Newest(rows) ==
  LET n == Cardinality(SessionsOf(rows))
  IN  CHOOSE order \in [1..n -> SessionsOf(rows)] :
        \A i, j \in 1..n : i < j => LastOf(RowsOf(rows, order[i])) > LastOf(RowsOf(rows, order[j]))
\* Mutant: the offset counts the page itself.
OffsetLate(page, size) == page * size
Offset(page, size) == (page - 1) * size
\* LIMIT ? OFFSET ?
SessionsOnPage(rows, page, size) ==
  LET last == Offset(page, size) + size
  IN  SubSeq(Newest(rows), Offset(page, size) + 1, IF last < Len(Newest(rows)) THEN last ELSE Len(Newest(rows)))
SessionRow(rows, s) ==
  [session_id |-> s, title |-> TitleOf(sessions, s), calls |-> Cardinality(RowsOf(rows, s)),
   tokens |-> TokensOf(RowsOf(rows, s)), turns |-> TurnsOf(RowsOf(rows, s))]

TotalPages(rows, size) ==
  LET pages == (Cardinality(SessionsOf(rows)) + size - 1) \div size
  IN  IF pages < 1 THEN 1 ELSE pages

Statistics(rows, asked, size) ==
  LET page == IF asked < 1 THEN 1 ELSE asked
      found == SessionsOnPage(rows, page, size)
  IN  [calls |-> Cardinality(rows), tokens |-> TokensOf(rows), turns |-> TurnsOf(rows),
       session_count |-> Cardinality(SessionsOf(rows)),
       models |-> {[model |-> r.model, calls |-> Cardinality(r.rows), tokens |-> TokensOf(r.rows)] : r \in ModelRows(rows)},
       sessions |-> [k \in DOMAIN found |-> SessionRow(rows, found[k])],
       pages |-> TotalPages(rows, size)]

-----------------------------------------------------------------------------
\* The columns of a table of the statistics.
CallsIn(table)  == LET calls == [row \in table |-> row.calls] IN MapThenSumSet(LAMBDA row : calls[row], table)
TokensIn(table) == LET tokens == [row \in table |-> row.tokens] IN MapThenSumSet(LAMBDA row : tokens[row], table)
\* What the monitor shows in several tables agrees: over all pages, the sessions are those
\* that are counted, each once, and their calls and tokens, and those of the models, add up
\* to the totals, for every period, session and page size.
StatisticsAgree ==
  \A rows \in Selections, size \in PageSizes :
    LET first   == Statistics(rows, 1, size)
        page(p) == Statistics(rows, p, size).sessions
        places  == UNION {{p} \X DOMAIN page(p) : p \in 1..first.pages}
        shown   == {page(place[1])[place[2]] : place \in places}
    IN  /\ Cardinality(places) = first.session_count
        /\ Cardinality({row.session_id : row \in shown}) = first.session_count
        /\ first.calls = CallsIn(shown) /\ first.tokens = TokensIn(shown)
        /\ first.calls = CallsIn(first.models) /\ first.tokens = TokensIn(first.models)

\* Whatever is recorded and restarted in between, a session keeps the title it was given
\* last, also one whose rows are older than the table.
TitlesAreKept ==
  \A i \in DOMAIN events : TitleOf(sessions, events[i].sid) = titled[events[i].sid]
=============================================================================
