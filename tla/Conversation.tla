---------------------------- MODULE Conversation ----------------------------
(***************************************************************************)
(* How conversations are continued (local_codex/state.py, with its callers  *)
(* _prepare_body and _save_response in local_codex/service.py): every       *)
(* answer is stored under its response id with the input that led to it, a *)
(* later request names the id as its predecessor, and the router puts the  *)
(* history together again, because Ollama keeps none.                      *)
(*                                                                         *)
(* One request is one step: the inference lock (module Execution) lets no  *)
(* other request read or write the store between its expand and its put.   *)
(***************************************************************************)
EXTENDS Integers, FiniteSets, SequencesExt, Places

CONSTANTS
  Session,     \* Codex sessions
  Anonymous,   \* those of Codex builds that send no thread metadata
  Message,     \* what a user can say; input items carry no id
  LimitId,     \* the response id "local-web-loop-limit"
  LimitNotice, \* its output, which carries no item id
  NoSession,   \* a session id made up for one request
  TTL,         \* settings.state_ttl_seconds
  MaxRows,     \* settings.state_max_rows
  MaxTime,     \* bound: the last instant
  MaxAnswers,  \* bound: answers of Ollama
  ClockSteps,  \* may the wall clock be set back?
  Limits       \* may a request use up its local web rounds?

ASSUME ConversationAssumption ==
  /\ Anonymous \subseteq Session /\ NoSession \notin Session /\ LimitId \notin Nat
  /\ TTL \in Nat /\ MaxRows \in Nat \ {0} /\ MaxTime \in Nat /\ MaxAnswers \in Nat
  /\ ClockSteps \in BOOLEAN /\ Limits \in BOOLEAN

VARIABLES
  now,     \* time.time()
  issued,  \* ids Ollama has given to responses: 1..issued
  rows,    \* the table responses, by its primary key
  heard    \* heard[s]: for each id session s was told, its conversation up to there

vars == <<now, issued, rows, heard>>

\* An answer of Ollama is an item with an id of its own, named like its response.
Answer == 1..issued
Id     == Answer \cup {LimitId}
Item   == Message \cup Answer \cup {LimitNotice}

TypeOK ==
  /\ now \in 0..MaxTime
  /\ issued \in 0..MaxAnswers
  /\ DOMAIN rows \subseteq Id /\ Cardinality(DOMAIN rows) <= MaxRows
  /\ \A i \in DOMAIN rows :
       /\ rows[i].session \in Session \cup {NoSession}
       /\ rows[i].input \in Seq(Item) /\ rows[i].output \in Seq(Item)
       /\ rows[i].at \in 0..MaxTime
  /\ DOMAIN heard = Session
  /\ \A s \in Session : DOMAIN heard[s] \subseteq Id

Init ==
  /\ now = 0 /\ issued = 0
  /\ rows = <<>>
  /\ heard = [s \in Session |-> <<>>]

-----------------------------------------------------------------------------
Row(session, input, output, at) ==
  [session |-> session, input |-> input, output |-> output, at |-> at]

History(row) == row.input \o row.output

\* Mutant: the last of equal items stays.
DeduplicateLast(items) ==
  PickedAt(items, {i \in DOMAIN items : \A j \in (i + 1)..Len(items) : items[j] # items[i]})
\* _deduplicate: the first of equal items stays.
Deduplicate(items) ==
  PickedAt(items, {i \in DOMAIN items : \A j \in 1..(i - 1) : items[j] # items[i]})

\* Mutant: the newest rows go.
KeptNewestGo(table) ==
  LET live     == {i \in DOMAIN table : table[i].at >= now - TTL}
      older(i) == {j \in live : table[j].at < table[i].at}
  IN  {i \in live : Cardinality(older(i)) < MaxRows}
\* Mutant: OFFSET max_rows + 1.
KeptTooMany(table) ==
  LET live     == {i \in DOMAIN table : table[i].at >= now - TTL}
      newer(i) == {j \in live : table[j].at > table[i].at}
  IN  {i \in live : Cardinality(newer(i)) <= MaxRows}
\* The keys that prune() leaves: first the expired rows go, then the oldest.
Kept(table) ==
  LET live     == {i \in DOMAIN table : table[i].at >= now - TTL}
      newer(i) == {j \in live : table[j].at > table[i].at}
  IN  {i \in live : Cardinality(newer(i)) < MaxRows}

Pruned(table) == [i \in Kept(table) |-> table[i]]

\* INSERT OR REPLACE.
WithRow(table, id, row) ==
  [i \in DOMAIN table \cup {id} |-> IF i = id THEN row ELSE table[i]]

\* Without metadata every request gets a session id of its own.
SessionOf(s) == IF s \in Anonymous THEN NoSession ELSE s

\* Mutant: the session of the row is not compared.
UsableByAll(s, id) ==
  id \in DOMAIN rows /\ rows[id].at >= now - TTL
\* expand finds the predecessor; otherwise the request is refused with 409.
Usable(s, id) ==
  /\ id \in DOMAIN rows /\ rows[id].at >= now - TTL
  /\ rows[id].session = s

\* The model answers `input`, which stands for the conversation `said`: the
\* row is put and the table pruned; the client hears the answer or has left.
Answered(s, input, said) ==
  /\ issued < MaxAnswers /\ \A i \in DOMAIN rows : rows[i].at # now
  /\ \E id \in {issued + 1} \cup (IF Limits THEN {LimitId} ELSE {}) :
       LET output == IF id = LimitId THEN <<LimitNotice>> ELSE <<id>>
       IN  /\ issued' = IF id = LimitId THEN issued ELSE id
           /\ rows' = Pruned(WithRow(rows, id, Row(SessionOf(s), input, output, now)))
           /\ \/ heard' = [heard EXCEPT ![s] = WithRow(@, id, said \o output)]
              \/ UNCHANGED heard
  /\ UNCHANGED now

\* A request without predecessor brings its whole context along: a new
\* conversation, or an old one after a refusal.
StartsAnew(s) ==
  \E old \in {<<>>} \cup {heard[s][id] : id \in DOMAIN heard[s]}, message \in Message :
    Answered(s, Append(old, message), Append(old, message))

\* A request names any answer the session was given, the last or an earlier
\* one; its input may repeat the end of the conversation before the message.
Continues(s) ==
  \E id \in DOMAIN heard[s], message \in Message :
    LET said == heard[s][id]
    IN  \E from \in {1, Len(said), Len(said) + 1} :
          /\ Usable(s, id)
          /\ Answered(s, Deduplicate(History(rows[id]) \o SubSeq(said, from, Len(said))
                                       \o <<message>>),
                      Append(said, message))

\* The router starts again: the table is as on disk, and pruned.
Restarts ==
  /\ rows' = Pruned(rows)
  /\ UNCHANGED <<now, issued, heard>>

Tick ==
  /\ now < MaxTime /\ now' = now + 1
  /\ UNCHANGED <<issued, rows, heard>>

ClockIsSetBack ==
  /\ ClockSteps /\ now > 0 /\ now' = now - 1
  /\ UNCHANGED <<issued, rows, heard>>

Next ==
  \/ \E s \in Session : StartsAnew(s) \/ Continues(s)
  \/ Restarts \/ Tick \/ ClockIsSetBack

Spec == Init /\ [][Next]_vars

-----------------------------------------------------------------------------
(* Properties.                                                             *)

\* An item is said, and the other one not before it.
SaidBefore(items, item, other) ==
  \E i \in DOMAIN items : items[i] = item /\ \A j \in 1..i : items[j] # other
\* The same is said, for the first time in the same order.
SameConversation(items, others) ==
  /\ ToSet(items) = ToSet(others)
  /\ \A item, other \in ToSet(items) :
       SaidBefore(items, item, other) <=> SaidBefore(others, item, other)

\* The history stored for an answer is the conversation the session had when
\* it was given that answer: nothing of another session, another branch or
\* another order, whatever was refused, rewound, pruned or started again in
\* between; only repetitions may be missing.
HistoryKept ==
  \A s \in Session \ Anonymous : \A id \in DOMAIN heard[s] :
    id \in DOMAIN rows => SameConversation(History(rows[id]), heard[s][id])

\* A predecessor that a session may use is an answer it was given itself, or
\* one nobody heard of; no row of an anonymous client is usable by anybody.
SessionsAreIsolated ==
  \A s \in Session, id \in DOMAIN rows :
    Usable(s, id) =>
      /\ s \notin Anonymous
      /\ \A other \in Session \ {s} : id \notin DOMAIN heard[other]

\* A row disappears only when it is expired or max_rows rows are newer: no
\* row is lost to one that is older, whatever the clock does.
PruneTakesOldest ==
  [][\A id \in DOMAIN rows \ DOMAIN rows' :
       \/ rows[id].at < now - TTL
       \/ \A kept \in DOMAIN rows' : rows'[kept].at > rows[id].at]_vars

\* The answer just given can be continued, unless the clock was set back
\* behind rows that fill the table.
AnswerCanBeContinued ==
  [][(issued' # issued /\ \A id \in DOMAIN rows : rows[id].at < now)
       => issued' \in DOMAIN rows']_vars

-----------------------------------------------------------------------------
(* What the documentation says, and the code does not keep.                *)

\* README.local-codex.md:169: previous_response_id is mapped on a local
\* history: a message the user repeats is part of it.
NothingSaidIsForgotten ==
  \A s \in Session \ Anonymous : \A id \in DOMAIN heard[s] :
    id \in DOMAIN rows => History(rows[id]) = heard[s][id]

\* docs/compatibility.md:25: a continuation needs a predecessor of the same
\* session; an id that a session was given is never the row of another one.
AnswersStayWithTheirSession ==
  \A s \in Session \ Anonymous, id \in DOMAIN rows :
    id \in DOMAIN heard[s] => rows[id].session = s
=============================================================================
