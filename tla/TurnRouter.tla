------------------------------ MODULE TurnRouter ------------------------------
(***************************************************************************)
(* TurnRouter.choose (local_codex/routing.py): which alias serves a request *)
(* of Codex.  What the input holds decides, and an OrderedDict of the last  *)
(* max_turns turns keeps a turn on its alias.  choose holds the router's    *)
(* lock from its look at the turn to the eviction: one request is one step. *)
(***************************************************************************)
EXTENDS Integers, FiniteSets, SequencesExt

CONSTANTS
  Client,    \* what requests tell of themselves
  Uuid,      \* what uuid4 may return; bounds the requests that tell nothing
  Item,      \* elements of "input"
  MaxItems,  \* bounds "input"
  MaxTurns,  \* max_turns
  Absent     \* a value that was not sent, or an alias nobody has chosen

ASSUME RouterAssumption ==
  /\ \A c \in Client : DOMAIN c = {"session", "header", "cacheKey", "turn", "request"}
  /\ Item \subseteq [from: {"user", "developer", "tool"}, words: SUBSET {"plan", "error"},
                     image: BOOLEAN]
  /\ MaxItems \in Nat /\ MaxTurns \in Nat \ {0}
  /\ Absent \notin {"plan", "build", "vision"}

VARIABLES
  turns,   \* _turns: the keys with their aliases, the least recently used first
  used,    \* the uuids so far
  last,    \* history: the alias that served a turn's last request
  since    \* history: the other turns that have asked since

routerVars == <<turns, used, last, since>>

Aliases == {"plan", "build", "vision"}
\* A string as input counts as one message of the user.
Inputs == UNION {[1..n -> Item] : n \in 1..MaxItems}

FirstOf(values) == Head(SelectSeq(values, LAMBDA value : value # Absent))
SessionOf(c, uuid) == FirstOf(<<c.session, c.header, c.cacheKey, c.request, uuid>>)
TurnOf(c, session) == FirstOf(<<c.turn, c.request, session>>)
KeyOf(c, uuid)     == <<SessionOf(c, uuid), TurnOf(c, SessionOf(c, uuid))>>
Keys               == {KeyOf(c, uuid) : c \in Client, uuid \in Uuid}

RouterTypeOK ==
  /\ turns \in BoundedSeq(Keys \X Aliases, MaxTurns)
  /\ used \subseteq Uuid
  /\ last \in [Keys -> Aliases \cup {Absent}]
  /\ since \in [Keys -> SUBSET Keys]

RouterInit ==
  /\ turns = <<>> /\ used = {}
  /\ last = [k \in Keys |-> Absent]
  /\ since = [k \in Keys |-> {}]

-----------------------------------------------------------------------------
HasImage(input)     == \E i \in DOMAIN input : input[i].image
\* The error may stand anywhere in any tool output.
HasToolError(input) == \E i \in DOMAIN input : input[i].from = "tool" /\ "error" \in input[i].words

UserMessages(input) == {i \in DOMAIN input : input[i].from = "user"}
AllWords(input)     == UNION {input[i].words : i \in DOMAIN input}
\* Mutant: the text of the whole input.
LatestUserWordsOfAll(input) == AllWords(input)
\* latest_user_text: the last message of the user; without one, all of the text.
LatestUserWords(input) ==
  IF UserMessages(input) # {} THEN input[Max(UserMessages(input))].words ELSE AllWords(input)

Decision(existing, input) ==
  IF HasImage(input) THEN "vision"
  ELSE IF HasToolError(input) THEN "plan"
  ELSE IF existing # Absent THEN existing
  ELSE IF "plan" \in LatestUserWords(input) THEN "plan"
  ELSE "build"

\* An OrderedDict has at most one place for a key.
PlacesOf(sequence, key) == {i \in DOMAIN sequence : sequence[i][1] = key}
AliasOf(sequence, key) ==
  IF PlacesOf(sequence, key) = {} THEN Absent ELSE sequence[Max(PlacesOf(sequence, key))][2]
Others(sequence, key) ==
  IF PlacesOf(sequence, key) = {} THEN sequence
  ELSE RemoveAt(sequence, Max(PlacesOf(sequence, key)))
\* Mutant: without move_to_end, a turn keeps its place.
PlacedAsBefore(sequence, key, model) ==
  IF AliasOf(sequence, key) = Absent THEN Append(sequence, <<key, model>>)
  ELSE [i \in DOMAIN sequence |-> IF sequence[i][1] = key THEN <<key, model>> ELSE sequence[i]]
\* The turn moves to the end.
Placed(sequence, key, model) == Append(Others(sequence, key), <<key, model>>)
\* Mutant: one turn more than the limit stays.
EvictedLate(sequence) ==
  IF Len(sequence) > MaxTurns + 1 THEN Tail(sequence) ELSE sequence
\* popitem(last=False)
Evicted(sequence) ==
  IF Len(sequence) > MaxTurns THEN SubSeq(sequence, Len(sequence) - MaxTurns + 1, Len(sequence))
  ELSE sequence

Decisions(key) == {Decision(AliasOf(turns, key), input) : input \in Inputs}

Choose(key, uuid, model) ==
  /\ key[1] = uuid => uuid \notin used
  /\ used' = IF key[1] = uuid THEN used \cup {uuid} ELSE used
  /\ turns' = Evicted(Placed(turns, key, model))
  /\ last' = [last EXCEPT ![key] = model]
  /\ since' = [k \in Keys |-> IF k = key \/ last[k] = Absent THEN {} ELSE since[k] \cup {key}]

RouterNext ==
  \E c \in Client, uuid \in Uuid :
    \E model \in Decisions(KeyOf(c, uuid)) : Choose(KeyOf(c, uuid), uuid, model)

RouterSpec == RouterInit /\ [][RouterNext]_routerVars

-----------------------------------------------------------------------------
\* A turn is remembered with the alias of its last request until max_turns other turns have
\* asked since then, however often these have asked.
TurnIsRemembered ==
  \A k \in Keys :
    last[k] # Absent /\ Cardinality(since[k]) < MaxTurns => AliasOf(turns, k) = last[k]

\* What a client sends after the user has spoken, and the same with an instruction in it.
Instructed ==
  UNION {{<<input, InsertAt(input, i, said)>> :
            i \in 1..Len(input) + 1, said \in {item \in Item : item.from = "developer" /\ ~item.image}} :
           input \in {spoken \in Inputs : UserMessages(spoken) # {}}}
\* The aliases, or none, of a turn whose decisions no instruction changes.
Unmoved ==
  {existing \in Aliases \cup {Absent} :
     \A pair \in Instructed : Decision(existing, pair[2]) = Decision(existing, pair[1])}
\* Once the user has spoken, what the host and its developer instructions say, and where it
\* stands in the input, does not choose the alias, neither of a turn that is remembered nor of
\* a new one.
InstructionsDoNotRoute == \A k \in Keys : AliasOf(turns, k) \in Unmoved
=============================================================================
