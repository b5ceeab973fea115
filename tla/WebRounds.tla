------------------------------ MODULE WebRounds ------------------------------
(***************************************************************************)
(* One request on its way through the model: the tools that are offered     *)
(* (_prepare_body of service.py), the rounds in which the router answers    *)
(* web calls itself (_run_ollama_with_web_tools), and what the adapter      *)
(* makes of the names and arguments the model writes (protocol.py).         *)
(***************************************************************************)
EXTENDS Integers, FiniteSets, SequencesExt, Places

CONSTANTS
  Word,      \* names of tools and keys of arguments: strings
  ToolList,  \* "tools" as Codex may send them
  Called,    \* names models give to calls
  Arguments, \* what they send as arguments
  MaxOutput, \* bounds the length of a response
  MaxRounds, \* 4
  Unsupported, \* no tool
  Raises     \* no arguments: their treatment raises TypeError or AttributeError

\* Arguments are the JSON value they are the text of, "text" that is no JSON, or "none" when
\* the call has none; a value that is neither text nor an object counts as an empty object.
\* keys: of the words the adapter looks for, those that are keys of the object, elements of
\* the list, or parts of the string.
Shape    == {"object", "list", "string", "number", "text", "none"}
Argument == [shape: Shape, keys: SUBSET Word]

\* prefix: "namespace" is "functions." or "tools.", "workspace" is "mcp__workspace__",
\* "server" any other MCP server.  Names that differ only in case count as one.
Name == [prefix: {"", "namespace", "workspace", "server"}, base: Word]

ASSUME RoundsAssumption ==
  /\ {"exec_command", "web_search", "fetch_page"} \subseteq Word
  /\ {"command", "cmd", "workdir", "path", "query", "url"} \subseteq Word
  /\ \A tools \in ToolList : \A i \in DOMAIN tools :
       tools[i].function \in BOOLEAN /\ tools[i].name \in Name
  /\ Called \subseteq Name
  /\ Arguments \subseteq Argument
  /\ MaxOutput \in Nat /\ MaxRounds \in Nat \ {0}
  /\ Unsupported \notin Name

VARIABLES
  tools,    \* as sent by Codex
  stage,    \* "prepare", "infer", "search", "done"
  rounds,   \* inferences so far
  fed,      \* the "input" of the next inference
  response, \* the normalized output of the last one
  pending,  \* its local web calls that have no output yet
  delivered \* what Codex gets

roundVars == <<tools, stage, rounds, fed, response, pending, delivered>>

Plain(base) == [prefix |-> "", base |-> base]
Exec     == Plain("exec_command")
LocalWeb == {Plain("web_search"), Plain("fetch_page")}
SentNames == {tools[i].name : i \in DOMAIN tools}
\* offered_function_names(prepared["tools"]) | LOCAL_WEB_NAMES
Offered  == SentNames \cup LocalWeb

Nothing(status) == [status |-> status, output |-> <<>>]

\* What the requests and responses are made of: a call has the number of the inference that
\* made it and its place in the response, and an output those of its call.
Data    == Argument \cup {Raises}
Id      == (1..MaxRounds) \X (1..MaxOutput)
Message == [kind: {"message", "reasoning"}]
Call    == [kind: {"call"}, id: Id, name: Name \cup {Unsupported}, arguments: Data]
Output  == [kind: {"output"}, id: Id]
Items   == Message \cup Call \cup Output

CallsIn(items)   == {i \in DOMAIN items : items[i].kind = "call"}
RoundsTypeOK ==
  /\ tools \in ToolList
  /\ stage \in {"prepare", "infer", "search", "done"}
  /\ rounds \in 0..MaxRounds
  /\ fed \in Seq(Items) /\ response \in Seq(Items) /\ pending \in Seq(Call)
  /\ delivered \in [status: {"none", "completed", "limit", "refused", "invalid", "raised", "failed"},
                    output: Seq(Items)]

RoundsInit ==
  /\ tools \in ToolList
  /\ stage = "prepare" /\ rounds = 0
  /\ fed \in {<<[kind |-> "message"]>>, <<[kind |-> "message"], [kind |-> "reasoning"]>>}
  /\ response = <<>> /\ pending = <<>>
  /\ delivered = Nothing("none")

-----------------------------------------------------------------------------
\* canonical_tool_name
ShellAliases ==
  {Plain(b) : b \in {"bash", "shell", "terminal", "run_command"}}
    \cup {[prefix |-> "workspace", base |-> b] : b \in {"bash", "shell"}}
Edits    == {Plain(b) : b \in {"apply_patch", "applypatch", "edit", "write"}}
Searches == {"web_search", "search_web", "internet_search", "browser_search", "search"}
Fetches  == {"fetch_page", "open_url", "read_url", "fetch_url", "browse_url"}

Stripped(name) == IF name.prefix \in {"namespace", "workspace"} THEN Plain(name.base) ELSE name
AliasBases(canonical) == IF canonical = "web_search" THEN Searches ELSE Fetches
IsAliasOf(name, canonical) ==
  \E n \in {name, Stripped(name)} : n.prefix = "" /\ n.base \in AliasBases(canonical)

\* The candidate named so, or so after "__", that sorts first: "mcp__" comes after
\* "fetch_page" and before "web_search".
SortsAt(name) ==
  IF name.prefix = "server" THEN 1
  ELSE IF name.prefix = "workspace" THEN 2
  ELSE IF name.base = "fetch_page" THEN 0 ELSE 3
Provider(canonical, offered) ==
  LET matches == {c \in offered : c.base = canonical /\ c.prefix # "namespace"}
  IN  CHOOSE c \in matches : \A d \in matches : SortsAt(c) <= SortsAt(d)

Canonical(name, offered) ==
  IF name \in offered THEN name
  ELSE IF name \in ShellAliases /\ Exec \in offered THEN Exec
  ELSE IF Stripped(name) \in offered THEN Stripped(name)
  ELSE IF IsAliasOf(name, "web_search") THEN Provider("web_search", offered)
  ELSE IF IsAliasOf(name, "fetch_page") THEN Provider("fetch_page", offered)
  ELSE IF name \in Edits /\ Exec \in offered THEN Exec
  ELSE Unsupported

-----------------------------------------------------------------------------
\* canonical_arguments.  Text that is not JSON becomes a command.
Parsed(a) == IF a.shape = "text" THEN [shape |-> "object", keys |-> {"command"}] ELSE a
\* The first alias that is there takes the name of the key that is not.
Renamed(keys, key, aliases) ==
  LET found == SelectSeq(aliases, LAMBDA alias : alias \in keys)
  IN  IF key \in keys \/ found = <<>> THEN keys ELSE (keys \ {Head(found)}) \cup {key}
\* data[key] = data.pop(alias): "in" is defined for lists and strings, too, but only an
\* object has its keys renamed.
Rename(data, key, aliases) ==
  IF data.shape = "number" THEN Raises
  ELSE IF Renamed(data.keys, key, aliases) = data.keys THEN data
  ELSE IF data.shape = "object" THEN [data EXCEPT !.keys = Renamed(@, key, aliases)]
  ELSE Raises

\* A command that prints what was wrong and exits with 2.
Refusal == [shape |-> "object", keys |-> {"cmd"}]
\* What has "cmd" in it is left as it is, a list or a string as well.
ExecArguments(name, data) ==
  LET one == Rename(data, "cmd", <<"command">>)
      two == IF one = Raises THEN Raises ELSE Rename(one, "workdir", <<"cwd">>)
  IN  IF name \in Edits THEN IF data.shape = "object" THEN Refusal ELSE Raises
      ELSE IF two = Raises \/ "cmd" \in two.keys THEN two
      ELSE Refusal

CanonicalArguments(name, target, a) ==
  LET data == Parsed(a)
  IN  IF target = Exec THEN ExecArguments(name, data)
      ELSE IF target.prefix = "namespace" THEN data
      ELSE IF target = Plain("view_image") THEN Rename(data, "path", <<"file_path">>)
      ELSE IF target.base = "web_search" THEN Rename(data, "query", <<"q", "search_query", "term">>)
      ELSE IF target.base = "fetch_page" THEN Rename(data, "url", <<"uri", "link", "page_url">>)
      ELSE data

-----------------------------------------------------------------------------
\* normalize_function_call and normalize_response: no arguments stay none.
Normalized(item, offered) ==
  IF item.kind # "call" THEN item
  ELSE LET target == Canonical(item.name, offered)
       IN  [item EXCEPT !.name = target,
                        !.arguments =
                          IF target = Unsupported THEN Raises
                          ELSE IF item.arguments.shape = "none" THEN item.arguments
                          ELSE CanonicalArguments(item.name, target, item.arguments)]
WithoutReasoning(items) == PickedAt(items, {i \in DOMAIN items : items[i].kind # "reasoning"})
NormalizedOutput(raw, offered) ==
  LET items == WithoutReasoning(raw)
  IN  [i \in DOMAIN items |-> Normalized(items[i], offered)]

WebCallsIn(items) == {i \in CallsIn(items) : items[i].name \in LocalWeb}
\* Mutant: the names are compared before they are normalized.
LocalCallsOfRaw(raw, items) ==
  LET seen == WithoutReasoning(raw) IN PickedAt(seen, WebCallsIn(seen))
\* Mutant: every call is taken for a web call.
LocalCallsAny(raw, items) == PickedAt(items, CallsIn(items))
\* The calls the router answers itself.
LocalCalls(raw, items) == PickedAt(items, WebCallsIn(items))

ItemsAt(i) ==
  {[kind |-> k] : k \in {"message", "reasoning"}}
    \cup {[kind |-> "call", id |-> <<rounds + 1, i>>, name |-> n, arguments |-> a] :
            n \in Called, a \in Arguments}
\* What a model may answer in this round.
Outputs ==
  UNION {{raw \in [1..n -> UNION {ItemsAt(i) : i \in 1..n}] : \A i \in 1..n : raw[i] \in ItemsAt(i)} :
           n \in 1..MaxOutput}

Done(result) == stage' = "done" /\ delivered' = result
\* normalize_tools and filter_input
ToolsRefused ==
  \/ \E i \in DOMAIN tools : ~tools[i].function
  \/ \E i, j \in DOMAIN tools : i # j /\ tools[i].name = tools[j].name
Prepare ==
  /\ stage = "prepare"
  /\ \/ /\ ToolsRefused /\ Done(Nothing("refused"))
        /\ UNCHANGED fed
     \/ /\ ~ToolsRefused /\ stage' = "infer"
        /\ fed' = WithoutReasoning(fed)
        /\ UNCHANGED delivered
  /\ UNCHANGED <<tools, rounds, response, pending>>

\* A complete response, in the stream or as JSON.
Responds(raw) ==
  LET items == NormalizedOutput(raw, Offered)
      calls == LocalCalls(raw, items)
      bad   == {i \in CallsIn(items) : items[i].arguments = Raises}
  IN  /\ response' = items /\ pending' = calls
      /\ IF bad # {}
           THEN Done(Nothing(IF items[Min(bad)].name = Unsupported THEN "invalid" ELSE "raised"))
         ELSE IF calls = <<>> THEN Done([status |-> "completed", output |-> items])
         ELSE stage' = "search" /\ UNCHANGED delivered
Infer ==
  /\ stage = "infer" /\ rounds < MaxRounds
  /\ rounds' = rounds + 1
  /\ \E raw \in Outputs : Responds(raw)
  /\ UNCHANGED <<tools, fed>>

\* Ollama cannot be reached, refuses, or sends neither a completed stream nor JSON.
InferenceFails ==
  /\ stage = "infer" /\ rounds < MaxRounds
  /\ \E status \in {"failed", "invalid"} : Done(Nothing(status))
  /\ UNCHANGED <<tools, rounds, fed, response, pending>>

\* The fixed answer of the limit.
GiveUp ==
  /\ stage = "infer" /\ rounds = MaxRounds
  /\ Done([status |-> "limit", output |-> <<[kind |-> "message"]>>])
  /\ UNCHANGED <<tools, rounds, fed, response, pending>>

OutputFor(call) == [kind |-> "output", id |-> call.id]
\* Mutant: the output of the last call only.
FeedLast(items, outputs) == items \o <<outputs[Len(outputs)]>>
\* What the next round gets besides its input.
Feed(items, outputs) == items \o outputs

\* _execute_web_call, a call after the other; whatever goes wrong with the arguments or the
\* page is an output, too.
WebCall ==
  /\ stage = "search" /\ pending # <<>>
  /\ pending' = Tail(pending)
  /\ IF Len(pending) > 1 THEN UNCHANGED <<stage, fed>>
     ELSE LET calls   == LocalCalls(response, response)
              outputs == [i \in DOMAIN calls |-> OutputFor(calls[i])]
          IN  /\ fed' = fed \o Feed(response, outputs)
              /\ stage' = "infer"
  /\ UNCHANGED <<tools, rounds, response, delivered>>
\* An exception _execute_web_call does not name, such as one of SQLite.
WebCallRaises ==
  /\ stage = "search"
  /\ Done(Nothing("raised"))
  /\ UNCHANGED <<tools, rounds, fed, response, pending>>

RoundsNext == Prepare \/ Infer \/ InferenceFails \/ GiveUp \/ WebCall \/ WebCallRaises

RoundsSpec == RoundsInit /\ [][RoundsNext]_roundVars

-----------------------------------------------------------------------------
\* A call that reaches Codex names a tool Codex has offered, and never a web tool of the
\* router, however the model named it.  A shell call with an object for its arguments has a
\* command; without one come only those that the model gave no arguments at all, or a list
\* or a string with "cmd" in it.
DeliveredCallsAreUsable ==
  \A i \in CallsIn(delivered.output) :
    LET call == delivered.output[i]
    IN  /\ call.name \in SentNames \ LocalWeb
        /\ call.name = Exec =>
             /\ call.arguments.shape \in {"object", "list", "string", "none"}
             /\ call.arguments.shape # "none" => "cmd" \in call.arguments.keys

\* What a round is fed: no reasoning, and every web call of the rounds before with exactly
\* one output behind it, and no other outputs.
WebCallsAreAnswered ==
  stage = "infer" =>
    LET answers(i) == {j \in DOMAIN fed : fed[j].kind = "output" /\ fed[j].id = fed[i].id}
        webCalls   == WebCallsIn(fed)
    IN  /\ \A i \in DOMAIN fed : fed[i].kind # "reasoning"
        /\ \A i \in webCalls : \E j \in answers(i) : answers(i) = {j} /\ j > i
        /\ {j \in DOMAIN fed : fed[j].kind = "output"} = UNION {answers(i) : i \in webCalls}

\* A call for Codex goes into a further round, where nobody answers it, only if the model
\* made a web call in the same response.
OnlyMixedCallsAreLost ==
  \A i \in CallsIn(fed) :
    fed[i].name \notin LocalWeb =>
      \E j \in CallsIn(fed) : fed[j].name \in LocalWeb /\ fed[j].id[1] = fed[i].id[1]
=============================================================================
