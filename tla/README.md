# LocalCodex in TLA+

LocalCodex runs the Codex client on local models. A launcher (`start_codex.py`) starts a
small HTTP router (`local_codex/`) in front of Ollama, keeps it alive with heartbeats, and
starts Codex; the router queues requests, chooses and switches the model, runs local web
tools, keeps conversation histories, usage and a live dashboard; a native tray program
(`monitor/`) shows that dashboard. These modules model the parts of it whose behaviour
depends on the order of steps, check them with TLC on small instances, and prove the most
important properties with TLAPS for every value of the constants.

Contents: [inventory](#1-inventory), [plan](#2-plan), [modules](#3-modules),
[runs](#4-runs-and-bounds), [fairness](#5-fairness), [proofs](#6-proofs),
[findings](#7-where-documentation-and-code-differ), [limits](#8-what-is-not-modelled).

## 1. Inventory

| Component | State | Operations | Interacts with | What is hard |
|---|---|---|---|---|
| Inference path: `service.py` execute, _execute | `pending_requests`, the FIFO `inference_lock`, the await of each task | admit, refuse, wait, run up to 4 web rounds, finalise, fail, time out, disconnect | runtime, telemetry, usage, response store, Ollama, web search | cancellation at any await, six exits that all have to give back the admission and the lock, three writes without a transaction |
| Model switch and unload: `runtime.py` | `current_model`; in Ollama: loaded aliases | switch_model, unload_local_models (3 attempts) | the same lock; lifecycle tasks | Ollama fails, the unloading task is cancelled by a new lease |
| Lease registry: `monitor.py` | leases with `updated_at`, `_ever_had_lease`, `_empty_since` | register, heartbeat, release, snapshot (which reaps) | app routes, monitor loop, shutdown task | every method reaps; instants on the wall clock |
| Router lifecycle: `runtime.py`, `app.py` | monitor loop, `shutdown_task`, `_shutdown_requested`, SIGTERM | idle detection, shutdown_if_idle, stop | leases, lock, uvicorn | decisions on a snapshot taken before an await; leases that arrive during the unload |
| Launcher: `start_codex.py` | handle of the router it spawned, its lease, heartbeat thread | start_router, register, beat, release, terminate; doctor and self-test | router over HTTP and by signal, the port | two launchers start at once, lost answers, killed launchers |
| Response state store: `state.py` | table `responses` | expand, put, prune | service | ids outlive rows, identity by content, limit and TTL, wall clock |
| Telemetry hub and SSE parser: `telemetry.py` | active turn, phase, counters, revision | start, phase, deltas, complete, fail, snapshot | service, monitor stream | who may write which turn; chunk boundaries |
| Turn router: `routing.py` | LRU of 256 (session, turn) to alias | choose | service | stickiness against priority, eviction inside a turn |
| Usage store: `usage.py` | usage rows, session titles | record, set_session_title, statistics | service, monitor | one row per request, retention |
| Schema adoption: `database.py` | `user_version`, backup file | open_database | both stores | crash between backup and version mark, two processes |
| HTTP routes and monitor stream: `app.py` | revision last sent per stream | routes, /monitor/events | telemetry, leases, tray program | lease changes do not bump the revision; open streams hold a stop |
| Response protocol: `protocol.py` | none (pure) | normalize_input, normalize_response, transform_sse, filter_input | service | what a response means in the three shapes Ollama may send |
| Ollama transport: `ollama.py`, `ports.py`, `model_validation.py` | HTTP client | exchange, show, ps, unload | runtime, service | outcomes |
| Local web search: `local_search/` | cache table, last request per host | get, put, search, fetch, pacing | router and MCP server, one file | two processes on one cache |
| Setup and benchmarks: `setup.py`, `config.py`, `settings.py`, `commands.py` | aliases in Ollama, profile files, runtime config | install, refresh, benchmark, remove | Ollama, Codex profiles | partial failure, check then act |
| Releases and installers: `releases.py`, `install.sh`, `install.ps1` | version directories, links `current` and `previous`, update state | install, update, rollback, uninstall | file system, network | interruption between steps |
| Native monitor: `monitor/src/` | snapshot, statistics, session graph, selections | event thread, statistics thread, window loop | /monitor routes | two threads and the window share the state; when to quit |
| System metrics, diagnostics, paths, texts, packaging | none that others rely on | | | |

What makes each of them correct, and which hazards of the code each property is aimed at, is
listed line by line under `hazards` in `PROJECT.json`. In short:

- Inference path: one inference at a time, bounded and first come first served; no exit
  loses the lock or the admission; the dashboard, the usage and the stored response agree
  with the answer; every wait ends.
- Model switch: all rounds of a request run on the alias it was routed to; one alias in
  memory.
- Leases and lifecycle: whoever sends heartbeats keeps its lease and its router; the grace
  period counts exactly while nobody is left; an abandoned router ends once no monitor
  stream holds it.
- Response store: a continuation continues this conversation, of this session, and the table
  stays in its limits losing the oldest first.
- Turn router and web rounds: a turn keeps its alias while it is among the last; what Codex
  gets names a tool it has, with a command for the shell but in the cases of section 7, and
  every web call is answered exactly once.
- Stream and dashboard: chunks do not matter, tokens are shown once, and no change of the
  turn is kept from an open stream.
- Usage, database, cache: tables agree and titles stay; a database is never marked without
  its copy; a process loses no fresh row of its own but for room.
- Setup and releases: between two commands, aliases, Codex configuration and runtime.json
  agree unless a failed or killed command left its trace; the release in use is a whole one.
- Not modelled so far: the tray window quits only after the last launcher.

## 2. Plan

Modules in the order of their importance; a composed module names its parts.

| | Module | Subject | Composes | Status |
|---|---|---|---|---|
| A | `SlotService`, `Execution`, `ExecutionProofs` | inference path, model switch, unload | `Execution` implements `SlotService` | written, proved |
| B | `LeaseRegistry`, `Lifecycle`, `LifecycleProofs` | leases, launchers, router processes | `Lifecycle` extends `LeaseRegistry` | written, proved |
| C | `Conversation`, `ConversationProofs` | response state store | | written, proved |
| D | `Dashboard`, `EventStream` | telemetry hub, /monitor/events; the parser of the stream | | written, proved |
| E | `TurnRouter` | choose, its LRU | | written, proved |
| F | `SchemaAdoption`, `SchemaAdoptionProofs` | open_database with crashes and several processes | | written, proved |
| G | `WebRounds`, with D and E in `RequestsProofs` | tools, rounds and calls of one request | | written, proved |
| H | `WebCache` | cache of two processes | | written, proved |
| I | `UsageStore`, with H in `StoresProofs` | usage rows, titles, statistics | | written, proved |
| J | `Setup`, `Releases`, `InstallationProofs` | setup, refresh, benchmark; installer, update, rollback | | written, proved |
| K | composition of `Execution` with `Lifecycle` | the stop against a request without lease; two routers on one Ollama | A, B | left |
| L | `TurnRouter` in place of the constant `Route` of `Execution` | an alias that changes between two requests of a turn | A, E | left |
| M | `MonitorClient` | the two threads and the window of the tray program | `Dashboard` | left |

Abstract specifications worth stating: `SlotService` (done); a *session store* that maps an
answer to the conversation it ended, which `Conversation` implements while rows live; a
*shared resource with owners*, which `Lifecycle` implements (it exists while it has an owner
and ends afterwards); an *atomic migration* for `SchemaAdoption`, which is before or after
its mark and never between.

Theorems left: every safety property of a run is proved of its module; what is left is what
modules K to M would have to say, and the proof that `Conversation`, `Lifecycle` and
`SchemaAdoption` implement the abstract specifications named above.

## 3. Modules

`PROJECT.json` maps every definition to the lines it stands for. The conventions are the
same throughout: one action is what the program does between two points where another
thread, coroutine or process can run; names are the source's names; data is reduced to what
a property distinguishes. Operators that begin with the comment "Mutant:" are the plausible
bugs against which the properties are tested; the specifications do not use them.

### Execution (service.py, runtime.py)

One action is one run of the event loop between two awaits. `pc[r]` names the await at which
the task of request r is suspended: `waiting` (the lock), `showing` (/api/show in
switch_model), `unloading` (keep_alive 0 for the previous alias), `inferring` (the exchange
with Ollama), `searching` (a web search in a thread). `pending` is
`runtime.pending_requests`; `holder` and `ahead` are the lock: asyncio.Lock is FIFO, and
`ahead[a]` is the set of waiters in front of a, which is all that a queue of distinct
waiters is. `telemetry` keeps of the hub's state whether a turn is active, whose it is and
its phase. `usage` counts the rows `UsageStore.record` wrote, `stored` the responses put in
the store. `unload` is the state of the coroutine `unload_local_models`, run by start, by
shutdown_if_idle and by stop.

The exits of `execute()` are separate actions, because they differ in what they leave:
`Reject` (429, before the admission), `RefuseInSlot`, `TransportFails`, `ModelInvalid` (502,
or 400 when the round raises TypeError or ValueError), `Crashes` (an exception no handler
names), `Complete`, `FinalizationCrashes` (SQLite fails between the three writes: no handler,
500), `FinalizationInvalid` (the finalization raises TypeError or ValueError, as for a title
whose content is null: 400, also when the row is written) and `Interrupt` (the deadline or a
client that closed its connection, at any await). `answer` tells them apart by what each says
of the books: `ok`, `tooMany`, `failed` (409, 502, 504), `invalid` (400), `internal` (500).
Ollama is outside: it loads an alias when asked, drops one when keep_alive ends (`Expire`),
and, if `OllamaFaults`, fails the calls that unload. `Route` is the choice of the turn router.

`SlotService` is what clients rely on: one active request, at most `Capacity` inside, one
answer each, turned away only when full. `Execution` implements it with Capacity =
MaxPending + 1 (`ImplementsPromise`).

### LeaseRegistry and Lifecycle (monitor.py, app.py, runtime.py, start_codex.py)

`LeaseRegistry` gives each method of the class as a function from a registry to the next.
Instants are kept as ages in ticks of the heartbeat, cut off just above the limits with
which the code compares them.

`Lifecycle` has any number of launchers; `Kind` says which are Codex sessions, doctors or
self-tests, because they treat the lease and the router differently. A router process is named
after the launcher that spawned it, which makes it possible that several exist; only those in
`Answering` have the port. `process` follows a router from `starting` (or `doomed`: SIGTERM
before it serves) over `serving`, `exiting` (the signal is sent, the port still open), `held`
(the port is closed, and uvicorn waits for an open stream of /monitor/events, for which it has
no time limit) and `draining` (what else is in flight finishes) to `dead`. `StreamCloses` is
the tray program that hangs up; nothing makes it do so. `looked[p]` is the monitor loop
between the snapshot and Ollama's answer with a verdict that may be stale; `task[p]` is
shutdown_if_idle: `sleeping` 0.2 s, `queued` for the lock, `unloading`, `cancelled`. A
launcher believes in the lease of `home[l]` once it was acknowledged; `proxy[l]` is its handle
of the process. `Faults` selects what may go wrong: requests that time out or whose answer is
lost (`http`), a slow or failing Ollama (`ollama`), a machine that sleeps (`suspend`), a
preflight the user does not accept (`decline`). A launcher may be killed at any point
(`Crashes`). The inference path appears only as the possibility that the unload is refused.

### Conversation (state.py, callers in service.py)

`rows` is the table with its primary key; `issued` the ids Ollama has given; `heard[s]` is
what a session knows: for each id it was told, the conversation up to there. `StartsAnew` is
a request without predecessor, `Continues` one that names any id the session was told; a
request without a usable predecessor is refused (409) and changes nothing. Each accepted
request is one step from expand to put: the inference lock, for which `Execution` proves
exclusion, lets no other request in between. The answer may be lost on its way to the client
(`UNCHANGED heard`). `Kept` is what prune() leaves: rows that are not expired, and of them
the newest MaxRows. `PickedAt` of `Places` is a loop that keeps some items of a list (also in
`WebRounds` and `Setup`). Two rows are never put at the same instant (time.time() has microseconds
and an inference lies between). A client without metadata gets a session id of its own for
every request.

### WebRounds (service.py, protocol.py)

One request between its admission and its answer, seen from what it says. `tools` is what
Codex sent, `fed` the input of the next inference, `response` the normalized output of the
last one, `pending` the web calls that have no output yet, `delivered` what Codex gets.
`Prepare` is normalize_tools and filter_input, `Responds` normalize_response, the search for
local web calls among the normalized ones and the branch of `_run_ollama_with_web_tools`;
`WebCall` answers one call, and the last of them puts the response and its outputs behind
`fed`. A name is a prefix and a base, because canonical_tool_name works on prefixes; an
argument is the shape of the JSON value (or text that is no JSON, or no arguments at all) and
the words canonical_arguments looks for that are in it: as keys of an object, as elements of a
list, as parts of a string. Python's `in` takes all three for an answer, and only an object can
have a key renamed; `Rename` and `ExecArguments` follow that shape by shape. `Word` is the set
of strings that bases and words are taken from. The value `Raises` stands for arguments whose
treatment raises: TypeError, which execute() answers 400, or AttributeError, which nobody
handles.

### TurnRouter (routing.py)

`turns` is the OrderedDict, the least recently used first. A client is what its request
tells of session and turn; `KeyOf` is the chain of fallbacks that ends in uuid4. An item of
the input is who speaks, which of the two classes of words a regular expression finds in it,
and whether it holds an image. `last` and `since` are history: what a turn was given, and
who has asked since.

### EventStream and Dashboard (telemetry.py, app.py)

`EventStream` is `TelemetrySSEParser` on a stream `sent`, of which `coming` has not arrived; a
chunk may end between any two characters that matter (line ends are characters, a line is
one). `Dashboard` is the hub with its numbers: `hub` is `_state`, `recorded` the usage store,
`work` the request in the slot, shown or not (a title request is not), `unsent` the comparison
of revision and last_revision in /monitor/events. `Finish` is usage.record, complete and the
two updates, between which the event loop does not run; `Breaks` is an exception in their
midst, which execute() may name (then it marks the turn as failed) or not. `Execution` has the
same calls with their order against the lock; `Dashboard` has the tokens and the revision.

### UsageStore, SchemaAdoption, WebCache (usage.py, database.py, local_search/)

`UsageStore` has the two tables and statistics as functions of them, query by query: where
clause, totals, models, sessions page by page, for a page size that the caller chooses
(`PageSizes`), of all events or the recent ones, of everybody or of one session
(`Selections`). `SchemaAdoption` takes one statement of open_database at a time, for any
number of processes; `read[p]` is the version a process has read and still acts on, `backup`
the file, as a set with at most one element: the tables in it (the empty set of tables is the
file that connect creates). `harmed` is history. `Stop` is a crash, an error of SQLite or the
regular end. `WebCache` has the threads of two processes, the router and the MCP server: a
lock in each, one file for both. get is a SELECT and then a DELETE or an UPDATE, put is one
transaction with the eviction in batches; `calls[c].now` is the instant taken before the lock.

### Setup and Releases (setup.py, start_codex.py, releases.py, install.sh)

`Setup` runs one command at a time: `command` holds what it has read (`known`, `profile`)
and its next step, and the rest is what it changes without a transaction: the aliases one by
one, the model catalog, config.toml, runtime.json. Each step may fail, the process may be
killed, the rollback of a benchmark may itself fail, and a write may be cut off in the middle
(`FilesSurvive`): the catalog and config.toml are then `Half`, a half-written runtime.json
reads as none. `ollama rm` runs without a check, so `Cleanup` may leave any of the benchmark's
aliases in a command that goes on and succeeds. `harm` is what failures may have left in
disorder: `aliases` and `config` until the next command that writes runtime.json, `scratch`
(aliases of a benchmark) until a later benchmark has removed the last of them. A
launcher decides by runtime.json and localcodex.toml which command to run (`LaunchInstalls`,
`LaunchRefreshes`). `Releases` has the directories with the release whose files and whose
packages they hold, the two links, and the install.sh in progress. An update on Linux runs
the script of the release in use, which takes its own directory for the release
(`PerformUpdate`). Two installers at once are not modelled.

### Modules for TLC

`MCRequests`, `MCStores` and `MCInstallation` hold several components that share no
variable. Their variable `part` says which one runs; the others rest in an initial state.
This keeps them modules of their own, and one run can check them beside each other.

## 4. Runs and bounds

| Run | Instance | Question | States |
|---|---|---|---|
| `execution` | two chat requests and a title request, two aliases, one place in the queue, two rounds, two unload attempts, Ollama fails | every safety property, the FIFO order, the refinement of `SlotService`, and that every wait ends | 556 000 |
| `execution_no_faults` | the same, calls that unload do not fail | one alias in memory: `OneModelResident` depends on Ollama alone | 131 000 |
| `lifecycle` | two Codex windows, all faults but sleep, limits of two ticks | registry, heartbeats, the router spares sessions | 1 549 000 |
| `lifecycle_live` | a doctor and a self-test, limits of one tick, the machine sleeps | an abandoned router ends, unless a stream is held open for ever | 252 000 |
| `conversation` | two sessions and an anonymous client, two messages, three answers, a table for two rows, TTL 2 of 3 instants, the clock may be set back | histories, isolation, the limits of the table | 256 000 |
| `requests` | two aliases; two remembered turns of four clients; two web rounds of up to two items, six names and six kinds of arguments; streams of three events; two sessions | stickiness and priority of the router, calls and web rounds, chunk boundaries, the totals and revisions of the dashboard | 872 000 |
| `stores` | two sessions, turns and models, three instants, pages of one and two; three processes on one database; two threads of the router and the MCP server, a cache for rows of one or two units in two | statistics and titles, adoption of a database, the shared cache | 681 000 |
| `installation` | two roles with two contexts, every failure and kill; three releases on Linux | order of setup between two commands, the release in use | 5 670 000 |
| `conversation_repeats`, `conversation_limit`, `setup_fresh`, `releases_update` | as above, the last two without failures | each refutes a sentence of the documentation, see section 7 | |

Why the bounds are enough to be interesting: with one place in the queue, three requests fill
slot and queue, the third can be turned away, and the unload can queue behind a request in
front of another, which is the smallest line in which a waiter in the middle can leave. Two
rounds have a first, a last and a limit that is reached; two unload attempts a retry and a
last one. Two launchers are the smallest number that share a router, race for the port and
outlive one another; limits of two ticks tell "fresh", "still alive" and "expired" apart and
let a heartbeat be late. The table of two rows overflows at the third answer, and three
instants let a row live, expire and be in the future. Two remembered turns and four clients
evict; two web rounds reach the limit and feed a round twice; three events leave every chunk
boundary around and inside a separator. Three openers let one die, one race and one be
refused; a cache of two units evicts one small row or two, and the lock of the router needs
two threads to matter. Two roles are the smallest number of aliases that can differ from each
other halfway; three releases have one to roll back to and one to update to. What the bounds
cut off beyond that, the theorems of section 6 cover where there are some. `MaxTime`,
`MaxAnswers`, `MaxClock`, `MaxItems`, `MaxOutput`, `MaxBlocks`, `MaxDelta`, `MaxRecorded` and
`Uuid` are bounds of the models, not of the code.

Where deadlock is not checked (`CHECK_DEADLOCK FALSE`), the instance has a finite number of
requests, launchers, answers or events and rightly comes to rest. That nobody waits for ever is
`EveryWaitEnds` and `AbandonedRouterEnds`. `SYMMETRY` is used where both launchers are
windows and no liveness is checked, and for the two threads of the router in `stores`.

Each property of a passing run has a mutant in `PROJECT.json`: a bug in a mapped definition
with which TLC finds the property violated on the same instance.

## 5. Fairness

`Execution!FairSpec`: a waiter to whom the lock was handed runs (the event loop schedules
ready tasks); a request in the slot ends, if not otherwise then by its deadline of 900 s,
which asyncio.timeout enforces at every await; the unload goes on, since each of its awaits
has an HTTP timeout or is a sleep. Nothing is assumed of clients, of the content of Ollama's
answers, or of the deadline of a request that still waits: a request leaves the queue
because those before it end.

`Lifecycle!FairSpec`: each router's event loop runs the tasks that can run (process, monitor
loop and shutdown task, each with a fairness of its own, so that one busy task does not count
for the others), and time passes. Launchers promise nothing: they may hang or be killed. Nor
does the tray program, which may keep its stream open for ever: it quits by the number of
launchers in a snapshot, and a lease that goes sends none. `StreamCloses` therefore has no
fairness, and `AbandonedRouterEnds` presupposes what it needs: that the router is not held
from some time on for ever (`[]<>(process[p] # "held")`). What it says beyond that is that
everything else on the way to the end, reaping, the grace period, the monitor loop, the
shutdown task and the drain, comes to its end by itself. `AbandonedRouterEnds` is stated with
an Ollama that answers, because with one that always fails the shutdown task gives up each
time and, by design, the router stays.

## 6. Proofs

`tlapm` checks every step; nothing is assumed but the named assumptions of the modules
(`ExecutionAssumption`, `RegistryAssumption`, ..., `CacheAssumption`), which say that limits are
natural numbers, sets of requests, sessions and roles finite and the null values distinct. They
are as TLC evaluates them. The theorems below hold for any value of the other constants: any
number of requests, launchers, sessions, keys or versions, and any time.

**CommonLemmas** has what several proofs need of the library's operators. The induction
theorems of the library cannot be used, so each induction is over the least counterexample
(`LeastExists`, `SmallestSubset`). `SumOf` is MapThenSumSet, a fold: `SumExists` shows that its
recursive function exists, size by size, and the other lemmas how a sum changes when an element
leaves, when one number grows, and by how much it falls when several elements go. `PairIs` to
`AtIs` say what stands where in `PickedAt` and in sequences behind one another.

**ExecutionProofs.** `Typed` is the first inductive invariant: the types,
`PendingIsInFlight`, and that a request outside its exchanges has its round counter at zero.
The count needs the finite cardinality of the requests inside, so that a step which lets one
in or out changes it by one. On it rest `SlotExclusive` (`OneInference`, inductive given the
types), the queue limit (`QueueLimit`: *at most MaxPending + 1 are inside*, which with
exclusion bounds those who wait), `ServedRequest` (inductive only with exclusion: whoever is
in the slot is alone there, hence nobody else changed the dashboard or `current_model`), and
`BooksAgree` (which needs that a request that is not done has left no trace yet; it says what
an answer tells of the books, and of the answers 400 and 500 only that nothing is counted
twice or stored without being counted).
`QueueInOrder` says that `ahead` is a line: each step leaves the queue as it is, appends one
waiter or removes one (`QueueMoves`), and each of the three keeps a strict total order.
`FirstComeFirstServed` is the action property from the same facts. `KeepsPromise` is the
refinement: every step of a request is one step of `SlotService` or none.
`OneModelWithoutFaults` needs `LoadedIsCurrent`, that Ollama has loaded nothing but
`current_model`; a request that switches has waited until the old alias was gone, and no other
request or unload can come between because of exclusion.

**LifecycleProofs.** First, lemmas on the registry as a value: every method keeps it `Sound`
(its type, and `empty_since` set exactly while it is empty and has had a lease) and keeps
another launcher's lease `Fresh` (there, and not older than `Late`). The inductive invariant
`Inv` then joins `Control` (types), `Phases` (only a launcher that is up beats; the router
that acknowledged a lease has served), `Sound` for every registry and `Fresh` for every
attached launcher. The last part holds only if the machine does not sleep, and is part of
the invariant under that condition: with `suspend` in `Faults` a beating launcher can lose
its lease, and the theorems `HeartbeatsKeepLease` and `SessionsAreSpared` assume that it is
not. `SessionsAreSpared` is a statement on steps: only the end of the shutdown task sets
`_shutdown_requested` (`LaunchersDoNotRequest`, `OnlyUnloadRequests`), it does so after a
look at the leases in the same step, and a fresh lease survives that look.

**ConversationProofs.** `ContentOK` (the type theorem `AlwaysContent`, for every value of
`Limits`) has, beyond the types, that no two rows have the same time: only then are MaxRows newer
rows enough to go, and the table stays within MaxRows. `StoreInv` says that ids are issued once
each (`IdsAreIssued`), that the table is finite with times that can be compared
(`RowsHaveTimes`), and that the id of a session's row was told to no other session
(`RowsAreOwn`). What a row holds plays no part, so an answer is seen through `AnswerIsPut`, which
hides the sequences. `PrunedAreOldest` compares cardinalities: if a row that stays were not newer
than one that goes, the rows newer than the latter would be among those newer than the former.
`AlwaysKept` is about what rows hold. `SameConversation` compares two sequences by which items
they have and which is said first before which, and the lemmas show that dropping repetitions
keeps it (`SameDeduplicated`), that it survives more items on both sides (`SameGoesOn`) and
items that were said before (`SameRepeated`); the step then follows the code from expand to put.
The theorems other than `AlwaysContent` assume `~Limits`: answers of requests that use up their
web rounds share one id (section 7), and with them isolation and histories are false.

**SchemaAdoptionProofs.** A process acts on a version it read however long ago, so
`AdoptionInv` says for every place in the code what holds of the file when somebody is
there: who comes to the mark has a copy or no legacy tables (`CopyBeforeMark`), who looks
for the backup has seen tables (`TablesSeen`), nobody gets into a newer file
(`NewerAlone`). That a lone opener is never refused needs `Unharmed`: without a crash or a
race there is one opener, and a backup beside version 0 is its own.

**InstallationProofs.** `CurrentIsWhole` is not inductive, because the installer may work on the
directory in use. `WholeUnlessSpoiled` says it of every directory, and `InstallerProgress` what
each step has left for the next. For `Setup`, `OrderUnlessHarmed` speaks only of the moments
between two commands; `SetupInv` says for every step of a command what is in order while it is
there: a command that applies new contexts has the aliases it is done with at the new ones
(`AliasesInOrder`, role by role), the catalog and then the configuration follow
(`ConfigInOrder`), a benchmark knows the aliases it has created (`ScratchInOrder`), and
runtime.json still holds what the command has read (`CommandKnows`). Each is claimed only where
`harm` does not name it, and one lemma per step shows that a step which may break it says so;
`SurvivingFiles` is the one about a file that was cut off, for the three steps that may do it.
What an `ollama rm` left is named from the moment it is left (`CleanupKeeps`).
`InstallationIsSafe` puts both together as the runs have them.

**RequestsProofs.** *Dashboard*: `StatisticsAreCurrent` says that, while no finalization broke
off, the totals the hub holds are those of the store, so that the totals shown add the tokens
of the running turn to a store that does not have them yet; `Total` is a sum over all
sessions, of which a turn changes one. `AlwaysChangesAreAnnounced` is an action property of
every step. *TurnRouter*: `RouterInv` says of the LRU that every turn stands in it once, with
its last alias, that whoever stands behind a turn has asked since, and that a turn goes only
when `MaxTurns` others have (`StillThere`): the turn that is evicted stands first, hence all
that remain have asked since, and there are MaxTurns of them. `InstructionsNeverRoute` is a
fact about the decision, not about reachable states: the last words of a user, the images and
the turn are the same with a developer message at any place. *WebRounds*: `RoundsInv` says by
the stages of a request what the input of the next inference is: every web call in it has one
output behind it (`Answered`), a call for Codex is in it only beside a web call of its round
(`OnlyMixed`), and all calls are of earlier rounds, which is why the ids of a new round are
new. The translation of names and arguments is proved item by item (`CanonicalIs` to
`NormalizedIs`; `MayRun` is what the arguments of a shell call are when they come out of it,
shape by shape), and the places of the calls, their outputs and what was there before in the
joined sequence in `RoundIsAnswered`.

*EventStream*: `ChunksDoNotMatter` is not inductive, because it says nothing of what is in the
buffer. `StreamInv` does: for some k, `seen` is what the first k blocks of the stream say, and
the text of these, the buffer and what is to come are together the text of the stream. So the
buffer begins with the next block or with a part of it, and `BlockIsFound` is the heart of the
proof: neither separator can be found in a block, nor across its end before the separator
itself, whichever line ends the stream has. Text and meaning of the stream are concatenations of
any number of sequences; `FlattenIs` turns them into sums that grow block by block (`SumsUp`),
so that no step needs an induction of its own. `RequestsAreSafe` puts the four parts together as
the run has them.

**StoresProofs.** *UsageStore*: `Titled` says of every session, with or without a row, that its
title is the last one given, which each upsert keeps (`TitlesAfterWith`). `StatisticsAgree` is
proved from `OrderedInv`, which says that no two events have one instant, hence that `Newest`
puts the sessions in a strict order and each has one place in it. The places of the pages are
those of that order, one after the other (`PlacesAre`, `PagesAre`), so the pages hold each
session once. The sums are the events', taken apart by session and by model (`SumOfParts`,
`TableAdds`); this is where a row counted for two sessions or for none would show. *WebCache*:
the size of the table is a sum, and `EvictedAre` says of the batches that nothing they leave is
older than what they take, and that they leave at most `Batch` rows too little.
`OwnRowsHaveExpired` is the reason why a get never deletes a fresh row of its own process:
between its SELECT and its DELETE it holds the lock of the process. The first attempt to prove
`FreshRowsSurvive` failed: a put writes the time it took before it waited for the lock, so its
row may be older than the one it replaces, which a get has used meanwhile, and is then the one
that is evicted at once. The property now names this (`MakesRoom`), and the run has a cache in
which it happens. `StoresAreSafe` puts the three together.

Model-checked only, and why: `EveryWaitEnds` and `AbandonedRouterEnds`, because liveness under
fairness is out of TLAPS' reach here. The properties of the runs that expect a violation are
statements that do not hold.

## 7. Where documentation and code differ

Each is a run in which TLC finds the behaviour; quotations and lines are under `findings`.

- `conversation_repeats`: a user message equal to an earlier one disappears from the history
  (README.local-codex.md:169). `HistoryKept` is the version that holds.
- `conversation_limit`: all answers at the web limit share one id across sessions
  (docs/compatibility.md:25).
- `setup_fresh`: a benchmark on a new installation writes a runtime.json without a monitor,
  and from then on every setup and every start of a launcher ends with a traceback
  (README.local-codex.md:129).
- `releases_update`: on Linux an update installs the files of the release in use under the
  new version (README.md:32). `CurrentIsWhole` holds: it is still a whole release.

Other differences can be seen in the models, without a run of their own: after an exception
no handler of `execute()` names, the dashboard shows an active turn although the slot is
free (docs/architecture.md:44; `ActiveTurnInSlot` holds); a cancelled title request marks the
shown chat turn as failed (README.local-codex.md:48; `ServedTurnIsShown` holds); a failed
unload leaves two aliases loaded (README.local-codex.md:113); a window whose registration was
not acknowledged terminates the router that others use (README.local-codex.md:165;
`IdleStopSparesSessions` holds); releasing the last lease stops the router without the 20 s
(README.local-codex.md:54), and one that has given up its port lives on while a monitor stream
is open (the same line; app.py:81, 227; `AbandonedRouterEnds` presupposes that it is closed).

What the properties name because the code does not rule it out: an answer 400 does not say
that a request was not counted, for the finalization may raise after usage.record
(service.py:348-390, 429-434; `AnswerMatchesBooks` holds). A list or a string with "cmd" in
it, and a call without arguments, reach Codex as a shell call without a command
(protocol.py:127-133, 156; `DeliveredCallsAreUsable` names them). A benchmark may leave
aliases behind without a word (setup.py:107-114; `OrderUnlessHarmed` names them).

## 8. What is not modelled

- The tray program (C++): what its window shows, when it closes, its two threads. System
  metrics, diagnostics, texts, paths, packaging and CI, because no other part relies on state
  of theirs.
- In `Execution`: the content of requests and responses. Two branches of `_execute` cannot
  be reached and have no action: service.py:313 (a router without HTTP client; the lifespan
  creates it before the port is bound) and service.py:392-406 (an answer below status 400
  always comes with a resolved response).
- In `Lifecycle`: routers that were started without `LOCAL_CODEX_MANAGED=1`; the launcher
  always sets it, so the monitor loop always runs. uvicorn's order (startup, bind, serve,
  notice the signal, close the port, finish requests, lifespan shutdown) and the end of a
  process are external and marked so in the map. The router that cannot bind the port is
  modelled to end, as uvicorn does.
- The models two routers share in one Ollama, and requests in flight when a router stops:
  both are hazards in `PROJECT.json` and need the composition K.
- In `Conversation`: compression and JSON, and SQLite errors, which `Execution` has as
  `FinalizationCrashes`.
- In `Dashboard`: speeds, costs and the number of launchers in the snapshot, which changes
  without a new revision.
- In `WebRounds`: the text of the events that transform_sse and response_as_sse write, and
  the instructions and headers added to a request.
- In `UsageStore`: costs, the export and the printed summary. In `WebCache`: the pacing of
  requests, the checks of addresses and the extraction of pages.
- In `Setup`: detection of the hardware, prompts, two commands at once; the start of Ollama
  and of the tray program by the launcher, its menus. In `Releases`: install.ps1 beyond the
  fact that it downloads what it is asked for.
- A late DELETE of a lease on a new router and a jump of the wall clock behind all leases are
  behaviours of the code that no property rules out.
