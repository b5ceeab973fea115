------------------------------- MODULE WebCache -------------------------------
(***************************************************************************)
(* SearchClient (local_search/core.py) and its WebCache (cache.py): the     *)
(* router and the MCP server each have one, with a lock of their own, and   *)
(* share the file.  A statement of SQLite is one step, and so is put, which *)
(* is one transaction; get looks first and writes afterwards.               *)
(***************************************************************************)
EXTENDS Integers, FiniteSets, FiniteSetsExt, Functions

CONSTANTS
  Caller,    \* threads that search
  Router,    \* those of the router; the others are of the MCP server
  Query, Page, \* keys: a search, a page
  Ttl,       \* 15 minutes for a search, 30 for a page
  MaxSize,   \* of a row
  MaxBytes,  \* max_bytes
  Batch,     \* 32
  MaxHops,   \* 4
  MaxTime    \* bounds time

ASSUME CacheAssumption ==
  /\ Router \subseteq Caller /\ IsFiniteSet(Query \cup Page)
  /\ Ttl \in [Query \cup Page -> Nat \ {0}]
  /\ MaxSize \in Nat \ {0} /\ MaxBytes \in Nat /\ Batch \in Nat \ {0}
  /\ MaxHops \in Nat \ {0} /\ MaxTime \in Nat

VARIABLES
  cache, \* web_cache, and the process that wrote a row
  calls, \* of each thread: where it is, its key, its "now", the downloads so far
  clock  \* time.time()

cacheVars == <<cache, calls, clock>>

Key  == Query \cup Page
Idle == [at |-> "idle"]
Call == [at: {"looking", "deleting", "touching", "fetching", "storing"},
         key: Key, now: 0..MaxTime, hops: 0..MaxHops]
Row  == [expires: Nat, accessed: 0..MaxTime, size: 1..MaxSize, router: BOOLEAN]

Sizes(table)         == [k \in DOMAIN table |-> table[k].size]
SizeOf(table)        == MapThenSumSet(LAMBDA k : Sizes(table)[k], DOMAIN table)
Without(table, keys) == Restrict(table, DOMAIN table \ keys)

CacheTypeOK ==
  /\ DOMAIN cache \subseteq Key /\ \A k \in DOMAIN cache : cache[k] \in Row
  /\ SizeOf(cache) <= MaxBytes
  /\ calls \in [Caller -> Call \cup {Idle}]
  /\ clock \in 0..MaxTime

CacheInit ==
  /\ cache = [k \in {} |-> Idle]
  /\ calls = [c \in Caller |-> Idle]
  /\ clock = 0

-----------------------------------------------------------------------------
MoveTo(c, place) == calls' = [calls EXCEPT ![c].at = place]
Return(c)      == calls' = [calls EXCEPT ![c] = Idle]

SameProcess(c, d) == (c \in Router) = (d \in Router)
\* Mutant: get and put do not take the lock.
Unlocked(c) == TRUE
\* _lock is free, in this process.
LockFree(c) == \A d \in Caller : SameProcess(c, d) => calls[d].at \notin {"deleting", "touching"}

\* get takes the time before the lock.  (A query or an address that is refused, or an address
\* that is not public, comes to nothing before that.)
Asks(c, keys) ==
  /\ calls[c] = Idle
  /\ \E k \in keys : calls' = [calls EXCEPT ![c] = [at |-> "looking", key |-> k, now |-> clock, hops |-> 0]]
  /\ UNCHANGED <<cache, clock>>
WebSearch(c) == Asks(c, Query)
FetchPage(c) == Asks(c, Page)

\* SELECT
Looks(c) ==
  /\ calls[c].at = "looking" /\ LockFree(c)
  /\ LET key == calls[c].key
     IN  MoveTo(c, IF key \notin DOMAIN cache THEN "fetching"
                 ELSE IF cache[key].expires <= calls[c].now THEN "deleting" ELSE "touching")
  /\ UNCHANGED <<cache, clock>>
\* DELETE, whatever row has the key now.
Deletes(c) ==
  /\ calls[c].at = "deleting"
  /\ cache' = Without(cache, {calls[c].key})
  /\ MoveTo(c, "fetching")
  /\ UNCHANGED clock
\* UPDATE, of the row if there is one, and the answer.
Touches(c) ==
  /\ calls[c].at = "touching"
  /\ cache' = [k \in DOMAIN cache |->
                 IF k = calls[c].key THEN [cache[k] EXCEPT !.accessed = calls[c].now] ELSE cache[k]]
  /\ Return(c)
  /\ UNCHANGED clock

\* _download: a redirect.
Redirected(c) ==
  /\ calls[c].at = "fetching" /\ calls[c].key \in Page /\ calls[c].hops < MaxHops
  /\ calls' = [calls EXCEPT ![c].hops = @ + 1]
  /\ UNCHANGED <<cache, clock>>
\* A search or a page has come; put takes the time.
Fetched(c) ==
  /\ calls[c].at = "fetching" /\ calls[c].hops < MaxHops
  /\ calls' = [calls EXCEPT ![c].at = "storing", ![c].now = clock]
  /\ UNCHANGED <<cache, clock>>
\* WebAccessError: after the last redirect, or for any other reason; or SQLite raises.
Fails(c) ==
  /\ calls[c] # Idle
  /\ Return(c)
  /\ UNCHANGED <<cache, clock>>

\* The rows a DELETE ... ORDER BY accessed_at may take.
Oldest(table) ==
  {keys \in SUBSET DOMAIN table :
     \A k \in keys, l \in DOMAIN table \ keys : table[k].accessed <= table[l].accessed}
\* Mutant: the size of the row just put is not counted.
EvictedLater(table) == IF SizeOf(table) <= MaxBytes + MaxSize THEN {{}} ELSE {DOMAIN table}
\* Batch after Batch until the rest is small enough.
Evicted(table) ==
  IF SizeOf(table) <= MaxBytes THEN {{}}
  ELSE {keys \in Oldest(table) :
          /\ SizeOf(Without(table, keys)) <= MaxBytes
          /\ \E before \in Oldest(table) :
               /\ before \subseteq keys /\ Cardinality(before) % Batch = 0
               /\ SizeOf(Without(table, before)) > MaxBytes
               /\ Cardinality(keys) = Min({Cardinality(before) + Batch, Cardinality(DOMAIN table)})}

RowOf(c, size) ==
  [expires |-> calls[c].now + Ttl[calls[c].key], accessed |-> calls[c].now, size |-> size,
   router |-> c \in Router]
\* INSERT OR REPLACE, and DELETE of what has expired.
Inserted(c, size) ==
  LET table == [k \in DOMAIN cache \cup {calls[c].key} |->
                  IF k = calls[c].key THEN RowOf(c, size) ELSE cache[k]]
  IN  Without(table, {k \in DOMAIN table : table[k].expires <= calls[c].now})
Puts(c) ==
  /\ calls[c].at = "storing" /\ LockFree(c)
  /\ \E size \in 1..MaxSize : \E keys \in Evicted(Inserted(c, size)) :
       cache' = Without(Inserted(c, size), keys)
  /\ Return(c)
  /\ UNCHANGED clock

Tick == clock < MaxTime /\ clock' = clock + 1 /\ UNCHANGED <<cache, calls>>

CacheNext ==
  \/ \E c \in Caller :
       \/ WebSearch(c) \/ FetchPage(c) \/ Looks(c) \/ Deletes(c) \/ Touches(c)
       \/ Redirected(c) \/ Fetched(c) \/ Fails(c) \/ Puts(c)
  \/ Tick

CacheSpec == CacheInit /\ [][CacheNext]_cacheVars

-----------------------------------------------------------------------------
\* The cache was full, and k among the rows least recently used: the row that was there, or the
\* one that replaced it, with the time its put had taken before a get used the row.
MakesRoom(k) ==
  /\ SizeOf(cache') + Batch * MaxSize > MaxBytes
  /\ \/ \A l \in DOMAIN cache' : cache[k].accessed <= cache'[l].accessed
     \/ \E c \in Caller : /\ calls[c].at = "storing" /\ calls[c].key = k
                          /\ \A l \in DOMAIN cache' : calls[c].now <= cache'[l].accessed
\* A row that has not expired leaves the cache only to make room for another, as one of the
\* least recently used, or because a get of the other process, which saw an expired row of
\* this key, deletes what is there now: a process never does that to a row of its own.
FreshRowsSurvive ==
  [][\A k \in DOMAIN cache \ DOMAIN cache' :
       cache[k].expires > clock =>
         \/ MakesRoom(k)
         \/ \E c \in Caller : /\ calls[c].at = "deleting" /\ calls[c].key = k
                              /\ (c \in Router) # cache[k].router]_cacheVars
=============================================================================
