------------------------------- MODULE MCStores -------------------------------
(***************************************************************************)
(* The instances of UsageStore, SchemaAdoption and WebCache, three parts    *)
(* that keep state in SQLite and share none: part says which of them runs.  *)
(***************************************************************************)
EXTENDS UsageStore, SchemaAdoption, WebCache

CONSTANTS Parts, First, Late, Mcp

VARIABLE part

MCTtl == [k \in Key |-> IF k \in Page THEN 2 ELSE 1]

\* The two threads of the router.
MCThreads == Permutations({First, Late})

StoresTypeOK == UsageTypeOK /\ AdoptionTypeOK /\ CacheTypeOK

StoresInit ==
  /\ part \in Parts
  /\ UsageInit /\ AdoptionInit /\ CacheInit
  /\ part # "usage" => events = <<>>
  /\ part # "schema" => version = 0 /\ tables = {}

StoresNext ==
  \/ part = "usage" /\ UsageNext /\ UNCHANGED <<adoptionVars, cacheVars, part>>
  \/ part = "schema" /\ AdoptionNext /\ UNCHANGED <<usageVars, cacheVars, part>>
  \/ part = "cache" /\ CacheNext /\ UNCHANGED <<usageVars, adoptionVars, part>>

StoresSpec == StoresInit /\ [][StoresNext]_<<usageVars, adoptionVars, cacheVars, part>>
=============================================================================
