--------------------------- MODULE LeaseRegistry ---------------------------
(***************************************************************************)
(* The heartbeat registry of the launchers (local_codex/monitor.py) as a   *)
(* value: each method of LeaseRegistry is a function from a registry to the *)
(* next one.  Instants are kept as ages in ticks of the launchers'         *)
(* heartbeat (5 s), which stop counting where no method tells them apart.  *)
(***************************************************************************)
EXTENDS Integers

CONSTANTS
  Launcher,  \* the launcher processes; each registers one lease of its own
  TTL,       \* ticks without heartbeat a lease survives (15 s)
  Grace      \* ticks without lease before the monitor loop acts (20 s)

ASSUME RegistryAssumption == TTL \in Nat \ {0} /\ Grace \in Nat \ {0}

\* empty_since is None.
NotEmpty == -1

\* holders: the leases; age: ticks since updated_at; empty: ticks since
\* empty_since.
Registry(holders, age, everHad, empty) ==
  [holders |-> holders, age |-> age, everHad |-> everHad, empty |-> empty]
Registries == [holders : SUBSET Launcher, age : [Launcher -> 0..(TTL + 1)],
               everHad : BOOLEAN, empty : NotEmpty..Grace]
NewRegistry == Registry({}, [l \in Launcher |-> 0], FALSE, NotEmpty)

\* Mutant: every look at an empty registry starts the grace period again.
KeepingAnew(reg, kept) ==
  Registry(kept, [l \in Launcher |-> IF l \in kept THEN reg.age[l] ELSE 0], reg.everHad,
           IF kept = {} /\ reg.everHad THEN 0 ELSE reg.empty)
\* The leases `kept` of reg remain: empty_since starts with the last one gone.
Keeping(reg, kept) ==
  Registry(kept, [l \in Launcher |-> IF l \in kept THEN reg.age[l] ELSE 0], reg.everHad,
           IF kept = {} /\ reg.everHad /\ reg.empty = NotEmpty THEN 0 ELSE reg.empty)

Registered(reg, l) ==
  Registry(reg.holders \cup {l}, [reg.age EXCEPT ![l] = 0], TRUE, NotEmpty)

\* Mutant: the heartbeat of an unknown lease brings it back.
BeatenAlways(reg, l) ==
  Registry(reg.holders \cup {l}, [reg.age EXCEPT ![l] = 0], reg.everHad, reg.empty)
Beaten(reg, l) ==
  IF l \in reg.holders
  THEN Registry(reg.holders, [reg.age EXCEPT ![l] = 0], reg.everHad, reg.empty)
  ELSE reg

Released(reg, l) == Keeping(reg, reg.holders \ {l})

\* Mutant of snapshot: a lease is stale as soon as its age reaches one tick.
ReapedEager(reg) == Keeping(reg, {l \in reg.holders : reg.age[l] < 1})
\* What snapshot() leaves: leases older than the TTL are gone.  (With a lease
\* left, empty_since is None already.)
Reaped(reg) == Keeping(reg, {l \in reg.holders : reg.age[l] <= TTL})

\* Mutant: instants are kept for ever.
AgedUnbounded(reg, n) ==
  Registry(reg.holders, [l \in Launcher |-> reg.age[l] + n], reg.everHad, reg.empty)
\* Time passes by n ticks.
Aged(reg, n) ==
  Registry(reg.holders,
           [l \in Launcher |->
              IF l \notin reg.holders THEN 0
              ELSE IF reg.age[l] + n > TTL THEN TTL + 1 ELSE reg.age[l] + n],
           reg.everHad,
           IF reg.empty = NotEmpty THEN NotEmpty
           ELSE IF reg.empty + n > Grace THEN Grace ELSE reg.empty + n)
=============================================================================
