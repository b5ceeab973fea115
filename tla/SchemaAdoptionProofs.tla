------------------------- MODULE SchemaAdoptionProofs -------------------------
(***************************************************************************)
(* AdoptionIsRecoverable for any number of processes.  What they do to one  *)
(* another goes through the file: a process that has read version 0 acts on *)
(* it however much later.  So the invariant says what every place of the    *)
(* code may rely on, and what nobody but a lone opener may.                 *)
(***************************************************************************)
EXTENDS SchemaAdoption, TLAPS

Copied == \E copy \in copies \cup backup : "legacy" \in copy

\* Whoever comes to the version mark, and whoever has passed it, leaves a copy.
CopyBeforeMark ==
  /\ version = SchemaVersion /\ "legacy" \in tables => Copied
  /\ \A p \in Opener : stage[p] = "mark" /\ "legacy" \in tables => Copied

\* Nobody gets into a newer database.
NewerAlone ==
  "newer" \in tables =>
    /\ version = 2 /\ tables = {"newer"} /\ backup = {}
    /\ \A p \in Opener : stage[p] \in {"down", "refused"}

\* Who looks for the backup has seen tables; who was refused for it, too.
TablesSeen ==
  \A p \in Opener :
    stage[p] = "check" \/ (stage[p] = "refused" /\ read[p] <= SchemaVersion) => tables # {}

\* While nothing has gone wrong, one process opens at a time, and a backup beside version 0
\* is its own.
OneOpener ==
  \A p, q \in Opener : stage[p] \in Opening /\ stage[q] \in Opening => p = q
OwnBackup ==
  /\ \A p \in Opener : stage[p] \in {"list", "check"} => backup = {}
  /\ version = 0 /\ backup # {} => \E p \in Opener : stage[p] \in {"copy", "mark"}
Unharmed == ~harmed => OneOpener /\ OwnBackup

RefusedWhenHarmed ==
  \A p \in Opener : stage[p] = "refused" /\ read[p] <= SchemaVersion => harmed

AdoptionInv ==
  /\ AdoptionTypeOK /\ CopyBeforeMark /\ NewerAlone
  /\ TablesSeen /\ Unharmed /\ RefusedWhenHarmed

-----------------------------------------------------------------------------
\* A new file, and one that releases left.
LEMMA InitiallyRecoverable == AdoptionInit => AdoptionInv
<1> SUFFICES ASSUME AdoptionInit PROVE AdoptionInv
  OBVIOUS
<1> USE DEF AdoptionInit
<1>1. AdoptionTypeOK
  <2>1. {} \in Tables /\ {"legacy"} \in Tables /\ {"legacy", "own"} \in Tables
        /\ {"newer"} \in Tables
    BY DEF Tables
  <2>2. version \in 0..2
    OBVIOUS
  <2>3. tables \in Tables
    <3>1. tables = {} \/ tables = {"legacy"} \/ tables = {"legacy", "own"} \/ tables = {"newer"}
      BY Zenon
    <3> QED
      BY ONLY <2>1, <3>1, Zenon
  <2>4. backup \subseteq Tables /\ \A one, other \in backup : one = other
    <3>1. CASE backup = {}
      BY <3>1
    <3>2. CASE backup = {{"legacy"}}
      <4>1. \A held \in backup : held = {"legacy"}
        BY <3>2, Zenon
      <4> QED
        BY <4>1, <2>1, Zenon
    <3> QED
      BY <3>1, <3>2
  <2>5. copies \subseteq Tables /\ harmed \in BOOLEAN
    OBVIOUS
  <2>6. /\ stage \in [Opener -> {"down", "refused", "create", "up"} \cup Opening]
        /\ read \in [Opener -> 0..2]
    OBVIOUS
  <2> QED
    BY <2>2, <2>3, <2>4, <2>5, <2>6 DEF AdoptionTypeOK
<1>2. CopyBeforeMark
  <2>1. \A p \in Opener : stage[p] # "mark"
    OBVIOUS
  <2>2. version = 1 => {"legacy"} \in copies \cup backup /\ "legacy" \in {"legacy"}
    OBVIOUS
  <2> QED
    BY <2>1, <2>2 DEF CopyBeforeMark, Copied, SchemaVersion
<1>3. NewerAlone
  BY DEF NewerAlone
<1>4. TablesSeen /\ RefusedWhenHarmed
  BY DEF TablesSeen, RefusedWhenHarmed
<1>5. Unharmed
  BY DEF Unharmed, OneOpener, OwnBackup, Opening
<1> QED
  BY <1>1, <1>2, <1>3, <1>4, <1>5 DEF AdoptionInv

\* One step for each action of a process, in the order of the code.
LEMMA TypeStep ==
  AdoptionTypeOK /\ [AdoptionNext]_adoptionVars => AdoptionTypeOK'
<1> SUFFICES ASSUME AdoptionTypeOK, [AdoptionNext]_adoptionVars PROVE AdoptionTypeOK'
  OBVIOUS
<1> USE DEF AdoptionTypeOK, Tables, Opening, Goto, SchemaVersion
<1>1. ASSUME NEW p \in Opener, ReadVersion(p) PROVE AdoptionTypeOK'
  BY <1>1 DEF ReadVersion
<1>2. ASSUME NEW p \in Opener, ListTables(p) PROVE AdoptionTypeOK'
  BY <1>2 DEF ListTables
<1>3. ASSUME NEW p \in Opener, OpenBackup(p) PROVE AdoptionTypeOK'
  BY <1>3 DEF OpenBackup
<1>4. ASSUME NEW p \in Opener, RefuseBackup(p) PROVE AdoptionTypeOK'
  BY <1>4 DEF RefuseBackup
<1>5. ASSUME NEW p \in Opener, CopyTables(p) PROVE AdoptionTypeOK'
  BY <1>5 DEF CopyTables
<1>6. ASSUME NEW p \in Opener, MarkVersion(p) PROVE AdoptionTypeOK'
  BY <1>6 DEF MarkVersion
<1>7. ASSUME NEW p \in Opener, SwitchJournal(p) PROVE AdoptionTypeOK'
  BY <1>7 DEF SwitchJournal
<1>8. ASSUME NEW p \in Opener, CreateTables(p) PROVE AdoptionTypeOK'
  BY <1>8 DEF CreateTables
<1>9. ASSUME NEW p \in Opener, Stop(p) PROVE AdoptionTypeOK'
  BY <1>9 DEF Stop
<1>10. CASE PutBackupAway
  BY <1>10 DEF PutBackupAway
<1>11. CASE UNCHANGED adoptionVars
  BY <1>11 DEF adoptionVars
<1> QED
  BY <1>1, <1>2, <1>3, <1>4, <1>5, <1>6, <1>7, <1>8, <1>9, <1>10, <1>11 DEF AdoptionNext

\* Only an empty file is marked without a copy; the copy is of the tables there are.
LEMMA CopyStep ==
  AdoptionTypeOK /\ CopyBeforeMark /\ [AdoptionNext]_adoptionVars => CopyBeforeMark'
<1> SUFFICES ASSUME AdoptionTypeOK, CopyBeforeMark, [AdoptionNext]_adoptionVars PROVE CopyBeforeMark'
  OBVIOUS
<1> USE DEF AdoptionTypeOK, CopyBeforeMark, Copied, Opening, Goto, SchemaVersion
<1>1. ASSUME NEW p \in Opener, ReadVersion(p) PROVE CopyBeforeMark'
  BY <1>1 DEF ReadVersion
<1>2. ASSUME NEW p \in Opener, ListTables(p) PROVE CopyBeforeMark'
  BY <1>2 DEF ListTables
<1>3. ASSUME NEW p \in Opener, OpenBackup(p) PROVE CopyBeforeMark'
  BY <1>3 DEF OpenBackup
<1>4. ASSUME NEW p \in Opener, RefuseBackup(p) PROVE CopyBeforeMark'
  BY <1>4 DEF RefuseBackup
<1>5. ASSUME NEW p \in Opener, CopyTables(p) PROVE CopyBeforeMark'
  BY <1>5 DEF CopyTables
<1>6. ASSUME NEW p \in Opener, MarkVersion(p) PROVE CopyBeforeMark'
  BY <1>6 DEF MarkVersion
<1>7. ASSUME NEW p \in Opener, SwitchJournal(p) PROVE CopyBeforeMark'
  BY <1>7 DEF SwitchJournal
<1>8. ASSUME NEW p \in Opener, CreateTables(p) PROVE CopyBeforeMark'
  BY <1>8 DEF CreateTables
<1>9. ASSUME NEW p \in Opener, Stop(p) PROVE CopyBeforeMark'
  BY <1>9 DEF Stop
<1>10. CASE PutBackupAway
  BY <1>10 DEF PutBackupAway
<1>11. CASE UNCHANGED adoptionVars
  BY <1>11 DEF adoptionVars
<1> QED
  BY <1>1, <1>2, <1>3, <1>4, <1>5, <1>6, <1>7, <1>8, <1>9, <1>10, <1>11 DEF AdoptionNext

\* Every start reads version 2 and is refused at once.
LEMMA NewerStep ==
  AdoptionTypeOK /\ NewerAlone /\ [AdoptionNext]_adoptionVars => NewerAlone'
<1> SUFFICES ASSUME AdoptionTypeOK, NewerAlone, [AdoptionNext]_adoptionVars PROVE NewerAlone'
  OBVIOUS
<1> USE DEF AdoptionTypeOK, NewerAlone, Opening, Goto, SchemaVersion
<1>1. ASSUME NEW p \in Opener, ReadVersion(p) PROVE NewerAlone'
  BY <1>1 DEF ReadVersion
<1>2. ASSUME NEW p \in Opener, ListTables(p) PROVE NewerAlone'
  BY <1>2 DEF ListTables
<1>3. ASSUME NEW p \in Opener, OpenBackup(p) PROVE NewerAlone'
  BY <1>3 DEF OpenBackup
<1>4. ASSUME NEW p \in Opener, RefuseBackup(p) PROVE NewerAlone'
  BY <1>4 DEF RefuseBackup
<1>5. ASSUME NEW p \in Opener, CopyTables(p) PROVE NewerAlone'
  BY <1>5 DEF CopyTables
<1>6. ASSUME NEW p \in Opener, MarkVersion(p) PROVE NewerAlone'
  BY <1>6 DEF MarkVersion
<1>7. ASSUME NEW p \in Opener, SwitchJournal(p) PROVE NewerAlone'
  BY <1>7 DEF SwitchJournal
<1>8. ASSUME NEW p \in Opener, CreateTables(p) PROVE NewerAlone'
  BY <1>8 DEF CreateTables
<1>9. ASSUME NEW p \in Opener, Stop(p) PROVE NewerAlone'
  BY <1>9 DEF Stop
<1>10. CASE PutBackupAway
  BY <1>10 DEF PutBackupAway
<1>11. CASE UNCHANGED adoptionVars
  BY <1>11 DEF adoptionVars
<1> QED
  BY <1>1, <1>2, <1>3, <1>4, <1>5, <1>6, <1>7, <1>8, <1>9, <1>10, <1>11 DEF AdoptionNext

\* Tables are never dropped.
LEMMA SeenStep ==
  AdoptionTypeOK /\ TablesSeen /\ [AdoptionNext]_adoptionVars => TablesSeen'
<1> SUFFICES ASSUME AdoptionTypeOK, TablesSeen, [AdoptionNext]_adoptionVars PROVE TablesSeen'
  OBVIOUS
<1> USE DEF AdoptionTypeOK, TablesSeen, Opening, Goto, SchemaVersion
<1>1. ASSUME NEW p \in Opener, ReadVersion(p) PROVE TablesSeen'
  BY <1>1 DEF ReadVersion
<1>2. ASSUME NEW p \in Opener, ListTables(p) PROVE TablesSeen'
  BY <1>2 DEF ListTables
<1>3. ASSUME NEW p \in Opener, OpenBackup(p) PROVE TablesSeen'
  BY <1>3 DEF OpenBackup
<1>4. ASSUME NEW p \in Opener, RefuseBackup(p) PROVE TablesSeen'
  BY <1>4 DEF RefuseBackup
<1>5. ASSUME NEW p \in Opener, CopyTables(p) PROVE TablesSeen'
  BY <1>5 DEF CopyTables
<1>6. ASSUME NEW p \in Opener, MarkVersion(p) PROVE TablesSeen'
  BY <1>6 DEF MarkVersion
<1>7. ASSUME NEW p \in Opener, SwitchJournal(p) PROVE TablesSeen'
  BY <1>7 DEF SwitchJournal
<1>8. ASSUME NEW p \in Opener, CreateTables(p) PROVE TablesSeen'
  BY <1>8 DEF CreateTables
<1>9. ASSUME NEW p \in Opener, Stop(p) PROVE TablesSeen'
  BY <1>9 DEF Stop
<1>10. CASE PutBackupAway
  BY <1>10 DEF PutBackupAway
<1>11. CASE UNCHANGED adoptionVars
  BY <1>11 DEF adoptionVars
<1> QED
  BY <1>1, <1>2, <1>3, <1>4, <1>5, <1>6, <1>7, <1>8, <1>9, <1>10, <1>11 DEF AdoptionNext

\* A second process comes in only with harm done, and then nothing is left to show.
LEMMA UnharmedStep ==
  AdoptionTypeOK /\ Unharmed /\ [AdoptionNext]_adoptionVars => Unharmed'
<1> SUFFICES ASSUME AdoptionTypeOK, Unharmed, [AdoptionNext]_adoptionVars PROVE Unharmed'
  OBVIOUS
<1> USE DEF AdoptionTypeOK, Unharmed, OneOpener, OwnBackup, Opening, Goto, SchemaVersion
<1>1. ASSUME NEW p \in Opener, ReadVersion(p) PROVE Unharmed'
  <2> SUFFICES ASSUME ~harmed' PROVE (OneOpener /\ OwnBackup)'
    BY DEF Unharmed
  <2>1. ~harmed /\ \A q \in Opener : stage[q] \notin Opening
    BY <1>1, Zenon DEF ReadVersion
  <2>2. version = 0 => backup = {}
    BY <2>1
  <2>3. \A q \in Opener : stage'[q] \in Opening => q = p /\ stage'[q] \in {"list", "wal"}
    BY <1>1, <2>1 DEF ReadVersion
  <2>4. stage'[p] = "list" => version = 0
    BY <1>1 DEF ReadVersion
  <2> QED
    BY <1>1, <2>2, <2>3, <2>4 DEF ReadVersion
<1>2. ASSUME NEW p \in Opener, ListTables(p) PROVE Unharmed'
  BY <1>2 DEF ListTables
<1>3. ASSUME NEW p \in Opener, OpenBackup(p) PROVE Unharmed'
  BY <1>3 DEF OpenBackup
<1>4. ASSUME NEW p \in Opener, RefuseBackup(p) PROVE Unharmed'
  BY <1>4 DEF RefuseBackup
<1>5. ASSUME NEW p \in Opener, CopyTables(p) PROVE Unharmed'
  BY <1>5 DEF CopyTables
<1>6. ASSUME NEW p \in Opener, MarkVersion(p) PROVE Unharmed'
  BY <1>6 DEF MarkVersion
<1>7. ASSUME NEW p \in Opener, SwitchJournal(p) PROVE Unharmed'
  BY <1>7 DEF SwitchJournal
<1>8. ASSUME NEW p \in Opener, CreateTables(p) PROVE Unharmed'
  BY <1>8 DEF CreateTables
<1>9. ASSUME NEW p \in Opener, Stop(p) PROVE Unharmed'
  BY <1>9 DEF Stop
<1>10. CASE PutBackupAway
  BY <1>10 DEF PutBackupAway
<1>11. CASE UNCHANGED adoptionVars
  BY <1>11 DEF adoptionVars
<1> QED
  BY <1>1, <1>2, <1>3, <1>4, <1>5, <1>6, <1>7, <1>8, <1>9, <1>10, <1>11 DEF AdoptionNext

\* A lone opener finds no backup beside version 0.
LEMMA RefusedStep ==
  AdoptionTypeOK /\ Unharmed /\ RefusedWhenHarmed /\ [AdoptionNext]_adoptionVars => RefusedWhenHarmed'
<1> SUFFICES ASSUME AdoptionTypeOK, Unharmed, RefusedWhenHarmed, [AdoptionNext]_adoptionVars PROVE RefusedWhenHarmed'
  OBVIOUS
<1> USE DEF AdoptionTypeOK, Unharmed, OwnBackup, RefusedWhenHarmed, Opening, Goto, SchemaVersion
<1>1. ASSUME NEW p \in Opener, ReadVersion(p) PROVE RefusedWhenHarmed'
  BY <1>1 DEF ReadVersion
<1>2. ASSUME NEW p \in Opener, ListTables(p) PROVE RefusedWhenHarmed'
  BY <1>2 DEF ListTables
<1>3. ASSUME NEW p \in Opener, OpenBackup(p) PROVE RefusedWhenHarmed'
  BY <1>3 DEF OpenBackup
<1>4. ASSUME NEW p \in Opener, RefuseBackup(p) PROVE RefusedWhenHarmed'
  BY <1>4 DEF RefuseBackup
<1>5. ASSUME NEW p \in Opener, CopyTables(p) PROVE RefusedWhenHarmed'
  BY <1>5 DEF CopyTables
<1>6. ASSUME NEW p \in Opener, MarkVersion(p) PROVE RefusedWhenHarmed'
  BY <1>6 DEF MarkVersion
<1>7. ASSUME NEW p \in Opener, SwitchJournal(p) PROVE RefusedWhenHarmed'
  BY <1>7 DEF SwitchJournal
<1>8. ASSUME NEW p \in Opener, CreateTables(p) PROVE RefusedWhenHarmed'
  BY <1>8 DEF CreateTables
<1>9. ASSUME NEW p \in Opener, Stop(p) PROVE RefusedWhenHarmed'
  BY <1>9 DEF Stop
<1>10. CASE PutBackupAway
  BY <1>10 DEF PutBackupAway
<1>11. CASE UNCHANGED adoptionVars
  BY <1>11 DEF adoptionVars
<1> QED
  BY <1>1, <1>2, <1>3, <1>4, <1>5, <1>6, <1>7, <1>8, <1>9, <1>10, <1>11 DEF AdoptionNext

\* Every step keeps the invariant.
LEMMA AdoptionStep == AdoptionInv /\ [AdoptionNext]_adoptionVars => AdoptionInv'
  BY TypeStep, CopyStep, NewerStep, SeenStep, UnharmedStep, RefusedStep DEF AdoptionInv

\* The invariant is the promise, part by part.
LEMMA InvIsRecoverable == AdoptionInv => AdoptionIsRecoverable
  BY DEF AdoptionInv, CopyBeforeMark, Copied, NewerAlone, TablesSeen, RefusedWhenHarmed,
         AdoptionIsRecoverable

\* open_database, by any number of processes that die anywhere: the promise of the module.
THEOREM AlwaysRecoverable == AdoptionSpec => []AdoptionIsRecoverable
  BY InitiallyRecoverable, AdoptionStep, InvIsRecoverable, PTL DEF AdoptionSpec
=============================================================================
