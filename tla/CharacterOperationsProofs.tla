---------------------- MODULE CharacterOperationsProofs ----------------------
(***************************************************************************)
(* TLAPS proofs about the journaled operations on a character's storage,   *)
(* for any number of runtimes, things to remember and generations.         *)
(***************************************************************************)
EXTENDS MCCharacterOperations, TLAPS

-----------------------------------------------------------------------------
(* The inductive invariant: a character's storage is in one of seven       *)
(* conditions, and the operation under way is as far as the disk shows.    *)

Entries == [present : BOOLEAN, layout : Layouts, status : {"ready", "creating", "incomplete"},
            gen : Generations, source : Sources, op : {None} \cup Operations,
            request : BOOLEAN]
Disks == [dir : {"missing", "bare", "whole"}, archive : Stores, root : Stores, rows : Stores,
          index : BOOLEAN, local : Databases, staged : Databases]
Tokens == [action : Actions, seen : Snapshots, fresh : BOOLEAN]

Types ==
    /\ origin \in {"default", "legacy", "new"}
    /\ entry \in Entries /\ disk \in Disks
    /\ open \subseteq Owners
    /\ token \in {None} \cup Tokens
    /\ pc \in Steps

\* Nothing outside the character's own directory.
Clean == disk.rows = None /\ disk.root = None /\ ~disk.index

EmptyDatabase(g) == [gen |-> g, data |-> {}]

\* What initialize_empty_continuity has done when it is about to take step pc.
Initialized ==
    /\ pc \in {"init_archive", "init_database", "stamp", "finish"} =>
          disk.dir = "whole" /\ entry.layout = "local" /\ entry.source = None
    /\ pc \in {"init_archive", "init_database"} => disk.local = None
    /\ pc = "init_archive" => disk.archive = None
    /\ pc \in {"init_database", "stamp", "finish"} => disk.archive = {}
    /\ pc = "stamp" => disk.local = EmptyDatabase(0)
    /\ pc = "finish" => disk.local = EmptyDatabase(entry.gen)

Settled == entry.present /\ entry.op = None /\ entry.status = "ready" /\ pc = "idle"

Pending(kinds) ==
    /\ entry.present /\ entry.status = "incomplete"
    /\ entry.op # None /\ entry.op.kind \in kinds

\* 1. There is no such character.
NoCharacter == entry = [Absent EXCEPT !.gen = entry.gen] /\ disk = EmptyDisk /\ pc = "idle"

\* 2. It is being created, or its creation crashed.
Creating ==
    /\ entry.present /\ entry.op = None /\ entry.status = "creating"
    /\ entry.layout = "local" /\ entry.source = None
    /\ Clean /\ disk.staged = None
    /\ Contents(disk.archive) = {} /\ LocalData(disk) = {}
    /\ pc \in {"idle", "make_directory", "write_profile", "init_archive", "init_database",
               "stamp", "finish"}
    /\ pc = "make_directory" => disk = EmptyDisk
    /\ pc = "write_profile" => disk.dir = "bare" /\ disk.archive = None /\ disk.local = None
    /\ Initialized

\* Where a legacy layout keeps things, and that rows are derived from the archive.
LegacyKept ==
    /\ entry.layout = "legacy_shared" /\ entry.source = None
    /\ disk.dir = "whole"
    /\ IF origin = "default" THEN disk.root # None ELSE origin = "legacy" /\ disk.root = None
    /\ Contents(disk.rows) \subseteq Contents(Archive("legacy_shared"))

\* 3. It is served from the shared database.
ReadyLegacy == Settled /\ LegacyKept /\ disk.local = None /\ disk.staged = None

\* A local timeline: complete, and of its own generation.
LocalKept ==
    /\ entry.layout = "local"
    /\ disk.dir = "whole" /\ disk.staged = None
    /\ disk.local # None /\ disk.local.gen = entry.gen
    /\ disk.archive = None => origin = "legacy" /\ disk.local.data = {}

\* 4. It is served from its own database; a migration may have left a source.
ReadyLocal ==
    /\ Settled /\ LocalKept
    /\ IF entry.source = None THEN Clean
       ELSE disk.rows = entry.source.rows /\ disk.root = entry.source.root

\* 5. It is moved: the original stays, the copy is complete once published.
Copy == [gen |-> entry.op.newGen, data |-> Contents(entry.op.review.rows)]

Migrating ==
    /\ Pending({"migrate"}) /\ LegacyKept
    /\ entry.op.layout = "legacy_shared" /\ entry.op.newGen >= entry.gen
    /\ disk.rows = entry.op.review.rows /\ disk.root = entry.op.review.root
    /\ \/ disk.local = None /\ disk.staged \in {None, Copy}
       \/ disk.local = Copy /\ disk.staged = None
    /\ pc \in {"idle", "stage", "publish", "copy_files", "adopt"}
    /\ pc = "publish" => disk.staged = Copy
    /\ pc \in {"copy_files", "adopt"} => disk.local = Copy
    /\ pc = "adopt" /\ origin = "default" => disk.archive = disk.root

\* 6. Its source is cleaned up, and nothing else.
Cleaning ==
    /\ Pending({"cleanup"}) /\ LocalKept
    /\ entry.op.source # None
    /\ entry.op.source.root = None => disk.root = None
    /\ pc \in {"idle", "verify_local", "clean_rows", "clean_retained", "clean_index", "cleaned"}
    /\ pc \in {"clean_retained", "clean_index", "cleaned"} => disk.rows = None
    /\ pc \in {"clean_index", "cleaned"} => disk.root = None
    /\ pc = "cleaned" => ~disk.index

\* 7. It is erased: what is left was reviewed, and what is outside the directory
\* goes before anything in it.
Outside == {"erase", "clean_rows", "clean_retained", "clean_index", "clean_root", "phase"}
Inside  == [reset  |-> {"unlink", "epoch", "init_archive", "init_database", "stamp", "finish"},
            delete |-> {"rmtree", "forget"}]

OutsideOwned ==
    /\ entry.op.layout = "local" /\ entry.op.source = None => Clean
    /\ entry.op.source # None /\ entry.op.source.root = None => disk.root = None
    /\ entry.op.layout = "legacy_shared" =>
          entry.op.source = None /\ (origin # "default" => disk.root = None)

Reviewed ==
    /\ Contents(disk.archive) \subseteq Contents(entry.op.review.archive)
    /\ Contents(disk.root) \subseteq Contents(entry.op.review.root)
    /\ LocalData(disk) \subseteq LocalData(entry.op.review)

Erased ==
    /\ Pending({"reset", "delete"}) /\ OutsideOwned /\ Reviewed
    /\ disk.staged = None
    /\ entry.op.phase \in IF entry.op.kind = "reset" THEN {"prepared", "resetting_files"}
                          ELSE {"prepared", "deleting_files"}
    /\ entry.op.phase # "prepared" => Clean
    /\ entry.op.kind = "reset" => disk.dir = "whole" /\ entry.op.newGen >= entry.gen
    /\ pc \in {"idle"} \cup Outside \cup Inside[entry.op.kind]
    /\ pc \in {"clean_retained", "clean_index", "clean_root"} => disk.rows = None
    /\ pc \in {"clean_index", "clean_root"} /\ entry.op.source # None => disk.root = None
    /\ pc = "clean_root" => ~disk.index
    /\ pc \in {"phase"} \cup Inside[entry.op.kind] => Clean
    /\ pc = "forget" => disk = EmptyDisk
    /\ pc = "epoch" => disk.archive = None /\ disk.local = None
    /\ Initialized

Condition ==
    NoCharacter \/ Creating \/ ReadyLegacy \/ ReadyLocal \/ Migrating \/ Cleaning \/ Erased

\* Runtimes are bound to storage that is ready.
Alone == open # {} => ReadyLegacy \/ ReadyLocal

\* A confirmation still fresh is for the journal there is.
TokenFits ==
    token # None /\ token.fresh =>
        /\ entry.present /\ pc = "idle"
        /\ entry.op # None <=> token.action = "resume"
        /\ entry.status = "creating" => token.action = "delete"

OperationsIInv == Types /\ Condition /\ Alone /\ TokenFits

-----------------------------------------------------------------------------
(* Initial states and stuttering.                                          *)

\* None is neither a set of items nor a record.
LEMMA NoneIsNothing ==
    /\ MaxTimelines \in Nat /\ \A s \in SUBSET Items : s # None
    /\ \A g \in Generations, s \in SUBSET Items : [gen |-> g, data |-> s] # None
    /\ \A r, s \in Stores : [rows |-> r, root |-> s] # None
    /\ \A o \in Operations : o # None
<1>1. /\ MaxTimelines \in Nat /\ \A s \in SUBSET Items : s # None
      /\ \A o \in Operations : o # None
  BY OperationsAssumption, Zenon DEF OperationsAssumption
<1>2. \A g \in Generations, s \in SUBSET Items : [gen |-> g, data |-> s] # None
  BY OperationsAssumption DEF OperationsAssumption
<1>3. \A r, s \in Stores : [rows |-> r, root |-> s] # None
  BY OperationsAssumption DEF OperationsAssumption
<1>4. QED
  BY <1>1, <1>2, <1>3

\* A character of each origin, at rest.
LEMMA InitOperations == OperationsInit => OperationsIInv
<1> SUFFICES ASSUME OperationsInit PROVE OperationsIInv
  OBVIOUS
<1>1. /\ None \in Stores /\ {} \in Stores /\ None \in Databases /\ None \in Sources
      /\ 0 \in Generations /\ {} # None
  BY NoneIsNothing DEF Stores, Databases, Sources, Generations
<1>2. EmptyDisk \in Disks /\ Absent \in Entries /\ Legacy \in Entries
  BY <1>1 DEF EmptyDisk, Absent, Legacy, Disks, Entries, Layouts
<1>3. entry \in Entries
  BY <1>2 DEF OperationsInit
<1>4. disk \in Disks
  <2>1. \A a, r, s \in Stores :
           [EmptyDisk EXCEPT !.dir = "whole", !.archive = a, !.root = r, !.rows = s] \in Disks
    BY <1>1, <1>2 DEF EmptyDisk, Disks
  <2>2. CASE origin = "new"
    BY <2>2, <1>2 DEF OperationsInit
  <2>3. CASE origin = "default"
    BY <2>3, <1>1 DEF OperationsInit, EmptyDisk, Disks
  <2>4. CASE origin = "legacy"
    <3>1. PICK a \in {None, {}} : disk = [EmptyDisk EXCEPT !.dir = "whole", !.archive = a, !.rows = {}]
      BY <2>4 DEF OperationsInit
    <3>2. a \in Stores
      BY <1>1
    <3>3. QED
      BY <3>1, <3>2, <1>1 DEF EmptyDisk, Disks
  <2>5. QED
    BY <2>2, <2>3, <2>4 DEF OperationsInit
<1>5. Types
  BY <1>3, <1>4 DEF OperationsInit, Types, Steps
<1>6. Condition
  <2>1. CASE origin = "new"
    <3>1. entry = Absent /\ disk = EmptyDisk /\ pc = "idle"
      BY <2>1 DEF OperationsInit
    <3>2. Absent = [Absent EXCEPT !.gen = Absent.gen]
      BY DEF Absent
    <3>3. QED
      BY <3>1, <3>2 DEF NoCharacter, Condition
  <2>2. CASE origin # "new"
    <3>1. Settled /\ entry.layout = "legacy_shared" /\ entry.source = None
      BY <2>2 DEF OperationsInit, Legacy, Absent, Settled
    <3>2. /\ disk.dir = "whole" /\ Contents(disk.rows) = {}
          /\ disk.local = None /\ disk.staged = None
          /\ IF origin = "default" THEN disk.root # None ELSE origin = "legacy" /\ disk.root = None
      <4>1. CASE origin = "default"
        BY <4>1, <1>1 DEF OperationsInit, EmptyDisk, Contents
      <4>2. CASE origin = "legacy"
        <5>1. PICK a \in {None, {}} : disk = [EmptyDisk EXCEPT !.dir = "whole", !.archive = a, !.rows = {}]
          BY <4>2 DEF OperationsInit
        <5>2. QED
          BY <5>1, <4>2, <1>1 DEF EmptyDisk, Contents
      <4>3. QED
        BY <4>1, <4>2, <2>2 DEF OperationsInit
    <3>3. LegacyKept
      BY <3>1, <3>2, Zenon DEF LegacyKept
    <3>4. QED
      BY <3>1, <3>2, <3>3 DEF ReadyLegacy, Condition
  <2>3. QED
    BY <2>1, <2>2
<1>7. Alone /\ TokenFits
  BY DEF OperationsInit, Alone, TokenFits
<1>8. QED
  BY <1>5, <1>6, <1>7 DEF OperationsIInv

\* What the condition of the storage is about.
LEMMA ConditionStays ==
    ASSUME Condition, UNCHANGED <<origin, entry, disk, pc>>
    PROVE  Condition' /\ (ReadyLegacy \/ ReadyLocal => ReadyLegacy' \/ ReadyLocal')
<1>1. /\ NoCharacter => NoCharacter'
      /\ ReadyLegacy => ReadyLegacy'
      /\ ReadyLocal => ReadyLocal'
  BY DEF NoCharacter, ReadyLegacy, ReadyLocal, Settled, LegacyKept, LocalKept, Clean, Archive, RootOwned
<1>2. Creating => Creating'
  BY DEF Creating, Clean, Initialized
<1>3. Migrating => Migrating'
  BY DEF Migrating, LegacyKept, Pending, Copy, Archive, RootOwned
<1>4. Cleaning => Cleaning'
  BY DEF Cleaning, LocalKept, Pending
<1>5. Erased => Erased'
  BY DEF Erased, Pending, OutsideOwned, Reviewed, Clean, Initialized
<1>6. QED
  BY <1>1, <1>2, <1>3, <1>4, <1>5 DEF Condition

\* The invariant is about these variables only.
LEMMA StutterOperations == OperationsIInv /\ UNCHANGED operationVars => OperationsIInv'
  BY ConditionStays DEF OperationsIInv, Types, Alone, TokenFits, operationVars

-----------------------------------------------------------------------------
(* What the step execute() is about to take says of the storage.           *)

MigrateSteps == {"stage", "publish", "copy_files", "adopt"}
CleanupSteps == {"verify_local", "cleaned"}
CleanSteps   == {"clean_rows", "clean_retained", "clean_index"}
EraseSteps   == {"erase", "clean_root", "phase", "rmtree", "forget", "unlink", "epoch"}
CreateSteps  == {"make_directory", "write_profile"}
InitSteps    == {"init_archive", "init_database", "stamp", "finish"}

\* Each step belongs to an operation, or to the creation.
LEMMA StepTells ==
    ASSUME OperationsIInv
    PROVE  /\ pc \in MigrateSteps => Migrating
           /\ pc \in CleanupSteps => Cleaning
           /\ pc \in CleanSteps => Cleaning \/ Erased
           /\ pc \in EraseSteps => Erased
           /\ pc \in CreateSteps => Creating
           /\ pc \in InitSteps => Creating \/ (Erased /\ entry.op.kind = "reset")
<1>1. Erased => pc \in {"idle"} \cup Outside \cup Inside["reset"] \cup Inside["delete"]
                /\ (pc \in Inside["reset"] => entry.op.kind = "reset")
  BY DEF Erased, Inside, Pending, Outside
<1>2. QED
  BY <1>1
     DEF OperationsIInv, Condition, NoCharacter, Creating, ReadyLegacy, ReadyLocal, Settled, Migrating, Cleaning,
         Outside, Inside, MigrateSteps, CleanupSteps, CleanSteps, EraseSteps, CreateSteps, InitSteps

\* Inside an operation nothing is bound and no confirmation is fresh.
LEMMA InsideAlone ==
    ASSUME OperationsIInv, pc # "idle"
    PROVE  open = {} /\ ~(token # None /\ token.fresh)
  BY DEF OperationsIInv, Alone, TokenFits, ReadyLegacy, ReadyLocal, Settled

\* A durable step on the disk, and one in the registry.
LEMMA OnDiskIInv ==
    ASSUME OperationsIInv, NEW from \in Steps \ {"idle"}, NEW to \in Steps, NEW d, OnDisk(from, to, d),
           d \in Disks, Condition'
    PROVE  OperationsIInv'
<1>1. open = {} /\ ~(token # None /\ token.fresh)
  BY InsideAlone DEF OnDisk, Step
<1>2. QED
  BY <1>1 DEF OnDisk, Step, OperationsIInv, Types, Alone, TokenFits

\* A step in the registry leaves every confirmation stale.
LEMMA OnEntryIInv ==
    ASSUME OperationsIInv, NEW from \in Steps, NEW to \in Steps, NEW e, OnEntry(from, to, e),
           e \in Entries, Condition', open = {}
    PROVE  OperationsIInv'
<1>1. token' \in {None} \cup Tokens /\ ~(token' # None /\ token'.fresh)
  BY DEF OnEntry, Restale, OperationsIInv, Types, Tokens
<1>2. QED
  BY <1>1 DEF OnEntry, Save, OperationsIInv, Types, Alone, TokenFits


-----------------------------------------------------------------------------
(* Runtimes, confirmations and crashes.                                    *)

\* A runtime is bound only to what StorageReady found whole.
LEMMA OpenRuntimeIInv == ASSUME OperationsIInv, NEW r \in Owners, OpenRuntime(r) PROVE OperationsIInv'
<1>1. ReadyLegacy \/ ReadyLocal
  BY DEF OperationsIInv, Condition, OpenRuntime, StorageReady, NoCharacter, Absent, Creating, Migrating, Cleaning,
         Erased, Pending
<1>2. Condition' /\ (ReadyLegacy' \/ ReadyLocal')
  BY <1>1, ConditionStays DEF OperationsIInv, OpenRuntime
<1>3. QED
  BY <1>2 DEF OperationsIInv, OpenRuntime, Types, Alone, TokenFits

\* What changes no storage and binds nothing.
LEMMA QuietIInv ==
    ASSUME OperationsIInv, UNCHANGED <<origin, entry, disk, pc>>, open' \subseteq open,
           token' \in {None} \cup Tokens, TokenFits'
    PROVE  OperationsIInv'
<1>1. Condition' /\ (ReadyLegacy \/ ReadyLocal => ReadyLegacy' \/ ReadyLocal')
  BY ConditionStays DEF OperationsIInv
<1>2. QED
  BY <1>1 DEF OperationsIInv, Types, Alone

\* A confirmation is asked for, grows stale, expires or is refused.
LEMMA CloseRuntimeIInv == ASSUME OperationsIInv, NEW r \in Owners, CloseRuntime(r) PROVE OperationsIInv'
<1>1. token' \in {None} \cup Tokens /\ TokenFits'
  BY DEF CloseRuntime, OperationsIInv, Types, TokenFits
<1>2. QED
  BY <1>1, QuietIInv DEF CloseRuntime

LEMMA OtherRegistryChangeIInv == ASSUME OperationsIInv, OtherRegistryChange PROVE OperationsIInv'
<1>1. token' \in {None} \cup Tokens /\ TokenFits'
  BY DEF OtherRegistryChange, Restale, Tokens, OperationsIInv, Types, TokenFits
<1>2. QED
  BY <1>1, QuietIInv DEF OtherRegistryChange

LEMMA PreviewIInv == ASSUME OperationsIInv, NEW a \in Actions, Preview(a) PROVE OperationsIInv'
<1>1. Snapshot \in Snapshots
  BY DEF Snapshot, Snapshots, OperationsIInv, Types, Disks
<1>2. token' \in {None} \cup Tokens /\ TokenFits'
  BY <1>1 DEF Preview, Tokens, OperationsIInv, Types, TokenFits
<1>3. QED
  BY <1>2, QuietIInv DEF Preview

LEMMA ForgottenIInv == ASSUME OperationsIInv, Expire \/ Refuse PROVE OperationsIInv'
<1>1. token' \in {None} \cup Tokens /\ TokenFits'
  BY DEF Expire, Refuse, OperationsIInv, TokenFits
<1>2. QED
  BY <1>1, QuietIInv DEF Expire, Refuse

\* Wherever a crash or an error hits, what the condition says still holds.
LEMMA InterruptIInv == ASSUME OperationsIInv, Interrupt PROVE OperationsIInv'
<1>1. open = {} /\ ~(token # None /\ token.fresh)
  BY InsideAlone DEF Interrupt
<1>2. Condition'
  <2>1. Creating => Creating'
    BY DEF Interrupt, Creating, Clean, Initialized
  <2>2. Migrating => Migrating'
    BY DEF Interrupt, Migrating, LegacyKept, Pending, Copy, Archive, RootOwned
  <2>3. Cleaning => Cleaning'
    BY DEF Interrupt, Cleaning, LocalKept, Pending
  <2>4. Erased => Erased'
    BY DEF Interrupt, Erased, Pending, OutsideOwned, Reviewed, Clean, Initialized, Inside
  <2>5. ~NoCharacter /\ ~ReadyLegacy /\ ~ReadyLocal
    BY DEF Interrupt, NoCharacter, ReadyLegacy, ReadyLocal, Settled
  <2>6. QED
    BY <2>1, <2>2, <2>3, <2>4, <2>5 DEF OperationsIInv, Condition
<1>3. QED
  BY <1>1, <1>2 DEF Interrupt, OperationsIInv, Types, Steps, Alone, TokenFits


\* A bound runtime finds its storage ready, in the registry and on the disk.
LEMMA BoundIsReady ==
    ASSUME OperationsIInv, open # {} PROVE (ReadyLegacy \/ ReadyLocal) /\ entry.op = None /\ pc = "idle"
  BY DEF OperationsIInv, Alone, ReadyLegacy, ReadyLocal, Settled

\* What is said is saved before any row is derived from it.
LEMMA ConverseIInv ==
    ASSUME OperationsIInv, NEW r \in Owners, NEW x \in Items, Converse(r, x) PROVE OperationsIInv'
<1>1. open # {}
  BY DEF Converse
<1>2. \A s \in Stores : Contents(s) \cup {x} \in Stores /\ Contents(s) \cup {x} # None
  BY NoneIsNothing DEF Stores, Contents
<1>3. disk' \in Disks
  BY <1>2 DEF Converse, OperationsIInv, Types, Disks
<1>4. ReadyLegacy => ReadyLegacy'
  <2> SUFFICES ASSUME ReadyLegacy PROVE ReadyLegacy'
    OBVIOUS
  <2>1. entry.layout = "legacy_shared" /\ disk \in Disks
    BY DEF ReadyLegacy, LegacyKept, OperationsIInv, Types
  <2>2. CASE origin = "default"
    <3>1. disk' = [disk EXCEPT !.root = Contents(@) \cup {x}]
      BY <2>1, <2>2 DEF Converse, RootOwned
    <3>2. /\ disk'.root = Contents(disk.root) \cup {x} /\ disk'.rows = disk.rows
          /\ disk'.dir = disk.dir /\ disk'.local = disk.local /\ disk'.staged = disk.staged
          /\ disk'.root # None
      BY <3>1, <2>1, <1>2 DEF Disks
    <3>3. Contents(disk'.root) = Contents(disk.root) \cup {x}
      BY <3>2 DEF Contents
    <3>4. QED
      BY <3>2, <3>3, <2>2 DEF Converse, ReadyLegacy, Settled, LegacyKept, Archive, RootOwned
  <2>3. CASE origin # "default"
    <3>1. disk' = [disk EXCEPT !.archive = Contents(@) \cup {x}]
      BY <2>1, <2>3 DEF Converse, RootOwned
    <3>2. /\ disk'.archive = Contents(disk.archive) \cup {x} /\ disk'.rows = disk.rows
          /\ disk'.dir = disk.dir /\ disk'.local = disk.local /\ disk'.staged = disk.staged
          /\ disk'.archive # None /\ disk'.root = disk.root
      BY <3>1, <2>1, <1>2 DEF Disks
    <3>3. Contents(disk'.archive) = Contents(disk.archive) \cup {x}
      BY <3>2 DEF Contents
    <3>4. QED
      BY <3>2, <3>3, <2>3 DEF Converse, ReadyLegacy, Settled, LegacyKept, Archive, RootOwned
  <2>4. QED
    BY <2>2, <2>3
<1>5. ReadyLocal => ReadyLocal'
  <2> SUFFICES ASSUME ReadyLocal PROVE ReadyLocal'
    OBVIOUS
  <2>1. disk' = [disk EXCEPT !.archive = Contents(@) \cup {x}] /\ disk \in Disks
    BY DEF Converse, RootOwned, ReadyLocal, LocalKept, OperationsIInv, Types
  <2>2. /\ disk'.archive # None /\ disk'.rows = disk.rows /\ disk'.root = disk.root
        /\ disk'.dir = disk.dir /\ disk'.local = disk.local /\ disk'.staged = disk.staged
        /\ disk'.index = disk.index
    BY <2>1, <1>2 DEF Disks
  <2>3. QED
    BY <2>2 DEF Converse, ReadyLocal, Settled, LocalKept, Clean
<1>6. QED
  BY <1>1, <1>3, <1>4, <1>5, BoundIsReady DEF Converse, OperationsIInv, Types, Condition, Alone, TokenFits

LEMMA ObserveIInv ==
    ASSUME OperationsIInv, NEW r \in Owners, NEW x \in Items, Observe(r, x) PROVE OperationsIInv'
<1>1. open # {}
  BY DEF Observe
<1>2. \A s \in Stores : Contents(s) \cup {x} \in Stores /\ Contents(s) \cup {x} # None
  BY NoneIsNothing DEF Stores, Contents
<1>3. ReadyLegacy => ReadyLegacy' /\ disk' \in Disks
  <2> SUFFICES ASSUME ReadyLegacy PROVE ReadyLegacy' /\ disk' \in Disks
    OBVIOUS
  <2>1. /\ disk' = [disk EXCEPT !.rows = Contents(@) \cup {x}, !.index = TRUE]
        /\ entry.layout = "legacy_shared" /\ disk \in Disks /\ x \in Contents(Archive("legacy_shared"))
    BY DEF Observe, ReadyLegacy, LegacyKept, OperationsIInv, Types
  <2>2. /\ disk'.rows = Contents(disk.rows) \cup {x} /\ disk' \in Disks
        /\ disk'.archive = disk.archive /\ disk'.root = disk.root
        /\ disk'.dir = disk.dir /\ disk'.local = disk.local /\ disk'.staged = disk.staged
        /\ disk'.rows # None
    BY <2>1, <1>2 DEF Disks
  <2>3. Contents(disk'.rows) = Contents(disk.rows) \cup {x}
    BY <2>2 DEF Contents
  <2>4. QED
    BY <2>1, <2>2, <2>3 DEF Observe, ReadyLegacy, Settled, LegacyKept, Archive, RootOwned
<1>4. ReadyLocal => ReadyLocal' /\ disk' \in Disks
  <2> SUFFICES ASSUME ReadyLocal PROVE ReadyLocal' /\ disk' \in Disks
    OBVIOUS
  <2>1. /\ disk' = [disk EXCEPT !.local.data = @ \cup {x}]
        /\ disk \in Disks /\ x \in Contents(Archive("local"))
    BY DEF Observe, ReadyLocal, LocalKept, OperationsIInv, Types
  <2>2. disk.archive # None /\ disk.local \in [gen : Generations, data : SUBSET Items]
    BY <2>1 DEF ReadyLocal, LocalKept, Archive, RootOwned, Contents, Disks, Databases
  <2>3. PICK l : l = [disk.local EXCEPT !.data = @ \cup {x}]
    OBVIOUS
  <2>4. /\ l \in [gen : Generations, data : SUBSET Items]
        /\ l.gen = disk.local.gen
    BY <2>2, <2>3
  <2>5. disk' = [disk EXCEPT !.local = l]
    BY <2>1, <2>3 DEF Disks
  <2>6. /\ disk' \in Disks /\ disk'.local = l
        /\ disk'.archive = disk.archive /\ disk'.root = disk.root /\ disk'.rows = disk.rows
        /\ disk'.dir = disk.dir /\ disk'.index = disk.index /\ disk'.staged = disk.staged
    BY <2>1, <2>4, <2>5 DEF Disks, Databases
  <2>7. l # None
    BY <2>4, OperationsAssumption, Zenon DEF OperationsAssumption
  <2>8. QED
    BY <2>2, <2>4, <2>6, <2>7 DEF Observe, ReadyLocal, Settled, LocalKept, Clean
<1>5. QED
  BY <1>1, <1>3, <1>4, BoundIsReady DEF Observe, OperationsIInv, Types, Condition, Alone, TokenFits

\* The confirmation that starts an operation was of the storage there is.
LEMMA ResumeIInv == ASSUME OperationsIInv, Resume PROVE OperationsIInv'
<1>1. entry.present /\ entry.op # None
  BY DEF Resume, MayExecute, Confirmed, OperationsIInv, TokenFits
<1>2. open = {}
  BY <1>1, BoundIsReady
<1>3. /\ Migrating => Migrating' /\ pc' \in Steps
      /\ Cleaning => Cleaning' /\ pc' \in Steps
      /\ Erased => Erased' /\ pc' \in Steps
  <2>1. Migrating => Migrating' /\ pc' \in Steps
    BY DEF Resume, FirstStep, Migrating, LegacyKept, Pending, Copy, Archive, RootOwned, Steps
  <2>2. Cleaning => Cleaning' /\ pc' \in Steps
    BY DEF Resume, FirstStep, Cleaning, LocalKept, Pending, Steps
  <2>3. Erased => pc' = "erase"
    BY DEF Resume, FirstStep, Erased, Pending
  <2>4. Erased => Erased' /\ pc' \in Steps
    BY <2>3 DEF Resume, Erased, Pending, OutsideOwned, Reviewed, Clean, Initialized, Outside, Inside, Steps
  <2>5. QED
    BY <2>1, <2>2, <2>4
<1>4. Migrating \/ Cleaning \/ Erased
  BY <1>1 DEF OperationsIInv, Condition, NoCharacter, Absent, Creating, ReadyLegacy, ReadyLocal, Settled
<1>5. QED
  BY <1>2, <1>3, <1>4 DEF Resume, OperationsIInv, Types, Condition, Alone, TokenFits


\* The journal says what the review found, and only of storage that is at rest.
LEMMA BeginIInv == ASSUME OperationsIInv, Begin PROVE OperationsIInv'
<1>1. /\ entry.present /\ entry.op = None /\ pc = "idle" /\ token.action \in OperationKinds
      /\ entry.status = "creating" => token.action = "delete"
      /\ token.seen = Snapshot /\ token.seen \in Snapshots
  BY DEF Begin, MayExecute, Confirmed, OperationsIInv, TokenFits, Types, Tokens, Actions
<1>2. open = {}
  BY <1>1 DEF Begin, MayExecute, MissingDeleted, MissingCreation, LeaseFree, OperationsIInv, Alone,
              ReadyLegacy, ReadyLocal, Settled
<1>3. ReadyLegacy \/ ReadyLocal \/ (Creating /\ token.action = "delete")
  BY <1>1 DEF OperationsIInv, Condition, NoCharacter, Absent, Creating, Migrating, Cleaning, Erased, Pending
<1>4. PICK o : o = [kind |-> token.action, phase |-> "prepared",
                    newGen |-> IF token.action \in {"reset", "migrate"} THEN entry.gen + 1
                               ELSE entry.gen,
                    layout |-> entry.layout, source |-> entry.source, review |-> token.seen]
  OBVIOUS
<1>5. /\ entry' = [entry EXCEPT !.status = "incomplete", !.op = o]
      /\ o.newGen <= MaxTimelines
  BY <1>4 DEF Begin, Save
<1>6. entry \in Entries /\ disk \in Disks
  BY DEF OperationsIInv, Types
<1>7. /\ o.kind = token.action /\ o.phase = "prepared" /\ o.layout = entry.layout
      /\ o.source = entry.source /\ o.review = Snapshot
      /\ o.newGen >= entry.gen
  BY <1>1, <1>4, <1>6 DEF Entries, Generations
<1>8. o \in Operations
  <2>1. o.newGen \in Generations
    BY <1>4, <1>5, <1>6, NoneIsNothing DEF Entries, Generations
  <2>2. QED
    BY <1>1, <1>4, <1>6, <2>1 DEF Operations, Entries
<1>9. o # None
  BY <1>8, NoneIsNothing
<1>10. /\ entry'.present = entry.present /\ entry'.layout = entry.layout
       /\ entry'.status = "incomplete" /\ entry'.gen = entry.gen
       /\ entry'.source = entry.source /\ entry'.op = o /\ entry' \in Entries
  BY <1>5, <1>6, <1>8 DEF Entries
<1>11. /\ o.review.archive = disk.archive /\ o.review.root = disk.root
       /\ o.review.rows = disk.rows /\ o.review.local = disk.local
  BY <1>7 DEF Snapshot
<1>12. /\ disk' = disk /\ origin' = origin /\ open' = open /\ token' = None
       /\ pc' = FirstStep(token.action)
  BY DEF Begin
<1>13. /\ entry'.present /\ entry'.status = "incomplete"
       /\ entry'.op # None /\ entry'.op.kind = token.action
  BY <1>1, <1>7, <1>9, <1>10
<1>14. CASE token.action = "migrate"
  <2>1. ReadyLegacy
    BY <1>3, <1>14 DEF Begin, NothingToDo, ReadyLocal, LocalKept
  <2>2. LegacyKept'
    BY <2>1, <1>10, <1>12 DEF ReadyLegacy, LegacyKept, Archive, RootOwned
  <2>3. Migrating'
    BY <2>1, <2>2, <1>7, <1>10, <1>11, <1>12, <1>13, <1>14
       DEF Migrating, ReadyLegacy, LegacyKept, FirstStep, Pending
  <2>4. QED
    BY <2>3, <1>14, <1>2, <1>10, <1>12
       DEF OperationsIInv, Types, Condition, Alone, TokenFits, FirstStep, Steps
<1>15. CASE token.action = "cleanup"
  <2>1. ReadyLocal /\ entry.source # None
    BY <1>3, <1>15 DEF Begin, NothingToDo, ReadyLegacy, LegacyKept
  <2>2. LocalKept'
    BY <2>1, <1>10, <1>12 DEF ReadyLocal, LocalKept
  <2>3. Cleaning'
    BY <2>1, <2>2, <1>7, <1>10, <1>12, <1>13, <1>15 DEF Cleaning, ReadyLocal, FirstStep, Pending
  <2>4. QED
    BY <2>3, <1>15, <1>2, <1>10, <1>12
       DEF OperationsIInv, Types, Condition, Alone, TokenFits, FirstStep, Steps
<1>16. CASE token.action \in {"reset", "delete"}
  <2>1. OutsideOwned'
    BY <1>3, <1>7, <1>10, <1>12
       DEF OutsideOwned, Clean, Creating, ReadyLegacy, LegacyKept, ReadyLocal, LocalKept
  <2>2. Reviewed'
    BY <1>11, <1>10, <1>12 DEF Reviewed, LocalData
  <2>3. disk.staged = None /\ (token.action = "reset" => disk.dir = "whole")
    BY <1>3 DEF Creating, ReadyLegacy, LegacyKept, ReadyLocal, LocalKept
  <2>4. pc' = "erase"
    BY <1>12, <1>16 DEF FirstStep
  <2>5. Initialized'
    BY <2>4 DEF Initialized
  <2>6. Erased'
    BY <2>1, <2>2, <2>3, <2>4, <2>5, <1>7, <1>10, <1>12, <1>13, <1>16
       DEF Erased, Pending, Outside, Inside
  <2>7. QED
    BY <2>4, <2>6, <1>2, <1>10, <1>12 DEF OperationsIInv, Types, Condition, Alone, TokenFits, Steps
<1>17. QED
  BY <1>1, <1>14, <1>15, <1>16 DEF OperationKinds


-----------------------------------------------------------------------------
(* The durable steps of a migration.                                       *)

\* What a store holds is a set of items.
LEMMA ContentsAreItems == \A s \in Stores : Contents(s) \subseteq Items
  BY DEF Stores, Contents

LEMMA CopyIsDatabase ==
    ASSUME OperationsIInv, Migrating PROVE Copy \in Databases /\ Copy # None
<1>1. entry.op \in Operations
  BY DEF Migrating, Pending, OperationsIInv, Types, Entries
<1>2. entry.op.newGen \in Generations /\ Contents(entry.op.review.rows) \in SUBSET Items
  BY <1>1, ContentsAreItems DEF Operations, Snapshots
<1>3. QED
  BY <1>2, NoneIsNothing DEF Copy, Databases

LEMMA StageIInv == ASSUME OperationsIInv, Stage PROVE OperationsIInv'
<1>1. Migrating /\ disk \in Disks /\ pc = "stage"
  BY StepTells DEF Stage, OnDisk, Step, MigrateSteps, OperationsIInv, Types
<1>2. CASE disk.local = None
  <2>1. PICK d : d = [disk EXCEPT !.staged = Copy]
    OBVIOUS
  <2>2. OnDisk("stage", "publish", d)
    BY <1>1, <1>2, <2>1 DEF Stage, Copy, op, Migrating
  <2>3. /\ d \in Disks /\ d.staged = Copy /\ d.local = None
        /\ d.dir = disk.dir /\ d.archive = disk.archive /\ d.root = disk.root /\ d.rows = disk.rows
    BY <1>1, <1>2, <2>1, CopyIsDatabase DEF Disks
  <2>4. Migrating'
    BY <1>1, <2>2, <2>3
       DEF OnDisk, Step, Migrating, Pending, LegacyKept, Copy, Archive, RootOwned
  <2>5. QED
    BY <2>2, <2>3, <2>4, OnDiskIInv DEF Condition, Steps
<1>3. CASE disk.local # None
  <2>1. disk.local = Copy /\ OnDisk("stage", "copy_files", disk)
    BY <1>3 DEF Stage, Copy, op
  <2>2. disk.staged = None
    BY <1>1, <1>3 DEF Migrating
  <2>3. Migrating'
    BY <1>1, <2>1, <2>2
       DEF OnDisk, Step, Migrating, Pending, LegacyKept, Copy, Archive, RootOwned
  <2>4. QED
    BY <1>1, <2>1, <2>3, OnDiskIInv DEF Condition, Steps
<1>4. QED
  BY <1>2, <1>3

\* The database is published as a whole.
LEMMA PublishIInv == ASSUME OperationsIInv, Publish PROVE OperationsIInv'
<1>1. Migrating /\ disk \in Disks /\ pc = "publish" /\ disk.staged = Copy
  BY StepTells DEF Publish, OnDisk, Step, MigrateSteps, OperationsIInv, Types, Migrating
<1>2. PICK d : d = [disk EXCEPT !.local = disk.staged, !.staged = None]
  OBVIOUS
<1>3. OnDisk("publish", "copy_files", d)
  BY <1>2 DEF Publish
<1>4. /\ d \in Disks /\ d.staged = None /\ d.local = Copy
      /\ d.dir = disk.dir /\ d.archive = disk.archive /\ d.root = disk.root /\ d.rows = disk.rows
  BY <1>1, <1>2, CopyIsDatabase DEF Disks, Databases
<1>5. Migrating'
  BY <1>1, <1>3, <1>4
     DEF OnDisk, Step, Migrating, Pending, LegacyKept, Copy, Archive, RootOwned
<1>6. QED
  BY <1>3, <1>4, <1>5, OnDiskIInv DEF Condition, Steps

\* The root archive is copied, not moved.
LEMMA CopyFilesIInv == ASSUME OperationsIInv, CopyFiles PROVE OperationsIInv'
<1>1. Migrating /\ disk \in Disks /\ pc = "copy_files" /\ disk.local = Copy
  BY StepTells DEF CopyFiles, MigrateSteps, OperationsIInv, Types, Migrating
<1>2. CASE origin = "default"
  <2>1. disk.root # None
    BY <1>1, <1>2 DEF Migrating, LegacyKept
  <2>2. PICK d : d = [disk EXCEPT !.archive = disk.root]
    OBVIOUS
  <2>3. OnDisk("copy_files", "adopt", d)
    BY <1>1, <1>2, <2>1, <2>2 DEF CopyFiles, RootOwned, op, Migrating
  <2>4. /\ d \in Disks /\ d.staged = disk.staged /\ d.local = disk.local
        /\ d.dir = disk.dir /\ d.archive = disk.root /\ d.root = disk.root /\ d.rows = disk.rows
    BY <1>1, <2>2 DEF Disks
  <2>5. Migrating'
    BY <1>1, <1>2, <2>3, <2>4
       DEF OnDisk, Step, Migrating, Pending, LegacyKept, Copy, Archive, RootOwned
  <2>6. QED
    BY <2>3, <2>4, <2>5, OnDiskIInv DEF Condition, Steps
<1>3. CASE origin # "default"
  <2>1. OnDisk("copy_files", "adopt", disk)
    BY <1>3 DEF CopyFiles, RootOwned
  <2>2. Migrating'
    BY <1>1, <1>3, <2>1
       DEF OnDisk, Step, Migrating, Pending, LegacyKept, Copy, Archive, RootOwned
  <2>3. QED
    BY <1>1, <2>1, <2>2, OnDiskIInv DEF Condition, Steps
<1>4. QED
  BY <1>2, <1>3

\* Only a complete copy is adopted, and where it came from is remembered.
LEMMA AdoptIInv == ASSUME OperationsIInv, Adopt PROVE OperationsIInv'
<1>1. /\ Migrating /\ disk \in Disks /\ pc = "adopt" /\ disk.local = Copy /\ entry \in Entries
      /\ open = {} /\ entry.op \in Operations
  BY StepTells, InsideAlone
     DEF Adopt, OnEntry, MigrateSteps, OperationsIInv, Types, Migrating, Pending, Entries
<1>2. PICK s : s = [rows |-> entry.op.review.rows, root |-> entry.op.review.root]
  OBVIOUS
<1>3. s \in Sources /\ s # None
  BY <1>1, <1>2, NoneIsNothing DEF Sources, Operations, Snapshots
<1>4. PICK e : e = [entry EXCEPT !.layout = "local", !.status = "ready", !.gen = entry.op.newGen,
                                 !.source = s, !.op = None]
  OBVIOUS
<1>5. OnEntry("adopt", "idle", e)
  BY <1>2, <1>4 DEF Adopt, op
<1>6. /\ e \in Entries /\ e.layout = "local" /\ e.status = "ready" /\ e.gen = entry.op.newGen
      /\ e.source = s /\ e.op = None /\ e.present = entry.present
  BY <1>1, <1>3, <1>4 DEF Entries, Layouts, Operations
<1>7. Copy # None /\ Copy.gen = entry.op.newGen /\ Copy.data = Contents(entry.op.review.rows)
  BY <1>1, CopyIsDatabase DEF Copy
<1>8. disk.archive = None => origin = "legacy" /\ disk.local.data = {}
  BY <1>1, <1>7 DEF Migrating, LegacyKept, Archive, RootOwned, Contents
<1>9. disk.staged = None
  BY <1>1, <1>7 DEF Migrating
<1>10. entry' = e /\ disk' = disk /\ origin' = origin /\ pc' = "idle"
  BY <1>5 DEF OnEntry, Save
<1>11. LocalKept'
  BY <1>1, <1>6, <1>7, <1>8, <1>9, <1>10 DEF LocalKept, Migrating, LegacyKept
<1>12. Settled'
  BY <1>1, <1>6, <1>10 DEF Settled, Migrating, Pending
<1>13. disk.rows = s.rows /\ disk.root = s.root
  BY <1>1, <1>2 DEF Migrating
<1>14. ReadyLocal'
  BY <1>3, <1>6, <1>10, <1>11, <1>12, <1>13 DEF ReadyLocal
<1>15. QED
  BY <1>1, <1>5, <1>6, <1>14, OnEntryIInv DEF Condition, Steps


-----------------------------------------------------------------------------
(* What is outside the owned directory goes first.                         *)

\* A part of the disk goes that the condition does not need: a store is dropped,
\* or the index, and the step after it is taken.
LEMMA CleaningDrops ==
    ASSUME OperationsIInv, Cleaning, NEW from, NEW to, NEW d \in Disks, OnDisk(from, to, d),
           d.dir = disk.dir, d.archive = disk.archive, d.local = disk.local,
           d.staged = disk.staged, d.root \in {None, disk.root}, d.rows \in {None, disk.rows},
           d.index => disk.index,
           to \in {"clean_rows", "clean_retained", "clean_index", "cleaned"},
           to # "clean_rows" => d.rows = None,
           to \in {"clean_index", "cleaned"} => d.root = None,
           to = "cleaned" => ~d.index
    PROVE  Cleaning'
  BY DEF OnDisk, Step, Cleaning, Pending, LocalKept

LEMMA ErasedDrops ==
    ASSUME OperationsIInv, Erased, NEW from, NEW to, NEW d \in Disks, OnDisk(from, to, d),
           d.dir = disk.dir, d.archive = disk.archive, d.local = disk.local,
           d.staged = disk.staged, d.root \in {None, disk.root}, d.rows \in {None, disk.rows},
           d.index => disk.index,
           to \in {"clean_rows", "clean_retained", "clean_index", "clean_root", "phase"},
           to # "clean_rows" => d.rows = None,
           to \in {"clean_index", "clean_root"} /\ entry.op.source # None => d.root = None,
           to = "clean_root" => ~d.index,
           to = "phase" => d.root = None /\ ~d.index
    PROVE  Erased'
<1>1. /\ entry' = entry /\ disk' = d /\ pc' = to /\ origin' = origin
  BY DEF OnDisk, Step
<1>2. Clean => d.rows = None /\ d.root = None /\ ~d.index
  BY DEF Clean
<1>3. OutsideOwned'
  BY <1>1, <1>2 DEF Erased, OutsideOwned, Clean
<1>4. Contents(d.root) \subseteq Contents(disk.root)
  BY DEF Contents
<1>5. Reviewed'
  BY <1>1, <1>4 DEF Erased, Reviewed, LocalData
<1>6. Initialized'
  BY <1>1 DEF Initialized
<1>7. Erased'
  BY <1>1, <1>2, <1>3, <1>5, <1>6 DEF Erased, Pending, Clean, Outside, Inside
<1>8. QED
  BY <1>7

LEMMA VerifyLocalIInv == ASSUME OperationsIInv, VerifyLocal PROVE OperationsIInv'
<1>1. Cleaning /\ disk \in Disks /\ OnDisk("verify_local", "clean_rows", disk)
  BY StepTells DEF VerifyLocal, CleanupSteps, OperationsIInv, Types
<1>2. Cleaning'
  BY <1>1, CleaningDrops
<1>3. QED
  BY <1>1, <1>2, OnDiskIInv DEF Condition, Steps

LEMMA EraseIInv == ASSUME OperationsIInv, Erase PROVE OperationsIInv'
<1>1. Erased /\ disk \in Disks /\ OnDisk("erase", "clean_rows", disk)
  BY StepTells DEF Erase, EraseSteps, OperationsIInv, Types
<1>2. Erased'
  BY <1>1, ErasedDrops
<1>3. QED
  BY <1>1, <1>2, OnDiskIInv DEF Condition, Steps

\* A character without a source and without the shared database has no rows there.
LEMMA CleanRowsIInv == ASSUME OperationsIInv, CleanRows PROVE OperationsIInv'
<1>1. (Cleaning \/ Erased) /\ disk \in Disks /\ pc = "clean_rows"
  BY StepTells DEF CleanRows, CleanSteps, OperationsIInv, Types
<1>2. entry.op.layout \in Layouts
  BY <1>1 DEF Cleaning, Erased, Pending, OperationsIInv, Types, Entries, Operations
<1>3. PICK d : d = IF op.source # None \/ op.layout = "legacy_shared"
                   THEN [disk EXCEPT !.rows = None] ELSE disk
  OBVIOUS
<1>4. OnDisk("clean_rows", "clean_retained", d)
  BY <1>3 DEF CleanRows
<1>5. d.rows = None
  BY <1>1, <1>2, <1>3 DEF Cleaning, Erased, OutsideOwned, Clean, Layouts, op, Disks
<1>6. /\ d \in Disks /\ d.dir = disk.dir /\ d.archive = disk.archive /\ d.local = disk.local
      /\ d.staged = disk.staged /\ d.root = disk.root /\ d.index = disk.index
  BY <1>1, <1>3 DEF Disks, Stores
<1>7. (Cleaning => Cleaning') /\ (Erased => Erased')
  BY <1>4, <1>5, <1>6, CleaningDrops, ErasedDrops
<1>8. QED
  BY <1>1, <1>4, <1>6, <1>7, OnDiskIInv DEF Condition, Steps

LEMMA CleanRetainedIInv == ASSUME OperationsIInv, CleanRetained PROVE OperationsIInv'
<1>1. /\ (Cleaning \/ Erased) /\ disk \in Disks /\ pc = "clean_retained"
      /\ disk.rows = None
  BY StepTells DEF CleanRetained, CleanSteps, OperationsIInv, Types, Cleaning, Erased
<1>2. PICK d : d = IF op.source # None /\ op.source.root # None
                   THEN [disk EXCEPT !.root = None] ELSE disk
  OBVIOUS
<1>3. OnDisk("clean_retained", "clean_index", d)
  BY <1>2 DEF CleanRetained
<1>4. entry.op.source # None => d.root = None
  BY <1>1, <1>2 DEF Cleaning, Erased, OutsideOwned, op, Disks
<1>5. /\ d \in Disks /\ d.dir = disk.dir /\ d.archive = disk.archive /\ d.local = disk.local
      /\ d.staged = disk.staged /\ d.rows = disk.rows /\ d.index = disk.index
      /\ d.root \in {None, disk.root}
  BY <1>1, <1>2 DEF Disks, Stores
<1>6. Cleaning => entry.op.source # None
  BY DEF Cleaning
<1>7. (Cleaning => Cleaning') /\ (Erased => Erased')
  BY <1>1, <1>3, <1>4, <1>5, <1>6, CleaningDrops, ErasedDrops
<1>8. QED
  BY <1>1, <1>3, <1>5, <1>7, OnDiskIInv DEF Condition, Steps

LEMMA CleanIndexIInv == ASSUME OperationsIInv, CleanIndex PROVE OperationsIInv'
<1>1. PICK d : d = [disk EXCEPT !.index = FALSE]
  OBVIOUS
<1>2. PICK to : to = IF entry.op.kind = "cleanup" THEN "cleaned" ELSE "clean_root"
  OBVIOUS
<1>3. OnDisk("clean_index", to, d)
  BY <1>1, <1>2 DEF CleanIndex, op
<1>4. /\ (Cleaning \/ Erased) /\ disk \in Disks /\ pc = "clean_index"
      /\ disk.rows = None /\ (Cleaning => disk.root = None)
      /\ entry.op.source # None => disk.root = None
  BY <1>3, StepTells DEF OnDisk, Step, CleanSteps, OperationsIInv, Types, Cleaning, Erased
<1>5. /\ d \in Disks /\ d.dir = disk.dir /\ d.archive = disk.archive /\ d.local = disk.local
      /\ d.staged = disk.staged /\ d.rows = disk.rows /\ ~d.index /\ d.root = disk.root
  BY <1>1, <1>4 DEF Disks
<1>6. (Cleaning => to = "cleaned") /\ (Erased => to = "clean_root")
  BY <1>2 DEF Cleaning, Erased, Pending
<1>7. Cleaning => Cleaning'
  BY <1>3, <1>4, <1>5, <1>6, CleaningDrops
<1>8. Erased => Erased'
  BY <1>3, <1>4, <1>5, <1>6, ErasedDrops
<1>9. QED
  BY <1>3, <1>4, <1>5, <1>6, <1>7, <1>8, OnDiskIInv DEF Condition, Steps

\* The cleanup ends with nothing left of the source.
LEMMA CleanedIInv == ASSUME OperationsIInv, Cleaned PROVE OperationsIInv'
<1>1. PICK e : e = [entry EXCEPT !.source = None, !.op = None, !.status = "ready"]
  OBVIOUS
<1>2. OnEntry("cleaned", "idle", e)
  BY <1>1 DEF Cleaned
<1>3. /\ Cleaning /\ pc = "cleaned" /\ entry \in Entries /\ open = {}
      /\ disk.rows = None /\ disk.root = None /\ ~disk.index
  BY <1>2, StepTells, InsideAlone DEF OnEntry, CleanupSteps, OperationsIInv, Types, Cleaning
<1>4. /\ e \in Entries /\ e.source = None /\ e.op = None /\ e.status = "ready"
      /\ e.present = entry.present /\ e.layout = entry.layout /\ e.gen = entry.gen
  BY <1>1, <1>3 DEF Entries, Sources
<1>5. ReadyLocal'
  BY <1>2, <1>3, <1>4
     DEF OnEntry, Save, Cleaning, Pending, LocalKept, ReadyLocal, Settled, Clean
<1>6. QED
  BY <1>2, <1>3, <1>4, <1>5, OnEntryIInv DEF Condition, Steps

LEMMA CleanRootIInv == ASSUME OperationsIInv, CleanRoot PROVE OperationsIInv'
<1>1. PICK d : d = IF RootOwned(entry.op.layout) THEN [disk EXCEPT !.root = None] ELSE disk
  OBVIOUS
<1>2. OnDisk("clean_root", "phase", d)
  BY <1>1 DEF CleanRoot, op
<1>3. /\ Erased /\ disk \in Disks /\ disk.rows = None /\ ~disk.index
      /\ entry.op.source # None => disk.root = None
  BY <1>2, StepTells DEF OnDisk, Step, EraseSteps, OperationsIInv, Types, Erased
<1>4. entry.op.layout \in Layouts
  BY <1>3 DEF Erased, Pending, OperationsIInv, Types, Entries, Operations
<1>5. /\ d \in Disks /\ d.dir = disk.dir /\ d.archive = disk.archive /\ d.local = disk.local
      /\ d.staged = disk.staged /\ d.rows = disk.rows /\ d.index = disk.index
      /\ d.root \in {None, disk.root}
  BY <1>1, <1>3 DEF Disks, Stores
<1>6. d.root = None
  <2>1. CASE RootOwned(entry.op.layout)
    BY <2>1, <1>1, <1>3 DEF Disks
  <2>2. CASE ~RootOwned(entry.op.layout)
    BY <2>2, <1>1, <1>3, <1>4 DEF RootOwned, Layouts, Erased, OutsideOwned, Clean
  <2>3. QED
    BY <2>1, <2>2
<1>7. Erased'
  BY <1>2, <1>3, <1>5, <1>6, ErasedDrops
<1>8. QED
  BY <1>2, <1>5, <1>7, OnDiskIInv DEF Condition, Steps


-----------------------------------------------------------------------------
(* What is inside the owned directory goes after it.                       *)

LEMMA InsideSteps ==
    /\ Inside["reset"] = {"unlink", "epoch", "init_archive", "init_database", "stamp", "finish"}
    /\ Inside["delete"] = {"rmtree", "forget"}
  BY DEF Inside

\* The step tells what is erased: all of the character, or what it remembers.
LEMMA InsideTells ==
    ASSUME Erased
    PROVE  /\ entry.op.kind \in {"reset", "delete"}
           /\ pc \in {"rmtree", "forget"} => entry.op.kind = "delete" /\ Clean
           /\ pc \in {"unlink", "epoch"} => entry.op.kind = "reset" /\ Clean
           /\ pc \in InitSteps /\ entry.op.kind = "reset" => Clean
           /\ pc = "phase" => Clean
<1>1. entry.op.kind \in {"reset", "delete"}
  BY DEF Erased, Pending
<1>2. CASE entry.op.kind = "reset"
  BY <1>2, InsideSteps DEF Erased, Outside, InitSteps
<1>3. CASE entry.op.kind = "delete"
  BY <1>3, InsideSteps DEF Erased, Outside, InitSteps
<1>4. QED
  BY <1>1, <1>2, <1>3

\* The journal says that the directory is next.
LEMMA PhaseIInv == ASSUME OperationsIInv, Phase PROVE OperationsIInv'
<1>1. /\ Erased /\ pc = "phase" /\ Clean /\ entry \in Entries /\ open = {}
      /\ entry.op \in Operations /\ entry.op # None
  BY StepTells, InsideAlone DEF Phase, EraseSteps, OperationsIInv, Types, Erased, Pending, Entries
<1>2. PICK p \in {"deleting_files", "resetting_files"}, to \in {"rmtree", "unlink"} :
        /\ OnEntry("phase", to, [entry EXCEPT !.op.phase = p])
        /\ entry.op.kind = "reset" => p = "resetting_files" /\ to = "unlink"
        /\ entry.op.kind # "reset" => p = "deleting_files" /\ to = "rmtree"
  BY DEF Phase, op
<1>3. PICK o : o = [entry.op EXCEPT !.phase = p]
  OBVIOUS
<1>4. /\ o \in Operations /\ o.kind = entry.op.kind /\ o.phase = p /\ o.newGen = entry.op.newGen
      /\ o.layout = entry.op.layout /\ o.source = entry.op.source /\ o.review = entry.op.review
  BY <1>1, <1>3 DEF Operations
<1>5. o # None
  BY <1>4, NoneIsNothing
<1>6. PICK e : e = [entry EXCEPT !.op = o]
  OBVIOUS
<1>7. OnEntry("phase", to, e)
  BY <1>1, <1>2, <1>3, <1>6 DEF Entries
<1>8. /\ e \in Entries /\ e.present = entry.present /\ e.layout = entry.layout
      /\ e.status = entry.status /\ e.gen = entry.gen /\ e.source = entry.source /\ e.op = o
  BY <1>1, <1>4, <1>6 DEF Entries
<1>9. entry' = e /\ disk' = disk /\ origin' = origin /\ pc' = to
  BY <1>7 DEF OnEntry, Save
<1>10. OutsideOwned' /\ Reviewed' /\ Initialized'
  BY <1>1, <1>4, <1>8, <1>9 DEF Erased, OutsideOwned, Clean, Reviewed, Initialized
<1>11. Erased'
  <2>1. CASE entry.op.kind = "reset"
    BY <2>1, <1>1, <1>2, <1>4, <1>5, <1>8, <1>9, <1>10, InsideSteps DEF Erased, Pending, Clean
  <2>2. CASE entry.op.kind = "delete"
    BY <2>2, <1>1, <1>2, <1>4, <1>5, <1>8, <1>9, <1>10, InsideSteps DEF Erased, Pending, Clean
  <2>3. QED
    BY <2>1, <2>2, <1>1, InsideTells
<1>12. QED
  BY <1>1, <1>7, <1>8, <1>11, OnEntryIInv DEF Condition, Steps

\* Files of the owned directory go, in any order.
LEMMA ErasedEmpties ==
    ASSUME OperationsIInv, Erased, Clean, NEW from, NEW to, NEW d \in Disks, OnDisk(from, to, d),
           d.archive \in {None, disk.archive}, d.local \in {None, disk.local},
           d.staged = None, d.root = disk.root, d.rows = disk.rows, d.index = disk.index,
           entry.op.kind = "reset" => to \in {"unlink", "epoch"} /\ d.dir = disk.dir,
           entry.op.kind = "delete" => to \in {"rmtree", "forget"},
           to = "forget" => d = EmptyDisk,
           to = "epoch" => d.archive = None /\ d.local = None
    PROVE  Erased'
<1>1. /\ entry' = entry /\ disk' = d /\ pc' = to /\ origin' = origin
  BY DEF OnDisk, Step
<1>2. d.rows = None /\ d.root = None /\ ~d.index
  BY DEF Clean
<1>3. OutsideOwned'
  BY <1>1, <1>2 DEF Erased, OutsideOwned, Clean
<1>4. Contents(d.archive) \subseteq Contents(disk.archive) /\ LocalData(d) \subseteq LocalData(disk)
  BY DEF Contents, LocalData
<1>5. Reviewed'
  BY <1>1, <1>4 DEF Erased, Reviewed, LocalData
<1>6. to \in {"unlink", "epoch", "rmtree", "forget"}
  BY DEF Erased, Pending
<1>7. Initialized'
  BY <1>1, <1>6 DEF Initialized
<1>8. Erased'
  BY <1>1, <1>2, <1>3, <1>5, <1>6, <1>7 DEF Erased, Pending, Clean, Outside, Inside
<1>9. QED
  BY <1>8

LEMMA RemoveTreeIInv == ASSUME OperationsIInv, RemoveTree PROVE OperationsIInv'
<1>1. /\ Erased /\ disk \in Disks /\ Clean /\ disk.staged = None /\ entry.op.kind = "delete"
  BY StepTells, InsideTells DEF RemoveTree, OnDisk, Step, EraseSteps, OperationsIInv, Types, Erased
<1>2. CASE \E d \in {[disk EXCEPT !.dir = "bare"], [disk EXCEPT !.archive = None],
                     [disk EXCEPT !.local = None]} : OnDisk("rmtree", "rmtree", d)
  <2>1. PICK d \in {[disk EXCEPT !.dir = "bare"], [disk EXCEPT !.archive = None],
                    [disk EXCEPT !.local = None]} : OnDisk("rmtree", "rmtree", d)
    BY <1>2
  <2>2. /\ d \in Disks /\ d.archive \in {None, disk.archive} /\ d.local \in {None, disk.local}
        /\ d.staged = None /\ d.root = disk.root /\ d.rows = disk.rows /\ d.index = disk.index
    BY <1>1 DEF Disks, Stores, Databases
  <2>3. Erased'
    BY <1>1, <2>1, <2>2, ErasedEmpties
  <2>4. QED
    BY <2>1, <2>2, <2>3, OnDiskIInv DEF Condition, Steps
<1>3. CASE OnDisk("rmtree", "forget",
                  [disk EXCEPT !.dir = "missing", !.archive = None, !.local = None, !.staged = None])
  <2>1. PICK d : d = [disk EXCEPT !.dir = "missing", !.archive = None, !.local = None,
                                  !.staged = None]
    OBVIOUS
  <2>2. d = EmptyDisk
    BY <1>1, <2>1 DEF Disks, EmptyDisk, Clean
  <2>3. /\ d \in Disks /\ d.archive = None /\ d.local = None
        /\ d.staged = None /\ d.root = disk.root /\ d.rows = disk.rows /\ d.index = disk.index
    BY <1>1, <2>1 DEF Disks, Stores, Databases
  <2>4. Erased'
    BY <1>1, <1>3, <2>1, <2>2, <2>3, ErasedEmpties
  <2>5. QED
    BY <1>3, <2>1, <2>3, <2>4, OnDiskIInv DEF Condition, Steps
<1>4. QED
  BY <1>2, <1>3 DEF RemoveTree

LEMMA ForgetIInv == ASSUME OperationsIInv, Forget PROVE OperationsIInv'
<1>1. PICK e : e = [Absent EXCEPT !.gen = entry.gen]
  OBVIOUS
<1>2. OnEntry("forget", "idle", e)
  BY <1>1 DEF Forget
<1>3. disk = EmptyDisk /\ open = {} /\ entry.gen \in Generations
  BY <1>2, StepTells, InsideAlone
     DEF OnEntry, EraseSteps, OperationsIInv, Types, Erased, Entries
<1>4. e \in Entries /\ e.gen = entry.gen
  BY <1>1, <1>3 DEF Absent, Entries, Layouts, Sources
<1>5. NoCharacter'
  BY <1>1, <1>2, <1>3, <1>4 DEF OnEntry, Save, NoCharacter
<1>6. QED
  BY <1>2, <1>3, <1>4, <1>5, OnEntryIInv DEF Condition, Steps

LEMMA UnlinkIInv == ASSUME OperationsIInv, Unlink PROVE OperationsIInv'
<1>1. /\ Erased /\ disk \in Disks /\ Clean /\ disk.staged = None /\ entry.op.kind = "reset"
  BY StepTells, InsideTells DEF Unlink, OnDisk, Step, EraseSteps, OperationsIInv, Types, Erased
<1>2. CASE \E d \in {[disk EXCEPT !.archive = None], [disk EXCEPT !.local = None]} :
              OnDisk("unlink", "unlink", d)
  <2>1. PICK d \in {[disk EXCEPT !.archive = None], [disk EXCEPT !.local = None]} :
               OnDisk("unlink", "unlink", d)
    BY <1>2
  <2>2. /\ d \in Disks /\ d.archive \in {None, disk.archive} /\ d.local \in {None, disk.local}
        /\ d.staged = None /\ d.root = disk.root /\ d.rows = disk.rows /\ d.index = disk.index
        /\ d.dir = disk.dir
    BY <1>1 DEF Disks, Stores, Databases
  <2>3. Erased'
    BY <1>1, <2>1, <2>2, ErasedEmpties
  <2>4. QED
    BY <2>1, <2>2, <2>3, OnDiskIInv DEF Condition, Steps
<1>3. CASE /\ disk.archive = None /\ disk.local = None
           /\ OnDisk("unlink", "epoch", [disk EXCEPT !.staged = None])
  <2>1. PICK d : d = [disk EXCEPT !.staged = None]
    OBVIOUS
  <2>2. /\ d \in Disks /\ d.archive = disk.archive /\ d.local = disk.local
        /\ d.staged = None /\ d.root = disk.root /\ d.rows = disk.rows /\ d.index = disk.index
        /\ d.dir = disk.dir
    BY <1>1, <2>1 DEF Disks, Databases
  <2>3. Erased'
    BY <1>1, <1>3, <2>1, <2>2, ErasedEmpties
  <2>4. QED
    BY <1>3, <2>1, <2>2, <2>3, OnDiskIInv DEF Condition, Steps
<1>4. QED
  BY <1>2, <1>3 DEF Unlink

\* The new timeline is named before it is filled.
LEMMA EpochIInv == ASSUME OperationsIInv, Epoch PROVE OperationsIInv'
<1>1. PICK e : e = [entry EXCEPT !.layout = "local", !.status = "incomplete",
                                 !.gen = entry.op.newGen, !.source = None]
  OBVIOUS
<1>2. OnEntry("epoch", "init_archive", e)
  BY <1>1 DEF Epoch, op
<1>3. /\ Erased /\ pc = "epoch" /\ Clean /\ entry \in Entries /\ open = {}
      /\ entry.op.kind = "reset" /\ disk.dir = "whole" /\ disk.archive = None /\ disk.local = None
  BY <1>2, StepTells, InsideAlone, InsideTells DEF OnEntry, EraseSteps, OperationsIInv, Types, Erased
<1>4. entry.op.newGen \in Generations
  BY <1>3 DEF Erased, Pending, Entries, Operations
<1>5. /\ e \in Entries /\ e.present = entry.present /\ e.layout = "local"
      /\ e.status = "incomplete" /\ e.gen = entry.op.newGen /\ e.source = None /\ e.op = entry.op
  BY <1>1, <1>3, <1>4 DEF Entries, Layouts, Sources
<1>6. entry' = e /\ disk' = disk /\ origin' = origin /\ pc' = "init_archive"
  BY <1>2 DEF OnEntry, Save
<1>7. OutsideOwned' /\ Reviewed'
  BY <1>3, <1>5, <1>6 DEF Erased, OutsideOwned, Clean, Reviewed
<1>8. Initialized'
  BY <1>3, <1>5, <1>6 DEF Initialized
<1>9. Erased'
  <2>1. entry'.op.newGen >= entry'.gen
    BY <1>4, <1>5, <1>6, NoneIsNothing DEF Generations
  <2>2. Pending({"reset", "delete"})' /\ Clean' /\ disk'.staged = None
    BY <1>3, <1>5, <1>6 DEF Erased, Pending, Clean
  <2>3. /\ entry'.op.phase \in IF entry'.op.kind = "reset" THEN {"prepared", "resetting_files"}
                               ELSE {"prepared", "deleting_files"}
        /\ pc' \in {"idle"} \cup Outside \cup Inside[entry'.op.kind]
    BY <1>3, <1>5, <1>6, InsideSteps DEF Erased
  <2>4. QED
    BY <1>3, <1>5, <1>6, <1>7, <1>8, <2>1, <2>2, <2>3, Zenon DEF Erased
<1>10. QED
  BY <1>2, <1>3, <1>5, <1>9, OnEntryIInv DEF Condition, Steps


-----------------------------------------------------------------------------
(* A new timeline, of a character created or reset.                        *)

\* What initialize_empty_continuity adds holds nothing.
LEMMA InitializationGoesOn ==
    ASSUME OperationsIInv, NEW from \in InitSteps, NEW to \in InitSteps, NEW d \in Disks, OnDisk(from, to, d),
           d.dir = disk.dir, d.root = disk.root, d.rows = disk.rows, d.index = disk.index,
           d.staged = disk.staged, Contents(d.archive) = {}, LocalData(d) = {},
           to \in {"init_archive", "init_database"} => d.local = None,
           to = "init_archive" => d.archive = None,
           to \in {"init_database", "stamp", "finish"} => d.archive = {},
           to = "stamp" => d.local = EmptyDatabase(0),
           to = "finish" => d.local = EmptyDatabase(entry.gen)
    PROVE  OperationsIInv'
<1>1. /\ entry' = entry /\ disk' = d /\ pc = from /\ pc' = to /\ origin' = origin
  BY DEF OnDisk, Step
<1>2. Initialized'
  BY <1>1, StepTells DEF InitSteps, Creating, Erased, Initialized
<1>3. CASE Creating
  <2>1. Creating'
    BY <1>1, <1>2, <1>3 DEF InitSteps, Creating, Clean
  <2>2. QED
    BY <2>1, OnDiskIInv DEF Condition, Steps, InitSteps
<1>4. CASE Erased /\ entry.op.kind = "reset"
  <2>1. Clean
    BY <1>1, <1>4, InsideTells
  <2>2. OutsideOwned' /\ Clean'
    BY <1>1, <1>4, <2>1 DEF Erased, OutsideOwned, Clean
  <2>3. Reviewed'
    BY <1>1, <1>4 DEF Erased, Reviewed, LocalData
  <2>4. Erased'
    BY <1>1, <1>2, <1>4, <2>2, <2>3, InsideSteps DEF Erased, Pending, InitSteps
  <2>5. QED
    BY <2>4, OnDiskIInv DEF Condition, Steps, InitSteps
<1>5. QED
  BY <1>1, <1>3, <1>4, StepTells

LEMMA InitArchiveIInv == ASSUME OperationsIInv, InitArchive PROVE OperationsIInv'
<1>1. PICK d : d = [disk EXCEPT !.archive = {}]
  OBVIOUS
<1>2. OnDisk("init_archive", "init_database", d) /\ disk.local = None
  BY <1>1 DEF InitArchive
<1>3. disk \in Disks /\ {} \in Stores /\ {} # None
  BY NoneIsNothing DEF OperationsIInv, Types, Stores
<1>4. /\ d \in Disks /\ d.dir = disk.dir /\ d.root = disk.root /\ d.rows = disk.rows
      /\ d.index = disk.index /\ d.staged = disk.staged /\ d.local = disk.local /\ d.archive = {}
  BY <1>1, <1>3 DEF Disks
<1>5. Contents(d.archive) = {} /\ LocalData(d) = {}
  BY <1>2, <1>4 DEF Contents, LocalData
<1>6. "init_archive" \in InitSteps /\ "init_database" \in InitSteps
  BY DEF InitSteps
<1>7. QED
  BY <1>2, <1>4, <1>5, <1>6, InitializationGoesOn

LEMMA EmptyIsDatabase ==
    \A g \in Generations : /\ EmptyDatabase(g) \in Databases /\ EmptyDatabase(g) # None
                           /\ EmptyDatabase(g).gen = g /\ EmptyDatabase(g).data = {}
  BY NoneIsNothing DEF EmptyDatabase, Databases

LEMMA InitDatabaseIInv == ASSUME OperationsIInv, InitDatabase PROVE OperationsIInv'
<1>1. PICK d : d = [disk EXCEPT !.local = EmptyDatabase(0)]
  OBVIOUS
<1>2. OnDisk("init_database", "stamp", d)
  BY <1>1 DEF InitDatabase, EmptyDatabase
<1>3. disk \in Disks /\ disk.archive = {} /\ {} # None /\ 0 \in Generations
  BY <1>2, StepTells, NoneIsNothing
     DEF OnDisk, Step, InitSteps, OperationsIInv, Types, Creating, Erased, Initialized, Generations
<1>4. /\ d \in Disks /\ d.dir = disk.dir /\ d.root = disk.root /\ d.rows = disk.rows
      /\ d.index = disk.index /\ d.staged = disk.staged /\ d.archive = {}
      /\ d.local = EmptyDatabase(0)
  BY <1>1, <1>3, EmptyIsDatabase DEF Disks
<1>5. Contents(d.archive) = {} /\ LocalData(d) = {}
  BY <1>3, <1>4, EmptyIsDatabase DEF Contents, LocalData
<1>6. "init_database" \in InitSteps /\ "stamp" \in InitSteps
  BY DEF InitSteps
<1>7. QED
  BY <1>2, <1>4, <1>5, <1>6, InitializationGoesOn

\* The database gets the generation of its timeline.
LEMMA StampIInv == ASSUME OperationsIInv, Stamp PROVE OperationsIInv'
<1>1. /\ disk \in Disks /\ disk.archive = {} /\ disk.local = EmptyDatabase(0) /\ {} # None
      /\ entry.gen \in Generations
  BY StepTells, NoneIsNothing
     DEF Stamp, OnDisk, Step, InitSteps, OperationsIInv, Types, Entries, Creating, Erased, Initialized
<1>2. PICK d : d = [disk EXCEPT !.local = EmptyDatabase(entry.gen)]
  OBVIOUS
<1>3. OnDisk("stamp", "finish", d)
  <2>1. [disk.local EXCEPT !.gen = entry.gen] = EmptyDatabase(entry.gen)
    BY <1>1 DEF EmptyDatabase
  <2>2. [disk EXCEPT !.local.gen = entry.gen] = [disk EXCEPT !.local = EmptyDatabase(entry.gen)]
    BY <1>1, <2>1 DEF Disks
  <2>3. QED
    BY <1>2, <2>2 DEF Stamp
<1>4. /\ d \in Disks /\ d.dir = disk.dir /\ d.root = disk.root /\ d.rows = disk.rows
      /\ d.index = disk.index /\ d.staged = disk.staged /\ d.archive = {}
      /\ d.local = EmptyDatabase(entry.gen)
  BY <1>1, <1>2, EmptyIsDatabase DEF Disks
<1>5. Contents(d.archive) = {} /\ LocalData(d) = {}
  BY <1>1, <1>4, EmptyIsDatabase DEF Contents, LocalData
<1>6. "stamp" \in InitSteps /\ "finish" \in InitSteps
  BY DEF InitSteps
<1>7. QED
  BY <1>3, <1>4, <1>5, <1>6, InitializationGoesOn

\* Ready means complete: the profile, the archive and the database are there.
LEMMA FinishIInv == ASSUME OperationsIInv, Finish PROVE OperationsIInv'
<1>1. PICK e : e = [entry EXCEPT !.op = None, !.status = "ready"]
  OBVIOUS
<1>2. OnEntry("finish", "idle", e)
  BY <1>1 DEF Finish
<1>3. /\ Clean /\ disk.staged = None /\ Initialized /\ entry.present /\ open = {}
      /\ pc = "finish" /\ entry \in Entries /\ disk.archive # None
  BY <1>2, StepTells, InsideAlone, InsideTells, NoneIsNothing
     DEF OnEntry, InitSteps, OperationsIInv, Types, Creating, Erased, Pending, Initialized
<1>4. /\ e \in Entries /\ e.present = entry.present /\ e.layout = entry.layout
      /\ e.status = "ready" /\ e.gen = entry.gen /\ e.source = entry.source /\ e.op = None
  BY <1>1, <1>3 DEF Entries
<1>5. /\ disk.dir = "whole" /\ entry.layout = "local" /\ entry.source = None
      /\ disk.local # None /\ disk.local.gen = entry.gen
  BY <1>3, EmptyIsDatabase DEF Initialized, Entries
<1>6. entry' = e /\ disk' = disk /\ origin' = origin /\ pc' = "idle"
  BY <1>2 DEF OnEntry, Save
<1>7. ReadyLocal'
  BY <1>3, <1>4, <1>5, <1>6 DEF ReadyLocal, Settled, LocalKept, Clean
<1>8. QED
  BY <1>2, <1>3, <1>4, <1>7, OnEntryIInv DEF Condition, Steps

\* A new identity, of a generation no earlier one had.
LEMMA CreateIInv == ASSUME OperationsIInv, NEW q \in BOOLEAN, Create(q) PROVE OperationsIInv'
<1>1. NoCharacter /\ entry \in Entries /\ open = {}
  BY DEF Create, OperationsIInv, Types, Alone, Condition, Creating, ReadyLegacy, ReadyLocal, Settled,
         Migrating, Cleaning, Erased, Pending
<1>2. PICK e : e = [Absent EXCEPT !.present = TRUE, !.status = "creating",
                                  !.gen = entry.gen + 1, !.request = q]
  OBVIOUS
<1>3. OnEntry("idle", "make_directory", e)
  BY <1>2 DEF Create
<1>4. entry.gen + 1 \in Generations
  BY <1>1, NoneIsNothing DEF Create, Entries, Generations
<1>5. /\ e \in Entries /\ e.present /\ e.op = None /\ e.status = "creating"
      /\ e.layout = "local" /\ e.source = None
  BY <1>2, <1>4 DEF Absent, Entries, Layouts, Sources
<1>6. entry' = e /\ disk' = EmptyDisk /\ pc' = "make_directory"
  BY <1>1, <1>3 DEF OnEntry, Save, NoCharacter
<1>7. Creating'
  BY <1>5, <1>6 DEF Creating, Clean, Initialized, EmptyDisk, Contents, LocalData
<1>8. QED
  BY <1>1, <1>3, <1>5, <1>7, OnEntryIInv DEF Condition, Steps

LEMMA MakeDirectoryIInv == ASSUME OperationsIInv, MakeDirectory PROVE OperationsIInv'
<1>1. PICK d : d = [disk EXCEPT !.dir = "bare"]
  OBVIOUS
<1>2. OnDisk("make_directory", "write_profile", d)
  BY <1>1 DEF MakeDirectory
<1>3. Creating /\ disk \in Disks /\ disk = EmptyDisk
  BY <1>2, StepTells DEF OnDisk, Step, CreateSteps, OperationsIInv, Types, Creating
<1>4. /\ d \in Disks /\ d.dir = "bare" /\ d.archive = None /\ d.local = None /\ d.root = disk.root
      /\ d.rows = disk.rows /\ d.index = disk.index /\ d.staged = disk.staged
  BY <1>1, <1>3 DEF Disks, EmptyDisk
<1>5. Creating'
  BY <1>2, <1>3, <1>4 DEF OnDisk, Step, Creating, Clean, Initialized, Contents, LocalData
<1>6. QED
  BY <1>2, <1>4, <1>5, OnDiskIInv DEF Condition, Steps

LEMMA WriteProfileIInv == ASSUME OperationsIInv, WriteProfile PROVE OperationsIInv'
<1>1. PICK d : d = [disk EXCEPT !.dir = "whole"]
  OBVIOUS
<1>2. OnDisk("write_profile", "init_archive", d)
  BY <1>1 DEF WriteProfile
<1>3. Creating /\ disk \in Disks /\ disk.archive = None /\ disk.local = None
  BY <1>2, StepTells DEF OnDisk, Step, CreateSteps, OperationsIInv, Types, Creating
<1>4. /\ d \in Disks /\ d.dir = "whole" /\ d.archive = None /\ d.local = None /\ d.root = disk.root
      /\ d.rows = disk.rows /\ d.index = disk.index /\ d.staged = disk.staged
  BY <1>1, <1>3 DEF Disks
<1>5. Creating'
  BY <1>2, <1>3, <1>4 DEF OnDisk, Step, Creating, Clean, Initialized, Contents, LocalData
<1>6. QED
  BY <1>2, <1>4, <1>5, OnDiskIInv DEF Condition, Steps

\* A creation that fails takes everything back.
LEMMA CreateFailsIInv == ASSUME OperationsIInv, CreateFails PROVE OperationsIInv'
<1>1. /\ Creating /\ disk \in Disks /\ open = {} /\ entry \in Entries
  BY InsideAlone DEF CreateFails, OperationsIInv, Types, Condition, NoCharacter, Absent, ReadyLegacy, ReadyLocal,
                     Settled, Migrating, Cleaning, Erased, Pending
<1>2. disk' = EmptyDisk
  BY <1>1 DEF CreateFails, Creating, Clean, Disks, EmptyDisk
<1>3. entry' = [Absent EXCEPT !.gen = entry.gen] /\ entry' \in Entries /\ entry'.gen = entry.gen
  BY <1>1 DEF CreateFails, Save, Absent, Entries, Layouts, Sources
<1>4. NoCharacter'
  BY <1>2, <1>3 DEF CreateFails, NoCharacter
<1>5. EmptyDisk \in Disks
  BY <1>1 DEF EmptyDisk, Disks, Stores, Databases
<1>6. token' \in {None} \cup Tokens /\ ~(token' # None /\ token'.fresh)
  BY DEF CreateFails, Restale, OperationsIInv, Types, Tokens
<1>7. QED
  BY <1>1, <1>2, <1>3, <1>4, <1>5, <1>6 DEF CreateFails, OperationsIInv, Types, Steps, Condition, Alone, TokenFits


-----------------------------------------------------------------------------
(* The invariants.                                                         *)

LEMMA NextOperations == OperationsIInv /\ [OperationsNext]_operationVars => OperationsIInv'
<1> SUFFICES ASSUME OperationsIInv, [OperationsNext]_operationVars PROVE OperationsIInv'
  OBVIOUS
<1>1. CASE UNCHANGED operationVars
  BY <1>1, StutterOperations
<1>2. CASE \E r \in Owners : \/ OpenRuntime(r) \/ CloseRuntime(r)
                             \/ \E x \in Items : Converse(r, x) \/ Observe(r, x)
  BY <1>2, OpenRuntimeIInv, CloseRuntimeIInv, ConverseIInv, ObserveIInv
<1>3. CASE \/ OtherRegistryChange \/ \E a \in Actions : Preview(a)
           \/ Expire \/ Refuse \/ Begin \/ Resume \/ Interrupt
  BY <1>3, OtherRegistryChangeIInv, PreviewIInv, ForgottenIInv, BeginIInv, ResumeIInv, InterruptIInv
<1>4. CASE Execute
  BY <1>4, StageIInv, PublishIInv, CopyFilesIInv, AdoptIInv, VerifyLocalIInv, EraseIInv,
     CleanRowsIInv, CleanRetainedIInv, CleanIndexIInv, CleanedIInv, CleanRootIInv, PhaseIInv,
     RemoveTreeIInv, ForgetIInv, UnlinkIInv, EpochIInv, InitArchiveIInv, InitDatabaseIInv,
     StampIInv, FinishIInv, Zenon DEF Execute
<1>5. CASE \E q \in BOOLEAN : Create(q)
  BY <1>5, CreateIInv
<1>6. CASE MakeDirectory \/ WriteProfile \/ CreateFails
  BY <1>6, MakeDirectoryIInv, WriteProfileIInv, CreateFailsIInv
<1>7. QED
  BY <1>1, <1>2, <1>3, <1>4, <1>5, <1>6, Zenon DEF OperationsNext

\* Whatever was interrupted or refused, a character's storage is in one of the
\* seven conditions.
THEOREM OperationsInductive == OperationsSpec => []OperationsIInv
<1>1. OperationsInit => OperationsIInv
  BY InitOperations
<1>2. OperationsIInv /\ [OperationsNext]_operationVars => OperationsIInv'
  BY NextOperations
<1>3. QED
  BY <1>1, <1>2, PTL DEF OperationsSpec

\* The registry entry, the files, the confirmation and the step keep their types.
THEOREM StorageKeepsType == OperationsSpec => []OperationsTypeOK
<1>1. OperationsIInv => OperationsTypeOK
  <2> SUFFICES ASSUME OperationsIInv PROVE OperationsTypeOK
    OBVIOUS
  <2>1. DOMAIN entry = DOMAIN Absent
    BY DEF OperationsIInv, Types, Entries, Absent
  <2>2. /\ entry.layout \in Layouts /\ entry.gen \in Generations /\ entry.source \in Sources
        /\ entry.status \in {"ready", "creating", "incomplete"}
    BY DEF OperationsIInv, Types, Entries
  <2>3. entry.op # None =>
          /\ entry.op.kind \in OperationKinds
          /\ entry.op.phase \in {"prepared", "deleting_files", "resetting_files"}
          /\ entry.op.newGen \in Generations
          /\ entry.op.review \in Snapshots
    BY DEF OperationsIInv, Types, Entries, Operations
  <2>4. /\ disk.dir \in {"missing", "bare", "whole"}
        /\ disk.archive \in Stores /\ disk.root \in Stores /\ disk.rows \in Stores
        /\ disk.local \in Databases /\ disk.staged \in Databases
    BY DEF OperationsIInv, Types, Disks
  <2>5. token # None => token.action \in Actions /\ token.seen \in Snapshots
    BY DEF OperationsIInv, Types, Tokens
  <2>6. QED
    BY <2>1, <2>2, <2>3, <2>4, <2>5 DEF OperationsTypeOK, OperationsIInv, Types
<1>2. QED
  BY <1>1, OperationsInductive, PTL

\* From its journal to the end of an operation, and through every crash between
\* them, no runtime is bound to what is moved or erased.
THEOREM NobodyWrites == OperationsSpec => []NoWriterDuringOperation
<1>1. OperationsIInv => NoWriterDuringOperation
  BY DEF OperationsIInv, Alone, ReadyLegacy, ReadyLocal, Settled, NoWriterDuringOperation
<1>2. QED
  BY <1>1, OperationsInductive, PTL

\* What the registry calls ready is whole, and what it erased is gone.
THEOREM ReadyIsWhole == OperationsSpec => []SettledIsExact
<1>1. OperationsIInv => SettledIsExact
  <2> SUFFICES ASSUME OperationsIInv PROVE SettledIsExact
    OBVIOUS
  <2>1. ASSUME entry.present, entry.status = "ready", entry.op = None, entry.layout = "local"
        PROVE  ReadyLocal
    BY <2>1 DEF OperationsIInv, Condition, NoCharacter, Absent, Creating, ReadyLegacy, LegacyKept, Migrating,
                Cleaning, Erased, Pending
  <2>2. ASSUME ~entry.present PROVE NoCharacter
    BY <2>2 DEF OperationsIInv, Condition, Creating, ReadyLegacy, ReadyLocal, Settled, Migrating, Cleaning,
                Erased, Pending
  <2>3. QED
    BY <2>1, <2>2 DEF SettledIsExact, ReadyLocal, LocalKept, Clean, NoCharacter
<1>2. QED
  BY <1>1, OperationsInductive, PTL


-----------------------------------------------------------------------------
(* What a step may erase.                                                  *)

LossReviewed ==
    /\ Losing(disk.rows, disk'.rows) # {} =>
         entry.op # None /\ Losing(disk.rows, disk'.rows) \subseteq Contents(entry.op.review.rows)
    /\ Losing(disk.root, disk'.root) # {} =>
         entry.op # None /\ Losing(disk.root, disk'.root) \subseteq Contents(entry.op.review.root)
    /\ Losing(disk.archive, disk'.archive) # {} =>
         entry.op # None /\ Losing(disk.archive, disk'.archive) \subseteq Contents(entry.op.review.archive)
    /\ Losing(LocalData(disk), LocalData(disk)') # {} =>
         entry.op # None /\ Losing(LocalData(disk), LocalData(disk)') \subseteq LocalData(entry.op.review)

\* Nothing is lost where everything is still there.
LEMMA KeptIsReviewed ==
    ASSUME Contents(disk.rows) \subseteq Contents(disk'.rows),
           Contents(disk.root) \subseteq Contents(disk'.root),
           Contents(disk.archive) \subseteq Contents(disk'.archive),
           Contents(LocalData(disk)) \subseteq Contents(LocalData(disk)')
    PROVE  LossReviewed
  BY DEF LossReviewed, Losing

\* An erasure finds on the disk only what its review listed.
LEMMA ErasureIsReviewed ==
    ASSUME OperationsIInv, Erased, disk'.rows = disk.rows PROVE LossReviewed
<1>1. \A a, b : Losing(a, b) \subseteq Contents(a)
  BY DEF Losing
<1>2. Losing(disk.rows, disk'.rows) = {}
  BY DEF Losing
<1>3. entry.op # None /\ Reviewed
  BY DEF Erased, Pending
<1>4. Contents(LocalData(disk)) \subseteq LocalData(disk)
  BY DEF Contents
<1>5. QED
  BY <1>1, <1>2, <1>3, <1>4 DEF LossReviewed, Reviewed

\* A step on the disk that leaves the stores, or that fills what was not there.
LEMMA FilledIsReviewed ==
    ASSUME disk'.rows = disk.rows, disk'.root = disk.root,
           disk'.archive = disk.archive \/ Contents(disk.archive) = {},
           LocalData(disk)' = LocalData(disk) \/ LocalData(disk) = {}
    PROVE  LossReviewed
<1>1. Contents({}) = {}
  BY DEF Contents
<1>2. QED
  BY <1>1, KeptIsReviewed

LEMMA RuntimeKeeps ==
    ASSUME OperationsIInv, NEW r \in Owners, NEW x \in Items, Converse(r, x) \/ Observe(r, x)
    PROVE  LossReviewed
<1>1. disk \in Disks /\ (ReadyLegacy \/ ReadyLocal)
  BY BoundIsReady DEF Converse, Observe, OperationsIInv, Types
<1>2. \A s \in Stores : Contents(s) \cup {x} \in Stores \ {None}
  BY NoneIsNothing DEF Stores, Contents
<1>3. \A s \in Stores : Contents(s) \subseteq Contents(Contents(s) \cup {x})
  BY <1>2 DEF Contents
<1>4. CASE disk' = [disk EXCEPT !.root = Contents(@) \cup {x}]
  BY <1>1, <1>3, <1>4, KeptIsReviewed DEF Disks, LocalData
<1>5. CASE disk' = [disk EXCEPT !.archive = Contents(@) \cup {x}]
  BY <1>1, <1>3, <1>5, KeptIsReviewed DEF Disks, LocalData
<1>6. CASE disk' = [disk EXCEPT !.rows = Contents(@) \cup {x}, !.index = TRUE]
  BY <1>1, <1>3, <1>6, KeptIsReviewed DEF Disks, LocalData
<1>7. CASE disk' = [disk EXCEPT !.local.data = @ \cup {x}] /\ ReadyLocal
  <2>1. disk.local \in [gen : Generations, data : SUBSET Items] /\ disk.local # None
    BY <1>1, <1>7 DEF ReadyLocal, LocalKept, Disks, Databases
  <2>2. [disk.local EXCEPT !.data = @ \cup {x}] \in [gen : Generations, data : SUBSET Items]
    BY <2>1
  <2>3. /\ disk'.local = [disk.local EXCEPT !.data = @ \cup {x}] /\ disk'.rows = disk.rows
        /\ disk'.root = disk.root /\ disk'.archive = disk.archive
    BY <1>1, <1>7 DEF Disks
  <2>4. disk'.local # None /\ disk'.local.data = disk.local.data \cup {x}
    BY <2>1, <2>2, <2>3, OperationsAssumption DEF OperationsAssumption
  <2>5. disk'.local.data # None
    BY <2>1, <2>4, NoneIsNothing
  <2>6. Contents(LocalData(disk)) \subseteq Contents(LocalData(disk)')
    BY <2>1, <2>4, <2>5 DEF LocalData, Contents
  <2>7. QED
    BY <2>3, <2>6, KeptIsReviewed
<1>8. QED
  BY <1>1, <1>4, <1>5, <1>6, <1>7 DEF Converse, Observe, ReadyLegacy, LegacyKept


\* The shared rows and the retained archive go only as they were reviewed.
LEMMA CleaningIsReviewed ==
    ASSUME OperationsIInv, CleanRows \/ CleanRetained \/ CleanIndex \/ CleanRoot PROVE LossReviewed
<1>1. disk \in Disks
  BY DEF OperationsIInv, Types
<1>2. Contents(None) = {}
  BY DEF Contents
<1>3. CASE CleanRows
  <2>1. entry.op # None
    BY <1>3, StepTells DEF CleanRows, CleanSteps, Cleaning, Erased, Pending
  <2>2. /\ disk'.root = disk.root /\ disk'.archive = disk.archive /\ disk'.local = disk.local
        /\ disk'.rows = disk.rows \/ disk.rows \in {None, entry.op.review.rows}
    BY <1>1, <1>3 DEF CleanRows, OnDisk, Disks, op
  <2>3. QED
    BY <1>2, <2>1, <2>2 DEF LossReviewed, Losing, LocalData
<1>4. CASE CleanRetained
  <2>1. entry.op # None
    BY <1>4, StepTells DEF CleanRetained, CleanSteps, Cleaning, Erased, Pending
  <2>2. /\ disk'.rows = disk.rows /\ disk'.archive = disk.archive /\ disk'.local = disk.local
        /\ disk'.root = disk.root \/ disk.root \in {None, entry.op.review.root}
    BY <1>1, <1>4 DEF CleanRetained, OnDisk, Disks, op
  <2>3. QED
    BY <1>2, <2>1, <2>2 DEF LossReviewed, Losing, LocalData
<1>5. CASE CleanIndex
  <2>1. /\ disk'.rows = disk.rows /\ disk'.archive = disk.archive /\ disk'.local = disk.local
        /\ disk'.root = disk.root
    BY <1>1, <1>5 DEF CleanIndex, OnDisk, Disks
  <2>2. QED
    BY <2>1, FilledIsReviewed DEF LocalData
<1>6. CASE CleanRoot
  <2>1. Erased /\ disk'.rows = disk.rows
    BY <1>1, <1>6, StepTells DEF CleanRoot, OnDisk, Step, EraseSteps, Disks
  <2>2. QED
    BY <2>1, ErasureIsReviewed
<1>7. QED
  BY <1>3, <1>4, <1>5, <1>6

\* The files of the directory go with the review that listed them.
LEMMA DirectoryIsReviewed == ASSUME OperationsIInv, RemoveTree \/ Unlink PROVE LossReviewed
<1>1. disk \in Disks /\ Erased
  BY StepTells DEF OperationsIInv, Types, RemoveTree, Unlink, OnDisk, Step, EraseSteps
<1>2. disk'.rows = disk.rows
  <2>1. CASE RemoveTree
    BY <1>1, <2>1 DEF RemoveTree, OnDisk, Disks
  <2>2. CASE Unlink
    BY <1>1, <2>2 DEF Unlink, OnDisk, Disks
  <2>3. QED
    BY <2>1, <2>2
<1>3. QED
  BY <1>1, <1>2, ErasureIsReviewed

\* A migration copies; a new timeline starts where nothing was.
LEMMA FillingIsReviewed ==
    ASSUME OperationsIInv, \/ Stage \/ Publish \/ CopyFiles \/ InitArchive \/ InitDatabase \/ Stamp
                 \/ MakeDirectory \/ WriteProfile
    PROVE  LossReviewed
<1>1. disk \in Disks
  BY DEF OperationsIInv, Types
<1>2. Contents(None) = {} /\ Contents({}) = {}
  BY DEF Contents
<1>3. CASE Stage \/ MakeDirectory \/ WriteProfile
  <2>1. /\ disk'.rows = disk.rows /\ disk'.archive = disk.archive /\ disk'.local = disk.local
        /\ disk'.root = disk.root
    BY <1>1, <1>3 DEF Stage, MakeDirectory, WriteProfile, OnDisk, Disks
  <2>2. QED
    BY <2>1, FilledIsReviewed DEF LocalData
<1>4. CASE Publish
  <2>1. Migrating /\ pc = "publish"
    BY <1>4, StepTells DEF Publish, OnDisk, Step, MigrateSteps
  <2>2. disk.local = None
    BY <2>1, CopyIsDatabase DEF Migrating
  <2>3. /\ disk'.rows = disk.rows /\ disk'.archive = disk.archive /\ disk'.root = disk.root
    BY <1>1, <1>4 DEF Publish, OnDisk, Disks
  <2>4. QED
    BY <2>2, <2>3, FilledIsReviewed DEF LocalData
<1>5. CASE CopyFiles
  <2>1. Migrating /\ pc = "copy_files"
    BY <1>5, StepTells DEF CopyFiles, OnDisk, Step, MigrateSteps
  <2>2. origin = "default" => disk.root # None
    BY <2>1 DEF Migrating, LegacyKept
  <2>3. disk'.archive = disk.archive \/ disk.archive = None
    BY <1>1, <1>5, <2>2 DEF CopyFiles, RootOwned, OnDisk, Disks
  <2>4. /\ disk'.rows = disk.rows /\ disk'.root = disk.root /\ disk'.local = disk.local
    BY <1>1, <1>5 DEF CopyFiles, OnDisk, Disks
  <2>5. QED
    BY <1>2, <2>3, <2>4, FilledIsReviewed DEF LocalData
<1>6. CASE InitArchive \/ InitDatabase
  <2>1. disk.local = None
    BY <1>6, StepTells DEF InitArchive, InitDatabase, OnDisk, Step, InitSteps, Creating, Erased,
                           Initialized
  <2>2. Contents(disk.archive) = {}
    BY <1>2, <1>6, StepTells DEF InitArchive, InitDatabase, OnDisk, Step, InitSteps, Creating, Erased,
                           Initialized
  <2>3. disk'.rows = disk.rows /\ disk'.root = disk.root
    BY <1>1, <1>6 DEF InitArchive, InitDatabase, OnDisk, Disks
  <2>4. QED
    BY <2>1, <2>2, <2>3, FilledIsReviewed DEF LocalData
<1>7. CASE Stamp
  <2>1. disk.local = EmptyDatabase(0) /\ 0 \in Generations
    BY <1>7, StepTells, NoneIsNothing
       DEF Stamp, OnDisk, Step, InitSteps, Creating, Erased, Initialized, Generations
  <2>2. LocalData(disk) = {}
    BY <2>1, EmptyIsDatabase DEF LocalData
  <2>3. disk'.rows = disk.rows /\ disk'.root = disk.root /\ disk'.archive = disk.archive
    BY <1>1, <1>7 DEF Stamp, OnDisk, Disks
  <2>4. QED
    BY <2>2, <2>3, FilledIsReviewed
<1>8. QED
  BY <1>3, <1>4, <1>5, <1>6, <1>7

\* A creation that fails held nothing.
LEMMA FailureIsReviewed == ASSUME OperationsIInv, CreateFails PROVE LossReviewed
<1>1. Creating /\ disk \in Disks
  BY DEF CreateFails, OperationsIInv, Types, Condition, NoCharacter, Absent, ReadyLegacy, ReadyLocal,
         Settled, Migrating, Cleaning, Erased, Pending
<1>2. Contents(disk.archive) = {} /\ LocalData(disk) = {}
  BY <1>1 DEF Creating
<1>3. disk'.rows = disk.rows /\ disk'.root = disk.root
  BY <1>1 DEF CreateFails, Disks
<1>4. QED
  BY <1>2, <1>3, FilledIsReviewed

\* The disk is left alone by whatever else happens.
LEMMA AsideKeepsDisk ==
    ASSUME \/ \E r \in Owners : OpenRuntime(r) \/ CloseRuntime(r)
           \/ OtherRegistryChange \/ \E a \in Actions : Preview(a)
           \/ Expire \/ Refuse \/ Begin \/ Resume \/ Interrupt
           \/ Adopt \/ VerifyLocal \/ Erase \/ Cleaned \/ Phase \/ Forget \/ Epoch \/ Finish
           \/ \E q \in BOOLEAN : Create(q)
           \/ UNCHANGED operationVars
    PROVE  disk' = disk
  BY DEF OpenRuntime, CloseRuntime, OtherRegistryChange, Preview, Expire, Refuse, Begin, Resume,
         Interrupt, Adopt, VerifyLocal, Erase, Cleaned, Phase, Forget, Epoch, Finish, Create,
         OnEntry, OnDisk, operationVars

\* Nothing is erased but under a journal, and only what its review listed: what was
\* said after the confirmation is never lost to it.
THEOREM OnlyReviewedGoes == OperationsSpec => ErasesOnlyReviewed
<1>1. OperationsIInv /\ [OperationsNext]_operationVars => LossReviewed
  <2> SUFFICES ASSUME OperationsIInv, [OperationsNext]_operationVars PROVE LossReviewed
    OBVIOUS
  <2>1. CASE disk' = disk
    BY <2>1, FilledIsReviewed DEF LocalData
  <2>2. CASE \E r \in Owners, x \in Items : Converse(r, x) \/ Observe(r, x)
    BY <2>2, RuntimeKeeps
  <2>3. CASE \/ CleanRows \/ CleanRetained \/ CleanIndex \/ CleanRoot \/ RemoveTree \/ Unlink
             \/ Stage \/ Publish \/ CopyFiles \/ InitArchive \/ InitDatabase \/ Stamp
             \/ MakeDirectory \/ WriteProfile \/ CreateFails
    BY <2>3, CleaningIsReviewed, DirectoryIsReviewed, FillingIsReviewed, FailureIsReviewed
  <2>4. \/ disk' = disk
        \/ \E r \in Owners, x \in Items : Converse(r, x) \/ Observe(r, x)
        \/ CleanRows \/ CleanRetained \/ CleanIndex \/ CleanRoot \/ RemoveTree \/ Unlink
        \/ Stage \/ Publish \/ CopyFiles \/ InitArchive \/ InitDatabase \/ Stamp
        \/ MakeDirectory \/ WriteProfile \/ CreateFails
    BY AsideKeepsDisk, Zenon DEF OperationsNext, Execute
  <2>5. QED
    BY <2>1, <2>2, <2>3, <2>4
<1>2. OperationsSpec => [][LossReviewed]_operationVars
  BY <1>1, OperationsInductive, PTL DEF OperationsSpec
<1>3. QED
  BY <1>2 DEF ErasesOnlyReviewed, LossReviewed


-----------------------------------------------------------------------------
(* The refinement: what is promised whatever the layout.                   *)

State == IF ~entry.present THEN "absent"
         ELSE IF entry.status = "ready" /\ entry.op = None THEN "ready" ELSE "blocked"

Memory == IF ~entry.present \/ Erasing THEN [archive |-> {}, rows |-> {}]
          ELSE [archive |-> Contents(Archive(entry.layout)), rows |-> Contents(Rows(entry.layout))]

\* The abstract actions, said of what they are mapped to.
LEMMA StaysSame ==
    ASSUME UNCHANGED <<State, Erasing, Memory, entry.gen>>
    PROVE  [Timeline!Next]_Timeline!tvars
  BY DEF Timeline!tvars, State, Memory

LEMMA Converses ==
    ASSUME NEW x \in Items, State = "ready", Memory' = [Memory EXCEPT !.archive = @ \cup {x}],
           UNCHANGED <<State, Erasing, entry.gen>>
    PROVE  Timeline!Next
  BY DEF Timeline!Next, Timeline!Converse, State, Memory

LEMMA Observes ==
    ASSUME NEW x \in Items, State = "ready", x \in Memory.archive,
           Memory' = [Memory EXCEPT !.rows = @ \cup {x}], UNCHANGED <<State, Erasing, entry.gen>>
    PROVE  Timeline!Next
  BY DEF Timeline!Next, Timeline!Observe, State, Memory

LEMMA Creates ==
    ASSUME State = "absent", State' = "blocked", Erasing' = TRUE, Memory' = Timeline!Empty,
           entry'.gen > entry.gen
    PROVE  Timeline!Next
  BY DEF Timeline!Next, Timeline!Create, State, Memory

LEMMA Begins ==
    ASSUME State = "ready", State' = "blocked", UNCHANGED entry.gen,
           \/ Erasing' = TRUE /\ Memory' = Timeline!Empty
           \/ Erasing' = FALSE /\ UNCHANGED Memory
    PROVE  Timeline!Next
  BY DEF Timeline!Next, Timeline!Begin, State, Memory

LEMMA Works ==
    ASSUME State = "blocked", UNCHANGED <<State, Erasing, Memory>>, entry'.gen >= entry.gen
    PROVE  Timeline!Next
  BY DEF Timeline!Next, Timeline!Work, State, Memory

LEMMA Finishes ==
    ASSUME State = "blocked", State' = "ready", Erasing' = FALSE, UNCHANGED Memory,
           entry'.gen >= entry.gen
    PROVE  Timeline!Next
  BY DEF Timeline!Next, Timeline!Finish, State, Memory

LEMMA Vanishes ==
    ASSUME State = "blocked", Erasing, State' = "absent", Erasing' = FALSE,
           UNCHANGED <<Memory, entry.gen>>
    PROVE  Timeline!Next
  BY DEF Timeline!Next, Timeline!Vanish, State, Memory


\* What is remembered, by the condition the storage is in.
LEMMA Remembered ==
    ASSUME OperationsIInv
    PROVE  /\ NoCharacter => State = "absent" /\ Erasing = FALSE /\ Memory = Timeline!Empty
           /\ Creating => State = "blocked" /\ Erasing = TRUE /\ Memory = Timeline!Empty
           /\ ReadyLegacy \/ ReadyLocal => State = "ready" /\ Erasing = FALSE
           /\ Migrating \/ Cleaning => State = "blocked" /\ Erasing = FALSE
           /\ Erased => State = "blocked" /\ Erasing = TRUE /\ Memory = Timeline!Empty
           /\ Erasing = FALSE /\ entry.present =>
                Memory = [archive |-> Contents(Archive(entry.layout)),
                          rows |-> Contents(Rows(entry.layout))]
<1>1. /\ NoCharacter => ~entry.present
      /\ Creating => entry.present /\ entry.status = "creating"
      /\ ReadyLegacy \/ ReadyLocal => entry.present /\ entry.status = "ready" /\ entry.op = None
      /\ Migrating \/ Cleaning => /\ entry.present /\ entry.status = "incomplete"
                                  /\ entry.op # None /\ entry.op.kind \notin {"reset", "delete"}
      /\ Erased => /\ entry.present /\ entry.status = "incomplete"
                   /\ entry.op # None /\ entry.op.kind \in {"reset", "delete"}
  BY DEF NoCharacter, Absent, Creating, ReadyLegacy, ReadyLocal, Settled, Migrating, Cleaning, Erased, Pending
<1>2. entry.present \in BOOLEAN
  BY DEF OperationsIInv, Types, Entries
<1>3. Timeline!Empty = [archive |-> {}, rows |-> {}]
  BY DEF Timeline!Empty
<1>4. QED
  BY <1>1, <1>2, <1>3 DEF State, Memory, Erasing

\* A step on the disk while nothing is promised.
LEMMA EmptyStays ==
    ASSUME OperationsIInv, Erasing = TRUE, UNCHANGED entry PROVE [Timeline!Next]_Timeline!tvars
<1>1. UNCHANGED <<State, Erasing, Memory, entry.gen>>
  BY DEF State, Memory, Erasing
<1>2. QED
  BY <1>1, StaysSame

\* A step that leaves the stores the layout selects.
LEMMA SelectedStays ==
    ASSUME OperationsIInv, UNCHANGED entry, UNCHANGED Contents(Archive(entry.layout)),
           UNCHANGED Contents(Rows(entry.layout))
    PROVE  [Timeline!Next]_Timeline!tvars
<1>1. UNCHANGED <<State, Erasing, Memory, entry.gen>>
  BY DEF State, Memory, Erasing
<1>2. QED
  BY <1>1, StaysSame

\* What changes neither the registry nor the disk.
LEMMA AsideStays ==
    ASSUME OperationsIInv, UNCHANGED <<origin, entry, disk>> PROVE [Timeline!Next]_Timeline!tvars
  BY SelectedStays DEF Archive, Rows, RootOwned

\* What is said, and what is derived from it, is remembered.
LEMMA ConverseRemembers ==
    ASSUME OperationsIInv, NEW r \in Owners, NEW x \in Items, Converse(r, x) PROVE [Timeline!Next]_Timeline!tvars
<1>1. State = "ready" /\ Erasing = FALSE /\ entry.present /\ disk \in Disks
  <2>1. open # {} /\ disk \in Disks
    BY DEF Converse, OperationsIInv, Types
  <2>2. (ReadyLegacy \/ ReadyLocal) /\ entry.present
    BY <2>1, BoundIsReady DEF ReadyLegacy, ReadyLocal, Settled
  <2>3. QED
    BY <2>1, <2>2, Remembered, Zenon
<1>2. \A s \in Stores : Contents(Contents(s) \cup {x}) = Contents(s) \cup {x}
  BY NoneIsNothing DEF Stores, Contents
<1>3. /\ Contents(Archive(entry.layout)') = Contents(Archive(entry.layout)) \cup {x}
      /\ UNCHANGED Rows(entry.layout)
  <2>1. CASE RootOwned(entry.layout)
    BY <2>1, <1>1, <1>2 DEF Converse, Archive, Rows, RootOwned, Disks
  <2>2. CASE ~RootOwned(entry.layout)
    BY <2>2, <1>1, <1>2 DEF Converse, Archive, Rows, RootOwned, Disks
  <2>3. QED
    BY <2>1, <2>2
<1>4. UNCHANGED <<State, Erasing, entry.gen>>
  BY DEF Converse, State, Erasing
<1>5. Memory' = [Memory EXCEPT !.archive = @ \cup {x}]
  BY <1>1, <1>3, <1>4 DEF Memory, Converse, Contents
<1>6. QED
  BY <1>1, <1>4, <1>5, Converses

LEMMA ObserveRemembers ==
    ASSUME OperationsIInv, NEW r \in Owners, NEW x \in Items, Observe(r, x) PROVE [Timeline!Next]_Timeline!tvars
<1>1. /\ State = "ready" /\ Erasing = FALSE /\ entry.present /\ disk \in Disks
      /\ \/ ReadyLegacy /\ entry.layout = "legacy_shared"
         \/ ReadyLocal /\ entry.layout = "local"
  <2>1. open # {} /\ disk \in Disks
    BY DEF Observe, OperationsIInv, Types
  <2>2. (ReadyLegacy \/ ReadyLocal) /\ entry.present
    BY <2>1, BoundIsReady DEF ReadyLegacy, ReadyLocal, Settled
  <2>3. State = "ready" /\ Erasing = FALSE
    BY <2>2, Remembered, Zenon
  <2>4. QED
    BY <2>1, <2>2, <2>3 DEF ReadyLegacy, LegacyKept, ReadyLocal, LocalKept
<1>2. \A s \in Stores : Contents(Contents(s) \cup {x}) = Contents(s) \cup {x}
  BY NoneIsNothing DEF Stores, Contents
<1>3. /\ Contents(Rows(entry.layout)') = Contents(Rows(entry.layout)) \cup {x}
      /\ UNCHANGED Archive(entry.layout)
  <2>1. CASE ReadyLegacy /\ entry.layout = "legacy_shared"
    BY <2>1, <1>1, <1>2 DEF Observe, Archive, Rows, RootOwned, Disks
  <2>2. CASE ReadyLocal /\ entry.layout = "local"
    <3>1. disk.local \in [gen : Generations, data : SUBSET Items] /\ disk.local # None
      BY <1>1, <2>2 DEF ReadyLocal, LocalKept, Disks, Databases
    <3>2. [disk.local EXCEPT !.data = @ \cup {x}] \in [gen : Generations, data : SUBSET Items]
      BY <3>1
    <3>3. /\ disk'.local = [disk.local EXCEPT !.data = @ \cup {x}] /\ disk'.rows = disk.rows
          /\ disk'.root = disk.root /\ disk'.archive = disk.archive
      BY <1>1, <2>2 DEF Observe, Disks
    <3>4. disk'.local # None /\ disk'.local.data = disk.local.data \cup {x}
      BY <3>1, <3>2, <3>3, OperationsAssumption DEF OperationsAssumption
    <3>5. disk.local.data # None /\ disk'.local.data # None
      BY <3>1, <3>4, NoneIsNothing
    <3>6. QED
      BY <2>2, <3>1, <3>3, <3>4, <3>5 DEF Observe, Archive, Rows, RootOwned, Contents
  <2>3. QED
    BY <1>1, <2>1, <2>2
<1>4. UNCHANGED <<State, Erasing, entry.gen>>
  BY DEF Observe, State, Erasing
<1>5. Memory' = [Memory EXCEPT !.rows = @ \cup {x}] /\ x \in Memory.archive
  BY <1>1, <1>3, <1>4 DEF Memory, Observe, Contents
<1>6. QED
  BY <1>1, <1>4, <1>5, Observes


\* An operation is confirmed: what an erasure is to remove is no longer promised.
LEMMA BeginBegins == ASSUME OperationsIInv, Begin PROVE [Timeline!Next]_Timeline!tvars
<1>1. /\ entry.present /\ entry.op = None /\ token.action \in OperationKinds
      /\ entry.status = "creating" => token.action = "delete"
  BY DEF Begin, MayExecute, Confirmed, OperationsIInv, TokenFits, Types, Tokens, Actions
<1>2. entry \in Entries
  BY DEF OperationsIInv, Types
<1>3. PICK o : /\ entry' = [entry EXCEPT !.status = "incomplete", !.op = o]
               /\ o.kind = token.action
  <2>1. PICK o : o = [kind |-> token.action, phase |-> "prepared",
                      newGen |-> IF token.action \in {"reset", "migrate"} THEN entry.gen + 1
                                 ELSE entry.gen,
                      layout |-> entry.layout, source |-> entry.source, review |-> token.seen]
    OBVIOUS
  <2>2. entry' = [entry EXCEPT !.status = "incomplete", !.op = o]
    BY <2>1 DEF Begin, Save
  <2>3. o.kind = token.action
    BY <2>1
  <2>4. QED
    BY <2>2, <2>3
<1>4. /\ entry'.present /\ entry'.layout = entry.layout /\ entry'.status = "incomplete"
      /\ entry'.gen = entry.gen /\ entry'.op.kind = token.action
  BY <1>1, <1>2, <1>3 DEF Entries
<1>5. entry'.op # None
  <2>1. OperationsIInv'
    BY BeginIInv
  <2>2. QED
    BY <1>4, <2>1
       DEF OperationsIInv, Condition, NoCharacter, Absent, Creating, ReadyLegacy, ReadyLocal, Settled, Migrating,
           Cleaning, Erased, Pending
<1>6. /\ State' = "blocked"
      /\ token.action \in {"reset", "delete"} => Erasing' = TRUE
      /\ token.action \notin {"reset", "delete"} => Erasing' = FALSE
  BY <1>4, <1>5 DEF State, Erasing
<1>7. UNCHANGED <<disk, origin>>
  BY DEF Begin
<1>8. (ReadyLegacy \/ ReadyLocal) \/ (Creating /\ token.action = "delete")
  BY <1>1 DEF OperationsIInv, Condition, NoCharacter, Absent, Creating, Migrating, Cleaning, Erased, Pending
<1>9. CASE token.action \in {"reset", "delete"}
  <2>1. Erasing' = TRUE /\ Memory' = Timeline!Empty
    BY <1>6, <1>9 DEF Memory, Timeline!Empty
  <2>2. CASE ReadyLegacy \/ ReadyLocal
    BY <2>1, <2>2, <1>4, <1>6, Remembered, Begins
  <2>3. CASE Creating
    BY <2>1, <2>3, <1>4, <1>6, Remembered, StaysSame
  <2>4. QED
    BY <1>8, <2>2, <2>3
<1>10. CASE token.action \notin {"reset", "delete"}
  <2>1. State = "ready" /\ Erasing = FALSE
    BY <1>8, <1>10, Remembered
  <2>2. Erasing' = FALSE
    BY <1>6, <1>10
  <2>3. UNCHANGED Memory
    BY <1>1, <1>4, <1>7, <2>1, <2>2 DEF Memory, Archive, Rows, RootOwned
  <2>4. QED
    BY <1>4, <1>6, <2>1, <2>2, <2>3, Begins
<1>11. QED
  BY <1>9, <1>10

\* Moving and cleaning up are invisible in what is remembered.
LEMMA MigrationStays ==
    ASSUME OperationsIInv, Stage \/ Publish \/ CopyFiles PROVE [Timeline!Next]_Timeline!tvars
<1>1. Migrating /\ disk \in Disks
  BY StepTells DEF Stage, Publish, CopyFiles, OnDisk, Step, MigrateSteps, OperationsIInv, Types
<1>2. entry.layout = "legacy_shared" /\ origin \in {"default", "legacy"}
  BY <1>1 DEF Migrating, LegacyKept, OperationsIInv, Types
<1>3. /\ disk'.rows = disk.rows /\ disk'.root = disk.root /\ entry' = entry /\ origin' = origin
      /\ origin = "legacy" => disk'.archive = disk.archive
  <2>1. CASE Stage
    BY <1>1, <2>1 DEF Stage, OnDisk, Step, Disks
  <2>2. CASE Publish
    BY <1>1, <2>2 DEF Publish, OnDisk, Step, Disks
  <2>3. CASE CopyFiles
    BY <1>1, <2>3 DEF CopyFiles, RootOwned, OnDisk, Step, Disks
  <2>4. QED
    BY <2>1, <2>2, <2>3
<1>4. QED
  BY <1>2, <1>3, SelectedStays DEF Archive, Rows, RootOwned

LEMMA CleaningStays ==
    ASSUME OperationsIInv, VerifyLocal \/ Erase \/ CleanRows \/ CleanRetained \/ CleanIndex \/ CleanRoot
    PROVE  [Timeline!Next]_Timeline!tvars
<1>1. (Cleaning \/ Erased) /\ disk \in Disks /\ entry' = entry
  BY StepTells DEF VerifyLocal, Erase, CleanRows, CleanRetained, CleanIndex, CleanRoot, OnDisk, Step,
                   CleanupSteps, CleanSteps, EraseSteps, OperationsIInv, Types
<1>2. CASE Erased
  BY <1>1, <1>2, Remembered, EmptyStays
<1>3. CASE Cleaning
  <2>1. disk'.archive = disk.archive /\ disk'.local = disk.local
    <3>1. CASE VerifyLocal \/ Erase
      BY <1>1, <3>1 DEF VerifyLocal, Erase, OnDisk
    <3>2. CASE CleanRows \/ CleanRetained
      BY <1>1, <3>2 DEF CleanRows, CleanRetained, OnDisk, Disks
    <3>3. CASE CleanIndex \/ CleanRoot
      BY <1>1, <3>3 DEF CleanIndex, CleanRoot, OnDisk, Disks
    <3>4. QED
      BY <3>1, <3>2, <3>3
  <2>2. entry.layout = "local"
    BY <1>3 DEF Cleaning, LocalKept
  <2>3. QED
    BY <1>1, <2>1, <2>2, SelectedStays DEF Archive, Rows, RootOwned
<1>4. QED
  BY <1>1, <1>2, <1>3

\* A step on the disk of an erasure or a creation.
LEMMA EmptyingStays ==
    ASSUME OperationsIInv, \/ RemoveTree \/ Unlink \/ InitArchive \/ InitDatabase \/ Stamp
                 \/ MakeDirectory \/ WriteProfile
    PROVE  [Timeline!Next]_Timeline!tvars
<1>1. pc \in EraseSteps \cup InitSteps \cup CreateSteps /\ entry' = entry
  BY DEF RemoveTree, Unlink, InitArchive, InitDatabase, Stamp, MakeDirectory, WriteProfile,
         OnDisk, Step, EraseSteps, InitSteps, CreateSteps
<1>2. Creating \/ Erased
  BY <1>1, StepTells
<1>3. QED
  BY <1>1, <1>2, Remembered, EmptyStays

\* The copy that is adopted holds what the original held.
LEMMA AdoptFinishes == ASSUME OperationsIInv, Adopt PROVE [Timeline!Next]_Timeline!tvars
<1>1. /\ Migrating /\ disk \in Disks /\ pc = "adopt" /\ disk.local = Copy /\ entry \in Entries
      /\ entry.op \in Operations /\ entry.present /\ origin \in {"default", "legacy"}
  BY StepTells
     DEF Adopt, OnEntry, MigrateSteps, OperationsIInv, Types, Migrating, LegacyKept, Pending, Entries
<1>2. /\ State = "blocked" /\ Erasing = FALSE
      /\ Memory = [archive |-> Contents(Archive(entry.layout)), rows |-> Contents(Rows(entry.layout))]
  BY <1>1, Remembered
<1>3. PICK s : entry' = [entry EXCEPT !.layout = "local", !.status = "ready",
                                      !.gen = entry.op.newGen, !.source = s, !.op = None]
  BY DEF Adopt, OnEntry, Save, op
<1>4. /\ entry'.layout = "local" /\ entry'.status = "ready" /\ entry'.gen = entry.op.newGen
      /\ entry'.op = None /\ entry'.present = entry.present
  BY <1>1, <1>3 DEF Entries
<1>5. disk' = disk /\ origin' = origin
  BY DEF Adopt, OnEntry
<1>6. entry.layout = "legacy_shared" /\ disk.rows = entry.op.review.rows
  BY <1>1 DEF Migrating, LegacyKept
<1>7. Archive(entry.layout) = disk.archive /\ Archive(entry.layout)' = disk.archive
  BY <1>1, <1>4, <1>5, <1>6 DEF Archive, RootOwned, Migrating
<1>8. Contents(Rows(entry.layout)') = Contents(Rows(entry.layout))
  <2>1. Copy # None /\ Copy.data = Contents(disk.rows)
    BY <1>1, <1>6, CopyIsDatabase DEF Copy
  <2>2. Rows(entry.layout)' = Contents(disk.rows) /\ Rows(entry.layout) = disk.rows
    BY <1>1, <1>4, <1>5, <1>6, <2>1 DEF Rows
  <2>3. QED
    BY <2>2 DEF Contents
<1>9. Erasing' = FALSE /\ State' = "ready"
  BY <1>1, <1>4 DEF Erasing, State
<1>10. UNCHANGED Memory
  BY <1>1, <1>2, <1>4, <1>7, <1>8, <1>9 DEF Memory, Contents
<1>11. entry'.gen >= entry.gen
  BY <1>1, <1>4 DEF Migrating
<1>12. QED
  BY <1>2, <1>9, <1>10, <1>11, Finishes

LEMMA CleanedFinishes == ASSUME OperationsIInv, Cleaned PROVE [Timeline!Next]_Timeline!tvars
<1>1. Cleaning /\ entry \in Entries /\ entry.present
  BY StepTells DEF Cleaned, OnEntry, CleanupSteps, OperationsIInv, Types, Cleaning, Pending
<1>2. /\ State = "blocked" /\ Erasing = FALSE
      /\ Memory = [archive |-> Contents(Archive(entry.layout)), rows |-> Contents(Rows(entry.layout))]
  BY <1>1, Remembered
<1>3. /\ entry'.layout = entry.layout /\ entry'.status = "ready" /\ entry'.gen = entry.gen
      /\ entry'.op = None /\ entry'.present
  BY <1>1 DEF Cleaned, OnEntry, Save, Entries
<1>4. disk' = disk /\ origin' = origin
  BY DEF Cleaned, OnEntry
<1>5. Erasing' = FALSE /\ State' = "ready"
  BY <1>3 DEF Erasing, State
<1>6. UNCHANGED Memory
  BY <1>2, <1>3, <1>4, <1>5 DEF Memory, Archive, Rows, RootOwned
<1>7. entry'.gen >= entry.gen
  BY <1>1, <1>3, NoneIsNothing DEF Entries, Generations
<1>8. QED
  BY <1>2, <1>5, <1>6, <1>7, Finishes


\* What was erased, or never filled, comes back empty.
LEMMA FinishFinishes == ASSUME OperationsIInv, Finish PROVE [Timeline!Next]_Timeline!tvars
<1>1. (Creating \/ Erased) /\ entry \in Entries /\ entry.present
  BY StepTells DEF Finish, OnEntry, InitSteps, OperationsIInv, Types, Creating, Erased, Pending
<1>2. State = "blocked" /\ Memory = Timeline!Empty
  BY <1>1, Remembered
<1>3. /\ entry'.layout = entry.layout /\ entry'.status = "ready" /\ entry'.gen = entry.gen
      /\ entry'.op = None /\ entry'.present
  BY <1>1 DEF Finish, OnEntry, Save, Entries
<1>4. Erasing' = FALSE /\ State' = "ready"
  BY <1>3 DEF Erasing, State
<1>5. disk' = disk /\ origin' = origin
  BY DEF Finish, OnEntry
<1>6. Memory' = Timeline!Empty
  <2>1. /\ entry.layout = "local" /\ disk.archive = {} /\ disk.local = EmptyDatabase(entry.gen)
        /\ entry.gen \in Generations
    BY <1>1 DEF Finish, OnEntry, Creating, Erased, Initialized, Entries
  <2>2. Archive(entry.layout)' = {} /\ Rows(entry.layout)' = {}
    BY <1>3, <1>5, <2>1, EmptyIsDatabase DEF Archive, Rows, RootOwned
  <2>3. QED
    BY <1>3, <1>4, <2>2 DEF Memory, Contents, Timeline!Empty
<1>7. entry'.gen >= entry.gen
  BY <1>1, <1>3, NoneIsNothing DEF Entries, Generations
<1>8. QED
  BY <1>2, <1>4, <1>6, <1>7, Finishes

\* The steps in the registry of an erasure.
LEMMA PhaseStays == ASSUME OperationsIInv, Phase PROVE [Timeline!Next]_Timeline!tvars
<1>1. Erased /\ entry \in Entries /\ entry.op \in Operations /\ entry.op # None
  BY StepTells DEF Phase, EraseSteps, OperationsIInv, Types, Erased, Pending, Entries
<1>2. Erased'
  <2>1. OperationsIInv' /\ pc' \in {"rmtree", "unlink"}
    BY PhaseIInv DEF Phase, OnEntry
  <2>2. QED
    BY <2>1 DEF OperationsIInv, Condition, NoCharacter, Creating, ReadyLegacy, ReadyLocal, Settled, Migrating, Cleaning
<1>3. entry'.gen = entry.gen
  BY <1>1 DEF Phase, OnEntry, Save, Entries
<1>4. OperationsIInv'
  BY PhaseIInv
<1>5. State' = "blocked" /\ Erasing' = TRUE /\ Memory' = Timeline!Empty
  <2>1. /\ entry'.present /\ entry'.status = "incomplete" /\ entry'.op # None
        /\ entry'.op.kind \in {"reset", "delete"}
    BY <1>2 DEF Erased, Pending
  <2>2. QED
    BY <2>1 DEF State, Erasing, Memory, Timeline!Empty
<1>6. State = "blocked" /\ Erasing = TRUE /\ Memory = Timeline!Empty
  BY <1>1, Remembered
<1>7. QED
  BY <1>3, <1>5, <1>6, StaysSame

LEMMA EpochWorks == ASSUME OperationsIInv, Epoch PROVE [Timeline!Next]_Timeline!tvars
<1>1. Erased /\ entry \in Entries /\ entry.op.newGen >= entry.gen
  BY StepTells, InsideTells DEF Epoch, OnEntry, EraseSteps, OperationsIInv, Types, Erased
<1>2. State = "blocked" /\ Erasing = TRUE /\ Memory = Timeline!Empty
  BY <1>1, Remembered
<1>3. /\ entry'.present = entry.present /\ entry'.status = "incomplete" /\ entry'.op = entry.op
      /\ entry'.gen = entry.op.newGen
  BY <1>1 DEF Epoch, OnEntry, Save, op, Entries
<1>4. State' = "blocked" /\ Erasing' = TRUE /\ Memory' = Timeline!Empty
  BY <1>1, <1>3 DEF State, Erasing, Memory, Timeline!Empty, Erased, Pending
<1>5. QED
  BY <1>1, <1>2, <1>3, <1>4, Works

LEMMA GoneVanishes == ASSUME OperationsIInv, Forget \/ CreateFails PROVE [Timeline!Next]_Timeline!tvars
<1>1. (Erased \/ Creating) /\ entry.gen \in Generations
  BY StepTells
     DEF Forget, OnEntry, EraseSteps, CreateFails, OperationsIInv, Types, Entries, Condition, NoCharacter, Absent,
         ReadyLegacy, ReadyLocal, Settled, Migrating, Cleaning, Pending
<1>2. State = "blocked" /\ Erasing = TRUE /\ Memory = Timeline!Empty
  BY <1>1, Remembered
<1>3. entry' = [Absent EXCEPT !.gen = entry.gen]
  BY DEF Forget, CreateFails, OnEntry, Save
<1>4. entry'.present = FALSE /\ entry'.gen = entry.gen
  BY <1>3 DEF Absent
<1>5. State' = "absent" /\ Erasing' = FALSE /\ Memory' = Timeline!Empty
  BY <1>4 DEF State, Erasing, Memory, Timeline!Empty
<1>6. QED
  BY <1>2, <1>4, <1>5, Vanishes

\* A new identity promises nothing yet.
LEMMA CreateCreates == ASSUME OperationsIInv, NEW q \in BOOLEAN, Create(q) PROVE [Timeline!Next]_Timeline!tvars
<1>1. entry.gen \in Nat /\ State = "absent"
  BY NoneIsNothing DEF Create, OperationsIInv, Types, Entries, Generations, State
<1>2. /\ entry'.present /\ entry'.status = "creating" /\ entry'.gen = entry.gen + 1
  BY DEF Create, OnEntry, Save, Absent
<1>3. State' = "blocked" /\ Erasing' = TRUE /\ Memory' = Timeline!Empty
  BY <1>2 DEF State, Erasing, Memory, Timeline!Empty
<1>4. entry'.gen > entry.gen
  BY <1>1, <1>2
<1>5. QED
  BY <1>1, <1>3, <1>4, Creates

\* What touches neither the registry nor the disk.
LEMMA AsideIsAside ==
    ASSUME \/ \E r \in Owners : OpenRuntime(r) \/ CloseRuntime(r)
           \/ OtherRegistryChange \/ \E a \in Actions : Preview(a)
           \/ Expire \/ Refuse \/ Resume \/ Interrupt
           \/ UNCHANGED operationVars
    PROVE  UNCHANGED <<origin, entry, disk>>
  BY DEF OpenRuntime, CloseRuntime, OtherRegistryChange, Preview, Expire, Refuse, Resume,
         Interrupt, operationVars

LEMMA InitTimeline == OperationsInit => Timeline!Init
<1> SUFFICES ASSUME OperationsInit PROVE Timeline!Init
  OBVIOUS
<1>1. OperationsIInv
  BY InitOperations
<1>2. entry.gen = 0
  BY DEF OperationsInit, Legacy, Absent
<1>3. Erasing = FALSE /\ State \in {"absent", "ready"}
  BY DEF OperationsInit, Legacy, Absent, Erasing, State
<1>4. Memory = Timeline!Empty
  <2>1. CASE origin = "new"
    BY <2>1 DEF OperationsInit, Absent, Memory, Timeline!Empty
  <2>2. CASE origin # "new"
    <3>1. entry.present /\ entry.layout = "legacy_shared"
      BY <2>2 DEF OperationsInit, Legacy, Absent
    <3>2. Contents(disk.rows) = {} /\ Contents(Archive("legacy_shared")) = {}
      <4>1. CASE origin = "default"
        BY <4>1 DEF OperationsInit, EmptyDisk, Contents, Archive, RootOwned
      <4>2. CASE origin = "legacy"
        <5>1. PICK a \in {None, {}} : disk = [EmptyDisk EXCEPT !.dir = "whole", !.archive = a, !.rows = {}]
          BY <4>2 DEF OperationsInit
        <5>2. QED
          BY <5>1, <4>2 DEF EmptyDisk, Contents, Archive, RootOwned
      <4>3. QED
        BY <2>2, <4>1, <4>2 DEF OperationsInit
    <3>3. QED
      BY <1>3, <3>1, <3>2 DEF Memory, Rows, Timeline!Empty
  <2>3. QED
    BY <2>1, <2>2
<1>5. QED
  BY <1>2, <1>3, <1>4 DEF Timeline!Init, State, Memory

\* Whatever the layout, and however often an operation is interrupted and resumed,
\* a character's memory only grows until an erasure is confirmed, survives every
\* move, and is empty and of a new generation after an erasure.
THEOREM StorageImplementsTimeline == OperationsSpec => ImplementsTimeline
<1>1. OperationsInit => Timeline!Init
  BY InitTimeline
<1>2. OperationsIInv /\ [OperationsNext]_operationVars => [Timeline!Next]_Timeline!tvars
  <2> SUFFICES ASSUME OperationsIInv, [OperationsNext]_operationVars PROVE [Timeline!Next]_Timeline!tvars
    OBVIOUS
  <2>1. CASE \/ \E r \in Owners : OpenRuntime(r) \/ CloseRuntime(r)
             \/ OtherRegistryChange \/ \E a \in Actions : Preview(a)
             \/ Expire \/ Refuse \/ Resume \/ Interrupt
             \/ UNCHANGED operationVars
    BY <2>1, AsideIsAside, AsideStays
  <2>2. CASE \E r \in Owners, x \in Items : Converse(r, x) \/ Observe(r, x)
    BY <2>2, ConverseRemembers, ObserveRemembers
  <2>3. CASE Begin
    BY <2>3, BeginBegins
  <2>4. CASE Execute
    BY <2>4, MigrationStays, CleaningStays, EmptyingStays, AdoptFinishes, CleanedFinishes,
       FinishFinishes, PhaseStays, EpochWorks, GoneVanishes, Zenon DEF Execute
  <2>5. CASE \E q \in BOOLEAN : Create(q)
    BY <2>5, CreateCreates
  <2>6. CASE MakeDirectory \/ WriteProfile \/ CreateFails
    BY <2>6, EmptyingStays, GoneVanishes
  <2>7. QED
    BY <2>1, <2>2, <2>3, <2>4, <2>5, <2>6, Zenon DEF OperationsNext
<1>3. QED
  BY <1>1, <1>2, OperationsInductive, PTL DEF OperationsSpec, ImplementsTimeline, Timeline!Spec
=============================================================================
