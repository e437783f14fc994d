---- MODULE CharacterOperations ----
(***************************************************************************)
(* The durable storage of one character and the journaled operations on it *)
(* (aifren/character/character_operations.py, character_registry.py):      *)
(* create, migrate, clean up, reset, delete and resume, with a crash or an *)
(* error possible between any two of their durable steps.                  *)
(*                                                                         *)
(* execute() holds the registry lock from its first to its last line, so   *)
(* its steps interleave only with what does not need that lock; a runtime  *)
(* is bound in one step here because module CharacterLease shows that an   *)
(* acquisition racing maintenance is refused.                              *)
(***************************************************************************)
EXTENDS Naturals

CONSTANTS
    Owners,          \* processes that may bind the character
    Items,           \* what the character can be told
    MaxTimelines,    \* bound: timeline generations
    None

VARIABLES
    origin,  \* how the character came about: fixes who owns the root archive
    entry,   \* its entry in characters/registry.json
    disk,    \* its files and its rows
    open,    \* runtimes holding its lease
    token,   \* the outstanding confirmation (bound: the newest; the code keeps 16)
    pc       \* the durable step execute() or create() is about to take

operationVars == <<origin, entry, disk, open, token, pc>>

\* What a file or a database holds: nothing there, or a set of items.
Generations == 0..MaxTimelines
Stores == {None} \cup SUBSET Items
Databases == {None} \cup [gen: Generations, data: SUBSET Items]
Layouts == {"legacy_shared", "local"}
Sources == {None} \cup [rows: Stores, root: Stores]
Snapshots == [archive: Stores, root: Stores, rows: Stores, index: BOOLEAN, local: Databases]
OperationKinds == {"migrate", "reset", "delete", "cleanup"}
Operations == [kind: OperationKinds, phase: {"prepared", "deleting_files", "resetting_files"},
               newGen: Generations, layout: Layouts, source: Sources, review: Snapshots]

\* None is no value of its own.
ASSUME OperationsAssumption ==
    /\ MaxTimelines \in Nat
    /\ \A s \in SUBSET Items : s # None
    /\ None \notin [gen: Generations, data: SUBSET Items]
    /\ None \notin [rows: Stores, root: Stores]
    /\ None \notin Operations

Contents(store) == IF store = None THEN {} ELSE store

Absent == [present |-> FALSE, layout |-> "local", status |-> "ready", gen |-> 0,
           source |-> None, op |-> None, request |-> FALSE]

\* dir: "bare" lacks the authored profile.  archive, root: conversation.json in
\* the owned directory and in the application root.  rows, index: the rows in
\* the shared database and their ANN shards.  staged: .migration-<id>/.
EmptyDisk == [dir |-> "missing", archive |-> None, root |-> None, rows |-> None,
              index |-> FALSE, local |-> None, staged |-> None]

Legacy == [Absent EXCEPT !.present = TRUE, !.layout = "legacy_shared"]

OperationsInit ==
    /\ origin \in {"default", "legacy", "new"}
    /\ entry = IF origin = "new" THEN Absent ELSE Legacy
    /\ \/ origin = "new" /\ disk = EmptyDisk
       \/ origin = "default"
          /\ disk = [EmptyDisk EXCEPT !.dir = "whole", !.root = {}, !.rows = {}]
       \/ origin = "legacy"      \* never spoken to: its first run writes []
          /\ \E a \in {None, {}} :
                disk = [EmptyDisk EXCEPT !.dir = "whole", !.archive = a, !.rows = {}]
    /\ open = {}
    /\ token = None
    /\ pc = "idle"

-----------------------------------------------------------------------------
(* Selection: registry.runtime_paths_for and assert_storage_ready.         *)

\* Only the legacy default identity keeps its archive in the application root.
RootOwned(layout) == origin = "default" /\ layout = "legacy_shared"

Archive(layout) == IF RootOwned(layout) THEN disk.root ELSE disk.archive

Rows(layout) ==
    IF layout = "legacy_shared" THEN disk.rows
    ELSE IF disk.local = None THEN None ELSE disk.local.data

LegacyConsistent ==
    \/ Archive(entry.layout) # None /\ disk.dir = "whole"
    \/ Contents(disk.rows) = {}

StorageReady ==
    /\ entry.present /\ entry.status = "ready" /\ entry.op = None
    /\ IF entry.layout = "local"
       THEN /\ disk.dir = "whole" /\ disk.archive # None
            /\ disk.local # None /\ disk.local.gen = entry.gen
       ELSE LegacyConsistent

\* What _selected_state fingerprints for a review.
Snapshot == [archive |-> disk.archive, root |-> disk.root, rows |-> disk.rows,
             index |-> disk.index, local |-> disk.local]

\* registry._save: the revision grows, so no earlier review matches it.
Save(e) == entry' = e

Restale(tok) == IF tok = None THEN None ELSE [tok EXCEPT !.fresh = FALSE]

-----------------------------------------------------------------------------
(* A bound runtime.  Its writes pass assert_current, which needs the       *)
(* registry lock.                                                          *)

OpenRuntime(r) ==
    /\ pc = "idle"
    /\ r \notin open
    /\ StorageReady
    /\ open' = open \cup {r}
    /\ UNCHANGED <<origin, entry, disk, token, pc>>

CloseRuntime(r) ==
    /\ r \in open
    /\ open' = open \ {r}
    /\ UNCHANGED <<origin, entry, disk, token, pc>>

\* Conversation.save of the archive the layout selects.
Converse(r, x) ==
    /\ r \in open /\ pc = "idle"
    /\ disk' = IF RootOwned(entry.layout)
               THEN [disk EXCEPT !.root = Contents(@) \cup {x}]
               ELSE [disk EXCEPT !.archive = Contents(@) \cup {x}]
    /\ UNCHANGED <<origin, entry, open, token, pc>>

\* The observers derive rows (and, beside the shared database, ANN shards)
\* from the saved archive.
Observe(r, x) ==
    /\ r \in open /\ pc = "idle"
    /\ x \in Contents(Archive(entry.layout))
    /\ disk' = IF entry.layout = "legacy_shared"
               THEN [disk EXCEPT !.rows = Contents(@) \cup {x}, !.index = TRUE]
               ELSE [disk EXCEPT !.local.data = @ \cup {x}]
    /\ UNCHANGED <<origin, entry, open, token, pc>>

\* registry.update or another character's operation: one more revision.
OtherRegistryChange ==
    /\ pc = "idle" /\ token # None
    /\ token' = Restale(token)
    /\ UNCHANGED <<origin, entry, disk, open, pc>>

-----------------------------------------------------------------------------
(* preview and the admission half of execute.                              *)

Actions == OperationKinds \cup {"resume"}

Preview(action) ==
    /\ pc = "idle"
    /\ entry.present
    /\ (entry.op # None) = (action = "resume")
    /\ entry.status = "creating" => action = "delete"
    /\ action \in {"reset", "migrate"} => disk.dir = "whole"
    /\ action = "migrate" /\ entry.layout = "legacy_shared" => LegacyConsistent
    /\ token' = [action |-> action, seen |-> Snapshot, fresh |-> TRUE]
    /\ UNCHANGED <<origin, entry, disk, open, pc>>

Expire ==
    /\ token # None
    /\ token' = None
    /\ UNCHANGED <<origin, entry, disk, open, pc>>

\* Mutant: only the registry revision is compared, not the fingerprint.
ConfirmedByRevision == token.fresh

Confirmed == token.fresh /\ token.seen = Snapshot

\* A delete whose directory is already gone runs without the lease.
MissingDeleted ==
    /\ entry.op # None /\ entry.op.kind = "delete"
    /\ entry.op.phase = "deleting_files" /\ disk.dir = "missing"

MissingCreation ==
    /\ token.action = "delete" /\ entry.status = "creating"
    /\ entry.request /\ disk.dir = "missing"

\* Mutant: maintenance does not wait for the runtimes to let go.
LeaseIgnored == disk.dir # "missing"

\* maintenance_lease: the directory must exist and no runtime may hold it.
LeaseFree == disk.dir # "missing" /\ open = {}

MayExecute == Confirmed /\ (MissingDeleted \/ MissingCreation \/ LeaseFree)

NothingToDo ==
    \/ token.action = "migrate" /\ entry.layout = "local"
    \/ token.action = "cleanup" /\ entry.source = None

\* The token is consumed before anything is checked.
Refuse ==
    /\ pc = "idle" /\ token # None
    /\ ~MayExecute \/ NothingToDo
    /\ token' = None
    /\ UNCHANGED <<origin, entry, disk, open, pc>>

FirstStep(kind) == CASE kind = "migrate" -> "stage"
                     [] kind = "cleanup" -> "verify_local"
                     [] OTHER -> "erase"

\* Journal the operation before its first change.
Begin ==
    /\ pc = "idle" /\ token # None /\ token.action # "resume"
    /\ MayExecute /\ ~NothingToDo
    /\ LET newGen == IF token.action \in {"reset", "migrate"} THEN entry.gen + 1 ELSE entry.gen
       IN  /\ newGen <= MaxTimelines
           /\ Save([entry EXCEPT !.status = "incomplete",
                                 !.op = [kind |-> token.action, phase |-> "prepared",
                                         newGen |-> newGen, layout |-> entry.layout,
                                         source |-> entry.source, review |-> token.seen]])
    /\ pc' = FirstStep(token.action)
    /\ token' = None
    /\ UNCHANGED <<origin, disk, open>>

Resume ==
    /\ pc = "idle" /\ token # None /\ token.action = "resume"
    /\ MayExecute
    /\ pc' = FirstStep(entry.op.kind)
    /\ token' = None
    /\ UNCHANGED <<origin, entry, disk, open>>

\* An exception or a crash: the journal stays, the locks are released.
Interrupt ==
    /\ pc # "idle"
    /\ pc' = "idle"
    /\ UNCHANGED <<origin, entry, disk, open, token>>

-----------------------------------------------------------------------------
(* The durable steps.  A step whose check fails raises: Interrupt.         *)

op == entry.op

Step(at, next) == pc = at /\ pc' = next /\ UNCHANGED <<origin, open, token>>

OnDisk(at, next, d) == Step(at, next) /\ disk' = d /\ UNCHANGED entry

OnEntry(at, next, e) ==
    /\ pc = at /\ pc' = next
    /\ Save(e)
    /\ token' = Restale(token)
    /\ UNCHANGED <<origin, disk, open>>

\* _migrate: build the local database in the staging directory, ...
Stage ==
    /\ pc = "stage"
    /\ disk.dir = "whole"
    /\ Contents(op.review.rows) # {} => Archive(op.layout) # None
    /\ \/ /\ disk.local = None
          /\ disk.rows = op.review.rows
          /\ OnDisk("stage", "publish",
                    [disk EXCEPT !.staged = [gen |-> op.newGen, data |-> Contents(disk.rows)]])
       \/ /\ disk.local # None      \* an interrupted attempt published it
          /\ disk.local = [gen |-> op.newGen, data |-> Contents(op.review.rows)]
          /\ OnDisk("stage", "copy_files", disk)

Publish ==
    OnDisk("publish", "copy_files", [disk EXCEPT !.local = disk.staged, !.staged = None])

\* Mutant: the root archive stays where it was.
CopyNothing == OnDisk("copy_files", "adopt", disk)

\* ... copy the root archive beside it, ...
CopyFiles ==
    /\ pc = "copy_files"
    /\ \/ /\ RootOwned(op.layout)
          /\ disk.root = op.review.root
          /\ disk.root # None => disk.archive \in {None, disk.root}
          /\ OnDisk("copy_files", "adopt",
                    [disk EXCEPT !.archive = IF disk.root # None THEN disk.root ELSE Contents(@)])
       \/ ~RootOwned(op.layout) /\ OnDisk("copy_files", "adopt", disk)

\* ... and publish the pointer last; the originals stay as a retained source.
Adopt ==
    OnEntry("adopt", "idle",
            [entry EXCEPT !.layout = "local", !.status = "ready", !.gen = op.newGen,
                          !.source = [rows |-> op.review.rows, root |-> op.review.root],
                          !.op = None])

\* _cleanup: nothing of the source goes before the destination is checked.
VerifyLocal ==
    pc = "verify_local" /\ disk.local = op.review.local /\ OnDisk("verify_local", "clean_rows", disk)

\* _erase: an erased profile cannot be invented.
Erase ==
    pc = "erase" /\ (op.kind = "reset" => disk.dir = "whole") /\ OnDisk("erase", "clean_rows", disk)

\* _clean_old and the shared rows of a legacy layout: one SQLite transaction
\* that refuses rows newer than the review and accepts none.
CleanRows ==
    /\ pc = "clean_rows"
    /\ IF op.source # None \/ op.layout = "legacy_shared"
       THEN /\ disk.rows \in {None, op.review.rows}
            /\ OnDisk("clean_rows", "clean_retained", [disk EXCEPT !.rows = None])
       ELSE OnDisk("clean_rows", "clean_retained", disk)

\* Mutant: a retained root archive is forgotten by the erasure.
KeepRetained == OnDisk("clean_retained", "clean_index", disk)

\* The retained root archive, if a migration left one.
CleanRetained ==
    /\ pc = "clean_retained"
    /\ IF op.source # None /\ op.source.root # None
       THEN /\ disk.root \in {None, op.review.root}
            /\ OnDisk("clean_retained", "clean_index", [disk EXCEPT !.root = None])
       ELSE OnDisk("clean_retained", "clean_index", disk)

CleanIndex ==
    OnDisk("clean_index", IF op.kind = "cleanup" THEN "cleaned" ELSE "clean_root",
           [disk EXCEPT !.index = FALSE])

Cleaned ==
    OnEntry("cleaned", "idle",
            [entry EXCEPT !.source = None, !.op = None, !.status = "ready"])

\* The files of a legacy layout outside the owned directory.
CleanRoot ==
    OnDisk("clean_root", "phase",
           IF RootOwned(op.layout) THEN [disk EXCEPT !.root = None] ELSE disk)

Phase ==
    /\ pc = "phase"
    /\ \/ /\ op.kind = "delete"
          /\ OnEntry("phase", "rmtree", [entry EXCEPT !.op.phase = "deleting_files"])
       \/ /\ op.kind = "reset"
          /\ OnEntry("phase", "unlink", [entry EXCEPT !.op.phase = "resetting_files"])

\* rmtree in directory order: any part of the tree may be gone at a crash.
RemoveTree ==
    \/ /\ disk.dir # "missing"
       /\ \E d \in {[disk EXCEPT !.dir = "bare"], [disk EXCEPT !.archive = None],
                    [disk EXCEPT !.local = None]} :
            d # disk /\ OnDisk("rmtree", "rmtree", d)
    \/ OnDisk("rmtree", "forget",
              [disk EXCEPT !.dir = "missing", !.archive = None, !.local = None, !.staged = None])

Forget == OnEntry("forget", "idle", [Absent EXCEPT !.gen = entry.gen])

\* Reset keeps the profile; the rest of the directory goes file by file.
Unlink ==
    \/ \E d \in {[disk EXCEPT !.archive = None], [disk EXCEPT !.local = None]} :
         d # disk /\ OnDisk("unlink", "unlink", d)
    \/ disk.archive = None /\ disk.local = None
       /\ OnDisk("unlink", "epoch", [disk EXCEPT !.staged = None])

Epoch ==
    OnEntry("epoch", "init_archive",
            [entry EXCEPT !.layout = "local", !.status = "incomplete",
                          !.gen = op.newGen, !.source = None])

\* initialize_empty_continuity: files, an empty database, then its identity.
InitArchive ==
    disk.local = None
    /\ OnDisk("init_archive", "init_database", [disk EXCEPT !.archive = {}])

InitDatabase ==
    OnDisk("init_database", "stamp", [disk EXCEPT !.local = [gen |-> 0, data |-> {}]])

\* Mutant: the empty database gets one epoch too many.
StampNext == OnDisk("stamp", "finish", [disk EXCEPT !.local.gen = entry.gen + 1])

Stamp == OnDisk("stamp", "finish", [disk EXCEPT !.local.gen = entry.gen])

Finish ==
    OnEntry("finish", "idle", [entry EXCEPT !.op = None, !.status = "ready"])

-----------------------------------------------------------------------------
(* registry.create.                                                        *)

Create(request) ==
    /\ origin = "new"
    /\ pc = "idle"
    /\ ~entry.present
    /\ entry.gen < MaxTimelines
    /\ OnEntry("idle", "make_directory",
               [Absent EXCEPT !.present = TRUE, !.status = "creating",
                              !.gen = entry.gen + 1, !.request = request])

MakeDirectory == OnDisk("make_directory", "write_profile", [disk EXCEPT !.dir = "bare"])

WriteProfile == OnDisk("write_profile", "init_archive", [disk EXCEPT !.dir = "whole"])

\* An exception, unlike a crash, takes the new identity back.
CreateFails ==
    /\ entry.status = "creating"
    /\ pc \in {"make_directory", "write_profile", "init_archive", "init_database", "stamp", "finish"}
    /\ disk' = [disk EXCEPT !.dir = "missing", !.archive = None, !.local = None]
    /\ Save([Absent EXCEPT !.gen = entry.gen])
    /\ token' = Restale(token)
    /\ pc' = "idle"
    /\ UNCHANGED <<origin, open>>

-----------------------------------------------------------------------------
Execute ==
    \/ Stage \/ Publish \/ CopyFiles \/ Adopt
    \/ VerifyLocal \/ Erase \/ CleanRows \/ CleanRetained \/ CleanIndex \/ Cleaned
    \/ CleanRoot \/ Phase \/ RemoveTree \/ Forget \/ Unlink \/ Epoch
    \/ InitArchive \/ InitDatabase \/ Stamp \/ Finish

OperationsNext ==
    \/ \E r \in Owners :
         \/ OpenRuntime(r) \/ CloseRuntime(r)
         \/ \E x \in Items : Converse(r, x) \/ Observe(r, x)
    \/ OtherRegistryChange
    \/ \E a \in Actions : Preview(a)
    \/ Expire \/ Refuse \/ Begin \/ Resume \/ Interrupt
    \/ Execute
    \/ \E q \in BOOLEAN : Create(q)
    \/ MakeDirectory \/ WriteProfile \/ CreateFails

OperationsSpec == OperationsInit /\ [][OperationsNext]_operationVars
====
