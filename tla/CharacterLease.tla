---- MODULE CharacterLease ----
(***************************************************************************)
(* The cooperative lifetime lease of one character's storage               *)
(* (aifren/character/character_storage_runtime.py).                        *)
(*                                                                         *)
(* A runtime holds a shared flock on the character's .continuity.lock from *)
(* acquire_runtime_lease until its lease is retired, and each write runs   *)
(* inside lease.writing().  Maintenance (the body of                       *)
(* CharacterOperationService.execute) takes the registry lock, then the    *)
(* exclusive flock without waiting, and may change the timeline generation,*)
(* replace the database or remove the directory and the lock file itself.  *)
(* Either process may crash at any step: the kernel then drops its flocks. *)
(*                                                                         *)
(* A flock belongs to an inode, not to a path: a runtime that opened the   *)
(* lock file before maintenance unlinked it can still lock the old inode.  *)
(***************************************************************************)
EXTENDS Naturals

CONSTANTS
    Runtimes,        \* processes (or services) that may bind the character
    Threads,         \* threads of a runtime that share its lease
    NoThread,        \* the owner of a free lease mutex
    MaxGeneration,   \* bound: timeline generations
    MaxInode,        \* bound: lock files created
    MaxDepth         \* bound: nesting of writing() in one thread

ASSUME LeaseAssumption ==
    /\ NoThread \notin Threads
    /\ MaxGeneration \in Nat \ {0}
    /\ MaxInode \in Nat \ {0}
    /\ MaxDepth \in Nat \ {0}

VARIABLES
    registry,    \* the durable registry entry of the character
    database,    \* generation in the local database's database_meta, 0: no file
    directory,   \* whether the registry-owned directory exists
    lockFile,    \* inode at <directory>/.continuity.lock, 0: no file
    inodes,      \* inodes allocated so far
    maint,       \* where the maintenance process is
    exclusive,   \* inode maintenance holds LOCK_EX on, 0: none
    lease        \* the CharacterRuntimeLease of each runtime

vars == <<registry, database, directory, lockFile, inodes, maint, exclusive, lease>>

Kinds == {"none", "reset", "delete"}
MaintSteps == {"idle", "opened", "locked", "working"}
LeaseSteps == {"none", "read", "opened", "locked", "checked", "live"}

\* phase: acquire's progress; gen, inode: the identity the lease was built for;
\* held: the descriptor holds LOCK_SH; closed, depth, mutex: the lease object.
Unbound == [phase |-> "none", gen |-> 0, inode |-> 0, held |-> FALSE,
            closed |-> FALSE, depth |-> 0, mutex |-> NoThread]

Entry ==
    [present: BOOLEAN, ready: BOOLEAN, gen: 1..MaxGeneration, op: Kinds,
     newGen: 1..MaxGeneration]

LeaseObject ==
    [phase: LeaseSteps, gen: 0..MaxGeneration, inode: 0..MaxInode, held: BOOLEAN,
     closed: BOOLEAN, depth: 0..MaxDepth, mutex: Threads \cup {NoThread}]

TypeOK ==
    /\ registry \in Entry
    /\ database \in 0..MaxGeneration
    /\ directory \in BOOLEAN
    /\ lockFile \in 0..MaxInode
    /\ inodes \in 0..MaxInode
    /\ maint \in MaintSteps
    /\ exclusive \in 0..MaxInode
    /\ lease \in [Runtimes -> LeaseObject]

Init ==
    /\ registry = [present |-> TRUE, ready |-> TRUE, gen |-> 1,
                   op |-> "none", newGen |-> 1]
    /\ database = 1
    /\ directory = TRUE
    /\ lockFile = 0
    /\ inodes = 0
    /\ maint = "idle"
    /\ exclusive = 0
    /\ lease = [r \in Runtimes |-> Unbound]

-----------------------------------------------------------------------------
(* Operators both sides use.                                               *)

\* execute() keeps registry.locked() from its first line to its last, so a
\* refresh() by anyone else waits while maintenance runs.
RegistryFree == maint = "idle"

\* _open_lock: O_CREAT inside the existing directory; the path then names f.
OpensLock(f) ==
    /\ directory
    /\ \/ lockFile # 0 /\ f = lockFile /\ UNCHANGED <<lockFile, inodes>>
       \/ /\ lockFile = 0
          /\ inodes < MaxInode
          /\ f = inodes + 1
          /\ lockFile' = f
          /\ inodes' = f

\* The checks of assert_current that maintenance can falsify.
IsCurrent(r) ==
    /\ registry.present /\ registry.ready /\ registry.op = "none"
    /\ lease[r].gen = registry.gen
    /\ directory /\ lease[r].inode = lockFile
    /\ database # 0

\* What LOCK_SH|LOCK_NB finds: it refuses only the same inode.
SharedAvailable(f) == exclusive # f

\* What LOCK_EX|LOCK_NB finds.
ExclusiveAvailable(f) == \A r \in Runtimes : ~(lease[r].held /\ lease[r].inode = f)

-----------------------------------------------------------------------------
(* acquire_runtime_lease, one action per point another process can get in. *)

ReadEntry(r) ==
    /\ lease[r].phase = "none"
    /\ RegistryFree
    /\ registry.present /\ registry.ready /\ registry.op = "none"
    /\ lease' = [lease EXCEPT ![r] = [Unbound EXCEPT !.phase = "read", !.gen = registry.gen]]
    /\ UNCHANGED <<registry, database, directory, lockFile, inodes, maint, exclusive>>

OpenLock(r) ==
    /\ lease[r].phase = "read"
    /\ \/ \E f \in 1..MaxInode :
            /\ OpensLock(f)
            /\ lease' = [lease EXCEPT ![r] = [@ EXCEPT !.phase = "opened", !.inode = f]]
       \/ /\ ~directory          \* CharacterStorageError: unavailable or unsafe
          /\ lease' = [lease EXCEPT ![r] = Unbound]
          /\ UNCHANGED <<lockFile, inodes>>
    /\ UNCHANGED <<registry, database, directory, maint, exclusive>>

LockShared(r) ==
    /\ lease[r].phase = "opened"
    /\ lease' = IF SharedAvailable(lease[r].inode)
                THEN [lease EXCEPT ![r] = [@ EXCEPT !.phase = "locked", !.held = TRUE]]
                ELSE [lease EXCEPT ![r] = Unbound]     \* CharacterStorageBusy
    /\ UNCHANGED <<registry, database, directory, lockFile, inodes, maint, exclusive>>

CheckDatabase(r) ==
    /\ lease[r].phase = "locked"
    /\ lease' = IF database = lease[r].gen
                THEN [lease EXCEPT ![r] = [@ EXCEPT !.phase = "checked"]]
                ELSE [lease EXCEPT ![r] = Unbound]     \* lease.close(); raise
    /\ UNCHANGED <<registry, database, directory, lockFile, inodes, maint, exclusive>>

\* Mutant: the lease is returned without the last assert_current.
AdmitUnchecked(r) ==
    /\ lease[r].phase = "checked"
    /\ RegistryFree
    /\ lease' = [lease EXCEPT ![r] = [@ EXCEPT !.phase = "live"]]
    /\ UNCHANGED <<registry, database, directory, lockFile, inodes, maint, exclusive>>

\* The last assert_current of acquire_runtime_lease.
Admit(r) ==
    /\ lease[r].phase = "checked"
    /\ RegistryFree
    /\ lease' = IF IsCurrent(r)
                THEN [lease EXCEPT ![r] = [@ EXCEPT !.phase = "live"]]
                ELSE [lease EXCEPT ![r] = Unbound]     \* lease.close(); raise
    /\ UNCHANGED <<registry, database, directory, lockFile, inodes, maint, exclusive>>

-----------------------------------------------------------------------------
(* writing() and close()/retire() on the shared lease object.              *)

MutexFree(r, t) == lease[r].mutex \in {NoThread, t}     \* threading.RLock

\* Entering writing(): assert_current under the mutex, then depth + 1.
BeginWrite(r, t) ==
    /\ lease[r].phase = "live"
    /\ MutexFree(r, t)
    /\ ~lease[r].closed
    /\ RegistryFree
    /\ IsCurrent(r)
    /\ lease[r].depth < MaxDepth
    /\ lease' = [lease EXCEPT ![r] = [@ EXCEPT !.mutex = t, !.depth = lease[r].depth + 1]]
    /\ UNCHANGED <<registry, database, directory, lockFile, inodes, maint, exclusive>>

\* Mutant: the outermost exit decrements once too often.
EndWriteTwice(r, t) ==
    /\ lease[r].mutex = t
    /\ lease[r].depth > 0
    /\ lease' = [lease EXCEPT ![r] = [@ EXCEPT !.depth = lease[r].depth - 2]]
    /\ UNCHANGED <<registry, database, directory, lockFile, inodes, maint, exclusive>>

\* Mutant: the outermost exit does not complete a retirement.
EndWriteKeeps(r, t) ==
    /\ lease[r].mutex = t
    /\ lease[r].depth > 0
    /\ lease' = IF lease[r].depth > 1
                THEN [lease EXCEPT ![r] = [@ EXCEPT !.depth = lease[r].depth - 1]]
                ELSE [lease EXCEPT ![r] = [@ EXCEPT !.depth = 0, !.mutex = NoThread]]
    /\ UNCHANGED <<registry, database, directory, lockFile, inodes, maint, exclusive>>

\* Leaving writing(): the outermost exit completes a retirement made inside.
EndWrite(r, t) ==
    /\ lease[r].mutex = t
    /\ lease[r].depth > 0
    /\ lease' = CASE lease[r].depth > 1 -> [lease EXCEPT ![r] = [@ EXCEPT !.depth = lease[r].depth - 1]]
                  [] lease[r].depth = 1 /\ lease[r].closed -> [lease EXCEPT ![r] = Unbound]
                  [] OTHER -> [lease EXCEPT ![r] = [@ EXCEPT !.depth = 0, !.mutex = NoThread]]
    /\ UNCHANGED <<registry, database, directory, lockFile, inodes, maint, exclusive>>

\* Mutant: close() drops the flock although its own thread is still writing.
CloseDrops(r, t) ==
    /\ lease[r].phase = "live"
    /\ MutexFree(r, t)
    /\ ~lease[r].closed
    /\ lease' = IF lease[r].depth = 0
                THEN [lease EXCEPT ![r] = Unbound]
                ELSE [lease EXCEPT ![r] = [@ EXCEPT !.closed = TRUE, !.held = FALSE]]
    /\ UNCHANGED <<registry, database, directory, lockFile, inodes, maint, exclusive>>

\* close(): another thread waits for the mutex; the writing thread itself only
\* marks the lease, and the flock survives until its write has finished.
Close(r, t) ==
    /\ lease[r].phase = "live"
    /\ MutexFree(r, t)
    /\ ~lease[r].closed
    /\ lease' = IF lease[r].depth = 0
                THEN [lease EXCEPT ![r] = Unbound]
                ELSE [lease EXCEPT ![r] = [@ EXCEPT !.closed = TRUE]]
    /\ UNCHANGED <<registry, database, directory, lockFile, inodes, maint, exclusive>>

RuntimeCrash(r) ==
    /\ lease[r].phase # "none"
    /\ lease' = [lease EXCEPT ![r] = Unbound]
    /\ UNCHANGED <<registry, database, directory, lockFile, inodes, maint, exclusive>>

-----------------------------------------------------------------------------
(* maintenance_lease around the steps of an operation.                     *)

\* registry.locked(), then _entry and _open_lock.
MaintenanceOpen ==
    /\ maint = "idle"
    /\ registry.present
    /\ \E f \in 1..MaxInode : OpensLock(f)
    /\ maint' = "opened"
    /\ UNCHANGED <<registry, database, directory, exclusive, lease>>

MaintenanceLock ==
    /\ maint = "opened"
    /\ \/ ExclusiveAvailable(lockFile) /\ exclusive' = lockFile /\ maint' = "locked"
       \/ ~ExclusiveAvailable(lockFile) /\ maint' = "idle" /\ UNCHANGED exclusive
    /\ UNCHANGED <<registry, database, directory, lockFile, inodes, lease>>

\* Save the journal (or take up the one a crash left) before any change.
Journal ==
    /\ maint = "locked"
    /\ maint' = "working"
    /\ \/ registry.op # "none" /\ UNCHANGED registry
       \/ /\ registry.op = "none" /\ registry.gen < MaxGeneration
          /\ registry' = [registry EXCEPT !.ready = FALSE, !.op = "reset",
                                          !.newGen = registry.gen + 1]
       \/ /\ registry.op = "none"
          /\ registry' = [registry EXCEPT !.ready = FALSE, !.op = "delete"]
    /\ UNCHANGED <<database, directory, lockFile, inodes, exclusive, lease>>

\* Reset: the lock file is preserved, the database is removed, ...
EraseDatabase ==
    /\ maint = "working" /\ registry.op = "reset"
    /\ database # 0 /\ database # registry.newGen
    /\ database' = 0
    /\ UNCHANGED <<registry, directory, lockFile, inodes, maint, exclusive, lease>>

\* ... the new epoch is saved while the entry is still incomplete, ...
SaveEpoch ==
    /\ maint = "working" /\ registry.op = "reset"
    /\ database = 0 /\ registry.gen # registry.newGen
    /\ registry' = [registry EXCEPT !.gen = registry.newGen]
    /\ UNCHANGED <<database, directory, lockFile, inodes, maint, exclusive, lease>>

\* ... and an empty database of that epoch precedes the ready pointer.
InitializeEmpty ==
    /\ maint = "working" /\ registry.op = "reset"
    /\ database = 0 /\ registry.gen = registry.newGen
    /\ database' = registry.newGen
    /\ UNCHANGED <<registry, directory, lockFile, inodes, maint, exclusive, lease>>

PublishReset ==
    /\ maint = "working" /\ registry.op = "reset"
    /\ database = registry.newGen /\ registry.gen = registry.newGen
    /\ registry' = [registry EXCEPT !.ready = TRUE, !.op = "none"]
    /\ maint' = "idle"
    /\ exclusive' = 0
    /\ UNCHANGED <<database, directory, lockFile, inodes, lease>>

\* Delete: rmtree unlinks the files in directory order, then the directory.
UnlinkLock ==
    /\ maint = "working" /\ registry.op = "delete" /\ directory
    /\ lockFile # 0
    /\ lockFile' = 0
    /\ UNCHANGED <<registry, database, directory, inodes, maint, exclusive, lease>>

UnlinkDatabase ==
    /\ maint = "working" /\ registry.op = "delete" /\ directory
    /\ database # 0
    /\ database' = 0
    /\ UNCHANGED <<registry, directory, lockFile, inodes, maint, exclusive, lease>>

RemoveDirectory ==
    /\ maint = "working" /\ registry.op = "delete" /\ directory
    /\ lockFile = 0 /\ database = 0
    /\ directory' = FALSE
    /\ UNCHANGED <<registry, database, lockFile, inodes, maint, exclusive, lease>>

\* The entry is removed last; with the directory gone a resumed delete needs
\* no lease (nullcontext), only the registry lock.
RemoveEntry ==
    /\ registry.present /\ registry.op = "delete" /\ ~directory
    /\ maint \in {"idle", "working"}
    /\ registry' = [registry EXCEPT !.present = FALSE]
    /\ maint' = "idle"
    /\ exclusive' = 0
    /\ UNCHANGED <<database, directory, lockFile, inodes, lease>>

MaintenanceCrash ==
    /\ maint # "idle"
    /\ maint' = "idle"
    /\ exclusive' = 0
    /\ UNCHANGED <<registry, database, directory, lockFile, inodes, lease>>

-----------------------------------------------------------------------------
Acquire(r) ==
    ReadEntry(r) \/ OpenLock(r) \/ LockShared(r) \/ CheckDatabase(r) \/ Admit(r)

Maintain ==
    \/ MaintenanceOpen \/ MaintenanceLock \/ Journal
    \/ EraseDatabase \/ SaveEpoch \/ InitializeEmpty \/ PublishReset
    \/ UnlinkLock \/ UnlinkDatabase \/ RemoveDirectory \/ RemoveEntry
    \/ MaintenanceCrash

Next ==
    \/ \E r \in Runtimes :
         \/ Acquire(r)
         \/ RuntimeCrash(r)
         \/ \E t \in Threads : BeginWrite(r, t) \/ EndWrite(r, t) \/ Close(r, t)
    \/ Maintain

\* A write is a finite block of code: its thread leaves writing() eventually.
Fairness == \A r \in Runtimes, t \in Threads : WF_vars(EndWrite(r, t))

Spec == Init /\ [][Next]_vars /\ Fairness

-----------------------------------------------------------------------------
(* Properties.                                                             *)

Writing(r) == lease[r].depth > 0

Maintaining == maint \in {"locked", "working"}

\* An admitted write is never overtaken: from the check in writing() to the end
\* of its outermost block the entry is ready, of the writer's generation, on the
\* database of that generation, and no maintenance is changing them, even if
\* the lease is retired meanwhile or maintenance crashed and was resumed.
WriteFenced ==
    \A r \in Runtimes : Writing(r) =>
        /\ registry.present /\ registry.ready /\ registry.op = "none"
        /\ registry.gen = lease[r].gen
        /\ database = lease[r].gen
        /\ ~Maintaining

\* While maintenance may change storage no runtime has an admitted lease,
\* even one that locked an inode the path no longer names.
MaintenanceAlone ==
    Maintaining =>
        \A r \in Runtimes : lease[r].phase # "live"

\* A lease retired from inside its own write gives its flock back: later
\* maintenance is not refused for ever by a runtime that has gone.
RetirementReleases ==
    \A r \in Runtimes : lease[r].closed ~> ~lease[r].held

-----------------------------------------------------------------------------
(* The inductive invariant behind WriteFenced and MaintenanceAlone.        *)

\* An admitted lease pins everything maintenance would change: it still holds
\* LOCK_SH on the inode the path names, on storage of its own identity.
LivePins ==
    \A r \in Runtimes : lease[r].phase = "live" =>
        /\ IsCurrent(r)
        /\ ~Maintaining

\* A lease past LOCK_SH has the flock, and one past _open_lock has an inode.
Holds(r) ==
    /\ lease[r].phase \in {"locked", "checked", "live"} => lease[r].held
    /\ lease[r].phase \in {"opened", "locked", "checked", "live"} => lease[r].inode # 0

AcquiredHolds == \A r \in Runtimes : Holds(r)

\* Only an admitted lease has a write in it.
WritesAreAdmitted ==
    \A r \in Runtimes : Writing(r) => lease[r].phase = "live"

\* An entry without a journal is whole; the journal precedes every change.
JournalCovers ==
    /\ registry.present /\ registry.op = "none" => registry.ready /\ database = registry.gen
    /\ maint = "working" => registry.op # "none"

\* Maintenance past _open_lock has a lock file until its own rmtree removes it.
LockFileKnown ==
    maint \in {"opened", "locked"} => lockFile # 0

IInv == TypeOK /\ LivePins /\ AcquiredHolds /\ WritesAreAdmitted /\ JournalCovers /\ LockFileKnown
====
