---- MODULE CharacterLeaseProofs ----
(***************************************************************************)
(* TLAPS proofs that the lease fences writes from maintenance, for any     *)
(* number of runtimes, threads, generations, lock files and nested writes. *)
(***************************************************************************)
EXTENDS CharacterLease, TLAPS

\* The initial state has no lease, no maintenance and a whole entry.
LEMMA InitIInv == Init => IInv
  BY LeaseAssumption
     DEF LeaseAssumption, Init, IInv, TypeOK, LivePins, WritesAreAdmitted,
         JournalCovers, LockFileKnown, Writing, Unbound, Kinds, MaintSteps,
         LeaseSteps, LeaseObject, Entry, AcquiredHolds, Holds

\* Stuttering keeps the invariant: it mentions no variable outside vars.
LEMMA StutterIInv == IInv /\ UNCHANGED vars => IInv'
  BY DEF vars, IInv, TypeOK, LivePins, WritesAreAdmitted, JournalCovers,
         LockFileKnown, Writing, IsCurrent, Maintaining, AcquiredHolds, Holds

\* The unbound lease is a lease object, neither live nor writing.
LEMMA UnboundType ==
    Unbound \in LeaseObject /\ Unbound.phase = "none" /\ Unbound.depth = 0
  BY LeaseAssumption DEF LeaseAssumption, Unbound, LeaseObject, LeaseSteps

\* What a step of one runtime owes: a lease object that, if live, pins the
\* current storage, and that writes only when live.
LEMMA LeaseStep ==
    ASSUME IInv, NEW r \in Runtimes,
           lease'[r] \in LeaseObject,
           lease' = [lease EXCEPT ![r] = lease'[r]],
           UNCHANGED <<registry, database, directory, maint, exclusive>>,
           lockFile' \in 0..MaxInode, inodes' \in 0..MaxInode,
           lockFile # 0 => lockFile' = lockFile,
           lease'[r].depth > 0 => lease'[r].phase = "live",
           Holds(r)',
           lease'[r].phase = "live" => IsCurrent(r)' /\ ~Maintaining
    PROVE  IInv'
<1>1. TypeOK'
  BY DEF IInv, TypeOK
<1>2. \A q \in Runtimes \ {r} : lease'[q] = lease[q]
  BY DEF IInv, TypeOK
<1>3. LivePins'
  BY <1>2 DEF IInv, LivePins, AcquiredHolds, Holds, IsCurrent, Maintaining
<1>4. WritesAreAdmitted'
  BY <1>2 DEF IInv, WritesAreAdmitted, Writing
<1>5. JournalCovers' /\ LockFileKnown'
  BY DEF IInv, JournalCovers, LockFileKnown
<1>6. AcquiredHolds'
  BY <1>2 DEF IInv, AcquiredHolds, Holds
<1>7. QED
  BY <1>1, <1>3, <1>4, <1>5, <1>6 DEF IInv

\* Such a step that leaves the lease not live owes nothing about storage.
LEMMA QuietStep ==
    ASSUME IInv, NEW r \in Runtimes,
           lease'[r] \in LeaseObject,
           lease' = [lease EXCEPT ![r] = lease'[r]],
           UNCHANGED <<registry, database, directory, lockFile, inodes, maint, exclusive>>,
           lease'[r].depth = 0, lease'[r].phase # "live", Holds(r)'
    PROVE  IInv'
<1>1. lockFile' \in 0..MaxInode /\ inodes' \in 0..MaxInode
  BY DEF IInv, TypeOK
<1>2. ~(lease'[r].depth > 0)
  OBVIOUS
<1>3. QED
  BY <1>1, <1>2, LeaseStep

\* Giving a lease up is such a step, whatever it was.
LEMMA ReleaseStep ==
    ASSUME IInv, NEW r \in Runtimes, lease' = [lease EXCEPT ![r] = Unbound],
           UNCHANGED <<registry, database, directory, lockFile, inodes, maint, exclusive>>
    PROVE  IInv'
<1>1. lease'[r] = Unbound
  BY DEF IInv, TypeOK
<1>2. Holds(r)'
  BY <1>1, UnboundType DEF Holds
<1>3. QED
  BY <1>1, <1>2, UnboundType, QuietStep

\* A thread writes only through a live lease, so an acquisition that is not
\* live yet has no write in it.
LEMMA NotWriting ==
    ASSUME IInv, NEW r \in Runtimes, lease[r].phase # "live"
    PROVE  lease[r].depth = 0 /\ lease[r] \in LeaseObject
  BY DEF IInv, TypeOK, WritesAreAdmitted, Writing, LeaseObject

\* acquire_runtime_lease: only Admit makes a lease live, under the checks of
\* assert_current and with the registry free.
LEMMA AcquireIInv ==
    ASSUME IInv, NEW r \in Runtimes, Acquire(r)
    PROVE  IInv'
<1>0. lease \in [Runtimes -> LeaseObject] /\ TypeOK
  BY DEF IInv, TypeOK
<1>1. CASE ReadEntry(r)
  <2>1. lease'[r] = [Unbound EXCEPT !.phase = "read", !.gen = registry.gen]
    BY <1>0, <1>1 DEF ReadEntry
  <2>g. registry.gen \in 0..MaxGeneration
    BY <1>0, LeaseAssumption DEF LeaseAssumption, TypeOK, Entry
  <2>2. lease'[r] \in LeaseObject /\ lease'[r].phase = "read" /\ lease'[r].depth = 0
    BY <2>1, <2>g, UnboundType DEF LeaseObject, LeaseSteps
  <2>3. lease' = [lease EXCEPT ![r] = lease'[r]]
    BY <1>0, <1>1 DEF ReadEntry
  <2>4. Holds(r)'
    BY <2>2 DEF Holds
  <2>5. QED
    BY <1>1, <2>2, <2>3, <2>4, QuietStep DEF ReadEntry
<1>2. CASE OpenLock(r)
  <2>1. CASE ~directory
    BY <1>2, <2>1, ReleaseStep DEF OpenLock, OpensLock
  <2>2. CASE directory
    <3>1. PICK f \in 1..MaxInode :
            /\ OpensLock(f)
            /\ lease' = [lease EXCEPT ![r] = [@ EXCEPT !.phase = "opened", !.inode = f]]
      BY <1>2, <2>2 DEF OpenLock
    <3>2. lease'[r] = [lease[r] EXCEPT !.phase = "opened", !.inode = f]
      BY <1>0, <3>1
    <3>3. lease[r].depth = 0 /\ lease[r] \in LeaseObject
      BY <1>2, NotWriting DEF OpenLock
    <3>f. f \in 0..MaxInode /\ f # 0
      BY LeaseAssumption DEF LeaseAssumption
    <3>4. /\ lease'[r] \in LeaseObject /\ lease'[r].phase = "opened"
          /\ lease'[r].depth = 0 /\ lease'[r].inode = f
      BY <3>2, <3>3, <3>f DEF LeaseObject, LeaseSteps
    <3>h. Holds(r)'
      BY <3>4, <3>f DEF Holds
    <3>5. lease' = [lease EXCEPT ![r] = lease'[r]]
      BY <1>0, <3>1
    <3>6. /\ lockFile' \in 0..MaxInode /\ inodes' \in 0..MaxInode
          /\ lockFile # 0 => lockFile' = lockFile
      BY <1>0, <3>1 DEF OpensLock, TypeOK
    <3>7. UNCHANGED <<registry, database, directory, maint, exclusive>>
      BY <1>2 DEF OpenLock
    <3>8. QED
      BY <3>4, <3>h, <3>5, <3>6, <3>7, LeaseStep
  <2>3. QED
    BY <2>1, <2>2
<1>3. CASE LockShared(r)
  <2>1. CASE SharedAvailable(lease[r].inode)
    <3>1. lease[r].depth = 0 /\ lease[r] \in LeaseObject
      BY <1>3, NotWriting DEF LockShared
    <3>2. lease'[r] = [lease[r] EXCEPT !.phase = "locked", !.held = TRUE]
      BY <1>0, <1>3, <2>1 DEF LockShared
    <3>3. /\ lease'[r] \in LeaseObject /\ lease'[r].phase = "locked"
          /\ lease'[r].depth = 0 /\ lease'[r].held /\ lease'[r].inode = lease[r].inode
      BY <3>1, <3>2 DEF LeaseObject, LeaseSteps
    <3>h. Holds(r)'
      BY <1>3, <3>3 DEF Holds, IInv, AcquiredHolds, LockShared
    <3>4. lease' = [lease EXCEPT ![r] = lease'[r]]
      BY <1>0, <1>3, <2>1 DEF LockShared
    <3>5. QED
      BY <1>3, <3>3, <3>h, <3>4, QuietStep DEF LockShared
  <2>2. CASE ~SharedAvailable(lease[r].inode)
    BY <1>3, <2>2, ReleaseStep DEF LockShared
  <2>3. QED
    BY <2>1, <2>2
<1>4. CASE CheckDatabase(r)
  <2>1. CASE database = lease[r].gen
    <3>1. lease[r].depth = 0 /\ lease[r] \in LeaseObject
      BY <1>4, NotWriting DEF CheckDatabase
    <3>2. lease'[r] = [lease[r] EXCEPT !.phase = "checked"]
      BY <1>0, <1>4, <2>1 DEF CheckDatabase
    <3>3. /\ lease'[r] \in LeaseObject /\ lease'[r].phase = "checked"
          /\ lease'[r].depth = 0 /\ lease'[r].inode = lease[r].inode
          /\ lease'[r].held = lease[r].held
      BY <3>1, <3>2 DEF LeaseObject, LeaseSteps
    <3>h. Holds(r)'
      BY <1>4, <3>3 DEF Holds, IInv, AcquiredHolds, CheckDatabase
    <3>4. lease' = [lease EXCEPT ![r] = lease'[r]]
      BY <1>0, <1>4, <2>1 DEF CheckDatabase
    <3>5. QED
      BY <1>4, <3>3, <3>h, <3>4, QuietStep DEF CheckDatabase
  <2>2. CASE database # lease[r].gen
    BY <1>4, <2>2, ReleaseStep DEF CheckDatabase
  <2>3. QED
    BY <2>1, <2>2
<1>5. CASE Admit(r)
  <2>1. CASE IsCurrent(r)
    <3>1. lease[r].depth = 0 /\ lease[r] \in LeaseObject
      BY <1>5, NotWriting DEF Admit
    <3>2. lease'[r] = [lease[r] EXCEPT !.phase = "live"]
      BY <1>0, <1>5, <2>1 DEF Admit
    <3>3. /\ lease'[r] \in LeaseObject /\ lease'[r].phase = "live"
          /\ lease'[r].depth = 0 /\ lease'[r].held = lease[r].held
          /\ lease'[r].gen = lease[r].gen /\ lease'[r].inode = lease[r].inode
      BY <3>1, <3>2 DEF LeaseObject, LeaseSteps
    <3>4. lease' = [lease EXCEPT ![r] = lease'[r]]
      BY <1>0, <1>5, <2>1 DEF Admit
    <3>5. Holds(r)'
      BY <1>5, <3>3 DEF Admit, IInv, AcquiredHolds, Holds
    <3>6. IsCurrent(r)' /\ ~Maintaining
      BY <1>5, <2>1, <3>3 DEF Admit, IsCurrent, RegistryFree, Maintaining
    <3>7. lockFile' \in 0..MaxInode /\ inodes' \in 0..MaxInode
      BY <1>0, <1>5 DEF Admit, TypeOK
    <3>8. QED
      BY <1>5, <3>3, <3>4, <3>5, <3>6, <3>7, LeaseStep DEF Admit
  <2>2. CASE ~IsCurrent(r)
    BY <1>5, <2>2, ReleaseStep DEF Admit
  <2>3. QED
    BY <2>1, <2>2
<1>6. QED
  BY <1>1, <1>2, <1>3, <1>4, <1>5 DEF Acquire

\* writing() and close(): a live lease stays live, current and held while its
\* mutex is owned; only giving it up releases the flock.
LEMMA LeaseObjectIInv ==
    ASSUME IInv, NEW r \in Runtimes, NEW t \in Threads,
           BeginWrite(r, t) \/ EndWrite(r, t) \/ Close(r, t)
    PROVE  IInv'
<1>0. lease \in [Runtimes -> LeaseObject] /\ TypeOK /\ LeaseAssumption
  BY LeaseAssumption DEF IInv, TypeOK
<1>1. CASE BeginWrite(r, t)
  <2>0. lease' = [lease EXCEPT ![r] = [@ EXCEPT !.mutex = t, !.depth = lease[r].depth + 1]]
    BY <1>1 DEF BeginWrite
  <2>1. lease'[r] = [lease[r] EXCEPT !.mutex = t, !.depth = lease[r].depth + 1]
    BY <1>0, <2>0
  <2>2. lease[r] \in LeaseObject /\ lease[r].depth + 1 \in 0..MaxDepth
    BY <1>0, <1>1 DEF BeginWrite, LeaseObject, LeaseAssumption
  <2>3. /\ lease'[r] \in LeaseObject /\ lease'[r].phase = lease[r].phase
        /\ lease'[r].gen = lease[r].gen /\ lease'[r].inode = lease[r].inode
        /\ lease'[r].held = lease[r].held
    BY <2>1, <2>2 DEF LeaseObject
  <2>4. lease' = [lease EXCEPT ![r] = lease'[r]]
    BY <1>0, <2>0, <2>1
  <2>5. lease'[r].phase = "live" /\ Holds(r)'
    BY <1>1, <2>3 DEF BeginWrite, Holds, IInv, AcquiredHolds
  <2>6. IsCurrent(r)' /\ ~Maintaining
    BY <1>1, <2>3 DEF BeginWrite, IsCurrent, RegistryFree, Maintaining
  <2>7. lockFile' \in 0..MaxInode /\ inodes' \in 0..MaxInode
    BY <1>0, <1>1 DEF BeginWrite, TypeOK
  <2>8. QED
    BY <1>1, <2>3, <2>4, <2>5, <2>6, <2>7, LeaseStep DEF BeginWrite
<1>2. ASSUME lease[r].phase = "live",
             lease'[r] \in LeaseObject, lease'[r].phase = "live",
             lease'[r].gen = lease[r].gen, lease'[r].inode = lease[r].inode,
             lease'[r].held = lease[r].held,
             lease' = [lease EXCEPT ![r] = lease'[r]],
             UNCHANGED <<registry, database, directory, lockFile, inodes, maint, exclusive>>
      PROVE  IInv'
  <2>1. Holds(r)'
    BY <1>2 DEF Holds, IInv, AcquiredHolds
  <2>2. IsCurrent(r)' /\ ~Maintaining
    BY <1>2 DEF IsCurrent, IInv, LivePins
  <2>3. lockFile' \in 0..MaxInode /\ inodes' \in 0..MaxInode
    BY <1>0, <1>2 DEF TypeOK
  <2>4. QED
    BY <1>2, <2>1, <2>2, <2>3, LeaseStep
<1>3. CASE EndWrite(r, t)
  <2>0. lease[r] \in LeaseObject /\ lease[r].phase = "live" /\ lease[r].depth \in Nat
    BY <1>0, <1>3 DEF EndWrite, IInv, WritesAreAdmitted, Writing, LeaseObject
  <2>1. CASE lease[r].depth > 1
    <3>1. lease' = [lease EXCEPT ![r] = [@ EXCEPT !.depth = lease[r].depth - 1]]
      BY <1>3, <2>0, <2>1 DEF EndWrite
    <3>2. lease'[r] = [lease[r] EXCEPT !.depth = lease[r].depth - 1]
      BY <1>0, <3>1
    <3>3. lease[r].depth - 1 \in 0..MaxDepth
      BY <1>0, <2>0, <2>1 DEF LeaseObject, LeaseAssumption
    <3>4. /\ lease'[r] \in LeaseObject /\ lease'[r].phase = "live"
          /\ lease'[r].gen = lease[r].gen /\ lease'[r].inode = lease[r].inode
          /\ lease'[r].held = lease[r].held
      BY <2>0, <3>2, <3>3 DEF LeaseObject
    <3>5. lease' = [lease EXCEPT ![r] = lease'[r]]
      BY <1>0, <3>1, <3>2
    <3>6. QED
      BY <1>2, <1>3, <2>0, <3>4, <3>5 DEF EndWrite
  <2>2. CASE lease[r].depth = 1 /\ lease[r].closed
    <3>1. lease' = [lease EXCEPT ![r] = Unbound]
      BY <1>3, <2>2 DEF EndWrite
    <3>2. QED
      BY <1>3, <3>1, ReleaseStep DEF EndWrite
  <2>3. CASE lease[r].depth = 1 /\ ~lease[r].closed
    <3>1. lease' = [lease EXCEPT ![r] = [@ EXCEPT !.depth = 0, !.mutex = NoThread]]
      BY <1>3, <2>3 DEF EndWrite
    <3>2. lease'[r] = [lease[r] EXCEPT !.depth = 0, !.mutex = NoThread]
      BY <1>0, <3>1
    <3>3. 0 \in 0..MaxDepth
      BY <1>0 DEF LeaseAssumption
    <3>4. /\ lease'[r] \in LeaseObject /\ lease'[r].phase = "live"
          /\ lease'[r].gen = lease[r].gen /\ lease'[r].inode = lease[r].inode
          /\ lease'[r].held = lease[r].held
      BY <2>0, <3>2, <3>3 DEF LeaseObject
    <3>5. lease' = [lease EXCEPT ![r] = lease'[r]]
      BY <1>0, <3>1, <3>2
    <3>6. QED
      BY <1>2, <1>3, <2>0, <3>4, <3>5 DEF EndWrite
  <2>4. QED
    BY <1>3, <2>0, <2>1, <2>2, <2>3 DEF EndWrite
<1>4. CASE Close(r, t)
  <2>1. CASE lease[r].depth = 0
    <3>1. lease' = [lease EXCEPT ![r] = Unbound]
      BY <1>4, <2>1 DEF Close
    <3>2. QED
      BY <1>4, <3>1, ReleaseStep DEF Close
  <2>2. CASE lease[r].depth # 0
    <3>1. lease' = [lease EXCEPT ![r] = [@ EXCEPT !.closed = TRUE]]
      BY <1>4, <2>2 DEF Close
    <3>2. lease'[r] = [lease[r] EXCEPT !.closed = TRUE]
      BY <1>0, <3>1
    <3>3. lease[r] \in LeaseObject /\ lease[r].phase = "live"
      BY <1>0, <1>4 DEF Close
    <3>4. /\ lease'[r] \in LeaseObject /\ lease'[r].phase = "live"
          /\ lease'[r].gen = lease[r].gen /\ lease'[r].inode = lease[r].inode
          /\ lease'[r].held = lease[r].held
      BY <3>2, <3>3 DEF LeaseObject
    <3>5. lease' = [lease EXCEPT ![r] = lease'[r]]
      BY <1>0, <3>1, <3>2
    <3>6. QED
      BY <1>2, <1>4, <3>3, <3>4, <3>5 DEF Close
  <2>3. QED
    BY <2>1, <2>2
<1>5. QED
  BY <1>1, <1>3, <1>4

\* The kernel drops a crashed runtime's flock.
LEMMA CrashIInv ==
    ASSUME IInv, NEW r \in Runtimes, RuntimeCrash(r)
    PROVE  IInv'
  BY ReleaseStep DEF RuntimeCrash

\* Maintenance keeps every variable in its type.
LEMMA MaintainTypes == TypeOK /\ Maintain => TypeOK'
<1> SUFFICES ASSUME TypeOK, Maintain PROVE TypeOK'
  OBVIOUS
<1> USE LeaseAssumption DEF LeaseAssumption, TypeOK
<1>1. lease' = lease
  BY DEF Maintain, MaintenanceOpen, MaintenanceLock, Journal, EraseDatabase, SaveEpoch,
         InitializeEmpty, PublishReset, UnlinkLock, UnlinkDatabase, RemoveDirectory,
         RemoveEntry, MaintenanceCrash
<1>2. registry' \in Entry
  <2>1. CASE Journal
    <3>1. CASE registry' = [registry EXCEPT !.ready = FALSE, !.op = "reset",
                                            !.newGen = registry.gen + 1]
               /\ registry.gen < MaxGeneration
      <4>1. registry.gen + 1 \in 1..MaxGeneration
        BY <3>1 DEF Entry
      <4>2. QED
        BY <3>1, <4>1 DEF Entry, Kinds
    <3>2. CASE registry' = [registry EXCEPT !.ready = FALSE, !.op = "delete"]
      BY <3>2 DEF Entry, Kinds
    <3>3. CASE registry' = registry
      BY <3>3
    <3>4. QED
      BY <2>1, <3>1, <3>2, <3>3 DEF Journal
  <2>2. CASE SaveEpoch
    BY <2>2 DEF SaveEpoch, Entry
  <2>3. CASE PublishReset
    BY <2>3 DEF PublishReset, Entry, Kinds
  <2>4. CASE RemoveEntry
    BY <2>4 DEF RemoveEntry, Entry
  <2>5. CASE registry' = registry
    BY <2>5
  <2>6. QED
    BY <2>1, <2>2, <2>3, <2>4, <2>5
       DEF Maintain, MaintenanceOpen, MaintenanceLock, EraseDatabase, InitializeEmpty,
           UnlinkLock, UnlinkDatabase, RemoveDirectory, MaintenanceCrash
<1>f. lockFile' \in 0..MaxInode /\ inodes' \in 0..MaxInode
  <2>1. CASE MaintenanceOpen
    BY <2>1 DEF MaintenanceOpen, OpensLock
  <2>2. CASE UnlinkLock
    BY <2>2 DEF UnlinkLock
  <2>3. CASE UNCHANGED <<lockFile, inodes>>
    BY <2>3
  <2>4. QED
    BY <2>1, <2>2, <2>3
       DEF Maintain, MaintenanceLock, Journal, EraseDatabase, SaveEpoch, InitializeEmpty,
           PublishReset, UnlinkDatabase, RemoveDirectory, RemoveEntry, MaintenanceCrash
<1>3. database' \in 0..MaxGeneration
  <2>1. CASE EraseDatabase \/ UnlinkDatabase
    BY <2>1 DEF EraseDatabase, UnlinkDatabase
  <2>2. CASE InitializeEmpty
    BY <2>2 DEF InitializeEmpty, Entry
  <2>3. CASE UNCHANGED database
    BY <2>3
  <2>4. QED
    BY <2>1, <2>2, <2>3
       DEF Maintain, MaintenanceOpen, MaintenanceLock, Journal, SaveEpoch, PublishReset,
           UnlinkLock, RemoveDirectory, RemoveEntry, MaintenanceCrash
<1>d. directory' \in BOOLEAN
  BY DEF Maintain, MaintenanceOpen, MaintenanceLock, Journal, EraseDatabase,
         SaveEpoch, InitializeEmpty, PublishReset, UnlinkLock, UnlinkDatabase,
         RemoveDirectory, RemoveEntry, MaintenanceCrash
<1>4. maint' \in MaintSteps /\ exclusive' \in 0..MaxInode
  BY DEF Maintain, MaintenanceOpen, MaintenanceLock, Journal, EraseDatabase,
         SaveEpoch, InitializeEmpty, PublishReset, UnlinkLock, UnlinkDatabase,
         RemoveDirectory, RemoveEntry, MaintenanceCrash, MaintSteps
<1>5. QED
  BY <1>1, <1>2, <1>f, <1>3, <1>d, <1>4

\* Maintenance changes the entry, the database, the directory or the lock file
\* only past LOCK_EX, where LivePins leaves no live lease; what it may do
\* without the flock (finish a delete whose directory is gone) is after the
\* directory every live lease pins.
LEMMA MaintainIInv == IInv /\ Maintain => IInv'
<1> SUFFICES ASSUME IInv, Maintain PROVE IInv'
  OBVIOUS
<1>t. TypeOK /\ TypeOK' /\ LeaseAssumption
  BY MaintainTypes, LeaseAssumption DEF IInv
<1>u. lease' = lease
  BY DEF Maintain, MaintenanceOpen, MaintenanceLock, Journal, EraseDatabase, SaveEpoch,
         InitializeEmpty, PublishReset, UnlinkLock, UnlinkDatabase, RemoveDirectory,
         RemoveEntry, MaintenanceCrash
<1>a. AcquiredHolds' /\ WritesAreAdmitted'
  BY <1>u DEF IInv, AcquiredHolds, Holds, WritesAreAdmitted, Writing
<1> USE DEF IInv, AcquiredHolds, Holds, LivePins, JournalCovers, LockFileKnown,
            IsCurrent, Maintaining
<1>1. CASE MaintenanceOpen
  <2>1. PICK f \in 1..MaxInode : OpensLock(f)
    BY <1>1 DEF MaintenanceOpen
  <2>2. f # 0 /\ (lockFile # 0 => lockFile' = lockFile) /\ lockFile' # 0
    BY <1>t, <2>1 DEF OpensLock, LeaseAssumption, TypeOK
  <2>3. LivePins' /\ LockFileKnown'
    BY <1>1, <1>u, <2>2 DEF MaintenanceOpen
  <2>4. JournalCovers'
    BY <1>1 DEF MaintenanceOpen
  <2>5. QED
    BY <1>t, <1>a, <2>3, <2>4
<1>2. CASE MaintenanceLock
  <2>1. LivePins'
    BY <1>2, <1>u DEF MaintenanceLock, ExclusiveAvailable
  <2>2. JournalCovers' /\ LockFileKnown'
    BY <1>2 DEF MaintenanceLock
  <2>3. QED
    BY <1>t, <1>a, <2>1, <2>2
<1>3. CASE Journal
  <2>1. LivePins' /\ LockFileKnown'
    BY <1>3, <1>u DEF Journal
  <2>2. JournalCovers'
    BY <1>3, <1>t DEF Journal, TypeOK, Entry
  <2>3. QED
    BY <1>t, <1>a, <2>1, <2>2
<1>4. CASE EraseDatabase \/ SaveEpoch \/ InitializeEmpty \/ PublishReset
  <2>1. LivePins' /\ LockFileKnown'
    BY <1>4, <1>u DEF EraseDatabase, SaveEpoch, InitializeEmpty, PublishReset
  <2>2. JournalCovers'
    BY <1>4, <1>t DEF EraseDatabase, SaveEpoch, InitializeEmpty, PublishReset, TypeOK, Entry
  <2>3. QED
    BY <1>t, <1>a, <2>1, <2>2
<1>5. CASE UnlinkLock \/ UnlinkDatabase \/ RemoveDirectory
  <2>1. LivePins' /\ LockFileKnown'
    BY <1>5, <1>u DEF UnlinkLock, UnlinkDatabase, RemoveDirectory
  <2>2. JournalCovers'
    BY <1>5, <1>t DEF UnlinkLock, UnlinkDatabase, RemoveDirectory
  <2>3. QED
    BY <1>t, <1>a, <2>1, <2>2
<1>6. CASE RemoveEntry
  <2>1. LivePins' /\ LockFileKnown'
    BY <1>6, <1>u DEF RemoveEntry
  <2>2. JournalCovers'
    BY <1>6, <1>t DEF RemoveEntry, TypeOK, Entry
  <2>3. QED
    BY <1>t, <1>a, <2>1, <2>2
<1>7. CASE MaintenanceCrash
  <2>1. LivePins' /\ LockFileKnown' /\ JournalCovers'
    BY <1>7, <1>u DEF MaintenanceCrash
  <2>2. QED
    BY <1>t, <1>a, <2>1
<1>8. QED
  BY <1>1, <1>2, <1>3, <1>4, <1>5, <1>6, <1>7 DEF Maintain

\* Every step keeps the invariant.
LEMMA NextIInv == IInv /\ [Next]_vars => IInv'
<1> SUFFICES ASSUME IInv, [Next]_vars PROVE IInv'
  OBVIOUS
<1>1. CASE Next
  <2>1. CASE Maintain
    BY <2>1, MaintainIInv
  <2>2. ASSUME NEW r \in Runtimes, Acquire(r) \/ RuntimeCrash(r)
        PROVE  IInv'
    BY <2>2, AcquireIInv, CrashIInv
  <2>3. ASSUME NEW r \in Runtimes, NEW t \in Threads,
               BeginWrite(r, t) \/ EndWrite(r, t) \/ Close(r, t)
        PROVE  IInv'
    BY <2>3, LeaseObjectIInv
  <2>4. QED
    BY <1>1, <2>1, <2>2, <2>3 DEF Next
<1>2. CASE UNCHANGED vars
  BY <1>2, StutterIInv
<1>3. QED
  BY <1>1, <1>2

\* What the invariant says of the writes and of maintenance.
LEMMA LeaseSafe == IInv => TypeOK /\ WriteFenced /\ MaintenanceAlone
<1>1. IInv => TypeOK /\ MaintenanceAlone
  BY DEF IInv, LivePins, MaintenanceAlone
<1>2. IInv => WriteFenced
  <2> SUFFICES ASSUME IInv, NEW r \in Runtimes, Writing(r)
               PROVE  /\ registry.present /\ registry.ready /\ registry.op = "none"
                      /\ registry.gen = lease[r].gen
                      /\ database = lease[r].gen
                      /\ ~Maintaining
    BY DEF WriteFenced
  <2>1. lease[r].phase = "live"
    BY DEF IInv, WritesAreAdmitted
  <2>2. QED
    BY <2>1 DEF IInv, LivePins, IsCurrent, JournalCovers
<1>3. QED
  BY <1>1, <1>2

\* Every reachable state satisfies the inductive invariant.
THEOREM Inductive == Spec => []IInv
<1>1. QED
  BY InitIInv, NextIInv, PTL DEF Spec

\* The types of every variable, for all constants.
THEOREM LeaseTypes == Spec => []TypeOK
<1>1. QED
  BY LeaseSafe, Inductive, PTL

\* No admitted write overlaps maintenance or lands on another generation.
THEOREM WritesFenced == Spec => []WriteFenced
<1>1. QED
  BY LeaseSafe, Inductive, PTL

\* Maintenance runs alone, on whatever lock inode the runtimes opened.
THEOREM MaintenanceRunsAlone == Spec => []MaintenanceAlone
<1>1. QED
  BY LeaseSafe, Inductive, PTL
====
