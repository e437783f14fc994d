---- MODULE MCCharacterOperations ----
(***************************************************************************)
(* The properties of CharacterOperations and the bounds TLC checks them at.*)
(***************************************************************************)
EXTENDS CharacterOperations, FiniteSets

-----------------------------------------------------------------------------
Steps == {"idle", "stage", "publish", "copy_files", "adopt", "verify_local", "erase",
          "clean_rows", "clean_retained", "clean_index", "cleaned", "clean_root", "phase",
          "rmtree", "forget", "unlink", "epoch", "init_archive", "init_database", "stamp",
          "finish", "make_directory", "write_profile"}

\* Every variable keeps its type.
OperationsTypeOK ==
    /\ origin \in {"default", "legacy", "new"}
    /\ DOMAIN entry = DOMAIN Absent
    /\ entry.layout \in Layouts
    /\ entry.status \in {"ready", "creating", "incomplete"}
    /\ entry.gen \in Generations
    /\ entry.source \in Sources
    /\ entry.op # None =>
         /\ entry.op.kind \in OperationKinds
         /\ entry.op.phase \in {"prepared", "deleting_files", "resetting_files"}
         /\ entry.op.newGen \in Generations
         /\ entry.op.review \in Snapshots
    /\ disk.dir \in {"missing", "bare", "whole"}
    /\ disk.archive \in Stores /\ disk.root \in Stores /\ disk.rows \in Stores
    /\ disk.local \in Databases /\ disk.staged \in Databases
    /\ open \subseteq Owners
    /\ token # None => token.action \in Actions /\ token.seen \in Snapshots
    /\ pc \in Steps

\* From the saved journal to its removal no runtime is bound, whichever crash
\* or refused confirmation came between: nobody writes into a timeline that is
\* being moved or erased.
NoWriterDuringOperation ==
    entry.op # None \/ entry.status # "ready" => open = {}

\* Whenever the registry calls a local timeline ready, a crash a moment before
\* or after cannot have left it without its profile, its archive or a database
\* of its own generation; and once an erasure has ended nothing of what it
\* erased is left: no shared row, root archive or index that a later import could
\* take for its own.  (A legacy character that never had an archive is migrated
\* without one: its runtime stays unavailable, with nothing to lose.)
SettledIsExact ==
    /\ entry.present /\ entry.status = "ready" /\ entry.op = None /\ entry.layout = "local" =>
          /\ disk.dir = "whole"
          /\ disk.local # None /\ disk.local.gen = entry.gen
          /\ disk.archive = None => origin = "legacy" /\ disk.local.data = {}
          /\ entry.source = None => disk.rows = None /\ disk.root = None /\ ~disk.index
    /\ ~entry.present /\ pc = "idle" => disk = EmptyDisk

\* Data leaves the disk only under a journal whose review listed it: nothing
\* said after the confirmation was reviewed is ever erased by it.
LocalData(d) == IF d.local = None THEN {} ELSE d.local.data
Losing(before, after) == Contents(before) \ Contents(after)
ErasesOnlyReviewed ==
    [][/\ Losing(disk.rows, disk'.rows) # {} =>
            entry.op # None /\ Losing(disk.rows, disk'.rows) \subseteq Contents(entry.op.review.rows)
       /\ Losing(disk.root, disk'.root) # {} =>
            entry.op # None /\ Losing(disk.root, disk'.root) \subseteq Contents(entry.op.review.root)
       /\ Losing(disk.archive, disk'.archive) # {} =>
            entry.op # None /\ Losing(disk.archive, disk'.archive) \subseteq Contents(entry.op.review.archive)
       /\ Losing(LocalData(disk), LocalData(disk)') # {} =>
            entry.op # None /\ Losing(LocalData(disk), LocalData(disk)') \subseteq
                                LocalData(entry.op.review)
      ]_operationVars

-----------------------------------------------------------------------------
(* The refinement: the layout decides where the memory is, the journal     *)
(* whether it is still promised.                                           *)

Erasing ==
    /\ entry.present
    /\ \/ entry.status = "creating"
       \/ entry.op # None /\ entry.op.kind \in {"reset", "delete"}

Timeline == INSTANCE CharacterTimeline WITH
    state <- IF ~entry.present THEN "absent"
             ELSE IF entry.status = "ready" /\ entry.op = None THEN "ready" ELSE "blocked",
    erasing <- Erasing,
    memory <- IF ~entry.present \/ Erasing THEN [archive |-> {}, rows |-> {}]
              ELSE [archive |-> Contents(Archive(entry.layout)),
                    rows |-> Contents(Rows(entry.layout))],
    gen <- entry.gen

\* Moving, cleaning up and every crash are invisible in what is remembered.
ImplementsTimeline == Timeline!Spec

-----------------------------------------------------------------------------
\* "Interrupted operations are explicit and resumable" (ARCHITECTURE.md): with
\* no runtime bound, a journal left by a crash can be taken up again.
PendingOperationResumable ==
    entry.present /\ entry.op # None /\ pc = "idle" =>
        MissingDeleted \/ disk.dir # "missing"
====
