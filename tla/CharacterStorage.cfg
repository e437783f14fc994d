\* Lease: two processes of two threads, two generations and lock files, nested
\*   writes.
\* Operations: two processes, two items, three generations.
\* Scene: two things for the head and one not, two of the three current at a
\*   time, two places, two relations.
SPECIFICATION StorageSpec
CONSTANTS
    Runtimes = {r1, r2}
    Threads = {t1, t2}
    NoThread = NoThread
    MaxGeneration = 2
    MaxInode = 2
    MaxDepth = 2
    Owners = {o1, o2}
    Items = {a, b}
    MaxTimelines = 3
    None = None
    Things = {"hat", "cap", "ring"}
    HeadWear = {"hat", "cap"}
    Places = {"table", "desk"}
    MaxDormant = 1
    MaxSubjects = 2
    MaxRelations = 2
INVARIANTS
    TypeOK
    WriteFenced
    MaintenanceAlone
    StoredTypeOK
    NoWriterDuringOperation
    SettledIsExact
    SceneCoherent
PROPERTIES
    RetirementReleases
    ErasesOnlyReviewed
    ImplementsTimeline
CHECK_DEADLOCK FALSE
