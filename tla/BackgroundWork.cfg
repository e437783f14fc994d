\* Observation: two messages of a turn each (and a third after a setback of
\* the clock), pages of two records, three faults.
\* Session: two switches between two characters, two connections.
\* Models: three operations on two models, one mishap.
\* Check-ins: four records, pauses of four, an away floor that exceeds the
\*   doubled interval from the second ignored one on, four attempts, a pause
\*   after a failed one that exceeds the interval and doubles, one lapse.
\* Episodes: four exchanges, two bindings, two faults.
SPECIFICATION Spec
CONSTANTS
  Statements = {"fact A", "retire A", "activity", "enter", "exit", "request"}
  MaxTime = 8
  PageRecords = 2
  MaxFaults = 3
  Characters = {"Ada", "Bea"}
  MaxSwitches = 2
  MaxConnections = 2
  Models = {"m1", "m2"}
  MaxOperations = 3
  MaxMishaps = 1
  Interval = 1
  AwayUnit = 3
  MinBackOff = 5
  MaxBackOff = 9
  ThreadDelay = 2
  Pauses = {4}
  Horizon = 21
  MaxRecords = 4
  MaxAttempts = 4
  MaxLapses = 1
  MaxExchanges = 4
  RecentExchanges = 1
  EpisodeLength = 2
  MaxBindings = 2
  MaxCompactionFaults = 2
INVARIANTS TypeOK
           SlotFollowsEvidence CursorMeansSettled LookupIsHonest
           FrontendFollows
           ServersKnown
           CheckInsEarned
PROPERTIES EventuallySettled HistoryCovered
CHECK_DEADLOCK FALSE
