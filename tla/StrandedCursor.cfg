\* Two turns without any fault; every statement a user may make.
SPECIFICATION ObservationSpec
CONSTANTS
  Statements = {"fact A", "fact B", "retire A", "activity", "thread", "enter",
                "exit", "question", "plain", "request"}
  MaxTime = 8
  PageRecords = 2
  MaxFaults = 0
INVARIANT FaultlessSettles
CHECK_DEADLOCK FALSE
