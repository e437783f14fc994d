SPECIFICATION SettingSpec
CONSTANTS
  Things = {"box", "ribbon"}
  HeadWear = {}
  Places = {"table"}
  MaxDormant = 1
  MaxSubjects = 2
  MaxRelations = 3
INVARIANT LocationFollows
CHECK_DEADLOCK FALSE
