\* Key: two sources, three accepted presses.
\* Scene: two commands in three deliveries, one typed turn, one failed save
\*   or crash.
\* Clone: three requests for two voices, one failure of the worker.
\* Voice: two edits, one switch between two characters, two frontends, one
\*   edit that fails by itself.
SPECIFICATION ControlsSpec
CONSTANTS
  Sources = {hook, frontend}
  MaxCaptures = 3
  MaxCommands = 2
  MaxDeliveries = 3
  MaxStatements = 1
  MaxSetbacks = 1
  MaxAsks = 3
  ClonedVoices = {"saved", "draft"}
  MaxBreaks = 1
  Speaking = {"Ada", "Bea"}
  MaxJobs = 2
  MaxVoiceSwitches = 1
  MaxFrontends = 2
  MaxMishandled = 1
INVARIANTS ControlsTypeOK
           NothingLost
           StoryFollowsScene AnswersAreTrue
           AnswersAreOwn
           VoiceIsOwned TypedReplyKept
PROPERTIES ControlsEnd AuthorityKept
CHECK_DEADLOCK FALSE
