SPECIFICATION Spec
CONSTANTS
    Sources = {hook}
    MaxCaptures = 2
PROPERTY
    TranscribingEnds
CHECK_DEADLOCK FALSE
