\* Chunks: two utterances of one chunk, the second replacing the first.
\* Replies: two replies, typed or check-ins, and one stop by hand.
SPECIFICATION SpokenSpec
CONSTANTS
    MaxUtterances = 2
    MaxUnits = 1
    MaxChunks = 1
    MaxDevice = 1
    MaxStops = 1
    Kinds = {TRUE, FALSE}
    Faults = {}
    MaxReplies = 2
    MaxHands = 1
INVARIANTS
    ReplyTypeOK
    SpeechIsOwned
    ReplyPresented
PROPERTY
    ReplacementSpared
CHECK_DEADLOCK FALSE
