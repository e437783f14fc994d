---------------------------- MODULE SpokenReplies ----------------------------
(***************************************************************************)
(* Spoken replies under one configuration, at two grains: the chunks of an *)
(* utterance in its queue and on the device, and the replies on their way  *)
(* from the turn to the card of the client.  The second takes for granted  *)
(* what the first shows of a queue: that it ends, in order, and reports    *)
(* its failure.  A behaviour explores one and leaves the other at rest.    *)
(***************************************************************************)
EXTENDS StreamingSpeech, ReplyCard

VARIABLE spoken   \* what this behaviour is about: its chunks or its replies

spokenVars == <<vars, replyVars, spoken>>

SpokenInit ==
    /\ spoken \in {"chunks", "replies"}
    /\ Init /\ ReplyInit
    /\ spoken = "chunks" => ~manner.responsive /\ ~manner.aloud /\ manner.checkIns = {}

Chunks(A)  == spoken = "chunks" /\ A /\ UNCHANGED <<replyVars, spoken>>
Replied(A) == spoken = "replies" /\ A /\ UNCHANGED <<vars, spoken>>

SpokenNext == Chunks(Next) \/ Replied(ReplyNext)

SpokenSpec == SpokenInit /\ [][SpokenNext]_spokenVars
=============================================================================
