------------------------------ MODULE ReplyCard ------------------------------
(***************************************************************************)
(* How a reply gets from its turn to the dialogue card of the Unity        *)
(* client: the speech half of aifren/assistant_service.py, the players of  *)
(* aifren/tts/tts.py, and AIFrenPocController's handlers of their events.  *)
(*                                                                         *)
(* The card shows a reply when the first word of it is heard, or when the  *)
(* service says that nothing will be.  Which reply an event is about,      *)
(* client and service find out each in its own way: by the speech          *)
(* generation, a pending stream, a playback id, a turn id, a subtitle      *)
(* generation.                                                             *)
(*                                                                         *)
(* The connection keeps the order of events and the client answers none of *)
(* them, so a handler of the client is taken with the event it handles.  A *)
(* reply is a number, which is its turn id and the id of its playback.     *)
(* Speech that begins before the reply is published (providers that take   *)
(* sentences while they are generated) is left out.                        *)
(***************************************************************************)
EXTENDS Naturals

CONSTANTS MaxReplies, MaxHands

ASSUME ReplyCardAssumption == MaxReplies \in Nat /\ MaxHands \in Nat

VARIABLES
    manner,      \* the preference responsive_speech, whether speech is wanted,
                 \*   and which replies are check-ins
    stage,       \* where each reply's turn is
    calledOff,   \* turns whose cancel_event is set
    lastClaim,   \* whose event _active_turn_cancel is
    began,       \* the speech generation each turn captured
    voice,       \* _speech_generation, _streaming_speech_queue,
                 \*   _pending_stream_speech, _active_tts_playback_id
    session,     \* playback_generation of the provider
    player,      \* the player of each reply, with the generation it plays for
    halt,        \* the stop_speaking calls: of each input, and by hand
    card,        \* the client
    silenced,    \* history: replies whose speech came to nothing unreported,
    overlooked   \*   and those that met a newer turn or a stop at the device

turnPart == <<stage, calledOff, lastClaim, began>>
soundPart == <<voice, session, player>>
history == <<silenced, overlooked>>
replyVars == <<manner, turnPart, soundPart, halt, card, history>>

Replies == 1..MaxReplies
Hands == (MaxReplies + 1)..(MaxReplies + MaxHands)
Halts == Replies \cup Hands
NoReply == 0
Maybe == Replies \cup {NoReply}

TurnSteps == {"idle", "asked", "claimed", "thinking", "published", "dispatching",
              "unspoken", "ending", "done"}
Busy == {"thinking", "published", "dispatching", "unspoken", "ending"}
PlayerStages == {"none", "opening", "announcing", "playing", "over"}
Generations == 0..(MaxReplies + MaxHands)
Tokens == 0..(3 * (MaxReplies + MaxHands))
NoHalt == [step |-> "idle", generation |-> 0, session |-> 0, queue |-> NoReply,
           playing |-> NoReply, stream |-> NoReply, id |-> NoReply]
Halted == [NoHalt EXCEPT !.step = "done"]

ReplyTypeOK ==
    /\ manner \in [responsive: BOOLEAN, aloud: BOOLEAN, checkIns: SUBSET Replies]
    /\ stage \in [Replies -> TurnSteps]
    /\ calledOff \subseteq Replies /\ silenced \subseteq Replies
    /\ overlooked \subseteq Replies
    /\ lastClaim \in Maybe
    /\ began \in [Replies -> Generations]
    /\ voice \in [generation: Generations, queue: Maybe, pending: Maybe, playing: Maybe]
    /\ session \in Tokens
    /\ player \in [Replies -> [step: PlayerStages, token: Tokens]]
    /\ halt \in [Halts -> [step: {"idle", "asked", "detached", "halted", "done"},
                           generation: Generations, session: Tokens, queue: Maybe,
                           playing: Maybe, stream: Maybe, id: Maybe]]
    /\ card \in [turn: Maybe, response: Maybe, pending: Maybe, reveal: BOOLEAN,
                 ready: BOOLEAN, readyBy: Maybe, streaming: BOOLEAN, shown: Maybe,
                 pacedBy: Maybe, speaking: BOOLEAN, begun: BOOLEAN, playback: Maybe,
                 timeline: Maybe, retired: BOOLEAN]

ReplyInit ==
    /\ manner \in [responsive: BOOLEAN, aloud: BOOLEAN, checkIns: SUBSET Replies]
    /\ stage = [r \in Replies |-> "idle"]
    /\ calledOff = {} /\ silenced = {} /\ overlooked = {} /\ lastClaim = NoReply
    /\ began = [r \in Replies |-> 0]
    /\ voice = [generation |-> 0, queue |-> NoReply, pending |-> NoReply,
                 playing |-> NoReply]
    /\ session = 0
    /\ player = [r \in Replies |-> [step |-> "none", token |-> 0]]
    /\ halt = [h \in Halts |-> NoHalt]
    /\ card = [turn |-> NoReply, response |-> NoReply, pending |-> NoReply,
               reveal |-> FALSE, ready |-> FALSE, readyBy |-> NoReply,
               streaming |-> FALSE, shown |-> NoReply, pacedBy |-> NoReply,
               speaking |-> FALSE, begun |-> FALSE, playback |-> NoReply,
               timeline |-> NoReply, retired |-> FALSE]

-----------------------------------------------------------------------------
(* The client: what each event makes of its card c.                        *)

\* TryBeginPendingAssistantReveal.
Reveal(c) ==
    IF c.reveal /\ c.ready /\ c.pending # NoReply
    THEN [c EXCEPT !.shown = c.pending, !.pacedBy = c.readyBy, !.pending = NoReply,
                   !.reveal = FALSE, !.ready = FALSE, !.readyBy = NoReply]
    ELSE c

\* The speech of r has begun, or has come to nothing.
Heard(c, r) == Reveal([c EXCEPT !.ready = TRUE, !.readyBy = r])

\* turn_started: a new subtitle generation.  A typed input shows "Thinking",
\* a check-in leaves what is there until its response.
TurnStarted(c, r) ==
    [c EXCEPT !.turn = r, !.response = NoReply, !.pending = NoReply,
              !.reveal = FALSE, !.ready = FALSE, !.readyBy = NoReply,
              !.streaming = FALSE, !.begun = FALSE, !.timeline = NoReply,
              !.retired = FALSE,
              !.shown = IF r \in manner.checkIns THEN @ ELSE NoReply]

\* turn_cancelled freezes what is shown.
TurnCancelled(c) ==
    [c EXCEPT !.response = NoReply, !.pending = NoReply, !.reveal = FALSE,
              !.streaming = FALSE, !.begun = FALSE, !.timeline = NoReply,
              !.retired = FALSE]

\* assistant_delta of an ungoverned reply.
DeltaArrived(c, r) ==
    [c EXCEPT !.streaming = TRUE, !.pending = r, !.shown = r, !.pacedBy = r]

\* assistant_response: BeginSubtitleResponse, then the text, which waits for
\* the voice unless its deltas are already being shown.
ResponseArrived(c, r) ==
    LET fresh == [c EXCEPT !.response = r, !.begun = FALSE, !.speaking = FALSE,
                           !.playback = NoReply]
    IN  IF c.streaming
        THEN [fresh EXCEPT !.shown = r, !.pending = NoReply, !.reveal = FALSE,
                           !.ready = FALSE, !.readyBy = NoReply, !.streaming = FALSE]
        ELSE Reveal([fresh EXCEPT !.pending = r, !.reveal = TRUE])

\* tts_state playback_started of a direct playback, which names no turn.
PlaybackStarted(c, r) ==
    [Heard(c, r) EXCEPT !.speaking = TRUE, !.begun = TRUE, !.playback = r]

\* tts_state failed or not_started, which name neither turn nor playback.
NothingToHear(c, r) == [Heard(c, r) EXCEPT !.speaking = FALSE]

\* tts_state stopped of a direct playback.
PlaybackStopped(c, id, r) ==
    IF \/ ~c.begun
       \/ id # NoReply /\ c.playback # NoReply /\ id # c.playback
    THEN c
    ELSE [Heard(c, r) EXCEPT !.speaking = FALSE]

\* HandleCommittedSpeech: what belongs to another turn, or to one that is over,
\* is dropped.
Committed(c, r) == r = c.turn /\ r = c.response /\ ~c.retired

CommittedStarted(c, r) ==
    IF Committed(c, r)
    THEN [Heard(c, r) EXCEPT !.timeline = r, !.speaking = TRUE, !.begun = TRUE,
                             !.playback = r]
    ELSE c

\* Mutant: a stop before the first word is taken for an older one.
CommittedEndedUnheard(c, r, id) ==
    IF Committed(c, r) /\ c.timeline # NoReply
    THEN [Heard(c, r) EXCEPT !.speaking = FALSE, !.retired = TRUE]
    ELSE c

CommittedEnded(c, r, id) ==
    IF Committed(c, r) /\ ~(c.timeline # NoReply /\ id # NoReply /\ id # c.timeline)
    THEN [Heard(c, r) EXCEPT !.speaking = FALSE, !.retired = TRUE]
    ELSE c

-----------------------------------------------------------------------------
(* The turn.                                                               *)

Typed == Replies \ manner.checkIns
InForce(r) == r \notin calledOff /\ lastClaim = r

\* What lets a turn speak: speech_still_current.
MaySpeak(r) == r \notin calledOff /\ began[r] = voice.generation

GoOn(r, from, to) == stage[r] = from /\ stage' = [stage EXCEPT ![r] = to]

TurnLockFree == \A r \in Replies : stage[r] \notin Busy

\* Direct players the service does not know of yet.
Starting ==
    {q \in Replies : ~manner.responsive /\ player[q].step \in {"opening", "announcing"}}

\* A stop has let go of the speech and not yet reached the device.
StopUnderWay == \E h \in Halts : halt[h].step = "detached"

Supersede == calledOff' = calledOff \cup ({lastClaim} \ {NoReply})

\* _claim_replacement_turn, and a stop if anything is known to be replaced or
\* heard.
TakeFloor(r) ==
    /\ r \in Typed
    /\ \A q \in Replies : q < r => stage[q] # "idle"
    /\ GoOn(r, "idle", "claimed")
    /\ Supersede
    /\ lastClaim' = r
    /\ IF \/ lastClaim # NoReply \/ voice.playing # NoReply
          \/ voice.queue # NoReply
       THEN halt' = [halt EXCEPT ![r].step = "asked"] /\ UNCHANGED overlooked
       ELSE overlooked' = overlooked \cup Starting /\ UNCHANGED halt
    /\ UNCHANGED <<manner, began, soundPart, card, silenced>>

\* The turn lock, turn_started and the speech generation of this turn.
StartTyped(r) ==
    /\ stage[r] = "claimed" /\ halt[r].step \in {"idle", "done"} /\ TurnLockFree
    /\ \/ /\ ~InForce(r)
          /\ GoOn(r, "claimed", "ending")
          /\ card' = TurnCancelled(card)
          /\ UNCHANGED began
       \/ /\ InForce(r)
          /\ GoOn(r, "claimed", "thinking")
          /\ began' = [began EXCEPT ![r] = voice.generation]
          /\ card' = TurnStarted(card, r)
    /\ UNCHANGED <<manner, calledOff, lastClaim, soundPart, halt, history>>

\* proactive_eligibility: nobody talks, as far as the service knows.
AskCheckIn(r) ==
    /\ r \in manner.checkIns
    /\ \A q \in Replies : q < r => stage[q] # "idle"
    /\ TurnLockFree /\ voice.playing = NoReply /\ voice.queue = NoReply
    /\ GoOn(r, "idle", "asked")
    /\ UNCHANGED <<manner, calledOff, lastClaim, began, soundPart, halt, card, history>>

\* The turn lock without waiting; the draft is private.
StartCheckIn(r) ==
    /\ stage[r] = "asked"
    /\ IF TurnLockFree /\ lastClaim = NoReply
       THEN /\ GoOn(r, "asked", "thinking")
            /\ lastClaim' = r
            /\ began' = [began EXCEPT ![r] = voice.generation]
            /\ overlooked' = overlooked \cup Starting
                                \cup ({voice.playing, voice.queue} \ {NoReply})
       ELSE GoOn(r, "asked", "done") /\ UNCHANGED <<lastClaim, began, overlooked>>
    /\ UNCHANGED <<manner, calledOff, soundPart, halt, card, silenced>>

\* An ungoverned reply is shown as it is generated.
StreamDelta(r) ==
    /\ r \in Typed /\ stage[r] = "thinking" /\ InForce(r) /\ ~card.streaming
    /\ card' = DeltaArrived(card, r)
    /\ UNCHANGED <<manner, turnPart, soundPart, halt, history>>

\* The commit boundary and assistant_response; a check-in announces its turn
\* here.  A cancelled typed turn says so, a cancelled draft was never seen.  An
\* error leaves the card as it is.
PublishReply(r) ==
    /\ stage[r] = "thinking"
    /\ \/ /\ InForce(r)
          /\ GoOn(r, "thinking", "published")
          /\ card' = ResponseArrived(IF r \in Typed THEN card ELSE TurnStarted(card, r), r)
       \/ /\ ~InForce(r)
          /\ GoOn(r, "thinking", "ending")
          /\ card' = IF r \in Typed THEN TurnCancelled(card) ELSE card
       \/ /\ InForce(r)
          /\ GoOn(r, "thinking", "ending")
          /\ UNCHANGED card
    /\ UNCHANGED <<manner, calledOff, lastClaim, began, soundPart, halt, history>>

\* Speech is wanted, is not ("not_started"), or is no longer this turn's to ask.
DecideSpeech(r) ==
    /\ stage[r] = "published"
    /\ \/ /\ MaySpeak(r) /\ manner.aloud
          /\ GoOn(r, "published", "dispatching") /\ UNCHANGED card
       \/ /\ MaySpeak(r) /\ ~manner.aloud
          /\ GoOn(r, "published", "ending")
          /\ card' = NothingToHear(card, r)
       \/ /\ ~MaySpeak(r)
          /\ GoOn(r, "published", "ending") /\ UNCHANGED card
    /\ silenced' = IF MaySpeak(r) THEN silenced ELSE silenced \cup {r}
    /\ UNCHANGED <<manner, calledOff, lastClaim, began, soundPart, halt, overlooked>>

\* _dispatch_direct_speech_with_recovery: a queue of its own if speech is
\* responsive; otherwise synthesis, here, and a player.
DispatchSpeech(r) ==
    /\ stage[r] = "dispatching"
    /\ \/ /\ ~MaySpeak(r)
          /\ GoOn(r, "dispatching", "ending")
          /\ silenced' = silenced \cup {r}
          /\ UNCHANGED soundPart
       \/ /\ MaySpeak(r) /\ manner.responsive
          /\ GoOn(r, "dispatching", "ending")
          /\ voice' = [voice EXCEPT !.queue = r, !.pending = r]
          /\ player' = [player EXCEPT ![r].step = "opening"]
          /\ UNCHANGED <<session, history>>
       \/ /\ MaySpeak(r) /\ ~manner.responsive
          /\ GoOn(r, "dispatching", "ending")
          /\ session' = session + 1
          /\ player' = [player EXCEPT ![r] = [step |-> "opening", token |-> session + 1]]
          /\ UNCHANGED <<voice, history>>
       \/ /\ ~manner.responsive             \* synthesis fails
          /\ GoOn(r, "dispatching", "unspoken")
          /\ UNCHANGED <<soundPart, history>>
    /\ UNCHANGED <<manner, calledOff, lastClaim, began, halt, card, overlooked>>

\* "failed", under the lock a stop takes.
ReportFailure(r) ==
    /\ GoOn(r, "unspoken", "ending")
    /\ IF MaySpeak(r)
       THEN card' = NothingToHear(card, r) /\ UNCHANGED silenced
       ELSE silenced' = silenced \cup {r} /\ UNCHANGED card
    /\ UNCHANGED <<manner, calledOff, lastClaim, began, soundPart, halt, overlooked>>

\* _finish_turn and the turn lock.
EndTurn(r) ==
    /\ GoOn(r, "ending", "done")
    /\ lastClaim' = IF lastClaim = r THEN NoReply ELSE lastClaim
    /\ UNCHANGED <<manner, calledOff, began, soundPart, halt, card, history>>

-----------------------------------------------------------------------------
(* The player.                                                             *)

Playing(r, step) == player' = [player EXCEPT ![r].step = step]
InSession(r) == player[r].token = session

\* The device is opened: by _play_audio for what is already synthesized, or by
\* begin_prepared_stream for the first chunk of the queue.  It may fail, and
\* only a queue says so.
OpenDevice(r) ==
    /\ player[r].step = "opening"
    /\ \/ /\ manner.responsive /\ MaySpeak(r)
          /\ session' = session + 1
          /\ player' = [player EXCEPT ![r] = [step |-> "announcing", token |-> session + 1]]
          /\ UNCHANGED <<voice, card, history>>
       \/ /\ manner.responsive /\ MaySpeak(r)     \* synthesis or device fails
          /\ Playing(r, "over")
          /\ card' = CommittedEnded(card, r, NoReply)
          /\ UNCHANGED <<voice, session, history>>
       \/ /\ manner.responsive /\ ~MaySpeak(r)    \* owner_current
          /\ Playing(r, "over")
          /\ UNCHANGED <<voice, session, card, silenced>>
       \/ /\ ~manner.responsive /\ InSession(r)
          /\ Playing(r, "announcing")
          /\ UNCHANGED <<voice, session, card, history>>
       \/ /\ ~manner.responsive
          /\ Playing(r, "over")
          /\ silenced' = silenced \cup {r}
          /\ UNCHANGED <<voice, session, card>>
    /\ UNCHANGED <<manner, turnPart, halt, overlooked>>

\* _on_tts_playback_started: a chunk of a session that is not retired names its
\* reply once more and is taken for it; a direct playback is believed, however
\* late it comes.
AnnounceStart(r) ==
    /\ player[r].step = "announcing"
    /\ \/ /\ manner.responsive /\ InSession(r) /\ MaySpeak(r)
          /\ Playing(r, "playing")
          /\ voice' = [voice EXCEPT !.pending = NoReply, !.playing = r]
          /\ card' = CommittedStarted(card, r)
          /\ UNCHANGED overlooked
       \/ /\ manner.responsive /\ ~(InSession(r) /\ MaySpeak(r))
          /\ Playing(r, "over")
          /\ UNCHANGED <<voice, card, overlooked>>
       \/ /\ ~manner.responsive
          /\ Playing(r, "playing")
          /\ voice' = [voice EXCEPT !.playing = r]
          /\ card' = PlaybackStarted(card, r)
          /\ overlooked' =
                IF StopUnderWay \/ ~InSession(r) THEN overlooked \cup {r} ELSE overlooked
    /\ UNCHANGED <<manner, turnPart, session, halt, silenced>>

\* _on_tts_playback_finished, for a playback nothing retired.
EndSpeech(r) ==
    /\ player[r].step = "playing" /\ InSession(r)
    /\ Playing(r, "over")
    /\ IF voice.playing = r
       THEN /\ voice' = [voice EXCEPT !.playing = NoReply]
            /\ card' = IF manner.responsive THEN CommittedEnded(card, r, r)
                       ELSE PlaybackStopped(card, r, r)
       ELSE UNCHANGED <<voice, card>>
    /\ UNCHANGED <<manner, turnPart, session, halt, history>>

\* The device breaks: a queue reports it (_stream_tts_failed), a direct player
\* only prints it.
BreakSpeech(r) ==
    /\ player[r].step = "playing" /\ InSession(r)
    /\ Playing(r, "over")
    /\ IF manner.responsive
       THEN /\ began[r] = voice.generation
            /\ voice' = [voice EXCEPT !.playing = IF @ = r THEN NoReply ELSE @]
            /\ card' = CommittedEnded(card, r, r)
            /\ UNCHANGED silenced
       ELSE silenced' = silenced \cup {r} /\ UNCHANGED <<voice, card>>
    /\ UNCHANGED <<manner, turnPart, session, halt, overlooked>>

\* A retired player ends without a word.
DropRetired(r) ==
    /\ player[r].step = "playing" /\ ~InSession(r)
    /\ Playing(r, "over")
    /\ UNCHANGED <<manner, turnPart, voice, session, halt, card, history>>

\* _streaming_queue_completed: a stop that comes later finds nothing to report.
CompleteQueue(r) ==
    /\ voice.queue = r /\ player[r].step = "over"
    /\ voice' = [voice EXCEPT !.queue = NoReply, !.pending = NoReply]
    /\ silenced' = IF voice.pending = r /\ ~MaySpeak(r) THEN silenced \cup {r} ELSE silenced
    /\ UNCHANGED <<manner, turnPart, session, player, halt, card, overlooked>>

-----------------------------------------------------------------------------
(* stop_speaking.                                                          *)

\* The Stop button; or the push-to-talk key, which cancels the turn as well.
StopByHand(h) ==
    /\ halt[h].step = "idle" /\ \A g \in Hands : g < h => halt[g].step # "idle"
    /\ halt' = [halt EXCEPT ![h].step = "asked"]
    /\ Supersede \/ UNCHANGED calledOff
    /\ UNCHANGED <<manner, stage, lastClaim, began, soundPart, card, history>>

\* The stream a stop is about: what is heard, or else what is still to be.
StreamInForce ==
    IF ~manner.responsive THEN NoReply
    ELSE IF voice.playing # NoReply THEN voice.playing ELSE voice.pending

\* The generation, and whatever is known of the speech, under the lock.
DetachSpeech(h) ==
    /\ halt[h].step = "asked"
    /\ halt' = [halt EXCEPT ![h] =
                   [step |-> "detached", generation |-> voice.generation + 1,
                    session |-> session, queue |-> voice.queue, playing |-> voice.playing,
                    stream |-> StreamInForce, id |-> NoReply]]
    /\ voice' = [generation |-> voice.generation + 1, queue |-> NoReply,
                  pending |-> NoReply, playing |-> NoReply]
    /\ UNCHANGED <<manner, turnPart, session, player, card, history>>

\* queue.cancel aborts the queue's own session; stop_if_generation the playback
\* it was asked about, or it finds another and the stop is over.
HaltSpeech(h) ==
    /\ halt[h].step = "detached"
    /\ LET q == halt[h].queue
           opened == player[q].step \in {"announcing", "playing"} /\ InSession(q)
           heard == {r \in Replies : InSession(r) /\ player[r].step \notin {"none", "over"}}
       IN  IF q # NoReply
           THEN /\ session' = IF opened THEN session + 1 ELSE session
                /\ player' = [player EXCEPT ![q].step = IF @ = "opening" THEN "over" ELSE @]
                /\ halt' = [halt EXCEPT ![h].step = "halted",
                               ![h].id = IF player[q].token # 0 THEN q ELSE halt[h].playing]
           ELSE /\ IF halt[h].session = session
                   THEN /\ session' = session + 1
                        /\ halt' = [halt EXCEPT ![h].step = "halted",
                                       ![h].id = IF heard = {} THEN halt[h].playing
                                                 ELSE CHOOSE r \in heard : TRUE]
                   ELSE halt' = [halt EXCEPT ![h] = Halted] /\ UNCHANGED session
                /\ UNCHANGED player
    /\ UNCHANGED <<manner, turnPart, voice, card, history>>

\* Mutant: a stop that a newer one overtook starts over.
RetryStop(h) ==
    /\ halt[h].step = "halted"
    /\ \/ /\ halt[h].generation = voice.generation
          /\ halt' = [halt EXCEPT ![h] = Halted]
       \/ /\ halt[h].generation # voice.generation
          /\ halt' = [halt EXCEPT ![h].step = "asked"]
    /\ UNCHANGED <<manner, turnPart, soundPart, card, history>>

\* "stopped", unless a newer stop has the word.
AnnounceStop(h) ==
    /\ halt[h].step = "halted"
    /\ halt' = [halt EXCEPT ![h] = Halted]
    /\ \/ /\ halt[h].generation = voice.generation
          /\ card' = IF halt[h].stream # NoReply
                     THEN CommittedEnded(card, halt[h].stream, halt[h].id)
                     ELSE PlaybackStopped(card, halt[h].id, halt[h].id)
          /\ UNCHANGED silenced
       \/ /\ halt[h].generation # voice.generation
          /\ silenced' = silenced \cup ({halt[h].stream} \ {NoReply})
          /\ UNCHANGED card
    /\ UNCHANGED <<manner, turnPart, soundPart, overlooked>>

-----------------------------------------------------------------------------
TurnWork(r) ==
    \/ StartTyped(r) \/ StartCheckIn(r) \/ PublishReply(r) \/ DecideSpeech(r)
    \/ DispatchSpeech(r) \/ ReportFailure(r) \/ EndTurn(r)

PlayerWork(r) ==
    \/ OpenDevice(r) \/ AnnounceStart(r) \/ EndSpeech(r) \/ BreakSpeech(r)
    \/ DropRetired(r) \/ CompleteQueue(r)

HaltWork(h) == DetachSpeech(h) \/ HaltSpeech(h) \/ AnnounceStop(h)

ReplyNext ==
    \/ \E r \in Replies :
          \/ TakeFloor(r) \/ AskCheckIn(r) \/ StreamDelta(r)
          \/ TurnWork(r) \/ PlayerWork(r)
    \/ \E h \in Hands : StopByHand(h)
    \/ \E h \in Halts : HaltWork(h)

ReplySpec == ReplyInit /\ [][ReplyNext]_replyVars

-----------------------------------------------------------------------------
(* Properties.                                                             *)

\* No thread has anything left to do.
AtRest ==
    /\ \A r \in Replies : stage[r] \in {"idle", "done"} /\ player[r].step \in {"none", "over"}
    /\ \A h \in Halts : halt[h].step \in {"idle", "done"}
    /\ voice.queue = NoReply

\* A reply on the card is paced by its own speech, or by the news that there will
\* be none: no late player of an older one makes it run ahead of its voice.  And
\* once all is quiet the reply the client was given is shown, and nothing counts
\* as being heard, unless a stop or a broken device caught it unheard, or two
\* replies met at the device.
ReplyPresented ==
    overlooked = {} =>
        /\ card.shown # NoReply => card.pacedBy = card.shown
        /\ AtRest =>
              /\ card.response \notin silenced \cup {NoReply} => card.shown = card.response
              /\ voice.playing \in silenced \cup {NoReply}
=============================================================================
