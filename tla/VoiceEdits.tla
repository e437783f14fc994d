----------------------------- MODULE VoiceEdits -----------------------------
(***************************************************************************)
(* Voice settings: preparing, previewing and saving a character's voice    *)
(* while replies are spoken, the character is switched, and the frontend   *)
(* comes and goes.                                                         *)
(*                                                                         *)
(* An edit is a job: a number, an event that cancels it, a character.  The *)
(* profile lock protects the job and the profile in memory, the player's   *)
(* dispatch lock who plays.  A preview takes the second inside the first,  *)
(* its announcement the first inside the second.                           *)
(*                                                                         *)
(* What the clone does with a request is CloneLane; here it takes a while  *)
(* and may fail.  A reply is two pieces of sound (StreamingSpeech has the  *)
(* rest of its life).                                                      *)
(***************************************************************************)
EXTENDS Naturals, FiniteSets

CONSTANTS Speaking,        \* characters
          MaxJobs, MaxVoiceSwitches, MaxFrontends,
          MaxMishandled    \* edits that fail by themselves

ASSUME VoiceEditsAssumption ==
    /\ {MaxJobs, MaxVoiceSwitches, MaxFrontends, MaxMishandled} \subseteq Nat
    /\ MaxFrontends # 0

VARIABLES desk,      \* the host: frontend, switch in progress, bound character
          voice,     \* the provider: the job in force, character, profile, status
          profiles,  \* voice_profile.json of each character: its revision
          edit,      \* the thread of the voice task
          stopping,  \* a preview stop is between its two locks
          player,    \* the continuous session
          observed,  \* who has the player's present generation in hand
          held,      \* the profile lock and the dispatch lock
          reply,     \* the reply to an input, and a check-in's
          astray,    \* characters whose save failed after its rename
          mishandled

voiceVars == <<desk, voice, profiles, edit, stopping, player, observed, held, reply,
               astray, mishandled>>

Jobs     == 1..MaxJobs
NoJob    == 0
Nobody   == "nobody"
Replies  == {"input", "check-in"}
Quiet    == [owner |-> Nobody, job |-> NoJob, closed |-> TRUE, announced |-> FALSE]
NoEdit   == [at |-> "none", job |-> NoJob, action |-> "none", character |-> Nobody,
             frontend |-> 0, revision |-> 0]

ProfileFree  == held.profile = Nobody
DispatchFree == held.dispatch = Nobody

\* The host's loop has no other command in its hands.
LoopFree == edit.at # "beginning" /\ ~stopping

Switching == desk.switching # "no"
Connected == desk.frontend # 0

(***************************************************************************)
(* Owning the voice and the player.                                        *)
(***************************************************************************)

\* cancel_voice_job
Cancelled(v) == [v EXCEPT !.job = NoJob,
                          !.status = IF @ = "preparing" THEN "cancelled" ELSE @]

\* A playback is retired: a new generation, which nobody has in hand.
Retire == player' = Quiet /\ observed' = {}

\* A reply that has read the speech generation, or plays, is not spoken on.
Silenced(r, stages) ==
    [k \in Replies |-> IF r[k].at \in stages THEN [r[k] EXCEPT !.at = "silenced"] ELSE r[k]]

\* stop_speaking: the job, the reply in the making, the player.
StopSpeaking(stages) ==
    /\ ProfileFree /\ DispatchFree
    /\ voice' = Cancelled(voice)
    /\ reply' = Silenced(reply, stages)
    /\ Retire

SpeechStages == {"thinking", "speaking"}
TurnStages   == {"claimed"} \cup SpeechStages

\* The stop_tts command.
StopTts ==
    /\ LoopFree /\ Connected /\ ~Switching
    /\ StopSpeaking(SpeechStages)
    /\ UNCHANGED <<desk, profiles, edit, stopping, held, astray, mishandled>>

(***************************************************************************)
(* The edit.                                                               *)
(***************************************************************************)

\* _turn_tasks: a typed turn, which a voice command does not interrupt.
TypedTurn == reply["input"].typed /\ reply["input"].at \in {"submitted"} \cup TurnStages

\* character_voice: everything that speaks is stopped before the job begins.
RequestEdit(action) ==
    /\ LoopFree /\ Connected /\ ~Switching /\ edit.at = "none" /\ ~TypedTurn
    /\ desk.jobs < MaxJobs
    /\ StopSpeaking(SpeechStages)
    /\ desk' = [desk EXCEPT !.jobs = @ + 1]
    /\ edit' = [at |-> "beginning", job |-> desk.jobs + 1, action |-> action,
                character |-> desk.character, frontend |-> desk.frontend, revision |-> 0]
    /\ UNCHANGED <<profiles, stopping, held, astray, mishandled>>

\* begin_voice_job once its own stop returned: a new event, a new number.
BeginJob ==
    /\ edit.at = "beginning" /\ ProfileFree
    /\ voice' = [voice EXCEPT !.job = edit.job, !.status = "preparing"]
    /\ edit' = [edit EXCEPT !.at = "begun"]
    /\ UNCHANGED <<desk, profiles, stopping, player, observed, held, reply, astray,
                   mishandled>>

Welcome    == desk.frontend = edit.frontend /\ ~Switching /\ desk.character = edit.character
JobCurrent == voice.job = edit.job /\ voice.character = edit.character
Current    == Welcome /\ JobCurrent

\* What was asked for failed; whoever took its place is not told.
FailedEdit ==
    /\ ProfileFree
    /\ voice' = IF JobCurrent THEN [voice EXCEPT !.status = "failed"] ELSE voice
    /\ edit' = NoEdit

\* draft: the frontend edits the revision in memory, a save compares the
\* saved one.
DraftVoice ==
    /\ edit.at = "begun" /\ Current /\ voice.profile = profiles[edit.character]
    /\ edit' = [edit EXCEPT !.at = "drafted", !.revision = profiles[edit.character]]
    /\ UNCHANGED <<desk, voice, profiles, stopping, player, observed, held, reply,
                   astray, mishandled>>

\* "The saved voice changed."
RefuseDraft ==
    /\ edit.at = "begun" /\ Current /\ voice.profile # profiles[edit.character]
    /\ FailedEdit
    /\ UNCHANGED <<desk, profiles, stopping, player, observed, held, reply, astray,
                   mishandled>>

\* The clone, or Kokoro, prepares.
PrepareVoice ==
    /\ edit.at = "drafted" /\ edit.action # "save"
    /\ edit' = [edit EXCEPT !.at = IF edit.action = "preview" THEN "prepared" ELSE "concluding"]
    /\ UNCHANGED <<desk, voice, profiles, stopping, player, observed, held, reply,
                   astray, mishandled>>

\* begin_prepared_stream inside the profile lock: first the generation,
DispatchPreview ==
    /\ edit.at = "prepared" /\ ProfileFree /\ Current
    /\ held' = [held EXCEPT !.profile = "edit"]
    /\ observed' = observed \cup {"edit"}
    /\ edit' = [edit EXCEPT !.at = "dispatching"]
    /\ UNCHANGED <<desk, voice, profiles, stopping, player, reply, astray, mishandled>>

\* then the session, unless the generation changed; and in any case the end
\* of the session there is now, whose ever it is.
OpenPreview ==
    /\ edit.at = "dispatching" /\ DispatchFree
    /\ IF "edit" \in observed
       THEN /\ player' = [Quiet EXCEPT !.owner = "preview", !.job = edit.job]
            /\ observed' = {}
       ELSE /\ player' = [player EXCEPT !.closed = TRUE]
            /\ UNCHANGED observed
    /\ held' = [held EXCEPT !.profile = Nobody]
    /\ edit' = [edit EXCEPT !.at = "concluding"]
    /\ UNCHANGED <<desk, voice, profiles, stopping, reply, astray, mishandled>>

ReadyToSave == edit.at = "drafted" /\ edit.action = "save" /\ ProfileFree

Saved ==
    /\ profiles' = [profiles EXCEPT ![edit.character] = edit.job]
    /\ voice' = [voice EXCEPT !.profile = edit.job]
    /\ edit' = [edit EXCEPT !.at = "concluding"]

\* Mutant: the save does not ask again whose voice this is.
SaveUnasked ==
    /\ ReadyToSave
    /\ Saved
    /\ UNCHANGED <<desk, stopping, player, observed, held, reply, astray, mishandled>>

MaySave == ReadyToSave /\ Current /\ profiles[edit.character] = edit.revision

\* CharacterVoiceProfiles.save inside the profile lock.
SaveVoice ==
    /\ MaySave
    /\ Saved
    /\ UNCHANGED <<desk, stopping, player, observed, held, reply, astray, mishandled>>

\* The directory was not synced: the file is new, the profile in memory old.
SaveGoesAstray ==
    /\ MaySave /\ mishandled > 0
    /\ profiles' = [profiles EXCEPT ![edit.character] = edit.job]
    /\ FailedEdit
    /\ astray' = astray \cup {edit.character}
    /\ mishandled' = mishandled - 1
    /\ UNCHANGED <<desk, stopping, player, observed, held, reply>>

\* A bad recording, a stale revision, a clone that fails, a full disk.
EditFails ==
    /\ edit.at \in {"begun", "drafted"} /\ mishandled > 0
    /\ FailedEdit
    /\ mishandled' = mishandled - 1
    /\ UNCHANGED <<desk, profiles, stopping, player, observed, held, reply, astray>>

\* Where edit_voice asks whether it still may: the guard raises first.
Asking == edit.at \in {"begun", "prepared", "concluding"} \/ ReadyToSave

EditUnwelcome ==
    /\ Asking /\ ~Welcome
    /\ FailedEdit
    /\ UNCHANGED <<desk, profiles, stopping, player, observed, held, reply, astray,
                   mishandled>>

\* CloneCancelled, here or in the clone's queue.
EditWithdrawn ==
    /\ \/ Asking /\ Welcome /\ ~JobCurrent
       \/ edit.at = "drafted" /\ voice.job # edit.job
    /\ edit' = NoEdit
    /\ UNCHANGED <<desk, voice, profiles, stopping, player, observed, held, reply,
                   astray, mishandled>>

ConcludeEdit ==
    /\ edit.at = "concluding" /\ ProfileFree /\ Current
    /\ voice' = [voice EXCEPT !.status = "ready"]
    /\ edit' = NoEdit
    /\ UNCHANGED <<desk, profiles, stopping, player, observed, held, reply, astray,
                   mishandled>>

(***************************************************************************)
(* The player, and stopping a preview.                                     *)
(***************************************************************************)

\* announce_pending holds the dispatch lock for the callback, which asks for
\* the profile lock.
AnnouncePreview ==
    /\ player.owner = "preview" /\ ~player.announced /\ voice.job = player.job
    /\ DispatchFree
    /\ held' = [held EXCEPT !.dispatch = "player"]
    /\ UNCHANGED <<desk, voice, profiles, edit, stopping, player, observed, reply,
                   astray, mishandled>>

AnnounceEnds ==
    /\ held.dispatch = "player" /\ ProfileFree
    /\ player' = [player EXCEPT !.announced = voice.job = player.job]
    /\ held' = [held EXCEPT !.dispatch = Nobody]
    /\ UNCHANGED <<desk, voice, profiles, edit, stopping, observed, reply, astray,
                   mishandled>>

\* Played to the end, or left because its job was cancelled.
PlayEnds ==
    /\ player.owner # Nobody /\ player.closed /\ DispatchFree
    /\ player' = Quiet
    /\ UNCHANGED <<desk, voice, profiles, edit, stopping, observed, held, reply,
                   astray, mishandled>>

\* stop_voice_preview of the host's last job: the generation of its playback
\* is read, and the job retired, inside one lock.
RetirePreview ==
    /\ LoopFree /\ Connected /\ ~Switching
    /\ ProfileFree /\ voice.job # NoJob
    /\ observed' = observed \cup {"stop"}
    /\ voice' = [voice EXCEPT !.job = NoJob, !.status = "cancelled"]
    /\ stopping' = TRUE
    /\ UNCHANGED <<desk, profiles, edit, player, held, reply, astray, mishandled>>

\* Mutant: whoever plays by then is stopped.
StopWhoever ==
    /\ stopping /\ DispatchFree
    /\ Retire
    /\ stopping' = FALSE
    /\ UNCHANGED <<desk, voice, profiles, edit, held, reply, astray, mishandled>>

\* stop_if_generation
StopRetired ==
    /\ stopping /\ DispatchFree
    /\ IF "stop" \in observed THEN Retire ELSE UNCHANGED <<player, observed>>
    /\ stopping' = FALSE
    /\ UNCHANGED <<desk, voice, profiles, edit, held, reply, astray, mishandled>>

(***************************************************************************)
(* Replies.                                                                *)
(***************************************************************************)

Reaches(k, stage) == reply' = [reply EXCEPT ![k].at = stage]

SubmitTyped ==
    /\ reply["input"].at = "none" /\ LoopFree /\ Connected /\ ~Switching
    /\ reply' = [reply EXCEPT !["input"] = [at |-> "submitted", typed |-> TRUE]]
    /\ UNCHANGED <<desk, voice, profiles, edit, stopping, player, observed, held,
                   astray, mishandled>>

\* process_text_turn: the voice job is cancelled, the floor taken, and what
\* speaks is stopped, if anything is known to.
InputClaims ==
    /\ \/ reply["input"].at = "submitted"
       \/ reply["input"].at = "none" /\ ~Switching      \* push-to-talk
    /\ ProfileFree /\ DispatchFree
    /\ voice' = Cancelled(voice)
    /\ reply' = [Silenced(reply, TurnStages) EXCEPT !["input"].at = "claimed"]
    /\ IF player.announced \/ reply["check-in"].at \in TurnStages
       THEN Retire
       ELSE UNCHANGED <<player, observed>>
    /\ UNCHANGED <<desk, profiles, edit, stopping, held, astray, mishandled>>

CheckInClaims ==
    /\ reply["check-in"].at = "none" /\ ~Switching
    /\ reply["input"].at \notin TurnStages
    /\ Reaches("check-in", "claimed")
    /\ UNCHANGED <<desk, voice, profiles, edit, stopping, player, observed, held,
                   astray, mishandled>>

\* The speech generation is read: a stop before does not concern this reply.
ReplyThinks(k) ==
    /\ reply[k].at = "claimed"
    /\ Reaches(k, "thinking")
    /\ UNCHANGED <<desk, voice, profiles, edit, stopping, player, observed, held,
                   astray, mishandled>>

OpenReply(k) ==
    /\ reply[k].at = "thinking" /\ DispatchFree
    /\ player' = [Quiet EXCEPT !.owner = k, !.closed = FALSE, !.announced = TRUE]
    /\ observed' = {}
    /\ Reaches(k, "speaking")
    /\ UNCHANGED <<desk, voice, profiles, edit, stopping, held, astray, mishandled>>

\* The rest is appended and the session closed, if it is still this reply's.
AppendReply(k) ==
    /\ reply[k].at = "speaking"
    /\ IF player.owner = k /\ ~player.closed
       THEN player' = [player EXCEPT !.closed = TRUE] /\ Reaches(k, "spoken")
       ELSE UNCHANGED player /\ Reaches(k, "cut")
    /\ UNCHANGED <<desk, voice, profiles, edit, stopping, observed, held, astray,
                   mishandled>>

(***************************************************************************)
(* The character and the frontend.                                         *)
(***************************************************************************)

StartVoiceSwitch ==
    /\ LoopFree /\ Connected /\ ~Switching /\ desk.switches < MaxVoiceSwitches
    /\ desk' = [desk EXCEPT !.switching = "asked", !.switches = @ + 1]
    /\ UNCHANGED <<voice, profiles, edit, stopping, player, observed, held, reply,
                   astray, mishandled>>

\* prepare_character_switch: the turn is cancelled, everything stopped.
PrepareVoiceSwitch ==
    /\ desk.switching = "asked"
    /\ desk' = [desk EXCEPT !.switching = "prepared"]
    /\ StopSpeaking(TurnStages \cup {"submitted"})
    /\ UNCHANGED <<profiles, edit, stopping, held, astray, mishandled>>

SwitchGivenUp ==
    /\ desk.switching = "prepared"
    /\ desk' = [desk EXCEPT !.switching = "no"]
    /\ UNCHANGED <<voice, profiles, edit, stopping, player, observed, held, reply,
                   astray, mishandled>>

BindService ==
    /\ desk.switching = "prepared"
    /\ \E c \in Speaking \ {desk.character} :
          desk' = [desk EXCEPT !.switching = "bound", !.character = c]
    /\ UNCHANGED <<voice, profiles, edit, stopping, player, observed, held, reply,
                   astray, mishandled>>

\* bind_character: the profile is the one on disk.
BindVoice ==
    /\ desk.switching = "bound" /\ ProfileFree /\ DispatchFree
    /\ voice' = [job |-> NoJob, character |-> desk.character,
                 profile |-> profiles[desk.character], status |-> "ready"]
    /\ Retire
    /\ astray' = astray \ {desk.character}
    /\ desk' = [desk EXCEPT !.switching = "no"]
    /\ UNCHANGED <<profiles, edit, stopping, held, reply, mishandled>>

Disconnect ==
    /\ LoopFree /\ Connected
    /\ desk' = [desk EXCEPT !.frontend = 0]
    /\ StopSpeaking(SpeechStages)
    /\ UNCHANGED <<profiles, edit, stopping, held, astray, mishandled>>

Reconnect ==
    /\ LoopFree /\ ~Connected /\ desk.frontends < MaxFrontends
    /\ desk' = [desk EXCEPT !.frontend = desk.frontends + 1, !.frontends = @ + 1]
    /\ UNCHANGED <<voice, profiles, edit, stopping, player, observed, held, reply,
                   astray, mishandled>>

VoiceInit ==
    /\ \E c \in Speaking :
          /\ desk = [frontend |-> 1, frontends |-> 1, switching |-> "no", switches |-> 0,
                     character |-> c, jobs |-> 0]
          /\ voice = [job |-> NoJob, character |-> c, profile |-> 0, status |-> "ready"]
    /\ profiles = [c \in Speaking |-> 0]
    /\ edit = NoEdit /\ stopping = FALSE
    /\ player = Quiet /\ observed = {}
    /\ held = [profile |-> Nobody, dispatch |-> Nobody]
    /\ reply = [k \in Replies |-> [at |-> "none", typed |-> FALSE]]
    /\ astray = {} /\ mishandled = MaxMishandled

EditStep ==
    \/ BeginJob \/ DraftVoice \/ RefuseDraft
    \/ PrepareVoice \/ DispatchPreview \/ OpenPreview
    \/ SaveVoice \/ SaveGoesAstray \/ EditFails \/ EditUnwelcome \/ EditWithdrawn
    \/ ConcludeEdit

ReplyStep == \E k \in Replies : ReplyThinks(k) \/ OpenReply(k) \/ AppendReply(k)

SwitchStep == PrepareVoiceSwitch \/ SwitchGivenUp \/ BindService \/ BindVoice

VoiceNext ==
    \/ \E action \in {"prepare", "preview", "save"} : RequestEdit(action)
    \/ EditStep \/ AnnouncePreview \/ AnnounceEnds \/ PlayEnds
    \/ RetirePreview \/ StopRetired \/ StopTts
    \/ SubmitTyped \/ InputClaims \/ CheckInClaims \/ ReplyStep
    \/ StartVoiceSwitch \/ SwitchStep \/ Disconnect \/ Reconnect

\* Threads go on: the edit's, the loop's in a stop, the player's in a callback,
\* the one that switches.
VoiceFairness ==
    /\ WF_voiceVars(EditStep) /\ WF_voiceVars(StopRetired) /\ WF_voiceVars(AnnounceEnds)
    /\ WF_voiceVars(SwitchStep)

VoiceSpec == VoiceInit /\ [][VoiceNext]_voiceVars /\ VoiceFairness

VoiceTypeOK ==
    /\ desk.frontend \in 0..MaxFrontends /\ desk.character \in Speaking
    /\ desk.switching \in {"no", "asked", "prepared", "bound"}
    /\ voice.job \in Jobs \cup {NoJob} /\ voice.character \in Speaking
    /\ voice.status \in {"ready", "preparing", "cancelled", "failed"}
    /\ \A c \in Speaking : profiles[c] \in Jobs \cup {0}
    /\ edit.job \in Jobs \cup {NoJob} /\ stopping \in BOOLEAN
    /\ player.owner \in Replies \cup {"preview", Nobody}
    /\ observed \subseteq {"edit", "stop"}
    /\ held.profile \in {Nobody, "edit"} /\ held.dispatch \in {Nobody, "player"}
    /\ \A k \in Replies : reply[k].typed \in BOOLEAN
    /\ astray \subseteq Speaking /\ mishandled \in 0..MaxMishandled

\* The voice in memory is the one saved for the character it belongs to, or
\* that character's last save failed after its rename; and "preparing" is
\* shown only while a job prepares.
VoiceIsOwned ==
    /\ voice.profile = profiles[voice.character] \/ voice.character \in astray
    /\ voice.status = "preparing" => voice.job = edit.job /\ edit.at # "none"

\* The reply to a typed message is spoken to its end, unless it is stopped:
\* no preview, and no late stop of one, takes the player from it.
TypedReplyKept == reply["input"].typed => reply["input"].at # "cut"

VoiceAtRest == edit.at = "none" /\ ~stopping /\ ProfileFree /\ DispatchFree
=============================================================================
