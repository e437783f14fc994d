# AIFren: a TLA+ verification development

AIFren is a local desktop companion: a Python backend (`aifren/`) that holds the
conversation, the memory and the voice of one or more characters, and a Unity client that
shows them. The backend is threaded. A WebSocket host runs on an asyncio loop and hands
every blocking call to a thread; push-to-talk, speech synthesis and playback have threads
of their own; several processes can open the same character directory. This project models
the parts of it where the order of steps decides whether a user's data, words or character
survive, checks them with TLC and proves what matters most with TLAPS.

Paths below are relative to the repository; `assistant_service.py` and `backend_host.py` are
in `aifren/`.

## 1. Inventory

| Component | State it keeps | Operations | Hard behaviour | What makes it correct |
|---|---|---|---|---|
| Storage lease, `character/character_storage_runtime.py` | an flock on `.continuity.lock`, file identities, a reentrant mutex, a write depth | acquire, assert_current, writing, close, maintenance_lease | several processes; a directory deleted and created again under an open lock file; retirement inside a write | an admitted write lands on its own timeline only; maintenance is alone |
| Registry and operations, `character/character_registry.py`, `character_operations.py`, `memory_v2_store/character_copy.py` | `registry.json` with a journal per character, the owned directory, shared and local databases, a retained source, 16 review tokens | create, preview, confirm, migrate, cleanup, reset, delete, resume | a crash or an error between any two durable steps; a stale review | a bindable character is whole; an erasure leaves nothing behind; only what was reviewed is erased; an interrupted operation can be finished |
| Turn lifecycle, `assistant_service.py` | who is the current turn, the turn lock, the turn state lock, the binding | text turn, cancel, check-in, character switch, continuity controls, scene reactions | inputs replace each other while the old one still runs; cancellation against commit; a switch under running threads | only the current turn publishes; question and answer stay together; a failed input leaves nothing; a message lands in its own character's archive |
| Conversation, `conversation/conversation.py`, `persistence.py` | messages in memory, `conversation.json`, a load error | save, reload | a save that fails before, during and after the rename | memory equals the archive between turns |
| Push-to-talk, `voice/ptt.py`, `stt/voice.py` | pressed, the active capture, the recorder thread, the voice state | press, release, stop, record, deliver | callbacks out of the lock; an old recorder's cleanup; a microphone that hangs | authority belongs to the newest capture; heard speech is not lost; the key works again; the shown state ends |
| Streaming speech, `tts/streaming.py` | two bounded queues, an overflow slot, cancelled/failed/closed flags, an outcome | submit, close, cancel, synthesize, play, recover | back-pressure against cancellation; failure in the middle of playback | one completion; no wedged thread; units in order |
| Speech output, `tts/tts.py`, playback half of `assistant_service.py` | playback generations, ids, the pending stream, the client's card | speak, prepare, stop, stop_if_generation, callbacks, the client's handlers | a late callback of a stopped playback; client and service identify a reply each in its own way | a retired playback changes nothing; a reply is shown, paced by its own voice |
| Backend host, `backend_host.py` | one client, tasks, the selection state, model operations, a service | ~60 commands, snapshot, broadcast, select, proactive poll, restart | client replacement; send time-outs; frames of a retired selection | no frame of a retired selection after the new snapshot |
| Canonical observation, `continuity/memory_v2_runtime_observation.py` | a cursor per consumer, the receipts of single records, outcomes, a completed-archive signature | run_page on start, before and after a turn and on an idle poll; the turn's own observation | replay after a crash or a failed observer; two writers of one slot; a clock set back | each saved message takes effect once, in order, and in the end |
| Memory V2 store and recall, `memory_v2_store/`, `continuity/` | SQLite events, claims, slots and scopes, an ANN index | apply, supersede, retire, recall, assert an absence | evidence older than the value it meets; an absence asserted from incomplete evidence | one current claim; a lookup says "complete" only when it is |
| Episode compaction, `continuity/memory_v2_episode_compaction.py` | a generation of episodes in the store, a worker per binding, a process-wide key, retry times | find a range, request, plan, publish, stop | a worker that outlives its turn, its binding and its owner; two bindings of one character; a failed call | old exchanges come to be covered, each once, without gaps or overlap |
| Current continuity and scene, `state/` | scene subjects, relations, mirrored attributes, threads, truth scope | observe, companion action, control, gesture | idempotent replay; a change by one writer that another has to repair; a command delivered again | relations are between things that are there, with one owner and mirrors that agree; what was done on the scene is told once |
| Proactive companion, `context/proactive_companion.py` | receipts of displayed check-ins, attempts, open threads | eligibility (before the turn is claimed and in the commit), record | growing pauses over two bounded histories; a user who speaks between the look and the claim; a lost receipt | never more often than the pauses promise |
| Automatic expression, `dialogue/automatic_expression.py` | one worker, a lease | offer, publish, retire | a late result | only for the published turn |
| Local model runtime, `runtime/local_model_runtime.py` | an owned process, an operation event, ownership metadata | start, stop, adopt | superseding operations; recovery of a process left by a crashed host | at most one owned server |
| Voice clone runtime, `tts/clone_runtime.py`, `clone_worker.py` | a worker process behind two pipes, the voice it is conditioned for | request, cancel, close | a worker that dies, answers late or fails half conditioned | a request gets its own answer in its own voice, or a refusal |
| Voice profiles, `tts/character_voice.py`, `backend_host.py` | the saved profile, the one in memory, the current voice job | preview, save, discard, stop, replaced by a switch or a disconnect | an edit in a thread for seconds while everything else goes on; three locks | the voice in memory is the one saved; a preview cuts no reply |
| Unity client | connection, session fence, presentation | connect, command, frames | reconnect; stale frames | shows only the bound session |

How they interact: the host calls the service in threads (`asyncio.to_thread`); the service
emits events synchronously to listeners, and the host reposts them to its loop with
`call_soon_threadsafe`. Push-to-talk calls back into the service for state, interruption and
text. The service's conversation and its V2 store both take the character's lease before
they write (`continuity_write_scope`). Registry operations require that no runtime holds it.
A character switch crosses all of them: host, turn, speech, conversation, lease, registry.

## 2. Modules

| Module | Models | Extends / uses |
|---|---|---|
| `CharacterLease` | the lease protocol of runtimes and maintenance | |
| `CharacterLeaseProofs` | theorems about it and its inductive invariant | `CharacterLease`, `TLAPS` |
| `CharacterOperations` | the durable steps of every storage operation of one character | |
| `CharacterTimeline` | abstract: what a timeline promises its owner | |
| `MCCharacterOperations` | the properties of `CharacterOperations`, the refinement of `CharacterTimeline` | both |
| `CharacterOperationsProofs` | theorems about the operations and the refinement | `MCCharacterOperations`, `TLAPS` |
| `PushToTalk` | press sources and recorder threads | |
| `TurnLifecycle` | typed inputs, check-in, cancellation, saves, the character switch | |
| `TurnLifecycleProofs` | theorems about turns, saves and switches | `TurnLifecycle`, `TLAPS` |
| `SpeechOutput` | abstract: what a spoken reply promises the listener and the service | |
| `StreamingSpeech` | spoken replies: queues, threads, the continuous player, stops; the refinement of `SpeechOutput` | `SpeechOutput` |
| `StreamingSpeechProofs` | theorems about the chunks of spoken replies and the refinement | `StreamingSpeech`, `TLAPS` |
| `Observation` | canonical observation: the archive's records become rows of the store | |
| `HostSession` | the frontend connection, event tasks, snapshots and switches, the client's fence | |
| `ModelRuntime` | the owned local model server and the host's operations on it | |
| `CheckInSchedule` | when a check-in may be drafted and published | |
| `EpisodeRollover` | the worker that covers old exchanges by episodes | |
| `SceneState` | the scene in the store: things, relations, mirrored attributes, and their three writers | |
| `SceneControl` | scene commands: the change, its event in the conversation, the reaction | |
| `CloneLane` | the resident worker of cloned voices and the lane of its requests | |
| `VoiceEdits` | voice jobs: previews, saves, and what replaces them | |
| `ReplyCard` | a reply on its way from its turn over the device to the client's dialogue card | |
| `CharacterStorage` | one configuration that checks lease, operations and scene rows | `CharacterLease`, `MCCharacterOperations`, `SceneState` |
| `CharacterStorageProofs` | theorems about the scene rows and the composition | `CharacterStorage`, `CharacterLeaseProofs`, `CharacterOperationsProofs` |
| `SpokenReplies` | one configuration that checks spoken replies as chunks and as wholes | `StreamingSpeech`, `ReplyCard` |
| `SpokenRepliesProofs` | theorems about replies on their way to the card and about the composition | `SpokenReplies`, `StreamingSpeechProofs`, `TLAPS` |
| `BackgroundWork` | one configuration that checks the services beside a turn | `Observation`, `HostSession`, `ModelRuntime`, `CheckInSchedule`, `EpisodeRollover` |
| `BackgroundWorkProofs` | theorems about the five services and their composition | `BackgroundWork`, `TLAPS` |
| `UserControls` | one configuration that checks what the user steers by hand | `PushToTalk`, `SceneControl`, `CloneLane`, `VoiceEdits` |
| `UserControlsProofs` | theorems about push-to-talk, the clone lane, voice settings, scene commands and the composition | `UserControls`, `TLAPS` |

**CharacterLease.** `registry` is the character's entry, `lockFile`, `directory` and `database`
its files as inode numbers and generations; `lease[r]` is a process's `CharacterRuntimeLease`;
`maint` the program counter of `execute`. Acquisition is four actions (`ReadEntry`,
`OpenLock`, `LockShared`, `CheckDatabase` and then `Admit`), because other processes run between them.
`BeginWrite`/`EndWrite`/`Close` follow `writing()` and `close()` with the RLock's owner and
depth. Maintenance is one action per durable step of reset and delete. `RuntimeCrash` and
`MaintenanceCrash` give the flocks back, as the kernel does, and nothing else.

**CharacterOperations.** One character's `entry` (registry), `disk` (archive in the directory
and in the root, shared rows, ANN shards, local database, staging) and `pc`, the durable step
`execute` or `create` is about to take. Each durable step is one action; `Interrupt` may
follow any of them and leaves the journal. Acquisition is atomic here: that it cannot race
maintenance is what `CharacterLease` shows. Items stand for messages and the rows derived
from them; fingerprints and inventories are equality of those sets. `origin` is the way the
character came about (legacy default, other legacy, created), which decides who owns the
root files.

**CharacterTimeline.** What the owner is promised: a sequence of generations, each with an
archive and rows that only grow while it is current; a reset or a delete empties both; no
other operation changes anything. `ImplementsTimeline` checks that every durable step
maps to one of its steps or to a stutter: a migration, for instance, is invisible.

**PushToTalk.** `source[s]` is where a press source (global hook, frontend) is inside
`press`/`release`/`stop`; `worker[c]` is where the recorder thread of capture c is inside
`_record`. Everything under `_state_lock` is one action; the callbacks between are
actions of their own, and so is the unlocked assignment of `record_thread`.

**TurnLifecycle.** `at[w]` is where a worker (a `process_text_turn` thread or the check-in's)
is; `holder` and `boundary` are the turn lock and the commit boundary; `active`, `cancelled`
are `_active_turn_cancel` and the events that are set; `binding` is the character and its
session. `memory`/`archive`/`blocked` are the conversation's messages, its file and its load
error, per character; `conv` is whose archive `self.conversation` is. A save has the four
outcomes of `save_json` and the reload (`SaveOutcomes`). The switch is the sequence of
`_select_character`, `prepare_character_switch` and `switch_character_state`, one action per
step between which other threads run.

**SpeechOutput.** What an utterance promises, whatever carries it: chunks are accepted as long as it did not end whole, said
once and, when its text was committed before, in their order; its end is announced once, as a whole only when all that was
accepted was said, and nothing is said after it. One weakness of the code is part of the promise because it is real: a stop that
comes after the end still calls an utterance cancelled that was heard whole (`Recant`). `ImplementsOutput` in `StreamingSpeech` maps the
chunks a queue accepted, `heard` and the outcome once the playback thread is gone to it; queues, overflow, threads, sessions, stops and failures
are stutters.

**StreamingSpeech.** An utterance is one `StreamingSpeechQueue`: `speech[u]` holds its fields
(`queue`, `overflow`, `prepared` and the flags), `at[u]` where its synthesis and its playback thread
are, `turn[u]` where the turn that feeds it is (a committed text has a feeder instead). `device` is the
provider's state (`playback_generation`, the continuous session and its chunks, `stop_event`,
`playback_finished`), `worker[u]` the audio thread of the session the utterance opened. `stop` is a
`stop_speaking` call in progress by another thread, in its three parts: detach under the lock,
cancel under the queue's lock, abort of the session. What the code does under one lock is one action. The audio
callback is one too: between its `retired()` test and taking a chunk (tts.py:851-865) lie
a few instructions, in which a whole stop and restart would have to fit. Cancellation by the turn's own
event is folded into the speech generation, which a stop changes at the same time. `heard[u]` is a history
variable: the chunks rendered for u.

**Observation.** `archive` is the saved conversation, `db` the committed rows of the store (events,
one durable value with its watermark, the activity slot's rows by validity interval, the truth
scope, the cursors, the disposition receipts), `page` the `run_page` in progress with its transaction
(`work`), what is left of its bounded batch and each consumer's outcome; `phase` is where the service
is, so that the page of the start, of a turn's begin and end and of an idle poll are the same
actions entered from different places. One consumer handles one record per step, as each does under
its own savepoint. `AssertFact`, `RetireFact` and `WriteContinuity` are the store's rules (watermark,
reconfirm, supersede, scope), `NewerStateEvidence` and `Superseded` are `_state_replay_guard`. The turn
writes the same rows itself after its save (`ObserveLive`), and a companion action before it
(`ActOnRequest`). `ObserverFails` is an exception in a consumer, `Crash` loses the open
transaction, `AddBackdatedMessage` is a message spoken after the clock was set back.

**HostSession.** `service`, `host`, `client` are the three holders of a binding: the service's
character and session, the host's generation and accepted connection, the frontend's
`CharacterSessionFence`. An event passes four points, an action each (`Emit`, `CheckEvent`, `ScheduleSend`,
`Broadcast`): stamped in the service's thread, admitted by the host, made a task of the loop, sent. A switch is
`StartSwitch`, `PrepareSwitch`, `CancelTurn`, `JoinTasks` or `GiveUpWaiting`, and `LoadCharacter` with `FinishSwitch`, or `LoadFails`.
`holder` is the holder of the turn lock. A typed input is bound, under that lock, to the selection it was sent under, so `BeginTurn`
needs the service to be bound as it was: stages "ready" and "preparing". A check-in is bound to nothing: the switch cancels its poll without joining the
thread (`backend_host.py:1519`) and only looks at the turn lock, so `BeginCheckIn` has no guard on the stage and may happen while the next
character is waited for or bound. What keeps it quiet is the commit boundary: it emits nothing of its own before
(`CommitCheckIn` asks for the turn and the character it began with) and only states of speech after (`LeaveBoundary`, which
say nothing of a character's content and are left out), and both `CancelTurn` and `FinishSwitch` take the lock of the boundary to
end turns. That the voice registry cannot be read between the rebinding of the service and the end of its turns is left out; so is
the history a snapshot carries, which finding 3 is about. `shown` is a history variable: whose content the frontend shows and under
which name.

**ModelRuntime.** `runtime` is `LocalModelRuntime` (its handle, status, the launches and
retirements in progress), `worker[o]` the thread of the host's operation o with its place between
two visits of the state lock, `metadata` the ownership file, `server[p]` the process spawned by
operation p, which outlives a crash of the backend. `foreign` is a server somebody else put on the
port. Recovery reads the file and adopts a live process; a termination may fail.

**CheckInSchedule.** The rows of `proactive_checkins` and `proactive_attempts`, newest first, and one open
thread, evaluated by `Eligible` at the two places the code does. `ReadEligible` is the poll's look
(`assistant_service.py:4581`), `ClaimDraft` or `TurnTaken` what it then finds at the turn lock (4584-4597); whole turns of the user, good and failed, fit
in between, and the message will be about the thread as it was read. Once the lock is claimed no user turn runs: an input that waits
interrupts the draft (`Interrupt`). In the commit boundary everything is looked at again (`StillEligible`), and `Withdraw` is what
happens when the user has spoken, or the thread was settled or mentioned anew, since the first look. The arithmetic is the code's, in units of the
instance (`CoolDown`, `AwayFloor`, `BackOffAfter`). `talk` is the conversation with, of each check-in, the thread it is about; the property is
stated over it and the rows of attempts (`UnansweredBefore`, `FailuresBefore`, `LastWord`). The off switch, the scenario scope and the
activities that forbid a check-in only remove behaviours and are left out, as are the row limits of 16 and 64. One poll
runs at a time, as in the host, and its look at the rows is one step.

**EpisodeRollover.** `rollover[b]` is the `EpisodeCompactionRollover` of binding b with the place of its worker,
`published` the store's generation, `activeKey` the module-level key. The idle page finds a
range and asks for it in two actions, since a turn or a switch may come between; a worker plans from
a snapshot, may wait for the publication lock, publishes, fails (with a retry time) or settles, and leaves. `PublishAllowed` asks, as
`_source_still_matches` does, that the planned source is still in the archive; the archive of the model only grows, so that guard never refuses there.

**SceneControl.** `scene` is the list of current relations, `control[c]` what the transaction of command c left in the
store (`scene_ui_controls` and its event), `story` the conversation in memory and in its file, `delivery[d]`
the thread that serves one delivery inside `apply_continuity_control`. A command names a place in the list the
frontend shows and the revision it was seen at; it may be delivered again unchanged. `ApplyGesture`, `RefuseStale`,
`FindDuplicate` are the outcomes of `apply_scene_ui_control` under the turn lock; `FindEvent`, `SaveEvent`, `SaveEventFails` those of
`_commit_scene_event`; `BeginReaction`, `CommitReaction`, `WithdrawReaction` the reaction's turn. A silent control takes the
turn lock without waiting. Of a typed turn only what meets a command is kept: the claim, the lock, a record and a
changed scene. `Overrule` is push-to-talk taking the floor.

**SceneState.** `subjects` and `relations` are the current rows of the two scene tables, `attributes` the mirrors `held_by`,
`worn_by` and `location`. One action is one transaction: a user's statement (`Stated`: the builder's clears and set, the
location that goes with them, the store's closing of rivals, the mirrors, the sweep of dormant things), a companion
action or a control of the frontend (`Controlled`: clears, set, mirrors, no sweep). `Rivals` is
`_close_exclusive_relation_conflicts`, `Admissible` the errors that roll a transaction back. An explicit locus ("on the box lid")
is one of two values; holding, wearing and being located stand for the other predicates, which follow the same rules.
How old a dormant thing is, is any: the sweep may retire any of them but those just spoken of, unless room is needed. A thing that
comes back is modelled alike whether it is new or found among the retired ones, since neither brings a mirror along.

**CloneLane.** `ask[r]` is where request r is in `CloneRuntime`: queueing for the lane, spawning, writing,
waiting, answered. `clone` is the worker process with what it still owes, the voice it holds and the key it is conditioned
for; `responses` is the queue its pipe reader fills; `lane` is whose request holds `_lock`. Time-outs, `withdrawn` requests,
`close` and `breaks` of the process are actions of their own. What the worker computes is data.

**VoiceEdits.** `desk` is the host (frontend, switch in progress, bound character), `voice` the provider (the job in force, the
profile in memory and its status), `profiles` each character's `voice_profile.json`, `edit` the thread of the voice task with its place inside
`character_voice.py`, `stopping` a `stop_voice_preview` between its two locks. `held` says who has the profile lock and the dispatch lock.
A preview opens the `player`'s session as a `reply` does; `StopRetired` stops it by the generation it was begun with
(`observed`). Switches, disconnects and replies are other actors.

**ReplyCard.** `stage[r]` is where the turn of reply r is (a typed turn from its claim, a check-in from its eligibility), `began[r]` the
speech generation it captured; `voice` is what the service knows (`_speech_generation`, `_streaming_speech_queue`,
`_pending_stream_speech`, `_active_tts_playback_id`), `session` the provider's `playback_generation`, `player[r]` the thread that
plays r. `halt[h]` is a `stop_speaking` in its three parts, of an input (h is its reply) or by hand. `card` is the part of
`AIFrenPocController` that decides when a response is shown: `TurnStarted`, `ResponseArrived`, `PlaybackStarted`, `CommittedEnded` and so on are
its handlers, operators on the card, and are applied with the event that is sent, since the connection keeps the order. `manner` fixes
per behaviour whether speech is responsive (a queue whose events name their turn) or direct (events that name a playback or
nothing), wanted at all, and which replies are check-ins. Two history variables say what the property leaves out: `silenced`, replies whose
speech came to nothing without an event, and `overlooked`, replies that met a newer turn or a stop at the device.

**CharacterStorage, BackgroundWork, UserControls, SpokenReplies.** The parts of each share no variable, and no action of one reads what
another writes, so their product would only multiply states. One variable (`grain`, `part`, `hand`, `spoken`) names the part
a behaviour explores; the others rest in their initial states. The run therefore counts their states as a sum. `Serves`, `Presses`,
`Leases` and so on are the parts' next-state relations with the rest unchanged, and the fairness is that of the parts. What
passes between parts is an input of each: `CharacterOperations` takes the exclusive lease for granted that `CharacterLease`
shows, an edit meets a clone that takes a while or fails, a press meets a turn that may never return,
and `ReplyCard` takes a queue to end, once and with its outcome: that is what `SpeechOutput` says and `StreamingSpeech` implements.

## 3. Runs

| Run | Instance | Shows |
|---|---|---|
| `CharacterStorage` | lease: 2 runtimes, 2 threads, 2 generations, 2 lock inodes, depth 2; operations: 2 runtimes, 2 items, 3 generations; scene: 3 things (2 for the head), at most 2 current, 2 places, 2 relations | `TypeOK`, `WriteFenced`, `MaintenanceAlone`, `RetirementReleases`; `NoWriterDuringOperation`, `SettledIsExact`, `ErasesOnlyReviewed`, `ImplementsTimeline`; `SceneCoherent` |
| `PendingOperation` (violated) | 1 runtime, 1 item | an interrupted operation that can never be finished |
| `StuckTranscribing` (violated) | 1 source, 2 captures | a permanent Transcribing state |
| `TurnLifecycle` | 2 inputs, the check-in, 2 characters, 1 selection | `HistoryAgrees`, `InputsKeepAuthority`; `OnlyCurrentPublishes`, `InputsEnd` |
| `StreamingSpeech` | 1 utterance of either kind, 3 chunks, queues of 2, 1 stop, all faults | `HeardAsWritten`, `UtteranceEnds` |
| `ReplacedSpeech` | chunks: 2 utterances of either kind, 1 stop, no faults; replies: 2, typed or check-ins, with and without responsive speech, aloud or not, 1 stop by hand, failing turns, syntheses and devices | `SpeechIsOwned`, `ReplacementSpared`; `ReplyPresented` |
| `BackgroundWork` | observation: 2 turns (3 after a setback), pages of 2, 3 faults; session: 2 switches, 2 connections; models: 3 operations on 2 models, 1 mishap; check-ins: 4 records, 4 attempts, back-off of 5 and 9, 1 lapse; episodes: 4 exchanges, 2 bindings, 2 faults | `SlotFollowsEvidence`, `CursorMeansSettled`, `LookupIsHonest`, `EventuallySettled`; `FrontendFollows`; `ServersKnown`; `CheckInsEarned`; `HistoryCovered` |
| `UserControls` | key: 2 sources, 3 captures; scene: 2 commands in 3 deliveries, 1 typed turn, 1 failed save or crash; clone: 3 requests for 2 voices, 1 failure of the worker; voice: 2 edits, 1 switch, 2 frontends, 1 edit that fails | `AuthorityKept`, `NothingLost`; `StoryFollowsScene`, `AnswersAreTrue`; `AnswersAreOwn`; `VoiceIsOwned`, `TypedReplyKept`; `ControlsEnd` |
| `MirroredLocation` (violated) | 2 things, 1 place | a location shown that no relation gives |
| `StrandedCursor` (violated) | 2 turns, no fault, every kind of statement | a continuity cursor that stops for ever |
| `OvertakenChunk` (violated) | 1 early-speech utterance, 3 chunks, queues of 2 | the newest chunk heard first |
| `CheckInSwitch` (violated) | 1 input, the check-in, 2 characters, 1 selection | a check-in saved in the other character's archive |

Bounds. Every bound is a named constant and stops only what would count for ever.
`MaxGeneration` and `MaxInode`: an old and a new timeline are enough to confuse them; a third
generation lets a reset follow a migration. `MaxDepth`: a nested write is the case that
differs. Two items distinguish "reviewed" from "said since". `MaxCaptures`: an old capture, a
newer one, and one whose press must still work. Two inputs: one replaces the other; the
check-in is the third worker. `MaxSwitches`: one selection crosses every other action.
`MaxChunks` is 2, what committed speech uses (early speech uses 4), so that three chunks fill a queue
and its overflow; `MaxDevice` 1 makes the player wait for the device (4 in the code). In
`ReplacedSpeech` one chunk each and queues of 1 suffice: it asks who owns the device, and it asks
nothing about termination; two replies are the one shown and the one that replaces or follows it, and each input stops for itself besides the stop by hand. `Faults` names what may fail by itself. `Observation`: `MaxTime` bounds the
clock and with it the messages; three records after a page of two need a second page; three
faults are a crash, a failing observer and a crash again. `HostSession`: a second switch is
one back, and a second connection one that replaced the first. `ModelRuntime`: an operation that supersedes one
that superseded another. `CheckInSchedule`: two ignored check-ins are where the away floor
overtakes the doubled interval; two failures in a row are where the pause after a failure doubles, each of them longer than the interval and the step of the clock,
so that a pause not kept is seen. `EpisodeRollover`: four exchanges make two episodes, one of each
binding; one fault may be a failed call, the other a dead process. `SceneControl`: a second command meets
a scene the first one changed, a third delivery repeats a command whose answer was lost, and a typed turn
of one statement may change the scene between a click and its command. `SceneState`: two rivals make every exclusion
the code keeps (two owners, two hats, two places), a third thing makes room be wanted. `CloneLane`: a request that leaves a late answer, one
that could take it, and one that finds the worker replaced. `VoiceEdits`: the second edit replaces the first, the switch or the
second frontend meets either. Characters and models are
interchangeable, so the initial one is fixed. Interchangeable things are not declared symmetric where a run checks liveness.

Fairness. `CharacterLease`: a thread inside a write leaves it (weak fairness of `EndWrite`;
a write is a finite block); nothing is assumed of runtimes, processes or maintenance.
`PushToTalk`: each thread goes on (press and release return, a recorder ends: recording
stops on release and closing the microphone has a time-out); nobody has to press or
release. `TurnLifecycle`: a thread that was started is scheduled, its provider answers or
fails (the adapters have time-outs), the host goes on with a selection it began; nobody has
to type, cancel or select. `StreamingSpeech`: every thread that can run does (synthesis
returns or fails, the audio driver calls back), a turn ends and a stop that began goes on; nobody has to
speak or stop. `Observation`: the host polls while it is up, a page that began goes on and a turn
that began ends (`Maintain`, `PageStep`, `TurnStep`); faults are bounded, nobody has to speak or start
the program. `EpisodeRollover`: the idle poll comes again, a compaction call returns or fails and the retry
time passes (`IdlePage`, `WorkerStep`); a configured provider is assumed, without one the code asks for nothing.
`SceneControl`: a thread that serves a command or a typed turn goes on and its provider answers or fails
(`DeliveryStep`, `TypedStep`); nobody has to click or type. `CloneLane`: a request's thread goes on, each of
its waits has a time-out (`AskStep`); the worker may be silent for ever. `VoiceEdits`: the thread of an edit, the stop of a replaced job, the player's
announcement of an end and a switch that began go on (`EditStep`, `StopRetired`, `AnnounceEnds`, `SwitchStep`). The other parts, `ReplyCard` and `CharacterOperations` have safety properties only
(`ReplyPresented` says what holds once every thread has ended).

Deadlock checking is off: every one of these systems may be idle for ever once its bounded
inputs are used up (no more captures, inputs, generations), which is no deadlock of the
program. That no thread waits for ever is checked as `InputsEnd`,
`UtteranceEnds`, `RetirementReleases`, `EventuallySettled`, `HistoryCovered` and `ControlsEnd`, whose conjunct `Usable` says that
the push-to-talk key takes a press again.

Each property of a passing run has a mutant of the code (a dropped check, a missing reset,
a swapped order) that makes TLC find it violated; the mutated forms are in the modules,
beside what they replace.

## 4. What the code gets wrong

1. **A pending operation that cannot be resumed** (`PendingOperation`). ARCHITECTURE.md says
   "Interrupted operations are explicit and resumable." A create that crashes before its
   `mkdir` leaves status `creating`. Its delete runs without a lease because the directory is
   missing, journals phase `prepared`, and may crash in turn. Resuming it then asks for a lease
   in the missing directory, since only phase `deleting_files` is exempt, and no other action is
   allowed while an operation is pending.
2. **A permanent "Transcribing"** (`StuckTranscribing`). The microphone fails while the key is
   held: the recorder publishes `ready` and ends but leaves `_pressed`. The later release
   publishes `released` and nothing follows it.
3. **A check-in in the wrong archive** (`CheckInSwitch`). `switch_character_state` looks at the turn
   lock once and does not take it. A check-in thread whose poll was cancelled is neither
   joined nor shielded; it claims the turn after that look and saves its message into
   `self.conversation` after the switch replaced it.

4. **The newest chunk spoken first** (`OvertakenChunk`). `submit` promises to queue "without
   reordering". The synthesizer reads the overflow after its `get` timed out without looking at
   the queue again; if the producer filled both in between, the overflow goes first. The window is
   short: a burst of five chunks (with the service's bound of 4) at that moment.

5. **A continuity cursor stranded by the companion itself** (`StrandedCursor`). The replay guard is to
   "Permit only ordered deterministic state work; never rewind a newer owner." A request the
   companion acts on records the action at the time of the user's message plus a microsecond
   (`assistant_service.py:1828`), before that message is saved. The page that ends the turn
   replays the message, finds the action newer and answers "unresolved"; the cursor stays
   there in every later turn, and no later record reaches the continuity consumer by replay.

6. **A location without its relation** (`MirroredLocation`). "Relations remain authoritative ...; both mutations
   are applied atomically" (`state/active_scene.py:2325`). A statement changes both; the frontend's clear of a
   relation repairs only `held_by` and `worn_by`, and the thing goes on showing the place. By words too: "I attach a ribbon to
   the box lid" makes the ribbon the location of a box that stands on the table, and removing it leaves the box with none.

Seen on the way and not counted as findings, because nothing in the repository promises
otherwise: a legacy character that never had a conversation migrates "completed", and is
then refused by `assert_storage_ready` because the local archive does not exist
(`_migrate` only creates files it would have copied); two press sources within the few
instructions before `record_thread` is assigned overlap, and the newer capture's text is
dropped (`NothingLost` excludes exactly that window, see `overlapped`); a turn that finds its binding
changed does not end its claim, so if the selection then fails, check-ins answer "busy" until
the next input; with `max_chunks=1`, which
the service never passes, a player that aborts can wait for ever for room in a queue only it
empties, and `on_complete` is never called (the model with `MaxChunks = 1` violates `UtteranceEnds`); an
early-speech queue that was detached and not yet cancelled can still take the device from a newer
utterance; a reply whose save fails only in the directory sync is durable and never shown; after the
wall clock was set back a slot gets a second open value, because the guard against
older evidence (`store.py:2347`) reads only rows already valid at that evidence's time
(`CursorMeansSettled`, of the facts, and `SlotFollowsEvidence` say `~skewed`); a server left by a crashed backend whose adoption
is interrupted may be labelled "external" and is then refused by stop (`ServersKnown` speaks of
servers of this backend), and a refused server whose termination fails is not kept for another try;
a displayed check-in whose receipt is lost (`assistant_service.py:4816-4828`) does not count for the
next pause (`CheckInsEarned` speaks of receipts). `NoWriterDuringOperation` takes the lease for granted and says nothing of
a save that was paused before its fence; that is `WriteFenced`. A voice preview ends with
`finish_prepared_stream()` without an id (`character_voice.py`), so within milliseconds it can close the session of a check-in or
of speech from push-to-talk; and since the host refuses voice commands during typed turns only, a preview may also cut a spoken reply to
push-to-talk (`TypedReplyKept` speaks of typed messages). A voice save whose directory sync fails after the rename
leaves the old revision in memory, and later edits are refused until the character is bound again. A message whose
observation fails for good (128 scene subjects, evidence older than a relation, owners that disagree: "I am wearing a red ring.", "You are wearing the
red ring on your left finger.") is tried again at every poll and holds the cursor (`EventuallySettled` speaks of failures that
pass). A locus statement clears no owner and a new place clears what was attached: a ring may be held by one and worn on the other's finger
(`SceneCoherent` speaks of one holder and one wearer). From reading only: the Unity client drops its pending scene command on
`continuity_changed`, which is sent before the event's record is saved, so a record left "pending" is not retried by it; reactivating a
retired scene subject restores attributes cleared before its retirement.

`ReplyCard` without its two history variables fails in these ways, which `silenced` and `overlooked` set apart. A stop
while a governed reply or a check-in is generated or synthesized (the Stop button, which leaves the turn alone, or the push-to-talk key) leaves the card
at "Thinking" for good: the service sends nothing more because "Cancellation already emitted its authoritative stop"
(`assistant_service.py:4266`, 4873), and the client drops that stop because "A stop that arrived before this response ever began playback belongs
to an older response" (`AIFrenPocController.cs:1577`); each comment relies on what the other side does not do. Two stops at once: the
second's generation suppresses the first's "stopped", and so does a queue that completes between the cancellation of its turn and the stop. With
responsive speech off, a direct player that cannot open or keep its device reports neither an end nor a failure and leaves `_active_tts_playback_id`
set, so check-ins answer "busy" until the next input; so does one that announces itself between a stop's two halves. Such a
player is unknown to the service while it opens: a new input does not stop it, and its late start, which names no turn, paces the next reply. A
check-in reads `playback_active` before its draft and not again, so two replies may meet at the device, and a stop names one.

## 5. Proofs

TLAPS proves the results below for every value of the constants that satisfies their named
assumptions, which TLC evaluates on each run's instance. Each follows one pattern: an inductive invariant
that TLC checked on small instances first, one lemma per action that it is kept, one per property
that it implies it, and one temporal step. The compositions then show the same of the specification the run
checks: a step of one part is a stutter of the others.

| Module | Theorems | Of which runs check |
|---|---|---|
| `CharacterLeaseProofs` | `Inductive`, `LeaseTypes`, `WritesFenced`, `MaintenanceRunsAlone` | `TypeOK`, `WriteFenced`, `MaintenanceAlone` |
| `CharacterOperationsProofs` | `OperationsInductive`, `StorageKeepsType`, `NobodyWrites`, `ReadyIsWhole`, `OnlyReviewedGoes`, `StorageImplementsTimeline` | `NoWriterDuringOperation`, `SettledIsExact`, `ErasesOnlyReviewed`, `ImplementsTimeline` |
| `CharacterStorageProofs` | `SceneStaysCoherent`, `StorageInductive`, `StorageTyped`, `StorageIsSafe`, `StorageRefines` | `SceneCoherent`, `StoredTypeOK`, and the above in the composition |
| `TurnLifecycleProofs` | `TurnsInductive`, `LocksAreHeld`, `AuthorityStays`, `HistoryIsSaved`, `CurrentPublishes` | `TypeOK`, `InputsKeepAuthority`, `HistoryAgrees`, `OnlyCurrentPublishes` |
| `UserControlsProofs` | `Inductive`, `KeyTypes`, `TextIsKept`, `AuthorityIsKept`; `LaneInductive`, `LaneKeepsType`, `AnswersStayOwn`; `VoiceInductive`, `VoiceStaysOwned`, `TypedReplyStays`; `SceneInductive`, `StoryFollows`, `AnswersStayTrue`; `ControlsInductive`, `ControlsKeepType`, `ControlsAreSafe` | `NothingLost`, `AuthorityKept`, `AnswersAreOwn`, `VoiceIsOwned`, `TypedReplyKept`, `StoryFollowsScene`, `AnswersAreTrue`, `ControlsTypeOK` |
| `BackgroundWorkProofs` | `HostInductive`, `HostKeepsType`, `FrontendIsBound`; `RuntimeInductive`, `RuntimeKeepsType`, `ServersStayKnown`; `ObservationInductive`, `ObservationTypes`, `ObservationSlots`, `ObservationCursors`, `ObservationLookups`; `CheckInInductive`, `CheckInsAreEarned`; `RolloverInductive`, `EpisodesStayApart`, `CoverageNeverShrinks`; `ServicesInductive`, `ServicesKeepTypes`, `ServicesAreSafe` | `FrontendFollows`, `ServersKnown`, `SlotFollowsEvidence`, `CursorMeansSettled`, `LookupIsHonest`, `CheckInsEarned`, `TypeOK` |
| `StreamingSpeechProofs` | `SpeechInvariant`, `SpeechTyped`, `SpeechOwned`, `ReplacementIsSpared`; `TextInvariant`, `HeardStays`; `OutputImplemented` | `TypeOK`, `SpeechIsOwned`, `ReplacementSpared`, `HeardAsWritten` |
| `SpokenRepliesProofs` | `ReplyInductive`, `RepliesKeepTypes`, `RepliesArePresented`; `SpokenRepliesOwned`, `SpokenRepliesSpared`, `SpokenRepliesPresented` | `ReplyTypeOK`, `ReplyPresented`, and `TypeOK`, `SpeechIsOwned`, `ReplacementSpared` in the composition |

**CharacterLease.** `WriteFenced` is not inductive: it says nothing of a runtime that holds the lock and does not
write yet. `IInv` adds what the code relies on without saying so: an admitted lease still
passes `assert_current` (`LivePins`), which needs that a lease past its lock call really has the flock
(`AcquiredHolds`), that only admitted leases write (`WritesAreAdmitted`), that an entry
without a journal is whole and the journal precedes every change (`JournalCovers`), and that
maintenance past `_open_lock` has a lock file (`LockFileKnown`). Steps of one runtime change its own
lease only; a maintenance step changes files only when it has the exclusive flock, under which no lease
on the named inode is held.

**CharacterOperations.** The journal alone does not say what the disk may look like, so `OperationsIInv` says it: the
storage is in one of seven conditions (no character, being created, served from the shared or from its own
database, being moved, cleaned up, erased), each with the steps that may be next and what each step already did. With it go `Alone`
(runtimes are bound only to storage that is ready) and `TokenFits` (a confirmation still
fresh is for the journal there is). The conditions are what makes the refinement go through: in each of them
the mapped timeline is known, and every durable step, crash and resumption either leaves it or is one of its steps.
Assumptions: `None` is no operation, set of items or record of the model.

**SceneState.** `SceneCoherent` is broken inside a transaction, which clears, sets and repairs one after the other. The
proof therefore carries three conditions through the parts of a transaction: the relations are `Whole` throughout, things that
are gone are remembered by nothing (`Unseen`), and `Reflected`, that the attributes name holder and wearer, is lost at the first
clear and is there again after the mirrors are repaired. It uses that no thing is an actor or a place.

**TurnLifecycle.** Three groups, proved one after the other. `Turns`: whoever is inside the commit boundary is current, a selection past
its join has no input in a turn, an input keeps its claim. `History` needs it: between its beginning and its reply an input's question is the
last message of the history (`QuestionIsLast`), an input not taken up left none (`Unasked`), and otherwise memory is what is saved.
`SelectionTypes` counts sessions.

**PushToTalk.** Two presses in flight together lose text, as section 4 tells, so what relates source, slot and recorder holds under `Sole`
(no such overlap, and not stopped): the one press in flight is of the newest capture, the slot is
empty or that capture's, a recorder that has not given up the slot has the authority. `NothingLost` is part of the invariant.

**CloneLane.** The lane admits one request (`OneInside`), the worker owes an answer only to it and the queue is empty as long as it
does (`OwesTheHolder`), a good answer in the queue is the one awaited, with the voice asked for (`AnswerIsAwaited`), and the queue is
short: at most one answer and the end of the pipe behind it. **VoiceEdits.** `VoiceOwned` follows the job in force
through the edit's places, `TurnProtected` says what a typed turn keeps away: no edit begins, none dispatches, and a stop or a
preview that comes late has missed its playback. **SceneControl.** `AnswersAreTrue` needs to know what becomes of
a list the user has seen: its snapshot is either `Intact`, the older part of the scene below what came since, or
`Broken` for good, since a shorter list never grows back with the same instants. `WellTold` and `Serving` say what the conversation may hold and where
a delivery stands that may still react.

**HostSession.** `HostIInv` counts sessions against switches, has every frame say who it is of, and ties
what the frontend believes (`Connected`) to where the host is in a switch. `OwnHolder` and `OwnEvents` say what the commit boundary is
for: whoever may emit does so for the character the service is bound to, and an event on its way is of the character it was stamped with,
except between `LoadCharacter` and `FinishSwitch`, where a check-in that published under the old binding may still be in the boundary. There the
host admits no event, and `FinishSwitch` waits for the boundary before it does again. **ModelRuntime.** `RuntimeIInv`: one worker is
at the process at a time (`OneBusy`), and then no server is held; the ownership file names a server that is held or being terminated, and
none that runs while another is spawned (`FileLeads`); every living server of this program is led to (`Led`). The proof never needs the
disjunct of `ServersKnown` for a port already taken by somebody else. **Observation.** A page works on a copy of the store inside a transaction, which a crash drops and a
commit publishes. So one predicate, `StoreKnown`, is kept of both: cursors are within the archive and history is covered
behind its own, the durable value is what the records behind the cursor amount to and the watermark is not after those to
come (`FactKnown`), continuity evidence is of a message and at its time (`Grounded`), what lies behind the
cursor is stored or disposed of, and the open value is of the newest evidence applied (`SlotKnown`). `ArchiveOrdered`, as long as the clock was not set
back, and `TurnKnown` say in which order that evidence may come; `InTime` bounds the clock. **CheckInSchedule.** The pauses are computed from receipts, the
property speaks of the conversation. `CheckInIInv` ties them: the receipts are the kept check-ins, newest first, each marked as
answered exactly when a user's turn came after it (`ReceiptsTold`); the open thread is the user's last word on it (`ThreadMentioned`); the
conversation and the attempts are in order (`AttemptsOrdered`). What was published stays earned (`EarnedAll`, and `RestedAll` for the pause after
failures): later steps only append to the conversation and push rows of attempts, which shifts the old ones (`Shifted`) and adds no failure
before a record that is already there. For the check-in being published, the failures since anything was said are a part of the
streak the code counts, and a longer streak never shortens the pause (`BackOffGrows`). That a finite set of times has a maximum and a minimum is proved by
well-foundedness (`BoundedMax`, `BoundedMin`). **EpisodeRollover.** One worker per
process holds the key (`OneWorker`); a worker that is planning, compacting or publishing still sees the published episodes as they are, and came too early
at worst for some records (`WorkerInformed`). Hence episodes stay apart (`EpisodesApart`), and no generation
loses one (`CoverageGrows`); no run has these two as properties of their own, the proof goes beyond the runs there.

**StreamingSpeech.** `SpeechIsOwned` speaks of a playback thread that has ended. `SpeechIInv` follows it there: an utterance opens one session
and keeps its id (`SessionKept`, `SessionsApart`); the device is at the session of a worker that may still render it (`DeviceServes`); on its way
out a thread has settled its session or knows that it must (`PlayerSettles`); the service refers to the utterance of its current generation
(`ReferenceKept`). `ReplacementSpared` needs of the stop in progress that the queue it detached is
cancelled and that sessions it saw are of older utterances (`StopIsEarlier`).

`HeardAsWritten` speaks of what came out of seven places a chunk passes: the queue or its overflow, the hand of the synthesis thread, the
prepared queue, the hand of the playback thread, the device, the ear. `TextIInv`, proved under `SpeechIInv`, follows each chunk through them. A chunk is in
at most one place, once, and was accepted (`NothingTwice`). As long as nothing was stopped or failed none is missing (`TextIsWhole`
under `Flowing`); a step that drops text leaves a mark that ends this for good. Committed text stands in line, each chunk at the number that follows
from what lies before it (`InLine`), as long as the session is the one to append to and the threads are not on their way out.
The hands are empty where the code holds no item (`HandsKnown`). Behind the sentinel there is nothing and nothing more is
accepted (`Sentinel`): this is where the three separate reads of overflow, `closed` and queue at the end of `_synthesize` turn out to be enough, because a
chunk that reaches the overflow after it was found empty came to a full queue, which the last read sees. A session is closed only
while its player waits for its end (`SessionEnds`), so a worker that drained it rendered all, and "completed" is recorded only
of what was heard (`EndIsTrue`).

`OutputImplemented` needs, beside the two, that a playback thread past its `finally` clause has an outcome that is one
(`OutputIInv`). The start of an utterance, an accepted chunk, a rendered item and `on_complete` are the steps of `SpeechOutput`; that nothing is heard after
the end is `PlayerSettles`. No run has `ImplementsOutput` as a property, the theorem goes beyond the runs there.

**ReplyCard.** `ReplyIInv` has two halves. `ReplyBasics` holds always: one turn has the floor (`FloorTaken`), a reply not dispatched
has no player (`NotYet`), sessions are handed out once (`SessionsKnown`), what stops and turns captured is of the past (`CallsKnown`),
and there are no more generations than stops that detached, no more sessions than players that opened and stops that ended one
(`Counted`, over the cardinalities of those sets); the bounds of `ReplyTypeOK` follow from it. `ReplyPart` holds as long as `overlooked` is empty, the condition of `ReplyPresented`. A turn begins and dispatches only
when nothing plays and no older player can be taken for a newer one's (`TurnsAreQuiet`); what counts as heard is heard
(`PlayingIsHeard`); a queue of the current generation is the one the service refers to (`QueueIsKnown`); a stop tells of the queue it cancelled
(`StopsTell`); the card waits for the reply of the turn it shows (`CardKept`, `CardAwaits`), and somebody is still about to tell the
client of it (`ResponseAwaited`). At rest nobody is, so it is shown. No step empties `overlooked`, which is why
the second half may be assumed before a step whenever it is wanted after.

Assumptions. Bounds are natural numbers, positive where the program cannot do without one (a frontend, an interval, a chunk). The values
that stand for "none" are no member of what they are none of (`None`, `"no voice"`, `Nobody`), the first character is one, and there is
a second one to switch to.

Model-checked only: liveness (`RetirementReleases`, `InputsEnd`, `UtteranceEnds`, `EventuallySettled`, `HistoryCovered`,
`ControlsEnd`), which is outside TLAPS's reach here like ENABLED. Every invariant and every action property of the passing
runs is a theorem. The properties of violated runs are refuted, not proved.

## 6. Not modelled

The table in section 1 lists every component; PROJECT.json says of each one what is left
out. Text classification, prompt assembly, ranking and rendering are data to these models.
Audio devices, sockets and SQLite are their outcomes. A power failure that loses a rename
already returned is not modelled: the code syncs the directory.

Left out on purpose. *Automatic expression*: a late result is stopped by five independent checks,
any of which suffices, so no single plausible change of the code could break a property of
it. *Observation*: the headwear and identity consumers follow the rules of the durable one and add no
behaviour; what a sentence means is a constant of the instance. *Episode compaction*: a change of the
provider's identity needs an explicit rebuild, and the older `select_for_context` path is not the
one the service creates. *Embeddings, full-text and ANN search, ranking, answer governance*: pure
functions of rows, where a model would restate the formula. *Memory V1*, configuration, packaging and benchmarks have no protocol.

## 7. Plan

In order, with what each is for:

1. `SpeechOutput` in place of the player of `ReplyCard`, which takes the same ends for granted in its own variables;
   speech that begins before its reply is published, on the client's side as well.
2. `SceneState` with open threads, activity and the truth scope of a scenario (`apply_continuity_control`, `current_continuity.py`),
   and with retired things and their attributes.
3. Era compaction and recall receipts (`memory_v2_episode_compaction.py`), as far as they keep state.
4. The remaining commands of `backend_host.py`; the attempts of `TtsSynthesisResourceManager.prepare`.

Of proofs, nothing the runs check is left but liveness. Next would be the same refinement for the other protocols whose
users take them for granted: a lease (`CharacterLease` for `CharacterOperations`), a turn (`TurnLifecycle` for `ReplyCard`).
