----------------------------- MODULE PushToTalk -----------------------------
(***************************************************************************)
(* Push-to-talk capture authority (aifren/voice/ptt.py).                   *)
(*                                                                         *)
(* press(), release() and stop() are called from several threads at once:  *)
(* the OS keyboard or mouse hook and the transport of the focused frontend *)
(* both report the same key.  An accepted press starts one recorder thread *)
(* (a worker, named by its capture id), which ends when its capture loses  *)
(* the key, transcribes, and hands the text to the service.  Everything    *)
(* under _state_lock is one step; everything outside it is its own step.   *)
(***************************************************************************)
EXTENDS Naturals

CONSTANTS
    Sources,       \* threads that call press, release and stop
    MaxCaptures    \* bound: accepted presses

ASSUME CapturesAssumption == MaxCaptures \in Nat \ {0}

VARIABLES
    running, pressed,
    active,        \* _active_capture_id, 0: None
    next,          \* _next_capture_id
    recordThread,  \* the capture whose thread record_thread is, 0: None
    source,        \* what each caller is in the middle of
    worker,        \* where the recorder thread of each capture is
    audio,         \* captures whose microphone callback kept a block
    shown,         \* the last voice state published
    discarded,     \* captures whose text was dropped by the authority check
    overlapped     \* history: two presses were once in flight together

vars == <<running, pressed, active, next, recordThread, source, worker, audio,
          shown, discarded, overlapped>>

Captures == 1..MaxCaptures
Idle == [at |-> "idle", capture |-> 0]
SourceSteps == {"idle", "announce", "interrupt", "install", "start", "released", "stopping"}
WorkerSteps == {"none", "recording", "text", "check", "deliver", "callback",
                "silent", "error", "finally", "dead"}
VoiceStates == {"ready", "listening", "released", "stopped"}

\* Every variable keeps its type, and authority is only ever the newest capture's.
TypeOK ==
    /\ running \in BOOLEAN /\ pressed \in BOOLEAN
    /\ next \in 0..MaxCaptures
    /\ active \in {0, next}
    /\ recordThread \in 0..MaxCaptures
    /\ source \in [Sources -> [at: SourceSteps, capture: 0..MaxCaptures]]
    /\ worker \in [Captures -> WorkerSteps]
    /\ audio \subseteq Captures
    /\ shown \in VoiceStates
    /\ discarded \subseteq Captures
    /\ overlapped \in BOOLEAN

Init ==
    /\ running = TRUE /\ pressed = FALSE
    /\ active = 0 /\ next = 0 /\ recordThread = 0
    /\ source = [s \in Sources |-> Idle]
    /\ worker = [c \in Captures |-> "none"]
    /\ audio = {}
    /\ shown = "ready"
    /\ discarded = {}
    /\ overlapped = FALSE

captureVars == <<audio, discarded, overlapped>>

\* _capture_is_pressed, the predicate the recorder polls.
Captured(c) == pressed /\ active = c

Alive(c) == worker[c] \notin {"none", "dead"}       \* Thread.is_alive()

\* What makes press() return without a capture.
RecorderBusy == recordThread # 0 /\ Alive(recordThread)

-----------------------------------------------------------------------------
(* press(), release(), stop().                                             *)

Goto(s, from, to) ==
    /\ source[s].at = from
    /\ source' = [source EXCEPT ![s] = [@ EXCEPT !.at = to]]

\* The call of another source is in a press that was accepted.
Pressing(t) == source[t].at \in {"announce", "interrupt", "install", "start"}

\* A press that is not accepted changes nothing.
Accept(s) ==
    /\ source[s].at = "idle"
    /\ running /\ ~pressed /\ ~RecorderBusy
    /\ next < MaxCaptures
    /\ pressed' = TRUE
    /\ next' = next + 1
    /\ active' = next'
    /\ source' = [source EXCEPT ![s] = [at |-> "announce", capture |-> next']]
    /\ overlapped' = (overlapped \/ \E t \in Sources \ {s} : Pressing(t))
    /\ UNCHANGED <<running, recordThread, worker, shown, audio, discarded>>

Announce(s) ==
    /\ Goto(s, "announce", "interrupt")
    /\ shown' = "listening"
    /\ UNCHANGED <<running, pressed, active, next, recordThread, worker, captureVars>>

\* Cancel the turn and the speech; on failure on_error publishes "ready".
Interrupt(s) ==
    /\ Goto(s, "interrupt", "install")
    /\ shown' \in {shown, "ready"}
    /\ UNCHANGED <<running, pressed, active, next, recordThread, worker, captureVars>>

\* record_thread is assigned without the lock, whatever it is by now.
Install(s) ==
    /\ Goto(s, "install", "start")
    /\ recordThread' = source[s].capture
    /\ UNCHANGED <<running, pressed, active, next, worker, shown, captureVars>>

\* self.record_thread.start(): of the thread the attribute holds now.  A second
\* start of one thread raises out of press().
Start(s) ==
    /\ source[s].at = "start"
    /\ source' = [source EXCEPT ![s] = Idle]
    /\ worker' = IF recordThread # 0 /\ worker[recordThread] = "none"
                 THEN [worker EXCEPT ![recordThread] = "recording"]
                 ELSE worker
    /\ UNCHANGED <<running, pressed, active, next, recordThread, shown, captureVars>>

\* An unmatched release changes nothing.
Release(s) ==
    /\ source[s].at = "idle"
    /\ pressed
    /\ pressed' = FALSE
    /\ source' = [source EXCEPT ![s] = [at |-> "released", capture |-> 0]]
    /\ UNCHANGED <<running, active, next, recordThread, worker, shown, captureVars>>

AnnounceRelease(s) ==
    /\ Goto(s, "released", "idle")
    /\ shown' = "released"
    /\ UNCHANGED <<running, pressed, active, next, recordThread, worker, captureVars>>

Stop(s) ==
    /\ source[s].at = "idle"
    /\ running
    /\ running' = FALSE
    /\ pressed' = FALSE
    /\ active' = 0
    /\ source' = [source EXCEPT ![s] = [at |-> "stopping", capture |-> 0]]
    /\ UNCHANGED <<next, recordThread, worker, shown, captureVars>>

AnnounceStop(s) ==
    /\ Goto(s, "stopping", "idle")
    /\ shown' = "stopped"
    /\ UNCHANGED <<running, pressed, active, next, recordThread, worker, captureVars>>

-----------------------------------------------------------------------------
(* _record, on the worker of capture c.                                    *)

Advance(c, from, to) ==
    /\ worker[c] = from
    /\ worker' = [worker EXCEPT ![c] = to]

\* The microphone callback keeps a block only while the capture has the key.
Hear(c) ==
    /\ worker[c] = "recording" /\ Captured(c)
    /\ c \notin audio
    /\ audio' = audio \cup {c}
    /\ UNCHANGED <<running, pressed, active, next, recordThread, source, worker,
                   shown, discarded, overlapped>>

\* record_ptt returns: without audio there is no text, with audio perhaps.
RecordEnds(c) ==
    /\ ~Captured(c)
    /\ \/ Advance(c, "recording", "silent")
       \/ c \in audio /\ Advance(c, "recording", "text")
    /\ UNCHANGED <<running, pressed, active, next, recordThread, source, shown, captureVars>>

\* The device, its bounded shutdown or the transcriber fails.
RecordFails(c) ==
    /\ Advance(c, "recording", "error")
    /\ UNCHANGED <<running, pressed, active, next, recordThread, source, shown, captureVars>>

Owns(c) == recordThread = c /\ active = c

ReleaseSlot(c) ==
    IF Owns(c) THEN recordThread' = 0 /\ active' = 0
               ELSE UNCHANGED <<recordThread, active>>

\* Mutant: the slot is freed, the authority is kept.
FreeSlotOnly(c) ==
    /\ Advance(c, "text", "check")
    /\ recordThread' = IF Owns(c) THEN 0 ELSE recordThread
    /\ UNCHANGED <<running, pressed, active, next, source, shown, captureVars>>

\* Recording ownership ends here, before the consumer of the text runs.
FreeSlot(c) ==
    /\ Advance(c, "text", "check")
    /\ ReleaseSlot(c)
    /\ UNCHANGED <<running, pressed, next, source, shown, captureVars>>

Authoritative(c) == active = 0 /\ recordThread = 0 /\ next = c

Check(c) ==
    /\ \/ /\ Authoritative(c)
          /\ Advance(c, "check", "deliver")
          /\ UNCHANGED discarded
       \/ /\ ~Authoritative(c)
          /\ Advance(c, "check", "finally")
          /\ discarded' = discarded \cup {c}
    /\ UNCHANGED <<running, pressed, active, next, recordThread, source, audio, shown,
                   overlapped>>

\* on_transcription: the service publishes "ready", then runs a whole turn.
Deliver(c) ==
    /\ Advance(c, "deliver", "callback")
    /\ shown' = "ready"
    /\ UNCHANGED <<running, pressed, active, next, recordThread, source, captureVars>>

CallbackReturns(c) ==
    /\ Advance(c, "callback", "finally") \/ Advance(c, "callback", "error")
    /\ UNCHANGED <<running, pressed, active, next, recordThread, source, shown, captureVars>>

Silent(c) ==
    /\ Advance(c, "silent", "finally")
    /\ shown' = "ready"
    /\ UNCHANGED <<running, pressed, active, next, recordThread, source, captureVars>>

ReportError(c) ==
    /\ Advance(c, "error", "finally")
    /\ shown' = "ready"
    /\ UNCHANGED <<running, pressed, active, next, recordThread, source, captureVars>>

\* Mutant: the cleanup of an old thread clears whatever is registered.
CleanAll(c) ==
    /\ Advance(c, "finally", "dead")
    /\ recordThread' = 0
    /\ active' = 0
    /\ UNCHANGED <<running, pressed, next, source, shown, captureVars>>

Clean(c) ==
    /\ Advance(c, "finally", "dead")
    /\ ReleaseSlot(c)
    /\ UNCHANGED <<running, pressed, next, source, shown, captureVars>>

-----------------------------------------------------------------------------
Call(s) ==
    \/ Announce(s) \/ Interrupt(s) \/ Install(s) \/ Start(s)
    \/ AnnounceRelease(s) \/ AnnounceStop(s)

Record(c) ==
    \/ RecordEnds(c) \/ FreeSlot(c) \/ Check(c) \/ Deliver(c)
    \/ Silent(c) \/ ReportError(c) \/ Clean(c)

Next ==
    \/ \E s \in Sources : Call(s) \/ Accept(s) \/ Release(s) \/ Stop(s)
    \/ \E c \in Captures : Record(c) \/ Hear(c) \/ RecordFails(c) \/ CallbackReturns(c)

\* Threads run and the recorder notices a lost key within 20 ms; nobody need
\* press, release or speak, and the consumer of a text may take for ever.
Fairness ==
    /\ \A s \in Sources : WF_vars(Call(s))
    /\ \A c \in Captures : WF_vars(Record(c))

Spec == Init /\ [][Next]_vars /\ Fairness

-----------------------------------------------------------------------------
(* Properties.                                                             *)

\* A capture keeps its authority until its own recorder has ended or PTT is
\* stopped: no older thread's cleanup takes it away ("Never clear that newer
\* recording from the old thread's cleanup").
AuthorityKept ==
    [][ active # 0 /\ active' = 0 /\ running' =>
            worker[active] \in {"text", "finally"} ]_vars

\* Text is dropped only for a newer press or a stop, unless a press was once
\* accepted through the other source between the lock and the thread of one.
NothingLost ==
    overlapped \/ \A c \in discarded : next > c \/ ~running

\* PTT takes a press, or is stopped: infinitely often, though the turn that
\* the last text started may never return, and even if presses did overlap.
Usable == ~running \/ pressed \/ ~RecorderBusy

\* A release "must not manufacture a permanent "Transcribing" state" (ptt.py,
\* release): once it has published "released" another state follows.
TranscribingEnds ==
    shown = "released" ~> shown # "released"
====
