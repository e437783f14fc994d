---- MODULE StreamingSpeech ----
(***************************************************************************)
(* Spoken replies: StreamingSpeechQueue (aifren/tts/streaming.py), the     *)
(* continuous player it feeds (ContinuousPlaybackTTS in aifren/tts/tts.py) *)
(* and the service that starts and stops both.                             *)
(*                                                                         *)
(* An utterance is one queue.  It has a synthesis thread, a playback       *)
(* thread and a producer: the turn that streams chunks into it (submit),   *)
(* or its own feeder thread when the text is already committed.  The       *)
(* player opens at most one session on the audio device, whose own worker  *)
(* thread renders it.  A stop is made by any other thread: it detaches the *)
(* current queue under _speech_generation_lock and cancels it afterwards,  *)
(* so a newer utterance may have started in between.                       *)
(*                                                                         *)
(* A chunk is a number, an item of a queue the sequence of the chunks      *)
(* joined in it.  The three attempts of TtsSynthesisResourceManager.prepare*)
(* are one step with its three results.                                    *)
(***************************************************************************)
EXTENDS Naturals, Sequences

CONSTANTS
    MaxUtterances,   \* bound: queues the service creates
    MaxUnits,        \* bound: chunks of an utterance
    MaxChunks,       \* max_chunks of the queues
    MaxDevice,       \* _continuous_max_chunks
    MaxStops,        \* bound: calls of stop_speaking
    Kinds,           \* kinds of utterance: is the text committed?
    Faults           \* bound: what may fail by itself

ASSUME BoundsAssumption ==
    /\ MaxUtterances \in Nat \ {0} /\ MaxUnits \in Nat \ {0} /\ MaxStops \in Nat
    /\ MaxChunks \in Nat \ {0} /\ MaxDevice \in Nat \ {0}
    /\ Kinds \subseteq BOOLEAN
    /\ Faults \subseteq {"turn", "synthesis", "chunk", "device"}

Utterances == 1..MaxUtterances
Threads == {"synth", "player"}
STOP == <<>>                  \* the _STOP sentinel of the prepared queue

VARIABLES
    speech,            \* the fields of each queue object
    at, item,          \* where its two threads are, and the item they hold
    turn,              \* its producer
    worker,            \* the audio worker of its session
    device,            \* the state of the provider
    heard,             \* chunks rendered, in order
    streaming,         \* the service's _streaming_speech_queue, 0: None
    speechGeneration,  \* the service's _speech_generation
    stop               \* the stop in progress

vars == <<speech, at, item, turn, worker, device, heard, streaming,
          speechGeneration, stop>>
audio == <<worker, device, heard>>
service == <<streaming, speechGeneration, stop>>

SynthSteps == {"none", "get", "empty", "closing", "prepare", "put", "stop", "dead"}
PlayerSteps == {"none", "get", "item", "begin", "opened", "append", "appended",
                "refused", "drain", "verdict", "final", "complete", "dead"}
AbortSteps == {"abort", "report", "clear", "last"}

Spoken == Seq(1..MaxUnits)
Fresh == [committed |-> FALSE, born |-> 0, queue |-> <<>>, overflow |-> <<>>,
          prepared |-> <<>>, next |-> 0, cancelled |-> FALSE, closed |-> FALSE,
          failed |-> FALSE, outcome |-> "none", playbackId |-> 0, reported |-> FALSE]

\* Queues never exceed their bounds, the overflow only exists in an uncommitted
\* queue, a session id is a generation the provider has handed out.
TypeOK ==
    /\ \A u \in Utterances :
        LET q == speech[u] IN
        /\ q.committed \in BOOLEAN /\ q.born \in 0..MaxStops
        /\ q.queue \in Seq(Spoken \ {STOP}) /\ Len(q.queue) <= MaxChunks
        /\ q.prepared \in Seq(Spoken) /\ Len(q.prepared) <= MaxChunks
        /\ q.overflow \in Spoken /\ (q.committed => q.overflow = <<>>)
        /\ q.next \in 0..MaxUnits
        /\ q.cancelled \in BOOLEAN /\ q.closed \in BOOLEAN /\ q.failed \in BOOLEAN
        /\ q.outcome \in {"none", "pending", "completed", "cancelled", "failed"}
        /\ q.playbackId \in 0..device.generation
        /\ q.reported \in BOOLEAN
        /\ at[u].synth \in SynthSteps \cup AbortSteps
        /\ at[u].player \in PlayerSteps \cup AbortSteps
        /\ item[u].synth \in Spoken /\ item[u].player \in Spoken
        /\ item[u].expected \in 0..device.generation /\ item[u].started \in BOOLEAN
        /\ turn[u] \in {"none", "idle", "submitting", "cancel", "stop", "over"}
        /\ worker[u].at \in {"none", "playing", "drained", "error", "dead"}
        /\ worker[u].generation \in 0..device.generation
        /\ worker[u].verdict \in {"none", "completed", "cancelled", "failed"}
        /\ heard[u] \in Spoken
    /\ device.generation \in Nat
    /\ device.session \in 0..device.generation
    /\ device.chunks \in Seq(Spoken) /\ Len(device.chunks) <= MaxDevice
    /\ device.closed \in BOOLEAN /\ device.stopped \in BOOLEAN /\ device.finished \in BOOLEAN
    /\ streaming \in 0..MaxUtterances
    /\ speechGeneration \in 0..MaxStops
    /\ stop.at \in {"idle", "cancel", "abort"} /\ stop.queue \in 0..MaxUtterances
    /\ stop.seen \in 0..device.generation

NoStop == [at |-> "idle", queue |-> 0, seen |-> 0]

Init ==
    /\ speech = [u \in Utterances |-> Fresh]
    /\ at = [u \in Utterances |-> [synth |-> "none", player |-> "none"]]
    /\ item = [u \in Utterances |->
                  [synth |-> <<>>, player |-> <<>>, expected |-> 0, started |-> FALSE]]
    /\ turn = [u \in Utterances |-> "none"]
    /\ worker = [u \in Utterances |-> [at |-> "none", generation |-> 0, verdict |-> "none"]]
    /\ device = [generation |-> 0, session |-> 0, chunks |-> <<>>, closed |-> FALSE,
                 stopped |-> FALSE, finished |-> TRUE]
    /\ heard = [u \in Utterances |-> <<>>]
    /\ streaming = 0 /\ speechGeneration = 0 /\ stop = NoStop

-----------------------------------------------------------------------------
(* What both threads ask.                                                  *)

\* TtsSynthesisResourceManager.is_set(): the queue lost the right to speak.
IsSet(u) ==
    \/ speech[u].cancelled
    \/ speech[u].failed
    \/ speech[u].committed /\ speech[u].born # speechGeneration

At(u, t, step) == at[u][t] = step
Goto(u, t, step) == at' = [at EXCEPT ![u][t] = step]
Drop(u, t) == item' = [item EXCEPT ![u][t] = <<>>]

\* Where a thread goes when its function returns, and when a put succeeded.
Leave(u, t) == Goto(u, t, IF t = "synth" THEN "dead" ELSE "final")

\* The provider forgets its session and wakes whoever waits for it.
Retired(d) ==
    [d EXCEPT !.generation = @ + 1, !.stopped = TRUE, !.finished = TRUE,
              !.closed = TRUE, !.chunks = <<>>, !.session = 0]

\* Mutant: whatever session is open is stopped.
AbortAny(id) == IF id = 0 THEN device ELSE Retired(device)

\* abort_prepared_stream(): only its own session, and only the current one.
AbortStream(id) ==
    IF id # 0 /\ id = device.session /\ id = device.generation
    THEN Retired(device) ELSE device

-----------------------------------------------------------------------------
(* The service creates a queue when it has none, and its turn feeds it.    *)

Start(u) ==
    /\ turn[u] = "none" /\ \A v \in 1..(u - 1) : turn[v] = "over"
    /\ streaming = 0
    /\ \E committed \in Kinds :
        /\ speech' = [speech EXCEPT ![u] = [Fresh EXCEPT !.committed = committed,
                          !.born = speechGeneration, !.outcome = "pending"]]
        /\ turn' = [turn EXCEPT ![u] = IF committed THEN "over" ELSE "idle"]
    /\ at' = [at EXCEPT ![u] = [synth |-> "get", player |-> "get"]]
    /\ streaming' = u
    /\ UNCHANGED <<item, audio, speechGeneration, stop>>

\* The turn checks that its speech is current, releases the lock, then submits.
Enqueue(u) ==
    /\ turn[u] = "idle"
    /\ speech[u].born = speechGeneration
    /\ speech[u].next < MaxUnits
    /\ turn' = [turn EXCEPT ![u] = "submitting"]
    /\ UNCHANGED <<speech, at, item, audio, service>>

\* submit(): under _overflow_lock, a full queue joins the chunk to the overflow.
Submit(u) ==
    /\ turn[u] = "submitting"
    /\ turn' = [turn EXCEPT ![u] = "idle"]
    /\ LET q == speech[u] chunk == q.next + 1 IN
       IF q.cancelled \/ q.closed THEN UNCHANGED speech
       ELSE IF q.overflow = <<>> /\ Len(q.queue) < MaxChunks
       THEN speech' = [speech EXCEPT ![u].queue = Append(@, <<chunk>>), ![u].next = chunk]
       ELSE speech' = [speech EXCEPT ![u].overflow = Append(@, chunk), ![u].next = chunk]
    /\ UNCHANGED <<at, item, audio, service>>

\* The turn ends well and closes its queue, or ends badly and cancels it.
Close(u) ==
    /\ turn[u] = "idle"
    /\ speech' = [speech EXCEPT ![u].closed = TRUE]
    /\ turn' = [turn EXCEPT ![u] = "over"]
    /\ UNCHANGED <<at, item, audio, service>>

TurnFails(u) ==
    /\ "turn" \in Faults
    /\ turn[u] = "idle"
    /\ turn' = [turn EXCEPT ![u] = "cancel"]
    /\ UNCHANGED <<speech, at, item, audio, service>>

\* Mutant: the feeder uses the overflow, as submit() does.
FeedOverflows(u) ==
    /\ turn[u] = "over" /\ speech[u].committed /\ ~speech[u].closed
    /\ speech[u].next < MaxUnits /\ ~IsSet(u)
    /\ LET q == speech[u] chunk == q.next + 1 IN
       speech' = IF q.overflow = <<>> /\ Len(q.queue) < MaxChunks
                 THEN [speech EXCEPT ![u].queue = Append(@, <<chunk>>), ![u].next = chunk]
                 ELSE [speech EXCEPT ![u].overflow = Append(@, chunk), ![u].next = chunk]
    /\ UNCHANGED <<at, item, turn, audio, service>>

\* _feed_committed(): real backpressure, no overflow.
Feed(u) ==
    /\ turn[u] = "over" /\ speech[u].committed /\ ~speech[u].closed
    /\ speech[u].next < MaxUnits /\ ~IsSet(u)
    /\ Len(speech[u].queue) < MaxChunks
    /\ speech' = [speech EXCEPT ![u].queue = Append(@, <<speech[u].next + 1>>),
                                ![u].next = @ + 1]
    /\ UNCHANGED <<at, item, turn, audio, service>>

\* The feeder ends after its last unit (replies have any length) or when retired.
FeedEnds(u) ==
    /\ turn[u] = "over" /\ speech[u].committed /\ ~speech[u].closed
    /\ speech[u].next > 0 \/ IsSet(u)
    /\ speech' = [speech EXCEPT ![u].closed = TRUE]
    /\ UNCHANGED <<at, item, turn, audio, service>>

-----------------------------------------------------------------------------
(* cancel(), by the turn or by a stop: only the first call does anything.  *)

CancelledQueue(q) ==
    [q EXCEPT !.cancelled = TRUE, !.closed = TRUE, !.outcome = "cancelled",
              !.overflow = <<>>, !.queue = <<>>, !.prepared = <<>>]

TurnCancels(u) ==
    /\ turn[u] = "cancel"
    /\ IF speech[u].cancelled
       THEN /\ turn' = [turn EXCEPT ![u] = "over"] /\ UNCHANGED speech
       ELSE /\ turn' = [turn EXCEPT ![u] = "stop"]
            /\ speech' = [speech EXCEPT ![u] = CancelledQueue(@)]
    /\ UNCHANGED <<at, item, audio, service>>

TurnStops(u) ==
    /\ turn[u] = "stop"
    /\ turn' = [turn EXCEPT ![u] = "over"]
    /\ device' = AbortStream(speech[u].playbackId)
    /\ UNCHANGED <<speech, at, item, worker, heard, service>>

\* stop_speaking(): invalidate and detach under the lock.
StopDetaches ==
    /\ stop.at = "idle" /\ speechGeneration < MaxStops
    /\ speechGeneration' = speechGeneration + 1
    /\ stop' = [at |-> "cancel", queue |-> streaming, seen |-> device.generation]
    /\ streaming' = 0
    /\ UNCHANGED <<speech, at, item, turn, audio>>

\* ... and outside it cancel the detached queue; without one, stop_if_generation.
StopCancels ==
    /\ stop.at = "cancel"
    /\ LET u == stop.queue IN
       \/ /\ u = 0
          /\ device' = IF stop.seen = device.generation THEN Retired(device) ELSE device
          /\ stop' = NoStop /\ UNCHANGED speech
       \/ /\ u # 0 /\ speech[u].cancelled
          /\ stop' = NoStop /\ UNCHANGED <<speech, device>>
       \/ /\ u # 0 /\ ~speech[u].cancelled
          /\ speech' = [speech EXCEPT ![u] = CancelledQueue(@)]
          /\ stop' = [stop EXCEPT !.at = "abort"] /\ UNCHANGED device
    /\ UNCHANGED <<at, item, turn, worker, heard, streaming, speechGeneration>>

StopAborts ==
    /\ stop.at = "abort"
    /\ stop' = NoStop
    /\ device' = AbortStream(speech[stop.queue].playbackId)
    /\ UNCHANGED <<speech, at, item, turn, worker, heard, streaming, speechGeneration>>

-----------------------------------------------------------------------------
(* _synthesize()                                                           *)

SynthTakes(u) ==
    /\ At(u, "synth", "get") /\ ~IsSet(u) /\ speech[u].queue # <<>>
    /\ item' = [item EXCEPT ![u].synth = Head(speech[u].queue)]
    /\ speech' = [speech EXCEPT ![u].queue = Tail(@)]
    /\ Goto(u, "synth", "prepare")
    /\ UNCHANGED <<turn, audio, service>>

\* get() times out; the overflow is read under the lock, in a later step.
SynthTimesOut(u) ==
    /\ At(u, "synth", "get") /\ ~IsSet(u) /\ speech[u].queue = <<>>
    /\ Goto(u, "synth", "empty")
    /\ UNCHANGED <<speech, item, turn, audio, service>>

SynthTakesOverflow(u) ==
    /\ At(u, "synth", "empty")
    /\ item' = [item EXCEPT ![u].synth = speech[u].overflow]
    /\ speech' = [speech EXCEPT ![u].overflow = <<>>]
    /\ Goto(u, "synth", IF speech[u].overflow = <<>> THEN "closing" ELSE "prepare")
    /\ UNCHANGED <<turn, audio, service>>

\* Mutant: a closed queue is taken to be an empty one.
SynthEndsEarly(u) ==
    /\ At(u, "synth", "closing")
    /\ Goto(u, "synth", IF speech[u].closed THEN "stop" ELSE "get")
    /\ UNCHANGED <<speech, item, turn, audio, service>>

SynthEnds(u) ==
    /\ At(u, "synth", "closing")
    /\ Goto(u, "synth", IF speech[u].closed /\ speech[u].queue = <<>> THEN "stop" ELSE "get")
    /\ UNCHANGED <<speech, item, turn, audio, service>>

\* prepare(): the audio, a failure after the retries, or nothing when retired.
SynthPrepares(u) ==
    /\ At(u, "synth", "prepare")
    /\ \/ ~IsSet(u) /\ Goto(u, "synth", "put") /\ UNCHANGED item
       \/ "synthesis" \in Faults /\ ~IsSet(u) /\ Goto(u, "synth", "abort") /\ Drop(u, "synth")
       \/ IsSet(u) /\ Goto(u, "synth", "dead") /\ Drop(u, "synth")
    /\ UNCHANGED <<speech, turn, audio, service>>

\* _put_prepared(): waits for room unless cancelled, whether or not it failed.
PutsPrepared(u, what, then) ==
    /\ ~speech[u].cancelled
    /\ Len(speech[u].prepared) < MaxChunks
    /\ speech' = [speech EXCEPT ![u].prepared = Append(@, what)]
    /\ then

SynthPuts(u) ==
    /\ At(u, "synth", "put")
    /\ PutsPrepared(u, item[u].synth, Goto(u, "synth", "get"))
    /\ Drop(u, "synth")
    /\ UNCHANGED <<turn, audio, service>>

SynthStops(u) ==
    /\ At(u, "synth", "stop")
    /\ PutsPrepared(u, STOP, Goto(u, "synth", "dead"))
    /\ UNCHANGED <<item, turn, audio, service>>

SynthRetired(u) ==
    /\ \/ At(u, "synth", "get") /\ IsSet(u)
       \/ at[u].synth \in {"put", "stop"} /\ speech[u].cancelled
    /\ Goto(u, "synth", "dead") /\ Drop(u, "synth")
    /\ UNCHANGED <<speech, turn, audio, service>>

-----------------------------------------------------------------------------
(* _abort_speech_sequence(), by either thread.                             *)

AbortFails(u, t) ==
    /\ At(u, t, "abort")
    /\ speech' = [speech EXCEPT ![u].failed = TRUE]
    /\ Goto(u, t, "report")
    /\ UNCHANGED <<item, turn, audio, service>>

AbortReports(u, t) ==
    /\ At(u, t, "report")
    /\ speech' = [speech EXCEPT ![u].outcome = "failed", ![u].closed = TRUE,
                                ![u].reported = TRUE]
    /\ device' = AbortStream(speech[u].playbackId)
    /\ Goto(u, t, "clear")
    /\ UNCHANGED <<item, turn, worker, heard, service>>

AbortClears(u, t) ==
    /\ At(u, t, "clear")
    /\ speech' = [speech EXCEPT ![u].overflow = <<>>, ![u].queue = <<>>,
                                ![u].prepared = <<>>]
    /\ Goto(u, t, "last")
    /\ UNCHANGED <<item, turn, audio, service>>

AbortEnds(u, t) ==
    /\ At(u, t, "last")
    /\ \/ PutsPrepared(u, STOP, Leave(u, t))
       \/ speech[u].cancelled /\ Leave(u, t) /\ UNCHANGED speech
    /\ UNCHANGED <<item, turn, audio, service>>

-----------------------------------------------------------------------------
(* _play()                                                                 *)

PlayerTakes(u) ==
    /\ At(u, "player", "get") /\ ~IsSet(u) /\ speech[u].prepared # <<>>
    /\ item' = [item EXCEPT ![u].player = Head(speech[u].prepared)]
    /\ speech' = [speech EXCEPT ![u].prepared = Tail(@)]
    /\ Goto(u, "player", "item")
    /\ UNCHANGED <<turn, audio, service>>

\* The loop ends when retired.  (Its other exit, a dead synthesis thread that
\* left no sentinel, needs a retired queue too.)
PlayerRetired(u) ==
    /\ at[u].player \in {"get", "item", "refused", "drain"}
    /\ IsSet(u)
    /\ Goto(u, "player", "final") /\ Drop(u, "player")
    /\ UNCHANGED <<speech, turn, audio, service>>

\* The sentinel: close the session and wait for it, or end an empty utterance.
PlayerEnds(u) ==
    /\ At(u, "player", "item") /\ ~IsSet(u) /\ item[u].player = STOP
    /\ IF item[u].started
       THEN /\ Goto(u, "player", "drain")
            /\ device' = IF speech[u].playbackId = device.session
                         THEN [device EXCEPT !.closed = TRUE] ELSE device
            /\ UNCHANGED speech
       ELSE /\ Goto(u, "player", "final")
            /\ speech' = [speech EXCEPT ![u].outcome = "completed"]
            /\ UNCHANGED device
    /\ UNCHANGED <<item, turn, worker, heard, service>>

PlayerDrained(u) ==
    /\ At(u, "player", "drain") /\ device.finished
    /\ Goto(u, "player", "verdict")
    /\ UNCHANGED <<speech, item, turn, audio, service>>

\* continuous_stream_outcome(): the recorded result, or "cancelled" if replaced.
StreamOutcome(u) ==
    IF worker[u].verdict # "none" THEN worker[u].verdict
    ELSE IF worker[u].generation # device.generation THEN "cancelled" ELSE "none"

PlayerVerdict(u) ==
    /\ At(u, "player", "verdict")
    /\ LET outcome == StreamOutcome(u) IN
       speech' = IF outcome = "failed"
                 THEN [speech EXCEPT ![u].failed = TRUE, ![u].outcome = "failed",
                                     ![u].reported = TRUE]
                 ELSE IF outcome = "cancelled"
                 THEN [speech EXCEPT ![u].outcome = "cancelled"]
                 ELSE IF IsSet(u) THEN speech
                 ELSE [speech EXCEPT ![u].outcome = "completed"]
    /\ Goto(u, "player", "final")
    /\ UNCHANGED <<item, turn, audio, service>>

\* begin_prepared_stream() reads the generation before it takes the lock.
PlayerDispatches(u) ==
    /\ At(u, "player", "item") /\ ~IsSet(u) /\ item[u].player # STOP
    /\ item' = [item EXCEPT ![u].expected = device.generation]
    /\ Goto(u, "player", IF item[u].started THEN "append" ELSE "begin")
    /\ UNCHANGED <<speech, turn, audio, service>>

\* stop() whatever plays, then open a session of the next generation.
Begin(u) ==
    /\ At(u, "player", "begin")
    /\ item[u].expected = device.generation /\ ~IsSet(u)
    /\ LET g == device.generation + 2 IN
       /\ device' = [generation |-> g, session |-> g, chunks |-> <<item[u].player>>,
                     closed |-> FALSE, stopped |-> FALSE, finished |-> FALSE]
       /\ worker' = [worker EXCEPT ![u].at = "playing", ![u].generation = g]
    /\ Goto(u, "player", "opened") /\ Drop(u, "player")
    /\ UNCHANGED <<speech, turn, heard, service>>

\* Mutant: the id of the session is not kept.
OpenedForgetsId(u) ==
    /\ At(u, "player", "opened")
    /\ item' = [item EXCEPT ![u].started = TRUE]
    /\ Goto(u, "player", "appended")
    /\ UNCHANGED <<speech, turn, audio, service>>

Opened(u) ==
    /\ At(u, "player", "opened")
    /\ speech' = [speech EXCEPT ![u].playbackId = worker[u].generation]
    /\ item' = [item EXCEPT ![u].started = TRUE]
    /\ Goto(u, "player", "appended")
    /\ UNCHANGED <<turn, audio, service>>

Accepts(u) ==
    /\ device.session = speech[u].playbackId /\ device.session = device.generation
    /\ ~device.closed /\ ~device.stopped /\ ~IsSet(u)

\* append_prepared_stream(), which waits while the device has enough.
Appends(u) ==
    /\ At(u, "player", "append") /\ Accepts(u)
    /\ Len(device.chunks) < MaxDevice
    /\ device' = [device EXCEPT !.chunks = Append(@, item[u].player)]
    /\ Goto(u, "player", "appended") /\ Drop(u, "player")
    /\ UNCHANGED <<speech, turn, worker, heard, service>>

\* What the code does after a chunk was handed over.
Appended(u) ==
    /\ At(u, "player", "appended")
    /\ IF IsSet(u)
       THEN /\ device' = AbortStream(speech[u].playbackId) /\ Goto(u, "player", "final")
       ELSE /\ UNCHANGED device /\ Goto(u, "player", "get")
    /\ UNCHANGED <<speech, item, turn, worker, heard, service>>

\* The provider says no, or raises on unusable audio.
Refused(u) ==
    /\ \/ At(u, "player", "begin") /\ (item[u].expected # device.generation \/ IsSet(u))
       \/ At(u, "player", "append") /\ ~Accepts(u)
       \/ "chunk" \in Faults /\ at[u].player \in {"begin", "append"}
    /\ Goto(u, "player", "refused") /\ Drop(u, "player")
    /\ UNCHANGED <<speech, turn, audio, service>>

PlayerAborts(u) ==
    /\ At(u, "player", "refused") /\ ~IsSet(u)
    /\ Goto(u, "player", "abort")
    /\ UNCHANGED <<speech, item, turn, audio, service>>

\* The finally clause, then on_complete.
PlayerFinal(u) ==
    /\ At(u, "player", "final")
    /\ IF IsSet(u) /\ speech[u].outcome # "failed"
       THEN /\ speech' = [speech EXCEPT ![u].outcome = "cancelled"]
            /\ device' = AbortStream(speech[u].playbackId)
       ELSE UNCHANGED <<speech, device>>
    /\ Goto(u, "player", "complete")
    /\ UNCHANGED <<item, turn, worker, heard, service>>

Complete(u) ==
    /\ At(u, "player", "complete")
    /\ streaming' = IF streaming = u THEN 0 ELSE streaming
    /\ Goto(u, "player", "dead")
    /\ UNCHANGED <<speech, item, turn, audio, speechGeneration, stop>>

-----------------------------------------------------------------------------
(* The audio worker of a session, _play_continuous_audio().                *)

SessionRetired(u) ==
    device.stopped \/ worker[u].generation # device.generation \/ IsSet(u)

\* The audio callback renders the next chunk.
Render(u) ==
    /\ worker[u].at = "playing" /\ ~SessionRetired(u) /\ device.chunks # <<>>
    /\ heard' = [heard EXCEPT ![u] = @ \o Head(device.chunks)]
    /\ device' = [device EXCEPT !.chunks = Tail(@)]
    /\ UNCHANGED <<speech, at, item, turn, worker, service>>

RenderEnds(u) ==
    /\ worker[u].at = "playing"
    /\ \/ /\ ~SessionRetired(u) /\ device.chunks = <<>> /\ device.closed
          /\ worker' = [worker EXCEPT ![u].at = "drained"]
       \/ /\ SessionRetired(u) \/ "device" \in Faults
          /\ worker' = [worker EXCEPT ![u].at = "error"]
    /\ UNCHANGED <<speech, at, item, turn, device, heard, service>>

\* Mutant: the session's end is not announced when it was retired or failed.
WorkerEndsQuietly(u) ==
    /\ worker[u].at \in {"drained", "error"}
    /\ LET g == worker[u].generation
           result == IF SessionRetired(u) THEN "cancelled"
                     ELSE IF worker[u].at = "drained" THEN "completed" ELSE "failed" IN
       /\ worker' = [worker EXCEPT ![u].at = "dead", ![u].verdict = result]
       /\ device' =
            LET d == IF device.session = g
                     THEN [device EXCEPT !.session = 0, !.chunks = <<>>, !.closed = TRUE]
                     ELSE device IN
            IF g = device.generation /\ result = "completed"
            THEN [d EXCEPT !.finished = TRUE] ELSE d
    /\ UNCHANGED <<speech, at, item, turn, heard, service>>

\* Its end, under the dispatch lock.
WorkerEnds(u) ==
    /\ worker[u].at \in {"drained", "error"}
    /\ LET g == worker[u].generation
           result == IF SessionRetired(u) THEN "cancelled"
                     ELSE IF worker[u].at = "drained" THEN "completed" ELSE "failed" IN
       /\ worker' = [worker EXCEPT ![u].at = "dead", ![u].verdict = result]
       /\ device' =
            LET d == IF device.session = g
                     THEN [device EXCEPT !.session = 0, !.chunks = <<>>, !.closed = TRUE]
                     ELSE device IN
            IF g = device.generation THEN [d EXCEPT !.finished = TRUE] ELSE d
    /\ UNCHANGED <<speech, at, item, turn, heard, service>>

-----------------------------------------------------------------------------
Producer(u) == Enqueue(u) \/ Submit(u) \/ Close(u) \/ TurnFails(u) \/ TurnCancels(u)
               \/ TurnStops(u) \/ Feed(u) \/ FeedEnds(u)
Synthesize(u) == SynthTakes(u) \/ SynthTimesOut(u) \/ SynthTakesOverflow(u) \/ SynthEnds(u)
                 \/ SynthPrepares(u) \/ SynthPuts(u) \/ SynthStops(u) \/ SynthRetired(u)
Abort(u, t) == AbortFails(u, t) \/ AbortReports(u, t) \/ AbortClears(u, t) \/ AbortEnds(u, t)
Play(u) == PlayerTakes(u) \/ PlayerRetired(u) \/ PlayerEnds(u) \/ PlayerDrained(u)
           \/ PlayerVerdict(u) \/ PlayerDispatches(u) \/ Begin(u) \/ Opened(u) \/ Appends(u)
           \/ Appended(u) \/ Refused(u) \/ PlayerAborts(u) \/ PlayerFinal(u) \/ Complete(u)
Worker(u) == Render(u) \/ RenderEnds(u) \/ WorkerEnds(u)
Stopping == StopCancels \/ StopAborts

Next ==
    \/ StopDetaches \/ Stopping
    \/ \E u \in Utterances :
        \/ Start(u) \/ Producer(u) \/ Synthesize(u) \/ Play(u) \/ Worker(u)
        \/ \E t \in Threads : Abort(u, t)

\* Every thread that can run does; nobody has to start or stop an utterance,
\* and a turn need not produce a chunk, but it ends.
Fairness ==
    /\ WF_vars(Stopping)
    /\ \A u \in Utterances :
        /\ WF_vars(Producer(u)) /\ WF_vars(Synthesize(u) \/ Abort(u, "synth"))
        /\ WF_vars(Play(u) \/ Abort(u, "player")) /\ WF_vars(Worker(u))

Spec == Init /\ [][Next]_vars /\ Fairness

-----------------------------------------------------------------------------
Inorder(units) == units = [i \in 1..Len(units) |-> i]
Done(u) == at[u].player = "dead"

\* What was heard of any utterance is its first chunks in their order: submit()
\* queues a chunk "without reordering it".
PlaysInOrder == \A u \in Utterances : Inorder(heard[u])

\* No text is lost, repeated or moved: committed text, whose feeder waits instead
\* of overflowing, is heard in its order; an utterance that ends "completed" was
\* rendered whole, every chunk submit() or the feeder accepted; one that ends
\* "failed" was reported to the service.
HeardAsWritten ==
    \A u \in Utterances :
        /\ speech[u].committed => Inorder(heard[u])
        /\ Done(u) /\ speech[u].outcome = "completed" =>
              /\ Len(heard[u]) = speech[u].next
              /\ \A i \in 1..speech[u].next : \E j \in 1..Len(heard[u]) : heard[u][j] = i
        /\ Done(u) /\ speech[u].outcome = "failed" => speech[u].reported

\* Both owners of an utterance stay right, however its retirement raced with
\* the opening of its session: once its playback thread is gone the device no
\* longer belongs to a retired one, and until then the service's reference is
\* the utterance of the current generation, whatever older one ends meanwhile.
SpeechIsOwned ==
    \A u \in Utterances :
        /\ Done(u) /\ IsSet(u) /\ worker[u].generation # 0
              => device.generation # worker[u].generation \/ worker[u].at = "dead"
        /\ turn[u] # "none" /\ ~Done(u) /\ speech[u].born = speechGeneration
              => streaming = u

\* A session is only taken from a live utterance by the start of another: no
\* stop, cancellation or cleanup of an older one touches it.
Live(u) == worker[u].at = "playing" /\ worker[u].generation = device.generation
ReplacementSpared ==
    [][\A u \in Utterances :
          Live(u) /\ ~Live(u)' /\ ~IsSet(u)' /\ speech[u].born = speechGeneration'
          => worker'[u].at # "playing"
             \/ \E v \in Utterances \ {u} : worker[v].at = "none" /\ worker'[v].at # "none"]_vars

\* Every utterance ends: its player runs on_complete exactly once.
UtteranceEnds == \A u \in Utterances : (turn[u] # "none") ~> Done(u)

-----------------------------------------------------------------------------
(* The refinement: an utterance is what was accepted, what was heard and   *)
(* how on_complete announced its end.                                      *)

Result(u) ==
    IF ~Done(u) THEN "no"
    ELSE IF speech[u].outcome = "completed" THEN "whole"
    ELSE IF speech[u].outcome \in {"cancelled", "failed"} THEN "cut" ELSE "unknown"

Output == INSTANCE SpeechOutput WITH
    ordered <- [u \in Utterances |-> speech[u].committed],
    text <- [u \in Utterances |-> speech[u].next],
    said <- heard,
    result <- [u \in Utterances |-> Result(u)]

\* Queues, overflow, threads, sessions, their retirements and failures are invisible in
\* what the listener and the service are told of an utterance.
ImplementsOutput == Output!Spec
====
