----------------------- MODULE StreamingSpeechProofs -----------------------
(***************************************************************************)
(* TLAPS proofs about the chunks of spoken replies, for any number of      *)
(* utterances, chunks and stops.                                           *)
(***************************************************************************)
EXTENDS StreamingSpeech, SequenceTheorems, FiniteSetTheorems, TLAPS

-----------------------------------------------------------------------------
(* The inductive invariant of the chunks.                                  *)

Outcomes == {"none", "pending", "completed", "cancelled", "failed"}
TurnPlaces == {"none", "idle", "submitting", "cancel", "stop", "over"}
SpeechRecords ==
    [committed: BOOLEAN, born: 0..MaxStops, queue: Seq(Spoken \ {STOP}),
     overflow: Spoken, prepared: Seq(Spoken), next: 0..MaxUnits,
     cancelled: BOOLEAN, closed: BOOLEAN, failed: BOOLEAN, outcome: Outcomes,
     playbackId: Nat, reported: BOOLEAN]
ThreadRecords == [synth: SynthSteps \cup AbortSteps, player: PlayerSteps \cup AbortSteps]
ItemRecords == [synth: Spoken, player: Spoken, expected: Nat, started: BOOLEAN]
WorkerRecords ==
    [at: {"none", "playing", "drained", "error", "dead"}, generation: Nat,
     verdict: {"none", "completed", "cancelled", "failed"}]
DeviceRecords ==
    [generation: Nat, session: Nat, chunks: Seq(Spoken), closed: BOOLEAN,
     stopped: BOOLEAN, finished: BOOLEAN]
StopRecords == [at: {"idle", "cancel", "abort"}, queue: 0..MaxUtterances, seen: Nat]

SpeechShapes ==
    /\ speech \in [Utterances -> SpeechRecords]
    /\ at \in [Utterances -> ThreadRecords]
    /\ item \in [Utterances -> ItemRecords]
    /\ turn \in [Utterances -> TurnPlaces]
    /\ worker \in [Utterances -> WorkerRecords]
    /\ device \in DeviceRecords
    /\ heard \in [Utterances -> Spoken]
    /\ streaming \in 0..MaxUtterances
    /\ speechGeneration \in 0..MaxStops
    /\ stop \in StopRecords

\* The queues and the numbers of an utterance are within their bounds.
QueuesBounded(u) ==
    /\ Len(speech[u].queue) <= MaxChunks /\ Len(speech[u].prepared) <= MaxChunks
    /\ speech[u].committed => speech[u].overflow = <<>>
    /\ turn[u] = "submitting" => speech[u].next < MaxUnits
    /\ turn[u] \in {"idle", "submitting"} => ~speech[u].committed
GenerationsKnown(u) ==
    /\ speech[u].playbackId <= device.generation
    /\ item[u].expected <= device.generation
    /\ worker[u].generation <= device.generation
    /\ speech[u].born <= speechGeneration
DeviceBounded ==
    /\ device.session <= device.generation /\ Len(device.chunks) <= MaxDevice
    /\ stop.seen <= device.generation

\* What a cancelling turn, a failing thread and an unborn utterance have left behind.
MarksLeft(u) ==
    /\ turn[u] = "stop" => speech[u].cancelled
    /\ \A t \in Threads : at[u][t] \in {"report", "clear", "last"} => speech[u].failed
    /\ speech[u].outcome = "failed" => speech[u].failed
    /\ turn[u] = "none" =>
          /\ at[u].player = "none" /\ at[u].synth = "none"
          /\ worker[u].at = "none" /\ ~item[u].started
          /\ streaming # u /\ stop.queue # u

\* An utterance opens one session, and keeps its id from then on.
SessionKept(u) ==
    /\ worker[u].generation = 0 <=> worker[u].at = "none"
    /\ at[u].player \in {"begin", "opened"} => ~item[u].started
    /\ at[u].player \in {"append", "appended", "drain", "verdict"} => item[u].started
    /\ at[u].player = "opened" => worker[u].at # "none"
    /\ item[u].started => worker[u].at # "none" /\ speech[u].playbackId = worker[u].generation
    /\ ~item[u].started => speech[u].playbackId = 0
    /\ worker[u].at # "none" => item[u].started \/ at[u].player = "opened"

\* No two sessions have one generation.
SessionsApart ==
    \A u, v \in Utterances :
        worker[u].generation = worker[v].generation /\ worker[u].at # "none" => u = v

\* The device is at the session of a worker that may still render it, and whoever
\* waits for its end goes on waiting.
DeviceServes(u) ==
    worker[u].at \in {"playing", "drained", "error"} /\ worker[u].generation = device.generation
    => device.session = device.generation /\ ~device.finished

\* The session of an utterance is no longer the device's.
Settled(u) == worker[u].at = "dead" \/ worker[u].generation # device.generation

\* On its way out a playback thread has settled its session, or knows that it must; an
\* utterance that failed is settled, or its thread will learn of the failure next.
PlayerSettles(u) ==
    worker[u].at # "none" =>
        /\ at[u].player \in {"verdict", "clear", "last", "complete", "dead"} => Settled(u)
        /\ at[u].player = "final" => Settled(u) \/ IsSet(u)
        /\ speech[u].outcome = "failed" => Settled(u) \/ at[u].player \in {"opened", "appended"}

\* The service's reference.
ReferenceKept(u) ==
    turn[u] # "none" /\ ~Done(u) /\ speech[u].born = speechGeneration => streaming = u

\* A stop aborts the session of a queue it cancelled; sessions it saw when it detached are of
\* older utterances.
StopIsEarlier ==
    /\ stop.at = "abort" => stop.queue # 0 /\ speech[stop.queue].cancelled
    /\ stop.at = "cancel" =>
          \A u \in Utterances : worker[u].at # "none" /\ worker[u].generation <= stop.seen
                                => speech[u].born < speechGeneration

UtteranceFacts(u) ==
    /\ QueuesBounded(u) /\ GenerationsKnown(u) /\ MarksLeft(u) /\ SessionKept(u)
    /\ DeviceServes(u) /\ PlayerSettles(u) /\ ReferenceKept(u)

SpeechIInv ==
    /\ SpeechShapes
    /\ \A u \in Utterances : UtteranceFacts(u)
    /\ DeviceBounded /\ SessionsApart /\ StopIsEarlier


-----------------------------------------------------------------------------
(* Sequences of chunks, and how one field of one utterance changes.        *)

\* A chunk more, a chunk less.
LEMMA Chunked ==
    ASSUME NEW S, NEW s \in Seq(S), NEW x \in S
    PROVE  /\ Append(s, x) \in Seq(S) /\ Len(Append(s, x)) = Len(s) + 1
           /\ Append(s, x) # <<>>
           /\ Len(s) \in Nat
           /\ s # <<>> => /\ Tail(s) \in Seq(S) /\ Len(Tail(s)) = Len(s) - 1
                          /\ Head(s) \in S
<1>1. Len(s) \in Nat
  BY LenProperties
<1>2. Append(s, x) \in Seq(S) /\ Len(Append(s, x)) = Len(s) + 1 /\ Append(s, x) # <<>>
  BY AppendProperties
<1>3. ASSUME s # <<>> PROVE Tail(s) \in Seq(S) /\ Len(Tail(s)) = Len(s) - 1 /\ Head(s) \in S
  BY <1>3, HeadTailProperties
<1> QED
  BY <1>1, <1>2, <1>3

\* The empty sequence and a sequence of one.
LEMMA Short ==
    ASSUME NEW S, NEW x \in S
    PROVE  /\ <<>> \in Seq(S) /\ Len(<<>>) = 0
           /\ <<x>> \in Seq(S) /\ <<x>> # <<>> /\ Len(<<x>>) = 1
<1>1. <<>> \in Seq(S) /\ Len(<<>>) = 0
  OBVIOUS
<1>2. <<x>> = Append(<<>>, x)
  OBVIOUS
<1>3. <<x>> \in Seq(S) /\ Len(<<x>>) = 1
  BY <1>1, <1>2
<1> QED
  BY <1>1, <1>3

\* What is rendered after what was heard.
LEMMA Joined ==
    ASSUME NEW S, NEW s \in Seq(S), NEW t \in Seq(S)
    PROVE  s \o t \in Seq(S)
  BY ConcatProperties

\* Threads go on one at a time.
LEMMA PlayerGoes ==
    ASSUME at \in [Utterances -> ThreadRecords], NEW u \in Utterances,
           NEW step \in PlayerSteps \cup AbortSteps, Goto(u, "player", step)
    PROVE  /\ at' \in [Utterances -> ThreadRecords]
           /\ at'[u].player = step /\ at'[u].synth = at[u].synth
           /\ \A w \in Utterances \ {u} : at'[w] = at[w]
  BY DEF Goto, ThreadRecords

LEMMA SynthGoes ==
    ASSUME at \in [Utterances -> ThreadRecords], NEW u \in Utterances,
           NEW step \in SynthSteps \cup AbortSteps, Goto(u, "synth", step)
    PROVE  /\ at' \in [Utterances -> ThreadRecords]
           /\ at'[u].synth = step /\ at'[u].player = at[u].player
           /\ \A w \in Utterances \ {u} : at'[w] = at[w]
  BY DEF Goto, ThreadRecords

\* A thread lets go of its item.
LEMMA Dropped ==
    ASSUME item \in [Utterances -> ItemRecords], NEW u \in Utterances, NEW t \in Threads,
           Drop(u, t)
    PROVE  /\ item' \in [Utterances -> ItemRecords]
           /\ item'[u].started = item[u].started /\ item'[u].expected = item[u].expected
           /\ \A w \in Utterances \ {u} : item'[w] = item[w]
<1>1. <<>> \in Spoken
  BY DEF Spoken
<1> QED
  BY <1>1 DEF Drop, ItemRecords, Threads


-----------------------------------------------------------------------------
(* The device, and what one utterance may do to the others.                *)

\* A retired session leaves the next generation, and no session.
LEMMA RetiredShape ==
    ASSUME device \in DeviceRecords
    PROVE  /\ Retired(device) \in DeviceRecords
           /\ Retired(device).generation = device.generation + 1
           /\ Retired(device).session = 0 /\ Len(Retired(device).chunks) = 0
<1>1. <<>> \in Seq(Spoken) /\ Len(<<>>) = 0
  BY EmptySeq
<1> PICK e : e = <<>>
  OBVIOUS
<1>2. e \in Seq(Spoken)
  BY <1>1
<1> PICK d : d = [device EXCEPT !.generation = @ + 1, !.stopped = TRUE, !.finished = TRUE,
                                !.closed = TRUE, !.chunks = e, !.session = 0]
  OBVIOUS
<1>3. d = Retired(device)
  BY DEF Retired
<1>4. /\ d.generation = device.generation + 1 /\ d.session = 0 /\ d.chunks = e
      /\ d \in DeviceRecords
  <2>1. device.generation + 1 \in Nat
    BY DEF DeviceRecords
  <2>2. d.session = 0 /\ d.chunks = e
    BY DEF DeviceRecords
  <2>3. d.generation = device.generation + 1
    BY DEF DeviceRecords
  <2>4. d \in DeviceRecords
    BY <1>2, <2>1 DEF DeviceRecords
  <2> QED
    BY <2>2, <2>3, <2>4
<1> QED
  BY <1>1, <1>3, <1>4

\* An abort retires the session of its id when that is current, or does nothing.
LEMMA AbortShape ==
    ASSUME device \in DeviceRecords, DeviceBounded, NEW id \in Nat
    PROVE  /\ AbortStream(id) \in DeviceRecords
           /\ Len(AbortStream(id).chunks) <= MaxDevice
           /\ AbortStream(id).session <= AbortStream(id).generation
           /\ \/ AbortStream(id) = device
              \/ /\ AbortStream(id).generation = device.generation + 1
                 /\ id # 0 /\ id = device.generation
           /\ id # 0 /\ id = device.session /\ id = device.generation
                 => AbortStream(id).generation = device.generation + 1
<1>1. device.generation \in Nat /\ MaxDevice \in Nat
  BY BoundsAssumption DEF BoundsAssumption, DeviceRecords
<1>2. CASE id # 0 /\ id = device.session /\ id = device.generation
  BY <1>1, <1>2, RetiredShape DEF AbortStream
<1>3. CASE ~(id # 0 /\ id = device.session /\ id = device.generation)
  BY <1>1, <1>3 DEF AbortStream, DeviceBounded
<1> QED
  BY <1>2, <1>3

\* Whose session the device is at.
Serving(w) ==
    worker[w].at \in {"playing", "drained", "error"} /\ worker[w].generation = device.generation

\* A step of u leaves the device to the others or takes it from all of them.
DeviceGoesOn(u) ==
    \/ device'.generation > device.generation
    \/ /\ device'.generation = device.generation
       /\ \A w \in Utterances \ {u} :
             Serving(w) => device'.session = device.session /\ device'.finished = device.finished

\* A step of u is not one of the others.
OthersStay(u) ==
    \A w \in Utterances \ {u} :
        /\ speech'[w] = speech[w] /\ at'[w] = at[w] /\ item'[w] = item[w]
        /\ turn'[w] = turn[w] /\ worker'[w] = worker[w]
        /\ (streaming' = w) <=> (streaming = w)

\* A stop goes on beside a step, ends, or has cancelled its queue in it.
StopGoesOn(u) ==
    \/ stop' = stop
    \/ stop' = NoStop
    \/ /\ stop'.queue = stop.queue /\ stop.queue = u /\ stop'.at = "abort"
       /\ stop'.seen = stop.seen /\ speech'[u].cancelled

\* The facts of the others survive.
LEMMA OthersKeep ==
    ASSUME SpeechIInv, SpeechShapes', NEW u, OthersStay(u), DeviceGoesOn(u),
           speechGeneration' = speechGeneration, StopGoesOn(u),
           NEW w \in Utterances \ {u}
    PROVE  UtteranceFacts(w)'
<1>1. /\ w \in Utterances /\ UtteranceFacts(w)
      /\ speech'[w] = speech[w] /\ at'[w] = at[w] /\ item'[w] = item[w]
      /\ turn'[w] = turn[w] /\ worker'[w] = worker[w]
      /\ (streaming' = w) <=> (streaming = w)
  BY DEF SpeechIInv, OthersStay
<1>2. /\ device.generation \in Nat /\ device'.generation \in Nat
      /\ device.generation <= device'.generation
  <2>1. device \in DeviceRecords /\ device' \in DeviceRecords
    BY DEF SpeechIInv, SpeechShapes
  <2>2. device.generation \in Nat /\ device'.generation \in Nat
    BY <2>1 DEF DeviceRecords
  <2> QED
    BY <2>2 DEF DeviceGoesOn
<1>3. /\ worker[w].generation \in Nat /\ speech[w].playbackId \in Nat /\ item[w].expected \in Nat
      /\ worker[w].at \in {"none", "playing", "drained", "error", "dead"}
  <2>1. worker[w] \in WorkerRecords /\ speech[w] \in SpeechRecords /\ item[w] \in ItemRecords
    BY DEF SpeechIInv, SpeechShapes
  <2> QED
    BY <2>1 DEF WorkerRecords, SpeechRecords, ItemRecords
<1>4. QueuesBounded(w)'
  BY <1>1 DEF UtteranceFacts, QueuesBounded
<1>5. GenerationsKnown(w)'
  BY <1>1, <1>2, <1>3 DEF UtteranceFacts, GenerationsKnown
<1>6. MarksLeft(w)'
  <2>1. stop'.queue = stop.queue \/ stop'.queue = 0
    BY DEF StopGoesOn, NoStop
  <2>2. w # 0
    BY DEF Utterances
  <2> QED
    BY <1>1, <2>1, <2>2 DEF UtteranceFacts, MarksLeft
<1>7. SessionKept(w)'
  BY <1>1 DEF UtteranceFacts, SessionKept
<1>8. DeviceServes(w)'
  <2>1. CASE device'.generation > device.generation
    <3>1. worker[w].generation <= device.generation
      BY <1>1 DEF UtteranceFacts, GenerationsKnown
    <3>2. worker[w].generation # device'.generation
      BY <2>1, <3>1, <1>2, <1>3
    <3> QED
      BY <1>1, <3>2 DEF DeviceServes
  <2>2. CASE /\ device'.generation = device.generation
             /\ Serving(w) => device'.session = device.session
                              /\ device'.finished = device.finished
    BY <1>1, <2>2 DEF UtteranceFacts, DeviceServes, Serving
  <2> QED
    BY <2>1, <2>2 DEF DeviceGoesOn
<1>9. PlayerSettles(w)'
  <2>1. Settled(w) => Settled(w)'
    BY <1>1, <1>2, <1>3 DEF Settled, UtteranceFacts, GenerationsKnown
  <2>2. IsSet(w) => IsSet(w)'
    BY <1>1 DEF IsSet
  <2> QED
    BY <1>1, <2>1, <2>2 DEF UtteranceFacts, PlayerSettles
<1>10. ReferenceKept(w)'
  BY <1>1 DEF UtteranceFacts, ReferenceKept, Done
<1> QED
  BY <1>4, <1>5, <1>6, <1>7, <1>8, <1>9, <1>10 DEF UtteranceFacts


\* A step of one utterance keeps the invariant if it keeps the utterance's own facts.
LEMMA OneGoesOn ==
    ASSUME SpeechIInv, SpeechShapes', DeviceBounded', NEW u \in Utterances,
           OthersStay(u), DeviceGoesOn(u),
           speechGeneration' = speechGeneration, StopGoesOn(u), UtteranceFacts(u)',
           \/ /\ worker'[u].generation = worker[u].generation
              /\ worker'[u].at = "none" <=> worker[u].at = "none"
           \/ worker'[u].generation > device.generation,
           speech'[u].born = speech[u].born \/ worker'[u].at = "none",
           speech[u].cancelled /\ stop.queue = u => speech'[u].cancelled
    PROVE  SpeechIInv'
<1>1. \A w \in Utterances : UtteranceFacts(w)'
  <2> TAKE w \in Utterances
  <2>1. CASE w = u
    BY <2>1
  <2>2. CASE w # u
    BY <2>2, OthersKeep
  <2> QED
    BY <2>1, <2>2
<1>2. \A w \in Utterances :
          /\ worker[w].generation \in Nat /\ worker'[w].generation \in Nat
          /\ worker[w].generation <= device.generation
          /\ worker[w].generation = 0 <=> worker[w].at = "none"
          /\ worker'[w].generation = 0 <=> worker'[w].at = "none"
  <2> TAKE w \in Utterances
  <2>1. worker[w] \in WorkerRecords /\ worker'[w] \in WorkerRecords
    BY DEF SpeechIInv, SpeechShapes
  <2>2. UtteranceFacts(w) /\ UtteranceFacts(w)'
    BY <1>1 DEF SpeechIInv
  <2> QED
    BY <2>1, <2>2 DEF WorkerRecords, UtteranceFacts, GenerationsKnown, SessionKept
<1>3. \A w \in Utterances \ {u} : worker'[w] = worker[w] /\ speech'[w] = speech[w]
  BY DEF OthersStay
<1>4. device.generation \in Nat
  BY DEF SpeechIInv, SpeechShapes, DeviceRecords
<1>5. SessionsApart'
  <2> SUFFICES ASSUME NEW v \in Utterances, NEW w \in Utterances,
                      worker'[v].generation = worker'[w].generation, worker'[v].at # "none",
                      v # w
               PROVE  FALSE
    BY DEF SessionsApart
  <2>1. \A x, y \in Utterances :
            worker[x].generation = worker[y].generation /\ worker[x].at # "none" => x = y
    BY DEF SpeechIInv, SessionsApart
  <2>2. CASE /\ worker'[u].generation = worker[u].generation
             /\ worker'[u].at = "none" <=> worker[u].at = "none"
    BY <2>1, <2>2, <1>3
  <2>3. CASE worker'[u].generation > device.generation
    BY <2>1, <2>3, <1>2, <1>3, <1>4
  <2> QED
    BY <2>2, <2>3
<1>6. CASE stop' = stop
  <2>1. StopIsEarlier
    BY DEF SpeechIInv
  <2>2. ASSUME stop.at = "abort" PROVE stop.queue # 0 /\ speech'[stop.queue].cancelled
    <3>1. stop.queue # 0 /\ speech[stop.queue].cancelled
      BY <2>1, <2>2 DEF StopIsEarlier
    <3>2. stop.queue \in Utterances
      <4>1. stop.queue \in 0..MaxUtterances /\ MaxUtterances \in Nat
        BY BoundsAssumption DEF BoundsAssumption, SpeechIInv, SpeechShapes, StopRecords
      <4> QED
        BY <3>1, <4>1 DEF Utterances
    <3> QED
      BY <3>1, <3>2, <1>3
  <2>3. ASSUME stop.at = "cancel", NEW w \in Utterances, worker'[w].at # "none",
               worker'[w].generation <= stop.seen
        PROVE  speech'[w].born < speechGeneration
    <3>1. CASE w # u
      BY <2>1, <2>3, <3>1, <1>3 DEF StopIsEarlier
    <3>2. CASE w = u /\ worker'[u].generation > device.generation
      <4>1. stop.seen <= device.generation /\ stop.seen \in Nat
        BY DEF SpeechIInv, DeviceBounded, SpeechShapes, StopRecords
      <4> QED
        BY <2>3, <3>2, <4>1, <1>2, <1>4
    <3>3. CASE /\ w = u /\ worker'[u].generation = worker[u].generation
               /\ worker'[u].at = "none" <=> worker[u].at = "none"
      <4>1. speech[u].born < speechGeneration
        BY <2>1, <2>3, <3>3 DEF StopIsEarlier
      <4> QED
        BY <4>1, <3>3, <2>3
    <3> QED
      BY <3>1, <3>2, <3>3
  <2>4. StopIsEarlier'
    BY <2>2, <2>3, <1>6 DEF StopIsEarlier
  <2> QED
    BY <2>4, <1>1, <1>5 DEF SpeechIInv
<1>7. CASE stop' # stop
  <2>1. u # 0
    BY DEF Utterances
  <2>2. StopIsEarlier'
    BY <1>7, <2>1 DEF StopIsEarlier, StopGoesOn, NoStop
  <2> QED
    BY <2>2, <1>1, <1>5 DEF SpeechIInv
<1> QED
  BY <1>6, <1>7


\* What the session of an utterance depends on.
SameStanding(u) ==
    /\ speech'[u].committed = speech[u].committed /\ speech'[u].born = speech[u].born
    /\ speech'[u].cancelled = speech[u].cancelled /\ speech'[u].failed = speech[u].failed
    /\ speech'[u].outcome = speech[u].outcome /\ speech'[u].playbackId = speech[u].playbackId

\* The device is the same but for what is queued on it, and whether more may be.
SameSession ==
    /\ device'.generation = device.generation /\ device'.session = device.session
    /\ device'.finished = device.finished /\ Len(device'.chunks) <= MaxDevice

SameService ==
    /\ worker' = worker /\ (device' = device \/ SameSession) /\ streaming' = streaming
    /\ speechGeneration' = speechGeneration /\ stop' = stop

\* Producers and synthesis threads fill and empty queues, and leave the player be.
LEMMA PlayerStays ==
    ASSUME SpeechIInv, SpeechShapes', NEW u \in Utterances, OthersStay(u), SameService,
           SameStanding(u), QueuesBounded(u)', at'[u].player = at[u].player,
           at'[u].synth \in {"report", "clear", "last"} => speech[u].failed,
           item'[u].started = item[u].started, item'[u].expected = item[u].expected,
           turn'[u] # "none", turn[u] # "none",
           turn'[u] = "stop" => speech[u].cancelled
    PROVE  SpeechIInv'
<1>1. UtteranceFacts(u) /\ DeviceBounded
  BY DEF SpeechIInv
<1>2. worker'[u] = worker[u]
  BY DEF SameService
<1>3. GenerationsKnown(u)'
  BY <1>1 DEF UtteranceFacts, GenerationsKnown, SameService, SameSession, SameStanding
<1>4. MarksLeft(u)'
  <2>1. at'[u].player \in {"report", "clear", "last"} => speech'[u].failed
    BY <1>1 DEF UtteranceFacts, MarksLeft, SameStanding, Threads
  <2>2. at'[u].synth \in {"report", "clear", "last"} => speech'[u].failed
    BY DEF SameStanding
  <2> QED
    BY <2>1, <2>2, <1>1 DEF UtteranceFacts, MarksLeft, SameStanding, SameService, Threads
<1>5. SessionKept(u)'
  BY <1>1 DEF UtteranceFacts, SessionKept, SameStanding, SameService
<1>6. DeviceServes(u)'
  BY <1>1 DEF UtteranceFacts, DeviceServes, SameService, SameSession
<1>7. PlayerSettles(u)'
  BY <1>1 DEF UtteranceFacts, PlayerSettles, Settled, IsSet, SameService,
              SameSession, SameStanding
<1>8. ReferenceKept(u)'
  BY <1>1 DEF UtteranceFacts, ReferenceKept, Done, SameService, SameStanding
<1>9. UtteranceFacts(u)'
  BY <1>3, <1>4, <1>5, <1>6, <1>7, <1>8 DEF UtteranceFacts
<1>10. DeviceGoesOn(u) /\ DeviceBounded'
  BY <1>1 DEF SameService, SameSession, DeviceGoesOn, DeviceBounded
<1>11. StopGoesOn(u) /\ speechGeneration' = speechGeneration
  BY DEF SameService, StopGoesOn
<1>12. speech'[u].born = speech[u].born /\ speech[u].cancelled => speech'[u].cancelled
  BY DEF SameStanding
<1>13. speech'[u].born = speech[u].born
  BY DEF SameStanding
<1> QED
  BY <1>2, <1>9, <1>10, <1>11, <1>12, <1>13, OneGoesOn

\* A playback thread that goes from one place to another.
LEMMA PlayerGoesOn ==
    ASSUME SpeechIInv, SpeechShapes', NEW u \in Utterances, OthersStay(u), SameService,
           SameStanding(u), QueuesBounded(u)', turn' = turn,
           at'[u].synth = at[u].synth, item'[u].started = item[u].started,
           item'[u].expected <= device.generation,
           at[u].player \notin {"none", "opened", "dead"},
           at[u].player = "appended" => speech[u].outcome # "failed",
           at'[u].player \notin {"none", "opened", "dead"},
           at'[u].player \in {"report", "clear", "last"} => speech[u].failed,
           at'[u].player = "begin" => ~item[u].started,
           at'[u].player \in {"append", "appended", "drain", "verdict"} => item[u].started,
           worker[u].at # "none" =>
              /\ at'[u].player \in {"verdict", "clear", "last", "complete"} => Settled(u)
              /\ at'[u].player = "final" => Settled(u) \/ IsSet(u)
    PROVE  SpeechIInv'
<1>1. UtteranceFacts(u) /\ DeviceBounded
  BY DEF SpeechIInv
<1>2. worker'[u] = worker[u]
  BY DEF SameService
<1>3. GenerationsKnown(u)'
  BY <1>1 DEF UtteranceFacts, GenerationsKnown, SameService, SameSession, SameStanding
<1>4. MarksLeft(u)'
  <2>1. at'[u].player \in {"report", "clear", "last"} => speech'[u].failed
    BY DEF SameStanding
  <2>2. at'[u].synth \in {"report", "clear", "last"} => speech'[u].failed
    BY <1>1 DEF UtteranceFacts, MarksLeft, SameStanding, Threads
  <2>3. turn'[u] # "none"
    BY <1>1 DEF UtteranceFacts, MarksLeft
  <2> QED
    BY <2>1, <2>2, <2>3, <1>1 DEF UtteranceFacts, MarksLeft, SameStanding, Threads
<1>5. SessionKept(u)'
  BY <1>1 DEF UtteranceFacts, SessionKept, SameStanding, SameService
<1>6. DeviceServes(u)'
  BY <1>1 DEF UtteranceFacts, DeviceServes, SameService, SameSession
<1>7. PlayerSettles(u)'
  <2>1. Settled(u)' <=> Settled(u)
    BY DEF Settled, SameService, SameSession
  <2>2. IsSet(u)' <=> IsSet(u)
    BY DEF IsSet, SameService, SameStanding
  <2> QED
    BY <1>1, <1>2, <2>1, <2>2 DEF UtteranceFacts, PlayerSettles, SameStanding
<1>8. ReferenceKept(u)'
  BY <1>1 DEF UtteranceFacts, ReferenceKept, Done, SameService, SameStanding
<1>9. UtteranceFacts(u)'
  BY <1>3, <1>4, <1>5, <1>6, <1>7, <1>8 DEF UtteranceFacts
<1>10. DeviceGoesOn(u) /\ DeviceBounded'
  BY <1>1 DEF SameService, SameSession, DeviceGoesOn, DeviceBounded
<1>11. StopGoesOn(u) /\ speechGeneration' = speechGeneration
  BY DEF SameService, StopGoesOn
<1>12. speech'[u].born = speech[u].born /\ speech'[u].cancelled = speech[u].cancelled
  BY DEF SameStanding
<1> QED
  BY <1>2, <1>9, <1>10, <1>11, <1>12, OneGoesOn


\* What the fields of an utterance are.
LEMMA FieldTypes ==
    ASSUME SpeechShapes, NEW u \in Utterances
    PROVE  /\ speech[u] \in SpeechRecords
           /\ speech[u].queue \in Seq(Spoken \ {STOP}) /\ speech[u].overflow \in Spoken
           /\ speech[u].prepared \in Seq(Spoken) /\ speech[u].next \in 0..MaxUnits
           /\ speech[u].playbackId \in Nat /\ speech[u].born \in 0..MaxStops
           /\ item[u] \in ItemRecords /\ item[u].synth \in Spoken /\ item[u].player \in Spoken
           /\ item[u].expected \in Nat
           /\ at[u].player \in PlayerSteps \cup AbortSteps
           /\ at[u].synth \in SynthSteps \cup AbortSteps
           /\ worker[u].generation \in Nat /\ device.generation \in Nat
<1>1. /\ speech[u] \in SpeechRecords /\ item[u] \in ItemRecords /\ at[u] \in ThreadRecords
      /\ worker[u] \in WorkerRecords /\ device \in DeviceRecords
  BY DEF SpeechShapes
<1>2. /\ speech[u].queue \in Seq(Spoken \ {STOP}) /\ speech[u].overflow \in Spoken
      /\ speech[u].prepared \in Seq(Spoken) /\ speech[u].next \in 0..MaxUnits
      /\ speech[u].playbackId \in Nat /\ speech[u].born \in 0..MaxStops
  BY <1>1 DEF SpeechRecords
<1>3. item[u].synth \in Spoken /\ item[u].player \in Spoken /\ item[u].expected \in Nat
  BY <1>1 DEF ItemRecords
<1>4. at[u].player \in PlayerSteps \cup AbortSteps /\ at[u].synth \in SynthSteps \cup AbortSteps
  BY <1>1 DEF ThreadRecords
<1>5. worker[u].generation \in Nat /\ device.generation \in Nat
  BY <1>1 DEF WorkerRecords, DeviceRecords
<1> QED
  BY <1>1, <1>2, <1>3, <1>4, <1>5

-----------------------------------------------------------------------------
(* The producer.                                                           *)

\* A turn goes from one place to another.
LEMMA TurnGoesOn ==
    ASSUME SpeechIInv, NEW u \in Utterances, NEW place \in {"submitting", "cancel"},
           turn[u] = "idle", turn' = [turn EXCEPT ![u] = place],
           place = "submitting" => speech[u].next < MaxUnits,
           UNCHANGED <<speech, at, item, audio, service>>
    PROVE  SpeechIInv'
<1>1. SpeechShapes /\ UtteranceFacts(u)
  BY DEF SpeechIInv
<1>2. turn' \in [Utterances -> TurnPlaces] /\ turn'[u] = place
      /\ \A w \in Utterances \ {u} : turn'[w] = turn[w]
  BY <1>1 DEF SpeechShapes, TurnPlaces
<1>3. SpeechShapes'
  BY <1>1, <1>2 DEF SpeechShapes, audio, service
<1>4. OthersStay(u) /\ SameService /\ SameStanding(u)
  BY <1>2 DEF OthersStay, SameService, SameStanding, audio, service
<1>5. QueuesBounded(u)'
  BY <1>1, <1>2 DEF UtteranceFacts, QueuesBounded
<1>6. at'[u].player = at[u].player /\ at'[u].synth = at[u].synth
      /\ item'[u].started = item[u].started /\ item'[u].expected = item[u].expected
  OBVIOUS
<1>7. at'[u].synth \in {"report", "clear", "last"} => speech[u].failed
  BY <1>1 DEF UtteranceFacts, MarksLeft, Threads
<1>8. turn'[u] # "none" /\ turn[u] # "none"
  BY <1>2
<1>9. turn'[u] = "stop" => speech[u].cancelled
  BY <1>2
<1> QED
  BY <1>3, <1>4, <1>5, <1>6, <1>7, <1>8, <1>9, PlayerStays

LEMMA EnqueueKeeps ==
    ASSUME SpeechIInv, NEW u \in Utterances, Enqueue(u) PROVE SpeechIInv'
  BY TurnGoesOn DEF Enqueue

LEMMA TurnFailsKeeps ==
    ASSUME SpeechIInv, NEW u \in Utterances, TurnFails(u) PROVE SpeechIInv'
  BY TurnGoesOn DEF TurnFails

\* A queue that is filled, joined or closed.
LEMMA QueueFilled ==
    ASSUME SpeechIInv, NEW u \in Utterances, NEW q \in SpeechRecords,
           speech' = [speech EXCEPT ![u] = q],
           q.committed = speech[u].committed, q.born = speech[u].born,
           q.cancelled = speech[u].cancelled, q.failed = speech[u].failed,
           q.outcome = speech[u].outcome, q.playbackId = speech[u].playbackId,
           q.prepared = speech[u].prepared, Len(q.queue) <= MaxChunks,
           q.committed => q.overflow = <<>>,
           turn' \in [Utterances -> TurnPlaces], turn'[u] \in {"idle", "over"},
           turn'[u] = "idle" => ~q.committed, turn[u] # "none",
           \A w \in Utterances \ {u} : turn'[w] = turn[w],
           UNCHANGED <<at, item, audio, service>>
    PROVE  SpeechIInv'
<1>1. SpeechShapes /\ UtteranceFacts(u)
  BY DEF SpeechIInv
<1>2. speech' \in [Utterances -> SpeechRecords] /\ speech'[u] = q
      /\ \A w \in Utterances \ {u} : speech'[w] = speech[w]
  BY <1>1 DEF SpeechShapes
<1>3. SpeechShapes'
  BY <1>1, <1>2 DEF SpeechShapes, audio, service
<1>4. OthersStay(u)
  BY <1>2 DEF OthersStay, audio, service
<1>5. SameService
  BY DEF SameService, audio, service
<1>6. SameStanding(u)
  BY <1>2 DEF SameStanding
<1>7. QueuesBounded(u)'
  BY <1>1, <1>2 DEF UtteranceFacts, QueuesBounded
<1>8. at'[u].player = at[u].player /\ at'[u].synth = at[u].synth
      /\ item'[u].started = item[u].started /\ item'[u].expected = item[u].expected
  OBVIOUS
<1>9. at'[u].synth \in {"report", "clear", "last"} => speech[u].failed
  BY <1>1 DEF UtteranceFacts, MarksLeft, Threads
<1>10. turn'[u] # "none" /\ turn[u] # "none"
  OBVIOUS
<1>11. turn'[u] = "stop" => speech[u].cancelled
  OBVIOUS
<1> QED
  BY <1>3, <1>4, <1>5, <1>6, <1>7, <1>8, <1>9, <1>10, <1>11, PlayerStays

\* The chunk that submit() and the feeder hand over.
LEMMA NextChunk ==
    ASSUME SpeechShapes, NEW u \in Utterances, speech[u].next < MaxUnits
    PROVE  /\ speech[u].next + 1 \in 1..MaxUnits /\ speech[u].next + 1 \in 0..MaxUnits
           /\ <<speech[u].next + 1>> \in Spoken \ {STOP}
<1>1. MaxUnits \in Nat /\ speech[u].next \in 0..MaxUnits
  BY FieldTypes, BoundsAssumption DEF BoundsAssumption
<1>2. speech[u].next + 1 \in 1..MaxUnits /\ speech[u].next + 1 \in 0..MaxUnits
  BY <1>1
<1> QED
  BY <1>2, Short DEF Spoken, STOP

LEMMA SubmitKeeps ==
    ASSUME SpeechIInv, NEW u \in Utterances, Submit(u) PROVE SpeechIInv'
<1>1. SpeechShapes /\ UtteranceFacts(u)
  BY DEF SpeechIInv
<1>2. /\ turn' = [turn EXCEPT ![u] = "idle"] /\ turn[u] = "submitting"
      /\ UNCHANGED <<at, item, audio, service>>
  BY DEF Submit
<1>3. turn' \in [Utterances -> TurnPlaces] /\ turn'[u] = "idle"
      /\ \A w \in Utterances \ {u} : turn'[w] = turn[w]
  BY <1>1, <1>2 DEF SpeechShapes, TurnPlaces
<1>4. ~speech[u].committed /\ speech[u].next < MaxUnits /\ Len(speech[u].queue) <= MaxChunks
  BY <1>1, <1>2 DEF UtteranceFacts, QueuesBounded
<1>5. speech[u] \in SpeechRecords /\ speech[u].queue \in Seq(Spoken \ {STOP})
      /\ speech[u].overflow \in Spoken
  BY <1>1, FieldTypes
<1> DEFINE chunk == speech[u].next + 1
<1>6. chunk \in 1..MaxUnits /\ chunk \in 0..MaxUnits /\ <<chunk>> \in Spoken \ {STOP}
  BY <1>1, <1>4, NextChunk
<1>7. CASE speech' = speech
  <2>1. speech' = [speech EXCEPT ![u] = speech[u]]
    BY <1>1, <1>7 DEF SpeechShapes
  <2> QED
    BY <2>1, <1>2, <1>3, <1>4, <1>5, QueueFilled
<1>8. CASE /\ Len(speech[u].queue) < MaxChunks
           /\ speech' = [speech EXCEPT ![u].queue = Append(@, <<chunk>>), ![u].next = chunk]
  <2> PICK s : s = Append(speech[u].queue, <<chunk>>)
    OBVIOUS
  <2>1. s \in Seq(Spoken \ {STOP}) /\ Len(s) <= MaxChunks
    <3>1. s \in Seq(Spoken \ {STOP}) /\ Len(s) = Len(speech[u].queue) + 1
          /\ Len(speech[u].queue) \in Nat
      BY <1>5, <1>6, Chunked
    <3>2. MaxChunks \in Nat
      BY BoundsAssumption DEF BoundsAssumption
    <3> QED
      BY <3>1, <3>2, <1>8
  <2> PICK q : q = [speech[u] EXCEPT !.queue = s, !.next = chunk]
    OBVIOUS
  <2>2. speech' = [speech EXCEPT ![u] = q]
    BY <1>1, <1>8 DEF SpeechShapes, SpeechRecords
  <2>3. q \in SpeechRecords
    BY <1>5, <1>6, <2>1 DEF SpeechRecords
  <2>4. /\ q.committed = speech[u].committed /\ q.born = speech[u].born
        /\ q.cancelled = speech[u].cancelled /\ q.failed = speech[u].failed
        /\ q.outcome = speech[u].outcome /\ q.playbackId = speech[u].playbackId
        /\ q.prepared = speech[u].prepared /\ q.queue = s
    BY <1>5 DEF SpeechRecords
  <2> QED
    BY <2>1, <2>2, <2>3, <2>4, <1>2, <1>3, <1>4, QueueFilled
<1>9. CASE speech' = [speech EXCEPT ![u].overflow = Append(@, chunk), ![u].next = chunk]
  <2> PICK s : s = Append(speech[u].overflow, chunk)
    OBVIOUS
  <2>1. s \in Spoken
    BY <1>5, <1>6, Chunked DEF Spoken
  <2> PICK q : q = [speech[u] EXCEPT !.overflow = s, !.next = chunk]
    OBVIOUS
  <2>2. speech' = [speech EXCEPT ![u] = q]
    BY <1>1, <1>9 DEF SpeechShapes, SpeechRecords
  <2>3. q \in SpeechRecords
    BY <1>5, <1>6, <2>1 DEF SpeechRecords
  <2>4. /\ q.committed = speech[u].committed /\ q.born = speech[u].born
        /\ q.cancelled = speech[u].cancelled /\ q.failed = speech[u].failed
        /\ q.outcome = speech[u].outcome /\ q.playbackId = speech[u].playbackId
        /\ q.prepared = speech[u].prepared /\ q.queue = speech[u].queue
    BY <1>5 DEF SpeechRecords
  <2> QED
    BY <2>1, <2>2, <2>3, <2>4, <1>2, <1>3, <1>4, QueueFilled
<1> QED
  BY <1>7, <1>8, <1>9 DEF Submit


\* A queue is closed, by its turn or by its feeder.
LEMMA QueueClosed ==
    ASSUME SpeechIInv, NEW u \in Utterances,
           speech' = [speech EXCEPT ![u].closed = TRUE],
           turn[u] # "none",
           turn' = [turn EXCEPT ![u] = "over"],
           UNCHANGED <<at, item, audio, service>>
    PROVE  SpeechIInv'
<1>1. SpeechShapes /\ UtteranceFacts(u)
  BY DEF SpeechIInv
<1>2. turn' \in [Utterances -> TurnPlaces] /\ turn'[u] = "over"
      /\ \A w \in Utterances \ {u} : turn'[w] = turn[w]
  BY <1>1 DEF SpeechShapes, TurnPlaces
<1>4. Len(speech[u].queue) <= MaxChunks
  BY <1>1 DEF UtteranceFacts, QueuesBounded
<1>5. speech[u] \in SpeechRecords
  BY <1>1, FieldTypes
<1> PICK q : q = [speech[u] EXCEPT !.closed = TRUE]
  OBVIOUS
<1>6. speech' = [speech EXCEPT ![u] = q]
  BY <1>1 DEF SpeechShapes, SpeechRecords
<1>7. q \in SpeechRecords
  BY <1>5 DEF SpeechRecords
<1>8. /\ q.committed = speech[u].committed /\ q.born = speech[u].born
      /\ q.cancelled = speech[u].cancelled /\ q.failed = speech[u].failed
      /\ q.outcome = speech[u].outcome /\ q.playbackId = speech[u].playbackId
      /\ q.prepared = speech[u].prepared /\ q.queue = speech[u].queue
      /\ q.overflow = speech[u].overflow
  BY <1>5 DEF SpeechRecords
<1>9. q.committed => q.overflow = <<>>
  BY <1>1, <1>8 DEF UtteranceFacts, QueuesBounded
<1> QED
  BY <1>2, <1>4, <1>6, <1>7, <1>8, <1>9, QueueFilled

LEMMA CloseKeeps ==
    ASSUME SpeechIInv, NEW u \in Utterances, Close(u) PROVE SpeechIInv'
  BY QueueClosed DEF Close

LEMMA FeedEndsKeeps ==
    ASSUME SpeechIInv, NEW u \in Utterances, FeedEnds(u) PROVE SpeechIInv'
<1>1. turn' = [turn EXCEPT ![u] = "over"]
  BY DEF FeedEnds, SpeechIInv, SpeechShapes
<1> QED
  BY <1>1, QueueClosed DEF FeedEnds

LEMMA FeedKeeps ==
    ASSUME SpeechIInv, NEW u \in Utterances, Feed(u) PROVE SpeechIInv'
<1>1. SpeechShapes /\ UtteranceFacts(u)
  BY DEF SpeechIInv
<1>2. /\ turn' = turn /\ turn[u] = "over" /\ UNCHANGED <<at, item, audio, service>>
      /\ speech[u].next < MaxUnits /\ Len(speech[u].queue) < MaxChunks
  BY DEF Feed
<1>3. turn' \in [Utterances -> TurnPlaces]
  BY <1>1, <1>2 DEF SpeechShapes
<1>4. speech[u].committed => speech[u].overflow = <<>>
  BY <1>1, <1>2 DEF UtteranceFacts, QueuesBounded
<1>5. speech[u] \in SpeechRecords /\ speech[u].queue \in Seq(Spoken \ {STOP})
  BY <1>1, FieldTypes
<1> DEFINE chunk == speech[u].next + 1
<1>6. chunk \in 1..MaxUnits /\ chunk \in 0..MaxUnits /\ <<chunk>> \in Spoken \ {STOP}
  BY <1>1, <1>2, NextChunk
<1> PICK s : s = Append(speech[u].queue, <<chunk>>)
  OBVIOUS
<1>7. s \in Seq(Spoken \ {STOP}) /\ Len(s) <= MaxChunks
  <2>1. s \in Seq(Spoken \ {STOP}) /\ Len(s) = Len(speech[u].queue) + 1
        /\ Len(speech[u].queue) \in Nat
    BY <1>5, <1>6, Chunked
  <2>2. MaxChunks \in Nat
    BY BoundsAssumption DEF BoundsAssumption
  <2> QED
    BY <2>1, <2>2, <1>2
<1> PICK q : q = [speech[u] EXCEPT !.queue = s, !.next = chunk]
  OBVIOUS
<1>8. speech' = [speech EXCEPT ![u] = q]
  BY <1>1 DEF Feed, SpeechShapes, SpeechRecords
<1>9. q \in SpeechRecords
  BY <1>5, <1>6, <1>7 DEF SpeechRecords
<1>10. /\ q.committed = speech[u].committed /\ q.born = speech[u].born
       /\ q.cancelled = speech[u].cancelled /\ q.failed = speech[u].failed
       /\ q.outcome = speech[u].outcome /\ q.playbackId = speech[u].playbackId
       /\ q.prepared = speech[u].prepared /\ q.queue = s
       /\ q.overflow = speech[u].overflow
  BY <1>5 DEF SpeechRecords
<1>11. q.committed => q.overflow = <<>>
  BY <1>4, <1>10
<1> QED
  BY <1>2, <1>3, <1>7, <1>8, <1>9, <1>10, <1>11, QueueFilled

-----------------------------------------------------------------------------
(* The synthesis thread.                                                   *)

\* It changes its item, its place and the queues, and marks nothing.
LEMMA SynthGoesOn ==
    ASSUME SpeechIInv, NEW u \in Utterances,
           NEW step \in SynthSteps \cup AbortSteps, Goto(u, "synth", step),
           step \in {"report", "clear", "last"} => speech[u].failed, at[u].synth # "none",
           item' \in [Utterances -> ItemRecords],
           item'[u].started = item[u].started, item'[u].expected = item[u].expected,
           \A w \in Utterances \ {u} : item'[w] = item[w],
           NEW q \in SpeechRecords, speech' = [speech EXCEPT ![u] = q],
           q.committed = speech[u].committed, q.born = speech[u].born,
           q.cancelled = speech[u].cancelled, q.failed = speech[u].failed,
           q.outcome = speech[u].outcome, q.playbackId = speech[u].playbackId,
           q.next = speech[u].next,
           Len(q.prepared) <= MaxChunks, Len(q.queue) <= MaxChunks,
           q.overflow \in {<<>>, speech[u].overflow},
           UNCHANGED <<turn, audio, service>>
    PROVE  SpeechIInv'
<1>1. SpeechShapes /\ UtteranceFacts(u)
  BY DEF SpeechIInv
<1>2. speech' \in [Utterances -> SpeechRecords] /\ speech'[u] = q
      /\ \A w \in Utterances \ {u} : speech'[w] = speech[w]
  BY <1>1 DEF SpeechShapes
<1>3. /\ at' \in [Utterances -> ThreadRecords]
      /\ at'[u].synth = step /\ at'[u].player = at[u].player
      /\ \A w \in Utterances \ {u} : at'[w] = at[w]
  BY <1>1, SynthGoes DEF SpeechShapes
<1>4. SpeechShapes'
  BY <1>1, <1>2, <1>3 DEF SpeechShapes, audio, service
<1>5. OthersStay(u)
  BY <1>2, <1>3 DEF OthersStay, audio, service
<1>6. SameService
  BY DEF SameService, audio, service
<1>7. SameStanding(u)
  BY <1>2 DEF SameStanding
<1>8. QueuesBounded(u)'
  BY <1>1, <1>2 DEF UtteranceFacts, QueuesBounded
<1>9. at'[u].synth \in {"report", "clear", "last"} => speech[u].failed
  BY <1>3
<1>10. turn'[u] # "none" /\ turn[u] # "none"
  BY <1>1 DEF UtteranceFacts, MarksLeft
<1>11. turn'[u] = "stop" => speech[u].cancelled
  BY <1>1 DEF UtteranceFacts, MarksLeft
<1>12. at'[u].player = at[u].player
  BY <1>3
<1> QED
  BY <1>4, <1>5, <1>6, <1>7, <1>8, <1>9, <1>10, <1>11, <1>12, PlayerStays

\* It only changes its place and, at most, drops its item.
LEMMA SynthWalks ==
    ASSUME SpeechIInv, NEW u \in Utterances,
           NEW step \in SynthSteps \cup {"abort"}, Goto(u, "synth", step),
           at[u].synth # "none",
           item' = item \/ Drop(u, "synth"),
           UNCHANGED <<speech, turn, audio, service>>
    PROVE  SpeechIInv'
<1>1. SpeechShapes /\ UtteranceFacts(u)
  BY DEF SpeechIInv
<1>2. /\ item' \in [Utterances -> ItemRecords]
      /\ item'[u].started = item[u].started /\ item'[u].expected = item[u].expected
      /\ \A w \in Utterances \ {u} : item'[w] = item[w]
  <2>1. CASE item' = item
    BY <1>1, <2>1 DEF SpeechShapes
  <2>2. CASE Drop(u, "synth")
    BY <1>1, <2>2, Dropped DEF SpeechShapes, Threads
  <2> QED
    BY <2>1, <2>2
<1>3. speech' = [speech EXCEPT ![u] = speech[u]]
  BY <1>1 DEF SpeechShapes
<1>4. speech[u] \in SpeechRecords
  BY <1>1, FieldTypes
<1>5. Len(speech[u].prepared) <= MaxChunks /\ Len(speech[u].queue) <= MaxChunks
  BY <1>1 DEF UtteranceFacts, QueuesBounded
<1>6. step \in SynthSteps \cup AbortSteps
  BY DEF AbortSteps
<1>7. step \in {"report", "clear", "last"} => speech[u].failed
  BY DEF SynthSteps
<1> QED
  BY <1>6, <1>7, <1>2, <1>3, <1>4, <1>5, SynthGoesOn


LEMMA SynthTakesKeeps ==
    ASSUME SpeechIInv, NEW u \in Utterances, SynthTakes(u) PROVE SpeechIInv'
<1>1. SpeechShapes /\ UtteranceFacts(u)
  BY DEF SpeechIInv
<1>2. speech[u] \in SpeechRecords /\ speech[u].queue \in Seq(Spoken \ {STOP})
      /\ speech[u].queue # <<>> /\ item[u] \in ItemRecords
  BY <1>1, FieldTypes DEF SynthTakes
<1> PICK s : s = Tail(speech[u].queue)
  OBVIOUS
<1> PICK h : h = Head(speech[u].queue)
  OBVIOUS
<1>3. Len(speech[u].prepared) <= MaxChunks /\ Len(speech[u].queue) <= MaxChunks
  BY <1>1 DEF UtteranceFacts, QueuesBounded
<1>4. s \in Seq(Spoken \ {STOP}) /\ h \in Spoken /\ Len(s) <= MaxChunks
  <2>1. s \in Seq(Spoken \ {STOP}) /\ h \in Spoken /\ Len(s) = Len(speech[u].queue) - 1
        /\ Len(speech[u].queue) \in Nat
    BY <1>2, HeadTailProperties, LenProperties
  <2>2. MaxChunks \in Nat
    BY BoundsAssumption DEF BoundsAssumption
  <2> QED
    BY <1>3, <2>1, <2>2
<1>5. item' = [item EXCEPT ![u].synth = h]
  BY DEF SynthTakes
<1>6. /\ item' \in [Utterances -> ItemRecords]
      /\ item'[u].started = item[u].started /\ item'[u].expected = item[u].expected
      /\ \A w \in Utterances \ {u} : item'[w] = item[w]
  BY <1>1, <1>4, <1>5 DEF SpeechShapes, ItemRecords
<1> PICK q : q = [speech[u] EXCEPT !.queue = s]
  OBVIOUS
<1>7. speech' = [speech EXCEPT ![u] = q]
  BY <1>1 DEF SynthTakes, SpeechShapes, SpeechRecords
<1>8. q \in SpeechRecords
  BY <1>2, <1>4 DEF SpeechRecords
<1>9. /\ q.committed = speech[u].committed /\ q.born = speech[u].born
      /\ q.cancelled = speech[u].cancelled /\ q.failed = speech[u].failed
      /\ q.outcome = speech[u].outcome /\ q.playbackId = speech[u].playbackId
      /\ q.next = speech[u].next
      /\ q.prepared = speech[u].prepared /\ q.queue = s
      /\ q.overflow = speech[u].overflow
  BY <1>2 DEF SpeechRecords
<1>10. Goto(u, "synth", "prepare") /\ UNCHANGED <<turn, audio, service>>
       /\ "prepare" \in SynthSteps /\ at[u].synth # "none"
  BY DEF SynthTakes, SynthSteps, At
<1>11. Len(q.prepared) <= MaxChunks /\ Len(q.queue) <= MaxChunks
  BY <1>3, <1>4, <1>9
<1>12. q.overflow \in {<<>>, speech[u].overflow}
  BY <1>9
<1> QED
  BY <1>6, <1>7, <1>8, <1>9, <1>10, <1>11, <1>12, SynthGoesOn

LEMMA SynthTimesOutKeeps ==
    ASSUME SpeechIInv, NEW u \in Utterances, SynthTimesOut(u) PROVE SpeechIInv'
  BY SynthWalks DEF SynthTimesOut, SynthSteps, At

LEMMA SynthTakesOverflowKeeps ==
    ASSUME SpeechIInv, NEW u \in Utterances, SynthTakesOverflow(u) PROVE SpeechIInv'
<1>1. SpeechShapes /\ UtteranceFacts(u)
  BY DEF SpeechIInv
<1>2. speech[u] \in SpeechRecords /\ speech[u].overflow \in Spoken /\ item[u] \in ItemRecords
  BY <1>1, FieldTypes
<1>3. Len(speech[u].prepared) <= MaxChunks /\ Len(speech[u].queue) <= MaxChunks
  BY <1>1 DEF UtteranceFacts, QueuesBounded
<1>4. item' = [item EXCEPT ![u].synth = speech[u].overflow]
  BY DEF SynthTakesOverflow
<1>5. /\ item' \in [Utterances -> ItemRecords]
      /\ item'[u].started = item[u].started /\ item'[u].expected = item[u].expected
      /\ \A w \in Utterances \ {u} : item'[w] = item[w]
  BY <1>1, <1>2, <1>4 DEF SpeechShapes, ItemRecords
<1> PICK e : e = <<>>
  OBVIOUS
<1>6. e \in Spoken
  BY EmptySeq DEF Spoken
<1> PICK q : q = [speech[u] EXCEPT !.overflow = e]
  OBVIOUS
<1>7. speech' = [speech EXCEPT ![u] = q]
  BY <1>1 DEF SynthTakesOverflow, SpeechShapes, SpeechRecords
<1>8. q \in SpeechRecords
  BY <1>2, <1>6 DEF SpeechRecords
<1>9. /\ q.committed = speech[u].committed /\ q.born = speech[u].born
      /\ q.cancelled = speech[u].cancelled /\ q.failed = speech[u].failed
      /\ q.outcome = speech[u].outcome /\ q.playbackId = speech[u].playbackId
      /\ q.next = speech[u].next
      /\ q.prepared = speech[u].prepared /\ q.queue = speech[u].queue
      /\ q.overflow = e
  BY <1>2 DEF SpeechRecords
<1> PICK step : step = IF speech[u].overflow = <<>> THEN "closing" ELSE "prepare"
  OBVIOUS
<1>10. Goto(u, "synth", step) /\ step \in SynthSteps \cup AbortSteps
       /\ step \notin {"report", "clear", "last"} /\ at[u].synth # "none"
  BY DEF SynthTakesOverflow, SynthSteps, At
<1>11. UNCHANGED <<turn, audio, service>>
  BY DEF SynthTakesOverflow
<1>12. Len(q.prepared) <= MaxChunks /\ Len(q.queue) <= MaxChunks
  BY <1>3, <1>9
<1>13. q.overflow \in {<<>>, speech[u].overflow}
  BY <1>9
<1> QED
  BY <1>5, <1>7, <1>8, <1>9, <1>10, <1>11, <1>12, <1>13, SynthGoesOn

LEMMA SynthEndsKeeps ==
    ASSUME SpeechIInv, NEW u \in Utterances, SynthEnds(u) PROVE SpeechIInv'
<1> PICK step : step = IF speech[u].closed /\ speech[u].queue = <<>> THEN "stop" ELSE "get"
  OBVIOUS
<1>1. Goto(u, "synth", step) /\ step \in SynthSteps \cup {"abort"} /\ at[u].synth # "none"
  BY DEF SynthEnds, SynthSteps, At
<1> QED
  BY <1>1, SynthWalks DEF SynthEnds

LEMMA SynthPreparesKeeps ==
    ASSUME SpeechIInv, NEW u \in Utterances, SynthPrepares(u) PROVE SpeechIInv'
<1>1. "put" \in SynthSteps /\ "dead" \in SynthSteps
  BY DEF SynthSteps
<1> QED
  BY <1>1, SynthWalks DEF SynthPrepares, At

LEMMA SynthRetiredKeeps ==
    ASSUME SpeechIInv, NEW u \in Utterances, SynthRetired(u) PROVE SpeechIInv'
<1>1. "dead" \in SynthSteps
  BY DEF SynthSteps
<1> QED
  BY <1>1, SynthWalks DEF SynthRetired, At

\* Something is put into the prepared queue.
LEMMA PutShape ==
    ASSUME SpeechShapes, NEW u \in Utterances, UtteranceFacts(u),
           NEW what \in Spoken,
           Len(speech[u].prepared) < MaxChunks,
           speech' = [speech EXCEPT ![u].prepared = Append(@, what)]
    PROVE  \E q \in SpeechRecords :
              /\ speech' = [speech EXCEPT ![u] = q]
              /\ q.committed = speech[u].committed /\ q.born = speech[u].born
              /\ q.cancelled = speech[u].cancelled /\ q.failed = speech[u].failed
              /\ q.outcome = speech[u].outcome /\ q.playbackId = speech[u].playbackId
              /\ q.next = speech[u].next
              /\ Len(q.prepared) <= MaxChunks /\ Len(q.queue) <= MaxChunks
              /\ q.overflow = speech[u].overflow
<1>1. speech[u] \in SpeechRecords /\ speech[u].prepared \in Seq(Spoken)
  BY FieldTypes
<1> PICK s : s = Append(speech[u].prepared, what)
  OBVIOUS
<1>2. s \in Seq(Spoken) /\ Len(s) <= MaxChunks
  <2>1. s \in Seq(Spoken) /\ Len(s) = Len(speech[u].prepared) + 1
        /\ Len(speech[u].prepared) \in Nat
    BY <1>1, Chunked
  <2>2. MaxChunks \in Nat
    BY BoundsAssumption DEF BoundsAssumption
  <2> QED
    BY <2>1, <2>2
<1> PICK q : q = [speech[u] EXCEPT !.prepared = s]
  OBVIOUS
<1>3. speech' = [speech EXCEPT ![u] = q]
  BY <1>1 DEF SpeechShapes, SpeechRecords
<1>4. q \in SpeechRecords
  BY <1>1, <1>2 DEF SpeechRecords
<1>5. /\ q.committed = speech[u].committed /\ q.born = speech[u].born
      /\ q.cancelled = speech[u].cancelled /\ q.failed = speech[u].failed
      /\ q.outcome = speech[u].outcome /\ q.playbackId = speech[u].playbackId
      /\ q.next = speech[u].next
      /\ q.prepared = s /\ q.queue = speech[u].queue
      /\ q.overflow = speech[u].overflow
  BY <1>1 DEF SpeechRecords
<1>6. Len(q.queue) <= MaxChunks
  BY <1>5 DEF UtteranceFacts, QueuesBounded
<1> QED
  BY <1>2, <1>3, <1>4, <1>5, <1>6

LEMMA SynthPutsKeeps ==
    ASSUME SpeechIInv, NEW u \in Utterances, SynthPuts(u) PROVE SpeechIInv'
<1>1. SpeechShapes /\ UtteranceFacts(u)
  BY DEF SpeechIInv
<1>2. item[u].synth \in Spoken
  BY <1>1, FieldTypes
<1>3. /\ Len(speech[u].prepared) < MaxChunks
      /\ speech' = [speech EXCEPT ![u].prepared = Append(@, item[u].synth)]
      /\ Goto(u, "synth", "get") /\ Drop(u, "synth")
      /\ UNCHANGED <<turn, audio, service>> /\ at[u].synth # "none"
  BY DEF SynthPuts, PutsPrepared, At
<1> PICK q \in SpeechRecords :
       /\ speech' = [speech EXCEPT ![u] = q]
       /\ q.committed = speech[u].committed /\ q.born = speech[u].born
       /\ q.cancelled = speech[u].cancelled /\ q.failed = speech[u].failed
       /\ q.outcome = speech[u].outcome /\ q.playbackId = speech[u].playbackId
       /\ q.next = speech[u].next
       /\ Len(q.prepared) <= MaxChunks /\ Len(q.queue) <= MaxChunks
       /\ q.overflow = speech[u].overflow
  BY <1>1, <1>2, <1>3, PutShape
<1>4. /\ item' \in [Utterances -> ItemRecords]
      /\ item'[u].started = item[u].started /\ item'[u].expected = item[u].expected
      /\ \A w \in Utterances \ {u} : item'[w] = item[w]
  BY <1>1, <1>3, Dropped DEF SpeechShapes, Threads
<1>5. "get" \in SynthSteps
  BY DEF SynthSteps
<1> QED
  BY <1>3, <1>4, <1>5, SynthGoesOn

LEMMA SynthStopsKeeps ==
    ASSUME SpeechIInv, NEW u \in Utterances, SynthStops(u) PROVE SpeechIInv'
<1>1. SpeechShapes /\ UtteranceFacts(u)
  BY DEF SpeechIInv
<1>2. STOP \in Spoken
  BY EmptySeq DEF Spoken, STOP
<1>3. /\ Len(speech[u].prepared) < MaxChunks
      /\ speech' = [speech EXCEPT ![u].prepared = Append(@, STOP)]
      /\ Goto(u, "synth", "dead") /\ item' = item
      /\ UNCHANGED <<turn, audio, service>> /\ at[u].synth # "none"
  BY DEF SynthStops, PutsPrepared, At
<1> PICK q \in SpeechRecords :
       /\ speech' = [speech EXCEPT ![u] = q]
       /\ q.committed = speech[u].committed /\ q.born = speech[u].born
       /\ q.cancelled = speech[u].cancelled /\ q.failed = speech[u].failed
       /\ q.outcome = speech[u].outcome /\ q.playbackId = speech[u].playbackId
       /\ q.next = speech[u].next
       /\ Len(q.prepared) <= MaxChunks /\ Len(q.queue) <= MaxChunks
       /\ q.overflow = speech[u].overflow
  BY <1>1, <1>2, <1>3, PutShape
<1>4. item' \in [Utterances -> ItemRecords]
  BY <1>1, <1>3 DEF SpeechShapes
<1>5. "dead" \in SynthSteps
  BY DEF SynthSteps
<1> QED
  BY <1>3, <1>4, <1>5, SynthGoesOn


-----------------------------------------------------------------------------
(* The playback thread, where it touches neither the device nor a flag.    *)

\* Where a playback thread may go without a word to the device.
MayGo(u, step) ==
    /\ at[u].player = "appended" => speech[u].outcome # "failed"
    /\ step \in {"report", "clear", "last"} => speech[u].failed
    /\ step = "begin" => ~item[u].started
    /\ step \in {"append", "appended", "drain", "verdict"} => item[u].started
    /\ worker[u].at # "none" =>
          /\ step \in {"verdict", "clear", "last", "complete"} => Settled(u)
          /\ step = "final" => Settled(u) \/ IsSet(u)

LEMMA PlayerWalks ==
    ASSUME SpeechIInv, NEW u \in Utterances,
           NEW step \in (PlayerSteps \cup AbortSteps) \ {"none", "opened", "dead"},
           Goto(u, "player", step),
           item' \in [Utterances -> ItemRecords],
           item'[u].started = item[u].started, item'[u].expected <= device.generation,
           \A w \in Utterances \ {u} : item'[w] = item[w],
           NEW q \in SpeechRecords, speech' = [speech EXCEPT ![u] = q],
           q.committed = speech[u].committed, q.born = speech[u].born,
           q.cancelled = speech[u].cancelled, q.failed = speech[u].failed,
           q.outcome = speech[u].outcome, q.playbackId = speech[u].playbackId,
           q.next = speech[u].next,
           Len(q.prepared) <= MaxChunks, Len(q.queue) <= MaxChunks,
           q.overflow \in {<<>>, speech[u].overflow},
           UNCHANGED <<turn, audio, service>>,
           at[u].player \notin {"none", "opened", "dead"},
           MayGo(u, step)
    PROVE  SpeechIInv'
<1>1. SpeechShapes /\ UtteranceFacts(u)
  BY DEF SpeechIInv
<1>2. speech' \in [Utterances -> SpeechRecords] /\ speech'[u] = q
      /\ \A w \in Utterances \ {u} : speech'[w] = speech[w]
  BY <1>1 DEF SpeechShapes
<1>3. /\ at' \in [Utterances -> ThreadRecords]
      /\ at'[u].player = step /\ at'[u].synth = at[u].synth
      /\ \A w \in Utterances \ {u} : at'[w] = at[w]
  BY <1>1, PlayerGoes DEF SpeechShapes
<1>4. SpeechShapes'
  BY <1>1, <1>2, <1>3 DEF SpeechShapes, audio, service
<1>5. OthersStay(u)
  BY <1>2, <1>3 DEF OthersStay, audio, service
<1>6. SameService
  BY DEF SameService, audio, service
<1>7. SameStanding(u)
  BY <1>2 DEF SameStanding
<1>8. QueuesBounded(u)'
  BY <1>1, <1>2 DEF UtteranceFacts, QueuesBounded
<1>9. turn' = turn
  OBVIOUS
<1>10. at'[u].player \notin {"none", "opened", "dead"}
  BY <1>3
<1>11. at'[u].player \in {"report", "clear", "last"} => speech[u].failed
  BY <1>3 DEF MayGo
<1>12. at'[u].player = "begin" => ~item[u].started
  BY <1>3 DEF MayGo
<1>13. at'[u].player \in {"append", "appended", "drain", "verdict"} => item[u].started
  BY <1>3 DEF MayGo
<1>14. worker[u].at # "none" =>
          /\ at'[u].player \in {"verdict", "clear", "last", "complete"} => Settled(u)
          /\ at'[u].player = "final" => Settled(u) \/ IsSet(u)
  BY <1>3 DEF MayGo
<1>15. at'[u].synth = at[u].synth
  BY <1>3
<1>16. at[u].player = "appended" => speech[u].outcome # "failed"
  BY DEF MayGo
<1> QED
  BY <1>16, <1>4, <1>5, <1>6, <1>7, <1>8, <1>9, <1>10, <1>11, <1>12, <1>13, <1>14, <1>15,
     PlayerGoesOn

\* ... and no queue.
LEMMA PlayerOnlyWalks ==
    ASSUME SpeechIInv, NEW u \in Utterances,
           NEW step \in (PlayerSteps \cup AbortSteps) \ {"none", "opened", "dead"},
           Goto(u, "player", step),
           item' = item \/ Drop(u, "player"),
           UNCHANGED <<speech, turn, audio, service>>,
           at[u].player \notin {"none", "opened", "appended", "dead"},
           step \in {"report", "clear", "last", "begin"} => FALSE,
           step \in {"append", "appended", "drain", "verdict"} => item[u].started,
           worker[u].at # "none" =>
              /\ step \in {"verdict", "complete"} => Settled(u)
              /\ step = "final" => Settled(u) \/ IsSet(u)
    PROVE  SpeechIInv'
<1>1. SpeechShapes /\ UtteranceFacts(u)
  BY DEF SpeechIInv
<1>2. item[u].expected <= device.generation
  BY <1>1 DEF UtteranceFacts, GenerationsKnown
<1>3. /\ item' \in [Utterances -> ItemRecords]
      /\ item'[u].started = item[u].started /\ item'[u].expected = item[u].expected
      /\ \A w \in Utterances \ {u} : item'[w] = item[w]
  <2>1. CASE item' = item
    BY <1>1, <2>1 DEF SpeechShapes
  <2>2. CASE Drop(u, "player")
    BY <1>1, <2>2, Dropped DEF SpeechShapes, Threads
  <2> QED
    BY <2>1, <2>2
<1>4. speech' = [speech EXCEPT ![u] = speech[u]]
  BY <1>1 DEF SpeechShapes
<1>5. speech[u] \in SpeechRecords
  BY <1>1, FieldTypes
<1>6. Len(speech[u].prepared) <= MaxChunks /\ Len(speech[u].queue) <= MaxChunks
  BY <1>1 DEF UtteranceFacts, QueuesBounded
<1>7. item'[u].expected <= device.generation
  BY <1>2, <1>3
<1>8. MayGo(u, step)
  BY DEF MayGo
<1>9. speech[u].overflow \in {<<>>, speech[u].overflow}
  OBVIOUS
<1>10. at[u].player \notin {"none", "opened", "dead"}
  OBVIOUS
<1> QED
  BY <1>3, <1>4, <1>5, <1>6, <1>7, <1>8, <1>9, <1>10, PlayerWalks

LEMMA PlayerTakesKeeps ==
    ASSUME SpeechIInv, NEW u \in Utterances, PlayerTakes(u) PROVE SpeechIInv'
<1>1. SpeechShapes /\ UtteranceFacts(u)
  BY DEF SpeechIInv
<1>2. speech[u] \in SpeechRecords /\ speech[u].prepared \in Seq(Spoken)
      /\ speech[u].prepared # <<>> /\ item[u] \in ItemRecords
  BY <1>1, FieldTypes DEF PlayerTakes
<1> PICK s : s = Tail(speech[u].prepared)
  OBVIOUS
<1> PICK h : h = Head(speech[u].prepared)
  OBVIOUS
<1>3. Len(speech[u].prepared) <= MaxChunks /\ Len(speech[u].queue) <= MaxChunks
  BY <1>1 DEF UtteranceFacts, QueuesBounded
<1>4. s \in Seq(Spoken) /\ h \in Spoken /\ Len(s) <= MaxChunks
  <2>1. s \in Seq(Spoken) /\ h \in Spoken /\ Len(s) = Len(speech[u].prepared) - 1
        /\ Len(speech[u].prepared) \in Nat
    BY <1>2, HeadTailProperties, LenProperties
  <2>2. MaxChunks \in Nat
    BY BoundsAssumption DEF BoundsAssumption
  <2> QED
    BY <1>3, <2>1, <2>2
<1>5. item' = [item EXCEPT ![u].player = h]
  BY DEF PlayerTakes
<1>6. /\ item' \in [Utterances -> ItemRecords]
      /\ item'[u].started = item[u].started /\ item'[u].expected = item[u].expected
      /\ \A w \in Utterances \ {u} : item'[w] = item[w]
  BY <1>1, <1>4, <1>5 DEF SpeechShapes, ItemRecords
<1> PICK q : q = [speech[u] EXCEPT !.prepared = s]
  OBVIOUS
<1>7. speech' = [speech EXCEPT ![u] = q]
  BY <1>1 DEF PlayerTakes, SpeechShapes, SpeechRecords
<1>8. q \in SpeechRecords
  BY <1>2, <1>4 DEF SpeechRecords
<1>9. /\ q.committed = speech[u].committed /\ q.born = speech[u].born
      /\ q.cancelled = speech[u].cancelled /\ q.failed = speech[u].failed
      /\ q.outcome = speech[u].outcome /\ q.playbackId = speech[u].playbackId
      /\ q.next = speech[u].next
      /\ q.prepared = s /\ q.queue = speech[u].queue
      /\ q.overflow = speech[u].overflow
  BY <1>2 DEF SpeechRecords
<1>10. Goto(u, "player", "item") /\ UNCHANGED <<turn, audio, service>>
       /\ at[u].player = "get"
  BY DEF PlayerTakes, At
<1>11. Len(q.prepared) <= MaxChunks /\ Len(q.queue) <= MaxChunks
  BY <1>3, <1>4, <1>9
<1>12. q.overflow \in {<<>>, speech[u].overflow}
  BY <1>9
<1>13. item'[u].expected <= device.generation
  BY <1>1, <1>6 DEF UtteranceFacts, GenerationsKnown
<1>14. "item" \in (PlayerSteps \cup AbortSteps) \ {"none", "opened", "dead"}
  BY DEF PlayerSteps
<1>15. MayGo(u, "item")
  BY <1>10 DEF MayGo
<1> QED
  BY <1>6, <1>7, <1>8, <1>9, <1>10, <1>11, <1>12, <1>13, <1>14, <1>15, PlayerWalks

LEMMA PlayerRetiredKeeps ==
    ASSUME SpeechIInv, NEW u \in Utterances, PlayerRetired(u) PROVE SpeechIInv'
<1>1. /\ at[u].player \in {"get", "item", "refused", "drain"} /\ IsSet(u)
      /\ Goto(u, "player", "final") /\ Drop(u, "player")
      /\ UNCHANGED <<speech, turn, audio, service>>
  BY DEF PlayerRetired
<1>2. "final" \in (PlayerSteps \cup AbortSteps) \ {"none", "opened", "dead"}
  BY DEF PlayerSteps
<1> QED
  BY <1>1, <1>2, PlayerOnlyWalks

\* Whoever waits for the end of its session is woken when it is settled.
LEMMA PlayerDrainedKeeps ==
    ASSUME SpeechIInv, NEW u \in Utterances, PlayerDrained(u) PROVE SpeechIInv'
<1>1. UtteranceFacts(u)
  BY DEF SpeechIInv
<1>2. /\ at[u].player = "drain" /\ device.finished
      /\ Goto(u, "player", "verdict")
      /\ UNCHANGED <<speech, item, turn, audio, service>>
  BY DEF PlayerDrained, At
<1>3. item[u].started
  BY <1>1, <1>2 DEF UtteranceFacts, SessionKept
<1>4. worker[u].at # "none" => Settled(u)
  <2>1. worker[u].at \in {"none", "playing", "drained", "error", "dead"}
    BY DEF SpeechIInv, SpeechShapes, WorkerRecords
  <2> QED
    BY <1>1, <1>2, <2>1 DEF UtteranceFacts, DeviceServes, Settled
<1>5. "verdict" \in (PlayerSteps \cup AbortSteps) \ {"none", "opened", "dead"}
  BY DEF PlayerSteps
<1> QED
  BY <1>2, <1>3, <1>4, <1>5, PlayerOnlyWalks

LEMMA RefusedKeeps ==
    ASSUME SpeechIInv, NEW u \in Utterances, Refused(u) PROVE SpeechIInv'
<1>1. /\ at[u].player \in {"begin", "append"}
      /\ Goto(u, "player", "refused") /\ Drop(u, "player")
      /\ UNCHANGED <<speech, turn, audio, service>>
  BY DEF Refused, At
<1>2. "refused" \in (PlayerSteps \cup AbortSteps) \ {"none", "opened", "dead"}
  BY DEF PlayerSteps
<1> QED
  BY <1>1, <1>2, PlayerOnlyWalks

LEMMA PlayerAbortsKeeps ==
    ASSUME SpeechIInv, NEW u \in Utterances, PlayerAborts(u) PROVE SpeechIInv'
<1>1. /\ at[u].player = "refused"
      /\ Goto(u, "player", "abort")
      /\ UNCHANGED <<speech, item, turn, audio, service>>
  BY DEF PlayerAborts, At
<1>2. "abort" \in (PlayerSteps \cup AbortSteps) \ {"none", "opened", "dead"}
  BY DEF AbortSteps
<1> QED
  BY <1>1, <1>2, PlayerOnlyWalks

LEMMA PlayerDispatchesKeeps ==
    ASSUME SpeechIInv, NEW u \in Utterances, PlayerDispatches(u) PROVE SpeechIInv'
<1>1. SpeechShapes /\ UtteranceFacts(u)
  BY DEF SpeechIInv
<1> PICK step : step = IF item[u].started THEN "append" ELSE "begin"
  OBVIOUS
<1>2. /\ at[u].player = "item" /\ Goto(u, "player", step)
      /\ item' = [item EXCEPT ![u].expected = device.generation]
      /\ speech' = speech /\ UNCHANGED <<turn, audio, service>>
  BY DEF PlayerDispatches, At
<1>3. device.generation \in Nat /\ speech[u] \in SpeechRecords
  BY <1>1, FieldTypes
<1>4. /\ item' \in [Utterances -> ItemRecords]
      /\ item'[u].started = item[u].started /\ item'[u].expected = device.generation
      /\ \A w \in Utterances \ {u} : item'[w] = item[w]
  BY <1>1, <1>2, <1>3 DEF SpeechShapes, ItemRecords
<1>5. item'[u].expected <= device.generation
  BY <1>3, <1>4
<1>6. speech' = [speech EXCEPT ![u] = speech[u]]
  BY <1>1, <1>2 DEF SpeechShapes
<1>7. Len(speech[u].prepared) <= MaxChunks /\ Len(speech[u].queue) <= MaxChunks
  BY <1>1 DEF UtteranceFacts, QueuesBounded
<1>8. step \in (PlayerSteps \cup AbortSteps) \ {"none", "opened", "dead"}
  BY DEF PlayerSteps
<1>9. MayGo(u, step)
  BY <1>2 DEF MayGo
<1>10. speech[u].overflow \in {<<>>, speech[u].overflow}
  OBVIOUS
<1>11. at[u].player \notin {"none", "opened", "dead"}
  BY <1>2
<1> QED
  BY <1>2, <1>3, <1>4, <1>5, <1>6, <1>7, <1>8, <1>9, <1>10, <1>11, PlayerWalks


-----------------------------------------------------------------------------
(* Flags and aborts.                                                       *)

\* An abort of its own session settles an utterance, and takes nothing from another.
LEMMA AbortSettles ==
    ASSUME SpeechIInv, NEW u \in Utterances, worker' = worker,
           device' \in {device, AbortStream(speech[u].playbackId)}
    PROVE  /\ device' \in DeviceRecords
           /\ Len(device'.chunks) <= MaxDevice /\ device'.session <= device'.generation
           /\ device.generation <= device'.generation
           /\ DeviceGoesOn(u) /\ DeviceServes(u)'
           /\ worker[u].at # "none" /\ Settled(u) => Settled(u)'
           /\ /\ worker[u].at # "none" /\ item[u].started
              /\ device' = AbortStream(speech[u].playbackId)
              => Settled(u)'
<1>1. SpeechShapes /\ UtteranceFacts(u) /\ DeviceBounded /\ device \in DeviceRecords
  BY DEF SpeechIInv, SpeechShapes
<1>2. /\ speech[u].playbackId \in Nat /\ worker[u].generation \in Nat /\ device.generation \in Nat
      /\ worker[u].at \in {"none", "playing", "drained", "error", "dead"}
  BY <1>1, FieldTypes DEF SpeechShapes, WorkerRecords
<1>3. worker[u].generation <= device.generation
  BY <1>1 DEF UtteranceFacts, GenerationsKnown
<1>4. CASE device' = device
  <2>1. DeviceGoesOn(u) /\ DeviceServes(u)'
    BY <1>1, <1>4 DEF DeviceGoesOn, UtteranceFacts, DeviceServes
  <2>2. Settled(u)' <=> Settled(u)
    BY <1>4 DEF Settled
  <2>3. /\ worker[u].at # "none" /\ item[u].started
        /\ device' = AbortStream(speech[u].playbackId)
        => Settled(u)'
    <3> SUFFICES ASSUME worker[u].at # "none", item[u].started,
                        device = AbortStream(speech[u].playbackId), ~Settled(u)
                 PROVE  FALSE
      BY <2>2, <1>4
    <3>1. speech[u].playbackId = worker[u].generation /\ worker[u].generation # 0
          /\ worker[u].generation = device.generation /\ device.session = device.generation
      BY <1>1, <1>2 DEF UtteranceFacts, SessionKept, DeviceServes, Settled
    <3>2. AbortStream(speech[u].playbackId).generation = device.generation + 1
      BY <1>1, <1>2, <3>1, AbortShape
    <3> QED
      BY <3>2, <1>2
  <2> QED
    BY <2>1, <2>2, <2>3, <1>1, <1>2, <1>4 DEF DeviceBounded
<1>5. CASE device' # device /\ device' = AbortStream(speech[u].playbackId)
  <2>1. /\ device' \in DeviceRecords
        /\ Len(device'.chunks) <= MaxDevice /\ device'.session <= device'.generation
        /\ device'.generation = device.generation + 1
    BY <1>1, <1>2, <1>5, AbortShape
  <2>2. device.generation <= device'.generation /\ worker[u].generation # device'.generation
        /\ device'.generation > device.generation
    BY <2>1, <1>2, <1>3
  <2>3. DeviceGoesOn(u) /\ DeviceServes(u)' /\ Settled(u)'
    BY <2>2 DEF DeviceGoesOn, DeviceServes, Settled
  <2> QED
    BY <2>1, <2>2, <2>3
<1> QED
  BY <1>4, <1>5

\* Flags of an utterance are raised, its session aborted or not, and its threads go on.
LEMMA Flagged ==
    ASSUME SpeechIInv, NEW u \in Utterances, OthersStay(u), StopGoesOn(u),
           worker' = worker, streaming' = streaming, speechGeneration' = speechGeneration,
           heard' = heard, item' \in [Utterances -> ItemRecords],
           stop' \in StopRecords, at' \in [Utterances -> ThreadRecords],
           speech' \in [Utterances -> SpeechRecords], turn' \in [Utterances -> TurnPlaces],
           device' \in {device, AbortStream(speech[u].playbackId)},
           speech'[u].committed = speech[u].committed, speech'[u].born = speech[u].born,
           speech'[u].playbackId = speech[u].playbackId,
           speech[u].cancelled => speech'[u].cancelled,
           item'[u].started = item[u].started, item'[u].expected = item[u].expected,
           QueuesBounded(u)', MarksLeft(u)', PlayerSettles(u)',
           turn[u] # "none",
           \/ at'[u].player = at[u].player
           \/ /\ at[u].player \notin {"none", "opened", "dead"}
              /\ at'[u].player \notin {"none", "begin", "opened", "append", "appended", "drain",
                                       "verdict", "dead"}
    PROVE  SpeechIInv'
<1>1. SpeechShapes /\ UtteranceFacts(u) /\ DeviceBounded
  BY DEF SpeechIInv
<1>2. /\ device' \in DeviceRecords
      /\ Len(device'.chunks) <= MaxDevice /\ device'.session <= device'.generation
      /\ device.generation <= device'.generation
      /\ DeviceGoesOn(u) /\ DeviceServes(u)'
  BY AbortSettles
<1>3. SpeechShapes'
  BY <1>1, <1>2 DEF SpeechShapes
<1>4. /\ speech[u].playbackId \in Nat /\ item[u].expected \in Nat /\ worker[u].generation \in Nat
      /\ device.generation \in Nat /\ device'.generation \in Nat /\ stop.seen \in Nat
  BY <1>1, <1>2, FieldTypes DEF SpeechShapes, DeviceRecords, StopRecords
<1>5. DeviceBounded'
  <2>1. stop'.seen = stop.seen \/ stop'.seen = 0
    BY DEF StopGoesOn, NoStop
  <2>2. stop.seen <= device.generation
    BY <1>1 DEF DeviceBounded
  <2>3. stop'.seen <= device'.generation
    BY <2>1, <2>2, <1>2, <1>4
  <2> QED
    BY <2>3, <1>2 DEF DeviceBounded
<1>6. GenerationsKnown(u)'
  <2>1. /\ speech[u].playbackId <= device.generation /\ item[u].expected <= device.generation
        /\ worker[u].generation <= device.generation /\ speech[u].born <= speechGeneration
    BY <1>1 DEF UtteranceFacts, GenerationsKnown
  <2>2. /\ speech[u].playbackId <= device'.generation /\ item[u].expected <= device'.generation
        /\ worker[u].generation <= device'.generation
    BY <2>1, <1>2, <1>4
  <2> QED
    BY <2>1, <2>2 DEF GenerationsKnown
<1>7. SessionKept(u)'
  BY <1>1 DEF UtteranceFacts, SessionKept
<1>8. ReferenceKept(u)'
  BY <1>1 DEF UtteranceFacts, ReferenceKept, Done
<1>9. UtteranceFacts(u)'
  BY <1>2, <1>6, <1>7, <1>8 DEF UtteranceFacts
<1>10. worker'[u].generation = worker[u].generation
       /\ (worker'[u].at = "none" <=> worker[u].at = "none")
  OBVIOUS
<1> QED
  BY <1>2, <1>3, <1>5, <1>9, <1>10, OneGoesOn


\* A settled utterance stays settled, one that must settle still must.
LEMMA SettlesStill ==
    ASSUME SpeechIInv, NEW u \in Utterances, worker' = worker,
           device' \in {device, AbortStream(speech[u].playbackId)},
           speechGeneration' = speechGeneration,
           speech'[u].committed = speech[u].committed, speech'[u].born = speech[u].born,
           speech[u].cancelled => speech'[u].cancelled,
           speech[u].failed => speech'[u].failed,
           speech'[u].outcome = "failed" => speech[u].outcome = "failed",
           at'[u].player = at[u].player
    PROVE  PlayerSettles(u)'
<1>1. PlayerSettles(u)
  BY DEF SpeechIInv, UtteranceFacts
<1>2. worker[u].at # "none" /\ Settled(u) => Settled(u)'
  BY AbortSettles
<1>3. IsSet(u) => IsSet(u)'
  BY DEF IsSet
<1> QED
  BY <1>1, <1>2, <1>3 DEF PlayerSettles

\* A queue cannot be given an item its thread should not hold.
LEMMA QueuesStill ==
    ASSUME NEW u \in Utterances, QueuesBounded(u),
           speech'[u].committed = speech[u].committed, speech'[u].next = speech[u].next,
           speech'[u].queue = speech[u].queue, speech'[u].prepared = speech[u].prepared,
           speech'[u].overflow = speech[u].overflow,
           turn'[u] \in {"submitting", "idle"} => turn'[u] = turn[u]
    PROVE  QueuesBounded(u)'
  BY DEF QueuesBounded

LEMMA ThreadGoes ==
    ASSUME at \in [Utterances -> ThreadRecords], NEW u \in Utterances, NEW t \in Threads,
           NEW step \in AbortSteps, Goto(u, t, step)
    PROVE  /\ at' \in [Utterances -> ThreadRecords]
           /\ at'[u].player = IF t = "player" THEN step ELSE at[u].player
           /\ at'[u].synth = IF t = "synth" THEN step ELSE at[u].synth
           /\ \A w \in Utterances \ {u} : at'[w] = at[w]
<1>1. CASE t = "player"
  BY <1>1, PlayerGoes
<1>2. CASE t = "synth"
  BY <1>2, SynthGoes
<1> QED
  BY <1>1, <1>2 DEF Threads

LEMMA AbortFailsKeeps ==
    ASSUME SpeechIInv, NEW u \in Utterances, NEW t \in Threads, AbortFails(u, t)
    PROVE  SpeechIInv'
<1>1. SpeechShapes /\ UtteranceFacts(u) /\ speech[u] \in SpeechRecords
  BY FieldTypes DEF SpeechIInv
<1>2. /\ at[u][t] = "abort" /\ Goto(u, t, "report")
      /\ UNCHANGED <<item, turn, audio, service>>
  BY DEF AbortFails, At
<1>3. /\ at' \in [Utterances -> ThreadRecords]
      /\ at'[u].player = IF t = "player" THEN "report" ELSE at[u].player
      /\ at'[u].synth = IF t = "synth" THEN "report" ELSE at[u].synth
      /\ \A w \in Utterances \ {u} : at'[w] = at[w]
  BY <1>1, <1>2, ThreadGoes DEF SpeechShapes, AbortSteps
<1> PICK q : q = [speech[u] EXCEPT !.failed = TRUE]
  OBVIOUS
<1>4. speech' = [speech EXCEPT ![u] = q]
  BY <1>1 DEF AbortFails, SpeechShapes, SpeechRecords
<1>5. q \in SpeechRecords
  BY <1>1 DEF SpeechRecords
<1>6. /\ q.committed = speech[u].committed /\ q.born = speech[u].born
      /\ q.cancelled = speech[u].cancelled /\ q.failed = TRUE
      /\ q.outcome = speech[u].outcome /\ q.playbackId = speech[u].playbackId
      /\ q.next = speech[u].next /\ q.queue = speech[u].queue
      /\ q.prepared = speech[u].prepared /\ q.overflow = speech[u].overflow
  BY <1>1 DEF SpeechRecords
<1>7. speech' \in [Utterances -> SpeechRecords] /\ speech'[u] = q
      /\ \A w \in Utterances \ {u} : speech'[w] = speech[w]
  BY <1>1, <1>4, <1>5 DEF SpeechShapes
<1>8. OthersStay(u) /\ StopGoesOn(u)
  BY <1>2, <1>3, <1>7 DEF OthersStay, StopGoesOn, audio, service
<1>9. QueuesBounded(u)'
  BY <1>1, <1>2, <1>6, <1>7, QueuesStill DEF UtteranceFacts
<1>10. turn[u] # "none"
  BY <1>1, <1>2 DEF UtteranceFacts, MarksLeft, Threads
<1>11. MarksLeft(u)'
  BY <1>1, <1>2, <1>6, <1>7, <1>10 DEF UtteranceFacts, MarksLeft
<1>12. PlayerSettles(u)'
  <2>1. CASE t = "player"
    <3>1. worker[u].at # "none" /\ speech[u].outcome = "failed" => Settled(u)
      BY <1>1, <1>2, <2>1 DEF UtteranceFacts, PlayerSettles
    <3>2. Settled(u)' <=> Settled(u)
      BY <1>2 DEF Settled, audio
    <3> QED
      BY <1>2, <1>3, <1>6, <1>7, <2>1, <3>1, <3>2 DEF PlayerSettles, audio
  <2>2. CASE t # "player"
    BY <1>2, <1>3, <1>6, <1>7, <2>2, SettlesStill DEF audio, service
  <2> QED
    BY <2>1, <2>2
<1>13. \/ at'[u].player = at[u].player
       \/ /\ at[u].player \notin {"none", "opened", "dead"}
          /\ at'[u].player \notin {"none", "begin", "opened", "append", "appended", "drain",
                                   "verdict", "dead"}
  BY <1>2, <1>3
<1>14. /\ worker' = worker /\ streaming' = streaming /\ speechGeneration' = speechGeneration
       /\ heard' = heard /\ device' = device
       /\ item' \in [Utterances -> ItemRecords] /\ stop' \in StopRecords
       /\ turn' \in [Utterances -> TurnPlaces]
       /\ item'[u].started = item[u].started /\ item'[u].expected = item[u].expected
  BY <1>1, <1>2 DEF SpeechShapes, audio, service
<1> QED
  BY <1>3, <1>6, <1>7, <1>8, <1>9, <1>10, <1>11, <1>12, <1>13, <1>14, Flagged

LEMMA AbortReportsKeeps ==
    ASSUME SpeechIInv, NEW u \in Utterances, NEW t \in Threads, AbortReports(u, t)
    PROVE  SpeechIInv'
<1>1. SpeechShapes /\ UtteranceFacts(u) /\ speech[u] \in SpeechRecords
  BY FieldTypes DEF SpeechIInv
<1>2. /\ at[u][t] = "report" /\ Goto(u, t, "clear")
      /\ device' = AbortStream(speech[u].playbackId)
      /\ UNCHANGED <<item, turn, worker, heard, service>>
  BY DEF AbortReports, At
<1>3. /\ at' \in [Utterances -> ThreadRecords]
      /\ at'[u].player = IF t = "player" THEN "clear" ELSE at[u].player
      /\ at'[u].synth = IF t = "synth" THEN "clear" ELSE at[u].synth
      /\ \A w \in Utterances \ {u} : at'[w] = at[w]
  BY <1>1, <1>2, ThreadGoes DEF SpeechShapes, AbortSteps
<1> PICK q : q = [speech[u] EXCEPT !.outcome = "failed", !.closed = TRUE, !.reported = TRUE]
  OBVIOUS
<1>4. speech' = [speech EXCEPT ![u] = q]
  BY <1>1 DEF AbortReports, SpeechShapes, SpeechRecords
<1>5. q \in SpeechRecords
  BY <1>1 DEF SpeechRecords, Outcomes
<1>6. /\ q.committed = speech[u].committed /\ q.born = speech[u].born
      /\ q.cancelled = speech[u].cancelled /\ q.failed = speech[u].failed
      /\ q.outcome = "failed" /\ q.playbackId = speech[u].playbackId
      /\ q.next = speech[u].next /\ q.queue = speech[u].queue
      /\ q.prepared = speech[u].prepared /\ q.overflow = speech[u].overflow
  BY <1>1 DEF SpeechRecords
<1>7. speech' \in [Utterances -> SpeechRecords] /\ speech'[u] = q
      /\ \A w \in Utterances \ {u} : speech'[w] = speech[w]
  BY <1>1, <1>4, <1>5 DEF SpeechShapes
<1>8. OthersStay(u) /\ StopGoesOn(u)
  BY <1>2, <1>3, <1>7 DEF OthersStay, StopGoesOn, service
<1>9. QueuesBounded(u)'
  BY <1>1, <1>2, <1>6, <1>7, QueuesStill DEF UtteranceFacts
<1>10. speech[u].failed
  BY <1>1, <1>2 DEF UtteranceFacts, MarksLeft
<1>11. turn[u] # "none"
  BY <1>1, <1>2 DEF UtteranceFacts, MarksLeft, Threads
<1>12. MarksLeft(u)'
  BY <1>1, <1>2, <1>6, <1>7, <1>10, <1>11 DEF UtteranceFacts, MarksLeft
<1>13. PlayerSettles(u)'
  <2> SUFFICES ASSUME worker[u].at # "none"
               PROVE  /\ at'[u].player \in {"verdict", "clear", "last", "complete", "dead"}
                            => Settled(u)'
                      /\ at'[u].player = "final" => Settled(u)' \/ IsSet(u)'
                      /\ Settled(u)' \/ at'[u].player \in {"opened", "appended"}
    BY <1>2 DEF PlayerSettles
  <2>1. item[u].started \/ at[u].player = "opened"
    BY <1>1 DEF UtteranceFacts, SessionKept
  <2>2. item[u].started => Settled(u)'
    BY <1>2, AbortSettles
  <2>3. at[u].player = "opened" => at'[u].player = "opened"
    BY <1>2, <1>3
  <2> QED
    BY <2>1, <2>2, <2>3
<1>14. \/ at'[u].player = at[u].player
       \/ /\ at[u].player \notin {"none", "opened", "dead"}
          /\ at'[u].player \notin {"none", "begin", "opened", "append", "appended", "drain",
                                   "verdict", "dead"}
  BY <1>2, <1>3
<1>15. /\ worker' = worker /\ streaming' = streaming /\ speechGeneration' = speechGeneration
       /\ heard' = heard /\ device' \in {device, AbortStream(speech[u].playbackId)}
       /\ item' \in [Utterances -> ItemRecords] /\ stop' \in StopRecords
       /\ turn' \in [Utterances -> TurnPlaces]
       /\ item'[u].started = item[u].started /\ item'[u].expected = item[u].expected
  BY <1>1, <1>2 DEF SpeechShapes, service
<1> QED
  BY <1>3, <1>6, <1>7, <1>8, <1>9, <1>11, <1>12, <1>13, <1>14, <1>15, Flagged


LEMMA AbortClearsKeeps ==
    ASSUME SpeechIInv, NEW u \in Utterances, NEW t \in Threads, AbortClears(u, t)
    PROVE  SpeechIInv'
<1>1. SpeechShapes /\ UtteranceFacts(u) /\ speech[u] \in SpeechRecords
  BY FieldTypes DEF SpeechIInv
<1>2. /\ at[u][t] = "clear" /\ Goto(u, t, "last")
      /\ UNCHANGED <<turn, audio, service>> /\ item' = item
  BY DEF AbortClears, At
<1> PICK e : e = <<>>
  OBVIOUS
<1>3. /\ e \in Spoken /\ e \in Seq(Spoken) /\ e \in Seq(Spoken \ {STOP})
      /\ Len(e) <= MaxChunks
  <2>1. e \in Spoken /\ e \in Seq(Spoken) /\ e \in Seq(Spoken \ {STOP}) /\ Len(e) = 0
    BY EmptySeq DEF Spoken
  <2>2. MaxChunks \in Nat
    BY BoundsAssumption DEF BoundsAssumption
  <2> QED
    BY <2>1, <2>2
<1> PICK q : q = [speech[u] EXCEPT !.overflow = e, !.queue = e, !.prepared = e]
  OBVIOUS
<1>4. speech' = [speech EXCEPT ![u] = q]
  BY <1>1 DEF AbortClears, SpeechShapes, SpeechRecords
<1>5. q \in SpeechRecords
  BY <1>1, <1>3 DEF SpeechRecords
<1>6. /\ q.committed = speech[u].committed /\ q.born = speech[u].born
      /\ q.cancelled = speech[u].cancelled /\ q.failed = speech[u].failed
      /\ q.outcome = speech[u].outcome /\ q.playbackId = speech[u].playbackId
      /\ q.next = speech[u].next
  BY <1>1 DEF SpeechRecords
<1>7. q.queue = e /\ q.prepared = e /\ q.overflow = e
  BY <1>1 DEF SpeechRecords
<1>8. Len(q.prepared) <= MaxChunks /\ Len(q.queue) <= MaxChunks
      /\ q.overflow \in {<<>>, speech[u].overflow}
  BY <1>3, <1>7
<1>9. item' \in [Utterances -> ItemRecords] /\ item[u].expected <= device.generation
      /\ item'[u].expected <= device.generation
  BY <1>1, <1>2 DEF SpeechShapes, UtteranceFacts, GenerationsKnown
<1>10. speech[u].failed
  BY <1>1, <1>2 DEF UtteranceFacts, MarksLeft
<1>11. CASE t = "synth"
  <2>1. "last" \in SynthSteps \cup AbortSteps /\ at[u].synth # "none"
        /\ Goto(u, "synth", "last")
    BY <1>2, <1>11 DEF AbortSteps
  <2> QED
    BY <1>2, <1>4, <1>5, <1>6, <1>8, <1>9, <1>10, <2>1, SynthGoesOn
<1>12. CASE t = "player"
  <2>1. "last" \in (PlayerSteps \cup AbortSteps) \ {"none", "opened", "dead"}
        /\ at[u].player = "clear" /\ Goto(u, "player", "last")
    BY <1>2, <1>12 DEF AbortSteps
  <2>2. MayGo(u, "last")
    BY <1>1, <1>10, <2>1 DEF MayGo, UtteranceFacts, PlayerSettles
  <2> QED
    BY <1>2, <1>4, <1>5, <1>6, <1>8, <1>9, <2>1, <2>2, PlayerWalks
<1> QED
  BY <1>11, <1>12 DEF Threads

LEMMA AbortEndsKeeps ==
    ASSUME SpeechIInv, NEW u \in Utterances, NEW t \in Threads, AbortEnds(u, t)
    PROVE  SpeechIInv'
<1>1. SpeechShapes /\ UtteranceFacts(u) /\ speech[u] \in SpeechRecords
  BY FieldTypes DEF SpeechIInv
<1>2. /\ at[u][t] = "last" /\ Leave(u, t)
      /\ UNCHANGED <<turn, audio, service>> /\ item' = item
  BY DEF AbortEnds, At, PutsPrepared
<1>3. \E q \in SpeechRecords :
         /\ speech' = [speech EXCEPT ![u] = q]
         /\ q.committed = speech[u].committed /\ q.born = speech[u].born
         /\ q.cancelled = speech[u].cancelled /\ q.failed = speech[u].failed
         /\ q.outcome = speech[u].outcome /\ q.playbackId = speech[u].playbackId
         /\ q.next = speech[u].next
         /\ Len(q.prepared) <= MaxChunks /\ Len(q.queue) <= MaxChunks
         /\ q.overflow = speech[u].overflow
  <2>1. CASE /\ Len(speech[u].prepared) < MaxChunks
             /\ speech' = [speech EXCEPT ![u].prepared = Append(@, STOP)]
    <3>1. STOP \in Spoken
      BY EmptySeq DEF Spoken, STOP
    <3> QED
      BY <1>1, <2>1, <3>1, PutShape
  <2>2. CASE speech' = speech
    <3>1. speech' = [speech EXCEPT ![u] = speech[u]]
      BY <1>1, <2>2 DEF SpeechShapes
    <3>2. Len(speech[u].prepared) <= MaxChunks /\ Len(speech[u].queue) <= MaxChunks
      BY <1>1 DEF UtteranceFacts, QueuesBounded
    <3> QED
      BY <1>1, <3>1, <3>2
  <2> QED
    BY <2>1, <2>2 DEF AbortEnds, PutsPrepared
<1> PICK q \in SpeechRecords :
         /\ speech' = [speech EXCEPT ![u] = q]
         /\ q.committed = speech[u].committed /\ q.born = speech[u].born
         /\ q.cancelled = speech[u].cancelled /\ q.failed = speech[u].failed
         /\ q.outcome = speech[u].outcome /\ q.playbackId = speech[u].playbackId
         /\ q.next = speech[u].next
         /\ Len(q.prepared) <= MaxChunks /\ Len(q.queue) <= MaxChunks
         /\ q.overflow = speech[u].overflow
  BY <1>3
<1>4. item' \in [Utterances -> ItemRecords] /\ item[u].expected <= device.generation
      /\ item'[u].expected <= device.generation
  BY <1>1, <1>2 DEF SpeechShapes, UtteranceFacts, GenerationsKnown
<1>5. CASE t = "synth"
  <2>1. "dead" \in SynthSteps \cup AbortSteps /\ at[u].synth # "none"
        /\ Goto(u, "synth", "dead")
    BY <1>2, <1>5 DEF SynthSteps, Leave
  <2> QED
    BY <1>2, <1>4, <2>1, SynthGoesOn
<1>6. CASE t = "player"
  <2>1. "final" \in (PlayerSteps \cup AbortSteps) \ {"none", "opened", "dead"}
        /\ at[u].player = "last" /\ Goto(u, "player", "final")
    BY <1>2, <1>6 DEF PlayerSteps, Leave
  <2>2. MayGo(u, "final")
    BY <1>1, <2>1 DEF MayGo, UtteranceFacts, PlayerSettles
  <2> QED
    BY <1>2, <1>4, <2>1, <2>2, PlayerWalks
<1> QED
  BY <1>5, <1>6 DEF Threads

-----------------------------------------------------------------------------
(* Cancellations, by the turn or by a stop.                                *)

\* What cancel() leaves of a queue.
LEMMA CancelledShape ==
    ASSUME SpeechShapes, NEW u \in Utterances, UtteranceFacts(u),
           speech' = [speech EXCEPT ![u] = CancelledQueue(@)]
    PROVE  /\ speech' \in [Utterances -> SpeechRecords]
           /\ \A w \in Utterances \ {u} : speech'[w] = speech[w]
           /\ speech'[u].committed = speech[u].committed /\ speech'[u].born = speech[u].born
           /\ speech'[u].cancelled /\ speech'[u].failed = speech[u].failed
           /\ speech'[u].outcome = "cancelled"
           /\ speech'[u].playbackId = speech[u].playbackId
           /\ speech'[u].next = speech[u].next
           /\ speech'[u].overflow = <<>> /\ Len(speech'[u].queue) <= MaxChunks
           /\ Len(speech'[u].prepared) <= MaxChunks
<1>1. speech[u] \in SpeechRecords
  BY FieldTypes
<1> PICK e : e = <<>>
  OBVIOUS
<1>2. /\ e \in Spoken /\ e \in Seq(Spoken) /\ e \in Seq(Spoken \ {STOP})
      /\ Len(e) <= MaxChunks
  <2>1. e \in Spoken /\ e \in Seq(Spoken) /\ e \in Seq(Spoken \ {STOP}) /\ Len(e) = 0
    BY EmptySeq DEF Spoken
  <2>2. MaxChunks \in Nat
    BY BoundsAssumption DEF BoundsAssumption
  <2> QED
    BY <2>1, <2>2
<1> PICK q : q = [speech[u] EXCEPT !.cancelled = TRUE, !.closed = TRUE,
                                   !.outcome = "cancelled",
                                   !.overflow = e, !.queue = e, !.prepared = e]
  OBVIOUS
<1>3. speech' = [speech EXCEPT ![u] = q]
  BY DEF CancelledQueue, SpeechShapes
<1>4. q \in SpeechRecords
  BY <1>1, <1>2 DEF SpeechRecords, Outcomes
<1>5. /\ q.committed = speech[u].committed /\ q.born = speech[u].born
      /\ q.cancelled = TRUE /\ q.failed = speech[u].failed
      /\ q.outcome = "cancelled" /\ q.playbackId = speech[u].playbackId
      /\ q.next = speech[u].next
      /\ q.queue = e /\ q.prepared = e /\ q.overflow = e
  BY <1>1 DEF SpeechRecords
<1>6. speech' \in [Utterances -> SpeechRecords] /\ speech'[u] = q
      /\ \A w \in Utterances \ {u} : speech'[w] = speech[w]
  BY <1>3, <1>4 DEF SpeechShapes
<1> QED
  BY <1>2, <1>5, <1>6

LEMMA TurnCancelsKeeps ==
    ASSUME SpeechIInv, NEW u \in Utterances, TurnCancels(u) PROVE SpeechIInv'
<1>1. SpeechShapes /\ UtteranceFacts(u)
  BY DEF SpeechIInv
<1>2. /\ turn[u] = "cancel" /\ UNCHANGED <<at, item, audio, service>>
  BY DEF TurnCancels
<1>3. CASE speech[u].cancelled
  <2>1. turn' = [turn EXCEPT ![u] = "over"] /\ speech' = speech
    BY <1>3 DEF TurnCancels
  <2>2. /\ turn' \in [Utterances -> TurnPlaces] /\ turn'[u] = "over"
        /\ \A w \in Utterances \ {u} : turn'[w] = turn[w]
    BY <1>1, <2>1 DEF SpeechShapes, TurnPlaces
  <2>3. SpeechShapes'
    BY <1>1, <1>2, <2>1, <2>2 DEF SpeechShapes, audio, service
  <2>4. OthersStay(u) /\ SameService /\ SameStanding(u)
    BY <1>2, <2>1, <2>2 DEF OthersStay, SameService, SameStanding, audio, service
  <2>5. QueuesBounded(u)'
    BY <1>1, <2>1, <2>2, QueuesStill DEF UtteranceFacts
  <2>6. at'[u].synth \in {"report", "clear", "last"} => speech[u].failed
    BY <1>1, <1>2 DEF UtteranceFacts, MarksLeft, Threads
  <2> QED
    BY <1>2, <2>2, <2>3, <2>4, <2>5, <2>6, PlayerStays
<1>4. CASE ~speech[u].cancelled
  <2>1. turn' = [turn EXCEPT ![u] = "stop"]
        /\ speech' = [speech EXCEPT ![u] = CancelledQueue(@)]
    BY <1>4 DEF TurnCancels
  <2>2. /\ turn' \in [Utterances -> TurnPlaces] /\ turn'[u] = "stop"
        /\ \A w \in Utterances \ {u} : turn'[w] = turn[w]
    BY <1>1, <2>1 DEF SpeechShapes, TurnPlaces
  <2>3. /\ speech' \in [Utterances -> SpeechRecords]
        /\ \A w \in Utterances \ {u} : speech'[w] = speech[w]
        /\ speech'[u].committed = speech[u].committed /\ speech'[u].born = speech[u].born
        /\ speech'[u].cancelled /\ speech'[u].failed = speech[u].failed
        /\ speech'[u].outcome = "cancelled"
        /\ speech'[u].playbackId = speech[u].playbackId
        /\ speech'[u].next = speech[u].next
        /\ speech'[u].overflow = <<>> /\ Len(speech'[u].queue) <= MaxChunks
        /\ Len(speech'[u].prepared) <= MaxChunks
    BY <1>1, <2>1, CancelledShape
  <2>4. OthersStay(u) /\ StopGoesOn(u)
    BY <1>2, <2>2, <2>3 DEF OthersStay, StopGoesOn, audio, service
  <2>5. QueuesBounded(u)'
    BY <2>2, <2>3 DEF QueuesBounded
  <2>6. MarksLeft(u)'
    BY <1>1, <1>2, <2>2, <2>3 DEF UtteranceFacts, MarksLeft
  <2>7. PlayerSettles(u)'
    BY <1>2, <2>3, SettlesStill DEF audio, service
  <2>8. /\ worker' = worker /\ streaming' = streaming /\ speechGeneration' = speechGeneration
        /\ heard' = heard /\ device' = device
        /\ item' \in [Utterances -> ItemRecords] /\ stop' \in StopRecords
        /\ at' \in [Utterances -> ThreadRecords] /\ at'[u].player = at[u].player
        /\ item'[u].started = item[u].started /\ item'[u].expected = item[u].expected
    BY <1>1, <1>2 DEF SpeechShapes, audio, service
  <2> QED
    BY <1>2, <2>2, <2>3, <2>4, <2>5, <2>6, <2>7, <2>8, Flagged
<1> QED
  BY <1>3, <1>4

LEMMA TurnStopsKeeps ==
    ASSUME SpeechIInv, NEW u \in Utterances, TurnStops(u) PROVE SpeechIInv'
<1>1. SpeechShapes /\ UtteranceFacts(u)
  BY DEF SpeechIInv
<1>2. /\ turn[u] = "stop" /\ device' = AbortStream(speech[u].playbackId)
      /\ turn' = [turn EXCEPT ![u] = "over"]
      /\ UNCHANGED <<speech, at, item, worker, heard, service>>
  BY DEF TurnStops
<1>3. /\ turn' \in [Utterances -> TurnPlaces] /\ turn'[u] = "over"
      /\ \A w \in Utterances \ {u} : turn'[w] = turn[w]
  BY <1>1, <1>2 DEF SpeechShapes, TurnPlaces
<1>4. OthersStay(u) /\ StopGoesOn(u)
  BY <1>2, <1>3 DEF OthersStay, StopGoesOn, service
<1>5. QueuesBounded(u)'
  BY <1>1, <1>2, <1>3, QueuesStill DEF UtteranceFacts
<1>6. MarksLeft(u)'
  BY <1>1, <1>2, <1>3 DEF UtteranceFacts, MarksLeft
<1>7. PlayerSettles(u)'
  BY <1>2, SettlesStill DEF service
<1>8. /\ worker' = worker /\ streaming' = streaming /\ speechGeneration' = speechGeneration
      /\ heard' = heard /\ device' \in {device, AbortStream(speech[u].playbackId)}
      /\ item' \in [Utterances -> ItemRecords] /\ stop' \in StopRecords
      /\ at' \in [Utterances -> ThreadRecords] /\ at'[u].player = at[u].player
      /\ speech' \in [Utterances -> SpeechRecords] /\ speech'[u] = speech[u]
      /\ item'[u].started = item[u].started /\ item'[u].expected = item[u].expected
  BY <1>1, <1>2 DEF SpeechShapes, service
<1> QED
  BY <1>2, <1>3, <1>4, <1>5, <1>6, <1>7, <1>8, Flagged


\* A step of no utterance at all, with which a stop ends.
LEMMA NobodyGoesOn ==
    ASSUME SpeechIInv, stop' = NoStop,
           device' \in DeviceRecords,
           Len(device'.chunks) <= MaxDevice, device'.session <= device'.generation,
           device' = device \/ device'.generation = device.generation + 1,
           UNCHANGED <<speech, at, item, turn, worker, heard, streaming, speechGeneration>>
    PROVE  SpeechIInv'
<1>1. SpeechShapes /\ SessionsApart
  BY DEF SpeechIInv
<1>2. 0 \in 0..MaxUtterances /\ device.generation \in Nat /\ device'.generation \in Nat
  BY <1>1, BoundsAssumption DEF BoundsAssumption, SpeechShapes, DeviceRecords
<1>3. SpeechShapes'
  BY <1>1, <1>2 DEF SpeechShapes, NoStop, StopRecords
<1>4. OthersStay(0) /\ StopGoesOn(0)
  BY DEF OthersStay, StopGoesOn
<1>5. DeviceGoesOn(0)
  BY <1>2 DEF DeviceGoesOn
<1>6. \A w \in Utterances : UtteranceFacts(w)'
  <2> TAKE w \in Utterances
  <2>1. w \in Utterances \ {0}
    BY DEF Utterances
  <2> QED
    BY <1>3, <1>4, <1>5, <2>1, OthersKeep
<1>7. DeviceBounded'
  BY <1>2 DEF DeviceBounded, NoStop
<1>8. SessionsApart'
  BY <1>1 DEF SessionsApart
<1>9. StopIsEarlier'
  BY DEF StopIsEarlier, NoStop
<1> QED
  BY <1>3, <1>6, <1>7, <1>8, <1>9 DEF SpeechIInv

\* The queue of a stop is one the service created.
LEMMA StoppedQueue ==
    ASSUME SpeechIInv, stop.queue # 0
    PROVE  stop.queue \in Utterances /\ turn[stop.queue] # "none"
<1>1. stop.queue \in 0..MaxUtterances /\ MaxUtterances \in Nat
  BY BoundsAssumption DEF BoundsAssumption, SpeechIInv, SpeechShapes, StopRecords
<1>2. stop.queue \in Utterances
  BY <1>1 DEF Utterances
<1> QED
  BY <1>2 DEF SpeechIInv, UtteranceFacts, MarksLeft

LEMMA StopCancelsKeeps ==
    ASSUME SpeechIInv, StopCancels PROVE SpeechIInv'
<1>1. SpeechShapes /\ DeviceBounded /\ device \in DeviceRecords
  BY DEF SpeechIInv, SpeechShapes
<1>2. UNCHANGED <<at, item, turn, worker, heard, streaming, speechGeneration>>
      /\ stop.at = "cancel"
  BY DEF StopCancels
<1>3. CASE /\ device' = IF stop.seen = device.generation THEN Retired(device) ELSE device
           /\ stop' = NoStop /\ speech' = speech
  <2>1. MaxDevice \in Nat /\ device.generation \in Nat
    BY <1>1, BoundsAssumption DEF BoundsAssumption, DeviceRecords
  <2>2. CASE device' = Retired(device)
    <3>1. /\ device' \in DeviceRecords /\ device'.generation = device.generation + 1
          /\ device'.session = 0 /\ Len(device'.chunks) = 0
      BY <1>1, <2>2, RetiredShape
    <3>2. Len(device'.chunks) <= MaxDevice /\ device'.session <= device'.generation
      BY <2>1, <3>1
    <3> QED
      BY <1>2, <1>3, <3>1, <3>2, NobodyGoesOn
  <2>3. CASE device' = device
    <3>1. Len(device'.chunks) <= MaxDevice /\ device'.session <= device'.generation
      BY <1>1, <2>3 DEF DeviceBounded
    <3> QED
      BY <1>1, <1>2, <1>3, <2>3, <3>1, NobodyGoesOn
  <2> QED
    BY <1>3, <2>2, <2>3
<1>4. CASE stop' = NoStop /\ speech' = speech /\ device' = device
  <2>1. Len(device'.chunks) <= MaxDevice /\ device'.session <= device'.generation
    BY <1>1, <1>4 DEF DeviceBounded
  <2> QED
    BY <1>1, <1>2, <1>4, <2>1, NobodyGoesOn
<1>5. CASE /\ stop.queue # 0 /\ ~speech[stop.queue].cancelled
           /\ speech' = [speech EXCEPT ![stop.queue] = CancelledQueue(@)]
           /\ stop' = [stop EXCEPT !.at = "abort"] /\ device' = device
  <2> PICK u : u = stop.queue
    OBVIOUS
  <2>1. u \in Utterances /\ turn[u] # "none" /\ UtteranceFacts(u)
    BY <1>5, StoppedQueue DEF SpeechIInv
  <2>2. speech' = [speech EXCEPT ![u] = CancelledQueue(@)]
    BY <1>5
  <2>3. /\ speech' \in [Utterances -> SpeechRecords]
        /\ \A w \in Utterances \ {u} : speech'[w] = speech[w]
        /\ speech'[u].committed = speech[u].committed /\ speech'[u].born = speech[u].born
        /\ speech'[u].cancelled /\ speech'[u].failed = speech[u].failed
        /\ speech'[u].outcome = "cancelled"
        /\ speech'[u].playbackId = speech[u].playbackId
        /\ speech'[u].next = speech[u].next
        /\ speech'[u].overflow = <<>> /\ Len(speech'[u].queue) <= MaxChunks
        /\ Len(speech'[u].prepared) <= MaxChunks
    BY <1>1, <2>1, <2>2, CancelledShape
  <2>4. stop \in StopRecords
    BY <1>1 DEF SpeechShapes
  <2>5. stop'.queue = stop.queue /\ stop'.at = "abort" /\ stop'.seen = stop.seen
        /\ stop' \in StopRecords
    BY <1>5, <2>4 DEF StopRecords
  <2>6. OthersStay(u)
    BY <1>2, <2>3 DEF OthersStay
  <2>7. StopGoesOn(u)
    BY <2>3, <2>5 DEF StopGoesOn
  <2>8. QueuesBounded(u)'
    BY <1>2, <2>1, <2>3 DEF UtteranceFacts, QueuesBounded
  <2>9. MarksLeft(u)'
    BY <1>2, <2>1, <2>3 DEF UtteranceFacts, MarksLeft
  <2>10. PlayerSettles(u)'
    BY <1>2, <1>5, <2>1, <2>3, SettlesStill
  <2>11. /\ item' \in [Utterances -> ItemRecords] /\ turn' \in [Utterances -> TurnPlaces]
         /\ at' \in [Utterances -> ThreadRecords] /\ at'[u].player = at[u].player
         /\ item'[u].started = item[u].started /\ item'[u].expected = item[u].expected
    BY <1>1, <1>2 DEF SpeechShapes
  <2>12. device' \in {device, AbortStream(speech[u].playbackId)}
    BY <1>5
  <2> QED
    BY <1>2, <2>1, <2>3, <2>5, <2>6, <2>7, <2>8, <2>9, <2>10, <2>11, <2>12, Flagged
<1> QED
  BY <1>3, <1>4, <1>5 DEF StopCancels

LEMMA StopAbortsKeeps ==
    ASSUME SpeechIInv, StopAborts PROVE SpeechIInv'
<1>1. SpeechShapes
  BY DEF SpeechIInv
<1>2. /\ stop.at = "abort" /\ stop' = NoStop
      /\ device' = AbortStream(speech[stop.queue].playbackId)
      /\ UNCHANGED <<speech, at, item, turn, worker, heard, streaming, speechGeneration>>
  BY DEF StopAborts
<1> PICK u : u = stop.queue
  OBVIOUS
<1>3. u # 0
  BY <1>2 DEF SpeechIInv, StopIsEarlier
<1>4. u \in Utterances /\ turn[u] # "none" /\ UtteranceFacts(u)
  BY <1>3, StoppedQueue DEF SpeechIInv
<1>5. device' = AbortStream(speech[u].playbackId)
  BY <1>2
<1>6. OthersStay(u) /\ StopGoesOn(u)
  BY <1>2 DEF OthersStay, StopGoesOn
<1>7. QueuesBounded(u)'
  BY <1>2, <1>4, QueuesStill DEF UtteranceFacts
<1>8. MarksLeft(u)'
  BY <1>2, <1>4 DEF UtteranceFacts, MarksLeft
<1>9. PlayerSettles(u)'
  BY <1>2, <1>4, <1>5, SettlesStill
<1>10. 0 \in 0..MaxUtterances
  BY BoundsAssumption DEF BoundsAssumption
<1>11. stop' \in StopRecords
  BY <1>2, <1>10 DEF NoStop, StopRecords
<1>12. /\ item' \in [Utterances -> ItemRecords] /\ turn' \in [Utterances -> TurnPlaces]
       /\ at' \in [Utterances -> ThreadRecords] /\ at'[u].player = at[u].player
       /\ speech' \in [Utterances -> SpeechRecords] /\ speech'[u] = speech[u]
       /\ item'[u].started = item[u].started /\ item'[u].expected = item[u].expected
       /\ device' \in {device, AbortStream(speech[u].playbackId)}
  BY <1>1, <1>2, <1>5 DEF SpeechShapes
<1> QED
  BY <1>2, <1>4, <1>6, <1>7, <1>8, <1>9, <1>11, <1>12, Flagged

\* Whatever is retired from now on is older than the sessions to come.
LEMMA StopDetachesKeeps ==
    ASSUME SpeechIInv, StopDetaches PROVE SpeechIInv'
<1>1. SpeechShapes /\ DeviceBounded /\ SessionsApart
  BY DEF SpeechIInv
<1>2. /\ stop.at = "idle" /\ speechGeneration < MaxStops
      /\ speechGeneration' = speechGeneration + 1
      /\ stop' = [at |-> "cancel", queue |-> streaming, seen |-> device.generation]
      /\ streaming' = 0
      /\ UNCHANGED <<speech, at, item, turn, worker, device, heard>>
  BY DEF StopDetaches, audio
<1>3. /\ MaxStops \in Nat /\ speechGeneration \in 0..MaxStops /\ 0 \in 0..MaxUtterances
      /\ streaming \in 0..MaxUtterances /\ device.generation \in Nat
  BY <1>1, BoundsAssumption DEF BoundsAssumption, SpeechShapes, DeviceRecords
<1>4. /\ stop'.at = "cancel" /\ stop'.queue = streaming /\ stop'.seen = device.generation
      /\ stop' \in StopRecords
  BY <1>2, <1>3 DEF StopRecords
<1>5. SpeechShapes'
  <2>1. speechGeneration' \in 0..MaxStops
    BY <1>2, <1>3
  <2> QED
    BY <1>1, <1>2, <1>3, <1>4, <2>1 DEF SpeechShapes
<1>6. ASSUME NEW u \in Utterances PROVE UtteranceFacts(u)' /\ speech[u].born < speechGeneration'
  <2>1. UtteranceFacts(u) /\ speech[u].born \in Nat
    BY <1>1, FieldTypes DEF SpeechIInv
  <2>2. speech[u].born <= speechGeneration
    BY <2>1 DEF UtteranceFacts, GenerationsKnown
  <2>3. speech[u].born < speechGeneration' /\ speech[u].born # speechGeneration'
    BY <1>2, <1>3, <2>1, <2>2
  <2>4. speech[u].born <= speechGeneration'
    BY <1>2, <1>3, <2>1, <2>3
  <2>5. QueuesBounded(u)'
    BY <1>2, <2>1 DEF UtteranceFacts, QueuesBounded
  <2>6. GenerationsKnown(u)'
    BY <1>2, <2>1, <2>4 DEF UtteranceFacts, GenerationsKnown
  <2>7. MarksLeft(u)'
    <3>1. u # 0
      BY DEF Utterances
    <3> QED
      BY <1>2, <1>4, <2>1, <3>1 DEF UtteranceFacts, MarksLeft
  <2>8. SessionKept(u)'
    BY <1>2, <2>1 DEF UtteranceFacts, SessionKept
  <2>9. DeviceServes(u)'
    BY <1>2, <2>1 DEF UtteranceFacts, DeviceServes
  <2>10. PlayerSettles(u)'
    <3>1. IsSet(u) => IsSet(u)'
      BY <1>2, <2>3 DEF IsSet
    <3>2. Settled(u)' <=> Settled(u)
      BY <1>2 DEF Settled
    <3> QED
      BY <1>2, <2>1, <3>1, <3>2 DEF UtteranceFacts, PlayerSettles
  <2>11. ReferenceKept(u)'
    BY <1>2, <2>3 DEF ReferenceKept
  <2> QED
    BY <2>3, <2>5, <2>6, <2>7, <2>8, <2>9, <2>10, <2>11 DEF UtteranceFacts
<1>7. DeviceBounded'
  BY <1>1, <1>2, <1>3, <1>4 DEF DeviceBounded
<1>8. SessionsApart'
  BY <1>1, <1>2 DEF SessionsApart
<1>9. StopIsEarlier'
  BY <1>2, <1>4, <1>6 DEF StopIsEarlier
<1> QED
  BY <1>5, <1>6, <1>7, <1>8, <1>9 DEF SpeechIInv


-----------------------------------------------------------------------------
(* The playback thread and the device.                                     *)

\* A thread goes on with flags of its own; its session is left or aborted.
LEMMA PlayerFlags ==
    ASSUME SpeechIInv, NEW u \in Utterances, turn[u] # "none",
           NEW step \in PlayerSteps, Goto(u, "player", step),
           at[u].player \notin {"none", "opened", "dead"},
           step \notin {"none", "begin", "opened", "append", "appended", "drain",
                        "verdict", "dead"},
           NEW q \in SpeechRecords, speech' = [speech EXCEPT ![u] = q],
           q.committed = speech[u].committed, q.born = speech[u].born,
           q.playbackId = speech[u].playbackId, q.cancelled = speech[u].cancelled,
           speech[u].failed => q.failed, q.outcome = "failed" => q.failed,
           q.next = speech[u].next, q.queue = speech[u].queue,
           q.prepared = speech[u].prepared, q.overflow = speech[u].overflow,
           UNCHANGED <<item, turn, worker, heard, service>>,
           device' \in {device, AbortStream(speech[u].playbackId)},
           PlayerSettles(u)'
    PROVE  SpeechIInv'
<1>1. SpeechShapes /\ UtteranceFacts(u)
  BY DEF SpeechIInv
<1>2. /\ at' \in [Utterances -> ThreadRecords]
      /\ at'[u].player = step /\ at'[u].synth = at[u].synth
      /\ \A w \in Utterances \ {u} : at'[w] = at[w]
  BY <1>1, PlayerGoes DEF SpeechShapes
<1>3. speech' \in [Utterances -> SpeechRecords] /\ speech'[u] = q
      /\ \A w \in Utterances \ {u} : speech'[w] = speech[w]
  BY <1>1 DEF SpeechShapes
<1>4. OthersStay(u) /\ StopGoesOn(u)
  BY <1>2, <1>3 DEF OthersStay, StopGoesOn, service
<1>5. QueuesBounded(u)'
  BY <1>1, <1>3, QueuesStill DEF UtteranceFacts
<1>6. MarksLeft(u)'
  <2>1. at'[u].player \notin {"report", "clear", "last"}
    BY <1>2 DEF PlayerSteps
  <2> QED
    BY <1>1, <1>2, <1>3, <2>1 DEF UtteranceFacts, MarksLeft, Threads
<1>7. /\ worker' = worker /\ streaming' = streaming /\ speechGeneration' = speechGeneration
      /\ heard' = heard
      /\ item' \in [Utterances -> ItemRecords] /\ stop' \in StopRecords
      /\ turn' \in [Utterances -> TurnPlaces]
      /\ item'[u].started = item[u].started /\ item'[u].expected = item[u].expected
  BY <1>1 DEF SpeechShapes, service
<1>8. at'[u].player \notin {"none", "begin", "opened", "append", "appended", "drain",
                            "verdict", "dead"}
  BY <1>2
<1>9. speech[u].cancelled => speech'[u].cancelled
  BY <1>3
<1>10. speech'[u].committed = speech[u].committed /\ speech'[u].born = speech[u].born
       /\ speech'[u].playbackId = speech[u].playbackId
  BY <1>3
<1> QED
  BY <1>2, <1>3, <1>4, <1>5, <1>6, <1>7, <1>8, <1>9, <1>10, Flagged

\* An utterance whose thread has gone anywhere was created.
LEMMA Created ==
    ASSUME SpeechIInv, NEW u \in Utterances, at[u].player # "none" \/ worker[u].at # "none"
    PROVE  turn[u] # "none"
  BY DEF SpeechIInv, UtteranceFacts, MarksLeft

LEMMA PlayerEndsKeeps ==
    ASSUME SpeechIInv, NEW u \in Utterances, PlayerEnds(u) PROVE SpeechIInv'
<1>1. SpeechShapes /\ UtteranceFacts(u) /\ speech[u] \in SpeechRecords /\ device \in DeviceRecords
      /\ DeviceBounded
  BY FieldTypes DEF SpeechIInv, SpeechShapes
<1>2. at[u].player = "item" /\ UNCHANGED <<item, turn, worker, heard, service>>
  BY DEF PlayerEnds, At
<1>3. CASE item[u].started
  <2>1. /\ Goto(u, "player", "drain") /\ speech' = speech
        /\ device' = [device EXCEPT !.closed = TRUE] \/ device' = device
    BY <1>3 DEF PlayerEnds
  <2>2. /\ at' \in [Utterances -> ThreadRecords]
        /\ at'[u].player = "drain" /\ at'[u].synth = at[u].synth
        /\ \A w \in Utterances \ {u} : at'[w] = at[w]
    BY <1>1, <2>1, PlayerGoes DEF SpeechShapes, PlayerSteps
  <2>3. device' \in DeviceRecords /\ SameSession
    <3>1. CASE device' = device
      BY <1>1, <3>1 DEF SameSession, DeviceBounded
    <3>2. CASE device' = [device EXCEPT !.closed = TRUE]
      <4>1. device' \in DeviceRecords
        BY <1>1, <3>2 DEF DeviceRecords
      <4>2. device'.chunks = device.chunks /\ device'.generation = device.generation
            /\ device'.session = device.session /\ device'.finished = device.finished
        BY <1>1, <3>2 DEF DeviceRecords
      <4> QED
        BY <1>1, <4>1, <4>2 DEF SameSession, DeviceBounded
    <3> QED
      BY <2>1, <3>1, <3>2
  <2>4. SpeechShapes'
    BY <1>1, <1>2, <2>1, <2>2, <2>3 DEF SpeechShapes, service
  <2>5. OthersStay(u) /\ SameService /\ SameStanding(u)
    BY <1>2, <2>1, <2>2, <2>3 DEF OthersStay, SameService, SameStanding, service
  <2>6. QueuesBounded(u)'
    BY <1>1, <1>2, <2>1, QueuesStill DEF UtteranceFacts
  <2>7. item'[u].started = item[u].started /\ item'[u].expected <= device.generation
    BY <1>1, <1>2 DEF UtteranceFacts, GenerationsKnown
  <2> QED
    BY <1>2, <1>3, <2>2, <2>4, <2>5, <2>6, <2>7, PlayerGoesOn
<1>4. CASE ~item[u].started
  <2>1. /\ Goto(u, "player", "final") /\ device' = device
        /\ speech' = [speech EXCEPT ![u].outcome = "completed"]
    BY <1>4 DEF PlayerEnds
  <2> PICK q : q = [speech[u] EXCEPT !.outcome = "completed"]
    OBVIOUS
  <2>2. speech' = [speech EXCEPT ![u] = q]
    BY <1>1, <2>1 DEF SpeechShapes, SpeechRecords
  <2>3. q \in SpeechRecords
    BY <1>1 DEF SpeechRecords, Outcomes
  <2>4. /\ q.committed = speech[u].committed /\ q.born = speech[u].born
        /\ q.cancelled = speech[u].cancelled /\ q.failed = speech[u].failed
        /\ q.outcome = "completed" /\ q.playbackId = speech[u].playbackId
        /\ q.next = speech[u].next /\ q.queue = speech[u].queue
        /\ q.prepared = speech[u].prepared /\ q.overflow = speech[u].overflow
    BY <1>1 DEF SpeechRecords
  <2>5. PlayerSettles(u)'
    <3>1. worker[u].at = "none"
      BY <1>1, <1>2, <1>4 DEF UtteranceFacts, SessionKept
    <3> QED
      BY <1>2, <3>1 DEF PlayerSettles
  <2>6. turn[u] # "none" /\ "final" \in PlayerSteps
    BY <1>2, Created DEF PlayerSteps
  <2> QED
    BY <1>2, <2>1, <2>2, <2>3, <2>4, <2>5, <2>6, PlayerFlags
<1> QED
  BY <1>3, <1>4

LEMMA PlayerVerdictKeeps ==
    ASSUME SpeechIInv, NEW u \in Utterances, PlayerVerdict(u) PROVE SpeechIInv'
<1>1. SpeechShapes /\ UtteranceFacts(u) /\ speech[u] \in SpeechRecords
  BY FieldTypes DEF SpeechIInv
<1>2. /\ at[u].player = "verdict" /\ Goto(u, "player", "final")
      /\ device' = device /\ UNCHANGED <<item, turn, worker, heard, service>>
  BY DEF PlayerVerdict, At, audio
<1> DEFINE Left(q) ==
             /\ speech' = [speech EXCEPT ![u] = q]
             /\ q.committed = speech[u].committed /\ q.born = speech[u].born
             /\ q.playbackId = speech[u].playbackId /\ q.cancelled = speech[u].cancelled
             /\ speech[u].failed => q.failed
             /\ q.outcome = "failed" => q.failed
             /\ q.next = speech[u].next /\ q.queue = speech[u].queue
             /\ q.prepared = speech[u].prepared /\ q.overflow = speech[u].overflow
<1>3. \E q \in SpeechRecords : Left(q)
  <2>1. CASE speech' = [speech EXCEPT ![u].failed = TRUE, ![u].outcome = "failed",
                                      ![u].reported = TRUE]
    <3> PICK q : q = [speech[u] EXCEPT !.failed = TRUE, !.outcome = "failed",
                                       !.reported = TRUE]
      OBVIOUS
    <3>1. speech' = [speech EXCEPT ![u] = q]
      BY <1>1, <2>1 DEF SpeechShapes, SpeechRecords
    <3>2. q \in SpeechRecords
      BY <1>1 DEF SpeechRecords, Outcomes
    <3>3. /\ q.committed = speech[u].committed /\ q.born = speech[u].born
          /\ q.playbackId = speech[u].playbackId /\ q.cancelled = speech[u].cancelled
          /\ q.failed = TRUE
          /\ q.next = speech[u].next /\ q.queue = speech[u].queue
          /\ q.prepared = speech[u].prepared /\ q.overflow = speech[u].overflow
      BY <1>1 DEF SpeechRecords
    <3> QED
      BY <3>1, <3>2, <3>3
  <2>2. ASSUME NEW o \in {"cancelled", "completed"},
               speech' = [speech EXCEPT ![u].outcome = o]
        PROVE  \E q \in SpeechRecords : Left(q)
    <3> PICK q : q = [speech[u] EXCEPT !.outcome = o]
      OBVIOUS
    <3>1. speech' = [speech EXCEPT ![u] = q]
      BY <1>1, <2>2 DEF SpeechShapes, SpeechRecords
    <3>2. q \in SpeechRecords
      BY <1>1, <2>2 DEF SpeechRecords, Outcomes
    <3>3. /\ q.committed = speech[u].committed /\ q.born = speech[u].born
          /\ q.playbackId = speech[u].playbackId /\ q.cancelled = speech[u].cancelled
          /\ q.failed = speech[u].failed /\ q.outcome = o
          /\ q.next = speech[u].next /\ q.queue = speech[u].queue
          /\ q.prepared = speech[u].prepared /\ q.overflow = speech[u].overflow
      BY <1>1 DEF SpeechRecords
    <3>4. o # "failed"
      OBVIOUS
    <3> QED
      BY <3>1, <3>2, <3>3, <3>4
  <2>3. CASE speech' = speech
    <3>1. speech' = [speech EXCEPT ![u] = speech[u]]
      BY <1>1, <2>3 DEF SpeechShapes
    <3>2. speech[u].outcome = "failed" => speech[u].failed
      BY <1>1 DEF UtteranceFacts, MarksLeft
    <3> QED
      BY <1>1, <3>1, <3>2
  <2>4. \/ speech' = [speech EXCEPT ![u].failed = TRUE, ![u].outcome = "failed",
                                   ![u].reported = TRUE]
        \/ speech' = [speech EXCEPT ![u].outcome = "cancelled"]
        \/ speech' = speech
        \/ speech' = [speech EXCEPT ![u].outcome = "completed"]
    BY DEF PlayerVerdict
  <2> HIDE DEF Left
  <2> QED
    BY <2>1, <2>2, <2>3, <2>4
<1>4. PlayerSettles(u)'
  <2>1. worker[u].at # "none" => Settled(u)
    BY <1>1, <1>2 DEF UtteranceFacts, PlayerSettles
  <2>2. Settled(u)' <=> Settled(u)
    BY <1>2 DEF Settled
  <2> QED
    BY <1>2, <2>1, <2>2 DEF PlayerSettles
<1>5. turn[u] # "none" /\ "final" \in PlayerSteps
  BY <1>2, Created DEF PlayerSteps
<1> QED
  BY <1>2, <1>3, <1>4, <1>5, PlayerFlags


LEMMA AppendedKeeps ==
    ASSUME SpeechIInv, NEW u \in Utterances, Appended(u) PROVE SpeechIInv'
<1>1. SpeechShapes /\ UtteranceFacts(u) /\ speech[u] \in SpeechRecords
  BY FieldTypes DEF SpeechIInv
<1>2. at[u].player = "appended" /\ UNCHANGED <<speech, item, turn, worker, heard, service>>
  BY DEF Appended, At
<1>3. speech' = [speech EXCEPT ![u] = speech[u]]
  BY <1>1, <1>2 DEF SpeechShapes
<1>4. CASE IsSet(u)
  <2>1. device' = AbortStream(speech[u].playbackId) /\ Goto(u, "player", "final")
    BY <1>4 DEF Appended
  <2>2. at'[u].player = "final"
    BY <1>1, <2>1, PlayerGoes DEF SpeechShapes, PlayerSteps
  <2>3. item[u].started
    BY <1>1, <1>2 DEF UtteranceFacts, SessionKept
  <2>4. worker[u].at # "none" => Settled(u)'
    BY <1>2, <2>1, <2>3, AbortSettles
  <2>5. PlayerSettles(u)'
    BY <1>2, <2>2, <2>4 DEF PlayerSettles
  <2>6. turn[u] # "none" /\ "final" \in PlayerSteps
    BY <1>2, Created DEF PlayerSteps
  <2>7. speech[u].outcome = "failed" => speech[u].failed
    BY <1>1 DEF UtteranceFacts, MarksLeft
  <2> QED
    BY <1>1, <1>2, <1>3, <2>1, <2>5, <2>6, <2>7, PlayerFlags
<1>5. CASE ~IsSet(u)
  <2>1. device' = device /\ Goto(u, "player", "get")
    BY <1>5 DEF Appended
  <2>2. speech[u].outcome # "failed"
    BY <1>1, <1>5 DEF UtteranceFacts, MarksLeft, IsSet
  <2>3. MayGo(u, "get")
    BY <2>2 DEF MayGo
  <2>4. "get" \in (PlayerSteps \cup AbortSteps) \ {"none", "opened", "dead"}
    BY DEF PlayerSteps
  <2>5. item' \in [Utterances -> ItemRecords] /\ item[u].expected <= device.generation
        /\ item'[u].expected <= device.generation
    BY <1>1, <1>2 DEF SpeechShapes, UtteranceFacts, GenerationsKnown
  <2>6. Len(speech[u].prepared) <= MaxChunks /\ Len(speech[u].queue) <= MaxChunks
    BY <1>1 DEF UtteranceFacts, QueuesBounded
  <2>7. UNCHANGED <<turn, audio, service>>
    BY <1>2, <2>1 DEF audio
  <2> QED
    BY <1>1, <1>2, <1>3, <2>1, <2>3, <2>4, <2>5, <2>6, <2>7, PlayerWalks
<1> QED
  BY <1>4, <1>5

LEMMA PlayerFinalKeeps ==
    ASSUME SpeechIInv, NEW u \in Utterances, PlayerFinal(u) PROVE SpeechIInv'
<1>1. SpeechShapes /\ UtteranceFacts(u) /\ speech[u] \in SpeechRecords
  BY FieldTypes DEF SpeechIInv
<1>2. at[u].player = "final" /\ Goto(u, "player", "complete")
      /\ UNCHANGED <<item, turn, worker, heard, service>>
  BY DEF PlayerFinal, At
<1>3. at'[u].player = "complete"
  BY <1>1, <1>2, PlayerGoes DEF SpeechShapes, PlayerSteps
<1>4. turn[u] # "none" /\ "complete" \in PlayerSteps
  BY <1>2, Created DEF PlayerSteps
<1>5. CASE IsSet(u) /\ speech[u].outcome # "failed"
  <2>1. /\ device' = AbortStream(speech[u].playbackId)
        /\ speech' = [speech EXCEPT ![u].outcome = "cancelled"]
    BY <1>5 DEF PlayerFinal
  <2> PICK q : q = [speech[u] EXCEPT !.outcome = "cancelled"]
    OBVIOUS
  <2>2. speech' = [speech EXCEPT ![u] = q]
    BY <1>1, <2>1 DEF SpeechShapes, SpeechRecords
  <2>3. q \in SpeechRecords
    BY <1>1 DEF SpeechRecords, Outcomes
  <2>4. /\ q.committed = speech[u].committed /\ q.born = speech[u].born
        /\ q.cancelled = speech[u].cancelled /\ q.failed = speech[u].failed
        /\ q.outcome = "cancelled" /\ q.playbackId = speech[u].playbackId
        /\ q.next = speech[u].next /\ q.queue = speech[u].queue
        /\ q.prepared = speech[u].prepared /\ q.overflow = speech[u].overflow
    BY <1>1 DEF SpeechRecords
  <2>5. worker[u].at # "none" => item[u].started
    BY <1>1, <1>2 DEF UtteranceFacts, SessionKept
  <2>6. worker[u].at # "none" => Settled(u)'
    BY <1>2, <2>1, <2>5, AbortSettles
  <2>7. PlayerSettles(u)'
    BY <1>2, <1>3, <2>6 DEF PlayerSettles
  <2> QED
    BY <1>2, <1>4, <2>1, <2>2, <2>3, <2>4, <2>7, PlayerFlags
<1>6. CASE ~(IsSet(u) /\ speech[u].outcome # "failed")
  <2>1. device' = device /\ speech' = speech
    BY <1>6 DEF PlayerFinal
  <2>2. speech' = [speech EXCEPT ![u] = speech[u]]
    BY <1>1, <2>1 DEF SpeechShapes
  <2>3. worker[u].at # "none" => Settled(u)
    BY <1>1, <1>2, <1>6 DEF UtteranceFacts, PlayerSettles
  <2>4. Settled(u)' <=> Settled(u)
    BY <1>2, <2>1 DEF Settled
  <2>5. PlayerSettles(u)'
    BY <1>2, <2>3, <2>4 DEF PlayerSettles
  <2>6. speech[u].outcome = "failed" => speech[u].failed
    BY <1>1 DEF UtteranceFacts, MarksLeft
  <2> QED
    BY <1>1, <1>2, <1>4, <2>1, <2>2, <2>5, <2>6, PlayerFlags
<1> QED
  BY <1>5, <1>6

LEMMA AppendsKeeps ==
    ASSUME SpeechIInv, NEW u \in Utterances, Appends(u) PROVE SpeechIInv'
<1>1. SpeechShapes /\ UtteranceFacts(u) /\ device \in DeviceRecords /\ item[u].player \in Spoken
  BY FieldTypes DEF SpeechIInv, SpeechShapes
<1>2. /\ at[u].player = "append" /\ ~IsSet(u) /\ Len(device.chunks) < MaxDevice
      /\ device' = [device EXCEPT !.chunks = Append(@, item[u].player)]
      /\ Goto(u, "player", "appended") /\ Drop(u, "player")
      /\ UNCHANGED <<speech, turn, worker, heard, service>>
  BY DEF Appends, At, Accepts
<1>3. /\ at' \in [Utterances -> ThreadRecords]
      /\ at'[u].player = "appended" /\ at'[u].synth = at[u].synth
      /\ \A w \in Utterances \ {u} : at'[w] = at[w]
  BY <1>1, <1>2, PlayerGoes DEF SpeechShapes, PlayerSteps
<1>4. /\ item' \in [Utterances -> ItemRecords]
      /\ item'[u].started = item[u].started /\ item'[u].expected = item[u].expected
      /\ \A w \in Utterances \ {u} : item'[w] = item[w]
  BY <1>1, <1>2, Dropped DEF SpeechShapes, Threads
<1> PICK s : s = Append(device.chunks, item[u].player)
  OBVIOUS
<1>5. s \in Seq(Spoken) /\ Len(s) <= MaxDevice
  <2>1. device.chunks \in Seq(Spoken)
    BY <1>1 DEF DeviceRecords
  <2>2. s \in Seq(Spoken) /\ Len(s) = Len(device.chunks) + 1 /\ Len(device.chunks) \in Nat
    BY <1>1, <2>1, Chunked
  <2>3. MaxDevice \in Nat
    BY BoundsAssumption DEF BoundsAssumption
  <2> QED
    BY <1>2, <2>2, <2>3
<1>6. device' = [device EXCEPT !.chunks = s]
  BY <1>2
<1>7. device' \in DeviceRecords
  BY <1>1, <1>5, <1>6 DEF DeviceRecords
<1>8. device'.chunks = s /\ device'.generation = device.generation
      /\ device'.session = device.session /\ device'.finished = device.finished
  BY <1>1, <1>6 DEF DeviceRecords
<1>9. SameSession
  BY <1>5, <1>8 DEF SameSession
<1>10. SpeechShapes'
  BY <1>1, <1>2, <1>3, <1>4, <1>7 DEF SpeechShapes, service
<1>11. OthersStay(u) /\ SameService /\ SameStanding(u)
  BY <1>2, <1>3, <1>4, <1>9 DEF OthersStay, SameService, SameStanding, service
<1>12. QueuesBounded(u)'
  BY <1>1, <1>2, QueuesStill DEF UtteranceFacts
<1>13. item'[u].expected <= device.generation
  BY <1>1, <1>4 DEF UtteranceFacts, GenerationsKnown
<1>14. item[u].started
  BY <1>1, <1>2 DEF UtteranceFacts, SessionKept
<1> QED
  BY <1>2, <1>3, <1>4, <1>10, <1>11, <1>12, <1>13, <1>14, PlayerGoesOn

\* The audio worker goes on in its session.
LEMMA WorkerGoesOn ==
    ASSUME SpeechIInv, NEW u \in Utterances,
           worker[u].at \in {"playing", "drained", "error"},
           worker' \in [Utterances -> WorkerRecords],
           \A w \in Utterances \ {u} : worker'[w] = worker[w],
           worker'[u].at # "none", worker'[u].generation = worker[u].generation,
           heard' \in [Utterances -> Spoken],
           device' \in DeviceRecords, Len(device'.chunks) <= MaxDevice,
           device'.session <= device'.generation, device'.generation = device.generation,
           DeviceGoesOn(u), DeviceServes(u)',
           UNCHANGED <<speech, at, item, turn, service>>
    PROVE  SpeechIInv'
<1>1. SpeechShapes /\ UtteranceFacts(u) /\ DeviceBounded
  BY DEF SpeechIInv
<1>2. SpeechShapes'
  BY <1>1 DEF SpeechShapes, service
<1>3. OthersStay(u) /\ StopGoesOn(u)
  BY DEF OthersStay, StopGoesOn, service
<1>4. DeviceBounded'
  BY <1>1 DEF DeviceBounded, service
<1>5. QueuesBounded(u)'
  BY <1>1 DEF UtteranceFacts, QueuesBounded
<1>6. GenerationsKnown(u)'
  BY <1>1 DEF UtteranceFacts, GenerationsKnown, service
<1>7. turn[u] # "none"
  BY Created
<1>8. MarksLeft(u)'
  BY <1>1, <1>7 DEF UtteranceFacts, MarksLeft, service
<1>9. SessionKept(u)'
  BY <1>1 DEF UtteranceFacts, SessionKept
<1>10. PlayerSettles(u)'
  <2>1. Settled(u) => Settled(u)'
    BY DEF Settled
  <2>2. IsSet(u)' <=> IsSet(u)
    BY DEF IsSet, service
  <2> QED
    BY <1>1, <2>1, <2>2 DEF UtteranceFacts, PlayerSettles
<1>11. ReferenceKept(u)'
  BY <1>1 DEF UtteranceFacts, ReferenceKept, Done, service
<1>12. UtteranceFacts(u)'
  BY <1>5, <1>6, <1>8, <1>9, <1>10, <1>11 DEF UtteranceFacts
<1>13. speechGeneration' = speechGeneration /\ speech' = speech
  BY DEF service
<1>14. /\ worker'[u].generation = worker[u].generation
       /\ worker'[u].at = "none" <=> worker[u].at = "none"
  OBVIOUS
<1> QED
  BY <1>2, <1>3, <1>4, <1>12, <1>13, <1>14, OneGoesOn

LEMMA RenderKeeps ==
    ASSUME SpeechIInv, NEW u \in Utterances, Render(u) PROVE SpeechIInv'
<1>1. SpeechShapes /\ UtteranceFacts(u) /\ DeviceBounded /\ device \in DeviceRecords
      /\ heard \in [Utterances -> Spoken]
  BY DEF SpeechIInv, SpeechShapes
<1>2. /\ worker[u].at = "playing" /\ device.chunks # <<>>
      /\ heard' = [heard EXCEPT ![u] = @ \o Head(device.chunks)]
      /\ device' = [device EXCEPT !.chunks = Tail(@)]
      /\ UNCHANGED <<speech, at, item, turn, worker, service>>
  BY DEF Render
<1> PICK s : s = Tail(device.chunks)
  OBVIOUS
<1> PICK h : h = Head(device.chunks)
  OBVIOUS
<1>3. device.chunks \in Seq(Spoken)
  BY <1>1 DEF DeviceRecords
<1>4. s \in Seq(Spoken) /\ h \in Spoken /\ Len(s) <= MaxDevice
  <2>1. s \in Seq(Spoken) /\ h \in Spoken /\ Len(s) = Len(device.chunks) - 1
        /\ Len(device.chunks) \in Nat
    BY <1>2, <1>3, HeadTailProperties, LenProperties
  <2>2. MaxDevice \in Nat /\ Len(device.chunks) <= MaxDevice
    BY <1>1, BoundsAssumption DEF BoundsAssumption, DeviceBounded
  <2> QED
    BY <2>1, <2>2
<1>5. heard' \in [Utterances -> Spoken]
  <2>1. heard[u] \o h \in Spoken
    BY <1>1, <1>4, Joined DEF Spoken
  <2>2. heard' = [heard EXCEPT ![u] = heard[u] \o h]
    BY <1>2
  <2> QED
    BY <1>1, <2>1, <2>2
<1>6. device' = [device EXCEPT !.chunks = s]
  BY <1>2
<1>7. device' \in DeviceRecords
  BY <1>1, <1>4, <1>6 DEF DeviceRecords
<1>8. device'.chunks = s /\ device'.generation = device.generation
      /\ device'.session = device.session /\ device'.finished = device.finished
  BY <1>1, <1>6 DEF DeviceRecords
<1>9. DeviceGoesOn(u) /\ DeviceServes(u)'
  BY <1>1, <1>2, <1>8 DEF DeviceGoesOn, UtteranceFacts, DeviceServes
<1>10. device'.session <= device'.generation /\ Len(device'.chunks) <= MaxDevice
  BY <1>1, <1>4, <1>8 DEF DeviceBounded
<1>11. worker' \in [Utterances -> WorkerRecords]
  BY <1>1, <1>2 DEF SpeechShapes
<1>12. worker[u].at \in {"playing", "drained", "error"} /\ worker'[u].at # "none"
       /\ worker'[u].generation = worker[u].generation
  BY <1>2
<1>13. \A w \in Utterances \ {u} : worker'[w] = worker[w]
  BY <1>2
<1> QED
  BY <1>2, <1>5, <1>7, <1>8, <1>9, <1>10, <1>11, <1>12, <1>13, WorkerGoesOn

LEMMA RenderEndsKeeps ==
    ASSUME SpeechIInv, NEW u \in Utterances, RenderEnds(u) PROVE SpeechIInv'
<1>1. SpeechShapes /\ UtteranceFacts(u) /\ DeviceBounded /\ device \in DeviceRecords
  BY DEF SpeechIInv, SpeechShapes
<1>2. /\ worker[u].at = "playing"
      /\ UNCHANGED <<speech, at, item, turn, device, heard, service>>
  BY DEF RenderEnds
<1>3. PICK step \in {"drained", "error"} : worker' = [worker EXCEPT ![u].at = step]
  BY DEF RenderEnds
<1>4. /\ worker' \in [Utterances -> WorkerRecords]
      /\ worker'[u].at = step /\ worker'[u].generation = worker[u].generation
      /\ \A w \in Utterances \ {u} : worker'[w] = worker[w]
  BY <1>1, <1>3 DEF SpeechShapes, WorkerRecords
<1>5. DeviceGoesOn(u) /\ DeviceServes(u)'
  BY <1>1, <1>2, <1>4 DEF DeviceGoesOn, UtteranceFacts, DeviceServes
<1>6. /\ worker[u].at \in {"playing", "drained", "error"} /\ worker'[u].at # "none"
      /\ heard' \in [Utterances -> Spoken] /\ device' \in DeviceRecords
      /\ device'.session <= device'.generation /\ Len(device'.chunks) <= MaxDevice
      /\ device'.generation = device.generation
  BY <1>1, <1>2, <1>3, <1>4 DEF SpeechShapes, DeviceBounded
<1> QED
  BY <1>2, <1>4, <1>5, <1>6, WorkerGoesOn


\* A worker's end leaves no session.
LEMMA ForgottenShape ==
    ASSUME device \in DeviceRecords, NEW e \in Seq(Spoken), NEW d,
           d = [device EXCEPT !.session = 0, !.chunks = e, !.closed = TRUE]
    PROVE  /\ d \in DeviceRecords /\ d.generation = device.generation
           /\ d.finished = device.finished /\ d.session = 0 /\ d.chunks = e
<1>1. d.generation = device.generation /\ d.finished = device.finished
      /\ d.session = 0 /\ d.chunks = e
  BY DEF DeviceRecords
<1>2. d \in DeviceRecords
  BY DEF DeviceRecords
<1> QED
  BY <1>1, <1>2

\* ... if it has not been replaced.
LEMMA EndedShape ==
    ASSUME device \in DeviceRecords, DeviceBounded, NEW g \in Nat, NEW d,
           d = IF device.session = g
               THEN [device EXCEPT !.session = 0, !.chunks = <<>>, !.closed = TRUE]
               ELSE device
    PROVE  /\ d \in DeviceRecords /\ d.generation = device.generation
           /\ d.finished = device.finished
           /\ d.session <= device.generation /\ Len(d.chunks) <= MaxDevice
           /\ device.session # g => d.session = device.session
<1>1. MaxDevice \in Nat /\ device.generation \in Nat /\ device.session \in Nat
  BY BoundsAssumption DEF BoundsAssumption, DeviceRecords
<1>2. CASE device.session = g
  <2>1. <<>> \in Seq(Spoken) /\ Len(<<>>) = 0
    BY EmptySeq
  <2>2. d = [device EXCEPT !.session = 0, !.chunks = <<>>, !.closed = TRUE]
    BY <1>2
  <2>3. /\ d \in DeviceRecords /\ d.generation = device.generation
        /\ d.finished = device.finished /\ d.session = 0 /\ d.chunks = <<>>
    BY <2>1, <2>2, ForgottenShape, Zenon
  <2> QED
    BY <1>1, <1>2, <2>1, <2>3
<1>3. CASE device.session # g
  BY <1>3 DEF DeviceBounded
<1> QED
  BY <1>2, <1>3

\* Whoever ends a session tells the provider, if it is still the session it has.
LEMMA WorkerEndsKeeps ==
    ASSUME SpeechIInv, NEW u \in Utterances, WorkerEnds(u) PROVE SpeechIInv'
<1>1. SpeechShapes /\ UtteranceFacts(u) /\ DeviceBounded /\ device \in DeviceRecords
  BY DEF SpeechIInv, SpeechShapes
<1>2. /\ worker[u].at \in {"drained", "error"}
      /\ UNCHANGED <<speech, at, item, turn, heard, service>>
  BY DEF WorkerEnds
<1> DEFINE g == worker[u].generation
           result == IF SessionRetired(u) THEN "cancelled"
                     ELSE IF worker[u].at = "drained" THEN "completed" ELSE "failed"
<1>3. worker' = [worker EXCEPT ![u].at = "dead", ![u].verdict = result]
  BY DEF WorkerEnds
<1>4. result \in {"none", "completed", "cancelled", "failed"}
  OBVIOUS
<1> HIDE DEF result
<1>5. /\ worker' \in [Utterances -> WorkerRecords]
      /\ worker'[u].at = "dead" /\ worker'[u].generation = g
      /\ \A w \in Utterances \ {u} : worker'[w] = worker[w]
  BY <1>1, <1>3, <1>4 DEF SpeechShapes, WorkerRecords
<1> PICK d : d = IF device.session = g
                 THEN [device EXCEPT !.session = 0, !.chunks = <<>>, !.closed = TRUE]
                 ELSE device
  OBVIOUS
<1>7. device' = IF g = device.generation THEN [d EXCEPT !.finished = TRUE] ELSE d
  BY DEF WorkerEnds
<1>8. g \in Nat
  BY <1>1 DEF SpeechShapes, WorkerRecords
<1>9. /\ d \in DeviceRecords /\ d.generation = device.generation
      /\ d.finished = device.finished
      /\ d.session <= device.generation /\ Len(d.chunks) <= MaxDevice
      /\ device.session # g => d.session = device.session
  BY <1>1, <1>8, EndedShape
<1>10. /\ device' \in DeviceRecords /\ device'.generation = d.generation
       /\ device'.session = d.session /\ device'.chunks = d.chunks
       /\ g # device.generation => device'.finished = d.finished
  <2>1. CASE g = device.generation
    <3>1. device' = [d EXCEPT !.finished = TRUE]
      BY <1>7, <2>1
    <3>2. device' \in DeviceRecords
      BY <1>9, <3>1 DEF DeviceRecords
    <3>3. device'.generation = d.generation /\ device'.session = d.session
          /\ device'.chunks = d.chunks
      BY <1>9, <3>1 DEF DeviceRecords
    <3> QED
      BY <2>1, <3>2, <3>3
  <2>2. CASE g # device.generation
    BY <1>7, <1>9, <2>2
  <2> QED
    BY <2>1, <2>2
<1>11. DeviceGoesOn(u)
  <2>1. ASSUME NEW w \in Utterances \ {u}, Serving(w)
        PROVE  device'.session = device.session /\ device'.finished = device.finished
    <3>1. UtteranceFacts(w) /\ w \in Utterances
      BY DEF SpeechIInv
    <3>2. worker[w].generation = device.generation /\ worker[w].at # "none"
          /\ device.session = device.generation
      BY <2>1, <3>1 DEF Serving, UtteranceFacts, DeviceServes
    <3>3. g # worker[w].generation
      BY <1>2, <2>1, <3>1, <3>2 DEF SpeechIInv, SessionsApart
    <3> QED
      BY <1>9, <1>10, <3>2, <3>3
  <2> QED
    BY <1>9, <1>10, <2>1 DEF DeviceGoesOn
<1>12. DeviceServes(u)'
  BY <1>5 DEF DeviceServes
<1>13. /\ worker[u].at \in {"playing", "drained", "error"} /\ worker'[u].at # "none"
       /\ heard' \in [Utterances -> Spoken]
       /\ device'.session <= device'.generation /\ Len(device'.chunks) <= MaxDevice
       /\ device'.generation = device.generation
  BY <1>1, <1>2, <1>5, <1>9, <1>10 DEF SpeechShapes
<1> QED
  BY <1>2, <1>5, <1>10, <1>11, <1>12, <1>13, WorkerGoesOn

LEMMA CompleteKeeps ==
    ASSUME SpeechIInv, NEW u \in Utterances, Complete(u) PROVE SpeechIInv'
<1>1. SpeechShapes /\ UtteranceFacts(u) /\ DeviceBounded /\ u # 0
  BY DEF SpeechIInv, Utterances
<1>2. /\ at[u].player = "complete" /\ Goto(u, "player", "dead")
      /\ streaming' = IF streaming = u THEN 0 ELSE streaming
      /\ UNCHANGED <<speech, item, turn, worker, device, heard, speechGeneration, stop>>
  BY DEF Complete, At, audio
<1>3. /\ at' \in [Utterances -> ThreadRecords]
      /\ at'[u].player = "dead" /\ at'[u].synth = at[u].synth
      /\ \A w \in Utterances \ {u} : at'[w] = at[w]
  BY <1>1, <1>2, PlayerGoes DEF SpeechShapes, PlayerSteps
<1>4. streaming' \in 0..MaxUtterances
  BY <1>1, <1>2, BoundsAssumption DEF SpeechShapes, BoundsAssumption
<1>5. SpeechShapes'
  BY <1>1, <1>2, <1>3, <1>4 DEF SpeechShapes
<1>6. OthersStay(u) /\ StopGoesOn(u) /\ DeviceGoesOn(u)
  <2>1. \A w \in Utterances \ {u} : (streaming' = w) <=> (streaming = w)
    BY <1>2 DEF Utterances
  <2> QED
    BY <1>2, <1>3, <2>1 DEF OthersStay, StopGoesOn, DeviceGoesOn
<1>7. DeviceBounded'
  BY <1>1, <1>2 DEF DeviceBounded
<1>8. turn[u] # "none"
  BY <1>2, Created
<1>9. QueuesBounded(u)'
  BY <1>1, <1>2 DEF UtteranceFacts, QueuesBounded
<1>10. GenerationsKnown(u)'
  BY <1>1, <1>2 DEF UtteranceFacts, GenerationsKnown
<1>11. MarksLeft(u)'
  BY <1>1, <1>2, <1>3, <1>8 DEF UtteranceFacts, MarksLeft, Threads
<1>12. SessionKept(u)'
  BY <1>1, <1>2, <1>3 DEF UtteranceFacts, SessionKept
<1>13. DeviceServes(u)'
  BY <1>1, <1>2 DEF UtteranceFacts, DeviceServes
<1>14. PlayerSettles(u)'
  <2>1. worker[u].at # "none" => Settled(u)
    BY <1>1, <1>2 DEF UtteranceFacts, PlayerSettles
  <2>2. Settled(u)' <=> Settled(u)
    BY <1>2 DEF Settled
  <2> QED
    BY <1>2, <2>1, <2>2 DEF PlayerSettles
<1>15. ReferenceKept(u)'
  BY <1>3 DEF ReferenceKept, Done
<1>16. UtteranceFacts(u)'
  BY <1>9, <1>10, <1>11, <1>12, <1>13, <1>14, <1>15 DEF UtteranceFacts
<1> QED
  BY <1>2, <1>5, <1>6, <1>7, <1>16, OneGoesOn

LEMMA OpenedKeeps ==
    ASSUME SpeechIInv, NEW u \in Utterances, Opened(u) PROVE SpeechIInv'
<1>1. SpeechShapes /\ UtteranceFacts(u) /\ DeviceBounded /\ speech[u] \in SpeechRecords
      /\ item[u] \in ItemRecords /\ worker[u].generation \in Nat
  BY FieldTypes DEF SpeechIInv
<1>2. /\ at[u].player = "opened" /\ Goto(u, "player", "appended")
      /\ item' = [item EXCEPT ![u].started = TRUE]
      /\ UNCHANGED <<turn, worker, device, heard, streaming, speechGeneration, stop>>
  BY DEF Opened, At, audio, service
<1>3. /\ at' \in [Utterances -> ThreadRecords]
      /\ at'[u].player = "appended" /\ at'[u].synth = at[u].synth
      /\ \A w \in Utterances \ {u} : at'[w] = at[w]
  BY <1>1, <1>2, PlayerGoes DEF SpeechShapes, PlayerSteps
<1>4. /\ item' \in [Utterances -> ItemRecords]
      /\ item'[u].started = TRUE /\ item'[u].expected = item[u].expected
      /\ \A w \in Utterances \ {u} : item'[w] = item[w]
  BY <1>1, <1>2 DEF SpeechShapes, ItemRecords
<1> PICK q : q = [speech[u] EXCEPT !.playbackId = worker[u].generation]
  OBVIOUS
<1>5. speech' = [speech EXCEPT ![u] = q]
  BY <1>1 DEF Opened, SpeechShapes, SpeechRecords
<1>6. q \in SpeechRecords
  BY <1>1 DEF SpeechRecords
<1>7. /\ q.committed = speech[u].committed /\ q.born = speech[u].born
      /\ q.cancelled = speech[u].cancelled /\ q.failed = speech[u].failed
      /\ q.outcome = speech[u].outcome /\ q.playbackId = worker[u].generation
      /\ q.next = speech[u].next /\ q.queue = speech[u].queue
      /\ q.prepared = speech[u].prepared /\ q.overflow = speech[u].overflow
  BY <1>1 DEF SpeechRecords
<1>8. speech' \in [Utterances -> SpeechRecords] /\ speech'[u] = q
      /\ \A w \in Utterances \ {u} : speech'[w] = speech[w]
  BY <1>1, <1>5, <1>6 DEF SpeechShapes
<1>9. SpeechShapes'
  BY <1>1, <1>2, <1>3, <1>4, <1>8 DEF SpeechShapes
<1>10. OthersStay(u) /\ StopGoesOn(u) /\ DeviceGoesOn(u)
  BY <1>2, <1>3, <1>4, <1>8 DEF OthersStay, StopGoesOn, DeviceGoesOn
<1>11. DeviceBounded'
  BY <1>1, <1>2 DEF DeviceBounded
<1>12. turn[u] # "none" /\ worker[u].at # "none"
  BY <1>1, <1>2, Created DEF UtteranceFacts, SessionKept
<1>13. QueuesBounded(u)'
  BY <1>1, <1>2, <1>7, <1>8 DEF UtteranceFacts, QueuesBounded
<1>14. GenerationsKnown(u)'
  BY <1>1, <1>2, <1>4, <1>7, <1>8 DEF UtteranceFacts, GenerationsKnown
<1>15. MarksLeft(u)'
  BY <1>1, <1>2, <1>3, <1>7, <1>8, <1>12 DEF UtteranceFacts, MarksLeft, Threads
<1>16. SessionKept(u)'
  BY <1>1, <1>2, <1>3, <1>4, <1>7, <1>8, <1>12 DEF UtteranceFacts, SessionKept
<1>17. DeviceServes(u)'
  BY <1>1, <1>2 DEF UtteranceFacts, DeviceServes
<1>18. PlayerSettles(u)'
  BY <1>3 DEF PlayerSettles
<1>19. ReferenceKept(u)'
  BY <1>1, <1>2, <1>3, <1>7, <1>8 DEF UtteranceFacts, ReferenceKept, Done
<1>20. UtteranceFacts(u)'
  BY <1>13, <1>14, <1>15, <1>16, <1>17, <1>18, <1>19 DEF UtteranceFacts
<1>21. speech'[u].born = speech[u].born /\ speech'[u].cancelled = speech[u].cancelled
  BY <1>7, <1>8
<1> QED
  BY <1>2, <1>9, <1>10, <1>11, <1>20, <1>21, OneGoesOn


LEMMA BeginKeeps ==
    ASSUME SpeechIInv, NEW u \in Utterances, Begin(u) PROVE SpeechIInv'
<1>1. SpeechShapes /\ UtteranceFacts(u) /\ DeviceBounded /\ item[u].player \in Spoken
      /\ device.generation \in Nat /\ device.session \in Nat /\ stop.seen \in Nat
  BY FieldTypes DEF SpeechIInv, SpeechShapes, DeviceRecords, StopRecords
<1> PICK g : g = device.generation + 2
  OBVIOUS
<1>2. g \in Nat /\ g > device.generation /\ g # 0
  BY <1>1
<1>3. /\ at[u].player = "begin" /\ Goto(u, "player", "opened") /\ Drop(u, "player")
      /\ UNCHANGED <<speech, turn, heard, streaming, speechGeneration, stop>>
  BY DEF Begin, At, service
<1>4. /\ device' \in DeviceRecords /\ device'.generation = g /\ device'.session = g
      /\ Len(device'.chunks) <= MaxDevice /\ ~device'.finished
  <2>1. device' = [generation |-> g, session |-> g, chunks |-> <<item[u].player>>,
                   closed |-> FALSE, stopped |-> FALSE, finished |-> FALSE]
    BY DEF Begin
  <2> PICK e : e = <<item[u].player>>
    OBVIOUS
  <2>2. e \in Seq(Spoken) /\ Len(e) = 1
    BY <1>1, Short
  <2>3. MaxDevice \in Nat \ {0}
    BY BoundsAssumption DEF BoundsAssumption
  <2>4. device' = [generation |-> g, session |-> g, chunks |-> e,
                   closed |-> FALSE, stopped |-> FALSE, finished |-> FALSE]
    BY <2>1
  <2>5. /\ device'.generation = g /\ device'.session = g /\ device'.chunks = e
        /\ ~device'.finished
    BY <2>4
  <2>6. device' \in DeviceRecords
    BY <1>2, <2>2, <2>4 DEF DeviceRecords
  <2> QED
    BY <2>2, <2>3, <2>5, <2>6
<1>5. worker' = [worker EXCEPT ![u].at = "playing", ![u].generation = g]
  BY DEF Begin
<1>6. /\ worker' \in [Utterances -> WorkerRecords]
      /\ worker'[u].at = "playing" /\ worker'[u].generation = g
      /\ \A w \in Utterances \ {u} : worker'[w] = worker[w]
  BY <1>1, <1>2, <1>5 DEF SpeechShapes, WorkerRecords
<1>7. /\ at' \in [Utterances -> ThreadRecords]
      /\ at'[u].player = "opened" /\ at'[u].synth = at[u].synth
      /\ \A w \in Utterances \ {u} : at'[w] = at[w]
  BY <1>1, <1>3, PlayerGoes DEF SpeechShapes, PlayerSteps
<1>8. /\ item' \in [Utterances -> ItemRecords]
      /\ item'[u].started = item[u].started /\ item'[u].expected = item[u].expected
      /\ \A w \in Utterances \ {u} : item'[w] = item[w]
  BY <1>1, <1>3, Dropped DEF SpeechShapes, Threads
<1>9. SpeechShapes'
  BY <1>1, <1>3, <1>4, <1>6, <1>7, <1>8 DEF SpeechShapes
<1>10. OthersStay(u) /\ StopGoesOn(u) /\ DeviceGoesOn(u)
  BY <1>2, <1>3, <1>4, <1>6, <1>7, <1>8 DEF OthersStay, StopGoesOn, DeviceGoesOn
<1>11. DeviceBounded'
  BY <1>1, <1>2, <1>3, <1>4 DEF DeviceBounded
<1>12. turn[u] # "none" /\ ~item[u].started
  BY <1>1, <1>3, Created DEF UtteranceFacts, SessionKept
<1>13. QueuesBounded(u)'
  BY <1>1, <1>3 DEF UtteranceFacts, QueuesBounded
<1>14. GenerationsKnown(u)'
  <2>1. speech[u].playbackId \in Nat /\ item[u].expected \in Nat
    BY <1>1, FieldTypes
  <2> QED
    BY <1>1, <1>2, <1>3, <1>4, <1>6, <1>8, <2>1 DEF UtteranceFacts, GenerationsKnown
<1>15. MarksLeft(u)'
  BY <1>1, <1>3, <1>7, <1>12 DEF UtteranceFacts, MarksLeft, Threads
<1>16. SessionKept(u)'
  BY <1>1, <1>2, <1>3, <1>6, <1>7, <1>8, <1>12 DEF UtteranceFacts, SessionKept
<1>17. DeviceServes(u)'
  BY <1>4 DEF DeviceServes
<1>18. PlayerSettles(u)'
  BY <1>7 DEF PlayerSettles
<1>19. ReferenceKept(u)'
  BY <1>1, <1>3, <1>7 DEF UtteranceFacts, ReferenceKept, Done
<1>20. UtteranceFacts(u)'
  BY <1>13, <1>14, <1>15, <1>16, <1>17, <1>18, <1>19 DEF UtteranceFacts
<1>21. /\ worker'[u].generation > device.generation
       /\ speech'[u].born = speech[u].born
       /\ speech[u].cancelled /\ stop.queue = u => speech'[u].cancelled
       /\ speechGeneration' = speechGeneration
  BY <1>2, <1>3, <1>6
<1> QED
  BY <1>9, <1>10, <1>11, <1>20, <1>21, OneGoesOn


\* The fields of a queue before its utterance starts.
LEMMA FreshTyped ==
    /\ Fresh \in SpeechRecords
    /\ Fresh.queue = <<>> /\ Fresh.prepared = <<>> /\ Fresh.overflow = <<>>
    /\ ~Fresh.committed /\ ~Fresh.cancelled /\ ~Fresh.failed
    /\ Fresh.playbackId = 0 /\ Fresh.born = 0 /\ Fresh.outcome = "none"
<1> PICK e : e = <<>>
  OBVIOUS
<1>1. e \in Seq(Spoken \ {STOP}) /\ e \in Spoken /\ e \in Seq(Spoken)
  BY EmptySeq DEF Spoken
<1>2. 0 \in 0..MaxUnits /\ 0 \in 0..MaxStops
  BY BoundsAssumption DEF BoundsAssumption
<1>3. Fresh = [committed |-> FALSE, born |-> 0, queue |-> e, overflow |-> e,
               prepared |-> e, next |-> 0, cancelled |-> FALSE, closed |-> FALSE,
               failed |-> FALSE, outcome |-> "none", playbackId |-> 0, reported |-> FALSE]
  BY DEF Fresh
<1>4. Fresh \in SpeechRecords
  BY <1>1, <1>2, <1>3 DEF SpeechRecords, Outcomes
<1>5. /\ Fresh.queue = e /\ Fresh.prepared = e /\ Fresh.overflow = e
      /\ ~Fresh.committed /\ ~Fresh.cancelled /\ ~Fresh.failed
      /\ Fresh.playbackId = 0 /\ Fresh.born = 0 /\ Fresh.outcome = "none"
  BY DEF Fresh
<1> QED
  BY <1>4, <1>5

\* A queue as it is created.
FreshQueue(c, b) ==
    [Fresh EXCEPT !.committed = c, !.born = b, !.outcome = "pending"]

LEMMA FreshShape ==
    ASSUME NEW c \in BOOLEAN, NEW b \in 0..MaxStops
    PROVE  /\ FreshQueue(c, b) \in SpeechRecords
           /\ FreshQueue(c, b).committed = c /\ FreshQueue(c, b).born = b
           /\ FreshQueue(c, b).outcome = "pending" /\ FreshQueue(c, b).playbackId = 0
           /\ FreshQueue(c, b).queue = <<>> /\ FreshQueue(c, b).prepared = <<>>
           /\ FreshQueue(c, b).overflow = <<>>
           /\ ~FreshQueue(c, b).cancelled /\ ~FreshQueue(c, b).failed
<1>1. Fresh \in SpeechRecords
  BY FreshTyped
<1>2. FreshQueue(c, b) =
          [Fresh EXCEPT !.committed = c, !.born = b, !.outcome = "pending"]
  BY DEF FreshQueue
<1>3. FreshQueue(c, b) \in SpeechRecords
  BY <1>1, <1>2 DEF SpeechRecords, Outcomes
<1>4. /\ FreshQueue(c, b).committed = c /\ FreshQueue(c, b).born = b
      /\ FreshQueue(c, b).outcome = "pending"
      /\ FreshQueue(c, b).playbackId = Fresh.playbackId
      /\ FreshQueue(c, b).queue = Fresh.queue /\ FreshQueue(c, b).prepared = Fresh.prepared
      /\ FreshQueue(c, b).overflow = Fresh.overflow
      /\ FreshQueue(c, b).cancelled = Fresh.cancelled
      /\ FreshQueue(c, b).failed = Fresh.failed
  BY <1>1, <1>2 DEF SpeechRecords
<1> QED
  BY <1>3, <1>4, FreshTyped

\* An utterance starts, and the service refers to it.
LEMMA StartKeeps ==
    ASSUME SpeechIInv, NEW u \in Utterances, Start(u) PROVE SpeechIInv'
<1>1. SpeechShapes /\ UtteranceFacts(u) /\ DeviceBounded /\ u # 0 /\ u \in 0..MaxUtterances
  BY BoundsAssumption DEF SpeechIInv, Utterances, BoundsAssumption
<1>2. /\ turn[u] = "none" /\ streaming = 0 /\ streaming' = u
      /\ at' = [at EXCEPT ![u] = [synth |-> "get", player |-> "get"]]
      /\ UNCHANGED <<item, worker, device, heard, speechGeneration, stop>>
  BY DEF Start, audio
<1>3. PICK c \in BOOLEAN :
          /\ speech' = [speech EXCEPT ![u] = [Fresh EXCEPT !.committed = c,
                            !.born = speechGeneration, !.outcome = "pending"]]
          /\ turn' = [turn EXCEPT ![u] = IF c THEN "over" ELSE "idle"]
  BY BoundsAssumption DEF Start, BoundsAssumption
<1>4. speechGeneration \in 0..MaxStops
  BY <1>1 DEF SpeechShapes
<1> PICK q : q = FreshQueue(c, speechGeneration)
  OBVIOUS
<1>5. /\ q \in SpeechRecords
      /\ q.committed = c /\ q.born = speechGeneration
      /\ q.outcome = "pending" /\ q.playbackId = 0
      /\ q.queue = <<>> /\ q.prepared = <<>> /\ q.overflow = <<>>
      /\ ~q.cancelled /\ ~q.failed
  BY <1>4, FreshShape
<1>6. /\ speech' \in [Utterances -> SpeechRecords] /\ speech'[u] = q
      /\ \A w \in Utterances \ {u} : speech'[w] = speech[w]
  <2>1. speech' = [speech EXCEPT ![u] = q]
    BY <1>3 DEF FreshQueue
  <2> QED
    BY <1>1, <1>5, <2>1 DEF SpeechShapes
<1>7. /\ turn' \in [Utterances -> TurnPlaces]
      /\ turn'[u] = IF c THEN "over" ELSE "idle"
      /\ \A w \in Utterances \ {u} : turn'[w] = turn[w]
  BY <1>1, <1>3 DEF SpeechShapes, TurnPlaces
<1>8. /\ at' \in [Utterances -> ThreadRecords]
      /\ at'[u].player = "get" /\ at'[u].synth = "get"
      /\ \A w \in Utterances \ {u} : at'[w] = at[w]
  BY <1>1, <1>2 DEF SpeechShapes, ThreadRecords, SynthSteps, PlayerSteps
<1>9. SpeechShapes'
  BY <1>1, <1>2, <1>6, <1>7, <1>8 DEF SpeechShapes
<1>10. OthersStay(u) /\ StopGoesOn(u) /\ DeviceGoesOn(u)
  <2>1. \A w \in Utterances \ {u} : w # 0
    BY DEF Utterances
  <2> QED
    BY <1>2, <1>6, <1>7, <1>8, <2>1 DEF OthersStay, StopGoesOn, DeviceGoesOn
<1>11. DeviceBounded'
  BY <1>1, <1>2 DEF DeviceBounded
<1>12. /\ worker[u].at = "none" /\ ~item[u].started /\ stop.queue # u
       /\ worker[u].generation = 0
  BY <1>1, <1>2 DEF UtteranceFacts, MarksLeft, SessionKept
<1>13. QueuesBounded(u)'
  <2>1. Len(<<>>) = 0 /\ MaxChunks \in Nat
    BY EmptySeq, BoundsAssumption DEF BoundsAssumption
  <2>2. turn'[u] # "submitting" /\ (turn'[u] = "idle" => ~c)
    BY <1>7
  <2>3. Len(q.queue) <= MaxChunks /\ Len(q.prepared) <= MaxChunks
    BY <1>5, <2>1
  <2> QED
    BY <1>5, <1>6, <2>2, <2>3 DEF QueuesBounded
<1>14. GenerationsKnown(u)'
  <2>1. device.generation \in Nat /\ speechGeneration \in Nat
    BY <1>1, <1>4, FieldTypes
  <2> QED
    BY <1>1, <1>2, <1>5, <1>6, <2>1 DEF UtteranceFacts, GenerationsKnown
<1>15. MarksLeft(u)'
  <2>1. turn'[u] # "stop" /\ turn'[u] # "none"
    BY <1>7
  <2> QED
    BY <1>5, <1>6, <1>8, <2>1 DEF MarksLeft, Threads
<1>16. SessionKept(u)'
  BY <1>2, <1>5, <1>6, <1>8, <1>12 DEF SessionKept
<1>17. DeviceServes(u)'
  BY <1>2, <1>12 DEF DeviceServes
<1>18. PlayerSettles(u)'
  BY <1>2, <1>12 DEF PlayerSettles
<1>19. ReferenceKept(u)'
  BY <1>2 DEF ReferenceKept
<1>20. UtteranceFacts(u)'
  BY <1>13, <1>14, <1>15, <1>16, <1>17, <1>18, <1>19 DEF UtteranceFacts
<1>21. /\ worker'[u].generation = worker[u].generation
       /\ worker'[u].at = "none" <=> worker[u].at = "none"
       /\ worker'[u].at = "none"
       /\ speech[u].cancelled /\ stop.queue = u => speech'[u].cancelled
       /\ speechGeneration' = speechGeneration
  BY <1>2, <1>12
<1> QED
  BY <1>9, <1>10, <1>11, <1>20, <1>21, OneGoesOn

-----------------------------------------------------------------------------
(* The invariant holds of every behaviour.                                 *)

LEMMA InitSpeech ==
    ASSUME Init PROVE SpeechIInv
<1> PICK e : e = <<>>
  OBVIOUS
<1>1. e \in Seq(Spoken \ {STOP}) /\ e \in Spoken /\ e \in Seq(Spoken) /\ Len(e) = 0
  BY EmptySeq DEF Spoken
<1>2. /\ 0 \in 0..MaxUnits /\ 0 \in 0..MaxStops /\ 0 \in 0..MaxUtterances
      /\ MaxChunks \in Nat /\ MaxDevice \in Nat
  BY BoundsAssumption DEF BoundsAssumption
<1>3. Fresh \in SpeechRecords
  BY FreshTyped
<1>4. /\ Fresh.queue = e /\ Fresh.prepared = e /\ ~Fresh.committed /\ Fresh.playbackId = 0
      /\ Fresh.born = 0 /\ Fresh.outcome = "none"
  BY FreshTyped
<1>5. ASSUME NEW u \in Utterances
      PROVE  /\ speech[u] = Fresh /\ at[u] = [synth |-> "none", player |-> "none"]
             /\ item[u].expected = 0 /\ ~item[u].started /\ turn[u] = "none"
             /\ worker[u] = [at |-> "none", generation |-> 0, verdict |-> "none"]
             /\ u # 0
  BY DEF Init, Utterances
<1>6. device = [generation |-> 0, session |-> 0, chunks |-> e, closed |-> FALSE,
                stopped |-> FALSE, finished |-> TRUE]
  BY DEF Init
<1>7. /\ streaming = 0 /\ speechGeneration = 0 /\ stop = NoStop
      /\ device.generation = 0 /\ device.session = 0 /\ device.chunks = e
  BY <1>6 DEF Init
<1>8. SpeechShapes
  <2>1. speech \in [Utterances -> SpeechRecords]
    BY <1>3 DEF Init
  <2>2. at \in [Utterances -> ThreadRecords]
    BY DEF Init, ThreadRecords, SynthSteps, PlayerSteps
  <2>3. item \in [Utterances -> ItemRecords]
    <3>1. item = [u \in Utterances |->
                     [synth |-> e, player |-> e, expected |-> 0, started |-> FALSE]]
      BY DEF Init
    <3>2. [synth |-> e, player |-> e, expected |-> 0, started |-> FALSE] \in ItemRecords
      BY <1>1 DEF ItemRecords
    <3> QED
      BY <3>1, <3>2
  <2>4. turn \in [Utterances -> TurnPlaces] /\ worker \in [Utterances -> WorkerRecords]
    BY DEF Init, TurnPlaces, WorkerRecords
  <2>5. device \in DeviceRecords
    BY <1>1, <1>6 DEF DeviceRecords
  <2>6. heard \in [Utterances -> Spoken]
    BY <1>1 DEF Init
  <2>7. stop \in StopRecords /\ streaming \in 0..MaxUtterances /\ speechGeneration \in 0..MaxStops
    BY <1>2, <1>7 DEF StopRecords, NoStop
  <2> QED
    BY <2>1, <2>2, <2>3, <2>4, <2>5, <2>6, <2>7 DEF SpeechShapes
<1>9. ASSUME NEW u \in Utterances PROVE UtteranceFacts(u)
  <2>1. /\ speech[u] = Fresh /\ at[u].player = "none" /\ at[u].synth = "none"
        /\ worker[u].at = "none" /\ worker[u].generation = 0
    BY <1>5
  <2>2. QueuesBounded(u)
    BY <1>1, <1>2, <1>4, <1>5, <2>1 DEF QueuesBounded
  <2>3. GenerationsKnown(u) /\ MarksLeft(u) /\ SessionKept(u)
    BY <1>4, <1>5, <1>7, <2>1 DEF GenerationsKnown, MarksLeft, SessionKept, Threads, NoStop
  <2>4. DeviceServes(u) /\ PlayerSettles(u) /\ ReferenceKept(u)
    BY <1>5, <2>1 DEF DeviceServes, PlayerSettles, ReferenceKept
  <2> QED
    BY <2>2, <2>3, <2>4 DEF UtteranceFacts
<1>10. DeviceBounded
  BY <1>1, <1>2, <1>7 DEF DeviceBounded, NoStop
<1>11. SessionsApart /\ StopIsEarlier
  BY <1>5, <1>7 DEF SessionsApart, StopIsEarlier, NoStop
<1> QED
  BY <1>8, <1>9, <1>10, <1>11 DEF SpeechIInv

\* Nothing happens to an utterance outside its own threads, its turn and the stops.
LEMMA SpeechStays ==
    ASSUME SpeechIInv, UNCHANGED vars PROVE SpeechIInv'
<1>1. /\ speech' = speech /\ at' = at /\ item' = item /\ turn' = turn /\ worker' = worker
      /\ device' = device /\ heard' = heard /\ streaming' = streaming
      /\ speechGeneration' = speechGeneration /\ stop' = stop
  BY DEF vars
<1>2. SpeechShapes'
  BY <1>1 DEF SpeechIInv, SpeechShapes
<1>3. \A u \in Utterances : UtteranceFacts(u)'
  BY <1>1 DEF SpeechIInv, UtteranceFacts, QueuesBounded, GenerationsKnown, MarksLeft,
              SessionKept, DeviceServes, PlayerSettles, ReferenceKept, Settled, IsSet, Done
<1>4. DeviceBounded' /\ SessionsApart' /\ StopIsEarlier'
  BY <1>1 DEF SpeechIInv, DeviceBounded, SessionsApart, StopIsEarlier
<1> QED
  BY <1>2, <1>3, <1>4 DEF SpeechIInv

LEMMA SpeechInductive ==
    ASSUME SpeechIInv, [Next]_vars PROVE SpeechIInv'
<1>1. CASE StopDetaches
  BY <1>1, StopDetachesKeeps
<1>2. CASE Stopping
  BY <1>2, StopCancelsKeeps, StopAbortsKeeps DEF Stopping
<1>3. ASSUME NEW u \in Utterances, Start(u) PROVE SpeechIInv'
  BY <1>3, StartKeeps
<1>4. ASSUME NEW u \in Utterances, Producer(u) PROVE SpeechIInv'
  BY <1>4, EnqueueKeeps, SubmitKeeps, CloseKeeps, TurnFailsKeeps, TurnCancelsKeeps,
     TurnStopsKeeps, FeedKeeps, FeedEndsKeeps DEF Producer
<1>5. ASSUME NEW u \in Utterances, Synthesize(u) PROVE SpeechIInv'
  BY <1>5, SynthTakesKeeps, SynthTimesOutKeeps, SynthTakesOverflowKeeps, SynthEndsKeeps,
     SynthPreparesKeeps, SynthPutsKeeps, SynthStopsKeeps, SynthRetiredKeeps DEF Synthesize
<1>6. ASSUME NEW u \in Utterances, NEW t \in Threads, Abort(u, t) PROVE SpeechIInv'
  BY <1>6, AbortFailsKeeps, AbortReportsKeeps, AbortClearsKeeps, AbortEndsKeeps DEF Abort
<1>7. ASSUME NEW u \in Utterances, Play(u) PROVE SpeechIInv'
  BY <1>7, PlayerTakesKeeps, PlayerRetiredKeeps, PlayerEndsKeeps, PlayerDrainedKeeps,
     PlayerVerdictKeeps, PlayerDispatchesKeeps, BeginKeeps, OpenedKeeps, AppendsKeeps,
     AppendedKeeps, RefusedKeeps, PlayerAbortsKeeps, PlayerFinalKeeps, CompleteKeeps DEF Play
<1>8. ASSUME NEW u \in Utterances, Worker(u) PROVE SpeechIInv'
  BY <1>8, RenderKeeps, RenderEndsKeeps, WorkerEndsKeeps DEF Worker
<1>9. CASE UNCHANGED vars
  BY <1>9, SpeechStays
<1> QED
  BY <1>1, <1>2, <1>3, <1>4, <1>5, <1>6, <1>7, <1>8, <1>9 DEF Next


\* Types, and the bounds of the queues and of the generations.
LEMMA SpeechImpliesTypes ==
    ASSUME SpeechIInv PROVE TypeOK
<1>1. SpeechShapes /\ DeviceBounded
  BY DEF SpeechIInv
<1>2. /\ device.generation \in Nat /\ device.session \in 0..device.generation
      /\ device.chunks \in Seq(Spoken) /\ Len(device.chunks) <= MaxDevice
      /\ device.closed \in BOOLEAN /\ device.stopped \in BOOLEAN /\ device.finished \in BOOLEAN
  <2>1. device \in DeviceRecords
    BY <1>1 DEF SpeechShapes
  <2>2. device.generation \in Nat /\ device.session \in Nat
    BY <2>1 DEF DeviceRecords
  <2>3. /\ device.chunks \in Seq(Spoken)
        /\ device.closed \in BOOLEAN /\ device.stopped \in BOOLEAN /\ device.finished \in BOOLEAN
    BY <2>1 DEF DeviceRecords
  <2> QED
    BY <1>1, <2>2, <2>3 DEF DeviceBounded
<1>3. /\ streaming \in 0..MaxUtterances /\ speechGeneration \in 0..MaxStops
      /\ stop.at \in {"idle", "cancel", "abort"} /\ stop.queue \in 0..MaxUtterances
      /\ stop.seen \in 0..device.generation
  BY <1>1, <1>2 DEF SpeechShapes, StopRecords, DeviceBounded
<1>4. ASSUME NEW u \in Utterances
      PROVE  /\ speech[u].committed \in BOOLEAN /\ speech[u].born \in 0..MaxStops
             /\ speech[u].queue \in Seq(Spoken \ {STOP}) /\ Len(speech[u].queue) <= MaxChunks
             /\ speech[u].prepared \in Seq(Spoken) /\ Len(speech[u].prepared) <= MaxChunks
             /\ speech[u].overflow \in Spoken
             /\ speech[u].committed => speech[u].overflow = <<>>
             /\ speech[u].next \in 0..MaxUnits
             /\ speech[u].cancelled \in BOOLEAN /\ speech[u].closed \in BOOLEAN
             /\ speech[u].failed \in BOOLEAN /\ speech[u].outcome \in Outcomes
             /\ speech[u].playbackId \in 0..device.generation
             /\ speech[u].reported \in BOOLEAN
  <2>1. speech[u] \in SpeechRecords /\ UtteranceFacts(u)
    BY <1>1 DEF SpeechShapes, SpeechIInv
  <2>2. /\ speech[u].committed \in BOOLEAN /\ speech[u].born \in 0..MaxStops
        /\ speech[u].queue \in Seq(Spoken \ {STOP}) /\ speech[u].prepared \in Seq(Spoken)
        /\ speech[u].overflow \in Spoken /\ speech[u].next \in 0..MaxUnits
        /\ speech[u].cancelled \in BOOLEAN /\ speech[u].closed \in BOOLEAN
        /\ speech[u].failed \in BOOLEAN /\ speech[u].outcome \in Outcomes
        /\ speech[u].playbackId \in Nat /\ speech[u].reported \in BOOLEAN
    BY <2>1 DEF SpeechRecords
  <2>3. /\ Len(speech[u].queue) <= MaxChunks /\ Len(speech[u].prepared) <= MaxChunks
        /\ speech[u].committed => speech[u].overflow = <<>>
    BY <2>1 DEF UtteranceFacts, QueuesBounded
  <2>4. speech[u].playbackId \in 0..device.generation
    BY <1>2, <2>1, <2>2 DEF UtteranceFacts, GenerationsKnown
  <2> QED
    BY <2>2, <2>3, <2>4
<1>5. ASSUME NEW u \in Utterances
      PROVE  /\ at[u].synth \in SynthSteps \cup AbortSteps
             /\ at[u].player \in PlayerSteps \cup AbortSteps
             /\ item[u].synth \in Spoken /\ item[u].player \in Spoken
             /\ item[u].expected \in 0..device.generation /\ item[u].started \in BOOLEAN
             /\ turn[u] \in TurnPlaces
             /\ worker[u].at \in {"none", "playing", "drained", "error", "dead"}
             /\ worker[u].generation \in 0..device.generation
             /\ worker[u].verdict \in {"none", "completed", "cancelled", "failed"}
             /\ heard[u] \in Spoken
  <2>1. /\ at[u] \in ThreadRecords /\ item[u] \in ItemRecords /\ turn[u] \in TurnPlaces
        /\ worker[u] \in WorkerRecords /\ heard[u] \in Spoken /\ UtteranceFacts(u)
    BY <1>1 DEF SpeechShapes, SpeechIInv
  <2>2. at[u].synth \in SynthSteps \cup AbortSteps /\ at[u].player \in PlayerSteps \cup AbortSteps
    BY <2>1 DEF ThreadRecords
  <2>3. /\ item[u].synth \in Spoken /\ item[u].player \in Spoken
        /\ item[u].expected \in Nat /\ item[u].started \in BOOLEAN
    BY <2>1 DEF ItemRecords
  <2>4. /\ worker[u].at \in {"none", "playing", "drained", "error", "dead"}
        /\ worker[u].generation \in Nat
        /\ worker[u].verdict \in {"none", "completed", "cancelled", "failed"}
    BY <2>1 DEF WorkerRecords
  <2>5. /\ item[u].expected \in 0..device.generation
        /\ worker[u].generation \in 0..device.generation
    BY <1>2, <2>1, <2>3, <2>4 DEF UtteranceFacts, GenerationsKnown
  <2> QED
    BY <2>1, <2>2, <2>3, <2>4, <2>5
<1> QED
  BY <1>2, <1>3, <1>4, <1>5, Zenon DEF TypeOK, Outcomes, TurnPlaces

\* Who owns an utterance, from what its player settled and whom the service refers to.
LEMMA SpeechImpliesOwned ==
    ASSUME SpeechIInv PROVE SpeechIsOwned
<1> SUFFICES ASSUME NEW u \in Utterances
             PROVE  /\ Done(u) /\ IsSet(u) /\ worker[u].generation # 0
                          => device.generation # worker[u].generation \/ worker[u].at = "dead"
                    /\ turn[u] # "none" /\ ~Done(u) /\ speech[u].born = speechGeneration
                          => streaming = u
  BY DEF SpeechIsOwned
<1>1. UtteranceFacts(u)
  BY DEF SpeechIInv
<1>2. Done(u) /\ worker[u].generation # 0 => Settled(u)
  BY <1>1 DEF UtteranceFacts, PlayerSettles, SessionKept, Done
<1>3. turn[u] # "none" /\ ~Done(u) /\ speech[u].born = speechGeneration => streaming = u
  BY <1>1 DEF UtteranceFacts, ReferenceKept
<1> QED
  BY <1>2, <1>3 DEF Settled

\* Every behaviour of the chunks keeps the invariant.
THEOREM SpeechInvariant == Spec => []SpeechIInv
<1>1. Init => SpeechIInv
  BY InitSpeech
<1>2. SpeechIInv /\ [Next]_vars => SpeechIInv'
  BY SpeechInductive
<1> QED
  BY <1>1, <1>2, PTL DEF Spec

\* The queues of an utterance stay within max_chunks and the device within its own bound,
\* committed text never meets the overflow, and every session id that the queues, the threads
\* and the workers hold is one the provider has handed out.
THEOREM SpeechTyped == Spec => []TypeOK
<1>1. SpeechIInv => TypeOK
  BY SpeechImpliesTypes
<1> QED
  BY <1>1, SpeechInvariant, PTL

\* However the retirement of an utterance raced with the opening of its session
\* (begin_prepared_stream, the finally clause of _play, _abort_speech_sequence, cancel), when
\* its playback thread has ended the device is no longer in its session; and until then the
\* service refers to the utterance of its current generation.
THEOREM SpeechOwned == Spec => []SpeechIsOwned
<1>1. SpeechIInv => SpeechIsOwned
  BY SpeechImpliesOwned
<1> QED
  BY <1>1, SpeechInvariant, PTL

-----------------------------------------------------------------------------
(* Only the start of another utterance takes a session.                    *)

\* A session is lost to its utterance when the device goes to another generation.
Loses(u) ==
    /\ Live(u) /\ ~Live(u)' /\ worker'[u].at = "playing"
    /\ ~IsSet(u)' /\ speech[u].born = speechGeneration'

\* An abort by the id that an utterance kept only ends the session of that utterance.
LEMMA AbortsOwn ==
    ASSUME SpeechIInv, NEW u \in Utterances, NEW v \in Utterances, Live(u),
           device' = AbortStream(speech[v].playbackId),
           device'.generation # device.generation
    PROVE  u = v
<1>1. SpeechShapes /\ UtteranceFacts(v) /\ SessionsApart
  BY DEF SpeechIInv
<1>2. speech[v].playbackId # 0 /\ speech[v].playbackId = device.generation
  BY DEF AbortStream
<1>3. worker[v].at # "none" /\ speech[v].playbackId = worker[v].generation
  BY <1>1, <1>2 DEF UtteranceFacts, SessionKept
<1>4. worker[u].generation = worker[v].generation /\ worker[u].at # "none"
  BY <1>2, <1>3 DEF Live
<1> QED
  BY <1>1, <1>4 DEF SessionsApart

\* Whoever lost a session saw the generation change.
LEMMA LosesByGeneration ==
    ASSUME NEW u \in Utterances, Loses(u),
           worker'[u].at = "playing" => worker'[u].generation = worker[u].generation
    PROVE  device'.generation # device.generation
  BY DEF Loses, Live

\* An abort of its own session finds the utterance retired.
LEMMA AbortSpares ==
    ASSUME SpeechIInv, NEW u \in Utterances, Loses(u), NEW v \in Utterances,
           worker' = worker, device' = AbortStream(speech[v].playbackId),
           IsSet(v)'
    PROVE  FALSE
<1>1. device'.generation # device.generation
  BY LosesByGeneration
<1>2. u = v
  BY <1>1, AbortsOwn DEF Loses
<1> QED
  BY <1>2 DEF Loses

\* Producers and stops.
LEMMA StopsSpare ==
    ASSUME SpeechIInv, NEW u \in Utterances, Loses(u), Stopping PROVE FALSE
<1>1. worker' = worker /\ speechGeneration' = speechGeneration
  BY DEF Stopping, StopCancels, StopAborts
<1>2. device'.generation # device.generation
  BY <1>1, LosesByGeneration
<1>3. SpeechShapes /\ StopIsEarlier
  BY DEF SpeechIInv
<1>4. CASE StopAborts
  <2>1. /\ stop.queue # 0 /\ speech[stop.queue].cancelled
        /\ speech' = speech /\ device' = AbortStream(speech[stop.queue].playbackId)
    BY <1>3, <1>4 DEF StopAborts, StopIsEarlier
  <2>2. stop.queue \in Utterances
    <3>1. stop.queue \in 0..MaxUtterances /\ MaxUtterances \in Nat
      BY <1>3, BoundsAssumption DEF BoundsAssumption, SpeechShapes, StopRecords
    <3> QED
      BY <2>1, <3>1 DEF Utterances
  <2>3. PICK w \in Utterances : w = stop.queue
    BY <2>2
  <2>4. /\ speech' = speech /\ device' = AbortStream(speech[w].playbackId)
        /\ speech[w].cancelled
    BY <2>1, <2>3
  <2>5. IsSet(w)'
    BY <2>4 DEF IsSet
  <2> QED
    BY <1>1, <2>4, <2>5, AbortSpares
<1>5. CASE StopCancels
  <2>1. stop.at = "cancel" /\ stop.seen = device.generation
    BY <1>2, <1>5 DEF StopCancels
  <2>2. worker[u].at # "none" /\ worker[u].generation = device.generation
    BY DEF Loses, Live
  <2>3. device.generation \in Nat /\ speech[u].born \in Nat /\ speechGeneration \in Nat
    BY <1>3, FieldTypes DEF SpeechShapes
  <2>4. speech[u].born < speechGeneration
    BY <1>3, <2>1, <2>2, <2>3 DEF StopIsEarlier
  <2> QED
    BY <1>1, <2>3, <2>4 DEF Loses
<1> QED
  BY <1>4, <1>5 DEF Stopping

LEMMA ProducerSpares ==
    ASSUME SpeechIInv, NEW u \in Utterances, Loses(u), NEW v \in Utterances, Producer(v)
    PROVE  FALSE
<1>1. CASE TurnStops(v)
  <2>1. /\ worker' = worker /\ speech' = speech /\ turn[v] = "stop"
        /\ device' = AbortStream(speech[v].playbackId)
    BY <1>1 DEF TurnStops
  <2>2. speech[v].cancelled
    BY <2>1 DEF SpeechIInv, UtteranceFacts, MarksLeft
  <2>3. IsSet(v)'
    BY <2>1, <2>2 DEF IsSet
  <2> QED
    BY <2>1, <2>3, AbortSpares
<1>2. CASE ~TurnStops(v)
  <2>1. worker' = worker /\ device' = device
    BY <1>2 DEF Producer, Enqueue, Submit, Close, TurnFails, TurnCancels, Feed, FeedEnds, audio
  <2> QED
    BY <2>1 DEF Loses, Live
<1> QED
  BY <1>1, <1>2

LEMMA AbortThreadSpares ==
    ASSUME SpeechIInv, NEW u \in Utterances, Loses(u), NEW v \in Utterances,
           NEW t \in Threads, Abort(v, t)
    PROVE  FALSE
<1>1. CASE AbortReports(v, t)
  <2>1. /\ worker' = worker /\ at[v][t] = "report"
        /\ device' = AbortStream(speech[v].playbackId)
    BY <1>1 DEF AbortReports, At
  <2>2. speech[v].failed
    BY <2>1 DEF SpeechIInv, UtteranceFacts, MarksLeft
  <2>3. speech'[v].failed = speech[v].failed
    <3>1. speech \in [Utterances -> SpeechRecords]
      BY DEF SpeechIInv, SpeechShapes
    <3> QED
      BY <1>1, <3>1 DEF AbortReports, SpeechRecords
  <2>4. IsSet(v)'
    BY <2>2, <2>3 DEF IsSet
  <2> QED
    BY <2>1, <2>4, AbortSpares
<1>2. CASE ~AbortReports(v, t)
  <2>1. worker' = worker /\ device' = device
    BY <1>2 DEF Abort, AbortFails, AbortClears, AbortEnds, audio
  <2> QED
    BY <2>1 DEF Loses, Live
<1> QED
  BY <1>1, <1>2

\* The audio workers change no generation.
LEMMA WorkerSpares ==
    ASSUME SpeechIInv, NEW u \in Utterances, Loses(u), NEW v \in Utterances, Worker(v)
    PROVE  FALSE
<1>1. SpeechShapes /\ device \in DeviceRecords
  BY DEF SpeechIInv, SpeechShapes
<1>2. worker'[u].generation = worker[u].generation
  <2>1. worker \in [Utterances -> WorkerRecords]
    BY <1>1 DEF SpeechShapes
  <2>2. CASE Render(v)
    BY <2>2 DEF Render
  <2>3. CASE RenderEnds(v)
    <3>1. PICK step \in {"drained", "error"} : worker' = [worker EXCEPT ![v].at = step]
      BY <2>3 DEF RenderEnds
    <3> QED
      BY <2>1, <3>1 DEF WorkerRecords
  <2>4. CASE WorkerEnds(v)
    <3>1. PICK r : worker' = [worker EXCEPT ![v].at = "dead", ![v].verdict = r]
      BY <2>4 DEF WorkerEnds
    <3> QED
      BY <2>1, <3>1 DEF WorkerRecords
  <2> QED
    BY <2>2, <2>3, <2>4 DEF Worker
<1>3. device'.generation = device.generation
  <2>1. CASE Render(v)
    BY <1>1, <2>1 DEF Render, DeviceRecords
  <2>2. CASE RenderEnds(v)
    BY <2>2 DEF RenderEnds
  <2>3. CASE WorkerEnds(v)
    <3> PICK d : d = IF device.session = worker[v].generation
                     THEN [device EXCEPT !.session = 0, !.chunks = <<>>, !.closed = TRUE]
                     ELSE device
      OBVIOUS
    <3>1. device' = IF worker[v].generation = device.generation
                    THEN [d EXCEPT !.finished = TRUE] ELSE d
      BY <2>3 DEF WorkerEnds
    <3>2. worker[v].generation \in Nat /\ DeviceBounded
      BY <1>1, FieldTypes DEF SpeechIInv
    <3>3. d \in DeviceRecords /\ d.generation = device.generation
      BY <1>1, <3>2, EndedShape
    <3> QED
      BY <3>1, <3>3 DEF DeviceRecords
  <2> QED
    BY <2>1, <2>2, <2>3 DEF Worker
<1> QED
  BY <1>2, <1>3, LosesByGeneration

\* A playback thread takes the device when it begins, and only from another.
LEMMA PlaySpares ==
    ASSUME SpeechIInv, NEW u \in Utterances, Loses(u), NEW v \in Utterances, Play(v)
    PROVE  v # u /\ worker[v].at = "none" /\ worker'[v].at # "none"
<1>1. SpeechShapes /\ device \in DeviceRecords /\ UtteranceFacts(v)
  BY DEF SpeechIInv, SpeechShapes
<1>2. CASE Begin(v)
  <2>1. at[v].player = "begin"
    BY <1>2 DEF Begin, At
  <2>2. worker[v].at = "none"
    BY <1>1, <2>1 DEF UtteranceFacts, SessionKept
  <2>3. worker'[v].at = "playing"
    BY <1>1, <1>2 DEF Begin, SpeechShapes, WorkerRecords
  <2> QED
    BY <2>2, <2>3 DEF Loses, Live
<1>3. CASE Appended(v)
  <2>1. worker' = worker /\ speech' = speech /\ speechGeneration' = speechGeneration
    BY <1>3 DEF Appended, service
  <2>2. device'.generation # device.generation
    BY <2>1, LosesByGeneration
  <2>3. IsSet(v) /\ device' = AbortStream(speech[v].playbackId)
    BY <1>3, <2>2 DEF Appended
  <2>4. IsSet(v)'
    BY <2>1, <2>3 DEF IsSet
  <2> QED
    BY <2>1, <2>3, <2>4, AbortSpares
<1>4. CASE PlayerFinal(v)
  <2>1. worker' = worker /\ speechGeneration' = speechGeneration
    BY <1>4 DEF PlayerFinal, service
  <2>2. device'.generation # device.generation
    BY <2>1, LosesByGeneration
  <2>3. /\ IsSet(v) /\ device' = AbortStream(speech[v].playbackId)
        /\ speech' = [speech EXCEPT ![v].outcome = "cancelled"]
    BY <1>4, <2>2 DEF PlayerFinal
  <2>4. /\ speech'[v].cancelled = speech[v].cancelled /\ speech'[v].failed = speech[v].failed
        /\ speech'[v].committed = speech[v].committed /\ speech'[v].born = speech[v].born
    BY <1>1, <2>3 DEF SpeechShapes, SpeechRecords
  <2>5. IsSet(v)'
    BY <2>1, <2>3, <2>4 DEF IsSet
  <2> QED
    BY <2>1, <2>3, <2>5, AbortSpares
<1>5. CASE ~Begin(v) /\ ~Appended(v) /\ ~PlayerFinal(v)
  <2>1. worker' = worker
    BY <1>5 DEF Play, PlayerTakes, PlayerRetired, PlayerEnds, PlayerDrained, PlayerVerdict,
                PlayerDispatches, Opened, Appends, Refused, PlayerAborts, Complete, audio
  <2>2. CASE PlayerEnds(v)
    <3>1. device'.generation = device.generation
      BY <1>1, <2>2 DEF PlayerEnds, DeviceRecords
    <3> QED
      BY <2>1, <3>1, LosesByGeneration
  <2>3. CASE Appends(v)
    <3>1. device'.generation = device.generation
      BY <1>1, <2>3 DEF Appends, DeviceRecords
    <3> QED
      BY <2>1, <3>1, LosesByGeneration
  <2>4. CASE ~PlayerEnds(v) /\ ~Appends(v)
    <3>1. device' = device
      BY <1>5, <2>4 DEF Play, PlayerTakes, PlayerRetired, PlayerDrained, PlayerVerdict,
                        PlayerDispatches, Opened, Refused, PlayerAborts, Complete, audio
    <3> QED
      BY <2>1, <3>1 DEF Loses, Live
  <2> QED
    BY <2>2, <2>3, <2>4
<1> QED
  BY <1>2, <1>3, <1>4, <1>5

LEMMA SparesStep ==
    ASSUME SpeechIInv, [Next]_vars, NEW u \in Utterances, Loses(u)
    PROVE  \E v \in Utterances \ {u} : worker[v].at = "none" /\ worker'[v].at # "none"
<1>1. ASSUME worker' = worker, device' = device PROVE FALSE
  BY <1>1 DEF Loses, Live
<1>2. CASE UNCHANGED vars
  BY <1>1, <1>2 DEF vars
<1>3. CASE StopDetaches
  BY <1>1, <1>3 DEF StopDetaches, audio
<1>4. CASE Stopping
  BY <1>4, StopsSpare
<1>5. ASSUME NEW v \in Utterances, Start(v) PROVE FALSE
  BY <1>1, <1>5 DEF Start, audio
<1>6. ASSUME NEW v \in Utterances, Synthesize(v) PROVE FALSE
  BY <1>1, <1>6 DEF Synthesize, SynthTakes, SynthTimesOut, SynthTakesOverflow, SynthEnds,
                    SynthPrepares, SynthPuts, SynthStops, SynthRetired, audio
<1>7. ASSUME NEW v \in Utterances, Producer(v) PROVE FALSE
  BY <1>7, ProducerSpares
<1>8. ASSUME NEW v \in Utterances, NEW t \in Threads, Abort(v, t) PROVE FALSE
  BY <1>8, AbortThreadSpares
<1>9. ASSUME NEW v \in Utterances, Worker(v) PROVE FALSE
  BY <1>9, WorkerSpares
<1>10. ASSUME NEW v \in Utterances, Play(v)
       PROVE  v # u /\ worker[v].at = "none" /\ worker'[v].at # "none"
  BY <1>10, PlaySpares
<1> QED
  BY <1>2, <1>3, <1>4, <1>5, <1>6, <1>7, <1>8, <1>9, <1>10 DEF Next

LEMMA SparesAll ==
    ASSUME SpeechIInv, [Next]_vars
    PROVE  [\A u \in Utterances :
              Live(u) /\ ~Live(u)' /\ ~IsSet(u)' /\ speech[u].born = speechGeneration'
              => worker'[u].at # "playing"
                 \/ \E v \in Utterances \ {u} :
                       worker[v].at = "none" /\ worker'[v].at # "none"]_vars
  BY SparesStep DEF Loses

\* A stop, a cancellation, a failure or a cleanup that comes late (its id or generation read
\* before a newer utterance began) never ends the session of that newer utterance.
THEOREM ReplacementIsSpared == Spec => ReplacementSpared
<1>1. SpeechIInv /\ [Next]_vars
      => [\A u \in Utterances :
            Live(u) /\ ~Live(u)' /\ ~IsSet(u)' /\ speech[u].born = speechGeneration'
            => worker'[u].at # "playing"
               \/ \E v \in Utterances \ {u} :
                     worker[v].at = "none" /\ worker'[v].at # "none"]_vars
  BY SparesAll
<1> QED
  BY <1>1, SpeechInvariant, PTL DEF Spec, ReplacementSpared

-----------------------------------------------------------------------------
(* The text of an utterance, on its way from submit() to the ear.          *)

\* The chunks of an item, of a queue of items; an item, a queue without repetition.
ChunksOf(s) == {s[i] : i \in 1..Len(s)}
Within(ss) == UNION {ChunksOf(ss[k]) : k \in 1..Len(ss)}
Single(s) == \A i, j \in 1..Len(s) : s[i] = s[j] => i = j
Singles(ss) ==
    /\ \A k \in 1..Len(ss) : Single(ss[k])
    /\ \A k, l \in 1..Len(ss) : k # l => ChunksOf(ss[k]) \cap ChunksOf(ss[l]) = {}

\* What the device holds of u.
Current(u) == worker[u].at # "none" /\ worker[u].generation = device.generation
OnDevice(u) == IF Current(u) THEN device.chunks ELSE <<>>

\* The seven places a chunk can be, by what they hold; none is in two of them.
AllOf(h, d, p, r, s, q, o) ==
    ChunksOf(h) \cup Within(d) \cup ChunksOf(p) \cup Within(r) \cup ChunksOf(s) \cup Within(q)
    \cup ChunksOf(o)
Apart(a, b, c, d, e, f, g) ==
    /\ a \cap (b \cup c \cup d \cup e \cup f \cup g) = {}
    /\ b \cap (c \cup d \cup e \cup f \cup g) = {}
    /\ c \cap (d \cup e \cup f \cup g) = {}
    /\ d \cap (e \cup f \cup g) = {}
    /\ e \cap (f \cup g) = {}
    /\ f \cap g = {}
Distinct(h, d, p, r, s, q, o) ==
    /\ Apart(ChunksOf(h), Within(d), ChunksOf(p), Within(r), ChunksOf(s), Within(q), ChunksOf(o))
    /\ Single(h) /\ Singles(d) /\ Single(p) /\ Singles(r) /\ Single(s) /\ Singles(q) /\ Single(o)

\* Nothing is repeated, nothing comes from elsewhere.
Text(u) == AllOf(heard[u], OnDevice(u), item[u].player, speech[u].prepared, item[u].synth,
                 speech[u].queue, speech[u].overflow)
NothingTwice(u) ==
    /\ Distinct(heard[u], OnDevice(u), item[u].player, speech[u].prepared, item[u].synth,
                speech[u].queue, speech[u].overflow)
    /\ Text(u) \subseteq 1..speech[u].next

\* The session of u is not opened yet, or the one to append to.
Open(u) == worker[u].at = "none" \/ (Current(u) /\ device.session = device.generation)
PlayerOn(u) ==
    ~IsSet(u) /\ at[u].player \in {"get", "item", "begin", "opened", "append", "appended", "drain"}
SynthOn(u) == at[u].synth \notin AbortSteps

\* Nothing is lost while all goes well.
Flowing(u) ==
    /\ PlayerOn(u) /\ SynthOn(u)
    /\ worker[u].at = "none" \/ (worker[u].at \in {"playing", "drained"} /\ Current(u))
TextIsWhole(u) == Flowing(u) => Text(u) = 1..speech[u].next

\* Committed text is in line: each chunk by itself, each at its number.
QueueInLine(ss, n) == \A k \in 1..Len(ss) : ss[k] = <<n + k>>
Rest(u) == Len(heard[u]) + Len(OnDevice(u))
Ready(u) == Rest(u) + Len(item[u].player)
Made(u) == Ready(u) + Len(speech[u].prepared) + Len(item[u].synth)
InLine(u) ==
    speech[u].committed =>
        /\ Inorder(heard[u]) /\ QueueInLine(OnDevice(u), Len(heard[u]))
        /\ Open(u) => item[u].player \in {<<>>, <<Rest(u) + 1>>}
        /\ Open(u) /\ PlayerOn(u) =>
              \A k \in 1..Len(speech[u].prepared) :
                  speech[u].prepared[k] \in {STOP, <<Ready(u) + k>>}
        /\ Open(u) /\ PlayerOn(u) /\ SynthOn(u) /\ at[u].synth # "dead" =>
              /\ item[u].synth \in {<<>>, <<Ready(u) + Len(speech[u].prepared) + 1>>}
              /\ QueueInLine(speech[u].queue, Made(u))
              /\ ~speech[u].closed => speech[u].next = Made(u) + Len(speech[u].queue)

\* Where the threads hold an item, and what is said at their end.
HandsKnown(u) ==
    /\ item[u].synth # <<>> <=> at[u].synth \in {"prepare", "put"}
    /\ at[u].player \in {"begin", "append"} => item[u].player # <<>>
    /\ item[u].player # <<>> => at[u].player \in {"item", "begin", "append"}
    /\ worker[u].at = "none" => heard[u] = <<>>
    /\ worker[u].at = "dead" <=> worker[u].verdict # "none"
    /\ speech[u].outcome = "failed" => speech[u].reported

\* Nothing follows the sentinel, and nothing is submitted any more.
Sentinel(u) ==
    ~IsSet(u) =>
        /\ at[u].synth = "closing" /\ speech[u].overflow # <<>> => speech[u].queue # <<>>
        /\ at[u].synth \in {"stop", "dead"} =>
              speech[u].queue = <<>> /\ speech[u].overflow = <<>> /\ speech[u].closed
        /\ \A k \in 1..Len(speech[u].prepared) :
              speech[u].prepared[k] = STOP => k = Len(speech[u].prepared) /\ at[u].synth = "dead"
        /\ \/ at[u].player \in {"drain", "verdict"}
           \/ at[u].player = "item" /\ item[u].player = STOP
           => speech[u].prepared = <<>> /\ at[u].synth = "dead"

\* A session is closed when its player waits for its end.
SessionEnds(u) ==
    /\ worker[u].at \in {"playing", "drained"} /\ Current(u) /\ device.closed /\ ~IsSet(u)
       => at[u].player = "drain"
    /\ worker[u].at = "drained" /\ Current(u) => device.closed /\ device.chunks = <<>>

\* What is called completed was heard.
AllHeard(u) == speech[u].closed /\ ChunksOf(heard[u]) = 1..speech[u].next
EndIsTrue(u) ==
    /\ worker[u].verdict = "completed" => AllHeard(u)
    /\ speech[u].outcome = "completed" =>
          /\ AllHeard(u) /\ worker[u].at \in {"none", "dead"}
          /\ at[u].player \in {"final", "complete", "dead"}

TextFacts(u) ==
    /\ NothingTwice(u) /\ TextIsWhole(u) /\ InLine(u)
    /\ HandsKnown(u) /\ Sentinel(u) /\ SessionEnds(u) /\ EndIsTrue(u)
TextIInv == device.session \in {0, device.generation} /\ \A u \in Utterances : TextFacts(u)

-----------------------------------------------------------------------------
(* Sequences of chunks, and of items.                                      *)

LEMMA NoChunks ==
    /\ ChunksOf(<<>>) = {} /\ Single(<<>>) /\ Within(<<>>) = {} /\ Singles(<<>>) /\ Len(<<>>) = 0
<1>1. Len(<<>>) = 0 /\ 1..0 = {}
  BY Short
<1> QED
  BY <1>1 DEF ChunksOf, Single, Within, Singles

LEMMA OneChunk ==
    ASSUME NEW x PROVE ChunksOf(<<x>>) = {x} /\ Single(<<x>>)
<1>1. Len(<<x>>) = 1 /\ <<x>>[1] = x /\ 1..1 = {1}
  OBVIOUS
<1> QED
  BY <1>1 DEF ChunksOf, Single

\* A chunk joins an item.
LEMMA ChunkJoins ==
    ASSUME NEW S, NEW s \in Seq(S), NEW x \in S
    PROVE  /\ ChunksOf(Append(s, x)) = ChunksOf(s) \cup {x}
           /\ Single(s) /\ x \notin ChunksOf(s) => Single(Append(s, x))
<1> PICK t : t = Append(s, x)
  OBVIOUS
<1>1. /\ Len(s) \in Nat /\ Len(t) = Len(s) + 1 /\ t[Len(s) + 1] = x
      /\ \A i \in 1..Len(s) : t[i] = s[i]
  BY AppendProperties, LenProperties
<1>2. 1..Len(t) = 1..Len(s) \cup {Len(s) + 1} /\ Len(s) + 1 \notin 1..Len(s)
  BY <1>1
<1>3. ChunksOf(t) = ChunksOf(s) \cup {x}
  BY <1>1, <1>2 DEF ChunksOf
<1>4. ASSUME Single(s), x \notin ChunksOf(s)
      PROVE  Single(t)
  <2> SUFFICES ASSUME NEW i \in 1..Len(t), NEW j \in 1..Len(t), t[i] = t[j] PROVE i = j
    BY DEF Single
  <2>1. CASE i \in 1..Len(s) /\ j \in 1..Len(s)
    BY <1>1, <1>4, <2>1 DEF Single
  <2>2. CASE i \in 1..Len(s) /\ j = Len(s) + 1
    <3>1. s[i] = x
      BY <1>1, <2>2
    <3> QED
      BY <1>4, <2>2, <3>1 DEF ChunksOf
  <2>3. CASE j \in 1..Len(s) /\ i = Len(s) + 1
    <3>1. s[j] = x
      BY <1>1, <2>3
    <3> QED
      BY <1>4, <2>3, <3>1 DEF ChunksOf
  <2> QED
    BY <1>2, <2>1, <2>2, <2>3
<1> QED
  BY <1>3, <1>4

\* An item is rendered after what was heard.
LEMMA ItemJoins ==
    ASSUME NEW S, NEW s \in Seq(S), NEW t \in Seq(S)
    PROVE  /\ ChunksOf(s \o t) = ChunksOf(s) \cup ChunksOf(t)
           /\ Single(s) /\ Single(t) /\ ChunksOf(s) \cap ChunksOf(t) = {} => Single(s \o t)
<1> PICK c : c = s \o t
  OBVIOUS
<1>1. /\ Len(s) \in Nat /\ Len(t) \in Nat /\ Len(c) = Len(s) + Len(t)
      /\ \A i \in 1..Len(s) : c[i] = s[i]
      /\ \A i \in 1..Len(t) : c[Len(s) + i] = t[i]
  <2>1. Len(s) \in Nat /\ Len(t) \in Nat /\ Len(c) = Len(s) + Len(t)
    BY ConcatProperties, LenProperties
  <2>2. \A i \in 1..Len(c) : c[i] = IF i <= Len(s) THEN s[i] ELSE t[i - Len(s)]
    BY ConcatProperties
  <2>3. \A i \in 1..Len(s) : i \in 1..Len(c) /\ i <= Len(s)
    BY <2>1
  <2>4. \A i \in 1..Len(t) : Len(s) + i \in 1..Len(c) /\ ~(Len(s) + i <= Len(s))
                             /\ Len(s) + i - Len(s) = i
    BY <2>1
  <2> QED
    BY <2>1, <2>2, <2>3, <2>4
<1>2. \A i \in 1..Len(c) : i \in 1..Len(s) \/ \E j \in 1..Len(t) : i = Len(s) + j
  <2> TAKE i \in 1..Len(c)
  <2>1. i \in 1..Len(s) \/ i - Len(s) \in 1..Len(t)
    BY <1>1
  <2>2. i = Len(s) + (i - Len(s))
    BY <1>1
  <2> QED
    BY <2>1, <2>2
<1>3. ChunksOf(c) = ChunksOf(s) \cup ChunksOf(t)
  <2>1. ASSUME NEW x \in ChunksOf(c) PROVE x \in ChunksOf(s) \cup ChunksOf(t)
    BY <1>1, <1>2 DEF ChunksOf
  <2>2. ASSUME NEW x \in ChunksOf(s) PROVE x \in ChunksOf(c)
    <3>1. PICK i \in 1..Len(s) : x = s[i]
      BY DEF ChunksOf
    <3>2. i \in 1..Len(c) /\ c[i] = x
      BY <1>1, <3>1
    <3> QED
      BY <3>2 DEF ChunksOf
  <2>3. ASSUME NEW x \in ChunksOf(t) PROVE x \in ChunksOf(c)
    <3>1. PICK i \in 1..Len(t) : x = t[i]
      BY DEF ChunksOf
    <3>2. Len(s) + i \in 1..Len(c) /\ c[Len(s) + i] = x
      BY <1>1, <3>1
    <3> QED
      BY <3>2 DEF ChunksOf
  <2> QED
    BY <2>1, <2>2, <2>3
<1>4. ASSUME Single(s), Single(t), ChunksOf(s) \cap ChunksOf(t) = {}
      PROVE  Single(c)
  <2> SUFFICES ASSUME NEW i \in 1..Len(c), NEW j \in 1..Len(c), c[i] = c[j] PROVE i = j
    BY DEF Single
  <2>0. \A k \in 1..Len(s), l \in 1..Len(t) : s[k] # t[l]
    BY <1>4 DEF ChunksOf
  <2>1. CASE i \in 1..Len(s) /\ j \in 1..Len(s)
    BY <1>1, <1>4, <2>1 DEF Single
  <2>2. ASSUME i \in 1..Len(s), NEW l \in 1..Len(t), j = Len(s) + l PROVE FALSE
    BY <1>1, <2>0, <2>2
  <2>3. ASSUME j \in 1..Len(s), NEW l \in 1..Len(t), i = Len(s) + l PROVE FALSE
    BY <1>1, <2>0, <2>3
  <2>4. ASSUME NEW k \in 1..Len(t), i = Len(s) + k, NEW l \in 1..Len(t), j = Len(s) + l
        PROVE  i = j
    <3>1. t[k] = t[l]
      BY <1>1, <2>4
    <3>2. k = l
      BY <1>4, <3>1 DEF Single
    <3> QED
      BY <2>4, <3>2
  <2> QED
    BY <1>2, <2>1, <2>2, <2>3, <2>4
<1> QED
  BY <1>3, <1>4

\* An item is put at the end of a queue.
LEMMA ItemPut ==
    ASSUME NEW S, NEW ss \in Seq(S), NEW s \in S
    PROVE  /\ Within(Append(ss, s)) = Within(ss) \cup ChunksOf(s)
           /\ Singles(ss) /\ Single(s) /\ Within(ss) \cap ChunksOf(s) = {} => Singles(Append(ss, s))
<1> PICK t : t = Append(ss, s)
  OBVIOUS
<1>1. /\ Len(ss) \in Nat /\ Len(t) = Len(ss) + 1 /\ t[Len(ss) + 1] = s
      /\ \A i \in 1..Len(ss) : t[i] = ss[i]
  BY AppendProperties, LenProperties
<1>2. 1..Len(t) = 1..Len(ss) \cup {Len(ss) + 1} /\ Len(ss) + 1 \notin 1..Len(ss)
  BY <1>1
<1>3. Within(t) = Within(ss) \cup ChunksOf(s)
  BY <1>1, <1>2 DEF Within
<1>4. ASSUME Singles(ss), Single(s), Within(ss) \cap ChunksOf(s) = {}
      PROVE  Singles(t)
  <2>1. \A k \in 1..Len(t) : Single(t[k])
    BY <1>1, <1>2, <1>4 DEF Singles
  <2>2. \A k \in 1..Len(ss) : ChunksOf(ss[k]) \cap ChunksOf(s) = {}
    BY <1>4 DEF Within
  <2>3. ASSUME NEW k \in 1..Len(t), NEW l \in 1..Len(t), k # l
        PROVE  ChunksOf(t[k]) \cap ChunksOf(t[l]) = {}
    <3>1. CASE k \in 1..Len(ss) /\ l \in 1..Len(ss)
      BY <1>1, <1>4, <2>3, <3>1 DEF Singles
    <3>2. CASE k \in 1..Len(ss) /\ l = Len(ss) + 1
      BY <1>1, <2>2, <3>2
    <3>3. CASE l \in 1..Len(ss) /\ k = Len(ss) + 1
      BY <1>1, <2>2, <3>3
    <3> QED
      BY <1>2, <2>3, <3>1, <3>2, <3>3
  <2> QED
    BY <2>1, <2>3 DEF Singles
<1> QED
  BY <1>3, <1>4

\* A new chunk is put by itself.
LEMMA ChunkPut ==
    ASSUME NEW S, NEW q \in Seq(Seq(S)), NEW x \in S
    PROVE  /\ Within(Append(q, <<x>>)) = Within(q) \cup {x}
           /\ Singles(q) /\ x \notin Within(q) => Singles(Append(q, <<x>>))
<1>1. ChunksOf(<<x>>) = {x} /\ Single(<<x>>)
  BY OneChunk
<1>2. <<x>> \in Seq(S)
  BY Short
<1>3. PICK c : c = <<x>>
  OBVIOUS
<1>4. c \in Seq(S) /\ ChunksOf(c) = {x} /\ Single(c)
  BY <1>1, <1>2, <1>3
<1>5. Within(Append(q, c)) = Within(q) \cup {x}
  BY <1>4, ItemPut
<1>6. ASSUME Singles(q), x \notin Within(q) PROVE Singles(Append(q, c))
  <2>1. Within(q) \cap ChunksOf(c) = {}
    BY <1>4, <1>6
  <2> QED
    BY <1>4, <1>6, <2>1, ItemPut
<1> QED
  BY <1>3, <1>5, <1>6

\* An item is taken from the front of a queue.
LEMMA ItemTaken ==
    ASSUME NEW S, NEW ss \in Seq(S), ss # <<>>
    PROVE  /\ Within(ss) = ChunksOf(Head(ss)) \cup Within(Tail(ss))
           /\ Singles(ss) => /\ Single(Head(ss)) /\ Singles(Tail(ss))
                             /\ ChunksOf(Head(ss)) \cap Within(Tail(ss)) = {}
<1> PICK t : t = Tail(ss)
  OBVIOUS
<1>1. /\ Len(ss) \in Nat /\ Len(ss) > 0 /\ Len(t) = Len(ss) - 1 /\ Head(ss) = ss[1]
      /\ \A i \in 1..Len(t) : t[i] = ss[i + 1]
  <2>1. /\ Len(ss) \in Nat /\ Len(ss) # 0 /\ Len(t) = Len(ss) - 1 /\ Head(ss) = ss[1]
        /\ \A i \in 1..Len(t) : t[i] = ss[i + 1]
    BY HeadTailProperties, LenProperties, EmptySeq
  <2> QED
    BY <2>1
<1>2. /\ 1 \in 1..Len(ss) /\ \A i \in 1..Len(t) : i + 1 \in 1..Len(ss) /\ i + 1 # 1
      /\ \A k \in 1..Len(ss) : k = 1 \/ (k - 1 \in 1..Len(t) /\ (k - 1) + 1 = k)
      /\ \A i, j \in 1..Len(t) : i + 1 = j + 1 => i = j
  BY <1>1
<1>3. Within(ss) = ChunksOf(Head(ss)) \cup Within(t)
  <2>1. ASSUME NEW x \in Within(ss) PROVE x \in ChunksOf(Head(ss)) \cup Within(t)
    <3>1. PICK k \in 1..Len(ss) : x \in ChunksOf(ss[k])
      BY DEF Within
    <3>2. CASE k = 1
      BY <1>1, <3>1, <3>2
    <3>3. CASE k - 1 \in 1..Len(t) /\ (k - 1) + 1 = k
      <4>1. t[k - 1] = ss[k]
        BY <1>1, <3>3
      <4> QED
        BY <3>1, <3>3, <4>1 DEF Within
    <3> QED
      BY <1>2, <3>2, <3>3
  <2>2. ChunksOf(Head(ss)) \subseteq Within(ss)
    BY <1>1, <1>2 DEF Within
  <2>3. ASSUME NEW x \in Within(t) PROVE x \in Within(ss)
    <3>1. PICK k \in 1..Len(t) : x \in ChunksOf(t[k])
      BY DEF Within
    <3>2. x \in ChunksOf(ss[k + 1]) /\ k + 1 \in 1..Len(ss)
      BY <1>1, <1>2, <3>1
    <3> QED
      BY <3>2 DEF Within
  <2> QED
    BY <2>1, <2>2, <2>3
<1>4. ASSUME Singles(ss)
      PROVE  Single(Head(ss)) /\ Singles(t) /\ ChunksOf(Head(ss)) \cap Within(t) = {}
  <2>1. Single(Head(ss))
    BY <1>1, <1>2, <1>4 DEF Singles
  <2>2. \A k \in 1..Len(t) : Single(t[k])
    BY <1>1, <1>2, <1>4 DEF Singles
  <2>3. ASSUME NEW k \in 1..Len(t), NEW l \in 1..Len(t), k # l
        PROVE  ChunksOf(t[k]) \cap ChunksOf(t[l]) = {}
    <3>1. k + 1 \in 1..Len(ss) /\ l + 1 \in 1..Len(ss) /\ k + 1 # l + 1
      BY <1>2, <2>3
    <3>2. ChunksOf(ss[k + 1]) \cap ChunksOf(ss[l + 1]) = {}
      BY <1>4, <3>1 DEF Singles
    <3> QED
      BY <1>1, <3>2
  <2>4. ASSUME NEW x \in ChunksOf(Head(ss)), x \in Within(t) PROVE FALSE
    <3>1. PICK k \in 1..Len(t) : x \in ChunksOf(t[k])
      BY <2>4 DEF Within
    <3>2. k + 1 \in 1..Len(ss) /\ 1 \in 1..Len(ss) /\ k + 1 # 1
      BY <1>2
    <3>3. ChunksOf(ss[1]) \cap ChunksOf(ss[k + 1]) = {}
      BY <1>4, <3>2 DEF Singles
    <3> QED
      BY <1>1, <2>4, <3>1, <3>3
  <2> QED
    BY <2>1, <2>2, <2>3, <2>4 DEF Singles
<1> QED
  BY <1>3, <1>4

\* What repeats nothing and is all of 1..n has n chunks.
LEMMA AllOnce ==
    ASSUME NEW S, NEW s \in Seq(S), NEW n \in Nat, Single(s), ChunksOf(s) = 1..n
    PROVE  Len(s) = n
<1>1. Len(s) \in Nat /\ s \in [1..Len(s) -> 1..n]
  <2>1. Len(s) \in Nat /\ s \in [1..Len(s) -> S]
    BY LenProperties
  <2>2. \A i \in 1..Len(s) : s[i] \in 1..n
    BY DEF ChunksOf
  <2> QED
    BY <2>1, <2>2
<1>2. s \in Bijection(1..Len(s), 1..n)
  <2>1. s \in Injection(1..Len(s), 1..n)
    BY <1>1 DEF Single, Injection, IsInjective
  <2>2. \A x \in 1..n : \E i \in 1..Len(s) : s[i] = x
    BY DEF ChunksOf
  <2> QED
    BY <1>1, <2>1, <2>2 DEF Bijection, Surjection
<1>3. IsFiniteSet(1..Len(s)) /\ Cardinality(1..Len(s)) = Len(s) /\ Cardinality(1..n) = n
  <2>1. ASSUME NEW m \in Nat PROVE IsFiniteSet(1..m) /\ Cardinality(1..m) = m
    <3>1. 1 \in Int /\ m \in Int
      OBVIOUS
    <3>2. IsFiniteSet(1..m) /\ Cardinality(1..m) = IF 1 > m THEN 0 ELSE m - 1 + 1
      BY <3>1, FS_Interval
    <3> QED
      BY <3>2
  <2> QED
    BY <1>1, <2>1
<1>4. ExistsBijection(1..Len(s), 1..n)
  BY <1>2 DEF ExistsBijection
<1>5. Cardinality(1..Len(s)) = Cardinality(1..n)
  BY <1>3, <1>4, FS_Bijection
<1> QED
  BY <1>3, <1>5

-----------------------------------------------------------------------------
(* A chunk or an item goes from one of the seven places to the next.       *)

\* Rendered: from the device to the ear.
LEMMA DistinctHeard ==
    ASSUME NEW S, NEW h \in Seq(S), NEW d \in Seq(Seq(S)), NEW p, NEW r, NEW s, NEW q, NEW o,
           Distinct(h, d, p, r, s, q, o), d # <<>>
    PROVE  /\ Distinct(h \o Head(d), Tail(d), p, r, s, q, o)
           /\ AllOf(h \o Head(d), Tail(d), p, r, s, q, o) = AllOf(h, d, p, r, s, q, o)
<1>0. Apart(ChunksOf(h), Within(d), ChunksOf(p), Within(r), ChunksOf(s), Within(q), ChunksOf(o))
  BY DEF Distinct
<1>00. ChunksOf(<<>>) = {}
  BY NoChunks
<1>1. /\ Within(d) = ChunksOf(Head(d)) \cup Within(Tail(d))
      /\ Single(Head(d)) /\ Singles(Tail(d)) /\ ChunksOf(Head(d)) \cap Within(Tail(d)) = {}
  BY ItemTaken DEF Distinct
<1>2. Head(d) \in Seq(S)
  BY HeadTailProperties
<1>3. ChunksOf(h) \cap ChunksOf(Head(d)) = {}
  BY <1>1 DEF Distinct, Apart
<1>4. /\ ChunksOf(h \o Head(d)) = ChunksOf(h) \cup ChunksOf(Head(d))
      /\ Single(h \o Head(d))
  BY <1>1, <1>2, <1>3, ItemJoins DEF Distinct
<1>5. Apart(ChunksOf(h \o Head(d)), Within(Tail(d)), ChunksOf(p), Within(r), ChunksOf(s),
            Within(q), ChunksOf(o))
  BY <1>0, <1>00, <1>1, <1>4 DEF Apart
<1>6. Distinct(h \o Head(d), Tail(d), p, r, s, q, o)
  BY <1>1, <1>4, <1>5 DEF Distinct
<1>7. AllOf(h \o Head(d), Tail(d), p, r, s, q, o) = AllOf(h, d, p, r, s, q, o)
  BY <1>1, <1>4 DEF AllOf
<1> QED
  BY <1>6, <1>7

\* Appended: from the playback thread to the device.
LEMMA DistinctAppended ==
    ASSUME NEW S, NEW h, NEW d \in Seq(Seq(S)), NEW p \in Seq(S), NEW r, NEW s, NEW q, NEW o,
           Distinct(h, d, p, r, s, q, o)
    PROVE  /\ Distinct(h, Append(d, p), <<>>, r, s, q, o)
           /\ AllOf(h, Append(d, p), <<>>, r, s, q, o) = AllOf(h, d, p, r, s, q, o)
<1>0. Apart(ChunksOf(h), Within(d), ChunksOf(p), Within(r), ChunksOf(s), Within(q), ChunksOf(o))
  BY DEF Distinct
<1>00. ChunksOf(<<>>) = {}
  BY NoChunks
<1>1. Within(d) \cap ChunksOf(p) = {}
  BY DEF Distinct, Apart
<1>2. Within(Append(d, p)) = Within(d) \cup ChunksOf(p) /\ Singles(Append(d, p))
  BY <1>1, ItemPut DEF Distinct
<1>3. Apart(ChunksOf(h), Within(Append(d, p)), ChunksOf(<<>>), Within(r), ChunksOf(s),
            Within(q), ChunksOf(o))
  BY <1>0, <1>00, <1>2 DEF Apart
<1>4. Distinct(h, Append(d, p), <<>>, r, s, q, o)
  BY <1>2, <1>3, NoChunks DEF Distinct
<1>5. AllOf(h, Append(d, p), <<>>, r, s, q, o) = AllOf(h, d, p, r, s, q, o)
  BY <1>2, NoChunks DEF AllOf
<1> QED
  BY <1>4, <1>5

\* Taken: from the prepared queue to the playback thread.
LEMMA DistinctTaken ==
    ASSUME NEW S, NEW h, NEW d, NEW r \in Seq(Seq(S)), NEW s, NEW q, NEW o,
           Distinct(h, d, <<>>, r, s, q, o), r # <<>>
    PROVE  /\ Distinct(h, d, Head(r), Tail(r), s, q, o)
           /\ AllOf(h, d, Head(r), Tail(r), s, q, o) = AllOf(h, d, <<>>, r, s, q, o)
<1>0. Apart(ChunksOf(h), Within(d), ChunksOf(<<>>), Within(r), ChunksOf(s), Within(q), ChunksOf(o))
  BY DEF Distinct
<1>00. ChunksOf(<<>>) = {}
  BY NoChunks
<1>1. /\ Within(r) = ChunksOf(Head(r)) \cup Within(Tail(r))
      /\ Single(Head(r)) /\ Singles(Tail(r)) /\ ChunksOf(Head(r)) \cap Within(Tail(r)) = {}
  BY ItemTaken DEF Distinct
<1>2. Apart(ChunksOf(h), Within(d), ChunksOf(Head(r)), Within(Tail(r)), ChunksOf(s), Within(q),
            ChunksOf(o))
  BY <1>0, <1>00, <1>1 DEF Apart
<1>3. Distinct(h, d, Head(r), Tail(r), s, q, o)
  BY <1>1, <1>2 DEF Distinct
<1>4. AllOf(h, d, Head(r), Tail(r), s, q, o) = AllOf(h, d, <<>>, r, s, q, o)
  BY <1>1, NoChunks DEF AllOf
<1> QED
  BY <1>3, <1>4

\* Put: from the synthesis thread to the prepared queue.
LEMMA DistinctPut ==
    ASSUME NEW S, NEW h, NEW d, NEW p, NEW r \in Seq(Seq(S)), NEW s \in Seq(S), NEW q, NEW o,
           Distinct(h, d, p, r, s, q, o)
    PROVE  /\ Distinct(h, d, p, Append(r, s), <<>>, q, o)
           /\ AllOf(h, d, p, Append(r, s), <<>>, q, o) = AllOf(h, d, p, r, s, q, o)
<1>0. Apart(ChunksOf(h), Within(d), ChunksOf(p), Within(r), ChunksOf(s), Within(q), ChunksOf(o))
  BY DEF Distinct
<1>00. ChunksOf(<<>>) = {}
  BY NoChunks
<1>1. Within(r) \cap ChunksOf(s) = {}
  BY DEF Distinct, Apart
<1>2. Within(Append(r, s)) = Within(r) \cup ChunksOf(s) /\ Singles(Append(r, s))
  BY <1>1, ItemPut DEF Distinct
<1>3. Apart(ChunksOf(h), Within(d), ChunksOf(p), Within(Append(r, s)), ChunksOf(<<>>),
            Within(q), ChunksOf(o))
  BY <1>0, <1>00, <1>2 DEF Apart
<1>4. Distinct(h, d, p, Append(r, s), <<>>, q, o)
  BY <1>2, <1>3, NoChunks DEF Distinct
<1>5. AllOf(h, d, p, Append(r, s), <<>>, q, o) = AllOf(h, d, p, r, s, q, o)
  BY <1>2, NoChunks DEF AllOf
<1> QED
  BY <1>4, <1>5

\* The sentinel is no text.
LEMMA DistinctSentinel ==
    ASSUME NEW S, NEW h, NEW d, NEW p, NEW r \in Seq(Seq(S)), NEW s, NEW q, NEW o,
           Distinct(h, d, p, r, s, q, o)
    PROVE  /\ Distinct(h, d, p, Append(r, <<>>), s, q, o)
           /\ AllOf(h, d, p, Append(r, <<>>), s, q, o) = AllOf(h, d, p, r, s, q, o)
<1>0. <<>> \in Seq(S)
  BY EmptySeq
<1>1. Within(Append(r, <<>>)) = Within(r) /\ Singles(Append(r, <<>>))
  <2>1. Singles(r) /\ Within(r) \cap ChunksOf(<<>>) = {} /\ Single(<<>>) /\ ChunksOf(<<>>) = {}
    BY NoChunks DEF Distinct
  <2>0. PICK e : e = <<>>
    OBVIOUS
  <2>2. e \in Seq(S) /\ ChunksOf(e) = {} /\ Single(e) /\ Within(r) \cap ChunksOf(e) = {}
    BY <1>0, <2>0, <2>1
  <2>3. Within(Append(r, e)) = Within(r) \cup ChunksOf(e) /\ Singles(Append(r, e))
    BY <2>1, <2>2, ItemPut
  <2> QED
    BY <2>0, <2>2, <2>3
<1> QED
  BY <1>1 DEF Distinct, AllOf

\* Synthesized: from the queue to the synthesis thread.
LEMMA DistinctFetched ==
    ASSUME NEW S, NEW h, NEW d, NEW p, NEW r, NEW q \in Seq(Seq(S)), NEW o,
           Distinct(h, d, p, r, <<>>, q, o), q # <<>>
    PROVE  /\ Distinct(h, d, p, r, Head(q), Tail(q), o)
           /\ AllOf(h, d, p, r, Head(q), Tail(q), o) = AllOf(h, d, p, r, <<>>, q, o)
<1>0. Apart(ChunksOf(h), Within(d), ChunksOf(p), Within(r), ChunksOf(<<>>), Within(q), ChunksOf(o))
  BY DEF Distinct
<1>00. ChunksOf(<<>>) = {}
  BY NoChunks
<1>1. /\ Within(q) = ChunksOf(Head(q)) \cup Within(Tail(q))
      /\ Single(Head(q)) /\ Singles(Tail(q)) /\ ChunksOf(Head(q)) \cap Within(Tail(q)) = {}
  BY ItemTaken DEF Distinct
<1>2. Apart(ChunksOf(h), Within(d), ChunksOf(p), Within(r), ChunksOf(Head(q)), Within(Tail(q)),
            ChunksOf(o))
  BY <1>0, <1>00, <1>1 DEF Apart
<1>3. Distinct(h, d, p, r, Head(q), Tail(q), o)
  BY <1>1, <1>2 DEF Distinct
<1>4. AllOf(h, d, p, r, Head(q), Tail(q), o) = AllOf(h, d, p, r, <<>>, q, o)
  BY <1>1, NoChunks DEF AllOf
<1> QED
  BY <1>3, <1>4

\* Joined: from the overflow to the synthesis thread.
LEMMA DistinctJoined ==
    ASSUME NEW h, NEW d, NEW p, NEW r, NEW q, NEW o, Distinct(h, d, p, r, <<>>, q, o)
    PROVE  /\ Distinct(h, d, p, r, o, q, <<>>)
           /\ AllOf(h, d, p, r, o, q, <<>>) = AllOf(h, d, p, r, <<>>, q, o)
<1>0. Apart(ChunksOf(h), Within(d), ChunksOf(p), Within(r), ChunksOf(<<>>), Within(q), ChunksOf(o))
  BY DEF Distinct
<1>00. ChunksOf(<<>>) = {}
  BY NoChunks
<1>1. Apart(ChunksOf(h), Within(d), ChunksOf(p), Within(r), ChunksOf(o), Within(q), ChunksOf(<<>>))
  BY <1>0, <1>00 DEF Apart
<1>2. Distinct(h, d, p, r, o, q, <<>>)
  BY <1>1, NoChunks DEF Distinct
<1>3. AllOf(h, d, p, r, o, q, <<>>) = AllOf(h, d, p, r, <<>>, q, o)
  BY NoChunks DEF AllOf
<1> QED
  BY <1>2, <1>3

\* Submitted: a new chunk by itself in the queue, or joined to the overflow.
LEMMA DistinctSubmitted ==
    ASSUME NEW S, NEW h, NEW d, NEW p, NEW r, NEW s, NEW q \in Seq(Seq(S)), NEW o \in Seq(S),
           Distinct(h, d, p, r, s, q, o), NEW x \in S, x \notin AllOf(h, d, p, r, s, q, o)
    PROVE  /\ Distinct(h, d, p, r, s, Append(q, <<x>>), o)
           /\ Distinct(h, d, p, r, s, q, Append(o, x))
<1>0. Apart(ChunksOf(h), Within(d), ChunksOf(p), Within(r), ChunksOf(s), Within(q), ChunksOf(o))
  BY DEF Distinct
<1>00. ChunksOf(<<>>) = {}
  BY NoChunks
<1>3. Within(q) \cap {x} = {} /\ x \notin ChunksOf(o)
  BY DEF AllOf
<1>4. Within(Append(q, <<x>>)) = Within(q) \cup {x} /\ Singles(Append(q, <<x>>))
  BY <1>3, ChunkPut DEF Distinct
<1>5. ChunksOf(Append(o, x)) = ChunksOf(o) \cup {x} /\ Single(Append(o, x))
  BY <1>3, ChunkJoins DEF Distinct
<1>6. {x} \cap (ChunksOf(h) \cup Within(d) \cup ChunksOf(p) \cup Within(r) \cup ChunksOf(s)
               \cup Within(q) \cup ChunksOf(o)) = {}
  BY DEF AllOf
<1>7. /\ Apart(ChunksOf(h), Within(d), ChunksOf(p), Within(r), ChunksOf(s),
               Within(Append(q, <<x>>)), ChunksOf(o))
      /\ Apart(ChunksOf(h), Within(d), ChunksOf(p), Within(r), ChunksOf(s), Within(q),
               ChunksOf(Append(o, x)))
  BY <1>0, <1>00, <1>4, <1>5, <1>6 DEF Apart
<1>8. Distinct(h, d, p, r, s, Append(q, <<x>>), o) /\ Distinct(h, d, p, r, s, q, Append(o, x))
  BY <1>4, <1>5, <1>7 DEF Distinct
<1> QED
  BY <1>8

\* Dropped: whatever was at some of the places.
LEMMA DistinctDropped ==
    ASSUME NEW h, NEW d, NEW p, NEW r, NEW s, NEW q, NEW o, Distinct(h, d, p, r, s, q, o),
           NEW d1 \in {d, <<>>}, NEW p1 \in {p, <<>>}, NEW r1 \in {r, <<>>},
           NEW s1 \in {s, <<>>}, NEW q1 \in {q, <<>>}, NEW o1 \in {o, <<>>}
    PROVE  /\ Distinct(h, d1, p1, r1, s1, q1, o1)
           /\ AllOf(h, d1, p1, r1, s1, q1, o1) \subseteq AllOf(h, d, p, r, s, q, o)
<1>1. /\ Within(d1) \in {Within(d), {}} /\ ChunksOf(p1) \in {ChunksOf(p), {}}
      /\ Within(r1) \in {Within(r), {}} /\ ChunksOf(s1) \in {ChunksOf(s), {}}
      /\ Within(q1) \in {Within(q), {}} /\ ChunksOf(o1) \in {ChunksOf(o), {}}
  BY NoChunks
<1>2. Apart(ChunksOf(h), Within(d1), ChunksOf(p1), Within(r1), ChunksOf(s1), Within(q1),
            ChunksOf(o1))
  <2>1. Apart(ChunksOf(h), Within(d), ChunksOf(p), Within(r), ChunksOf(s), Within(q), ChunksOf(o))
    BY DEF Distinct
  <2>2. /\ Within(d1) \subseteq Within(d) /\ ChunksOf(p1) \subseteq ChunksOf(p)
        /\ Within(r1) \subseteq Within(r) /\ ChunksOf(s1) \subseteq ChunksOf(s)
        /\ Within(q1) \subseteq Within(q) /\ ChunksOf(o1) \subseteq ChunksOf(o)
    BY <1>1
  <2> QED
    BY <2>1, <2>2 DEF Apart
<1>3. /\ Single(h) /\ Singles(d1) /\ Single(p1) /\ Singles(r1) /\ Single(s1) /\ Singles(q1)
      /\ Single(o1)
  BY NoChunks DEF Distinct
<1>4. AllOf(h, d1, p1, r1, s1, q1, o1) \subseteq AllOf(h, d, p, r, s, q, o)
  <2>1. /\ Within(d1) \subseteq Within(d) /\ ChunksOf(p1) \subseteq ChunksOf(p)
        /\ Within(r1) \subseteq Within(r) /\ ChunksOf(s1) \subseteq ChunksOf(s)
        /\ Within(q1) \subseteq Within(q) /\ ChunksOf(o1) \subseteq ChunksOf(o)
    BY <1>1
  <2> QED
    BY <2>1 DEF AllOf
<1> QED
  BY <1>2, <1>3, <1>4 DEF Distinct

-----------------------------------------------------------------------------
(* What a step leaves of the text.                                         *)

LEMMA TextTypes ==
    ASSUME SpeechShapes, NEW u \in Utterances
    PROVE  /\ heard[u] \in Spoken /\ OnDevice(u) \in Seq(Spoken) /\ item[u].player \in Spoken
           /\ speech[u].prepared \in Seq(Spoken) /\ item[u].synth \in Spoken
           /\ speech[u].queue \in Seq(Spoken) /\ speech[u].overflow \in Spoken
           /\ speech[u].next \in Nat
           /\ Len(heard[u]) \in Nat /\ Len(OnDevice(u)) \in Nat /\ Len(item[u].player) \in Nat
           /\ Len(speech[u].prepared) \in Nat /\ Len(item[u].synth) \in Nat
           /\ Len(speech[u].queue) \in Nat
<1>1. /\ heard[u] \in Spoken /\ item[u].player \in Spoken /\ speech[u].prepared \in Seq(Spoken)
      /\ item[u].synth \in Spoken /\ speech[u].overflow \in Spoken /\ speech[u].next \in Nat
  BY FieldTypes DEF SpeechShapes
<1>2. speech[u].queue \in Seq(Spoken)
  <2>1. speech[u].queue \in Seq(Spoken \ {STOP}) /\ Spoken \ {STOP} \subseteq Spoken
    BY FieldTypes
  <2> QED
    BY <2>1, SeqMonotonic
<1>3. OnDevice(u) \in Seq(Spoken)
  <2>1. device.chunks \in Seq(Spoken) /\ <<>> \in Seq(Spoken)
    BY EmptySeq DEF SpeechShapes, DeviceRecords
  <2> QED
    BY <2>1 DEF OnDevice
<1>4. /\ Len(heard[u]) \in Nat /\ Len(item[u].player) \in Nat /\ Len(item[u].synth) \in Nat
  BY <1>1, LenProperties DEF Spoken
<1>5. /\ Len(OnDevice(u)) \in Nat /\ Len(speech[u].prepared) \in Nat
      /\ Len(speech[u].queue) \in Nat
  BY <1>1, <1>2, <1>3, LenProperties
<1> QED
  BY <1>1, <1>2, <1>3, <1>4, <1>5

\* A step that moves no text but may drop some, of which it leaves a mark.
LEMMA TextStays ==
    ASSUME NEW u \in Utterances, NothingTwice(u), TextIsWhole(u), InLine(u),
           heard'[u] = heard[u], speech'[u].next = speech[u].next,
           speech'[u].committed = speech[u].committed,
           speech[u].closed => speech'[u].closed,
           OnDevice(u)' = OnDevice(u) \/ (OnDevice(u)' = <<>> /\ ~Open(u)'),
           item'[u].player = item[u].player \/ (item'[u].player = <<>> /\ ~PlayerOn(u)'),
           speech'[u].prepared = speech[u].prepared
              \/ (speech'[u].prepared = <<>> /\ ~PlayerOn(u)'),
           item'[u].synth = item[u].synth
              \/ (item'[u].synth = <<>> /\ (~PlayerOn(u)' \/ ~SynthOn(u)')),
           speech'[u].queue = speech[u].queue \/ (speech'[u].queue = <<>> /\ ~PlayerOn(u)'),
           speech'[u].overflow = speech[u].overflow
              \/ (speech'[u].overflow = <<>> /\ ~PlayerOn(u)'),
           Open(u)' => Open(u), PlayerOn(u)' => PlayerOn(u),
           SynthOn(u)' => SynthOn(u) \/ ~PlayerOn(u)',
           at[u].synth = "dead" => at'[u].synth = "dead" \/ ~SynthOn(u)',
           Flowing(u)' => Flowing(u) /\ Open(u)'
    PROVE  NothingTwice(u)' /\ TextIsWhole(u)' /\ InLine(u)'
<1>1. NothingTwice(u)'
  <2>1. /\ OnDevice(u)' \in {OnDevice(u), <<>>} /\ item'[u].player \in {item[u].player, <<>>}
        /\ speech'[u].prepared \in {speech[u].prepared, <<>>}
        /\ item'[u].synth \in {item[u].synth, <<>>}
        /\ speech'[u].queue \in {speech[u].queue, <<>>}
        /\ speech'[u].overflow \in {speech[u].overflow, <<>>}
    OBVIOUS
  <2>2. /\ Distinct(heard[u], OnDevice(u)', item'[u].player, speech'[u].prepared,
                    item'[u].synth, speech'[u].queue, speech'[u].overflow)
        /\ AllOf(heard[u], OnDevice(u)', item'[u].player, speech'[u].prepared,
                 item'[u].synth, speech'[u].queue, speech'[u].overflow) \subseteq Text(u)
    BY <2>1, DistinctDropped DEF NothingTwice, Text
  <2> QED
    BY <2>2 DEF NothingTwice, Text
<1>2. ASSUME Flowing(u)' PROVE Text(u)' = 1..speech'[u].next
  <2>1. PlayerOn(u)' /\ SynthOn(u)' /\ Open(u)'
    BY <1>2 DEF Flowing
  <2>2. Text(u)' = Text(u)
    BY <2>1 DEF Text
  <2> QED
    BY <1>2, <2>2 DEF TextIsWhole
<1>3. ASSUME speech[u].committed PROVE InLine(u)'
  <2>1. Inorder(heard[u]) /\ QueueInLine(OnDevice(u), Len(heard[u]))
    BY <1>3 DEF InLine
  <2>2. QueueInLine(OnDevice(u)', Len(heard[u]))
    <3>1. QueueInLine(<<>>, Len(heard[u]))
      BY NoChunks DEF QueueInLine
    <3> QED
      BY <2>1, <3>1
  <2>3. ASSUME Open(u)'
        PROVE  Open(u) /\ Rest(u)' = Rest(u) /\ item'[u].player \in {<<>>, <<Rest(u) + 1>>}
    <3>1. Open(u) /\ Rest(u)' = Rest(u)
      BY <2>3 DEF Rest
    <3> QED
      BY <1>3, <3>1 DEF InLine
  <2>4. ASSUME Open(u)', PlayerOn(u)'
        PROVE  /\ Open(u) /\ PlayerOn(u) /\ Ready(u)' = Ready(u)
               /\ speech'[u].prepared = speech[u].prepared
    BY <2>3, <2>4 DEF Ready
  <2>5. ASSUME Open(u)', PlayerOn(u)', SynthOn(u)', at'[u].synth # "dead"
        PROVE  /\ Open(u) /\ PlayerOn(u) /\ SynthOn(u) /\ at[u].synth # "dead"
               /\ Ready(u)' = Ready(u) /\ Made(u)' = Made(u)
               /\ speech'[u].prepared = speech[u].prepared
               /\ item'[u].synth = item[u].synth /\ speech'[u].queue = speech[u].queue
    BY <2>4, <2>5 DEF Made
  <2>6. Inorder(heard[u])' /\ QueueInLine(OnDevice(u), Len(heard[u]))'
    BY <2>1, <2>2 DEF Inorder, QueueInLine
  <2>7. Open(u)' => item'[u].player \in {<<>>, <<Rest(u)' + 1>>}
    BY <2>3
  <2>8. Open(u)' /\ PlayerOn(u)' =>
            \A k \in 1..Len(speech'[u].prepared) :
                speech'[u].prepared[k] \in {STOP, <<Ready(u)' + k>>}
    BY <1>3, <2>4 DEF InLine
  <2>9. Open(u)' /\ PlayerOn(u)' /\ SynthOn(u)' /\ at'[u].synth # "dead" =>
            /\ item'[u].synth \in {<<>>, <<Ready(u)' + Len(speech'[u].prepared) + 1>>}
            /\ QueueInLine(speech'[u].queue, Made(u)')
            /\ ~speech'[u].closed => speech'[u].next = Made(u)' + Len(speech'[u].queue)
    <3> SUFFICES ASSUME Open(u)', PlayerOn(u)', SynthOn(u)', at'[u].synth # "dead"
                 PROVE  /\ item'[u].synth \in {<<>>, <<Ready(u)' + Len(speech'[u].prepared) + 1>>}
                        /\ QueueInLine(speech'[u].queue, Made(u)')
                        /\ ~speech'[u].closed
                           => speech'[u].next = Made(u)' + Len(speech'[u].queue)
      OBVIOUS
    <3>1. /\ item[u].synth \in {<<>>, <<Ready(u) + Len(speech[u].prepared) + 1>>}
          /\ QueueInLine(speech[u].queue, Made(u))
          /\ ~speech[u].closed => speech[u].next = Made(u) + Len(speech[u].queue)
      BY <1>3, <2>5 DEF InLine
    <3> QED
      BY <2>5, <3>1
  <2> QED
    BY <2>6, <2>7, <2>8, <2>9 DEF InLine, QueueInLine
<1>4. ASSUME ~speech[u].committed PROVE InLine(u)'
  <2>1. ~(speech'[u].committed)
    BY <1>4
  <2> QED
    BY <2>1 DEF InLine
<1> QED
  BY <1>1, <1>2, <1>3, <1>4 DEF TextIsWhole

\* A step of u leaves the others alone.
Elsewhere(u) ==
    \A w \in Utterances \ {u} :
        /\ speech'[w] = speech[w] /\ at'[w] = at[w] /\ item'[w] = item[w]
        /\ worker'[w] = worker[w] /\ heard'[w] = heard[w]
DeviceIsFree(u) ==
    \/ device' = device
    \/ device'.generation > device.generation
    \/ device'.generation = device.generation /\ Current(u)

LEMMA OneCurrent ==
    ASSUME SpeechIInv, NEW u \in Utterances, NEW w \in Utterances, Current(u), Current(w)
    PROVE  u = w
  BY DEF SpeechIInv, SessionsApart, Current

\* A session that is neither ended nor replaced is the one to append to.
LEMMA CurrentIsOpen ==
    ASSUME SpeechIInv, NEW u \in Utterances
    PROVE  Flowing(u) => Open(u)
  BY DEF SpeechIInv, UtteranceFacts, DeviceServes, Flowing, Open, Current

LEMMA OthersText ==
    ASSUME SpeechIInv, SpeechIInv', NEW u \in Utterances, Elsewhere(u), DeviceIsFree(u),
           speechGeneration' = speechGeneration, NEW w \in Utterances \ {u}, TextFacts(w)
    PROVE  TextFacts(w)'
<1>1. /\ speech'[w] = speech[w] /\ at'[w] = at[w] /\ item'[w] = item[w]
      /\ worker'[w] = worker[w] /\ heard'[w] = heard[w] /\ w \in Utterances
  BY DEF Elsewhere
<1>2. IsSet(w)' <=> IsSet(w)
  BY <1>1 DEF IsSet
<1>3. (PlayerOn(w)' <=> PlayerOn(w)) /\ (SynthOn(w)' <=> SynthOn(w))
  BY <1>1, <1>2 DEF PlayerOn, SynthOn
<1>4. \/ device' = device
      \/ ~Current(w)' /\ ~Current(w)
      \/ ~Current(w)' /\ worker[w].at # "none"
  <2>1. CASE device'.generation > device.generation
    <3>1. worker[w].generation <= device.generation
      BY DEF SpeechIInv, UtteranceFacts, GenerationsKnown
    <3>2. worker[w].generation \in Nat /\ device.generation \in Nat /\ device'.generation \in Nat
      BY FieldTypes DEF SpeechIInv, SpeechShapes, DeviceRecords
    <3>3. ~Current(w)'
      BY <1>1, <2>1, <3>1, <3>2 DEF Current
    <3> QED
      BY <3>3 DEF Current
  <2>2. CASE device'.generation = device.generation /\ Current(u)
    <3>1. ~Current(w)
      BY <2>2, <1>1, OneCurrent
    <3> QED
      BY <1>1, <2>2, <3>1 DEF Current
  <2> QED
    BY <2>1, <2>2 DEF DeviceIsFree
<1>5. /\ OnDevice(w)' = OnDevice(w) \/ (OnDevice(w)' = <<>> /\ ~Open(w)')
      /\ Open(w)' => Open(w)
      /\ Flowing(w)' => Flowing(w)
  <2>1. CASE device' = device
    <3>1. Current(w)' <=> Current(w)
      BY <1>1, <2>1 DEF Current
    <3> QED
      BY <1>1, <1>3, <2>1, <3>1 DEF OnDevice, Open, Flowing
  <2>2. CASE ~Current(w)' /\ ~Current(w)
    BY <1>1, <1>3, <2>2 DEF OnDevice, Open, Flowing
  <2>3. CASE ~Current(w)' /\ worker[w].at # "none"
    BY <1>1, <1>3, <2>3 DEF OnDevice, Open, Flowing
  <2> QED
    BY <1>4, <2>1, <2>2, <2>3
<1>6. Flowing(w)' => Open(w)'
  BY <1>1, CurrentIsOpen, <1>5 DEF SpeechIInv, UtteranceFacts, DeviceServes, Flowing, Open, Current
<1>7. NothingTwice(w)' /\ TextIsWhole(w)' /\ InLine(w)'
  BY <1>1, <1>3, <1>5, <1>6, TextStays DEF TextFacts
<1>8. HandsKnown(w)' /\ Sentinel(w)'
  BY <1>1, <1>2 DEF TextFacts, HandsKnown, Sentinel
<1>9. SessionEnds(w)'
  <2>1. CASE device' = device
    BY <1>1, <1>2, <2>1 DEF TextFacts, SessionEnds, Current
  <2>2. CASE ~Current(w)'
    BY <2>2 DEF SessionEnds
  <2> QED
    BY <1>4, <2>1, <2>2
<1>10. EndIsTrue(w)'
  BY <1>1 DEF TextFacts, EndIsTrue, AllHeard
<1> QED
  BY <1>7, <1>8, <1>9, <1>10 DEF TextFacts

\* A step keeps all text facts if it keeps those of its utterance.
LEMMA TextGoesOn ==
    ASSUME SpeechIInv, SpeechIInv', TextIInv, NEW u \in Utterances, Elsewhere(u), DeviceIsFree(u),
           speechGeneration' = speechGeneration, device'.session \in {0, device'.generation},
           TextFacts(u)'
    PROVE  TextIInv'
<1>1. \A w \in Utterances : TextFacts(w)'
  <2> TAKE w \in Utterances
  <2>1. CASE w # u
    BY <2>1, OthersText DEF TextIInv
  <2> QED
    BY <2>1
<1> QED
  BY <1>1 DEF TextIInv

\* Where a playback thread still has something to play.
PlayingPlaces == {"get", "item", "begin", "opened", "append", "appended", "drain"}

\* The device is the same, another's, or closed for the thread that waits for its end.
DeviceStays(u) ==
    \/ device' = device
    \/ device'.generation > device.generation
    \/ /\ device'.generation = device.generation /\ device'.session = device.session
       /\ device'.chunks = device.chunks /\ device'.closed /\ at'[u].player = "drain"

LEMMA DeviceText ==
    ASSUME SpeechIInv, SpeechIInv', NEW u \in Utterances, worker'[u] = worker[u], DeviceStays(u)
    PROVE  /\ OnDevice(u)' = OnDevice(u) \/ (OnDevice(u)' = <<>> /\ ~Open(u)')
           /\ Open(u)' => Open(u)
           /\ Current(u)' => Current(u) /\ device'.generation = device.generation
                             /\ device'.session = device.session
                             /\ device'.chunks = device.chunks
                             /\ (device'.closed = device.closed
                                 \/ (device'.closed /\ at'[u].player = "drain"))
<1>1. CASE device'.generation > device.generation
  <2>1. worker[u].generation <= device.generation
    BY DEF SpeechIInv, UtteranceFacts, GenerationsKnown
  <2>2. worker[u].generation \in Nat /\ device.generation \in Nat /\ device'.generation \in Nat
    BY FieldTypes DEF SpeechIInv, SpeechShapes, DeviceRecords
  <2>3. ~Current(u)'
    BY <1>1, <2>1, <2>2 DEF Current
  <2>4. worker[u].at = "none" => OnDevice(u) = <<>>
    BY DEF OnDevice, Current
  <2> QED
    BY <2>3, <2>4 DEF Open, OnDevice
<1>2. CASE ~(device'.generation > device.generation)
  <2>1. /\ device'.generation = device.generation /\ device'.session = device.session
        /\ device'.chunks = device.chunks
        /\ (device'.closed = device.closed \/ (device'.closed /\ at'[u].player = "drain"))
    BY <1>2 DEF DeviceStays
  <2>2. Current(u)' <=> Current(u)
    BY <2>1 DEF Current
  <2> QED
    BY <2>1, <2>2 DEF Open, OnDevice
<1> QED
  BY <1>1, <1>2

\* A step that moves no text.
LEMMA ControlText ==
    ASSUME SpeechIInv, SpeechIInv', NEW u \in Utterances, TextFacts(u),
           heard'[u] = heard[u], worker'[u] = worker[u], DeviceStays(u),
           speech'[u].next = speech[u].next, speech'[u].committed = speech[u].committed,
           speech[u].closed => speech'[u].closed, IsSet(u) => IsSet(u)',
           item'[u].player = item[u].player \/ (item'[u].player = <<>> /\ ~PlayerOn(u)'),
           speech'[u].prepared = speech[u].prepared
              \/ (speech'[u].prepared = <<>> /\ IsSet(u)'),
           item'[u].synth = item[u].synth
              \/ (item'[u].synth = <<>> /\ (IsSet(u)' \/ ~SynthOn(u)')),
           speech'[u].queue = speech[u].queue \/ (speech'[u].queue = <<>> /\ IsSet(u)'),
           speech'[u].overflow = speech[u].overflow
              \/ (speech'[u].overflow = <<>> /\ IsSet(u)'),
           at'[u].player \in PlayingPlaces => at[u].player \in PlayingPlaces,
           SynthOn(u)' => SynthOn(u) \/ IsSet(u)',
           at[u].synth = "dead" => at'[u].synth = "dead" \/ ~SynthOn(u)',
           HandsKnown(u)', IsSet(u)' \/ Sentinel(u)',
           \/ IsSet(u)' \/ ~Current(u) \/ worker[u].at \notin {"playing", "drained"}
           \/ at[u].player = "drain" => at'[u].player = "drain",
           speech'[u].outcome = "completed" =>
              /\ AllHeard(u) /\ worker[u].at \in {"none", "dead"}
              /\ at'[u].player \in {"final", "complete", "dead"}
    PROVE  TextFacts(u)'
<1>1. PlayerOn(u)' => PlayerOn(u) /\ ~IsSet(u)'
  BY DEF PlayerOn, PlayingPlaces
<1>2. /\ OnDevice(u)' = OnDevice(u) \/ (OnDevice(u)' = <<>> /\ ~Open(u)')
      /\ Open(u)' => Open(u)
      /\ Current(u)' => Current(u) /\ device'.chunks = device.chunks
                        /\ (device'.closed = device.closed
                            \/ (device'.closed /\ at'[u].player = "drain"))
  BY DeviceText
<1>3. Flowing(u)' => Flowing(u) /\ Open(u)'
  <2>1. Flowing(u)' => Flowing(u)
    BY <1>1, <1>2 DEF Flowing
  <2>2. Flowing(u)' => Open(u)'
    BY DEF SpeechIInv, UtteranceFacts, DeviceServes, Flowing, Open, Current
  <2> QED
    BY <2>1, <2>2
<1>4. NothingTwice(u)' /\ TextIsWhole(u)' /\ InLine(u)'
  <2>1. NothingTwice(u) /\ TextIsWhole(u) /\ InLine(u)
    BY DEF TextFacts
  <2> QED
    BY <1>1, <1>2, <1>3, <2>1, TextStays
<1>5. Sentinel(u)'
  BY DEF Sentinel
<1>6. SessionEnds(u)'
  <2>1. SessionEnds(u)
    BY DEF TextFacts
  <2>2. ASSUME worker[u].at \in {"playing", "drained"}, Current(u)', device'.closed, ~IsSet(u)'
        PROVE  at'[u].player = "drain"
    BY <1>2, <2>1, <2>2 DEF SessionEnds
  <2>3. ASSUME worker[u].at = "drained", Current(u)'
        PROVE  device'.closed /\ device'.chunks = <<>>
    BY <1>2, <2>1, <2>3 DEF SessionEnds
  <2> QED
    BY <2>2, <2>3 DEF SessionEnds
<1>7. EndIsTrue(u)'
  <2>1. AllHeard(u) => AllHeard(u)'
    BY DEF AllHeard
  <2> QED
    BY <2>1 DEF TextFacts, EndIsTrue
<1> QED
  BY <1>4, <1>5, <1>6, <1>7 DEF TextFacts

\* Nothing the text depends on changes.
LEMMA TextUntouched ==
    ASSUME TextIInv, UNCHANGED <<speech, at, item, audio, speechGeneration>>
    PROVE  TextIInv'
<1> SUFFICES ASSUME NEW u \in Utterances PROVE TextFacts(u)'
  BY DEF TextIInv, audio
<1>1. TextFacts(u)
  BY DEF TextIInv
<1>2. /\ speech' = speech /\ at' = at /\ item' = item /\ worker' = worker /\ device' = device
      /\ heard' = heard /\ speechGeneration' = speechGeneration
  BY DEF audio
<1>3. (Current(u)' <=> Current(u)) /\ (IsSet(u)' <=> IsSet(u))
  BY <1>2 DEF Current, IsSet
<1>4. OnDevice(u)' = OnDevice(u)
  BY <1>2, <1>3 DEF OnDevice
<1>5. /\ Open(u)' <=> Open(u)
      /\ PlayerOn(u)' <=> PlayerOn(u)
      /\ SynthOn(u)' <=> SynthOn(u)
  BY <1>2, <1>3 DEF Open, PlayerOn, SynthOn
<1>6. Flowing(u)' <=> Flowing(u)
  BY <1>2, <1>3, <1>5 DEF Flowing
<1>7. NothingTwice(u)' /\ TextIsWhole(u)'
  BY <1>1, <1>2, <1>4, <1>6 DEF TextFacts, NothingTwice, TextIsWhole, Text
<1>8. InLine(u)'
  <2>1. Rest(u)' = Rest(u) /\ Ready(u)' = Ready(u) /\ Made(u)' = Made(u)
    BY <1>2, <1>4 DEF Rest, Ready, Made
  <2> QED
    BY <1>1, <1>2, <1>4, <1>5, <2>1 DEF TextFacts, InLine, QueueInLine, Inorder
<1>9. HandsKnown(u)' /\ Sentinel(u)' /\ SessionEnds(u)' /\ EndIsTrue(u)'
  BY <1>1, <1>2, <1>3 DEF TextFacts, HandsKnown, Sentinel, SessionEnds, EndIsTrue, AllHeard
<1> QED
  BY <1>7, <1>8, <1>9 DEF TextFacts

-----------------------------------------------------------------------------
(* The text and its producer.                                              *)

LEMMA Counts ==
    ASSUME SpeechShapes, NEW u \in Utterances
    PROVE  Rest(u) \in Nat /\ Ready(u) \in Nat /\ Made(u) \in Nat
<1>1. Rest(u) \in Nat
  BY TextTypes DEF Rest
<1>2. Ready(u) \in Nat
  BY <1>1, TextTypes DEF Ready
<1>3. Len(speech[u].prepared) \in Nat /\ Len(item[u].synth) \in Nat
  BY TextTypes
<1>4. \A l, m, n \in Nat : l + m + n \in Nat
  OBVIOUS
<1>5. Made(u) \in Nat
  BY <1>2, <1>3, <1>4 DEF Made
<1> QED
  BY <1>1, <1>2, <1>5

\* A chunk more in line.
LEMMA LineGrows ==
    ASSUME NEW S, NEW ss \in Seq(S), NEW n \in Nat, QueueInLine(ss, n), <<n + Len(ss) + 1>> \in S
    PROVE  QueueInLine(Append(ss, <<n + Len(ss) + 1>>), n)
<1>0. PICK x : x = <<n + Len(ss) + 1>>
  OBVIOUS
<1> PICK t : t = Append(ss, x)
  OBVIOUS
<1>1. /\ Len(ss) \in Nat /\ Len(t) = Len(ss) + 1 /\ t[Len(ss) + 1] = x
      /\ \A i \in 1..Len(ss) : t[i] = ss[i]
  BY <1>0, AppendProperties, LenProperties
<1>2. \A k \in 1..Len(t) : k \in 1..Len(ss) \/ k = Len(ss) + 1
  BY <1>1
<1>3. n + (Len(ss) + 1) = n + Len(ss) + 1
  BY <1>1
<1>4. QueueInLine(t, n)
  BY <1>0, <1>1, <1>2, <1>3 DEF QueueInLine
<1> QED
  BY <1>0, <1>4

\* submit() or the feeder hands over the next chunk of a queue that is not closed.
LEMMA TextSubmitted ==
    ASSUME SpeechIInv, SpeechIInv', TextIInv, NEW u \in Utterances,
           ~speech[u].closed, speech[u].next < MaxUnits,
           UNCHANGED <<at, item, audio, speechGeneration>>,
           NEW q \in SpeechRecords, speech' = [speech EXCEPT ![u] = q],
           q.committed = speech[u].committed, q.born = speech[u].born,
           q.cancelled = speech[u].cancelled, q.closed = speech[u].closed,
           q.failed = speech[u].failed, q.outcome = speech[u].outcome,
           q.reported = speech[u].reported, q.prepared = speech[u].prepared,
           q.next = speech[u].next + 1,
           \/ /\ q.queue = Append(speech[u].queue, <<speech[u].next + 1>>)
              /\ q.overflow = speech[u].overflow
           \/ /\ q.overflow = Append(speech[u].overflow, speech[u].next + 1)
              /\ q.queue = speech[u].queue /\ ~q.committed
              /\ ~IsSet(u) /\ at[u].synth = "closing" => q.queue # <<>>
    PROVE  TextIInv'
<1>0. SpeechShapes
  BY DEF SpeechIInv
<1>1. speech'[u] = q /\ \A w \in Utterances \ {u} : speech'[w] = speech[w]
  BY <1>0 DEF SpeechShapes
<1>2. /\ at' = at /\ item' = item /\ worker' = worker /\ device' = device
      /\ heard' = heard /\ speechGeneration' = speechGeneration
  BY DEF audio
<1>3. TextFacts(u) /\ device.session \in {0, device.generation}
  BY DEF TextIInv
<1>4. (Current(u)' <=> Current(u)) /\ (IsSet(u)' <=> IsSet(u))
  BY <1>1, <1>2 DEF Current, IsSet
<1>5. OnDevice(u)' = OnDevice(u)
  BY <1>2, <1>4 DEF OnDevice
<1>6. /\ Open(u)' <=> Open(u)
      /\ PlayerOn(u)' <=> PlayerOn(u)
      /\ SynthOn(u)' <=> SynthOn(u)
  BY <1>2, <1>4 DEF Open, PlayerOn, SynthOn
<1>7. Flowing(u)' <=> Flowing(u)
  BY <1>2, <1>4, <1>6 DEF Flowing
<1>8. PICK x : x = speech[u].next + 1
  OBVIOUS
<1>9. x \in 1..MaxUnits /\ x \notin 1..speech[u].next /\ 1..x = 1..speech[u].next \cup {x}
      /\ <<x>> \in Spoken
  <2>1. speech[u].next \in Nat /\ x \in 1..MaxUnits /\ <<x>> \in Spoken
    BY <1>0, <1>8, NextChunk, TextTypes
  <2> QED
    BY <1>8, <2>1
<1>10. /\ Distinct(heard[u], OnDevice(u), item[u].player, speech[u].prepared, item[u].synth,
                   q.queue, q.overflow)
       /\ AllOf(heard[u], OnDevice(u), item[u].player, speech[u].prepared, item[u].synth,
                q.queue, q.overflow) = Text(u) \cup {x}
  <2>1. /\ Distinct(heard[u], OnDevice(u), item[u].player, speech[u].prepared, item[u].synth,
                    speech[u].queue, speech[u].overflow)
        /\ x \notin Text(u)
    BY <1>3, <1>9 DEF TextFacts, NothingTwice
  <2>2. PICK S : S = 1..MaxUnits
    OBVIOUS
  <2>3. /\ speech[u].queue \in Seq(Seq(S)) /\ speech[u].overflow \in Seq(S) /\ x \in S
        /\ x \notin AllOf(heard[u], OnDevice(u), item[u].player, speech[u].prepared,
                         item[u].synth, speech[u].queue, speech[u].overflow)
    BY <1>0, <1>9, <2>1, <2>2, TextTypes DEF Spoken, Text
  <2>4. /\ Distinct(heard[u], OnDevice(u), item[u].player, speech[u].prepared, item[u].synth,
                    Append(speech[u].queue, <<x>>), speech[u].overflow)
        /\ Distinct(heard[u], OnDevice(u), item[u].player, speech[u].prepared, item[u].synth,
                    speech[u].queue, Append(speech[u].overflow, x))
    BY <2>1, <2>3, DistinctSubmitted
  <2>5. /\ Within(Append(speech[u].queue, <<x>>)) = Within(speech[u].queue) \cup {x}
        /\ ChunksOf(Append(speech[u].overflow, x)) = ChunksOf(speech[u].overflow) \cup {x}
    BY <2>3, ChunkPut, ChunkJoins
  <2>6. \/ q.queue = Append(speech[u].queue, <<x>>) /\ q.overflow = speech[u].overflow
        \/ q.overflow = Append(speech[u].overflow, x) /\ q.queue = speech[u].queue
    BY <1>8
  <2>7. AllOf(heard[u], OnDevice(u), item[u].player, speech[u].prepared, item[u].synth,
                q.queue, q.overflow) = Text(u) \cup {x}
    BY <2>5, <2>6 DEF AllOf, Text
  <2> QED
    BY <2>4, <2>6, <2>7
<1>11. Text(u)' = Text(u) \cup {x}
  BY <1>1, <1>2, <1>5, <1>10 DEF Text
<1>12. NothingTwice(u)'
  <2>1. Text(u)' \subseteq 1..x
    BY <1>3, <1>9, <1>11 DEF TextFacts, NothingTwice
  <2> QED
    BY <1>1, <1>2, <1>5, <1>8, <1>10, <2>1 DEF NothingTwice
<1>13. TextIsWhole(u)'
  BY <1>1, <1>3, <1>7, <1>8, <1>9, <1>11 DEF TextFacts, TextIsWhole
<1>14. InLine(u)'
  <2> SUFFICES ASSUME q.committed
               PROVE  InLine(u)'
    BY <1>1 DEF InLine
  <2>1. q.queue = Append(speech[u].queue, <<x>>)
    BY <1>8
  <2>2. Rest(u)' = Rest(u) /\ Ready(u)' = Ready(u) /\ Made(u)' = Made(u)
    BY <1>1, <1>2, <1>5 DEF Rest, Ready, Made
  <2>3. /\ Inorder(heard[u]) /\ QueueInLine(OnDevice(u), Len(heard[u]))
        /\ Open(u) => item[u].player \in {<<>>, <<Rest(u) + 1>>}
        /\ Open(u) /\ PlayerOn(u) =>
              \A k \in 1..Len(speech[u].prepared) :
                  speech[u].prepared[k] \in {STOP, <<Ready(u) + k>>}
    BY <1>3 DEF TextFacts, InLine
  <2>4. ASSUME Open(u), PlayerOn(u), SynthOn(u), at[u].synth # "dead"
        PROVE  /\ item[u].synth \in {<<>>, <<Ready(u) + Len(speech[u].prepared) + 1>>}
               /\ QueueInLine(q.queue, Made(u))
               /\ q.next = Made(u) + Len(q.queue)
    <3>1. /\ item[u].synth \in {<<>>, <<Ready(u) + Len(speech[u].prepared) + 1>>}
          /\ QueueInLine(speech[u].queue, Made(u))
          /\ speech[u].next = Made(u) + Len(speech[u].queue)
      BY <1>3, <2>4 DEF TextFacts, InLine
    <3>2. /\ Made(u) \in Nat /\ Len(speech[u].queue) \in Nat
          /\ speech[u].queue \in Seq(Spoken)
      BY <1>0, TextTypes, Counts
    <3>3. x = Made(u) + Len(speech[u].queue) + 1
      BY <1>8, <3>1
    <3>4. QueueInLine(q.queue, Made(u))
      BY <1>9, <2>1, <3>1, <3>2, <3>3, LineGrows
    <3>5. Len(q.queue) = Len(speech[u].queue) + 1
      BY <1>9, <2>1, <3>2, AppendProperties
    <3>6. q.next = Made(u) + Len(q.queue)
      BY <1>8, <3>2, <3>3, <3>5
    <3> QED
      BY <3>1, <3>4, <3>6
  <2> QED
    BY <1>1, <1>2, <1>5, <1>6, <2>2, <2>3, <2>4 DEF InLine, QueueInLine, Inorder
<1>15. HandsKnown(u)'
  BY <1>1, <1>2, <1>3 DEF TextFacts, HandsKnown
<1>16. Sentinel(u)'
  <2>1. ~IsSet(u) /\ at[u].synth = "closing" => q.queue # <<>>
    <3>1. speech[u].queue \in Seq(Spoken)
      BY <1>0, TextTypes
    <3>2. Append(speech[u].queue, <<x>>) # <<>>
      BY <1>9, <3>1, Chunked
    <3> QED
      BY <1>8, <3>2
  <2>2. ASSUME ~IsSet(u)
        PROVE  /\ at[u].synth \notin {"stop", "dead"}
               /\ \A k \in 1..Len(speech[u].prepared) : speech[u].prepared[k] # STOP
               /\ at[u].player \notin {"drain", "verdict"}
               /\ ~(at[u].player = "item" /\ item[u].player = STOP)
    BY <1>3, <2>2 DEF TextFacts, Sentinel
  <2> QED
    BY <1>1, <1>2, <1>4, <2>1, <2>2 DEF Sentinel
<1>17. SessionEnds(u)'
  BY <1>2, <1>3, <1>4 DEF TextFacts, SessionEnds
<1>18. EndIsTrue(u)'
  BY <1>1, <1>2, <1>3 DEF TextFacts, EndIsTrue, AllHeard
<1>19. TextFacts(u)'
  BY <1>12, <1>13, <1>14, <1>15, <1>16, <1>17, <1>18 DEF TextFacts
<1>20. Elsewhere(u) /\ DeviceIsFree(u)
  BY <1>1, <1>2 DEF Elsewhere, DeviceIsFree
<1> QED
  BY <1>2, <1>3, <1>19, <1>20, TextGoesOn

LEMMA SubmitText ==
    ASSUME SpeechIInv, SpeechIInv', TextIInv, NEW u \in Utterances, Submit(u)
    PROVE  TextIInv'
<1>0. SpeechShapes /\ UtteranceFacts(u) /\ speech[u] \in SpeechRecords
  BY FieldTypes DEF SpeechIInv
<1>1. /\ turn[u] = "submitting" /\ ~speech[u].committed /\ speech[u].next < MaxUnits
      /\ UNCHANGED <<at, item, audio, speechGeneration>>
  BY <1>0 DEF Submit, UtteranceFacts, QueuesBounded, service
<1>2. CASE speech[u].cancelled \/ speech[u].closed
  <2>1. speech' = speech
    BY <1>2 DEF Submit
  <2> QED
    BY <1>1, <2>1, TextUntouched
<1>3. CASE ~(speech[u].cancelled \/ speech[u].closed)
  <2>1. PICK q : q = speech'[u]
    OBVIOUS
  <2>2. q \in SpeechRecords /\ speech' = [speech EXCEPT ![u] = q]
    <3>1. speech' \in [Utterances -> SpeechRecords]
      BY DEF SpeechIInv, SpeechShapes
    <3>2. \A w \in Utterances \ {u} : speech'[w] = speech[w]
      BY <1>0, <1>3 DEF Submit, SpeechShapes
    <3> QED
      BY <1>0, <2>1, <3>1, <3>2 DEF SpeechShapes
  <2>3. /\ q.committed = speech[u].committed /\ q.born = speech[u].born
        /\ q.cancelled = speech[u].cancelled /\ q.closed = speech[u].closed
        /\ q.failed = speech[u].failed /\ q.outcome = speech[u].outcome
        /\ q.reported = speech[u].reported /\ q.prepared = speech[u].prepared
        /\ q.next = speech[u].next + 1
        /\ \/ /\ q.queue = Append(speech[u].queue, <<speech[u].next + 1>>)
              /\ q.overflow = speech[u].overflow
           \/ /\ q.overflow = Append(speech[u].overflow, speech[u].next + 1)
              /\ q.queue = speech[u].queue
              /\ ~(speech[u].overflow = <<>> /\ Len(speech[u].queue) < MaxChunks)
    BY <1>0, <1>3, <2>1 DEF Submit, SpeechShapes, SpeechRecords
  <2>4. ASSUME ~(speech[u].overflow = <<>> /\ Len(speech[u].queue) < MaxChunks), ~IsSet(u),
               at[u].synth = "closing"
        PROVE  speech[u].queue # <<>>
    <3>1. speech[u].overflow # <<>> => speech[u].queue # <<>>
      BY <2>4 DEF TextIInv, TextFacts, Sentinel
    <3>2. MaxChunks > 0 /\ Len(<<>>) = 0
      BY BoundsAssumption, NoChunks DEF BoundsAssumption
    <3> QED
      BY <2>4, <3>1, <3>2
  <2>5. ~speech[u].closed
    BY <1>3
  <2> QED
    BY <1>1, <2>2, <2>3, <2>4, <2>5, TextSubmitted
<1> QED
  BY <1>2, <1>3

LEMMA FeedText ==
    ASSUME SpeechIInv, SpeechIInv', TextIInv, NEW u \in Utterances, Feed(u)
    PROVE  TextIInv'
<1>0. SpeechShapes /\ UtteranceFacts(u) /\ speech[u] \in SpeechRecords
  BY FieldTypes DEF SpeechIInv
<1>1. /\ ~speech[u].closed /\ speech[u].next < MaxUnits
      /\ UNCHANGED <<at, item, audio, speechGeneration>>
  BY DEF Feed, service
<1>2. PICK q : q = speech'[u]
  OBVIOUS
<1>3. q \in SpeechRecords /\ speech' = [speech EXCEPT ![u] = q]
  <2>1. speech' \in [Utterances -> SpeechRecords]
    BY DEF SpeechIInv, SpeechShapes
  <2>2. \A w \in Utterances \ {u} : speech'[w] = speech[w]
    BY <1>0 DEF Feed, SpeechShapes
  <2> QED
    BY <1>0, <1>2, <2>1, <2>2 DEF SpeechShapes
<1>4. /\ q.committed = speech[u].committed /\ q.born = speech[u].born
      /\ q.cancelled = speech[u].cancelled /\ q.closed = speech[u].closed
      /\ q.failed = speech[u].failed /\ q.outcome = speech[u].outcome
      /\ q.reported = speech[u].reported /\ q.prepared = speech[u].prepared
      /\ q.next = speech[u].next + 1
      /\ q.queue = Append(speech[u].queue, <<speech[u].next + 1>>)
      /\ q.overflow = speech[u].overflow
  BY <1>0, <1>2 DEF Feed, SpeechShapes, SpeechRecords
<1> QED
  BY <1>1, <1>3, <1>4, TextSubmitted

-----------------------------------------------------------------------------
(* Steps that move no text.                                                *)

\* An abort leaves the device alone or to the next session.
LEMMA AbortedDevice ==
    ASSUME SpeechIInv, TextIInv, NEW u \in Utterances,
           device' \in {device, AbortStream(speech[u].playbackId)}
    PROVE  /\ device' = device \/ device'.generation > device.generation
           /\ device'.session \in {0, device'.generation}
<1>1. device.session \in {0, device.generation}
  BY DEF TextIInv
<1>2. device \in DeviceRecords /\ device.generation \in Nat
  BY DEF SpeechIInv, SpeechShapes, DeviceRecords
<1>3. CASE device' = device
  BY <1>1, <1>3
<1>4. CASE device' = Retired(device)
  <2>1. device'.generation = device.generation + 1 /\ device'.session = 0
    BY <1>2, <1>4, RetiredShape
  <2> QED
    BY <1>2, <2>1
<1> QED
  BY <1>3, <1>4 DEF AbortStream

LEMMA TextWalks ==
    ASSUME SpeechIInv, SpeechIInv', TextIInv, NEW u \in Utterances,
           UNCHANGED <<worker, heard, speechGeneration>>,
           device' \in {device, AbortStream(speech[u].playbackId)},
           \A w \in Utterances \ {u} :
               speech'[w] = speech[w] /\ at'[w] = at[w] /\ item'[w] = item[w],
           speech'[u].next = speech[u].next, speech'[u].committed = speech[u].committed,
           speech[u].closed => speech'[u].closed, IsSet(u) => IsSet(u)',
           item'[u].player = item[u].player \/ (item'[u].player = <<>> /\ ~PlayerOn(u)'),
           speech'[u].prepared = speech[u].prepared
              \/ (speech'[u].prepared = <<>> /\ IsSet(u)'),
           item'[u].synth = item[u].synth
              \/ (item'[u].synth = <<>> /\ (IsSet(u)' \/ ~SynthOn(u)')),
           speech'[u].queue = speech[u].queue \/ (speech'[u].queue = <<>> /\ IsSet(u)'),
           speech'[u].overflow = speech[u].overflow
              \/ (speech'[u].overflow = <<>> /\ IsSet(u)'),
           at'[u].player \in PlayingPlaces => at[u].player \in PlayingPlaces,
           SynthOn(u)' => SynthOn(u) \/ IsSet(u)',
           at[u].synth = "dead" => at'[u].synth = "dead" \/ ~SynthOn(u)',
           HandsKnown(u)', IsSet(u)' \/ Sentinel(u)',
           \/ IsSet(u)' \/ ~Current(u) \/ worker[u].at \notin {"playing", "drained"}
           \/ at[u].player = "drain" => at'[u].player = "drain",
           speech'[u].outcome = "completed" =>
              /\ AllHeard(u) /\ worker[u].at \in {"none", "dead"}
              /\ at'[u].player \in {"final", "complete", "dead"}
    PROVE  TextIInv'
<1>1. /\ device' = device \/ device'.generation > device.generation
      /\ device'.session \in {0, device'.generation}
  BY AbortedDevice
<1>2. DeviceStays(u) /\ DeviceIsFree(u)
  BY <1>1 DEF DeviceStays, DeviceIsFree
<1>3. Elsewhere(u)
  BY DEF Elsewhere
<1>4. heard'[u] = heard[u] /\ worker'[u] = worker[u] /\ TextFacts(u)
  BY DEF TextIInv
<1>5. TextFacts(u)'
  BY <1>2, <1>4, ControlText
<1> QED
  BY <1>1, <1>2, <1>3, <1>5, TextGoesOn

\* The synthesis thread goes on.
LEMMA SynthText ==
    ASSUME SpeechIInv, SpeechIInv', TextIInv, NEW u \in Utterances,
           NEW step \in SynthSteps \cup AbortSteps, Goto(u, "synth", step),
           UNCHANGED <<speech, worker, device, heard, speechGeneration>>,
           item' = item \/ (Drop(u, "synth") /\ (IsSet(u) \/ step \in AbortSteps)),
           at[u].synth # "dead", at[u].synth \in AbortSteps => step \in AbortSteps,
           item'[u].synth # <<>> <=> step \in {"prepare", "put"},
           IsSet(u) \/ Sentinel(u)'
    PROVE  TextIInv'
<1>0. SpeechShapes /\ TextFacts(u)
  BY DEF SpeechIInv, TextIInv
<1>1. /\ at'[u].synth = step /\ at'[u].player = at[u].player
      /\ \A w \in Utterances \ {u} : at'[w] = at[w]
  BY <1>0, SynthGoes DEF SpeechShapes
<1>2. /\ item'[u].player = item[u].player
      /\ item'[u].synth = item[u].synth
         \/ (item'[u].synth = <<>> /\ (IsSet(u) \/ step \in AbortSteps))
      /\ \A w \in Utterances \ {u} : item'[w] = item[w]
  BY <1>0 DEF Drop, SpeechShapes, ItemRecords
<1>3. IsSet(u)' <=> IsSet(u)
  BY DEF IsSet
<1>4. HandsKnown(u)'
  BY <1>0, <1>1, <1>2 DEF TextFacts, HandsKnown
<1>5. /\ (SynthOn(u)' <=> step \notin AbortSteps)
      /\ (SynthOn(u) <=> at[u].synth \notin AbortSteps)
  BY <1>1 DEF SynthOn
<1>6. speech[u].outcome = "completed" =>
         /\ AllHeard(u) /\ worker[u].at \in {"none", "dead"}
         /\ at[u].player \in {"final", "complete", "dead"}
  BY <1>0 DEF TextFacts, EndIsTrue
<1>7. \A w \in Utterances \ {u} :
         speech'[w] = speech[w] /\ at'[w] = at[w] /\ item'[w] = item[w]
  BY <1>1, <1>2
<1>8. speech'[u] = speech[u] /\ device' \in {device, AbortStream(speech[u].playbackId)}
  OBVIOUS
<1> QED
  BY <1>1, <1>2, <1>3, <1>4, <1>5, <1>6, <1>7, <1>8, TextWalks

LEMMA SynthTimesOutText ==
    ASSUME SpeechIInv, SpeechIInv', TextIInv, NEW u \in Utterances, SynthTimesOut(u)
    PROVE  TextIInv'
<1>0. SpeechShapes /\ TextFacts(u)
  BY DEF SpeechIInv, TextIInv
<1>1. /\ at[u].synth = "get" /\ Goto(u, "synth", "empty") /\ ~IsSet(u)
      /\ UNCHANGED <<speech, item, worker, device, heard, speechGeneration>>
  BY DEF SynthTimesOut, At, audio, service
<1>2. at'[u].synth = "empty" /\ at'[u].player = at[u].player
  BY <1>0, <1>1, SynthGoes DEF SpeechShapes, SynthSteps
<1>3. Sentinel(u)'
  BY <1>0, <1>1, <1>2 DEF TextFacts, Sentinel, IsSet
<1>4. item'[u].synth # <<>> <=> "empty" \in {"prepare", "put"}
  BY <1>0, <1>1 DEF TextFacts, HandsKnown
<1>5. "empty" \in SynthSteps \cup AbortSteps /\ "get" \notin AbortSteps
  BY DEF SynthSteps, AbortSteps
<1> QED
  BY <1>1, <1>3, <1>4, <1>5, SynthText

LEMMA SynthEndsText ==
    ASSUME SpeechIInv, SpeechIInv', TextIInv, NEW u \in Utterances, SynthEnds(u)
    PROVE  TextIInv'
<1>0. SpeechShapes /\ TextFacts(u)
  BY DEF SpeechIInv, TextIInv
<1> PICK step : step = IF speech[u].closed /\ speech[u].queue = <<>> THEN "stop" ELSE "get"
  OBVIOUS
<1>1. /\ at[u].synth = "closing" /\ Goto(u, "synth", step)
      /\ UNCHANGED <<speech, item, worker, device, heard, speechGeneration>>
  BY DEF SynthEnds, At, audio, service
<1>2. /\ step \in {"get", "stop"}
      /\ step = "stop" => speech[u].closed /\ speech[u].queue = <<>>
  OBVIOUS
<1>3. step \in SynthSteps \cup AbortSteps /\ "closing" \notin AbortSteps
  BY <1>2 DEF SynthSteps, AbortSteps
<1>4. at'[u].synth = step /\ at'[u].player = at[u].player
  BY <1>0, <1>1, <1>3, SynthGoes DEF SpeechShapes
<1>5. IsSet(u) \/ Sentinel(u)'
  BY <1>0, <1>1, <1>2, <1>4 DEF TextFacts, Sentinel, IsSet
<1>6. item'[u].synth # <<>> <=> step \in {"prepare", "put"}
  BY <1>0, <1>1, <1>2 DEF TextFacts, HandsKnown
<1> QED
  BY <1>1, <1>3, <1>5, <1>6, SynthText

LEMMA SynthPreparesText ==
    ASSUME SpeechIInv, SpeechIInv', TextIInv, NEW u \in Utterances, SynthPrepares(u)
    PROVE  TextIInv'
<1>0. SpeechShapes /\ TextFacts(u)
  BY DEF SpeechIInv, TextIInv
<1>1. /\ at[u].synth = "prepare" /\ item[u].synth # <<>>
      /\ UNCHANGED <<speech, worker, device, heard, speechGeneration>>
  BY <1>0 DEF SynthPrepares, At, audio, service, TextFacts, HandsKnown
<1>2. "prepare" \notin AbortSteps /\ "abort" \in AbortSteps
  BY DEF AbortSteps
<1>3. ASSUME NEW step \in {"put", "abort", "dead"}, Goto(u, "synth", step)
      PROVE  /\ step \in SynthSteps \cup AbortSteps
             /\ at'[u].synth = step /\ at'[u].player = at[u].player
             /\ step # "dead" => IsSet(u) \/ Sentinel(u)'
  <2>1. step \in SynthSteps \cup AbortSteps
    BY DEF SynthSteps, AbortSteps
  <2>2. at'[u].synth = step /\ at'[u].player = at[u].player
    BY <1>0, <1>3, <2>1, SynthGoes DEF SpeechShapes
  <2>3. item'[u].player = item[u].player
    BY <1>0 DEF SynthPrepares, Drop, SpeechShapes, ItemRecords
  <2>4. ASSUME step # "dead", ~IsSet(u) PROVE Sentinel(u)'
    BY <1>0, <1>1, <2>2, <2>3, <2>4 DEF TextFacts, Sentinel
  <2> QED
    BY <2>1, <2>2, <2>4
<1>4. Drop(u, "synth") => item'[u].synth = <<>>
  BY <1>0 DEF Drop, SpeechShapes, ItemRecords
<1>5. CASE ~IsSet(u) /\ Goto(u, "synth", "put") /\ item' = item
  BY <1>1, <1>2, <1>3, <1>5, SynthText
<1>6. CASE ~IsSet(u) /\ Goto(u, "synth", "abort") /\ Drop(u, "synth")
  BY <1>1, <1>2, <1>3, <1>4, <1>6, SynthText
<1>7. CASE IsSet(u) /\ Goto(u, "synth", "dead") /\ Drop(u, "synth")
  BY <1>1, <1>2, <1>3, <1>4, <1>7, SynthText
<1> QED
  BY <1>5, <1>6, <1>7 DEF SynthPrepares

LEMMA SynthRetiredText ==
    ASSUME SpeechIInv, SpeechIInv', TextIInv, NEW u \in Utterances, SynthRetired(u)
    PROVE  TextIInv'
<1>0. SpeechShapes /\ TextFacts(u)
  BY DEF SpeechIInv, TextIInv
<1>1. /\ at[u].synth \in {"get", "put", "stop"} /\ IsSet(u)
      /\ Goto(u, "synth", "dead") /\ Drop(u, "synth")
      /\ UNCHANGED <<speech, worker, device, heard, speechGeneration>>
  BY DEF SynthRetired, At, IsSet, audio, service
<1>2. "dead" \in SynthSteps \cup AbortSteps /\ at[u].synth \notin AbortSteps
  BY <1>1 DEF SynthSteps, AbortSteps
<1>3. item'[u].synth = <<>>
  BY <1>0, <1>1 DEF Drop, SpeechShapes, ItemRecords
<1> QED
  BY <1>1, <1>2, <1>3, SynthText

\* A queue is closed.
LEMMA TextClosed ==
    ASSUME SpeechIInv, SpeechIInv', TextIInv, NEW u \in Utterances,
           speech' = [speech EXCEPT ![u].closed = TRUE],
           UNCHANGED <<at, item, audio, speechGeneration>>
    PROVE  TextIInv'
<1>0. SpeechShapes /\ TextFacts(u) /\ speech[u] \in SpeechRecords
  BY FieldTypes DEF SpeechIInv, TextIInv
<1>1. /\ speech'[u].closed
      /\ speech'[u].committed = speech[u].committed /\ speech'[u].born = speech[u].born
      /\ speech'[u].cancelled = speech[u].cancelled /\ speech'[u].failed = speech[u].failed
      /\ speech'[u].outcome = speech[u].outcome /\ speech'[u].reported = speech[u].reported
      /\ speech'[u].prepared = speech[u].prepared /\ speech'[u].queue = speech[u].queue
      /\ speech'[u].overflow = speech[u].overflow /\ speech'[u].next = speech[u].next
      /\ \A w \in Utterances \ {u} : speech'[w] = speech[w]
  BY <1>0 DEF SpeechShapes, SpeechRecords
<1>2. /\ at' = at /\ item' = item /\ worker' = worker /\ device' = device /\ heard' = heard
      /\ speechGeneration' = speechGeneration
  BY DEF audio
<1>3. IsSet(u)' <=> IsSet(u)
  BY <1>1, <1>2 DEF IsSet
<1>4. HandsKnown(u)' /\ Sentinel(u)'
  BY <1>0, <1>1, <1>2, <1>3 DEF TextFacts, HandsKnown, Sentinel
<1>5. SynthOn(u)' <=> SynthOn(u)
  BY <1>2 DEF SynthOn
<1>6. speech'[u].outcome = "completed" =>
         /\ AllHeard(u) /\ worker[u].at \in {"none", "dead"}
         /\ at'[u].player \in {"final", "complete", "dead"}
  BY <1>0, <1>1, <1>2 DEF TextFacts, EndIsTrue
<1> QED
  BY <1>1, <1>2, <1>3, <1>4, <1>5, <1>6, TextWalks

LEMMA CloseText ==
    ASSUME SpeechIInv, SpeechIInv', TextIInv, NEW u \in Utterances, Close(u)
    PROVE  TextIInv'
  BY TextClosed DEF Close, service

LEMMA FeedEndsText ==
    ASSUME SpeechIInv, SpeechIInv', TextIInv, NEW u \in Utterances, FeedEnds(u)
    PROVE  TextIInv'
  BY TextClosed DEF FeedEnds, service

\* A queue is cancelled.
LEMMA TextCancelled ==
    ASSUME SpeechIInv, SpeechIInv', TextIInv, NEW u \in Utterances,
           speech' = [speech EXCEPT ![u] = CancelledQueue(@)],
           UNCHANGED <<at, item, worker, device, heard, speechGeneration>>
    PROVE  TextIInv'
<1>0. SpeechShapes /\ TextFacts(u) /\ speech[u] \in SpeechRecords
  BY FieldTypes DEF SpeechIInv, TextIInv
<1>1. /\ speech'[u].closed /\ speech'[u].cancelled
      /\ speech'[u].committed = speech[u].committed /\ speech'[u].outcome = "cancelled"
      /\ speech'[u].prepared = <<>> /\ speech'[u].queue = <<>>
      /\ speech'[u].overflow = <<>> /\ speech'[u].next = speech[u].next
      /\ \A w \in Utterances \ {u} : speech'[w] = speech[w]
  BY <1>0 DEF SpeechShapes, SpeechRecords, CancelledQueue
<1>2. IsSet(u)'
  BY <1>1 DEF IsSet
<1>3. HandsKnown(u)'
  BY <1>0, <1>1 DEF TextFacts, HandsKnown
<1>4. SynthOn(u)' <=> SynthOn(u)
  BY DEF SynthOn
<1> QED
  BY <1>1, <1>2, <1>3, <1>4, TextWalks

LEMMA TurnCancelsText ==
    ASSUME SpeechIInv, SpeechIInv', TextIInv, NEW u \in Utterances, TurnCancels(u)
    PROVE  TextIInv'
<1>1. UNCHANGED <<at, item, audio, speechGeneration>>
  BY DEF TurnCancels, service
<1>2. CASE speech[u].cancelled
  BY <1>1, <1>2, TextUntouched DEF TurnCancels
<1>3. CASE ~speech[u].cancelled
  BY <1>1, <1>3, TextCancelled DEF TurnCancels, audio
<1> QED
  BY <1>2, <1>3

\* The device is retired, or the right to speak is lost, and no text moves.
LEMMA TextOutlives ==
    ASSUME SpeechIInv, SpeechIInv', TextIInv,
           UNCHANGED <<speech, at, item, worker, heard>>,
           device' = device \/ device'.generation > device.generation,
           device'.session \in {0, device'.generation},
           \A u \in Utterances : IsSet(u) => IsSet(u)'
    PROVE  TextIInv'
<1> SUFFICES ASSUME NEW u \in Utterances PROVE TextFacts(u)'
  BY DEF TextIInv
<1>1. TextFacts(u)
  BY DEF TextIInv
<1>2. /\ speech'[u] = speech[u] /\ at'[u] = at[u] /\ item'[u] = item[u]
      /\ worker'[u] = worker[u] /\ heard'[u] = heard[u]
  OBVIOUS
<1>3. HandsKnown(u)'
  BY <1>1, <1>2 DEF TextFacts, HandsKnown
<1>4. IsSet(u)' \/ Sentinel(u)'
  BY <1>1, <1>2 DEF TextFacts, Sentinel
<1>5. SynthOn(u)' <=> SynthOn(u)
  BY <1>2 DEF SynthOn
<1>6. speech'[u].outcome = "completed" =>
         /\ AllHeard(u) /\ worker[u].at \in {"none", "dead"}
         /\ at'[u].player \in {"final", "complete", "dead"}
  BY <1>1, <1>2 DEF TextFacts, EndIsTrue
<1>7. DeviceStays(u)
  BY DEF DeviceStays
<1> QED
  BY <1>1, <1>2, <1>3, <1>4, <1>5, <1>6, <1>7, ControlText

LEMMA TurnStopsText ==
    ASSUME SpeechIInv, SpeechIInv', TextIInv, NEW u \in Utterances, TurnStops(u)
    PROVE  TextIInv'
<1>1. UNCHANGED <<speech, at, item, worker, heard, speechGeneration>>
      /\ device' \in {device, AbortStream(speech[u].playbackId)}
  BY DEF TurnStops, service
<1>2. \A w \in Utterances : IsSet(w) => IsSet(w)'
  BY <1>1 DEF IsSet
<1> QED
  BY <1>1, <1>2, AbortedDevice, TextOutlives

LEMMA StopAbortsText ==
    ASSUME SpeechIInv, SpeechIInv', TextIInv, StopAborts
    PROVE  TextIInv'
<1>1. UNCHANGED <<speech, at, item, worker, heard, speechGeneration>>
      /\ device' \in {device, AbortStream(speech[stop.queue].playbackId)}
  BY DEF StopAborts
<1>2. \A w \in Utterances : IsSet(w) => IsSet(w)'
  BY <1>1 DEF IsSet
<1>3. stop.queue # 0
  BY DEF StopAborts, SpeechIInv, StopIsEarlier
<1>4. stop.queue \in Utterances
  BY <1>3, StoppedQueue
<1> QED
  BY <1>1, <1>2, <1>4, AbortedDevice, TextOutlives

LEMMA StopCancelsText ==
    ASSUME SpeechIInv, SpeechIInv', TextIInv, StopCancels
    PROVE  TextIInv'
<1>1. UNCHANGED <<at, item, worker, heard, speechGeneration>>
  BY DEF StopCancels
<1>2. CASE speech' = speech
  <2>1. \A w \in Utterances : IsSet(w) => IsSet(w)'
    BY <1>1, <1>2 DEF IsSet
  <2>2. device' \in {device, Retired(device)}
    <3>1. CASE stop.queue = 0
      BY <1>2, <3>1 DEF StopCancels
    <3>2. CASE stop.queue # 0
      BY <3>2 DEF StopCancels
    <3> QED
      BY <3>1, <3>2
  <2>3. /\ device' = device \/ device'.generation > device.generation
        /\ device'.session \in {0, device'.generation}
    <3>1. device.generation \in Nat /\ device \in DeviceRecords
          /\ device.session \in {0, device.generation}
      BY DEF SpeechIInv, SpeechShapes, DeviceRecords, TextIInv
    <3>2. CASE device' = Retired(device)
      <4>1. device'.generation = device.generation + 1 /\ device'.session = 0
        BY <3>1, <3>2, RetiredShape
      <4> QED
        BY <3>1, <4>1
    <3>3. CASE device' = device
      BY <3>1, <3>3
    <3> QED
      BY <2>2, <3>2, <3>3
  <2> QED
    BY <1>1, <1>2, <2>1, <2>3, TextOutlives
<1>3. CASE speech' # speech
  <2>1. /\ stop.queue # 0 /\ device' = device
        /\ speech' = [speech EXCEPT ![stop.queue] = CancelledQueue(@)]
    BY <1>3 DEF StopCancels
  <2>2. stop.queue \in Utterances
    BY <2>1, StoppedQueue
  <2> QED
    BY <1>1, <2>1, <2>2, TextCancelled
<1> QED
  BY <1>2, <1>3

\* Who was committed for an earlier generation is not for the next.
LEMMA StopDetachesText ==
    ASSUME SpeechIInv, SpeechIInv', TextIInv, StopDetaches
    PROVE  TextIInv'
<1>1. /\ UNCHANGED <<speech, at, item, worker, device, heard>>
      /\ speechGeneration' = speechGeneration + 1
  BY DEF StopDetaches, audio
<1>2. ASSUME NEW w \in Utterances, IsSet(w) PROVE IsSet(w)'
  <2>1. speech[w].born <= speechGeneration
    BY DEF SpeechIInv, UtteranceFacts, GenerationsKnown
  <2>2. speech[w].born \in Nat /\ speechGeneration \in Nat
    BY FieldTypes, BoundsAssumption DEF BoundsAssumption, SpeechIInv, SpeechShapes
  <2>3. speech[w].born # speechGeneration + 1
    BY <2>1, <2>2
  <2> QED
    BY <1>1, <1>2, <2>3 DEF IsSet
<1>3. device'.session \in {0, device'.generation}
  BY <1>1 DEF TextIInv
<1> QED
  BY <1>1, <1>2, <1>3, TextOutlives

-----------------------------------------------------------------------------
(* Text that goes through the synthesis thread.                            *)

\* The first of a line.
LEMMA LineTaken ==
    ASSUME NEW S, NEW ss \in Seq(S), NEW n \in Nat, QueueInLine(ss, n), ss # <<>>
    PROVE  /\ Head(ss) = <<n + 1>> /\ Len(Head(ss)) = 1
           /\ QueueInLine(Tail(ss), n + 1) /\ Len(ss) = Len(Tail(ss)) + 1
<1> PICK t : t = Tail(ss)
  OBVIOUS
<1>1. /\ Len(ss) \in Nat /\ Len(ss) # 0 /\ Len(t) = Len(ss) - 1 /\ Head(ss) = ss[1]
      /\ \A i \in 1..Len(t) : t[i] = ss[i + 1]
  BY HeadTailProperties, LenProperties, EmptySeq
<1>2. 1 \in 1..Len(ss) /\ \A i \in 1..Len(t) : i + 1 \in 1..Len(ss)
  BY <1>1
<1>3. Head(ss) = <<n + 1>>
  BY <1>1, <1>2 DEF QueueInLine
<1>4. Len(Head(ss)) = 1
  <2>1. n + 1 \in Nat
    OBVIOUS
  <2> QED
    BY <1>3, <2>1, Short
<1>5. \A i \in 1..Len(t) : n + (i + 1) = (n + 1) + i
  BY <1>1
<1>6. QueueInLine(t, n + 1)
  BY <1>1, <1>2, <1>5 DEF QueueInLine
<1> QED
  BY <1>1, <1>3, <1>4, <1>6

\* The synthesis thread goes on with other text in its hands.
LEMMA SynthMoves ==
    ASSUME SpeechIInv, SpeechIInv', TextIInv, NEW u \in Utterances,
           UNCHANGED <<audio, speechGeneration>>,
           NEW q \in SpeechRecords, speech' = [speech EXCEPT ![u] = q],
           q.committed = speech[u].committed, q.born = speech[u].born,
           q.cancelled = speech[u].cancelled, q.closed = speech[u].closed,
           q.failed = speech[u].failed, q.outcome = speech[u].outcome,
           q.reported = speech[u].reported, q.next = speech[u].next,
           NEW i, item' = [item EXCEPT ![u].synth = i],
           NEW step \in SynthSteps, Goto(u, "synth", step),
           at[u].synth \in SynthSteps \ {"dead"},
           Distinct(heard[u], OnDevice(u), item[u].player, q.prepared, i, q.queue, q.overflow),
           AllOf(heard[u], OnDevice(u), item[u].player, q.prepared, i, q.queue, q.overflow)
              = Text(u),
           q.committed /\ Open(u) /\ PlayerOn(u) =>
              /\ \A k \in 1..Len(q.prepared) : q.prepared[k] \in {STOP, <<Ready(u) + k>>}
              /\ step # "dead" =>
                    /\ i \in {<<>>, <<Ready(u) + Len(q.prepared) + 1>>}
                    /\ QueueInLine(q.queue, Ready(u) + Len(q.prepared) + Len(i))
                    /\ ~q.closed => q.next = Ready(u) + Len(q.prepared) + Len(i) + Len(q.queue),
           i # <<>> <=> step \in {"prepare", "put"},
           IsSet(u) \/ Sentinel(u)'
    PROVE  TextIInv'
<1>0. SpeechShapes /\ TextFacts(u) /\ device.session \in {0, device.generation}
  BY DEF SpeechIInv, TextIInv
<1>1. speech'[u] = q /\ \A w \in Utterances \ {u} : speech'[w] = speech[w]
  BY <1>0 DEF SpeechShapes
<1>2. /\ worker' = worker /\ device' = device /\ heard' = heard
      /\ speechGeneration' = speechGeneration
  BY DEF audio
<1>3. /\ at'[u].synth = step /\ at'[u].player = at[u].player
      /\ \A w \in Utterances \ {u} : at'[w] = at[w]
  BY <1>0, SynthGoes DEF SpeechShapes
<1>4. /\ item'[u].synth = i /\ item'[u].player = item[u].player
      /\ \A w \in Utterances \ {u} : item'[w] = item[w]
  BY <1>0 DEF SpeechShapes, ItemRecords
<1>5. (Current(u)' <=> Current(u)) /\ (IsSet(u)' <=> IsSet(u))
  BY <1>1, <1>2 DEF Current, IsSet
<1>6. OnDevice(u)' = OnDevice(u)
  BY <1>2, <1>5 DEF OnDevice
<1>7. SynthOn(u) /\ SynthOn(u)'
  BY <1>3 DEF SynthOn, SynthSteps, AbortSteps
<1>8. (Open(u)' <=> Open(u)) /\ (PlayerOn(u)' <=> PlayerOn(u))
  BY <1>2, <1>3, <1>5 DEF Open, PlayerOn
<1>9. Flowing(u)' <=> Flowing(u)
  BY <1>2, <1>5, <1>7, <1>8 DEF Flowing
<1>10. Text(u)' = Text(u)
  BY <1>1, <1>2, <1>4, <1>6 DEF Text
<1>11. NothingTwice(u)' /\ TextIsWhole(u)'
  BY <1>0, <1>1, <1>2, <1>4, <1>6, <1>9, <1>10 DEF TextFacts, NothingTwice, TextIsWhole
<1>12. InLine(u)'
  <2> SUFFICES ASSUME q.committed PROVE InLine(u)'
    BY <1>1 DEF InLine
  <2>1. Rest(u)' = Rest(u) /\ Ready(u)' = Ready(u)
    BY <1>2, <1>4, <1>6 DEF Rest, Ready
  <2>2. Made(u)' = Ready(u) + Len(q.prepared) + Len(i)
    BY <1>1, <1>4, <2>1 DEF Made
  <2>3. /\ Inorder(heard[u]) /\ QueueInLine(OnDevice(u), Len(heard[u]))
        /\ Open(u) => item[u].player \in {<<>>, <<Rest(u) + 1>>}
    BY <1>0 DEF TextFacts, InLine
  <2> QED
    BY <1>1, <1>2, <1>3, <1>4, <1>6, <1>8, <2>1, <2>2, <2>3 DEF InLine, QueueInLine, Inorder
<1>13. HandsKnown(u)'
  BY <1>0, <1>1, <1>2, <1>3, <1>4 DEF TextFacts, HandsKnown
<1>14. Sentinel(u)'
  BY <1>5 DEF Sentinel
<1>15. SessionEnds(u)'
  BY <1>0, <1>2, <1>3, <1>5 DEF TextFacts, SessionEnds
<1>16. EndIsTrue(u)'
  BY <1>0, <1>1, <1>2, <1>3 DEF TextFacts, EndIsTrue, AllHeard
<1>17. TextFacts(u)'
  BY <1>11, <1>12, <1>13, <1>14, <1>15, <1>16 DEF TextFacts
<1>18. Elsewhere(u) /\ DeviceIsFree(u)
  BY <1>1, <1>2, <1>3, <1>4 DEF Elsewhere, DeviceIsFree
<1> QED
  BY <1>0, <1>2, <1>17, <1>18, TextGoesOn

LEMMA SynthTakesText ==
    ASSUME SpeechIInv, SpeechIInv', TextIInv, NEW u \in Utterances, SynthTakes(u)
    PROVE  TextIInv'
<1>0. SpeechShapes /\ TextFacts(u) /\ speech[u] \in SpeechRecords
  BY FieldTypes DEF SpeechIInv, TextIInv
<1>1. /\ at[u].synth = "get" /\ Goto(u, "synth", "prepare") /\ ~IsSet(u)
      /\ speech[u].queue # <<>> /\ UNCHANGED <<audio, speechGeneration>>
      /\ item' = [item EXCEPT ![u].synth = Head(speech[u].queue)]
  BY DEF SynthTakes, At, service
<1>2. item[u].synth = <<>>
  BY <1>0, <1>1 DEF TextFacts, HandsKnown
<1>3. PICK S : S = 1..MaxUnits
  OBVIOUS
<1>4. /\ speech[u].queue \in Seq(Spoken \ {STOP}) /\ speech[u].queue \in Seq(Seq(S))
      /\ speech[u].queue \in Seq(Spoken)
  BY <1>0, <1>3, FieldTypes, TextTypes DEF Spoken
<1> PICK x, t : x = Head(speech[u].queue) /\ t = Tail(speech[u].queue)
  OBVIOUS
<1>5. x \in Spoken \ {STOP} /\ t \in Seq(Spoken \ {STOP})
  BY <1>1, <1>4, Chunked
<1> PICK q : q = [speech[u] EXCEPT !.queue = t]
  OBVIOUS
<1>6. speech' = [speech EXCEPT ![u] = q]
  BY <1>0 DEF SynthTakes, SpeechShapes, SpeechRecords
<1>7. q \in SpeechRecords
  BY <1>0, <1>5 DEF SpeechRecords
<1>8. /\ q.committed = speech[u].committed /\ q.born = speech[u].born
      /\ q.cancelled = speech[u].cancelled /\ q.closed = speech[u].closed
      /\ q.failed = speech[u].failed /\ q.outcome = speech[u].outcome
      /\ q.reported = speech[u].reported /\ q.next = speech[u].next
      /\ q.prepared = speech[u].prepared /\ q.overflow = speech[u].overflow
      /\ q.queue = t
  BY <1>0 DEF SpeechRecords
<1>9. /\ Distinct(heard[u], OnDevice(u), item[u].player, speech[u].prepared, x, t,
                  speech[u].overflow)
      /\ AllOf(heard[u], OnDevice(u), item[u].player, speech[u].prepared, x, t,
               speech[u].overflow) = Text(u)
  <2>1. Distinct(heard[u], OnDevice(u), item[u].player, speech[u].prepared, <<>>,
                 speech[u].queue, speech[u].overflow)
    BY <1>0, <1>2 DEF TextFacts, NothingTwice
  <2>2. Text(u) = AllOf(heard[u], OnDevice(u), item[u].player, speech[u].prepared, <<>>,
                        speech[u].queue, speech[u].overflow)
    BY <1>2 DEF Text
  <2> QED
    BY <1>1, <1>4, <2>1, <2>2, DistinctFetched
<1>10. ASSUME q.committed, Open(u), PlayerOn(u)
       PROVE  /\ \A k \in 1..Len(q.prepared) : q.prepared[k] \in {STOP, <<Ready(u) + k>>}
              /\ x \in {<<>>, <<Ready(u) + Len(q.prepared) + 1>>}
              /\ QueueInLine(q.queue, Ready(u) + Len(q.prepared) + Len(x))
              /\ ~q.closed => q.next = Ready(u) + Len(q.prepared) + Len(x) + Len(q.queue)
  <2>1. SynthOn(u) /\ at[u].synth # "dead"
    BY <1>1 DEF SynthOn, AbortSteps
  <2>2. /\ \A k \in 1..Len(q.prepared) : q.prepared[k] \in {STOP, <<Ready(u) + k>>}
        /\ QueueInLine(speech[u].queue, Made(u))
        /\ ~q.closed => q.next = Made(u) + Len(speech[u].queue)
    BY <1>0, <1>8, <1>10, <2>1 DEF TextFacts, InLine
  <2>3. /\ Made(u) = Ready(u) + Len(q.prepared) /\ Made(u) \in Nat
        /\ Ready(u) + Len(q.prepared) \in Nat
    <3>1. Ready(u) \in Nat /\ Len(speech[u].prepared) \in Nat /\ Len(<<>>) = 0
      BY <1>0, Counts, TextTypes, NoChunks
    <3>2. Ready(u) + Len(speech[u].prepared) + 0 = Ready(u) + Len(speech[u].prepared)
          /\ Ready(u) + Len(speech[u].prepared) \in Nat
      BY <3>1
    <3> QED
      BY <1>2, <1>8, <3>1, <3>2 DEF Made
  <2>4. /\ x = <<Made(u) + 1>> /\ Len(x) = 1 /\ QueueInLine(t, Made(u) + 1)
        /\ Len(speech[u].queue) = Len(t) + 1
    BY <1>1, <1>4, <2>2, <2>3, LineTaken
  <2>5. ~q.closed => q.next = Ready(u) + Len(q.prepared) + Len(x) + Len(q.queue)
    <3>1. Len(t) \in Nat
      BY <1>5, LenProperties
    <3>2. \A m, n \in Nat : m + (n + 1) = m + 1 + n
      OBVIOUS
    <3>3. Made(u) + (Len(t) + 1) = Made(u) + 1 + Len(t)
      BY <2>3, <3>1, <3>2
    <3> QED
      BY <1>8, <2>2, <2>3, <2>4, <3>3
  <2> QED
    BY <1>8, <2>2, <2>3, <2>4, <2>5
<1>11. "prepare" \in SynthSteps /\ at[u].synth \in SynthSteps \ {"dead"}
  BY <1>1 DEF SynthSteps
<1>12. at'[u].synth = "prepare" /\ at'[u].player = at[u].player /\ speech'[u] = q
       /\ item'[u].player = item[u].player
  BY <1>0, <1>1, <1>6, <1>11, SynthGoes DEF SpeechShapes, ItemRecords
<1>13. Sentinel(u)'
  BY <1>0, <1>1, <1>8, <1>12 DEF TextFacts, Sentinel
<1> QED
  BY <1>1, <1>5, <1>6, <1>7, <1>8, <1>9, <1>10, <1>11, <1>13, SynthMoves DEF STOP

LEMMA SynthTakesOverflowText ==
    ASSUME SpeechIInv, SpeechIInv', TextIInv, NEW u \in Utterances, SynthTakesOverflow(u)
    PROVE  TextIInv'
<1>0. SpeechShapes /\ TextFacts(u) /\ speech[u] \in SpeechRecords /\ UtteranceFacts(u)
  BY FieldTypes DEF SpeechIInv, TextIInv
<1> PICK o, step : /\ o = speech[u].overflow
                   /\ step = IF speech[u].overflow = <<>> THEN "closing" ELSE "prepare"
  OBVIOUS
<1>1. /\ at[u].synth = "empty" /\ Goto(u, "synth", step)
      /\ UNCHANGED <<audio, speechGeneration>> /\ item' = [item EXCEPT ![u].synth = o]
  BY DEF SynthTakesOverflow, At, service
<1>2. item[u].synth = <<>>
  BY <1>0, <1>1 DEF TextFacts, HandsKnown
<1>3. <<>> \in Spoken
  BY EmptySeq DEF Spoken
<1> PICK e : e = <<>>
  OBVIOUS
<1> PICK q : q = [speech[u] EXCEPT !.overflow = e]
  OBVIOUS
<1>4. speech' = [speech EXCEPT ![u] = q]
  BY <1>0 DEF SynthTakesOverflow, SpeechShapes, SpeechRecords
<1>5. q \in SpeechRecords
  BY <1>0, <1>3 DEF SpeechRecords
<1>6. /\ q.committed = speech[u].committed /\ q.born = speech[u].born
      /\ q.cancelled = speech[u].cancelled /\ q.closed = speech[u].closed
      /\ q.failed = speech[u].failed /\ q.outcome = speech[u].outcome
      /\ q.reported = speech[u].reported /\ q.next = speech[u].next
      /\ q.prepared = speech[u].prepared /\ q.queue = speech[u].queue
      /\ q.overflow = <<>>
  BY <1>0 DEF SpeechRecords
<1>7. /\ Distinct(heard[u], OnDevice(u), item[u].player, q.prepared, o, q.queue, q.overflow)
      /\ AllOf(heard[u], OnDevice(u), item[u].player, q.prepared, o, q.queue, q.overflow)
         = Text(u)
  <2>1. Distinct(heard[u], OnDevice(u), item[u].player, speech[u].prepared, <<>>,
                 speech[u].queue, o)
    BY <1>0, <1>2 DEF TextFacts, NothingTwice
  <2>2. Text(u) = AllOf(heard[u], OnDevice(u), item[u].player, speech[u].prepared, <<>>,
                        speech[u].queue, o)
    BY <1>2 DEF Text
  <2>3. /\ Distinct(heard[u], OnDevice(u), item[u].player, speech[u].prepared, o,
                    speech[u].queue, <<>>)
        /\ AllOf(heard[u], OnDevice(u), item[u].player, speech[u].prepared, o,
                 speech[u].queue, <<>>) = Text(u)
    BY <2>1, <2>2, DistinctJoined
  <2> QED
    BY <1>6, <2>3
<1>8. ASSUME q.committed, Open(u), PlayerOn(u)
      PROVE  /\ \A k \in 1..Len(q.prepared) : q.prepared[k] \in {STOP, <<Ready(u) + k>>}
             /\ o \in {<<>>, <<Ready(u) + Len(q.prepared) + 1>>}
             /\ QueueInLine(q.queue, Ready(u) + Len(q.prepared) + Len(o))
             /\ ~q.closed => q.next = Ready(u) + Len(q.prepared) + Len(o) + Len(q.queue)
  <2>1. SynthOn(u) /\ at[u].synth # "dead"
    BY <1>1 DEF SynthOn, AbortSteps
  <2>2. o = <<>>
    BY <1>0, <1>6, <1>8 DEF UtteranceFacts, QueuesBounded
  <2>3. Made(u) = Ready(u) + Len(q.prepared) + Len(o)
    BY <1>2, <1>6, <2>2 DEF Made
  <2> QED
    BY <1>0, <1>6, <1>8, <2>1, <2>2, <2>3 DEF TextFacts, InLine
<1>9. step \in SynthSteps /\ at[u].synth \in SynthSteps \ {"dead"} /\ step # "dead"
      /\ (o # <<>> <=> step \in {"prepare", "put"})
  BY <1>1 DEF SynthSteps
<1>10. at'[u].synth = step /\ at'[u].player = at[u].player /\ speech'[u] = q
       /\ item'[u].player = item[u].player
  BY <1>0, <1>1, <1>4, <1>9, SynthGoes DEF SpeechShapes, ItemRecords
<1>11. Sentinel(u)' \/ IsSet(u)
  <2>1. IsSet(u)' <=> IsSet(u)
    BY <1>1, <1>6, <1>10 DEF IsSet
  <2> QED
    BY <1>0, <1>1, <1>6, <1>9, <1>10, <2>1 DEF TextFacts, Sentinel
<1> QED
  BY <1>1, <1>4, <1>5, <1>6, <1>7, <1>8, <1>9, <1>11, SynthMoves

\* The sentinel and a synthesized item are put alike.
LEMMA PutItem ==
    ASSUME SpeechShapes, NEW u \in Utterances, NEW what \in Spoken,
           speech' = [speech EXCEPT ![u].prepared = Append(@, what)]
    PROVE  \E q \in SpeechRecords :
              /\ speech' = [speech EXCEPT ![u] = q]
              /\ q.committed = speech[u].committed /\ q.born = speech[u].born
              /\ q.cancelled = speech[u].cancelled /\ q.closed = speech[u].closed
              /\ q.failed = speech[u].failed /\ q.outcome = speech[u].outcome
              /\ q.reported = speech[u].reported /\ q.next = speech[u].next
              /\ q.queue = speech[u].queue /\ q.overflow = speech[u].overflow
              /\ q.prepared = Append(speech[u].prepared, what)
<1>0. speech[u] \in SpeechRecords /\ speech[u].prepared \in Seq(Spoken)
  BY FieldTypes
<1>1. PICK r : r = Append(speech[u].prepared, what)
  OBVIOUS
<1>2. r \in Seq(Spoken)
  BY <1>0, <1>1, AppendProperties
<1>3. PICK q : q = [speech[u] EXCEPT !.prepared = r]
  OBVIOUS
<1>4. speech' = [speech EXCEPT ![u] = q]
  BY <1>0, <1>1, <1>3 DEF SpeechShapes, SpeechRecords
<1>5. q \in SpeechRecords
  BY <1>0, <1>2, <1>3 DEF SpeechRecords
<1>6. /\ q.committed = speech[u].committed /\ q.born = speech[u].born
      /\ q.cancelled = speech[u].cancelled /\ q.closed = speech[u].closed
      /\ q.failed = speech[u].failed /\ q.outcome = speech[u].outcome
      /\ q.reported = speech[u].reported /\ q.next = speech[u].next
      /\ q.queue = speech[u].queue /\ q.overflow = speech[u].overflow
      /\ q.prepared = r
  BY <1>0, <1>3 DEF SpeechRecords
<1> QED
  BY <1>1, <1>4, <1>5, <1>6

\* What a queue holds after a put.
LEMMA PutPlaces ==
    ASSUME NEW S, NEW r \in Seq(S), NEW x
    PROVE  /\ Len(Append(r, x)) = Len(r) + 1 /\ Append(r, x)[Len(r) + 1] = x
           /\ Len(r) \in Nat
           /\ \A k \in 1..Len(Append(r, x)) :
                 (k \in 1..Len(r) /\ Append(r, x)[k] = r[k]) \/ (k = Len(r) + 1)
<1>1. /\ Len(r) \in Nat /\ Len(Append(r, x)) = Len(r) + 1 /\ Append(r, x)[Len(r) + 1] = x
      /\ \A i \in 1..Len(r) : Append(r, x)[i] = r[i]
  BY AppendProperties, LenProperties
<1> QED
  BY <1>1

LEMMA SynthPutsText ==
    ASSUME SpeechIInv, SpeechIInv', TextIInv, NEW u \in Utterances, SynthPuts(u)
    PROVE  TextIInv'
<1>0. SpeechShapes /\ TextFacts(u)
  BY DEF SpeechIInv, TextIInv
<1>1. /\ at[u].synth = "put" /\ Goto(u, "synth", "get") /\ Drop(u, "synth")
      /\ speech' = [speech EXCEPT ![u].prepared = Append(@, item[u].synth)]
      /\ UNCHANGED <<audio, speechGeneration>>
  BY DEF SynthPuts, PutsPrepared, At, service
<1> PICK x, e : x = item[u].synth /\ e = <<>>
  OBVIOUS
<1>2. x # <<>> /\ x \in Spoken /\ speech[u].prepared \in Seq(Spoken)
  BY <1>0, <1>1, TextTypes DEF TextFacts, HandsKnown
<1>3. PICK q \in SpeechRecords :
              /\ speech' = [speech EXCEPT ![u] = q]
              /\ q.committed = speech[u].committed /\ q.born = speech[u].born
              /\ q.cancelled = speech[u].cancelled /\ q.closed = speech[u].closed
              /\ q.failed = speech[u].failed /\ q.outcome = speech[u].outcome
              /\ q.reported = speech[u].reported /\ q.next = speech[u].next
              /\ q.queue = speech[u].queue /\ q.overflow = speech[u].overflow
              /\ q.prepared = Append(speech[u].prepared, x)
  BY <1>0, <1>1, <1>2, PutItem
<1>4. PICK S : S = 1..MaxUnits
  OBVIOUS
<1>5. /\ Distinct(heard[u], OnDevice(u), item[u].player, q.prepared, <<>>,
                  speech[u].queue, speech[u].overflow)
      /\ AllOf(heard[u], OnDevice(u), item[u].player, q.prepared, <<>>,
               speech[u].queue, speech[u].overflow) = Text(u)
  <2>1. Distinct(heard[u], OnDevice(u), item[u].player, speech[u].prepared, x,
                 speech[u].queue, speech[u].overflow)
    BY <1>0 DEF TextFacts, NothingTwice
  <2>2. Text(u) = AllOf(heard[u], OnDevice(u), item[u].player, speech[u].prepared, x,
                        speech[u].queue, speech[u].overflow)
    BY DEF Text
  <2>3. speech[u].prepared \in Seq(Seq(S)) /\ x \in Seq(S)
    BY <1>2, <1>4 DEF Spoken
  <2> QED
    BY <1>3, <2>1, <2>2, <2>3, DistinctPut
<1>6. ASSUME q.committed, Open(u), PlayerOn(u)
      PROVE  /\ \A k \in 1..Len(q.prepared) : q.prepared[k] \in {STOP, <<Ready(u) + k>>}
             /\ QueueInLine(q.queue, Ready(u) + Len(q.prepared) + Len(e))
             /\ ~q.closed => q.next = Ready(u) + Len(q.prepared) + Len(e) + Len(q.queue)
  <2>1. SynthOn(u) /\ at[u].synth # "dead"
    BY <1>1 DEF SynthOn, AbortSteps
  <2>2. /\ \A k \in 1..Len(speech[u].prepared) :
              speech[u].prepared[k] \in {STOP, <<Ready(u) + k>>}
        /\ x = <<Ready(u) + Len(speech[u].prepared) + 1>>
        /\ QueueInLine(speech[u].queue, Made(u))
        /\ ~q.closed => q.next = Made(u) + Len(speech[u].queue)
    BY <1>0, <1>2, <1>3, <1>6, <2>1 DEF TextFacts, InLine
  <2>3. /\ Ready(u) \in Nat /\ Len(speech[u].prepared) \in Nat
        /\ Len(q.prepared) = Len(speech[u].prepared) + 1
        /\ q.prepared[Len(speech[u].prepared) + 1] = x
        /\ \A k \in 1..Len(q.prepared) :
              \/ k \in 1..Len(speech[u].prepared) /\ q.prepared[k] = speech[u].prepared[k]
              \/ k = Len(speech[u].prepared) + 1
    BY <1>0, <1>2, <1>3, Counts, PutPlaces
  <2>4. Len(x) = 1 /\ Len(e) = 0
    <3>1. Ready(u) + Len(speech[u].prepared) + 1 \in Nat
      BY <2>3
    <3> QED
      BY <2>2, <3>1, Short, NoChunks
  <2>5. \A m, n \in Nat : m + n + 1 = m + (n + 1) /\ m + n + 1 = m + (n + 1) + 0
    OBVIOUS
  <2>6. /\ Ready(u) + Len(speech[u].prepared) + 1 = Ready(u) + (Len(speech[u].prepared) + 1)
        /\ Made(u) = Ready(u) + Len(q.prepared) + Len(e)
    <3>1. Made(u) = Ready(u) + Len(speech[u].prepared) + Len(x)
      BY DEF Made
    <3>2. Made(u) = Ready(u) + Len(speech[u].prepared) + 1
      BY <2>4, <3>1
    <3>3. /\ Made(u) = Ready(u) + (Len(speech[u].prepared) + 1)
          /\ Made(u) = Ready(u) + (Len(speech[u].prepared) + 1) + 0
      BY <2>3, <2>5, <3>2
    <3> QED
      BY <2>3, <2>4, <3>2, <3>3
  <2>7. \A k \in 1..Len(q.prepared) : q.prepared[k] \in {STOP, <<Ready(u) + k>>}
    BY <2>2, <2>3, <2>6
  <2> QED
    BY <1>3, <2>2, <2>6, <2>7
<1>7. "get" \in SynthSteps /\ at[u].synth \in SynthSteps \ {"dead"}
  BY <1>1 DEF SynthSteps
<1>8. at'[u].synth = "get" /\ at'[u].player = at[u].player /\ speech'[u] = q
      /\ item'[u].player = item[u].player
  BY <1>0, <1>1, <1>3, <1>7, SynthGoes DEF SpeechShapes, ItemRecords, Drop
<1>9. IsSet(u) \/ Sentinel(u)'
  <2> SUFFICES ASSUME ~IsSet(u) PROVE Sentinel(u)'
    OBVIOUS
  <2>1. \A k \in 1..Len(q.prepared) : q.prepared[k] # STOP
    <3>1. \A k \in 1..Len(speech[u].prepared) : speech[u].prepared[k] # STOP
      BY <1>0, <1>1 DEF TextFacts, Sentinel
    <3>2. \A k \in 1..Len(q.prepared) :
              \/ k \in 1..Len(speech[u].prepared) /\ q.prepared[k] = speech[u].prepared[k]
              \/ k = Len(speech[u].prepared) + 1
      BY <1>2, <1>3, PutPlaces
    <3>3. q.prepared[Len(speech[u].prepared) + 1] = x
      BY <1>2, <1>3, PutPlaces
    <3> QED
      BY <1>2, <3>1, <3>2, <3>3 DEF STOP
  <2>2. ~(\/ at[u].player \in {"drain", "verdict"}
          \/ at[u].player = "item" /\ item[u].player = STOP)
    BY <1>0, <1>1 DEF TextFacts, Sentinel
  <2> QED
    BY <1>8, <2>1, <2>2 DEF Sentinel
<1>10. item' = [item EXCEPT ![u].synth = e]
  BY <1>1 DEF Drop
<1> QED
  BY <1>1, <1>3, <1>5, <1>6, <1>7, <1>9, <1>10, SynthMoves

LEMMA SynthStopsText ==
    ASSUME SpeechIInv, SpeechIInv', TextIInv, NEW u \in Utterances, SynthStops(u)
    PROVE  TextIInv'
<1>0. SpeechShapes /\ TextFacts(u)
  BY DEF SpeechIInv, TextIInv
<1>1. /\ at[u].synth = "stop" /\ Goto(u, "synth", "dead") /\ item' = item
      /\ speech' = [speech EXCEPT ![u].prepared = Append(@, STOP)]
      /\ UNCHANGED <<audio, speechGeneration>>
  BY DEF SynthStops, PutsPrepared, At, service
<1>2. /\ item[u].synth = <<>> /\ STOP \in Spoken /\ speech[u].prepared \in Seq(Spoken)
      /\ item[u] \in ItemRecords
  BY <1>0, <1>1, TextTypes, FieldTypes, EmptySeq DEF TextFacts, HandsKnown, STOP, Spoken
<1>3. PICK q \in SpeechRecords :
              /\ speech' = [speech EXCEPT ![u] = q]
              /\ q.committed = speech[u].committed /\ q.born = speech[u].born
              /\ q.cancelled = speech[u].cancelled /\ q.closed = speech[u].closed
              /\ q.failed = speech[u].failed /\ q.outcome = speech[u].outcome
              /\ q.reported = speech[u].reported /\ q.next = speech[u].next
              /\ q.queue = speech[u].queue /\ q.overflow = speech[u].overflow
              /\ q.prepared = Append(speech[u].prepared, STOP)
  BY <1>0, <1>1, <1>2, PutItem
<1>4. PICK S : S = 1..MaxUnits
  OBVIOUS
<1>5. /\ Distinct(heard[u], OnDevice(u), item[u].player, q.prepared, item[u].synth,
                  speech[u].queue, speech[u].overflow)
      /\ AllOf(heard[u], OnDevice(u), item[u].player, q.prepared, item[u].synth,
               speech[u].queue, speech[u].overflow) = Text(u)
  <2>1. Distinct(heard[u], OnDevice(u), item[u].player, speech[u].prepared, item[u].synth,
                 speech[u].queue, speech[u].overflow)
    BY <1>0 DEF TextFacts, NothingTwice
  <2>2. Text(u) = AllOf(heard[u], OnDevice(u), item[u].player, speech[u].prepared,
                        item[u].synth, speech[u].queue, speech[u].overflow)
    BY DEF Text
  <2>3. speech[u].prepared \in Seq(Seq(S)) /\ q.prepared = Append(speech[u].prepared, <<>>)
    BY <1>2, <1>3, <1>4 DEF Spoken, STOP
  <2> QED
    BY <2>1, <2>2, <2>3, DistinctSentinel
<1>6. /\ Len(q.prepared) = Len(speech[u].prepared) + 1 /\ Len(speech[u].prepared) \in Nat
      /\ q.prepared[Len(speech[u].prepared) + 1] = STOP
      /\ \A k \in 1..Len(q.prepared) :
            \/ k \in 1..Len(speech[u].prepared) /\ q.prepared[k] = speech[u].prepared[k]
            \/ k = Len(speech[u].prepared) + 1
  BY <1>2, <1>3, PutPlaces
<1>7. ASSUME q.committed, Open(u), PlayerOn(u)
      PROVE  \A k \in 1..Len(q.prepared) : q.prepared[k] \in {STOP, <<Ready(u) + k>>}
  <2>1. \A k \in 1..Len(speech[u].prepared) :
              speech[u].prepared[k] \in {STOP, <<Ready(u) + k>>}
    BY <1>0, <1>3, <1>7 DEF TextFacts, InLine
  <2> QED
    BY <1>6, <2>1
<1>8. "dead" \in SynthSteps /\ at[u].synth \in SynthSteps \ {"dead"}
  BY <1>1 DEF SynthSteps
<1>9. at'[u].synth = "dead" /\ at'[u].player = at[u].player /\ speech'[u] = q
      /\ item'[u].player = item[u].player
  BY <1>0, <1>1, <1>3, <1>8, SynthGoes DEF SpeechShapes
<1>10. IsSet(u) \/ Sentinel(u)'
  <2> SUFFICES ASSUME ~IsSet(u) PROVE Sentinel(u)'
    OBVIOUS
  <2>1. /\ \A k \in 1..Len(speech[u].prepared) : speech[u].prepared[k] # STOP
        /\ speech[u].queue = <<>> /\ speech[u].overflow = <<>> /\ speech[u].closed
        /\ ~(\/ at[u].player \in {"drain", "verdict"}
             \/ at[u].player = "item" /\ item[u].player = STOP)
    BY <1>0, <1>1 DEF TextFacts, Sentinel
  <2>2. \A k \in 1..Len(q.prepared) : q.prepared[k] = STOP => k = Len(q.prepared)
    BY <1>6, <2>1
  <2> QED
    BY <1>3, <1>9, <2>1, <2>2 DEF Sentinel
<1>11. item' = [item EXCEPT ![u].synth = item[u].synth]
  BY <1>0, <1>1, <1>2 DEF SpeechShapes, ItemRecords
<1> QED
  BY <1>1, <1>2, <1>3, <1>5, <1>7, <1>8, <1>10, <1>11, SynthMoves

-----------------------------------------------------------------------------
(* What _abort_speech_sequence() does to the text.                         *)

LEMMA AbortText ==
    ASSUME SpeechIInv, SpeechIInv', TextIInv, NEW u \in Utterances,
           UNCHANGED <<item, worker, heard, speechGeneration>>,
           device' \in {device, AbortStream(speech[u].playbackId)},
           \A w \in Utterances \ {u} : speech'[w] = speech[w] /\ at'[w] = at[w],
           speech'[u].next = speech[u].next, speech'[u].committed = speech[u].committed,
           speech[u].closed => speech'[u].closed, IsSet(u)',
           speech'[u].prepared \in {speech[u].prepared, <<>>},
           speech'[u].queue \in {speech[u].queue, <<>>},
           speech'[u].overflow \in {speech[u].overflow, <<>>},
           \/ at'[u].player = at[u].player
           \/ at[u].player \in AbortSteps /\ at'[u].player \in AbortSteps \cup {"final"},
           \/ at'[u].synth = at[u].synth
           \/ at[u].synth \in AbortSteps /\ at'[u].synth \in AbortSteps \cup {"dead"},
           \/ speech'[u].outcome = speech[u].outcome /\ speech'[u].reported = speech[u].reported
           \/ speech'[u].outcome = "failed" /\ speech'[u].reported
    PROVE  TextIInv'
<1>0. TextFacts(u)
  BY DEF TextIInv
<1>1. item'[u] = item[u] /\ worker'[u] = worker[u] /\ heard'[u] = heard[u]
      /\ \A w \in Utterances \ {u} :
             speech'[w] = speech[w] /\ at'[w] = at[w] /\ item'[w] = item[w]
  OBVIOUS
<1>2. HandsKnown(u)'
  <2>1. at'[u].player \in {"begin", "append"} => at[u].player = at'[u].player
    BY DEF AbortSteps
  <2>2. at[u].player \in {"item", "begin", "append"} => at'[u].player = at[u].player
    BY DEF AbortSteps
  <2>3. at'[u].synth \in {"prepare", "put"} <=> at[u].synth \in {"prepare", "put"}
    BY DEF AbortSteps
  <2> QED
    BY <1>0, <1>1, <2>1, <2>2, <2>3 DEF TextFacts, HandsKnown
<1>3. at'[u].player \in PlayingPlaces => at[u].player \in PlayingPlaces
  BY DEF PlayingPlaces, AbortSteps
<1>4. at[u].synth = "dead" => at'[u].synth = "dead"
  BY DEF AbortSteps
<1>5. speech'[u].outcome = "completed" =>
         /\ AllHeard(u) /\ worker[u].at \in {"none", "dead"}
         /\ at'[u].player \in {"final", "complete", "dead"}
  BY <1>0 DEF TextFacts, EndIsTrue, AbortSteps
<1> QED
  BY <1>1, <1>2, <1>3, <1>4, <1>5, TextWalks

\* Where an abort leads a thread.
LEMMA AbortGoes ==
    ASSUME SpeechShapes, NEW u \in Utterances, NEW t \in Threads,
           NEW step \in AbortSteps, Goto(u, t, step), at[u][t] \in AbortSteps
    PROVE  /\ \A w \in Utterances \ {u} : at'[w] = at[w]
           /\ \/ at'[u].player = at[u].player
              \/ at[u].player \in AbortSteps /\ at'[u].player \in AbortSteps \cup {"final"}
           /\ \/ at'[u].synth = at[u].synth
              \/ at[u].synth \in AbortSteps /\ at'[u].synth \in AbortSteps \cup {"dead"}
<1>1. /\ at'[u].player = IF t = "player" THEN step ELSE at[u].player
      /\ at'[u].synth = IF t = "synth" THEN step ELSE at[u].synth
      /\ \A w \in Utterances \ {u} : at'[w] = at[w]
  BY ThreadGoes DEF SpeechShapes
<1> QED
  BY <1>1 DEF Threads

LEMMA AbortFailsText ==
    ASSUME SpeechIInv, SpeechIInv', TextIInv, NEW u \in Utterances, NEW t \in Threads,
           AbortFails(u, t)
    PROVE  TextIInv'
<1>0. SpeechShapes /\ speech[u] \in SpeechRecords
  BY FieldTypes DEF SpeechIInv
<1>1. /\ at[u][t] = "abort" /\ Goto(u, t, "report")
      /\ UNCHANGED <<item, worker, device, heard, speechGeneration>>
  BY DEF AbortFails, At, audio, service
<1>2. "abort" \in AbortSteps /\ "report" \in AbortSteps
  BY DEF AbortSteps
<1>3. /\ \A w \in Utterances \ {u} : at'[w] = at[w]
      /\ \/ at'[u].player = at[u].player
         \/ at[u].player \in AbortSteps /\ at'[u].player \in AbortSteps \cup {"final"}
      /\ \/ at'[u].synth = at[u].synth
         \/ at[u].synth \in AbortSteps /\ at'[u].synth \in AbortSteps \cup {"dead"}
  BY <1>0, <1>1, <1>2, AbortGoes
<1>4. /\ speech'[u].failed /\ speech'[u].closed = speech[u].closed
      /\ speech'[u].committed = speech[u].committed /\ speech'[u].next = speech[u].next
      /\ speech'[u].outcome = speech[u].outcome /\ speech'[u].reported = speech[u].reported
      /\ speech'[u].prepared = speech[u].prepared /\ speech'[u].queue = speech[u].queue
      /\ speech'[u].overflow = speech[u].overflow
      /\ \A w \in Utterances \ {u} : speech'[w] = speech[w]
  BY <1>0 DEF AbortFails, SpeechShapes, SpeechRecords
<1>5. IsSet(u)'
  BY <1>4 DEF IsSet
<1> QED
  BY <1>1, <1>3, <1>4, <1>5, AbortText

LEMMA AbortReportsText ==
    ASSUME SpeechIInv, SpeechIInv', TextIInv, NEW u \in Utterances, NEW t \in Threads,
           AbortReports(u, t)
    PROVE  TextIInv'
<1>0. SpeechShapes /\ speech[u] \in SpeechRecords /\ UtteranceFacts(u)
  BY FieldTypes DEF SpeechIInv
<1>1. /\ at[u][t] = "report" /\ Goto(u, t, "clear")
      /\ device' \in {device, AbortStream(speech[u].playbackId)}
      /\ UNCHANGED <<item, worker, heard, speechGeneration>>
  BY DEF AbortReports, At, service
<1>2. "clear" \in AbortSteps /\ "report" \in AbortSteps
  BY DEF AbortSteps
<1>3. /\ \A w \in Utterances \ {u} : at'[w] = at[w]
      /\ \/ at'[u].player = at[u].player
         \/ at[u].player \in AbortSteps /\ at'[u].player \in AbortSteps \cup {"final"}
      /\ \/ at'[u].synth = at[u].synth
         \/ at[u].synth \in AbortSteps /\ at'[u].synth \in AbortSteps \cup {"dead"}
  BY <1>0, <1>1, <1>2, AbortGoes
<1>4. /\ speech'[u].failed = speech[u].failed /\ speech'[u].closed
      /\ speech'[u].committed = speech[u].committed /\ speech'[u].next = speech[u].next
      /\ speech'[u].outcome = "failed" /\ speech'[u].reported
      /\ speech'[u].prepared = speech[u].prepared /\ speech'[u].queue = speech[u].queue
      /\ speech'[u].overflow = speech[u].overflow
      /\ \A w \in Utterances \ {u} : speech'[w] = speech[w]
  BY <1>0 DEF AbortReports, SpeechShapes, SpeechRecords
<1>5. IsSet(u)'
  BY <1>0, <1>1, <1>4 DEF IsSet, UtteranceFacts, MarksLeft
<1> QED
  BY <1>1, <1>3, <1>4, <1>5, AbortText

LEMMA AbortClearsText ==
    ASSUME SpeechIInv, SpeechIInv', TextIInv, NEW u \in Utterances, NEW t \in Threads,
           AbortClears(u, t)
    PROVE  TextIInv'
<1>0. SpeechShapes /\ speech[u] \in SpeechRecords /\ UtteranceFacts(u)
  BY FieldTypes DEF SpeechIInv
<1>1. /\ at[u][t] = "clear" /\ Goto(u, t, "last")
      /\ UNCHANGED <<item, worker, device, heard, speechGeneration>>
  BY DEF AbortClears, At, audio, service
<1>2. "clear" \in AbortSteps /\ "last" \in AbortSteps
  BY DEF AbortSteps
<1>3. /\ \A w \in Utterances \ {u} : at'[w] = at[w]
      /\ \/ at'[u].player = at[u].player
         \/ at[u].player \in AbortSteps /\ at'[u].player \in AbortSteps \cup {"final"}
      /\ \/ at'[u].synth = at[u].synth
         \/ at[u].synth \in AbortSteps /\ at'[u].synth \in AbortSteps \cup {"dead"}
  BY <1>0, <1>1, <1>2, AbortGoes
<1>4. /\ speech'[u].failed = speech[u].failed /\ speech'[u].closed = speech[u].closed
      /\ speech'[u].committed = speech[u].committed /\ speech'[u].next = speech[u].next
      /\ speech'[u].outcome = speech[u].outcome /\ speech'[u].reported = speech[u].reported
      /\ speech'[u].prepared = <<>> /\ speech'[u].queue = <<>> /\ speech'[u].overflow = <<>>
      /\ \A w \in Utterances \ {u} : speech'[w] = speech[w]
  BY <1>0 DEF AbortClears, SpeechShapes, SpeechRecords
<1>5. IsSet(u)'
  BY <1>0, <1>1, <1>4 DEF IsSet, UtteranceFacts, MarksLeft
<1> QED
  BY <1>1, <1>3, <1>4, <1>5, AbortText

LEMMA AbortEndsText ==
    ASSUME SpeechIInv, SpeechIInv', TextIInv, NEW u \in Utterances, NEW t \in Threads,
           AbortEnds(u, t)
    PROVE  TextIInv'
<1>0. /\ SpeechShapes /\ UtteranceFacts(u) /\ TextFacts(u)
      /\ device.session \in {0, device.generation}
  BY DEF SpeechIInv, TextIInv
<1>1. /\ at[u][t] = "last" /\ Leave(u, t)
      /\ UNCHANGED <<item, worker, device, heard, speechGeneration>>
  BY DEF AbortEnds, PutsPrepared, At, audio, service
<1>2. IsSet(u)
  BY <1>0, <1>1 DEF IsSet, UtteranceFacts, MarksLeft
<1>3. /\ \A w \in Utterances \ {u} : at'[w] = at[w]
      /\ \/ at'[u].player = at[u].player
         \/ at[u].player = "last" /\ at'[u].player = "final"
      /\ \/ at'[u].synth = at[u].synth
         \/ at[u].synth = "last" /\ at'[u].synth = "dead"
  <2>1. CASE t = "synth"
    <3>1. Goto(u, "synth", "dead") /\ "dead" \in SynthSteps \cup AbortSteps
      BY <1>1, <2>1 DEF Leave, SynthSteps
    <3> QED
      BY <1>0, <1>1, <2>1, <3>1, SynthGoes DEF SpeechShapes
  <2>2. CASE t = "player"
    <3>1. Goto(u, "player", "final") /\ "final" \in PlayerSteps \cup AbortSteps
      BY <1>1, <2>2 DEF Leave, PlayerSteps
    <3> QED
      BY <1>0, <1>1, <2>2, <3>1, PlayerGoes DEF SpeechShapes
  <2> QED
    BY <2>1, <2>2 DEF Threads
<1>4. CASE speech' = speech
  <2>1. IsSet(u)'
    BY <1>1, <1>2, <1>4 DEF IsSet
  <2>2. /\ \/ at'[u].player = at[u].player
           \/ at[u].player \in AbortSteps /\ at'[u].player \in AbortSteps \cup {"final"}
        /\ \/ at'[u].synth = at[u].synth
           \/ at[u].synth \in AbortSteps /\ at'[u].synth \in AbortSteps \cup {"dead"}
    BY <1>3 DEF AbortSteps
  <2> QED
    BY <1>1, <1>3, <1>4, <2>1, <2>2, AbortText
<1>5. CASE speech' = [speech EXCEPT ![u].prepared = Append(@, STOP)]
  <2>1. STOP \in Spoken /\ speech[u].prepared \in Seq(Spoken)
    BY <1>0, TextTypes, EmptySeq DEF STOP, Spoken
  <2>2. PICK q \in SpeechRecords :
              /\ speech' = [speech EXCEPT ![u] = q]
              /\ q.committed = speech[u].committed /\ q.born = speech[u].born
              /\ q.cancelled = speech[u].cancelled /\ q.closed = speech[u].closed
              /\ q.failed = speech[u].failed /\ q.outcome = speech[u].outcome
              /\ q.reported = speech[u].reported /\ q.next = speech[u].next
              /\ q.queue = speech[u].queue /\ q.overflow = speech[u].overflow
              /\ q.prepared = Append(speech[u].prepared, STOP)
    BY <1>0, <1>5, <2>1, PutItem
  <2>3. speech'[u] = q /\ \A w \in Utterances \ {u} : speech'[w] = speech[w]
    BY <1>0, <2>2 DEF SpeechShapes
  <2>4. /\ item'[u] = item[u] /\ worker'[u] = worker[u] /\ heard'[u] = heard[u]
        /\ device' = device
    BY <1>1
  <2>5. IsSet(u)'
    BY <1>1, <1>2, <2>2, <2>3 DEF IsSet
  <2>6. (Current(u)' <=> Current(u)) /\ (Open(u)' <=> Open(u)) /\ OnDevice(u)' = OnDevice(u)
    BY <2>4 DEF Current, Open, OnDevice
  <2>7. ~PlayerOn(u)' /\ ~Flowing(u)'
    BY <2>5 DEF PlayerOn, Flowing
  <2>8. PICK S : S = 1..MaxUnits
    OBVIOUS
  <2>9. /\ Distinct(heard[u], OnDevice(u), item[u].player, q.prepared, item[u].synth,
                    speech[u].queue, speech[u].overflow)
        /\ AllOf(heard[u], OnDevice(u), item[u].player, q.prepared, item[u].synth,
                 speech[u].queue, speech[u].overflow) = Text(u)
    <3>1. Distinct(heard[u], OnDevice(u), item[u].player, speech[u].prepared, item[u].synth,
                   speech[u].queue, speech[u].overflow)
      BY <1>0 DEF TextFacts, NothingTwice
    <3>2. Text(u) = AllOf(heard[u], OnDevice(u), item[u].player, speech[u].prepared,
                          item[u].synth, speech[u].queue, speech[u].overflow)
      BY DEF Text
    <3>3. speech[u].prepared \in Seq(Seq(S)) /\ q.prepared = Append(speech[u].prepared, <<>>)
      BY <2>1, <2>2, <2>8 DEF Spoken, STOP
    <3> QED
      BY <3>1, <3>2, <3>3, DistinctSentinel
  <2>10. NothingTwice(u)' /\ TextIsWhole(u)'
    <3>1. Text(u)' = Text(u)
      BY <2>2, <2>3, <2>4, <2>6, <2>9 DEF Text
    <3>2. Text(u) \subseteq 1..speech[u].next
      BY <1>0 DEF TextFacts, NothingTwice
    <3> QED
      BY <2>2, <2>3, <2>4, <2>6, <2>7, <2>9, <3>1, <3>2 DEF NothingTwice, TextIsWhole
  <2>11. InLine(u)'
    <3>1. Rest(u)' = Rest(u)
      BY <2>4, <2>6 DEF Rest
    <3> QED
      BY <1>0, <2>2, <2>3, <2>4, <2>6, <2>7, <3>1 DEF TextFacts, InLine, QueueInLine, Inorder
  <2>12. HandsKnown(u)'
    BY <1>0, <1>3, <2>2, <2>3, <2>4 DEF TextFacts, HandsKnown
  <2>13. Sentinel(u)' /\ SessionEnds(u)'
    BY <1>0, <2>4, <2>5, <2>6 DEF TextFacts, Sentinel, SessionEnds
  <2>14. EndIsTrue(u)'
    BY <1>0, <1>3, <2>2, <2>3, <2>4 DEF TextFacts, EndIsTrue, AllHeard
  <2>15. TextFacts(u)'
    BY <2>10, <2>11, <2>12, <2>13, <2>14 DEF TextFacts
  <2>16. Elsewhere(u) /\ DeviceIsFree(u)
    BY <1>1, <1>3, <2>3 DEF Elsewhere, DeviceIsFree
  <2> QED
    BY <1>0, <1>1, <2>15, <2>16, TextGoesOn
<1> QED
  BY <1>4, <1>5 DEF AbortEnds, PutsPrepared

-----------------------------------------------------------------------------
(* Steps of the playback thread that move no text.                         *)

LEMMA PlayerText ==
    ASSUME SpeechIInv, SpeechIInv', TextIInv, NEW u \in Utterances,
           NEW step \in PlayerSteps \cup AbortSteps, Goto(u, "player", step),
           UNCHANGED <<worker, heard, speechGeneration>>,
           device' \in {device, AbortStream(speech[u].playbackId)},
           \A w \in Utterances \ {u} : speech'[w] = speech[w] /\ item'[w] = item[w],
           speech'[u].next = speech[u].next, speech'[u].committed = speech[u].committed,
           speech'[u].closed = speech[u].closed, IsSet(u) => IsSet(u)',
           speech'[u].prepared = speech[u].prepared, speech'[u].queue = speech[u].queue,
           speech'[u].overflow = speech[u].overflow,
           speech'[u].outcome = "failed" => speech'[u].reported,
           item'[u].synth = item[u].synth,
           \/ item'[u].player = item[u].player
           \/ item'[u].player = <<>> /\ step \notin PlayingPlaces,
           step \in PlayingPlaces => at[u].player \in PlayingPlaces,
           step \in {"begin", "append"} => item'[u].player # <<>>,
           item'[u].player # <<>> => step \in {"item", "begin", "append"},
           \/ IsSet(u)'
           \/ (step \in {"drain", "verdict"} \/ (step = "item" /\ item'[u].player = STOP))
              => speech[u].prepared = <<>> /\ at[u].synth = "dead",
           \/ IsSet(u)' \/ ~Current(u) \/ worker[u].at \notin {"playing", "drained"}
           \/ at[u].player = "drain" => step = "drain",
           speech'[u].outcome = "completed" =>
              /\ AllHeard(u) /\ worker[u].at \in {"none", "dead"}
              /\ step \in {"final", "complete", "dead"}
    PROVE  TextIInv'
<1>0. SpeechShapes /\ TextFacts(u)
  BY DEF SpeechIInv, TextIInv
<1>1. /\ at'[u].player = step /\ at'[u].synth = at[u].synth
      /\ \A w \in Utterances \ {u} : at'[w] = at[w]
  BY <1>0, PlayerGoes DEF SpeechShapes
<1>2. HandsKnown(u)'
  BY <1>0, <1>1 DEF TextFacts, HandsKnown
<1>3. IsSet(u)' \/ Sentinel(u)'
  BY <1>0, <1>1 DEF TextFacts, Sentinel
<1>4. SynthOn(u)' <=> SynthOn(u)
  BY <1>1 DEF SynthOn
<1>5. step \notin PlayingPlaces => ~PlayerOn(u)'
  BY <1>1 DEF PlayerOn, PlayingPlaces
<1>6. item'[u].player = item[u].player \/ (item'[u].player = <<>> /\ ~PlayerOn(u)')
  BY <1>5
<1>7. \A w \in Utterances \ {u} :
         speech'[w] = speech[w] /\ at'[w] = at[w] /\ item'[w] = item[w]
  BY <1>1
<1> QED
  BY <1>1, <1>2, <1>3, <1>4, <1>6, <1>7, TextWalks

\* The same with nothing said about the utterance.
LEMMA PlayerSilent ==
    ASSUME SpeechIInv, SpeechIInv', TextIInv, NEW u \in Utterances,
           NEW step \in PlayerSteps \cup AbortSteps, Goto(u, "player", step),
           UNCHANGED <<speech, worker, heard, speechGeneration>>,
           device' \in {device, AbortStream(speech[u].playbackId)},
           \/ item' = item
           \/ Drop(u, "player") /\ step \notin PlayingPlaces,
           step \in PlayingPlaces => at[u].player \in PlayingPlaces,
           step \notin {"begin", "append", "item", "drain"},
           item'[u].player = <<>>,
           step = "verdict" => at[u].player = "drain",
           \/ IsSet(u) \/ ~Current(u) \/ worker[u].at \notin {"playing", "drained"}
           \/ at[u].player # "drain",
           step \in {"final", "complete", "dead"} \/ at[u].player \notin {"final", "complete", "dead"}
    PROVE  TextIInv'
<1>0. SpeechShapes /\ TextFacts(u)
  BY DEF SpeechIInv, TextIInv
<1>1. /\ item'[u].synth = item[u].synth
      /\ item'[u].player = item[u].player \/ step \notin PlayingPlaces
      /\ \A w \in Utterances \ {u} : item'[w] = item[w]
  BY <1>0 DEF Drop, SpeechShapes, ItemRecords
<1>2. IsSet(u)' <=> IsSet(u)
  BY DEF IsSet
<1>3. speech[u].outcome = "failed" => speech[u].reported
  BY <1>0 DEF TextFacts, HandsKnown
<1>4. \/ IsSet(u)
      \/ step = "verdict" => speech[u].prepared = <<>> /\ at[u].synth = "dead"
  BY <1>0 DEF TextFacts, Sentinel
<1>5. speech[u].outcome = "completed" =>
         /\ AllHeard(u) /\ worker[u].at \in {"none", "dead"}
         /\ step \in {"final", "complete", "dead"}
  BY <1>0 DEF TextFacts, EndIsTrue
<1>6. /\ speech'[u] = speech[u]
      /\ \A w \in Utterances \ {u} : speech'[w] = speech[w] /\ item'[w] = item[w]
  BY <1>1
<1> QED
  BY <1>1, <1>2, <1>3, <1>4, <1>5, <1>6, PlayerText

\* What a thread has dropped.
LEMMA PlayerDrops ==
    ASSUME SpeechShapes, NEW u \in Utterances, Drop(u, "player")
    PROVE  item'[u].player = <<>>
  BY DEF Drop, SpeechShapes, ItemRecords

LEMMA PlayerRetiredText ==
    ASSUME SpeechIInv, SpeechIInv', TextIInv, NEW u \in Utterances, PlayerRetired(u)
    PROVE  TextIInv'
<1>1. /\ at[u].player \in {"get", "item", "refused", "drain"} /\ IsSet(u)
      /\ Goto(u, "player", "final") /\ Drop(u, "player")
      /\ UNCHANGED <<speech, worker, device, heard, speechGeneration>>
  BY DEF PlayerRetired, audio, service
<1>2. "final" \in PlayerSteps \cup AbortSteps /\ "final" \notin PlayingPlaces
  BY DEF PlayerSteps, PlayingPlaces
<1>3. item'[u].player = <<>>
  BY <1>1, PlayerDrops DEF SpeechIInv
<1> QED
  BY <1>1, <1>2, <1>3, PlayerSilent

LEMMA PlayerDrainedText ==
    ASSUME SpeechIInv, SpeechIInv', TextIInv, NEW u \in Utterances, PlayerDrained(u)
    PROVE  TextIInv'
<1>1. /\ at[u].player = "drain" /\ Goto(u, "player", "verdict") /\ device.finished
      /\ UNCHANGED <<speech, item, worker, device, heard, speechGeneration>>
  BY DEF PlayerDrained, At, audio, service
<1>2. "verdict" \in PlayerSteps \cup AbortSteps /\ "verdict" \notin PlayingPlaces
  BY DEF PlayerSteps, PlayingPlaces
<1>3. item[u].player = <<>>
  BY <1>1 DEF TextIInv, TextFacts, HandsKnown
<1>4. ~Current(u) \/ worker[u].at \notin {"playing", "drained"}
  BY <1>1 DEF SpeechIInv, UtteranceFacts, DeviceServes, Current
<1> QED
  BY <1>1, <1>2, <1>3, <1>4, PlayerSilent

LEMMA RefusedText ==
    ASSUME SpeechIInv, SpeechIInv', TextIInv, NEW u \in Utterances, Refused(u)
    PROVE  TextIInv'
<1>1. /\ at[u].player \in {"begin", "append"}
      /\ Goto(u, "player", "refused") /\ Drop(u, "player")
      /\ UNCHANGED <<speech, worker, device, heard, speechGeneration>>
  BY DEF Refused, At, audio, service
<1>2. "refused" \in PlayerSteps \cup AbortSteps /\ "refused" \notin PlayingPlaces
  BY DEF PlayerSteps, PlayingPlaces
<1>3. item'[u].player = <<>>
  BY <1>1, PlayerDrops DEF SpeechIInv
<1> QED
  BY <1>1, <1>2, <1>3, PlayerSilent

LEMMA PlayerAbortsText ==
    ASSUME SpeechIInv, SpeechIInv', TextIInv, NEW u \in Utterances, PlayerAborts(u)
    PROVE  TextIInv'
<1>1. /\ at[u].player = "refused" /\ Goto(u, "player", "abort")
      /\ UNCHANGED <<speech, item, worker, device, heard, speechGeneration>>
  BY DEF PlayerAborts, At, audio, service
<1>2. "abort" \in PlayerSteps \cup AbortSteps /\ "abort" \notin PlayingPlaces
  BY DEF AbortSteps, PlayingPlaces
<1>3. item[u].player = <<>>
  BY <1>1 DEF TextIInv, TextFacts, HandsKnown
<1> QED
  BY <1>1, <1>2, <1>3, PlayerSilent

LEMMA CompleteText ==
    ASSUME SpeechIInv, SpeechIInv', TextIInv, NEW u \in Utterances, Complete(u)
    PROVE  TextIInv'
<1>1. /\ at[u].player = "complete" /\ Goto(u, "player", "dead")
      /\ UNCHANGED <<speech, item, worker, device, heard, speechGeneration>>
  BY DEF Complete, At, audio
<1>2. "dead" \in PlayerSteps \cup AbortSteps /\ "dead" \notin PlayingPlaces
  BY DEF PlayerSteps, PlayingPlaces
<1>3. item[u].player = <<>>
  BY <1>1 DEF TextIInv, TextFacts, HandsKnown
<1> QED
  BY <1>1, <1>2, <1>3, PlayerSilent

LEMMA AppendedText ==
    ASSUME SpeechIInv, SpeechIInv', TextIInv, NEW u \in Utterances, Appended(u)
    PROVE  TextIInv'
<1> PICK step : step = IF IsSet(u) THEN "final" ELSE "get"
  OBVIOUS
<1>1. /\ at[u].player = "appended" /\ Goto(u, "player", step)
      /\ device' \in {device, AbortStream(speech[u].playbackId)}
      /\ UNCHANGED <<speech, item, worker, heard, speechGeneration>>
  BY DEF Appended, At, service
<1>2. /\ step \in PlayerSteps \cup AbortSteps /\ at[u].player \in PlayingPlaces
      /\ step \in {"final", "get"}
  BY <1>1 DEF PlayerSteps, PlayingPlaces
<1>3. item[u].player = <<>>
  BY <1>1 DEF TextIInv, TextFacts, HandsKnown
<1>4. step \notin {"begin", "append", "item", "drain", "verdict"}
      /\ at[u].player \notin {"final", "complete", "dead", "drain"}
  BY <1>1, <1>2
<1> QED
  BY <1>1, <1>2, <1>3, <1>4, PlayerSilent

LEMMA PlayerDispatchesText ==
    ASSUME SpeechIInv, SpeechIInv', TextIInv, NEW u \in Utterances, PlayerDispatches(u)
    PROVE  TextIInv'
<1>0. SpeechShapes /\ TextFacts(u)
  BY DEF SpeechIInv, TextIInv
<1> PICK step : step = IF item[u].started THEN "append" ELSE "begin"
  OBVIOUS
<1>1. /\ at[u].player = "item" /\ Goto(u, "player", step) /\ item[u].player # STOP
      /\ item' = [item EXCEPT ![u].expected = device.generation]
      /\ UNCHANGED <<speech, worker, device, heard, speechGeneration>>
  BY DEF PlayerDispatches, At, audio, service
<1>2. /\ step \in PlayerSteps \cup AbortSteps /\ at[u].player \in PlayingPlaces
      /\ step \in {"append", "begin"}
  BY <1>1 DEF PlayerSteps, PlayingPlaces
<1>3. /\ item'[u].player = item[u].player /\ item'[u].synth = item[u].synth
      /\ \A w \in Utterances \ {u} : speech'[w] = speech[w] /\ item'[w] = item[w]
  BY <1>0, <1>1 DEF SpeechShapes, ItemRecords
<1>4. IsSet(u)' <=> IsSet(u)
  BY <1>1 DEF IsSet
<1>5. speech[u].outcome = "failed" => speech[u].reported
  BY <1>0 DEF TextFacts, HandsKnown
<1>6. speech[u].outcome # "completed"
  BY <1>0, <1>1 DEF TextFacts, EndIsTrue
<1> QED
  BY <1>1, <1>2, <1>3, <1>4, <1>5, <1>6, PlayerText DEF STOP

LEMMA OpenedText ==
    ASSUME SpeechIInv, SpeechIInv', TextIInv, NEW u \in Utterances, Opened(u)
    PROVE  TextIInv'
<1>0. SpeechShapes /\ TextFacts(u) /\ speech[u] \in SpeechRecords
  BY FieldTypes DEF SpeechIInv, TextIInv
<1>1. /\ at[u].player = "opened" /\ Goto(u, "player", "appended")
      /\ item' = [item EXCEPT ![u].started = TRUE]
      /\ UNCHANGED <<worker, device, heard, speechGeneration>>
  BY DEF Opened, At, audio, service
<1>2. "appended" \in PlayerSteps \cup AbortSteps /\ at[u].player \in PlayingPlaces
  BY <1>1 DEF PlayerSteps, PlayingPlaces
<1>3. /\ item'[u].player = item[u].player /\ item'[u].synth = item[u].synth
      /\ \A w \in Utterances \ {u} : item'[w] = item[w]
  BY <1>0, <1>1 DEF SpeechShapes, ItemRecords
<1>4. /\ speech'[u].committed = speech[u].committed /\ speech'[u].born = speech[u].born
      /\ speech'[u].cancelled = speech[u].cancelled /\ speech'[u].failed = speech[u].failed
      /\ speech'[u].closed = speech[u].closed /\ speech'[u].next = speech[u].next
      /\ speech'[u].outcome = speech[u].outcome /\ speech'[u].reported = speech[u].reported
      /\ speech'[u].prepared = speech[u].prepared /\ speech'[u].queue = speech[u].queue
      /\ speech'[u].overflow = speech[u].overflow
      /\ \A w \in Utterances \ {u} : speech'[w] = speech[w]
  BY <1>0 DEF Opened, SpeechShapes, SpeechRecords
<1>5. IsSet(u)' <=> IsSet(u)
  BY <1>1, <1>4 DEF IsSet
<1>6. /\ speech[u].outcome = "failed" => speech[u].reported
      /\ item[u].player = <<>>
  BY <1>0, <1>1 DEF TextFacts, HandsKnown
<1>7. speech[u].outcome # "completed"
  BY <1>0, <1>1 DEF TextFacts, EndIsTrue
<1> QED
  BY <1>1, <1>2, <1>3, <1>4, <1>5, <1>6, <1>7, PlayerText

LEMMA PlayerFinalText ==
    ASSUME SpeechIInv, SpeechIInv', TextIInv, NEW u \in Utterances, PlayerFinal(u)
    PROVE  TextIInv'
<1>0. SpeechShapes /\ TextFacts(u) /\ speech[u] \in SpeechRecords
  BY FieldTypes DEF SpeechIInv, TextIInv
<1>1. /\ at[u].player = "final" /\ Goto(u, "player", "complete")
      /\ UNCHANGED <<item, worker, heard, speechGeneration>>
  BY DEF PlayerFinal, At, service
<1>2. "complete" \in PlayerSteps \cup AbortSteps /\ "complete" \notin PlayingPlaces
  BY DEF PlayerSteps, PlayingPlaces
<1>3. item[u].player = <<>>
  BY <1>0, <1>1 DEF TextFacts, HandsKnown
<1>4. CASE speech' = speech /\ device' = device
  BY <1>1, <1>2, <1>3, <1>4, PlayerSilent
<1>5. CASE /\ speech' = [speech EXCEPT ![u].outcome = "cancelled"]
           /\ device' = AbortStream(speech[u].playbackId)
  <2>1. /\ speech'[u].committed = speech[u].committed /\ speech'[u].born = speech[u].born
        /\ speech'[u].cancelled = speech[u].cancelled /\ speech'[u].failed = speech[u].failed
        /\ speech'[u].closed = speech[u].closed /\ speech'[u].next = speech[u].next
        /\ speech'[u].outcome = "cancelled" /\ speech'[u].reported = speech[u].reported
        /\ speech'[u].prepared = speech[u].prepared /\ speech'[u].queue = speech[u].queue
        /\ speech'[u].overflow = speech[u].overflow
        /\ \A w \in Utterances \ {u} : speech'[w] = speech[w]
    BY <1>0, <1>5 DEF SpeechShapes, SpeechRecords
  <2>2. IsSet(u)' <=> IsSet(u)
    BY <1>1, <2>1 DEF IsSet
  <2> QED
    BY <1>1, <1>2, <1>3, <1>5, <2>1, <2>2, PlayerText
<1> QED
  BY <1>4, <1>5 DEF PlayerFinal

\* When nothing is left on the way everything was heard.
LEMMA WholeHeard ==
    ASSUME NEW u \in Utterances, TextFacts(u), Flowing(u), OnDevice(u) = <<>>,
           item[u].player = <<>>, speech[u].prepared = <<>>, at[u].synth = "dead"
    PROVE  AllHeard(u)
<1>1. Text(u) = 1..speech[u].next
  BY DEF TextFacts, TextIsWhole
<1>2. speech[u].queue = <<>> /\ speech[u].overflow = <<>> /\ speech[u].closed
  BY DEF TextFacts, Sentinel, Flowing, PlayerOn
<1>3. item[u].synth = <<>>
  BY DEF TextFacts, HandsKnown
<1>4. Text(u) = AllOf(heard[u], <<>>, <<>>, <<>>, <<>>, <<>>, <<>>)
  BY <1>2, <1>3 DEF Text
<1>5. Text(u) = ChunksOf(heard[u])
  BY <1>4, NoChunks DEF AllOf
<1> QED
  BY <1>1, <1>2, <1>5 DEF AllHeard

LEMMA PlayerEndsText ==
    ASSUME SpeechIInv, SpeechIInv', TextIInv, NEW u \in Utterances, PlayerEnds(u)
    PROVE  TextIInv'
<1>0. /\ SpeechShapes /\ TextFacts(u) /\ speech[u] \in SpeechRecords /\ UtteranceFacts(u)
      /\ device.session \in {0, device.generation}
  BY FieldTypes DEF SpeechIInv, TextIInv
<1>1. /\ at[u].player = "item" /\ ~IsSet(u) /\ item[u].player = <<>>
      /\ UNCHANGED <<item, worker, heard, speechGeneration>>
  BY DEF PlayerEnds, At, service, STOP
<1>2. speech[u].prepared = <<>> /\ at[u].synth = "dead"
  BY <1>0, <1>1 DEF TextFacts, Sentinel, STOP
<1>3. speech[u].outcome # "completed" /\ (speech[u].outcome = "failed" => speech[u].reported)
  BY <1>0, <1>1 DEF TextFacts, EndIsTrue, HandsKnown
<1>4. CASE ~item[u].started
  <2>1. /\ Goto(u, "player", "final") /\ device' = device
        /\ speech' = [speech EXCEPT ![u].outcome = "completed"]
    BY <1>4 DEF PlayerEnds
  <2>2. "final" \in PlayerSteps \cup AbortSteps /\ "final" \notin PlayingPlaces
    BY DEF PlayerSteps, PlayingPlaces
  <2>3. /\ speech'[u].committed = speech[u].committed /\ speech'[u].born = speech[u].born
        /\ speech'[u].cancelled = speech[u].cancelled /\ speech'[u].failed = speech[u].failed
        /\ speech'[u].closed = speech[u].closed /\ speech'[u].next = speech[u].next
        /\ speech'[u].outcome = "completed" /\ speech'[u].reported = speech[u].reported
        /\ speech'[u].prepared = speech[u].prepared /\ speech'[u].queue = speech[u].queue
        /\ speech'[u].overflow = speech[u].overflow
        /\ \A w \in Utterances \ {u} : speech'[w] = speech[w]
    BY <1>0, <2>1 DEF SpeechShapes, SpeechRecords
  <2>4. worker[u].at = "none"
    BY <1>0, <1>1, <1>4 DEF UtteranceFacts, SessionKept
  <2>5. OnDevice(u) = <<>> /\ Flowing(u)
    BY <1>1, <1>2, <2>4 DEF OnDevice, Current, Flowing, PlayerOn, SynthOn, AbortSteps
  <2>6. AllHeard(u)
    BY <1>0, <1>1, <1>2, <2>5, WholeHeard
  <2>7. IsSet(u)' <=> IsSet(u)
    BY <1>1, <2>3 DEF IsSet
  <2> QED
    BY <1>1, <1>2, <2>1, <2>2, <2>3, <2>4, <2>6, <2>7, PlayerText
<1>5. CASE item[u].started
  <2>1. /\ Goto(u, "player", "drain") /\ speech' = speech
        /\ device' = IF speech[u].playbackId = device.session
                     THEN [device EXCEPT !.closed = TRUE] ELSE device
    BY <1>5 DEF PlayerEnds
  <2>2. "drain" \in PlayerSteps \cup AbortSteps /\ at[u].player \in PlayingPlaces
    BY <1>1 DEF PlayerSteps, PlayingPlaces
  <2>3. CASE speech[u].playbackId # device.session
    <3>1. device' = device
      BY <2>1, <2>3
    <3>2. IsSet(u)' <=> IsSet(u)
      BY <1>1, <2>1 DEF IsSet
    <3> QED
      BY <1>1, <1>2, <1>3, <2>1, <2>2, <3>1, <3>2, PlayerText
  <2>4. CASE speech[u].playbackId = device.session
    <3>1. device \in DeviceRecords /\ device' = [device EXCEPT !.closed = TRUE]
      BY <1>0, <2>1, <2>4 DEF SpeechShapes
    <3>2. /\ device'.generation = device.generation /\ device'.session = device.session
          /\ device'.chunks = device.chunks /\ device'.closed
      BY <3>1 DEF DeviceRecords
    <3>3. Current(u)
      BY <1>0, <1>5, <2>4 DEF UtteranceFacts, SessionKept, Current
    <3>4. /\ at'[u].player = "drain" /\ at'[u].synth = at[u].synth
          /\ \A w \in Utterances \ {u} : at'[w] = at[w]
      BY <1>0, <2>1, <2>2, PlayerGoes DEF SpeechShapes
    <3>5. DeviceStays(u) /\ DeviceIsFree(u) /\ Elsewhere(u)
      BY <1>1, <2>1, <3>2, <3>3, <3>4 DEF DeviceStays, DeviceIsFree, Elsewhere
    <3>6. /\ speech'[u] = speech[u] /\ item'[u] = item[u] /\ worker'[u] = worker[u]
          /\ heard'[u] = heard[u]
      BY <1>1, <2>1
    <3>7. IsSet(u)' <=> IsSet(u)
      BY <1>1, <2>1 DEF IsSet
    <3>8. HandsKnown(u)'
      BY <1>0, <1>1, <3>4, <3>6 DEF TextFacts, HandsKnown
    <3>9. Sentinel(u)'
      BY <1>0, <1>2, <3>4, <3>6, <3>7 DEF TextFacts, Sentinel
    <3>10. SynthOn(u)' <=> SynthOn(u)
      BY <3>4 DEF SynthOn
    <3>11. TextFacts(u)'
      BY <1>0, <1>3, <2>2, <3>4, <3>5, <3>6, <3>7, <3>8, <3>9, <3>10, ControlText
    <3> QED
      BY <1>0, <1>1, <3>2, <3>5, <3>11, TextGoesOn
  <2> QED
    BY <2>3, <2>4
<1> QED
  BY <1>4, <1>5

LEMMA PlayerVerdictText ==
    ASSUME SpeechIInv, SpeechIInv', TextIInv, NEW u \in Utterances, PlayerVerdict(u)
    PROVE  TextIInv'
<1>0. /\ SpeechShapes /\ TextFacts(u) /\ speech[u] \in SpeechRecords /\ UtteranceFacts(u)
  BY FieldTypes DEF SpeechIInv, TextIInv
<1>1. /\ at[u].player = "verdict" /\ Goto(u, "player", "final")
      /\ UNCHANGED <<item, worker, device, heard, speechGeneration>>
  BY DEF PlayerVerdict, At, audio, service
<1>2. "final" \in PlayerSteps \cup AbortSteps /\ "final" \notin PlayingPlaces
  BY DEF PlayerSteps, PlayingPlaces
<1>3. /\ item[u].player = <<>> /\ (worker[u].at = "dead" <=> worker[u].verdict # "none")
      /\ (speech[u].outcome = "failed" => speech[u].reported)
  BY <1>0, <1>1 DEF TextFacts, HandsKnown
<1>4. Settled(u)
  BY <1>0, <1>1 DEF UtteranceFacts, SessionKept, PlayerSettles
<1>5. /\ speech'[u].committed = speech[u].committed /\ speech'[u].born = speech[u].born
      /\ speech'[u].cancelled = speech[u].cancelled
      /\ speech'[u].closed = speech[u].closed /\ speech'[u].next = speech[u].next
      /\ speech'[u].prepared = speech[u].prepared /\ speech'[u].queue = speech[u].queue
      /\ speech'[u].overflow = speech[u].overflow
      /\ speech[u].failed => speech'[u].failed
      /\ \A w \in Utterances \ {u} : speech'[w] = speech[w]
  BY <1>0 DEF PlayerVerdict, SpeechShapes, SpeechRecords
<1>6. IsSet(u) => IsSet(u)'
  BY <1>1, <1>5 DEF IsSet
<1>7. speech'[u].outcome = "failed" => speech'[u].reported
  BY <1>0, <1>3 DEF PlayerVerdict, SpeechShapes, SpeechRecords
<1>8. speech'[u].outcome = "completed" =>
         AllHeard(u) /\ worker[u].at \in {"none", "dead"}
  <2> SUFFICES ASSUME speech'[u].outcome = "completed"
               PROVE  AllHeard(u) /\ worker[u].at \in {"none", "dead"}
    OBVIOUS
  <2>1. speech[u].outcome # "completed"
    BY <1>0, <1>1 DEF TextFacts, EndIsTrue
  <2>2. StreamOutcome(u) \notin {"failed", "cancelled"}
    BY <1>0, <2>1 DEF PlayerVerdict, SpeechShapes, SpeechRecords
  <2>3. worker[u].verdict # "none"
    BY <1>3, <1>4, <2>2 DEF StreamOutcome, Settled
  <2>4. worker[u].verdict = "completed"
    BY <1>0, <2>2, <2>3 DEF StreamOutcome, SpeechShapes, WorkerRecords
  <2> QED
    BY <1>0, <1>3, <2>3, <2>4 DEF TextFacts, EndIsTrue
<1>9. item'[u] = item[u] /\ \A w \in Utterances \ {u} : item'[w] = item[w]
  BY <1>1
<1> QED
  BY <1>1, <1>2, <1>3, <1>5, <1>6, <1>7, <1>8, <1>9, PlayerText

-----------------------------------------------------------------------------
(* The end of a session.                                                   *)

LEMMA RenderEndsText ==
    ASSUME SpeechIInv, SpeechIInv', TextIInv, NEW u \in Utterances, RenderEnds(u)
    PROVE  TextIInv'
<1>0. /\ SpeechShapes /\ TextFacts(u) /\ device.session \in {0, device.generation}
  BY DEF SpeechIInv, TextIInv
<1>1. /\ worker[u].at = "playing"
      /\ UNCHANGED <<speech, at, item, device, heard, speechGeneration>>
  BY DEF RenderEnds, service
<1>2. /\ worker'[u].generation = worker[u].generation
      /\ worker'[u].verdict = worker[u].verdict
      /\ worker'[u].at \in {"drained", "error"}
      /\ \A w \in Utterances \ {u} : worker'[w] = worker[w]
      /\ worker'[u].at = "drained" => device.closed /\ device.chunks = <<>>
  BY <1>0 DEF RenderEnds, SpeechShapes, WorkerRecords
<1>3. /\ speech'[u] = speech[u] /\ at'[u] = at[u] /\ item'[u] = item[u]
      /\ heard'[u] = heard[u] /\ device' = device
  BY <1>1
<1>4. (Current(u)' <=> Current(u)) /\ (IsSet(u)' <=> IsSet(u))
  BY <1>1, <1>2 DEF Current, IsSet
<1>5. OnDevice(u)' = OnDevice(u) /\ (Open(u)' <=> Open(u))
  BY <1>1, <1>2, <1>4 DEF OnDevice, Open
<1>6. (PlayerOn(u)' <=> PlayerOn(u)) /\ (SynthOn(u)' <=> SynthOn(u))
  BY <1>3, <1>4 DEF PlayerOn, SynthOn
<1>7. Flowing(u)' => Flowing(u) /\ Open(u)'
  <2>1. Flowing(u)' => Flowing(u)
    BY <1>1, <1>2, <1>4, <1>6 DEF Flowing
  <2>2. Flowing(u) => Open(u)
    BY CurrentIsOpen
  <2> QED
    BY <1>5, <2>1, <2>2
<1>8. NothingTwice(u)' /\ TextIsWhole(u)' /\ InLine(u)'
  BY <1>0, <1>3, <1>5, <1>6, <1>7, TextStays DEF TextFacts
<1>9. HandsKnown(u)' /\ Sentinel(u)'
  BY <1>0, <1>1, <1>2, <1>3, <1>4 DEF TextFacts, HandsKnown, Sentinel
<1>10. SessionEnds(u)'
  BY <1>0, <1>1, <1>2, <1>3, <1>4 DEF TextFacts, SessionEnds
<1>11. EndIsTrue(u)'
  BY <1>0, <1>1, <1>2, <1>3 DEF TextFacts, EndIsTrue, AllHeard
<1>12. TextFacts(u)'
  BY <1>8, <1>9, <1>10, <1>11 DEF TextFacts
<1>13. Elsewhere(u) /\ DeviceIsFree(u)
  BY <1>1, <1>2 DEF Elsewhere, DeviceIsFree
<1> QED
  BY <1>0, <1>1, <1>12, <1>13, TextGoesOn

LEMMA WorkerEndsText ==
    ASSUME SpeechIInv, SpeechIInv', TextIInv, NEW u \in Utterances, WorkerEnds(u)
    PROVE  TextIInv'
<1>0. /\ SpeechShapes /\ TextFacts(u) /\ device.session \in {0, device.generation}
      /\ UtteranceFacts(u) /\ device \in DeviceRecords /\ worker[u] \in WorkerRecords
  BY DEF SpeechIInv, TextIInv, SpeechShapes
<1>1. /\ worker[u].at \in {"drained", "error"}
      /\ UNCHANGED <<speech, at, item, heard, speechGeneration>>
  BY DEF WorkerEnds, service
<1> PICK result : result = IF SessionRetired(u) THEN "cancelled"
                           ELSE IF worker[u].at = "drained" THEN "completed" ELSE "failed"
  OBVIOUS
<1>2. /\ worker'[u].generation = worker[u].generation
      /\ worker'[u].verdict = result /\ worker'[u].at = "dead"
      /\ \A w \in Utterances \ {u} : worker'[w] = worker[w]
  BY <1>0 DEF WorkerEnds, SpeechShapes, WorkerRecords
<1>3. /\ speech'[u] = speech[u] /\ at'[u] = at[u] /\ item'[u] = item[u]
      /\ heard'[u] = heard[u]
  BY <1>1
<1>4. /\ Current(u) <=> worker[u].generation = device.generation
      /\ worker[u].generation # 0
      /\ worker[u].generation = device.generation => device.session = device.generation
      /\ worker[u].generation # device.generation => device.session # worker[u].generation
  BY <1>0, <1>1 DEF Current, UtteranceFacts, SessionKept, DeviceServes
<1>5. ~Current(u) => device' = device
  BY <1>4 DEF WorkerEnds
<1>6. Current(u) => /\ device'.generation = device.generation /\ device'.session = 0
                    /\ device'.chunks = <<>>
  BY <1>0, <1>4 DEF WorkerEnds, DeviceRecords
<1>7. /\ device'.generation = device.generation /\ (Current(u)' <=> Current(u))
      /\ (IsSet(u)' <=> IsSet(u)) /\ device'.session \in {0, device'.generation}
  BY <1>0, <1>1, <1>2, <1>5, <1>6 DEF Current, IsSet
<1>8. /\ OnDevice(u)' = <<>> /\ ~Open(u)'
      /\ (PlayerOn(u)' <=> PlayerOn(u)) /\ (SynthOn(u)' <=> SynthOn(u)) /\ ~Flowing(u)'
  <2>1. OnDevice(u)' = <<>>
    BY <1>6, <1>7 DEF OnDevice
  <2>2. ~Open(u)'
    BY <1>2, <1>4, <1>6, <1>7 DEF Open
  <2>3. (PlayerOn(u)' <=> PlayerOn(u)) /\ (SynthOn(u)' <=> SynthOn(u))
    BY <1>3, <1>7 DEF PlayerOn, SynthOn
  <2>4. ~Flowing(u)'
    BY <1>2 DEF Flowing
  <2> QED
    BY <2>1, <2>2, <2>3, <2>4
<1>9. NothingTwice(u)' /\ TextIsWhole(u)' /\ InLine(u)'
  BY <1>0, <1>3, <1>8, TextStays DEF TextFacts
<1>10. HandsKnown(u)' /\ Sentinel(u)' /\ SessionEnds(u)'
  BY <1>0, <1>1, <1>2, <1>3, <1>7 DEF TextFacts, HandsKnown, Sentinel, SessionEnds
<1>11. EndIsTrue(u)'
  <2>1. speech[u].outcome # "completed"
    BY <1>0, <1>1 DEF TextFacts, EndIsTrue
  <2>2. ASSUME result = "completed" PROVE AllHeard(u)
    <3>1. worker[u].at = "drained" /\ Current(u) /\ ~IsSet(u)
      BY <1>4, <2>2 DEF SessionRetired
    <3>2. at[u].player = "drain" /\ device.chunks = <<>>
      BY <1>0, <3>1 DEF TextFacts, SessionEnds
    <3>3. speech[u].prepared = <<>> /\ at[u].synth = "dead"
      BY <1>0, <3>1, <3>2 DEF TextFacts, Sentinel
    <3>4. item[u].player = <<>>
      BY <1>0, <3>2 DEF TextFacts, HandsKnown
    <3>5. Flowing(u) /\ OnDevice(u) = <<>>
      BY <3>1, <3>2, <3>3 DEF Flowing, PlayerOn, SynthOn, AbortSteps, OnDevice
    <3> QED
      BY <1>0, <3>3, <3>4, <3>5, WholeHeard
  <2>3. AllHeard(u)' <=> AllHeard(u)
    BY <1>3 DEF AllHeard
  <2> QED
    BY <1>2, <1>3, <2>1, <2>2, <2>3 DEF EndIsTrue
<1>12. TextFacts(u)'
  BY <1>9, <1>10, <1>11 DEF TextFacts
<1>13. Elsewhere(u) /\ DeviceIsFree(u)
  BY <1>1, <1>2, <1>5, <1>7 DEF Elsewhere, DeviceIsFree
<1> QED
  BY <1>1, <1>7, <1>12, <1>13, TextGoesOn

-----------------------------------------------------------------------------
(* Text that goes to the device and to the ear.                            *)

LEMMA EnqueueText ==
    ASSUME TextIInv, NEW u \in Utterances, Enqueue(u) PROVE TextIInv'
  BY TextUntouched DEF Enqueue, service

LEMMA TurnFailsText ==
    ASSUME TextIInv, NEW u \in Utterances, TurnFails(u) PROVE TextIInv'
  BY TextUntouched DEF TurnFails, service

\* The first item of a queue, and those behind it.
LEMMA FirstOfQueue ==
    ASSUME NEW S, NEW r \in Seq(S), r # <<>>
    PROVE  /\ Len(r) \in Nat /\ Len(Tail(r)) \in Nat /\ Len(r) = Len(Tail(r)) + 1
           /\ 1 \in 1..Len(r) /\ Head(r) = r[1]
           /\ \A k \in 1..Len(Tail(r)) : k + 1 \in 1..Len(r) /\ Tail(r)[k] = r[k + 1]
           /\ Len(r) = 1 => Tail(r) = <<>>
<1> PICK t : t = Tail(r)
  OBVIOUS
<1>1. /\ Len(r) \in Nat /\ Len(r) # 0 /\ Len(t) = Len(r) - 1 /\ Head(r) = r[1] /\ t \in Seq(S)
      /\ \A i \in 1..Len(t) : t[i] = r[i + 1]
  BY HeadTailProperties, LenProperties, EmptySeq
<1>2. 1 \in 1..Len(r) /\ \A i \in 1..Len(t) : i + 1 \in 1..Len(r)
  BY <1>1
<1>3. Len(r) = 1 => t = <<>>
  BY <1>1, EmptySeq
<1>4. Len(t) \in Nat /\ Len(r) = Len(t) + 1
  BY <1>1
<1> QED
  BY <1>1, <1>2, <1>3, <1>4

LEMMA PlayerTakesText ==
    ASSUME SpeechIInv, SpeechIInv', TextIInv, NEW u \in Utterances, PlayerTakes(u)
    PROVE  TextIInv'
<1>0. /\ SpeechShapes /\ TextFacts(u) /\ device.session \in {0, device.generation}
      /\ speech[u] \in SpeechRecords
  BY FieldTypes DEF SpeechIInv, TextIInv
<1>1. /\ at[u].player = "get" /\ ~IsSet(u) /\ Goto(u, "player", "item")
      /\ speech[u].prepared # <<>>
      /\ item' = [item EXCEPT ![u].player = Head(speech[u].prepared)]
      /\ speech' = [speech EXCEPT ![u].prepared = Tail(@)]
      /\ UNCHANGED <<worker, device, heard, speechGeneration>>
  BY DEF PlayerTakes, At, audio, service
<1> PICK r, h, t : r = speech[u].prepared /\ h = Head(speech[u].prepared)
                   /\ t = Tail(speech[u].prepared)
  OBVIOUS
<1>2. r \in Seq(Spoken) /\ r # <<>> /\ h = Head(r) /\ t = Tail(r)
  BY <1>0, <1>1, TextTypes
<1>3. /\ Len(r) \in Nat /\ Len(t) \in Nat /\ Len(r) = Len(t) + 1
      /\ 1 \in 1..Len(r) /\ h = r[1]
      /\ \A k \in 1..Len(t) : k + 1 \in 1..Len(r) /\ t[k] = r[k + 1]
      /\ Len(r) = 1 => t = <<>>
  BY <1>2, FirstOfQueue
<1>4. /\ speech'[u].committed = speech[u].committed /\ speech'[u].born = speech[u].born
      /\ speech'[u].cancelled = speech[u].cancelled /\ speech'[u].failed = speech[u].failed
      /\ speech'[u].closed = speech[u].closed /\ speech'[u].next = speech[u].next
      /\ speech'[u].outcome = speech[u].outcome /\ speech'[u].reported = speech[u].reported
      /\ speech'[u].prepared = t /\ speech'[u].queue = speech[u].queue
      /\ speech'[u].overflow = speech[u].overflow
      /\ \A w \in Utterances \ {u} : speech'[w] = speech[w]
  BY <1>0, <1>1 DEF SpeechShapes, SpeechRecords
<1>5. "item" \in PlayerSteps \cup AbortSteps
  BY DEF PlayerSteps
<1>6. /\ at'[u].player = "item" /\ at'[u].synth = at[u].synth
      /\ \A w \in Utterances \ {u} : at'[w] = at[w]
  BY <1>0, <1>1, <1>5, PlayerGoes DEF SpeechShapes
<1>7. /\ item'[u].player = h /\ item'[u].synth = item[u].synth
      /\ \A w \in Utterances \ {u} : item'[w] = item[w]
  BY <1>0, <1>1 DEF SpeechShapes, ItemRecords
<1>8. item[u].player = <<>>
  BY <1>0, <1>1 DEF TextFacts, HandsKnown
<1>9. (Current(u)' <=> Current(u)) /\ (IsSet(u)' <=> IsSet(u))
  BY <1>1, <1>4 DEF Current, IsSet
<1>10. OnDevice(u)' = OnDevice(u) /\ (Open(u)' <=> Open(u))
  BY <1>1, <1>9 DEF OnDevice, Open
<1>11. PlayerOn(u) /\ PlayerOn(u)' /\ (SynthOn(u)' <=> SynthOn(u))
  BY <1>1, <1>6, <1>9 DEF PlayerOn, SynthOn
<1>12. Flowing(u)' <=> Flowing(u)
  BY <1>1, <1>9, <1>11 DEF Flowing
<1>13. PICK S : S = 1..MaxUnits
  OBVIOUS
<1>14. /\ Distinct(heard[u], OnDevice(u), h, t, item[u].synth, speech[u].queue,
                   speech[u].overflow)
       /\ AllOf(heard[u], OnDevice(u), h, t, item[u].synth, speech[u].queue,
                speech[u].overflow) = Text(u)
  <2>1. Distinct(heard[u], OnDevice(u), <<>>, r, item[u].synth, speech[u].queue,
                 speech[u].overflow)
    BY <1>0, <1>8 DEF TextFacts, NothingTwice
  <2>2. Text(u) = AllOf(heard[u], OnDevice(u), <<>>, r, item[u].synth, speech[u].queue,
                        speech[u].overflow)
    BY <1>8 DEF Text
  <2>3. r \in Seq(Seq(S))
    BY <1>2, <1>13 DEF Spoken
  <2> QED
    BY <1>2, <2>1, <2>2, <2>3, DistinctTaken
<1>15. Text(u)' = Text(u)
  BY <1>1, <1>4, <1>7, <1>10, <1>14 DEF Text
<1>16. NothingTwice(u)' /\ TextIsWhole(u)'
  BY <1>0, <1>1, <1>4, <1>7, <1>10, <1>12, <1>14, <1>15
     DEF TextFacts, NothingTwice, TextIsWhole
<1>17. /\ \A k \in 1..Len(r) : r[k] = STOP => k = Len(r) /\ at[u].synth = "dead"
       /\ h = STOP => t = <<>> /\ Len(t) = 0 /\ at[u].synth = "dead"
  <2>1. \A k \in 1..Len(r) : r[k] = STOP => k = Len(r) /\ at[u].synth = "dead"
    BY <1>0, <1>1 DEF TextFacts, Sentinel
  <2>2. h = STOP => Len(r) = 1 /\ at[u].synth = "dead"
    BY <1>3, <2>1
  <2> QED
    BY <1>3, <2>1, <2>2, NoChunks
<1>18. InLine(u)'
  <2> SUFFICES ASSUME speech[u].committed PROVE InLine(u)'
    BY <1>4 DEF InLine
  <2>1. Rest(u)' = Rest(u) /\ Rest(u) \in Nat /\ Ready(u) = Rest(u)
    <3>1. Rest(u)' = Rest(u)
      BY <1>1, <1>10 DEF Rest
    <3>2. Rest(u) \in Nat
      BY <1>0, Counts
    <3>3. Ready(u) = Rest(u) + 0
      BY <1>8, NoChunks DEF Ready
    <3> QED
      BY <3>1, <3>2, <3>3
  <2>2. /\ Inorder(heard[u]) /\ QueueInLine(OnDevice(u), Len(heard[u]))
        /\ Open(u) => \A k \in 1..Len(r) : r[k] \in {STOP, <<Rest(u) + k>>}
    BY <1>0, <1>11, <2>1 DEF TextFacts, InLine
  <2>3. Open(u) => h \in {STOP, <<Rest(u) + 1>>}
    BY <1>3, <2>2
  <2>4. Ready(u)' = Rest(u) + Len(h)
    BY <1>7, <2>1 DEF Ready
  <2>5. Open(u) /\ h # STOP => Len(h) = 1
    <3>1. Rest(u) + 1 \in Nat
      BY <2>1
    <3> QED
      BY <2>3, <3>1, Short
  <2>6. ASSUME Open(u), NEW k \in 1..Len(t)
        PROVE  t[k] \in {STOP, <<Ready(u)' + k>>}
    <3>1. h # STOP
      BY <1>17, <2>6
    <3>2. Ready(u)' = Rest(u) + 1
      BY <2>4, <2>5, <2>6, <3>1
    <3>3. t[k] = r[k + 1] /\ r[k + 1] \in {STOP, <<Rest(u) + (k + 1)>>}
      BY <1>3, <2>2, <2>6
    <3>4. Rest(u) + (k + 1) = Rest(u) + 1 + k
      BY <1>3, <2>1
    <3> QED
      BY <3>2, <3>3, <3>4
  <2>7. ASSUME Open(u), SynthOn(u), at[u].synth # "dead"
        PROVE  /\ item[u].synth \in {<<>>, <<Ready(u)' + Len(t) + 1>>}
               /\ QueueInLine(speech[u].queue, Made(u)')
               /\ ~speech[u].closed => speech[u].next = Made(u)' + Len(speech[u].queue)
    <3>1. h # STOP
      BY <1>17, <2>7
    <3>2. Ready(u)' = Rest(u) + 1
      BY <2>4, <2>5, <2>7, <3>1
    <3>3. Ready(u)' + Len(t) = Ready(u) + Len(r)
      <4>1. \A m, n \in Nat : m + 1 + n = m + (n + 1)
        OBVIOUS
      <4>2. Rest(u) + 1 + Len(t) = Rest(u) + (Len(t) + 1)
        BY <1>3, <2>1, <4>1
      <4> QED
        BY <1>3, <2>1, <3>2, <4>2
    <3>4. Made(u)' = Made(u)
      <4>1. Made(u)' = Ready(u)' + Len(t) + Len(item[u].synth)
        BY <1>4, <1>7 DEF Made
      <4>2. Made(u) = Ready(u) + Len(r) + Len(item[u].synth)
        BY DEF Made
      <4> QED
        BY <3>3, <4>1, <4>2
    <3>5. /\ item[u].synth \in {<<>>, <<Ready(u) + Len(r) + 1>>}
          /\ QueueInLine(speech[u].queue, Made(u))
          /\ ~speech[u].closed => speech[u].next = Made(u) + Len(speech[u].queue)
      BY <1>0, <1>11, <2>7 DEF TextFacts, InLine
    <3> QED
      BY <3>3, <3>4, <3>5
  <2>8. Open(u) => item'[u].player \in {<<>>, <<Rest(u) + 1>>}
    BY <1>7, <2>3 DEF STOP
  <2>9. Inorder(heard[u])' /\ QueueInLine(OnDevice(u), Len(heard[u]))'
    BY <1>1, <1>10, <2>2 DEF QueueInLine, Inorder
  <2>10. Open(u)' => item'[u].player \in {<<>>, <<Rest(u)' + 1>>}
    BY <1>10, <2>1, <2>8
  <2>11. Open(u)' =>
            \A k \in 1..Len(speech'[u].prepared) :
                speech'[u].prepared[k] \in {STOP, <<Ready(u)' + k>>}
    BY <1>4, <1>10, <2>6
  <2>12. Open(u)' /\ SynthOn(u)' /\ at'[u].synth # "dead" =>
            /\ item'[u].synth \in {<<>>, <<Ready(u)' + Len(speech'[u].prepared) + 1>>}
            /\ QueueInLine(speech[u].queue, Made(u))'
            /\ ~speech'[u].closed => speech'[u].next = Made(u)' + Len(speech'[u].queue)
    BY <1>4, <1>6, <1>7, <1>10, <1>11, <2>7 DEF QueueInLine
  <2> QED
    BY <2>9, <2>10, <2>11, <2>12 DEF InLine
<1>19. HandsKnown(u)'
  BY <1>0, <1>1, <1>4, <1>6, <1>7 DEF TextFacts, HandsKnown
<1>20. Sentinel(u)'
  <2>1. ASSUME NEW k \in 1..Len(t), t[k] = STOP PROVE k = Len(t) /\ at[u].synth = "dead"
    <3>1. k + 1 \in 1..Len(r) /\ r[k + 1] = STOP
      BY <1>3, <2>1
    <3>2. k + 1 = Len(r) /\ at[u].synth = "dead"
      BY <1>17, <3>1
    <3> QED
      BY <1>3, <3>2
  <2>2. /\ at[u].synth = "closing" /\ speech[u].overflow # <<>> => speech[u].queue # <<>>
        /\ at[u].synth \in {"stop", "dead"} =>
              speech[u].queue = <<>> /\ speech[u].overflow = <<>> /\ speech[u].closed
    BY <1>0, <1>1 DEF TextFacts, Sentinel
  <2> QED
    BY <1>4, <1>6, <1>7, <1>17, <2>1, <2>2 DEF Sentinel
<1>21. SessionEnds(u)'
  BY <1>0, <1>1, <1>6, <1>9 DEF TextFacts, SessionEnds
<1>22. EndIsTrue(u)'
  BY <1>0, <1>1, <1>4, <1>6 DEF TextFacts, EndIsTrue, AllHeard
<1>23. TextFacts(u)'
  BY <1>16, <1>18, <1>19, <1>20, <1>21, <1>22 DEF TextFacts
<1>24. Elsewhere(u) /\ DeviceIsFree(u)
  BY <1>1, <1>4, <1>6, <1>7 DEF Elsewhere, DeviceIsFree
<1> QED
  BY <1>0, <1>1, <1>23, <1>24, TextGoesOn

\* The item the player holds goes to its session, the one of the device.
LEMMA BeginText ==
    ASSUME SpeechIInv, SpeechIInv', TextIInv, NEW u \in Utterances, Begin(u)
    PROVE  TextIInv'
<1>0. /\ SpeechShapes /\ TextFacts(u) /\ UtteranceFacts(u)
      /\ device.generation \in Nat /\ item[u].player \in Spoken
  BY FieldTypes DEF SpeechIInv, TextIInv
<1>a. PICK x, g : x = item[u].player /\ g = device.generation + 2
  OBVIOUS
<1>1. /\ at[u].player = "begin" /\ ~IsSet(u) /\ Goto(u, "player", "opened")
      /\ Drop(u, "player") /\ UNCHANGED <<speech, heard, speechGeneration>>
  BY DEF Begin, At, service
<1>b. PICK d : d = <<x>>
  OBVIOUS
<1>2. /\ device' = [generation |-> g, session |-> g, chunks |-> d,
                    closed |-> FALSE, stopped |-> FALSE, finished |-> FALSE]
      /\ worker' = [worker EXCEPT ![u].at = "playing", ![u].generation = g]
  BY <1>a, <1>b DEF Begin
<1>3. /\ device'.generation = g /\ device'.session = g /\ device'.chunks = d
      /\ ~device'.closed /\ g > device.generation
  BY <1>0, <1>2, <1>a
<1>4. /\ worker'[u].at = "playing" /\ worker'[u].generation = g
      /\ worker'[u].verdict = worker[u].verdict
      /\ \A w \in Utterances \ {u} : worker'[w] = worker[w]
  BY <1>0, <1>2 DEF SpeechShapes, WorkerRecords
<1>5. worker[u].at = "none" /\ x # <<>> /\ heard[u] = <<>> /\ worker[u].verdict = "none"
  BY <1>0, <1>1, <1>a DEF UtteranceFacts, SessionKept, TextFacts, HandsKnown
<1>6. /\ item'[u].player = <<>> /\ item'[u].synth = item[u].synth
      /\ \A w \in Utterances \ {u} : item'[w] = item[w]
  BY <1>0, <1>1 DEF Drop, SpeechShapes, ItemRecords
<1>7. "opened" \in PlayerSteps \cup AbortSteps
  BY DEF PlayerSteps
<1>8. /\ at'[u].player = "opened" /\ at'[u].synth = at[u].synth
      /\ \A w \in Utterances \ {u} : at'[w] = at[w]
  BY <1>0, <1>1, <1>7, PlayerGoes DEF SpeechShapes
<1>9. /\ speech'[u] = speech[u] /\ heard'[u] = heard[u]
  BY <1>1
<1>10. Current(u)' /\ (IsSet(u)' <=> IsSet(u)) /\ OnDevice(u) = <<>> /\ Open(u)
  BY <1>1, <1>3, <1>4, <1>5 DEF Current, IsSet, OnDevice, Open
<1>11. OnDevice(u)' = d /\ Open(u)'
  BY <1>3, <1>10 DEF OnDevice, Open
<1>12. PlayerOn(u) /\ PlayerOn(u)' /\ (SynthOn(u)' <=> SynthOn(u))
  BY <1>1, <1>8, <1>10 DEF PlayerOn, SynthOn
<1>13. Flowing(u)' <=> Flowing(u)
  BY <1>4, <1>5, <1>10, <1>12 DEF Flowing
<1>14. PICK S : S = 1..MaxUnits
  OBVIOUS
<1>15. /\ Distinct(heard[u], d, <<>>, speech[u].prepared, item[u].synth,
                   speech[u].queue, speech[u].overflow)
       /\ AllOf(heard[u], d, <<>>, speech[u].prepared, item[u].synth,
                speech[u].queue, speech[u].overflow) = Text(u)
  <2>1. Distinct(heard[u], OnDevice(u), x, speech[u].prepared, item[u].synth,
                 speech[u].queue, speech[u].overflow)
    BY <1>0, <1>a DEF TextFacts, NothingTwice
  <2>2. Text(u) = AllOf(heard[u], OnDevice(u), x, speech[u].prepared, item[u].synth,
                        speech[u].queue, speech[u].overflow)
    BY <1>a DEF Text
  <2>3. OnDevice(u) \in Seq(Seq(S)) /\ x \in Seq(S) /\ d = Append(OnDevice(u), x)
    BY <1>0, <1>10, <1>14, <1>a, <1>b, EmptySeq DEF Spoken
  <2> QED
    BY <2>1, <2>2, <2>3, DistinctAppended
<1>16. Text(u)' = Text(u)
  BY <1>6, <1>9, <1>11, <1>15 DEF Text
<1>17. NothingTwice(u)' /\ TextIsWhole(u)'
  BY <1>0, <1>6, <1>9, <1>11, <1>13, <1>15, <1>16 DEF TextFacts, NothingTwice, TextIsWhole
<1>18. InLine(u)'
  <2> SUFFICES ASSUME speech[u].committed PROVE InLine(u)'
    BY <1>9 DEF InLine
  <2>1. Len(heard[u]) = 0 /\ Rest(u) = 0
    <3>1. Len(heard[u]) = 0 /\ Len(OnDevice(u)) = 0
      BY <1>5, <1>10, NoChunks
    <3> QED
      BY <3>1 DEF Rest
  <2>2. Inorder(heard[u]) /\ x = <<0 + 1>>
    BY <1>0, <1>5, <1>10, <1>a, <2>1 DEF TextFacts, InLine
  <2>3. Len(d) = 1 /\ d[1] = x /\ Len(x) = 1
    BY <1>b, <2>2
  <2>4. QueueInLine(d, 0)
    BY <2>2, <2>3 DEF QueueInLine
  <2>5. Rest(u)' = 1 /\ Ready(u) = 1 /\ Ready(u)' = 1
    <3>1. Rest(u)' = Len(heard[u]) + Len(d)
      BY <1>9, <1>11 DEF Rest
    <3>2. Ready(u)' = Rest(u)' + 0
      BY <1>6, NoChunks DEF Ready
    <3>3. Ready(u) = 0 + 1
      BY <1>a, <2>1, <2>3 DEF Ready
    <3> QED
      BY <2>1, <2>3, <3>1, <3>2, <3>3
  <2>6. Made(u)' = Made(u)
    BY <1>6, <1>9, <2>5 DEF Made
  <2>7. Inorder(heard[u])' /\ QueueInLine(OnDevice(u), Len(heard[u]))'
    BY <1>9, <1>11, <2>1, <2>2, <2>4 DEF QueueInLine, Inorder
  <2>8. \A k \in 1..Len(speech'[u].prepared) :
            speech'[u].prepared[k] \in {STOP, <<Ready(u)' + k>>}
    BY <1>0, <1>9, <1>10, <1>12, <2>5 DEF TextFacts, InLine
  <2>9. SynthOn(u)' /\ at'[u].synth # "dead" =>
            /\ item'[u].synth \in {<<>>, <<Ready(u)' + Len(speech'[u].prepared) + 1>>}
            /\ QueueInLine(speech[u].queue, Made(u))'
            /\ ~speech'[u].closed => speech'[u].next = Made(u)' + Len(speech'[u].queue)
    BY <1>0, <1>6, <1>8, <1>9, <1>10, <1>12, <2>5, <2>6 DEF TextFacts, InLine, QueueInLine
  <2> QED
    BY <1>6, <2>7, <2>8, <2>9 DEF InLine
<1>19. HandsKnown(u)'
  BY <1>0, <1>4, <1>5, <1>6, <1>8, <1>9 DEF TextFacts, HandsKnown
<1>20. Sentinel(u)'
  BY <1>0, <1>8, <1>9, <1>10 DEF TextFacts, Sentinel
<1>21. SessionEnds(u)'
  BY <1>3, <1>4 DEF SessionEnds
<1>22. EndIsTrue(u)'
  BY <1>0, <1>1, <1>4, <1>5, <1>9 DEF TextFacts, EndIsTrue, AllHeard
<1>23. TextFacts(u)'
  BY <1>17, <1>18, <1>19, <1>20, <1>21, <1>22 DEF TextFacts
<1>24. Elsewhere(u) /\ DeviceIsFree(u)
  BY <1>1, <1>3, <1>4, <1>6, <1>8 DEF Elsewhere, DeviceIsFree
<1> QED
  BY <1>1, <1>3, <1>23, <1>24, TextGoesOn

LEMMA AppendsText ==
    ASSUME SpeechIInv, SpeechIInv', TextIInv, NEW u \in Utterances, Appends(u)
    PROVE  TextIInv'
<1>0. /\ SpeechShapes /\ TextFacts(u) /\ UtteranceFacts(u)
      /\ device \in DeviceRecords /\ item[u].player \in Spoken
      /\ device.session \in {0, device.generation} /\ device.chunks \in Seq(Spoken)
  BY FieldTypes DEF SpeechIInv, TextIInv, SpeechShapes, DeviceRecords
<1> PICK x, d : x = item[u].player /\ d = Append(device.chunks, item[u].player)
  OBVIOUS
<1>1. /\ at[u].player = "append" /\ ~IsSet(u) /\ Goto(u, "player", "appended")
      /\ device.session = speech[u].playbackId /\ device.session = device.generation
      /\ ~device.closed /\ Drop(u, "player")
      /\ device' = [device EXCEPT !.chunks = Append(@, item[u].player)]
      /\ UNCHANGED <<speech, worker, heard, speechGeneration>>
  BY DEF Appends, Accepts, At, service
<1>2. /\ device'.generation = device.generation /\ device'.session = device.session
      /\ device'.chunks = d /\ ~device'.closed
  BY <1>0, <1>1 DEF DeviceRecords
<1>3. worker[u].at # "none" /\ worker[u].generation = device.generation /\ x # <<>>
  BY <1>0, <1>1 DEF UtteranceFacts, SessionKept, TextFacts, HandsKnown
<1>4. /\ item'[u].player = <<>> /\ item'[u].synth = item[u].synth
      /\ \A w \in Utterances \ {u} : item'[w] = item[w]
  BY <1>0, <1>1 DEF Drop, SpeechShapes, ItemRecords
<1>5. "appended" \in PlayerSteps \cup AbortSteps
  BY DEF PlayerSteps
<1>6. /\ at'[u].player = "appended" /\ at'[u].synth = at[u].synth
      /\ \A w \in Utterances \ {u} : at'[w] = at[w]
  BY <1>0, <1>1, <1>5, PlayerGoes DEF SpeechShapes
<1>7. speech'[u] = speech[u] /\ heard'[u] = heard[u] /\ worker'[u] = worker[u]
  BY <1>1
<1>8. /\ Current(u) /\ Current(u)' /\ (IsSet(u)' <=> IsSet(u)) /\ Open(u) /\ Open(u)'
  BY <1>1, <1>2, <1>3 DEF Current, IsSet, Open
<1>9. OnDevice(u) = device.chunks /\ OnDevice(u)' = d
  BY <1>2, <1>8 DEF OnDevice
<1>10. PlayerOn(u) /\ PlayerOn(u)' /\ (SynthOn(u)' <=> SynthOn(u))
  BY <1>1, <1>6, <1>8 DEF PlayerOn, SynthOn
<1>11. Flowing(u)' <=> Flowing(u)
  BY <1>7, <1>8, <1>10 DEF Flowing
<1>12. PICK S : S = 1..MaxUnits
  OBVIOUS
<1>13. /\ Distinct(heard[u], d, <<>>, speech[u].prepared, item[u].synth,
                   speech[u].queue, speech[u].overflow)
       /\ AllOf(heard[u], d, <<>>, speech[u].prepared, item[u].synth,
                speech[u].queue, speech[u].overflow) = Text(u)
  <2>1. Distinct(heard[u], device.chunks, x, speech[u].prepared, item[u].synth,
                 speech[u].queue, speech[u].overflow)
    BY <1>0, <1>9 DEF TextFacts, NothingTwice
  <2>2. Text(u) = AllOf(heard[u], device.chunks, x, speech[u].prepared, item[u].synth,
                        speech[u].queue, speech[u].overflow)
    BY <1>9 DEF Text
  <2>3. device.chunks \in Seq(Seq(S)) /\ x \in Seq(S) /\ d = Append(device.chunks, x)
    BY <1>0, <1>12 DEF Spoken
  <2> QED
    BY <2>1, <2>2, <2>3, DistinctAppended
<1>14. Text(u)' = Text(u)
  BY <1>4, <1>7, <1>9, <1>13 DEF Text
<1>15. NothingTwice(u)' /\ TextIsWhole(u)'
  BY <1>0, <1>4, <1>7, <1>9, <1>11, <1>13, <1>14 DEF TextFacts, NothingTwice, TextIsWhole
<1>16. InLine(u)'
  <2> SUFFICES ASSUME speech[u].committed PROVE InLine(u)'
    BY <1>7 DEF InLine
  <2>1. /\ Rest(u) = Len(heard[u]) + Len(device.chunks) /\ Rest(u) \in Nat
        /\ Len(heard[u]) \in Nat /\ Len(device.chunks) \in Nat
        /\ Len(d) = Len(device.chunks) + 1
    <3>1. Rest(u) = Len(heard[u]) + Len(device.chunks)
      BY <1>9 DEF Rest
    <3>2. Rest(u) \in Nat /\ Len(heard[u]) \in Nat
      BY <1>0, TextTypes, Counts
    <3>3. Len(device.chunks) \in Nat /\ Len(d) = Len(device.chunks) + 1
      BY <1>0, Chunked
    <3> QED
      BY <3>1, <3>2, <3>3
  <2>2. /\ Inorder(heard[u]) /\ QueueInLine(device.chunks, Len(heard[u]))
        /\ x = <<Len(heard[u]) + Len(device.chunks) + 1>> /\ x = <<Rest(u) + 1>>
    BY <1>0, <1>3, <1>8, <1>9, <2>1 DEF TextFacts, InLine
  <2>3. QueueInLine(d, Len(heard[u]))
    BY <1>0, <2>1, <2>2, LineGrows
  <2>4. Len(x) = 1
    BY <2>2
  <2>5. /\ Rest(u)' = Rest(u) + 1 /\ Ready(u) = Rest(u) + 1 /\ Ready(u)' = Ready(u)
    <3>1. Rest(u)' = Len(heard[u]) + Len(d)
      BY <1>7, <1>9 DEF Rest
    <3>2. Ready(u)' = Rest(u)' + 0
      BY <1>4, NoChunks DEF Ready
    <3>3. Ready(u) = Rest(u) + 1
      BY <2>4 DEF Ready
    <3>4. \A m, n \in Nat : m + (n + 1) = m + n + 1
      OBVIOUS
    <3>5. Len(heard[u]) + (Len(device.chunks) + 1) = Len(heard[u]) + Len(device.chunks) + 1
      BY <2>1, <3>4
    <3>6. Rest(u)' = Rest(u) + 1
      BY <2>1, <3>1, <3>5
    <3> QED
      BY <2>1, <3>2, <3>3, <3>6
  <2>6. Made(u)' = Made(u)
    BY <1>4, <1>7, <2>5 DEF Made
  <2>7. Inorder(heard[u])' /\ QueueInLine(OnDevice(u), Len(heard[u]))'
    BY <1>7, <1>9, <2>2, <2>3 DEF QueueInLine, Inorder
  <2>8. \A k \in 1..Len(speech'[u].prepared) :
            speech'[u].prepared[k] \in {STOP, <<Ready(u)' + k>>}
    BY <1>0, <1>7, <1>8, <1>10, <2>5 DEF TextFacts, InLine
  <2>9. SynthOn(u)' /\ at'[u].synth # "dead" =>
            /\ item'[u].synth \in {<<>>, <<Ready(u)' + Len(speech'[u].prepared) + 1>>}
            /\ QueueInLine(speech[u].queue, Made(u))'
            /\ ~speech'[u].closed => speech'[u].next = Made(u)' + Len(speech'[u].queue)
    BY <1>0, <1>4, <1>6, <1>7, <1>8, <1>10, <2>5, <2>6 DEF TextFacts, InLine, QueueInLine
  <2> QED
    BY <1>4, <2>7, <2>8, <2>9 DEF InLine
<1>17. HandsKnown(u)'
  BY <1>0, <1>4, <1>6, <1>7 DEF TextFacts, HandsKnown
<1>18. Sentinel(u)'
  BY <1>0, <1>6, <1>7, <1>8 DEF TextFacts, Sentinel
<1>19. SessionEnds(u)'
  BY <1>0, <1>1, <1>2, <1>7, <1>8 DEF TextFacts, SessionEnds
<1>20. EndIsTrue(u)'
  BY <1>0, <1>1, <1>7 DEF TextFacts, EndIsTrue, AllHeard
<1>21. TextFacts(u)'
  BY <1>15, <1>16, <1>17, <1>18, <1>19, <1>20 DEF TextFacts
<1>22. Elsewhere(u) /\ DeviceIsFree(u)
  BY <1>1, <1>2, <1>4, <1>6, <1>8 DEF Elsewhere, DeviceIsFree
<1> QED
  BY <1>0, <1>1, <1>2, <1>21, <1>22, TextGoesOn

\* The chunk after those heard in order.
LEMMA NextInOrder ==
    ASSUME NEW S, NEW s \in Seq(S), Inorder(s), NEW x \in S, x = Len(s) + 1
    PROVE  Inorder(s \o <<x>>) /\ Len(s \o <<x>>) = Len(s) + 1
<1>1. PICK e : e = <<x>>
  OBVIOUS
<1>2. PICK c : c = s \o e
  OBVIOUS
<1>3. e \in Seq(S) /\ Len(e) = 1 /\ e[1] = x
  BY <1>1, Short
<1>4. /\ c \in Seq(S) /\ Len(c) = Len(s) + Len(e) /\ Len(s) \in Nat
      /\ \A i \in 1..Len(c) : c[i] = IF i <= Len(s) THEN s[i] ELSE e[i - Len(s)]
  <2>1. /\ s \o e \in Seq(S) /\ Len(s \o e) = Len(s) + Len(e)
        /\ \A i \in 1..Len(s) + Len(e) :
              (s \o e)[i] = IF i <= Len(s) THEN s[i] ELSE e[i - Len(s)]
    BY <1>3, ConcatProperties
  <2> QED
    BY <1>2, <2>1, LenProperties
<1>5. \A i \in 1..Len(s) : s[i] = i
  BY DEF Inorder
<1>6. Len(c) = Len(s) + 1
  BY <1>3, <1>4
<1>7. ASSUME NEW i \in 1..Len(c) PROVE c[i] = i
  <2>1. CASE i <= Len(s)
    BY <1>4, <1>5, <2>1
  <2>2. CASE i = Len(s) + 1
    BY <1>3, <1>4, <2>2
  <2> QED
    BY <1>4, <1>6, <2>1, <2>2
<1>8. c = [i \in 1..Len(c) |-> c[i]]
  BY <1>4
<1>9. Inorder(c)
  BY <1>7, <1>8 DEF Inorder
<1> QED
  BY <1>1, <1>2, <1>6, <1>9

\* The callback renders the next chunk of the session of u.
LEMMA RenderText ==
    ASSUME SpeechIInv, SpeechIInv', TextIInv, NEW u \in Utterances, Render(u)
    PROVE  TextIInv'
<1>0. /\ SpeechShapes /\ TextFacts(u) /\ UtteranceFacts(u)
      /\ device \in DeviceRecords /\ heard[u] \in Spoken
      /\ device.session \in {0, device.generation} /\ device.chunks \in Seq(Spoken)
  BY DEF SpeechIInv, TextIInv, SpeechShapes, DeviceRecords
<1>1. /\ worker[u].at = "playing" /\ worker[u].generation = device.generation
      /\ device.chunks # <<>>
      /\ heard' = [heard EXCEPT ![u] = @ \o Head(device.chunks)]
      /\ device' = [device EXCEPT !.chunks = Tail(@)]
      /\ UNCHANGED <<speech, at, item, worker, speechGeneration>>
  BY DEF Render, SessionRetired, service
<1>2. PICK d, h, t : d = device.chunks /\ t = Tail(device.chunks)
                     /\ h = heard[u] \o Head(device.chunks)
  OBVIOUS
<1>3. /\ device'.generation = device.generation /\ device'.session = device.session
      /\ device'.chunks = t /\ device'.closed = device.closed
  BY <1>0, <1>1, <1>2 DEF DeviceRecords
<1>4. heard'[u] = h /\ \A w \in Utterances \ {u} : heard'[w] = heard[w]
  BY <1>0, <1>1, <1>2 DEF SpeechShapes
<1>5. /\ speech'[u] = speech[u] /\ at'[u] = at[u] /\ item'[u] = item[u]
      /\ worker'[u] = worker[u]
  BY <1>1
<1>6. Current(u) /\ Current(u)' /\ (IsSet(u)' <=> IsSet(u))
  BY <1>1, <1>3 DEF Current, IsSet
<1>7. OnDevice(u) = d /\ OnDevice(u)' = t
  BY <1>2, <1>3, <1>6 DEF OnDevice
<1>8. /\ Open(u)' <=> Open(u)
      /\ PlayerOn(u)' <=> PlayerOn(u)
      /\ SynthOn(u)' <=> SynthOn(u)
  BY <1>3, <1>5, <1>6 DEF Open, PlayerOn, SynthOn
<1>9. Flowing(u)' <=> Flowing(u)
  BY <1>5, <1>6, <1>8 DEF Flowing
<1>10. PICK S : S = 1..MaxUnits
  OBVIOUS
<1>11. /\ Distinct(h, t, item[u].player, speech[u].prepared, item[u].synth,
                   speech[u].queue, speech[u].overflow)
       /\ AllOf(h, t, item[u].player, speech[u].prepared, item[u].synth,
                speech[u].queue, speech[u].overflow) = Text(u)
  <2>1. Distinct(heard[u], d, item[u].player, speech[u].prepared, item[u].synth,
                 speech[u].queue, speech[u].overflow)
    BY <1>0, <1>7 DEF TextFacts, NothingTwice
  <2>2. Text(u) = AllOf(heard[u], d, item[u].player, speech[u].prepared, item[u].synth,
                        speech[u].queue, speech[u].overflow)
    BY <1>7 DEF Text
  <2>3. /\ heard[u] \in Seq(S) /\ d \in Seq(Seq(S)) /\ d # <<>>
        /\ h = heard[u] \o Head(d) /\ t = Tail(d)
    BY <1>0, <1>1, <1>2, <1>10 DEF Spoken
  <2> QED
    BY <2>1, <2>2, <2>3, DistinctHeard
<1>12. Text(u)' = Text(u)
  BY <1>4, <1>5, <1>7, <1>11 DEF Text
<1>13. NothingTwice(u)' /\ TextIsWhole(u)'
  BY <1>0, <1>4, <1>5, <1>7, <1>9, <1>11, <1>12 DEF TextFacts, NothingTwice, TextIsWhole
<1>14. InLine(u)'
  <2> SUFFICES ASSUME speech[u].committed PROVE InLine(u)'
    BY <1>5 DEF InLine
  <2>1. Inorder(heard[u]) /\ QueueInLine(d, Len(heard[u]))
    BY <1>0, <1>7 DEF TextFacts, InLine
  <2>2. /\ d \in Seq(Spoken) /\ d # <<>> /\ t = Tail(d) /\ Head(d) \in Spoken
        /\ Len(heard[u]) \in Nat /\ t \in Seq(Spoken)
    BY <1>0, <1>1, <1>2, TextTypes, Chunked
  <2>3. /\ Head(d) = <<Len(heard[u]) + 1>>
        /\ QueueInLine(t, Len(heard[u]) + 1) /\ Len(d) = Len(t) + 1
    BY <2>1, <2>2, LineTaken
  <2>4. PICK x : x = Len(heard[u]) + 1
    OBVIOUS
  <2>5. x \in Nat /\ heard[u] \in Seq(Nat)
    <3>1. 1..MaxUnits \subseteq Nat
      BY BoundsAssumption DEF BoundsAssumption
    <3>2. heard[u] \in Seq(Nat)
      BY <1>0, <3>1, SeqMonotonic DEF Spoken
    <3> QED
      BY <2>2, <2>4, <3>2
  <2>6. h = heard[u] \o <<x>>
    BY <1>2, <2>3, <2>4
  <2>7. Inorder(h) /\ Len(h) = Len(heard[u]) + 1
    BY <2>1, <2>4, <2>5, <2>6, NextInOrder
  <2>8. Len(t) \in Nat
    BY <2>2, LenProperties
  <2>9. Rest(u)' = Rest(u)
    <3>1. Rest(u)' = Len(h) + Len(t)
      BY <1>4, <1>7 DEF Rest
    <3>2. Rest(u) = Len(heard[u]) + (Len(t) + 1)
      BY <1>7, <2>3 DEF Rest
    <3>3. \A m, n \in Nat : m + 1 + n = m + (n + 1)
      OBVIOUS
    <3> QED
      BY <2>2, <2>7, <2>8, <3>1, <3>2, <3>3
  <2>10. Ready(u)' = Ready(u) /\ Made(u)' = Made(u)
    BY <1>5, <2>9 DEF Ready, Made
  <2>11. Inorder(heard[u])' /\ QueueInLine(OnDevice(u), Len(heard[u]))'
    BY <1>4, <1>7, <2>3, <2>7 DEF QueueInLine, Inorder
  <2>12. /\ Open(u) => item[u].player \in {<<>>, <<Rest(u) + 1>>}
         /\ Open(u) /\ PlayerOn(u) =>
               \A k \in 1..Len(speech[u].prepared) :
                   speech[u].prepared[k] \in {STOP, <<Ready(u) + k>>}
         /\ Open(u) /\ PlayerOn(u) /\ SynthOn(u) /\ at[u].synth # "dead" =>
               /\ item[u].synth \in {<<>>, <<Ready(u) + Len(speech[u].prepared) + 1>>}
               /\ QueueInLine(speech[u].queue, Made(u))
               /\ ~speech[u].closed => speech[u].next = Made(u) + Len(speech[u].queue)
    BY <1>0 DEF TextFacts, InLine
  <2> QED
    BY <1>5, <1>8, <2>9, <2>10, <2>11, <2>12 DEF InLine, QueueInLine
<1>15. HandsKnown(u)'
  BY <1>0, <1>1, <1>5 DEF TextFacts, HandsKnown
<1>16. Sentinel(u)'
  BY <1>0, <1>5, <1>6 DEF TextFacts, Sentinel
<1>17. SessionEnds(u)'
  BY <1>0, <1>1, <1>3, <1>5, <1>6 DEF TextFacts, SessionEnds
<1>18. EndIsTrue(u)'
  <2>1. worker[u].verdict = "none" /\ speech[u].outcome # "completed"
    BY <1>0, <1>1 DEF TextFacts, HandsKnown, EndIsTrue
  <2> QED
    BY <1>5, <2>1 DEF EndIsTrue
<1>19. TextFacts(u)'
  BY <1>13, <1>14, <1>15, <1>16, <1>17, <1>18 DEF TextFacts
<1>20. Elsewhere(u) /\ DeviceIsFree(u)
  BY <1>1, <1>3, <1>4, <1>6 DEF Elsewhere, DeviceIsFree
<1> QED
  BY <1>0, <1>1, <1>3, <1>19, <1>20, TextGoesOn

-----------------------------------------------------------------------------
(* Utterances without text.                                                *)

\* Of an utterance whose queues and hands are empty everything is right.
NoText(u) ==
    /\ heard[u] = <<>> /\ item[u].player = <<>> /\ item[u].synth = <<>>
    /\ speech[u].prepared = <<>> /\ speech[u].queue = <<>> /\ speech[u].overflow = <<>>
    /\ speech[u].next = 0 /\ speech[u].outcome \notin {"completed", "failed"}
    /\ worker[u].at = "none" /\ worker[u].verdict = "none"
    /\ at[u].synth \in {"none", "get"} /\ at[u].player \in {"none", "get"}

LEMMA NoTextRight ==
    ASSUME NEW u \in Utterances, NoText(u) PROVE TextFacts(u)
<1>1. OnDevice(u) = <<>>
  BY DEF NoText, OnDevice, Current
<1>2. 1..0 = {}
  OBVIOUS
<1>3. Text(u) = AllOf(<<>>, <<>>, <<>>, <<>>, <<>>, <<>>, <<>>)
  BY <1>1 DEF NoText, Text
<1>4. Text(u) = {}
  BY <1>3, NoChunks DEF AllOf
<1>5. Distinct(<<>>, <<>>, <<>>, <<>>, <<>>, <<>>, <<>>)
  BY NoChunks DEF Distinct, Apart
<1>6. NothingTwice(u)
  BY <1>1, <1>4, <1>5 DEF NoText, NothingTwice
<1>7. TextIsWhole(u)
  BY <1>2, <1>4 DEF NoText, TextIsWhole
<1>8. InLine(u)
  <2>1. /\ Len(heard[u]) = 0 /\ Len(OnDevice(u)) = 0 /\ Len(item[u].player) = 0
        /\ Len(item[u].synth) = 0 /\ Len(speech[u].prepared) = 0 /\ Len(speech[u].queue) = 0
    BY <1>1, NoChunks DEF NoText
  <2>2. Rest(u) = 0 /\ Ready(u) = 0 /\ Made(u) = 0
    BY <2>1 DEF Rest, Ready, Made
  <2>3. Inorder(heard[u])
    <3>1. heard[u] = [i \in 1..0 |-> i]
      BY DEF NoText
    <3> QED
      BY <2>1, <3>1 DEF Inorder
  <2>4. QueueInLine(OnDevice(u), Len(heard[u])) /\ QueueInLine(speech[u].queue, Made(u))
    BY <1>2, <2>1 DEF QueueInLine
  <2>5. speech[u].next = Made(u) + Len(speech[u].queue)
    BY <2>1, <2>2 DEF NoText
  <2> QED
    BY <1>2, <2>1, <2>3, <2>4, <2>5 DEF NoText, InLine
<1>9. HandsKnown(u) /\ SessionEnds(u) /\ EndIsTrue(u)
  BY DEF NoText, HandsKnown, SessionEnds, EndIsTrue
<1>10. Sentinel(u)
  BY <1>2, NoChunks DEF NoText, Sentinel
<1> QED
  BY <1>6, <1>7, <1>8, <1>9, <1>10 DEF TextFacts

LEMMA NoTextGoesRight ==
    (\A u \in Utterances : NoText(u) => TextFacts(u))'
<1>1. \A u \in Utterances : NoText(u) => TextFacts(u)
  BY NoTextRight
<1> QED
  BY <1>1, PTL

LEMMA StartText ==
    ASSUME SpeechIInv, SpeechIInv', TextIInv, NEW u \in Utterances, Start(u)
    PROVE  TextIInv'
<1>0. /\ SpeechShapes /\ TextFacts(u) /\ UtteranceFacts(u)
      /\ device.session \in {0, device.generation} /\ Fresh \in SpeechRecords
  BY FreshTyped DEF SpeechIInv, TextIInv
<1>1. /\ turn[u] = "none"
      /\ at' = [at EXCEPT ![u] = [synth |-> "get", player |-> "get"]]
      /\ UNCHANGED <<item, worker, device, heard, speechGeneration>>
  BY DEF Start, audio
<1>2. PICK c \in BOOLEAN :
          speech' = [speech EXCEPT ![u] = [Fresh EXCEPT !.committed = c,
                        !.born = speechGeneration, !.outcome = "pending"]]
  BY BoundsAssumption DEF Start, BoundsAssumption
<1>3. /\ speech'[u].queue = Fresh.queue /\ speech'[u].prepared = Fresh.prepared
      /\ speech'[u].overflow = Fresh.overflow /\ speech'[u].next = Fresh.next
      /\ speech'[u].outcome = "pending"
      /\ \A w \in Utterances \ {u} : speech'[w] = speech[w]
  BY <1>0, <1>2 DEF SpeechShapes, SpeechRecords
<1>4. /\ at'[u].synth = "get" /\ at'[u].player = "get"
      /\ \A w \in Utterances \ {u} : at'[w] = at[w]
  BY <1>0, <1>1 DEF SpeechShapes
<1>5. worker[u].at = "none" /\ at[u].player = "none" /\ at[u].synth = "none"
  BY <1>0, <1>1 DEF UtteranceFacts, MarksLeft
<1>6. /\ heard[u] = <<>> /\ item[u].player = <<>> /\ item[u].synth = <<>>
      /\ worker[u].verdict = "none"
  BY <1>0, <1>5 DEF TextFacts, HandsKnown
<1>7. Fresh.next = 0
  BY DEF Fresh
<1>8. NoText(u)'
  BY <1>1, <1>3, <1>4, <1>5, <1>6, <1>7, FreshTyped DEF NoText
<1>9. TextFacts(u)'
  BY <1>8, NoTextGoesRight
<1>10. Elsewhere(u) /\ DeviceIsFree(u)
  BY <1>1, <1>3, <1>4 DEF Elsewhere, DeviceIsFree
<1> QED
  BY <1>0, <1>1, <1>9, <1>10, TextGoesOn

LEMMA InitText ==
    ASSUME Init PROVE TextIInv
<1>1. device.session = 0
  BY DEF Init
<1>2. ASSUME NEW u \in Utterances PROVE TextFacts(u)
  <2>1. /\ speech[u] = Fresh /\ at[u] = [synth |-> "none", player |-> "none"]
        /\ item[u] = [synth |-> <<>>, player |-> <<>>, expected |-> 0, started |-> FALSE]
        /\ worker[u] = [at |-> "none", generation |-> 0, verdict |-> "none"]
        /\ heard[u] = <<>>
    BY DEF Init
  <2>2. Fresh.next = 0
    BY DEF Fresh
  <2>3. NoText(u)
    BY <2>1, <2>2, FreshTyped DEF NoText
  <2> QED
    BY <2>3, NoTextRight
<1> QED
  BY <1>1, <1>2 DEF TextIInv

-----------------------------------------------------------------------------
(* The text facts hold of every behaviour.                                 *)

LEMMA TextInductive ==
    ASSUME SpeechIInv, SpeechIInv', TextIInv, [Next]_vars PROVE TextIInv'
<1>1. CASE StopDetaches
  BY <1>1, StopDetachesText
<1>2. CASE Stopping
  BY <1>2, StopCancelsText, StopAbortsText DEF Stopping
<1>3. ASSUME NEW u \in Utterances, Start(u) PROVE TextIInv'
  BY <1>3, StartText
<1>4. ASSUME NEW u \in Utterances, Producer(u) PROVE TextIInv'
  BY <1>4, EnqueueText, SubmitText, CloseText, TurnFailsText, TurnCancelsText,
     TurnStopsText, FeedText, FeedEndsText DEF Producer
<1>5. ASSUME NEW u \in Utterances, Synthesize(u) PROVE TextIInv'
  BY <1>5, SynthTakesText, SynthTimesOutText, SynthTakesOverflowText, SynthEndsText,
     SynthPreparesText, SynthPutsText, SynthStopsText, SynthRetiredText DEF Synthesize
<1>6. ASSUME NEW u \in Utterances, NEW t \in Threads, Abort(u, t) PROVE TextIInv'
  BY <1>6, AbortFailsText, AbortReportsText, AbortClearsText, AbortEndsText DEF Abort
<1>7. ASSUME NEW u \in Utterances, Play(u) PROVE TextIInv'
  BY <1>7, PlayerTakesText, PlayerRetiredText, PlayerEndsText, PlayerDrainedText,
     PlayerVerdictText, PlayerDispatchesText, BeginText, OpenedText, AppendsText,
     AppendedText, RefusedText, PlayerAbortsText, PlayerFinalText, CompleteText DEF Play
<1>8. ASSUME NEW u \in Utterances, Worker(u) PROVE TextIInv'
  BY <1>8, RenderText, RenderEndsText, WorkerEndsText DEF Worker
<1>9. CASE UNCHANGED vars
  BY <1>9, TextUntouched DEF vars, audio
<1> QED
  BY <1>1, <1>2, <1>3, <1>4, <1>5, <1>6, <1>7, <1>8, <1>9 DEF Next

\* What a listener hears, from where the text is.
LEMMA TextImpliesHeard ==
    ASSUME SpeechIInv, TextIInv PROVE HeardAsWritten
<1> SUFFICES ASSUME NEW u \in Utterances
             PROVE  /\ speech[u].committed => Inorder(heard[u])
                    /\ Done(u) /\ speech[u].outcome = "completed" =>
                          /\ Len(heard[u]) = speech[u].next
                          /\ \A i \in 1..speech[u].next :
                                \E j \in 1..Len(heard[u]) : heard[u][j] = i
                    /\ Done(u) /\ speech[u].outcome = "failed" => speech[u].reported
  BY DEF HeardAsWritten
<1>1. TextFacts(u) /\ SpeechShapes
  BY DEF TextIInv, SpeechIInv
<1>2. speech[u].committed => Inorder(heard[u])
  BY <1>1 DEF TextFacts, InLine
<1>3. ASSUME speech[u].outcome = "completed"
      PROVE  /\ Len(heard[u]) = speech[u].next
             /\ \A i \in 1..speech[u].next : \E j \in 1..Len(heard[u]) : heard[u][j] = i
  <2>1. ChunksOf(heard[u]) = 1..speech[u].next
    BY <1>1, <1>3 DEF TextFacts, EndIsTrue, AllHeard
  <2>2. Single(heard[u])
    BY <1>1 DEF TextFacts, NothingTwice, Distinct
  <2>3. PICK S : S = 1..MaxUnits
    OBVIOUS
  <2>4. heard[u] \in Seq(S) /\ speech[u].next \in Nat
    BY <1>1, <2>3, TextTypes DEF Spoken
  <2>5. Len(heard[u]) = speech[u].next
    BY <2>1, <2>2, <2>4, AllOnce
  <2> QED
    BY <2>1, <2>5 DEF ChunksOf
<1>4. speech[u].outcome = "failed" => speech[u].reported
  BY <1>1 DEF TextFacts, HandsKnown
<1> QED
  BY <1>2, <1>3, <1>4

-----------------------------------------------------------------------------
\* Where the text of every utterance is: each chunk submit() or the feeder accepted is in
\* one place, none is made up, none is lost while nothing fails, committed chunks stand in
\* line from the queue to the ear, nothing follows the sentinel, and an outcome is only
\* recorded of what was heard.
THEOREM TextInvariant == Spec => [](SpeechIInv /\ TextIInv)
<1>1. Init => SpeechIInv /\ TextIInv
  BY InitSpeech, InitText
<1>2. SpeechIInv /\ TextIInv /\ [Next]_vars => (SpeechIInv /\ TextIInv)'
  <2> SUFFICES ASSUME SpeechIInv, TextIInv, [Next]_vars PROVE SpeechIInv' /\ TextIInv'
    OBVIOUS
  <2>1. SpeechIInv'
    BY SpeechInductive
  <2> QED
    BY <2>1, TextInductive
<1> QED
  BY <1>1, <1>2, PTL DEF Spec

\* No text is lost, repeated or moved between submit() and the device, whatever the number
\* of utterances, chunks and stops and the sizes of the queues.
THEOREM HeardStays == Spec => []HeardAsWritten
<1>1. SpeechIInv /\ TextIInv => HeardAsWritten
  BY TextImpliesHeard
<1> QED
  BY <1>1, TextInvariant, PTL

-----------------------------------------------------------------------------
(* What an utterance promises, SpeechOutput, is kept.                      *)

\* An end is announced of an utterance whose outcome is known.
Ends == {"completed", "cancelled", "failed"}
EndKnown(u) ==
    /\ turn[u] = "none" => speech[u].next = 0
    /\ at[u].player = "final" => IsSet(u) \/ speech[u].outcome \in Ends
    /\ at[u].player \in {"complete", "dead"} => speech[u].outcome \in Ends
OutputIInv == \A u \in Utterances : EndKnown(u)

\* What a step leaves of an utterance.
SameText(u) == speech'[u].committed = speech[u].committed /\ speech'[u].next = speech[u].next
SameStep(u) ==
    /\ SameText(u) /\ at'[u].player = at[u].player
    /\ turn'[u] = "none" => turn[u] = "none"
    /\ IsSet(u) => IsSet(u)'

\* A step is invisible, unless it takes back that an utterance was heard whole.
LEMMA OutputStays ==
    ASSUME OutputIInv, heard' = heard, \A w \in Utterances : SameStep(w), NEW u \in Utterances,
           \A w \in Utterances \ {u} : speech'[w].outcome = speech[w].outcome,
           speech'[u].outcome \in {speech[u].outcome, "cancelled", "failed"}
    PROVE  OutputIInv' /\ [Output!Next]_Output!ovars
<1>1. ASSUME NEW w \in Utterances PROVE EndKnown(w)'
  <2>1. EndKnown(w) /\ SameStep(w)
    BY DEF OutputIInv
  <2>2. speech[w].outcome \in Ends => speech'[w].outcome \in Ends
    BY DEF Ends
  <2> QED
    BY <2>1, <2>2 DEF EndKnown, SameStep, SameText
<1>2. \A w \in Utterances \ {u} : Result(w)' = Result(w)
  BY DEF Result, Done, SameStep
<1>3. \A w \in Utterances : SameText(w)
  BY DEF SameStep
<1>4. /\ [w \in Utterances |-> speech[w].committed]' = [w \in Utterances |-> speech[w].committed]
      /\ [w \in Utterances |-> speech[w].next]' = [w \in Utterances |-> speech[w].next]
  BY <1>3 DEF SameText
<1>5. CASE Result(u)' = Result(u)
  <2>1. [w \in Utterances |-> Result(w)]' = [w \in Utterances |-> Result(w)]
    BY <1>2, <1>5
  <2>2. UNCHANGED Output!ovars
    BY <1>4, <2>1 DEF Output!ovars
  <2> QED
    BY <1>1, <2>2 DEF OutputIInv
<1>6. CASE Result(u)' # Result(u)
  <2>1. EndKnown(u) /\ SameStep(u)
    BY DEF OutputIInv
  <2>2. Result(u) = "whole" /\ Result(u)' = "cut"
    BY <1>6, <2>1 DEF EndKnown, SameStep, Result, Done, Ends
  <2>3. [w \in Utterances |-> Result(w)]'
           = [[w \in Utterances |-> Result(w)] EXCEPT ![u] = "cut"]
    BY <1>2, <2>2
  <2>4. Output!Recant(u)
    BY <1>4, <2>2, <2>3 DEF Output!Recant
  <2> QED
    BY <1>1, <2>4 DEF OutputIInv, Output!Next
<1> QED
  BY <1>5, <1>6

\* An utterance nothing happens to.
LEMMA OtherSteps ==
    ASSUME NEW w \in Utterances, speech'[w] = speech[w], at'[w] = at[w], turn'[w] = turn[w],
           speechGeneration' = speechGeneration
    PROVE  SameStep(w)
  BY DEF SameStep, SameText, IsSet

\* The playback thread goes on.
LEMMA PlayerOutput ==
    ASSUME SpeechShapes, OutputIInv, UNCHANGED <<heard, turn, speechGeneration>>,
           NEW u \in Utterances, at[u].player # "dead",
           NEW step \in (PlayerSteps \cup AbortSteps) \ {"dead"}, Goto(u, "player", step),
           \A w \in Utterances \ {u} : speech'[w] = speech[w], SameText(u),
           step = "final" => IsSet(u)' \/ speech'[u].outcome \in Ends,
           step = "complete" => speech'[u].outcome \in Ends
    PROVE  OutputIInv' /\ [Output!Next]_Output!ovars
<1>1. /\ at'[u].player = step /\ at'[u].synth = at[u].synth
      /\ \A w \in Utterances \ {u} : at'[w] = at[w]
  BY PlayerGoes DEF SpeechShapes
<1>2. \A w \in Utterances \ {u} : SameStep(w) /\ speech'[w].outcome = speech[w].outcome
  BY <1>1, OtherSteps
<1>3. ASSUME NEW w \in Utterances PROVE EndKnown(w)'
  <2>1. EndKnown(w)
    BY DEF OutputIInv
  <2>2. CASE w # u
    BY <1>2, <2>1, <2>2 DEF EndKnown, SameStep, SameText
  <2>3. CASE w = u
    BY <1>1, <2>1, <2>3 DEF EndKnown, SameText
  <2> QED
    BY <2>2, <2>3
<1>4. \A w \in Utterances : SameText(w) /\ Result(w)' = Result(w)
  <2> TAKE w \in Utterances
  <2>1. CASE w # u
    BY <1>2, <2>1 DEF SameStep, Result, Done
  <2>2. CASE w = u
    BY <1>1, <2>2 DEF Result, Done
  <2> QED
    BY <2>1, <2>2
<1>5. UNCHANGED Output!ovars
  BY <1>4 DEF SameText, Output!ovars
<1> QED
  BY <1>3, <1>5 DEF OutputIInv

\* What one utterance is marked with stays, its outcome may become a failure's or a stop's.
MarksStay(u) ==
    /\ SameText(u) /\ speech'[u].born = speech[u].born
    /\ speech[u].cancelled => speech'[u].cancelled
    /\ speech[u].failed => speech'[u].failed
    /\ speech'[u].outcome \in {speech[u].outcome, "cancelled", "failed"}
PlayersStay == \A w \in Utterances : at'[w].player = at[w].player
TurnsGoOn == \A w \in Utterances : turn'[w] = "none" => turn[w] = "none"
OnlyOf(u) == \A w \in Utterances \ {u} : speech'[w] = speech[w]

\* Steps beside the playback threads.
LEMMA Aside ==
    ASSUME OutputIInv, UNCHANGED <<heard, speechGeneration>>, PlayersStay, TurnsGoOn,
           NEW u \in Utterances, OnlyOf(u), MarksStay(u)
    PROVE  OutputIInv' /\ [Output!Next]_Output!ovars
<1>1. \A w \in Utterances \ {u} : speech'[w] = speech[w]
  BY DEF OnlyOf
<1>2. ASSUME NEW w \in Utterances PROVE SameStep(w)
  <2>1. at'[w].player = at[w].player /\ (turn'[w] = "none" => turn[w] = "none")
    BY DEF PlayersStay, TurnsGoOn
  <2>2. CASE w # u
    BY <1>1, <2>1, <2>2 DEF SameStep, SameText, IsSet
  <2>3. CASE w = u
    BY <2>1, <2>3 DEF SameStep, SameText, MarksStay, IsSet
  <2> QED
    BY <2>2, <2>3
<1>3. \A w \in Utterances \ {u} : speech'[w].outcome = speech[w].outcome
  BY <1>1
<1>4. speech'[u].outcome \in {speech[u].outcome, "cancelled", "failed"}
  BY DEF MarksStay
<1> QED
  BY <1>2, <1>3, <1>4, OutputStays

\* Steps that touch no queue.
LEMMA AsideQueues ==
    ASSUME OutputIInv, UNCHANGED <<speech, heard, speechGeneration>>, PlayersStay, TurnsGoOn
    PROVE  OutputIInv' /\ [Output!Next]_Output!ovars
<1> PICK u \in Utterances : TRUE
  BY BoundsAssumption DEF BoundsAssumption, Utterances
<1>1. OnlyOf(u) /\ MarksStay(u)
  BY DEF OnlyOf, MarksStay, SameText
<1> QED
  BY <1>1, Aside

LEMMA SynthAside ==
    ASSUME SpeechIInv, NEW u \in Utterances, NEW step, Goto(u, "synth", step)
    PROVE  PlayersStay
  BY DEF SpeechIInv, SpeechShapes, ThreadRecords, Goto, PlayersStay

LEMMA TurnsAside ==
    ASSUME SpeechIInv, NEW u \in Utterances, NEW place \in TurnPlaces \ {"none"},
           turn' = [turn EXCEPT ![u] = place]
    PROVE  TurnsGoOn
  BY DEF SpeechIInv, SpeechShapes, TurnsGoOn

-----------------------------------------------------------------------------
(* The producer, the stop and the synthesis thread are not noticed.        *)

LEMMA EnqueueOutput ==
    ASSUME SpeechIInv, OutputIInv, NEW u \in Utterances, Enqueue(u) \/ TurnFails(u)
    PROVE  OutputIInv' /\ [Output!Next]_Output!ovars
<1>1. /\ UNCHANGED <<speech, at, heard, speechGeneration>>
      /\ turn' = [turn EXCEPT ![u] = "submitting"] \/ turn' = [turn EXCEPT ![u] = "cancel"]
  BY DEF Enqueue, TurnFails, audio, service
<1>2. PlayersStay
  BY <1>1 DEF PlayersStay
<1>3. TurnsGoOn
  BY <1>1, TurnsAside DEF TurnPlaces
<1> QED
  BY <1>1, <1>2, <1>3, AsideQueues

LEMMA TurnStopsOutput ==
    ASSUME SpeechIInv, OutputIInv, NEW u \in Utterances, TurnStops(u)
    PROVE  OutputIInv' /\ [Output!Next]_Output!ovars
<1>1. /\ UNCHANGED <<speech, at, heard, speechGeneration>>
      /\ turn' = [turn EXCEPT ![u] = "over"]
  BY DEF TurnStops, service
<1>2. PlayersStay
  BY <1>1 DEF PlayersStay
<1>3. TurnsGoOn
  BY <1>1, TurnsAside DEF TurnPlaces
<1> QED
  BY <1>1, <1>2, <1>3, AsideQueues

LEMMA QueueClosedOutput ==
    ASSUME SpeechIInv, OutputIInv, NEW u \in Utterances,
           speech' = [speech EXCEPT ![u].closed = TRUE], TurnsGoOn,
           UNCHANGED <<at, heard, speechGeneration>>
    PROVE  OutputIInv' /\ [Output!Next]_Output!ovars
<1>1. OnlyOf(u) /\ MarksStay(u)
  BY DEF SpeechIInv, SpeechShapes, SpeechRecords, OnlyOf, MarksStay, SameText
<1>2. PlayersStay
  BY DEF PlayersStay
<1> QED
  BY <1>1, <1>2, Aside

LEMMA CloseOutput ==
    ASSUME SpeechIInv, OutputIInv, NEW u \in Utterances, Close(u) \/ FeedEnds(u)
    PROVE  OutputIInv' /\ [Output!Next]_Output!ovars
<1>1. /\ speech' = [speech EXCEPT ![u].closed = TRUE]
      /\ UNCHANGED <<at, heard, speechGeneration>>
      /\ turn' = [turn EXCEPT ![u] = "over"] \/ turn' = turn
  BY DEF Close, FeedEnds, audio, service
<1>2. TurnsGoOn
  <2>1. CASE turn' = turn
    BY <2>1 DEF TurnsGoOn
  <2>2. CASE turn' = [turn EXCEPT ![u] = "over"]
    BY <2>2, TurnsAside DEF TurnPlaces
  <2> QED
    BY <1>1, <2>1, <2>2
<1> QED
  BY <1>1, <1>2, QueueClosedOutput

LEMMA CancelOutput ==
    ASSUME SpeechIInv, OutputIInv, NEW u \in Utterances,
           speech' = [speech EXCEPT ![u] = CancelledQueue(@)], TurnsGoOn,
           UNCHANGED <<at, heard, speechGeneration>>
    PROVE  OutputIInv' /\ [Output!Next]_Output!ovars
<1>1. SpeechShapes /\ UtteranceFacts(u)
  BY DEF SpeechIInv
<1>2. OnlyOf(u) /\ MarksStay(u)
  BY <1>1, CancelledShape DEF OnlyOf, MarksStay, SameText
<1>3. PlayersStay
  BY DEF PlayersStay
<1> QED
  BY <1>2, <1>3, Aside

LEMMA TurnCancelsOutput ==
    ASSUME SpeechIInv, OutputIInv, NEW u \in Utterances, TurnCancels(u)
    PROVE  OutputIInv' /\ [Output!Next]_Output!ovars
<1>1. UNCHANGED <<at, heard, speechGeneration>> /\ PlayersStay
  BY DEF TurnCancels, audio, service, PlayersStay
<1>2. \/ turn' = [turn EXCEPT ![u] = "over"] /\ speech' = speech
      \/ turn' = [turn EXCEPT ![u] = "stop"] /\ speech' = [speech EXCEPT ![u] = CancelledQueue(@)]
  BY DEF TurnCancels
<1>3. TurnsGoOn
  BY <1>2, TurnsAside DEF TurnPlaces
<1> QED
  BY <1>1, <1>2, <1>3, AsideQueues, CancelOutput

LEMMA StopCancelsOutput ==
    ASSUME SpeechIInv, OutputIInv, StopCancels
    PROVE  OutputIInv' /\ [Output!Next]_Output!ovars
<1>1. UNCHANGED <<at, turn, heard, speechGeneration>>
  BY DEF StopCancels
<1>2. \/ speech' = speech
      \/ /\ stop.queue # 0
         /\ speech' = [speech EXCEPT ![stop.queue] = CancelledQueue(@)]
  BY DEF StopCancels
<1>3. stop.queue # 0 => stop.queue \in Utterances
  BY BoundsAssumption DEF SpeechIInv, SpeechShapes, StopRecords, Utterances, BoundsAssumption
<1>4. PlayersStay /\ TurnsGoOn
  BY <1>1 DEF PlayersStay, TurnsGoOn
<1> QED
  BY <1>1, <1>2, <1>3, <1>4, AsideQueues, CancelOutput

LEMMA StopAbortsOutput ==
    ASSUME SpeechIInv, OutputIInv, StopAborts
    PROVE  OutputIInv' /\ [Output!Next]_Output!ovars
<1>1. UNCHANGED <<speech, at, turn, heard, speechGeneration>>
  BY DEF StopAborts
<1>2. PlayersStay /\ TurnsGoOn
  BY <1>1 DEF PlayersStay, TurnsGoOn
<1> QED
  BY <1>1, <1>2, AsideQueues

\* A stop retires every committed utterance that was current.
LEMMA StopDetachesOutput ==
    ASSUME SpeechIInv, OutputIInv, StopDetaches
    PROVE  OutputIInv' /\ [Output!Next]_Output!ovars
<1>1. /\ UNCHANGED <<speech, at, turn, heard>> /\ speechGeneration' = speechGeneration + 1
  BY DEF StopDetaches, audio
<1>2. ASSUME NEW w \in Utterances PROVE SameStep(w)
  <2>1. speech[w].born \in Nat /\ speechGeneration \in Nat /\ speech[w].born <= speechGeneration
    BY BoundsAssumption, FieldTypes
       DEF SpeechIInv, SpeechShapes, UtteranceFacts, GenerationsKnown, BoundsAssumption
  <2>2. speech[w].born # speechGeneration + 1
    BY <2>1
  <2>3. IsSet(w) => IsSet(w)'
    BY <1>1, <2>2 DEF IsSet
  <2> QED
    BY <1>1, <2>3 DEF SameStep, SameText
<1> PICK u \in Utterances : TRUE
  BY BoundsAssumption DEF BoundsAssumption, Utterances
<1>3. \A w \in Utterances \ {u} : speech'[w].outcome = speech[w].outcome
  BY <1>1
<1> QED
  BY <1>1, <1>2, <1>3, OutputStays

LEMMA SynthWalksOutput ==
    ASSUME SpeechIInv, OutputIInv, NEW u \in Utterances,
           SynthTimesOut(u) \/ SynthEnds(u) \/ SynthPrepares(u) \/ SynthRetired(u)
    PROVE  OutputIInv' /\ [Output!Next]_Output!ovars
<1>1. UNCHANGED <<speech, turn, heard, speechGeneration>>
  BY DEF SynthTimesOut, SynthEnds, SynthPrepares, SynthRetired, audio, service
<1>2. \E step : Goto(u, "synth", step)
  BY DEF SynthTimesOut, SynthEnds, SynthPrepares, SynthRetired
<1>3. PlayersStay /\ TurnsGoOn
  BY <1>1, <1>2, SynthAside DEF TurnsGoOn
<1> QED
  BY <1>1, <1>3, AsideQueues

\* A queue is only taken from or put to.
LEMMA QueuesOutput ==
    ASSUME SpeechIInv, NEW u \in Utterances
    PROVE  /\ \A q : speech' = [speech EXCEPT ![u].queue = q] => OnlyOf(u) /\ MarksStay(u)
           /\ \A o : speech' = [speech EXCEPT ![u].overflow = o] => OnlyOf(u) /\ MarksStay(u)
           /\ \A p : speech' = [speech EXCEPT ![u].prepared = p] => OnlyOf(u) /\ MarksStay(u)
           /\ \A o, q, p :
                 speech' = [speech EXCEPT ![u].overflow = o, ![u].queue = q, ![u].prepared = p]
                 => OnlyOf(u) /\ MarksStay(u)
<1>1. speech \in [Utterances -> SpeechRecords]
  BY DEF SpeechIInv, SpeechShapes
<1>2. ASSUME NEW q, speech' = [speech EXCEPT ![u].queue = q] PROVE OnlyOf(u) /\ MarksStay(u)
  BY <1>1, <1>2 DEF SpeechRecords, OnlyOf, MarksStay, SameText
<1>3. ASSUME NEW o, speech' = [speech EXCEPT ![u].overflow = o]
      PROVE  OnlyOf(u) /\ MarksStay(u)
  BY <1>1, <1>3 DEF SpeechRecords, OnlyOf, MarksStay, SameText
<1>4. ASSUME NEW p, speech' = [speech EXCEPT ![u].prepared = p]
      PROVE  OnlyOf(u) /\ MarksStay(u)
  BY <1>1, <1>4 DEF SpeechRecords, OnlyOf, MarksStay, SameText
<1>5. ASSUME NEW o, NEW q, NEW p,
             speech' = [speech EXCEPT ![u].overflow = o, ![u].queue = q, ![u].prepared = p]
      PROVE  OnlyOf(u) /\ MarksStay(u)
  BY <1>1, <1>5 DEF SpeechRecords, OnlyOf, MarksStay, SameText
<1> QED
  BY <1>2, <1>3, <1>4, <1>5

LEMMA SynthMovesOutput ==
    ASSUME SpeechIInv, OutputIInv, NEW u \in Utterances,
           SynthTakes(u) \/ SynthTakesOverflow(u) \/ SynthPuts(u) \/ SynthStops(u)
    PROVE  OutputIInv' /\ [Output!Next]_Output!ovars
<1>1. UNCHANGED <<turn, heard, speechGeneration>>
  BY DEF SynthTakes, SynthTakesOverflow, SynthPuts, SynthStops, audio, service
<1>2. \E step : Goto(u, "synth", step)
  BY DEF SynthTakes, SynthTakesOverflow, SynthPuts, SynthStops, PutsPrepared
<1>3. PlayersStay /\ TurnsGoOn
  BY <1>1, <1>2, SynthAside DEF TurnsGoOn
<1>4. OnlyOf(u) /\ MarksStay(u)
  <2>1. CASE SynthTakes(u)
    <3>1. speech' = [speech EXCEPT ![u].queue = Tail(@)]
      BY <2>1 DEF SynthTakes
    <3> QED
      BY <3>1, QueuesOutput
  <2>2. CASE SynthTakesOverflow(u)
    <3>1. speech' = [speech EXCEPT ![u].overflow = <<>>]
      BY <2>2 DEF SynthTakesOverflow
    <3> QED
      BY <3>1, QueuesOutput
  <2>3. CASE SynthPuts(u)
    <3>1. speech' = [speech EXCEPT ![u].prepared = Append(@, item[u].synth)]
      BY <2>3 DEF SynthPuts, PutsPrepared
    <3> QED
      BY <3>1, QueuesOutput
  <2>4. CASE SynthStops(u)
    <3>1. speech' = [speech EXCEPT ![u].prepared = Append(@, STOP)]
      BY <2>4 DEF SynthStops, PutsPrepared
    <3> QED
      BY <3>1, QueuesOutput
  <2> QED
    BY <2>1, <2>2, <2>3, <2>4
<1> QED
  BY <1>1, <1>3, <1>4, Aside

LEMMA WorkerOutput ==
    ASSUME OutputIInv, NEW u \in Utterances, RenderEnds(u) \/ WorkerEnds(u)
    PROVE  OutputIInv' /\ [Output!Next]_Output!ovars
<1>1. UNCHANGED <<speech, at, turn, heard, speechGeneration>>
  BY DEF RenderEnds, WorkerEnds, service
<1>2. PlayersStay /\ TurnsGoOn
  BY <1>1 DEF PlayersStay, TurnsGoOn
<1> QED
  BY <1>1, <1>2, AsideQueues

\* A failing thread marks its queue and clears it.
LEMMA AbortMarks ==
    ASSUME SpeechIInv, NEW u \in Utterances, NEW t \in Threads, Abort(u, t)
    PROVE  OnlyOf(u) /\ MarksStay(u)
<1>1. speech \in [Utterances -> SpeechRecords]
  BY DEF SpeechIInv, SpeechShapes
<1>2. CASE AbortFails(u, t)
  <2>1. speech' = [speech EXCEPT ![u].failed = TRUE]
    BY <1>2 DEF AbortFails
  <2> QED
    BY <1>1, <2>1 DEF SpeechRecords, OnlyOf, MarksStay, SameText
<1>3. CASE AbortReports(u, t)
  <2>1. speech' = [speech EXCEPT ![u].outcome = "failed", ![u].closed = TRUE,
                                 ![u].reported = TRUE]
    BY <1>3 DEF AbortReports
  <2> QED
    BY <1>1, <2>1 DEF SpeechRecords, OnlyOf, MarksStay, SameText
<1>4. CASE AbortClears(u, t)
  <2>1. speech' = [speech EXCEPT ![u].overflow = <<>>, ![u].queue = <<>>,
                                 ![u].prepared = <<>>]
    BY <1>4 DEF AbortClears
  <2> QED
    BY <2>1, QueuesOutput
<1>5. CASE AbortEnds(u, t)
  <2>1. CASE speech' = [speech EXCEPT ![u].prepared = Append(@, STOP)]
    BY <2>1, QueuesOutput
  <2>2. CASE speech' = speech
    BY <2>2 DEF OnlyOf, MarksStay, SameText
  <2> QED
    BY <1>5, <2>1, <2>2 DEF AbortEnds, PutsPrepared
<1> QED
  BY <1>2, <1>3, <1>4, <1>5 DEF Abort

LEMMA AbortOutput ==
    ASSUME SpeechIInv, OutputIInv, NEW u \in Utterances, NEW t \in Threads, Abort(u, t)
    PROVE  OutputIInv' /\ [Output!Next]_Output!ovars
<1>1. OnlyOf(u) /\ MarksStay(u) /\ UNCHANGED <<heard, turn, speechGeneration>>
  <2>1. UNCHANGED <<heard, turn, speechGeneration>>
    BY DEF Abort, AbortFails, AbortReports, AbortClears, AbortEnds, audio, service
  <2> QED
    BY <2>1, AbortMarks
<1>2. PICK step \in {"report", "clear", "last", "dead", "final"} :
          /\ Goto(u, t, step) /\ (step = "final" => at[u][t] = "last")
          /\ step = "dead" => t = "synth"
  <2>1. CASE AbortFails(u, t)
    BY <2>1 DEF AbortFails
  <2>2. CASE AbortReports(u, t)
    BY <2>2 DEF AbortReports
  <2>3. CASE AbortClears(u, t)
    BY <2>3 DEF AbortClears
  <2>4. CASE AbortEnds(u, t)
    BY <2>4 DEF AbortEnds, PutsPrepared, Leave, At
  <2> QED
    BY <2>1, <2>2, <2>3, <2>4 DEF Abort
<1>3. CASE t = "synth"
  <2>1. PlayersStay
    BY <1>2, <1>3, SynthAside
  <2>2. TurnsGoOn
    BY <1>1 DEF TurnsGoOn
  <2> QED
    BY <1>1, <2>1, <2>2, Aside
<1>4. CASE t = "player"
  <2>1. SpeechShapes /\ MarksLeft(u)
    BY DEF SpeechIInv, UtteranceFacts
  <2>2. at[u].player # "dead" /\ Goto(u, "player", step)
        /\ step \in (PlayerSteps \cup AbortSteps) \ {"dead"}
    BY <1>2, <1>4
       DEF Abort, AbortFails, AbortReports, AbortClears, AbortEnds, At, PlayerSteps, AbortSteps
  <2>3. step = "final" => IsSet(u)'
    <3>1. step = "final" => speech[u].failed
      BY <1>2, <1>4, <2>1 DEF MarksLeft, Threads
    <3> QED
      BY <1>1, <3>1 DEF MarksStay, IsSet
  <2>4. step # "complete"
    BY <1>2
  <2>5. SameText(u) /\ \A w \in Utterances \ {u} : speech'[w] = speech[w]
    BY <1>1 DEF OnlyOf, MarksStay
  <2> QED
    BY <1>1, <2>1, <2>2, <2>3, <2>4, <2>5, PlayerOutput
<1> QED
  BY <1>3, <1>4 DEF Threads

-----------------------------------------------------------------------------
(* The playback thread, until its end is announced.                        *)

LEMMA PlayerOnOutput ==
    ASSUME SpeechIInv, OutputIInv, UNCHANGED <<heard, turn, speechGeneration>>,
           NEW u \in Utterances, at[u].player # "dead",
           NEW step \in (PlayerSteps \cup AbortSteps) \ {"dead", "complete"},
           Goto(u, "player", step), OnlyOf(u), SameText(u),
           step = "final" => IsSet(u)' \/ speech'[u].outcome \in Ends
    PROVE  OutputIInv' /\ [Output!Next]_Output!ovars
<1>1. SpeechShapes /\ step \in (PlayerSteps \cup AbortSteps) \ {"dead"}
  BY DEF SpeechIInv
<1>2. \A w \in Utterances \ {u} : speech'[w] = speech[w]
  BY DEF OnlyOf
<1>3. step = "complete" => speech'[u].outcome \in Ends
  OBVIOUS
<1> QED
  BY <1>1, <1>2, <1>3, PlayerOutput

LEMMA PlayerTakesOutput ==
    ASSUME SpeechIInv, OutputIInv, NEW u \in Utterances, PlayerTakes(u)
    PROVE  OutputIInv' /\ [Output!Next]_Output!ovars
<1>1. /\ UNCHANGED <<heard, turn, speechGeneration>>
      /\ at[u].player = "get" /\ Goto(u, "player", "item")
  BY DEF PlayerTakes, At, audio, service
<1>2. speech' = [speech EXCEPT ![u].prepared = Tail(@)]
  BY DEF PlayerTakes
<1>3. OnlyOf(u) /\ SameText(u)
  BY <1>2, QueuesOutput DEF MarksStay
<1>4. "item" \in (PlayerSteps \cup AbortSteps) \ {"dead", "complete"} /\ "item" # "final"
  BY DEF PlayerSteps
<1> QED
  BY <1>1, <1>3, <1>4, PlayerOnOutput

LEMMA PlayerRetiredOutput ==
    ASSUME SpeechIInv, OutputIInv, NEW u \in Utterances, PlayerRetired(u)
    PROVE  OutputIInv' /\ [Output!Next]_Output!ovars
<1>1. /\ UNCHANGED <<speech, heard, turn, speechGeneration>>
      /\ at[u].player # "dead" /\ Goto(u, "player", "final") /\ IsSet(u)
  BY DEF PlayerRetired, audio, service
<1>2. OnlyOf(u) /\ SameText(u) /\ IsSet(u)'
  BY <1>1 DEF OnlyOf, SameText, IsSet
<1>3. "final" \in (PlayerSteps \cup AbortSteps) \ {"dead", "complete"}
  BY DEF PlayerSteps
<1> QED
  BY <1>1, <1>2, <1>3, PlayerOnOutput

\* Where it goes, for nothing that is noticed.
LEMMA PlayerWalksOutput ==
    ASSUME SpeechIInv, OutputIInv, NEW u \in Utterances,
           \/ PlayerDrained(u) \/ PlayerDispatches(u) \/ Begin(u) \/ Appends(u)
           \/ Refused(u) \/ PlayerAborts(u)
    PROVE  OutputIInv' /\ [Output!Next]_Output!ovars
<1>1. UNCHANGED <<speech, heard, turn, speechGeneration>>
  BY DEF PlayerDrained, PlayerDispatches, Begin, Appends, Refused, PlayerAborts, audio, service
<1>2. OnlyOf(u) /\ SameText(u)
  BY <1>1 DEF OnlyOf, SameText
<1>3. at[u].player # "dead"
  BY DEF PlayerDrained, PlayerDispatches, Begin, Appends, Refused, PlayerAborts, At
<1>4. PICK step \in {"verdict", "append", "begin", "opened", "appended", "refused", "abort"} :
          Goto(u, "player", step)
  BY DEF PlayerDrained, PlayerDispatches, Begin, Appends, Refused, PlayerAborts
<1>5. step \in (PlayerSteps \cup AbortSteps) \ {"dead", "complete"} /\ step # "final"
  BY <1>4 DEF PlayerSteps, AbortSteps
<1> QED
  BY <1>1, <1>2, <1>3, <1>4, <1>5, PlayerOnOutput

LEMMA OpenedOutput ==
    ASSUME SpeechIInv, OutputIInv, NEW u \in Utterances, Opened(u)
    PROVE  OutputIInv' /\ [Output!Next]_Output!ovars
<1>1. /\ UNCHANGED <<heard, turn, speechGeneration>>
      /\ at[u].player = "opened" /\ Goto(u, "player", "appended")
  BY DEF Opened, At, audio, service
<1>2. speech' = [speech EXCEPT ![u].playbackId = worker[u].generation]
  BY DEF Opened
<1>3. OnlyOf(u) /\ SameText(u)
  BY <1>2 DEF SpeechIInv, SpeechShapes, SpeechRecords, OnlyOf, SameText
<1>4. "appended" \in (PlayerSteps \cup AbortSteps) \ {"dead", "complete"} /\ "appended" # "final"
  BY DEF PlayerSteps
<1> QED
  BY <1>1, <1>3, <1>4, PlayerOnOutput

LEMMA AppendedOutput ==
    ASSUME SpeechIInv, OutputIInv, NEW u \in Utterances, Appended(u)
    PROVE  OutputIInv' /\ [Output!Next]_Output!ovars
<1>1. /\ UNCHANGED <<speech, heard, turn, speechGeneration>>
      /\ at[u].player = "appended"
  BY DEF Appended, At, service
<1>2. PICK step \in {"final", "get"} : Goto(u, "player", step) /\ (step = "final" => IsSet(u))
  BY DEF Appended
<1>3. OnlyOf(u) /\ SameText(u) /\ (IsSet(u) => IsSet(u)')
  BY <1>1 DEF OnlyOf, SameText, IsSet
<1>4. step \in (PlayerSteps \cup AbortSteps) \ {"dead", "complete"}
  BY DEF PlayerSteps
<1> QED
  BY <1>1, <1>2, <1>3, <1>4, PlayerOnOutput

\* The sentinel of an utterance that opened no session ends it.
LEMMA PlayerEndsOutput ==
    ASSUME SpeechIInv, OutputIInv, NEW u \in Utterances, PlayerEnds(u)
    PROVE  OutputIInv' /\ [Output!Next]_Output!ovars
<1>1. UNCHANGED <<heard, turn, speechGeneration>> /\ at[u].player = "item"
  BY DEF PlayerEnds, At, service
<1>2. /\ {"drain", "final"} \subseteq (PlayerSteps \cup AbortSteps) \ {"dead", "complete"}
  BY DEF PlayerSteps
<1>3. CASE Goto(u, "player", "drain") /\ speech' = speech
  <2>1. OnlyOf(u) /\ SameText(u)
    BY <1>3 DEF OnlyOf, SameText
  <2> QED
    BY <1>1, <1>2, <1>3, <2>1, PlayerOnOutput
<1>4. CASE Goto(u, "player", "final") /\ speech' = [speech EXCEPT ![u].outcome = "completed"]
  <2>1. OnlyOf(u) /\ SameText(u) /\ speech'[u].outcome \in Ends
    BY <1>4 DEF SpeechIInv, SpeechShapes, SpeechRecords, OnlyOf, SameText, Ends
  <2> QED
    BY <1>1, <1>2, <1>4, <2>1, PlayerOnOutput
<1> QED
  BY <1>3, <1>4 DEF PlayerEnds

\* What its session said is its outcome, unless it was retired before.
LEMMA PlayerVerdictOutput ==
    ASSUME SpeechIInv, OutputIInv, NEW u \in Utterances, PlayerVerdict(u)
    PROVE  OutputIInv' /\ [Output!Next]_Output!ovars
<1>1. /\ UNCHANGED <<heard, turn, speechGeneration>> /\ at[u].player = "verdict"
      /\ Goto(u, "player", "final")
  BY DEF PlayerVerdict, At, audio, service
<1>2. OnlyOf(u) /\ SameText(u) /\ (IsSet(u)' \/ speech'[u].outcome \in Ends)
  <2>1. speech \in [Utterances -> SpeechRecords]
    BY DEF SpeechIInv, SpeechShapes
  <2>2. CASE speech' = [speech EXCEPT ![u].failed = TRUE, ![u].outcome = "failed",
                                      ![u].reported = TRUE]
    BY <2>1, <2>2 DEF SpeechRecords, OnlyOf, SameText, Ends
  <2>3. CASE speech' = [speech EXCEPT ![u].outcome = "cancelled"]
    BY <2>1, <2>3 DEF SpeechRecords, OnlyOf, SameText, Ends
  <2>4. CASE speech' = speech /\ IsSet(u)
    BY <1>1, <2>4 DEF OnlyOf, SameText, IsSet
  <2>5. CASE speech' = [speech EXCEPT ![u].outcome = "completed"]
    BY <2>1, <2>5 DEF SpeechRecords, OnlyOf, SameText, Ends
  <2> QED
    BY <2>2, <2>3, <2>4, <2>5 DEF PlayerVerdict
<1>3. "final" \in (PlayerSteps \cup AbortSteps) \ {"dead", "complete"}
  BY DEF PlayerSteps
<1> QED
  BY <1>1, <1>2, <1>3, PlayerOnOutput

\* The finally clause leaves a known outcome.
LEMMA PlayerFinalOutput ==
    ASSUME SpeechIInv, OutputIInv, NEW u \in Utterances, PlayerFinal(u)
    PROVE  OutputIInv' /\ [Output!Next]_Output!ovars
<1>1. /\ UNCHANGED <<heard, turn, speechGeneration>> /\ at[u].player = "final"
      /\ Goto(u, "player", "complete")
  BY DEF PlayerFinal, At, service
<1>2. SpeechShapes /\ EndKnown(u)
  BY DEF SpeechIInv, OutputIInv
<1>3. OnlyOf(u) /\ SameText(u) /\ speech'[u].outcome \in Ends
  <2>1. CASE speech' = [speech EXCEPT ![u].outcome = "cancelled"]
    BY <1>2, <2>1 DEF SpeechShapes, SpeechRecords, OnlyOf, SameText, Ends
  <2>2. CASE speech' = speech /\ ~(IsSet(u) /\ speech[u].outcome # "failed")
    BY <1>1, <1>2, <2>2 DEF OnlyOf, SameText, EndKnown, Ends
  <2> QED
    BY <2>1, <2>2 DEF PlayerFinal
<1>4. \A w \in Utterances \ {u} : speech'[w] = speech[w]
  BY <1>3 DEF OnlyOf
<1>5. "complete" \in (PlayerSteps \cup AbortSteps) \ {"dead"}
  BY DEF PlayerSteps
<1> QED
  BY <1>1, <1>2, <1>3, <1>4, <1>5, PlayerOutput

-----------------------------------------------------------------------------
(* What is noticed.                                                        *)

\* A chunk is only accepted by a queue that did not end whole.
LEMMA ChunkAccepted ==
    ASSUME TextIInv, OutputIInv, NEW u \in Utterances, OnlyOf(u),
           speech'[u].next = speech[u].next + 1, speech'[u].committed = speech[u].committed,
           speech'[u].outcome = speech[u].outcome, speech'[u].born = speech[u].born,
           speech'[u].cancelled = speech[u].cancelled, speech'[u].failed = speech[u].failed,
           speech \in [Utterances -> SpeechRecords],
           turn[u] # "none", ~speech[u].closed, TurnsGoOn, PlayersStay,
           UNCHANGED <<heard, speechGeneration>>
    PROVE  OutputIInv' /\ [Output!Next]_Output!ovars
<1>1. \A w \in Utterances \ {u} : speech'[w] = speech[w]
  BY DEF OnlyOf
<1>2. \A w \in Utterances : at'[w].player = at[w].player /\ (turn'[w] = "none" => turn[w] = "none")
  BY DEF PlayersStay, TurnsGoOn
<1>3. ASSUME NEW w \in Utterances PROVE EndKnown(w)'
  <2>1. EndKnown(w)
    BY DEF OutputIInv
  <2>2. CASE w # u
    BY <1>1, <1>2, <2>1, <2>2 DEF EndKnown, IsSet
  <2>3. CASE w = u
    BY <1>2, <2>1, <2>3 DEF EndKnown, IsSet
  <2> QED
    BY <2>2, <2>3
<1>4. ASSUME NEW w \in Utterances PROVE Result(w)' = Result(w)
  <2>1. speech'[w].outcome = speech[w].outcome
    BY <1>1
  <2> QED
    BY <1>2, <2>1 DEF Result, Done
<1>5. [w \in Utterances |-> Result(w)]' = [w \in Utterances |-> Result(w)]
  BY <1>4
<1>6. \A w \in Utterances : speech'[w].committed = speech[w].committed
  BY <1>1
<1>7. [w \in Utterances |-> speech[w].committed]' = [w \in Utterances |-> speech[w].committed]
  BY <1>6
<1>8. [w \in Utterances |-> speech[w].next]'
         = [[w \in Utterances |-> speech[w].next] EXCEPT ![u] = @ + 1]
  BY <1>1
<1>9. Result(u) # "whole"
  <2>1. speech[u].outcome # "completed"
    BY DEF TextIInv, TextFacts, EndIsTrue, AllHeard
  <2> QED
    BY <2>1 DEF Result
<1>10. Output!Accept(u)
  BY <1>5, <1>7, <1>8, <1>9 DEF Output!Accept
<1> QED
  BY <1>3, <1>10 DEF OutputIInv, Output!Next

LEMMA SubmitOutput ==
    ASSUME SpeechIInv, TextIInv, OutputIInv, NEW u \in Utterances, Submit(u)
    PROVE  OutputIInv' /\ [Output!Next]_Output!ovars
<1>1. /\ UNCHANGED <<at, heard, speechGeneration>> /\ turn[u] = "submitting"
      /\ turn' = [turn EXCEPT ![u] = "idle"]
  BY DEF Submit, audio, service
<1>2. speech \in [Utterances -> SpeechRecords]
  BY DEF SpeechIInv, SpeechShapes
<1>3. PlayersStay /\ TurnsGoOn
  BY <1>1, TurnsAside DEF PlayersStay, TurnPlaces
<1>4. CASE speech' = speech
  BY <1>1, <1>3, <1>4, AsideQueues
<1>5. ASSUME NEW q, ~speech[u].closed,
             \/ speech' = [speech EXCEPT ![u].queue = q, ![u].next = speech[u].next + 1]
             \/ speech' = [speech EXCEPT ![u].overflow = q, ![u].next = speech[u].next + 1]
      PROVE  OutputIInv' /\ [Output!Next]_Output!ovars
  <2>1. /\ speech'[u].next = speech[u].next + 1 /\ speech'[u].committed = speech[u].committed
        /\ speech'[u].outcome = speech[u].outcome /\ speech'[u].born = speech[u].born
        /\ speech'[u].cancelled = speech[u].cancelled /\ speech'[u].failed = speech[u].failed
    BY <1>2, <1>5 DEF SpeechRecords
  <2>2. OnlyOf(u)
    BY <1>2, <1>5 DEF OnlyOf
  <2>3. turn[u] # "none" /\ ~speech[u].closed
    BY <1>1, <1>5
  <2> QED
    BY <1>1, <1>2, <1>3, <2>1, <2>2, <2>3, ChunkAccepted
<1>6. \/ speech' = speech
      \/ /\ ~speech[u].closed
         /\ \E q : \/ speech' = [speech EXCEPT ![u].queue = q, ![u].next = speech[u].next + 1]
                   \/ speech' = [speech EXCEPT ![u].overflow = q, ![u].next = speech[u].next + 1]
  <2>1. CASE speech[u].cancelled \/ speech[u].closed
    BY <2>1 DEF Submit
  <2>2. CASE ~(speech[u].cancelled \/ speech[u].closed)
    BY <2>2 DEF Submit
  <2> QED
    BY <2>1, <2>2
<1> QED
  BY <1>4, <1>5, <1>6

LEMMA FeedOutput ==
    ASSUME SpeechIInv, TextIInv, OutputIInv, NEW u \in Utterances, Feed(u)
    PROVE  OutputIInv' /\ [Output!Next]_Output!ovars
<1>1. /\ UNCHANGED <<at, turn, heard, speechGeneration>> /\ turn[u] # "none"
      /\ ~speech[u].closed
  BY DEF Feed, audio, service
<1>2. speech \in [Utterances -> SpeechRecords]
  BY DEF SpeechIInv, SpeechShapes
<1>3. PlayersStay /\ TurnsGoOn
  BY <1>1 DEF PlayersStay, TurnsGoOn
<1>4. PICK q : speech' = [speech EXCEPT ![u].queue = q, ![u].next = speech[u].next + 1]
  BY DEF Feed
<1>5. /\ speech'[u].next = speech[u].next + 1 /\ speech'[u].committed = speech[u].committed
      /\ speech'[u].outcome = speech[u].outcome /\ speech'[u].born = speech[u].born
      /\ speech'[u].cancelled = speech[u].cancelled /\ speech'[u].failed = speech[u].failed
  BY <1>2, <1>4 DEF SpeechRecords
<1>6. OnlyOf(u)
  BY <1>2, <1>4 DEF OnlyOf
<1> QED
  BY <1>1, <1>2, <1>3, <1>5, <1>6, ChunkAccepted

\* An utterance opens with nothing said.
LEMMA StartOutput ==
    ASSUME SpeechIInv, TextIInv, OutputIInv, NEW u \in Utterances, Start(u)
    PROVE  OutputIInv' /\ [Output!Next]_Output!ovars
<1>1. /\ SpeechShapes /\ UtteranceFacts(u) /\ TextFacts(u) /\ EndKnown(u)
      /\ Fresh \in SpeechRecords
  BY FreshTyped DEF SpeechIInv, TextIInv, OutputIInv
<1>2. /\ turn[u] = "none" /\ UNCHANGED <<heard, speechGeneration>>
      /\ at' = [at EXCEPT ![u] = [synth |-> "get", player |-> "get"]]
  BY DEF Start, audio
<1>3. PICK c \in BOOLEAN :
          /\ speech' = [speech EXCEPT ![u] = [Fresh EXCEPT !.committed = c,
                           !.born = speechGeneration, !.outcome = "pending"]]
          /\ turn' = [turn EXCEPT ![u] = IF c THEN "over" ELSE "idle"]
  BY BoundsAssumption DEF Start, BoundsAssumption
<1>4. /\ speech'[u].next = Fresh.next /\ speech'[u].committed = c
      /\ \A w \in Utterances \ {u} : speech'[w] = speech[w]
  BY <1>1, <1>3 DEF SpeechShapes, SpeechRecords
<1>5. at'[u].player = "get" /\ \A w \in Utterances \ {u} : at'[w] = at[w]
  BY <1>1, <1>2 DEF SpeechShapes
<1>6. turn'[u] # "none" /\ \A w \in Utterances \ {u} : turn'[w] = turn[w]
  BY <1>1, <1>3 DEF SpeechShapes
<1>7. at[u].player = "none" /\ worker[u].at = "none"
  BY <1>1, <1>2 DEF UtteranceFacts, MarksLeft
<1>8. speech[u].next = 0 /\ Fresh.next = 0 /\ heard[u] = <<>>
  BY <1>1, <1>2, <1>7 DEF EndKnown, TextFacts, HandsKnown, Fresh
<1>9. ASSUME NEW w \in Utterances PROVE EndKnown(w)'
  <2>1. EndKnown(w)
    BY DEF OutputIInv
  <2>2. CASE w # u
    BY <1>2, <1>4, <1>5, <1>6, <2>1, <2>2 DEF EndKnown, IsSet
  <2>3. CASE w = u
    BY <1>5, <1>6, <2>3 DEF EndKnown
  <2> QED
    BY <2>2, <2>3
<1>10. ASSUME NEW w \in Utterances
       PROVE  Result(w)' = Result(w) /\ speech'[w].next = speech[w].next
  <2>1. CASE w # u
    BY <1>4, <1>5, <2>1 DEF Result, Done
  <2>2. CASE w = u
    BY <1>4, <1>5, <1>7, <1>8, <2>2 DEF Result, Done
  <2> QED
    BY <2>1, <2>2
<1>11. /\ [w \in Utterances |-> Result(w)]' = [w \in Utterances |-> Result(w)]
       /\ [w \in Utterances |-> speech[w].next]' = [w \in Utterances |-> speech[w].next]
  BY <1>10
<1>12. [w \in Utterances |-> speech[w].committed]'
          = [[w \in Utterances |-> speech[w].committed] EXCEPT ![u] = c]
  BY <1>4
<1>13. Result(u) = "no"
  BY <1>7 DEF Result, Done
<1>14. Output!Open(u)
  BY <1>2, <1>8, <1>11, <1>12, <1>13 DEF Output!Open
<1> QED
  BY <1>9, <1>14 DEF OutputIInv, Output!Next

\* What is rendered follows what was heard, of an utterance that goes on.
LEMMA RenderOutput ==
    ASSUME SpeechIInv, TextIInv, TextIInv', OutputIInv, NEW u \in Utterances, Render(u)
    PROVE  OutputIInv' /\ [Output!Next]_Output!ovars
<1>1. SpeechShapes /\ UtteranceFacts(u) /\ TextFacts(u)'
  BY DEF SpeechIInv, TextIInv
<1>2. /\ UNCHANGED <<speech, at, turn, speechGeneration>>
      /\ worker[u].at = "playing" /\ worker[u].generation = device.generation
      /\ device.chunks # <<>>
      /\ heard' = [heard EXCEPT ![u] = @ \o Head(device.chunks)]
  BY DEF Render, SessionRetired, service
<1>3. ~Done(u)
  BY <1>1, <1>2 DEF UtteranceFacts, PlayerSettles, Settled, Done
<1>4. heard'[u] = heard[u] \o Head(device.chunks) /\ heard' = [heard EXCEPT ![u] = heard'[u]]
  BY <1>1, <1>2 DEF SpeechShapes
<1>5. \A i \in 1..Len(heard[u]) : i \in 1..Len(heard'[u]) /\ heard'[u][i] = heard[u][i]
  <2>1. PICK S : S = 1..MaxUnits
    OBVIOUS
  <2>2. PICK t : t = Head(device.chunks)
    OBVIOUS
  <2>3. heard[u] \in Seq(S) /\ t \in Seq(S)
    <3>1. heard[u] \in Spoken
      BY <1>1 DEF SpeechShapes
    <3>2. device.chunks \in Seq(Spoken)
      BY <1>1 DEF SpeechShapes, DeviceRecords
    <3>3. t \in Spoken
      BY <1>2, <2>2, <3>2, HeadTailProperties
    <3> QED
      BY <2>1, <3>1, <3>3 DEF Spoken
  <2>4. PICK s : s = heard[u] \o t
    OBVIOUS
  <2>5. /\ Len(heard[u]) \in Nat /\ Len(t) \in Nat /\ Len(s) = Len(heard[u]) + Len(t)
        /\ \A i \in 1..Len(s) : i <= Len(heard[u]) => s[i] = heard[u][i]
    BY <2>3, <2>4, ConcatProperties, LenProperties
  <2>6. \A i \in 1..Len(heard[u]) : i \in 1..Len(s) /\ i <= Len(heard[u])
    BY <2>5
  <2> QED
    BY <1>4, <2>2, <2>4, <2>5, <2>6
<1>6. Output!NoneTwice(heard'[u])
  BY <1>1 DEF TextFacts, NothingTwice, Distinct, Single, Output!NoneTwice
<1>7. \A i \in 1..Len(heard'[u]) : heard'[u][i] \in 1..speech[u].next
  <2>1. ChunksOf(heard'[u]) \subseteq 1..speech'[u].next
    BY <1>1 DEF TextFacts, NothingTwice, Text, AllOf
  <2> QED
    BY <1>2, <2>1 DEF ChunksOf
<1>8. speech[u].committed => Output!InOrder(heard'[u])
  BY <1>1, <1>2 DEF TextFacts, InLine, Inorder, Output!InOrder
<1>9. OutputIInv'
  BY <1>2 DEF OutputIInv, EndKnown, IsSet
<1>10. /\ [w \in Utterances |-> Result(w)]' = [w \in Utterances |-> Result(w)]
       /\ [w \in Utterances |-> speech[w].committed]' = [w \in Utterances |-> speech[w].committed]
       /\ [w \in Utterances |-> speech[w].next]' = [w \in Utterances |-> speech[w].next]
  BY <1>2 DEF Result, Done
<1>11. Result(u) = "no"
  BY <1>3 DEF Result
<1>12. Output!Say(u)
  BY <1>4, <1>5, <1>6, <1>7, <1>8, <1>10, <1>11 DEF Output!Say, Output!Accepted
<1> QED
  BY <1>9, <1>12 DEF Output!Next

\* on_complete announces the end, once, with what is known of it.
LEMMA CompleteOutput ==
    ASSUME SpeechIInv, TextIInv, OutputIInv, NEW u \in Utterances, Complete(u)
    PROVE  OutputIInv' /\ [Output!Next]_Output!ovars
<1>1. /\ UNCHANGED <<speech, heard, turn, speechGeneration>> /\ at[u].player = "complete"
      /\ Goto(u, "player", "dead")
  BY DEF Complete, At, audio
<1>2. SpeechShapes /\ TextFacts(u) /\ EndKnown(u)
  BY DEF SpeechIInv, TextIInv, OutputIInv
<1>3. "dead" \in PlayerSteps \cup AbortSteps
  BY DEF PlayerSteps
<1>4. at'[u].player = "dead" /\ \A w \in Utterances \ {u} : at'[w] = at[w]
  BY <1>1, <1>2, <1>3, PlayerGoes DEF SpeechShapes
<1>5. speech[u].outcome \in Ends
  BY <1>1, <1>2 DEF EndKnown
<1>6. ASSUME NEW w \in Utterances PROVE EndKnown(w)'
  <2>1. EndKnown(w)
    BY DEF OutputIInv
  <2>2. CASE w # u
    BY <1>1, <1>4, <2>1, <2>2 DEF EndKnown, IsSet
  <2>3. CASE w = u
    BY <1>1, <1>4, <1>5, <2>1, <2>3 DEF EndKnown
  <2> QED
    BY <2>2, <2>3
<1>7. \A w \in Utterances \ {u} : Result(w)' = Result(w)
  BY <1>1, <1>4 DEF Result, Done
<1>8. Result(u) = "no"
  BY <1>1 DEF Result, Done
<1>9. /\ [w \in Utterances |-> speech[w].committed]' = [w \in Utterances |-> speech[w].committed]
      /\ [w \in Utterances |-> speech[w].next]' = [w \in Utterances |-> speech[w].next]
  BY <1>1
<1>10. CASE speech[u].outcome = "completed"
  <2>1. Result(u)' = "whole"
    BY <1>1, <1>4, <1>10 DEF Result, Done
  <2>2. [w \in Utterances |-> Result(w)]'
           = [[w \in Utterances |-> Result(w)] EXCEPT ![u] = "whole"]
    BY <1>7, <2>1
  <2>3. \A c \in 1..speech[u].next : \E i \in 1..Len(heard[u]) : heard[u][i] = c
    <3>1. ChunksOf(heard[u]) = 1..speech[u].next
      BY <1>2, <1>10 DEF TextFacts, EndIsTrue, AllHeard
    <3> QED
      BY <3>1 DEF ChunksOf
  <2>4. Output!Finish(u)
    BY <1>1, <1>8, <1>9, <2>2, <2>3 DEF Output!Finish, Output!Accepted
  <2> QED
    BY <1>6, <2>4 DEF OutputIInv, Output!Next
<1>11. CASE speech[u].outcome # "completed"
  <2>1. Result(u)' = "cut"
    BY <1>1, <1>4, <1>5, <1>11 DEF Result, Done, Ends
  <2>2. [w \in Utterances |-> Result(w)]'
           = [[w \in Utterances |-> Result(w)] EXCEPT ![u] = "cut"]
    BY <1>7, <2>1
  <2>3. Output!Finish(u)
    BY <1>1, <1>8, <1>9, <2>2 DEF Output!Finish
  <2> QED
    BY <1>6, <2>3 DEF OutputIInv, Output!Next
<1> QED
  BY <1>10, <1>11

-----------------------------------------------------------------------------
(* The initial state and every step map to the promise's.                  *)

LEMMA InitOutput ==
    ASSUME Init PROVE OutputIInv /\ Output!Init
<1>1. \A w \in Utterances :
          /\ speech[w] = Fresh /\ at[w] = [synth |-> "none", player |-> "none"]
          /\ turn[w] = "none" /\ heard[w] = <<>>
  BY DEF Init
<1>2. Fresh.next = 0 /\ Fresh.committed = FALSE
  BY DEF Fresh
<1>3. OutputIInv
  BY <1>1, <1>2 DEF OutputIInv, EndKnown
<1>4. \A w \in Utterances :
          speech[w].committed = FALSE /\ speech[w].next = 0 /\ Result(w) = "no"
  BY <1>1, <1>2 DEF Result, Done
<1>5. heard = [w \in Utterances |-> <<>>]
  BY DEF Init
<1> QED
  BY <1>3, <1>4, <1>5 DEF Output!Init

LEMMA OutputInductive ==
    ASSUME SpeechIInv, TextIInv, TextIInv', OutputIInv, [Next]_vars
    PROVE  OutputIInv' /\ [Output!Next]_Output!ovars
<1> DEFINE Kept == OutputIInv' /\ [Output!Next]_Output!ovars
<1>1. CASE StopDetaches
  BY <1>1, StopDetachesOutput
<1>2. CASE Stopping
  BY <1>2, StopCancelsOutput, StopAbortsOutput DEF Stopping
<1>3. ASSUME NEW u \in Utterances, Start(u) PROVE Kept
  BY <1>3, StartOutput
<1>4. ASSUME NEW u \in Utterances, Producer(u) PROVE Kept
  BY <1>4, EnqueueOutput, SubmitOutput, CloseOutput, TurnCancelsOutput, TurnStopsOutput,
     FeedOutput DEF Producer
<1>5. ASSUME NEW u \in Utterances, Synthesize(u) PROVE Kept
  BY <1>5, SynthWalksOutput, SynthMovesOutput DEF Synthesize
<1>6. ASSUME NEW u \in Utterances, NEW t \in Threads, Abort(u, t) PROVE Kept
  BY <1>6, AbortOutput
<1>7. ASSUME NEW u \in Utterances, Play(u) PROVE Kept
  BY <1>7, PlayerTakesOutput, PlayerRetiredOutput, PlayerWalksOutput, OpenedOutput,
     AppendedOutput, PlayerEndsOutput, PlayerVerdictOutput, PlayerFinalOutput,
     CompleteOutput DEF Play
<1>8. ASSUME NEW u \in Utterances, Worker(u) PROVE Kept
  BY <1>8, RenderOutput, WorkerOutput DEF Worker
<1>9. CASE UNCHANGED vars
  <2>1. UNCHANGED <<speech, heard, speechGeneration, at, turn>>
    BY <1>9 DEF vars
  <2>2. PlayersStay /\ TurnsGoOn
    BY <2>1 DEF PlayersStay, TurnsGoOn
  <2> QED
    BY <2>1, <2>2, AsideQueues
<1> QED
  BY <1>1, <1>2, <1>3, <1>4, <1>5, <1>6, <1>7, <1>8, <1>9 DEF Next

\* The queue, its threads and the device implement SpeechOutput, whatever fails and whoever
\* stops them: chunks are heard once, committed ones in order, an utterance's end is
\* announced once and as a whole only when everything accepted was heard, and nothing is
\* heard after it.
THEOREM OutputImplemented == Spec => ImplementsOutput
<1> DEFINE Inv == SpeechIInv /\ TextIInv /\ OutputIInv
<1>1. Init => Inv /\ Output!Init
  BY InitSpeech, InitText, InitOutput
<1>2. Inv /\ [Next]_vars => Inv' /\ [Output!Next]_Output!ovars
  <2> SUFFICES ASSUME Inv, [Next]_vars PROVE Inv' /\ [Output!Next]_Output!ovars
    OBVIOUS
  <2>1. SpeechIInv'
    BY SpeechInductive
  <2>2. TextIInv'
    BY <2>1, TextInductive
  <2>3. OutputIInv' /\ [Output!Next]_Output!ovars
    BY <2>2, OutputInductive
  <2> QED
    BY <2>1, <2>2, <2>3
<1> HIDE DEF Inv
<1> QED
  BY <1>1, <1>2, PTL DEF Spec, ImplementsOutput, Output!Spec

=============================================================================
