------------------------ MODULE SpokenRepliesProofs ------------------------
(***************************************************************************)
(* TLAPS proofs about replies on their way from the turn to the card, for  *)
(* any number of replies and stops by hand, and about spoken replies as    *)
(* chunks and as wholes.                                                   *)
(***************************************************************************)
EXTENDS SpokenReplies, StreamingSpeechProofs, SequenceTheorems, FiniteSetTheorems, TLAPS

-----------------------------------------------------------------------------
(* The inductive invariant of the replies.                                 *)

\* The types, but for the bounds of what counts up.
Voices  == [generation : Nat, queue : Maybe, pending : Maybe, playing : Maybe]
Players == [step : PlayerStages, token : Nat]
HaltSteps == {"idle", "asked", "detached", "halted", "done"}
HaltCalls == [step : HaltSteps, generation : Nat, session : Nat, queue : Maybe,
              playing : Maybe, stream : Maybe, id : Maybe]
Cards   == [turn : Maybe, response : Maybe, pending : Maybe, reveal : BOOLEAN,
            ready : BOOLEAN, readyBy : Maybe, streaming : BOOLEAN, shown : Maybe,
            pacedBy : Maybe, speaking : BOOLEAN, begun : BOOLEAN, playback : Maybe,
            timeline : Maybe, retired : BOOLEAN]

ReplyShapes ==
    /\ manner \in [responsive : BOOLEAN, aloud : BOOLEAN, checkIns : SUBSET Replies]
    /\ stage \in [Replies -> TurnSteps]
    /\ calledOff \subseteq Replies /\ silenced \subseteq Replies /\ overlooked \subseteq Replies
    /\ lastClaim \in Maybe
    /\ began \in [Replies -> Nat]
    /\ voice \in Voices /\ session \in Nat
    /\ player \in [Replies -> Players]
    /\ halt \in [Halts -> HaltCalls]
    /\ card \in Cards

\* One turn has the lock, and only the last claim is in force.
InTurn == {"thinking", "published", "dispatching", "unspoken"}
FloorTaken ==
    /\ \A q, r \in Replies : stage[q] \in Busy /\ stage[r] \in Busy => q = r
    /\ \A r \in Replies : stage[r] \in {"claimed"} \cup Busy => r \in calledOff \/ lastClaim = r
    /\ \A r \in Replies : stage[r] = "claimed" => r \in Typed
    /\ \A r \in Replies : stage[r] = "asked" => r \notin Typed

\* A reply that was not dispatched yet has no player, and one not begun no stop.
NotYet(r) ==
    /\ stage[r] = "idle" => halt[r].step = "idle"
    /\ stage[r] \notin {"ending", "done"} => player[r] = [step |-> "none", token |-> 0]

\* Sessions are handed out once; a queue gets its own when it opens the device.
SessionsKnown ==
    /\ \A r \in Replies :
          /\ player[r].token <= session
          /\ player[r].step = "none" => player[r].token = 0
          /\ player[r].step = "opening" => (player[r].token = 0 <=> manner.responsive)
          /\ player[r].step \in {"announcing", "playing"} => player[r].token # 0
    /\ \A q, r \in Replies : player[q].token = player[r].token /\ player[r].token # 0 => q = r

\* Stops and turns know generations of the past.
CallsKnown ==
    /\ \A r \in Replies : began[r] <= voice.generation
    /\ \A h \in Halts :
          /\ halt[h].generation <= voice.generation /\ halt[h].session <= session
          /\ halt[h].step \in {"detached", "halted"} /\ halt[h].queue # NoReply =>
                /\ began[halt[h].queue] < halt[h].generation
                /\ player[halt[h].queue].step # "none"
    /\ voice.queue # NoReply =>
          began[voice.queue] = voice.generation /\ player[voice.queue].step # "none"
    /\ voice.pending \in {NoReply, voice.queue}
    /\ ~manner.responsive =>
          voice.queue = NoReply /\ \A h \in Halts : halt[h].stream = NoReply /\ halt[h].queue = NoReply

\* Each stop is a generation, each session a reply's or a stop's.
Detached == {h \in Halts : halt[h].step \in {"detached", "halted", "done"}}
Halting  == {h \in Halts : halt[h].step \in {"halted", "done"}}
WithSession == {r \in Replies : player[r].token # 0}
Counted ==
    /\ voice.generation <= Cardinality(Detached)
    /\ session <= Cardinality(WithSession) + Cardinality(Halting)

ReplyBasics ==
    /\ ReplyShapes /\ FloorTaken /\ \A r \in Replies : NotYet(r)
    /\ SessionsKnown /\ CallsKnown /\ Counted

\* Nothing is heard, and no player of an older reply can still be taken for a newer one's.
Quiet ==
    /\ voice.playing = NoReply /\ voice.queue = NoReply
    /\ \A q \in Starting : ~InSession(q)

TurnsAreQuiet ==
    /\ \A r \in Replies : stage[r] \in InTurn => Quiet
    /\ \A r \in Replies : stage[r] = "claimed" /\ InForce(r) =>
          /\ halt[r].step \in {"idle", "halted", "done"} => Quiet
          /\ halt[r].step = "detached" =>
                /\ voice.playing = NoReply /\ voice.queue = NoReply
                /\ \A q \in Starting : InSession(q) => session <= halt[r].session

\* What the service takes for heard is heard.
PlayingIsHeard ==
    /\ voice.playing # NoReply =>
          \/ ~manner.responsive /\ voice.playing \in silenced
          \/ /\ player[voice.playing].step = "playing" /\ InSession(voice.playing)
             /\ manner.responsive => began[voice.playing] = voice.generation
    /\ ~manner.responsive /\ StopUnderWay => voice.playing = NoReply

\* A queue of the current generation is the one the service refers to, and in session.
QueueIsKnown ==
    manner.responsive =>
        /\ \A q \in Replies :
              /\ player[q].step \in {"opening", "announcing", "playing"} /\ began[q] = voice.generation
                 => voice.queue = q
              /\ player[q].step = "announcing" /\ began[q] = voice.generation => InSession(q)
        /\ voice.pending # NoReply => player[voice.pending].step # "playing"
        /\ \A h \in Halts, r \in Replies :
              halt[h].step = "detached" /\ player[r].token # 0 /\ began[r] >= halt[h].generation
              => player[r].token > halt[h].session

\* A stop tells of the queue it cancelled.
StopsTell ==
    \A h \in Halts : halt[h].stream # NoReply =>
        /\ halt[h].step = "detached" =>
              halt[h].queue = halt[h].stream /\ halt[h].playing \in {NoReply, halt[h].stream}
        /\ halt[h].step = "halted" => halt[h].id \in {NoReply, halt[h].stream}

\* The card: what waits for the voice is the reply of the turn it shows.
CardKept(c) ==
    /\ c.reveal =>
          /\ c.pending = c.turn /\ c.response = c.turn /\ c.turn # NoReply
          /\ ~c.streaming /\ ~c.ready /\ ~c.retired /\ ~c.begun
    /\ c.streaming => c.pacedBy = c.turn
    /\ c.timeline \in {NoReply, c.turn}
    /\ c.shown # NoReply => c.pacedBy = c.shown
CardAwaits ==
    /\ \A r \in Typed : stage[r] = "thinking" =>
          /\ card.turn = r /\ card.response = NoReply
          /\ ~card.begun /\ ~card.ready /\ ~card.reveal /\ ~card.retired
    /\ \A r \in Replies : stage[r] \in InTurn \ {"thinking"} => card.turn = r
    /\ \A q \in Starting : InSession(q) => card.turn = q

\* Who will tell the client of reply r.
InProgress(r) ==
    \/ stage[r] \in InTurn \ {"thinking"}
    \/ r \in Starting
    \/ voice.pending = r /\ (player[r].step \in {"opening", "announcing"} \/ r \in calledOff)
    \/ \E h \in Halts : halt[h].step \in {"detached", "halted"} /\ halt[h].stream = r
ResponseAwaited ==
    card.response \notin silenced \cup {NoReply} =>
        card.shown = card.response \/ (card.reveal /\ InProgress(card.response))

ReplyPart == /\ TurnsAreQuiet /\ PlayingIsHeard /\ QueueIsKnown /\ StopsTell
             /\ CardKept(card) /\ CardAwaits /\ ResponseAwaited
ReplyIInv == ReplyBasics /\ (overlooked = {} => ReplyPart)


-----------------------------------------------------------------------------
\* The numbers of replies and stops, and a field of one of them.
LEMMA ReplyNumbers ==
    /\ MaxReplies \in Nat /\ MaxHands \in Nat
    /\ Replies \subseteq Nat /\ Halts \subseteq Nat
    /\ Replies \subseteq Halts /\ Hands \subseteq Halts /\ NoReply \notin Halts
    /\ Halts = 1..(MaxReplies + MaxHands)
  BY ReplyCardAssumption DEF ReplyCardAssumption, Replies, Halts, Hands, NoReply

LEMMA StageMoves ==
    ASSUME ReplyShapes, NEW r \in Replies, NEW from, NEW to \in TurnSteps, GoOn(r, from, to)
    PROVE  /\ stage' \in [Replies -> TurnSteps] /\ stage[r] = from /\ stage'[r] = to
           /\ \A q \in Replies : q # r => stage'[q] = stage[q]
  BY DEF ReplyShapes, GoOn

LEMMA PlayerMoves ==
    ASSUME ReplyShapes, NEW r \in Replies, NEW step \in PlayerStages, NEW token \in Nat,
           player' = [player EXCEPT ![r] = [step |-> step, token |-> token]]
    PROVE  /\ player' \in [Replies -> Players]
           /\ player'[r].step = step /\ player'[r].token = token
           /\ \A q \in Replies : q # r => player'[q] = player[q]
  BY DEF ReplyShapes, Players

LEMMA PlayerHandlers ==
    ASSUME ReplyShapes, NEW r \in Replies, NEW step \in PlayerStages, Playing(r, step)
    PROVE  /\ player' \in [Replies -> Players]
           /\ player'[r].step = step /\ player'[r].token = player[r].token
           /\ \A q \in Replies : q # r => player'[q] = player[q]
<1>1. player[r].token \in Nat /\ [player[r] EXCEPT !.step = step] = [step |-> step, token |-> player[r].token]
  BY DEF ReplyShapes, Players
<1>2. player' = [player EXCEPT ![r] = [step |-> step, token |-> player[r].token]]
  BY <1>1 DEF Playing
<1> QED
  BY <1>1, <1>2, PlayerMoves

LEMMA HaltMoves ==
    ASSUME ReplyShapes, NEW h \in Halts, NEW call \in HaltCalls,
           halt' = [halt EXCEPT ![h] = call]
    PROVE  /\ halt' \in [Halts -> HaltCalls] /\ halt'[h] = call
           /\ \A g \in Halts : g # h => halt'[g] = halt[g]
  BY DEF ReplyShapes

LEMMA HaltTyped ==
    ASSUME ReplyShapes, NEW h \in Halts, NEW step \in HaltSteps, NEW id \in Maybe
    PROVE  /\ [halt[h] EXCEPT !.step = step, !.id = id] \in HaltCalls
           /\ [halt[h] EXCEPT !.step = step] \in HaltCalls
           /\ Halted \in HaltCalls /\ NoHalt \in HaltCalls
<1>1. halt[h] \in HaltCalls
  BY DEF ReplyShapes
<1>2. PICK call : call = halt[h]
  OBVIOUS
<1>3. [call EXCEPT !.step = step] =
          [step |-> step, generation |-> call.generation, session |-> call.session,
           queue |-> call.queue, playing |-> call.playing, stream |-> call.stream, id |-> call.id]
  BY <1>1, <1>2 DEF HaltCalls
<1>7. ASSUME NEW i \in Maybe
      PROVE  [step |-> step, generation |-> call.generation, session |-> call.session,
              queue |-> call.queue, playing |-> call.playing, stream |-> call.stream,
              id |-> i] \in HaltCalls
  <2>1. /\ call.generation \in Nat /\ call.session \in Nat /\ call.queue \in Maybe
        /\ call.playing \in Maybe /\ call.stream \in Maybe
    BY <1>1, <1>2 DEF HaltCalls
  <2> QED
    BY <2>1 DEF HaltCalls
<1>8. call.id \in Maybe
  BY <1>1, <1>2 DEF HaltCalls
<1>9. [call EXCEPT !.step = step, !.id = id] =
          [step |-> step, generation |-> call.generation, session |-> call.session,
           queue |-> call.queue, playing |-> call.playing, stream |-> call.stream, id |-> id]
  <2>0. PICK mid : mid = [call EXCEPT !.step = step]
    OBVIOUS
  <2>1. [call EXCEPT !.step = step, !.id = id] = [mid EXCEPT !.id = id]
    BY <2>0
  <2>2. mid \in HaltCalls
    BY <2>0, <1>3, <1>7, <1>8
  <2>3. [mid EXCEPT !.id = id] =
          [step |-> mid.step, generation |-> mid.generation, session |-> mid.session,
           queue |-> mid.queue, playing |-> mid.playing, stream |-> mid.stream, id |-> id]
    BY <2>2 DEF HaltCalls
  <2>4. /\ mid.step = step /\ mid.generation = call.generation /\ mid.session = call.session
        /\ mid.queue = call.queue /\ mid.playing = call.playing /\ mid.stream = call.stream
    BY <2>0, <1>3
  <2> QED
    BY <2>1, <2>3, <2>4
<1>4. NoHalt \in HaltCalls
  BY DEF NoHalt, HaltCalls, HaltSteps, Maybe, NoReply
<1>5. Halted = [step |-> "done", generation |-> 0, session |-> 0, queue |-> NoReply,
                playing |-> NoReply, stream |-> NoReply, id |-> NoReply]
  BY DEF Halted, NoHalt
<1>6. Halted \in HaltCalls
  BY <1>5 DEF HaltCalls, HaltSteps, Maybe, NoReply
<1> QED
  BY <1>2, <1>3, <1>4, <1>6, <1>7, <1>8, <1>9


-----------------------------------------------------------------------------
\* What the handlers of the client make of a card.
LEMMA TurnStartedCard ==
    ASSUME NEW c \in Cards, NEW r \in Replies
    PROVE  /\ TurnStarted(c, r) \in Cards
           /\ TurnStarted(c, r).turn = r /\ TurnStarted(c, r).response = NoReply
           /\ TurnStarted(c, r).pending = NoReply
           /\ ~TurnStarted(c, r).reveal /\ ~TurnStarted(c, r).ready /\ ~TurnStarted(c, r).streaming
           /\ ~TurnStarted(c, r).begun /\ ~TurnStarted(c, r).retired
           /\ TurnStarted(c, r).timeline = NoReply
           /\ TurnStarted(c, r).pacedBy = c.pacedBy
           /\ TurnStarted(c, r).shown \in {NoReply, c.shown}
<1> PICK left : left = (IF r \in manner.checkIns THEN c.shown ELSE NoReply)
  OBVIOUS
<1>1. left \in {NoReply, c.shown}
  OBVIOUS
<1>2. TurnStarted(c, r) =
        [c EXCEPT !.turn = r, !.response = NoReply, !.pending = NoReply,
                  !.reveal = FALSE, !.ready = FALSE, !.readyBy = NoReply,
                  !.streaming = FALSE, !.begun = FALSE, !.timeline = NoReply,
                  !.retired = FALSE, !.shown = left]
  BY DEF Cards, TurnStarted
<1> QED
  BY <1>1, <1>2 DEF Cards, Maybe, NoReply

LEMMA TurnCancelledCard ==
    ASSUME NEW c \in Cards
    PROVE  /\ TurnCancelled(c) \in Cards
           /\ TurnCancelled(c).turn = c.turn /\ TurnCancelled(c).response = NoReply
           /\ ~TurnCancelled(c).reveal /\ ~TurnCancelled(c).streaming
           /\ ~TurnCancelled(c).begun /\ ~TurnCancelled(c).retired
           /\ TurnCancelled(c).timeline = NoReply
           /\ TurnCancelled(c).pacedBy = c.pacedBy /\ TurnCancelled(c).shown = c.shown
  BY DEF Cards, TurnCancelled, Maybe, NoReply

LEMMA DeltaCard ==
    ASSUME NEW c \in Cards, NEW r \in Replies
    PROVE  /\ DeltaArrived(c, r) \in Cards
           /\ DeltaArrived(c, r).turn = c.turn /\ DeltaArrived(c, r).response = c.response
           /\ DeltaArrived(c, r).reveal = c.reveal /\ DeltaArrived(c, r).ready = c.ready
           /\ DeltaArrived(c, r).begun = c.begun /\ DeltaArrived(c, r).retired = c.retired
           /\ DeltaArrived(c, r).timeline = c.timeline
           /\ DeltaArrived(c, r).pacedBy = r /\ DeltaArrived(c, r).shown = r
  BY DEF Cards, DeltaArrived, Maybe

LEMMA RevealCard ==
    ASSUME NEW c \in Cards
    PROVE  /\ Reveal(c) \in Cards
           /\ Reveal(c).turn = c.turn /\ Reveal(c).response = c.response
           /\ Reveal(c).streaming = c.streaming /\ Reveal(c).retired = c.retired
           /\ Reveal(c).begun = c.begun /\ Reveal(c).timeline = c.timeline
           /\ Reveal(c).playback = c.playback
           /\ IF c.reveal /\ c.ready /\ c.pending # NoReply
              THEN /\ Reveal(c).shown = c.pending /\ Reveal(c).pacedBy = c.readyBy
                   /\ ~Reveal(c).reveal /\ ~Reveal(c).ready
              ELSE Reveal(c) = c
<1>1. CASE c.reveal /\ c.ready /\ c.pending # NoReply
  <2> PICK d : d = [c EXCEPT !.shown = c.pending, !.pacedBy = c.readyBy, !.pending = NoReply,
                             !.reveal = FALSE, !.ready = FALSE, !.readyBy = NoReply]
    OBVIOUS
  <2>1. d \in Cards
    BY DEF Cards, Maybe
  <2>2. /\ d.turn = c.turn /\ d.response = c.response /\ d.streaming = c.streaming
        /\ d.retired = c.retired /\ d.begun = c.begun /\ d.timeline = c.timeline
        /\ d.playback = c.playback /\ d.shown = c.pending /\ d.pacedBy = c.readyBy
        /\ d.reveal = FALSE /\ d.ready = FALSE
    BY DEF Cards
  <2>3. Reveal(c) = d
    BY <1>1 DEF Reveal
  <2> QED
    BY <1>1, <2>1, <2>2, <2>3
<1>2. CASE ~(c.reveal /\ c.ready /\ c.pending # NoReply)
  <2>1. Reveal(c) = c
    BY <1>2 DEF Reveal
  <2> QED
    BY <1>2, <2>1
<1> QED
  BY <1>1, <1>2


LEMMA HeardCard ==
    ASSUME NEW c \in Cards, NEW r \in Maybe
    PROVE  /\ Heard(c, r) \in Cards
           /\ Heard(c, r).turn = c.turn /\ Heard(c, r).response = c.response
           /\ Heard(c, r).streaming = c.streaming /\ Heard(c, r).retired = c.retired
           /\ Heard(c, r).begun = c.begun /\ Heard(c, r).timeline = c.timeline
           /\ IF c.reveal /\ c.pending # NoReply
              THEN /\ Heard(c, r).shown = c.pending /\ Heard(c, r).pacedBy = r
                   /\ ~Heard(c, r).reveal
              ELSE /\ Heard(c, r).shown = c.shown /\ Heard(c, r).pacedBy = c.pacedBy
                   /\ Heard(c, r).reveal = c.reveal /\ Heard(c, r).pending = c.pending
<1>1. PICK d : d = [c EXCEPT !.ready = TRUE, !.readyBy = r]
  OBVIOUS
<1>2. /\ d \in Cards /\ d.turn = c.turn /\ d.response = c.response
      /\ d.streaming = c.streaming /\ d.retired = c.retired /\ d.begun = c.begun
      /\ d.timeline = c.timeline /\ d.pending = c.pending /\ d.shown = c.shown
      /\ d.pacedBy = c.pacedBy /\ d.reveal = c.reveal /\ d.ready = TRUE /\ d.readyBy = r
  BY <1>1 DEF Cards
<1>3. Heard(c, r) = Reveal(d)
  BY <1>1 DEF Heard
<1> HIDE <1>1
<1>4. CASE c.reveal /\ c.pending # NoReply
  BY <1>2, <1>3, <1>4, RevealCard
<1>5. CASE ~(c.reveal /\ c.pending # NoReply)
  BY <1>2, <1>3, <1>5, RevealCard
<1> QED
  BY <1>4, <1>5

\* Of a card that a handler left as it was, or revealed.
Told(c, d) ==
    /\ d \in Cards /\ d.turn = c.turn /\ d.response = c.response /\ CardKept(d)
    /\ \/ d.shown = c.shown /\ d.reveal = c.reveal
       \/ c.reveal /\ d.shown = c.response /\ ~d.reveal

LEMMA HeardTold ==
    ASSUME NEW c \in Cards, NEW r \in Maybe, CardKept(c), c.reveal => r = c.turn
    PROVE  /\ Told(c, Heard(c, r)) /\ ~Heard(c, r).reveal
           /\ c.reveal => Heard(c, r).shown = c.response
<1>1. PICK d : d = Heard(c, r)
  OBVIOUS
<1>2. /\ d \in Cards /\ d.turn = c.turn /\ d.response = c.response
      /\ d.streaming = c.streaming /\ d.timeline = c.timeline
      /\ IF c.reveal /\ c.pending # NoReply
         THEN d.shown = c.pending /\ d.pacedBy = r /\ ~d.reveal
         ELSE d.shown = c.shown /\ d.pacedBy = c.pacedBy /\ d.reveal = c.reveal
  BY <1>1, HeardCard
<1>3. CASE c.reveal
  BY <1>1, <1>2, <1>3 DEF CardKept, Told
<1>4. CASE ~c.reveal
  BY <1>1, <1>2, <1>4 DEF CardKept, Told
<1> QED
  BY <1>3, <1>4

\* What no longer waits may change in what only waiting is about.
LEMMA ToldOn ==
    ASSUME NEW c \in Cards, NEW d \in Cards, NEW e \in Cards, Told(c, d), ~d.reveal,
           e.turn = d.turn, e.response = d.response, e.reveal = d.reveal, e.shown = d.shown,
           e.pacedBy = d.pacedBy, e.streaming = d.streaming, e.timeline \in {d.timeline, d.turn}
    PROVE  Told(c, e)
  BY DEF Told, CardKept

LEMMA StartedCard ==
    ASSUME NEW c \in Cards, NEW r \in Replies
    PROVE  /\ PlaybackStarted(c, r) \in Cards
           /\ CardKept(c) /\ (c.reveal => r = c.turn) =>
                 /\ Told(c, PlaybackStarted(c, r))
                 /\ c.reveal => PlaybackStarted(c, r).shown = c.response
<1>1. PICK d : d = Heard(c, r)
  OBVIOUS
<1>2. d \in Cards /\ r \in Maybe
  BY <1>1, HeardCard DEF Maybe
<1>3. PICK e : e = [d EXCEPT !.speaking = TRUE, !.begun = TRUE, !.playback = r]
  OBVIOUS
<1>4. /\ e \in Cards /\ e.turn = d.turn /\ e.response = d.response /\ e.reveal = d.reveal
      /\ e.shown = d.shown /\ e.pacedBy = d.pacedBy /\ e.streaming = d.streaming
      /\ e.timeline = d.timeline
  BY <1>2, <1>3 DEF Cards
<1>5. PlaybackStarted(c, r) = e
  BY <1>1, <1>3 DEF PlaybackStarted
<1>6. ASSUME CardKept(c), c.reveal => r = c.turn
      PROVE  Told(c, e) /\ (c.reveal => e.shown = c.response)
  <2>1. Told(c, d) /\ ~d.reveal /\ (c.reveal => d.shown = c.response)
    BY <1>1, <1>2, <1>6, HeardTold
  <2> QED
    BY <1>2, <1>4, <2>1, ToldOn
<1> QED
  BY <1>4, <1>5, <1>6

LEMMA NothingCard ==
    ASSUME NEW c \in Cards, NEW r \in Maybe
    PROVE  /\ NothingToHear(c, r) \in Cards
           /\ CardKept(c) /\ (c.reveal => r = c.turn) =>
                 /\ Told(c, NothingToHear(c, r))
                 /\ c.reveal => NothingToHear(c, r).shown = c.response
<1>1. PICK d : d = Heard(c, r)
  OBVIOUS
<1>2. d \in Cards
  BY <1>1, HeardCard
<1>3. PICK e : e = [d EXCEPT !.speaking = FALSE]
  OBVIOUS
<1>4. /\ e \in Cards /\ e.turn = d.turn /\ e.response = d.response /\ e.reveal = d.reveal
      /\ e.shown = d.shown /\ e.pacedBy = d.pacedBy /\ e.streaming = d.streaming
      /\ e.timeline = d.timeline
  BY <1>2, <1>3 DEF Cards
<1>5. NothingToHear(c, r) = e
  BY <1>1, <1>3 DEF NothingToHear
<1>6. ASSUME CardKept(c), c.reveal => r = c.turn
      PROVE  Told(c, e) /\ (c.reveal => e.shown = c.response)
  <2>1. Told(c, d) /\ ~d.reveal /\ (c.reveal => d.shown = c.response)
    BY <1>1, <1>6, HeardTold
  <2> QED
    BY <1>2, <1>4, <2>1, ToldOn
<1> QED
  BY <1>4, <1>5, <1>6

\* A handler that drops an event leaves the card alone.
LEMMA LeftAlone ==
    ASSUME NEW c \in Cards, CardKept(c)
    PROVE  Told(c, c)
  BY DEF Told

LEMMA StoppedCard ==
    ASSUME NEW c \in Cards, NEW id \in Maybe, NEW r \in Maybe
    PROVE  /\ PlaybackStopped(c, id, r) \in Cards
           /\ CardKept(c) => Told(c, PlaybackStopped(c, id, r))
           /\ CardKept(c) /\ c.reveal => PlaybackStopped(c, id, r) = c
<1>1. CASE ~c.begun \/ (id # NoReply /\ c.playback # NoReply /\ id # c.playback)
  BY <1>1, LeftAlone DEF PlaybackStopped
<1>2. CASE ~(~c.begun \/ (id # NoReply /\ c.playback # NoReply /\ id # c.playback))
  <2>1. PlaybackStopped(c, id, r) = NothingToHear(c, r)
    BY <1>2 DEF PlaybackStopped, NothingToHear
  <2>2. CardKept(c) => ~c.reveal
    BY <1>2 DEF CardKept
  <2> QED
    BY <2>1, <2>2, NothingCard
<1> QED
  BY <1>1, <1>2

LEMMA CommittedStartedCard ==
    ASSUME NEW c \in Cards, NEW r \in Replies
    PROVE  /\ CommittedStarted(c, r) \in Cards
           /\ CardKept(c) => Told(c, CommittedStarted(c, r))
           /\ CardKept(c) /\ c.reveal /\ c.response = r => CommittedStarted(c, r).shown = c.response
<1>1. CASE ~Committed(c, r)
  <2>1. CardKept(c) /\ c.reveal => c.response # r
    BY <1>1 DEF CardKept, Committed
  <2> QED
    BY <1>1, <2>1, LeftAlone DEF CommittedStarted
<1>2. CASE Committed(c, r)
  <2>1. PICK d : d = Heard(c, r)
    OBVIOUS
  <2>2. d \in Cards /\ r \in Maybe /\ d.turn = c.turn /\ r = c.turn
    BY <1>2, <2>1, HeardCard DEF Maybe, Committed
  <2>3. PICK e : e = [d EXCEPT !.timeline = r, !.speaking = TRUE, !.begun = TRUE, !.playback = r]
    OBVIOUS
  <2>4. /\ e \in Cards /\ e.turn = d.turn /\ e.response = d.response /\ e.reveal = d.reveal
        /\ e.shown = d.shown /\ e.pacedBy = d.pacedBy /\ e.streaming = d.streaming
        /\ e.timeline = r
    BY <2>2, <2>3 DEF Cards
  <2>5. CommittedStarted(c, r) = e
    BY <1>2, <2>1, <2>3 DEF CommittedStarted
  <2>6. ASSUME CardKept(c)
        PROVE  Told(c, e) /\ (c.reveal => e.shown = c.response)
    <3>1. Told(c, d) /\ ~d.reveal /\ (c.reveal => d.shown = c.response)
      BY <2>1, <2>2, <2>6, HeardTold
    <3> QED
      BY <2>2, <2>4, <3>1, ToldOn
  <2> QED
    BY <2>4, <2>5, <2>6
<1> QED
  BY <1>1, <1>2

LEMMA CommittedEndedCard ==
    ASSUME NEW c \in Cards, NEW r \in Replies, NEW id \in Maybe
    PROVE  /\ CommittedEnded(c, r, id) \in Cards
           /\ CardKept(c) => Told(c, CommittedEnded(c, r, id))
           /\ CardKept(c) /\ c.reveal /\ c.response = r /\ id \in {NoReply, r} =>
                 CommittedEnded(c, r, id).shown = c.response
<1> DEFINE taken == Committed(c, r) /\ ~(c.timeline # NoReply /\ id # NoReply /\ id # c.timeline)
<1>1. CASE ~taken
  <2>1. CardKept(c) /\ c.reveal /\ c.response = r => id \notin {NoReply, r}
    BY <1>1 DEF CardKept, Committed
  <2> QED
    BY <1>1, <2>1, LeftAlone DEF CommittedEnded
<1>2. CASE taken
  <2>1. PICK d : d = Heard(c, r)
    OBVIOUS
  <2>2. d \in Cards /\ r \in Maybe /\ d.turn = c.turn /\ r = c.turn
    BY <1>2, <2>1, HeardCard DEF Maybe, Committed
  <2>3. PICK e : e = [d EXCEPT !.speaking = FALSE, !.retired = TRUE]
    OBVIOUS
  <2>4. /\ e \in Cards /\ e.turn = d.turn /\ e.response = d.response /\ e.reveal = d.reveal
        /\ e.shown = d.shown /\ e.pacedBy = d.pacedBy /\ e.streaming = d.streaming
        /\ e.timeline = d.timeline
    BY <2>2, <2>3 DEF Cards
  <2>5. CommittedEnded(c, r, id) = e
    BY <1>2, <2>1, <2>3 DEF CommittedEnded
  <2>6. ASSUME CardKept(c)
        PROVE  Told(c, e) /\ (c.reveal => e.shown = c.response)
    <3>1. Told(c, d) /\ ~d.reveal /\ (c.reveal => d.shown = c.response)
      BY <2>1, <2>2, <2>6, HeardTold
    <3> QED
      BY <2>2, <2>4, <3>1, ToldOn
  <2> QED
    BY <2>4, <2>5, <2>6
<1> QED
  BY <1>1, <1>2

LEMMA ResponseCard ==
    ASSUME NEW c \in Cards, NEW r \in Replies
    PROVE  /\ ResponseArrived(c, r) \in Cards
           /\ CardKept(c) /\ c.turn = r /\ ~c.ready /\ ~c.retired =>
                 /\ CardKept(ResponseArrived(c, r))
                 /\ ResponseArrived(c, r).turn = r /\ ResponseArrived(c, r).response = r
                 /\ ResponseArrived(c, r).shown = r \/ ResponseArrived(c, r).reveal
<1>1. PICK f : f = [c EXCEPT !.response = r, !.begun = FALSE, !.speaking = FALSE, !.playback = NoReply]
  OBVIOUS
<1>2. /\ f \in Cards /\ f.turn = c.turn /\ f.response = r /\ f.begun = FALSE
      /\ f.streaming = c.streaming /\ f.pacedBy = c.pacedBy /\ f.shown = c.shown
      /\ f.timeline = c.timeline /\ f.ready = c.ready /\ f.retired = c.retired
  BY <1>1 DEF Cards, Maybe
<1>3. CASE c.streaming
  <2>1. PICK e : e = [f EXCEPT !.shown = r, !.pending = NoReply, !.reveal = FALSE,
                              !.ready = FALSE, !.readyBy = NoReply, !.streaming = FALSE]
    OBVIOUS
  <2>5. f \in Cards /\ r \in Maybe /\ NoReply \in Maybe
    BY <1>2 DEF Maybe
  <2>2. /\ e \in Cards /\ e.turn = f.turn /\ e.response = f.response /\ e.shown = r
        /\ e.pacedBy = f.pacedBy /\ e.reveal = FALSE /\ e.streaming = FALSE
        /\ e.timeline = f.timeline
    BY <2>1, <2>5 DEF Cards
  <2>3. ResponseArrived(c, r) = e
    BY <1>1, <1>3, <2>1 DEF ResponseArrived
  <2>4. CardKept(c) /\ c.turn = r => CardKept(e)
    BY <1>2, <1>3, <2>2 DEF CardKept
  <2> QED
    BY <1>2, <2>2, <2>3, <2>4
<1>4. CASE ~c.streaming
  <2>1. PICK e : e = [f EXCEPT !.pending = r, !.reveal = TRUE]
    OBVIOUS
  <2>2. /\ e \in Cards /\ e.turn = f.turn /\ e.response = f.response /\ e.shown = f.shown
        /\ e.pacedBy = f.pacedBy /\ e.reveal = TRUE /\ e.streaming = f.streaming
        /\ e.timeline = f.timeline /\ e.ready = f.ready /\ e.retired = f.retired
        /\ e.begun = f.begun /\ e.pending = r
    BY <1>2, <2>1 DEF Cards, Maybe
  <2>3. ResponseArrived(c, r) = Reveal(e)
    BY <1>1, <1>4, <2>1 DEF ResponseArrived
  <2>4. ASSUME CardKept(c), c.turn = r, ~c.ready, ~c.retired
        PROVE  CardKept(e) /\ Reveal(e) = e
    <3>1. Reveal(e) = e
      BY <1>2, <2>2, <2>4, RevealCard
    <3>2. r # NoReply
      BY ReplyNumbers
    <3> QED
      BY <1>2, <1>4, <2>2, <2>4, <3>1, <3>2 DEF CardKept
  <2> QED
    BY <1>2, <2>2, <2>3, <2>4, RevealCard
<1> QED
  BY <1>3, <1>4


-----------------------------------------------------------------------------
\* Counting what was handed out.
LEMMA CountsGrow ==
    ASSUME NEW S, NEW T, IsFiniteSet(T), S \subseteq T
    PROVE  /\ Cardinality(S) \in Nat /\ Cardinality(T) \in Nat
           /\ Cardinality(S) <= Cardinality(T)
           /\ \A x \in T : x \notin S => Cardinality(S) + 1 <= Cardinality(T)
<1>1. /\ IsFiniteSet(S) /\ Cardinality(S) \in Nat /\ Cardinality(T) \in Nat
      /\ Cardinality(S) <= Cardinality(T)
  BY FS_Subset, FS_CardinalityType
<1>2. ASSUME NEW x \in T, x \notin S
      PROVE  Cardinality(S) + 1 <= Cardinality(T)
  <2>1. IsFiniteSet(S \cup {x}) /\ Cardinality(S \cup {x}) = Cardinality(S) + 1
    BY <1>1, <1>2, FS_AddElement
  <2>2. S \cup {x} \subseteq T
    BY <1>2
  <2>3. Cardinality(S \cup {x}) <= Cardinality(T)
    BY <2>2, FS_Subset
  <2> QED
    BY <1>1, <2>1, <2>3
<1> QED
  BY <1>1, <1>2

LEMMA FiniteCounts ==
    /\ IsFiniteSet(Replies) /\ Cardinality(Replies) = MaxReplies
    /\ IsFiniteSet(Halts) /\ Cardinality(Halts) = MaxReplies + MaxHands
<1>1. IsFiniteSet(1..MaxReplies) /\ Cardinality(1..MaxReplies) = MaxReplies
  BY ReplyNumbers, FS_Interval
<1>2. /\ IsFiniteSet(1..(MaxReplies + MaxHands))
      /\ Cardinality(1..(MaxReplies + MaxHands)) = MaxReplies + MaxHands
  BY ReplyNumbers, FS_Interval
<1> QED
  BY <1>1, <1>2, ReplyNumbers DEF Replies

\* Nothing new is handed out.
LEMMA CountedKept ==
    ASSUME ReplyShapes, Counted, voice'.generation = voice.generation, session' = session,
           \A r \in Replies : player[r].token # 0 => player'[r].token # 0,
           \A h \in Halts : halt[h].step \in {"detached", "halted", "done"}
                                => halt'[h].step \in {"detached", "halted", "done"},
           \A h \in Halts : halt[h].step \in {"halted", "done"} => halt'[h].step \in {"halted", "done"}
    PROVE  Counted'
<1>1. Detached \subseteq Detached' /\ Halting \subseteq Halting' /\ WithSession \subseteq WithSession'
  BY DEF Detached, Halting, WithSession
<1>2. IsFiniteSet(Detached') /\ IsFiniteSet(Halting') /\ IsFiniteSet(WithSession')
  BY FiniteCounts, FS_Subset DEF Detached, Halting, WithSession
<1>3. /\ Cardinality(Detached) <= Cardinality(Detached')
      /\ Cardinality(Halting) <= Cardinality(Halting')
      /\ Cardinality(WithSession) <= Cardinality(WithSession')
      /\ Cardinality(Detached) \in Nat /\ Cardinality(Detached') \in Nat
      /\ Cardinality(Halting) \in Nat /\ Cardinality(Halting') \in Nat
      /\ Cardinality(WithSession) \in Nat /\ Cardinality(WithSession') \in Nat
  BY <1>1, <1>2, CountsGrow
<1>4. voice.generation \in Nat /\ session \in Nat
  BY DEF ReplyShapes, Voices
<1> QED
  BY <1>3, <1>4 DEF Counted

\* A step of one turn, which leaves the sound and the stops alone.
LEMMA TurnKeepsBasics ==
    ASSUME ReplyBasics, NEW r \in Replies, NEW from, NEW to \in TurnSteps \ {"idle"},
           GoOn(r, from, to), to \in {"ending", "done"} \/ from \notin {"ending", "done"},
           manner' = manner, UNCHANGED <<soundPart, halt>>, FloorTaken',
           lastClaim' \in Maybe, calledOff' \subseteq Replies,
           silenced' \subseteq Replies, overlooked' \subseteq Replies, card' \in Cards,
           \/ began' = began
           \/ from \in {"claimed", "asked"} /\ began' = [began EXCEPT ![r] = voice.generation]
    PROVE  ReplyBasics'
<1>1. /\ voice' = voice /\ session' = session /\ player' = player /\ halt' = halt
  BY DEF soundPart
<1>2. /\ stage' \in [Replies -> TurnSteps] /\ stage[r] = from /\ stage'[r] = to
      /\ \A q \in Replies : q # r => stage'[q] = stage[q]
  BY StageMoves DEF ReplyBasics
<1>3. voice.generation \in Nat /\ began \in [Replies -> Nat]
  BY DEF ReplyBasics, ReplyShapes, Voices
<1>4. /\ began' \in [Replies -> Nat]
      /\ \A q \in Replies : began'[q] = began[q] \/ (q = r /\ from \in {"claimed", "asked"}
                                                    /\ began'[q] = voice.generation)
  BY <1>3
<1>5. ReplyShapes'
  BY <1>1, <1>2, <1>4 DEF ReplyBasics, ReplyShapes
<1>6. \A q \in Replies : NotYet(q)'
  BY <1>1, <1>2 DEF ReplyBasics, NotYet
<1>7. SessionsKnown'
  BY <1>1 DEF ReplyBasics, SessionsKnown
<1>8. from \in {"claimed", "asked"} => player[r].step = "none"
  BY <1>2 DEF ReplyBasics, NotYet
<1>9. CallsKnown'
  <2>1. \A q \in Replies : began'[q] <= voice.generation
    BY <1>3, <1>4 DEF ReplyBasics, CallsKnown
  <2>2. \A h \in Halts :
          /\ halt[h].generation <= voice.generation /\ halt[h].session <= session
          /\ halt[h].step \in {"detached", "halted"} /\ halt[h].queue # NoReply =>
                /\ began'[halt[h].queue] < halt[h].generation
                /\ player[halt[h].queue].step # "none"
    <3>1. \A h \in Halts : halt[h].queue \in Maybe
      BY DEF ReplyBasics, ReplyShapes, HaltCalls
    <3> QED
      BY <1>4, <1>8, <3>1 DEF ReplyBasics, CallsKnown, Maybe
  <2>3. voice.queue # NoReply =>
          began'[voice.queue] = voice.generation /\ player[voice.queue].step # "none"
    <3>1. voice.queue \in Maybe
      BY DEF ReplyBasics, ReplyShapes, Voices
    <3> QED
      BY <1>4, <1>8, <3>1 DEF ReplyBasics, CallsKnown, Maybe
  <2> QED
    BY <1>1, <2>1, <2>2, <2>3 DEF ReplyBasics, CallsKnown
<1>10. Counted'
  <2>1. voice'.generation = voice.generation
    BY <1>1
  <2> QED
    BY <1>1, <2>1, CountedKept DEF ReplyBasics
<1> QED
  BY <1>5, <1>6, <1>7, <1>9, <1>10 DEF ReplyBasics

\* The floor while one turn goes on.
LEMMA FloorKept ==
    ASSUME ReplyBasics, NEW r \in Replies, NEW from \in Busy, NEW to \in Busy, GoOn(r, from, to),
           manner' = manner, UNCHANGED <<calledOff, lastClaim>>
    PROVE  FloorTaken'
<1>1. /\ stage[r] = from /\ stage'[r] = to /\ to \notin {"claimed", "asked"}
      /\ \A q \in Replies : q # r => stage'[q] = stage[q]
  BY StageMoves DEF ReplyBasics, Busy, TurnSteps
<1>2. Typed' = Typed
  BY DEF Typed
<1> QED
  BY <1>1, <1>2 DEF ReplyBasics, FloorTaken

LEMMA StartTypedBasics ==
    ASSUME ReplyBasics, NEW r \in Replies, StartTyped(r)
    PROVE  ReplyBasics'
<1>1. PICK to \in {"ending", "thinking"} :
          /\ GoOn(r, "claimed", to)
          /\ card' = TurnCancelled(card) \/ card' = TurnStarted(card, r)
          /\ began' = began \/ began' = [began EXCEPT ![r] = voice.generation]
  BY DEF StartTyped
<1>2. /\ TurnLockFree
      /\ UNCHANGED <<manner, calledOff, lastClaim, soundPart, halt, silenced, overlooked>>
  BY DEF StartTyped, history
<1>3. card' \in Cards
  BY <1>1, TurnCancelledCard, TurnStartedCard DEF ReplyBasics, ReplyShapes
<1>4. to \in TurnSteps \ {"idle"} /\ to \notin {"claimed", "asked"}
  BY <1>1 DEF TurnSteps
<1>5. /\ stage[r] = "claimed" /\ stage'[r] = to
      /\ \A q \in Replies : q # r => stage'[q] = stage[q]
  BY <1>1, <1>4, StageMoves DEF ReplyBasics
<1>6. FloorTaken'
  BY <1>2, <1>4, <1>5 DEF ReplyBasics, FloorTaken, TurnLockFree, Typed
<1> QED
  BY <1>1, <1>2, <1>3, <1>4, <1>6, TurnKeepsBasics DEF ReplyBasics, ReplyShapes

LEMMA AskCheckInBasics ==
    ASSUME ReplyBasics, NEW r \in Replies, AskCheckIn(r)
    PROVE  ReplyBasics'
<1>1. /\ GoOn(r, "idle", "asked") /\ r \in manner.checkIns
      /\ UNCHANGED <<manner, calledOff, lastClaim, began, soundPart, halt, card, silenced, overlooked>>
  BY DEF AskCheckIn, history
<1>2. "asked" \in TurnSteps
  BY DEF TurnSteps
<1>3. /\ stage'[r] = "asked" /\ \A q \in Replies : q # r => stage'[q] = stage[q]
  BY <1>1, <1>2, StageMoves DEF ReplyBasics
<1>4. FloorTaken'
  BY <1>1, <1>3 DEF ReplyBasics, FloorTaken, Busy, Typed
<1> QED
  BY <1>1, <1>2, <1>4, TurnKeepsBasics DEF ReplyBasics, ReplyShapes

LEMMA StartCheckInBasics ==
    ASSUME ReplyBasics, NEW r \in Replies, StartCheckIn(r)
    PROVE  ReplyBasics'
<1>1. UNCHANGED <<manner, calledOff, soundPart, halt, card, silenced>>
  BY DEF StartCheckIn
<1>2. "thinking" \in TurnSteps /\ "done" \in TurnSteps
  BY DEF TurnSteps
<1>3. CASE TurnLockFree /\ lastClaim = NoReply
  <2>1. /\ GoOn(r, "asked", "thinking") /\ lastClaim' = r
        /\ began' = [began EXCEPT ![r] = voice.generation]
        /\ overlooked' = overlooked \cup Starting \cup ({voice.playing, voice.queue} \ {NoReply})
    BY <1>3 DEF StartCheckIn
  <2>2. overlooked' \subseteq Replies /\ lastClaim' \in Maybe
    BY <2>1 DEF ReplyBasics, ReplyShapes, Voices, Maybe, Starting
  <2>3. /\ stage'[r] = "thinking" /\ \A q \in Replies : q # r => stage'[q] = stage[q]
    BY <2>1, <1>2, StageMoves DEF ReplyBasics
  <2>4. FloorTaken'
    BY <1>1, <1>3, <2>1, <2>3, ReplyNumbers DEF ReplyBasics, FloorTaken, TurnLockFree, Typed
  <2> QED
    BY <1>1, <1>2, <2>1, <2>2, <2>4, TurnKeepsBasics DEF ReplyBasics, ReplyShapes
<1>4. CASE ~(TurnLockFree /\ lastClaim = NoReply)
  <2>1. GoOn(r, "asked", "done") /\ UNCHANGED <<lastClaim, began, overlooked>>
    BY <1>4 DEF StartCheckIn
  <2>2. /\ stage'[r] = "done" /\ \A q \in Replies : q # r => stage'[q] = stage[q]
    BY <2>1, <1>2, StageMoves DEF ReplyBasics
  <2>3. FloorTaken'
    BY <1>1, <2>1, <2>2 DEF ReplyBasics, FloorTaken, Busy, Typed
  <2> QED
    BY <1>1, <1>2, <2>1, <2>3, TurnKeepsBasics DEF ReplyBasics, ReplyShapes
<1> QED
  BY <1>3, <1>4

LEMMA StreamDeltaBasics ==
    ASSUME ReplyBasics, NEW r \in Replies, StreamDelta(r)
    PROVE  ReplyBasics'
<1>1. /\ card' \in Cards
      /\ UNCHANGED <<manner, stage, calledOff, lastClaim, began, voice, session, player, halt,
                     silenced, overlooked>>
  BY DeltaCard DEF StreamDelta, ReplyBasics, ReplyShapes, turnPart, soundPart, history
<1>2. Counted'
  <2>1. voice'.generation = voice.generation
    BY <1>1
  <2> QED
    BY <1>1, <2>1, CountedKept DEF ReplyBasics
<1>3. ReplyShapes'
  BY <1>1 DEF ReplyBasics, ReplyShapes
<1>4. FloorTaken' /\ \A q \in Replies : NotYet(q)'
  BY <1>1 DEF ReplyBasics, FloorTaken, NotYet, Typed
<1>5. SessionsKnown' /\ CallsKnown'
  BY <1>1 DEF ReplyBasics, SessionsKnown, CallsKnown
<1> QED
  BY <1>2, <1>3, <1>4, <1>5 DEF ReplyBasics

LEMMA PublishReplyBasics ==
    ASSUME ReplyBasics, NEW r \in Replies, PublishReply(r)
    PROVE  ReplyBasics'
<1>1. PICK to \in {"published", "ending"} :
          /\ GoOn(r, "thinking", to)
          /\ \/ card' = ResponseArrived(IF r \in Typed THEN card ELSE TurnStarted(card, r), r)
             \/ card' = TurnCancelled(card) \/ card' = card
  BY DEF PublishReply
<1>2. UNCHANGED <<manner, calledOff, lastClaim, began, soundPart, halt, silenced, overlooked>>
  BY DEF PublishReply, history
<1>3. card' \in Cards
  BY <1>1, TurnCancelledCard, TurnStartedCard, ResponseCard DEF ReplyBasics, ReplyShapes
<1>4. to \in TurnSteps \ {"idle"} /\ to \in Busy /\ "thinking" \in Busy
  BY <1>1 DEF TurnSteps, Busy
<1>5. FloorTaken'
  BY <1>1, <1>2, <1>4, FloorKept
<1> QED
  BY <1>1, <1>2, <1>3, <1>4, <1>5, TurnKeepsBasics DEF ReplyBasics, ReplyShapes

LEMMA DecideSpeechBasics ==
    ASSUME ReplyBasics, NEW r \in Replies, DecideSpeech(r)
    PROVE  ReplyBasics'
<1>1. PICK to \in {"dispatching", "ending"} :
          GoOn(r, "published", to) /\ (card' = NothingToHear(card, r) \/ card' = card)
  BY DEF DecideSpeech
<1>2. /\ UNCHANGED <<manner, calledOff, lastClaim, began, soundPart, halt, overlooked>>
      /\ silenced' \in {silenced, silenced \cup {r}}
  BY DEF DecideSpeech
<1>3. card' \in Cards
  BY <1>1, NothingCard DEF ReplyBasics, ReplyShapes, Maybe
<1>4. to \in TurnSteps \ {"idle"} /\ to \in Busy /\ "published" \in Busy
  BY <1>1 DEF TurnSteps, Busy
<1>5. FloorTaken'
  BY <1>1, <1>2, <1>4, FloorKept
<1>6. silenced' \subseteq Replies
  BY <1>2 DEF ReplyBasics, ReplyShapes
<1> QED
  BY <1>1, <1>2, <1>3, <1>4, <1>5, <1>6, TurnKeepsBasics DEF ReplyBasics, ReplyShapes

LEMMA ReportFailureBasics ==
    ASSUME ReplyBasics, NEW r \in Replies, ReportFailure(r)
    PROVE  ReplyBasics'
<1>1. /\ GoOn(r, "unspoken", "ending")
      /\ card' = NothingToHear(card, r) \/ card' = card
      /\ silenced' \in {silenced, silenced \cup {r}}
      /\ UNCHANGED <<manner, calledOff, lastClaim, began, soundPart, halt, overlooked>>
  BY DEF ReportFailure
<1>2. "ending" \in TurnSteps /\ "ending" \in Busy /\ "unspoken" \in Busy
  BY DEF TurnSteps, Busy
<1>3. card' \in Cards /\ silenced' \subseteq Replies
  BY <1>1, NothingCard DEF ReplyBasics, ReplyShapes, Maybe
<1>4. FloorTaken'
  BY <1>1, <1>2, FloorKept
<1> QED
  BY <1>1, <1>2, <1>3, <1>4, TurnKeepsBasics DEF ReplyBasics, ReplyShapes

LEMMA EndTurnBasics ==
    ASSUME ReplyBasics, NEW r \in Replies, EndTurn(r)
    PROVE  ReplyBasics'
<1>1. /\ GoOn(r, "ending", "done")
      /\ lastClaim' = IF lastClaim = r THEN NoReply ELSE lastClaim
      /\ UNCHANGED <<manner, calledOff, began, soundPart, halt, card, silenced, overlooked>>
  BY DEF EndTurn, history
<1>2. "done" \in TurnSteps /\ lastClaim' \in Maybe
  BY <1>1 DEF TurnSteps, Maybe, ReplyBasics, ReplyShapes
<1>3. /\ stage'[r] = "done" /\ \A q \in Replies : q # r => stage'[q] = stage[q]
  BY <1>1, <1>2, StageMoves DEF ReplyBasics
<1>4. FloorTaken'
  BY <1>1, <1>3 DEF ReplyBasics, FloorTaken, Busy, Typed
<1> QED
  BY <1>1, <1>2, <1>4, TurnKeepsBasics DEF ReplyBasics, ReplyShapes


\* A stop is asked for, or not.
LEMMA AskedHalts ==
    ASSUME ReplyBasics, NEW h \in Halts, halt[h].step = "idle",
           halt' = [halt EXCEPT ![h].step = "asked"] \/ halt' = halt
    PROVE  /\ halt' \in [Halts -> HaltCalls]
           /\ \A g \in Halts : g # h => halt'[g] = halt[g]
           /\ halt'[h].step \in {"idle", "asked"}
           /\ \A g \in Halts : /\ halt'[g].session = halt[g].session
                               /\ halt'[g].generation = halt[g].generation
                               /\ halt'[g].queue = halt[g].queue
                               /\ halt'[g].playing = halt[g].playing
                               /\ halt'[g].stream = halt[g].stream
<1>1. CASE halt' = halt
  BY <1>1 DEF ReplyBasics, ReplyShapes
<1>2. CASE halt' = [halt EXCEPT ![h].step = "asked"]
  <2>1. PICK call : call = [halt[h] EXCEPT !.step = "asked"]
    OBVIOUS
  <2>2. halt' = [halt EXCEPT ![h] = call]
    BY <1>2, <2>1
  <2>3. halt[h] \in HaltCalls
    BY DEF ReplyBasics, ReplyShapes
  <2>4. call \in HaltCalls
    BY <2>1, HaltTyped DEF ReplyBasics, HaltSteps, Maybe
  <2>5. /\ call.step = "asked" /\ call.session = halt[h].session
        /\ call.generation = halt[h].generation /\ call.queue = halt[h].queue
        /\ call.playing = halt[h].playing /\ call.stream = halt[h].stream
    BY <2>1, <2>3 DEF HaltCalls
  <2>6. /\ halt' \in [Halts -> HaltCalls] /\ halt'[h] = call
        /\ \A g \in Halts : g # h => halt'[g] = halt[g]
    BY <2>2, <2>4, HaltMoves DEF ReplyBasics
  <2> QED
    BY <2>5, <2>6
<1> QED
  BY <1>1, <1>2

LEMMA AskedKeepsBasics ==
    ASSUME ReplyBasics, NEW h \in Halts, halt[h].step = "idle",
           halt' = [halt EXCEPT ![h].step = "asked"] \/ halt' = halt,
           UNCHANGED <<manner, began, soundPart, card, silenced>>,
           stage' \in [Replies -> TurnSteps], FloorTaken', \A q \in Replies : NotYet(q)',
           calledOff' \subseteq Replies, lastClaim' \in Maybe, overlooked' \subseteq Replies
    PROVE  ReplyBasics'
<1>1. /\ halt' \in [Halts -> HaltCalls]
      /\ \A g \in Halts : g # h => halt'[g] = halt[g]
      /\ halt'[h].step \in {"idle", "asked"}
      /\ \A g \in Halts : /\ halt'[g].queue = halt[g].queue /\ halt'[g].stream = halt[g].stream
                          /\ halt'[g].generation = halt[g].generation
                          /\ halt'[g].session = halt[g].session
  BY AskedHalts
<1>2. /\ UNCHANGED <<manner, began, voice, session, player, card, silenced>>
      /\ voice'.generation = voice.generation
  BY DEF soundPart
<1>3. ReplyShapes'
  BY <1>1, <1>2 DEF ReplyBasics, ReplyShapes
<1>4. SessionsKnown'
  BY <1>2 DEF ReplyBasics, SessionsKnown
<1>5. CallsKnown'
  BY <1>1, <1>2 DEF ReplyBasics, CallsKnown
<1>6. Counted'
  BY <1>1, <1>2, CountedKept DEF ReplyBasics
<1> QED
  BY <1>3, <1>4, <1>5, <1>6 DEF ReplyBasics

LEMMA TakeFloorBasics ==
    ASSUME ReplyBasics, NEW r \in Replies, TakeFloor(r)
    PROVE  ReplyBasics'
<1>1. /\ r \in Typed /\ GoOn(r, "idle", "claimed") /\ Supersede /\ lastClaim' = r
      /\ halt' = [halt EXCEPT ![r].step = "asked"] \/ halt' = halt
      /\ overlooked' = overlooked \/ overlooked' = overlooked \cup Starting
      /\ UNCHANGED <<manner, began, soundPart, card, silenced>>
  BY DEF TakeFloor
<1>2. /\ stage' \in [Replies -> TurnSteps] /\ stage[r] = "idle" /\ stage'[r] = "claimed"
      /\ \A q \in Replies : q # r => stage'[q] = stage[q]
  BY <1>1, StageMoves DEF ReplyBasics, TurnSteps
<1>3. halt[r].step = "idle" /\ r \in Halts
  BY <1>2, ReplyNumbers DEF ReplyBasics, NotYet
<1>4. \A g \in Halts : g # r => halt'[g] = halt[g]
  BY <1>1, <1>3, AskedHalts
<1>5. calledOff' = calledOff \cup ({lastClaim} \ {NoReply})
  BY <1>1 DEF Supersede
<1>6. calledOff' \subseteq Replies /\ lastClaim' \in Maybe /\ overlooked' \subseteq Replies
  BY <1>1, <1>5 DEF ReplyBasics, ReplyShapes, Maybe, Starting
<1>7. FloorTaken'
  <2>1. Typed' = Typed
    BY <1>1 DEF Typed
  <2>2. \A q \in Replies : q \in calledOff \/ lastClaim = q => q \in calledOff'
    BY <1>5, ReplyNumbers
  <2> QED
    BY <1>1, <1>2, <2>1, <2>2 DEF ReplyBasics, FloorTaken, Busy
<1>8. \A q \in Replies : NotYet(q)'
  <2>1. player' = player
    BY <1>1 DEF soundPart
  <2> QED
    BY <1>2, <1>4, <2>1, ReplyNumbers DEF ReplyBasics, NotYet
<1> QED
  BY <1>1, <1>2, <1>3, <1>6, <1>7, <1>8, AskedKeepsBasics

LEMMA StopByHandBasics ==
    ASSUME ReplyBasics, NEW h \in Hands, StopByHand(h)
    PROVE  ReplyBasics'
<1>1. /\ halt[h].step = "idle" /\ halt' = [halt EXCEPT ![h].step = "asked"]
      /\ Supersede \/ UNCHANGED calledOff
      /\ UNCHANGED <<manner, stage, lastClaim, began, soundPart, card, silenced, overlooked>>
  BY DEF StopByHand, history
<1>2. h \in Halts /\ h \notin Replies
  BY ReplyNumbers DEF Hands, Replies
<1>3. \A g \in Halts : g # h => halt'[g] = halt[g]
  BY <1>1, <1>2, AskedHalts
<1>4. calledOff \subseteq calledOff' /\ calledOff' \subseteq Replies
  BY <1>1 DEF ReplyBasics, ReplyShapes, Supersede, Maybe
<1>5. FloorTaken'
  BY <1>1, <1>4 DEF ReplyBasics, FloorTaken, Typed
<1>6. \A q \in Replies : NotYet(q)'
  <2>1. player' = player
    BY <1>1 DEF soundPart
  <2> QED
    BY <1>1, <1>2, <1>3, <2>1, ReplyNumbers DEF ReplyBasics, NotYet
<1>7. stage' \in [Replies -> TurnSteps] /\ lastClaim' \in Maybe /\ overlooked' \subseteq Replies
  BY <1>1 DEF ReplyBasics, ReplyShapes
<1> QED
  BY <1>1, <1>2, <1>4, <1>5, <1>6, <1>7, AskedKeepsBasics

-----------------------------------------------------------------------------
\* The reply goes to the voice.
LEMMA DispatchSpeechBasics ==
    ASSUME ReplyBasics, NEW r \in Replies, DispatchSpeech(r)
    PROVE  ReplyBasics'
<1>1. UNCHANGED <<manner, calledOff, lastClaim, began, halt, card, overlooked>>
  BY DEF DispatchSpeech
<1>2. {"dispatching", "ending", "unspoken"} \subseteq TurnSteps \cap Busy
  BY DEF TurnSteps, Busy
<1>3. /\ GoOn(r, "dispatching", "ending") \/ GoOn(r, "dispatching", "unspoken")
      /\ stage[r] = "dispatching"
  BY DEF DispatchSpeech
<1>4. FloorTaken'
  BY <1>1, <1>2, <1>3, FloorKept
<1>5. /\ stage' \in [Replies -> TurnSteps]
      /\ \A q \in Replies : q # r => stage'[q] = stage[q]
      /\ stage'[r] \in {"ending", "unspoken"}
  BY <1>2, <1>3, StageMoves DEF ReplyBasics
<1>6. player[r].step = "none" /\ player[r].token = 0
  BY <1>3 DEF ReplyBasics, NotYet
<1>7. CASE UNCHANGED soundPart
  <2>1. silenced' \subseteq Replies /\ card' \in Cards /\ overlooked' \subseteq Replies
    BY <1>1 DEF DispatchSpeech, history, ReplyBasics, ReplyShapes
  <2> QED
    BY <1>1, <1>2, <1>3, <1>4, <1>7, <2>1, TurnKeepsBasics DEF ReplyBasics, ReplyShapes
<1>8. CASE /\ MaySpeak(r) /\ manner.responsive /\ GoOn(r, "dispatching", "ending")
           /\ voice' = [voice EXCEPT !.queue = r, !.pending = r]
           /\ player' = [player EXCEPT ![r].step = "opening"]
           /\ UNCHANGED <<session, history>>
  <2>1. /\ player' \in [Replies -> Players]
        /\ player'[r].step = "opening" /\ player'[r].token = 0
        /\ \A q \in Replies : q # r => player'[q] = player[q]
    BY <1>6, <1>8, PlayerHandlers DEF Playing, PlayerStages, ReplyBasics
  <2>2. /\ voice' \in Voices /\ voice'.generation = voice.generation
        /\ voice'.queue = r /\ voice'.pending = r
    BY <1>8 DEF ReplyBasics, ReplyShapes, Voices, Maybe
  <2>3. stage'[r] = "ending"
    BY <1>2, <1>8, StageMoves DEF ReplyBasics
  <2>4. ReplyShapes'
    BY <1>1, <1>5, <1>8, <2>1, <2>2 DEF ReplyBasics, ReplyShapes, history
  <2>5. \A q \in Replies : NotYet(q)'
    BY <1>1, <1>5, <2>1, <2>3 DEF ReplyBasics, NotYet
  <2>6. SessionsKnown'
    BY <1>1, <1>6, <1>8, <2>1 DEF ReplyBasics, SessionsKnown
  <2>7. CallsKnown'
    <3>1. \A q \in Replies : player[q].step # "none" => player'[q].step # "none"
      BY <1>6, <2>1
    <3>2. \A h \in Halts : halt[h].queue \in Maybe
      BY DEF ReplyBasics, ReplyShapes, HaltCalls
    <3>3. began[r] = voice.generation
      BY <1>8 DEF MaySpeak
    <3> QED
      BY <1>1, <1>8, <2>1, <2>2, <3>1, <3>2, <3>3 DEF ReplyBasics, CallsKnown, Maybe
  <2>8. Counted'
    BY <1>1, <1>6, <1>8, <2>1, <2>2, CountedKept DEF ReplyBasics
  <2> QED
    BY <1>4, <2>4, <2>5, <2>6, <2>7, <2>8 DEF ReplyBasics
<1>9. CASE /\ MaySpeak(r) /\ ~manner.responsive /\ GoOn(r, "dispatching", "ending")
           /\ session' = session + 1
           /\ player' = [player EXCEPT ![r] = [step |-> "opening", token |-> session + 1]]
           /\ UNCHANGED <<voice, history>>
  <2>0. session \in Nat /\ session + 1 \in Nat
    BY DEF ReplyBasics, ReplyShapes
  <2>1. /\ player' \in [Replies -> Players]
        /\ player'[r].step = "opening" /\ player'[r].token = session + 1
        /\ \A q \in Replies : q # r => player'[q] = player[q]
    BY <1>9, <2>0, PlayerMoves, "opening" \in PlayerStages DEF PlayerStages, ReplyBasics
  <2>3. stage'[r] = "ending"
    BY <1>2, <1>9, StageMoves DEF ReplyBasics
  <2>4. ReplyShapes'
    BY <1>1, <1>5, <1>9, <2>0, <2>1 DEF ReplyBasics, ReplyShapes, history
  <2>5. \A q \in Replies : NotYet(q)'
    BY <1>1, <1>5, <2>1, <2>3 DEF ReplyBasics, NotYet
  <2>9. \A q \in Replies : player[q].token \in Nat
    BY DEF ReplyBasics, ReplyShapes, Players
  <2>6. SessionsKnown'
    BY <1>1, <1>9, <2>0, <2>1, <2>9 DEF ReplyBasics, SessionsKnown
  <2>7. CallsKnown'
    <3>1. \A q \in Replies : player[q].step # "none" => player'[q].step # "none"
      BY <1>6, <2>1
    <3>2. \A h \in Halts : halt[h].queue \in Maybe /\ halt[h].session \in Nat
      BY DEF ReplyBasics, ReplyShapes, HaltCalls
    <3>3. voice.queue \in Maybe
      BY DEF ReplyBasics, ReplyShapes, Voices
    <3>4. \A h \in Halts : halt[h].session <= session => halt[h].session <= session'
      BY <1>9, <2>0, <3>2
    <3> QED
      BY <1>1, <1>9, <3>1, <3>2, <3>3, <3>4 DEF ReplyBasics, CallsKnown, Maybe
  <2>8. Counted'
    <3>1. Detached' = Detached /\ Halting' = Halting
      BY <1>1 DEF Detached, Halting
    <3>2. WithSession \subseteq WithSession' /\ r \in WithSession' /\ r \notin WithSession
      BY <1>6, <2>0, <2>1 DEF WithSession
    <3>3. IsFiniteSet(WithSession') /\ IsFiniteSet(Halting)
      BY FiniteCounts, FS_Subset DEF WithSession, Halting
    <3>4. /\ Cardinality(WithSession) + 1 <= Cardinality(WithSession')
          /\ Cardinality(WithSession) \in Nat /\ Cardinality(WithSession') \in Nat
      BY <3>2, <3>3, CountsGrow
    <3>5. Cardinality(Halting) \in Nat
      BY <3>3, FS_CardinalityType
    <3> QED
      BY <1>9, <2>0, <3>1, <3>4, <3>5 DEF ReplyBasics, Counted
  <2> QED
    BY <1>4, <2>4, <2>5, <2>6, <2>7, <2>8 DEF ReplyBasics
<1> QED
  BY <1>7, <1>8, <1>9 DEF DispatchSpeech


-----------------------------------------------------------------------------
\* The player goes on, in the session it has.
LEMMA PlayerKeepsBasics ==
    ASSUME ReplyBasics, NEW r \in Replies, NEW step \in {"announcing", "playing", "over"},
           Playing(r, step), player[r].step # "none",
           step # "over" => player[r].token # 0, session' = session,
           UNCHANGED <<manner, turnPart, halt>>,
           voice' \in Voices, voice'.generation = voice.generation,
           voice'.queue \in {NoReply, voice.queue}, voice'.pending \in {NoReply, voice'.queue},
           silenced' \subseteq Replies, overlooked' \subseteq Replies, card' \in Cards
    PROVE  ReplyBasics'
<1>1. /\ player' \in [Replies -> Players]
      /\ player'[r].step = step /\ player'[r].token = player[r].token
      /\ \A q \in Replies : q # r => player'[q] = player[q]
  BY PlayerHandlers DEF PlayerStages, ReplyBasics
<1>2. UNCHANGED <<manner, stage, calledOff, lastClaim, began, halt>>
  BY DEF turnPart
<1>3. ReplyShapes'
  BY <1>1, <1>2 DEF ReplyBasics, ReplyShapes
<1>4. FloorTaken'
  BY <1>2 DEF ReplyBasics, FloorTaken, Typed
<1>5. \A q \in Replies : NotYet(q)'
  BY <1>1, <1>2 DEF ReplyBasics, NotYet
<1>6. SessionsKnown'
  BY <1>1, <1>2 DEF ReplyBasics, SessionsKnown
<1>7. CallsKnown'
  <2>1. \A q \in Replies : player[q].step # "none" => player'[q].step # "none"
    BY <1>1
  <2>2. \A h \in Halts : halt[h].queue \in Maybe
    BY DEF ReplyBasics, ReplyShapes, HaltCalls
  <2>3. voice.queue \in Maybe
    BY DEF ReplyBasics, ReplyShapes, Voices
  <2> QED
    BY <1>2, <2>1, <2>2, <2>3 DEF ReplyBasics, CallsKnown, Maybe
<1>8. Counted'
  BY <1>1, <1>2, CountedKept DEF ReplyBasics
<1> QED
  BY <1>3, <1>4, <1>5, <1>6, <1>7, <1>8 DEF ReplyBasics

\* What the service refers to, with less of it or another playback.
LEMMA VoiceUpdates ==
    ASSUME voice \in Voices, NEW p \in Maybe
    PROVE  /\ [voice EXCEPT !.playing = p] \in Voices
           /\ [voice EXCEPT !.playing = p].generation = voice.generation
           /\ [voice EXCEPT !.playing = p].queue = voice.queue
           /\ [voice EXCEPT !.playing = p].pending = voice.pending
           /\ [voice EXCEPT !.playing = p].playing = p
           /\ [voice EXCEPT !.pending = NoReply, !.playing = p] \in Voices
           /\ [voice EXCEPT !.pending = NoReply, !.playing = p].generation = voice.generation
           /\ [voice EXCEPT !.pending = NoReply, !.playing = p].queue = voice.queue
           /\ [voice EXCEPT !.pending = NoReply, !.playing = p].pending = NoReply
           /\ [voice EXCEPT !.pending = NoReply, !.playing = p].playing = p
           /\ [voice EXCEPT !.queue = NoReply, !.pending = NoReply] \in Voices
           /\ [voice EXCEPT !.queue = NoReply, !.pending = NoReply].generation = voice.generation
           /\ [voice EXCEPT !.queue = NoReply, !.pending = NoReply].queue = NoReply
           /\ [voice EXCEPT !.queue = NoReply, !.pending = NoReply].pending = NoReply
           /\ [voice EXCEPT !.queue = NoReply, !.pending = NoReply].playing = voice.playing
<1>1. NoReply \in Maybe
  BY DEF Maybe
<1> QED
  BY <1>1 DEF Voices

LEMMA OpenDeviceBasics ==
    ASSUME ReplyBasics, NEW r \in Replies, OpenDevice(r)
    PROVE  ReplyBasics'
<1>1. /\ player[r].step = "opening" /\ UNCHANGED <<manner, turnPart, halt, overlooked>>
      /\ voice' = voice
  BY DEF OpenDevice, history
<1>2. UNCHANGED <<manner, stage, calledOff, lastClaim, began, halt, overlooked>>
  BY <1>1 DEF turnPart
<1>3. NoReply \in Maybe /\ card \in Cards /\ voice \in Voices /\ session \in Nat
      /\ session + 1 \in Nat
  BY DEF Maybe, ReplyBasics, ReplyShapes
<1>4. /\ voice' \in Voices /\ voice'.generation = voice.generation
      /\ voice'.queue \in {NoReply, voice.queue} /\ voice'.pending \in {NoReply, voice'.queue}
  BY <1>1, <1>3 DEF ReplyBasics, CallsKnown
<1>5. CASE /\ manner.responsive /\ session' = session + 1
           /\ player' = [player EXCEPT ![r] = [step |-> "announcing", token |-> session + 1]]
           /\ UNCHANGED <<voice, card, history>>
  <2>1. /\ player' \in [Replies -> Players]
        /\ player'[r].step = "announcing" /\ player'[r].token = session + 1
        /\ \A q \in Replies : q # r => player'[q] = player[q]
    BY <1>5, <1>3, PlayerMoves, "announcing" \in PlayerStages DEF PlayerStages, ReplyBasics
  <2>2. /\ player[r].token = 0
        /\ \A q \in Replies : player[q].token \in Nat /\ player[q].token <= session
    BY <1>1, <1>5 DEF ReplyBasics, ReplyShapes, Players, SessionsKnown
  <2>3. ReplyShapes'
    BY <1>2, <1>3, <1>5, <2>1 DEF ReplyBasics, ReplyShapes, history
  <2>4. FloorTaken'
    BY <1>2 DEF ReplyBasics, FloorTaken, Typed
  <2>5. \A q \in Replies : NotYet(q)'
    BY <1>1, <1>2, <2>1 DEF ReplyBasics, NotYet
  <2>6. SessionsKnown'
    BY <1>2, <1>3, <1>5, <2>1, <2>2 DEF ReplyBasics, SessionsKnown
  <2>7. CallsKnown'
    <3>1. \A q \in Replies : player[q].step # "none" => player'[q].step # "none"
      BY <2>1
    <3>2. \A h \in Halts : halt[h].queue \in Maybe /\ halt[h].session \in Nat
      BY DEF ReplyBasics, ReplyShapes, HaltCalls
    <3>3. voice.queue \in Maybe
      BY DEF ReplyBasics, ReplyShapes, Voices
    <3>4. \A h \in Halts : halt[h].session <= session => halt[h].session <= session'
      BY <1>3, <1>5, <3>2
    <3> QED
      BY <1>2, <1>5, <3>1, <3>2, <3>3, <3>4 DEF ReplyBasics, CallsKnown, Maybe
  <2>8. Counted'
    <3>1. Detached' = Detached /\ Halting' = Halting
      BY <1>2 DEF Detached, Halting
    <3>2. WithSession \subseteq WithSession' /\ r \in WithSession' /\ r \notin WithSession
      BY <1>3, <2>1, <2>2 DEF WithSession
    <3>3. IsFiniteSet(WithSession') /\ IsFiniteSet(Halting)
      BY FiniteCounts, FS_Subset DEF WithSession, Halting
    <3>4. /\ Cardinality(WithSession) + 1 <= Cardinality(WithSession')
          /\ Cardinality(WithSession) \in Nat /\ Cardinality(WithSession') \in Nat
      BY <3>2, <3>3, CountsGrow
    <3>5. Cardinality(Halting) \in Nat
      BY <3>3, FS_CardinalityType
    <3> QED
      BY <1>1, <1>3, <1>5, <3>1, <3>4, <3>5 DEF ReplyBasics, Counted
  <2> QED
    BY <2>3, <2>4, <2>5, <2>6, <2>7, <2>8 DEF ReplyBasics
<1>6. CASE /\ Playing(r, "over") /\ session' = session
           /\ card' \in {card, CommittedEnded(card, r, NoReply)}
           /\ silenced' \in {silenced, silenced \cup {r}}
  <2>1. card' \in Cards
    BY <1>3, <1>6, CommittedEndedCard
  <2>2. silenced' \subseteq Replies /\ overlooked' \subseteq Replies
    BY <1>2, <1>6 DEF ReplyBasics, ReplyShapes
  <2> QED
    BY <1>1, <1>4, <1>6, <2>1, <2>2, PlayerKeepsBasics
<1>7. CASE /\ ~manner.responsive /\ Playing(r, "announcing")
           /\ UNCHANGED <<voice, session, card, history>>
  <2>1. silenced' \subseteq Replies /\ overlooked' \subseteq Replies /\ card' \in Cards
    BY <1>2, <1>3, <1>7 DEF ReplyBasics, ReplyShapes, history
  <2>2. player[r].token # 0
    BY <1>1, <1>7 DEF ReplyBasics, SessionsKnown
  <2> QED
    BY <1>1, <1>4, <1>7, <2>1, <2>2, PlayerKeepsBasics
<1> QED
  BY <1>5, <1>6, <1>7 DEF OpenDevice, history

LEMMA AnnounceStartBasics ==
    ASSUME ReplyBasics, NEW r \in Replies, AnnounceStart(r)
    PROVE  ReplyBasics'
<1>1. /\ player[r].step = "announcing" /\ player[r].token # 0
      /\ UNCHANGED <<manner, turnPart, session, halt, silenced>>
  BY DEF AnnounceStart, ReplyBasics, SessionsKnown
<1>2. r \in Maybe /\ NoReply \in Maybe /\ card \in Cards /\ voice \in Voices
  BY DEF Maybe, ReplyBasics, ReplyShapes
<1>3. voice.pending \in {NoReply, voice.queue}
  BY DEF ReplyBasics, CallsKnown
<1>4. /\ voice' \in Voices /\ voice'.generation = voice.generation
      /\ voice'.queue \in {NoReply, voice.queue} /\ voice'.pending \in {NoReply, voice'.queue}
  <2>1. \/ voice' = [voice EXCEPT !.pending = NoReply, !.playing = r]
        \/ voice' = [voice EXCEPT !.playing = r] \/ voice' = voice
    BY DEF AnnounceStart
  <2> QED
    BY <1>2, <1>3, <2>1, VoiceUpdates
<1>5. card' \in Cards /\ silenced' \subseteq Replies /\ overlooked' \subseteq Replies
  <2>1. card' \in {card, CommittedStarted(card, r), PlaybackStarted(card, r)}
    BY DEF AnnounceStart
  <2>2. overlooked' \in {overlooked, overlooked \cup {r}}
    BY DEF AnnounceStart
  <2> QED
    BY <1>1, <1>2, <2>1, <2>2, CommittedStartedCard, StartedCard DEF ReplyBasics, ReplyShapes
<1>6. PICK step \in {"playing", "over"} : Playing(r, step)
  BY DEF AnnounceStart
<1> QED
  BY <1>1, <1>4, <1>5, <1>6, PlayerKeepsBasics

LEMMA EndSpeechBasics ==
    ASSUME ReplyBasics, NEW r \in Replies, EndSpeech(r)
    PROVE  ReplyBasics'
<1>1. /\ player[r].step = "playing" /\ Playing(r, "over")
      /\ UNCHANGED <<manner, turnPart, session, halt, silenced, overlooked>>
  BY DEF EndSpeech, history
<1>2. r \in Maybe /\ NoReply \in Maybe /\ card \in Cards /\ voice \in Voices
  BY DEF Maybe, ReplyBasics, ReplyShapes
<1>3. voice.pending \in {NoReply, voice.queue}
  BY DEF ReplyBasics, CallsKnown
<1>4. /\ voice' \in Voices /\ voice'.generation = voice.generation
      /\ voice'.queue \in {NoReply, voice.queue} /\ voice'.pending \in {NoReply, voice'.queue}
  <2>1. voice' = [voice EXCEPT !.playing = NoReply] \/ voice' = voice
    BY DEF EndSpeech
  <2> QED
    BY <1>2, <1>3, <2>1, VoiceUpdates
<1>5. card' \in Cards
  <2>1. card' \in {card, CommittedEnded(card, r, r), PlaybackStopped(card, r, r)}
    BY DEF EndSpeech
  <2> QED
    BY <1>2, <2>1, CommittedEndedCard, StoppedCard
<1> QED
  BY <1>1, <1>4, <1>5, PlayerKeepsBasics DEF ReplyBasics, ReplyShapes

LEMMA BreakSpeechBasics ==
    ASSUME ReplyBasics, NEW r \in Replies, BreakSpeech(r)
    PROVE  ReplyBasics'
<1>1. /\ player[r].step = "playing" /\ Playing(r, "over")
      /\ UNCHANGED <<manner, turnPart, session, halt, overlooked>>
      /\ silenced' \in {silenced, silenced \cup {r}}
  BY DEF BreakSpeech
<1>2. r \in Maybe /\ NoReply \in Maybe /\ card \in Cards /\ voice \in Voices
  BY DEF Maybe, ReplyBasics, ReplyShapes
<1>3. voice.pending \in {NoReply, voice.queue} /\ voice.playing \in Maybe
  BY <1>2 DEF ReplyBasics, CallsKnown, Voices
<1>4. /\ voice' \in Voices /\ voice'.generation = voice.generation
      /\ voice'.queue \in {NoReply, voice.queue} /\ voice'.pending \in {NoReply, voice'.queue}
  <2>1. PICK p \in Maybe : voice' = [voice EXCEPT !.playing = p] \/ voice' = voice
    BY <1>2, <1>3 DEF BreakSpeech
  <2>2. CASE voice' = [voice EXCEPT !.playing = p]
    BY <1>2, <1>3, <2>2, VoiceUpdates
  <2>3. CASE voice' = voice
    BY <1>2, <1>3, <2>3
  <2> QED
    BY <2>1, <2>2, <2>3
<1>5. card' \in Cards
  <2>1. card' \in {card, CommittedEnded(card, r, r)}
    BY DEF BreakSpeech
  <2> QED
    BY <1>2, <2>1, CommittedEndedCard
<1>6. silenced' \subseteq Replies
  BY <1>1 DEF ReplyBasics, ReplyShapes
<1> QED
  BY <1>1, <1>4, <1>5, <1>6, PlayerKeepsBasics DEF ReplyBasics, ReplyShapes

LEMMA DropRetiredBasics ==
    ASSUME ReplyBasics, NEW r \in Replies, DropRetired(r)
    PROVE  ReplyBasics'
<1>1. /\ player[r].step = "playing" /\ Playing(r, "over")
      /\ UNCHANGED <<manner, turnPart, voice, session, halt, card, silenced, overlooked>>
  BY DEF DropRetired, history
<1>2. /\ voice' \in Voices /\ voice'.generation = voice.generation
      /\ voice'.queue \in {NoReply, voice.queue} /\ voice'.pending \in {NoReply, voice'.queue}
  BY <1>1 DEF ReplyBasics, ReplyShapes, CallsKnown
<1> QED
  BY <1>1, <1>2, PlayerKeepsBasics DEF ReplyBasics, ReplyShapes

LEMMA CompleteQueueBasics ==
    ASSUME ReplyBasics, NEW r \in Replies, CompleteQueue(r)
    PROVE  ReplyBasics'
<1>1. /\ voice' = [voice EXCEPT !.queue = NoReply, !.pending = NoReply]
      /\ silenced' \in {silenced, silenced \cup {r}}
      /\ UNCHANGED <<manner, turnPart, session, player, halt, card, overlooked>>
  BY DEF CompleteQueue
<1>2. UNCHANGED <<manner, stage, calledOff, lastClaim, began, session, player, halt, card, overlooked>>
  BY <1>1 DEF turnPart
<1>3. /\ voice' \in Voices /\ voice'.generation = voice.generation
      /\ voice'.queue = NoReply /\ voice'.pending = NoReply
  BY <1>1, VoiceUpdates DEF ReplyBasics, ReplyShapes, Maybe
<1>4. ReplyShapes'
  BY <1>1, <1>2, <1>3 DEF ReplyBasics, ReplyShapes
<1>5. FloorTaken'
  BY <1>2 DEF ReplyBasics, FloorTaken, Typed
<1>6. (\A q \in Replies : NotYet(q)') /\ SessionsKnown'
  BY <1>2 DEF ReplyBasics, NotYet, SessionsKnown
<1>7. CallsKnown'
  BY <1>2, <1>3 DEF ReplyBasics, CallsKnown
<1>8. Counted'
  BY <1>2, <1>3, CountedKept DEF ReplyBasics
<1> QED
  BY <1>4, <1>5, <1>6, <1>7, <1>8 DEF ReplyBasics


-----------------------------------------------------------------------------
\* The stops.
LEMMA DetachSpeechBasics ==
    ASSUME ReplyBasics, NEW h \in Halts, DetachSpeech(h)
    PROVE  ReplyBasics'
<1>1. PICK call : call = [step |-> "detached", generation |-> voice.generation + 1,
                          session |-> session, queue |-> voice.queue, playing |-> voice.playing,
                          stream |-> StreamInForce, id |-> NoReply]
  OBVIOUS
<1>2. /\ halt[h].step = "asked" /\ halt' = [halt EXCEPT ![h] = call]
      /\ voice' = [generation |-> voice.generation + 1, queue |-> NoReply,
                   pending |-> NoReply, playing |-> NoReply]
      /\ UNCHANGED <<manner, turnPart, session, player, card, silenced, overlooked>>
  BY <1>1 DEF DetachSpeech, history
<1>3. UNCHANGED <<manner, stage, calledOff, lastClaim, began, session, player, card, silenced, overlooked>>
  BY <1>2 DEF turnPart
<1>4. /\ voice.generation \in Nat /\ voice.queue \in Maybe /\ voice.playing \in Maybe
      /\ voice.pending \in Maybe /\ session \in Nat /\ NoReply \in Maybe
      /\ voice.generation + 1 \in Nat /\ "detached" \in HaltSteps
  BY DEF ReplyBasics, ReplyShapes, Voices, Maybe, HaltSteps
<1>5. StreamInForce \in Maybe /\ (~manner.responsive => StreamInForce = NoReply)
  BY <1>4 DEF StreamInForce
<1>6. call \in HaltCalls
  BY <1>1, <1>4, <1>5 DEF HaltCalls
<1>7. /\ call.step = "detached" /\ call.generation = voice.generation + 1
      /\ call.session = session /\ call.queue = voice.queue /\ call.stream = StreamInForce
  BY <1>1
<1>8. /\ halt' \in [Halts -> HaltCalls] /\ halt'[h] = call
      /\ \A g \in Halts : g # h => halt'[g] = halt[g]
  BY <1>2, <1>6, HaltMoves DEF ReplyBasics
<1>9. /\ voice' \in Voices /\ voice'.generation = voice.generation + 1
      /\ voice'.queue = NoReply /\ voice'.pending = NoReply
  BY <1>2, <1>4 DEF Voices
<1>10. ReplyShapes'
  BY <1>3, <1>8, <1>9 DEF ReplyBasics, ReplyShapes
<1>11. FloorTaken' /\ SessionsKnown'
  BY <1>3 DEF ReplyBasics, FloorTaken, SessionsKnown, Typed
<1>12. \A q \in Replies : NotYet(q)'
  BY <1>2, <1>3, <1>8, ReplyNumbers DEF ReplyBasics, NotYet
<1>13. CallsKnown'
  <2>1. \A r \in Replies : began[r] <= voice.generation + 1
    <3>1. \A r \in Replies : began[r] \in Nat
      BY DEF ReplyBasics, ReplyShapes
    <3> QED
      BY <1>4, <3>1 DEF ReplyBasics, CallsKnown
  <2>2. \A g \in Halts : halt[g].generation <= voice.generation + 1
    <3>1. \A g \in Halts : halt[g].generation \in Nat
      BY DEF ReplyBasics, ReplyShapes, HaltCalls
    <3> QED
      BY <1>4, <3>1 DEF ReplyBasics, CallsKnown
  <2>3. voice.queue # NoReply =>
          /\ began[voice.queue] < voice.generation + 1
          /\ player[voice.queue].step # "none"
    BY <1>4 DEF ReplyBasics, CallsKnown
  <2>4. ~manner.responsive => voice.queue = NoReply
    BY DEF ReplyBasics, CallsKnown
  <2>5. ASSUME NEW g \in Halts
        PROVE  /\ halt'[g].generation <= voice.generation + 1 /\ halt'[g].session <= session
               /\ halt'[g].step \in {"detached", "halted"} /\ halt'[g].queue # NoReply =>
                     /\ began[halt'[g].queue] < halt'[g].generation
                     /\ player[halt'[g].queue].step # "none"
    <3>1. CASE g # h
      BY <1>8, <2>2, <3>1 DEF ReplyBasics, CallsKnown
    <3>2. CASE g = h
      BY <1>4, <1>7, <1>8, <2>3, <3>2
    <3> QED
      BY <3>1, <3>2
  <2>6. ~manner.responsive => \A g \in Halts : halt'[g].stream = NoReply /\ halt'[g].queue = NoReply
    BY <1>5, <1>7, <1>8, <2>4 DEF ReplyBasics, CallsKnown
  <2> QED
    BY <1>3, <1>9, <2>1, <2>5, <2>6 DEF CallsKnown
<1>14. Counted'
  <2>1. WithSession' = WithSession
    BY <1>3 DEF WithSession
  <2>2. Halting \subseteq Halting' /\ Detached \subseteq Detached' /\ h \in Detached' /\ h \notin Detached
    BY <1>2, <1>7, <1>8 DEF Halting, Detached
  <2>3. IsFiniteSet(Halting') /\ IsFiniteSet(Detached') /\ IsFiniteSet(WithSession)
    BY FiniteCounts, FS_Subset DEF Halting, Detached, WithSession
  <2>4. /\ Cardinality(Detached) + 1 <= Cardinality(Detached')
        /\ Cardinality(Detached) \in Nat /\ Cardinality(Detached') \in Nat
        /\ Cardinality(Halting) <= Cardinality(Halting')
        /\ Cardinality(Halting) \in Nat /\ Cardinality(Halting') \in Nat
    BY <2>2, <2>3, CountsGrow
  <2>5. Cardinality(WithSession) \in Nat
    BY <2>3, FS_CardinalityType
  <2>6. /\ voice.generation <= Cardinality(Detached)
        /\ session <= Cardinality(WithSession) + Cardinality(Halting)
    BY DEF ReplyBasics, Counted
  <2>7. voice.generation + 1 <= Cardinality(Detached')
    BY <1>4, <2>4, <2>6
  <2>8. session <= Cardinality(WithSession) + Cardinality(Halting')
    BY <1>4, <2>4, <2>5, <2>6
  <2> QED
    BY <1>3, <1>9, <2>1, <2>7, <2>8 DEF Counted
<1> QED
  BY <1>10, <1>11, <1>12, <1>13, <1>14 DEF ReplyBasics

\* A stop goes on with what it took along, or is over.
LEMMA HaltKeepsBasics ==
    ASSUME ReplyBasics, NEW h \in Halts, NEW call \in HaltCalls,
           halt' = [halt EXCEPT ![h] = call], halt[h].step \in {"detached", "halted"},
           call.step \in {"halted", "done"}, halt[h].step = "halted" => session' = session,
           call.step = "halted" => call.generation = halt[h].generation,
           call.stream \in {NoReply, halt[h].stream}, call.queue \in {NoReply, halt[h].queue},
           \/ call.generation = halt[h].generation /\ call.session = halt[h].session
           \/ call.generation = 0 /\ call.session = 0,
           UNCHANGED <<manner, turnPart, voice, overlooked>>,
           session' \in {session, session + 1}, card' \in Cards, silenced' \subseteq Replies,
           player' \in [Replies -> Players],
           \A q \in Replies :
              /\ player'[q].token = player[q].token
              /\ player'[q].step = player[q].step
                    \/ (player[q].step = "opening" /\ player'[q].step = "over")
    PROVE  ReplyBasics'
<1>1. UNCHANGED <<manner, stage, calledOff, lastClaim, began, voice, overlooked>>
  BY DEF turnPart
<1>2. /\ halt' \in [Halts -> HaltCalls] /\ halt'[h] = call
      /\ \A g \in Halts : g # h => halt'[g] = halt[g]
  BY HaltMoves DEF ReplyBasics
<1>3. session \in Nat /\ session' \in Nat /\ session <= session' /\ voice.generation \in Nat
  BY DEF ReplyBasics, ReplyShapes, Voices
<1>4. ReplyShapes'
  BY <1>1, <1>2, <1>3 DEF ReplyBasics, ReplyShapes
<1>5. FloorTaken'
  BY <1>1 DEF ReplyBasics, FloorTaken, Typed
<1>6. \A q \in Replies : NotYet(q)'
  <2>1. \A q \in Replies : player[q].step = "none" => player'[q] = player[q]
    <3>1. \A q \in Replies : player'[q] \in Players /\ player[q] \in Players
      BY DEF ReplyBasics, ReplyShapes
    <3> QED
      BY <3>1 DEF Players
  <2>2. ASSUME NEW q \in Replies
        PROVE  NotYet(q)'
    <3>1. stage[q] = "idle" => halt[q].step = "idle" /\ q # h
      BY DEF ReplyBasics, NotYet
    <3>2. stage[q] \notin {"ending", "done"} => player'[q] = [step |-> "none", token |-> 0]
      BY <2>1 DEF ReplyBasics, NotYet
    <3> QED
      BY <1>1, <1>2, <3>1, <3>2, ReplyNumbers DEF NotYet
  <2> QED
    BY <2>2
<1>7. SessionsKnown'
  <2>1. \A q \in Replies : player[q].token \in Nat
    BY DEF ReplyBasics, ReplyShapes, Players
  <2>2. \A q \in Replies : player[q].token <= session => player[q].token <= session'
    BY <1>3, <2>1
  <2> QED
    BY <1>1, <2>2 DEF ReplyBasics, SessionsKnown
<1>8. CallsKnown'
  <2>1. \A g \in Halts : halt[g].session \in Nat /\ halt[g].queue \in Maybe
    BY DEF ReplyBasics, ReplyShapes, HaltCalls
  <2>2. \A g \in Halts : halt[g].session <= session => halt[g].session <= session'
    BY <1>3, <2>1
  <2>3. voice.queue \in Maybe
    BY DEF ReplyBasics, ReplyShapes, Voices
  <2>4. \A q \in Replies : player[q].step # "none" => player'[q].step # "none"
    OBVIOUS
  <2>5. ASSUME NEW g \in Halts
        PROVE  /\ halt'[g].generation <= voice.generation /\ halt'[g].session <= session'
               /\ halt'[g].step \in {"detached", "halted"} /\ halt'[g].queue # NoReply =>
                     /\ began[halt'[g].queue] < halt'[g].generation
                     /\ player'[halt'[g].queue].step # "none"
    <3>1. CASE g # h
      <4>1. halt'[g] = halt[g]
        BY <1>2, <3>1
      <4> QED
        BY <2>1, <2>2, <2>4, <4>1 DEF ReplyBasics, CallsKnown, Maybe
    <3>2. CASE g = h
      <4>1. halt'[g].generation <= voice.generation /\ halt'[g].session <= session'
        <5>1. \/ halt'[g].generation = halt[g].generation /\ halt'[g].session = halt[g].session
              \/ halt'[g].generation = 0 /\ halt'[g].session = 0
          BY <1>2, <3>2
        <5> QED
          BY <1>3, <2>2, <5>1 DEF ReplyBasics, CallsKnown
      <4>2. CASE halt'[g].step = "halted" /\ halt'[g].queue # NoReply
        <5>1. /\ halt[g].step \in {"detached", "halted"} /\ halt'[g].generation = halt[g].generation
              /\ halt'[g].queue = halt[g].queue
          BY <1>2, <3>2, <4>2
        <5> QED
          BY <2>1, <2>4, <4>1, <4>2, <5>1 DEF ReplyBasics, CallsKnown, Maybe
      <4> QED
        BY <1>2, <3>2, <4>1, <4>2
    <3> QED
      BY <3>1, <3>2
  <2>6. ~manner.responsive => \A g \in Halts : halt'[g].stream = NoReply /\ halt'[g].queue = NoReply
    BY <1>2 DEF ReplyBasics, CallsKnown
  <2> QED
    BY <1>1, <2>3, <2>4, <2>5, <2>6 DEF ReplyBasics, CallsKnown, Maybe
<1>9. Counted'
  <2>1. WithSession' = WithSession
    BY DEF WithSession
  <2>2. /\ Halting \subseteq Halting' /\ Detached \subseteq Detached' /\ h \in Halting'
        /\ halt[h].step = "detached" => h \notin Halting
    BY <1>2 DEF Halting, Detached
  <2>3. IsFiniteSet(Halting') /\ IsFiniteSet(Detached') /\ IsFiniteSet(WithSession)
    BY FiniteCounts, FS_Subset DEF Halting, Detached, WithSession
  <2>4. /\ Cardinality(Detached) <= Cardinality(Detached')
        /\ Cardinality(Detached) \in Nat /\ Cardinality(Detached') \in Nat
        /\ Cardinality(Halting) <= Cardinality(Halting')
        /\ Cardinality(Halting) \in Nat /\ Cardinality(Halting') \in Nat
        /\ halt[h].step = "detached" => Cardinality(Halting) + 1 <= Cardinality(Halting')
    BY <2>2, <2>3, CountsGrow
  <2>5. Cardinality(WithSession) \in Nat
    BY <2>3, FS_CardinalityType
  <2>6. /\ voice.generation <= Cardinality(Detached)
        /\ session <= Cardinality(WithSession) + Cardinality(Halting)
    BY DEF ReplyBasics, Counted
  <2>7. session' <= Cardinality(WithSession) + Cardinality(Halting')
    <3>1. CASE session' = session
      BY <1>3, <2>4, <2>5, <2>6, <3>1
    <3>2. CASE session' # session
      <4>1. halt[h].step = "detached" /\ session' = session + 1
        BY <3>2
      <4> QED
        BY <1>3, <2>4, <2>5, <2>6, <4>1
    <3> QED
      BY <3>1, <3>2
  <2>8. voice.generation <= Cardinality(Detached')
    BY <1>3, <2>4, <2>6
  <2> QED
    BY <1>1, <2>1, <2>7, <2>8 DEF Counted
<1> QED
  BY <1>4, <1>5, <1>6, <1>7, <1>8, <1>9 DEF ReplyBasics

\* What a stop that lets the device go makes of its call.
HaltedCall(h, call) ==
    /\ call \in HaltCalls /\ call.step \in {"halted", "done"}
    /\ call.step = "halted" =>
          /\ call.generation = halt[h].generation /\ call.session = halt[h].session
          /\ call.queue = halt[h].queue /\ call.playing = halt[h].playing
          /\ call.stream = halt[h].stream
    /\ call.step = "done" =>
          /\ call.generation = 0 /\ call.session = 0
          /\ call.queue = NoReply /\ call.stream = NoReply

LEMMA HaltedCalls ==
    ASSUME ReplyShapes, NEW h \in Halts, NEW id \in Maybe
    PROVE  /\ HaltedCall(h, Halted) /\ Halted.step = "done"
           /\ HaltedCall(h, [halt[h] EXCEPT !.step = "halted", !.id = id])
           /\ [halt[h] EXCEPT !.step = "halted", !.id = id].step = "halted"
           /\ [halt[h] EXCEPT !.step = "halted", !.id = id].id = id
<1>1. Halted = [step |-> "done", generation |-> 0, session |-> 0, queue |-> NoReply,
                playing |-> NoReply, stream |-> NoReply, id |-> NoReply]
  BY DEF Halted, NoHalt
<1>2. PICK call : call = [halt[h] EXCEPT !.step = "halted", !.id = id]
  OBVIOUS
<1>3. "halted" \in HaltSteps
  BY DEF HaltSteps
<1>4. call \in HaltCalls /\ Halted \in HaltCalls
  BY <1>2, <1>3, HaltTyped
<1>5. halt[h] \in HaltCalls
  BY DEF ReplyShapes
<1>6. /\ call.step = "halted" /\ call.id = id /\ call.generation = halt[h].generation
      /\ call.session = halt[h].session /\ call.queue = halt[h].queue
      /\ call.playing = halt[h].playing /\ call.stream = halt[h].stream
  BY <1>2, <1>5 DEF HaltCalls
<1>7. /\ Halted.step = "done" /\ Halted.queue = NoReply /\ Halted.stream = NoReply
      /\ Halted.generation = 0 /\ Halted.session = 0
  BY <1>1
<1> QED
  BY <1>2, <1>4, <1>6, <1>7 DEF HaltedCall


LEMMA AnnounceStopBasics ==
    ASSUME ReplyBasics, NEW h \in Halts, AnnounceStop(h)
    PROVE  ReplyBasics'
<1>1. /\ halt[h].step = "halted" /\ halt' = [halt EXCEPT ![h] = Halted]
      /\ UNCHANGED <<manner, turnPart, voice, session, player, overlooked>>
  BY DEF AnnounceStop, soundPart
<1>2. HaltedCall(h, Halted) /\ Halted.step = "done"
  BY HaltedCalls DEF ReplyBasics, Maybe
<1>3. halt[h].stream \in Maybe /\ halt[h].id \in Maybe /\ card \in Cards
  BY DEF ReplyBasics, ReplyShapes, HaltCalls
<1>4. /\ \/ halt[h].stream # NoReply /\ card' = CommittedEnded(card, halt[h].stream, halt[h].id)
         \/ card' = PlaybackStopped(card, halt[h].id, halt[h].id)
         \/ card' = card
      /\ silenced' \in {silenced, silenced \cup ({halt[h].stream} \ {NoReply})}
  BY DEF AnnounceStop
<1>5. card' \in Cards
  <2>1. CASE halt[h].stream # NoReply /\ card' = CommittedEnded(card, halt[h].stream, halt[h].id)
    <3>1. halt[h].stream \in Replies
      BY <1>3, <2>1 DEF Maybe
    <3> QED
      BY <1>3, <2>1, <3>1, CommittedEndedCard
  <2>2. CASE card' = PlaybackStopped(card, halt[h].id, halt[h].id)
    BY <1>3, <2>2, StoppedCard
  <2> QED
    BY <1>3, <1>4, <2>1, <2>2
<1>6. silenced' \subseteq Replies
  BY <1>3, <1>4 DEF ReplyBasics, ReplyShapes, Maybe
<1>7. player' \in [Replies -> Players]
  BY <1>1 DEF ReplyBasics, ReplyShapes
<1>8. /\ Halted \in HaltCalls /\ Halted.step = "done" /\ Halted.stream = NoReply
      /\ Halted.queue = NoReply /\ Halted.generation = 0 /\ Halted.session = 0
  BY <1>2 DEF HaltedCall
<1> QED
  BY <1>1, <1>5, <1>6, <1>7, <1>8, HaltKeepsBasics

\* The three ways a stop reaches the device.
HaltedQueue(h, q) ==
    /\ q = halt[h].queue
    /\ session' = IF player[q].step \in {"announcing", "playing"} /\ InSession(q)
                  THEN session + 1 ELSE session
    /\ player' = [player EXCEPT ![q].step = IF @ = "opening" THEN "over" ELSE @]
    /\ halt' = [halt EXCEPT ![h].step = "halted",
                            ![h].id = IF player[q].token # 0 THEN q ELSE halt[h].playing]
StoppedSession(h, id) ==
    /\ halt[h].queue = NoReply /\ halt[h].session = session /\ session' = session + 1
    /\ halt' = [halt EXCEPT ![h].step = "halted", ![h].id = id]
    /\ UNCHANGED player
    /\ LET sounding == {r \in Replies : InSession(r) /\ player[r].step \notin {"none", "over"}}
       IN  id = IF sounding = {} THEN halt[h].playing ELSE CHOOSE r \in sounding : TRUE
StoppedNothing(h) ==
    /\ halt[h].queue = NoReply /\ halt[h].session # session
    /\ halt' = [halt EXCEPT ![h] = Halted]
    /\ UNCHANGED <<session, player>>

LEMMA HaltSpeechCases ==
    ASSUME ReplyShapes, NEW h \in Halts, HaltSpeech(h)
    PROVE  /\ halt[h].step = "detached"
           /\ UNCHANGED <<manner, turnPart, voice, card, silenced, overlooked>>
           /\ \/ \E q \in Replies : HaltedQueue(h, q)
              \/ \E id \in Maybe : StoppedSession(h, id)
              \/ StoppedNothing(h)
<1>1. /\ halt[h].step = "detached"
      /\ UNCHANGED <<manner, turnPart, voice, card, silenced, overlooked>>
  BY DEF HaltSpeech, history
<1>2. halt[h].queue \in Maybe /\ halt[h].playing \in Maybe
  BY DEF ReplyShapes, HaltCalls
<1>3. CASE halt[h].queue # NoReply
  <2>1. PICK q : q = halt[h].queue
    OBVIOUS
  <2>2. q \in Replies
    BY <1>2, <1>3, <2>1 DEF Maybe
  <2>3. HaltedQueue(h, q)
    BY <1>3, <2>1 DEF HaltSpeech, HaltedQueue
  <2> QED
    BY <1>1, <2>2, <2>3
<1>4. CASE halt[h].queue = NoReply /\ halt[h].session = session
  <2>1. PICK sounding : sounding = {r \in Replies : InSession(r) /\ player[r].step \notin {"none", "over"}}
    OBVIOUS
  <2>2. PICK id : id = IF sounding = {} THEN halt[h].playing ELSE CHOOSE r \in sounding : TRUE
    OBVIOUS
  <2>3. id \in Maybe
    <3>1. CASE sounding = {}
      BY <1>2, <2>2, <3>1
    <3>2. CASE sounding # {}
      <4>1. id = CHOOSE r \in sounding : TRUE
        BY <2>2, <3>2
      <4>2. \E r \in sounding : TRUE
        BY <3>2
      <4>3. id \in sounding
        BY <4>1, <4>2
      <4> QED
        BY <2>1, <4>3 DEF Maybe
    <3> QED
      BY <3>1, <3>2
  <2>4. StoppedSession(h, id)
    BY <1>4, <2>1, <2>2 DEF HaltSpeech, StoppedSession
  <2> QED
    BY <1>1, <2>3, <2>4
<1>5. CASE halt[h].queue = NoReply /\ halt[h].session # session
  BY <1>1, <1>5 DEF HaltSpeech, StoppedNothing
<1> QED
  BY <1>3, <1>4, <1>5

\* Two fields of one call are set one after the other.
LEMMA HaltFields ==
    ASSUME ReplyShapes, NEW h \in Halts, NEW step, NEW id,
           halt' = [halt EXCEPT ![h].step = step, ![h].id = id]
    PROVE  halt' = [halt EXCEPT ![h] = [halt[h] EXCEPT !.step = step, !.id = id]]
  BY DEF ReplyShapes

\* A queue that has not opened the device never will.
LEMMA QueueStops ==
    ASSUME ReplyShapes, NEW q \in Replies,
           player' = [player EXCEPT ![q].step = IF @ = "opening" THEN "over" ELSE @]
    PROVE  /\ player' \in [Replies -> Players]
           /\ \A p \in Replies :
                /\ player'[p].token = player[p].token
                /\ player'[p].step = IF p = q /\ player[p].step = "opening" THEN "over" ELSE player[p].step
<1>1. PICK step : step = IF player[q].step = "opening" THEN "over" ELSE player[q].step
  OBVIOUS
<1>2. Playing(q, step)
  BY <1>1 DEF Playing, ReplyShapes
<1>3. step \in PlayerStages
  BY <1>1 DEF ReplyShapes, Players, PlayerStages
<1>4. /\ player' \in [Replies -> Players]
      /\ player'[q].step = step /\ player'[q].token = player[q].token
      /\ \A p \in Replies : p # q => player'[p] = player[p]
  BY <1>2, <1>3, PlayerHandlers
<1> QED
  BY <1>1, <1>4

LEMMA HaltSpeechBasics ==
    ASSUME ReplyBasics, NEW h \in Halts, HaltSpeech(h)
    PROVE  ReplyBasics'
<1> USE DEF ReplyBasics
<1>1. /\ halt[h].step = "detached"
      /\ UNCHANGED <<manner, turnPart, voice, card, silenced, overlooked>>
      /\ \/ \E q \in Replies : HaltedQueue(h, q)
         \/ \E id \in Maybe : StoppedSession(h, id)
         \/ StoppedNothing(h)
  BY HaltSpeechCases
<1>2. card' \in Cards /\ silenced' \subseteq Replies
  BY <1>1 DEF ReplyShapes
<1>3. ASSUME NEW q \in Replies, HaltedQueue(h, q)
      PROVE  ReplyBasics'
  <2>1. PICK id : id = IF player[q].token # 0 THEN q ELSE halt[h].playing
    OBVIOUS
  <2>2. id \in Maybe
    BY <2>1 DEF ReplyShapes, HaltCalls, Maybe
  <2>3. PICK call : call = [halt[h] EXCEPT !.step = "halted", !.id = id]
    OBVIOUS
  <2>4. HaltedCall(h, call) /\ call.step = "halted"
    BY <2>2, <2>3, HaltedCalls
  <2>5. halt' = [halt EXCEPT ![h] = call]
    <3>1. halt' = [halt EXCEPT ![h].step = "halted", ![h].id = id]
      BY <1>3, <2>1 DEF HaltedQueue
    <3> QED
      BY <2>3, <3>1, HaltFields
  <2>6. /\ player' \in [Replies -> Players]
        /\ \A p \in Replies :
              /\ player'[p].token = player[p].token
              /\ player'[p].step = player[p].step
                    \/ (player[p].step = "opening" /\ player'[p].step = "over")
    <3>1. player' = [player EXCEPT ![q].step = IF @ = "opening" THEN "over" ELSE @]
      BY <1>3 DEF HaltedQueue
    <3> QED
      BY <3>1, QueueStops
  <2>7. session' \in {session, session + 1}
    BY <1>3 DEF HaltedQueue
  <2>8. /\ call \in HaltCalls /\ call.stream = halt[h].stream /\ call.queue = halt[h].queue
        /\ call.generation = halt[h].generation /\ call.session = halt[h].session
    BY <2>4 DEF HaltedCall
  <2> QED
    BY <1>1, <1>2, <2>4, <2>5, <2>6, <2>7, <2>8, HaltKeepsBasics
<1>4. ASSUME NEW id \in Maybe, StoppedSession(h, id)
      PROVE  ReplyBasics'
  <2>3. PICK call : call = [halt[h] EXCEPT !.step = "halted", !.id = id]
    OBVIOUS
  <2>4. HaltedCall(h, call) /\ call.step = "halted"
    BY <2>3, HaltedCalls
  <2>5. halt' = [halt EXCEPT ![h] = call]
    BY <1>4, <2>3, HaltFields DEF StoppedSession
  <2>6. session' = session + 1 /\ player' = player /\ player' \in [Replies -> Players]
    BY <1>4 DEF StoppedSession, ReplyShapes
  <2>8. /\ call \in HaltCalls /\ call.stream = halt[h].stream /\ call.queue = halt[h].queue
        /\ call.generation = halt[h].generation /\ call.session = halt[h].session
    BY <2>4 DEF HaltedCall
  <2> QED
    BY <1>1, <1>2, <2>4, <2>5, <2>6, <2>8, HaltKeepsBasics
<1>5. CASE StoppedNothing(h)
  <2>1. HaltedCall(h, Halted) /\ Halted.step = "done"
    BY HaltedCalls DEF Maybe
  <2>2. /\ halt' = [halt EXCEPT ![h] = Halted] /\ session' = session /\ player' = player
        /\ player' \in [Replies -> Players]
    BY <1>5 DEF StoppedNothing, ReplyShapes
  <2>3. /\ Halted \in HaltCalls /\ Halted.stream = NoReply /\ Halted.queue = NoReply
    BY <2>1 DEF HaltedCall
  <2>4. Halted.generation = 0 /\ Halted.session = 0
    BY <2>1 DEF HaltedCall
  <2> QED
    BY <1>1, <1>2, <2>1, <2>4, <2>2, <2>3, HaltKeepsBasics
<1> QED
  BY <1>1, <1>3, <1>4, <1>5


-----------------------------------------------------------------------------
LEMMA ReplyInitBasics == ReplyInit => ReplyBasics
<1> SUFFICES ASSUME ReplyInit
             PROVE  ReplyBasics
  OBVIOUS
<1>1. /\ NoReply \in Maybe /\ "idle" \in TurnSteps /\ "none" \in PlayerStages /\ "idle" \in HaltSteps
      /\ 0 \in Nat
  BY DEF Maybe, TurnSteps, PlayerStages, HaltSteps
<1>2. NoHalt \in HaltCalls
  BY <1>1 DEF NoHalt, HaltCalls
<1>3. card \in Cards
  BY <1>1 DEF ReplyInit, Cards
<1>4. voice \in Voices
  BY <1>1 DEF ReplyInit, Voices
<1>5. ReplyShapes
  BY <1>1, <1>2, <1>3, <1>4 DEF ReplyInit, ReplyShapes, Players
<1>6. FloorTaken
  BY DEF ReplyInit, FloorTaken, Busy
<1>7. \A r \in Replies : NotYet(r)
  <2>1. NoHalt.step = "idle"
    BY DEF NoHalt
  <2> QED
    BY <2>1, ReplyNumbers DEF ReplyInit, NotYet
<1>8. SessionsKnown
  BY DEF ReplyInit, SessionsKnown
<1>9. CallsKnown
  <2>1. /\ NoHalt.step = "idle" /\ NoHalt.generation = 0 /\ NoHalt.session = 0
        /\ NoHalt.queue = NoReply /\ NoHalt.stream = NoReply
    BY DEF NoHalt
  <2>2. voice.generation = 0 /\ voice.queue = NoReply /\ voice.pending = NoReply
    BY DEF ReplyInit
  <2>3. /\ \A h \in Halts : halt[h] = NoHalt
        /\ \A r \in Replies : began[r] = 0
        /\ session = 0
    BY DEF ReplyInit
  <2> QED
    BY <2>1, <2>2, <2>3 DEF CallsKnown
<1>10. Counted
  <2>1. IsFiniteSet(Detached) /\ IsFiniteSet(Halting) /\ IsFiniteSet(WithSession)
    BY FiniteCounts, FS_Subset DEF Detached, Halting, WithSession
  <2>2. Cardinality(Detached) \in Nat /\ Cardinality(Halting) \in Nat /\ Cardinality(WithSession) \in Nat
    BY <2>1, FS_CardinalityType
  <2>3. voice.generation = 0 /\ session = 0
    BY DEF ReplyInit
  <2> QED
    BY <2>2, <2>3 DEF Counted
<1> QED
  BY <1>5, <1>6, <1>7, <1>8, <1>9, <1>10 DEF ReplyBasics

LEMMA TurnBasics ==
    ASSUME ReplyBasics, NEW r \in Replies,
           TakeFloor(r) \/ AskCheckIn(r) \/ StreamDelta(r) \/ TurnWork(r)
    PROVE  ReplyBasics'
  BY TakeFloorBasics, AskCheckInBasics, StreamDeltaBasics, StartTypedBasics, StartCheckInBasics,
     PublishReplyBasics, DecideSpeechBasics, DispatchSpeechBasics, ReportFailureBasics,
     EndTurnBasics DEF TurnWork

LEMMA PlayerBasics ==
    ASSUME ReplyBasics, NEW r \in Replies, PlayerWork(r)
    PROVE  ReplyBasics'
  BY OpenDeviceBasics, AnnounceStartBasics, EndSpeechBasics, BreakSpeechBasics,
     DropRetiredBasics, CompleteQueueBasics DEF PlayerWork

LEMMA HaltBasics ==
    ASSUME ReplyBasics, NEW h \in Halts, HaltWork(h)
    PROVE  ReplyBasics'
  BY DetachSpeechBasics, HaltSpeechBasics, AnnounceStopBasics DEF HaltWork

LEMMA IdleBasics ==
    ASSUME ReplyBasics, UNCHANGED replyVars
    PROVE  ReplyBasics'
<1>1. UNCHANGED <<manner, stage, calledOff, lastClaim, began, voice, session, player, halt, card,
                  silenced, overlooked>>
  BY DEF replyVars, turnPart, soundPart, history
<1>2. ReplyShapes' /\ FloorTaken' /\ \A q \in Replies : NotYet(q)'
  BY <1>1 DEF ReplyBasics, ReplyShapes, FloorTaken, NotYet, Typed
<1>3. SessionsKnown' /\ CallsKnown'
  BY <1>1 DEF ReplyBasics, SessionsKnown, CallsKnown
<1>4. Counted'
  <2>1. voice'.generation = voice.generation
    BY <1>1
  <2> QED
    BY <1>1, <2>1, CountedKept DEF ReplyBasics
<1> QED
  BY <1>2, <1>3, <1>4 DEF ReplyBasics

LEMMA ReplyNextBasics == ReplyBasics /\ [ReplyNext]_replyVars => ReplyBasics'
<1> SUFFICES ASSUME ReplyBasics, [ReplyNext]_replyVars
             PROVE  ReplyBasics'
  OBVIOUS
<1>1. ASSUME NEW r \in Replies,
             TakeFloor(r) \/ AskCheckIn(r) \/ StreamDelta(r) \/ TurnWork(r) \/ PlayerWork(r)
      PROVE  ReplyBasics'
  BY <1>1, TurnBasics, PlayerBasics
<1>2. ASSUME NEW h \in Hands, StopByHand(h)
      PROVE  ReplyBasics'
  BY <1>2, StopByHandBasics
<1>3. ASSUME NEW h \in Halts, HaltWork(h)
      PROVE  ReplyBasics'
  BY <1>3, HaltBasics
<1>4. CASE UNCHANGED replyVars
  BY <1>4, IdleBasics
<1> QED
  BY <1>1, <1>2, <1>3, <1>4 DEF ReplyNext

\* The numbers that count up stay within their bounds.
LEMMA BasicsImplyTypes == ReplyBasics => ReplyTypeOK
<1> SUFFICES ASSUME ReplyBasics
             PROVE  ReplyTypeOK
  OBVIOUS
<1>1. IsFiniteSet(Detached) /\ IsFiniteSet(Halting) /\ IsFiniteSet(WithSession)
  BY FiniteCounts, FS_Subset DEF Detached, Halting, WithSession
<1>2. /\ Cardinality(Detached) \in Nat /\ Cardinality(Detached) <= MaxReplies + MaxHands
      /\ Cardinality(Halting) \in Nat /\ Cardinality(Halting) <= MaxReplies + MaxHands
      /\ Cardinality(WithSession) \in Nat /\ Cardinality(WithSession) <= MaxReplies
  <2>1. Detached \subseteq Halts /\ Halting \subseteq Halts /\ WithSession \subseteq Replies
    BY DEF Detached, Halting, WithSession
  <2> QED
    BY <1>1, <2>1, FiniteCounts, CountsGrow
<1>3. voice.generation \in Nat /\ session \in Nat
  BY DEF ReplyBasics, ReplyShapes, Voices
<1>4. voice.generation \in Generations
  <2>1. voice.generation <= Cardinality(Detached)
    BY DEF ReplyBasics, Counted
  <2> QED
    BY <1>2, <1>3, <2>1, ReplyNumbers DEF Generations
<1>5. session \in Tokens
  <2>1. session <= Cardinality(WithSession) + Cardinality(Halting)
    BY DEF ReplyBasics, Counted
  <2> QED
    BY <1>2, <1>3, <2>1, ReplyNumbers DEF Tokens
<1>6. \A n \in Nat : (n <= voice.generation => n \in Generations) /\ (n <= session => n \in Tokens)
  BY <1>3, <1>4, <1>5, ReplyNumbers DEF Generations, Tokens
<1>7. began \in [Replies -> Generations]
  <2>1. \A r \in Replies : began[r] \in Nat /\ began[r] <= voice.generation
    BY DEF ReplyBasics, ReplyShapes, CallsKnown
  <2> QED
    BY <1>6, <2>1 DEF ReplyBasics, ReplyShapes
<1>8. player \in [Replies -> [step : PlayerStages, token : Tokens]]
  <2>1. \A r \in Replies : player[r] \in Players /\ player[r].token <= session
    BY DEF ReplyBasics, ReplyShapes, SessionsKnown
  <2>2. \A r \in Replies : player[r] \in [step : PlayerStages, token : Tokens]
    BY <1>6, <2>1 DEF Players
  <2> QED
    BY <2>2 DEF ReplyBasics, ReplyShapes
<1>9. halt \in [Halts -> [step : {"idle", "asked", "detached", "halted", "done"},
                          generation : Generations, session : Tokens, queue : Maybe,
                          playing : Maybe, stream : Maybe, id : Maybe]]
  <2>1. \A h \in Halts : /\ halt[h] \in HaltCalls /\ halt[h].generation <= voice.generation
                         /\ halt[h].session <= session
    BY DEF ReplyBasics, ReplyShapes, CallsKnown
  <2>2. ASSUME NEW h \in Halts
        PROVE  halt[h] \in [step : {"idle", "asked", "detached", "halted", "done"},
                            generation : Generations, session : Tokens, queue : Maybe,
                            playing : Maybe, stream : Maybe, id : Maybe]
    <3>1. halt[h].generation \in Generations /\ halt[h].session \in Tokens
      BY <1>6, <2>1 DEF HaltCalls
    <3> QED
      BY <2>1, <3>1 DEF HaltCalls, HaltSteps
  <2> QED
    BY <2>2 DEF ReplyBasics, ReplyShapes
<1>10. voice \in [generation : Generations, queue : Maybe, pending : Maybe, playing : Maybe]
  BY <1>4 DEF ReplyBasics, ReplyShapes, Voices
<1> QED
  BY <1>5, <1>7, <1>8, <1>9, <1>10 DEF ReplyBasics, ReplyShapes, ReplyTypeOK, Cards


-----------------------------------------------------------------------------
\* What the client makes of it all, unless two replies met at the device.

\* A card that waits for nothing new, and one whose speech is reported.
Due == InTurn \ {"thinking"}

LEMMA DueStages == Due = {"published", "dispatching", "unspoken"} /\ InTurn \subseteq Busy
  BY DEF Due, InTurn, Busy

\* The sound of a step that only moves a turn or asks for a stop.
TurnOnly ==
    /\ UNCHANGED <<manner, soundPart>>
    /\ silenced \subseteq silenced' /\ calledOff \subseteq calledOff'
    /\ \A q \in Replies : began'[q] = began[q] \/ (player[q].step = "none" /\ player[q].token = 0)
    /\ \A h \in Halts : halt'[h] = halt[h] \/ (halt[h].step = "idle" /\ halt'[h].step \in {"idle", "asked"})

LEMMA SoundKept ==
    ASSUME ReplyBasics, PlayingIsHeard, QueueIsKnown, StopsTell, TurnOnly
    PROVE  PlayingIsHeard' /\ QueueIsKnown' /\ StopsTell'
<1>1. /\ UNCHANGED <<manner, voice, session, player>> /\ silenced \subseteq silenced'
      /\ \A q \in Replies : InSession(q)' = InSession(q)
  BY DEF TurnOnly, soundPart, InSession
<1>2. \A h \in Halts : halt'[h].step \in {"detached", "halted"} => halt'[h] = halt[h]
  BY DEF TurnOnly
<1>3. \A q \in Replies : player[q].step # "none" \/ player[q].token # 0 => began'[q] = began[q]
  BY DEF TurnOnly
<1>4. voice.playing \in Maybe
  BY DEF ReplyBasics, ReplyShapes, Voices
<1>5. PlayingIsHeard'
  <2>1. StopUnderWay' => StopUnderWay
    BY <1>2 DEF StopUnderWay
  <2>2. voice.playing # NoReply =>
          \/ ~manner.responsive /\ voice.playing \in silenced'
          \/ /\ player[voice.playing].step = "playing" /\ InSession(voice.playing)
             /\ manner.responsive => began'[voice.playing] = voice.generation
    BY <1>1, <1>3, <1>4 DEF PlayingIsHeard, Maybe
  <2> QED
    BY <1>1, <1>4, <2>1, <2>2 DEF PlayingIsHeard, InSession
<1>6. QueueIsKnown'
  BY <1>1, <1>2, <1>3 DEF QueueIsKnown
<1>7. StopsTell'
  BY <1>2 DEF StopsTell
<1> QED
  BY <1>5, <1>6, <1>7

LEMMA ProgressKept ==
    ASSUME TurnOnly, NEW x \in Replies, InProgress(x), stage[x] \in Due => stage'[x] \in Due
    PROVE  InProgress(x)'
<1>1. UNCHANGED <<manner, voice, session, player>> /\ calledOff \subseteq calledOff'
  BY DEF TurnOnly, soundPart
<1>2. \A h \in Halts : halt[h].step \in {"detached", "halted"} => halt'[h] = halt[h]
  BY DEF TurnOnly
<1>3. Starting' = Starting
  BY <1>1 DEF Starting
<1> QED
  BY <1>1, <1>2, <1>3 DEF InProgress, Due

LEMMA QuietKept ==
    ASSUME UNCHANGED <<manner, soundPart>>
    PROVE  /\ Quiet' = Quiet /\ Starting' = Starting
           /\ \A q \in Replies : InSession(q)' = InSession(q)
<1>1. UNCHANGED <<manner, voice, session, player>>
  BY DEF soundPart
<1>2. /\ Starting' = Starting /\ Starting \subseteq Replies
      /\ \A q \in Replies : InSession(q)' = InSession(q)
  BY <1>1 DEF Starting, InSession
<1> QED
  BY <1>1, <1>2 DEF Quiet

LEMMA TurnKeepsPart ==
    ASSUME ReplyBasics, ReplyPart, TurnOnly,
           \A q \in Replies : stage'[q] \in InTurn => stage[q] \in InTurn \/ Quiet,
           \A q \in Replies : stage'[q] = "claimed" /\ InForce(q)' =>
              \/ stage[q] = "claimed" /\ InForce(q) /\ halt'[q] = halt[q]
              \/ halt'[q].step = "asked"
              \/ Quiet /\ halt'[q].step # "detached",
           CardKept(card'), CardAwaits', ResponseAwaited'
    PROVE  ReplyPart'
<1>1. PlayingIsHeard' /\ QueueIsKnown' /\ StopsTell'
  BY SoundKept DEF ReplyPart
<1>2. UNCHANGED <<manner, voice, session, player>> /\ UNCHANGED <<manner, soundPart>>
  BY DEF TurnOnly, soundPart
<1>3. /\ Quiet' = Quiet /\ Starting' = Starting /\ Starting \subseteq Replies
      /\ \A q \in Replies : InSession(q)' = InSession(q)
  BY <1>2, QuietKept DEF Starting
<1>4. TurnsAreQuiet'
  <2>1. ASSUME NEW q \in Replies, stage'[q] \in InTurn
        PROVE  Quiet'
    BY <1>3, <2>1 DEF ReplyPart, TurnsAreQuiet
  <2>2. ASSUME NEW q \in Replies, stage'[q] = "claimed", InForce(q)'
        PROVE  /\ halt'[q].step \in {"idle", "halted", "done"} => Quiet'
               /\ halt'[q].step = "detached" =>
                     /\ voice'.playing = NoReply /\ voice'.queue = NoReply
                     /\ \A p \in Starting' : InSession(p)' => session' <= halt'[q].session
    <3>1. CASE stage[q] = "claimed" /\ InForce(q) /\ halt'[q] = halt[q]
      <4>1. /\ halt[q].step \in {"idle", "halted", "done"} => Quiet
            /\ halt[q].step = "detached" =>
                     /\ voice.playing = NoReply /\ voice.queue = NoReply
                     /\ \A p \in Starting : InSession(p) => session <= halt[q].session
        BY <3>1 DEF ReplyPart, TurnsAreQuiet
      <4> QED
        BY <1>2, <1>3, <3>1, <4>1
    <3>2. CASE halt'[q].step = "asked"
      BY <3>2
    <3>3. CASE Quiet /\ halt'[q].step # "detached"
      BY <1>3, <3>3
    <3> QED
      BY <2>2, <3>1, <3>2, <3>3
  <2> QED
    BY <2>1, <2>2 DEF TurnsAreQuiet
<1> QED
  BY <1>1, <1>4 DEF ReplyPart

\* What is overlooked stays so.
LEMMA NothingElse ==
    ASSUME NEW r \in Replies, NEW other, overlooked' = overlooked \cup other, overlooked' = {}
    PROVE  other = {}
  OBVIOUS

LEMMA OneBusy ==
    ASSUME ReplyBasics, NEW r \in Replies, stage[r] \in Busy
    PROVE  \A q \in Replies : q # r => stage[q] \notin InTurn
  BY DueStages DEF ReplyBasics, FloorTaken

\* A turn that claims or ends, with the card as it was.
LEMMA CardStands ==
    ASSUME ReplyBasics, ReplyPart, TurnOnly, card' = card,
           \A q \in Replies : stage'[q] \in InTurn => 
              stage'[q] = stage[q] \/ (q \notin Typed /\ stage'[q] = "thinking"),
           \A q \in Replies : stage[q] \in Due => stage'[q] \in Due \/ q \in silenced'
    PROVE  CardKept(card') /\ CardAwaits' /\ ResponseAwaited'
<1>1. UNCHANGED <<manner, soundPart>> /\ silenced \subseteq silenced' /\ Typed' = Typed
  BY DEF TurnOnly, Typed
<1>2. /\ Starting' = Starting /\ Starting \subseteq Replies
      /\ \A q \in Replies : InSession(q)' = InSession(q)
  BY <1>1, QuietKept DEF Starting
<1>3. CardAwaits'
  <2>1. \A q \in Typed : stage'[q] = "thinking" => stage[q] = "thinking"
    BY DEF InTurn, Typed
  <2>2. \A q \in Replies : stage'[q] \in Due => stage[q] \in Due
    BY DEF Due
  <2> QED
    BY <1>1, <1>2, <2>1, <2>2 DEF ReplyPart, CardAwaits, Due
<1>4. ResponseAwaited'
  <2>1. SUFFICES ASSUME card.response \notin silenced' \cup {NoReply}, card.shown # card.response
                 PROVE  card.reveal /\ InProgress(card.response)'
    BY DEF ResponseAwaited
  <2>2. card.response \in Replies
    BY <2>1 DEF ReplyBasics, ReplyShapes, Cards, Maybe
  <2>3. card.reveal /\ InProgress(card.response)
    BY <1>1, <2>1 DEF ReplyPart, ResponseAwaited
  <2>4. stage[card.response] \in Due => stage'[card.response] \in Due
    BY <2>1, <2>2
  <2> QED
    BY <2>2, <2>3, <2>4, ProgressKept
<1> QED
  BY <1>3, <1>4 DEF ReplyPart


LEMMA TakeFloorPart ==
    ASSUME ReplyBasics, ReplyPart, NEW r \in Replies, TakeFloor(r), overlooked' = {}
    PROVE  ReplyPart'
<1>1. /\ GoOn(r, "idle", "claimed") /\ Supersede /\ lastClaim' = r
      /\ UNCHANGED <<manner, began, soundPart, card, silenced>>
      /\ \/ halt' = [halt EXCEPT ![r].step = "asked"]
         \/ /\ lastClaim = NoReply /\ voice.playing = NoReply /\ voice.queue = NoReply
            /\ overlooked' = overlooked \cup Starting /\ halt' = halt
  BY DEF TakeFloor
<1>2. /\ stage[r] = "idle" /\ stage'[r] = "claimed"
      /\ \A q \in Replies : q # r => stage'[q] = stage[q]
  BY <1>1, StageMoves DEF ReplyBasics, TurnSteps
<1>3. halt[r].step = "idle" /\ r \in Halts
  BY <1>2, ReplyNumbers DEF ReplyBasics, NotYet
<1>4. /\ \A h \in Halts : halt'[h] = halt[h] \/ (halt[h].step = "idle" /\ halt'[h].step \in {"idle", "asked"})
      /\ \A q \in Replies : q # r => halt'[q] = halt[q]
  <2>1. /\ \A g \in Halts : g # r => halt'[g] = halt[g]
        /\ halt'[r].step \in {"idle", "asked"}
    BY <1>1, <1>3, AskedHalts
  <2> QED
    BY <1>3, <2>1, ReplyNumbers
<1>5. TurnOnly
  BY <1>1, <1>4 DEF TurnOnly, Supersede
<1>6. CardKept(card') /\ CardAwaits' /\ ResponseAwaited'
  <2>1. \A q \in Replies : stage'[q] \in InTurn => stage'[q] = stage[q]
    BY <1>2 DEF InTurn
  <2>2. \A q \in Replies : stage[q] \in Due => stage'[q] \in Due
    BY <1>2 DEF Due, InTurn
  <2> QED
    BY <1>1, <1>5, <2>1, <2>2, CardStands
<1>7. halt'[r].step = "asked" \/ (Quiet /\ halt'[r].step = "idle")
  <2>1. CASE halt' = [halt EXCEPT ![r].step = "asked"]
    BY <1>3, <2>1 DEF ReplyBasics, ReplyShapes, HaltCalls
  <2>2. CASE /\ voice.playing = NoReply /\ voice.queue = NoReply
             /\ overlooked' = overlooked \cup Starting /\ halt' = halt
    BY <1>3, <2>2 DEF Quiet
  <2> QED
    BY <1>1, <2>1, <2>2
<1>8. \A q \in Replies : stage'[q] \in InTurn => stage[q] \in InTurn
  BY <1>2 DEF InTurn
<1>9. \A q \in Replies : stage'[q] = "claimed" /\ InForce(q)' => q = r
  BY <1>1 DEF InForce
<1> QED
  BY <1>5, <1>6, <1>7, <1>8, <1>9, TurnKeepsPart

LEMMA AskCheckInPart ==
    ASSUME ReplyBasics, ReplyPart, NEW r \in Replies, AskCheckIn(r), overlooked' = {}
    PROVE  ReplyPart'
<1>1. /\ GoOn(r, "idle", "asked")
      /\ UNCHANGED <<manner, calledOff, lastClaim, began, soundPart, halt, card, silenced, overlooked>>
  BY DEF AskCheckIn, history
<1>2. /\ stage[r] = "idle" /\ stage'[r] = "asked"
      /\ \A q \in Replies : q # r => stage'[q] = stage[q]
  BY <1>1, StageMoves DEF ReplyBasics, TurnSteps
<1>3. TurnOnly
  BY <1>1 DEF TurnOnly
<1>4. \A q \in Replies : stage'[q] \in InTurn => stage'[q] = stage[q]
  BY <1>2 DEF InTurn
<1>5. \A q \in Replies : stage[q] \in Due => stage'[q] \in Due
  BY <1>2 DEF Due, InTurn
<1>6. CardKept(card') /\ CardAwaits' /\ ResponseAwaited'
  BY <1>1, <1>3, <1>4, <1>5, CardStands
<1>7. \A q \in Replies : stage'[q] = "claimed" /\ InForce(q)' =>
         stage[q] = "claimed" /\ InForce(q) /\ halt'[q] = halt[q]
  BY <1>1, <1>2 DEF InForce
<1> QED
  BY <1>3, <1>4, <1>6, <1>7, TurnKeepsPart

LEMMA StartCheckInPart ==
    ASSUME ReplyBasics, ReplyPart, NEW r \in Replies, StartCheckIn(r), overlooked' = {}
    PROVE  ReplyPart'
<1>1. stage[r] = "asked" /\ UNCHANGED <<manner, calledOff, soundPart, halt, card, silenced>>
  BY DEF StartCheckIn
<1>2. player[r].step = "none" /\ player[r].token = 0
  BY <1>1 DEF ReplyBasics, NotYet
<1>3. r \notin Typed
  BY <1>1 DEF ReplyBasics, FloorTaken
<1>4. \A q \in Replies : q # r => stage'[q] = stage[q]
  BY DEF StartCheckIn, GoOn, ReplyBasics, ReplyShapes
<1>5. stage'[r] \in {"thinking", "done"}
  BY DEF StartCheckIn, GoOn, ReplyBasics, ReplyShapes
<1>6. \A q \in Replies : began'[q] = began[q] \/ q = r
  BY DEF StartCheckIn, ReplyBasics, ReplyShapes
<1>7. TurnOnly
  BY <1>1, <1>2, <1>6 DEF TurnOnly
<1>8. CardKept(card') /\ CardAwaits' /\ ResponseAwaited'
  <2>1. \A q \in Replies : stage'[q] \in InTurn =>
           stage'[q] = stage[q] \/ (q \notin Typed /\ stage'[q] = "thinking")
    BY <1>3, <1>4, <1>5 DEF InTurn
  <2>2. \A q \in Replies : stage[q] \in Due => stage'[q] \in Due
    BY <1>1, <1>4 DEF Due, InTurn
  <2> QED
    BY <1>1, <1>7, <2>1, <2>2, CardStands
<1>9. stage'[r] = "thinking" => Quiet /\ lastClaim' = r
  <2>1. CASE TurnLockFree /\ lastClaim = NoReply
    <3>1. /\ lastClaim' = r
          /\ overlooked' = overlooked \cup Starting \cup ({voice.playing, voice.queue} \ {NoReply})
      BY <2>1 DEF StartCheckIn
    <3>2. Starting = {} /\ voice.playing = NoReply /\ voice.queue = NoReply
      BY <3>1
    <3> QED
      BY <3>1, <3>2 DEF Quiet
  <2>2. CASE ~(TurnLockFree /\ lastClaim = NoReply)
    <3>1. GoOn(r, "asked", "done")
      BY <2>2 DEF StartCheckIn
    <3> QED
      BY <3>1 DEF GoOn, ReplyBasics, ReplyShapes
  <2> QED
    BY <2>1, <2>2
<1>10. \A q \in Replies : stage'[q] \in InTurn => stage[q] \in InTurn \/ Quiet
  BY <1>4, <1>5, <1>9 DEF InTurn
<1>11. \A q \in Replies : stage'[q] = "claimed" /\ InForce(q)' =>
         stage[q] = "claimed" /\ InForce(q) /\ halt'[q] = halt[q]
  <2>1. CASE stage'[r] = "thinking"
    BY <1>4, <1>9, <2>1 DEF InForce
  <2>2. CASE stage'[r] # "thinking"
    <3>1. lastClaim' = lastClaim
      <4>1. ~(TurnLockFree /\ lastClaim = NoReply)
        <5>1. GoOn(r, "asked", "thinking") => stage'[r] = "thinking"
          BY DEF GoOn, ReplyBasics, ReplyShapes
        <5> QED
          BY <2>2, <5>1 DEF StartCheckIn
      <4> QED
        BY <4>1 DEF StartCheckIn
    <3> QED
      BY <1>1, <1>4, <1>5, <3>1 DEF InForce
  <2> QED
    BY <2>1, <2>2
<1> QED
  BY <1>7, <1>8, <1>10, <1>11, TurnKeepsPart

LEMMA StartTypedPart ==
    ASSUME ReplyBasics, ReplyPart, NEW r \in Replies, StartTyped(r), overlooked' = {}
    PROVE  ReplyPart'
<1>1. /\ stage[r] = "claimed" /\ halt[r].step \in {"idle", "done"} /\ TurnLockFree
      /\ UNCHANGED <<manner, calledOff, lastClaim, soundPart, halt, silenced, overlooked>>
  BY DEF StartTyped, history
<1>2. player[r].step = "none" /\ player[r].token = 0
  BY <1>1 DEF ReplyBasics, NotYet
<1>3. /\ \A q \in Replies : q # r => stage'[q] = stage[q]
      /\ \A q \in Replies : began'[q] = began[q] \/ q = r
  BY DEF StartTyped, GoOn, ReplyBasics, ReplyShapes
<1>4. TurnOnly
  BY <1>1, <1>2, <1>3 DEF TurnOnly
<1>5. UNCHANGED <<manner, voice, session, player>> /\ UNCHANGED <<manner, soundPart>>
  BY <1>1 DEF soundPart
<1>6. /\ Typed' = Typed /\ Starting' = Starting /\ Starting \subseteq Replies
      /\ \A q \in Replies : InSession(q)' = InSession(q)
  BY <1>5, QuietKept DEF Starting, Typed
<1>7. card \in Cards /\ CardKept(card)
  BY DEF ReplyBasics, ReplyShapes, ReplyPart
<1>8. \A q \in Replies : stage[q] \notin InTurn
  BY <1>1, DueStages DEF TurnLockFree
<1>9. /\ stage'[r] = "thinking" => InForce(r) /\ card' = TurnStarted(card, r)
      /\ stage'[r] # "thinking" => card' = TurnCancelled(card)
      /\ stage'[r] \in {"thinking", "ending"}
  BY DEF StartTyped, GoOn, ReplyBasics, ReplyShapes
<1>10. stage'[r] = "thinking" => Quiet
  BY <1>1, <1>9 DEF ReplyPart, TurnsAreQuiet
<1>11. CardKept(card') /\ card'.response = NoReply
  <2>1. CASE stage'[r] = "thinking"
    BY <1>7, <1>9, <2>1, TurnStartedCard DEF CardKept
  <2>2. CASE stage'[r] # "thinking"
    BY <1>7, <1>9, <2>2, TurnCancelledCard DEF CardKept
  <2> QED
    BY <2>1, <2>2
<1>12. ResponseAwaited'
  BY <1>11 DEF ResponseAwaited
<1>13. CardAwaits'
  <2>1. CASE stage'[r] = "thinking"
    <3>1. \A q \in Replies : stage'[q] \in InTurn => q = r
      BY <1>3, <1>8
    <3>2. \A q \in Starting' : ~InSession(q)'
      BY <1>6, <1>10, <2>1 DEF Quiet
    <3> QED
      BY <1>6, <1>7, <1>9, <2>1, <3>1, <3>2, TurnStartedCard DEF CardAwaits, InTurn, Typed
  <2>2. CASE stage'[r] # "thinking"
    <3>1. \A q \in Replies : stage'[q] \notin InTurn
      BY <1>3, <1>8, <1>9, <2>2 DEF InTurn
    <3>2. card'.turn = card.turn
      BY <1>7, <1>9, <2>2, TurnCancelledCard
    <3> QED
      BY <1>6, <3>1, <3>2 DEF ReplyPart, CardAwaits, InTurn, Typed
  <2> QED
    BY <2>1, <2>2
<1>14. \A q \in Replies : stage'[q] \in InTurn => stage[q] \in InTurn \/ Quiet
  BY <1>3, <1>9, <1>10 DEF InTurn
<1>15. \A q \in Replies : stage'[q] = "claimed" /\ InForce(q)' =>
         stage[q] = "claimed" /\ InForce(q) /\ halt'[q] = halt[q]
  BY <1>1, <1>3, <1>9 DEF InForce
<1> QED
  BY <1>4, <1>11, <1>12, <1>13, <1>14, <1>15, TurnKeepsPart

LEMMA StreamDeltaPart ==
    ASSUME ReplyBasics, ReplyPart, NEW r \in Replies, StreamDelta(r), overlooked' = {}
    PROVE  ReplyPart'
<1>1. /\ r \in Typed /\ stage[r] = "thinking" /\ card' = DeltaArrived(card, r)
      /\ UNCHANGED <<manner, stage, calledOff, lastClaim, began, soundPart, halt, silenced, overlooked>>
  BY DEF StreamDelta, turnPart, history
<1>2. TurnOnly
  BY <1>1 DEF TurnOnly
<1>3. card \in Cards /\ CardKept(card) /\ card.turn = r /\ card.response = NoReply /\ ~card.reveal
  BY <1>1 DEF ReplyBasics, ReplyShapes, ReplyPart, CardAwaits
<1>4. CardKept(card')
  BY <1>1, <1>3, DeltaCard DEF CardKept
<1>5. ResponseAwaited'
  BY <1>1, <1>3, DeltaCard DEF ResponseAwaited
<1>6. CardAwaits'
  <2>1. /\ Typed' = Typed /\ Starting' = Starting /\ Starting \subseteq Replies
        /\ \A q \in Replies : InSession(q)' = InSession(q)
    BY <1>1, QuietKept DEF Starting, Typed
  <2>2. /\ card'.turn = card.turn /\ card'.response = card.response
        /\ card'.reveal = card.reveal /\ card'.ready = card.ready
        /\ card'.begun = card.begun /\ card'.retired = card.retired
    BY <1>1, <1>3, DeltaCard
  <2> QED
    BY <1>1, <2>1, <2>2 DEF ReplyPart, CardAwaits
<1>7. \A q \in Replies : stage'[q] = "claimed" /\ InForce(q)' =>
         stage[q] = "claimed" /\ InForce(q) /\ halt'[q] = halt[q]
  BY <1>1 DEF InForce
<1> QED
  BY <1>1, <1>2, <1>4, <1>5, <1>6, <1>7, TurnKeepsPart

LEMMA PublishReplyPart ==
    ASSUME ReplyBasics, ReplyPart, NEW r \in Replies, PublishReply(r), overlooked' = {}
    PROVE  ReplyPart'
<1>1. /\ stage[r] = "thinking" /\ "thinking" \in Busy
      /\ UNCHANGED <<manner, calledOff, lastClaim, began, soundPart, halt, silenced, overlooked>>
  BY DEF PublishReply, history, GoOn, Busy
<1>2. TurnOnly
  BY <1>1 DEF TurnOnly
<1>3. /\ \A q \in Replies : q # r => stage'[q] = stage[q]
      /\ \/ /\ stage'[r] = "published"
            /\ card' = ResponseArrived(IF r \in Typed THEN card ELSE TurnStarted(card, r), r)
         \/ /\ stage'[r] = "ending"
            /\ card' = TurnCancelled(card) \/ card' = card
  BY DEF PublishReply, GoOn, ReplyBasics, ReplyShapes
<1>4. card \in Cards /\ CardKept(card)
  BY DEF ReplyBasics, ReplyShapes, ReplyPart
<1>5. \A q \in Replies : q # r => stage'[q] \notin InTurn
  BY <1>1, <1>3, OneBusy
<1>6. /\ Typed' = Typed /\ Starting' = Starting /\ Starting \subseteq Replies
      /\ \A q \in Replies : InSession(q)' = InSession(q)
  BY <1>1, QuietKept DEF Starting, Typed
<1>7. Quiet
  BY <1>1 DEF ReplyPart, TurnsAreQuiet, InTurn
<1>8. \A q \in Starting' : ~InSession(q)'
  BY <1>6, <1>7 DEF Quiet
<1>9. CardKept(card') /\ CardAwaits' /\ ResponseAwaited'
  <2>1. CASE /\ stage'[r] = "published"
             /\ card' = ResponseArrived(IF r \in Typed THEN card ELSE TurnStarted(card, r), r)
    <3>1. PICK c : c = IF r \in Typed THEN card ELSE TurnStarted(card, r)
      OBVIOUS
    <3>2. c \in Cards /\ CardKept(c) /\ c.turn = r /\ ~c.ready /\ ~c.retired
      <4>1. CASE r \in Typed
        BY <1>1, <1>4, <3>1, <4>1 DEF ReplyPart, CardAwaits
      <4>2. CASE r \notin Typed
        BY <1>4, <3>1, <4>2, TurnStartedCard DEF CardKept
      <4> QED
        BY <4>1, <4>2
    <3>3. /\ CardKept(card') /\ card'.turn = r /\ card'.response = r
          /\ card'.shown = r \/ card'.reveal
      BY <2>1, <3>1, <3>2, ResponseCard
    <3>4. CardAwaits'
      BY <1>5, <1>6, <1>8, <2>1, <3>3 DEF CardAwaits, InTurn, Typed
    <3>5. InProgress(r)'
      BY <2>1 DEF InProgress, InTurn
    <3> QED
      BY <3>3, <3>4, <3>5 DEF ResponseAwaited
  <2>2. CASE stage'[r] = "ending" /\ card' = TurnCancelled(card)
    <3>1. CardKept(card') /\ card'.response = NoReply /\ card'.turn = card.turn
      BY <1>4, <2>2, TurnCancelledCard DEF CardKept
    <3>2. \A q \in Replies : stage'[q] \notin InTurn
      BY <1>5, <2>2 DEF InTurn
    <3>3. CardAwaits'
      BY <1>6, <1>8, <3>2 DEF CardAwaits, InTurn, Typed
    <3> QED
      BY <3>1, <3>3 DEF ResponseAwaited
  <2>3. CASE stage'[r] = "ending" /\ card' = card
    <3>1. \A q \in Replies : stage'[q] \in InTurn =>
             stage'[q] = stage[q] \/ (q \notin Typed /\ stage'[q] = "thinking")
      BY <1>5, <2>3 DEF InTurn
    <3>2. \A q \in Replies : stage[q] \in Due => stage'[q] \in Due \/ q \in silenced'
      BY <1>1, <1>3 DEF Due
    <3> QED
      BY <1>2, <2>3, <3>1, <3>2, CardStands
  <2> QED
    BY <1>3, <2>1, <2>2, <2>3
<1>10. \A q \in Replies : stage'[q] = "claimed" /\ InForce(q)' =>
         stage[q] = "claimed" /\ InForce(q) /\ halt'[q] = halt[q]
  BY <1>1, <1>3 DEF InForce
<1> QED
  BY <1>2, <1>7, <1>9, <1>10, TurnKeepsPart


\* The client is told that there is nothing to hear.
LEMMA NothingPart ==
    ASSUME ReplyBasics, ReplyPart, NEW r \in Replies, stage[r] \in Due, TurnOnly,
           card' = NothingToHear(card, r), stage'[r] = "ending",
           \A q \in Replies : q # r => stage'[q] = stage[q]
    PROVE  CardKept(card') /\ CardAwaits' /\ ResponseAwaited'
<1>1. card \in Cards /\ CardKept(card) /\ card.turn = r /\ r \in Maybe
  BY DEF ReplyBasics, ReplyShapes, ReplyPart, CardAwaits, Due, Maybe
<1>2. Told(card, card') /\ (card.reveal => card'.shown = card.response)
  BY <1>1, NothingCard
<1>3. \A q \in Replies : stage'[q] \notin InTurn
  BY DueStages, OneBusy DEF InTurn, Due
<1>4. /\ Typed' = Typed /\ Starting' = Starting /\ Starting \subseteq Replies
      /\ \A q \in Replies : InSession(q)' = InSession(q)
  BY QuietKept DEF Starting, Typed, TurnOnly
<1>5. CardAwaits'
  BY <1>2, <1>3, <1>4 DEF ReplyPart, CardAwaits, InTurn, Typed, Told
<1>6. ResponseAwaited'
  BY <1>1, <1>2 DEF ReplyPart, ResponseAwaited, Told, TurnOnly
<1> QED
  BY <1>2, <1>5, <1>6 DEF Told

LEMMA DecideSpeechPart ==
    ASSUME ReplyBasics, ReplyPart, NEW r \in Replies, DecideSpeech(r), overlooked' = {}
    PROVE  ReplyPart'
<1>1. /\ stage[r] = "published"
      /\ UNCHANGED <<manner, calledOff, lastClaim, began, soundPart, halt, overlooked>>
      /\ silenced' = IF MaySpeak(r) THEN silenced ELSE silenced \cup {r}
  BY DEF DecideSpeech
<1>2. TurnOnly
  BY <1>1 DEF TurnOnly
<1>3. /\ \A q \in Replies : q # r => stage'[q] = stage[q]
      /\ \/ stage'[r] = "dispatching" /\ card' = card
         \/ stage'[r] = "ending" /\ card' = NothingToHear(card, r)
         \/ ~MaySpeak(r) /\ stage'[r] = "ending" /\ card' = card
  BY DEF DecideSpeech, GoOn, ReplyBasics, ReplyShapes
<1>4. stage[r] \in Due /\ stage[r] \in InTurn
  BY <1>1, DueStages DEF InTurn
<1>5. \A q \in Replies : stage'[q] \in InTurn => stage[q] \in InTurn
  BY <1>3, <1>4
<1>6. CardKept(card') /\ CardAwaits' /\ ResponseAwaited'
  <2>1. CASE stage'[r] = "dispatching" /\ card' = card
    <3>1. /\ Typed' = Typed /\ Starting' = Starting /\ Starting \subseteq Replies
          /\ \A q \in Replies : InSession(q)' = InSession(q)
      BY <1>1, QuietKept DEF Starting, Typed
    <3>2. CardAwaits'
      BY <1>3, <1>4, <2>1, <3>1 DEF ReplyPart, CardAwaits, InTurn, Due, Typed
    <3>3. ResponseAwaited'
      <4>1. SUFFICES ASSUME card.response \notin silenced' \cup {NoReply}, card.shown # card.response
                     PROVE  card.reveal /\ InProgress(card.response)'
        BY <2>1 DEF ResponseAwaited
      <4>2. card.response \in Replies
        BY <4>1 DEF ReplyBasics, ReplyShapes, Cards, Maybe
      <4>3. card.reveal /\ InProgress(card.response)
        BY <1>2, <4>1 DEF ReplyPart, ResponseAwaited, TurnOnly
      <4>4. stage[card.response] \in Due => stage'[card.response] \in Due
        BY <1>3, <2>1, <4>2, DueStages
      <4> QED
        BY <1>2, <2>1, <4>2, <4>3, <4>4, ProgressKept
    <3> QED
      BY <2>1, <3>2, <3>3 DEF ReplyPart
  <2>2. CASE stage'[r] = "ending" /\ card' = NothingToHear(card, r)
    BY <1>2, <1>3, <1>4, <2>2, NothingPart
  <2>3. CASE ~MaySpeak(r) /\ stage'[r] = "ending" /\ card' = card
    <3>1. \A q \in Replies : stage'[q] \in InTurn => stage'[q] = stage[q]
      BY <1>3, <2>3 DEF InTurn
    <3>2. \A q \in Replies : stage[q] \in Due => stage'[q] \in Due \/ q \in silenced'
      BY <1>1, <1>3, <2>3
    <3> QED
      BY <1>2, <2>3, <3>1, <3>2, CardStands
  <2> QED
    BY <1>3, <2>1, <2>2, <2>3
<1>7. \A q \in Replies : stage'[q] = "claimed" /\ InForce(q)' =>
         stage[q] = "claimed" /\ InForce(q) /\ halt'[q] = halt[q]
  BY <1>1, <1>3 DEF InForce
<1> QED
  BY <1>2, <1>5, <1>6, <1>7, TurnKeepsPart

LEMMA ReportFailurePart ==
    ASSUME ReplyBasics, ReplyPart, NEW r \in Replies, ReportFailure(r), overlooked' = {}
    PROVE  ReplyPart'
<1>1. /\ stage[r] = "unspoken" /\ stage'[r] = "ending"
      /\ \A q \in Replies : q # r => stage'[q] = stage[q]
      /\ UNCHANGED <<manner, calledOff, lastClaim, began, soundPart, halt, overlooked>>
      /\ \/ card' = NothingToHear(card, r) /\ silenced' = silenced
         \/ card' = card /\ silenced' = silenced \cup {r}
  BY DEF ReportFailure, GoOn, ReplyBasics, ReplyShapes
<1>2. TurnOnly
  BY <1>1 DEF TurnOnly
<1>3. stage[r] \in Due
  BY <1>1, DueStages
<1>4. \A q \in Replies : stage'[q] \in InTurn => stage'[q] = stage[q]
  BY <1>1 DEF InTurn
<1>5. CardKept(card') /\ CardAwaits' /\ ResponseAwaited'
  <2>1. CASE card' = NothingToHear(card, r)
    BY <1>1, <1>2, <1>3, <2>1, NothingPart
  <2>2. CASE card' = card /\ silenced' = silenced \cup {r}
    <3>1. \A q \in Replies : stage[q] \in Due => stage'[q] \in Due \/ q \in silenced'
      BY <1>1, <2>2
    <3> QED
      BY <1>2, <1>4, <2>2, <3>1, CardStands
  <2> QED
    BY <1>1, <2>1, <2>2
<1>6. \A q \in Replies : stage'[q] = "claimed" /\ InForce(q)' =>
         stage[q] = "claimed" /\ InForce(q) /\ halt'[q] = halt[q]
  BY <1>1 DEF InForce
<1> QED
  BY <1>2, <1>4, <1>5, <1>6, TurnKeepsPart

LEMMA EndTurnPart ==
    ASSUME ReplyBasics, ReplyPart, NEW r \in Replies, EndTurn(r), overlooked' = {}
    PROVE  ReplyPart'
<1>1. /\ stage[r] = "ending" /\ stage'[r] = "done"
      /\ \A q \in Replies : q # r => stage'[q] = stage[q]
      /\ UNCHANGED <<manner, calledOff, began, soundPart, halt, card, silenced, overlooked>>
      /\ lastClaim' \in {NoReply, lastClaim}
  BY DEF EndTurn, GoOn, ReplyBasics, ReplyShapes, history
<1>2. TurnOnly
  BY <1>1 DEF TurnOnly
<1>3. \A q \in Replies : stage'[q] \in InTurn => stage'[q] = stage[q]
  BY <1>1 DEF InTurn
<1>4. \A q \in Replies : stage[q] \in Due => stage'[q] \in Due
  BY <1>1 DEF Due, InTurn
<1>5. CardKept(card') /\ CardAwaits' /\ ResponseAwaited'
  BY <1>1, <1>2, <1>3, <1>4, CardStands
<1>6. \A q \in Replies : stage'[q] = "claimed" /\ InForce(q)' =>
         stage[q] = "claimed" /\ InForce(q) /\ halt'[q] = halt[q]
  BY <1>1, ReplyNumbers DEF InForce
<1> QED
  BY <1>2, <1>3, <1>5, <1>6, TurnKeepsPart

\* While a turn that may speak is at work, no claim is in force but its own.
LEMMA NoOtherClaim ==
    ASSUME ReplyBasics, NEW r \in Replies, stage[r] \in Busy, r \notin calledOff
    PROVE  \A q \in Replies : InForce(q) => q = r
  BY DEF ReplyBasics, FloorTaken, InForce

LEMMA DispatchSpeechPart ==
    ASSUME ReplyBasics, ReplyPart, NEW r \in Replies, DispatchSpeech(r), overlooked' = {}
    PROVE  ReplyPart'
<1>1. /\ stage[r] = "dispatching" /\ stage[r] \in Busy /\ stage[r] \in Due /\ stage[r] \in InTurn
      /\ UNCHANGED <<manner, calledOff, lastClaim, began, halt, card, overlooked>>
  BY DueStages DEF DispatchSpeech, GoOn, Busy, InTurn
<1>2. /\ \A q \in Replies : q # r => stage'[q] = stage[q]
      /\ \A q \in Replies : q # r => stage[q] \notin InTurn
  BY <1>1, OneBusy DEF DispatchSpeech, GoOn, ReplyBasics, ReplyShapes
<1>3. /\ player[r].step = "none" /\ player[r].token = 0
      /\ Quiet /\ card.turn = r /\ CardKept(card)
      /\ ResponseAwaited /\ card \in Cards
  BY <1>1 DEF ReplyBasics, NotYet, ReplyPart, TurnsAreQuiet, CardAwaits, ReplyShapes, Due
<1>4. CASE ~MaySpeak(r) /\ stage'[r] = "ending" /\ silenced' = silenced \cup {r} /\ UNCHANGED soundPart
  <2>1. TurnOnly
    BY <1>1, <1>4 DEF TurnOnly
  <2>2. \A q \in Replies : stage'[q] \in InTurn => stage'[q] = stage[q]
    BY <1>2, <1>4 DEF InTurn
  <2>3. \A q \in Replies : stage[q] \in Due => stage'[q] \in Due \/ q \in silenced'
    BY <1>2, <1>4
  <2>4. \A q \in Replies : stage'[q] = "claimed" /\ InForce(q)' =>
           stage[q] = "claimed" /\ InForce(q) /\ halt'[q] = halt[q]
    BY <1>1, <1>2, <1>4 DEF InForce
  <2>5. CardKept(card') /\ CardAwaits' /\ ResponseAwaited'
    BY <1>1, <2>1, <2>2, <2>3, CardStands
  <2> QED
    BY <2>1, <2>2, <2>4, <2>5, TurnKeepsPart
<1>5. CASE /\ MaySpeak(r) /\ manner.responsive /\ stage'[r] = "ending"
           /\ voice' = [voice EXCEPT !.queue = r, !.pending = r]
           /\ player' = [player EXCEPT ![r].step = "opening"]
           /\ UNCHANGED <<session, history>>
  <2>1. /\ player'[r].step = "opening" /\ player'[r].token = 0
        /\ \A q \in Replies : q # r => player'[q] = player[q]
    BY <1>3, <1>5, PlayerHandlers DEF Playing, PlayerStages, ReplyBasics
  <2>2. /\ voice'.generation = voice.generation /\ voice'.queue = r /\ voice'.pending = r
        /\ voice'.playing = voice.playing
    BY <1>5 DEF ReplyBasics, ReplyShapes, Voices
  <2>3. /\ voice.playing = NoReply /\ voice.queue = NoReply /\ voice.pending = NoReply
        /\ session' = session /\ silenced' = silenced
    BY <1>3, <1>5 DEF Quiet, ReplyBasics, CallsKnown, history
  <2>4. \A q \in Replies : stage'[q] \notin InTurn
    BY <1>2, <1>5 DEF InTurn
  <2>5. TurnsAreQuiet'
    <3>1. \A q \in Replies : stage'[q] = "claimed" => ~InForce(q)'
      BY <1>1, <1>2, <1>5, NoOtherClaim DEF MaySpeak, InForce
    <3> QED
      BY <2>4, <3>1 DEF TurnsAreQuiet
  <2>6. PlayingIsHeard' /\ StopsTell'
    BY <1>1, <1>5, <2>2, <2>3 DEF ReplyPart, PlayingIsHeard, StopsTell
  <2>7. QueueIsKnown'
    <3>1. \A q \in Replies :
             player[q].step \in {"opening", "announcing", "playing"} => began[q] # voice.generation
      BY <1>5, <2>3, ReplyNumbers DEF ReplyPart, QueueIsKnown
    <3>2. \A q \in Replies : InSession(q)' = (player'[q].token = session)
      BY <2>3 DEF InSession
    <3>3. ASSUME NEW h \in Halts, NEW q \in Replies,
                 halt[h].step = "detached", player'[q].token # 0, began[q] >= halt[h].generation
          PROVE  player'[q].token > halt[h].session
      BY <1>5, <2>1, <3>3 DEF ReplyPart, QueueIsKnown
    <3>4. \A q \in Replies :
              player'[q].step \in {"opening", "announcing", "playing"} /\ began[q] = voice.generation
                 => q = r
      BY <2>1, <3>1
    <3> QED
      BY <1>1, <2>1, <2>2, <3>3, <3>4 DEF QueueIsKnown
  <2>8. Starting' = {}
    BY <1>1, <1>5 DEF Starting
  <2>9. CardAwaits'
    BY <1>1, <2>4, <2>8 DEF CardAwaits, InTurn, Typed
  <2>10. ResponseAwaited'
    <3>1. SUFFICES ASSUME card.response \notin silenced \cup {NoReply}, card.shown # card.response
                   PROVE  card.reveal /\ InProgress(card.response)'
      BY <1>1, <2>3 DEF ResponseAwaited
    <3>2. card.response \in Replies /\ card.reveal /\ card.response = r
      BY <1>3, <3>1 DEF ResponseAwaited, CardKept
    <3> QED
      BY <1>1, <2>1, <2>2, <3>2 DEF InProgress
  <2> QED
    BY <1>1, <1>3, <2>5, <2>6, <2>7, <2>9, <2>10 DEF ReplyPart
<1>6. CASE /\ MaySpeak(r) /\ ~manner.responsive /\ stage'[r] = "ending"
           /\ session' = session + 1
           /\ player' = [player EXCEPT ![r] = [step |-> "opening", token |-> session + 1]]
           /\ UNCHANGED <<voice, history>>
  <2>0. session \in Nat /\ session + 1 \in Nat
    BY DEF ReplyBasics, ReplyShapes
  <2>1. /\ player'[r].step = "opening" /\ player'[r].token = session + 1
        /\ \A q \in Replies : q # r => player'[q] = player[q]
    BY <1>6, <2>0, PlayerMoves, "opening" \in PlayerStages DEF PlayerStages, ReplyBasics
  <2>2. voice.playing = NoReply /\ voice.queue = NoReply /\ silenced' = silenced
    BY <1>3, <1>6 DEF Quiet, history
  <2>4. \A q \in Replies : stage'[q] \notin InTurn
    BY <1>2, <1>6 DEF InTurn
  <2>5. TurnsAreQuiet'
    <3>1. \A q \in Replies : stage'[q] = "claimed" => ~InForce(q)'
      BY <1>1, <1>2, <1>6, NoOtherClaim DEF MaySpeak, InForce
    <3> QED
      BY <2>4, <3>1 DEF TurnsAreQuiet
  <2>6. PlayingIsHeard' /\ StopsTell' /\ QueueIsKnown'
    BY <1>1, <1>6, <2>2 DEF ReplyPart, PlayingIsHeard, StopsTell, QueueIsKnown
  <2>7. \A q \in Replies : InSession(q)' => q = r
    <3>1. \A q \in Replies : player[q].token \in Nat /\ player[q].token <= session
      BY DEF ReplyBasics, ReplyShapes, Players, SessionsKnown
    <3>2. \A q \in Replies : q # r => player'[q].token # session + 1
      BY <2>0, <2>1, <3>1
    <3> QED
      BY <1>6, <3>2 DEF InSession
  <2>8. Starting' \subseteq Replies
    BY DEF Starting
  <2>9. CardAwaits'
    BY <1>1, <1>3, <2>4, <2>7, <2>8 DEF CardAwaits, InTurn, Typed
  <2>10. ResponseAwaited'
    <3>1. SUFFICES ASSUME card.response \notin silenced \cup {NoReply}, card.shown # card.response
                   PROVE  card.reveal /\ InProgress(card.response)'
      BY <1>1, <2>2 DEF ResponseAwaited
    <3>2. card.reveal /\ card.response = r
      BY <1>3, <3>1 DEF ResponseAwaited, CardKept
    <3>3. r \in Starting'
      BY <1>1, <1>6, <2>1 DEF Starting
    <3> QED
      BY <1>1, <3>2, <3>3 DEF InProgress
  <2> QED
    BY <1>1, <1>3, <2>5, <2>6, <2>9, <2>10 DEF ReplyPart
<1>7. CASE stage'[r] = "unspoken" /\ UNCHANGED <<soundPart, history>>
  <2>1. TurnOnly
    BY <1>1, <1>7 DEF TurnOnly, history
  <2>2. /\ Typed' = Typed /\ Starting' = Starting /\ Starting \subseteq Replies
        /\ \A q \in Replies : InSession(q)' = InSession(q)
    BY <1>1, <1>7, QuietKept DEF Starting, Typed
  <2>3. CardAwaits'
    BY <1>1, <1>2, <1>3, <1>7, <2>2 DEF ReplyPart, CardAwaits, InTurn, Due, Typed
  <2>4. ResponseAwaited'
    <3>1. SUFFICES ASSUME card.response \notin silenced \cup {NoReply}, card.shown # card.response
                   PROVE  card.reveal /\ InProgress(card.response)'
      BY <1>1, <1>7 DEF ResponseAwaited, history
    <3>2. card.reveal /\ card.response = r
      BY <1>3, <3>1 DEF ResponseAwaited, CardKept
    <3> QED
      BY <1>1, <1>7, <3>2 DEF InProgress, InTurn
  <2>5. \A q \in Replies : stage'[q] = "claimed" /\ InForce(q)' =>
           stage[q] = "claimed" /\ InForce(q) /\ halt'[q] = halt[q]
    BY <1>1, <1>2, <1>7 DEF InForce
  <2>6. \A q \in Replies : stage'[q] \in InTurn => stage[q] \in InTurn
    BY <1>1, <1>2
  <2> QED
    BY <1>1, <1>3, <2>1, <2>3, <2>4, <2>5, <2>6, TurnKeepsPart
<1>8. GoOn(r, "dispatching", "ending") => stage'[r] = "ending"
  BY DEF GoOn, ReplyBasics, ReplyShapes
<1>9. GoOn(r, "dispatching", "unspoken") => stage'[r] = "unspoken"
  BY DEF GoOn, ReplyBasics, ReplyShapes
<1> QED
  BY <1>4, <1>5, <1>6, <1>7, <1>8, <1>9 DEF DispatchSpeech


-----------------------------------------------------------------------------
\* Nobody speaks, and whoever would has asked for a stop first.
NothingInTurn ==
    \A q \in Replies : /\ stage[q] \notin InTurn
                       /\ stage[q] = "claimed" /\ InForce(q) => halt[q].step = "asked"

LEMMA SoundMeansNoTurn ==
    ASSUME ReplyBasics, ReplyPart,
           \/ voice.queue # NoReply
           \/ voice.playing # NoReply
           \/ ~StopUnderWay /\ \E q \in Starting : InSession(q)
    PROVE  NothingInTurn
<1>1. ~Quiet
  BY DEF Quiet
<1>2. \A q \in Replies : stage[q] \notin InTurn
  BY <1>1 DEF ReplyPart, TurnsAreQuiet
<1>3. ASSUME NEW q \in Replies, stage[q] = "claimed", InForce(q)
      PROVE  halt[q].step = "asked"
  <2>1. halt[q].step \in HaltSteps /\ q \in Halts
    BY ReplyNumbers DEF ReplyBasics, ReplyShapes, HaltCalls
  <2>2. halt[q].step \notin {"idle", "halted", "done"}
    BY <1>1, <1>3 DEF ReplyPart, TurnsAreQuiet
  <2>3. halt[q].step # "detached"
    <3>1. halt[q].step = "detached" => voice.playing = NoReply /\ voice.queue = NoReply /\ StopUnderWay
      BY <1>3, <2>1 DEF ReplyPart, TurnsAreQuiet, StopUnderWay
    <3> QED
      BY <3>1
  <2> QED
    BY <2>1, <2>2, <2>3 DEF HaltSteps
<1> QED
  BY <1>2, <1>3 DEF NothingInTurn

LEMMA NoTurnKept ==
    ASSUME NothingInTurn, UNCHANGED <<manner, turnPart, halt>>,
           \A q \in Starting' : InSession(q)' => card'.turn = q
    PROVE  TurnsAreQuiet' /\ CardAwaits'
<1>1. UNCHANGED <<manner, stage, calledOff, lastClaim, halt>>
  BY DEF turnPart
<1>2. \A q \in Replies : /\ stage'[q] \notin InTurn
                         /\ stage'[q] = "claimed" /\ InForce(q)' => halt'[q].step = "asked"
  BY <1>1 DEF NothingInTurn, InForce
<1>3. TurnsAreQuiet'
  BY <1>2 DEF TurnsAreQuiet
<1>4. CardAwaits'
  BY <1>2 DEF CardAwaits, InTurn, Typed
<1> QED
  BY <1>3, <1>4

\* Less is heard than before, and the card is left alone.
LEMMA QuieterKept ==
    ASSUME ReplyBasics, ReplyPart, UNCHANGED <<manner, turnPart, halt, session, card>>,
           voice'.playing \in {voice.playing, NoReply}, voice'.queue \in {voice.queue, NoReply},
           Starting' \subseteq Starting,
           \A q \in Replies : player'[q].token = player[q].token
    PROVE  TurnsAreQuiet' /\ CardAwaits' /\ CardKept(card') /\ Told(card, card')
<1>1. UNCHANGED <<manner, stage, calledOff, lastClaim, halt, session, card>>
  BY DEF turnPart
<1>2. \A q \in Replies : InSession(q)' = InSession(q)
  BY <1>1 DEF InSession
<1>3. Starting \subseteq Replies /\ Typed' = Typed
  BY <1>1 DEF Starting, Typed
<1>4. Quiet => Quiet'
  BY <1>2, <1>3 DEF Quiet
<1>5. \A q \in Replies : InForce(q)' = InForce(q)
  BY <1>1 DEF InForce
<1>6. TurnsAreQuiet'
  <2>1. ASSUME NEW q \in Replies, stage[q] = "claimed", InForce(q)
        PROVE  /\ halt[q].step \in {"idle", "halted", "done"} => Quiet'
               /\ halt[q].step = "detached" =>
                     /\ voice'.playing = NoReply /\ voice'.queue = NoReply
                     /\ \A p \in Starting' : InSession(p)' => session <= halt[q].session
    <3>1. /\ halt[q].step \in {"idle", "halted", "done"} => Quiet
          /\ halt[q].step = "detached" =>
                     /\ voice.playing = NoReply /\ voice.queue = NoReply
                     /\ \A p \in Starting : InSession(p) => session <= halt[q].session
      BY <2>1 DEF ReplyPart, TurnsAreQuiet
    <3> QED
      BY <1>2, <1>3, <1>4, <3>1
  <2>2. \A q \in Replies : stage[q] \in InTurn => Quiet'
    BY <1>4 DEF ReplyPart, TurnsAreQuiet
  <2> QED
    BY <1>1, <1>5, <2>1, <2>2 DEF TurnsAreQuiet
<1>7. CardAwaits'
  BY <1>1, <1>2, <1>3 DEF ReplyPart, CardAwaits
<1> QED
  BY <1>1, <1>6, <1>7, LeftAlone DEF ReplyPart, ReplyBasics, ReplyShapes

\* A player that ends takes nothing along that is still referred to.
LEMMA OverKeepsSound ==
    ASSUME ReplyBasics, ReplyPart, NEW r \in Replies, Playing(r, "over"),
           UNCHANGED <<manner, turnPart, session, halt>>, silenced \subseteq silenced',
           voice'.generation = voice.generation, voice'.queue = voice.queue,
           voice'.pending = voice.pending, voice'.playing \in {NoReply, voice.playing},
           voice'.playing = r => \/ ~manner.responsive /\ r \in silenced'
                                 \/ player[r].step # "playing" \/ ~InSession(r)
    PROVE  /\ PlayingIsHeard' /\ QueueIsKnown' /\ StopsTell'
           /\ Starting' \subseteq Starting
           /\ \A q \in Replies : player'[q].token = player[q].token
           /\ \A q \in Replies : q # r => player'[q] = player[q]
           /\ player'[r].step = "over"
<1>1. /\ player'[r].step = "over" /\ player'[r].token = player[r].token
      /\ \A q \in Replies : q # r => player'[q] = player[q]
  BY PlayerHandlers DEF ReplyBasics, PlayerStages
<1>2. /\ \A q \in Replies : player'[q].token = player[q].token
      /\ \A q \in Replies : InSession(q)' = InSession(q)
      /\ UNCHANGED <<manner, began, session, halt>>
  BY <1>1 DEF InSession, turnPart
<1>3. Starting' \subseteq Starting
  BY <1>1, <1>2 DEF Starting
<1>4. voice.playing \in Maybe /\ voice.pending \in Maybe
  BY DEF ReplyBasics, ReplyShapes, Voices
<1>5. PlayingIsHeard'
  <2>1. ASSUME voice'.playing # NoReply
        PROVE  \/ ~manner.responsive /\ voice'.playing \in silenced'
               \/ /\ player'[voice'.playing].step = "playing"
                  /\ player'[voice'.playing].token = session
                  /\ manner.responsive => began[voice'.playing] = voice.generation
    <3>1. voice'.playing = voice.playing /\ voice.playing \in Replies
      BY <1>4, <2>1 DEF Maybe
    <3>2. \/ ~manner.responsive /\ voice.playing \in silenced
          \/ /\ player[voice.playing].step = "playing" /\ InSession(voice.playing)
             /\ manner.responsive => began[voice.playing] = voice.generation
      BY <2>1, <3>1 DEF ReplyPart, PlayingIsHeard
    <3>3. CASE voice.playing = r
      BY <3>1, <3>2, <3>3
    <3>4. CASE voice.playing # r
      BY <1>1, <3>1, <3>2, <3>4 DEF InSession
    <3> QED
      BY <3>3, <3>4
  <2>2. StopUnderWay' = StopUnderWay
    BY <1>2 DEF StopUnderWay
  <2>3. ~manner.responsive /\ StopUnderWay => voice'.playing = NoReply
    BY DEF ReplyPart, PlayingIsHeard
  <2> QED
    BY <1>2, <2>1, <2>2, <2>3 DEF PlayingIsHeard, InSession
<1>6. QueueIsKnown'
  <2>1. ASSUME manner.responsive
        PROVE  /\ \A q \in Replies :
                    /\ player'[q].step \in {"opening", "announcing", "playing"}
                          /\ began[q] = voice.generation => voice.queue = q
                    /\ player'[q].step = "announcing" /\ began[q] = voice.generation => InSession(q)'
               /\ voice.pending # NoReply => player'[voice.pending].step # "playing"
    <3>1. \A q \in Replies : player'[q].step = player[q].step \/ player'[q].step = "over"
      BY <1>1
    <3> QED
      BY <1>2, <1>4, <2>1, <3>1 DEF ReplyPart, QueueIsKnown, Maybe
  <2> QED
    BY <1>2, <2>1 DEF ReplyPart, QueueIsKnown
<1>7. StopsTell'
  BY <1>2 DEF ReplyPart, StopsTell
<1> QED
  BY <1>1, <1>2, <1>3, <1>5, <1>6, <1>7

\* What is awaited of the others is not touched.
LEMMA AwaitedKept ==
    ASSUME ReplyBasics, ReplyPart, NEW r \in Replies, UNCHANGED <<manner, turnPart, halt>>,
           \A q \in Replies : q # r => player'[q] = player[q],
           voice'.pending = voice.pending \/ voice.pending \in {NoReply, r},
           silenced \subseteq silenced', Told(card, card'),
           card.response = r /\ card'.shown # r /\ card.reveal /\ InProgress(r) =>
              r \in silenced' \/ InProgress(r)'
    PROVE  ResponseAwaited'
<1>1. SUFFICES ASSUME card'.response \notin silenced' \cup {NoReply}, card'.shown # card'.response
               PROVE  card'.reveal /\ InProgress(card.response)'
  BY DEF ResponseAwaited, Told
<1>2. card'.response = card.response /\ card'.shown = card.shown /\ card'.reveal = card.reveal
  BY <1>1 DEF Told
<1>3. PICK x : x = card.response
  OBVIOUS
<1>4. x \in Replies
  BY <1>1, <1>2, <1>3 DEF ReplyBasics, ReplyShapes, Cards, Maybe
<1>5. card.reveal /\ InProgress(x)
  BY <1>1, <1>2, <1>3 DEF ReplyPart, ResponseAwaited
<1>6. InProgress(x)'
  <2>1. CASE x = r
    BY <1>1, <1>2, <1>3, <1>5, <2>1
  <2>2. CASE x # r
    <3>1. player'[x] = player[x] /\ UNCHANGED <<manner, stage, calledOff, halt>>
      BY <1>4, <2>2 DEF turnPart
    <3>2. x \in Starting => x \in Starting'
      BY <3>1 DEF Starting
    <3>3. voice.pending = x => voice'.pending = x
      BY <1>4, <2>2, ReplyNumbers
    <3> QED
      BY <1>5, <3>1, <3>2, <3>3 DEF InProgress
  <2> QED
    BY <2>1, <2>2
<1> QED
  BY <1>2, <1>3, <1>5, <1>6


LEMMA OpenDevicePart ==
    ASSUME ReplyBasics, ReplyPart, NEW r \in Replies, OpenDevice(r), overlooked' = {}
    PROVE  ReplyPart'
<1>1. /\ player[r].step = "opening" /\ UNCHANGED <<manner, turnPart, halt>>
      /\ voice' = voice
  BY DEF OpenDevice, history
<1>2. UNCHANGED <<manner, stage, calledOff, lastClaim, began, halt>>
  BY <1>1 DEF turnPart
<1>3. card \in Cards /\ CardKept(card) /\ voice.pending \in {NoReply, voice.queue}
  BY DEF ReplyBasics, ReplyShapes, ReplyPart, CallsKnown
<1>4. ASSUME manner.responsive, MaySpeak(r)
      PROVE  /\ began[r] = voice.generation /\ voice.queue = r /\ voice.playing = NoReply
             /\ NothingInTurn /\ Starting' = {}
             /\ \A q \in Replies : q # r /\ player[q].step \in {"opening", "announcing", "playing"}
                                      => began[q] # voice.generation
  <2>1. began[r] = voice.generation
    BY <1>4 DEF MaySpeak
  <2>2. voice.queue = r
    BY <1>1, <1>4, <2>1 DEF ReplyPart, QueueIsKnown
  <2>3. \A q \in Replies : q # r /\ player[q].step \in {"opening", "announcing", "playing"}
                                      => began[q] # voice.generation
    BY <1>4, <2>2 DEF ReplyPart, QueueIsKnown
  <2>4. voice.playing = NoReply
    <3>1. voice.playing \in Maybe
      BY DEF ReplyBasics, ReplyShapes, Voices
    <3> QED
      BY <1>1, <1>4, <2>3, <3>1 DEF ReplyPart, PlayingIsHeard, Maybe
  <2>5. NothingInTurn
    BY <2>2, ReplyNumbers, SoundMeansNoTurn
  <2> QED
    BY <1>2, <1>4, <2>1, <2>2, <2>3, <2>4, <2>5 DEF Starting
<1>5. CASE /\ manner.responsive /\ MaySpeak(r) /\ session' = session + 1
           /\ player' = [player EXCEPT ![r] = [step |-> "announcing", token |-> session + 1]]
           /\ UNCHANGED <<voice, card, history>>
  <2>0. session \in Nat /\ session + 1 \in Nat /\ "announcing" \in PlayerStages
    BY DEF ReplyBasics, ReplyShapes, PlayerStages
  <2>1. /\ player'[r].step = "announcing" /\ player'[r].token = session + 1
        /\ \A q \in Replies : q # r => player'[q] = player[q]
    BY <1>5, <2>0, PlayerMoves DEF ReplyBasics
  <2>2. /\ voice.queue = r /\ voice.playing = NoReply /\ NothingInTurn /\ Starting' = {}
        /\ \A q \in Replies : q # r /\ player[q].step \in {"opening", "announcing", "playing"}
                                      => began[q] # voice.generation
    BY <1>4, <1>5
  <2>3. TurnsAreQuiet' /\ CardAwaits'
    BY <1>1, <2>2, NoTurnKept
  <2>4. PlayingIsHeard' /\ StopsTell'
    BY <1>1, <1>2, <1>5, <2>2 DEF ReplyPart, PlayingIsHeard, StopsTell
  <2>5. QueueIsKnown'
    <3>1. \A q \in Replies : player'[q].step \in {"opening", "announcing", "playing"}
                                /\ began[q] = voice.generation => q = r
      BY <2>1, <2>2
    <3>2. InSession(r)'
      BY <1>5, <2>1 DEF InSession
    <3>3. voice.pending # NoReply => player'[voice.pending].step # "playing"
      BY <1>3, <2>1, <2>2
    <3>4. ASSUME NEW h \in Halts, NEW q \in Replies, halt[h].step = "detached",
                 player'[q].token # 0, began[q] >= halt[h].generation
          PROVE  player'[q].token > halt[h].session
      <4>1. CASE q = r
        <5>1. halt[h].session \in Nat /\ halt[h].session <= session
          BY DEF ReplyBasics, ReplyShapes, HaltCalls, CallsKnown
        <5> QED
          BY <2>0, <2>1, <4>1, <5>1
      <4>2. CASE q # r
        BY <1>5, <2>1, <3>4, <4>2 DEF ReplyPart, QueueIsKnown
      <4> QED
        BY <4>1, <4>2
    <3> QED
      BY <1>1, <1>2, <2>2, <3>1, <3>2, <3>3, <3>4 DEF QueueIsKnown
  <2>6. ResponseAwaited'
    <3>1. Told(card, card') /\ silenced' = silenced
      BY <1>3, <1>5, LeftAlone DEF history
    <3>2. InProgress(r) => InProgress(r)'
      <4>1. r \notin Starting
        BY <1>5 DEF Starting
      <4> QED
        BY <1>1, <1>2, <2>1, <4>1 DEF InProgress
    <3> QED
      BY <1>1, <2>1, <3>1, <3>2, AwaitedKept
  <2> QED
    BY <1>3, <1>5, <2>3, <2>4, <2>5, <2>6 DEF ReplyPart
<1>6. CASE /\ manner.responsive /\ MaySpeak(r) /\ Playing(r, "over")
           /\ card' = CommittedEnded(card, r, NoReply)
           /\ UNCHANGED <<voice, session, history>>
  <2>1. /\ voice.playing = NoReply /\ NothingInTurn /\ Starting' = {}
    BY <1>4, <1>6
  <2>2. TurnsAreQuiet' /\ CardAwaits'
    BY <1>1, <2>1, NoTurnKept
  <2>3. /\ PlayingIsHeard' /\ QueueIsKnown' /\ StopsTell'
        /\ \A q \in Replies : q # r => player'[q] = player[q]
    BY <1>1, <1>6, OverKeepsSound DEF history
  <2>4. Told(card, card') /\ (card.reveal /\ card.response = r => card'.shown = r)
    BY <1>3, <1>6, CommittedEndedCard DEF Maybe
  <2>5. ResponseAwaited'
    BY <1>1, <1>6, <2>3, <2>4, AwaitedKept DEF history
  <2> QED
    BY <2>2, <2>3, <2>4, <2>5 DEF ReplyPart, Told
<1>7. CASE /\ manner.responsive /\ ~MaySpeak(r) /\ Playing(r, "over")
           /\ UNCHANGED <<voice, session, card, silenced>>
  <2>1. /\ PlayingIsHeard' /\ QueueIsKnown' /\ StopsTell' /\ Starting' \subseteq Starting
        /\ \A q \in Replies : player'[q].token = player[q].token
        /\ \A q \in Replies : q # r => player'[q] = player[q]
    BY <1>1, <1>7, OverKeepsSound
  <2>2. TurnsAreQuiet' /\ CardAwaits' /\ CardKept(card') /\ Told(card, card')
    BY <1>1, <1>7, <2>1, QuieterKept
  <2>3. InProgress(r) => InProgress(r)'
    <3>1. r \notin Starting
      BY <1>7 DEF Starting
    <3>2. voice.pending = r => r \in calledOff
      <4>1. voice.pending = r => began[r] = voice.generation
        BY <1>3, ReplyNumbers DEF ReplyBasics, CallsKnown
      <4> QED
        BY <1>7, <4>1 DEF MaySpeak
    <3> QED
      BY <1>1, <1>2, <3>1, <3>2 DEF InProgress
  <2>4. ResponseAwaited'
    BY <1>1, <1>7, <2>1, <2>2, <2>3, AwaitedKept
  <2> QED
    BY <2>1, <2>2, <2>4 DEF ReplyPart
<1>8. CASE /\ ~manner.responsive /\ Playing(r, "announcing")
           /\ UNCHANGED <<voice, session, card, history>>
  <2>1. /\ player'[r].step = "announcing" /\ player'[r].token = player[r].token
        /\ \A q \in Replies : q # r => player'[q] = player[q]
    BY <1>8, PlayerHandlers DEF ReplyBasics, PlayerStages
  <2>2. Starting' = Starting
    BY <1>1, <1>2, <2>1 DEF Starting
  <2>3. \A q \in Replies : player'[q].token = player[q].token
    BY <2>1
  <2>4. TurnsAreQuiet' /\ CardAwaits' /\ CardKept(card') /\ Told(card, card')
    BY <1>1, <1>8, <2>2, <2>3, QuieterKept
  <2>5. PlayingIsHeard'
    <3>1. voice.playing \in Maybe
      BY DEF ReplyBasics, ReplyShapes, Voices
    <3>2. StopUnderWay' = StopUnderWay
      BY <1>2 DEF StopUnderWay
    <3> QED
      BY <1>1, <1>2, <1>8, <2>1, <3>1, <3>2 DEF ReplyPart, PlayingIsHeard, InSession, Maybe, history
  <2>6. QueueIsKnown' /\ StopsTell'
    BY <1>2, <1>8 DEF ReplyPart, QueueIsKnown, StopsTell
  <2>7. r \in Starting'
    BY <1>2, <1>8, <2>1 DEF Starting
  <2>8. InProgress(r)'
    BY <2>7 DEF InProgress
  <2>9. ResponseAwaited'
    BY <1>1, <1>8, <2>1, <2>4, <2>8, AwaitedKept DEF history
  <2> QED
    BY <2>4, <2>5, <2>6, <2>9 DEF ReplyPart
<1>9. CASE /\ ~manner.responsive /\ Playing(r, "over") /\ silenced' = silenced \cup {r}
           /\ UNCHANGED <<voice, session, card>>
  <2>1. /\ PlayingIsHeard' /\ QueueIsKnown' /\ StopsTell' /\ Starting' \subseteq Starting
        /\ \A q \in Replies : player'[q].token = player[q].token
        /\ \A q \in Replies : q # r => player'[q] = player[q]
    BY <1>1, <1>9, OverKeepsSound
  <2>2. TurnsAreQuiet' /\ CardAwaits' /\ CardKept(card') /\ Told(card, card')
    BY <1>1, <1>9, <2>1, QuieterKept
  <2>3. ResponseAwaited'
    BY <1>1, <1>9, <2>1, <2>2, AwaitedKept
  <2> QED
    BY <2>1, <2>2, <2>3 DEF ReplyPart
<1> QED
  BY <1>5, <1>6, <1>7, <1>8, <1>9 DEF OpenDevice

LEMMA AnnounceStartPart ==
    ASSUME ReplyBasics, ReplyPart, NEW r \in Replies, AnnounceStart(r), overlooked' = {}
    PROVE  ReplyPart'
<1>1. /\ player[r].step = "announcing" /\ UNCHANGED <<manner, turnPart, session, halt, silenced>>
  BY DEF AnnounceStart
<1>2. UNCHANGED <<manner, stage, calledOff, lastClaim, began, session, halt, silenced>>
  BY <1>1 DEF turnPart
<1>3. card \in Cards /\ CardKept(card) /\ voice.pending \in {NoReply, voice.queue} /\ voice \in Voices
      /\ r \in Maybe
  BY DEF ReplyBasics, ReplyShapes, ReplyPart, CallsKnown, Maybe
<1>4. CASE /\ manner.responsive /\ InSession(r) /\ MaySpeak(r) /\ Playing(r, "playing")
           /\ voice' = [voice EXCEPT !.pending = NoReply, !.playing = r]
           /\ card' = CommittedStarted(card, r)
  <2>1. /\ player'[r].step = "playing" /\ player'[r].token = player[r].token
        /\ \A q \in Replies : q # r => player'[q] = player[q]
    BY <1>4, PlayerHandlers DEF ReplyBasics, PlayerStages
  <2>2. /\ voice'.generation = voice.generation /\ voice'.queue = voice.queue
        /\ voice'.pending = NoReply /\ voice'.playing = r
    BY <1>3, <1>4, VoiceUpdates
  <2>3. began[r] = voice.generation /\ voice.queue = r
    BY <1>1, <1>4 DEF MaySpeak, ReplyPart, QueueIsKnown
  <2>4. NothingInTurn
    BY <2>3, ReplyNumbers, SoundMeansNoTurn
  <2>5. Starting' = {}
    BY <1>2, <1>4 DEF Starting
  <2>6. TurnsAreQuiet' /\ CardAwaits'
    BY <1>1, <2>4, <2>5, NoTurnKept
  <2>7. PlayingIsHeard'
    BY <1>2, <1>4, <2>1, <2>2, <2>3 DEF PlayingIsHeard, InSession
  <2>8. QueueIsKnown'
    <3>1. \A q \in Replies : InSession(q)' = InSession(q)
      BY <1>2, <2>1 DEF InSession
    <3> QED
      BY <1>1, <1>2, <1>4, <2>1, <2>2, <2>3, <3>1 DEF ReplyPart, QueueIsKnown
  <2>9. StopsTell'
    BY <1>2 DEF ReplyPart, StopsTell
  <2>10. Told(card, card') /\ (card.reveal /\ card.response = r => card'.shown = r)
    BY <1>3, <1>4, CommittedStartedCard
  <2>11. ResponseAwaited'
    BY <1>1, <1>3, <2>1, <2>3, <2>10, AwaitedKept
  <2> QED
    BY <2>6, <2>7, <2>8, <2>9, <2>10, <2>11 DEF ReplyPart, Told
<1>5. CASE /\ manner.responsive /\ ~(InSession(r) /\ MaySpeak(r)) /\ Playing(r, "over")
           /\ UNCHANGED <<voice, card, overlooked>>
  <2>1. /\ PlayingIsHeard' /\ QueueIsKnown' /\ StopsTell' /\ Starting' \subseteq Starting
        /\ \A q \in Replies : player'[q].token = player[q].token
        /\ \A q \in Replies : q # r => player'[q] = player[q]
    BY <1>1, <1>5, OverKeepsSound
  <2>2. TurnsAreQuiet' /\ CardAwaits' /\ CardKept(card') /\ Told(card, card')
    BY <1>1, <1>5, <2>1, QuieterKept
  <2>3. InProgress(r) => InProgress(r)'
    <3>1. r \notin Starting
      BY <1>5 DEF Starting
    <3>2. voice.pending = r => r \in calledOff
      <4>1. voice.pending = r => began[r] = voice.generation
        BY <1>3, ReplyNumbers DEF ReplyBasics, CallsKnown
      <4>2. began[r] = voice.generation => InSession(r)
        BY <1>1, <1>5 DEF ReplyPart, QueueIsKnown
      <4> QED
        BY <1>5, <4>1, <4>2 DEF MaySpeak
    <3> QED
      BY <1>2, <1>5, <3>1, <3>2 DEF InProgress
  <2>4. ResponseAwaited'
    BY <1>1, <1>5, <2>1, <2>2, <2>3, AwaitedKept
  <2> QED
    BY <2>1, <2>2, <2>4 DEF ReplyPart
<1>6. CASE /\ ~manner.responsive /\ Playing(r, "playing")
           /\ voice' = [voice EXCEPT !.playing = r] /\ card' = PlaybackStarted(card, r)
           /\ overlooked' = IF StopUnderWay \/ ~InSession(r) THEN overlooked \cup {r} ELSE overlooked
  <2>1. /\ player'[r].step = "playing" /\ player'[r].token = player[r].token
        /\ \A q \in Replies : q # r => player'[q] = player[q]
    BY <1>6, PlayerHandlers DEF ReplyBasics, PlayerStages
  <2>2. /\ voice'.generation = voice.generation /\ voice'.queue = voice.queue
        /\ voice'.pending = voice.pending /\ voice'.playing = r
    BY <1>3, <1>6, VoiceUpdates
  <2>3. ~StopUnderWay /\ InSession(r)
    BY <1>6
  <2>4. r \in Starting
    BY <1>1, <1>6 DEF Starting
  <2>5. NothingInTurn /\ card.turn = r
    BY <2>3, <2>4, SoundMeansNoTurn DEF ReplyPart, CardAwaits
  <2>6. Told(card, card') /\ (card.reveal => card'.shown = card.response)
    BY <1>3, <1>6, <2>5, StartedCard
  <2>7. \A q \in Starting' : q \in Starting /\ InSession(q)' = InSession(q)
    BY <1>2, <2>1 DEF Starting, InSession
  <2>8. TurnsAreQuiet' /\ CardAwaits'
    <3>1. \A q \in Starting' : InSession(q)' => card'.turn = q
      BY <2>6, <2>7 DEF ReplyPart, CardAwaits, Told
    <3> QED
      BY <1>1, <2>5, <3>1, NoTurnKept
  <2>9. PlayingIsHeard'
    <3>1. ~StopUnderWay'
      BY <1>2, <2>3 DEF StopUnderWay
    <3> QED
      BY <1>2, <1>6, <2>1, <2>2, <2>3, <3>1 DEF PlayingIsHeard, InSession
  <2>10. QueueIsKnown' /\ StopsTell'
    BY <1>2, <1>6 DEF ReplyPart, QueueIsKnown, StopsTell
  <2>11. ResponseAwaited'
    BY <1>1, <2>1, <2>2, <2>6, AwaitedKept
  <2> QED
    BY <2>6, <2>8, <2>9, <2>10, <2>11 DEF ReplyPart, Told
<1> QED
  BY <1>4, <1>5, <1>6 DEF AnnounceStart


LEMMA EndSpeechPart ==
    ASSUME ReplyBasics, ReplyPart, NEW r \in Replies, EndSpeech(r), overlooked' = {}
    PROVE  ReplyPart'
<1>1. /\ player[r].step = "playing" /\ Playing(r, "over")
      /\ UNCHANGED <<manner, turnPart, session, halt, silenced>>
  BY DEF EndSpeech, history
<1>2. UNCHANGED <<manner, stage, calledOff, lastClaim, began, session, halt, silenced>>
  BY <1>1 DEF turnPart
<1>3. card \in Cards /\ CardKept(card) /\ voice \in Voices /\ NoReply \in Maybe /\ r \in Maybe
  BY DEF ReplyBasics, ReplyShapes, ReplyPart, Maybe
<1>4. CASE /\ voice.playing = r /\ voice' = [voice EXCEPT !.playing = NoReply]
           /\ card' = IF manner.responsive THEN CommittedEnded(card, r, r)
                      ELSE PlaybackStopped(card, r, r)
  <2>1. /\ voice'.generation = voice.generation /\ voice'.queue = voice.queue
        /\ voice'.pending = voice.pending /\ voice'.playing = NoReply
    BY <1>3, <1>4, VoiceUpdates
  <2>2. /\ PlayingIsHeard' /\ QueueIsKnown' /\ StopsTell' /\ Starting' \subseteq Starting
        /\ \A q \in Replies : player'[q].token = player[q].token
        /\ \A q \in Replies : q # r => player'[q] = player[q]
    BY <1>1, <2>1, ReplyNumbers, OverKeepsSound
  <2>3. NothingInTurn
    BY <1>4, ReplyNumbers, SoundMeansNoTurn
  <2>4. /\ Told(card, card')
        /\ manner.responsive /\ card.reveal /\ card.response = r => card'.shown = r
    <3>1. CASE manner.responsive
      BY <1>3, <1>4, <3>1, CommittedEndedCard
    <3>2. CASE ~manner.responsive
      BY <1>3, <1>4, <3>2, StoppedCard
    <3> QED
      BY <3>1, <3>2
  <2>5. \A q \in Starting' : InSession(q)' => card'.turn = q
    BY <1>2, <2>2, <2>4 DEF InSession, ReplyPart, CardAwaits, Told, Starting
  <2>6. TurnsAreQuiet' /\ CardAwaits'
    BY <1>1, <2>3, <2>5, NoTurnKept
  <2>7. ~manner.responsive /\ InProgress(r) => InProgress(r)'
    <3>1. r \notin Starting
      BY <1>1 DEF Starting
    <3> QED
      BY <1>1, <1>2, <2>1, <3>1 DEF InProgress
  <2>8. ResponseAwaited'
    BY <1>1, <2>1, <2>2, <2>4, <2>7, AwaitedKept
  <2> QED
    BY <2>2, <2>4, <2>6, <2>8 DEF ReplyPart, Told
<1>5. CASE voice.playing # r /\ UNCHANGED <<voice, card>>
  <2>2. /\ PlayingIsHeard' /\ QueueIsKnown' /\ StopsTell' /\ Starting' \subseteq Starting
        /\ \A q \in Replies : player'[q].token = player[q].token
        /\ \A q \in Replies : q # r => player'[q] = player[q]
    BY <1>1, <1>5, OverKeepsSound
  <2>3. TurnsAreQuiet' /\ CardAwaits' /\ CardKept(card') /\ Told(card, card')
    BY <1>1, <1>5, <2>2, QuieterKept
  <2>4. InProgress(r) => InProgress(r)'
    <3>1. r \notin Starting
      BY <1>1 DEF Starting
    <3> QED
      BY <1>1, <1>2, <1>5, <3>1 DEF InProgress
  <2>5. ResponseAwaited'
    BY <1>1, <1>5, <2>2, <2>3, <2>4, AwaitedKept
  <2> QED
    BY <2>2, <2>3, <2>5 DEF ReplyPart
<1> QED
  BY <1>4, <1>5 DEF EndSpeech

LEMMA BreakSpeechPart ==
    ASSUME ReplyBasics, ReplyPart, NEW r \in Replies, BreakSpeech(r), overlooked' = {}
    PROVE  ReplyPart'
<1>1. /\ player[r].step = "playing" /\ Playing(r, "over")
      /\ UNCHANGED <<manner, turnPart, session, halt>>
  BY DEF BreakSpeech
<1>2. UNCHANGED <<manner, stage, calledOff, lastClaim, began, session, halt>>
  BY <1>1 DEF turnPart
<1>3. card \in Cards /\ CardKept(card) /\ voice \in Voices /\ NoReply \in Maybe /\ r \in Maybe
      /\ voice.playing \in Maybe
  BY DEF ReplyBasics, ReplyShapes, ReplyPart, Maybe, Voices
<1>4. CASE /\ manner.responsive /\ began[r] = voice.generation
           /\ voice' = [voice EXCEPT !.playing = IF voice.playing = r THEN NoReply ELSE voice.playing]
           /\ card' = CommittedEnded(card, r, r) /\ silenced' = silenced
  <2>0. PICK p : p = IF voice.playing = r THEN NoReply ELSE voice.playing
    OBVIOUS
  <2>9. p \in Maybe /\ p \in {NoReply, voice.playing} /\ p # r
    BY <1>3, <2>0, ReplyNumbers
  <2>10. voice' = [voice EXCEPT !.playing = p]
    BY <1>4, <2>0
  <2>1. /\ voice'.generation = voice.generation /\ voice'.queue = voice.queue
        /\ voice'.pending = voice.pending /\ voice'.playing = p
        /\ p \in {NoReply, voice.playing} /\ p # r
    BY <1>3, <2>9, <2>10, VoiceUpdates
  <2>2. /\ PlayingIsHeard' /\ QueueIsKnown' /\ StopsTell' /\ Starting' \subseteq Starting
        /\ \A q \in Replies : player'[q].token = player[q].token
        /\ \A q \in Replies : q # r => player'[q] = player[q]
    BY <1>1, <1>4, <2>1, OverKeepsSound
  <2>3. NothingInTurn
    <3>1. voice.queue = r
      BY <1>1, <1>4 DEF ReplyPart, QueueIsKnown
    <3> QED
      BY <3>1, ReplyNumbers, SoundMeansNoTurn
  <2>4. Told(card, card') /\ (card.reveal /\ card.response = r => card'.shown = r)
    BY <1>3, <1>4, CommittedEndedCard
  <2>5. Starting' = {}
    BY <1>2, <1>4 DEF Starting
  <2>6. TurnsAreQuiet' /\ CardAwaits'
    BY <1>1, <2>3, <2>5, NoTurnKept
  <2>8. ResponseAwaited'
    BY <1>1, <1>4, <2>1, <2>2, <2>4, AwaitedKept
  <2> QED
    BY <2>2, <2>4, <2>6, <2>8 DEF ReplyPart, Told
<1>5. CASE /\ ~manner.responsive /\ silenced' = silenced \cup {r} /\ UNCHANGED <<voice, card>>
  <2>2. /\ PlayingIsHeard' /\ QueueIsKnown' /\ StopsTell' /\ Starting' \subseteq Starting
        /\ \A q \in Replies : player'[q].token = player[q].token
        /\ \A q \in Replies : q # r => player'[q] = player[q]
    BY <1>1, <1>5, OverKeepsSound
  <2>3. TurnsAreQuiet' /\ CardAwaits' /\ CardKept(card') /\ Told(card, card')
    BY <1>1, <1>5, <2>2, QuieterKept
  <2>5. ResponseAwaited'
    BY <1>1, <1>5, <2>2, <2>3, AwaitedKept
  <2> QED
    BY <2>2, <2>3, <2>5 DEF ReplyPart
<1>6. manner.responsive => voice' = [voice EXCEPT !.playing = IF voice.playing = r THEN NoReply ELSE voice.playing]
  BY <1>3 DEF BreakSpeech, Voices
<1> QED
  BY <1>4, <1>5, <1>6 DEF BreakSpeech

LEMMA DropRetiredPart ==
    ASSUME ReplyBasics, ReplyPart, NEW r \in Replies, DropRetired(r), overlooked' = {}
    PROVE  ReplyPart'
<1>1. /\ player[r].step = "playing" /\ ~InSession(r) /\ Playing(r, "over")
      /\ UNCHANGED <<manner, turnPart, voice, session, halt, card, silenced>>
  BY DEF DropRetired, history
<1>2. UNCHANGED <<manner, stage, calledOff, halt>>
  BY <1>1 DEF turnPart
<1>3. /\ PlayingIsHeard' /\ QueueIsKnown' /\ StopsTell' /\ Starting' \subseteq Starting
      /\ \A q \in Replies : player'[q].token = player[q].token
      /\ \A q \in Replies : q # r => player'[q] = player[q]
  BY <1>1, OverKeepsSound
<1>4. TurnsAreQuiet' /\ CardAwaits' /\ CardKept(card') /\ Told(card, card')
  BY <1>1, <1>3, QuieterKept
<1>5. InProgress(r) => InProgress(r)'
  <2>1. r \notin Starting
    BY <1>1 DEF Starting
  <2> QED
    BY <1>1, <1>2, <2>1 DEF InProgress
<1>6. ResponseAwaited'
  BY <1>1, <1>3, <1>4, <1>5, AwaitedKept
<1> QED
  BY <1>3, <1>4, <1>6 DEF ReplyPart

LEMMA CompleteQueuePart ==
    ASSUME ReplyBasics, ReplyPart, NEW r \in Replies, CompleteQueue(r), overlooked' = {}
    PROVE  ReplyPart'
<1>1. /\ voice.queue = r /\ player[r].step = "over"
      /\ voice' = [voice EXCEPT !.queue = NoReply, !.pending = NoReply]
      /\ silenced' = IF voice.pending = r /\ ~MaySpeak(r) THEN silenced \cup {r} ELSE silenced
      /\ UNCHANGED <<manner, turnPart, session, player, halt, card, overlooked>>
  BY DEF CompleteQueue
<1>2. UNCHANGED <<manner, stage, calledOff, lastClaim, began, session, player, halt, card>>
  BY <1>1 DEF turnPart
<1>3. /\ voice'.generation = voice.generation /\ voice'.queue = NoReply
      /\ voice'.pending = NoReply /\ voice'.playing = voice.playing
  BY <1>1, VoiceUpdates DEF ReplyBasics, ReplyShapes, Maybe
<1>4. /\ voice.playing \in Maybe /\ voice.pending \in {NoReply, r} /\ manner.responsive
  BY <1>1, ReplyNumbers DEF ReplyBasics, ReplyShapes, Voices, CallsKnown
<1>5. \A q \in Replies : player[q].step \in {"opening", "announcing", "playing"}
                             => began[q] # voice.generation
  BY <1>1, <1>4 DEF ReplyPart, QueueIsKnown
<1>6. voice.playing = NoReply
  BY <1>4, <1>5 DEF ReplyPart, PlayingIsHeard, Maybe
<1>7. PlayingIsHeard'
  BY <1>2, <1>3, <1>6 DEF PlayingIsHeard
<1>8. QueueIsKnown'
  BY <1>2, <1>3, <1>4, <1>5 DEF ReplyPart, QueueIsKnown
<1>9. StopsTell'
  BY <1>2 DEF ReplyPart, StopsTell
<1>10. Starting' = Starting
  BY <1>2 DEF Starting
<1>11. \A q \in Replies : player'[q].token = player[q].token
  BY <1>2
<1>12. TurnsAreQuiet' /\ CardAwaits' /\ CardKept(card') /\ Told(card, card')
  BY <1>1, <1>3, <1>10, <1>11, QuieterKept
<1>13. InProgress(r) => r \in silenced' \/ InProgress(r)'
  <2>1. r \notin Starting
    BY <1>1 DEF Starting
  <2>2. voice.pending = r /\ r \in calledOff => r \in silenced'
    BY <1>1 DEF MaySpeak
  <2> QED
    BY <1>1, <1>2, <2>1, <2>2 DEF InProgress
<1>14. ResponseAwaited'
  BY <1>1, <1>2, <1>4, <1>12, <1>13, AwaitedKept
<1> QED
  BY <1>7, <1>8, <1>9, <1>12, <1>14 DEF ReplyPart


-----------------------------------------------------------------------------
\* The stops, while nothing is overlooked.
LEMMA StopByHandPart ==
    ASSUME ReplyBasics, ReplyPart, NEW h \in Hands, StopByHand(h), overlooked' = {}
    PROVE  ReplyPart'
<1>1. /\ halt[h].step = "idle" /\ halt' = [halt EXCEPT ![h].step = "asked"]
      /\ Supersede \/ UNCHANGED calledOff
      /\ UNCHANGED <<manner, stage, lastClaim, began, soundPart, card, silenced>>
  BY DEF StopByHand, history
<1>2. h \in Halts /\ h \notin Replies
  BY ReplyNumbers DEF Hands, Replies
<1>3. /\ \A g \in Halts : g # h => halt'[g] = halt[g]
      /\ halt'[h].step \in {"idle", "asked"}
  BY <1>1, <1>2, AskedHalts
<1>4. calledOff \subseteq calledOff'
  BY <1>1 DEF Supersede
<1>5. TurnOnly
  BY <1>1, <1>3, <1>4 DEF TurnOnly
<1>6. CardKept(card') /\ CardAwaits' /\ ResponseAwaited'
  BY <1>1, <1>5, CardStands
<1>7. \A q \in Replies : stage'[q] = "claimed" /\ InForce(q)' =>
         stage[q] = "claimed" /\ InForce(q) /\ halt'[q] = halt[q]
  BY <1>1, <1>2, <1>3, <1>4, ReplyNumbers DEF InForce
<1> QED
  BY <1>1, <1>5, <1>6, <1>7, TurnKeepsPart

LEMMA DetachSpeechPart ==
    ASSUME ReplyBasics, ReplyPart, NEW h \in Halts, DetachSpeech(h), overlooked' = {}
    PROVE  ReplyPart'
<1>1. PICK call : call = [step |-> "detached", generation |-> voice.generation + 1,
                          session |-> session, queue |-> voice.queue, playing |-> voice.playing,
                          stream |-> StreamInForce, id |-> NoReply]
  OBVIOUS
<1>2. /\ halt[h].step = "asked" /\ halt' = [halt EXCEPT ![h] = call]
      /\ voice' = [generation |-> voice.generation + 1, queue |-> NoReply,
                   pending |-> NoReply, playing |-> NoReply]
      /\ UNCHANGED <<manner, turnPart, session, player, card, silenced, overlooked>>
  BY <1>1 DEF DetachSpeech, history
<1>3. UNCHANGED <<manner, stage, calledOff, lastClaim, began, session, player, card, silenced, overlooked>>
  BY <1>2 DEF turnPart
<1>4. /\ call.step = "detached" /\ call.generation = voice.generation + 1
      /\ call.session = session /\ call.queue = voice.queue /\ call.playing = voice.playing
      /\ call.stream = StreamInForce
  BY <1>1
<1>5. /\ halt'[h] = call /\ \A g \in Halts : g # h => halt'[g] = halt[g]
  BY <1>2 DEF ReplyBasics, ReplyShapes
<1>6. /\ voice'.generation = voice.generation + 1
      /\ voice'.queue = NoReply /\ voice'.pending = NoReply /\ voice'.playing = NoReply
  BY <1>2
<1>7. /\ voice.generation \in Nat /\ session \in Nat
      /\ \A q \in Replies : began[q] \in Nat /\ began[q] <= voice.generation
  BY DEF ReplyBasics, ReplyShapes, Voices, CallsKnown
<1>8. \A q \in Replies : ~(began[q] >= voice.generation + 1) /\ began[q] # voice.generation + 1
  BY <1>7
<1>9. /\ Starting' = Starting /\ Starting \subseteq Replies
      /\ \A q \in Replies : InSession(q)' = InSession(q)
      /\ \A q \in Replies : InForce(q)' = InForce(q)
      /\ Typed' = Typed
  BY <1>3 DEF Starting, InSession, InForce, Typed
<1>10. TurnsAreQuiet'
  <2>1. Quiet => Quiet'
    BY <1>6, <1>9 DEF Quiet
  <2>2. \A q \in Replies : stage[q] \in InTurn => Quiet'
    BY <2>1 DEF ReplyPart, TurnsAreQuiet
  <2>3. ASSUME NEW q \in Replies, stage[q] = "claimed", InForce(q)
        PROVE  /\ halt'[q].step \in {"idle", "halted", "done"} => Quiet'
               /\ halt'[q].step = "detached" =>
                     /\ voice'.playing = NoReply /\ voice'.queue = NoReply
                     /\ \A p \in Starting' : InSession(p)' => session <= halt'[q].session
    <3>1. CASE q = h
      BY <1>4, <1>5, <1>6, <1>7, <3>1
    <3>2. CASE q # h
      <4>1. halt'[q] = halt[q]
        BY <1>5, <3>2, ReplyNumbers
      <4>2. /\ halt[q].step \in {"idle", "halted", "done"} => Quiet
            /\ halt[q].step = "detached" =>
                     \A p \in Starting : InSession(p) => session <= halt[q].session
        BY <2>3 DEF ReplyPart, TurnsAreQuiet
      <4> QED
        BY <1>6, <1>9, <2>1, <4>1, <4>2
    <3> QED
      BY <3>1, <3>2
  <2> QED
    BY <1>3, <1>9, <2>2, <2>3 DEF TurnsAreQuiet
<1>11. PlayingIsHeard'
  BY <1>6 DEF PlayingIsHeard
<1>12. QueueIsKnown'
  <2>1. ASSUME manner.responsive, NEW g \in Halts, NEW q \in Replies,
               halt'[g].step = "detached", player[q].token # 0, began[q] >= halt'[g].generation
        PROVE  player[q].token > halt'[g].session
    <3>1. g # h
      BY <1>4, <1>5, <1>8, <2>1
    <3> QED
      BY <1>5, <2>1, <3>1 DEF ReplyPart, QueueIsKnown
  <2> QED
    BY <1>3, <1>6, <1>8, <2>1 DEF QueueIsKnown
<1>13. StopsTell'
  <2>1. StreamInForce # NoReply => voice.queue = StreamInForce /\ voice.playing \in {NoReply, StreamInForce}
    <3>1. CASE manner.responsive /\ voice.playing # NoReply
      <4>1. voice.playing \in Replies
        BY <3>1 DEF ReplyBasics, ReplyShapes, Voices, Maybe
      <4>2. player[voice.playing].step = "playing" /\ began[voice.playing] = voice.generation
        BY <3>1 DEF ReplyPart, PlayingIsHeard
      <4>3. voice.queue = voice.playing
        BY <3>1, <4>1, <4>2 DEF ReplyPart, QueueIsKnown
      <4> QED
        BY <3>1, <4>3 DEF StreamInForce
    <3>2. CASE manner.responsive /\ voice.playing = NoReply
      BY <3>2 DEF StreamInForce, ReplyBasics, CallsKnown
    <3>3. CASE ~manner.responsive
      BY <3>3 DEF StreamInForce
    <3> QED
      BY <3>1, <3>2, <3>3
  <2>2. ASSUME NEW g \in Halts, halt'[g].stream # NoReply
        PROVE  /\ halt'[g].step = "detached" =>
                     halt'[g].queue = halt'[g].stream /\ halt'[g].playing \in {NoReply, halt'[g].stream}
               /\ halt'[g].step = "halted" => halt'[g].id \in {NoReply, halt'[g].stream}
    <3>1. CASE g = h
      BY <1>4, <1>5, <2>1, <2>2, <3>1
    <3>2. CASE g # h
      BY <1>5, <2>2, <3>2 DEF ReplyPart, StopsTell
    <3> QED
      BY <3>1, <3>2
  <2> QED
    BY <2>2 DEF StopsTell
<1>14. CardAwaits'
  BY <1>3, <1>9 DEF ReplyPart, CardAwaits
<1>15. ResponseAwaited'
  <2>1. SUFFICES ASSUME card.response \notin silenced \cup {NoReply}, card.shown # card.response
                 PROVE  card.reveal /\ InProgress(card.response)'
    BY <1>3 DEF ResponseAwaited
  <2>2. PICK x : x = card.response
    OBVIOUS
  <2>3. x \in Replies
    BY <2>1, <2>2 DEF ReplyBasics, ReplyShapes, Cards, Maybe
  <2>4. card.reveal /\ InProgress(x)
    BY <2>1, <2>2 DEF ReplyPart, ResponseAwaited
  <2>5. voice.pending = x => halt'[h].stream = x
    <3>1. ASSUME voice.pending = x
          PROVE  manner.responsive /\ voice.playing = NoReply
      <4>1. voice.queue = x /\ manner.responsive
        BY <2>3, <3>1, ReplyNumbers DEF ReplyBasics, CallsKnown
      <4>2. voice.playing \in Maybe
        BY DEF ReplyBasics, ReplyShapes, Voices
      <4>3. voice.playing # NoReply => voice.queue = voice.playing /\ player[voice.playing].step = "playing"
        BY <4>1, <4>2 DEF ReplyPart, PlayingIsHeard, QueueIsKnown, Maybe
      <4>4. player[voice.pending].step # "playing"
        BY <2>3, <3>1, <4>1, ReplyNumbers DEF ReplyPart, QueueIsKnown
      <4> QED
        BY <3>1, <4>1, <4>3, <4>4
    <3> QED
      BY <1>4, <1>5, <3>1 DEF StreamInForce
  <2>6. InProgress(x)'
    <3>1. CASE voice.pending = x
      BY <1>4, <1>5, <2>5, <3>1 DEF InProgress
    <3>2. CASE \E g \in Halts : halt[g].step \in {"detached", "halted"} /\ halt[g].stream = x
      <4>1. PICK g \in Halts : halt[g].step \in {"detached", "halted"} /\ halt[g].stream = x
        BY <3>2
      <4>2. halt'[g] = halt[g]
        BY <1>2, <1>5, <4>1
      <4> QED
        BY <4>1, <4>2 DEF InProgress
    <3>3. CASE stage[x] \in InTurn \ {"thinking"} \/ x \in Starting
      BY <1>3, <1>9, <3>3 DEF InProgress
    <3> QED
      BY <2>4, <3>1, <3>2, <3>3 DEF InProgress
  <2> QED
    BY <1>3, <2>2, <2>4, <2>6
<1>16. CardKept(card')
  BY <1>3 DEF ReplyPart
<1> QED
  BY <1>10, <1>11, <1>12, <1>13, <1>14, <1>15, <1>16 DEF ReplyPart


\* A stop reaches the device: it retires what is not of the current generation.
LEMMA HaltKeepsPart ==
    ASSUME ReplyBasics, ReplyPart, NEW h \in Halts, NEW call, HaltedCall(h, call),
           halt[h].step = "detached", halt' = [halt EXCEPT ![h] = call],
           UNCHANGED <<manner, turnPart, voice, card, silenced>>,
           call.step = "done" => halt[h].stream = NoReply,
           call.step = "halted" /\ halt[h].stream # NoReply => call.id \in {NoReply, halt[h].stream},
           \A q \in Replies : player'[q].token = player[q].token,
           \A q \in Replies : player'[q].step # player[q].step =>
              /\ manner.responsive /\ began[q] # voice.generation
              /\ player[q].step = "opening" /\ player'[q].step = "over",
           \A q \in Replies :
              /\ InSession(q) /\ manner.responsive /\ began[q] = voice.generation
              /\ player[q].step \in {"announcing", "playing"}
              => session' = session,
           \/ \A q \in Starting : ~InSession(q)'
           \/ session' = session /\ halt[h].session < session
    PROVE  ReplyPart'
<1>1. UNCHANGED <<manner, stage, calledOff, lastClaim, began, voice, card, silenced>>
  BY DEF turnPart
<1>2. /\ halt'[h] = call /\ \A g \in Halts : g # h => halt'[g] = halt[g]
      /\ call.step \in {"halted", "done"}
      /\ call.step = "halted" => call.stream = halt[h].stream
      /\ call.step = "done" => call.stream = NoReply
  BY DEF ReplyBasics, ReplyShapes, HaltedCall
<1>3. /\ Starting' = Starting /\ Starting \subseteq Replies /\ Typed' = Typed
      /\ \A q \in Replies : InForce(q)' = InForce(q)
      /\ \A q \in Starting : InSession(q)' => InSession(q) /\ session' = session /\ halt[h].session < session
  <2>1. Starting' = Starting
    BY <1>1 DEF Starting
  <2>2. \A q \in Replies : session' = session => InSession(q)' = InSession(q)
    BY DEF InSession
  <2> QED
    BY <1>1, <2>1, <2>2 DEF Starting, Typed, InForce
<1>4. StopUnderWay
  BY DEF StopUnderWay
<1>5. TurnsAreQuiet'
  <2>1. Quiet => Quiet'
    BY <1>1, <1>3 DEF Quiet
  <2>2. \A q \in Replies : stage[q] \in InTurn => Quiet'
    BY <2>1 DEF ReplyPart, TurnsAreQuiet
  <2>3. ASSUME NEW q \in Replies, stage[q] = "claimed", InForce(q)
        PROVE  /\ halt'[q].step \in {"idle", "halted", "done"} => Quiet'
               /\ halt'[q].step = "detached" =>
                     /\ voice'.playing = NoReply /\ voice'.queue = NoReply
                     /\ \A p \in Starting' : InSession(p)' => session' <= halt'[q].session
    <3>0. /\ halt[q].step \in {"idle", "halted", "done"} => Quiet
          /\ halt[q].step = "detached" =>
                 /\ voice.playing = NoReply /\ voice.queue = NoReply
                 /\ \A p \in Starting : InSession(p) => session <= halt[q].session
      BY <2>3 DEF ReplyPart, TurnsAreQuiet
    <3>1. CASE q = h
      <4>1. session \in Nat /\ halt[h].session \in Nat
        BY DEF ReplyBasics, ReplyShapes, HaltCalls
      <4>2. \A p \in Starting : ~InSession(p)'
        BY <1>3, <3>0, <3>1, <4>1
      <4>3. Quiet'
        BY <1>1, <1>3, <3>0, <3>1, <4>2 DEF Quiet
      <4> QED
        BY <1>2, <3>1, <4>3
    <3>2. CASE q # h
      <4>1. halt'[q] = halt[q]
        BY <1>2, <3>2, ReplyNumbers
      <4> QED
        BY <1>1, <1>3, <2>1, <3>0, <4>1
    <3> QED
      BY <3>1, <3>2
  <2> QED
    BY <1>1, <1>3, <2>2, <2>3 DEF TurnsAreQuiet
<1>6. PlayingIsHeard'
  <2>1. ~manner.responsive => voice.playing = NoReply
    BY <1>4 DEF ReplyPart, PlayingIsHeard
  <2>2. ASSUME voice.playing # NoReply
        PROVE  /\ player'[voice.playing].step = "playing" /\ player'[voice.playing].token = session'
               /\ began[voice.playing] = voice.generation
    <3>1. voice.playing \in Replies
      BY <2>2 DEF ReplyBasics, ReplyShapes, Voices, Maybe
    <3>2. /\ player[voice.playing].step = "playing" /\ InSession(voice.playing)
          /\ began[voice.playing] = voice.generation
      BY <2>1, <2>2 DEF ReplyPart, PlayingIsHeard
    <3>3. session' = session
      BY <2>1, <2>2, <3>1, <3>2
    <3> QED
      BY <3>1, <3>2, <3>3 DEF InSession
  <2> QED
    BY <1>1, <2>1, <2>2 DEF PlayingIsHeard, InSession
<1>7. QueueIsKnown'
  <2>1. ASSUME manner.responsive
        PROVE  /\ \A q \in Replies :
                    /\ player'[q].step \in {"opening", "announcing", "playing"}
                          /\ began[q] = voice.generation => voice.queue = q
                    /\ player'[q].step = "announcing" /\ began[q] = voice.generation
                          => player'[q].token = session'
               /\ voice.pending # NoReply => player'[voice.pending].step # "playing"
    <3>1. \A q \in Replies : player'[q].step = player[q].step \/ player'[q].step = "over"
      OBVIOUS
    <3>2. voice.pending \in Maybe
      BY DEF ReplyBasics, ReplyShapes, Voices
    <3> QED
      BY <2>1, <3>1, <3>2 DEF ReplyPart, QueueIsKnown, Maybe, InSession
  <2>2. ASSUME manner.responsive, NEW g \in Halts, NEW q \in Replies, halt'[g].step = "detached",
               player'[q].token # 0, began[q] >= halt'[g].generation
        PROVE  player'[q].token > halt'[g].session
    BY <1>2, <2>2 DEF ReplyPart, QueueIsKnown
  <2> QED
    BY <1>1, <2>1, <2>2 DEF QueueIsKnown, InSession
<1>8. StopsTell'
  BY <1>2 DEF ReplyPart, StopsTell
<1>9. CardAwaits'
  BY <1>1, <1>3 DEF ReplyPart, CardAwaits
<1>10. ResponseAwaited'
  <2>1. SUFFICES ASSUME card.response \notin silenced \cup {NoReply}, card.shown # card.response
                 PROVE  card.reveal /\ InProgress(card.response)'
    BY <1>1 DEF ResponseAwaited
  <2>2. PICK x : x = card.response
    OBVIOUS
  <2>3. x \in Replies
    BY <2>1, <2>2 DEF ReplyBasics, ReplyShapes, Cards, Maybe
  <2>4. card.reveal /\ InProgress(x)
    BY <2>1, <2>2 DEF ReplyPart, ResponseAwaited
  <2>5. voice.pending = x => player'[x].step = player[x].step
    <3>1. voice.pending = x => began[x] = voice.generation
      BY <2>3, ReplyNumbers DEF ReplyBasics, CallsKnown
    <3> QED
      BY <2>3, <3>1
  <2>6. InProgress(x)'
    <3>1. CASE \E g \in Halts : halt[g].step \in {"detached", "halted"} /\ halt[g].stream = x
      <4>1. PICK g \in Halts : halt[g].step \in {"detached", "halted"} /\ halt[g].stream = x
        BY <3>1
      <4>2. halt'[g].step \in {"detached", "halted"} /\ halt'[g].stream = x
        BY <1>2, <2>3, <4>1, ReplyNumbers
      <4> QED
        BY <4>2 DEF InProgress
    <3>2. CASE ~(\E g \in Halts : halt[g].step \in {"detached", "halted"} /\ halt[g].stream = x)
      BY <1>1, <1>3, <2>4, <2>5, <3>2 DEF InProgress
    <3> QED
      BY <3>1, <3>2
  <2> QED
    BY <1>1, <2>2, <2>4, <2>6
<1>11. CardKept(card')
  BY <1>1 DEF ReplyPart
<1> QED
  BY <1>5, <1>6, <1>7, <1>8, <1>9, <1>10, <1>11 DEF ReplyPart

LEMMA HaltSpeechPart ==
    ASSUME ReplyBasics, ReplyPart, NEW h \in Halts, HaltSpeech(h), overlooked' = {}
    PROVE  ReplyPart'
<1>1. /\ halt[h].step = "detached"
      /\ UNCHANGED <<manner, turnPart, voice, card, silenced>>
      /\ \/ \E q \in Replies : HaltedQueue(h, q)
         \/ \E id \in Maybe : StoppedSession(h, id)
         \/ StoppedNothing(h)
  BY HaltSpeechCases DEF ReplyBasics
<1>2. /\ session \in Nat /\ voice.generation \in Nat
      /\ halt[h].session \in Nat /\ halt[h].session <= session
      /\ halt[h].generation \in Nat /\ halt[h].generation <= voice.generation
      /\ halt[h].queue \in Maybe /\ halt[h].playing \in Maybe
  BY DEF ReplyBasics, ReplyShapes, HaltCalls, CallsKnown, Voices
<1>3. \A q \in Replies : player[q].token \in Nat /\ player[q].token <= session
  BY DEF ReplyBasics, ReplyShapes, Players, SessionsKnown
<1>4. halt[h].queue = NoReply => halt[h].stream = NoReply
  BY <1>1 DEF ReplyPart, StopsTell
<1>5. ASSUME NEW q \in Replies, HaltedQueue(h, q)
      PROVE  ReplyPart'
  <2>1. PICK id : id = IF player[q].token # 0 THEN q ELSE halt[h].playing
    OBVIOUS
  <2>2. id \in Maybe
    BY <1>2, <2>1 DEF Maybe
  <2>3. PICK call : call = [halt[h] EXCEPT !.step = "halted", !.id = id]
    OBVIOUS
  <2>4. HaltedCall(h, call) /\ call.step = "halted" /\ call.id = id
    BY <2>2, <2>3, HaltedCalls DEF ReplyBasics
  <2>5. halt' = [halt EXCEPT ![h] = call]
    <3>1. halt' = [halt EXCEPT ![h].step = "halted", ![h].id = id]
      BY <1>5, <2>1 DEF HaltedQueue
    <3> QED
      BY <2>3, <3>1, HaltFields DEF ReplyBasics
  <2>6. \A p \in Replies :
           /\ player'[p].token = player[p].token
           /\ player'[p].step = IF p = q /\ player[p].step = "opening" THEN "over" ELSE player[p].step
    <3>1. player' = [player EXCEPT ![q].step = IF @ = "opening" THEN "over" ELSE @]
      BY <1>5 DEF HaltedQueue
    <3> QED
      BY <3>1, QueueStops DEF ReplyBasics
  <2>7. /\ manner.responsive /\ began[q] < halt[h].generation /\ began[q] # voice.generation
        /\ q = halt[h].queue
    <3>1. q = halt[h].queue /\ q # NoReply /\ began[q] \in Nat
      BY <1>5, ReplyNumbers DEF HaltedQueue, ReplyBasics, ReplyShapes
    <3>2. began[q] < halt[h].generation /\ manner.responsive
      BY <1>1, <3>1 DEF ReplyBasics, CallsKnown
    <3> QED
      BY <1>2, <3>1, <3>2
  <2>8. \A p \in Replies :
              /\ InSession(p) /\ manner.responsive /\ began[p] = voice.generation
              /\ player[p].step \in {"announcing", "playing"}
              => session' = session
    <3>1. ASSUME NEW p \in Replies, InSession(p), began[p] = voice.generation,
                 player[p].step \in {"announcing", "playing"}
          PROVE  session' = session
      <4>1. p # q
        BY <2>7, <3>1
      <4>2. ~InSession(q)
        BY <3>1, <4>1 DEF ReplyBasics, SessionsKnown, InSession
      <4> QED
        BY <1>5, <4>2 DEF HaltedQueue
    <3> QED
      BY <3>1
  <2>9. Starting = {}
    BY <2>7 DEF Starting
  <2>10. halt[h].stream # NoReply => id \in {NoReply, halt[h].stream}
    BY <1>1, <2>1, <2>7 DEF ReplyPart, StopsTell
  <2> QED
    BY <1>1, <2>4, <2>5, <2>6, <2>7, <2>8, <2>9, <2>10, HaltKeepsPart
<1>6. ASSUME NEW id \in Maybe, StoppedSession(h, id)
      PROVE  ReplyPart'
  <2>1. PICK call : call = [halt[h] EXCEPT !.step = "halted", !.id = id]
    OBVIOUS
  <2>2. HaltedCall(h, call) /\ call.step = "halted" /\ call.id = id
    BY <2>1, HaltedCalls DEF ReplyBasics
  <2>3. halt' = [halt EXCEPT ![h] = call]
    BY <1>6, <2>1, HaltFields DEF StoppedSession, ReplyBasics
  <2>4. session' = session + 1 /\ player' = player /\ halt[h].session = session /\ halt[h].queue = NoReply
    BY <1>6 DEF StoppedSession
  <2>5. \A q \in Replies : ~InSession(q)'
    BY <1>2, <1>3, <2>4 DEF InSession
  <2>6. \A q \in Replies :
           ~(/\ InSession(q) /\ manner.responsive /\ began[q] = voice.generation
             /\ player[q].step \in {"announcing", "playing"})
    <3>1. ASSUME NEW q \in Replies, InSession(q), manner.responsive, began[q] = voice.generation,
                 player[q].step \in {"announcing", "playing"}
          PROVE  FALSE
      <4>1. player[q].token # 0
        BY <3>1 DEF ReplyBasics, SessionsKnown
      <4>2. began[q] >= halt[h].generation
        BY <1>2, <3>1
      <4>3. player[q].token > halt[h].session
        BY <1>1, <3>1, <4>1, <4>2 DEF ReplyPart, QueueIsKnown
      <4> QED
        BY <1>2, <2>4, <3>1, <4>3 DEF InSession
    <3> QED
      BY <3>1
  <2>7. Starting \subseteq Replies
    BY DEF Starting
  <2> QED
    BY <1>1, <1>4, <2>2, <2>3, <2>4, <2>5, <2>6, <2>7, HaltKeepsPart
<1>7. CASE StoppedNothing(h)
  <2>1. HaltedCall(h, Halted) /\ Halted.step = "done"
    BY HaltedCalls DEF ReplyBasics, Maybe
  <2>2. /\ halt' = [halt EXCEPT ![h] = Halted] /\ session' = session /\ player' = player
        /\ halt[h].queue = NoReply /\ halt[h].session # session
    BY <1>7 DEF StoppedNothing
  <2>3. halt[h].session < session
    BY <1>2, <2>2
  <2> QED
    BY <1>1, <1>4, <2>1, <2>2, <2>3, HaltKeepsPart
<1> QED
  BY <1>1, <1>5, <1>6, <1>7


LEMMA AnnounceStopPart ==
    ASSUME ReplyBasics, ReplyPart, NEW h \in Halts, AnnounceStop(h), overlooked' = {}
    PROVE  ReplyPart'
<1>1. /\ halt[h].step = "halted" /\ halt' = [halt EXCEPT ![h] = Halted]
      /\ UNCHANGED <<manner, turnPart, soundPart>>
  BY DEF AnnounceStop
<1>2. /\ UNCHANGED <<manner, stage, calledOff, lastClaim, began, voice, session, player>>
      /\ UNCHANGED <<manner, soundPart>>
  BY <1>1 DEF turnPart, soundPart
<1>3. Halted.step = "done" /\ Halted.stream = NoReply
  BY HaltedCalls DEF ReplyBasics, Maybe, HaltedCall
<1>4. /\ halt'[h] = Halted /\ \A g \in Halts : g # h => halt'[g] = halt[g]
  BY <1>1 DEF ReplyBasics, ReplyShapes
<1>5. /\ halt[h].stream \in Maybe /\ halt[h].id \in Maybe
      /\ card \in Cards /\ CardKept(card)
      /\ halt[h].stream # NoReply => halt[h].id \in {NoReply, halt[h].stream}
  BY <1>1 DEF ReplyBasics, ReplyShapes, HaltCalls, ReplyPart, StopsTell
<1>6. /\ Told(card, card') /\ silenced \subseteq silenced'
      /\ halt[h].stream # NoReply /\ card.response = halt[h].stream /\ card.reveal =>
            card'.shown = card.response \/ card.response \in silenced'
      /\ card.response = NoReply /\ ~card.begun => card' = card
  <2>1. CASE /\ halt[h].stream # NoReply /\ silenced' = silenced
             /\ card' = CommittedEnded(card, halt[h].stream, halt[h].id)
    <3>1. halt[h].stream \in Replies
      BY <1>5, <2>1 DEF Maybe
    <3>2. card.response = NoReply => card' = card
      BY <2>1 DEF CommittedEnded, Committed
    <3> QED
      BY <1>5, <2>1, <3>1, <3>2, CommittedEndedCard
  <2>2. CASE /\ halt[h].stream = NoReply /\ silenced' = silenced
             /\ card' = PlaybackStopped(card, halt[h].id, halt[h].id)
    <3>1. ~card.begun => card' = card
      BY <2>2 DEF PlaybackStopped
    <3> QED
      BY <1>5, <2>2, <3>1, StoppedCard
  <2>3. CASE card' = card /\ silenced' = silenced \cup ({halt[h].stream} \ {NoReply})
    BY <1>5, <2>3, LeftAlone
  <2> QED
    BY <2>1, <2>2, <2>3 DEF AnnounceStop
<1>7. /\ Quiet' = Quiet /\ Starting' = Starting /\ Starting \subseteq Replies /\ Typed' = Typed
      /\ \A q \in Replies : InSession(q)' = InSession(q)
      /\ \A q \in Replies : InForce(q)' = InForce(q)
  BY <1>2, QuietKept DEF Starting, Typed, InForce
<1>8. TurnsAreQuiet'
  <2>1. ASSUME NEW q \in Replies, stage[q] = "claimed", InForce(q)
        PROVE  /\ halt'[q].step \in {"idle", "halted", "done"} => Quiet
               /\ halt'[q].step = "detached" =>
                     /\ voice.playing = NoReply /\ voice.queue = NoReply
                     /\ \A p \in Starting : InSession(p) => session <= halt'[q].session
    <3>1. /\ halt[q].step \in {"idle", "halted", "done"} => Quiet
          /\ halt[q].step = "detached" =>
                 /\ voice.playing = NoReply /\ voice.queue = NoReply
                 /\ \A p \in Starting : InSession(p) => session <= halt[q].session
      BY <2>1 DEF ReplyPart, TurnsAreQuiet
    <3>2. CASE q = h
      BY <1>1, <1>3, <1>4, <3>1, <3>2
    <3>3. CASE q # h
      BY <1>4, <3>1, <3>3, ReplyNumbers
    <3> QED
      BY <3>2, <3>3
  <2>2. \A q \in Replies : stage[q] \in InTurn => Quiet
    BY DEF ReplyPart, TurnsAreQuiet
  <2> QED
    BY <1>2, <1>7, <2>1, <2>2 DEF TurnsAreQuiet
<1>9. \A g \in Halts : halt'[g].step = "detached" => halt'[g] = halt[g]
  BY <1>3, <1>4
<1>10. PlayingIsHeard'
  <2>1. StopUnderWay' => StopUnderWay
    BY <1>9 DEF StopUnderWay
  <2>2. voice.playing \in Maybe
    BY DEF ReplyBasics, ReplyShapes, Voices
  <2> QED
    BY <1>2, <1>6, <2>1, <2>2 DEF ReplyPart, PlayingIsHeard, InSession
<1>11. QueueIsKnown'
  BY <1>2, <1>7, <1>9 DEF ReplyPart, QueueIsKnown
<1>12. StopsTell'
  BY <1>3, <1>4 DEF ReplyPart, StopsTell
<1>13. CardAwaits'
  <2>1. \A q \in Typed : stage[q] = "thinking" =>
          /\ card'.turn = q /\ card'.response = NoReply
          /\ ~card'.begun /\ ~card'.ready /\ ~card'.reveal /\ ~card'.retired
    BY <1>6 DEF ReplyPart, CardAwaits
  <2>2. card'.turn = card.turn
    BY <1>6 DEF Told
  <2> QED
    BY <1>2, <1>7, <2>1, <2>2 DEF ReplyPart, CardAwaits
<1>14. ResponseAwaited'
  <2>1. SUFFICES ASSUME card'.response \notin silenced' \cup {NoReply}, card'.shown # card'.response
                 PROVE  card'.reveal /\ InProgress(card.response)'
    BY <1>6 DEF ResponseAwaited, Told
  <2>2. card'.response = card.response /\ card'.shown = card.shown /\ card'.reveal = card.reveal
    BY <1>6, <2>1 DEF Told
  <2>3. PICK x : x = card.response
    OBVIOUS
  <2>4. x \in Replies
    BY <2>1, <2>2, <2>3 DEF ReplyBasics, ReplyShapes, Cards, Maybe
  <2>5. card.reveal /\ InProgress(x)
    BY <1>6, <2>1, <2>2, <2>3 DEF ReplyPart, ResponseAwaited
  <2>6. halt[h].stream # x
    BY <1>6, <2>1, <2>2, <2>3, <2>4, <2>5, ReplyNumbers
  <2>7. InProgress(x)'
    <3>1. CASE \E g \in Halts : halt[g].step \in {"detached", "halted"} /\ halt[g].stream = x
      <4>1. PICK g \in Halts : halt[g].step \in {"detached", "halted"} /\ halt[g].stream = x
        BY <3>1
      <4>2. halt'[g] = halt[g]
        BY <1>4, <2>6, <4>1
      <4> QED
        BY <4>1, <4>2 DEF InProgress
    <3>2. CASE ~(\E g \in Halts : halt[g].step \in {"detached", "halted"} /\ halt[g].stream = x)
      BY <1>2, <1>7, <2>5, <3>2 DEF InProgress
    <3> QED
      BY <3>1, <3>2
  <2> QED
    BY <2>2, <2>3, <2>5, <2>7
<1> QED
  BY <1>6, <1>8, <1>10, <1>11, <1>12, <1>13, <1>14 DEF ReplyPart, Told

-----------------------------------------------------------------------------
LEMMA ReplyInitPart == ReplyInit => ReplyPart
<1> SUFFICES ASSUME ReplyInit
             PROVE  ReplyPart
  OBVIOUS
<1>1. NoHalt.step = "idle" /\ NoHalt.stream = NoReply
  BY DEF NoHalt
<1>2. /\ voice.playing = NoReply /\ voice.queue = NoReply /\ voice.pending = NoReply
      /\ \A h \in Halts : halt[h] = NoHalt
      /\ \A r \in Replies : stage[r] = "idle" /\ player[r].step = "none" /\ player[r].token = 0
      /\ ~card.reveal /\ ~card.streaming /\ card.timeline = NoReply /\ card.shown = NoReply
      /\ card.response = NoReply
  BY DEF ReplyInit
<1>3. Starting = {}
  BY <1>2 DEF Starting
<1>4. TurnsAreQuiet
  BY <1>2 DEF TurnsAreQuiet, InTurn
<1>5. PlayingIsHeard /\ QueueIsKnown /\ StopsTell
  BY <1>1, <1>2 DEF PlayingIsHeard, QueueIsKnown, StopsTell
<1>6. CardKept(card) /\ CardAwaits /\ ResponseAwaited
  BY <1>2, <1>3 DEF CardKept, CardAwaits, ResponseAwaited, InTurn, Typed
<1> QED
  BY <1>4, <1>5, <1>6 DEF ReplyPart

LEMMA TurnPart ==
    ASSUME ReplyBasics, ReplyPart, overlooked' = {}, NEW r \in Replies,
           TakeFloor(r) \/ AskCheckIn(r) \/ StreamDelta(r) \/ TurnWork(r)
    PROVE  ReplyPart'
  BY TakeFloorPart, AskCheckInPart, StreamDeltaPart, StartTypedPart, StartCheckInPart,
     PublishReplyPart, DecideSpeechPart, DispatchSpeechPart, ReportFailurePart,
     EndTurnPart DEF TurnWork

LEMMA PlayerPart ==
    ASSUME ReplyBasics, ReplyPart, overlooked' = {}, NEW r \in Replies, PlayerWork(r)
    PROVE  ReplyPart'
  BY OpenDevicePart, AnnounceStartPart, EndSpeechPart, BreakSpeechPart, DropRetiredPart,
     CompleteQueuePart DEF PlayerWork

LEMMA HaltPart ==
    ASSUME ReplyBasics, ReplyPart, overlooked' = {}, NEW h \in Halts, HaltWork(h)
    PROVE  ReplyPart'
  BY DetachSpeechPart, HaltSpeechPart, AnnounceStopPart DEF HaltWork

LEMMA IdlePart ==
    ASSUME ReplyBasics, ReplyPart, UNCHANGED replyVars
    PROVE  ReplyPart'
<1>1. /\ UNCHANGED <<manner, stage, calledOff, lastClaim, began, soundPart, halt, card, silenced>>
  BY DEF replyVars, turnPart, history
<1>2. TurnOnly
  BY <1>1 DEF TurnOnly
<1>3. CardKept(card') /\ CardAwaits' /\ ResponseAwaited'
  BY <1>1, <1>2, CardStands
<1>4. \A q \in Replies : stage'[q] = "claimed" /\ InForce(q)' =>
         stage[q] = "claimed" /\ InForce(q) /\ halt'[q] = halt[q]
  BY <1>1 DEF InForce
<1> QED
  BY <1>1, <1>2, <1>3, <1>4, TurnKeepsPart

\* What is overlooked is never forgotten.
LEMMA OverlookedStays ==
    ASSUME [ReplyNext]_replyVars, overlooked' = {}
    PROVE  overlooked = {}
  BY DEF ReplyNext, TakeFloor, StartTyped, AskCheckIn, StartCheckIn, StreamDelta, PublishReply,
         DecideSpeech, DispatchSpeech, ReportFailure, EndTurn, OpenDevice, AnnounceStart,
         EndSpeech, BreakSpeech, DropRetired, CompleteQueue, StopByHand, DetachSpeech,
         HaltSpeech, AnnounceStop, TurnWork, PlayerWork, HaltWork, replyVars, history

LEMMA ReplyNextIInv == ReplyIInv /\ [ReplyNext]_replyVars => ReplyIInv'
<1> SUFFICES ASSUME ReplyIInv, [ReplyNext]_replyVars
             PROVE  ReplyIInv'
  OBVIOUS
<1>1. ReplyBasics /\ ReplyBasics'
  BY ReplyNextBasics DEF ReplyIInv
<1>2. ASSUME overlooked' = {}
      PROVE  ReplyPart'
  <2>1. ReplyPart
    BY <1>2, OverlookedStays DEF ReplyIInv
  <2>2. ASSUME NEW r \in Replies,
               TakeFloor(r) \/ AskCheckIn(r) \/ StreamDelta(r) \/ TurnWork(r) \/ PlayerWork(r)
        PROVE  ReplyPart'
    BY <1>1, <1>2, <2>1, <2>2, TurnPart, PlayerPart
  <2>3. ASSUME NEW h \in Hands, StopByHand(h)
        PROVE  ReplyPart'
    BY <1>1, <1>2, <2>1, <2>3, StopByHandPart
  <2>4. ASSUME NEW h \in Halts, HaltWork(h)
        PROVE  ReplyPart'
    BY <1>1, <1>2, <2>1, <2>4, HaltPart
  <2>5. CASE UNCHANGED replyVars
    BY <1>1, <2>1, <2>5, IdlePart
  <2> QED
    BY <2>2, <2>3, <2>4, <2>5 DEF ReplyNext
<1> QED
  BY <1>1, <1>2 DEF ReplyIInv

\* Nothing is in progress when no thread has anything left to do.
LEMMA ReplyIInvPresents == ReplyIInv => ReplyPresented
<1> SUFFICES ASSUME ReplyIInv, overlooked = {}
             PROVE  /\ card.shown # NoReply => card.pacedBy = card.shown
                    /\ AtRest =>
                         /\ card.response \notin silenced \cup {NoReply} => card.shown = card.response
                         /\ voice.playing \in silenced \cup {NoReply}
  BY DEF ReplyPresented
<1>1. ReplyBasics /\ ReplyPart
  BY DEF ReplyIInv
<1>2. card.shown # NoReply => card.pacedBy = card.shown
  BY <1>1 DEF ReplyPart, CardKept
<1>3. ASSUME AtRest
      PROVE  /\ card.response \notin silenced \cup {NoReply} => card.shown = card.response
             /\ voice.playing \in silenced \cup {NoReply}
  <2>1. voice.playing \in Maybe /\ card.response \in Maybe
    BY <1>1 DEF ReplyBasics, ReplyShapes, Voices, Cards
  <2>2. voice.playing \in silenced \cup {NoReply}
    BY <1>1, <1>3, <2>1 DEF AtRest, ReplyPart, PlayingIsHeard, Maybe
  <2>3. ASSUME NEW r \in Replies
        PROVE  ~InProgress(r)
    <3>1. voice.pending = NoReply
      BY <1>1, <1>3 DEF AtRest, ReplyBasics, CallsKnown
    <3>2. voice.pending # r
      BY <3>1, ReplyNumbers
    <3> QED
      BY <1>3, <3>2 DEF AtRest, InProgress, InTurn, Starting
  <2>4. card.response \notin silenced \cup {NoReply} => card.shown = card.response
    BY <1>1, <2>1, <2>3 DEF ReplyPart, ResponseAwaited, Maybe
  <2> QED
    BY <2>2, <2>4
<1> QED
  BY <1>2, <1>3

\* What the code keeps true of the replies on their way to the card.
THEOREM ReplyInductive == ReplySpec => []ReplyIInv
<1>1. ReplyInit => ReplyIInv
  BY ReplyInitBasics, ReplyInitPart DEF ReplyIInv
<1> QED
  BY <1>1, ReplyNextIInv, PTL DEF ReplySpec

\* Turns, queues, players, stops and card have their types, and no more generations and
\* sessions are handed out than there are stops and players to take them.
THEOREM RepliesKeepTypes == ReplySpec => []ReplyTypeOK
<1>1. ReplyIInv => ReplyTypeOK
  BY BasicsImplyTypes DEF ReplyIInv
<1> QED
  BY <1>1, ReplyInductive, PTL

\* As long as no queue was overtaken at the device: when all threads rest, the client has
\* shown the reply it was last sent and nothing is taken for playing that is not.
THEOREM RepliesArePresented == ReplySpec => []ReplyPresented
  BY ReplyIInvPresents, ReplyInductive, PTL

-----------------------------------------------------------------------------
(* Chunks and wholes under one configuration.                              *)

\* A step of spoken replies is one of the chunks, or leaves them alone.
LEMMA OneHalf ==
    ASSUME [SpokenNext]_spokenVars PROVE [Next]_vars
  BY DEF SpokenNext, Chunks, Replied, spokenVars

\* The same of spoken replies, of which the chunks are one half.
THEOREM SpokenRepliesOwned == SpokenSpec => [](TypeOK /\ SpeechIsOwned)
<1>1. SpokenInit => SpeechIInv
  BY InitSpeech DEF SpokenInit
<1>2. SpeechIInv /\ [SpokenNext]_spokenVars => SpeechIInv'
  BY OneHalf, SpeechInductive
<1>3. SpeechIInv => TypeOK /\ SpeechIsOwned
  BY SpeechImpliesTypes, SpeechImpliesOwned
<1> QED
  BY <1>1, <1>2, <1>3, PTL DEF SpokenSpec

\* A replacement is spared in the composition too.
THEOREM SpokenRepliesSpared == SpokenSpec => ReplacementSpared
<1>1. SpokenInit => SpeechIInv
  BY InitSpeech DEF SpokenInit
<1>2. SpeechIInv /\ [SpokenNext]_spokenVars => SpeechIInv'
  BY OneHalf, SpeechInductive
<1>3. SpeechIInv /\ [SpokenNext]_spokenVars
      => [\A u \in Utterances :
            Live(u) /\ ~Live(u)' /\ ~IsSet(u)' /\ speech[u].born = speechGeneration'
            => worker'[u].at # "playing"
               \/ \E v \in Utterances \ {u} :
                     worker[v].at = "none" /\ worker'[v].at # "none"]_vars
  BY OneHalf, SparesAll
<1> QED
  BY <1>1, <1>2, <1>3, PTL DEF SpokenSpec, ReplacementSpared

\* A step of the composition is a step of the replies or leaves them alone.
LEMMA OtherHalf ==
    ASSUME [SpokenNext]_spokenVars PROVE [ReplyNext]_replyVars
  BY DEF SpokenNext, Chunks, Replied, spokenVars

\* The same of spoken replies, of which the replies are the other half.
THEOREM SpokenRepliesPresented == SpokenSpec => [](ReplyTypeOK /\ ReplyPresented)
<1>1. SpokenInit => ReplyIInv
  BY ReplyInitBasics, ReplyInitPart DEF SpokenInit, ReplyIInv
<1>2. ReplyIInv /\ [SpokenNext]_spokenVars => ReplyIInv'
  BY OtherHalf, ReplyNextIInv
<1>3. ReplyIInv => ReplyTypeOK /\ ReplyPresented
  BY BasicsImplyTypes, ReplyIInvPresents DEF ReplyIInv
<1> QED
  BY <1>1, <1>2, <1>3, PTL DEF SpokenSpec
=============================================================================
