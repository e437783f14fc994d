------------------------------ MODULE CloneLane ------------------------------
(***************************************************************************)
(* The resident worker of the cloned voices: one process behind two pipes, *)
(* one request at a time.                                                  *)
(*                                                                         *)
(* Requests come from threads of their own (a preview, a spoken reply) and *)
(* wait for the lane.  A request may be cancelled, time out, or meet a     *)
(* worker that died or whose pipe broke; the owner may close in the middle *)
(* of any of it.  The worker keeps the voice it is conditioned for, and    *)
(* conditions again only when the next request names another.              *)
(***************************************************************************)
EXTENDS Naturals, Sequences

CONSTANTS MaxAsks,     \* requests
          ClonedVoices,
          MaxBreaks    \* failures, deaths and broken pipes of the worker

ASSUME CloneLaneAssumption ==
    /\ MaxAsks \in Nat /\ MaxBreaks \in Nat
    /\ "no voice" \notin ClonedVoices

VARIABLES clone,      \* the process: its handle, voice, key, and what it works on
          responses,  \* the queue its pipe reader fills
          lane,       \* whose request holds _lock
          ask,        \* each request
          withdrawn,  \* requests whose cancel event is set
          laneClosed, \* _closed
          breaks      \* failures of the worker still allowed

laneVars == <<clone, responses, lane, ask, withdrawn, laneClosed, breaks>>

Asks    == 1..MaxAsks
NoVoice == "no voice"
NoAsk   == 0
Loading == MaxAsks + 1      \* what a process first answers: that it is ready

NoClone  == [process |-> "none", owes |-> NoAsk, key |-> NoVoice, voice |-> NoVoice]
NotAsked == [at |-> "none", voice |-> NoVoice, result |-> "none", heard |-> NoAsk,
             spokenBy |-> NoVoice]

CloneAlive == clone.process \in {"up", "mute"}     \* poll() is None

Withdrawn(r) == laneClosed \/ r \in withdrawn

\* Mutant: a request that raises keeps the lane.
EndsAskInside(r, result) ==
    /\ ask' = [ask EXCEPT ![r].at = "done", ![r].result = result]
    /\ UNCHANGED lane

\* The request returns or raises, and the lane is free again.
EndsAsk(r, result) ==
    /\ ask' = [ask EXCEPT ![r].at = "done", ![r].result = result]
    /\ lane' = IF lane = r THEN NoAsk ELSE lane

\* _stop_owned: the process is terminated and forgotten.
StopOwned == clone' = NoClone /\ responses' = <<>>

(***************************************************************************)
(* A request.                                                              *)
(***************************************************************************)

Ask(r, v) ==
    /\ ask[r].at = "none" /\ \A s \in 1..(r - 1) : ask[s].at # "none"
    /\ ask' = [ask EXCEPT ![r].at = "queueing", ![r].voice = v]
    /\ UNCHANGED <<clone, responses, lane, withdrawn, laneClosed, breaks>>

\* The cancel event, by a newer job or turn.
Withdraw(r) ==
    /\ ask[r].at \notin {"none", "done"} /\ r \notin withdrawn
    /\ withdrawn' = withdrawn \cup {r}
    /\ UNCHANGED <<clone, responses, lane, ask, laneClosed, breaks>>

EnterLane(r) ==
    /\ ask[r].at = "queueing" /\ lane = NoAsk /\ ~Withdrawn(r)
    /\ lane' = r
    /\ ask' = [ask EXCEPT ![r].at = "entered"]
    /\ UNCHANGED <<clone, responses, withdrawn, laneClosed, breaks>>

\* Where a request asks whether it is still wanted: in the queue, inside, and
\* before it writes.  Once it has written it waits for its answer.
GiveUpAsk(r) ==
    /\ ask[r].at \in {"queueing", "entered", "loaded"} /\ Withdrawn(r)
    /\ EndsAsk(r, "cancelled")
    /\ UNCHANGED <<clone, responses, withdrawn, laneClosed, breaks>>

FindClone(r) ==
    /\ ask[r].at = "entered" /\ CloneAlive
    /\ ask' = [ask EXCEPT ![r].at = "loaded"]
    /\ UNCHANGED <<clone, responses, lane, withdrawn, laneClosed, breaks>>

\* _start, after the installation was verified; a new process has a new queue.
LaunchClone(r) ==
    /\ ask[r].at = "entered" /\ ~CloneAlive /\ ~Withdrawn(r)
    /\ clone' = [NoClone EXCEPT !.process = "up", !.owes = Loading]
    /\ responses' = <<>>
    /\ ask' = [ask EXCEPT ![r].at = "loading"]
    /\ UNCHANGED <<lane, withdrawn, laneClosed, breaks>>

\* Not installed, or changed since it was registered.
CannotLaunch(r) ==
    /\ ask[r].at = "entered" /\ ~CloneAlive /\ breaks > 0
    /\ EndsAsk(r, "failed")
    /\ breaks' = breaks - 1
    /\ UNCHANGED <<clone, responses, withdrawn, laneClosed>>

WriteAsk(r) ==
    /\ ask[r].at = "loaded" /\ ~Withdrawn(r)
    /\ IF CloneAlive
       THEN /\ clone' = [clone EXCEPT !.owes = IF clone.process = "up" THEN r ELSE @]
            /\ ask' = [ask EXCEPT ![r].at = "asked"]
            /\ UNCHANGED lane
       ELSE EndsAsk(r, "failed") /\ UNCHANGED clone
    /\ UNCHANGED <<responses, withdrawn, laneClosed, breaks>>

Waits(r) == ask[r].at \in {"loading", "asked"}

\* _receive of a good answer.  One to another request ends the worker.
HearAnswer(r) ==
    /\ Waits(r) /\ ~laneClosed /\ responses # <<>> /\ Head(responses).state = "ready"
    /\ LET answer == Head(responses)
       IN  \/ /\ ask[r].at = "loading"
              /\ ask' = [ask EXCEPT ![r].at = "loaded"]
              /\ responses' = Tail(responses)
              /\ UNCHANGED <<clone, lane>>
           \/ /\ ask[r].at = "asked" /\ answer.to = r
              /\ ask' = [ask EXCEPT ![r].at = "done", ![r].heard = answer.to,
                      ![r].result = IF r \in withdrawn THEN "cancelled" ELSE "ok",
                      ![r].spokenBy = answer.voice]
              /\ lane' = NoAsk
              /\ responses' = Tail(responses)
              /\ UNCHANGED clone
           \/ /\ ask[r].at = "asked" /\ answer.to # r
              /\ EndsAsk(r, "failed")
              /\ StopOwned
    /\ UNCHANGED <<withdrawn, laneClosed, breaks>>

HearFailure(r) ==
    /\ Waits(r) /\ ~laneClosed /\ responses # <<>> /\ Head(responses).state = "failed"
    /\ EndsAsk(r, "failed")
    /\ StopOwned
    /\ UNCHANGED <<withdrawn, laneClosed, breaks>>

HearClosing(r) ==
    /\ Waits(r) /\ laneClosed
    /\ EndsAsk(r, "cancelled")
    /\ UNCHANGED <<clone, responses, withdrawn, laneClosed, breaks>>

\* Mutant: the time-out leaves the worker to its late answer.
TimeOutOnly(r) ==
    /\ Waits(r) /\ ~laneClosed /\ responses = <<>>
    /\ EndsAsk(r, "failed")
    /\ UNCHANGED <<clone, responses, withdrawn, laneClosed, breaks>>

TimeOut(r) ==
    /\ Waits(r) /\ ~laneClosed /\ responses = <<>>
    /\ EndsAsk(r, "failed")
    /\ StopOwned
    /\ UNCHANGED <<withdrawn, laneClosed, breaks>>

(***************************************************************************)
(* The worker and its end.                                                 *)
(***************************************************************************)

Answer(state, r) == [state |-> state, to |-> r, voice |-> clone'.voice]

\* It conditions when the request names another voice than its key, and
\* speaks with what it is conditioned for.
CloneAnswers ==
    /\ clone.process = "up" /\ clone.owes # NoAsk
    /\ LET r == clone.owes
           fits == r = Loading \/ ask[r].voice = clone.key
       IN  /\ clone' = IF fits THEN [clone EXCEPT !.owes = NoAsk]
                       ELSE [clone EXCEPT !.owes = NoAsk, !.key = ask[r].voice,
                                          !.voice = ask[r].voice]
           /\ responses' = Append(responses, Answer("ready", r))
    /\ UNCHANGED <<lane, ask, withdrawn, laneClosed, breaks>>

\* An exception in the middle leaves it conditioned for either voice or none,
\* and without a key.
CloneFails ==
    /\ clone.process = "up" /\ clone.owes \in Asks /\ breaks > 0
    /\ \E v \in {clone.voice, ask[clone.owes].voice, NoVoice} :
          clone' = [clone EXCEPT !.owes = NoAsk, !.key = NoVoice, !.voice = v]
    /\ responses' = Append(responses, Answer("failed", clone.owes))
    /\ breaks' = breaks - 1
    /\ UNCHANGED <<lane, ask, withdrawn, laneClosed>>

\* It exits, or its pipe brings what the reader cannot take; the reader ends
\* either way, and says so.
CloneBreaks ==
    /\ clone.process = "up" /\ breaks > 0
    /\ \E process \in {"mute", "dead"} :
          clone' = [clone EXCEPT !.process = process, !.owes = NoAsk]
    /\ responses' = Append(responses, Answer("failed", NoAsk))
    /\ breaks' = breaks - 1
    /\ UNCHANGED <<lane, ask, withdrawn, laneClosed>>

\* close: on the owner's shutdown, without the lane.
CloseLane ==
    /\ ~laneClosed
    /\ laneClosed' = TRUE
    /\ StopOwned
    /\ UNCHANGED <<lane, ask, withdrawn, breaks>>

LaneInit ==
    /\ clone = NoClone /\ responses = <<>> /\ lane = NoAsk
    /\ ask = [r \in Asks |-> NotAsked]
    /\ withdrawn = {} /\ laneClosed = FALSE /\ breaks = MaxBreaks

AskStep(r) ==
    \/ EnterLane(r) \/ GiveUpAsk(r)
    \/ FindClone(r) \/ LaunchClone(r) \/ CannotLaunch(r) \/ WriteAsk(r)
    \/ HearAnswer(r) \/ HearFailure(r) \/ HearClosing(r) \/ TimeOut(r)

LaneNext ==
    \/ \E r \in Asks, v \in ClonedVoices : Ask(r, v)
    \/ \E r \in Asks : Withdraw(r) \/ AskStep(r)
    \/ CloneAnswers \/ CloneFails \/ CloneBreaks \/ CloseLane

\* A thread that asked goes on; the deadline of _receive passes.
LaneSpec == LaneInit /\ [][LaneNext]_laneVars /\ \A r \in Asks : WF_laneVars(AskStep(r))

LaneTypeOK ==
    /\ clone.process \in {"none", "up", "mute", "dead"} /\ lane \in Asks \cup {NoAsk}
    /\ clone.owes \in Asks \cup {NoAsk, Loading}
    /\ {clone.key, clone.voice} \subseteq ClonedVoices \cup {NoVoice}
    /\ Len(responses) <= 2
    /\ \A r \in Asks :
          lane = r <=> ask[r].at \in {"entered", "loading", "loaded", "asked"}
    /\ \A r \in Asks : ask[r].result \in {"none", "ok", "failed", "cancelled"}
    /\ withdrawn \subseteq Asks
    /\ laneClosed \in BOOLEAN /\ breaks \in 0..MaxBreaks

\* A request that succeeds gets its own answer, spoken by its own voice.
\* Between requests the worker owes nothing that the next one could take for
\* its answer, and none outlives its owner.
AnswersAreOwn ==
    /\ \A r \in Asks : ask[r].result = "ok" =>
            ask[r].heard = r /\ ask[r].spokenBy = ask[r].voice
    /\ lane = NoAsk /\ clone.process = "up" =>
            /\ clone.owes = NoAsk
            /\ \A i \in DOMAIN responses : responses[i].state = "failed"
    /\ laneClosed => clone.process = "none"

AsksAnswered == \A r \in Asks : ask[r].at \in {"none", "done"}
=============================================================================
