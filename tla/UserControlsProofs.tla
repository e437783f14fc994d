------------------------- MODULE UserControlsProofs -------------------------
(***************************************************************************)
(* TLAPS proofs about what the user steers by hand: the push-to-talk key,  *)
(* the answers of the cloning worker, the voice settings and the commands  *)
(* on the scene, for any number of presses, requests, voices and failures. *)
(***************************************************************************)
EXTENDS UserControls, SequenceTheorems, FiniteSetTheorems, TLAPS

-----------------------------------------------------------------------------
(* Push-to-talk: the inductive invariant.                                  *)

\* PTT runs and no two presses were ever in flight together.
Sole == running /\ ~overlapped

\* Threads, the slot and calls are of captures that were accepted.
Numbered ==
    /\ \A c \in Captures : worker[c] # "none" => c <= next
    /\ recordThread <= next
    /\ \A s \in Sources : source[s].capture <= next

\* The one press in flight is of the newest capture: it has the authority, its
\* thread is unborn, and the slot is empty until this press fills it.
PressInFlight ==
    \A s \in Sources : Pressing(s) =>
        /\ \A t \in Sources : Pressing(t) => s = t
        /\ next \in Captures /\ source[s].capture = next
        /\ active = next /\ worker[next] = "none"
        /\ recordThread = IF source[s].at = "start" THEN next ELSE 0

\* The slot is empty or the newest capture's, which then has the authority
\* too, and whose thread lives or is about to be started.
SlotIsNewest ==
    recordThread # 0 =>
        /\ recordThread = next /\ active = next
        /\ worker[next] # "dead"
        /\ worker[next] = "none" => \E s \in Sources : source[s].at = "start"

\* A thread that has not given up its slot has it, with the authority.
RecorderOwns ==
    \A c \in Captures : worker[c] \in {"recording", "text", "silent"} =>
        recordThread = c /\ active = c

\* Once the newest capture has freed its slot nothing is there to take its
\* text away.
TextIsAuthoritative ==
    \A c \in Captures : c = next /\ worker[c] \in {"check", "deliver", "callback"} =>
        recordThread = 0 /\ active = 0

IInv ==
    /\ TypeOK /\ Numbered /\ NothingLost
    /\ Sole => PressInFlight /\ SlotIsNewest /\ RecorderOwns /\ TextIsAuthoritative

-----------------------------------------------------------------------------
(* Initial states and stuttering.                                          *)

\* Nothing is pressed and no thread exists.
LEMMA InitIInv == Init => IInv
<1> SUFFICES ASSUME Init PROVE IInv
  OBVIOUS
<1>1. 0 \in 0..MaxCaptures
  BY CapturesAssumption DEF CapturesAssumption
<1>2. TypeOK
  BY <1>1 DEF Init, TypeOK, Idle, SourceSteps, WorkerSteps, VoiceStates
<1>3. \A s \in Sources : ~Pressing(s) /\ source[s].capture = 0
  BY DEF Init, Idle, Pressing
<1>4. \A c \in Captures : worker[c] = "none"
  BY DEF Init
<1>5. QED
  BY <1>2, <1>3, <1>4
     DEF Init, IInv, Numbered, NothingLost, PressInFlight, SlotIsNewest, RecorderOwns,
         TextIsAuthoritative

\* The invariant mentions no variable outside vars.
LEMMA StutterIInv == IInv /\ UNCHANGED vars => IInv'
  BY DEF vars, IInv, TypeOK, Numbered, NothingLost, Sole, PressInFlight, SlotIsNewest,
         RecorderOwns, TextIsAuthoritative, Pressing, Captures

-----------------------------------------------------------------------------
(* The callers: press, release, stop.                                      *)

\* A step of one caller that changes where it is and what is shown.
LEMMA GotoStep ==
    ASSUME IInv, NEW s \in Sources, NEW from, NEW to \in SourceSteps,
           Goto(s, from, to), shown' \in VoiceStates,
           UNCHANGED <<running, pressed, active, next, recordThread, worker, captureVars>>,
           to \in {"interrupt", "install"} => Pressing(s) /\ from # "start",
           to \notin {"interrupt", "install"} => from \in {"released", "stopping"} /\ to = "idle"
    PROVE  IInv'
<1>1. TypeOK'
  BY DEF IInv, TypeOK, Goto, captureVars, SourceSteps
<1>2. /\ source'[s].capture = source[s].capture /\ source'[s].at = to
      /\ source[s].at = from
      /\ \A t \in Sources \ {s} : source'[t] = source[t]
  BY DEF IInv, TypeOK, Goto
<1>3. Numbered' /\ NothingLost'
  BY <1>2 DEF IInv, Numbered, NothingLost, captureVars
<1>4. ASSUME Sole'
      PROVE  PressInFlight' /\ SlotIsNewest' /\ RecorderOwns' /\ TextIsAuthoritative'
  <2>1. Sole
    BY <1>4 DEF Sole, captureVars
  <2>2. PressInFlight'
    BY <1>2, <2>1 DEF IInv, PressInFlight, Pressing
  <2>3. SlotIsNewest'
    BY <1>2, <2>1 DEF IInv, SlotIsNewest, Pressing
  <2>4. RecorderOwns' /\ TextIsAuthoritative'
    BY <2>1 DEF IInv, RecorderOwns, TextIsAuthoritative, captureVars
  <2>5. QED
    BY <2>2, <2>3, <2>4
<1>5. QED
  BY <1>1, <1>3, <1>4 DEF IInv

\* The announcements, and the interruption of the turn.
LEMMA AnnouncementsIInv ==
    ASSUME IInv, NEW s \in Sources,
           Announce(s) \/ Interrupt(s) \/ AnnounceRelease(s) \/ AnnounceStop(s)
    PROVE  IInv'
<1>1. shown \in VoiceStates
  BY DEF IInv, TypeOK
<1>2. CASE Announce(s)
  BY <1>2, GotoStep DEF Announce, Goto, Pressing, SourceSteps, VoiceStates
<1>3. CASE Interrupt(s)
  BY <1>1, <1>3, GotoStep DEF Interrupt, Goto, Pressing, SourceSteps, VoiceStates
<1>4. CASE AnnounceRelease(s)
  BY <1>4, GotoStep DEF AnnounceRelease, SourceSteps, VoiceStates
<1>5. CASE AnnounceStop(s)
  BY <1>5, GotoStep DEF AnnounceStop, SourceSteps, VoiceStates
<1>6. QED
  BY <1>2, <1>3, <1>4, <1>5

\* A press is accepted: the slot was empty, since whatever filled it would
\* have been a living thread or a press in flight.
LEMMA AcceptIInv ==
    ASSUME IInv, NEW s \in Sources, Accept(s)
    PROVE  IInv'
<1> USE CapturesAssumption DEF CapturesAssumption
<1>1. /\ next' = next + 1 /\ active' = next + 1 /\ next + 1 \in Captures
      /\ next \in Nat
  BY DEF IInv, TypeOK, Accept, Captures
<1>2. /\ source'[s] = [at |-> "announce", capture |-> next + 1]
      /\ source[s].at = "idle"
      /\ \A t \in Sources \ {s} : source'[t] = source[t]
  BY <1>1 DEF IInv, TypeOK, Accept
<1>3. source' \in [Sources -> [at: SourceSteps, capture: 0..MaxCaptures]]
  BY <1>1 DEF IInv, TypeOK, Accept, SourceSteps, Captures
<1>4. TypeOK'
  BY <1>1, <1>3 DEF IInv, TypeOK, Accept, Captures
<1>5. Numbered'
  BY <1>1, <1>2 DEF IInv, TypeOK, Numbered, Accept, Captures
<1>6. \A c \in discarded : c \in Nat /\ (next > c => next' > c)
  BY <1>1 DEF IInv, TypeOK, Captures
<1>7. NothingLost'
  BY <1>6, Zenon DEF IInv, NothingLost, Accept
<1>8. ASSUME Sole'
      PROVE  PressInFlight' /\ SlotIsNewest' /\ RecorderOwns' /\ TextIsAuthoritative'
  <2>1. Sole /\ \A t \in Sources : ~Pressing(t)
    BY <1>2, <1>8 DEF Sole, Accept, Pressing
  <2>2. recordThread = 0
    BY <2>1 DEF IInv, SlotIsNewest, Accept, RecorderBusy, Alive, Pressing
  <2>3. worker[next + 1] = "none"
    BY <1>1 DEF IInv, Numbered
  <2>4. \A t \in Sources : Pressing(t)' => t = s
    BY <1>2, <2>1 DEF Pressing
  <2>5. PressInFlight'
    BY <1>1, <1>2, <2>2, <2>3, <2>4 DEF PressInFlight, Accept
  <2>6. RecorderOwns'
    BY <2>1, <2>2 DEF IInv, RecorderOwns, Accept, Captures
  <2>7. SlotIsNewest' /\ TextIsAuthoritative'
    BY <1>1, <2>2, <2>3 DEF SlotIsNewest, TextIsAuthoritative, Accept
  <2>8. QED
    BY <2>5, <2>6, <2>7
<1>9. QED
  BY <1>4, <1>5, <1>7, <1>8 DEF IInv

\* record_thread is assigned the thread of the press, into an empty slot.
LEMMA InstallIInv ==
    ASSUME IInv, NEW s \in Sources, Install(s)
    PROVE  IInv'
<1>1. /\ source'[s].capture = source[s].capture /\ source'[s].at = "start"
      /\ source[s].at = "install"
      /\ \A t \in Sources \ {s} : source'[t] = source[t]
  BY DEF IInv, TypeOK, Install, Goto
<1>2. source' \in [Sources -> [at: SourceSteps, capture: 0..MaxCaptures]]
  BY DEF IInv, TypeOK, Install, Goto, SourceSteps
<1>3. TypeOK'
  BY <1>2 DEF IInv, TypeOK, Install, captureVars
<1>4. Numbered' /\ NothingLost'
  BY <1>1 DEF IInv, Numbered, NothingLost, Install, captureVars
<1>5. ASSUME Sole'
      PROVE  PressInFlight' /\ SlotIsNewest' /\ RecorderOwns' /\ TextIsAuthoritative'
  <2>1. Sole
    BY <1>5 DEF Sole, Install, captureVars
  <2>2. /\ Pressing(s) /\ \A t \in Sources : Pressing(t) => t = s
        /\ source[s].capture = next /\ next \in Captures /\ active = next
        /\ worker[next] = "none" /\ recordThread = 0
    BY <1>1, <2>1 DEF IInv, PressInFlight, Pressing
  <2>3. \A t \in Sources : Pressing(t)' => t = s
    BY <1>1, <2>2 DEF Pressing
  <2>4. recordThread' = next
    BY <2>2 DEF Install
  <2>5. PressInFlight'
    BY <1>1, <2>2, <2>3, <2>4 DEF PressInFlight, Install
  <2>6. SlotIsNewest'
    BY <1>1, <2>2, <2>4 DEF SlotIsNewest, Install
  <2>7. RecorderOwns' /\ TextIsAuthoritative'
    BY <2>1, <2>2, <2>4
       DEF IInv, RecorderOwns, TextIsAuthoritative, Install, Captures
  <2>8. QED
    BY <2>5, <2>6, <2>7
<1>6. QED
  BY <1>3, <1>4, <1>5 DEF IInv

\* The thread that starts is the newest capture's: nobody assigned the slot
\* between this press's assignment and its start.
LEMMA StartIInv ==
    ASSUME IInv, NEW s \in Sources, Start(s)
    PROVE  IInv'
<1> USE CapturesAssumption DEF CapturesAssumption
<1>1. /\ source'[s] = Idle /\ source[s].at = "start"
      /\ \A t \in Sources \ {s} : source'[t] = source[t]
  BY DEF IInv, TypeOK, Start
<1>2. source' \in [Sources -> [at: SourceSteps, capture: 0..MaxCaptures]]
  BY DEF IInv, TypeOK, Start, SourceSteps, Idle
<1>3. /\ worker' \in [Captures -> WorkerSteps]
      /\ \A c \in Captures : c # recordThread => worker'[c] = worker[c]
      /\ \A c \in Captures : c = recordThread =>
            worker'[c] = IF worker[c] = "none" THEN "recording" ELSE worker[c]
  BY DEF IInv, TypeOK, Start, WorkerSteps, Captures
<1>4. TypeOK'
  BY <1>2, <1>3 DEF IInv, TypeOK, Start, captureVars
<1>5. Numbered' /\ NothingLost'
  BY <1>1, <1>3 DEF IInv, TypeOK, Numbered, NothingLost, Start, captureVars, Idle
<1>6. ASSUME Sole'
      PROVE  /\ PressInFlight' /\ SlotIsNewest' /\ RecorderOwns' /\ TextIsAuthoritative'
  <2>1. Sole
    BY <1>6 DEF Sole, Start, captureVars
  <2>2. /\ Pressing(s) /\ \A t \in Sources : Pressing(t) => t = s
        /\ next \in Captures /\ active = next
        /\ worker[next] = "none" /\ recordThread = next
    BY <1>1, <2>1 DEF IInv, PressInFlight, Pressing
  <2>3. \A t \in Sources : ~Pressing(t)'
    BY <1>1, <2>2 DEF Pressing, Idle
  <2>4. worker'[next] = "recording"
    BY <1>3, <2>2
  <2>5. PressInFlight' /\ SlotIsNewest'
    BY <2>2, <2>3, <2>4 DEF PressInFlight, SlotIsNewest, Start
  <2>6. RecorderOwns' /\ TextIsAuthoritative'
    BY <1>3, <2>1, <2>2, <2>4 DEF IInv, RecorderOwns, TextIsAuthoritative, Start
  <2>7. QED
    BY <2>5, <2>6
<1>7. QED
  BY <1>4, <1>5, <1>6 DEF IInv

\* A release gives the key up and leaves the authority; a stop ends the claim
\* that anything was kept.
LEMMA ReleaseIInv ==
    ASSUME IInv, NEW s \in Sources, Release(s) \/ Stop(s)
    PROVE  IInv'
<1> USE CapturesAssumption DEF CapturesAssumption
<1>1. source' \in [Sources -> [at: SourceSteps, capture: 0..MaxCaptures]]
  BY DEF IInv, TypeOK, Release, Stop, SourceSteps
<1>2. TypeOK'
  BY <1>1 DEF IInv, TypeOK, Release, Stop, captureVars
<1>3. Numbered' /\ NothingLost'
  BY DEF IInv, TypeOK, Numbered, NothingLost, Release, Stop, captureVars
<1>4. CASE Release(s)
  <2>1. /\ ~Pressing(s) /\ ~Pressing(s)' /\ source[s].at # "start" /\ source'[s].at # "start"
        /\ \A t \in Sources \ {s} : source'[t] = source[t]
    BY <1>4 DEF IInv, TypeOK, Release, Pressing
  <2>2. Sole' => Sole
    BY <1>4 DEF Sole, Release, captureVars
  <2>3. Sole' => PressInFlight'
    BY <1>4, <2>1, <2>2 DEF IInv, PressInFlight, Release, Pressing
  <2>4. Sole' => SlotIsNewest'
    BY <1>4, <2>1, <2>2 DEF IInv, SlotIsNewest, Release
  <2>5. Sole' => RecorderOwns' /\ TextIsAuthoritative'
    BY <1>4, <2>2 DEF IInv, RecorderOwns, TextIsAuthoritative, Release
  <2>6. QED
    BY <1>2, <1>3, <2>3, <2>4, <2>5 DEF IInv
<1>5. CASE Stop(s)
  BY <1>2, <1>3, <1>5 DEF IInv, Stop, Sole
<1>6. QED
  BY <1>4, <1>5

-----------------------------------------------------------------------------
(* The recorder threads.                                                   *)

\* A step of the thread of capture c, with what the slot and the authority
\* owe when the capture is the newest.
LEMMA WorkerStep ==
    ASSUME IInv, NEW c \in Captures, NEW to \in WorkerSteps,
           worker[c] # "none", to # "none",
           worker' = [worker EXCEPT ![c] = to],
           UNCHANGED <<running, pressed, next, source, overlapped>>,
           audio' \subseteq Captures, shown' \in VoiceStates,
           \/ UNCHANGED <<recordThread, active>>
           \/ recordThread = c /\ active = c /\ recordThread' = 0 /\ active' = 0,
           discarded' \subseteq Captures,
           \A d \in discarded' \ discarded : Sole => next > d,
           to \in {"recording", "text", "silent"} =>
               worker[c] \in {"recording", "text", "silent"} /\ UNCHANGED recordThread,
           Sole /\ to \in {"check", "deliver", "callback"} /\ c = next =>
               recordThread' = 0 /\ active' = 0,
           Sole /\ to = "dead" => recordThread' # c
    PROVE  IInv'
<1>1. /\ worker'[c] = to /\ \A d \in Captures \ {c} : worker'[d] = worker[d]
  BY DEF IInv, TypeOK
<1>2. worker' \in [Captures -> WorkerSteps]
  BY DEF IInv, TypeOK
<1>3. recordThread' \in 0..MaxCaptures /\ active' \in {0, next'}
  BY CapturesAssumption DEF CapturesAssumption, IInv, TypeOK
<1>4. TypeOK'
  BY <1>2, <1>3 DEF IInv, TypeOK
<1>5. Numbered'
  BY <1>1 DEF IInv, Numbered, TypeOK
<1>6. NothingLost'
  BY DEF IInv, NothingLost, Sole
<1>7. ASSUME Sole'
      PROVE  PressInFlight' /\ SlotIsNewest' /\ RecorderOwns' /\ TextIsAuthoritative'
  <2>1. Sole
    BY <1>7 DEF Sole
  <2>2. PressInFlight'
    BY <1>1, <2>1 DEF IInv, PressInFlight, Pressing, Captures
  <2>3. SlotIsNewest'
    BY <1>1, <2>1 DEF IInv, SlotIsNewest, TypeOK, Captures
  <2>4. RecorderOwns'
    BY <1>1, <2>1 DEF IInv, RecorderOwns
  <2>5. TextIsAuthoritative'
    BY <1>1, <2>1 DEF IInv, TextIsAuthoritative
  <2>6. QED
    BY <2>2, <2>3, <2>4, <2>5
<1>8. QED
  BY <1>4, <1>5, <1>6, <1>7 DEF IInv

\* The end of a recording, with or without text, or by a failure.
LEMMA RecordingIInv ==
    ASSUME IInv, NEW c \in Captures,
           Hear(c) \/ RecordEnds(c) \/ RecordFails(c)
    PROVE  IInv'
<1> USE DEF WorkerSteps, VoiceStates, captureVars
<1>0. /\ worker \in [Captures -> WorkerSteps] /\ audio \subseteq Captures
      /\ discarded \subseteq Captures /\ shown \in VoiceStates
  BY DEF IInv, TypeOK
<1>1. CASE Hear(c)
  <2>1. worker' = [worker EXCEPT ![c] = "recording"] /\ worker[c] = "recording"
    BY <1>0, <1>1 DEF Hear
  <2>2. QED
    BY <1>0, <1>1, <2>1, WorkerStep DEF Hear
<1>2. CASE RecordEnds(c)
  <2>1. PICK to \in {"silent", "text"} : Advance(c, "recording", to)
    BY <1>2 DEF RecordEnds
  <2>2. QED
    BY <1>0, <1>2, <2>1, WorkerStep DEF RecordEnds, Advance
<1>3. CASE RecordFails(c)
  BY <1>0, <1>3, WorkerStep DEF RecordFails, Advance
<1>4. QED
  BY <1>1, <1>2, <1>3

\* The slot is freed with the text: whoever still owns both gives both up.
LEMMA FreeSlotIInv ==
    ASSUME IInv, NEW c \in Captures, FreeSlot(c)
    PROVE  IInv'
<1>1. /\ worker[c] = "text" /\ worker' = [worker EXCEPT ![c] = "check"]
      /\ "check" \in WorkerSteps
  BY DEF FreeSlot, Advance, WorkerSteps
<1>2. Sole => recordThread = c /\ active = c
  BY <1>1 DEF IInv, RecorderOwns
<1>3. \/ UNCHANGED <<recordThread, active>>
      \/ recordThread = c /\ active = c /\ recordThread' = 0 /\ active' = 0
  BY DEF FreeSlot, ReleaseSlot, Owns
<1>4. Sole => recordThread' = 0 /\ active' = 0
  BY <1>2 DEF FreeSlot, ReleaseSlot, Owns
<1>5. audio \subseteq Captures /\ discarded \subseteq Captures /\ shown \in VoiceStates
  BY DEF IInv, TypeOK
<1>6. QED
  BY <1>1, <1>3, <1>4, <1>5, WorkerStep DEF FreeSlot, captureVars

\* The authority check: only for the newest capture is everything free, and a
\* text it drops is of an older one.
LEMMA CheckIInv ==
    ASSUME IInv, NEW c \in Captures, Check(c)
    PROVE  IInv'
<1>0. /\ worker \in [Captures -> WorkerSteps] /\ audio \subseteq Captures
      /\ discarded \subseteq Captures /\ shown \in VoiceStates
  BY DEF IInv, TypeOK
<1>1. PICK to \in {"deliver", "finally"} :
         /\ Advance(c, "check", to)
         /\ to = "deliver" => Authoritative(c) /\ UNCHANGED discarded
         /\ to = "finally" => ~Authoritative(c) /\ discarded' = discarded \cup {c}
  BY DEF Check
<1>2. to \in WorkerSteps /\ worker[c] = "check" /\ worker' = [worker EXCEPT ![c] = to]
  BY <1>1 DEF Advance, WorkerSteps
<1>3. c <= next /\ c \in Nat /\ next \in Nat
  BY <1>2 DEF IInv, Numbered, TypeOK, Captures
<1>4. Sole /\ c = next => Authoritative(c)
  BY <1>2 DEF IInv, TextIsAuthoritative, Authoritative
<1>5. \A d \in discarded' \ discarded : Sole => next > d
  BY <1>1, <1>3, <1>4
<1>6. discarded' \subseteq Captures
  BY <1>0, <1>1
<1>7. Sole /\ to \in {"check", "deliver", "callback"} /\ c = next =>
          recordThread' = 0 /\ active' = 0
  BY <1>1 DEF Check, Authoritative
<1>8. QED
  BY <1>0, <1>1, <1>2, <1>5, <1>6, <1>7, WorkerStep DEF Check

\* From the delivery to the end of the callback nothing but the thread moves;
\* what was free stays free.
LEMMA DeliveryIInv ==
    ASSUME IInv, NEW c \in Captures,
           Deliver(c) \/ CallbackReturns(c) \/ Silent(c) \/ ReportError(c)
    PROVE  IInv'
<1> USE DEF WorkerSteps, VoiceStates, captureVars
<1>0. /\ audio \subseteq Captures /\ discarded \subseteq Captures /\ shown \in VoiceStates
  BY DEF IInv, TypeOK
<1>1. CASE Deliver(c)
  <2>1. worker[c] = "deliver" /\ worker' = [worker EXCEPT ![c] = "callback"]
    BY <1>1 DEF Deliver, Advance
  <2>2. Sole /\ c = next => recordThread = 0 /\ active = 0
    BY <2>1 DEF IInv, TextIsAuthoritative
  <2>3. QED
    BY <1>0, <1>1, <2>1, <2>2, WorkerStep DEF Deliver
<1>2. CASE CallbackReturns(c)
  <2>1. PICK to \in {"finally", "error"} : Advance(c, "callback", to)
    BY <1>2 DEF CallbackReturns
  <2>2. QED
    BY <1>0, <1>2, <2>1, WorkerStep DEF CallbackReturns, Advance
<1>3. CASE Silent(c)
  BY <1>0, <1>3, WorkerStep DEF Silent, Advance
<1>4. CASE ReportError(c)
  BY <1>0, <1>4, WorkerStep DEF ReportError, Advance
<1>5. QED
  BY <1>1, <1>2, <1>3, <1>4

\* The cleanup of a thread: a slot that still is its own is the newest's, so
\* the authority goes with it.
LEMMA CleanIInv ==
    ASSUME IInv, NEW c \in Captures, Clean(c)
    PROVE  IInv'
<1>1. /\ worker[c] = "finally" /\ worker' = [worker EXCEPT ![c] = "dead"]
      /\ "dead" \in WorkerSteps
  BY DEF Clean, Advance, WorkerSteps
<1>2. Sole /\ recordThread = c => active = c
  BY DEF IInv, SlotIsNewest, Captures
<1>3. \/ UNCHANGED <<recordThread, active>>
      \/ recordThread = c /\ active = c /\ recordThread' = 0 /\ active' = 0
  BY DEF Clean, ReleaseSlot, Owns
<1>4. Sole => recordThread' # c
  BY <1>2 DEF Clean, ReleaseSlot, Owns, Captures
<1>5. audio \subseteq Captures /\ discarded \subseteq Captures /\ shown \in VoiceStates
  BY DEF IInv, TypeOK
<1>6. QED
  BY <1>1, <1>3, <1>4, <1>5, WorkerStep DEF Clean, captureVars

-----------------------------------------------------------------------------
(* The theorems.                                                           *)

\* Every step of a caller and of a recording thread keeps the inductive invariant.
LEMMA NextIInv == IInv /\ [Next]_vars => IInv'
<1> SUFFICES ASSUME IInv, [Next]_vars PROVE IInv'
  OBVIOUS
<1>1. ASSUME NEW s \in Sources, Call(s) \/ Accept(s) \/ Release(s) \/ Stop(s)
      PROVE  IInv'
  BY <1>1, AnnouncementsIInv, InstallIInv, StartIInv, AcceptIInv, ReleaseIInv DEF Call
<1>2. ASSUME NEW c \in Captures,
             Record(c) \/ Hear(c) \/ RecordFails(c) \/ CallbackReturns(c)
      PROVE  IInv'
  BY <1>2, RecordingIInv, FreeSlotIInv, CheckIInv, DeliveryIInv, CleanIInv DEF Record
<1>3. CASE UNCHANGED vars
  BY <1>3, StutterIInv
<1>4. QED
  BY <1>1, <1>2, <1>3 DEF Next

\* Every reachable state satisfies the inductive invariant.
THEOREM Inductive == Spec => []IInv
<1>1. IInv /\ [Next]_vars => IInv'
  BY NextIInv
<1>2. QED
  BY <1>1, InitIInv, PTL DEF Spec

\* Every variable keeps its type, and authority is only ever the newest
\* capture's, for any number of callers and captures.
THEOREM KeyTypes == Spec => []TypeOK
<1>1. IInv => TypeOK
  BY DEF IInv
<1>2. QED
  BY <1>1, Inductive, PTL

\* While no two presses were ever in flight together, the text of the newest
\* capture is never dropped by the authority check of a running PTT.
THEOREM TextIsKept == Spec => []NothingLost
<1>1. IInv => NothingLost
  BY DEF IInv
<1>2. QED
  BY <1>1, Inductive, PTL

\* No cleanup of an older thread takes the authority from a newer capture,
\* whether or not presses overlapped.
THEOREM AuthorityIsKept == Spec => AuthorityKept
<1> DEFINE Step == active # 0 /\ active' = 0 /\ running' =>
                       worker[active] \in {"text", "finally"}
<1>1. TypeOK /\ [Next]_vars => [Step]_vars
  <2> SUFFICES ASSUME TypeOK, Next, active # 0, active' = 0, running'
               PROVE  worker[active] \in {"text", "finally"}
    BY DEF vars
  <2>1. ASSUME NEW s \in Sources, Call(s) \/ Accept(s) \/ Release(s) \/ Stop(s)
        PROVE  FALSE
    <3>1. CASE Accept(s)
      BY <3>1 DEF Accept, TypeOK
    <3>2. CASE Stop(s)
      BY <3>2 DEF Stop
    <3>3. CASE Call(s) \/ Release(s)
      BY <3>3 DEF Call, Announce, Interrupt, Install, Start, AnnounceRelease,
                  AnnounceStop, Release
    <3>4. QED
      BY <2>1, <3>1, <3>2, <3>3
  <2>2. ASSUME NEW c \in Captures,
               Record(c) \/ Hear(c) \/ RecordFails(c) \/ CallbackReturns(c)
        PROVE  worker[active] \in {"text", "finally"}
    <3>1. FreeSlot(c) \/ Clean(c)
      BY <2>2 DEF Record, RecordEnds, Check, Deliver, Silent, ReportError, Hear,
                  RecordFails, CallbackReturns
    <3>2. active = c
      BY <3>1 DEF FreeSlot, Clean, ReleaseSlot, Owns
    <3>3. QED
      BY <3>1, <3>2 DEF FreeSlot, Clean, Advance
  <2>3. QED
    BY <2>1, <2>2 DEF Next
<1>2. QED
  BY <1>1, KeyTypes, PTL DEF Spec, AuthorityKept

-----------------------------------------------------------------------------
(* The requests to the cloning worker: the inductive invariant.            *)

Inside   == {"entered", "loading", "loaded", "asked"}
AskSteps == {"none", "queueing", "done"} \cup Inside
LaneVoices == ClonedVoices \cup {NoVoice}
Results  == {"none", "ok", "failed", "cancelled"}
Requests == [at : AskSteps, voice : LaneVoices, result : Results,
             heard : Asks \cup {NoAsk}, spokenBy : LaneVoices]
Workers  == [process : {"none", "up", "mute", "dead"},
             owes : Asks \cup {NoAsk, Loading}, key : LaneVoices, voice : LaneVoices]
LaneAnswers == [state : {"ready", "failed"}, to : Asks \cup {NoAsk, Loading},
             voice : LaneVoices]

Shapes ==
    /\ clone \in Workers
    /\ responses \in Seq(LaneAnswers)
    /\ ask \in [Asks -> Requests]
    /\ lane \in Asks \cup {NoAsk}
    /\ withdrawn \subseteq Asks
    /\ laneClosed \in BOOLEAN /\ breaks \in 0..MaxBreaks

\* The lane belongs to the one request inside; a request names a voice, and has
\* no result before its end.
OneInside ==
    \A r \in Asks :
        /\ lane = r <=> ask[r].at \in Inside
        /\ ask[r].at # "none" => ask[r].voice \in ClonedVoices
        /\ ask[r].at # "done" => ask[r].result = "none"

\* A worker that has a key is conditioned for it.
KeyIsVoice == clone.key # NoVoice => clone.voice = clone.key

\* What the worker owes it owes to the request inside, which waits for it, and
\* nothing was answered since.
OwesTheHolder ==
    clone.owes # NoAsk =>
        /\ clone.process = "up" /\ responses = <<>> /\ lane # NoAsk
        /\ \/ clone.owes = Loading /\ ask[lane].at = "loading"
           \/ clone.owes = lane /\ ask[lane].at = "asked"

\* A good answer comes first in the queue and is the one the request inside
\* waits for, by the voice it named.
AnswerIsAwaited ==
    \A i \in DOMAIN responses : responses[i].state = "ready" =>
        /\ i = 1 /\ lane # NoAsk
        /\ \/ responses[i].to = Loading /\ ask[lane].at = "loading"
           \/ /\ responses[i].to = lane /\ ask[lane].at = "asked"
              /\ responses[i].voice = ask[lane].voice

\* A worker that is up has one answer in the queue at most, and none while
\* nobody waits for one; one whose pipe ended has said so once more; and a
\* worker that was stopped left nothing behind.
QueueIsShort ==
    /\ clone.process = "none" => responses = <<>>
    /\ Len(responses) <= IF clone.process = "up" THEN 1 ELSE 2
    /\ clone.process = "up" /\ (lane = NoAsk \/ ask[lane].at \in {"entered", "loaded"}) =>
          responses = <<>>

LaneIInv ==
    /\ Shapes /\ OneInside /\ KeyIsVoice /\ OwesTheHolder /\ AnswerIsAwaited
    /\ QueueIsShort /\ AnswersAreOwn

-----------------------------------------------------------------------------
(* Initial states and stuttering.                                          *)

\* What stands for no request, no voice and the greeting is none of the others.
LEMMA Sentinels ==
    /\ NoAsk \notin Asks /\ Loading \notin Asks /\ Loading # NoAsk
    /\ NoVoice \notin ClonedVoices
<1>1. MaxAsks \in Nat /\ "no voice" \notin ClonedVoices
  BY CloneLaneAssumption, Zenon DEF CloneLaneAssumption
<1>2. /\ NoAsk \notin Asks /\ Loading \notin Asks /\ Loading # NoAsk
  <2>1. MaxAsks \in Nat
    BY <1>1
  <2>2. \A n \in Nat : 0 \notin 1..n /\ n + 1 \notin 1..n /\ n + 1 # 0
    OBVIOUS
  <2>3. QED
    BY <2>1, <2>2 DEF NoAsk, Loading, Asks
<1>3. QED
  BY <1>1, <1>2 DEF NoVoice

\* Nothing was launched and nothing was asked.
LEMMA InitLane == LaneInit => LaneIInv
<1> SUFFICES ASSUME LaneInit PROVE LaneIInv
  OBVIOUS
<1>1. Shapes
  <2>1. clone \in Workers
    BY DEF LaneInit, NoClone, Workers, LaneVoices
  <2>2. NotAsked \in Requests
    BY DEF NotAsked, Requests, AskSteps, Results, LaneVoices
  <2>3. ask \in [Asks -> Requests]
    BY <2>2 DEF LaneInit
  <2>4. MaxBreaks \in Nat /\ breaks = MaxBreaks
    BY CloneLaneAssumption, Zenon DEF LaneInit, CloneLaneAssumption
  <2>5. responses = <<>> /\ lane = NoAsk /\ withdrawn = {} /\ laneClosed = FALSE
    BY Zenon DEF LaneInit
  <2>6. breaks \in 0..MaxBreaks
    BY <2>4
  <2>7. responses \in Seq(LaneAnswers)
    BY <2>5
  <2>8. withdrawn \subseteq Asks /\ laneClosed \in BOOLEAN /\ lane \in Asks \cup {NoAsk}
    BY <2>5
  <2>9. QED
    BY <2>1, <2>3, <2>6, <2>7, <2>8 DEF Shapes
<1>2. \A r \in Asks : ask[r].at = "none" /\ ask[r].result = "none"
  BY DEF LaneInit, NotAsked
<1>3. lane \notin Asks
  BY DEF LaneInit, NoAsk, Asks
<1>4. QED
  BY <1>1, <1>2, <1>3
     DEF LaneInit, LaneIInv, OneInside, Inside, KeyIsVoice, OwesTheHolder, AnswerIsAwaited,
         QueueIsShort, AnswersAreOwn, NoClone

\* The invariant is about these variables only.
LEMMA StutterLane == LaneIInv /\ UNCHANGED laneVars => LaneIInv'
  BY DEF laneVars, LaneIInv, Shapes, OneInside, KeyIsVoice, OwesTheHolder,
         AnswerIsAwaited, QueueIsShort, AnswersAreOwn

-----------------------------------------------------------------------------
(* What most steps owe.                                                    *)

\* A step of one request changes its own record.
LEMMA OwnRecord ==
    ASSUME Shapes, NEW r \in Asks, NEW q \in Requests, ask' = [ask EXCEPT ![r] = q]
    PROVE  /\ ask' \in [Asks -> Requests] /\ ask'[r] = q
           /\ \A s \in Asks \ {r} : ask'[s] = ask[s]
  BY DEF Shapes

\* No process, no queue, and nobody owed anything.
LEMMA StoppedClone ==
    ASSUME StopOwned
    PROVE  /\ clone' \in Workers /\ responses' = <<>> /\ responses' \in Seq(LaneAnswers)
           /\ clone'.process = "none" /\ clone'.owes = NoAsk /\ clone'.key = NoVoice
  BY DEF StopOwned, NoClone, Workers, LaneVoices

\* The request that moves keeps the lane, enters it or leaves it, and names its
\* voice; if it succeeds, by its own answer.
LEMMA MovesIInv ==
    ASSUME LaneIInv, NEW r \in Asks, NEW q \in Requests, ask' = [ask EXCEPT ![r] = q],
           q.at # "none" => q.voice \in ClonedVoices,
           q.at # "done" => q.result = "none",
           q.result = "ok" => q.heard = r /\ q.spokenBy = q.voice,
           lane' = r <=> q.at \in Inside,
           lane' = lane \/ (lane = NoAsk /\ lane' = r) \/ (lane = r /\ lane' = NoAsk)
    PROVE  /\ ask' \in [Asks -> Requests] /\ lane' \in Asks \cup {NoAsk}
           /\ OneInside'
           /\ \A s \in Asks : ask'[s].result = "ok" =>
                                 ask'[s].heard = s /\ ask'[s].spokenBy = ask'[s].voice
<1>1. /\ ask' \in [Asks -> Requests] /\ ask'[r] = q
      /\ \A s \in Asks \ {r} : ask'[s] = ask[s]
  BY OwnRecord DEF LaneIInv
<1>2. lane' \in Asks \cup {NoAsk}
  BY DEF LaneIInv, Shapes
<1>3. OneInside'
  <2> SUFFICES ASSUME NEW s \in Asks
               PROVE  /\ lane' = s <=> ask'[s].at \in Inside
                      /\ ask'[s].at # "none" => ask'[s].voice \in ClonedVoices
                      /\ ask'[s].at # "done" => ask'[s].result = "none"
    BY DEF OneInside
  <2>1. CASE s = r
    BY <1>1, <2>1
  <2>2. CASE s # r
    <3>1. lane' = s <=> lane = s
      BY <2>2 DEF NoAsk, Asks
    <3>2. QED
      BY <1>1, <2>2, <3>1 DEF LaneIInv, OneInside
  <2>3. QED
    BY <2>1, <2>2
<1>4. ASSUME NEW s \in Asks, ask'[s].result = "ok"
      PROVE  ask'[s].heard = s /\ ask'[s].spokenBy = ask'[s].voice
  <2>1. CASE s = r
    BY <1>1, <1>4, <2>1
  <2>2. CASE s # r
    BY <1>1, <1>4, <2>2 DEF LaneIInv, AnswersAreOwn
  <2>3. QED
    BY <2>1, <2>2
<1>5. QED
  BY <1>1, <1>2, <1>3, <1>4

\* A request that ends without success: it left the worker quiet, or ends it.
LEMMA EndsIInv ==
    ASSUME LaneIInv, NEW r \in Asks, NEW result \in {"failed", "cancelled"},
           ask[r].at \notin {"none", "done"},
           EndsAsk(r, result),
           \/ /\ UNCHANGED <<clone, responses>>
              /\ lane = r => /\ clone.owes = NoAsk
                             /\ clone.process = "up" => responses = <<>>
                             /\ \A i \in DOMAIN responses : responses[i].state # "ready"
           \/ StopOwned,
           UNCHANGED <<withdrawn, laneClosed>>, breaks' \in 0..MaxBreaks
    PROVE  LaneIInv'
<1> DEFINE q == [ask[r] EXCEPT !.at = "done", !.result = result]
<1>1. /\ q \in Requests /\ q.at = "done" /\ q.result = result /\ q.voice = ask[r].voice
      /\ q.voice \in ClonedVoices
  BY DEF LaneIInv, Shapes, OneInside, Requests, AskSteps, Results
<1>2. ask' = [ask EXCEPT ![r] = q]
  BY DEF EndsAsk, LaneIInv, Shapes
<1>3. /\ lane' # r /\ (lane # r => lane' = lane) /\ (lane = r => lane' = NoAsk)
  BY DEF EndsAsk, LaneIInv, Shapes, NoAsk, Asks
<1> HIDE DEF q
<1>4. q.at \notin Inside /\ q.result # "ok"
  BY <1>1 DEF Inside
<1>5. \A s \in Asks \ {r} : ask'[s] = ask[s]
  BY <1>1, <1>2, OwnRecord DEF LaneIInv
<1>6. /\ ask' \in [Asks -> Requests] /\ lane' \in Asks \cup {NoAsk}
      /\ OneInside'
  BY <1>1, <1>2, <1>3, <1>4, MovesIInv
<1>7. \A s \in Asks : ask'[s].result = "ok" =>
                         ask'[s].heard = s /\ ask'[s].spokenBy = ask'[s].voice
  BY <1>1, <1>2, <1>3, <1>4, MovesIInv
<1>8. CASE UNCHANGED <<clone, responses>> /\ lane # r
  <2>1. Shapes' /\ KeyIsVoice'
    BY <1>6, <1>8 DEF LaneIInv, Shapes, KeyIsVoice
  <2>2. lane' = lane /\ (lane # NoAsk => ask'[lane] = ask[lane])
    BY <1>3, <1>5, <1>8 DEF LaneIInv, Shapes
  <2>3. OwesTheHolder' /\ AnswerIsAwaited' /\ QueueIsShort'
    BY <1>8, <2>2 DEF LaneIInv, OwesTheHolder, AnswerIsAwaited, QueueIsShort
  <2>4. AnswersAreOwn'
    BY <1>7, <1>8, <2>2 DEF LaneIInv, AnswersAreOwn
  <2>5. QED
    BY <1>6, <2>1, <2>3, <2>4 DEF LaneIInv
<1>9. CASE UNCHANGED <<clone, responses>> /\ lane = r
  <2>1. Shapes' /\ KeyIsVoice'
    BY <1>6, <1>9 DEF LaneIInv, Shapes, KeyIsVoice
  <2>2. clone.owes = NoAsk /\ (clone.process = "up" => responses = <<>>)
        /\ \A i \in DOMAIN responses : responses[i].state # "ready"
    BY <1>9, StoppedClone
  <2>3. OwesTheHolder' /\ AnswerIsAwaited' /\ QueueIsShort'
    BY <1>3, <1>9, <2>2 DEF LaneIInv, OwesTheHolder, AnswerIsAwaited, QueueIsShort
  <2>4. AnswersAreOwn'
    BY <1>7, <1>9, <2>2 DEF LaneIInv, AnswersAreOwn
  <2>5. QED
    BY <1>6, <2>1, <2>3, <2>4 DEF LaneIInv
<1>10. CASE StopOwned
  <2>1. Shapes'
    BY <1>6, <1>10, StoppedClone DEF LaneIInv, Shapes
  <2>2. KeyIsVoice' /\ OwesTheHolder' /\ AnswerIsAwaited' /\ QueueIsShort'
    BY <1>10, StoppedClone DEF KeyIsVoice, OwesTheHolder, AnswerIsAwaited, QueueIsShort
  <2>3. AnswersAreOwn'
    BY <1>7, <1>10, StoppedClone DEF AnswersAreOwn
  <2>4. QED
    BY <1>6, <2>1, <2>2, <2>3 DEF LaneIInv
<1>11. QED
  BY <1>8, <1>9, <1>10

-----------------------------------------------------------------------------
(* A request.                                                              *)

\* A request is made, or withdrawn by its owner.
LEMMA AskIInv ==
    ASSUME LaneIInv, NEW r \in Asks,
           (\E v \in ClonedVoices : Ask(r, v)) \/ Withdraw(r)
    PROVE  LaneIInv'
<1>1. CASE \E v \in ClonedVoices : Ask(r, v)
  <2>1. PICK v \in ClonedVoices : Ask(r, v)
    BY <1>1
  <2> DEFINE q == [ask[r] EXCEPT !.at = "queueing", !.voice = v]
  <2>2. /\ q \in Requests /\ q.at = "queueing" /\ q.voice = v /\ q.result = "none"
        /\ ask[r].at = "none"
    BY <2>1 DEF LaneIInv, Shapes, OneInside, Requests, AskSteps, LaneVoices, Ask
  <2>3. ask' = [ask EXCEPT ![r] = q]
    BY <2>1 DEF Ask, LaneIInv, Shapes
  <2> HIDE DEF q
  <2>4. lane' = lane /\ lane # r /\ q.at \notin Inside
    BY <2>1, <2>2 DEF Ask, LaneIInv, OneInside, Inside
  <2>5. /\ ask' \in [Asks -> Requests] /\ OneInside'
        /\ \A s \in Asks : ask'[s].result = "ok" =>
                              ask'[s].heard = s /\ ask'[s].spokenBy = ask'[s].voice
    BY <2>2, <2>3, <2>4, MovesIInv
  <2>6. lane # NoAsk => ask'[lane] = ask[lane]
    BY <2>2, <2>3, <2>4, OwnRecord DEF LaneIInv, Shapes
  <2>7. Shapes' /\ KeyIsVoice'
    BY <2>1, <2>5 DEF Ask, LaneIInv, Shapes, KeyIsVoice
  <2>8. OwesTheHolder' /\ AnswerIsAwaited' /\ QueueIsShort'
    BY <2>1, <2>6 DEF Ask, LaneIInv, OwesTheHolder, AnswerIsAwaited, QueueIsShort
  <2>9. AnswersAreOwn'
    BY <2>1, <2>5 DEF Ask, LaneIInv, AnswersAreOwn
  <2>10. QED
    BY <2>5, <2>7, <2>8, <2>9 DEF LaneIInv
<1>2. CASE Withdraw(r)
  BY <1>2 DEF Withdraw, LaneIInv, Shapes, OneInside, KeyIsVoice, OwesTheHolder,
              AnswerIsAwaited, QueueIsShort, AnswersAreOwn
<1>3. QED
  BY <1>1, <1>2

\* The request enters a free lane, or finds the worker alive: the worker owes
\* nothing and its queue, if it is up, is empty.
LEMMA EnterIInv ==
    ASSUME LaneIInv, NEW r \in Asks, EnterLane(r) \/ FindClone(r)
    PROVE  LaneIInv'
<1> DEFINE to == IF EnterLane(r) THEN "entered" ELSE "loaded"
           q  == [ask[r] EXCEPT !.at = to]
<1>1. to \in {"entered", "loaded"}
  OBVIOUS
<1>2. /\ ask' = [ask EXCEPT ![r] = q] /\ lane' = r
      /\ lane = NoAsk \/ (lane = r /\ ask[r].at = "entered")
      /\ UNCHANGED <<clone, responses, withdrawn, laneClosed, breaks>>
      /\ ask[r].at \in {"queueing", "entered"}
  BY DEF EnterLane, FindClone, LaneIInv, Shapes, OneInside, Inside
<1> HIDE DEF to
<1>3. /\ q \in Requests /\ q.at = to /\ q.voice = ask[r].voice /\ q.result = "none"
      /\ q.voice \in ClonedVoices
  BY <1>1, <1>2 DEF LaneIInv, Shapes, OneInside, Requests, AskSteps, Inside
<1> HIDE DEF q
<1>4. q.at \in Inside
  BY <1>1, <1>3 DEF Inside
<1>5. /\ ask' \in [Asks -> Requests] /\ OneInside' /\ lane' \in Asks \cup {NoAsk}
      /\ \A s \in Asks : ask'[s].result = "ok" =>
                            ask'[s].heard = s /\ ask'[s].spokenBy = ask'[s].voice
  BY <1>1, <1>2, <1>3, <1>4, MovesIInv
<1>6. ask'[r].at = to
  BY <1>2, <1>3, OwnRecord DEF LaneIInv
<1>7. /\ clone.owes = NoAsk
      /\ clone.process = "up" => responses = <<>>
      /\ \A i \in DOMAIN responses : responses[i].state # "ready"
  BY <1>2 DEF LaneIInv, OwesTheHolder, AnswerIsAwaited, QueueIsShort
<1>8. Shapes' /\ KeyIsVoice'
  BY <1>2, <1>5 DEF LaneIInv, Shapes, KeyIsVoice
<1>9. OwesTheHolder' /\ AnswerIsAwaited' /\ QueueIsShort'
  BY <1>2, <1>7 DEF LaneIInv, OwesTheHolder, AnswerIsAwaited, QueueIsShort
<1>10. AnswersAreOwn'
  BY <1>2, <1>5 DEF LaneIInv, AnswersAreOwn, NoAsk, Asks
<1>11. QED
  BY <1>5, <1>8, <1>9, <1>10 DEF LaneIInv

\* A new process with a new queue owes its greeting to the one who launched it.
LEMMA LaunchIInv ==
    ASSUME LaneIInv, NEW r \in Asks, LaunchClone(r)
    PROVE  LaneIInv'
<1> DEFINE q == [ask[r] EXCEPT !.at = "loading"]
<1>1. /\ q \in Requests /\ q.at = "loading" /\ q.voice = ask[r].voice /\ q.result = "none"
      /\ q.voice \in ClonedVoices
      /\ lane = r /\ lane' = lane
  BY DEF LaunchClone, LaneIInv, Shapes, OneInside, Requests, AskSteps, Inside
<1>2. ask' = [ask EXCEPT ![r] = q]
  BY DEF LaunchClone, LaneIInv, Shapes
<1> HIDE DEF q
<1>3. q.at \in Inside
  BY <1>1 DEF Inside
<1>4. /\ ask' \in [Asks -> Requests] /\ OneInside' /\ lane' \in Asks \cup {NoAsk}
      /\ \A s \in Asks : ask'[s].result = "ok" =>
                            ask'[s].heard = s /\ ask'[s].spokenBy = ask'[s].voice
  BY <1>1, <1>2, <1>3, MovesIInv
<1>5. ask'[r].at = "loading"
  BY <1>1, <1>2, OwnRecord DEF LaneIInv
<1>6. /\ clone' \in Workers /\ clone'.process = "up" /\ clone'.owes = Loading
      /\ clone'.key = NoVoice
  BY DEF LaunchClone, NoClone, Workers, LaneVoices
<1>7. responses' = <<>> /\ responses' \in Seq(LaneAnswers) /\ ~laneClosed'
      /\ UNCHANGED <<withdrawn, laneClosed, breaks>>
  BY DEF LaunchClone, Withdrawn
<1>8. Shapes' /\ KeyIsVoice'
  BY <1>4, <1>6, <1>7 DEF LaneIInv, Shapes, KeyIsVoice
<1>9. r # NoAsk
  BY DEF Asks, NoAsk
<1>10. OwesTheHolder' /\ AnswerIsAwaited' /\ QueueIsShort'
  BY <1>1, <1>5, <1>6, <1>7, <1>9 DEF OwesTheHolder, AnswerIsAwaited, QueueIsShort
<1>11. AnswersAreOwn'
  BY <1>1, <1>4, <1>7, <1>9 DEF AnswersAreOwn
<1>12. QED
  BY <1>4, <1>8, <1>10, <1>11 DEF LaneIInv

\* The request is written: a worker that is up owes it the answer.
LEMMA WriteIInv ==
    ASSUME LaneIInv, NEW r \in Asks, WriteAsk(r)
    PROVE  LaneIInv'
<1>1. /\ lane = r /\ ask[r].at = "loaded" /\ r # NoAsk
      /\ clone.owes = NoAsk
      /\ clone.process = "up" => responses = <<>>
      /\ \A i \in DOMAIN responses : responses[i].state # "ready"
      /\ UNCHANGED <<responses, withdrawn, laneClosed, breaks>> /\ ~laneClosed
  BY DEF WriteAsk, Withdrawn, LaneIInv, OneInside, Inside, OwesTheHolder, AnswerIsAwaited,
         QueueIsShort, Asks, NoAsk
<1>2. CASE CloneAlive
  <2> DEFINE q == [ask[r] EXCEPT !.at = "asked"]
  <2>1. /\ q \in Requests /\ q.at = "asked" /\ q.voice = ask[r].voice /\ q.result = "none"
        /\ q.voice \in ClonedVoices
        /\ lane' = lane
    BY <1>1, <1>2 DEF WriteAsk, LaneIInv, Shapes, OneInside, Requests, AskSteps, Inside
  <2>2. ask' = [ask EXCEPT ![r] = q]
    BY <1>2 DEF WriteAsk, LaneIInv, Shapes
  <2> HIDE DEF q
  <2>3. q.at \in Inside
    BY <2>1 DEF Inside
  <2>4. /\ ask' \in [Asks -> Requests] /\ OneInside' /\ lane' \in Asks \cup {NoAsk}
        /\ \A s \in Asks : ask'[s].result = "ok" =>
                              ask'[s].heard = s /\ ask'[s].spokenBy = ask'[s].voice
    BY <1>1, <2>1, <2>2, <2>3, MovesIInv
  <2>5. ask'[r].at = "asked"
    BY <2>1, <2>2, OwnRecord DEF LaneIInv
  <2>6. /\ clone' \in Workers /\ clone'.process = clone.process
        /\ clone'.owes = IF clone.process = "up" THEN r ELSE NoAsk
        /\ clone'.key = clone.key /\ clone'.voice = clone.voice
    BY <1>1, <1>2 DEF WriteAsk, LaneIInv, Shapes, Workers
  <2>7. Shapes' /\ KeyIsVoice'
    BY <1>1, <2>4, <2>6 DEF LaneIInv, Shapes, KeyIsVoice
  <2>8. OwesTheHolder' /\ AnswerIsAwaited' /\ QueueIsShort'
    BY <1>1, <2>1, <2>5, <2>6 DEF LaneIInv, OwesTheHolder, AnswerIsAwaited, QueueIsShort
  <2>9. AnswersAreOwn'
    BY <1>1, <2>1, <2>4 DEF AnswersAreOwn
  <2>10. QED
    BY <2>4, <2>7, <2>8, <2>9 DEF LaneIInv
<1>3. CASE ~CloneAlive
  <2>1. EndsAsk(r, "failed") /\ UNCHANGED clone
    BY <1>3 DEF WriteAsk
  <2>2. breaks' \in 0..MaxBreaks
    BY <1>1 DEF LaneIInv, Shapes
  <2>3. QED
    BY <1>1, <2>1, <2>2, EndsIInv
<1>4. QED
  BY <1>2, <1>3

\* The ends that leave the worker alone come where it is quiet, or after the
\* owner stopped it; the others stop it.
LEMMA FailureIInv ==
    ASSUME LaneIInv, NEW r \in Asks,
           GiveUpAsk(r) \/ CannotLaunch(r) \/ HearFailure(r) \/ HearClosing(r) \/ TimeOut(r)
    PROVE  LaneIInv'
<1>0. breaks \in 0..MaxBreaks /\ MaxBreaks \in Nat
  BY CloneLaneAssumption, Zenon DEF CloneLaneAssumption, LaneIInv, Shapes
<1>1. CASE GiveUpAsk(r)
  <2>1. lane = r => ask[lane].at \in {"entered", "loaded"}
    BY <1>1 DEF GiveUpAsk, LaneIInv, OneInside, Inside
  <2>2. lane = r => /\ clone.owes = NoAsk
                    /\ clone.process = "up" => responses = <<>>
                    /\ \A i \in DOMAIN responses : responses[i].state # "ready"
    BY <2>1 DEF LaneIInv, OwesTheHolder, AnswerIsAwaited, QueueIsShort
  <2>3. QED
    BY <1>0, <1>1, <2>2, EndsIInv DEF GiveUpAsk
<1>2. CASE CannotLaunch(r)
  <2>1. lane = r => ask[lane].at \in {"entered", "loaded"}
    BY <1>2 DEF CannotLaunch
  <2>2. lane = r => /\ clone.owes = NoAsk
                    /\ clone.process = "up" => responses = <<>>
                    /\ \A i \in DOMAIN responses : responses[i].state # "ready"
    BY <2>1 DEF LaneIInv, OwesTheHolder, AnswerIsAwaited, QueueIsShort
  <2>3. breaks' \in 0..MaxBreaks
    BY <1>0, <1>2 DEF CannotLaunch
  <2>4. QED
    BY <1>2, <2>2, <2>3, EndsIInv DEF CannotLaunch
<1>3. CASE HearFailure(r)
  BY <1>0, <1>3, EndsIInv DEF HearFailure, Waits
<1>4. CASE HearClosing(r)
  <2>1. clone.process = "none" /\ responses = <<>> /\ clone.owes = NoAsk
    BY <1>4 DEF HearClosing, LaneIInv, AnswersAreOwn, QueueIsShort, OwesTheHolder
  <2>2. QED
    BY <1>0, <1>4, <2>1, EndsIInv DEF HearClosing, Waits
<1>5. CASE TimeOut(r)
  BY <1>0, <1>5, EndsIInv DEF TimeOut, Waits
<1>6. QED
  BY <1>1, <1>2, <1>3, <1>4, <1>5

\* A good answer ends the wait of the request it is for: the greeting of the
\* process, or the reply to the request, spoken by the voice it named.
LEMMA HearAnswerIInv ==
    ASSUME LaneIInv, NEW r \in Asks, HearAnswer(r)
    PROVE  LaneIInv'
<1>0. /\ lane = r /\ ask[r].at \in {"loading", "asked"} /\ r # NoAsk /\ r # Loading
      /\ breaks' \in 0..MaxBreaks
      /\ UNCHANGED <<withdrawn, laneClosed, breaks>>
  BY Sentinels DEF HearAnswer, Waits, LaneIInv, Shapes, OneInside, Inside
<1>1. /\ responses \in Seq(LaneAnswers) /\ responses # <<>> /\ 1 \in DOMAIN responses
      /\ responses[1] = Head(responses) /\ responses[1].state = "ready"
      /\ responses[1] \in LaneAnswers
  BY DEF HearAnswer, LaneIInv, Shapes
<1>2. clone.owes = NoAsk /\ ~laneClosed
  BY <1>1 DEF HearAnswer, LaneIInv, OwesTheHolder
<1>3. \/ responses[1].to = Loading /\ ask[r].at = "loading"
      \/ /\ responses[1].to = r /\ ask[r].at = "asked"
         /\ responses[1].voice = ask[r].voice
  BY <1>0, <1>1 DEF LaneIInv, AnswerIsAwaited
<1>4. /\ Tail(responses) \in Seq(LaneAnswers) /\ Len(Tail(responses)) = Len(responses) - 1
      /\ DOMAIN Tail(responses) = 1..(Len(responses) - 1)
      /\ \A i \in DOMAIN Tail(responses) : /\ i + 1 \in DOMAIN responses
                                           /\ Tail(responses)[i] = responses[i + 1]
  BY <1>1
<1>5. \A i \in DOMAIN Tail(responses) : Tail(responses)[i].state = "failed"
  <2> SUFFICES ASSUME NEW i \in DOMAIN Tail(responses)
               PROVE  Tail(responses)[i].state = "failed"
    OBVIOUS
  <2>1. i \in Nat \ {0} /\ i + 1 \in DOMAIN responses /\ i + 1 # 1
    BY <1>4
  <2>2. responses[i + 1].state # "ready"
    BY <2>1 DEF LaneIInv, AnswerIsAwaited
  <2>3. responses[i + 1].state \in {"ready", "failed"}
    <3>1. responses[i + 1] \in LaneAnswers
      BY <1>1, <2>1
    <3>2. QED
      BY <3>1 DEF LaneAnswers
  <2>4. QED
    BY <1>4, <2>2, <2>3
<1>6. clone.process = "up" => Tail(responses) = <<>>
  BY <1>1, <1>4 DEF LaneIInv, QueueIsShort
<1>7. Len(Tail(responses)) <= 2 /\ (clone.process = "none" => FALSE)
  BY <1>1, <1>4 DEF LaneIInv, QueueIsShort
<1>8. CASE ask[r].at = "loading"
  <2> DEFINE q == [ask[r] EXCEPT !.at = "loaded"]
  <2>1. /\ q \in Requests /\ q.at = "loaded" /\ q.voice = ask[r].voice /\ q.result = "none"
        /\ q.voice \in ClonedVoices
    BY <1>0, <1>8 DEF LaneIInv, Shapes, OneInside, Requests, AskSteps, Inside
  <2>2. /\ ask' = [ask EXCEPT ![r] = q]
        /\ responses' = Tail(responses) /\ clone' = clone /\ lane' = lane
    BY <1>8 DEF HearAnswer, LaneIInv, Shapes
  <2> HIDE DEF q
  <2>3. q.at \in Inside
    BY <2>1 DEF Inside
  <2>4. /\ ask' \in [Asks -> Requests] /\ OneInside' /\ lane' \in Asks \cup {NoAsk}
        /\ \A s \in Asks : ask'[s].result = "ok" =>
                              ask'[s].heard = s /\ ask'[s].spokenBy = ask'[s].voice
    BY <1>0, <2>1, <2>2, <2>3, MovesIInv
  <2>5. Shapes' /\ KeyIsVoice'
    BY <1>0, <1>4, <2>2, <2>4 DEF LaneIInv, Shapes, KeyIsVoice
  <2>6. OwesTheHolder' /\ AnswerIsAwaited'
    BY <1>2, <1>5, <2>2 DEF OwesTheHolder, AnswerIsAwaited
  <2>7. QueueIsShort'
    BY <1>6, <1>7, <2>2 DEF QueueIsShort
  <2>8. AnswersAreOwn'
    BY <1>0, <1>2, <2>2, <2>4 DEF AnswersAreOwn
  <2>9. QED
    BY <2>4, <2>5, <2>6, <2>7, <2>8 DEF LaneIInv
<1>9. CASE ask[r].at = "asked"
  <2>1. responses[1].to = r /\ responses[1].voice = ask[r].voice
    BY <1>3, <1>9
  <2> DEFINE result == IF r \in withdrawn THEN "cancelled" ELSE "ok"
             q      == [ask[r] EXCEPT !.at = "done", !.heard = r, !.result = result,
                                      !.spokenBy = ask[r].voice]
  <2>2. result \in {"cancelled", "ok"}
    OBVIOUS
  <2>3. /\ ask' = [ask EXCEPT ![r] = q]
        /\ responses' = Tail(responses) /\ clone' = clone /\ lane' = NoAsk
    <3>1. Head(responses).to = r /\ Head(responses).voice = ask[r].voice
      BY <1>1, <2>1
    <3>2. /\ ask' = [ask EXCEPT ![r].at = "done", ![r].heard = r, ![r].result = result,
                                ![r].spokenBy = ask[r].voice]
          /\ responses' = Tail(responses) /\ clone' = clone /\ lane' = NoAsk
      BY <1>9, <3>1 DEF HearAnswer
    <3>3. QED
      BY <3>2 DEF LaneIInv, Shapes
  <2>4. /\ q \in Requests /\ q.at = "done" /\ q.voice = ask[r].voice
        /\ q.voice \in ClonedVoices /\ q.heard = r /\ q.spokenBy = q.voice
    BY <1>9, <2>2 DEF LaneIInv, Shapes, OneInside, Requests, AskSteps, Results, LaneVoices
  <2> HIDE DEF q, result
  <2>5. q.at \notin Inside /\ lane' # r
    BY <1>0, <2>3, <2>4 DEF Inside
  <2>6. /\ ask' \in [Asks -> Requests] /\ OneInside' /\ lane' \in Asks \cup {NoAsk}
        /\ \A s \in Asks : ask'[s].result = "ok" =>
                              ask'[s].heard = s /\ ask'[s].spokenBy = ask'[s].voice
    BY <1>0, <2>3, <2>4, <2>5, MovesIInv
  <2>7. Shapes' /\ KeyIsVoice'
    BY <1>0, <1>4, <2>3, <2>6 DEF LaneIInv, Shapes, KeyIsVoice
  <2>8. OwesTheHolder' /\ AnswerIsAwaited'
    BY <1>2, <1>5, <2>3 DEF OwesTheHolder, AnswerIsAwaited
  <2>9. QueueIsShort'
    BY <1>6, <1>7, <2>3 DEF QueueIsShort
  <2>10. AnswersAreOwn'
    BY <1>0, <1>2, <1>5, <2>3, <2>6 DEF AnswersAreOwn
  <2>11. QED
    BY <2>6, <2>7, <2>8, <2>9, <2>10 DEF LaneIInv
<1>10. QED
  BY <1>0, <1>8, <1>9

-----------------------------------------------------------------------------
(* The worker and its end.                                                 *)

\* A step of the worker leaves the requests and the lane alone.
LEMMA WorkerIInv ==
    ASSUME LaneIInv, UNCHANGED <<lane, ask, withdrawn, laneClosed>>,
           breaks' \in 0..MaxBreaks, clone' \in Workers, responses' \in Seq(LaneAnswers),
           KeyIsVoice', OwesTheHolder', AnswerIsAwaited', QueueIsShort',
           lane = NoAsk /\ clone'.process = "up" =>
               \A i \in DOMAIN responses' : responses'[i].state = "failed",
           lane = NoAsk => clone'.owes = NoAsk,
           laneClosed => clone'.process = "none"
    PROVE  LaneIInv'
<1>1. Shapes' /\ OneInside'
  BY DEF LaneIInv, Shapes, OneInside
<1>2. AnswersAreOwn'
  BY DEF LaneIInv, AnswersAreOwn
<1>3. QED
  BY <1>1, <1>2 DEF LaneIInv

\* A process that owes an answer answers with the voice it is conditioned for.
LEMMA CloneAnswersIInv == LaneIInv /\ CloneAnswers => LaneIInv'
<1> SUFFICES ASSUME LaneIInv, CloneAnswers PROVE LaneIInv'
  OBVIOUS
<1> DEFINE r == clone.owes
           a == [state |-> "ready", to |-> r, voice |-> clone'.voice]
<1>1. /\ responses = <<>> /\ lane # NoAsk /\ lane \in Asks
      /\ UNCHANGED <<lane, ask, withdrawn, laneClosed, breaks>>
      /\ clone \in Workers /\ ask[lane] \in Requests /\ ask[lane].voice \in ClonedVoices
      /\ \/ r = Loading /\ ask[lane].at = "loading"
         \/ r = lane /\ ask[lane].at = "asked"
  BY DEF CloneAnswers, LaneIInv, Shapes, OwesTheHolder, OneInside, Inside
<1>2. /\ clone' \in Workers /\ clone'.process = "up" /\ clone'.owes = NoAsk
      /\ r = lane => clone'.voice = ask[lane].voice
      /\ clone'.key # NoVoice => clone'.voice = clone'.key
  <2>1. CASE r = Loading \/ ask[r].voice = clone.key
    <3>1. clone' = [clone EXCEPT !.owes = NoAsk] /\ clone.process = "up"
      BY <2>1 DEF CloneAnswers
    <3>2. r = lane => ask[lane].voice = clone.key /\ clone.key # NoVoice
      BY <1>1, <2>1, Sentinels
    <3>3. QED
      BY <1>1, <3>1, <3>2 DEF Workers, LaneIInv, KeyIsVoice
  <2>2. CASE ~(r = Loading \/ ask[r].voice = clone.key)
    <3>1. r = lane
      BY <1>1, <2>2
    <3>2. /\ clone.process = "up"
          /\ clone' = [clone EXCEPT !.owes = NoAsk, !.key = ask[lane].voice,
                                    !.voice = ask[lane].voice]
      BY <2>2, <3>1 DEF CloneAnswers
    <3>3. QED
      BY <1>1, <3>2 DEF Workers, LaneVoices
  <2>3. QED
    BY <2>1, <2>2
<1>3. responses' = <<a>> /\ a \in LaneAnswers
  <2>1. responses' = Append(responses, a)
    BY DEF CloneAnswers, Answer
  <2>2. a \in LaneAnswers
    BY <1>1, <1>2 DEF LaneAnswers, Workers
  <2>3. QED
    BY <1>1, <2>1, <2>2
<1>4. /\ Len(responses') = 1 /\ DOMAIN responses' = {1} /\ responses'[1] = a
      /\ responses' \in Seq(LaneAnswers)
  BY <1>3
<1>5. KeyIsVoice' /\ OwesTheHolder'
  BY <1>2 DEF KeyIsVoice, OwesTheHolder
<1>6. AnswerIsAwaited'
  BY <1>1, <1>2, <1>4 DEF AnswerIsAwaited
<1>7. QueueIsShort'
  <2>1. lane' = lane /\ lane # NoAsk /\ ask' = ask /\ ask[lane].at \notin {"entered", "loaded"}
    BY <1>1
  <2>2. QED
    BY <1>2, <1>4, <2>1 DEF QueueIsShort
<1>8. ~laneClosed
  BY DEF CloneAnswers, LaneIInv, AnswersAreOwn
<1>9. breaks' \in 0..MaxBreaks
  BY <1>1 DEF LaneIInv, Shapes
<1>10. QED
  BY <1>1, <1>2, <1>4, <1>5, <1>6, <1>7, <1>8, <1>9, WorkerIInv

\* A failure adds a word of it to the queue, and the worker owes nothing more.
LEMMA CloneBreaksIInv == LaneIInv /\ (CloneFails \/ CloneBreaks) => LaneIInv'
<1> SUFFICES ASSUME LaneIInv, CloneFails \/ CloneBreaks PROVE LaneIInv'
  OBVIOUS
<1>1. /\ clone \in Workers /\ clone.process = "up" /\ breaks > 0 /\ breaks' = breaks - 1
      /\ UNCHANGED <<lane, ask, withdrawn, laneClosed>> /\ ~laneClosed
  BY DEF CloneFails, CloneBreaks, LaneIInv, Shapes, AnswersAreOwn
<1>2. breaks' \in 0..MaxBreaks
  <2>1. breaks \in 0..MaxBreaks /\ MaxBreaks \in Nat
    BY CloneLaneAssumption, Zenon DEF CloneLaneAssumption, LaneIInv, Shapes
  <2>2. QED
    BY <1>1, <2>1
<1>3. CASE CloneFails
  <2>1. clone.owes \in Asks /\ clone.owes # NoAsk
    BY <1>3 DEF CloneFails, Asks, NoAsk
  <2>2. responses = <<>> /\ lane # NoAsk /\ clone.owes = lane /\ ask[lane].at = "asked"
    BY <2>1, Sentinels DEF LaneIInv, OwesTheHolder
  <2>3. PICK v \in {clone.voice, ask[clone.owes].voice, NoVoice} :
           clone' = [clone EXCEPT !.owes = NoAsk, !.key = NoVoice, !.voice = v]
    BY <1>3 DEF CloneFails
  <2>4. v \in LaneVoices
    BY <1>1, <2>1 DEF LaneIInv, Shapes, Workers, Requests, LaneVoices
  <2>5. /\ clone' \in Workers /\ clone'.process = "up" /\ clone'.owes = NoAsk
        /\ clone'.key = NoVoice /\ clone'.voice = v
    BY <1>1, <2>3, <2>4 DEF Workers, LaneVoices
  <2> DEFINE a == [state |-> "failed", to |-> clone.owes, voice |-> clone'.voice]
  <2>6. responses' = <<a>> /\ a \in LaneAnswers
    BY <1>3, <2>1, <2>2, <2>4, <2>5 DEF CloneFails, Answer, LaneAnswers
  <2>7. /\ Len(responses') = 1 /\ DOMAIN responses' = {1} /\ responses'[1].state = "failed"
        /\ responses' \in Seq(LaneAnswers)
    BY <2>6
  <2>8. KeyIsVoice' /\ OwesTheHolder' /\ AnswerIsAwaited'
    BY <2>5, <2>7 DEF KeyIsVoice, OwesTheHolder, AnswerIsAwaited
  <2>9. QueueIsShort'
    BY <1>1, <2>2, <2>5, <2>7 DEF QueueIsShort
  <2>10. QED
    BY <1>1, <1>2, <2>5, <2>7, <2>8, <2>9, WorkerIInv
<1>4. CASE CloneBreaks
  <2>1. PICK process \in {"mute", "dead"} :
           clone' = [clone EXCEPT !.process = process, !.owes = NoAsk]
    BY <1>4 DEF CloneBreaks
  <2>2. /\ clone' \in Workers /\ clone'.process \in {"mute", "dead"} /\ clone'.owes = NoAsk
        /\ clone'.key = clone.key /\ clone'.voice = clone.voice
    BY <1>1, <2>1 DEF Workers
  <2> DEFINE a == [state |-> "failed", to |-> NoAsk, voice |-> clone'.voice]
  <2>3. responses' = Append(responses, a) /\ a \in LaneAnswers
    BY <1>4, <2>2 DEF CloneBreaks, Answer, LaneAnswers, Workers
  <2>4. /\ responses' \in Seq(LaneAnswers) /\ Len(responses') = Len(responses) + 1
        /\ \A i \in DOMAIN responses' :
              \/ i \in DOMAIN responses /\ responses'[i] = responses[i]
              \/ responses'[i].state = "failed"
    BY <2>3 DEF LaneIInv, Shapes
  <2>5. KeyIsVoice' /\ OwesTheHolder'
    BY <2>2 DEF KeyIsVoice, OwesTheHolder, LaneIInv
  <2>6. AnswerIsAwaited'
    BY <1>1, <2>4 DEF AnswerIsAwaited, LaneIInv
  <2>7. Len(responses) \in Nat /\ Len(responses) <= 1
    BY <1>1 DEF LaneIInv, Shapes, QueueIsShort
  <2>8. QueueIsShort'
    BY <1>1, <2>2, <2>4, <2>7 DEF QueueIsShort
  <2>9. QED
    BY <1>1, <1>2, <2>2, <2>4, <2>5, <2>6, <2>8, WorkerIInv
<1>5. QED
  BY <1>3, <1>4

\* The owner closes without the lane: nothing of the worker is left.
LEMMA CloseLaneIInv == LaneIInv /\ CloseLane => LaneIInv'
<1> SUFFICES ASSUME LaneIInv, CloseLane PROVE LaneIInv'
  OBVIOUS
<1>1. /\ clone' \in Workers /\ responses' = <<>> /\ responses' \in Seq(LaneAnswers)
      /\ clone'.process = "none" /\ clone'.owes = NoAsk /\ clone'.key = NoVoice
  BY StoppedClone DEF CloseLane
<1>2. Shapes' /\ OneInside'
  BY <1>1 DEF CloseLane, LaneIInv, Shapes, OneInside
<1>3. KeyIsVoice' /\ OwesTheHolder' /\ AnswerIsAwaited' /\ QueueIsShort'
  BY <1>1 DEF KeyIsVoice, OwesTheHolder, AnswerIsAwaited, QueueIsShort
<1>4. AnswersAreOwn'
  BY <1>1 DEF CloseLane, LaneIInv, AnswersAreOwn
<1>5. QED
  BY <1>2, <1>3, <1>4 DEF LaneIInv

-----------------------------------------------------------------------------
(* The theorems.                                                           *)

\* Every step of a request, of the worker and of its owner keeps the inductive invariant.
LEMMA LaneNextIInv == LaneIInv /\ [LaneNext]_laneVars => LaneIInv'
<1> SUFFICES ASSUME LaneIInv, [LaneNext]_laneVars PROVE LaneIInv'
  OBVIOUS
<1>1. ASSUME NEW r \in Asks, NEW v \in ClonedVoices, Ask(r, v) PROVE LaneIInv'
  BY <1>1, AskIInv
<1>2. ASSUME NEW r \in Asks, Withdraw(r) PROVE LaneIInv'
  BY <1>2, AskIInv
<1>3. ASSUME NEW r \in Asks, AskStep(r) PROVE LaneIInv'
  <2>1. CASE EnterLane(r) \/ FindClone(r)
    BY <2>1, EnterIInv
  <2>2. CASE LaunchClone(r)
    BY <2>2, LaunchIInv
  <2>3. CASE WriteAsk(r)
    BY <2>3, WriteIInv
  <2>4. CASE HearAnswer(r)
    BY <2>4, HearAnswerIInv
  <2>5. CASE GiveUpAsk(r) \/ CannotLaunch(r) \/ HearFailure(r) \/ HearClosing(r) \/ TimeOut(r)
    BY <2>5, FailureIInv
  <2>6. QED
    BY <1>3, <2>1, <2>2, <2>3, <2>4, <2>5 DEF AskStep
<1>4. CASE UNCHANGED laneVars
  BY <1>4, StutterLane
<1>5. QED
  BY <1>1, <1>2, <1>3, <1>4, CloneAnswersIInv, CloneBreaksIInv, CloseLaneIInv DEF LaneNext

\* Every state of the lane has the inductive invariant.
THEOREM LaneInductive == LaneSpec => []LaneIInv
<1>1. LaneIInv /\ [LaneNext]_laneVars => LaneIInv'
  BY LaneNextIInv
<1>2. QED
  BY <1>1, InitLane, PTL DEF LaneSpec

\* Every variable of the lane keeps its type; the queue of answers never holds more
\* than two, an answer and the end of the pipe behind it.
LEMMA LaneTypes == LaneIInv => LaneTypeOK
<1> SUFFICES ASSUME LaneIInv PROVE LaneTypeOK
  OBVIOUS
<1>1. Shapes /\ OneInside /\ Len(responses) <= 2
  BY DEF LaneIInv, Shapes, QueueIsShort
<1>2. QED
  BY <1>1 DEF Shapes, OneInside, Workers, LaneVoices, Requests, Results, Inside, LaneTypeOK

THEOREM LaneKeepsType == LaneSpec => []LaneTypeOK
  BY LaneTypes, LaneInductive, PTL

\* A request that succeeds got the answer to itself, spoken by the voice it
\* named; between requests the worker holds nothing the next one could take for
\* its answer; and none outlives its owner.
THEOREM AnswersStayOwn == LaneSpec => []AnswersAreOwn
<1>1. LaneIInv => AnswersAreOwn
  BY DEF LaneIInv
<1>2. QED
  BY <1>1, LaneInductive, PTL

-----------------------------------------------------------------------------
(* The voice settings.                                                     *)

JobNumbers  == 0..MaxJobs
EditPlaces  == {"none", "beginning", "begun", "drafted", "prepared", "dispatching", "concluding"}
ReplyPlaces == {"none", "submitted", "claimed", "thinking", "speaking", "spoken", "cut", "silenced"}
Desks       == [frontend : 0..MaxFrontends, frontends : 0..MaxFrontends,
                switching : {"no", "asked", "prepared", "bound"}, switches : Nat,
                character : Speaking, jobs : JobNumbers]
Voices      == [job : JobNumbers, character : Speaking, profile : JobNumbers,
                status : {"ready", "preparing", "cancelled", "failed"}]
VoiceJobs   == [at : EditPlaces, job : JobNumbers,
                action : {"none", "prepare", "preview", "save"},
                character : Speaking \cup {Nobody}, frontend : 0..MaxFrontends,
                revision : JobNumbers]
Players     == [owner : Replies \cup {"preview", Nobody}, job : JobNumbers,
                closed : BOOLEAN, announced : BOOLEAN]
Keepers     == [profile : {Nobody, "edit"}, dispatch : {Nobody, "player"}]

VoiceShapes ==
    /\ desk \in Desks /\ voice \in Voices /\ profiles \in [Speaking -> JobNumbers]
    /\ edit \in VoiceJobs /\ stopping \in BOOLEAN /\ player \in Players
    /\ observed \subseteq {"edit", "stop"} /\ held \in Keepers
    /\ reply \in [Replies -> [at : ReplyPlaces, typed : BOOLEAN]]
    /\ astray \subseteq Speaking /\ mishandled \in 0..MaxMishandled

\* The job in force prepares the voice of the character it was begun for, and
\* nobody is bound in between.
VoiceOwned ==
    /\ voice.profile = profiles[voice.character] \/ voice.character \in astray
    /\ desk.switching # "bound" => voice.character = desk.character
    /\ edit.at = "beginning" => edit.character = desk.character /\ ~Switching
    /\ edit.at # "none" => edit.job # NoJob /\ edit.character \in Speaking
    /\ voice.status = "preparing"
         => voice.job = edit.job /\ voice.character = edit.character /\ edit.at # "none"

Answering(k, places) == reply[k].at \in places

\* A typed turn keeps the voice from edits as long as it lasts: none begins, none
\* is in force, and what stops or opens a preview has missed its playback.
TurnProtected ==
    /\ TypedTurn => edit.at # "beginning"
    /\ reply["input"].typed /\ Answering("input", TurnStages)
         => voice.job = NoJob /\ edit.at # "dispatching"
    /\ reply["input"].typed /\ Answering("input", {"speaking"})
         => player.owner = "input" /\ ~player.closed /\ "stop" \notin observed
    /\ reply["input"].typed => reply["input"].at \notin {"none", "cut"}
    /\ Answering("input", TurnStages) => ~Answering("check-in", TurnStages)
    /\ desk.switching \in {"prepared", "bound"}
         => ~Answering("input", {"submitted"} \cup TurnStages)
    /\ edit.at = "dispatching" => held.profile = "edit"

VoiceIInv == VoiceShapes /\ VoiceOwned /\ TurnProtected

LEMMA VoiceConstants ==
    /\ MaxJobs \in Nat /\ MaxFrontends \in Nat \ {0} /\ MaxMishandled \in Nat
    /\ MaxVoiceSwitches \in Nat
<1>1. {MaxJobs, MaxVoiceSwitches, MaxFrontends, MaxMishandled} \subseteq Nat /\ MaxFrontends # 0
  BY VoiceEditsAssumption, Zenon DEF VoiceEditsAssumption
<1>2. QED
  BY <1>1

\* Cancelling the job in force leaves nobody preparing.
LEMMA CancelledVoice ==
    ASSUME VoiceIInv
    PROVE  /\ Cancelled(voice) \in Voices /\ Cancelled(voice).job = NoJob
           /\ Cancelled(voice).character = voice.character
           /\ Cancelled(voice).profile = voice.profile
           /\ Cancelled(voice).status # "preparing"
<1>1. PICK s : s = IF voice.status = "preparing" THEN "cancelled" ELSE voice.status
  OBVIOUS
<1>2. voice \in Voices /\ NoJob \in JobNumbers
      /\ s \in {"ready", "preparing", "cancelled", "failed"} /\ s # "preparing"
  BY <1>1, VoiceConstants DEF VoiceIInv, VoiceShapes, Voices, NoJob, JobNumbers
<1>3. Cancelled(voice) = [voice EXCEPT !.job = NoJob, !.status = s]
  BY <1>1, <1>2 DEF Cancelled, Voices
<1>4. QED
  BY <1>2, <1>3 DEF Voices

\* Silencing leaves what has not begun to speak, and what has ended.
LEMMA SilencedReplies ==
    ASSUME VoiceIInv, NEW stages
    PROVE  /\ Silenced(reply, stages) \in [Replies -> [at : ReplyPlaces, typed : BOOLEAN]]
           /\ \A k \in Replies :
                 /\ Silenced(reply, stages)[k].typed = reply[k].typed
                 /\ Silenced(reply, stages)[k].at
                      = IF reply[k].at \in stages THEN "silenced" ELSE reply[k].at
<1>1. \A k \in Replies :
         LET r == IF reply[k].at \in stages THEN [reply[k] EXCEPT !.at = "silenced"] ELSE reply[k]
         IN  /\ r \in [at : ReplyPlaces, typed : BOOLEAN] /\ r.typed = reply[k].typed
             /\ r.at = IF reply[k].at \in stages THEN "silenced" ELSE reply[k].at
  BY DEF VoiceIInv, VoiceShapes, ReplyPlaces
<1>2. QED
  BY <1>1 DEF Silenced

LEMMA QuietIsPlayer == Quiet \in Players
  BY VoiceConstants DEF Quiet, Players, NoJob, JobNumbers

LEMMA VoiceInitIInv == VoiceInit => VoiceIInv
<1> SUFFICES ASSUME VoiceInit PROVE VoiceIInv
  OBVIOUS
<1>1. PICK c \in Speaking :
          /\ desk = [frontend |-> 1, frontends |-> 1, switching |-> "no", switches |-> 0,
                     character |-> c, jobs |-> 0]
          /\ voice = [job |-> NoJob, character |-> c, profile |-> 0, status |-> "ready"]
  BY DEF VoiceInit
<1>2. desk \in Desks /\ voice \in Voices
  BY <1>1, VoiceConstants DEF Desks, Voices, JobNumbers, NoJob
<1>3. /\ profiles \in [Speaking -> JobNumbers] /\ edit \in VoiceJobs /\ mishandled \in 0..MaxMishandled
      /\ profiles[voice.character] = 0
  BY <1>1, VoiceConstants DEF VoiceInit, VoiceJobs, NoEdit, EditPlaces, JobNumbers, NoJob
<1>4. reply \in [Replies -> [at : ReplyPlaces, typed : BOOLEAN]]
      /\ \A k \in Replies : reply[k].at = "none" /\ reply[k].typed = FALSE
  BY DEF VoiceInit, ReplyPlaces
<1>5. VoiceShapes
  BY <1>2, <1>3, <1>4, QuietIsPlayer DEF VoiceInit, VoiceShapes, Keepers
<1>6. VoiceOwned
  BY <1>1, <1>3 DEF VoiceInit, VoiceOwned, NoEdit, Switching
<1>7. TurnProtected
  BY <1>1, <1>4 DEF VoiceInit, TurnProtected, NoEdit, TypedTurn, Answering, TurnStages,
                    SpeechStages, Replies
<1>8. QED
  BY <1>5, <1>6, <1>7 DEF VoiceIInv

\* Everything that speaks is stopped: no job is in force after it, and nothing
\* of the stages it names goes on.
LEMMA StoppedSpeaking ==
    ASSUME VoiceIInv, NEW stages, StopSpeaking(stages)
    PROVE  /\ voice' \in Voices /\ voice'.job = NoJob /\ voice'.status # "preparing"
           /\ voice'.character = voice.character /\ voice'.profile = voice.profile
           /\ player' \in Players /\ observed' = {} /\ held.profile = Nobody
           /\ reply' \in [Replies -> [at : ReplyPlaces, typed : BOOLEAN]]
           /\ \A k \in Replies :
                 /\ reply'[k].typed = reply[k].typed
                 /\ reply'[k].at = IF reply[k].at \in stages THEN "silenced" ELSE reply[k].at
<1>1. /\ voice' = Cancelled(voice) /\ reply' = Silenced(reply, stages)
      /\ player' = Quiet /\ observed' = {} /\ held.profile = Nobody
  BY DEF StopSpeaking, Retire, ProfileFree
<1>2. QED
  BY <1>1, CancelledVoice, SilencedReplies, QuietIsPlayer

LEMMA StopTtsIInv == ASSUME VoiceIInv, StopTts PROVE VoiceIInv'
<1>1. StopSpeaking(SpeechStages) /\ UNCHANGED <<desk, profiles, edit, stopping, held, astray, mishandled>>
  BY DEF StopTts
<1>2. VoiceShapes'
  BY <1>1, StoppedSpeaking DEF VoiceIInv, VoiceShapes
<1>3. VoiceOwned'
  BY <1>1, StoppedSpeaking DEF VoiceIInv, VoiceOwned, Switching
<1>4. TurnProtected'
  BY <1>1, StoppedSpeaking DEF VoiceIInv, TurnProtected, TypedTurn, Answering, TurnStages, SpeechStages, Replies
<1>5. QED
  BY <1>2, <1>3, <1>4 DEF VoiceIInv

LEMMA RequestEditIInv ==
    ASSUME VoiceIInv, NEW action \in {"prepare", "preview", "save"}, RequestEdit(action)
    PROVE  VoiceIInv'
<1>1. /\ StopSpeaking(SpeechStages) /\ edit.at = "none" /\ ~TypedTurn /\ ~Switching
      /\ desk.jobs < MaxJobs
      /\ UNCHANGED <<profiles, stopping, held, astray, mishandled>>
  BY DEF RequestEdit
<1>2. desk.jobs + 1 \in JobNumbers /\ desk.jobs + 1 # NoJob /\ 0 \in JobNumbers
  BY <1>1, VoiceConstants DEF VoiceIInv, VoiceShapes, Desks, JobNumbers, NoJob
<1>3. /\ desk' \in Desks /\ desk'.switching = desk.switching /\ desk'.character = desk.character
  BY <1>2 DEF RequestEdit, VoiceIInv, VoiceShapes, Desks
<1>4. edit' = [at |-> "beginning", job |-> desk.jobs + 1, action |-> action,
               character |-> desk.character, frontend |-> desk.frontend, revision |-> 0]
  BY DEF RequestEdit
<1>5. edit' \in VoiceJobs
  BY <1>2, <1>4 DEF VoiceIInv, VoiceShapes, Desks, VoiceJobs, EditPlaces
<1>6. VoiceShapes'
  BY <1>1, <1>3, <1>5, StoppedSpeaking DEF VoiceIInv, VoiceShapes
<1>7. VoiceOwned'
  BY <1>1, <1>2, <1>3, <1>4, StoppedSpeaking
     DEF VoiceIInv, VoiceShapes, Desks, VoiceOwned, Switching
<1>8. TurnProtected'
  BY <1>1, <1>3, <1>4, StoppedSpeaking
     DEF VoiceIInv, TurnProtected, TypedTurn, Answering, TurnStages, SpeechStages, Replies
<1>9. QED
  BY <1>6, <1>7, <1>8 DEF VoiceIInv

LEMMA BeginJobIInv == ASSUME VoiceIInv, BeginJob PROVE VoiceIInv'
<1>1. /\ edit.at = "beginning" /\ edit \in VoiceJobs /\ voice \in Voices
      /\ edit.job # NoJob /\ edit.character \in Speaking
      /\ voice.character = edit.character
  BY DEF BeginJob, VoiceIInv, VoiceShapes, VoiceOwned, Switching
<1>2. /\ voice' \in Voices /\ voice'.job = edit.job /\ voice'.status = "preparing"
      /\ voice'.character = voice.character /\ voice'.profile = voice.profile
  BY <1>1 DEF BeginJob, Voices, VoiceJobs
<1>3. /\ edit' \in VoiceJobs /\ edit'.at = "begun" /\ edit'.job = edit.job
      /\ edit'.character = edit.character
  BY <1>1 DEF BeginJob, VoiceJobs, EditPlaces
<1>4. UNCHANGED <<desk, profiles, stopping, player, observed, held, reply, astray, mishandled>>
  BY DEF BeginJob
<1>5. VoiceShapes'
  BY <1>2, <1>3, <1>4 DEF VoiceIInv, VoiceShapes
<1>6. VoiceOwned'
  BY <1>1, <1>2, <1>3, <1>4 DEF VoiceIInv, VoiceOwned, Switching
<1>7. TurnProtected'
  BY <1>1, <1>2, <1>3, <1>4 DEF VoiceIInv, TurnProtected, TypedTurn, Answering, TurnStages, SpeechStages
<1>8. QED
  BY <1>5, <1>6, <1>7 DEF VoiceIInv


\* What fails leaves nobody preparing: the job that prepares is its own.
LEMMA FailedVoice ==
    ASSUME VoiceIInv, FailedEdit, edit.at \notin {"none", "beginning"}
    PROVE  /\ voice' \in Voices /\ voice'.job = voice.job /\ voice'.status # "preparing"
           /\ voice'.character = voice.character /\ voice'.profile = voice.profile
           /\ edit' = NoEdit /\ NoEdit \in VoiceJobs /\ held.profile = Nobody
<1>1. NoEdit \in VoiceJobs
  BY VoiceConstants DEF NoEdit, VoiceJobs, EditPlaces, JobNumbers, NoJob
<1>2. CASE JobCurrent
  <2>1. voice' = [voice EXCEPT !.status = "failed"]
    BY <1>2 DEF FailedEdit
  <2>2. QED
    BY <1>1, <2>1 DEF FailedEdit, ProfileFree, VoiceIInv, VoiceShapes, Voices
<1>3. CASE ~JobCurrent
  <2>1. voice' = voice
    BY <1>3 DEF FailedEdit
  <2>2. voice.status # "preparing"
    BY <1>3 DEF JobCurrent, VoiceIInv, VoiceOwned
  <2>3. QED
    BY <1>1, <2>1, <2>2 DEF FailedEdit, ProfileFree, VoiceIInv, VoiceShapes
<1>4. QED
  BY <1>2, <1>3

LEMMA EditGoneIInv ==
    ASSUME VoiceIInv, edit' = NoEdit, NoEdit \in VoiceJobs, voice' \in Voices,
           voice'.status # "preparing", voice'.job \in {NoJob, voice.job},
           voice'.character = voice.character,
           profiles' \in [Speaking -> JobNumbers], astray' \subseteq Speaking,
           voice'.profile = profiles'[voice.character] \/ voice.character \in astray',
           mishandled' \in 0..MaxMishandled,
           UNCHANGED <<desk, stopping, player, observed, held, reply>>
    PROVE  VoiceIInv'
<1>1. VoiceShapes'
  BY DEF VoiceIInv, VoiceShapes
<1>2. VoiceOwned'
  BY DEF VoiceIInv, VoiceOwned, NoEdit, Switching
<1>3. TurnProtected'
  BY DEF VoiceIInv, TurnProtected, TypedTurn, Answering, NoEdit
<1>4. QED
  BY <1>1, <1>2, <1>3 DEF VoiceIInv

LEMMA EditFailsIInv ==
    ASSUME VoiceIInv, EditFails \/ EditUnwelcome \/ RefuseDraft PROVE VoiceIInv'
<1>1. FailedEdit /\ edit.at \notin {"none", "beginning"}
  BY DEF EditFails, EditUnwelcome, RefuseDraft, Asking, ReadyToSave
<1>2. mishandled' \in 0..MaxMishandled
  BY VoiceConstants DEF EditFails, EditUnwelcome, RefuseDraft, VoiceIInv, VoiceShapes
<1>3. UNCHANGED <<desk, profiles, stopping, player, observed, held, reply, astray>>
  BY DEF EditFails, EditUnwelcome, RefuseDraft
<1>4. profiles' \in [Speaking -> JobNumbers] /\ astray' \subseteq Speaking
      /\ (voice.profile = profiles'[voice.character] \/ voice.character \in astray')
  BY <1>3 DEF VoiceIInv, VoiceShapes, VoiceOwned
<1>5. QED
  BY <1>1, <1>2, <1>3, <1>4, FailedVoice, EditGoneIInv

LEMMA SaveGoesAstrayIInv == ASSUME VoiceIInv, SaveGoesAstray PROVE VoiceIInv'
<1>1. /\ FailedEdit /\ edit.at = "drafted" /\ voice.character = edit.character
      /\ edit.character \in Speaking /\ edit.job \in JobNumbers
  BY DEF SaveGoesAstray, MaySave, ReadyToSave, Current, JobCurrent, VoiceIInv, VoiceShapes,
         VoiceOwned, VoiceJobs
<1>2. mishandled' \in 0..MaxMishandled
  BY VoiceConstants DEF SaveGoesAstray, VoiceIInv, VoiceShapes
<1>3. /\ UNCHANGED <<desk, stopping, player, observed, held, reply>>
      /\ astray' = astray \cup {edit.character}
      /\ profiles' = [profiles EXCEPT ![edit.character] = edit.job]
  BY DEF SaveGoesAstray
<1>4. profiles' \in [Speaking -> JobNumbers] /\ astray' \subseteq Speaking
  BY <1>1, <1>3 DEF VoiceIInv, VoiceShapes
<1>5. QED
  BY <1>1, <1>2, <1>3, <1>4, FailedVoice, EditGoneIInv

LEMMA EditWithdrawnIInv == ASSUME VoiceIInv, EditWithdrawn PROVE VoiceIInv'
<1>1. voice.status # "preparing" /\ UNCHANGED <<voice, desk, profiles, stopping, player, observed,
                                                held, reply, astray, mishandled>>
  BY DEF EditWithdrawn, JobCurrent, VoiceIInv, VoiceOwned
<1>2. edit' = NoEdit /\ NoEdit \in VoiceJobs
  BY VoiceConstants DEF EditWithdrawn, NoEdit, VoiceJobs, EditPlaces, JobNumbers, NoJob
<1>3. QED
  BY <1>1, <1>2, EditGoneIInv DEF VoiceIInv, VoiceShapes, VoiceOwned

LEMMA ConcludeEditIInv == ASSUME VoiceIInv, ConcludeEdit PROVE VoiceIInv'
<1>1. /\ voice' \in Voices /\ voice'.job = voice.job /\ voice'.status # "preparing"
      /\ voice'.character = voice.character /\ voice'.profile = voice.profile
  BY DEF ConcludeEdit, VoiceIInv, VoiceShapes, Voices
<1>2. edit' = NoEdit /\ NoEdit \in VoiceJobs
      /\ UNCHANGED <<desk, profiles, stopping, player, observed, held, reply, astray, mishandled>>
  BY VoiceConstants DEF ConcludeEdit, NoEdit, VoiceJobs, EditPlaces, JobNumbers, NoJob
<1>3. QED
  BY <1>1, <1>2, EditGoneIInv DEF VoiceIInv, VoiceShapes, VoiceOwned

\* An edit goes on: to a place where nothing is dispatched, with its own job.
LEMMA EditGoesOnIInv ==
    ASSUME VoiceIInv, edit' \in VoiceJobs, edit'.job = edit.job,
           edit'.character = edit.character, edit.at \notin {"none", "beginning"},
           edit'.at \notin {"none", "beginning", "dispatching"},
           UNCHANGED <<desk, voice, profiles, stopping, player, observed, held, reply,
                       astray, mishandled>>
    PROVE  VoiceIInv'
<1>1. VoiceShapes'
  BY DEF VoiceIInv, VoiceShapes
<1>2. VoiceOwned'
  BY DEF VoiceIInv, VoiceOwned, Switching
<1>3. TurnProtected'
  BY DEF VoiceIInv, TurnProtected, TypedTurn, Answering
<1>4. QED
  BY <1>1, <1>2, <1>3 DEF VoiceIInv

LEMMA DraftVoiceIInv == ASSUME VoiceIInv, DraftVoice \/ PrepareVoice PROVE VoiceIInv'
<1>1. edit \in VoiceJobs /\ edit.at \in {"begun", "drafted"}
  BY DEF DraftVoice, PrepareVoice, VoiceIInv, VoiceShapes
<1>2. UNCHANGED <<desk, voice, profiles, stopping, player, observed, held, reply, astray, mishandled>>
  BY DEF DraftVoice, PrepareVoice
<1>3. CASE DraftVoice
  <2>1. profiles[edit.character] \in JobNumbers
    BY <1>1, <1>3 DEF DraftVoice, VoiceIInv, VoiceShapes, VoiceOwned
  <2>2. edit' = [edit EXCEPT !.at = "drafted", !.revision = profiles[edit.character]]
    BY <1>3 DEF DraftVoice
  <2>3. /\ edit' \in VoiceJobs /\ edit'.job = edit.job /\ edit'.character = edit.character
        /\ edit'.at = "drafted"
    BY <1>1, <2>1, <2>2 DEF VoiceJobs, EditPlaces
  <2>4. QED
    BY <1>1, <1>2, <2>3, EditGoesOnIInv
<1>4. CASE PrepareVoice
  <2>1. PICK place : place = IF edit.action = "preview" THEN "prepared" ELSE "concluding"
    OBVIOUS
  <2>2. edit' = [edit EXCEPT !.at = place] /\ place \in {"prepared", "concluding"}
    BY <1>4, <2>1 DEF PrepareVoice
  <2>3. /\ edit' \in VoiceJobs /\ edit'.job = edit.job /\ edit'.character = edit.character
        /\ edit'.at = place
    BY <1>1, <2>2 DEF VoiceJobs, EditPlaces
  <2>4. QED
    BY <1>1, <1>2, <2>2, <2>3, EditGoesOnIInv
<1>5. QED
  BY <1>3, <1>4


\* The preview is dispatched by the job in force: then no typed turn is on.
LEMMA DispatchPreviewIInv == ASSUME VoiceIInv, DispatchPreview PROVE VoiceIInv'
<1>1. /\ edit \in VoiceJobs /\ edit.at = "prepared" /\ voice.job = edit.job /\ edit.job # NoJob
      /\ UNCHANGED <<desk, voice, profiles, stopping, player, reply, astray, mishandled>>
      /\ observed' = observed \cup {"edit"}
  BY DEF DispatchPreview, Current, JobCurrent, VoiceIInv, VoiceShapes, VoiceOwned
<1>2. /\ edit' \in VoiceJobs /\ edit'.job = edit.job /\ edit'.character = edit.character
      /\ edit'.at = "dispatching"
  BY <1>1 DEF DispatchPreview, VoiceJobs, EditPlaces
<1>3. held' \in Keepers /\ held'.profile = "edit"
  BY DEF DispatchPreview, VoiceIInv, VoiceShapes, Keepers
<1>4. ~(reply["input"].typed /\ Answering("input", TurnStages))
  BY <1>1 DEF VoiceIInv, TurnProtected
<1>5. VoiceShapes'
  BY <1>1, <1>2, <1>3 DEF VoiceIInv, VoiceShapes
<1>6. VoiceOwned'
  BY <1>1, <1>2 DEF VoiceIInv, VoiceOwned, Switching
<1>7. TurnProtected'
  BY <1>1, <1>2, <1>3, <1>4
     DEF VoiceIInv, TurnProtected, TypedTurn, Answering, TurnStages, SpeechStages
<1>8. QED
  BY <1>5, <1>6, <1>7 DEF VoiceIInv

LEMMA OpenPreviewIInv == ASSUME VoiceIInv, OpenPreview PROVE VoiceIInv'
<1>1. /\ edit \in VoiceJobs /\ edit.at = "dispatching" /\ player \in Players
      /\ UNCHANGED <<desk, voice, profiles, stopping, reply, astray, mishandled>>
  BY DEF OpenPreview, VoiceIInv, VoiceShapes
<1>2. /\ edit' \in VoiceJobs /\ edit'.job = edit.job /\ edit'.character = edit.character
      /\ edit'.at = "concluding"
  BY <1>1 DEF OpenPreview, VoiceJobs, EditPlaces
<1>3. held' \in Keepers
  BY DEF OpenPreview, VoiceIInv, VoiceShapes, Keepers
<1>4. player' \in Players /\ observed' \subseteq {"edit", "stop"}
  <2>1. CASE "edit" \in observed
    BY <1>1, <2>1, QuietIsPlayer DEF OpenPreview, Players, VoiceJobs
  <2>2. CASE "edit" \notin observed
    BY <1>1, <2>2 DEF OpenPreview, Players, VoiceIInv, VoiceShapes
  <2>3. QED
    BY <2>1, <2>2
<1>5. ~(reply["input"].typed /\ Answering("input", TurnStages))
  BY <1>1 DEF VoiceIInv, TurnProtected
<1>6. VoiceShapes'
  BY <1>1, <1>2, <1>3, <1>4 DEF VoiceIInv, VoiceShapes
<1>7. VoiceOwned'
  BY <1>1, <1>2 DEF VoiceIInv, VoiceOwned, Switching
<1>8. TurnProtected'
  BY <1>1, <1>2, <1>5
     DEF VoiceIInv, TurnProtected, TypedTurn, Answering, TurnStages, SpeechStages
<1>9. QED
  BY <1>6, <1>7, <1>8 DEF VoiceIInv

\* What is saved is the voice of the character in memory.
LEMMA SaveVoiceIInv == ASSUME VoiceIInv, SaveVoice PROVE VoiceIInv'
<1>1. /\ edit \in VoiceJobs /\ edit.at = "drafted" /\ voice.character = edit.character
      /\ voice \in Voices /\ edit.character \in Speaking /\ edit.job \in JobNumbers
      /\ UNCHANGED <<desk, stopping, player, observed, held, reply, astray, mishandled>>
  BY DEF SaveVoice, MaySave, ReadyToSave, Current, JobCurrent, VoiceIInv, VoiceShapes,
         VoiceOwned, VoiceJobs
<1>2. /\ edit' \in VoiceJobs /\ edit'.job = edit.job /\ edit'.character = edit.character
      /\ edit'.at = "concluding"
  BY <1>1 DEF SaveVoice, Saved, VoiceJobs, EditPlaces
<1>3. /\ voice' \in Voices /\ voice'.profile = edit.job /\ voice'.character = voice.character
      /\ voice'.job = voice.job /\ voice'.status = voice.status
  BY <1>1 DEF SaveVoice, Saved, Voices
<1>4. profiles' \in [Speaking -> JobNumbers] /\ profiles'[edit.character] = edit.job
  BY <1>1 DEF SaveVoice, Saved, VoiceIInv, VoiceShapes
<1>5. VoiceShapes'
  BY <1>1, <1>2, <1>3, <1>4 DEF VoiceIInv, VoiceShapes
<1>6. VoiceOwned'
  BY <1>1, <1>2, <1>3, <1>4 DEF VoiceIInv, VoiceOwned, Switching
<1>7. TurnProtected'
  BY <1>1, <1>2, <1>3 DEF VoiceIInv, TurnProtected, TypedTurn, Answering
<1>8. QED
  BY <1>5, <1>6, <1>7 DEF VoiceIInv

\* The player announces a preview, or has played what was complete.
LEMMA PlayerIInv ==
    ASSUME VoiceIInv, AnnouncePreview \/ AnnounceEnds \/ PlayEnds PROVE VoiceIInv'
<1>1. UNCHANGED <<desk, voice, profiles, edit, stopping, observed, reply, astray, mishandled>>
  BY DEF AnnouncePreview, AnnounceEnds, PlayEnds
<1>2. held' \in Keepers /\ held'.profile = held.profile
  BY DEF AnnouncePreview, AnnounceEnds, PlayEnds, VoiceIInv, VoiceShapes, Keepers
<1>3. /\ player' \in Players
      /\ ~player.closed => player'.owner = player.owner /\ ~player'.closed
  <2>1. CASE AnnouncePreview
    BY <2>1 DEF AnnouncePreview, VoiceIInv, VoiceShapes
  <2>2. CASE AnnounceEnds
    <3>1. PICK told \in BOOLEAN : told = (voice.job = player.job)
      OBVIOUS
    <3>2. player' = [player EXCEPT !.announced = told]
      BY <2>2, <3>1 DEF AnnounceEnds
    <3>3. QED
      BY <3>2 DEF VoiceIInv, VoiceShapes, Players
  <2>3. CASE PlayEnds
    BY <2>3, QuietIsPlayer DEF PlayEnds
  <2>4. QED
    BY <2>1, <2>2, <2>3
<1>4. VoiceShapes'
  BY <1>1, <1>2, <1>3 DEF VoiceIInv, VoiceShapes
<1>5. VoiceOwned'
  BY <1>1 DEF VoiceIInv, VoiceOwned, Switching
<1>6. TurnProtected'
  BY <1>1, <1>2, <1>3 DEF VoiceIInv, TurnProtected, TypedTurn, Answering
<1>7. QED
  BY <1>4, <1>5, <1>6 DEF VoiceIInv

LEMMA RetirePreviewIInv == ASSUME VoiceIInv, RetirePreview PROVE VoiceIInv'
<1>1. /\ UNCHANGED <<desk, profiles, edit, player, held, reply, astray, mishandled>>
      /\ observed' = observed \cup {"stop"} /\ stopping' = TRUE
  BY DEF RetirePreview
<1>2. /\ voice' \in Voices /\ voice'.job = NoJob /\ voice'.status = "cancelled"
      /\ voice'.character = voice.character /\ voice'.profile = voice.profile
  <2>1. NoJob \in JobNumbers /\ voice \in Voices
    BY VoiceConstants DEF VoiceIInv, VoiceShapes, NoJob, JobNumbers
  <2>2. QED
    BY <2>1 DEF RetirePreview, Voices
<1>3. ~(reply["input"].typed /\ Answering("input", TurnStages))
  BY DEF RetirePreview, VoiceIInv, TurnProtected
<1>4. VoiceShapes'
  BY <1>1, <1>2 DEF VoiceIInv, VoiceShapes
<1>5. VoiceOwned'
  BY <1>1, <1>2 DEF VoiceIInv, VoiceOwned, Switching
<1>6. TurnProtected'
  BY <1>1, <1>2, <1>3
     DEF VoiceIInv, TurnProtected, TypedTurn, Answering, TurnStages, SpeechStages
<1>7. QED
  BY <1>4, <1>5, <1>6 DEF VoiceIInv

LEMMA StopRetiredIInv == ASSUME VoiceIInv, StopRetired PROVE VoiceIInv'
<1>1. /\ UNCHANGED <<desk, voice, profiles, edit, held, reply, astray, mishandled>>
      /\ stopping' = FALSE
  BY DEF StopRetired
<1>2. /\ player' \in Players /\ observed' \subseteq observed
      /\ "stop" \notin observed => player' = player
  BY QuietIsPlayer DEF StopRetired, Retire, VoiceIInv, VoiceShapes
<1>3. VoiceShapes'
  BY <1>1, <1>2 DEF VoiceIInv, VoiceShapes
<1>4. VoiceOwned'
  BY <1>1 DEF VoiceIInv, VoiceOwned, Switching
<1>5. TurnProtected'
  BY <1>1, <1>2 DEF VoiceIInv, TurnProtected, TypedTurn, Answering
<1>6. QED
  BY <1>3, <1>4, <1>5 DEF VoiceIInv


\* Only a reply changes: the input's record is as it was, or says what follows.
LEMMA ReplyShape ==
    ASSUME VoiceIInv, NEW k \in Replies, NEW place \in ReplyPlaces,
           reply' = [reply EXCEPT ![k].at = place]
    PROVE  /\ reply' \in [Replies -> [at : ReplyPlaces, typed : BOOLEAN]]
           /\ \A r \in Replies : reply'[r].typed = reply[r].typed
           /\ \A r \in Replies \ {k} : reply'[r].at = reply[r].at
           /\ reply'[k].at = place
  BY DEF VoiceIInv, VoiceShapes

LEMMA SubmitTypedIInv == ASSUME VoiceIInv, SubmitTyped PROVE VoiceIInv'
<1>1. /\ edit.at # "beginning" /\ ~Switching /\ reply["input"].at = "none"
      /\ UNCHANGED <<desk, voice, profiles, edit, stopping, player, observed, held, astray, mishandled>>
  BY DEF SubmitTyped, LoopFree
<1>2. /\ reply' \in [Replies -> [at : ReplyPlaces, typed : BOOLEAN]]
      /\ reply'["input"].at = "submitted" /\ reply'["check-in"] = reply["check-in"]
  BY DEF SubmitTyped, VoiceIInv, VoiceShapes, Replies, ReplyPlaces
<1>3. VoiceShapes'
  BY <1>1, <1>2 DEF VoiceIInv, VoiceShapes
<1>4. VoiceOwned'
  BY <1>1 DEF VoiceIInv, VoiceOwned, Switching
<1>5. TurnProtected'
  BY <1>1, <1>2
     DEF VoiceIInv, TurnProtected, TypedTurn, Answering, TurnStages, SpeechStages, Switching
<1>6. QED
  BY <1>3, <1>4, <1>5 DEF VoiceIInv

\* The claim of an input: the job is cancelled, a check-in silenced.
LEMMA InputClaimsIInv == ASSUME VoiceIInv, InputClaims PROVE VoiceIInv'
<1>1. /\ UNCHANGED <<desk, profiles, edit, stopping, held, astray, mishandled>>
      /\ voice' = Cancelled(voice) /\ held.profile = Nobody
      /\ reply["input"].at \in {"none", "submitted"}
      /\ desk.switching \notin {"prepared", "bound"}
      /\ reply["input"].typed /\ reply["input"].at = "submitted" => edit.at # "beginning"
  BY DEF InputClaims, ProfileFree, VoiceIInv, TurnProtected, Answering, Switching, TypedTurn
<1>a. edit.at # "dispatching"
  BY <1>1 DEF VoiceIInv, TurnProtected, Nobody
<1>2. PICK silent : silent = Silenced(reply, TurnStages)
  OBVIOUS
<1>3. /\ silent \in [Replies -> [at : ReplyPlaces, typed : BOOLEAN]]
      /\ silent["input"].typed = reply["input"].typed
      /\ silent["check-in"].at \notin TurnStages
  BY <1>2, SilencedReplies DEF Replies, TurnStages, SpeechStages
<1>4. reply' = [silent EXCEPT !["input"].at = "claimed"]
  BY <1>2 DEF InputClaims
<1>5. /\ reply' \in [Replies -> [at : ReplyPlaces, typed : BOOLEAN]]
      /\ reply'["input"].at = "claimed" /\ reply'["input"].typed = reply["input"].typed
      /\ reply'["check-in"].at \notin TurnStages
  BY <1>3, <1>4 DEF Replies, ReplyPlaces
<1>6. player' \in Players /\ observed' \subseteq observed
  BY QuietIsPlayer DEF InputClaims, Retire, VoiceIInv, VoiceShapes
<1>b. reply["input"].typed => edit.at # "beginning"
  BY <1>1 DEF VoiceIInv, TurnProtected
<1>7. VoiceShapes'
  BY <1>1, <1>5, <1>6, CancelledVoice DEF VoiceIInv, VoiceShapes
<1>8. VoiceOwned'
  BY <1>1, CancelledVoice DEF VoiceIInv, VoiceOwned, Switching
<1>9. TurnProtected'
  BY <1>1, <1>a, <1>b, <1>5, CancelledVoice
     DEF VoiceIInv, TurnProtected, TypedTurn, Answering, TurnStages, SpeechStages
<1>10. QED
  BY <1>7, <1>8, <1>9 DEF VoiceIInv

LEMMA CheckInClaimsIInv == ASSUME VoiceIInv, CheckInClaims PROVE VoiceIInv'
<1>1. /\ UNCHANGED <<desk, voice, profiles, edit, stopping, player, observed, held, astray, mishandled>>
      /\ reply["input"].at \notin TurnStages
      /\ reply' = [reply EXCEPT !["check-in"].at = "claimed"]
  BY DEF CheckInClaims, Reaches
<1>2. /\ reply' \in [Replies -> [at : ReplyPlaces, typed : BOOLEAN]]
      /\ reply'["input"] = reply["input"]
  BY <1>1 DEF VoiceIInv, VoiceShapes, Replies, ReplyPlaces
<1>3. VoiceShapes'
  BY <1>1, <1>2 DEF VoiceIInv, VoiceShapes
<1>4. VoiceOwned'
  BY <1>1 DEF VoiceIInv, VoiceOwned, Switching
<1>5. TurnProtected'
  BY <1>1, <1>2 DEF VoiceIInv, TurnProtected, TypedTurn, Answering
<1>6. QED
  BY <1>3, <1>4, <1>5 DEF VoiceIInv

LEMMA ReplyThinksIInv ==
    ASSUME VoiceIInv, NEW k \in Replies, ReplyThinks(k) PROVE VoiceIInv'
<1>1. /\ UNCHANGED <<desk, voice, profiles, edit, stopping, player, observed, held, astray, mishandled>>
      /\ reply[k].at = "claimed" /\ reply' = [reply EXCEPT ![k].at = "thinking"]
  BY DEF ReplyThinks, Reaches
<1>2. /\ reply' \in [Replies -> [at : ReplyPlaces, typed : BOOLEAN]]
      /\ \A r \in Replies : reply'[r].typed = reply[r].typed
      /\ \A r \in Replies \ {k} : reply'[r].at = reply[r].at
      /\ reply'[k].at = "thinking"
  BY <1>1, ReplyShape DEF ReplyPlaces
<1>3. VoiceShapes'
  BY <1>1, <1>2 DEF VoiceIInv, VoiceShapes
<1>4. VoiceOwned'
  BY <1>1 DEF VoiceIInv, VoiceOwned, Switching
<1>5. TurnProtected'
  BY <1>1, <1>2
     DEF VoiceIInv, TurnProtected, TypedTurn, Answering, TurnStages, SpeechStages, Replies
<1>6. QED
  BY <1>3, <1>4, <1>5 DEF VoiceIInv

\* A check-in opens its reply only when no turn of the user is on.
LEMMA OpenReplyIInv ==
    ASSUME VoiceIInv, NEW k \in Replies, OpenReply(k) PROVE VoiceIInv'
<1>1. /\ UNCHANGED <<desk, voice, profiles, edit, stopping, held, astray, mishandled>>
      /\ reply[k].at = "thinking" /\ reply' = [reply EXCEPT ![k].at = "speaking"]
      /\ observed' = {}
      /\ player' = [Quiet EXCEPT !.owner = k, !.closed = FALSE, !.announced = TRUE]
  BY DEF OpenReply, Reaches
<1>2. /\ reply' \in [Replies -> [at : ReplyPlaces, typed : BOOLEAN]]
      /\ \A r \in Replies : reply'[r].typed = reply[r].typed
      /\ \A r \in Replies \ {k} : reply'[r].at = reply[r].at
      /\ reply'[k].at = "speaking"
  BY <1>1, ReplyShape DEF ReplyPlaces
<1>3. player' \in Players /\ player'.owner = k /\ ~player'.closed
  BY <1>1, QuietIsPlayer DEF Players, Quiet
<1>4. VoiceShapes'
  BY <1>1, <1>2, <1>3 DEF VoiceIInv, VoiceShapes
<1>5. VoiceOwned'
  BY <1>1 DEF VoiceIInv, VoiceOwned, Switching
<1>6. TurnProtected'
  BY <1>1, <1>2, <1>3
     DEF VoiceIInv, TurnProtected, TypedTurn, Answering, TurnStages, SpeechStages, Replies
<1>7. QED
  BY <1>4, <1>5, <1>6 DEF VoiceIInv

\* The reply to a typed message still has the player: it is not cut.
LEMMA AppendReplyIInv ==
    ASSUME VoiceIInv, NEW k \in Replies, AppendReply(k) PROVE VoiceIInv'
<1>1. /\ UNCHANGED <<desk, voice, profiles, edit, stopping, observed, held, astray, mishandled>>
      /\ reply[k].at = "speaking" /\ player \in Players
  BY DEF AppendReply, VoiceIInv, VoiceShapes
<1>2. CASE player.owner = k /\ ~player.closed
  <2>1. player' = [player EXCEPT !.closed = TRUE] /\ reply' = [reply EXCEPT ![k].at = "spoken"]
    BY <1>2 DEF AppendReply, Reaches
  <2>2. /\ reply' \in [Replies -> [at : ReplyPlaces, typed : BOOLEAN]]
        /\ \A r \in Replies : reply'[r].typed = reply[r].typed
        /\ \A r \in Replies \ {k} : reply'[r].at = reply[r].at
        /\ reply'[k].at = "spoken"
    BY <2>1, ReplyShape DEF ReplyPlaces
  <2>3. player' \in Players
    BY <1>1, <2>1 DEF Players
  <2>4. VoiceShapes' /\ VoiceOwned'
    BY <1>1, <2>2, <2>3 DEF VoiceIInv, VoiceShapes, VoiceOwned, Switching
  <2>5. TurnProtected'
    BY <1>1, <1>2, <2>2
       DEF VoiceIInv, TurnProtected, TypedTurn, Answering, TurnStages, SpeechStages, Replies
  <2>6. QED
    BY <2>4, <2>5 DEF VoiceIInv
<1>3. CASE ~(player.owner = k /\ ~player.closed)
  <2>1. player' = player /\ reply' = [reply EXCEPT ![k].at = "cut"]
    BY <1>3 DEF AppendReply, Reaches
  <2>2. /\ reply' \in [Replies -> [at : ReplyPlaces, typed : BOOLEAN]]
        /\ \A r \in Replies : reply'[r].typed = reply[r].typed
        /\ \A r \in Replies \ {k} : reply'[r].at = reply[r].at
        /\ reply'[k].at = "cut"
    BY <2>1, ReplyShape DEF ReplyPlaces
  <2>3. ~(k = "input" /\ reply["input"].typed)
    BY <1>1, <1>3 DEF VoiceIInv, TurnProtected, Answering, TurnStages, SpeechStages
  <2>4. VoiceShapes' /\ VoiceOwned'
    BY <1>1, <2>1, <2>2 DEF VoiceIInv, VoiceShapes, VoiceOwned, Switching
  <2>5. TurnProtected'
    BY <1>1, <2>1, <2>2, <2>3
       DEF VoiceIInv, TurnProtected, TypedTurn, Answering, TurnStages, SpeechStages, Replies
  <2>6. QED
    BY <2>4, <2>5 DEF VoiceIInv
<1>4. QED
  BY <1>2, <1>3


LEMMA StartVoiceSwitchIInv == ASSUME VoiceIInv, StartVoiceSwitch PROVE VoiceIInv'
<1>1. /\ UNCHANGED <<voice, profiles, edit, stopping, player, observed, held, reply, astray, mishandled>>
      /\ edit.at # "beginning" /\ desk.switching = "no"
  BY DEF StartVoiceSwitch, LoopFree, Switching
<1>2. /\ desk' \in Desks /\ desk'.character = desk.character /\ desk'.switching = "asked"
  <2>1. desk \in Desks /\ desk.switches + 1 \in Nat
    BY DEF VoiceIInv, VoiceShapes, Desks
  <2>2. desk' = [desk EXCEPT !.switching = "asked", !.switches = desk.switches + 1]
    BY <2>1 DEF StartVoiceSwitch, Desks
  <2>3. QED
    BY <2>1, <2>2 DEF Desks
<1>3. VoiceShapes'
  BY <1>1, <1>2 DEF VoiceIInv, VoiceShapes
<1>4. VoiceOwned'
  BY <1>1, <1>2 DEF VoiceIInv, VoiceOwned, Switching
<1>5. TurnProtected'
  BY <1>1, <1>2 DEF VoiceIInv, TurnProtected, TypedTurn, Answering
<1>6. QED
  BY <1>3, <1>4, <1>5 DEF VoiceIInv

\* The switch silences the turn and retires what plays, before it binds another.
LEMMA PrepareVoiceSwitchIInv == ASSUME VoiceIInv, PrepareVoiceSwitch PROVE VoiceIInv'
<1>1. /\ StopSpeaking(TurnStages \cup {"submitted"}) /\ desk.switching = "asked"
      /\ UNCHANGED <<profiles, edit, stopping, held, astray, mishandled>>
  BY DEF PrepareVoiceSwitch
<1>2. /\ desk' \in Desks /\ desk'.character = desk.character /\ desk'.switching = "prepared"
  BY DEF PrepareVoiceSwitch, VoiceIInv, VoiceShapes, Desks
<1>3. VoiceShapes'
  BY <1>1, <1>2, StoppedSpeaking DEF VoiceIInv, VoiceShapes
<1>4. VoiceOwned'
  BY <1>1, <1>2, StoppedSpeaking DEF VoiceIInv, VoiceOwned, Switching
<1>5. TurnProtected'
  BY <1>1, <1>2, StoppedSpeaking
     DEF VoiceIInv, TurnProtected, TypedTurn, Answering, TurnStages, SpeechStages, Replies
<1>6. QED
  BY <1>3, <1>4, <1>5 DEF VoiceIInv

LEMMA DeskIInv ==
    ASSUME VoiceIInv, SwitchGivenUp \/ BindService \/ Reconnect PROVE VoiceIInv'
<1>1. UNCHANGED <<voice, profiles, edit, stopping, player, observed, held, reply, astray, mishandled>>
  BY DEF SwitchGivenUp, BindService, Reconnect
<1>2. CASE SwitchGivenUp
  <2>1. /\ desk' \in Desks /\ desk'.character = desk.character /\ desk'.switching = "no"
        /\ desk.switching = "prepared"
    BY <1>2 DEF SwitchGivenUp, VoiceIInv, VoiceShapes, Desks
  <2>2. VoiceShapes' /\ VoiceOwned'
    BY <1>1, <2>1 DEF VoiceIInv, VoiceShapes, VoiceOwned, Switching
  <2>3. TurnProtected'
    BY <1>1, <2>1 DEF VoiceIInv, TurnProtected, TypedTurn, Answering
  <2>4. QED
    BY <2>2, <2>3 DEF VoiceIInv
<1>3. CASE BindService
  <2>1. PICK c \in Speaking : desk' = [desk EXCEPT !.switching = "bound", !.character = c]
    BY <1>3 DEF BindService
  <2>2. desk' \in Desks /\ desk'.switching = "bound" /\ desk.switching = "prepared"
    BY <1>3, <2>1 DEF BindService, VoiceIInv, VoiceShapes, Desks
  <2>3. VoiceShapes' /\ VoiceOwned'
    BY <1>1, <2>2 DEF VoiceIInv, VoiceShapes, VoiceOwned, Switching
  <2>4. TurnProtected'
    BY <1>1, <2>2 DEF VoiceIInv, TurnProtected, TypedTurn, Answering
  <2>5. QED
    BY <2>3, <2>4 DEF VoiceIInv
<1>4. CASE Reconnect
  <2>1. desk.frontends + 1 \in 0..MaxFrontends
    BY <1>4, VoiceConstants DEF Reconnect, VoiceIInv, VoiceShapes, Desks
  <2>2. desk' \in Desks /\ desk'.switching = desk.switching /\ desk'.character = desk.character
    BY <1>4, <2>1 DEF Reconnect, VoiceIInv, VoiceShapes, Desks
  <2>3. VoiceShapes' /\ VoiceOwned'
    BY <1>1, <2>2 DEF VoiceIInv, VoiceShapes, VoiceOwned, Switching
  <2>4. TurnProtected'
    BY <1>1, <2>2 DEF VoiceIInv, TurnProtected, TypedTurn, Answering
  <2>5. QED
    BY <2>3, <2>4 DEF VoiceIInv
<1>5. QED
  BY <1>2, <1>3, <1>4

\* The voice bound is the one on disk.
LEMMA BindVoiceIInv == ASSUME VoiceIInv, BindVoice PROVE VoiceIInv'
<1>1. /\ UNCHANGED <<profiles, edit, stopping, held, reply, mishandled>>
      /\ astray' \subseteq astray /\ player' = Quiet /\ observed' = {}
      /\ desk.switching = "bound" /\ desk.character \in Speaking
      /\ profiles[desk.character] \in JobNumbers
  BY DEF BindVoice, Retire, VoiceIInv, VoiceShapes, Desks
<1>2. desk' \in Desks /\ desk'.switching = "no" /\ desk'.character = desk.character
  BY DEF BindVoice, VoiceIInv, VoiceShapes, Desks
<1>3. /\ voice' = [job |-> NoJob, character |-> desk.character,
                   profile |-> profiles[desk.character], status |-> "ready"]
      /\ NoJob \in JobNumbers
  BY VoiceConstants DEF BindVoice, NoJob, JobNumbers
<1>4. voice' \in Voices
  BY <1>1, <1>3 DEF Voices
<1>5. edit.at # "beginning"
  BY <1>1 DEF VoiceIInv, VoiceOwned, Switching
<1>6. VoiceShapes'
  BY <1>1, <1>2, <1>4, QuietIsPlayer DEF VoiceIInv, VoiceShapes
<1>7. VoiceOwned'
  BY <1>1, <1>2, <1>3, <1>5 DEF VoiceIInv, VoiceOwned, Switching
<1>8. TurnProtected'
  BY <1>1, <1>2, <1>3, <1>5
     DEF VoiceIInv, TurnProtected, TypedTurn, Answering, TurnStages, SpeechStages
<1>9. QED
  BY <1>6, <1>7, <1>8 DEF VoiceIInv

LEMMA DisconnectIInv == ASSUME VoiceIInv, Disconnect PROVE VoiceIInv'
<1>1. /\ StopSpeaking(SpeechStages)
      /\ UNCHANGED <<profiles, edit, stopping, held, astray, mishandled>>
  BY DEF Disconnect
<1>2. desk' \in Desks /\ desk'.switching = desk.switching /\ desk'.character = desk.character
  BY VoiceConstants DEF Disconnect, VoiceIInv, VoiceShapes, Desks
<1>3. VoiceShapes'
  BY <1>1, <1>2, StoppedSpeaking DEF VoiceIInv, VoiceShapes
<1>4. VoiceOwned'
  BY <1>1, <1>2, StoppedSpeaking DEF VoiceIInv, VoiceOwned, Switching
<1>5. TurnProtected'
  BY <1>1, <1>2, StoppedSpeaking
     DEF VoiceIInv, TurnProtected, TypedTurn, Answering, TurnStages, SpeechStages, Replies
<1>6. QED
  BY <1>3, <1>4, <1>5 DEF VoiceIInv

LEMMA VoiceRestIInv == ASSUME VoiceIInv, UNCHANGED voiceVars PROVE VoiceIInv'
  BY DEF voiceVars, VoiceIInv, VoiceShapes, VoiceOwned, TurnProtected, TypedTurn, Answering, Switching

LEMMA VoiceNextIInv == VoiceIInv /\ [VoiceNext]_voiceVars => VoiceIInv'
<1> SUFFICES ASSUME VoiceIInv, [VoiceNext]_voiceVars PROVE VoiceIInv'
  OBVIOUS
<1>1. CASE \E action \in {"prepare", "preview", "save"} : RequestEdit(action)
  BY <1>1, RequestEditIInv
<1>2. CASE EditStep
  BY <1>2, BeginJobIInv, DraftVoiceIInv, EditFailsIInv, DispatchPreviewIInv, OpenPreviewIInv,
     SaveVoiceIInv, SaveGoesAstrayIInv, EditWithdrawnIInv, ConcludeEditIInv DEF EditStep
<1>3. CASE AnnouncePreview \/ AnnounceEnds \/ PlayEnds
  BY <1>3, PlayerIInv
<1>4. CASE RetirePreview \/ StopRetired \/ StopTts
  BY <1>4, RetirePreviewIInv, StopRetiredIInv, StopTtsIInv
<1>5. CASE SubmitTyped \/ InputClaims \/ CheckInClaims \/ ReplyStep
  BY <1>5, SubmitTypedIInv, InputClaimsIInv, CheckInClaimsIInv, ReplyThinksIInv, OpenReplyIInv,
     AppendReplyIInv DEF ReplyStep
<1>6. CASE StartVoiceSwitch \/ SwitchStep \/ Disconnect \/ Reconnect
  BY <1>6, StartVoiceSwitchIInv, PrepareVoiceSwitchIInv, DeskIInv, BindVoiceIInv, DisconnectIInv
     DEF SwitchStep
<1>7. CASE UNCHANGED voiceVars
  BY <1>7, VoiceRestIInv
<1>8. QED
  BY <1>1, <1>2, <1>3, <1>4, <1>5, <1>6, <1>7 DEF VoiceNext

\* The strengthened invariant of the voice settings holds of every behaviour.
THEOREM VoiceInductive == VoiceSpec => []VoiceIInv
<1>1. VoiceIInv /\ [VoiceNext]_voiceVars => VoiceIInv'
  BY VoiceNextIInv
<1>2. QED
  BY <1>1, VoiceInitIInv, PTL DEF VoiceSpec

\* What the strengthened invariant says of the voice, the player and the types.
LEMMA VoiceImplies == VoiceIInv => VoiceIsOwned /\ TypedReplyKept /\ VoiceTypeOK
<1> SUFFICES ASSUME VoiceIInv PROVE VoiceIsOwned /\ TypedReplyKept /\ VoiceTypeOK
  OBVIOUS
<1>1. VoiceIsOwned
  BY DEF VoiceIInv, VoiceOwned, VoiceIsOwned
<1>2. TypedReplyKept
  BY DEF VoiceIInv, TurnProtected, TypedReplyKept
<1>3. VoiceTypeOK
  <2>1. JobNumbers = Jobs \cup {NoJob} /\ JobNumbers = Jobs \cup {0}
    BY VoiceConstants DEF JobNumbers, Jobs, NoJob
  <2>2. QED
    BY <2>1 DEF VoiceIInv, VoiceShapes, Desks, Voices, VoiceJobs, Players, Keepers, VoiceTypeOK
<1>4. QED
  BY <1>1, <1>2, <1>3

\* The voice in memory is the saved one of the character it belongs to, but for a
\* save that failed after its rename; and only a job that prepares shows itself so.
THEOREM VoiceStaysOwned == VoiceSpec => []VoiceIsOwned
  BY VoiceImplies, VoiceInductive, PTL

\* However previews begin, are stopped and end late, the reply to a typed message
\* keeps the player until it is complete, or is stopped.
THEOREM TypedReplyStays == VoiceSpec => []TypedReplyKept
  BY VoiceImplies, VoiceInductive, PTL

-----------------------------------------------------------------------------
(* The commands on the scene.                                              *)

Instants   == 0..MaxStatements
Revisions  == Seq(Instants)
Relations  == [from : Instants, nth : 1..2]
Clicked    == [kind : {"interact", "clear"}, revision : Revisions, place : Nat, seen : Relations]
Applied    == [state : {"applied"}, cleared : Relations, left : Revisions]
Records    == [kind : {"event", "reaction", "turn"}, command : Commands \cup {NoOne},
               revision : Revisions]
DeliveryPlaces == {"none", "claimed", "queued", "recording", "offered", "reacting",
                   "leaving", "done"}
Delivered  == [at : DeliveryPlaces, command : Commands \cup {NoOne}, duplicate : BOOLEAN,
               answer : {"none", "applied", "committed", "pending", "refused"}]

Stories    == [memory : Seq(Records), archive : Seq(Records), blocked : BOOLEAN]
Floors     == [active : Speakers \cup {NoOne}, lock : Speakers \cup {NoOne},
               interaction : Deliveries \cup {NoOne}]

SceneShapes ==
    /\ scene \in Seq(Relations)
    /\ request \in [Commands -> {NoRequest} \cup Clicked]
    /\ control \in [Commands -> {NoControl} \cup Applied]
    /\ story \in Stories
    /\ delivery \in [Deliveries -> Delivered]
    /\ typed \in [at : {"idle", "claimed", "thinking"}, count : Instants]
    /\ floor \in Floors
    /\ overruled \subseteq Speakers /\ setbacks \in 0..MaxSetbacks

\* Commands and deliveries are numbered in the order they came.
CommandsNumbered ==
    /\ \E n \in 0..MaxCommands : \A c \in Commands : request[c] # NoRequest <=> c <= n
    /\ \E n \in 0..MaxDeliveries : \A d \in Deliveries : delivery[d].at # "none" <=> d <= n
    /\ \A d \in Deliveries : delivery[d].at = "none" => delivery[d] = NotDelivered

\* Newest first; the turn that may still add relations has a later instant than
\* any in the scene, and than any a snapshot has seen.
Past(at)  == at <= typed.count /\ (typed.at # "idle" => at < typed.count)
NewestFirst ==
    /\ \A i \in DOMAIN scene : Past(scene[i].from)
    /\ \A i \in DOMAIN scene : i > 1 => scene[i - 1].from >= scene[i].from

\* The snapshot of a click is still the older part of the scene, below what came
\* since; or that part has become shorter, for good.
Surplus(s, r) == Len(s) - Len(r.revision)
Intact(s, r)  ==
    /\ Len(s) >= Len(r.revision)
    /\ \A i \in 1..Len(r.revision) : s[Surplus(s, r) + i].from = r.revision[i]
    /\ s[Surplus(s, r) + r.place] = r.seen
    /\ \A i \in 1..Surplus(s, r) : s[i].from > r.revision[1]
Broken(s, r)  ==
    Len(s) >= Len(r.revision) => s[Surplus(s, r) + 1].from > r.revision[1]
ClicksHold ==
    \A c \in Commands : request[c] # NoRequest =>
        /\ request[c].place \in 1..Len(request[c].revision) /\ Past(request[c].revision[1])
        /\ Intact(scene, request[c]) \/ Broken(scene, request[c])

\* What was applied is what was clicked on.
ClearsAsClicked ==
    \A c \in Commands : Done(c) => /\ request[c] # NoRequest
                                   /\ control[c].cleared = request[c].seen

\* The saved conversation.
WellTold(records, done) ==
    /\ \A i, j \in DOMAIN records : /\ records[i].kind = "event" /\ records[j].kind = "event"
                                    /\ records[i].command = records[j].command
                                    => i = j
    /\ \A i \in DOMAIN records : records[i].kind = "event" => records[i].command \in done
    /\ \A i \in DOMAIN records : records[i].kind = "reaction" =>
            /\ i > 1 /\ records[i - 1].kind = "event"
            /\ records[i - 1].command = records[i].command
            /\ records[i - 1].revision = records[i].revision
DoneCommands == {c \in Commands : Done(c)}
Told == WellTold(story.archive, DoneCommands) /\ (~story.blocked => story.memory = story.archive)

\* One gesture at a time is between its locks; nothing was saved since the event of
\* the one that may still react.
Serving(d) ==
    /\ delivery[d].at \notin {"none", "done"} =>
          delivery[d].command \in Commands /\ request[delivery[d].command] # NoRequest
    /\ delivery[d].at \in {"recording", "offered", "reacting"} => Done(delivery[d].command)
    /\ delivery[d].at \in {"queued", "recording", "offered", "reacting"} => floor.interaction = d
    /\ delivery[d].at \in {"offered", "reacting"} /\ floor.active = d /\ ~story.blocked =>
          /\ story.archive # <<>>
          /\ story.archive[Len(story.archive)] = EventOf(delivery[d].command)
    /\ delivery[d].answer \in {"applied", "committed", "pending"} =>
          delivery[d].command \in Commands /\ Done(delivery[d].command)
    /\ delivery[d].answer = "committed" => EventsOf(delivery[d].command, story.archive) # {}
Served == \A d \in Deliveries : Serving(d)

SceneIInv == /\ SceneShapes /\ CommandsNumbered /\ NewestFirst /\ ClicksHold
             /\ ClearsAsClicked /\ Told /\ Served


LEMMA SceneConstants ==
    MaxCommands \in Nat /\ MaxDeliveries \in Nat /\ MaxStatements \in Nat /\ MaxSetbacks \in Nat
<1>1. {MaxCommands, MaxDeliveries, MaxStatements, MaxSetbacks} \subseteq Nat
  BY SceneControlAssumption, Zenon DEF SceneControlAssumption
<1>2. QED
  BY <1>1

\* Removing one entry closes the gap.
LEMMA Removed ==
    ASSUME NEW S, NEW s \in Seq(S), NEW p \in DOMAIN s
    PROVE  /\ RemoveAt(s, p) \in Seq(S) /\ Len(RemoveAt(s, p)) = Len(s) - 1
           /\ \A i \in 1..Len(s) - 1 : RemoveAt(s, p)[i] = IF i < p THEN s[i] ELSE s[i + 1]
<1>1. p \in 1..Len(s) /\ Len(s) \in Nat /\ \A i \in 1..Len(s) : s[i] \in S
  BY LenProperties
<1> DEFINE front == SubSeq(s, 1, p - 1)
           back  == SubSeq(s, p + 1, Len(s))
<1>2. /\ front \in Seq(S) /\ Len(front) = p - 1 /\ \A i \in 1..p - 1 : front[i] = s[i]
  <2>1. \A i \in 1..p - 1 : s[i] \in S
    BY <1>1
  <2>2. /\ front \in Seq(S) /\ Len(front) = IF 1 <= p - 1 THEN p - 1 - 1 + 1 ELSE 0
        /\ \A i \in 1..p - 1 - 1 + 1 : front[i] = s[1 + i - 1]
    BY <1>1, <2>1, SubSeqProperties
  <2>3. QED
    BY <1>1, <2>2
<1>3. /\ back \in Seq(S) /\ Len(back) = Len(s) - p
      /\ \A i \in 1..Len(s) - p : back[i] = s[p + i]
  <2>1. \A i \in p + 1..Len(s) : s[i] \in S
    BY <1>1
  <2>2. /\ back \in Seq(S) /\ Len(back) = IF p + 1 <= Len(s) THEN Len(s) - (p + 1) + 1 ELSE 0
        /\ \A i \in 1..Len(s) - (p + 1) + 1 : back[i] = s[(p + 1) + i - 1]
    BY <1>1, <2>1, SubSeqProperties
  <2>3. QED
    BY <1>1, <2>2
<1> HIDE DEF front, back
<1>4. /\ front \o back \in Seq(S) /\ Len(front \o back) = Len(front) + Len(back)
      /\ \A i \in 1..Len(front) + Len(back) :
            (front \o back)[i] = IF i <= Len(front) THEN front[i] ELSE back[i - Len(front)]
  BY <1>2, <1>3, ConcatProperties
<1>5. \A i \in 1..Len(s) - 1 : (front \o back)[i] = IF i < p THEN s[i] ELSE s[i + 1]
  <2>1. TAKE i \in 1..Len(s) - 1
  <2>2. i \in 1..Len(front) + Len(back)
    BY <1>1, <1>2, <1>3
  <2>3. CASE i < p
    BY <1>1, <1>2, <1>4, <2>2, <2>3
  <2>4. CASE ~(i < p)
    <3>1. /\ i - Len(front) \in 1..Len(s) - p /\ ~(i <= Len(front))
          /\ p + (i - Len(front)) = i + 1
      BY <1>1, <1>2, <2>4
    <3>2. (front \o back)[i] = back[i - Len(front)]
      BY <1>4, <2>2, <3>1
    <3>3. back[i - Len(front)] = s[p + (i - Len(front))]
      BY <1>3, <3>1
    <3>4. QED
      BY <2>4, <3>1, <3>2, <3>3
  <2>5. QED
    BY <2>3, <2>4
<1>6. front \o back = RemoveAt(s, p)
  BY DEF RemoveAt, front, back
<1>7. Len(front) + Len(back) = Len(s) - 1
  BY <1>1, <1>2, <1>3
<1>8. QED
  BY <1>4, <1>5, <1>6, <1>7

\* A statement pushes the scene down by two.
LEMMA PushedDown ==
    ASSUME NEW s \in Seq(Relations), NEW at \in Instants
    PROVE  /\ Changed(s, at) \in Seq(Relations) /\ Len(Changed(s, at)) = Len(s) + 2
           /\ Changed(s, at)[1].from = at /\ Changed(s, at)[2].from = at
           /\ \A i \in 1..Len(s) : Changed(s, at)[i + 2] = s[i]
<1> DEFINE top == <<[from |-> at, nth |-> 1], [from |-> at, nth |-> 2]>>
<1>1. /\ top \in Seq(Relations) /\ Len(top) = 2 /\ top[1].from = at /\ top[2].from = at
  BY DEF Relations
<1>2. Len(s) \in Nat
  BY LenProperties
<1> HIDE DEF top
<1>3. /\ top \o s \in Seq(Relations) /\ Len(top \o s) = Len(top) + Len(s)
      /\ \A i \in 1..Len(top) + Len(s) :
            (top \o s)[i] = IF i <= Len(top) THEN top[i] ELSE s[i - Len(top)]
  BY <1>1, ConcatProperties
<1>4. (top \o s)[1] = top[1] /\ (top \o s)[2] = top[2]
  BY <1>1, <1>2, <1>3
<1>5. \A i \in 1..Len(s) : (top \o s)[i + 2] = s[i]
  BY <1>1, <1>2, <1>3
<1>6. QED
  BY <1>1, <1>2, <1>3, <1>4, <1>5 DEF Changed, top

LEMMA RevisionOfScene ==
    ASSUME NEW s \in Seq(Relations)
    PROVE  /\ Revision(s) \in Revisions /\ Len(Revision(s)) = Len(s)
           /\ \A i \in 1..Len(s) : Revision(s)[i] = s[i].from
<1>1. Len(s) \in Nat /\ DOMAIN s = 1..Len(s) /\ \A i \in 1..Len(s) : s[i] \in Relations
  BY LenProperties
<1>2. Revision(s) = [i \in 1..Len(s) |-> s[i].from]
  BY <1>1 DEF Revision
<1>3. Revision(s) \in [1..Len(s) -> Instants]
  BY <1>1, <1>2 DEF Relations
<1>4. Revision(s) \in Revisions
  BY <1>1, <1>3, SeqDef DEF Revisions
<1>5. Len(Revision(s)) = Len(s)
  BY <1>1, <1>2, <1>4, LenProperties DEF Revisions
<1>6. QED
  BY <1>2, <1>4, <1>5

\* An entry appended is the last, and leaves the others where they are.
LEMMA AppendedEntry ==
    ASSUME NEW S, NEW s \in Seq(S), NEW x \in S
    PROVE  /\ Append(s, x) \in Seq(S) /\ Append(s, x) # <<>>
           /\ DOMAIN Append(s, x) = 1..Len(s) + 1 /\ Len(Append(s, x)) = Len(s) + 1
           /\ \A i \in DOMAIN s : Append(s, x)[i] = s[i]
           /\ Append(s, x)[Len(s) + 1] = x
           /\ DOMAIN s = 1..Len(s) /\ Len(s) \in Nat
  BY AppendProperties, LenProperties


LEMMA SceneEntries ==
    ASSUME NEW s \in Seq(Relations)
    PROVE  /\ Len(s) \in Nat /\ DOMAIN s = 1..Len(s)
           /\ \A i \in 1..Len(s) : s[i] \in Relations /\ s[i].from \in Nat
<1>1. \A x \in Relations : x.from \in Nat
  BY SceneConstants DEF Relations, Instants
<1>2. Len(s) \in Nat /\ DOMAIN s = 1..Len(s) /\ \A i \in 1..Len(s) : s[i] \in Relations
  BY LenProperties
<1>3. QED
  BY <1>1, <1>2

\* Whatever is cleared, a snapshot stays whole or stays broken: in a scene that is
\* newest first, what is gone from its older part does not come back.
LEMMA SnapshotAfterRemoval ==
    ASSUME NEW s \in Seq(Relations), NEW p \in DOMAIN s, NEW r \in Clicked,
           r.place \in 1..Len(r.revision), Intact(s, r) \/ Broken(s, r),
           \A i \in DOMAIN s : i > 1 => s[i - 1].from >= s[i].from
    PROVE  Intact(RemoveAt(s, p), r) \/ Broken(RemoveAt(s, p), r)
<1> DEFINE t == RemoveAt(s, p)
           n == Len(s)
           l == Len(r.revision)
<1>1. /\ n \in Nat /\ DOMAIN s = 1..n /\ \A i \in 1..n : s[i].from \in Nat
  BY SceneEntries
<1>2. /\ l \in Nat \ {0} /\ r.revision[1] \in Nat /\ r.place \in 1..l
  BY LenProperties, SceneConstants DEF Clicked, Revisions, Instants
<1>3. /\ t \in Seq(Relations) /\ Len(t) = n - 1
      /\ \A i \in 1..n - 1 : t[i] = IF i < p THEN s[i] ELSE s[i + 1]
  BY Removed
<1>4. p \in 1..n
  BY <1>1
<1> HIDE DEF t, n, l
<1>5. CASE Intact(s, r) /\ p <= n - l
  <2>1. /\ n >= l /\ \A i \in 1..l : s[n - l + i].from = r.revision[i]
        /\ s[n - l + r.place] = r.seen /\ \A i \in 1..n - l : s[i].from > r.revision[1]
    BY <1>5 DEF Intact, Surplus, n, l
  <2>2. n - 1 >= l
    BY <1>1, <1>2, <1>4, <1>5
  <2>3. \A i \in 1..l : t[n - 1 - l + i] = s[n - l + i]
    <3>1. TAKE i \in 1..l
    <3>2. n - 1 - l + i \in 1..n - 1 /\ ~(n - 1 - l + i < p) /\ n - 1 - l + i + 1 = n - l + i
      BY <1>1, <1>2, <1>4, <1>5, <2>2
    <3>3. QED
      BY <1>3, <3>2
  <2>4. \A i \in 1..n - 1 - l : t[i].from > r.revision[1]
    <3>1. TAKE i \in 1..n - 1 - l
    <3>2. i \in 1..n - 1 /\ i \in 1..n - l /\ i + 1 \in 1..n - l
      BY <1>1, <1>2, <2>2
    <3>3. QED
      BY <1>3, <2>1, <3>2
  <2>5. Surplus(t, r) = n - 1 - l
    BY <1>3 DEF Surplus, l
  <2>6. /\ \A i \in 1..l : t[Surplus(t, r) + i].from = r.revision[i]
        /\ t[Surplus(t, r) + r.place] = r.seen
    BY <1>2, <2>1, <2>3, <2>5
  <2>7. \A i \in 1..Surplus(t, r) : t[i].from > r.revision[1]
    BY <2>4, <2>5
  <2>8. Len(t) >= Len(r.revision)
    BY <1>3, <2>2 DEF l
  <2>9. QED
    BY <2>6, <2>7, <2>8 DEF Intact, l, t
<1>6. CASE Intact(s, r) /\ ~(p <= n - l)
  <2>1. n >= l /\ \A i \in 1..n - l : s[i].from > r.revision[1]
    BY <1>6 DEF Intact, Surplus, n, l
  <2>2. CASE n - 1 >= l
    <3>1. n - l \in 1..n - 1 /\ n - l < p /\ n - l \in 1..n - l /\ n - 1 - l + 1 = n - l
      BY <1>1, <1>2, <1>4, <1>6, <2>2
    <3>2. t[n - 1 - l + 1].from > r.revision[1]
      BY <1>3, <2>1, <3>1
    <3>3. QED
      BY <1>3, <3>2 DEF Broken, Surplus, l, t
  <2>3. CASE ~(n - 1 >= l)
    BY <1>3, <2>3 DEF Broken, l, t
  <2>4. QED
    BY <2>2, <2>3
<1>7. CASE Broken(s, r)
  <2>1. CASE n - 1 >= l
    <3>1. /\ n >= l /\ n - l \in 1..n - 1 /\ n - l + 1 \in 1..n /\ n - l + 1 > 1
          /\ (n - l + 1) - 1 = n - l
          /\ n - 1 - l + 1 = n - l /\ n - l \in 1..n
      <4>1. n \in Nat /\ l \in Nat \ {0} /\ n - 1 >= l
        BY <1>1, <1>2, <2>1
      <4>2. n >= l /\ n - l \in 1..n - 1 /\ n - l \in 1..n
        BY <4>1
      <4>3. n - l + 1 \in 1..n /\ n - l + 1 > 1
        BY <4>1
      <4>4. (n - l + 1) - 1 = n - l /\ n - 1 - l + 1 = n - l
        BY <4>1
      <4>5. QED
        BY <4>2, <4>3, <4>4
    <3>2. s[n - l + 1].from > r.revision[1]
      BY <1>7, <3>1 DEF Broken, Surplus, n, l
    <3>3. s[n - l].from >= s[n - l + 1].from
      BY <1>1, <3>1
    <3>4. s[n - l].from > r.revision[1]
      BY <1>1, <1>2, <3>1, <3>2, <3>3
    <3>5. t[n - 1 - l + 1].from > r.revision[1]
      BY <1>3, <3>1, <3>2, <3>4
    <3>6. QED
      BY <1>3, <3>5 DEF Broken, Surplus, l, t
  <2>2. CASE ~(n - 1 >= l)
    BY <1>3, <2>2 DEF Broken, l, t
  <2>3. QED
    BY <2>1, <2>2
<1>8. QED
  BY <1>5, <1>6, <1>7 DEF t

\* What a statement adds is newer than any snapshot before it.
LEMMA SnapshotAfterStatement ==
    ASSUME NEW s \in Seq(Relations), NEW at \in Instants, NEW r \in Clicked,
           r.place \in 1..Len(r.revision), Intact(s, r) \/ Broken(s, r),
           r.revision[1] < at
    PROVE  Intact(Changed(s, at), r) \/ Broken(Changed(s, at), r)
<1> DEFINE t == Changed(s, at)
           n == Len(s)
           l == Len(r.revision)
<1>1. n \in Nat /\ at \in Nat
  BY LenProperties, SceneConstants DEF Instants
<1>2. /\ l \in Nat \ {0} /\ r.revision[1] \in Nat /\ r.place \in 1..l
  BY LenProperties, SceneConstants DEF Clicked, Revisions, Instants
<1>3. /\ t \in Seq(Relations) /\ Len(t) = n + 2 /\ t[1].from = at /\ t[2].from = at
      /\ \A i \in 1..n : t[i + 2] = s[i]
  BY PushedDown
<1> HIDE DEF t, n, l
<1>4. CASE Intact(s, r)
  <2>1. /\ n >= l /\ \A i \in 1..l : s[n - l + i].from = r.revision[i]
        /\ s[n - l + r.place] = r.seen /\ \A i \in 1..n - l : s[i].from > r.revision[1]
    BY <1>4 DEF Intact, Surplus, n, l
  <2>2. n + 2 >= l
    BY <1>1, <1>2, <2>1
  <2>3. \A i \in 1..l : t[n + 2 - l + i] = s[n - l + i]
    <3>1. TAKE i \in 1..l
    <3>2. n - l + i \in 1..n /\ n + 2 - l + i = n - l + i + 2
      BY <1>1, <1>2, <2>1
    <3>3. QED
      BY <1>3, <3>2
  <2>4. \A i \in 1..n + 2 - l : t[i].from > r.revision[1]
    <3>1. TAKE i \in 1..n + 2 - l
    <3>2. CASE i \in {1, 2}
      BY <1>3, <3>2, <1>1, <1>2
    <3>3. CASE i > 2
      <4>1. i - 2 \in 1..n - l /\ i - 2 \in 1..n /\ i - 2 + 2 = i
        BY <1>1, <1>2, <2>1, <3>3
      <4>2. QED
        BY <1>3, <2>1, <4>1
    <3>4. QED
      BY <3>2, <3>3
  <2>5. Surplus(t, r) = n + 2 - l
    BY <1>1, <1>2, <1>3 DEF Surplus, l
  <2>6. Intact(t, r)
    BY <1>2, <1>3, <2>1, <2>2, <2>3, <2>4, <2>5 DEF Intact, l
  <2>7. QED
    BY <2>6 DEF t
<1>5. CASE Broken(s, r)
  <2>1. CASE n >= l
    <3>1. n - l + 1 \in 1..n /\ n + 2 - l + 1 = n - l + 1 + 2
      BY <1>1, <1>2, <2>1
    <3>2. s[n - l + 1].from > r.revision[1]
      BY <1>5, <2>1 DEF Broken, Surplus, n, l
    <3>3. t[n + 2 - l + 1].from > r.revision[1]
      BY <1>3, <3>1, <3>2
    <3>4. Surplus(t, r) = n + 2 - l
      BY <1>1, <1>2, <1>3 DEF Surplus, l
    <3>5. QED
      BY <3>3, <3>4 DEF Broken, t
  <2>2. CASE ~(n >= l) /\ n + 2 >= l
    <3>1. n + 2 - l + 1 \in {1, 2}
      BY <1>1, <1>2, <2>2
    <3>2. t[n + 2 - l + 1].from > r.revision[1]
      BY <1>1, <1>2, <1>3, <3>1
    <3>3. Surplus(t, r) = n + 2 - l
      BY <1>1, <1>2, <1>3 DEF Surplus, l
    <3>4. QED
      BY <3>2, <3>3 DEF Broken, t
  <2>3. CASE ~(n + 2 >= l)
    BY <1>3, <2>3 DEF Broken, l, t
  <2>4. QED
    BY <2>1, <2>2, <2>3
<1>6. QED
  BY <1>4, <1>5 DEF t

\* A snapshot just taken is whole; and one whose revision is the scene's is, so that
\* what stands at its place is what was clicked on.
LEMMA SnapshotTaken ==
    ASSUME NEW s \in Seq(Relations), NEW r \in Clicked, r.place \in DOMAIN s,
           r.revision = Revision(s), r.seen = s[r.place]
    PROVE  r.place \in 1..Len(r.revision) /\ Intact(s, r)
<1>1. Len(s) \in Nat /\ DOMAIN s = 1..Len(s)
  BY LenProperties
<1>2. Len(r.revision) = Len(s) /\ \A i \in 1..Len(s) : r.revision[i] = s[i].from
  BY RevisionOfScene
<1>3. Surplus(s, r) = 0
  BY <1>1, <1>2 DEF Surplus
<1>4. \A i \in 1..Len(s) : 0 + i = i
  OBVIOUS
<1>5. QED
  BY <1>1, <1>2, <1>3, <1>4 DEF Intact

LEMMA SnapshotMatches ==
    ASSUME NEW s \in Seq(Relations), NEW r \in Clicked, r.place \in 1..Len(r.revision),
           Intact(s, r) \/ Broken(s, r), r.revision = Revision(s)
    PROVE  r.place \in DOMAIN s /\ s[r.place] = r.seen
<1>1. Len(s) \in Nat /\ DOMAIN s = 1..Len(s) /\ \A i \in 1..Len(s) : s[i].from \in Nat
  BY SceneEntries
<1>2. Len(r.revision) = Len(s) /\ \A i \in 1..Len(s) : r.revision[i] = s[i].from
  BY RevisionOfScene
<1>3. Surplus(s, r) = 0 /\ 1 \in 1..Len(s) /\ 0 + 1 = 1 /\ 0 + r.place = r.place
  BY <1>1, <1>2 DEF Surplus
<1>4. ~Broken(s, r)
  BY <1>1, <1>2, <1>3 DEF Broken
<1>5. QED
  BY <1>1, <1>2, <1>3, <1>4 DEF Intact


\* Appending to a well told conversation.
LEMMA TellMore ==
    ASSUME NEW records \in Seq(Records), NEW done, WellTold(records, done),
           NEW x \in Records,
           \/ /\ x.kind = "event" /\ x.command \in done
              /\ \A i \in DOMAIN records :
                    ~(records[i].kind = "event" /\ records[i].command = x.command)
           \/ /\ x.kind = "reaction" /\ records # <<>>
              /\ records[Len(records)].kind = "event"
              /\ records[Len(records)].command = x.command
              /\ records[Len(records)].revision = x.revision
           \/ x.kind = "turn"
    PROVE  WellTold(Append(records, x), done)
<1> DEFINE n    == Len(records)
           more == Append(records, x)
<1>1. /\ n \in Nat /\ DOMAIN records = 1..n /\ DOMAIN more = 1..n + 1
      /\ \A i \in 1..n : more[i] = records[i]
      /\ more[n + 1] = x
  BY AppendedEntry
<1>2. records # <<>> => n # 0
  BY EmptySeq
<1> HIDE DEF n, more
<1>3. \A i \in DOMAIN more : \/ i \in 1..n /\ more[i] = records[i]
                             \/ i = n + 1 /\ more[i] = x
  BY <1>1
<1>4. \A i, j \in DOMAIN more : more[i].kind = "event" /\ more[j].kind = "event"
                                /\ more[i].command = more[j].command => i = j
  BY <1>1, <1>3 DEF WellTold
<1>5. \A i \in DOMAIN more : more[i].kind = "event" => more[i].command \in done
  BY <1>1, <1>3 DEF WellTold
<1>6. \A i \in DOMAIN more : more[i].kind = "reaction" =>
            /\ i > 1 /\ more[i - 1].kind = "event"
            /\ more[i - 1].command = more[i].command /\ more[i - 1].revision = more[i].revision
  <2> SUFFICES ASSUME NEW i \in DOMAIN more, more[i].kind = "reaction"
               PROVE  /\ i > 1 /\ more[i - 1].kind = "event"
                      /\ more[i - 1].command = more[i].command
                      /\ more[i - 1].revision = more[i].revision
    OBVIOUS
  <2>1. CASE i \in 1..n /\ more[i] = records[i]
    <3>1. i > 1 /\ records[i - 1].kind = "event" /\ records[i - 1].command = records[i].command
          /\ records[i - 1].revision = records[i].revision
      BY <1>1, <2>1 DEF WellTold
    <3>2. i - 1 \in 1..n
      BY <1>1, <2>1, <3>1
    <3>3. QED
      BY <1>1, <2>1, <3>1, <3>2
  <2>2. CASE i = n + 1 /\ more[i] = x
    <3>1. n \in 1..n /\ n + 1 > 1 /\ n + 1 - 1 = n
      BY <1>1, <1>2, <2>2
    <3>2. more[n] = records[n] /\ records[n].kind = "event" /\ records[n].command = x.command
          /\ records[n].revision = x.revision
      BY <1>1, <2>2, <3>1 DEF n
    <3>3. QED
      BY <2>2, <3>1, <3>2
  <2>3. QED
    BY <1>3, <2>1, <2>2
<1>7. QED
  BY <1>4, <1>5, <1>6 DEF WellTold, more

LEMMA ToldOfMore ==
    ASSUME NEW records, NEW done, NEW more, WellTold(records, done), done \subseteq more
    PROVE  WellTold(records, more)
  BY DEF WellTold

\* What the numbering of commands and deliveries counts.
LEMMA CountedUpTo ==
    ASSUME NEW N \in Nat, NEW n \in 0..N, NEW S, S = {b \in 1..N : b <= n}
    PROVE  Cardinality(S) = n
<1>1. S = 1..n
  OBVIOUS
<1>2. Cardinality(1..n) = IF 1 > n THEN 0 ELSE n - 1 + 1
  BY FS_Interval
<1>3. (IF 1 > n THEN 0 ELSE n - 1 + 1) = n
  OBVIOUS
<1>4. Cardinality(1..n) = n
  BY <1>2, <1>3
<1>5. QED
  BY <1>1, <1>4

\* A command that is delivered was clicked, now or before; its place holds.
LEMMA Arrival ==
    ASSUME SceneIInv, NEW d \in Deliveries, NEW c \in Commands,
           NEW kind \in {"interact", "clear"}, Arrives(d, c, kind)
    PROVE  /\ delivery[d] = NotDelivered
           /\ \E n \in 0..MaxDeliveries : \A e \in Deliveries :
                 delivery[e].at # "none" \/ e = d <=> e <= n
           /\ request' \in [Commands -> {NoRequest} \cup Clicked] /\ request'[c] # NoRequest
           /\ \A b \in Commands : request[b] # NoRequest => request'[b] = request[b]
           /\ \E n \in 0..MaxCommands : \A b \in Commands : request'[b] # NoRequest <=> b <= n
           /\ \A b \in Commands : request'[b] # NoRequest =>
                 /\ request'[b].place \in 1..Len(request'[b].revision)
                 /\ Past(request'[b].revision[1])
                 /\ Intact(scene, request'[b]) \/ Broken(scene, request'[b])
<1>1. /\ request \in [Commands -> {NoRequest} \cup Clicked] /\ scene \in Seq(Relations)
      /\ delivery \in [Deliveries -> Delivered]
  BY DEF SceneIInv, SceneShapes
<1>2. \A b \in Commands : request[b] # NoRequest =>
                 /\ request[b].place \in 1..Len(request[b].revision)
                 /\ Past(request[b].revision[1])
                 /\ Intact(scene, request[b]) \/ Broken(scene, request[b])
  BY DEF SceneIInv, ClicksHold
<1>3. /\ delivery[d] = NotDelivered
      /\ \E n \in 0..MaxDeliveries : \A e \in Deliveries :
            delivery[e].at # "none" \/ e = d <=> e <= n
  <2>1. PICK n \in 0..MaxDeliveries : \A e \in Deliveries : delivery[e].at # "none" <=> e <= n
    BY DEF SceneIInv, CommandsNumbered
  <2>2. {e \in Deliveries : delivery[e].at # "none"} = {e \in 1..MaxDeliveries : e <= n}
    BY <2>1 DEF Deliveries
  <2>3. Cardinality({e \in Deliveries : delivery[e].at # "none"}) = n
    BY <2>2, SceneConstants, CountedUpTo
  <2>4. d = n + 1 /\ n \in Nat /\ n + 1 \in 0..MaxDeliveries
    BY <2>3, SceneConstants DEF Arrives, Deliveries
  <2>5. delivery[d].at = "none"
    BY <2>1, <2>4
  <2>6. \A e \in Deliveries : delivery[e].at # "none" \/ e = d <=> e <= n + 1
    BY <2>1, <2>4, SceneConstants DEF Deliveries
  <2>7. QED
    BY <2>4, <2>5, <2>6 DEF SceneIInv, CommandsNumbered
<1>4. CASE SendsAgain(c, kind)
  <2>1. request' = request /\ request[c].kind # "none"
    BY <1>4 DEF SendsAgain
  <2>2. request[c] # NoRequest
    BY <2>1 DEF NoRequest
  <2>3. QED
    BY <1>1, <1>2, <1>3, <2>1, <2>2 DEF SceneIInv, CommandsNumbered
<1>5. CASE Clicks(c, kind)
  <2>1. PICK n \in 0..MaxCommands : \A b \in Commands : request[b] # NoRequest <=> b <= n
    BY DEF SceneIInv, CommandsNumbered
  <2>2. {b \in Commands : request[b] # NoRequest} = {b \in 1..MaxCommands : b <= n}
    BY <2>1 DEF Commands
  <2>3. Cardinality({b \in Commands : request[b] # NoRequest}) = n
    BY <2>2, SceneConstants, CountedUpTo
  <2>4. c = n + 1 /\ n \in Nat /\ n + 1 \in 0..MaxCommands
    BY <1>5, <2>3, SceneConstants DEF Clicks, Commands
  <2>5. PICK i \in DOMAIN scene :
          request' = [request EXCEPT ![c] =
              [kind |-> kind, revision |-> Revision(scene), place |-> i, seen |-> scene[i]]]
    BY <1>5 DEF Clicks
  <2> DEFINE r == [kind |-> kind, revision |-> Revision(scene), place |-> i, seen |-> scene[i]]
  <2>6. i \in 1..Len(scene) /\ i \in Nat /\ scene[i] \in Relations
    BY <1>1, SceneEntries
  <2>7. r \in Clicked /\ r # NoRequest
    <3>1. r \in Clicked
      BY <1>1, <2>6, RevisionOfScene DEF Clicked
    <3>2. r.kind # NoRequest.kind
      BY DEF NoRequest
    <3>3. QED
      BY <3>1, <3>2
  <2>8. r.place \in 1..Len(r.revision) /\ Intact(scene, r)
    BY <1>1, <2>5, <2>7, SnapshotTaken
  <2>9. Past(r.revision[1])
    <3>1. 1 \in DOMAIN scene /\ r.revision[1] = scene[1].from
      BY <1>1, <2>6, RevisionOfScene, SceneEntries
    <3>2. QED
      BY <3>1 DEF SceneIInv, NewestFirst
  <2> HIDE DEF r
  <2>10. request' = [request EXCEPT ![c] = r]
    BY <2>5 DEF r
  <2>11. /\ request' \in [Commands -> {NoRequest} \cup Clicked] /\ request'[c] = r
         /\ \A b \in Commands \ {c} : request'[b] = request[b]
    BY <1>1, <2>7, <2>10
  <2>12. request[c] = NoRequest
    BY <2>1, <2>4
  <2>13. \A b \in Commands : request'[b] # NoRequest <=> b <= n + 1
    BY <2>1, <2>4, <2>7, <2>11, SceneConstants DEF Commands
  <2>14. QED
    BY <1>2, <1>3, <2>4, <2>7, <2>8, <2>9, <2>11, <2>12, <2>13
<1>6. QED
  BY <1>4, <1>5 DEF Arrives


\* A delivery moves on, or is answered; the others stay where they are.
LEMMA DeliveryMoves ==
    ASSUME SceneIInv, NEW d \in Deliveries, NEW to \in DeliveryPlaces, Moves(d, to)
    PROVE  /\ delivery' \in [Deliveries -> Delivered] /\ delivery'[d].at = to
           /\ delivery'[d].command = delivery[d].command
           /\ delivery'[d].answer = delivery[d].answer
           /\ \A e \in Deliveries \ {d} : delivery'[e] = delivery[e]
<1>1. delivery[d] \in Delivered /\ delivery \in [Deliveries -> Delivered]
  BY DEF SceneIInv, SceneShapes
<1>2. PICK r : r = [delivery[d] EXCEPT !.at = to]
  OBVIOUS
<1>3. delivery' = [delivery EXCEPT ![d] = r]
  BY <1>2 DEF Moves
<1>4. r \in Delivered /\ r.at = to /\ r.command = delivery[d].command
      /\ r.answer = delivery[d].answer
  BY <1>1, <1>2 DEF Delivered
<1>5. QED
  BY <1>1, <1>3, <1>4

LEMMA DeliveryAnswers ==
    ASSUME SceneIInv, NEW d \in Deliveries,
           NEW answer \in {"applied", "committed", "pending", "refused"}, Answers(d, answer)
    PROVE  /\ delivery' \in [Deliveries -> Delivered] /\ delivery'[d].at = "leaving"
           /\ delivery'[d].command = delivery[d].command
           /\ delivery'[d].answer = answer
           /\ \A e \in Deliveries \ {d} : delivery'[e] = delivery[e]
<1>1. delivery[d] \in Delivered /\ delivery \in [Deliveries -> Delivered]
  BY DEF SceneIInv, SceneShapes
<1>2. PICK r : r = [delivery[d] EXCEPT !.at = "leaving", !.answer = answer]
  OBVIOUS
<1>3. delivery' = [delivery EXCEPT ![d] = r]
  BY <1>2 DEF Answers
<1>4. r \in Delivered /\ r.at = "leaving" /\ r.command = delivery[d].command
      /\ r.answer = answer
  BY <1>1, <1>2 DEF Delivered, DeliveryPlaces
<1>5. QED
  BY <1>1, <1>3, <1>4

LEMMA FloorTaken ==
    ASSUME NEW f \in Floors, NEW w \in Speakers \cup {NoOne}
    PROVE  /\ [f EXCEPT !.lock = w] \in Floors /\ [f EXCEPT !.active = w] \in Floors
           /\ [f EXCEPT !.lock = w].active = f.active
           /\ [f EXCEPT !.lock = w].interaction = f.interaction
           /\ [f EXCEPT !.active = w].active = w
           /\ [f EXCEPT !.active = w].interaction = f.interaction
  BY DEF Floors

\* Giving back the lock, or the claim, gives nobody else a claim.
LEMMA FloorGivenBack ==
    ASSUME NEW f \in Floors, NEW w
    PROVE  /\ Unlocked(f) \in Floors /\ Unlocked(f).active = f.active
           /\ Unlocked(f).interaction = f.interaction
           /\ Ended(f, w) \in Floors /\ Ended(f, w).active \in {f.active, NoOne}
           /\ Ended(f, w).active # w \/ w = NoOne
           /\ Ended(f, w).interaction = f.interaction
<1>1. NoOne \in Speakers \cup {NoOne}
  OBVIOUS
<1>2. PICK claim : claim = IF f.active = w THEN NoOne ELSE f.active
  OBVIOUS
<1>3. claim \in Speakers \cup {NoOne} /\ claim \in {f.active, NoOne} /\ (claim # w \/ w = NoOne)
  BY <1>2 DEF Floors
<1>4. Ended(f, w) = [f EXCEPT !.active = claim]
  BY <1>2 DEF Ended, Floors
<1>5. /\ Unlocked(f) \in Floors /\ Unlocked(f).active = f.active
      /\ Unlocked(f).interaction = f.interaction
  BY <1>1 DEF Unlocked, Floors
<1>6. /\ Ended(f, w) \in Floors /\ Ended(f, w).active = claim
      /\ Ended(f, w).interaction = f.interaction
  BY <1>3, <1>4 DEF Floors
<1>7. QED
  BY <1>3, <1>5, <1>6

\* What a delivery was promised stays so, whatever another does.
LEMMA ServingStays ==
    ASSUME SceneIInv, NEW e \in Deliveries, delivery'[e] = delivery[e],
           \A c \in Commands : Done(c) => control'[c] = control[c],
           \A c \in Commands : request[c] # NoRequest => request'[c] # NoRequest,
           floor.interaction = e => floor'.interaction = e,
           floor'.active = e => floor.active = e,
           \A i \in DOMAIN story.archive : /\ i \in DOMAIN story'.archive
                                           /\ story'.archive[i] = story.archive[i],
           \/ floor.interaction # e
           \/ story' = story
    PROVE  Serving(e)'
<1>1. Serving(e)
  BY DEF SceneIInv, Served
<1>2. \A c \in Commands : Done(c) => Done(c)' /\ EventOf(c)' = EventOf(c)
  BY DEF Done, EventOf, Entry
<1>3. EventsOf(delivery[e].command, story.archive) # {}
         => EventsOf(delivery'[e].command, story'.archive) # {}
  BY DEF EventsOf
<1>4. delivery[e].at \in {"offered", "reacting"} => story' = story
  BY <1>1 DEF Serving
<1>5. delivery[e].at \in {"recording", "offered", "reacting"} => delivery[e].command \in Commands
  BY <1>1 DEF Serving
<1>6. QED
  BY <1>1, <1>2, <1>3, <1>4, <1>5 DEF Serving

\* The conversation grows.
Grows(s) ==
    /\ s \in Stories /\ WellTold(s.archive, DoneCommands)
    /\ ~s.blocked => s.memory = s.archive
    /\ \A i \in DOMAIN story.archive : i \in DOMAIN s.archive /\ s.archive[i] = story.archive[i]

LEMMA StoryGrows == ASSUME SceneIInv PROVE Grows(story)
  BY DEF SceneIInv, SceneShapes, Told, Grows

\* A delivery goes on, and the scene is as it was.
LEMMA DeliveryGoesOn ==
    ASSUME SceneIInv, NEW d \in Deliveries,
           UNCHANGED <<scene, request, control, typed>>,
           delivery' \in [Deliveries -> Delivered],
           \A e \in Deliveries \ {d} : delivery'[e] = delivery[e],
           delivery[d].at # "none", delivery'[d].at # "none",
           Grows(story'), story' = story \/ floor.interaction = d,
           floor' \in Floors,
           \A e \in Deliveries \ {d} : /\ floor.interaction = e => floor'.interaction = e
                                       /\ floor'.active = e => floor.active = e,
           Serving(d)', overruled' \subseteq Speakers, setbacks' \in 0..MaxSetbacks
    PROVE  SceneIInv'
<1>1. SceneShapes'
  BY DEF SceneIInv, SceneShapes, Grows
<1>2. CommandsNumbered'
  BY DEF SceneIInv, CommandsNumbered
<1>3. NewestFirst' /\ ClicksHold' /\ ClearsAsClicked' /\ DoneCommands' = DoneCommands
  BY DEF SceneIInv, NewestFirst, Past, ClicksHold, ClearsAsClicked, Done, DoneCommands
<1>4. Told'
  BY <1>3 DEF Told, Grows
<1>5. \A e \in Deliveries \ {d} : Serving(e)'
  <2>1. \A i \in DOMAIN story.archive : /\ i \in DOMAIN story'.archive
                                        /\ story'.archive[i] = story.archive[i]
    BY DEF Grows
  <2>2. TAKE e \in Deliveries \ {d}
  <2>3. QED
    BY <2>1, ServingStays
<1>6. QED
  BY <1>1, <1>2, <1>3, <1>4, <1>5 DEF SceneIInv, Served


LEMMA TakeInteractionIInv ==
    ASSUME SceneIInv, NEW d \in Deliveries, TakeInteraction(d) PROVE SceneIInv'
<1>1. /\ Moves(d, "queued") /\ delivery[d].at = "claimed" /\ floor.interaction = NoOne
      /\ floor' = [floor EXCEPT !.interaction = d]
      /\ UNCHANGED <<scene, request, control, story, typed, overruled, setbacks>>
  BY DEF TakeInteraction
<1>2. /\ floor' \in Floors /\ floor'.interaction = d /\ floor'.active = floor.active
  BY <1>1 DEF SceneIInv, SceneShapes, Floors
<1>3. /\ delivery' \in [Deliveries -> Delivered] /\ delivery'[d].at = "queued"
      /\ delivery'[d].command = delivery[d].command /\ delivery'[d].answer = delivery[d].answer
      /\ \A e \in Deliveries \ {d} : delivery'[e] = delivery[e]
  BY <1>1, DeliveryMoves DEF DeliveryPlaces
<1>4. Serving(d)'
  BY <1>1, <1>2, <1>3 DEF SceneIInv, Served, Serving, Done
<1>5. \A e \in Deliveries \ {d} : floor.interaction # e
  BY <1>1 DEF Deliveries, NoOne
<1>6. QED
  BY <1>1, <1>2, <1>3, <1>4, <1>5, StoryGrows, DeliveryGoesOn DEF SceneIInv, SceneShapes

LEMMA FindDuplicateIInv ==
    ASSUME SceneIInv, NEW d \in Deliveries, FindDuplicate(d) PROVE SceneIInv'
<1>1. /\ delivery[d].at = "queued" /\ Done(delivery[d].command) /\ floor' = Locked(d)
      /\ delivery' = [delivery EXCEPT ![d].at = "recording", ![d].duplicate = TRUE]
      /\ UNCHANGED <<scene, request, control, story, typed, overruled, setbacks>>
  BY DEF FindDuplicate, Enters
<1>2. floor' \in Floors /\ floor'.interaction = floor.interaction /\ floor'.active = floor.active
  BY <1>1, FloorTaken DEF SceneIInv, SceneShapes, Locked, Speakers
<1>3. /\ delivery' \in [Deliveries -> Delivered] /\ delivery'[d].at = "recording"
      /\ delivery'[d].command = delivery[d].command /\ delivery'[d].answer = delivery[d].answer
      /\ \A e \in Deliveries \ {d} : delivery'[e] = delivery[e]
  BY <1>1 DEF SceneIInv, SceneShapes, Delivered, DeliveryPlaces
<1>4. Serving(d)'
  BY <1>1, <1>2, <1>3 DEF SceneIInv, Served, Serving, Done
<1>5. QED
  BY <1>1, <1>2, <1>3, <1>4, StoryGrows, DeliveryGoesOn DEF SceneIInv, SceneShapes

LEMMA RefuseStaleIInv ==
    ASSUME SceneIInv, NEW d \in Deliveries, RefuseStale(d) PROVE SceneIInv'
<1>1. /\ Answers(d, "refused") /\ delivery[d].at = "queued"
      /\ UNCHANGED <<scene, request, control, story, typed, floor, overruled, setbacks>>
  BY DEF RefuseStale, Enters
<1>2. /\ delivery' \in [Deliveries -> Delivered] /\ delivery'[d].at = "leaving"
      /\ delivery'[d].command = delivery[d].command /\ delivery'[d].answer = "refused"
      /\ \A e \in Deliveries \ {d} : delivery'[e] = delivery[e]
  BY <1>1, DeliveryAnswers
<1>3. Serving(d)'
  BY <1>1, <1>2 DEF SceneIInv, Served, Serving
<1>4. QED
  BY <1>1, <1>2, <1>3, StoryGrows, DeliveryGoesOn DEF SceneIInv, SceneShapes

\* An event that is in memory as in the file is in the file.
LEMMA FindEventIInv ==
    ASSUME SceneIInv, NEW d \in Deliveries, FindEvent(d) PROVE SceneIInv'
<1> DEFINE c == delivery[d].command
           events == EventsOf(c, story.memory)
<1>1. /\ delivery[d].at = "recording" /\ events # {} /\ floor' = Unlocked(floor)
      /\ UNCHANGED <<scene, request, control, story, typed, overruled, setbacks>>
      /\ \/ Answers(d, "refused")
         \/ Answers(d, "committed") /\ \A i \in events : Persisted(i)
  BY DEF FindEvent
<1>2. floor' \in Floors /\ floor'.interaction = floor.interaction /\ floor'.active = floor.active
  BY <1>1, FloorGivenBack DEF SceneIInv, SceneShapes
<1>3. PICK answer \in {"refused", "committed"} :
          /\ Answers(d, answer)
          /\ answer = "committed" => \A i \in events : Persisted(i)
  BY <1>1
<1>4. /\ delivery' \in [Deliveries -> Delivered] /\ delivery'[d].at = "leaving"
      /\ delivery'[d].command = c /\ delivery'[d].answer = answer
      /\ \A e \in Deliveries \ {d} : delivery'[e] = delivery[e]
  BY <1>3, DeliveryAnswers
<1>5. answer = "committed" => EventsOf(c, story.archive) # {}
  BY <1>1, <1>3 DEF EventsOf, Persisted
<1>6. Serving(d)'
  BY <1>1, <1>2, <1>3, <1>4, <1>5 DEF SceneIInv, Served, Serving, Done
<1>7. QED
  BY <1>1, <1>2, <1>4, <1>6, StoryGrows, DeliveryGoesOn DEF SceneIInv, SceneShapes

\* The event of an applied command, where there is none yet.
LEMMA EventAppended ==
    ASSUME SceneIInv, NEW d \in Deliveries, MissingEvent(d), ~story.blocked,
           NEW saved, saved = Append(story.memory, EventOf(delivery[d].command))
    PROVE  /\ saved \in Seq(Records) /\ saved # <<>> /\ WellTold(saved, DoneCommands)
           /\ saved[Len(saved)] = EventOf(delivery[d].command)
           /\ EventsOf(delivery[d].command, saved) # {}
           /\ \A i \in DOMAIN story.archive : i \in DOMAIN saved /\ saved[i] = story.archive[i]
           /\ saved # story.archive
<1> DEFINE c == delivery[d].command
           s == story.archive
<1>1. /\ c \in Commands /\ Done(c) /\ s \in Seq(Records) /\ WellTold(s, DoneCommands)
      /\ saved = Append(s, EventOf(c)) /\ EventsOf(c, s) = {}
  BY DEF MissingEvent, SceneIInv, SceneShapes, Stories, Served, Serving, Told
<1>2. EventOf(c) \in Records /\ EventOf(c).kind = "event" /\ EventOf(c).command = c
  BY <1>1 DEF SceneIInv, SceneShapes, Done, Applied, EventOf, Entry, Records
<1> HIDE DEF c, s
<1>3. /\ saved \in Seq(Records) /\ saved # <<>> /\ Len(saved) = Len(s) + 1
      /\ DOMAIN saved = 1..Len(s) + 1 /\ DOMAIN s = 1..Len(s) /\ Len(s) \in Nat
      /\ \A i \in DOMAIN s : saved[i] = s[i]
      /\ saved[Len(s) + 1] = EventOf(c)
  BY <1>1, <1>2, AppendedEntry
<1>4. WellTold(saved, DoneCommands)
  <2>1. c \in DoneCommands
    BY <1>1 DEF DoneCommands
  <2>2. \A i \in DOMAIN s : ~(s[i].kind = "event" /\ s[i].command = c)
    BY <1>1 DEF EventsOf
  <2>3. QED
    BY <1>1, <1>2, <2>1, <2>2, TellMore
<1>5. Len(s) + 1 \in EventsOf(c, saved)
  BY <1>2, <1>3 DEF EventsOf
<1>6. saved # s
  <2>1. PICK n \in Nat : n = Len(s)
    BY <1>3
  <2>2. n + 1 # n
    OBVIOUS
  <2>3. Len(saved) = n + 1 /\ Len(s) = n
    BY <1>3, <2>1
  <2>4. QED
    BY <2>2, <2>3
<1>7. \A i \in DOMAIN s : i \in DOMAIN saved
  BY <1>3
<1>8. QED
  BY <1>3, <1>4, <1>5, <1>6, <1>7 DEF c, s


\* Where a failed save leaves the conversation: told as before, or with what was to
\* be saved.
LEMMA SaveFailed ==
    ASSUME SceneIInv, ~story.blocked, NEW records \in Seq(Records),
           WellTold(records, DoneCommands),
           \A i \in DOMAIN story.archive : i \in DOMAIN records /\ records[i] = story.archive[i],
           NEW s \in FailedSaves(records)
    PROVE  /\ Grows(s) /\ s.archive \in {story.archive, records}
<1>1. /\ story \in Stories /\ WellTold(story.archive, DoneCommands)
      /\ story.memory = story.archive
  BY DEF SceneIInv, SceneShapes, Told
<1>2. CASE s = [story EXCEPT !.memory = records, !.archive = records]
  BY <1>1, <1>2 DEF Stories, Grows
<1>3. CASE s = [story EXCEPT !.memory = story.archive]
  BY <1>1, <1>3 DEF Stories, Grows
<1>4. CASE s = [story EXCEPT !.memory = records, !.blocked = TRUE]
  BY <1>1, <1>4 DEF Stories, Grows
<1>5. QED
  BY <1>2, <1>3, <1>4 DEF FailedSaves

LEMMA SaveEventIInv ==
    ASSUME SceneIInv, NEW d \in Deliveries, SaveEvent(d) PROVE SceneIInv'
<1> DEFINE c == delivery[d].command
<1>1. PICK saved : saved = Append(story.memory, EventOf(c))
  OBVIOUS
<1>2. /\ MissingEvent(d) /\ ~story.blocked /\ delivery[d].at = "recording"
      /\ story' = [story EXCEPT !.memory = saved, !.archive = saved]
      /\ floor' = Unlocked(floor)
      /\ UNCHANGED <<scene, request, control, typed, overruled, setbacks>>
  BY <1>1 DEF SaveEvent, MissingEvent
<1>3. /\ saved \in Seq(Records) /\ saved # <<>> /\ WellTold(saved, DoneCommands)
      /\ saved[Len(saved)] = EventOf(c) /\ EventsOf(c, saved) # {}
      /\ \A i \in DOMAIN story.archive : i \in DOMAIN saved /\ saved[i] = story.archive[i]
  BY <1>1, <1>2, EventAppended
<1>4. /\ story' \in Stories /\ story'.archive = saved /\ Grows(story')
  BY <1>2, <1>3 DEF SceneIInv, SceneShapes, Stories, Grows
<1>5. floor' \in Floors /\ floor'.interaction = floor.interaction /\ floor'.active = floor.active
  BY <1>2, FloorGivenBack DEF SceneIInv, SceneShapes
<1>6. PICK place : place = IF delivery[d].duplicate THEN "leaving" ELSE "offered"
  OBVIOUS
<1>7. place \in {"leaving", "offered"} /\
      delivery' = [delivery EXCEPT ![d].answer = "committed", ![d].at = place]
  BY <1>6 DEF SaveEvent
<1>8. /\ delivery' \in [Deliveries -> Delivered] /\ delivery'[d].at = place
      /\ delivery'[d].command = c /\ delivery'[d].answer = "committed"
      /\ \A e \in Deliveries \ {d} : delivery'[e] = delivery[e]
  BY <1>7 DEF SceneIInv, SceneShapes, Delivered, DeliveryPlaces
<1>9. /\ c \in Commands /\ Done(c) /\ request[c] # NoRequest /\ floor.interaction = d
  BY <1>2 DEF SceneIInv, Served, Serving
<1>10. EventOf(c)' = EventOf(c) /\ Done(c)'
  BY <1>2, <1>8, <1>9 DEF EventOf, Entry, Done
<1>11. Serving(d)'
  BY <1>2, <1>3, <1>4, <1>5, <1>7, <1>8, <1>9, <1>10 DEF Serving, EventOf, Entry, Done
<1>12. QED
  BY <1>2, <1>4, <1>5, <1>7, <1>8, <1>9, <1>11, DeliveryGoesOn DEF SceneIInv, SceneShapes

LEMMA SaveEventFailsIInv ==
    ASSUME SceneIInv, NEW d \in Deliveries, SaveEventFails(d) PROVE SceneIInv'
<1> DEFINE c == delivery[d].command
<1>1. /\ MissingEvent(d) /\ delivery[d].at = "recording" /\ floor' = Unlocked(floor)
      /\ UNCHANGED <<scene, request, control, typed, overruled>>
  BY DEF SaveEventFails, MissingEvent
<1>2. floor' \in Floors /\ floor'.interaction = floor.interaction /\ floor'.active = floor.active
  BY <1>1, FloorGivenBack DEF SceneIInv, SceneShapes
<1>3. /\ c \in Commands /\ Done(c) /\ request[c] # NoRequest /\ floor.interaction = d
  BY <1>1 DEF SceneIInv, Served, Serving
<1>4. PICK answer \in {"committed", "pending"} :
          /\ Answers(d, answer) /\ Grows(story') /\ setbacks' \in 0..MaxSetbacks
          /\ answer = "committed" => EventsOf(c, story'.archive) # {}
  <2>1. CASE story.blocked
    <3>1. Answers(d, "pending") /\ UNCHANGED <<story, setbacks>>
      BY <2>1 DEF SaveEventFails
    <3>2. QED
      BY <3>1, StoryGrows DEF SceneIInv, SceneShapes
  <2>2. CASE ~story.blocked
    <3>1. PICK saved : saved = Append(story.memory, EventOf(c))
      OBVIOUS
    <3>2. /\ story' \in FailedSaves(saved) /\ setbacks > 0 /\ setbacks' = setbacks - 1
          /\ Answers(d, IF story'.archive # story.archive THEN "committed" ELSE "pending")
      BY <2>2, <3>1 DEF SaveEventFails
    <3>3. /\ saved \in Seq(Records) /\ WellTold(saved, DoneCommands)
          /\ EventsOf(c, saved) # {}
          /\ \A i \in DOMAIN story.archive : i \in DOMAIN saved /\ saved[i] = story.archive[i]
      BY <1>1, <2>2, <3>1, EventAppended
    <3>4. Grows(story') /\ story'.archive \in {story.archive, saved}
      BY <2>2, <3>2, <3>3, SaveFailed
    <3>5. setbacks' \in 0..MaxSetbacks
      BY <3>2, SceneConstants DEF SceneIInv, SceneShapes
    <3>6. CASE story'.archive # story.archive
      <4>1. Answers(d, "committed")
        BY <3>2, <3>6
      <4>2. QED
        BY <3>3, <3>4, <3>5, <3>6, <4>1
    <3>7. CASE story'.archive = story.archive
      <4>1. Answers(d, "pending")
        BY <3>2, <3>7
      <4>2. QED
        BY <3>4, <3>5, <4>1
    <3>8. QED
      BY <3>6, <3>7
  <2>3. QED
    BY <2>1, <2>2
<1>5. /\ delivery' \in [Deliveries -> Delivered] /\ delivery'[d].at = "leaving"
      /\ delivery'[d].command = c /\ delivery'[d].answer = answer
      /\ \A e \in Deliveries \ {d} : delivery'[e] = delivery[e]
  BY <1>4, DeliveryAnswers
<1>6. Serving(d)'
  BY <1>1, <1>3, <1>4, <1>5 DEF Serving, Done
<1>7. QED
  BY <1>1, <1>2, <1>3, <1>4, <1>5, <1>6, DeliveryGoesOn DEF SceneIInv, SceneShapes


\* A reaction that ends gives back what it held, and its claim.
LEMMA ReactionEnds ==
    ASSUME SceneIInv, NEW d \in Deliveries, EndReaction(d),
           delivery[d].at \in {"offered", "reacting"}
    PROVE  /\ delivery' \in [Deliveries -> Delivered] /\ delivery'[d].at = "leaving"
           /\ delivery'[d].command = delivery[d].command
           /\ delivery'[d].answer = delivery[d].answer
           /\ \A e \in Deliveries \ {d} : delivery'[e] = delivery[e]
           /\ floor' \in Floors /\ floor'.interaction = floor.interaction
           /\ \A e \in Deliveries : floor'.active = e => floor.active = e
           /\ floor.interaction = d /\ delivery[d].at # "none"
<1>1. Moves(d, "leaving") /\ floor' = Ended(Unlocked(floor), d) /\ floor \in Floors
  BY DEF EndReaction, SceneIInv, SceneShapes
<1>2. /\ floor' \in Floors /\ floor'.interaction = floor.interaction
      /\ floor'.active \in {floor.active, NoOne}
  BY <1>1, FloorGivenBack
<1>3. \A e \in Deliveries : e # NoOne
  BY DEF Deliveries, NoOne
<1>4. floor.interaction = d
  BY DEF SceneIInv, Served, Serving
<1>5. QED
  BY <1>1, <1>2, <1>3, <1>4, DeliveryMoves DEF DeliveryPlaces

LEMMA ReactionGoneIInv ==
    ASSUME SceneIInv, NEW d \in Deliveries, EndReaction(d),
           delivery[d].at \in {"offered", "reacting"}, Grows(story'),
           UNCHANGED <<scene, request, control, typed, overruled>>, setbacks' \in 0..MaxSetbacks
    PROVE  SceneIInv'
<1>1. /\ delivery' \in [Deliveries -> Delivered] /\ delivery'[d].at = "leaving"
      /\ delivery'[d].command = delivery[d].command
      /\ delivery'[d].answer = delivery[d].answer
      /\ \A e \in Deliveries \ {d} : delivery'[e] = delivery[e]
      /\ floor' \in Floors /\ floor'.interaction = floor.interaction
      /\ \A e \in Deliveries : floor'.active = e => floor.active = e
      /\ floor.interaction = d /\ delivery[d].at # "none"
  BY ReactionEnds
<1>2. EventsOf(delivery[d].command, story.archive) # {}
         => EventsOf(delivery[d].command, story'.archive) # {}
  BY DEF Grows, EventsOf
<1>3. Serving(d)'
  BY <1>1, <1>2 DEF SceneIInv, Served, Serving, Done
<1>4. QED
  BY <1>1, <1>3, DeliveryGoesOn DEF SceneIInv, SceneShapes

LEMMA BeginReactionIInv ==
    ASSUME SceneIInv, NEW d \in Deliveries, BeginReaction(d) PROVE SceneIInv'
<1>1. /\ delivery[d].at = "offered"
      /\ UNCHANGED <<scene, request, control, story, typed, overruled, setbacks>>
  BY DEF BeginReaction
<1>2. CASE StillFits(d)
  <2>1. Moves(d, "reacting") /\ floor' = Locked(d)
    BY <1>2 DEF BeginReaction
  <2>2. floor' \in Floors /\ floor'.interaction = floor.interaction /\ floor'.active = floor.active
    BY <2>1, FloorTaken DEF SceneIInv, SceneShapes, Locked, Speakers
  <2>3. /\ delivery' \in [Deliveries -> Delivered] /\ delivery'[d].at = "reacting"
        /\ delivery'[d].command = delivery[d].command /\ delivery'[d].answer = delivery[d].answer
        /\ \A e \in Deliveries \ {d} : delivery'[e] = delivery[e]
    BY <2>1, DeliveryMoves DEF DeliveryPlaces
  <2>4. Serving(d)'
    BY <1>1, <2>2, <2>3 DEF SceneIInv, Served, Serving, Done, EventOf, Entry
  <2>5. QED
    BY <1>1, <2>2, <2>3, <2>4, StoryGrows, DeliveryGoesOn DEF SceneIInv, SceneShapes
<1>3. CASE ~StillFits(d)
  <2>1. EndReaction(d)
    BY <1>3 DEF BeginReaction
  <2>2. QED
    BY <1>1, <2>1, StoryGrows, ReactionGoneIInv DEF SceneIInv, SceneShapes
<1>4. QED
  BY <1>2, <1>3

LEMMA WithdrawReactionIInv ==
    ASSUME SceneIInv, NEW d \in Deliveries, WithdrawReaction(d) PROVE SceneIInv'
  BY StoryGrows, ReactionGoneIInv DEF WithdrawReaction, SceneIInv, SceneShapes

\* The reaction is appended to its event, in the scene that the event left: nothing
\* was saved in between by whoever still has the floor.
LEMMA CommitReactionIInv ==
    ASSUME SceneIInv, NEW d \in Deliveries, CommitReaction(d) PROVE SceneIInv'
<1> DEFINE c == delivery[d].command
           s == story.archive
<1>1. /\ delivery[d].at = "reacting" /\ StillFits(d) /\ ~story.blocked /\ EndReaction(d)
      /\ UNCHANGED <<scene, request, control, typed, overruled>>
  BY DEF CommitReaction
<1>2. PICK x : x = Entry("reaction", c, Revision(scene))
  OBVIOUS
<1>3. PICK saved : saved = Append(s, x)
  OBVIOUS
<1>4. /\ c \in Commands /\ Done(c) /\ s \in Seq(Records) /\ WellTold(s, DoneCommands)
      /\ story.memory = s /\ scene \in Seq(Relations) /\ story \in Stories
  BY <1>1 DEF SceneIInv, SceneShapes, Stories, Served, Serving, Told
<1>5. s # <<>> /\ s[Len(s)] = EventOf(c) /\ control[c].left = Revision(scene)
  BY <1>1 DEF StillFits, OwnsFloor, SceneIInv, Served, Serving
<1>6. /\ x \in Records /\ x.kind = "reaction" /\ x.command = c /\ x.revision = control[c].left
  BY <1>2, <1>4, <1>5, RevisionOfScene DEF Entry, Records
<1>7. EventOf(c).kind = "event" /\ EventOf(c).command = c /\ EventOf(c).revision = control[c].left
  BY DEF EventOf, Entry
<1> HIDE DEF c, s
<1>8. /\ saved \in Seq(Records) /\ DOMAIN saved = 1..Len(s) + 1 /\ DOMAIN s = 1..Len(s)
      /\ Len(s) \in Nat /\ \A i \in DOMAIN s : saved[i] = s[i]
  BY <1>3, <1>4, <1>6, AppendedEntry
<1>9. \A i \in DOMAIN s : i \in DOMAIN saved /\ saved[i] = s[i]
  BY <1>8
<1>10. WellTold(saved, DoneCommands)
  BY <1>3, <1>4, <1>5, <1>6, <1>7, TellMore
<1>11. Grows(story') /\ setbacks' \in 0..MaxSetbacks
  <2>1. CASE story' = [story EXCEPT !.memory = saved, !.archive = saved] /\ UNCHANGED setbacks
    <3>1. story' \in Stories /\ story'.archive = saved /\ story'.memory = saved
      BY <1>4, <1>8, <2>1 DEF Stories
    <3>2. QED
      BY <1>9, <1>10, <2>1, <3>1 DEF Grows, s, SceneIInv, SceneShapes
  <2>2. CASE /\ setbacks > 0 /\ setbacks' = setbacks - 1
             /\ story' \in FailedSaves(s) \cup FailedSaves(saved)
    <3>1. setbacks' \in 0..MaxSetbacks
      BY <2>2, SceneConstants DEF SceneIInv, SceneShapes
    <3>2. PICK records \in {s, saved} : story' \in FailedSaves(records)
      BY <2>2
    <3>3. /\ records \in Seq(Records) /\ WellTold(records, DoneCommands)
          /\ \A i \in DOMAIN s : i \in DOMAIN records /\ records[i] = s[i]
      BY <1>4, <1>8, <1>9, <1>10
    <3>4. Grows(story')
      BY <1>1, <3>2, <3>3, SaveFailed DEF s
    <3>5. QED
      BY <3>1, <3>4
  <2>3. QED
    BY <1>2, <1>3, <1>4, <2>1, <2>2 DEF CommitReaction, c, s
<1>12. QED
  BY <1>1, <1>11, ReactionGoneIInv

LEMMA LeaveIInv == ASSUME SceneIInv, NEW d \in Deliveries, Leave(d) PROVE SceneIInv'
<1>1. /\ delivery[d].at = "leaving" /\ delivery' = [delivery EXCEPT ![d] = Finished]
      /\ floor' = [Ended(floor, d) EXCEPT !.interaction = IF @ = d THEN NoOne ELSE @]
      /\ overruled' = overruled \ {d}
      /\ UNCHANGED <<scene, request, control, story, typed, setbacks>>
  BY DEF Leave
<1>2. /\ Finished \in Delivered /\ Finished.at = "done" /\ Finished.answer = "none"
  BY DEF Finished, NotDelivered, Delivered, DeliveryPlaces
<1>3. /\ delivery' \in [Deliveries -> Delivered] /\ delivery'[d] = Finished
      /\ \A e \in Deliveries \ {d} : delivery'[e] = delivery[e]
  BY <1>1, <1>2 DEF SceneIInv, SceneShapes
<1>4. PICK f : f = Ended(floor, d)
  OBVIOUS
<1>5. f \in Floors /\ f.active \in {floor.active, NoOne} /\ f.interaction = floor.interaction
  BY <1>4, FloorGivenBack DEF SceneIInv, SceneShapes
<1>6. PICK holder : holder = IF f.interaction = d THEN NoOne ELSE f.interaction
  OBVIOUS
<1>7. floor' = [f EXCEPT !.interaction = holder] /\ holder \in Deliveries \cup {NoOne}
  BY <1>1, <1>4, <1>5, <1>6 DEF Floors
<1>8. floor' \in Floors /\ floor'.active = f.active /\ floor'.interaction = holder
  BY <1>5, <1>7 DEF Floors
<1>9. \A e \in Deliveries \ {d} : /\ floor.interaction = e => floor'.interaction = e
                                  /\ floor'.active = e => floor.active = e
  BY <1>5, <1>6, <1>8 DEF Deliveries, NoOne
<1>10. Serving(d)'
  BY <1>2, <1>3 DEF Serving
<1>11. QED
  BY <1>1, <1>2, <1>3, <1>8, <1>9, <1>10, StoryGrows, DeliveryGoesOn DEF SceneIInv, SceneShapes


\* The relation cleared is the one that was clicked on: the scene is as it was seen.
LEMMA ClearedAsClicked ==
    ASSUME SceneIInv, NEW c \in Commands, ~Done(c),
           request' \in [Commands -> {NoRequest} \cup Clicked], request'[c] # NoRequest,
           \A b \in Commands : request[b] # NoRequest => request'[b] = request[b],
           \A b \in Commands : request'[b] # NoRequest =>
                 /\ request'[b].place \in 1..Len(request'[b].revision)
                 /\ Past(request'[b].revision[1])
                 /\ Intact(scene, request'[b]) \/ Broken(scene, request'[b]),
           NEW r, r = request'[c], UpToDate(r), Clear(c, r), UNCHANGED typed
    PROVE  /\ scene' \in Seq(Relations) /\ control' \in [Commands -> {NoControl} \cup Applied]
           /\ NewestFirst' /\ ClicksHold' /\ ClearsAsClicked' /\ Done(c)'
           /\ \A b \in Commands : Done(b) => control'[b] = control[b]
<1>1. /\ scene \in Seq(Relations) /\ control \in [Commands -> {NoControl} \cup Applied]
      /\ r \in Clicked /\ r.revision = Revision(scene) /\ scene' = RemoveAt(scene, r.place)
  BY DEF SceneIInv, SceneShapes, UpToDate, Clear
<1>2. r.place \in DOMAIN scene /\ scene[r.place] = r.seen
  BY <1>1, SnapshotMatches
<1>3. /\ scene' \in Seq(Relations) /\ Len(scene') = Len(scene) - 1
      /\ \A i \in 1..Len(scene) - 1 : scene'[i] = IF i < r.place THEN scene[i] ELSE scene[i + 1]
  BY <1>1, <1>2, Removed
<1>4. PICK n \in Nat : n = Len(scene) /\ DOMAIN scene = 1..n /\ \A i \in 1..n : scene[i].from \in Nat
  BY <1>1, SceneEntries
<1>a. r.place \in 1..n
  BY <1>2, <1>4
<1>b. DOMAIN scene' = 1..n - 1
  BY <1>3, <1>4, SceneEntries
<1>5. \A i \in DOMAIN scene' : /\ i \in 1..n /\ i + 1 \in 1..n
                               /\ scene'[i] = IF i < r.place THEN scene[i] ELSE scene[i + 1]
  BY <1>3, <1>4, <1>b
<1>6. NewestFirst'
  <2>1. \A i \in DOMAIN scene' : Past(scene'[i].from)
    <3>1. \A i \in 1..n : Past(scene[i].from)
      BY <1>4 DEF SceneIInv, NewestFirst
    <3>2. \A i \in DOMAIN scene' : \E j \in 1..n : scene'[i] = scene[j]
      BY <1>5
    <3>3. QED
      BY <3>1, <3>2
  <2>2. \A i \in DOMAIN scene' : i > 1 => scene'[i - 1].from >= scene'[i].from
    <3>1. \A i \in 1..n : i > 1 => scene[i - 1].from >= scene[i].from
      BY <1>4 DEF SceneIInv, NewestFirst
    <3>2. SUFFICES ASSUME NEW i \in DOMAIN scene', i > 1
                   PROVE  scene'[i - 1].from >= scene'[i].from
      OBVIOUS
    <3>3. i \in 1..n - 1 /\ i - 1 \in 1..n - 1 /\ i \in DOMAIN scene' /\ i - 1 \in DOMAIN scene'
      BY <1>4, <1>b, <3>2
    <3>4. CASE i < r.place
      <4>1. scene'[i] = scene[i] /\ scene'[i - 1] = scene[i - 1]
        BY <1>5, <1>a, <3>3, <3>4
      <4>2. QED
        BY <3>1, <3>2, <3>3, <4>1
    <3>5. CASE i = r.place
      <4>1. scene'[i] = scene[i + 1] /\ scene'[i - 1] = scene[i - 1]
        BY <1>5, <1>a, <3>3, <3>5
      <4>2. i \in 1..n /\ i + 1 \in 1..n /\ i - 1 \in 1..n /\ i + 1 > 1 /\ (i + 1) - 1 = i
        BY <3>2, <3>3
      <4>3. scene[i].from >= scene[i + 1].from /\ scene[i - 1].from >= scene[i].from
        BY <3>1, <3>2, <4>2
      <4>4. QED
        BY <1>4, <4>1, <4>2, <4>3
    <3>6. CASE i > r.place
      <4>1. scene'[i] = scene[i + 1] /\ scene'[i - 1] = scene[i]
        <5>1. ~(i < r.place) /\ ~(i - 1 < r.place) /\ i - 1 + 1 = i
          BY <1>a, <3>3, <3>6
        <5>2. QED
          BY <1>5, <3>3, <5>1
      <4>2. i + 1 \in 1..n /\ i + 1 > 1 /\ (i + 1) - 1 = i
        BY <3>2, <3>3
      <4>3. QED
        BY <3>1, <4>1, <4>2
    <3>7. QED
      BY <1>a, <3>3, <3>4, <3>5, <3>6
  <2>3. QED
    BY <2>1, <2>2 DEF NewestFirst, Past
<1>7. ClicksHold'
  <2>1. \A i \in DOMAIN scene : i > 1 => scene[i - 1].from >= scene[i].from
    BY DEF SceneIInv, NewestFirst
  <2>2. \A b \in Commands : request'[b] # NoRequest =>
           Intact(RemoveAt(scene, r.place), request'[b]) \/ Broken(RemoveAt(scene, r.place), request'[b])
    <3>1. SUFFICES ASSUME NEW b \in Commands, request'[b] # NoRequest
                   PROVE  \/ Intact(RemoveAt(scene, r.place), request'[b])
                          \/ Broken(RemoveAt(scene, r.place), request'[b])
      OBVIOUS
    <3>2. request'[b] \in Clicked
      BY <3>1
    <3>3. QED
      BY <1>1, <1>2, <2>1, <3>1, <3>2, SnapshotAfterRemoval
  <2>3. QED
    BY <1>1, <2>2 DEF ClicksHold, Past, Intact, Broken, Surplus
<1>8. PICK x : x = [state |-> "applied", cleared |-> scene[r.place], left |-> Revision(scene')]
  OBVIOUS
<1>9. /\ x \in Applied /\ x # NoControl /\ x.cleared = r.seen
  <2>1. Revision(scene') \in Revisions
    BY <1>3, RevisionOfScene
  <2>2. x.state # NoControl.state
    BY <1>8 DEF NoControl
  <2>3. r.seen \in Relations
    BY <1>1 DEF Clicked
  <2>4. QED
    BY <1>2, <1>8, <2>1, <2>2, <2>3 DEF Applied
<1>10. control' = [control EXCEPT ![c] = x]
  BY <1>8 DEF Clear
<1>11. /\ control' \in [Commands -> {NoControl} \cup Applied] /\ control'[c] = x
       /\ \A b \in Commands \ {c} : control'[b] = control[b]
  BY <1>1, <1>9, <1>10
<1>12. Done(c)' /\ \A b \in Commands : Done(b) => control'[b] = control[b]
  BY <1>9, <1>11 DEF Done
<1>13. ClearsAsClicked'
  BY <1>9, <1>11 DEF ClearsAsClicked, Done, SceneIInv
<1>14. QED
  BY <1>3, <1>6, <1>7, <1>11, <1>12, <1>13


\* A gesture takes the floor, and with it the chance to react from the one before.
LEMMA DeliverGestureIInv ==
    ASSUME SceneIInv, NEW d \in Deliveries, NEW c \in Commands, DeliverGesture(d, c)
    PROVE  SceneIInv'
<1>1. /\ Arrives(d, c, "interact")
      /\ delivery' = [delivery EXCEPT ![d].at = "claimed", ![d].command = c]
      /\ floor' = [floor EXCEPT !.active = d]
      /\ overruled' = (overruled \cup ({floor.active} \ {NoOne})) \ {d}
      /\ UNCHANGED <<scene, control, story, typed, setbacks>>
  BY DEF DeliverGesture, ClaimFloor
<1>2. /\ delivery[d] = NotDelivered
      /\ \E n \in 0..MaxDeliveries : \A e \in Deliveries :
            delivery[e].at # "none" \/ e = d <=> e <= n
      /\ request' \in [Commands -> {NoRequest} \cup Clicked] /\ request'[c] # NoRequest
      /\ \A b \in Commands : request[b] # NoRequest => request'[b] = request[b]
      /\ \E n \in 0..MaxCommands : \A b \in Commands : request'[b] # NoRequest <=> b <= n
      /\ \A b \in Commands : request'[b] # NoRequest =>
            /\ request'[b].place \in 1..Len(request'[b].revision)
            /\ Past(request'[b].revision[1])
            /\ Intact(scene, request'[b]) \/ Broken(scene, request'[b])
  BY <1>1, Arrival
<1>3. /\ delivery' \in [Deliveries -> Delivered] /\ delivery'[d].at = "claimed"
      /\ delivery'[d].command = c /\ delivery'[d].answer = "none"
      /\ \A e \in Deliveries \ {d} : delivery'[e] = delivery[e]
  <2>1. PICK r : r = [NotDelivered EXCEPT !.at = "claimed", !.command = c]
    OBVIOUS
  <2>2. r \in Delivered /\ r.at = "claimed" /\ r.command = c /\ r.answer = "none"
    BY <2>1 DEF Delivered, DeliveryPlaces, NotDelivered
  <2>3. delivery \in [Deliveries -> Delivered]
    BY DEF SceneIInv, SceneShapes
  <2>4. delivery' = [delivery EXCEPT ![d] = r]
    BY <1>1, <1>2, <2>1, <2>3 DEF NotDelivered
  <2>5. QED
    BY <2>2, <2>3, <2>4
<1>4. /\ floor' \in Floors /\ floor'.active = d /\ floor'.interaction = floor.interaction
      /\ overruled' \subseteq Speakers
  BY <1>1, FloorTaken DEF SceneIInv, SceneShapes, Speakers, Floors
<1>5. SceneShapes'
  BY <1>1, <1>2, <1>3, <1>4 DEF SceneIInv, SceneShapes
<1>6. CommandsNumbered'
  BY <1>2, <1>3 DEF SceneIInv, CommandsNumbered
<1>7. NewestFirst' /\ ClicksHold'
  BY <1>1, <1>2 DEF SceneIInv, NewestFirst, ClicksHold, Past, Intact, Broken, Surplus
<1>8. ClearsAsClicked' /\ Told'
  BY <1>1, <1>2 DEF SceneIInv, ClearsAsClicked, Told, Done, DoneCommands
<1>9. Serving(d)'
  BY <1>2, <1>3 DEF Serving
<1>10. \A e \in Deliveries \ {d} : Serving(e)'
  BY <1>1, <1>2, <1>3, <1>4, ServingStays
<1>11. QED
  BY <1>5, <1>6, <1>7, <1>8, <1>9, <1>10 DEF SceneIInv, Served

LEMMA ApplyGestureIInv ==
    ASSUME SceneIInv, NEW d \in Deliveries, ApplyGesture(d) PROVE SceneIInv'
<1>1. PICK c : c = delivery[d].command
  OBVIOUS
<1>2. PICK r : r = request[c]
  OBVIOUS
<1>3. /\ delivery[d].at = "queued" /\ ~Done(c) /\ UpToDate(r) /\ Clear(c, r)
      /\ Moves(d, "recording") /\ floor' = Locked(d)
      /\ UNCHANGED <<request, story, typed, overruled, setbacks>>
  BY <1>1, <1>2 DEF ApplyGesture, Enters
<1>4. c \in Commands /\ request[c] # NoRequest /\ floor.interaction = d
      /\ ~(delivery[d].answer \in {"applied", "committed", "pending"})
  BY <1>1, <1>3 DEF SceneIInv, Served, Serving
<1>5. /\ scene' \in Seq(Relations) /\ control' \in [Commands -> {NoControl} \cup Applied]
      /\ NewestFirst' /\ ClicksHold' /\ ClearsAsClicked' /\ Done(c)'
      /\ \A b \in Commands : Done(b) => control'[b] = control[b]
  <2>1. request' \in [Commands -> {NoRequest} \cup Clicked] /\ request' = request
    BY <1>3 DEF SceneIInv, SceneShapes
  <2>2. \A b \in Commands : request'[b] # NoRequest =>
            /\ request'[b].place \in 1..Len(request'[b].revision)
            /\ Past(request'[b].revision[1])
            /\ Intact(scene, request'[b]) \/ Broken(scene, request'[b])
    BY <2>1 DEF SceneIInv, ClicksHold
  <2>3. QED
    BY <1>2, <1>3, <1>4, <2>1, <2>2, ClearedAsClicked
<1>6. /\ delivery' \in [Deliveries -> Delivered] /\ delivery'[d].at = "recording"
      /\ delivery'[d].command = c /\ delivery'[d].answer = delivery[d].answer
      /\ \A e \in Deliveries \ {d} : delivery'[e] = delivery[e]
  BY <1>1, <1>3, DeliveryMoves DEF DeliveryPlaces
<1>7. floor' \in Floors /\ floor'.interaction = floor.interaction /\ floor'.active = floor.active
  BY <1>3, FloorTaken DEF SceneIInv, SceneShapes, Locked, Speakers
<1>8. SceneShapes'
  BY <1>3, <1>5, <1>6, <1>7 DEF SceneIInv, SceneShapes
<1>9. CommandsNumbered'
  BY <1>3, <1>6 DEF SceneIInv, CommandsNumbered
<1>10. Told'
  <2>1. DoneCommands \subseteq DoneCommands'
    BY <1>5 DEF DoneCommands, Done
  <2>2. QED
    BY <1>3, <2>1, ToldOfMore DEF SceneIInv, Told
<1>11. Serving(d)'
  BY <1>3, <1>4, <1>5, <1>6, <1>7 DEF Serving
<1>12. \A e \in Deliveries \ {d} : Serving(e)'
  BY <1>3, <1>5, <1>6, <1>7, ServingStays
<1>13. QED
  BY <1>5, <1>8, <1>9, <1>10, <1>11, <1>12 DEF SceneIInv, Served

LEMMA ControlSilentlyIInv ==
    ASSUME SceneIInv, NEW d \in Deliveries, NEW c \in Commands, ControlSilently(d, c)
    PROVE  SceneIInv'
<1>1. PICK r : r = request'[c]
  OBVIOUS
<1>2. PICK answer : answer = IF floor.lock = NoOne /\ (Done(c) \/ UpToDate(r))
                             THEN "applied" ELSE "refused"
  OBVIOUS
<1>3. /\ Arrives(d, c, "clear") /\ UNCHANGED <<story, typed, floor, overruled, setbacks>>
      /\ IF floor.lock = NoOne /\ ~Done(c) /\ UpToDate(r)
         THEN Clear(c, r) ELSE UNCHANGED <<scene, control>>
      /\ delivery' = [delivery EXCEPT ![d] = [NotDelivered EXCEPT
             !.at = "leaving", !.command = c, !.answer = answer]]
  BY <1>1, <1>2 DEF ControlSilently
<1>4. /\ delivery[d] = NotDelivered
      /\ \E n \in 0..MaxDeliveries : \A e \in Deliveries :
            delivery[e].at # "none" \/ e = d <=> e <= n
      /\ request' \in [Commands -> {NoRequest} \cup Clicked] /\ request'[c] # NoRequest
      /\ \A b \in Commands : request[b] # NoRequest => request'[b] = request[b]
      /\ \E n \in 0..MaxCommands : \A b \in Commands : request'[b] # NoRequest <=> b <= n
      /\ \A b \in Commands : request'[b] # NoRequest =>
            /\ request'[b].place \in 1..Len(request'[b].revision)
            /\ Past(request'[b].revision[1])
            /\ Intact(scene, request'[b]) \/ Broken(scene, request'[b])
  BY <1>3, Arrival
<1>5. /\ scene' \in Seq(Relations) /\ control' \in [Commands -> {NoControl} \cup Applied]
      /\ NewestFirst' /\ ClicksHold' /\ ClearsAsClicked'
      /\ answer = "applied" => Done(c)'
      /\ \A b \in Commands : Done(b) => control'[b] = control[b]
  <2>1. CASE floor.lock = NoOne /\ ~Done(c) /\ UpToDate(r)
    BY <1>1, <1>3, <1>4, <2>1, ClearedAsClicked
  <2>2. CASE ~(floor.lock = NoOne /\ ~Done(c) /\ UpToDate(r))
    <3>1. UNCHANGED <<scene, control>> /\ (answer = "applied" => Done(c)')
      BY <1>2, <1>3, <2>2 DEF Done
    <3>2. NewestFirst' /\ ClicksHold'
      BY <1>3, <1>4, <3>1 DEF SceneIInv, NewestFirst, ClicksHold, Past, Intact, Broken, Surplus
    <3>3. ClearsAsClicked'
      BY <1>4, <3>1 DEF SceneIInv, ClearsAsClicked, Done
    <3>4. QED
      BY <3>1, <3>2, <3>3 DEF SceneIInv, SceneShapes
  <2>3. QED
    BY <2>1, <2>2
<1>6. /\ delivery' \in [Deliveries -> Delivered] /\ delivery'[d].at = "leaving"
      /\ delivery'[d].command = c /\ delivery'[d].answer = answer
      /\ \A e \in Deliveries \ {d} : delivery'[e] = delivery[e]
  BY <1>2, <1>3 DEF SceneIInv, SceneShapes, Delivered, DeliveryPlaces, NotDelivered
<1>7. SceneShapes'
  BY <1>3, <1>4, <1>5, <1>6 DEF SceneIInv, SceneShapes
<1>8. CommandsNumbered'
  <2>1. \A e \in Deliveries : delivery'[e].at # "none" <=> delivery[e].at # "none" \/ e = d
    BY <1>6
  <2>2. \E n \in 0..MaxDeliveries : \A e \in Deliveries : delivery'[e].at # "none" <=> e <= n
    BY <1>4, <2>1
  <2>3. \A e \in Deliveries : delivery'[e].at = "none" => delivery'[e] = NotDelivered
    BY <1>6 DEF SceneIInv, CommandsNumbered
  <2>4. QED
    BY <1>4, <2>2, <2>3 DEF CommandsNumbered
<1>9. Told'
  <2>1. DoneCommands \subseteq DoneCommands'
    BY <1>5 DEF DoneCommands, Done
  <2>2. QED
    BY <1>3, <2>1, ToldOfMore DEF SceneIInv, Told
<1>10. Serving(d)'
  BY <1>2, <1>4, <1>5, <1>6 DEF Serving
<1>11. \A e \in Deliveries \ {d} : Serving(e)'
  BY <1>3, <1>4, <1>5, <1>6, ServingStays
<1>12. QED
  BY <1>5, <1>7, <1>8, <1>9, <1>10, <1>11 DEF SceneIInv, Served



LEMMA SceneInitIInv == SceneInit => SceneIInv
<1> SUFFICES ASSUME SceneInit PROVE SceneIInv
  OBVIOUS
<1>1. MaxStatements \in Nat /\ MaxSetbacks \in Nat /\ MaxCommands \in Nat /\ MaxDeliveries \in Nat
  BY SceneConstants
<1>2. <<>> \in Seq(Relations) /\ Len(<<>>) = 0 /\ 0 \in Instants /\ <<>> \in Seq(Records)
  BY <1>1, EmptySeq DEF Instants
<1>3. /\ scene \in Seq(Relations) /\ Len(scene) = 0 + 2
      /\ scene[1].from = 0 /\ scene[2].from = 0
  BY <1>2, PushedDown DEF SceneInit
<1>4. NotDelivered \in Delivered /\ NotDelivered.at = "none" /\ NotDelivered.answer = "none"
  BY DEF NotDelivered, Delivered, DeliveryPlaces
<1>5. SceneShapes
  <2>1. story \in Stories
    BY <1>2 DEF SceneInit, Stories
  <2>2. typed \in [at : {"idle", "claimed", "thinking"}, count : Instants]
    BY <1>2 DEF SceneInit
  <2>3. floor \in Floors
    BY DEF SceneInit, Floors
  <2>4. delivery \in [Deliveries -> Delivered]
    BY <1>4 DEF SceneInit
  <2>5. QED
    BY <1>1, <1>3, <2>1, <2>2, <2>3, <2>4 DEF SceneInit, SceneShapes
<1>6. CommandsNumbered
  <2>1. \A c \in Commands : request[c] # NoRequest <=> c <= 0
    BY <1>1 DEF SceneInit, Commands
  <2>2. \A d \in Deliveries : delivery[d].at # "none" <=> d <= 0
    BY <1>1, <1>4 DEF SceneInit, Deliveries
  <2>3. 0 \in 0..MaxCommands /\ 0 \in 0..MaxDeliveries
    BY <1>1
  <2>4. QED
    BY <2>1, <2>2, <2>3 DEF CommandsNumbered, SceneInit
<1>7. NewestFirst
  <2>1. DOMAIN scene = 1..2
    BY <1>3, LenProperties
  <2>2. \A i \in DOMAIN scene : scene[i].from = 0
    BY <1>3, <2>1
  <2>3. \A i \in DOMAIN scene : i > 1 => scene[i - 1].from = 0
    BY <2>1, <2>2
  <2>4. typed.at = "idle" /\ typed.count = 0
    BY DEF SceneInit
  <2>5. QED
    BY <2>2, <2>3, <2>4 DEF NewestFirst, Past
<1>8. ClicksHold /\ ClearsAsClicked
  BY DEF SceneInit, ClicksHold, ClearsAsClicked, Done
<1>9. Told
  BY <1>2 DEF SceneInit, Told, WellTold
<1>10. Served
  BY <1>4 DEF SceneInit, Served, Serving
<1>11. QED
  BY <1>5, <1>6, <1>7, <1>8, <1>9, <1>10 DEF SceneIInv

\* A step of the typed turn, or of nobody: no delivery gets the floor by it, and none
\* has it while the conversation grows.
LEMMA FloorPasses ==
    ASSUME SceneIInv, UNCHANGED <<request, control, delivery>>,
           typed' \in [at : {"idle", "claimed", "thinking"}, count : Instants],
           scene' \in Seq(Relations), NewestFirst', ClicksHold',
           floor' \in Floors, floor'.interaction = floor.interaction,
           \A e \in Deliveries : floor'.active = e => floor.active = e /\ story' = story,
           Grows(story'), overruled' \subseteq Speakers, setbacks' \in 0..MaxSetbacks
    PROVE  SceneIInv'
<1>1. SceneShapes'
  BY DEF SceneIInv, SceneShapes, Grows
<1>2. CommandsNumbered' /\ ClearsAsClicked' /\ DoneCommands' = DoneCommands
  BY DEF SceneIInv, CommandsNumbered, ClearsAsClicked, Done, DoneCommands
<1>3. Told'
  BY <1>2 DEF Told, Grows
<1>4. Served'
  <2>1. SUFFICES ASSUME NEW e \in Deliveries PROVE Serving(e)'
    BY DEF Served
  <2>2. Serving(e)
    BY DEF SceneIInv, Served
  <2>3. \A c : EventOf(c)' = EventOf(c) /\ Done(c)' = Done(c)
    BY DEF EventOf, Entry, Done
  <2>4. EventsOf(delivery[e].command, story.archive) # {}
           => EventsOf(delivery'[e].command, story'.archive) # {}
    BY DEF EventsOf, Grows
  <2>5. QED
    BY <2>2, <2>3, <2>4 DEF Serving
<1>5. QED
  BY <1>1, <1>2, <1>3, <1>4 DEF SceneIInv

LEMMA OverruleIInv == ASSUME SceneIInv, Overrule PROVE SceneIInv'
<1>1. /\ floor.active \in Deliveries /\ overruled' = overruled \cup {floor.active}
      /\ UNCHANGED <<scene, request, control, story, delivery, typed, floor, setbacks>>
  BY DEF Overrule
<1>2. NewestFirst' /\ ClicksHold'
  BY <1>1 DEF SceneIInv, NewestFirst, ClicksHold, Past, Intact, Broken, Surplus
<1>3. overruled' \subseteq Speakers
  BY <1>1 DEF SceneIInv, SceneShapes, Speakers
<1>4. QED
  BY <1>1, <1>2, <1>3, StoryGrows, FloorPasses DEF SceneIInv, SceneShapes

LEMMA TypingIsNoDelivery == Typing \in Speakers /\ Typing \notin Deliveries /\ NoOne \notin Deliveries
<1>1. MaxDeliveries \in Nat
  BY SceneConstants
<1>2. QED
  BY <1>1 DEF Typing, Speakers, Deliveries, NoOne

\* From idle the claimed turn has a later instant than everything so far.
LEMMA TypedClaimsIInv == ASSUME SceneIInv, TypedClaims PROVE SceneIInv'
<1>1. /\ typed.at = "idle" /\ typed.count < MaxStatements
      /\ typed' = [at |-> "claimed", count |-> typed.count + 1]
      /\ floor' = [floor EXCEPT !.active = Typing]
      /\ overruled' = (overruled \cup ({floor.active} \ {NoOne})) \ {Typing}
      /\ UNCHANGED <<scene, request, control, story, delivery, setbacks>>
  BY DEF TypedClaims, ClaimFloor
<1>2. typed.count \in Nat /\ typed.count + 1 \in Instants
  BY <1>1, SceneConstants DEF SceneIInv, SceneShapes, Instants
<1>3. typed' \in [at : {"idle", "claimed", "thinking"}, count : Instants]
  BY <1>1, <1>2
<1>4. \A at \in Nat : Past(at) => Past(at)'
  BY <1>1, <1>2 DEF Past
<1>5. \A i \in DOMAIN scene : scene[i].from \in Nat
  BY SceneEntries DEF SceneIInv, SceneShapes
<1>6. NewestFirst'
  BY <1>1, <1>4, <1>5 DEF SceneIInv, NewestFirst
<1>7. \A c \in Commands : request[c] # NoRequest => request[c].revision[1] \in Nat
  <2>1. SUFFICES ASSUME NEW c \in Commands, request[c] # NoRequest
                 PROVE  request[c].revision[1] \in Nat
    OBVIOUS
  <2>2. /\ request[c].place \in 1..Len(request[c].revision)
        /\ request[c].revision \in Seq(Instants)
    BY <2>1 DEF SceneIInv, SceneShapes, ClicksHold, Clicked, Revisions
  <2>3. 1 \in 1..Len(request[c].revision)
    BY <2>2, LenProperties
  <2>4. request[c].revision[1] \in Instants
    BY <2>2, <2>3, LenProperties
  <2>5. QED
    BY <2>4, SceneConstants DEF Instants
<1>8. ClicksHold'
  BY <1>1, <1>4, <1>7 DEF SceneIInv, ClicksHold, Intact, Broken, Surplus
<1>9. /\ floor' \in Floors /\ floor'.active = Typing /\ floor'.interaction = floor.interaction
  BY <1>1, TypingIsNoDelivery, FloorTaken DEF SceneIInv, SceneShapes
<1>10. overruled' \subseteq Speakers
  BY <1>1 DEF SceneIInv, SceneShapes, Speakers, Floors
<1>11. \A e \in Deliveries : floor'.active # e
  BY <1>9, TypingIsNoDelivery
<1>12. scene' \in Seq(Relations) /\ setbacks' \in 0..MaxSetbacks /\ Grows(story')
  BY <1>1, StoryGrows DEF SceneIInv, SceneShapes
<1>13. QED
  BY <1>1, <1>3, <1>6, <1>8, <1>9, <1>10, <1>11, <1>12, FloorPasses

LEMMA TypedBeginsIInv == ASSUME SceneIInv, TypedBegins PROVE SceneIInv'
<1>1. /\ typed.at = "claimed" /\ typed' = [typed EXCEPT !.at = "thinking"]
      /\ floor' = Locked(Typing)
      /\ UNCHANGED <<scene, request, control, story, delivery, overruled, setbacks>>
  BY DEF TypedBegins
<1>2. typed' \in [at : {"idle", "claimed", "thinking"}, count : Instants]
      /\ typed'.count = typed.count
  BY <1>1 DEF SceneIInv, SceneShapes
<1>3. \A at : Past(at) => Past(at)'
  BY <1>1, <1>2 DEF Past
<1>4. NewestFirst' /\ ClicksHold'
  BY <1>1, <1>3 DEF SceneIInv, NewestFirst, ClicksHold, Intact, Broken, Surplus
<1>5. floor' \in Floors /\ floor'.interaction = floor.interaction /\ floor'.active = floor.active
  BY <1>1, TypingIsNoDelivery, FloorTaken DEF SceneIInv, SceneShapes, Locked
<1>6. /\ scene' \in Seq(Relations) /\ overruled' \subseteq Speakers
      /\ setbacks' \in 0..MaxSetbacks /\ Grows(story')
  BY <1>1, StoryGrows DEF SceneIInv, SceneShapes
<1>7. QED
  BY <1>1, <1>2, <1>4, <1>5, <1>6, FloorPasses


\* What a typed turn adds is newer than all that was shown; and no gesture that may
\* still react has the floor then.
LEMMA TypedEndsIInv == ASSUME SceneIInv, TypedEnds PROVE SceneIInv'
<1>1. /\ typed.at = "thinking" /\ typed' = [typed EXCEPT !.at = "idle"]
      /\ floor' = Ended(Unlocked(floor), Typing)
      /\ UNCHANGED <<request, control, delivery, overruled, setbacks>>
  BY DEF TypedEnds
<1>2. typed' \in [at : {"idle", "claimed", "thinking"}, count : Instants]
      /\ typed'.count = typed.count /\ typed'.at = "idle" /\ typed.count \in Instants
  BY <1>1 DEF SceneIInv, SceneShapes
<1>3. typed.count \in Nat
  BY <1>2, SceneConstants DEF Instants
<1>4. \A at \in Nat : Past(at) => Past(at)' /\ at < typed.count
  BY <1>1, <1>2, <1>3 DEF Past
<1>5. /\ floor' \in Floors /\ floor'.active \in {floor.active, NoOne} /\ floor'.active # Typing
      /\ floor'.interaction = floor.interaction
  <2>1. PICK f : f = Unlocked(floor)
    OBVIOUS
  <2>2. f \in Floors /\ f.active = floor.active /\ f.interaction = floor.interaction
    BY <2>1, FloorGivenBack DEF SceneIInv, SceneShapes
  <2>3. Typing # NoOne
    BY SceneConstants DEF Typing, NoOne
  <2>4. floor' = Ended(f, Typing)
    BY <1>1, <2>1
  <2>5. /\ Ended(f, Typing) \in Floors /\ Ended(f, Typing).active \in {f.active, NoOne}
        /\ Ended(f, Typing).active # Typing \/ Typing = NoOne
        /\ Ended(f, Typing).interaction = f.interaction
    BY <2>2, FloorGivenBack
  <2>6. QED
    BY <2>2, <2>3, <2>4, <2>5
<1>6. \A e \in Deliveries : floor'.active = e => floor.active = e
  BY <1>5, TypingIsNoDelivery
<1>7. \A i \in DOMAIN scene : scene[i].from \in Nat
  BY SceneEntries DEF SceneIInv, SceneShapes
<1>8. \A c \in Commands : request[c] # NoRequest =>
          request[c] \in Clicked /\ request[c].revision[1] \in Nat
  <2>1. SUFFICES ASSUME NEW c \in Commands, request[c] # NoRequest
                 PROVE  request[c] \in Clicked /\ request[c].revision[1] \in Nat
    OBVIOUS
  <2>2. /\ request[c] \in Clicked /\ request[c].place \in 1..Len(request[c].revision)
        /\ request[c].revision \in Seq(Instants)
    BY <2>1 DEF SceneIInv, SceneShapes, ClicksHold, Clicked, Revisions
  <2>3. 1 \in 1..Len(request[c].revision)
    BY <2>2, LenProperties
  <2>4. request[c].revision[1] \in Instants
    BY <2>2, <2>3, LenProperties
  <2>5. QED
    BY <2>2, <2>4, SceneConstants DEF Instants
<1>9. scene' \in Seq(Relations) /\ NewestFirst' /\ ClicksHold'
  <2>1. CASE UNCHANGED scene
    <3>1. NewestFirst'
      BY <1>4, <1>7, <2>1 DEF SceneIInv, NewestFirst
    <3>2. ClicksHold'
      BY <1>1, <1>4, <1>8, <2>1 DEF SceneIInv, ClicksHold, Intact, Broken, Surplus
    <3>3. QED
      BY <2>1, <3>1, <3>2 DEF SceneIInv, SceneShapes
  <2>2. CASE scene' = Changed(scene, typed.count)
    <3>1. PICK n : n = Len(scene)
      OBVIOUS
    <3>2. /\ scene' \in Seq(Relations) /\ Len(scene') = n + 2
          /\ scene'[1].from = typed.count /\ scene'[2].from = typed.count
          /\ \A i \in 1..n : scene'[i + 2] = scene[i]
      BY <1>2, <2>2, <3>1, PushedDown DEF SceneIInv, SceneShapes
    <3>3. n \in Nat /\ DOMAIN scene = 1..n /\ DOMAIN scene' = 1..n + 2
      BY <3>1, <3>2, LenProperties DEF SceneIInv, SceneShapes
    <3>4. \A i \in DOMAIN scene' : \/ i \in 1..2 /\ scene'[i].from = typed.count
                                   \/ i - 2 \in 1..n /\ scene'[i] = scene[i - 2]
      <4>1. TAKE i \in DOMAIN scene'
      <4>2. CASE i \in 1..2
        BY <3>2, <4>2
      <4>3. CASE i \notin 1..2
        <5>1. i - 2 \in 1..n /\ (i - 2) + 2 = i
          BY <3>3, <4>3
        <5>2. QED
          BY <3>2, <5>1
      <4>4. QED
        BY <4>2, <4>3
    <3>5. \A i \in 1..n : scene[i].from \in Nat /\ scene[i].from < typed.count
      BY <1>4, <1>7, <3>3 DEF SceneIInv, NewestFirst
    <3>6. NewestFirst'
      <4>1. \A i \in DOMAIN scene' : scene'[i].from <= typed.count
        BY <1>3, <3>4, <3>5
      <4>2. \A i \in DOMAIN scene' : i > 1 => scene'[i - 1].from >= scene'[i].from
        <5>1. SUFFICES ASSUME NEW i \in DOMAIN scene', i > 1
                       PROVE  scene'[i - 1].from >= scene'[i].from
          OBVIOUS
        <5>2. i - 1 \in DOMAIN scene' /\ i \in Nat
          BY <3>3, <5>1
        <5>3. CASE i \in 1..2
          BY <1>3, <3>2, <5>1, <5>3
        <5>4. CASE i = 3
          <6>1. 1 \in 1..n /\ i - 2 = 1 /\ i - 1 = 2
            BY <3>3, <5>1, <5>4
          <6>2. scene'[i] = scene[1] /\ scene'[i - 1].from = typed.count
            BY <3>2, <3>4, <5>4, <6>1
          <6>3. QED
            BY <1>3, <3>5, <6>1, <6>2
        <5>5. CASE i > 3
          <6>1. /\ i - 2 \in 1..n /\ i - 3 \in 1..n /\ i - 2 > 1 /\ (i - 2) - 1 = i - 3
                /\ (i - 2) + 2 = i /\ (i - 3) + 2 = i - 1
            BY <3>3, <5>1, <5>5
          <6>2. scene'[i] = scene[i - 2] /\ scene'[i - 1] = scene[i - 3]
            BY <3>2, <6>1
          <6>3. scene[i - 3].from >= scene[i - 2].from
            BY <3>3, <6>1 DEF SceneIInv, NewestFirst
          <6>4. QED
            BY <6>2, <6>3
        <5>6. QED
          BY <3>3, <5>1, <5>3, <5>4, <5>5
      <4>3. QED
        BY <1>2, <4>1, <4>2 DEF NewestFirst, Past
    <3>7. ClicksHold'
      <4>1. SUFFICES ASSUME NEW c \in Commands, request[c] # NoRequest
                     PROVE  /\ request[c].place \in 1..Len(request[c].revision)
                            /\ Past(request[c].revision[1])'
                            /\ Intact(scene', request[c]) \/ Broken(scene', request[c])
        BY <1>1 DEF ClicksHold, Past, Intact, Broken, Surplus
      <4>2. /\ request[c] \in Clicked /\ request[c].revision[1] \in Nat
            /\ request[c].place \in 1..Len(request[c].revision) /\ Past(request[c].revision[1])
            /\ Intact(scene, request[c]) \/ Broken(scene, request[c])
        BY <1>8, <4>1 DEF SceneIInv, ClicksHold
      <4>3. request[c].revision[1] < typed.count /\ Past(request[c].revision[1])'
        <5>1. PICK at \in Nat : at = request[c].revision[1]
          BY <4>2
        <5>2. Past(at)' /\ at < typed.count
          BY <1>4, <4>2, <5>1
        <5>3. at <= typed'.count /\ (typed'.at # "idle" => at < typed'.count)
          BY <5>2 DEF Past
        <5>4. request'[c].revision[1] = at
          BY <1>1, <5>1
        <5>5. QED
          BY <5>1, <5>2, <5>3, <5>4 DEF Past
      <4>4. Intact(scene', request[c]) \/ Broken(scene', request[c])
        BY <1>2, <2>2, <4>2, <4>3, SnapshotAfterStatement DEF SceneIInv, SceneShapes
      <4>5. QED
        BY <4>2, <4>3, <4>4
    <3>8. QED
      BY <3>2, <3>6, <3>7
  <2>3. QED
    BY <2>1, <2>2 DEF TypedEnds
<1>10. Grows(story') /\ (story' = story \/ \A e \in Deliveries : floor'.active # e)
  <2>1. CASE story' = story
    BY <2>1, StoryGrows
  <2>2. CASE story' # story
    <3>1. PICK x : x = Entry("turn", NoOne, <<>>)
      OBVIOUS
    <3>2. x \in Records /\ x.kind = "turn"
      BY <3>1, EmptySeq DEF Entry, Records, Revisions
    <3>3. PICK saved : saved = Append(story.memory, x)
      OBVIOUS
    <3>4. /\ OwnsFloor(Typing) /\ ~story.blocked
          /\ story' = [story EXCEPT !.memory = saved, !.archive = saved]
      BY <2>2, <3>1, <3>3 DEF TypedEnds
    <3>5. story \in Stories /\ story.memory = story.archive /\ story.archive \in Seq(Records)
          /\ WellTold(story.archive, DoneCommands)
      BY <3>4 DEF SceneIInv, SceneShapes, Told, Stories
    <3>6. saved \in Seq(Records) /\ WellTold(saved, DoneCommands)
          /\ \A i \in DOMAIN story.archive : i \in DOMAIN saved /\ saved[i] = story.archive[i]
      BY <3>2, <3>3, <3>5, AppendedEntry, TellMore
    <3>7. story' \in Stories /\ story'.memory = saved /\ story'.archive = saved
      BY <3>4, <3>5, <3>6 DEF Stories
    <3>8. \A e \in Deliveries : floor'.active # e
      BY <1>5, <3>4, TypingIsNoDelivery DEF OwnsFloor
    <3>9. QED
      BY <3>5, <3>6, <3>7, <3>8 DEF Grows
  <2>3. QED
    BY <2>1, <2>2
<1>11. overruled' \subseteq Speakers /\ setbacks' \in 0..MaxSetbacks
  BY <1>1 DEF SceneIInv, SceneShapes
<1>12. QED
  BY <1>1, <1>2, <1>5, <1>6, <1>9, <1>10, <1>11, FloorPasses

\* The process dies: the conversation is what was saved.
LEMMA DiesIInv == ASSUME SceneIInv, Dies PROVE SceneIInv'
<1>1. /\ setbacks > 0 /\ setbacks' = setbacks - 1
      /\ delivery' = [d \in Deliveries |->
             IF delivery[d].at = "none" THEN NotDelivered ELSE Finished]
      /\ story' = [memory |-> story.archive, archive |-> story.archive, blocked |-> FALSE]
      /\ typed' = [typed EXCEPT !.at = "idle"]
      /\ floor' = [active |-> NoOne, lock |-> NoOne, interaction |-> NoOne]
      /\ overruled' = {} /\ UNCHANGED <<scene, request, control>>
  BY DEF Dies
<1>2. /\ Finished \in Delivered /\ Finished.at = "done" /\ Finished.answer = "none"
      /\ NotDelivered \in Delivered /\ NotDelivered.at = "none" /\ NotDelivered.answer = "none"
  BY DEF Finished, NotDelivered, Delivered, DeliveryPlaces
<1>3. /\ delivery' \in [Deliveries -> Delivered]
      /\ \A d \in Deliveries : \/ /\ delivery[d].at = "none" /\ delivery'[d] = NotDelivered
                               \/ /\ delivery[d].at # "none" /\ delivery'[d] = Finished
  BY <1>1, <1>2
<1>4. typed' \in [at : {"idle", "claimed", "thinking"}, count : Instants]
      /\ typed'.count = typed.count /\ typed'.at = "idle"
  BY <1>1 DEF SceneIInv, SceneShapes
<1>5. \A at : Past(at) => Past(at)'
  BY <1>4 DEF Past
<1>6. SceneShapes'
  <2>1. story' \in Stories
    BY <1>1 DEF SceneIInv, SceneShapes, Stories
  <2>2. floor' \in Floors /\ setbacks' \in 0..MaxSetbacks
    BY <1>1, SceneConstants DEF SceneIInv, SceneShapes, Floors
  <2>3. QED
    BY <1>1, <1>3, <1>4, <2>1, <2>2 DEF SceneIInv, SceneShapes
<1>7. CommandsNumbered'
  BY <1>1, <1>2, <1>3 DEF SceneIInv, CommandsNumbered
<1>8. NewestFirst' /\ ClicksHold'
  BY <1>1, <1>5 DEF SceneIInv, NewestFirst, ClicksHold, Intact, Broken, Surplus
<1>9. ClearsAsClicked' /\ Told'
  BY <1>1 DEF SceneIInv, ClearsAsClicked, Told, Done, DoneCommands
<1>10. Served'
  BY <1>2, <1>3 DEF Served, Serving
<1>11. QED
  BY <1>6, <1>7, <1>8, <1>9, <1>10 DEF SceneIInv

LEMMA SceneRestIInv == ASSUME SceneIInv, UNCHANGED sceneVars PROVE SceneIInv'
<1>1. /\ UNCHANGED <<scene, request, control, story, delivery, typed>>
      /\ UNCHANGED <<floor, overruled, setbacks>>
  BY DEF sceneVars
<1>2. NewestFirst' /\ ClicksHold'
  BY <1>1 DEF SceneIInv, NewestFirst, ClicksHold, Past, Intact, Broken, Surplus
<1>3. QED
  BY <1>1, <1>2, StoryGrows, FloorPasses DEF SceneIInv, SceneShapes

LEMMA SceneNextIInv == SceneIInv /\ [SceneNext]_sceneVars => SceneIInv'
<1> SUFFICES ASSUME SceneIInv, [SceneNext]_sceneVars PROVE SceneIInv'
  OBVIOUS
<1>1. CASE \E d \in Deliveries, c \in Commands : DeliverGesture(d, c) \/ ControlSilently(d, c)
  BY <1>1, DeliverGestureIInv, ControlSilentlyIInv
<1>2. CASE \E d \in Deliveries : DeliveryStep(d)
  <2>1. PICK d \in Deliveries : DeliveryStep(d)
    BY <1>2
  <2>2. CASE TakeInteraction(d) \/ FindDuplicate(d) \/ ApplyGesture(d) \/ RefuseStale(d)
    BY <2>2, TakeInteractionIInv, FindDuplicateIInv, ApplyGestureIInv, RefuseStaleIInv
  <2>3. CASE FindEvent(d) \/ SaveEvent(d) \/ SaveEventFails(d)
    BY <2>3, FindEventIInv, SaveEventIInv, SaveEventFailsIInv
  <2>4. CASE BeginReaction(d) \/ CommitReaction(d) \/ WithdrawReaction(d) \/ Leave(d)
    BY <2>4, BeginReactionIInv, CommitReactionIInv, WithdrawReactionIInv, LeaveIInv
  <2>5. QED
    BY <2>1, <2>2, <2>3, <2>4 DEF DeliveryStep
<1>3. CASE Overrule \/ TypedClaims \/ TypedStep \/ Dies
  BY <1>3, OverruleIInv, TypedClaimsIInv, TypedBeginsIInv, TypedEndsIInv, DiesIInv DEF TypedStep
<1>4. CASE UNCHANGED sceneVars
  BY <1>4, SceneRestIInv
<1>5. QED
  BY <1>1, <1>2, <1>3, <1>4 DEF SceneNext

\* The strengthened invariant of the scene commands holds of every behaviour.
THEOREM SceneInductive == SceneSpec => []SceneIInv
<1>1. SceneIInv /\ [SceneNext]_sceneVars => SceneIInv'
  BY SceneNextIInv
<1>2. QED
  BY <1>1, SceneInitIInv, PTL DEF SceneSpec

\* What the strengthened invariant says of the conversation, the answers and the types.
LEMMA SceneImplies == SceneIInv => StoryFollowsScene /\ AnswersAreTrue /\ SceneTypeOK
<1> SUFFICES ASSUME SceneIInv PROVE StoryFollowsScene /\ AnswersAreTrue /\ SceneTypeOK
  OBVIOUS
<1>1. StoryFollowsScene
  <2>1. WellTold(story.archive, DoneCommands)
    BY DEF SceneIInv, Told
  <2>2. ASSUME NEW c \in Commands
        PROVE  /\ Cardinality(EventsOf(c, story.archive)) <= 1
               /\ EventsOf(c, story.archive) # {} => Done(c)
    <3>1. \A i, j \in EventsOf(c, story.archive) : i = j
      BY <2>1 DEF WellTold, EventsOf
    <3>2. EventsOf(c, story.archive) # {} => Done(c)
      BY <2>1 DEF WellTold, EventsOf, DoneCommands
    <3>3. CASE EventsOf(c, story.archive) = {}
      BY <3>3, FS_EmptySet
    <3>4. CASE EventsOf(c, story.archive) # {}
      <4>1. PICK i : EventsOf(c, story.archive) = {i}
        BY <3>1, <3>4
      <4>2. Cardinality({i}) = 1
        BY FS_Singleton
      <4>3. QED
        BY <3>2, <4>1, <4>2
    <3>5. QED
      BY <3>2, <3>3, <3>4
  <2>3. QED
    BY <2>1, <2>2 DEF StoryFollowsScene, WellTold
<1>2. AnswersAreTrue
  BY DEF SceneIInv, ClearsAsClicked, Served, Serving, AnswersAreTrue
<1>3. SceneTypeOK
  <2>1. SceneShapes
    BY DEF SceneIInv
  <2>2. \A i \in DOMAIN scene : scene[i].from \in 0..MaxStatements /\ scene[i].nth \in 1..2
    BY <2>1, SceneEntries DEF SceneShapes, Relations, Instants
  <2>3. \A r \in ToSet(story.memory) \cup ToSet(story.archive) : Entries(r)
    <3>1. \A s \in Seq(Records) : \A r \in ToSet(s) : r \in Records
      BY LenProperties DEF ToSet
    <3>2. QED
      BY <2>1, <3>1 DEF SceneShapes, Stories, Records, Entries
  <2>4. QED
    BY <2>1, <2>2, <2>3 DEF SceneShapes, Stories, Delivered, Floors, Instants, SceneTypeOK
<1>4. QED
  BY <1>1, <1>2, <1>3

\* However often a command is delivered, and whatever crashes or fails between the
\* store and the conversation: the conversation tells of it at most once, only if it
\* was applied, and a reaction stands behind its event.
THEOREM StoryFollows == SceneSpec => []StoryFollowsScene
  BY SceneImplies, SceneInductive, PTL

\* What the frontend is told is so: an accepted command cleared the relation that was
\* clicked on, and an event called committed is in the file.
THEOREM AnswersStayTrue == SceneSpec => []AnswersAreTrue
  BY SceneImplies, SceneInductive, PTL

-----------------------------------------------------------------------------
(* The parts under one configuration.                                      *)

\* A step is a step of one part, and of the others none: what each part keeps on its
\* own it keeps here.
ControlsIInv == hand \in Hands /\ IInv /\ SceneIInv /\ LaneIInv /\ VoiceIInv

LEMMA ControlsNextIInv == ControlsIInv /\ [ControlsNext]_controlVars => ControlsIInv'
<1> SUFFICES ASSUME ControlsIInv, [ControlsNext]_controlVars PROVE ControlsIInv'
  OBVIOUS
<1>1. hand' = hand /\ [Next]_vars /\ [SceneNext]_sceneVars /\ [LaneNext]_laneVars
      /\ [VoiceNext]_voiceVars
  BY DEF ControlsNext, controlVars, Presses, Gestures, Clones, Edits
<1>2. IInv'
  BY <1>1, NextIInv DEF ControlsIInv
<1>3. SceneIInv'
  BY <1>1, SceneNextIInv DEF ControlsIInv
<1>4. LaneIInv'
  BY <1>1, LaneNextIInv DEF ControlsIInv
<1>5. VoiceIInv'
  BY <1>1, VoiceNextIInv DEF ControlsIInv
<1>6. QED
  BY <1>1, <1>2, <1>3, <1>4, <1>5 DEF ControlsIInv

\* The invariants of the four parts hold of every behaviour of the whole.
THEOREM ControlsInductive == ControlsSpec => []ControlsIInv
<1>1. ControlsInit => ControlsIInv
  BY InitIInv, SceneInitIInv, InitLane, VoiceInitIInv DEF ControlsInit, ControlsIInv
<1>2. ControlsIInv /\ [ControlsNext]_controlVars => ControlsIInv'
  BY ControlsNextIInv
<1>3. QED
  BY <1>1, <1>2, PTL DEF ControlsSpec

\* Every variable of the four parts keeps its type.
THEOREM ControlsKeepType == ControlsSpec => []ControlsTypeOK
<1>1. ControlsIInv => ControlsTypeOK
  BY SceneImplies, LaneTypes, VoiceImplies DEF ControlsIInv, IInv, ControlsTypeOK
<1>2. QED
  BY <1>1, ControlsInductive, PTL

\* The safety of each part, as the run of the whole checks it: no text of the newest
\* capture is lost, the conversation follows the scene, what a frontend is told is so,
\* a clone's answer is the asker's own, and the voice and the typed reply are kept.
THEOREM ControlsAreSafe ==
    ControlsSpec => []( /\ NothingLost /\ StoryFollowsScene /\ AnswersAreTrue
                        /\ AnswersAreOwn /\ VoiceIsOwned /\ TypedReplyKept )
<1>1. ControlsIInv => /\ NothingLost /\ StoryFollowsScene /\ AnswersAreTrue
                      /\ AnswersAreOwn /\ VoiceIsOwned /\ TypedReplyKept
  BY SceneImplies, VoiceImplies DEF ControlsIInv, IInv, LaneIInv
<1>2. QED
  BY <1>1, ControlsInductive, PTL
=============================================================================
