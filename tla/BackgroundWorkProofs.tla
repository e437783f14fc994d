------------------------ MODULE BackgroundWorkProofs ------------------------
(***************************************************************************)
(* TLAPS proofs about the services beside a turn, each for any number of   *)
(* its steps: the frontend session of the host, the local model server,    *)
(* canonical observation, the schedule of check-ins and the compaction of  *)
(* episodes, and about the five side by side.                              *)
(***************************************************************************)
EXTENDS BackgroundWork, SequenceTheorems, FiniteSetTheorems, WellFoundedInduction, TLAPS

-----------------------------------------------------------------------------
(* The frontend session.                                                   *)

HostStages == {"ready", "preparing", "cancelling", "waiting", "loading", "bound"}
Holders    == {NoHolder} \cup
    [of : Characters, step : {"replying", "drafting", "publishing", "silent"}]
Stamps     == [character : Characters, session : Sessions, generation : {0}]

HostShapes ==
    /\ service \in [character : Characters, session : Sessions]
    /\ holder \in Holders
    /\ emitting \in {NotEmitting} \cup
           [stage : {"emitted", "admitted"}, origin : Characters, stamp : Stamps]
    /\ host \in [stage : HostStages, target : Characters \cup {Nobody},
                 generation : Generations, client : Nat, handler : Nat, connections : Nat]
    /\ sends \subseteq [origin : Characters, stamp : Bindings]
    /\ client \in [conn : Nat, current : Bindings \cup {NoBinding}, latest : Nat,
                   switching : BOOLEAN, refused : BOOLEAN]
    /\ shown \in [origin : Characters \cup {Nobody}, under : Characters \cup {Nobody}]

\* A switch opens two sessions: one to retire the old controls, one to load.
SessionsCounted ==
    service.session <= 2 * host.generation -
        (CASE host.stage \in {"ready", "bound"} -> 1
           [] host.stage = "preparing" -> 3 [] OTHER -> 2)

\* A typed input speaks for the bound character and never outlasts the look at
\* the turn lock; a check-in in the commit boundary speaks for it too, except
\* while the switch that rebound the service waits for that boundary, and
\* nothing said then is admitted.
OwnHolder ==
    /\ holder.step = "replying"
         => holder.of = service.character /\ host.stage \notin {"loading", "bound"}
    /\ holder.step = "publishing" /\ host.stage # "bound" => holder.of = service.character
    /\ host.stage # "ready" => host.target \in Characters

OwnEvents ==
    /\ emitting # NotEmitting => holder.step \in {"replying", "publishing"}
    /\ host.stage # "bound" => emitting.origin = emitting.stamp.character
    /\ emitting.stage = "admitted" => host.stage \notin {"loading", "bound"}

\* Every frame says who it is of.
OwnWords ==
    /\ \A frame \in sends : frame.origin = frame.stamp.character
    /\ shown.origin = shown.under

\* The frontend is on the host's connection; while a switch goes on it is the one
\* that asked for it, or one that came since and was refused its snapshot.
Connected ==
    /\ client.conn <= host.connections /\ host.handler <= host.connections
    /\ client.conn # NoConnection => host.client = client.conn
    /\ client.latest <= host.generation
    /\ client.refused => client.current = NoBinding
    /\ host.stage = "ready" /\ client.conn # NoConnection /\ ~client.refused
         => client.current = Envelope /\ ~client.switching
    /\ host.stage # "ready" /\ client.conn # NoConnection
         => IF client.conn = host.handler THEN client.switching /\ client.latest = host.generation
            ELSE client.refused

HostIInv ==
    HostShapes /\ SessionsCounted /\ OwnHolder /\ OwnEvents /\ OwnWords /\ Connected


LEMMA HostConstants ==
    /\ MaxSwitches \in Nat
    /\ Generations = {g \in Nat : 1 <= g /\ g <= MaxSwitches + 1}
    /\ Sessions = {s \in Nat : 1 <= s /\ s <= 2 * MaxSwitches + 1}
<1>1. MaxSwitches \in Nat
  BY HostSessionAssumption, Zenon DEF HostSessionAssumption
<1>2. QED
  BY <1>1 DEF Generations, Sessions

\* What the service is bound to is a binding.
LEMMA EnvelopeIsBinding == ASSUME HostIInv PROVE Envelope \in Bindings /\ Envelope # NoBinding
  BY HostConstants DEF HostIInv, HostShapes, Envelope, Bindings, NoBinding

LEMMA HostInitIInv == HostInit => HostIInv
<1> SUFFICES ASSUME HostInit PROVE HostIInv
  OBVIOUS
<1>1. PICK c \in Characters : service = [character |-> c, session |-> 1]
  BY DEF HostInit
<1>2. HostShapes
  BY <1>1, HostConstants DEF HostInit, HostShapes, HostStages, Holders, Unbound, NoConnection
<1>3. SessionsCounted
  BY <1>1 DEF HostInit, SessionsCounted
<1>4. OwnHolder /\ OwnEvents /\ OwnWords
  BY DEF HostInit, OwnHolder, OwnEvents, OwnWords, NotEmitting, NoHolder, NoBinding
<1>5. Connected
  BY DEF HostInit, Connected, Unbound, NoConnection
<1>6. QED
  BY <1>2, <1>3, <1>4, <1>5 DEF HostIInv

\* A turn begins, comes to its commit boundary, leaves it or ends: only the
\* holder of the turn lock changes.
LEMMA TurnMovesIInv ==
    ASSUME HostIInv,
           BeginTurn \/ BeginCheckIn \/ CommitCheckIn \/ LeaveBoundary \/ FinishTurn
    PROVE  HostIInv'
<1>1. UNCHANGED <<service, emitting, host, sends, client, shown>>
  BY DEF BeginTurn, BeginCheckIn, CommitCheckIn, LeaveBoundary, FinishTurn
<1>2. SessionsCounted' /\ OwnWords' /\ Connected'
  BY <1>1 DEF HostIInv, SessionsCounted, OwnHolder, OwnEvents, OwnWords, Connected, Envelope
<1>3. service.character \in Characters /\ holder \in Holders
  BY DEF HostIInv, HostShapes
<1>4. holder.step \in {"replying", "publishing"} \/ emitting = NotEmitting
  BY DEF HostIInv, OwnEvents
<1>5. holder' \in Holders /\ OwnHolder' /\ OwnEvents'
  <2>1. CASE BeginTurn
    <3>1. holder' = [of |-> service.character, step |-> "replying"] /\ emitting = NotEmitting
          /\ host.stage \in {"ready", "preparing"}
      BY <1>4, <2>1 DEF BeginTurn, NoHolder
    <3>2. QED
      BY <1>1, <1>3, <3>1 DEF Holders, HostIInv, OwnHolder, OwnEvents
  <2>2. CASE BeginCheckIn
    <3>1. holder' = [of |-> service.character, step |-> "drafting"] /\ emitting = NotEmitting
      BY <1>4, <2>2 DEF BeginCheckIn, NoHolder
    <3>2. QED
      BY <1>1, <1>3, <3>1 DEF Holders, HostIInv, OwnHolder, OwnEvents
  <2>3. CASE CommitCheckIn
    <3>1. holder \in [of : Characters, step : {"replying", "drafting", "publishing", "silent"}]
      BY <1>3, <2>3 DEF CommitCheckIn, Holders, NoHolder
    <3>2. holder' \in Holders /\ holder'.of = service.character /\ holder'.step = "publishing"
      BY <2>3, <3>1 DEF CommitCheckIn, Holders
    <3>3. emitting = NotEmitting
      BY <1>4, <2>3 DEF CommitCheckIn
    <3>4. QED
      BY <1>1, <3>2, <3>3 DEF HostIInv, OwnHolder, OwnEvents
  <2>4. CASE LeaveBoundary
    <3>1. holder \in [of : Characters, step : {"replying", "drafting", "publishing", "silent"}]
      BY <1>3, <2>4 DEF LeaveBoundary, Holders, NoHolder
    <3>2. holder' \in Holders /\ holder'.step = "silent" /\ emitting = NotEmitting
      BY <2>4, <3>1 DEF LeaveBoundary, Holders
    <3>3. QED
      BY <1>1, <3>2 DEF HostIInv, OwnHolder, OwnEvents
  <2>5. CASE FinishTurn
    <3>1. holder' \in Holders /\ holder'.step = "none" /\ emitting = NotEmitting
      BY <2>5 DEF FinishTurn, Holders, NoHolder
    <3>2. QED
      BY <1>1, <3>1 DEF HostIInv, OwnHolder, OwnEvents
  <2>6. QED
    BY <2>1, <2>2, <2>3, <2>4, <2>5
<1>6. HostShapes'
  BY <1>1, <1>5 DEF HostIInv, HostShapes
<1>7. QED
  BY <1>2, <1>5, <1>6 DEF HostIInv

\* Events of a turn: the fence is not involved.
LEMMA EmitIInv == ASSUME HostIInv, Emit PROVE HostIInv'
<1>1. UNCHANGED <<service, holder, host, sends, client, shown>>
  BY DEF Emit
<1>2. SessionsCounted' /\ OwnHolder' /\ OwnWords' /\ Connected'
  BY <1>1 DEF HostIInv, SessionsCounted, OwnHolder, OwnWords, Connected, Envelope
<1>3. [NoBinding EXCEPT !.character = service.character, !.session = service.session] \in Stamps
  BY DEF HostIInv, HostShapes, NoBinding, Stamps
<1>4. holder.of \in Characters /\ (host.stage # "bound" => holder.of = service.character)
  BY DEF Emit, HostIInv, HostShapes, Holders, NoHolder, OwnHolder
<1>5. emitting' \in [stage : {"emitted", "admitted"}, origin : Characters, stamp : Stamps]
  BY <1>3, <1>4 DEF Emit
<1>6. /\ emitting'.origin = holder.of /\ emitting'.stamp.character = service.character
      /\ emitting'.stage = "emitted"
  BY DEF Emit, NoBinding
<1>7. OwnEvents'
  BY <1>1, <1>4, <1>6 DEF Emit, OwnEvents
<1>8. HostShapes'
  BY <1>1, <1>5 DEF HostIInv, HostShapes
<1>9. QED
  BY <1>2, <1>7, <1>8 DEF HostIInv

LEMMA CheckEventIInv == ASSUME HostIInv, CheckEvent PROVE HostIInv'
<1>1. UNCHANGED <<service, holder, host, sends, client, shown>>
  BY DEF CheckEvent
<1>2. SessionsCounted' /\ OwnHolder' /\ OwnWords' /\ Connected'
  BY <1>1 DEF HostIInv, SessionsCounted, OwnHolder, OwnWords, Connected, Envelope
<1>3. emitting \in [stage : {"emitted", "admitted"}, origin : Characters, stamp : Stamps]
  BY DEF CheckEvent, HostIInv, HostShapes, NotEmitting
<1>4. \/ emitting' = NotEmitting
      \/ emitting' = [emitting EXCEPT !.stage = "admitted"] /\ host.stage = "ready"
  BY DEF CheckEvent
<1>5. emitting # NotEmitting
  BY DEF CheckEvent, NotEmitting
<1>6. /\ emitting' \in {NotEmitting} \cup
             [stage : {"emitted", "admitted"}, origin : Characters, stamp : Stamps]
      /\ host.stage # "bound" => emitting'.origin = emitting'.stamp.character
      /\ emitting'.stage = "admitted" => host.stage = "ready"
  BY <1>3, <1>4 DEF HostIInv, OwnEvents, NotEmitting, NoBinding
<1>7. OwnEvents'
  BY <1>1, <1>5, <1>6 DEF HostIInv, OwnEvents
<1>8. HostShapes'
  BY <1>1, <1>6 DEF HostIInv, HostShapes
<1>9. QED
  BY <1>2, <1>7, <1>8 DEF HostIInv

LEMMA ScheduleSendIInv == ASSUME HostIInv, ScheduleSend PROVE HostIInv'
<1>1. UNCHANGED <<service, holder, host, client, shown>> /\ emitting' = NotEmitting
  BY DEF ScheduleSend
<1>2. SessionsCounted' /\ OwnHolder' /\ Connected'
  BY <1>1 DEF HostIInv, SessionsCounted, OwnHolder, Connected, Envelope
<1>3. emitting \in [stage : {"emitted", "admitted"}, origin : Characters, stamp : Stamps]
  BY DEF ScheduleSend, HostIInv, HostShapes, NotEmitting
<1>4. PICK s : s = [emitting.stamp EXCEPT !.generation = host.generation]
  OBVIOUS
<1>5. s \in Bindings /\ s.character = emitting.stamp.character
  BY <1>3, <1>4 DEF HostIInv, HostShapes, Bindings, Stamps
<1>6. sends' = sends \cup {[origin |-> emitting.origin, stamp |-> s]}
  BY <1>4 DEF ScheduleSend
<1>7. emitting.origin = emitting.stamp.character
  BY DEF ScheduleSend, HostIInv, OwnEvents
<1>8. sends' \subseteq [origin : Characters, stamp : Bindings]
  BY <1>3, <1>5, <1>6 DEF HostIInv, HostShapes
<1>9. OwnWords'
  BY <1>1, <1>5, <1>6, <1>7 DEF HostIInv, OwnWords
<1>10. OwnEvents'
  BY <1>1 DEF OwnEvents, NotEmitting, NoBinding
<1>11. HostShapes'
  BY <1>1, <1>8 DEF HostIInv, HostShapes
<1>12. QED
  BY <1>2, <1>9, <1>10, <1>11 DEF HostIInv

\* A frame is shown under the name it carries, or not at all.
LEMMA BroadcastIInv ==
    ASSUME HostIInv, NEW frame \in sends, Broadcast(frame) PROVE HostIInv'
<1>1. UNCHANGED <<service, holder, emitting, client>> /\ sends' \subseteq sends
  BY DEF Broadcast
<1>2. frame.origin = frame.stamp.character /\ frame \in [origin : Characters, stamp : Bindings]
  BY DEF HostIInv, HostShapes, OwnWords
<1>3. CASE Reached(host.client)
  <2>1. host' = host
    BY <1>3 DEF Broadcast
  <2>2. \/ shown' = shown
        \/ shown' = [origin |-> frame.origin, under |-> frame.stamp.character]
    BY <1>3 DEF Broadcast, AdmitsEvent
  <2>3. /\ shown'.origin = shown'.under
        /\ shown' \in [origin : Characters \cup {Nobody}, under : Characters \cup {Nobody}]
    BY <1>2, <2>2 DEF HostIInv, HostShapes, OwnWords, Bindings
  <2>4. QED
    BY <1>1, <2>1, <2>3
       DEF HostIInv, HostShapes, SessionsCounted, OwnHolder, OwnEvents, OwnWords, Connected, Envelope
<1>4. CASE ~Reached(host.client)
  <2>1. host' = [host EXCEPT !.client = NoConnection] /\ shown' = shown
    BY <1>4 DEF Broadcast
  <2>2. client.conn = NoConnection
    BY <1>4 DEF Reached, HostIInv, Connected
  <2>3. /\ host' \in [stage : HostStages, target : Characters \cup {Nobody},
                 generation : Generations, client : Nat, handler : Nat, connections : Nat]
        /\ host'.stage = host.stage /\ host'.generation = host.generation
        /\ host'.handler = host.handler /\ host'.connections = host.connections
        /\ host'.target = host.target
    BY <2>1 DEF HostIInv, HostShapes, NoConnection
  <2>4. QED
    BY <1>1, <2>1, <2>2, <2>3
       DEF HostIInv, HostShapes, SessionsCounted, OwnHolder, OwnEvents, OwnWords, Connected, Envelope
<1>5. QED
  BY <1>3, <1>4


Clients == [conn : Nat, current : Bindings \cup {NoBinding}, latest : Nat,
            switching : BOOLEAN, refused : BOOLEAN]

\* A snapshot no older than what the frontend knows is accepted, when it waits for
\* one or has none.
LEMMA SnapshotAccepted ==
    ASSUME NEW c \in Clients, NEW b \in Bindings, b.generation >= c.latest,
           c.switching \/ c.current = NoBinding
    PROVE  /\ AcceptSnapshot(c, b) \in Clients
           /\ AcceptSnapshot(c, b).conn = c.conn /\ AcceptSnapshot(c, b).current = b
           /\ AcceptSnapshot(c, b).latest = b.generation
           /\ ~AcceptSnapshot(c, b).switching /\ ~AcceptSnapshot(c, b).refused
<1>1. b.generation \in Nat
  BY HostConstants DEF Bindings
<1>2. AcceptSnapshot(c, b) = [c EXCEPT !.latest = b.generation, !.current = b,
                                       !.switching = FALSE, !.refused = FALSE]
  BY <1>1 DEF AcceptSnapshot, Clients
<1>3. QED
  BY <1>1, <1>2 DEF Clients

LEMMA StartSwitchIInv ==
    ASSUME HostIInv, NEW target \in Characters, StartSwitch(target) PROVE HostIInv'
<1>1. /\ client \in Clients /\ host.generation \in Generations /\ host.client \in Nat
      /\ client.conn = host.client /\ client.conn # NoConnection
      /\ client.latest <= host.generation /\ host.stage = "ready" /\ host.generation <= MaxSwitches
  BY DEF StartSwitch, HostIInv, HostShapes, Clients, Connected
<1> DEFINE next == host.generation + 1
<1>a. next \in Generations /\ next \in Nat
  BY <1>1, HostConstants
<1>2. client' = [client EXCEPT !.latest = next, !.current = NoBinding,
                               !.switching = TRUE]
  BY <1>1, HostConstants DEF StartSwitch, AcceptSwitching, Clients
<1>b. host' = [host EXCEPT !.stage = "preparing", !.target = target,
                           !.generation = next, !.handler = host.client]
  BY <1>1 DEF StartSwitch, HostIInv, HostShapes
<1>c. next > host.generation
  BY <1>1, HostConstants
<1> HIDE DEF next
<1>3. /\ client' \in Clients /\ client'.conn = client.conn /\ client'.current = NoBinding
      /\ client'.switching /\ client'.latest = next
  BY <1>1, <1>2, <1>a DEF Clients
<1>4. /\ host' \in [stage : HostStages, target : Characters \cup {Nobody},
                 generation : Generations, client : Nat, handler : Nat, connections : Nat]
      /\ host'.stage = "preparing" /\ host'.target = target
      /\ host'.generation = next /\ host'.client = host.client
      /\ host'.handler = host.client /\ host'.connections = host.connections
  BY <1>1, <1>a, <1>b DEF HostIInv, HostShapes, HostStages
<1>5. UNCHANGED <<service, holder, emitting, sends, shown>>
  BY DEF StartSwitch
<1>6. SessionsCounted'
  BY <1>1, <1>4, <1>5, HostConstants DEF next, HostIInv, HostShapes, SessionsCounted
<1>7. Connected'
  BY <1>1, <1>3, <1>4, <1>a, <1>c, HostConstants DEF HostIInv, HostShapes, Connected
<1>8. OwnHolder' /\ OwnEvents' /\ OwnWords'
  BY <1>1, <1>4, <1>5 DEF HostIInv, OwnHolder, OwnEvents, OwnWords
<1>9. HostShapes'
  BY <1>3, <1>4, <1>5 DEF HostIInv, HostShapes, Clients
<1>10. QED
  BY <1>6, <1>7, <1>8, <1>9 DEF HostIInv

LEMMA PrepareSwitchIInv == ASSUME HostIInv, PrepareSwitch PROVE HostIInv'
<1>1. /\ host' \in [stage : HostStages, target : Characters \cup {Nobody},
                 generation : Generations, client : Nat, handler : Nat, connections : Nat]
      /\ host.stage = "preparing" /\ host'.stage = "cancelling" /\ host'.target = host.target
      /\ host'.generation = host.generation /\ host'.client = host.client
      /\ host'.handler = host.handler /\ host'.connections = host.connections
  BY DEF PrepareSwitch, HostIInv, HostShapes, HostStages
<1>2. UNCHANGED <<holder, emitting, sends, client, shown>>
  BY DEF PrepareSwitch
<1>3. service'.character = service.character /\ service'.session = service.session + 1
  BY DEF PrepareSwitch, HostIInv, HostShapes
<1>4. service' \in [character : Characters, session : Sessions]
  BY <1>1, HostConstants DEF PrepareSwitch, HostIInv, HostShapes, SessionsCounted
<1>5. SessionsCounted'
  BY <1>1, <1>3, HostConstants DEF HostIInv, HostShapes, SessionsCounted
<1>6. Connected'
  BY <1>1, <1>2 DEF HostIInv, Connected
<1>7. OwnHolder' /\ OwnEvents' /\ OwnWords'
  BY <1>1, <1>2, <1>3 DEF HostIInv, OwnHolder, OwnEvents, OwnWords
<1>8. HostShapes'
  BY <1>1, <1>2, <1>4 DEF HostIInv, HostShapes
<1>9. QED
  BY <1>5, <1>6, <1>7, <1>8 DEF HostIInv

\* A turn that is cancelled or reset may only become silent, and one that is
\* neither replying nor publishing has no event on its way.
LEMMA InterruptedIsQuiet ==
    ASSUME HostIInv
    PROVE  /\ Interrupted \in Holders
           /\ Interrupted.step = "replying" <=> holder.step = "replying"
           /\ Interrupted.step = "publishing" <=> holder.step = "publishing"
           /\ Interrupted.of = holder.of
<1>1. holder \in Holders
  BY DEF HostIInv, HostShapes
<1>2. CASE holder.step = "drafting"
  <2>1. holder \in [of : Characters, step : {"replying", "drafting", "publishing", "silent"}]
    BY <1>1, <1>2 DEF Holders, NoHolder
  <2>2. Interrupted = [holder EXCEPT !.step = "silent"]
    BY <1>2 DEF Interrupted
  <2>3. QED
    BY <1>2, <2>1, <2>2 DEF Holders
<1>3. CASE holder.step # "drafting"
  BY <1>1, <1>3 DEF Interrupted
<1>4. QED
  BY <1>2, <1>3

\* The active turn is cancelled; the tasks are joined.
LEMMA SwitchGoesOnIInv == ASSUME HostIInv, CancelTurn \/ JoinTasks PROVE HostIInv'
<1>1. /\ host' \in [stage : HostStages, target : Characters \cup {Nobody},
                 generation : Generations, client : Nat, handler : Nat, connections : Nat]
      /\ \/ host.stage = "cancelling" /\ host'.stage = "waiting"
         \/ host.stage = "waiting" /\ host'.stage = "loading" /\ holder = NoHolder
      /\ host'.generation = host.generation /\ host'.client = host.client
      /\ host'.handler = host.handler /\ host'.connections = host.connections
      /\ host'.target = host.target
  BY DEF CancelTurn, JoinTasks, HostIInv, HostShapes, HostStages
<1>2. /\ UNCHANGED <<service, emitting, sends, client, shown>>
      /\ holder' \in {holder, Interrupted}
  BY DEF CancelTurn, JoinTasks
<1>3. /\ holder' \in Holders /\ holder'.of = holder.of
      /\ holder'.step = "replying" <=> holder.step = "replying"
      /\ holder'.step = "publishing" <=> holder.step = "publishing"
  BY <1>2, InterruptedIsQuiet DEF HostIInv, HostShapes
<1>4. holder = NoHolder => emitting = NotEmitting
  BY DEF HostIInv, OwnEvents, NoHolder
<1>5. SessionsCounted'
  BY <1>1, <1>2 DEF HostIInv, SessionsCounted
<1>6. Connected'
  BY <1>1, <1>2 DEF HostIInv, Connected
<1>7. OwnHolder'
  BY <1>1, <1>2, <1>3 DEF HostIInv, OwnHolder, NoHolder
<1>8. OwnEvents'
  BY <1>1, <1>2, <1>3, <1>4 DEF HostIInv, OwnEvents, NotEmitting
<1>9. OwnWords' /\ HostShapes'
  BY <1>1, <1>2, <1>3 DEF HostIInv, HostShapes, OwnWords
<1>10. QED
  BY <1>5, <1>6, <1>7, <1>8, <1>9 DEF HostIInv

\* The service is rebound, whoever holds the turn lock by now.
LEMMA LoadCharacterIInv == ASSUME HostIInv, LoadCharacter PROVE HostIInv'
<1>1. /\ host' \in [stage : HostStages, target : Characters \cup {Nobody},
                 generation : Generations, client : Nat, handler : Nat, connections : Nat]
      /\ host.stage = "loading" /\ host'.stage = "bound" /\ host'.target = host.target
      /\ host'.generation = host.generation /\ host'.client = host.client
      /\ host'.handler = host.handler /\ host'.connections = host.connections
  BY DEF LoadCharacter, HostIInv, HostShapes, HostStages
<1>2. UNCHANGED <<holder, emitting, sends, client, shown>>
  BY DEF LoadCharacter
<1>3. host.target \in Characters
  BY <1>1 DEF HostIInv, OwnHolder
<1>4. /\ service' = [character |-> host.target, session |-> service.session + 1]
      /\ service.session <= 2 * host.generation - 2
  BY <1>1 DEF LoadCharacter, HostIInv, HostShapes, SessionsCounted
<1>5. service.session + 1 \in Sessions
  BY <1>4, HostConstants DEF HostIInv, HostShapes
<1>6. service' \in [character : Characters, session : Sessions]
      /\ service'.session = service.session + 1
  BY <1>3, <1>4, <1>5
<1>7. SessionsCounted'
  BY <1>1, <1>4, <1>6, HostConstants DEF HostIInv, HostShapes, SessionsCounted
<1>8. Connected'
  BY <1>1, <1>2 DEF HostIInv, Connected
<1>9. OwnHolder' /\ OwnEvents' /\ OwnWords'
  BY <1>1, <1>2, <1>3 DEF HostIInv, OwnHolder, OwnEvents, OwnWords
<1>10. HostShapes'
  BY <1>1, <1>2, <1>6 DEF HostIInv, HostShapes
<1>11. QED
  BY <1>7, <1>8, <1>9, <1>10 DEF HostIInv

\* The end of a switch: whoever asked for it, if still there, gets the binding there
\* is now; whoever came since was refused one and asks again.
LEMMA SwitchEndsIInv ==
    ASSUME HostIInv, GiveUpWaiting \/ FinishSwitch \/ LoadFails PROVE HostIInv'
<1>1. /\ client \in Clients /\ host.generation \in Generations /\ host.handler \in Nat
      /\ host.stage \in {"waiting", "loading", "bound"} /\ Settle
      /\ UNCHANGED <<service, emitting, sends, shown>> /\ holder' \in {holder, Interrupted}
      /\ host.stage = "bound" => holder.step # "publishing"
  BY DEF GiveUpWaiting, FinishSwitch, LoadFails, HostIInv, HostShapes, Clients
<1>2. /\ host' \in [stage : HostStages, target : Characters \cup {Nobody},
                 generation : Generations, client : Nat, handler : Nat, connections : Nat]
      /\ host'.stage = "ready" /\ host'.generation = host.generation
      /\ host'.client = host.client /\ host'.handler = NoConnection
      /\ host'.connections = host.connections
  BY <1>1 DEF Settle, HostIInv, HostShapes, HostStages, NoConnection
<1>3. /\ holder' \in Holders /\ holder'.of = holder.of
      /\ holder'.step = "replying" <=> holder.step = "replying"
      /\ holder'.step = "publishing" <=> holder.step = "publishing"
  BY <1>1, InterruptedIsQuiet DEF HostIInv, HostShapes
<1>4. /\ Envelope' = Envelope /\ Envelope \in Bindings
      /\ Envelope.generation = host.generation
  BY <1>1, <1>2, EnvelopeIsBinding DEF Envelope
<1>5. SessionsCounted'
  BY <1>1, <1>2, HostConstants DEF HostIInv, HostShapes, SessionsCounted
<1>6. OwnHolder' /\ OwnEvents' /\ OwnWords'
  <2>1. host.stage = "bound" => emitting = NotEmitting
    BY <1>1 DEF HostIInv, OwnHolder, OwnEvents
  <2>2. OwnHolder'
    BY <1>1, <1>2, <1>3 DEF HostIInv, OwnHolder
  <2>3. OwnEvents'
    BY <1>1, <1>2, <1>3, <2>1 DEF HostIInv, OwnEvents, NotEmitting, NoBinding
  <2>4. OwnWords'
    BY <1>1 DEF HostIInv, OwnWords
  <2>5. QED
    BY <2>2, <2>3, <2>4
<1>7. client' \in Clients /\ Connected'
  <2>1. CASE Reached(host.handler)
    <3>1. client.conn = host.handler /\ client.conn # NoConnection
      BY <2>1 DEF Reached
    <3>2. client.switching /\ client.latest = host.generation
      BY <1>1, <3>1 DEF HostIInv, Connected
    <3>3. client' = AcceptSnapshot(client, Envelope)
      BY <1>1, <2>1 DEF Settle, SendSnapshot
    <3>4. Envelope.generation >= client.latest
      BY <1>1, <1>4, <3>2, HostConstants
    <3>5. /\ client' \in Clients /\ client'.conn = client.conn /\ client'.current = Envelope
          /\ client'.latest = host.generation /\ ~client'.switching /\ ~client'.refused
      BY <1>1, <1>4, <3>2, <3>3, <3>4, SnapshotAccepted
    <3>6. QED
      BY <1>1, <1>2, <1>4, <3>5, HostConstants DEF HostIInv, HostShapes, Connected, NoConnection
  <2>2. CASE ~Reached(host.handler)
    <3>1. client' = client
      BY <1>1, <2>2 DEF Settle, SendSnapshot
    <3>2. client.conn # NoConnection => client.refused
      BY <1>1, <2>2 DEF Reached, HostIInv, Connected
    <3>3. QED
      BY <1>1, <1>2, <3>1, <3>2, HostConstants DEF HostIInv, HostShapes, Connected, NoConnection
  <2>3. QED
    BY <2>1, <2>2
<1>8. HostShapes'
  BY <1>1, <1>2, <1>3, <1>7 DEF HostIInv, HostShapes, Clients
<1>9. QED
  BY <1>5, <1>6, <1>7, <1>8 DEF HostIInv

\* The frontend hangs up, comes again, or asks again.
LEMMA HangUpIInv == ASSUME HostIInv, HangUp PROVE HostIInv'
<1>1. /\ client' \in Clients /\ client'.conn = NoConnection /\ client'.latest = 0
      /\ ~client'.refused
  BY DEF HangUp, Unbound, Clients, NoConnection
<1>2. Connected'
  BY <1>1, HostConstants DEF HangUp, HostIInv, HostShapes, Connected, NoConnection, Envelope
<1>3. QED
  BY <1>1, <1>2 DEF HangUp, HostIInv, HostShapes, Clients, SessionsCounted, OwnHolder, OwnEvents, OwnWords

LEMMA NoticeHangUpIInv == ASSUME HostIInv, NoticeHangUp PROVE HostIInv'
<1>1. client.conn = NoConnection
  BY DEF NoticeHangUp, Reached, HostIInv, Connected
<1>2. /\ host' \in [stage : HostStages, target : Characters \cup {Nobody},
               generation : Generations, client : Nat, handler : Nat, connections : Nat]
      /\ host'.stage = host.stage /\ host'.generation = host.generation
      /\ host'.handler = host.handler /\ host'.connections = host.connections
      /\ host'.target = host.target
  BY DEF NoticeHangUp, HostIInv, HostShapes, NoConnection
<1>3. QED
  BY <1>1, <1>2
     DEF NoticeHangUp, HostIInv, HostShapes, SessionsCounted, OwnHolder, OwnEvents, OwnWords, Connected, Envelope

LEMMA ConnectIInv == ASSUME HostIInv, Connect PROVE HostIInv'
<1>1. PICK conn : conn = host.connections + 1
  OBVIOUS
<1>2. /\ conn \in Nat \ {0} /\ conn > host.connections /\ conn # host.handler
      /\ host.generation \in Generations
  BY <1>1 DEF HostIInv, HostShapes, Connected
<1>3. /\ host' \in [stage : HostStages, target : Characters \cup {Nobody},
               generation : Generations, client : Nat, handler : Nat, connections : Nat]
      /\ host'.stage = host.stage /\ host'.generation = host.generation
      /\ host'.handler = host.handler /\ host'.connections = conn /\ host'.client = conn
      /\ host'.target = host.target
  BY <1>1, <1>2 DEF Connect, HostIInv, HostShapes
<1>4. Unbound(conn) \in Clients /\ Unbound(conn).conn = conn /\ Unbound(conn).latest = 0
      /\ Unbound(conn).current = NoBinding /\ ~Unbound(conn).switching
  BY <1>2 DEF Unbound, Clients
<1>5. UNCHANGED <<service, holder, emitting, sends, shown>>
  BY DEF Connect
<1>6. Envelope' = Envelope
  BY <1>3, <1>5 DEF Envelope
<1>7. CASE host.stage = "ready"
  <2>1. client' = AcceptSnapshot(Unbound(conn), Envelope)
    BY <1>1, <1>7 DEF Connect
  <2>2. Envelope \in Bindings /\ Envelope.generation = host.generation
    BY EnvelopeIsBinding DEF Envelope
  <2>3. Envelope.generation >= Unbound(conn).latest
    BY <1>2, <1>4, <2>2, HostConstants
  <2>4. /\ client' \in Clients /\ client'.conn = conn /\ client'.current = Envelope
        /\ client'.latest = host.generation /\ ~client'.switching /\ ~client'.refused
    BY <1>4, <2>1, <2>2, <2>3, SnapshotAccepted
  <2>5. Connected'
    BY <1>2, <1>3, <1>6, <1>7, <2>4, HostConstants DEF HostIInv, HostShapes, Connected, NoConnection
  <2>6. QED
    BY <1>3, <1>5, <2>4, <2>5 DEF HostIInv, HostShapes, Clients, SessionsCounted, OwnHolder, OwnEvents, OwnWords
<1>8. CASE host.stage # "ready"
  <2>1. client' = [Unbound(conn) EXCEPT !.refused = TRUE]
    BY <1>1, <1>8 DEF Connect
  <2>2. /\ client' \in Clients /\ client'.conn = conn /\ client'.current = NoBinding
        /\ client'.latest = 0 /\ client'.refused
    BY <1>4, <2>1 DEF Clients
  <2>3. Connected'
    BY <1>2, <1>3, <1>8, <2>2, HostConstants DEF HostIInv, HostShapes, Connected, NoConnection
  <2>4. QED
    BY <1>3, <1>5, <2>2, <2>3 DEF HostIInv, HostShapes, Clients, SessionsCounted, OwnHolder, OwnEvents, OwnWords
<1>9. QED
  BY <1>7, <1>8

LEMMA AskAgainIInv == ASSUME HostIInv, AskAgain PROVE HostIInv'
<1>1. /\ client \in Clients /\ client.current = NoBinding /\ client.latest <= host.generation
      /\ host.stage = "ready" /\ host.generation \in Generations
  BY DEF AskAgain, HostIInv, HostShapes, Clients, Connected
<1>2. Envelope \in Bindings /\ Envelope.generation = host.generation
  BY EnvelopeIsBinding DEF Envelope
<1>3. Envelope.generation >= client.latest
  BY <1>1, <1>2, HostConstants DEF Clients
<1>4. /\ client' \in Clients /\ client'.conn = client.conn /\ client'.current = Envelope
      /\ client'.latest = host.generation /\ ~client'.switching /\ ~client'.refused
  BY <1>1, <1>2, <1>3, SnapshotAccepted DEF AskAgain
<1>5. UNCHANGED <<service, holder, emitting, host, sends, shown, Envelope>>
  BY DEF AskAgain, Envelope
<1>6. Connected'
  BY <1>1, <1>4, <1>5, HostConstants DEF HostIInv, HostShapes, Connected, NoConnection
<1>7. QED
  BY <1>4, <1>5, <1>6 DEF HostIInv, HostShapes, Clients, SessionsCounted, OwnHolder, OwnEvents, OwnWords


LEMMA HostRestIInv == ASSUME HostIInv, UNCHANGED hostVars PROVE HostIInv'
  BY DEF hostVars, HostIInv, HostShapes, SessionsCounted, OwnHolder, OwnEvents, OwnWords, Connected, Envelope

LEMMA HostNextIInv == HostIInv /\ [HostNext]_hostVars => HostIInv'
<1> SUFFICES ASSUME HostIInv, [HostNext]_hostVars PROVE HostIInv'
  OBVIOUS
<1>1. CASE Emit \/ CheckEvent \/ ScheduleSend
  BY <1>1, EmitIInv, CheckEventIInv, ScheduleSendIInv
<1>9. CASE BeginTurn \/ BeginCheckIn \/ CommitCheckIn \/ LeaveBoundary \/ FinishTurn
  BY <1>9, TurnMovesIInv
<1>2. CASE \E frame \in sends : Broadcast(frame)
  BY <1>2, BroadcastIInv
<1>3. CASE \E target \in Characters : StartSwitch(target)
  BY <1>3, StartSwitchIInv
<1>4. CASE PrepareSwitch \/ CancelTurn \/ JoinTasks \/ LoadCharacter
  BY <1>4, PrepareSwitchIInv, SwitchGoesOnIInv, LoadCharacterIInv
<1>5. CASE GiveUpWaiting \/ FinishSwitch \/ LoadFails
  BY <1>5, SwitchEndsIInv
<1>6. CASE HangUp \/ NoticeHangUp \/ Connect \/ AskAgain
  BY <1>6, HangUpIInv, NoticeHangUpIInv, ConnectIInv, AskAgainIInv
<1>7. CASE UNCHANGED hostVars
  BY <1>7, HostRestIInv
<1>8. QED
  BY <1>1, <1>2, <1>3, <1>4, <1>5, <1>6, <1>7, <1>9 DEF HostNext

\* The strengthened invariant holds of every behaviour of the frontend session.
THEOREM HostInductive == HostSpec => []HostIInv
<1>1. HostIInv /\ [HostNext]_hostVars => HostIInv'
  BY HostNextIInv
<1>2. QED
  BY <1>1, HostInitIInv, PTL DEF HostSpec

LEMMA HostImpliesType == HostIInv => HostTypeOK
<1> SUFFICES ASSUME HostIInv PROVE HostTypeOK
  OBVIOUS
<1>1. emitting.stage \in {"none", "emitted", "admitted"}
  BY DEF HostIInv, HostShapes, NotEmitting
<1>2. \A frame \in sends : frame.stamp \in Bindings /\ frame.origin \in Characters
  BY DEF HostIInv, HostShapes
<1>3. /\ holder.of \in Characters \cup {Nobody}
      /\ holder.step \in {"none", "replying", "drafting", "publishing", "silent"}
  BY DEF HostIInv, HostShapes, Holders, NoHolder
<1>4. QED
  BY <1>1, <1>2, <1>3 DEF HostIInv, HostShapes, HostStages, HostTypeOK

\* Every variable of the frontend session keeps its type: no switch runs out of
\* session or generation numbers, however many the host is given.
THEOREM HostKeepsType == HostSpec => []HostTypeOK
<1>1. HostIInv => HostTypeOK
  BY HostImpliesType
<1>2. QED
  BY <1>1, HostInductive, PTL

LEMMA HostImpliesFollows == HostIInv => FrontendFollows
  BY DEF HostIInv, OwnWords, Connected, Reached, FrontendFollows

\* Whatever one character said is never shown under the name of another, whenever
\* in a switch a check-in may begin, and a connected frontend that was not
\* refused its snapshot is bound, outside a switch, to exactly what the service
\* is bound to.
THEOREM FrontendIsBound == HostSpec => []FrontendFollows
<1>1. HostIInv => FrontendFollows
  BY HostImpliesFollows
<1>2. QED
  BY <1>1, HostInductive, PTL

-----------------------------------------------------------------------------
(* The local model server.                                                 *)

MaybeModel == Models \cup {NoModel}
Handles    == 0..MaxOperations
Statuses   == [state : {"off", "starting", "ready", "mismatch", "error"},
               ownership : {"none", "managed", "external"}, model : MaybeModel]
Retirements == [process : Operations, status : Statuses, by : Handles]
Runtimes   == [process : Handles, status : Statuses, launching : SUBSET Operations,
               retiring : SUBSET Retirements]
Asks       == {"ask probe", "ask refresh", "ask recovered", "ask ready"}
Retires    == {"terminate last", "terminate recovered", "terminate old", "terminate launched"}
Spawning   == {"launch", "launched", "terminate refused", "terminate launched"}
Waits      == {"wait", "ask ready", "ready"}
WorkPlaces == {"none", "enter", "recover", "probe", "refresh", "recovered", "prepare"}
              \cup Asks \cup Retires \cup Spawning \cup Waits
Workers    == [at : WorkPlaces, kind : {"none", "start", "refresh", "stop"},
               model : MaybeModel, mine : Handles, models : SUBSET MaybeModel]
Processes  == [state : {"unborn", "loading", "answering", "dead"}, model : MaybeModel]

\* Before an operation has spawned its server.
Early      == {"enter", "recover", "prepare", "launch", "ask probe", "probe", "ask refresh",
               "refresh", "ask recovered", "recovered", "terminate recovered", "terminate old"}

RuntimeShapes ==
    /\ backend \in [state : {"up", "stopping", "down"}, operation : Handles]
    /\ settings \in Models \cup {"online"}
    /\ runtime \in Runtimes
    /\ worker \in [Operations -> Workers]
    /\ metadata \in Handles
    /\ server \in [Operations -> Processes]
    /\ foreign \in MaybeModel
    /\ mishaps \in 0..MaxMishaps /\ abandoned \subseteq Operations

\* A server is spawned once, by the operation it is numbered after; what is held, named
\* or terminated was spawned.
Spawned ==
    /\ \A o \in Operations : o > backend.operation =>
          worker[o] = NoWorker /\ server[o].state = "unborn"
    /\ \A o \in Operations : worker[o].at \in Early => server[o].state = "unborn"
    /\ {runtime.process, metadata} \subseteq Servers \cup {NoProcess}
    /\ \A o \in Operations :
          worker[o].at \in Retires \cup Waits \cup {"terminate refused", "ask recovered", "recovered"}
             => worker[o].mine \in Servers
    /\ \A o \in Operations : worker[o].at = "launched" => o \in Servers

\* One worker at a time launches or terminates, and then no server is held; the
\* operation in force waited for those before it.
Busy(o) == worker[o].at \in Retires \cup Spawning
OneBusy ==
    /\ \A o \in Operations : Busy(o) =>
          runtime.process = NoProcess /\ \A q \in Operations : Busy(q) => q = o
    /\ \A o \in Operations : Owns(o) /\ worker[o].at \notin {"none", "enter"} =>
          \A q \in Operations : Busy(q) => q = o
    /\ \A o \in Operations : worker[o].at \in Spawning => o \in runtime.launching
    /\ \A o \in Operations : worker[o].at \in Retires =>
          \E r \in runtime.retiring : r.process = worker[o].mine
    /\ \A r \in runtime.retiring : \E o \in Operations :
          worker[o].at \in Retires /\ worker[o].mine = r.process

\* The file names the server that is held, or that is being terminated; while one is
\* spawned or about to be, it names none that runs.
Alives      == {p \in Servers : Alive(p)}
StartedHere == {p \in Operations : StartedNow(p)}
FileLeads ==
    /\ runtime.process # NoProcess => metadata = runtime.process
    /\ \A o \in Operations :
          /\ worker[o].at \in Retires \ {"terminate launched"} => metadata = worker[o].mine
          /\ worker[o].at \in Spawning => metadata \notin Alives
          /\ worker[o].at = "terminate launched" => worker[o].mine \notin Alives
          /\ Owns(o) /\ worker[o].at \in {"recover", "prepare"} => runtime.process = NoProcess
          /\ Owns(o) /\ worker[o].at \in {"ask probe", "probe", "prepare"}
                /\ runtime.process = NoProcess => metadata \notin Alives
    /\ metadata \in Alives \cap StartedHere /\ runtime.process = NoProcess =>
          \E o \in Operations : Busy(o)

\* Every server that runs is led to; one that is called external leaves none of this
\* process's own running.
Led ==
    /\ \A p \in Alives \ abandoned :
          \/ p \in {runtime.process, metadata}
          \/ \E o \in Operations : Terminating(o) /\ worker[o].mine = p
          \/ worker[p].at = "launched"
    /\ runtime.status.ownership = "external" =>
          /\ runtime.process = NoProcess /\ \A o \in Operations : ~Busy(o)
          /\ Alives \cap StartedHere \subseteq abandoned

RuntimeIInv == RuntimeShapes /\ Spawned /\ OneBusy /\ FileLeads /\ Led

LEMMA RuntimeConstants ==
    /\ MaxOperations \in Nat \ {0} /\ MaxMishaps \in Nat
    /\ Operations = {o \in Nat : 1 <= o /\ o <= MaxOperations}
    /\ NoProcess \notin Operations /\ NoProcess \in Handles /\ Operations \subseteq Handles
<1>1. MaxOperations \in Nat \ {0} /\ MaxMishaps \in Nat
  BY ModelRuntimeAssumption DEF ModelRuntimeAssumption
<1>2. QED
  BY <1>1 DEF Operations, Handles, NoProcess

\* A server that exited is let go by the next look at the handle.
LEMMA LookAtHandle ==
    ASSUME RuntimeIInv
    PROVE  /\ Observed(runtime) \in Runtimes
           /\ Observed(runtime).launching = runtime.launching
           /\ Observed(runtime).retiring = runtime.retiring
           /\ \/ Observed(runtime) = runtime /\ ObservedFile = metadata
              \/ /\ runtime.process # NoProcess /\ runtime.process \notin Alives
                 /\ Observed(runtime).process = NoProcess /\ ObservedFile = NoProcess
                 /\ Observed(runtime).status.ownership = "none"
           /\ Observed(runtime).process # NoProcess =>
                 runtime.process \in Alives /\ Observed(runtime) = runtime
           /\ runtime.status.ownership = "external" => Observed(runtime) = runtime
<1>1. runtime \in Runtimes
  BY DEF RuntimeIInv, RuntimeShapes
<1>2. CASE runtime.process # NoProcess /\ ~Alive(runtime.process)
  <2>1. PICK s : s = [runtime.status EXCEPT !.state = "error", !.ownership = "none"]
    OBVIOUS
  <2>2. s \in Statuses /\ s.ownership = "none"
    BY <1>1, <2>1 DEF Runtimes, Statuses
  <2>3. Observed(runtime) = [runtime EXCEPT !.process = NoProcess, !.status = s]
    BY <1>1, <1>2, <2>1 DEF Observed, Runtimes, Statuses
  <2>4. /\ Observed(runtime) \in Runtimes
        /\ Observed(runtime).launching = runtime.launching
        /\ Observed(runtime).retiring = runtime.retiring
        /\ Observed(runtime).process = NoProcess /\ Observed(runtime).status = s
    BY <1>1, <2>2, <2>3, RuntimeConstants DEF Runtimes
  <2>5. ObservedFile = NoProcess
    BY <1>2 DEF ObservedFile
  <2>6. runtime.status.ownership # "external"
    BY <1>2 DEF RuntimeIInv, Led
  <2>7. QED
    BY <1>2, <2>2, <2>4, <2>5, <2>6 DEF Alives
<1>3. CASE ~(runtime.process # NoProcess /\ ~Alive(runtime.process))
  <2>1. Observed(runtime) = runtime /\ ObservedFile = metadata
    BY <1>3 DEF Observed, ObservedFile
  <2>2. runtime.process # NoProcess => runtime.process \in Alives
    BY <1>3 DEF RuntimeIInv, Spawned, Alives
  <2>3. QED
    BY <1>1, <2>1, <2>2
<1>4. QED
  BY <1>2, <1>3

\* A worker belongs to an operation that was reserved.
LEMMA WorkerIsReserved ==
    ASSUME RuntimeIInv, NEW o \in Operations, worker[o] # NoWorker \/ server[o].state # "unborn"
    PROVE  o <= backend.operation /\ ~(o > backend.operation)
<1>1. ~(o > backend.operation)
  BY DEF RuntimeIInv, Spawned
<1>2. backend.operation \in Nat /\ o \in Nat
  BY RuntimeConstants DEF RuntimeIInv, RuntimeShapes, Handles
<1>3. QED
  BY <1>1, <1>2

\* What may become of the handle and of the file while nobody launches or terminates.
HandleStep(o) ==
    \/ runtime'.process = runtime.process /\ metadata' = metadata
    \/ /\ runtime.process # NoProcess /\ runtime.process \notin Alives
       /\ runtime'.process = NoProcess /\ metadata' = NoProcess
    \/ /\ runtime.process = NoProcess /\ Owns(o) /\ \A q \in Operations : ~Busy(q)
       /\ \/ runtime'.process = metadata /\ metadata' = metadata
          \/ runtime'.process = NoProcess /\ metadata' = NoProcess /\ metadata \notin Alives

\* A worker goes on, or ends, that launches and terminates nothing.
LEMMA WorkerGoesOn ==
    ASSUME RuntimeIInv, NEW o \in Operations, NEW w \in Workers,
           worker' = [worker EXCEPT ![o] = w],
           worker[o].at # "none", ~Busy(o), w.at \notin Retires \cup Spawning,
           w.kind # "none" => worker[o].kind # "none" \/ server[o].state = "unborn",
           w.at \in Early => server[o].state = "unborn",
           w.at \in Waits \cup {"ask recovered", "recovered"} => w.mine \in Servers,
           Owns(o) /\ w.at \notin {"none", "enter"} => \A q \in Operations : ~Busy(q),
           Owns(o) /\ w.at \in {"recover", "prepare"} => runtime'.process = NoProcess,
           Owns(o) /\ w.at \in {"ask probe", "probe", "prepare"} /\ runtime'.process = NoProcess
              => metadata' \notin Alives,
           UNCHANGED <<backend, settings, server, foreign, abandoned>>, mishaps' \in 0..MaxMishaps,
           runtime' \in Runtimes, HandleStep(o),
           runtime'.launching = runtime.launching, runtime'.retiring = runtime.retiring,
           runtime'.status.ownership = "external" =>
              \/ runtime.status.ownership = "external" /\ runtime'.process = NoProcess
              \/ /\ runtime'.process = NoProcess /\ \A q \in Operations : ~Busy(q)
                 /\ Alives \cap StartedHere \subseteq abandoned
    PROVE  RuntimeIInv'
<1>1. /\ worker' \in [Operations -> Workers] /\ worker'[o] = w
      /\ \A q \in Operations \ {o} : worker'[q] = worker[q]
      /\ metadata \in Handles /\ runtime.process \in Handles
  BY DEF RuntimeIInv, RuntimeShapes, Runtimes
<1>2. RuntimeShapes'
  BY <1>1, RuntimeConstants DEF RuntimeIInv, RuntimeShapes, HandleStep
<1>3. \A q \in Operations : Busy(q)' <=> Busy(q)
  BY <1>1 DEF Busy
<1>4. Servers' = Servers /\ Alives' = Alives /\ Servers \subseteq Operations /\ Alives \subseteq Servers
      /\ NoProcess \notin Alives
  BY RuntimeConstants DEF Servers, Alives, Alive
<1>5. Alives \cap StartedHere' \subseteq StartedHere
  BY <1>1 DEF StartedHere, StartedNow, Alives, Alive
<1>6. \A q : Owns(q)' <=> Owns(q)
  BY DEF Owns
<1>7. ~(o > backend.operation)
  <2>1. NoWorker.at = "none"
    BY DEF NoWorker
  <2>2. worker[o] # NoWorker
    BY <2>1
  <2>3. QED
    BY <2>2, WorkerIsReserved
<1>8. Spawned'
  <2>1. \A q \in Operations : q > backend.operation =>
           worker'[q] = NoWorker /\ server[q].state = "unborn"
    BY <1>1, <1>7 DEF RuntimeIInv, Spawned
  <2>2. {runtime'.process, metadata'} \subseteq Servers \cup {NoProcess}
    BY DEF RuntimeIInv, Spawned, HandleStep
  <2>3. \A q \in Operations : worker'[q].at \in Early => server[q].state = "unborn"
    BY <1>1 DEF RuntimeIInv, Spawned
  <2>4. \A q \in Operations :
          worker'[q].at \in Retires \cup Waits \cup {"terminate refused", "ask recovered", "recovered"}
             => worker'[q].mine \in Servers
    BY <1>1 DEF RuntimeIInv, Spawned, Spawning
  <2>5. \A q \in Operations : worker'[q].at = "launched" => q \in Servers
    BY <1>1 DEF RuntimeIInv, Spawned, Spawning
  <2>6. QED
    BY <1>4, <2>1, <2>2, <2>3, <2>4, <2>5 DEF Spawned
<1>9. OneBusy'
  <2>1. \A q \in Operations : Busy(q) => runtime'.process = NoProcess
    BY DEF RuntimeIInv, OneBusy, HandleStep
  <2>2. \A q \in Operations : Owns(q) /\ worker'[q].at \notin {"none", "enter"} =>
           \A x \in Operations : Busy(x) => x = q
    BY <1>1 DEF RuntimeIInv, OneBusy
  <2>3. \A q \in Operations : worker'[q].at \in Spawning => q \in runtime'.launching
    BY <1>1 DEF RuntimeIInv, OneBusy
  <2>4. \A q \in Operations : worker'[q].at \in Retires =>
           \E r \in runtime'.retiring : r.process = worker'[q].mine
    BY <1>1 DEF RuntimeIInv, OneBusy
  <2>5. \A r \in runtime'.retiring : \E q \in Operations :
           worker'[q].at \in Retires /\ worker'[q].mine = r.process
    BY <1>1 DEF RuntimeIInv, OneBusy, Busy
  <2>6. \A q \in Operations : Busy(q) => \A x \in Operations : Busy(x) => x = q
    BY DEF RuntimeIInv, OneBusy
  <2>7. QED
    BY <1>3, <1>6, <2>1, <2>2, <2>3, <2>4, <2>5, <2>6 DEF OneBusy
<1>10. FileLeads'
  <2>1. runtime'.process # NoProcess => metadata' = runtime'.process
    BY DEF RuntimeIInv, FileLeads, HandleStep
  <2>2. (\E q \in Operations : Busy(q)) => metadata' = metadata
    BY DEF HandleStep, RuntimeIInv, OneBusy
  <2>3. \A q \in Operations :
          /\ worker'[q].at \in Retires \ {"terminate launched"} => metadata' = worker'[q].mine
          /\ worker'[q].at \in Spawning => metadata' \notin Alives
          /\ worker'[q].at = "terminate launched" => worker'[q].mine \notin Alives
    BY <1>1, <2>2 DEF RuntimeIInv, FileLeads, Busy, Retires
  <2>4. \A q \in Operations \ {o} :
          /\ Owns(q) /\ worker[q].at \in {"recover", "prepare"} => runtime'.process = NoProcess
          /\ Owns(q) /\ worker[q].at \in {"ask probe", "probe", "prepare"}
                /\ runtime'.process = NoProcess => metadata' \notin Alives
    <3>1. CASE metadata' = metadata /\ runtime'.process = runtime.process
      BY <1>4, <3>1 DEF RuntimeIInv, FileLeads
    <3>2. CASE metadata' = NoProcess /\ runtime'.process = NoProcess
      BY <1>4, <3>2
    <3>3. CASE Owns(o)
      BY <3>3 DEF Owns
    <3>4. QED
      BY <3>1, <3>2, <3>3 DEF HandleStep
  <2>5. metadata' \in Alives \cap StartedHere' /\ runtime'.process = NoProcess =>
           \E q \in Operations : Busy(q)
    BY <1>4, <1>5 DEF RuntimeIInv, FileLeads, HandleStep
  <2>6. QED
    BY <1>1, <1>3, <1>4, <1>6, <2>1, <2>3, <2>4, <2>5 DEF FileLeads
<1>11. Led'
  <2>1. \A p \in Alives \ abandoned :
          \/ p \in {runtime'.process, metadata'}
          \/ \E q \in Operations : Terminating(q)' /\ worker'[q].mine = p
          \/ worker'[p].at = "launched"
    <3>1. SUFFICES ASSUME NEW p \in Alives \ abandoned
                   PROVE  \/ p \in {runtime'.process, metadata'}
                          \/ \E q \in Operations : Terminating(q)' /\ worker'[q].mine = p
                          \/ worker'[p].at = "launched"
      OBVIOUS
    <3>2. CASE p \in {runtime.process, metadata}
      BY <1>4, <3>1, <3>2 DEF HandleStep, RuntimeIInv, FileLeads
    <3>3. CASE \E q \in Operations : Terminating(q) /\ worker[q].mine = p
      BY <1>1, <3>3 DEF Terminating, Busy, Retires, Spawning
    <3>4. CASE worker[p].at = "launched"
      BY <1>1, <1>4, <3>4 DEF Busy, Spawning
    <3>5. QED
      BY <3>1, <3>2, <3>3, <3>4 DEF RuntimeIInv, Led
  <2>2. runtime'.status.ownership = "external" =>
          /\ runtime'.process = NoProcess /\ \A q \in Operations : ~Busy(q)
          /\ Alives \cap StartedHere \subseteq abandoned
    BY DEF RuntimeIInv, Led
  <2>4. QED
    BY <1>3, <1>4, <1>5, <2>1, <2>2 DEF Led
<1>12. QED
  BY <1>2, <1>8, <1>9, <1>10, <1>11 DEF RuntimeIInv



\* The handle goes from the runtime to the worker that terminates it.
LEMMA WorkerRetires ==
    ASSUME RuntimeIInv, NEW o \in Operations, NEW w \in Workers,
           worker' = [worker EXCEPT ![o] = w],
           worker[o].at # "none", ~Busy(o),
           Owns(o), w.at \in {"terminate last", "terminate recovered", "terminate old"},
           w.kind = worker[o].kind, w.mine = runtime.process, runtime.process # NoProcess,
           w.at \in Early => server[o].state = "unborn",
           UNCHANGED <<backend, settings, server, metadata, foreign, abandoned>>,
           mishaps' \in 0..MaxMishaps,
           runtime' \in Runtimes, runtime'.process = NoProcess,
           runtime'.launching = runtime.launching,
           \E x : x.process = runtime.process /\ runtime'.retiring = runtime.retiring \cup {x},
           runtime'.status.ownership # "external"
    PROVE  RuntimeIInv'
<1>1. /\ worker' \in [Operations -> Workers] /\ worker'[o] = w
      /\ \A q \in Operations \ {o} : worker'[q] = worker[q]
  BY DEF RuntimeIInv, RuntimeShapes
<1>2. RuntimeShapes'
  BY <1>1 DEF RuntimeIInv, RuntimeShapes
<1>3. /\ \A q \in Operations : ~Busy(q)
      /\ \A q \in Operations : Busy(q)' <=> q = o
  BY <1>1 DEF RuntimeIInv, OneBusy, Busy, Retires
<1>4. Servers' = Servers /\ Alives' = Alives /\ runtime.process \in Servers /\ metadata = runtime.process
  BY DEF Servers, Alives, Alive, RuntimeIInv, Spawned, FileLeads
<1>5. StartedHere' \subseteq StartedHere
  BY <1>1 DEF StartedHere, StartedNow
<1>6. \A q : Owns(q)' <=> Owns(q)
  BY DEF Owns
<1>7. ~(o > backend.operation)
  <2>1. NoWorker.at = "none"
    BY DEF NoWorker
  <2>2. worker[o] # NoWorker
    BY <2>1
  <2>3. QED
    BY <2>2, WorkerIsReserved
<1>8. Spawned'
  <2>1. \A q \in Operations : q > backend.operation =>
           worker'[q] = NoWorker /\ server[q].state = "unborn"
    BY <1>1, <1>7 DEF RuntimeIInv, Spawned
  <2>2. {runtime'.process, metadata'} \subseteq Servers \cup {NoProcess}
    BY DEF RuntimeIInv, Spawned
  <2>3. \A q \in Operations : worker'[q].at \in Early => server[q].state = "unborn"
    BY <1>1 DEF RuntimeIInv, Spawned
  <2>4. \A q \in Operations :
          worker'[q].at \in Retires \cup Waits \cup {"terminate refused", "ask recovered", "recovered"}
             => worker'[q].mine \in Servers
    BY <1>1, <1>4 DEF RuntimeIInv, Spawned
  <2>5. \A q \in Operations : worker'[q].at = "launched" => q \in Servers
    BY <1>1 DEF RuntimeIInv, Spawned, Spawning
  <2>6. QED
    BY <1>4, <2>1, <2>2, <2>3, <2>4, <2>5 DEF Spawned
<1>9. OneBusy'
  <2>1. \A q \in Operations : worker'[q].at \in Spawning => q \in runtime'.launching
    BY <1>1, <1>3 DEF Busy, Spawning
  <2>2. \A q \in Operations : worker'[q].at \in Retires =>
           \E r \in runtime'.retiring : r.process = worker'[q].mine
    BY <1>1, <1>3 DEF Busy
  <2>3. \A r \in runtime.retiring : FALSE
    BY <1>3 DEF RuntimeIInv, OneBusy, Busy
  <2>4. \A r \in runtime'.retiring : \E q \in Operations :
           worker'[q].at \in Retires /\ worker'[q].mine = r.process
    BY <1>1, <2>3 DEF Retires
  <2>5. \A q \in Operations : Owns(q) /\ worker'[q].at \notin {"none", "enter"} =>
           \A x \in Operations : Busy(x)' => x = q
    <3>1. SUFFICES ASSUME NEW q \in Operations, Owns(q), q # o, worker[q].at \notin {"none", "enter"}
                   PROVE  FALSE
      BY <1>1, <1>3
    <3>2. QED
      BY <3>1 DEF Owns
  <2>6. QED
    BY <1>3, <1>6, <2>1, <2>2, <2>4, <2>5 DEF OneBusy

<1>10. FileLeads'
  <2>1. \A q \in Operations :
          /\ worker'[q].at \in Retires \ {"terminate launched"} => metadata' = worker'[q].mine
          /\ worker'[q].at \in Spawning => metadata' \notin Alives
          /\ worker'[q].at = "terminate launched" => worker'[q].mine \notin Alives
    BY <1>1, <1>3, <1>4 DEF Busy, Retires, Spawning
  <2>2. \A q \in Operations \ {o} : ~Owns(q)
    BY DEF Owns
  <2>3. worker'[o].at \notin {"recover", "prepare", "ask probe", "probe"}
    BY <1>1
  <2>4. QED
    BY <1>3, <1>4, <1>6, <2>1, <2>2, <2>3 DEF FileLeads
<1>11. Led'
  <2>1. \A p \in Alives \ abandoned : p = worker'[o].mine
    <3>1. TAKE p \in Alives \ abandoned
    <3>2. p \in Operations
      BY DEF Alives, Servers
    <3>3. ~(\E q \in Operations : Terminating(q) /\ worker[q].mine = p) /\ worker[p].at # "launched"
      BY <1>3, <3>2 DEF Busy, Terminating, Retires, Spawning
    <3>4. QED
      BY <1>1, <1>4, <3>1, <3>3 DEF RuntimeIInv, Led
  <2>2. Terminating(o)'
    BY <1>1 DEF Terminating
  <2>3. QED
    BY <1>4, <2>1, <2>2 DEF Led
<1>12. QED
  BY <1>2, <1>8, <1>9, <1>10, <1>11 DEF RuntimeIInv


\* A worker that ends keeps only what it was for.
LEMMA WorkerEnded ==
    ASSUME RuntimeIInv, NEW o \in Operations, NEW w,
           w = [NoWorker EXCEPT !.kind = worker[o].kind]
    PROVE  w \in Workers /\ w.at = "none" /\ w.kind = worker[o].kind
<1>1. worker[o] \in Workers
  BY DEF RuntimeIInv, RuntimeShapes
<1>2. worker[o].kind \in {"none", "start", "refresh", "stop"}
  BY <1>1 DEF Workers
<1>3. QED
  BY <1>2, RuntimeConstants DEF NoWorker, Workers, WorkPlaces, MaybeModel, Handles

LEMMA WorkersTyped == ASSUME RuntimeIInv, NEW o \in Operations PROVE worker[o] \in Workers
  BY DEF RuntimeIInv, RuntimeShapes

\* The operation in force, past its entrance, launches and terminates alone.
LEMMA AloneInForce ==
    ASSUME RuntimeIInv, NEW o \in Operations, Owns(o), worker[o].at \notin {"none", "enter"}, ~Busy(o)
    PROVE  \A q \in Operations : ~Busy(q)
  BY DEF RuntimeIInv, OneBusy

LEMMA QuietMeansIdle ==
    ASSUME RuntimeIInv, Quiet PROVE \A q \in Operations : ~Busy(q)
  BY DEF RuntimeIInv, OneBusy, Quiet, Busy

\* What is held is taken away, and remembered as retiring.
LEMMA TakenAway ==
    ASSUME RuntimeIInv, NEW r \in Runtimes
    PROVE  /\ Detached(r) \in Runtimes /\ Detached(r).process = NoProcess
           /\ Detached(r).launching = r.launching /\ Detached(r).status = r.status
           /\ r.process = NoProcess => Detached(r).retiring = r.retiring
           /\ r.process # NoProcess => \E x : /\ x.process = r.process
                                              /\ Detached(r).retiring = r.retiring \cup {x}
<1>1. PICK x : x = [process |-> r.process, status |-> r.status, by |-> backend.operation]
  OBVIOUS
<1>2. r.process # NoProcess => r.process \in Operations
  BY RuntimeConstants DEF Runtimes, Handles, NoProcess
<1>3. r.process # NoProcess => x \in Retirements
  BY <1>1, <1>2 DEF RuntimeIInv, RuntimeShapes, Runtimes, Retirements
<1>4. PICK rest : rest = IF r.process = NoProcess THEN r.retiring ELSE r.retiring \cup {x}
  OBVIOUS
<1>5. rest \subseteq Retirements
  BY <1>3, <1>4 DEF Runtimes
<1>6. Detached(r) = [r EXCEPT !.process = NoProcess, !.retiring = rest]
  BY <1>1, <1>4 DEF Detached, Runtimes
<1>7. /\ Detached(r) \in Runtimes /\ Detached(r).process = NoProcess
      /\ Detached(r).launching = r.launching /\ Detached(r).status = r.status
      /\ Detached(r).retiring = rest
  BY <1>5, <1>6, RuntimeConstants DEF Runtimes
<1>8. x.process = r.process
  BY <1>1
<1>9. QED
  BY <1>4, <1>7, <1>8

\* The status is replaced.
LEMMA StatusSet ==
    ASSUME NEW r \in Runtimes, NEW s \in Statuses
    PROVE  /\ [r EXCEPT !.status = s] \in Runtimes /\ [r EXCEPT !.status = s].status = s
           /\ [r EXCEPT !.status = s].process = r.process
           /\ [r EXCEPT !.status = s].launching = r.launching
           /\ [r EXCEPT !.status = s].retiring = r.retiring
  BY DEF Runtimes

LEMMA OvertakenIInv == ASSUME RuntimeIInv, NEW o \in Operations, Overtaken(o) PROVE RuntimeIInv'
<1>1. PICK w : w = [NoWorker EXCEPT !.kind = worker[o].kind]
  OBVIOUS
<1>2. w \in Workers /\ w.at = "none" /\ w.kind = worker[o].kind
  BY <1>1, WorkerEnded
<1>3. worker[o].at # "none" /\ ~Busy(o)
  BY DEF Overtaken, Busy, Retires, Spawning
<1>4. worker' = [worker EXCEPT ![o] = w]
  BY <1>1 DEF Overtaken, End
<1>5. HandleStep(o) /\ runtime' \in Runtimes
  BY DEF Overtaken, HandleStep, RuntimeIInv, RuntimeShapes
<1>6. w.at \notin Retires \cup Spawning \cup Early \cup Waits \cup {"ask recovered", "recovered"}
  BY <1>2 DEF Retires, Spawning, Early, Waits
<1>7. runtime' = runtime /\ mishaps' \in 0..MaxMishaps
      /\ UNCHANGED <<backend, settings, server, foreign, abandoned>>
  BY DEF Overtaken, RuntimeIInv, RuntimeShapes
<1>8. runtime.status.ownership = "external" => runtime.process = NoProcess
  BY DEF RuntimeIInv, Led
<1>9. QED
  BY <1>2, <1>3, <1>4, <1>5, <1>6, <1>7, <1>8, WorkerGoesOn


\* The places by name.
LEMMA PlaceNames ==
    /\ Asks \cup Retires \cup Spawning \cup Waits \subseteq WorkPlaces
    /\ {"none", "enter", "recover", "probe", "refresh", "recovered", "prepare"} \subseteq WorkPlaces
  BY DEF WorkPlaces

\* stop: what is held is terminated, or there is nothing to stop.
LEMMA EnterStopIInv == ASSUME RuntimeIInv, NEW o \in Operations, EnterStop(o) PROVE RuntimeIInv'
<1> DEFINE seen == Observed(runtime)
<1>1. /\ worker[o].at = "enter" /\ worker[o].kind = "stop" /\ Owns(o) /\ metadata' = ObservedFile
      /\ UNCHANGED <<backend, settings, server, foreign, mishaps, abandoned>>
  BY DEF EnterStop, At
<1>2. worker[o].at # "none" /\ ~Busy(o) /\ mishaps' \in 0..MaxMishaps
  BY <1>1 DEF Busy, Retires, Spawning, RuntimeIInv, RuntimeShapes
<1>3. /\ seen \in Runtimes /\ seen.launching = runtime.launching /\ seen.retiring = runtime.retiring
      /\ seen.status.ownership = "external" \/ runtime.status.ownership = "external" => seen = runtime
      /\ runtime \in Runtimes
  <2>1. runtime \in Runtimes
    BY DEF RuntimeIInv, RuntimeShapes
  <2>2. QED
    BY <2>1, LookAtHandle
<1>4. Off \in Statuses /\ Off.ownership = "none"
  BY DEF Off, Statuses, MaybeModel
<1>5. PICK u : u = [Detached(seen) EXCEPT !.status = Off]
  OBVIOUS
<1>6. /\ u \in Runtimes /\ u.process = NoProcess /\ u.launching = runtime.launching
      /\ u.status.ownership = "none"
      /\ seen.process = NoProcess => u.retiring = runtime.retiring
      /\ seen.process # NoProcess => \E x : x.process = seen.process
                                            /\ u.retiring = runtime.retiring \cup {x}
  BY <1>3, <1>4, <1>5, TakenAway, StatusSet
<1>7. \/ seen.process = runtime.process /\ metadata' = metadata
      \/ /\ runtime.process # NoProcess /\ runtime.process \notin Alives
         /\ seen.process = NoProcess /\ metadata' = NoProcess
  BY <1>1, LookAtHandle
<1>8. PICK w : w = [NoWorker EXCEPT !.kind = worker[o].kind]
  OBVIOUS
<1>9. w \in Workers /\ w.at = "none" /\ w.kind = worker[o].kind
      /\ w.at \notin Retires \cup Spawning \cup Early \cup Waits \cup {"ask recovered", "recovered"}
  <2>1. w \in Workers /\ w.at = "none" /\ w.kind = worker[o].kind
    BY <1>8, WorkerEnded
  <2>2. QED
    BY <2>1 DEF Retires, Spawning, Early, Waits
<1>10. CASE seen.status.ownership = "external"
  <2>1. runtime' = runtime /\ seen = runtime /\ worker' = [worker EXCEPT ![o] = w]
    BY <1>3, <1>8, <1>10 DEF EnterStop, End
  <2>2. HandleStep(o) /\ runtime' \in Runtimes
    BY <1>3, <1>7, <2>1 DEF HandleStep
  <2>3. runtime.status.ownership = "external" => runtime.process = NoProcess
    BY DEF RuntimeIInv, Led
  <2>4. QED
    BY <1>1, <1>2, <1>9, <2>1, <2>2, <2>3, WorkerGoesOn
<1>11. CASE seen.status.ownership # "external" /\ seen.process = NoProcess
  <2>1. runtime' = u /\ worker' = [worker EXCEPT ![o] = w]
    BY <1>5, <1>8, <1>11 DEF EnterStop, End
  <2>2. HandleStep(o)
    BY <1>6, <1>7, <1>11, <2>1 DEF HandleStep
  <2>3. QED
    BY <1>1, <1>2, <1>6, <1>9, <1>11, <2>1, <2>2, WorkerGoesOn
<1>12. CASE seen.status.ownership # "external" /\ seen.process # NoProcess
  <2>1. PICK v : v = [worker[o] EXCEPT !.at = "terminate last", !.mine = seen.process]
    OBVIOUS
  <2>2. /\ v \in Workers /\ v.at = "terminate last" /\ v.kind = worker[o].kind
        /\ v.mine = seen.process
    <3>1. seen.process \in Handles /\ "terminate last" \in WorkPlaces
      BY <1>3, PlaceNames DEF Runtimes, Retires
    <3>2. QED
      BY <2>1, <3>1, WorkersTyped DEF Workers
  <2>3. worker' = [worker EXCEPT ![o] = v] /\ runtime' = u
    BY <1>5, <1>12, <2>1 DEF EnterStop
  <2>4. seen = runtime /\ metadata' = metadata
    BY <1>7, <1>12, LookAtHandle
  <2>5. v.at \notin Early
    BY <2>2 DEF Early
  <2>6. QED
    BY <1>1, <1>2, <1>6, <1>12, <2>2, <2>3, <2>4, <2>5, WorkerRetires
<1>13. QED
  BY <1>10, <1>11, <1>12

\* start and refresh_external.
LEMMA EnterStartIInv == ASSUME RuntimeIInv, NEW o \in Operations, EnterStart(o) PROVE RuntimeIInv'
<1> DEFINE seen == Observed(runtime)
<1>1. /\ worker[o].at = "enter" /\ Owns(o) /\ metadata' = ObservedFile /\ runtime' = seen /\ Quiet
      /\ UNCHANGED <<backend, settings, server, foreign, mishaps, abandoned>>
  BY DEF EnterStart, At
<1>2. worker[o].at # "none" /\ ~Busy(o) /\ mishaps' \in 0..MaxMishaps
      /\ \A q \in Operations : ~Busy(q)
  <2>1. \A q \in Operations : ~Busy(q)
    BY <1>1, QuietMeansIdle
  <2>2. QED
    BY <1>1, <2>1 DEF RuntimeIInv, RuntimeShapes
<1>3. /\ seen \in Runtimes /\ seen.launching = runtime.launching /\ seen.retiring = runtime.retiring
      /\ seen.status.ownership = "external" \/ runtime.status.ownership = "external" => seen = runtime
      /\ runtime \in Runtimes
  <2>1. runtime \in Runtimes
    BY DEF RuntimeIInv, RuntimeShapes
  <2>2. QED
    BY <2>1, LookAtHandle
<1>4. \/ seen.process = runtime.process /\ metadata' = metadata
      \/ /\ runtime.process # NoProcess /\ runtime.process \notin Alives
         /\ seen.process = NoProcess /\ metadata' = NoProcess
  BY <1>1, LookAtHandle
<1>5. PICK place : place = IF worker[o].kind = "refresh" THEN "ask refresh"
                           ELSE IF seen.process = NoProcess THEN "recover"
                           ELSE "ask probe"
  OBVIOUS
<1>6. /\ place \in {"ask refresh", "recover", "ask probe"}
      /\ place = "recover" => seen.process = NoProcess
      /\ place = "ask probe" => seen.process # NoProcess
      /\ place \in WorkPlaces \ (Retires \cup Spawning \cup Waits)
      /\ place \notin {"ask recovered", "recovered", "probe", "prepare"}
  <2>1. /\ place \in {"ask refresh", "recover", "ask probe"}
        /\ place = "recover" => seen.process = NoProcess
        /\ place = "ask probe" => seen.process # NoProcess
    BY <1>5
  <2>2. QED
    BY <2>1 DEF WorkPlaces, Retires, Spawning, Waits, Asks
<1>7. PICK w : w = [worker[o] EXCEPT !.at = place, !.mine = seen.process]
  OBVIOUS
<1>8. /\ w \in Workers /\ w.at = place /\ w.kind = worker[o].kind
  <2>1. seen.process \in Handles
    BY <1>3 DEF Runtimes
  <2>2. QED
    BY <1>6, <1>7, <2>1, WorkersTyped DEF Workers
<1>9. worker' = [worker EXCEPT ![o] = w]
  BY <1>5, <1>7 DEF EnterStart
<1>10. HandleStep(o) /\ runtime' \in Runtimes
  BY <1>1, <1>3, <1>4 DEF HandleStep
<1>11. w.at \in Early => server[o].state = "unborn"
  BY <1>1 DEF RuntimeIInv, Spawned, Early
<1>12. runtime.status.ownership = "external" => runtime.process = NoProcess
  BY DEF RuntimeIInv, Led
<1>13. runtime'.status.ownership = "external" =>
              runtime.status.ownership = "external" /\ runtime'.process = NoProcess
  BY <1>1, <1>3, <1>12
<1>14. /\ Owns(o) /\ w.at \in {"recover", "prepare"} => runtime'.process = NoProcess
       /\ Owns(o) /\ w.at \in {"ask probe", "probe", "prepare"} /\ runtime'.process = NoProcess
              => metadata' \notin Alives
       /\ w.at \notin Retires \cup Spawning
       /\ w.at \in Waits \cup {"ask recovered", "recovered"} => w.mine \in Servers
  BY <1>1, <1>6, <1>8
<1>15. QED
  BY <1>1, <1>2, <1>3, <1>8, <1>9, <1>10, <1>11, <1>13, <1>14, WorkerGoesOn

\* A worker ends that launches and terminates nothing.
LEMMA WorkerEnds ==
    ASSUME RuntimeIInv, NEW o \in Operations, End(o), worker[o].at # "none", ~Busy(o),
           UNCHANGED <<backend, settings, server, foreign, abandoned>>, mishaps' \in 0..MaxMishaps,
           runtime' \in Runtimes, HandleStep(o),
           runtime'.launching = runtime.launching, runtime'.retiring = runtime.retiring,
           runtime'.status.ownership = "external" =>
              \/ runtime.status.ownership = "external" /\ runtime'.process = NoProcess
              \/ /\ runtime'.process = NoProcess /\ \A q \in Operations : ~Busy(q)
                 /\ Alives \cap StartedHere \subseteq abandoned
    PROVE  RuntimeIInv'
<1>1. PICK w : w = [NoWorker EXCEPT !.kind = worker[o].kind]
  OBVIOUS
<1>2. w \in Workers /\ w.at = "none" /\ w.kind = worker[o].kind
  BY <1>1, WorkerEnded
<1>3. worker' = [worker EXCEPT ![o] = w]
  BY <1>1 DEF End
<1>4. w.at \notin Retires \cup Spawning \cup Early \cup Waits \cup {"ask recovered", "recovered"}
  BY <1>2 DEF Retires, Spawning, Early, Waits
<1>5. QED
  BY <1>2, <1>3, <1>4, WorkerGoesOn

\* A server the file names, and that runs, is taken back.
LEMMA RecoverIInv == ASSUME RuntimeIInv, NEW o \in Operations, Recover(o) PROVE RuntimeIInv'
<1>1. /\ worker[o].at = "recover" /\ Owns(o)
      /\ UNCHANGED <<backend, settings, server, foreign, mishaps, abandoned>>
  BY DEF Recover, At
<1>2. /\ ~Busy(o) /\ mishaps' \in 0..MaxMishaps /\ runtime.process = NoProcess
      /\ \A q \in Operations : ~Busy(q)
  <2>1. ~Busy(o) /\ mishaps' \in 0..MaxMishaps /\ runtime.process = NoProcess
    BY <1>1 DEF Busy, Retires, Spawning, RuntimeIInv, RuntimeShapes, FileLeads
  <2>2. QED
    BY <1>1, <2>1, AloneInForce
<1>3. worker[o] \in Workers /\ runtime \in Runtimes /\ metadata \in Handles
  BY WorkersTyped DEF RuntimeIInv, RuntimeShapes
<1>4. server[o].state = "unborn"
  BY <1>1 DEF RuntimeIInv, Spawned, Early
<1>5. Alive(metadata) => metadata \in Servers /\ metadata \in Operations
  <2>1. metadata \in Servers \cup {NoProcess}
    BY DEF RuntimeIInv, Spawned
  <2>2. QED
    BY <2>1 DEF Alive, Servers
<1>6. CASE Alive(metadata)
  <2>1. PICK s : s = [state |-> "starting", ownership |-> "managed", model |-> server[metadata].model]
    OBVIOUS
  <2>2. s \in Statuses /\ s.ownership = "managed"
    <3>1. server[metadata] \in Processes
      BY <1>5, <1>6 DEF RuntimeIInv, RuntimeShapes
    <3>2. QED
      BY <2>1, <3>1 DEF Processes, Statuses
  <2>3. PICK w : w = [worker[o] EXCEPT !.at = "ask recovered", !.mine = metadata]
    OBVIOUS
  <2>4. w \in Workers /\ w.at = "ask recovered" /\ w.kind = worker[o].kind /\ w.mine = metadata
    BY <1>3, <2>3 DEF Workers, WorkPlaces, Asks
  <2>5. worker' = [worker EXCEPT ![o] = w] /\ metadata' = metadata
    BY <1>6, <2>3 DEF Recover
  <2>6. runtime' = [runtime EXCEPT !.process = metadata, !.status = s]
    BY <1>6, <2>1 DEF Recover
  <2>7. /\ runtime' \in Runtimes /\ runtime'.process = metadata /\ runtime'.status = s
        /\ runtime'.launching = runtime.launching /\ runtime'.retiring = runtime.retiring
    BY <1>3, <2>2, <2>6 DEF Runtimes
  <2>8. HandleStep(o)
    BY <1>1, <1>2, <2>5, <2>7 DEF HandleStep
  <2>9. /\ w.at \notin Retires \cup Spawning \cup Waits
        /\ w.at \notin {"recover", "prepare", "ask probe", "probe"}
    BY <2>4 DEF Retires, Spawning, Waits
  <2>10. QED
    BY <1>1, <1>2, <1>4, <1>5, <1>6, <2>2, <2>4, <2>5, <2>7, <2>8, <2>9, WorkerGoesOn
<1>7. CASE ~Alive(metadata)
  <2>1. PICK w : w = [worker[o] EXCEPT !.at = "ask probe"]
    OBVIOUS
  <2>2. w \in Workers /\ w.at = "ask probe" /\ w.kind = worker[o].kind
    BY <1>3, <2>1 DEF Workers, WorkPlaces, Asks
  <2>3. worker' = [worker EXCEPT ![o] = w] /\ metadata' = NoProcess /\ runtime' = runtime
    BY <1>7, <2>1 DEF Recover, Goto
  <2>4. NoProcess \notin Alives /\ metadata \notin Alives
    BY <1>7 DEF Alives, Alive
  <2>5. HandleStep(o)
    BY <1>1, <1>2, <2>3, <2>4 DEF HandleStep
  <2>6. /\ w.at \notin Retires \cup Spawning \cup Waits
        /\ w.at \notin {"recover", "prepare", "ask recovered", "recovered"}
    BY <2>2 DEF Retires, Spawning, Waits
  <2>7. QED
    BY <1>1, <1>2, <1>3, <1>4, <2>2, <2>3, <2>4, <2>5, <2>6, WorkerGoesOn
<1>8. QED
  BY <1>6, <1>7

\* An answer, or none, from the endpoint.
LEMMA ProbedIInv ==
    ASSUME RuntimeIInv, NEW o \in Operations, Asking(o), NEW ms \in SUBSET MaybeModel,
           worker' = [worker EXCEPT ![o].at = After(@), ![o].models = ms],
           UNCHANGED <<backend, settings, runtime, metadata, server, foreign, abandoned>>,
           mishaps' \in 0..MaxMishaps
    PROVE  RuntimeIInv'
<1>1. PICK place : place = After(worker[o].at)
  OBVIOUS
<1>2. \/ worker[o].at = "ask probe" /\ place = "probe"
      \/ worker[o].at = "ask refresh" /\ place = "refresh"
      \/ worker[o].at = "ask recovered" /\ place = "recovered"
      \/ worker[o].at = "ask ready" /\ place = "ready"
  BY <1>1 DEF Asking, After
<1>3. PICK w : w = [worker[o] EXCEPT !.at = place, !.models = ms]
  OBVIOUS
<1>4. worker[o] \in Workers /\ runtime \in Runtimes
  BY WorkersTyped DEF RuntimeIInv, RuntimeShapes
<1>5. /\ w \in Workers /\ w.at = place /\ w.kind = worker[o].kind /\ w.mine = worker[o].mine
  BY <1>2, <1>3, <1>4 DEF Workers, WorkPlaces, Waits
<1>6. worker' = [worker EXCEPT ![o] = w]
  BY <1>1, <1>3
<1>7. /\ worker[o].at # "none" /\ ~Busy(o) /\ w.at \notin Retires \cup Spawning
  BY <1>2, <1>5 DEF Busy, Retires, Spawning
<1>8. w.at \in Early => server[o].state = "unborn"
  BY <1>2, <1>5 DEF RuntimeIInv, Spawned, Early
<1>9. w.at \in Waits \cup {"ask recovered", "recovered"} => w.mine \in Servers
  BY <1>2, <1>5 DEF RuntimeIInv, Spawned, Waits
<1>10. Owns(o) /\ w.at \notin {"none", "enter"} => \A q \in Operations : ~Busy(q)
  BY <1>2, <1>7, AloneInForce
<1>11. /\ Owns(o) /\ w.at \in {"recover", "prepare"} => runtime'.process = NoProcess
       /\ Owns(o) /\ w.at \in {"ask probe", "probe", "prepare"} /\ runtime'.process = NoProcess
              => metadata' \notin Alives
  BY <1>2, <1>5 DEF RuntimeIInv, FileLeads
<1>12. HandleStep(o)
  BY DEF HandleStep
<1>13. runtime.status.ownership = "external" => runtime.process = NoProcess
  BY DEF RuntimeIInv, Led
<1>14. QED
  BY <1>4, <1>5, <1>6, <1>7, <1>8, <1>9, <1>10, <1>11, <1>12, <1>13, WorkerGoesOn

LEMMA AnswerTyped == ASSUME RuntimeIInv PROVE Answer \in SUBSET MaybeModel
<1>1. \A p \in Servers : server[p].model \in MaybeModel
  BY DEF RuntimeIInv, RuntimeShapes, Servers, Processes
<1>2. foreign \in MaybeModel
  BY DEF RuntimeIInv, RuntimeShapes
<1>3. QED
  BY <1>1, <1>2 DEF Answer

LEMMA ProbeIInv == ASSUME RuntimeIInv, NEW o \in Operations, Probe(o) PROVE RuntimeIInv'
<1>1. PICK ms \in SUBSET MaybeModel : ms = Answer
  BY AnswerTyped
<1>2. /\ Asking(o) /\ worker' = [worker EXCEPT ![o].at = After(@), ![o].models = ms]
      /\ UNCHANGED <<backend, settings, runtime, metadata, server, foreign, abandoned>>
      /\ mishaps' \in 0..MaxMishaps
  BY <1>1 DEF Probe, RuntimeIInv, RuntimeShapes
<1>3. QED
  BY <1>1, <1>2, ProbedIInv

LEMMA ProbeFailsIInv == ASSUME RuntimeIInv, NEW o \in Operations, ProbeFails(o) PROVE RuntimeIInv'
<1>1. /\ Asking(o) /\ worker' = [worker EXCEPT ![o].at = After(@), ![o].models = {}]
      /\ UNCHANGED <<backend, settings, runtime, metadata, server, foreign, abandoned>>
      /\ mishaps' \in 0..MaxMishaps /\ {} \in SUBSET MaybeModel
  BY RuntimeConstants DEF ProbeFails, RuntimeIInv, RuntimeShapes
<1>2. QED
  BY <1>1, ProbedIInv

\* A recovered server is used, or cleaned up first.
LEMMA RecoveredIInv == ASSUME RuntimeIInv, NEW o \in Operations, Recovered(o) PROVE RuntimeIInv'
<1>1. /\ worker[o].at = "recovered" /\ ~Busy(o) /\ worker[o].at # "none" /\ mishaps' \in 0..MaxMishaps
      /\ UNCHANGED <<backend, settings, metadata, server, foreign, mishaps, abandoned>>
  BY DEF Recovered, At, Busy, Retires, Spawning, RuntimeIInv, RuntimeShapes
<1>2. worker[o] \in Workers /\ runtime \in Runtimes
  BY WorkersTyped DEF RuntimeIInv, RuntimeShapes
<1>3. runtime.status.ownership = "external" => runtime.process = NoProcess
  BY DEF RuntimeIInv, Led
<1>4. CASE ~Owns(o) \/ runtime.process # worker[o].mine
  <2>1. End(o) /\ runtime' = runtime
    BY <1>4 DEF Recovered
  <2>2. QED
    BY <1>1, <1>2, <1>3, <2>1, WorkerEnds DEF HandleStep
<1>5. CASE /\ Owns(o) /\ runtime.process = worker[o].mine
           /\ worker[o].model = server[worker[o].mine].model /\ worker[o].model \in worker[o].models
  <2>1. PICK s : s = [runtime.status EXCEPT !.state = "ready"]
    OBVIOUS
  <2>2. s \in Statuses /\ s.ownership = runtime.status.ownership
    BY <1>2, <2>1 DEF Runtimes, Statuses
  <2>3. End(o) /\ runtime' = [runtime EXCEPT !.status = s]
    BY <1>2, <1>5, <2>1 DEF Recovered, Runtimes
  <2>4. /\ runtime' \in Runtimes /\ runtime'.process = runtime.process /\ runtime'.status = s
        /\ runtime'.launching = runtime.launching /\ runtime'.retiring = runtime.retiring
    BY <1>2, <2>2, <2>3, StatusSet
  <2>5. HandleStep(o)
    BY <1>1, <2>4 DEF HandleStep
  <2>6. QED
    BY <1>1, <1>3, <2>2, <2>3, <2>4, <2>5, WorkerEnds
<1>6. CASE /\ Owns(o) /\ runtime.process = worker[o].mine
           /\ ~(worker[o].model = server[worker[o].mine].model /\ worker[o].model \in worker[o].models)
  <2>1. PICK u : u = [Detached(runtime) EXCEPT !.status = Off]
    OBVIOUS
  <2>2. Off \in Statuses /\ Off.ownership = "none"
    BY DEF Off, Statuses, MaybeModel
  <2>3. worker[o].mine \in Servers /\ worker[o].mine # NoProcess
    BY <1>1, RuntimeConstants DEF RuntimeIInv, Spawned, Servers
  <2>4. /\ u \in Runtimes /\ u.process = NoProcess /\ u.launching = runtime.launching
        /\ u.status.ownership = "none"
        /\ \E x : x.process = runtime.process /\ u.retiring = runtime.retiring \cup {x}
    BY <1>2, <1>6, <2>1, <2>2, <2>3, TakenAway, StatusSet
  <2>5. PICK w : w = [worker[o] EXCEPT !.at = "terminate recovered"]
    OBVIOUS
  <2>6. /\ w \in Workers /\ w.at = "terminate recovered" /\ w.kind = worker[o].kind
        /\ w.mine = worker[o].mine
    BY <1>2, <2>5 DEF Workers, WorkPlaces, Retires
  <2>7. worker' = [worker EXCEPT ![o] = w] /\ runtime' = u
    BY <1>6, <2>1, <2>5 DEF Recovered, Goto
  <2>8. server[o].state = "unborn"
    BY <1>1 DEF RuntimeIInv, Spawned, Early
  <2>9. QED
    BY <1>1, <1>6, <2>3, <2>4, <2>6, <2>7, <2>8, WorkerRetires
<1>7. QED
  BY <1>4, <1>5, <1>6

\* What is said of a server somebody else runs.
LEMMA ExternalTyped ==
    ASSUME RuntimeIInv, NEW o \in Operations, worker[o].models # {}
    PROVE  External(o) \in Statuses /\ External(o).ownership = "external"
<1>1. worker[o].models \subseteq MaybeModel
  BY WorkersTyped DEF Workers
<1>2. (CHOOSE m \in worker[o].models : TRUE) \in MaybeModel
  BY <1>1
<1>3. QED
  BY <1>2 DEF External, Statuses

\* With the launching and terminating done, only the handle and the file lead to a server.
LEMMA NoneElseLeads ==
    ASSUME RuntimeIInv, \A q \in Operations : ~Busy(q)
    PROVE  Alives \ abandoned \subseteq {runtime.process, metadata}
<1>1. SUFFICES ASSUME NEW p \in Alives \ abandoned PROVE p \in {runtime.process, metadata}
  OBVIOUS
<1>2. p \in Operations
  BY DEF Alives, Servers
<1>3. \A q \in Operations : ~Terminating(q) /\ worker[q].at # "launched"
  BY DEF Terminating, Busy, Retires, Spawning
<1>4. QED
  BY <1>1, <1>2, <1>3 DEF RuntimeIInv, Led

\* The probe has answered, or nobody did.
LEMMA DecideIInv == ASSUME RuntimeIInv, NEW o \in Operations, Decide(o) PROVE RuntimeIInv'
<1>1. /\ worker[o].at = "probe" /\ ~Busy(o) /\ worker[o].at # "none" /\ mishaps' \in 0..MaxMishaps
      /\ Owns(o) /\ UNCHANGED <<backend, settings, metadata, server, foreign, mishaps, abandoned>>
  BY DEF Decide, At, Busy, Retires, Spawning, RuntimeIInv, RuntimeShapes
<1>2. worker[o] \in Workers /\ runtime \in Runtimes
  BY WorkersTyped DEF RuntimeIInv, RuntimeShapes
<1>3. runtime.status.ownership = "external" => runtime.process = NoProcess
  BY DEF RuntimeIInv, Led
<1>4. \A q \in Operations : ~Busy(q)
  BY <1>1, AloneInForce
<1>5. runtime.process = NoProcess => metadata \notin Alives
  BY <1>1 DEF RuntimeIInv, FileLeads
<1>6. server[o].state = "unborn"
  BY <1>1 DEF RuntimeIInv, Spawned, Early
<1>7. CASE worker[o].models # {} /\ runtime.process = NoProcess
  <2>1. PICK s : s = External(o)
    OBVIOUS
  <2>2. s \in Statuses
    BY <1>7, <2>1, ExternalTyped
  <2>3. End(o) /\ runtime' = [runtime EXCEPT !.status = s]
    BY <1>7, <2>1 DEF Decide
  <2>4. /\ runtime' \in Runtimes /\ runtime'.process = runtime.process /\ runtime'.status = s
        /\ runtime'.launching = runtime.launching /\ runtime'.retiring = runtime.retiring
    BY <1>2, <2>2, <2>3, StatusSet
  <2>5. HandleStep(o)
    BY <1>1, <2>4 DEF HandleStep
  <2>6. Alives \cap StartedHere \subseteq abandoned
    <3>1. NoProcess \notin Alives
      BY DEF Alives, Alive
    <3>2. QED
      BY <1>4, <1>5, <1>7, <3>1, NoneElseLeads
  <2>7. QED
    BY <1>1, <1>4, <1>7, <2>3, <2>4, <2>5, <2>6, WorkerEnds
<1>8. CASE ~(worker[o].models # {} /\ runtime.process = NoProcess)
           /\ runtime.process # NoProcess /\ runtime.status.model = worker[o].model
  <2>1. PICK w : w = [worker[o] EXCEPT !.at = "enter", !.kind = "refresh"]
    OBVIOUS
  <2>2. w \in Workers /\ w.at = "enter"
    BY <1>2, <2>1 DEF Workers, WorkPlaces
  <2>3. worker' = [worker EXCEPT ![o] = w] /\ runtime' = runtime
    BY <1>8, <2>1 DEF Decide
  <2>4. w.at \notin Retires \cup Spawning \cup Waits \cup {"ask recovered", "recovered"}
    BY <2>2 DEF Retires, Spawning, Waits
  <2>5. HandleStep(o)
    BY <1>1, <2>3 DEF HandleStep
  <2>6. QED
    BY <1>1, <1>2, <1>3, <1>6, <2>2, <2>3, <2>4, <2>5, WorkerGoesOn
<1>9. CASE ~(worker[o].models # {} /\ runtime.process = NoProcess)
           /\ ~(runtime.process # NoProcess /\ runtime.status.model = worker[o].model)
  <2>1. PICK place : place = IF runtime.process = NoProcess THEN "prepare" ELSE "terminate old"
    OBVIOUS
  <2>2. PICK w : w = [worker[o] EXCEPT !.mine = runtime.process, !.at = place]
    OBVIOUS
  <2>3. /\ w \in Workers /\ w.at = place /\ w.kind = worker[o].kind /\ w.mine = runtime.process
    <3>1. place \in WorkPlaces
      BY <2>1 DEF WorkPlaces, Retires
    <3>2. QED
      BY <1>2, <2>2, <3>1 DEF Workers, Runtimes
  <2>4. worker' = [worker EXCEPT ![o] = w] /\ runtime' = Detached(runtime)
    BY <1>9, <2>1, <2>2 DEF Decide
  <2>5. /\ runtime' \in Runtimes /\ runtime'.process = NoProcess /\ runtime'.status = runtime.status
        /\ runtime'.launching = runtime.launching
        /\ runtime.process = NoProcess => runtime'.retiring = runtime.retiring
        /\ runtime.process # NoProcess => \E x : x.process = runtime.process
                                           /\ runtime'.retiring = runtime.retiring \cup {x}
    BY <1>2, <2>4, TakenAway
  <2>6. CASE runtime.process = NoProcess
    <3>1. w.at = "prepare"
      BY <2>1, <2>3, <2>6
    <3>2. w.at \notin Retires \cup Spawning \cup Waits \cup {"ask recovered", "recovered"}
      BY <3>1 DEF Retires, Spawning, Waits
    <3>3. HandleStep(o)
      BY <1>1, <2>5, <2>6 DEF HandleStep
    <3>4. QED
      BY <1>1, <1>4, <1>5, <1>6, <2>3, <2>4, <2>5, <2>6, <3>2, <3>3, WorkerGoesOn
  <2>7. CASE runtime.process # NoProcess
    <3>1. w.at = "terminate old"
      BY <2>1, <2>3, <2>7
    <3>2. runtime'.status.ownership # "external"
      BY <1>3, <2>5, <2>7
    <3>3. QED
      BY <1>1, <1>6, <2>3, <2>4, <2>5, <2>7, <3>1, <3>2, WorkerRetires
  <2>8. QED
    BY <2>6, <2>7
<1>10. QED
  BY <1>7, <1>8, <1>9

\* What the endpoint serves is shown.
LEMMA RefreshIInv == ASSUME RuntimeIInv, NEW o \in Operations, Refresh(o) PROVE RuntimeIInv'
<1>1. /\ worker[o].at = "refresh" /\ ~Busy(o) /\ worker[o].at # "none" /\ mishaps' \in 0..MaxMishaps
      /\ Owns(o) /\ UNCHANGED <<backend, settings, metadata, server, foreign, mishaps, abandoned>>
      /\ End(o)
  BY DEF Refresh, At, Busy, Retires, Spawning, RuntimeIInv, RuntimeShapes
<1>2. worker[o] \in Workers /\ runtime \in Runtimes
  BY WorkersTyped DEF RuntimeIInv, RuntimeShapes
<1>3. runtime.status.ownership = "external" => runtime.process = NoProcess
  BY DEF RuntimeIInv, Led
<1>4. \A q \in Operations : ~Busy(q)
  BY <1>1, AloneInForce
<1>5. CASE runtime.process # worker[o].mine
  <2>1. runtime' = runtime
    BY <1>5 DEF Refresh
  <2>2. QED
    BY <1>1, <1>2, <1>3, <2>1, WorkerEnds DEF HandleStep
<1>6. ASSUME NEW s \in Statuses, runtime' = [runtime EXCEPT !.status = s],
             s.ownership = "external" => \/ runtime.status.ownership = "external"
                                         \/ runtime.process = NoProcess
      PROVE  RuntimeIInv'
  <2>1. /\ runtime' \in Runtimes /\ runtime'.process = runtime.process /\ runtime'.status = s
        /\ runtime'.launching = runtime.launching /\ runtime'.retiring = runtime.retiring
    BY <1>2, <1>6, StatusSet
  <2>2. HandleStep(o)
    BY <1>1, <2>1 DEF HandleStep
  <2>3. runtime.process = NoProcess => Alives \cap StartedHere \subseteq abandoned
    <3>1. NoProcess \notin Alives
      BY DEF Alives, Alive
    <3>2. runtime.process = NoProcess => metadata \notin Alives \cap StartedHere
      BY <1>4 DEF RuntimeIInv, FileLeads
    <3>3. QED
      BY <1>4, <3>1, <3>2, NoneElseLeads
  <2>4. QED
    BY <1>1, <1>3, <1>4, <1>6, <2>1, <2>2, <2>3, WorkerEnds
<1>7. CASE runtime.process = worker[o].mine /\ worker[o].models = {}
  <2>1. PICK s : s = [runtime.status EXCEPT !.state = "error"]
    OBVIOUS
  <2>2. s \in Statuses /\ s.ownership = runtime.status.ownership
    BY <1>2, <2>1 DEF Runtimes, Statuses
  <2>3. runtime' = [runtime EXCEPT !.status = s]
    BY <1>2, <1>7, <2>1 DEF Refresh, Runtimes
  <2>4. QED
    BY <1>6, <2>2, <2>3
<1>8. CASE runtime.process = worker[o].mine /\ worker[o].models # {} /\ worker[o].mine = NoProcess
  <2>1. PICK s : s = External(o)
    OBVIOUS
  <2>2. s \in Statuses
    BY <1>8, <2>1, ExternalTyped
  <2>3. runtime' = [runtime EXCEPT !.status = s]
    BY <1>8, <2>1 DEF Refresh
  <2>4. QED
    BY <1>6, <1>8, <2>2, <2>3
<1>9. CASE runtime.process = worker[o].mine /\ worker[o].models # {} /\ worker[o].mine # NoProcess
  <2>1. PICK m \in worker[o].models : m = CHOOSE x \in worker[o].models : TRUE
    BY <1>9
  <2>2. PICK fits : fits = (worker[o].model \in worker[o].models)
    OBVIOUS
  <2>3. PICK s : s = [state |-> IF fits THEN "ready" ELSE "mismatch", ownership |-> "managed",
                      model |-> IF fits THEN worker[o].model ELSE m]
    OBVIOUS
  <2>4. s \in Statuses /\ s.ownership # "external"
    <3>1. m \in MaybeModel /\ worker[o].model \in MaybeModel
      BY <1>2 DEF Workers
    <3>2. QED
      BY <2>3, <3>1 DEF Statuses
  <2>5. runtime' = [runtime EXCEPT !.status = s]
    BY <1>9, <2>1, <2>2, <2>3 DEF Refresh
  <2>6. QED
    BY <1>6, <2>4, <2>5
<1>10. QED
  BY <1>5, <1>7, <1>8, <1>9

\* A server that exited before it was ready is let go.
LEMMA AwaitReadyIInv == ASSUME RuntimeIInv, NEW o \in Operations, AwaitReady(o) PROVE RuntimeIInv'
<1> DEFINE seen == Observed(runtime)
<1>1. /\ worker[o].at = "wait" /\ ~Busy(o) /\ worker[o].at # "none" /\ mishaps' \in 0..MaxMishaps
      /\ UNCHANGED <<backend, settings, server, foreign, mishaps, abandoned>>
  BY DEF AwaitReady, At, Busy, Retires, Spawning, RuntimeIInv, RuntimeShapes
<1>2. worker[o] \in Workers /\ runtime \in Runtimes
  BY WorkersTyped DEF RuntimeIInv, RuntimeShapes
<1>3. runtime.status.ownership = "external" => runtime.process = NoProcess
  BY DEF RuntimeIInv, Led
<1>4. CASE ~Owns(o)
  <2>1. End(o) /\ runtime' = runtime /\ metadata' = metadata
    BY <1>4 DEF AwaitReady
  <2>2. QED
    BY <1>1, <1>2, <1>3, <2>1, WorkerEnds DEF HandleStep
<1>5. CASE Owns(o)
  <2>1. runtime' = seen /\ metadata' = ObservedFile
    BY <1>5 DEF AwaitReady
  <2>2. /\ seen \in Runtimes /\ seen.launching = runtime.launching /\ seen.retiring = runtime.retiring
        /\ seen.status.ownership = "external" => seen = runtime
    BY <1>2, LookAtHandle
  <2>3. HandleStep(o)
    BY <2>1, LookAtHandle DEF HandleStep
  <2>4. seen.status.ownership = "external" =>
             runtime.status.ownership = "external" /\ seen.process = NoProcess
    BY <1>3, <2>2
  <2>5. CASE seen.process # worker[o].mine
    <3>1. End(o)
      BY <1>5, <2>5 DEF AwaitReady
    <3>2. QED
      BY <1>1, <2>1, <2>2, <2>3, <2>4, <3>1, WorkerEnds
  <2>6. CASE seen.process = worker[o].mine
    <3>1. PICK w : w = [worker[o] EXCEPT !.at = "ask ready"]
      OBVIOUS
    <3>2. w \in Workers /\ w.at = "ask ready" /\ w.kind = worker[o].kind /\ w.mine = worker[o].mine
      BY <1>2, <3>1 DEF Workers, WorkPlaces, Asks
    <3>3. worker' = [worker EXCEPT ![o] = w]
      BY <1>5, <2>6, <3>1 DEF AwaitReady, Goto
    <3>4. w.at \notin Retires \cup Spawning \cup Early
      BY <3>2 DEF Retires, Spawning, Early
    <3>5. w.mine \in Servers
      BY <1>1, <3>2 DEF RuntimeIInv, Spawned, Waits
    <3>6. \A q \in Operations : ~Busy(q)
      BY <1>1, <1>5, AloneInForce
    <3>7. w.at \notin {"recover", "prepare", "ask probe", "probe", "prepare"}
      BY <3>2
    <3>8. QED
      BY <1>1, <2>1, <2>2, <2>3, <2>4, <3>2, <3>3, <3>4, <3>5, <3>6, <3>7, WorkerGoesOn
  <2>7. QED
    BY <2>5, <2>6
<1>6. QED
  BY <1>4, <1>5

\* What failed leaves no ownership behind.
LEMMA FailedStatus ==
    ASSUME RuntimeIInv, NEW o \in Operations, NEW r \in Runtimes
    PROVE  /\ Failed(r, o) \in Runtimes /\ Failed(r, o).process = r.process
           /\ Failed(r, o).launching = r.launching /\ Failed(r, o).retiring = r.retiring
           /\ Failed(r, o).status.ownership = "external" => ~Owns(o) /\ r.status.ownership = "external"
           /\ Owns(o) => Failed(r, o).status.ownership = "none"
<1>1. CASE Owns(o)
  <2>1. PICK s : s = [r.status EXCEPT !.state = "error", !.ownership = "none"]
    OBVIOUS
  <2>2. s \in Statuses /\ s.ownership = "none"
    BY <2>1 DEF Runtimes, Statuses
  <2>3. Failed(r, o) = [r EXCEPT !.status = s]
    BY <1>1, <2>1 DEF Failed, Runtimes, Statuses
  <2>4. QED
    BY <1>1, <2>2, <2>3, StatusSet
<1>2. CASE ~Owns(o)
  BY <1>2 DEF Failed
<1>3. QED
  BY <1>1, <1>2

\* The server that was waited for is given up.
LEMMA GivenUpIInv ==
    ASSUME RuntimeIInv, NEW o \in Operations, Owns(o), worker[o].at \in {"wait", "ready"},
           runtime.process = worker[o].mine,
           runtime' = Failed(Detached(runtime), o), Goto(o, "terminate last"),
           UNCHANGED <<backend, settings, metadata, server, foreign, abandoned>>,
           mishaps' \in 0..MaxMishaps
    PROVE  RuntimeIInv'
<1>1. worker[o] \in Workers /\ runtime \in Runtimes /\ ~Busy(o) /\ worker[o].at # "none"
  BY WorkersTyped DEF RuntimeIInv, RuntimeShapes, Busy, Retires, Spawning
<1>2. worker[o].mine \in Servers /\ worker[o].mine # NoProcess
  BY RuntimeConstants DEF RuntimeIInv, Spawned, Servers, Waits
<1>3. PICK d : d = Detached(runtime)
  OBVIOUS
<1>4. /\ d \in Runtimes /\ d.process = NoProcess /\ d.launching = runtime.launching
      /\ \E x : x.process = runtime.process /\ d.retiring = runtime.retiring \cup {x}
  BY <1>1, <1>2, <1>3, TakenAway
<1>5. /\ runtime' \in Runtimes /\ runtime'.process = NoProcess
      /\ runtime'.launching = runtime.launching
      /\ runtime'.retiring = d.retiring
      /\ runtime'.status.ownership = "none"
  BY <1>3, <1>4, FailedStatus
<1>6. PICK w : w = [worker[o] EXCEPT !.at = "terminate last"]
  OBVIOUS
<1>7. /\ w \in Workers /\ w.at = "terminate last" /\ w.kind = worker[o].kind
      /\ w.mine = worker[o].mine /\ w.at \notin Early
  BY <1>1, <1>6 DEF Workers, WorkPlaces, Retires, Early
<1>8. worker' = [worker EXCEPT ![o] = w]
  BY <1>6 DEF Goto
<1>9. QED
  BY <1>1, <1>2, <1>4, <1>5, <1>7, <1>8, WorkerRetires

\* No answer yet, another model, or ready.
LEMMA ConfirmReadyIInv == ASSUME RuntimeIInv, NEW o \in Operations, ConfirmReady(o) PROVE RuntimeIInv'
<1>1. /\ worker[o].at = "ready" /\ ~Busy(o) /\ worker[o].at # "none" /\ mishaps' \in 0..MaxMishaps
      /\ Owns(o) /\ UNCHANGED <<backend, settings, metadata, server, foreign, mishaps, abandoned>>
  BY DEF ConfirmReady, At, Busy, Retires, Spawning, RuntimeIInv, RuntimeShapes
<1>2. worker[o] \in Workers /\ runtime \in Runtimes
  BY WorkersTyped DEF RuntimeIInv, RuntimeShapes
<1>3. runtime.status.ownership = "external" => runtime.process = NoProcess
  BY DEF RuntimeIInv, Led
<1>4. CASE worker[o].models = {}
  <2>1. PICK w : w = [worker[o] EXCEPT !.at = "wait"]
    OBVIOUS
  <2>2. w \in Workers /\ w.at = "wait" /\ w.kind = worker[o].kind /\ w.mine = worker[o].mine
    BY <1>2, <2>1 DEF Workers, WorkPlaces, Waits
  <2>3. worker' = [worker EXCEPT ![o] = w] /\ runtime' = runtime
    BY <1>4, <2>1 DEF ConfirmReady, Goto
  <2>4. w.at \notin Retires \cup Spawning \cup Early
    BY <2>2 DEF Retires, Spawning, Early
  <2>5. w.mine \in Servers
    BY <1>1, <2>2 DEF RuntimeIInv, Spawned, Waits
  <2>6. \A q \in Operations : ~Busy(q)
    BY <1>1, AloneInForce
  <2>7. w.at \notin {"recover", "prepare", "ask probe", "probe", "prepare"}
    BY <2>2
  <2>8. HandleStep(o)
    BY <1>1, <2>3 DEF HandleStep
  <2>9. QED
    BY <1>1, <1>2, <1>3, <2>2, <2>3, <2>4, <2>5, <2>6, <2>7, <2>8, WorkerGoesOn
<1>5. CASE worker[o].models # {} /\ runtime.process # worker[o].mine
  <2>1. End(o) /\ runtime' = runtime
    BY <1>5 DEF ConfirmReady
  <2>2. QED
    BY <1>1, <1>2, <1>3, <2>1, WorkerEnds DEF HandleStep
<1>6. CASE worker[o].models # {} /\ runtime.process = worker[o].mine
           /\ worker[o].model \notin worker[o].models
  <2>1. runtime' = Failed(Detached(runtime), o) /\ Goto(o, "terminate last")
    BY <1>6 DEF ConfirmReady
  <2>2. QED
    BY <1>1, <1>6, <2>1, GivenUpIInv
<1>7. CASE worker[o].models # {} /\ runtime.process = worker[o].mine
           /\ worker[o].model \in worker[o].models
  <2>1. PICK s : s = [state |-> "ready", ownership |-> "managed", model |-> worker[o].model]
    OBVIOUS
  <2>2. s \in Statuses /\ s.ownership # "external"
    BY <1>2, <2>1 DEF Statuses, Workers
  <2>3. End(o) /\ runtime' = [runtime EXCEPT !.status = s]
    BY <1>7, <2>1 DEF ConfirmReady
  <2>4. /\ runtime' \in Runtimes /\ runtime'.process = runtime.process /\ runtime'.status = s
        /\ runtime'.launching = runtime.launching /\ runtime'.retiring = runtime.retiring
    BY <1>2, <2>2, <2>3, StatusSet
  <2>5. HandleStep(o)
    BY <1>1, <2>4 DEF HandleStep
  <2>6. QED
    BY <1>1, <2>2, <2>3, <2>4, <2>5, WorkerEnds
<1>8. QED
  BY <1>4, <1>5, <1>6, <1>7

\* A server that does not load in time.
LEMMA ReadyTimeoutIInv == ASSUME RuntimeIInv, NEW o \in Operations, ReadyTimeout(o) PROVE RuntimeIInv'
<1>1. /\ worker[o].at = "wait" /\ ~Busy(o) /\ worker[o].at # "none" /\ mishaps' \in 0..MaxMishaps
      /\ UNCHANGED <<backend, settings, metadata, server, foreign, abandoned>>
  <2>1. /\ worker[o].at = "wait" /\ mishaps > 0 /\ mishaps' = mishaps - 1
        /\ UNCHANGED <<backend, settings, metadata, server, foreign, abandoned>>
    BY DEF ReadyTimeout, At
  <2>2. mishaps' \in 0..MaxMishaps
    BY <2>1, RuntimeConstants DEF RuntimeIInv, RuntimeShapes
  <2>3. QED
    BY <2>1, <2>2 DEF Busy, Retires, Spawning
<1>2. runtime \in Runtimes
  BY DEF RuntimeIInv, RuntimeShapes
<1>3. runtime.status.ownership = "external" => runtime.process = NoProcess
  BY DEF RuntimeIInv, Led
<1>4. CASE ~Owns(o) \/ runtime.process # worker[o].mine
  <2>1. End(o) /\ runtime' = runtime
    BY <1>4 DEF ReadyTimeout
  <2>2. QED
    BY <1>1, <1>2, <1>3, <2>1, WorkerEnds DEF HandleStep
<1>5. CASE Owns(o) /\ runtime.process = worker[o].mine
  <2>1. runtime' = Failed(Detached(runtime), o) /\ Goto(o, "terminate last")
    BY <1>5 DEF ReadyTimeout
  <2>2. QED
    BY <1>1, <1>5, <2>1, GivenUpIInv
<1>6. QED
  BY <1>4, <1>5

\* A worker that launches, or terminates what it launched, goes on; it is the only one.
LEMMA LauncherGoesOn ==
    ASSUME RuntimeIInv, NEW o \in Operations, NEW w \in Workers,
           worker' = [worker EXCEPT ![o] = w],
           worker[o].at \notin {"none", "enter"}, Busy(o) \/ Owns(o),
           w.kind = worker[o].kind, w.at \in Spawning,
           w.at = "launch" => server'[o].state = "unborn",
           w.at = "launched" => o \in Servers',
           w.at \in {"terminate refused", "terminate launched"} => w.mine \in Servers',
           w.at = "terminate launched" =>
              w.mine \notin Alives' /\ \E r \in runtime'.retiring : r.process = w.mine,
           \A r \in runtime'.retiring : w.at = "terminate launched" /\ r.process = w.mine,
           \A p \in Alives' \ abandoned :
              \/ p = w.mine /\ w.at \in {"terminate refused", "terminate launched"}
              \/ p = o /\ w.at = "launched",
           server' \in [Operations -> Processes], Servers \subseteq Servers',
           \A q \in Operations \ {o} : server'[q] = server[q],
           UNCHANGED <<backend, settings, metadata, foreign, abandoned>>,
           metadata' \notin Alives',
           mishaps' \in 0..MaxMishaps,
           runtime' \in Runtimes, runtime'.process = NoProcess, o \in runtime'.launching,
           runtime'.status.ownership # "external"
    PROVE  RuntimeIInv'
<1>1. /\ worker' \in [Operations -> Workers] /\ worker'[o] = w
      /\ \A q \in Operations \ {o} : worker'[q] = worker[q]
  BY DEF RuntimeIInv, RuntimeShapes
<1>2. RuntimeShapes'
  BY <1>1 DEF RuntimeIInv, RuntimeShapes
<1>3. \A q \in Operations : Busy(q)' <=> q = o
  <2>1. \A q \in Operations \ {o} : ~Busy(q)
    BY AloneInForce DEF RuntimeIInv, OneBusy
  <2>2. QED
    BY <1>1, <2>1 DEF Busy
<1>4. \A q : Owns(q)' <=> Owns(q)
  BY DEF Owns
<1>5. \A q \in Operations \ {o} : Owns(q) => worker[q].at \in {"none", "enter"}
  BY DEF Owns, RuntimeIInv, OneBusy
<1>6. ~(o > backend.operation)
  <2>1. NoWorker.at = "none"
    BY DEF NoWorker
  <2>2. worker[o] # NoWorker
    BY <2>1
  <2>3. QED
    BY <2>2, WorkerIsReserved
<1>7. Spawned'
  <2>1. \A q \in Operations : q > backend.operation =>
           worker'[q] = NoWorker /\ server'[q].state = "unborn"
    BY <1>1, <1>6 DEF RuntimeIInv, Spawned
  <2>2. {runtime'.process, metadata'} \subseteq Servers' \cup {NoProcess}
    BY DEF RuntimeIInv, Spawned
  <2>3. \A q \in Operations : worker'[q].at \in Early => server'[q].state = "unborn"
    BY <1>1 DEF RuntimeIInv, Spawned, Spawning, Early
  <2>4. \A q \in Operations :
          worker'[q].at \in Retires \cup Waits \cup {"terminate refused", "ask recovered", "recovered"}
             => worker'[q].mine \in Servers'
    BY <1>1 DEF RuntimeIInv, Spawned, Spawning, Retires, Waits
  <2>5. \A q \in Operations : worker'[q].at = "launched" => q \in Servers'
    BY <1>1 DEF RuntimeIInv, Spawned
  <2>6. QED
    BY <2>1, <2>2, <2>3, <2>4, <2>5 DEF Spawned
<1>8. OneBusy'
  <2>1. \A q \in Operations : worker'[q].at \in Spawning => q \in runtime'.launching
    BY <1>3 DEF Busy
  <2>2. \A q \in Operations : worker'[q].at \in Retires =>
           \E r \in runtime'.retiring : r.process = worker'[q].mine
    BY <1>1, <1>3 DEF Busy, Retires, Spawning
  <2>3. \A r \in runtime'.retiring : \E q \in Operations :
           worker'[q].at \in Retires /\ worker'[q].mine = r.process
    BY <1>1 DEF Retires
  <2>4. \A q \in Operations : Owns(q) /\ worker'[q].at \notin {"none", "enter"} => q = o
    BY <1>1, <1>5
  <2>5. QED
    BY <1>3, <1>4, <2>1, <2>2, <2>3, <2>4 DEF OneBusy
<1>9. FileLeads'
  <2>1. w.at \notin (Retires \ {"terminate launched"}) \cup {"recover", "prepare", "ask probe", "probe"}
    BY DEF Spawning, Retires
  <2>2. \A q \in Operations :
          /\ worker'[q].at \in Retires \ {"terminate launched"} => metadata' = worker'[q].mine
          /\ worker'[q].at \in Spawning => metadata' \notin Alives'
          /\ worker'[q].at = "terminate launched" => worker'[q].mine \notin Alives'
    BY <1>1, <1>3, <2>1 DEF Busy, Spawning
  <2>3. \A q \in Operations : Owns(q) =>
          worker'[q].at \notin {"recover", "prepare", "ask probe", "probe"}
    BY <1>1, <1>5, <2>1
  <2>4. QED
    BY <1>4, <2>2, <2>3 DEF FileLeads
<1>10. Led'
  <2>1. w.at \in {"terminate refused", "terminate launched"} => Terminating(o)'
    BY <1>1 DEF Terminating
  <2>2. QED
    BY <1>1, <2>1 DEF Led
<1>11. QED
  BY <1>2, <1>7, <1>8, <1>9, <1>10 DEF RuntimeIInv

\* The only worker that launched or terminated is done with it.
LEMMA BusyEnds ==
    ASSUME RuntimeIInv, NEW o \in Operations, NEW w \in Workers,
           worker' = [worker EXCEPT ![o] = w], Busy(o),
           w.kind = worker[o].kind, w.at \in {"none", "wait", "prepare", "ask probe"},
           w.at \in {"prepare", "ask probe"} => server[o].state = "unborn" /\ runtime'.process = NoProcess,
           w.at = "wait" => w.mine \in Servers,
           server' \in [Operations -> Processes], Servers' = Servers,
           UNCHANGED <<backend, settings, foreign>>,
           mishaps' \in 0..MaxMishaps, abandoned' \subseteq Operations,
           runtime' \in Runtimes, runtime'.retiring = {}, runtime'.launching = runtime.launching \ {o},
           runtime'.process \in Servers \cup {NoProcess},
           metadata' \in Servers \cup {NoProcess},
           runtime'.process # NoProcess => metadata' = runtime'.process,
           runtime'.process = NoProcess => metadata' \notin Alives',
           \A p \in Alives' \ abandoned' : p = runtime'.process,
           runtime'.status.ownership # "external"
    PROVE  RuntimeIInv'
<1>1. /\ worker' \in [Operations -> Workers] /\ worker'[o] = w
      /\ \A q \in Operations \ {o} : worker'[q] = worker[q]
      /\ Servers \subseteq Operations
  BY DEF RuntimeIInv, RuntimeShapes, Servers
<1>2. RuntimeShapes'
  BY <1>1, RuntimeConstants DEF RuntimeIInv, RuntimeShapes
<1>3. \A q \in Operations : ~Busy(q)'
  BY <1>1 DEF RuntimeIInv, OneBusy, Busy, Retires, Spawning
<1>4. \A q : Owns(q)' <=> Owns(q)
  BY DEF Owns
<1>5. \A q \in Operations \ {o} : Owns(q) => worker[q].at \in {"none", "enter"}
  BY DEF RuntimeIInv, OneBusy
<1>6. ~(o > backend.operation)
  <2>1. NoWorker.at = "none"
    BY DEF NoWorker
  <2>2. worker[o] # NoWorker
    BY <2>1 DEF Busy, Retires, Spawning
  <2>3. QED
    BY <2>2, WorkerIsReserved
<1>7. \A q \in Operations : server[q].state = "unborn" => server'[q].state = "unborn"
  <2>1. TAKE q \in Operations
  <2>2. HAVE server[q].state = "unborn"
  <2>3. q \notin Servers'
    BY <2>2 DEF Servers
  <2>4. QED
    BY <2>3 DEF Servers
<1>8. Spawned'
  <2>1. \A q \in Operations : q > backend.operation =>
           worker'[q] = NoWorker /\ server'[q].state = "unborn"
    BY <1>1, <1>6, <1>7 DEF RuntimeIInv, Spawned
  <2>2. \A q \in Operations : worker'[q].at \in Early => server'[q].state = "unborn"
    <3>1. w.at \in Early => server[o].state = "unborn"
      BY DEF Early
    <3>2. QED
      BY <1>1, <1>7, <3>1 DEF RuntimeIInv, Spawned
  <2>3. \A q \in Operations :
          worker'[q].at \in Retires \cup Waits \cup {"terminate refused", "ask recovered", "recovered"}
             => worker'[q].mine \in Servers
    BY <1>1 DEF RuntimeIInv, Spawned, Retires, Waits
  <2>4. \A q \in Operations : worker'[q].at = "launched" => q \in Servers
    BY <1>1 DEF RuntimeIInv, Spawned
  <2>5. QED
    BY <2>1, <2>2, <2>3, <2>4 DEF Spawned
<1>9. OneBusy'
  BY <1>3 DEF OneBusy, Busy
<1>10. FileLeads'
  <2>1. \A q \in Operations : worker'[q].at \notin Retires \cup Spawning
    BY <1>3 DEF Busy
  <2>2. \A q \in Operations : Owns(q) =>
          /\ worker'[q].at \in {"recover", "prepare"} => runtime'.process = NoProcess
    BY <1>1, <1>5
  <2>3. QED
    BY <1>4, <2>1, <2>2 DEF FileLeads, Retires, Spawning
<1>11. Led'
  BY <1>3 DEF Led
<1>12. QED
  BY <1>2, <1>8, <1>9, <1>10, <1>11 DEF RuntimeIInv

\* The launch is announced before the lock is left.
LEMMA PrepareIInv == ASSUME RuntimeIInv, NEW o \in Operations, Prepare(o) PROVE RuntimeIInv'
<1>1. /\ worker[o].at = "prepare" /\ Owns(o) /\ mishaps' \in 0..MaxMishaps
      /\ UNCHANGED <<backend, settings, metadata, server, foreign, mishaps, abandoned>>
  BY DEF Prepare, At, RuntimeIInv, RuntimeShapes
<1>2. worker[o] \in Workers /\ runtime \in Runtimes
  BY WorkersTyped DEF RuntimeIInv, RuntimeShapes
<1>3. \A q \in Operations : ~Busy(q)
  <2>1. ~Busy(o)
    BY <1>1 DEF Busy, Retires, Spawning
  <2>2. QED
    BY <1>1, <2>1, AloneInForce
<1>4. /\ runtime.process = NoProcess /\ metadata \notin Alives /\ server[o].state = "unborn"
      /\ runtime.retiring = {}
  <2>1. runtime.process = NoProcess /\ metadata \notin Alives
    BY <1>1 DEF RuntimeIInv, FileLeads
  <2>2. server[o].state = "unborn"
    BY <1>1 DEF RuntimeIInv, Spawned, Early
  <2>3. runtime.retiring = {}
    BY <1>3 DEF RuntimeIInv, OneBusy, Busy
  <2>4. QED
    BY <2>1, <2>2, <2>3
<1>5. PICK s : s = [state |-> "starting", ownership |-> "managed", model |-> worker[o].model]
  OBVIOUS
<1>6. s \in Statuses /\ s.ownership # "external"
  BY <1>2, <1>5 DEF Statuses, Workers
<1>7. runtime' = [runtime EXCEPT !.status = s, !.launching = runtime.launching \cup {o}]
  BY <1>5 DEF Prepare
<1>8. /\ runtime' \in Runtimes /\ runtime'.process = NoProcess /\ o \in runtime'.launching
      /\ runtime'.status = s /\ runtime'.retiring = {}
  BY <1>2, <1>4, <1>6, <1>7 DEF Runtimes
<1>9. PICK w : w = [worker[o] EXCEPT !.at = "launch"]
  OBVIOUS
<1>10. w \in Workers /\ w.at = "launch" /\ w.kind = worker[o].kind /\ w.at \in Spawning
  BY <1>2, <1>9 DEF Workers, WorkPlaces, Spawning
<1>11. worker' = [worker EXCEPT ![o] = w]
  BY <1>9 DEF Prepare, Goto
<1>12. Alives \subseteq abandoned
  <2>1. NoProcess \notin Alives
    BY DEF Alives, Alive
  <2>2. QED
    BY <1>3, <1>4, <2>1, NoneElseLeads
<1>13. /\ Servers' = Servers /\ Alives' = Alives /\ server' \in [Operations -> Processes]
       /\ \A q \in Operations : server'[q] = server[q]
  BY <1>1 DEF Servers, Alives, Alive, RuntimeIInv, RuntimeShapes
<1>14. QED
  BY <1>1, <1>4, <1>6, <1>8, <1>10, <1>11, <1>12, <1>13, LauncherGoesOn

\* What a worker that launches or terminates finds.
LEMMA WhileBusy ==
    ASSUME RuntimeIInv, NEW o \in Operations, Busy(o)
    PROVE  /\ runtime.process = NoProcess /\ runtime.status.ownership # "external"
           /\ \A q \in Operations : Busy(q) => q = o
           /\ \A r \in runtime.retiring : worker[o].at \in Retires /\ r.process = worker[o].mine
           /\ \A p \in Alives \ abandoned :
                 \/ p = metadata
                 \/ Terminating(o) /\ worker[o].mine = p
                 \/ p = o /\ worker[o].at = "launched"
<1>1. /\ runtime.process = NoProcess /\ runtime.status.ownership # "external"
      /\ \A q \in Operations : Busy(q) => q = o
  BY DEF RuntimeIInv, OneBusy, Led
<1>2. \A r \in runtime.retiring : worker[o].at \in Retires /\ r.process = worker[o].mine
  BY <1>1 DEF RuntimeIInv, OneBusy, Busy
<1>3. ASSUME NEW p \in Alives \ abandoned
      PROVE  \/ p = metadata
             \/ Terminating(o) /\ worker[o].mine = p
             \/ p = o /\ worker[o].at = "launched"
  <2>1. p \in Operations /\ p # NoProcess
    BY DEF Alives, Servers, Alive
  <2>2. \A q \in Operations : Terminating(q) \/ worker[q].at = "launched" => q = o
    BY <1>1 DEF Terminating, Busy, Retires, Spawning
  <2>3. \/ p \in {runtime.process, metadata}
        \/ \E q \in Operations : Terminating(q) /\ worker[q].mine = p
        \/ worker[p].at = "launched"
    BY <1>3 DEF RuntimeIInv, Led
  <2>4. QED
    BY <1>1, <2>1, <2>2, <2>3
<1>4. QED
  BY <1>1, <1>2, <1>3

\* The server is spawned.
LEMMA LaunchIInv == ASSUME RuntimeIInv, NEW o \in Operations, Launch(o) PROVE RuntimeIInv'
<1>1. /\ worker[o].at = "launch" /\ mishaps' \in 0..MaxMishaps
      /\ UNCHANGED <<backend, settings, runtime, metadata, foreign, mishaps, abandoned>>
  BY DEF Launch, At, RuntimeIInv, RuntimeShapes
<1>2. worker[o] \in Workers /\ runtime \in Runtimes
  BY WorkersTyped DEF RuntimeIInv, RuntimeShapes
<1>3. Busy(o) /\ worker[o].at \in Spawning /\ worker[o].at \notin Retires /\ ~Terminating(o)
  BY <1>1 DEF Busy, Spawning, Retires, Terminating
<1>4. /\ o \notin Servers /\ metadata \notin Alives /\ metadata # o /\ o \in runtime.launching
  <2>1. server[o].state = "unborn"
    BY <1>1 DEF RuntimeIInv, Spawned, Early
  <2>2. o \notin Servers /\ o # NoProcess
    BY <2>1, RuntimeConstants DEF Servers
  <2>3. QED
    BY <1>3, <2>2 DEF RuntimeIInv, Spawned, FileLeads, OneBusy
<1>5. PICK s : s = [state |-> "loading", model |-> worker[o].model]
  OBVIOUS
<1>6. s \in Processes /\ s.state = "loading"
  BY <1>2, <1>5 DEF Processes, Workers
<1>7. /\ server' \in [Operations -> Processes] /\ server'[o] = s
      /\ \A q \in Operations \ {o} : server'[q] = server[q]
  BY <1>5, <1>6 DEF Launch, RuntimeIInv, RuntimeShapes
<1>8. o \in Servers' /\ Servers \subseteq Servers' /\ Alives' = Alives \cup {o}
  BY <1>4, <1>6, <1>7, RuntimeConstants DEF Servers, Alives, Alive
<1>9. PICK w : w = [worker[o] EXCEPT !.at = "launched"]
  OBVIOUS
<1>10. w \in Workers /\ w.at = "launched" /\ w.kind = worker[o].kind /\ w.at \in Spawning
  BY <1>2, <1>9 DEF Workers, WorkPlaces, Spawning
<1>11. worker' = [worker EXCEPT ![o] = w]
  BY <1>9 DEF Launch, Goto
<1>12. /\ runtime.process = NoProcess /\ runtime.status.ownership # "external"
       /\ \A r \in runtime.retiring : FALSE
       /\ \A p \in Alives \ abandoned : p = metadata
  BY <1>1, <1>3, WhileBusy
<1>13. /\ \A p \in Alives' \ abandoned : p = o
       /\ metadata' \notin Alives' /\ o \in runtime'.launching /\ runtime' = runtime
  BY <1>1, <1>4, <1>8, <1>12
<1>14. w.at \notin {"launch", "terminate refused", "terminate launched"}
  BY <1>10
<1>15. /\ worker[o].at \notin {"none", "enter"} /\ Servers \subseteq Servers' /\ o \in Servers'
       /\ runtime'.process = NoProcess /\ runtime'.status.ownership # "external"
       /\ \A r \in runtime'.retiring : FALSE
       /\ runtime' \in Runtimes /\ server' \in [Operations -> Processes]
       /\ UNCHANGED <<backend, settings, metadata, foreign, abandoned>>
  BY <1>1, <1>2, <1>7, <1>8, <1>12, <1>13
<1>16. QED
  BY <1>1, <1>3, <1>7, <1>10, <1>11, <1>13, <1>14, <1>15, LauncherGoesOn

LEMMA LaunchFailsIInv == ASSUME RuntimeIInv, NEW o \in Operations, LaunchFails(o) PROVE RuntimeIInv'
<1>1. /\ worker[o].at = "launch" /\ mishaps > 0 /\ mishaps' = mishaps - 1
      /\ UNCHANGED <<backend, settings, metadata, server, foreign, abandoned>> /\ End(o)
  BY DEF LaunchFails, At
<1>2. mishaps' \in 0..MaxMishaps
  BY <1>1, RuntimeConstants DEF RuntimeIInv, RuntimeShapes
<1>3. runtime \in Runtimes
  BY DEF RuntimeIInv, RuntimeShapes
<1>4. Busy(o) /\ worker[o].at \in Spawning /\ worker[o].at \notin Retires /\ ~Terminating(o)
  BY <1>1 DEF Busy, Spawning, Retires, Terminating
<1>5. /\ runtime.process = NoProcess /\ runtime.status.ownership # "external"
      /\ runtime.retiring = {} /\ metadata \notin Alives
      /\ \A p \in Alives \ abandoned : FALSE
  <2>1. metadata \notin Alives
    BY <1>4 DEF RuntimeIInv, FileLeads
  <2>2. QED
    BY <1>1, <1>4, <2>1, WhileBusy
<1>6. PICK f \in Runtimes : /\ f = Failed(runtime, o) /\ f.process = NoProcess /\ f.retiring = {}
                            /\ f.launching = runtime.launching /\ f.status.ownership # "external"
  BY <1>3, <1>5, FailedStatus
<1>7. runtime' = [f EXCEPT !.launching = f.launching \ {o}]
  BY <1>6 DEF LaunchFails
<1>8. /\ runtime' \in Runtimes /\ runtime'.process = NoProcess /\ runtime'.retiring = {}
      /\ runtime'.launching = runtime.launching \ {o} /\ runtime'.status.ownership # "external"
  BY <1>6, <1>7 DEF Runtimes
<1>9. PICK w : w = [NoWorker EXCEPT !.kind = worker[o].kind]
  OBVIOUS
<1>10. w \in Workers /\ w.at = "none" /\ w.kind = worker[o].kind
  BY <1>9, WorkerEnded
<1>11. worker' = [worker EXCEPT ![o] = w]
  BY <1>1, <1>9 DEF End
<1>12. /\ Servers' = Servers /\ Alives' = Alives /\ server' \in [Operations -> Processes]
       /\ metadata' \in Servers \cup {NoProcess} /\ abandoned' \subseteq Operations
  BY <1>1 DEF Servers, Alives, Alive, RuntimeIInv, RuntimeShapes, Spawned
<1>13. QED
  BY <1>1, <1>2, <1>4, <1>5, <1>8, <1>10, <1>11, <1>12, BusyEnds

\* Accepted only for the operation in force, and only while the server runs.
LEMMA AcceptIInv == ASSUME RuntimeIInv, NEW o \in Operations, Accept(o) PROVE RuntimeIInv'
<1>1. /\ worker[o].at = "launched" /\ mishaps' \in 0..MaxMishaps
      /\ UNCHANGED <<backend, settings, server, foreign, mishaps, abandoned>>
  BY DEF Accept, At, RuntimeIInv, RuntimeShapes
<1>2. worker[o] \in Workers /\ runtime \in Runtimes /\ abandoned' \subseteq Operations
  BY <1>1, WorkersTyped DEF RuntimeIInv, RuntimeShapes
<1>3. /\ Busy(o) /\ worker[o].at \in Spawning /\ worker[o].at \notin Retires /\ ~Terminating(o)
      /\ worker[o].at \notin {"none", "enter"}
  BY <1>1 DEF Busy, Spawning, Retires, Terminating
<1>4. /\ o \in Servers /\ metadata \notin Alives /\ o \in runtime.launching /\ o \in Handles
      /\ o # NoProcess /\ metadata \in Servers \cup {NoProcess}
  BY <1>1, <1>3, RuntimeConstants DEF RuntimeIInv, Spawned, FileLeads, OneBusy
<1>5. /\ runtime.process = NoProcess /\ runtime.status.ownership # "external"
      /\ runtime.retiring = {}
      /\ \A p \in Alives \ abandoned : p = o
  BY <1>1, <1>3, <1>4, WhileBusy
<1>6. /\ Servers' = Servers /\ Alives' = Alives /\ server' \in [Operations -> Processes]
      /\ \A q \in Operations : server'[q] = server[q]
  BY <1>1 DEF Servers, Alives, Alive, RuntimeIInv, RuntimeShapes
<1>7. \A place \in {"terminate refused", "wait", "terminate launched"} :
         \A w : w = [worker[o] EXCEPT !.mine = o, !.at = place] =>
            w \in Workers /\ w.at = place /\ w.kind = worker[o].kind /\ w.mine = o
  BY <1>2, <1>4 DEF Workers, WorkPlaces, Waits, Retires, Spawning
<1>8. CASE ~Owns(o)
  <2>1. PICK w : w = [worker[o] EXCEPT !.mine = o, !.at = "terminate refused"]
    OBVIOUS
  <2>2. w \in Workers /\ w.at = "terminate refused" /\ w.kind = worker[o].kind /\ w.mine = o
    BY <1>7, <2>1
  <2>3. worker' = [worker EXCEPT ![o] = w] /\ runtime' = runtime /\ metadata' = metadata
    BY <1>8, <2>1 DEF Accept
  <2>4. w.at \in Spawning /\ w.at \notin {"launch", "launched", "terminate launched"}
    BY <2>2 DEF Spawning
  <2>5. /\ runtime'.process = NoProcess /\ runtime'.status.ownership # "external"
        /\ \A r \in runtime'.retiring : FALSE
        /\ runtime' \in Runtimes /\ o \in runtime'.launching /\ metadata' \notin Alives'
        /\ \A p \in Alives' \ abandoned : p = w.mine
    BY <1>2, <1>4, <1>5, <1>6, <2>2, <2>3
  <2>6. QED
    BY <1>1, <1>3, <1>4, <1>6, <2>2, <2>3, <2>4, <2>5, LauncherGoesOn
<1>9. CASE Owns(o) /\ Alive(o)
  <2>1. PICK w : w = [worker[o] EXCEPT !.mine = o, !.at = "wait"]
    OBVIOUS
  <2>2. w \in Workers /\ w.at = "wait" /\ w.kind = worker[o].kind /\ w.mine = o
    BY <1>7, <2>1
  <2>3. worker' = [worker EXCEPT ![o] = w] /\ metadata' = o
    BY <1>9, <2>1 DEF Accept
  <2>4. runtime' = [runtime EXCEPT !.process = o, !.launching = runtime.launching \ {o}]
    BY <1>9 DEF Accept
  <2>5. /\ runtime' \in Runtimes /\ runtime'.process = o /\ runtime'.retiring = {}
        /\ runtime'.launching = runtime.launching \ {o} /\ runtime'.status = runtime.status
    BY <1>2, <1>4, <1>5, <2>4 DEF Runtimes
  <2>6. /\ runtime'.process # NoProcess /\ runtime'.status.ownership # "external"
        /\ runtime'.process \in Servers \cup {NoProcess} /\ metadata' \in Servers \cup {NoProcess}
        /\ \A p \in Alives' \ abandoned' : p = runtime'.process
    BY <1>1, <1>4, <1>5, <1>6, <2>3, <2>5
  <2>7. QED
    BY <1>1, <1>2, <1>3, <1>4, <1>6, <2>2, <2>3, <2>5, <2>6, BusyEnds
<1>10. CASE Owns(o) /\ ~Alive(o)
  <2>1. PICK w : w = [worker[o] EXCEPT !.mine = o, !.at = "terminate launched"]
    OBVIOUS
  <2>2. w \in Workers /\ w.at = "terminate launched" /\ w.kind = worker[o].kind /\ w.mine = o
    BY <1>7, <2>1
  <2>3. PICK r : r = [runtime EXCEPT !.process = o]
    OBVIOUS
  <2>4. /\ r \in Runtimes /\ r.process = o /\ r.launching = runtime.launching
        /\ r.retiring = {} /\ r.status = runtime.status
    BY <1>2, <1>4, <1>5, <2>3 DEF Runtimes
  <2>5. PICK d : d = Detached(r)
    OBVIOUS
  <2>6. /\ d \in Runtimes /\ d.process = NoProcess /\ d.launching = runtime.launching
        /\ \E x : x.process = o /\ d.retiring = {x}
    BY <1>4, <2>4, <2>5, TakenAway
  <2>7. /\ worker' = [worker EXCEPT ![o] = w] /\ metadata' = metadata
        /\ runtime' = Failed(d, o)
    BY <1>10, <2>1, <2>3, <2>5 DEF Accept
  <2>8. /\ runtime' \in Runtimes /\ runtime'.process = NoProcess
        /\ runtime'.launching = runtime.launching /\ runtime'.retiring = d.retiring
        /\ runtime'.status.ownership = "none"
    BY <1>10, <2>6, <2>7, FailedStatus
  <2>9. /\ w.at \in Spawning /\ w.at = "terminate launched"
        /\ w.at \notin {"launch", "launched"} /\ runtime'.status.ownership # "external"
        /\ Servers \subseteq Servers' /\ \A q \in Operations \ {o} : server'[q] = server[q]
    BY <1>6, <2>2, <2>8 DEF Spawning
  <2>10. w.mine \in Servers' /\ w.mine \notin Alives' /\ metadata' \notin Alives'
    BY <1>4, <1>6, <1>10, <2>2, <2>7 DEF Alives
  <2>11. /\ \E x \in runtime'.retiring : x.process = w.mine
         /\ \A x \in runtime'.retiring : w.at = "terminate launched" /\ x.process = w.mine
    BY <2>2, <2>6, <2>8
  <2>12. \A p \in Alives' \ abandoned : p = w.mine /\ w.at \in {"terminate refused", "terminate launched"}
    BY <1>5, <1>6, <2>2
  <2>13. o \in runtime'.launching /\ server' \in [Operations -> Processes]
    BY <1>4, <1>6, <2>6, <2>8
  <2>14. worker' = [worker EXCEPT ![o] = w] /\ metadata' = metadata
    BY <2>7
  <2>15. QED
    BY <1>1, <1>3, <2>2, <2>8, <2>9, <2>10, <2>11, <2>12, <2>13, <2>14, LauncherGoesOn
<1>11. QED
  BY <1>8, <1>9, <1>10

\* What terminating leaves of the pending work.
LEMMA CleanedUp ==
    ASSUME RuntimeIInv, NEW o \in Operations, Terminating(o)
    PROVE  /\ Busy(o) /\ worker[o].mine \in Servers /\ worker[o].mine # NoProcess
           /\ runtime.retiring \ Retirement(worker[o].mine) = {}
           /\ worker[o].at = "terminate refused" <=> Retirement(worker[o].mine) = {}
           /\ worker[o].at # "terminate refused" => worker[o].at \in Retires
<1>1. /\ Busy(o)
      /\ worker[o].at # "terminate refused" => worker[o].at \in Retires
      /\ worker[o].at = "terminate refused" => worker[o].at \notin Retires
  BY DEF Terminating, Busy, Retires, Spawning
<1>2. worker[o].mine \in Servers /\ worker[o].mine # NoProcess
  BY <1>1, RuntimeConstants DEF RuntimeIInv, Spawned, Servers
<1>3. \A r \in runtime.retiring : worker[o].at \in Retires /\ r.process = worker[o].mine
  BY <1>1, WhileBusy
<1>4. worker[o].at \in Retires => \E r \in runtime.retiring : r.process = worker[o].mine
  BY DEF RuntimeIInv, OneBusy
<1>5. QED
  BY <1>1, <1>2, <1>3, <1>4 DEF Retirement

\* What is left of the runtime by a worker that terminated, or tried to.
LEMMA RestOfWork ==
    ASSUME RuntimeIInv, NEW o \in Operations, Terminating(o), NEW rest,
           rest = [runtime EXCEPT !.retiring = @ \ Retirement(worker[o].mine), !.launching = @ \ {o}]
    PROVE  /\ rest \in Runtimes /\ rest.process = NoProcess /\ rest.retiring = {}
           /\ rest.launching = runtime.launching \ {o} /\ rest.status = runtime.status
           /\ rest.status.ownership # "external"
<1>1. runtime \in Runtimes /\ runtime.retiring \ Retirement(worker[o].mine) = {} /\ Busy(o)
  BY CleanedUp DEF RuntimeIInv, RuntimeShapes
<1>2. runtime.process = NoProcess /\ runtime.status.ownership # "external"
  BY <1>1, WhileBusy
<1>3. rest = [runtime EXCEPT !.retiring = {}, !.launching = runtime.launching \ {o}]
  BY <1>1
<1>4. QED
  BY <1>1, <1>2, <1>3 DEF Runtimes

\* What a server is gone, no handle, worker or file leads to it.
LEMMA TerminateIInv == ASSUME RuntimeIInv, NEW o \in Operations, Terminate(o) PROVE RuntimeIInv'
<1> DEFINE p == worker[o].mine
<1>1. /\ Terminating(o) /\ server' = [server EXCEPT ![p] = Dead] /\ mishaps' \in 0..MaxMishaps
      /\ UNCHANGED <<backend, settings, foreign, mishaps, abandoned>>
      /\ abandoned' \subseteq Operations
  BY DEF Terminate, RuntimeIInv, RuntimeShapes
<1>2. /\ Busy(o) /\ p \in Servers /\ p # NoProcess /\ p \in Operations
      /\ worker[o].at = "terminate refused" <=> Retirement(p) = {}
      /\ worker[o].at # "terminate refused" => worker[o].at \in Retires
  BY <1>1, CleanedUp DEF Servers
<1>3. worker[o] \in Workers
  BY WorkersTyped
<1>4. /\ runtime' \in Runtimes /\ runtime'.process = NoProcess /\ runtime'.retiring = {}
      /\ runtime'.launching = runtime.launching \ {o} /\ runtime'.status.ownership # "external"
  <2>1. runtime' = [runtime EXCEPT !.retiring = @ \ Retirement(p), !.launching = @ \ {o}]
    BY DEF Terminate
  <2>2. QED
    BY <1>1, <2>1, RestOfWork
<1>5. Dead \in Processes /\ Dead.state = "dead"
  BY DEF Dead, Processes, MaybeModel
<1>6. /\ server' \in [Operations -> Processes] /\ server'[p] = Dead
      /\ \A q \in Operations \ {p} : server'[q] = server[q]
  BY <1>1, <1>2, <1>5 DEF RuntimeIInv, RuntimeShapes
<1>7. Servers' = Servers /\ Alives' = Alives \ {p}
  BY <1>2, <1>5, <1>6 DEF Servers, Alives, Alive
<1>8. runtime.process = NoProcess
  BY <1>2, WhileBusy
<1>9. metadata' \notin Alives' /\ metadata' \in Servers \cup {NoProcess}
  <2>1. metadata' = IF Retirement(p) # {} /\ runtime.process = NoProcess
                       THEN NoProcess ELSE metadata
    BY DEF Terminate
  <2>2. NoProcess \notin Alives'
    BY DEF Alives, Alive
  <2>3. CASE worker[o].at = "terminate refused"
    <3>1. metadata' = metadata
      BY <1>2, <2>1, <2>3
    <3>2. metadata \notin Alives /\ metadata \in Servers \cup {NoProcess}
      BY <2>3 DEF RuntimeIInv, FileLeads, Spawned, Spawning
    <3>3. QED
      BY <1>7, <3>1, <3>2
  <2>4. CASE worker[o].at # "terminate refused"
    BY <1>2, <1>8, <2>1, <2>2, <2>4
  <2>5. QED
    BY <2>3, <2>4
<1>10. \A x \in Alives' \ abandoned' : FALSE
  <2>1. SUFFICES ASSUME NEW x \in Alives \ abandoned, x # p PROVE FALSE
    BY <1>1, <1>7
  <2>2. x = metadata
    <3>1. worker[o].at # "launched"
      BY <1>1 DEF Terminating
    <3>2. QED
      BY <1>2, <2>1, <3>1, WhileBusy
  <2>3. CASE worker[o].at \in Spawning
    BY <2>1, <2>2, <2>3 DEF RuntimeIInv, FileLeads
  <2>4. CASE worker[o].at \notin Spawning
    <3>1. metadata = p
      BY <1>2, <2>4 DEF RuntimeIInv, FileLeads, Spawning
    <3>2. QED
      BY <2>1, <2>2, <3>1
  <2>5. QED
    BY <2>3, <2>4
<1>11. worker[o].at \in {"terminate old", "terminate recovered"} => server[o].state = "unborn"
  BY DEF RuntimeIInv, Spawned, Early
<1>12. PICK w : w = IF worker[o].at = "terminate old" THEN [worker[o] EXCEPT !.at = "prepare"]
                    ELSE IF worker[o].at = "terminate recovered"
                    THEN [worker[o] EXCEPT !.at = "ask probe"]
                    ELSE [NoWorker EXCEPT !.kind = worker[o].kind]
  OBVIOUS
<1>13. /\ w \in Workers /\ w.kind = worker[o].kind /\ w.at \in {"none", "prepare", "ask probe"}
       /\ w.at # "none" => worker[o].at \in {"terminate old", "terminate recovered"}
  <2>1. CASE worker[o].at = "terminate old"
    BY <1>3, <1>12, <2>1 DEF Workers, WorkPlaces
  <2>2. CASE worker[o].at = "terminate recovered"
    BY <1>3, <1>12, <2>2 DEF Workers, WorkPlaces, Asks
  <2>3. CASE worker[o].at \notin {"terminate old", "terminate recovered"}
    BY <1>12, <2>3, WorkerEnded
  <2>4. QED
    BY <2>1, <2>2, <2>3
<1>14. worker' = [worker EXCEPT ![o] = w]
  <2>1. CASE At(o, "terminate old")
    <3>1. Goto(o, "prepare")
      BY <2>1 DEF Terminate, At
    <3>2. QED
      BY <1>12, <2>1, <3>1 DEF Goto, At
  <2>2. CASE At(o, "terminate recovered")
    <3>1. Goto(o, "ask probe")
      BY <2>2 DEF Terminate, At
    <3>2. QED
      BY <1>12, <2>2, <3>1 DEF Goto, At
  <2>3. CASE ~At(o, "terminate old") /\ ~At(o, "terminate recovered")
    <3>1. End(o)
      BY <2>3 DEF Terminate
    <3>2. QED
      BY <1>12, <2>3, <3>1 DEF End, At
  <2>4. QED
    BY <2>1, <2>2, <2>3
<1>15. QED
  BY <1>1, <1>2, <1>4, <1>6, <1>7, <1>9, <1>10, <1>11, <1>13, <1>14, BusyEnds

\* A server that survives the kill is retained, or lost sight of.
LEMMA TerminateFailsIInv ==
    ASSUME RuntimeIInv, NEW o \in Operations, TerminateFails(o) PROVE RuntimeIInv'
<1> DEFINE p == worker[o].mine
<1>1. /\ Terminating(o) /\ p \in Alives /\ mishaps > 0 /\ mishaps' = mishaps - 1
      /\ UNCHANGED <<backend, settings, metadata, server, foreign>> /\ End(o)
  <2>1. /\ Terminating(o) /\ Alive(p) /\ mishaps > 0 /\ mishaps' = mishaps - 1
        /\ UNCHANGED <<backend, settings, metadata, server, foreign>> /\ End(o)
    BY DEF TerminateFails
  <2>2. p \in Servers
    BY <2>1, CleanedUp
  <2>3. QED
    BY <2>1, <2>2 DEF Alives
<1>2. mishaps' \in 0..MaxMishaps
  BY <1>1, RuntimeConstants DEF RuntimeIInv, RuntimeShapes
<1>3. /\ Busy(o) /\ p \in Servers /\ p # NoProcess /\ p \in Operations /\ p \in Handles
      /\ worker[o].at = "terminate refused" <=> Retirement(p) = {}
      /\ worker[o].at # "terminate refused" => worker[o].at \in Retires
  BY <1>1, CleanedUp, RuntimeConstants DEF Servers
<1>4. PICK rest : rest = [runtime EXCEPT !.retiring = @ \ Retirement(p), !.launching = @ \ {o}]
  OBVIOUS
<1>5. /\ rest \in Runtimes /\ rest.process = NoProcess /\ rest.retiring = {}
      /\ rest.launching = runtime.launching \ {o} /\ rest.status.ownership # "external"
  BY <1>1, <1>4, RestOfWork
<1>6. PICK w : w = [NoWorker EXCEPT !.kind = worker[o].kind]
  OBVIOUS
<1>7. w \in Workers /\ w.at = "none" /\ w.kind = worker[o].kind
  BY <1>6, WorkerEnded
<1>8. worker' = [worker EXCEPT ![o] = w]
  BY <1>1, <1>6 DEF End
<1>9. /\ Servers' = Servers /\ Alives' = Alives /\ server' \in [Operations -> Processes]
      /\ metadata' \in Servers \cup {NoProcess} /\ abandoned \subseteq Operations
  BY <1>1 DEF Servers, Alives, Alive, RuntimeIInv, RuntimeShapes, Spawned
<1>10. runtime.process = NoProcess
  BY <1>3, WhileBusy
<1>11. \A x \in Alives \ abandoned : x \in {metadata, p}
  <2>1. worker[o].at # "launched"
    BY <1>1 DEF Terminating
  <2>2. QED
    BY <1>3, <2>1, WhileBusy
<1>12. CASE worker[o].at = "terminate refused"
  <2>1. runtime' = rest /\ abandoned' = abandoned \cup {p}
    BY <1>3, <1>4, <1>12 DEF TerminateFails
  <2>2. metadata \notin Alives
    BY <1>12 DEF RuntimeIInv, FileLeads, Spawning
  <2>3. /\ \A x \in Alives' \ abandoned' : x = runtime'.process
        /\ metadata' \notin Alives' /\ abandoned' \subseteq Operations
    BY <1>1, <1>3, <1>9, <1>11, <2>1, <2>2
  <2>4. QED
    BY <1>1, <1>2, <1>3, <1>5, <1>7, <1>8, <1>9, <2>1, <2>3, BusyEnds
<1>13. CASE worker[o].at # "terminate refused"
  <2>1. worker[o].at \in Retires \ {"terminate launched"}
    BY <1>1, <1>3, <1>13 DEF RuntimeIInv, FileLeads
  <2>2. metadata = p
    BY <2>1 DEF RuntimeIInv, FileLeads
  <2>3. PICK mine : mine = (\E r \in Retirement(p) : Owns(r.by))
    OBVIOUS
  <2>4. PICK s : s = IF mine THEN [rest.status EXCEPT !.ownership = "managed",
                                                    !.model = server[p].model]
                     ELSE rest.status
    OBVIOUS
  <2>5. s \in Statuses /\ s.ownership # "external"
    <3>1. rest.status \in Statuses /\ server[p].model \in MaybeModel
      BY <1>3, <1>5 DEF Runtimes, RuntimeIInv, RuntimeShapes, Processes
    <3>2. QED
      BY <1>5, <2>4, <3>1 DEF Statuses
  <2>6. runtime' = [rest EXCEPT !.process = p, !.status = s] /\ abandoned' = abandoned
    <3>1. Retirement(p) # {} /\ runtime.process = NoProcess
      BY <1>3, <1>10, <1>13
    <3>2. runtime' = [rest EXCEPT !.process = p,
                         !.status = IF mine THEN [@ EXCEPT !.ownership = "managed",
                                                          !.model = server[p].model]
                                    ELSE @]
      BY <1>4, <2>3, <3>1 DEF TerminateFails
    <3>3. abandoned' = abandoned
      BY <3>1 DEF TerminateFails
    <3>4. QED
      BY <2>4, <3>2, <3>3
  <2>7. /\ runtime' \in Runtimes /\ runtime'.process = p /\ runtime'.retiring = {}
        /\ runtime'.launching = runtime.launching \ {o} /\ runtime'.status = s
    BY <1>3, <1>5, <2>5, <2>6 DEF Runtimes
  <2>8. /\ \A x \in Alives' \ abandoned' : x = runtime'.process
        /\ metadata' = runtime'.process /\ runtime'.process # NoProcess
        /\ runtime'.process \in Servers \cup {NoProcess} /\ abandoned' \subseteq Operations
        /\ runtime'.status.ownership # "external"
    BY <1>1, <1>3, <1>9, <1>11, <2>2, <2>5, <2>6, <2>7
  <2>9. QED
    BY <1>1, <1>2, <1>3, <1>7, <1>8, <1>9, <2>7, <2>8, BusyEnds
<1>14. QED
  BY <1>12, <1>13

LEMMA NextNumber ==
    ASSUME RuntimeIInv, NEW n, n = backend.operation + 1, n \in Operations
    PROVE  /\ n > backend.operation
           /\ \A o \in Operations : o > n => o > backend.operation /\ o # n
<1>1. backend.operation \in Nat /\ \A o \in Operations : o \in Nat
  BY RuntimeConstants DEF RuntimeIInv, RuntimeShapes, Handles
<1>2. QED
  BY <1>1

\* A new operation supersedes the one before, which goes on until its next look.
LEMMA ReservedIInv ==
    ASSUME RuntimeIInv, NEW n, n = backend.operation + 1, n \in Operations,
           NEW w \in Workers, w.at \in {"none", "enter"}, worker' = [worker EXCEPT ![n] = w],
           backend'.operation = n, backend' \in [state : {"up", "stopping", "down"}, operation : Handles],
           settings' \in Models \cup {"online"},
           runtime' \in Runtimes, runtime'.process = runtime.process,
           runtime'.launching = runtime.launching, runtime'.retiring = runtime.retiring,
           runtime'.status.ownership = runtime.status.ownership,
           UNCHANGED <<metadata, server, foreign, mishaps, abandoned>>
    PROVE  RuntimeIInv'
<1>1. /\ worker' \in [Operations -> Workers] /\ worker'[n] = w
      /\ \A q \in Operations \ {n} : worker'[q] = worker[q]
  BY DEF RuntimeIInv, RuntimeShapes
<1>2. RuntimeShapes'
  BY <1>1 DEF RuntimeIInv, RuntimeShapes
<1>3. worker[n] = NoWorker /\ server[n].state = "unborn" /\ worker[n].at = "none"
  <2>1. worker[n] = NoWorker /\ server[n].state = "unborn"
    BY NextNumber DEF RuntimeIInv, Spawned
  <2>2. QED
    BY <2>1 DEF NoWorker
<1>4. \A q \in Operations : Busy(q)' <=> Busy(q)
  BY <1>1, <1>3 DEF Busy, Retires, Spawning
<1>5. Servers' = Servers /\ Alives' = Alives /\ n \notin Alives
  BY <1>3 DEF Servers, Alives, Alive
<1>6. Alives \cap StartedHere' \subseteq StartedHere
  BY <1>1, <1>5 DEF StartedHere, StartedNow
<1>7. \A q : Owns(q)' <=> q = n
  BY DEF Owns
<1>8. w.at \notin Retires \cup Spawning \cup Waits \cup
              {"terminate refused", "ask recovered", "recovered", "launched"}
  BY DEF Retires, Spawning, Waits
<1>9. Spawned'
  <2>1. \A q \in Operations : q > n => worker'[q] = NoWorker /\ server[q].state = "unborn"
    BY <1>1, NextNumber DEF RuntimeIInv, Spawned
  <2>2. \A q \in Operations : worker'[q].at \in Early => server[q].state = "unborn"
    BY <1>1, <1>3 DEF RuntimeIInv, Spawned
  <2>3. \A q \in Operations :
          worker'[q].at \in Retires \cup Waits \cup {"terminate refused", "ask recovered", "recovered"}
             => worker'[q].mine \in Servers
    BY <1>1, <1>8 DEF RuntimeIInv, Spawned
  <2>4. \A q \in Operations : worker'[q].at = "launched" => q \in Servers
    BY <1>1, <1>8 DEF RuntimeIInv, Spawned
  <2>5. {runtime'.process, metadata'} \subseteq Servers \cup {NoProcess}
    BY DEF RuntimeIInv, Spawned
  <2>6. QED
    BY <1>5, <2>1, <2>2, <2>3, <2>4, <2>5 DEF Spawned
<1>10. OneBusy'
  <2>1. \A q \in Operations : Busy(q) =>
           runtime'.process = NoProcess /\ \A x \in Operations : Busy(x) => x = q
    BY DEF RuntimeIInv, OneBusy
  <2>2. \A q \in Operations : worker'[q].at \in Spawning => q \in runtime'.launching
    BY <1>1, <1>8 DEF RuntimeIInv, OneBusy
  <2>3. \A q \in Operations : worker'[q].at \in Retires =>
           \E r \in runtime'.retiring : r.process = worker'[q].mine
    BY <1>1, <1>8 DEF RuntimeIInv, OneBusy
  <2>4. \A r \in runtime'.retiring : \E q \in Operations :
           worker'[q].at \in Retires /\ worker'[q].mine = r.process
    BY <1>1, <1>3 DEF RuntimeIInv, OneBusy, Retires
  <2>5. QED
    BY <1>1, <1>4, <1>7, <2>1, <2>2, <2>3, <2>4 DEF OneBusy
<1>11. FileLeads'
  <2>1. runtime'.process # NoProcess => metadata' = runtime'.process
    BY DEF RuntimeIInv, FileLeads
  <2>2. \A q \in Operations :
          /\ worker'[q].at \in Retires \ {"terminate launched"} => metadata' = worker'[q].mine
          /\ worker'[q].at \in Spawning => metadata' \notin Alives
          /\ worker'[q].at = "terminate launched" => worker'[q].mine \notin Alives
    BY <1>1, <1>8 DEF RuntimeIInv, FileLeads
  <2>3. worker'[n].at \notin {"recover", "prepare", "ask probe", "probe"}
    BY <1>1
  <2>4. metadata' \in Alives \cap StartedHere' /\ runtime'.process = NoProcess =>
           \E q \in Operations : Busy(q)
    BY <1>6 DEF RuntimeIInv, FileLeads
  <2>5. QED
    BY <1>4, <1>5, <1>7, <2>1, <2>2, <2>3, <2>4 DEF FileLeads
<1>12. Led'
  <2>1. \A p \in Alives \ abandoned :
          \/ p \in {runtime'.process, metadata'}
          \/ \E q \in Operations : Terminating(q)' /\ worker'[q].mine = p
          \/ worker'[p].at = "launched"
    <3>1. SUFFICES ASSUME NEW p \in Alives \ abandoned
                   PROVE  \/ p \in {runtime'.process, metadata'}
                          \/ \E q \in Operations : Terminating(q)' /\ worker'[q].mine = p
                          \/ worker'[p].at = "launched"
      OBVIOUS
    <3>2. CASE p \in {runtime.process, metadata}
      BY <3>2
    <3>3. CASE \E q \in Operations : Terminating(q) /\ worker[q].mine = p
      BY <1>1, <1>3, <3>3 DEF Terminating
    <3>4. CASE worker[p].at = "launched"
      BY <1>1, <1>3, <3>1, <3>4 DEF Alives, Servers
    <3>5. QED
      BY <3>1, <3>2, <3>3, <3>4 DEF RuntimeIInv, Led
  <2>2. runtime'.status.ownership = "external" =>
          /\ runtime'.process = NoProcess /\ \A q \in Operations : ~Busy(q)
          /\ Alives \cap StartedHere' \subseteq abandoned
    BY <1>6 DEF RuntimeIInv, Led
  <2>3. QED
    BY <1>4, <1>5, <2>1, <2>2 DEF Led
<1>13. QED
  BY <1>2, <1>9, <1>10, <1>11, <1>12 DEF RuntimeIInv

\* Nobody but the servers moves, and none comes to life.
LEMMA ServerMoves ==
    ASSUME RuntimeIInv, server' \in [Operations -> Processes], Servers' = Servers, Alives' \subseteq Alives,
           foreign' \in MaybeModel, mishaps' \in 0..MaxMishaps,
           backend' \in [state : {"up", "stopping", "down"}, operation : Handles],
           backend'.operation = backend.operation,
           UNCHANGED <<settings, runtime, worker, metadata, abandoned>>
    PROVE  RuntimeIInv'
<1>1. RuntimeShapes'
  BY DEF RuntimeIInv, RuntimeShapes
<1>2. /\ \A q \in Operations : Busy(q)' <=> Busy(q)
      /\ \A q \in Operations : Terminating(q)' <=> Terminating(q)
      /\ \A q : Owns(q)' <=> Owns(q)
      /\ StartedHere' = StartedHere
  BY DEF Busy, Owns, StartedHere, StartedNow, Terminating
<1>3. \A q \in Operations : server[q].state = "unborn" => server'[q].state = "unborn"
  <2>1. TAKE q \in Operations
  <2>2. HAVE server[q].state = "unborn"
  <2>3. q \notin Servers'
    BY <2>2 DEF Servers
  <2>4. QED
    BY <2>3 DEF Servers
<1>4. Spawned'
  BY <1>3 DEF RuntimeIInv, Spawned
<1>5. OneBusy'
  BY <1>2 DEF RuntimeIInv, OneBusy
<1>6. FileLeads'
  <2>1. metadata' = metadata /\ runtime' = runtime /\ worker' = worker
    OBVIOUS
  <2>2. metadata \in Alives' \cap StartedHere /\ runtime.process = NoProcess =>
           \E q \in Operations : Busy(q)
    BY DEF RuntimeIInv, FileLeads
  <2>3. QED
    BY <1>2, <2>1, <2>2 DEF RuntimeIInv, FileLeads
<1>7. Led'
  BY <1>2 DEF RuntimeIInv, Led
<1>8. QED
  BY <1>1, <1>4, <1>5, <1>6, <1>7 DEF RuntimeIInv

\* The backend is gone, and with it what it held.
LEMMA ExitIInv ==
    ASSUME RuntimeIInv, NEW lost, Exit(lost), lost \subseteq Operations, mishaps' \in 0..MaxMishaps,
           \A p \in Alives \ (abandoned \cup lost) : p = metadata
    PROVE  RuntimeIInv'
<1>1. /\ worker' = [o \in Operations |-> NoWorker] /\ runtime' = FreshRuntime
      /\ abandoned' = abandoned \cup lost
      /\ UNCHANGED <<settings, metadata, server, foreign>>
      /\ backend' = [backend EXCEPT !.state = "down"]
  BY DEF Exit
<1>2. /\ backend' \in [state : {"up", "stopping", "down"}, operation : Handles]
      /\ backend'.operation = backend.operation
  BY <1>1 DEF RuntimeIInv, RuntimeShapes
<1>3. NoWorker \in Workers /\ NoWorker.at = "none" /\ NoWorker.kind = "none"
  BY RuntimeConstants DEF NoWorker, Workers, WorkPlaces, MaybeModel
<1>4. /\ FreshRuntime \in Runtimes /\ FreshRuntime.process = NoProcess
      /\ FreshRuntime.retiring = {} /\ FreshRuntime.status.ownership = "none"
  <2>1. Off \in Statuses /\ Off.ownership = "none"
    BY DEF Off, Statuses, MaybeModel
  <2>2. QED
    BY <2>1, RuntimeConstants DEF FreshRuntime, Runtimes
<1>5. /\ worker' \in [Operations -> Workers]
      /\ \A q \in Operations : worker'[q] = NoWorker /\ worker'[q].at = "none" /\ worker'[q].kind = "none"
  BY <1>1, <1>3
<1>6. RuntimeShapes'
  BY <1>1, <1>2, <1>4, <1>5 DEF RuntimeIInv, RuntimeShapes
<1>7. "none" \notin Retires \cup Spawning \cup Early \cup Waits
  BY DEF Retires, Spawning, Early, Waits
<1>8. /\ Servers' = Servers /\ Alives' = Alives /\ StartedHere' = {}
      /\ \A q \in Operations : ~Busy(q)'
  BY <1>1, <1>5, <1>7 DEF Servers, Alives, Alive, StartedHere, StartedNow, Busy
<1>9. Spawned'
  <2>1. \A q \in Operations : q > backend.operation => server[q].state = "unborn"
    BY DEF RuntimeIInv, Spawned
  <2>2. metadata \in Servers \cup {NoProcess}
    BY DEF RuntimeIInv, Spawned
  <2>3. QED
    BY <1>1, <1>2, <1>4, <1>5, <1>7, <1>8, <2>1, <2>2 DEF Spawned
<1>10. OneBusy'
  BY <1>1, <1>4, <1>5, <1>7, <1>8 DEF OneBusy
<1>11. FileLeads'
  BY <1>1, <1>4, <1>5, <1>7, <1>8 DEF FileLeads
<1>12. Led'
  BY <1>1, <1>4, <1>8 DEF Led
<1>13. QED
  BY <1>6, <1>9, <1>10, <1>11, <1>12 DEF RuntimeIInv

\* What Reserve does, whatever the operation is for.
LEMMA ReserveStep ==
    ASSUME RuntimeIInv, NEW kind \in {"none", "start", "refresh", "stop"}, NEW model \in MaybeModel,
           Reserve(kind, model)
    PROVE  \E n \in Operations, w \in Workers :
              /\ n = backend.operation + 1 /\ w.at \in {"none", "enter"}
              /\ worker' = [worker EXCEPT ![n] = w] /\ backend'.operation = n
              /\ backend' \in [state : {"up", "stopping", "down"}, operation : Handles]
<1>1. PICK n : n = backend.operation + 1
  OBVIOUS
<1>2. n \in Operations /\ n \in Handles
  BY <1>1, RuntimeConstants DEF Reserve
<1>3. PICK place : place = IF kind = "none" THEN "none" ELSE "enter"
  OBVIOUS
<1>4. PICK w : w = [NoWorker EXCEPT !.at = place, !.kind = kind, !.model = model]
  OBVIOUS
<1>5. w \in Workers /\ w.at \in {"none", "enter"}
  BY <1>3, <1>4, RuntimeConstants DEF NoWorker, Workers, WorkPlaces
<1>6. worker' = [worker EXCEPT ![n] = w]
  BY <1>1, <1>3, <1>4 DEF Reserve
<1>7. backend' = [backend EXCEPT !.operation = n]
  BY <1>1 DEF Reserve
<1>8. /\ backend' \in [state : {"up", "stopping", "down"}, operation : Handles]
      /\ backend'.operation = n
  BY <1>2, <1>7 DEF RuntimeIInv, RuntimeShapes
<1>9. QED
  BY <1>1, <1>2, <1>5, <1>6, <1>8

LEMMA SelectLocalIInv == ASSUME RuntimeIInv, NEW m \in Models, SelectLocal(m) PROVE RuntimeIInv'
<1>1. Reserve("none", m) /\ settings' = m
      /\ UNCHANGED <<runtime, metadata, server, foreign, mishaps, abandoned>>
  BY DEF SelectLocal
<1>2. runtime \in Runtimes /\ settings' \in Models \cup {"online"}
  BY <1>1 DEF RuntimeIInv, RuntimeShapes
<1>3. m \in MaybeModel
  BY DEF MaybeModel
<1>4. QED
  BY <1>1, <1>2, <1>3, ReserveStep, ReservedIInv

LEMMA SelectOnlineIInv == ASSUME RuntimeIInv, SelectOnline PROVE RuntimeIInv'
<1>1. Reserve("stop", NoModel) /\ settings' = "online"
      /\ UNCHANGED <<runtime, metadata, server, foreign, mishaps, abandoned>>
  BY DEF SelectOnline
<1>2. runtime \in Runtimes /\ settings' \in Models \cup {"online"}
  BY <1>1 DEF RuntimeIInv, RuntimeShapes
<1>3. NoModel \in MaybeModel
  BY DEF MaybeModel
<1>4. QED
  BY <1>1, <1>2, <1>3, ReserveStep, ReservedIInv

LEMMA RequestIInv ==
    ASSUME RuntimeIInv, NEW kind \in {"start", "refresh", "stop"}, Request(kind) PROVE RuntimeIInv'
<1>1. UNCHANGED <<settings, metadata, server, foreign, mishaps, abandoned>>
  BY DEF Request
<1>2. PICK m : m = IF kind = "stop" THEN NoModel ELSE settings
  OBVIOUS
<1>3. Reserve(kind, m)
  BY <1>2 DEF Request
<1>4. m \in MaybeModel /\ settings \in Models \cup {"online"}
  BY <1>2 DEF Request, MaybeModel, RuntimeIInv, RuntimeShapes
<1>5. runtime \in Runtimes
  BY DEF RuntimeIInv, RuntimeShapes
<1>6. PICK s : s = [runtime.status EXCEPT !.state = "starting"]
  OBVIOUS
<1>7. s \in Statuses /\ s.ownership = runtime.status.ownership
  BY <1>5, <1>6 DEF Runtimes, Statuses
<1>8. \/ runtime' = runtime
      \/ runtime' = [runtime EXCEPT !.status = s]
  BY <1>6 DEF Request
<1>9. /\ runtime' \in Runtimes /\ runtime'.process = runtime.process
      /\ runtime'.launching = runtime.launching /\ runtime'.retiring = runtime.retiring
      /\ runtime'.status.ownership = runtime.status.ownership
  <2>1. CASE runtime' = runtime
    BY <1>5, <2>1
  <2>2. CASE runtime' = [runtime EXCEPT !.status = s]
    BY <1>5, <1>7, <2>2, StatusSet
  <2>3. QED
    BY <1>8, <2>1, <2>2
<1>10. QED
  BY <1>1, <1>3, <1>4, <1>9, ReserveStep, ReservedIInv

LEMMA ShutdownIInv == ASSUME RuntimeIInv, Shutdown PROVE RuntimeIInv'
<1>1. UNCHANGED <<settings, runtime, metadata, server, foreign, mishaps, abandoned>>
  BY DEF Shutdown
<1>2. PICK n : n = backend.operation + 1
  OBVIOUS
<1>3. PICK w : w = [NoWorker EXCEPT !.at = "enter", !.kind = "stop"]
  OBVIOUS
<1>4. /\ n \in Operations /\ n \in Handles /\ worker' = [worker EXCEPT ![n] = w]
      /\ backend' = [state |-> "stopping", operation |-> n]
  BY <1>2, <1>3, RuntimeConstants DEF Shutdown
<1>5. w \in Workers /\ w.at = "enter"
  BY <1>3, RuntimeConstants DEF NoWorker, Workers, WorkPlaces, MaybeModel
<1>6. /\ backend' \in [state : {"up", "stopping", "down"}, operation : Handles]
      /\ backend'.operation = n
  BY <1>4
<1>7. runtime \in Runtimes /\ settings \in Models \cup {"online"}
  BY DEF RuntimeIInv, RuntimeShapes
<1>8. QED
  BY <1>1, <1>2, <1>4, <1>5, <1>6, <1>7, ReservedIInv

\* A snapshot lets go of a server that exited.
LEMMA SnapshotIInv == ASSUME RuntimeIInv, Snapshot PROVE RuntimeIInv'
<1>1. /\ runtime' = Observed(runtime) /\ metadata' = ObservedFile
      /\ UNCHANGED <<backend, settings, worker, server, foreign, mishaps, abandoned>>
  BY DEF Snapshot
<1>2. /\ runtime.process # NoProcess /\ runtime.process \notin Alives
      /\ runtime'.process = NoProcess /\ metadata' = NoProcess
      /\ runtime'.status.ownership = "none" /\ runtime' \in Runtimes
      /\ runtime'.launching = runtime.launching /\ runtime'.retiring = runtime.retiring
  BY <1>1, LookAtHandle DEF Snapshot
<1>3. /\ Servers' = Servers /\ Alives' = Alives /\ StartedHere' = StartedHere
      /\ \A q \in Operations : Busy(q)' <=> Busy(q)
      /\ \A q \in Operations : Terminating(q)' <=> Terminating(q)
      /\ \A q : Owns(q)' <=> Owns(q)
  BY <1>1 DEF Servers, Alives, Alive, StartedHere, StartedNow, Busy, Terminating, Owns
<1>4. \A q \in Operations : ~Busy(q)
  BY <1>2 DEF RuntimeIInv, OneBusy
<1>5. NoProcess \notin Alives
  BY DEF Alives, Alive
<1>6. RuntimeShapes'
  BY <1>1, <1>2, RuntimeConstants DEF RuntimeIInv, RuntimeShapes
<1>7. Spawned'
  BY <1>1, <1>2, <1>3 DEF RuntimeIInv, Spawned
<1>8. OneBusy'
  BY <1>1, <1>2, <1>3, <1>4 DEF RuntimeIInv, OneBusy
<1>9. FileLeads'
  <2>1. \A q \in Operations : worker[q].at \notin Retires \cup Spawning
    BY <1>4 DEF Busy
  <2>2. QED
    BY <1>1, <1>2, <1>3, <1>5, <2>1 DEF FileLeads, Retires, Spawning
<1>10. Led'
  <2>1. \A p \in Alives \ abandoned : p \in {runtime.process, metadata}
    BY <1>4, NoneElseLeads
  <2>2. metadata = runtime.process
    BY <1>2 DEF RuntimeIInv, FileLeads
  <2>3. QED
    BY <1>1, <1>2, <1>3, <2>1, <2>2 DEF Led
<1>11. QED
  BY <1>6, <1>7, <1>8, <1>9, <1>10 DEF RuntimeIInv

\* Every worker was joined: only the file leads to a server that still runs.
LEMMA ShutdownEndsIInv == ASSUME RuntimeIInv, ShutdownEnds PROVE RuntimeIInv'
<1>1. Exit({}) /\ mishaps' = mishaps /\ \A o \in Operations : worker[o].at = "none"
  BY DEF ShutdownEnds
<1>2. \A q \in Operations : ~Busy(q)
  BY <1>1 DEF Busy, Retires, Spawning
<1>3. \A p \in Alives \ (abandoned \cup {}) : p = metadata
  <2>1. \A p \in Alives \ abandoned : p \in {runtime.process, metadata} /\ p # NoProcess
    BY <1>2, NoneElseLeads DEF Alives, Alive
  <2>2. runtime.process # NoProcess => metadata = runtime.process
    BY DEF RuntimeIInv, FileLeads
  <2>3. QED
    BY <2>1, <2>2
<1>4. mishaps' \in 0..MaxMishaps
  BY <1>1 DEF RuntimeIInv, RuntimeShapes
<1>5. QED
  BY <1>1, <1>3, <1>4, ExitIInv

LEMMA BackendCrashIInv == ASSUME RuntimeIInv, BackendCrash PROVE RuntimeIInv'
<1>1. PICK lost : lost = {p \in Servers : Alive(p) /\ p # metadata}
  OBVIOUS
<1>2. Exit(lost) /\ mishaps > 0 /\ mishaps' = mishaps - 1
  BY <1>1 DEF BackendCrash
<1>3. lost \subseteq Operations /\ \A p \in Alives \ (abandoned \cup lost) : p = metadata
  BY <1>1 DEF Alives, Servers
<1>4. mishaps' \in 0..MaxMishaps
  BY <1>2, RuntimeConstants DEF RuntimeIInv, RuntimeShapes
<1>5. QED
  BY <1>2, <1>3, <1>4, ExitIInv

LEMMA BootIInv == ASSUME RuntimeIInv, Boot PROVE RuntimeIInv'
<1>1. /\ backend' = [backend EXCEPT !.state = "up"]
      /\ UNCHANGED <<settings, runtime, worker, metadata, server, foreign, mishaps, abandoned>>
  BY DEF Boot
<1>2. /\ backend' \in [state : {"up", "stopping", "down"}, operation : Handles]
      /\ backend'.operation = backend.operation /\ server' \in [Operations -> Processes]
      /\ foreign' \in MaybeModel /\ mishaps' \in 0..MaxMishaps
  BY <1>1 DEF RuntimeIInv, RuntimeShapes
<1>3. Servers' = Servers /\ Alives' = Alives
  BY <1>1 DEF Servers, Alives, Alive
<1>4. QED
  BY <1>1, <1>2, <1>3, ServerMoves

\* A server answers, or exits.
LEMMA ServerStateMoves ==
    ASSUME RuntimeIInv, NEW p \in Operations, p \in Alives, NEW s \in Processes, s.state # "unborn",
           server' = [server EXCEPT ![p] = s]
    PROVE  server' \in [Operations -> Processes] /\ Servers' = Servers /\ Alives' \subseteq Alives
<1>1. /\ server' \in [Operations -> Processes] /\ server'[p] = s
      /\ \A q \in Operations \ {p} : server'[q] = server[q]
  BY DEF RuntimeIInv, RuntimeShapes
<1>2. QED
  BY <1>1 DEF Servers, Alives, Alive

LEMMA DeadTyped == Dead \in Processes /\ Dead.state = "dead"
  BY DEF Dead, Processes, MaybeModel

LEMMA BindIInv == ASSUME RuntimeIInv, NEW p \in Operations, Bind(p) PROVE RuntimeIInv'
<1>1. /\ p \in Servers /\ server[p].state = "loading"
      /\ UNCHANGED <<backend, settings, runtime, worker, metadata, foreign, mishaps, abandoned>>
  BY DEF Bind
<1>2. p \in Alives
  BY <1>1, RuntimeConstants DEF Alives, Alive
<1>3. PICK s : s = [server[p] EXCEPT !.state = "answering"]
  OBVIOUS
<1>4. s \in Processes /\ s.state = "answering"
  BY <1>3 DEF RuntimeIInv, RuntimeShapes, Processes
<1>5. server' = [server EXCEPT ![p] = s] \/ server' = [server EXCEPT ![p] = Dead]
  BY <1>3 DEF Bind
<1>6. server' \in [Operations -> Processes] /\ Servers' = Servers /\ Alives' \subseteq Alives
  BY <1>2, <1>4, <1>5, DeadTyped, ServerStateMoves
<1>7. /\ backend \in [state : {"up", "stopping", "down"}, operation : Handles]
      /\ foreign \in MaybeModel /\ mishaps \in 0..MaxMishaps
  BY DEF RuntimeIInv, RuntimeShapes
<1>8. QED
  BY <1>1, <1>6, <1>7, ServerMoves

LEMMA ServerExitsIInv == ASSUME RuntimeIInv, NEW p \in Operations, ServerExits(p) PROVE RuntimeIInv'
<1>1. /\ p \in Servers /\ Alive(p) /\ mishaps > 0 /\ mishaps' = mishaps - 1
      /\ server' = [server EXCEPT ![p] = Dead]
      /\ UNCHANGED <<backend, settings, runtime, worker, metadata, foreign, abandoned>>
  BY DEF ServerExits
<1>2. p \in Alives
  BY <1>1 DEF Alives
<1>3. mishaps' \in 0..MaxMishaps
  BY <1>1, RuntimeConstants DEF RuntimeIInv, RuntimeShapes
<1>4. server' \in [Operations -> Processes] /\ Servers' = Servers /\ Alives' \subseteq Alives
  BY <1>1, <1>2, DeadTyped, ServerStateMoves
<1>5. /\ backend \in [state : {"up", "stopping", "down"}, operation : Handles]
      /\ foreign \in MaybeModel
  BY DEF RuntimeIInv, RuntimeShapes
<1>6. QED
  BY <1>1, <1>3, <1>4, <1>5, ServerMoves

LEMMA ForeignStartsIInv == ASSUME RuntimeIInv, NEW m \in Models, ForeignStarts(m) PROVE RuntimeIInv'
<1>1. /\ mishaps > 0 /\ mishaps' = mishaps - 1 /\ foreign' = m
      /\ UNCHANGED <<backend, settings, runtime, worker, metadata, server, abandoned>>
  BY DEF ForeignStarts
<1>2. mishaps' \in 0..MaxMishaps /\ foreign' \in MaybeModel
  BY <1>1, RuntimeConstants DEF RuntimeIInv, RuntimeShapes, MaybeModel
<1>3. /\ backend \in [state : {"up", "stopping", "down"}, operation : Handles]
      /\ server \in [Operations -> Processes]
  BY DEF RuntimeIInv, RuntimeShapes
<1>4. Servers' = Servers /\ Alives' = Alives
  BY <1>1 DEF Servers, Alives, Alive
<1>5. QED
  BY <1>1, <1>2, <1>3, <1>4, ServerMoves

LEMMA RuntimeInitIInv == ASSUME RuntimeInit PROVE RuntimeIInv
<1>1. NoWorker \in Workers /\ NoWorker.at = "none"
  BY RuntimeConstants DEF NoWorker, Workers, WorkPlaces, MaybeModel
<1>2. /\ FreshRuntime \in Runtimes /\ FreshRuntime.process = NoProcess
      /\ FreshRuntime.retiring = {} /\ FreshRuntime.status.ownership = "none"
  <2>1. Off \in Statuses /\ Off.ownership = "none"
    BY DEF Off, Statuses, MaybeModel
  <2>2. QED
    BY <2>1, RuntimeConstants DEF FreshRuntime, Runtimes
<1>3. PICK u : u = [state |-> "unborn", model |-> NoModel]
  OBVIOUS
<1>4. u \in Processes /\ u.state = "unborn"
  BY <1>3 DEF Processes, MaybeModel
<1>5. server \in [Operations -> Processes] /\ \A p \in Operations : server[p].state = "unborn"
  BY <1>3, <1>4 DEF RuntimeInit
<1>6. worker \in [Operations -> Workers] /\ \A o \in Operations : worker[o] = NoWorker /\ worker[o].at = "none"
  BY <1>1 DEF RuntimeInit
<1>7. RuntimeShapes
  <2>1. backend \in [state : {"up", "stopping", "down"}, operation : Handles]
    BY RuntimeConstants DEF RuntimeInit, Handles
  <2>2. metadata \in Handles /\ mishaps \in 0..MaxMishaps /\ abandoned \subseteq Operations
    BY RuntimeConstants DEF RuntimeInit, Handles
  <2>3. settings \in Models \cup {"online"} /\ foreign \in MaybeModel /\ runtime \in Runtimes
    BY <1>2 DEF RuntimeInit, MaybeModel
  <2>4. QED
    BY <1>5, <1>6, <2>1, <2>2, <2>3 DEF RuntimeShapes
<1>8. "none" \notin Retires \cup Spawning \cup Early \cup Waits
  BY DEF Retires, Spawning, Early, Waits
<1>9. Servers = {} /\ Alives = {} /\ \A o \in Operations : ~Busy(o)
  BY <1>5, <1>6, <1>8 DEF Servers, Alives, Busy
<1>10. runtime = FreshRuntime /\ metadata = NoProcess
  BY DEF RuntimeInit
<1>11. Spawned
  BY <1>2, <1>5, <1>6, <1>8, <1>10 DEF Spawned
<1>12. OneBusy
  BY <1>2, <1>6, <1>8, <1>9, <1>10 DEF OneBusy
<1>13. FileLeads
  BY <1>2, <1>6, <1>8, <1>9, <1>10 DEF FileLeads
<1>14. Led
  BY <1>2, <1>9, <1>10 DEF Led
<1>15. QED
  BY <1>7, <1>11, <1>12, <1>13, <1>14 DEF RuntimeIInv

LEMMA RuntimeStutters == ASSUME RuntimeIInv, UNCHANGED runtimeVars PROVE RuntimeIInv'
<1>1. /\ Servers' = Servers /\ Alives' = Alives
      /\ UNCHANGED <<backend, settings, runtime, worker, metadata, server, foreign, mishaps, abandoned>>
  BY DEF runtimeVars, Servers, Alives, Alive
<1>2. /\ backend \in [state : {"up", "stopping", "down"}, operation : Handles]
      /\ server \in [Operations -> Processes] /\ foreign \in MaybeModel /\ mishaps \in 0..MaxMishaps
  BY DEF RuntimeIInv, RuntimeShapes
<1>3. QED
  BY <1>1, <1>2, ServerMoves

\* Every step keeps the invariant.
LEMMA RuntimeNextIInv == ASSUME RuntimeIInv, [RuntimeNext]_runtimeVars PROVE RuntimeIInv'
<1>1. ASSUME NEW m \in Models, SelectLocal(m) \/ ForeignStarts(m) PROVE RuntimeIInv'
  BY <1>1, SelectLocalIInv, ForeignStartsIInv
<1>2. ASSUME \/ SelectOnline \/ Snapshot \/ Shutdown \/ ShutdownEnds \/ BackendCrash \/ Boot
      PROVE RuntimeIInv'
  BY <1>2, SelectOnlineIInv, SnapshotIInv, ShutdownIInv, ShutdownEndsIInv, BackendCrashIInv, BootIInv
<1>3. ASSUME NEW kind \in {"start", "refresh", "stop"}, Request(kind) PROVE RuntimeIInv'
  BY <1>3, RequestIInv
<1>4. ASSUME NEW o \in Operations,
             \/ Overtaken(o) \/ EnterStop(o) \/ EnterStart(o) \/ Recover(o)
             \/ Probe(o) \/ ProbeFails(o) \/ Recovered(o) \/ Decide(o) \/ Refresh(o)
      PROVE RuntimeIInv'
  BY <1>4, OvertakenIInv, EnterStopIInv, EnterStartIInv, RecoverIInv, ProbeIInv, ProbeFailsIInv,
     RecoveredIInv, DecideIInv, RefreshIInv
<1>5. ASSUME NEW o \in Operations,
             \/ Prepare(o) \/ Launch(o) \/ LaunchFails(o) \/ Accept(o)
             \/ AwaitReady(o) \/ ConfirmReady(o) \/ ReadyTimeout(o)
             \/ Terminate(o) \/ TerminateFails(o)
      PROVE RuntimeIInv'
  BY <1>5, PrepareIInv, LaunchIInv, LaunchFailsIInv, AcceptIInv, AwaitReadyIInv, ConfirmReadyIInv,
     ReadyTimeoutIInv, TerminateIInv, TerminateFailsIInv
<1>6. ASSUME NEW p \in Operations, Bind(p) \/ ServerExits(p) PROVE RuntimeIInv'
  BY <1>6, BindIInv, ServerExitsIInv
<1>7. CASE UNCHANGED runtimeVars
  BY <1>7, RuntimeStutters
<1>8. QED
  BY <1>1, <1>2, <1>3, <1>4, <1>5, <1>6, <1>7 DEF RuntimeNext

\* The life of the local server keeps one worker at a time at the process, the file naming
\* the server that is held or terminated, and every server led to, through supersessions,
\* failures and crashes of the backend.
THEOREM RuntimeInductive == RuntimeSpec => []RuntimeIInv
<1>1. RuntimeInit => RuntimeIInv
  BY RuntimeInitIInv
<1>2. RuntimeIInv /\ [RuntimeNext]_runtimeVars => RuntimeIInv'
  BY RuntimeNextIInv
<1>3. QED
  BY <1>1, <1>2, PTL DEF RuntimeSpec

\* What leads to a server the invariant says; the property only asks that something does.
LEMMA RuntimeImpliesKnown == RuntimeIInv => ServersKnown
<1>1. SUFFICES ASSUME RuntimeIInv PROVE ServersKnown
  OBVIOUS
<1>2. \A p \in Servers : Alive(p) /\ p \notin abandoned =>
        \/ p \in {runtime.process, metadata}
        \/ \E o \in Operations : Terminating(o) /\ worker[o].mine = p
        \/ At(p, "launched")
  BY <1>1 DEF RuntimeIInv, Led, Alives, At
<1>3. runtime.status.ownership = "external" =>
        \A p \in Servers : Alive(p) /\ StartedNow(p) => p \in abandoned
  BY <1>1 DEF RuntimeIInv, Led, Alives, StartedHere, Servers
<1>4. QED
  BY <1>2, <1>3 DEF ServersKnown

\* A server this application started never runs unattended, and none of its own is taken
\* for somebody else's (local_model_runtime.py).
THEOREM ServersStayKnown == RuntimeSpec => []ServersKnown
<1>1. RuntimeIInv => ServersKnown
  BY RuntimeImpliesKnown
<1>2. QED
  BY <1>1, RuntimeInductive, PTL

LEMMA RuntimeImpliesType == RuntimeIInv => RuntimeTypeOK
<1>1. SUFFICES ASSUME RuntimeIInv PROVE RuntimeTypeOK
  OBVIOUS
<1>2. runtime.process \in Handles /\ runtime.launching \subseteq Operations
  BY <1>1 DEF RuntimeIInv, RuntimeShapes, Runtimes
<1>3. \A p \in Operations : server[p].model \in Models \cup {NoModel}
  BY <1>1 DEF RuntimeIInv, RuntimeShapes, Processes, MaybeModel
<1>4. QED
  BY <1>1, <1>2, <1>3 DEF RuntimeTypeOK, RuntimeIInv, RuntimeShapes, Handles

\* The runtime keeps its types.
THEOREM RuntimeKeepsType == RuntimeSpec => []RuntimeTypeOK
<1>1. RuntimeIInv => RuntimeTypeOK
  BY RuntimeImpliesType
<1>2. QED
  BY <1>1, RuntimeInductive, PTL

-----------------------------------------------------------------------------
(* Canonical observation.  What holds of the store holds of the working    *)
(* copy a page's transaction is in.                                        *)

Evidence  == [kind : {"durable", "continuity", "action"}, of : Nat, at : Nat, state : BOOLEAN]
SlotRows  == [scope : Scopes, from : 0..MaxTime, until : 0..Forever]
Stores    == [events : SUBSET Evidence, fact : {"A", "B", NoValue}, watermark : Nat,
              rows : SUBSET SlotRows, scope : Scopes, next : [Consumers -> Nat],
              history : SUBSET Nat, disposed : SUBSET [of : Nat, by : Evidence]]
Results   == {"none", "complete", "pending", "failed", "unresolved"}
Pages     == [todo : Seq(Consumers), work : Stores, done : Nat,
              outcomes : [Consumers -> Results], then : {"idle", "input"}]
Turns     == [message : UserRecord \cup {NoMessage}, saved : BOOLEAN, acted : BOOLEAN,
              early : BOOLEAN]
Users     == {i \in 1..Len(archive) : archive[i].role = "user"}

\* As long as the clock never went back, messages are in the order of their times.
ArchiveOrdered ==
    /\ archive \in Seq(UserRecord \cup {Reply})
    /\ clock \in 0..MaxTime /\ skewed \in BOOLEAN /\ faults \in 0..MaxFaults
    /\ ~skewed => \A j \in Users : /\ archive[j].at <= clock
                                   /\ \A i \in Users : i < j => archive[i].at < archive[j].at

\* The message being answered: what is known of it before it is saved, and after.
TurnKnown ==
    /\ turn \in Turns
    /\ phase \in {"down", "idle", "input", "thinking", "saved", "reply", "ended", "page"}
    /\ phase \in {"thinking", "saved", "reply"} => turn.message \in UserRecord
    /\ phase \in {"thinking", "saved"} => turn.message.scope = db.scope
    /\ phase = "thinking" => ~turn.saved
    /\ phase = "thinking" \/ (phase = "reply" /\ ~turn.saved) =>
          skewed \/ /\ turn.message.at = clock
                    /\ \A i \in Users : archive[i].at < clock
    /\ phase = "saved" => turn.saved /\ Len(archive) > 0 /\ archive[Len(archive)] = turn.message

\* The records a durable value comes from.
Spoken(n)  == {i \in 1..n : archive[i].role = "user" /\ archive[i].scope = "real"}
Asserts(n) == {i \in Spoken(n) : Asserted(archive[i].says) # NoValue}

FactIs(fact, n) ==
    \/ Asserts(n) = {} /\ fact = NoValue
    \/ \E last \in Asserts(n) :
          /\ \A i \in Asserts(n) : i <= last
          /\ LET value == Asserted(archive[last].says)
             IN  fact = IF \E i \in Spoken(n) : i > last /\ Retired(archive[i].says) = value
                        THEN NoValue ELSE value

\* A cursor is within the archive, and history has what is behind its own.
Covered(d) ==
    /\ d \in Stores
    /\ \A c \in Consumers : d.next[c] <= Len(archive)
    /\ d.history \subseteq 1..Len(archive) /\ 1..d.next["history"] \subseteq d.history

\* The durable value comes from answered records in their order: no later one is
\* older than the watermark.
FactKnown(d) ==
    /\ d.next["durable"] \in Users /\ d.next["durable"] = Len(archive) =>
          archive[d.next["durable"]].scope # "real"
    /\ ~skewed => /\ d.watermark <= clock
                  /\ \A i \in Users : i > d.next["durable"] => d.watermark <= archive[i].at
                  /\ FactIs(d.fact, d.next["durable"])

\* Continuity evidence is of a message, at its time.
Grounded(d) ==
    \A e \in d.events : e.kind = "continuity" => e.of \in Users /\ e.at = archive[e.of].at

Disposed(d) ==
    \A i \in 1..d.next["continuity"] : StateBearing(archive[i]) =>
        \/ \E e \in d.events : e.kind = "continuity" /\ e.of = i
        \/ \E w \in d.disposed : w.of = i /\ w.by \in d.events /\ w.by.at > archive[i].at

\* The open value of a slot is of the newest evidence applied to it.
Applied(d, s) == {e \in d.events : /\ e.kind = "continuity" /\ archive[e.of].says = "activity"
                                   /\ archive[e.of].scope = s}
OpenSince(d, s) == {r.from : r \in {x \in d.rows : x.scope = s /\ x.until = Forever}}
NewestOpen(A, F) ==
    \/ A = {} /\ F = {}
    \/ \E e \in A : F = {e.at} /\ \A f \in A : f.at <= e.at
SlotKnown(d) == ~skewed => \A s \in Scopes : NewestOpen(Applied(d, s), OpenSince(d, s))

StoreKnown(d) == Covered(d) /\ FactKnown(d) /\ Grounded(d) /\ Disposed(d) /\ SlotKnown(d)

\* A turn begins only when there is time for its message.
InTime == phase = "input" \/ (phase = "page" /\ page.then = "input") => clock + 4 <= MaxTime

ObservationIInv ==
    /\ ArchiveOrdered /\ TurnKnown /\ InTime /\ StoreKnown(db)
    /\ phase = "page" => page \in Pages /\ StoreKnown(page.work)

\* Times and the clock.
LEMMA ObservationTimes ==
    /\ MaxTime \in Nat /\ Forever \in Nat /\ MaxTime < Forever /\ MaxFaults \in Nat
    /\ 0..MaxTime \subseteq Nat /\ 0..Forever \subseteq Nat
<1>1. MaxTime \in Nat /\ MaxFaults \in Nat
  BY ObservationAssumption DEF ObservationAssumption
<1> QED
  BY <1>1 DEF Forever

\* A message of the user and a reply are told apart.
LEMMA UserMessages ==
    ASSUME ArchiveOrdered, NEW i \in 1..Len(archive)
    PROVE  /\ archive[i] \in UserRecord \cup {Reply}
           /\ i \in Users => archive[i] \in UserRecord
           /\ i \notin Users => archive[i] = Reply
<1>1. archive[i] \in UserRecord \cup {Reply}
  BY DEF ArchiveOrdered
<1>2. Reply.role = "assistant" /\ \A m \in UserRecord : m.role = "user"
  BY DEF Reply, UserRecord
<1> QED
  BY <1>1, <1>2 DEF Users

\* What a step does not touch stays known.
LEMMA KnownStays ==
    ASSUME NEW d, StoreKnown(d), UNCHANGED <<archive, clock, skewed>>
    PROVE  StoreKnown(d)'
<1>1. Covered(d)' /\ Grounded(d)' /\ Disposed(d)'
  BY DEF StoreKnown, Covered, Grounded, Disposed, Users
<1>2. FactKnown(d)'
  BY DEF StoreKnown, FactKnown, FactIs, Asserts, Spoken, Users
<1>3. SlotKnown(d)'
  BY DEF StoreKnown, SlotKnown, Applied
<1> QED
  BY <1>1, <1>2, <1>3 DEF StoreKnown

\* The clock moves on, or was set back.
LEMMA KnownAsTimePasses ==
    ASSUME ArchiveOrdered, NEW d, StoreKnown(d), UNCHANGED archive, clock' \in Nat,
           skewed' \/ (skewed' = skewed /\ clock <= clock')
    PROVE  StoreKnown(d)'
<1>1. Covered(d)' /\ Grounded(d)' /\ Disposed(d)'
  BY DEF StoreKnown, Covered, Grounded, Disposed, Users
<1>2. FactKnown(d)'
  <2>1. d.watermark \in Nat /\ clock \in Nat
    BY DEF StoreKnown, Covered, Stores, ArchiveOrdered
  <2> QED
    BY <2>1 DEF StoreKnown, FactKnown, FactIs, Asserts, Spoken, Users
<1>3. SlotKnown(d)'
  BY DEF StoreKnown, SlotKnown, Applied
<1> QED
  BY <1>1, <1>2, <1>3 DEF StoreKnown

\* Records are saved behind those there are, at the time of the clock.
LEMMA KnownAsArchiveGrows ==
    ASSUME ArchiveOrdered, NEW d, StoreKnown(d), UNCHANGED <<clock, skewed>>,
           Len(archive') \in Nat, Len(archive) < Len(archive'),
           \A i \in 1..Len(archive) : archive'[i] = archive[i],
           \A i \in Users' : i > Len(archive) /\ ~skewed => archive'[i].at = clock
    PROVE  StoreKnown(d)'
<1>1. /\ Len(archive) \in Nat /\ d \in Stores /\ d.watermark \in Nat
      /\ \A c \in Consumers : d.next[c] \in Nat /\ d.next[c] <= Len(archive)
  BY DEF StoreKnown, Covered, Stores, ArchiveOrdered
<1>2. /\ \A i \in 1..Len(archive) : i \in 1..Len(archive') /\ (i \in Users' <=> i \in Users)
      /\ \A i \in Users' : i \in Users \/ i > Len(archive)
      /\ "durable" \in Consumers /\ "continuity" \in Consumers
  BY <1>1 DEF Users, Consumers
<1>3. Covered(d)'
  BY <1>1, <1>2 DEF StoreKnown, Covered
<1>4. Grounded(d)'
  BY <1>2 DEF StoreKnown, Grounded, Users
<1>5. Disposed(d)'
  <2>1. \A i \in 1..d.next["continuity"] : i \in 1..Len(archive)
    BY <1>1, <1>2
  <2> QED
    BY <2>1 DEF StoreKnown, Disposed
<1>6. FactKnown(d)'
  <2> PICK n : n = d.next["durable"]
    OBVIOUS
  <2>1. n \in Nat /\ n <= Len(archive) /\ n # Len(archive')
    BY <1>1, <1>2
  <2>2. Spoken(n)' = Spoken(n) /\ Asserts(n)' = Asserts(n)
        /\ \A i \in 1..n : archive'[i] = archive[i]
    BY <1>1, <2>1 DEF Spoken, Asserts
  <2>3. ~skewed => FactIs(d.fact, n)'
    <3>1. ~skewed => FactIs(d.fact, n)
      BY DEF StoreKnown, FactKnown
    <3>2. Spoken(n) \subseteq 1..n /\ Asserts(n) \subseteq 1..n
      BY DEF Spoken, Asserts
    <3> QED
      BY <2>2, <3>1, <3>2 DEF FactIs
  <2>4. ~skewed => /\ d.watermark <= clock
                   /\ \A i \in Users' : i > n => d.watermark <= archive'[i].at
    BY <1>1, <1>2 DEF StoreKnown, FactKnown, Users
  <2> QED
    BY <2>1, <2>3, <2>4 DEF FactKnown
<1>7. SlotKnown(d)'
  <2>1. ASSUME NEW s \in Scopes PROVE Applied(d, s)' = Applied(d, s)
    BY <1>2 DEF Applied, StoreKnown, Grounded, Users
  <2> QED
    BY <2>1 DEF StoreKnown, SlotKnown
<1> QED
  BY <1>3, <1>4, <1>5, <1>6, <1>7 DEF StoreKnown

-----------------------------------------------------------------------------
(* A record is observed.                                                   *)

\* The cursor passes a record that changes no durable value.
LEMMA FactPasses ==
    ASSUME ArchiveOrdered, NEW fact, NEW n \in Nat, n + 1 \in 1..Len(archive), FactIs(fact, n),
           \/ n + 1 \notin Users
           \/ archive[n + 1].scope # "real"
           \/ /\ Asserted(archive[n + 1].says) = NoValue
              /\ Retired(archive[n + 1].says) = NoValue \/ Retired(archive[n + 1].says) # fact
    PROVE  FactIs(fact, n + 1)
<1>1. 1..(n + 1) = 1..n \cup {n + 1}
  OBVIOUS
<1>2. n + 1 \in Users <=> archive[n + 1].role = "user"
  BY DEF Users
<1>3. Asserts(n + 1) = Asserts(n)
  BY <1>1, <1>2 DEF Asserts, Spoken
<1>4. CASE Asserts(n) = {}
  BY <1>3, <1>4 DEF FactIs
<1>5. CASE Asserts(n) # {}
  <2>1. PICK last \in Asserts(n) :
            /\ \A i \in Asserts(n) : i <= last
            /\ fact = IF \E i \in Spoken(n) : i > last /\ Retired(archive[i].says)
                                                             = Asserted(archive[last].says)
                      THEN NoValue ELSE Asserted(archive[last].says)
    BY <1>5 DEF FactIs
  <2>2. last \in 1..n /\ Asserted(archive[last].says) # NoValue
    BY DEF Asserts, Spoken
  <2>3. Spoken(n) \subseteq Spoken(n + 1) /\ Spoken(n + 1) \subseteq Spoken(n) \cup {n + 1}
    BY <1>1 DEF Spoken
  <2> DEFINE gone(m) == \E i \in Spoken(m) : i > last /\ Retired(archive[i].says)
                                                             = Asserted(archive[last].says)
  <2>4. fact = IF gone(n + 1) THEN NoValue ELSE Asserted(archive[last].says)
    <3>1. CASE gone(n)
      BY <2>1, <2>3, <3>1
    <3>2. CASE ~gone(n)
      <4>1. fact = Asserted(archive[last].says)
        BY <2>1, <3>2
      <4>2. ~gone(n + 1)
        <5>1. ASSUME NEW i \in Spoken(n + 1), i > last,
                     Retired(archive[i].says) = Asserted(archive[last].says)
              PROVE  FALSE
          <6>1. i = n + 1
            BY <2>3, <3>2, <5>1
          <6>2. n + 1 \in Users /\ archive[n + 1].scope = "real"
            BY <1>2, <5>1, <6>1 DEF Spoken
          <6> QED
            BY <2>2, <4>1, <5>1, <6>1, <6>2
        <5> QED
          BY <5>1
      <4> QED
        BY <4>1, <4>2
    <3> QED
      BY <3>1, <3>2
  <2>5. \A i \in Asserts(n + 1) : i <= last
    BY <1>3, <2>1
  <2> QED
    BY <1>3, <2>1, <2>4, <2>5 DEF FactIs
<1> QED
  BY <1>4, <1>5

\* A record asserts the value.
LEMMA FactAsserted ==
    ASSUME ArchiveOrdered, NEW n \in Nat, n + 1 \in Users, archive[n + 1].scope = "real",
           Asserted(archive[n + 1].says) # NoValue
    PROVE  FactIs(Asserted(archive[n + 1].says), n + 1)
<1>1. n + 1 \in Asserts(n + 1)
  BY DEF Asserts, Spoken, Users
<1>2. \A i \in Spoken(n + 1) : i <= n + 1
  BY DEF Spoken
<1>3. \A i \in Asserts(n + 1) : i <= n + 1
  BY <1>2 DEF Asserts
<1>4. ~ \E i \in Spoken(n + 1) : i > n + 1 /\ Retired(archive[i].says)
                                                   = Asserted(archive[n + 1].says)
  BY <1>2 DEF Spoken
<1> QED
  BY <1>1, <1>3, <1>4 DEF FactIs

\* A record retires the value there is.
LEMMA FactRetired ==
    ASSUME ArchiveOrdered, NEW fact, NEW n \in Nat, n + 1 \in Users, FactIs(fact, n),
           archive[n + 1].scope = "real", Asserted(archive[n + 1].says) = NoValue,
           Retired(archive[n + 1].says) = fact, fact # NoValue
    PROVE  FactIs(NoValue, n + 1)
<1>1. 1..(n + 1) = 1..n \cup {n + 1}
  OBVIOUS
<1>2. Asserts(n + 1) = Asserts(n)
  BY <1>1 DEF Asserts, Spoken
<1>3. PICK last \in Asserts(n) :
          /\ \A i \in Asserts(n) : i <= last
          /\ fact = IF \E i \in Spoken(n) : i > last /\ Retired(archive[i].says)
                                                           = Asserted(archive[last].says)
                    THEN NoValue ELSE Asserted(archive[last].says)
  BY DEF FactIs
<1>4. fact = Asserted(archive[last].says)
  BY <1>3
<1>5. n + 1 \in Spoken(n + 1) /\ n + 1 > last
  BY DEF Spoken, Asserts, Users
<1>6. \E i \in Spoken(n + 1) : i > last /\ Retired(archive[i].says) = Asserted(archive[last].says)
  BY <1>4, <1>5
<1>7. last \in Asserts(n + 1) /\ \A i \in Asserts(n + 1) : i <= last
  BY <1>2, <1>3
<1> QED
  BY <1>6, <1>7 DEF FactIs

\* Evidence of another kind, beside what there is.
LEMMA EvidenceBeside ==
    ASSUME ArchiveOrdered, NEW d, StoreKnown(d), NEW e, e.rows = d.rows, e.disposed = d.disposed,
           e.next["continuity"] = d.next["continuity"], d.events \subseteq e.events,
           \A x \in e.events : x.kind = "continuity" => x \in d.events
    PROVE  Grounded(e) /\ Disposed(e) /\ SlotKnown(e)
<1>1. Grounded(e)
  BY DEF StoreKnown, Grounded
<1>2. Disposed(e)
  BY DEF StoreKnown, Disposed
<1>3. SlotKnown(e)
  <2>1. \A s \in Scopes : Applied(e, s) = Applied(d, s) /\ OpenSince(e, s) = OpenSince(d, s)
    BY DEF Applied, OpenSince
  <2> QED
    BY <2>1 DEF StoreKnown, SlotKnown
<1> QED
  BY <1>1, <1>2, <1>3

\* What the durable value depends on stays.
LEMMA FactStays ==
    ASSUME NEW d, StoreKnown(d), NEW e, e.fact = d.fact, e.watermark = d.watermark,
           e.next["durable"] = d.next["durable"]
    PROVE  FactKnown(e)
  BY DEF StoreKnown, FactKnown

\* A cursor moves by one.
Advanced(o, c, i) == [o EXCEPT !.next[c] = i]

LEMMA CursorMoves ==
    ASSUME ArchiveOrdered, NEW d, StoreKnown(d), NEW c \in Consumers, NEW i,
           i = d.next[c] + 1, i <= Len(archive), NEW o \in Stores, o.next = d.next,
           NEW e, e = Advanced(o, c, i)
    PROVE  /\ e \in Stores /\ e.events = o.events /\ e.fact = o.fact
           /\ e.watermark = o.watermark /\ e.rows = o.rows /\ e.scope = o.scope
           /\ e.history = o.history /\ e.disposed = o.disposed
           /\ e.next[c] = i /\ \A b \in Consumers \ {c} : e.next[b] = d.next[b]
           /\ \A b \in Consumers : e.next[b] <= Len(archive)
           /\ i \in 1..Len(archive) /\ d.next[c] \in Nat
<1>1. /\ d.next \in [Consumers -> Nat] /\ \A b \in Consumers : d.next[b] <= Len(archive)
      /\ Len(archive) \in Nat
  BY DEF StoreKnown, Covered, Stores, ArchiveOrdered
<1>2. PICK next : next = [d.next EXCEPT ![c] = i]
  OBVIOUS
<1>3. next \in [Consumers -> Nat] /\ next[c] = i /\ \A b \in Consumers \ {c} : next[b] = d.next[b]
  BY <1>1, <1>2
<1>4. e = [o EXCEPT !.next = next]
  BY <1>2 DEF Advanced
<1>5. /\ e \in Stores /\ e.events = o.events /\ e.fact = o.fact
      /\ e.watermark = o.watermark /\ e.rows = o.rows /\ e.scope = o.scope
      /\ e.history = o.history /\ e.disposed = o.disposed /\ e.next = next
  BY <1>3, <1>4 DEF Stores
<1> QED
  BY <1>1, <1>3, <1>5

LEMMA HistoryObserved ==
    ASSUME ArchiveOrdered, NEW d, StoreKnown(d), NEW i, i = d.next["history"] + 1,
           i <= Len(archive), NEW o \in Stores, o.next = d.next, o.history = d.history \cup {i},
           o.fact = d.fact, o.watermark = d.watermark, o.rows = d.rows, o.events = d.events,
           o.disposed = d.disposed, NEW e, e = Advanced(o, "history", i)
    PROVE  StoreKnown(e)
<1>1. d \in Stores /\ d.history \subseteq 1..Len(archive) /\ 1..d.next["history"] \subseteq d.history
  BY DEF StoreKnown, Covered
<1>2. d.next["history"] \in Nat /\ "history" \in Consumers
  BY <1>1 DEF Stores, Consumers
<1>5. /\ e \in Stores /\ e.events = o.events /\ e.fact = o.fact
      /\ e.watermark = o.watermark /\ e.rows = o.rows
      /\ e.history = o.history /\ e.disposed = o.disposed
      /\ e.next["history"] = i /\ \A b \in Consumers \ {"history"} : e.next[b] = d.next[b]
      /\ \A b \in Consumers : e.next[b] <= Len(archive)
      /\ i \in 1..Len(archive)
  BY <1>2, CursorMoves
<1>6. Covered(e)
  <2>1. 1..i \subseteq 1..d.next["history"] \cup {i}
    BY <1>2
  <2> QED
    BY <1>1, <1>5, <2>1 DEF Covered
<1>7. e.next["durable"] = d.next["durable"] /\ e.next["continuity"] = d.next["continuity"]
  BY <1>5 DEF Consumers
<1>8. FactKnown(e)
  BY <1>5, <1>7, FactStays
<1>9. Grounded(e) /\ Disposed(e) /\ SlotKnown(e)
  BY <1>5, <1>7, EvidenceBeside
<1> QED
  BY <1>6, <1>8, <1>9 DEF StoreKnown

\* What the durable consumer's step leaves to show.
LEMMA DurableMoves ==
    ASSUME ArchiveOrdered, NEW d, StoreKnown(d), NEW i, i = d.next["durable"] + 1,
           i <= Len(archive), NEW o \in Stores, o.next = d.next, o.rows = d.rows,
           o.disposed = d.disposed, o.history = d.history, d.events \subseteq o.events,
           \A x \in o.events : x.kind = "continuity" => x \in d.events,
           i \in Users /\ i = Len(archive) => archive[i].scope # "real",
           ~skewed => /\ o.watermark <= clock
                      /\ \A j \in Users : j > i => o.watermark <= archive[j].at
                      /\ FactIs(o.fact, i),
           NEW e, e = Advanced(o, "durable", i)
    PROVE  StoreKnown(e)
<1>1. "durable" \in Consumers
  BY DEF Consumers
<1>2. /\ e \in Stores /\ e.events = o.events /\ e.fact = o.fact
      /\ e.watermark = o.watermark /\ e.rows = o.rows
      /\ e.history = o.history /\ e.disposed = o.disposed
      /\ e.next["durable"] = i /\ \A b \in Consumers \ {"durable"} : e.next[b] = d.next[b]
      /\ \A b \in Consumers : e.next[b] <= Len(archive)
  BY <1>1, CursorMoves
<1>3. e.next["history"] = d.next["history"] /\ e.next["continuity"] = d.next["continuity"]
  BY <1>2 DEF Consumers
<1>4. Covered(e)
  BY <1>2, <1>3 DEF StoreKnown, Covered
<1>5. FactKnown(e)
  BY <1>2 DEF FactKnown
<1>6. Grounded(e) /\ Disposed(e) /\ SlotKnown(e)
  BY <1>2, <1>3, EvidenceBeside
<1> QED
  BY <1>4, <1>5, <1>6 DEF StoreKnown

LEMMA DurableObserved ==
    ASSUME ArchiveOrdered, NEW d, StoreKnown(d), NEW i, i = d.next["durable"] + 1,
           i <= Len(archive), NEW o, o = Observe("durable", d, i), o.state = "complete",
           NEW e, e = Advanced(o.db, "durable", i)
    PROVE  StoreKnown(e)
<1> PICK n : n = d.next["durable"]
  OBVIOUS
<1>1. /\ d \in Stores /\ n \in Nat /\ i = n + 1 /\ i \in 1..Len(archive) /\ d.watermark \in Nat
      /\ clock \in Nat
      /\ ~skewed => /\ d.watermark <= clock
                    /\ \A j \in Users : j > n => d.watermark <= archive[j].at
                    /\ FactIs(d.fact, n)
  BY DEF StoreKnown, Covered, Stores, Consumers, FactKnown, ArchiveOrdered
<1>2. \A j \in Users : archive[j].at \in Nat /\ j \in Nat
  BY UserMessages, ObservationTimes DEF UserRecord, Users
<1>3. \A j \in Users : j > i => j > n
  BY <1>1, <1>2
<1> PICK m : m = archive[i]
  OBVIOUS
<1>4. CASE /\ o.db = d
           /\ i \in Users /\ i = Len(archive) => m.scope # "real"
           /\ ~skewed => FactIs(d.fact, i)
  <2>1. ~skewed => /\ d.watermark <= clock
                   /\ \A j \in Users : j > i => d.watermark <= archive[j].at
                   /\ FactIs(d.fact, i)
    BY <1>1, <1>3, <1>4
  <2> QED
    BY <1>1, <1>4, <2>1, DurableMoves
<1>5. CASE i \notin Users
  <2>1. o.db = d
    BY <1>1, <1>5 DEF Observe, Outcome, Users
  <2>2. ~skewed => FactIs(d.fact, i)
    BY <1>1, <1>5, FactPasses
  <2> QED
    BY <1>4, <1>5, <2>1, <2>2
<1>6. CASE i \in Users /\ m.scope # "real"
  <2>1. o.db = d
    BY <1>1, <1>6 DEF Observe, ObserveDurable, Outcome, Users
  <2>2. ~skewed => FactIs(d.fact, i)
    BY <1>1, <1>6, FactPasses
  <2> QED
    BY <1>4, <1>6, <2>1, <2>2
<1>7. CASE i \in Users /\ m.scope = "real"
  <2>1. /\ i # Len(archive)
        /\ o.db = IF Asserted(m.says) # NoValue THEN AssertFact(d, i)
                  ELSE IF Retired(m.says) # NoValue THEN RetireFact(d, i) ELSE d
    BY <1>1, <1>7 DEF Observe, ObserveDurable, Outcome, Users
  <2>2. m.at \in Nat /\ (~skewed => d.watermark <= m.at /\ m.at <= clock
                                    /\ \A j \in Users : j > i => m.at <= archive[j].at)
    <3>1. m.at = archive[i].at /\ m.at \in Nat /\ i \in Users /\ i > n
      BY <1>1, <1>2, <1>7
    <3>2. ~skewed => d.watermark <= m.at /\ m.at <= clock
      BY <1>1, <3>1 DEF ArchiveOrdered
    <3>3. ASSUME NEW j \in Users, j > i, ~skewed PROVE m.at <= archive[j].at
      <4>1. i < j /\ archive[j].at \in Nat
        BY <1>1, <1>2, <3>3
      <4>2. archive[i].at < archive[j].at
        BY <3>1, <3>3, <4>1 DEF ArchiveOrdered
      <4> QED
        BY <3>1, <4>1, <4>2
    <3> QED
      BY <3>1, <3>2, <3>3
  <2> PICK x : x = Event("durable", i, m.at, FALSE)
    OBVIOUS
  <2>3. x \in Evidence /\ x.kind = "durable"
    BY <1>1, <2>2 DEF Event, Evidence
  <2>4. ASSUME NEW fact \in {"A", "B", NoValue}, ~skewed => FactIs(fact, i),
               o.db = [d EXCEPT !.events = @ \cup {x}, !.fact = fact, !.watermark = m.at]
        PROVE  StoreKnown(e)
    <3> PICK q : q = o.db
      OBVIOUS
    <3> PICK es : es = d.events \cup {x}
      OBVIOUS
    <3>1. es \in SUBSET Evidence
      BY <1>1, <2>3 DEF Stores
    <3>2. q = [d EXCEPT !.events = es, !.fact = fact, !.watermark = m.at]
      BY <2>4
    <3>3. /\ q \in Stores /\ q.next = d.next /\ q.rows = d.rows /\ q.disposed = d.disposed
          /\ q.history = d.history /\ q.events = es /\ q.fact = fact /\ q.watermark = m.at
      BY <1>1, <2>2, <2>4, <3>1, <3>2 DEF Stores
    <3>4. d.events \subseteq q.events /\ \A y \in q.events : y.kind = "continuity" => y \in d.events
      BY <2>3, <3>3
    <3>5. ~skewed => /\ q.watermark <= clock
                     /\ \A j \in Users : j > i => q.watermark <= archive[j].at
                     /\ FactIs(q.fact, i)
      BY <2>2, <2>4, <3>3
    <3>6. e = Advanced(q, "durable", i)
      OBVIOUS
    <3> QED
      BY <2>1, <3>3, <3>4, <3>5, <3>6, DurableMoves
  <2>5. CASE Asserted(m.says) # NoValue
    <3>1. ~skewed => FactIs(Asserted(m.says), i)
      BY <1>1, <1>7, <2>5, FactAsserted
    <3>2. CASE m.at < d.watermark
      BY <1>4, <2>1, <2>2, <2>5, <3>2, <1>1 DEF AssertFact
    <3>3. CASE ~(m.at < d.watermark)
      <4>1. Asserted(m.says) \in {"A", "B", NoValue}
        BY DEF Asserted
      <4>2. o.db = [d EXCEPT !.events = @ \cup {x}, !.fact = Asserted(m.says), !.watermark = m.at]
        BY <2>1, <2>5, <3>3 DEF AssertFact
      <4> QED
        BY <2>4, <3>1, <4>1, <4>2
    <3> QED
      BY <3>2, <3>3
  <2>6. CASE Asserted(m.says) = NoValue /\ Retired(m.says) # NoValue
    <3>1. CASE m.at < d.watermark \/ d.fact # Retired(m.says)
      <4>1. o.db = d
        BY <2>1, <2>6, <3>1 DEF RetireFact
      <4>2. ~skewed => FactIs(d.fact, i)
        BY <1>1, <1>7, <2>2, <2>6, <3>1, FactPasses
      <4> QED
        BY <1>4, <2>1, <4>1, <4>2
    <3>2. CASE ~(m.at < d.watermark \/ d.fact # Retired(m.says))
      <4>1. ~skewed => FactIs(NoValue, i)
        BY <1>1, <1>7, <2>6, <3>2, FactRetired
      <4>2. o.db = [d EXCEPT !.events = @ \cup {x}, !.fact = NoValue, !.watermark = m.at]
        BY <2>1, <2>6, <3>2 DEF RetireFact
      <4> QED
        BY <2>4, <4>1, <4>2
    <3> QED
      BY <3>1, <3>2
  <2>7. CASE Asserted(m.says) = NoValue /\ Retired(m.says) = NoValue
    <3>1. ~skewed => FactIs(d.fact, i)
      BY <1>1, <1>7, <2>7, FactPasses
    <3> QED
      BY <1>4, <2>1, <2>7, <3>1
  <2> QED
    BY <2>5, <2>6, <2>7
<1> QED
  BY <1>5, <1>6, <1>7

\* The rows of a slot after a value is set: one open value, from its time on.
NewRows(d, at) ==
    (d.rows \ CurrentRows(d, d.scope, at))
        \cup {[r EXCEPT !.until = at] : r \in CurrentRows(d, d.scope, at)}
        \cup {[scope |-> d.scope, from |-> at, until |-> Forever]}

LEMMA OneOpenValue ==
    ASSUME NEW d \in Stores, NEW at \in 0..MaxTime, NEW rs, rs = NewRows(d, at)
    PROVE  /\ rs \in SUBSET SlotRows
           /\ (\A r \in d.rows : r.scope = d.scope /\ r.until = Forever => r.from <= at)
                 => {r.from : r \in {x \in rs : x.scope = d.scope /\ x.until = Forever}} = {at}
           /\ \A s \in Scopes \ {d.scope} : {x \in rs : x.scope = s /\ x.until = Forever}
                                          = {x \in d.rows : x.scope = s /\ x.until = Forever}
<1> PICK new : new = [scope |-> d.scope, from |-> at, until |-> Forever]
  OBVIOUS
<1> PICK cur : cur = CurrentRows(d, d.scope, at)
  OBVIOUS
<1>1. /\ d.rows \in SUBSET SlotRows /\ d.scope \in Scopes /\ at \in Nat /\ at < Forever
      /\ Forever \in Nat /\ at \in 0..Forever
  BY ObservationTimes DEF Stores
<1>2. new \in SlotRows /\ new.scope = d.scope /\ new.from = at /\ new.until = Forever
  BY <1>1 DEF SlotRows
<1>3. cur = {r \in d.rows : r.scope = d.scope /\ r.from <= at /\ at < r.until}
  BY DEF CurrentRows
<1>4. ASSUME NEW r \in cur, NEW q, q = [r EXCEPT !.until = at]
      PROVE  q \in SlotRows /\ q.until = at /\ q.until # Forever
  <2>1. r \in SlotRows
    BY <1>1, <1>3
  <2>2. q \in SlotRows /\ q.until = at
    BY <1>1, <1>4, <2>1 DEF SlotRows
  <2> QED
    BY <1>1, <2>2
<1> PICK closed : closed = {[r EXCEPT !.until = at] : r \in cur}
  OBVIOUS
<1>5. \A q \in closed : q \in SlotRows /\ q.until # Forever
  BY <1>4
<1>6. rs = (d.rows \ cur) \cup closed \cup {new}
  BY DEF NewRows
<1>7. rs \in SUBSET SlotRows
  BY <1>1, <1>2, <1>5, <1>6
<1>8. ASSUME \A r \in d.rows : r.scope = d.scope /\ r.until = Forever => r.from <= at
      PROVE  {x \in rs : x.scope = d.scope /\ x.until = Forever} = {new}
  <2>1. \A r \in d.rows : r.scope = d.scope /\ r.until = Forever => r \in cur
    BY <1>1, <1>3, <1>8
  <2> QED
    BY <1>2, <1>5, <1>6, <2>1
<1>9. ASSUME NEW s \in Scopes \ {d.scope}
      PROVE  {x \in rs : x.scope = s /\ x.until = Forever}
                 = {x \in d.rows : x.scope = s /\ x.until = Forever}
  <2>1. \A r \in cur : r.scope = d.scope
    BY <1>3
  <2> QED
    BY <1>2, <1>5, <1>6, <2>1
<1>10. ASSUME \A r \in d.rows : r.scope = d.scope /\ r.until = Forever => r.from <= at
       PROVE  {r.from : r \in {x \in rs : x.scope = d.scope /\ x.until = Forever}} = {at}
  BY <1>2, <1>8, <1>10
<1> QED
  BY <1>7, <1>9, <1>10

\* A store with one evidence more, of a message.
Witnessed(q, d, x, i) ==
    /\ i \in Users /\ x.kind = "continuity" /\ x.of = i /\ x.at = archive[i].at
    /\ q.events = d.events \cup {x}

\* Evidence of a message that changes something else than the activity.
Otherwise(q, d, i) == archive[i].says # "activity" /\ q.rows = d.rows

LEMMA OtherApplied ==
    ASSUME ArchiveOrdered, NEW d, StoreKnown(d), NEW i, NEW x, NEW q,
           Witnessed(q, d, x, i), Otherwise(q, d, i)
    PROVE  Grounded(q) /\ SlotKnown(q)
<1> USE DEF Witnessed, Otherwise
<1>1. Grounded(q)
  BY DEF StoreKnown, Grounded
<1>2. \A s \in Scopes : Applied(q, s) = Applied(d, s) /\ OpenSince(q, s) = OpenSince(d, s)
  BY DEF Applied, OpenSince
<1> QED
  BY <1>1, <1>2 DEF StoreKnown, SlotKnown

\* Evidence of an activity, newer than what is applied.
Newest(q, d, i) ==
    /\ archive[i].says = "activity" /\ archive[i].scope = d.scope
    /\ ~skewed => \A y \in Applied(d, d.scope) : y.at <= archive[i].at
    /\ q.rows = NewRows(d, archive[i].at)

LEMMA ActivityApplied ==
    ASSUME ArchiveOrdered, NEW d, StoreKnown(d), NEW i, NEW x, NEW q,
           Witnessed(q, d, x, i), Newest(q, d, i)
    PROVE  Grounded(q) /\ SlotKnown(q)
<1> USE DEF Witnessed, Newest
<1>1. Grounded(q)
  BY DEF StoreKnown, Grounded
<1> PICK at : at = archive[i].at
  OBVIOUS
<1>2. d \in Stores /\ d.scope \in Scopes
  BY DEF StoreKnown, Covered, Stores
<1>3. at \in 0..MaxTime
  BY UserMessages DEF Users, UserRecord
<1>4. /\ q.rows \in SUBSET SlotRows
      /\ (\A r \in d.rows : r.scope = d.scope /\ r.until = Forever => r.from <= at)
            => {r.from : r \in {y \in q.rows : y.scope = d.scope /\ y.until = Forever}} = {at}
      /\ \A s \in Scopes \ {d.scope} : {y \in q.rows : y.scope = s /\ y.until = Forever}
                                     = {y \in d.rows : y.scope = s /\ y.until = Forever}
  BY <1>2, <1>3, OneOpenValue
<1>5. ASSUME ~skewed, NEW s \in Scopes PROVE NewestOpen(Applied(q, s), OpenSince(q, s))
  <2>1. CASE s # d.scope
    <3>1. Applied(q, s) = Applied(d, s)
      BY <2>1 DEF Applied
    <3>2. OpenSince(q, s) = OpenSince(d, s)
      BY <1>4, <2>1 DEF OpenSince
    <3> QED
      BY <1>5, <3>1, <3>2 DEF StoreKnown, SlotKnown
  <2>2. CASE s = d.scope
    <3>1. Applied(q, s) = Applied(d, s) \cup {x}
      BY <2>2 DEF Applied
    <3>2. NewestOpen(Applied(d, s), OpenSince(d, s))
      BY <1>5 DEF StoreKnown, SlotKnown
    <3>3. \A r \in d.rows : r.scope = d.scope /\ r.until = Forever => r.from \in OpenSince(d, s)
      BY <2>2 DEF OpenSince
    <3>4. \A t \in OpenSince(d, s) : t <= at
      BY <1>5, <2>2, <3>2 DEF NewestOpen
    <3>5. OpenSince(q, s) = {at}
      BY <1>4, <2>2, <3>3, <3>4 DEF OpenSince
    <3>6. \A f \in Applied(q, s) : f.at <= x.at
      BY <1>3, <1>5, <2>2, <3>1, ObservationTimes
    <3> QED
      BY <3>1, <3>5, <3>6 DEF NewestOpen
  <2> QED
    BY <2>1, <2>2
<1> QED
  BY <1>1, <1>4, <1>5 DEF SlotKnown

\* What the continuity writer leaves: nothing, or its evidence with its change.
LEMMA ContinuityWritten ==
    ASSUME ArchiveOrdered, NEW d, StoreKnown(d), NEW i \in Users, NEW m, m = archive[i],
           m.scope = d.scope,
           ~skewed /\ m.says = "activity" => \A y \in Applied(d, d.scope) : y.at <= m.at,
           NEW w, w = WriteContinuity(d, m, i)
    PROVE  /\ w.db \in Stores /\ Grounded(w.db) /\ SlotKnown(w.db)
           /\ w.db.next = d.next /\ w.db.fact = d.fact /\ w.db.watermark = d.watermark
           /\ w.db.history = d.history /\ w.db.disposed = d.disposed
           /\ d.events \subseteq w.db.events
           /\ w.state # "failed" /\ StateBearing(m) =>
                 \E e \in w.db.events : e.kind = "continuity" /\ e.of = i
<1>1. /\ d \in Stores /\ m \in UserRecord /\ m.at \in Nat /\ m.at \in 0..MaxTime /\ i \in Nat
      /\ Grounded(d) /\ SlotKnown(d)
  <2>1. m \in UserRecord /\ i \in Nat
    BY UserMessages DEF Users
  <2> QED
    BY <2>1, ObservationTimes DEF UserRecord, StoreKnown, Covered
<1>2. CASE /\ w.db = d
           /\ \/ w.state = "failed" \/ ~Mutates(d, m.says)
              \/ \E e \in d.events : e.kind = "continuity" /\ e.of = i
  <2>1. StateBearing(m) => Mutates(d, m.says)
    BY DEF StateBearing, Mutates
  <2> QED
    BY <1>1, <1>2, <2>1
<1>3. CASE Ambiguous(d, m.says) \/ ~Mutates(d, m.says)
           \/ \E e \in d.events : e.kind = "continuity" /\ e.of = i
  BY <1>2, <1>3 DEF WriteContinuity, Outcome
<1>4. CASE ~(Ambiguous(d, m.says) \/ ~Mutates(d, m.says)
             \/ \E e \in d.events : e.kind = "continuity" /\ e.of = i)
  <2> DEFINE next == IF m.says = "enter" THEN "scenario" ELSE "real"
             moves == ChangesScope(d, m.says) /\ next # d.scope
  <2> PICK b : b = (ChangesScope(d, m.says) => moves)
    OBVIOUS
  <2>1. b \in BOOLEAN
    OBVIOUS
  <2> PICK x : x = Event("continuity", i, m.at, b)
    OBVIOUS
  <2>2. x \in Evidence /\ x.kind = "continuity" /\ x.of = i /\ x.at = m.at
    BY <1>1, <2>1 DEF Event, Evidence
  <2> PICK es : es = d.events \cup {x}
    OBVIOUS
  <2> PICK rec : rec = [d EXCEPT !.events = es]
    OBVIOUS
  <2>3. es \in SUBSET Evidence /\ next \in Scopes
    BY <1>1, <2>2 DEF Stores, Scopes
  <2>4. /\ rec \in Stores /\ rec.events = es /\ rec.next = d.next /\ rec.fact = d.fact
        /\ rec.watermark = d.watermark /\ rec.history = d.history
        /\ rec.disposed = d.disposed /\ rec.rows = d.rows /\ rec.scope = d.scope
    BY <1>1, <2>3 DEF Stores
  <2>5. w = IF ChangesScope(d, m.says) THEN Outcome("applied", [rec EXCEPT !.scope = next])
            ELSE IF m.says = "thread" THEN Outcome("applied", rec)
            ELSE IF Cardinality(CurrentRows(d, d.scope, m.at)) > 1 THEN Outcome("failed", d)
            ELSE Outcome("applied", SetActivity(rec, m.at))
    BY <1>4 DEF WriteContinuity
  <2> HIDE DEF next, moves
  <2>6. CASE ChangesScope(d, m.says)
    <3> PICK q : q = [rec EXCEPT !.scope = next]
      OBVIOUS
    <3>1. /\ q \in Stores /\ q.events = es /\ q.next = d.next /\ q.fact = d.fact
          /\ q.watermark = d.watermark /\ q.history = d.history
          /\ q.disposed = d.disposed /\ q.rows = d.rows
      BY <2>3, <2>4 DEF Stores
    <3>2. m.says # "activity" /\ w.db = q
      BY <2>5, <2>6 DEF ChangesScope, Outcome
    <3>3. Grounded(q) /\ SlotKnown(q)
      <4>1. Witnessed(q, d, x, i) /\ Otherwise(q, d, i)
        BY <2>2, <3>1, <3>2 DEF Witnessed, Otherwise
      <4> QED
        BY <4>1, OtherApplied
    <3> QED
      BY <2>2, <3>1, <3>2, <3>3
  <2>7. CASE ~ChangesScope(d, m.says) /\ m.says = "thread"
    <3>1. w.db = rec
      BY <2>5, <2>7 DEF Outcome
    <3>2. Grounded(rec) /\ SlotKnown(rec)
      <4>1. Witnessed(rec, d, x, i) /\ Otherwise(rec, d, i)
        BY <2>2, <2>4, <2>7 DEF Witnessed, Otherwise
      <4> QED
        BY <4>1, OtherApplied
    <3> QED
      BY <2>2, <2>4, <3>1, <3>2
  <2>8. CASE ~ChangesScope(d, m.says) /\ m.says # "thread"
    <3>1. m.says = "activity"
      BY <1>4, <2>8 DEF Mutates, ChangesScope
    <3>2. CASE Cardinality(CurrentRows(d, d.scope, m.at)) > 1
      BY <1>2, <2>5, <2>8, <3>2 DEF Outcome
    <3>3. CASE ~(Cardinality(CurrentRows(d, d.scope, m.at)) > 1)
      <4> PICK rs : rs = NewRows(d, m.at)
        OBVIOUS
      <4> PICK q : q = [rec EXCEPT !.rows = rs]
        OBVIOUS
      <4>1. SetActivity(rec, m.at) = q
        BY <2>4 DEF SetActivity, NewRows, CurrentRows
      <4>2. w.db = q
        BY <2>5, <2>8, <3>3, <4>1 DEF Outcome
      <4>3. rs \in SUBSET SlotRows
        BY <1>1, OneOpenValue
      <4>4. /\ q \in Stores /\ q.events = es /\ q.next = d.next /\ q.fact = d.fact
            /\ q.watermark = d.watermark /\ q.history = d.history
            /\ q.disposed = d.disposed /\ q.rows = rs
        BY <2>4, <4>3 DEF Stores
      <4>5. Grounded(q) /\ SlotKnown(q)
        <5>1. Witnessed(q, d, x, i) /\ Newest(q, d, i)
          BY <2>2, <3>1, <4>4 DEF Witnessed, Newest
        <5> QED
          BY <5>1, ActivityApplied
      <4> QED
        BY <2>2, <4>2, <4>4, <4>5
    <3> QED
      BY <3>2, <3>3
  <2> QED
    BY <2>6, <2>7, <2>8
<1> QED
  BY <1>3, <1>4

\* What the continuity consumer's step leaves to show.
LEMMA ContinuityMoves ==
    ASSUME ArchiveOrdered, NEW d, StoreKnown(d), NEW i, i = d.next["continuity"] + 1,
           i <= Len(archive), NEW o \in Stores, o.next = d.next, o.fact = d.fact,
           o.watermark = d.watermark, o.history = d.history, Grounded(o), SlotKnown(o),
           d.events \subseteq o.events, d.disposed \subseteq o.disposed,
           StateBearing(archive[i]) =>
               \/ \E e \in o.events : e.kind = "continuity" /\ e.of = i
               \/ \E w \in o.disposed : w.of = i /\ w.by \in o.events /\ w.by.at > archive[i].at,
           NEW e, e = Advanced(o, "continuity", i)
    PROVE  StoreKnown(e)
<1>1. "continuity" \in Consumers
  BY DEF Consumers
<1>2. /\ e \in Stores /\ e.events = o.events /\ e.fact = o.fact
      /\ e.watermark = o.watermark /\ e.rows = o.rows
      /\ e.history = o.history /\ e.disposed = o.disposed
      /\ e.next["continuity"] = i /\ \A b \in Consumers \ {"continuity"} : e.next[b] = d.next[b]
      /\ \A b \in Consumers : e.next[b] <= Len(archive)
      /\ d.next["continuity"] \in Nat
  BY <1>1, CursorMoves
<1>3. e.next["history"] = d.next["history"] /\ e.next["durable"] = d.next["durable"]
  BY <1>2 DEF Consumers
<1>4. Covered(e)
  BY <1>2, <1>3 DEF StoreKnown, Covered
<1>5. FactKnown(e)
  BY <1>2, <1>3, FactStays
<1>6. Grounded(e) /\ SlotKnown(e)
  BY <1>2 DEF Grounded, SlotKnown, Applied, OpenSince
<1>7. Disposed(e)
  <2>1. ASSUME NEW j \in 1..i, StateBearing(archive[j])
        PROVE  \/ \E x \in o.events : x.kind = "continuity" /\ x.of = j
               \/ \E w \in o.disposed : w.of = j /\ w.by \in o.events /\ w.by.at > archive[j].at
    <3>1. CASE j = i
      BY <2>1, <3>1
    <3>2. CASE j # i
      <4>1. j \in 1..d.next["continuity"]
        BY <1>2, <3>2
      <4> QED
        BY <2>1, <4>1 DEF StoreKnown, Disposed
    <3> QED
      BY <3>1, <3>2
  <2> QED
    BY <1>2, <2>1 DEF Disposed
<1> QED
  BY <1>4, <1>5, <1>6, <1>7 DEF StoreKnown

\* An activity that nothing replaces is newer than what is applied.
LEMMA NotSuperseded ==
    ASSUME ArchiveOrdered, NEW d, StoreKnown(d), NEW i \in Users, NEW m, m = archive[i],
           m.says = "activity", ~Superseded(d, m), ~skewed, NEW y \in Applied(d, m.scope)
    PROVE  y.at <= m.at
<1>1. m \in UserRecord /\ m.at \in Nat /\ m.scope \in Scopes /\ clock \in Nat
  <2>1. m \in UserRecord
    BY UserMessages DEF Users
  <2> QED
    BY <2>1, ObservationTimes DEF UserRecord, ArchiveOrdered
<1>2. PICK e \in Applied(d, m.scope) : /\ OpenSince(d, m.scope) = {e.at}
                                       /\ \A f \in Applied(d, m.scope) : f.at <= e.at
  BY <1>1 DEF StoreKnown, SlotKnown, NewestOpen
<1>3. e \in d.events /\ e.kind = "continuity" /\ e.of \in Users /\ e.at = archive[e.of].at
      /\ archive[e.of].says = "activity" /\ archive[e.of].scope = m.scope
  BY DEF Applied, StoreKnown, Grounded
<1>4. e.at <= clock /\ e.at \in Nat /\ y.at \in Nat
  <2>1. \A j \in Users : archive[j].at \in Nat /\ archive[j].at <= clock
    BY UserMessages, ObservationTimes DEF UserRecord, Users, ArchiveOrdered
  <2> QED
    BY <1>3, <2>1 DEF Applied, StoreKnown, Grounded
<1>5. PICK r \in d.rows : r.scope = m.scope /\ r.until = Forever /\ r.from = e.at
  BY <1>2 DEF OpenSince
<1>6. r \in CurrentRows(d, m.scope, clock)
  BY <1>1, <1>4, <1>5, ObservationTimes DEF CurrentRows, ArchiveOrdered
<1>7. ~(e.at > m.at)
  BY <1>3, <1>5, <1>6 DEF Superseded, Witnesses
<1> QED
  BY <1>1, <1>2, <1>4, <1>7

\* The store with the witnesses of a replaced activity.
Replaced(d, m, i) ==
    [d EXCEPT !.disposed = @ \cup {[of |-> i, by |-> x] : x \in Witnesses(d, m)}]

LEMMA ContinuityObserved ==
    ASSUME ArchiveOrdered, NEW d, StoreKnown(d), NEW i, i = d.next["continuity"] + 1,
           i <= Len(archive), NEW o, o = Observe("continuity", d, i), o.state = "complete",
           NEW e, e = Advanced(o.db, "continuity", i)
    PROVE  StoreKnown(e)
<1>1. /\ d \in Stores /\ i \in 1..Len(archive) /\ Grounded(d) /\ SlotKnown(d)
  BY DEF StoreKnown, Covered, Stores, Consumers, ArchiveOrdered
<1> PICK m : m = archive[i]
  OBVIOUS
<1>2. CASE o.db = d /\ (StateBearing(m) =>
               \E x \in d.events : x.kind = "continuity" /\ x.of = i)
  BY <1>1, <1>2, ContinuityMoves
<1>3. CASE i \notin Users
  BY <1>1, <1>2, <1>3 DEF Observe, Outcome, Users, StateBearing
<1>4. CASE i \in Users
  <2> PICK w : w = WriteContinuity(d, m, i)
    OBVIOUS
  <2>1. o = ObserveContinuity(d, i)
    BY <1>1, <1>4 DEF Observe, Users
  <2> PICK more : more = Replaced(d, m, i)
    OBVIOUS
  <2> DEFINE told == \E x \in d.events : x.kind = "continuity" /\ x.of = i
             last == IF NewerStateEvidence(d, m) THEN Outcome("unresolved", d)
                     ELSE IF w.state = "failed" THEN Outcome("failed", d)
                     ELSE Outcome("complete", w.db)
             rest == IF m.says = "question" THEN Outcome("complete", d)
                     ELSE IF Superseded(d, m) THEN Outcome("complete", more) ELSE last
  <2>20. ASSUME ~told PROVE m.scope = d.scope /\ o = rest
    <3>1. m.scope = d.scope
      BY <2>1, <2>20 DEF ObserveContinuity, Outcome
    <3>2. ~Ambiguous(d, m.says)
      BY <2>1, <2>20, <3>1 DEF ObserveContinuity, Outcome
    <3> QED
      BY <2>1, <2>20, <3>1, <3>2 DEF ObserveContinuity, Replaced
  <2>21. ASSUME o = last PROVE w.state # "failed" /\ o.db = w.db
    <3>1. ~NewerStateEvidence(d, m)
      BY <2>21 DEF Outcome
    <3>2. w.state # "failed"
      BY <2>21, <3>1 DEF Outcome
    <3> QED
      BY <2>21, <3>1, <3>2 DEF Outcome
  <2>22. told => o.db = d
    BY <2>1 DEF ObserveContinuity, Outcome
  <2>2. \/ o.db = d /\ told
        \/ /\ m.scope = d.scope
           /\ \/ o.db = d /\ m.says = "question"
              \/ Superseded(d, m) /\ o.db = more
              \/ ~Superseded(d, m) /\ w.state # "failed" /\ o.db = w.db
    <3>1. ASSUME ~told, m.says # "question", ~Superseded(d, m) PROVE o = last
      BY <2>20, <3>1
    <3>2. ~told => m.scope = d.scope
      BY <2>20
    <3>3. ASSUME ~told, m.says = "question" PROVE o.db = d
      BY <2>20, <3>3 DEF Outcome
    <3>4. ASSUME ~told, m.says # "question", Superseded(d, m) PROVE o.db = more
      BY <2>20, <3>4 DEF Outcome
    <3> HIDE DEF told, last, rest
    <3> QED
      BY <2>21, <2>22, <3>1, <3>2, <3>3, <3>4
  <2>3. CASE o.db = d /\ told
    BY <1>2, <2>3
  <2>4. CASE m.scope = d.scope /\ o.db = d /\ m.says = "question"
    BY <1>2, <2>4 DEF StateBearing
  <2>5. CASE Superseded(d, m) /\ o.db = more
    <3> PICK new : new = {[of |-> i, by |-> x] : x \in Witnesses(d, m)}
      OBVIOUS
    <3> PICK q : q = o.db
      OBVIOUS
    <3>1. Witnesses(d, m) \subseteq d.events /\ \A x \in Witnesses(d, m) : x.at > m.at
      BY DEF Witnesses
    <3>2. d.events \subseteq Evidence /\ i \in Nat
      BY <1>1 DEF Stores
    <3>3. new \in SUBSET [of : Nat, by : Evidence]
      BY <3>1, <3>2
    <3> PICK all : all = d.disposed \cup new
      OBVIOUS
    <3>4. all \in SUBSET [of : Nat, by : Evidence]
      BY <1>1, <3>3 DEF Stores
    <3>5. q = [d EXCEPT !.disposed = all]
      BY <2>5 DEF Replaced
    <3>6. /\ q \in Stores /\ q.next = d.next /\ q.fact = d.fact /\ q.watermark = d.watermark
          /\ q.history = d.history /\ q.events = d.events /\ q.rows = d.rows
          /\ q.disposed = all
      BY <1>1, <3>4, <3>5 DEF Stores
    <3>7. \E y \in all : y.of = i /\ y.by \in d.events /\ y.by.at > m.at
      <4>1. PICK x \in Witnesses(d, m) : TRUE
        BY <2>5 DEF Superseded
      <4> PICK y : y = [of |-> i, by |-> x]
        OBVIOUS
      <4>2. y \in all /\ y.of = i /\ y.by = x
        OBVIOUS
      <4> QED
        BY <3>1, <4>2
    <3>8. Grounded(q) /\ SlotKnown(q)
      BY <1>1, <3>6 DEF Grounded, SlotKnown, Applied, OpenSince
    <3>9. StateBearing(archive[i]) =>
              \/ \E x \in q.events : x.kind = "continuity" /\ x.of = i
              \/ \E y \in q.disposed : y.of = i /\ y.by \in q.events /\ y.by.at > archive[i].at
      BY <3>6, <3>7
    <3>10. d.events \subseteq q.events /\ d.disposed \subseteq q.disposed
      BY <3>6
    <3>11. e = Advanced(q, "continuity", i)
      OBVIOUS
    <3> QED
      BY <3>6, <3>8, <3>9, <3>10, <3>11, ContinuityMoves
  <2>6. CASE m.scope = d.scope /\ ~Superseded(d, m) /\ w.state # "failed" /\ o.db = w.db
    <3>1. ~skewed /\ m.says = "activity" => \A y \in Applied(d, d.scope) : y.at <= m.at
      BY <1>4, <2>6, NotSuperseded
    <3> PICK q : q = w.db
      OBVIOUS
    <3>2. /\ q \in Stores /\ Grounded(q) /\ SlotKnown(q)
          /\ q.next = d.next /\ q.fact = d.fact /\ q.watermark = d.watermark
          /\ q.history = d.history /\ q.disposed = d.disposed
          /\ d.events \subseteq q.events
          /\ StateBearing(m) => \E x \in q.events : x.kind = "continuity" /\ x.of = i
      BY <1>4, <2>6, <3>1, ContinuityWritten
    <3>3. e = Advanced(q, "continuity", i) /\ d.disposed \subseteq q.disposed
      BY <2>6, <3>2
    <3> QED
      BY <3>2, <3>3, ContinuityMoves
  <2> QED
    BY <2>2, <2>3, <2>4, <2>5, <2>6
<1> QED
  BY <1>3, <1>4

\* A record that is observed, by each of the consumers.
LEMMA RecordObserved ==
    ASSUME ArchiveOrdered, NEW d, StoreKnown(d), NEW c \in Consumers, NEW i, i = d.next[c] + 1,
           i <= Len(archive), NEW o, o = Observe(c, d, i), o.state = "complete"
    PROVE  StoreKnown(Advanced(o.db, c, i))
<1>1. CASE c = "durable"
  BY <1>1, DurableObserved
<1>2. CASE c = "continuity"
  BY <1>2, ContinuityObserved
<1>3. CASE c = "history"
  <2> PICK h : h = d.history \cup {i}
    OBVIOUS
  <2> PICK q : q = o.db
    OBVIOUS
  <2>1. q = [d EXCEPT !.history = h]
    BY <1>3 DEF Observe, Outcome
  <2>2. d \in Stores /\ d.next["history"] \in Nat
    BY DEF StoreKnown, Covered, Stores, Consumers
  <2>3. h \in SUBSET Nat
    BY <1>3, <2>2 DEF Stores
  <2>4. /\ q \in Stores /\ q.next = d.next /\ q.history = d.history \cup {i}
        /\ q.fact = d.fact /\ q.watermark = d.watermark /\ q.rows = d.rows
        /\ q.events = d.events /\ q.disposed = d.disposed
    BY <2>1, <2>2, <2>3 DEF Stores
  <2> QED
    BY <1>3, <2>4, HistoryObserved
<1> QED
  BY <1>1, <1>2, <1>3 DEF Consumers

-----------------------------------------------------------------------------
(* The steps of the service.                                               *)

\* Between messages nothing is known of the turn.
LEMMA Resting ==
    ASSUME ArchiveOrdered', turn' \in Turns, phase' \in {"down", "idle", "input", "ended", "page"},
           InTime', NEW d, db' = d, StoreKnown(d)',
           phase' = "page" => page' \in Pages /\ StoreKnown(page.work)'
    PROVE  ObservationIInv'
<1>1. TurnKnown'
  BY DEF TurnKnown
<1>2. StoreKnown(db)'
  OBVIOUS
<1> QED
  BY <1>1, <1>2 DEF ObservationIInv

LEMMA ArchiveStays ==
    ASSUME ArchiveOrdered, UNCHANGED <<archive, clock, skewed>>, faults' \in 0..MaxFaults
    PROVE  ArchiveOrdered'
  BY DEF ArchiveOrdered, Users

\* A page is entered with the store as it is.
LEMMA EnterPageKeeps ==
    ASSUME ObservationIInv, NEW then \in {"idle", "input"}, EnterPage(then),
           then = "input" => clock + 4 <= MaxTime,
           UNCHANGED <<archive, clock, skewed, db>>, faults' \in 0..MaxFaults, turn' \in Turns
    PROVE  ObservationIInv'
<1> PICK d : d = db
  OBVIOUS
<1>1. StoreKnown(d) /\ ArchiveOrdered /\ d \in Stores
  BY DEF ObservationIInv, StoreKnown, Covered
<1>2. StoreKnown(d)' /\ ArchiveOrdered'
  BY <1>1, KnownStays, ArchiveStays
<1>3. phase' \in {"idle", "input", "page"}
  BY DEF EnterPage
<1>4. ASSUME phase' = "page" PROVE page' \in Pages /\ StoreKnown(page.work)'
  <2> PICK todo : todo = ConsumerOrder
    OBVIOUS
  <2>1. page' = [NoPage EXCEPT !.todo = todo, !.work = d, !.then = then]
    BY <1>4 DEF EnterPage
  <2>2. todo \in Seq(Consumers)
    BY DEF ConsumerOrder, Consumers
  <2>3. [c \in Consumers |-> "none"] \in [Consumers -> Results]
    BY DEF Results
  <2>4. page' \in Pages /\ page'.work = d
    BY <1>1, <2>1, <2>2, <2>3 DEF NoPage, Pages
  <2> QED
    BY <1>2, <2>4
<1>5. InTime'
  BY DEF EnterPage, InTime, NoPage
<1> QED
  BY <1>2, <1>3, <1>4, <1>5, Resting

LEMMA NoTurnTyped == NoTurn \in Turns
  BY DEF NoTurn, Turns, NoMessage

\* A step within a page.
LEMMA PageGoesOn ==
    ASSUME ObservationIInv, phase = "page", UNCHANGED <<archive, turn, clock, skewed, phase>>,
           faults' \in 0..MaxFaults, page' \in Pages, page'.then = page.then,
           NEW d, NEW k, StoreKnown(d), StoreKnown(k), db' = d, page'.work = k
    PROVE  ObservationIInv'
<1>1. StoreKnown(d)' /\ StoreKnown(k)' /\ ArchiveOrdered'
  BY KnownStays, ArchiveStays DEF ObservationIInv
<1>2. turn' \in Turns /\ phase' = "page" /\ InTime'
  BY DEF ObservationIInv, TurnKnown, InTime
<1>3. StoreKnown(page.work)'
  BY <1>1
<1> QED
  BY <1>1, <1>2, <1>3, Resting

\* A consumer's transaction ends.
LEMMA CommitKeeps ==
    ASSUME ObservationIInv, NEW c \in Consumers, Working(c), NEW state \in Results,
           Commit(c, state), UNCHANGED <<archive, turn, clock, skewed, phase>>,
           faults' \in 0..MaxFaults
    PROVE  ObservationIInv'
<1> PICK k : k = page.work
  OBVIOUS
<1> PICK todo : todo = Tail(page.todo)
  OBVIOUS
<1> PICK outcomes : outcomes = [page.outcomes EXCEPT ![c] = state]
  OBVIOUS
<1>1. phase = "page" /\ page \in Pages /\ StoreKnown(k) /\ page.todo \in Seq(Consumers)
      /\ page.todo # <<>> /\ page.outcomes \in [Consumers -> Results]
  BY DEF Working, ObservationIInv, Pages
<1>2. todo \in Seq(Consumers) /\ outcomes \in [Consumers -> Results]
  BY <1>1
<1>3. page' = [page EXCEPT !.todo = todo, !.done = 0, !.outcomes = outcomes]
  BY DEF Commit
<1>4. db' = k
  BY DEF Commit
<1>5. k \in Stores
  BY <1>1 DEF Pages
<1>6. page' \in Pages /\ page'.work = k /\ page'.then = page.then
  <2> PICK p : p = page
    OBVIOUS
  <2> PICK q : q = page'
    OBVIOUS
  <2>1. p \in Pages /\ q = [p EXCEPT !.todo = todo, !.done = 0, !.outcomes = outcomes] /\ p.work = k
    BY <1>1, <1>3
  <2>2. /\ q = [todo |-> todo, work |-> k, done |-> 0, outcomes |-> outcomes, then |-> p.then]
        /\ p.then \in {"idle", "input"}
    BY <2>1 DEF Pages
  <2>3. q \in Pages
    BY <1>2, <1>5, <2>2 DEF Pages
  <2> QED
    BY <2>2, <2>3
<1> QED
  BY <1>1, <1>4, <1>6, PageGoesOn

LEMMA ObservedTypes ==
    ASSUME NEW c \in Consumers, NEW d, NEW i PROVE Observe(c, d, i).state \in Results
<1>1. ObserveDurable(d, i).state \in Results
  BY DEF ObserveDurable, Outcome, Results
<1>2. ObserveContinuity(d, i).state \in Results
  BY DEF ObserveContinuity, Outcome, Results
<1> QED
  BY <1>1, <1>2 DEF Observe, Outcome, Results

\* A record is observed with its cursor, or ends the consumer's page.
LEMMA ObserveRecordKeeps ==
    ASSUME ObservationIInv, NEW c \in Consumers, ObserveRecord(c) PROVE ObservationIInv'
<1> PICK d : d = page.work
  OBVIOUS
<1> PICK i : i = d.next[c] + 1
  OBVIOUS
<1> PICK o : o = Observe(c, d, i)
  OBVIOUS
<1>1. /\ Working(c) /\ phase = "page" /\ i <= Len(archive) /\ page \in Pages
      /\ StoreKnown(d) /\ ArchiveOrdered
      /\ UNCHANGED <<archive, turn, clock, skewed, phase, faults>> /\ faults \in 0..MaxFaults
  BY DEF ObserveRecord, Working, ObservationIInv, ArchiveOrdered
<1>2. CASE o.state = "complete"
  <2> PICK k : k = Advanced(o.db, c, i)
    OBVIOUS
  <2>1. StoreKnown(k) /\ k \in Stores
    BY <1>1, <1>2, RecordObserved DEF StoreKnown, Covered
  <2>2. page' = [page EXCEPT !.done = @ + 1, !.work = k] /\ db' = db
    BY <1>2 DEF ObserveRecord, Advanced
  <2>3. page' \in Pages /\ page'.work = k /\ page'.then = page.then
    <3> PICK p : p = page
      OBVIOUS
    <3> PICK q : q = page'
      OBVIOUS
    <3> PICK n : n = p.done + 1
      OBVIOUS
    <3>1. p \in Pages /\ q = [p EXCEPT !.done = n, !.work = k] /\ n \in Nat
      BY <1>1, <2>2 DEF Pages
    <3>2. q \in Pages /\ q.work = k /\ q.then = p.then
      BY <2>1, <3>1 DEF Pages
    <3> QED
      BY <3>2
  <2> PICK b : b = db
    OBVIOUS
  <2>4. StoreKnown(b) /\ db' = b
    BY <2>2 DEF ObservationIInv
  <2> QED
    BY <1>1, <2>1, <2>3, <2>4, PageGoesOn
<1>3. CASE o.state # "complete"
  <2> PICK state : state = o.state
    OBVIOUS
  <2>1. Commit(c, state) /\ state \in Results
    BY <1>3, ObservedTypes DEF ObserveRecord
  <2> QED
    BY <1>1, <2>1, CommitKeeps
<1> QED
  BY <1>2, <1>3

LEMMA ObserverFailsKeeps ==
    ASSUME ObservationIInv, NEW c \in Consumers, ObserverFails(c) \/ FinishConsumer(c)
    PROVE  ObservationIInv'
<1>1. faults \in 0..MaxFaults /\ MaxFaults \in Nat
  BY ObservationTimes DEF ObservationIInv, ArchiveOrdered
<1>2. CASE ObserverFails(c)
  BY <1>1, <1>2, CommitKeeps DEF ObserverFails, Results
<1>3. CASE FinishConsumer(c)
  <2>1. PICK state \in {"complete", "pending"} : Commit(c, state)
    BY <1>3 DEF FinishConsumer
  <2> QED
    BY <1>1, <1>3, <2>1, CommitKeeps DEF FinishConsumer, Results
<1> QED
  BY <1>2, <1>3

\* The page ends, in order or by an error.
LEMMA PageEndsKeeps ==
    ASSUME ObservationIInv, FinishPage \/ PageFails PROVE ObservationIInv'
<1> PICK d : d = db
  OBVIOUS
<1>1. /\ phase = "page" /\ page \in Pages /\ phase' = page.then
      /\ UNCHANGED <<archive, turn, clock, skewed, db>> /\ faults' \in 0..MaxFaults
  BY ObservationTimes DEF FinishPage, PageFails, ObservationIInv, ArchiveOrdered
<1>2. StoreKnown(d)' /\ ArchiveOrdered' /\ db' = d
  BY <1>1, KnownStays, ArchiveStays DEF ObservationIInv
<1>3. phase' \in {"idle", "input"} /\ turn' \in Turns
  BY <1>1 DEF Pages, ObservationIInv, TurnKnown
<1>4. InTime'
  BY <1>1, <1>3 DEF InTime, ObservationIInv
<1> QED
  BY <1>2, <1>3, <1>4, Resting

LEMMA EntersKeep ==
    ASSUME ObservationIInv, Maintain \/ StartTurn \/ EndTurn \/ Restart PROVE ObservationIInv'
<1>1. faults \in 0..MaxFaults /\ turn \in Turns
  BY DEF ObservationIInv, ArchiveOrdered, TurnKnown
<1>2. CASE Maintain
  BY <1>1, <1>2, EnterPageKeeps DEF Maintain
<1>3. CASE StartTurn
  BY <1>1, <1>3, EnterPageKeeps DEF StartTurn
<1>4. CASE EndTurn
  BY <1>1, <1>4, EnterPageKeeps DEF EndTurn
<1>5. CASE Restart
  BY <1>1, <1>5, EnterPageKeeps DEF Restart
<1> QED
  BY <1>2, <1>3, <1>4, <1>5

\* A message is heard, at the time of the clock or of one set back.
LEMMA HearKeeps ==
    ASSUME ObservationIInv, NEW says \in Statements,
           AddUserMessage(says) \/ AddBackdatedMessage(says)
    PROVE  ObservationIInv'
<1> PICK d : d = db
  OBVIOUS
<1> PICK at : at = clock'
  OBVIOUS
<1>1. /\ clock \in Nat /\ phase = "input" /\ clock + 4 <= MaxTime /\ MaxTime \in Nat
      /\ StoreKnown(d) /\ ArchiveOrdered /\ d.scope \in Scopes
  BY ObservationTimes
     DEF AddUserMessage, AddBackdatedMessage, Hear, ObservationIInv, InTime, ArchiveOrdered,
         StoreKnown, Covered, Stores
<1>2. /\ Hear(says, at) /\ at \in 0..MaxTime /\ faults' \in 0..MaxFaults /\ skewed' \in BOOLEAN
      /\ skewed' \/ (skewed' = skewed /\ at = clock + 4)
  <2>1. CASE AddUserMessage(says)
    BY <1>1, <2>1 DEF AddUserMessage, Hear, ArchiveOrdered
  <2>2. CASE AddBackdatedMessage(says)
    BY <1>1, <2>2, ObservationTimes DEF AddBackdatedMessage, Hear, ArchiveOrdered
  <2> QED
    BY <2>1, <2>2
<1>3. UNCHANGED <<archive, db>> /\ phase' = "thinking"
  BY <1>2 DEF Hear
<1> PICK m : m = [role |-> "user", says |-> says, at |-> at, scope |-> d.scope]
  OBVIOUS
<1>4. m \in UserRecord /\ m.at = at /\ m.scope = d.scope
  BY <1>1, <1>2 DEF UserRecord
<1>5. turn' = [message |-> m, saved |-> FALSE, acted |-> FALSE, early |-> FALSE]
  BY <1>2 DEF Hear
<1>6. turn' \in Turns /\ turn'.message = m /\ turn'.saved = FALSE
  BY <1>4, <1>5 DEF Turns
<1>7. \A j \in Users : archive[j].at \in Nat
  BY <1>1, UserMessages, ObservationTimes DEF UserRecord, Users
<1>8. ArchiveOrdered' /\ Users' = Users
      /\ (~skewed' => \A j \in Users : archive[j].at < at)
  BY <1>1, <1>2, <1>3, <1>7 DEF ArchiveOrdered, Users
<1>9. TurnKnown'
  BY <1>2, <1>3, <1>4, <1>6, <1>8 DEF TurnKnown
<1>10. StoreKnown(d)'
  BY <1>1, <1>2, <1>3, KnownAsTimePasses
<1>11. StoreKnown(db)' /\ InTime'
  BY <1>3, <1>10 DEF InTime
<1> QED
  BY <1>3, <1>8, <1>9, <1>11 DEF ObservationIInv

\* A message and its reply are saved behind what there is.
Extended(new) == archive' = archive \o new

LEMMA ArchiveExtended ==
    ASSUME ArchiveOrdered, NEW d, StoreKnown(d), NEW m \in UserRecord, NEW new,
           Extended(new), faults' \in 0..MaxFaults, UNCHANGED <<clock, skewed>>,
           \/ new = <<Reply>>
           \/ /\ new = <<m>> \/ new = <<m, Reply>>
              /\ skewed \/ (m.at = clock /\ \A i \in Users : archive[i].at < clock)
    PROVE  ArchiveOrdered' /\ StoreKnown(d)'
<1> PICK n : n = Len(archive)
  OBVIOUS
<1> PICK a : a = archive
  OBVIOUS
<1>1. a \in Seq(UserRecord \cup {Reply}) /\ n \in Nat /\ n = Len(a)
  BY DEF ArchiveOrdered
<1>2. new \in Seq(UserRecord \cup {Reply}) /\ Len(new) \in Nat /\ Len(new) > 0
  <2>1. CASE new = <<Reply>>
    BY <2>1
  <2>2. CASE new = <<m>>
    BY <2>2
  <2>3. CASE new = <<m, Reply>>
    BY <2>3
  <2> QED
    BY <2>1, <2>2, <2>3
<1>3. /\ archive' \in Seq(UserRecord \cup {Reply}) /\ Len(archive') = n + Len(new)
      /\ \A i \in 1..n : archive'[i] = archive[i]
      /\ \A i \in (n + 1)..Len(archive') : archive'[i] = new[i - n]
  BY <1>1, <1>2 DEF Extended
<1>4. Reply.role # "user"
  BY DEF Reply
<1>5. \A i \in Users' : i \in Users \/ (i = n + 1 /\ archive'[i] = m /\ new # <<Reply>>)
  <2>1. ASSUME NEW i \in Users' PROVE i \in Users \/ (i = n + 1 /\ archive'[i] = m /\ new # <<Reply>>)
    <3>1. i \in 1..Len(archive') /\ archive'[i].role = "user"
      BY DEF Users
    <3>2. CASE i \in 1..n
      BY <1>3, <3>1, <3>2 DEF Users
    <3>3. CASE i \notin 1..n
      <4>1. i \in (n + 1)..Len(archive') /\ archive'[i] = new[i - n]
        BY <1>1, <1>2, <1>3, <3>1, <3>3
      <4>2. new[i - n] # Reply
        BY <1>4, <3>1, <4>1
      <4>3. CASE new = <<Reply>>
        BY <1>1, <1>3, <4>1, <4>2, <4>3
      <4>4. CASE new = <<m>>
        BY <1>1, <1>3, <4>1, <4>2, <4>4
      <4>5. CASE new = <<m, Reply>>
        BY <1>1, <1>3, <4>1, <4>2, <4>5
      <4> QED
        BY <4>3, <4>4, <4>5
    <3> QED
      BY <3>2, <3>3
  <2> QED
    BY <2>1
<1>6. \A i \in Users' : i > n /\ ~skewed => archive'[i].at = clock
  <2>1. new # <<Reply>> /\ ~skewed => m.at = clock
    OBVIOUS
  <2>2. \A i \in Users : i <= n
    BY DEF Users
  <2>3. \A i \in Users' : i > n => archive'[i] = m /\ new # <<Reply>>
    BY <1>1, <1>5, <2>2 DEF Users
  <2> QED
    BY <2>1, <2>3
<1>7. StoreKnown(d)'
  <2>1. /\ Len(archive') \in Nat /\ Len(archive) < Len(archive')
        /\ \A i \in 1..Len(archive) : archive'[i] = archive[i]
        /\ \A i \in Users' : i > Len(archive) /\ ~skewed => archive'[i].at = clock
    <3>1. Len(archive') \in Nat /\ n < Len(archive')
      <4> PICK k : k = Len(new)
        OBVIOUS
      <4>1. k \in Nat /\ k > 0 /\ Len(archive') = n + k
        BY <1>2, <1>3
      <4> QED
        BY <1>1, <4>1
    <3> QED
      BY <1>3, <1>6, <3>1
  <2> QED
    BY <2>1, KnownAsArchiveGrows
<1>8. ArchiveOrdered'
  <2>1. clock' \in 0..MaxTime /\ skewed' \in BOOLEAN /\ clock \in Nat
    BY ObservationTimes DEF ArchiveOrdered
  <2>2. ASSUME ~skewed PROVE \A j \in Users' : /\ archive'[j].at <= clock
                                               /\ \A i \in Users' : i < j => archive'[i].at < archive'[j].at
    <3>1. \A j \in Users : /\ archive[j].at <= clock /\ j \in 1..n /\ archive'[j].at = archive[j].at
                           /\ \A i \in Users : i < j => archive[i].at < archive[j].at
      BY <1>3, <2>2 DEF ArchiveOrdered, Users
    <3>2. \A j \in Users' : j \notin Users =>
              j = n + 1 /\ archive'[j].at = clock /\ \A i \in Users : archive[i].at < clock
      BY <1>5, <2>2
    <3>3. ASSUME NEW j \in Users', j \in Users
          PROVE  archive'[j].at <= clock /\ \A i \in Users' : i < j => archive'[i].at < archive'[j].at
      <4>1. ASSUME NEW i \in Users', i < j PROVE archive'[i].at < archive'[j].at
        <5>1. i \in Users
          BY <1>1, <3>1, <3>2, <3>3, <4>1
        <5> QED
          BY <3>1, <3>3, <4>1, <5>1
      <4> QED
        BY <3>1, <3>3, <4>1
    <3>4. ASSUME NEW j \in Users', j \notin Users
          PROVE  archive'[j].at <= clock /\ \A i \in Users' : i < j => archive'[i].at < archive'[j].at
      <4>1. j = n + 1 /\ archive'[j].at = clock /\ \A i \in Users : archive[i].at < clock
        BY <3>2, <3>4
      <4>2. ASSUME NEW i \in Users', i < j PROVE archive'[i].at < archive'[j].at
        <5>1. i \in Users
          BY <1>1, <3>2, <4>1, <4>2
        <5>2. archive'[i].at = archive[i].at /\ archive[i].at < clock
          BY <3>1, <4>1, <5>1
        <5> QED
          BY <4>1, <5>2
      <4> QED
        BY <2>1, <4>1, <4>2
    <3> QED
      BY <3>3, <3>4
  <2> QED
    BY <1>3, <2>1, <2>2 DEF ArchiveOrdered
<1> QED
  BY <1>7, <1>8

LEMMA SaveUserKeeps == ASSUME ObservationIInv, SaveUser PROVE ObservationIInv'
<1> PICK m : m = turn.message
  OBVIOUS
<1> PICK d : d = db
  OBVIOUS
<1> PICK new : new = <<m>>
  OBVIOUS
<1>1. /\ m \in UserRecord /\ phase = "thinking" /\ StoreKnown(d) /\ ArchiveOrdered
      /\ m.scope = d.scope /\ faults \in 0..MaxFaults /\ archive \in Seq(UserRecord \cup {Reply})
      /\ skewed \/ (m.at = clock /\ \A i \in Users : archive[i].at < clock)
  BY DEF SaveUser, ObservationIInv, TurnKnown, ArchiveOrdered
<1>2. archive' = Append(archive, m) /\ UNCHANGED <<clock, skewed, db, faults>> /\ phase' = "saved"
  BY DEF SaveUser
<1>3. archive' = archive \o new
  BY <1>1, <1>2
<1>4. ArchiveOrdered' /\ StoreKnown(d)'
  BY <1>1, <1>2, <1>3, ArchiveExtended DEF Extended
<1>5. Len(archive') > 0 /\ archive'[Len(archive')] = m
  BY <1>1, <1>2
<1>6. turn' \in Turns /\ turn'.message = m /\ turn'.saved
  <2> PICK early : early = ChangedByEvidence
    OBVIOUS
  <2>1. ChangedByEvidence \in BOOLEAN
    BY DEF ChangedByEvidence
  <2>2. turn \in Turns /\ turn' = [turn EXCEPT !.saved = TRUE, !.early = early]
    BY DEF SaveUser, ObservationIInv, TurnKnown
  <2> QED
    BY <2>1, <2>2 DEF Turns
<1>7. TurnKnown'
  BY <1>1, <1>2, <1>5, <1>6 DEF TurnKnown
<1> QED
  BY <1>2, <1>4, <1>7 DEF ObservationIInv, InTime

LEMMA DiscardKeeps ==
    ASSUME ObservationIInv, SaveFails \/ AbandonTurn PROVE ObservationIInv'
<1>1. EnterPage("idle") /\ turn' \in Turns /\ UNCHANGED <<archive, clock, skewed, db>>
  BY NoTurnTyped DEF SaveFails, AbandonTurn, Discard
<1>2. faults' \in 0..MaxFaults
  BY ObservationTimes DEF SaveFails, AbandonTurn, ObservationIInv, ArchiveOrdered
<1> QED
  BY <1>1, <1>2, EnterPageKeeps

\* The state of a saved message is observed at once; it is the newest there is.
LEMMA ObserveLiveKeeps == ASSUME ObservationIInv, ObserveLive PROVE ObservationIInv'
<1> PICK d : d = db
  OBVIOUS
<1> PICK m : m = turn.message
  OBVIOUS
<1> PICK i : i = Len(archive)
  OBVIOUS
<1> PICK w : w = WriteContinuity(d, m, i)
  OBVIOUS
<1> PICK q : q = w.db
  OBVIOUS
<1>1. /\ phase = "saved" /\ phase' = "reply" /\ db' = q
      /\ UNCHANGED <<archive, turn, clock, skewed, page, faults>>
  BY DEF ObserveLive
<1>2. /\ StoreKnown(d) /\ ArchiveOrdered /\ faults \in 0..MaxFaults /\ turn.saved /\ turn \in Turns
      /\ m \in UserRecord /\ m.scope = d.scope /\ i > 0 /\ archive[i] = m
  BY <1>1 DEF ObservationIInv, TurnKnown, ArchiveOrdered
<1>3. i \in Users /\ i \in Nat
  BY <1>2 DEF Users, UserRecord, ArchiveOrdered
<1>4. ASSUME ~skewed PROVE \A y \in Applied(d, d.scope) : y.at <= m.at
  <2>1. \A y \in Applied(d, d.scope) : y.of \in Users /\ y.at = archive[y.of].at
    BY <1>2 DEF Applied, StoreKnown, Grounded
  <2>2. \A j \in Users : j <= i /\ archive[j].at \in Nat
    BY <1>2, <1>3, UserMessages, ObservationTimes DEF Users, UserRecord
  <2>3. \A j \in Users : j < i => archive[j].at < archive[i].at
    BY <1>2, <1>3, <1>4 DEF ArchiveOrdered
  <2>4. \A j \in Users : j \in Nat
    BY DEF Users
  <2>5. ASSUME NEW y \in Applied(d, d.scope) PROVE y.at <= m.at
    <3> PICK j : j = y.of
      OBVIOUS
    <3> PICK from : from = archive[j].at
      OBVIOUS
    <3> PICK to : to = archive[i].at
      OBVIOUS
    <3>1. j \in Users /\ y.at = from /\ m.at = to
      BY <1>2, <2>1
    <3>2. j \in Nat /\ j <= i /\ from \in Nat /\ to \in Nat
      BY <1>3, <2>2, <2>4, <3>1
    <3>3. j < i => from < to
      BY <2>3, <3>1
    <3>4. j = i => from = to
      OBVIOUS
    <3>5. from <= to
      BY <1>3, <3>2, <3>3, <3>4
    <3> QED
      BY <3>1, <3>5
  <2> QED
    BY <2>5
<1>5. /\ q \in Stores /\ Grounded(q) /\ SlotKnown(q)
      /\ q.next = d.next /\ q.fact = d.fact /\ q.watermark = d.watermark
      /\ q.history = d.history /\ q.disposed = d.disposed /\ d.events \subseteq q.events
  BY <1>2, <1>3, <1>4, ContinuityWritten
<1>6. StoreKnown(q)
  <2>1. FactKnown(q)
    BY <1>2, <1>5, FactStays
  <2>2. Covered(q) /\ Disposed(q)
    BY <1>2, <1>5 DEF StoreKnown, Covered, Disposed
  <2> QED
    BY <1>5, <2>1, <2>2 DEF StoreKnown
<1>7. StoreKnown(q)' /\ ArchiveOrdered'
  BY <1>1, <1>2, <1>6, KnownStays, ArchiveStays
<1>8. TurnKnown'
  BY <1>1, <1>2 DEF TurnKnown
<1> QED
  BY <1>1, <1>7, <1>8 DEF ObservationIInv, InTime

LEMMA LiveObserverFailsKeeps == ASSUME ObservationIInv, LiveObserverFails PROVE ObservationIInv'
<1> PICK d : d = db
  OBVIOUS
<1>1. /\ phase = "saved" /\ UNCHANGED <<archive, clock, skewed, db>> /\ faults' \in 0..MaxFaults
      /\ StoreKnown(d) /\ ArchiveOrdered /\ turn.saved /\ turn \in Turns /\ turn.message \in UserRecord
  BY ObservationTimes DEF LiveObserverFails, ObservationIInv, ArchiveOrdered, TurnKnown
<1>2. CASE turn.early
  <2>1. EnterPage("idle") /\ turn' \in Turns
    BY <1>2, NoTurnTyped DEF LiveObserverFails, Discard
  <2> QED
    BY <1>1, <2>1, EnterPageKeeps
<1>3. CASE ~turn.early
  <2>1. phase' = "reply" /\ turn' = turn
    BY <1>3 DEF LiveObserverFails
  <2>2. StoreKnown(d)' /\ ArchiveOrdered'
    BY <1>1, KnownStays, ArchiveStays
  <2>3. TurnKnown'
    BY <1>1, <2>1 DEF TurnKnown
  <2> QED
    BY <1>1, <2>1, <2>2, <2>3 DEF ObservationIInv, InTime
<1> QED
  BY <1>2, <1>3

\* An action is evidence beside what there is.
LEMMA ActOnRequestKeeps == ASSUME ObservationIInv, ActOnRequest PROVE ObservationIInv'
<1> PICK d : d = db
  OBVIOUS
<1> PICK x : x = Event("action", Len(archive) + 1, turn.message.at + 1, TRUE)
  OBVIOUS
<1> PICK all : all = d.events \cup {x}
  OBVIOUS
<1> PICK q : q = db'
  OBVIOUS
<1>1. /\ StoreKnown(d) /\ ArchiveOrdered /\ faults \in 0..MaxFaults /\ turn \in Turns /\ d \in Stores
      /\ turn.message \in UserRecord /\ phase = "thinking" /\ ~turn.saved /\ phase' = "reply"
      /\ UNCHANGED <<archive, clock, skewed, page, faults>>
      /\ skewed \/ (turn.message.at = clock /\ \A i \in Users : archive[i].at < clock)
  BY DEF ActOnRequest, ObservationIInv, ArchiveOrdered, TurnKnown, StoreKnown, Covered
<1>2. x \in Evidence /\ x.kind = "action"
  <2> PICK n : n = Len(archive) + 1
    OBVIOUS
  <2> PICK at : at = turn.message.at + 1
    OBVIOUS
  <2>1. n \in Nat /\ at \in Nat
    BY <1>1, ObservationTimes DEF ArchiveOrdered, UserRecord
  <2> QED
    BY <2>1 DEF Event, Evidence
<1>3. all \in SUBSET Evidence
  BY <1>1, <1>2 DEF Stores
<1>4. q = [d EXCEPT !.events = all]
  BY DEF ActOnRequest
<1>5. /\ q \in Stores /\ q.events = all /\ q.rows = d.rows /\ q.disposed = d.disposed
      /\ q.next = d.next /\ q.fact = d.fact /\ q.watermark = d.watermark /\ q.history = d.history
  BY <1>1, <1>3, <1>4 DEF Stores
<1>6. Grounded(q) /\ Disposed(q) /\ SlotKnown(q)
  <2>1. d.events \subseteq q.events /\ \A y \in q.events : y.kind = "continuity" => y \in d.events
    BY <1>2, <1>5
  <2>2. q.next["continuity"] = d.next["continuity"]
    BY <1>5
  <2> QED
    BY <1>1, <1>5, <2>1, <2>2, EvidenceBeside
<1>7. StoreKnown(q)
  <2>1. FactKnown(q)
    BY <1>1, <1>5, FactStays
  <2>2. Covered(q)
    BY <1>1, <1>5 DEF StoreKnown, Covered
  <2> QED
    BY <1>6, <2>1, <2>2 DEF StoreKnown
<1>8. StoreKnown(q)' /\ ArchiveOrdered' /\ db' = q
  BY <1>1, <1>7, KnownStays, ArchiveStays
<1>9. turn' \in Turns /\ turn'.message = turn.message /\ turn'.saved = turn.saved
  BY <1>1 DEF ActOnRequest, Turns
<1>10. TurnKnown'
  BY <1>1, <1>9 DEF TurnKnown, Users
<1> QED
  BY <1>1, <1>8, <1>10 DEF ObservationIInv, InTime

LEMMA SaveReplyKeeps == ASSUME ObservationIInv, SaveReply PROVE ObservationIInv'
<1> PICK d : d = db
  OBVIOUS
<1> PICK m : m = turn.message
  OBVIOUS
<1> PICK new : new = IF turn.saved THEN <<Reply>> ELSE <<m, Reply>>
  OBVIOUS
<1>1. /\ StoreKnown(d) /\ ArchiveOrdered /\ faults \in 0..MaxFaults /\ m \in UserRecord
      /\ phase = "reply" /\ phase' = "ended" /\ UNCHANGED <<clock, skewed, db, page, faults>>
      /\ archive' = archive \o new /\ turn' = NoTurn
      /\ turn.saved \/ skewed \/ (m.at = clock /\ \A i \in Users : archive[i].at < clock)
  BY DEF SaveReply, ObservationIInv, ArchiveOrdered, TurnKnown
<1>2. ArchiveOrdered' /\ StoreKnown(d)'
  BY <1>1, ArchiveExtended DEF Extended
<1> QED
  BY <1>1, <1>2, NoTurnTyped, Resting DEF InTime

LEMMA CrashKeeps == ASSUME ObservationIInv, Crash PROVE ObservationIInv'
<1> PICK d : d = db
  OBVIOUS
<1>1. /\ StoreKnown(d) /\ ArchiveOrdered /\ faults' \in 0..MaxFaults /\ phase' = "down"
      /\ turn' \in Turns /\ UNCHANGED <<archive, clock, skewed, db>>
  BY ObservationTimes, NoTurnTyped DEF Crash, ObservationIInv, ArchiveOrdered
<1>2. StoreKnown(d)' /\ ArchiveOrdered'
  BY <1>1, KnownStays, ArchiveStays
<1> QED
  BY <1>1, <1>2, Resting DEF InTime

LEMMA ObservationStutters ==
    ASSUME ObservationIInv, UNCHANGED observationVars PROVE ObservationIInv'
<1> USE DEF observationVars
<1> PICK d : d = db
  OBVIOUS
<1> PICK k : k = page.work
  OBVIOUS
<1>1. StoreKnown(d)' /\ ArchiveOrdered'
  BY KnownStays, ArchiveStays DEF ObservationIInv, ArchiveOrdered
<1>2. phase = "page" => StoreKnown(k)'
  BY KnownStays DEF ObservationIInv
<1>3. TurnKnown'
  BY DEF ObservationIInv, TurnKnown, Users
<1>4. StoreKnown(db)' /\ (phase' = "page" => page' \in Pages /\ StoreKnown(page.work)')
  BY <1>1, <1>2 DEF ObservationIInv
<1>5. InTime'
  BY DEF ObservationIInv, InTime
<1> QED
  BY <1>1, <1>3, <1>4, <1>5 DEF ObservationIInv

LEMMA NextObservationIInv ==
    ASSUME ObservationIInv, [ObservationNext]_observationVars PROVE ObservationIInv'
<1>1. CASE PageStep
  BY <1>1, ObserveRecordKeeps, ObserverFailsKeeps, PageEndsKeeps DEF PageStep
<1>2. CASE TurnStep
  BY <1>2, HearKeeps, SaveUserKeeps, ObserveLiveKeeps, ActOnRequestKeeps, SaveReplyKeeps, EntersKeep
     DEF TurnStep
<1>3. CASE Fault
  BY <1>3, ObserverFailsKeeps, PageEndsKeeps, DiscardKeeps, LiveObserverFailsKeeps, CrashKeeps,
     HearKeeps DEF Fault
<1>4. CASE Maintain \/ StartTurn \/ AbandonTurn \/ Restart
  BY <1>4, EntersKeep, DiscardKeeps
<1>5. CASE UNCHANGED observationVars
  BY <1>5, ObservationStutters
<1> QED
  BY <1>1, <1>2, <1>3, <1>4, <1>5 DEF ObservationNext

LEMMA InitObservationIInv == ASSUME ObservationInit PROVE ObservationIInv
<1> USE DEF ObservationInit
<1>1. ArchiveOrdered /\ Users = {}
  <2>1. archive = <<>> /\ Len(archive) = 0
    OBVIOUS
  <2>2. Users = {}
    BY <2>1 DEF Users
  <2>3. archive \in Seq(UserRecord \cup {Reply})
    BY <2>1
  <2>4. clock \in 0..MaxTime /\ faults \in 0..MaxFaults /\ skewed \in BOOLEAN
    <3>1. clock = 0 /\ faults = MaxFaults /\ skewed = FALSE
      OBVIOUS
    <3> QED
      <4>1. 0 \in 0..MaxTime /\ MaxFaults \in 0..MaxFaults
        BY ObservationTimes
      <4> QED
        BY <3>1, <4>1
  <2> QED
    BY <2>2, <2>3, <2>4 DEF ArchiveOrdered
<1>2. TurnKnown /\ InTime
  BY NoTurnTyped DEF TurnKnown, InTime
<1> PICK next : next = [c \in Consumers |-> 0]
  OBVIOUS
<1>3. next \in [Consumers -> Nat] /\ \A c \in Consumers : next[c] = 0
  OBVIOUS
<1> PICK d : d = db
  OBVIOUS
<1>4. d = [events |-> {}, fact |-> NoValue, watermark |-> 0, rows |-> {}, scope |-> "real",
           next |-> next, history |-> {}, disposed |-> {}]
  BY DEF EmptyStore
<1>5. d \in Stores
  BY <1>3, <1>4 DEF Stores, Scopes
<1>6. Covered(d)
  BY <1>3, <1>4, <1>5 DEF Covered, Consumers
<1>7. FactKnown(d)
  <2>1. Asserts(0) = {}
    BY DEF Asserts, Spoken
  <2>2. FactIs(d.fact, 0)
    BY <1>4, <2>1 DEF FactIs
  <2>3. d.next["durable"] = 0
    BY <1>3, <1>4 DEF Consumers
  <2> QED
    BY <1>1, <1>4, <2>2, <2>3 DEF FactKnown
<1>8. Grounded(d) /\ Disposed(d)
  BY <1>3, <1>4 DEF Grounded, Disposed, Consumers
<1>9. SlotKnown(d)
  <2>1. \A s \in Scopes : Applied(d, s) = {} /\ OpenSince(d, s) = {}
    BY <1>4 DEF Applied, OpenSince
  <2> QED
    BY <2>1 DEF SlotKnown, NewestOpen
<1> QED
  BY <1>1, <1>2, <1>6, <1>7, <1>8, <1>9 DEF ObservationIInv, StoreKnown

-----------------------------------------------------------------------------
(* What the runs check of canonical observation.                           *)

\* The inductive invariant holds throughout.
THEOREM ObservationInductive == ObservationSpec => []ObservationIInv
<1>1. ObservationInit => ObservationIInv
  BY InitObservationIInv
<1>2. ObservationIInv /\ [ObservationNext]_observationVars => ObservationIInv'
  BY NextObservationIInv
<1> QED
  BY <1>1, <1>2, PTL DEF ObservationSpec

LEMMA NewestIsMax ==
    ASSUME NEW S \in SUBSET Nat, NEW x \in S, \A y \in S : y <= x
    PROVE  Max(S) = x
<1>1. \A z \in S : (\A y \in S : z >= y) => z = x
  OBVIOUS
<1>2. \A y \in S : x >= y
  OBVIOUS
<1> QED
  BY <1>1, <1>2 DEF Max

\* The value of a store is the one an archive prefix amounts to.
LEMMA FactIsValue ==
    ASSUME NEW n \in Nat, NEW fact, FactIs(fact, n) PROVE fact = DurableValue(n)
<1>1. DurableValue(n) =
          IF Asserts(n) = {} THEN NoValue
          ELSE IF \E i \in Spoken(n) : /\ i > Max(Asserts(n))
                                       /\ Retired(archive[i].says)
                                             = Asserted(archive[Max(Asserts(n))].says)
               THEN NoValue ELSE Asserted(archive[Max(Asserts(n))].says)
  BY DEF DurableValue, Asserts, Spoken
<1>2. CASE Asserts(n) = {}
  BY <1>1, <1>2 DEF FactIs
<1>3. CASE Asserts(n) # {}
  <2>1. PICK last \in Asserts(n) :
          /\ \A i \in Asserts(n) : i <= last
          /\ fact = IF \E i \in Spoken(n) : i > last /\ Retired(archive[i].says)
                                                           = Asserted(archive[last].says)
                    THEN NoValue ELSE Asserted(archive[last].says)
    BY <1>3 DEF FactIs
  <2>2. Asserts(n) \in SUBSET Nat
    BY DEF Asserts, Spoken
  <2>3. Max(Asserts(n)) = last
    BY <2>1, <2>2, NewestIsMax
  <2> QED
    BY <1>1, <1>3, <2>1, <2>3
<1> QED
  BY <1>2, <1>3

\* The invariant gives the types of the observation model.
LEMMA ObservationTyped == ASSUME ObservationIInv PROVE ObservationTypeOK
<1>1. db \in Stores /\ (\A c \in Consumers : db.next[c] \in 0..Len(archive))
      /\ db.history \subseteq 1..Len(archive) /\ db.next \in [Consumers -> Nat]
  BY DEF ObservationIInv, StoreKnown, Covered, Stores, ArchiveOrdered
<1>2. db.next \in [Consumers -> 0..Len(archive)]
  BY <1>1
<1>3. \A i \in DOMAIN archive : archive[i] \in UserRecord \cup {Reply}
  BY DEF ObservationIInv, ArchiveOrdered
<1>4. turn.message \in UserRecord \cup {NoMessage}
  BY DEF ObservationIInv, TurnKnown, Turns
<1>5. db.scope \in Scopes /\ db.fact \in {"A", "B", NoValue} /\ db.rows \subseteq SlotRows
  BY <1>1 DEF Stores
<1> QED
  BY <1>1, <1>2, <1>3, <1>4, <1>5
     DEF ObservationTypeOK, ObservationIInv, ArchiveOrdered, TurnKnown, SlotRows

\* The invariant gives the slot's value.
LEMMA ObservationSlot == ASSUME ObservationIInv PROVE SlotFollowsEvidence
<1> SUFFICES ASSUME ~skewed, NEW s \in Scopes
             PROVE  OpenSince(db, s) = IF Applied(db, s) = {} THEN {}
                                       ELSE {Max({e.at : e \in Applied(db, s)})}
  BY DEF SlotFollowsEvidence, OpenSince, Applied
<1> PICK A : A = Applied(db, s)
  OBVIOUS
<1> PICK F : F = OpenSince(db, s)
  OBVIOUS
<1>1. NewestOpen(A, F)
  BY DEF ObservationIInv, StoreKnown, SlotKnown
<1>2. \A e \in A : e.at \in Nat
  BY DEF Applied, ObservationIInv, StoreKnown, Covered, Stores, Evidence
<1>3. CASE A = {}
  BY <1>1, <1>3 DEF NewestOpen
<1>4. CASE A # {}
  <2>1. PICK e \in A : F = {e.at} /\ \A f \in A : f.at <= e.at
    BY <1>1, <1>4 DEF NewestOpen
  <2> PICK S : S = {f.at : f \in A}
    OBVIOUS
  <2>2. S \in SUBSET Nat /\ e.at \in S /\ \A y \in S : y <= e.at
    BY <1>2, <2>1
  <2>3. Max(S) = e.at
    BY <2>2, NewestIsMax
  <2> QED
    BY <1>4, <2>1, <2>3
<1> QED
  BY <1>3, <1>4

\* The invariant gives what lies behind the cursors.
LEMMA ObservationSettled == ASSUME ObservationIInv PROVE CursorMeansSettled
<1>1. db.next["durable"] \in Nat
  BY DEF ObservationIInv, StoreKnown, Covered, Stores, Consumers
<1>2. ~skewed => db.fact = DurableValue(db.next["durable"])
  BY <1>1, FactIsValue DEF ObservationIInv, StoreKnown, FactKnown
<1> QED
  BY <1>2 DEF CursorMeansSettled, ObservationIInv, StoreKnown, Disposed

\* The invariant gives what a lookup may claim.
LEMMA ObservationHonest == ASSUME ObservationIInv PROVE LookupIsHonest
<1> SUFFICES ASSUME LookupComplete
             PROVE  /\ 1..Required \subseteq db.history
                    /\ ~skewed => db.fact = DurableValue(Required)
  BY DEF LookupIsHonest
<1> PICK n : n = db.next["durable"]
  OBVIOUS
<1> PICK h : h = db.next["history"]
  OBVIOUS
<1> PICK all : all = Len(archive)
  OBVIOUS
<1>1. /\ n \in Nat /\ h \in Nat /\ all \in Nat /\ n <= all /\ h <= all
      /\ 1..h \subseteq db.history
  BY DEF ObservationIInv, StoreKnown, Covered, Stores, Consumers, ArchiveOrdered
<1>2. n >= Required /\ h >= Required
  BY DEF LookupComplete
<1>3. Unanswered => all > 0
  BY DEF Unanswered, ObservationIInv, ArchiveOrdered
<1>4. Required = (IF Unanswered THEN all - 1 ELSE all) /\ Required \in Nat
  BY <1>1, <1>3 DEF Required
<1>5. 1..Required \subseteq db.history
  BY <1>1, <1>2, <1>4
<1>6. ASSUME ~skewed PROVE db.fact = DurableValue(Required)
  <2>1. FactIs(db.fact, n)
    BY <1>6 DEF ObservationIInv, StoreKnown, FactKnown
  <2>2. CASE n = Required
    BY <1>1, <2>1, <2>2, FactIsValue
  <2>3. CASE n # Required
    <3>1. Unanswered /\ n = all /\ n > 0 /\ Required = n - 1
      BY <1>1, <1>2, <1>3, <1>4, <2>3
    <3>2. n \in Users /\ archive[n].scope # "real"
      <4>1. n \in Users
        BY <1>1, <3>1 DEF Unanswered, Users
      <4> QED
        BY <3>1, <4>1 DEF ObservationIInv, StoreKnown, FactKnown
    <3>3. Spoken(n) = Spoken(n - 1)
      <4>1. 1..n = 1..(n - 1) \cup {n}
        BY <1>1, <3>1
      <4> QED
        BY <3>2, <4>1 DEF Spoken
    <3>4. FactIs(db.fact, n - 1)
      BY <2>1, <3>3 DEF FactIs, Asserts
    <3> QED
      BY <1>4, <3>1, <3>4, FactIsValue
  <2> QED
    BY <2>2, <2>3
<1> QED
  BY <1>5, <1>6

\* Every state of the canonical observation has its types.
THEOREM ObservationTypes == ObservationSpec => []ObservationTypeOK
  BY ObservationInductive, ObservationTyped, PTL

\* However messages, pages, failures and crashes interleave, and as long as the
\* clock is not set back, each activity slot holds one open value, that of the
\* newest statement applied to it (set_active_state, _state_replay_guard).
THEOREM ObservationSlots == ObservationSpec => []SlotFollowsEvidence
  BY ObservationInductive, ObservationSlot, PTL

\* What lies behind a consumer's cursor took effect: the durable value is the
\* one the answered records amount to, and each change of the continuity state
\* was applied or gave way to newer evidence (CanonicalObservationRecovery).
THEOREM ObservationCursors == ObservationSpec => []CursorMeansSettled
  BY ObservationInductive, ObservationSettled, PTL

\* A lookup of a turn that reports complete evidence reads rows that reflect
\* every record it answers for (lookup_health).
THEOREM ObservationLookups == ObservationSpec => []LookupIsHonest
  BY ObservationInductive, ObservationHonest, PTL

-----------------------------------------------------------------------------
(* The schedule of check-ins.                                              *)

Told     == [by : {"user", "companion"}, at : 1..Horizon, kept : BOOLEAN, about : 0..Horizon,
             says : {"plain", "mention", "resolve", "check-in"}]
Receipts == [at : 1..Horizon, answered : 0..Horizon]
Tries    == [at : 0..Horizon, outcome : {"published", "failed", "interrupted"}]
Drafts   == [step : {"none", "read", "drafting"}, at : 0..Horizon, thread : 0..Horizon]

CheckInShapes ==
    /\ now \in 1..Horizon /\ thread \in 0..Horizon /\ lapses \in 0..MaxLapses
    /\ talk \in Seq(Told) /\ receipts \in Seq(Receipts) /\ attempts \in Seq(Tries)
    /\ draft \in Drafts

\* The conversation is kept in the order of its times.
TalkOrdered ==
    \A j \in DOMAIN talk : /\ talk[j].at <= now
                           /\ \A i \in 1..j : talk[i].at <= talk[j].at

\* The open thread is as old as the user's last word on it.
ThreadMentioned ==
    thread # 0 => \E u \in DOMAIN talk : LastWord(u, Len(talk) + 1) /\ talk[u].at = thread

\* The receipts are those of the check-ins with one, newest first; one is
\* answered when a turn that ended well came after it.
Kept == {j \in DOMAIN talk : CheckIn(j) /\ talk[j].kept}
Answered(j) == \E k \in j..Len(talk) : User(k) /\ talk[k].kept

ReceiptOf(k, j) == talk[j].at = receipts[k].at /\ (receipts[k].answered # 0 <=> Answered(j))
NewestFirst(place) ==
    /\ \A k, l \in DOMAIN receipts : k < l => place[l] < place[k]
    /\ \A j \in Kept : \E k \in DOMAIN receipts : place[k] = j
    /\ \A k \in DOMAIN receipts : ReceiptOf(k, place[k])
ReceiptsTold == \E place \in [1..Len(receipts) -> Kept] : NewestFirst(place)

\* What is earned of the i-th record.
AnsweredBefore(i) == {j \in 1..(i - 1) : /\ CheckIn(j) /\ talk[j].kept
                                         /\ \E k \in j..i : User(k) /\ talk[k].kept}
Paused(n) == Greatest(Interval * 2 ^ Least(n + 1, 5), AwayFloor(n))
EarnedAt(i) ==
    /\ \E u \in 1..(i - 1) : /\ LastWord(u, i) /\ talk[u].at = talk[i].about
                             /\ talk[i].at >= talk[u].at + ThreadDelay
    /\ \A u \in 1..(i - 1) : User(u) => talk[i].at >= talk[u].at + Interval
    /\ UnansweredBefore(i) # {} =>
           talk[i].at >= talk[Max(UnansweredBefore(i))].at + Paused(Cardinality(UnansweredBefore(i)))
    /\ AnsweredBefore(i) # {} =>
           \E u \in Max(AnsweredBefore(i))..i : User(u) /\ talk[u].says = "mention"
EarnedAll == \A i \in DOMAIN talk : CheckIn(i) => EarnedAt(i)

\* The distance to the attempts that failed before it.
BackedOff(i) ==
    FailuresBefore(i) # {} =>
        talk[i].at >= attempts[Min(FailuresBefore(i))].at + BackOffAfter(Cardinality(FailuresBefore(i)))
RestedAll == \A i \in DOMAIN talk : CheckIn(i) => BackedOff(i)

\* The attempts are read newest first: none comes before one further down, the
\* published ones are no later than what they published, and a draft claimed
\* its turn after everything that was said or tried.
AttemptsOrdered ==
    /\ \A a \in DOMAIN attempts :
          /\ attempts[a].at <= now
          /\ \A b \in 1..a : attempts[a].at <= attempts[b].at
          /\ attempts[a].outcome = "published" => \E j \in DOMAIN talk : attempts[a].at <= talk[j].at
    /\ draft.step = "drafting" =>
          /\ draft.at <= now
          /\ \A j \in DOMAIN talk : talk[j].at <= draft.at
          /\ \A a \in DOMAIN attempts : attempts[a].at <= draft.at

CheckInIInv ==
    /\ CheckInShapes /\ TalkOrdered /\ ThreadMentioned /\ ReceiptsTold
    /\ EarnedAll /\ RestedAll /\ AttemptsOrdered

LEMMA EarnedEach == CheckInsEarned <=> EarnedAll /\ RestedAll
  BY DEF CheckInsEarned, EarnedAll, EarnedAt, AnsweredBefore, Paused, RestedAll, BackedOff

\* A set of numbers with a bound has a greatest.
LEMMA BoundedMax ==
    ASSUME NEW N \in Nat, NEW S \in SUBSET (0..N), S # {}
    PROVE  Max(S) \in S /\ \A x \in S : x <= Max(S)
<1> PICK T : T = {N - x : x \in S}
  OBVIOUS
<1>1. T \subseteq Nat /\ T # {}
  <2>1. \A x \in S : N - x \in Nat
    OBVIOUS
  <2> QED
    BY <2>1
<1>2. PICK t \in T : \A y \in T : ~(<<y, t>> \in OpToRel(<, Nat))
  BY <1>1, NatLessThanWellFounded, WFMin
<1>3. \A y \in T : t <= y
  <2>1. ASSUME NEW y \in T, y < t PROVE FALSE
    <3>1. <<y, t>> \in OpToRel(<, Nat)
      BY <1>1, <2>1 DEF OpToRel
    <3> QED
      BY <1>2, <3>1
  <2> QED
    BY <1>1, <2>1
<1>4. PICK s \in S : t = N - s
  OBVIOUS
<1>5. \A x \in S : x <= s /\ x \in Nat
  <2>1. ASSUME NEW x \in S PROVE x <= s /\ x \in Nat
    <3>1. N - x \in T /\ x \in 0..N /\ s \in 0..N
      OBVIOUS
    <3>2. N - s <= N - x
      BY <1>3, <1>4, <3>1
    <3> QED
      BY <3>1, <3>2
  <2> QED
    BY <2>1
<1>6. \E z \in S : \A y \in S : z >= y
  BY <1>5
<1> QED
  BY <1>5, <1>6 DEF Max

\* And a least.
LEMMA BoundedMin ==
    ASSUME NEW N \in Nat, NEW S \in SUBSET (0..N), S # {}
    PROVE  Min(S) \in S /\ \A x \in S : Min(S) <= x
<1>1. S \subseteq Nat
  OBVIOUS
<1>2. PICK s \in S : \A y \in S : ~(<<y, s>> \in OpToRel(<, Nat))
  BY <1>1, NatLessThanWellFounded, WFMin
<1>3. \A y \in S : s <= y
  <2>1. ASSUME NEW y \in S, y < s PROVE FALSE
    <3>1. <<y, s>> \in OpToRel(<, Nat)
      BY <1>1, <2>1 DEF OpToRel
    <3> QED
      BY <1>2, <3>1
  <2> QED
    BY <1>1, <2>1
<1>4. \E z \in S : \A y \in S : z <= y
  BY <1>3
<1> QED
  BY <1>4 DEF Min

\* What is found in a list is found one further when a row is put before it.
Onward(S) == {a + 1 : a \in S}

LEMMA Shifted ==
    ASSUME NEW m \in Nat, NEW S \in SUBSET (1..m)
    PROVE  /\ Onward(S) # {} <=> S # {}
           /\ Cardinality(Onward(S)) = Cardinality(S)
           /\ S # {} => Min(S) \in 1..m /\ Min(Onward(S)) = Min(S) + 1
<1> PICK T : T = {a + 1 : a \in S}
  OBVIOUS
<1>1. (T # {} <=> S # {}) /\ Onward(S) = T
  BY DEF Onward
<1>2. Cardinality(T) = Cardinality(S)
  <2> PICK f : f = [a \in S |-> a + 1]
    OBVIOUS
  <2>1. f \in [S -> T]
    OBVIOUS
  <2>2. \A t \in T : \E a \in S : f[a] = t
    OBVIOUS
  <2>3. \A a, b \in S : f[a] = f[b] => a = b
    OBVIOUS
  <2>4. f \in Bijection(S, T)
    BY <2>1, <2>2, <2>3 DEF Bijection, Injection, Surjection, IsInjective
  <2>5. ExistsBijection(S, T)
    BY <2>4 DEF ExistsBijection
  <2>6. IsFiniteSet(S)
    <3>1. IsFiniteSet(1..m)
      BY FS_Interval
    <3> QED
      BY <3>1, FS_Subset
  <2> QED
    BY <2>5, <2>6, FS_Bijection
<1>3. ASSUME S # {} PROVE Min(S) \in 1..m /\ Min(T) = Min(S) + 1
  <2>1. S \in SUBSET (0..m) /\ T \in SUBSET (0..(m + 1)) /\ m + 1 \in Nat /\ T # {}
    <3>1. \A a \in S : a \in 1..m /\ a \in 0..m /\ a + 1 \in 0..(m + 1)
      OBVIOUS
    <3>2. \A t \in T : t \in 0..(m + 1)
      BY <3>1
    <3>3. m + 1 \in Nat
      OBVIOUS
    <3> QED
      BY <1>1, <1>3, <3>1, <3>2, <3>3
  <2>2. Min(S) \in S /\ \A x \in S : Min(S) <= x
    BY <1>3, <2>1, BoundedMin
  <2>3. Min(T) \in T /\ \A x \in T : Min(T) <= x
    BY <2>1, BoundedMin
  <2> PICK s : s = Min(S)
    OBVIOUS
  <2> PICK t : t = Min(T)
    OBVIOUS
  <2>4. s \in S /\ s \in 1..m /\ s + 1 \in T /\ t <= s + 1
    BY <2>2, <2>3
  <2>5. PICK a \in S : t = a + 1
    BY <2>3
  <2>6. s <= a /\ a \in 1..m
    BY <2>2, <2>5
  <2>7. t = s + 1
    BY <2>4, <2>5, <2>6
  <2> QED
    BY <2>4, <2>7
<1> QED
  BY <1>1, <1>2, <1>3

\* A failed attempt more never shortens the distance to the last one.
LEMMA BackOffGrows ==
    ASSUME NEW n \in Nat \ {0}, NEW k \in Nat, n <= k
    PROVE  /\ BackOffAfter(n) \in Nat /\ BackOffAfter(k) \in Nat
           /\ BackOffAfter(n) <= BackOffAfter(k)
<1> USE CheckInAssumption DEF CheckInAssumption
<1>1. \A a, b \in Nat : /\ Least(a, b) = IF a <= b THEN a ELSE b
                        /\ Greatest(a, b) = IF a >= b THEN a ELSE b
  <2>1. ASSUME NEW a \in Nat, NEW b \in Nat PROVE /\ Least(a, b) = IF a <= b THEN a ELSE b
                                                  /\ Greatest(a, b) = IF a >= b THEN a ELSE b
    BY DEF Least, Greatest, Min, Max
  <2> QED
    BY <2>1
<1> PICK g : g = Greatest(Interval, MinBackOff)
  OBVIOUS
<1>2. g \in Nat /\ MaxBackOff \in Nat
  BY <1>1
<1> DEFINE E(x) == g * 2 ^ Least(x - 1, 4)
<1>3. \A x \in Nat \ {0} : E(x) = IF x = 1 THEN g ELSE IF x = 2 THEN g * 2
                                  ELSE IF x = 3 THEN g * 4 ELSE IF x = 4 THEN g * 8 ELSE g * 16
  <2>1. ASSUME NEW x \in Nat \ {0}
        PROVE  E(x) = IF x = 1 THEN g ELSE IF x = 2 THEN g * 2
                      ELSE IF x = 3 THEN g * 4 ELSE IF x = 4 THEN g * 8 ELSE g * 16
    <3>1. CASE x = 1
      <4>1. Least(x - 1, 4) = 0
        BY <1>1, <3>1
      <4>2. 2 ^ Least(x - 1, 4) = 1
        <5>1. 2 ^ 0 = 1
          OBVIOUS
        <5>2. 2 ^ Least(x - 1, 4) = 2 ^ 0
          BY <4>1, Zenon
        <5> QED
          BY <5>1, <5>2
      <4> QED
        BY <1>2, <3>1, <4>2
    <3>2. CASE x = 2
      <4>1. Least(x - 1, 4) = 1
        BY <1>1, <3>2
      <4>2. 2 ^ Least(x - 1, 4) = 2
        <5>1. 2 ^ 1 = 2
          OBVIOUS
        <5>2. 2 ^ Least(x - 1, 4) = 2 ^ 1
          BY <4>1, Zenon
        <5> QED
          BY <5>1, <5>2
      <4> QED
        BY <1>2, <3>2, <4>2
    <3>3. CASE x = 3
      <4>1. Least(x - 1, 4) = 2
        BY <1>1, <3>3
      <4>2. 2 ^ Least(x - 1, 4) = 4
        <5>1. 2 ^ 2 = 4
          OBVIOUS
        <5>2. 2 ^ Least(x - 1, 4) = 2 ^ 2
          BY <4>1, Zenon
        <5> QED
          BY <5>1, <5>2
      <4> QED
        BY <1>2, <3>3, <4>2
    <3>4. CASE x = 4
      <4>1. Least(x - 1, 4) = 3
        BY <1>1, <3>4
      <4>2. 2 ^ Least(x - 1, 4) = 8
        <5>1. 2 ^ 3 = 8
          OBVIOUS
        <5>2. 2 ^ Least(x - 1, 4) = 2 ^ 3
          BY <4>1, Zenon
        <5> QED
          BY <5>1, <5>2
      <4> QED
        BY <1>2, <3>4, <4>2
    <3>5. CASE x \notin {1, 2, 3, 4}
      <4>1. Least(x - 1, 4) = 4
        BY <1>1, <3>5
      <4>2. 2 ^ Least(x - 1, 4) = 16
        <5>1. 2 ^ 4 = 16
          OBVIOUS
        <5>2. 2 ^ Least(x - 1, 4) = 2 ^ 4
          BY <4>1, Zenon
        <5> QED
          BY <5>1, <5>2
      <4> QED
        BY <1>2, <3>5, <4>2
    <3> QED
      BY <3>1, <3>2, <3>3, <3>4, <3>5
  <2> QED
    BY <2>1
<1>4. k \in Nat \ {0} /\ n \in Nat \ {0}
  OBVIOUS
<1>5. BackOffAfter(n) = Least(MaxBackOff, E(n)) /\ BackOffAfter(k) = Least(MaxBackOff, E(k))
  BY DEF BackOffAfter
<1> HIDE DEF E
<1>6. E(n) \in Nat /\ E(k) \in Nat /\ E(n) <= E(k)
  BY <1>2, <1>3, <1>4
<1> QED
  BY <1>1, <1>2, <1>5, <1>6

\* The streaks of the pause: an ignored check-in more never shortens it.
LEMMA CoolDownGrows ==
    ASSUME NEW n \in Nat \ {0}, NEW k \in Nat, n <= k
    PROVE  /\ Greatest(Interval * 2 ^ Least(n + 1, 5), AwayFloor(n)) \in Nat
           /\ Greatest(Interval * 2 ^ Least(k + 1, 5), AwayFloor(k)) \in Nat
           /\ Greatest(Interval * 2 ^ Least(n + 1, 5), AwayFloor(n))
                 <= Greatest(Interval * 2 ^ Least(k + 1, 5), AwayFloor(k))
<1> USE CheckInAssumption DEF CheckInAssumption
<1>1. \A a, b \in Nat : /\ Least(a, b) = IF a <= b THEN a ELSE b
                        /\ Greatest(a, b) = IF a >= b THEN a ELSE b
  <2>1. ASSUME NEW a \in Nat, NEW b \in Nat PROVE /\ Least(a, b) = IF a <= b THEN a ELSE b
                                                  /\ Greatest(a, b) = IF a >= b THEN a ELSE b
    BY DEF Least, Greatest, Min, Max
  <2> QED
    BY <2>1
<1> DEFINE D(x) == Interval * 2 ^ Least(x + 1, 5)
           W(x) == AwayFloor(x)
<1>2. \A x \in Nat \ {0} : D(x) = IF x = 1 THEN Interval * 4 ELSE IF x = 2 THEN Interval * 8
                                  ELSE IF x = 3 THEN Interval * 16 ELSE Interval * 32
  <2>1. ASSUME NEW x \in Nat \ {0}
        PROVE  D(x) = IF x = 1 THEN Interval * 4 ELSE IF x = 2 THEN Interval * 8
                      ELSE IF x = 3 THEN Interval * 16 ELSE Interval * 32
    <3>1. CASE x = 1
      <4>1. Least(x + 1, 5) = 2
        BY <1>1, <3>1
      <4>2. 2 ^ Least(x + 1, 5) = 4
        <5>1. 2 ^ 2 = 4
          OBVIOUS
        <5>2. 2 ^ Least(x + 1, 5) = 2 ^ 2
          BY <4>1, Zenon
        <5> QED
          BY <5>1, <5>2
      <4> QED
        BY <3>1, <4>2
    <3>2. CASE x = 2
      <4>1. Least(x + 1, 5) = 3
        BY <1>1, <3>2
      <4>2. 2 ^ Least(x + 1, 5) = 8
        <5>1. 2 ^ 3 = 8
          OBVIOUS
        <5>2. 2 ^ Least(x + 1, 5) = 2 ^ 3
          BY <4>1, Zenon
        <5> QED
          BY <5>1, <5>2
      <4> QED
        BY <3>2, <4>2
    <3>3. CASE x = 3
      <4>1. Least(x + 1, 5) = 4
        BY <1>1, <3>3
      <4>2. 2 ^ Least(x + 1, 5) = 16
        <5>1. 2 ^ 4 = 16
          OBVIOUS
        <5>2. 2 ^ Least(x + 1, 5) = 2 ^ 4
          BY <4>1, Zenon
        <5> QED
          BY <5>1, <5>2
      <4> QED
        BY <3>3, <4>2
    <3>4. CASE x \notin {1, 2, 3}
      <4>1. Least(x + 1, 5) = 5
        BY <1>1, <3>4
      <4>2. 2 ^ Least(x + 1, 5) = 32
        <5>1. 2 ^ 5 = 32
          OBVIOUS
        <5>2. 2 ^ Least(x + 1, 5) = 2 ^ 5
          BY <4>1, Zenon
        <5> QED
          BY <5>1, <5>2
      <4> QED
        BY <3>4, <4>2
    <3> QED
      BY <3>1, <3>2, <3>3, <3>4
  <2> QED
    BY <2>1
<1>3. \A x \in Nat \ {0} : W(x) = IF x = 1 THEN AwayUnit * 1 ELSE IF x = 2 THEN AwayUnit * 3
                                  ELSE IF x = 3 THEN AwayUnit * 6 ELSE IF x = 4 THEN AwayUnit * 12
                                  ELSE AwayUnit * 24
  <2>1. ASSUME NEW x \in Nat \ {0}
        PROVE  W(x) = IF x = 1 THEN AwayUnit * 1 ELSE IF x = 2 THEN AwayUnit * 3
                      ELSE IF x = 3 THEN AwayUnit * 6 ELSE IF x = 4 THEN AwayUnit * 12
                      ELSE AwayUnit * 24
    <3>1. Least(x, 5) = IF x <= 5 THEN x ELSE 5
      BY <1>1
    <3>2. AwayFloor(x) = AwayUnit * <<0, 1, 3, 6, 12, 24>>[Least(x, 5) + 1]
      BY DEF AwayFloor
    <3>3. CASE x = 1
      BY <3>1, <3>2, <3>3
    <3>4. CASE x = 2
      BY <3>1, <3>2, <3>4
    <3>5. CASE x = 3
      BY <3>1, <3>2, <3>5
    <3>6. CASE x = 4
      BY <3>1, <3>2, <3>6
    <3>7. CASE x \notin {1, 2, 3, 4}
      <4>1. Least(x, 5) + 1 = 6
        BY <3>1, <3>7
      <4> QED
        BY <3>2, <3>7, <4>1
    <3> QED
      BY <3>3, <3>4, <3>5, <3>6, <3>7
  <2> QED
    BY <2>1
<1>4. Interval \in Nat /\ AwayUnit \in Nat /\ k \in Nat \ {0} /\ n \in Nat \ {0}
  OBVIOUS
<1> HIDE DEF D, W
<1>5. D(n) \in Nat /\ D(k) \in Nat /\ D(n) <= D(k)
  BY <1>2, <1>4
<1>6. W(n) \in Nat /\ W(k) \in Nat /\ W(n) <= W(k)
  BY <1>3, <1>4
<1>7. Greatest(D(n), W(n)) \in Nat /\ Greatest(D(k), W(k)) \in Nat
      /\ Greatest(D(n), W(n)) <= Greatest(D(k), W(k))
  BY <1>1, <1>5, <1>6
<1> QED
  BY <1>7 DEF D, W


-----------------------------------------------------------------------------
(* A record is added to the conversation.                                  *)

Says(r) == talk' = Append(talk, r)

LEMMA RecordAdded ==
    ASSUME CheckInShapes, NEW r \in Told, Says(r), NEW n, n = Len(talk)
    PROVE  /\ n \in Nat /\ Len(talk') = n + 1 /\ talk' \in Seq(Told)
           /\ DOMAIN talk = 1..n /\ DOMAIN talk' = 1..(n + 1)
           /\ \A i \in 1..n : talk[i] \in Told /\ talk'[i] = talk[i]
           /\ talk'[n + 1] = r
<1> PICK t : t = talk
  OBVIOUS
<1>1. t \in Seq(Told) /\ n = Len(t) /\ talk' = Append(t, r)
  BY DEF CheckInShapes, Says
<1>2. n \in Nat /\ DOMAIN t = 1..n /\ \A i \in 1..n : t[i] \in Told
  BY <1>1
<1>3. /\ Append(t, r) \in Seq(Told) /\ Len(Append(t, r)) = n + 1
      /\ \A i \in 1..n : Append(t, r)[i] = t[i]
      /\ Append(t, r)[n + 1] = r
  BY <1>1
<1>4. DOMAIN Append(t, r) = 1..(n + 1)
  BY <1>3
<1> QED
  BY <1>1, <1>2, <1>3, <1>4

\* What was earned stays so.
LEMMA EarnedStays ==
    ASSUME NEW n \in Nat, \A i \in 1..n : talk'[i] = talk[i], NEW i \in 1..n, EarnedAt(i)
    PROVE  EarnedAt(i)'
<1>1. \A j \in 1..i : talk'[j] = talk[j] /\ (User(j)' <=> User(j)) /\ (CheckIn(j)' <=> CheckIn(j))
  BY DEF User, CheckIn
<1>2. UnansweredBefore(i)' = UnansweredBefore(i)
  <2>1. \A j \in 1..(i - 1) : j \in 1..i /\ \A k \in j..i : k \in 1..i
    OBVIOUS
  <2> QED
    BY <1>1, <2>1 DEF UnansweredBefore
<1>3. AnsweredBefore(i)' = AnsweredBefore(i)
  <2>1. \A j \in 1..(i - 1) : j \in 1..i /\ \A k \in j..i : k \in 1..i
    OBVIOUS
  <2> QED
    BY <1>1, <2>1 DEF AnsweredBefore
<1> PICK S : S = UnansweredBefore(i)
  OBVIOUS
<1> PICK A : A = AnsweredBefore(i)
  OBVIOUS
<1>4. S \in SUBSET (0..i) /\ A \in SUBSET (0..i) /\ S \subseteq 1..(i - 1) /\ A \subseteq 1..(i - 1)
  BY DEF UnansweredBefore, AnsweredBefore
<1>5. (S # {} => Max(S) \in 1..(i - 1)) /\ (A # {} => Max(A) \in 1..(i - 1))
  <2>1. i \in Nat
    OBVIOUS
  <2>2. ASSUME S # {} PROVE Max(S) \in 1..(i - 1)
    BY <1>4, <2>1, <2>2, BoundedMax
  <2>3. ASSUME A # {} PROVE Max(A) \in 1..(i - 1)
    BY <1>4, <2>1, <2>3, BoundedMax
  <2> QED
    BY <2>2, <2>3
<1>6. talk'[i] = talk[i] /\ \A u \in 1..(i - 1) : u \in 1..i
  BY <1>1
<1>7. \E u \in 1..(i - 1) : /\ LastWord(u, i)' /\ talk'[u].at = talk'[i].about
                             /\ talk'[i].at >= talk'[u].at + ThreadDelay
  <2>1. PICK u \in 1..(i - 1) : /\ LastWord(u, i) /\ talk[u].at = talk[i].about
                                /\ talk[i].at >= talk[u].at + ThreadDelay
    BY DEF EarnedAt
  <2>2. \A w \in (u + 1)..(i - 1) : w \in 1..i /\ talk'[w] = talk[w]
    BY <1>1
  <2>3. LastWord(u, i)'
    BY <1>1, <1>6, <2>1, <2>2 DEF LastWord
  <2> QED
    BY <1>6, <2>1, <2>3
<1>8. \A u \in 1..(i - 1) : User(u)' => talk'[i].at >= talk'[u].at + Interval
  BY <1>1, <1>6 DEF EarnedAt
<1>9. S # {} => talk'[i].at >= talk'[Max(S)].at + Paused(Cardinality(S))
  BY <1>1, <1>5, <1>6 DEF EarnedAt
<1>10. A # {} => \E u \in Max(A)..i : User(u)' /\ talk'[u].says = "mention"
  <2>1. ASSUME A # {} PROVE \E u \in Max(A)..i : User(u)' /\ talk'[u].says = "mention"
    <3>1. PICK u \in Max(A)..i : User(u) /\ talk[u].says = "mention"
      BY <2>1 DEF EarnedAt
    <3>2. u \in 1..i
      BY <1>5, <2>1
    <3> QED
      BY <1>1, <3>1, <3>2
  <2> QED
    BY <2>1
<1> QED
  BY <1>2, <1>3, <1>7, <1>8, <1>9, <1>10 DEF EarnedAt, Paused


-----------------------------------------------------------------------------
(* A check-in that is published was earned.                                *)

Open     == {j \in 1..Len(talk) : CheckIn(j) /\ talk[j].kept
                                  /\ \A k \in j..Len(talk) : ~User(k)}
Resolved == {j \in 1..Len(talk) : CheckIn(j) /\ talk[j].kept /\ Answered(j)}

LEMMA ReceiptsHeld ==
    ASSUME CheckInIInv
    PROVE  /\ DOMAIN receipts = 1..Len(receipts) /\ Len(receipts) \in Nat
           /\ \A k \in DOMAIN receipts : receipts[k].at \in 1..Horizon /\ receipts[k].answered \in Nat
           /\ receipts # <<>> => 1 \in DOMAIN receipts /\ Head(receipts) = receipts[1]
           /\ DOMAIN talk = 1..Len(talk) /\ Len(talk) \in Nat
           /\ \A j \in DOMAIN talk : talk[j].at \in 1..Horizon /\ talk[j].at \in Nat
           /\ now \in Nat /\ Horizon \in Nat /\ thread \in Nat
<1> PICK t : t = talk
  OBVIOUS
<1> PICK r : r = receipts
  OBVIOUS
<1>1. t \in Seq(Told) /\ r \in Seq(Receipts) /\ Horizon \in Nat
  BY CheckInAssumption DEF CheckInIInv, CheckInShapes, CheckInAssumption
<1>2. DOMAIN r = 1..Len(r) /\ Len(r) \in Nat /\ \A k \in DOMAIN r : r[k] \in Receipts
  BY <1>1
<1>3. r # <<>> => 1 \in DOMAIN r /\ Head(r) = r[1]
  BY <1>1
<1>4. DOMAIN t = 1..Len(t) /\ Len(t) \in Nat /\ \A k \in DOMAIN t : t[k] \in Told
  BY <1>1
<1>5. now \in Nat /\ thread \in Nat
  BY <1>1 DEF CheckInIInv, CheckInShapes
<1>6. \A k \in DOMAIN r : r[k].at \in 1..Horizon /\ r[k].answered \in Nat
  BY <1>1, <1>2 DEF Receipts
<1>7. \A k \in DOMAIN t : t[k].at \in 1..Horizon /\ t[k].at \in Nat
  BY <1>1, <1>4 DEF Told
<1> QED
  BY <1>1, <1>2, <1>3, <1>4, <1>5, <1>6, <1>7

\* The user has been silent for the interval.
LEMMA QuietLongEnough ==
    ASSUME CheckInIInv, Eligible
    PROVE  \A u \in DOMAIN talk : User(u) => now >= talk[u].at + Interval
<1>1. Interval \in Nat /\ Horizon \in Nat
  BY CheckInAssumption DEF CheckInAssumption
<1> PICK S : S = UserTimes
  OBVIOUS
<1>2. S \in SUBSET (0..Horizon) /\ S # {} /\ now >= Max(S) + Interval
  BY ReceiptsHeld DEF UserTimes, Eligible, LatestUser
<1>3. \A x \in S : x <= Max(S) /\ Max(S) \in S
  BY <1>1, <1>2, BoundedMax
<1>4. \A u \in DOMAIN talk : User(u) => talk[u].at \in S
  BY DEF UserTimes, User
<1>5. ASSUME NEW u \in DOMAIN talk, User(u) PROVE now >= talk[u].at + Interval
  <2>1. talk[u].at \in Nat /\ Max(S) \in Nat /\ now \in Nat /\ talk[u].at <= Max(S)
    <3>1. talk[u].at \in S
      BY <1>4, <1>5
    <3>2. talk[u].at \in Nat /\ now \in Nat
      BY ReceiptsHeld
    <3>3. Max(S) \in Nat
      <4>1. Max(S) \in S
        BY <1>3, <3>1
      <4>2. \A x \in S : x \in Nat
        BY <1>1, <1>2
      <4> QED
        BY <4>1, <4>2
    <3> QED
      BY <1>3, <3>1, <3>2, <3>3
  <2> QED
    BY <1>1, <1>2, <2>1
<1> QED
  BY <1>5

\* The thread it takes up was mentioned long enough ago.
LEMMA ThreadIsDue ==
    ASSUME CheckInIInv, Eligible
    PROVE  \E u \in DOMAIN talk : /\ LastWord(u, Len(talk) + 1)
                                  /\ talk[u].at = thread /\ now >= talk[u].at + ThreadDelay
  BY DEF CheckInIInv, ThreadMentioned, Eligible

\* The newest receipt is of the newest check-in with one.
LEMMA NewestReceipt ==
    ASSUME CheckInIInv, Kept # {}
    PROVE  /\ receipts # <<>>
           /\ \E c \in Kept : /\ \A j \in Kept : j <= c
                              /\ talk[c].at = Head(receipts).at
                              /\ Head(receipts).answered # 0 <=> Answered(c)
<1>1. PICK place \in [1..Len(receipts) -> Kept] : NewestFirst(place)
  BY DEF CheckInIInv, ReceiptsTold
<1>2. DOMAIN receipts # {}
  BY <1>1 DEF NewestFirst
<1>3. receipts # <<>> /\ 1 \in DOMAIN receipts /\ Head(receipts) = receipts[1]
  <2>1. receipts # <<>>
    <3>1. receipts = <<>> => Len(receipts) = 0
      OBVIOUS
    <3> QED
      BY <1>2, <3>1, ReceiptsHeld
  <2> QED
    BY <2>1, ReceiptsHeld
<1> PICK c : c = place[1]
  OBVIOUS
<1>4. c \in Kept
  BY <1>1, <1>3, ReceiptsHeld
<1>5. ReceiptOf(1, c)
  BY <1>1, <1>3 DEF NewestFirst
<1>6. Kept \subseteq Nat
  BY ReceiptsHeld DEF Kept
<1>7. \A j \in Kept : j <= c
  <2>1. ASSUME NEW j \in Kept PROVE j <= c
    <3>1. PICK k \in DOMAIN receipts : place[k] = j
      BY <1>1 DEF NewestFirst
    <3>2. k \in Nat /\ k >= 1
      BY ReceiptsHeld
    <3>3. CASE k = 1
      BY <1>4, <1>6, <3>1, <3>3
    <3>4. CASE k > 1
      <4>1. place[k] < place[1]
        BY <1>1, <1>3, <3>4 DEF NewestFirst
      <4> QED
        BY <1>4, <1>6, <3>1, <4>1
    <3> QED
      BY <3>2, <3>3, <3>4
  <2> QED
    BY <2>1
<1> QED
  BY <1>3, <1>4, <1>5, <1>7 DEF ReceiptOf


\* The check-ins nobody answered are the newest ones with a receipt, and the
\* streak of ignored receipts is as long as theirs at least.
LEMMA StreakIsLong ==
    ASSUME CheckInIInv, Open # {}
    PROVE  /\ Cardinality(Open) \in Nat \ {0} /\ Ignored \in Nat /\ Cardinality(Open) <= Ignored
           /\ Max(Open) \in DOMAIN talk /\ receipts # <<>> /\ talk[Max(Open)].at = Head(receipts).at
<1>1. PICK place \in [1..Len(receipts) -> Kept] : NewestFirst(place)
  BY DEF CheckInIInv, ReceiptsTold
<1> PICK m : m = Len(receipts)
  OBVIOUS
<1>2. /\ m \in Nat /\ DOMAIN receipts = 1..m /\ Kept \subseteq Nat /\ Open \subseteq Kept
      /\ DOMAIN talk = 1..Len(talk) /\ Len(talk) \in Nat /\ Kept \subseteq 1..Len(talk)
  BY ReceiptsHeld DEF Kept, Open
<1> DEFINE T == {k \in 1..m : place[k] \in Open}
<1>3. \A j \in Open : \E k \in T : place[k] = j
  BY <1>1, <1>2 DEF NewestFirst
<1>4. T # {} /\ T \in SUBSET (0..m)
  <2>1. T # {}
    BY <1>3
  <2>2. T \subseteq 1..m
    OBVIOUS
  <2>3. 1..m \subseteq 0..m
    BY <1>2
  <2> QED
    BY <2>1, <2>2, <2>3
<1>5. \A j \in Open, i \in Kept : j <= i => i \in Open
  BY <1>2 DEF Open, Kept
<1>6. \A k, l \in 1..m : k < l => place[l] < place[k]
  BY <1>1, <1>2 DEF NewestFirst
<1> PICK n : n = Max(T)
  OBVIOUS
<1> HIDE DEF T
<1>7. n \in T /\ \A k \in T : k <= n
  BY <1>2, <1>4, BoundedMax
<1>8. n \in 1..m /\ place[n] \in Open
  BY <1>7 DEF T
<1>9. \A k \in 1..n : place[k] \in Open /\ place[k] \in Kept /\ k \in 1..m
  <2>1. ASSUME NEW k \in 1..n PROVE place[k] \in Open /\ place[k] \in Kept /\ k \in 1..m
    <3>1. k \in 1..m /\ place[k] \in Kept /\ place[k] \in Nat /\ place[n] \in Nat
      <4>1. k \in 1..m
        BY <1>2, <1>8
      <4>2. place[k] \in Kept /\ place[n] \in Kept
        BY <1>8, <4>1
      <4> QED
        BY <1>2, <4>1, <4>2
    <3>2. place[n] <= place[k]
      <4>1. CASE k = n
        BY <3>1, <4>1
      <4>2. CASE k < n
        BY <1>6, <1>8, <3>1, <4>2
      <4> QED
        BY <1>8, <4>1, <4>2
    <3> QED
      BY <1>5, <1>8, <3>1, <3>2
  <2> QED
    BY <2>1
<1>10. \A j \in Open : \E k \in 1..n : place[k] = j
  <2>1. T \subseteq 1..n
    BY <1>7 DEF T
  <2> QED
    BY <1>3, <2>1
<1>11. Cardinality(Open) = n
  <2> PICK f : f = [k \in 1..n |-> place[k]]
    OBVIOUS
  <2>1. f \in [1..n -> Open]
    BY <1>9
  <2>2. \A j \in Open : \E k \in 1..n : f[k] = j
    BY <1>10
  <2>3. \A k, l \in 1..n : f[k] = f[l] => k = l
    <3>1. ASSUME NEW k \in 1..n, NEW l \in 1..n, f[k] = f[l], k < l PROVE FALSE
      <4>1. place[l] < place[k] /\ place[l] = place[k] /\ place[k] \in Nat
        BY <1>2, <1>6, <1>9, <3>1
      <4> QED
        BY <4>1
    <3> QED
      BY <1>8, <3>1
  <2>4. f \in Bijection(1..n, Open)
    BY <2>1, <2>2, <2>3 DEF Bijection, Injection, Surjection, IsInjective
  <2>5. ExistsBijection(1..n, Open)
    BY <2>4 DEF ExistsBijection
  <2>6. IsFiniteSet(1..n) /\ Cardinality(1..n) = n
    BY <1>8, FS_Interval
  <2> QED
    BY <2>5, <2>6, FS_Bijection
<1>12. n \in Nat \ {0}
  BY <1>8
<1>13. Ignored \in Nat /\ n <= Ignored
  <2> PICK L : L = {x \in 0..Len(receipts) : \A i \in 1..x : receipts[i].answered = 0}
    OBVIOUS
  <2>1. Ignored = Max(L)
    BY DEF Ignored, Streak
  <2>2. \A i \in 1..n : receipts[i].answered = 0
    <3>1. ASSUME NEW i \in 1..n PROVE receipts[i].answered = 0
      <4>1. i \in DOMAIN receipts /\ ReceiptOf(i, place[i])
        BY <1>1, <1>2, <1>9 DEF NewestFirst
      <4>2. ~Answered(place[i])
        BY <1>9 DEF Open, Answered
      <4> QED
        BY <4>1, <4>2 DEF ReceiptOf
    <3> QED
      BY <3>1
  <2>3. n \in L /\ L \in SUBSET (0..m) /\ L # {}
    BY <1>8, <2>2
  <2>4. Max(L) \in L /\ n <= Max(L)
    BY <1>2, <2>3, BoundedMax
  <2> QED
    BY <2>1, <2>3, <2>4
<1>14. /\ Max(Open) \in DOMAIN talk /\ receipts # <<>> /\ talk[Max(Open)].at = Head(receipts).at
  <2>1. Kept # {}
    BY <1>2
  <2>2. PICK c \in Kept : (\A j \in Kept : j <= c) /\ talk[c].at = Head(receipts).at
    BY <2>1, NewestReceipt
  <2>3. c \in Open /\ \A j \in Open : j <= c
    BY <1>2, <1>5, <2>2
  <2> PICK S : S = Open
    OBVIOUS
  <2> PICK N : N = Len(talk)
    OBVIOUS
  <2>4. S \in SUBSET (0..N) /\ S # {} /\ N \in Nat
    BY <1>2
  <2>5. Max(S) \in S /\ \A x \in S : x <= Max(S)
    BY <2>4, BoundedMax
  <2>6. Max(S) = c
    <3>1. c \in S /\ Max(S) \in S /\ c <= Max(S) /\ Max(S) <= c
      BY <2>3, <2>5
    <3>2. \A x \in S : x \in Nat
      BY <2>4
    <3> QED
      BY <3>1, <3>2
  <2> QED
    BY <1>2, <2>1, <2>2, <2>3, <2>6, NewestReceipt
<1> QED
  BY <1>11, <1>12, <1>13, <1>14

\* The pause since the last check-in that is still open.
LEMMA SpacedOut ==
    ASSUME CheckInIInv, Eligible, Open # {}
    PROVE  now >= talk[Max(Open)].at + Paused(Cardinality(Open))
<1> PICK n : n = Cardinality(Open)
  OBVIOUS
<1> PICK k : k = Ignored
  OBVIOUS
<1> PICK c : c = talk[Max(Open)].at
  OBVIOUS
<1>1. n \in Nat \ {0} /\ k \in Nat /\ n <= k /\ receipts # <<>> /\ c = Head(receipts).at /\ c \in Nat
  BY StreakIsLong, ReceiptsHeld
<1>2. now >= c + CoolDown
  BY <1>1 DEF Eligible
<1>3. CoolDown = Paused(k)
  BY <1>1 DEF CoolDown, Paused
<1>4. Paused(n) \in Nat /\ Paused(k) \in Nat /\ Paused(n) <= Paused(k)
  BY <1>1, CoolDownGrows DEF Paused
<1>5. now \in Nat
  BY ReceiptsHeld
<1> QED
  BY <1>1, <1>2, <1>3, <1>4, <1>5

\* After an answer the user has taken up the thread again.
LEMMA TakenUpAgain ==
    ASSUME CheckInIInv, Eligible, Resolved # {}
    PROVE  \E u \in Max(Resolved)..Len(talk) : User(u) /\ talk[u].says = "mention"
<1> PICK N : N = Len(talk)
  OBVIOUS
<1> PICK S : S = Resolved
  OBVIOUS
<1> PICK a : a = Max(S)
  OBVIOUS
<1>1. /\ N \in Nat /\ DOMAIN talk = 1..N /\ S \in SUBSET (0..N) /\ S # {} /\ S \subseteq Kept
      /\ Kept \subseteq 1..N /\ \A j \in S : Answered(j)
  BY ReceiptsHeld DEF Resolved, Kept
<1>2. a \in S /\ a \in 1..N /\ \A x \in S : x <= a
  BY <1>1, BoundedMax
<1>3. Kept # {}
  BY <1>1, <1>2
<1>4. PICK c \in Kept : /\ \A j \in Kept : j <= c
                        /\ talk[c].at = Head(receipts).at
                        /\ Head(receipts).answered # 0 <=> Answered(c)
  BY <1>3, NewestReceipt
<1>5. receipts # <<>> /\ c \in 1..N /\ CheckIn(c) /\ talk[c].kept /\ ~User(c)
  BY <1>1, <1>3, NewestReceipt DEF Kept, CheckIn, User
<1>6. CASE Answered(c)
  <2>1. c = a
    <3>1. c \in S
      BY <1>1, <1>5, <1>6 DEF Resolved
    <3>2. a <= c
      BY <1>1, <1>2, <1>4
    <3> QED
      BY <1>2, <1>5, <3>1, <3>2
  <2>2. Head(receipts).at < thread
    BY <1>4, <1>5, <1>6, ReceiptsHeld DEF Eligible, Acknowledged
  <2>3. PICK u \in DOMAIN talk : User(u) /\ talk[u].says = "mention" /\ talk[u].at = thread
    BY ThreadIsDue DEF LastWord
  <2>4. u \in 1..N /\ talk[u].at > talk[c].at
    BY <1>1, <1>4, <2>2, <2>3
  <2>5. ~(u <= c)
    <3>1. \A i \in 1..c : talk[i].at <= talk[c].at
      BY <1>1, <1>5 DEF CheckInIInv, TalkOrdered
    <3>2. talk[u].at \in Nat /\ talk[c].at \in Nat
      BY <1>1, <1>5, <2>4, ReceiptsHeld
    <3> QED
      BY <1>5, <2>4, <3>1, <3>2
  <2>6. u \in a..N
    BY <1>5, <2>1, <2>4, <2>5
  <2> QED
    BY <2>3, <2>6
<1>7. CASE ~Answered(c)
  <2>1. EarnedAt(c)
    BY <1>1, <1>5 DEF CheckInIInv, EarnedAll
  <2>2. AnsweredBefore(c) = S
    <3>1. ASSUME NEW j \in S PROVE j \in AnsweredBefore(c)
      <4>1. j \in Kept /\ Answered(j) /\ j <= c /\ j # c /\ j \in 1..N
        BY <1>1, <1>4, <1>7
      <4>2. PICK k \in j..N : User(k) /\ talk[k].kept
        BY <4>1 DEF Answered
      <4>3. ~(k \in c..N)
        BY <1>7, <4>2 DEF Answered
      <4>4. k \in j..c
        BY <1>5, <4>1, <4>2, <4>3
      <4>5. j \in 1..(c - 1) /\ CheckIn(j) /\ talk[j].kept
        BY <1>5, <4>1 DEF Kept
      <4> QED
        BY <4>2, <4>4, <4>5 DEF AnsweredBefore
    <3>2. ASSUME NEW j \in AnsweredBefore(c) PROVE j \in S
      <4>1. j \in 1..(c - 1) /\ CheckIn(j) /\ talk[j].kept /\ \E k \in j..c : User(k) /\ talk[k].kept
        BY DEF AnsweredBefore
      <4>2. j \in 1..N /\ Answered(j)
        BY <1>1, <1>5, <4>1 DEF Answered
      <4> QED
        BY <4>1, <4>2 DEF Resolved
    <3> QED
      BY <3>1, <3>2
  <2>3. PICK u \in a..c : User(u) /\ talk[u].says = "mention"
    BY <1>1, <2>1, <2>2 DEF EarnedAt
  <2>4. u \in a..N
    BY <1>2, <1>5
  <2> QED
    BY <2>3, <2>4
<1> QED
  BY <1>6, <1>7


\* The new check-in, with or without a receipt.
ByCompanion(kept) ==
    [by |-> "companion", at |-> now, says |-> "check-in", about |-> thread, kept |-> kept]

LEMMA PublishedIsEarned ==
    ASSUME CheckInIInv, Eligible, NEW kept \in BOOLEAN, NEW r \in Told, r = ByCompanion(kept), Says(r),
           NEW i, i = Len(talk) + 1
    PROVE  EarnedAt(i)'
<1> PICK n : n = Len(talk)
  OBVIOUS
<1>1. /\ n \in Nat /\ Len(talk') = i /\ DOMAIN talk = 1..n
      /\ \A j \in 1..n : talk'[j] = talk[j]
      /\ talk'[i] = r /\ i \in Nat /\ 1..(i - 1) = 1..n
  BY RecordAdded DEF CheckInIInv
<1>2. /\ ~User(i)' /\ talk'[i].at = now /\ talk'[i].about = thread
      /\ \A j \in 1..n : (User(j)' <=> User(j)) /\ (CheckIn(j)' <=> CheckIn(j))
  BY <1>1 DEF User, CheckIn, ByCompanion
<1>3. UnansweredBefore(i)' = Open
  <2>1. ASSUME NEW j \in 1..n
        PROVE  (\A k \in j..i : ~User(k)') <=> (\A k \in j..n : ~User(k))
    <3>1. j..i = j..n \cup {i} /\ j..n \subseteq 1..n
      BY <1>1
    <3> QED
      BY <1>2, <3>1
  <2>2. UnansweredBefore(i)' =
            {j \in 1..n : CheckIn(j)' /\ talk'[j].kept /\ \A k \in j..i : ~User(k)'}
    BY <1>1 DEF UnansweredBefore
  <2>3. Open = {j \in 1..n : CheckIn(j) /\ talk[j].kept /\ \A k \in j..n : ~User(k)}
    BY DEF Open
  <2> QED
    BY <1>1, <1>2, <2>1, <2>2, <2>3
<1>4. AnsweredBefore(i)' = Resolved
  <2>1. ASSUME NEW j \in 1..n
        PROVE  (\E k \in j..i : User(k)' /\ talk'[k].kept) <=> Answered(j)
    <3>1. j..i = j..n \cup {i} /\ j..n \subseteq 1..n
      BY <1>1
    <3> QED
      BY <1>1, <1>2, <3>1 DEF Answered
  <2>2. AnsweredBefore(i)' =
            {j \in 1..n : CheckIn(j)' /\ talk'[j].kept /\ \E k \in j..i : User(k)' /\ talk'[k].kept}
    BY <1>1 DEF AnsweredBefore
  <2>3. Resolved = {j \in 1..n : CheckIn(j) /\ talk[j].kept /\ Answered(j)}
    BY DEF Resolved
  <2> QED
    BY <1>1, <1>2, <2>1, <2>2, <2>3
<1> PICK S : S = Open
  OBVIOUS
<1> PICK A : A = Resolved
  OBVIOUS
<1>5. \E u \in 1..(i - 1) : /\ LastWord(u, i)' /\ talk'[u].at = talk'[i].about
                            /\ talk'[i].at >= talk'[u].at + ThreadDelay
  <2>1. PICK u \in DOMAIN talk : LastWord(u, i) /\ talk[u].at = thread /\ now >= talk[u].at + ThreadDelay
    BY ThreadIsDue
  <2>2. u \in 1..n /\ \A w \in (u + 1)..(i - 1) : w \in 1..n
    BY <1>1
  <2>3. LastWord(u, i)'
    BY <1>1, <1>2, <2>1, <2>2 DEF LastWord
  <2> QED
    BY <1>1, <1>2, <2>1, <2>2, <2>3
<1>6. \A u \in 1..(i - 1) : User(u)' => talk'[i].at >= talk'[u].at + Interval
  BY <1>1, <1>2, QuietLongEnough
<1>7. S # {} => talk'[i].at >= talk'[Max(S)].at + Paused(Cardinality(S))
  <2>1. ASSUME S # {} PROVE talk'[i].at >= talk'[Max(S)].at + Paused(Cardinality(S))
    <3>1. now >= talk[Max(S)].at + Paused(Cardinality(S)) /\ Max(S) \in DOMAIN talk
      BY <2>1, SpacedOut, StreakIsLong
    <3> QED
      BY <1>1, <1>2, <3>1
  <2> QED
    BY <2>1
<1>8. A # {} => \E u \in Max(A)..i : User(u)' /\ talk'[u].says = "mention"
  <2>1. ASSUME A # {} PROVE \E u \in Max(A)..i : User(u)' /\ talk'[u].says = "mention"
    <3>1. PICK u \in Max(A)..n : User(u) /\ talk[u].says = "mention"
      BY <2>1, TakenUpAgain
    <3>2. A \in SUBSET (0..n) /\ A \subseteq 1..n
      BY <1>1 DEF Resolved
    <3>3. Max(A) \in 1..n
      BY <1>1, <2>1, <3>2, BoundedMax
    <3>4. u \in 1..n /\ u \in Max(A)..i
      BY <1>1, <3>3
    <3> QED
      BY <1>1, <1>2, <3>1, <3>4
  <2> QED
    BY <2>1
<1> QED
  BY <1>3, <1>4, <1>5, <1>6, <1>7, <1>8 DEF EarnedAt, Paused

\* The conversation after a record: order, thread, and what was earned before.
LEMMA TalkGoesOn ==
    ASSUME CheckInIInv, NEW r \in Told, Says(r), r.at = now, now' = now,
           NEW l, l = Len(talk) + 1
    PROVE  /\ TalkOrdered'
           /\ thread' = thread /\ r.says \notin {"mention", "resolve"} => ThreadMentioned'
           /\ (CheckIn(l)' => EarnedAt(l)') => EarnedAll'
<1> PICK n : n = Len(talk)
  OBVIOUS
<1>1. /\ n \in Nat /\ Len(talk') = n + 1 /\ DOMAIN talk = 1..n /\ DOMAIN talk' = 1..(n + 1)
      /\ \A j \in 1..n : talk'[j] = talk[j]
      /\ talk'[n + 1] = r
  BY RecordAdded DEF CheckInIInv
<1>2. TalkOrdered'
  <2>1. \A j \in 1..n : talk[j].at <= now /\ \A i \in 1..j : talk[i].at <= talk[j].at
    BY <1>1 DEF CheckInIInv, TalkOrdered
  <2>2. now \in Nat
    BY ReceiptsHeld
  <2>3. ASSUME NEW j \in 1..(n + 1)
        PROVE  talk'[j].at <= now /\ \A i \in 1..j : talk'[i].at <= talk'[j].at
    <3>1. CASE j \in 1..n
      <4>1. \A i \in 1..j : i \in 1..n
        BY <1>1, <3>1
      <4> QED
        BY <1>1, <2>1, <3>1, <4>1
    <3>2. CASE j = n + 1
      <4>1. talk'[j].at = now
        BY <1>1, <3>2
      <4>2. \A i \in 1..j : i \in 1..n \/ i = j
        BY <1>1, <3>2
      <4> QED
        BY <1>1, <2>1, <2>2, <4>1, <4>2
    <3> QED
      BY <1>1, <3>1, <3>2
  <2> QED
    BY <1>1, <2>3 DEF TalkOrdered
<1>3. ASSUME thread' = thread, r.says \notin {"mention", "resolve"} PROVE ThreadMentioned'
  <2>1. ASSUME thread # 0
        PROVE  \E u \in DOMAIN talk' : LastWord(u, Len(talk) + 1)' /\ talk'[u].at = thread'
    <3>1. PICK u \in DOMAIN talk : LastWord(u, Len(talk) + 1) /\ talk[u].at = thread
      BY <2>1 DEF CheckInIInv, ThreadMentioned
    <3>2. /\ u \in 1..n /\ Len(talk) + 1 - 1 = n /\ Len(talk') + 1 - 1 = n + 1
          /\ \A w \in (u + 1)..(n + 1) : w \in (u + 1)..n \/ w = n + 1
          /\ \A w \in (u + 1)..n : w \in 1..n
      BY <1>1
    <3>3. \A w \in (u + 1)..(n + 1) : talk'[w].says \notin {"mention", "resolve"}
      BY <1>1, <1>3, <3>1, <3>2 DEF LastWord
    <3>4. User(u)' /\ talk'[u].says = "mention"
      BY <1>1, <3>1, <3>2 DEF LastWord, User
    <3>5. LastWord(u, Len(talk) + 1)'
      BY <3>2, <3>3, <3>4 DEF LastWord
    <3>6. u \in DOMAIN talk' /\ talk'[u].at = thread'
      BY <1>1, <1>3, <3>1, <3>2
    <3> QED
      BY <3>5, <3>6
  <2> QED
    BY <1>3, <2>1 DEF ThreadMentioned
<1>4. \A i \in 1..n : CheckIn(i)' => EarnedAt(i)'
  <2>1. \A i \in 1..n : CheckIn(i) => EarnedAt(i)
    BY <1>1 DEF CheckInIInv, EarnedAll
  <2>2. \A i \in 1..n : CheckIn(i)' => CheckIn(i)
    BY <1>1 DEF CheckIn
  <2> QED
    BY <1>1, <2>1, <2>2, EarnedStays
<1>5. EarnedAll' <=> \A i \in DOMAIN talk' : CheckIn(i)' => EarnedAt(i)'
  BY DEF EarnedAll
<1>6. \A i \in 1..(n + 1) : i \in 1..n \/ i = l
  BY <1>1
<1>7. (CheckIn(l)' => EarnedAt(l)') => EarnedAll'
  BY <1>1, <1>4, <1>5, <1>6
<1> QED
  BY <1>2, <1>3, <1>7


-----------------------------------------------------------------------------
(* The attempts that failed.                                               *)

\* The attempts in what is said now, and those that came to nothing since
\* anything was said.
LEMMA AttemptsHeld ==
    ASSUME CheckInIInv
    PROVE  /\ DOMAIN attempts = 1..Len(attempts) /\ Len(attempts) \in Nat
           /\ \A a \in DOMAIN attempts : attempts[a].at \in Nat
           /\ attempts # <<>> => 1 \in DOMAIN attempts /\ Head(attempts) = attempts[1]
<1> PICK t : t = attempts
  OBVIOUS
<1>1. t \in Seq(Tries) /\ Horizon \in Nat
  BY CheckInAssumption DEF CheckInIInv, CheckInShapes, CheckInAssumption
<1>2. DOMAIN t = 1..Len(t) /\ Len(t) \in Nat /\ \A a \in DOMAIN t : t[a] \in Tries
  BY <1>1
<1>3. t # <<>> => 1 \in DOMAIN t /\ Head(t) = t[1]
  BY <1>1
<1>4. \A a \in DOMAIN t : t[a].at \in Nat
  BY <1>1, <1>2 DEF Tries
<1> QED
  BY <1>2, <1>3, <1>4

Setbacks == {a \in DOMAIN attempts : /\ attempts[a].outcome # "published"
                                     /\ attempts[a].at < now
                                     /\ \A j \in 1..Len(talk) : talk[j].at < attempts[a].at}

\* The streak of failed attempts reaches the oldest of these.
LEMMA StreakOfFailures ==
    ASSUME CheckInIInv, Eligible, Setbacks # {}
    PROVE  /\ FailedAttempts \in Nat /\ Cardinality(Setbacks) \in Nat \ {0}
           /\ Cardinality(Setbacks) <= FailedAttempts
<1> PICK m : m = Len(attempts)
  OBVIOUS
<1> PICK S : S = Setbacks
  OBVIOUS
<1>1. /\ m \in Nat /\ DOMAIN attempts = 1..m /\ \A a \in 1..m : attempts[a].at \in Nat
      /\ S \in SUBSET (0..m) /\ S \subseteq 1..m /\ S # {}
      /\ DOMAIN talk = 1..Len(talk) /\ \A j \in DOMAIN talk : talk[j].at \in Nat
  BY AttemptsHeld, ReceiptsHeld DEF Setbacks
<1> PICK z : z = Max(S)
  OBVIOUS
<1>2. z \in S /\ z \in 1..m /\ \A x \in S : x <= z
  BY <1>1, BoundedMax
<1>3. \A j \in DOMAIN talk : talk[j].at < attempts[z].at
  BY <1>1, <1>2 DEF Setbacks
<1>4. \A b \in 1..z : b \in 1..m /\ attempts[z].at <= attempts[b].at
  BY <1>1, <1>2 DEF CheckInIInv, AttemptsOrdered
<1>5. \A b \in 1..z : attempts[b].outcome # "published"
  <2>1. ASSUME NEW b \in 1..z, attempts[b].outcome = "published" PROVE FALSE
    <3>1. PICK j \in DOMAIN talk : attempts[b].at <= talk[j].at
      BY <1>1, <1>4, <2>1 DEF CheckInIInv, AttemptsOrdered
    <3>2. talk[j].at < attempts[z].at /\ attempts[z].at <= attempts[b].at
      BY <1>3, <1>4
    <3>3. attempts[z].at \in Nat /\ attempts[b].at \in Nat /\ talk[j].at \in Nat
      BY <1>1, <1>2, <1>4
    <3> QED
      BY <3>1, <3>2, <3>3
  <2> QED
    BY <2>1
<1> PICK U : U = UserTimes
  OBVIOUS
<1>6. U \in SUBSET (0..Horizon) /\ U # {} /\ Horizon \in Nat
      /\ \A x \in U : \E j \in DOMAIN talk : x = talk[j].at
  BY ReceiptsHeld DEF UserTimes, Eligible
<1>7. Max(U) \in U
  BY <1>6, BoundedMax
<1>8. LatestUser < attempts[z].at /\ LatestUser \in Nat
  <2>1. PICK j \in DOMAIN talk : LatestUser = talk[j].at
    BY <1>6, <1>7 DEF LatestUser
  <2> QED
    BY <1>1, <1>3, <2>1
<1>9. \A b \in 1..z : attempts[b].at > LatestUser /\ attempts[b].outcome # "published"
  <2>1. \A b \in 1..z : attempts[b].at \in Nat /\ attempts[z].at \in Nat
    BY <1>1, <1>2, <1>4
  <2> QED
    BY <1>4, <1>5, <1>8, <2>1
<1> PICK L : L = {n \in 0..Len(attempts) :
                   \A i \in 1..n : attempts[i].at > LatestUser /\ attempts[i].outcome # "published"}
  OBVIOUS
<1>10. FailedAttempts = Max(L)
  BY DEF FailedAttempts, Streak
<1>11. z \in L /\ L \in SUBSET (0..m) /\ L # {}
  BY <1>1, <1>2, <1>9
<1>12. Max(L) \in L /\ z <= Max(L)
  BY <1>1, <1>11, BoundedMax
<1>13. Cardinality(S) \in Nat \ {0} /\ Cardinality(S) <= z
  <2>1. S \in SUBSET (1..z) /\ z \in Nat /\ 1 \in Int
    BY <1>1, <1>2
  <2> PICK I : I = 1..z
    OBVIOUS
  <2>2. IsFiniteSet(I) /\ Cardinality(I) = z /\ S \in SUBSET I
    <3>1. IsFiniteSet(1..z) /\ Cardinality(1..z) = z
      BY <2>1, FS_Interval
    <3> QED
      BY <2>1, <3>1
  <2>3. IsFiniteSet(S) /\ Cardinality(S) <= z
    <3>1. IsFiniteSet(S) /\ Cardinality(S) <= Cardinality(I)
      BY <2>2, FS_Subset
    <3> QED
      BY <2>2, <3>1
  <2>4. Cardinality(S) \in Nat
    BY <2>3, FS_CardinalityType
  <2>5. Cardinality(S) # 0
    BY <1>1, <2>3, FS_EmptySet
  <2> QED
    BY <2>3, <2>4, <2>5
<1> QED
  BY <1>1, <1>2, <1>10, <1>11, <1>12, <1>13

\* The distance to the last of them.
LEMMA RestedLongEnough ==
    ASSUME CheckInIInv, Eligible, Setbacks # {}
    PROVE  now >= attempts[Min(Setbacks)].at + BackOffAfter(Cardinality(Setbacks))
<1> PICK n : n = Cardinality(Setbacks)
  OBVIOUS
<1> PICK k : k = FailedAttempts
  OBVIOUS
<1> PICK S : S = Setbacks
  OBVIOUS
<1> PICK m : m = Len(attempts)
  OBVIOUS
<1>1. n \in Nat \ {0} /\ k \in Nat /\ n <= k
  BY StreakOfFailures
<1>2. m \in Nat /\ S \in SUBSET (0..m) /\ S # {} /\ S \subseteq 1..m /\ DOMAIN attempts = 1..m
  BY AttemptsHeld DEF Setbacks
<1>3. Min(S) \in 1..m
  BY <1>2, BoundedMin
<1>4. attempts # <<>> /\ Head(attempts) = attempts[1] /\ 1 \in 1..Min(S) /\ 1 \in DOMAIN attempts
  <2>1. attempts = <<>> => Len(attempts) = 0
    OBVIOUS
  <2> QED
    BY <1>2, <1>3, <2>1, AttemptsHeld
<1>5. attempts[Min(S)].at <= Head(attempts).at
  BY <1>2, <1>3, <1>4 DEF CheckInIInv, AttemptsOrdered
<1>6. now >= Head(attempts).at + BackOffAfter(k)
  BY <1>1 DEF Eligible
<1>7. BackOffAfter(n) \in Nat /\ BackOffAfter(k) \in Nat /\ BackOffAfter(n) <= BackOffAfter(k)
  BY <1>1, BackOffGrows
<1>8. now \in Nat /\ attempts[Min(S)].at \in Nat /\ Head(attempts).at \in Nat
  BY <1>2, <1>3, <1>4, AttemptsHeld, ReceiptsHeld
<1> QED
  BY <1>5, <1>6, <1>7, <1>8

\* A row put before the attempts.
LEMMA RowPushed ==
    ASSUME CheckInShapes, NEW row \in Tries, attempts' = Pushed(row, attempts), NEW m, m = Len(attempts)
    PROVE  /\ m \in Nat /\ DOMAIN attempts = 1..m /\ DOMAIN attempts' = 1..(m + 1)
           /\ attempts' \in Seq(Tries) /\ attempts'[1] = row
           /\ \A a \in 1..m : attempts'[a + 1] = attempts[a]
<1> PICK q : q = attempts
  OBVIOUS
<1> PICK p : p = <<row>> \o q
  OBVIOUS
<1>1. q \in Seq(Tries) /\ m = Len(q) /\ attempts' = p
  BY DEF CheckInShapes, Pushed
<1>2. DOMAIN q = 1..m /\ m \in Nat
  BY <1>1
<1>3. p \in Seq(Tries) /\ Len(p) = m + 1 /\ p[1] = row /\ \A a \in 1..m : p[a + 1] = q[a]
  BY <1>1, <1>2
<1>4. DOMAIN p = 1..(m + 1)
  BY <1>3
<1> QED
  BY <1>1, <1>2, <1>3, <1>4

\* What is written down comes after all that was said.
AttemptsGrow ==
    \/ attempts' = attempts
    \/ \E row \in Tries : /\ attempts' = Pushed(row, attempts)
                          /\ \A j \in DOMAIN talk : talk[j].at <= row.at

\* The distance kept by an old check-in stays so.
LEMMA RestedStays ==
    ASSUME CheckInIInv, NEW n, n = Len(talk), \A j \in 1..n : talk'[j] = talk[j], AttemptsGrow,
           NEW i \in 1..n, BackedOff(i)
    PROVE  BackedOff(i)'
<1>1. /\ n \in Nat /\ DOMAIN talk = 1..n /\ \A j \in 1..n : talk[j].at \in Nat
      /\ i \in Nat /\ \A j \in 1..(i - 1) : j \in 1..n
  BY ReceiptsHeld
<1>2. talk'[i] = talk[i] /\ \A j \in 1..(i - 1) : talk'[j] = talk[j]
  BY <1>1
<1>3. CASE attempts' = attempts
  <2>1. FailuresBefore(i)' = FailuresBefore(i)
    BY <1>2, <1>3 DEF FailuresBefore
  <2> QED
    BY <1>2, <1>3, <2>1 DEF BackedOff
<1>4. CASE attempts' # attempts
  <2>1. PICK row \in Tries : /\ attempts' = Pushed(row, attempts)
                             /\ \A j \in DOMAIN talk : talk[j].at <= row.at
    BY <1>4 DEF AttemptsGrow
  <2> PICK m : m = Len(attempts)
    OBVIOUS
  <2>2. /\ m \in Nat /\ DOMAIN attempts = 1..m /\ DOMAIN attempts' = 1..(m + 1)
        /\ attempts'[1] = row /\ \A a \in 1..m : attempts'[a + 1] = attempts[a]
    BY <2>1, RowPushed DEF CheckInIInv
  <2> PICK S : S = FailuresBefore(i)
    OBVIOUS
  <2> PICK T : T = FailuresBefore(i)'
    OBVIOUS
  <2>3. S \subseteq 1..m
    BY <2>2 DEF FailuresBefore
  <2>4. ~(row.at < talk[i].at)
    <3>1. talk[i].at <= row.at /\ talk[i].at \in Nat
      BY <1>1, <2>1
    <3>2. row.at \in Nat
      BY <2>1, CheckInAssumption DEF Tries, CheckInAssumption
    <3> QED
      BY <3>1, <3>2
  <2>5. \A a \in 1..m : a + 1 \in T <=> a \in S
    <3>1. ASSUME NEW a \in 1..m PROVE a + 1 \in T <=> a \in S
      <4>1. attempts'[a + 1] = attempts[a] /\ a \in DOMAIN attempts /\ a + 1 \in DOMAIN attempts'
        BY <2>2
      <4>2. a \in S <=> /\ attempts[a].outcome # "published" /\ attempts[a].at < talk[i].at
                        /\ \A j \in 1..(i - 1) : talk[j].at < attempts[a].at
        BY <4>1 DEF FailuresBefore
      <4>3. a + 1 \in T <=> /\ attempts'[a + 1].outcome # "published" /\ attempts'[a + 1].at < talk'[i].at
                            /\ \A j \in 1..(i - 1) : talk'[j].at < attempts'[a + 1].at
        BY <4>1 DEF FailuresBefore
      <4> QED
        BY <1>2, <4>1, <4>2, <4>3
    <3> QED
      BY <3>1
  <2>6. 1 \notin T /\ T \subseteq 1..(m + 1)
    BY <1>2, <2>2, <2>4 DEF FailuresBefore
  <2>7. T = {a + 1 : a \in S}
    <3>1. ASSUME NEW t \in T PROVE t \in {a + 1 : a \in S}
      <4>1. t - 1 \in 1..m /\ (t - 1) + 1 = t
        BY <2>2, <2>6
      <4> QED
        BY <2>5, <4>1
    <3>2. \A a \in S : a + 1 \in T
      BY <2>3, <2>5
    <3> QED
      BY <3>1, <3>2
  <2>8. /\ T # {} <=> S # {}
        /\ Cardinality(T) = Cardinality(S)
        /\ S # {} => attempts'[Min(T)] = attempts[Min(S)]
    <3>1. m \in Nat /\ S \in SUBSET (1..m) /\ T = Onward(S)
      BY <2>2, <2>3, <2>7 DEF Onward
    <3>2. /\ T # {} <=> S # {}
          /\ Cardinality(T) = Cardinality(S)
          /\ S # {} => Min(S) \in 1..m /\ Min(T) = Min(S) + 1
      BY <3>1, Shifted
    <3> QED
      BY <2>2, <3>2
  <2>9. S # {} => talk[i].at >= attempts[Min(S)].at + BackOffAfter(Cardinality(S))
    BY DEF BackedOff
  <2>10. T # {} => talk'[i].at >= attempts'[Min(T)].at + BackOffAfter(Cardinality(T))
    BY <1>2, <2>8, <2>9
  <2> QED
    BY <2>10 DEF BackedOff
<1> QED
  BY <1>3, <1>4

\* The new check-in keeps it.
LEMMA PublishedIsRested ==
    ASSUME CheckInIInv, Eligible, NEW r \in Told, Says(r), r.at = now,
           Attempted("published") \/ attempts' = attempts, NEW i, i = Len(talk) + 1
    PROVE  BackedOff(i)'
<1> PICK n : n = Len(talk)
  OBVIOUS
<1>1. /\ n \in Nat /\ Len(talk') = i /\ DOMAIN talk = 1..n /\ \A j \in 1..n : talk'[j] = talk[j]
      /\ talk'[i] = r /\ i \in Nat /\ 1..(i - 1) = 1..n /\ talk'[i].at = now
  BY RecordAdded DEF CheckInIInv
<1>2. \A a : (\A j \in 1..(i - 1) : talk'[j].at < attempts'[a].at)
               <=> (\A j \in 1..n : talk[j].at < attempts'[a].at)
  BY <1>1
<1>3. CASE attempts' = attempts
  <2>1. FailuresBefore(i)' = Setbacks
    BY <1>1, <1>2, <1>3 DEF FailuresBefore, Setbacks
  <2> QED
    BY <1>1, <1>3, <2>1, RestedLongEnough DEF BackedOff
<1>4. CASE attempts' # attempts
  <2> PICK row : row = [at |-> draft.at, outcome |-> "published"]
    OBVIOUS
  <2>1. row \in Tries /\ row.outcome = "published" /\ attempts' = Pushed(row, attempts)
    <3>1. draft.at \in 0..Horizon
      BY DEF CheckInIInv, CheckInShapes, Drafts
    <3> QED
      BY <1>4, <3>1 DEF Attempted, Tries
  <2> PICK m : m = Len(attempts)
    OBVIOUS
  <2>2. /\ m \in Nat /\ DOMAIN attempts = 1..m /\ DOMAIN attempts' = 1..(m + 1)
        /\ attempts'[1] = row /\ \A a \in 1..m : attempts'[a + 1] = attempts[a]
    BY <2>1, RowPushed DEF CheckInIInv
  <2> PICK S : S = Setbacks
    OBVIOUS
  <2> PICK T : T = FailuresBefore(i)'
    OBVIOUS
  <2>3. S \subseteq 1..m
    BY <2>2 DEF Setbacks
  <2>4. \A a \in 1..m : a + 1 \in T <=> a \in S
    <3>1. ASSUME NEW a \in 1..m PROVE a + 1 \in T <=> a \in S
      <4>1. attempts'[a + 1] = attempts[a] /\ a \in DOMAIN attempts /\ a + 1 \in DOMAIN attempts'
        BY <2>2
      <4>2. a \in S <=> /\ attempts[a].outcome # "published" /\ attempts[a].at < now
                        /\ \A j \in 1..n : talk[j].at < attempts[a].at
        BY <4>1 DEF Setbacks
      <4>3. a + 1 \in T <=> /\ attempts'[a + 1].outcome # "published" /\ attempts'[a + 1].at < talk'[i].at
                            /\ \A j \in 1..(i - 1) : talk'[j].at < attempts'[a + 1].at
        BY <4>1 DEF FailuresBefore
      <4> QED
        BY <1>1, <1>2, <4>1, <4>2, <4>3
    <3> QED
      BY <3>1
  <2>5. 1 \notin T /\ T \subseteq 1..(m + 1)
    BY <2>1, <2>2 DEF FailuresBefore
  <2>6. T = {a + 1 : a \in S}
    <3>1. ASSUME NEW t \in T PROVE t \in {a + 1 : a \in S}
      <4>1. t - 1 \in 1..m /\ (t - 1) + 1 = t
        BY <2>2, <2>5
      <4> QED
        BY <2>4, <4>1
    <3>2. \A a \in S : a + 1 \in T
      BY <2>3, <2>4
    <3> QED
      BY <3>1, <3>2
  <2>7. /\ T # {} <=> S # {}
        /\ Cardinality(T) = Cardinality(S)
        /\ S # {} => attempts'[Min(T)] = attempts[Min(S)]
    <3>1. m \in Nat /\ S \in SUBSET (1..m) /\ T = Onward(S)
      BY <2>2, <2>3, <2>6 DEF Onward
    <3>2. /\ T # {} <=> S # {}
          /\ Cardinality(T) = Cardinality(S)
          /\ S # {} => Min(S) \in 1..m /\ Min(T) = Min(S) + 1
      BY <3>1, Shifted
    <3> QED
      BY <2>2, <3>2
  <2>8. S # {} => now >= attempts[Min(S)].at + BackOffAfter(Cardinality(S))
    BY RestedLongEnough
  <2>9. T # {} => talk'[i].at >= attempts'[Min(T)].at + BackOffAfter(Cardinality(T))
    BY <1>1, <2>7, <2>8
  <2> QED
    BY <2>9 DEF BackedOff
<1> QED
  BY <1>3, <1>4

\* The conversation after a record: the distances kept before.
LEMMA RestGoesOn ==
    ASSUME CheckInIInv, NEW r \in Told, Says(r), AttemptsGrow, NEW l, l = Len(talk) + 1,
           CheckIn(l)' => BackedOff(l)'
    PROVE  RestedAll'
<1> PICK n : n = Len(talk)
  OBVIOUS
<1>1. /\ n \in Nat /\ DOMAIN talk = 1..n /\ DOMAIN talk' = 1..(n + 1)
      /\ \A j \in 1..n : talk'[j] = talk[j]
      /\ \A i \in 1..(n + 1) : i \in 1..n \/ i = l
  BY RecordAdded DEF CheckInIInv
<1>2. ASSUME NEW i \in 1..n, CheckIn(i)' PROVE BackedOff(i)'
  <2>1. CheckIn(i)
    BY <1>1, <1>2 DEF CheckIn
  <2>2. BackedOff(i)
    BY <1>1, <2>1 DEF CheckInIInv, RestedAll
  <2> QED
    BY <1>1, <2>2, RestedStays
<1>3. RestedAll' <=> \A i \in DOMAIN talk' : CheckIn(i)' => BackedOff(i)'
  BY DEF RestedAll
<1> QED
  BY <1>1, <1>2, <1>3


-----------------------------------------------------------------------------
(* The receipts follow the conversation.                                   *)

\* A record that no turn kept changes nothing.
LEMMA ReceiptsStay ==
    ASSUME CheckInIInv, NEW r \in Told, Says(r), r.kept = FALSE, receipts' = receipts
    PROVE  ReceiptsTold'
<1> PICK n : n = Len(talk)
  OBVIOUS
<1>1. /\ n \in Nat /\ Len(talk') = n + 1 /\ DOMAIN talk = 1..n /\ DOMAIN talk' = 1..(n + 1)
      /\ \A j \in 1..n : talk'[j] = talk[j]
      /\ talk'[n + 1] = r
  BY RecordAdded DEF CheckInIInv
<1>2. \A j \in 1..(n + 1) : j \in 1..n \/ j = n + 1
  BY <1>1
<1>3. Kept' = Kept /\ Kept \subseteq 1..n /\ Kept \subseteq Nat
  BY <1>1, <1>2 DEF Kept, CheckIn
<1>4. \A j \in Kept : Answered(j)' <=> Answered(j)
  <2>1. ASSUME NEW j \in Kept PROVE Answered(j)' <=> Answered(j)
    <3>1. j..(n + 1) = j..n \cup {n + 1} /\ j..n \subseteq 1..n
      BY <1>1, <1>3
    <3> QED
      BY <1>1, <3>1 DEF Answered, User
  <2> QED
    BY <2>1
<1>5. PICK place \in [1..Len(receipts) -> Kept] : NewestFirst(place)
  BY DEF CheckInIInv, ReceiptsTold
<1>6. \A k \in DOMAIN receipts : ReceiptOf(k, place[k])'
  <2>1. ASSUME NEW k \in DOMAIN receipts PROVE ReceiptOf(k, place[k])'
    <3> PICK j : j = place[k]
      OBVIOUS
    <3>1. j \in Kept
      BY <1>5, ReceiptsHeld
    <3>2. ReceiptOf(k, j)
      BY <1>5 DEF NewestFirst
    <3>3. ReceiptOf(k, j)'
      BY <1>1, <1>3, <1>4, <3>1, <3>2 DEF ReceiptOf
    <3> QED
      BY <3>3
  <2> QED
    BY <2>1
<1>7. NewestFirst(place)'
  BY <1>3, <1>5, <1>6 DEF NewestFirst
<1> QED
  BY <1>3, <1>5, <1>7 DEF ReceiptsTold

\* A turn that ends well answers the check-ins before it.
AnsweredNow ==
    receipts' = [i \in DOMAIN receipts |->
        IF receipts[i].answered = 0 /\ receipts[i].at <= now
        THEN [receipts[i] EXCEPT !.answered = now] ELSE receipts[i]]

LEMMA AnswersTyped ==
    ASSUME CheckInIInv, AnsweredNow
    PROVE  /\ receipts' \in Seq(Receipts) /\ DOMAIN receipts' = DOMAIN receipts
           /\ Len(receipts') = Len(receipts)
           /\ \A k \in DOMAIN receipts :
                 /\ receipts'[k].at = receipts[k].at
                 /\ receipts[k].at <= now => receipts'[k].answered # 0
<1> PICK q : q = receipts
  OBVIOUS
<1> PICK n : n = now
  OBVIOUS
<1> DEFINE done(k) == IF q[k].answered = 0 /\ q[k].at <= n
                      THEN [q[k] EXCEPT !.answered = n] ELSE q[k]
<1>1. q \in Seq(Receipts) /\ n \in 1..Horizon /\ n \in 0..Horizon /\ n # 0 /\ n \in Nat
  BY CheckInAssumption DEF CheckInIInv, CheckInShapes, CheckInAssumption
<1>2. DOMAIN q = 1..Len(q) /\ Len(q) \in Nat /\ \A k \in DOMAIN q : q[k] \in Receipts
  BY <1>1
<1>3. \A k \in DOMAIN q : done(k) \in Receipts /\ done(k).at = q[k].at
                          /\ (q[k].at <= n => done(k).answered # 0)
  <2>1. ASSUME NEW k \in DOMAIN q
        PROVE  done(k) \in Receipts /\ done(k).at = q[k].at /\ (q[k].at <= n => done(k).answered # 0)
    <3> PICK x : x = q[k]
      OBVIOUS
    <3>1. x \in Receipts
      BY <1>2
    <3> PICK y : y = [x EXCEPT !.answered = n]
      OBVIOUS
    <3>2. y \in Receipts /\ y.at = x.at /\ y.answered = n
      BY <1>1, <3>1 DEF Receipts
    <3>3. done(k) = IF x.answered = 0 /\ x.at <= n THEN y ELSE x
      OBVIOUS
    <3> HIDE DEF done
    <3> QED
      BY <1>1, <3>1, <3>2, <3>3
  <2> QED
    BY <2>1
<1>4. receipts' = [k \in DOMAIN q |-> done(k)]
  BY DEF AnsweredNow
<1> HIDE DEF done
<1> PICK p : p = receipts'
  OBVIOUS
<1>5. p = [k \in 1..Len(q) |-> done(k)] /\ \A k \in 1..Len(q) : done(k) \in Receipts
  BY <1>2, <1>3, <1>4
<1>6. p \in Seq(Receipts) /\ DOMAIN p = 1..Len(q) /\ Len(p) = Len(q)
  BY <1>2, <1>5
<1> QED
  BY <1>2, <1>3, <1>5, <1>6

LEMMA ReceiptsAnswered ==
    ASSUME CheckInIInv, NEW r \in Told, Says(r), r.kept, r.by = "user", AnsweredNow
    PROVE  ReceiptsTold'
<1> PICK n : n = Len(talk)
  OBVIOUS
<1>1. /\ n \in Nat /\ Len(talk') = n + 1 /\ DOMAIN talk = 1..n /\ DOMAIN talk' = 1..(n + 1)
      /\ \A j \in 1..n : talk'[j] = talk[j]
      /\ talk'[n + 1] = r
  BY RecordAdded DEF CheckInIInv
<1>2. \A j \in 1..(n + 1) : j \in 1..n \/ j = n + 1
  BY <1>1
<1>3. Kept' = Kept /\ Kept \subseteq 1..n /\ Kept \subseteq Nat
  BY <1>1, <1>2 DEF Kept, CheckIn
<1>4. \A j \in Kept : Answered(j)'
  <2>1. ASSUME NEW j \in Kept PROVE Answered(j)'
    <3>1. n + 1 \in j..(n + 1)
      BY <1>1, <1>3
    <3> QED
      BY <1>1, <3>1 DEF Answered, User
  <2> QED
    BY <2>1
<1>5. PICK place \in [1..Len(receipts) -> Kept] : NewestFirst(place)
  BY DEF CheckInIInv, ReceiptsTold
<1>6. \A k \in DOMAIN receipts : ReceiptOf(k, place[k])'
  <2>1. ASSUME NEW k \in DOMAIN receipts PROVE ReceiptOf(k, place[k])'
    <3> PICK j : j = place[k]
      OBVIOUS
    <3>1. j \in Kept /\ j \in 1..n
      BY <1>3, <1>5, ReceiptsHeld
    <3>2. talk[j].at = receipts[k].at
      BY <1>5 DEF NewestFirst, ReceiptOf
    <3>3. talk[j].at <= now
      BY <1>1, <3>1 DEF CheckInIInv, TalkOrdered
    <3>4. receipts'[k].at = receipts[k].at /\ receipts'[k].answered # 0
      BY <3>2, <3>3, AnswersTyped
    <3>5. ReceiptOf(k, j)'
      BY <1>1, <1>4, <3>1, <3>2, <3>4 DEF ReceiptOf
    <3> QED
      BY <3>5
  <2> QED
    BY <2>1
<1>7. DOMAIN receipts' = DOMAIN receipts /\ Len(receipts') = Len(receipts)
  BY AnswersTyped
<1>8. NewestFirst(place)'
  BY <1>3, <1>5, <1>6, <1>7 DEF NewestFirst
<1> QED
  BY <1>3, <1>5, <1>7, <1>8 DEF ReceiptsTold

\* A check-in whose receipt is kept.
ReceiptKept(x) == receipts' = Pushed(x, receipts)

LEMMA ReceiptAdded ==
    ASSUME CheckInIInv, NEW r \in Told, r = ByCompanion(TRUE), Says(r),
           NEW x \in Receipts, x.at = now, x.answered = 0, ReceiptKept(x)
    PROVE  ReceiptsTold' /\ receipts' \in Seq(Receipts)
<1> PICK n : n = Len(talk)
  OBVIOUS
<1> PICK m : m = Len(receipts)
  OBVIOUS
<1>1. /\ n \in Nat /\ Len(talk') = n + 1 /\ DOMAIN talk = 1..n /\ DOMAIN talk' = 1..(n + 1)
      /\ \A j \in 1..n : talk'[j] = talk[j]
      /\ talk'[n + 1] = r
  BY RecordAdded DEF CheckInIInv
<1>2. \A j \in 1..(n + 1) : j \in 1..n \/ j = n + 1
  BY <1>1
<1>3. r.by = "companion" /\ r.kept /\ r.at = now
  BY DEF ByCompanion
<1>4. Kept' = Kept \cup {n + 1} /\ Kept \subseteq 1..n /\ Kept \subseteq Nat
  <2>1. Kept \subseteq 1..n /\ Kept \subseteq Nat
    BY <1>1 DEF Kept
  <2>2. \A j \in 1..n : j \in Kept' <=> j \in Kept
    BY <1>1 DEF Kept, CheckIn
  <2>3. n + 1 \in Kept'
    <3> PICK i : i = n + 1
      OBVIOUS
    <3>1. i \in DOMAIN talk' /\ talk'[i].by = "companion" /\ talk'[i].kept
      <4>1. i \in DOMAIN talk' /\ talk'[i] = r
        BY <1>1
      <4> QED
        BY <1>3, <4>1
    <3> QED
      BY <3>1 DEF Kept, CheckIn
  <2>4. Kept' \subseteq 1..(n + 1)
    BY <1>1 DEF Kept
  <2> QED
    BY <1>2, <2>1, <2>2, <2>3, <2>4
<1>5. \A j \in Kept : Answered(j)' <=> Answered(j)
  <2>1. ASSUME NEW j \in Kept PROVE Answered(j)' <=> Answered(j)
    <3>1. j..(n + 1) = j..n \cup {n + 1} /\ j..n \subseteq 1..n
      BY <1>1, <1>4
    <3> QED
      BY <1>1, <1>3, <3>1 DEF Answered, User
  <2> QED
    BY <2>1
<1>6. ~Answered(n + 1)'
  <2> PICK i : i = n + 1
    OBVIOUS
  <2>1. i..i = {i}
    BY <1>1
  <2>2. ~Answered(i)'
    BY <1>1, <1>3, <2>1 DEF Answered, User
  <2> QED
    BY <2>2
<1>7. /\ receipts' \in Seq(Receipts) /\ DOMAIN receipts = 1..m /\ m \in Nat /\ Len(receipts') = m + 1
      /\ DOMAIN receipts' = 1..(m + 1) /\ receipts'[1] = x
      /\ \A k \in 2..(m + 1) : receipts'[k] = receipts[k - 1]
  <2> PICK q : q = receipts
    OBVIOUS
  <2> PICK p : p = <<x>> \o q
    OBVIOUS
  <2>1. q \in Seq(Receipts) /\ m = Len(q) /\ receipts' = p
    BY DEF CheckInIInv, CheckInShapes, ReceiptKept, Pushed
  <2>2. DOMAIN q = 1..m /\ m \in Nat
    BY <2>1
  <2>3. p \in Seq(Receipts) /\ Len(p) = m + 1 /\ p[1] = x /\ \A k \in 2..(m + 1) : p[k] = q[k - 1]
    BY <2>1, <2>2
  <2>4. DOMAIN p = 1..(m + 1)
    BY <2>3
  <2> QED
    BY <2>1, <2>2, <2>3, <2>4
<1>8. PICK old \in [1..m -> Kept] : NewestFirst(old)
  BY DEF CheckInIInv, ReceiptsTold
<1> PICK place : place = [k \in 1..(m + 1) |-> IF k = 1 THEN n + 1 ELSE old[k - 1]]
  OBVIOUS
<1>9. /\ place[1] = n + 1
      /\ \A k \in 2..(m + 1) : k - 1 \in 1..m /\ place[k] = old[k - 1] /\ place[k] \in Kept
      /\ \A k \in 1..(m + 1) : k = 1 \/ k \in 2..(m + 1)
  <2>1. 1 \in 1..(m + 1) /\ \A k \in 1..(m + 1) : k = 1 \/ k \in 2..(m + 1)
    BY <1>7
  <2>2. \A k \in 2..(m + 1) : k - 1 \in 1..m /\ k \in 1..(m + 1) /\ k # 1
    BY <1>7
  <2> QED
    BY <2>1, <2>2
<1>10. place \in [1..(m + 1) -> Kept']
  <2>1. \A k \in 1..(m + 1) : place[k] \in Kept'
    BY <1>4, <1>9
  <2> QED
    BY <2>1
<1>11. \A k, l \in 1..(m + 1) : k < l => place[l] < place[k]
  <2>1. ASSUME NEW k \in 1..(m + 1), NEW l \in 1..(m + 1), k < l PROVE place[l] < place[k]
    <3>1. l \in 2..(m + 1) /\ place[l] = old[l - 1] /\ place[l] \in Kept /\ l - 1 \in 1..m
      BY <1>9, <2>1
    <3>2. CASE k = 1
      <4>1. place[l] \in 1..n /\ place[k] = n + 1
        BY <1>4, <1>9, <3>1, <3>2
      <4> QED
        BY <1>1, <4>1
    <3>3. CASE k \in 2..(m + 1)
      <4>1. k - 1 \in 1..m /\ k - 1 < l - 1 /\ place[k] = old[k - 1]
        BY <1>9, <2>1, <3>3
      <4>2. old[l - 1] < old[k - 1]
        BY <1>7, <1>8, <3>1, <4>1 DEF NewestFirst
      <4> QED
        BY <3>1, <4>1, <4>2
    <3> QED
      BY <1>9, <3>2, <3>3
  <2> QED
    BY <2>1
<1>12. \A j \in Kept' : \E k \in 1..(m + 1) : place[k] = j
  <2>1. ASSUME NEW j \in Kept PROVE \E k \in 1..(m + 1) : place[k] = j
    <3>1. PICK k \in 1..m : old[k] = j
      BY <1>7, <1>8 DEF NewestFirst
    <3>2. k + 1 \in 2..(m + 1) /\ (k + 1) - 1 = k /\ k + 1 \in 1..(m + 1)
      BY <1>7
    <3>3. place[k + 1] = old[k]
      BY <1>9, <3>2
    <3> QED
      BY <3>1, <3>2, <3>3
  <2>2. 1 \in 1..(m + 1)
    BY <1>7
  <2> QED
    BY <1>4, <1>9, <2>1, <2>2
<1>13. \A k \in 1..(m + 1) : ReceiptOf(k, place[k])'
  <2>1. ASSUME NEW k \in 1..(m + 1) PROVE ReceiptOf(k, place[k])'
    <3> PICK j : j = place[k]
      OBVIOUS
    <3>1. CASE k = 1
      <4>1. j = n + 1
        BY <1>9, <3>1
      <4>2. ~Answered(j)' /\ talk'[j].at = now /\ receipts'[k].at = now /\ receipts'[k].answered = 0
        BY <1>1, <1>3, <1>6, <1>7, <3>1, <4>1
      <4>3. ReceiptOf(k, j)'
        BY <4>2 DEF ReceiptOf
      <4> QED
        BY <4>3
    <3>2. CASE k \in 2..(m + 1)
      <4> PICK i : i = k - 1
        OBVIOUS
      <4>1. i \in 1..m /\ j = old[i] /\ j \in Kept /\ receipts'[k] = receipts[i]
        BY <1>7, <1>9, <3>2
      <4>2. ReceiptOf(i, j)
        BY <1>7, <1>8, <4>1 DEF NewestFirst
      <4>3. ReceiptOf(k, j)'
        BY <1>1, <1>4, <1>5, <4>1, <4>2 DEF ReceiptOf
      <4> QED
        BY <4>3
    <3> QED
      BY <1>9, <3>1, <3>2
  <2> QED
    BY <2>1
<1>14. NewestFirst(place)'
  BY <1>7, <1>11, <1>12, <1>13 DEF NewestFirst
<1> QED
  BY <1>7, <1>10, <1>14 DEF ReceiptsTold


-----------------------------------------------------------------------------
(* The steps of the schedule.                                              *)

\* The user speaks, in a turn that ends well or not.
LEMMA UserSpeaks ==
    ASSUME CheckInIInv, NEW says \in {"plain", "mention", "resolve"},
           UserTurn(says) \/ UserTurnFails(says)
    PROVE  CheckInIInv'
<1> PICK kept \in BOOLEAN : (kept <=> UserTurn(says)) /\ (~kept => UserTurnFails(says))
  OBVIOUS
<1> PICK n : n = now
  OBVIOUS
<1> PICK r : r = [by |-> "user", at |-> n, says |-> says, about |-> 0, kept |-> kept]
  OBVIOUS
<1> PICK l : l = Len(talk) + 1
  OBVIOUS
<1>1. n \in 1..Horizon /\ n \in 0..Horizon /\ 0 \in 0..Horizon /\ n # 0 /\ CheckInShapes
  BY CheckInAssumption DEF CheckInIInv, CheckInShapes, CheckInAssumption
<1>2. r \in Told /\ r.at = now /\ r.by = "user" /\ r.says = says /\ r.kept = kept
  BY <1>1 DEF Told
<1>3. /\ now' = now /\ Mentions(says) /\ attempts' = attempts /\ draft' = draft
      /\ draft.step # "drafting" /\ lapses' \in 0..MaxLapses
      /\ (kept => AnsweredNow) /\ (~kept => receipts' = receipts)
  <2>1. CASE UserTurn(says)
    BY <2>1 DEF UserTurn, AnsweredNow, CheckInIInv, CheckInShapes
  <2>2. CASE ~UserTurn(says)
    <3>1. UserTurnFails(says) /\ ~kept
      BY <2>2
    <3>2. lapses \in 0..MaxLapses /\ lapses > 0 /\ lapses' = lapses - 1 /\ MaxLapses \in Nat
      BY <3>1, CheckInAssumption DEF UserTurnFails, CheckInIInv, CheckInShapes, CheckInAssumption
    <3>3. lapses' \in 0..MaxLapses
      BY <3>2
    <3> QED
      BY <3>1, <3>3 DEF UserTurnFails
  <2> QED
    BY <2>1, <2>2
<1>4. Says(r)
  <2>1. CASE kept
    BY <2>1 DEF UserTurn, Says, ByUser
  <2>2. CASE ~kept
    BY <2>2 DEF UserTurnFails, Says, ByUser
  <2> QED
    BY <2>1, <2>2
<1>5. /\ talk' \in Seq(Told) /\ DOMAIN talk' = 1..l /\ talk'[l] = r /\ l \in DOMAIN talk'
      /\ Len(talk') = l /\ l \in Nat
  <2> PICK k : k = Len(talk)
    OBVIOUS
  <2>1. /\ k \in Nat /\ l = k + 1 /\ talk' \in Seq(Told) /\ DOMAIN talk' = 1..(k + 1) /\ talk'[k + 1] = r
        /\ Len(talk') = k + 1
    BY <1>1, <1>2, <1>4, RecordAdded
  <2> QED
    BY <2>1
<1>6. ReceiptsTold' /\ receipts' \in Seq(Receipts)
  <2>1. CASE kept
    BY <1>2, <1>3, <1>4, <2>1, ReceiptsAnswered, AnswersTyped
  <2>2. CASE ~kept
    BY <1>1, <1>2, <1>3, <1>4, <2>2, ReceiptsStay DEF CheckInShapes
  <2> QED
    BY <2>1, <2>2
<1>7. ~CheckIn(l)' /\ User(l)'
  BY <1>2, <1>5 DEF CheckIn, User
<1>8. /\ TalkOrdered' /\ EarnedAll' /\ RestedAll'
      /\ thread' = thread /\ r.says \notin {"mention", "resolve"} => ThreadMentioned'
  <2>1. AttemptsGrow
    BY <1>3 DEF AttemptsGrow
  <2> QED
    BY <1>2, <1>3, <1>4, <1>7, <2>1, TalkGoesOn, RestGoesOn
<1>9. ThreadMentioned' /\ thread' \in 0..Horizon
  <2>1. CASE says = "mention"
    <3>1. thread' = n /\ talk'[l].says = "mention" /\ talk'[l].at = n
      BY <1>2, <1>3, <1>5, <2>1 DEF Mentions
    <3>2. (l + 1)..(Len(talk') + 1 - 1) = {}
      BY <1>5
    <3>3. LastWord(l, Len(talk) + 1)'
      BY <1>7, <3>1, <3>2 DEF LastWord
    <3> QED
      BY <1>1, <1>5, <3>1, <3>3 DEF ThreadMentioned
  <2>2. CASE says = "resolve"
    BY <1>1, <1>3, <2>2 DEF Mentions, ThreadMentioned
  <2>3. CASE says = "plain"
    BY <1>1, <1>2, <1>3, <1>8, <2>3 DEF Mentions, CheckInShapes
  <2> QED
    BY <2>1, <2>2, <2>3
<1>10. AttemptsOrdered'
  <2> PICK k : k = Len(talk)
    OBVIOUS
  <2>1. DOMAIN talk = 1..k /\ \A j \in 1..k : talk'[j] = talk[j] /\ j \in DOMAIN talk'
    BY <1>1, <1>2, <1>4, RecordAdded
  <2>2. \A a \in DOMAIN attempts :
           /\ attempts[a].at <= now
           /\ \A b \in 1..a : attempts[a].at <= attempts[b].at
           /\ attempts[a].outcome = "published" => \E j \in DOMAIN talk' : attempts[a].at <= talk'[j].at
    BY <2>1 DEF CheckInIInv, AttemptsOrdered
  <2> QED
    BY <1>3, <2>2 DEF AttemptsOrdered
<1>11. CheckInShapes'
  BY <1>1, <1>3, <1>5, <1>6, <1>9 DEF CheckInShapes
<1> QED
  BY <1>6, <1>8, <1>9, <1>10, <1>11 DEF CheckInIInv

\* An attempt is written down, and with it the draft is over.
LEMMA AttemptWritten ==
    ASSUME CheckInIInv, NEW outcome \in {"published", "failed", "interrupted"}, Attempted(outcome),
           draft.step = "drafting"
    PROVE  /\ attempts' \in Seq(Tries) /\ AttemptsGrow
           /\ \A a \in DOMAIN attempts' :
                 /\ attempts'[a].at <= now
                 /\ \A b \in 1..a : attempts'[a].at <= attempts'[b].at
                 /\ attempts'[a].outcome = "published" =>
                       outcome = "published" \/ \E j \in DOMAIN talk : attempts'[a].at <= talk[j].at
<1> PICK row : row = [at |-> draft.at, outcome |-> outcome]
  OBVIOUS
<1> PICK m : m = Len(attempts)
  OBVIOUS
<1>1. /\ row \in Tries /\ row.at = draft.at /\ row.outcome = outcome
      /\ attempts' = Pushed(row, attempts) /\ CheckInShapes
  <2>1. draft.at \in 0..Horizon
    BY DEF CheckInIInv, CheckInShapes, Drafts
  <2> QED
    BY <2>1 DEF CheckInIInv, Tries, Attempted
<1>2. /\ m \in Nat /\ DOMAIN attempts = 1..m /\ DOMAIN attempts' = 1..(m + 1)
      /\ attempts' \in Seq(Tries) /\ attempts'[1] = row
      /\ \A a \in 1..m : attempts'[a + 1] = attempts[a]
  BY <1>1, RowPushed
<1>3. /\ draft.at <= now /\ draft.at \in Nat /\ \A j \in DOMAIN talk : talk[j].at <= draft.at
      /\ \A a \in 1..m : attempts[a].at <= draft.at /\ attempts[a].at <= now
      /\ \A a \in 1..m : \A b \in 1..a : attempts[a].at <= attempts[b].at
      /\ \A a \in 1..m : attempts[a].outcome = "published" =>
                             \E j \in DOMAIN talk : attempts[a].at <= talk[j].at
  <2>1. draft.at \in Nat
    BY CheckInAssumption DEF CheckInIInv, CheckInShapes, Drafts, CheckInAssumption
  <2> QED
    BY <1>2, <2>1 DEF CheckInIInv, AttemptsOrdered
<1>4. AttemptsGrow
  BY <1>1, <1>3 DEF AttemptsGrow
<1>5. ASSUME NEW a \in DOMAIN attempts'
      PROVE  /\ attempts'[a].at <= now
             /\ \A b \in 1..a : attempts'[a].at <= attempts'[b].at
             /\ attempts'[a].outcome = "published" =>
                   outcome = "published" \/ \E j \in DOMAIN talk : attempts'[a].at <= talk[j].at
  <2>1. CASE a = 1
    <3>1. \A b \in 1..a : b = 1
      BY <2>1
    <3>2. attempts'[a] = row /\ row.at <= row.at
      BY <1>1, <1>2, <1>3, <2>1
    <3> QED
      BY <1>1, <1>2, <1>3, <2>1, <3>1, <3>2
  <2>2. CASE a # 1
    <3> PICK c : c = a - 1
      OBVIOUS
    <3>1. c \in 1..m /\ a = c + 1 /\ attempts'[a] = attempts[c]
      BY <1>2, <2>2
    <3>2. ASSUME NEW b \in 1..a PROVE attempts'[a].at <= attempts'[b].at
      <4>1. CASE b = 1
        BY <1>1, <1>2, <1>3, <3>1, <4>1
      <4>2. CASE b # 1
        <5>1. b - 1 \in 1..c /\ b - 1 \in 1..m /\ (b - 1) + 1 = b
          BY <1>2, <3>1, <4>2
        <5>2. attempts'[b] = attempts[b - 1]
          BY <1>2, <5>1
        <5> QED
          BY <1>3, <3>1, <5>1, <5>2
      <4> QED
        BY <4>1, <4>2
    <3> QED
      BY <1>3, <3>1, <3>2
  <2> QED
    BY <2>1, <2>2
<1> QED
  BY <1>2, <1>4, <1>5

LEMMA DraftsTyped == NoDraft \in Drafts /\ NoDraft.step # "drafting"
<1>1. 0 \in 0..Horizon
  BY CheckInAssumption DEF CheckInAssumption
<1> QED
  BY <1>1 DEF NoDraft, Drafts

\* What the conversation does not show changes.
LEMMA ConversationRests ==
    ASSUME CheckInIInv, UNCHANGED <<talk, receipts, thread>>, CheckInShapes', now <= now',
           AttemptsGrow, AttemptsOrdered'
    PROVE  CheckInIInv'
<1>1. TalkOrdered'
  <2>1. \A j \in DOMAIN talk : talk[j].at <= now => talk[j].at <= now'
    BY ReceiptsHeld DEF CheckInShapes
  <2> QED
    BY <2>1 DEF CheckInIInv, TalkOrdered
<1>2. ThreadMentioned' /\ EarnedAll'
  <2>1. EarnedAll'
    <3>1. \A i : /\ UnansweredBefore(i)' = UnansweredBefore(i) /\ AnsweredBefore(i)' = AnsweredBefore(i)
                 /\ (User(i)' <=> User(i)) /\ (CheckIn(i)' <=> CheckIn(i))
      BY DEF User, CheckIn, UnansweredBefore, AnsweredBefore
    <3>2. \A u, i : LastWord(u, i)' <=> LastWord(u, i)
      BY <3>1 DEF LastWord
    <3>3. \A i : EarnedAt(i)' <=> EarnedAt(i)
      BY <3>1, <3>2 DEF EarnedAt, Paused
    <3>4. EarnedAll' <=> \A i \in DOMAIN talk' : CheckIn(i)' => EarnedAt(i)'
      BY DEF EarnedAll
    <3> QED
      BY <3>1, <3>3, <3>4 DEF CheckInIInv, EarnedAll
  <2> QED
    BY <2>1 DEF CheckInIInv, ThreadMentioned, User, LastWord
<1>3. ReceiptsTold'
  BY DEF CheckInIInv, ReceiptsTold, NewestFirst, ReceiptOf, Kept, Answered, User, CheckIn
<1>4. RestedAll'
  <2> PICK n : n = Len(talk)
    OBVIOUS
  <2>1. DOMAIN talk = 1..n /\ \A j \in 1..n : talk'[j] = talk[j]
    BY ReceiptsHeld
  <2>2. ASSUME NEW i \in 1..n, CheckIn(i)' PROVE BackedOff(i)'
    <3>1. BackedOff(i)
      BY <2>1, <2>2 DEF CheckInIInv, RestedAll, CheckIn
    <3> QED
      BY <2>1, <3>1, RestedStays
  <2>3. RestedAll' <=> \A i \in DOMAIN talk' : CheckIn(i)' => BackedOff(i)'
    BY DEF RestedAll
  <2> QED
    BY <2>1, <2>2, <2>3
<1> QED
  BY <1>1, <1>2, <1>3, <1>4 DEF CheckInIInv

\* The poll reads, claims the turn or finds it taken.
LEMMA PollSteps ==
    ASSUME CheckInIInv, ReadEligible \/ ClaimDraft \/ TurnTaken PROVE CheckInIInv'
<1>1. UNCHANGED <<now, talk, receipts, attempts, thread, lapses>>
  BY DEF ReadEligible, ClaimDraft, TurnTaken
<1>2. /\ draft' \in Drafts
      /\ draft'.step = "drafting" => draft'.at = now
  <2> PICK n : n = now
    OBVIOUS
  <2> PICK th : th = thread
    OBVIOUS
  <2> PICK d : d = draft
    OBVIOUS
  <2>1. n \in 0..Horizon /\ th \in 0..Horizon /\ d \in Drafts /\ 0 \in 0..Horizon
    BY CheckInAssumption DEF CheckInIInv, CheckInShapes, CheckInAssumption
  <2>2. CASE ReadEligible
    <3> PICK e : e = [step |-> "read", at |-> 0, thread |-> th]
      OBVIOUS
    <3>1. e \in Drafts /\ e.step # "drafting"
      BY <2>1 DEF Drafts
    <3> QED
      BY <2>2, <3>1 DEF ReadEligible
  <2>3. CASE ClaimDraft
    <3> PICK e : e = [d EXCEPT !.step = "drafting", !.at = n]
      OBVIOUS
    <3>1. e \in Drafts /\ e.at = n
      BY <2>1 DEF Drafts
    <3> QED
      BY <2>3, <3>1 DEF ClaimDraft
  <2>4. CASE TurnTaken
    BY <2>4, DraftsTyped DEF TurnTaken
  <2> QED
    BY <2>2, <2>3, <2>4
<1>3. CheckInShapes' /\ now <= now' /\ AttemptsGrow
  BY <1>1, <1>2, ReceiptsHeld DEF CheckInIInv, CheckInShapes, AttemptsGrow
<1>4. AttemptsOrdered'
  <2>1. \A j \in DOMAIN talk : talk[j].at <= now
    BY DEF CheckInIInv, TalkOrdered
  <2>2. \A a \in DOMAIN attempts :
           /\ attempts[a].at <= now
           /\ \A b \in 1..a : attempts[a].at <= attempts[b].at
           /\ attempts[a].outcome = "published" => \E j \in DOMAIN talk : attempts[a].at <= talk[j].at
    BY DEF CheckInIInv, AttemptsOrdered
  <2>3. now <= now
    BY ReceiptsHeld
  <2> QED
    BY <1>1, <1>2, <2>1, <2>2, <2>3 DEF AttemptsOrdered
<1> QED
  BY <1>1, <1>3, <1>4, ConversationRests

\* A draft comes to nothing.
LEMMA DraftEnds ==
    ASSUME CheckInIInv, Interrupt \/ DraftFails \/ Withdraw PROVE CheckInIInv'
<1>1. PICK outcome \in {"failed", "interrupted"} : Attempted(outcome)
  BY DEF Interrupt, Withdraw, DraftFails
<1>2. draft.step = "drafting" /\ UNCHANGED <<now, talk, receipts, thread>> /\ draft' = NoDraft
  BY DEF Interrupt, Withdraw, DraftFails
<1>3. lapses' \in 0..MaxLapses
  <2>1. lapses \in 0..MaxLapses /\ MaxLapses \in Nat
    BY CheckInAssumption DEF CheckInIInv, CheckInShapes, CheckInAssumption
  <2>2. lapses' = lapses \/ (lapses > 0 /\ lapses' = lapses - 1)
    BY DEF Interrupt, Withdraw, DraftFails
  <2> QED
    BY <2>1, <2>2
<1>4. /\ outcome \in {"published", "failed", "interrupted"} /\ outcome # "published"
      /\ NoDraft \in Drafts /\ NoDraft.step # "drafting"
  BY DraftsTyped
<1>5. /\ attempts' \in Seq(Tries) /\ AttemptsGrow
      /\ \A a \in DOMAIN attempts' :
            /\ attempts'[a].at <= now
            /\ \A b \in 1..a : attempts'[a].at <= attempts'[b].at
            /\ attempts'[a].outcome = "published" =>
                  outcome = "published" \/ \E j \in DOMAIN talk : attempts'[a].at <= talk[j].at
  BY <1>1, <1>2, <1>4, AttemptWritten
<1>6. CheckInShapes' /\ now <= now'
  BY <1>2, <1>3, <1>4, <1>5, ReceiptsHeld DEF CheckInIInv, CheckInShapes
<1>7. AttemptsOrdered'
  BY <1>2, <1>4, <1>5 DEF AttemptsOrdered
<1> QED
  BY <1>2, <1>5, <1>6, <1>7, ConversationRests

\* The clock goes on.
LEMMA TimePasses ==
    ASSUME CheckInIInv, NEW pause \in Pauses, Pass(pause) PROVE CheckInIInv'
<1>1. UNCHANGED <<talk, receipts, attempts, thread, draft, lapses>> /\ pause \in Nat
      /\ now' = now + pause /\ now + pause <= Horizon /\ now \in Nat /\ now >= 1
  BY CheckInAssumption, ReceiptsHeld DEF Pass, CheckInIInv, CheckInShapes, CheckInAssumption
<1>2. now' \in 1..Horizon /\ now <= now' /\ AttemptsGrow
  BY <1>1, CheckInAssumption DEF CheckInAssumption, AttemptsGrow
<1>3. CheckInShapes'
  BY <1>1, <1>2 DEF CheckInIInv, CheckInShapes
<1>4. AttemptsOrdered'
  <2>1. \A x \in Nat : x <= now => x <= now'
    BY <1>1
  <2>2. draft.at \in Nat /\ \A a \in DOMAIN attempts : attempts[a].at \in Nat
    BY CheckInAssumption, AttemptsHeld DEF CheckInIInv, CheckInShapes, Drafts, CheckInAssumption
  <2>3. draft.step = "drafting" => draft.at <= now'
    BY <2>1, <2>2 DEF CheckInIInv, AttemptsOrdered
  <2>4. \A a \in DOMAIN attempts : attempts[a].at <= now'
    BY <2>1, <2>2 DEF CheckInIInv, AttemptsOrdered
  <2> QED
    BY <1>1, <2>3, <2>4 DEF CheckInIInv, AttemptsOrdered
<1> QED
  BY <1>1, <1>2, <1>3, <1>4, ConversationRests

\* A check-in is shown, with or without its receipt.
LEMMA CheckInShown ==
    ASSUME CheckInIInv, Publish \/ ReceiptLost PROVE CheckInIInv'
<1> PICK kept \in BOOLEAN : (kept => Publish) /\ (~kept => ReceiptLost)
  OBVIOUS
<1> PICK n : n = now
  OBVIOUS
<1> PICK th : th = thread
  OBVIOUS
<1> PICK r : r = [by |-> "companion", at |-> n, says |-> "check-in", about |-> th, kept |-> kept]
  OBVIOUS
<1> PICK x : x = [at |-> n, answered |-> 0]
  OBVIOUS
<1> PICK l : l = Len(talk) + 1
  OBVIOUS
<1>1. n \in 1..Horizon /\ th \in 0..Horizon /\ 0 \in 0..Horizon /\ CheckInShapes
  BY CheckInAssumption DEF CheckInIInv, CheckInShapes, CheckInAssumption
<1>2. r \in Told /\ r.at = now /\ r.says = "check-in" /\ r.kept = kept /\ r = ByCompanion(kept)
      /\ x \in Receipts /\ x.at = now /\ x.answered = 0
  BY <1>1 DEF Told, Receipts, ByCompanion
<1>3. /\ Eligible /\ now' = now /\ thread' = thread /\ draft' = NoDraft
      /\ draft.step = "drafting" /\ draft.thread = thread
      /\ (kept => ReceiptKept(x)) /\ (~kept => receipts' = receipts)
      /\ Attempted("published") \/ attempts' = attempts
  BY DEF Publish, ReceiptLost, StillEligible, ReceiptKept
<1>4. Says(r) /\ lapses' \in 0..MaxLapses
  <2>1. talk' = Displayed(kept)
    <3>1. CASE kept
      BY <3>1 DEF Publish
    <3>2. CASE ~kept
      BY <3>2 DEF ReceiptLost
    <3> QED
      BY <3>1, <3>2
  <2>2. Says(r)
    BY <1>3, <2>1 DEF Says, Displayed
  <2>3. lapses \in 0..MaxLapses /\ MaxLapses \in Nat
    BY CheckInAssumption DEF CheckInIInv, CheckInShapes, CheckInAssumption
  <2>4. lapses' = lapses \/ (lapses > 0 /\ lapses' = lapses - 1)
    BY DEF Publish, ReceiptLost
  <2> QED
    BY <2>2, <2>3, <2>4
<1>5. EarnedAt(l)' /\ BackedOff(l)'
  BY <1>2, <1>3, <1>4, PublishedIsEarned, PublishedIsRested
<1>6. attempts' \in Seq(Tries) /\ AttemptsGrow /\ AttemptsOrdered'
  <2> PICK k : k = Len(talk)
    OBVIOUS
  <2>1. /\ k \in Nat /\ DOMAIN talk = 1..k /\ DOMAIN talk' = 1..(k + 1) /\ l = k + 1
        /\ \A j \in 1..k : talk'[j] = talk[j]
        /\ talk'[l] = r
    BY <1>1, <1>2, <1>4, RecordAdded
  <2>2. /\ l \in DOMAIN talk' /\ talk'[l].at = now
        /\ \A j \in DOMAIN talk : j \in DOMAIN talk' /\ talk'[j] = talk[j]
    BY <1>2, <2>1
  <2>3. \A a \in DOMAIN attempts :
           /\ attempts[a].at <= now
           /\ \A b \in 1..a : attempts[a].at <= attempts[b].at
           /\ attempts[a].outcome = "published" => \E j \in DOMAIN talk : attempts[a].at <= talk[j].at
    BY DEF CheckInIInv, AttemptsOrdered
  <2>4. draft'.step # "drafting" /\ now' = now
    BY <1>3, DraftsTyped
  <2>5. CASE attempts' = attempts
    <3>1. \A a \in DOMAIN attempts' :
             /\ attempts'[a].at <= now'
             /\ \A b \in 1..a : attempts'[a].at <= attempts'[b].at
             /\ attempts'[a].outcome = "published" => \E j \in DOMAIN talk' : attempts'[a].at <= talk'[j].at
      BY <2>2, <2>3, <2>4, <2>5
    <3>2. AttemptsOrdered'
      BY <2>4, <3>1 DEF AttemptsOrdered
    <3> QED
      BY <1>1, <2>5, <3>2 DEF AttemptsGrow, CheckInShapes
  <2>6. CASE attempts' # attempts
    <3>1. Attempted("published") /\ draft.step = "drafting"
      BY <1>3, <2>6
    <3>2. attempts' \in Seq(Tries) /\ AttemptsGrow
          /\ \A a \in DOMAIN attempts' : /\ attempts'[a].at <= now
                                        /\ \A b \in 1..a : attempts'[a].at <= attempts'[b].at
      BY <3>1, AttemptWritten
    <3>3. \A a \in DOMAIN attempts' : \E j \in DOMAIN talk' : attempts'[a].at <= talk'[j].at
      BY <2>2, <3>2
    <3>4. AttemptsOrdered'
      BY <2>4, <3>2, <3>3 DEF AttemptsOrdered
    <3> QED
      BY <3>2, <3>4
  <2> QED
    BY <2>5, <2>6
<1>7. ReceiptsTold' /\ receipts' \in Seq(Receipts)
  <2>1. CASE kept
    BY <1>2, <1>3, <1>4, <2>1, ReceiptAdded
  <2>2. CASE ~kept
    BY <1>1, <1>2, <1>3, <1>4, <2>2, ReceiptsStay DEF CheckInShapes
  <2> QED
    BY <2>1, <2>2
<1>8. NoDraft \in Drafts
  BY DraftsTyped
<1>9. talk' \in Seq(Told)
  BY <1>1, <1>2, <1>4, RecordAdded
<1>10. CheckInShapes'
  BY <1>1, <1>3, <1>4, <1>6, <1>7, <1>8, <1>9 DEF CheckInShapes
<1>11. TalkOrdered' /\ ThreadMentioned' /\ EarnedAll' /\ RestedAll'
  BY <1>2, <1>3, <1>4, <1>5, <1>6, TalkGoesOn, RestGoesOn
<1> QED
  BY <1>6, <1>7, <1>10, <1>11 DEF CheckInIInv

LEMMA CheckInNextIInv ==
    ASSUME CheckInIInv, [CheckInNext]_checkInVars PROVE CheckInIInv'
<1>1. CASE CheckInNext
  BY <1>1, UserSpeaks, PollSteps, DraftEnds, TimePasses, CheckInShown DEF CheckInNext
<1>2. CASE UNCHANGED checkInVars
  <2>1. UNCHANGED <<talk, receipts, thread>> /\ CheckInShapes' /\ now <= now'
    BY <1>2, ReceiptsHeld DEF checkInVars, CheckInIInv, CheckInShapes
  <2>2. AttemptsGrow /\ AttemptsOrdered'
    BY <1>2 DEF checkInVars, CheckInIInv, AttemptsGrow, AttemptsOrdered
  <2> QED
    BY <2>1, <2>2, ConversationRests
<1> QED
  BY <1>1, <1>2

LEMMA CheckInInitIInv == ASSUME CheckInInit PROVE CheckInIInv
<1> USE CheckInAssumption DEF CheckInInit, CheckInAssumption
<1>1. talk = <<>> /\ receipts = <<>> /\ Len(talk) = 0 /\ Len(receipts) = 0 /\ DOMAIN talk = {}
      /\ DOMAIN receipts = {} /\ DOMAIN attempts = {}
  OBVIOUS
<1>2. CheckInShapes
  <2>1. talk \in Seq(Told) /\ receipts \in Seq(Receipts) /\ attempts \in Seq(Tries)
    OBVIOUS
  <2>2. now \in 1..Horizon /\ thread \in 0..Horizon /\ lapses \in 0..MaxLapses /\ 0 \in 0..Horizon
    OBVIOUS
  <2> QED
    BY <2>1, <2>2, DraftsTyped DEF CheckInShapes
<1>3. TalkOrdered /\ ThreadMentioned /\ EarnedAll /\ RestedAll /\ AttemptsOrdered
  BY <1>1, DraftsTyped DEF TalkOrdered, ThreadMentioned, EarnedAll, RestedAll, AttemptsOrdered
<1>4. ReceiptsTold
  <2> PICK place : place = [k \in 1..0 |-> 0]
    OBVIOUS
  <2>1. place \in [1..0 -> Kept]
    OBVIOUS
  <2>2. NewestFirst(place)
    BY <1>1 DEF NewestFirst, Kept
  <2> QED
    BY <1>1, <2>1, <2>2 DEF ReceiptsTold
<1> QED
  BY <1>2, <1>3, <1>4 DEF CheckInIInv

\* The inductive invariant holds throughout.
THEOREM CheckInInductive == CheckInSpec => []CheckInIInv
<1>1. CheckInInit => CheckInIInv
  BY CheckInInitIInv
<1>2. CheckInIInv /\ [CheckInNext]_checkInVars => CheckInIInv'
  BY CheckInNextIInv
<1> QED
  BY <1>1, <1>2, PTL DEF CheckInSpec

\* The invariant gives the types of the schedule.
LEMMA CheckInTyped == ASSUME CheckInIInv PROVE CheckInTypeOK
<1> PICK t : t = talk
  OBVIOUS
<1> PICK q : q = receipts
  OBVIOUS
<1> PICK a : a = attempts
  OBVIOUS
<1>1. t \in Seq(Told) /\ q \in Seq(Receipts) /\ a \in Seq(Tries)
  BY DEF CheckInIInv, CheckInShapes
<1>2. /\ \A i \in DOMAIN t : t[i] \in Told
      /\ \A i \in DOMAIN q : q[i] \in Receipts
      /\ \A i \in DOMAIN a : a[i] \in Tries
  BY <1>1
<1>3. /\ \A i \in DOMAIN t : t[i].by \in {"user", "companion"} /\ t[i].at \in 1..Horizon
      /\ \A i \in DOMAIN q : q[i].at \in 1..Horizon
      /\ \A i \in DOMAIN a : a[i].outcome \in {"published", "failed", "interrupted"}
  BY <1>2 DEF Told, Receipts, Tries
<1> QED
  BY <1>3 DEF CheckInTypeOK, CheckInIInv, CheckInShapes, Drafts

\* However turns, drafts, failures and crashes interleave, and with whole turns
\* between the reading of the eligibility and the claim of the turn, a check-in is
\* about the user's last word on a thread that is due, follows a silence of the
\* user, keeps the distance its unanswered predecessors and the failed attempts ask
\* for, and takes up an answered thread only after a fresh mention
\* (maybe_send_proactive_checkin, evaluate_proactive_eligibility, _ignored_streak,
\* _failed_attempt_streak, afk_floors).
THEOREM CheckInsAreEarned == CheckInSpec => [](CheckInTypeOK /\ CheckInsEarned)
<1>1. CheckInIInv => CheckInTypeOK /\ CheckInsEarned
  BY CheckInTyped, EarnedEach DEF CheckInIInv
<1> QED
  BY <1>1, CheckInInductive, PTL

-----------------------------------------------------------------------------
(* Episode compaction.                                                     *)

Episodes == SUBSET (SUBSET (1..MaxExchanges))
CompactionStages == {"none", "planning", "compacting", "publishing", "done", "leaving"}
Rollovers == [stopped : BOOLEAN, pending : BOOLEAN, deferred : BOOLEAN, expected : Nat,
              worker : CompactionStages, snapshot : Nat, kept : Episodes]

RolloverShapes ==
    /\ exchanges \in Seq({"complete", "excluded"}) /\ Len(exchanges) <= MaxExchanges
    /\ published \in [generation : Nat, episodes : Episodes]
    /\ bindings \in [made : Owners, current : BOOLEAN]
    /\ rollover \in [Owners -> Rollovers]
    /\ activeKey \in BOOLEAN /\ wanted \in BOOLEAN
    /\ compactionFaults \in 0..MaxCompactionFaults

\* The key keeps the workers of a process apart.
OneWorker ==
    /\ \A b \in Owners : rollover[b].worker # "none" => activeKey
    /\ \A b, c \in Owners : rollover[b].worker # "none" /\ rollover[c].worker # "none" => b = c

\* A worker sees the archive and the generation as they are, but for turns it
\* came too early for.
Informed(r) ==
    /\ r.worker \in {"planning", "compacting", "publishing"} =>
          r.snapshot <= Len(exchanges) /\ UNION published.episodes \subseteq 1..r.snapshot
    /\ r.worker \in {"compacting", "publishing"} => r.kept = published.episodes
WorkerInformed == \A b \in Owners : Informed(rollover[b])

\* A generation covers older exchanges only, each of them once.
EpisodesApart ==
    /\ UNION published.episodes \subseteq Older(Len(exchanges))
    /\ \A e1, e2 \in published.episodes : e1 = e2 \/ e1 \cap e2 = {}

\* No generation loses an episode of the one before.
CoverageGrows == [][published.episodes \subseteq published'.episodes]_rolloverVars

RolloverIInv == RolloverShapes /\ OneWorker /\ WorkerInformed /\ EpisodesApart

Longer ==
    /\ exchanges' \in Seq({"complete", "excluded"})
    /\ Len(exchanges) <= Len(exchanges') /\ Len(exchanges') <= MaxExchanges
    /\ \A k \in 1..Len(exchanges) : exchanges'[k] = exchanges[k]

LEMMA RolloverConstants ==
    /\ MaxExchanges \in Nat /\ RecentExchanges \in Nat /\ MaxCompactionFaults \in Nat
    /\ MaxBindings \in Nat \ {0} /\ 1 \in Owners
  BY RolloverAssumption DEF RolloverAssumption, Owners

\* What was older stays so.
LEMMA OlderStays ==
    ASSUME RolloverShapes, Longer, NEW n \in Nat, n <= Len(exchanges),
           NEW m \in Nat, n <= m, m <= Len(exchanges')
    PROVE  Older(n) \subseteq Older(m)'
<1> DEFINE C == {k \in 1..n : exchanges[k] = "complete"}
           D == {k \in 1..m : exchanges'[k] = "complete"}
<1>1. Len(exchanges) \in Nat /\ C \subseteq D /\ C \subseteq 1..n /\ D \subseteq 1..m
  BY DEF RolloverShapes, Longer
<1>2. Older(n) = {k \in C : Cardinality({j \in C : j > k}) >= RecentExchanges}
  BY DEF Older
<1>3. Older(m)' = {k \in D : Cardinality({j \in D : j > k}) >= RecentExchanges}
  BY DEF Older
<1> HIDE DEF C, D
<1>4. ASSUME NEW k \in Older(n) PROVE k \in Older(m)'
  <2> PICK A : A = {j \in C : j > k}
    OBVIOUS
  <2> PICK B : B = {j \in D : j > k}
    OBVIOUS
  <2>1. A \subseteq B /\ B \subseteq 1..m
    BY <1>1
  <2>2. IsFiniteSet(1..m)
    BY FS_Interval
  <2>3. IsFiniteSet(B)
    BY <2>1, <2>2, FS_Subset
  <2>4. IsFiniteSet(A) /\ Cardinality(A) <= Cardinality(B)
    BY <2>1, <2>3, FS_Subset
  <2>5. Cardinality(A) \in Nat /\ Cardinality(B) \in Nat /\ RecentExchanges \in Nat
    BY <2>3, <2>4, FS_CardinalityType, RolloverConstants
  <2>6. k \in C /\ Cardinality(A) >= RecentExchanges
    BY <1>2
  <2>7. k \in D /\ Cardinality(B) >= RecentExchanges
    BY <1>1, <2>4, <2>5, <2>6
  <2> QED
    BY <1>3, <2>7
<1> QED
  BY <1>4

LEMMA ArchiveRests == ASSUME RolloverShapes, exchanges' = exchanges PROVE Longer
<1>1. Len(exchanges) \in Nat
  BY DEF RolloverShapes
<1> QED
  BY <1>1 DEF RolloverShapes, Longer

\* One rollover changes, while the generation stays.
Changed(b, q) == rollover' = [rollover EXCEPT ![b] = q]

LEMMA RolloverChanges ==
    ASSUME RolloverIInv, NEW b \in Owners, NEW q \in Rollovers, Changed(b, q), Longer,
           published' = published, bindings' \in [made : Owners, current : BOOLEAN],
           activeKey' \in BOOLEAN, wanted' \in BOOLEAN, compactionFaults' \in 0..MaxCompactionFaults,
           Informed(q)',
           q.worker # "none" => activeKey' /\ (rollover[b].worker # "none" \/ ~activeKey),
           activeKey => activeKey' \/ (q.worker = "none" /\ rollover[b].worker # "none")
    PROVE  RolloverIInv'
<1>1. /\ rollover \in [Owners -> Rollovers] /\ rollover' \in [Owners -> Rollovers] /\ rollover'[b] = q
      /\ \A c \in Owners : c # b => rollover'[c] = rollover[c]
  BY DEF RolloverIInv, RolloverShapes, Changed
<1>2. RolloverShapes'
  BY <1>1 DEF RolloverIInv, RolloverShapes, Longer
<1>3. OneWorker'
  BY <1>1 DEF RolloverIInv, OneWorker
<1>4. WorkerInformed'
  <2>1. Len(exchanges) \in Nat /\ Len(exchanges') \in Nat /\ Len(exchanges) <= Len(exchanges')
    BY DEF RolloverIInv, RolloverShapes, Longer
  <2>2. ASSUME NEW c \in Owners, c # b PROVE Informed(rollover[c])'
    <3> PICK r : r = rollover[c]
      OBVIOUS
    <3>1. r \in Rollovers /\ Informed(r) /\ rollover'[c] = r
      BY <1>1, <2>2 DEF RolloverIInv, WorkerInformed
    <3>2. r.snapshot \in Nat
      BY <3>1 DEF Rollovers
    <3>3. Informed(r)'
      BY <2>1, <3>1, <3>2 DEF Informed
    <3> QED
      BY <3>1, <3>3
  <2>3. Informed(rollover[b])'
    BY <1>1
  <2> QED
    BY <2>2, <2>3 DEF WorkerInformed
<1>5. EpisodesApart'
  <2> PICK n : n = Len(exchanges)
    OBVIOUS
  <2> PICK m : m = Len(exchanges')
    OBVIOUS
  <2>1. n \in Nat /\ m \in Nat /\ n <= m /\ RolloverShapes
    BY DEF RolloverIInv, RolloverShapes, Longer
  <2>2. Older(n) \subseteq Older(m)'
    BY <2>1, OlderStays
  <2>3. UNION published.episodes \subseteq Older(n)
    BY DEF RolloverIInv, EpisodesApart
  <2>4. UNION published'.episodes \subseteq Older(m)'
    BY <2>2, <2>3
  <2> QED
    BY <2>4 DEF RolloverIInv, EpisodesApart
<1> QED
  BY <1>2, <1>3, <1>4, <1>5 DEF RolloverIInv

\* A worker is launched when its rollover may.
LEMMA StartPendingKeeps ==
    ASSUME RolloverIInv, NEW r \in Rollovers, r.worker = rollover[Current].worker,
           r.snapshot = rollover[Current].snapshot, r.kept = rollover[Current].kept,
           NEW n, n = Len(exchanges'), StartPending(r, n), Longer,
           UNCHANGED <<published, bindings, compactionFaults>>, wanted' \in BOOLEAN
    PROVE  RolloverIInv'
<1> PICK b : b = Current
  OBVIOUS
<1>1. b \in Owners /\ bindings' \in [made : Owners, current : BOOLEAN] /\ rollover[b] \in Rollovers
      /\ compactionFaults' \in 0..MaxCompactionFaults /\ activeKey \in BOOLEAN
  BY DEF RolloverIInv, RolloverShapes, Current
<1>2. n \in Nat /\ Len(exchanges) \in Nat /\ Len(exchanges) <= n
  BY DEF Longer, RolloverIInv, RolloverShapes
<1>3. CASE Launches(r)
  <2> PICK q : q = [r EXCEPT !.pending = FALSE, !.worker = "planning", !.snapshot = n]
    OBVIOUS
  <2>1. Changed(b, q) /\ activeKey' = TRUE
    BY <1>3 DEF StartPending, Changed
  <2>2. q \in Rollovers /\ q.worker = "planning" /\ q.snapshot = n
    BY <1>2 DEF Rollovers, CompactionStages
  <2>3. UNION published.episodes \subseteq 1..n
    <3>1. UNION published.episodes \subseteq 1..Len(exchanges)
      BY DEF RolloverIInv, EpisodesApart, Older
    <3>2. 1..Len(exchanges) \subseteq 1..n
      BY <1>2
    <3> QED
      BY <3>1, <3>2
  <2>4. Informed(q)'
    BY <1>2, <2>2, <2>3 DEF Informed
  <2>5. ~activeKey
    BY <1>3 DEF Launches
  <2> QED
    BY <1>1, <2>1, <2>2, <2>4, <2>5, RolloverChanges
<1>4. CASE ~Launches(r)
  <2>1. Changed(b, r) /\ activeKey' = activeKey
    BY <1>1, <1>4 DEF StartPending, Changed
  <2>2. Informed(r)'
    <3>1. Informed(rollover[b]) /\ r.snapshot \in Nat
      BY <1>1 DEF RolloverIInv, WorkerInformed, Rollovers
    <3> QED
      BY <1>2, <3>1 DEF Informed
  <2>3. r.worker # "none" => activeKey
    BY <1>1 DEF RolloverIInv, OneWorker
  <2> QED
    BY <1>1, <2>1, <2>2, <2>3, RolloverChanges
<1> QED
  BY <1>3, <1>4

LEMMA TurnKeeps ==
    ASSUME RolloverIInv, NEW record \in {"complete", "excluded"}, Turn(record) PROVE RolloverIInv'
<1> PICK x : x = exchanges
  OBVIOUS
<1> PICK y : y = Append(x, record)
  OBVIOUS
<1>1. x \in Seq({"complete", "excluded"}) /\ Len(x) < MaxExchanges /\ MaxExchanges \in Nat
  BY RolloverConstants DEF Turn, RolloverIInv, RolloverShapes
<1>2. /\ y \in Seq({"complete", "excluded"}) /\ Len(y) = Len(x) + 1 /\ Len(x) \in Nat
      /\ \A k \in 1..Len(x) : y[k] = x[k]
  BY <1>1
<1>3. exchanges' = y
  BY DEF Turn
<1>4. Longer /\ Len(exchanges') = Len(exchanges) + 1
  BY <1>1, <1>2, <1>3 DEF Longer
<1> PICK r : r = rollover[Current]
  OBVIOUS
<1>5. r \in Rollovers /\ StartPending(r, Len(exchanges'))
      /\ UNCHANGED <<published, bindings, compactionFaults>> /\ wanted' \in BOOLEAN
  BY <1>4 DEF Turn, RolloverIInv, RolloverShapes, Current
<1> QED
  BY <1>4, <1>5, StartPendingKeeps

LEMMA RequestRangeKeeps == ASSUME RolloverIInv, RequestRange PROVE RolloverIInv'
<1> PICK g : g = published.generation
  OBVIOUS
<1> PICK old : old = rollover[Current]
  OBVIOUS
<1> PICK r : r = [old EXCEPT !.pending = TRUE, !.expected = g]
  OBVIOUS
<1>1. old \in Rollovers /\ g \in Nat /\ exchanges' = exchanges /\ wanted' \in BOOLEAN
      /\ UNCHANGED <<published, bindings, compactionFaults>>
  BY DEF RequestRange, RolloverIInv, RolloverShapes, Current
<1>2. r \in Rollovers /\ r.worker = old.worker /\ r.snapshot = old.snapshot /\ r.kept = old.kept
  BY <1>1 DEF Rollovers
<1>3. StartPending(r, Len(exchanges'))
  BY <1>1 DEF RequestRange
<1>4. Longer
  BY <1>1, ArchiveRests DEF RolloverIInv
<1> QED
  BY <1>1, <1>2, <1>3, <1>4, StartPendingKeeps


\* A rollover changes without its worker.
LEMMA AsideKeeps ==
    ASSUME RolloverIInv, Unbind \/ Rebind \/ FindRange \/ \E b \in Owners : RetryTimePasses(b)
    PROVE  RolloverIInv'
<1>1. /\ Longer /\ compactionFaults' \in 0..MaxCompactionFaults /\ UNCHANGED <<exchanges, published, activeKey>>
      /\ activeKey' \in BOOLEAN /\ wanted' \in BOOLEAN
  <2>1. UNCHANGED <<exchanges, published, activeKey, compactionFaults>> /\ wanted' \in BOOLEAN
    BY DEF Unbind, Rebind, FindRange, RetryTimePasses, RolloverIInv, RolloverShapes
  <2> QED
    BY <2>1, ArchiveRests DEF RolloverIInv, RolloverShapes
<1>2. \A b \in Owners : rollover[b].worker # "none" => activeKey
  BY DEF RolloverIInv, OneWorker
<1>3. ASSUME NEW b \in Owners, NEW q \in Rollovers, Changed(b, q), q.worker = rollover[b].worker,
             q.snapshot = rollover[b].snapshot, q.kept = rollover[b].kept,
             bindings' \in [made : Owners, current : BOOLEAN]
      PROVE  RolloverIInv'
  <2>1. Informed(q)'
    BY <1>1, <1>3 DEF RolloverIInv, WorkerInformed, Informed
  <2> QED
    BY <1>1, <1>2, <1>3, <2>1, RolloverChanges
<1>4. CASE Unbind
  <2> PICK b : b = Current
    OBVIOUS
  <2> PICK old : old = rollover[b]
    OBVIOUS
  <2> PICK q : q = [old EXCEPT !.stopped = TRUE, !.pending = FALSE]
    OBVIOUS
  <2>1. b \in Owners /\ old \in Rollovers
    BY DEF RolloverIInv, RolloverShapes, Current
  <2>2. q \in Rollovers /\ q.worker = old.worker /\ q.snapshot = old.snapshot /\ q.kept = old.kept
    BY <2>1 DEF Rollovers
  <2>3. Changed(b, q)
    BY <1>4, <2>1 DEF Unbind, Changed, RolloverIInv, RolloverShapes
  <2>4. bindings' \in [made : Owners, current : BOOLEAN]
    BY <1>4 DEF Unbind, RolloverIInv, RolloverShapes
  <2> QED
    BY <1>3, <2>1, <2>2, <2>3, <2>4
<1>5. CASE Rebind \/ FindRange
  <2> PICK b : b = Current
    OBVIOUS
  <2> PICK old : old = rollover[b]
    OBVIOUS
  <2>1. b \in Owners /\ old \in Rollovers /\ rollover \in [Owners -> Rollovers]
    BY DEF RolloverIInv, RolloverShapes, Current
  <2>2. rollover' = rollover /\ bindings' \in [made : Owners, current : BOOLEAN]
    <3>1. CASE Rebind
      <4>1. Current + 1 \in Owners
        BY <2>1, <3>1, RolloverConstants DEF Rebind, Owners, Current, RolloverIInv, RolloverShapes
      <4> QED
        BY <3>1, <4>1 DEF Rebind
    <3>2. CASE FindRange
      BY <3>2 DEF FindRange, RolloverIInv, RolloverShapes
    <3> QED
      BY <1>5, <3>1, <3>2
  <2>3. Changed(b, old)
    BY <2>1, <2>2 DEF Changed
  <2> QED
    BY <1>3, <2>1, <2>2, <2>3
<1>6. ASSUME NEW b \in Owners, RetryTimePasses(b) PROVE RolloverIInv'
  <2> PICK old : old = rollover[b]
    OBVIOUS
  <2> PICK q : q = [old EXCEPT !.deferred = FALSE]
    OBVIOUS
  <2>1. old \in Rollovers
    BY DEF RolloverIInv, RolloverShapes
  <2>2. q \in Rollovers /\ q.worker = old.worker /\ q.snapshot = old.snapshot /\ q.kept = old.kept
    BY <2>1 DEF Rollovers
  <2>3. Changed(b, q) /\ bindings' \in [made : Owners, current : BOOLEAN]
    BY <1>6, <2>1 DEF RetryTimePasses, Changed, RolloverIInv, RolloverShapes
  <2> QED
    BY <1>3, <2>1, <2>2, <2>3
<1> QED
  BY <1>4, <1>5, <1>6

\* The worker goes on, but for its publication.
LEMMA WorkerKeeps ==
    ASSUME RolloverIInv, NEW b \in Owners,
           \/ PlanEpisode(b) \/ EnterPublication(b) \/ WorkerSettles(b) \/ WorkerLeaves(b)
           \/ WorkerFails(b)
    PROVE  RolloverIInv'
<1> PICK old : old = rollover[b]
  OBVIOUS
<1>1. /\ Longer /\ UNCHANGED <<exchanges, published>> /\ wanted' \in BOOLEAN
      /\ compactionFaults' \in 0..MaxCompactionFaults /\ bindings' \in [made : Owners, current : BOOLEAN]
  <2>1. UNCHANGED <<exchanges, published, bindings, wanted>>
    BY DEF PlanEpisode, EnterPublication, WorkerSettles, WorkerLeaves, WorkerFails
  <2>2. compactionFaults' \in 0..MaxCompactionFaults
    BY RolloverConstants
       DEF PlanEpisode, EnterPublication, WorkerSettles, WorkerLeaves, WorkerFails, RolloverIInv, RolloverShapes
  <2> QED
    BY <2>1, <2>2, ArchiveRests DEF RolloverIInv, RolloverShapes
<1>2. old \in Rollovers /\ Informed(old) /\ (old.worker # "none" => activeKey) /\ activeKey \in BOOLEAN
  BY DEF RolloverIInv, RolloverShapes, OneWorker, WorkerInformed
<1>3. ASSUME NEW q \in Rollovers, Changed(b, q), q.worker # "none", old.worker # "none",
             activeKey' = activeKey, Informed(q)
      PROVE  RolloverIInv'
  <2>1. Informed(q)'
    BY <1>1, <1>3 DEF Informed
  <2> QED
    BY <1>1, <1>2, <1>3, <2>1, RolloverChanges
<1>4. CASE PlanEpisode(b)
  <2> PICK k : k = Retained(old.snapshot)
    OBVIOUS
  <2> PICK q : q = [old EXCEPT !.worker = "compacting", !.kept = k]
    OBVIOUS
  <2>1. old.worker = "planning" /\ activeKey' = activeKey
    BY <1>4 DEF PlanEpisode
  <2>2. UNION published.episodes \subseteq 1..old.snapshot /\ old.snapshot <= Len(exchanges)
    BY <1>2, <2>1 DEF Informed
  <2>3. k = published.episodes /\ k \in Episodes
    BY <2>2 DEF Retained, RolloverIInv, RolloverShapes
  <2>4. q \in Rollovers /\ q.worker = "compacting" /\ q.snapshot = old.snapshot /\ q.kept = k
    BY <1>2, <2>3 DEF Rollovers, CompactionStages
  <2>5. Changed(b, q)
    BY <1>4, <1>2 DEF PlanEpisode, Changed, RolloverIInv, RolloverShapes
  <2>6. Informed(q)
    BY <2>2, <2>3, <2>4 DEF Informed
  <2> QED
    BY <1>3, <2>1, <2>4, <2>5, <2>6
<1>5. CASE EnterPublication(b)
  <2> PICK to \in {"publishing", "done"} : rollover' = [rollover EXCEPT ![b].worker = to]
    BY <1>5 DEF EnterPublication, Worker
  <2> PICK q : q = [old EXCEPT !.worker = to]
    OBVIOUS
  <2>1. old.worker = "compacting" /\ activeKey' = activeKey
    BY <1>5 DEF EnterPublication, Worker
  <2>2. q \in Rollovers /\ q.worker = to /\ q.snapshot = old.snapshot /\ q.kept = old.kept
    BY <1>2 DEF Rollovers, CompactionStages
  <2>3. Changed(b, q)
    BY <1>2 DEF Changed, RolloverIInv, RolloverShapes
  <2>4. Informed(q)
    BY <1>2, <2>1, <2>2 DEF Informed
  <2> QED
    BY <1>3, <2>1, <2>2, <2>3, <2>4
<1>6. CASE WorkerSettles(b)
  <2> PICK q : q = Concluded(old)
    OBVIOUS
  <2>1. old.worker = "done" /\ activeKey' = activeKey /\ Changed(b, q)
    BY <1>6 DEF WorkerSettles, Changed
  <2>2. q \in Rollovers /\ q.worker = "leaving"
    BY <1>2 DEF Concluded, Rollovers, CompactionStages
  <2>3. Informed(q)
    BY <2>2 DEF Informed
  <2> QED
    BY <1>3, <2>1, <2>2, <2>3
<1>7. CASE WorkerFails(b)
  <2> PICK p : p = (old.pending \/ ~old.stopped)
    OBVIOUS
  <2> PICK d : d = (old.deferred \/ ~old.stopped)
    OBVIOUS
  <2> PICK q : q = [old EXCEPT !.worker = "leaving", !.pending = p, !.deferred = d]
    OBVIOUS
  <2>1. old.worker # "none" /\ activeKey' = activeKey
    BY <1>7 DEF WorkerFails
  <2>2. p \in BOOLEAN /\ d \in BOOLEAN
    OBVIOUS
  <2>3. q \in Rollovers /\ q.worker = "leaving"
    BY <1>2, <2>2 DEF Rollovers, CompactionStages
  <2>4. Changed(b, q)
    BY <1>7, <1>2 DEF WorkerFails, Changed, RolloverIInv, RolloverShapes
  <2>5. Informed(q)
    BY <2>3 DEF Informed
  <2> QED
    BY <1>3, <2>1, <2>3, <2>4, <2>5
<1>8. CASE WorkerLeaves(b)
  <2> PICK q : q = [old EXCEPT !.worker = "none"]
    OBVIOUS
  <2>1. old.worker = "leaving" /\ activeKey' = FALSE
    BY <1>8 DEF WorkerLeaves, Worker
  <2>2. q \in Rollovers /\ q.worker = "none"
    BY <1>2 DEF Rollovers, CompactionStages
  <2>3. Changed(b, q)
    BY <1>8, <1>2 DEF WorkerLeaves, Worker, Changed, RolloverIInv, RolloverShapes
  <2>4. Informed(q)'
    BY <2>2 DEF Informed
  <2> QED
    BY <1>1, <1>2, <2>1, <2>2, <2>3, <2>4, RolloverChanges
<1> QED
  BY <1>4, <1>5, <1>6, <1>7, <1>8

\* The next episode is cut from what no episode covers.
LEMMA NextEpisodeIsNew ==
    ASSUME RolloverShapes, NEW n \in Nat, n <= Len(exchanges), NEW es, NEW e \in NextEpisode(n, es)
    PROVE  /\ e \subseteq Older(n) /\ e \cap UNION es = {} /\ e \in SUBSET (1..MaxExchanges)
           /\ NextEpisode(n, es) = {e}
<1>1. e \subseteq Uncovered(n, es) /\ NextEpisode(n, es) = {e}
  BY DEF NextEpisode
<1>2. Older(n) \subseteq 1..n
  BY DEF Older
<1>3. 1..n \subseteq 1..MaxExchanges
  BY RolloverConstants DEF RolloverShapes
<1> QED
  BY <1>1, <1>2, <1>3 DEF Uncovered

\* A generation is published: the episodes of the one before, and the new one.
LEMMA PublishKeeps ==
    ASSUME RolloverIInv, NEW b \in Owners, PublishGeneration(b)
    PROVE  RolloverIInv' /\ published.episodes \subseteq published'.episodes
<1> PICK old : old = rollover[b]
  OBVIOUS
<1> PICK n : n = old.snapshot
  OBVIOUS
<1> PICK es : es = published.episodes
  OBVIOUS
<1> PICK more : more = NextEpisode(n, es)
  OBVIOUS
<1> PICK N : N = Len(exchanges)
  OBVIOUS
<1>1. /\ old \in Rollovers /\ old.worker = "publishing" /\ old.kept = es /\ n \in Nat /\ n <= N /\ N \in Nat
      /\ es \in Episodes /\ RolloverShapes /\ N <= MaxExchanges
  BY DEF PublishGeneration, Worker, RolloverIInv, RolloverShapes, WorkerInformed, Informed, Rollovers
<1>2. /\ UNCHANGED <<exchanges, bindings, activeKey, wanted, compactionFaults>>
      /\ published' = [generation |-> published.generation + 1, episodes |-> es \cup more]
      /\ rollover' = [rollover EXCEPT ![b].worker = "done"]
  BY <1>1 DEF PublishGeneration, Worker
<1>3. \A e \in more : /\ e \subseteq Older(n) /\ e \cap UNION es = {} /\ e \in SUBSET (1..MaxExchanges)
                      /\ \A f \in more : f = e
  BY <1>1, NextEpisodeIsNew
<1>4. Older(n) \subseteq Older(N)
  <2>1. Longer
    BY <1>1, <1>2, ArchiveRests
  <2>2. Older(n) \subseteq Older(N)'
    BY <1>1, <1>2, <2>1, OlderStays
  <2>3. Older(N)' = Older(N)
    BY <1>2 DEF Older
  <2> QED
    BY <2>2, <2>3
<1>5. RolloverShapes'
  <2>1. published' \in [generation : Nat, episodes : Episodes]
    <3> PICK g : g = published.generation + 1
      OBVIOUS
    <3> PICK all : all = es \cup more
      OBVIOUS
    <3>1. g \in Nat
      BY DEF RolloverIInv, RolloverShapes
    <3>2. all \in Episodes
      BY <1>1, <1>3 DEF Episodes
    <3> QED
      BY <1>2, <3>1, <3>2
  <2>2. rollover' \in [Owners -> Rollovers]
    <3> PICK q : q = [old EXCEPT !.worker = "done"]
      OBVIOUS
    <3>1. q \in Rollovers
      BY <1>1 DEF Rollovers, CompactionStages
    <3>2. rollover' = [rollover EXCEPT ![b] = q]
      BY <1>1, <1>2 DEF RolloverShapes
    <3> QED
      BY <1>1, <3>1, <3>2 DEF RolloverShapes
  <2> QED
    BY <1>1, <1>2, <2>1, <2>2 DEF RolloverShapes
<1>6. /\ rollover'[b].worker = "done"
      /\ \A c \in Owners : c # b => rollover'[c] = rollover[c] /\ rollover[c].worker = "none"
  BY <1>1, <1>2 DEF RolloverShapes, RolloverIInv, OneWorker
<1>7. OneWorker'
  BY <1>1, <1>2, <1>6 DEF RolloverIInv, OneWorker
<1>8. WorkerInformed'
  BY <1>6 DEF WorkerInformed, Informed
<1>9. EpisodesApart'
  <2> PICK all : all = es \cup more
    OBVIOUS
  <2>1. UNION es \subseteq Older(N) /\ \A e1, e2 \in es : e1 = e2 \/ e1 \cap e2 = {}
    BY DEF RolloverIInv, EpisodesApart
  <2>2. UNION all \subseteq Older(N)
    BY <1>3, <1>4, <2>1
  <2>3. \A e1, e2 \in all : e1 = e2 \/ e1 \cap e2 = {}
    <3>1. \A e1 \in es, e2 \in more : e1 \cap e2 = {}
      BY <1>3
    <3> QED
      BY <1>3, <2>1, <3>1
  <2>4. published'.episodes = all /\ Older(Len(exchanges))' = Older(N)
    BY <1>2 DEF Older
  <2> QED
    BY <2>2, <2>3, <2>4 DEF EpisodesApart
<1>10. published.episodes \subseteq published'.episodes
  BY <1>2
<1> QED
  BY <1>5, <1>7, <1>8, <1>9, <1>10 DEF RolloverIInv

LEMMA ProcessDiesKeeps == ASSUME RolloverIInv, ProcessDies PROVE RolloverIInv'
<1> PICK new : new = [NewRollover EXCEPT !.stopped = TRUE]
  OBVIOUS
<1>1. NewRollover \in Rollovers /\ NewRollover.worker = "none" /\ new \in Rollovers /\ new.worker = "none"
  BY DEF NewRollover, Rollovers, CompactionStages, Episodes
<1>2. rollover' \in [Owners -> Rollovers] /\ \A b \in Owners : rollover'[b].worker = "none"
  BY <1>1 DEF ProcessDies
<1>3. RolloverShapes'
  <2>1. RolloverShapes
    BY DEF RolloverIInv
  <2>2. compactionFaults' \in 0..MaxCompactionFaults
    BY <2>1, RolloverConstants DEF ProcessDies, RolloverShapes
  <2>3. bindings' \in [made : Owners, current : BOOLEAN]
    <3>1. bindings' = [made |-> bindings.made, current |-> FALSE]
      BY <2>1 DEF ProcessDies, RolloverShapes
    <3> QED
      BY <2>1, <3>1 DEF RolloverShapes
  <2>4. activeKey' \in BOOLEAN /\ wanted' \in BOOLEAN
    BY DEF ProcessDies
  <2>5. exchanges' = exchanges /\ published' = published
    BY DEF ProcessDies
  <2> QED
    BY <1>2, <2>1, <2>2, <2>3, <2>4, <2>5 DEF RolloverShapes
<1>4. OneWorker' /\ WorkerInformed'
  BY <1>2 DEF OneWorker, WorkerInformed, Informed
<1>5. EpisodesApart'
  BY DEF ProcessDies, RolloverIInv, EpisodesApart, Older
<1> QED
  BY <1>3, <1>4, <1>5 DEF RolloverIInv

LEMMA RolloverStutters == ASSUME RolloverIInv, UNCHANGED rolloverVars PROVE RolloverIInv'
<1>1. RolloverShapes' /\ OneWorker'
  BY DEF rolloverVars, RolloverIInv, RolloverShapes, OneWorker
<1>2. WorkerInformed'
  BY DEF rolloverVars, RolloverIInv, WorkerInformed, Informed
<1>3. EpisodesApart'
  BY DEF rolloverVars, RolloverIInv, EpisodesApart, Older
<1> QED
  BY <1>1, <1>2, <1>3 DEF RolloverIInv

LEMMA RolloverNextIInv ==
    ASSUME RolloverIInv, [RolloverNext]_rolloverVars PROVE RolloverIInv'
<1>1. CASE \E record \in {"complete", "excluded"} : Turn(record)
  BY <1>1, TurnKeeps
<1>2. CASE IdlePage \/ Unbind \/ Rebind \/ ProcessDies
  BY <1>2, AsideKeeps, RequestRangeKeeps, ProcessDiesKeeps DEF IdlePage
<1>3. CASE \E b \in Owners : WorkerStep(b) \/ WorkerFails(b)
  BY <1>3, AsideKeeps, WorkerKeeps, PublishKeeps DEF WorkerStep
<1>4. CASE UNCHANGED rolloverVars
  BY <1>4, RolloverStutters
<1> QED
  BY <1>1, <1>2, <1>3, <1>4 DEF RolloverNext

LEMMA RolloverGrows ==
    ASSUME RolloverIInv, [RolloverNext]_rolloverVars
    PROVE  published.episodes \subseteq published'.episodes
<1>1. ASSUME NEW b \in Owners, PublishGeneration(b) PROVE published.episodes \subseteq published'.episodes
  BY <1>1, PublishKeeps
<1>2. CASE UNCHANGED published
  BY <1>2
<1>3. (\E b \in Owners : PublishGeneration(b)) \/ UNCHANGED published
  BY DEF RolloverNext, rolloverVars, Turn, IdlePage, FindRange, RequestRange, Unbind, Rebind, ProcessDies,
         WorkerStep, PlanEpisode, EnterPublication, WorkerSettles, WorkerLeaves, RetryTimePasses, WorkerFails
<1> QED
  BY <1>1, <1>2, <1>3

LEMMA RolloverInitIInv == ASSUME RolloverInit PROVE RolloverIInv
<1> USE RolloverConstants DEF RolloverInit
<1>1. exchanges \in Seq({"complete", "excluded"}) /\ Len(exchanges) = 0
  OBVIOUS
<1>2. published \in [generation : Nat, episodes : Episodes]
  BY DEF Episodes
<1>3. NewRollover \in Rollovers /\ NewRollover.worker = "none"
  BY DEF NewRollover, Rollovers, CompactionStages, Episodes
<1>4. rollover \in [Owners -> Rollovers] /\ \A b \in Owners : rollover[b].worker = "none"
  BY <1>3
<1>5. compactionFaults \in 0..MaxCompactionFaults
  OBVIOUS
<1>6. bindings \in [made : Owners, current : BOOLEAN] /\ activeKey \in BOOLEAN /\ wanted \in BOOLEAN
  OBVIOUS
<1>7. RolloverShapes
  BY <1>1, <1>2, <1>4, <1>5, <1>6 DEF RolloverShapes
<1>8. OneWorker /\ WorkerInformed
  BY <1>4 DEF OneWorker, WorkerInformed, Informed
<1>9. EpisodesApart
  BY DEF EpisodesApart
<1> QED
  BY <1>7, <1>8, <1>9 DEF RolloverIInv

\* The inductive invariant holds throughout.
THEOREM RolloverInductive == RolloverSpec => []RolloverIInv
<1>1. RolloverInit => RolloverIInv
  BY RolloverInitIInv
<1>2. RolloverIInv /\ [RolloverNext]_rolloverVars => RolloverIInv'
  BY RolloverNextIInv
<1> QED
  BY <1>1, <1>2, PTL DEF RolloverSpec

LEMMA RolloverTyped == ASSUME RolloverIInv PROVE RolloverTypeOK
  BY DEF RolloverIInv, RolloverShapes, Rollovers, CompactionStages, Episodes, RolloverTypeOK

\* However workers of old and new bindings, turns, failures and crashes
\* interleave, the episodes of a generation cover older exchanges only, each
\* of them once (_ACTIVE_ROLLOVER_KEYS, historical_append_plan).
THEOREM EpisodesStayApart == RolloverSpec => [](RolloverTypeOK /\ EpisodesApart)
<1>1. RolloverIInv => RolloverTypeOK /\ EpisodesApart
  BY RolloverTyped DEF RolloverIInv
<1> QED
  BY <1>1, RolloverInductive, PTL

\* And a new generation keeps every episode of the one it replaces.
THEOREM CoverageNeverShrinks == RolloverSpec => CoverageGrows
<1>1. RolloverIInv /\ [RolloverNext]_rolloverVars
          => [published.episodes \subseteq published'.episodes]_rolloverVars
  BY RolloverGrows
<1> QED
  BY <1>1, RolloverInductive, PTL DEF RolloverSpec, CoverageGrows

-----------------------------------------------------------------------------
(* The composition.                                                        *)

\* Each service keeps what it keeps on its own.
ServicesIInv == ObservationIInv /\ HostIInv /\ RuntimeIInv /\ CheckInIInv /\ RolloverIInv

\* A step of one service leaves the others where they were.
LEMMA ServicesStep ==
    ASSUME [Next]_backgroundVars
    PROVE  /\ [ObservationNext]_observationVars /\ [HostNext]_hostVars /\ [RuntimeNext]_runtimeVars
           /\ [CheckInNext]_checkInVars /\ [RolloverNext]_rolloverVars
<1>1. CASE Observes(ObservationNext)
  BY <1>1 DEF Observes
<1>2. CASE Connects(HostNext)
  BY <1>2 DEF Connects
<1>3. CASE Serves(RuntimeNext)
  BY <1>3 DEF Serves
<1>4. CASE ChecksIn(CheckInNext)
  BY <1>4 DEF ChecksIn
<1>5. CASE Compacts(RolloverNext)
  BY <1>5 DEF Compacts
<1>6. CASE UNCHANGED backgroundVars
  BY <1>6 DEF backgroundVars
<1> QED
  BY <1>1, <1>2, <1>3, <1>4, <1>5, <1>6 DEF Next

LEMMA ServicesNextIInv == ASSUME ServicesIInv, [Next]_backgroundVars PROVE ServicesIInv'
<1>1. ObservationIInv' /\ HostIInv'
  BY ServicesStep, NextObservationIInv, HostNextIInv DEF ServicesIInv
<1>2. RuntimeIInv' /\ CheckInIInv' /\ RolloverIInv'
  BY ServicesStep, RuntimeNextIInv, CheckInNextIInv, RolloverNextIInv DEF ServicesIInv
<1> QED
  BY <1>1, <1>2 DEF ServicesIInv

\* Side by side, every service keeps its invariant.
THEOREM ServicesInductive == Spec => [](ServicesIInv /\ part \in Parts)
<1>1. Init => ServicesIInv /\ part \in Parts
  BY InitObservationIInv, HostInitIInv, RuntimeInitIInv, CheckInInitIInv, RolloverInitIInv
  DEF Init, ServicesIInv
<1>2. ServicesIInv /\ [Next]_backgroundVars => ServicesIInv'
  BY ServicesNextIInv
<1>3. part \in Parts /\ [Next]_backgroundVars => (part \in Parts)'
  BY DEF Next, Observes, Connects, Serves, ChecksIn, Compacts, backgroundVars
<1> QED
  BY <1>1, <1>2, <1>3, PTL DEF Spec

\* No service leaves its types, whatever the bounds of its instance.
THEOREM ServicesKeepTypes == Spec => []TypeOK
<1>1. ServicesIInv /\ part \in Parts => TypeOK
  BY ObservationTyped, HostImpliesType, RuntimeImpliesType, CheckInTyped, RolloverTyped
  DEF ServicesIInv, TypeOK
<1> QED
  BY <1>1, ServicesInductive, PTL

\* And each keeps its promise: slots, cursors and lookups say what the evidence
\* says, the frontend follows the bound character, every local server is known
\* and every check-in was due.
THEOREM ServicesAreSafe ==
    Spec => [](/\ SlotFollowsEvidence /\ CursorMeansSettled /\ LookupIsHonest
               /\ FrontendFollows /\ ServersKnown /\ CheckInsEarned)
<1>1. ServicesIInv => SlotFollowsEvidence /\ CursorMeansSettled /\ LookupIsHonest
  BY ObservationSlot, ObservationSettled, ObservationHonest DEF ServicesIInv
<1>2. ServicesIInv => FrontendFollows /\ ServersKnown /\ CheckInsEarned
  BY HostImpliesFollows, RuntimeImpliesKnown, EarnedEach DEF ServicesIInv, CheckInIInv
<1> QED
  BY <1>1, <1>2, ServicesInductive, PTL
=============================================================================
