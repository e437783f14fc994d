----------------------------- MODULE SceneControl -----------------------------
(***************************************************************************)
(* Scene commands: a click on a relation of the scene ("take off the       *)
(* blindfold"), or its silent clearing, from the frontend's request to the *)
(* row in the conversation and the character's reaction.                   *)
(*                                                                         *)
(* A command has an id and is delivered again when its answer was lost.    *)
(* The store takes the change and the wording of its event in one          *)
(* transaction; the event is then saved in the conversation, another file; *)
(* and a reaction is generated, if nothing else happened, in a turn of its *)
(* own.  Clicks, silent controls and typed turns interleave between these. *)
(*                                                                         *)
(* The scene is its list of current relations, newest first.  Of a typed   *)
(* turn only what meets a command is kept: it takes the floor, and its     *)
(* commit adds a record and may change the scene (TurnLifecycle has it).   *)
(***************************************************************************)
EXTENDS Naturals, FiniteSets, Sequences, SequencesExt

CONSTANTS MaxCommands, MaxDeliveries,
          MaxStatements,   \* typed turns
          MaxSetbacks      \* crashes and failed saves

ASSUME SceneControlAssumption ==
    {MaxCommands, MaxDeliveries, MaxStatements, MaxSetbacks} \subseteq Nat

VARIABLES scene,       \* the current relations, newest first
          request,     \* what a command asks for, and of which snapshot
          control,     \* the committed control event of a command
          story,       \* the conversation: memory, file and load error
          delivery,    \* each delivery of a command
          typed,       \* the typed turn
          floor,       \* the current turn, the turn lock, the interaction lock
          overruled,   \* turns whose cancel event is set
          setbacks     \* crashes and failed saves still allowed

sceneVars == <<scene, request, control, story, delivery, typed, floor,
               overruled, setbacks>>

Commands    == 1..MaxCommands
Deliveries  == 1..MaxDeliveries
Typing      == MaxDeliveries + 1
Speakers    == Deliveries \cup {Typing}
NoOne       == 0
NoRequest   == [kind |-> "none"]
NoControl   == [state |-> "none"]
NotDelivered == [at |-> "none", command |-> NoOne, duplicate |-> FALSE,
                 answer |-> "none"]

Entry(kind, c, revision) == [kind |-> kind, command |-> c, revision |-> revision]

\* The revision of continuity_snapshot: how many relations, and since when.
Revision(s) == [i \in DOMAIN s |-> s[i].from]

\* A statement puts two relations on top of the scene, of the same instant.
Changed(s, at) == <<[from |-> at, nth |-> 1], [from |-> at, nth |-> 2]>> \o s

(***************************************************************************)
(* The floor.                                                              *)
(***************************************************************************)

OwnsFloor(w) == floor.active = w /\ w \notin overruled

\* _claim_replacement_turn: a cancel event of its own for every claim.
ClaimFloor(w) ==
    /\ floor' = [floor EXCEPT !.active = w]
    /\ overruled' = (overruled \cup ({floor.active} \ {NoOne})) \ {w}

\* _finish_turn
Ended(f, w) == [f EXCEPT !.active = IF @ = w THEN NoOne ELSE @]

Moves(d, to) == delivery' = [delivery EXCEPT ![d].at = to]

\* An answer, or an exception, on its way out of both locks.
Answers(d, answer) ==
    delivery' = [delivery EXCEPT ![d].at = "leaving", ![d].answer = answer]

(***************************************************************************)
(* The frontend.                                                           *)
(***************************************************************************)

\* A click names a place in the list that the frontend shows.
Clicks(c, kind) ==
    /\ c = Cardinality({b \in Commands : request[b] # NoRequest}) + 1
    /\ \E i \in DOMAIN scene :
          request' = [request EXCEPT ![c] =
              [kind |-> kind, revision |-> Revision(scene), place |-> i, seen |-> scene[i]]]

\* A command whose answer did not arrive is sent again as it was.
SendsAgain(c, kind) == request[c].kind = kind /\ UNCHANGED request

\* Deliveries are counted, not told apart.
Arrives(d, c, kind) ==
    /\ d = Cardinality({e \in Deliveries : delivery[e].at # "none"}) + 1
    /\ Clicks(c, kind) \/ SendsAgain(c, kind)

\* apply_continuity_control of a gesture: it takes the floor before it waits.
DeliverGesture(d, c) ==
    /\ Arrives(d, c, "interact")
    /\ delivery' = [delivery EXCEPT ![d].at = "claimed", ![d].command = c]
    /\ ClaimFloor(d)
    /\ UNCHANGED <<scene, control, story, typed, setbacks>>

TakeInteraction(d) ==
    /\ delivery[d].at = "claimed" /\ floor.interaction = NoOne
    /\ Moves(d, "queued")
    /\ floor' = [floor EXCEPT !.interaction = d]
    /\ UNCHANGED <<scene, request, control, story, typed, overruled, setbacks>>

\* Push-to-talk takes the floor without an input yet.  The flag is read when
\* a reaction is due, so earlier is as late as then.
Overrule ==
    /\ floor.active \in Deliveries \ overruled
    /\ delivery[floor.active].at \in {"offered", "reacting"}
    /\ overruled' = overruled \cup {floor.active}
    /\ UNCHANGED <<scene, request, control, story, delivery, typed, floor, setbacks>>

(***************************************************************************)
(* The change.                                                             *)
(***************************************************************************)

Locked(d)   == [floor EXCEPT !.lock = d]
Unlocked(f) == [f EXCEPT !.lock = NoOne]

\* The turn lock is waited for; what follows is decided under it.
Enters(d) == delivery[d].at = "queued" /\ floor.lock = NoOne

UpToDate(r) == r.revision = Revision(scene)
Done(c)     == control[c] # NoControl

\* The relation at that place is cleared, in one transaction with the
\* acknowledgement and the wording of its event.
Clear(c, r) ==
    /\ scene' = RemoveAt(scene, r.place)
    /\ control' = [control EXCEPT ![c] =
            [state |-> "applied", cleared |-> scene[r.place],
             left |-> Revision(scene')]]

\* A command that was applied before is acknowledged, whatever it finds now.
FindDuplicate(d) ==
    /\ Enters(d) /\ Done(delivery[d].command)
    /\ delivery' = [delivery EXCEPT ![d].at = "recording", ![d].duplicate = TRUE]
    /\ floor' = Locked(d)
    /\ UNCHANGED <<scene, request, control, story, typed, overruled, setbacks>>

ApplyGesture(d) ==
    LET c == delivery[d].command
    IN  /\ Enters(d) /\ ~Done(c) /\ UpToDate(request[c])
        /\ Clear(c, request[c])
        /\ Moves(d, "recording")
        /\ floor' = Locked(d)
        /\ UNCHANGED <<request, story, typed, overruled, setbacks>>

\* Mutant: the exception passes the turn lock by.
RefuseStaleLocked(d) ==
    LET c == delivery[d].command
    IN  /\ Enters(d) /\ ~Done(c) /\ ~UpToDate(request[c])
        /\ Answers(d, "refused")
        /\ floor' = Locked(d)
        /\ UNCHANGED <<scene, request, control, story, typed, overruled, setbacks>>

RefuseStale(d) ==
    LET c == delivery[d].command
    IN  /\ Enters(d) /\ ~Done(c) /\ ~UpToDate(request[c])
        /\ Answers(d, "refused")
        /\ UNCHANGED <<scene, request, control, story, typed, floor, overruled, setbacks>>

\* A silent control runs in one piece, or not at all while a turn does.
ControlSilently(d, c) ==
    /\ Arrives(d, c, "clear")
    /\ LET r == request'[c]
       IN  /\ IF floor.lock = NoOne /\ ~Done(c) /\ UpToDate(r)
              THEN Clear(c, r)
              ELSE UNCHANGED <<scene, control>>
           /\ delivery' = [delivery EXCEPT ![d] = [NotDelivered EXCEPT
                   !.at = "leaving", !.command = c,
                   !.answer = IF floor.lock = NoOne /\ (Done(c) \/ UpToDate(r))
                              THEN "applied" ELSE "refused"]]
    /\ UNCHANGED <<story, typed, floor, overruled, setbacks>>

(***************************************************************************)
(* The event.                                                              *)
(***************************************************************************)

EventsOf(c, records) ==
    {i \in DOMAIN records : records[i].kind = "event" /\ records[i].command = c}

\* Conversation.is_message_persisted; the mutant trusts the list in memory.
PersistedInMemory(i) == i \in DOMAIN story.memory
Persisted(i)         == i \in DOMAIN story.archive /\ story.memory[i] = story.archive[i]

\* An event that is there already is only vouched for.
FindEvent(d) ==
    LET events == EventsOf(delivery[d].command, story.memory)
    IN  /\ delivery[d].at = "recording" /\ events # {}
        /\ Answers(d, IF \A i \in events : Persisted(i) THEN "committed" ELSE "refused")
        /\ floor' = Unlocked(floor)
        /\ UNCHANGED <<scene, request, control, story, typed, overruled, setbacks>>

MissingEvent(d) ==
    /\ delivery[d].at = "recording"
    /\ EventsOf(delivery[d].command, story.memory) = {}

\* load_scene_ui_control_record: what the transaction captured, never
\* today's scene.
EventOf(c) == Entry("event", c, control[c].left)

\* The event is saved, and only the first delivery offers a reaction to it.
SaveEvent(d) ==
    LET saved == Append(story.memory, EventOf(delivery[d].command))
    IN  /\ MissingEvent(d) /\ ~story.blocked
        /\ story' = [story EXCEPT !.memory = saved, !.archive = saved]
        /\ delivery' = [delivery EXCEPT ![d].answer = "committed",
                ![d].at = IF delivery[d].duplicate THEN "leaving" ELSE "offered"]
        /\ floor' = Unlocked(floor)
        /\ UNCHANGED <<scene, request, control, typed, overruled, setbacks>>

\* Conversation.save fails: after the rename, before it, or beyond reading the
\* file back.
FailedSaves(records) ==
    {[story EXCEPT !.memory = records, !.archive = records],
     [story EXCEPT !.memory = story.archive],
     [story EXCEPT !.memory = records, !.blocked = TRUE]}

SaveEventFails(d) ==
    /\ MissingEvent(d)
    /\ \/ /\ story.blocked
          /\ Answers(d, "pending")
          /\ UNCHANGED <<story, setbacks>>
       \/ /\ ~story.blocked /\ setbacks > 0
          /\ story' \in FailedSaves(Append(story.memory, EventOf(delivery[d].command)))
          /\ Answers(d, IF story'.archive # story.archive THEN "committed" ELSE "pending")
          /\ setbacks' = setbacks - 1
    /\ floor' = Unlocked(floor)
    /\ UNCHANGED <<scene, request, control, typed, overruled>>

(***************************************************************************)
(* The reaction: process_text_turn with a _SceneReaction.                  *)
(***************************************************************************)

\* Mutant: that it is still current is enough.
OwnsFloorOnly(d) == OwnsFloor(d)

\* _turn_is_current, and _scene_reaction_state_is_current of what it reacts to.
StillFits(d) ==
    /\ OwnsFloor(d)
    /\ control[delivery[d].command].left = Revision(scene)
    /\ \E i \in EventsOf(delivery[d].command, story.memory) : Persisted(i)

\* The turn ends: the claim, then the lock.
EndReaction(d) ==
    /\ Moves(d, "leaving")
    /\ floor' = Ended(Unlocked(floor), d)

BeginReaction(d) ==
    /\ delivery[d].at = "offered" /\ floor.lock = NoOne
    /\ IF StillFits(d)
       THEN Moves(d, "reacting") /\ floor' = Locked(d)
       ELSE EndReaction(d)
    /\ UNCHANGED <<scene, request, control, story, typed, overruled, setbacks>>

\* In the commit boundary, once the provider answered: the conversation is
\* saved as it is, and again with the reply.
CommitReaction(d) ==
    LET saved == Append(story.memory,
                        Entry("reaction", delivery[d].command, Revision(scene)))
    IN  /\ delivery[d].at = "reacting" /\ StillFits(d) /\ ~story.blocked
        /\ EndReaction(d)
        /\ \/ /\ story' = [story EXCEPT !.memory = saved, !.archive = saved]
              /\ UNCHANGED setbacks
           \/ /\ setbacks > 0
              /\ story' \in FailedSaves(story.memory) \cup FailedSaves(saved)
              /\ setbacks' = setbacks - 1
        /\ UNCHANGED <<scene, request, control, typed, overruled>>

\* Cancelled, no longer fitting, or without a provider.
WithdrawReaction(d) ==
    /\ delivery[d].at = "reacting"
    /\ EndReaction(d)
    /\ UNCHANGED <<scene, request, control, story, typed, overruled, setbacks>>

\* The answer is sent; what was held is given back.
Finished == [NotDelivered EXCEPT !.at = "done"]

Leave(d) ==
    /\ delivery[d].at = "leaving"
    /\ delivery' = [delivery EXCEPT ![d] = Finished]
    /\ floor' = [Ended(floor, d) EXCEPT !.interaction = IF @ = d THEN NoOne ELSE @]
    /\ overruled' = overruled \ {d}
    /\ UNCHANGED <<scene, request, control, story, typed, setbacks>>

(***************************************************************************)
(* Everything else.                                                        *)
(***************************************************************************)

TypedClaims ==
    /\ typed.at = "idle" /\ typed.count < MaxStatements
    /\ typed' = [at |-> "claimed", count |-> typed.count + 1]
    /\ ClaimFloor(Typing)
    /\ UNCHANGED <<scene, request, control, story, delivery, setbacks>>

TypedBegins ==
    /\ typed.at = "claimed" /\ floor.lock = NoOne
    /\ typed' = [typed EXCEPT !.at = "thinking"]
    /\ floor' = Locked(Typing)
    /\ UNCHANGED <<scene, request, control, story, delivery, overruled, setbacks>>

TypedEnds ==
    /\ typed.at = "thinking"
    /\ typed' = [typed EXCEPT !.at = "idle"]
    /\ floor' = Ended(Unlocked(floor), Typing)
    /\ \/ UNCHANGED <<story, scene>>          \* cancelled, or failed
       \/ LET saved == Append(story.memory, Entry("turn", NoOne, <<>>))
          IN  /\ OwnsFloor(Typing) /\ ~story.blocked
              /\ story' = [story EXCEPT !.memory = saved, !.archive = saved]
              /\ scene' \in {scene, Changed(scene, typed.count)}
    /\ UNCHANGED <<request, control, delivery, overruled, setbacks>>

\* The process dies; the store and the file stay.
Dies ==
    /\ setbacks > 0
    /\ delivery' = [d \in Deliveries |->
            IF delivery[d].at = "none" THEN NotDelivered ELSE Finished]
    /\ story' = [memory |-> story.archive, archive |-> story.archive, blocked |-> FALSE]
    /\ typed' = [typed EXCEPT !.at = "idle"]
    /\ floor' = [active |-> NoOne, lock |-> NoOne, interaction |-> NoOne]
    /\ overruled' = {}
    /\ setbacks' = setbacks - 1
    /\ UNCHANGED <<scene, request, control>>

SceneInit ==
    /\ scene = Changed(<<>>, 0)
    /\ request = [c \in Commands |-> NoRequest]
    /\ control = [c \in Commands |-> NoControl]
    /\ story = [memory |-> <<>>, archive |-> <<>>, blocked |-> FALSE]
    /\ delivery = [d \in Deliveries |-> NotDelivered]
    /\ typed = [at |-> "idle", count |-> 0]
    /\ floor = [active |-> NoOne, lock |-> NoOne, interaction |-> NoOne]
    /\ overruled = {} /\ setbacks = MaxSetbacks

\* A step of the thread that serves a delivery.
DeliveryStep(d) ==
    \/ TakeInteraction(d)
    \/ FindDuplicate(d) \/ ApplyGesture(d) \/ RefuseStale(d)
    \/ FindEvent(d) \/ SaveEvent(d) \/ SaveEventFails(d)
    \/ BeginReaction(d) \/ CommitReaction(d) \/ WithdrawReaction(d) \/ Leave(d)

TypedStep == TypedBegins \/ TypedEnds

SceneNext ==
    \/ \E d \in Deliveries, c \in Commands :
          DeliverGesture(d, c) \/ ControlSilently(d, c)
    \/ \E d \in Deliveries : DeliveryStep(d)
    \/ Overrule \/ TypedClaims \/ TypedStep \/ Dies

\* A thread that was started goes on, and a provider answers or fails.
SceneFairness ==
    /\ \A d \in Deliveries : WF_sceneVars(DeliveryStep(d))
    /\ WF_sceneVars(TypedStep)

SceneSpec == SceneInit /\ [][SceneNext]_sceneVars /\ SceneFairness

Entries(r) == r.kind \in {"event", "reaction", "turn"} /\ r.command \in Commands \cup {NoOne}

SceneTypeOK ==
    /\ \A i \in DOMAIN scene : scene[i].from \in 0..MaxStatements /\ scene[i].nth \in 1..2
    /\ \A r \in ToSet(story.memory) \cup ToSet(story.archive) : Entries(r)
    /\ story.blocked \in BOOLEAN
    /\ \A d \in Deliveries : delivery[d].command \in Commands \cup {NoOne}
    /\ typed.count \in 0..MaxStatements
    /\ {floor.active, floor.lock} \subseteq Speakers \cup {NoOne}
    /\ floor.interaction \in Deliveries \cup {NoOne}
    /\ overruled \subseteq Speakers
    /\ setbacks \in 0..MaxSetbacks

\* The saved conversation tells of a scene command once, only if the scene
\* was changed by it, however often it was delivered; and a reaction stands
\* right behind its event and was given in the scene that event left.
StoryFollowsScene ==
    /\ \A c \in Commands : LET events == EventsOf(c, story.archive)
                           IN  /\ Cardinality(events) <= 1
                               /\ events # {} => Done(c)
    /\ \A i \in DOMAIN story.archive : story.archive[i].kind = "reaction" =>
            /\ i > 1 /\ story.archive[i - 1].kind = "event"
            /\ story.archive[i - 1].command = story.archive[i].command
            /\ story.archive[i - 1].revision = story.archive[i].revision

\* What the frontend is told is so: an accepted command cleared the relation
\* the user clicked on, and an event called committed is in the file.
AnswersAreTrue ==
    \A d \in Deliveries : LET c == delivery[d].command
                          IN
        /\ delivery[d].answer \in {"applied", "committed", "pending"} =>
              Done(c) /\ control[c].cleared = request[c].seen
        /\ delivery[d].answer = "committed" => EventsOf(c, story.archive) # {}

CommandsAnswered == \A d \in Deliveries : delivery[d].at \in {"none", "done"}
=============================================================================
