---------------------------- MODULE UserControls ----------------------------
(***************************************************************************)
(* What the user steers by hand, checked under one configuration: the      *)
(* push-to-talk key, clicks on the scene, the voice settings, and the      *)
(* worker that clones a voice.                                             *)
(*                                                                         *)
(* They share no state, and no action of one reads a variable of another,  *)
(* so a product would only multiply them: a behaviour explores one part    *)
(* and leaves the others at rest.  What passes between them is an input of *)
(* each: a click or an edit meets a turn that takes the floor, an edit     *)
(* meets a clone that takes a while or fails, a press meets a turn that    *)
(* may never return.                                                       *)
(***************************************************************************)
EXTENDS PushToTalk, SceneControl, CloneLane, VoiceEdits

VARIABLE hand   \* the part this behaviour is about

controlVars == <<vars, sceneVars, laneVars, voiceVars, hand>>

Hands == {"key", "scene", "clone", "voice"}

\* Characters are interchangeable, so one stands for the first.
ControlsInit ==
    /\ hand \in Hands
    /\ Init /\ SceneInit /\ LaneInit /\ VoiceInit
    /\ desk.character = CHOOSE c \in Speaking : TRUE

Presses(A)  == hand = "key" /\ A /\ UNCHANGED <<sceneVars, laneVars, voiceVars, hand>>
Gestures(A) == hand = "scene" /\ A /\ UNCHANGED <<vars, laneVars, voiceVars, hand>>
Clones(A)   == hand = "clone" /\ A /\ UNCHANGED <<vars, sceneVars, voiceVars, hand>>
Edits(A)    == hand = "voice" /\ A /\ UNCHANGED <<vars, sceneVars, laneVars, hand>>

ControlsNext ==
    \/ Presses(Next)
    \/ Gestures(SceneNext)
    \/ Clones(LaneNext)
    \/ Edits(VoiceNext)

\* The fairness of the parts, each where it is the one that moves.
ControlsFairness ==
    /\ \A s \in Sources : WF_vars(hand = "key" /\ Call(s))
    /\ \A c \in Captures : WF_vars(hand = "key" /\ Record(c))
    /\ \A d \in Deliveries : WF_sceneVars(hand = "scene" /\ DeliveryStep(d))
    /\ WF_sceneVars(hand = "scene" /\ TypedStep)
    /\ \A r \in Asks : WF_laneVars(hand = "clone" /\ AskStep(r))
    /\ WF_voiceVars(hand = "voice" /\ EditStep)
    /\ WF_voiceVars(hand = "voice" /\ StopRetired)
    /\ WF_voiceVars(hand = "voice" /\ AnnounceEnds)
    /\ WF_voiceVars(hand = "voice" /\ SwitchStep)

ControlsSpec == ControlsInit /\ [][ControlsNext]_controlVars /\ ControlsFairness

\* Every variable keeps its type.
ControlsTypeOK ==
    /\ hand \in Hands
    /\ TypeOK /\ SceneTypeOK /\ LaneTypeOK /\ VoiceTypeOK

\* Whatever the user asked for ends: the key that is up can be pressed again;
\* a scene command is answered, whoever else wants the floor; a request leaves
\* the clone's lane, whatever the worker does; a voice operation gives back its
\* locks and the loop.
ControlsEnd == []<>(Usable /\ CommandsAnswered /\ AsksAnswered /\ VoiceAtRest)
=============================================================================
