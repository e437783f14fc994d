--------------------------- MODULE BackgroundWork ---------------------------
(***************************************************************************)
(* The services beside a turn, checked under one configuration: canonical  *)
(* observation, the host's frontend session, the local model server, the   *)
(* schedule of check-ins and episode compaction.                           *)
(*                                                                         *)
(* They share no state, and no action of one reads a variable of another,  *)
(* so a product would only multiply them: a behaviour explores one part    *)
(* and leaves the others at rest.                                          *)
(***************************************************************************)
EXTENDS Observation, HostSession, ModelRuntime, CheckInSchedule, EpisodeRollover

VARIABLE part   \* the part this behaviour is about

backgroundVars == <<observationVars, hostVars, runtimeVars, checkInVars,
                    rolloverVars, part>>

Parts == {"observation", "session", "models", "check-ins", "episodes"}

\* Characters and models are interchangeable, so one stands for the first.
Init ==
    /\ part \in Parts
    /\ ObservationInit /\ HostInit /\ RuntimeInit /\ CheckInInit /\ RolloverInit
    /\ service.character = CHOOSE c \in Characters : TRUE
    /\ settings = CHOOSE m \in Models : TRUE
    /\ part # "models" => foreign = NoModel

Observes(A) == part = "observation" /\ A
    /\ UNCHANGED <<hostVars, runtimeVars, checkInVars, rolloverVars, part>>
Connects(A) == part = "session" /\ A
    /\ UNCHANGED <<observationVars, runtimeVars, checkInVars, rolloverVars, part>>
Serves(A)   == part = "models" /\ A
    /\ UNCHANGED <<observationVars, hostVars, checkInVars, rolloverVars, part>>
ChecksIn(A) == part = "check-ins" /\ A
    /\ UNCHANGED <<observationVars, hostVars, runtimeVars, rolloverVars, part>>
Compacts(A) == part = "episodes" /\ A
    /\ UNCHANGED <<observationVars, hostVars, runtimeVars, checkInVars, part>>

Next ==
    \/ Observes(ObservationNext)
    \/ Connects(HostNext)
    \/ Serves(RuntimeNext)
    \/ ChecksIn(CheckInNext)
    \/ Compacts(RolloverNext)

\* The fairness of the parts that promise progress, each where it is the one
\* that moves.
Fairness ==
    /\ WF_observationVars(part = "observation" /\ PageStep)
    /\ WF_observationVars(part = "observation" /\ TurnStep)
    /\ WF_observationVars(part = "observation" /\ Maintain)
    /\ WF_rolloverVars(part = "episodes" /\ IdlePage)
    /\ \A b \in Owners : WF_rolloverVars(part = "episodes" /\ WorkerStep(b))

Spec == Init /\ [][Next]_backgroundVars /\ Fairness

\* Every variable keeps its type.
TypeOK ==
    /\ part \in Parts
    /\ ObservationTypeOK /\ HostTypeOK /\ RuntimeTypeOK /\ CheckInTypeOK
    /\ RolloverTypeOK
=============================================================================
