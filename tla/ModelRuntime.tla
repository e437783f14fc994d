----------------------------- MODULE ModelRuntime -----------------------------
(***************************************************************************)
(* The local model server the backend may start, use and stop, and the     *)
(* host that follows it.                                                   *)
(*                                                                         *)
(* Every command of the Model page reserves an operation, which supersedes *)
(* the one before; its worker thread blocks outside the state lock (on a   *)
(* probe, a spawn, a termination, a server that loads) and must still own  *)
(* the operation whenever it comes back to the lock.  The server is a      *)
(* process of its own session: it survives the backend, which finds it     *)
(* again by an identity it wrote to a file.  A server somebody else        *)
(* started on the endpoint may be used but never stopped.                  *)
(***************************************************************************)
EXTENDS Naturals, FiniteSets

CONSTANTS Models, MaxOperations,
          MaxMishaps     \* servers that exit or will not die, failed probes
                         \* and spawns, and crashes of the backend

ASSUME ModelRuntimeAssumption ==
    /\ "online" \notin Models /\ "none" \notin Models
    /\ MaxOperations \in Nat \ {0} /\ MaxMishaps \in Nat

VARIABLES backend,    \* the backend process and the operations it reserved
          settings,   \* the selected model, or "online"
          runtime,    \* LocalModelRuntime: handle, status, pending work
          worker,     \* the worker thread of each operation
          metadata,   \* the ownership file
          server,     \* the server process spawned by each operation
          foreign,    \* what a server of somebody else serves
          mishaps,    \* mishaps still allowed
          abandoned   \* servers that died to the backend with it

runtimeVars == <<backend, settings, runtime, worker, metadata, server,
                 foreign, mishaps, abandoned>>

Operations  == 1..MaxOperations
NoProcess   == 0
NoModel     == "none"
Servers     == {p \in Operations : server[p].state # "unborn"}
Dead        == [state |-> "dead", model |-> NoModel]
Alive(p)    == p # NoProcess /\ server[p].state \in {"loading", "answering"}

Off         == [state |-> "off", ownership |-> "none", model |-> NoModel]
NoWorker    == [at |-> "none", kind |-> "none", model |-> NoModel,
                mine |-> NoProcess, models |-> {}]
FreshRuntime == [process |-> NoProcess, status |-> Off, launching |-> {},
                 retiring |-> {}]

\* What /models answers: only one server can have the port.
Answer == IF foreign # NoModel THEN {foreign}
          ELSE {server[p].model : p \in {q \in Servers : server[q].state = "answering"}}

(***************************************************************************)
(* Operations.                                                             *)
(***************************************************************************)

\* _owns_operation, and _owns_model_operation: the host reserves and retires
\* both in one step of its loop.
Owns(o) == o = backend.operation

Running == backend.state = "up"

\* _new_model_operation supersedes the operation before.
Reserve(kind, model) ==
    LET o == backend.operation + 1
    IN  /\ o \in Operations
        /\ backend' = [backend EXCEPT !.operation = o]
        /\ worker' = [worker EXCEPT ![o] = [NoWorker EXCEPT
                         !.at = IF kind = "none" THEN "none" ELSE "enter",
                         !.kind = kind, !.model = model]]

\* set_model_settings, local: nothing generates before a probe verified it.
SelectLocal(m) ==
    /\ Running
    /\ settings' = m
    /\ Reserve("none", m)
    /\ UNCHANGED <<runtime, metadata, server, foreign, mishaps, abandoned>>

\* set_model_settings, online: the owned server is stopped.
SelectOnline ==
    /\ Running /\ settings # "online"
    /\ settings' = "online"
    /\ Reserve("stop", NoModel)
    /\ UNCHANGED <<runtime, metadata, server, foreign, mishaps, abandoned>>

\* start_local_model, discover_local_models and stop_local_model.  A start
\* shows its transition at once (begin_start).
Request(kind) ==
    /\ Running
    /\ kind \in {"start", "refresh"} => settings # "online"
    /\ Reserve(kind, IF kind = "stop" THEN NoModel ELSE settings)
    /\ runtime' = IF kind = "start"
                  THEN [runtime EXCEPT !.status.state = "starting"]
                  ELSE runtime
    /\ UNCHANGED <<settings, metadata, server, foreign, mishaps, abandoned>>

(***************************************************************************)
(* Steps of a worker.                                                      *)
(***************************************************************************)

At(o, place) == worker[o].at = place

Goto(o, place) == worker' = [worker EXCEPT ![o].at = place]

\* A worker that ended left only what it was for.
End(o) == worker' = [worker EXCEPT ![o] = [NoWorker EXCEPT !.kind = worker[o].kind]]

\* _observe_process_locked
Observed(r) ==
    IF r.process # NoProcess /\ ~Alive(r.process)
    THEN [r EXCEPT !.process = NoProcess, !.status.state = "error",
                   !.status.ownership = "none"]
    ELSE r
ObservedFile ==
    IF runtime.process # NoProcess /\ ~Alive(runtime.process)
    THEN NoProcess ELSE metadata

\* _detach_owned_locked: the handle goes to its cleanup, which successors
\* wait for.
Detached(r) ==
    [r EXCEPT !.process = NoProcess,
              !.retiring = IF r.process = NoProcess THEN @
                           ELSE @ \cup {[process |-> r.process,
                                         status  |-> r.status,
                                         by      |-> backend.operation]}]

\* _wait_for_process_work
Quiet == runtime.launching = {} /\ runtime.retiring = {}

\* A worker that lost its operation leaves at the next lock.
Overtaken(o) ==
    /\ worker[o].at \in {"enter", "recover", "probe", "refresh", "prepare", "ready"}
    /\ ~Owns(o)
    /\ End(o)
    /\ UNCHANGED <<backend, settings, runtime, metadata, server,
                   foreign, mishaps, abandoned>>

\* stop: an external server is left alone.
EnterStop(o) ==
    LET seen == Observed(runtime)
        handle == seen.process
    IN  /\ At(o, "enter") /\ worker[o].kind = "stop" /\ Owns(o)
        /\ metadata' = ObservedFile
        /\ IF seen.status.ownership = "external"
           THEN runtime' = seen /\ End(o)
           ELSE /\ runtime' = [Detached(seen) EXCEPT !.status = Off]
                /\ IF handle = NoProcess
                   THEN End(o)
                   ELSE worker' = [worker EXCEPT ![o].at = "terminate last",
                                                 ![o].mine = handle]
        /\ UNCHANGED <<backend, settings, server, foreign, mishaps, abandoned>>

\* start and refresh_external: after the cleanups of their predecessors.
EnterStart(o) ==
    LET seen == Observed(runtime)
    IN  /\ At(o, "enter") /\ worker[o].kind # "stop" /\ Owns(o) /\ Quiet
        /\ runtime' = seen
        /\ metadata' = ObservedFile
        /\ worker' = [worker EXCEPT
                ![o].mine = seen.process,
                ![o].at = IF worker[o].kind = "refresh" THEN "ask refresh"
                          ELSE IF seen.process = NoProcess THEN "recover"
                          ELSE "ask probe"]
        /\ UNCHANGED <<backend, settings, server, foreign, mishaps, abandoned>>

\* _recover_owned_runtime: a server the file names and whose identity still
\* matches is taken back before it is known to answer.
Recover(o) ==
    /\ At(o, "recover") /\ Owns(o)
    /\ IF Alive(metadata)
       THEN /\ runtime' = [runtime EXCEPT !.process = metadata,
                    !.status = [state |-> "starting", ownership |-> "managed",
                                model |-> server[metadata].model]]
            /\ worker' = [worker EXCEPT ![o].at = "ask recovered", ![o].mine = metadata]
            /\ UNCHANGED metadata
       ELSE /\ metadata' = NoProcess
            /\ Goto(o, "ask probe")
            /\ UNCHANGED runtime
    /\ UNCHANGED <<backend, settings, server, foreign, mishaps, abandoned>>

\* _probe_models, outside the lock.
After(place) == CASE place = "ask probe"     -> "probe"
                  [] place = "ask refresh"   -> "refresh"
                  [] place = "ask recovered" -> "recovered"
                  [] place = "ask ready"     -> "ready"
Asking(o) == worker[o].at \in {"ask probe", "ask refresh", "ask recovered", "ask ready"}

Probe(o) ==
    /\ Asking(o)
    /\ worker' = [worker EXCEPT ![o].at = After(@), ![o].models = Answer]
    /\ UNCHANGED <<backend, settings, runtime, metadata, server,
                   foreign, mishaps, abandoned>>

ProbeFails(o) ==
    /\ Asking(o) /\ Answer # {} /\ mishaps > 0
    /\ worker' = [worker EXCEPT ![o].at = After(@), ![o].models = {}]
    /\ mishaps' = mishaps - 1
    /\ UNCHANGED <<backend, settings, runtime, metadata, server,
                   foreign, abandoned>>

\* A recovered server is used when it serves the selected model; otherwise
\* it is cleaned up first.
Recovered(o) ==
    LET w == worker[o]
    IN  /\ At(o, "recovered")
        /\ IF ~Owns(o) \/ runtime.process # w.mine
           THEN End(o) /\ UNCHANGED runtime
           ELSE IF w.model = server[w.mine].model /\ w.model \in w.models
           THEN /\ runtime' = [runtime EXCEPT !.status.state = "ready"]
                /\ End(o)
           ELSE /\ runtime' = [Detached(runtime) EXCEPT !.status = Off]
                /\ Goto(o, "terminate recovered")
        /\ UNCHANGED <<backend, settings, metadata, server, foreign,
                       mishaps, abandoned>>

External(o) ==
    [state |-> IF worker[o].model \in worker[o].models THEN "ready" ELSE "mismatch",
     ownership |-> "external", model |-> CHOOSE m \in worker[o].models : TRUE]

\* start, with the probe's answer: a responding endpoint confers no
\* ownership, and the owned server is used again, replaced or spawned.
Decide(o) ==
    LET w == worker[o]
        handle == runtime.process
        reuse == handle # NoProcess /\ runtime.status.model = w.model
    IN  /\ At(o, "probe") /\ Owns(o)
        /\ IF w.models # {} /\ handle = NoProcess
           THEN /\ runtime' = [runtime EXCEPT !.status = External(o)]
                /\ End(o)
           ELSE IF reuse
           THEN /\ worker' = [worker EXCEPT ![o].at = "enter", ![o].kind = "refresh"]
                /\ UNCHANGED runtime
           ELSE /\ runtime' = Detached(runtime)
                /\ worker' = [worker EXCEPT ![o].mine = handle,
                       ![o].at = IF handle = NoProcess THEN "prepare" ELSE "terminate old"]
        /\ UNCHANGED <<backend, settings, metadata, server, foreign,
                       mishaps, abandoned>>

\* refresh_external
Refresh(o) ==
    LET w == worker[o]
        fits == w.model \in w.models
    IN  /\ At(o, "refresh") /\ Owns(o)
        /\ IF runtime.process # w.mine
           THEN End(o) /\ UNCHANGED runtime
           ELSE IF w.models = {}
           THEN /\ runtime' = [runtime EXCEPT !.status.state = "error"]
                /\ End(o)
           ELSE IF w.mine = NoProcess
           THEN /\ runtime' = [runtime EXCEPT !.status = External(o)]
                /\ End(o)
           ELSE /\ runtime' = [runtime EXCEPT !.status =
                       [state |-> IF fits THEN "ready" ELSE "mismatch",
                        ownership |-> "managed",
                        model |-> IF fits THEN w.model ELSE CHOOSE m \in w.models : TRUE]]
                /\ End(o)
        /\ UNCHANGED <<backend, settings, metadata, server, foreign,
                       mishaps, abandoned>>

(***************************************************************************)
(* Spawning.                                                               *)
(***************************************************************************)

\* The launch is announced before the lock is left.
Prepare(o) ==
    /\ At(o, "prepare") /\ Owns(o)
    /\ runtime' = [runtime EXCEPT
            !.status = [state |-> "starting", ownership |-> "managed",
                        model |-> worker[o].model],
            !.launching = @ \cup {o}]
    /\ Goto(o, "launch")
    /\ UNCHANGED <<backend, settings, metadata, server, foreign,
                   mishaps, abandoned>>

Launch(o) ==
    /\ At(o, "launch")
    /\ server' = [server EXCEPT ![o] = [state |-> "loading", model |-> worker[o].model]]
    /\ Goto(o, "launched")
    /\ UNCHANGED <<backend, settings, runtime, metadata, foreign,
                   mishaps, abandoned>>

Failed(r, o) ==
    IF Owns(o) THEN [r EXCEPT !.status.state = "error", !.status.ownership = "none"]
    ELSE r

LaunchFails(o) ==
    /\ At(o, "launch") /\ mishaps > 0
    /\ mishaps' = mishaps - 1
    /\ runtime' = [Failed(runtime, o) EXCEPT !.launching = @ \ {o}]
    /\ End(o)
    /\ UNCHANGED <<backend, settings, metadata, server, foreign, abandoned>>

\* Accepted only for the operation that still is the latest; the file is
\* written in the same critical section, unless the identity cannot be read.
Accept(o) ==
    /\ At(o, "launched")
    /\ IF ~Owns(o)
       THEN /\ worker' = [worker EXCEPT ![o].mine = o, ![o].at = "terminate refused"]
            /\ UNCHANGED <<runtime, metadata>>
       ELSE IF Alive(o)
       THEN /\ metadata' = o
            /\ runtime' = [runtime EXCEPT !.process = o, !.launching = @ \ {o}]
            /\ worker' = [worker EXCEPT ![o].mine = o, ![o].at = "wait"]
       ELSE /\ runtime' = Failed(Detached([runtime EXCEPT !.process = o]), o)
            /\ worker' = [worker EXCEPT ![o].mine = o, ![o].at = "terminate launched"]
            /\ UNCHANGED metadata
    /\ UNCHANGED <<backend, settings, server, foreign, mishaps, abandoned>>

\* The readiness loop: one look at the handle, then one probe.
AwaitReady(o) ==
    LET seen == Observed(runtime)
    IN  /\ At(o, "wait")
        /\ IF ~Owns(o) THEN End(o) /\ UNCHANGED <<runtime, metadata>>
           ELSE /\ runtime' = seen /\ metadata' = ObservedFile
                /\ IF seen.process # worker[o].mine THEN End(o)
                   ELSE Goto(o, "ask ready")
        /\ UNCHANGED <<backend, settings, server, foreign, mishaps, abandoned>>

\* No answer yet, the wrong model, or ready.
ConfirmReady(o) ==
    LET w == worker[o]
    IN  /\ At(o, "ready") /\ Owns(o)
        /\ IF w.models = {} THEN Goto(o, "wait") /\ UNCHANGED runtime
           ELSE IF runtime.process # w.mine
           THEN End(o) /\ UNCHANGED runtime
           ELSE IF w.model \notin w.models
           THEN /\ runtime' = Failed(Detached(runtime), o)
                /\ Goto(o, "terminate last")
           ELSE /\ runtime' = [runtime EXCEPT !.status =
                       [state |-> "ready", ownership |-> "managed", model |-> w.model]]
                /\ End(o)
        /\ UNCHANGED <<backend, settings, metadata, server, foreign,
                       mishaps, abandoned>>

\* readiness_timeout_seconds
ReadyTimeout(o) ==
    /\ At(o, "wait") /\ mishaps > 0
    /\ mishaps' = mishaps - 1
    /\ IF ~Owns(o) \/ runtime.process # worker[o].mine
       THEN End(o) /\ UNCHANGED runtime
       ELSE /\ runtime' = Failed(Detached(runtime), o)
            /\ Goto(o, "terminate last")
    /\ UNCHANGED <<backend, settings, metadata, server, foreign, abandoned>>

(***************************************************************************)
(* Termination.                                                            *)
(***************************************************************************)

Terminating(o) == worker[o].at \in {"terminate last", "terminate recovered",
    "terminate old", "terminate refused", "terminate launched"}

Retirement(p) == {r \in runtime.retiring : r.process = p}

\* _stop_process, when the server is gone.
Terminate(o) ==
    LET p == worker[o].mine
        rest == [runtime EXCEPT !.retiring = @ \ Retirement(p), !.launching = @ \ {o}]
    IN  /\ Terminating(o)
        /\ server' = [server EXCEPT ![p] = Dead]
        /\ runtime' = rest
        /\ metadata' = IF Retirement(p) # {} /\ runtime.process = NoProcess
                       THEN NoProcess ELSE metadata
        /\ CASE At(o, "terminate old")       -> Goto(o, "prepare")
             [] At(o, "terminate recovered") -> Goto(o, "ask probe")
             [] OTHER -> End(o)
        /\ UNCHANGED <<backend, settings, foreign, mishaps, abandoned>>

\* _stop_process, when it survives the kill: a retired handle is retained
\* for a later attempt, and the worker ends with the exception.
TerminateFails(o) ==
    LET p == worker[o].mine
        retained == /\ Retirement(p) # {} /\ runtime.process = NoProcess
        rest == [runtime EXCEPT !.retiring = @ \ Retirement(p), !.launching = @ \ {o}]
    IN  /\ Terminating(o) /\ Alive(p) /\ mishaps > 0
        /\ mishaps' = mishaps - 1
        /\ runtime' = IF ~retained THEN rest
                      ELSE [rest EXCEPT !.process = p,
                              !.status = IF \E r \in Retirement(p) : Owns(r.by)
                                         THEN [@ EXCEPT !.ownership = "managed",
                                                        !.model = server[p].model]
                                         ELSE @]
        /\ abandoned' = IF retained THEN abandoned ELSE abandoned \cup {p}
        /\ End(o)
        /\ UNCHANGED <<backend, settings, metadata, server, foreign>>

(***************************************************************************)
(* The host.                                                               *)
(***************************************************************************)

\* A snapshot notices a server that exited.
Snapshot ==
    /\ backend.state # "down" /\ Observed(runtime) # runtime
    /\ runtime' = Observed(runtime) /\ metadata' = ObservedFile
    /\ UNCHANGED <<backend, settings, worker, server, foreign,
                   mishaps, abandoned>>

\* stop: the last operation retires the others, then every worker is joined.
Shutdown ==
    /\ Running
    /\ backend.operation + 1 \in Operations
    /\ worker' = [worker EXCEPT ![backend.operation + 1] =
                     [NoWorker EXCEPT !.at = "enter", !.kind = "stop"]]
    /\ backend' = [state |-> "stopping", operation |-> backend.operation + 1]
    /\ UNCHANGED <<settings, runtime, metadata, server, foreign,
                   mishaps, abandoned>>

Exit(lost) ==
    /\ backend' = [backend EXCEPT !.state = "down"]
    /\ worker' = [o \in Operations |-> NoWorker]
    /\ runtime' = FreshRuntime
    /\ abandoned' = abandoned \cup lost
    /\ UNCHANGED <<settings, metadata, server, foreign>>

\* Mutant: the backend ends without joining its workers.
ShutdownEndsAtOnce ==
    /\ backend.state = "stopping"
    /\ Exit({})
    /\ UNCHANGED mishaps

ShutdownEnds ==
    /\ backend.state = "stopping"
    /\ \A o \in Operations : worker[o].at = "none"
    /\ Exit({})
    /\ UNCHANGED mishaps

\* A crash loses what the file does not name: a server just spawned, or one
\* being refused.
BackendCrash ==
    /\ backend.state # "down" /\ mishaps > 0
    /\ mishaps' = mishaps - 1
    /\ Exit({p \in Servers : Alive(p) /\ p # metadata})

\* The next start of the backend.
Boot ==
    /\ backend.state = "down"
    /\ backend' = [backend EXCEPT !.state = "up"]
    /\ UNCHANGED <<settings, runtime, worker, metadata, server,
                   foreign, mishaps, abandoned>>

(***************************************************************************)
(* The servers.                                                            *)
(***************************************************************************)

\* A server answers once it has loaded, if the port is free.
Bind(p) ==
    /\ p \in Servers /\ server[p].state = "loading"
    /\ server' = [server EXCEPT ![p] = IF Answer = {} THEN [@ EXCEPT !.state = "answering"]
                                                     ELSE Dead]
    /\ UNCHANGED <<backend, settings, runtime, worker, metadata,
                   foreign, mishaps, abandoned>>

ServerExits(p) ==
    /\ p \in Servers /\ Alive(p) /\ mishaps > 0
    /\ server' = [server EXCEPT ![p] = Dead]
    /\ mishaps' = mishaps - 1
    /\ UNCHANGED <<backend, settings, runtime, worker, metadata,
                   foreign, abandoned>>

ForeignStarts(m) ==
    /\ Answer = {} /\ mishaps > 0
    /\ foreign' = m
    /\ mishaps' = mishaps - 1
    /\ UNCHANGED <<backend, settings, runtime, worker, metadata,
                   server, abandoned>>

RuntimeInit ==
    /\ backend = [state |-> "up", operation |-> 0]
    /\ settings \in Models
    /\ runtime = FreshRuntime
    /\ worker = [o \in Operations |-> NoWorker]
    /\ metadata = NoProcess
    /\ server = [p \in Operations |-> [state |-> "unborn", model |-> NoModel]]
    /\ foreign \in Models \cup {NoModel}
    /\ mishaps = MaxMishaps /\ abandoned = {}

RuntimeNext ==
    \/ \E m \in Models : SelectLocal(m) \/ ForeignStarts(m)
    \/ SelectOnline \/ Snapshot \/ Shutdown \/ ShutdownEnds \/ BackendCrash \/ Boot
    \/ \E kind \in {"start", "refresh", "stop"} : Request(kind)
    \/ \E o \in Operations :
          \/ Overtaken(o) \/ EnterStop(o) \/ EnterStart(o) \/ Recover(o)
          \/ Probe(o) \/ ProbeFails(o) \/ Recovered(o) \/ Decide(o) \/ Refresh(o)
          \/ Prepare(o) \/ Launch(o) \/ LaunchFails(o) \/ Accept(o)
          \/ AwaitReady(o) \/ ConfirmReady(o) \/ ReadyTimeout(o)
          \/ Terminate(o) \/ TerminateFails(o)
    \/ \E p \in Operations : Bind(p) \/ ServerExits(p)

RuntimeSpec == RuntimeInit /\ [][RuntimeNext]_runtimeVars

RuntimeTypeOK ==
    /\ backend \in [state : {"up", "stopping", "down"}, operation : 0..MaxOperations]
    /\ settings \in Models \cup {"online"}
    /\ runtime.process \in 0..MaxOperations /\ runtime.launching \subseteq Operations
    /\ metadata \in 0..MaxOperations
    /\ \A p \in Operations : server[p].model \in Models \cup {NoModel}
    /\ mishaps \in 0..MaxMishaps /\ abandoned \subseteq Operations

\* A server this application started never runs unattended: a handle, the
\* worker that is to stop it or the ownership file leads to it, but for one
\* that a crash or a kill that failed came between spawn and acceptance.  And
\* none is taken for somebody else's: "A newly spawned or retiring owned
\* endpoint must not be mistaken for an external server by its successor".
StartedNow(p) == worker[p].kind # "none"
ServersKnown ==
    /\ \A p \in Servers : Alive(p) /\ p \notin abandoned =>
          \/ p \in {runtime.process, metadata}
          \/ \E o \in Operations : Terminating(o) /\ worker[o].mine = p
          \/ At(p, "launched")
    /\ runtime.status.ownership = "external" =>
          \/ foreign # NoModel
          \/ \A p \in Servers : Alive(p) /\ StartedNow(p) => p \in abandoned
=============================================================================
