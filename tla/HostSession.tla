---------------------------- MODULE HostSession ----------------------------
(***************************************************************************)
(* The one frontend connection of the host across character switches.      *)
(*                                                                         *)
(* A service thread emits events: it stamps the binding it sees, asks the  *)
(* host, and only then does the event loop make a send task of it, each    *)
(* task independent of the others.  Meanwhile the command handler of the   *)
(* frontend may be switching characters, and the frontend may hang up and  *)
(* call again.  The frontend's session fence (CharacterSessionFence.cs)    *)
(* decides from the stamps alone what it shows.                            *)
(*                                                                         *)
(* A typed input is bound to the selection it was sent under.  A check-in  *)
(* is not: the switch cancels its poll without joining the thread and only *)
(* looks at the turn lock, so a check-in may claim a turn at any moment of *)
(* the switch, even while the next character is being bound.  What keeps   *)
(* it quiet is the commit boundary, outside of which it says nothing: it   *)
(* asks there for the turn and the character it began with, and holds the  *)
(* lock that the switch needs in order to cancel turns and to end.         *)
(***************************************************************************)
EXTENDS Naturals, FiniteSets

CONSTANTS Characters, MaxSwitches, MaxConnections

ASSUME HostSessionAssumption ==
    /\ Cardinality(Characters) > 1
    /\ MaxSwitches \in Nat /\ MaxConnections \in Nat \ {0}

VARIABLES service,     \* the character and session the service is bound to
          holder,      \* the holder of the turn lock: whose, and how far it is
          emitting,    \* the event a service thread is delivering
          host,        \* the switch in progress and the accepted connection
          sends,       \* the send tasks of the event loop
          client,      \* the frontend's connection and session fence
          shown        \* the last content shown: whose, and under whose name

hostVars == <<service, holder, emitting, host, sends, client, shown>>

Nobody      == "nobody"
NoConnection == 0
NoBinding   == [character |-> Nobody, session |-> 0, generation |-> 0]
NotEmitting == [stage |-> "none", origin |-> Nobody, stamp |-> NoBinding]
NoHolder    == [of |-> Nobody, step |-> "none"]

Generations == 1..(MaxSwitches + 1)
Sessions    == 1..(2 * MaxSwitches + 1)
Bindings    == [character : Characters, session : Sessions, generation : Generations]

\* _binding_envelope: the service's binding under the current generation.
Envelope == [character |-> service.character, session |-> service.session,
             generation |-> host.generation]

(***************************************************************************)
(* The frontend's fence.                                                   *)
(***************************************************************************)

\* Disconnecting resets the fence.
Unbound(conn) == [conn |-> conn, current |-> NoBinding, latest |-> 0,
                  switching |-> FALSE, refused |-> FALSE]

AcceptSwitching(c, generation) ==
    IF generation <= c.latest THEN c
    ELSE [c EXCEPT !.latest = generation, !.current = NoBinding, !.switching = TRUE]

\* Within a generation only a switch may replace the binding.
AcceptSnapshot(c, b) ==
    IF \/ b.generation < c.latest
       \/ /\ ~c.switching /\ c.current \notin {NoBinding, b}
          /\ b.generation = c.latest
    THEN c
    ELSE [c EXCEPT !.latest = b.generation, !.current = b, !.switching = FALSE,
                   !.refused = FALSE]

AdmitsEvent(c, b) == ~c.switching /\ c.current = b

\* A frame the host sends on a connection arrives if it is still open.
Reached(conn) == conn # NoConnection /\ client.conn = conn

SendSnapshot(conn, b) ==
    client' = IF Reached(conn) THEN AcceptSnapshot(client, b) ELSE client

(***************************************************************************)
(* Service threads.                                                        *)
(***************************************************************************)

\* A typed or spoken input: still bound, under the turn lock, as it was sent.
BeginTurn ==
    /\ holder = NoHolder /\ host.stage \in {"ready", "preparing"}
    /\ holder' = [of |-> service.character, step |-> "replying"]
    /\ UNCHANGED <<service, emitting, host, sends, client, shown>>

\* process_proactive_checkin claims the turn whatever the host is doing.
BeginCheckIn ==
    /\ holder = NoHolder
    /\ holder' = [of |-> service.character, step |-> "drafting"]
    /\ UNCHANGED <<service, emitting, host, sends, client, shown>>

\* Mutant: the commit boundary asks neither for the turn nor for its character.
CommitUnchecked ==
    /\ holder.step \in {"drafting", "silent"}
    /\ holder' = [holder EXCEPT !.step = "publishing"]
    /\ UNCHANGED <<service, emitting, host, sends, client, shown>>

\* _turn_commit_boundary and the checks made inside it.
CommitCheckIn ==
    /\ holder.step = "drafting" /\ holder.of = service.character
    /\ holder' = [holder EXCEPT !.step = "publishing"]
    /\ UNCHANGED <<service, emitting, host, sends, client, shown>>

\* After the boundary only the states of speech and errors are left to tell.
LeaveBoundary ==
    /\ holder.step = "publishing" /\ emitting = NotEmitting
    /\ holder' = [holder EXCEPT !.step = "silent"]
    /\ UNCHANGED <<service, emitting, host, sends, client, shown>>

\* A turn ends when it is over, and a draft whenever it comes to nothing.
FinishTurn ==
    /\ holder # NoHolder /\ emitting = NotEmitting
    /\ holder' = NoHolder
    /\ UNCHANGED <<service, emitting, host, sends, client, shown>>

\* A draft whose turn was cancelled or reset is not current any more.
Interrupted == IF holder.step = "drafting" THEN [holder EXCEPT !.step = "silent"] ELSE holder

\* _emit: the event carries the binding of the moment.
Emit ==
    /\ holder.step \in {"replying", "publishing"} /\ emitting = NotEmitting
    /\ emitting' = [stage |-> "emitted", origin |-> holder.of,
                    stamp |-> [NoBinding EXCEPT !.character = service.character,
                                                !.session = service.session]]
    /\ UNCHANGED <<service, holder, host, sends, client, shown>>

\* _on_service_event refuses during a switch and for another binding.
CheckEvent ==
    /\ emitting.stage = "emitted"
    /\ emitting' =
        IF \/ host.stage # "ready"
           \/ emitting.stamp.character # service.character
           \/ emitting.stamp.session # service.session
        THEN NotEmitting
        ELSE [emitting EXCEPT !.stage = "admitted"]
    /\ UNCHANGED <<service, holder, host, sends, client, shown>>

\* Mutant: the frame is sent as the service stamped it.
ScheduleSendUnstamped ==
    /\ emitting.stage = "admitted"
    /\ sends' = sends \cup {[origin |-> emitting.origin, stamp |-> emitting.stamp]}
    /\ emitting' = NotEmitting
    /\ UNCHANGED <<service, holder, host, client, shown>>

\* The envelope's generation is read last, and the task left to the loop.
ScheduleSend ==
    /\ emitting.stage = "admitted"
    /\ sends' = sends \cup {[origin |-> emitting.origin,
                             stamp |-> [emitting.stamp EXCEPT
                                            !.generation = host.generation]]}
    /\ emitting' = NotEmitting
    /\ UNCHANGED <<service, holder, host, client, shown>>

(***************************************************************************)
(* The event loop.                                                         *)
(***************************************************************************)

\* _broadcast: to whichever frontend is connected when the task runs; a
\* send that fails forgets the connection.
Broadcast(frame) ==
    /\ frame \in sends
    /\ sends' = sends \ {frame}
    /\ IF Reached(host.client)
       THEN /\ shown' = IF AdmitsEvent(client, frame.stamp)
                        THEN [origin |-> frame.origin, under |-> client.current.character]
                        ELSE shown
            /\ UNCHANGED host
       ELSE host' = [host EXCEPT !.client = NoConnection] /\ UNCHANGED shown
    /\ UNCHANGED <<service, holder, emitting, client>>

\* _select_character: outgoing controls are retired before anything waits.
StartSwitch(target) ==
    /\ host.stage = "ready" /\ host.generation <= MaxSwitches
    /\ client.conn # NoConnection /\ client.conn = host.client
    /\ target # service.character
    /\ host' = [host EXCEPT !.stage = "preparing", !.target = target,
                            !.generation = @ + 1, !.handler = host.client]
    /\ client' = AcceptSwitching(client, host.generation + 1)
    /\ UNCHANGED <<service, holder, emitting, sends, shown>>

\* prepare_character_switch: a session of its own retires the old controls;
PrepareSwitch ==
    /\ host.stage = "preparing"
    /\ service' = [service EXCEPT !.session = @ + 1]
    /\ host' = [host EXCEPT !.stage = "cancelling"]
    /\ UNCHANGED <<holder, emitting, sends, client, shown>>

\* _cancel_active_turn, which waits for a commit boundary.
CancelTurn ==
    /\ host.stage = "cancelling" /\ holder.step # "publishing"
    /\ holder' = Interrupted
    /\ host' = [host EXCEPT !.stage = "waiting"]
    /\ UNCHANGED <<service, emitting, sends, client, shown>>

\* The switch ends in a snapshot for the connection that asked for it.
Settle ==
    /\ host' = [host EXCEPT !.stage = "ready", !.target = Nobody,
                            !.handler = NoConnection]
    /\ SendSnapshot(host.handler, Envelope)

\* wait_for_character_switch_idle gives up on a turn that will not end, or
\* switch_character_state finds the lock held after all.
GiveUpWaiting ==
    /\ host.stage = "waiting" /\ holder # NoHolder
    /\ Settle
    /\ UNCHANGED <<service, holder, emitting, sends, shown>>

\* The turn lock was free at both looks, which do not keep it, and the tasks
\* of inputs and sends are joined.
JoinTasks ==
    /\ host.stage = "waiting" /\ holder = NoHolder
    /\ sends = {}
    /\ host' = [host EXCEPT !.stage = "loading"]
    /\ UNCHANGED <<service, holder, emitting, sends, client, shown>>

\* switch_character_state rebinds the service (that the voice's registry cannot be
\* read between this step and the next is left out),
LoadCharacter ==
    /\ host.stage = "loading"
    /\ service' = [service EXCEPT !.character = host.target, !.session = @ + 1]
    /\ host' = [host EXCEPT !.stage = "bound"]
    /\ UNCHANGED <<holder, emitting, sends, client, shown>>

\* and ends every turn there is, under the lock of the commit boundary, before
\* the host forwards events again.
FinishSwitch ==
    /\ host.stage = "bound" /\ holder.step # "publishing"
    /\ holder' = Interrupted
    /\ Settle
    /\ UNCHANGED <<service, emitting, sends, shown>>

\* Nothing was rebound.
LoadFails ==
    /\ host.stage = "loading"
    /\ Settle
    /\ UNCHANGED <<service, holder, emitting, sends, shown>>

(***************************************************************************)
(* The frontend.                                                           *)
(***************************************************************************)

\* The handler of a connection runs its commands in order, and notices the
\* end of the connection only between them.
HangUp ==
    /\ client.conn # NoConnection
    /\ client' = Unbound(NoConnection)
    /\ UNCHANGED <<service, holder, emitting, host, sends, shown>>

NoticeHangUp ==
    /\ host.client # NoConnection /\ ~Reached(host.client)
    /\ host.handler # host.client
    /\ host' = [host EXCEPT !.client = NoConnection]
    /\ UNCHANGED <<service, holder, emitting, sends, client, shown>>

\* One frontend at a time; its first command asks for a snapshot, which a
\* switch in progress refuses.
Connect ==
    /\ client.conn = NoConnection /\ host.client = NoConnection
    /\ host.connections < MaxConnections
    /\ LET conn == host.connections + 1
       IN  /\ host' = [host EXCEPT !.client = conn, !.connections = conn]
           /\ client' = IF host.stage = "ready"
                        THEN AcceptSnapshot(Unbound(conn), Envelope)
                        ELSE [Unbound(conn) EXCEPT !.refused = TRUE]
    /\ UNCHANGED <<service, holder, emitting, sends, shown>>

\* get_snapshot, asked again.
AskAgain ==
    /\ client.refused /\ host.stage = "ready"
    /\ client' = AcceptSnapshot(client, Envelope)
    /\ UNCHANGED <<service, holder, emitting, host, sends, shown>>

HostInit ==
    /\ \E c \in Characters : service = [character |-> c, session |-> 1]
    /\ holder = NoHolder /\ emitting = NotEmitting
    /\ host = [stage |-> "ready", target |-> Nobody, generation |-> 1,
               client |-> NoConnection, handler |-> NoConnection, connections |-> 0]
    /\ sends = {} /\ client = Unbound(NoConnection)
    /\ shown = [origin |-> Nobody, under |-> Nobody]

HostNext ==
    \/ BeginTurn \/ BeginCheckIn \/ CommitCheckIn \/ LeaveBoundary \/ FinishTurn
    \/ Emit \/ CheckEvent \/ ScheduleSend
    \/ \E frame \in sends : Broadcast(frame)
    \/ \E target \in Characters : StartSwitch(target)
    \/ PrepareSwitch \/ CancelTurn \/ GiveUpWaiting \/ JoinTasks
    \/ LoadCharacter \/ FinishSwitch \/ LoadFails
    \/ HangUp \/ NoticeHangUp \/ Connect \/ AskAgain

HostSpec == HostInit /\ [][HostNext]_hostVars

HostTypeOK ==
    /\ service \in [character : Characters, session : Sessions]
    /\ holder.of \in Characters \cup {Nobody}
    /\ holder.step \in {"none", "replying", "drafting", "publishing", "silent"}
    /\ emitting.stage \in {"none", "emitted", "admitted"}
    /\ host.stage \in {"ready", "preparing", "cancelling", "waiting", "loading", "bound"}
    /\ host.generation \in Generations
    /\ \A frame \in sends : frame.stamp \in Bindings /\ frame.origin \in Characters
    /\ client.current \in Bindings \cup {NoBinding}
    /\ shown.origin \in Characters \cup {Nobody}

\* However late its frame is sent, and on whatever connection, what one
\* character said is never shown under the name of another, not even what a
\* check-in says that began while the next character was being bound; and when
\* no switch is going on, a connected frontend that was not refused its
\* snapshot is bound to exactly what the service is bound to: no frame that
\* arrived out of order left it on an older selection or without one.
FrontendFollows ==
    /\ shown.origin = shown.under
    /\ host.stage = "ready" /\ Reached(host.client) /\ ~client.refused
          => client.current = Envelope /\ ~client.switching
=============================================================================
