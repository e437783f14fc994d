---- MODULE TurnLifecycle ----
(***************************************************************************)
(* The turn lifecycle of aifren/assistant_service.py: typed inputs, the    *)
(* proactive check-in and a character switch over one conversation.        *)
(*                                                                         *)
(* Every input runs process_text_turn in a thread of its own.  Three locks *)
(* order them: the character binding lock (one step here), the turn lock   *)
(* (holder), which an input keeps from its first message to its end, and   *)
(* the turn state lock (boundary), which guards who is current and which   *)
(* the commit boundary keeps through save and publication.                 *)
(* Speech is left out: it starts after publication.                        *)
(***************************************************************************)
EXTENDS Naturals, Sequences, SequencesExt

CONSTANTS
    Inputs,        \* typed inputs, one process_text_turn each
    CheckIn,       \* the process_proactive_checkin call
    Nobody,        \* None
    Characters,    \* the characters of the registry
    First,         \* the one selected at the start
    MaxSwitches    \* bound: character selections

ASSUME TurnAssumption ==
    /\ CheckIn \notin Inputs /\ Nobody \notin Inputs \cup {CheckIn}
    /\ First \in Characters
    /\ MaxSwitches \in Nat

VARIABLES
    at,          \* where each worker's thread is
    owner,       \* the binding it belongs to: entry_owner
    cancelled,   \* workers whose cancel_event is set
    active,      \* whose event _active_turn_cancel is
    holder,      \* who holds _turn_lock
    boundary,    \* who is inside _turn_commit_boundary
    early,       \* inputs whose evidence was applied before generation
    binding,     \* character_id and _character_session
    conv,        \* whose archive self.conversation is
    memory,      \* Conversation.messages of each character
    archive,     \* its conversation.json
    blocked,     \* characters whose conversation has a _load_error
    published,   \* workers whose reply was emitted
    switch,      \* where the character selection is
    switches

turnVars == <<at, owner, cancelled, active, holder, boundary, early, published>>
convVars == <<memory, archive, blocked>>
bindVars == <<binding, conv, switch, switches>>
vars == <<turnVars, convVars, bindVars>>

Workers == Inputs \cup {CheckIn}
Question(t) == [role |-> "user", turn |-> t]
Reply(t) == [role |-> "assistant", turn |-> t]
Messages == [role: {"user", "assistant"}, turn: Workers]
Bindings == [character: Characters, session: 0..(2 * MaxSwitches)]

\* The steps taken while the worker holds the turn lock, and inside the boundary.
Committing == {"committing", "answering", "answered"}
Holding == {"started", "thinking", "generated", "published", "unwinding"} \cup Committing
Steps == {"idle", "submitted", "claimed", "done"} \cup Holding
SwitchSteps == {"off", "announced", "prepared", "quiet", "joined", "checked",
                "saved", "loaded", "swapped", "rebound"}

\* Types, and who can hold which lock: the turn lock belongs to the worker that
\* is between its acquisition and its finally, the boundary to the holder.
TypeOK ==
    /\ at \in [Workers -> Steps]
    /\ owner \in [Workers -> Bindings]
    /\ cancelled \subseteq Workers
    /\ active \in Workers \cup {Nobody}
    /\ \A w \in Workers : at[w] \in Holding <=> holder = w
    /\ \A w \in Workers : at[w] \in Committing <=> boundary = w
    /\ {holder, boundary} \subseteq Workers \cup {Nobody}
    /\ early \subseteq Inputs
    /\ binding \in Bindings
    /\ conv \in Characters
    /\ memory \in [Characters -> Seq(Messages)]
    /\ archive \in [Characters -> Seq(Messages)]
    /\ blocked \subseteq Characters
    /\ published \subseteq Workers
    /\ switch \in SwitchSteps
    /\ switches \in 0..MaxSwitches

Init ==
    /\ at = [w \in Workers |-> "idle"]
    /\ binding = [character |-> First, session |-> 0]
    /\ owner = [w \in Workers |-> binding]
    /\ cancelled = {} /\ early = {} /\ published = {} /\ blocked = {}
    /\ active = Nobody /\ holder = Nobody /\ boundary = Nobody
    /\ conv = First
    /\ memory = [c \in Characters |-> <<>>]
    /\ archive = [c \in Characters |-> <<>>]
    /\ switch = "off" /\ switches = 0

-----------------------------------------------------------------------------
(* Ownership.                                                              *)

\* _turn_is_current: what lets a turn go on.
Current(w) == w \notin cancelled /\ active = w

\* _turn_state_lock is free: everything under it is one step but the boundary.
StateLockFree == boundary = Nobody

\* The event of whoever is current is set.
Cancelled == cancelled \cup ({active} \ {Nobody})

Goto(w, from, to) == at[w] = from /\ at' = [at EXCEPT ![w] = to]

\* An except clause: the boundary closes and the call is on its way to finally.
Unwind(w) ==
    /\ at' = [at EXCEPT ![w] = "unwinding"]
    /\ boundary' = IF boundary = w THEN Nobody ELSE boundary
    /\ UNCHANGED <<owner, cancelled, active, holder, early, published>>

\* A call that returns without ever holding the turn lock.
Return(w) ==
    /\ at' = [at EXCEPT ![w] = "done"]
    /\ UNCHANGED <<cancelled, active, holder, boundary, early, published>>

-----------------------------------------------------------------------------
(* The conversation.                                                       *)

(* Conversation.save of messages m: it lands; it fails after os.replace    *)
(* ("kept"); it fails before and the file is read back ("lost"); that read *)
(* fails too ("unreadable"); or an earlier one did, and save only raises.  *)
SaveOutcomes ==
    IF conv \in blocked THEN {"refused"} ELSE {"ok", "kept", "lost", "unreadable"}

Save(m, how) ==
    /\ archive' = IF how \in {"ok", "kept"} THEN [archive EXCEPT ![conv] = m] ELSE archive
    /\ memory' = CASE how = "lost" -> [memory EXCEPT ![conv] = archive[conv]]
                   [] how = "refused" -> memory
                   [] OTHER -> [memory EXCEPT ![conv] = m]
    /\ blocked' = IF how = "unreadable" THEN blocked \cup {conv} ELSE blocked

\* _discard_unanswered_user_message: gone unless it was persisted on its own.
Discard(t) ==
    LET m == memory[conv]
        unsaved == {i \in DOMAIN m : m[i] = Question(t) /\ i > Len(archive[conv])}
    IN  [memory EXCEPT ![conv] =
            IF unsaved = {} THEN m ELSE RemoveAt(m, CHOOSE i \in unsaved : TRUE)]

\* except _TurnCancelled and except Exception.
GiveUp(t) ==
    /\ Unwind(t)
    /\ memory' = Discard(t)
    /\ UNCHANGED <<archive, blocked, bindVars>>

-----------------------------------------------------------------------------
(* process_text_turn.                                                      *)

\* The host hands over the text with the binding of the client that sent it.
Submit(t) ==
    /\ switch = "off"
    /\ Goto(t, "idle", "submitted")
    /\ owner' = [owner EXCEPT ![t] = binding]
    /\ UNCHANGED <<cancelled, active, holder, boundary, early, published,
                   convVars, bindVars>>

\* _claim_replacement_turn, under the binding lock: the newest input owns the
\* turn at once, while the one it replaces still runs.
Claim(t) ==
    /\ at[t] = "submitted" /\ StateLockFree
    /\ \/ /\ owner[t] # binding
          /\ Return(t) /\ UNCHANGED owner
       \/ /\ owner[t] = binding
          /\ Goto(t, "submitted", "claimed")
          /\ cancelled' = Cancelled /\ active' = t
          /\ UNCHANGED <<owner, holder, boundary, early, published>>
    /\ UNCHANGED <<convVars, bindVars>>

\* The turn lock, then the binding again: a turn of a retired selection gives
\* the lock back without ending its claim.
TakeTurn(t) ==
    /\ at[t] = "claimed" /\ holder = Nobody
    /\ \/ /\ owner[t] # binding
          /\ Return(t) /\ UNCHANGED owner
       \/ /\ owner[t] = binding
          /\ Goto(t, "claimed", "started")
          /\ holder' = t
          /\ UNCHANGED <<owner, cancelled, active, boundary, early, published>>
    /\ UNCHANGED <<convVars, bindVars>>

\* The checks at the start, and the input added to the history in memory.
Begin(t) ==
    /\ at[t] = "started" /\ StateLockFree
    /\ \/ /\ ~Current(t) \/ owner[t] # binding
          /\ GiveUp(t)
       \/ GiveUp(t)                  \* truth scope unavailable, load error
       \/ /\ Current(t) /\ owner[t] = binding /\ conv \notin blocked
          /\ Goto(t, "started", "thinking")
          /\ memory' = [memory EXCEPT ![conv] = Append(@, Question(t))]
          /\ UNCHANGED <<owner, cancelled, active, holder, boundary, early,
                         published, archive, blocked, bindVars>>

\* Evidence the state must take in before the reply is generated: it is saved
\* and observed at once, and survives whatever becomes of the reply.
KeepEvidence(t) ==
    /\ at[t] = "thinking" /\ t \notin early
    /\ \E how \in SaveOutcomes :
          /\ Save(memory[conv], how)
          /\ \/ /\ how = "ok"
                /\ early' = early \cup {t}
                /\ UNCHANGED <<at, owner, cancelled, active, holder, boundary, published>>
             \/ Unwind(t)            \* not saved, or not observed
    /\ UNCHANGED bindVars

\* The provider answers, fails, or is closed by a cancellation.
Generate(t) ==
    /\ at[t] = "thinking" /\ StateLockFree
    /\ \/ /\ Current(t)
          /\ Goto(t, "thinking", "generated")
          /\ UNCHANGED <<owner, cancelled, active, holder, boundary, early,
                         published, convVars, bindVars>>
       \/ GiveUp(t)

\* Mutant: the commit does not look at who is current.
EnterAnyway(t) ==
    /\ at[t] = "generated" /\ StateLockFree
    /\ Goto(t, "generated", "committing")
    /\ boundary' = t
    /\ UNCHANGED <<owner, cancelled, active, holder, early, published,
                   convVars, bindVars>>

\* _turn_commit_boundary: from here to publication no claim and no cancel lands.
EnterBoundary(t) ==
    /\ at[t] = "generated" /\ StateLockFree
    /\ \/ ~Current(t) /\ GiveUp(t)
       \/ /\ Current(t)
          /\ Goto(t, "generated", "committing")
          /\ boundary' = t
          /\ UNCHANGED <<owner, cancelled, active, holder, early, published,
                         convVars, bindVars>>

\* The input is saved, unless it was already or an applied action skips to the reply.
SaveInput(t) ==
    /\ at[t] = "committing" /\ t \in Inputs
    /\ \/ /\ Goto(t, "committing", "answering")
          /\ UNCHANGED <<owner, cancelled, active, holder, boundary, early,
                         published, convVars>>
       \/ /\ t \notin early
          /\ \E how \in SaveOutcomes :
                /\ Save(memory[conv], how)
                /\ IF how = "ok"
                   THEN /\ Goto(t, "committing", "answering")
                        /\ UNCHANGED <<owner, cancelled, active, holder, boundary,
                                       early, published>>
                   ELSE Unwind(t)
    /\ UNCHANGED bindVars

\* Mutant: the reply is only added in memory.
SaveReplyLater(t) ==
    /\ at[t] = "answering"
    /\ Goto(t, "answering", "answered")
    /\ memory' = [memory EXCEPT ![conv] = Append(@, Reply(t))]
    /\ UNCHANGED <<owner, cancelled, active, holder, boundary, early, published,
                   archive, blocked, bindVars>>

\* The reply is added and saved.  Any save error, a committed one too, ends the
\* turn unpublished; the except clause does not discard the input.
SaveReply(t) ==
    /\ at[t] = "answering"
    /\ \E how \in SaveOutcomes :
          /\ Save(IF conv \in blocked THEN memory[conv] ELSE Append(memory[conv], Reply(t)), how)
          /\ IF how = "ok"
             THEN /\ Goto(t, "answering", "answered")
                  /\ UNCHANGED <<owner, cancelled, active, holder, boundary,
                                 early, published>>
             ELSE Unwind(t)
    /\ UNCHANGED bindVars

\* assistant_response, and the boundary is released.
Publish(w) ==
    /\ Goto(w, "answered", "published")
    /\ published' = published \cup {w}
    /\ boundary' = Nobody
    /\ UNCHANGED <<owner, cancelled, active, holder, early, convVars, bindVars>>

\* Speech, observers and the rest: whether they raise or not, nothing is discarded.
AfterPublication(w) ==
    /\ at[w] = "published"
    /\ Unwind(w)
    /\ UNCHANGED <<convVars, bindVars>>

\* Mutant: the claim ends, the turn lock stays.
FinishKeepsLock(w) ==
    /\ StateLockFree
    /\ Goto(w, "unwinding", "done")
    /\ active' = IF active = w THEN Nobody ELSE active
    /\ UNCHANGED <<owner, cancelled, holder, boundary, early, published,
                   convVars, bindVars>>

\* finally: _finish_turn, and the turn lock.
Finish(w) ==
    /\ StateLockFree
    /\ Goto(w, "unwinding", "done")
    /\ active' = IF active = w THEN Nobody ELSE active
    /\ holder' = Nobody
    /\ UNCHANGED <<owner, cancelled, boundary, early, published,
                   convVars, bindVars>>

\* _cancel_active_turn: push-to-talk takes the floor without an input yet.
Cancel ==
    /\ StateLockFree
    /\ active \notin cancelled \cup {Nobody}
    /\ cancelled' = Cancelled
    /\ UNCHANGED <<at, owner, active, holder, boundary, early, published,
                   convVars, bindVars>>

-----------------------------------------------------------------------------
(* process_proactive_checkin.  The host polls when no turn task runs; a    *)
(* thread that found itself eligible outlives the cancelled poll.          *)

Poll ==
    /\ switch = "off"
    /\ \A t \in Inputs : at[t] \in {"idle", "done"}
    /\ Goto(CheckIn, "idle", "submitted")
    /\ UNCHANGED <<owner, cancelled, active, holder, boundary, early, published,
                   convVars, bindVars>>

\* Mutant: an idle turn lock is enough.
ClaimOverInput ==
    /\ at[CheckIn] = "submitted" /\ holder = Nobody
    /\ Goto(CheckIn, "submitted", "started")
    /\ owner' = [owner EXCEPT ![CheckIn] = binding]
    /\ active' = CheckIn /\ holder' = CheckIn
    /\ UNCHANGED <<cancelled, boundary, early, published, convVars, bindVars>>

\* Mutant: what finds an input's claim returns with the turn lock.
ClaimKeepsLock ==
    /\ at[CheckIn] = "submitted"
    /\ \/ /\ holder # Nobody
          /\ Return(CheckIn) /\ UNCHANGED owner
       \/ /\ holder = Nobody
          /\ at' = [at EXCEPT ![CheckIn] = IF active = Nobody THEN "started" ELSE "done"]
          /\ owner' = [owner EXCEPT ![CheckIn] = binding]
          /\ active' = (IF active = Nobody THEN CheckIn ELSE active) /\ holder' = CheckIn
          /\ UNCHANGED <<cancelled, boundary, early, published>>
    /\ UNCHANGED <<convVars, bindVars>>

\* The turn lock without waiting, and never over an input that has claimed.
ClaimCheckIn ==
    /\ at[CheckIn] = "submitted"
    /\ \/ /\ holder # Nobody \/ active # Nobody
          /\ Return(CheckIn) /\ UNCHANGED owner
       \/ /\ holder = Nobody /\ active = Nobody
          /\ Goto(CheckIn, "submitted", "started")
          /\ owner' = [owner EXCEPT ![CheckIn] = binding]
          /\ active' = CheckIn /\ holder' = CheckIn
          /\ UNCHANGED <<cancelled, boundary, early, published>>
    /\ UNCHANGED <<convVars, bindVars>>

\* The private draft; a refusal to publish it is a failure as well.
GenerateCheckIn ==
    /\ at[CheckIn] = "started" /\ StateLockFree
    /\ \/ /\ Current(CheckIn)
          /\ Goto(CheckIn, "started", "generated")
          /\ UNCHANGED <<owner, cancelled, active, holder, boundary, early, published>>
       \/ Unwind(CheckIn)
    /\ UNCHANGED <<convVars, bindVars>>

\* The boundary, and the authority read again inside it.  The store it reads is
\* the one of the character it began with, closed just before the rebinding.
EnterCheckIn ==
    /\ at[CheckIn] = "generated" /\ StateLockFree
    /\ \/ Unwind(CheckIn)       \* not current, or no longer eligible
       \/ /\ Current(CheckIn)
          /\ binding.character = owner[CheckIn].character
          /\ conv = owner[CheckIn].character
          /\ Goto(CheckIn, "generated", "committing")
          /\ boundary' = CheckIn
          /\ UNCHANGED <<owner, cancelled, active, holder, early, published>>
    /\ UNCHANGED <<convVars, bindVars>>

\* self.conversation as it is now, not as it was when checked.
Post ==
    /\ at[CheckIn] = "committing"
    /\ \E how \in SaveOutcomes :
          /\ Save(IF conv \in blocked THEN memory[conv]
                  ELSE Append(memory[conv], Reply(CheckIn)), how)
          /\ IF how = "ok"
             THEN /\ Goto(CheckIn, "committing", "answered")
                  /\ UNCHANGED <<owner, cancelled, active, holder, boundary,
                                 early, published>>
             ELSE Unwind(CheckIn)
    /\ UNCHANGED bindVars

-----------------------------------------------------------------------------
(* A character selection: BackendHost._select_character, in turn.          *)

SwitchTo(step) == switch' = step /\ UNCHANGED switches

\* The host refuses commands from here on and cancels the poll.
SelectCharacter ==
    /\ switch = "off" /\ switches < MaxSwitches
    /\ switch' = "announced" /\ switches' = switches + 1
    /\ UNCHANGED <<binding, conv, turnVars, convVars>>

\* prepare_character_switch: a new session, and the current turn is cancelled.
PrepareSwitch ==
    /\ switch = "announced" /\ StateLockFree
    /\ SwitchTo("prepared")
    /\ binding' = [binding EXCEPT !.session = @ + 1]
    /\ cancelled' = Cancelled
    /\ UNCHANGED <<conv, at, owner, active, holder, boundary, early, published, convVars>>

\* wait_for_character_switch_idle, or its timeout.
WaitIdle ==
    /\ switch = "prepared"
    /\ SwitchTo(IF holder = Nobody THEN "quiet" ELSE "off")
    /\ UNCHANGED <<binding, conv, turnVars, convVars>>

\* The host's turn tasks have all returned; the poll's is no longer among them.
JoinTurns ==
    /\ switch = "quiet"
    /\ \A t \in Inputs : at[t] \in {"idle", "done"}
    /\ SwitchTo("joined")
    /\ UNCHANGED <<binding, conv, turnVars, convVars>>

\* switch_character_state looks at the turn lock once.
CheckIdle ==
    /\ switch = "joined"
    /\ SwitchTo(IF holder = Nobody THEN "checked" ELSE "off")
    /\ UNCHANGED <<binding, conv, turnVars, convVars>>

\* self.save() of the outgoing character.
SaveOutgoing ==
    /\ switch = "checked"
    /\ \E how \in SaveOutcomes :
          /\ Save(memory[conv], how)
          /\ SwitchTo(IF how = "ok" THEN "saved" ELSE "off")
    /\ UNCHANGED <<binding, conv, turnVars>>

\* The incoming character is loaded and the selection published, or nothing is.
LoadIncoming ==
    /\ switch = "saved"
    /\ SwitchTo("loaded") \/ SwitchTo("off")
    /\ UNCHANGED <<binding, conv, turnVars, convVars>>

\* The old stores and lease are closed and self.conversation is replaced.
SwapConversation ==
    /\ switch = "loaded"
    /\ SwitchTo("swapped")
    /\ \E c \in Characters \ {binding.character} :
          /\ conv' = c
          /\ memory' = [memory EXCEPT ![c] = archive[c]]
          /\ blocked' = blocked \ {c}
    /\ UNCHANGED <<binding, archive, turnVars>>

\* character_id and a new session, under the binding lock.
Rebind ==
    /\ switch = "swapped"
    /\ SwitchTo("rebound")
    /\ binding' = [character |-> conv, session |-> binding.session + 1]
    /\ UNCHANGED <<conv, turnVars, convVars>>

\* No turn is current under the new character.
ResetTurn ==
    /\ switch = "rebound" /\ StateLockFree
    /\ SwitchTo("off")
    /\ active' = Nobody
    /\ UNCHANGED <<binding, conv, at, owner, cancelled, holder, boundary, early,
                   published, convVars>>

-----------------------------------------------------------------------------
Process(t) ==
    \/ Claim(t) \/ TakeTurn(t) \/ Begin(t) \/ KeepEvidence(t) \/ Generate(t)
    \/ EnterBoundary(t) \/ SaveInput(t) \/ SaveReply(t)
    \/ Publish(t) \/ AfterPublication(t) \/ Finish(t)

CheckInWork ==
    \/ ClaimCheckIn \/ GenerateCheckIn \/ EnterCheckIn \/ Post
    \/ Publish(CheckIn) \/ AfterPublication(CheckIn) \/ Finish(CheckIn)

Switch ==
    \/ PrepareSwitch \/ WaitIdle \/ JoinTurns \/ CheckIdle \/ SaveOutgoing
    \/ LoadIncoming \/ SwapConversation \/ Rebind \/ ResetTurn

Next ==
    \/ \E t \in Inputs : Submit(t) \/ Process(t)
    \/ Poll \/ CheckInWork
    \/ Cancel
    \/ SelectCharacter \/ Switch

\* A started call is scheduled, its provider answers or times out; the host
\* goes on with a selection it began.  Nobody has to type, press or select.
Fairness ==
    /\ \A t \in Inputs : WF_vars(Process(t))
    /\ WF_vars(CheckInWork)
    /\ WF_vars(Switch)

Spec == Init /\ [][Next]_vars /\ Fairness

-----------------------------------------------------------------------------
(* Properties.                                                             *)

\* An answer is saved directly after the question it answers, whoever typed in
\* between, and what the user was shown of it is in the archive; and between
\* turns the history the next prompt is built from is the saved one: no input of
\* a failed or interrupted turn haunts it (_discard_unanswered_user_message).
HistoryAgrees ==
    /\ \A c \in Characters : \A i \in DOMAIN archive[c] : \A t \in Inputs :
          archive[c][i] = Reply(t) => i > 1 /\ archive[c][i - 1] = Question(t)
    /\ \A w \in published : \E c \in Characters : \E i \in DOMAIN archive[c] :
          archive[c][i] = Reply(w)
    /\ holder = Nobody /\ conv \notin blocked => memory[conv] = archive[conv]

\* An input that claimed the turn keeps it until it ends or something cancels
\* it: a check-in never takes it over, another turn's end never drops it.
InputsKeepAuthority ==
    \A t \in Inputs : at[t] \in {"claimed"} \cup Holding /\ t \notin cancelled => active = t

\* Nothing that was cancelled or replaced is ever published, however late the
\* cancellation came (_turn_commit_boundary).
OnlyCurrentPublishes ==
    [][\A w \in Workers : w \in published' \ published => Current(w)]_vars

\* Every input handed over comes to an end: no turn waits for a lock for ever.
InputsEnd == \A t \in Inputs : at[t] = "submitted" ~> at[t] = "done"

\* A message is saved in the archive of the character its turn belongs to:
\* switch_character_state replaces the character's state atomically.
MessagesStayHome ==
    \A c \in Characters : \A i \in DOMAIN archive[c] :
        owner[archive[c][i].turn].character = c
====
