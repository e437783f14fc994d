---------------------------- MODULE Observation ----------------------------
(***************************************************************************)
(* Canonical observation: how the saved conversation of one character      *)
(* becomes rows of its Memory V2 store, across crashes, failing observers  *)
(* and a clock that may be set back.                                       *)
(*                                                                         *)
(* Two writers derive rows from the same saved message.  A turn observes   *)
(* the current continuity of its own message right after saving it; and    *)
(* CanonicalObservationRecovery.run_page, before and after every turn, on  *)
(* start and on an idle poll, lets each consumer replay the archive from   *)
(* the cursor it keeps in the store.  All of it runs under the turn lock,  *)
(* so a step is interrupted only by a crash.                               *)
(*                                                                         *)
(* One durable subject stands for the identity and durable consumers (they *)
(* share every rule), one activity slot per truth scope for the current    *)
(* state, and a statement is what the extractors recognise in it.          *)
(***************************************************************************)
EXTENDS Naturals, FiniteSets, Sequences, FiniteSetsExt

CONSTANTS Statements,      \* what a user may say in this instance
          MaxTime,         \* bound on the clock, and so on the messages
          PageRecords,     \* PAGE_RECORDS
          MaxFaults        \* crashes, failures and clock setbacks

ASSUME ObservationAssumption ==
    /\ Statements \subseteq {"fact A", "fact B", "retire A", "activity",
                             "thread", "enter", "exit", "question",
                             "plain", "request"}
    /\ MaxTime \in Nat /\ MaxFaults \in Nat
    /\ PageRecords \in Nat \ {0}

VARIABLES archive,     \* conversation.json: the saved records
          turn,        \* the message a turn is answering, saved or not
          clock,       \* wall clock of the last message
          skewed,      \* the clock has been set back
          db,          \* the committed rows of the Memory V2 store
          phase,       \* where the service is
          page,        \* the page being processed and its transaction
          status,      \* last_status: the outcome of each consumer
          signature,   \* _completed_signature
          faults       \* faults still allowed

observationVars == <<archive, turn, clock, skewed, db, phase, page, status,
                     signature, faults>>

Consumers     == {"durable", "continuity", "history"}
ConsumerOrder == <<"durable", "continuity", "history">>
Scopes        == {"real", "scenario"}

NoMessage == [role |-> "none"]
NoValue   == "none"
EmptyStore == [events |-> {}, fact |-> NoValue, watermark |-> 0, rows |-> {},
               scope |-> "real", next |-> [c \in Consumers |-> 0],
               history |-> {}, disposed |-> {}]
NoPage    == [todo |-> <<>>, work |-> EmptyStore, done |-> 0,
              outcomes |-> [c \in Consumers |-> "none"], then |-> "idle"]
NoSignature == [count |-> 0, events |-> 0, scope |-> "unknown"]
Forever   == MaxTime + 10

Reply == [role |-> "assistant"]

Asserted(says) == CASE says = "fact A" -> "A"
                    [] says = "fact B" -> "B"
                    [] OTHER           -> NoValue
Retired(says)  == IF says = "retire A" THEN "A" ELSE NoValue

(***************************************************************************)
(* The durable consumer.                                                   *)
(***************************************************************************)

Event(kind, i, at, state) ==
    [kind |-> kind, of |-> i, at |-> at, state |-> state]

\* _apply_resolved_durable_fact: evidence older than the subject's
\* watermark is ignored, the same value reconfirmed, another superseded.
AssertFact(d, i) ==
    LET m == archive[i]
    IN  IF m.at < d.watermark
        THEN d
        ELSE [d EXCEPT !.events = @ \cup {Event("durable", i, m.at, FALSE)},
                       !.fact = Asserted(m.says),
                       !.watermark = m.at]

\* _apply_resolved_durable_retirement: only the exact current value expires.
RetireFact(d, i) ==
    LET m == archive[i]
    IN  IF m.at < d.watermark \/ d.fact # Retired(m.says)
        THEN d
        ELSE [d EXCEPT !.events = @ \cup {Event("durable", i, m.at, FALSE)},
                       !.fact = NoValue,
                       !.watermark = m.at]

Outcome(state, d) == [state |-> state, db |-> d]

\* Only an answered real-world statement counts, and only in its own scope.
ObserveDurable(d, i) ==
    LET m == archive[i]
    IN  IF m.scope # "real"                THEN Outcome("complete", d)
        ELSE IF i = Len(archive)           THEN Outcome("pending", d)
        ELSE IF d.scope # m.scope          THEN Outcome("pending", d)
        ELSE IF Asserted(m.says) # NoValue THEN Outcome("complete", AssertFact(d, i))
        ELSE IF Retired(m.says) # NoValue  THEN Outcome("complete", RetireFact(d, i))
        ELSE Outcome("complete", d)

(***************************************************************************)
(* The continuity consumer.                                                *)
(***************************************************************************)

\* _current_active_state_rows: the values of the slot at a time.
CurrentRows(d, s, at) ==
    {r \in d.rows : r.scope = s /\ r.from <= at /\ at < r.until}

\* extract_current_continuity: what a statement changes in this scope.  It
\* reads the current activity, and fails when the slot holds two.
Mutates(d, says) ==
    \/ says \in {"activity", "thread", "enter"}
    \/ says = "exit" /\ d.scope = "scenario"
ChangesScope(d, says) == says \in {"enter", "exit"} /\ Mutates(d, says)
Ambiguous(d, says) ==
    /\ ~ChangesScope(d, says)
    /\ Cardinality(CurrentRows(d, d.scope, clock)) > 1

\* set_active_state: closes the value current at the evidence's time.
SetActivity(d, at) ==
    LET current == CurrentRows(d, d.scope, at)
    IN  [d EXCEPT !.rows =
            (@ \ current) \cup {[r EXCEPT !.until = at] : r \in current}
                \cup {[scope |-> d.scope, from |-> at, until |-> Forever]}]

\* observe_canonical_user_continuity: the event and every mutation commit
\* together; an event already there is left as it is.
WriteContinuity(d, m, i) ==
    LET next == IF m.says = "enter" THEN "scenario" ELSE "real"
        moves == ChangesScope(d, m.says) /\ next # d.scope
        recorded == [d EXCEPT !.events = @ \cup
            {Event("continuity", i, m.at, ChangesScope(d, m.says) => moves)}]
    IN  IF Ambiguous(d, m.says) THEN Outcome("failed", d)
        ELSE IF ~Mutates(d, m.says) THEN Outcome("ignored", d)
        ELSE IF \E e \in d.events : e.kind = "continuity" /\ e.of = i
             THEN Outcome("unchanged", d)
        ELSE IF ChangesScope(d, m.says)
             THEN Outcome("applied", [recorded EXCEPT !.scope = next])
        ELSE IF m.says = "thread" THEN Outcome("applied", recorded)
        ELSE IF Cardinality(CurrentRows(d, d.scope, m.at)) > 1
             THEN Outcome("failed", d)
        ELSE Outcome("applied", SetActivity(recorded, m.at))

\* _continuity_disposition: a replaced activity, by the evidence that
\* replaced it.
Witnesses(d, m) ==
    {e \in d.events :
        /\ e.kind = "continuity" /\ e.at > m.at
        /\ \E r \in CurrentRows(d, m.scope, clock) : r.from = e.at
        /\ archive[e.of].says = "activity" /\ archive[e.of].scope = m.scope}

Superseded(d, m) == m.says = "activity" /\ Witnesses(d, m) # {}

\* The state evidence _state_replay_guard will not rewind.
NewerStateEvidence(d, m) == \E e \in d.events : e.state /\ e.at > m.at

\* Mutant: a replay that neither looks for newer evidence nor is guarded.
ObserveContinuityAgain(d, i) ==
    LET m == archive[i]
        written == WriteContinuity(d, m, i)
    IN  IF m.scope # d.scope THEN Outcome("unresolved", d)
        ELSE IF written.state = "failed" THEN Outcome("failed", d)
        ELSE Outcome("complete", written.db)

\* _state_replay_guard, then the writer.
ObserveContinuity(d, i) ==
    LET m == archive[i]
        written == WriteContinuity(d, m, i)
    IN  IF \E e \in d.events : e.kind = "continuity" /\ e.of = i
             THEN Outcome("complete", d)
        ELSE IF m.scope # d.scope THEN Outcome("unresolved", d)
        ELSE IF Ambiguous(d, m.says) THEN Outcome("failed", d)
        ELSE IF m.says = "question" THEN Outcome("complete", d)
        ELSE IF Superseded(d, m)
             THEN Outcome("complete",
                    [d EXCEPT !.disposed = @ \cup
                        {[of |-> i, by |-> e] : e \in Witnesses(d, m)}])
        ELSE IF NewerStateEvidence(d, m) THEN Outcome("unresolved", d)
        ELSE IF written.state = "failed" THEN Outcome("failed", d)
        ELSE Outcome("complete", written.db)

\* _observe: history keeps every record, the others read user records only.
Observe(c, d, i) ==
    IF c = "history"
    THEN Outcome("complete", [d EXCEPT !.history = @ \cup {i}])
    ELSE IF archive[i].role # "user" THEN Outcome("complete", d)
    ELSE IF c = "durable" THEN ObserveDurable(d, i)
    ELSE ObserveContinuity(d, i)

(***************************************************************************)
(* A page of recovery.                                                     *)
(***************************************************************************)

\* The archive and the evidence revision a page was finished for.
CurrentSignature == [count |-> Len(archive),
                     events |-> Cardinality(db.events),
                     scope |-> db.scope]

\* run_page, entered from a turn, a start or the idle poll, which go on to
\* `then`: nothing to do when the last page left nothing for this revision.
EnterPage(then) ==
    IF signature = CurrentSignature
    THEN phase' = then /\ UNCHANGED <<page, signature>>
    ELSE /\ phase' = "page"
         /\ page' = [NoPage EXCEPT !.todo = ConsumerOrder, !.work = db,
                                  !.then = then]
         /\ signature' = NoSignature

Working(c) == phase = "page" /\ page.todo # <<>> /\ c = Head(page.todo)

\* The end of a consumer's transaction.
Commit(c, state) ==
    /\ db' = page.work
    /\ page' = [page EXCEPT !.todo = Tail(@), !.done = 0, !.outcomes[c] = state]

\* One record in its savepoint: either its rows and the cursor, or nothing
\* and the end of this consumer's page.
ObserveRecord(c) ==
    LET i == page.work.next[c] + 1
        outcome == Observe(c, page.work, i)
    IN  /\ Working(c)
        /\ i <= Len(archive) /\ page.done < PageRecords
        /\ IF outcome.state = "complete"
           THEN /\ page' = [page EXCEPT !.done = @ + 1,
                                   !.work = [outcome.db EXCEPT !.next[c] = i]]
                /\ UNCHANGED db
           ELSE Commit(c, outcome.state)
        /\ UNCHANGED <<archive, turn, clock, skewed, phase, status, signature, faults>>

\* Mutant: the cursor passes a record whose observer raised.
ObserverFailsForward(c) ==
    /\ Working(c) /\ faults > 0
    /\ page.work.next[c] < Len(archive) /\ page.done < PageRecords
    /\ db' = [page.work EXCEPT !.next[c] = @ + 1]
    /\ page' = [page EXCEPT !.todo = Tail(@), !.done = 0, !.outcomes[c] = "failed"]
    /\ faults' = faults - 1
    /\ UNCHANGED <<archive, turn, clock, skewed, phase, status, signature>>

\* The same record when its observer raises.
ObserverFails(c) ==
    /\ Working(c) /\ faults > 0
    /\ page.work.next[c] < Len(archive) /\ page.done < PageRecords
    /\ Commit(c, "failed")
    /\ faults' = faults - 1
    /\ UNCHANGED <<archive, turn, clock, skewed, phase, status, signature>>

\* The page bound or the end of the archive.
FinishConsumer(c) ==
    LET whole == page.work.next[c] = Len(archive)
    IN  /\ Working(c)
        /\ whole \/ page.done = PageRecords
        /\ Commit(c, IF whole THEN "complete" ELSE "pending")
        /\ UNCHANGED <<archive, turn, clock, skewed, phase, status, signature, faults>>

\* Mutant: a failure counts as settled too.
PageIsFinalAlways(outcomes) ==
    \A c \in Consumers : outcomes[c] \in {"complete", "unresolved", "failed"}

\* An unresolved record is not retried until the evidence changes.
PageIsFinal(outcomes) == \A c \in Consumers : outcomes[c] \in {"complete", "unresolved"}

FinishPage ==
    /\ phase = "page" /\ page.todo = <<>>
    /\ status' = page.outcomes
    /\ signature' = IF PageIsFinal(page.outcomes) THEN CurrentSignature ELSE NoSignature
    /\ phase' = page.then
    /\ page' = NoPage
    /\ UNCHANGED <<archive, turn, clock, skewed, db, faults>>

\* _recover_canonical_observers: an error outside a record rolls the
\* consumer's transaction back and ends the page.
PageFails ==
    /\ phase = "page" /\ faults > 0
    /\ status' = [c \in Consumers |-> "failed"]
    /\ phase' = page.then
    /\ page' = NoPage
    /\ faults' = faults - 1
    /\ UNCHANGED <<archive, turn, clock, skewed, db, signature>>

\* maintain_canonical_observers: the host's poll between turns.
Maintain ==
    /\ phase = "idle"
    /\ EnterPage("idle")
    /\ UNCHANGED <<archive, turn, clock, skewed, db, status, faults>>

(***************************************************************************)
(* A turn.                                                                 *)
(***************************************************************************)

NoTurn == [message |-> NoMessage, saved |-> FALSE, acted |-> FALSE,
           early |-> FALSE]

StartTurn ==
    /\ phase = "idle" /\ clock + 4 <= MaxTime
    /\ EnterPage("input")
    /\ UNCHANGED <<archive, turn, clock, skewed, db, status, faults>>

\* add_user_message: in memory only, in the scope active now.
Hear(says, at) ==
    /\ phase = "input"
    /\ turn' = [message |-> [role |-> "user", says |-> says, at |-> at,
                             scope |-> db.scope],
                saved |-> FALSE, acted |-> FALSE, early |-> FALSE]
    /\ clock' = at
    /\ phase' = "thinking"
    /\ UNCHANGED <<archive, db, page, status, signature>>

AddUserMessage(says) ==
    /\ Hear(says, clock + 4)
    /\ UNCHANGED <<skewed, faults>>

\* The same message when the wall clock was set back since the last one; a
\* setback uses two of the faults, which only bounds the instance.
AddBackdatedMessage(says) ==
    /\ faults > 1 /\ clock >= 4 /\ ~skewed
    /\ Hear(says, clock - 2)
    /\ skewed' = TRUE
    /\ faults' = faults - 2

\* changed_by_current_evidence: seen before generation, unless the policy
\* could not be computed.
ChangedByEvidence ==
    /\ Mutates(db, turn.message.says) /\ turn.message.says # "thread"
    /\ ~Ambiguous(db, turn.message.says)

\* The user record is saved on its own: before generation when it changes
\* the state, at the commit otherwise.
SaveUser ==
    /\ phase = "thinking" /\ ~turn.acted
    /\ archive' = Append(archive, turn.message)
    /\ turn' = [turn EXCEPT !.saved = TRUE, !.early = ChangedByEvidence]
    /\ phase' = "saved"
    /\ UNCHANGED <<clock, skewed, db, page, status, signature, faults>>

Discard == turn' = NoTurn /\ EnterPage("idle")

\* A save that fails restores the saved records and ends the turn.
SaveFails ==
    /\ phase \in {"thinking", "reply"} /\ faults > 0
    /\ Discard
    /\ faults' = faults - 1
    /\ UNCHANGED <<archive, clock, skewed, db, status>>

\* _observe_current_continuity on the saved record.  A change announced
\* before generation must succeed for the turn to go on.
ObserveLive ==
    LET written == WriteContinuity(db, turn.message, Len(archive))
    IN  /\ phase = "saved"
        /\ db' = written.db
        /\ phase' = "reply"
        /\ UNCHANGED <<archive, turn, clock, skewed, page, status, signature, faults>>

LiveObserverFails ==
    /\ phase = "saved" /\ faults > 0
    /\ faults' = faults - 1
    /\ IF turn.early
       THEN Discard
       ELSE phase' = "reply" /\ UNCHANGED <<turn, page, signature>>
    /\ UNCHANGED <<archive, clock, skewed, db, status>>

\* apply_governed_companion_action: committed before the message is saved,
\* at the microsecond after the message it answers.
ActOnRequest ==
    /\ phase = "thinking" /\ turn.message.says = "request"
    /\ db' = [db EXCEPT !.events = @ \cup
            {Event("action", Len(archive) + 1, turn.message.at + 1, TRUE)}]
    /\ turn' = [turn EXCEPT !.acted = TRUE]
    /\ phase' = "reply"
    /\ UNCHANGED <<archive, clock, skewed, page, status, signature, faults>>

\* The assistant record, with the message when only the action was saved;
\* then the page that ends every turn.
SaveReply ==
    /\ phase = "reply"
    /\ archive' = archive \o (IF turn.saved THEN <<Reply>>
                                            ELSE <<turn.message, Reply>>)
    /\ turn' = NoTurn
    /\ phase' = "ended"
    /\ UNCHANGED <<clock, skewed, db, page, status, signature, faults>>

\* A turn cancelled, or failing in the provider, before its commit: an
\* unsaved message is dropped, a saved one stays.
AbandonTurn ==
    /\ \/ phase = "thinking"
       \/ phase = "reply" /\ turn.early
    /\ Discard
    /\ UNCHANGED <<archive, clock, skewed, db, status, faults>>

EndTurn ==
    /\ phase = "ended"
    /\ EnterPage("idle")
    /\ UNCHANGED <<archive, turn, clock, skewed, db, status, faults>>

\* The process dies: the files stay, an open transaction does not.
Crash ==
    /\ phase # "down" /\ faults > 0
    /\ phase' = "down"
    /\ turn' = NoTurn /\ page' = NoPage
    /\ status' = [c \in Consumers |-> "none"]
    /\ signature' = NoSignature
    /\ faults' = faults - 1
    /\ UNCHANGED <<archive, clock, skewed, db>>

\* _bind_canonical_observation_recovery
Restart ==
    /\ phase = "down"
    /\ EnterPage("idle")
    /\ UNCHANGED <<archive, turn, clock, skewed, db, status, faults>>

(***************************************************************************)
(* The specification.                                                      *)
(***************************************************************************)

ObservationInit ==
    /\ archive = <<>> /\ turn = NoTurn
    /\ clock = 0 /\ skewed = FALSE
    /\ db = EmptyStore
    /\ phase = "idle" /\ page = NoPage
    /\ status = [c \in Consumers |-> "none"]
    /\ signature = NoSignature
    /\ faults = MaxFaults

PageStep ==
    \/ \E c \in Consumers : ObserveRecord(c) \/ FinishConsumer(c)
    \/ FinishPage

TurnStep ==
    \/ \E says \in Statements : AddUserMessage(says)
    \/ SaveUser \/ ObserveLive \/ ActOnRequest \/ SaveReply \/ EndTurn

Fault ==
    \/ \E c \in Consumers : ObserverFails(c)
    \/ PageFails \/ SaveFails \/ LiveObserverFails \/ Crash
    \/ \E says \in Statements : AddBackdatedMessage(says)

ObservationNext ==
    PageStep \/ TurnStep \/ Fault
        \/ Maintain \/ StartTurn \/ AbandonTurn \/ Restart

\* A turn and a page run on a thread that nothing suspends, and the host
\* polls for maintenance as long as it runs.
ObservationFairness ==
    /\ WF_observationVars(PageStep)
    /\ WF_observationVars(TurnStep)
    /\ WF_observationVars(Maintain)

ObservationSpec ==
    ObservationInit /\ [][ObservationNext]_observationVars /\ ObservationFairness

(***************************************************************************)
(* Correctness.                                                            *)
(***************************************************************************)

UserRecord == [role : {"user"}, says : Statements, at : 0..MaxTime, scope : Scopes]

ObservationTypeOK ==
    /\ \A i \in DOMAIN archive : archive[i] \in UserRecord \cup {Reply}
    /\ turn.message \in UserRecord \cup {NoMessage}
    /\ clock \in 0..MaxTime /\ skewed \in BOOLEAN /\ faults \in 0..MaxFaults
    /\ phase \in {"down", "idle", "input", "thinking", "saved", "reply",
                  "ended", "page"}
    /\ db.scope \in Scopes /\ db.fact \in {"A", "B", NoValue}
    /\ db.next \in [Consumers -> 0..Len(archive)]
    /\ db.rows \subseteq [scope : Scopes, from : 0..MaxTime, until : 0..Forever]
    /\ db.history \subseteq 1..Len(archive)

\* The durable value an archive prefix amounts to.
DurableValue(n) ==
    LET spoken  == {i \in 1..n : archive[i].role = "user" /\ archive[i].scope = "real"}
        asserts == {i \in spoken : Asserted(archive[i].says) # NoValue}
        last    == Max(asserts)
        value   == Asserted(archive[last].says)
    IN  IF asserts = {} THEN NoValue
        ELSE IF \E i \in spoken : i > last /\ Retired(archive[i].says) = value
             THEN NoValue
        ELSE value

\* As long as the clock never went back, a slot holds one open value, from
\* the newest statement applied to it in its scope.
SlotFollowsEvidence ==
    ~skewed => \A s \in Scopes :
        LET applied == {e \in db.events :
                /\ e.kind = "continuity" /\ archive[e.of].says = "activity"
                /\ archive[e.of].scope = s}
            open == {r \in db.rows : r.scope = s /\ r.until = Forever}
        IN  {r.from : r \in open} =
                IF applied = {} THEN {} ELSE {Max({e.at : e \in applied})}

\* What a record changes, in the scope it was spoken in.
StateBearing(m) ==
    /\ m.role = "user"
    /\ \/ m.says \in {"activity", "thread", "enter"}
       \/ m.says = "exit" /\ m.scope = "scenario"

\* However pages were cut, failed or lost, what lies behind a cursor took
\* effect once: the durable value is the one those records amount to, and each
\* change of the continuity state was applied or was replaced by newer
\* committed evidence that its disposition names.
CursorMeansSettled ==
    /\ ~skewed => db.fact = DurableValue(db.next["durable"])
    /\ \A i \in 1..db.next["continuity"] : StateBearing(archive[i]) =>
        \/ \E e \in db.events : e.kind = "continuity" /\ e.of = i
        \/ \E w \in db.disposed :
              w.of = i /\ w.by \in db.events /\ w.by.at > archive[i].at

\* lookup_health, which decides whether an absence may be asserted: an
\* unanswered last record establishes nothing yet.
Unanswered == archive # <<>> /\ archive[Len(archive)].role = "user"
Required   == IF Unanswered THEN Len(archive) - 1 ELSE Len(archive)
\* Mutant: the outcome of the last page alone.
LookupCompleteByStatus ==
    \A c \in {"history", "durable"} : status[c] \notin {"failed", "unresolved"}
LookupComplete ==
    /\ \A c \in {"history", "durable"} :
        db.next[c] >= Required /\ status[c] \notin {"failed", "unresolved"}

\* A lookup made for a turn that reports complete evidence reads rows that
\* reflect every record it is answerable for.
LookupIsHonest ==
    phase \in {"thinking", "reply"} /\ LookupComplete =>
        /\ 1..Required \subseteq db.history
        /\ ~skewed => db.fact = DurableValue(Required)

\* Nothing more can be derived from the archive.
Settled ==
    \A c \in Consumers :
        \/ db.next[c] = Len(archive)
        \/ Observe(c, db, db.next[c] + 1).state \in {"pending", "unresolved"}

\* Once the faults are over the archive is observed to its end, but for
\* records that wait for their answer or scope, or are ambiguous.
EventuallySettled == []<>(phase = "down" \/ skewed \/ Settled)

\* "never rewind a newer owner": without any fault there is none, and no
\* record is left unresolved.
FaultlessSettles ==
    faults = MaxFaults /\ phase = "idle" =>
        \A c \in Consumers : status[c] # "unresolved"
=============================================================================
