--------------------------- MODULE EpisodeRollover ---------------------------
(***************************************************************************)
(* Episode compaction: how the older exchanges of a character's archive    *)
(* come to be covered by summaries, one at a time, by a daemon worker that *)
(* outlives turns, character switches and even its own rollover object.    *)
(*                                                                         *)
(* Every binding of the character makes an EpisodeCompactionRollover of    *)
(* its own; a module-level key keeps their workers apart within a process. *)
(* The idle page asks for the next episode, a turn's end starts one that   *)
(* had to be put off, and a worker publishes the episodes it kept and the  *)
(* one it wrote as a new generation, in one transaction.                   *)
(*                                                                         *)
(* Only the historical runtime is modelled, the one the service creates;   *)
(* the provider keeps its identity (a change needs an explicit rebuild).   *)
(***************************************************************************)
EXTENDS Naturals, FiniteSets, Sequences, FiniteSetsExt

CONSTANTS MaxExchanges,     \* bound on the archive
          RecentExchanges,  \* RECENT_EXCHANGES_TO_KEEP
          EpisodeLength,    \* MAX_EXCHANGES_PER_EPISODE
          MaxBindings, MaxCompactionFaults

ASSUME RolloverAssumption ==
    /\ {MaxExchanges, RecentExchanges, MaxCompactionFaults} \subseteq Nat
    /\ {EpisodeLength, MaxBindings} \subseteq Nat \ {0}

VARIABLES exchanges,   \* the archive, record by record
          published,   \* the generation in the store and its episodes
          bindings,    \* bindings made so far, and whether the last is current
          rollover,    \* the rollover object of each binding
          activeKey,   \* the character is in _ACTIVE_ROLLOVER_KEYS
          wanted,      \* the idle page has found a range to cover
          compactionFaults

rolloverVars == <<exchanges, published, bindings, rollover, activeKey, wanted,
                  compactionFaults>>

Owners == 1..MaxBindings
Current  == bindings.made
Bound    == bindings.current

NewRollover == [stopped |-> FALSE, pending |-> FALSE, deferred |-> FALSE,
                expected |-> 0, worker |-> "none", snapshot |-> 0,
                kept |-> {}]

(***************************************************************************)
(* What there is to cover.                                                 *)
(***************************************************************************)

\* historical_episode_source_groups: complete exchanges, never bridging an
\* excluded record, but for the most recent ones.
Older(n) ==
    LET complete == {k \in 1..n : exchanges[k] = "complete"}
    IN  {k \in complete :
            Cardinality({j \in complete : j > k}) >= RecentExchanges}

Uncovered(n, episodes) == Older(n) \ UNION episodes

\* historical_append_plan keeps every range of a generation that is valid
\* for these messages; _episode_boundaries_from_groups cuts the next one.
Retained(n) ==
    IF UNION published.episodes \subseteq 1..n THEN published.episodes ELSE {}

NextEpisode(n, episodes) ==
    LET rest  == Uncovered(n, episodes)
        first == Min(rest)
    IN  IF rest = {} THEN {}
        ELSE {{k \in rest : k < first + EpisodeLength /\ first..k \subseteq rest}}

(***************************************************************************)
(* The owner: turns, idle pages, switches.                                 *)
(***************************************************************************)

\* start_pending: one worker in a process, none before the retry time.
Launches(r) ==
    /\ ~r.stopped /\ r.pending /\ ~r.deferred
    /\ r.worker = "none" /\ ~activeKey

StartPending(r, n) ==
    /\ rollover' = [rollover EXCEPT ![Current] =
            IF Launches(r)
            THEN [r EXCEPT !.pending = FALSE, !.worker = "planning", !.snapshot = n]
            ELSE r]
    /\ activeKey' = (activeKey \/ Launches(r))

\* A turn appends its records and, once they are saved, starts what is
\* pending.
Turn(record) ==
    /\ Bound /\ ~wanted /\ Len(exchanges) < MaxExchanges
    /\ exchanges' = Append(exchanges, record)
    /\ StartPending(rollover[Current], Len(exchanges) + 1)
    /\ UNCHANGED <<published, bindings, wanted, compactionFaults>>

\* request_historical_page: first the plan, then the generation it expects
\* to replace; a worker may publish in between.
FindRange ==
    /\ Bound /\ ~wanted
    /\ Uncovered(Len(exchanges), Retained(Len(exchanges))) # {}
    /\ wanted' = TRUE
    /\ UNCHANGED <<exchanges, published, bindings, rollover, activeKey, compactionFaults>>

RequestRange ==
    /\ wanted
    /\ wanted' = FALSE
    /\ StartPending([rollover[Current] EXCEPT !.pending = TRUE,
                                             !.expected = published.generation],
                    Len(exchanges))
    /\ UNCHANGED <<exchanges, published, bindings, compactionFaults>>

\* close, by switch_character_state: the worker is left to find out.
Unbind ==
    /\ Bound /\ ~wanted
    /\ rollover' = [rollover EXCEPT ![Current].stopped = TRUE,
                                    ![Current].pending = FALSE]
    /\ bindings' = [bindings EXCEPT !.current = FALSE]
    /\ UNCHANGED <<exchanges, published, activeKey, wanted, compactionFaults>>

Rebind ==
    /\ ~Bound /\ Current < MaxBindings
    /\ bindings' = [made |-> Current + 1, current |-> TRUE]
    /\ UNCHANGED <<exchanges, published, rollover, activeKey, wanted, compactionFaults>>

\* The process dies with its workers and their key.
ProcessDies ==
    /\ compactionFaults > 0
    /\ rollover' = [b \in Owners |->
            IF b <= Current THEN [NewRollover EXCEPT !.stopped = TRUE]
                            ELSE NewRollover]
    /\ bindings' = [bindings EXCEPT !.current = FALSE]
    /\ activeKey' = FALSE /\ wanted' = FALSE
    /\ compactionFaults' = compactionFaults - 1
    /\ UNCHANGED <<exchanges, published>>

(***************************************************************************)
(* The worker of binding b: _run_worker and rebuild.                       *)
(***************************************************************************)

Worker(b, from, to) ==
    /\ rollover[b].worker = from
    /\ rollover' = [rollover EXCEPT ![b].worker = to]

\* The worker makes its own plan, from the rows of now.
PlanEpisode(b) ==
    /\ rollover[b].worker = "planning"
    /\ rollover' = [rollover EXCEPT ![b].worker = "compacting",
                                    ![b].kept = Retained(rollover[b].snapshot)]
    /\ UNCHANGED <<exchanges, published, bindings, activeKey, wanted, compactionFaults>>

\* publish_guard and the expected generation, under the store's write lock.
\* The token of a worker is its rollover's unless the rollover is closed.  The
\* archive only grows here, so that the snapshot stays its beginning.
PublishAllowed(b) ==
    /\ ~rollover[b].stopped
    /\ rollover[b].snapshot <= Len(exchanges)
    /\ published.generation = rollover[b].expected

EnterPublication(b) ==
    /\ \A other \in Owners : rollover[other].worker # "publishing"
    /\ Worker(b, "compacting", IF PublishAllowed(b) THEN "publishing" ELSE "done")
    /\ UNCHANGED <<exchanges, published, bindings, activeKey, wanted, compactionFaults>>

PublishGeneration(b) ==
    LET r == rollover[b]
    IN  /\ Worker(b, "publishing", "done")
        /\ published' = [generation |-> published.generation + 1,
                         episodes |-> r.kept \cup NextEpisode(r.snapshot, r.kept)]
        /\ UNCHANGED <<exchanges, bindings, activeKey, wanted, compactionFaults>>

\* Published or rejected as stale; the key is given up last.
Concluded(r) == [r EXCEPT !.pending = FALSE, !.deferred = FALSE, !.worker = "leaving"]

WorkerSettles(b) ==
    /\ rollover[b].worker = "done"
    /\ rollover' = [rollover EXCEPT ![b] = Concluded(@)]
    /\ UNCHANGED <<exchanges, published, bindings, activeKey, wanted, compactionFaults>>

\* Mutant: a worker that fails leaves its key behind.
WorkerFailsHoldingKey(b) ==
    /\ compactionFaults > 0
    /\ rollover[b].worker \in {"planning", "compacting", "publishing"}
    /\ rollover' = [rollover EXCEPT ![b].worker = "none", ![b].pending = TRUE]
    /\ compactionFaults' = compactionFaults - 1
    /\ UNCHANGED <<exchanges, published, bindings, activeKey, wanted>>

\* An exception rolls an open transaction back and puts the work off.
WorkerFails(b) ==
    /\ compactionFaults > 0
    /\ rollover[b].worker \in {"planning", "compacting", "publishing"}
    /\ rollover' = [rollover EXCEPT
            ![b].worker = "leaving",
            ![b].pending  = @ \/ ~rollover[b].stopped,
            ![b].deferred = @ \/ ~rollover[b].stopped]
    /\ compactionFaults' = compactionFaults - 1
    /\ UNCHANGED <<exchanges, published, bindings, activeKey, wanted>>

WorkerLeaves(b) ==
    /\ Worker(b, "leaving", "none")
    /\ activeKey' = FALSE
    /\ UNCHANGED <<exchanges, published, bindings, wanted, compactionFaults>>

RetryTimePasses(b) ==
    /\ rollover[b].deferred
    /\ rollover' = [rollover EXCEPT ![b].deferred = FALSE]
    /\ UNCHANGED <<exchanges, published, bindings, activeKey, wanted, compactionFaults>>

(***************************************************************************)
(* The specification.                                                      *)
(***************************************************************************)

RolloverInit ==
    /\ exchanges = <<>>
    /\ published = [generation |-> 0, episodes |-> {}]
    /\ bindings = [made |-> 1, current |-> TRUE]
    /\ rollover = [b \in Owners |-> NewRollover]
    /\ activeKey = FALSE /\ wanted = FALSE
    /\ compactionFaults = MaxCompactionFaults

IdlePage == FindRange \/ RequestRange

WorkerStep(b) ==
    \/ PlanEpisode(b) \/ EnterPublication(b) \/ PublishGeneration(b)
    \/ WorkerSettles(b) \/ WorkerLeaves(b) \/ RetryTimePasses(b)

RolloverNext ==
    \/ \E record \in {"complete", "excluded"} : Turn(record)
    \/ IdlePage \/ Unbind \/ Rebind \/ ProcessDies
    \/ \E b \in Owners : WorkerStep(b) \/ WorkerFails(b)

\* The host polls, a compaction call returns or fails, and time passes.
RolloverFairness ==
    /\ WF_rolloverVars(IdlePage)
    /\ \A b \in Owners : WF_rolloverVars(WorkerStep(b))

RolloverSpec == RolloverInit /\ [][RolloverNext]_rolloverVars /\ RolloverFairness

RolloverTypeOK ==
    /\ exchanges \in Seq({"complete", "excluded"}) /\ Len(exchanges) <= MaxExchanges
    /\ published.generation \in Nat
    /\ published.episodes \subseteq SUBSET (1..MaxExchanges)
    /\ bindings \in [made : Owners, current : BOOLEAN]
    /\ \A b \in Owners : rollover[b].worker \in
            {"none", "planning", "compacting", "publishing", "done", "leaving"}
    /\ activeKey \in BOOLEAN /\ wanted \in BOOLEAN
    /\ compactionFaults \in 0..MaxCompactionFaults

\* While the character stays selected, every exchange older than the recent
\* ones is in the end covered by exactly one episode, whatever workers of
\* earlier bindings still run, fail or die.
HistoryCovered ==
    []<>(~Bound \/
            /\ UNION published.episodes = Older(Len(exchanges))
            /\ \A e1, e2 \in published.episodes : e1 = e2 \/ e1 \cap e2 = {})
=============================================================================
