---------------------------- MODULE CheckInSchedule ----------------------------
(***************************************************************************)
(* When the companion may speak first: the eligibility of a proactive      *)
(* check-in over the conversation, the receipts of displayed check-ins,    *)
(* the attempts that failed and the open thread a check-in is about.       *)
(*                                                                         *)
(* Eligibility is decided twice: it is read before the turn lock is        *)
(* claimed, so that a whole turn of the user fits in between, and again in *)
(* the commit boundary of the draft, which the turn lock keeps from being  *)
(* overtaken.  The message is saved first and its receipt afterwards, so a *)
(* crash or a store that refuses the receipt loses it; a turn that fails   *)
(* saves the user's message without marking the check-ins before it as     *)
(* answered.                                                               *)
(***************************************************************************)
EXTENDS Naturals, Sequences, FiniteSets, FiniteSetsExt

CONSTANTS Interval,      \* minimum_interval_us
          AwayUnit,      \* the five minutes that afk_floors are made of
          MinBackOff, MaxBackOff,  \* of failed attempts
          ThreadDelay,   \* _thread_delay_us
          Pauses,        \* how far the clock moves at a time
          Horizon, MaxRecords, MaxAttempts, MaxLapses

ASSUME CheckInAssumption ==
    /\ {Interval, MinBackOff, MaxBackOff, Horizon} \subseteq Nat \ {0}
    /\ {AwayUnit, ThreadDelay, MaxRecords, MaxAttempts, MaxLapses} \subseteq Nat
    /\ Pauses \subseteq Nat \ {0}

VARIABLES now,        \* the conversation's clock
          talk,       \* the saved user messages and check-ins, in order
          receipts,   \* proactive_checkins
          attempts,   \* proactive_attempts
          thread,     \* last mention of the open thread, 0 when there is none
          draft,      \* the check-in the poll is about: how far it is, when the
                      \* turn was claimed and the thread as it was read
          lapses      \* faults still allowed

checkInVars == <<now, talk, receipts, attempts, thread, draft, lapses>>

NoDraft == [step |-> "none", at |-> 0, thread |-> 0]

\* Rows are kept newest first, as they are read.
Pushed(row, rows) == <<row>> \o rows

\* The length of the longest prefix of which every row fits.
Streak(rows, Fits(_)) ==
    Max({n \in 0..Len(rows) : \A i \in 1..n : Fits(rows[i])})

\* _latest_user_time
UserTimes  == {talk[i].at : i \in {j \in DOMAIN talk : talk[j].by = "user"}}
LatestUser == Max(UserTimes)

\* _ignored_streak, _failed_attempt_streak
Ignored ==
    LET Open(row) == row.answered = 0
    IN  Streak(receipts, Open)
FailedAttempts ==
    LET Fresh(row) == row.at > LatestUser /\ row.outcome # "published"
    IN  Streak(attempts, Fresh)

Least(a, b)    == Min({a, b})
Greatest(a, b) == Max({a, b})

\* afk_floors: the least pause after so many ignored check-ins.
AwayFloor(ignored) == AwayUnit * <<0, 1, 3, 6, 12, 24>>[Least(ignored, 5) + 1]

\* The pause after the last check-in doubles with each one ignored.
CoolDown == IF Ignored = 0 THEN Interval
            ELSE Greatest(Interval * 2 ^ Least(Ignored + 1, 5), AwayFloor(Ignored))

\* The pause after the last of so many attempts that failed in a row.
BackOffAfter(failed) ==
    Least(MaxBackOff, Greatest(Interval, MinBackOff) * 2 ^ Least(failed - 1, 4))

\* An answered check-in is not repeated without a fresh mention.
Acknowledged == /\ receipts # <<>> /\ Head(receipts).answered # 0
                /\ Head(receipts).at >= thread

\* evaluate_proactive_eligibility
Eligible ==
    /\ UserTimes # {} /\ now >= LatestUser + Interval
    /\ receipts # <<>> => now >= Head(receipts).at + CoolDown
    /\ FailedAttempts # 0 => now >= Head(attempts).at + BackOffAfter(FailedAttempts)
    /\ thread # 0 /\ ~Acknowledged /\ now >= thread + ThreadDelay

\* record_proactive_attempt
Attempted(outcome) ==
    attempts' = Pushed([at |-> draft.at, outcome |-> outcome], attempts)

\* The user speaks: a draft was interrupted before the turn could begin.
\* The message may mention the thread or resolve it.
Interrupt ==
    /\ draft.step = "drafting"
    /\ Attempted("interrupted")
    /\ draft' = NoDraft
    /\ UNCHANGED <<now, talk, receipts, thread, lapses>>

Mentions(says) ==
    thread' = CASE says = "mention" -> now
                [] says = "resolve" -> 0
                [] OTHER            -> thread

\* Bounds of the instance: so many records, one user message at a time.
Room == Len(talk) < MaxRecords /\ now \notin UserTimes

\* A saved message of the user; kept when its turn came to a good end.
ByUser(says, kept) ==
    [by |-> "user", at |-> now, says |-> says, about |-> 0, kept |-> kept]

\* A whole turn, which the turn lock keeps out of a draft but not out of the
\* poll that is about to claim the lock.
UserTurn(says) ==
    /\ draft.step # "drafting" /\ Room
    /\ talk' = Append(talk, ByUser(says, TRUE))
    /\ Mentions(says)
    /\ receipts' = [i \in DOMAIN receipts |->
            IF receipts[i].answered = 0 /\ receipts[i].at <= now
            THEN [receipts[i] EXCEPT !.answered = now] ELSE receipts[i]]
    /\ UNCHANGED <<now, attempts, draft, lapses>>

\* The turn fails after its message was saved and observed.
UserTurnFails(says) ==
    /\ draft.step # "drafting" /\ Room /\ lapses > 0
    /\ talk' = Append(talk, ByUser(says, FALSE))
    /\ Mentions(says)
    /\ lapses' = lapses - 1
    /\ UNCHANGED <<now, receipts, attempts, draft>>

\* The host's poll reads whether there is a reason to speak,
ReadEligible ==
    /\ draft = NoDraft /\ Eligible
    /\ draft' = [step |-> "read", at |-> 0, thread |-> thread]
    /\ UNCHANGED <<now, talk, receipts, attempts, thread, lapses>>

\* and with what it read claims the turn,
ClaimDraft ==
    /\ draft.step = "read" /\ Len(attempts) < MaxAttempts
    /\ draft' = [draft EXCEPT !.step = "drafting", !.at = now]
    /\ UNCHANGED <<now, talk, receipts, attempts, thread, lapses>>

\* unless the lock is held or an input waits for it.
TurnTaken ==
    /\ draft.step = "read"
    /\ draft' = NoDraft
    /\ UNCHANGED <<now, talk, receipts, attempts, thread, lapses>>

\* The provider or its output fails, or the save does.
DraftFails ==
    /\ draft.step = "drafting" /\ lapses > 0
    /\ Attempted("failed")
    /\ draft' = NoDraft /\ lapses' = lapses - 1
    /\ UNCHANGED <<now, talk, receipts, thread>>

\* The message is about the thread as it was read; kept when its receipt is.
Displayed(kept) ==
    Append(talk, [by |-> "companion", at |-> now, says |-> "check-in",
                  about |-> draft.thread, kept |-> kept])

\* Mutant: the commit boundary looks at the thread alone.
SameReason == draft.thread = thread

\* The commit boundary.
StillEligible == Eligible /\ draft.thread = thread

Publish ==
    /\ draft.step = "drafting" /\ StillEligible /\ Len(talk) < MaxRecords
    /\ talk' = Displayed(TRUE)
    /\ receipts' = Pushed([at |-> now, answered |-> 0], receipts)
    /\ Attempted("published")
    /\ draft' = NoDraft
    /\ UNCHANGED <<now, thread, lapses>>

Withdraw ==
    /\ draft.step = "drafting" /\ ~StillEligible
    /\ Attempted("interrupted")
    /\ draft' = NoDraft
    /\ UNCHANGED <<now, talk, receipts, thread, lapses>>

\* The message is saved; then the receipt is refused, or the process dies
\* before either row.
ReceiptLost ==
    /\ draft.step = "drafting" /\ StillEligible /\ Len(talk) < MaxRecords /\ lapses > 0
    /\ talk' = Displayed(FALSE)
    /\ Attempted("published") \/ UNCHANGED attempts
    /\ draft' = NoDraft /\ lapses' = lapses - 1
    /\ UNCHANGED <<now, receipts, thread>>

Pass(pause) ==
    /\ now + pause <= Horizon
    /\ now' = now + pause
    /\ UNCHANGED <<talk, receipts, attempts, thread, draft, lapses>>

CheckInInit ==
    /\ now = 1 /\ talk = <<>> /\ receipts = <<>> /\ attempts = <<>>
    /\ thread = 0 /\ draft = NoDraft /\ lapses = MaxLapses

CheckInNext ==
    \/ ReadEligible \/ ClaimDraft \/ TurnTaken
    \/ Interrupt \/ DraftFails \/ Publish \/ Withdraw \/ ReceiptLost
    \/ \E says \in {"plain", "mention", "resolve"} : UserTurn(says) \/ UserTurnFails(says)
    \/ \E pause \in Pauses : Pass(pause)

CheckInSpec == CheckInInit /\ [][CheckInNext]_checkInVars

CheckInTypeOK ==
    /\ now \in 1..Horizon /\ thread \in 0..Horizon /\ lapses \in 0..MaxLapses
    /\ \A i \in DOMAIN talk : talk[i].by \in {"user", "companion"} /\ talk[i].at \in 1..Horizon
    /\ \A i \in DOMAIN receipts : receipts[i].at \in 1..Horizon
    /\ \A i \in DOMAIN attempts : attempts[i].outcome \in {"published", "failed", "interrupted"}
    /\ draft.step \in {"none", "read", "drafting"} /\ draft.at \in 0..Horizon

(***************************************************************************)
(* What the user sees of it, read from the conversation alone.             *)
(***************************************************************************)

User(i)    == talk[i].by = "user"
CheckIn(i) == talk[i].by = "companion"

\* The check-ins before the i-th record that nobody answered, with receipts.
UnansweredBefore(i) ==
    {j \in 1..(i - 1) : CheckIn(j) /\ talk[j].kept /\ \A k \in j..i : ~User(k)}

\* The attempts that came to nothing before the i-th record, after whatever was
\* said before it.
FailuresBefore(i) ==
    {a \in DOMAIN attempts : /\ attempts[a].outcome # "published"
                             /\ attempts[a].at < talk[i].at
                             /\ \A j \in 1..(i - 1) : talk[j].at < attempts[a].at}

\* The u-th record mentions the thread and nothing the user said before the
\* i-th one mentions it again or resolves it.
LastWord(u, i) ==
    /\ User(u) /\ talk[u].says = "mention"
    /\ \A w \in (u + 1)..(i - 1) : talk[w].says \notin {"mention", "resolve"}

\* Whatever the user says while the poll is about to draft it, a check-in is about
\* the user's last word on a thread that is due, and follows a silence of the
\* user; it doubles its distance while nobody answers and keeps to the away floor;
\* it keeps a distance that doubles to the last of the attempts that failed since
\* anything was said; and after an answer it takes up the thread again only once
\* the user did.
CheckInsEarned ==
    \A i \in {j \in DOMAIN talk : CheckIn(j)} :
        LET silent == UnansweredBefore(i)
            answered == {j \in 1..(i - 1) : CheckIn(j) /\ talk[j].kept
                            /\ \E k \in j..i : User(k) /\ talk[k].kept}
            failed == FailuresBefore(i)
        IN  /\ \E u \in 1..(i - 1) : /\ LastWord(u, i) /\ talk[u].at = talk[i].about
                                     /\ talk[i].at >= talk[u].at + ThreadDelay
            /\ \A u \in 1..(i - 1) : User(u) => talk[i].at >= talk[u].at + Interval
            /\ silent # {} => talk[i].at >= talk[Max(silent)].at
                     + Greatest(Interval * 2 ^ Least(Cardinality(silent) + 1, 5),
                                AwayFloor(Cardinality(silent)))
            /\ failed # {} => talk[i].at >= attempts[Min(failed)].at
                                           + BackOffAfter(Cardinality(failed))
            /\ answered # {} =>
                  \E u \in Max(answered)..i : User(u) /\ talk[u].says = "mention"
=============================================================================
