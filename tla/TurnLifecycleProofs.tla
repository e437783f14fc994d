------------------------- MODULE TurnLifecycleProofs -------------------------
(***************************************************************************)
(* TLAPS proofs about the turn lifecycle, for any number of inputs,        *)
(* characters and selections.                                              *)
(***************************************************************************)
EXTENDS TurnLifecycle, TLAPS

-----------------------------------------------------------------------------
(* The inductive invariant.                                                *)

\* The types, by the part of the system they belong to.
TurnTypes ==
    /\ at \in [Workers -> Steps]
    /\ owner \in [Workers -> Bindings]
    /\ cancelled \subseteq Workers
    /\ active \in Workers \cup {Nobody}
    /\ \A w \in Workers : at[w] \in Holding <=> holder = w
    /\ \A w \in Workers : at[w] \in Committing <=> boundary = w
    /\ {holder, boundary} \subseteq Workers \cup {Nobody}
    /\ early \subseteq Inputs
    /\ published \subseteq Workers

HistoryTypes ==
    /\ conv \in Characters
    /\ memory \in [Characters -> Seq(Messages)]
    /\ archive \in [Characters -> Seq(Messages)]
    /\ blocked \subseteq Characters

\* Sessions a selection has still to begin: one at its preparation, one when it
\* binds.
Pending == CASE switch = "announced" -> 2
             [] switch \in {"off", "rebound"} -> 0
             [] OTHER -> 1

SelectionTypes ==
    /\ binding \in Bindings
    /\ switch \in SwitchSteps
    /\ switches \in 0..MaxSwitches
    /\ binding.session + Pending <= 2 * switches

\* From the join on no input is anywhere in its turn; the check-in may be.
Joined == {"joined", "checked", "saved", "loaded", "swapped", "rebound"}

SwitchIsAlone ==
    switch \in Joined => \A t \in Inputs : at[t] \in {"idle", "done"}

\* Who is inside the commit boundary stays current.
CommitIsCurrent == \A w \in Workers : at[w] \in Committing => Current(w)

\* An input that was not taken up yet left no question anywhere.
Before == {"idle", "submitted", "claimed", "started"}

Unasked ==
    \A t \in Inputs : at[t] \in Before =>
        \A c \in Characters : Question(t) \notin Range(memory[c]) \cup Range(archive[c])

\* Between its beginning and its reply an input's question is the last message
\* of the history, and all that may not be saved of it.
Asking == {"thinking", "generated", "committing", "answering"}

Asks(t) ==
    /\ conv \notin blocked
    /\ \/ memory[conv] = Append(archive[conv], Question(t))
       \/ /\ memory[conv] = archive[conv] /\ archive[conv] # <<>>
          /\ archive[conv][Len(archive[conv])] = Question(t)

QuestionIsLast == \A t \in Inputs : at[t] \in Asking => Asks(t)

\* With no input in there the history is the saved one, whoever holds the lock.
NothingUnsaved ==
    (\A t \in Inputs : at[t] \notin Asking) /\ conv \notin blocked =>
        memory[conv] = archive[conv]

\* Every answer follows its question in the archive.
Follows(m) ==
    \A i \in DOMAIN m : \A t \in Inputs :
        m[i] = Reply(t) => i > 1 /\ m[i - 1] = Question(t)

AnswersFollow == \A c \in Characters : Follows(archive[c])

\* What was, or is about to be, published is saved.
InArchive(x) == \E c \in Characters : x \in Range(archive[c])

RepliesSaved ==
    \A w \in Workers : at[w] = "answered" \/ w \in published => InArchive(Reply(w))

Turns   == TurnTypes /\ SwitchIsAlone /\ InputsKeepAuthority /\ CommitIsCurrent
History == /\ HistoryTypes /\ Unasked /\ QuestionIsLast /\ NothingUnsaved
           /\ AnswersFollow /\ RepliesSaved

IInv == Turns /\ History /\ SelectionTypes

-----------------------------------------------------------------------------
(* Sequences of messages.                                                  *)

\* A message added is the last one, and every other stays.
LEMMA Appended ==
    ASSUME NEW S, NEW m \in Seq(S), NEW x \in S
    PROVE  /\ Append(m, x) \in Seq(S) /\ Append(m, x) # <<>>
           /\ Len(Append(m, x)) = Len(m) + 1 /\ Append(m, x)[Len(m) + 1] = x
           /\ \A i \in DOMAIN m : i \in DOMAIN Append(m, x) /\ Append(m, x)[i] = m[i]
           /\ \A i \in DOMAIN Append(m, x) : i = Len(m) + 1 \/ i \in DOMAIN m
           /\ Range(Append(m, x)) = Range(m) \cup {x}
<1>1. /\ Append(m, x) \in Seq(S) /\ Append(m, x) # <<>>
      /\ Len(Append(m, x)) = Len(m) + 1 /\ Append(m, x)[Len(m) + 1] = x
      /\ \A i \in DOMAIN m : i \in DOMAIN Append(m, x) /\ Append(m, x)[i] = m[i]
      /\ \A i \in DOMAIN Append(m, x) : i = Len(m) + 1 \/ i \in DOMAIN m
  OBVIOUS
<1>2. Len(m) + 1 \in DOMAIN Append(m, x)
  OBVIOUS
<1>3. QED
  BY <1>1, <1>2 DEF Range

\* Without the last message a sequence is the one it was added to.
LEMMA LastRemoved ==
    ASSUME NEW S, NEW m \in Seq(S), NEW x \in S
    PROVE  RemoveAt(Append(m, x), Len(m) + 1) = m
<1> DEFINE a == Append(m, x)
<1>1. a \in Seq(S) /\ Len(a) = Len(m) + 1 /\ Len(m) \in Nat
  OBVIOUS
<1>2. SubSeq(a, 1, Len(m)) = m
  BY <1>1
<1>3. SubSeq(a, Len(m) + 2, Len(m) + 1) = <<>>
  BY <1>1
<1>4. RemoveAt(a, Len(m) + 1) = SubSeq(a, 1, Len(m)) \o SubSeq(a, Len(m) + 2, Len(m) + 1)
  BY <1>1 DEF RemoveAt
<1>5. QED
  BY <1>2, <1>3, <1>4

\* A question added to a history, or the reply to its last question, keeps every
\* answer behind its question; so does a check-in.
LEMMA FollowsAppended ==
    ASSUME NEW m \in Seq(Messages), Follows(m)
    PROVE  /\ \A t \in Inputs : Follows(Append(m, Question(t)))
           /\ Follows(Append(m, Reply(CheckIn)))
           /\ \A t \in Inputs : m # <<>> /\ m[Len(m)] = Question(t) =>
                                   Follows(Append(m, Reply(t)))
<1>1. ASSUME NEW x \in Messages,
             \A t \in Inputs : x = Reply(t) => m # <<>> /\ m[Len(m)] = Question(t)
      PROVE  Follows(Append(m, x))
  <2> SUFFICES ASSUME NEW i \in DOMAIN Append(m, x), NEW t \in Inputs,
                      Append(m, x)[i] = Reply(t)
               PROVE  i > 1 /\ Append(m, x)[i - 1] = Question(t)
    BY DEF Follows
  <2>1. CASE i = Len(m) + 1
    <3>1. x = Reply(t) /\ m # <<>> /\ m[Len(m)] = Question(t)
      BY <1>1, <2>1, Appended
    <3>2. Len(m) \in Nat \ {0} /\ Len(m) \in DOMAIN m
      BY <3>1
    <3>3. QED
      BY <2>1, <3>1, <3>2
  <2>2. CASE i \in DOMAIN m
    <3>1. m[i] = Reply(t)
      BY <2>2
    <3>2. i > 1 /\ m[i - 1] = Question(t) /\ i - 1 \in DOMAIN m
      BY <2>2, <3>1 DEF Follows
    <3>3. QED
      BY <3>2
  <2>3. QED
    BY <2>1, <2>2, Appended
<1>2. /\ \A t \in Inputs : Question(t) \in Messages /\ Reply(t) \in Messages
      /\ Reply(CheckIn) \in Messages
  BY DEF Question, Reply, Messages, Workers
<1>3. /\ \A t, s \in Inputs : Question(t) # Reply(s) /\ (Reply(t) = Reply(s) => t = s)
      /\ \A s \in Inputs : Reply(CheckIn) # Reply(s)
  BY TurnAssumption DEF Question, Reply, TurnAssumption
<1>4. QED
  BY <1>1, <1>2, <1>3

-----------------------------------------------------------------------------
(* Initial states and stuttering.                                          *)

\* The parts of the invariant are the type invariant and more.
LEMMA TypesAgree ==
    TypeOK <=> /\ TurnTypes /\ HistoryTypes /\ binding \in Bindings
               /\ switch \in SwitchSteps /\ switches \in 0..MaxSwitches
  BY DEF TypeOK, TurnTypes, HistoryTypes

\* Nobody has typed and nothing was saved.
LEMMA InitIInv == Init => IInv
<1> SUFFICES ASSUME Init PROVE IInv
  OBVIOUS
<1>0. MaxSwitches \in Nat /\ First \in Characters /\ Nobody \notin Workers
  BY TurnAssumption DEF TurnAssumption, Workers
<1>1. /\ at = [w \in Workers |-> "idle"] /\ owner = [w \in Workers |-> binding]
      /\ binding = [character |-> First, session |-> 0]
      /\ cancelled = {} /\ early = {} /\ published = {} /\ blocked = {}
      /\ active = Nobody /\ holder = Nobody /\ boundary = Nobody
      /\ conv = First /\ switch = "off" /\ switches = 0
      /\ memory = [c \in Characters |-> <<>>] /\ archive = [c \in Characters |-> <<>>]
  BY DEF Init
<1>2. binding \in Bindings /\ binding.session = 0
  BY <1>0, <1>1 DEF Bindings
<1>3. \A w \in Workers : at[w] = "idle"
  BY <1>1
<1>4. TurnTypes
  <2>1. at \in [Workers -> Steps] /\ owner \in [Workers -> Bindings]
    BY <1>1, <1>2 DEF Steps
  <2>2. \A w \in Workers : (at[w] \in Holding <=> holder = w) /\ (at[w] \in Committing <=> boundary = w)
    BY <1>0, <1>1, <1>3 DEF Holding, Committing
  <2>3. QED
    BY <1>1, <2>1, <2>2 DEF TurnTypes
<1>5. SwitchIsAlone /\ InputsKeepAuthority /\ CommitIsCurrent
  BY <1>3 DEF SwitchIsAlone, InputsKeepAuthority, CommitIsCurrent, Holding, Committing, Workers
<1>6. \A c \in Characters : memory[c] = <<>> /\ archive[c] = <<>>
  BY <1>1
<1>7. HistoryTypes
  BY <1>0, <1>1 DEF HistoryTypes
<1>8. Unasked /\ AnswersFollow
  BY <1>6 DEF Unasked, AnswersFollow, Follows, Range
<1>9. QuestionIsLast /\ NothingUnsaved /\ RepliesSaved
  BY <1>0, <1>1, <1>3, <1>6 DEF QuestionIsLast, NothingUnsaved, RepliesSaved, Asking, Workers
<1>10. SelectionTypes
  <2>1. Pending = 0
    BY <1>1 DEF Pending
  <2>2. switches \in 0..MaxSwitches /\ binding.session + Pending <= 2 * switches
    BY <1>0, <1>1, <1>2, <2>1
  <2>3. QED
    BY <1>1, <1>2, <2>2 DEF SelectionTypes, SwitchSteps
<1>11. QED
  BY <1>4, <1>5, <1>7, <1>8, <1>9, <1>10 DEF IInv, Turns, History

\* The invariant is about these variables only.
LEMMA StutterIInv == IInv /\ UNCHANGED vars => IInv'
<1> SUFFICES ASSUME IInv, UNCHANGED vars PROVE IInv'
  OBVIOUS
<1>1. Turns'
  BY DEF IInv, Turns, vars, turnVars, bindVars, TurnTypes, SwitchIsAlone, InputsKeepAuthority,
         CommitIsCurrent, Current
<1>2. History'
  BY DEF IInv, History, vars, turnVars, convVars, bindVars, HistoryTypes, Unasked, QuestionIsLast,
         Asks, NothingUnsaved, AnswersFollow, Follows, RepliesSaved, InArchive
<1>3. SelectionTypes'
  BY DEF IInv, vars, bindVars, SelectionTypes, Pending
<1>4. QED
  BY <1>1, <1>2, <1>3 DEF IInv

-----------------------------------------------------------------------------
(* Who holds what.                                                         *)

\* A worker moves, takes a lock or gives one back, as its new step says.
LEMMA LocksFollow ==
    ASSUME TurnTypes, NEW w \in Workers, NEW to \in Steps, at' = [at EXCEPT ![w] = to],
           owner' \in [Workers -> Bindings], cancelled' \subseteq Workers,
           active' \in Workers \cup {Nobody}, early' \subseteq Inputs,
           published' \subseteq Workers,
           to \in Holding <=> holder' = w, to \in Committing <=> boundary' = w,
           holder' = holder \/ (holder = Nobody /\ holder' = w) \/ (holder = w /\ holder' = Nobody),
           \/ boundary' = boundary
           \/ boundary = Nobody /\ boundary' = w
           \/ boundary = w /\ boundary' = Nobody
    PROVE  TurnTypes'
<1>1. /\ at' \in [Workers -> Steps] /\ at'[w] = to
      /\ \A v \in Workers \ {w} : at'[v] = at[v]
  BY DEF TurnTypes
<1>2. Nobody \notin Workers
  BY TurnAssumption DEF TurnAssumption, Workers
<1>3. ASSUME NEW v \in Workers
      PROVE  (at'[v] \in Holding <=> holder' = v) /\ (at'[v] \in Committing <=> boundary' = v)
  <2>1. CASE v = w
    BY <1>1, <2>1
  <2>2. CASE v # w
    <3>1. (holder' = v <=> holder = v) /\ (boundary' = v <=> boundary = v)
      BY <1>2, <2>2
    <3>2. QED
      BY <1>1, <2>2, <3>1 DEF TurnTypes
  <2>3. QED
    BY <2>1, <2>2
<1>4. {holder', boundary'} \subseteq Workers \cup {Nobody}
  BY DEF TurnTypes
<1>5. QED
  BY <1>1, <1>3, <1>4 DEF TurnTypes

\* A worker that moves on while nobody claims and nothing is cancelled.
LEMMA TurnMoves ==
    ASSUME Turns, NEW w \in Workers, NEW to \in Steps, at' = [at EXCEPT ![w] = to],
           UNCHANGED <<cancelled, active, switch>>,
           owner' \in [Workers -> Bindings], early' \subseteq Inputs, published' \subseteq Workers,
           to \in Holding <=> holder' = w, to \in Committing <=> boundary' = w,
           holder' = holder \/ (holder = Nobody /\ holder' = w) \/ (holder = w /\ holder' = Nobody),
           \/ boundary' = boundary
           \/ boundary = Nobody /\ boundary' = w
           \/ boundary = w /\ boundary' = Nobody,
           to \in {"claimed"} \cup Holding => w = CheckIn \/ at[w] \in {"claimed"} \cup Holding,
           to \in Committing => at[w] \in Committing \/ Current(w),
           w = CheckIn \/ at[w] \notin {"idle", "done"} \/ switch = "off"
    PROVE  Turns'
<1>1. TurnTypes'
  BY LocksFollow DEF Turns, TurnTypes
<1>2. /\ at'[w] = to /\ CheckIn \notin Inputs
      /\ \A v \in Workers \ {w} : at'[v] = at[v]
  BY TurnAssumption DEF Turns, TurnTypes, TurnAssumption
<1>3. SwitchIsAlone'
  BY <1>2 DEF Turns, SwitchIsAlone, Workers, Joined
<1>4. InputsKeepAuthority'
  BY <1>2 DEF Turns, InputsKeepAuthority, Workers
<1>5. CommitIsCurrent'
  BY <1>2 DEF Turns, CommitIsCurrent, Current
<1>6. QED
  BY <1>1, <1>3, <1>4, <1>5 DEF Turns

\* An except clause closes the boundary and keeps the turn lock.
LEMMA UnwindMoves ==
    ASSUME Turns, NEW w \in Workers, at[w] \in Holding, Unwind(w), switch' = switch
    PROVE  Turns' /\ at' = [at EXCEPT ![w] = "unwinding"] /\ published' = published
<1>1. /\ at' = [at EXCEPT ![w] = "unwinding"]
      /\ UNCHANGED <<owner, cancelled, active, holder, early, published>>
      /\ boundary' = IF boundary = w THEN Nobody ELSE boundary
      /\ Nobody \notin Workers /\ holder = w
  BY TurnAssumption DEF Unwind, Turns, TurnTypes, TurnAssumption, Workers
<1>2. "unwinding" \in Steps /\ "unwinding" \in Holding /\ "unwinding" \notin Committing
  BY DEF Steps, Holding, Committing
<1>3. at[w] \notin {"idle", "done"}
  BY DEF Holding, Committing
<1>4. boundary' # w
  BY <1>1
<1>5. QED
  BY <1>1, <1>2, <1>3, <1>4, TurnMoves DEF Turns, TurnTypes

-----------------------------------------------------------------------------
(* What becomes of the history.                                            *)

\* As long as the conversation can be saved the history is the saved one or
\* that and a question.
LEMMA HistoryIs ==
    ASSUME History, conv \notin blocked
    PROVE  /\ memory[conv] \in Seq(Messages) /\ archive[conv] \in Seq(Messages)
           /\ Follows(memory[conv]) /\ Range(archive[conv]) \subseteq Range(memory[conv])
           /\ \/ memory[conv] = archive[conv]
              \/ \E t \in Inputs : memory[conv] = Append(archive[conv], Question(t))
<1>1. /\ memory[conv] \in Seq(Messages) /\ archive[conv] \in Seq(Messages)
      /\ Follows(archive[conv])
  BY DEF History, HistoryTypes, AnswersFollow
<1>2. \/ memory[conv] = archive[conv]
      \/ \E t \in Inputs : memory[conv] = Append(archive[conv], Question(t))
  BY DEF History, QuestionIsLast, NothingUnsaved, Asks
<1>3. ASSUME NEW t \in Inputs, memory[conv] = Append(archive[conv], Question(t))
      PROVE  Follows(memory[conv]) /\ Range(archive[conv]) \subseteq Range(memory[conv])
  <2>1. Question(t) \in Messages
    BY DEF Question, Messages, Workers
  <2>2. QED
    BY <1>1, <1>3, <2>1, FollowsAppended, Appended
<1>4. QED
  BY <1>1, <1>2, <1>3

\* A worker moves and the history stays.
LEMMA HistoryStays ==
    ASSUME Turns, History, NEW w \in Workers, NEW to \in Steps, at' = [at EXCEPT ![w] = to],
           UNCHANGED <<memory, archive, blocked, conv>>,
           w \in Inputs /\ to \in Before => at[w] \in Before,
           w \in Inputs /\ to \in Asking => at[w] \in Asking,
           w \in Inputs /\ at[w] \in Asking /\ to \notin Asking =>
               conv \in blocked \/ memory[conv] = archive[conv],
           to = "answered" => at[w] = "answered",
           published' \subseteq published \cup {v \in {w} : at[v] = "answered"}
    PROVE  History'
<1>1. at'[w] = to /\ \A v \in Workers \ {w} : at'[v] = at[v]
  BY DEF Turns, TurnTypes
<1>2. HistoryTypes' /\ AnswersFollow'
  BY DEF History, HistoryTypes, AnswersFollow, Follows
<1>3. Unasked'
  BY <1>1 DEF History, Unasked, Workers
<1>4. QuestionIsLast'
  BY <1>1 DEF History, QuestionIsLast, Asks, Workers
<1>5. NothingUnsaved'
  <2> SUFFICES ASSUME \A t \in Inputs : at'[t] \notin Asking, conv \notin blocked
               PROVE  memory[conv] = archive[conv]
    BY DEF NothingUnsaved
  <2>1. CASE w \in Inputs /\ at[w] \in Asking
    BY <1>1, <2>1
  <2>2. CASE ~(w \in Inputs /\ at[w] \in Asking)
    BY <1>1, <2>2 DEF History, NothingUnsaved, Workers
  <2>3. QED
    BY <2>1, <2>2
<1>6. RepliesSaved'
  BY <1>1 DEF History, RepliesSaved, InArchive
<1>7. QED
  BY <1>2, <1>3, <1>4, <1>5, <1>6 DEF History

\* What is discarded of the history of a turn that gives up is its question,
\* where that was not saved: the saved history is left.
LEMMA DiscardRestores ==
    ASSUME Turns, History, NEW t \in Inputs, at[t] \in {"started", "thinking", "generated"},
           memory' = Discard(t)
    PROVE  /\ memory' \in [Characters -> Seq(Messages)]
           /\ \A c \in Characters : memory'[c] = memory[c] \/ c = conv
           /\ conv \in blocked => memory'[conv] = memory[conv]
           /\ conv \notin blocked => memory'[conv] = archive[conv]
<1> DEFINE m       == memory[conv]
           a       == archive[conv]
           unsaved == {i \in DOMAIN m : m[i] = Question(t) /\ i > Len(a)}
<1>1. /\ conv \in Characters /\ m \in Seq(Messages) /\ a \in Seq(Messages)
      /\ memory \in [Characters -> Seq(Messages)]
  BY DEF History, HistoryTypes
<1>2. memory' = [memory EXCEPT ![conv] =
                   IF unsaved = {} THEN m ELSE RemoveAt(m, CHOOSE i \in unsaved : TRUE)]
  BY DEF Discard
<1>3. CASE at[t] = "started"
  <2>1. Question(t) \notin Range(m)
    BY <1>1, <1>3 DEF History, Unasked, Before
  <2>2. unsaved = {}
    BY <2>1 DEF Range
  <2>3. \A s \in Inputs : at[s] \notin Asking
    <3>1. holder = t /\ t \in Workers
      BY <1>3 DEF Turns, TurnTypes, Holding, Workers
    <3>2. ASSUME NEW s \in Inputs, at[s] \in Asking PROVE FALSE
      <4>1. s \in Workers /\ at[s] \in Holding
        BY <3>2 DEF Asking, Holding, Committing, Workers
      <4>2. s = t
        BY <3>1, <4>1 DEF Turns, TurnTypes
      <4>3. QED
        BY <1>3, <3>2, <4>2 DEF Asking
    <3>3. QED
      BY <3>2
  <2>4. conv \in blocked \/ m = a
    BY <2>3 DEF History, NothingUnsaved
  <2>5. memory' = memory
    BY <1>1, <1>2, <2>2
  <2>6. QED
    BY <1>1, <2>4, <2>5
<1>4. CASE at[t] \in {"thinking", "generated"}
  <2>1. Asks(t) /\ Question(t) \in Messages
    BY <1>4 DEF History, QuestionIsLast, Asking, Question, Messages, Workers
  <2>2. CASE m = a
    <3>1. unsaved = {}
      BY <1>1, <2>2
    <3>2. memory' = memory
      BY <1>1, <1>2, <3>1
    <3>3. QED
      BY <1>1, <2>2, <3>2
  <2>3. CASE m = Append(a, Question(t))
    <3>1. unsaved = {Len(a) + 1}
      BY <1>1, <2>1, <2>3, Appended
    <3>2. (CHOOSE i \in unsaved : TRUE) = Len(a) + 1
      BY <3>1
    <3>3. RemoveAt(m, Len(a) + 1) = a
      BY <1>1, <2>1, <2>3, LastRemoved
    <3>4. memory' = [memory EXCEPT ![conv] = a]
      BY <1>2, <3>1, <3>2, <3>3
    <3>5. QED
      BY <1>1, <2>1, <3>4 DEF Asks
  <2>4. QED
    BY <2>1, <2>2, <2>3 DEF Asks
<1>5. QED
  BY <1>3, <1>4

\* A turn that gives up leaves the saved history behind.
LEMMA GiveUpIInv ==
    ASSUME IInv, NEW t \in Inputs, at[t] \in {"started", "thinking", "generated"}, GiveUp(t)
    PROVE  IInv'
<1>1. /\ Unwind(t) /\ memory' = Discard(t) /\ UNCHANGED <<archive, blocked, bindVars>>
      /\ t \in Workers
  BY DEF GiveUp, Workers
<1>2. Turns' /\ at' = [at EXCEPT ![t] = "unwinding"] /\ published' = published
  <2>1. at[t] \in Holding
    BY DEF Holding
  <2>2. switch' = switch
    BY <1>1 DEF bindVars
  <2>3. QED
    BY <1>1, <2>1, <2>2, UnwindMoves DEF IInv
<1>3. /\ memory' \in [Characters -> Seq(Messages)]
      /\ \A c \in Characters : memory'[c] = memory[c] \/ c = conv
      /\ conv \in blocked => memory'[conv] = memory[conv]
      /\ conv \notin blocked => memory'[conv] = archive[conv]
      /\ conv' = conv
  BY <1>1, DiscardRestores DEF IInv, bindVars
<1>4. at'[t] = "unwinding" /\ \A v \in Workers \ {t} : at'[v] = at[v]
  BY <1>2 DEF IInv, Turns, TurnTypes
<1>5. HistoryTypes' /\ AnswersFollow'
  BY <1>1, <1>3 DEF IInv, History, HistoryTypes, AnswersFollow, Follows
<1>6. \A c \in Characters : Range(memory'[c]) \subseteq Range(memory[c]) \cup Range(archive[c])
  BY <1>3 DEF IInv, History, HistoryTypes
<1>7. Unasked'
  BY <1>1, <1>4, <1>6 DEF IInv, History, Unasked, Before, Workers
<1>8. \A s \in Inputs \ {t} : at[s] \notin Asking
  BY DEF IInv, Turns, TurnTypes, Asking, Holding, Committing, Workers
<1>9. QuestionIsLast'
  BY <1>4, <1>8 DEF QuestionIsLast, Asking, Workers
<1>10. NothingUnsaved'
  BY <1>1, <1>3 DEF NothingUnsaved
<1>11. RepliesSaved'
  BY <1>1, <1>2, <1>4 DEF IInv, History, RepliesSaved, InArchive
<1>12. SelectionTypes'
  BY <1>1 DEF IInv, SelectionTypes, Pending, bindVars
<1>13. QED
  BY <1>2, <1>5, <1>7, <1>9, <1>10, <1>11, <1>12 DEF IInv, History

-----------------------------------------------------------------------------
(* Saving.                                                                 *)

\* What a save of messages m leaves, in a conversation that can be saved: the
\* archive is the old one or m, the history is the archive unless the save left
\* the file unreadable, and no other conversation is touched.
LEMMA SaveLeaves ==
    ASSUME HistoryTypes, conv \notin blocked, NEW m \in Seq(Messages),
           NEW how \in SaveOutcomes, Save(m, how)
    PROVE  /\ memory' \in [Characters -> Seq(Messages)]
           /\ archive' \in [Characters -> Seq(Messages)]
           /\ blocked' \subseteq Characters
           /\ archive'[conv] \in {archive[conv], m} /\ memory'[conv] \in {archive[conv], m}
           /\ \A c \in Characters \ {conv} : memory'[c] = memory[c] /\ archive'[c] = archive[c]
           /\ conv \notin blocked' => memory'[conv] = archive'[conv]
           /\ how = "ok" => conv \notin blocked' /\ memory'[conv] = m /\ archive'[conv] = m
<1>1. how \in {"ok", "kept", "lost", "unreadable"}
  BY DEF SaveOutcomes
<1>2. /\ conv \in Characters /\ archive[conv] \in Seq(Messages)
      /\ memory \in [Characters -> Seq(Messages)] /\ archive \in [Characters -> Seq(Messages)]
      /\ blocked \subseteq Characters
  BY DEF HistoryTypes
<1>3. archive' = IF how \in {"ok", "kept"} THEN [archive EXCEPT ![conv] = m] ELSE archive
  BY DEF Save
<1>4. memory' = IF how = "lost" THEN [memory EXCEPT ![conv] = archive[conv]]
                ELSE [memory EXCEPT ![conv] = m]
  BY <1>1 DEF Save
<1>5. blocked' = IF how = "unreadable" THEN blocked \cup {conv} ELSE blocked
  BY DEF Save
<1>6. /\ memory' \in [Characters -> Seq(Messages)] /\ archive' \in [Characters -> Seq(Messages)]
      /\ blocked' \subseteq Characters
  BY <1>2, <1>3, <1>4, <1>5
<1>7. /\ archive'[conv] \in {archive[conv], m} /\ memory'[conv] \in {archive[conv], m}
      /\ \A c \in Characters \ {conv} : memory'[c] = memory[c] /\ archive'[c] = archive[c]
  BY <1>2, <1>3, <1>4
<1>8. conv \notin blocked' => memory'[conv] = archive'[conv]
  BY <1>1, <1>2, <1>3, <1>4, <1>5
<1>9. how = "ok" => conv \notin blocked' /\ memory'[conv] = m /\ archive'[conv] = m
  BY <1>2, <1>3, <1>4, <1>5
<1>10. QED
  BY <1>6, <1>7, <1>8, <1>9

\* A conversation that cannot be saved is not touched.
LEMMA SaveRefused ==
    ASSUME conv \in blocked, NEW m, NEW how \in SaveOutcomes, Save(m, how)
    PROVE  how = "refused" /\ UNCHANGED <<memory, archive, blocked>>
<1>1. how = "refused"
  BY DEF SaveOutcomes
<1>2. QED
  BY <1>1 DEF Save

\* A worker saves the history, with its reply or without, and moves on.
LEMMA SaveKeeps ==
    ASSUME Turns, History, NEW w \in Workers, NEW to \in Steps, at' = [at EXCEPT ![w] = to],
           UNCHANGED <<conv, published>>,
           NEW m, NEW how \in SaveOutcomes, Save(m, how),
           conv \notin blocked =>
               /\ m \in Seq(Messages) /\ Follows(m)
               /\ Range(archive[conv]) \subseteq Range(m)
               /\ Range(m) \subseteq Range(memory[conv]) \cup {Reply(w)},
           \A t \in Inputs \ {w} : at[t] \notin Asking,
           w \in Inputs => to \notin Before,
           w \in Inputs /\ to \in Asking =>
               how = "ok" /\ (conv \notin blocked => m # <<>> /\ m[Len(m)] = Question(w)),
           to = "answered" =>
               \/ at[w] = "answered"
               \/ how = "ok" /\ (conv \notin blocked => Reply(w) \in Range(m))
    PROVE  History'
<1>1. at'[w] = to /\ \A v \in Workers \ {w} : at'[v] = at[v]
  BY DEF Turns, TurnTypes
<1>2. CASE conv \in blocked
  <2>1. how = "refused" /\ UNCHANGED <<memory, archive, blocked>>
    BY <1>2, SaveRefused
  <2>2. how # "ok"
    BY <2>1
  <2>3. HistoryTypes' /\ AnswersFollow'
    BY <2>1 DEF History, HistoryTypes, AnswersFollow, Follows
  <2>4. Unasked' /\ RepliesSaved'
    BY <1>1, <2>1, <2>2 DEF History, Unasked, RepliesSaved, InArchive, Workers
  <2>5. QuestionIsLast'
    BY <1>1, <2>1, <2>2 DEF QuestionIsLast, Workers
  <2>6. NothingUnsaved'
    BY <1>2, <2>1 DEF NothingUnsaved
  <2>7. QED
    BY <2>3, <2>4, <2>5, <2>6 DEF History
<1>3. CASE conv \notin blocked
  <2>1. /\ m \in Seq(Messages) /\ Follows(m) /\ Range(archive[conv]) \subseteq Range(m)
        /\ Range(m) \subseteq Range(memory[conv]) \cup {Reply(w)}
    BY <1>3
  <2>2. /\ memory' \in [Characters -> Seq(Messages)]
        /\ archive' \in [Characters -> Seq(Messages)]
        /\ blocked' \subseteq Characters
        /\ archive'[conv] \in {archive[conv], m} /\ memory'[conv] \in {archive[conv], m}
        /\ \A c \in Characters \ {conv} : memory'[c] = memory[c] /\ archive'[c] = archive[c]
        /\ conv \notin blocked' => memory'[conv] = archive'[conv]
        /\ how = "ok" => conv \notin blocked' /\ memory'[conv] = m /\ archive'[conv] = m
    BY <1>3, <2>1, SaveLeaves DEF History
  <2>3. HistoryTypes' /\ AnswersFollow'
    <3>1. HistoryTypes'
      BY <2>2 DEF History, HistoryTypes
    <3>2. \A c \in Characters : archive'[c] = archive[c] \/ archive'[c] = m
      BY <2>2
    <3>3. \A c \in Characters : Follows(archive[c])
      BY DEF History, AnswersFollow
    <3>4. \A c \in Characters : Follows(archive'[c])
      BY <2>1, <3>2, <3>3
    <3>5. QED
      BY <3>1, <3>4 DEF AnswersFollow
  <2>4. \A c \in Characters : Range(archive[c]) \subseteq Range(archive'[c])
    BY <2>1, <2>2
  <2>5. \A c \in Characters : Range(memory'[c]) \cup Range(archive'[c]) \subseteq
                                Range(memory[c]) \cup Range(archive[c]) \cup {Reply(w)}
    BY <2>1, <2>2
  <2>6. Unasked'
    <3>1. \A t \in Inputs : Question(t) # Reply(w)
      BY DEF Question, Reply
    <3>2. \A t \in Inputs : at'[t] \in Before => at[t] \in Before
      BY <1>1 DEF Workers
    <3>3. QED
      BY <2>5, <3>1, <3>2 DEF History, Unasked
  <2>7. QuestionIsLast'
    <3> SUFFICES ASSUME NEW t \in Inputs, at'[t] \in Asking PROVE Asks(t)'
      BY DEF QuestionIsLast
    <3>1. t = w
      BY <1>1 DEF Workers
    <3>2. QED
      BY <1>1, <1>3, <2>2, <3>1 DEF Asks, Question
  <2>8. NothingUnsaved'
    BY <2>2 DEF NothingUnsaved
  <2>9. \A x : InArchive(x) => InArchive(x)'
    BY <2>4 DEF InArchive
  <2>10. to = "answered" => at[w] = "answered" \/ InArchive(Reply(w))'
    BY <1>3, <2>2 DEF InArchive, History, HistoryTypes
  <2>11. RepliesSaved'
    <3> SUFFICES ASSUME NEW v \in Workers, at'[v] = "answered" \/ v \in published
                 PROVE  InArchive(Reply(v))'
      BY DEF RepliesSaved, InArchive, Reply
    <3>1. at[v] = "answered" \/ v \in published => InArchive(Reply(v))
      BY DEF History, RepliesSaved
    <3>2. QED
      BY <1>1, <2>9, <2>10, <3>1
  <2>12. QED
    BY <2>3, <2>6, <2>7, <2>8, <2>11 DEF History
<1>4. QED
  BY <1>2, <1>3

-----------------------------------------------------------------------------
(* process_text_turn.                                                      *)

\* Which steps are which, and what stands for nobody.
LEMMA StepKinds ==
    /\ Inputs \subseteq Workers /\ CheckIn \in Workers /\ CheckIn \notin Inputs
    /\ Nobody \notin Workers
    /\ {"idle", "submitted", "claimed", "done"} \cup Holding = Steps
    /\ Committing \subseteq Holding /\ Asking \subseteq Holding
    /\ {"idle", "submitted", "claimed", "done"} \cap Holding = {}
    /\ {"started", "thinking", "generated", "published", "unwinding"} \cap Committing = {}
    /\ {"started", "thinking", "generated", "published", "unwinding"} \subseteq Holding
  BY TurnAssumption DEF TurnAssumption, Workers, Steps, Holding, Committing, Asking

\* A selection does not move while a turn does.
LEMMA SelectionStays == SelectionTypes /\ UNCHANGED bindVars => SelectionTypes'
  BY DEF SelectionTypes, Pending, bindVars

\* Who asks holds the turn lock, so nobody else asks.
LEMMA OneAsks ==
    ASSUME Turns, NEW w \in Workers, holder = w \/ holder = Nobody
    PROVE  \A t \in Inputs \ {w} : at[t] \notin Asking
<1> SUFFICES ASSUME NEW t \in Inputs \ {w}, at[t] \in Asking PROVE FALSE
  OBVIOUS
<1>1. t \in Workers /\ at[t] \in Holding /\ Nobody \notin Workers
  BY StepKinds
<1>2. holder = t
  BY <1>1 DEF Turns, TurnTypes
<1>3. QED
  BY <1>1, <1>2

\* An input is handed over, or the check-in is polled.
LEMMA SubmitIInv ==
    ASSUME IInv, (\E t \in Inputs : Submit(t)) \/ Poll
    PROVE  IInv'
<1>1. PICK w \in Workers :
         /\ at[w] = "idle" /\ at' = [at EXCEPT ![w] = "submitted"] /\ switch = "off"
         /\ owner' \in [Workers -> Bindings]
         /\ UNCHANGED <<cancelled, active, holder, boundary, early, published,
                        convVars, bindVars>>
  <2>1. owner \in [Workers -> Bindings] /\ binding \in Bindings
    BY DEF IInv, Turns, TurnTypes, SelectionTypes
  <2>2. ASSUME NEW t \in Inputs, Submit(t)
        PROVE  /\ at[t] = "idle" /\ at' = [at EXCEPT ![t] = "submitted"] /\ switch = "off"
               /\ owner' \in [Workers -> Bindings]
               /\ UNCHANGED <<cancelled, active, holder, boundary, early, published,
                              convVars, bindVars>>
    BY <2>1, <2>2, StepKinds DEF Submit, Goto
  <2>3. ASSUME Poll
        PROVE  /\ at[CheckIn] = "idle" /\ at' = [at EXCEPT ![CheckIn] = "submitted"]
               /\ switch = "off" /\ owner' \in [Workers -> Bindings]
               /\ UNCHANGED <<cancelled, active, holder, boundary, early, published,
                              convVars, bindVars>>
    BY <2>1, <2>3 DEF Poll, Goto
  <2>4. QED
    BY <2>2, <2>3, StepKinds
<1>2. /\ "submitted" \in Steps \ Holding /\ "submitted" \notin Committing
      /\ "submitted" \in Before \ Asking /\ at[w] \notin Holding /\ at[w] \notin Committing
      /\ at[w] \notin Asking /\ at[w] \in Before
  BY <1>1, StepKinds DEF Before, Asking
<1>3. holder # w /\ boundary # w
  BY <1>2 DEF IInv, Turns, TurnTypes
<1>4. Turns'
  BY <1>1, <1>2, <1>3, TurnMoves DEF IInv, Turns, TurnTypes, bindVars
<1>5. History'
  BY <1>1, <1>2, HistoryStays DEF IInv, convVars, bindVars
<1>6. QED
  BY <1>1, <1>4, <1>5, SelectionStays DEF IInv

\* The claim or the turn is given up by a selection that retired its binding.
LEMMA ReturnIInv ==
    ASSUME IInv, NEW w \in Workers, at[w] \in {"submitted", "claimed"}, Return(w),
           UNCHANGED <<owner, convVars, bindVars>>
    PROVE  IInv'
<1>1. /\ at' = [at EXCEPT ![w] = "done"]
      /\ UNCHANGED <<cancelled, active, holder, boundary, early, published>>
  BY DEF Return
<1>2. /\ "done" \in Steps \ Holding /\ "done" \notin Committing
      /\ "done" \notin Before \cup Asking /\ at[w] \notin Holding /\ at[w] \notin Committing
      /\ at[w] \notin Asking /\ at[w] \notin {"idle", "done"}
  BY StepKinds DEF Before, Asking
<1>3. holder # w /\ boundary # w
  BY <1>2 DEF IInv, Turns, TurnTypes
<1>4. Turns'
  BY <1>1, <1>2, <1>3, TurnMoves DEF IInv, Turns, TurnTypes, bindVars
<1>5. History'
  BY <1>1, <1>2, HistoryStays DEF IInv, convVars, bindVars
<1>6. QED
  BY <1>4, <1>5, SelectionStays DEF IInv

\* The newest input takes the authority; whoever had it is cancelled, and nobody
\* is inside the boundary.
LEMMA ClaimIInv ==
    ASSUME IInv, NEW t \in Inputs, Claim(t)
    PROVE  IInv'
<1>1. CASE owner[t] # binding
  BY <1>1, StepKinds, ReturnIInv DEF Claim
<1>2. CASE owner[t] = binding
  <2>1. /\ at[t] = "submitted" /\ boundary = Nobody /\ at' = [at EXCEPT ![t] = "claimed"]
        /\ cancelled' = cancelled \cup ({active} \ {Nobody}) /\ active' = t
        /\ UNCHANGED <<owner, holder, boundary, early, published, convVars, bindVars>>
    BY <1>2 DEF Claim, Goto, StateLockFree, Cancelled
  <2>2. /\ "claimed" \in Steps \ Holding /\ "claimed" \notin Committing
        /\ "claimed" \in Before \ Asking /\ at[t] \notin Holding /\ at[t] \notin Committing
        /\ at[t] \notin Asking /\ at[t] \in Before /\ at[t] \notin {"idle", "done"}
        /\ t \in Workers
    BY <2>1, StepKinds DEF Before, Asking
  <2>3. /\ holder # t /\ boundary # t /\ switch \notin Joined
        /\ cancelled' \subseteq Workers /\ active' \in Workers
    BY <2>1, <2>2 DEF IInv, Turns, TurnTypes, SwitchIsAlone
  <2>4. /\ at'[t] = "claimed" /\ \A v \in Workers \ {t} : at'[v] = at[v]
    BY <2>1, <2>2 DEF IInv, Turns, TurnTypes
  <2>5. TurnTypes'
    BY <2>1, <2>2, <2>3, LocksFollow DEF IInv, Turns, TurnTypes
  <2>6. SwitchIsAlone'
    BY <2>1, <2>3 DEF SwitchIsAlone, bindVars
  <2>7. InputsKeepAuthority'
    <3> SUFFICES ASSUME NEW s \in Inputs, at'[s] \in {"claimed"} \cup Holding,
                        s \notin cancelled'
                 PROVE  active' = s
      BY DEF InputsKeepAuthority
    <3>1. CASE s = t
      BY <2>1, <3>1
    <3>2. CASE s # t
      <4>1. s \in Workers /\ at[s] \in {"claimed"} \cup Holding /\ s \notin cancelled
        BY <2>1, <2>4, <3>2, StepKinds
      <4>2. active = s
        BY <4>1 DEF IInv, Turns, InputsKeepAuthority
      <4>3. QED
        BY <2>1, <4>1, <4>2, StepKinds
    <3>3. QED
      BY <3>1, <3>2
  <2>8. CommitIsCurrent'
    BY <2>1, <2>2, <2>4, <2>5, StepKinds DEF CommitIsCurrent, TurnTypes
  <2>9. History'
    BY <2>1, <2>2, HistoryStays DEF IInv, convVars, bindVars
  <2>10. QED
    BY <2>1, <2>5, <2>6, <2>7, <2>8, <2>9, SelectionStays DEF IInv, Turns
<1>3. QED
  BY <1>1, <1>2

\* The turn lock, when it is free.
LEMMA TakeTurnIInv ==
    ASSUME IInv, NEW t \in Inputs, TakeTurn(t)
    PROVE  IInv'
<1>1. CASE owner[t] # binding
  BY <1>1, StepKinds, ReturnIInv DEF TakeTurn
<1>2. CASE owner[t] = binding
  <2>1. /\ at[t] = "claimed" /\ holder = Nobody /\ at' = [at EXCEPT ![t] = "started"]
        /\ holder' = t
        /\ UNCHANGED <<owner, cancelled, active, boundary, early, published, convVars, bindVars>>
    BY <1>2 DEF TakeTurn, Goto
  <2>2. /\ "started" \in Steps /\ "started" \in Holding /\ "started" \notin Committing
        /\ "started" \in Before \ Asking /\ at[t] \notin Committing
        /\ at[t] \notin Asking /\ at[t] \in Before /\ at[t] \notin {"idle", "done"}
        /\ t \in Workers
    BY <2>1, StepKinds DEF Before, Asking
  <2>3. boundary # t
    BY <2>2 DEF IInv, Turns, TurnTypes
  <2>4. Turns'
    BY <2>1, <2>2, <2>3, TurnMoves DEF IInv, Turns, TurnTypes, bindVars
  <2>5. History'
    BY <2>1, <2>2, HistoryStays DEF IInv, convVars, bindVars
  <2>6. QED
    BY <2>1, <2>4, <2>5, SelectionStays DEF IInv
<1>3. QED
  BY <1>1, <1>2

\* The input joins the history: it is the last message, and the only one unsaved.
LEMMA BeginIInv ==
    ASSUME IInv, NEW t \in Inputs, Begin(t)
    PROVE  IInv'
<1>1. CASE GiveUp(t)
  BY <1>1, GiveUpIInv DEF Begin
<1>2. CASE ~GiveUp(t)
  <2>1. /\ at[t] = "started" /\ conv \notin blocked /\ at' = [at EXCEPT ![t] = "thinking"]
        /\ memory' = [memory EXCEPT ![conv] = Append(@, Question(t))]
        /\ UNCHANGED <<owner, cancelled, active, holder, boundary, early,
                       published, archive, blocked, bindVars>>
        /\ t \in Workers
    BY <1>2 DEF Begin, Goto, Workers
  <2>2. /\ "thinking" \in Steps /\ "thinking" \in Holding /\ "thinking" \notin Committing
        /\ at[t] \in Holding /\ at[t] \notin Committing /\ at[t] \notin Asking
        /\ at[t] \notin {"idle", "done"} /\ "thinking" \notin Before
    BY <2>1, StepKinds DEF Before, Asking
  <2>3. holder = t /\ boundary # t /\ \A s \in Inputs : at[s] \notin Asking
    BY <2>1, <2>2, OneAsks DEF IInv, Turns, TurnTypes
  <2>4. Turns'
    BY <2>1, <2>2, <2>3, TurnMoves DEF IInv, Turns, TurnTypes, bindVars
  <2>5. /\ conv \in Characters /\ archive[conv] \in Seq(Messages)
        /\ memory \in [Characters -> Seq(Messages)] /\ memory[conv] = archive[conv]
        /\ Question(t) \in Messages /\ conv' = conv
    BY <2>1, <2>3
       DEF IInv, History, HistoryTypes, NothingUnsaved, Question, Messages, Workers, bindVars
  <2>6. /\ memory' \in [Characters -> Seq(Messages)]
        /\ memory'[conv] = Append(archive[conv], Question(t))
        /\ \A c \in Characters \ {conv} : memory'[c] = memory[c]
        /\ Range(memory'[conv]) = Range(archive[conv]) \cup {Question(t)}
    BY <2>1, <2>5, Appended
  <2>7. at'[t] = "thinking" /\ \A v \in Workers \ {t} : at'[v] = at[v]
    BY <2>1 DEF IInv, Turns, TurnTypes
  <2>8. HistoryTypes' /\ AnswersFollow'
    BY <2>1, <2>5, <2>6 DEF IInv, History, HistoryTypes, AnswersFollow, Follows
  <2>9. Unasked'
    <3> SUFFICES ASSUME NEW s \in Inputs, at'[s] \in Before, NEW c \in Characters
                 PROVE  Question(s) \notin Range(memory'[c]) \cup Range(archive'[c])
      BY DEF Unasked, Question
    <3>1. s # t /\ at[s] \in Before
      BY <2>2, <2>7, StepKinds
    <3>2. Question(s) # Question(t)
      BY <3>1 DEF Question
    <3>3. Question(s) \notin Range(memory[c]) \cup Range(archive[c])
      BY <3>1 DEF IInv, History, Unasked
    <3>4. QED
      BY <2>1, <2>5, <2>6, <3>2, <3>3
  <2>10. QuestionIsLast'
    <3> SUFFICES ASSUME NEW s \in Inputs, at'[s] \in Asking PROVE Asks(s)'
      BY DEF QuestionIsLast
    <3>1. s = t
      BY <2>3, <2>7, StepKinds
    <3>2. QED
      BY <2>1, <2>5, <2>6, <3>1 DEF Asks, Question
  <2>11. NothingUnsaved'
    BY <2>7 DEF NothingUnsaved, Asking
  <2>12. RepliesSaved'
    BY <2>1, <2>7 DEF IInv, History, RepliesSaved, InArchive
  <2>13. QED
    BY <2>1, <2>4, <2>8, <2>9, <2>10, <2>11, <2>12, SelectionStays DEF IInv, History
<1>3. QED
  BY <1>1, <1>2

\* What an input that asks can save: its history as it is, or with the reply.
LEMMA AskedIs ==
    ASSUME IInv, NEW t \in Inputs, at[t] \in Asking
    PROVE  /\ conv \notin blocked /\ t \in Workers /\ holder = t
           /\ memory[conv] \in Seq(Messages) /\ memory[conv] # <<>>
           /\ memory[conv][Len(memory[conv])] = Question(t)
           /\ Follows(memory[conv]) /\ Follows(Append(memory[conv], Reply(t)))
           /\ Append(memory[conv], Reply(t)) \in Seq(Messages)
           /\ Range(Append(memory[conv], Reply(t))) = Range(memory[conv]) \cup {Reply(t)}
           /\ Range(archive[conv]) \subseteq Range(memory[conv])
           /\ \A s \in Inputs \ {t} : at[s] \notin Asking
<1>1. Asks(t) /\ conv \notin blocked
  BY DEF IInv, History, QuestionIsLast, Asks
<1>2. /\ memory[conv] \in Seq(Messages) /\ archive[conv] \in Seq(Messages)
      /\ Follows(memory[conv]) /\ Range(archive[conv]) \subseteq Range(memory[conv])
  BY <1>1, HistoryIs DEF IInv
<1>3. Question(t) \in Messages /\ Reply(t) \in Messages /\ t \in Workers
  BY DEF Question, Reply, Messages, Workers
<1>4. memory[conv] # <<>> /\ memory[conv][Len(memory[conv])] = Question(t)
  BY <1>1, <1>2, <1>3, Appended DEF Asks
<1>5. Follows(Append(memory[conv], Reply(t)))
  BY <1>2, <1>4, FollowsAppended
<1>6. holder = t
  BY <1>3, StepKinds DEF IInv, Turns, TurnTypes
<1>7. QED
  BY <1>1, <1>2, <1>3, <1>4, <1>5, <1>6, OneAsks, Appended DEF IInv

\* Evidence saved early is the question, and what comes after it is as before.
LEMMA KeepEvidenceIInv ==
    ASSUME IInv, NEW t \in Inputs, KeepEvidence(t)
    PROVE  IInv'
<1>1. /\ at[t] = "thinking" /\ at[t] \in Asking /\ at[t] \in Holding /\ at[t] \notin Committing
      /\ "thinking" \in Steps /\ "unwinding" \in Steps
      /\ "unwinding" \notin Before \cup Asking /\ "thinking" \notin Before
      /\ UNCHANGED bindVars
  BY StepKinds DEF KeepEvidence, Asking, Before
<1>2. PICK how \in SaveOutcomes :
         /\ Save(memory[conv], how)
         /\ \/ /\ how = "ok" /\ early' = early \cup {t}
               /\ UNCHANGED <<at, owner, cancelled, active, holder, boundary, published>>
            \/ Unwind(t)
  BY DEF KeepEvidence
<1>3. CASE Unwind(t)
  <2>1. Turns' /\ at' = [at EXCEPT ![t] = "unwinding"] /\ published' = published
    BY <1>1, <1>3, StepKinds, UnwindMoves DEF IInv, bindVars
  <2>2. History'
    BY <1>1, <1>2, <2>1, AskedIs, SaveKeeps DEF IInv, bindVars
  <2>3. QED
    BY <1>1, <2>1, <2>2, SelectionStays DEF IInv
<1>4. CASE ~Unwind(t)
  <2>1. /\ how = "ok" /\ early' = early \cup {t}
        /\ UNCHANGED <<at, owner, cancelled, active, holder, boundary, published>>
    BY <1>2, <1>4
  <2>2. Turns'
    BY <1>1, <2>1 DEF IInv, Turns, TurnTypes, SwitchIsAlone, InputsKeepAuthority,
                      CommitIsCurrent, Current, bindVars
  <2>3. at' = [at EXCEPT ![t] = "thinking"]
    BY <1>1, <2>1 DEF IInv, Turns, TurnTypes
  <2>4. History'
    BY <1>1, <1>2, <2>1, <2>3, AskedIs, SaveKeeps DEF IInv, bindVars
  <2>5. QED
    BY <1>1, <2>2, <2>4, SelectionStays DEF IInv
<1>5. QED
  BY <1>3, <1>4

\* The provider answers, or the turn is over.
LEMMA GenerateIInv ==
    ASSUME IInv, NEW t \in Inputs, Generate(t)
    PROVE  IInv'
<1>1. CASE GiveUp(t)
  BY <1>1, GiveUpIInv DEF Generate
<1>2. CASE ~GiveUp(t)
  <2>1. /\ at[t] = "thinking" /\ at' = [at EXCEPT ![t] = "generated"]
        /\ UNCHANGED <<owner, cancelled, active, holder, boundary, early,
                       published, convVars, bindVars>>
        /\ t \in Workers
    BY <1>2 DEF Generate, Goto, Workers
  <2>2. /\ "generated" \in Steps /\ "generated" \in Holding /\ "generated" \notin Committing
        /\ at[t] \in Holding /\ at[t] \notin Committing /\ at[t] \in Asking
        /\ at[t] \notin {"idle", "done"} /\ "generated" \in Asking /\ "generated" \notin Before
    BY <2>1, StepKinds DEF Before, Asking
  <2>3. holder = t /\ boundary # t
    BY <2>1, <2>2 DEF IInv, Turns, TurnTypes
  <2>4. Turns'
    BY <2>1, <2>2, <2>3, TurnMoves DEF IInv, Turns, TurnTypes, bindVars
  <2>5. History'
    BY <2>1, <2>2, HistoryStays DEF IInv, convVars, bindVars
  <2>6. QED
    BY <2>1, <2>4, <2>5, SelectionStays DEF IInv
<1>3. QED
  BY <1>1, <1>2

\* The boundary is entered by a turn that is current, and by nobody else.
LEMMA EnterBoundaryIInv ==
    ASSUME IInv, NEW t \in Inputs, EnterBoundary(t)
    PROVE  IInv'
<1>1. CASE GiveUp(t)
  BY <1>1, GiveUpIInv DEF EnterBoundary
<1>2. CASE ~GiveUp(t)
  <2>1. /\ at[t] = "generated" /\ at' = [at EXCEPT ![t] = "committing"] /\ Current(t)
        /\ boundary = Nobody /\ boundary' = t
        /\ UNCHANGED <<owner, cancelled, active, holder, early, published, convVars, bindVars>>
        /\ t \in Workers
    BY <1>2 DEF EnterBoundary, Goto, StateLockFree, Workers
  <2>2. /\ "committing" \in Steps /\ "committing" \in Holding /\ "committing" \in Committing
        /\ at[t] \in Holding /\ at[t] \in Asking
        /\ at[t] \notin {"idle", "done"} /\ "committing" \in Asking /\ "committing" \notin Before
    BY <2>1, StepKinds DEF Before, Asking, Committing
  <2>3. holder = t
    BY <2>1, <2>2 DEF IInv, Turns, TurnTypes
  <2>4. Turns'
    BY <2>1, <2>2, <2>3, TurnMoves DEF IInv, Turns, TurnTypes, bindVars
  <2>5. History'
    BY <2>1, <2>2, HistoryStays DEF IInv, convVars, bindVars
  <2>6. QED
    BY <2>1, <2>4, <2>5, SelectionStays DEF IInv
<1>3. QED
  BY <1>1, <1>2

\* Inside the boundary the input is saved, and the turn goes on only if it is.
LEMMA SaveInputIInv ==
    ASSUME IInv, NEW t \in Inputs, SaveInput(t)
    PROVE  IInv'
<1>1. /\ at[t] = "committing" /\ t \in Workers
      /\ at[t] \in Asking /\ at[t] \in Holding /\ at[t] \in Committing
      /\ at[t] \notin {"idle", "done"}
      /\ "answering" \in Steps /\ "answering" \in Holding /\ "answering" \in Committing
      /\ "answering" \in Asking /\ "answering" \notin Before
      /\ "unwinding" \in Steps /\ "unwinding" \notin Before \cup Asking
      /\ UNCHANGED bindVars
  BY StepKinds DEF SaveInput, Asking, Before, Committing
<1>2. holder = t /\ boundary = t
  BY <1>1 DEF IInv, Turns, TurnTypes
<1>3. ASSUME Goto(t, "committing", "answering"),
             UNCHANGED <<owner, cancelled, active, holder, boundary, early, published>>
      PROVE  Turns' /\ at' = [at EXCEPT ![t] = "answering"]
  BY <1>1, <1>2, <1>3, TurnMoves DEF IInv, Turns, TurnTypes, bindVars, Goto
<1>4. CASE /\ Goto(t, "committing", "answering")
           /\ UNCHANGED <<owner, cancelled, active, holder, boundary, early, published, convVars>>
  <2>1. Turns' /\ at' = [at EXCEPT ![t] = "answering"]
    BY <1>3, <1>4
  <2>2. History'
    BY <1>1, <1>4, <2>1, HistoryStays DEF IInv, convVars, bindVars
  <2>3. QED
    BY <1>1, <2>1, <2>2, SelectionStays DEF IInv
<1>5. CASE \E how \in SaveOutcomes :
              /\ Save(memory[conv], how)
              /\ IF how = "ok"
                 THEN /\ Goto(t, "committing", "answering")
                      /\ UNCHANGED <<owner, cancelled, active, holder, boundary,
                                     early, published>>
                 ELSE Unwind(t)
  <2>1. PICK how \in SaveOutcomes :
           /\ Save(memory[conv], how)
           /\ IF how = "ok"
              THEN /\ Goto(t, "committing", "answering")
                   /\ UNCHANGED <<owner, cancelled, active, holder, boundary,
                                  early, published>>
              ELSE Unwind(t)
    BY <1>5
  <2>2. CASE how = "ok"
    <3>1. Turns' /\ at' = [at EXCEPT ![t] = "answering"] /\ published' = published
      BY <1>3, <2>1, <2>2
    <3>2. History'
      BY <1>1, <2>1, <2>2, <3>1, AskedIs, SaveKeeps DEF IInv, bindVars
    <3>3. QED
      BY <1>1, <3>1, <3>2, SelectionStays DEF IInv
  <2>3. CASE how # "ok"
    <3>1. Turns' /\ at' = [at EXCEPT ![t] = "unwinding"] /\ published' = published
      BY <1>1, <2>1, <2>3, UnwindMoves DEF IInv, bindVars
    <3>2. History'
      BY <1>1, <2>1, <3>1, AskedIs, SaveKeeps DEF IInv, bindVars
    <3>3. QED
      BY <1>1, <3>1, <3>2, SelectionStays DEF IInv
  <2>4. QED
    BY <2>2, <2>3
<1>6. QED
  BY <1>4, <1>5 DEF SaveInput

\* The reply goes behind its question, in the history and in the archive.
LEMMA SaveReplyIInv ==
    ASSUME IInv, NEW t \in Inputs, SaveReply(t)
    PROVE  IInv'
<1>1. /\ at[t] = "answering" /\ t \in Workers
      /\ at[t] \in Asking /\ at[t] \in Holding /\ at[t] \in Committing
      /\ at[t] \notin {"idle", "done"}
      /\ "answered" \in Steps /\ "answered" \in Holding /\ "answered" \in Committing
      /\ "answered" \notin Asking \cup Before
      /\ "unwinding" \in Steps /\ "unwinding" \notin Before \cup Asking
      /\ UNCHANGED bindVars
  BY StepKinds DEF SaveReply, Asking, Before, Committing
<1>2. holder = t /\ boundary = t
  BY <1>1 DEF IInv, Turns, TurnTypes
<1> DEFINE m == Append(memory[conv], Reply(t))
<1>3. /\ conv \notin blocked /\ m \in Seq(Messages) /\ Follows(m)
      /\ Range(m) = Range(memory[conv]) \cup {Reply(t)}
      /\ Range(archive[conv]) \subseteq Range(m)
      /\ \A s \in Inputs \ {t} : at[s] \notin Asking
  BY <1>1, AskedIs
<1>4. PICK how \in SaveOutcomes :
         /\ Save(m, how)
         /\ IF how = "ok"
            THEN /\ Goto(t, "answering", "answered")
                 /\ UNCHANGED <<owner, cancelled, active, holder, boundary,
                                early, published>>
            ELSE Unwind(t)
  BY <1>3 DEF SaveReply
<1> HIDE DEF m
<1>5. CASE how = "ok"
  <2>1. Turns' /\ at' = [at EXCEPT ![t] = "answered"] /\ published' = published
    BY <1>1, <1>2, <1>4, <1>5, TurnMoves DEF IInv, Turns, TurnTypes, bindVars, Goto
  <2>2. History'
    BY <1>1, <1>3, <1>4, <1>5, <2>1, SaveKeeps DEF IInv, bindVars
  <2>3. QED
    BY <1>1, <2>1, <2>2, SelectionStays DEF IInv
<1>6. CASE how # "ok"
  <2>1. Turns' /\ at' = [at EXCEPT ![t] = "unwinding"] /\ published' = published
    BY <1>1, <1>4, <1>6, UnwindMoves DEF IInv, bindVars
  <2>2. History'
    BY <1>1, <1>3, <1>4, <2>1, SaveKeeps DEF IInv, bindVars
  <2>3. QED
    BY <1>1, <2>1, <2>2, SelectionStays DEF IInv
<1>7. QED
  BY <1>5, <1>6

\* The reply is published and the boundary released.
LEMMA PublishIInv ==
    ASSUME IInv, NEW w \in Workers, Publish(w)
    PROVE  IInv'
<1>1. /\ at[w] = "answered" /\ at' = [at EXCEPT ![w] = "published"]
      /\ published' = published \cup {w} /\ boundary' = Nobody
      /\ UNCHANGED <<owner, cancelled, active, holder, early, convVars, bindVars>>
  BY DEF Publish, Goto
<1>2. /\ "published" \in Steps /\ "published" \in Holding /\ "published" \notin Committing
      /\ "published" \notin Before \cup Asking
      /\ at[w] \in Holding /\ at[w] \in Committing /\ at[w] \notin Asking
      /\ at[w] \notin {"idle", "done"} /\ Nobody \notin Workers
  BY <1>1, StepKinds DEF Before, Asking, Committing
<1>3. holder = w /\ boundary = w
  BY <1>2 DEF IInv, Turns, TurnTypes
<1>4. Turns'
  BY <1>1, <1>2, <1>3, TurnMoves DEF IInv, Turns, TurnTypes, bindVars
<1>5. History'
  BY <1>1, <1>2, HistoryStays DEF IInv, convVars, bindVars
<1>6. QED
  BY <1>1, <1>4, <1>5, SelectionStays DEF IInv

\* Whatever comes after the publication, the history stays.
LEMMA AfterPublicationIInv ==
    ASSUME IInv, NEW w \in Workers, AfterPublication(w)
    PROVE  IInv'
<1>1. /\ at[w] = "published" /\ Unwind(w) /\ UNCHANGED <<convVars, bindVars>>
      /\ at[w] \in Holding /\ at[w] \notin Asking
      /\ "unwinding" \in Steps /\ "unwinding" \notin Before \cup Asking
  BY StepKinds DEF AfterPublication, Before, Asking
<1>2. Turns' /\ at' = [at EXCEPT ![w] = "unwinding"] /\ published' = published
  BY <1>1, UnwindMoves DEF IInv, bindVars
<1>3. History'
  BY <1>1, <1>2, HistoryStays DEF IInv, convVars, bindVars
<1>4. QED
  BY <1>1, <1>2, <1>3, SelectionStays DEF IInv

\* While nobody is inside the boundary whoever is current may change.
LEMMA NobodyCommits ==
    ASSUME TurnTypes, boundary = Nobody PROVE \A w \in Workers : at[w] \notin Committing
  BY StepKinds DEF TurnTypes

\* A turn that ends gives up its own claim only, and the turn lock.
LEMMA FinishIInv ==
    ASSUME IInv, NEW w \in Workers, Finish(w)
    PROVE  IInv'
<1>1. /\ at[w] = "unwinding" /\ at' = [at EXCEPT ![w] = "done"] /\ boundary = Nobody
      /\ active' = IF active = w THEN Nobody ELSE active
      /\ holder' = Nobody
      /\ UNCHANGED <<owner, cancelled, boundary, early, published, convVars, bindVars>>
  BY DEF Finish, Goto, StateLockFree
<1>2. /\ "done" \in Steps \ Holding /\ "done" \notin Committing
      /\ "done" \notin Before \cup Asking
      /\ at[w] \in Holding /\ at[w] \notin Asking
      /\ at[w] \notin {"idle", "done"} /\ Nobody \notin Workers
  BY <1>1, StepKinds DEF Before, Asking, Committing
<1>3. holder = w /\ active' \in Workers \cup {Nobody}
  BY <1>1, <1>2 DEF IInv, Turns, TurnTypes
<1>4. at'[w] = "done" /\ \A v \in Workers \ {w} : at'[v] = at[v]
  BY <1>1 DEF IInv, Turns, TurnTypes
<1>5. TurnTypes'
  BY <1>1, <1>2, <1>3, LocksFollow DEF IInv, Turns, TurnTypes
<1>6. SwitchIsAlone'
  BY <1>1, <1>4, StepKinds DEF IInv, Turns, SwitchIsAlone, bindVars
<1>7. InputsKeepAuthority'
  <2> SUFFICES ASSUME NEW s \in Inputs, at'[s] \in {"claimed"} \cup Holding, s \notin cancelled'
               PROVE  active' = s
    BY DEF InputsKeepAuthority
  <2>1. s # w /\ s \in Workers
    BY <1>2, <1>4, StepKinds
  <2>2. active = s
    BY <1>1, <1>4, <2>1 DEF IInv, Turns, InputsKeepAuthority
  <2>3. QED
    BY <1>1, <2>1, <2>2
<1>8. CommitIsCurrent'
  BY <1>1, <1>5, NobodyCommits, StepKinds DEF CommitIsCurrent, TurnTypes
<1>9. History'
  BY <1>1, <1>2, HistoryStays DEF IInv, convVars, bindVars
<1>10. QED
  BY <1>1, <1>5, <1>6, <1>7, <1>8, <1>9, SelectionStays DEF IInv, Turns

\* What changes the authority of no worker that moves: the current event is set,
\* or nobody is current any more and no input is in its turn.
LEMMA CurrentChanges ==
    ASSUME Turns, boundary = Nobody,
           UNCHANGED <<at, owner, holder, boundary, early, published>>,
           \/ cancelled' = Cancelled /\ active' = active
           \/ cancelled' = cancelled /\ active' = Nobody /\ switch \in Joined,
           switch' \in Joined => switch \in Joined
    PROVE  Turns'
<1>1. cancelled \subseteq cancelled' /\ cancelled' \subseteq Workers
  BY DEF Turns, TurnTypes, Cancelled
<1>2. TurnTypes'
  BY <1>1 DEF Turns, TurnTypes
<1>3. SwitchIsAlone'
  BY DEF Turns, SwitchIsAlone
<1>4. InputsKeepAuthority'
  <2>1. CASE active' = active
    BY <1>1, <2>1 DEF Turns, InputsKeepAuthority
  <2>2. CASE switch \in Joined
    BY <2>2, StepKinds DEF Turns, SwitchIsAlone, InputsKeepAuthority
  <2>3. QED
    BY <2>1, <2>2
<1>5. CommitIsCurrent'
  BY <1>2, NobodyCommits DEF Turns, CommitIsCurrent
<1>6. QED
  BY <1>2, <1>3, <1>4, <1>5 DEF Turns

\* A history whose workers stay where they are.
LEMMA HistoryUntouched ==
    ASSUME History, UNCHANGED <<at, published, memory, archive, blocked, conv>>
    PROVE  History'
  BY DEF History, HistoryTypes, Unasked, QuestionIsLast, Asks, NothingUnsaved, AnswersFollow,
         Follows, RepliesSaved, InArchive

\* Push-to-talk sets the current event.
LEMMA CancelIInv == IInv /\ Cancel => IInv'
<1> SUFFICES ASSUME IInv, Cancel PROVE IInv'
  OBVIOUS
<1>1. Turns'
  BY CurrentChanges DEF IInv, Cancel, StateLockFree, bindVars
<1>2. History'
  BY HistoryUntouched DEF IInv, Cancel, convVars, bindVars
<1>3. QED
  BY <1>1, <1>2, SelectionStays DEF IInv, Cancel

-----------------------------------------------------------------------------
(* process_proactive_checkin.                                              *)

\* The check-in claims only where nobody is current: no input keeps a claim
\* that is not cancelled.
LEMMA ClaimCheckInIInv == IInv /\ ClaimCheckIn => IInv'
<1> SUFFICES ASSUME IInv, ClaimCheckIn PROVE IInv'
  OBVIOUS
<1>1. CASE Return(CheckIn) /\ UNCHANGED owner
  BY <1>1, StepKinds, ReturnIInv DEF ClaimCheckIn
<1>2. CASE ~(Return(CheckIn) /\ UNCHANGED owner)
  <2> DEFINE w == CheckIn
  <2>1. /\ at[w] = "submitted" /\ at' = [at EXCEPT ![w] = "started"]
        /\ holder = Nobody /\ active = Nobody /\ active' = w /\ holder' = w
        /\ owner' = [owner EXCEPT ![w] = binding]
        /\ UNCHANGED <<cancelled, boundary, early, published, convVars, bindVars>>
    BY <1>2 DEF ClaimCheckIn, Goto
  <2>2. /\ w \in Workers /\ w \notin Inputs /\ "started" \in Steps /\ "started" \in Holding
        /\ "started" \notin Committing /\ at[w] \notin Holding /\ at[w] \notin Committing
        /\ Nobody \notin Workers /\ Inputs \subseteq Workers
    BY <2>1, StepKinds
  <2>3. at'[w] = "started" /\ \A v \in Workers \ {w} : at'[v] = at[v]
    BY <2>1, <2>2 DEF IInv, Turns, TurnTypes
  <2>4. /\ boundary # w /\ owner' \in [Workers -> Bindings]
        /\ \A v \in Workers : at[v] \notin Committing
    BY <2>1, <2>2, StepKinds DEF IInv, Turns, TurnTypes, SelectionTypes
  <2>5. TurnTypes'
    BY <2>1, <2>2, <2>4, LocksFollow DEF IInv, Turns, TurnTypes
  <2>6. SwitchIsAlone'
    BY <2>1, <2>2, <2>3 DEF IInv, Turns, SwitchIsAlone, bindVars
  <2>7. InputsKeepAuthority'
    BY <2>1, <2>2, <2>3 DEF IInv, Turns, InputsKeepAuthority
  <2>8. CommitIsCurrent'
    BY <2>2, <2>3, <2>4 DEF CommitIsCurrent
  <2>9. History'
    BY <2>1, <2>2, HistoryStays DEF IInv, convVars, bindVars
  <2>10. QED
    BY <2>1, <2>5, <2>6, <2>7, <2>8, <2>9, SelectionStays DEF IInv, Turns
<1>3. QED
  BY <1>1, <1>2

\* The check-in fails without having added anything.
LEMMA CheckInFails ==
    ASSUME IInv, at[CheckIn] \in Holding, Unwind(CheckIn), UNCHANGED <<convVars, bindVars>>
    PROVE  IInv'
<1>1. Turns' /\ at' = [at EXCEPT ![CheckIn] = "unwinding"] /\ published' = published
  BY StepKinds, UnwindMoves DEF IInv, bindVars
<1>2. "unwinding" \in Steps /\ CheckIn \in Workers /\ CheckIn \notin Inputs
  BY StepKinds
<1>3. History'
  BY <1>1, <1>2, HistoryStays DEF IInv, convVars, bindVars
<1>4. QED
  BY <1>1, <1>3, SelectionStays DEF IInv

\* The draft is private, and the boundary is entered by a check-in that is current.
LEMMA CheckInDraftsIInv ==
    ASSUME IInv, GenerateCheckIn \/ EnterCheckIn
    PROVE  IInv'
<1> DEFINE w == CheckIn
<1>0. /\ w \in Workers /\ w \notin Inputs /\ at[w] \in {"started", "generated"}
      /\ at[w] \in Holding /\ at[w] \notin Committing
      /\ {"generated", "committing"} \subseteq Steps \cap Holding
      /\ "generated" \notin Committing /\ "committing" \in Committing
      /\ boundary = Nobody /\ holder = w
  BY StepKinds
     DEF GenerateCheckIn, EnterCheckIn, StateLockFree, Committing, IInv, Turns, TurnTypes, Goto
<1>1. CASE Unwind(w)
  BY <1>0, <1>1, CheckInFails DEF GenerateCheckIn, EnterCheckIn
<1>2. CASE GenerateCheckIn /\ ~Unwind(w)
  <2>1. /\ at' = [at EXCEPT ![w] = "generated"]
        /\ UNCHANGED <<owner, cancelled, active, holder, boundary, early, published,
                       convVars, bindVars>>
    BY <1>2 DEF GenerateCheckIn, Goto
  <2>2. Turns'
    BY <1>0, <2>1, StepKinds, TurnMoves DEF IInv, Turns, TurnTypes, bindVars
  <2>3. History'
    BY <1>0, <2>1, HistoryStays DEF IInv, convVars, bindVars
  <2>4. QED
    BY <2>1, <2>2, <2>3, SelectionStays DEF IInv
<1>3. CASE EnterCheckIn /\ ~Unwind(w)
  <2>1. /\ at' = [at EXCEPT ![w] = "committing"] /\ Current(w) /\ boundary' = w
        /\ UNCHANGED <<owner, cancelled, active, holder, early, published,
                       convVars, bindVars>>
    BY <1>3 DEF EnterCheckIn, Goto
  <2>2. Turns'
    BY <1>0, <2>1, TurnMoves DEF IInv, Turns, TurnTypes, bindVars
  <2>3. History'
    BY <1>0, <2>1, HistoryStays DEF IInv, convVars, bindVars
  <2>4. QED
    BY <2>1, <2>2, <2>3, SelectionStays DEF IInv
<1>4. QED
  BY <1>1, <1>2, <1>3

\* The check-in is added to the conversation there is now, and saved.
LEMMA PostIInv == IInv /\ Post => IInv'
<1> SUFFICES ASSUME IInv, Post PROVE IInv'
  OBVIOUS
<1> DEFINE w == CheckIn
           m == IF conv \in blocked THEN memory[conv] ELSE Append(memory[conv], Reply(w))
<1>1. /\ at[w] = "committing" /\ w \in Workers /\ w \notin Inputs
      /\ at[w] \in Holding /\ at[w] \in Committing
      /\ "answered" \in Steps /\ "answered" \in Holding /\ "answered" \in Committing
      /\ "unwinding" \in Steps /\ UNCHANGED bindVars
  BY StepKinds DEF Post, Committing
<1>2. holder = w /\ boundary = w
  BY <1>1 DEF IInv, Turns, TurnTypes
<1>3. PICK how \in SaveOutcomes :
         /\ Save(m, how)
         /\ IF how = "ok"
            THEN /\ Goto(w, "committing", "answered")
                 /\ UNCHANGED <<owner, cancelled, active, holder, boundary, early, published>>
            ELSE Unwind(w)
  BY DEF Post
<1>4. conv \notin blocked =>
         /\ m \in Seq(Messages) /\ Follows(m)
         /\ Range(m) = Range(memory[conv]) \cup {Reply(w)}
         /\ Range(archive[conv]) \subseteq Range(m)
  <2> SUFFICES ASSUME conv \notin blocked
               PROVE  /\ m \in Seq(Messages) /\ Follows(m)
                      /\ Range(m) = Range(memory[conv]) \cup {Reply(w)}
                      /\ Range(archive[conv]) \subseteq Range(m)
    OBVIOUS
  <2>1. /\ memory[conv] \in Seq(Messages) /\ Follows(memory[conv])
        /\ Range(archive[conv]) \subseteq Range(memory[conv])
    BY HistoryIs DEF IInv
  <2>2. Reply(w) \in Messages
    BY <1>1 DEF Reply, Messages
  <2>3. m = Append(memory[conv], Reply(w))
    OBVIOUS
  <2> HIDE DEF m
  <2>4. Follows(m)
    BY <2>1, <2>3, FollowsAppended
  <2>5. QED
    BY <2>1, <2>2, <2>3, <2>4, Appended
<1> HIDE DEF m
<1>5. \A t \in Inputs \ {w} : at[t] \notin Asking
  BY <1>1, <1>2, OneAsks DEF IInv
<1>6. CASE how = "ok"
  <2>1. Turns' /\ at' = [at EXCEPT ![w] = "answered"] /\ published' = published
    BY <1>1, <1>2, <1>3, <1>6, TurnMoves DEF IInv, Turns, TurnTypes, bindVars, Goto
  <2>2. History'
    BY <1>1, <1>3, <1>4, <1>5, <1>6, <2>1, SaveKeeps DEF IInv, bindVars
  <2>3. QED
    BY <1>1, <2>1, <2>2, SelectionStays DEF IInv
<1>7. CASE how # "ok"
  <2>1. Turns' /\ at' = [at EXCEPT ![w] = "unwinding"] /\ published' = published
    BY <1>1, <1>3, <1>7, UnwindMoves DEF IInv, bindVars
  <2>2. History'
    BY <1>1, <1>3, <1>4, <1>5, <2>1, SaveKeeps DEF IInv, bindVars
  <2>3. QED
    BY <1>1, <2>1, <2>2, SelectionStays DEF IInv
<1>8. QED
  BY <1>6, <1>7

-----------------------------------------------------------------------------
(* A character selection.                                                  *)

\* The steps in which one session is still to begin.
Between == {"prepared", "quiet", "joined", "checked", "saved", "loaded", "swapped"}

\* A selection that goes on, or is given up, without a new session.
LEMMA SelectionMoves ==
    ASSUME SelectionTypes, NEW to \in SwitchSteps, SwitchTo(to), UNCHANGED binding,
           \/ switch \in Between /\ to # "announced"
           \/ switch = "rebound" /\ to = "off"
    PROVE  SelectionTypes'
<1>1. switch' = to /\ switches' = switches /\ binding' = binding
  BY DEF SwitchTo
<1>2. switches \in Nat /\ binding.session \in Nat
  BY TurnAssumption DEF TurnAssumption, SelectionTypes, Bindings
<1>3. Pending \in 0..2 /\ Pending' \in 0..2 /\ Pending' <= Pending
  BY <1>1 DEF Pending, Between
<1>4. binding.session + Pending' <= 2 * switches
  BY <1>2, <1>3 DEF SelectionTypes
<1>5. QED
  BY <1>1, <1>4 DEF SelectionTypes

\* The turns do not move while the selection does.
LEMMA TurnsRest ==
    ASSUME Turns, UNCHANGED turnVars,
           switch' \in Joined => \A t \in Inputs : at[t] \in {"idle", "done"}
    PROVE  Turns'
  BY DEF Turns, TurnTypes, SwitchIsAlone, InputsKeepAuthority, CommitIsCurrent, Current, turnVars

\* The session numbers of a selection that begins or binds stay in range.
LEMMA SessionBegins ==
    ASSUME SelectionTypes,
           \/ /\ switch = "off" /\ switches < MaxSwitches /\ switch' = "announced"
              /\ switches' = switches + 1 /\ binding' = binding
           \/ /\ switch = "announced" /\ switch' = "prepared" /\ switches' = switches
              /\ binding' = [binding EXCEPT !.session = @ + 1]
           \/ /\ switch = "swapped" /\ switch' = "rebound" /\ switches' = switches
              /\ conv \in Characters
              /\ binding' = [character |-> conv, session |-> binding.session + 1]
    PROVE  SelectionTypes'
<1>1. /\ switches \in 0..MaxSwitches /\ MaxSwitches \in Nat /\ binding.session \in Nat
      /\ binding.session + Pending <= 2 * switches
      /\ binding \in Bindings
  BY TurnAssumption DEF TurnAssumption, SelectionTypes, Bindings
<1>2. CASE switch = "off"
  <2>1. Pending = 0 /\ Pending' = 2 /\ switch' = "announced"
    BY <1>2 DEF Pending
  <2>2. switches' \in 0..MaxSwitches /\ switches' = switches + 1 /\ binding' = binding
    BY <1>1, <1>2
  <2>3. binding'.session + Pending' <= 2 * switches'
    BY <1>1, <2>1, <2>2
  <2>4. QED
    BY <1>1, <2>1, <2>2, <2>3 DEF SelectionTypes, SwitchSteps
<1>3. CASE switch = "announced"
  <2>1. Pending = 2 /\ Pending' = 1 /\ switch' = "prepared"
    BY <1>3 DEF Pending
  <2>2. binding.session + 1 \in 0..(2 * MaxSwitches)
    BY <1>1, <2>1
  <2>3. /\ binding' \in Bindings /\ binding'.session = binding.session + 1
        /\ switches' = switches
    BY <1>1, <1>3, <2>2 DEF Bindings
  <2>4. binding'.session + Pending' <= 2 * switches'
    BY <1>1, <2>1, <2>3
  <2>5. QED
    BY <1>1, <2>1, <2>3, <2>4 DEF SelectionTypes, SwitchSteps
<1>4. CASE switch = "swapped"
  <2>1. Pending = 1 /\ Pending' = 0 /\ switch' = "rebound"
    BY <1>4 DEF Pending
  <2>2. binding.session + 1 \in 0..(2 * MaxSwitches)
    BY <1>1, <2>1
  <2>3. /\ binding' \in Bindings /\ binding'.session = binding.session + 1
        /\ switches' = switches
    BY <1>1, <1>4, <2>2 DEF Bindings
  <2>4. binding'.session + Pending' <= 2 * switches'
    BY <1>1, <2>1, <2>3
  <2>5. QED
    BY <1>1, <2>1, <2>3, <2>4 DEF SelectionTypes, SwitchSteps
<1>5. QED
  BY <1>2, <1>3, <1>4

\* The steps of a selection that neither save nor load a conversation.
LEMMA SelectIInv ==
    ASSUME IInv,
           \/ SelectCharacter \/ PrepareSwitch \/ WaitIdle \/ JoinTurns \/ CheckIdle
           \/ LoadIncoming \/ Rebind \/ ResetTurn
    PROVE  IInv'
<1>1. History'
  BY HistoryUntouched
     DEF IInv, SelectCharacter, PrepareSwitch, WaitIdle, JoinTurns, CheckIdle, LoadIncoming,
         Rebind, ResetTurn, turnVars, convVars
<1>2. Turns'
  <2>1. CASE PrepareSwitch \/ ResetTurn
    BY <2>1, CurrentChanges
       DEF IInv, PrepareSwitch, ResetTurn, StateLockFree, SwitchTo, Joined, SwitchSteps
  <2>2. CASE \/ SelectCharacter \/ WaitIdle \/ JoinTurns \/ CheckIdle \/ LoadIncoming \/ Rebind
    <3>1. UNCHANGED turnVars
      BY <2>2 DEF SelectCharacter, WaitIdle, JoinTurns, CheckIdle, LoadIncoming, Rebind
    <3>2. switch' \in Joined => switch \in Joined \/ \A t \in Inputs : at[t] \in {"idle", "done"}
      BY <2>2 DEF SelectCharacter, WaitIdle, JoinTurns, CheckIdle, LoadIncoming, Rebind,
                  SwitchTo, Joined
    <3>3. QED
      BY <3>1, <3>2, TurnsRest DEF IInv, Turns, SwitchIsAlone
  <2>3. QED
    BY <2>1, <2>2
<1>3. SelectionTypes'
  <2>1. CASE SelectCharacter \/ PrepareSwitch \/ Rebind
    BY <2>1, SessionBegins
       DEF IInv, History, HistoryTypes, SelectCharacter, PrepareSwitch, Rebind, SwitchTo
  <2>2. CASE WaitIdle
    BY <2>2, SelectionMoves DEF IInv, WaitIdle, SwitchSteps, Between
  <2>3. CASE JoinTurns
    BY <2>3, SelectionMoves DEF IInv, JoinTurns, SwitchSteps, Between
  <2>4. CASE CheckIdle
    BY <2>4, SelectionMoves DEF IInv, CheckIdle, SwitchSteps, Between
  <2>5. CASE LoadIncoming
    BY <2>5, SelectionMoves DEF IInv, LoadIncoming, SwitchSteps, Between
  <2>6. CASE ResetTurn
    BY <2>6, SelectionMoves DEF IInv, ResetTurn, SwitchSteps, Between
  <2>7. QED
    BY <2>1, <2>2, <2>3, <2>4, <2>5, <2>6
<1>4. QED
  BY <1>1, <1>2, <1>3 DEF IInv

\* The outgoing conversation is saved as it is.
LEMMA SaveOutgoingIInv == IInv /\ SaveOutgoing => IInv'
<1> SUFFICES ASSUME IInv, SaveOutgoing PROVE IInv'
  OBVIOUS
<1>1. PICK how \in SaveOutcomes :
         /\ Save(memory[conv], how)
         /\ SwitchTo(IF how = "ok" THEN "saved" ELSE "off")
  BY DEF SaveOutgoing
<1>2. switch = "checked" /\ UNCHANGED <<binding, conv, turnVars>>
  BY DEF SaveOutgoing
<1>3. \A t \in Inputs : at[t] \in {"idle", "done"}
  BY <1>2 DEF IInv, Turns, SwitchIsAlone, Joined
<1>4. Turns'
  BY <1>2, <1>3, TurnsRest DEF IInv
<1>5. SelectionTypes'
  BY <1>1, <1>2, SelectionMoves DEF IInv, SwitchSteps, Between
<1>6. History'
  <2>1. /\ CheckIn \in Workers /\ CheckIn \notin Inputs /\ at[CheckIn] \in Steps
        /\ at' = [at EXCEPT ![CheckIn] = at[CheckIn]]
        /\ UNCHANGED <<conv, published>>
    BY <1>2, StepKinds DEF IInv, Turns, TurnTypes, turnVars
  <2>2. \A t \in Inputs : at[t] \notin Asking
    BY <1>3 DEF Asking
  <2>3. conv \notin blocked =>
           /\ memory[conv] \in Seq(Messages) /\ Follows(memory[conv])
           /\ Range(archive[conv]) \subseteq Range(memory[conv])
    BY HistoryIs DEF IInv
  <2>4. PICK to \in Steps : to = at[CheckIn] /\ at' = [at EXCEPT ![CheckIn] = to]
    BY <2>1
  <2>5. PICK m : m = memory[conv]
    OBVIOUS
  <2>6. Save(m, how)
    BY <1>1, <2>5
  <2>7. conv \notin blocked =>
           /\ m \in Seq(Messages) /\ Follows(m)
           /\ Range(archive[conv]) \subseteq Range(m)
           /\ Range(m) \subseteq Range(memory[conv]) \cup {Reply(CheckIn)}
    BY <2>3, <2>5
  <2>8. UNCHANGED <<conv, published>>
    BY <2>1
  <2>9. \A t \in Inputs \ {CheckIn} : at[t] \notin Asking
    BY <2>2
  <2>10. to = "answered" => at[CheckIn] = "answered"
    BY <2>4
  <2>11. Turns /\ History /\ at' = [at EXCEPT ![CheckIn] = to]
    BY <2>4 DEF IInv
  <2>12. CheckIn \in Workers /\ CheckIn \notin Inputs
    BY <2>1
  <2>13. QED
    BY <2>6, <2>7, <2>8, <2>9, <2>10, <2>11, <2>12, SaveKeeps
<1>7. QED
  BY <1>4, <1>5, <1>6 DEF IInv

\* The incoming conversation is the one saved for its character.
LEMMA SwapConversationIInv == IInv /\ SwapConversation => IInv'
<1> SUFFICES ASSUME IInv, SwapConversation PROVE IInv'
  OBVIOUS
<1>1. PICK c \in Characters \ {binding.character} :
         /\ conv' = c /\ memory' = [memory EXCEPT ![c] = archive[c]]
         /\ blocked' = blocked \ {c}
  BY DEF SwapConversation
<1>2. switch = "loaded" /\ SwitchTo("swapped") /\ UNCHANGED <<binding, archive, turnVars>>
  BY DEF SwapConversation
<1>3. \A t \in Inputs : at[t] \in {"idle", "done"}
  BY <1>2 DEF IInv, Turns, SwitchIsAlone, Joined
<1>4. Turns'
  BY <1>2, <1>3, TurnsRest DEF IInv
<1>5. SelectionTypes'
  BY <1>2, SelectionMoves DEF IInv, SwitchSteps, Between
<1>6. /\ memory' \in [Characters -> Seq(Messages)]
      /\ \A d \in Characters : memory'[d] = memory[d] \/ memory'[d] = archive[d]
      /\ memory'[c] = archive[c]
  BY <1>1 DEF IInv, History, HistoryTypes
<1>7. HistoryTypes' /\ AnswersFollow'
  BY <1>1, <1>2, <1>6 DEF IInv, History, HistoryTypes, AnswersFollow, Follows
<1>8. Unasked'
  BY <1>2, <1>6 DEF IInv, History, Unasked, turnVars
<1>9. QuestionIsLast' /\ NothingUnsaved'
  BY <1>1, <1>2, <1>3, <1>6 DEF QuestionIsLast, NothingUnsaved, Asking, turnVars
<1>10. RepliesSaved'
  BY <1>2 DEF IInv, History, RepliesSaved, InArchive, turnVars
<1>11. QED
  BY <1>4, <1>5, <1>7, <1>8, <1>9, <1>10 DEF IInv, History

-----------------------------------------------------------------------------
(* The theorems.                                                           *)

\* Every step keeps the inductive invariant.
LEMMA NextIInv == IInv /\ [Next]_vars => IInv'
<1> SUFFICES ASSUME IInv, [Next]_vars PROVE IInv'
  OBVIOUS
<1>1. ASSUME NEW t \in Inputs, Submit(t) \/ Process(t) PROVE IInv'
  <2>1. t \in Workers
    BY StepKinds
  <2>2. QED
    BY <1>1, <2>1, SubmitIInv, ClaimIInv, TakeTurnIInv, BeginIInv, KeepEvidenceIInv, GenerateIInv,
       EnterBoundaryIInv, SaveInputIInv, SaveReplyIInv, PublishIInv, AfterPublicationIInv,
       FinishIInv DEF Process
<1>2. CASE Poll \/ CheckInWork
  BY <1>2, StepKinds, SubmitIInv, ClaimCheckInIInv, CheckInDraftsIInv, PostIInv, PublishIInv,
     AfterPublicationIInv, FinishIInv DEF CheckInWork
<1>3. CASE SelectCharacter \/ Switch
  BY <1>3, SelectIInv, SaveOutgoingIInv, SwapConversationIInv DEF Switch
<1>4. QED
  BY <1>1, <1>2, <1>3, CancelIInv, StutterIInv DEF Next

\* Every state of the turns, the history and the selection has the invariant.
THEOREM TurnsInductive == Spec => []IInv
<1>1. IInv /\ [Next]_vars => IInv'
  BY NextIInv
<1>2. QED
  BY <1>1, InitIInv, PTL DEF Spec

\* The variables keep their types, and each lock is held by the one worker that
\* is between taking and releasing it (_turn_lock, _turn_commit_boundary).
THEOREM LocksAreHeld == Spec => []TypeOK
<1>1. IInv => TypeOK
  BY TypesAgree DEF IInv, Turns, History, SelectionTypes
<1>2. QED
  BY <1>1, TurnsInductive, PTL

\* An input that claimed the turn keeps it until it ends or is cancelled.
THEOREM AuthorityStays == Spec => []InputsKeepAuthority
<1>1. IInv => InputsKeepAuthority
  BY DEF IInv, Turns
<1>2. QED
  BY <1>1, TurnsInductive, PTL

\* Every answer in an archive is behind its question, every published reply is in
\* one, and between turns the history is the saved one.
THEOREM HistoryIsSaved == Spec => []HistoryAgrees
<1>1. IInv => HistoryAgrees
  <2> SUFFICES ASSUME IInv PROVE HistoryAgrees
    OBVIOUS
  <2>1. \A c \in Characters : \A i \in DOMAIN archive[c] : \A t \in Inputs :
           archive[c][i] = Reply(t) => i > 1 /\ archive[c][i - 1] = Question(t)
    BY DEF IInv, History, AnswersFollow, Follows
  <2>2. \A w \in published : \E c \in Characters : \E i \in DOMAIN archive[c] :
           archive[c][i] = Reply(w)
    BY DEF IInv, Turns, TurnTypes, History, RepliesSaved, InArchive, Range
  <2>3. holder = Nobody /\ conv \notin blocked => memory[conv] = archive[conv]
    <3>1. holder = Nobody => \A t \in Inputs : at[t] \notin Asking
      BY StepKinds DEF IInv, Turns, TurnTypes
    <3>2. QED
      BY <3>1 DEF IInv, History, NothingUnsaved
  <2>4. QED
    BY <2>1, <2>2, <2>3 DEF HistoryAgrees
<1>2. QED
  BY <1>1, TurnsInductive, PTL

\* A worker publishes only while it is current, however late a cancellation or a
\* newer input came: who is inside the boundary stays current.
THEOREM CurrentPublishes == Spec => OnlyCurrentPublishes
<1>1. IInv /\ [Next]_vars => [\A w \in Workers : w \in published' \ published => Current(w)]_vars
  <2> SUFFICES ASSUME IInv, Next, NEW w \in Workers, w \in published' \ published
               PROVE  Current(w)
    OBVIOUS
  <2>1. Publish(w)
    <3>1. ASSUME NEW v \in Workers, Publish(v) PROVE v = w
      BY <3>1 DEF Publish
    <3>2. \E v \in Workers : Publish(v)
      BY StepKinds
         DEF Next, Submit, Process, Claim, Return, TakeTurn, Begin, GiveUp, Unwind, KeepEvidence,
             Generate, EnterBoundary, SaveInput, SaveReply, AfterPublication, Finish, Poll,
             CheckInWork, ClaimCheckIn, GenerateCheckIn, EnterCheckIn, Post, Cancel,
             SelectCharacter, Switch, PrepareSwitch, WaitIdle, JoinTurns, CheckIdle,
             SaveOutgoing, LoadIncoming, SwapConversation, Rebind, ResetTurn, turnVars
    <3>3. QED
      BY <3>1, <3>2
  <2>2. at[w] \in Committing
    BY <2>1 DEF Publish, Goto, Committing
  <2>3. QED
    BY <2>2 DEF IInv, Turns, CommitIsCurrent
<1>2. QED
  BY <1>1, TurnsInductive, PTL DEF Spec, OnlyCurrentPublishes
=============================================================================
