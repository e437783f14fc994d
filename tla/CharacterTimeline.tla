---- MODULE CharacterTimeline ----
(***************************************************************************)
(* What a character's storage promises whatever layout it has: a memory    *)
(* that only grows, unless an erasure was confirmed; while an operation is *)
(* unfinished the character is blocked, and neither the end of an          *)
(* operation nor any crash in it changes what is remembered; after an      *)
(* erasure the character comes back empty and in a new generation.         *)
(***************************************************************************)
EXTENDS Naturals

CONSTANTS Items

VARIABLES
    state,    \* "absent", "ready", or "blocked" by an unfinished operation
    erasing,  \* the unfinished operation erases (or first creates) the timeline
    memory,   \* what is remembered: the archive and the rows derived from it
    gen       \* the timeline generation

tvars == <<state, erasing, memory, gen>>

Empty == [archive |-> {}, rows |-> {}]

Init ==
    /\ state \in {"absent", "ready"}
    /\ erasing = FALSE
    /\ memory = Empty
    /\ gen = 0

Converse(x) ==
    /\ state = "ready"
    /\ memory' = [memory EXCEPT !.archive = @ \cup {x}]
    /\ UNCHANGED <<state, erasing, gen>>

Observe(x) ==
    /\ state = "ready"
    /\ x \in memory.archive
    /\ memory' = [memory EXCEPT !.rows = @ \cup {x}]
    /\ UNCHANGED <<state, erasing, gen>>

\* A new identity: nothing is remembered until it is ready.
Create ==
    /\ state = "absent"
    /\ state' = "blocked" /\ erasing' = TRUE /\ memory' = Empty /\ gen' > gen

Begin ==
    /\ state = "ready"
    /\ state' = "blocked"
    /\ \/ erasing' = TRUE /\ memory' = Empty
       \/ erasing' = FALSE /\ UNCHANGED memory
    /\ UNCHANGED gen

\* Deleting what was never completed, or moving to another epoch.
Work ==
    /\ state = "blocked"
    /\ gen' >= gen
    /\ UNCHANGED <<state, erasing, memory>>

Finish ==
    /\ state = "blocked"
    /\ state' = "ready" /\ erasing' = FALSE
    /\ gen' >= gen
    /\ UNCHANGED memory

Vanish ==
    /\ state = "blocked" /\ erasing
    /\ state' = "absent" /\ erasing' = FALSE
    /\ UNCHANGED <<memory, gen>>

Next ==
    \/ \E x \in Items : Converse(x) \/ Observe(x)
    \/ Create \/ Begin \/ Work \/ Finish \/ Vanish

Spec == Init /\ [][Next]_tvars
====
