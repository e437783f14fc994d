---- MODULE SpeechOutput ----
(***************************************************************************)
(* What a spoken reply promises whatever queues, threads and sessions      *)
(* carry it: chunks of text are accepted while it is not complete, said    *)
(* once and, when the text was committed before, in their order; it ends   *)
(* once, as a whole only when all that was accepted was said, and after    *)
(* its end nothing of it is heard.                                         *)
(***************************************************************************)
EXTENDS Naturals, Sequences

CONSTANTS Utterances

VARIABLES
    ordered,  \* is its text committed, so that it must be said in order?
    text,     \* how many chunks were accepted
    said,     \* the chunks that were heard
    result    \* "no" until its end is announced, then "whole" or "cut"

ovars == <<ordered, text, said, result>>

InOrder(s) == s = [i \in 1..Len(s) |-> i]
NoneTwice(s) == \A i, j \in 1..Len(s) : s[i] = s[j] => i = j
Accepted(u) == 1..text[u]

Init ==
    /\ ordered = [u \in Utterances |-> FALSE]
    /\ text = [u \in Utterances |-> 0]
    /\ said = [u \in Utterances |-> <<>>]
    /\ result = [u \in Utterances |-> "no"]

\* Nothing was accepted before.
Open(u) ==
    /\ text[u] = 0 /\ said[u] = <<>> /\ result[u] = "no"
    /\ \E b \in BOOLEAN : ordered' = [ordered EXCEPT ![u] = b]
    /\ UNCHANGED <<text, said, result>>

Accept(u) ==
    /\ result[u] # "whole"
    /\ text' = [text EXCEPT ![u] = @ + 1]
    /\ UNCHANGED <<ordered, said, result>>

\* Accepted chunks that were not heard yet follow those that were.
Say(u) ==
    /\ result[u] = "no"
    /\ \A i \in 1..Len(said[u]) : i \in 1..Len(said'[u]) /\ said'[u][i] = said[u][i]
    /\ NoneTwice(said'[u])
    /\ \A i \in 1..Len(said'[u]) : said'[u][i] \in Accepted(u)
    /\ ordered[u] => InOrder(said'[u])
    /\ said' = [said EXCEPT ![u] = said'[u]]
    /\ UNCHANGED <<ordered, text, result>>

Finish(u) ==
    /\ result[u] = "no"
    /\ \/ /\ result' = [result EXCEPT ![u] = "whole"]
          /\ \A c \in Accepted(u) : \E i \in 1..Len(said[u]) : said[u][i] = c
       \/ result' = [result EXCEPT ![u] = "cut"]
    /\ UNCHANGED <<ordered, text, said>>

\* A late stop calls it cut although it was heard.
Recant(u) ==
    /\ result[u] = "whole"
    /\ result' = [result EXCEPT ![u] = "cut"]
    /\ UNCHANGED <<ordered, text, said>>

Next ==
    \E u \in Utterances : Open(u) \/ Accept(u) \/ Say(u) \/ Finish(u) \/ Recant(u)

Spec == Init /\ [][Next]_ovars
====
