----------------------------- MODULE ColorLogic -----------------------------
(***************************************************************************)
(* ColorLogic (color_logic.hpp): the colour votes of one landmark, a       *)
(* counter per colour id.  The ids are those of the enumeration ColorId;   *)
(* the classifiers (input/color_classifier.hpp) also produce Unknown, which*)
(* no counter takes.                                                       *)
(***************************************************************************)
EXTENDS Integers

blueCone == 0
yellowCone == 1
orangeCone == 2
orangeBigCone == 3
ColorIds == blueCone..orangeBigCone
Unknown == 255

\* What a classifier may say of a cone; the colour-blind one only says yellow.
Classified == ColorIds \cup {Unknown}

NoVotes == [id \in ColorIds |-> 0]

setColor(votes, id) ==
    IF id \in ColorIds THEN [votes EXCEPT ![id] = @ + 1] ELSE votes

\* std::max_element over a map ordered by id: the first of the largest.
IsMostVoted(votes, id) ==
    /\ id \in ColorIds
    /\ \A other \in ColorIds : votes[other] <= votes[id]
    /\ \A other \in ColorIds : other < id => votes[other] < votes[id]

getConeColorAndCount(votes) ==
    LET winner == CHOOSE id \in ColorIds : IsMostVoted(votes, id)
    IN  [color |-> winner, count |-> votes[winner]]
=============================================================================
