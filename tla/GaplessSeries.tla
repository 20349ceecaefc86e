---------------------------- MODULE GaplessSeries ----------------------------
(***************************************************************************)
(* What document numbering promises (ADR-0010): the numbers of each series *)
(* are 1, 2, 3, ... in the order their documents commit, with no gap, no   *)
(* repetition, and no number taken back.                                   *)
(***************************************************************************)
EXTENDS Naturals, Sequences

CONSTANT Series
VARIABLE numbers    \* the numbers of the committed documents of each series

Counting(n) == [i \in 1..n |-> i]

Init == numbers = [s \in Series |-> <<>>]

Next ==
    \A s \in Series :
        /\ Len(numbers[s]) <= Len(numbers'[s])
        /\ numbers'[s] = Counting(Len(numbers'[s]))

Spec == Init /\ [][Next]_numbers
=============================================================================
