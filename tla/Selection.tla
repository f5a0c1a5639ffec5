----------------------------- MODULE Selection ------------------------------
(***************************************************************************)
(* What a list comprehension with a condition does to a list: SelectSeq,   *)
(* with a set in place of the test and as a recursive function, so that    *)
(* facts about it can be proved.                                           *)
(***************************************************************************)
EXTENDS Naturals, Sequences

\* The elements of q that are in T, in the order of q.
Selected(q, T) ==
    LET among[n \in 0..Len(q)] ==
            IF n = 0 THEN <<>>
            ELSE IF q[n] \in T THEN Append(among[n - 1], q[n])
            ELSE among[n - 1]
    IN  among[Len(q)]
=============================================================================
