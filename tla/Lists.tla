-------------------------------- MODULE Lists --------------------------------
(***************************************************************************)
(* What is left of a list when some of its elements are passed over. The   *)
(* code does this in loops with an if in their body; here it is a recursive*)
(* function, which, unlike SelectSeq, can be reasoned about.               *)
(***************************************************************************)
EXTENDS Integers, Sequences

\* The elements of a list at the positions in K, in their order.
Part(list, K) ==
    LET Upto[n \in 0 .. Len(list)] ==
          IF n = 0 THEN <<>>
          ELSE IF n \in K THEN Append(Upto[n - 1], list[n]) ELSE Upto[n - 1]
    IN  Upto[Len(list)]

\* The elements of a list that are in S, in their order.
Those(list, S) == Part(list, {k \in DOMAIN list : list[k] \in S})

\* The sum of the values of the elements of a list.
Total(list, value) ==
    LET Upto[n \in 0 .. Len(list)] ==
          IF n = 0 THEN 0 ELSE Upto[n - 1] + value[list[n]]
    IN  Upto[Len(list)]

\* The numbers up to n that are in K, in their order.
Positions(n, K) == Part([k \in 1 .. n |-> k], K)
=============================================================================
