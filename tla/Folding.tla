------------------------------- MODULE Folding -------------------------------
(***************************************************************************)
(* Folds and fixed points whose accumulator is evaluated at every step, for *)
(* long computations, and sets of numbers in order.                         *)
(***************************************************************************)
EXTENDS Integers, Sequences, FiniteSets

\* Always true; a recursion that asks it evaluates its accumulator there.
Evaluated(a) == a = a

\* The result b, for which a is evaluated first.
Given(a, b) == IF Evaluated(a) THEN b ELSE a

\* Op applied to each element of s in turn, from the left: first over one
\* half, then, with what that gave, over the other.
Foldl(Op(_, _), base, s) ==
    LET RECURSIVE Over(_, _, _)
        Over(a, m, n) ==
            LET mid == (m + n) \div 2
                Then(b) == IF Evaluated(b) THEN Over(b, mid + 1, n) ELSE a
            IN  IF m < n THEN Then(Over(a, m, mid)) ELSE Op(a, s[n])
    IN  IF s = <<>> THEN base ELSE Over(base, 1, Len(s))

\* Op applied until Done.
Iterated(Op(_), Done(_), base) ==
    LET RECURSIVE From(_)
        From(a) == IF Evaluated(a) /\ Done(a) THEN a ELSE From(Op(a))
    IN  From(base)

\* The numbers 1 .. n as a sequence.
UpTo(n) == [k \in 1 .. n |-> k]

\* The elements of S in the order Before; distinct elements must compare.
OrderedBy(S, Before(_, _)) ==
    [n \in 1 .. Cardinality(S) |->
        CHOOSE x \in S : Cardinality({y \in S : y # x /\ Before(y, x)}) = n - 1]

Ordered(S) == OrderedBy(S, LAMBDA x, y : x < y)
=============================================================================
