------------------------------- MODULE Ordered -------------------------------
(* The members of a finite set of numbers one after another, by counting:   *)
(* what ORDER BY id and a scan of a list of rows return.                    *)
EXTENDS Naturals, FiniteSets

\* How many members of M go up to i.
Rank(M, i) == Cardinality({j \in M : j <= i})

\* The n-th member of M.
Nth(M, n) == CHOOSE i \in M : Rank(M, i) = n

\* M in ascending order.
InOrder(M) == [n \in 1..Cardinality(M) |-> Nth(M, n)]

\* The elements of s at the indexes in I, in order.
At(s, I) == [n \in 1..Cardinality(I) |-> s[Nth(I, n)]]
=============================================================================
