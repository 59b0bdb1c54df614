------------------------------- MODULE Ranks -------------------------------
(***************************************************************************)
(* What the listings and tables of the services are made of: the numbers   *)
(* of a set in their order, what a list has at certain places, a list      *)
(* sorted from the highest to the lowest, and the sums of the beginnings   *)
(* of a sequence.                                                          *)
(***************************************************************************)
EXTENDS Integers, Sequences, FiniteSets

\* The elements of a finite set of numbers in ascending order.
InOrder(S) ==
    [k \in 1..Cardinality(S) |-> CHOOSE x \in S : Cardinality({y \in S : y < x}) = k - 1]

\* The elements of s at the places S, in their order.
Picked(s, S) == [k \in 1..Cardinality(S) |-> s[InOrder(S)[k]]]

\* The smaller of two numbers.
AtMost(n, m) == IF n < m THEN n ELSE m

(***************************************************************************)
(* The places of the elements of s from the highest to the lowest, those   *)
(* of equal ones as they are in s (sorted is stable, reverse or not).      *)
(***************************************************************************)
Before(s, i, j) == s[i] > s[j] \/ (s[i] = s[j] /\ i < j)

Falling(s) ==
    [r \in DOMAIN s |-> CHOOSE i \in DOMAIN s : Cardinality({j \in DOMAIN s : Before(s, j, i)}) = r - 1]

\* The sums of the first 0, 1, ... Len(s) elements of s.
RunningSum(s) ==
    LET sum[k \in 0..Len(s)] == IF k = 0 THEN 0 ELSE sum[k - 1] + s[k] IN sum
=============================================================================
