------------------------------- MODULE Ascending -------------------------------
(***************************************************************************)
(* The members of a finite set of numbers as a sequence, the least first:  *)
(* how the code walks what is numbered (the tasks of the crop worker, the  *)
(* entries of an ordered dictionary), without a recursion.                 *)
(***************************************************************************)
EXTENDS Naturals, FiniteSets

Kth(S, k) == CHOOSE i \in S : Cardinality({j \in S : j <= i}) = k
Ascending(S) == [k \in 1..Cardinality(S) |-> Kth(S, k)]
================================================================================
