-------------------------------- MODULE Sums --------------------------------
(***************************************************************************)
(* The sum of a function over a finite set, said by a witness: the set in  *)
(* some order and the partial sums along it.  It means what MapThenSumSet  *)
(* of FiniteSetsExt computes, without its recursion, so that the provers   *)
(* can follow a sum through the steps of a contract.                       *)
(***************************************************************************)

EXTENDS Integers, FiniteSets, Functions

\* The elements of S in some order, each once.
Enumerations(S) == Bijection(1..Cardinality(S), S)

\* p holds the partial sums of f along e.
PartialSums(f, S, e, p) ==
  /\ p[0] = 0
  /\ \A i \in 1..Cardinality(S) : p[i] = p[i - 1] + f[e[i]]

IsSum(f, S, total) ==
  \E e \in Enumerations(S), p \in [0..Cardinality(S) -> 0..total] :
    PartialSums(f, S, e, p) /\ p[Cardinality(S)] = total
=============================================================================
