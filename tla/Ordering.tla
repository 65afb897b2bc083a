------------------------------ MODULE Ordering ------------------------------
(***************************************************************************)
(* Sorting and filtering, as the code does it with sort_by and filter: the *)
(* elements of a finite set in the order of a relation, and the elements   *)
(* of a sequence that are in a set.                                        *)
(***************************************************************************)
EXTENDS Integers, Sequences, FiniteSets

Before(x, S, R) == {y \in S : <<y, x>> \in R}

(* R is a strict total order of S. *)
Orders(R, S) ==
  /\ \A x \in S : <<x, x>> \notin R
  /\ \A x, y \in S : x # y => <<x, y>> \in R \/ <<y, x>> \in R
  /\ \A x, y, z \in S : <<x, y>> \in R /\ <<y, z>> \in R => <<x, z>> \in R

(* The i-th element is the one that i - 1 others come before. *)
InOrder(S, R) ==
  [i \in 1 .. Cardinality(S) |-> CHOOSE x \in S : Cardinality(Before(x, S, R)) = i - 1]

Smaller(S) == {e \in S \X S : e[1] < e[2]}

(* The elements of s at the positions of I. *)
Selected(s, I) ==
  LET order == InOrder(I, Smaller(DOMAIN s))
  IN  [i \in DOMAIN order |-> s[order[i]]]

Keep(s, S) == Selected(s, {i \in DOMAIN s : s[i] \in S})
=============================================================================
