-------------------------------- MODULE Lists ---------------------------------
(***************************************************************************)
(* Sorted and filtered lists without recursion, so that they can be        *)
(* reasoned about.                                                         *)
(***************************************************************************)
EXTENDS Naturals, Sequences, SequencesExt

(* A set of pairs that orders S: <<x, y>> when x is y or comes before it.  *)
Linear(S, before) ==
  /\ \A x, y \in S : <<x, y>> \in before \/ <<y, x>> \in before
  /\ \A x, y \in S : <<x, y>> \in before /\ <<y, x>> \in before => x = y
  /\ \A x, y, z \in S : <<x, y>> \in before /\ <<y, z>> \in before => <<x, z>> \in before

(* How many of S are not after x.                                          *)
Standing(S, before, x) == Cardinality({y \in S : <<y, x>> \in before})

(* The members of S in this order.                                         *)
Arranged(S, before) ==
  [k \in 1..Cardinality(S) |-> CHOOSE x \in S : Standing(S, before, x) = k]

(* Positions in a list from left to right.                                 *)
Rising(S) == Arranged(S, {p \in S \X S : p[1] <= p[2]})

(* What a list has at the positions of S, in its order.                    *)
Sublist(list, S) ==
  LET place == Rising(S) IN [k \in DOMAIN place |-> list[place[k]]]

(* Each item where it occurs first.                                        *)
Distinct(list) ==
  Sublist(list, {i \in DOMAIN list : \A j \in DOMAIN list : list[j] = list[i] => i <= j})
===============================================================================
