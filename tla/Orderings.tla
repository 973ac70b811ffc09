----------------------------- MODULE Orderings -----------------------------
(***************************************************************************)
(* Sorting and filtering.  The order is a relation, a set of pairs, and    *)
(* what is kept is a set, where SetToSortSeq and SelectSeq take operators: *)
(* what they return can then be proved for every order and every set.      *)
(***************************************************************************)
EXTENDS Naturals, Sequences, FiniteSets

(* The elements of a finite set from the first in the order to the last:   *)
(* each has as many at or before it as its place says.                     *)
Listed(S, order) ==
  [k \in 1..Cardinality(S) |->
     CHOOSE x \in S : Cardinality({y \in S : <<y, x>> \in order}) = k]

(* Numbers in ascending order.                                             *)
Ascending(S) == Listed(S, {p \in S \X S : p[1] <= p[2]})

(* The elements of s at the places of a set, in the order they have there. *)
Picked(s, places) ==
  LET order == Ascending(places)
  IN  [k \in DOMAIN order |-> s[order[k]]]

(* Sorted by the key at each place, equal keys in their old order.         *)
StableSorted(s, key) ==
  LET places == DOMAIN s
      order == Listed(places, {p \in places \X places :
                                 \/ key[p[1]] < key[p[2]]
                                 \/ key[p[1]] = key[p[2]] /\ p[1] <= p[2]})
  IN  [k \in DOMAIN s |-> s[order[k]]]

=============================================================================
