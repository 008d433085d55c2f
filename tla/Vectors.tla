------------------------------ MODULE Vectors ------------------------------
(* A std::vector that is searched, and erased from by std::remove: what is   *)
(* found or left keeps its order.                                            *)
EXTENDS Integers, Sequences, FiniteSets

Elements(s) == {s[i] : i \in DOMAIN s}

(* How many of the positions I there are up to i *)
Rank(I, i) == Cardinality({j \in I : j <= i})

(* The elements of s at the positions I *)
InOrder(s, I) == [k \in 1 .. Cardinality(I) |-> s[CHOOSE i \in I : Rank(I, i) = k]]

(* erase(remove(begin, end, x), end) *)
Without(s, x) == InOrder(s, {i \in DOMAIN s : s[i] # x})
=============================================================================
