----------------------------- MODULE MCBinding ------------------------------
(* Binding for TLC: either the binding code or the claim code is issued. *)
EXTENDS Binding, TLC

CONSTANTS bc, cc

Plan(b, c) == bc :> b @@ cc :> c
OneIssue == {Plan(1, 0), Plan(0, 1)}
TwoIssues == {Plan(2, 0), Plan(0, 2)}
OneCode == {Plan(1, 0)}

\* Calls and RPCs are interchangeable.
Symmetry == Permutations(Calls) \cup Permutations(Ops)
=============================================================================
