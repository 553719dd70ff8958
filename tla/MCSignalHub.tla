---------------------------- MODULE MCSignalHub -----------------------------
(* SignalHub for TLC. *)
EXTENDS SignalHub, TLC

Symmetry == Permutations(Wss) \cup Permutations(Bots) \cup Permutations(Conns) \cup Permutations(Calls)
=============================================================================
