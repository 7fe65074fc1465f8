----------------------------- MODULE MCUpstream -----------------------------
(* Model checking instances of Upstream.                                   *)
EXTENDS Upstream, TLC

Symmetry == Permutations(Threads) \cup Permutations(Idents) \cup Permutations(Peers)
=============================================================================
