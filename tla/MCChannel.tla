------------------------------ MODULE MCChannel ------------------------------
(* Model checking instances of Channel.                                    *)
EXTENDS ChannelInvariant, TLC

Symmetry == Permutations(Threads) \cup Permutations(Conns)
              \cup Permutations(Objs) \cup Permutations(Ids)
=============================================================================
