-------------------------- MODULE MCAuctionEngine --------------------------
(* Model-checking instances of AuctionEngine: see the .cfg files. *)
EXTENDS AuctionEngine, TLC

Symmetry == Permutations(Replicas) \cup Permutations(Closers)
=============================================================================
