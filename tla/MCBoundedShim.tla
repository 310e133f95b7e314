--------------------------- MODULE MCBoundedShim ---------------------------
(* BoundedShim on small instances.  VendorTables holds the complete driver *)
(* and one that lacks each of the symbols in turn.                         *)
EXTENDS BoundedShim, TLC

CompleteTable == {Symbols}
PartialTables == {Symbols} \cup {Symbols \ {s} : s \in Symbols}

(* Threads are interchangeable: no action or invariant names one. *)
ThreadSymmetry == Permutations(Threads)
=============================================================================
