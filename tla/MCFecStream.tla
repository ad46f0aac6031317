----------------------------- MODULE MCFecStream -----------------------------
(* Instances of FecStream for TLC. *)
EXTENDS FecStream

AllShapes == {<<a, b>> \in (1 .. 16) \X (1 .. 16) : b <= a}

SmallShapes == {<<1, 1>>, <<2, 1>>, <<3, 2>>, <<4, 2>>, <<5, 3>>}

\* What the proofs assume of the mask tables.
ASSUME TablesCoverAssumption == TablesCover
=============================================================================
