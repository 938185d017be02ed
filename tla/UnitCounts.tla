----------------------------- MODULE UnitCounts -----------------------------
(***************************************************************************)
(* Sums as cardinalities.  The sum of f over a finite set S is the number  *)
(* of the units its members own: s owns the units <<s, 1>> .. <<s, f[s]>>. *)
(* Written so, what an update of f does to the sum follows from facts      *)
(* about finite sets.  M is a bound on the values of f.                    *)
(***************************************************************************)
EXTENDS Naturals

UnitsOver(S, M, f) == {u \in S \X (1..M) : u[2] <= f[u[1]]}

=============================================================================
