--------------------------- MODULE MCProvisioning ---------------------------
(* Symmetry for the safety run: rows and requests are interchangeable.       *)
EXTENDS Provisioning, TLC

Symmetry == Permutations(Rows) \cup Permutations(Requests)

=============================================================================
