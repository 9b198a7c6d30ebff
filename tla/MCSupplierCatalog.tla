------------------------- MODULE MCSupplierCatalog -------------------------
\* The catalogue with two admins at work.  No property tells admins, names or
\* buildings apart, and none is a liveness property.
EXTENDS SupplierCatalog, TLC

Symmetry == Permutations(Admins) \cup Permutations(Names) \cup Permutations(Places)
=============================================================================
