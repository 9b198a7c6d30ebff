SPECIFICATION Spec
CONSTANTS
  Admins = {a1, a2}
  Names = {n1, n2}
  Places = {p1, p2}
  MaxSuppliers = 2
INVARIANTS
  EditsKept
  CatalogConsistent
PROPERTIES
  DeletedForGood
CHECK_DEADLOCK FALSE
SYMMETRY Symmetry
