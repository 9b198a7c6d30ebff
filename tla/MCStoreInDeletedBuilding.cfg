SPECIFICATION Spec
CONSTANTS
  Admins = {a1, a2}
  Names = {n1}
  Places = {p1}
  MaxSuppliers = 1
PROPERTIES
  StoresInLiveLandmarks
CHECK_DEADLOCK FALSE
