CONSTANTS
  Programs <- FaultPrograms
  LinkerName = "Linker"
  NULL = NULL
  Threads = {t1, t2}
  MaxAdds = 2
  DegreeWidth = 16

SPECIFICATION Spec

INVARIANTS
  OneHeaderPerId
  HeaderLinksTyped

PROPERTIES
  AddReturns

CHECK_DEADLOCK FALSE
