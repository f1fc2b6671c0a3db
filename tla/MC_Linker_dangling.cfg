CONSTANTS
  Programs <- DualPrograms
  LinkerName = "Linker"
  NULL = NULL
  Threads = {t1}
  MaxAdds = 1
  DegreeWidth = 16

SPECIFICATION Spec

INVARIANT
  ExtractsResolvable

CHECK_DEADLOCK FALSE
