CONSTANTS
  Programs <- GoodPrograms
  LinkerName = "Linker"
  NULL = NULL
  Threads = {t1, t2}
  MaxAdds = 2
  DegreeWidth = 16

SPECIFICATION Spec

INVARIANT
  NoNullStateExt

CHECK_DEADLOCK FALSE
