CONSTANTS
  Programs <- TypeSharePrograms
  LinkerName = "Linker"
  NULL = NULL
  Threads = {t1}
  MaxAdds = 2
  DegreeWidth = 16

SPECIFICATION Spec

PROPERTY
  CanonicalTypeStable

CHECK_DEADLOCK FALSE
