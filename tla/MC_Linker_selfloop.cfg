CONSTANTS
  Programs <- MplsPrograms
  LinkerName = "Linker"
  NULL = NULL
  Threads = {t1}
  MaxAdds = 1
  DegreeWidth = 16

SPECIFICATION Spec

PROPERTY
  FirstAddLinks

CHECK_DEADLOCK FALSE
