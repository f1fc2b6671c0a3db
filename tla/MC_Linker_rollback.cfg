CONSTANTS
  Programs <- RollbackPrograms
  LinkerName = "Linker"
  NULL = NULL
  Threads = {t1}
  MaxAdds = 2
  DegreeWidth = 16

SPECIFICATION Spec

PROPERTY
  FailedAddKeepsRunning

CHECK_DEADLOCK FALSE
