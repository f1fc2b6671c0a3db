CONSTANTS
  Programs <- LoopPrograms
  LinkerName = "Linker"
  NULL = NULL
  Threads = {t1}
  MaxAdds = 1
  DegreeWidth = 16

SPECIFICATION Spec

INVARIANT
  NoCrash

CHECK_DEADLOCK FALSE
