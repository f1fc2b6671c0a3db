CONSTANTS
  Programs <- TcpVlanPrograms
  LinkerName = "Linker"
  NULL = NULL
  Threads = {t1}
  MaxAdds = 2
  DegreeWidth = 16

SPECIFICATION Spec

PROPERTY
  LinkPreservesParsers

CHECK_DEADLOCK FALSE
