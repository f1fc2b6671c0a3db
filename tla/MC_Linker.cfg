CONSTANTS
  Programs <- GoodPrograms
  LinkerName = "Linker"
  NULL = NULL
  Threads = {t1}
  MaxAdds = 3
  DegreeWidth = 16

SPECIFICATION Spec

INVARIANTS
  TypeOK
  OneHeaderPerId
  HeaderLinksTyped
  ExtractsResolvable
  HeaderTypesPublished
  NoNullStateExt

PROPERTIES
  LinkPreservesParsers
  AddReturns

CHECK_DEADLOCK FALSE
