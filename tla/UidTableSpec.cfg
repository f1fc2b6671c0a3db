CONSTANTS
  Progs = {p1, p2}
  Vals = {v1, v2}
  LinkVals = {l1, l2}
  States = {s1, s2}
SPECIFICATION Spec
INVARIANTS
  TypeOK
  IndicesAgree
PROPERTY
  ImplementsRegistry
