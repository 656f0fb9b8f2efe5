SPECIFICATION Spec
CONSTANTS
  t1 = t1
  t2 = t2
  Task = {t1, t2}
  Actor = {ann, bob}
  Nobody = Nobody
  None = None
  Deps <- MCDeps
  Proc = {p1, p2}
  Exclusive = TRUE
SYMMETRY Symmetry
CONSTRAINT OneTornTask
INVARIANTS
  TypeOK
  NoLostUpdate
  HolderOwnsTask
  EvidenceMatchesStatus
PROPERTY
  ImplementsLifecycle
