SPECIFICATION Spec
CONSTANTS
  t1 = t1
  t2 = t2
  t3 = t3
  t4 = t4
  Task = {t1, t2, t3, t4}
  Actor = {ann, bob}
  Nobody = Nobody
  Deps <- MCDeps
INVARIANTS
  TypeOK
  PlannedWaitsForSomething
PROPERTY
  ImplementsLifecycle
