SPECIFICATION Spec
CONSTANTS
  a = a
  rra = rra
  ra = ra
  MaxCommands = 3
  Title = {a, ra, rra}
  Absent = Absent
  MaxId = 3
  Proc = {p1, p2}
  Manifests <- MCManifests
  ReviewOf <- MCReviewOf
  MaxArgs = 1
  None = None
SYMMETRY Symmetry
CONSTRAINT FewCommands
INVARIANTS
  TypeOK
  AlwaysCoherent
  NothingToldIsLost
