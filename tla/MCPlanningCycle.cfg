SPECIFICATION Spec
CONSTANTS
  a = a
  rra = rra
  ra = ra
  MaxCommands = 3
  Title = {a, ra, rra}
  Absent = Absent
  MaxId = 3
  Proc = {p1}
  Manifests <- ReversedManifests
  ReviewOf <- MCReviewOf
  MaxArgs = 1
  None = None
CONSTRAINT FewCommands
INVARIANT PlanCanBeWorkedOff
