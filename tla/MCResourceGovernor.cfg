SPECIFICATION Spec
CONSTANTS
  Requests = {r1, r2, r3, r4, r5, r6}
  sub1 = sub1
  sub2 = sub2
  sub3 = sub3
  Subjects = {sub1, sub2, sub3}
  Workload <- MixedWorkload
  ActiveLimit = 2
  QueueLimit = 4
SYMMETRY RequestSymmetry
INVARIANTS
  WorkConserving
  QueuesConsistent
PROPERTIES
  ImplementsAdmission
