SPECIFICATION RFairSpec
CONSTANTS
  Requests = {r1, r2, r3, r4}
  sub1 = sub1
  sub2 = sub2
  Subjects = {sub1, sub2}
  Workload <- TwoSubjects
  ActiveLimit = 1
  QueueLimit = 3
PROPERTIES
  TakesTurns
  WaiterServed
