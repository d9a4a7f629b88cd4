SPECIFICATION FairSpec
CONSTANTS
  flow1 = flow1
  flow2 = flow2
  flow3 = flow3
  Retained = {d1}
  Fresh = {d2}
  Flows = {flow1, flow2, flow3}
  UiFlows = {flow3}
  Demand <- TwoAndOnes
  Limit = 2
  MaxStray <- OneOfTheFirst
INVARIANTS
  ReservationsExact
  ReservedFits
PROPERTIES
  RequestsAnswered
CHECK_DEADLOCK FALSE
