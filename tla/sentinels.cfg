SPECIFICATION Spec
CONSTANTS
  worker = worker
  N = 2
  Container = {worker}
  MaxFaults = 2
INVARIANTS
  TypeOK
PROPERTIES
  HighestLeads
  DeadIsRevived
  AgreementIsStable
CHECK_DEADLOCK FALSE
