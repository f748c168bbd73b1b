SPECIFICATION CrashSpec
CONSTANTS
  Versions = {v1, v2}
  Absent = Absent
  MaxCrashes = 5
INVARIANTS
  NeverRefused
  AuthorizationConsumed
PROPERTIES
  TransactionEnds
  MachineComesUp
CHECK_DEADLOCK FALSE
