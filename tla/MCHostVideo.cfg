SPECIFICATION Spec
CONSTANTS
  MaxEncodes = 3
  Regions = {"screen"}
INVARIANTS PacketsAccounted KeyRequestLostOnlyAs RefsNamed FaultOnlyAfterFailure ChangesReported
CHECK_DEADLOCK FALSE
