SPECIFICATION Spec
CONSTANTS
  None = None
  Absent = Absent
  HiddenSize = 2
  Device = "g0"
  Devices <- MCDevices
  Models <- MCModels
  Splits <- MCSplits
  Overrides <- MCOverrides
  Rows <- MCRows
  Elements <- MCElements
INVARIANTS TypeOK PlannedJobsRun SubmittedAsPlanned EveryBlockRunsOnce ArrivesWithinHalfAStep
CHECK_DEADLOCK FALSE
