CONSTANTS a1 = a1  a2 = a2  Admins = {a1, a2}  MaxJobs = 2  MaxCrashes = 1  MaxFaults = 1
SPECIFICATION SpecCancelsSeePending
INVARIANTS
  TypeOK ActiveJobsHaveTasks CompletedIsServed CancelledBeforeRebuild OneIngestionAtATime
PROPERTIES OutcomesAreFinal JobsEnd
CHECK_DEADLOCK FALSE
