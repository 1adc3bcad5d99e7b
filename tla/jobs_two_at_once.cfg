CONSTANTS a1 = a1  a2 = a2  Admins = {a1, a2}  MaxJobs = 2  MaxCrashes = 0  MaxFaults = 0
SPECIFICATION Spec
INVARIANT OneIngestionAtATime
CHECK_DEADLOCK FALSE
