--------------------------- MODULE MCIngestionJobs ---------------------------
(* Two jobs, two admins, a crash and a failed job-table write.              *)
EXTENDS IngestionJobs

CONSTANTS a1, a2
=============================================================================
