---------------------------- MODULE MCIngestJobs ----------------------------
(* Instances of IngestJobs for TLC.                                        *)
EXTENDS IngestJobs, TLC

CONSTANTS j1, j2

\* A file of two chunks with a row that a quality rule blocks, and one of a single
\* chunk with a row that PostgreSQL rejects after one that it accepts.
TwoFiles == j1 :> <<<<"good", "blocked">>, <<"good">>>> @@ j2 :> <<<<"good", "rejected">>>>

=============================================================================
