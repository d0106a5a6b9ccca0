------------------------ MODULE MCDistributionWorker ------------------------
(* The instance of DistributionWorker for TLC.                             *)
EXTENDS DistributionWorker

CONSTANTS j1, j2

\* The endpoint of j1 gives every orderly answer; that of j2 an error page that
\* cannot be sliced, until its connector is edited to one that cannot be built.
OneUnsliceable ==
  [j \in Jobs |-> IF j = j1 THEN {"accepted", "refused", "late"}
                            ELSE {"unsliceable", "unbuilt"}]

=============================================================================
