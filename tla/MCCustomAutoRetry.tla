--------------------------- MODULE MCCustomAutoRetry ---------------------------
(***************************************************************************)
(* CustomAuto with a history variable: the revision of the last valid      *)
(* PM2.5 sample when an automatic command failed, 0 before.                *)
(***************************************************************************)
EXTENDS MCCustomAuto

VARIABLE failedAt

RetrySpec ==
    /\ Init /\ failedAt = 0
    /\ [][/\ Next
          /\ failedAt' = IF AutomaticCommandFails THEN revision
                         ELSE IF active THEN failedAt ELSE 0]_<<vars, failedAt>>

\* After an automatic command failed, none is sent before a later valid PM2.5
\* sample arrives (_async_run_evaluations sets _waiting_for_successful_update).
RetryAwaitsPoll ==
    evaluation \in {"upshift", "downshift"} /\ failedAt # 0 => revision > failedAt

==============================================================================
