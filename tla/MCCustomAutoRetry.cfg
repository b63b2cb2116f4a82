\* Retries of a failed automatic command.
CONSTANTS
    TopSpeed = 3
    Thresholds <- MCThresholds
    Confirm = TRUE
    PM = {1, 2, 3}
    MaxRevision = 2
SPECIFICATION RetrySpec
INVARIANTS
    RetryAwaitsPoll
