\* Custom Auto with a confirmation delay.
CONSTANTS
    TopSpeed = 3
    Thresholds <- MCThresholds
    Confirm = TRUE
    PM = {1, 2, 3}
    MaxRevision = 4
SPECIFICATION Spec
INVARIANTS
    TypeOK
    InactiveIsClean
    DownshiftsCovered
    UpshiftsConfirmed
    NoSampleLost
    NoWorkStranded
PROPERTIES
    DownshiftsOnFreshData
