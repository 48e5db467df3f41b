\* The claim that a scan which finds a device is followed by an update check.
SPECIFICATION FairSpec
CONSTANTS
    UNREGISTERED = 2
    Retries = 1
    CallsDuringEnable = FALSE
PROPERTY
    UpdateFollowsScan
