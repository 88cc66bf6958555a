SPECIFICATION Spec
CHECK_DEADLOCK FALSE
CONSTANTS
    Ips <- MCIps
    MaxU8 = 1
    Files <- MCFiles
    Launches <- MCLaunches
    Resolutions <- MCResolutions
    Networks <- MCNetworks
    MaxIncoming = 2
    MaxFaults = 1
    MaxBroadcasts = 1
INVARIANTS
    StartupOutcome
    ShutdownQuiet
    ErrorsCaused
PROPERTIES
    StartupEnds
    ShutdownEnds
