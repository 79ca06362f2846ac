SPECIFICATION IceSpec
CONSTANTS
    Hosts <- MCHosts
    Mapped <- MCMapped
    Topologies <- MCTopologies
    MaxRuns <- MCRuns
INVARIANT ChecksAreAnswerable
CHECK_DEADLOCK FALSE
