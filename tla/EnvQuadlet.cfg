SPECIFICATION Spec
CONSTANTS
    Hosts <- MCHosts
    Cases <- QuadletCases
    Worlds <- MCWorlds
INVARIANT UnitDirAnchored
CHECK_DEADLOCK FALSE
