SPECIFICATION Spec
CONSTANTS
    Hosts <- MCHosts
    Cases <- ReferenceCases
    Worlds <- MCWorlds
INVARIANT ReferenceIsAccepted
CHECK_DEADLOCK FALSE
