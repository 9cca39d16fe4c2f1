SPECIFICATION Spec
CONSTANTS
    Hosts <- MCHosts
    Cases <- MCCases
    Worlds <- MCWorlds
INVARIANTS NothingDropped GroupForms CommandsStillPass Anchored SitesMirror
CHECK_DEADLOCK FALSE
