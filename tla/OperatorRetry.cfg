\* A removal that kept the definitions, and a second one that is told to delete them.
SPECIFICATION Spec
CONSTANTS
  fa = fa
  fb = fb
  fc = fc
  na = na
  nb = nb
  op = op
  oq = oq
  or = or
  NoOperator = NoOperator
  NoPlace = NoPlace
  Files = {fa, fb, fc}
  Places = {op, oq, or}
  Before <- NowhereYet
  Namespaces = {na, nb}
  Desired <- ThreeDesired
  Home <- ThreeHome
  Version <- ThreeVersion
  Pulls = {fa, fb}
  SeesAll = {fa, fb}
  SeesBrokers = {fa, fb}
  MayEscalate = {fc}
  MayCreateNs = {fa, fc}
  MaxCommands = 3
  MaxAtOnce = 1
  MaxFaults = 0
  MaxBrokers = 0
PROPERTY AskedMeansGone
CHECK_DEADLOCK FALSE
