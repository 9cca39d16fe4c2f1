\* Any order of commands, one at a time, with a call that fails half-way and brokers that come and go.
SPECIFICATION Spec
CONSTANTS
  fa = fa
  fb = fb
  fc = fc
  na = na
  nb = nb
  op = op
  oq = oq
  or = or
  NoOperator = NoOperator
  NoPlace = NoPlace
  Files = {fa, fb, fc}
  Places = {op, oq, or}
  Before <- MaybeElsewhere
  Namespaces = {na, nb}
  Desired <- ThreeDesired
  Home <- ThreeHome
  Version <- ThreeVersion
  Pulls = {fa, fb}
  SeesAll = {fa, fb}
  SeesBrokers = {fa, fb}
  MayEscalate = {fc}
  MayCreateNs = {fa, fc}
  MaxCommands = 5
  MaxAtOnce = 1
  MaxFaults = 1
  MaxBrokers = 1
INVARIANT ClaimsAreServed
PROPERTIES SharedOnlyByConsent CascadeTakesNobody
CHECK_DEADLOCK FALSE
