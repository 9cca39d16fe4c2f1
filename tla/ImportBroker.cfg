SPECIFICATION Spec
CONSTANTS
  default = default
  second = second
  dq = dq
  df = df
  vq = vq
  vb = vb
  lg = lg
  us = us
  ca = ca
  h1 = h1
  h2 = h2
  dr = dr
  sk = sk
  ap = ap
  un = un
  Vpns <- TwoVpns
  Default = default
  VpnOrder <- Listed
  Objects = {dq, df, vb, ca, h1, h2, dr, un}
  Home <- Homes
  Kind <- ObjectKinds
  Rank <- Ranks
  HostVpn = second
  Scopes <- ThreeScopes
  Sources <- Brokers
  Targets <- NewAndOld
  MaxRuns = 2
  MaxMishaps = 2
INVARIANTS DestroyedIsNamed RebuiltIsWhole Recovers GapIsLoud
PROPERTY KeepsPromise
CHECK_DEADLOCK FALSE
