SPECIFICATION TrafficSpec
CONSTANTS
  Appenders = {a1, a2}
  Compactors = {c1}
  Runners = {r1, r2, r3}
  Nobody = Nobody
  MaxHot = 1
  HotCap = 3
  RotationMayFail = TRUE
INVARIANTS TypeOK OneOwner
PROPERTIES CompactReturns KeepsRotating
