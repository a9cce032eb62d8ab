SPECIFICATION FairSpec
CONSTANTS
  Appenders = {a1}
  Compactors = {}
  Runners = {r1, r2}
  Nobody = Nobody
  MaxHot = 1
  HotCap = 3
  RotationMayFail = FALSE
PROPERTY OversizedIsRotated
