SPECIFICATION SpecR
CONSTANTS
  Events = {e1, e2}
  Days = {1}
  DayOf <- MCDayOf
  Files = {f1, f2}
  NoFile = NoFile
  NoSidecar = NoSidecar
  NoDay = NoDay
  MaxPackets = 1
  Workers = 1
  MaxInserts = 2
  MaxFaults = 0
INVARIANT NegentropyComplete
CHECK_DEADLOCK FALSE
