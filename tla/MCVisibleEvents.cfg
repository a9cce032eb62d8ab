SPECIFICATION Spec
CONSTANTS
  LongValues = {}
  LongAddresses = {}
  Days = {0, 1}
  SecondsPerDay = 2
  Notes = {1, 2, 3, 4, 5}
  note <- MCNote
  Resent = {3}
  Asked <- MCAsked
  Always <- NoFilter
  TagName <- MCTagName
  NotStrings = NotStrings
  NoLimit = 99
  DefaultLimit = 3
  MaxLimit = 4
INVARIANTS TypeOK SearchExact PlainFollowsCompaction LimitsNewest BatchAgrees
