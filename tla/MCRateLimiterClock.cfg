SYMMETRY Symmetry
CHECK_DEADLOCK FALSE
SPECIFICATION CSpec
CONSTANTS
  p1 = p1
  p2 = p2
  ch1 = ch1
  ch2 = ch2
  ch3 = ch3
  Requesters = {p1, p2}
  Chans = {ch1, ch2, ch3}
  PerMinute = 2
  MaxTime = 3
  NoChan = NoChan
INVARIANTS TokensConserved RateBound UnpaidBound
PROPERTY EntryLastsATick
