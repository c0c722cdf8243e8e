SPECIFICATION FairSpec
CONSTANTS
  Pictures = {p1, p2}
  Interval = 2
  MaxTime = 4
  MaxFrames = 4
  MaxVersion = 3
  MaxAttempts = 3
INVARIANTS NeverOutOfOrder SupersededMaskStops
PROPERTIES Supervised
