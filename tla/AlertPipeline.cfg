SPECIFICATION FairSpec
CONSTANTS
  Keys = {k1, k2}
  Ids = {i1, i2}
  Sites = {s1, s2}
  NoSite = NoSite
  Workers = {w1, w2}
  NoOwner = NoOwner
  BatchSize = 2
  MaxFaults = 2
INVARIANTS PublishedIsProjected AnnouncedOnce
PROPERTIES LeaseFencing DeliverySafe AckedIsPublished DeliveryFair
