\* One page with two frames at a time, one auction, one bid, and one socket that
\* drops or leaves, error or crash.
SPECIFICATION FairSpec
CONSTANTS
  t1 = t1
  Tabs = {t1}
  Frames = {f1, f2}
  Sender <- Both
  Requests = {k1}
  MaxAuctions = 1
  MaxBids = 1
  MaxMishaps = 1
INVARIANT MembersAreServed
PROPERTIES PanelsCatchUp ResultsAreHeard
CHECK_DEADLOCK FALSE
