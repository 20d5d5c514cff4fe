SPECIFICATION FairSpec
CONSTANTS
  e1 = e1
  e2 = e2
  Events = {e1, e2}
  Replicated = TRUE
  BatchLimit = 2
  MaxFault = 2
  MaxStale = 1
INVARIANTS
  SentIsPublished
  DuplicatesPaid
  InOrderUnlessFault
PROPERTIES
  ChannelSafe
  AtLeastOnce
CHECK_DEADLOCK FALSE
