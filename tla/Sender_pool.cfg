SPECIFICATION FairSpec
CONSTANTS
  s1 = s1
  s2 = s2
  Senders <- TwoSenders
  MaxEntries = 4
  MaxLen = 3
  Count = 2
  Deliverable <- OddReplies
  MaxAbandons = 2
CHECK_DEADLOCK FALSE
INVARIANTS
  NeverSentTwice
  NoSilentDrop
PROPERTIES
  TriedUnlessAbandoned
