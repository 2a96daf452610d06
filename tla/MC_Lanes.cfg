CONSTANTS
  w1 = w1
  w2 = w2
  r1 = r1
  NoLevel = NoLevel
  Absent = Absent
  Junk = Junk
  c1 = c1
  c2 = c2
  k1 = k1
SPECIFICATION Spec
INVARIANTS TypeOK WireFormat FeedMatchesVenue PongPerPing DeliveredIsPrefix
PROPERTIES SnapshotExact ObeysSpec HandshakeCompletes FirstAttemptEnds
CHECK_DEADLOCK FALSE
