CONSTANTS
  s1 = s1
  s2 = s2
  s3 = s3
  Flows <- MCFlows
  Strangers <- MCStrangers
  Nobody = Nobody
  FirstPort = 1
  LastPort = 2
  TcpTtl = 1
  OtherTtl = 0
  Wrap = 64
  QueueLimit = 2
  MaxTime = 3
SYMMETRY SourcePorts
SPECIFICATION Spec
INVARIANTS TypeOK Mirror
PROPERTIES ImplementsTable DroppedOnlyWhenFull
