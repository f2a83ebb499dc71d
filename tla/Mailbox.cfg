SPECIFICATION FairSpec
CONSTANTS
  s1 = s1
  s2 = s2
  r1 = r1
  Senders = {s1, s2}
  Receivers = {r1}
  Capacity = 2
  BackpressureCount = 2
  PriorityQueue = TRUE
  MaxSends = 2
INVARIANTS
  TypeOK
  PermitConservation
  SizeAccounting
  HardBound
  NoLostWakeup
PROPERTIES
  PerSenderFifo
  Refines
  SendersProgress
  MailboxDrains
