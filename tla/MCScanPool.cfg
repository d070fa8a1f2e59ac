SPECIFICATION Spec
CONSTANTS
  w1 = w1
  w2 = w2
  w3 = w3
  t1 = t1
  t2 = t2
  t3 = t3
  s1 = s1
  s2 = s2
  Workers = {w1, w2, w3}
  Transcripts = {t1, t2, t3}
  Scanners = {s1, s2}
  Wanted <- ResumedPairs
  MaxQueue = 2
INVARIANTS TypeOK CountersExact NoEarlyLeave NoPairLostOrDoubled QueueBounded
PROPERTIES Terminates ImplementsStrategy
