SPECIFICATION FairSpec
CONSTANTS
  Servers = {s1, s2}
  Sessions = {a, b}
  Hashes = {1, 2, 3}
  Legacy = {1}
  Size <- MCSize
  Bytes <- MCBytes
  Limit = 3
INVARIANTS
  QuotaHolds
  ReservationKept
  StoredIsFetchable
PROPERTIES
  CapacityHonest
  ImplementsPromise
  PublicationEnds
