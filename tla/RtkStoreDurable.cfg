SPECIFICATION Spec
CONSTANTS
  Servers = {s1}
  Sessions = {a}
  Hashes = {1}
  Legacy = {}
  Size <- MCSize
  Bytes <- MCBytes
  Limit = 1
INVARIANT
  OwnedIsDurable
