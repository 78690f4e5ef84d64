CONSTANTS
  d1 = d1
  d2 = d2
  i1 = i1
  i2 = i2
  None = None
  NoUser = NoUser
  Job = Job
  Inns = {i1}
  Data = {d1, d2}
  Users = {u1}
  Legacy = {d1}
  Clients = {c1, c2}
  Created <- MCCreated
  Hashes <- MCHashes
  Hash <- MCHash
  Card <- MCCard
CONSTRAINT JobRests
SYMMETRY Symmetry
SPECIFICATION Spec
INVARIANTS HashesMatchRaw
PROPERTIES BaselineMovesOnlyByReview OnlyAddRevives
