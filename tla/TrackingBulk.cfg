CONSTANTS
  d1 = d1
  d2 = d2
  i1 = i1
  i2 = i2
  None = None
  NoUser = NoUser
  Job = Job
  Inns = {i1, i2}
  Data = {d1, d2}
  Users = {u1}
  Legacy = {}
  Clients = {c1, c2}
  Hashes <- MCHashes
  Hash <- MCHash
  Created <- MCCreated
  Card <- MCSameCard
  Lists <- MCLists
CONSTRAINT Bounded
SYMMETRY Symmetry
SPECIFICATION ApiSpec
INVARIANTS ReportIsComplete DetailIsOnRecord
PROPERTIES ImplementsTracking ReportIsTrue
