SPECIFICATION FairSpec
CONSTANTS
  Models = {m1, m2}
  Rates = {v1}
  NoRate = NoRate
  Admins = {a1, a2}
  Reloader = Reloader
  Nobody = Nobody
INVARIANTS
  SnapshotTracksTable
  AuditNotStale
PROPERTIES
  SnapshotHeals
