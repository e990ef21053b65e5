SPECIFICATION Spec
CONSTANTS
  Commits <- MCCommits
  Uses <- MCUses
  Parent <- MCParent
  Migrations <- MCMigrations
  Allowed = {}
  MaxGcs = 3
  MaxVolumes = 2
  MaxCrashes = 2
CHECK_DEADLOCK FALSE
INVARIANTS
  ArchivedReads
  Recoverable
  SelfContained
  ArchiveAccepted
