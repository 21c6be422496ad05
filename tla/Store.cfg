SPECIFICATION Spec
CONSTANTS
  Handlers = {h1, h2}
  Edits <- MCEdits
  Reloads = {r1}
  FileDocs <- MCFiles
  EtcdDocs <- MCEtcd
  NoFile = NoFile
  EnvLimit = 7
  MaxEdits = 2
  MaxWrites = 1
  MaxKeys = 1
SYMMETRY Interchangeable
INVARIANTS
  AckedEditsKept
  SyncedAtRest
  CleanIsValid
  RouterServesCommitted
CHECK_DEADLOCK FALSE
