CONSTANTS
  NJobs = 3
  Roots = {r1, r2}
  Sources = {s1, s2}
  Agendas <- MCAgendas
  Attempts = 2
  MaxWorkers = 2
  None = None
SPECIFICATION Spec
SYMMETRY Symmetry
INVARIANTS TypeOK OnePublisher OwnsItsRun ManifestLast RecordIsBacked
           RecordMatchesCommit RecordReadsLocked ReleaseNamesItsFiles
PROPERTIES KeepsItsPromise
CHECK_DEADLOCK FALSE
