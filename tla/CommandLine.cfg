SPECIFICATION Spec
CONSTANTS
  MaxRepair = 2
  Compiles = 2
  Sessions = {s1, s2}
  MaxChanges = 6
  Runs = 2
  Changes = 2
  Rounds = 2
  Rows = 3
  ChunkSize = 2
  MaxRuns = 3
  MaxEdits = 2
  Concurrency = 2
  BatchSize = 2
  RetryLimit = 1
  Warmups = 1
  Candidates = {c1, c2}
  Unknown = Unknown
  Nodes = {n1, n2}
  Statuses = {"executing", "failed", "waiting"}
  MaxEvents = 2
  ShownRows = 1
  ShownObjects = 1
  None = None
CHECK_DEADLOCK FALSE
INVARIANTS
  LintedIsSound
  TaskIsAnswerable
  EvidenceAnswersRequests
  ReportIsSound
  SearchIsSound
  GraphShowsEngine
  RecallIsTold
PROPERTY FreshMeansCurrent
