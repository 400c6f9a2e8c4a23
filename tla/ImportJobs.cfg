SPECIFICATION FairSpec
CONSTANTS
  Jobs = {"import_1", "import_2", "import_3"}
  Uploads <- MCUploads
  Seeded <- MCSeeded
  MaxEntries = 3
  MaxImportWarnings = 2
  Concurrency = 1
  MaxFiles = 3
  MaxTotalBytes = 2
  MaxQueuedJobs = 2
  MaxQueuedBytes = 2
  MaxRetainedJobs = 1
  MaxRetainedRows = 4
  JobTTL = 0
  MaxTime = 2
  MaxServes = 1
INVARIANTS TypeOK QueueExact ReportTruthful StaleUntilTold
PROPERTY JobsFinish
