SPECIFICATION FairSpec
CONSTANTS
  c1 = c1  c2 = c2  p1 = p1  p2 = p2  vendor = vendor  other = other  chapter = chapter
  Jobs = {1, 2}
  Consumers = {c1, c2}
  Processes = {p1}
  Providers = {vendor, other}
  Chapters = {}
  Revisions = {r1, r2}
  NoChapter = NoChapter
  NoProcess = NoProcess
  DeadProcess = DeadProcess
  Gated = {1}
  MaxAttempts = 2
  ScanLimit = 1
  RetryBound = 0
  MaxFaults = 0
  Service <- TwoTTSJobs
  Provider <- OwnVendor
  Chapter <- TwoWithoutChapter
  ConsumerOf <- TwoTTSConsumers
  ProcessOf <- OneProcess
  ServiceCapacity <- ServiceCapacity1
  ProviderCapacity <- VendorCapacity1
INVARIANTS OpenAttemptIsLive WithinCapacity
PROPERTIES SubmittedJobSettles
