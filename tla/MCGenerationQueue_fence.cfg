SPECIFICATION Spec
CONSTANTS
  c1 = c1  c2 = c2  p1 = p1  p2 = p2  vendor = vendor  other = other  chapter = chapter
  Jobs = {1}
  Consumers = {c1, c2}
  Processes = {p1, p2}
  Providers = {vendor}
  Chapters = {chapter}
  Revisions = {r1, r2}
  NoChapter = NoChapter
  NoProcess = NoProcess
  DeadProcess = DeadProcess
  Gated = {}
  MaxAttempts = 2
  ScanLimit = 100
  RetryBound = 2
  MaxFaults = 2
  Service <- OneAIJob
  Provider <- OneVendor
  Chapter <- OneChapter
  ConsumerOf <- TwoAIConsumers
  ProcessOf <- ApartProcesses
  ServiceCapacity <- ServiceCapacity1
  ProviderCapacity <- VendorCapacity1
INVARIANTS RunningHasItsAttempt SuccessIsOfLastAttempt
PROPERTIES CancelledNeverSucceeds ImplementsLifecycle
