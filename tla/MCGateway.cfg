SPECIFICATION FairSpec
CONSTANTS
  c1 = c1
  c2 = c2
  Calls = {c1, c2}
  Requests <- MCRequests
  TierOf <- MCTierOf
  EstimateOf <- MCEstimateOf
  Uploaded = {"upload"}
  Tiers = {"fast", "reason", "local"}
  LocalTier = "local"
  Providers = {"deepseek", "gemini", "ollama"}
  Chain <- MCChain
  Usages = {2}
  RetryAttempts = 2
  PerRequestCeiling = 3
  PerDayCeiling = 3
  MaxDay = 2
  MaxAborts = 1
INVARIANTS
  TypeOK LedgerExact DayCeilingHolds SemaphoreExact AttemptsBounded ExhaustedMeansTried
PROPERTIES ImplementsLedger EveryCallEnds
