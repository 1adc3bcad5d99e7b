CONSTANTS
  t1 = t1  t2 = t2  price = price  battery = battery
  v0 = v0  v1 = v1  v2 = v2
  catalog = catalog  updates = updates  archive = archive  draft = draft
  h0 = h0  h1 = h1  h2 = h2
  NoValue = NoValue  NoHash = NoHash
  Threads = {t1, t2}
  Keys <- MCKeys  Protected <- MCProtected  Values <- MCValues
  Documents <- MCDocuments  Historical <- MCHistorical
  Hashes <- MCHashes  DocumentOf <- MCDocumentOf
  Indexed <- MCIndexed  Seed <- MCSeed
  Proposals <- RivalProposals
SPECIFICATION SpecOnePerField
INVARIANTS
  OneCurrentFact DecisionsAreInForce MasterShowsCurrent AuditTrailIsAWalk
PROPERTY ImplementsRegister
