CONSTANTS
  t1 = t1  price = price  battery = battery
  v0 = v0  v1 = v1  v2 = v2
  catalog = catalog  upload = upload  archive = archive
  h0 = h0  h1 = h1  h2 = h2  h3 = h3  h4 = h4
  NoValue = NoValue  NoHash = NoHash
  Threads = {t1}
  Keys <- MCKeys  Protected <- MCProtected  Values <- MCValues
  Documents <- MCDocuments  Historical <- MCHistorical
  Hashes <- MCHashes  DocumentOf <- MCDocumentOf
  Indexed <- MCIndexed  Seed <- MCSeed
  Catalog = catalog  Managed <- MCManaged  Stated <- MCStated  Lists <- MCLists
  Proposals <- MCProposals
SPECIFICATION GovernedSpec
INVARIANT ApprovedChangesAreInForce
