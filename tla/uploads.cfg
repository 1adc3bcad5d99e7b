CONSTANTS
  t1 = t1  t2 = t2  price = price  v0 = v0  v1 = v1  v2 = v2
  catalog = catalog  d1 = d1  d2 = d2  d3 = d3  d4 = d4  d5 = d5
  h0 = h0  csv = csv  wrong = wrong  note = note  secret = secret  long = long
  NoValue = NoValue  NoHash = NoHash  NoKey = NoKey
  Threads = {t1, t2}
  Keys <- MCKeys  Protected <- MCKeys  Values <- MCValues
  Documents <- MCDocuments  Historical = {}
  Hashes <- MCHashes  DocumentOf <- MCDocumentOf
  Indexed <- MCIndexed  Seed <- MCSeed
  Proposals = {}
  Uploads <- MCUploads  Content <- MCContent
  MaxFactUpdates = 2  Newest = 1  MaxAttempts = 3
SPECIFICATION UploadsSpec
INVARIANTS UploadsTypeOK DuplicatesAreFarApart StoredFilesMatch ProposedIsComplete
CHECK_DEADLOCK FALSE
SYMMETRY Alike
CONSTRAINT OneReview
