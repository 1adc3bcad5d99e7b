CONSTANTS
  t1 = t1  t2 = t2  price = price  color = color
  v0 = v0  v1 = v1  v2 = v2
  catalog = catalog  letter = letter  h0 = h0  h1 = h1
  p1 = p1  p2 = p2  p3 = p3  s1 = s1  s2 = s2  quote = quote  page = page
  NoQuestion = NoQuestion  NoValue = NoValue  NoHash = NoHash
  Threads = {t1, t2}
  Keys <- MCKeys  Protected <- MCProtected  Values <- MCValues
  Documents <- MCDocuments  Historical = {}
  Hashes <- MCHashes  DocumentOf <- MCDocumentOf
  Indexed <- MCIndexed  Seed <- MCSeed
  Catalog = catalog  Managed = {}  Stated <- MCStated  Lists <- MCLists
  Proposals <- MCProposals
  Products <- MCProducts  SkuOf <- MCSkuOf  Fields <- MCFields
  UsualFields <- MCFields  HighRisk = {"price"}  Unverified = {}
  ProductOf <- MCProductOf  FieldOf <- MCFieldOf
  Passages <- MCPassages  PassageAt <- MCPassageAt
  Asked <- MCAsked  Diversity = TRUE
SPECIFICATION QuestionsSpec
PROPERTIES CitedFactsAreInForce ConflictsAreReal CoreAnswersAreInForce
CONSTRAINT Focus
SYMMETRY Alike
