SPECIFICATION FairSpec
CONSTANTS
  Transfer = {t1}
  Negotiation = {n1}
  Req = {r1}
  NoId = NoId
  MaxIds = 1
  MaxFaults = 2
  User = {u1, u2}
  Asset = {a1, a2}
  Policy = {q1}
  Nothing = Nothing
  MaxJobs = 3
  MaxMishaps = 1
INVARIANTS
  RecordsInv OffersInv
PROPERTIES
  SuccessStays 
   SecretsKept ExposedEventually
CHECK_DEADLOCK FALSE
