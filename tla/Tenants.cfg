SPECIFICATION Spec
CONSTANTS
  t1 = t1
  t2 = t2
  usr = usr
  pw1 = pw1
  pw2 = pw2
  Nowhere = Nowhere
  Unusable = Unusable
  Req = {r1, r2}
  Tenant <- MCTenant
  User <- MCUser
  Home <- MCHome
  Password <- MCPassword
  Days <- MCDays
  MaxFailures = 2
  Lockout = 1
  MaxVersion = 1
  MaxId = 2
  MaxTokens = 2
  MaxTime = 2
  b1 = b1
  b2 = b2
  b3 = b3
  Bpn <- MCBpn
  Conn = {c1, c2, c3}
  None = None
  MaxConns = 1
  o1 = o1
  o2 = o2
  o3 = o3
  Operand <- MCOperand
  OperandKind <- MCOperandKind
  Suggested <- MCSuggested
  Foreign <- MCForeign
  Term = {1, 2, 3}
  Word = {3}
  Unset = Unset
  MaxImported = 2
  MaxRows = 2
  MaxEdits = 2
  MaxOpens = 2
SYMMETRY Symmetry
INVARIANTS
  AccountsInv GuessesBounded RegistryInv PolicyInv
PROPERTIES RevokedForGood PurgedAfterRetention
CHECK_DEADLOCK FALSE
