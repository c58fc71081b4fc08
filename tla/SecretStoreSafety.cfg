SPECIFICATION ThemedSpec
CONSTANTS
  Rows <- MCRows
  Plaintexts <- MCPlaintexts
  Malformed <- MCMalformed
  KidOf <- MCKidOf
  Ivs <- MCIvs
  Bytes = {0, 255}
  KID_BYTES = 1
  IV_BYTES = 1
  TAG_BYTES = 1
  Nowhere = Nowhere
  MaxLength = 3
  a = a
  b = b
  x = x
  y = y
  c1 = c1
  c2 = c2
  NoValue = NoValue
  Key = {a, b}
  Value = {x, y}
  Client = {c1, c2}
  Inputs <- SafetyInputs
  MaxSecrets = 2
  MaxRev = 3
  MaxEnv = 2
SYMMETRY Slots
CHECK_DEADLOCK FALSE
INVARIANTS LiveIsLatest 
  ValuesOpenAsSealed
PROPERTIES GuardedWriteLosesNothing AuditDiffIsExact AnsweredRevIsSafe ImplementsVersionedStore
