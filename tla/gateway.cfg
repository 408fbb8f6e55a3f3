SPECIFICATION Spec
CONSTANTS
  Scopes = {"auth", "bid"}
  Keys = {k1, k2}
  Clients = {c1, c2}
  Rate <- MCRate
  Burst <- MCBurst
  Token = 2
  GcAfter = 1
  MaxTime = 2
  Forms <- MCForms
  ShortPasswords = {"short"}
  TokenTTL = 1
  MaxUsers = 2
  None = None
INVARIANTS
  TypeOK
  WithinBudget
  OneAccountPerAddress
  GuessesAreLimited
PROPERTIES
  PatientAdmitted
  BidsOnlyForSelf
CONSTRAINT SecondKeyEarly
SYMMETRY Symmetry
CHECK_DEADLOCK FALSE
