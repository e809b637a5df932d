SPECIFICATION Spec
CONSTANTS
  u1 = u1
  u2 = u2
  g = g
  NrEntries = 4
  Users = {u1}
  GcWriters = {g}
  MaxReq = 2
  MaxGc = 2
  MinWrite = 1
  Slack = 1
  SecPerWrite = 1
  Rates <- RatesGc
  WriteErrors = FALSE
  LineShortage = FALSE
  Removal = FALSE
PROPERTY ImplementsBuffer
INVARIANT TypeOK
INVARIANT PtrOrder
INVARIANT ClaimsExclusive
INVARIANT CountersExact
