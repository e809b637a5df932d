SPECIFICATION Spec
CONSTANTS
  u1 = u1
  u2 = u2
  g = g
  NrEntries = 4
  Users = {u1}
  GcWriters = {}
  MaxReq = 2
  MaxGc = 2
  MinWrite = 1
  Slack = 0
  SecPerWrite = 2
  Rates <- RatesAll
  WriteErrors = TRUE
  LineShortage = TRUE
  Removal = TRUE
INVARIANT IndInv
INVARIANT SyncInOrder
INVARIANT SyncedAreSent
INVARIANT CountersExact
