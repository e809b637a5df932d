SPECIFICATION FairSpec
CONSTANTS
  u1 = u1
  u2 = u2
  g = g
  NrEntries = 4
  Users = {u1, u2}
  GcWriters = {}
  MaxReq = 1
  MaxGc = 2
  MinWrite = 1
  Slack = 1
  SecPerWrite = 1
  Rates <- RatesFree
  WriteErrors = FALSE
  LineShortage = FALSE
  Removal = FALSE
PROPERTY RoomReturns
PROPERTY BusyWaitEnds
PROPERTY EarlyDrained
