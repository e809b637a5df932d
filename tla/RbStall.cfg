SPECIFICATION FairSpec
CONSTANTS
  u1 = u1
  u2 = u2
  g = g
  NrEntries = 4
  Users = {u1}
  GcWriters = {}
  MaxReq = 2
  MaxGc = 2
  MinWrite = 1
  Slack = 1
  SecPerWrite = 2
  Rates <- RatesHalf
  WriteErrors = FALSE
  LineShortage = FALSE
  Removal = FALSE
PROPERTY UserNotStalled
CHECK_DEADLOCK FALSE
