SPECIFICATION FairSpec
CONSTANTS
  Admin = admin
  Members = {ann}
  Requests = {r1, r2}
  NoOne = noone
  Timeout = 1
  MaxTime = 2
  MaxSess = 4
  MaxLogs = 2
  MaxFaults = 1
INVARIANTS
  NobodyActsUnflagged
  SessionsMatchTheirLog
  LiveSessionsAreOnRecord
  DurationsAgree
PROPERTIES
  AbandonedLogsEnd
