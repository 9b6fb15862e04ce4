\* An app and a browser with tabs; requests of one account overlap and fail.
SPECIFICATION Spec
CONSTANTS
  Apps = {app}
  Browsers = {browser}
  Requests = {r1, r2}
  LockAfter = 2
  MaxActs = 5
  MaxChanges = 2
INVARIANTS TypeOK OneActivePerFamily SignOutReachesAll AppsKeepTheirSession NothingPersonalRemains EveryChangeNotified
PROPERTIES LeavingIsFinal
CHECK_DEADLOCK FALSE
