\* One request at a time, every operation, every kind of account.
CONSTANTS
  ann = ann
  annPw = annPw
  annKey = annKey
  annCodes = annCodes
  tab = tab
  handle = handle
  default = default
  NULL = NULL
  Request = {r1, r2, r3}
  Seed <- MCSeed
  DefaultPassword = default
  Population <- EveryAccount
  Emails = {ann}
  Traffic = {"setup", "rotate", "enable", "regenerate", "disable", "login", "recovery",
             "refresh", "logout", "logoutAll", "changeForced", "changeOwn"}
  Overlap = FALSE
  Crashes = FALSE
  CodeCount = 2
  Grace = 2
  RefreshLife = 2
  MaxClock = 4
SYMMETRY Requests
SPECIFICATION AuthSpec
INVARIANTS
  SessionsMatchPassword DeliveredHandlesWork RecoveryCodeSpentOnce
  PairingConfirmed OneWholeSet
PROPERTIES SecondFactorFirst HandlesAreLedgered
