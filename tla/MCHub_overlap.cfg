\* Administrators and account holders at once, with workers that may die.
CONSTANTS
  ann = ann
  bob = bob
  annPw = annPw
  bobPw = bobPw
  bobKey = bobKey
  bobCodes = bobCodes
  tab = tab
  handle = handle
  default = default
  NULL = NULL
  Request = {r1, r2}
  Seed <- MCSeed
  DefaultPassword = default
  Population <- Either
  Emails = {ann, bob, handle}
  Traffic = {"setup", "rotate", "enable", "regenerate", "disable", "login", "recovery",
             "refresh", "logout", "logoutAll", "changeForced", "changeOwn",
             "invite", "updateProfile", "setAccessLevel", "toggleStatus",
             "resetPassword", "resetTotp", "setTotpRequired", "remove"}
  Overlap = TRUE
  Crashes = TRUE
  CodeCount = 1
  Grace = 2
  RefreshLife = 2
  MaxClock = 2
SPECIFICATION FairSpec
INVARIANTS TypeOK RevokedStaysRevoked
PROPERTY RequestsAnswered
