\* Everything account holders do, overlapping, with workers that may die.
CONSTANTS
  ann = ann
  annPw = annPw
  annKey = annKey
  annCodes = annCodes
  tab = tab
  handle = handle
  default = default
  NULL = NULL
  Request = {r1, r2, r3}
  Seed <- MCSeed
  DefaultPassword = default
  Population <- PendingOrEnrolled
  Emails = {ann}
  Traffic = {"setup", "rotate", "enable", "disable", "login", "recovery",
             "refresh", "logout", "changeOwn"}
  Overlap = TRUE
  Crashes = TRUE
  CodeCount = 1
  Grace = 1
  RefreshLife = 1
  MaxClock = 3
SYMMETRY Requests
SPECIFICATION AuthSpec
INVARIANTS TypeOK WatermarkCovers RevokedStaysRevoked
PROPERTIES CodeAcceptedOnce CodesOnce
