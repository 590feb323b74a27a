\* One request at a time, every operation of the hub.
CONSTANTS
  ann = ann
  bob = bob
  annPw = annPw
  bobPw = bobPw
  bobKey = bobKey
  bobCodes = bobCodes
  tab = tab
  handle = handle
  default = default
  NULL = NULL
  Request = {r1, r2, r3}
  Seed <- MCSeed
  DefaultPassword = default
  Population <- Either
  Emails = {ann, bob, handle}
  Traffic = {"setup", "rotate", "enable", "regenerate", "disable", "login", "recovery",
             "refresh", "logout", "logoutAll", "changeForced", "changeOwn",
             "invite", "updateProfile", "setAccessLevel", "toggleStatus",
             "resetPassword", "resetTotp", "setTotpRequired", "remove"}
  Overlap = FALSE
  Crashes = FALSE
  CodeCount = 1
  Grace = 2
  RefreshLife = 2
  MaxClock = 2
SYMMETRY Requests
SPECIFICATION Spec
INVARIANTS
  SomeoneAdministers NoSessionBeforePasswordChange SessionsMatchPassword
  PairingConfirmed OneWholeSet
PROPERTY CodesOnce
