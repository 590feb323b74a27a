\* Two deployments that overlap, two workers, and a call of the console.
CONSTANTS
  NULL = NULL
  seed = seed
  ops = ops
  Job = {j1, j2}
  Worker = {w1, w2}
  Account = {seed, ops}
  SeedEmail = seed
  Databases <- MCDatabases
  MaxDisturbances = 1
  Call = {c1}
  Tokens <- MCTokens
  CalledRoutes = {"grantCredits"}
  MaxAttempts = 2
SPECIFICATION PlatformSpec
INVARIANTS PlatformTypeOK DoneAsTold ConsoleMirrorsGuards MigrationsApply GreenMeansMigrated ServingOnTarget SomeoneIsAdmin
PROPERTIES LevelsKept GreenMeansServing
