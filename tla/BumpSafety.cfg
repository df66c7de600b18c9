SPECIFICATION BumpSpec
CONSTANTS
  MaxTag = 4
  Composes = {demo, spring}
  GoModules <- MCGoModules
  Examples = {"ent/example", "pgx/example"}
  Adapters = {a1, a2}
  Ledgers <- MCLedgers
  MaxBumps = 2
INVARIANT BumpTypeOK
INVARIANT PinsAscend
INVARIANT UninterruptedBumpIsValid
PROPERTY CoverageKept
