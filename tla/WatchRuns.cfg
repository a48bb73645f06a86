\* Two runs, two concurrent configuration calls, a crash.
SPECIFICATION Spec
CONSTANTS
  r1 = r1
  r2 = r2
  h1 = h1
  e1 = e1
  e2 = e2
  Hubs <- OneHub
  Editors <- TwoEditors
  Runs <- TwoRuns
  Revisions <- TwoRevisions
  Fields <- TwoFields
  FirstEnabled <- Created
  ReplayLimit = 1000
  MaxVersion = 2
  MaxCrashes = 1
INVARIANTS NoLostEdit EffectsFenced RecordedIsTrue
PROPERTY ClaimReleased
CHECK_DEADLOCK FALSE
