SPECIFICATION Spec
CONSTANT
  MaxCrashes = 3
INVARIANTS
  TypeOK
  ServesItsSchema
  AccountsSurvive
  OnlyCrashesBreak
