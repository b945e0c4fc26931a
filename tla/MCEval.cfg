INIT Init
NEXT Next
CONSTANTS
  Programs <- MCPrograms
  MaxHooks = 1
  MaxErrors = 1
INVARIANTS
  MeaningKept
  TailCalls
CHECK_DEADLOCK FALSE
