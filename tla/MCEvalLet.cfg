INIT Init
NEXT Next
CONSTANTS
  Programs <- MCPrograms
  MaxHooks = 1
  MaxErrors = 1
INVARIANTS
  LetMeaning
CHECK_DEADLOCK FALSE
