SPECIFICATION MethodSpec
CONSTANTS
  MaxHeld = 3
  MaxFaults = 3
INVARIANTS AnswerExact DebtNeverHidden FailsOnlyOnFaults SurfacesIndependent MethodsDisciplined
CHECK_DEADLOCK FALSE
