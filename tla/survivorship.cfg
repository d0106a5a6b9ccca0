CONSTANTS
  long = long
  short = short
  blank = blank
  null = null
  primary = primary
  second = second
  third = third
  None = None
  Ulp = 4
  Epoch = 10
  Null = null
  Blank = {blank, null}
  Length <- MCLength
  Ids = {primary, second, third}
  Inputs <- MCInputs
SPECIFICATION Spec
INVARIANTS BestSurvives StrategyHonoured ConfidenceIsMargin RulesAccounted
CHECK_DEADLOCK FALSE
