CONSTANTS
  NoExpr = NoExpr
  Panic = Panic
  NotRun = NotRun
  Norm <- MCNorm
SPECIFICATION Spec
INVARIANT EvaluatorMatchesSpec
\* One call of IsMatch returns and the harness stops.
CHECK_DEADLOCK FALSE
