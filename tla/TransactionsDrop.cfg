SPECIFICATION Spec
CONSTANTS
  t1 = t1
  t2 = t2
  l1 = l1
  l2 = l2
  Txn = {t1, t2}
  Shared = shared
  Links = {l1, l2}
  ControlCap = 3
  Work <- WorkDef
  Plans <- DropPlans
INVARIANT AnswersBelong
CHECK_DEADLOCK FALSE
