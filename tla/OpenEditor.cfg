SPECIFICATION Spec
CONSTANTS
  Old = Old
  Ahead = Ahead
  Typed = {t1}
  Peers = {p1}
  Starts = {"agreed", "new", "ahead", "edited"}
  Budgets <- MCBudgets
  MaxLength = 4
  NoText = NoText
  None = None
INVARIANTS InStepWhenTracking NothingLost ViewsFollowTheWorkspace
PROPERTIES EditorFollows
CONSTRAINT OutsideWindows
CHECK_DEADLOCK FALSE
