SPECIFICATION Spec
CONSTANTS
  Configured = {}
  Address = {"lan"}
  LinkLocal = {}
  Supplied = FALSE
  Life = 6
  Backdate = 1
  Interval = 2
  MaxWindow = 3
  MaxTime = 5
  MaxKey = 4
  MaxFault = 2
INVARIANT PresentedUsable Fresh
PROPERTY AuthorityKept Recovers
CHECK_DEADLOCK FALSE
