SPECIFICATION Spec
CONSTANTS
  Modulus = 3
  MaxOpened = 3
  Events = {e1, e2}
  Capacity = 2
  MaxList = 3
  Plain = {a}
  Notifiers = {n}
  MaxCount = 3
INVARIANTS
  TypeOK
  DanglingAfterFailedClose
  PopFindsEvent
  NoneStranded
PROPERTIES
  FailedPreparationLeavesNothing
  DestroyedHasNoEvents
\* A notifier stops when a node has been taken from an empty list.
CHECK_DEADLOCK FALSE
