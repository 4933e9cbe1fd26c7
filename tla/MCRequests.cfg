SPECIFICATION Spec
CONSTANT NoSignal = NoSignal
INVARIANTS
  ServedOnce
  QueueMatchesSignals
  OneClaimant
  ListenersAccounted
PROPERTIES
  NothingTakenBack
  RequestsEnd
CHECK_DEADLOCK FALSE
