SPECIFICATION Spec
CONSTANTS
  NoRun = NoRun
  Gone = Gone
INVARIANTS
  
  VoiceTurnsAreSafe

  
CHECK_DEADLOCK FALSE
