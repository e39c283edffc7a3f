SPECIFICATION MCSpec
CONSTANTS
  RetryLimits = {0, 1, 2}
  MaxEdits = 3
  Guests = {g1, g2}
  MaxSecrets = 3
INVARIANTS
  KeysGoHome
  AttemptsAreSettled
  SettingsFollowTheFile
  
PROPERTIES
  CallIsAnswered
  
CHECK_DEADLOCK FALSE
