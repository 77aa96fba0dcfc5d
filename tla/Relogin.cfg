SPECIFICATION PasswordsSafety
CONSTANTS
  PasswordInputs = {1, 2}
  Visits = {1, 2}
PROPERTY ReloginForChange
CHECK_DEADLOCK FALSE
