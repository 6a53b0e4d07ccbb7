SPECIFICATION Spec
CONSTANTS
  Uploads = {u1, u2}
  Sweeps = {s1}
  MaxAttempts = 2
  MaxFaults = 2
PROPERTIES
  ActiveUploadsStay
  UploadsEnd
CHECK_DEADLOCK FALSE
