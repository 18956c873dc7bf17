SPECIFICATION MCSpec
CONSTANTS
  ann = ann
  w1 = w1
  r1 = r1
  People = {ann, bob}
  Ops = {o1}
  Events = {e1}
  Workers = {w1, w2}
  Administrators = {root, ops}
  Recoveries = {r1, r2}
  References = {x1}
  CycleAttempts = 1
  MaxRetries = 1
  MaxGeneration = 2
  None = None
INVARIANTS
  TypeOK
  AppointmentIsIntended
  JobsAreAccountable
PROPERTIES
  AppointsOnce
  WorkIsNeverForgotten
CHECK_DEADLOCK FALSE
