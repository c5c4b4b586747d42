SPECIFICATION Spec
CONSTANTS
  Messages = {m1, m2, m3}
  PostersOutlive = FALSE
PROPERTY WorkerStops
CHECK_DEADLOCK FALSE
