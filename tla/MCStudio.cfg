\* Courses and templates, the observability pipeline.
SPECIFICATION Spec
CONSTANTS
  Nil = Nil
  u1 = u1
  u2 = u2
  crs = crs
  r1 = r1
  tp1 = tp1
  a1 = a1
INVARIANTS CoursesSafe TelemetrySafe
CHECK_DEADLOCK FALSE
