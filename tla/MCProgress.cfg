\* What must happen in the end: jobs, copies, services and panels.
SPECIFICATION Spec
CONSTANTS
  Nil = Nil
  j1 = j1
  w1 = w1
  w2 = w2
  u1 = u1
  b1 = b1
  n1 = n1
  k1 = k1
  c1 = c1
  usb = usb
  p1 = p1
  p2 = p2
  x1 = x1
  h1 = h1
  m1 = m1
  m2 = m2
  d1 = d1
  bu = bu
  bw = bw
  r1 = r1
  g1 = g1
  bad = bad
PROPERTIES JobsEnd CopiesExpire ServicesEnd PanelsSettle
CHECK_DEADLOCK FALSE
