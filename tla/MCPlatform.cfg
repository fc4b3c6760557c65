\* Registry and marketplace, access control, custody, release tooling, desktop panels, studio.
SPECIFICATION Spec
CONSTANTS
  None = None
  u1 = u1
  u2 = u2
  guest = guest
  curator = curator
  m1 = m1
  m2 = m2
  s1 = s1
  good = good
  other = other
  bad = bad
  p1 = p1
  l1 = l1
  q1 = q1
  i1 = i1
  h1 = h1
  h2 = h2
  crs = crs
  a1 = a1
  n1 = n1
  n2 = n2
  d1 = d1
  d2 = d2
  c1 = c1
  c2 = c2
  usb = usb
  p2 = p2
  x1 = x1
  bu = bu
  bv = bv
  bw = bw
INVARIANTS RegistrySafe AccessSafe CustodySafe ReleaseSafe DesktopSafe StudioSafe
PROPERTIES AnswersEntitled CaptureSteps
CHECK_DEADLOCK FALSE
