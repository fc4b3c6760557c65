\* Storage, copies, recorder archives, generation, admission, job outputs and cost reconciliation.
SPECIFICATION Spec
CONSTANTS
  None = None
  c1 = c1
  c2 = c2
  kx = kx
  k1 = k1
  k2 = k2
  k3 = k3
  bk1 = bk1
  bk2 = bk2
  ru1 = ru1
  bd1 = bd1
  rq1 = rq1
  rq2 = rq2
  kc1 = kc1
  kc2 = kc2
  r1 = r1
  r2 = r2
  m1 = m1
  m2 = m2
  f1 = f1
  f2 = f2
  h1 = h1
  h2 = h2
  km1 = km1
  km2 = km2
  kf1 = kf1
  kf2 = kf2
  g1 = g1
  p1 = p1
  p2 = p2
  a1 = a1
  a2 = a2
  u1 = u1
  u2 = u2
  i1 = i1
  bad = bad
  x1 = x1
INVARIANTS StorageSafe GenerationSafe JobsSafe
PROPERTIES StepsSafe
CHECK_DEADLOCK FALSE
