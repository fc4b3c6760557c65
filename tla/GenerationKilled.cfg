\* A validator that is killed at its time limit.
SPECIFICATION GenSpec
CONSTANTS
  Reqs = {r1}
  SignedIn = {u1}
  Prompts = {p1, p2}
  BadPrompts = {bad}
  Providers = {"template", "anthropic"}
  Seeds = {0}
  Components = {c1}
  Models = {m1}
  Checks = {"CTR-001", "MFG-004"}
  MaxRepairs = 3
  None = None
INVARIANT AdmittedMeansValidated
CHECK_DEADLOCK FALSE
