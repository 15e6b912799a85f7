SPECIFICATION Spec
CONSTANTS
  Names = {n1, demo}
  Seeded = {demo}
  Requests = {r1, r2}
  Saves = {s1, s2}
INVARIANTS TryingAgainHelps
CHECK_DEADLOCK FALSE
