SPECIFICATION FairSpec
CONSTANTS
  Names = {n1, demo}
  Seeded = {demo}
  Requests = {r1, r2}
  Saves = {s1}
PROPERTIES EveryRequestAnswered
\* Every request runs once: the system comes to rest when all are answered.
CHECK_DEADLOCK FALSE
