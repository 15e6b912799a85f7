SPECIFICATION Spec
CONSTANTS
  Names = {n1, demo}
  Seeded = {demo}
  Requests = {r1, r2}
  Saves = {s1, s2}
SYMMETRY ThreadSymmetry
INVARIANTS TypeOK AccountHasUser TakenNameRefused SerialUpdatesArrive
PROPERTIES CredentialsSurvive EditsSurvive LifecycleSpec
\* Every request runs once: the system comes to rest when all are answered.
CHECK_DEADLOCK FALSE
