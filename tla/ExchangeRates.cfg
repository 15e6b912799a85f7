SPECIFICATION FairSpec
CONSTANTS
  Threads = {t1, t2}
INVARIANTS TypeOK QuietDayIsCurrent
PROPERTIES AskedOnceADay RatesRecover
