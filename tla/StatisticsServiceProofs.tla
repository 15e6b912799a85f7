------------------------- MODULE StatisticsServiceProofs -------------------------
(***************************************************************************)
(* Proofs, for any number of threads, accounts and items, that save uses   *)
(* the cache as ExchangeRates allows, and of the properties of             *)
(* StatisticsServiceProperties.  What ExchangeRatesProofs shows of the     *)
(* cache on a quiet day (IInv) holds here too, and the rest rests on it.   *)
(***************************************************************************)
EXTENDS StatisticsServiceProperties, ExchangeRatesProofs

Busy == Requesting \cup Reading

\* A thread calls getCurrentRates only from save, for a conversion that is left.
BusyInSave == \A th \in Threads : pc[th] \in Busy => job[th].open /\ job[th].left > 0

SavesType == TypeOK /\ SavesTypeOK /\ BusyInSave

\* A save of the day has converted with that day's rates, in calls of that day.
JobOfTheDay(th) ==
  job[th].open /\ job[th].date = "today" =>
    /\ job[th].metrics.amounts \cup job[th].metrics.rates \subseteq {"today"}
    /\ pc[th] \in Busy => began[th] = "today"

PointsSound == PointOfTheDay /\ \A th \in Threads : JobOfTheDay(th)

\* Where a missing rate is met, a request of the day has failed.
MissingSound ==
  /\ Current /\ container.rates = "missing" => failed
  /\ \A th \in Threads :
       /\ pc[th] = "store" /\ hand[th].rates = "missing" => failed
       /\ pc[th] = "rub" /\ began[th] = "today" /\ eur[th] = "missing" => failed
       /\ pc[th] = "failed" /\ began[th] = "today" => failed

SavesInv == IInv /\ SavesType /\ (quiet => PointsSound /\ MissingSound)

--------------------------------------------------------------------------------

\* Whatever save does, the cache and its threads do what ExchangeRates says.
LEMMA SavesStepMaps == [SavesNext]_savesVars => [Next]_vars
  BY DEF SavesNext, savesVars, Save, Call, Waiting, RequestFails, Return, StorePoint,
         PointNotStored, ProviderTurns, NextDay, Next, CallStep

\* The composition implements the cache that is checked alone: save adds no
\* behaviour to it, so that all that is proved of ExchangeRates holds of it here.
THEOREM SavesUseTheCache == SavesSpec => Spec
<1>1. SavesInit => Init
  BY DEF SavesInit
<1> QED
  BY <1>1, SavesStepMaps, PTL DEF SavesSpec, Spec

LEMMA OlderJobType ==
  ASSUME NEW j \in Job \cup {NoJob}
  PROVE  /\ OlderJob(j) \in Job \cup {NoJob}
         /\ OlderJob(j).open = j.open
         /\ OlderJob(j).open => OlderJob(j).date = "earlier" /\ OlderJob(j).left = j.left
<1>1. CASE j \in Job
  <2>1. OlderDays(j.metrics.amounts) \subseteq Days /\ OlderDays(j.metrics.rates) \subseteq Days
    BY DEF OlderDays, Days
  <2> QED
    BY <1>1, <2>1 DEF OlderJob, Job, Metrics, Days
<1>2. CASE j = NoJob
  BY <1>2 DEF OlderJob, NoJob
<1> QED
  BY <1>1, <1>2

\* A conversion adds days of rates that were read.
LEMMA AddDays ==
  ASSUME NEW m \in Metrics, NEW left, NEW e \in Days, NEW r \in Days,
         NEW n \in Add(m, left, e, r)
  PROVE  /\ n \in Metrics
         /\ \A d \in n.amounts \cup n.rates : d \in m.amounts \cup m.rates \cup {e, r}
<1>1. CASE left = 1
  BY <1>1 DEF Add, Metrics
<1>2. CASE left # 1
  <2>1. PICK days \in Ratios(e, r) : n = [m EXCEPT !.amounts = @ \cup days]
    BY <1>2 DEF Add
  <2>2. days \subseteq {e, r}
    BY DEF Ratios
  <2> QED
    BY <2>1, <2>2 DEF Metrics
<1> QED
  BY <1>1, <1>2

\* What Return reads, where it does not fail.
LEMMA ReturnReads ==
  ASSUME TypeOK, NEW th \in Threads, ReadRUB(th), pc'[th] # "failed"
  PROVE  eur[th] \in Days /\ rub'[th] \in Days /\ pc'[th] = "returned"
  BY DEF TypeOK, ReadRUB, Container, Null, Days, Requesting, Reading, Ended

LEMMA SavesInitInv == SavesInit => SavesInv
<1> SUFFICES ASSUME SavesInit PROVE SavesInv
  OBVIOUS
<1>1. IInv
  BY InitIInv DEF SavesInit
<1>2. TypeOK
  BY <1>1 DEF IInv
<1>3. SavesTypeOK
  BY <1>2 DEF SavesInit, SavesTypeOK, Metrics, NoMetrics, NoJob
<1>4. BusyInSave /\ \A th \in Threads : JobOfTheDay(th)
  BY DEF SavesInit, Init, BusyInSave, Busy, Requesting, Reading, JobOfTheDay, NoJob
<1>5. PointOfTheDay
  BY DEF SavesInit, PointOfTheDay, NoMetrics
<1>6. MissingSound
  BY DEF SavesInit, Init, MissingSound, Current, Null
<1> QED
  BY <1>1, <1>2, <1>3, <1>4, <1>5, <1>6 DEF SavesInv, SavesType, PointsSound

LEMMA JobFields ==
  ASSUME NEW j \in Job
  PROVE  /\ j.open /\ j.account \in Accounts /\ j.date \in Days /\ j.metrics \in Metrics
         /\ j.left \in 0 .. MaxItems + 2
  BY DEF Job

LEMMA SavesNextType ==
  ASSUME SavesType, TypeOK', [SavesNext]_savesVars
  PROVE  SavesType'
<1> USE BoundAssumption DEF Busy, Requesting, Reading, Ended
<1>0. /\ job \in [Threads -> Job \cup {NoJob}]
      /\ points \in [Accounts -> Metrics]
      /\ failed \in BOOLEAN
      /\ pc \in [Threads -> Requesting \cup Reading \cup Ended \cup {"idle"}]
  BY DEF SavesType, SavesTypeOK, TypeOK
<1> DEFINE Conclusion == /\ job' \in [Threads -> Job \cup {NoJob}]
                         /\ points' \in [Accounts -> Metrics]
                         /\ failed' \in BOOLEAN
                         /\ BusyInSave'
<1>1. ASSUME NEW th \in Threads, Save(th) PROVE Conclusion
  <2>1. PICK a \in Accounts, items \in 0 .. MaxItems :
          job' = [job EXCEPT ![th] = [open |-> TRUE, account |-> a, date |-> "today",
                                      left |-> items + 2, metrics |-> NoMetrics]]
    BY <1>1 DEF Save
  <2>2. items + 2 \in 0 .. MaxItems + 2 /\ items + 2 > 0
    OBVIOUS
  <2>3. job'[th] \in Job /\ job'[th].open /\ job'[th].left > 0
    BY <1>0, <2>1, <2>2 DEF Job, Metrics, NoMetrics, Days
  <2> QED
    BY <1>0, <1>1, <2>1, <2>3 DEF Save, vars, BusyInSave, SavesType
<1>2. ASSUME NEW th \in Threads, Call(th) PROVE Conclusion
  BY <1>0, <1>2 DEF Call, Begin, BusyInSave, SavesType
<1>3. ASSUME NEW th \in Threads, Waiting(th) PROVE Conclusion
  BY <1>0, <1>3 DEF Waiting, Answer, Store, ReadEUR, BusyInSave, SavesType
<1>4. ASSUME NEW th \in Threads, RequestFails(th) PROVE Conclusion
  BY <1>0, <1>4 DEF RequestFails, Fallback, BusyInSave, SavesType
<1>5. ASSUME NEW th \in Threads, Return(th) PROVE Conclusion
  <2>1. ReadRUB(th) /\ pc[th] = "rub" /\ UNCHANGED <<points, failed>>
    BY <1>5 DEF Return, ReadRUB
  <2>2. job[th] \in Job /\ job[th].left > 0
    BY <1>0, <2>1 DEF SavesType, BusyInSave, NoJob
  <2>3. job' \in [Threads -> Job \cup {NoJob}] /\ \A o \in Threads \ {th} : job'[o] = job[o]
    <3>1. CASE pc'[th] = "failed"
      BY <1>0, <1>5, <3>1 DEF Return
    <3>2. CASE pc'[th] # "failed"
      <4>1. PICK m \in Add(job[th].metrics, job[th].left, eur[th], rub'[th]) :
              job' = [job EXCEPT ![th].left = @ - 1, ![th].metrics = m]
        BY <1>5, <3>2 DEF Return
      <4>2. m \in Metrics
        <5>1. eur[th] \in Days /\ rub'[th] \in Days
          BY <2>1, <3>2, ReturnReads DEF SavesType
        <5>2. job[th].metrics \in Metrics
          BY <2>2, JobFields
        <5> QED
          BY <4>1, <5>1, <5>2, AddDays
      <4>3. job[th].left - 1 \in 0 .. MaxItems + 2
        BY <2>2, JobFields
      <4>4. job'[th] \in Job
        BY <1>0, <2>2, <4>1, <4>2, <4>3 DEF Job
      <4> QED
        BY <1>0, <4>1, <4>4
    <3> QED
      BY <3>1, <3>2
  <2>4. BusyInSave'
    BY <1>0, <2>1, <2>3 DEF ReadRUB, BusyInSave, SavesType
  <2> QED
    BY <1>0, <2>1, <2>3, <2>4
<1>6. ASSUME NEW th \in Threads, StorePoint(th) \/ PointNotStored(th) PROVE Conclusion
  <2>1. job[th].open /\ job[th].left = 0 /\ job' = [job EXCEPT ![th] = NoJob] /\ pc' = pc
    BY <1>6 DEF StorePoint, PointNotStored, vars
  <2>2. pc[th] \notin Busy
    BY <2>1 DEF SavesType, BusyInSave
  <2>3. points' \in [Accounts -> Metrics] /\ failed' = failed
    BY <1>0, <1>6, <2>1, JobFields DEF StorePoint, PointNotStored, NoJob
  <2> QED
    BY <1>0, <2>1, <2>2, <2>3 DEF BusyInSave, SavesType
<1>7. ASSUME ProviderTurns PROVE Conclusion
  BY <1>0, <1>7 DEF ProviderTurns, ProviderChanges, BusyInSave, SavesType
<1>8. ASSUME NextDay PROVE Conclusion
  <2>1. job' \in [Threads -> Job \cup {NoJob}]
    BY <1>0, <1>8, OlderJobType DEF NextDay
  <2>2. points' \in [Accounts -> Metrics] /\ failed' \in BOOLEAN
    BY <1>8 DEF NextDay, NoMetrics, Metrics
  <2>3. BusyInSave'
    <3> SUFFICES ASSUME NEW th \in Threads, pc'[th] \in Busy
                 PROVE  job'[th].open /\ job'[th].left > 0
      BY DEF BusyInSave
    <3>1. pc[th] \in Busy
      BY <1>0, <1>8 DEF NextDay, Midnight
    <3>2. job[th].open /\ job[th].left > 0
      BY <3>1 DEF SavesType, BusyInSave
    <3> QED
      BY <1>0, <1>8, <3>2, OlderJobType DEF NextDay
  <2> QED
    BY <2>1, <2>2, <2>3
<1>9. ASSUME UNCHANGED savesVars PROVE Conclusion
  BY <1>0, <1>9 DEF savesVars, vars, BusyInSave, SavesType
<1> QED
  BY <1>1, <1>2, <1>3, <1>4, <1>5, <1>6, <1>7, <1>8, <1>9
     DEF SavesNext, SavesType, SavesTypeOK

LEMMA SavesNextPoints ==
  ASSUME IInv, SavesType, quiet => PointsSound, IInv', [SavesNext]_savesVars, quiet'
  PROVE  PointsSound'
<1> USE DEF Busy, Requesting, Reading, Ended
<1>0. /\ job \in [Threads -> Job \cup {NoJob}]
      /\ points \in [Accounts -> Metrics]
      /\ pc \in [Threads -> Requesting \cup Reading \cup Ended \cup {"idle"}]
      /\ began \in [Threads -> Days]
      /\ eur \in [Threads -> Days \cup {"missing"}]
  BY DEF SavesType, SavesTypeOK, TypeOK
<1>a. quiet => /\ \A a \in Accounts : points[a].amounts \cup points[a].rates \subseteq {"today"}
               /\ \A th \in Threads : JobOfTheDay(th)
  BY DEF PointsSound, PointOfTheDay
<1> DEFINE Conclusion == PointsSound'
<1>1. ASSUME quiet, NEW th \in Threads, Save(th) PROVE Conclusion
  <2>1. PICK a \in Accounts, items \in 0 .. MaxItems :
          job' = [job EXCEPT ![th] = [open |-> TRUE, account |-> a, date |-> "today",
                                      left |-> items + 2, metrics |-> NoMetrics]]
    BY <1>1 DEF Save
  <2>2. pc[th] \notin Busy
    BY <1>1 DEF Save, SavesType, BusyInSave
  <2>3. job'[th].metrics = NoMetrics /\ \A o \in Threads \ {th} : job'[o] = job[o]
    BY <1>0, <2>1
  <2> QED
    BY <1>1, <1>a, <2>2, <2>3 DEF Save, vars, PointsSound, PointOfTheDay, JobOfTheDay, NoMetrics
<1>2. ASSUME quiet, NEW th \in Threads, Call(th) PROVE Conclusion
  BY <1>0, <1>2, <1>a DEF Call, Begin, PointsSound, PointOfTheDay, JobOfTheDay
<1>3. ASSUME quiet, NEW th \in Threads, Waiting(th) \/ RequestFails(th) PROVE Conclusion
  BY <1>0, <1>3, <1>a DEF Waiting, Answer, Store, ReadEUR, RequestFails, Fallback,
                          PointsSound, PointOfTheDay, JobOfTheDay
<1>4. ASSUME quiet, NEW th \in Threads, Return(th) PROVE Conclusion
  <2>1. /\ ReadRUB(th) /\ pc[th] = "rub" /\ pc'[th] \in Ended
        /\ points' = points /\ began' = began /\ eur' = eur
        /\ \A o \in Threads \ {th} : pc'[o] = pc[o] /\ job'[o] = job[o]
    BY <1>0, <1>4 DEF Return, ReadRUB
  <2>2. \A o \in Threads \ {th} : JobOfTheDay(o)'
    BY <1>4, <1>a, <2>1 DEF JobOfTheDay
  <2>3. JobOfTheDay(th)'
    <3>1. CASE pc'[th] = "failed"
      BY <1>0, <1>4, <3>1 DEF Return, JobOfTheDay, NoJob
    <3>2. CASE pc'[th] # "failed"
      <4>1. PICK m \in Add(job[th].metrics, job[th].left, eur[th], rub'[th]) :
              job' = [job EXCEPT ![th].left = @ - 1, ![th].metrics = m]
        BY <1>4, <3>2 DEF Return
      <4>2. job[th] \in Job /\ job[th].open
        BY <1>0, <2>1 DEF SavesType, BusyInSave, NoJob
      <4>3. job'[th].date = job[th].date /\ job'[th].metrics = m
        BY <1>0, <4>1, <4>2 DEF Job
      <4>4. eur[th] \in Days /\ rub'[th] \in Days /\ pc'[th] = "returned"
        BY <2>1, <3>2, ReturnReads DEF SavesType
      <4>5. \A d \in m.amounts \cup m.rates :
              d \in job[th].metrics.amounts \cup job[th].metrics.rates \cup {eur[th], rub'[th]}
        <5>1. job[th].metrics \in Metrics
          BY <4>2, JobFields
        <5>2. m \in Add(job[th].metrics, job[th].left, eur[th], rub'[th])
          BY <4>1
        <5> QED
          BY <4>4, <5>1, <5>2, AddDays
      <4>6. ASSUME job[th].date = "today" PROVE m.amounts \cup m.rates \subseteq {"today"}
        <5>1. /\ began[th] = "today"
              /\ job[th].metrics.amounts \cup job[th].metrics.rates \subseteq {"today"}
          BY <1>4, <1>a, <2>1, <4>2, <4>6 DEF JobOfTheDay
        <5>2. eur[th] = "today" /\ rub'[th] = "today"
          BY <2>1, <4>4, <5>1 DEF IInv, QuietDayIsCurrent
        <5> QED
          BY <4>5, <5>1, <5>2
      <4> QED
        BY <2>1, <4>3, <4>6 DEF JobOfTheDay
    <3> QED
      BY <3>1, <3>2
  <2> QED
    BY <1>4, <1>a, <2>1, <2>2, <2>3 DEF PointsSound, PointOfTheDay
<1>5. ASSUME quiet, NEW th \in Threads, StorePoint(th) \/ PointNotStored(th) PROVE Conclusion
  <2>1. /\ job[th].open /\ job' = [job EXCEPT ![th] = NoJob] /\ pc' = pc /\ began' = began
        /\ \/ points' = points
           \/ /\ job[th].date = "today"
              /\ points' = [points EXCEPT ![job[th].account] = job[th].metrics]
    BY <1>5 DEF StorePoint, PointNotStored, vars
  <2>2. \A o \in Threads : JobOfTheDay(o)'
    BY <1>0, <1>5, <1>a, <2>1 DEF JobOfTheDay, NoJob
  <2>3. \A a \in Accounts : points'[a].amounts \cup points'[a].rates \subseteq {"today"}
    BY <1>0, <1>5, <1>a, <2>1 DEF JobOfTheDay
  <2> QED
    BY <2>2, <2>3 DEF PointsSound, PointOfTheDay
<1>6. CASE quiet /\ (ProviderTurns \/ UNCHANGED savesVars)
  BY <1>6, <1>a DEF ProviderTurns, ProviderChanges, savesVars, vars, PointsSound,
                    PointOfTheDay, JobOfTheDay
<1>7. CASE NextDay
  <2>1. \A th \in Threads : JobOfTheDay(th)'
    BY <1>0, <1>7, OlderJobType DEF NextDay, JobOfTheDay
  <2>2. PointOfTheDay'
    BY <1>7 DEF NextDay, PointOfTheDay, NoMetrics
  <2> QED
    BY <2>1, <2>2 DEF PointsSound
<1>8. NextDay \/ quiet
  BY DEF SavesNext, savesVars, Save, Call, Begin, Waiting, Answer, Store, ReadEUR,
         RequestFails, Fallback, Return, ReadRUB, StorePoint, PointNotStored,
         ProviderTurns, ProviderChanges, vars
<1> QED
  BY <1>1, <1>2, <1>3, <1>4, <1>5, <1>6, <1>7, <1>8 DEF SavesNext

LEMMA SavesNextMissing ==
  ASSUME IInv, SavesType, quiet => MissingSound, IInv', [SavesNext]_savesVars, quiet'
  PROVE  MissingSound'
<1> USE DEF TypeOK, Requesting, Reading, Ended
<1>0. TypeOK /\ (quiet => RequestsSound /\ ReadsSound /\ MissingSound)
  BY DEF IInv, QuietDay
<1>1. ASSUME quiet, NEW th \in Threads, Call(th) PROVE MissingSound'
  BY <1>0, <1>1 DEF Call, Begin, MissingSound, Current
<1>2. ASSUME quiet, NEW th \in Threads, Answer(th), Waiting(th) PROVE MissingSound'
  BY <1>0, <1>2 DEF Waiting, Answer, MissingSound, Current, Days
<1>3. ASSUME quiet, NEW th \in Threads, Store(th), Waiting(th) PROVE MissingSound'
  BY <1>0, <1>3 DEF Waiting, Store, MissingSound, Current
<1>4. ASSUME quiet, NEW th \in Threads, ReadEUR(th), Waiting(th) PROVE MissingSound'
  BY <1>0, <1>4 DEF Waiting, ReadEUR, MissingSound, ReadsSound, Current
<1>5. ASSUME quiet, NEW th \in Threads, RequestFails(th) PROVE MissingSound'
  BY <1>0, <1>5 DEF RequestFails, Fallback, MissingSound, Current
<1>6. ASSUME quiet, NEW th \in Threads, Return(th) PROVE MissingSound'
  <2>1. ReadRUB(th) /\ failed' = failed
    BY <1>6 DEF Return
  <2> QED
    BY <1>0, <1>6, <2>1 DEF ReadRUB, MissingSound, ReadsSound, Current
<1>7. ASSUME quiet, \/ \E th \in Threads : Save(th) \/ StorePoint(th) \/ PointNotStored(th)
                    \/ ProviderTurns \/ UNCHANGED savesVars
      PROVE  MissingSound'
  <2>1. UNCHANGED <<container, pc, began, hand, eur, rub, failed>>
    BY <1>7 DEF Save, StorePoint, PointNotStored, ProviderTurns, ProviderChanges,
                savesVars, vars
  <2> QED
    BY <1>0, <1>7, <2>1 DEF MissingSound, Current
<1>8. CASE NextDay
  <2>1. ~Current' /\ \A th \in Threads : began'[th] = "earlier" /\ pc'[th] # "store"
    BY <1>0, <1>8, OlderType DEF NextDay, Midnight, Current
  <2> QED
    BY <2>1 DEF MissingSound
<1>9. NextDay \/ quiet
  BY DEF SavesNext, savesVars, Save, Call, Begin, Waiting, Answer, Store, ReadEUR,
         RequestFails, Fallback, Return, ReadRUB, StorePoint, PointNotStored,
         ProviderTurns, ProviderChanges, vars
<1> QED
  BY <1>1, <1>2, <1>3, <1>4, <1>5, <1>6, <1>7, <1>8, <1>9 DEF SavesNext, Waiting

LEMMA SavesInvariance == SavesSpec => []SavesInv
<1>1. ASSUME SavesInv, [SavesNext]_savesVars PROVE SavesInv'
  <2>1. IInv'
    BY <1>1, SavesStepMaps, NextIInv DEF SavesInv
  <2>2. SavesType'
    BY <1>1, <2>1, SavesNextType DEF SavesInv, IInv
  <2>3. quiet' => PointsSound' /\ MissingSound'
    BY <1>1, <2>1, SavesNextPoints, SavesNextMissing DEF SavesInv
  <2> QED
    BY <2>1, <2>2, <2>3 DEF SavesInv
<1> QED
  BY <1>1, SavesInitInv, PTL DEF SavesSpec

--------------------------------------------------------------------------------

\* save, the data points and the cache are well-typed: in particular a job never
\* makes more calls than its items, its savings and its record need.
THEOREM SavesTypeCorrect == SavesSpec => []SavesTypeOK
<1>1. SavesInv => SavesTypeOK
  BY DEF SavesInv, SavesType
<1> QED
  BY <1>1, SavesInvariance, PTL

\* For any number of threads and items, the data points of a quiet day are computed
\* with that day's rates alone.
THEOREM PointOfTheDayHolds == SavesSpec => []PointOfTheDay
<1>1. SavesInv => PointOfTheDay
  BY DEF SavesInv, PointsSound, PointOfTheDay
<1> QED
  BY <1>1, SavesInvariance, PTL

\* On a quiet day no save fails unless a request for the rates failed that day.
THEOREM FailureHasCauseHolds == SavesSpec => []FailureHasCause
<1>1. SavesInv => FailureHasCause
  BY DEF SavesInv, MissingSound, FailureHasCause
<1> QED
  BY <1>1, SavesInvariance, PTL
================================================================================
