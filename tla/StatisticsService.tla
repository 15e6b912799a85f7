---------------------------- MODULE StatisticsService ----------------------------
(***************************************************************************)
(* statistics-service: save, which turns an account into the data point of *)
(* the day.  It takes the date first, then asks ExchangeRates for the      *)
(* rates anew for every item, for the savings, and for the rates that it   *)
(* stores with them, while other threads do the same and midnight passes.  *)
(*                                                                         *)
(* Of an amount it keeps the day of the rate that converted it.  As in     *)
(* ExchangeRates, a day is "today" or "earlier".                           *)
(***************************************************************************)
EXTENDS ExchangeRates, Naturals

CONSTANTS
  Accounts,  \* names of accounts
  MaxItems   \* bound: items of an account

ASSUME BoundAssumption == MaxItems \in Nat

VARIABLES
  job,     \* each thread's call of save
  points,  \* the data points dated today
  failed   \* history: a request for the rates failed today

savesVars == <<vars, job, points, failed>>

\* The days of the rates that converted the amounts, and of those stored with them.
Metrics == [amounts : SUBSET Days, rates : SUBSET Days]
NoMetrics == [amounts |-> {}, rates |-> {}]

\* A call of save: the date in its DataPointId, and the calls of getCurrentRates that it
\* still has to make.
Job == [open : {TRUE}, account : Accounts, date : Days, left : 0 .. MaxItems + 2,
        metrics : Metrics]
NoJob == [open |-> FALSE]

SavesTypeOK ==
  /\ TypeOK
  /\ job \in [Threads -> Job \cup {NoJob}]
  /\ points \in [Accounts -> Metrics]
  /\ failed \in BOOLEAN

SavesInit ==
  /\ Init
  /\ job = [th \in Threads |-> NoJob]
  /\ points = [a \in Accounts |-> NoMetrics]
  /\ failed = FALSE

--------------------------------------------------------------------------------
(* save. *)

\* The date, then a call for each item, for the savings, and for the rates to store.
Save(th) ==
  /\ ~job[th].open
  /\ \E a \in Accounts, items \in 0 .. MaxItems :
       job' = [job EXCEPT ![th] = [open |-> TRUE, account |-> a, date |-> "today",
                                   left |-> items + 2, metrics |-> NoMetrics]]
  /\ UNCHANGED <<vars, points, failed>>

\* The next call of getCurrentRates.
Call(th) ==
  /\ job[th].open /\ job[th].left > 0
  /\ Begin(th)
  /\ UNCHANGED <<job, points, failed>>

Waiting(th) ==
  /\ Answer(th) \/ Store(th) \/ ReadEUR(th)
  /\ UNCHANGED <<job, points, failed>>

RequestFails(th) ==
  /\ Fallback(th)
  /\ failed' = TRUE
  /\ UNCHANGED <<job, points>>

\* The rates by which convert may divide, a dollar's being 1.
Ratios(e, r) == {{}, {e}, {r}}

\* What may become of the metrics with the rates of the next call.
Add(m, left, e, r) ==
  IF left = 1 THEN {[m EXCEPT !.rates = {e, r}]}
  ELSE {[m EXCEPT !.amounts = @ \cup days] : days \in Ratios(e, r)}

\* Mutant of Return: a rate that is missing is not noticed.
ReturnUnchecked(th) ==
  /\ ReadRUB(th)
  /\ \E m \in Add(job[th].metrics, job[th].left, eur[th], rub'[th]) :
       job' = [job EXCEPT ![th].left = @ - 1, ![th].metrics = m]
  /\ UNCHANGED <<points, failed>>

\* The call returns, or its exception ends save.
Return(th) ==
  /\ ReadRUB(th)
  /\ IF pc'[th] = "failed"
     THEN job' = [job EXCEPT ![th] = NoJob]
     ELSE \E m \in Add(job[th].metrics, job[th].left, eur[th], rub'[th]) :
            job' = [job EXCEPT ![th].left = @ - 1, ![th].metrics = m]
  /\ UNCHANGED <<points, failed>>

\* Mutant of StorePoint: the date is taken at the end.
StorePointNow(th) ==
  /\ job[th].open /\ job[th].left = 0
  /\ points' = [points EXCEPT ![job[th].account] = job[th].metrics]
  /\ job' = [job EXCEPT ![th] = NoJob]
  /\ UNCHANGED <<vars, failed>>

\* The data point of that account and date is replaced; those of earlier days are not
\* followed.
StorePoint(th) ==
  /\ job[th].open /\ job[th].left = 0
  /\ points' = IF job[th].date = "today"
               THEN [points EXCEPT ![job[th].account] = job[th].metrics]
               ELSE points
  /\ job' = [job EXCEPT ![th] = NoJob]
  /\ UNCHANGED <<vars, failed>>

PointNotStored(th) ==
  /\ job[th].open /\ job[th].left = 0
  /\ job' = [job EXCEPT ![th] = NoJob]
  /\ UNCHANGED <<vars, points, failed>>

--------------------------------------------------------------------------------
(* Around it. *)

ProviderTurns ==
  /\ ProviderChanges
  /\ UNCHANGED <<job, points, failed>>

OlderDays(days) == {"earlier" : d \in days}
OlderJob(j) ==
  IF j.open
  THEN [j EXCEPT !.date = "earlier",
                 !.metrics = [amounts |-> OlderDays(j.metrics.amounts),
                              rates |-> OlderDays(j.metrics.rates)]]
  ELSE j

NextDay ==
  /\ Midnight
  /\ job' = [th \in Threads |-> OlderJob(job[th])]
  /\ points' = [a \in Accounts |-> NoMetrics]
  /\ failed' = FALSE

--------------------------------------------------------------------------------

SavesNext ==
  \/ \E th \in Threads :
       \/ Save(th) \/ Call(th) \/ Waiting(th) \/ RequestFails(th) \/ Return(th)
       \/ StorePoint(th) \/ PointNotStored(th)
  \/ ProviderTurns
  \/ NextDay

SavesSpec == SavesInit /\ [][SavesNext]_savesVars
================================================================================
