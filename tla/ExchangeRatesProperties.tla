------------------------ MODULE ExchangeRatesProperties ------------------------
(***************************************************************************)
(* What the cache of exchange rates guarantees to its callers.             *)
(***************************************************************************)
EXTENDS ExchangeRates

\* On a day that began with no request open, a call that begins and ends that day
\* returns rates of that day, both of them, whatever other threads assign to the
\* field while it runs.
QuietDayIsCurrent ==
  \A th \in Threads :
    quiet /\ pc[th] = "returned" /\ began[th] = "today"
    => eur[th] = "today" /\ rub[th] = "today"

\* On such a day no thread asks the provider twice, also where its first request
\* failed: the provider gets at most one request for each thread.
AskedOnceADay ==
  [][\A th \in Threads :
       quiet /\ pc[th] # "ask" /\ pc'[th] = "ask" => th \notin asked]_vars

\* Once the provider stays reachable, calls fail no more from some day on.
RatesRecover ==
  <>[]reachable => <>[](\A th \in Threads : pc[th] # "failed")
================================================================================
