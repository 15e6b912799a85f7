----------------------- MODULE StatisticsServiceProperties -----------------------
(***************************************************************************)
(* What a data point may be computed with, and when save fails.            *)
(***************************************************************************)
EXTENDS StatisticsService

\* On a day that began with no request for rates open, the data points of the day are
\* computed with that day's rates alone, and these are stored with them, although
\* every amount asks for the rates anew, other threads replace the container
\* meanwhile, and a save that began the day before may end among them.
PointOfTheDay ==
  quiet => \A a \in Accounts :
             points[a].amounts \cup points[a].rates \subseteq {"today"}

\* On such a day a call of that day fails only if a request of that day did: the
\* empty container that the fallback leaves does not outlive its day.
FailureHasCause ==
  quiet => \A th \in Threads : pc[th] = "failed" /\ began[th] = "today" => failed
================================================================================
